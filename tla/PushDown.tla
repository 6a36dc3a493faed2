------------------------------ MODULE PushDown ------------------------------
(***************************************************************************)
(* A query whose sources evaluate part of it: every source is fetched with  *)
(* the request planScan made for it, the fetched rows are loaded, and the   *)
(* whole statement is executed over them (Engine.streamSources and          *)
(* DB.Query, engine/engine.go).                                             *)
(*                                                                          *)
(* A connector emits any rows that serve the request (ScanContract; module  *)
(* Scans shows what the connectors do to serve it), with the columns asked  *)
(* for or all columns.  What was loaded for a table serves all its          *)
(* occurrences.                                                             *)
(***************************************************************************)
EXTENDS Planner

CONSTANTS
  Statements,  \* the statements considered
  Contents,    \* what the services may hold for each: sets of rows by table
  NoAnswer     \* before the query has returned

ASSUME StatementAssumption ==
  \A s \in Statements : /\ s.from \in Seq({s.from[k] : k \in DOMAIN s.from})
                        /\ \A k \in DOMAIN s.from : s.from[k].table \in Table
                        /\ DOMAIN s.joins = 1..(Len(s.from) - 1)

ASSUME OrderAssumption ==
  \A s \in Statements : /\ s.order \in Seq({s.order[i] : i \in DOMAIN s.order})
                        /\ s.limit.count.kind = "literal" => s.limit.count.v \in Nat
                        /\ s.limit.offset.kind = "literal" => s.limit.offset.v \in Nat

\* Services hold finitely many rows, of numbers and NULLs.
ASSUME ContentsAssumption ==
  /\ Null \notin Int
  /\ \A s \in Statements : \A held \in Contents[s] : \A tab \in Table :
       /\ IsFiniteSet(held[tab]) /\ NoRow \notin held[tab]
       /\ \A row \in held[tab] : \A c \in ColumnsOf[tab] : row[c] \in Int \cup {Null}

VARIABLES
  stmt,      \* the statement of this query
  upstream,  \* the rows of the services
  fetched,   \* the sources that have been fetched
  local,     \* the per-query database
  answer     \* what the query returned
vars == <<stmt, upstream, fetched, local, answer>>

\* What every table holds, with all its columns.
Whole == [tab \in Table |-> [rows |-> upstream[tab], columns |-> ColumnsOf[tab]]]

FilterHolds(f, row) == Compare(f.op, row[f.column], f.v)

Matching(filters, rows) == {row \in rows : \A f \in filters : FilterHolds(f, row)}

\* What a connector may emit.
Fetches(req, rows) == {got \in SUBSET rows : Serves(req, Matching(req.filters, rows), got)}

Filled(req, tab) == IF req.columns = {} THEN ColumnsOf[tab] ELSE req.columns

(***************************************************************************)
(* Behaviour.  A table function reads what was loaded, so its rows are      *)
(* there from the start; other tables start out empty.                      *)
(***************************************************************************)
Computed == {stmt.from[k].table : k \in {n \in DOMAIN stmt.from : Anonymous(stmt.from[n])}}

Init ==
  /\ stmt \in Statements
  /\ upstream \in Contents[stmt]
  /\ fetched = {}
  /\ local = [tab \in Table |-> [rows    |-> IF tab \in Computed THEN upstream[tab] ELSE {},
                                 columns |-> ColumnsOf[tab]]]
  /\ answer = NoAnswer

Fetch(k) ==
  /\ k \notin fetched
  /\ LET req == PlanScan(stmt, k)
         tab == stmt.from[k].table
     IN \E rows \in Fetches(req, upstream[tab]), columns \in {ColumnsOf[tab], Filled(req, tab)} :
          local' = [local EXCEPT ![tab] = [rows |-> rows, columns |-> columns]]
  /\ fetched' = fetched \cup {k}
  /\ UNCHANGED <<stmt, upstream, answer>>

Execute ==
  /\ fetched = Sources(stmt) /\ answer = NoAnswer
  /\ answer' \in Answers(local, stmt)
  /\ UNCHANGED <<stmt, upstream, fetched, local>>

Next == (\E k \in Sources(stmt) : Fetch(k)) \/ Execute

Spec == Init /\ [][Next]_vars

(***************************************************************************)
(* Properties.                                                              *)
(***************************************************************************)

\* The database holds rows of the services, under their columns, and the query
\* returns after every source was fetched.
TypeOK ==
  /\ fetched \subseteq Sources(stmt)
  /\ \A tab \in Table : /\ local[tab].rows \subseteq upstream[tab]
                        /\ local[tab].columns \subseteq ColumnsOf[tab]
  /\ answer # NoAnswer => fetched = Sources(stmt)

\* Whatever the connectors evaluate of what the planner offers them, the query
\* returns an answer it has over the whole tables (README.md: SQLite evaluates
\* everything once more, "so the result is always correct even when a connector
\* returns a superset of the rows").
AnswerCorrect == answer # NoAnswer => answer \in Answers(Whole, stmt)

\* Statements whose joins keep no row without a partner and say all they
\* require in ON and WHERE.
InnerJoins(s) ==
  \A j \in DOMAIN s.joins : /\ s.joins[j].type \in {"inner", "cross", "comma"}
                            /\ s.joins[j].using \cup s.from[j + 1].of = {}

\* The columns a conjunct reads, those of a raw one through its parts.
RefsOf(p) ==
  IF p.op = "raw" THEN {RefOf(q) : q \in p.any} \cup ({q.ref : q \in p.any} \ {NoRef})
                  ELSE {RefOf(p)} \cup ({p.ref} \ {NoRef})
Refs(s) == UNION {RefsOf(PredicateAt(s, pl)) : pl \in Places(s)}

\* A name belongs to the one source by whose alias or name, and among whose columns,
\* the planner finds it.
Means(s, ref) ==
  /\ Owner(s, ref) \in DOMAIN s.from
  /\ \A k \in DOMAIN s.from :
       Owner(s, ref) = k <=> /\ ref.column \in Columns(s, k)
                             /\ ref.table # "" => ref.table \in Names(s, k)

\* Statements that mention a table once, whose names mean the same to the planner
\* as to SQLite, and that compare a column with a value or with a column.
WellScoped(s) ==
  /\ Sources(s) = DOMAIN s.from /\ DOMAIN s.joins \subseteq Nat \ {0}
  /\ \A k \in DOMAIN s.from : s.from[k].table \in Table
  /\ \A ref \in Refs(s) : Means(s, ref)
  /\ \A pl \in Places(s) : PredicateAt(s, pl).value # NoValue => PredicateAt(s, pl).ref = NoRef

\* No connector is offered a LIMIT.
Uncut(s) == \A k \in Sources(s) : PlanScan(s, k).limit = Null

\* Without LIMIT, and where no join preserves rows, the joined rows that satisfy
\* the statement are the same in the per-query database as in the services: no
\* filter the planner infers or passes on removes one, no column it leaves out
\* is missed.
SelectionUnchanged ==
  /\ fetched = Sources(stmt)
  /\ InnerJoins(stmt) /\ WellScoped(stmt) /\ Uncut(stmt)
  => SelectedRows(local, stmt) = SelectedRows(Whole, stmt)

\* What SelectionUnchanged rests on (PushDownProofs): of a source that was fetched without a LIMIT
\* every row that passes its filters is there, and where a column was left out
\* the planner had counted it as not needed.
LoadInv ==
  /\ TypeOK
  /\ local \in [Table -> [rows    : SUBSET UNION {upstream[tab] : tab \in Table},
                          columns : SUBSET UNION {ColumnsOf[tab] : tab \in Table}]]
  /\ \A k \in fetched :
       LET tab == stmt.from[k].table
           req == PlanScan(stmt, k)
       IN /\ req.limit = Null => Matching(req.filters, upstream[tab]) \subseteq local[tab].rows
          /\ local[tab].columns \in {ColumnsOf[tab], Filled(req, tab)}

\* Statements every name of whose output means the same to the planner as to SQLite.
OutputRefs(s) ==
  {RefOf(s.projections[i]) : i \in {n \in DOMAIN s.projections : ~s.projections[n].star /\ ~s.projections[n].count}}
  \cup {RefOf(s.order[i]) : i \in {n \in DOMAIN s.order : Aliased(s, s.order[n]) = {}}}
Resolves(s) == \A ref \in OutputRefs(s) : Means(s, ref)

\* Whatever a conjunct asks of source k, the planner asks of its connector: the conjunct
\* became a filter, or what it reads of k has one value by a filter.
Settled(s, k) ==
  \A pl \in Places(s) :
    \/ pl \in {<<0, i>> : i \in FiltersOf(s, k)}
    \/ \A ref \in RefsOf(PredicateAt(s, pl)) :
         Owner(s, ref) = k => \E f \in Filters(s, k) : f.op = "=" /\ f.column = ref.column

\* Statements that offer their LIMIT to one connector, which sees all that is asked of its
\* rows, with an OFFSET that the planner can read.
Cuttable(s) ==
  /\ \E k \in Sources(s) : /\ Settled(s, k)
                           /\ \A i \in Sources(s) \ {k} : PlanScan(s, i).limit = Null
  /\ s.limit.offset = NoValue \/ s.limit.offset.kind = "literal"

\* The statements for which AnswerCorrect is proved (PushDownProofs), and what its
\* proof adds to LoadInv: of a source fetched with a LIMIT the rows serve the request,
\* and the answer was made from the rows that are there.
InScope(s) == InnerJoins(s) /\ WellScoped(s) /\ Resolves(s) /\ (Uncut(s) \/ Cuttable(s))
AnswerInv ==
  /\ LoadInv
  /\ stmt \in Statements /\ upstream \in Contents[stmt]
  /\ \A k \in fetched :
       LET tab == stmt.from[k].table
           req == PlanScan(stmt, k)
       IN Serves(req, Matching(req.filters, upstream[tab]), local[tab].rows)
  /\ answer # NoAnswer => answer \in Answers(local, stmt)
==============================================================================
