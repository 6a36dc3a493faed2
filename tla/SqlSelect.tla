------------------------------ MODULE SqlSelect ------------------------------
(***************************************************************************)
(* SELECT statements as the engine sees them, and what SQLite answers.      *)
(*                                                                          *)
(* A statement is the typed tree of internal/sqlparse/ast.go.  The parts    *)
(* the tree keeps only as text (a raw conjunct, an expression to order by,  *)
(* GROUP BY, a table function) carry here what they mean, under a mark that *)
(* the planner (module Planner) looks at and never looks behind.            *)
(*                                                                          *)
(* The meaning is SQLite's, which dfetch uses as a library: three-valued    *)
(* comparison, joins with their NULL-extended rows, DISTINCT, ORDER BY with *)
(* NULL lowest, and LIMIT.  An ORDER BY that leaves ties lets LIMIT choose, *)
(* so a query has a set of answers.                                         *)
(***************************************************************************)
EXTENDS ScanContract, FiniteSetsExt

CONSTANTS
  Table,      \* the tables of the services, by schema and name
  ColumnsOf,  \* their columns
  NoRow       \* the place of a row in a NULL-extended result row

(***************************************************************************)
(* Statements.                                                              *)
(***************************************************************************)
NoValue == [kind |-> "none", v |-> Null]
Literal(v) == [kind |-> "literal", v |-> v]
Bind(v) == [kind |-> "bind", v |-> v]

NoRef == [table |-> "", column |-> ""]
Ref(table, column) == [table |-> table, column |-> column]

\* One conjunct of WHERE or ON; "raw" ones stand for an OR of `any`.
Predicate(ref, op, value) ==
  [table |-> ref.table, column |-> ref.column, op |-> op, value |-> value,
   ref |-> NoRef, any |-> {}]
Equijoin(a, b) == [Predicate(a, "=", NoValue) EXCEPT !.ref = b]
Raw(any) == [Predicate(NoRef, "raw", NoValue) EXCEPT !.any = any]

RefOf(p) == Ref(p.table, p.column)
NoLimit == [count |-> NoValue, offset |-> NoValue]
HasLimit(stmt) == stmt.limit.count # NoValue

\* What a source of the FROM clause is called in the rest of the statement.
Label(o) == IF o.alias # "" THEN o.alias ELSE o.name

(***************************************************************************)
(* Result rows.  A database gives every table its rows and the columns that *)
(* were filled; a joined row has one row, or NoRow, for each source.        *)
(***************************************************************************)
Rows(db, stmt, k) == db[stmt.from[k].table].rows

Cell(db, stmt, t, k, c) ==
  IF t[k] = NoRow \/ c \notin db[stmt.from[k].table].columns THEN Null ELSE t[k][c]

\* The source a column name refers to.
Owner(stmt, ref) ==
  CHOOSE k \in DOMAIN stmt.from :
    IF ref.table = "" THEN ref.column \in ColumnsOf[stmt.from[k].table]
                      ELSE ref.table = Label(stmt.from[k])

Read(db, stmt, t, ref) == Cell(db, stmt, t, Owner(stmt, ref), ref.column)

Compare(op, v, w) ==
  /\ v # Null /\ w # Null
  /\ \/ op = "=" /\ v = w
     \/ op = "<>" /\ v # w

PlainHolds(db, stmt, t, p) ==
  LET v == Read(db, stmt, t, RefOf(p))
  IN IF p.op = "isnull" THEN v = Null
     ELSE Compare(p.op, v, IF p.ref # NoRef THEN Read(db, stmt, t, p.ref) ELSE p.value.v)

Holds(db, stmt, t, p) ==
  IF p.op = "raw" THEN \E q \in p.any : PlainHolds(db, stmt, t, q)
                  ELSE PlainHolds(db, stmt, t, p)

\* Join j connects source j + 1.  USING names columns both sides have; a table
\* function belongs to the row it is applied to, found through `of`.
JoinHolds(db, stmt, t, j) ==
  /\ \A i \in DOMAIN stmt.joins[j].on : Holds(db, stmt, t, stmt.joins[j].on[i])
  /\ \A c \in stmt.joins[j].using \cup stmt.from[j + 1].of :
       \E k \in 1..j : /\ c \in ColumnsOf[stmt.from[k].table]
                       /\ Compare("=", Cell(db, stmt, t, k, c), Cell(db, stmt, t, j + 1, c))

\* Only the first join of a statement is a RIGHT or FULL one here.
FirstMissing(db, stmt, t) ==
  /\ 1 \in DOMAIN stmt.joins /\ stmt.joins[1].type \in {"right", "full"}
  /\ t[2] # NoRow
  /\ \A r \in Rows(db, stmt, 1) : ~JoinHolds(db, stmt, [t EXCEPT ![1] = r], 1)

OtherMissing(db, stmt, t, j) ==
  /\ stmt.joins[j].type \in {"left", "full"}
  /\ \A r \in Rows(db, stmt, j + 1) : ~JoinHolds(db, stmt, [t EXCEPT ![j + 1] = r], j)

JoinedRow(db, stmt, t) ==
  /\ \A k \in DOMAIN stmt.from : t[k] \in Rows(db, stmt, k) \cup {NoRow}
  /\ t[1] = NoRow => FirstMissing(db, stmt, t)
  /\ \A j \in DOMAIN stmt.joins :
       IF t[j + 1] = NoRow THEN OtherMissing(db, stmt, t, j)
       ELSE JoinHolds(db, stmt, t, j) \/ (j = 1 /\ t[1] = NoRow)

Selected(db, stmt, t) ==
  /\ JoinedRow(db, stmt, t)
  /\ \A i \in DOMAIN stmt.where : Holds(db, stmt, t, stmt.where[i])

SelectedRows(db, stmt) ==
  LET rows == UNION {Rows(db, stmt, k) : k \in DOMAIN stmt.from}
  IN {t \in [DOMAIN stmt.from -> rows \cup {NoRow}] : Selected(db, stmt, t)}

(***************************************************************************)
(* The output.                                                              *)
(***************************************************************************)
OutputCell(db, stmt, t, p) ==
  IF p.star THEN [k \in {n \in DOMAIN stmt.from : p.table \in {"", Label(stmt.from[n])}} |->
                    [c \in ColumnsOf[stmt.from[k].table] |-> Cell(db, stmt, t, k, c)]]
            ELSE Read(db, stmt, t, RefOf(p))

Output(db, stmt, t) ==
  [i \in DOMAIN stmt.projections |-> OutputCell(db, stmt, t, stmt.projections[i])]

\* An unqualified ORDER BY name is an output alias before it is a column.
Aliased(stmt, o) ==
  {i \in DOMAIN stmt.projections :
     ~o.expr /\ o.table = "" /\ stmt.projections[i].alias = o.column}

KeyCell(db, stmt, t, o) ==
  IF Aliased(stmt, o) # {} THEN Output(db, stmt, t)[Min(Aliased(stmt, o))]
                           ELSE Read(db, stmt, t, RefOf(o))

Key(db, stmt, t) == [i \in DOMAIN stmt.order |-> KeyCell(db, stmt, t, stmt.order[i])]

Collapses(stmt) == stmt.distinct \/ stmt.grouped
Counts(stmt) == \E i \in DOMAIN stmt.projections : stmt.projections[i].count

ResultRows(db, stmt) ==
  LET selected == SelectedRows(db, stmt)
  IN IF Counts(stmt) THEN {[of |-> <<>>, out |-> <<Cardinality(selected)>>, key |-> <<>>]}
     ELSE {[of |-> IF Collapses(stmt) THEN <<>> ELSE t,
            out |-> Output(db, stmt, t), key |-> Key(db, stmt, t)] : t \in selected}

\* The sets of `count` elements that may follow the first `skip` ones when the
\* elements are ordered by their keys: of every group of ties they hold as many as
\* there are places left for it.
Windows(key, order, skip, count) ==
  LET Less(r, s) == Before(order, key[r], key[s])
      Ahead(s) == Cardinality({r \in DOMAIN key : Less(r, s)})
      Ties(s) == {r \in DOMAIN key : ~Less(r, s) /\ ~Less(s, r)}
      Ranks(s) == (Ahead(s) + 1)..(Ahead(s) + Cardinality(Ties(s)))
  IN {A \in SUBSET DOMAIN key :
        \A s \in DOMAIN key :
          Cardinality(A \cap Ties(s)) = Cardinality(Ranks(s) \cap (skip + 1)..(skip + count))}

Answers(db, stmt) ==
  LET rows == ResultRows(db, stmt)
      skip == IF stmt.limit.offset = NoValue THEN 0 ELSE stmt.limit.offset.v
  IN IF HasLimit(stmt) THEN Windows([r \in rows |-> r.key], stmt.order, skip, stmt.limit.count.v)
                       ELSE {rows}
==============================================================================
