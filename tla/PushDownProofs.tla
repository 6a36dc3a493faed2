--------------------------- MODULE PushDownProofs ---------------------------
(***************************************************************************)
(* Proofs about push-down, for every statement, table and content.          *)
(*                                                                          *)
(* The first part is about the planner alone: a row that takes part in the  *)
(* result of a statement passes every filter planScan makes for its source. *)
(* The second part is an invariant of a query run, the third puts both      *)
(* together.  Then come whole answers: of statements without a LIMIT, and,  *)
(* after what there is to say of orders and of taking a LIMIT from a part   *)
(* of the rows, of statements with one.                                     *)
(***************************************************************************)
EXTENDS PushDown, SequenceTheorems, FunctionTheorems, FiniteSetTheorems, WellFoundedInduction, TLAPS

(***************************************************************************)
(* The planner.                                                             *)
(***************************************************************************)

\* Every conjunct of WHERE and of the ON clauses holds on a joined row that the
\* statement selects, if its joins preserve no rows.
LEMMA PlacesHold ==
  ASSUME NEW db, NEW s, NEW t, InnerJoins(s), WellScoped(s), Selected(db, s, t),
         NEW pl \in Places(s)
  PROVE  Holds(db, s, t, PredicateAt(s, pl))
<1>1. CASE pl \in WherePlaces(s)
  BY <1>1 DEF WherePlaces, PredicateAt, Selected
<1>2. CASE pl \in OnPlaces(s)
  <2>1. PICK j \in DOMAIN s.joins : \E i \in DOMAIN s.joins[j].on : pl = <<j, i>>
    BY <1>2 DEF OnPlaces
  <2>2. j # 0 /\ j \in Nat
    BY DEF WellScoped, Means
  <2>3. t[1] # NoRow
    BY DEF Selected, JoinedRow, FirstMissing, InnerJoins
  <2>4. JoinHolds(db, s, t, j)
    BY <2>3 DEF Selected, JoinedRow, OtherMissing, InnerJoins
  <2> QED
    BY <2>1, <2>2, <2>4 DEF JoinHolds, PredicateAt
<1> QED
  BY <1>1, <1>2 DEF Places

\* A column that is read and is not NULL is read from the row of its owner.
LEMMA ReadFromOwner ==
  ASSUME NEW s, WellScoped(s), NEW ref \in Refs(s), NEW t, Read(Whole, s, t, ref) # Null
  PROVE  /\ t[Owner(s, ref)] # NoRow
         /\ Read(Whole, s, t, ref) = t[Owner(s, ref)][ref.column]
  BY DEF Read, Cell

\* The columns read at a place belong to the statement.
LEMMA PlaceRefs ==
  ASSUME NEW s, NEW pl \in Places(s), PredicateAt(s, pl).op # "raw"
  PROVE  /\ RefOf(PredicateAt(s, pl)) \in Refs(s)
         /\ PredicateAt(s, pl).ref # NoRef => PredicateAt(s, pl).ref \in Refs(s)
<1>1. RefsOf(PredicateAt(s, pl)) \subseteq Refs(s)
  BY DEF Refs
<1> QED
  BY <1>1 DEF RefsOf

\* A place that compares a column with a value fixes or bounds that column.
LEMMA ValuePlaceReads ==
  ASSUME NEW s, NEW t, InnerJoins(s), WellScoped(s), Selected(Whole, s, t),
         NEW pl \in Places(s), PredicateAt(s, pl).op \notin {"raw", "isnull"},
         PredicateAt(s, pl).value # NoValue
  PROVE  Compare(PredicateAt(s, pl).op, Read(Whole, s, t, RefOf(PredicateAt(s, pl))),
                 PredicateAt(s, pl).value.v)
<1>1. Holds(Whole, s, t, PredicateAt(s, pl))
  BY PlacesHold
<1>2. PredicateAt(s, pl).ref = NoRef
  BY DEF WellScoped, Means
<1> QED
  BY <1>1, <1>2 DEF Holds, PlainHolds

\* A conjunct of WHERE that became a filter holds on the row of its source.
LEMMA DirectFilterHolds ==
  ASSUME NEW s, NEW t, InnerJoins(s), WellScoped(s), Selected(Whole, s, t),
         NEW k \in Sources(s), NEW f \in DirectFilters(s, k)
  PROVE  t[k] # NoRow /\ FilterHolds(f, t[k])
<1>1. PICK i \in FiltersOf(s, k) : f = Filter(s.where[i].column, s.where[i].op, s.where[i].value.v)
  BY DEF DirectFilters
<1> DEFINE p == s.where[i]
           pl == <<0, i>>
<1>2. pl \in Places(s) /\ PredicateAt(s, pl) = p
  BY <1>1 DEF FiltersOf, Places, WherePlaces, PredicateAt
<1>3. p.op \notin {"raw", "isnull"} /\ p.value # NoValue
  BY <1>1 DEF FiltersOf, ToFilter, Resolved, NoValue
<1>4. Compare(p.op, Read(Whole, s, t, RefOf(p)), p.value.v)
  BY <1>2, <1>3, ValuePlaceReads
<1>5. k \in DOMAIN s.from /\ p.column \in Columns(s, k) /\ s.from[k].table \in Table
  BY <1>1 DEF FiltersOf, Sources, WellScoped
<1>6. RefOf(p) \in Refs(s)
  BY <1>2, <1>3, PlaceRefs
<1>7. Owner(s, RefOf(p)) = k
  <2>1. RefOf(p).column \in Columns(s, k)
    BY <1>5 DEF RefOf, Ref
  <2>2. RefOf(p).table # "" => RefOf(p).table \in Names(s, k)
    BY <1>1 DEF FiltersOf, Attributable, RefOf, Ref
  <2> QED
    BY <1>5, <1>6, <2>1, <2>2 DEF WellScoped, Means
<1>8. t[k] # NoRow /\ Read(Whole, s, t, RefOf(p)) = t[k][p.column]
  <2>1. Read(Whole, s, t, RefOf(p)) # Null
    BY <1>4 DEF Compare
  <2> QED
    BY <1>6, <1>7, <2>1, ReadFromOwner DEF RefOf, Ref
<1> QED
  BY <1>1, <1>4, <1>8 DEF FilterHolds, Filter

\* A filter carried over an equi-join key holds on the row of its source.
LEMMA InferredFilterHolds ==
  ASSUME NEW s, NEW t, InnerJoins(s), WellScoped(s), Selected(Whole, s, t),
         NEW k \in Sources(s), NEW f \in InferredFilters(s, k)
  PROVE  t[k] # NoRow /\ FilterHolds(f, t[k])
<1>1. PICK inf \in FirstInferences(s, k) :
        \E v \in LiteralOf(s, Far(s, inf.place, inf.side)) :
          f = Filter(Near(s, inf.place, inf.side).column, "=", v.v)
  BY DEF InferredFilters
<1> DEFINE near == Near(s, inf.place, inf.side)
           far  == Far(s, inf.place, inf.side)
           p    == PredicateAt(s, inf.place)
<1>2. PICK v \in LiteralOf(s, far) : f = Filter(near.column, "=", v.v)
  BY <1>1
<1>3. /\ inf.place \in EquiPlaces(s) /\ inf.side \in {1, 2}
      /\ near.table \in Names(s, k) /\ near.column \in Columns(s, k)
  BY <1>1 DEF FirstInferences, Inferences
<1>4. /\ inf.place \in Places(s)
      /\ p.op = "=" /\ p.ref # NoRef /\ p.table # "" /\ p.ref.table # ""
  BY <1>3 DEF EquiPlaces
<1>6. {near, far} = {RefOf(p), p.ref}
  BY <1>3 DEF Near, Far
<1>7. near \in Refs(s) /\ far \in Refs(s)
  <2>1. RefOf(p) \in Refs(s)
    BY <1>4, PlaceRefs
  <2>2. p.ref \in Refs(s)
    BY <1>4, PlaceRefs
  <2> QED
    BY <1>6, <2>1, <2>2
<1>8. Read(Whole, s, t, near) # Null /\ Read(Whole, s, t, near) = Read(Whole, s, t, far)
  <2>1. Holds(Whole, s, t, p)
    BY <1>4, PlacesHold
  <2>2. Compare("=", Read(Whole, s, t, RefOf(p)), Read(Whole, s, t, p.ref))
    BY <2>1, <1>4 DEF Holds, PlainHolds
  <2> QED
    BY <2>2, <1>3 DEF Compare, Near, Far
<1>9. Read(Whole, s, t, far) = v.v
  <2>1. PICK lit \in LiteralPlaces(s, far) : v = PredicateAt(s, lit).value
    BY <1>2 DEF LiteralOf
  <2>2. /\ lit \in Places(s) /\ PredicateAt(s, lit).op = "=" /\ v # NoValue
        /\ RefOf(PredicateAt(s, lit)) = far
    BY <2>1 DEF LiteralPlaces
  <2>3. Compare("=", Read(Whole, s, t, far), v.v)
    BY <2>1, <2>2, ValuePlaceReads
  <2> QED
    BY <2>3 DEF Compare
<1>10. k \in DOMAIN s.from /\ Owner(s, near) = k
  BY <1>3, <1>7 DEF WellScoped, Means
<1>11. t[k] # NoRow /\ Read(Whole, s, t, near) = t[k][near.column]
  BY <1>7, <1>8, <1>10, ReadFromOwner
<1> QED
  BY <1>2, <1>8, <1>9, <1>11 DEF FilterHolds, Filter, Compare

\* Nothing the planner offers as a filter excludes a row that the statement
\* needs (planScan, toFilter and inferJoinFilters in engine/plan.go).
THEOREM FiltersKeepSelectedRows ==
  ASSUME NEW s, NEW t, InnerJoins(s), WellScoped(s), Selected(Whole, s, t),
         NEW k \in Sources(s), NEW f \in Filters(s, k)
  PROVE  t[k] # NoRow /\ FilterHolds(f, t[k])
  BY DirectFilterHolds, InferredFilterHolds DEF Filters

(***************************************************************************)
(* The query run.                                                           *)
(***************************************************************************)
IInv == stmt \in Statements /\ LoadInv

\* What a connector may return: rows of its table, and all that pass the filters
\* unless it may stop at a LIMIT.
LEMMA FetchesBounds ==
  ASSUME NEW req, NEW rows, NEW R \in Fetches(req, rows)
  PROVE  /\ R \subseteq rows
         /\ req.limit = Null => Matching(req.filters, rows) \subseteq R
  BY DEF Fetches, Serves

\* The planner asks for columns of the table.
LEMMA FilledIsOfTable ==
  ASSUME NEW s, NEW k, NEW tab, tab = s.from[k].table
  PROVE  Filled(PlanScan(s, k), tab) \subseteq ColumnsOf[tab]
<1>1. NeededColumns(s, k) \subseteq Columns(s, k)
  BY DEF NeededColumns, Marked
<1> QED
  BY <1>1 DEF Filled, PlanScan, Columns

\* Two sources are two tables.
LEMMA SourcesDiffer ==
  ASSUME NEW s \in Statements, NEW k \in Sources(s), NEW i \in Sources(s), i # k
  PROVE  s.from[i].table # s.from[k].table
<1>1. i \in Nat \ {0} /\ k \in Nat \ {0}
  <2>1. s.from \in Seq({s.from[n] : n \in DOMAIN s.from})
    BY StatementAssumption
  <2>2. DOMAIN s.from = 1..Len(s.from) /\ Len(s.from) \in Nat
    BY ONLY <2>1
  <2> QED
    BY <2>2 DEF Sources
<1>2. i \in 1..(k - 1) \/ k \in 1..(i - 1)
  BY <1>1
<1> QED
  BY <1>2 DEF Sources

LEMMA InitIInv == Init => IInv
<1> SUFFICES ASSUME Init PROVE IInv
  OBVIOUS
<1>1. TypeOK
  BY DEF Init, TypeOK
<1>2. local \in [Table -> [rows    : SUBSET UNION {upstream[tab] : tab \in Table},
                          columns : SUBSET UNION {ColumnsOf[tab] : tab \in Table}]]
  BY DEF Init
<1> QED
  BY <1>1, <1>2 DEF Init, IInv, LoadInv

LEMMA FetchIInv ==
  ASSUME IInv, NEW k \in Sources(stmt), Fetch(k)
  PROVE  IInv'
<1> DEFINE tab == stmt.from[k].table
           req == PlanScan(stmt, k)
<1>1. PICK rows \in Fetches(req, upstream[tab]), columns \in {ColumnsOf[tab], Filled(req, tab)} :
        local' = [local EXCEPT ![tab] = [rows |-> rows, columns |-> columns]]
  BY DEF Fetch
<1>2. /\ fetched' = fetched \cup {k}
      /\ stmt' = stmt /\ upstream' = upstream /\ answer' = answer /\ k \notin fetched
  BY DEF Fetch
<1>3. tab \in Table /\ stmt \in Statements
  BY StatementAssumption DEF IInv, Sources
<1>4. rows \subseteq upstream[tab] /\ (req.limit = Null => Matching(req.filters, upstream[tab]) \subseteq rows)
  BY FetchesBounds
<1>5. columns \subseteq ColumnsOf[tab]
  BY FilledIsOfTable
<1>6. /\ local'[tab] = [rows |-> rows, columns |-> columns]
      /\ \A other \in Table \ {tab} : local'[other] = local[other]
  BY <1>1, <1>3 DEF IInv, LoadInv
<1>7. TypeOK'
  <2>1. fetched' \subseteq Sources(stmt)
    BY <1>2 DEF IInv, LoadInv, TypeOK
  <2>2. answer' # NoAnswer => fetched' = Sources(stmt)
    BY <1>2 DEF IInv, LoadInv, TypeOK
  <2>3. ASSUME NEW other \in Table
        PROVE  /\ local'[other].rows \subseteq upstream[other]
               /\ local'[other].columns \subseteq ColumnsOf[other]
    BY <1>4, <1>5, <1>6 DEF IInv, LoadInv, TypeOK
  <2> QED
    BY <1>2, <2>1, <2>2, <2>3 DEF TypeOK
<1>8. (local \in [Table -> [rows    : SUBSET UNION {upstream[other] : other \in Table},
                           columns : SUBSET UNION {ColumnsOf[other] : other \in Table}]])'
  <2>1. rows \in SUBSET UNION {upstream[other] : other \in Table}
    BY <1>3, <1>4
  <2>2. columns \in SUBSET UNION {ColumnsOf[other] : other \in Table}
    BY <1>3, <1>5
  <2> QED
    BY <1>1, <1>2, <1>3, <2>1, <2>2 DEF IInv, LoadInv
<1>9. ASSUME NEW i \in fetched'
      PROVE  LET itab == stmt.from[i].table
                 ireq == PlanScan(stmt, i)
             IN /\ ireq.limit = Null => Matching(ireq.filters, upstream[itab]) \subseteq local'[itab].rows
                /\ local'[itab].columns \in {ColumnsOf[itab], Filled(ireq, itab)}
  <2>1. CASE i = k
    BY <1>4, <1>6, <2>1
  <2>2. CASE i # k
    <3>1. i \in fetched /\ i \in Sources(stmt)
      BY <1>2, <2>2 DEF IInv, LoadInv, TypeOK
    <3>2. stmt.from[i].table \in Table \ {tab}
      BY <1>3, <2>2, <3>1, SourcesDiffer, StatementAssumption DEF Sources
    <3> QED
      BY <1>6, <3>1, <3>2 DEF IInv, LoadInv
  <2> QED
    BY <2>1, <2>2
<1> QED
  BY <1>2, <1>3, <1>7, <1>8, <1>9 DEF IInv, LoadInv

LEMMA NextIInv == IInv /\ [Next]_vars => IInv'
<1> SUFFICES ASSUME IInv, [Next]_vars PROVE IInv'
  OBVIOUS
<1>1. CASE \E k \in Sources(stmt) : Fetch(k)
  BY <1>1, FetchIInv
<1>2. CASE Execute
  <2>1. /\ stmt' = stmt /\ upstream' = upstream /\ fetched' = fetched /\ local' = local
        /\ fetched = Sources(stmt)
    BY <1>2 DEF Execute
  <2> QED
    BY <2>1 DEF IInv, LoadInv, TypeOK
<1>3. CASE UNCHANGED vars
  BY <1>3 DEF vars, IInv, LoadInv, TypeOK
<1> QED
  BY <1>1, <1>2, <1>3 DEF Next

LEMMA SpecIInv == Spec => []IInv
  BY InitIInv, NextIInv, PTL DEF Spec

\* The database never holds a row the services do not have, and the query
\* executes only after every source was fetched (Engine.RunWithParams).
THEOREM LoadedFromTheServices == Spec => []TypeOK
<1>1. IInv => TypeOK
  BY DEF IInv, LoadInv
<1> QED
  BY <1>1, SpecIInv, PTL

(***************************************************************************)
(* Both together.                                                           *)
(***************************************************************************)

\* With no rows preserved, a statement selects the joined rows on which all its
\* conditions hold.
LEMMA InnerSelected ==
  ASSUME NEW db, NEW s, NEW t, InnerJoins(s), WellScoped(s)
  PROVE  Selected(db, s, t) <=>
           /\ \A k \in DOMAIN s.from : t[k] \in Rows(db, s, k) \cup {NoRow}
           /\ t[1] # NoRow
           /\ \A j \in DOMAIN s.joins : t[j + 1] # NoRow /\ JoinHolds(db, s, t, j)
           /\ \A i \in DOMAIN s.where : Holds(db, s, t, s.where[i])
<1>1. ~FirstMissing(db, s, t)
  BY DEF FirstMissing, InnerJoins
<1>2. \A j \in DOMAIN s.joins : ~OtherMissing(db, s, t, j)
  BY DEF OtherMissing, InnerJoins
<1> QED
  BY <1>1, <1>2 DEF Selected, JoinedRow

\* A column the statement's conditions read was loaded.
LEMMA ReadColumnsLoaded ==
  ASSUME IInv, fetched = Sources(stmt), WellScoped(stmt), NEW pl \in Places(stmt),
         NEW ref \in RefsOf(PredicateAt(stmt, pl))
  PROVE  /\ Owner(stmt, ref) \in DOMAIN stmt.from
         /\ ref.column \in local[stmt.from[Owner(stmt, ref)].table].columns
<1> DEFINE k == Owner(stmt, ref)
           tab == stmt.from[k].table
           p == PredicateAt(stmt, pl)
<1>1. ref \in Refs(stmt)
  BY DEF Refs
<1>2. /\ k \in DOMAIN stmt.from /\ k \in fetched
      /\ ref.column \in Columns(stmt, k) /\ (ref.table # "" => ref.table \in Names(stmt, k))
  BY <1>1 DEF WellScoped, Means
<1>3. local[tab].columns \in {ColumnsOf[tab], Filled(PlanScan(stmt, k), tab)}
  BY <1>2 DEF IInv, LoadInv
<1>4. CASE HidesColumns(stmt, k)
  <2>1. Filled(PlanScan(stmt, k), tab) = ColumnsOf[tab]
    BY <1>4 DEF Filled, PlanScan, NeededColumns
  <2> QED
    BY <1>2, <1>3, <2>1 DEF Columns
<1>5. CASE ~HidesColumns(stmt, k)
  <2>1. p.op # "raw"
    BY <1>5 DEF HidesColumns
  <2>2. ref \in VisibleRefs(stmt)
    <3>1. CASE ref = RefOf(p)
      BY <3>1 DEF VisibleRefs
    <3>2. CASE ref = p.ref
      BY <3>2 DEF VisibleRefs
    <3> QED
      BY <2>1, <3>1, <3>2 DEF RefsOf
  <2>3. Attributable(ref.table, stmt, k, Single(stmt))
    BY <1>2, <1>5, <2>2 DEF HidesColumns, Ambiguous, Attributable
  <2>4. ref.column \in NeededColumns(stmt, k)
    BY <1>2, <1>5, <2>2, <2>3 DEF NeededColumns, Marked
  <2> QED
    BY <1>2, <1>3, <2>4 DEF Filled, PlanScan, Columns
<1> QED
  BY <1>2, <1>4, <1>5

\* Such a column reads the same in the database as in the services.
LEMMA SameRead ==
  ASSUME IInv, fetched = Sources(stmt), WellScoped(stmt), NEW pl \in Places(stmt),
         NEW ref \in RefsOf(PredicateAt(stmt, pl)), NEW t
  PROVE  Read(local, stmt, t, ref) = Read(Whole, stmt, t, ref)
<1> DEFINE k == Owner(stmt, ref)
           tab == stmt.from[k].table
<1>1. k \in DOMAIN stmt.from /\ ref.column \in local[tab].columns
  BY ReadColumnsLoaded
<1>2. tab \in Table
  BY <1>1 DEF WellScoped, Means
<1>3. ref.column \in Whole[tab].columns
  BY <1>1, <1>2 DEF IInv, LoadInv, TypeOK, Whole
<1> QED
  BY <1>1, <1>3 DEF Read, Cell

\* A conjunct is about the columns it reads.
LEMMA HoldsByReads ==
  ASSUME NEW s, NEW p, NEW db, NEW t, NEW other, NEW u,
         \A ref \in RefsOf(p) : Read(db, s, t, ref) = Read(other, s, u, ref)
  PROVE  Holds(db, s, t, p) <=> Holds(other, s, u, p)
<1>1. CASE p.op # "raw"
  BY <1>1 DEF RefsOf, Holds, PlainHolds
<1>2. CASE p.op = "raw"
  <2>1. ASSUME NEW q \in p.any
        PROVE  PlainHolds(db, s, t, q) <=> PlainHolds(other, s, u, q)
    BY <1>2 DEF RefsOf, PlainHolds
  <2> QED
    BY <1>2, <2>1 DEF Holds
<1> QED
  BY <1>1, <1>2

\* So a conjunct holds in one exactly if it holds in the other,
LEMMA SameHolds ==
  ASSUME IInv, fetched = Sources(stmt), WellScoped(stmt), NEW pl \in Places(stmt), NEW t
  PROVE  Holds(local, stmt, t, PredicateAt(stmt, pl)) <=> Holds(Whole, stmt, t, PredicateAt(stmt, pl))
<1>1. \A ref \in RefsOf(PredicateAt(stmt, pl)) : Read(local, stmt, t, ref) = Read(Whole, stmt, t, ref)
  BY SameRead
<1> QED
  BY <1>1, HoldsByReads

\* and so does the condition of a join.
LEMMA SameJoin ==
  ASSUME IInv, fetched = Sources(stmt), InnerJoins(stmt), WellScoped(stmt),
         NEW j \in DOMAIN stmt.joins, NEW t
  PROVE  JoinHolds(local, stmt, t, j) <=> JoinHolds(Whole, stmt, t, j)
<1>1. stmt.joins[j].using \cup stmt.from[j + 1].of = {}
  BY DEF InnerJoins
<1>2. ASSUME NEW i \in DOMAIN stmt.joins[j].on
      PROVE  Holds(local, stmt, t, stmt.joins[j].on[i]) <=> Holds(Whole, stmt, t, stmt.joins[j].on[i])
  <2>1. <<j, i>> \in Places(stmt)
    BY DEF Places, OnPlaces
  <2>2. PredicateAt(stmt, <<j, i>>) = stmt.joins[j].on[i]
    BY DEF PredicateAt, WellScoped
  <2> QED
    BY <2>1, <2>2, SameHolds
<1> QED
  BY <1>1, <1>2 DEF JoinHolds

LEMMA SameWhere ==
  ASSUME IInv, fetched = Sources(stmt), WellScoped(stmt), NEW i \in DOMAIN stmt.where, NEW t
  PROVE  Holds(local, stmt, t, stmt.where[i]) <=> Holds(Whole, stmt, t, stmt.where[i])
<1>1. <<0, i>> \in Places(stmt) /\ PredicateAt(stmt, <<0, i>>) = stmt.where[i]
  BY DEF Places, WherePlaces, PredicateAt
<1> QED
  BY <1>1, SameHolds

\* A joined row that the statement selects from the services was loaded: each of
\* its rows passes the filters of its source.
LEMMA SelectedLoaded ==
  ASSUME IInv, fetched = Sources(stmt), InnerJoins(stmt), WellScoped(stmt),
         NEW t, Selected(Whole, stmt, t), NEW k \in DOMAIN stmt.from, PlanScan(stmt, k).limit = Null
  PROVE  t[k] \in Rows(local, stmt, k) \cup {NoRow}
<1> DEFINE tab == stmt.from[k].table
           req == PlanScan(stmt, k)
<1>1. k \in Sources(stmt) /\ tab \in Table
  BY DEF WellScoped, Means
<1>2. t[k] \in upstream[tab] \cup {NoRow}
  BY <1>1 DEF Selected, JoinedRow, Rows, Whole
<1>3. SUFFICES ASSUME t[k] # NoRow PROVE t[k] \in local[tab].rows
  BY DEF Rows
<1>4. \A f \in req.filters : FilterHolds(f, t[k])
  BY <1>1, FiltersKeepSelectedRows DEF PlanScan
<1>5. t[k] \in Matching(req.filters, upstream[tab])
  BY <1>2, <1>3, <1>4 DEF Matching
<1> QED
  BY <1>1, <1>5 DEF IInv, LoadInv

\* What the database selects, the services have.
LEMMA LocalSelected ==
  ASSUME IInv, fetched = Sources(stmt), InnerJoins(stmt), WellScoped(stmt),
         NEW t, Selected(local, stmt, t)
  PROVE  Selected(Whole, stmt, t)
<1>1. ASSUME NEW k \in DOMAIN stmt.from
      PROVE  Rows(local, stmt, k) \subseteq Rows(Whole, stmt, k)
  <2>1. stmt.from[k].table \in Table
    BY DEF WellScoped
  <2> QED
    BY <2>1 DEF IInv, LoadInv, TypeOK, Rows, Whole
<1> QED
  BY <1>1, InnerSelected, SameJoin, SameWhere

\* Both databases select the same joined rows.
LEMMA SameSelected ==
  ASSUME IInv, fetched = Sources(stmt), InnerJoins(stmt), WellScoped(stmt), Uncut(stmt), NEW t
  PROVE  Selected(local, stmt, t) <=> Selected(Whole, stmt, t)
<1>1. \A k \in DOMAIN stmt.from : PlanScan(stmt, k).limit = Null
  BY DEF Uncut, WellScoped
<1>2. Selected(Whole, stmt, t) => Selected(local, stmt, t)
  BY <1>1, SelectedLoaded, InnerSelected, SameJoin, SameWhere
<1> QED
  BY <1>2, LocalSelected

LEMMA IInvSelection == IInv => SelectionUnchanged
<1> SUFFICES ASSUME IInv, fetched = Sources(stmt), InnerJoins(stmt), WellScoped(stmt), Uncut(stmt)
             PROVE  SelectedRows(local, stmt) = SelectedRows(Whole, stmt)
  BY DEF SelectionUnchanged
<1> DEFINE loaded == UNION {Rows(local, stmt, k) : k \in DOMAIN stmt.from}
           whole  == UNION {Rows(Whole, stmt, k) : k \in DOMAIN stmt.from}
<1>1. \A t : Selected(local, stmt, t) <=> Selected(Whole, stmt, t)
  BY SameSelected
<1>2. ASSUME NEW t \in [DOMAIN stmt.from -> loaded \cup {NoRow}]
      PROVE  t \in [DOMAIN stmt.from -> whole \cup {NoRow}]
  <2>1. \A k \in DOMAIN stmt.from : Rows(local, stmt, k) \subseteq Rows(Whole, stmt, k)
    BY DEF WellScoped, Means, IInv, LoadInv, TypeOK, Rows, Whole
  <2> QED
    BY <2>1
<1>3. ASSUME NEW t \in [DOMAIN stmt.from -> whole \cup {NoRow}], Selected(local, stmt, t)
      PROVE  t \in [DOMAIN stmt.from -> loaded \cup {NoRow}]
  <2>1. \A k \in DOMAIN stmt.from : t[k] \in Rows(local, stmt, k) \cup {NoRow}
    BY <1>3 DEF Selected, JoinedRow
  <2>2. \A k \in DOMAIN stmt.from : t[k] \in loaded \cup {NoRow}
    BY <2>1
  <2> QED
    BY <2>2
<1> QED
  BY <1>1, <1>2, <1>3 DEF SelectedRows

\* A query without LIMIT whose joins preserve no rows selects from the fetched
\* rows exactly what it selects from the whole tables, whatever the connectors
\* did with their filters and columns (planScan in engine/plan.go).
THEOREM SelectionIsUnchanged == Spec => []SelectionUnchanged
  BY SpecIInv, IInvSelection, PTL

(***************************************************************************)
(* Answers without LIMIT.                                                   *)
(***************************************************************************)

\* Where the planner cannot see which columns are read, all are loaded.
LEMMA HiddenLoaded ==
  ASSUME IInv, fetched = Sources(stmt), NEW k \in Sources(stmt), HidesColumns(stmt, k)
  PROVE  local[stmt.from[k].table].columns = ColumnsOf[stmt.from[k].table]
  BY DEF IInv, LoadInv, Filled, PlanScan, NeededColumns

\* What the output and ORDER BY read, reads the same in the database as in the services.
LEMMA OutputRead ==
  ASSUME IInv, fetched = Sources(stmt), WellScoped(stmt), Resolves(stmt),
         NEW ref \in OutputRefs(stmt), NEW t
  PROVE  Read(local, stmt, t, ref) = Read(Whole, stmt, t, ref)
<1> DEFINE k == Owner(stmt, ref)
           tab == stmt.from[k].table
<1>1. /\ k \in DOMAIN stmt.from /\ k \in Sources(stmt) /\ tab \in Table
      /\ ref.column \in Columns(stmt, k) /\ (ref.table # "" => ref.table \in Names(stmt, k))
  BY DEF Resolves, Means, WellScoped
<1>2. ref.column \in local[tab].columns
  <2>1. CASE HidesColumns(stmt, k)
    BY <1>1, <2>1, HiddenLoaded DEF Columns
  <2>2. CASE ~HidesColumns(stmt, k)
    <3>1. ref \in VisibleRefs(stmt)
      <4>1. CASE \E i \in DOMAIN stmt.projections :
                   ~stmt.projections[i].star /\ ref = RefOf(stmt.projections[i])
        BY <4>1 DEF VisibleRefs
      <4>2. CASE \E i \in DOMAIN stmt.order : ref = RefOf(stmt.order[i])
        <5>1. PICK i \in DOMAIN stmt.order : ref = RefOf(stmt.order[i])
          BY <4>2
        <5>2. OrderColumn(stmt.order[i]) = stmt.order[i].column
          BY <2>2 DEF HidesColumns, OrderColumn
        <5> QED
          BY <5>1, <5>2 DEF VisibleRefs, RefOf
      <4> QED
        BY <4>1, <4>2 DEF OutputRefs
    <3>2. Attributable(ref.table, stmt, k, Single(stmt))
      BY <1>1, <2>2, <3>1 DEF HidesColumns, Ambiguous, Attributable
    <3>3. ref.column \in NeededColumns(stmt, k)
      BY <1>1, <2>2, <3>1, <3>2 DEF NeededColumns, Marked
    <3>4. local[tab].columns \in {ColumnsOf[tab], Filled(PlanScan(stmt, k), tab)}
      BY <1>1 DEF IInv, LoadInv
    <3> QED
      BY <1>1, <3>3, <3>4 DEF Filled, PlanScan, Columns
  <2> QED
    BY <2>1, <2>2
<1>3. ref.column \in Whole[tab].columns
  BY <1>1 DEF Whole, Columns
<1> QED
  BY <1>2, <1>3 DEF Read, Cell

\* A joined row is put out the same way,
LEMMA SameOutput ==
  ASSUME IInv, fetched = Sources(stmt), WellScoped(stmt), Resolves(stmt), ~Counts(stmt), NEW t
  PROVE  Output(local, stmt, t) = Output(Whole, stmt, t)
<1> SUFFICES ASSUME NEW i \in DOMAIN stmt.projections
             PROVE  OutputCell(local, stmt, t, stmt.projections[i]) = OutputCell(Whole, stmt, t, stmt.projections[i])
  BY DEF Output
<1> DEFINE p == stmt.projections[i]
           shown == {n \in DOMAIN stmt.from : p.table \in {"", Label(stmt.from[n])}}
<1>1. CASE p.star
  <2>1. ASSUME NEW k \in shown, NEW c \in ColumnsOf[stmt.from[k].table]
        PROVE  Cell(local, stmt, t, k, c) = Cell(Whole, stmt, t, k, c)
    <3>1. k \in Sources(stmt) /\ stmt.from[k].table \in Table
      BY DEF WellScoped
    <3>2. StarOf(stmt, k, p)
      BY <1>1 DEF StarOf, Attributable, Names, Label
    <3>3. HidesColumns(stmt, k)
      BY <3>2 DEF HidesColumns
    <3>4. local[stmt.from[k].table].columns = ColumnsOf[stmt.from[k].table]
      BY <3>1, <3>3, HiddenLoaded
    <3> QED
      BY <3>1, <3>4 DEF Cell, Whole
  <2> QED
    BY <1>1, <2>1 DEF OutputCell
<1>2. CASE ~p.star
  <2>1. RefOf(p) \in OutputRefs(stmt)
    BY <1>2 DEF OutputRefs, Counts
  <2> QED
    BY <1>2, <2>1, OutputRead DEF OutputCell
<1> QED
  BY <1>1, <1>2

\* and sorted by the same key.
LEMMA SameKey ==
  ASSUME IInv, fetched = Sources(stmt), WellScoped(stmt), Resolves(stmt), ~Counts(stmt), NEW t
  PROVE  Key(local, stmt, t) = Key(Whole, stmt, t)
<1> SUFFICES ASSUME NEW i \in DOMAIN stmt.order
             PROVE  KeyCell(local, stmt, t, stmt.order[i]) = KeyCell(Whole, stmt, t, stmt.order[i])
  BY DEF Key
<1>1. CASE Aliased(stmt, stmt.order[i]) # {}
  BY <1>1, SameOutput DEF KeyCell
<1>2. CASE Aliased(stmt, stmt.order[i]) = {}
  <2>1. RefOf(stmt.order[i]) \in OutputRefs(stmt)
    BY <1>2 DEF OutputRefs
  <2> QED
    BY <1>2, <2>1, OutputRead DEF KeyCell
<1> QED
  BY <1>1, <1>2

\* What a joined row becomes in the result.
Result(db, t) ==
  [of |-> IF Collapses(stmt) THEN <<>> ELSE t, out |-> Output(db, stmt, t), key |-> Key(db, stmt, t)]

LEMMA SameResult ==
  ASSUME IInv, fetched = Sources(stmt), WellScoped(stmt), Resolves(stmt), ~Counts(stmt)
  PROVE  ResultRows(local, stmt) = {Result(Whole, t) : t \in SelectedRows(local, stmt)}
<1>1. \A t : Result(local, t) = Result(Whole, t)
  BY SameOutput, SameKey DEF Result
<1>2. ResultRows(local, stmt) = {Result(local, t) : t \in SelectedRows(local, stmt)}
  BY DEF ResultRows, Result
<1> QED
  BY <1>1, <1>2

\* A query that offers no LIMIT has the answers it has over the whole tables.
LEMMA UncutAnswers ==
  ASSUME IInv, fetched = Sources(stmt), InnerJoins(stmt), WellScoped(stmt), Resolves(stmt), Uncut(stmt)
  PROVE  Answers(local, stmt) = Answers(Whole, stmt)
<1>1. SelectedRows(local, stmt) = SelectedRows(Whole, stmt)
  BY IInvSelection DEF SelectionUnchanged
<1>2. ResultRows(local, stmt) = ResultRows(Whole, stmt)
  <2>1. CASE Counts(stmt)
    BY <1>1, <2>1 DEF ResultRows
  <2>2. CASE ~Counts(stmt)
    <3>1. ResultRows(Whole, stmt) = {Result(Whole, t) : t \in SelectedRows(Whole, stmt)}
      BY <2>2 DEF ResultRows, Result
    <3> QED
      BY <1>1, <2>2, <3>1, SameResult
  <2> QED
    BY <2>1, <2>2
<1> QED
  BY <1>2 DEF Answers

(***************************************************************************)
(* Orders.                                                                  *)
(***************************************************************************)

\* Every set of natural numbers has a least one.
LEMMA Least ==
  ASSUME NEW T, T \subseteq Nat, T # {}
  PROVE  \E x \in T : \A y \in T : x <= y
<1> DEFINE Below == {ss \in Nat \X Nat : ss[1] < ss[2]}
<1>1. IsWellFoundedOn(Below, Nat)
  BY NatLessThanWellFounded DEF OpToRel
<1> HIDE DEF Below
<1>2. PICK x \in T : \A y \in T : <<y, x>> \notin Below
  BY <1>1, WFMin, Zenon
<1>3. ASSUME NEW y \in T PROVE x <= y
  <2>1. x \in Nat /\ y \in Nat /\ <<y, x>> \notin Below
    BY <1>2
  <2>2. ~(<<y, x>>[1] < <<y, x>>[2])
    BY <2>1 DEF Below
  <2> QED
    BY <2>1, <2>2
<1> QED
  BY <1>3

(***************************************************************************)
(* The order of ORDER BY.                                                   *)
(***************************************************************************)
Keys(order) == [DOMAIN order -> Int \cup {Null}]
IsOrder(order) == order \in Seq({order[i] : i \in DOMAIN order})

LEMMA BeforeAt ==
  ASSUME Null \notin Int, NEW order, NEW u \in Keys(order), NEW w \in Keys(order)
  PROVE  Before(order, u, w) <=>
           \E i \in DOMAIN order :
             /\ \A j \in 1..(i - 1) : u[j] = w[j]
             /\ IF order[i].desc THEN Lower(w[i], u[i]) ELSE Lower(u[i], w[i])
<1>1. DOMAIN u = DOMAIN order /\ DOMAIN w = DOMAIN order
  BY DEF Keys
<1> QED
  BY <1>1 DEF Before

\* Of two keys at most one comes before the other.
LEMMA BeforeOneWay ==
  ASSUME Null \notin Int, NEW order, IsOrder(order), NEW u \in Keys(order), NEW w \in Keys(order),
         Before(order, u, w)
  PROVE  ~Before(order, w, u)
<1>1. PICK i \in DOMAIN order : /\ \A j \in 1..(i - 1) : u[j] = w[j]
                                /\ IF order[i].desc THEN Lower(w[i], u[i]) ELSE Lower(u[i], w[i])
  BY BeforeAt
<1>2. SUFFICES ASSUME NEW n \in DOMAIN order, \A j \in 1..(n - 1) : w[j] = u[j],
                      IF order[n].desc THEN Lower(u[n], w[n]) ELSE Lower(w[n], u[n])
               PROVE  FALSE
  BY BeforeAt
<1>3. i \in Nat \ {0} /\ n \in Nat \ {0}
  BY DEF IsOrder
<1>4. u[i] \in Int \cup {Null} /\ w[i] \in Int \cup {Null} /\ u[n] \in Int \cup {Null} /\ w[n] \in Int \cup {Null}
  BY DEF Keys
<1>5. u[i] # w[i] /\ u[n] # w[n]
  BY <1>1, <1>2, <1>4 DEF Lower
<1>6. i = n
  BY <1>1, <1>2, <1>3, <1>5
<1> QED
  BY <1>1, <1>2, <1>4, <1>6 DEF Lower

\* A key between two keys is behind the first or before the second.
LEMMA BeforeSplits ==
  ASSUME Null \notin Int, NEW order, IsOrder(order),
         NEW u \in Keys(order), NEW v \in Keys(order), NEW w \in Keys(order),
         Before(order, u, w)
  PROVE  Before(order, u, v) \/ Before(order, v, w)
<1>1. PICK i \in DOMAIN order : /\ \A j \in 1..(i - 1) : u[j] = w[j]
                                /\ IF order[i].desc THEN Lower(w[i], u[i]) ELSE Lower(u[i], w[i])
  BY BeforeAt
<1> DEFINE Differs == {n \in DOMAIN order : v[n] # u[n] \/ v[n] # w[n]}
<1>2. DOMAIN order = 1..Len(order) /\ Len(order) \in Nat
  BY DEF IsOrder
<1>3. \A n \in DOMAIN order : u[n] \in Int \cup {Null} /\ v[n] \in Int \cup {Null} /\ w[n] \in Int \cup {Null}
  BY DEF Keys
<1>4. u[i] # w[i]
  BY <1>1, <1>3 DEF Lower
<1>5. PICK n \in Differs : \A y \in Differs : n <= y
  <2>1. i \in Differs /\ Differs \subseteq Nat
    BY <1>2, <1>4
  <2> QED
    BY <2>1, Least
<1>6. n \in DOMAIN order /\ n <= i /\ n \in Nat \ {0} /\ i \in Nat \ {0}
  BY <1>2, <1>4, <1>5
<1>7. \A j \in 1..(n - 1) : v[j] = u[j] /\ v[j] = w[j]
  <2> SUFFICES ASSUME NEW j \in 1..(n - 1) PROVE v[j] = u[j] /\ v[j] = w[j]
    OBVIOUS
  <2>1. j \in DOMAIN order /\ ~(n <= j)
    BY <1>2, <1>6
  <2>2. j \notin Differs
    BY <1>5, <2>1
  <2> QED
    BY <2>1, <2>2
<1>8. CASE n = i
  <2>1. \/ IF order[i].desc THEN Lower(v[i], u[i]) ELSE Lower(u[i], v[i])
        \/ IF order[i].desc THEN Lower(w[i], v[i]) ELSE Lower(v[i], w[i])
    BY <1>1, <1>3 DEF Lower
  <2> QED
    BY <1>7, <1>8, <2>1, BeforeAt
<1>9. CASE n < i
  <2>1. u[n] = w[n] /\ v[n] # u[n]
    BY <1>1, <1>5, <1>6, <1>9
  <2>2. Lower(u[n], v[n]) \/ Lower(v[n], u[n])
    BY <1>3, <1>6, <2>1 DEF Lower
  <2>3. \/ IF order[n].desc THEN Lower(v[n], u[n]) ELSE Lower(u[n], v[n])
        \/ IF order[n].desc THEN Lower(w[n], v[n]) ELSE Lower(v[n], w[n])
    BY <2>1, <2>2
  <2> QED
    BY <1>6, <1>7, <2>3, BeforeAt
<1> QED
  BY <1>6, <1>8, <1>9

(***************************************************************************)
(* LIMIT over a part of the rows.                                           *)
(***************************************************************************)
Less(key, order, r, s) == Before(order, key[r], key[s])
AheadOf(key, order, s) == {r \in DOMAIN key : Less(key, order, r, s)}
TiesOf(key, order, s) == {r \in DOMAIN key : ~Less(key, order, r, s) /\ ~Less(key, order, s, r)}
Ranked(a, t) == (a + 1)..(a + t)

LEMMA InWindows ==
  ASSUME NEW key, NEW order, NEW skip, NEW count, NEW A
  PROVE  A \in Windows(key, order, skip, count) <=>
           /\ A \subseteq DOMAIN key
           /\ \A s \in DOMAIN key :
                Cardinality(A \cap TiesOf(key, order, s))
                  = Cardinality(Ranked(Cardinality(AheadOf(key, order, s)), Cardinality(TiesOf(key, order, s)))
                                \cap (skip + 1)..(skip + count))
  BY DEF Windows, Less, AheadOf, TiesOf, Ranked

\* `part` holds all rows but some that are behind, or tie with, enough others for
\* the LIMIT; a row is ranked by its key.
Enough(part, key, order, n) ==
  \A m \in DOMAIN key \ part : n <= Cardinality({g \in part : ~Less(key, order, m, g)})

\* A window of such a part is a window of all rows.
LEMMA WindowOfPart ==
  ASSUME Null \notin Int, NEW order, IsOrder(order),
         NEW all, IsFiniteSet(all), NEW key \in [all -> Keys(order)],
         NEW part \in SUBSET all, NEW skip \in Nat, NEW count \in Nat,
         Enough(part, key, order, skip + count),
         NEW pkey, pkey = [r \in part |-> key[r]],
         NEW A \in Windows(pkey, order, skip, count)
  PROVE  A \in Windows(key, order, skip, count)
<1> DEFINE ahead(s) == AheadOf(key, order, s)
           ties(s)  == TiesOf(key, order, s)
           pahead(s) == AheadOf(pkey, order, s)
           pties(s)  == TiesOf(pkey, order, s)
           asked == (skip + 1)..(skip + count)
<1>1. /\ A \subseteq part
      /\ \A s \in part : Cardinality(A \cap pties(s))
                           = Cardinality(Ranked(Cardinality(pahead(s)), Cardinality(pties(s))) \cap asked)
  BY InWindows, DOMAIN pkey = part
<1>2. ASSUME NEW s \in part
      PROVE  pahead(s) = ahead(s) \cap part /\ pties(s) = ties(s) \cap part
  BY <1>2 DEF AheadOf, TiesOf, Less
<1>3. ASSUME NEW s \in all
      PROVE  /\ IsFiniteSet(ahead(s)) /\ Cardinality(ahead(s)) \in Nat
             /\ IsFiniteSet(ties(s)) /\ Cardinality(ties(s)) \in Nat
  <2>1. ahead(s) \subseteq all /\ ties(s) \subseteq all
    BY DEF AheadOf, TiesOf
  <2> QED
    BY <2>1, FS_Subset, FS_CardinalityType
<1>4. \A r, s \in all : Less(key, order, r, s) => ~Less(key, order, s, r)
  BY BeforeOneWay DEF Less
<1>5. \A r, m, s \in all : Less(key, order, r, s) => Less(key, order, r, m) \/ Less(key, order, m, s)
  BY BeforeSplits DEF Less
<1>6. ASSUME NEW s \in all, Cardinality(ahead(s)) < skip + count
      PROVE  ahead(s) \subseteq part
  <2> SUFFICES ASSUME NEW m \in ahead(s), m \notin part PROVE FALSE
    OBVIOUS
  <2>1. m \in all /\ Less(key, order, m, s)
    BY DEF AheadOf
  <2> DEFINE near == {g \in part : ~Less(key, order, m, g)}
  <2>2. skip + count <= Cardinality(near)
    BY <2>1 DEF Enough
  <2>3. near \subseteq ahead(s)
    BY <1>5, <2>1 DEF AheadOf
  <2>4. Cardinality(near) <= Cardinality(ahead(s)) /\ Cardinality(near) \in Nat
    BY <1>3, <2>3, FS_Subset, FS_CardinalityType
  <2> QED
    BY <1>3, <1>6, <2>2, <2>4
<1>7. ASSUME NEW s \in all, NEW r \in ties(s)
      PROVE  ahead(r) = ahead(s) /\ ties(r) = ties(s) /\ r \in all /\ s \in ties(r)
  <2>1. r \in all /\ ~Less(key, order, r, s) /\ ~Less(key, order, s, r)
    BY DEF TiesOf
  <2> QED
    BY <1>4, <1>5, <2>1 DEF TiesOf, AheadOf
<1>8. ASSUME NEW s \in all
      PROVE  Cardinality(A \cap ties(s)) = Cardinality(Ranked(Cardinality(ahead(s)), Cardinality(ties(s))) \cap asked)
  <2> DEFINE a == Cardinality(ahead(s))
             t == Cardinality(ties(s))
  <2>1. CASE a >= skip + count
    <3>1. Ranked(a, t) \cap asked = {}
      BY <1>3, <2>1 DEF Ranked
    <3>2. A \cap ties(s) = {}
      <4> SUFFICES ASSUME NEW r \in A, r \in ties(s) PROVE FALSE
        OBVIOUS
      <4>1. r \in part /\ r \in all /\ ahead(r) = ahead(s) /\ ties(r) = ties(s)
        BY <1>1, <1>7
      <4>2. r \in A \cap pties(r)
        BY <1>2, <1>4, <4>1 DEF TiesOf
      <4>3. IsFiniteSet(A \cap pties(r))
        BY <1>1, FS_Subset
      <4>4. Cardinality(A \cap pties(r)) # 0
        BY <4>2, <4>3, FS_EmptySet
      <4>5. Ranked(Cardinality(pahead(r)), Cardinality(pties(r))) \cap asked # {}
        BY <1>1, <4>1, <4>4, FS_EmptySet
      <4>6. Cardinality(pahead(r)) < skip + count
        <5>1. Cardinality(pahead(r)) \in Nat /\ Cardinality(pties(r)) \in Nat
          BY <1>2, <1>3, <4>1, FS_Subset, FS_CardinalityType
        <5> QED
          BY <4>5, <5>1 DEF Ranked
      <4>7. ahead(s) \subseteq part
        <5> SUFFICES ASSUME NEW m \in ahead(s), m \notin part PROVE FALSE
          OBVIOUS
        <5>1. m \in all /\ Less(key, order, m, r)
          BY <4>1 DEF AheadOf
        <5> DEFINE near == {g \in part : ~Less(key, order, m, g)}
        <5>2. skip + count <= Cardinality(near)
          BY <5>1 DEF Enough
        <5>3. near \subseteq pahead(r)
          BY <1>2, <1>5, <4>1, <5>1 DEF AheadOf
        <5>4. IsFiniteSet(pahead(r)) /\ Cardinality(pahead(r)) \in Nat
          BY <1>2, <1>3, <4>1, FS_Subset, FS_CardinalityType
        <5>5. Cardinality(near) <= Cardinality(pahead(r)) /\ Cardinality(near) \in Nat
          BY <5>3, <5>4, FS_Subset, FS_CardinalityType
        <5> QED
          BY <4>6, <5>2, <5>4, <5>5
      <4>8. pahead(r) = ahead(s)
        BY <1>2, <4>1, <4>7
      <4> QED
        BY <1>3, <2>1, <4>6, <4>8
    <3> QED
      BY <3>1, <3>2
  <2>2. CASE a < skip + count /\ ties(s) \subseteq part
    <3>1. s \in part /\ ahead(s) \subseteq part
      BY <1>4, <1>6, <2>2 DEF TiesOf
    <3>2. pahead(s) = ahead(s) /\ pties(s) = ties(s)
      BY <1>2, <2>2, <3>1
    <3> QED
      BY <1>1, <3>1, <3>2
  <2>3. CASE a < skip + count /\ \E m \in ties(s) : m \notin part
    <3>1. PICK m \in ties(s) : m \notin part
      BY <2>3
    <3> DEFINE near == {g \in part : ~Less(key, order, m, g)}
               tied == ties(s) \cap part
    <3>2. m \in all /\ ahead(m) = ahead(s) /\ ties(m) = ties(s) /\ ahead(s) \subseteq part
      BY <1>6, <1>7, <2>3, <3>1
    <3>3. skip + count <= Cardinality(near)
      BY <3>1, <3>2 DEF Enough
    <3>4. near = ahead(m) \cup tied /\ ahead(m) \cap tied = {}
      <4>1. \A g \in all : Less(key, order, g, m) => ~Less(key, order, m, g)
        BY <1>4, <3>2
      <4> QED
        BY <3>2, <4>1 DEF AheadOf, TiesOf
    <3>5. IsFiniteSet(tied) /\ Cardinality(tied) \in Nat /\ Cardinality(tied) <= t
      BY <1>3, FS_Subset, FS_CardinalityType
    <3>6. Cardinality(near) = a + Cardinality(tied)
      <4>1. Cardinality(ahead(m) \cup tied) = Cardinality(ahead(m)) + Cardinality(tied) - Cardinality(ahead(m) \cap tied)
        BY <1>3, <3>2, <3>5, FS_Union
      <4>2. Cardinality(ahead(m) \cap tied) = 0
        BY <3>4, FS_EmptySet
      <4>3. Cardinality(near) = Cardinality(ahead(m) \cup tied) /\ Cardinality(ahead(m)) = a
        BY ONLY <3>2, <3>4
      <4> HIDE DEF near, tied
      <4> QED
        BY <1>3, <3>5, <4>1, <4>2, <4>3
    <3>7. PICK g \in tied : TRUE
      <4>1. tied # {}
        BY <1>3, <2>3, <3>3, <3>5, <3>6, FS_EmptySet
      <4> QED
        BY <4>1
    <3>8. g \in part /\ g \in all /\ ahead(g) = ahead(s) /\ ties(g) = ties(s)
      BY <1>7, <3>7
    <3>9. pahead(g) = ahead(s) /\ pties(g) = tied
      BY <1>2, <3>2, <3>8
    <3>10. A \cap ties(s) = A \cap pties(g)
      BY <1>1, <3>9
    <3>11. Ranked(a, Cardinality(tied)) \cap asked = Ranked(a, t) \cap asked
      BY <1>3, <3>3, <3>5, <3>6 DEF Ranked
    <3> QED
      BY <1>1, <3>8, <3>9, <3>10, <3>11
  <2> QED
    BY <1>3, <2>1, <2>2, <2>3
<1>9. A \subseteq DOMAIN key /\ DOMAIN key = all
  BY <1>1
<1> QED
  BY <1>8, <1>9, InWindows

\* Where every term may be offered, the connector is asked for the whole order.
LEMMA OrderByWhole ==
  ASSUME NEW s \in Statements, NEW k,
         \A i \in DOMAIN s.order : /\ OrderTermOffered(s, k, s.order[i], Single(s))
                                   /\ s.order[i].column \in Columns(s, k)
  PROVE  OrderBy(s, k) = s.order
<1> DEFINE order == s.order
           Offered(o) == OrderTermOffered(s, k, o, Single(s)) /\ o.column \in Columns(s, k)
           Kept(f) == f = [n \in 0..Len(order) |->
                        IF n = 0 THEN <<>>
                        ELSE IF Offered(order[n]) THEN Append(f[n - 1], order[n]) ELSE f[n - 1]]
           kept == CHOOSE f : Kept(f)
           prefix == [n \in 0..Len(order) |-> SubSeq(order, 1, n)]
<1>1. order \in Seq({order[i] : i \in DOMAIN order}) /\ Len(order) \in Nat /\ DOMAIN order = 1..Len(order)
  <2>1. order \in Seq({order[i] : i \in DOMAIN order})
    BY OrderAssumption
  <2> QED
    BY ONLY <2>1
<1>2. ASSUME NEW n \in 1..Len(order)
      PROVE  SubSeq(order, 1, n) = Append(SubSeq(order, 1, n - 1), order[n])
  BY ONLY <1>1
<1>3. SubSeq(order, 1, 0) = <<>> /\ SubSeq(order, 1, Len(order)) = order
  BY ONLY <1>1
<1>4. \A n \in 1..Len(order) : Offered(order[n])
  BY <1>1
<1>5. kept[Len(order)] = OrderBy(s, k)
  BY DEF OrderBy
<1> HIDE DEF Offered, order
<1>6. Kept(prefix)
  <2> SUFFICES ASSUME NEW n \in 0..Len(order)
               PROVE  SubSeq(order, 1, n) = IF n = 0 THEN <<>>
                                            ELSE IF Offered(order[n]) THEN Append(prefix[n - 1], order[n])
                                            ELSE prefix[n - 1]
    OBVIOUS
  <2>1. CASE n = 0
    BY <1>3, <2>1
  <2>2. CASE n # 0
    <3>1. n \in 1..Len(order) /\ n - 1 \in 0..Len(order)
      BY <1>1, <2>2
    <3> QED
      BY <1>2, <1>4, <2>2, <3>1
  <2> QED
    BY <2>1, <2>2
<1>7. Kept(kept)
  BY <1>6
<1> HIDE DEF kept
<1>8. kept[0] = <<>> /\ \A n \in 1..Len(order) : kept[n] = Append(kept[n - 1], order[n])
  <2>1. kept[0] = <<>>
    BY <1>1, <1>7
  <2>2. ASSUME NEW n \in 1..Len(order) PROVE kept[n] = Append(kept[n - 1], order[n])
    <3>1. n \in 0..Len(order) /\ n # 0 /\ Offered(order[n])
      BY <1>1, <1>4
    <3> QED
      BY <1>7, <3>1
  <2> QED
    BY <2>1, <2>2
<1>9. \A n \in 0..Len(order) : kept[n] = SubSeq(order, 1, n)
  <2> DEFINE Wrong == {n \in 0..Len(order) : kept[n] # SubSeq(order, 1, n)}
  <2> SUFFICES ASSUME Wrong # {} PROVE FALSE
    OBVIOUS
  <2>1. PICK n \in Wrong : \A y \in Wrong : n <= y
    <3>1. Wrong \subseteq Nat
      BY <1>1
    <3> HIDE DEF Wrong
    <3> QED
      BY <3>1, Least
  <2>2. n \in 1..Len(order)
    <3>1. n \in 0..Len(order) /\ kept[n] # SubSeq(order, 1, n)
      BY <2>1
    <3>2. n # 0
      BY <1>3, <1>8, <3>1
    <3> QED
      BY <1>1, <3>1, <3>2
  <2>3. n - 1 \in 0..Len(order) /\ n - 1 \notin Wrong
    BY <1>1, <2>1, <2>2
  <2> QED
    BY <1>2, <1>8, <2>1, <2>2, <2>3
<1> QED
  BY <1>1, <1>3, <1>5, <1>9 DEF order

\* There are finitely many sequences of a length over a finite set.
LEMMA FinitelyManyRows ==
  ASSUME NEW R, IsFiniteSet(R), NEW len \in Nat
  PROVE  IsFiniteSet([1..len -> R])
<1> DEFINE Wrong == {n \in Nat : ~IsFiniteSet([1..n -> R])}
<1> SUFFICES ASSUME Wrong # {} PROVE FALSE
  OBVIOUS
<1>1. PICK n \in Wrong : \A y \in Wrong : n <= y
  <2>1. Wrong \subseteq Nat
    OBVIOUS
  <2> HIDE DEF Wrong
  <2> QED
    BY <2>1, Least
<1>2. n \in Nat /\ ~IsFiniteSet([1..n -> R])
  BY <1>1
<1>3. n # 0
  <2>1. [1..0 -> R] = {[x \in {} |-> x]}
    <3>1. 1..0 = {}
      OBVIOUS
    <3>2. \A f \in [{} -> R] : f = [x \in {} |-> x]
      OBVIOUS
    <3>3. [x \in {} |-> x] \in [{} -> R]
      OBVIOUS
    <3> QED
      BY <3>1, <3>2, <3>3
  <2> QED
    <3>1. IsFiniteSet([1..0 -> R])
      BY <2>1, FS_Singleton, Zenon
    <3> QED
      BY <1>2, <3>1
<1> DEFINE shorter == [1..(n - 1) -> R]
           pairs == shorter \X R
           longer == [p \in pairs |-> [i \in 1..n |-> IF i = n THEN p[2] ELSE p[1][i]]]
<1>4. IsFiniteSet(pairs)
  <2>1. n - 1 \in Nat /\ n - 1 \notin Wrong
    <3>1. n - 1 \in Nat /\ ~(n <= n - 1)
      BY <1>2, <1>3
    <3> QED
      BY <1>1, <3>1
  <2>2. IsFiniteSet(shorter)
    BY <2>1
  <2> QED
    BY <2>2, FS_Product
<1>5. longer \in Surjection(pairs, [1..n -> R])
  <2>1. longer \in [pairs -> [1..n -> R]]
    <3> SUFFICES ASSUME NEW p \in pairs, NEW i \in 1..n
                 PROVE  (IF i = n THEN p[2] ELSE p[1][i]) \in R
      OBVIOUS
    <3>1. p[1] \in shorter /\ p[2] \in R
      OBVIOUS
    <3>2. i # n => i \in 1..(n - 1)
      BY <1>2
    <3> QED
      BY <3>1, <3>2
  <2>2. ASSUME NEW f \in [1..n -> R] PROVE \E p \in pairs : longer[p] = f
    <3> DEFINE p == <<[i \in 1..(n - 1) |-> f[i]], f[n]>>
    <3>1. n \in 1..n /\ \A i \in 1..(n - 1) : i \in 1..n
      BY <1>2, <1>3
    <3>2. p \in pairs
      BY <3>1
    <3>3. \A i \in 1..n : i = n \/ i \in 1..(n - 1)
      BY <1>2
    <3>4. longer[p] = [i \in 1..n |-> IF i = n THEN f[n] ELSE [j \in 1..(n - 1) |-> f[j]][i]]
      <4>1. p[1] = [i \in 1..(n - 1) |-> f[i]] /\ p[2] = f[n]
        OBVIOUS
      <4> HIDE DEF p
      <4>2. longer[p] = [i \in 1..n |-> IF i = n THEN p[2] ELSE p[1][i]]
        BY <3>2
      <4> QED
        BY <4>1, <4>2
    <3>5. longer[p] = f
      BY <3>3, <3>4
    <3> QED
      BY <3>2, <3>5
  <2> QED
    BY <2>1, <2>2 DEF Surjection
<1> QED
  BY <1>2, <1>4, <1>5, FS_Surjection

(***************************************************************************)
(* Answers with a LIMIT.                                                    *)
(***************************************************************************)

LEMMA InitAnswerInv == Init => AnswerInv
  BY InitIInv DEF Init, IInv, AnswerInv

LEMMA FetchAnswerInv ==
  ASSUME AnswerInv, NEW k \in Sources(stmt), Fetch(k)
  PROVE  AnswerInv'
<1> DEFINE tab == stmt.from[k].table
           req == PlanScan(stmt, k)
<1>1. PICK rows \in Fetches(req, upstream[tab]), columns \in {ColumnsOf[tab], Filled(req, tab)} :
        local' = [local EXCEPT ![tab] = [rows |-> rows, columns |-> columns]]
  BY DEF Fetch
<1>2. /\ fetched' = fetched \cup {k}
      /\ stmt' = stmt /\ upstream' = upstream /\ answer' = answer /\ k \notin fetched
  BY DEF Fetch
<1>3. IInv /\ IInv'
  BY FetchIInv DEF AnswerInv, IInv
<1>4. tab \in Table /\ stmt \in Statements
  BY StatementAssumption DEF AnswerInv, Sources
<1>5. /\ local'[tab].rows = rows
      /\ \A other \in Table \ {tab} : local'[other] = local[other]
  BY <1>1, <1>3, <1>4 DEF IInv, LoadInv
<1>6. answer = NoAnswer
  BY <1>2 DEF AnswerInv, LoadInv, TypeOK
<1>7. ASSUME NEW i \in fetched'
      PROVE  LET itab == stmt.from[i].table
                 ireq == PlanScan(stmt, i)
             IN Serves(ireq, Matching(ireq.filters, upstream[itab]), local'[itab].rows)
  <2>1. CASE i = k
    BY <1>5, <2>1 DEF Fetches
  <2>2. CASE i # k
    <3>1. i \in fetched /\ i \in Sources(stmt)
      BY <1>2, <1>3, <2>2 DEF IInv, LoadInv, TypeOK
    <3>2. stmt.from[i].table \in Table \ {tab}
      BY <1>4, <2>2, <3>1, SourcesDiffer, StatementAssumption DEF Sources
    <3> QED
      BY <1>5, <3>1, <3>2 DEF AnswerInv
  <2> QED
    BY <2>1, <2>2
<1> QED
  BY <1>2, <1>3, <1>4, <1>6, <1>7 DEF AnswerInv, IInv, Matching

LEMMA NextAnswerInv == AnswerInv /\ [Next]_vars => AnswerInv'
<1> SUFFICES ASSUME AnswerInv, [Next]_vars PROVE AnswerInv'
  OBVIOUS
<1>1. CASE \E k \in Sources(stmt) : Fetch(k)
  BY <1>1, FetchAnswerInv
<1>2. CASE Execute
  <2>1. IInv'
    BY <1>2, NextIInv DEF AnswerInv, IInv, Next
  <2>2. /\ stmt' = stmt /\ upstream' = upstream /\ fetched' = fetched /\ local' = local
        /\ answer' \in Answers(local, stmt)
    BY <1>2 DEF Execute
  <2> QED
    BY <2>1, <2>2 DEF AnswerInv, IInv
<1>3. CASE UNCHANGED vars
  BY <1>3 DEF vars, AnswerInv, LoadInv, TypeOK
<1> QED
  BY <1>1, <1>2, <1>3 DEF Next

LEMMA SpecAnswerInv == Spec => []AnswerInv
  BY InitAnswerInv, NextAnswerInv, PTL DEF Spec

\* Another row of a source that passes its filters satisfies the same conjuncts, if
\* the source is asked for all they say of it.
LEMMA SwapHolds ==
  ASSUME NEW s, NEW t, InnerJoins(s), WellScoped(s), Selected(Whole, s, t),
         NEW k \in Sources(s), Settled(s, k),
         NEW row, row # NoRow, \A f \in Filters(s, k) : FilterHolds(f, row),
         NEW u, u[k] = row, \A i \in DOMAIN s.from \ {k} : u[i] = t[i],
         NEW pl \in Places(s)
  PROVE  Holds(Whole, s, u, PredicateAt(s, pl))
<1> DEFINE p == PredicateAt(s, pl)
<1>1. CASE pl \in {<<0, i>> : i \in FiltersOf(s, k)}
  <2>1. PICK i \in FiltersOf(s, k) : pl = <<0, i>>
    BY <1>1
  <2>2. p = s.where[i]
    BY <2>1 DEF PredicateAt
  <2>3. p.op \notin {"raw", "isnull"} /\ p.value # NoValue /\ p.ref = NoRef
    BY <2>2 DEF FiltersOf, ToFilter, Resolved, NoValue, WellScoped
  <2>4. Compare(p.op, row[p.column], p.value.v)
    <3>1. Filter(p.column, p.op, p.value.v) \in Filters(s, k)
      BY <2>2 DEF Filters, DirectFilters
    <3> QED
      BY <3>1 DEF FilterHolds, Filter
  <2>5. /\ k \in DOMAIN s.from /\ p.column \in Columns(s, k) /\ s.from[k].table \in Table
        /\ p.table # "" => p.table \in Names(s, k)
    BY <2>2 DEF FiltersOf, Sources, WellScoped, Attributable
  <2>6. Owner(s, RefOf(p)) = k
    <3>1. RefOf(p) \in Refs(s)
      BY <2>3, PlaceRefs
    <3> QED
      BY <2>5, <3>1 DEF WellScoped, Means, RefOf, Ref
  <2>7. Read(Whole, s, u, RefOf(p)) = row[p.column]
    BY <2>5, <2>6 DEF Read, Cell, Whole, Columns, RefOf, Ref
  <2> QED
    BY <2>3, <2>4, <2>7 DEF Holds, PlainHolds
<1>2. CASE \A ref \in RefsOf(p) : Owner(s, ref) = k => \E f \in Filters(s, k) : f.op = "=" /\ f.column = ref.column
  <2>1. ASSUME NEW ref \in RefsOf(p) PROVE Read(Whole, s, t, ref) = Read(Whole, s, u, ref)
    <3>1. Owner(s, ref) \in DOMAIN s.from
      BY DEF WellScoped, Means, Refs
    <3>2. CASE Owner(s, ref) # k
      BY <3>1, <3>2 DEF Read, Cell
    <3>3. CASE Owner(s, ref) = k
      <4>1. PICK f \in Filters(s, k) : f.op = "=" /\ f.column = ref.column
        BY <1>2, <3>3
      <4>2. t[k] # NoRow /\ FilterHolds(f, t[k]) /\ FilterHolds(f, row)
        BY FiltersKeepSelectedRows
      <4>3. t[k][ref.column] = row[ref.column]
        BY <4>1, <4>2 DEF FilterHolds, Compare
      <4> QED
        BY <3>3, <4>2, <4>3 DEF Read, Cell
    <3> QED
      BY <3>2, <3>3
  <2>2. Holds(Whole, s, t, p)
    BY PlacesHold
  <2> QED
    BY <2>1, <2>2, HoldsByReads
<1> QED
  BY <1>1, <1>2 DEF Settled

\* So a row that was fetched takes the place of any selected one.
LEMMA SwapSelected ==
  ASSUME AnswerInv, fetched = Sources(stmt), InnerJoins(stmt), WellScoped(stmt),
         NEW k \in Sources(stmt), Settled(stmt, k),
         \A i \in Sources(stmt) \ {k} : PlanScan(stmt, i).limit = Null,
         NEW t \in SelectedRows(Whole, stmt),
         NEW row \in Matching(Filters(stmt, k), upstream[stmt.from[k].table]),
         row \in local[stmt.from[k].table].rows
  PROVE  [t EXCEPT ![k] = row] \in SelectedRows(local, stmt)
<1> DEFINE u == [t EXCEPT ![k] = row]
           tab == stmt.from[k].table
           rows == UNION {Rows(local, stmt, i) : i \in DOMAIN stmt.from}
<1>1. IInv /\ stmt \in Statements /\ k \in DOMAIN stmt.from /\ tab \in Table
  BY DEF AnswerInv, IInv, WellScoped
<1>2. Selected(Whole, stmt, t) /\ DOMAIN t = DOMAIN stmt.from
  BY DEF SelectedRows
<1>3. u[k] = row /\ \A i \in DOMAIN stmt.from \ {k} : u[i] = t[i]
  BY <1>1, <1>2
<1>4. row # NoRow /\ \A f \in Filters(stmt, k) : FilterHolds(f, row)
  BY <1>1, ContentsAssumption DEF AnswerInv, Matching
<1>5. u \in [DOMAIN stmt.from -> rows \cup {NoRow}] /\ \A i \in DOMAIN stmt.from : u[i] \in Rows(local, stmt, i) \cup {NoRow}
  <2>1. ASSUME NEW i \in DOMAIN stmt.from PROVE u[i] \in Rows(local, stmt, i) \cup {NoRow}
    <3>1. CASE i = k
      BY <1>3, <3>1 DEF Rows
    <3>2. CASE i # k
      <4>1. PlanScan(stmt, i).limit = Null
        BY <3>2 DEF WellScoped
      <4> QED
        BY <1>1, <1>2, <1>3, <3>2, <4>1, SelectedLoaded
    <3> QED
      BY <3>1, <3>2
  <2>2. \A i \in DOMAIN stmt.from : u[i] \in rows \cup {NoRow}
    BY <2>1
  <2>3. DOMAIN u = DOMAIN stmt.from
    BY <1>2
  <2> HIDE DEF rows
  <2> QED
    BY <2>1, <2>2, <2>3
<1> HIDE DEF u
<1>6. ASSUME NEW pl \in Places(stmt) PROVE Holds(local, stmt, u, PredicateAt(stmt, pl))
  <2>1. Holds(Whole, stmt, u, PredicateAt(stmt, pl))
    BY <1>2, <1>3, <1>4, SwapHolds
  <2> QED
    BY <1>1, <2>1, SameHolds
<1>7. \A j \in DOMAIN stmt.joins : JoinHolds(local, stmt, u, j)
  <2> SUFFICES ASSUME NEW j \in DOMAIN stmt.joins PROVE JoinHolds(local, stmt, u, j)
    OBVIOUS
  <2>1. stmt.joins[j].using \cup stmt.from[j + 1].of = {}
    BY DEF InnerJoins
  <2>2. ASSUME NEW i \in DOMAIN stmt.joins[j].on PROVE Holds(local, stmt, u, stmt.joins[j].on[i])
    <3>1. <<j, i>> \in Places(stmt) /\ PredicateAt(stmt, <<j, i>>) = stmt.joins[j].on[i]
      BY DEF Places, OnPlaces, PredicateAt, WellScoped
    <3> QED
      BY <1>6, <3>1
  <2> QED
    BY <2>1, <2>2 DEF JoinHolds
<1>8. \A i \in DOMAIN stmt.where : Holds(local, stmt, u, stmt.where[i])
  <2> SUFFICES ASSUME NEW i \in DOMAIN stmt.where PROVE Holds(local, stmt, u, stmt.where[i])
    OBVIOUS
  <2>1. <<0, i>> \in Places(stmt) /\ PredicateAt(stmt, <<0, i>>) = stmt.where[i]
    BY DEF Places, WherePlaces, PredicateAt
  <2> QED
    BY <1>6, <2>1
<1>9. u[1] # NoRow /\ \A j \in DOMAIN stmt.joins : u[j + 1] # NoRow
  <2>1. t[1] # NoRow /\ \A j \in DOMAIN stmt.joins : t[j + 1] # NoRow
    BY <1>2, InnerSelected
  <2> QED
    BY <1>3, <1>4, <2>1 DEF u
<1>10. Selected(local, stmt, u)
  BY <1>5, <1>7, <1>8, <1>9, InnerSelected
<1> QED
  BY <1>5, <1>10 DEF SelectedRows, u

\* A LIMIT is offered with the whole ORDER BY, whose terms are columns of the source.
LEMMA OfferedLimit ==
  ASSUME NEW s \in Statements, NEW k, PlanScan(s, k).limit # Null
  PROVE  /\ HasLimit(s) /\ ~Collapses(s) /\ ~Counts(s)
         /\ PlanScan(s, k).order = s.order
         /\ \A i \in DOMAIN s.order : /\ OrderTermOffered(s, k, s.order[i], Single(s))
                                      /\ s.order[i].column \in Columns(s, k)
                                      /\ Aliased(s, s.order[i]) = {}
         /\ s.limit.count.v \in Nat /\ PlanScan(s, k).limit = s.limit.count.v
         /\ PlanScan(s, k).offset = IntValue(s.limit.offset)
<1>1. PushesLimit(s, k)
  BY DEF PlanScan
<1>2. LimitPushable(s, k) /\ HasLimit(s)
  BY <1>1 DEF PushesLimit
<1>3. ~Collapses(s) /\ ~Counts(s)
  BY <1>2 DEF LimitPushable, Complete, HasExpression, Collapses
<1>4. ASSUME NEW i \in DOMAIN s.order
      PROVE  /\ OrderTermOffered(s, k, s.order[i], Single(s))
             /\ s.order[i].column \in Columns(s, k)
             /\ Aliased(s, s.order[i]) = {}
  <2> DEFINE o == s.order[i]
  <2>1. /\ OrderTermOffered(s, k, o, Single(s)) /\ o.column \in Columns(s, k)
        /\ ~(o.table = "" /\ o.column \in OutputAliases(s))
    BY <1>2 DEF LimitPushable
  <2>2. ~o.expr /\ o.column # ""
    BY <2>1 DEF OrderTermOffered, OrderColumn
  <2> QED
    BY <2>1, <2>2 DEF Aliased, OutputAliases
<1>5. PlanScan(s, k).order = s.order
  BY <1>4, OrderByWhole DEF PlanScan
<1>6. s.limit.count.v \in Nat /\ PlanScan(s, k).limit = s.limit.count.v
  <2>1. PlanScan(s, k).limit = IntValue(s.limit.count)
    BY <1>1 DEF PlanScan
  <2> QED
    BY <2>1, OrderAssumption DEF IntValue
<1>7. PlanScan(s, k).offset = IntValue(s.limit.offset)
  BY <1>1 DEF PlanScan
<1> QED
  BY <1>2, <1>3, <1>4, <1>5, <1>6, <1>7

\* The key of a joined row is then the sort key of its row of that source.
LEMMA KeyIsSortKey ==
  ASSUME NEW s \in Statements, WellScoped(s), Resolves(s), NEW k \in Sources(s),
         PlanScan(s, k).limit # Null, NEW t, t[k] # NoRow
  PROVE  Key(Whole, s, t) = SortKey(s.order, t[k])
<1> SUFFICES ASSUME NEW i \in DOMAIN s.order
             PROVE  KeyCell(Whole, s, t, s.order[i]) = t[k][s.order[i].column]
  BY DEF Key, SortKey
<1> DEFINE o == s.order[i]
<1>1. /\ OrderTermOffered(s, k, o, Single(s)) /\ o.column \in Columns(s, k)
      /\ Aliased(s, o) = {}
  BY OfferedLimit
<1>2. Means(s, RefOf(o))
  BY <1>1 DEF Resolves, OutputRefs
<1>3. k \in DOMAIN s.from /\ s.from[k].table \in Table
  BY DEF WellScoped
<1>4. Owner(s, RefOf(o)) = k
  BY <1>1, <1>2, <1>3 DEF Means, RefOf, Ref, OrderTermOffered, Attributable
<1>5. Read(Whole, s, t, RefOf(o)) = t[k][o.column]
  BY <1>1, <1>3, <1>4 DEF Read, Cell, Whole, Columns, RefOf, Ref
<1> QED
  BY <1>1, <1>5 DEF KeyCell

\* It is made of numbers and NULLs.
LEMMA KeyOfSelected ==
  ASSUME AnswerInv, WellScoped(stmt), Resolves(stmt), InnerJoins(stmt), NEW k \in Sources(stmt),
         PlanScan(stmt, k).limit # Null, NEW t \in SelectedRows(Whole, stmt)
  PROVE  /\ t[k] \in upstream[stmt.from[k].table] /\ t[k] # NoRow
         /\ Key(Whole, stmt, t) \in Keys(stmt.order)
         /\ Key(Whole, stmt, t) = SortKey(stmt.order, t[k])
<1> DEFINE tab == stmt.from[k].table
<1>1. stmt \in Statements /\ k \in DOMAIN stmt.from /\ tab \in Table
  BY DEF AnswerInv, WellScoped
<1>2. t[k] # NoRow /\ t[k] \in upstream[tab]
  <2>1. Selected(Whole, stmt, t)
    BY DEF SelectedRows
  <2>2. k = 1 \/ \E j \in DOMAIN stmt.joins : k = j + 1
    <3>1. DOMAIN stmt.from = 1..Len(stmt.from) /\ Len(stmt.from) \in Nat
      <4>1. stmt.from \in Seq({stmt.from[i] : i \in DOMAIN stmt.from})
        BY <1>1, StatementAssumption
      <4> QED
        BY ONLY <4>1
    <3>2. k # 1 => k - 1 \in 1..(Len(stmt.from) - 1) /\ k = (k - 1) + 1
      BY <1>1, <3>1
    <3> QED
      BY <1>1, <3>2, StatementAssumption
  <2>3. t[k] # NoRow /\ t[k] \in Rows(Whole, stmt, k) \cup {NoRow}
    BY <1>1, <2>1, <2>2, InnerSelected
  <2> QED
    BY <1>1, <2>3 DEF Rows, Whole
<1>3. Key(Whole, stmt, t) = SortKey(stmt.order, t[k])
  BY <1>1, <1>2, KeyIsSortKey
<1>4. \A i \in DOMAIN stmt.order : t[k][stmt.order[i].column] \in Int \cup {Null}
  BY <1>1, <1>2, OfferedLimit, ContentsAssumption DEF AnswerInv, Columns
<1> QED
  BY <1>2, <1>3, <1>4 DEF Keys, SortKey

\* A statement selects finitely many joined rows.
LEMMA FinitelySelected ==
  ASSUME AnswerInv, WellScoped(stmt)
  PROVE  IsFiniteSet(SelectedRows(Whole, stmt))
<1> DEFINE len == Len(stmt.from)
           held(k) == upstream[stmt.from[k].table]
           rows == UNION {held(k) : k \in 1..len}
<1>1. stmt \in Statements /\ upstream \in Contents[stmt] /\ len \in Nat /\ DOMAIN stmt.from = 1..len
  <2>1. stmt.from \in Seq({stmt.from[i] : i \in DOMAIN stmt.from})
    BY StatementAssumption DEF AnswerInv
  <2>2. len \in Nat /\ DOMAIN stmt.from = 1..len
    BY ONLY <2>1
  <2> QED
    BY <2>2 DEF AnswerInv
<1>2. \A k \in 1..len : IsFiniteSet(held(k))
  BY <1>1, StatementAssumption, ContentsAssumption
<1>3. IsFiniteSet({held(k) : k \in 1..len})
  <2> DEFINE f == [k \in 1..len |-> held(k)]
  <2>1. IsFiniteSet(1..len)
    BY <1>1, FS_Interval
  <2>2. f \in Surjection(1..len, {held(k) : k \in 1..len})
    <3> HIDE DEF held
    <3> QED
      BY DEF Surjection
  <2> QED
    BY <2>1, <2>2, FS_Surjection
<1>4. IsFiniteSet(rows)
  <2> HIDE DEF held
  <2>1. \A T \in {held(k) : k \in 1..len} : IsFiniteSet(T)
    BY <1>2
  <2> QED
    BY <1>3, <2>1, FS_UNION
<1>5. IsFiniteSet(rows \cup {NoRow})
  BY <1>4, FS_AddElement
<1>6. UNION {Rows(Whole, stmt, k) : k \in DOMAIN stmt.from} = rows
  <2>1. \A k \in 1..len : Rows(Whole, stmt, k) = held(k)
    BY <1>1, StatementAssumption DEF Rows, Whole
  <2> QED
    BY <1>1, <2>1
<1> HIDE DEF rows
<1>7. IsFiniteSet([1..len -> rows \cup {NoRow}])
  BY <1>1, <1>5, FinitelyManyRows
<1>8. SelectedRows(Whole, stmt) \subseteq [1..len -> rows \cup {NoRow}]
  BY <1>1, <1>6 DEF SelectedRows
<1> QED
  BY <1>7, <1>8, FS_Subset

\* What the database selects is part of what the services have.
LEMMA LocalPart ==
  ASSUME IInv, fetched = Sources(stmt), InnerJoins(stmt), WellScoped(stmt)
  PROVE  SelectedRows(local, stmt) \subseteq SelectedRows(Whole, stmt)
<1> SUFFICES ASSUME NEW t \in SelectedRows(local, stmt) PROVE t \in SelectedRows(Whole, stmt)
  OBVIOUS
<1>1. Selected(Whole, stmt, t) /\ DOMAIN t = DOMAIN stmt.from
  BY LocalSelected DEF SelectedRows
<1>2. \A k \in DOMAIN stmt.from : t[k] \in Rows(Whole, stmt, k) \cup {NoRow}
  BY <1>1 DEF Selected, JoinedRow
<1>3. t \in [DOMAIN stmt.from -> (UNION {Rows(local, stmt, k) : k \in DOMAIN stmt.from}) \cup {NoRow}]
  BY DEF SelectedRows
<1> DEFINE rows == UNION {Rows(Whole, stmt, k) : k \in DOMAIN stmt.from}
<1>4. \A k \in DOMAIN stmt.from : t[k] \in rows \cup {NoRow}
  BY <1>2
<1> HIDE DEF rows
<1>5. t \in [DOMAIN stmt.from -> rows \cup {NoRow}]
  BY <1>3, <1>4
<1> QED
  BY <1>1, <1>5 DEF SelectedRows, rows

\* A joined row that is missed has a row that was left out, so that many others are there
\* whose row of that source is not behind it.
LEMMA EnoughSelected ==
  ASSUME AnswerInv, fetched = Sources(stmt), InnerJoins(stmt), WellScoped(stmt), Resolves(stmt),
         NEW k \in Sources(stmt), Settled(stmt, k), PlanScan(stmt, k).limit # Null,
         \A i \in Sources(stmt) \ {k} : PlanScan(stmt, i).limit = Null,
         NEW m \in SelectedRows(Whole, stmt) \ SelectedRows(local, stmt)
  PROVE  LET near == {row \in Matching(Filters(stmt, k), upstream[stmt.from[k].table])
                                \cap local[stmt.from[k].table].rows :
                        ~Before(stmt.order, SortKey(stmt.order, m[k]), SortKey(stmt.order, row))}
         IN IsFiniteSet(near) /\ StopAt(PlanScan(stmt, k)) <= Cardinality(near)
<1> DEFINE tab == stmt.from[k].table
           want == Matching(Filters(stmt, k), upstream[tab])
           got == local[tab].rows
           near == {row \in want \cap got :
                      ~Before(stmt.order, SortKey(stmt.order, m[k]), SortKey(stmt.order, row))}
<1>1. IInv /\ stmt \in Statements /\ k \in DOMAIN stmt.from /\ tab \in Table /\ upstream \in Contents[stmt]
  BY DEF AnswerInv, IInv, WellScoped
<1>2. Selected(Whole, stmt, m) /\ m[k] \in upstream[tab] /\ m[k] # NoRow
  BY KeyOfSelected DEF SelectedRows
<1>3. m[k] \in want
  BY <1>2, FiltersKeepSelectedRows DEF Matching
<1>4. m[k] \notin got
  <2> SUFFICES ASSUME m[k] \in got PROVE FALSE
    OBVIOUS
  <2>1. m[k] \in want /\ m[k] \in got /\ [m EXCEPT ![k] = m[k]] = m
    BY <1>3 DEF SelectedRows
  <2>2. [m EXCEPT ![k] = m[k]] \in SelectedRows(local, stmt)
    BY <2>1, SwapSelected
  <2> QED
    BY <2>1, <2>2
<1>5. Serves(PlanScan(stmt, k), want, got)
  <2>1. PlanScan(stmt, k).filters = Filters(stmt, k)
    BY DEF PlanScan
  <2> QED
    BY <2>1 DEF AnswerInv
<1>6. PlanScan(stmt, k).order = stmt.order
  BY <1>1, OfferedLimit
<1>7. StopAt(PlanScan(stmt, k)) <= Cardinality(near)
  BY <1>3, <1>4, <1>5, <1>6 DEF Serves
<1>8. IsFiniteSet(near)
  <2>1. IsFiniteSet(upstream[tab]) /\ near \subseteq upstream[tab]
    BY <1>1, ContentsAssumption DEF Matching
  <2> QED
    BY <2>1, FS_Subset
<1> QED
  BY <1>7, <1>8

\* A query that offers its LIMIT to a connector returns an answer it has over the whole
\* tables.
LEMMA CutAnswers ==
  ASSUME AnswerInv, fetched = Sources(stmt), InnerJoins(stmt), WellScoped(stmt), Resolves(stmt),
         stmt.limit.offset = NoValue \/ stmt.limit.offset.kind = "literal",
         NEW k \in Sources(stmt), Settled(stmt, k), PlanScan(stmt, k).limit # Null,
         \A i \in Sources(stmt) \ {k} : PlanScan(stmt, i).limit = Null
  PROVE  Answers(local, stmt) \subseteq Answers(Whole, stmt)
<1> DEFINE all == ResultRows(Whole, stmt)
           part == ResultRows(local, stmt)
           key == [r \in all |-> r.key]
           pkey == [r \in part |-> r.key]
           order == stmt.order
           skip == IF stmt.limit.offset = NoValue THEN 0 ELSE stmt.limit.offset.v
           count == stmt.limit.count.v
           chosen == SelectedRows(Whole, stmt)
           pchosen == SelectedRows(local, stmt)
           R(t) == Result(Whole, t)
<1>1. /\ IInv /\ stmt \in Statements /\ k \in DOMAIN stmt.from /\ stmt.from[k].table \in Table
      /\ HasLimit(stmt) /\ ~Collapses(stmt) /\ ~Counts(stmt) /\ PlanScan(stmt, k).order = order
  BY OfferedLimit DEF AnswerInv, IInv, WellScoped
<1>2. all = {R(t) : t \in chosen} /\ part = {R(t) : t \in pchosen}
  BY <1>1, SameResult DEF ResultRows, Result
<1>3. pchosen \subseteq chosen
  BY <1>1, LocalPart
<1>4. part \subseteq all
  BY <1>2, <1>3
<1>5. \A t : R(t).of = t /\ R(t).key = Key(Whole, stmt, t)
  BY <1>1 DEF Result
<1>6. count \in Nat /\ skip \in Nat /\ StopAt(PlanScan(stmt, k)) = skip + count
  <2>1. count \in Nat /\ PlanScan(stmt, k).limit = count /\ PlanScan(stmt, k).offset = IntValue(stmt.limit.offset)
    BY <1>1, OfferedLimit
  <2>2. Null \notin Int
    BY ContentsAssumption
  <2>3. CASE stmt.limit.offset = NoValue
    BY <2>1, <2>2, <2>3 DEF StopAt, IntValue, NoValue
  <2>4. CASE stmt.limit.offset # NoValue
    <3>1. stmt.limit.offset.kind = "literal" /\ skip = stmt.limit.offset.v /\ skip \in Nat
      BY <1>1, <2>4, OrderAssumption
    <3> QED
      BY <2>1, <2>2, <3>1 DEF StopAt, IntValue
  <2> QED
    BY <2>3, <2>4
<1>7. IsFiniteSet(all)
  <2> DEFINE f == [t \in chosen |-> R(t)]
  <2>1. IsFiniteSet(chosen)
    BY FinitelySelected
  <2> HIDE DEF R, chosen
  <2>2. f \in Surjection(chosen, all)
    BY <1>2 DEF Surjection
  <2> QED
    BY <2>1, <2>2, FS_Surjection
<1>8. key \in [all -> Keys(order)]
  <2>1. \A t \in chosen : Key(Whole, stmt, t) \in Keys(order)
    BY KeyOfSelected
  <2> HIDE DEF R, chosen, all
  <2> QED
    BY <1>2, <1>5, <2>1
<1>9. IsOrder(order)
  BY <1>1, OrderAssumption DEF IsOrder
<1>10. Enough(part, key, order, skip + count)
  <2> SUFFICES ASSUME NEW r \in all \ part
               PROVE  skip + count <= Cardinality({g \in part : ~Less(key, order, r, g)})
    BY DEF Enough
  <2> DEFINE m == r.of
             tab == stmt.from[k].table
             near == {row \in Matching(Filters(stmt, k), upstream[tab]) \cap local[tab].rows :
                        ~Before(order, SortKey(order, m[k]), SortKey(order, row))}
             nearby == {g \in part : ~Less(key, order, r, g)}
             swapped(row) == [m EXCEPT ![k] = row]
             into == [row \in near |-> R(swapped(row))]
  <2>1. m \in chosen \ pchosen /\ r = R(m) /\ r.key = SortKey(order, m[k]) /\ DOMAIN m = DOMAIN stmt.from
    <3>1. PICK t \in chosen : r = R(t)
      BY <1>2
    <3>2. m = t /\ r.key = Key(Whole, stmt, t)
      BY <1>5, <3>1
    <3>3. Key(Whole, stmt, t) = SortKey(order, t[k])
      BY KeyOfSelected
    <3>4. t \notin pchosen
      BY <1>2, <3>1
    <3>5. DOMAIN t = DOMAIN stmt.from
      BY DEF SelectedRows
    <3> QED
      BY <3>1, <3>2, <3>3, <3>4, <3>5
  <2>2. IsFiniteSet(near) /\ skip + count <= Cardinality(near)
    <3>1. m \in SelectedRows(Whole, stmt) \ SelectedRows(local, stmt)
      BY <2>1
    <3> HIDE DEF m
    <3> QED
      BY <1>6, <3>1, EnoughSelected
  <2>3. ASSUME NEW row \in near
        PROVE  /\ R(swapped(row)) \in nearby
               /\ R(swapped(row)).of[k] = row
    <3>1. row \in Matching(Filters(stmt, k), upstream[tab]) /\ row \in local[tab].rows
      OBVIOUS
    <3>2. swapped(row) \in pchosen
      <4>1. m \in SelectedRows(Whole, stmt)
        BY <2>1
      <4> HIDE DEF m
      <4> QED
        BY <3>1, <4>1, SwapSelected
    <3>3. swapped(row)[k] = row
      BY <1>1, <2>1
    <3>4. R(swapped(row)).key = SortKey(order, row)
      <4>1. swapped(row) \in chosen
        BY <1>3, <3>2
      <4> HIDE DEF swapped
      <4>2. Key(Whole, stmt, swapped(row)) = SortKey(order, swapped(row)[k])
        BY <4>1, KeyOfSelected
      <4> QED
        BY <1>5, <3>3, <4>2
    <3>5. R(swapped(row)) \in part /\ R(swapped(row)) \in all
      BY <1>2, <1>4, <3>2
    <3>6. ~Before(order, r.key, R(swapped(row)).key)
      BY <2>1, <3>4
    <3>7. ~Less(key, order, r, R(swapped(row)))
      <4> HIDE DEF R, swapped, all
      <4> QED
        BY <3>5, <3>6 DEF Less
    <3> QED
      BY <1>5, <3>3, <3>5, <3>7
  <2>4. into \in Injection(near, nearby)
    <3> HIDE DEF near, nearby, R, swapped
    <3> QED
      BY <2>3 DEF Injection, IsInjective
  <2>5. IsFiniteSet(nearby)
    <3>1. nearby \subseteq all
      BY <1>4
    <3> QED
      BY <1>7, <3>1, FS_Subset
  <2>6. Cardinality(near) <= Cardinality(nearby)
    <3> HIDE DEF near, nearby, into
    <3> QED
      BY <2>4, <2>5, FS_Injection
  <2> HIDE DEF near, nearby
  <2>7. Cardinality(near) \in Nat /\ Cardinality(nearby) \in Nat
    BY <2>2, <2>5, FS_CardinalityType
  <2>8. skip + count <= Cardinality(nearby)
    <3> HIDE DEF skip, count
    <3> QED
      BY <1>6, <2>2, <2>6, <2>7
  <2> QED
    BY <2>8 DEF nearby
<1>11. pkey = [r \in part |-> key[r]]
  <2> HIDE DEF part, all
  <2> QED
    BY <1>4
<1>12. /\ Answers(local, stmt) = Windows(pkey, order, skip, count)
       /\ Answers(Whole, stmt) = Windows(key, order, skip, count)
  BY <1>1 DEF Answers
<1> HIDE DEF part, all, pkey, key, order, skip, count
<1>13. ASSUME NEW A \in Windows(pkey, order, skip, count) PROVE A \in Windows(key, order, skip, count)
  BY <1>4, <1>6, <1>7, <1>8, <1>9, <1>10, <1>11, WindowOfPart, ContentsAssumption
<1> QED
  BY <1>12, <1>13

\* Whatever the connectors leave out, as long as they serve their requests, a statement
\* in scope returns an answer it has over the whole tables (README.md: SQLite evaluates
\* everything once more, "so the result is always correct even when a connector returns a
\* superset of the rows").
THEOREM AnswerIsCorrect == Spec => [](InScope(stmt) => AnswerCorrect)
<1>1. AnswerInv => (InScope(stmt) => AnswerCorrect)
  <2> SUFFICES ASSUME AnswerInv, InScope(stmt), answer # NoAnswer
               PROVE  answer \in Answers(Whole, stmt)
    BY DEF AnswerCorrect
  <2>1. IInv /\ fetched = Sources(stmt) /\ answer \in Answers(local, stmt)
    BY DEF AnswerInv, IInv, LoadInv, TypeOK
  <2>2. InnerJoins(stmt) /\ WellScoped(stmt) /\ Resolves(stmt)
    BY DEF InScope
  <2>3. CASE Uncut(stmt)
    BY <2>1, <2>2, <2>3, UncutAnswers
  <2>4. CASE ~Uncut(stmt)
    <3>1. Cuttable(stmt)
      BY <2>4 DEF InScope
    <3>2. PICK k \in Sources(stmt) : /\ Settled(stmt, k)
                                     /\ \A i \in Sources(stmt) \ {k} : PlanScan(stmt, i).limit = Null
      BY <3>1 DEF Cuttable
    <3>3. PlanScan(stmt, k).limit # Null
      BY <2>4, <3>2 DEF Uncut
    <3> QED
      BY <2>1, <2>2, <3>1, <3>2, <3>3, CutAnswers DEF Cuttable
  <2> QED
    BY <2>3, <2>4
<1> QED
  BY <1>1, SpecAnswerInv, PTL
==============================================================================
