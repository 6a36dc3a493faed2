------------------------------- MODULE Planner -------------------------------
(***************************************************************************)
(* What the engine offers to a connector of a query: planScan               *)
(* (engine/plan.go).  For one source of the FROM clause it picks the WHERE  *)
(* conjuncts, the ORDER BY terms, the LIMIT and the columns that the        *)
(* connector may evaluate on its side.                                      *)
(*                                                                          *)
(* A source is its position k in stmt.from.  Conjuncts are found by their   *)
(* place: <<0, i>> in WHERE, <<j, i>> in the ON of join j; the order of     *)
(* places is the order in which the code walks over them.                   *)
(***************************************************************************)
EXTENDS SqlSelect

Anonymous(o) == o.name = ""

\* The distinct base tables of the statement, each as its first occurrence.
Sources(stmt) ==
  {k \in DOMAIN stmt.from :
     /\ ~Anonymous(stmt.from[k])
     /\ \A i \in 1..(k - 1) : stmt.from[i].table # stmt.from[k].table}

Single(stmt) == Cardinality(Sources(stmt)) = 1
Columns(stmt, k) == ColumnsOf[stmt.from[k].table]

Complete(stmt) == ~stmt.grouped
OrderColumn(o) == IF o.expr THEN "" ELSE o.column
HasExpression(stmt) == Counts(stmt)

Names(stmt, k) == {stmt.from[k].alias, stmt.from[k].name}

Attributable(qualifier, stmt, k, single) ==
  IF qualifier = "" THEN single ELSE qualifier \in Names(stmt, k)

(***************************************************************************)
(* Places.                                                                  *)
(***************************************************************************)
WherePlaces(stmt) == {<<0, i>> : i \in DOMAIN stmt.where}
OnPlaces(stmt) == UNION {{<<j, i>> : i \in DOMAIN stmt.joins[j].on} : j \in DOMAIN stmt.joins}
Places(stmt) == WherePlaces(stmt) \cup OnPlaces(stmt)

PredicateAt(stmt, pl) ==
  IF pl[1] = 0 THEN stmt.where[pl[2]] ELSE stmt.joins[pl[1]].on[pl[2]]

Earlier(pl, other) == pl[1] < other[1] \/ (pl[1] = other[1] /\ pl[2] < other[2])

(***************************************************************************)
(* Values.  A bind parameter that is bound to a value is a value too; a     *)
(* LIMIT is looked at as a literal only.                                    *)
(***************************************************************************)
Resolved(value) ==
  \/ value.kind = "literal"
  \/ value.kind = "bind" /\ value.v # Null

IntValue(value) == IF value.kind = "literal" THEN value.v ELSE Null

(***************************************************************************)
(* Filters.                                                                 *)
(***************************************************************************)
Filter(column, op, v) == [column |-> column, op |-> op, v |-> v]

\* A conjunct that becomes a filter of whichever source it names.
ToFilter(p) == p.op \notin {"raw", "isnull"} /\ Resolved(p.value)

FiltersOf(stmt, k) ==
  {i \in DOMAIN stmt.where :
     /\ Attributable(stmt.where[i].table, stmt, k, Single(stmt))
     /\ stmt.where[i].column \in Columns(stmt, k)
     /\ ToFilter(stmt.where[i])}

DirectFilters(stmt, k) ==
  {Filter(stmt.where[i].column, stmt.where[i].op, stmt.where[i].value.v) : i \in FiltersOf(stmt, k)}

\* The columns that carry a filter already; inference leaves them alone.
Have(stmt, k) == {stmt.where[i].column : i \in FiltersOf(stmt, k)}

\* Mutant: any comparison with a literal counts as an equality.
ComparedPlaces(stmt, ref) ==
  {pl \in Places(stmt) : LET p == PredicateAt(stmt, pl)
                         IN p.value # NoValue /\ p.table # "" /\ RefOf(p) = ref}
LiteralPlaces(stmt, ref) ==
  {pl \in Places(stmt) : LET p == PredicateAt(stmt, pl)
                         IN p.op = "=" /\ p.value # NoValue /\ p.table # "" /\ RefOf(p) = ref}

\* The last `= value` of a column wins.
LiteralOf(stmt, ref) ==
  LET places == LiteralPlaces(stmt, ref)
  IN {PredicateAt(stmt, pl).value :
        pl \in {last \in places : \A other \in places \ {last} : Earlier(other, last)}}

EquiPlaces(stmt) ==
  {pl \in Places(stmt) : LET p == PredicateAt(stmt, pl)
                         IN p.op = "=" /\ p.ref # NoRef /\ p.table # "" /\ p.ref.table # ""}

\* The two ends of an equi-join key, seen from either side.
Near(stmt, pl, side) ==
  IF side = 1 THEN RefOf(PredicateAt(stmt, pl)) ELSE PredicateAt(stmt, pl).ref
Far(stmt, pl, side) == Near(stmt, pl, 3 - side)

\* The ends that name a column of source k, which has no filter yet, and whose
\* other end has a literal.
Inferences(stmt, k) ==
  {inf \in [place : EquiPlaces(stmt), side : {1, 2}] :
     /\ Near(stmt, inf.place, inf.side).table \in Names(stmt, k)
     /\ Near(stmt, inf.place, inf.side).column \in Columns(stmt, k) \ Have(stmt, k)
     /\ \E v \in LiteralOf(stmt, Far(stmt, inf.place, inf.side)) : Resolved(v)}

Sooner(inf, other) ==
  Earlier(inf.place, other.place) \/ (inf.place = other.place /\ inf.side < other.side)

\* The first inference for a column gives it a filter, which blocks the others.
FirstInferences(stmt, k) ==
  {inf \in Inferences(stmt, k) :
     \A other \in Inferences(stmt, k) \ {inf} :
       Near(stmt, other.place, other.side).column = Near(stmt, inf.place, inf.side).column
         => Sooner(inf, other)}

InferredFilters(stmt, k) ==
  UNION {{Filter(Near(stmt, inf.place, inf.side).column, "=", v.v) :
            v \in LiteralOf(stmt, Far(stmt, inf.place, inf.side))} : inf \in FirstInferences(stmt, k)}

Filters(stmt, k) == DirectFilters(stmt, k) \cup InferredFilters(stmt, k)

(***************************************************************************)
(* ORDER BY.                                                                *)
(***************************************************************************)
OrderTermOffered(stmt, k, o, single) ==
  /\ OrderColumn(o) # ""
  /\ Attributable(o.table, stmt, k, single)

OrderBy(stmt, k) ==
  LET Offered(o) == OrderTermOffered(stmt, k, o, Single(stmt)) /\ o.column \in Columns(stmt, k)
      kept[n \in 0..Len(stmt.order)] ==
        IF n = 0 THEN <<>>
        ELSE IF Offered(stmt.order[n]) THEN Append(kept[n - 1], stmt.order[n]) ELSE kept[n - 1]
  IN kept[Len(stmt.order)]

(***************************************************************************)
(* LIMIT.                                                                   *)
(***************************************************************************)
\* Mutant: ORDER BY names are taken for the tables' columns.
NoAliases(stmt) == {}
OutputAliases(stmt) == {stmt.projections[i].alias : i \in DOMAIN stmt.projections} \ {""}

LimitPushable(stmt, k) ==
  /\ Complete(stmt) /\ ~stmt.distinct
  /\ ~HasExpression(stmt)
  /\ \A i \in DOMAIN stmt.order :
       LET o == stmt.order[i]
       IN /\ OrderTermOffered(stmt, k, o, Single(stmt))
          /\ o.column \in Columns(stmt, k)
          /\ ~(o.table = "" /\ o.column \in OutputAliases(stmt))

\* The references with a constant value: those compared with one, and what is
\* joined to them.
Pinned(stmt) ==
  LET refs == UNION {{RefOf(PredicateAt(stmt, pl)), PredicateAt(stmt, pl).ref} : pl \in Places(stmt)}
      given == {r \in refs : LiteralPlaces(stmt, r) # {}}
      Closed(S) == \A pl \in EquiPlaces(stmt) : Near(stmt, pl, 1) \in S <=> Near(stmt, pl, 2) \in S
  IN {r \in refs : \A S \in SUBSET refs : given \subseteq S /\ Closed(S) => r \in S}

AllOtherColumnsPinned(stmt, k) ==
  LET Constant(ref) == ref.table # "" /\ (ref.table \in Names(stmt, k) \/ ref \in Pinned(stmt))
  IN \A pl \in Places(stmt) :
       LET p == PredicateAt(stmt, pl)
       IN p.op # "raw" /\ Constant(RefOf(p)) /\ (p.ref # NoRef => Constant(p.ref))

LeftPreserving(stmt, k) ==
  k = 1 /\ \A j \in DOMAIN stmt.joins : stmt.joins[j].type \in {"left", "cross"}

\* A join whose condition the planner sees, and that adds no rows of its own.
ExplicitJoin(join) == join.type \notin {"right", "full"} /\ join.using = {}

LimitSafeForJoin(stmt, k) ==
  /\ stmt.order # <<>>
  /\ \A i \in DOMAIN stmt.order : OrderTermOffered(stmt, k, stmt.order[i], FALSE)
  /\ \A j \in DOMAIN stmt.joins : ExplicitJoin(stmt.joins[j])
  /\ AllOtherColumnsPinned(stmt, k) \/ LeftPreserving(stmt, k)

PushesLimit(stmt, k) ==
  HasLimit(stmt) /\ LimitPushable(stmt, k) /\ (Single(stmt) \/ LimitSafeForJoin(stmt, k))

(***************************************************************************)
(* Columns.  {} asks for all of them.                                       *)
(***************************************************************************)
\* Mutant: names are not looked up in the table.
MarkedByName(stmt, k, ref) == Attributable(ref.table, stmt, k, Single(stmt))
\* The columns of source k that a reference may need; an unqualified one may
\* belong to any source that has it.
Marked(stmt, k, ref) ==
  ref.column \in Columns(stmt, k) /\ Attributable(ref.table, stmt, k, Single(stmt))

Ambiguous(stmt, k, ref) ==
  ref.table = "" /\ ~Single(stmt) /\ ref.column \in Columns(stmt, k)

\* Mutant: the ON clauses are not walked.
RefsOutsideOn(stmt) ==
  {RefOf(stmt.projections[i]) : i \in {n \in DOMAIN stmt.projections : ~stmt.projections[n].star}}
  \cup {RefOf(PredicateAt(stmt, pl)) : pl \in WherePlaces(stmt)}
  \cup {PredicateAt(stmt, pl).ref : pl \in WherePlaces(stmt)}
  \cup {Ref(stmt.order[i].table, OrderColumn(stmt.order[i])) : i \in DOMAIN stmt.order}
VisibleRefs(stmt) ==
  {RefOf(stmt.projections[i]) : i \in {n \in DOMAIN stmt.projections : ~stmt.projections[n].star}}
  \cup {RefOf(PredicateAt(stmt, pl)) : pl \in Places(stmt)}
  \cup {PredicateAt(stmt, pl).ref : pl \in Places(stmt)}
  \cup {Ref(stmt.order[i].table, OrderColumn(stmt.order[i])) : i \in DOMAIN stmt.order}

StarOf(stmt, k, p) == p.star /\ (p.table = "" \/ Attributable(p.table, stmt, k, Single(stmt)))

\* Something in the statement reads columns the planner cannot see.
HidesColumns(stmt, k) ==
  \/ ~Complete(stmt) \/ HasExpression(stmt)
  \/ \E i \in DOMAIN stmt.projections : StarOf(stmt, k, stmt.projections[i])
  \/ \E pl \in Places(stmt) : PredicateAt(stmt, pl).op = "raw"
  \/ \E i \in DOMAIN stmt.order : OrderColumn(stmt.order[i]) = ""
  \/ \E ref \in VisibleRefs(stmt) : Ambiguous(stmt, k, ref)

NeededColumns(stmt, k) ==
  IF HidesColumns(stmt, k) THEN {}
  ELSE {ref.column : ref \in {r \in VisibleRefs(stmt) : Marked(stmt, k, r)}}

(***************************************************************************)
(* The request for source k.                                                *)
(***************************************************************************)
PlanScan(stmt, k) ==
  [filters |-> Filters(stmt, k),
   order   |-> OrderBy(stmt, k),
   limit   |-> IF PushesLimit(stmt, k) THEN IntValue(stmt.limit.count) ELSE Null,
   offset  |-> IF PushesLimit(stmt, k) THEN IntValue(stmt.limit.offset) ELSE Null,
   columns |-> NeededColumns(stmt, k)]
==============================================================================
