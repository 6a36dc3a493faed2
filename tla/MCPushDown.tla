----------------------------- MODULE MCPushDown -----------------------------
(* Statements over three tables and small contents for them: A(k, x) and     *)
(* B(k, y) are tables of services, E(k, z) is what a table function makes of  *)
(* the rows of A with the same k.                                             *)
EXTENDS PushDown

MCTable == {"A", "B", "E"}
MCColumnsOf == [tab \in MCTable |->
  CASE tab = "A" -> {"k", "x"} [] tab = "B" -> {"k", "y"} [] tab = "E" -> {"k", "z"}]

AtMost(n, S) == {A \in SUBSET S : Cardinality(A) <= n}
ARow == [k : {0, 1}, x : {Null, 0, 1}]
BRow == [k : {0, 1}, y : {0, 1}]
ERow == [k : {0, 1}, z : {0}]

OneTable == {[A |-> a, B |-> {}, E |-> {}] : a \in AtMost(3, ARow)}
SmallTable == {c \in OneTable : Cardinality(c["A"]) <= 2}
TwoTables ==
  {c \in {[A |-> a, B |-> b, E |-> {}] : a \in AtMost(2, {r \in ARow : r.x # Null}), b \in AtMost(2, BRow)} :
     Cardinality(c["A"]) + Cardinality(c["B"]) <= 3}
WithFunction == {[A |-> a, B |-> {}, E |-> e] : a \in AtMost(2, ARow), e \in SUBSET ERow}

\* The contents that matter to a statement.
ContentsFor ==
  [s \in Statements |-> IF Len(s.from) = 1 THEN (IF HasLimit(s) THEN OneTable ELSE SmallTable)
                        ELSE IF Anonymous(s.from[2]) THEN WithFunction ELSE TwoTables]

Of(tab, alias) == [table |-> tab, name |-> tab, alias |-> alias, of |-> {}]
Function == [table |-> "E", name |-> "", alias |-> "e", of |-> {"k"}]

Column(ref, alias) == [star |-> FALSE, count |-> FALSE, table |-> ref.table, column |-> ref.column,
                       alias |-> alias]
Star == [Column(NoRef, "") EXCEPT !.star = TRUE]
Count == [Column(NoRef, "") EXCEPT !.count = TRUE]

By(ref, desc) == [table |-> ref.table, column |-> ref.column, desc |-> desc, expr |-> FALSE]
Join(type, on) == [type |-> type, on |-> on, using |-> {}]
Limit(count, offset) == [count |-> count, offset |-> offset]

Select(from, joins, projections, where, order, limit) ==
  [from |-> from, joins |-> joins, projections |-> projections, where |-> where,
   order |-> order, limit |-> limit, distinct |-> FALSE, grouped |-> FALSE]

Ak == Ref("a", "k")
Ax == Ref("a", "x")
Bk == Ref("b", "k")
Bz == Ref("b", "y")
Tk == Ref("A", "k")
x == Ref("", "x")

Is(ref, v) == Predicate(ref, "=", Literal(v))
IsNot(ref, v) == Predicate(ref, "<>", Literal(v))
One(S) == {<<>>} \cup {<<p>> : p \in S}
OneOne == Limit(Literal(1), NoValue)

(***************************************************************************)
(* Statements over A alone: SELECT ... FROM A.                              *)
(***************************************************************************)
Pushed == One({Predicate(x, "=", Bind(1)), Is(Tk, 1), IsNot(Tk, 0), Predicate(x, "=", Bind(Null))})
          \cup {<<Is(Tk, 1), IsNot(x, 0)>>}
Unpushed == {<<Predicate(x, "isnull", NoValue)>>, <<Raw({Is(x, 0), Is(Tk, 1)})>>}

AOrders == {<<>>, <<By(x, FALSE)>>, <<By(Tk, TRUE), By(x, TRUE)>>,
            <<By(Tk, FALSE), [By(x, FALSE) EXCEPT !.expr = TRUE]>>}

ASelects(projections, wheres, orders, limits) ==
  {Select(<<Of("A", "")>>, <<>>, projection, where, order, limit) :
     projection \in projections, where \in wheres, order \in orders, limit \in limits}

AllRows == {<<Star>>, <<Column(x, "")>>, <<Column(Tk, "x")>>, <<Count>>}
Limits == {OneOne, Limit(Literal(1), Literal(1)), Limit(Bind(1), NoValue)}

\* Each x once, by DISTINCT or by GROUP BY.
XOnce(wheres, limits) ==
  {[s EXCEPT !.distinct = d, !.grouped = ~d] :
     s \in ASelects({<<Column(x, "")>>}, wheres, {<<>>, <<By(x, FALSE)>>}, limits), d \in BOOLEAN}

\* SELECT k AS key ... ORDER BY key
ByAlias(limits) ==
  ASelects({<<Column(Tk, "key")>>}, {<<>>}, {<<By(Ref("", "key"), FALSE)>>}, limits)

OneWhole == ASelects(AllRows, Pushed \cup Unpushed, AOrders, {NoLimit})
            \cup XOnce(Pushed, {NoLimit}) \cup ByAlias({NoLimit})
OneLimited == ASelects(AllRows, Pushed, AOrders, Limits) \cup XOnce(Pushed, Limits) \cup ByAlias(Limits)

\* A LIMIT beside a conjunct that is no filter; a LIMIT whose OFFSET is no literal.
MCLimitBesideConjunct == ASelects({<<Star>>}, Unpushed, {<<>>}, {OneOne})
MCBoundOffset == ASelects({<<Star>>}, {<<>>}, {<<>>}, {Limit(Literal(1), Bind(1))})

(***************************************************************************)
(* Statements that join A and B: SELECT ... FROM A a JOIN B b.              *)
(***************************************************************************)
SameK == Equijoin(Ak, Bk)

Types == {"inner", "left", "right", "full", "cross", "comma"}
Ons == {<<>>, <<SameK>>, <<SameK, Is(Ak, 1)>>, <<SameK, Is(Bk, 1)>>, <<SameK, Is(Bz, 1)>>}
AllJoins == {Join(type, on) : type \in Types, on \in Ons}
Using == {[Join(type, <<>>) EXCEPT !.using = {"k"}] : type \in Types \ {"cross", "comma"}}

\* A literal in the ON of an outer join that the key carries to the side whose
\* rows the join keeps.
CarriesLiteral(join) ==
  \/ join.type \in {"left", "full"} /\ join.on = <<SameK, Is(Bk, 1)>>
  \/ join.type \in {"right", "full"} /\ join.on = <<SameK, Is(Ak, 1)>>
Joins == {join \in AllJoins : ~CarriesLiteral(join)}

JWheres == One({SameK, Is(Ak, 1), Is(Bk, 1), Is(Bz, 1), IsNot(Ax, 0), Is(x, 1),
                Predicate(Bz, "isnull", NoValue), Raw({Is(Ak, 1), Is(Bz, 1)})})
           \cup {<<SameK, Is(Bk, 1)>>, <<Is(Ak, 1), IsNot(Ak, 0)>>}

JSelects(joins, projections, wheres, orders, limits) ==
  {Select(<<Of("A", "a"), Of("B", "b")>>, <<join>>, projection, where, order, limit) :
     join \in joins, projection \in projections, where \in wheres, order \in orders, limit \in limits}

Both == <<Column(Ax, ""), Column(Bz, "")>>

\* Without LIMIT the planner does not distinguish an inner, cross or comma join.
KindsOfJoin == {join \in Joins : join.type \notin {"cross", "comma"}}
JoinWhole == JSelects(Using, {<<Star>>}, JWheres, {<<>>}, {NoLimit})
             \cup JSelects(KindsOfJoin, {Both}, JWheres, {<<>>}, {NoLimit})
             \cup JSelects(KindsOfJoin, {<<Column(x, "")>>}, {<<>>}, {<<>>}, {NoLimit})

MCOuterLiteral == JSelects({j \in AllJoins : CarriesLiteral(j)}, {<<Star>>}, {<<>>}, {<<>>}, {NoLimit})
MCUsingColumns == JSelects(Using, {Both}, {<<>>}, {<<>>}, {NoLimit})

\* The join keeps every row of A, but a condition outside an outer join's ON
\* takes rows away.
FiltersLater(s) ==
  \/ s.joins[1].type = "cross" /\ s.joins[1].on # <<>>
  \/ /\ s.joins[1].type \in {"left", "cross"}
     /\ \E i \in DOMAIN s.where : s.where[i].table # "a" \/ s.where[i].ref # NoRef

\* The ON of an inner join compares a column of A with a value.
RestrictsInOn(s) ==
  s.joins[1].type \in {"inner", "comma"} /\ s.joins[1].on = <<SameK, Is(Ak, 1)>>

ByAx == <<By(Ax, FALSE)>>
Limiting == JSelects(Using, {<<Star>>}, JWheres, {ByAx}, {OneOne})
            \cup JSelects(Joins, {Both}, JWheres, {ByAx}, {OneOne})
            \cup JSelects(Joins, {Both}, {<<>>}, {<<By(Ax, FALSE), By(Bz, TRUE)>>}, {OneOne})

JoinLimited == {s \in Limiting : ~FiltersLater(s) /\ ~RestrictsInOn(s)}
MCFiltersLater == {s \in Limiting : FiltersLater(s)}
MCRestrictsInOn == {s \in Limiting : RestrictsInOn(s)}

MCStatements == OneWhole \cup JoinWhole \cup OneLimited \cup JoinLimited

(***************************************************************************)
(* Other FROM clauses.                                                      *)
(***************************************************************************)
From(from, where, order, limit) ==
  {Select(from, <<Join("inner", <<SameK>>)>>, <<Star>>, where, order, limit)}

\* FROM A a JOIN A b ON a.k = b.k WHERE a.x = 1
MCTwice == From(<<Of("A", "a"), Of("A", "b")>>, <<Is(Ax, 1)>>, <<>>, NoLimit)

\* FROM one.t a LEFT JOIN two.t WHERE t.k = 1
MCSameName ==
  {Select(<<[Of("A", "a") EXCEPT !.name = "t"], [Of("B", "") EXCEPT !.name = "t"]>>,
          <<Join("left", <<>>)>>, <<Star>>, <<Is(Ref("t", "k"), 1)>>, <<>>, NoLimit)}

\* FROM A a, json_each(a...) e LIMIT 1
MCTableFunction ==
  {Select(<<Of("A", "a"), Function>>, <<Join("comma", <<>>)>>, <<Star>>, <<>>, <<>>, OneOne)}
==============================================================================
