------------------------- MODULE ScanCompleteProofs -------------------------
(***************************************************************************)
(* A scan that returns without a warning has served its request, for every  *)
(* connector, every request whose literals it understands and every service; *)
(* the window it makes up is where the rows are; and it emits no row twice.  *)
(***************************************************************************)
EXTENDS ScanRowsProofs, WellFoundedInduction

-----------------------------------------------------------------------------
(* Numbers.                                                                 *)

LEMMA LeastOf ==
  ASSUME NEW T, T \subseteq Nat, T # {}
  PROVE  \E x \in T : \A y \in T : x <= y
<1> DEFINE Below == {ss \in Nat \X Nat : ss[1] < ss[2]}
<1>1. IsWellFoundedOn(Below, Nat) BY NatLessThanWellFounded DEF OpToRel
<1> HIDE DEF Below
<1>2. PICK x \in T : \A y \in T : <<y, x>> \notin Below BY <1>1, WFMin, Zenon
<1>3. ASSUME NEW y \in T PROVE x <= y
  <2>1. x \in Nat /\ y \in Nat /\ <<y, x>> \notin Below BY <1>2
  <2>2. ~(<<y, x>>[1] < <<y, x>>[2]) BY <2>1 DEF Below
  <2> QED BY <2>1, <2>2
<1> QED BY <1>3

\* A finite set of numbers has a greatest one: the one with the fewest above it.
LEMMA HasMax ==
  ASSUME NEW S, IsFiniteSet(S), S \subseteq Int, S # {}
  PROVE  \E x \in S : \A y \in S : y <= x
<1> DEFINE above(x) == {y \in S : x < y}
           T == {Cardinality(above(x)) : x \in S}
<1>1. ASSUME NEW x \in S PROVE IsFiniteSet(above(x)) /\ Cardinality(above(x)) \in Nat
  <2>1. above(x) \in SUBSET S OBVIOUS
  <2> QED BY <2>1, FS_Subset, FS_CardinalityType
<1>2. T \subseteq Nat /\ T # {} BY <1>1
<1>3. PICK n \in T : \A m \in T : n <= m
  <2> HIDE DEF T
  <2> QED BY <1>2, LeastOf
<1>4. PICK x \in S : n = Cardinality(above(x)) OBVIOUS
<1>5. ASSUME NEW y \in S, x < y PROVE FALSE
  <2>1. y \notin above(y) /\ above(y) \cup {y} \in SUBSET above(x)
    <3>1. x \in Int /\ y \in Int /\ S \subseteq Int OBVIOUS
    <3>2. ASSUME NEW z \in above(y) PROVE z \in above(x)
      <4>1. z \in S /\ y < z /\ z \in Int OBVIOUS
      <4>2. x < z BY ONLY <1>5, <3>1, <4>1
      <4> QED BY <4>1, <4>2
    <3>3. y \notin above(y) BY <3>1
    <3>4. y \in above(x) BY <1>5
    <3> QED BY <3>2, <3>3, <3>4
  <2>2. Cardinality(above(y) \cup {y}) = Cardinality(above(y)) + 1 BY <1>1, <2>1, FS_AddElement
  <2>3. Cardinality(above(y) \cup {y}) <= Cardinality(above(x)) BY <1>1, <2>1, FS_Subset
  <2>4. n <= Cardinality(above(y)) BY <1>3
  <2>5. PICK a, b : a = Cardinality(above(x)) /\ b = Cardinality(above(y)) OBVIOUS
  <2>6. a \in Nat /\ b \in Nat /\ b + 1 <= a /\ a <= b BY <1>1, <1>4, <2>2, <2>3, <2>4, <2>5
  <2> QED BY ONLY <2>6
<1>6. \A y \in S : y <= x BY <1>5
<1> QED BY <1>6

LEMMA HasMin ==
  ASSUME NEW S, IsFiniteSet(S), S \subseteq Int, S # {}
  PROVE  \E x \in S : \A y \in S : x <= y
<1> DEFINE f == [x \in S |-> 0 - x]
           T == {0 - x : x \in S}
<1>1. f \in Surjection(S, T) BY DEF Surjection
<1>2. T \subseteq Int /\ T # {}
  <2>1. \A x \in S : x \in Int /\ 0 - x \in Int OBVIOUS
  <2>2. \A y \in T : \E x \in S : y = 0 - x OBVIOUS
  <2>3. \E y : y \in T OBVIOUS
  <2> HIDE DEF T
  <2> QED BY <2>1, <2>2, <2>3
<1>3. IsFiniteSet(T)
  <2> HIDE DEF f, T
  <2> QED BY <1>1, FS_Surjection
<1>4. PICK z \in T : \A y \in T : y <= z
  <2> HIDE DEF T
  <2> QED BY <1>2, <1>3, HasMax
<1>5. PICK x \in S : z = 0 - x OBVIOUS
<1>6. ASSUME NEW y \in S PROVE x <= y
  <2>1. 0 - y <= 0 - x BY <1>4, <1>5
  <2>2. x \in Int /\ y \in Int OBVIOUS
  <2> QED BY <2>1, <2>2
<1> QED BY <1>6

LEMMA MaxMin ==
  ASSUME NEW S, IsFiniteSet(S), S \subseteq Int, S # {}
  PROVE  /\ Max(S) \in S /\ \A y \in S : y <= Max(S)
         /\ Min(S) \in S /\ \A y \in S : Min(S) <= y
<1>1. PICK x \in S : \A y \in S : y <= x BY HasMax
<1>2. \A y \in S : x >= y BY <1>1
<1>3. Max(S) \in S /\ \A y \in S : Max(S) >= y BY <1>2 DEF Max
<1>4. \A y \in S : y <= Max(S) BY <1>3
<1>5. \E z \in S : \A y \in S : z <= y BY HasMin
<1>6. Min(S) \in S /\ \A y \in S : Min(S) <= y BY <1>5 DEF Min
<1> QED BY <1>3, <1>4, <1>6

\* What a function takes a finite set to is finite.
LEMMA ImageFinite ==
  ASSUME NEW f, IsFiniteSet(DOMAIN f), f = [x \in DOMAIN f |-> f[x]]
  PROVE  IsFiniteSet({f[x] : x \in DOMAIN f})
<1> DEFINE T == {f[x] : x \in DOMAIN f}
<1>1. f \in [DOMAIN f -> T] OBVIOUS
<1>2. f \in Surjection(DOMAIN f, T) BY <1>1 DEF Surjection
<1> HIDE DEF T
<1>3. IsFiniteSet(T) BY <1>2, FS_Surjection
<1> QED BY <1>3 DEF T

-----------------------------------------------------------------------------
(* Requests and their filters.                                              *)

LEMMA Shape ==
  ASSUME req \in Requests
  PROVE  /\ DOMAIN req.filters = 1..Len(req.filters) /\ Len(req.filters) \in Nat
         /\ IsFiniteSet(DOMAIN req.filters)
         /\ \A f \in Filters :
              /\ DOMAIN f = {"column", "op", "values"}
              /\ DOMAIN f.values = 1..Len(f.values) /\ Len(f.values) \in Nat /\ Len(f.values) >= 1
              /\ f.op \in {"between", "notbetween"} => Len(f.values) = 2
              /\ f.op \notin {"between", "notbetween", "in", "notin"} => Len(f.values) = 1
              /\ \A j \in DOMAIN f.values : DOMAIN f.values[j] = {"type", "v"} /\ f.values[j].v \in Int
              /\ \A row \in Stored(Table) : row[f.column] \in Int \cup {Null}
<1>1. /\ req.filters \in Seq({req.filters[i] : i \in DOMAIN req.filters})
      /\ \A i \in DOMAIN req.filters :
           LET f == req.filters[i]
           IN /\ DOMAIN f = {"column", "op", "values"}
              /\ f.values \in Seq({f.values[j] : j \in DOMAIN f.values}) /\ Len(f.values) >= 1
              /\ f.op \in {"between", "notbetween"} => Len(f.values) = 2
              /\ f.op \notin {"between", "notbetween", "in", "notin"} => Len(f.values) = 1
              /\ \A j \in DOMAIN f.values : DOMAIN f.values[j] = {"type", "v"} /\ f.values[j].v \in Int
  BY FilterAssumption
<1>2. DOMAIN req.filters = 1..Len(req.filters) /\ Len(req.filters) \in Nat
  <2> PICK s, S : s = req.filters /\ s \in Seq(S) BY <1>1
  <2> QED OBVIOUS
<1>3. IsFiniteSet(1..Len(req.filters)) BY <1>2, FS_Interval
<1>4. \A row \in Stored(Table) : \A i \in DOMAIN req.filters : row[req.filters[i].column] \in Int \cup {Null}
  BY RowAssumption DEF Table
<1>5. ASSUME NEW f \in Filters
      PROVE  /\ DOMAIN f = {"column", "op", "values"}
             /\ DOMAIN f.values = 1..Len(f.values) /\ Len(f.values) \in Nat /\ Len(f.values) >= 1
             /\ f.op \in {"between", "notbetween"} => Len(f.values) = 2
             /\ f.op \notin {"between", "notbetween", "in", "notin"} => Len(f.values) = 1
             /\ \A j \in DOMAIN f.values : DOMAIN f.values[j] = {"type", "v"} /\ f.values[j].v \in Int
             /\ \A row \in Stored(Table) : row[f.column] \in Int \cup {Null}
  <2>1. PICK i \in DOMAIN req.filters : f = req.filters[i] BY DEF Filters
  <2>2. f.values \in Seq({f.values[j] : j \in DOMAIN f.values}) BY <1>1, <2>1
  <2>3. DOMAIN f.values = 1..Len(f.values) /\ Len(f.values) \in Nat
    <3> PICK s, S : s = f.values /\ s \in Seq(S) BY <2>2
    <3> QED OBVIOUS
  <2> QED BY <1>1, <1>4, <2>1, <2>3
<1> QED BY <1>2, <1>3, <1>5

\* A filter on a column: the first one, and the last one of a kind.
LEMMA FirstThere ==
  ASSUME req \in Requests, NEW f \in Filters
  PROVE  \E g \in FilterOn(f.column) : TRUE
<1> DEFINE on == {i \in DOMAIN req.filters : req.filters[i].column = f.column}
<1>1. on \subseteq DOMAIN req.filters /\ on # {} BY DEF Filters
<1>2. on \subseteq Nat BY <1>1, Shape
<1>3. PICK i \in on : \A j \in on : i <= j
  <2> HIDE DEF on
  <2> QED BY <1>1, <1>2, LeastOf
<1>4. req.filters[i] \in FilterOn(f.column) BY <1>3 DEF FilterOn
<1> QED BY <1>4

LEMMA LastThere ==
  ASSUME req \in Requests, NEW f \in Filters, NEW ops, f.op \in ops, NEW type, Typed(f, type)
  PROVE  \E g \in LastOn(f.column, ops, type) : TRUE
<1> DEFINE on == {i \in DOMAIN req.filters :
                    req.filters[i].column = f.column /\ req.filters[i].op \in ops /\ Typed(req.filters[i], type)}
<1>1. on \subseteq DOMAIN req.filters /\ on # {} BY DEF Filters
<1>2. IsFiniteSet(on) /\ on \subseteq Int
  <2>1. on \in SUBSET DOMAIN req.filters BY <1>1
  <2> HIDE DEF on
  <2> QED BY <1>1, <2>1, Shape, FS_Subset
<1>3. PICK i \in on : \A j \in on : j <= i
  <2> HIDE DEF on
  <2> QED BY <1>1, <1>2, HasMax
<1>4. req.filters[i] \in LastOn(f.column, ops, type) BY <1>3 DEF LastOn
<1> QED BY <1>4

LEMMA OfFilters ==
  /\ \A c : \A f \in FilterOn(c) : f \in Filters /\ f.column = c
  /\ \A c, t : \A f \in EqOf(c, t) : f \in Filters /\ f.column = c /\ f.op = "=" /\ Typed(f, t)
  /\ \A c, ops, t : \A f \in LastOn(c, ops, t) : f \in Filters /\ f.column = c /\ f.op \in ops /\ Typed(f, t)
BY DEF FilterOn, EqOf, LastOn, Filters

\* Beside a LIMIT a filter shares its column with none but a bound at the other end.
LEMMA Alone ==
  ASSUME Understood(req), req.limit # Null, NEW f \in Filters, NEW g \in Filters, f.column = g.column
  PROVE  \/ f = g
         \/ f.op \in {">", ">="} /\ g.op \in {"<", "<="}
         \/ g.op \in {">", ">="} /\ f.op \in {"<", "<="}
<1>1. PICK i \in DOMAIN req.filters, j \in DOMAIN req.filters : f = req.filters[i] /\ g = req.filters[j] BY DEF Filters
<1> QED BY <1>1 DEF Understood

\* Hence its equality is the one found for its column, and its bounds the ones gathered.
LEMMA EqThere ==
  ASSUME req \in Requests, Understood(req), req.limit # Null, NEW f \in Filters, f.op = "=", NEW t, Typed(f, t)
  PROVE  f \in EqOf(f.column, t)
<1>1. PICK g \in FilterOn(f.column) : TRUE BY FirstThere
<1>2. g = f BY OfFilters, Alone
<1> QED BY <1>1, <1>2 DEF EqOf

LEMMA BoundThere ==
  ASSUME req \in Requests, Understood(req), req.limit # Null, NEW f \in Filters,
         NEW ops \in {Ups, Downs, {"="}}, f.op \in ops, NEW t, Typed(f, t)
  PROVE  f \in LastOn(f.column, ops, t)
<1>1. PICK g \in LastOn(f.column, ops, t) : TRUE BY LastThere
<1>2. g \in Filters /\ g.column = f.column /\ g.op \in ops BY OfFilters
<1>3. g = f BY <1>2, Alone DEF Ups, Downs
<1> QED BY <1>1, <1>3

LEMMA StopIsWrapped ==
  ASSUME req \in Requests, Understood(req), req.limit # Null
  PROVE  WrappedStop = StopAt(req) /\ StopAt(req) \in Nat
<1>1. req.limit \in Nat \cup {Null} /\ req.offset \in Nat \cup {Null} BY RequestAssumption
<1>2. StopAt(req) \in Nat BY <1>1 DEF StopAt
<1>3. StopAt(req) <= MaxInt /\ MaxInt \in Nat BY SizeAssumption DEF Understood
<1> QED BY <1>2, <1>3 DEF WrappedStop

\* A row that passes a filter lies within its ends.
LEMMA EndsHold ==
  ASSUME req \in Requests, NEW f \in Filters, NEW row \in Stored(Table), Passes(f, row)
  PROVE  /\ row[f.column] \in Int /\ row[f.column] # Null
         /\ f.op \in Ups => From(f).v \in Int /\ From(f).v <= row[f.column]
         /\ f.op \in Downs => To(f).v \in Int /\ row[f.column] <= To(f).v
<1> PICK cell, n : cell = row[f.column] /\ n = Len(f.values) OBVIOUS
<1>1. /\ DOMAIN f.values = 1..n /\ n \in Nat /\ n >= 1
      /\ f.op = "between" => n = 2
      /\ f.op \in {"<", "<=", ">", ">="} => n = 1
      /\ \A j \in 1..n : f.values[j].v \in Int
      /\ cell \in Int \cup {Null}
  BY Shape
<1>2. cell \in Int /\ cell # Null BY <1>1 DEF Passes
<1>3. ASSUME f.op \in Ups PROVE From(f).v \in Int /\ From(f).v <= cell
  <2>1. f.values[1].v \in Int BY <1>1
  <2>2. CASE f.op = ">" BY <1>2, <2>1, <2>2 DEF Passes, From
  <2>3. CASE f.op = ">=" BY <1>2, <2>1, <2>3 DEF Passes, From
  <2>4. CASE f.op = "between" BY <1>2, <2>1, <2>4 DEF Passes, From
  <2> QED BY <1>3, <2>2, <2>3, <2>4 DEF Ups
<1>4. ASSUME f.op \in Downs PROVE To(f).v \in Int /\ cell <= To(f).v
  <2>1. f.values[n].v \in Int BY <1>1
  <2>2. CASE f.op = "<"
    <3>1. n = 1 BY <1>1, <2>2
    <3> QED BY <1>2, <2>1, <2>2, <3>1 DEF Passes, To
  <2>3. CASE f.op = "<="
    <3>1. n = 1 BY <1>1, <2>3
    <3> QED BY <1>2, <2>1, <2>3, <3>1 DEF Passes, To
  <2>4. CASE f.op = "between"
    <3>1. n = 2 BY <1>1, <2>4
    <3> QED BY <1>2, <2>1, <2>4, <3>1 DEF Passes, To
  <2> QED BY <1>4, <2>2, <2>3, <2>4 DEF Downs
<1> QED BY <1>2, <1>3, <1>4

\* What a bound made of a filter selects.
LEMMA AtBound ==
  \A c, value, row :
    /\ Passes([column |-> c, op |-> ">=", values |-> <<value>>], row) <=> row[c] # Null /\ row[c] >= value.v
    /\ Passes([column |-> c, op |-> "<=", values |-> <<value>>], row) <=> row[c] # Null /\ row[c] <= value.v
BY DEF Passes

LEMMA BoundIs ==
  ASSUME req \in Requests, NEW f \in Filters, NEW op, NEW value
  PROVE  Bound(f, op, value) = [column |-> f.column, op |-> op, values |-> <<value>>]
<1> DEFINE r == [column |-> f.column, op |-> op, values |-> <<value>>]
           s == [f EXCEPT !.op = op]
<1>1. DOMAIN f = {"column", "op", "values"} BY Shape
<1>2. DOMAIN s = {"column", "op", "values"} /\ s["op"] = op /\ s["column"] = f["column"] BY <1>1
<1>3. Bound(f, op, value) = [s EXCEPT !.values = <<value>>] BY DEF Bound
<1> HIDE DEF s
<1>4. [s EXCEPT !.values = <<value>>] = r BY <1>2
<1> QED BY <1>3, <1>4

LEMMA ShiftIs ==
  ASSUME req \in Requests, NEW f \in Filters, NEW by \in Int
  PROVE  Shift(From(f), by).v = From(f).v + by /\ Shift(To(f), by).v = To(f).v + by
<1>1. \A j \in DOMAIN f.values : DOMAIN f.values[j] = {"type", "v"} BY Shape
<1>2. 1 \in DOMAIN f.values /\ Len(f.values) \in DOMAIN f.values
  <2> PICK n : n = Len(f.values) OBVIOUS
  <2>1. DOMAIN f.values = 1..n /\ n \in Nat /\ n >= 1 BY Shape
  <2> QED BY <2>1
<1> QED BY <1>1, <1>2 DEF Shift, From, To

-----------------------------------------------------------------------------
(* Lists and pages.                                                         *)

Inv == RowsInv /\ CompleteInv

LEMMA ListHoldsAll ==
  ASSUME NEW rows, IsFiniteSet(rows), NEW o, NEW l \in Listings(rows, o)
  PROVE  /\ DOMAIN l = 1..Cardinality(rows) /\ Len(l) = Cardinality(rows)
         /\ \A i \in DOMAIN l : l[i] \in rows
         /\ \A row \in rows : \E i \in DOMAIN l : l[i] = row
         /\ \A i, j \in DOMAIN l : i < j => ~Before(o, SortKey(o, l[j]), SortKey(o, l[i]))
<1> PICK n : n = Cardinality(rows) OBVIOUS
<1>1. n \in Nat BY FS_CardinalityType
<1>2. /\ l \in [1..n -> rows]
      /\ \A i, j \in DOMAIN l : i < j => l[i] # l[j]
      /\ \A i, j \in DOMAIN l : i < j => ~Before(o, SortKey(o, l[j]), SortKey(o, l[i]))
  BY DEF Listings
<1>3. l \in Seq(rows) /\ DOMAIN l = 1..n /\ Len(l) = n BY <1>1, <1>2
<1>4. ASSUME NEW i \in DOMAIN l, NEW j \in DOMAIN l, l[i] = l[j] PROVE i = j
  <2>1. ~(i < j) /\ ~(j < i) BY <1>2, <1>4
  <2>2. i \in Int /\ j \in Int BY <1>3
  <2> QED BY <2>1, <2>2
<1>5. PICK T : T = {l[i] : i \in 1..n} OBVIOUS
<1>6. T \in SUBSET rows /\ (\A i \in 1..n : l[i] \in T) /\ \A t \in T : \E i \in 1..n : t = l[i]
  BY <1>2, <1>5
<1>7. IsFiniteSet(T) /\ Cardinality(T) = Cardinality(1..n)
  <2>1. 1..n \in SUBSET (1..Len(l)) BY <1>3
  <2> QED BY <1>3, <1>4, <1>6, <2>1, RowsAtPlaces
<1>8. Cardinality(1..n) = n
  <2>1. IsFiniteSet(1..n) /\ Cardinality(1..n) = IF 1 > n THEN 0 ELSE n - 1 + 1
    <3>1. 1 \in Int /\ n \in Int BY <1>1
    <3> QED BY ONLY <3>1, FS_Interval
  <2> QED BY <1>1, <2>1
<1>9. T = rows BY <1>6, <1>7, <1>8, FS_Subset
<1> QED BY <1>2, <1>3, <1>6, <1>9

\* What a LIMIT cuts off a page comes behind what is emitted, which is enough.
LEMMA CutBehind ==
  ASSUME NEW n \in Nat, NEW K \in SUBSET (1..n), NEW A \in {Appended(K), Trimmed(K)}, sent \in Nat,
         Limits => asked.stop \in Int, NEW i \in K, i \notin A
  PROVE  Satisfied(sent + Cardinality(A)) /\ \A j \in A : j < i
<1> DEFINE before(x) == {j \in K : j < x}
           Out == K \ A
<1>0. A \in SUBSET K /\ \A k \in K : k \in Nat
  <2>1. A \in SUBSET K BY DEF Appended, Trimmed
  <2>2. \A k \in 1..n : k \in Nat OBVIOUS
  <2> QED BY <2>1, <2>2
<1>1. PICK x \in Out : \A y \in Out : x <= y
  <2>1. Out \subseteq Nat /\ Out # {} BY <1>0
  <2> HIDE DEF Out
  <2> QED BY <2>1, LeastOf
<1>2. Satisfied(sent + Cardinality(before(x))) BY DEF Appended, Trimmed
<1>3. ASSUME NEW k \in K PROVE IsFiniteSet(before(k)) /\ Cardinality(before(k)) \in Nat
  <2>0. IsFiniteSet(1..n)
    <3>1. 1 \in Int /\ n \in Int OBVIOUS
    <3> QED BY ONLY <3>1, FS_Interval
  <2>1. before(k) \in SUBSET (1..n) /\ IsFiniteSet(1..n) BY <2>0
  <2> HIDE DEF before
  <2> QED BY <2>1, FS_Subset, FS_CardinalityType
<1>4. ASSUME NEW a \in A PROVE a < x
  <2>1. a \in K /\ a # x /\ a \in Nat /\ x \in Nat /\ x \in K BY <1>0
  <2>2. SUFFICES ASSUME x < a PROVE FALSE BY <2>1
  <2>3. before(x) \in SUBSET before(a)
    <3>1. ASSUME NEW y \in before(x) PROVE y < a
      <4>1. y \in Nat /\ y < x BY <1>0
      <4> QED BY <2>1, <2>2, <4>1
    <3> QED BY <3>1
  <2>4. Cardinality(before(x)) <= Cardinality(before(a)) BY <1>3, <2>1, <2>3, FS_Subset
  <2>5. Satisfied(sent + Cardinality(before(a)))
    <3> PICK c, d : c = Cardinality(before(x)) /\ d = Cardinality(before(a)) OBVIOUS
    <3>1. c \in Nat /\ d \in Nat /\ c <= d BY <1>3, <2>1, <2>4
    <3>2. Limits /\ sent + c >= asked.stop BY <1>2 DEF Satisfied
    <3>3. sent + d >= asked.stop BY <3>1, <3>2
    <3> QED BY <3>2, <3>3 DEF Satisfied
  <2>6. ~\A j \in K : a <= j BY <2>1, <2>2
  <2> QED BY <2>5, <2>6 DEF Appended, Trimmed
<1>5. A = before(x)
  <2>1. \A y \in before(x) : y \in A
    <3> SUFFICES ASSUME NEW y \in before(x), y \notin A PROVE FALSE OBVIOUS
    <3>1. y \in Out /\ y < x /\ y \in Nat /\ x \in Nat BY <1>0
    <3> QED BY <1>1, <3>1
  <2> QED BY <1>0, <1>4, <2>1
<1>6. x <= i /\ x \in Nat /\ i \in Nat BY <1>0, <1>1
<1>7. \A j \in A : j < i
  <2> SUFFICES ASSUME NEW j \in A PROVE j < i OBVIOUS
  <2>1. j \in Nat /\ j < x BY <1>0, <1>4
  <2> QED BY <1>6, <2>1
<1> QED BY <1>2, <1>5, <1>7

\* The rows of a page that are emitted.
Kept(size, K, A) ==
  /\ K = {i \in PageOf(size) : listing[i].is_row} /\ A \in SUBSET K
  /\ \A i \in K : i \notin A => Satisfied(sent') /\ \A j \in A : j < i
  /\ Emit(A)

LEMMA Placed ==
  ASSUME Inv, NEW size \in Nat, NEW K, NEW A, Kept(size, K, A)
  PROVE  /\ Len(listing) \in Nat /\ DOMAIN listing = 1..Len(listing) /\ next \in Nat
         /\ \A i \in DOMAIN listing : listing[i] \in held /\ listing[i] \in Stored(Table)
         /\ \A i \in K : i \in DOMAIN listing /\ next < i /\ i <= next + size /\ listing[i].is_row
         /\ A \in SUBSET (1..Len(listing))
         /\ \A row \in emitted' : row \in emitted \/ \E i \in A : row = listing[i]
         /\ \A row \in emitted : row \in emitted'
         /\ \A i \in A : listing[i] \in emitted'
<1>1. /\ Len(listing) \in Nat /\ DOMAIN listing = 1..Len(listing) /\ next \in Nat
      /\ \A i \in DOMAIN listing : listing[i] \in held
  BY ListLength DEF Inv
<1>2. held \subseteq Stored(Table) BY DEF Inv, CompleteInv
<1>3. \A i \in K : i \in DOMAIN listing /\ next < i /\ i <= next + size /\ listing[i].is_row
  BY <1>1 DEF Kept, PageOf
<1>4. A \in SUBSET (1..Len(listing)) BY <1>1, <1>3 DEF Kept
<1>5. emitted' = emitted \cup {listing[i] : i \in A} BY DEF Kept, Emit
<1> QED BY <1>1, <1>2, <1>3, <1>4, <1>5

LEMMA CountedOnce ==
  ASSUME Inv, pc = "paging", Understood(req), Undisturbed, Limits, NEW size \in Nat, NEW K, NEW A, Kept(size, K, A)
  PROVE  /\ Exactly /\ asked.stop \in Nat
         /\ sent' = Cardinality(emitted') /\ sent' \in Nat
         /\ \A row \in emitted' : Wanted(row)
         /\ \A row \in emitted' : \A i \in DOMAIN listing : i > next /\ listing[i] \in standing /\ (\A j \in A : j < i) =>
              ~Before(req.order, SortKey(req.order, listing[i]), SortKey(req.order, row))
<1>1. Exactly /\ ListInv BY DEF Inv, CompleteInv
<1>2. asked.stop \in Nat BY <1>1, StopIsWrapped DEF Exactly, Inv, RowsInv
<1>3. /\ A \in SUBSET (1..Len(listing)) /\ next \in Nat /\ DOMAIN listing = 1..Len(listing)
      /\ \A i \in A : i > next /\ listing[i] \in Stored(Table) /\ listing[i].is_row /\ i \in DOMAIN listing
      /\ \A row \in emitted' : row \in emitted \/ \E i \in A : row = listing[i]
  <2>1. A \in SUBSET K BY DEF Kept
  <2> QED BY <2>1, Placed
<1>4. sent' = Cardinality(emitted') /\ sent' \in Nat
  <2>1. Fresh /\ sent = Cardinality(emitted) BY <1>1 DEF Exactly
  <2>2. RowsInv /\ Emit(A) BY DEF Inv, Kept
  <2> QED BY <1>3, <2>1, <2>2, EmitCounts
<1>5. \A i \in A : Wanted(listing[i]) BY <1>1, <1>3 DEF Exactly, ListInv
<1>6. \A row \in emitted' : Wanted(row) BY <1>1, <1>3, <1>5 DEF Exactly
<1>7. ASSUME NEW row \in emitted', NEW i \in DOMAIN listing, i > next, listing[i] \in standing, \A j \in A : j < i
      PROVE  ~Before(req.order, SortKey(req.order, listing[i]), SortKey(req.order, row))
  <2>1. CASE row \in emitted BY <1>1, <1>7, <2>1 DEF Exactly
  <2>2. CASE \E j \in A : row = listing[j]
    <3>1. PICK j \in A : row = listing[j] BY <2>2
    <3>2. ~Before(asked.order, SortKey(asked.order, listing[i]), SortKey(asked.order, row))
      BY <1>1, <1>3, <1>7, <3>1 DEF ListInv, Sorted
    <3>3. CASE req.order = <<>>
      <4>1. DOMAIN req.order = {} BY <3>3
      <4> QED BY <4>1 DEF Before
    <3> QED BY <1>1, <3>2, <3>3 DEF Exactly
  <2> QED BY <1>3, <2>1, <2>2
<1> QED BY <1>1, <1>2, <1>4, <1>6, <1>7

\* A scan that has read its last page has served its request.
LEMMA LastServes ==
  ASSUME Inv, pc = "paging", Understood(req), Undisturbed, NEW size \in Nat, NEW K, NEW A, Kept(size, K, A),
         ~WillWarn, withheld \subseteq withheld',
         HasMore(size) => Satisfied(sent') \/ Behind(next + size) \subseteq withheld', asked.rest = <<>> \/ Satisfied(sent')
  PROVE  Serves(req, {row \in Passing(Filters, standing \cup emitted') : row.is_row /\ row \notin withheld' \ emitted'}, emitted')
<1> DEFINE want == {row \in Passing(Filters, standing \cup emitted') : row.is_row /\ row \notin withheld' \ emitted'}
<1> SUFFICES ASSUME NEW missed \in want \ emitted'
             PROVE  /\ req.limit # Null
                    /\ StopAt(req) <= Cardinality({row \in want \cap emitted' :
                         ~Before(req.order, SortKey(req.order, missed), SortKey(req.order, row))})
  BY DEF Serves
<1>1. missed \in standing /\ Wanted(missed) /\ missed \notin emitted' /\ missed \notin withheld' BY DEF Passing, Wanted
<1>2. Limits => Exactly BY DEF Inv, CompleteInv
<1>3. asked.rest = <<>> BY <1>2 DEF Exactly, Satisfied
<1>4. ~Awaited(missed)
  <2>1. DOMAIN asked.rest = {} BY <1>3
  <2> QED BY <2>1 DEF Awaited
<1>5. missed \notin emitted BY <1>1, Placed
<1>6. Unread(missed)
  <2>1. missed \notin withheld BY <1>1
  <2> QED BY <1>1, <1>4, <1>5, <2>1 DEF Inv, CompleteInv, NoneSkipped
<1>7. PICK i \in DOMAIN listing : i > next /\ listing[i] = missed BY <1>6 DEF Unread
<1>8. /\ Len(listing) \in Nat /\ DOMAIN listing = 1..Len(listing) /\ next \in Nat
      /\ \A j \in A : j \in 1..Len(listing) /\ j <= next + size
      /\ \A j \in A : listing[j] \in emitted'
  <2>1. A \in SUBSET K BY DEF Kept
  <2> QED BY <2>1, Placed
<1>9. Satisfied(sent') /\ \A j \in A : j < i
  <2>1. CASE i > next + size
    <3>1. HasMore(size) /\ Satisfied(sent')
      <4>1. HasMore(size) BY <1>7, <1>8, <2>1 DEF HasMore
      <4>2. missed \in Behind(next + size)
        <5>1. next + size < i BY <1>7, <1>8, <2>1
        <5> QED BY <1>7, <5>1 DEF Behind
      <4> QED BY <1>1, <4>1, <4>2
    <3>2. \A j \in A : j < i
      <4> SUFFICES ASSUME NEW j \in A PROVE j < i OBVIOUS
      <4>1. j \in Nat /\ i \in Nat /\ j <= next + size BY <1>8
      <4> QED BY <1>8, <2>1, <4>1
    <3> QED BY <3>1, <3>2
  <2>2. CASE i <= next + size
    <3>1. i \in PageOf(size) BY <1>7, <1>8, <2>2 DEF PageOf
    <3>2. i \in K BY <1>1, <1>7, <3>1 DEF Kept, Wanted
    <3>3. i \notin A BY <1>1, <1>7, <1>8
    <3> QED BY <3>2, <3>3 DEF Kept
  <2>3. i > next + size \/ i <= next + size BY <1>8
  <2> QED BY <2>1, <2>2, <2>3
<1>10. Limits /\ sent' >= asked.stop BY <1>9 DEF Satisfied
<1>11. /\ Exactly /\ sent' = Cardinality(emitted')
       /\ \A row \in emitted' : Wanted(row)
       /\ \A row \in emitted' : ~Before(req.order, SortKey(req.order, missed), SortKey(req.order, row))
  BY <1>1, <1>7, <1>9, <1>10, CountedOnce
<1>12. emitted' \subseteq want BY <1>11 DEF Wanted, Passing
<1>13. {row \in want \cap emitted' : ~Before(req.order, SortKey(req.order, missed), SortKey(req.order, row))} = emitted'
  <2> HIDE DEF want
  <2> QED BY <1>11, <1>12
<1>14. req.limit # Null /\ asked.stop = StopAt(req) BY <1>11 DEF Exactly
<1>15. StopAt(req) <= Cardinality(emitted')
  <2>1. asked.stop \in Nat /\ sent' \in Nat BY <1>10, CountedOnce
  <2> QED BY <1>10, <1>11, <1>14, <2>1
<1> QED BY <1>13, <1>14, <1>15

-----------------------------------------------------------------------------
(* The shared steps keep the invariant.                                     *)

LEMMA SameRequest ==
  ASSUME UNCHANGED req
  PROVE  /\ Filters' = Filters /\ Table' = Table /\ (Understood(req)' <=> Understood(req))
         /\ (OfOneList' <=> OfOneList) /\ (InOneAnswer' <=> InOneAnswer)
         /\ \A row : Wanted(row)' <=> Wanted(row)
<1>1. Filters' = Filters BY DEF Filters
<1>2. InOneAnswer' <=> InOneAnswer BY DEF InOneAnswer, InNewRelic!Curated, InNewRelic!Here, InNewRelic!Searchable
<1> QED BY <1>1, <1>2 DEF Table, OfOneList, Wanted

\* Nor does the window of a search change.
LEMMA SameWindow ==
  ASSUME UNCHANGED req
  PROVE  /\ InNewRelic!Windowed' = InNewRelic!Windowed /\ (InNewRelic!Curated' <=> InNewRelic!Curated)
         /\ (InJaeger!LowerBound' <=> InJaeger!LowerBound) /\ (InJaeger!Searches' <=> InJaeger!Searches)
<1>1. InNewRelic!Filters' = InNewRelic!Filters BY DEF InNewRelic!Filters
<1>2. \A ops, i : InNewRelic!Ends(ops, i)' = InNewRelic!Ends(ops, i)
  BY <1>1 DEF InNewRelic!Ends, InNewRelic!OnTime, InNewRelic!IsNumber
<1>3. InNewRelic!Listed' = InNewRelic!Listed
  BY <1>1 DEF InNewRelic!Listed, InNewRelic!OnTime, InNewRelic!IsNumber
<1>4. InNewRelic!Lowers' = InNewRelic!Lowers BY <1>2, <1>3 DEF InNewRelic!Lowers, InNewRelic!Min
<1>5. InNewRelic!Windowed' = InNewRelic!Windowed BY <1>4 DEF InNewRelic!Windowed
<1>6. InNewRelic!Curated' <=> InNewRelic!Curated
  BY DEF InNewRelic!Curated, InNewRelic!Here, InNewRelic!Searchable
<1>7. InJaeger!LowerBound' <=> InJaeger!LowerBound BY DEF InJaeger!LowerBound, InJaeger!Filters
<1>8. InJaeger!Searches' <=> InJaeger!Searches
  <2>1. \A c : InJaeger!FilterOn(c)' = InJaeger!FilterOn(c) BY DEF InJaeger!FilterOn
  <2> QED BY <2>1 DEF InJaeger!Searches, InJaeger!On, InJaeger!Here, InJaeger!EqOf, InJaeger!Typed
<1> QED BY <1>5, <1>6, <1>7, <1>8

\* Only a search that has its answer at once warns of its window at the end.
LEMMA WarnsNow == ~InOneAnswer /\ WillWarn => warned
BY DEF InOneAnswer, WillWarn, InJaeger!Searches, InJaeger!On, InJaeger!Here

\* A page that does not satisfy the LIMIT passes nothing over.
LEMMA GoesOn ==
  ASSUME Inv, pc = "paging", Understood(req), Undisturbed, ~InOneAnswer,
         NEW size \in Nat, NEW K, NEW A, Kept(size, K, A), next' = next + size,
         UNCHANGED <<req, held, standing, asked, listing, moves>>, ~Satisfied(sent'), warned => warned',
         withheld \subseteq withheld'
  PROVE  NoneSkipped' /\ (Limits => Exactly')
<1>1. /\ Len(listing) \in Nat /\ DOMAIN listing = 1..Len(listing) /\ next \in Nat
      /\ \A i \in A : i \in 1..Len(listing) /\ next < i /\ i <= next + size
      /\ \A row \in emitted' : row \in emitted \/ \E i \in A : row = listing[i]
      /\ \A row \in emitted : row \in emitted'
      /\ \A i \in A : listing[i] \in emitted'
  <2>1. A \in SUBSET K BY DEF Kept
  <2> QED BY <2>1, Placed
<1>2. UNCHANGED <<req, held, standing, asked, listing, moves>> OBVIOUS
<1>3. \A row : Wanted(row)' <=> Wanted(row) BY <1>2, SameRequest
<1>4. ASSUME NEW row, Unread(row), Wanted(row) PROVE row \in emitted' \/ Unread(row)'
  <2>1. PICK i \in DOMAIN listing : i > next /\ listing[i] = row BY <1>4 DEF Unread
  <2>2. CASE i > next + size BY <1>2, <2>1, <2>2 DEF Unread
  <2>3. CASE i <= next + size
    <3>1. i \in PageOf(size) BY <1>1, <2>1, <2>3 DEF PageOf
    <3>2. i \in K BY <1>4, <2>1, <3>1 DEF Kept, Wanted
    <3>3. i \in A BY <3>2 DEF Kept
    <3> QED BY <1>1, <2>1, <3>3
  <2>4. i > next + size \/ i <= next + size BY <1>1
  <2> QED BY <2>2, <2>3, <2>4
<1>5. \A row : Awaited(row)' <=> Awaited(row) BY <1>2 DEF Awaited, InJira!In, InJira!Text
<1>6. NoneSkipped'
  <2>1. CASE WillWarn
    <3>1. warned' BY <2>1, WarnsNow
    <3> QED BY <3>1 DEF NoneSkipped, WillWarn
  <2>2. CASE ~WillWarn
    <3>1. \A row \in standing : Wanted(row) => row \in emitted \cup withheld \/ Unread(row) \/ Awaited(row)
      BY <2>2 DEF Inv, CompleteInv, NoneSkipped
    <3>2. \A row \in standing' : Wanted(row)' => row \in emitted' \cup withheld' \/ Unread(row)' \/ Awaited(row)'
      BY <1>1, <1>2, <1>3, <1>4, <1>5, <3>1
    <3> QED BY <3>2 DEF NoneSkipped
  <2> QED BY <2>1, <2>2
<1>7. ASSUME Limits PROVE Exactly'
  <2>1. /\ Exactly
        /\ sent' = Cardinality(emitted')
        /\ \A row \in emitted' : Wanted(row)
        /\ \A row \in emitted' : \A i \in DOMAIN listing : i > next /\ listing[i] \in standing /\ (\A j \in A : j < i) =>
             ~Before(req.order, SortKey(req.order, listing[i]), SortKey(req.order, row))
    BY <1>7, CountedOnce
  <2>2. ASSUME NEW i \in DOMAIN listing, i > next + size PROVE i > next /\ \A j \in A : j < i
    <3>1. i \in Nat BY <1>1
    <3>2. ASSUME NEW j \in A PROVE j < i
      <4>1. j \in Nat /\ j <= next + size BY <1>1
      <4> QED BY <1>1, <2>2, <3>1, <4>1
    <3> QED BY <1>1, <2>2, <3>1, <3>2
  <2>3. \A row \in emitted' : \A i \in DOMAIN listing : i > next + size /\ listing[i] \in standing =>
          ~Before(req.order, SortKey(req.order, listing[i]), SortKey(req.order, row))
    BY <2>1, <2>2
  <2>4. Fresh'
    <3> SUFFICES ASSUME NEW i \in DOMAIN listing, i > next + size, listing[i] \in emitted' PROVE FALSE
      BY <1>2 DEF Fresh
    <3>1. i > next /\ \A j \in A : j < i BY <2>2
    <3>2. listing[i] \notin emitted BY <2>1, <3>1 DEF Exactly, Fresh
    <3>3. PICK j \in A : listing[i] = listing[j] BY <1>1, <3>2
    <3>4. i = j BY <1>1, <3>3 DEF Inv, RowsInv, ListedOnce
    <3> QED BY <1>1, <3>1, <3>4
  <2>5. \A row \in Stored(Table)' : row.is_row /\ (\A f \in asked'.filters : Passes(f, row)) => Wanted(row)'
    BY <1>2, <1>3, <2>1, SameRequest DEF Exactly
  <2> QED BY <1>2, <1>3, <2>1, <2>3, <2>4, <2>5 DEF Exactly
<1> QED BY <1>6, <1>7

\* The list, and what was asked for, stay.
LEMMA SameList ==
  ASSUME ListInv, ~InOneAnswer, UNCHANGED <<req, asked, listing>>
  PROVE  ListInv'
<1>1. (OfOneList' <=> OfOneList) /\ (InOneAnswer' <=> InOneAnswer) BY SameRequest
<1> QED BY <1>1 DEF ListInv, Sorted, Limits

LEMMA CutKept ==
  ASSUME Inv, pc = "paging", Understood(req), Undisturbed, NEW size \in Nat, NEW K, NEW A \in {Appended(K), Trimmed(K)},
         K = {i \in PageOf(size) : listing[i].is_row}, Emit(A)
  PROVE  Kept(size, K, A)
<1>1. A \in SUBSET K BY DEF Appended, Trimmed
<1>2. sent \in Nat /\ Len(listing) \in Nat BY ListLength DEF Inv, RowsInv, TypeOK
<1>3. K \in SUBSET (1..Len(listing)) BY DEF PageOf
<1>4. Limits => asked.stop \in Int
  <2>1. Limits => Exactly BY DEF Inv, CompleteInv
  <2>2. StopAt(req) \in Nat \/ req.limit = Null BY StopIsWrapped DEF Inv, RowsInv
  <2> QED BY <2>1, <2>2 DEF Exactly
<1>5. sent' = sent + Cardinality(A) BY DEF Emit
<1>6. \A i \in K : i \notin A => Satisfied(sent + Cardinality(A)) /\ \A j \in A : j < i
  BY <1>2, <1>3, <1>4, CutBehind
<1> QED BY <1>1, <1>5, <1>6 DEF Kept

LEMMA AdvanceCompletes ==
  ASSUME Inv, pc = "paging", ~InOneAnswer, UNCHANGED moves, NEW size \in Nat,
         NEW K, K = {i \in PageOf(size) : listing[i].is_row}, NEW A \in {Appended(K), Trimmed(K)},
         NEW more, HasMore(size) => more \/ Behind(next + size) \subseteq withheld',
         withheld \subseteq withheld', NEW capped, Advance(size, A, more, capped),
         pc' = "done" => asked.rest = <<>> \/ Satisfied(sent')
  PROVE  CompleteInv'
<1>1. /\ UNCHANGED <<req, held, standing, asked, listing>> /\ next' = next + size
      /\ Emit(A) /\ warned' = (warned \/ (more /\ capped))
      /\ pc' \in {"paging", "done"}
      /\ pc' = "done" => ~more \/ Satisfied(sent') \/ capped
      /\ pc' = "paging" => more /\ ~Satisfied(sent') /\ ~capped
  BY DEF Advance, Turn
<1>2. A \in SUBSET K BY DEF Appended, Trimmed
<1>3. (held \cup standing \cup emitted)' \subseteq Stored(Table)'
  <2>1. \A i \in A : listing[i] \in held
    <3>1. \A i \in 1..Len(listing) : listing[i] \in held BY ListLength DEF Inv
    <3> QED BY <1>2, <3>1 DEF PageOf
  <2>2. Table' = Table BY <1>1, SameRequest
  <2> QED BY <1>1, <2>1, <2>2 DEF Inv, CompleteInv, Emit
<1>4. pc' = "paging" => ListInv' BY <1>1, SameList DEF Inv, CompleteInv
<1>5. ASSUME Understood(req), Undisturbed
      PROVE  /\ pc' = "paging" => NoneSkipped' /\ (Limits => Exactly')
             /\ pc' = "done" /\ ~warned' =>
                  Serves(req, {row \in Passing(Filters, standing \cup emitted') : row.is_row /\ row \notin withheld' \ emitted'}, emitted')
  <2>1. Kept(size, K, A) BY <1>1, <1>5, CutKept
  <2>2. ASSUME pc' = "paging" PROVE NoneSkipped' /\ (Limits => Exactly')
    BY <1>1, <1>5, <2>1, <2>2, GoesOn
  <2>3. ASSUME pc' = "done", ~warned'
        PROVE  Serves(req, {row \in Passing(Filters, standing \cup emitted') : row.is_row /\ row \notin withheld' \ emitted'}, emitted')
    <3>1. ~WillWarn BY <1>1, <2>3, WarnsNow
    <3>2. HasMore(size) => Satisfied(sent') \/ Behind(next + size) \subseteq withheld' BY <1>1, <2>3
    <3> QED BY <1>5, <2>1, <2>3, <3>1, <3>2, LastServes
  <2> QED BY <2>2, <2>3
<1>6. Filters' = Filters /\ (Understood(req)' <=> Understood(req)) BY <1>1, SameRequest
<1>7. Limits' = Limits /\ Undisturbed' = Undisturbed BY <1>1 DEF Limits, Undisturbed
<1>8. (Understood(req) => Complete)'
  <2>1. "size" \in DOMAIN asked BY DEF Inv, RowsInv
  <2>2. asked # Nothing BY <2>1 DEF Nothing
  <2>3. (Keeps \/ moves = {} \/ (moves = {"appear"} /\ ~Limits))' => Undisturbed
    BY <1>1, <2>2 DEF Keeps, Limits, Undisturbed
  <2> QED BY <1>1, <1>5, <1>6, <2>3 DEF Complete
<1>9. (pc = "paging" /\ Understood(req) /\ Undisturbed => NoneSkipped /\ (Limits => Exactly))'
  BY <1>5, <1>6, <1>7
<1> QED BY <1>1, <1>3, <1>4, <1>8, <1>9 DEF CompleteInv

\* A scan that has all in one answer.
LEMMA AnswerOfCompletes ==
  ASSUME Inv, pc = "paging", InOneAnswer, UNCHANGED moves, NEW warns \in BOOLEAN,
         NEW size \in Nat, Limits => size = asked.size, AnswerOf(size, PageOf(size), warns),
         ~warns => ~WillWarn, withheld \subseteq withheld',
         ~warns /\ ~Limits /\ HasMore(size) => Behind(next + size) \subseteq withheld'
  PROVE  CompleteInv'
<1>1. /\ UNCHANGED <<req, held, standing, asked, listing>>
      /\ Emit(PageOf(size)) /\ warned' = warns /\ pc' = "done"
  BY DEF AnswerOf, Turn
<1>2. /\ Len(listing) \in Nat /\ DOMAIN listing = 1..Len(listing)
      /\ \A i \in 1..Len(listing) : listing[i] \in held
  BY ListLength DEF Inv
<1>3. PageOf(size) \in SUBSET (1..Len(listing)) BY DEF PageOf
<1>4. (held \cup standing \cup emitted)' \subseteq Stored(Table)'
  <2>1. Table' = Table BY <1>1, SameRequest
  <2> QED BY <1>1, <1>2, <1>3, <2>1 DEF Inv, CompleteInv, Emit
<1>5. \A row \in held : row.is_row
  <2>1. req.schema \notin {"github", "datagov"} BY DEF InOneAnswer, InNewRelic!Curated, InNewRelic!Here
  <2>2. \A row \in Stored(Table) : row.is_row BY <2>1, RowAssumption DEF Inv, RowsInv, Table
  <2> QED BY <2>2 DEF Inv, CompleteInv
<1>6. size \in Nat OBVIOUS
<1>7. ASSUME Understood(req), Undisturbed, ~warned'
      PROVE  Serves(req, {row \in Passing(Filters, standing \cup emitted') : row.is_row /\ row \notin withheld' \ emitted'}, emitted')
  <2>1. Kept(size, PageOf(size), PageOf(size))
    <3>1. PageOf(size) = {i \in PageOf(size) : listing[i].is_row} BY <1>2, <1>3, <1>5
    <3> QED BY <1>1, <3>1 DEF Kept
  <2>2. ListInv /\ asked.rest = <<>>
    <3>1. OfOneList BY DEF InOneAnswer, OfOneList
    <3> QED BY <3>1 DEF Inv, CompleteInv, ListInv
  <2>3. ASSUME HasMore(size), ~(Behind(next + size) \subseteq withheld') PROVE Satisfied(sent')
    <3>1. Limits BY <1>1, <1>7, <2>3
    <3>2. asked.stop \in Nat BY <1>7, <2>1, <1>6, <3>1, CountedOnce
    <3>3. size = asked.stop /\ next = 0 /\ sent = 0 BY <2>2, <3>1, <3>2 DEF ListInv, place
    <3>4. PageOf(size) = 1..size
      <4>1. size < Len(listing) BY <1>2, <1>6, <2>3, <3>3 DEF HasMore
      <4>2. \A i : i \in 1..Len(listing) /\ 0 < i /\ i <= 0 + size <=> i \in 1..size
        BY <1>2, <1>6, <4>1
      <4> QED BY <3>3, <4>2 DEF PageOf
    <3>5. Cardinality(1..size) = size
      <4>1. 1 \in Int /\ size \in Int BY <1>6
      <4>2. IsFiniteSet(1..size) /\ Cardinality(1..size) = IF 1 > size THEN 0 ELSE size - 1 + 1
        BY ONLY <4>1, FS_Interval
      <4> QED BY <1>6, <4>2
    <3>6. sent' = size BY <1>1, <1>6, <3>3, <3>4, <3>5 DEF Emit
    <3> QED BY <3>1, <3>2, <3>3, <3>6 DEF Satisfied
  <2>4. ~WillWarn BY <1>1, <1>7
  <2> QED BY <1>6, <1>7, <2>1, <2>2, <2>3, <2>4, LastServes
<1>8. (Understood(req) => Complete)'
  <2>1. Filters' = Filters /\ (Understood(req)' <=> Understood(req)) BY <1>1, SameRequest
  <2>2. "size" \in DOMAIN asked BY DEF Inv, RowsInv
  <2>3. asked # Nothing BY <2>2 DEF Nothing
  <2>4. (Keeps \/ moves = {} \/ (moves = {"appear"} /\ ~Limits))' => Undisturbed
    BY <1>1, <2>3 DEF Keeps, Limits, Undisturbed
  <2> QED BY <1>1, <1>7, <2>1, <2>4 DEF Complete
<1> QED BY <1>1, <1>4, <1>8 DEF CompleteInv

LEMMA AnswerCompletes ==
  ASSUME Inv, pc = "paging", InOneAnswer, UNCHANGED moves, NEW warns \in BOOLEAN,
         Answer(PageOf(asked.size), warns), ~warns => ~WillWarn, withheld \subseteq withheld',
         ~warns /\ ~Limits => ~HasMore(asked.size)
  PROVE  CompleteInv'
<1>1. asked.size \in Nat BY DEF Inv, RowsInv
<1> QED BY <1>1, AnswerOfCompletes DEF Answer

\* A request that goes out asks for no fewer rows than are wanted, but for a window with a
\* warning, and, if a LIMIT rides on it, for no more.
Asks(ask) ==
  \/ warned'
  \/ req.schema = "newrelic" /\ ~InNewRelic!Curated /\ InNewRelic!Windowed
  \/ InJaeger!Searches /\ ~InJaeger!LowerBound
  \/ \A row \in held : Wanted(row) =>
       \/ \A f \in ask.filters : Passes(f, row)
       \/ \E k \in DOMAIN ask.rest : Passes(InJira!In("issue_key", {ask.rest[k]}), row)

AsksExactly(ask) ==
  /\ req.limit # Null /\ ask.stop = StopAt(req) /\ ask.rest = <<>>
  /\ ask.order = req.order \/ req.order = <<>>
  /\ \A row \in Stored(Table) : row.is_row /\ (\A f \in ask.filters : Passes(f, row)) => Wanted(row)

AsksInOne(ask) ==
  /\ ~warned'
  /\ ask.stop # Null /\ ask.stop >= 0 => ask.size = ask.stop
  /\ ask.stop = Null => RowsAtOnce(ask.size)
  /\ req.schema = "jaeger" => ask.stop = Null

LEMMA ListCompletes ==
  ASSUME Inv, pc = "start", UNCHANGED moves, NEW ask, List(ask), UNCHANGED <<place, sent, emitted>>,
         DOMAIN ask = {"filters", "order", "size", "stop", "keyset", "rest"},
         ask.rest \in Seq({ask.rest[k] : k \in DOMAIN ask.rest}),
         ~OfOneList => ~ask.keyset, OfOneList => ask.rest = <<>>,
         InOneAnswer => AsksInOne(ask),
         Understood(req) => Asks(ask) /\ (ask.stop # Null => AsksExactly(ask))
  PROVE  CompleteInv'
<1>1. /\ emitted = {} /\ place = <<0, 0, 0>> /\ sent = 0 /\ moves = {} /\ IsFiniteSet(held)
      /\ req \in Requests /\ held \in Contents[Table] /\ standing \subseteq held
      /\ held \cup standing \subseteq Stored(Table)
  BY DEF Inv, RowsInv, TypeOK, CompleteInv
<1>2. /\ asked' = ask /\ pc' = "paging" /\ UNCHANGED <<req, held, standing>>
      /\ listing' \in Listings(Passing(ask.filters, held), ask.order)
  BY DEF List
<1>3. /\ emitted' = {} /\ next' = 0 /\ place' = <<0, 0, 0>> /\ sent' = 0 /\ moves' = {}
  BY <1>1 DEF place
<1>4. PICK rows : rows = Passing(ask.filters, held) OBVIOUS
<1>5. rows \in SUBSET held BY <1>4 DEF Passing
<1>6. IsFiniteSet(rows) /\ Cardinality(rows) <= Cardinality(held) /\ Cardinality(rows) \in Nat /\ Cardinality(held) \in Nat
  BY <1>1, <1>5, FS_Subset, FS_CardinalityType
<1>7. /\ DOMAIN listing' = 1..Cardinality(rows) /\ Len(listing') = Cardinality(rows)
      /\ \A i \in DOMAIN listing' : listing'[i] \in rows
      /\ \A row \in rows : \E i \in DOMAIN listing' : listing'[i] = row
      /\ \A i, j \in DOMAIN listing' : i < j => ~Before(ask.order, SortKey(ask.order, listing'[j]), SortKey(ask.order, listing'[i]))
  <2>1. PICK l, o : l = listing' /\ o = ask.order OBVIOUS
  <2>2. l \in Listings(rows, o) BY <1>2, <1>4, <2>1
  <2>3. /\ DOMAIN l = 1..Cardinality(rows) /\ Len(l) = Cardinality(rows)
        /\ \A i \in DOMAIN l : l[i] \in rows
        /\ \A row \in rows : \E i \in DOMAIN l : l[i] = row
        /\ \A i, j \in DOMAIN l : i < j => ~Before(o, SortKey(o, l[j]), SortKey(o, l[i]))
    BY ONLY <1>6, <2>2, ListHoldsAll
  <2> QED BY <2>1, <2>3
<1>8. /\ Table' = Table /\ (OfOneList' <=> OfOneList) /\ (InOneAnswer' <=> InOneAnswer) /\ Filters' = Filters
      /\ (Understood(req)' <=> Understood(req)) /\ \A row : Wanted(row)' <=> Wanted(row)
  BY <1>2, SameRequest
<1>9. Len(listing') <= MaxInt
  <2>1. Cardinality(held) <= MaxInt BY <1>1, RowAssumption DEF Table
  <2>2. MaxInt \in Nat BY SizeAssumption
  <2> QED BY <1>6, <1>7, <2>1, <2>2
<1>10. ListInv'
  <2>1. Sorted(listing)' BY <1>2, <1>7 DEF Sorted
  <2>2. \A i \in DOMAIN listing' : \A f \in asked'.filters : Passes(f, listing'[i])
    BY <1>2, <1>4, <1>7 DEF Passing
  <2>3. InOneAnswer => AsksInOne(ask) OBVIOUS
  <2>4. ASSUME RowsAtOnce(ask.size) PROVE RowsAtOnce(asked.size)'
    BY <1>2, <2>4, SameWindow DEF RowsAtOnce
  <2>5. req.schema = "jaeger" => InOneAnswer BY DEF InOneAnswer
  <2> QED BY <1>2, <1>3, <1>8, <1>9, <2>1, <2>2, <2>3, <2>4, <2>5 DEF ListInv, AsksInOne, Limits
<1>11. ASSUME Understood(req) PROVE NoneSkipped'
  <2>1. Asks(ask) BY <1>11
  <2>2. CASE warned' BY <2>2 DEF NoneSkipped, WillWarn
  <2>3. CASE req.schema = "newrelic" /\ ~InNewRelic!Curated /\ InNewRelic!Windowed
    <3>1. InNewRelic!Windowed' /\ ~InNewRelic!Curated' /\ req'.schema = "newrelic" BY <1>2, <2>3, SameWindow
    <3> QED BY <3>1 DEF NoneSkipped, WillWarn
  <2>4. CASE InJaeger!Searches /\ ~InJaeger!LowerBound
    <3>1. ~InJaeger!LowerBound' /\ InJaeger!Searches' BY <1>2, <2>4, SameWindow
    <3> QED BY <1>2, <2>4, <3>1 DEF NoneSkipped, WillWarn
  <2>5. ASSUME \A row \in held : Wanted(row) =>
                 \/ \A f \in ask.filters : Passes(f, row)
                 \/ \E k \in DOMAIN ask.rest : Passes(InJira!In("issue_key", {ask.rest[k]}), row)
        PROVE  NoneSkipped'
    <3>1. ASSUME NEW row \in standing, Wanted(row) PROVE Unread(row)' \/ Awaited(row)'
      <4>1. row \in held BY <1>1
      <4>2. CASE \A f \in ask.filters : Passes(f, row)
        <5>1. row \in rows BY <1>4, <4>1, <4>2 DEF Passing
        <5>2. PICK i \in DOMAIN listing' : listing'[i] = row BY <1>7, <5>1
        <5>3. i > next' BY <1>3, <1>6, <1>7
        <5> QED BY <5>2, <5>3 DEF Unread
      <4>3. CASE \E k \in DOMAIN ask.rest : Passes(InJira!In("issue_key", {ask.rest[k]}), row)
        BY <1>2, <4>3 DEF Awaited, InJira!In, InJira!Text
      <4> QED BY <2>5, <3>1, <4>1, <4>2, <4>3
    <3> QED BY <1>2, <1>8, <3>1 DEF NoneSkipped
  <2> QED BY <2>1, <2>2, <2>3, <2>4, <2>5 DEF Asks
<1>12. ASSUME Understood(req), Limits' PROVE Exactly'
  <2>1. AsksExactly(ask) BY <1>2, <1>12 DEF Limits
  <2>2. sent' = Cardinality(emitted') BY <1>3, FS_EmptySet
  <2>3. Fresh' BY <1>3 DEF Fresh
  <2> QED BY <1>2, <1>3, <1>8, <2>1, <2>2, <2>3 DEF AsksExactly, Exactly
<1>13. (Understood(req) => Complete)' BY <1>2 DEF Complete
<1>14. (pc = "paging" /\ Understood(req) /\ Undisturbed => NoneSkipped /\ (Limits => Exactly))'
  BY <1>8, <1>11, <1>12
<1> QED BY <1>1, <1>2, <1>3, <1>8, <1>10, <1>13, <1>14 DEF CompleteInv

LEMMA AskCompletes ==
  ASSUME Inv, pc = "start", UNCHANGED moves, NEW f, NEW o, NEW z, NEW stop, NEW k, Ask(f, o, z, stop, k), OfOneList,
         InOneAnswer => AsksInOne(Asked(f, o, z, stop, k)),
         Understood(req) => Asks(Asked(f, o, z, stop, k)) /\ (stop # Null => AsksExactly(Asked(f, o, z, stop, k)))
  PROVE  CompleteInv'
<1> DEFINE ask == Asked(f, o, z, stop, k)
<1>1. /\ DOMAIN ask = {"filters", "order", "size", "stop", "keyset", "rest"} /\ ask.rest = <<>> /\ ask.stop = stop
  BY DEF Asked
<1>2. ask.rest \in Seq({ask.rest[n] : n \in DOMAIN ask.rest}) BY <1>1
<1>3. List(ask) /\ UNCHANGED <<place, sent, emitted>> BY DEF Ask, result
<1>4. InOneAnswer => AsksInOne(ask) OBVIOUS
<1>5. Understood(req) => Asks(ask) /\ (ask.stop # Null => AsksExactly(ask)) BY <1>1
<1> HIDE DEF ask
<1> QED BY <1>1, <1>2, <1>3, <1>4, <1>5, ListCompletes

-----------------------------------------------------------------------------
(* The copies of what a connector reads of its request, as above.            *)

LEMMA GitHubReads ==
  /\ InGitHub!Filters = Filters
  /\ \A f, t : InGitHub!Typed(f, t) <=> Typed(f, t)
  /\ \A c : InGitHub!FilterOn(c) = FilterOn(c)
  /\ \A c, t : InGitHub!EqOf(c, t) = EqOf(c, t)
  /\ \A c, ops, t : InGitHub!LastOn(c, ops, t) = LastOn(c, ops, t)
  /\ \A f, op, v : InGitHub!Bound(f, op, v) = Bound(f, op, v)
  /\ \A f : InGitHub!From(f) = From(f) /\ InGitHub!To(f) = To(f)
  /\ \A v, n : InGitHub!Shift(v, n) = Shift(v, n)
  /\ InGitHub!Ups = Ups /\ InGitHub!Downs = Downs
  /\ \A n : InGitHub!Satisfied(n) <=> Satisfied(n)
  /\ InGitHub!Limits <=> Limits
<1>1. \A f, t : InGitHub!Typed(f, t) <=> Typed(f, t) BY DEF InGitHub!Typed, Typed
<1>2. \A c : InGitHub!FilterOn(c) = FilterOn(c) BY DEF InGitHub!FilterOn, FilterOn
<1>3. \A c, t : InGitHub!EqOf(c, t) = EqOf(c, t) BY <1>1, <1>2 DEF InGitHub!EqOf, EqOf
<1>4. \A c, ops, t : InGitHub!LastOn(c, ops, t) = LastOn(c, ops, t) BY <1>1 DEF InGitHub!LastOn, LastOn
<1>5. \A f, op, v : InGitHub!Bound(f, op, v) = Bound(f, op, v) BY DEF InGitHub!Bound, Bound
<1>6. \A f : InGitHub!From(f) = From(f) /\ InGitHub!To(f) = To(f) BY DEF InGitHub!From, From, InGitHub!To, To
<1>7. \A v, n : InGitHub!Shift(v, n) = Shift(v, n) BY DEF InGitHub!Shift, Shift
<1>8. \A n : (InGitHub!Satisfied(n) <=> Satisfied(n)) /\ (InGitHub!Limits <=> Limits)
  BY DEF InGitHub!Satisfied, Satisfied, InGitHub!Limits, Limits
<1> QED
  BY <1>1, <1>2, <1>3, <1>4, <1>5, <1>6, <1>7, <1>8
      DEF InGitHub!Filters, Filters, InGitHub!Ups, Ups, InGitHub!Downs, Downs

LEMMA SlackReads ==
  /\ InSlack!Filters = Filters
  /\ \A f, t : InSlack!Typed(f, t) <=> Typed(f, t)
  /\ \A c : InSlack!FilterOn(c) = FilterOn(c)
  /\ \A c, t : InSlack!EqOf(c, t) = EqOf(c, t)
  /\ \A c, ops, t : InSlack!LastOn(c, ops, t) = LastOn(c, ops, t)
  /\ \A f, op, v : InSlack!Bound(f, op, v) = Bound(f, op, v)
  /\ \A f : InSlack!From(f) = From(f) /\ InSlack!To(f) = To(f)
  /\ \A v, n : InSlack!Shift(v, n) = Shift(v, n)
  /\ InSlack!Ups = Ups /\ InSlack!Downs = Downs
  /\ \A n : InSlack!Satisfied(n) <=> Satisfied(n)
  /\ InSlack!Limits <=> Limits
<1>1. \A f, t : InSlack!Typed(f, t) <=> Typed(f, t) BY DEF InSlack!Typed, Typed
<1>2. \A c : InSlack!FilterOn(c) = FilterOn(c) BY DEF InSlack!FilterOn, FilterOn
<1>3. \A c, t : InSlack!EqOf(c, t) = EqOf(c, t) BY <1>1, <1>2 DEF InSlack!EqOf, EqOf
<1>4. \A c, ops, t : InSlack!LastOn(c, ops, t) = LastOn(c, ops, t) BY <1>1 DEF InSlack!LastOn, LastOn
<1>5. \A f, op, v : InSlack!Bound(f, op, v) = Bound(f, op, v) BY DEF InSlack!Bound, Bound
<1>6. \A f : InSlack!From(f) = From(f) /\ InSlack!To(f) = To(f) BY DEF InSlack!From, From, InSlack!To, To
<1>7. \A v, n : InSlack!Shift(v, n) = Shift(v, n) BY DEF InSlack!Shift, Shift
<1>8. \A n : (InSlack!Satisfied(n) <=> Satisfied(n)) /\ (InSlack!Limits <=> Limits)
  BY DEF InSlack!Satisfied, Satisfied, InSlack!Limits, Limits
<1> QED
  BY <1>1, <1>2, <1>3, <1>4, <1>5, <1>6, <1>7, <1>8
      DEF InSlack!Filters, Filters, InSlack!Ups, Ups, InSlack!Downs, Downs

LEMMA NewRelicReads ==
  /\ InNewRelic!Filters = Filters
  /\ \A f, t : InNewRelic!Typed(f, t) <=> Typed(f, t)
  /\ \A c : InNewRelic!FilterOn(c) = FilterOn(c)
  /\ \A c, t : InNewRelic!EqOf(c, t) = EqOf(c, t)
  /\ \A c, ops, t : InNewRelic!LastOn(c, ops, t) = LastOn(c, ops, t)
  /\ \A f, op, v : InNewRelic!Bound(f, op, v) = Bound(f, op, v)
  /\ \A f : InNewRelic!From(f) = From(f) /\ InNewRelic!To(f) = To(f)
  /\ \A v, n : InNewRelic!Shift(v, n) = Shift(v, n)
  /\ InNewRelic!Ups = Ups /\ InNewRelic!Downs = Downs
  /\ \A n : InNewRelic!Satisfied(n) <=> Satisfied(n)
  /\ InNewRelic!Limits <=> Limits
<1>1. \A f, t : InNewRelic!Typed(f, t) <=> Typed(f, t) BY DEF InNewRelic!Typed, Typed
<1>2. \A c : InNewRelic!FilterOn(c) = FilterOn(c) BY DEF InNewRelic!FilterOn, FilterOn
<1>3. \A c, t : InNewRelic!EqOf(c, t) = EqOf(c, t) BY <1>1, <1>2 DEF InNewRelic!EqOf, EqOf
<1>4. \A c, ops, t : InNewRelic!LastOn(c, ops, t) = LastOn(c, ops, t) BY <1>1 DEF InNewRelic!LastOn, LastOn
<1>5. \A f, op, v : InNewRelic!Bound(f, op, v) = Bound(f, op, v) BY DEF InNewRelic!Bound, Bound
<1>6. \A f : InNewRelic!From(f) = From(f) /\ InNewRelic!To(f) = To(f) BY DEF InNewRelic!From, From, InNewRelic!To, To
<1>7. \A v, n : InNewRelic!Shift(v, n) = Shift(v, n) BY DEF InNewRelic!Shift, Shift
<1>8. \A n : (InNewRelic!Satisfied(n) <=> Satisfied(n)) /\ (InNewRelic!Limits <=> Limits)
  BY DEF InNewRelic!Satisfied, Satisfied, InNewRelic!Limits, Limits
<1> QED
  BY <1>1, <1>2, <1>3, <1>4, <1>5, <1>6, <1>7, <1>8
      DEF InNewRelic!Filters, Filters, InNewRelic!Ups, Ups, InNewRelic!Downs, Downs

LEMMA CkanReads ==
  /\ InCkan!Filters = Filters
  /\ \A f, t : InCkan!Typed(f, t) <=> Typed(f, t)
  /\ \A c : InCkan!FilterOn(c) = FilterOn(c)
  /\ \A c, t : InCkan!EqOf(c, t) = EqOf(c, t)
  /\ \A c, ops, t : InCkan!LastOn(c, ops, t) = LastOn(c, ops, t)
  /\ \A f, op, v : InCkan!Bound(f, op, v) = Bound(f, op, v)
  /\ \A f : InCkan!From(f) = From(f) /\ InCkan!To(f) = To(f)
  /\ \A v, n : InCkan!Shift(v, n) = Shift(v, n)
  /\ InCkan!Ups = Ups /\ InCkan!Downs = Downs
  /\ \A n : InCkan!Satisfied(n) <=> Satisfied(n)
  /\ InCkan!Limits <=> Limits
<1>1. \A f, t : InCkan!Typed(f, t) <=> Typed(f, t) BY DEF InCkan!Typed, Typed
<1>2. \A c : InCkan!FilterOn(c) = FilterOn(c) BY DEF InCkan!FilterOn, FilterOn
<1>3. \A c, t : InCkan!EqOf(c, t) = EqOf(c, t) BY <1>1, <1>2 DEF InCkan!EqOf, EqOf
<1>4. \A c, ops, t : InCkan!LastOn(c, ops, t) = LastOn(c, ops, t) BY <1>1 DEF InCkan!LastOn, LastOn
<1>5. \A f, op, v : InCkan!Bound(f, op, v) = Bound(f, op, v) BY DEF InCkan!Bound, Bound
<1>6. \A f : InCkan!From(f) = From(f) /\ InCkan!To(f) = To(f) BY DEF InCkan!From, From, InCkan!To, To
<1>7. \A v, n : InCkan!Shift(v, n) = Shift(v, n) BY DEF InCkan!Shift, Shift
<1>8. \A n : (InCkan!Satisfied(n) <=> Satisfied(n)) /\ (InCkan!Limits <=> Limits)
  BY DEF InCkan!Satisfied, Satisfied, InCkan!Limits, Limits
<1> QED
  BY <1>1, <1>2, <1>3, <1>4, <1>5, <1>6, <1>7, <1>8
      DEF InCkan!Filters, Filters, InCkan!Ups, Ups, InCkan!Downs, Downs

LEMMA JiraReads ==
  /\ InJira!Filters = Filters
  /\ \A f, t : InJira!Typed(f, t) <=> Typed(f, t)
  /\ \A c : InJira!FilterOn(c) = FilterOn(c)
  /\ \A c, t : InJira!EqOf(c, t) = EqOf(c, t)
  /\ \A c, ops, t : InJira!LastOn(c, ops, t) = LastOn(c, ops, t)
  /\ \A f, op, v : InJira!Bound(f, op, v) = Bound(f, op, v)
  /\ \A f : InJira!From(f) = From(f) /\ InJira!To(f) = To(f)
  /\ \A v, n : InJira!Shift(v, n) = Shift(v, n)
  /\ InJira!Ups = Ups /\ InJira!Downs = Downs
  /\ \A n : InJira!Satisfied(n) <=> Satisfied(n)
  /\ InJira!Limits <=> Limits
<1>1. \A f, t : InJira!Typed(f, t) <=> Typed(f, t) BY DEF InJira!Typed, Typed
<1>2. \A c : InJira!FilterOn(c) = FilterOn(c) BY DEF InJira!FilterOn, FilterOn
<1>3. \A c, t : InJira!EqOf(c, t) = EqOf(c, t) BY <1>1, <1>2 DEF InJira!EqOf, EqOf
<1>4. \A c, ops, t : InJira!LastOn(c, ops, t) = LastOn(c, ops, t) BY <1>1 DEF InJira!LastOn, LastOn
<1>5. \A f, op, v : InJira!Bound(f, op, v) = Bound(f, op, v) BY DEF InJira!Bound, Bound
<1>6. \A f : InJira!From(f) = From(f) /\ InJira!To(f) = To(f) BY DEF InJira!From, From, InJira!To, To
<1>7. \A v, n : InJira!Shift(v, n) = Shift(v, n) BY DEF InJira!Shift, Shift
<1>8. \A n : (InJira!Satisfied(n) <=> Satisfied(n)) /\ (InJira!Limits <=> Limits)
  BY DEF InJira!Satisfied, Satisfied, InJira!Limits, Limits
<1> QED
  BY <1>1, <1>2, <1>3, <1>4, <1>5, <1>6, <1>7, <1>8
      DEF InJira!Filters, Filters, InJira!Ups, Ups, InJira!Downs, Downs

LEMMA PostgresReads ==
  /\ InPostgres!Filters = Filters
  /\ \A f, t : InPostgres!Typed(f, t) <=> Typed(f, t)
  /\ \A c : InPostgres!FilterOn(c) = FilterOn(c)
  /\ \A c, t : InPostgres!EqOf(c, t) = EqOf(c, t)
  /\ \A c, ops, t : InPostgres!LastOn(c, ops, t) = LastOn(c, ops, t)
  /\ \A f, op, v : InPostgres!Bound(f, op, v) = Bound(f, op, v)
  /\ \A f : InPostgres!From(f) = From(f) /\ InPostgres!To(f) = To(f)
  /\ \A v, n : InPostgres!Shift(v, n) = Shift(v, n)
  /\ InPostgres!Ups = Ups /\ InPostgres!Downs = Downs
  /\ \A n : InPostgres!Satisfied(n) <=> Satisfied(n)
  /\ InPostgres!Limits <=> Limits
<1>1. \A f, t : InPostgres!Typed(f, t) <=> Typed(f, t) BY DEF InPostgres!Typed, Typed
<1>2. \A c : InPostgres!FilterOn(c) = FilterOn(c) BY DEF InPostgres!FilterOn, FilterOn
<1>3. \A c, t : InPostgres!EqOf(c, t) = EqOf(c, t) BY <1>1, <1>2 DEF InPostgres!EqOf, EqOf
<1>4. \A c, ops, t : InPostgres!LastOn(c, ops, t) = LastOn(c, ops, t) BY <1>1 DEF InPostgres!LastOn, LastOn
<1>5. \A f, op, v : InPostgres!Bound(f, op, v) = Bound(f, op, v) BY DEF InPostgres!Bound, Bound
<1>6. \A f : InPostgres!From(f) = From(f) /\ InPostgres!To(f) = To(f) BY DEF InPostgres!From, From, InPostgres!To, To
<1>7. \A v, n : InPostgres!Shift(v, n) = Shift(v, n) BY DEF InPostgres!Shift, Shift
<1>8. \A n : (InPostgres!Satisfied(n) <=> Satisfied(n)) /\ (InPostgres!Limits <=> Limits)
  BY DEF InPostgres!Satisfied, Satisfied, InPostgres!Limits, Limits
<1> QED
  BY <1>1, <1>2, <1>3, <1>4, <1>5, <1>6, <1>7, <1>8
      DEF InPostgres!Filters, Filters, InPostgres!Ups, Ups, InPostgres!Downs, Downs

LEMMA GitReads ==
  /\ InGit!Filters = Filters
  /\ \A f, t : InGit!Typed(f, t) <=> Typed(f, t)
  /\ \A c : InGit!FilterOn(c) = FilterOn(c)
  /\ \A c, t : InGit!EqOf(c, t) = EqOf(c, t)
  /\ \A c, ops, t : InGit!LastOn(c, ops, t) = LastOn(c, ops, t)
  /\ \A f, op, v : InGit!Bound(f, op, v) = Bound(f, op, v)
  /\ \A f : InGit!From(f) = From(f) /\ InGit!To(f) = To(f)
  /\ \A v, n : InGit!Shift(v, n) = Shift(v, n)
  /\ InGit!Ups = Ups /\ InGit!Downs = Downs
  /\ \A n : InGit!Satisfied(n) <=> Satisfied(n)
  /\ InGit!Limits <=> Limits
<1>1. \A f, t : InGit!Typed(f, t) <=> Typed(f, t) BY DEF InGit!Typed, Typed
<1>2. \A c : InGit!FilterOn(c) = FilterOn(c) BY DEF InGit!FilterOn, FilterOn
<1>3. \A c, t : InGit!EqOf(c, t) = EqOf(c, t) BY <1>1, <1>2 DEF InGit!EqOf, EqOf
<1>4. \A c, ops, t : InGit!LastOn(c, ops, t) = LastOn(c, ops, t) BY <1>1 DEF InGit!LastOn, LastOn
<1>5. \A f, op, v : InGit!Bound(f, op, v) = Bound(f, op, v) BY DEF InGit!Bound, Bound
<1>6. \A f : InGit!From(f) = From(f) /\ InGit!To(f) = To(f) BY DEF InGit!From, From, InGit!To, To
<1>7. \A v, n : InGit!Shift(v, n) = Shift(v, n) BY DEF InGit!Shift, Shift
<1>8. \A n : (InGit!Satisfied(n) <=> Satisfied(n)) /\ (InGit!Limits <=> Limits)
  BY DEF InGit!Satisfied, Satisfied, InGit!Limits, Limits
<1> QED
  BY <1>1, <1>2, <1>3, <1>4, <1>5, <1>6, <1>7, <1>8
      DEF InGit!Filters, Filters, InGit!Ups, Ups, InGit!Downs, Downs

LEMMA JaegerReads ==
  /\ InJaeger!Filters = Filters
  /\ \A f, t : InJaeger!Typed(f, t) <=> Typed(f, t)
  /\ \A c : InJaeger!FilterOn(c) = FilterOn(c)
  /\ \A c, t : InJaeger!EqOf(c, t) = EqOf(c, t)
  /\ \A c, ops, t : InJaeger!LastOn(c, ops, t) = LastOn(c, ops, t)
  /\ \A f, op, v : InJaeger!Bound(f, op, v) = Bound(f, op, v)
  /\ \A f : InJaeger!From(f) = From(f) /\ InJaeger!To(f) = To(f)
  /\ \A v, n : InJaeger!Shift(v, n) = Shift(v, n)
  /\ InJaeger!Ups = Ups /\ InJaeger!Downs = Downs
  /\ \A n : InJaeger!Satisfied(n) <=> Satisfied(n)
  /\ InJaeger!Limits <=> Limits
<1>1. \A f, t : InJaeger!Typed(f, t) <=> Typed(f, t) BY DEF InJaeger!Typed, Typed
<1>2. \A c : InJaeger!FilterOn(c) = FilterOn(c) BY DEF InJaeger!FilterOn, FilterOn
<1>3. \A c, t : InJaeger!EqOf(c, t) = EqOf(c, t) BY <1>1, <1>2 DEF InJaeger!EqOf, EqOf
<1>4. \A c, ops, t : InJaeger!LastOn(c, ops, t) = LastOn(c, ops, t) BY <1>1 DEF InJaeger!LastOn, LastOn
<1>5. \A f, op, v : InJaeger!Bound(f, op, v) = Bound(f, op, v) BY DEF InJaeger!Bound, Bound
<1>6. \A f : InJaeger!From(f) = From(f) /\ InJaeger!To(f) = To(f) BY DEF InJaeger!From, From, InJaeger!To, To
<1>7. \A v, n : InJaeger!Shift(v, n) = Shift(v, n) BY DEF InJaeger!Shift, Shift
<1>8. \A n : (InJaeger!Satisfied(n) <=> Satisfied(n)) /\ (InJaeger!Limits <=> Limits)
  BY DEF InJaeger!Satisfied, Satisfied, InJaeger!Limits, Limits
<1> QED
  BY <1>1, <1>2, <1>3, <1>4, <1>5, <1>6, <1>7, <1>8
      DEF InJaeger!Filters, Filters, InJaeger!Ups, Ups, InJaeger!Downs, Downs

-----------------------------------------------------------------------------
(* Pages and answers of a connector.                                         *)

LEMMA PageCompletes ==
  ASSUME Inv, pc = "paging", ~InOneAnswer, OfOneList, UNCHANGED moves, withheld \subseteq withheld', NEW size \in Nat,
         NEW K, K = {i \in PageOf(size) : listing[i].is_row}, NEW A \in {Appended(K), Trimmed(K)},
         NEW more, HasMore(size) => more \/ Behind(next + size) \subseteq withheld', NEW capped, Advance(size, A, more, capped)
  PROVE  CompleteInv'
<1>1. asked.rest = <<>> BY DEF Inv, CompleteInv, ListInv
<1> QED BY <1>1, AdvanceCompletes

\* Where every entry of a list is a row.
LEMMA AllRows ==
  ASSUME Inv, req.schema \notin {"github", "datagov"}, NEW size
  PROVE  PageOf(size) = {i \in PageOf(size) : listing[i].is_row}
<1>1. \A i \in 1..Len(listing) : listing[i] \in Stored(Table)
  <2>1. \A i \in 1..Len(listing) : listing[i] \in held BY ListLength DEF Inv
  <2> QED BY <2>1 DEF Inv, CompleteInv
<1>2. \A row \in Stored(Table) : row.is_row BY RowAssumption DEF Inv, RowsInv, Table
<1> QED BY <1>1, <1>2 DEF PageOf

LEMMA SizeIsNat == Inv /\ pc = "paging" => asked.size \in Nat
BY DEF Inv, RowsInv

LEMMA AtStart ==
  ASSUME Inv
  PROVE  /\ req \in Requests /\ held \subseteq Stored(Table)
         /\ pc = "start" => ~warned /\ moves = {} /\ asked = Nothing
BY DEF Inv, RowsInv, CompleteInv, TypeOK

-----------------------------------------------------------------------------
(* GitHub.                                                                  *)

LEMMA GitHubSends ==
  ASSUME req \in Requests, NEW row \in Stored(Table), \A f \in Filters : Passes(f, row)
  PROVE  \A f \in InGitHub!Sent \cup InGitHub!Named : Passes(f, row)
<1>1. \A c, t : \A f \in InGitHub!EqOf(c, t) : f \in Filters /\ f.op = "=" BY GitHubReads, OfFilters
<1>2. \A f \in InGitHub!Named : Passes(f, row) BY <1>1 DEF InGitHub!Named
<1>3. ASSUME NEW f \in Filters, f.op = "=" PROVE Passes([f EXCEPT !.op = "<="], row)
  <2> DEFINE g == [f EXCEPT !.op = "<="]
  <2>1. DOMAIN f = {"column", "op", "values"} /\ Len(f.values) = 1 /\ DOMAIN f.values = 1..Len(f.values)
        /\ f.values[1].v \in Int
    BY <1>3, Shape
  <2>2. g.column = f.column /\ g.op = "<=" /\ g.values = f.values BY <2>1
  <2>3. row[f.column] # Null /\ row[f.column] = f.values[1].v BY <1>3, <2>1 DEF Passes
  <2> HIDE DEF g
  <2>4. Passes(g, row) BY <2>1, <2>2, <2>3 DEF Passes
  <2> QED BY <2>4 DEF g
<1>4. \A f \in InGitHub!Sent : Passes(f, row)
  <2> SUFFICES ASSUME NEW f \in InGitHub!Sent PROVE Passes(f, row) OBVIOUS
  <2>1. \/ f \in UNION {InGitHub!EqOf(c, "string") : c \in InGitHub!Table.path \cup InGitHub!Table.text}
        \/ f \in UNION {InGitHub!EqOf(c, "int64") : c \in InGitHub!Table.int}
        \/ f \in UNION {{[g EXCEPT !.op = "<="] : g \in InGitHub!EqOf(c, "string")} : c \in InGitHub!Table.from}
    BY Zenon DEF InGitHub!Sent
  <2>2. CASE f \in UNION {InGitHub!EqOf(c, "string") : c \in InGitHub!Table.path \cup InGitHub!Table.text}
    <3>1. \E c : f \in InGitHub!EqOf(c, "string") BY <2>2
    <3> QED BY <1>1, <3>1
  <2>3. CASE f \in UNION {InGitHub!EqOf(c, "int64") : c \in InGitHub!Table.int}
    <3>1. \E c : f \in InGitHub!EqOf(c, "int64") BY <2>3
    <3> QED BY <1>1, <3>1
  <2>4. CASE f \in UNION {{[g EXCEPT !.op = "<="] : g \in InGitHub!EqOf(c, "string")} : c \in InGitHub!Table.from}
    <3>1. PICK c \in InGitHub!Table.from : f \in {[g EXCEPT !.op = "<="] : g \in InGitHub!EqOf(c, "string")}
      BY <2>4, Zenon
    <3>2. PICK g \in InGitHub!EqOf(c, "string") : f = [g EXCEPT !.op = "<="] BY <3>1, Zenon
    <3> QED BY <1>1, <1>3, <3>2
  <2> QED BY <2>1, <2>2, <2>3, <2>4
<1> QED BY <1>2, <1>4

\* Of an endpoint, what equalities it sends, and which count as honored.
GitHubTable(t, path, text, int, consumed) ==
  /\ InGitHub!GitHub[t].path = path /\ InGitHub!GitHub[t].text = text
  /\ InGitHub!GitHub[t].int = int /\ InGitHub!GitHub[t].consumed = consumed

LEMMA EndpointsAre ==
  /\ DOMAIN InGitHub!GitHub = {"issues", "pulls", "repos", "commits", "releases", "workflow_runs", "artifacts"}
  /\ GitHubTable("issues", {"owner", "repo"}, {"state"}, {}, {"owner", "repo", "state"})
  /\ GitHubTable("pulls", {"owner", "repo"}, {"state"}, {}, {"owner", "repo", "state"})
  /\ GitHubTable("repos", {"owner"}, {}, {}, {"owner", "name", "repo"})
  /\ GitHubTable("commits", {"owner", "repo"}, {"path", "author_login"}, {}, {"owner", "repo", "path", "author_login"})
  /\ GitHubTable("releases", {"owner", "repo"}, {}, {}, {"owner", "repo"})
  /\ LET sending == {"head_branch", "event", "status", "actor_login", "head_sha"}
     IN GitHubTable("workflow_runs", {"owner", "repo"}, sending, {}, {"owner", "repo"} \cup sending)
  /\ GitHubTable("artifacts", {"owner", "repo"}, {"name"}, {"workflow_run_id"}, {"owner", "repo", "name", "workflow_run_id"})
<1> DEFINE E == InGitHub!Endpoint
<1>1. /\ DOMAIN E = {"path", "text", "int", "from", "sorts", "consumed"}
      /\ E.path = {"owner", "repo"} /\ E.text = {} /\ E.int = {} /\ E.consumed = {"owner", "repo"}
  BY DEF InGitHub!Endpoint
<1>2. /\ DOMAIN InGitHub!GitHub = {"issues", "pulls", "repos", "commits", "releases", "workflow_runs", "artifacts"}
      /\ InGitHub!GitHub["issues"] = InGitHub!Issues /\ InGitHub!GitHub["pulls"] = InGitHub!Pulls
      /\ InGitHub!GitHub["repos"] = InGitHub!Repos /\ InGitHub!GitHub["commits"] = InGitHub!Commits
      /\ InGitHub!GitHub["releases"] = InGitHub!Releases /\ InGitHub!GitHub["workflow_runs"] = InGitHub!WorkflowRuns
      /\ InGitHub!GitHub["artifacts"] = InGitHub!Artifacts
  BY DEF InGitHub!GitHub
<1> HIDE DEF E
<1>3. GitHubTable("issues", {"owner", "repo"}, {"state"}, {}, {"owner", "repo", "state"})
  <2> DEFINE s == [E EXCEPT !.text = {"state"}]
             t == [s EXCEPT !.sorts = {"created_at", "updated_at", "comments"}]
             u == [t EXCEPT !.consumed = @ \cup {"state"}]
  <2>1. InGitHub!Issues = u BY DEF InGitHub!Issues, E
  <2>2. DOMAIN s = DOMAIN E /\ s.path = E.path /\ s.int = E.int /\ s.consumed = E.consumed /\ s.text = {"state"}
    BY <1>1
  <2> HIDE DEF s
  <2>3. DOMAIN t = DOMAIN s /\ t.path = s.path /\ t.text = s.text /\ t.int = s.int /\ t.consumed = s.consumed
    BY <1>1, <2>2
  <2> HIDE DEF t
  <2>4. DOMAIN u = DOMAIN t /\ u.path = t.path /\ u.text = t.text /\ u.int = t.int /\ u.consumed = t.consumed \cup {"state"}
    BY <1>1, <2>2, <2>3
  <2> HIDE DEF u
  <2> QED BY <1>1, <1>2, <2>1, <2>2, <2>3, <2>4 DEF GitHubTable
<1>4. GitHubTable("pulls", {"owner", "repo"}, {"state"}, {}, {"owner", "repo", "state"})
  <2> DEFINE s == [E EXCEPT !.text = {"state"}]
             t == [s EXCEPT !.sorts = {"created_at", "updated_at"}]
             u == [t EXCEPT !.consumed = @ \cup {"state"}]
  <2>1. InGitHub!Pulls = u BY DEF InGitHub!Pulls, E
  <2>2. DOMAIN s = DOMAIN E /\ s.path = E.path /\ s.int = E.int /\ s.consumed = E.consumed /\ s.text = {"state"}
    BY <1>1
  <2> HIDE DEF s
  <2>3. DOMAIN t = DOMAIN s /\ t.path = s.path /\ t.text = s.text /\ t.int = s.int /\ t.consumed = s.consumed
    BY <1>1, <2>2
  <2> HIDE DEF t
  <2>4. DOMAIN u = DOMAIN t /\ u.path = t.path /\ u.text = t.text /\ u.int = t.int /\ u.consumed = t.consumed \cup {"state"}
    BY <1>1, <2>2, <2>3
  <2> HIDE DEF u
  <2> QED BY <1>1, <1>2, <2>1, <2>2, <2>3, <2>4 DEF GitHubTable
<1>5. GitHubTable("repos", {"owner"}, {}, {}, {"owner", "name", "repo"})
  <2> DEFINE s == [E EXCEPT !.path = {"owner"}]
             t == [s EXCEPT !.consumed = {"owner", "name", "repo"}]
             u == [t EXCEPT !.sorts = {"created_at", "updated_at", "pushed_at", "full_name", "name"}]
  <2>1. InGitHub!Repos = u BY DEF InGitHub!Repos, E
  <2>2. DOMAIN s = DOMAIN E /\ s.text = E.text /\ s.int = E.int /\ s.consumed = E.consumed /\ s.path = {"owner"}
    BY <1>1
  <2> HIDE DEF s
  <2>3. DOMAIN t = DOMAIN s /\ t.path = s.path /\ t.text = s.text /\ t.int = s.int /\ t.consumed = {"owner", "name", "repo"}
    BY <1>1, <2>2
  <2> HIDE DEF t
  <2>4. DOMAIN u = DOMAIN t /\ u.path = t.path /\ u.text = t.text /\ u.int = t.int /\ u.consumed = t.consumed
    BY <1>1, <2>2, <2>3
  <2> HIDE DEF u
  <2> QED BY <1>1, <1>2, <2>1, <2>2, <2>3, <2>4 DEF GitHubTable
<1>6. GitHubTable("commits", {"owner", "repo"}, {"path", "author_login"}, {}, {"owner", "repo", "path", "author_login"})
  <2> DEFINE s == [E EXCEPT !.text = {"path", "author_login"}]
             t == [s EXCEPT !.from = {"sha"}]
             u == [t EXCEPT !.consumed = @ \cup {"path", "author_login"}]
  <2>1. InGitHub!Commits = u BY DEF InGitHub!Commits, E
  <2>2. DOMAIN s = DOMAIN E /\ s.path = E.path /\ s.int = E.int /\ s.consumed = E.consumed /\ s.text = {"path", "author_login"}
    BY <1>1
  <2> HIDE DEF s
  <2>3. DOMAIN t = DOMAIN s /\ t.path = s.path /\ t.text = s.text /\ t.int = s.int /\ t.consumed = s.consumed
    BY <1>1, <2>2
  <2> HIDE DEF t
  <2>4. DOMAIN u = DOMAIN t /\ u.path = t.path /\ u.text = t.text /\ u.int = t.int /\ u.consumed = t.consumed \cup {"path", "author_login"}
    BY <1>1, <2>2, <2>3
  <2> HIDE DEF u
  <2> QED BY <1>1, <1>2, <2>1, <2>2, <2>3, <2>4 DEF GitHubTable
<1>7. GitHubTable("workflow_runs", {"owner", "repo"}, {"head_branch", "event", "status", "actor_login", "head_sha"}, {}, {"owner", "repo"} \cup {"head_branch", "event", "status", "actor_login", "head_sha"})
  <2> DEFINE s == [E EXCEPT !.text = {"head_branch", "event", "status", "actor_login", "head_sha"}]
             t == [s EXCEPT !.consumed = @ \cup {"head_branch", "event", "status", "actor_login", "head_sha"}]
  <2>1. InGitHub!WorkflowRuns = t BY DEF InGitHub!WorkflowRuns, E
  <2>2. DOMAIN s = DOMAIN E /\ s.path = E.path /\ s.int = E.int /\ s.consumed = E.consumed
        /\ s.text = {"head_branch", "event", "status", "actor_login", "head_sha"}
    BY <1>1
  <2> HIDE DEF s
  <2>3. t.path = s.path /\ t.int = s.int /\ t.text = s.text /\ t.consumed = s.consumed \cup {"head_branch", "event", "status", "actor_login", "head_sha"}
    BY <1>1, <2>2
  <2> HIDE DEF t
  <2> QED BY <1>1, <1>2, <2>1, <2>2, <2>3 DEF GitHubTable
<1>8. GitHubTable("artifacts", {"owner", "repo"}, {"name"}, {"workflow_run_id"}, {"owner", "repo", "name", "workflow_run_id"})
  <2> DEFINE s == [E EXCEPT !.text = {"name"}]
             t == [s EXCEPT !.int = {"workflow_run_id"}]
             u == [t EXCEPT !.consumed = @ \cup {"name", "workflow_run_id"}]
  <2>1. InGitHub!Artifacts = u BY DEF InGitHub!Artifacts, E
  <2>2. DOMAIN s = DOMAIN E /\ s.path = E.path /\ s.int = E.int /\ s.consumed = E.consumed /\ s.text = {"name"}
    BY <1>1
  <2> HIDE DEF s
  <2>3. DOMAIN t = DOMAIN s /\ t.path = s.path /\ t.text = s.text /\ t.consumed = s.consumed /\ t.int = {"workflow_run_id"}
    BY <1>1, <2>2
  <2> HIDE DEF t
  <2>4. DOMAIN u = DOMAIN t /\ u.path = t.path /\ u.text = t.text /\ u.int = t.int /\ u.consumed = t.consumed \cup {"name", "workflow_run_id"}
    BY <1>1, <2>2, <2>3
  <2> HIDE DEF u
  <2> QED BY <1>1, <1>2, <2>1, <2>2, <2>3, <2>4 DEF GitHubTable
<1>9. GitHubTable("releases", {"owner", "repo"}, {}, {}, {"owner", "repo"})
  BY <1>1, <1>2 DEF GitHubTable, InGitHub!Releases, E
<1> QED BY <1>2, <1>3, <1>4, <1>5, <1>6, <1>7, <1>8, <1>9

\* What counts as honored is sent, but for the name of a repository that was asked for by it.
LEMMA ConsumedIsSent ==
  ASSUME NEW t \in DOMAIN InGitHub!GitHub, NEW c \in InGitHub!GitHub[t].consumed
  PROVE  /\ c \in Numeric => c = "workflow_run_id" /\ c \in InGitHub!GitHub[t].int
         /\ c \notin Numeric =>
              c \in InGitHub!GitHub[t].path \cup InGitHub!GitHub[t].text \/ (t = "repos" /\ c \in {"name", "repo"})
<1> PICK path, text, int, consumed :
      /\ path = InGitHub!GitHub[t].path /\ text = InGitHub!GitHub[t].text
      /\ int = InGitHub!GitHub[t].int /\ consumed = InGitHub!GitHub[t].consumed
  OBVIOUS
<1> DEFINE Row(pa, te, in, co) == path = pa /\ text = te /\ int = in /\ consumed = co
           repo == {"owner", "repo"}
           sending == {"head_branch", "event", "status", "actor_login", "head_sha"}
<1>1. \/ t \in {"issues", "pulls"} /\ Row(repo, {"state"}, {}, {"owner", "repo", "state"})
      \/ t = "repos" /\ Row({"owner"}, {}, {}, {"owner", "name", "repo"})
      \/ t = "commits" /\ Row(repo, {"path", "author_login"}, {}, {"owner", "repo", "path", "author_login"})
      \/ t = "releases" /\ Row(repo, {}, {}, repo)
      \/ t = "workflow_runs" /\ Row(repo, sending, {}, repo \cup sending)
      \/ t = "artifacts" /\ Row(repo, {"name"}, {"workflow_run_id"}, {"owner", "repo", "name", "workflow_run_id"})
  BY EndpointsAre DEF GitHubTable
<1> QED BY <1>1 DEF Numeric

\* A LIMIT only rides beside equalities that were sent.
LEMMA GitHubIsExact ==
  ASSUME req \in Requests, Understood(req), req.limit # Null, InGitHub!Here, InGitHub!ConsumedAll, InGitHub!Named = {},
         NEW f \in Filters
  PROVE  f \in InGitHub!Sent
<1>1. f.op = "=" /\ f.column \in InGitHub!Table.consumed BY GitHubReads DEF InGitHub!ConsumedAll
<1>2. Typed(f, IF f.column \in Numeric THEN "int64" ELSE "string")
  <2>1. PICK i \in DOMAIN req.filters : f = req.filters[i] BY DEF Filters
  <2> QED BY <2>1 DEF Understood, InGitHub!Here
<1>3. f \in InGitHub!EqOf(f.column, IF f.column \in Numeric THEN "int64" ELSE "string")
  BY <1>1, <1>2, EqThere, GitHubReads
<1>4. req.table \in DOMAIN InGitHub!GitHub BY TableAssumption DEF InGitHub!Here
<1>5. InGitHub!Table = InGitHub!GitHub[req.table] BY DEF InGitHub!Table
<1>6. CASE f.column \in Numeric
  <2>1. f.column \in InGitHub!Table.int BY <1>1, <1>4, <1>5, <1>6, ConsumedIsSent
  <2>2. f \in InGitHub!EqOf(f.column, "int64") BY <1>3, <1>6
  <2> QED BY <2>1, <2>2 DEF InGitHub!Sent
<1>7. CASE f.column \notin Numeric
  <2>1. f \in InGitHub!EqOf(f.column, "string") BY <1>3, <1>7
  <2>2. ~(req.table = "repos" /\ f.column \in {"name", "repo"}) BY <2>1 DEF InGitHub!Named
  <2>3. f.column \in InGitHub!Table.path \cup InGitHub!Table.text BY <1>1, <1>4, <1>5, <1>7, <2>2, ConsumedIsSent
  <2> QED BY <2>1, <2>3 DEF InGitHub!Sent
<1> QED BY <1>6, <1>7

LEMMA GitHubCompletes ==
  ASSUME Inv, InGitHub!Next, UNCHANGED moves, withheld \subseteq withheld'
  PROVE  CompleteInv'
<1>0. req.schema = "github" BY DEF InGitHub!Next, InGitHub!GetRepo, InGitHub!Start, InGitHub!Page, InGitHub!Here
<1>1. ~InOneAnswer /\ OfOneList
  BY <1>0 DEF InOneAnswer, OfOneList
<1>2. CASE InGitHub!GetRepo
  <2>1. UNCHANGED <<req, held, standing, asked, moves>> /\ pc' \in {"done", "failed"} BY <1>2 DEF InGitHub!GetRepo
  <2>2. /\ req \in Requests /\ held \subseteq Stored(Table) /\ standing \subseteq held /\ asked = Nothing
        /\ emitted = {} /\ emitted \cup standing \subseteq Stored(Table)
    BY <1>2 DEF Inv, RowsInv, CompleteInv, TypeOK, InGitHub!GetRepo
  <2>3. \A F, R : InGitHub!Passing(F, R) = Passing(F, R) BY DEF InGitHub!Passing, Passing, InGitHub!Passes, Passes
  <2>4. emitted' = emitted \/ (pc' = "done" /\ emitted' = Passing(InGitHub!Sent \cup InGitHub!Named, held))
    BY <1>2, <2>3 DEF InGitHub!GetRepo, InGitHub!result
  <2>5. pc' = "done" => emitted' = Passing(InGitHub!Sent \cup InGitHub!Named, held)
    BY <1>2, <2>3 DEF InGitHub!GetRepo
  <2>6. Table' = Table /\ Filters' = Filters BY <2>1, SameRequest
  <2>7. (held \cup standing \cup emitted)' \subseteq Stored(Table)'
    <3>1. emitted' \subseteq held BY <2>2, <2>4 DEF Passing
    <3> QED BY <2>1, <2>2, <2>6, <3>1
  <2>8. ASSUME pc' = "done" PROVE Serves(req, {row \in Passing(Filters, standing \cup emitted') : row.is_row /\ row \notin withheld' \ emitted'}, emitted')
    <3> DEFINE want == {row \in Passing(Filters, standing \cup emitted') : row.is_row /\ row \notin withheld' \ emitted'}
    <3>1. ASSUME NEW row \in want PROVE row \in emitted'
      <4>1. row \in standing \/ row \in emitted' BY DEF Passing
      <4>2. CASE row \in standing
        <5>1. row \in held /\ row \in Stored(Table) /\ \A f \in Filters : Passes(f, row) BY <2>2, <4>2 DEF Passing
        <5>2. \A f \in InGitHub!Sent \cup InGitHub!Named : Passes(f, row) BY <2>2, <5>1, GitHubSends
        <5> QED BY <2>5, <2>8, <5>1, <5>2 DEF Passing
      <4> QED BY <4>1, <4>2
    <3> HIDE DEF want
    <3> QED BY <3>1 DEF Serves, want
  <2>9. Complete' BY <2>1, <2>6, <2>8 DEF Complete
  <2> QED BY <2>1, <2>7, <2>9 DEF CompleteInv
<1>3. CASE InGitHub!Start
  <2> DEFINE order == IF InGitHub!SortMapped THEN <<req.order[1]>> ELSE <<>>
             stop == IF InGitHub!Pushes THEN WrappedStop ELSE Null
             ask == Asked(InGitHub!Sent, order, InGitHub!PerPage, stop, FALSE)
  <2>1. pc = "start" /\ Ask(InGitHub!Sent, order, InGitHub!PerPage, stop, FALSE) /\ InGitHub!Here /\ InGitHub!Named = {}
    BY <1>3, GitHubCopies DEF InGitHub!Start
  <2>2. req \in Requests /\ held \subseteq Stored(Table) BY AtStart
  <2>3. /\ ask.filters = InGitHub!Sent /\ ask.order = order /\ ask.stop = stop /\ ask.rest = <<>>
    BY DEF Asked
  <2> HIDE DEF ask
  <2>4. Asks(ask) BY <2>2, <2>3, GitHubSends DEF Asks, Wanted
  <2>5. ASSUME Understood(req), stop # Null PROVE AsksExactly(ask)
    <3>1. InGitHub!Pushes /\ req.limit # Null /\ InGitHub!ConsumedAll /\ InGitHub!OrderHonored
      BY <2>5 DEF InGitHub!Pushes, InGitHub!LimitSafe
    <3>2. stop = StopAt(req) BY <2>2, <2>5, <3>1, StopIsWrapped
    <3>3. order = req.order \/ req.order = <<>>
      <4>1. CASE Len(req.order) = 1 /\ InGitHub!SortMapped
        <5>1. req.order \in Seq({req.order[i] : i \in DOMAIN req.order}) BY <2>2, FilterAssumption
        <5> PICK o, S : o = req.order /\ o \in Seq(S) BY <5>1
        <5>2. o = <<o[1]>> BY <4>1
        <5> QED BY <4>1, <5>2
      <4> QED BY <3>1, <4>1 DEF InGitHub!OrderHonored
    <3>4. \A f \in Filters : f \in InGitHub!Sent BY <2>1, <2>2, <2>5, <3>1, GitHubIsExact
    <3> HIDE DEF order, stop
    <3> QED BY <2>3, <3>1, <3>2, <3>3, <3>4 DEF AsksExactly, Wanted
  <2> HIDE DEF order, stop
  <2> QED BY <1>1, <2>1, <2>4, <2>5, AskCompletes DEF ask
<1>4. CASE InGitHub!Page
  <2> DEFINE kept == {i \in PageOf(asked.size) : listing[i].is_row}
  <2>1. /\ pc = "paging"
        /\ \E c : Advance(asked.size, Appended(kept), HasMore(asked.size), c)
    BY <1>4, GitHubCopies DEF InGitHub!Page
  <2>2. asked.size \in Nat BY <2>1, SizeIsNat
  <2> QED BY <1>1, <2>1, <2>2, PageCompletes
<1> QED BY <1>2, <1>3, <1>4 DEF InGitHub!Next

-----------------------------------------------------------------------------
(* Slack.                                                                   *)

\* A filter of the request, and the type of its literals.
LEMMA LiteralsAre ==
  ASSUME Understood(req), req.schema \in {"github", "slack", "datagov", "jira", "jaeger"}, NEW f \in Filters,
         ~(req.schema = "slack" /\ f.column = "ts")
  PROVE  Typed(f, IF f.column \in Numeric THEN "int64" ELSE "string")
<1>1. PICK i \in DOMAIN req.filters : f = req.filters[i] BY DEF Filters
<1> QED BY <1>1 DEF Understood

\* A bound made of one end of a filter keeps what passes the filter.
LEMMA EndLoosens ==
  ASSUME req \in Requests, NEW row \in Stored(Table), NEW f \in Filters, Passes(f, row)
  PROVE  /\ f.op \in Ups => Passes(Bound(f, ">=", From(f)), row)
         /\ f.op \in Downs => Passes(Bound(f, "<=", To(f)), row)
<1>1. ASSUME f.op \in Ups PROVE Passes(Bound(f, ">=", From(f)), row)
  <2>1. row[f.column] # Null /\ row[f.column] \in Int /\ From(f).v \in Int /\ From(f).v <= row[f.column]
    BY <1>1, EndsHold
  <2>2. Bound(f, ">=", From(f)) = [column |-> f.column, op |-> ">=", values |-> <<From(f)>>] BY BoundIs
  <2>3. row[f.column] >= From(f).v BY <2>1
  <2> QED BY <2>1, <2>2, <2>3, AtBound
<1>2. ASSUME f.op \in Downs PROVE Passes(Bound(f, "<=", To(f)), row)
  <2>1. row[f.column] # Null /\ row[f.column] <= To(f).v BY <1>2, EndsHold
  <2>2. Bound(f, "<=", To(f)) = [column |-> f.column, op |-> "<=", values |-> <<To(f)>>] BY BoundIs
  <2> QED BY <2>1, <2>2, AtBound
<1> QED BY <1>1, <1>2

\* So does one of the last filter at that end.
LEMMA LoosensAt ==
  ASSUME req \in Requests, NEW row \in Stored(Table), \A f \in Filters : Passes(f, row), NEW c, NEW t
  PROVE  /\ \A f \in LastOn(c, Ups, t) : Passes(Bound(f, ">=", From(f)), row)
         /\ \A f \in LastOn(c, Downs, t) : Passes(Bound(f, "<=", To(f)), row)
BY OfFilters, EndLoosens

LEMMA InclusiveIsExact ==
  ASSUME req \in Requests, NEW f \in Filters, f.op \in {">=", "<=", "between"}, NEW row,
         f.op \in Ups => Passes(Bound(f, ">=", From(f)), row),
         f.op \in Downs => Passes(Bound(f, "<=", To(f)), row)
  PROVE  Passes(f, row)
<1>1. /\ f.op \in Ups => row[f.column] # Null /\ row[f.column] >= From(f).v
      /\ f.op \in Downs => row[f.column] # Null /\ row[f.column] <= To(f).v
  BY BoundIs, AtBound
<1>2. /\ Len(f.values) = IF f.op = "between" THEN 2 ELSE 1
      /\ DOMAIN f.values = 1..Len(f.values) /\ \A j \in DOMAIN f.values : f.values[j].v \in Int
  BY Shape
<1>3. CASE f.op = ">=" BY <1>1, <1>3 DEF Ups, From, Passes
<1>4. CASE f.op = "<=" BY <1>1, <1>2, <1>4 DEF Downs, To, Passes
<1>5. CASE f.op = "between"
  <2>1. row[f.column] # Null /\ row[f.column] >= f.values[1].v /\ row[f.column] <= f.values[2].v
    BY <1>1, <1>2, <1>5 DEF Ups, Downs, From, To
  <2> QED BY <1>5, <2>1 DEF Passes
<1> QED BY <1>3, <1>4, <1>5

LEMMA SlackPage ==
  ASSUME Inv, pc = "paging", InSlack!Page \/ InSlack!PageOfSearch, UNCHANGED moves, withheld \subseteq withheld'
  PROVE  CompleteInv'
<1>1. req.schema = "slack" BY DEF InSlack!Page, InSlack!PageOfSearch, InSlack!Here, InSlack!On
<1>2. ~InOneAnswer /\ OfOneList BY <1>1 DEF InOneAnswer, OfOneList
<1>3. asked.size \in Nat BY SizeIsNat
<1>4. \A n : PageOf(n) = {i \in PageOf(n) : listing[i].is_row} BY <1>1, AllRows
<1>5. CASE InSlack!Page
  <2>1. PICK size \in InSlack!Reaches(asked.size) :
          Advance(size, Trimmed(PageOf(size)), size = 0 \/ HasMore(size), Capped)
    BY <1>5, SlackCopies DEF InSlack!Page, InSlack!Kept
  <2>2. size \in Nat BY <1>3 DEF InSlack!Reaches
  <2>3. PICK K, more : K = PageOf(size) /\ more = (size = 0 \/ HasMore(size)) OBVIOUS
  <2>4. Advance(size, Trimmed(K), more, Capped) /\ (HasMore(size) => more) BY <2>1, <2>3
  <2> QED BY <1>2, <1>4, <2>2, <2>3, <2>4, PageCompletes
<1>6. CASE InSlack!PageOfSearch
  <2>1. Advance(asked.size, Appended(PageOf(asked.size)), HasMore(asked.size), Capped)
    BY <1>6, SlackCopies DEF InSlack!PageOfSearch
  <2> QED BY <1>2, <1>3, <1>4, <2>1, PageCompletes
<1> QED BY <1>5, <1>6

\* A request that is sent with its LIMIT if `safe`.
LEMMA SlackAsks ==
  ASSUME Inv, pc = "start", UNCHANGED moves, req.schema = "slack", NEW filters, NEW order, NEW safe, NEW keyset,
         InSlack!ScanWith(filters, order, safe, keyset),
         \A row \in held : Wanted(row) => \A f \in filters : Passes(f, row),
         safe /\ Understood(req) /\ req.limit # Null =>
           /\ order = req.order \/ req.order = <<>>
           /\ \A row \in Stored(Table) : row.is_row /\ (\A f \in filters : Passes(f, row)) => Wanted(row)
  PROVE  CompleteInv'
<1> DEFINE pushes == req.limit # Null /\ safe
           stop == IF pushes THEN WrappedStop ELSE Null
<1>1. PICK size : Ask(filters, order, size, stop, keyset)
  BY SlackCopies DEF InSlack!ScanWith
<1> DEFINE ask == Asked(filters, order, size, stop, keyset)
<1>2. /\ ask.filters = filters /\ ask.order = order /\ ask.stop = stop /\ ask.rest = <<>>
  BY DEF Asked
<1> HIDE DEF ask
<1>3. ~InOneAnswer /\ OfOneList BY DEF InOneAnswer, OfOneList
<1>4. Asks(ask) BY <1>2 DEF Asks
<1>5. ASSUME Understood(req), stop # Null PROVE AsksExactly(ask)
  <2>1. stop = StopAt(req) BY <1>5, AtStart, StopIsWrapped
  <2> HIDE DEF stop
  <2> QED BY <1>2, <1>5, <2>1 DEF AsksExactly, stop
<1> HIDE DEF stop
<1> QED BY <1>1, <1>3, <1>4, <1>5, AskCompletes DEF ask

\* The filter whose end is a bound on ts; beside a LIMIT it is the one there is.
LEMMA SlackBounds ==
  ASSUME req \in Requests, NEW ops \in {Ups, Downs}
  PROVE  /\ \A f \in InSlack!LastBound(ops) : f \in Filters /\ f.column = "ts" /\ f.op \in ops
         /\ Understood(req) /\ req.limit # Null =>
              \A f \in Filters : f.column = "ts" /\ f.op \in ops => f \in InSlack!LastBound(ops)
<1>1. \A f \in InSlack!LastBound(ops) : f \in Filters /\ f.column = "ts" /\ f.op \in ops
  BY DEF InSlack!LastBound, Filters
<1>2. ASSUME Understood(req), req.limit # Null, NEW f \in Filters, f.column = "ts", f.op \in ops
      PROVE  f \in InSlack!LastBound(ops)
  <2> DEFINE on == {i \in DOMAIN req.filters : req.filters[i].column = "ts" /\ req.filters[i].op \in ops}
  <2>1. on \in SUBSET DOMAIN req.filters /\ on # {} BY <1>2 DEF Filters
  <2>2. IsFiniteSet(on) /\ on \subseteq Int
    <3> HIDE DEF on
    <3> QED BY <2>1, Shape, FS_Subset
  <2>3. PICK i \in on : \A j \in on : j <= i
    <3> HIDE DEF on
    <3> QED BY <2>1, <2>2, HasMax
  <2>4. req.filters[i] \in InSlack!LastBound(ops) BY <2>3 DEF InSlack!LastBound
  <2>5. req.filters[i] = f
    <3>1. req.filters[i] \in Filters /\ req.filters[i].column = "ts" /\ req.filters[i].op \in ops BY <1>1, <2>4
    <3> QED BY <1>2, <3>1, Alone DEF Ups, Downs
  <2> QED BY <2>4, <2>5
<1> QED BY <1>1, <1>2

LEMMA SlackMessages ==
  ASSUME Inv, pc = "start", req.schema = "slack",
         NEW F, F = InSlack!EqOf("channel", "string") \cup InSlack!Oldest \cup InSlack!Latest
  PROVE  /\ \A row \in held : Wanted(row) => \A f \in F : Passes(f, row)
         /\ InSlack!MessagesLimitSafe /\ Understood(req) /\ req.limit # Null =>
              \A row \in Stored(Table) : row.is_row /\ (\A f \in F : Passes(f, row)) => Wanted(row)
<1>0. req \in Requests /\ held \subseteq Stored(Table) BY AtStart
<1>1. /\ InSlack!EqOf("channel", "string") = EqOf("channel", "string")
      /\ InSlack!Oldest = {Bound(f, ">=", From(f)) : f \in {g \in InSlack!LastBound(Ups) : InSlack!Stamp(From(g))}}
      /\ InSlack!Latest = {Bound(f, "<=", To(f)) : f \in {g \in InSlack!LastBound(Downs) : InSlack!Stamp(To(g))}}
  BY SlackReads DEF InSlack!Oldest, InSlack!Latest
<1>2. ASSUME NEW row \in held, Wanted(row), NEW f \in F PROVE Passes(f, row)
  <2>1. row \in Stored(Table) /\ \A g \in Filters : Passes(g, row) BY <1>0, <1>2 DEF Wanted
  <2>2. CASE f \in EqOf("channel", "string") BY <2>1, <2>2, OfFilters
  <2>3. CASE f \in InSlack!Oldest BY <1>0, <1>1, <2>1, <2>3, SlackBounds, EndLoosens
  <2>4. CASE f \in InSlack!Latest BY <1>0, <1>1, <2>1, <2>4, SlackBounds, EndLoosens
  <2> QED BY <1>1, <2>2, <2>3, <2>4
<1>3. ASSUME InSlack!MessagesLimitSafe, Understood(req), req.limit # Null,
             NEW row \in Stored(Table), \A f \in F : Passes(f, row), NEW f \in Filters
      PROVE  Passes(f, row)
  <2>1. \/ f.column = "channel" /\ f.op = "="
        \/ f.column = "ts" /\ f.op \in {">=", "<=", "between"}
    BY <1>3, SlackReads DEF InSlack!MessagesLimitSafe
  <2>2. CASE f.column = "channel" /\ f.op = "="
    <3>1. Typed(f, "string") BY <1>3, <2>2, LiteralsAre DEF Numeric
    <3>2. f \in EqOf("channel", "string") BY <1>0, <1>3, <2>2, <3>1, EqThere
    <3> QED BY <1>1, <1>3, <3>2
  <2>3. CASE f.column = "ts" /\ f.op \in {">=", "<=", "between"}
    <3>1. InSlack!Stamp(From(f)) /\ InSlack!Stamp(To(f))
      <4>1. PICK i \in DOMAIN req.filters : f = req.filters[i] BY DEF Filters
      <4>2. \A j \in DOMAIN f.values : InSlack!Stamp(f.values[j]) BY <1>3, <2>3, <4>1 DEF Understood
      <4>3. 1 \in DOMAIN f.values /\ Len(f.values) \in DOMAIN f.values BY <1>0, Shape
      <4> QED BY <4>2, <4>3 DEF From, To
    <3>2. f.op \in Ups => f \in InSlack!LastBound(Ups) BY <1>0, <1>3, <2>3, SlackBounds
    <3>3. f.op \in Downs => f \in InSlack!LastBound(Downs) BY <1>0, <1>3, <2>3, SlackBounds
    <3>4. /\ f.op \in Ups => Passes(Bound(f, ">=", From(f)), row)
          /\ f.op \in Downs => Passes(Bound(f, "<=", To(f)), row)
      BY <1>1, <1>3, <3>1, <3>2, <3>3
    <3> QED BY <1>0, <2>3, <3>4, InclusiveIsExact
  <2> QED BY <2>1, <2>2, <2>3
<1> QED BY <1>2, <1>3 DEF Wanted

LEMMA SlackCompletes ==
  ASSUME Inv, InSlack!Next, UNCHANGED moves, withheld \subseteq withheld'
  PROVE  CompleteInv'
<1>0. req.schema = "slack"
  BY DEF InSlack!Next, InSlack!ScanChannels, InSlack!ScanUsers, InSlack!ScanMessages, InSlack!ScanSearch,
         InSlack!Page, InSlack!PageOfSearch, InSlack!Here, InSlack!On
<1>1. req \in Requests BY AtStart
<1>2. InSlack!LimitSafe => req.order = <<>> /\ \A row : row.is_row => Wanted(row)
  <2>1. InSlack!LimitSafe => Filters = {} BY DEF InSlack!LimitSafe, Filters
  <2> QED BY <2>1 DEF InSlack!LimitSafe, Wanted
<1>3. CASE InSlack!ScanChannels
  <2> DEFINE F == {f \in InSlack!EqOf("is_archived", "int64") : f.values[1].v = 0}
  <2>1. pc = "start" /\ InSlack!ScanWith(F, <<>>, InSlack!LimitSafe, TRUE) BY <1>3 DEF InSlack!ScanChannels
  <2>2. F \subseteq Filters BY SlackReads, OfFilters
  <2> HIDE DEF F
  <2>3. \A row \in held : Wanted(row) => \A f \in F : Passes(f, row) BY <2>2 DEF Wanted
  <2> QED BY <1>0, <1>2, <2>1, <2>3, SlackAsks
<1>4. CASE InSlack!ScanUsers
  <2>1. PICK F : F = {} OBVIOUS
  <2>2. pc = "start" /\ InSlack!ScanWith(F, <<>>, InSlack!LimitSafe, TRUE) BY <1>4, <2>1 DEF InSlack!ScanUsers
  <2>3. \A row \in held : Wanted(row) => \A f \in F : Passes(f, row) BY <2>1
  <2> QED BY <1>0, <1>2, <2>2, <2>3, SlackAsks
<1>5. CASE InSlack!ScanMessages
  <2> DEFINE order == <<[column |-> "ts", desc |-> TRUE]>>
  <2>1. PICK F : F = InSlack!EqOf("channel", "string") \cup InSlack!Oldest \cup InSlack!Latest OBVIOUS
  <2>2. pc = "start" /\ InSlack!ScanWith(F, order, InSlack!MessagesLimitSafe, TRUE)
    BY <1>5, <2>1 DEF InSlack!ScanMessages
  <2>3. InSlack!MessagesLimitSafe => order = req.order \/ req.order = <<>> BY DEF InSlack!MessagesLimitSafe
  <2>4. /\ \A row \in held : Wanted(row) => \A f \in F : Passes(f, row)
        /\ InSlack!MessagesLimitSafe /\ Understood(req) /\ req.limit # Null =>
             \A row \in Stored(Table) : row.is_row /\ (\A f \in F : Passes(f, row)) => Wanted(row)
    BY <1>0, <2>1, <2>2, SlackMessages
  <2> HIDE DEF order
  <2> QED BY <1>0, <2>2, <2>3, <2>4, SlackAsks
<1>6. CASE InSlack!ScanSearch
  <2>1. PICK F : F = EqOf("query", "string") OBVIOUS
  <2>2. pc = "start" /\ InSlack!ScanWith(F, <<>>, InSlack!SearchLimitSafe, FALSE)
    BY <1>6, <2>1, SlackReads DEF InSlack!ScanSearch
  <2>3. \A row \in held : Wanted(row) => \A f \in F : Passes(f, row) BY <2>1, OfFilters DEF Wanted
  <2>4. ASSUME InSlack!SearchLimitSafe, Understood(req), req.limit # Null
        PROVE  req.order = <<>> /\ \A f \in Filters : f \in F
    <3>1. req.order = <<>> /\ \A f \in Filters : f.column = "query" /\ f.op = "="
      BY <2>4, SlackReads DEF InSlack!SearchLimitSafe
    <3>2. ASSUME NEW f \in Filters PROVE f \in F
      <4>1. Typed(f, "string") BY <1>0, <2>4, <3>1, LiteralsAre DEF Numeric
      <4> QED BY <1>1, <2>1, <2>4, <3>1, <4>1, EqThere
    <3> QED BY <3>1, <3>2
  <2> QED BY <1>0, <2>2, <2>3, <2>4, SlackAsks DEF Wanted
<1>7. CASE InSlack!Page \/ InSlack!PageOfSearch
  <2>1. pc = "paging" BY <1>7 DEF InSlack!Page, InSlack!PageOfSearch
  <2> QED BY <1>7, <2>1, SlackPage
<1> QED BY <1>3, <1>4, <1>5, <1>6, <1>7 DEF InSlack!Next

-----------------------------------------------------------------------------
(* CKAN.                                                                    *)

\* A request that goes out with its LIMIT or without.
LEMMA SendCompletes ==
  ASSUME Inv, pc = "start", UNCHANGED moves, OfOneList, NEW filters, NEW order, NEW size, NEW stop, NEW keyset,
         Ask(filters, order, size, stop, keyset),
         stop = Null \/ (req.limit # Null /\ stop = WrappedStop),
         InOneAnswer => /\ stop # Null /\ stop >= 0 => size = stop
                        /\ stop = Null => RowsAtOnce(size)
                        /\ req.schema = "jaeger" => stop = Null,
         Understood(req) =>
           \/ req.schema = "newrelic" /\ ~InNewRelic!Curated /\ InNewRelic!Windowed
           \/ InJaeger!Searches /\ ~InJaeger!LowerBound
           \/ \A row \in held : Wanted(row) => \A f \in filters : Passes(f, row),
         stop # Null /\ Understood(req) /\ req.limit # Null =>
           /\ order = req.order \/ req.order = <<>>
           /\ \A row \in Stored(Table) : row.is_row /\ (\A f \in filters : Passes(f, row)) => Wanted(row)
  PROVE  CompleteInv'
<1> DEFINE ask == Asked(filters, order, size, stop, keyset)
<1>1. /\ ask.filters = filters /\ ask.order = order /\ ask.size = size /\ ask.stop = stop /\ ask.rest = <<>>
  BY DEF Asked
<1> HIDE DEF ask
<1>2. ~warned' BY AtStart DEF Ask, result
<1>3. InOneAnswer => AsksInOne(ask) BY <1>1, <1>2 DEF AsksInOne
<1>4. Understood(req) => Asks(ask) BY <1>1 DEF Asks
<1>5. ASSUME Understood(req), stop # Null PROVE AsksExactly(ask)
  <2>1. req.limit # Null /\ stop = StopAt(req) BY <1>5, AtStart, StopIsWrapped
  <2> QED BY <1>1, <1>5, <2>1 DEF AsksExactly
<1> QED BY <1>3, <1>4, <1>5, AskCompletes DEF ask

LEMMA CkanLoosens ==
  ASSUME req \in Requests, Understood(req), InCkan!Here, NEW row \in Stored(Table), \A f \in Filters : Passes(f, row),
         NEW f \in Filters
  PROVE  /\ f.column = "tags" /\ f.op \in {"=", "in"} => Passes(InCkan!Tagged(f), row)
         /\ f.op \in Ups \cup Downs => Passes(InCkan!Seconds(f), row)
<1>1. DOMAIN f = {"column", "op", "values"} /\ \A j \in DOMAIN f.values : f.values[j].v \in Int BY Shape
<1>2. ASSUME f.column = "tags", f.op \in {"=", "in"} PROVE Passes(InCkan!Tagged(f), row)
  <2> DEFINE all == UNION {Holders[f.values[i].v] : i \in DOMAIN f.values}
             values == [v \in all |-> InCkan!Text(v)]
             s == [f EXCEPT !.op = "in"]
             t == [s EXCEPT !.values = values]
  <2>1. InCkan!Tagged(f) = t BY DEF InCkan!Tagged
  <2>2. DOMAIN s = DOMAIN f /\ s.column = f.column /\ s.op = "in" BY <1>1
  <2> HIDE DEF s, values
  <2>3. t.column = f.column /\ t.op = "in" /\ t.values = values BY <1>1, <2>2
  <2>4. PICK i \in DOMAIN f.values : row[f.column] = f.values[i].v /\ row[f.column] # Null BY <1>2 DEF Passes
  <2>5. f.values[i].v \in Holders[f.values[i].v]
    <3>1. PICK n \in DOMAIN req.filters : f = req.filters[n] BY DEF Filters
    <3> QED BY <1>2, <3>1 DEF Understood, InCkan!Here
  <2>6. row[f.column] \in DOMAIN values /\ values[row[f.column]].v = row[f.column]
    BY <2>4, <2>5 DEF values, InCkan!Text
  <2> HIDE DEF t
  <2> QED BY <2>1, <2>3, <2>4, <2>6 DEF Passes
<1>3. ASSUME f.op \in Ups \cup Downs PROVE Passes(InCkan!Seconds(f), row)
  <2> DEFINE g(op) == [f EXCEPT !.op = op]
  <2>1. \A op : g(op).column = f.column /\ g(op).values = f.values /\ g(op).op = op BY <1>1
  <2>2. InCkan!Seconds(f) = g(CASE f.op = ">" -> ">=" [] f.op = "<" -> "<=" [] OTHER -> f.op) BY DEF InCkan!Seconds
  <2> HIDE DEF g
  <2>3. Passes(f, row) OBVIOUS
  <2>4. CASE f.op = ">"
    <3>1. InCkan!Seconds(f) = g(">=") BY <2>2, <2>4
    <3>2. row[f.column] # Null /\ row[f.column] > f.values[1].v BY <2>3, <2>4 DEF Passes
    <3>3. row[f.column] \in Int /\ f.values[1].v \in Int
      <4>1. Len(f.values) = 1 /\ DOMAIN f.values = 1..Len(f.values) BY <2>4, Shape
      <4> QED BY <1>1, <4>1, EndsHold
    <3>4. row[f.column] >= f.values[1].v BY <3>2, <3>3
    <3> QED BY <2>1, <3>1, <3>2, <3>4 DEF Passes
  <2>5. CASE f.op = "<"
    <3>1. InCkan!Seconds(f) = g("<=") BY <2>2, <2>5
    <3>2. row[f.column] # Null /\ row[f.column] < f.values[1].v BY <2>3, <2>5 DEF Passes
    <3>3. row[f.column] \in Int /\ f.values[1].v \in Int
      <4>1. Len(f.values) = 1 /\ DOMAIN f.values = 1..Len(f.values) BY <2>5, Shape
      <4> QED BY <1>1, <4>1, EndsHold
    <3>4. row[f.column] <= f.values[1].v BY <3>2, <3>3
    <3> QED BY <2>1, <3>1, <3>2, <3>4 DEF Passes
  <2>6. CASE f.op \notin {">", "<"}
    <3>1. InCkan!Seconds(f) = g(f.op) BY <2>2, <2>6
    <3> QED BY <2>1, <2>3, <3>1 DEF Passes
  <2> QED BY <2>4, <2>5, <2>6
<1> QED BY <1>2, <1>3

LEMMA CkanDatasets ==
  ASSUME Inv, pc = "start", Understood(req), InCkan!Here, ~InCkan!Refused,
         NEW F, F = InCkan!Searched \cup {f \in InCkan!Filters : InCkan!Exact(f)} \cup InCkan!Narrowed
  PROVE  /\ \A row \in held : Wanted(row) => \A f \in F : Passes(f, row)
         /\ InCkan!Consumed /\ req.limit # Null =>
              \A row \in Stored(Table) : row.is_row /\ (\A f \in F : Passes(f, row)) => Wanted(row)
<1>0. req \in Requests /\ held \subseteq Stored(Table) BY AtStart
<1>1. /\ InCkan!Filters = Filters /\ InCkan!Searched = EqOf("q", "string")
      /\ \A f : InCkan!Ups = Ups /\ InCkan!Downs = Downs
      /\ \A c : InCkan!FilterOn(c) = FilterOn(c)
  BY CkanReads DEF InCkan!Searched
<1>2. ASSUME NEW row \in held, Wanted(row), NEW f \in F PROVE Passes(f, row)
  <2>1. row \in Stored(Table) /\ \A g \in Filters : Passes(g, row) BY <1>0, <1>2 DEF Wanted
  <2>2. CASE f \in EqOf("q", "string") BY <2>1, <2>2, OfFilters
  <2>3. CASE f \in InCkan!Narrowed
    <3>1. PICK g \in Filters : \/ f = InCkan!Tagged(g) /\ g.column = "tags" /\ g.op \in {"=", "in"}
                               \/ f = InCkan!Seconds(g) /\ g.op \in Ups \cup Downs
      BY <1>1, <2>3 DEF InCkan!Narrowed
    <3> QED BY <1>0, <2>1, <3>1, CkanLoosens
  <2> QED BY <1>1, <2>1, <2>2, <2>3
<1>3. ASSUME InCkan!Consumed, req.limit # Null, NEW f \in Filters PROVE f \in F
  <2>1. f.column = "q" \/ InCkan!Exact(f) BY <1>1, <1>3 DEF InCkan!Consumed
  <2>2. CASE f.column = "q"
    <3>1. PICK g \in FilterOn(f.column) : TRUE BY <1>0, FirstThere
    <3>2. g \in Filters /\ g.column = f.column BY OfFilters
    <3>3. g.op = "=" BY <1>1, <2>2 DEF InCkan!Refused
    <3>4. f = g BY <1>3, <3>2, <3>3, Alone
    <3>5. Typed(f, "string") BY <2>2, LiteralsAre DEF Numeric, InCkan!Here
    <3> QED BY <1>0, <1>1, <1>3, <2>2, <3>3, <3>4, <3>5, EqThere
  <2>3. CASE InCkan!Exact(f) BY <1>1, <2>3
  <2> QED BY <2>1, <2>2, <2>3
<1> QED BY <1>2, <1>3 DEF Wanted

LEMMA CkanCompletes ==
  ASSUME Inv, InCkan!Next, UNCHANGED moves, withheld \subseteq withheld'
  PROVE  CompleteInv'
<1>0. req.schema = "datagov"
  BY DEF InCkan!Next, InCkan!ScanDatasets, InCkan!ScanResources, InCkan!ScanList, InCkan!Page, InCkan!Here
<1>1. ~InOneAnswer /\ OfOneList BY <1>0 DEF InOneAnswer, OfOneList
<1>2. CASE InCkan!ScanDatasets
  <2> DEFINE pushes == req.limit # Null /\ InCkan!SortMapped /\ InCkan!Consumed
             order == IF InCkan!SortMapped THEN req.order ELSE <<>>
             stop == IF pushes THEN WrappedStop ELSE Null
  <2>1. PICK F : F = InCkan!Searched \cup {f \in InCkan!Filters : InCkan!Exact(f)} \cup InCkan!Narrowed OBVIOUS
  <2>2. pc = "start" /\ InCkan!Here /\ ~InCkan!Refused /\ \E size : Ask(F, order, size, stop, FALSE)
    BY <1>2, <2>1, CkanCopies DEF InCkan!ScanDatasets
  <2>3. PICK size : Ask(F, order, size, stop, FALSE) BY <2>2
  <2>4. Understood(req) =>
          /\ \A row \in held : Wanted(row) => \A f \in F : Passes(f, row)
          /\ InCkan!Consumed /\ req.limit # Null =>
               \A row \in Stored(Table) : row.is_row /\ (\A f \in F : Passes(f, row)) => Wanted(row)
    BY <2>1, <2>2, CkanDatasets
  <2>5. stop # Null => InCkan!Consumed /\ order = req.order OBVIOUS
  <2>6. stop = Null \/ (req.limit # Null /\ stop = WrappedStop) OBVIOUS
  <2> HIDE DEF stop, order
  <2> QED BY <1>1, <2>2, <2>3, <2>4, <2>5, <2>6, SendCompletes
<1>3. CASE InCkan!ScanResources
  <2>1. PICK F : F = EqOf("q", "string") OBVIOUS
  <2>2. pc = "start" /\ Ask(F, <<>>, PageSize, Null, FALSE)
    BY <1>3, <2>1, CkanCopies, CkanReads DEF InCkan!ScanResources, InCkan!Searched
  <2>3. \A row \in held : Wanted(row) => \A f \in F : Passes(f, row) BY <2>1, OfFilters DEF Wanted
  <2> QED BY <1>1, <2>2, <2>3, SendCompletes
<1>4. CASE InCkan!ScanList
  <2>1. PICK F : F = {} OBVIOUS
  <2>2. pc = "start" /\ Ask(F, <<>>, MaxInt, Null, FALSE)
    BY <1>4, <2>1, CkanCopies DEF InCkan!ScanList, InCkan!Everything
  <2>3. \A row \in held : Wanted(row) => \A f \in F : Passes(f, row) BY <2>1
  <2> QED BY <1>1, <2>2, <2>3, SendCompletes
<1>5. CASE InCkan!Page
  <2> DEFINE kept == {i \in PageOf(asked.size) : listing[i].is_row}
  <2>1. /\ pc = "paging"
        /\ Advance(asked.size, Appended(kept), HasMore(asked.size), Capped)
    BY <1>5, CkanCopies DEF InCkan!Page
  <2>2. asked.size \in Nat BY <2>1, SizeIsNat
  <2> QED BY <1>1, <2>1, <2>2, PageCompletes
<1> QED BY <1>2, <1>3, <1>4, <1>5 DEF InCkan!Next

-----------------------------------------------------------------------------
(* Connectors that have all in one answer.                                   *)

\* An answer that leaves rows behind is as long as it was asked to be.
LEMMA PageCount ==
  ASSUME Inv, NEW size \in Nat
  PROVE  Cardinality(PageOf(size)) \in Nat
<1>1. Len(listing) \in Nat BY ListLength DEF Inv
<1>2. PageOf(size) \in SUBSET (1..Len(listing)) BY DEF PageOf
<1>3. 1 \in Int /\ Len(listing) \in Int BY <1>1
<1>4. IsFiniteSet(1..Len(listing)) BY ONLY <1>3, FS_Interval
<1> QED BY <1>2, <1>4, FS_Subset, FS_CardinalityType

LEMMA AnswerFull ==
  ASSUME Inv, pc = "paging", InOneAnswer
  PROVE  /\ ~warned
         /\ HasMore(asked.size) <=> asked.size < Len(listing)
         /\ HasMore(asked.size) => Cardinality(PageOf(asked.size)) = asked.size
         /\ ~Limits => asked.size = MaxRows \/ ~HasMore(asked.size) \/ req.schema = "jaeger"
         /\ asked.size \in Nat /\ Cardinality(PageOf(asked.size)) \in Nat /\ MaxRows \in Nat /\ Len(listing) \in Nat
<1>1. /\ next = 0 /\ ~warned /\ Len(listing) <= MaxInt
      /\ ~Limits => asked.size = MaxRows \/ asked.size = MaxInt \/ req.schema = "jaeger"
  BY DEF Inv, CompleteInv, ListInv, RowsAtOnce, place, InJaeger!Searches, InJaeger!On, InJaeger!Here
<1>2. Len(listing) \in Nat BY ListLength DEF Inv
<1>3. asked.size \in Nat /\ MaxInt \in Nat /\ MaxRows \in Nat BY SizeIsNat, SizeAssumption
<1>4. HasMore(asked.size) <=> asked.size < Len(listing) BY <1>1, <1>3 DEF HasMore
<1>5. ASSUME HasMore(asked.size) PROVE Cardinality(PageOf(asked.size)) = asked.size
  <2>1. \A i : i \in 1..Len(listing) /\ 0 < i /\ i <= 0 + asked.size <=> i \in 1..asked.size
    BY <1>2, <1>3, <1>4, <1>5
  <2>2. PageOf(asked.size) = 1..asked.size BY <1>1, <2>1 DEF PageOf
  <2>3. 1 \in Int /\ asked.size \in Int BY <1>3
  <2>4. Cardinality(1..asked.size) = IF 1 > asked.size THEN 0 ELSE asked.size - 1 + 1 BY ONLY <2>3, FS_Interval
  <2> QED BY <1>3, <2>2, <2>4
<1>6. Cardinality(PageOf(asked.size)) \in Nat BY <1>3, PageCount
<1>7. ~Limits => asked.size = MaxRows \/ ~HasMore(asked.size) \/ req.schema = "jaeger"
  BY <1>1, <1>2, <1>3, <1>4
<1> QED BY <1>1, <1>2, <1>3, <1>4, <1>5, <1>6, <1>7

LEMMA DockerCompletes ==
  ASSUME Inv, InDocker!Next, UNCHANGED moves, withheld \subseteq withheld'
  PROVE  CompleteInv'
<1>0. req.schema = "docker" BY DEF InDocker!Next, InDocker!Start, InDocker!Listed, InDocker!Here
<1>1. InOneAnswer /\ OfOneList BY <1>0 DEF InOneAnswer, OfOneList
<1>2. CASE InDocker!Start
  <2>1. PICK F : F = {} OBVIOUS
  <2>2. pc = "start" /\ Ask(F, <<>>, MaxInt, Null, TRUE)
    BY <1>2, <2>1, DockerCopies DEF InDocker!Start, InDocker!Everything
  <2>3. \A row \in held : Wanted(row) => \A f \in F : Passes(f, row) BY <2>1
  <2> QED BY <1>0, <1>1, <2>2, <2>3, SendCompletes DEF RowsAtOnce
<1>3. CASE InDocker!Listed
  <2>1. pc = "paging" /\ Answer(PageOf(asked.size), FALSE) BY <1>3, DockerCopies DEF InDocker!Listed
  <2>2. ~WillWarn BY <1>0, <1>1, <2>1, AnswerFull DEF WillWarn, InJaeger!Searches, InJaeger!On, InJaeger!Here
  <2>3. ~Limits => ~HasMore(asked.size)
    <3>1. ListInv BY <2>1 DEF Inv, CompleteInv
    <3> QED BY <1>0, <1>1, <2>1, <3>1, AnswerFull DEF ListInv, RowsAtOnce, InJaeger!Searches, InJaeger!On, InJaeger!Here
  <2> QED BY <1>1, <2>1, <2>2, <2>3, AnswerCompletes
<1> QED BY <1>2, <1>3 DEF InDocker!Next

LEMMA GitCompletes ==
  ASSUME Inv, InGit!Next, UNCHANGED moves, withheld \subseteq withheld'
  PROVE  CompleteInv'
<1>0. req.schema = "git" BY DEF InGit!Next, InGit!ScanCommits, InGit!ScanWhole, InGit!Output, InGit!Here
<1>1. InOneAnswer /\ OfOneList BY <1>0 DEF InOneAnswer, OfOneList
<1>2. CASE InGit!ScanCommits
  <2> DEFINE size == IF ~InGit!Pushes THEN MaxRows ELSE IF WrappedStop < 0 THEN InGit!Everything ELSE WrappedStop
             stop == IF InGit!Pushes THEN WrappedStop ELSE Null
  <2>1. PICK F : F = LastOn("ref", {"="}, "string") \cup LastOn("sha", {"="}, "string") OBVIOUS
  <2>2. pc = "start" /\ ~InGit!Refused /\ Ask(F, <<>>, size, stop, TRUE)
    BY <1>2, <2>1, GitCopies, GitReads DEF InGit!ScanCommits, InGit!Revision
  <2>3. \A row \in held : Wanted(row) => \A f \in F : Passes(f, row) BY <2>1, OfFilters DEF Wanted
  <2>4. ASSUME stop # Null
        PROVE  /\ req.limit # Null /\ stop = WrappedStop /\ req.order = <<>>
               /\ stop >= 0 => size = stop
               /\ \A f \in Filters : f.column \in {"ref", "sha"} /\ f.op = "=" /\ Typed(f, "string")
    <3>1. InGit!Pushes BY <2>4
    <3>2. \A f \in Filters : f.column \in {"ref", "sha"} /\ f.op = "=" /\ Typed(f, "string")
      BY <2>2, <3>1, GitReads DEF InGit!Pushes, InGit!Refused, InGit!Revisions
    <3>3. req \in Requests /\ req.limit # Null BY <3>1, AtStart DEF InGit!Pushes
    <3>4. stop >= 0 => size = stop
      <4>1. req.limit \in Nat /\ req.offset \in Nat \cup {Null} BY <3>3, RequestAssumption
      <4>2. WrappedStop \in Int BY <3>3, <4>1, SizeAssumption DEF WrappedStop, StopAt
      <4> QED BY <3>1, <4>2
    <3> QED BY <3>1, <3>2, <3>3, <3>4 DEF InGit!Pushes
  <2>5. stop = Null => size = MaxRows \/ (WrappedStop = Null /\ InGit!Pushes) OBVIOUS
  <2>6. ASSUME stop # Null, Understood(req), req.limit # Null, NEW f \in Filters PROVE f \in F
    <3>1. f.column \in {"ref", "sha"} /\ f.op = "=" /\ Typed(f, "string") BY <2>4, <2>6
    <3>2. f \in LastOn(f.column, {"="}, "string") BY <2>6, <3>1, AtStart, BoundThere
    <3> QED BY <2>1, <3>1, <3>2
  <2>7. stop = Null => size = MaxRows
    <3>1. ASSUME InGit!Pushes PROVE WrappedStop # Null
      <4>1. req \in Requests /\ req.limit # Null BY <3>1, AtStart DEF InGit!Pushes
      <4> QED BY <4>1, StopIsInt, NullAssumption
    <3> QED BY <3>1
  <2> HIDE DEF size, stop
  <2> QED BY <1>0, <1>1, <2>2, <2>3, <2>4, <2>6, <2>7, SendCompletes DEF Wanted, RowsAtOnce
<1>3. CASE InGit!ScanWhole
  <2>1. PICK F : F = {} OBVIOUS
  <2>2. pc = "start" /\ Ask(F, <<>>, MaxRows, Null, TRUE) BY <1>3, <2>1, GitCopies DEF InGit!ScanWhole
  <2>3. \A row \in held : Wanted(row) => \A f \in F : Passes(f, row) BY <2>1
  <2> QED BY <1>0, <1>1, <2>2, <2>3, SendCompletes DEF RowsAtOnce
<1>4. CASE InGit!Output
  <2>1. pc = "paging" /\ Answer(PageOf(asked.size), ~Limits /\ HasMore(asked.size))
    BY <1>4, GitCopies, GitReads DEF InGit!Output
  <2>2. ~WillWarn BY <1>0, <1>1, <2>1, AnswerFull DEF WillWarn, InJaeger!Searches, InJaeger!On, InJaeger!Here
  <2>3. PICK w \in BOOLEAN : w <=> (~Limits /\ HasMore(asked.size)) OBVIOUS
  <2>4. Answer(PageOf(asked.size), w) BY <2>1, <2>3
  <2> QED BY <1>1, <2>1, <2>2, <2>3, <2>4, AnswerCompletes
<1> QED BY <1>2, <1>3, <1>4 DEF InGit!Next

LEMMA PostgresOrders ==
  ASSUME req \in Requests, InPostgres!OrderOK
  PROVE  InPostgres!Ordered = req.order
<1>1. req.order \in Seq({req.order[i] : i \in DOMAIN req.order}) BY FilterAssumption
<1>2. PICK o, S : o = req.order /\ o \in Seq(S) BY <1>1
<1>3. Len(o) \in Nat /\ DOMAIN o = 1..Len(o) BY <1>2
<1>4. {n \in 0..Len(o) : \A i \in 1..n : o[i].column \in OrderSafe} = 0..Len(o)
  <2>1. \A i \in 1..Len(o) : o[i].column \in OrderSafe BY <1>2, <1>3 DEF InPostgres!OrderOK
  <2>2. ASSUME NEW n \in 0..Len(o), NEW i \in 1..n PROVE i \in 1..Len(o) BY <1>3
  <2> QED BY <2>1, <2>2
<1>5. InPostgres!Max(0..Len(o)) = Len(o)
  <2>1. PICK T : T = 0..Len(o) OBVIOUS
  <2>2. Len(o) \in T /\ \A x \in T : x \in Int /\ Len(o) >= x BY <1>3, <2>1
  <2>3. InPostgres!Max(T) \in T /\ \A x \in T : InPostgres!Max(T) >= x BY <2>2 DEF InPostgres!Max
  <2>4. PICK m : m = InPostgres!Max(T) OBVIOUS
  <2>5. m \in Int /\ m >= Len(o) /\ Len(o) >= m BY <2>2, <2>3, <2>4
  <2> QED BY <1>3, <2>1, <2>4, <2>5
<1>6. InPostgres!Ordered = SubSeq(o, 1, Len(o)) BY <1>2, <1>4, <1>5 DEF InPostgres!Ordered
<1>7. SubSeq(o, 1, Len(o)) = o BY <1>2
<1> QED BY <1>2, <1>6, <1>7

LEMMA PostgresCompletes ==
  ASSUME Inv, InPostgres!Next, UNCHANGED moves, withheld \subseteq withheld'
  PROVE  CompleteInv'
<1>0. req.schema = "postgres" BY DEF InPostgres!Next, InPostgres!Scan, InPostgres!Rows, InPostgres!Here
<1>1. InOneAnswer /\ OfOneList BY <1>0 DEF InOneAnswer, OfOneList
<1>2. CASE InPostgres!Scan
  <2> DEFINE order == IF InPostgres!PushLimit THEN InPostgres!Ordered ELSE <<>>
             size == IF InPostgres!PushLimit THEN WrappedStop ELSE MaxRows
             stop == IF InPostgres!PushLimit THEN WrappedStop ELSE Null
  <2>1. PICK F : F = {f \in Filters : InPostgres!Translated(f)} OBVIOUS
  <2>2. pc = "start" /\ Ask(F, order, size, stop, TRUE)
    BY <1>2, <2>1, PostgresCopies, PostgresReads DEF InPostgres!Scan
  <2>3. \A row \in held : Wanted(row) => \A f \in F : Passes(f, row) BY <2>1 DEF Wanted
  <2>4. req \in Requests BY AtStart
  <2>5. ASSUME InPostgres!PushLimit
        PROVE  req.limit # Null /\ WrappedStop # Null /\ order = req.order /\ \A f \in Filters : f \in F
    <3>1. req.limit # Null /\ InPostgres!OrderOK /\ InPostgres!ConsumedAll BY <2>5 DEF InPostgres!PushLimit
    <3>2. WrappedStop # Null BY <2>4, <3>1, StopIsInt, NullAssumption
    <3>3. order = req.order BY <2>4, <2>5, <3>1, PostgresOrders
    <3> QED BY <2>1, <3>1, <3>2, <3>3, PostgresReads DEF InPostgres!ConsumedAll
  <2>6. /\ stop = Null => size = MaxRows
        /\ stop # Null => InPostgres!PushLimit /\ size = stop /\ stop = WrappedStop
    BY <2>5
  <2> HIDE DEF order, size, stop
  <2> QED BY <1>0, <1>1, <2>2, <2>3, <2>5, <2>6, SendCompletes DEF Wanted, RowsAtOnce
<1>3. CASE InPostgres!Rows
  <2>1. \A A : InPostgres!Cardinality(A) = Cardinality(A) BY DEF InPostgres!Cardinality, Cardinality
  <2>2. PICK w \in BOOLEAN : w <=> (~Limits /\ Cardinality(PageOf(asked.size)) >= MaxRows) OBVIOUS
  <2>3. pc = "paging" /\ Answer(PageOf(asked.size), w)
    BY <1>3, <2>1, <2>2, PostgresCopies, PostgresReads DEF InPostgres!Rows
  <2>4. ~WillWarn BY <1>0, <1>1, <2>3, AnswerFull DEF WillWarn, InJaeger!Searches, InJaeger!On, InJaeger!Here
  <2>5. ASSUME ~w, ~Limits PROVE ~HasMore(asked.size)
    <3>1. ~(Cardinality(PageOf(asked.size)) >= MaxRows) BY <2>2, <2>5
    <3>2. SUFFICES ASSUME HasMore(asked.size) PROVE FALSE OBVIOUS
    <3>3. asked.size = MaxRows /\ Cardinality(PageOf(asked.size)) = asked.size /\ asked.size \in Nat
      BY <1>0, <1>1, <2>3, <2>5, <3>2, AnswerFull
    <3> QED BY <3>1, <3>3
  <2> QED BY <1>1, <2>3, <2>4, <2>5, AnswerCompletes
<1> QED BY <1>2, <1>3 DEF InPostgres!Next

-----------------------------------------------------------------------------
(* Jaeger.                                                                  *)

LEMMA JaegerLoosens ==
  ASSUME Inv, InJaeger!On("spans"), Understood(req), InJaeger!LowerBound,
         NEW row \in held, Wanted(row),
         NEW F, F = InJaeger!EqOf("service_name", "string") \cup InJaeger!EqOf("operation_name", "string")
                      \cup InJaeger!Duration \cup {InJaeger!At(">=", v) : v \in InJaeger!Earliest}
                      \cup {InJaeger!At("<=", v) : v \in InJaeger!Latest}
  PROVE  \A f \in F : Passes(f, row)
<1>0. req \in Requests /\ row \in Stored(Table) /\ \A f \in Filters : Passes(f, row) BY AtStart DEF Wanted
<1>1. /\ \A c, t : InJaeger!EqOf(c, t) = EqOf(c, t)
      /\ InJaeger!Since = {Shift(From(f), -Slack) : f \in LastOn("start_time", Ups, "string")}
      /\ InJaeger!Until = {Shift(To(f), Slack) : f \in LastOn("start_time", Downs, "string")}
      /\ InJaeger!Duration = {Bound(f, ">=", From(f)) : f \in LastOn("duration_ms", Ups, "int64")}
                               \cup {Bound(f, "<=", To(f)) : f \in LastOn("duration_ms", Downs, "int64")}
      /\ InJaeger!Filters = Filters /\ InJaeger!Ups = Ups
  BY JaegerReads DEF InJaeger!Since, InJaeger!Until, InJaeger!Duration
<1>2. Slack \in Nat /\ Now \in Nat BY SizeAssumption
<1>3. row.start_time \in Int /\ row.start_time <= Now BY <1>0, RowAssumption DEF InJaeger!On, InJaeger!Here, Table
<1>4. Null \notin Int BY NullAssumption
<1>5. InJaeger!Since # {}
  <2>1. PICK f \in Filters : f.column = "start_time" /\ f.op \in Ups BY <1>1 DEF InJaeger!LowerBound
  <2>2. Typed(f, "string") BY <2>1, LiteralsAre DEF Numeric, InJaeger!On, InJaeger!Here
  <2>3. \E g \in LastOn("start_time", Ups, "string") : TRUE BY <1>0, <2>1, <2>2, LastThere
  <2> QED BY <1>1, <2>3
<1>6. ASSUME NEW f \in InJaeger!EqOf("service_name", "string") \cup InJaeger!EqOf("operation_name", "string")
      PROVE  Passes(f, row)
  BY <1>0, <1>1, OfFilters
<1>7. ASSUME NEW f \in InJaeger!Duration PROVE Passes(f, row) BY <1>0, <1>1, LoosensAt
<1>8. ASSUME NEW v \in InJaeger!Earliest PROVE Passes(InJaeger!At(">=", v), row)
  <2>1. v \in InJaeger!Since BY <1>5 DEF InJaeger!Earliest
  <2>2. PICK f \in LastOn("start_time", Ups, "string") : v = Shift(From(f), -Slack) BY <1>1, <2>1
  <2>3. f \in Filters /\ f.column = "start_time" /\ f.op \in Ups BY OfFilters
  <2>4. From(f).v \in Int /\ From(f).v <= row["start_time"] BY <1>0, <2>3, EndsHold
  <2>5. v.v = From(f).v + (-Slack)
    <3>1. -Slack \in Int BY <1>2
    <3> QED BY <1>0, <2>2, <2>3, <3>1, ShiftIs
  <2>6. row["start_time"] >= v.v /\ row["start_time"] # Null BY <1>2, <1>3, <1>4, <2>4, <2>5
  <2> QED BY <2>6, AtBound DEF InJaeger!At
<1>9. ASSUME NEW v \in InJaeger!Latest PROVE Passes(InJaeger!At("<=", v), row)
  <2>1. row["start_time"] <= v.v /\ row["start_time"] # Null
    <3>1. CASE InJaeger!Until # {}
      <4>1. PICK f \in LastOn("start_time", Downs, "string") : v = Shift(To(f), Slack)
        BY <1>1, <3>1 DEF InJaeger!Latest
      <4>2. f \in Filters /\ f.column = "start_time" /\ f.op \in Downs BY OfFilters
      <4>3. To(f).v \in Int /\ row["start_time"] <= To(f).v BY <1>0, <4>2, EndsHold
      <4>4. v.v = To(f).v + Slack BY <1>0, <1>2, <4>1, <4>2, ShiftIs
      <4> QED BY <1>2, <1>3, <1>4, <4>3, <4>4
    <3>2. CASE InJaeger!Until = {}
      <4>1. v = InJaeger!Text(Now) BY <3>2 DEF InJaeger!Latest
      <4>2. v.v = Now BY <4>1 DEF InJaeger!Text
      <4> QED BY <1>3, <1>4, <4>2
    <3> QED BY <3>1, <3>2
  <2> QED BY <2>1, AtBound DEF InJaeger!At
<1> QED BY <1>6, <1>7, <1>8, <1>9

LEMMA JaegerCompletes ==
  ASSUME Inv, InJaeger!Next, UNCHANGED moves, withheld' = withheld \cup Withheld
  PROVE  CompleteInv'
<1>0. req.schema = "jaeger"
  BY DEF InJaeger!Next, InJaeger!GetTrace, InJaeger!SearchTraces, InJaeger!Searches, InJaeger!ScanServices,
         InJaeger!ScanOperations, InJaeger!Decode, InJaeger!Here, InJaeger!On
<1>1. InOneAnswer /\ OfOneList BY <1>0 DEF InOneAnswer, OfOneList
<1>2. ASSUME NEW F, F \subseteq Filters, pc = "start", Ask(F, <<>>, MaxInt, Null, TRUE) PROVE CompleteInv'
  <2>1. \A row \in held : Wanted(row) => \A f \in F : Passes(f, row) BY <1>2 DEF Wanted
  <2> QED BY <1>0, <1>1, <1>2, <2>1, SendCompletes DEF RowsAtOnce
<1>3. \A c, t : InJaeger!EqOf(c, t) \subseteq Filters BY JaegerReads, OfFilters
<1>4. CASE InJaeger!GetTrace
  <2>1. PICK F : F = InJaeger!EqOf("trace_id", "string") OBVIOUS
  <2> QED BY <1>2, <1>3, <1>4, <2>1, JaegerCopies DEF InJaeger!GetTrace, InJaeger!Everything
<1>5. CASE InJaeger!SearchTraces
  <2>1. PICK F : F = InJaeger!EqOf("service_name", "string") \cup InJaeger!EqOf("operation_name", "string")
                      \cup InJaeger!Duration \cup {InJaeger!At(">=", v) : v \in InJaeger!Earliest}
                      \cup {InJaeger!At("<=", v) : v \in InJaeger!Latest}
    OBVIOUS
  <2>2. PICK size \in {0, MaxRows} : pc = "start" /\ InJaeger!Searches /\ Ask(F, <<>>, size, Null, TRUE)
    BY <1>5, <2>1, JaegerCopies DEF InJaeger!SearchTraces
  <2>3. Understood(req) =>
          \/ InJaeger!Searches /\ ~InJaeger!LowerBound
          \/ \A row \in held : Wanted(row) => \A f \in F : Passes(f, row)
    BY <1>0, <2>1, <2>2, JaegerLoosens DEF InJaeger!Searches
  <2>4. RowsAtOnce(size) BY <2>2 DEF RowsAtOnce
  <2> QED BY <1>0, <1>1, <2>2, <2>3, <2>4, SendCompletes
<1>6. CASE InJaeger!ScanServices
  <2>1. PICK F : F = {} OBVIOUS
  <2>2. F \subseteq Filters BY <2>1
  <2>3. pc = "start" /\ Ask(F, <<>>, MaxInt, Null, TRUE)
    BY <1>6, <2>1, JaegerCopies DEF InJaeger!ScanServices, InJaeger!Everything
  <2> QED BY <1>2, <2>2, <2>3
<1>7. CASE InJaeger!ScanOperations
  <2>1. PICK F : F = InJaeger!EqOf("service_name", "string") \cup InJaeger!EqOf("span_kind", "string") OBVIOUS
  <2>2. F \subseteq Filters BY <1>3, <2>1
  <2> QED BY <1>2, <1>7, <2>1, <2>2, JaegerCopies DEF InJaeger!ScanOperations, InJaeger!Everything
<1>8. CASE InJaeger!Decode
  <2>1. \A A : InJaeger!Cardinality(A) = Cardinality(A) BY DEF InJaeger!Cardinality, Cardinality
  <2>2. PICK size \in InJaeger!Sends, w \in BOOLEAN :
          /\ w <=> InJaeger!Searches /\ (~InJaeger!LowerBound \/ InJaeger!LooksCut(Cardinality(PageOf(size))))
          /\ pc = "paging" /\ AnswerOf(size, PageOf(size), w)
    <3>1. PICK size \in InJaeger!Sends :
            /\ pc = "paging"
            /\ AnswerOf(size, PageOf(size), InJaeger!Searches /\ (~InJaeger!LowerBound \/ InJaeger!LooksCut(Cardinality(PageOf(size)))))
      BY <1>8, <2>1, JaegerCopies DEF InJaeger!Decode
    <3>2. PICK w \in BOOLEAN :
            w <=> InJaeger!Searches /\ (~InJaeger!LowerBound \/ InJaeger!LooksCut(Cardinality(PageOf(size))))
      OBVIOUS
    <3>3. w = (InJaeger!Searches /\ (~InJaeger!LowerBound \/ InJaeger!LooksCut(Cardinality(PageOf(size)))))
      BY <3>2 DEF InJaeger!Searches, InJaeger!On, InJaeger!Here, InJaeger!LowerBound, InJaeger!LooksCut
    <3> QED BY <3>1, <3>2, <3>3
  <2>3. /\ asked.size \in Nat /\ MaxRows \in Nat \ {0} /\ MaxInt \in Nat \ {0} /\ WarnTraces \in Nat
        /\ Len(listing) \in Nat
    BY <2>2, SizeIsNat, SizeAssumption, WarnAssumption, ListLength DEF Inv
  <2>4. size \in Nat /\ (asked.size # 0 => size = asked.size)
    BY <2>2, <2>3 DEF InJaeger!Sends, InJaeger!Everything
  <2>5. /\ ~Limits /\ ~warned /\ next = 0 /\ sent = 0 /\ Len(listing) <= MaxInt /\ RowsAtOnce(asked.size)
    BY <1>0, <1>1, <2>2 DEF Inv, CompleteInv, ListInv, place
  <2>6. ~w => ~WillWarn BY <1>0, <2>2, <2>5 DEF WillWarn
  <2>7. ASSUME ~w, HasMore(size) PROVE Behind(next + size) \subseteq withheld'
    <3>1. Cardinality(PageOf(size)) \in Nat BY <2>4, PageCount
    <3>2. asked.size # MaxInt BY <2>3, <2>4, <2>5, <2>7 DEF HasMore
    <3>3. InJaeger!Searches /\ asked.size \in {0, MaxRows} BY <1>0, <2>5, <3>2 DEF RowsAtOnce
    <3>4. ~InJaeger!LooksCut(Cardinality(PageOf(size))) BY <2>2, <2>7, <3>3
    <3>5. CASE asked.size = 0
      <4>1. Cardinality(PageOf(size)) < WarnTraces BY <2>3, <3>1, <3>4, <3>5 DEF InJaeger!LooksCut
      <4>2. sent' < WarnTraces /\ next' = next + size
        <5>1. sent' = 0 + Cardinality(PageOf(size)) /\ next' = next + size BY <2>2, <2>5 DEF AnswerOf, Emit, Turn
        <5> QED BY <3>1, <4>1, <5>1
      <4>3. Withheld = Behind(next + size) BY <1>0, <2>2, <3>5, <4>2 DEF Withheld
      <4> QED BY <4>3
    <3>6. CASE asked.size = MaxRows
      <4>1. size = asked.size /\ asked.size # 0 BY <2>3, <2>4, <3>6
      <4>2. Cardinality(PageOf(size)) = size BY <1>1, <2>2, <2>7, <4>1, AnswerFull
      <4>3. ~(size >= size) BY <3>4, <4>1, <4>2 DEF InJaeger!LooksCut
      <4> QED BY <2>4, <4>3
    <3> QED BY <3>3, <3>5, <3>6
  <2>8. withheld \subseteq withheld' OBVIOUS
  <2> QED BY <1>1, <2>2, <2>4, <2>5, <2>6, <2>7, <2>8, AnswerOfCompletes
<1> QED BY <1>4, <1>5, <1>6, <1>7, <1>8 DEF InJaeger!Next

-----------------------------------------------------------------------------
(* New Relic.                                                               *)

LEMMA FiltersFinite ==
  ASSUME req \in Requests PROVE IsFiniteSet(Filters)
<1>1. IsFiniteSet(DOMAIN req.filters) BY Shape
<1>2. req.filters \in Seq({req.filters[i] : i \in DOMAIN req.filters}) BY FilterAssumption
<1>3. PICK f, S : f = req.filters /\ f \in Seq(S) BY <1>2
<1>4. f = [i \in DOMAIN f |-> f[i]] BY <1>3
<1>5. IsFiniteSet({f[i] : i \in DOMAIN f}) BY <1>1, <1>3, <1>4, ImageFinite
<1> QED BY <1>3, <1>5 DEF Filters

LEMMA ValuesFinite ==
  ASSUME req \in Requests, NEW f \in Filters
  PROVE  /\ IsFiniteSet({f.values[i].v : i \in DOMAIN f.values})
         /\ {f.values[i].v : i \in DOMAIN f.values} \subseteq Int /\ {f.values[i].v : i \in DOMAIN f.values} # {}
<1> PICK n : n = Len(f.values) OBVIOUS
<1>1. DOMAIN f.values = 1..n /\ n \in Nat /\ n >= 1 /\ \A j \in 1..n : f.values[j].v \in Int BY Shape
<1> DEFINE g == [i \in 1..n |-> f.values[i].v]
<1>2. DOMAIN g = 1..n /\ g = [i \in DOMAIN g |-> g[i]] /\ \A i \in 1..n : g[i] = f.values[i].v OBVIOUS
<1> HIDE DEF g
<1>3. IsFiniteSet(1..n)
  <2>1. 1 \in Int /\ n \in Int BY <1>1
  <2> QED BY ONLY <2>1, FS_Interval
<1>4. IsFiniteSet({g[i] : i \in DOMAIN g}) BY <1>2, <1>3, ImageFinite
<1>5. {g[i] : i \in DOMAIN g} = {f.values[i].v : i \in DOMAIN f.values} BY <1>1, <1>2
<1>6. 1 \in DOMAIN f.values BY <1>1
<1> QED BY <1>1, <1>4, <1>5, <1>6

\* A set of numbers, one for each of some filters.
LEMMA OnePerFilter ==
  ASSUME req \in Requests, NEW D \in SUBSET Filters, NEW g, DOMAIN g = D, g = [f \in D |-> g[f]]
  PROVE  IsFiniteSet({g[f] : f \in D})
<1>1. IsFiniteSet(D) BY FiltersFinite, FS_Subset
<1> QED BY <1>1, ImageFinite

LEMMA EndsFinite ==
  ASSUME req \in Requests, NEW ops, NEW i
  PROVE  /\ IsFiniteSet(InNewRelic!Ends(ops, i))
         /\ \A x \in InNewRelic!Ends(ops, i) :
              \E f \in Filters : f.column = "timestamp" /\ f.op \in ops /\ x = f.values[i].v
<1> DEFINE D == {g \in InNewRelic!OnTime(ops) : InNewRelic!IsNumber(g.values[i])}
           g == [f \in D |-> f.values[i].v]
<1>1. D \in SUBSET Filters /\ \A f \in D : f.column = "timestamp" /\ f.op \in ops
  BY NewRelicReads DEF InNewRelic!OnTime
<1>2. InNewRelic!Ends(ops, i) = {f.values[i].v : f \in D} BY DEF InNewRelic!Ends
<1> HIDE DEF D
<1>3. DOMAIN g = D /\ g = [f \in D |-> g[f]] OBVIOUS
<1>4. {g[f] : f \in D} = {f.values[i].v : f \in D} OBVIOUS
<1> HIDE DEF g
<1>5. IsFiniteSet({g[f] : f \in D}) BY <1>1, <1>3, OnePerFilter
<1> QED BY <1>1, <1>2, <1>4, <1>5

LEMMA ListedFinite ==
  ASSUME req \in Requests
  PROVE  /\ IsFiniteSet(InNewRelic!Listed)
         /\ \A vs \in InNewRelic!Listed :
              \E f \in Filters : f.column = "timestamp" /\ f.op = "in" /\ vs = {f.values[i].v : i \in DOMAIN f.values}
<1> DEFINE D == {g \in InNewRelic!OnTime({"in"}) : \A i \in DOMAIN g.values : InNewRelic!IsNumber(g.values[i])}
           g == [f \in D |-> {f.values[i].v : i \in DOMAIN f.values}]
<1>1. D \in SUBSET Filters /\ \A f \in D : f.column = "timestamp" /\ f.op = "in"
  BY NewRelicReads DEF InNewRelic!OnTime
<1>2. InNewRelic!Listed = {{f.values[i].v : i \in DOMAIN f.values} : f \in D} BY DEF InNewRelic!Listed
<1> HIDE DEF D
<1>3. DOMAIN g = D /\ g = [f \in D |-> g[f]] OBVIOUS
<1>4. {g[f] : f \in D} = {{f.values[i].v : i \in DOMAIN f.values} : f \in D} OBVIOUS
<1> HIDE DEF g
<1>5. IsFiniteSet({g[f] : f \in D}) BY <1>1, <1>3, OnePerFilter
<1> QED BY <1>1, <1>2, <1>4, <1>5

\* Every row that passes the filters is between the ends gathered.
LEMMA BetweenEnds ==
  ASSUME req \in Requests, NEW row \in Stored(Table), \A f \in Filters : Passes(f, row)
  PROVE  /\ IsFiniteSet(InNewRelic!Lowers) /\ IsFiniteSet(InNewRelic!Uppers)
         /\ \A x \in InNewRelic!Lowers : x \in Int /\ row["timestamp"] \in Int /\ x <= row["timestamp"]
         /\ \A x \in InNewRelic!Uppers : x \in Int /\ row["timestamp"] \in Int /\ row["timestamp"] <= x
<1> PICK cell : cell = row["timestamp"] OBVIOUS
<1> DEFINE mins == [vs \in InNewRelic!Listed |-> InNewRelic!Min(vs)]
           maxs == [vs \in InNewRelic!Listed |-> InNewRelic!Max(vs)]
<1>1. IsFiniteSet({mins[vs] : vs \in DOMAIN mins}) /\ IsFiniteSet({maxs[vs] : vs \in DOMAIN maxs})
  <2>1. DOMAIN mins = InNewRelic!Listed /\ mins = [vs \in DOMAIN mins |-> mins[vs]] OBVIOUS
  <2>2. DOMAIN maxs = InNewRelic!Listed /\ maxs = [vs \in DOMAIN maxs |-> maxs[vs]] OBVIOUS
  <2> HIDE DEF mins, maxs
  <2> QED BY <2>1, <2>2, ListedFinite, ImageFinite
<1>2. /\ {mins[vs] : vs \in DOMAIN mins} = {InNewRelic!Min(vs) : vs \in InNewRelic!Listed}
      /\ {maxs[vs] : vs \in DOMAIN maxs} = {InNewRelic!Max(vs) : vs \in InNewRelic!Listed}
  OBVIOUS
<1> HIDE DEF mins, maxs
<1>3. IsFiniteSet(InNewRelic!Lowers)
  BY <1>1, <1>2, EndsFinite, FS_Union DEF InNewRelic!Lowers
<1>4. IsFiniteSet(InNewRelic!Uppers)
  <2>1. IsFiniteSet(InNewRelic!Ends({"<", "<=", "="}, 1) \cup InNewRelic!Ends({"between"}, 2)) BY EndsFinite, FS_Union
  <2> QED BY <1>1, <1>2, <2>1, FS_Union DEF InNewRelic!Uppers
<1>5. ASSUME NEW vs \in InNewRelic!Listed
      PROVE  /\ cell \in Int /\ InNewRelic!Min(vs) \in Int /\ InNewRelic!Min(vs) <= cell
             /\ InNewRelic!Max(vs) \in Int /\ cell <= InNewRelic!Max(vs)
  <2>1. PICK f \in Filters : f.column = "timestamp" /\ f.op = "in" /\ vs = {f.values[i].v : i \in DOMAIN f.values}
    BY ListedFinite
  <2>2. cell \in vs BY <2>1 DEF Passes
  <2>3. IsFiniteSet(vs) /\ vs \subseteq Int /\ vs # {} BY <2>1, ValuesFinite
  <2>4. InNewRelic!Min(vs) = Min(vs) /\ InNewRelic!Max(vs) = Max(vs)
    BY DEF InNewRelic!Min, Min, InNewRelic!Max, Max
  <2> QED BY <2>2, <2>3, <2>4, MaxMin
<1>6. ASSUME NEW x \in InNewRelic!Lowers PROVE x \in Int /\ cell \in Int /\ x <= cell
  <2>1. CASE x \in InNewRelic!Ends({">", ">=", "=", "between"}, 1)
    <3>1. PICK f \in Filters : f.column = "timestamp" /\ f.op \in {">", ">=", "=", "between"} /\ x = f.values[1].v
      BY <2>1, EndsFinite
    <3> PICK n : n = Len(f.values) OBVIOUS
    <3>2. /\ DOMAIN f.values = 1..n /\ n \in Nat /\ n >= 1 /\ \A j \in 1..n : f.values[j].v \in Int
          /\ f.op = "=" => n = 1
      BY Shape
    <3>3. cell \in Int BY <3>1, EndsHold
    <3>4. f.values[1].v \in Int BY <3>2
    <3>5. Passes(f, row) OBVIOUS
    <3>6. CASE f.op = ">" BY <3>1, <3>3, <3>4, <3>5, <3>6 DEF Passes
    <3>7. CASE f.op = ">=" BY <3>1, <3>3, <3>4, <3>5, <3>7 DEF Passes
    <3>8. CASE f.op = "=" BY <3>1, <3>2, <3>3, <3>4, <3>5, <3>8 DEF Passes
    <3>9. CASE f.op = "between" BY <3>1, <3>3, <3>4, <3>5, <3>9 DEF Passes
    <3> QED BY <3>1, <3>6, <3>7, <3>8, <3>9
  <2>2. CASE x \in {InNewRelic!Min(vs) : vs \in InNewRelic!Listed} BY <1>5, <2>2
  <2> QED BY <2>1, <2>2 DEF InNewRelic!Lowers
<1>7. ASSUME NEW x \in InNewRelic!Uppers PROVE x \in Int /\ cell \in Int /\ cell <= x
  <2>1. CASE x \in InNewRelic!Ends({"<", "<=", "="}, 1)
    <3>1. PICK f \in Filters : f.column = "timestamp" /\ f.op \in {"<", "<=", "="} /\ x = f.values[1].v
      BY <2>1, EndsFinite
    <3> PICK n : n = Len(f.values) OBVIOUS
    <3>2. DOMAIN f.values = 1..n /\ n = 1 /\ \A j \in 1..n : f.values[j].v \in Int BY <3>1, Shape
    <3>3. cell \in Int BY <3>1, EndsHold
    <3>4. f.values[1].v \in Int BY <3>2
    <3>5. Passes(f, row) OBVIOUS
    <3>6. CASE f.op = "<" BY <3>1, <3>3, <3>4, <3>5, <3>6 DEF Passes
    <3>7. CASE f.op = "<=" BY <3>1, <3>3, <3>4, <3>5, <3>7 DEF Passes
    <3>8. CASE f.op = "=" BY <3>1, <3>2, <3>3, <3>4, <3>5, <3>8 DEF Passes
    <3> QED BY <3>1, <3>6, <3>7, <3>8
  <2>2. CASE x \in InNewRelic!Ends({"between"}, 2)
    <3>1. PICK f \in Filters : f.column = "timestamp" /\ f.op = "between" /\ x = f.values[2].v BY <2>2, EndsFinite
    <3>2. DOMAIN f.values = 1..2 /\ \A j \in 1..2 : f.values[j].v \in Int
      <4> PICK n : n = Len(f.values) OBVIOUS
      <4>1. DOMAIN f.values = 1..n /\ n = 2 /\ \A j \in 1..n : f.values[j].v \in Int BY <3>1, Shape
      <4> QED BY <4>1
    <3>3. cell \in Int /\ f.values[2].v \in Int BY <3>1, <3>2, EndsHold
    <3>4. Passes(f, row) OBVIOUS
    <3> QED BY <3>1, <3>3, <3>4 DEF Passes
  <2>3. CASE x \in {InNewRelic!Max(vs) : vs \in InNewRelic!Listed} BY <1>5, <2>3
  <2> QED BY <2>1, <2>2, <2>3 DEF InNewRelic!Uppers
<1> QED BY <1>3, <1>4, <1>6, <1>7

LEMMA InClauses ==
  ASSUME req \in Requests, ~InNewRelic!Windowed, NEW row \in Stored(Table), \A f \in Filters : Passes(f, row),
         NEW f \in InNewRelic!Clauses
  PROVE  Passes(f, row)
<1> PICK cell, lo, hi : cell = row["timestamp"] /\ lo = InNewRelic!Lowers /\ hi = InNewRelic!Uppers OBVIOUS
<1>1. /\ IsFiniteSet(lo) /\ IsFiniteSet(hi) /\ lo # {}
      /\ \A x \in lo : x \in Int /\ cell \in Int /\ x <= cell
      /\ \A x \in hi : x \in Int /\ cell \in Int /\ cell <= x
  BY BetweenEnds DEF InNewRelic!Windowed
<1>2. lo \subseteq Int /\ hi \subseteq Int BY <1>1
<1>3. InNewRelic!Max(lo) = Max(lo) /\ InNewRelic!Min(hi) = Min(hi)
  BY DEF InNewRelic!Max, Max, InNewRelic!Min, Min
<1>4. cell # Null BY <1>1, NullAssumption
<1>5. CASE f \in Filters BY <1>5
<1>6. CASE f = InNewRelic!At(">=", InNewRelic!Since)
  <2>1. PICK m : m = Max(lo) OBVIOUS
  <2>2. m \in Int /\ m <= cell /\ cell \in Int BY <1>1, <1>2, <2>1, MaxMin
  <2>3. InNewRelic!Since = m - 1 BY <1>1, <1>3, <2>1 DEF InNewRelic!Since
  <2>4. cell >= m - 1 BY <2>2
  <2> QED BY <1>4, <1>6, <2>3, <2>4 DEF InNewRelic!At, InNewRelic!Number, Passes
<1>7. CASE f \in {InNewRelic!At("<=", v) : v \in InNewRelic!Until}
  <2>1. hi # {} /\ f = InNewRelic!At("<=", Min(hi) + 1) BY <1>3, <1>7 DEF InNewRelic!Until
  <2>2. PICK m : m = Min(hi) OBVIOUS
  <2>3. m \in Int /\ cell <= m /\ cell \in Int BY <1>1, <1>2, <2>1, <2>2, MaxMin
  <2>4. cell <= m + 1 BY <2>3
  <2> QED BY <1>4, <2>1, <2>2, <2>4 DEF InNewRelic!At, InNewRelic!Number, Passes
<1> QED BY <1>5, <1>6, <1>7, NewRelicReads DEF InNewRelic!Clauses

LEMMA NewRelicCompletes ==
  ASSUME Inv, InNewRelic!Next, UNCHANGED moves, withheld \subseteq withheld'
  PROVE  CompleteInv'
<1>0. req.schema = "newrelic" /\ OfOneList
  <2>1. req.schema = "newrelic"
    BY DEF InNewRelic!Next, InNewRelic!ScanCurated, InNewRelic!Page, InNewRelic!ScanNRDB, InNewRelic!Results,
           InNewRelic!Curated, InNewRelic!Here
  <2> QED BY <2>1 DEF OfOneList
<1>1. InOneAnswer <=> ~InNewRelic!Curated BY <1>0 DEF InOneAnswer
<1>2. req \in Requests BY AtStart
<1>3. CASE InNewRelic!ScanCurated
  <2> DEFINE pushes == req.table # "accounts" /\ req.limit # Null /\ InNewRelic!LimitSafe
             stop == IF pushes THEN WrappedStop ELSE Null
             size == IF req.table = "accounts" THEN InNewRelic!Everything ELSE PageSize
  <2>1. PICK F : F = InNewRelic!Criteria OBVIOUS
  <2>2. pc = "start" /\ InNewRelic!Curated /\ Ask(F, <<>>, size, stop, TRUE)
    BY <1>3, <2>1, NewRelicCopies DEF InNewRelic!ScanCurated
  <2>3. \A f \in F : \E c : f \in EqOf(c, "string") BY <2>1, NewRelicReads DEF InNewRelic!Criteria
  <2>4. F \subseteq Filters /\ \A f \in F : f.op = "=" BY <2>3, OfFilters
  <2>5. \A row \in held : Wanted(row) => \A f \in F : Passes(f, row) BY <2>4 DEF Wanted
  <2>6. ASSUME stop # Null, Understood(req), req.limit # Null
        PROVE  req.order = <<>> /\ \A f \in Filters : f \in F
    <3>1. /\ req.order = <<>>
          /\ \A f \in Filters : f.op = "=" /\ f.column \in InNewRelic!Consumed
      BY <2>6, NewRelicReads DEF InNewRelic!LimitSafe
    <3>2. ASSUME NEW f \in Filters PROVE f \in F
      <4>1. f.op = "=" /\ f.column \in InNewRelic!Consumed BY <3>1
      <4>2. PICK g \in F : g.column = f.column BY <2>1, <4>1 DEF InNewRelic!Consumed
      <4>3. g \in Filters /\ g.op = "=" BY <2>4
      <4>4. f = g BY <2>6, <4>1, <4>2, <4>3, Alone
      <4> QED BY <4>4
    <3> QED BY <3>1, <3>2
  <2>7. stop = Null \/ (req.limit # Null /\ stop = WrappedStop) OBVIOUS
  <2> HIDE DEF stop, size
  <2> QED BY <1>0, <1>1, <2>2, <2>5, <2>6, <2>7, SendCompletes DEF Wanted
<1>4. CASE InNewRelic!Page
  <2>1. pc = "paging" /\ InNewRelic!Curated BY <1>4 DEF InNewRelic!Page
  <2>2. PICK size \in InNewRelic!Reaches(asked.size) :
          \E c : Advance(size, Trimmed(PageOf(size)), size = 0 \/ HasMore(size), c)
    BY <1>4, NewRelicCopies DEF InNewRelic!Page
  <2>3. size \in Nat BY <2>1, SizeIsNat DEF InNewRelic!Reaches
  <2>4. PICK K, more : K = PageOf(size) /\ more = (size = 0 \/ HasMore(size)) OBVIOUS
  <2>5. PICK c : Advance(size, Trimmed(K), more, c) BY <2>2, <2>4
  <2>6. HasMore(size) => more BY <2>4
  <2>7. K = {i \in PageOf(size) : listing[i].is_row} BY <1>0, <2>4, AllRows
  <2> QED BY <1>0, <1>1, <2>1, <2>3, <2>5, <2>6, <2>7, PageCompletes
<1>5. CASE InNewRelic!ScanNRDB
  <2> DEFINE order == IF InNewRelic!OrderHonored THEN req.order ELSE <<>>
             size == IF InNewRelic!PushedLimit THEN WrappedStop ELSE MaxRows
             stop == IF InNewRelic!PushedLimit THEN WrappedStop ELSE Null
  <2>1. PICK F : F = InNewRelic!Clauses OBVIOUS
  <2>2. pc = "start" /\ ~InNewRelic!Curated /\ Ask(F, order, size, stop, TRUE)
    BY <1>5, <2>1, NewRelicCopies DEF InNewRelic!ScanNRDB
  <2>3. ASSUME InNewRelic!PushedLimit
        PROVE  req.limit # Null /\ WrappedStop # Null /\ order = req.order /\ \A f \in Filters : f \in F
    <3>1. req.limit # Null /\ InNewRelic!OrderHonored /\ \A f \in Filters : InNewRelic!Translated(f)
      BY <2>3, NewRelicReads DEF InNewRelic!PushedLimit
    <3>2. WrappedStop # Null BY <1>2, <3>1, StopIsInt, NullAssumption
    <3>3. \A f \in Filters : f \in F BY <2>1, <3>1, NewRelicReads DEF InNewRelic!Clauses
    <3> QED BY <3>1, <3>2, <3>3
  <2>4. /\ stop = Null => size = MaxRows
        /\ stop # Null => InNewRelic!PushedLimit /\ size = stop /\ stop = WrappedStop
    BY <2>3
  <2>5. InNewRelic!Windowed \/ \A row \in held : Wanted(row) => \A f \in F : Passes(f, row)
    <3> SUFFICES ASSUME ~InNewRelic!Windowed, NEW row \in held, Wanted(row), NEW f \in F PROVE Passes(f, row)
      OBVIOUS
    <3>1. row \in Stored(Table) /\ \A g \in Filters : Passes(g, row) BY AtStart DEF Wanted
    <3> QED BY <1>2, <2>1, <3>1, InClauses
  <2> HIDE DEF order, size, stop
  <2> QED BY <1>0, <1>1, <2>2, <2>3, <2>4, <2>5, SendCompletes DEF Wanted, RowsAtOnce
<1>6. CASE InNewRelic!Results
  <2>1. PICK w \in BOOLEAN : w <=> ((~Limits /\ Len(listing) >= MaxRows) \/ InNewRelic!Windowed) OBVIOUS
  <2>2. pc = "paging" /\ ~InNewRelic!Curated /\ Answer(PageOf(asked.size), w)
    BY <1>6, <2>1, NewRelicCopies, NewRelicReads DEF InNewRelic!Results
  <2>3. ~w => ~WillWarn BY <1>0, <1>1, <2>1, <2>2, AnswerFull DEF WillWarn, InJaeger!Searches, InJaeger!On, InJaeger!Here
  <2>4. ASSUME ~w, ~Limits PROVE ~HasMore(asked.size)
    <3>1. SUFFICES ASSUME HasMore(asked.size) PROVE FALSE OBVIOUS
    <3>2. asked.size = MaxRows /\ asked.size < Len(listing) /\ asked.size \in Nat /\ Len(listing) \in Nat
      BY <1>0, <1>1, <2>2, <2>4, <3>1, AnswerFull
    <3>3. ~(Len(listing) >= MaxRows) BY <2>1, <2>4
    <3> QED BY <3>2, <3>3
  <2> QED BY <1>1, <2>2, <2>3, <2>4, AnswerCompletes
<1> QED BY <1>3, <1>4, <1>5, <1>6 DEF InNewRelic!Next

-----------------------------------------------------------------------------
(* Jira.                                                                    *)

\* An equality is blind to the spelling of what it asks for.
LEMMA BlindIs ==
  ASSUME req \in Requests, NEW f \in Filters, NEW row
  PROVE  Passes(InJira!Blind(f), row) <=>
           row[f.column] # Null /\ \E i \in DOMAIN f.values : row[f.column] \in Spellings[f.values[i].v]
<1> DEFINE all == UNION {Spellings[f.values[i].v] : i \in DOMAIN f.values}
           values == [v \in all |-> InJira!Text(v)]
           s == [f EXCEPT !.op = "in"]
           t == [s EXCEPT !.values = values]
<1>1. DOMAIN f = {"column", "op", "values"} BY Shape
<1>2. InJira!Blind(f) = t BY DEF InJira!Blind
<1>3. DOMAIN s = DOMAIN f /\ s.column = f.column /\ s.op = "in" BY <1>1
<1>4. DOMAIN values = all /\ \A v \in all : values[v].v = v BY DEF InJira!Text
<1> HIDE DEF s, values
<1>5. t.column = f.column /\ t.op = "in" /\ t.values = values BY <1>1, <1>3
<1> HIDE DEF t
<1>6. Passes(t, row) <=> row[f.column] # Null /\ \E v \in all : row[f.column] = values[v].v BY <1>4, <1>5 DEF Passes
<1>7. Passes(t, row) <=> row[f.column] # Null /\ row[f.column] \in all
  <2> HIDE DEF all
  <2> QED BY <1>4, <1>6
<1> QED BY <1>2, <1>7

LEMMA ExactIs ==
  ASSUME NEW f, InJira!Exact(f)
  PROVE  f.op \in {"=", "in"} /\ Typed(f, "string")
BY JiraReads DEF InJira!Exact

LEMMA ClausesLoosen ==
  ASSUME req \in Requests, Understood(req), InJira!Here, NEW row \in Stored(Table), \A f \in Filters : Passes(f, row),
         NEW f \in InJira!Clauses
  PROVE  Passes(f, row)
<1>0. Slack \in Nat BY SizeAssumption
<1>1. CASE \E g \in Filters : InJira!Exact(g) /\ f = InJira!Blind(g)
  <2>1. PICK g \in Filters : InJira!Exact(g) /\ f = InJira!Blind(g) BY <1>1
  <2>2. g.op \in {"=", "in"} BY <2>1, ExactIs
  <2>3. PICK i \in DOMAIN g.values : row[g.column] = g.values[i].v /\ row[g.column] # Null BY <2>2 DEF Passes
  <2>4. g.values[i].v \in Spellings[g.values[i].v]
    <3>1. PICK n \in DOMAIN req.filters : g = req.filters[n] BY DEF Filters
    <3> QED BY <2>1, <3>1 DEF Understood, InJira!Here
  <2> QED BY <2>1, <2>3, <2>4, BlindIs
<1>2. CASE \E g \in Filters : f \in InJira!Widened(g)
  <2>1. PICK g \in Filters : f \in InJira!Widened(g) BY <1>2
  <2>2. /\ row[g.column] \in Int /\ row[g.column] # Null
        /\ g.op \in Ups => From(g).v \in Int /\ From(g).v <= row[g.column]
        /\ g.op \in Downs => To(g).v \in Int /\ row[g.column] <= To(g).v
    BY EndsHold
  <2>3. CASE g.op \in Ups /\ f = Bound(g, ">=", Shift(From(g), -Slack))
    <3>1. -Slack \in Int BY <1>0
    <3>2. Shift(From(g), -Slack).v = From(g).v + (-Slack) BY <3>1, ShiftIs
    <3>3. f = [column |-> g.column, op |-> ">=", values |-> <<Shift(From(g), -Slack)>>] BY <2>3, BoundIs
    <3>4. row[g.column] >= Shift(From(g), -Slack).v BY <1>0, <2>2, <2>3, <3>2
    <3> QED BY <2>2, <3>3, <3>4, AtBound
  <2>4. CASE g.op \in Downs /\ f = Bound(g, "<=", Shift(To(g), Slack))
    <3>1. Slack \in Int BY <1>0
    <3>2. Shift(To(g), Slack).v = To(g).v + Slack BY <3>1, ShiftIs
    <3>3. f = [column |-> g.column, op |-> "<=", values |-> <<Shift(To(g), Slack)>>] BY <2>4, BoundIs
    <3>4. row[g.column] <= Shift(To(g), Slack).v BY <1>0, <2>2, <2>4, <3>2
    <3> QED BY <2>2, <3>3, <3>4, AtBound
  <2> QED BY <2>1, <2>3, <2>4, JiraReads DEF InJira!Widened
<1> QED BY <1>1, <1>2, JiraReads DEF InJira!Clauses

\* Beside a LIMIT the spelling is the text itself.
LEMMA ClausesExact ==
  ASSUME req \in Requests, Understood(req), InJira!On("issues"), req.limit # Null, InJira!ConsumedAll,
         NEW row, \A f \in InJira!Clauses : Passes(f, row), NEW f \in Filters
  PROVE  Passes(f, row)
<1>1. InJira!Exact(f) BY JiraReads DEF InJira!ConsumedAll
<1>2. InJira!Blind(f) \in InJira!Clauses BY <1>1, JiraReads DEF InJira!Clauses
<1>3. PICK i \in DOMAIN f.values : row[f.column] # Null /\ row[f.column] \in Spellings[f.values[i].v]
  BY <1>2, BlindIs
<1>4. Spellings[f.values[i].v] = {f.values[i].v}
  <2>1. PICK n \in DOMAIN req.filters : f = req.filters[n] BY DEF Filters
  <2> QED BY <1>1, <2>1 DEF Understood, InJira!On, InJira!Here
<1>5. row[f.column] = f.values[i].v BY <1>3, <1>4
<1>6. f.op \in {"=", "in"} BY <1>1, ExactIs
<1> QED BY <1>3, <1>5, <1>6 DEF Passes

LEMMA JiraIssues ==
  ASSUME Inv, InJira!ScanIssues, UNCHANGED moves
  PROVE  CompleteInv'
<1> DEFINE pushes == req.limit # Null /\ InJira!ConsumedAll /\ InJira!OrderOK /\ ~InJira!Defaulted
           filters == IF InJira!Defaulted THEN {InJira!Recent} ELSE InJira!Clauses
           order == IF InJira!OrderOK THEN req.order ELSE <<>>
           stop == InJira!Stop(pushes)
           size == InJira!Size(pushes)
           ask == Asked(filters, order, size, stop, TRUE)
<1>1. /\ pc = "start" /\ InJira!On("issues") /\ List(ask) /\ warned' = InJira!Defaulted
      /\ UNCHANGED <<place, sent, emitted>>
  BY JiraCopies DEF InJira!ScanIssues, InJira!place, place
<1>2. OfOneList /\ ~InOneAnswer BY <1>1 DEF OfOneList, InOneAnswer, InJira!On, InJira!Here
<1>3. /\ DOMAIN ask = {"filters", "order", "size", "stop", "keyset", "rest"} /\ ask.rest = <<>>
      /\ ask.filters = filters /\ ask.order = order /\ ask.stop = stop
  BY DEF Asked
<1>4. req \in Requests /\ held \subseteq Stored(Table) BY AtStart
<1>5. ASSUME Understood(req) PROVE warned' \/ \A row \in held : Wanted(row) => \A f \in filters : Passes(f, row)
  <2>1. CASE InJira!Defaulted BY <1>1, <2>1
  <2>2. CASE ~InJira!Defaulted
    <3>1. filters = InJira!Clauses BY <2>2
    <3>2. InJira!Here BY <1>1 DEF InJira!On
    <3> HIDE DEF filters
    <3> QED BY <1>4, <1>5, <3>1, <3>2, ClausesLoosen DEF Wanted
  <2> QED BY <2>1, <2>2
<1>6. stop # Null => pushes /\ stop = WrappedStop BY JiraCopies DEF InJira!Stop
<1>7. ASSUME pushes, Understood(req)
      PROVE  /\ order = req.order
             /\ \A row \in Stored(Table) : (\A f \in filters : Passes(f, row)) => \A f \in Filters : Passes(f, row)
  <2>1. filters = InJira!Clauses /\ order = req.order BY <1>7
  <2>2. req.limit # Null /\ InJira!ConsumedAll BY <1>7
  <2> HIDE DEF filters, order
  <2> QED BY <1>1, <1>4, <1>7, <2>1, <2>2, ClausesExact
<1> HIDE DEF ask, filters, order, stop, size
<1>8. Understood(req) => Asks(ask) BY <1>3, <1>5 DEF Asks
<1>9. ASSUME Understood(req), ask.stop # Null PROVE AsksExactly(ask)
  <2>1. pushes /\ stop = WrappedStop BY <1>3, <1>6, <1>9
  <2>2. req.limit # Null /\ stop = StopAt(req) BY <1>4, <1>9, <2>1, StopIsWrapped
  <2>3. /\ order = req.order
        /\ \A row \in Stored(Table) : (\A f \in filters : Passes(f, row)) => \A f \in Filters : Passes(f, row)
    BY <1>7, <1>9, <2>1
  <2> QED BY <1>3, <2>2, <2>3 DEF AsksExactly, Wanted
<1>10. ask.rest \in Seq({ask.rest[k] : k \in DOMAIN ask.rest}) BY <1>3
<1> QED BY <1>1, <1>2, <1>3, <1>8, <1>9, <1>10, ListCompletes

\* What a list of keys selects.
LEMMA InIs ==
  \A c, K, row : Passes(InJira!In(c, K), row) <=> row[c] # Null /\ row[c] \in K
<1> SUFFICES ASSUME NEW c, NEW K, NEW row
             PROVE  Passes(InJira!In(c, K), row) <=> row[c] # Null /\ row[c] \in K
  OBVIOUS
<1> DEFINE values == [k \in K |-> InJira!Text(k)]
           f == [column |-> c, op |-> "in", values |-> values]
<1>1. InJira!In(c, K) = f BY DEF InJira!In
<1>2. DOMAIN values = K /\ \A k \in K : values[k].v = k BY DEF InJira!Text
<1> HIDE DEF values
<1>3. f.column = c /\ f.op = "in" /\ f.values = values OBVIOUS
<1> HIDE DEF f
<1> QED BY <1>1, <1>2, <1>3 DEF Passes

LEMMA AskingIs ==
  ASSUME req \in Requests, Understood(req), InJira!Here, NEW c, c \notin Numeric
  PROVE  /\ \A f \in InJira!Asking(c) :
              f \in Filters /\ f.column = c /\ f.op \in {"=", "in"} /\ InJira!Strings(f) = DOMAIN f.values
         /\ req.limit # Null => \A f \in Filters : f.column = c /\ f.op \in {"=", "in"} =>
              f \in InJira!Asking(c) /\ \A g \in Filters : g.column = c => g = f
<1>1. ASSUME NEW f \in InJira!Asking(c)
      PROVE  f \in Filters /\ f.column = c /\ f.op \in {"=", "in"} /\ InJira!Strings(f) = DOMAIN f.values
  <2>1. f \in FilterOn(c) /\ f.op \in {"=", "in"} BY JiraReads DEF InJira!Asking
  <2>2. f \in Filters /\ f.column = c BY <2>1, OfFilters
  <2>3. Typed(f, "string") BY <2>2, LiteralsAre DEF InJira!Here
  <2>4. InJira!Strings(f) = DOMAIN f.values BY <2>3 DEF InJira!Strings, Typed
  <2> QED BY <2>1, <2>2, <2>4
<1>2. ASSUME req.limit # Null, NEW f \in Filters, f.column = c, f.op \in {"=", "in"}
      PROVE  f \in InJira!Asking(c) /\ \A g \in Filters : g.column = c => g = f
  <2>1. \A g \in Filters : g.column = c => g = f BY <1>2, Alone
  <2>2. PICK g \in FilterOn(f.column) : TRUE BY FirstThere
  <2>3. g \in Filters /\ g.column = c BY <1>2, <2>2, OfFilters
  <2>4. f \in FilterOn(c) BY <1>2, <2>1, <2>2, <2>3
  <2>5. Typed(f, "string") BY <1>2, LiteralsAre DEF InJira!Here
  <2> QED BY <1>2, <2>1, <2>4, <2>5, JiraReads DEF InJira!Asking
<1> QED BY <1>1, <1>2

LEMMA JiraProjects ==
  ASSUME Inv, InJira!ScanProjects, UNCHANGED moves
  PROVE  CompleteInv'
<1> DEFINE pushes == req.limit # Null /\ InJira!ProjectsLimitSafe
           order == IF InJira!OneTermOn({"key", "name"}) THEN req.order ELSE <<>>
           stop == InJira!Stop(pushes)
<1>1. PICK F : F = IF InJira!Keys("key") = {} THEN {} ELSE {InJira!In("key", InJira!Keys("key"))} OBVIOUS
<1>2. pc = "start" /\ InJira!On("projects") /\ \E size : Ask(F, order, size, stop, FALSE)
  BY <1>1, JiraCopies DEF InJira!ScanProjects
<1>3. PICK size : Ask(F, order, size, stop, FALSE) BY <1>2
<1>4. OfOneList /\ ~InOneAnswer /\ InJira!Here BY <1>2 DEF OfOneList, InOneAnswer, InJira!On, InJira!Here
<1>5. req \in Requests /\ held \subseteq Stored(Table) BY AtStart
<1>6. InJira!Keys("key") = UNION {{f.values[i].v : i \in InJira!Strings(f)} : f \in InJira!Asking("key")}
  BY DEF InJira!Keys
<1>7. "key" \notin Numeric BY DEF Numeric
<1>8. ASSUME Understood(req), NEW row \in held, Wanted(row), NEW g \in F PROVE Passes(g, row)
  <2>1. g = InJira!In("key", InJira!Keys("key")) /\ InJira!Keys("key") # {} BY <1>1
  <2>2. PICK f \in InJira!Asking("key") : TRUE BY <1>6, <2>1
  <2>3. f \in Filters /\ f.column = "key" /\ f.op \in {"=", "in"} /\ InJira!Strings(f) = DOMAIN f.values
    BY <1>4, <1>5, <1>7, <1>8, AskingIs
  <2>4. row["key"] # Null /\ \E i \in DOMAIN f.values : row["key"] = f.values[i].v BY <1>8, <2>3 DEF Wanted, Passes
  <2>5. row["key"] \in InJira!Keys("key") BY <1>6, <2>3, <2>4
  <2> QED BY <2>1, <2>4, <2>5, InIs
<1>9. ASSUME pushes, Understood(req), NEW row, \A g \in F : Passes(g, row), NEW f \in Filters PROVE Passes(f, row)
  <2>1. f.column = "key" /\ f.op \in {"=", "in"} BY <1>9, JiraReads DEF InJira!ProjectsLimitSafe
  <2>2. f \in InJira!Asking("key") /\ \A g \in Filters : g.column = "key" => g = f
    BY <1>4, <1>5, <1>7, <1>9, <2>1, AskingIs
  <2>3. \A g \in InJira!Asking("key") : g = f /\ InJira!Strings(g) = DOMAIN g.values
    BY <1>4, <1>5, <1>7, <1>9, <2>2, AskingIs
  <2>4. InJira!Keys("key") = {f.values[i].v : i \in DOMAIN f.values} BY <1>6, <2>2, <2>3
  <2>5. {f.values[i].v : i \in DOMAIN f.values} # {} BY <1>5, ValuesFinite
  <2>6. InJira!In("key", InJira!Keys("key")) \in F BY <1>1, <2>4, <2>5
  <2>7. row["key"] # Null /\ row["key"] \in InJira!Keys("key") BY <1>9, <2>6, InIs
  <2> QED BY <2>1, <2>4, <2>7 DEF Passes
<1>10. /\ stop # Null => pushes /\ stop = WrappedStop
       /\ pushes => order = req.order \/ req.order = <<>>
  BY JiraCopies DEF InJira!Stop, InJira!ProjectsLimitSafe
<1> HIDE DEF order, stop
<1> QED BY <1>2, <1>3, <1>4, <1>8, <1>9, <1>10, SendCompletes DEF Wanted

\* The keys of the issues whose comments are listed, in the order of the filter.
LEMMA NthIs ==
  ASSUME NEW n \in Nat, NEW k \in 1..n
  PROVE  InJira!Nth(1..n, k) = k
<1>1. ASSUME NEW j \in 1..n PROVE InJira!Cardinality({i \in 1..n : i < j}) = j - 1
  <2>1. \A S : InJira!Cardinality(S) = Cardinality(S) BY DEF InJira!Cardinality, Cardinality
  <2>2. {i \in 1..n : i < j} = 1..(j - 1) OBVIOUS
  <2>3. Cardinality(1..(j - 1)) = j - 1
    <3>1. 1 \in Int /\ j - 1 \in Int OBVIOUS
    <3>2. PICK m : m = j - 1 OBVIOUS
    <3>3. Cardinality(1..m) = IF 1 > m THEN 0 ELSE m - 1 + 1 BY ONLY <3>1, <3>2, FS_Interval
    <3> QED BY <3>2, <3>3
  <2> QED BY <2>1, <2>2, <2>3
<1>2. \A j \in 1..n : InJira!Cardinality({i \in 1..n : i < j}) = k - 1 <=> j = k BY <1>1
<1> QED BY <1>2 DEF InJira!Nth

LEMMA IssueKeysAre ==
  ASSUME req \in Requests, InJira!Here, InJira!IssueKeys # <<>>
  PROVE  /\ Len(InJira!IssueKeys) \in Nat /\ DOMAIN InJira!IssueKeys = 1..Len(InJira!IssueKeys)
         /\ InJira!IssueKeys = [k \in DOMAIN InJira!IssueKeys |-> InJira!IssueKeys[k]]
         /\ Understood(req) => \E f \in InJira!Asking("issue_key") :
              InJira!IssueKeys = [k \in 1..Len(f.values) |-> f.values[k].v]
<1>1. InJira!Asking("issue_key") # {} BY DEF InJira!IssueKeys
<1> PICK f : f = CHOOSE g \in InJira!Asking("issue_key") : TRUE OBVIOUS
<1>2. f \in InJira!Asking("issue_key")
  <2>1. (CHOOSE g \in InJira!Asking("issue_key") : TRUE) \in InJira!Asking("issue_key") BY <1>1
  <2> QED BY <2>1
<1> DEFINE n == Cardinality(InJira!Strings(f))
           keys == [k \in 1..n |-> f.values[InJira!Nth(InJira!Strings(f), k)].v]
<1>3. InJira!IssueKeys = keys
  <2>1. \A S : InJira!Cardinality(S) = Cardinality(S) BY DEF InJira!Cardinality, Cardinality
  <2> QED BY <1>1, <2>1 DEF InJira!IssueKeys
<1>4. f \in Filters BY <1>2, JiraReads, OfFilters DEF InJira!Asking
<1>5. DOMAIN f.values = 1..Len(f.values) /\ Len(f.values) \in Nat BY <1>4, Shape
<1>6. n \in Nat
  <2>1. 1 \in Int /\ Len(f.values) \in Int BY <1>5
  <2>2. IsFiniteSet(1..Len(f.values)) BY ONLY <2>1, FS_Interval
  <2>3. InJira!Strings(f) \in SUBSET (1..Len(f.values)) BY <1>5 DEF InJira!Strings
  <2> QED BY <2>2, <2>3, FS_Subset, FS_CardinalityType
<1>7. ASSUME Understood(req) PROVE keys = [k \in 1..Len(f.values) |-> f.values[k].v]
  <2>1. InJira!Strings(f) = 1..Len(f.values)
    <3>1. "issue_key" \notin Numeric BY DEF Numeric
    <3> QED BY <1>2, <1>5, <1>7, <3>1, AskingIs
  <2>2. n = Len(f.values)
    <3>1. 1 \in Int /\ Len(f.values) \in Int BY <1>5
    <3>2. PICK m : m = Len(f.values) OBVIOUS
    <3>3. Cardinality(1..m) = IF 1 > m THEN 0 ELSE m - 1 + 1 BY ONLY <3>1, <3>2, FS_Interval
    <3> QED BY <1>5, <2>1, <3>2, <3>3
  <2>3. \A k \in 1..Len(f.values) : InJira!Nth(InJira!Strings(f), k) = k BY <1>5, <2>1, NthIs
  <2> HIDE DEF n
  <2> QED BY <2>2, <2>3
<1>8. Len(keys) = n /\ DOMAIN keys = 1..n /\ keys = [k \in DOMAIN keys |-> keys[k]]
  <2>1. DOMAIN keys = 1..n /\ keys = [k \in DOMAIN keys |-> keys[k]] OBVIOUS
  <2> HIDE DEF n, keys
  <2> QED BY <1>6, <2>1
<1> HIDE DEF n, keys
<1> QED BY <1>2, <1>3, <1>6, <1>7, <1>8

LEMMA JiraComments ==
  ASSUME Inv, InJira!ScanComments, UNCHANGED moves
  PROVE  CompleteInv'
<1> DEFINE pushes == req.limit # Null /\ InJira!CommentsLimitSafe
           order == IF InJira!OneTermOn({"created"}) THEN req.order ELSE <<>>
           stop == InJira!Stop(pushes)
           size == InJira!Size(pushes)
           one == Asked({InJira!In("issue_key", {Head(InJira!IssueKeys)})}, order, size, stop, FALSE)
           ask == [one EXCEPT !.rest = Tail(InJira!IssueKeys)]
<1>1. /\ pc = "start" /\ InJira!On("comments") /\ InJira!IssueKeys # <<>> /\ List(ask)
      /\ UNCHANGED <<place, sent, emitted>>
  BY JiraCopies DEF InJira!ScanComments, InJira!place, place, InJira!result
<1>2. ~OfOneList /\ ~InOneAnswer /\ InJira!Here BY <1>1 DEF OfOneList, InOneAnswer, InJira!On, InJira!Here
<1>3. req \in Requests /\ held \subseteq Stored(Table) BY AtStart
<1> PICK keys : keys = InJira!IssueKeys OBVIOUS
<1>4. /\ Len(keys) \in Nat /\ DOMAIN keys = 1..Len(keys) /\ keys = [k \in DOMAIN keys |-> keys[k]] /\ keys # <<>>
      /\ Understood(req) => \E f \in InJira!Asking("issue_key") : keys = [k \in 1..Len(f.values) |-> f.values[k].v]
  BY <1>1, <1>2, <1>3, IssueKeysAre
<1>5. PICK T : T = {keys[k] : k \in DOMAIN keys} OBVIOUS
<1>6. keys \in Seq(T)
  <2>1. keys \in [1..Len(keys) -> T] BY <1>4, <1>5
  <2> QED BY <1>4, <2>1
<1>7. /\ Tail(keys) \in Seq(T) /\ Len(Tail(keys)) = Len(keys) - 1 /\ Len(keys) >= 1 /\ Head(keys) = keys[1]
      /\ \A k \in 2..Len(keys) : k - 1 \in DOMAIN Tail(keys) /\ Tail(keys)[k - 1] = keys[k]
      /\ Len(keys) = 1 => Tail(keys) = <<>>
  <2>1. Len(keys) >= 1 BY <1>4, <1>6
  <2>2. Tail(keys) \in Seq(T) /\ Len(Tail(keys)) = Len(keys) - 1 /\ Head(keys) = keys[1] BY <1>4, <1>6
  <2>3. ASSUME NEW k \in 2..Len(keys) PROVE k - 1 \in DOMAIN Tail(keys) /\ Tail(keys)[k - 1] = keys[k]
    BY <1>4, <1>6, <2>2
  <2> QED BY <1>6, <2>1, <2>2, <2>3
<1>8. /\ DOMAIN one = {"filters", "order", "size", "stop", "keyset", "rest"}
      /\ one.filters = {InJira!In("issue_key", {Head(keys)})} /\ one.order = order /\ one.stop = stop /\ one.keyset = FALSE
  BY DEF Asked
<1>9. /\ DOMAIN ask = {"filters", "order", "size", "stop", "keyset", "rest"}
      /\ ask.filters = one.filters /\ ask.order = order /\ ask.stop = stop /\ ask.keyset = FALSE /\ ask.rest = Tail(keys)
  <2> HIDE DEF one
  <2> QED BY <1>8
<1>10. ask.rest \in Seq({ask.rest[k] : k \in DOMAIN ask.rest})
  <2>1. PICK rest : rest = Tail(keys) OBVIOUS
  <2>2. rest \in Seq({rest[k] : k \in DOMAIN rest})
    <3>1. rest \in Seq(T) BY <1>7, <2>1
    <3>2. rest \in [1..Len(rest) -> {rest[k] : k \in DOMAIN rest}] /\ Len(rest) \in Nat BY ONLY <3>1
    <3> QED BY <3>2
  <2> HIDE DEF ask
  <2> QED BY <1>9, <2>1, <2>2
<1>11. stop # Null => pushes /\ stop = WrappedStop BY JiraCopies DEF InJira!Stop
<1>12. pushes => order = req.order \/ req.order = <<>> BY DEF InJira!CommentsLimitSafe
<1> HIDE DEF one, ask, order, stop, size
<1>13. "issue_key" \notin Numeric BY DEF Numeric
<1>14. ASSUME Understood(req)
       PROVE  \E f \in Filters :
                /\ f.column = "issue_key" /\ f.op \in {"=", "in"}
                /\ DOMAIN f.values = 1..Len(keys) /\ \A k \in 1..Len(keys) : keys[k] = f.values[k].v
  <2>1. PICK f \in InJira!Asking("issue_key") : keys = [k \in 1..Len(f.values) |-> f.values[k].v] BY <1>4, <1>14
  <2>2. f \in Filters /\ f.column = "issue_key" /\ f.op \in {"=", "in"} BY <1>2, <1>3, <1>13, <1>14, AskingIs
  <2>3. DOMAIN f.values = 1..Len(f.values) /\ Len(f.values) \in Nat BY <1>3, <2>2, Shape
  <2>4. DOMAIN keys = 1..Len(f.values) /\ \A k \in 1..Len(f.values) : keys[k] = f.values[k].v BY <2>1
  <2>5. DOMAIN f.values = DOMAIN keys BY <2>3, <2>4
  <2>6. \A k \in DOMAIN keys : keys[k] = f.values[k].v BY <2>4
  <2> QED BY <1>4, <2>2, <2>5, <2>6
<1>15. Understood(req) => Asks(ask)
  <2> SUFFICES ASSUME Understood(req), NEW row \in held, Wanted(row)
               PROVE  \/ \A f \in ask.filters : Passes(f, row)
                      \/ \E k \in DOMAIN ask.rest : Passes(InJira!In("issue_key", {ask.rest[k]}), row)
    BY DEF Asks
  <2>1. PICK f \in Filters :
          /\ f.column = "issue_key" /\ f.op \in {"=", "in"}
          /\ DOMAIN f.values = 1..Len(keys) /\ \A k \in 1..Len(keys) : keys[k] = f.values[k].v
    BY <1>14
  <2>2. PICK k \in 1..Len(keys) : row["issue_key"] = keys[k] /\ row["issue_key"] # Null BY <2>1 DEF Wanted, Passes
  <2>3. CASE k = 1
    <3>1. Passes(InJira!In("issue_key", {Head(keys)}), row) BY <1>7, <2>2, <2>3, InIs
    <3> QED BY <1>8, <1>9, <3>1
  <2>4. CASE k # 1
    <3>1. k \in 2..Len(keys) BY <1>4, <2>4
    <3>2. k - 1 \in DOMAIN ask.rest /\ ask.rest[k - 1] = keys[k] BY <1>7, <1>9, <3>1
    <3>3. Passes(InJira!In("issue_key", {ask.rest[k - 1]}), row) BY <2>2, <3>2, InIs
    <3> QED BY <3>2, <3>3
  <2> QED BY <2>3, <2>4
<1>16. ASSUME Understood(req), ask.stop # Null PROVE AsksExactly(ask)
  <2>1. pushes /\ stop = WrappedStop BY <1>9, <1>11, <1>16
  <2>2. req.limit # Null /\ stop = StopAt(req) BY <1>3, <1>16, <2>1, StopIsWrapped
  <2>3. Len(keys) = 1 /\ \A g \in Filters : g.column = "issue_key"
    BY <2>1, JiraReads DEF InJira!CommentsLimitSafe
  <2>4. PICK f \in Filters :
          /\ f.column = "issue_key" /\ f.op \in {"=", "in"}
          /\ DOMAIN f.values = 1..Len(keys) /\ \A k \in 1..Len(keys) : keys[k] = f.values[k].v
    BY <1>14, <1>16
  <2>5. \A g \in Filters : g = f BY <1>2, <1>3, <1>13, <1>16, <2>2, <2>3, <2>4, AskingIs
  <2>6. ASSUME NEW row, \A g \in ask.filters : Passes(g, row) PROVE Passes(f, row)
    <3>1. row["issue_key"] # Null /\ row["issue_key"] = keys[1] BY <1>7, <1>8, <1>9, <2>6, InIs
    <3>2. 1 \in DOMAIN f.values /\ row["issue_key"] = f.values[1].v BY <2>3, <2>4, <3>1
    <3> QED BY <2>4, <3>1, <3>2 DEF Passes
  <2>7. ask.rest = <<>> BY <1>7, <1>9, <2>3
  <2>8. order = req.order \/ req.order = <<>> BY <1>12, <2>1
  <2> QED BY <1>9, <2>2, <2>5, <2>6, <2>7, <2>8 DEF AsksExactly, Wanted
<1> QED BY <1>1, <1>2, <1>9, <1>10, <1>15, <1>16, ListCompletes

\* On to the comments of the next issue.
LEMMA NextKeyCompletes ==
  ASSUME Inv, InJira!NextKey, UNCHANGED moves, withheld' = withheld \cup Withheld
  PROVE  CompleteInv'
<1>0. PICK size \in InJira!Sends :
        /\ Emit(Appended(PageOf(size)))
        /\ ~InJira!Onward(size) \/ Satisfied(sent') \/ Capped
        /\ warned' = (warned \/ (InJira!Onward(size) /\ Capped))
        /\ idle' = idle + (IF size = 0 THEN 1 ELSE 0)
  BY JiraCopies DEF InJira!NextKey, InJira!Ended
<1> DEFINE A == Appended(PageOf(size))
           one == [asked EXCEPT !.filters = {InJira!In("issue_key", {Head(asked.rest)})}]
           ask == [one EXCEPT !.rest = Tail(asked.rest)]
<1>1. /\ pc = "paging" /\ InJira!On("comments") /\ Emit(A) /\ next' = 0
      /\ asked.rest # <<>> /\ ~Satisfied(sent')
      /\ List([asked EXCEPT !.filters = {InJira!In("issue_key", {Head(asked.rest)})}, !.rest = Tail(asked.rest)])
  BY <1>0, JiraCopies DEF InJira!NextKey, InJira!LastKey
<1>2. ~OfOneList /\ ~InOneAnswer BY <1>1 DEF OfOneList, InOneAnswer, InJira!On, InJira!Here
<1>3. /\ DOMAIN asked = {"filters", "order", "size", "stop", "keyset", "rest"} /\ ~asked.keyset
      /\ asked.rest \in Seq({asked.rest[k] : k \in DOMAIN asked.rest})
  BY <1>1, <1>2 DEF Inv, CompleteInv, ListInv
<1>4. List(ask)
  <2>1. [asked EXCEPT !.filters = {InJira!In("issue_key", {Head(asked.rest)})}, !.rest = Tail(asked.rest)] = ask
    OBVIOUS
  <2> HIDE DEF ask
  <2> QED BY <1>1, <2>1
<1>5. /\ DOMAIN one = DOMAIN asked /\ one.filters = {InJira!In("issue_key", {Head(asked.rest)})}
      /\ one.order = asked.order /\ one.stop = asked.stop /\ one.keyset = asked.keyset
  BY <1>3
<1> HIDE DEF one
<1>6. /\ DOMAIN ask = DOMAIN asked /\ ask.filters = {InJira!In("issue_key", {Head(asked.rest)})}
      /\ ask.order = asked.order /\ ask.stop = asked.stop /\ ask.keyset = asked.keyset /\ ask.rest = Tail(asked.rest)
  BY <1>3, <1>5
<1> HIDE DEF ask
<1> PICK rest, T : rest = asked.rest /\ T = {asked.rest[k] : k \in DOMAIN asked.rest} OBVIOUS
<1>7. rest \in Seq(T) /\ rest # <<>> BY <1>1, <1>3
<1>8. /\ Tail(rest) \in Seq(T) /\ Head(rest) = rest[1] /\ DOMAIN rest = 1..Len(rest) /\ Len(rest) \in Nat
      /\ \A k \in 2..Len(rest) : k - 1 \in DOMAIN Tail(rest) /\ Tail(rest)[k - 1] = rest[k]
  BY ONLY <1>7
<1>9. Tail(rest) \in Seq({Tail(rest)[k] : k \in DOMAIN Tail(rest)})
  <2> PICK tail : tail = Tail(rest) OBVIOUS
  <2>1. tail \in Seq(T) BY <1>8
  <2>2. tail \in [1..Len(tail) -> {tail[k] : k \in DOMAIN tail}] /\ Len(tail) \in Nat BY ONLY <2>1
  <2>3. tail \in Seq({tail[k] : k \in DOMAIN tail}) BY ONLY <2>2
  <2> QED BY <2>3
<1>10. /\ asked' = ask /\ pc' = "paging" /\ UNCHANGED <<req, held, standing>>
       /\ listing' \in Listings(Passing(ask.filters, held), ask.order)
  BY <1>4 DEF List
<1>11. PICK rows : rows = Passing(ask.filters, held) OBVIOUS
<1>12. /\ DOMAIN listing' = 1..Cardinality(rows)
       /\ \A i \in DOMAIN listing' : listing'[i] \in rows
       /\ \A row \in rows : \E i \in DOMAIN listing' : listing'[i] = row
       /\ \A i, j \in DOMAIN listing' : i < j => ~Before(ask.order, SortKey(ask.order, listing'[j]), SortKey(ask.order, listing'[i]))
  <2>1. rows \in SUBSET held /\ IsFiniteSet(held) BY <1>11 DEF Passing, Inv, RowsInv
  <2>2. IsFiniteSet(rows) BY <2>1, FS_Subset
  <2>3. PICK l, o : l = listing' /\ o = ask.order OBVIOUS
  <2>4. l \in Listings(rows, o) BY <1>10, <1>11, <2>3
  <2>5. /\ DOMAIN l = 1..Cardinality(rows)
        /\ \A i \in DOMAIN l : l[i] \in rows
        /\ \A row \in rows : \E i \in DOMAIN l : l[i] = row
        /\ \A i, j \in DOMAIN l : i < j => ~Before(o, SortKey(o, l[j]), SortKey(o, l[i]))
    BY ONLY <2>2, <2>4, ListHoldsAll
  <2> QED BY <2>3, <2>5
<1>13. /\ Table' = Table /\ (OfOneList' <=> OfOneList) /\ (InOneAnswer' <=> InOneAnswer)
       /\ (Understood(req)' <=> Understood(req)) /\ \A row : Wanted(row)' <=> Wanted(row)
  BY <1>10, SameRequest
<1>14. /\ Len(listing) \in Nat /\ DOMAIN listing = 1..Len(listing) /\ next \in Nat
       /\ \A i \in 1..Len(listing) : listing[i] \in held
       /\ size \in Nat /\ idle \in Nat
       /\ PageOf(size) \subseteq 1..Len(listing) /\ A \subseteq PageOf(size)
       /\ emitted' = emitted \cup {listing[i] : i \in A}
  <2>1. A \subseteq PageOf(size) BY DEF Appended
  <2>2. PageOf(size) \subseteq 1..Len(listing) BY DEF PageOf
  <2>3. emitted' = emitted \cup {listing[i] : i \in A} BY <1>1 DEF Emit
  <2>4. size \in Nat BY <1>0 DEF InJira!Sends
  <2> QED BY <1>1, <2>1, <2>2, <2>3, <2>4, ListLength DEF Inv, RowsInv, TypeOK
<1>15. (held \cup standing \cup emitted)' \subseteq Stored(Table)'
  <2>1. \A i \in A : listing[i] \in held BY <1>14
  <2> HIDE DEF A
  <2> QED BY <1>10, <1>13, <1>14, <2>1 DEF Inv, CompleteInv
<1>16. ListInv'
  <2>1. Sorted(listing)' BY <1>10, <1>12 DEF Sorted
  <2>2. \A i \in DOMAIN listing' : \A f \in asked'.filters : Passes(f, listing'[i])
    BY <1>10, <1>11, <1>12 DEF Passing
  <2>3. req'.schema # "jaeger" BY <1>1, <1>10 DEF InJira!On, InJira!Here
  <2> QED BY <1>2, <1>3, <1>6, <1>9, <1>10, <1>13, <2>1, <2>2, <2>3 DEF ListInv
<1>17. ASSUME Understood(req), Undisturbed PROVE ~Limits /\ NoneSkipped'
  <2>1. ~Limits
    <3>1. Limits => Exactly BY <1>1, <1>17 DEF Inv, CompleteInv
    <3> QED BY <1>1, <3>1 DEF Exactly
  <2>2. CASE WillWarn
    <3>1. warned BY <1>2, <2>2, WarnsNow
    <3>2. warned' BY <1>0, <3>1
    <3> QED BY <2>1, <3>2 DEF NoneSkipped, WillWarn
  <2>3. CASE InJira!Onward(size)
    <3>1. warned' BY <1>0, <1>1, <2>1, <2>3
    <3> QED BY <2>1, <3>1 DEF NoneSkipped, WillWarn
  <2>4. CASE ~WillWarn /\ ~InJira!Onward(size)
    <3>1. \A row \in standing : Wanted(row) => row \in emitted \cup withheld \/ Unread(row) \/ Awaited(row)
      BY <1>1, <1>17, <2>4 DEF Inv, CompleteInv, NoneSkipped
    <3>2. A = PageOf(size) BY <2>1 DEF Appended, Satisfied
    <3>3. ASSUME NEW row \in standing, Unread(row) PROVE row \in emitted' \cup withheld'
      <4>1. PICK i \in DOMAIN listing : i > next /\ listing[i] = row BY <3>3 DEF Unread
      <4>2. CASE size = 0
        <5>1. idle' = idle + 1 BY <1>0, <4>2
        <5>2. idle' > idle BY <1>14, <5>1
        <5>3. Withheld = Behind(next) BY <1>1, <5>2 DEF Withheld, InJira!On, InJira!Here
        <5>4. row \in Behind(next) BY <1>14, <4>1 DEF Behind
        <5> QED BY <5>3, <5>4
      <4>3. CASE size # 0
        <5>1. ~HasMore(size) BY <1>14, <2>4, <4>3, JiraCopies DEF InJira!Onward
        <5>2. i <= next + size BY <1>14, <4>1, <5>1 DEF HasMore
        <5>3. i \in A BY <1>14, <3>2, <4>1, <5>2 DEF PageOf
        <5> QED BY <1>14, <4>1, <5>3
      <4> QED BY <4>2, <4>3
    <3>4. ASSUME NEW row \in standing, Awaited(row) PROVE Unread(row)' \/ Awaited(row)'
      <4>1. PICK k \in DOMAIN rest : Passes(InJira!In("issue_key", {rest[k]}), row) BY <3>4 DEF Awaited
      <4>2. CASE k = 1
        <5>1. Passes(InJira!In("issue_key", {Head(rest)}), row) BY <1>8, <4>1, <4>2
        <5>2. row \in held BY DEF Inv, RowsInv, TypeOK
        <5>3. row \in rows BY <1>6, <1>11, <5>1, <5>2 DEF Passing
        <5>4. PICK i \in DOMAIN listing' : listing'[i] = row BY <1>12, <5>3
        <5>5. i > next'
          <6>1. IsFiniteSet(rows)
            <7>1. rows \in SUBSET held /\ IsFiniteSet(held) BY <1>11 DEF Passing, Inv, RowsInv
            <7> QED BY <7>1, FS_Subset
          <6>2. Cardinality(rows) \in Nat BY <6>1, FS_CardinalityType
          <6> QED BY <1>1, <1>12, <6>2
        <5> QED BY <5>4, <5>5 DEF Unread
      <4>3. CASE k # 1
        <5>1. k \in 2..Len(rest) BY <1>8, <4>3
        <5>2. k - 1 \in DOMAIN asked'.rest /\ asked'.rest[k - 1] = rest[k] BY <1>6, <1>8, <1>10, <5>1
        <5>3. Passes(InJira!In("issue_key", {asked'.rest[k - 1]}), row) BY <4>1, <5>2
        <5> QED BY <5>2, <5>3 DEF Awaited, InJira!In, InJira!Text
      <4> QED BY <4>2, <4>3
    <3>5. \A row \in standing' : Wanted(row)' => row \in emitted' \cup withheld' \/ Unread(row)' \/ Awaited(row)'
      <4>1. \A row \in standing : row \in emitted \cup withheld => row \in emitted' \cup withheld' BY <1>14
      <4> QED BY <1>10, <1>13, <3>1, <3>3, <3>4, <4>1
    <3> QED BY <2>1, <3>5 DEF NoneSkipped
  <2> QED BY <2>1, <2>2, <2>3, <2>4
<1>18. (pc = "paging" /\ Understood(req) /\ Undisturbed => NoneSkipped /\ (Limits => Exactly))'
  <2>1. Limits' = Limits /\ Undisturbed' = Undisturbed BY <1>6, <1>10 DEF Limits, Undisturbed
  <2> QED BY <1>13, <1>17, <2>1
<1> QED BY <1>10, <1>15, <1>16, <1>18 DEF CompleteInv, Complete

LEMMA JiraCompletes ==
  ASSUME Inv, InJira!Next, UNCHANGED moves, withheld' = withheld \cup Withheld
  PROVE  CompleteInv'
<1>1. CASE InJira!Page
  <2>1. PICK size \in InJira!Sends :
          /\ pc = "paging" /\ req.schema = "jira"
          /\ Advance(size, Appended(PageOf(size)), InJira!Onward(size), Capped)
          /\ ~InJira!Onward(size) \/ Satisfied(sent') \/ Capped => asked.rest = <<>> \/ Satisfied(sent')
          /\ idle' = idle + (IF size = 0 THEN 1 ELSE 0)
    BY <1>1, JiraCopies DEF InJira!Page, InJira!Here, InJira!Ended, InJira!LastKey
  <2>2. pc' = "done" => asked.rest = <<>> \/ Satisfied(sent') BY <2>1 DEF Advance, Turn
  <2>3. ~InOneAnswer BY <2>1 DEF InOneAnswer
  <2>4. size \in Nat /\ idle \in Nat /\ next \in Nat BY <2>1 DEF InJira!Sends, Inv, RowsInv, TypeOK
  <2>5. PICK K, more : K = PageOf(size) /\ more = InJira!Onward(size) OBVIOUS
  <2>6. K = {i \in PageOf(size) : listing[i].is_row} BY <2>1, <2>5, AllRows
  <2>7. HasMore(size) => more \/ Behind(next + size) \subseteq withheld'
    <3>1. CASE size = 0
      <4>1. idle' = idle + 1 BY <2>1, <3>1
      <4>2. idle' > idle /\ next + size = next BY <2>4, <3>1, <4>1
      <4>3. Withheld = Behind(next) BY <2>1, <4>2 DEF Withheld
      <4> QED BY <4>2, <4>3
    <3>2. CASE size # 0
      <4>1. size > 0 BY <2>4, <3>2
      <4> QED BY <2>5, <4>1, JiraCopies DEF InJira!Onward
    <3> QED BY <3>1, <3>2
  <2>8. withheld \subseteq withheld' OBVIOUS
  <2>9. Advance(size, Appended(K), more, Capped) BY <2>1, <2>5
  <2> QED BY <2>2, <2>3, <2>4, <2>6, <2>7, <2>8, <2>9, <2>1, AdvanceCompletes
<1> QED BY <1>1, JiraIssues, JiraProjects, JiraComments, NextKeyCompletes DEF InJira!Next

-----------------------------------------------------------------------------
(* The service between two pages.                                           *)

\* What is listed was listed before, and not read before if pages kept their place; or it is
\* new. And what was still to be read still is.
LEMMA MovedCompletes ==
  ASSUME Inv, pc = "paging", pages > 0, UNCHANGED <<req, asked, sent, emitted, warned, pc, withheld>>,
         held' \subseteq Stored(Table), standing' \subseteq standing, Undisturbed' => Undisturbed, Sorted(listing)',
         \A i \in DOMAIN listing' :
           \/ \E j \in DOMAIN listing : listing'[i] = listing[j] /\ (i > next' /\ asked.keyset => j > next)
           \/ /\ \A f \in asked.filters : Passes(f, listing'[i])
              /\ listing'[i] \notin emitted /\ listing'[i] \notin standing',
         Undisturbed' /\ Limits => asked.keyset,
         Undisturbed' => \A row \in standing' : Unread(row) => Unread(row)'
  PROVE  CompleteInv'
<1>1. ListInv BY DEF Inv, CompleteInv
<1>2. ~InOneAnswer
  <2>1. pages \in Nat BY DEF Inv, RowsInv, TypeOK
  <2>2. InOneAnswer => pages = 0 BY <1>1 DEF ListInv, place
  <2> QED BY <2>1, <2>2
<1>3. /\ Table' = Table /\ (OfOneList' <=> OfOneList) /\ (InOneAnswer' <=> InOneAnswer)
      /\ (Understood(req)' <=> Understood(req)) /\ \A row : Wanted(row)' <=> Wanted(row)
  BY SameRequest
<1>4. ListInv'
  <2>1. \A i \in DOMAIN listing' : \A f \in asked'.filters : Passes(f, listing'[i]) BY <1>1 DEF ListInv
  <2> QED BY <1>1, <1>2, <1>3, <2>1 DEF ListInv, Limits
<1>5. ASSUME Understood(req), Undisturbed' PROVE NoneSkipped'
  <2>1. CASE WillWarn
    <3>1. warned' BY <1>2, <2>1, WarnsNow
    <3> QED BY <3>1 DEF NoneSkipped, WillWarn
  <2>2. CASE ~WillWarn
    <3>1. \A row \in standing : Wanted(row) => row \in emitted \cup withheld \/ Unread(row) \/ Awaited(row)
      BY <1>5, <2>2 DEF Inv, CompleteInv, NoneSkipped
    <3>2. \A row : Awaited(row)' <=> Awaited(row) BY DEF Awaited, InJira!In, InJira!Text
    <3>3. \A row \in standing' : Wanted(row)' => row \in emitted' \cup withheld' \/ Unread(row)' \/ Awaited(row)'
      BY <1>3, <1>5, <3>1, <3>2
    <3> QED BY <3>3 DEF NoneSkipped
  <2> QED BY <2>1, <2>2
<1>6. ASSUME Understood(req), Undisturbed', Limits PROVE Exactly'
  <2>1. Exactly /\ asked.keyset BY <1>6 DEF Inv, CompleteInv
  <2>2. ASSUME NEW i \in DOMAIN listing', i > next', listing'[i] \in standing'
        PROVE  \E j \in DOMAIN listing : listing'[i] = listing[j] /\ j > next /\ listing[j] \in standing
    BY <2>1, <2>2
  <2>3. \A row \in emitted : \A i \in DOMAIN listing' : i > next' /\ listing'[i] \in standing' =>
          ~Before(req.order, SortKey(req.order, listing'[i]), SortKey(req.order, row))
    BY <2>1, <2>2 DEF Exactly
  <2>4. Fresh' BY <2>1 DEF Exactly, Fresh
  <2>5. \A row \in Stored(Table)' : row.is_row /\ (\A f \in asked'.filters : Passes(f, row)) => Wanted(row)'
    BY <1>3, <2>1 DEF Exactly
  <2>6. \A row \in emitted' : Wanted(row)' BY <1>3, <2>1 DEF Exactly
  <2> QED BY <2>1, <2>3, <2>4, <2>5, <2>6 DEF Exactly
<1>7. (held \cup standing \cup emitted)' \subseteq Stored(Table)' BY <1>3 DEF Inv, CompleteInv
<1>8. (pc = "paging" /\ Understood(req) /\ Undisturbed => NoneSkipped /\ (Limits => Exactly))'
  <2>1. Limits' = Limits BY DEF Limits
  <2> QED BY <1>3, <1>5, <1>6, <2>1
<1> QED BY <1>4, <1>7, <1>8 DEF CompleteInv, Complete

LEMMA VanishCompletes ==
  ASSUME Inv, NEW at \in DOMAIN listing, Vanish(at)
  PROVE  CompleteInv'
<1>1. /\ Len(listing) \in Nat /\ DOMAIN listing = 1..Len(listing) /\ next \in Nat
      /\ \A i \in 1..Len(listing) : listing[i] \in held
  BY ListLength DEF Inv
<1>2. PICK l, r, n : l = listing /\ r = listing' /\ n = Len(listing) OBVIOUS
<1>3. n \in Nat /\ at \in 1..n BY <1>1, <1>2
<1>4. DOMAIN r = 1..(n - 1) /\ \A i \in 1..(n - 1) : r[i] = IF i < at THEN l[i] ELSE l[i + 1]
  <2>1. listing' = SubSeq(listing, 1, at - 1) \o SubSeq(listing, at + 1, Len(listing)) BY DEF Vanish
  <2> QED BY <1>2, <2>1, VanishList DEF Inv
<1>5. /\ pc = "paging" /\ pages > 0 /\ held' = held \ {l[at]} /\ standing' = standing \ {l[at]}
      /\ moves' = moves \cup {"vanish"} /\ next' = next - Ahead(at)
      /\ UNCHANGED <<req, asked, sent, emitted, warned, pc, withheld>>
  BY <1>2 DEF Vanish, result
<1>6. asked.keyset => next' = IF at <= next THEN next - 1 ELSE next BY <1>1, <1>5 DEF Ahead
<1>7. Undisturbed' => asked.keyset /\ Undisturbed BY <1>5 DEF Undisturbed
<1>8. held' \subseteq Stored(Table) BY <1>5 DEF Inv, CompleteInv
<1>9. \A i \in 1..(n - 1) : \E j \in 1..n :
        /\ j = IF i < at THEN i ELSE i + 1
        /\ r[i] = l[j] /\ (i > next' /\ asked.keyset => j > next)
  <2> SUFFICES ASSUME NEW i \in 1..(n - 1)
               PROVE  \E j \in 1..n : /\ j = IF i < at THEN i ELSE i + 1
                                      /\ r[i] = l[j] /\ (i > next' /\ asked.keyset => j > next)
    OBVIOUS
  <2>1. PICK j : j = IF i < at THEN i ELSE i + 1 OBVIOUS
  <2>2. j \in 1..n /\ r[i] = l[j] BY <1>3, <1>4, <2>1
  <2>3. i > next' /\ asked.keyset => j > next BY <1>1, <1>3, <1>6, <2>1
  <2> QED BY <2>1, <2>2, <2>3
<1>10. Sorted(listing)'
  <2>1. Sorted(listing) BY <1>5 DEF Inv, CompleteInv, ListInv
  <2>2. ASSUME NEW i \in 1..(n - 1), NEW j \in 1..(n - 1), i < j
        PROVE  ~Before(asked.order, SortKey(asked.order, r[j]), SortKey(asked.order, r[i]))
    <3>1. PICK x \in 1..n : x = (IF i < at THEN i ELSE i + 1) /\ r[i] = l[x] BY <1>9
    <3>2. PICK y \in 1..n : y = (IF j < at THEN j ELSE j + 1) /\ r[j] = l[y] BY <1>9
    <3>3. x < y BY <1>3, <2>2, <3>1, <3>2
    <3> QED BY <1>1, <1>2, <2>1, <3>1, <3>2, <3>3 DEF Sorted
  <2> QED BY <1>2, <1>4, <1>5, <2>2 DEF Sorted
<1>11. ASSUME asked.keyset, NEW row \in standing', Unread(row) PROVE Unread(row)'
  <2>1. PICK i \in 1..n : i > next /\ l[i] = row BY <1>1, <1>2, <1>11 DEF Unread
  <2>2. i # at BY <1>5, <2>1
  <2>3. PICK j : j = IF i < at THEN i ELSE i - 1 OBVIOUS
  <2>4. j \in 1..(n - 1) /\ j > next' BY <1>1, <1>3, <1>6, <1>11, <2>1, <2>2, <2>3
  <2>5. r[j] = l[i] BY <1>3, <1>4, <2>1, <2>2, <2>3, <2>4
  <2> QED BY <1>2, <1>4, <2>1, <2>4, <2>5 DEF Unread
<1>12. \A i \in DOMAIN listing' :
         \E j \in DOMAIN listing : listing'[i] = listing[j] /\ (i > next' /\ asked.keyset => j > next)
  BY <1>1, <1>2, <1>4, <1>9
<1> QED BY <1>5, <1>7, <1>8, <1>10, <1>11, <1>12, MovedCompletes

LEMMA AppearCompletes ==
  ASSUME Inv, NEW row, row \in Arrivals[Table], Appear(row)
  PROVE  CompleteInv'
<1>1. /\ Len(listing) \in Nat /\ DOMAIN listing = 1..Len(listing) /\ next \in Nat
      /\ \A i \in 1..Len(listing) : listing[i] \in held
  BY ListLength DEF Inv
<1>2. /\ pc = "paging" /\ pages > 0 /\ row \notin held /\ held' = held \cup {row} /\ "appear" \notin moves
      /\ moves' = moves \cup {"appear"} /\ Sorted(listing')
      /\ UNCHANGED <<req, standing, asked, sent, emitted, warned, pc, withheld>>
  BY DEF Appear, result
<1>3. row \notin emitted /\ row \notin standing' BY <1>2 DEF Inv, RowsInv, TypeOK
<1>4. held' \subseteq Stored(Table)
  <2>1. row \in Stored(Table) BY DEF Stored
  <2> QED BY <1>2, <2>1 DEF Inv, CompleteInv
<1>5. Undisturbed' => Undisturbed /\ (Limits => asked.keyset)
  <2>1. "appear" \in moves' BY <1>2
  <2>2. moves' = {"appear"} => moves = {} BY <1>2
  <2> QED BY <1>2, <2>1, <2>2 DEF Undisturbed, Limits
<1>6. Sorted(listing)' BY <1>2 DEF Sorted
<1>7. CASE UNCHANGED <<listing, next>>
  <2>1. \A i \in DOMAIN listing' :
          \E j \in DOMAIN listing : listing'[i] = listing[j] /\ (i > next' /\ asked.keyset => j > next)
    BY <1>7
  <2>2. \A x : Unread(x) => Unread(x)' BY <1>7 DEF Unread
  <2> QED BY <1>2, <1>4, <1>5, <1>6, <2>1, <2>2, MovedCompletes
<1>8. CASE \E at \in 1..(Len(listing) + 1) :
             /\ listing' = SubSeq(listing, 1, at - 1) \o <<row>> \o SubSeq(listing, at, Len(listing))
             /\ next' = next + Ahead(at) /\ Passing(asked.filters, {row}) # {}
  <2>1. PICK l, r, n : l = listing /\ r = listing' /\ n = Len(listing) OBVIOUS
  <2>2. PICK at \in 1..(Len(listing) + 1) :
             /\ listing' = SubSeq(listing, 1, at - 1) \o <<row>> \o SubSeq(listing, at, Len(listing))
             /\ next' = next + Ahead(at) /\ Passing(asked.filters, {row}) # {}
    BY <1>8
  <2>3. n \in Nat /\ at \in 1..(n + 1) BY <1>1, <2>1
  <2>4. /\ DOMAIN r = 1..(n + 1)
        /\ \A i \in 1..(n + 1) : r[i] = IF i < at THEN l[i] ELSE IF i = at THEN row ELSE l[i - 1]
    <3>1. /\ DOMAIN listing' = 1..(Len(listing) + 1)
          /\ \A i \in 1..(Len(listing) + 1) :
               listing'[i] = IF i < at THEN listing[i] ELSE IF i = at THEN row ELSE listing[i - 1]
      BY <2>2, AppearList DEF Inv
    <3> QED BY <2>1, <3>1
  <2>5. \A f \in asked.filters : Passes(f, row) BY <2>2 DEF Passing
  <2>6. next' = IF asked.keyset /\ at <= next THEN next + 1 ELSE next BY <1>1, <2>2 DEF Ahead
  <2>7. ASSUME NEW i \in 1..(n + 1), i # at
        PROVE  \E j \in 1..n : r[i] = l[j] /\ (i > next' /\ asked.keyset => j > next)
    <3>1. PICK j : j = IF i < at THEN i ELSE i - 1 OBVIOUS
    <3>2. j \in 1..n BY <2>3, <2>7, <3>1
    <3>3. r[i] = l[j] BY <2>3, <2>4, <2>7, <3>1
    <3>4. i > next' /\ asked.keyset => j > next BY <1>1, <2>3, <2>6, <2>7, <3>1
    <3> QED BY <3>2, <3>3, <3>4
  <2>8. r[at] = row
    <3>1. at \in 1..(n + 1) /\ ~(at < at) BY <2>3
    <3> QED BY <2>4, <3>1
  <2>9. ASSUME NEW i \in DOMAIN listing'
        PROVE  \/ \E j \in DOMAIN listing : listing'[i] = listing[j] /\ (i > next' /\ asked.keyset => j > next)
               \/ /\ \A f \in asked.filters : Passes(f, listing'[i])
                  /\ listing'[i] \notin emitted /\ listing'[i] \notin standing'
    <3>1. i \in 1..(n + 1) BY <2>1, <2>4
    <3>2. CASE i = at BY <1>3, <2>1, <2>5, <2>8, <3>2
    <3>3. CASE i # at
      <4>1. PICK j \in 1..n : r[i] = l[j] /\ (i > next' /\ asked.keyset => j > next) BY <2>7, <3>1, <3>3
      <4> QED BY <1>1, <2>1, <4>1
    <3> QED BY <3>2, <3>3
  <2>10. ASSUME NEW x, Unread(x) PROVE Unread(x)'
    <3>1. PICK i \in 1..n : i > next /\ l[i] = x BY <1>1, <2>1, <2>10 DEF Unread
    <3>2. PICK j : j = IF i < at THEN i ELSE i + 1 OBVIOUS
    <3>3. j \in 1..(n + 1) /\ j > next' BY <1>1, <2>3, <2>6, <3>1, <3>2
    <3>4. r[j] = l[i]
      <4>1. CASE i < at BY <2>4, <3>2, <3>3, <4>1
      <4>2. CASE ~(i < at)
        <5>1. j = i + 1 /\ ~(j < at) /\ j # at /\ j - 1 = i BY <2>3, <3>1, <3>2, <4>2
        <5> QED BY <2>4, <3>3, <5>1
      <4> QED BY <4>1, <4>2
    <3> QED BY <2>1, <2>4, <3>1, <3>3, <3>4 DEF Unread
  <2> QED BY <1>2, <1>4, <1>5, <1>6, <2>9, <2>10, MovedCompletes
<1> QED BY <1>7, <1>8 DEF Appear

-----------------------------------------------------------------------------
(* The theorem.                                                             *)

LEMMA CompleteInit == Init => CompleteInv
<1> SUFFICES ASSUME Init PROVE CompleteInv OBVIOUS
<1>1. held \subseteq Stored(Table) BY DEF Init, Stored
<1> QED BY <1>1 DEF Init, CompleteInv, Complete

LEMMA CompleteNext == Inv /\ [Next]_vars => CompleteInv'
<1> SUFFICES ASSUME Inv, [Next]_vars PROVE CompleteInv' OBVIOUS
<1>1. CASE Scan
  <2>1. withheld' = withheld \cup Withheld /\ withheld \subseteq withheld' /\ UNCHANGED moves BY <1>1 DEF Scan
  <2> QED
  BY <1>1, <2>1, GitHubCompletes, SlackCompletes, NewRelicCompletes, CkanCompletes, JiraCompletes, PostgresCompletes,
     GitCompletes, JaegerCompletes, DockerCompletes
     DEF Scan
<1>2. CASE Fail /\ UNCHANGED <<moves, withheld>>
  <2>1. pc' = "failed" /\ UNCHANGED <<req, held, standing, emitted>> BY <1>2 DEF Fail, result
  <2>2. Table' = Table BY <2>1, SameRequest
  <2> QED BY <2>1, <2>2 DEF Inv, CompleteInv, Complete
<1>3. CASE \E row \in Arrivals[Table] : Appear(row) BY <1>3, AppearCompletes
<1>4. CASE \E at \in DOMAIN listing : Vanish(at) BY <1>4, VanishCompletes
<1>5. CASE UNCHANGED vars
  <2>1. /\ UNCHANGED <<req, held, standing, asked, listing, next, pages, idle, sent, emitted, warned, pc, moves, withheld>>
        /\ CompleteInv
    BY <1>5 DEF vars, Inv
  <2>2. /\ Table' = Table /\ Filters' = Filters /\ (Understood(req)' <=> Understood(req))
        /\ (OfOneList' <=> OfOneList) /\ (InOneAnswer' <=> InOneAnswer) /\ \A row : Wanted(row)' <=> Wanted(row)
    BY <2>1, SameRequest
  <2>3. pc = "paging" => ListInv'
    <3>1. RowsAtOnce(asked.size)' <=> RowsAtOnce(asked.size) BY <2>1, SameWindow DEF RowsAtOnce
    <3> QED BY <2>1, <2>2, <3>1 DEF CompleteInv, ListInv, Sorted, place, Limits
  <2>4. (Limits' <=> Limits) /\ (Undisturbed' <=> Undisturbed) /\ (Keeps' <=> Keeps)
    BY <2>1 DEF Limits, Undisturbed, Keeps
  <2>5. ASSUME NoneSkipped PROVE NoneSkipped'
    <3>1. WillWarn => WillWarn' BY <2>1, SameWindow DEF WillWarn
    <3>2. \A row : (Unread(row)' <=> Unread(row)) /\ (Awaited(row)' <=> Awaited(row))
      BY <2>1 DEF Unread, Awaited, InJira!In, InJira!Text
    <3> QED BY <3>1, <3>2, <2>1, <2>2, <2>5 DEF NoneSkipped
  <2>6. ASSUME Exactly PROVE Exactly'
    BY <2>1, <2>2, <2>6 DEF Exactly, Fresh
  <2>7. (Understood(req) => Complete)' BY <2>1, <2>2, <2>4 DEF CompleteInv, Complete
  <2> QED BY <2>1, <2>2, <2>3, <2>4, <2>5, <2>6, <2>7 DEF CompleteInv
<1> QED BY <1>1, <1>2, <1>3, <1>4, <1>5 DEF Next

\* Complete: a scan that returns without a warning has served its request for all rows that
\* were there while it ran, and for the pages whose place the rows that came and went did not
\* move, as long as the connector understands the literals of the request and no other filter
\* hides those that its LIMIT rides beside; but for rows that the service listed and withheld
\* without a word (Jira's empty page while more is announced, Jaeger's own limit below the
\* number of traces that looks cut).
THEOREM ScansAreComplete == Spec => [](Understood(req) => Complete)
<1>1. Init => Inv BY RowsInit, CompleteInit DEF Inv
<1>2. Inv /\ [Next]_vars => Inv'
  <2>1. Inv /\ [Next]_vars => RowsInv' BY RowsNext DEF Inv
  <2>2. Inv /\ [Next]_vars => CompleteInv' BY CompleteNext
  <2> QED BY <2>1, <2>2 DEF Inv
<1>3. Inv => (Understood(req) => Complete) BY DEF Inv, CompleteInv
<1> QED BY <1>1, <1>2, <1>3, PTL DEF Spec

-----------------------------------------------------------------------------
(* The window of a search.                                                  *)

\* The bounds in time of a request that has only upper ones.
LEMMA OnlyEnds ==
  ASSUME req \in Requests, HasOnlyEnd
  PROVE  \E m \in Int :
           /\ m = Max(Bounds({"<", "<="}))
           /\ \E f \in Filters : f.column = TimeColumn /\ f.op \in {"<", "<="}
           /\ \A f \in Filters : f.column = TimeColumn =>
                /\ f.op \notin {">", ">=", "=", "between"}
                /\ f.op \in {"<", "<="} =>
                     /\ DOMAIN f.values = {1} /\ To(f) = f.values[1]
                     /\ f.values[1].v \in Int /\ f.values[1].v <= m
<1> DEFINE D == {f \in Filters : f.column = TimeColumn /\ f.op \in {"<", "<="}}
           g == [f \in D |-> f.values[1].v]
<1> PICK B : B = Bounds({"<", "<="}) OBVIOUS
<1>1. D \in SUBSET Filters /\ B = {f.values[1].v : f \in D} /\ D # {} BY DEF Bounds, HasOnlyEnd
<1>2. \A f \in D : /\ DOMAIN f.values = {1} /\ To(f) = f.values[1] /\ f.values[1].v \in Int
  <2> SUFFICES ASSUME NEW f \in D PROVE DOMAIN f.values = {1} /\ To(f) = f.values[1] /\ f.values[1].v \in Int
    OBVIOUS
  <2>1. DOMAIN f.values = 1..Len(f.values) /\ Len(f.values) = 1 /\ \A j \in DOMAIN f.values : f.values[j].v \in Int
    BY Shape
  <2>2. 1..1 = {1} OBVIOUS
  <2> QED BY <2>1, <2>2 DEF To
<1>3. IsFiniteSet(B)
  <2> HIDE DEF D
  <2>1. DOMAIN g = D /\ g = [f \in D |-> g[f]] OBVIOUS
  <2>2. {g[f] : f \in D} = B BY <1>1
  <2> HIDE DEF g
  <2> QED BY <1>1, <2>1, <2>2, OnePerFilter
<1>4. B # {} /\ B \subseteq Int
  <2>1. PICK h \in D : TRUE BY <1>1
  <2>2. h.values[1].v \in B BY <1>1
  <2>3. \A x \in B : \E f \in D : x = f.values[1].v BY <1>1
  <2>4. \A x \in B : x \in Int BY <1>2, <2>3
  <2> QED BY <2>2, <2>4
<1>5. Max(B) \in B /\ \A x \in B : x <= Max(B) BY <1>3, <1>4, MaxMin
<1>6. \A f \in Filters : f.column = TimeColumn => f.op \notin {">", ">=", "=", "between"}
  BY DEF HasOnlyEnd, Bounds
<1>7. ASSUME NEW f \in Filters, f.column = TimeColumn, f.op \in {"<", "<="}
      PROVE  /\ DOMAIN f.values = {1} /\ To(f) = f.values[1]
             /\ f.values[1].v \in Int /\ f.values[1].v <= Max(B)
  <2>1. f \in D BY <1>7
  <2>2. f.values[1].v \in B BY <1>1, <2>1
  <2> QED BY <1>2, <1>5, <2>1, <2>2
<1>8. \E f \in Filters : f.column = TimeColumn /\ f.op \in {"<", "<="} BY <1>1
<1>9. Max(B) \in Int BY <1>4, <1>5
<1> QED BY <1>6, <1>7, <1>8, <1>9

\* Rows of the window pass the filters, and have a time that is one.
LEMMA InWindow ==
  ASSUME Inv, HasOnlyEnd, NEW row \in BeforeEnd
  PROVE  /\ row \in held /\ row \in Stored(Table) /\ \A f \in Filters : Passes(f, row)
         /\ row[TimeColumn] \in Int /\ row[TimeColumn] # Null
         /\ row[TimeColumn] >= Max(Bounds({"<", "<="})) + Outward - Window
<1>1. /\ row \in held /\ \A f \in Filters : Passes(f, row)
      /\ row[TimeColumn] >= Max(Bounds({"<", "<="})) + Outward - Window
  BY DEF BeforeEnd, Passing
<1>2. req \in Requests /\ row \in Stored(Table) BY <1>1, AtStart
<1>3. PICK f \in Filters : f.column = TimeColumn BY <1>2, OnlyEnds
<1>4. row[TimeColumn] \in Int BY <1>1, <1>2, <1>3, EndsHold
<1> QED BY <1>1, <1>2, <1>4, NullAssumption

\* Nothing of the window changes while the request and the service stay.
LEMMA SameBounds ==
  ASSUME UNCHANGED req
  PROVE  /\ (Searched' <=> Searched) /\ (HasOnlyEnd' <=> HasOnlyEnd) /\ (Timed' <=> Timed)
         /\ UNCHANGED held => BeforeEnd' = BeforeEnd
<1>1. Filters' = Filters BY SameRequest
<1>2. (Spanned' <=> Spanned) /\ TimeColumn' = TimeColumn /\ Outward' = Outward
  BY DEF Spanned, TimeColumn, Outward
<1>3. \A ops : Bounds(ops)' = Bounds(ops) BY <1>1, <1>2 DEF Bounds
<1>4. Searched' <=> Searched BY <1>2, SameWindow DEF Searched
<1>5. HasOnlyEnd' <=> HasOnlyEnd BY <1>3 DEF HasOnlyEnd
<1>6. Timed' <=> Timed BY <1>1, <1>2 DEF Timed, Typed
<1>7. ASSUME UNCHANGED held PROVE BeforeEnd' = BeforeEnd BY <1>1, <1>2, <1>3, <1>7 DEF BeforeEnd
<1> QED BY <1>4, <1>5, <1>6, <1>7

\* A request that selects all rows of the window has them all in its list.
LEMMA AskWindow ==
  ASSUME Inv, pc = "start", NEW F, NEW o, NEW z, NEW stop, NEW k, Ask(F, o, z, stop, k),
         stop = Null /\ HasOnlyEnd /\ Timed => \A row \in BeforeEnd : \A f \in F : Passes(f, row)
  PROVE  WindowInv'
<1>1. /\ listing' \in Listings(Passing(F, held), o) /\ asked'.stop = stop /\ pc' = "paging"
      /\ UNCHANGED <<req, held>>
  BY DEF Ask, List, Asked
<1>2. PICK rows, l : rows = Passing(F, held) /\ l = listing' OBVIOUS
<1>3. IsFiniteSet(rows)
  <2>1. rows \in SUBSET held BY <1>2 DEF Passing
  <2> QED BY <2>1, FS_Subset DEF Inv, RowsInv
<1>4. \A row \in rows : \E i \in DOMAIN l : l[i] = row BY <1>1, <1>2, <1>3, ListHoldsAll
<1>5. ASSUME stop = Null, HasOnlyEnd, Timed, NEW row \in BeforeEnd PROVE \E i \in DOMAIN listing' : listing'[i] = row
  <2>1. row \in rows BY <1>2, <1>5, InWindow DEF Passing
  <2> QED BY <1>2, <1>4, <2>1
<1>6. ~WindowBeforeBound' => FALSE BY <1>1 DEF WindowBeforeBound
<1> QED BY <1>1, <1>5, <1>6, SameBounds DEF WindowInv, Limits

\* An answer that ends with the list has all that is listed.
LEMMA AnswerWindow ==
  ASSUME Inv, WindowInv, pc = "paging", InOneAnswer, NEW size \in Nat, NEW w, AnswerOf(size, PageOf(size), w)
  PROVE  WindowInv'
<1>1. /\ UNCHANGED <<req, held, asked, listing>> /\ pc' = "done" /\ next' = next + size
      /\ emitted' = emitted \cup {listing[i] : i \in PageOf(size)}
  BY DEF AnswerOf, Turn, Emit
<1>2. ASSUME Searched, ~Limits, Len(listing) <= next + size, HasOnlyEnd, Timed PROVE BeforeEnd \subseteq emitted'
  <2>1. \A row \in BeforeEnd : \E i \in DOMAIN listing : listing[i] = row BY <1>2 DEF WindowInv
  <2>2. next = 0 BY DEF Inv, CompleteInv, ListInv, place
  <2>3. Len(listing) \in Nat /\ DOMAIN listing = 1..Len(listing) BY ListLength DEF Inv
  <2>4. \A i \in DOMAIN listing : i \in PageOf(size) BY <1>2, <2>2, <2>3 DEF PageOf
  <2> QED BY <1>1, <2>1, <2>4
<1>3. (Timed => WindowBeforeBound)'
  <2>1. Limits' <=> Limits BY <1>1 DEF Limits
  <2> QED BY <1>1, <1>2, <2>1, SameBounds DEF WindowBeforeBound
<1> QED BY <1>1, <1>3 DEF WindowInv

LEMMA JaegerWindows ==
  ASSUME Inv, InJaeger!On("spans"), HasOnlyEnd, Timed, NEW row \in BeforeEnd,
         NEW F, F = InJaeger!EqOf("service_name", "string") \cup InJaeger!EqOf("operation_name", "string")
                      \cup InJaeger!Duration \cup {InJaeger!At(">=", v) : v \in InJaeger!Earliest}
                      \cup {InJaeger!At("<=", v) : v \in InJaeger!Latest}
  PROVE  \A f \in F : Passes(f, row)
<1>0. /\ req \in Requests /\ Spanned /\ TimeColumn = "start_time" /\ Outward = Slack
      /\ Slack \in Nat /\ Window \in Nat
  BY AtStart, SizeAssumption DEF InJaeger!On, InJaeger!Here, Spanned, TimeColumn, Outward
<1>1. /\ \A c, t : InJaeger!EqOf(c, t) = EqOf(c, t)
      /\ InJaeger!Since = {Shift(From(f), -Slack) : f \in LastOn("start_time", Ups, "string")}
      /\ InJaeger!Until = {Shift(To(f), Slack) : f \in LastOn("start_time", Downs, "string")}
      /\ InJaeger!Duration = {Bound(f, ">=", From(f)) : f \in LastOn("duration_ms", Ups, "int64")}
                               \cup {Bound(f, "<=", To(f)) : f \in LastOn("duration_ms", Downs, "int64")}
      /\ \A v, n : InJaeger!Shift(v, n) = Shift(v, n)
  BY JaegerReads DEF InJaeger!Since, InJaeger!Until, InJaeger!Duration
<1>2. PICK m \in Int :
        /\ m = Max(Bounds({"<", "<="}))
        /\ \E f \in Filters : f.column = "start_time" /\ f.op \in {"<", "<="}
        /\ \A f \in Filters : f.column = "start_time" =>
             /\ f.op \notin {">", ">=", "=", "between"}
             /\ f.op \in {"<", "<="} =>
                  /\ DOMAIN f.values = {1} /\ To(f) = f.values[1]
                  /\ f.values[1].v \in Int /\ f.values[1].v <= m
  BY <1>0, OnlyEnds
<1> PICK cell : cell = row["start_time"] OBVIOUS
<1>3. /\ row \in Stored(Table) /\ \A f \in Filters : Passes(f, row)
      /\ cell \in Int /\ cell # Null /\ cell >= m + Slack - Window
  BY <1>0, <1>2, InWindow
<1>4. InJaeger!Since = {}
  <2>1. \A f \in LastOn("start_time", Ups, "string") : FALSE BY <1>2, OfFilters DEF Ups
  <2> QED BY <1>1, <2>1
<1>5. InJaeger!Until # {}
  <2>1. PICK f \in Filters : f.column = "start_time" /\ f.op \in {"<", "<="} BY <1>2
  <2>2. Typed(f, "string") /\ f.op \in Downs BY <1>0, <2>1 DEF Timed, Downs
  <2>3. \E g \in LastOn("start_time", Downs, "string") : TRUE BY <1>0, <2>1, <2>2, LastThere
  <2> QED BY <1>1, <2>3
<1>6. ASSUME NEW u \in InJaeger!Until PROVE u.v \in Int /\ cell <= u.v /\ u.v <= m + Slack
                                            /\ Shift(u, -Window).v = u.v - Window
  <2>1. PICK f \in LastOn("start_time", Downs, "string") : u = Shift(To(f), Slack) BY <1>1
  <2>2. f \in Filters /\ f.column = "start_time" /\ f.op \in {"<", "<="} BY <1>2, OfFilters DEF Downs
  <2>3. f.op \in Downs BY <2>2 DEF Downs
  <2>4. To(f).v \in Int /\ cell <= To(f).v BY <1>0, <1>3, <2>2, <2>3, EndsHold
  <2>5. To(f).v <= m /\ To(f) = f.values[1] /\ DOMAIN f.values = {1} BY <1>2, <2>2
  <2>6. u.v = To(f).v + Slack BY <1>0, <2>1, <2>2, ShiftIs
  <2>7. DOMAIN f.values[1] = {"type", "v"} BY <1>0, <2>2, <2>5, Shape
  <2>8. DOMAIN u = {"type", "v"} BY <2>1, <2>5, <2>7 DEF Shift
  <2>9. Shift(u, -Window).v = u.v + (-Window) BY <2>8 DEF Shift
  <2>10. u.v + (-Window) = u.v - Window BY <1>0, <2>4, <2>6
  <2> QED BY <1>0, <1>2, <1>3, <2>4, <2>5, <2>6, <2>9, <2>10
<1>7. ASSUME NEW f \in InJaeger!EqOf("service_name", "string") \cup InJaeger!EqOf("operation_name", "string")
      PROVE  Passes(f, row)
  BY <1>1, <1>3, OfFilters
<1>8. ASSUME NEW f \in InJaeger!Duration PROVE Passes(f, row) BY <1>0, <1>1, <1>3, LoosensAt
<1>9. ASSUME NEW v \in InJaeger!Earliest PROVE Passes(InJaeger!At(">=", v), row)
  <2>1. PICK u \in InJaeger!Until : v = Shift(u, -Window) BY <1>1, <1>4, <1>5 DEF InJaeger!Earliest
  <2>2. row["start_time"] >= v.v /\ row["start_time"] # Null BY <1>0, <1>2, <1>3, <1>6, <2>1
  <2> QED BY <2>2, AtBound DEF InJaeger!At
<1>10. ASSUME NEW v \in InJaeger!Latest PROVE Passes(InJaeger!At("<=", v), row)
  <2>1. v \in InJaeger!Until BY <1>5 DEF InJaeger!Latest
  <2>2. row["start_time"] <= v.v /\ row["start_time"] # Null BY <1>3, <1>6, <2>1
  <2> QED BY <2>2, AtBound DEF InJaeger!At
<1> QED BY <1>7, <1>8, <1>9, <1>10

LEMMA JaegerWindow ==
  ASSUME Inv, WindowInv, InJaeger!Next
  PROVE  WindowInv'
<1>0. req.schema = "jaeger"
  BY DEF InJaeger!Next, InJaeger!GetTrace, InJaeger!SearchTraces, InJaeger!Searches, InJaeger!ScanServices,
         InJaeger!ScanOperations, InJaeger!Decode, InJaeger!Here, InJaeger!On
<1>1. InOneAnswer BY <1>0 DEF InOneAnswer
<1>2. \A row \in BeforeEnd : \A f \in Filters : Passes(f, row) BY DEF BeforeEnd, Passing
<1>3. \A c, t : InJaeger!EqOf(c, t) \subseteq Filters BY JaegerReads, OfFilters
<1>4. ASSUME NEW F, F \subseteq Filters, pc = "start", Ask(F, <<>>, MaxInt, Null, TRUE) PROVE WindowInv'
  BY <1>2, <1>4, AskWindow
<1>5. CASE InJaeger!GetTrace
  <2>1. PICK F : F = InJaeger!EqOf("trace_id", "string") OBVIOUS
  <2> QED BY <1>3, <1>4, <1>5, <2>1, JaegerCopies DEF InJaeger!GetTrace, InJaeger!Everything
<1>6. CASE InJaeger!SearchTraces
  <2>1. PICK F : F = InJaeger!EqOf("service_name", "string") \cup InJaeger!EqOf("operation_name", "string")
                      \cup InJaeger!Duration \cup {InJaeger!At(">=", v) : v \in InJaeger!Earliest}
                      \cup {InJaeger!At("<=", v) : v \in InJaeger!Latest}
    OBVIOUS
  <2>2. PICK size : pc = "start" /\ InJaeger!On("spans") /\ Ask(F, <<>>, size, Null, TRUE)
    BY <1>6, <2>1, JaegerCopies DEF InJaeger!SearchTraces, InJaeger!Searches
  <2>3. HasOnlyEnd /\ Timed => \A row \in BeforeEnd : \A f \in F : Passes(f, row)
    BY <2>1, <2>2, JaegerWindows
  <2> QED BY <2>2, <2>3, AskWindow
<1>7. CASE InJaeger!ScanServices
  <2>1. PICK F : F = {} OBVIOUS
  <2>2. F \subseteq Filters BY <2>1
  <2>3. pc = "start" /\ Ask(F, <<>>, MaxInt, Null, TRUE)
    BY <1>7, <2>1, JaegerCopies DEF InJaeger!ScanServices, InJaeger!Everything
  <2> QED BY <1>4, <2>2, <2>3
<1>8. CASE InJaeger!ScanOperations
  <2>1. PICK F : F = InJaeger!EqOf("service_name", "string") \cup InJaeger!EqOf("span_kind", "string") OBVIOUS
  <2>2. F \subseteq Filters BY <1>3, <2>1
  <2> QED BY <1>4, <1>8, <2>1, <2>2, JaegerCopies DEF InJaeger!ScanOperations, InJaeger!Everything
<1>9. CASE InJaeger!Decode
  <2>1. PICK size \in InJaeger!Sends : pc = "paging" /\ \E w : AnswerOf(size, PageOf(size), w)
    BY <1>9, JaegerCopies DEF InJaeger!Decode
  <2>2. asked.size \in Nat /\ MaxInt \in Nat /\ Len(listing) \in Nat
    BY <2>1, SizeIsNat, SizeAssumption, ListLength DEF Inv
  <2>3. size \in Nat BY <2>1, <2>2 DEF InJaeger!Sends, InJaeger!Everything
  <2> QED BY <1>1, <2>1, <2>3, AnswerWindow
<1> QED BY <1>5, <1>6, <1>7, <1>8, <1>9 DEF InJaeger!Next

LEMMA NewRelicWindows ==
  ASSUME Inv, InNewRelic!Here, HasOnlyEnd, Timed, NEW row \in BeforeEnd, NEW f \in InNewRelic!Clauses
  PROVE  Passes(f, row)
<1>0. /\ req \in Requests /\ ~Spanned /\ TimeColumn = "timestamp" /\ Outward = 1 /\ Window \in Nat
  BY AtStart, SizeAssumption DEF InNewRelic!Here, Spanned, TimeColumn, Outward
<1>1. PICK m \in Int :
        /\ m = Max(Bounds({"<", "<="}))
        /\ \E g \in Filters : g.column = "timestamp" /\ g.op \in {"<", "<="}
        /\ \A g \in Filters : g.column = "timestamp" /\ g.op \in {"<", "<="} =>
             DOMAIN g.values = {1} /\ g.values[1].v \in Int /\ g.values[1].v <= m
  BY <1>0, OnlyEnds
<1> PICK cell, lo, hi : cell = row["timestamp"] /\ lo = InNewRelic!Lowers /\ hi = InNewRelic!Uppers OBVIOUS
<1>2. /\ row \in Stored(Table) /\ \A g \in Filters : Passes(g, row)
      /\ cell \in Int /\ cell # Null /\ cell >= m + 1 - Window
  BY <1>0, <1>1, InWindow
<1>3. CASE lo # {} BY <1>0, <1>2, <1>3, InClauses DEF InNewRelic!Windowed
<1>4. CASE lo = {}
  <2>1. IsFiniteSet(hi) /\ \A x \in hi : x \in Int /\ cell <= x BY <1>0, <1>2, BetweenEnds
  <2>2. PICK x \in hi : x <= m
    <3>1. PICK g \in Filters : g.column = "timestamp" /\ g.op \in {"<", "<="} BY <1>1
    <3>2. Typed(g, "int64") /\ 1 \in DOMAIN g.values BY <1>0, <1>1, <3>1 DEF Timed
    <3>3. InNewRelic!IsNumber(g.values[1]) BY <3>2 DEF Typed, InNewRelic!IsNumber
    <3>4. g.values[1].v \in InNewRelic!Ends({"<", "<=", "="}, 1)
      BY <3>1, <3>3, NewRelicReads DEF InNewRelic!Ends, InNewRelic!OnTime
    <3> QED BY <1>1, <3>1, <3>4 DEF InNewRelic!Uppers
  <2>3. PICK n : n = Min(hi) OBVIOUS
  <2>4. n \in Int /\ n <= m /\ cell <= n
    <3>1. hi \subseteq Int /\ hi # {} BY <2>1, <2>2
    <3>2. n \in hi /\ n <= x BY <2>1, <2>3, <3>1, MaxMin
    <3> QED BY <1>1, <2>1, <2>2, <3>2
  <2>5. InNewRelic!Min(hi) = n BY <2>3 DEF InNewRelic!Min, Min
  <2>6. CASE f \in Filters BY <1>2, <2>6
  <2>7. CASE f = InNewRelic!At(">=", InNewRelic!Since)
    <3>1. InNewRelic!Since = n + 1 - Window BY <1>4, <2>2, <2>5 DEF InNewRelic!Since
    <3>2. cell >= n + 1 - Window BY <1>0, <1>1, <1>2, <2>4
    <3> QED BY <1>2, <2>7, <3>1, <3>2 DEF InNewRelic!At, InNewRelic!Number, Passes
  <2>8. CASE f \in {InNewRelic!At("<=", v) : v \in InNewRelic!Until}
    <3>1. f = InNewRelic!At("<=", n + 1) BY <2>2, <2>5, <2>8 DEF InNewRelic!Until
    <3>2. cell <= n + 1 BY <1>2, <2>4
    <3> QED BY <1>2, <3>1, <3>2 DEF InNewRelic!At, InNewRelic!Number, Passes
  <2> QED BY <2>6, <2>7, <2>8, NewRelicReads DEF InNewRelic!Clauses
<1> QED BY <1>3, <1>4

LEMMA NewRelicWindow ==
  ASSUME Inv, WindowInv, InNewRelic!Next
  PROVE  WindowInv'
<1>0. req.schema = "newrelic"
  BY DEF InNewRelic!Next, InNewRelic!ScanCurated, InNewRelic!Page, InNewRelic!ScanNRDB, InNewRelic!Results,
         InNewRelic!Curated, InNewRelic!Here
<1>1. InOneAnswer <=> ~InNewRelic!Curated BY <1>0 DEF InOneAnswer
<1>2. CASE InNewRelic!Curated
  <2>1. UNCHANGED req
    BY <1>2 DEF InNewRelic!Next, InNewRelic!ScanCurated, InNewRelic!Page, InNewRelic!ScanNRDB, InNewRelic!Results,
                InNewRelic!Ask, InNewRelic!List, InNewRelic!Advance, InNewRelic!Turn
  <2>2. ~Searched' BY <1>0, <1>2, <2>1, SameBounds DEF Searched, Spanned
  <2> QED BY <2>2 DEF WindowInv, WindowBeforeBound
<1>3. CASE InNewRelic!ScanNRDB
  <2>1. PICK F, o, z, stop : /\ F = InNewRelic!Clauses /\ pc = "start"
                             /\ Ask(F, o, z, stop, TRUE)
    BY <1>3, NewRelicCopies DEF InNewRelic!ScanNRDB
  <2>2. HasOnlyEnd /\ Timed => \A row \in BeforeEnd : \A f \in F : Passes(f, row)
    BY <1>0, <2>1, NewRelicWindows DEF InNewRelic!Here
  <2> QED BY <2>1, <2>2, AskWindow
<1>4. CASE InNewRelic!Results
  <2>1. PICK w : pc = "paging" /\ ~InNewRelic!Curated /\ Answer(PageOf(asked.size), w)
    BY <1>4, NewRelicCopies DEF InNewRelic!Results
  <2>2. asked.size \in Nat BY <2>1, SizeIsNat
  <2> QED BY <1>1, <2>1, <2>2, AnswerWindow DEF Answer
<1> QED BY <1>2, <1>3, <1>4 DEF InNewRelic!Next, InNewRelic!ScanCurated, InNewRelic!Page

\* Whose step it is, by the schema asked for.
LEMMA ScansOfSchemas ==
  /\ InGitHub!Next => req.schema = "github" /\ UNCHANGED req
  /\ InSlack!Next => req.schema = "slack" /\ UNCHANGED req
  /\ InNewRelic!Next => req.schema = "newrelic" /\ UNCHANGED req
  /\ InCkan!Next => req.schema = "datagov" /\ UNCHANGED req
  /\ InJira!Next => req.schema = "jira" /\ UNCHANGED req
  /\ InPostgres!Next => req.schema = "postgres" /\ UNCHANGED req
  /\ InGit!Next => req.schema = "git" /\ UNCHANGED req
  /\ InJaeger!Next => req.schema = "jaeger" /\ UNCHANGED req
  /\ InDocker!Next => req.schema = "docker" /\ UNCHANGED req
<1>1. InGitHub!Next => req.schema = "github" /\ UNCHANGED req
  BY DEF InGitHub!Next, InGitHub!GetRepo, InGitHub!Start, InGitHub!Page, InGitHub!Here, InGitHub!Ask,
         InGitHub!List, InGitHub!Advance, InGitHub!Turn
<1>2. InSlack!Next => req.schema = "slack" /\ UNCHANGED req
  BY DEF InSlack!Next, InSlack!ScanChannels, InSlack!ScanUsers, InSlack!ScanMessages, InSlack!ScanSearch,
         InSlack!Page, InSlack!PageOfSearch, InSlack!On, InSlack!Here, InSlack!ScanWith, InSlack!Ask,
         InSlack!List, InSlack!Advance, InSlack!Turn
<1>3. InNewRelic!Next => req.schema = "newrelic" /\ UNCHANGED req
  BY DEF InNewRelic!Next, InNewRelic!ScanCurated, InNewRelic!Page, InNewRelic!ScanNRDB, InNewRelic!Results,
         InNewRelic!Curated, InNewRelic!Here, InNewRelic!Ask, InNewRelic!List, InNewRelic!Answer,
         InNewRelic!AnswerOf, InNewRelic!Advance, InNewRelic!Turn
<1>4. InCkan!Next => req.schema = "datagov" /\ UNCHANGED req
  BY DEF InCkan!Next, InCkan!ScanDatasets, InCkan!ScanResources, InCkan!ScanList, InCkan!Page, InCkan!Here,
         InCkan!Ask, InCkan!List, InCkan!Advance, InCkan!Turn
<1>5. InJira!Next => req.schema = "jira" /\ UNCHANGED req
  BY DEF InJira!Next, InJira!ScanIssues, InJira!ScanProjects, InJira!ScanComments, InJira!Page,
         InJira!NextKey, InJira!On, InJira!Here, InJira!Ask, InJira!List, InJira!Advance, InJira!Turn
<1>6. InPostgres!Next => req.schema = "postgres" /\ UNCHANGED req
  BY DEF InPostgres!Next, InPostgres!Scan, InPostgres!Rows, InPostgres!Here, InPostgres!Ask, InPostgres!List,
         InPostgres!Answer, InPostgres!AnswerOf, InPostgres!Turn
<1>7. InGit!Next => req.schema = "git" /\ UNCHANGED req
  BY DEF InGit!Next, InGit!ScanCommits, InGit!ScanWhole, InGit!Output, InGit!Here, InGit!Ask, InGit!List,
         InGit!Answer, InGit!AnswerOf, InGit!Turn
<1>8. InJaeger!Next => req.schema = "jaeger" /\ UNCHANGED req
  BY DEF InJaeger!Next, InJaeger!GetTrace, InJaeger!SearchTraces, InJaeger!Searches, InJaeger!ScanServices,
         InJaeger!ScanOperations, InJaeger!Decode, InJaeger!On, InJaeger!Here, InJaeger!Ask, InJaeger!List,
         InJaeger!AnswerOf, InJaeger!Turn
<1>9. InDocker!Next => req.schema = "docker" /\ UNCHANGED req
  BY DEF InDocker!Next, InDocker!Start, InDocker!Listed, InDocker!Here, InDocker!Ask, InDocker!List,
         InDocker!Answer, InDocker!AnswerOf, InDocker!Turn
<1> QED BY <1>1, <1>2, <1>3, <1>4, <1>5, <1>6, <1>7, <1>8, <1>9

\* The other connectors search no window.
LEMMA OtherWindows ==
  ASSUME \/ InGitHub!Next \/ InSlack!Next \/ InCkan!Next \/ InJira!Next \/ InPostgres!Next
         \/ InGit!Next \/ InDocker!Next
  PROVE  WindowInv'
<1>1. req.schema \notin {"newrelic", "jaeger"} /\ UNCHANGED req BY ScansOfSchemas
<1> QED BY <1>1, SameBounds DEF Searched, Spanned, InNewRelic!Curated, InNewRelic!Here, WindowInv, WindowBeforeBound

LEMMA WindowNext == Inv /\ WindowInv /\ [Next]_vars => WindowInv'
<1> SUFFICES ASSUME Inv, WindowInv, [Next]_vars PROVE WindowInv' OBVIOUS
<1>1. CASE Scan BY <1>1, JaegerWindow, NewRelicWindow, OtherWindows DEF Scan
<1>2. CASE Fail BY <1>2 DEF Fail, WindowInv, WindowBeforeBound
\* The service is still while all is in one answer.
<1>3. ASSUME pc = "paging", pages > 0, UNCHANGED <<req, pc>> PROVE WindowInv'
  <2>1. ~InOneAnswer
    <3>1. pages \in Nat BY DEF Inv, RowsInv, TypeOK
    <3>2. InOneAnswer => pages = 0 BY <1>3 DEF Inv, CompleteInv, ListInv, place
    <3> QED BY <1>3, <3>1, <3>2
  <2>2. ~Searched' BY <1>3, <2>1, SameBounds DEF InOneAnswer, Searched, Spanned
  <2> QED BY <2>2 DEF WindowInv, WindowBeforeBound
<1>4. CASE \E row \in Arrivals[Table] : Appear(row) BY <1>3, <1>4 DEF Appear
<1>5. CASE \E at \in DOMAIN listing : Vanish(at) BY <1>3, <1>5 DEF Vanish
<1>6. CASE UNCHANGED vars
  <2>1. UNCHANGED <<req, held, asked, listing, next, emitted, pc>> BY <1>6 DEF vars
  <2>2. Limits' <=> Limits BY <2>1 DEF Limits
  <2> QED BY <2>1, <2>2, SameBounds DEF WindowInv, WindowBeforeBound
<1> QED BY <1>1, <1>2, <1>4, <1>5, <1>6 DEF Next

\* WindowBeforeBound: a search of a connector that was only given an end in time, and was not cut,
\* has all rows of the window before that end, as long as the literals on the time are times.
THEOREM WindowIsBeforeBound == Spec => [](Timed => WindowBeforeBound)
<1>1. Init => Inv /\ WindowInv
  BY RowsInit, CompleteInit DEF Inv, Init, WindowInv, WindowBeforeBound
<1>2. Inv /\ WindowInv /\ [Next]_vars => (Inv /\ WindowInv)'
  <2>1. Inv /\ [Next]_vars => RowsInv' BY RowsNext DEF Inv
  <2>2. Inv /\ [Next]_vars => CompleteInv' BY CompleteNext
  <2> QED BY <2>1, <2>2, WindowNext DEF Inv
<1>3. Inv /\ WindowInv => (Timed => WindowBeforeBound) BY DEF WindowInv
<1> QED BY <1>1, <1>2, <1>3, PTL DEF Spec

-----------------------------------------------------------------------------
(* The comments of several issues.                                          *)

LEMMA SameKeys == ASSUME req' = req PROVE (KeysDiffer' <=> KeysDiffer) /\ (OfOneList' <=> OfOneList)
BY DEF KeysDiffer, OfOneList, InJira!IssueKeys, InJira!Asking, InJira!Strings, InJira!Nth, InJira!FilterOn,
       InJira!Typed, InJira!Cardinality

\* What is read on keeps to when the rows of a list are still listed, or gone.
LEMMA OnceMoved ==
  ASSUME Inv, OnceInv, pc = "paging", UNCHANGED <<req, asked, sent, emitted>>, pc' \in {"paging", "failed"},
         "appear" \notin moves' => /\ "appear" \notin moves
                                   /\ pc' = "paging" /\ Fresh => Fresh'
                                   /\ \A i \in DOMAIN listing' : \E j \in DOMAIN listing : listing'[i] = listing[j]
  PROVE  OnceInv'
<1>1. (KeysDiffer' <=> KeysDiffer) /\ (OfOneList' <=> OfOneList) BY SameKeys
<1>2. \A row : Awaited(row)' <=> Awaited(row) BY DEF Awaited, InJira!In, InJira!Text
<1> SUFFICES ASSUME ~OfOneList, KeysDiffer PROVE OnceInv' BY <1>1 DEF OnceInv
<1>3. (asked # Nothing => ~asked.keyset) /\ EachOnce' BY DEF OnceInv, EachOnce, Keeps
<1>4. ASSUME "appear" \notin moves', pc' = "paging"
      PROVE  /\ Fresh'
             /\ \A k, l \in DOMAIN asked'.rest : asked'.rest[k] = asked'.rest[l] => k = l
             /\ \A row \in emitted' : ~Awaited(row)'
             /\ \A row : (\E i \in DOMAIN listing' : listing'[i] = row) => ~Awaited(row)'
  <2>1. /\ Fresh
        /\ \A k, l \in DOMAIN asked.rest : asked.rest[k] = asked.rest[l] => k = l
        /\ \A row \in emitted : ~Awaited(row)
        /\ \A i \in DOMAIN listing : ~Awaited(listing[i])
    BY <1>4 DEF OnceInv
  <2>2. \A i \in DOMAIN listing' : ~Awaited(listing'[i]) BY <1>4, <2>1
  <2> QED BY <1>2, <1>4, <2>1, <2>2
<1>5. ASSUME "appear" \notin moves', pc' = "paging" PROVE (\A i \in DOMAIN listing : ~Awaited(listing[i]))'
  <2>1. \A row : (\E i \in DOMAIN listing' : listing'[i] = row) => ~Awaited(row)' BY <1>4, <1>5
  <2> QED BY <2>1 DEF Awaited, InJira!In, InJira!Text
<1>6. (\A row \in emitted : ~Awaited(row))' <=> \A row \in emitted' : ~Awaited(row)'
  BY DEF Awaited, InJira!In, InJira!Text
<1> QED BY <1>1, <1>3, <1>4, <1>5, <1>6 DEF OnceInv

LEMMA OncePage ==
  ASSUME Inv, OnceInv, InJira!Page, UNCHANGED moves
  PROVE  OnceInv'
<1>1. PICK size \in InJira!Sends : \E more, capped : Advance(size, Appended(PageOf(size)), more, capped)
  BY JiraCopies DEF InJira!Page
<1>2. PICK A, ended : A \in SUBSET PageOf(size) /\ Emit(A) /\ Turn(size, ended)
  <2>1. Appended(PageOf(size)) \in SUBSET PageOf(size) BY KeptOfPage
  <2> QED BY <1>1, <2>1 DEF Advance
<1>3. pc = "paging" /\ size \in Nat BY <1>1 DEF InJira!Page, InJira!Sends
<1>4. /\ next' = next + size /\ pc' \in {"paging", "done"}
      /\ UNCHANGED <<req, held, standing, asked, listing>>
  BY <1>2 DEF Turn
<1>5. /\ next \in Nat /\ DOMAIN listing = 1..Len(listing) /\ Len(listing) \in Nat
      /\ \A i, j \in DOMAIN listing : listing[i] = listing[j] => i = j
  BY ListLength DEF Inv
<1>6. A \in SUBSET (1..Len(listing)) /\ \A i \in A : next < i /\ i <= next + size BY <1>2 DEF PageOf
<1>7. emitted' = emitted \cup {listing[i] : i \in A} BY <1>2 DEF Emit
<1>8. (KeysDiffer' <=> KeysDiffer) /\ (OfOneList' <=> OfOneList) BY <1>4, SameKeys
<1> SUFFICES ASSUME ~OfOneList, KeysDiffer PROVE OnceInv' BY <1>8 DEF OnceInv
<1>9. asked # Nothing /\ ~asked.keyset
  <2>1. "size" \in DOMAIN asked BY <1>3 DEF Inv, RowsInv
  <2>2. asked # Nothing BY <2>1 DEF Nothing
  <2> QED BY <2>2 DEF OnceInv
<1>10. CASE "appear" \in moves
  <2>1. EachOnce' BY <1>4, <1>9, <1>10 DEF EachOnce, Keeps
  <2> QED BY <1>4, <1>9, <1>10, <2>1 DEF OnceInv
<1>11. CASE "appear" \notin moves
  <2>1. /\ sent = Cardinality(emitted) /\ Fresh
        /\ \A k, l \in DOMAIN asked.rest : asked.rest[k] = asked.rest[l] => k = l
        /\ \A row \in emitted : ~Awaited(row)
        /\ \A i \in DOMAIN listing : ~Awaited(listing[i])
    BY <1>3, <1>11 DEF OnceInv, EachOnce
  <2>2. sent' = Cardinality(emitted')
    <3>1. \A i \in A : i > next BY <1>3, <1>5, <1>6
    <3> QED BY <1>2, <1>6, <2>1, <3>1, EmitCounts DEF Inv
  <2>3. Fresh'
    <3> SUFFICES ASSUME NEW i \in DOMAIN listing, i > next + size PROVE listing[i] \notin emitted'
      BY <1>4 DEF Fresh
    <3>1. i > next BY <1>3, <1>5
    <3>2. listing[i] \notin emitted BY <2>1, <3>1 DEF Fresh
    <3>3. ASSUME NEW j \in A, listing[i] = listing[j] PROVE FALSE
      <4>1. j \in DOMAIN listing /\ j <= next + size BY <1>5, <1>6
      <4>2. i = j BY <1>5, <3>3, <4>1
      <4> QED BY <1>3, <1>5, <4>1, <4>2
    <3> QED BY <1>7, <3>2, <3>3
  <2>4. \A row : Awaited(row)' <=> Awaited(row) BY <1>4 DEF Awaited, InJira!In, InJira!Text
  <2>5. \A row \in emitted' : ~Awaited(row)' BY <1>5, <1>6, <1>7, <2>1, <2>4
  <2>6. (\A row \in emitted : ~Awaited(row))' BY <2>5 DEF Awaited, InJira!In, InJira!Text
  <2>7. (\A i \in DOMAIN listing : ~Awaited(listing[i]))' BY <1>4, <2>1 DEF Awaited, InJira!In, InJira!Text
  <2> QED BY <1>4, <1>8, <1>9, <2>1, <2>2, <2>3, <2>6, <2>7 DEF OnceInv, EachOnce
<1> QED BY <1>10, <1>11

\* The keys behind the first.
LEMMA RestDiffers ==
  ASSUME NEW T, NEW keys \in Seq(T), keys # <<>>,
         \A i, j \in DOMAIN keys : keys[i] = keys[j] => i = j
  PROVE  /\ \A k, l \in DOMAIN Tail(keys) : Tail(keys)[k] = Tail(keys)[l] => k = l
         /\ \A k \in DOMAIN Tail(keys) : Tail(keys)[k] # Head(keys) /\ \E j \in DOMAIN keys : Tail(keys)[k] = keys[j]
         /\ \E j \in DOMAIN keys : Head(keys) = keys[j]
<1> PICK tail : tail = Tail(keys) OBVIOUS
<1>1. /\ Len(keys) \in Nat /\ Len(keys) >= 1 /\ DOMAIN keys = 1..Len(keys) /\ Head(keys) = keys[1]
      /\ DOMAIN tail = 1..(Len(keys) - 1) /\ \A k \in 1..(Len(keys) - 1) : tail[k] = keys[k + 1]
  OBVIOUS
<1>2. ASSUME NEW k \in DOMAIN tail PROVE k + 1 \in DOMAIN keys /\ k + 1 # 1 /\ tail[k] = keys[k + 1] BY <1>1
<1>3. 1 \in DOMAIN keys BY <1>1
<1>4. ASSUME NEW k \in DOMAIN tail, NEW l \in DOMAIN tail, tail[k] = tail[l] PROVE k = l
  <2>1. k + 1 = l + 1 BY <1>2, <1>4
  <2> QED BY <1>1, <2>1
<1> QED BY <1>1, <1>2, <1>3, <1>4

\* The list of one of them when the others are still to come.
LEMMA OnceListed ==
  ASSUME NEW T, NEW keys \in Seq(T), keys # <<>>,
         \A i, j \in DOMAIN keys : keys[i] = keys[j] => i = j,
         NEW ask, List(ask), ask.filters = {InJira!In("issue_key", {Head(keys)})}, ask.rest = Tail(keys),
         IsFiniteSet(held)
  PROVE  /\ \A k, l \in DOMAIN asked'.rest : asked'.rest[k] = asked'.rest[l] => k = l
         /\ (\A i \in DOMAIN listing : ~Awaited(listing[i]))'
         /\ \A i \in DOMAIN listing' : Passes(InJira!In("issue_key", {Head(keys)}), listing'[i])
<1>1. asked' = ask BY DEF List
<1>2. PICK tail : tail = Tail(keys) /\ asked'.rest = tail BY <1>1
<1>3. /\ \A k, l \in DOMAIN tail : tail[k] = tail[l] => k = l
      /\ \A k \in DOMAIN tail : tail[k] # Head(keys)
  BY <1>2, RestDiffers
<1>4. PICK rows, l, o : rows = Passing(ask.filters, held) /\ l = listing' /\ o = ask.order OBVIOUS
<1>5. \A i \in DOMAIN l : l[i] \in rows
  <2>1. rows \in SUBSET held BY <1>4 DEF Passing
  <2>2. IsFiniteSet(rows) BY <2>1, FS_Subset
  <2>3. l \in Listings(rows, o) BY <1>4 DEF List
  <2> QED BY ONLY <2>2, <2>3, ListHoldsAll
<1>6. \A i \in DOMAIN l : Passes(InJira!In("issue_key", {Head(keys)}), l[i]) BY <1>4, <1>5 DEF Passing
<1>7. ASSUME NEW i \in DOMAIN l, NEW k \in DOMAIN tail PROVE ~Passes(InJira!In("issue_key", {tail[k]}), l[i])
  <2>1. l[i]["issue_key"] = Head(keys) BY <1>6, InIs
  <2> QED BY <1>3, <2>1, InIs
<1>8. (\A i \in DOMAIN listing : ~Awaited(listing[i]))'
  BY <1>2, <1>4, <1>7 DEF Awaited, InJira!In, InJira!Text
<1> QED BY <1>2, <1>3, <1>4, <1>6, <1>8

LEMMA OnceComments ==
  ASSUME Inv, InJira!ScanComments, UNCHANGED moves
  PROVE  OnceInv'
<1> PICK keys : keys = InJira!IssueKeys OBVIOUS
<1> DEFINE pushes == req.limit # Null /\ InJira!CommentsLimitSafe
           order == IF InJira!OneTermOn({"created"}) THEN req.order ELSE <<>>
           one == Asked({InJira!In("issue_key", {Head(keys)})}, order, InJira!Size(pushes), InJira!Stop(pushes), FALSE)
           ask == [one EXCEPT !.rest = Tail(keys)]
<1>1. /\ pc = "start" /\ keys # <<>> /\ List(ask) /\ req.schema = "jira"
      /\ UNCHANGED <<place, sent, emitted>>
  BY JiraCopies DEF InJira!ScanComments, InJira!On, InJira!Here, InJira!place, place, InJira!result
<1>2. /\ one.filters = {InJira!In("issue_key", {Head(keys)})} /\ one.keyset = FALSE
      /\ DOMAIN one = {"filters", "order", "size", "stop", "keyset", "rest"}
  BY DEF Asked
<1> HIDE DEF one
<1>3. /\ ask.filters = {InJira!In("issue_key", {Head(keys)})} /\ ask.keyset = FALSE /\ ask.rest = Tail(keys)
  BY <1>2
<1> HIDE DEF ask
<1>4. asked' = ask /\ pc' = "paging" /\ UNCHANGED <<req, held, standing>> BY <1>1 DEF List
<1>5. req \in Requests /\ IsFiniteSet(held) /\ emitted = {} /\ sent = 0 BY <1>1 DEF Inv, RowsInv, TypeOK
<1>6. emitted' = {} /\ sent' = 0 /\ Cardinality(emitted') = 0 BY <1>1, <1>5, FS_EmptySet
<1>7. (KeysDiffer' <=> KeysDiffer) /\ (OfOneList' <=> OfOneList) BY <1>4, SameKeys
<1> SUFFICES ASSUME ~OfOneList, KeysDiffer PROVE OnceInv' BY <1>7 DEF OnceInv
<1>8. PICK T : T = {keys[k] : k \in DOMAIN keys} OBVIOUS
<1>9. keys \in Seq(T)
  <2>1. Len(keys) \in Nat /\ DOMAIN keys = 1..Len(keys) /\ keys = [k \in DOMAIN keys |-> keys[k]]
    BY <1>1, <1>5, IssueKeysAre DEF InJira!Here
  <2>2. keys \in [1..Len(keys) -> T] BY <1>8, <2>1
  <2> QED BY <2>1, <2>2
<1>10. \A i, j \in DOMAIN keys : keys[i] = keys[j] => i = j BY DEF KeysDiffer
<1>11. /\ \A k, l \in DOMAIN asked'.rest : asked'.rest[k] = asked'.rest[l] => k = l
       /\ (\A i \in DOMAIN listing : ~Awaited(listing[i]))'
  BY <1>1, <1>3, <1>5, <1>9, <1>10, OnceListed
<1> QED BY <1>3, <1>4, <1>6, <1>11 DEF OnceInv, EachOnce, Fresh, Awaited

LEMMA OnceNextKey ==
  ASSUME Inv, OnceInv, InJira!NextKey, UNCHANGED moves
  PROVE  OnceInv'
<1> PICK keys : keys = asked.rest OBVIOUS
<1>0. PICK size \in InJira!Sends : Emit(Appended(PageOf(size))) BY JiraCopies DEF InJira!NextKey
<1> DEFINE A == Appended(PageOf(size))
           one == [asked EXCEPT !.filters = {InJira!In("issue_key", {Head(keys)})}]
           ask == [one EXCEPT !.rest = Tail(keys)]
<1>1. /\ pc = "paging" /\ InJira!On("comments") /\ Emit(A) /\ next' = 0 /\ keys # <<>>
      /\ List([asked EXCEPT !.filters = {InJira!In("issue_key", {Head(keys)})}, !.rest = Tail(keys)])
  BY <1>0, JiraCopies DEF InJira!NextKey, InJira!LastKey
<1>2. ~OfOneList BY <1>1 DEF OfOneList, InJira!On, InJira!Here
<1>3. /\ DOMAIN asked = {"filters", "order", "size", "stop", "keyset", "rest"} /\ ~asked.keyset
      /\ keys \in Seq({keys[k] : k \in DOMAIN keys})
  BY <1>1, <1>2 DEF Inv, CompleteInv, ListInv
<1>4. List(ask)
  <2>1. [asked EXCEPT !.filters = {InJira!In("issue_key", {Head(keys)})}, !.rest = Tail(keys)] = ask OBVIOUS
  <2> HIDE DEF ask
  <2> QED BY <1>1, <2>1
<1>5. /\ DOMAIN one = DOMAIN asked /\ one.filters = {InJira!In("issue_key", {Head(keys)})}
      /\ one.keyset = asked.keyset
  BY <1>3
<1> HIDE DEF one
<1>6. /\ ask.filters = {InJira!In("issue_key", {Head(keys)})} /\ ask.keyset = asked.keyset /\ ask.rest = Tail(keys)
  BY <1>3, <1>5
<1>12. "filters" \in DOMAIN ask BY <1>3, <1>5
<1> HIDE DEF ask
<1>7. asked' = ask /\ pc' = "paging" /\ UNCHANGED <<req, held, standing>> BY <1>4 DEF List
<1>8. (KeysDiffer' <=> KeysDiffer) /\ (OfOneList' <=> OfOneList) BY <1>7, SameKeys
<1> SUFFICES ASSUME KeysDiffer PROVE OnceInv' BY <1>8 DEF OnceInv
<1>9. CASE "appear" \in moves
  <2>1. asked' # Nothing /\ ~asked'.keyset BY <1>3, <1>6, <1>7, <1>12 DEF Nothing
  <2>2. EachOnce' BY <1>9, <2>1 DEF EachOnce, Keeps
  <2> QED BY <1>9, <2>1, <2>2 DEF OnceInv
<1>10. CASE "appear" \notin moves
  <2>1. /\ sent = Cardinality(emitted) /\ Fresh
        /\ \A k, l \in DOMAIN keys : keys[k] = keys[l] => k = l
        /\ \A row \in emitted : ~Awaited(row)
        /\ \A i \in DOMAIN listing : ~Awaited(listing[i])
    BY <1>1, <1>2, <1>10 DEF OnceInv, EachOnce
  <2>2. PICK T : T = {keys[k] : k \in DOMAIN keys} OBVIOUS
  <2>3. keys \in Seq(T) BY <1>3, <2>2
  <2>4. IsFiniteSet(held) BY DEF Inv, RowsInv
  <2>5. /\ \A k, l \in DOMAIN asked'.rest : asked'.rest[k] = asked'.rest[l] => k = l
        /\ (\A i \in DOMAIN listing : ~Awaited(listing[i]))'
        /\ \A i \in DOMAIN listing' : Passes(InJira!In("issue_key", {Head(keys)}), listing'[i])
    BY <1>1, <1>4, <1>6, <2>1, <2>3, <2>4, OnceListed
  <2>6. A \in SUBSET PageOf(size) BY KeptOfPage
  <2>7. /\ DOMAIN listing = 1..Len(listing) /\ A \in SUBSET (1..Len(listing)) /\ \A i \in A : i > next
    <3>1. DOMAIN listing = 1..Len(listing) /\ Len(listing) \in Nat /\ next \in Nat BY ListLength DEF Inv
    <3> QED BY <2>6, <3>1 DEF PageOf
  <2>8. emitted' = emitted \cup {listing[i] : i \in A} BY <1>1 DEF Emit
  <2>9. sent' = Cardinality(emitted') BY <1>1, <2>1, <2>7, EmitCounts DEF Inv
  <2>10. \A row \in emitted' : ~Awaited(row)
    <3>1. \A i \in A : ~Awaited(listing[i]) BY <2>1, <2>7
    <3> HIDE DEF A
    <3> QED BY <2>1, <2>8, <3>1
  <2>11. /\ \A k \in DOMAIN Tail(keys) : \E j \in DOMAIN keys : Tail(keys)[k] = keys[j]
         /\ \E j \in DOMAIN keys : Head(keys) = keys[j]
    BY <1>1, <2>1, <2>3, RestDiffers
  <2>12. Fresh'
    <3>1. ASSUME NEW i \in DOMAIN listing' PROVE listing'[i] \notin emitted'
      <4>1. Passes(InJira!In("issue_key", {Head(keys)}), listing'[i]) BY <2>5, <3>1
      <4>2. Awaited(listing'[i]) BY <2>11, <4>1 DEF Awaited
      <4> QED BY <2>10, <4>2
    <3> QED BY <3>1 DEF Fresh
  <2>13. (\A row \in emitted : ~Awaited(row))'
    <3>1. ASSUME NEW row \in emitted', NEW k \in DOMAIN Tail(keys)
          PROVE  ~Passes(InJira!In("issue_key", {Tail(keys)[k]}), row)
      <4>1. PICK j \in DOMAIN keys : Tail(keys)[k] = keys[j] BY <2>11
      <4>2. ~Passes(InJira!In("issue_key", {keys[j]}), row) BY <2>10 DEF Awaited
      <4> QED BY <4>1, <4>2
    <3>2. asked'.rest = Tail(keys) BY <1>6, <1>7
    <3> QED BY <3>1, <3>2 DEF Awaited, InJira!In, InJira!Text
  <2> QED BY <1>3, <1>6, <1>7, <2>5, <2>9, <2>12, <2>13 DEF OnceInv, EachOnce
<1> QED BY <1>9, <1>10

LEMMA OnceVanish ==
  ASSUME Inv, OnceInv, NEW at \in DOMAIN listing, Vanish(at)
  PROVE  OnceInv'
<1>1. /\ Len(listing) \in Nat /\ DOMAIN listing = 1..Len(listing) /\ next \in Nat
      /\ \A i, j \in DOMAIN listing : listing[i] = listing[j] => i = j
  BY ListLength DEF Inv
<1>2. PICK l, r, n : l = listing /\ r = listing' /\ n = Len(listing) OBVIOUS
<1>3. n \in Nat /\ at \in 1..n BY <1>1, <1>2
<1>4. DOMAIN r = 1..(n - 1) /\ \A i \in 1..(n - 1) : r[i] = IF i < at THEN l[i] ELSE l[i + 1]
  <2>1. listing' = SubSeq(listing, 1, at - 1) \o SubSeq(listing, at + 1, Len(listing)) BY DEF Vanish
  <2> QED BY <1>2, <2>1, VanishList DEF Inv
<1>5. /\ pc = "paging" /\ pc' = "paging" /\ moves' = moves \cup {"vanish"} /\ next' = next - Ahead(at)
      /\ UNCHANGED <<req, asked, sent, emitted>>
  BY DEF Vanish, result
<1>6. next' = next \/ (at <= next /\ next' = next - 1) BY <1>1, <1>5 DEF Ahead
\* Each row was listed, and what is still to be read was still to be read.
<1>7. ASSUME NEW i \in 1..(n - 1) PROVE \E j \in 1..n : r[i] = l[j] /\ (i > next' => j > next)
  <2> PICK j : j = IF i < at THEN i ELSE i + 1 OBVIOUS
  <2>1. j \in 1..n /\ r[i] = l[j] BY <1>3, <1>4
  <2>2. i > next' => j > next BY <1>1, <1>3, <1>6
  <2> QED BY <2>1, <2>2
<1>8. \A i \in DOMAIN listing' : \E j \in DOMAIN listing : listing'[i] = listing[j] BY <1>1, <1>2, <1>4, <1>7
<1>9. Fresh => Fresh'
  <2> SUFFICES ASSUME Fresh, NEW i \in 1..(n - 1), i > next' PROVE r[i] \notin emitted BY <1>2, <1>4, <1>5 DEF Fresh
  <2>1. PICK j \in 1..n : r[i] = l[j] /\ j > next BY <1>7
  <2> QED BY <1>1, <1>2, <2>1 DEF Fresh
<1> QED BY <1>5, <1>8, <1>9, OnceMoved

LEMMA OnceInit == Init => OnceInv
<1> SUFFICES ASSUME Init PROVE OnceInv OBVIOUS
<1>1. asked = Nothing /\ sent = 0 /\ emitted = {} /\ pc = "start" BY DEF Init
<1>2. Cardinality(emitted) = 0 BY <1>1, FS_EmptySet
<1> QED BY <1>1, <1>2 DEF OnceInv, EachOnce

LEMMA OnceNext == Inv /\ OnceInv /\ [Next]_vars => OnceInv'
<1> SUFFICES ASSUME Inv, OnceInv, [Next]_vars PROVE OnceInv' OBVIOUS
<1>1. CASE InJira!Next /\ UNCHANGED moves
  <2>1. CASE InJira!ScanIssues \/ InJira!ScanProjects
    <3>1. UNCHANGED req /\ OfOneList
      BY <2>1 DEF InJira!ScanIssues, InJira!ScanProjects, InJira!On, InJira!Here, InJira!Ask, InJira!List, OfOneList
    <3> QED BY <3>1, SameKeys DEF OnceInv
  <2> QED BY <1>1, <2>1, OncePage, OnceComments, OnceNextKey DEF InJira!Next
<1>2. CASE Scan /\ ~InJira!Next
  <2>1. UNCHANGED req /\ req.schema # "jira" BY <1>2, ScansOfSchemas DEF Scan
  <2> QED BY <2>1, SameKeys DEF OnceInv, OfOneList
<1>3. CASE Fail /\ UNCHANGED <<moves, withheld>>
  <2>1. /\ pc' = "failed" /\ UNCHANGED <<req, asked, sent, emitted, moves, listing>> BY <1>3 DEF Fail, result
  <2>2. (KeysDiffer' <=> KeysDiffer) /\ (OfOneList' <=> OfOneList) BY <2>1, SameKeys
  <2> QED BY <2>1, <2>2 DEF OnceInv, EachOnce, Keeps
<1>4. CASE \E row \in Arrivals[Table] : Appear(row)
  <2>1. /\ pc = "paging" /\ pc' = "paging" /\ "appear" \in moves' /\ UNCHANGED <<req, asked, sent, emitted>>
    BY <1>4 DEF Appear, result
  <2> QED BY <2>1, OnceMoved
<1>5. CASE \E at \in DOMAIN listing : Vanish(at) BY <1>5, OnceVanish
<1>6. CASE UNCHANGED vars
  <2>1. UNCHANGED <<req, asked, sent, emitted, moves, listing, next, pc>> BY <1>6 DEF vars
  <2>2. (KeysDiffer' <=> KeysDiffer) /\ (OfOneList' <=> OfOneList) BY <2>1, SameKeys
  <2> QED BY <2>1, <2>2 DEF OnceInv, EachOnce, Keeps, Fresh, Awaited, InJira!In, InJira!Text
<1> QED BY <1>1, <1>2, <1>3, <1>4, <1>5, <1>6 DEF Next, Scan

\* EachOnce for every scan: a row is emitted once, unless a new row pushed one onto the next
\* page of a list that is read at positions, or the comments of one issue were asked for twice.
THEOREM RowsAreEmittedOnce == Spec => [](OfOneList \/ KeysDiffer => EachOnce)
<1>1. Init => Inv /\ OnceInv BY RowsInit, CompleteInit, OnceInit DEF Inv
<1>2. Inv /\ OnceInv /\ [Next]_vars => (Inv /\ OnceInv)'
  <2>1. Inv /\ [Next]_vars => RowsInv' BY RowsNext DEF Inv
  <2>2. Inv /\ [Next]_vars => CompleteInv' BY CompleteNext
  <2> QED BY <2>1, <2>2, OnceNext DEF Inv
<1>3. Inv /\ OnceInv => (OfOneList \/ KeysDiffer => EachOnce)
  <2> SUFFICES ASSUME Inv, OnceInv, OfOneList \/ KeysDiffer PROVE EachOnce OBVIOUS
  <2>1. CASE OfOneList BY <2>1 DEF Inv, RowsInv, EachOnce
  <2>2. CASE ~OfOneList BY <2>2 DEF OnceInv
  <2> QED BY <2>1, <2>2
<1> QED BY <1>1, <1>2, <1>3, PTL DEF Spec
=============================================================================
