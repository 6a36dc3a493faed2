-------------------------- MODULE PredicatesProofs ---------------------------
(***************************************************************************)
(* What the builder keeps of WHERE, ORDER BY and LIMIT, for all statements, *)
(* rows, patterns and collations.  Chains of operators, which the builder   *)
(* may misread, are outside WhereIsKept.                                    *)
(***************************************************************************)
EXTENDS Predicates, TLAPS

\* The builder ran on a statement, and on the whole of it.
Read == stmt \in Statements
        /\ (built # Unread => /\ built.where = BuildWhere(stmt.where)
                              /\ built.term = BuildTerm(stmt.term)
                              /\ built.limit = BuildLimit(stmt.limit))

LEMMA BuilderRead == Spec => []Read
<1>1. Init => Read
  BY DEF Init, Read
<1>2. Read /\ [Next]_vars => Read'
  BY DEF Read, Next, Build, vars
<1> QED
  BY <1>1, <1>2, PTL DEF Spec

\* A structured term has neither a NULLS modifier nor a collation.
LEMMA StructuredTerm ==
  ASSUME NEW t, BuildTerm(t) # Opaque
  PROVE  /\ t.nulls = "" /\ ~t.collate /\ t.operand.kind = "column"
         /\ BuildTerm(t).desc = t.desc /\ BuildTerm(t).column = t.operand.column
  BY DEF BuildTerm

\* Connectors sort by structured terms exactly as SQLite does.
THEOREM OrderIsKept == Spec => []OrderKept
<1>1. ASSUME Read PROVE OrderKept
  <2> SUFFICES ASSUME built # Unread, built.term # Opaque, NEW r \in Rows, NEW s \in Rows
               PROVE  Precedes(stmt.term, ValueOf(stmt.term.operand, r), ValueOf(stmt.term.operand, s))
                        <=> Precedes([nulls |-> "", collate |-> FALSE, desc |-> built.term.desc],
                                     r[built.term.column], s[built.term.column])
    BY DEF OrderKept
  <2> DEFINE plain == [nulls |-> "", collate |-> FALSE, desc |-> built.term.desc]
  <2>1. /\ stmt.term.nulls = "" /\ ~stmt.term.collate /\ stmt.term.operand.kind = "column"
        /\ built.term.desc = stmt.term.desc /\ built.term.column = stmt.term.operand.column
    BY <1>1, StructuredTerm DEF Read
  <2>2. /\ ValueOf(stmt.term.operand, r) = r[built.term.column]
        /\ ValueOf(stmt.term.operand, s) = s[built.term.column]
    BY <2>1 DEF ValueOf
  <2>3. ASSUME NEW v, NEW w PROVE Precedes(stmt.term, v, w) <=> Precedes(plain, v, w)
    <3>1. NullsFirst(stmt.term) <=> NullsFirst(plain)
      BY <2>1 DEF NullsFirst
    <3>2. SortsBy(stmt.term, v) = SortsBy(plain, v) /\ SortsBy(stmt.term, w) = SortsBy(plain, w)
      BY <2>1 DEF SortsBy
    <3> QED
      BY <2>1, <3>1, <3>2 DEF Precedes
  <2> QED
    BY <2>2, <2>3
<1> QED
  BY <1>1, BuilderRead, PTL

\* The planner reads the LIMIT and the OFFSET that were written.
THEOREM LimitIsKept == Spec => []LimitKept
<1>1. ASSUME Read PROVE LimitKept
  <2> SUFFICES ASSUME built # Unread PROVE LimitKept
    BY DEF LimitKept
  <2> DEFINE l == stmt.limit
  <2>1. built.limit = BuildLimit(l)
    BY <1>1 DEF Read
  <2>2. CASE l.exprs = <<>>
    BY <2>1, <2>2 DEF BuildLimit, LimitKept, WantedOffset
  <2>3. CASE Len(l.exprs) = 1
    BY <2>1, <2>3 DEF BuildLimit, LimitKept, WantedCount, WantedOffset, ValueIn
  <2>4. CASE Len(l.exprs) = 2
    BY <2>1, <2>4 DEF BuildLimit, LimitKept, WantedCount, WantedOffset, ValueIn
  <2> QED
    BY <1>1, <2>2, <2>3, <2>4, LimitAssumption DEF Read
<1> QED
  BY <1>1, BuilderRead, PTL

(***************************************************************************)
(* What an expression without chains of operators means.                    *)
(***************************************************************************)

\* A comparison without a relational operator is its operand.
LEMMA ComparisonOfOperand ==
  ASSUME NEW c, c.rest = <<>>, NEW row
  PROVE  ComparisonOf(c, row) = ValueOf(c.first, row)
<1> DEFINE base == ValueOf(c.first, row)
           Step(f, s) == IF s = {} THEN base
                         ELSE Related(c.rest[Max(s)].op, f[s \ {Max(s)}], ValueOf(c.rest[Max(s)].operand, row))
           Folds(f) == f = [s \in SUBSET DOMAIN c.rest |-> Step(f, s)]
           fold == CHOOSE f : Folds(f)
<1>1. ComparisonOf(c, row) = fold[DOMAIN c.rest]
  BY DEF ComparisonOf, FoldLeft, MapThenFoldSet
<1>2. DOMAIN c.rest = {} /\ SUBSET DOMAIN c.rest = {{}}
  OBVIOUS
<1>3. Folds([s \in SUBSET DOMAIN c.rest |-> base])
  BY <1>2
<1>4. Folds(fold)
  BY <1>3
<1> HIDE DEF fold
<1>5. fold[{}] = Step(fold, {})
  BY <1>2, <1>4
<1> QED
  BY <1>1, <1>2, <1>5

\* With one it relates its two operands.
LEMMA ComparisonOfTwo ==
  ASSUME NEW c, DOMAIN c.rest = {1}, NEW row
  PROVE  ComparisonOf(c, row) = Related(c.rest[1].op, ValueOf(c.first, row), ValueOf(c.rest[1].operand, row))
<1> DEFINE base == ValueOf(c.first, row)
           Step(f, s) == IF s = {} THEN base
                         ELSE Related(c.rest[Max(s)].op, f[s \ {Max(s)}], ValueOf(c.rest[Max(s)].operand, row))
           Folds(f) == f = [s \in SUBSET DOMAIN c.rest |-> Step(f, s)]
           fold == CHOOSE f : Folds(f)
           once == Related(c.rest[1].op, base, ValueOf(c.rest[1].operand, row))
           both == [s \in SUBSET {1} |-> IF s = {} THEN base ELSE once]
<1>1. ComparisonOf(c, row) = fold[{1}]
  BY DEF ComparisonOf, FoldLeft, MapThenFoldSet
<1>2. Max({1}) = 1
  BY DEF Max
<1>3. \A s \in SUBSET {1} : s = {} \/ (s = {1} /\ s \ {Max(s)} = {})
  BY <1>2
<1>4. both[{}] = base
  OBVIOUS
<1>5. \A s \in SUBSET {1} : Step(both, s) = IF s = {} THEN base ELSE once
  BY <1>2, <1>3, <1>4
<1>6. Folds(both)
  BY <1>5
<1>7. Folds(fold)
  BY <1>6
<1> HIDE DEF fold
<1>8. fold[{}] = Step(fold, {}) /\ fold[{1}] = Step(fold, {1})
  BY <1>7
<1> QED
  BY <1>1, <1>2, <1>3, <1>8

\* What an operator makes of a value.
OperatorOf(s, v, row) ==
  LET t == Applied(s.op, v, [i \in DOMAIN s.args |-> ComparisonOf(s.args[i], row)])
  IN IF s.not # s.distinct THEN Not(t) ELSE t

\* An expr_binary without operators is its comparison.
LEMMA BinaryOfComparison ==
  ASSUME NEW b, b.tail = <<>>, NEW row
  PROVE  BinaryOf(b, row) = ComparisonOf(b.first, row)
<1> DEFINE base == ComparisonOf(b.first, row)
           Step(f, s) == IF s = {} THEN base ELSE OperatorOf(b.tail[Max(s)], f[s \ {Max(s)}], row)
           Folds(f) == f = [s \in SUBSET DOMAIN b.tail |-> Step(f, s)]
           fold == CHOOSE f : Folds(f)
<1>1. BinaryOf(b, row) = fold[DOMAIN b.tail]
  BY DEF BinaryOf, FoldLeft, MapThenFoldSet, OperatorOf
<1>2. DOMAIN b.tail = {} /\ SUBSET DOMAIN b.tail = {{}}
  OBVIOUS
<1>3. Folds([s \in SUBSET DOMAIN b.tail |-> base])
  BY <1>2
<1>4. Folds(fold)
  BY <1>3
<1> HIDE DEF fold
<1>5. fold[{}] = Step(fold, {})
  BY <1>2, <1>4
<1> QED
  BY <1>1, <1>2, <1>5

\* With one it is what the operator makes of it.
LEMMA BinaryOfOne ==
  ASSUME NEW b, DOMAIN b.tail = {1}, NEW row
  PROVE  BinaryOf(b, row) = OperatorOf(b.tail[1], ComparisonOf(b.first, row), row)
<1> DEFINE base == ComparisonOf(b.first, row)
           Step(f, s) == IF s = {} THEN base ELSE OperatorOf(b.tail[Max(s)], f[s \ {Max(s)}], row)
           Folds(f) == f = [s \in SUBSET DOMAIN b.tail |-> Step(f, s)]
           fold == CHOOSE f : Folds(f)
           once == OperatorOf(b.tail[1], base, row)
           both == [s \in SUBSET {1} |-> IF s = {} THEN base ELSE once]
<1>1. BinaryOf(b, row) = fold[{1}]
  BY DEF BinaryOf, FoldLeft, MapThenFoldSet, OperatorOf
<1>2. Max({1}) = 1
  BY DEF Max
<1>3. \A s \in SUBSET {1} : s = {} \/ (s = {1} /\ s \ {Max(s)} = {})
  BY <1>2
<1>4. both[{}] = base
  OBVIOUS
<1>5. \A s \in SUBSET {1} : Step(both, s) = IF s = {} THEN base ELSE once
  BY <1>2, <1>3, <1>4
<1>6. Folds(both)
  BY <1>5
<1>7. Folds(fold)
  BY <1>6
<1> HIDE DEF fold
<1>8. fold[{}] = Step(fold, {}) /\ fold[{1}] = Step(fold, {1})
  BY <1>7
<1> QED
  BY <1>1, <1>2, <1>3, <1>8

\* The builder then sees the comparison in front and the operator's arguments.
LEMMA ComparisonsOfNone ==
  ASSUME NEW b, b.tail = <<>>
  PROVE  Comparisons(b) = <<b.first>>
<1> DEFINE lists == [i \in DOMAIN b.tail |-> b.tail[i].args]
<1>1. lists = <<>> /\ Len(lists) = 0
  OBVIOUS
<1>2. FlattenSeq(lists) = <<>>
  BY <1>1 DEF FlattenSeq
<1>3. Comparisons(b) = <<b.first>> \o FlattenSeq(lists)
  BY DEF Comparisons
<1>4. ASSUME NEW x PROVE <<x>> \o <<>> = <<x>>
  <2>1. <<x>> \in Seq({x}) /\ <<>> \in Seq({x})
    OBVIOUS
  <2> QED
    BY ONLY <2>1
<1> QED
  BY <1>2, <1>3, <1>4

LEMMA ComparisonsOfOne ==
  ASSUME NEW b, NEW s, b.tail = <<s>>
  PROVE  Comparisons(b) = <<b.first>> \o s.args
<1> DEFINE lists == [i \in DOMAIN b.tail |-> b.tail[i].args]
           Flat(f) == f = [i \in 1..1 |-> IF i = 1 THEN lists[i] ELSE f[i - 1] \o lists[i]]
           flat == CHOOSE f : Flat(f)
<1>1. DOMAIN b.tail = 1..1 /\ b.tail[1] = s
  OBVIOUS
<1>2. lists \in Seq({s.args}) /\ Len(lists) = 1 /\ lists[1] = s.args
  <2>1. lists = <<s.args>>
    BY <1>1
  <2> QED
    BY <2>1
<1> HIDE DEF lists
<1>3. FlattenSeq(lists) = flat[1]
  BY <1>2 DEF FlattenSeq
<1>4. Flat([i \in 1..1 |-> s.args])
  BY <1>2
<1>5. Flat(flat)
  BY <1>4
<1> HIDE DEF flat
<1>6. flat[1] = s.args
  BY <1>2, <1>5
<1>7. Comparisons(b) = <<b.first>> \o FlattenSeq(lists)
  BY DEF Comparisons, lists
<1> QED
  BY <1>3, <1>6, <1>7

(***************************************************************************)
(* The builder's predicates of one operator.                                *)
(***************************************************************************)

Relations == {"=", "<>", "<", "<=", ">", ">="}
Compared == Relations \cup {"like", "is"}

\* Operators of one argument.
LEMMA AppliedToOne ==
  ASSUME NEW op \in Compared, NEW v, NEW args
  PROVE  Applied(op, v, args) = IF op = "is" THEN Truth(v = args[1]) ELSE Related(op, v, args[1])
  BY DEF Applied, Compared, Relations

\* A relation reads the same from the right with its operator turned around.
LEMMA Turned ==
  ASSUME Null \notin Int, NEW op \in Compared, op # "like", NEW v \in Number, NEW w \in Number,
         NEW x, x[1] = w, NEW y, y[1] = v
  PROVE  Applied(flipOp(op), w, y) = Applied(op, v, x)
<1>1. CASE op = "is"
  <2>1. flipOp(op) = "is"
    BY <1>1 DEF flipOp, Flip
  <2> QED
    BY <1>1, <2>1, AppliedToOne
<1>2. CASE op # "is"
  <2>1. flipOp(op) \in Relations
    BY <1>2 DEF Compared, Relations, flipOp, Flip
  <2>2. Applied(flipOp(op), w, y) = Related(flipOp(op), w, v) /\ Applied(op, v, x) = Related(op, v, w)
    BY <1>2, <2>1, AppliedToOne DEF Compared, Relations
  <2>3. CASE Null \in {v, w}
    BY <2>2, <2>3 DEF Related
  <2>4. CASE Null \notin {v, w}
    <3>1. v \in Int /\ w \in Int
      BY <2>4 DEF Number
    <3>2. CASE op = "="
      <4>1. flipOp(op) = "="
        BY <3>2 DEF flipOp, Flip
      <4> QED
        BY <2>2, <2>4, <3>2, <4>1 DEF Related, Truth
    <3>3. CASE op = "<>"
      <4>1. flipOp(op) = "<>"
        BY <3>3 DEF flipOp, Flip
      <4> QED
        BY <2>2, <2>4, <3>3, <4>1 DEF Related, Truth
    <3>4. CASE op = "<"
      <4>1. flipOp(op) = ">"
        BY <3>4 DEF flipOp, Flip
      <4> QED
        BY <2>2, <2>4, <3>1, <3>4, <4>1 DEF Related, Truth
    <3>5. CASE op = "<="
      <4>1. flipOp(op) = ">="
        BY <3>5 DEF flipOp, Flip
      <4> QED
        BY <2>2, <2>4, <3>1, <3>5, <4>1 DEF Related, Truth
    <3>6. CASE op = ">"
      <4>1. flipOp(op) = "<"
        BY <3>6 DEF flipOp, Flip
      <4> QED
        BY <2>2, <2>4, <3>1, <3>6, <4>1 DEF Related, Truth
    <3>7. CASE op = ">="
      <4>1. flipOp(op) = "<="
        BY <3>7 DEF flipOp, Flip
      <4> QED
        BY <2>2, <2>4, <3>1, <3>7, <4>1 DEF Related, Truth
    <3> QED
      BY <1>2, <3>2, <3>3, <3>4, <3>5, <3>6, <3>7 DEF Compared, Relations
  <2> QED
    BY <2>3, <2>4
<1> QED
  BY <1>1, <1>2

\* Columns and values have numbers or NULL.
LEMMA SimpleValue ==
  ASSUME NEW c \in ExprComparison, IsColumn(c) \/ IsValue(c), NEW row \in Rows
  PROVE  /\ ComparisonOf(c, row) = ValueOf(c.first, row) /\ ValueOf(c.first, row) \in Number
         /\ IsColumn(c) => ValueOf(c.first, row) = row[c.first.column]
<1>1. c.rest = <<>> /\ c.first \in Operand
  BY DEF IsColumn, IsValue, ExprComparison
<1>2. ComparisonOf(c, row) = ValueOf(c.first, row)
  BY <1>1, ComparisonOfOperand
<1> QED
  BY <1>1, <1>2 DEF IsColumn, IsValue, ValueOf, Operand

Signed(no, t) == IF no THEN Not(t) ELSE t

\* What became a comparison of a column says what the operator says of its two sides.
LEMMA ComparisonSays ==
  ASSUME Null \notin Int, NEW left \in ExprComparison, NEW right \in ExprComparison,
         NEW op \in Compared, NEW no, Comparison(left, right, op, no) # Raw, NEW row \in Rows,
         NEW given, given[1] = ComparisonOf(right, row)
  PROVE  Says(Comparison(left, right, op, no), row)
           = Signed(no, Applied(op, ComparisonOf(left, row), given))
<1> DEFINE p == Comparison(left, right, op, no)
           said == [i \in DOMAIN p.args |-> ValueOf(p.args[i], row)]
<1>1. Says(p, row) = Signed(p.not, Applied(p.op, row[p.column], said))
  BY DEF Says, Signed
<1>2. CASE IsColumn(left) /\ (IsValue(right) \/ IsColumn(right))
  <2>1. p = Structured(left.first.column, op, no, <<right.first>>)
    <3>1. ~(IsValue(left) /\ IsColumn(right) /\ Commutable(op))
      BY <1>2 DEF IsColumn, IsValue
    <3> QED
      BY <1>2, <3>1 DEF Comparison
  <2>2. p.op = op /\ p.not = no /\ p.column = left.first.column /\ p.args = <<right.first>>
    BY <2>1 DEF Structured
  <2>3. said[1] = ComparisonOf(right, row)
    BY <1>2, <2>2, SimpleValue
  <2>4. row[p.column] = ComparisonOf(left, row)
    BY <1>2, <2>2, SimpleValue
  <2> HIDE DEF said, p
  <2>5. Applied(op, row[p.column], said) = Applied(op, ComparisonOf(left, row), given)
    BY <2>3, <2>4, AppliedToOne
  <2> QED
    BY <1>1, <2>2, <2>5 DEF p
<1>3. CASE ~(IsColumn(left) /\ (IsValue(right) \/ IsColumn(right)))
  <2>1. IsValue(left) /\ IsColumn(right) /\ op # "like"
        /\ p = Structured(right.first.column, flipOp(op), no, <<left.first>>)
    BY <1>3 DEF Comparison, Commutable
  <2>2. p.op = flipOp(op) /\ p.not = no /\ p.column = right.first.column /\ p.args = <<left.first>>
    BY <2>1 DEF Structured
  <2>3. said[1] = ComparisonOf(left, row) /\ ComparisonOf(left, row) \in Number
    BY <2>1, <2>2, SimpleValue
  <2>4. row[p.column] = ComparisonOf(right, row) /\ ComparisonOf(right, row) \in Number
    BY <2>1, <2>2, SimpleValue
  <2> HIDE DEF said, p
  <2>5. Applied(flipOp(op), row[p.column], said) = Applied(op, ComparisonOf(left, row), given)
    BY <2>1, <2>3, <2>4, Turned
  <2> QED
    BY <1>1, <2>2, <2>5 DEF p
<1> QED
  BY <1>2, <1>3

\* A null test says whether its operand is NULL.
LEMMA NullSays ==
  ASSUME NEW c \in ExprComparison, NEW no, NullPredicate(c, no) # Raw, NEW row \in Rows
  PROVE  Says(NullPredicate(c, no), row) = Signed(no, Truth(ComparisonOf(c, row) = Null))
<1>1. IsColumn(c) /\ NullPredicate(c, no) = Structured(c.first.column, "isnull", no, <<>>)
  BY DEF NullPredicate
<1>2. ComparisonOf(c, row) = row[c.first.column]
  BY <1>1, SimpleValue
<1>3. \A v, args : Applied("isnull", v, args) = Truth(v = Null)
  BY DEF Applied
<1> QED
  BY <1>1, <1>2, <1>3 DEF Says, Signed, Structured

\* Where there is one kind of operator, the builder follows it.
LEMMA BuildOne ==
  ASSUME NEW b, NEW op, Ops(b) = {op}
  PROVE  LET comps == Comparisons(b)
         IN /\ Len(comps) = 2 /\ op \in {"=", "<>"}
                 => BuildBinary(b) = Comparison(comps[1], comps[2], op, FALSE)
            /\ Len(comps) = 2 /\ op = "like"
                 => BuildBinary(b) = Comparison(comps[1], comps[2], "like", Negated(b))
            /\ Len(comps) = 2 /\ op = "is" => BuildBinary(b) = Is(b, comps[1], comps[2])
            /\ Len(comps) = 3 /\ op = "between" => BuildBinary(b) = Between(b, comps)
            /\ Len(comps) # 1 /\ op = "in" => BuildBinary(b) = In(b, comps)
            /\ Len(comps) = 1 /\ op = "isnull" => BuildBinary(b) = NullPredicate(comps[1], Negated(b))
            /\ Len(comps) = 1 /\ op # "isnull" => BuildBinary(b) = Relational(comps[1])
<1> DEFINE comps == Comparisons(b)
           Has(ops) == op \in ops
<1>1. \A ops : ops \cap Ops(b) # {} <=> op \in ops
  OBVIOUS
<1>2. BuildBinary(b)
        = IF Len(comps) = 1 THEN IF op = "isnull" THEN NullPredicate(comps[1], Negated(b)) ELSE Relational(comps[1])
          ELSE IF Len(comps) = 2 /\ op \in {"=", "<>"}
               THEN Comparison(comps[1], comps[2], IF op = "=" THEN "=" ELSE "<>", FALSE)
          ELSE IF op = "like"
               THEN IF Len(comps) = 2 THEN Comparison(comps[1], comps[2], "like", Negated(b)) ELSE Raw
          ELSE IF Len(comps) = 2 /\ op = "is" THEN Is(b, comps[1], comps[2])
          ELSE IF Len(comps) = 3 /\ op = "between" THEN Between(b, comps)
          ELSE IF op \in {"in", "insub"} THEN In(b, comps)
          ELSE Raw
  BY <1>1 DEF BuildBinary
<1> HIDE DEF comps
<1>3. op \in {"=", "<>"} => (IF op = "=" THEN "=" ELSE "<>") = op
  OBVIOUS
<1>4. Len(comps) = 2 /\ op \in {"=", "<>"} => BuildBinary(b) = Comparison(comps[1], comps[2], op, FALSE)
  <2> SUFFICES ASSUME Len(comps) = 2, op \in {"=", "<>"}
               PROVE  BuildBinary(b) = Comparison(comps[1], comps[2], op, FALSE)
    OBVIOUS
  <2>1. Len(comps) # 1
    OBVIOUS
  <2>2. BuildBinary(b) = Comparison(comps[1], comps[2], IF op = "=" THEN "=" ELSE "<>", FALSE)
    BY <1>2, <2>1, Zenon
  <2> QED
    BY <1>3, <2>2, Zenon
<1>5. Len(comps) = 2 /\ op = "like" => BuildBinary(b) = Comparison(comps[1], comps[2], "like", Negated(b))
  BY <1>2
<1>6. Len(comps) = 2 /\ op = "is" => BuildBinary(b) = Is(b, comps[1], comps[2])
  BY <1>2
<1>7. Len(comps) = 3 /\ op = "between" => BuildBinary(b) = Between(b, comps)
  BY <1>2
<1>8. Len(comps) # 1 /\ op = "in" => BuildBinary(b) = In(b, comps)
  BY <1>2
<1>9. Len(comps) = 1 /\ op = "isnull" => BuildBinary(b) = NullPredicate(comps[1], Negated(b))
  BY <1>2
<1>10. Len(comps) = 1 /\ op # "isnull" => BuildBinary(b) = Relational(comps[1])
  BY <1>2
<1> QED
  BY <1>4, <1>5, <1>6, <1>7, <1>8, <1>9, <1>10 DEF comps

\* An operator with one argument, as the builder keeps it.
LEMMA OneArgumentSays ==
  ASSUME Null \notin Int, NEW first \in ExprComparison, NEW s \in Operator,
         s.op \in {"=", "<>", "like", "is"}, NEW row \in Rows,
         NEW b, b.first = first, b.tail = <<s>>, BuildBinary(b) # Raw
  PROVE  Says(BuildBinary(b), row) = OperatorOf(s, ComparisonOf(first, row), row)
<1>1. PICK right \in ExprComparison : s.args = <<right>>
  <2>1. s.args \in Seq(ExprComparison) /\ Len(s.args) = 1
    BY DEF Operator
  <2>2. s.args = <<s.args[1]>> /\ s.args[1] \in ExprComparison
    BY ONLY <2>1
  <2> QED
    BY <2>2
<1>2. PICK args : args = [i \in DOMAIN s.args |-> ComparisonOf(s.args[i], row)]
  OBVIOUS
<1>3. PICK v : v = ComparisonOf(first, row)
  OBVIOUS
<1>4. args[1] = ComparisonOf(right, row)
  BY <1>1, <1>2
<1>5. /\ s.not \in BOOLEAN /\ s.distinct \in BOOLEAN
      /\ s.op \in {"=", "<>"} => ~s.not
      /\ s.distinct => s.op = "is"
  BY DEF Operator
<1>6. /\ Len(Comparisons(b)) = 2
      /\ Comparisons(b)[1] = first /\ Comparisons(b)[2] = right
  <2>1. Comparisons(b) = <<first>> \o <<right>>
    BY <1>1, ComparisonsOfOne
  <2>2. <<first>> \in Seq(ExprComparison) /\ <<right>> \in Seq(ExprComparison)
    BY <1>1
  <2> QED
    BY ONLY <2>1, <2>2
<1>7. Ops(b) = {s.op} /\ (Negated(b) <=> s.not) /\ (Distinct(b) <=> s.distinct)
  <2>1. DOMAIN b.tail = {1} /\ b.tail[1] = s
    OBVIOUS
  <2> QED
    BY <2>1 DEF Ops, Negated, Distinct
<1>8. OperatorOf(s, v, row) = Signed(s.not # s.distinct, Applied(s.op, v, args))
  BY <1>2 DEF OperatorOf, Signed
<1>9. ASSUME NEW op \in Compared
      PROVE  \A no : Comparison(first, right, op, no) # Raw
                    => Says(Comparison(first, right, op, no), row) = Signed(no, Applied(op, v, args))
  BY <1>1, <1>3, <1>4, ComparisonSays
<1>10. CASE s.op \in {"=", "<>"}
  <2>1. BuildBinary(b) = Comparison(first, right, s.op, FALSE)
    BY <1>6, <1>7, <1>10, BuildOne
  <2>2. s.op \in Compared /\ ~s.not /\ ~s.distinct
    BY <1>5, <1>10 DEF Compared, Relations
  <2>3. Says(BuildBinary(b), row) = Signed(FALSE, Applied(s.op, v, args))
    BY <1>9, <2>1, <2>2, Zenon
  <2> QED
    BY <1>3, <1>5, <1>8, <2>2, <2>3 DEF Signed
<1>11. CASE s.op = "like"
  <2>1. BuildBinary(b) = Comparison(first, right, "like", Negated(b))
    BY <1>6, <1>7, <1>11, BuildOne
  <2>2. "like" \in Compared /\ ~s.distinct
    BY <1>5, <1>11 DEF Compared
  <2>3. Says(BuildBinary(b), row) = Signed(Negated(b), Applied("like", v, args))
    BY <1>9, <2>1, <2>2, Zenon
  <2> QED
    BY <1>3, <1>5, <1>7, <1>8, <1>11, <2>2, <2>3 DEF Signed
<1>12. CASE s.op = "is"
  <2>1. BuildBinary(b) = Is(b, first, right)
    BY <1>6, <1>7, <1>12, BuildOne
  <2>2. CASE ~Distinct(b) /\ IsValue(right) /\ right.first.v = Null
    <3>1. BuildBinary(b) = NullPredicate(first, Negated(b))
      BY <2>1, <2>2 DEF Is
    <3>2. Says(BuildBinary(b), row) = Signed(Negated(b), Truth(v = Null))
      <4>1. \A no : NullPredicate(first, no) # Raw
                   => Says(NullPredicate(first, no), row) = Signed(no, Truth(v = Null))
        BY <1>3, NullSays
      <4> QED
        BY <3>1, <4>1, Zenon
    <3>3. args[1] = Null
      BY <1>1, <1>4, <2>2, SimpleValue DEF IsValue, ValueOf
    <3>4. Applied("is", v, args) = Truth(v = Null)
      BY <3>3, AppliedToOne DEF Compared
    <3> QED
      BY <1>3, <1>5, <1>7, <1>8, <1>12, <2>2, <3>2, <3>4 DEF Signed
  <2>3. CASE ~(~Distinct(b) /\ IsValue(right) /\ right.first.v = Null)
    <3>1. BuildBinary(b) = Comparison(first, right, "is", Negated(b) # Distinct(b))
      BY <2>1, <2>3 DEF Is
    <3>2. "is" \in Compared
      BY DEF Compared
    <3>3. Says(BuildBinary(b), row) = Signed(Negated(b) # Distinct(b), Applied("is", v, args))
      BY <1>9, <3>1, <3>2, Zenon
    <3>4. (Negated(b) # Distinct(b)) <=> (s.not # s.distinct)
      BY <1>5, <1>7 DEF Negated, Distinct
    <3> QED
      BY <1>3, <1>8, <1>12, <3>3, <3>4 DEF Signed
  <2> QED
    BY <2>2, <2>3
<1> QED
  BY <1>10, <1>11, <1>12

\* BETWEEN, of a column and two values.
LEMMA BetweenSays ==
  ASSUME NEW first \in ExprComparison, NEW s \in Operator, s.op = "between", NEW row \in Rows,
         NEW b, b.first = first, b.tail = <<s>>, BuildBinary(b) # Raw
  PROVE  Says(BuildBinary(b), row) = OperatorOf(s, ComparisonOf(first, row), row)
<1> DEFINE low == s.args[1]
           high == s.args[2]
           v == ComparisonOf(first, row)
<1>1. /\ s.args = <<low, high>> /\ low \in ExprComparison /\ high \in ExprComparison
      /\ s.not \in BOOLEAN /\ s.distinct \in BOOLEAN /\ ~s.distinct
  <2>1. s.args \in Seq(ExprComparison) /\ Len(s.args) = 2
    BY DEF Operator
  <2>2. s.args = <<low, high>> /\ low \in ExprComparison /\ high \in ExprComparison
    BY ONLY <2>1
  <2> QED
    BY <2>2 DEF Operator
<1>2. /\ Len(Comparisons(b)) = 3
      /\ Comparisons(b)[1] = first /\ Comparisons(b)[2] = low /\ Comparisons(b)[3] = high
  <2>1. Comparisons(b) = <<first>> \o <<low, high>>
    BY <1>1, ComparisonsOfOne
  <2>2. <<first>> \in Seq(ExprComparison) /\ <<low, high>> \in Seq(ExprComparison)
    BY <1>1
  <2> HIDE DEF low, high
  <2> QED
    BY ONLY <2>1, <2>2
<1>3. Ops(b) = {"between"} /\ (Negated(b) <=> s.not)
  <2>1. DOMAIN b.tail = {1} /\ b.tail[1] = s
    OBVIOUS
  <2> QED
    BY <2>1 DEF Ops, Negated
<1>4. BuildBinary(b) = Between(b, Comparisons(b))
  BY <1>2, <1>3, BuildOne
<1>5. /\ IsColumn(first) /\ IsValue(low) /\ IsValue(high)
      /\ BuildBinary(b) = Structured(first.first.column, "between", Negated(b), <<low.first, high.first>>)
  BY <1>2, <1>4 DEF Between
<1>6. \A w, args : Applied("between", w, args) = And({Related(">=", w, args[1]), Related("<=", w, args[2])})
  BY DEF Applied
<1>7. /\ row[first.first.column] = v
      /\ ValueOf(low.first, row) = ComparisonOf(low, row) /\ ValueOf(high.first, row) = ComparisonOf(high, row)
  BY <1>1, <1>5, SimpleValue
<1> DEFINE said == [i \in DOMAIN <<low.first, high.first>> |-> ValueOf(<<low.first, high.first>>[i], row)]
           args == [i \in DOMAIN s.args |-> ComparisonOf(s.args[i], row)]
<1>8. said[1] = args[1] /\ said[2] = args[2]
  BY <1>1, <1>7
<1>9. Says(BuildBinary(b), row) = Signed(Negated(b), Applied("between", v, said))
  BY <1>5, <1>7 DEF Says, Structured, Signed
<1>10. OperatorOf(s, v, row) = Signed(s.not, Applied("between", v, args))
  BY <1>1 DEF OperatorOf, Signed
<1> HIDE DEF said, args, v
<1>11. Applied("between", v, said) = Applied("between", v, args)
  BY <1>6, <1>8
<1> QED
  BY <1>3, <1>9, <1>10, <1>11 DEF Signed, v

\* IN, of a column and a list of values.
LEMMA InSays ==
  ASSUME NEW first \in ExprComparison, NEW s \in Operator, s.op \in {"in", "insub"}, s.args # <<>>,
         NEW row \in Rows, NEW b, b.first = first, b.tail = <<s>>, BuildBinary(b) # Raw
  PROVE  Says(BuildBinary(b), row) = OperatorOf(s, ComparisonOf(first, row), row)
<1> DEFINE v == ComparisonOf(first, row)
           comps == <<first>> \o s.args
<1>1. s.op = "in" /\ s.args \in Seq(ExprComparison) /\ ~s.distinct /\ s.not \in BOOLEAN /\ s.distinct \in BOOLEAN
  BY DEF Operator
<1>2. /\ Len(comps) = Len(s.args) + 1 /\ Len(s.args) \in Nat /\ Len(s.args) # 0 /\ DOMAIN s.args = 1..Len(s.args)
      /\ comps[1] = first /\ \A i \in DOMAIN s.args : comps[i + 1] = s.args[i] /\ i + 1 \in 2..Len(comps)
                                                     /\ s.args[i] \in ExprComparison
  <2>1. s.args \in Seq(ExprComparison) /\ first \in ExprComparison /\ s.args # <<>>
    BY <1>1
  <2>2. <<first>> \in Seq(ExprComparison)
    BY ONLY <2>1
  <2> QED
    BY ONLY <2>1, <2>2
<1>3. Comparisons(b) = comps
  BY ComparisonsOfOne
<1>4. Ops(b) = {"in"} /\ (Negated(b) <=> s.not)
  <2>1. DOMAIN b.tail = {1} /\ b.tail[1] = s
    OBVIOUS
  <2> QED
    BY <1>1, <2>1 DEF Ops, Negated
<1> DEFINE values == [i \in 1..(Len(comps) - 1) |-> comps[i + 1].first]
           said == [i \in DOMAIN values |-> ValueOf(values[i], row)]
           args == [i \in DOMAIN s.args |-> ComparisonOf(s.args[i], row)]
<1> HIDE DEF comps
<1>5. BuildBinary(b) = In(b, comps)
  <2>1. Len(comps) # 1
    BY <1>2
  <2> QED
    BY <1>3, <1>4, <2>1, BuildOne
<1>6. /\ IsColumn(comps[1]) /\ \A i \in 2..Len(comps) : IsValue(comps[i])
      /\ BuildBinary(b) = Structured(comps[1].first.column, "in", Negated(b), values)
  BY <1>5 DEF In
<1>7. row[first.first.column] = v
  BY <1>2, <1>6, SimpleValue
<1>8. said = args
  <2>1. 1..(Len(comps) - 1) = DOMAIN s.args
    BY <1>2
  <2>2. ASSUME NEW i \in DOMAIN s.args PROVE ValueOf(values[i], row) = ComparisonOf(s.args[i], row)
    <3>1. IsValue(s.args[i]) /\ s.args[i] \in ExprComparison /\ values[i] = s.args[i].first
      BY <1>2, <1>6, <2>1
    <3> HIDE DEF values
    <3> QED
      BY <3>1, SimpleValue
  <2>3. DOMAIN values = DOMAIN s.args
    BY <2>1
  <2> HIDE DEF values
  <2> QED
    BY <2>2, <2>3
<1>9. Says(BuildBinary(b), row) = Signed(Negated(b), Applied("in", v, said))
  BY <1>2, <1>6, <1>7 DEF Says, Structured, Signed
<1>10. OperatorOf(s, v, row) = Signed(s.not, Applied("in", v, args))
  BY <1>1 DEF OperatorOf, Signed
<1> HIDE DEF said, args, v
<1> QED
  BY <1>4, <1>8, <1>9, <1>10 DEF Signed, v

\* A relational operator between two operands.
LEMMA RelationalSays ==
  ASSUME Null \notin Int, NEW c \in ExprComparison, Relational(c) # Raw, NEW row \in Rows
  PROVE  Says(Relational(c), row) = ComparisonOf(c, row)
<1>1. Len(c.rest) = 1
  BY DEF Relational
<1>2. /\ c.rest \in Seq([op : {"<", "<=", ">", ">="}, operand : Operand]) /\ c.first \in Operand
      /\ c = [first |-> c.first, rest |-> c.rest]
  BY DEF ExprComparison
<1>3. DOMAIN c.rest = {1} /\ c.rest[1] \in [op : {"<", "<=", ">", ">="}, operand : Operand]
  <2>1. PICK S : S = [op : {"<", "<=", ">", ">="}, operand : Operand]
    OBVIOUS
  <2>2. PICK rest \in Seq(S) : rest = c.rest
    BY <1>2, <2>1
  <2>3. Len(rest) = 1
    BY <1>1, <2>2
  <2>4. DOMAIN rest = {1} /\ rest[1] \in S
    BY ONLY <2>2, <2>3
  <2> QED
    BY <2>1, <2>2, <2>4
<1>4. PICK op \in {"<", "<=", ">", ">="} : op = c.rest[1].op
  BY <1>3
<1>5. PICK left : left = [c EXCEPT !.rest = <<>>]
  OBVIOUS
<1>6. PICK right : right = [first |-> c.rest[1].operand, rest |-> <<>>]
  OBVIOUS
<1>7. left \in ExprComparison /\ right \in ExprComparison
  <2>1. left = [first |-> c.first, rest |-> <<>>]
    BY <1>2, <1>5
  <2>2. c.rest[1].operand \in Operand
    BY <1>3
  <2> QED
    BY <1>2, <1>6, <2>1, <2>2 DEF ExprComparison
<1>8. PICK v : v = ValueOf(c.first, row)
  OBVIOUS
<1>9. PICK w : w = ValueOf(c.rest[1].operand, row)
  OBVIOUS
<1>10. ComparisonOf(left, row) = v /\ ComparisonOf(right, row) = w
  <2>1. left.rest = <<>> /\ left.first = c.first /\ right.rest = <<>> /\ right.first = c.rest[1].operand
    BY <1>2, <1>5, <1>6
  <2> QED
    BY <1>8, <1>9, <2>1, ComparisonOfOperand
<1>11. ComparisonOf(c, row) = Related(op, v, w)
  BY <1>3, <1>4, <1>8, <1>9, ComparisonOfTwo
<1>12. Relational(c) = Comparison(left, right, op, FALSE)
  BY <1>1, <1>4, <1>5, <1>6 DEF Relational
<1>13. Says(Relational(c), row) = Signed(FALSE, Applied(op, v, <<w>>))
  <2>1. op \in Compared /\ <<w>>[1] = ComparisonOf(right, row)
    BY <1>4, <1>10 DEF Compared, Relations
  <2>2. \A no : Comparison(left, right, op, no) # Raw
               => Says(Comparison(left, right, op, no), row) = Signed(no, Applied(op, v, <<w>>))
    BY <1>7, <1>10, <2>1, ComparisonSays
  <2> QED
    BY <1>12, <2>2, Zenon
<1>14. Applied(op, v, <<w>>) = Related(op, v, w)
  <2>1. op \in Compared /\ op # "is" /\ <<w>>[1] = w
    BY <1>4 DEF Compared, Relations
  <2> QED
    BY <2>1, AppliedToOne
<1> QED
  BY <1>11, <1>13, <1>14 DEF Signed

\* What the builder keeps of such a conjunct says what the conjunct says.
LEMMA BinarySays ==
  ASSUME Null \notin Int, NEW b \in [first : ExprComparison, tail : Seq(Operator)], OneOperator(b),
         BuildBinary(b) # Raw, NEW row \in Rows
  PROVE  Says(BuildBinary(b), row) = BinaryOf(b, row)
<1>1. b.tail \in Seq(Operator) /\ Len(b.tail) <= 1 /\ b.first \in ExprComparison
  BY DEF OneOperator
<1>2. b.tail = <<>> \/ (DOMAIN b.tail = {1} /\ b.tail[1] \in Operator /\ b.tail = <<b.tail[1]>>)
  <2>1. Len(b.tail) = 0 \/ Len(b.tail) = 1
    <3>1. PICK n \in Nat : n = Len(b.tail)
      BY <1>1
    <3>2. n <= 1
      BY <1>1, <3>1
    <3>3. ASSUME NEW i \in Nat, i <= 1 PROVE i = 0 \/ i = 1
      BY ONLY <3>3
    <3> QED
      BY <3>1, <3>2, <3>3
  <2>2. CASE Len(b.tail) = 0
    BY ONLY <1>1, <2>2
  <2>3. CASE Len(b.tail) = 1
    BY ONLY <1>1, <2>3
  <2> QED
    BY <2>1, <2>2, <2>3
<1>3. CASE b.tail = <<>>
  <2>1. Comparisons(b) = <<b.first>> /\ Ops(b) = {}
    BY <1>3, ComparisonsOfNone DEF Ops
  <2>2. BuildBinary(b) = Relational(b.first)
    <3>1. Len(<<b.first>>) = 1 /\ <<b.first>>[1] = b.first
      OBVIOUS
    <3> QED
      BY <2>1, <3>1 DEF BuildBinary
  <2> QED
    BY <1>1, <1>3, <2>2, RelationalSays, BinaryOfComparison
<1>4. CASE b.tail # <<>>
  <2>1. PICK s \in Operator : b.tail = <<s>> /\ DOMAIN b.tail = {1} /\ b.tail[1] = s
    BY <1>2, <1>4
  <2>2. PICK first \in ExprComparison : b.first = first
    BY <1>1
  <2>3. BinaryOf(b, row) = OperatorOf(s, ComparisonOf(first, row), row)
    BY <2>1, <2>2, BinaryOfOne
  <2>4. CASE s.op \in {"=", "<>", "like", "is"}
    BY <2>1, <2>2, <2>3, <2>4, OneArgumentSays
  <2>5. CASE s.op = "between"
    BY <2>1, <2>2, <2>3, <2>5, BetweenSays
  <2>6. CASE s.op \in {"in", "insub"} /\ s.args # <<>>
    BY <2>1, <2>2, <2>3, <2>6, InSays
  <2>7. CASE s.op \notin {"=", "<>", "like", "is", "between"} /\ s.args = <<>>
    <3>1. Len(Comparisons(b)) = 1 /\ Comparisons(b)[1] = first
      <4>1. Comparisons(b) = <<first>> \o <<>>
        BY <2>1, <2>2, <2>7, ComparisonsOfOne
      <4>2. <<first>> \in Seq(ExprComparison) /\ <<>> \in Seq(ExprComparison)
        OBVIOUS
      <4> QED
        BY ONLY <4>1, <4>2
    <3>2. Ops(b) = {s.op} /\ (Negated(b) <=> s.not)
      BY <2>1 DEF Ops, Negated
    <3>3. CASE s.op = "isnull"
      <4>1. BuildBinary(b) = NullPredicate(first, Negated(b))
        BY <3>1, <3>2, <3>3, BuildOne
      <4>2. \A no : NullPredicate(first, no) # Raw
                   => Says(NullPredicate(first, no), row) = Signed(no, Truth(ComparisonOf(first, row) = Null))
        BY NullSays
      <4>3. Says(BuildBinary(b), row) = Signed(Negated(b), Truth(ComparisonOf(first, row) = Null))
        BY <4>1, <4>2, Zenon
      <4>4. s.not \in BOOLEAN /\ s.distinct \in BOOLEAN /\ ~s.distinct
        BY <3>3 DEF Operator
      <4>5. \A v, args : Applied("isnull", v, args) = Truth(v = Null)
        BY DEF Applied
      <4> QED
        BY <2>3, <3>2, <3>3, <4>3, <4>4, <4>5 DEF OperatorOf, Signed
    <3>4. CASE s.op # "isnull"
      <4>1. s.op \in {"in", "insub"}
        BY <2>7, <3>4 DEF Operator
      <4>2. first.rest = <<>>
        BY <2>1, <2>2, <2>7, <4>1 DEF OneOperator
      <4>3. BuildBinary(b) = Relational(first)
        BY <3>1, <3>2, <3>4, BuildOne
      <4> QED
        BY <4>2, <4>3 DEF Relational
    <3> QED
      BY <3>3, <3>4
  <2> QED
    BY <2>4, <2>5, <2>6, <2>7 DEF Operator
<1> QED
  BY <1>3, <1>4

(***************************************************************************)
(* WHERE.                                                                   *)
(***************************************************************************)

\* OR and AND over truth values.
LEMMA OrOfOne ==
  ASSUME NEW t
  PROVE  True(Or({t})) <=> True(t)
  BY WhereAssumption DEF Or, True

LEMMA AndOfAll ==
  ASSUME NEW S
  PROVE  True(And(S)) <=> \A t \in S : True(t)
  BY WhereAssumption DEF And, True

\* A clause without OR holds where all its conjuncts hold.
LEMMA WhereOfAnd ==
  ASSUME NEW where, DOMAIN where = {1}, NEW row
  PROVE  True(WhereOf(where, row)) <=> \A i \in DOMAIN where[1] : True(NotOf(where[1][i], row))
<1>1. WhereOf(where, row) = Or({AndOf(where[1], row)})
  BY DEF WhereOf
<1>2. True(WhereOf(where, row)) <=> True(AndOf(where[1], row))
  BY <1>1, OrOfOne
<1> QED
  BY <1>2, AndOfAll DEF AndOf

\* What the builder makes of a conjunct says what the conjunct says.
LEMMA ConjunctKept ==
  ASSUME NEW n \in ExprNot, BuildNot(n) # Raw, OneOperator(n.binary), NEW row \in Rows
  PROVE  Says(BuildNot(n), row) = NotOf(n, row)
<1>1. n.nots = 0 /\ BuildNot(n) = BuildBinary(n.binary)
  BY DEF BuildNot, ExprNot
<1>2. NotOf(n, row) = BinaryOf(n.binary, row)
  BY <1>1 DEF NotOf
<1>3. n.binary \in [first : ExprComparison, tail : Seq(Operator)] /\ Null \notin Int
  BY WhereAssumption DEF ExprNot
<1> QED
  BY <1>1, <1>2, <1>3, BinarySays

\* A connector that applies the structured predicates of a WHERE clause without chains of
\* operators drops no row of the answer and keeps no other.
THEOREM WhereIsKept == Spec => [](Unchained(stmt) => WhereKept)
<1>1. ASSUME Read, Unchained(stmt) PROVE WhereKept
  <2> SUFFICES ASSUME built # Unread, NEW row \in Rows
               PROVE  True(WhereOf(stmt.where, row)) <=>
                        \A i \in DOMAIN built.where :
                          True(IF built.where[i] # Raw THEN Says(built.where[i], row)
                               ELSE IF Len(stmt.where) > 1 THEN WhereOf(stmt.where, row)
                               ELSE NotOf(stmt.where[1][i], row))
    BY DEF WhereKept
  <2>1. PICK where : where = stmt.where
    OBVIOUS
  <2>2. built.where = BuildWhere(where) /\ where \in Seq(Seq(ExprNot)) /\ where # <<>>
    BY <1>1, <2>1, WhereAssumption DEF Read
  <2>3. PICK len \in Nat : len = Len(where) /\ len # 0 /\ DOMAIN where = 1..len
    BY ONLY <2>2
  <2>4. CASE len = 1
    <3>1. /\ where[1] \in Seq(ExprNot) /\ DOMAIN where = {1} /\ ~(Len(where) > 1)
          /\ built.where = [i \in DOMAIN where[1] |-> BuildNot(where[1][i])]
      <4>1. 1..1 = {1} /\ 1 \in 1..1 /\ ~(1 > 1)
        OBVIOUS
      <4>2. built.where = [i \in DOMAIN where[1] |-> BuildNot(where[1][i])]
        BY <2>2, <2>3, <2>4 DEF BuildWhere
      <4>3. where[1] \in Seq(ExprNot)
        BY <2>2, <2>3, <2>4, <4>1
      <4> QED
        BY <2>3, <2>4, <4>1, <4>2, <4>3
    <3>2. ASSUME NEW i \in DOMAIN where[1]
          PROVE  (IF built.where[i] # Raw THEN Says(built.where[i], row)
                  ELSE IF Len(where) > 1 THEN WhereOf(where, row) ELSE NotOf(where[1][i], row))
                   = NotOf(where[1][i], row)
      <4>1. where[1][i] \in ExprNot /\ built.where[i] = BuildNot(where[1][i])
        BY <3>1
      <4>2. BuildNot(where[1][i]) # Raw => OneOperator(where[1][i].binary)
        BY <1>1, <2>1, <2>3, <2>4 DEF Unchained
      <4> QED
        BY <3>1, <4>1, <4>2, ConjunctKept
    <3>3. DOMAIN built.where = DOMAIN where[1]
      BY <3>1
    <3>4. (\A i \in DOMAIN built.where :
             True(IF built.where[i] # Raw THEN Says(built.where[i], row)
                  ELSE IF Len(where) > 1 THEN WhereOf(where, row) ELSE NotOf(where[1][i], row)))
            <=> \A i \in DOMAIN where[1] : True(NotOf(where[1][i], row))
      BY <3>2, <3>3
    <3>5. True(WhereOf(where, row)) <=> \A i \in DOMAIN where[1] : True(NotOf(where[1][i], row))
      BY <3>1, WhereOfAnd
    <3> QED
      BY <2>1, <3>4, <3>5
  <2>5. CASE len # 1
    <3>1. built.where = <<Raw>> /\ Len(where) > 1
      BY <2>2, <2>3, <2>5 DEF BuildWhere
    <3>2. DOMAIN built.where = {1} /\ built.where[1] = Raw
      BY <3>1
    <3> QED
      BY <2>1, <3>1, <3>2
  <2> QED
    BY <2>4, <2>5
<1> QED
  BY <1>1, BuilderRead, PTL
==============================================================================
