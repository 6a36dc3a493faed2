----------------------------- MODULE Predicates ------------------------------
(***************************************************************************)
(* How the parser's builder reads WHERE, ORDER BY and LIMIT (internal/      *)
(* sqlparse/build.go): a conjunct becomes a structured predicate, which the  *)
(* planner may offer to a connector, or stays raw text for SQLite.          *)
(*                                                                          *)
(* Expressions are nested as in the grammar: an OR of ANDs of NOTs of one    *)
(* expr_binary, a comparison followed by operators that apply from left to   *)
(* right.  A comparison is an operand followed by relational operators.     *)
(* Truth is 1, 0 or Null.                                                   *)
(***************************************************************************)
EXTENDS Integers, Sequences, SequencesExt, FiniteSetsExt

CONSTANTS
  Null,     \* SQL's NULL
  Matches,  \* pairs of a text and a pattern it is LIKE
  Found,    \* what a subquery returns
  Collate,  \* what a collation compares instead of a value
  Rows,     \* rows of columns to evaluate an expression over
  Statements,  \* the statements considered: WHERE clause, ORDER BY term and LIMIT
  Unread       \* before the builder ran, and what it leaves out

\* The grammar has `LIMIT a`, `LIMIT a OFFSET b` and `LIMIT a, b`.
ASSUME LimitAssumption ==
  \A s \in Statements : s.limit.exprs = <<>> \/ Len(s.limit.exprs) \in {1, 2}

(***************************************************************************)
(* The grammar of a WHERE clause (grammar/SQLiteParser.g4, expr_or to        *)
(* expr_bitwise).  Rows hold numbers and NULLs in the columns it names.      *)
(***************************************************************************)
Number == Int \cup {Null}
Operand ==
  {o \in [kind : {"column", "value", "negated"}, column : STRING, v : Number] :
     o.kind # "value" => \A row \in Rows : row[o.column] \in Number}
ExprComparison == [first : Operand, rest : Seq([op : {"<", "<=", ">", ">="}, operand : Operand])]
Operator ==
  {s \in [op : {"=", "<>", "like", "is", "isnull", "between", "in", "insub"},
          not : BOOLEAN, distinct : BOOLEAN, args : Seq(ExprComparison)] :
     /\ s.op \in {"isnull", "insub"} => s.args = <<>>
     /\ s.op \in {"=", "<>", "like", "is"} => Len(s.args) = 1
     /\ s.op = "between" => Len(s.args) = 2
     /\ s.op \in {"=", "<>"} => ~s.not
     /\ s.distinct => s.op = "is"}
ExprNot == [nots : Nat, binary : [first : ExprComparison, tail : Seq(Operator)]]

ASSUME WhereAssumption ==
  /\ Null \notin Int
  /\ \A s \in Statements : s.where \in Seq(Seq(ExprNot)) /\ s.where # <<>>

VARIABLES
  stmt,  \* the statement
  built  \* what the builder made of it
vars == <<stmt, built>>

(***************************************************************************)
(* What expressions mean to SQLite.                                         *)
(***************************************************************************)
Truth(b) == IF b THEN 1 ELSE 0
Not(t) == IF t = Null THEN Null ELSE Truth(t = 0)
And(S) == IF 0 \in S THEN 0 ELSE IF Null \in S THEN Null ELSE 1
Or(S) == IF \E t \in S : t \notin {0, Null} THEN 1 ELSE IF Null \in S THEN Null ELSE 0

Related(op, v, w) ==
  IF Null \in {v, w} THEN Null
  ELSE Truth(CASE op = "=" -> v = w [] op = "<>" -> v # w [] op = "<" -> v < w
                [] op = "<=" -> v <= w [] op = ">" -> v > w [] op = ">=" -> v >= w
                [] op = "like" -> <<v, w>> \in Matches)

\* An operator with its arguments, without the NOT of its negated form.
Applied(op, v, args) ==
  CASE op \in {"isnull", "is"} -> Truth(v = IF op = "is" THEN args[1] ELSE Null)
    [] op = "between" -> And({Related(">=", v, args[1]), Related("<=", v, args[2])})
    [] op = "in" -> Or({Related("=", v, args[i]) : i \in DOMAIN args})
    [] op = "insub" -> Or({Related("=", v, w) : w \in Found})
    [] OTHER -> Related(op, v, args[1])

ValueOf(operand, row) ==
  CASE operand.kind = "column" -> row[operand.column]
    [] operand.kind = "value" -> operand.v
    [] operand.kind = "negated" -> IF row[operand.column] = Null THEN Null ELSE -row[operand.column]

ComparisonOf(c, row) ==
  FoldLeft(LAMBDA v, r : Related(r.op, v, ValueOf(r.operand, row)), ValueOf(c.first, row), c.rest)

BinaryOf(b, row) ==
  FoldLeft(LAMBDA v, s : LET t == Applied(s.op, v, [i \in DOMAIN s.args |-> ComparisonOf(s.args[i], row)])
                         IN IF s.not # s.distinct THEN Not(t) ELSE t,
           ComparisonOf(b.first, row), b.tail)

NotOf(n, row) == LET t == BinaryOf(n.binary, row) IN IF n.nots % 2 = 1 THEN Not(t) ELSE t
AndOf(ands, row) == And({NotOf(ands[i], row) : i \in DOMAIN ands})
WhereOf(where, row) == Or({AndOf(where[i], row) : i \in DOMAIN where})
True(t) == t \notin {0, Null}

(***************************************************************************)
(* The builder.                                                             *)
(***************************************************************************)
Raw == [op |-> "raw", column |-> "", not |-> FALSE, args |-> <<>>]
Structured(column, op, not, args) == [op |-> op, column |-> column, not |-> not, args |-> args]

\* classify: a lone column, literal or bind parameter.
IsColumn(c) == c.rest = <<>> /\ c.first.kind = "column"
IsValue(c) == c.rest = <<>> /\ c.first.kind = "value"

Flip == [op \in {"<", "<=", ">", ">="} |-> CASE op = "<" -> ">" [] op = "<=" -> ">=" [] op = ">" -> "<" [] op = ">=" -> "<="]
flipOp(op) == IF op \in DOMAIN Flip THEN Flip[op] ELSE op

\* Mutant: patterns and values change places.
AllCommute(op) == TRUE
Commutable(op) == op # "like"

\* comparison, which also takes a column on the right.
Comparison(left, right, op, not) ==
  CASE IsColumn(left) /\ (IsValue(right) \/ IsColumn(right)) -> Structured(left.first.column, op, not, <<right.first>>)
    [] IsValue(left) /\ IsColumn(right) /\ Commutable(op) -> Structured(right.first.column, flipOp(op), not, <<left.first>>)
    [] OTHER -> Raw

NullPredicate(c, not) == IF IsColumn(c) THEN Structured(c.first.column, "isnull", not, <<>>) ELSE Raw

\* buildPredicateFromComparison
Relational(c) ==
  IF Len(c.rest) = 1
  THEN Comparison([c EXCEPT !.rest = <<>>], [first |-> c.rest[1].operand, rest |-> <<>>], c.rest[1].op, FALSE)
  ELSE Raw

\* The builder sees which operators occur, a NOT anywhere, and all operands.
Comparisons(b) == <<b.first>> \o FlattenSeq([i \in DOMAIN b.tail |-> b.tail[i].args])
Ops(b) == {b.tail[i].op : i \in DOMAIN b.tail}
Negated(b) == \E i \in DOMAIN b.tail : b.tail[i].not
Distinct(b) == \E i \in DOMAIN b.tail : b.tail[i].distinct

Is(b, left, right) ==
  IF ~Distinct(b) /\ IsValue(right) /\ right.first.v = Null THEN NullPredicate(left, Negated(b))
  ELSE Comparison(left, right, "is", Negated(b) # Distinct(b))

Between(b, comps) ==
  IF IsColumn(comps[1]) /\ IsValue(comps[2]) /\ IsValue(comps[3])
  THEN Structured(comps[1].first.column, "between", Negated(b), <<comps[2].first, comps[3].first>>) ELSE Raw

In(b, comps) ==
  IF "insub" \notin Ops(b) /\ IsColumn(comps[1]) /\ \A i \in 2..Len(comps) : IsValue(comps[i])
  THEN Structured(comps[1].first.column, "in", Negated(b), [i \in 1..(Len(comps) - 1) |-> comps[i + 1].first]) ELSE Raw

BuildBinary(b) ==
  LET comps == Comparisons(b)
      n == Len(comps)
      Has(ops) == ops \cap Ops(b) # {}
  IN IF n = 1 THEN IF Has({"isnull"}) THEN NullPredicate(comps[1], Negated(b)) ELSE Relational(comps[1])
     ELSE IF n = 2 /\ Has({"=", "<>"})
          THEN Comparison(comps[1], comps[2], IF Has({"="}) THEN "=" ELSE "<>", FALSE)
     ELSE IF Has({"like"}) THEN IF n = 2 THEN Comparison(comps[1], comps[2], "like", Negated(b)) ELSE Raw
     ELSE IF n = 2 /\ Has({"is"}) THEN Is(b, comps[1], comps[2])
     ELSE IF n = 3 /\ Has({"between"}) THEN Between(b, comps)
     ELSE IF Has({"in", "insub"}) THEN In(b, comps)
     ELSE Raw

\* Mutant: NOT in front of a comparison is overlooked.
BuildUnnegated(n) == BuildBinary(n.binary)
BuildNot(n) == IF n.nots > 0 THEN Raw ELSE BuildBinary(n.binary)

\* A predicate for every conjunct; an OR is one raw predicate.
BuildWhere(where) == IF Len(where) = 1 THEN [i \in DOMAIN where[1] |-> BuildNot(where[1][i])] ELSE <<Raw>>

\* An ORDER BY term; what is more than a column stays text.
Opaque == [column |-> "", desc |-> FALSE]
\* Mutant: NULLS FIRST, NULLS LAST and COLLATE are overlooked.
BuildUnmodified(t) ==
  IF t.operand.kind = "column" THEN [column |-> t.operand.column, desc |-> t.desc] ELSE Opaque
BuildTerm(t) ==
  IF t.nulls # "" \/ t.collate \/ t.operand.kind # "column" THEN Opaque
  ELSE [column |-> t.operand.column, desc |-> t.desc]

\* valueOf, which yields nothing for an expression.
ValueIn(e) == IF e.kind = "value" THEN e.v ELSE Unread

\* Mutant: `LIMIT a, b` counts a.
BuildLimitInOrder(l) ==
  [count  |-> IF Len(l.exprs) > 0 THEN ValueIn(l.exprs[1]) ELSE Unread,
   offset |-> IF Len(l.exprs) = 2 THEN ValueIn(l.exprs[2]) ELSE Unread]
BuildLimit(l) ==
  CASE l.exprs = <<>> -> [count |-> Unread, offset |-> Unread]
    [] Len(l.exprs) = 1 -> [count |-> ValueIn(l.exprs[1]), offset |-> Unread]
    [] Len(l.exprs) = 2 -> LET a == ValueIn(l.exprs[1])
                               b == ValueIn(l.exprs[2])
                           IN IF l.keyword THEN [count |-> a, offset |-> b] ELSE [count |-> b, offset |-> a]

Init == stmt \in Statements /\ built = Unread

\* buildSelect and buildCore: every clause by its own function.
Build ==
  /\ built = Unread
  /\ built' = [where |-> BuildWhere(stmt.where), term |-> BuildTerm(stmt.term),
                limit |-> BuildLimit(stmt.limit)]
  /\ UNCHANGED stmt

Next == Build

Spec == Init /\ [][Next]_vars

(***************************************************************************)
(* Properties.                                                              *)
(***************************************************************************)

\* What a structured predicate says of a row.
Says(p, row) ==
  LET t == Applied(p.op, row[p.column], [i \in DOMAIN p.args |-> ValueOf(p.args[i], row)])
  IN IF p.not THEN Not(t) ELSE t

\* A row satisfies a WHERE clause exactly if it satisfies all its predicates, where
\* one that stayed text says what its conjunct says: a connector that applies a
\* structured predicate drops no row of the answer and keeps no other, however the
\* clause was written (operands swapped, NOT in any place, IS with NULL).
WhereKept ==
  built # Unread =>
    \A row \in Rows :
      True(WhereOf(stmt.where, row)) <=>
        \A i \in DOMAIN built.where :
          True(IF built.where[i] # Raw THEN Says(built.where[i], row)
               ELSE IF Len(stmt.where) > 1 THEN WhereOf(stmt.where, row)
               ELSE NotOf(stmt.where[1][i], row))

\* A conjunct of one operator; IN with a subquery or an empty list counts as one only
\* if no relational operator stands before it.
OneOperator(b) ==
  /\ Len(b.tail) <= 1
  /\ \A i \in DOMAIN b.tail :
       b.tail[i].op \in {"in", "insub"} /\ b.tail[i].args = <<>> => b.first.rest = <<>>

\* The clauses for which WhereKept is proved (PredicatesProofs): no structured predicate
\* was made from a chain of operators.
Unchained(s) ==
  Len(s.where) = 1 =>
    \A i \in DOMAIN s.where[1] :
      BuildNot(s.where[1][i]) # Raw => OneOperator(s.where[1][i].binary)

\* What a term sorts a value by, and whether the row of v comes before that of w.
SortsBy(t, v) == IF t.collate /\ v # Null THEN Collate[v] ELSE v
NullsFirst(t) == t.nulls = "first" \/ (t.nulls = "" /\ ~t.desc)
Precedes(t, v, w) ==
  LET a == SortsBy(t, v)
      b == SortsBy(t, w)
  IN CASE a = Null -> b # Null /\ NullsFirst(t)
       [] b = Null -> a # Null /\ ~NullsFirst(t)
       [] OTHER -> IF t.desc THEN a > b ELSE a < b

\* A term that is handed to the planner as a column orders any two rows as SQLite
\* orders them, so a connector that sorts by it and stops at the LIMIT stops after
\* the right rows.
OrderKept ==
  built # Unread /\ built.term # Opaque =>
    \A r, s \in Rows :
      Precedes(stmt.term, ValueOf(stmt.term.operand, r), ValueOf(stmt.term.operand, s))
        <=> Precedes([nulls |-> "", collate |-> FALSE, desc |-> built.term.desc],
                     r[built.term.column], s[built.term.column])

\* Where an OFFSET is named by its keyword it comes second, else first.
WantedCount(l) == IF Len(l.exprs) = 2 /\ ~l.keyword THEN l.exprs[2] ELSE l.exprs[1]
WantedOffset(l) ==
  IF Len(l.exprs) < 2 THEN [kind |-> "value", v |-> 0] ELSE IF l.keyword THEN l.exprs[2] ELSE l.exprs[1]

\* The planner is told the number of rows that SQLite will want, and where they
\* start, in all three spellings of LIMIT.
LimitKept ==
  built # Unread =>
    LET l == stmt.limit
    IN /\ built.limit.count # Unread => l.exprs # <<>> /\ built.limit.count = WantedCount(l).v
       /\ built.limit.offset # Unread => built.limit.offset = WantedOffset(l).v
       /\ WantedOffset(l).kind = "value" /\ WantedOffset(l).v # 0 => built.limit.offset = WantedOffset(l).v
==============================================================================
