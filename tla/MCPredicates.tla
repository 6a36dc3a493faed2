---------------------------- MODULE MCPredicates ----------------------------
(***************************************************************************)
(* Statements for Predicates: every operator over every kind of operand,    *)
(* NOT in every place, and the chains of operators that stay text.          *)
(***************************************************************************)
EXTENDS Predicates

MCRows == [{"a", "b"} -> {Null, 0, 1, 2}]
MCMatches == {<<0, 1>>, <<1, 1>>, <<1, 2>>}
MCCollate == [v \in -2..2 |-> v * v]

Column(c) == [kind |-> "column", column |-> c, v |-> Null]
Value(v) == [kind |-> "value", column |-> "", v |-> v]
Minus(c) == [kind |-> "negated", column |-> c, v |-> Null]
Operands == {Column("a"), Column("b"), Value(1), Value(Null), Minus("a")}

Plain(o) == [first |-> o, rest |-> <<>>]
Ordered(o, rest) == [first |-> o, rest |-> rest]
Plains == {Plain(o) : o \in Operands}
Relations == {Ordered(o, <<[op |-> op, operand |-> p]>>) :
                o \in Operands, op \in {"<", "<=", ">", ">="}, p \in Operands}
TwoRelations == {Ordered(Column("a"), <<[op |-> "<", operand |-> p], [op |-> ">", operand |-> q]>>) :
                   p, q \in {Column("b"), Value(1)}}

Op(op, not, distinct, args) == [op |-> op, not |-> not, distinct |-> distinct, args |-> args]
Equal == {Op(op, FALSE, FALSE, <<p>>) : op \in {"=", "<>"}, p \in Plains}
Like == {Op("like", not, FALSE, <<p>>) : not \in BOOLEAN, p \in Plains}
IsOps == {Op("is", not, distinct, <<p>>) : not, distinct \in BOOLEAN, p \in Plains}
Empty == {Op("isnull", not, FALSE, <<>>) : not \in BOOLEAN}
BetweenOps == {Op("between", not, FALSE, <<p, q>>) : not \in BOOLEAN, p, q \in Plains}
InOps == {Op("in", not, FALSE, args) : not \in BOOLEAN, args \in {<<>>} \cup {<<p>> : p \in Plains}
                                                            \cup {<<p, Plain(Value(2))>> : p \in Plains}}
         \cup {Op("insub", not, FALSE, <<>>) : not \in BOOLEAN}
OneOp == Equal \cup Like \cup IsOps \cup Empty \cup BetweenOps \cup InOps

\* a = b < 1, and a = 1 LIKE b, which the builder leaves alone.
Nested == {Op("=", FALSE, FALSE, <<c>>) : c \in {r \in Relations : r.first = Column("b")}}
Chains == {<<s, t>> : s, t \in Equal \cup Like \cup {i \in IsOps : ~i.distinct}}

Binary(c, tail) == [first |-> c, tail |-> tail]
Binaries == {Binary(c, <<>>) : c \in Plains \cup Relations \cup TwoRelations}
            \cup {Binary(c, <<s>>) : c \in Plains, s \in OneOp}
            \cup {Binary(Plain(Column("a")), <<s>>) : s \in Nested}
            \cup {Binary(Plain(Column("a")), chain) : chain \in Chains}

No(n, b) == [nots |-> n, binary |-> b]
Few == {No(n, Binary(Plain(Column(c)), <<Op("=", FALSE, FALSE, <<Plain(Value(1))>>)>>)) :
          n \in 0..2, c \in {"a", "b"}}

Wheres == {<<<<No(0, b)>>>> : b \in Binaries}
          \cup {<<<<p, q>>>> : p, q \in Few} \cup {<<<<p>>, <<q>>>> : p, q \in Few}
          \cup {<<<<p>>>> : p \in Few}

MCTerms == [operand : {Column("a"), Minus("a"), Value(1)}, desc : BOOLEAN,
            nulls : {"", "first", "last"}, collate : BOOLEAN]

\* A value, or an expression that comes to it.
Counts == {Value(0), Value(2), Minus("a")}
MCLimits == [exprs : {<<>>} \cup {<<p>> : p \in Counts} \cup {<<p, q>> : p, q \in Counts}, keyword : BOOLEAN]

Unsorted == [operand |-> Value(1), desc |-> FALSE, nulls |-> "", collate |-> FALSE]
NoLimit == [exprs |-> <<>>, keyword |-> FALSE]
Everything == <<<<No(0, Binary(Plain(Column("a")), <<>>))>>>>
MCStatements == [where : Wheres, term : {Unsorted}, limit : {NoLimit}]
                \cup [where : {Everything}, term : MCTerms, limit : MCLimits]
=============================================================================
