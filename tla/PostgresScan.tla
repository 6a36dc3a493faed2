---------------------------- MODULE PostgresScan -----------------------------
(***************************************************************************)
(* The Postgres connector (source/postgres): one SELECT over a snapshot.    *)
(***************************************************************************)
EXTENDS ConnectorScan

CONSTANT OrderSafe  \* columns of types that Postgres and SQLite order alike

Here == req.schema = "postgres"

\* translateFilter: LIKE and its kin are evaluated locally.
Translated(f) == f.op \in {"=", "<>", "<", "<=", ">", ">=", "in", "notin", "between", "notbetween"}

ConsumedAll == \A f \in Filters : Translated(f)
\* Mutant: the first term decides whether the order is safe.
FirstSafe == req.order = <<>> \/ req.order[1].column \in OrderSafe
OrderOK == \A i \in DOMAIN req.order : req.order[i].column \in OrderSafe

\* What is left of the order for a reader who compares like SQLite.
Ordered == SubSeq(req.order, 1, Max({n \in 0..Len(req.order) : \A i \in 1..n : req.order[i].column \in OrderSafe}))

PushLimit == req.limit # Null /\ OrderOK /\ ConsumedAll

\* Postgres refuses a negative LIMIT.
Scan ==
  /\ pc = "start" /\ Here /\ (PushLimit => WrappedStop >= 0)
  /\ Ask({f \in Filters : Translated(f)}, IF PushLimit THEN Ordered ELSE <<>>,
         IF PushLimit THEN WrappedStop ELSE MaxRows, IF PushLimit THEN WrappedStop ELSE Null, TRUE)

Rows ==
  /\ pc = "paging" /\ Here
  /\ Answer(PageOf(asked.size), ~Limits /\ Cardinality(PageOf(asked.size)) >= MaxRows)

Next == Scan \/ Rows
==============================================================================
