------------------------------ MODULE TableStore ------------------------------
(***************************************************************************)
(* What the per-request database promises the engine: named tables that     *)
(* keep whole chunks in the order they were inserted, answers that hold a   *)
(* whole table, and calls that do all they say or nothing.  There is no     *)
(* SQLite, connection, transaction or file in it.                           *)
(***************************************************************************)
EXTENDS Integers, Sequences

CONSTANTS
  Table,  \* the tables there may be
  Call    \* the inserts and queries there may be

VARIABLES
  store,   \* the tables there are, each with its rows
  answer,  \* what the last successful query returned
  call,    \* the insert or query that runs
  result   \* of the last call: "none" while it runs, "ok" or "error"

vars == <<store, answer, call, result>>

NoCall == [op |-> "none"]

\* The function f, extended to map k to v.
With(f, k, v) == [x \in DOMAIN f \cup {k} |-> IF x = k THEN v ELSE f[x]]

Init ==
  /\ store = [t \in {} |-> <<>>]
  /\ answer = <<>>
  /\ call = NoCall
  /\ result = "none"

\* Opening, attaching and closing concern no table, and any call may fail.
Fail == result' = "error" /\ call' = NoCall /\ UNCHANGED <<store, answer>>
Done == result' = "ok" /\ call = NoCall /\ UNCHANGED <<store, answer, call>>

Create(t) ==
  /\ call = NoCall
  /\ t \notin DOMAIN store
  /\ store' = With(store, t, <<>>)
  /\ result' = "ok"
  /\ UNCHANGED <<answer, call>>

Begin(c) ==
  /\ call = NoCall
  /\ call' = c
  /\ result' = "none"
  /\ UNCHANGED <<store, answer>>

Insert ==
  /\ call.op = "insert"
  /\ call.table \in DOMAIN store
  /\ store' = [store EXCEPT ![call.table] = @ \o call.rows]
  /\ call' = NoCall /\ result' = "ok"
  /\ UNCHANGED answer

Query ==
  /\ call.op = "query"
  /\ call.table \in DOMAIN store
  /\ answer' = store[call.table]
  /\ call' = NoCall /\ result' = "ok"
  /\ UNCHANGED store

Next ==
  \/ Fail \/ Done \/ Insert \/ Query
  \/ \E t \in Table : Create(t)
  \/ \E c \in Call : Begin(c)

Spec == Init /\ [][Next]_vars
===============================================================================
