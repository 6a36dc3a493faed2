---------------------------- MODULE QueryContract ----------------------------
(***************************************************************************)
(* What one query run promises its caller, with no goroutine, lock or error *)
(* group in it: the sources deliver, and then the run either answers with   *)
(* everything they delivered or gives up with no answer at all; the files   *)
(* of its database are gone before it returns.                              *)
(***************************************************************************)
EXTENDS Integers, Sequences

CONSTANTS
  Source,      \* the distinct tables the query reads
  MaxChunks    \* bound: chunks one source may deliver

Chunk == [rows : BOOLEAN, warns : BOOLEAN]
Position == 1..MaxChunks

VARIABLES
  delivered,  \* the chunks each source has delivered
  complete,   \* the sources that have delivered everything they have
  outcome,    \* "pending", "answered" or "failed"
  answer,     \* what an answered run was computed from
  files,      \* the run's database exists
  returned    \* the caller has its answer or its error

vars == <<delivered, complete, outcome, answer, files, returned>>

\* What was delivered, as a count per source and position.
CountRows ==
  [s \in Source |-> [i \in Position |->
     IF i <= Len(delivered[s]) /\ delivered[s][i].rows THEN 1 ELSE 0]]

CountWarnings ==
  [s \in Source |-> [i \in Position |->
     IF i <= Len(delivered[s]) /\ delivered[s][i].warns THEN 1 ELSE 0]]

Nothing == [s \in Source |-> [i \in Position |-> 0]]

Init ==
  /\ delivered = [s \in Source |-> <<>>]
  /\ complete = {}
  /\ outcome = "pending"
  /\ answer = [ok |-> FALSE, loaded |-> Nothing, warned |-> Nothing]
  /\ files = FALSE
  /\ returned = FALSE

Open ==
  /\ outcome = "pending" /\ ~files
  /\ files' = TRUE
  /\ UNCHANGED <<delivered, complete, outcome, answer, returned>>

Deliver(s) ==
  /\ outcome = "pending" /\ files
  /\ s \notin complete
  /\ \E c \in Chunk : delivered' = [delivered EXCEPT ![s] = Append(@, c)]
  /\ UNCHANGED <<complete, outcome, answer, files, returned>>

Complete(s) ==
  /\ outcome = "pending" /\ files
  /\ complete' = complete \cup {s}
  /\ UNCHANGED <<delivered, outcome, answer, files, returned>>

Answer ==
  /\ outcome = "pending" /\ files
  /\ complete = Source
  /\ outcome' = "answered"
  /\ answer' = [ok |-> TRUE, loaded |-> CountRows, warned |-> CountWarnings]
  /\ UNCHANGED <<delivered, complete, files, returned>>

\* A run that made no database returns at once.
GiveUp ==
  /\ outcome = "pending"
  /\ outcome' = "failed"
  /\ returned' = ~files
  /\ UNCHANGED <<delivered, complete, answer, files>>

Return ==
  /\ outcome # "pending" /\ files
  /\ files' = FALSE
  /\ returned' = TRUE
  /\ UNCHANGED <<delivered, complete, outcome, answer>>

Next ==
  \/ Open \/ Answer \/ GiveUp \/ Return
  \/ \E s \in Source : Deliver(s) \/ Complete(s)

Spec == Init /\ [][Next]_vars
=============================================================================
