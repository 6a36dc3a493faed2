------------------------------ MODULE OnceCell ------------------------------
(***************************************************************************)
(* What a Credential promises the goroutines that share it, with no mutex   *)
(* and no resolution in it: a cell that is written once, by whoever comes   *)
(* first, and read by everybody after.  Get is one step; a Get that fails   *)
(* is no step at all.                                                       *)
(***************************************************************************)
CONSTANTS
  Goroutine,  \* the connector scans that share the credential
  Value,      \* what a credential can resolve to
  Unset

VARIABLES
  cell,  \* the cached value
  seen,  \* what each Scan's own Get returned
  used   \* what the requests of each Scan were sent with

vars == <<cell, seen, used>>

Init ==
  /\ cell = Unset
  /\ seen = [g \in Goroutine |-> Unset]
  /\ used = [g \in Goroutine |-> {}]

\* A Get returns v: to Scan the first time, to one of its requests after that.
Obtain(g, v) ==
  IF seen[g] = Unset
  THEN seen' = [seen EXCEPT ![g] = v] /\ UNCHANGED used
  ELSE used' = [used EXCEPT ![g] = @ \cup {v}] /\ UNCHANGED seen

Fill(g, v) ==
  /\ cell = Unset
  /\ cell' = v
  /\ Obtain(g, v)

Read(g) ==
  /\ cell # Unset
  /\ UNCHANGED cell
  /\ Obtain(g, cell)

Next == \E g \in Goroutine : Read(g) \/ \E v \in Value : Fill(g, v)

Spec == Init /\ [][Next]_vars
=============================================================================
