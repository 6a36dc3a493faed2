----------------------------- MODULE MCQueryRun -----------------------------
(***************************************************************************)
(* Instances of QueryRun for TLC.                                          *)
(***************************************************************************)
EXTENDS QueryRun

\* Two tables of one schema and one of another.
TwoSchemas == {"github", "slack"}
SharedSchema == [s \in Source |-> IF s < 3 THEN "github" ELSE "slack"]
=============================================================================
