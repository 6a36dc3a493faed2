---------------------------- MODULE MCCredential ----------------------------
(***************************************************************************)
(* Instances of Credential for TLC.                                        *)
(***************************************************************************)
EXTENDS Credential

\* Each goroutine scans for a run of its own, as in a process that embeds the
\* engine.
OwnRuns == CHOOSE f \in [Goroutine -> Run] : \A g, h \in Goroutine : f[g] = f[h] => g = h
=============================================================================
