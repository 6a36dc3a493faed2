\* Two goroutines, each of a run of its own, in a process that embeds the
\* engine and changes its environment.
CONSTANTS
  Goroutine = {g1, g2}
  Run = {r1, r2}
  RunOf <- OwnRuns
  Secret = {"s1", "s2"}
  StaticKey = "static"
  Environ = {"e1", "e2"}
  Empty = ""
  Unset = "unset"
SPECIFICATION Spec
INVARIANTS IInv AskedOnce RequestsMatchScan NeverSilentlyAnonymous
PROPERTIES ImplementsCell EverybodyServed CancelledGetReturns
