------------------------------- MODULE GitScan -------------------------------
(***************************************************************************)
(* The tables of the git connector (source/git): the output of one command. *)
(* Commits are those of one ref; the others are listed whole.               *)
(***************************************************************************)
EXTENDS ConnectorScan

Here == req.schema = "git"

\* planLog: the revision to walk, or the commit to look up.
Revisions == {f \in Filters : f.column \in {"ref", "sha"}}
Refused == \E f \in Revisions : f.op # "=" \/ ~Typed(f, "string")
Revision == LastOn("ref", {"="}, "string") \cup LastOn("sha", {"="}, "string")

\* Mutant: the LIMIT counts commits in the order of the log.
PushesUnordered == req.limit # Null /\ Filters = Revisions /\ WrappedStop < MaxRows
Pushes == req.limit # Null /\ Filters = Revisions /\ req.order = <<>> /\ WrappedStop < MaxRows

\* git log -n with a negative number is git log without -n.
ScanCommits ==
  /\ pc = "start" /\ Here /\ req.table = "commits" /\ ~Refused
  /\ Ask(Revision, <<>>, IF ~Pushes THEN MaxRows ELSE IF WrappedStop < 0 THEN Everything ELSE WrappedStop,
         IF Pushes THEN WrappedStop ELSE Null, TRUE)

ScanWhole ==
  /\ pc = "start" /\ Here /\ req.table # "commits"
  /\ Ask({}, <<>>, MaxRows, Null, TRUE)

\* The row behind the cap, if there is one, tells that rows were left behind.
Output ==
  /\ pc = "paging" /\ Here
  /\ Answer(PageOf(asked.size), ~Limits /\ HasMore(asked.size))

Next == ScanCommits \/ ScanWhole \/ Output
==============================================================================
