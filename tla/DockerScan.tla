----------------------------- MODULE DockerScan ------------------------------
(***************************************************************************)
(* The tables of the Docker connector (source/docker): whole lists.         *)
(***************************************************************************)
EXTENDS ConnectorScan

Here == req.schema = "docker"

Start ==
  /\ pc = "start" /\ Here
  /\ Ask({}, <<>>, Everything, Null, TRUE)

Listed ==
  /\ pc = "paging" /\ Here
  /\ Answer(PageOf(asked.size), FALSE)

Next == Start \/ Listed
==============================================================================
