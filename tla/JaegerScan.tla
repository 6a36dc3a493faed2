------------------------------ MODULE JaegerScan -----------------------------
(***************************************************************************)
(* The tables of the Jaeger connector (source/jaeger).  Spans come with     *)
(* their traces, from a window of time unless the trace is named; LIMIT,    *)
(* which counts spans, is never sent.  A trace has one span here.           *)
(***************************************************************************)
EXTENDS ConnectorScan

CONSTANT WarnTraces  \* so many traces look cut where max_traces is not set (1000)

Here == req.schema = "jaeger"
On(table) == Here /\ req.table = table

\* timeBounds; a literal that is no time does not count.
Since == {Shift(From(f), -Slack) : f \in LastOn("start_time", Ups, "string")}
Until == {Shift(To(f), Slack) : f \in LastOn("start_time", Downs, "string")}

At(op, value) == [column |-> "start_time", op |-> op, values |-> <<value>>]

\* Mutant: the default window ends now, whatever the upper bound.
LatestOnly == IF Since # {} THEN Since ELSE {Text(Now - Window)}
Earliest == IF Since # {} THEN Since
            ELSE IF Until # {} THEN {Shift(u, -Window) : u \in Until} ELSE {Text(Now - Window)}
Latest == IF Until # {} THEN Until ELSE {Text(Now)}

Duration ==
  {Bound(f, ">=", From(f)) : f \in LastOn("duration_ms", Ups, "int64")}
  \cup {Bound(f, "<=", To(f)) : f \in LastOn("duration_ms", Downs, "int64")}

\* hasStartTimeLowerBound
LowerBound == \E f \in Filters : f.column = "start_time" /\ f.op \in Ups

\* What is no lookup of a trace is a search.
Searches == On("spans") /\ EqOf("trace_id", "string") = {}

GetTrace ==
  /\ pc = "start" /\ On("spans") /\ EqOf("trace_id", "string") # {}
  /\ Ask(EqOf("trace_id", "string"), <<>>, Everything, Null, TRUE)

\* search_depth is sent if max_traces is set, which by default it is not.
SearchTraces ==
  /\ pc = "start" /\ Searches /\ EqOf("service_name", "string") # {}
  /\ \E maxTraces \in {0, MaxRows} :
       Ask(EqOf("service_name", "string") \cup EqOf("operation_name", "string") \cup Duration
             \cup {At(">=", v) : v \in Earliest} \cup {At("<=", v) : v \in Latest},
           <<>>, maxTraces, Null, TRUE)

ScanServices ==
  /\ pc = "start" /\ On("services")
  /\ Ask({}, <<>>, Everything, Null, TRUE)

ScanOperations ==
  /\ pc = "start" /\ On("operations") /\ EqOf("service_name", "string") # {}
  /\ Ask(EqOf("service_name", "string") \cup EqOf("span_kind", "string"), <<>>, Everything, Null, TRUE)

\* Without search_depth the service cuts the list where it likes.
Sends == IF asked.size = 0 THEN (1..Len(listing)) \cup {Everything} ELSE {asked.size}

\* Mutant: so many traces are one too few to warn.
WarnBeyond(count) == count > (IF asked.size = 0 THEN WarnTraces ELSE asked.size)
\* warnAt
LooksCut(count) == count >= (IF asked.size = 0 THEN WarnTraces ELSE asked.size)

\* Only a search may have been cut, by its window or by a cap on traces.
Decode ==
  /\ pc = "paging" /\ Here
  /\ \E size \in Sends :
       AnswerOf(size, PageOf(size), Searches /\ (~LowerBound \/ LooksCut(Cardinality(PageOf(size)))))

Next == GetTrace \/ SearchTraces \/ ScanServices \/ ScanOperations \/ Decode
==============================================================================
