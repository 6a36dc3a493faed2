------------------------------ MODULE JiraScan -------------------------------
(***************************************************************************)
(* The tables of the Jira connector (source/jira).  Issues are searched with *)
(* JQL, behind a token; projects are a list in pages at a position; comments  *)
(* one such list for every issue key asked for.                              *)
(***************************************************************************)
EXTENDS ConnectorScan

CONSTANT Spellings  \* for a text: all that JQL does not tell from it

Here == req.schema = "jira"
On(table) == Here /\ req.table = table

\* An equality in JQL, which is blind to case.
Blind(f) ==
  [f EXCEPT !.op = "in", !.values = [v \in UNION {Spellings[f.values[i].v] : i \in DOMAIN f.values} |-> Text(v)]]

\* translateEq, translateKeyish
Exact(f) ==
  /\ Typed(f, "string")
  /\ \/ f.op = "=" /\ f.column \in {"issue_type", "status", "priority", "resolution",
                                    "assignee_account_id", "reporter_account_id"}
     \/ f.op \in {"=", "in"} /\ f.column \in {"key", "project_key"}

\* translateRange
Ranged(f) == f.column \in {"created", "updated"} /\ f.op \in Ups \cup Downs /\ Typed(f, "string")

\* Mutant: both ends of a range move up.
Shifted(f) ==
  (IF f.op \in Ups THEN {Bound(f, ">=", Shift(From(f), Slack))} ELSE {})
  \cup (IF f.op \in Downs THEN {Bound(f, "<=", Shift(To(f), Slack))} ELSE {})
Widened(f) ==
  (IF f.op \in Ups THEN {Bound(f, ">=", Shift(From(f), -Slack))} ELSE {})
  \cup (IF f.op \in Downs THEN {Bound(f, "<=", Shift(To(f), Slack))} ELSE {})

Clauses == {Blind(f) : f \in {g \in Filters : Exact(g)}} \cup UNION {Widened(f) : f \in {g \in Filters : Ranged(g)}}

\* Without a clause only recent issues are searched, with a warning.
Defaulted == Clauses = {}
Recent == [column |-> "created", op |-> ">=", values |-> <<Text(Now - Window)>>]

OrderOK == \A i \in DOMAIN req.order : req.order[i].column \in {"created", "updated", "due_date"}
ConsumedAll == \A f \in Filters : Exact(f)

Size(pushes) == IF pushes THEN LimitedSize ELSE PageSize
Stop(pushes) == IF pushes THEN WrappedStop ELSE Null

ScanIssues ==
  /\ pc = "start" /\ On("issues")
  /\ LET pushes == req.limit # Null /\ ConsumedAll /\ OrderOK /\ ~Defaulted
     IN List(Asked(IF Defaulted THEN {Recent} ELSE Clauses, IF OrderOK THEN req.order ELSE <<>>,
                   Size(pushes), Stop(pushes), TRUE))
  /\ warned' = Defaulted
  /\ UNCHANGED <<place, sent, emitted>>

\* stringEqOrIn: the strings that the first filter on a column asks for.
Asking(column) == {f \in FilterOn(column) : f.op = "in" \/ (f.op = "=" /\ Typed(f, "string"))}
Strings(f) == {j \in DOMAIN f.values : f.values[j].type = "string"}
Keys(column) == UNION {{f.values[i].v : i \in Strings(f)} : f \in Asking(column)}
In(column, keys) == [column |-> column, op |-> "in", values |-> [k \in keys |-> Text(k)]]

OneTermOn(columns) == Len(req.order) = 1 /\ req.order[1].column \in columns

ProjectsLimitSafe ==
  /\ req.order # <<>> => OneTermOn({"key", "name"})
  /\ Len(req.filters) <= 1
  /\ \A f \in Filters : f.column = "key" /\ f.op \in {"=", "in"}

ScanProjects ==
  /\ pc = "start" /\ On("projects")
  /\ LET pushes == req.limit # Null /\ ProjectsLimitSafe
     IN Ask(IF Keys("key") = {} THEN {} ELSE {In("key", Keys("key"))},
            IF OneTermOn({"key", "name"}) THEN req.order ELSE <<>>, Size(pushes), Stop(pushes), FALSE)

\* issueKeys, in the order of the filter
Nth(places, k) == CHOOSE j \in places : Cardinality({i \in places : i < j}) = k - 1
IssueKeys ==
  IF Asking("issue_key") = {} THEN <<>>
  ELSE LET f == CHOOSE g \in Asking("issue_key") : TRUE
       IN [k \in 1..Cardinality(Strings(f)) |-> f.values[Nth(Strings(f), k)].v]

\* Mutant: a LIMIT rides on the comments of several issues.
AnyKeysLimitSafe ==
  /\ req.order # <<>> => OneTermOn({"created"})
  /\ \A f \in Filters : f.column = "issue_key"
CommentsLimitSafe ==
  /\ Len(IssueKeys) = 1
  /\ req.order # <<>> => OneTermOn({"created"})
  /\ \A f \in Filters : f.column = "issue_key"

ScanComments ==
  /\ pc = "start" /\ On("comments") /\ IssueKeys # <<>>
  /\ LET pushes == req.limit # Null /\ CommentsLimitSafe
     IN List([Asked({In("issue_key", {Head(IssueKeys)})}, IF OneTermOn({"created"}) THEN req.order ELSE <<>>,
                    Size(pushes), Stop(pushes), FALSE) EXCEPT !.rest = Tail(IssueKeys)])
  /\ UNCHANGED <<place, result>>

\* How many rows Jira sends, whatever it was asked for: a page may be short, or empty,
\* while a token, isLast or total announce more.
Sends == {size \in 0..asked.size : size = asked.size \/ HasMore(size)}

\* Mutant: a page that is not full is the last.
FullOnward(size) == size = asked.size /\ HasMore(size)
\* Mutant: an empty page is no reason to stop.
AnyOnward(size) == HasMore(size)
\* hasNext: a page without rows is the last, whatever is announced.
Onward(size) == size > 0 /\ HasMore(size)

Ended(size) == ~Onward(size) \/ Satisfied(sent') \/ Capped
LastKey == asked.rest = <<>> \/ Satisfied(sent')

\* One turn of a loop over pages.
Page ==
  /\ pc = "paging" /\ Here
  /\ \E size \in Sends :
       /\ Advance(size, Appended(PageOf(size)), Onward(size), Capped)
       /\ Ended(size) => LastKey
       /\ idle' = idle + (IF size = 0 THEN 1 ELSE 0)

\* The last page of the comments of an issue, and on to the next issue.
NextKey ==
  /\ pc = "paging" /\ On("comments")
  /\ \E size \in Sends :
       /\ Emit(Appended(PageOf(size)))
       /\ Ended(size) /\ ~LastKey
       /\ warned' = (warned \/ (Onward(size) /\ Capped))
       /\ idle' = idle + (IF size = 0 THEN 1 ELSE 0)
  /\ List([asked EXCEPT !.filters = {In("issue_key", {Head(asked.rest)})}, !.rest = Tail(@)])
  /\ next' = 0 /\ pages' = 0

Next == ScanIssues \/ ScanProjects \/ ScanComments \/ Page \/ NextKey
==============================================================================
