------------------------------- MODULE MCScans -------------------------------
(* Small requests, and tables of up to five rows, for the tables that the     *)
(* connectors scan.                                                           *)
EXTENDS Scans, TLC

F(column, op, values) == [column |-> column, op |-> op, values |-> values]
Is(column, v) == F(column, "=", <<Text(v)>>)
Cmp(column, op, v) == F(column, op, <<Text(v)>>)
Up(column) == [column |-> column, desc |-> FALSE]
Down(column) == [column |-> column, desc |-> TRUE]
NoLimit == <<Null, Null>>
AnyLimit == {NoLimit, <<0, Null>>, <<1, Null>>, <<2, 1>>}

\* The same requests with a LIMIT whose sum with the OFFSET is no int.
Overflowing(requests) == {[r EXCEPT !.limit = MaxInt, !.offset = 1] : r \in requests}

\* Requests for a table: what must be there before one of `filters`, under one of
\* `orders`.
Asks(table, must, filters, orders) ==
  {[schema |-> table[1], table |-> table[2], filters |-> must \o fs, order |-> o, limit |-> l[1], offset |-> l[2]] :
     fs \in filters, o \in orders, l \in AnyLimit}

\* Rows 1 to 5 of a table, column by column.
Ids == <<1, 2, 3, 4, 5>>
Same == <<1, 1, 1, 1, 1>>
Two == <<1, 0, 1, 0, 1>>
Times == <<2, 3, 1, 4, 4>>
Some == <<1, Null, 2, 0, Null>>
AllRows == <<TRUE, TRUE, TRUE, TRUE, TRUE>>
Few == <<TRUE, FALSE, FALSE, TRUE, TRUE>>
Rare == <<FALSE, FALSE, FALSE, FALSE, TRUE>>
RowsOf(is_row, columns) ==
  {[c \in {"id", "is_row"} \cup DOMAIN columns |->
      IF c = "id" THEN id ELSE IF c = "is_row" THEN is_row[id] ELSE columns[c][id]] : id \in 1..5}

(***************************************************************************)
(* Rows and requests.                                                       *)
(***************************************************************************)
Repo == <<Is("owner", 1), Is("repo", 1)>>
IssueColumns == [owner |-> Same, repo |-> Same, state |-> Two, created_at |-> Times, title |-> Some]
GitHubRows ==
  <<"github", "issues">> :> RowsOf(Few, IssueColumns)
  @@ <<"github", "repos">> :> RowsOf(AllRows, [owner |-> Same, name |-> Ids, pushed_at |-> Times])
  @@ <<"github", "commits">> :> RowsOf(AllRows, [owner |-> Same, repo |-> Same, sha |-> Ids, path |-> Two])
  @@ <<"github", "artifacts">> :> RowsOf(AllRows, [owner |-> Same, repo |-> Same, workflow_run_id |-> Two])
  @@ <<"github", "pulls">> :> RowsOf(AllRows, [owner |-> Same, repo |-> Same, state |-> Two, updated_at |-> Times])
  @@ <<"github", "releases">> :> RowsOf(AllRows, [owner |-> Same, repo |-> Same, tag_name |-> Ids])
  @@ <<"github", "workflow_runs">> :> RowsOf(AllRows, [owner |-> Same, repo |-> Same, event |-> Two])
GitHubRequests ==
  Asks(<<"github", "issues">>, Repo,
       {<<>>, <<Is("state", 1)>>, <<Cmp("state", "<>", 1)>>, <<Is("title", 1)>>},
       {<<>>, <<Up("created_at")>>, <<Down("created_at")>>, <<Up("state")>>, <<Up("created_at"), Up("state")>>})
  \cup Asks(<<"github", "repos">>, <<Is("owner", 1)>>, {<<>>, <<Is("name", 2)>>, <<Is("name", 1)>>}, {<<>>, <<Up("pushed_at")>>})
  \cup Asks(<<"github", "commits">>, Repo, {<<Is("sha", 2)>>, <<Is("path", 1)>>}, {<<>>, <<Up("sha")>>})
  \cup Asks(<<"github", "artifacts">>, Repo, {<<F("workflow_run_id", "=", <<Number(1)>>)>>}, {<<>>})
  \cup Asks(<<"github", "pulls">>, Repo, {<<Is("state", 1)>>}, {<<>>, <<Down("updated_at")>>})
  \cup Asks(<<"github", "releases">>, Repo, {<<>>, <<Is("tag_name", 2)>>}, {<<>>})
  \cup Asks(<<"github", "workflow_runs">>, Repo, {<<Is("event", 1)>>, <<Cmp("event", ">", 0)>>}, {<<>>})

SlackRows ==
  <<"slack", "channels">> :> RowsOf(AllRows, [is_archived |-> Two, name |-> Ids])
  @@ <<"slack", "users">> :> RowsOf(AllRows, [name |-> Ids])
  @@ <<"slack", "messages">> :> RowsOf(AllRows, [channel |-> Same, ts |-> <<1, 3, 5, 2, 4>>, user |-> Two])
  @@ <<"slack", "search">> :> RowsOf(AllRows, [query |-> Same, ts |-> Times])
SlackRequests ==
  Asks(<<"slack", "channels">>, <<>>, {<<>>, <<F("is_archived", "=", <<Number(0)>>)>>}, {<<>>, <<Up("name")>>})
  \cup Asks(<<"slack", "users">>, <<>>, {<<>>}, {<<>>})
  \cup Asks(<<"slack", "messages">>, <<Is("channel", 1)>>,
            {<<>>, <<Cmp("ts", ">", 1)>>, <<Cmp("ts", ">=", 2), Cmp("ts", "<", 5)>>,
             <<F("ts", "between", <<Number(2), Text(4)>>)>>, <<F("ts", ">", <<Number(2)>>)>>, <<Is("user", 1)>>},
            {<<>>, <<Down("ts")>>, <<Up("ts")>>})
  \cup Asks(<<"slack", "search">>, <<Is("query", 1)>>, {<<>>, <<Cmp("ts", ">", 1)>>}, {<<>>, <<Up("ts")>>})

NewRelicRows ==
  <<"newrelic", "accounts">> :> RowsOf(AllRows, [name |-> Ids])
  @@ <<"newrelic", "entities">> :> RowsOf(AllRows, [name |-> Two, type |-> Same])
  @@ <<"newrelic", "alert_policies">> :> RowsOf(AllRows, [name |-> Ids])
  @@ <<"newrelic", "alert_conditions">> :> RowsOf(AllRows, [policy_id |-> Two])
  @@ <<"newrelic", "Transaction">> :> RowsOf(AllRows, [timestamp |-> <<1, 3, 6, 5, 2>>, error |-> Two, n |-> Some])
NewRelicRequests ==
  Asks(<<"newrelic", "accounts">>, <<>>, {<<>>}, {<<>>})
  \cup Asks(<<"newrelic", "entities">>, <<>>, {<<Is("name", 1), Is("type", 1)>>}, {<<>>})
  \cup Asks(<<"newrelic", "alert_policies">>, <<>>, {<<>>}, {<<>>, <<Up("name")>>})
  \cup Asks(<<"newrelic", "alert_conditions">>, <<>>,
            {<<Is("policy_id", 1)>>, <<F("policy_id", "=", <<Number(1)>>)>>}, {<<>>})
  \cup Asks(<<"newrelic", "Transaction">>, <<>>,
            {<<>>, <<F("timestamp", ">=", <<Number(2)>>)>>, <<F("timestamp", "<", <<Number(4)>>)>>,
             <<F("timestamp", "between", <<Number(1), Number(5)>>), F("n", "<>", <<Number(1)>>)>>,
             <<F("timestamp", "in", <<Number(3), Number(5)>>)>>, <<F("timestamp", ">", <<Number(0)>>), Cmp("n", ">", 0)>>,
             <<F("timestamp", ">", <<Number(0)>>), F("error", "=", <<Number(1)>>)>>,
             <<F("timestamp", ">", <<Number(0)>>), Is("error", 1)>>},
            {<<>>, <<Up("timestamp")>>, <<Up("n")>>})

CkanRows ==
  <<"datagov", "datasets">> :>
    RowsOf(AllRows, [name |-> Ids, state |-> Two, tags |-> <<1, 3, 2, 3, 1>>, metadata_modified |-> Times, q |-> Two])
  @@ <<"datagov", "resources">> :> RowsOf(Few, [name |-> Ids, q |-> Two])
  @@ <<"datagov", "groups">> :> RowsOf(AllRows, [name |-> Ids])
CkanRequests ==
  Asks(<<"datagov", "datasets">>, <<>>,
       {<<>>, <<Is("state", 1), Is("q", 1)>>, <<F("state", "in", <<Text(0), Text(1)>>)>>, <<Is("tags", 1)>>,
        <<F("tags", "in", <<Text(1), Text(2)>>)>>, <<Cmp("metadata_modified", ">", 1), Cmp("metadata_modified", "<", 4)>>,
        <<Cmp("q", "<>", 1)>>, <<F("name", "notin", <<Text(1)>>)>>},
       {<<>>, <<Up("metadata_modified")>>, <<Down("metadata_modified"), Up("name")>>})
  \cup Asks(<<"datagov", "resources">>, <<>>, {<<>>, <<Is("q", 1)>>, <<Is("name", 1)>>}, {<<>>})
  \cup Asks(<<"datagov", "groups">>, <<>>, {<<Is("name", 1)>>}, {<<Up("name")>>})

JiraRows ==
  <<"jira", "issues">> :>
    RowsOf(AllRows, [key |-> Ids, status |-> <<1, 2, 1, 2, 1>>, created |-> <<1, 3, 6, 5, 2>>])
  @@ <<"jira", "projects">> :> RowsOf(AllRows, [key |-> Ids, name |-> Times])
  @@ <<"jira", "comments">> :> RowsOf(AllRows, [issue_key |-> <<1, 1, 1, 2, 2>>, created |-> Times])
JiraRequests ==
  Asks(<<"jira", "issues">>, <<>>,
       {<<>>, <<F("key", "in", <<Text(4), Text(3), Text(5)>>)>>, <<Cmp("created", ">", 2)>>, <<Cmp("created", "<", 5)>>,
        <<F("created", "between", <<Text(2), Text(5)>>)>>, <<Cmp("key", ">=", 3), Cmp("key", "<=", 5)>>,
        <<F("status", "notin", <<Text(1)>>)>>},
       {<<>>, <<Up("created")>>, <<Up("status")>>})
  \cup {[r EXCEPT !.limit = Null, !.offset = Null] :
          r \in Asks(<<"jira", "issues">>, <<>>, {<<Is("status", 1)>>}, {<<>>})}
  \cup Asks(<<"jira", "projects">>, <<>>,
            {<<>>, <<F("key", "in", <<Text(2), Text(1), Text(3)>>)>>, <<F("key", "in", <<Text(2), Text(3)>>), Is("name", 3)>>},
            {<<>>, <<Up("name")>>, <<Down("key")>>, <<Up("name"), Up("key")>>})
  \cup Asks(<<"jira", "comments">>, <<>>, {<<F("issue_key", "in", <<Text(2), Text(1)>>)>>, <<Is("issue_key", 1)>>,
                                           <<Is("issue_key", 1), Cmp("created", ">", 2)>>, <<>>},
            {<<>>, <<Up("created")>>, <<Up("issue_key")>>})

PostgresRows == <<"postgres", "t">> :> RowsOf(AllRows, [n |-> Some, s |-> Two])
PostgresRequests ==
  Asks(<<"postgres", "t">>, <<>>,
       {<<>>, <<F("n", "<>", <<Number(1)>>)>>, <<Cmp("s", "like", 1)>>,
        <<F("n", "notbetween", <<Number(1), Number(1)>>), Cmp("s", "<", 1)>>},
       {<<>>, <<Down("n")>>, <<Up("n")>>, <<Up("n"), Up("s")>>})

GitRows ==
  <<"git", "commits">> :> RowsOf(AllRows, [ref |-> Same, sha |-> Ids, author_name |-> Two])
  @@ <<"git", "tags">> :> RowsOf(AllRows, [name |-> Ids])
GitRequests ==
  Asks(<<"git", "commits">>, <<>>,
       {<<>>, <<Is("ref", 1)>>, <<Is("ref", 1), Is("sha", 2)>>, <<Is("author_name", 1)>>, <<Cmp("sha", "<>", 1)>>},
       {<<>>, <<Up("author_name")>>})
  \cup Asks(<<"git", "tags">>, <<>>, {<<Is("name", 1)>>}, {<<>>})

JaegerRows ==
  <<"jaeger", "spans">> :>
    RowsOf(AllRows, [trace_id |-> Ids, service_name |-> <<1, 1, 1, 1, 2>>, start_time |-> <<6, 3, 1, 5, 3>>, duration_ms |-> Times])
  @@ <<"jaeger", "services">> :> RowsOf(AllRows, [name |-> Ids])
  @@ <<"jaeger", "operations">> :> RowsOf(AllRows, [service_name |-> Same, span_kind |-> Two])
JaegerRequests ==
  Asks(<<"jaeger", "spans">>, <<Is("service_name", 1)>>,
       {<<>>, <<Cmp("start_time", ">", 2)>>, <<Cmp("start_time", "<", 4)>>, <<F("start_time", "between", <<Text(1), Text(5)>>)>>,
        <<Is("start_time", 3)>>, <<Cmp("start_time", ">=", 1), F("duration_ms", ">", <<Number(1)>>)>>,
        <<Cmp("start_time", ">=", 1), F("duration_ms", "between", <<Number(1), Number(3)>>)>>},
       {<<>>, <<Up("start_time")>>})
  \cup Asks(<<"jaeger", "spans">>, <<>>, {<<Is("trace_id", 2)>>}, {<<>>})
  \cup Asks(<<"jaeger", "services">>, <<>>, {<<Is("name", 1)>>}, {<<>>})
  \cup Asks(<<"jaeger", "operations">>, <<Is("service_name", 1)>>, {<<>>, <<Is("span_kind", 1)>>}, {<<>>})

DockerRows == <<"docker", "images">> :> RowsOf(AllRows, [state |-> Two])
DockerRequests == Asks(<<"docker", "images">>, <<>>, {<<Is("state", 1)>>}, {<<Up("state")>>})

Tables ==
  GitHubRows @@ SlackRows @@ NewRelicRows @@ CkanRows @@ JiraRows @@ PostgresRows @@ GitRows @@ JaegerRows @@ DockerRows
MCRequests ==
  GitHubRequests \cup SlackRequests \cup NewRelicRequests \cup CkanRequests \cup JiraRequests
  \cup PostgresRequests \cup GitRequests \cup JaegerRequests \cup DockerRequests
  \cup Overflowing(PostgresRequests \cup GitRequests \cup {r \in NewRelicRequests : r.table = "Transaction"})

\* WHERE status = 1 LIMIT n
MCCaseBlind == Asks(<<"jira", "issues">>, <<>>, {<<Is("status", 1)>>}, {<<>>})

\* Four rows or a full page; and issues that are nearly all pull requests.
MCContents ==
  [t \in DOMAIN Tables |->
     {{row \in Tables[t] : row.id \in ids} : ids \in {2..5, {2, 4}}}
     \cup (IF t = <<"github", "issues">> THEN {RowsOf(Rare, IssueColumns)} ELSE {})]
MCArrivals == [t \in DOMAIN Tables |-> {row \in Tables[t] : row.id = 1}]

\* CKAN: list 3 holds tags 1 and 2.  JQL: 1 and 2 are the same word.
MCHolders == <<{1, 3}, {2, 3}, {}>>
MCSpellings == 0 :> {0} @@ 1 :> {1, 2} @@ 2 :> {1, 2} @@ 3 :> {3} @@ 4 :> {4} @@ 5 :> {5}
==============================================================================
