-------------------------------- MODULE Scans --------------------------------
(***************************************************************************)
(* The scans of all connectors, against services whose rows come and go     *)
(* while they are read.                                                     *)
(***************************************************************************)
EXTENDS ConnectorScan

CONSTANTS
  Requests,  \* the requests considered
  Contents,  \* what a service may hold, by schema and table
  Arrivals,  \* rows that may appear while a table is read
  HardCap, BoolColumns, Holders, Spellings, OrderSafe, WarnTraces  \* of single connectors

ASSUME WarnAssumption == WarnTraces \in Nat \ {0}

ASSUME RequestAssumption ==
  \A r \in Requests :
    /\ r.limit \in Nat \cup {Null} /\ r.offset \in Nat \cup {Null}
    /\ \A rows \in Contents[<<r.schema, r.table>>] :
         IsFiniteSet(rows) /\ rows \cap Arrivals[<<r.schema, r.table>>] = {}

\* A request is made of lists; a filter compares a column with numbers, as many as its
\* operator takes.
ASSUME FilterAssumption ==
  \A r \in Requests :
    /\ r.filters \in Seq({r.filters[i] : i \in DOMAIN r.filters})
    /\ r.order \in Seq({r.order[i] : i \in DOMAIN r.order})
    /\ \A i \in DOMAIN r.filters :
         LET f == r.filters[i]
         IN /\ DOMAIN f = {"column", "op", "values"}
            /\ f.values \in Seq({f.values[j] : j \in DOMAIN f.values}) /\ Len(f.values) >= 1
            /\ f.op \in {"between", "notbetween"} => Len(f.values) = 2
            /\ f.op \notin {"between", "notbetween", "in", "notin"} => Len(f.values) = 1
            /\ \A j \in DOMAIN f.values : DOMAIN f.values[j] = {"type", "v"} /\ f.values[j].v \in Int

\* All rows that the service of a request may hold.
Stored(table) == (UNION Contents[table]) \cup Arrivals[table]

\* Their cells are numbers or NULL; the lists of most services have rows only; a list is
\* no longer than an int can count; and no span starts later than now.
ASSUME RowAssumption ==
  \A r \in Requests :
    /\ \A row \in Stored(<<r.schema, r.table>>) :
         /\ \A i \in DOMAIN r.filters : row[r.filters[i].column] \in Int \cup {Null}
         /\ row.is_row \in BOOLEAN
         /\ r.schema \notin {"github", "datagov"} => row.is_row
         /\ r.schema = "jaeger" /\ r.table = "spans" => row.start_time \in Int /\ row.start_time <= Now
    /\ \A rows \in Contents[<<r.schema, r.table>>] : Cardinality(rows) <= MaxInt

VARIABLES
  moves,    \* what happened to the service meanwhile: "appear", "vanish"
  withheld  \* rows the service had listed and never sent, ending the list before them
vars == <<req, held, standing, asked, listing, next, pages, idle, sent, emitted, warned, pc, moves, withheld>>

InGitHub == INSTANCE GitHubScan
InSlack == INSTANCE SlackScan
InNewRelic == INSTANCE NewRelicScan
InCkan == INSTANCE CkanScan
InJira == INSTANCE JiraScan
InPostgres == INSTANCE PostgresScan
InGit == INSTANCE GitScan
InJaeger == INSTANCE JaegerScan
InDocker == INSTANCE DockerScan

\* The engine scans tables that the connector lists.
ASSUME TableAssumption == \A r \in Requests : r.schema = "github" => r.table \in DOMAIN InGitHub!GitHub

Table == <<req.schema, req.table>>

\* Before a request went out.
Nothing == <<>>

Init ==
  /\ req \in Requests
  /\ held \in Contents[Table] /\ standing = held
  /\ asked = Nothing /\ listing = <<>>
  /\ next = 0 /\ pages = 0 /\ idle = 0
  /\ sent = 0 /\ emitted = {} /\ warned = FALSE
  /\ pc = "start" /\ moves = {} /\ withheld = {}

\* Jira's empty page while more is announced, and Jaeger's own limit below the number of
\* traces that looks cut: nothing in the answer that the connector acts on tells it.
Behind(at) == {listing[i] : i \in {j \in DOMAIN listing : at < j}}
Withheld ==
  IF req.schema = "jira" /\ idle' > idle THEN Behind(next)
  ELSE IF req.schema = "jaeger" /\ pc = "paging" /\ asked.size = 0 /\ sent' < WarnTraces THEN Behind(next')
  ELSE {}

Scan ==
  /\ \/ InGitHub!Next \/ InSlack!Next \/ InNewRelic!Next \/ InCkan!Next \/ InJira!Next
     \/ InPostgres!Next \/ InGit!Next \/ InJaeger!Next \/ InDocker!Next
  /\ withheld' = withheld \cup Withheld
  /\ UNCHANGED moves

(***************************************************************************)
(* The service between two pages.  A page at a position does not notice     *)
(* what moved; a page behind the last row read does.                        *)
(***************************************************************************)
Ahead(at) == IF asked.keyset /\ at <= next THEN 1 ELSE 0

Sorted(l) ==
  \A i, j \in DOMAIN l : i < j => ~Before(asked.order, SortKey(asked.order, l[j]), SortKey(asked.order, l[i]))

Appear(row) ==
  /\ pc = "paging" /\ pages > 0 /\ "appear" \notin moves /\ row \notin held
  /\ \E at \in 1..(Len(listing) + 1) :
       /\ IF Passing(asked.filters, {row}) = {} THEN at = 1 /\ UNCHANGED <<listing, next>>
          ELSE /\ listing' = SubSeq(listing, 1, at - 1) \o <<row>> \o SubSeq(listing, at, Len(listing))
               /\ next' = next + Ahead(at)
       /\ Sorted(listing')
  /\ held' = held \cup {row}
  /\ moves' = moves \cup {"appear"}
  /\ UNCHANGED <<req, standing, asked, pages, idle, result, pc, withheld>>

Vanish(at) ==
  /\ pc = "paging" /\ pages > 0 /\ "vanish" \notin moves
  /\ listing' = SubSeq(listing, 1, at - 1) \o SubSeq(listing, at + 1, Len(listing))
  /\ next' = next - Ahead(at)
  /\ held' = held \ {listing[at]}
  /\ standing' = standing \ {listing[at]}
  /\ moves' = moves \cup {"vanish"}
  /\ UNCHANGED <<req, asked, pages, idle, result, pc, withheld>>

Next ==
  \/ Scan
  \/ Fail /\ UNCHANGED <<moves, withheld>>
  \/ \E row \in Arrivals[Table] : Appear(row)
  \/ \E at \in DOMAIN listing : Vanish(at)

Spec == Init /\ [][Next]_vars

(***************************************************************************)
(* Properties.                                                              *)
(***************************************************************************)

\* Where the scan is, and that no row is emitted without being counted.
TypeOK ==
  /\ pc \in {"start", "paging", "done", "failed"}
  /\ pc = "start" => emitted = {} /\ asked = Nothing
  /\ {next, pages, idle, sent} \subseteq Nat
  /\ warned \in BOOLEAN /\ moves \subseteq {"appear", "vanish"}
  /\ standing \subseteq held
  /\ Cardinality(emitted) <= sent

\* All but the comments of several issues, which come list by list.
OfOneList == ~(req.schema = "jira" /\ req.table = "comments")

\* Pages at a position lose their place when rows come and go before it.
Keeps == asked # Nothing => asked.keyset

\* A scan that returns without a warning has served its request for the rows that
\* were there all the time: none that passes the filters is missing, unless enough
\* others that ORDER BY does not put behind it were emitted for the LIMIT, or unless the
\* service withheld it without a word.
Complete ==
  pc = "done" /\ ~warned /\ (Keeps \/ moves = {} \/ (moves = {"appear"} /\ ~Limits))
    => Serves(req, {row \in Passing(Filters, standing \cup emitted) : row.is_row /\ row \notin withheld \ emitted},
              emitted)

\* No row is emitted twice, unless it was pushed onto the next page by a new one.
EachOnce == Keeps \/ "appear" \notin moves => sent = Cardinality(emitted)

\* A scan that no LIMIT stops ends after MaxPages pages; one that a LIMIT stops
\* emits no more rows than that (but for one row under LIMIT 0, and a LIMIT so large
\* that it turned negative, which limits nothing), and gives up after
\* MaxPages pages in a row without one.  (An empty page of comments ends one issue's.)
Bounded ==
  asked # Nothing =>
    /\ asked.stop = Null => pages <= MaxPages
    /\ asked.stop # Null /\ asked.stop >= 0 => sent <= Max({1, asked.stop})
    /\ OfOneList => idle <= MaxPages

\* Without a lower bound in time only a window is searched, with a warning; but it is
\* the window before the upper bound, where rows can be, but for what the bound was
\* moved out.
Spanned == req.schema = "jaeger" /\ req.table = "spans"
Searched == Spanned \/ (req.schema = "newrelic" /\ ~InNewRelic!Curated)
TimeColumn == IF Spanned THEN "start_time" ELSE "timestamp"
Outward == IF Spanned THEN Slack ELSE 1
Bounds(ops) == {f.values[1].v : f \in {g \in Filters : g.column = TimeColumn /\ g.op \in ops}}
HasOnlyEnd == Bounds({"<", "<="}) # {} /\ Bounds({">", ">=", "=", "between"}) = {}
BeforeEnd == {row \in Passing(Filters, held) : row[TimeColumn] >= Max(Bounds({"<", "<="})) + Outward - Window}

WindowBeforeBound ==
  pc = "done" /\ Searched /\ ~Limits /\ Len(listing) <= next /\ HasOnlyEnd => BeforeEnd \subseteq emitted

\* The scans that warn of rows left behind and of nothing else.  (Postgres, New Relic
\* and Jaeger warn when an answer is full, Jira also of its default window.)
WarnOfRest ==
  req.schema \in {"github", "slack", "datagov", "git"} \/ (req.schema = "jira" /\ req.table = "projects")

\* A list that was read to its end is not reported as cut.
WarnedOfMore == pc = "done" /\ warned /\ WarnOfRest => next < Len(listing)

(***************************************************************************)
(* What a scan that reads on keeps to, so that Bounded holds at its end.    *)
(***************************************************************************)

\* Whether all is in one answer.
InOneAnswer ==
  req.schema \in {"postgres", "git", "jaeger", "docker"} \/ (req.schema = "newrelic" /\ ~InNewRelic!Curated)

Counters ==
  /\ {pages, idle, sent} \subseteq Nat
  /\ pc = "start" => asked = Nothing /\ place = <<0, 0, 0>> /\ sent = 0
  /\ req.schema = "github" => idle <= pages

\* There is room for another page, and for another row.
RoomLeft ==
  pc = "paging" =>
    /\ asked = [Asked(asked.filters, asked.order, asked.size, asked.stop, asked.keyset) EXCEPT !.rest = asked.rest]
    /\ asked.stop \in Int \cup {Null}
    /\ asked.stop = Null => pages < MaxPages
    /\ asked.stop # Null => sent < asked.stop \/ sent = 0
    /\ OfOneList => idle <= MaxPages
    /\ req.schema = "github" => idle < MaxPages
    /\ req.schema = "jira" /\ OfOneList => idle = 0
    /\ req.schema = "jaeger" => asked.stop = Null
    /\ InOneAnswer => /\ place = <<0, 0, 0>> /\ sent = 0
                      /\ asked.stop # Null /\ asked.stop >= 0 => asked.size = asked.stop

BoundInv ==
  /\ req \in Requests /\ IsFiniteSet(held)
  /\ listing \in Seq({listing[i] : i \in DOMAIN listing})
  /\ Counters /\ RoomLeft /\ Bounded

(***************************************************************************)
(* What a scan that reads on keeps to, so that WarnedOfMore holds at its    *)
(* end.                                                                     *)
(***************************************************************************)
RestInv ==
  /\ req \in Requests
  /\ pc \in {"start", "paging"} /\ WarnOfRest => ~warned
  /\ pc = "paging" /\ req.schema = "slack" => asked.size # 0
  /\ WarnedOfMore

(***************************************************************************)
(* What a scan that reads on keeps to, so that TypeOK and EachOnce hold.    *)
(***************************************************************************)

ListedOnce == \A i, j \in DOMAIN listing : listing[i] = listing[j] => i = j

\* No row was emitted that is still to be read.
Fresh == \A i \in DOMAIN listing : i > next => listing[i] \notin emitted

RowsInv ==
  /\ TypeOK
  /\ req \in Requests /\ IsFiniteSet(held) /\ IsFiniteSet(emitted)
  /\ listing \in Seq(held) /\ ListedOnce
  /\ pc = "start" => place = <<0, 0, 0>> /\ sent = 0 /\ moves = {} /\ listing = <<>>
  /\ pc = "paging" => "size" \in DOMAIN asked /\ asked.size \in Nat
  /\ "appear" \notin moves => (held \cup emitted) \cap Arrivals[Table] = {}
  /\ OfOneList /\ (Keeps \/ "appear" \notin moves) =>
       sent = Cardinality(emitted) /\ (pc = "paging" => Fresh)

(***************************************************************************)
(* The requests for which Complete is proved, and what a scan that reads on *)
(* keeps to, so that it holds at its end.                                    *)
(***************************************************************************)

\* Columns that are compared with numbers.
Numeric == {"workflow_run_id", "is_archived", "duration_ms"}

\* Requests whose literals mean to the connector what they mean to SQLite and whose LIMIT, if
\* they have one, is an int and stands beside filters that no other filter hides.
Understood(r) ==
  LET On(i) == r.filters[i].column
  IN /\ r.schema \in {"github", "slack", "datagov", "jira", "jaeger"} =>
          \A i \in DOMAIN r.filters :
            IF r.schema = "slack" /\ On(i) = "ts" THEN \A j \in DOMAIN r.filters[i].values : InSlack!Stamp(r.filters[i].values[j])
            ELSE Typed(r.filters[i], IF On(i) \in Numeric THEN "int64" ELSE "string")
     /\ r.schema = "datagov" =>
          \A i \in DOMAIN r.filters : On(i) = "tags" =>
            \A j \in DOMAIN r.filters[i].values : r.filters[i].values[j].v \in Holders[r.filters[i].values[j].v]
     /\ r.schema = "jira" =>
          \A i \in DOMAIN r.filters : InJira!Exact(r.filters[i]) =>
            \A j \in DOMAIN r.filters[i].values :
              LET v == r.filters[i].values[j].v
              IN v \in Spellings[v] /\ (r.limit # Null /\ r.table = "issues" => Spellings[v] = {v})
     /\ r.limit # Null =>
          /\ StopAt(r) <= MaxInt
          /\ \A i, j \in DOMAIN r.filters : i # j /\ On(i) = On(j) =>
               \/ r.filters[i].op \in {">", ">="} /\ r.filters[j].op \in {"<", "<="}
               \/ r.filters[j].op \in {">", ">="} /\ r.filters[i].op \in {"<", "<="}

Wanted(row) == row.is_row /\ \A f \in Filters : Passes(f, row)

\* Still to be read from this list, or from the list of another issue.
Unread(row) == \E i \in DOMAIN listing : i > next /\ listing[i] = row
Awaited(row) == \E k \in DOMAIN asked.rest : Passes(InJira!In("issue_key", {asked.rest[k]}), row)

\* The scan of a default window ends with a warning.
WillWarn ==
  \/ warned
  \/ req.schema = "newrelic" /\ ~InNewRelic!Curated /\ InNewRelic!Windowed
  \/ InJaeger!Searches /\ ~InJaeger!LowerBound

\* Pages kept their place, as far as it matters to what is missing.
Undisturbed == asked.keyset \/ moves = {} \/ (moves = {"appear"} /\ ~Limits)

\* No row was passed over.
NoneSkipped ==
  WillWarn \/ \A row \in standing : Wanted(row) => row \in emitted \cup withheld \/ Unread(row) \/ Awaited(row)

\* What a LIMIT that rides on a list needs of it: its rows are the rows wanted, in the
\* order wanted, and those emitted come before those to be read.
Exactly ==
  /\ req.limit # Null /\ asked.stop = StopAt(req) /\ asked.rest = <<>>
  /\ asked.order = req.order \/ req.order = <<>>
  /\ \A row \in Stored(Table) : row.is_row /\ (\A f \in asked.filters : Passes(f, row)) => Wanted(row)
  /\ \A row \in emitted : Wanted(row)
  /\ \A row \in emitted : \A i \in DOMAIN listing : i > next /\ listing[i] \in standing =>
       ~Before(req.order, SortKey(req.order, listing[i]), SortKey(req.order, row))
  /\ sent = Cardinality(emitted) /\ Fresh

\* How many rows are asked for at once where no LIMIT rides on them.
RowsAtOnce(size) ==
  \/ size = MaxRows /\ req.schema \notin {"docker", "jaeger"}
  \/ size \in {0, MaxRows} /\ InJaeger!Searches
  \/ size = MaxInt /\ req.schema \in {"docker", "jaeger"}

ListInv ==
  /\ DOMAIN asked = {"filters", "order", "size", "stop", "keyset", "rest"}
  /\ asked.rest \in Seq({asked.rest[k] : k \in DOMAIN asked.rest})
  /\ Sorted(listing)
  /\ \A i \in DOMAIN listing : \A f \in asked.filters : Passes(f, listing[i])
  /\ ~OfOneList => ~asked.keyset
  /\ OfOneList => asked.rest = <<>>
  /\ InOneAnswer =>
       /\ place = <<0, 0, 0>> /\ emitted = {} /\ sent = 0 /\ moves = {} /\ ~warned
       /\ Len(listing) <= MaxInt
       /\ Limits /\ asked.stop >= 0 => asked.size = asked.stop
       /\ ~Limits => RowsAtOnce(asked.size)
  /\ req.schema = "jaeger" => ~Limits

CompleteInv ==
  /\ held \cup standing \cup emitted \subseteq Stored(Table)
  /\ pc = "start" => moves = {} /\ ~warned /\ held \in Contents[Table]
  /\ pc = "paging" => ListInv
  /\ pc = "paging" /\ Understood(req) /\ Undisturbed => NoneSkipped /\ (Limits => Exactly)
  /\ Understood(req) => Complete

(***************************************************************************)
(* The requests for which WindowBeforeBound is proved, and what a scan that *)
(* reads on keeps to, so that it holds at its end.                          *)
(***************************************************************************)

\* The request compares the time of a row with times.
Timed ==
  \A f \in Filters : f.column = TimeColumn => Typed(f, IF Spanned THEN "string" ELSE "int64")

WindowInv ==
  /\ pc = "paging" /\ Searched /\ ~Limits /\ HasOnlyEnd /\ Timed =>
       \A row \in BeforeEnd : \E i \in DOMAIN listing : listing[i] = row
  /\ Timed => WindowBeforeBound

(***************************************************************************)
(* When the comments of several issues are emitted once, and what a scan of *)
(* them that reads on keeps to.                                             *)
(***************************************************************************)

\* No issue is named twice.
KeysDiffer ==
  \A i, j \in DOMAIN InJira!IssueKeys : InJira!IssueKeys[i] = InJira!IssueKeys[j] => i = j

OnceInv ==
  ~OfOneList /\ KeysDiffer =>
    /\ asked # Nothing => ~asked.keyset
    /\ EachOnce
    /\ "appear" \notin moves /\ pc = "paging" =>
         /\ Fresh
         /\ \A k, l \in DOMAIN asked.rest : asked.rest[k] = asked.rest[l] => k = l
         /\ \A row \in emitted : ~Awaited(row)
         /\ \A i \in DOMAIN listing : ~Awaited(listing[i])
==============================================================================
