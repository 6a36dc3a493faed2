# A verification development for dfetch

dfetch runs one SQL query (SQLite's dialect) over many services at once: each
`schema.table` of the query is fetched from a *connector* (GitHub, Slack, Jira,
Postgres, ...), the fetched rows are loaded into a SQLite database made for
this one query, and the unchanged query is then executed there.  What can be
evaluated by the service (filters, ordering, LIMIT, projection) is *pushed
down* to it by a planner, and everything is evaluated once more by SQLite.

This directory holds TLA+ models of that program, the TLC configurations that
check them on small instances, and TLAPS proofs about them.

## Inventory

| Part | Code | State | Operations |
|---|---|---|---|
| query run | `engine/engine.go`, `engine/db.go`, `main.go` | position of the main goroutine, one goroutine per source, mutex, error group, context | parse, open, resolve, attach, create, stream, query, close, cancel |
| planner | `engine/plan.go` | none (pure) | `planScan`: filters, columns, order, limit for one source |
| local database | `localdb/localdb.go` | temp dir, pinned connection, attached schemas, tables, transaction | open, attach, create, insert, query, close |
| credential | `source/credential.go` | mutex, resolved value | `Get`, `resolve`, `runCommand` |
| connectors | `source/*/` | per-scan page cursor, counters, caches | `Scan`, paging loops, translation of a `ScanRequest` to a request |
| SQL front end | `internal/sqlparse/` | none (pure) | parse, conjuncts of WHERE, terms of ORDER BY, LIMIT, sources |
| options and registry | `engine/options.go`, `source/source.go`, `connectors/` | registered connectors and factories | last registration wins |
| configuration, command line | `config/`, `cmd/` | none | discover and load the file, run a saved query |

How they interact: the command line builds an engine from the configuration;
the engine parses the query, asks each connector for its table's columns,
prepares the local database, and then calls every connector's `Scan` in a
goroutine of its own with the request the planner made for it; a connector
hands each page back through a callback that inserts it.  Connectors share
their `Credential` between the goroutines of one run (two tables of one
connector), and between runs of one process.

What is hard about each part, and what makes it correct:

* **Query run.**  Goroutines, one mutex, an error group that cancels its
  context at the first error, a caller that may cancel at any moment, and a
  database handle that must be used by one goroutine at a time and closed after
  the last.  A run is correct when it answers from *everything* its sources
  delivered, or fails with the error that came first, returns once it is
  cancelled, and leaves neither a goroutine nor a database file.
* **Planner.**  Four independent walks over a statement (filters, order, LIMIT,
  columns) whose results are only safe together.  It is correct when the answer
  does not depend on what the connectors do with what they are offered.
* **Credential.**  Several scans resolve one secret; requests ignore errors
  because an earlier `Get` succeeded.  It is correct when the source of the
  secret is asked by one goroutine at a time, everybody uses the same value, and
  nobody goes on anonymously because a source is broken.
* **Local database.**  Multi-statement inserts under a bind-parameter cap, and
  cleanup after a failure at each step.  Correct when an insert is all or nothing.
* **Connectors.**  Paging against services that change, page caps, client-side
  dropping of rows, time windows with inclusive ends, services that compare and
  sort unlike SQLite.  Correct when the rows they emit serve the request: a
  superset of the matching rows, or enough of the first of them when a LIMIT was
  offered; or a warning says that rows may be missing.
* **SQL front end.**  The builder recognises conjuncts, ORDER BY terms and LIMITs
  that the planner may use; the rest stays text.  Correct when what it recognises
  means what the text means to SQLite.

## Modules

| Module | Models | Composition |
|---|---|---|
| `QueryRun` | `RunWithParams`, `streamSources`, the error group and Ctrl-C | detailed specification |
| `QueryContract` | nothing but the promise of a run to its caller | abstract; `QueryRun` implements it |
| `QueryRunProofs` | proofs | extends `QueryRun` |
| `LocalDB` | the per-request SQLite database, call by call | detailed specification of what `QueryRun` takes as single steps |
| `TableStore` | what the engine is promised of its database | abstract; `LocalDB` implements it |
| `LocalDBProofs` | proofs | extends `LocalDB` |
| `Credential` | `source.Credential` and its use by `Scan` and by requests | detailed specification |
| `OnceCell` | a cell written once | abstract; `Credential` implements it |
| `CredentialProofs` | proofs | extends `Credential` |
| `SqlSelect` | the statement tree (`internal/sqlparse/ast.go`) and SQLite's meaning of it | pure |
| `Planner` | `planScan` and its helpers (`engine/plan.go`) | pure, extends `SqlSelect` |
| `PushDown` | a run seen as data: fetch with the planner's requests, load, execute | extends `Planner` |
| `PushDownProofs` | proofs | extends `PushDown` |
| `ScanContract` | when the rows of a scan serve a `ScanRequest` (`source/source.go`) | abstract; what `PushDown` takes from connectors and `Scans` checks of them |
| `ConnectorScan` | what the scans of all connectors share: requests, pages, counting, page cap, warning | extends `ScanContract` |
| `GitHubScan`, `SlackScan`, `NewRelicScan`, `CkanScan`, `JiraScan`, `PostgresScan`, `GitScan`, `JaegerScan`, `DockerScan` | one connector each: what it pushes of a request, when it lets a LIMIT ride, its paging | each extends `ConnectorScan` |
| `Scans` | a scan by any of the nine, and a service whose rows come and go between two pages | instantiates the nine |
| `ScanProofs`, `ScanRowsProofs`, `ScanCompleteProofs` | the theorems about `Scans` | each extends the one before, the first `Scans` |
| `Predicates` | how WHERE, ORDER BY and LIMIT are built from the grammar's tree (`internal/sqlparse/build.go`), and what they mean | pure, with one step |
| `PredicatesProofs` | proofs | extends `Predicates` |
| `MCQueryRun`, `MCLocalDB`, `MCCredential`, `MCPushDown`, `MCScans`, `MCPredicates` | the instances TLC checks | |

### QueryRun

`main` is the program counter of the goroutine in `RunWithParams`: one action per
call that can fail (`Parse`, `OpenDB`, `ResolveSources`, `Attach`, `CreateTable`,
`Wait`, `QueryBegin`/`QueryEnd`), each with its early return, which goes through
`close` if the deferred `db.Close` is already registered.  `scan[s]` is the
program counter of source `s`'s goroutine.  The emit callback is split at its
lock (`Emit`, `EmitLock`), at the begin and the commit of the insert, and at the
error group's three steps (record the first error, cancel the context, give the
slot back), because other goroutines run in between.  A cancelled context is seen
by a call at its own discretion: the call *may* fail with it.

Connectors are the environment: a scan emits chunks with or without rows and
warnings, succeeds, or fails.  A chunk's rows are abstracted to whether there are
any, but it is counted how often each chunk was inserted and its warning recorded.

### LocalDB

`pc` is the caller's position in the call that runs: the four steps of `Open`,
the statements of `Insert`, the row loop of `Query`, the three steps of `Close`.
The model keeps apart what the code relies on being the same: `attached`, the map
of `DB`, and `catalog`, what the pinned connection has attached and in which
file; a table's rows live under the *file* and the name, so two schemas with one
file would see each other's tables.  `pending` is what the open transaction
holds.  SQLite and `database/sql` are external: a statement may fail for any
reason and then has no effect; after a cancellation an open transaction takes no
more statements and is rolled back by a goroutine of `database/sql` (`AwaitDone`);
`Commit` then refuses without waiting for it, and `Conn.Close` waits.

The caller is the engine: calls one at a time (`QueryRun` shows that), one context,
and after a failure only further inserts, from scans that have not noticed yet,
and `Close`.  `engine/db.go:16` says that `Attach` is called "before any
CreateTable"; the engine calls it once per source, after the `CreateTable` of the
source before (`engine/engine.go:162`).  `LocalDB` allows every order, and
`FilesApart` holds in every one.

### Credential

One program counter per goroutine in `Get` (`waiting`, `holding`, `calling` the
function, `running` the command).  `seen` is what the `Get` of a `Scan` returned,
`used` what its requests were sent with.  The environment changes at any time,
function and command answer differently each time, fail, answer with nothing, or
hang.  All sixteen combinations of configured sources are initial states.

### SqlSelect, Planner, PushDown

A statement is a record with the fields of `sqlparse.Select`.  A conjunct is
`=`, `<>` or IS NULL on a column, a value or another column, or a *raw* one (an
OR), which the planner may not look into.  `Planner` translates `planScan`
helper by helper under the helpers' names; it refers to a conjunct by its place
(WHERE, or the ON of a join), since the code depends on the order of its walks
("the last literal wins", "the first inference blocks the others").

`PushDown` runs a statement: `Fetch(k)` lets the connector of source `k` emit
any rows that serve the request (`Serves`), with all or only the requested columns;
`Execute` lets SQLite answer from what was loaded.  LIMIT without a total order
leaves a choice, so both sides have a *set* of answers, and the property is that
every answer from the fetched rows is an answer from the whole tables.
Fetching is one step here and services do not change meanwhile; how chunks get
into the database is `QueryRun`'s subject, how a connector comes by the rows is
`Scans`'.  Between the two stands `ScanContract`.

### ScanContract, ConnectorScan, Scans

`Serves(req, want, got)` is the promise between the planner and the connectors: of
the rows `want` that pass the filters one may be missing in `got` only if a LIMIT
was offered and LIMIT + OFFSET other matching rows, none of them behind the
missing one in the order asked for, were emitted.

A scan starts by turning its request into what it sends (`asked`): the filters the
service gets, the order, the page size, the number of rows to stop at, and whether
pages continue behind the last row (`keyset`) or at a position.  These are the
definitions that differ from connector to connector and carry its decisions
(`LimitSafe`, `ConsumedAll`, `OrderHonored`, `Consumed`, `PushLimit`, `Pushes`...).
The service's list of the rows that match is any list in the order sent.  Then
pages are read: `Page` emits a page's rows, cut at the LIMIT the way the connector
cuts (`Appended`: after each row; `Trimmed`: the page), drops what the connector
drops (pull requests among issues), counts, and ends at the last page, when the
LIMIT is satisfied, or at the page cap with a warning.  GitHub's issues and pull
requests, Slack's and Jira's cursors, CKAN's offsets, Jira's comments issue by issue,
New Relic's one NRQL answer or its cursors, the one answer of Jaeger and Docker and the
row batches of git and Postgres are actions of their modules.  A page may hold fewer rows
than were asked for, or none, while the service announces more: GitHub, Slack and New
Relic read on (`Reaches`), Jira reads on after a short page and takes an empty one for
the last (`Sends`, `Onward`).  Jaeger sends `search_depth` only if `max_traces` is set;
otherwise, the default, the service's own limit cuts the list anywhere, and
`WarnTraces` is the number of traces at which the connector suspects it (`LooksCut`).
A request may fail at any page (`Fail`).  Between two pages a row may appear at any place and one may
vanish; a page at a position does not notice that the list moved.  `withheld` is a
history variable that only the properties read: the rows that a service had listed and
left out with nothing in its answer that the connector acts on (an empty page of Jira,
Jaeger's own limit below `WarnTraces`).

A cell is a number or NULL; a literal has the Go type under which the connector sees
it, since several connectors drop literals of another type.  A column `is_row` says
whether an entry of a service's list is a row of the table at all.  Two services that
compare unlike SQLite are modelled by what they find: `Holders[t]` are the lists that
contain tag `t` (CKAN), `Spellings[w]` the words JQL takes for `w`.

### Predicates

An expression is nested as in the grammar: an OR of ANDs of NOTs of a comparison
followed by operators.  `Build` makes of a WHERE clause, an ORDER BY term and a LIMIT
what `buildSelect` makes of them; the other half of the module says what the text
means over a row.  `WhereKept`, `OrderKept` and `LimitKept` compare the two.

## Runs

| Run | Checks | Bounds, and why they are enough |
|---|---|---|
| `query_run` | `IInv`, `DBSerialized`, `InsertFindsTable`, `ResultComplete`, `RootCauseReported`, `NothingLeftBehind`, `FirstErrorWins`, `ImplementsContract` | Three sources over two schemas, two fetched at once, one chunk each: a schema shared and one not, a source that waits for a slot, two callbacks at the mutex, two errors racing to be first. The theorems hold for any number. |
| `query_live` | `CancelReturns`, `FailureReturns`, `RunReturns` | Two sources fetched at once: one to hang or to hold the mutex, one to fail or to wait. |
| `local_db` | `IInv`, `StatementsFit`, `NothingLeft`, `ImplementsStore`, `CloseReturns` | Two attached schemas and the default one with a table of the same name each, so that a shared file would show; a cap of four parameters with rows of two values (a batch of two and a remainder) and of five (a row over the cap); tables of up to four rows, so that a chunk meets an empty table and one with rows; a chunk with a row of another width. |
| `credential` | `IInv`, `AskedOnce`, `RequestsMatchScan`, `NeverSilentlyAnonymous`, `ImplementsCell`, `EverybodyServed`, `CancelledGetReturns` | Two goroutines of two runs, two secrets that could be mixed up and two environment values, every configuration: one asks while the other waits, one run is cancelled while the other goes on, and the environment changes between two `Get`s. The theorems hold for any number of goroutines, shared out to any number of runs. |
| `pushdown` | `TypeOK`, `SelectionUnchanged`, `AnswerCorrect` | See below. |
| `scans` | `TypeOK`, `Complete`, `EachOnce`, `Bounded`, `WindowBeforeBound`, `WarnedOfMore` | See below. |
| `predicates` | `WhereKept`, `OrderKept`, `LimitKept` | Every operator over a column, another one, a value, NULL and a negated column on either side, NOT in each place the grammar has one, two relations or operators in a row, AND and OR of two conjuncts; rows over NULL, 0, 1, 2. The builder treats conjuncts one by one, so a third adds nothing. |

The push-down run enumerates statements and table contents.  Tables
have two columns, values are 0, 1 and NULL.  Statements over one table have up
to two conjuncts (bound and unbound parameters, a qualified name, a raw conjunct,
IS NULL), up to two ORDER BY terms (an expression, an output alias), DISTINCT,
GROUP BY or `count(*)`; contents are all sets of up to three rows, so that LIMIT 1
OFFSET 1 leaves something before and behind its window.  Statements over two
tables use all six kinds of join (where a LIMIT makes the planner tell inner, cross
and comma joins apart), ON with a key and a literal on either side, USING, and up to
two WHERE conjuncts; contents are pairs of up to two rows each, three together (`TwoTables`),
enough for a row that joins, one that does not, and a value that is filtered.

`scans` enumerates requests, table by table: for each of 29 tables the filters,
orders and limits between which its connector decides (none, LIMIT 0, 1, and 2 with
OFFSET 1).  A table holds up to five rows: four or two when the scan starts, and one that
may appear.  Pages have two rows, so a list has up to three of them, and two pages are
the cap: a list may be cut, end at the cap, or end before.  `max_rows` is 3, so an
answer can be full.  Times run from 1 to 6 = now, the default window is 2, so rows lie
before, in and behind it, and a bound is widened by 1.  `MaxInt` is 7, more than
all rows; `WarnTraces` is 2, so a list that Jaeger cuts may stay below it, reach it, or
exceed it.  Postgres, git and New Relic's event types are also asked for LIMIT 7 OFFSET 1,
whose sum overflows.  One row appears and one vanishes between pages at most, in either
order: enough to shift a page by one.  That makes 904 requests and 1888 initial states.

`Complete` excuses two things.  The first no reader of a service can repair: pages at a
position when rows vanish, or come while a LIMIT counts them; it does so only when rows
did move.  The second is what the connectors do not tell: the rows in `withheld`, that is,
what Jira announces behind an empty page and what Jaeger's own limit cuts below
`WarnTraces`.  Such a scan returns rows too few without a warning, so `Complete` without
that excuse would be false; the table at the end names the lines.

Five runs are expected to fail, each on one pattern of statement
(`limit_beside_conjunct`, `outer_literal`, `using_columns`, `filtered_later`,
`case_blind`); they are the findings below.

Deadlock is checked in every run but those of `PushDown`, `Predicates` and `Scans`,
where a run, the builder or a scan that has finished stops, and of `LocalDB`, which
stops when it is closed (a call to `Close` that waits for ever is what `CloseReturns`
excludes).

## Fairness

* `QueryRun!Spec` assumes that the main goroutine and the engine's side of every
  scan keep running (Go's scheduler), that a goroutine waiting for the mutex gets
  it in the end (`sync.Mutex` hands over in starvation mode, hence strong
  fairness), and that a connector whose context is done returns: all requests
  and commands are made with that context.  Nothing is assumed of a connector
  that is not cancelled; `RunReturns` is stated under the condition that scans go
  on by themselves, which the connectors' client timeouts give.
* `LocalDB!Spec` assumes that the steps of `Close` go on once they can, and that
  the goroutine of `database/sql` that waits for the end of a context runs.
* `Credential!Spec` assumes the same of the mutex and of running code, that a
  command ends (it is killed after five seconds) and that the function returns
  when its own context is done.  `EverybodyServed` is stated under `Retries`:
  scans are retried, and neither function nor command fails for ever.

## Proofs

All theorems hold for every value of the constants, under the assumptions the
modules name; each run evaluates these on its instance.

* `QueryRunProofs`.  `IInv` says where the goroutines, the database and the
  tables can be for each position of the main goroutine, who holds the mutex,
  and, per chunk, how often it was inserted given where its callback is
  (`ChunksAccounted`).  None of the safety properties is inductive alone:
  `ResultComplete` needs that chunk accounting, which needs the mutex, and
  `RootCauseReported` needs that a goroutine can only see a cancellation after
  the caller's or after an error was recorded (`GroupErrors`).  From `IInv`:
  `DBSerialized`, `InsertFindsTable`, `ResultComplete`, `RootCauseReported`,
  `FetchesBounded`, `NothingLeftBehind`, the action property `FirstErrorWins`, and
  that the run implements `QueryContract`.
* `LocalDBProofs`.  `IInv` says that the map and the connection agree and that
  file numbers are all smaller than the size of the map, so the next schema finds
  a file nobody has used (`FilesApart`); that the transaction holds the first
  `start` rows of the chunk and nothing else, and that a transaction left open
  belongs to a cancelled, failed run (`TxHoldsPrefix`); that a query has scanned
  the first rows of its table (`QueryHoldsPrefix`); and which handles are open
  where (`HandlesInStep`).  From it: `NothingLeft`; `StatementsFit`, for every cap
  and every number of columns; and `ImplementsStore`: since places are apart
  (`PlacesApart`), attaching adds no table, creating adds one empty one, a
  commit appends the chunk to its table only, and every other step changes nothing.
* `CredentialProofs`.  `IInv` ties the mutex to the position of its holder and
  says that whatever anybody got is what is cached.  From it: `AskedOnce`,
  `RequestsMatchScan`, `NeverSilentlyAnonymous`, and that `Get` implements `OnceCell`.
* `PredicatesProofs`. A structured conjunct is true on the rows on which the text is
  (`WhereKept`): the text means a fold over the operators that follow an operand, which is
  unrolled through the equation of the recursive function for one operator, and each kind
  of operator is compared with what the builder made of it. The premise, `Unchained`, is
  that no structured predicate was made from a chain of operators (the builder reads such
  a chain wrongly, see the table below), and `WhereAssumption` says what trees the grammar
  gives; a conjunct that stays text needs no premise. All statements of the run are
  `Unchained`. A term of ORDER BY that the builder keeps has no NULLS modifier and no
  collation (`StructuredTerm`), hence sorts any two rows as the text does (`OrderKept`);
  and the three spellings of LIMIT are read as SQLite reads them (`LimitKept`), given that
  the grammar knows no other (`LimitAssumption`).
* `PushDownProofs`.  First about the planner: a joined row that a statement
  selects passes every filter `planScan` makes for its source.  A filter taken
  from a WHERE conjunct restates the conjunct (`DirectFilterHolds`); an inferred one
  follows from the key and the literal at its other end (`InferredFilterHolds`).
  Then the invariant `LoadInv` of a run: a source fetched without a LIMIT has all
  rows that pass its filters, and its columns are all or the needed ones.  With
  both, every conjunct reads the same values locally as upstream, and the rows
  selected are the same (`SelectionIsUnchanged`).  The premises are what the
  findings show to be necessary: the joins preserve no rows (`InnerJoins`), no
  USING, each table is mentioned once and names mean the same to the planner as
  to SQLite (`WellScoped`), no LIMIT was pushed.

  Last, the whole answer (`AnswerIsCorrect`: columns, groups, DISTINCT, ORDER BY and
  LIMIT). `AnswerInv` adds to `LoadInv` that what was fetched serves the request and that
  an answer was made from it. Without a pushed LIMIT the selected rows are the same and
  show the same cells in the output and in ORDER BY (`Resolves`). With one, the planner
  offers it to a single source, the rows of which are what is answered from; a row that
  was not fetched has LIMIT + OFFSET matching rows before it or level with it, so it is
  not needed for the window: whoever picks the first rows of those fetched, in the order
  asked for, could have picked them from all. `InScope` collects the premises: inner
  joins, names that mean the same to both, and either no pushed LIMIT or one whose source
  is asked for everything the statement asks of it (`Settled`) with an OFFSET the planner
  can read (`Cuttable`). The findings show what happens without them. Of the 994
  statements of the run 663 are in scope, and 120 of the 150 that offer a LIMIT; outer
  joins are most of the rest.

* `ScanProofs`, `ScanRowsProofs` and `ScanCompleteProofs`, over `Scans`. `INSTANCE` gives
  every connector a copy of `ConnectorScan`; the first part of `ScanProofs` shows that the
  copies are the same, so that what the shared steps (`Ask`, `Advance`, `Answer`, `List`)
  keep is proved once and each connector only shows that its actions are such steps.
  `Bounded` is not inductive: `BoundInv` adds that a scan that reads on has room for
  another page and another row (`RoomLeft`), and the lemma `RoomHolds` counts that what
  `Appended` and `Trimmed` leave of a page fits in that room. From it: `Bounded`.
  `RestInv` says that a scan that reads on has not warned yet. From it: `WarnedOfMore`.
  `RowsInv` says that the list names each row once (`ListedOnce`), that no row still to be
  read was emitted (`Fresh`), and that a row that has not appeared yet is neither held nor
  emitted; a row that appears or vanishes moves the others by one place, and behind a
  cursor the place of the scan moves with them. From it: `TypeOK`, and `EachOnce` for all
  scans of one list. Comments come issue by issue: `OnceInv` adds that no row emitted or
  listed is on the list of an issue still to come (`Awaited`), which holds if no issue is
  named twice (`KeysDiffer`); with it `EachOnce` holds for all scans. That premise is
  needed, as the table below shows. The premises on the constants: limits are natural numbers, contents are finite, and no
  row that may appear is there from the start (`RequestAssumption`).

  `Complete` is about the end of a scan; `CompleteInv` says what a scan that reads on
  keeps to so that it comes out. `ListInv`: the list is sorted as was asked and every row
  on it passes the filters sent. `NoneSkipped`: a row that the service held all the time
  and the query wants was emitted, was withheld, is still to be read, or is on the list of
  an issue still to come, unless the scan will end with a warning. What the theorem claims
  of Jira and Jaeger is thus that nothing is lost but what the service withheld. `Exactly`, if the scan stops at
  a LIMIT: the rows of the list are rows wanted, in the order wanted, those emitted before
  those to be read, and `sent` counts them. So a scan that ends at its last page has
  emitted everything, and one that stops early has emitted LIMIT + OFFSET rows, none of
  them behind a row it left. Per connector there are two lemmas under it: what is sent
  selects no row less than the filters, and if a LIMIT rides on it, no row more. Facts
  about lists that would be inductions (a shortest list, a first row that differs) take
  the least counterexample (`LeastOf`). The premise, `Understood`, is that a literal has
  the type the connector expects of its column (another is dropped by the connector, see
  below), that what CKAN or JQL finds for it includes what SQLite finds (and beside a
  LIMIT on Jira's issues is nothing else), that LIMIT + OFFSET is an int, and that beside
  a LIMIT no two filters compare one column unless one bounds it from below and the other
  from above; the assumptions say that a request is made of lists, that cells are numbers
  or NULL and that no service holds more rows than an int counts. Of the run's 904
  requests all are `Understood` but the 51 with LIMIT 7 OFFSET 1.

  `WindowBeforeBound` says that the time window a connector makes up for a query that gives
  only an upper bound ends at that bound, and that none of its rows is lost if the answer
  was read to its end. `WindowInv` says where those rows are
  until they are emitted: in the list. The premise, `Timed`, is that the time column is
  compared with times.

Only model-checked:

* Liveness (`EverybodyServed`, `CancelledGetReturns`, `CancelReturns`, `FailureReturns`,
  `RunReturns`, `CloseReturns`): the prover reasons about neither fairness nor ENABLED.
* `AnswerCorrect` for outer joins and the other statements outside `InScope`.
* `Complete` where LIMIT + OFFSET overflows; outside `Understood` and `Timed` otherwise,
  nothing is claimed.

## What the model shows to be wrong

`AnswerCorrect` fails for nine patterns of statements.  Each comes from a
condition that `planScan` does not look at; the local SQLite can correct rows too
many, and here are rows too few.  The first four are runs; the statements of
the others are in `MCPushDown`, to be named under `Statements` in a cfg.

| Pattern | Cause | Statements |
|---|---|---|
| `... WHERE x IS NULL LIMIT 1` | `limitPushable` does not look at WHERE conjuncts that become no filter | `MCLimitBesideConjunct` |
| `a LEFT JOIN b ON a.k = b.k AND b.k = 1` | `inferJoinFilters` carries a literal from an outer join's ON to the preserved side | `MCOuterLiteral` |
| `SELECT a.x, b.y FROM a JOIN b USING (k)` | `neededColumns` does not look at USING | `MCUsingColumns` |
| `a LEFT JOIN b ... WHERE b.y = 1 ORDER BY a.x LIMIT 1` | `leftPreserving` does not look at WHERE, nor at the ON of a CROSS JOIN | `MCFiltersLater` |
| `LIMIT 1 OFFSET :n` | `intValue` knows literals only: the LIMIT is pushed, the OFFSET is not | `MCBoundOffset` |
| `a JOIN b ON a.k = b.k AND a.k = 1 ORDER BY a.x LIMIT 1` | a literal on the limited source counts as pinned although it is no filter | `MCRestrictsInOn` |
| `A a JOIN A b ON ... WHERE a.x = 1` | one fetch serves both aliases, with the filters of the first | `MCTwice` |
| `one.t a LEFT JOIN two.t WHERE t.k = 1` | `attributable` takes an aliased table by its name | `MCSameName` |
| `a, json_each(...) LIMIT 1` | a table function is no source, so the query counts as single-source | `MCTableFunction` |

The passing push-down run leaves exactly these patterns out.

What the connectors and the builder do beyond their promise.  `case_blind` is a run; the others
were met while modelling the code, and the passing runs leave their inputs out.

| Where | What |
|---|---|
| `source/jira/jql.go:124` | `status = 'Done' LIMIT 1`: JQL also finds 'DONE', the equality counts as exact, and the one row fetched may be of the other spelling (`case_blind`) |
| `source/jira/tables.go:376` | `issue_key IN ('P-1', 'P-1')` scans the issue twice and emits its comments twice |
| `source/jira/tables.go:221` (and 312, 408) | a page without rows ends the list, or that issue's comments, although the token, `isLast` or `total` announces more; the rows behind it are missing without a warning. For comments a test wants it so (`TestScanCommentsEmptyPageWithStaleTotalTerminates`), against a `total` that is wrong for ever |
| `source/jaeger/tables.go:165` | without `max_traces` the service's own limit is unknown to the connector; where it is below 1000 traces it cuts the list without a warning |
| `source/ckan/tables.go:253` | `tags = 'x,y'` is sent as one tag, which no dataset has; its rows are lost, though the comment claims a superset |
| `source/github/github.go:251` | an equality with a value that is no string is dropped by `stringEq` and still counts as consumed, so a LIMIT rides on the list it does not filter |
| `source/slack/tables.go:295` | of several bounds at one end the last one is sent, and a LIMIT rides on it |
| `source/jaeger/jaeger.go:190` | a lower bound that does not parse is none for the window and one for the warning: rows before the window are missing silently |
| `source/jaeger/tables.go:192` | an error object in the stream decodes as a chunk without spans |
| `LIMIT 9223372036854775807 OFFSET 1` | the sum turns negative: GitHub, CKAN and Jira stop after one row, Slack and New Relic slice with a negative end, Postgres and NRQL refuse, git ignores it |
| `source/jaeger/jaeger.go:233` | the default window of an hour ends at the bound after it was moved out; for a literal with a space before the time, or with an offset, that is a day later, so `start_time < '2024-01-01 00:00:00'` searches an hour that lies wholly behind the bound, though the comment at line 230 means to keep the rows the query wanted; a warning says that rows may be missing |
| `internal/sqlparse/build.go:257` | `a = 1 ISNULL`, `a IN (1) = 0`, `a < 1 IN (SELECT ...)`: a chain without parentheses is read as its first kind of operator, here `a = 1`, `a IN (1)`, `a < 1` |

## Not modelled

* Services, HTTP, JSON, SQLite's own evaluation beyond the operators above,
  text collation, type affinity: outside this code.
* Operators other than `=`, `<>` and IS NULL in `PushDown`: the planner treats all
  comparisons with a value alike, except that only `=` is inferred over keys.
  What the connectors make of the others is in `Scans`.
* Subqueries in FROM and WITH: the planner reads their tables but attributes
  conjuncts of the outer statement only.
* Chains of operators without parentheses, FROM, and the text of literals in `Predicates`.
* Rows: how a connector converts JSON, OTLP or the output of git to cells, and how
  SQLite and `DB.Query` convert them again.
* The Postgres pool that is opened on first use, and its cache of columns; the
  columns of a New Relic event type.
* The generated parser and lexer (`internal/sqlparse/gen`): three quarters of the
  repository's lines, one method and one table entry after the other for each rule of
  SQLite's grammar.  Its states mean nothing outside ANTLR, and nothing in it was written
  for dfetch; what dfetch makes of its trees is `Predicates`.
* Registration of connectors, the configuration file, the command line, listing and
  describing tables, formatting of results, telemetry, examples: straight-line code
  around one call, without state that two steps could disagree about.

The map therefore names a small share of all lines in `src/`, and most of the
lines of the engine, the planner, the local database, the credential and the
`Scan` paths of the connectors.

## Plan

Done, in this order: query run with contract and proofs; credential and cell; planner and
push-down with the proof that the selection is unchanged; local database and store; the
nine connectors against the contract of a scan, with proofs of their bounds, warnings and of
`EachOnce`; the builder's predicates.

Then the theorems that were missing: `WhereKept`, the whole answers of push-down, `Complete`,
`WindowBeforeBound`, and `EachOnce` for lists that follow one another.

What would come next: outer joins in the proof about push-down (a LEFT JOIN keeps the rows of its left side, so what must be
whole is the right one); the FROM clause of the builder; Postgres' pool and column cache.
