------------------------------ MODULE QueryRun ------------------------------
(***************************************************************************)
(* One run of a dfetch query: Engine.RunWithParams (engine/engine.go), from *)
(* the parse to the closed database, with the concurrent part,              *)
(* Engine.streamSources, at the grain of its lock, its error group and its  *)
(* context.                                                                 *)
(*                                                                          *)
(* One main goroutine parses, opens the per-request database, resolves the  *)
(* sources, creates their tables, starts one goroutine per source and waits *)
(* for them; each of those scans a connector, which hands its chunks to an  *)
(* emit callback that loads them under a mutex.  The caller may cancel the  *)
(* run's context at any moment (Ctrl-C, main.go).                           *)
(*                                                                          *)
(* The rows of a chunk are abstracted to whether there are any; the number  *)
(* of times a chunk was inserted and the number of times its warning was    *)
(* recorded are kept, so a lost or a repeated chunk is visible.             *)
(***************************************************************************)
EXTENDS Integers, FiniteSets, Sequences

CONSTANTS
  NumSources,           \* len(resolved): the distinct tables of the query
  Schemas,              \* the SQL schema names the query mentions
  SchemaOf,             \* the schema of each source
  maxConcurrentFetches, \* the limit of the error group
  MaxChunks             \* bound: chunks one scan may emit

Source == 1..NumSources
Position == 1..MaxChunks
Chunk == [rows : BOOLEAN, warns : BOOLEAN]

ASSUME SourceAssumption ==
  /\ NumSources \in Nat
  /\ SchemaOf \in [Source -> Schemas]

ASSUME LimitAssumption ==
  /\ maxConcurrentFetches \in Nat \ {0}
  /\ MaxChunks \in Nat

None == "none"
Failure == {"parse", "open", "resolve", "attach", "create", "source", "insert",
            "cancelled", "query"}
Unlocked == 0

\* Per source and chunk position, how often something happened to the chunk.
Tally == [Source -> [Position -> Nat]]
Untouched == [s \in Source |-> [i \in Position |-> 0]]

Result == [ok : BOOLEAN, loaded : Tally, warned : Tally]
NoResult == [ok |-> FALSE, loaded |-> Untouched, warned |-> Untouched]

VARIABLES
  main,           \* where the main goroutine is
  next,           \* its position in the loop over the sources
  db,             \* the per-request database: "absent", "open" or "closed"
  attached,       \* the schemas attached to it
  tables,         \* the sources whose table exists in it
  scan,           \* where the goroutine of each source is
  scanErr,        \* the error each source's goroutine is returning, if any
  emitted,        \* the chunks each connector has handed to emit
  loaded,         \* how often each of them was inserted
  warned,         \* how often its warning was appended to warnings
  mu,             \* the holder of streamSources' mutex
  ctxDone,        \* the caller cancelled the run's context
  groupErr,       \* the error group's recorded error
  groupCancelled, \* the error group cancelled gctx
  err,            \* the error RunWithParams returns
  result          \* the result RunWithParams returns

mainVars  == <<main, next, err, result>>
dbVars    == <<db, attached, tables>>
dataVars  == <<emitted, loaded, warned>>
groupVars == <<groupErr, groupCancelled>>
vars == <<mainVars, dbVars, scan, scanErr, dataVars, mu, ctxDone, groupVars>>

MainState == {"parse", "open", "resolve", "attach", "create", "launch", "wait",
              "query", "querying", "close", "returned"}
ScanState == {"idle", "scanning", "emitting", "holding", "inserting", "aborting",
              "returning", "cancelling", "releasing", "done"}

\* gctx is done when the group cancelled it or its parent was cancelled.
\* Mutant: the scans are given ctx in place of gctx.
CallerDone == ctxDone
GroupDone == ctxDone \/ groupCancelled

\* The sources that hold a slot of the group's semaphore.
Active == {s \in Source : scan[s] \notin {"idle", "done"}}

\* The chunk the callback of source s is working on: the last one emitted.
Current(s) == emitted[s][Len(emitted[s])]

Init ==
  /\ main = "parse" /\ next = 1 /\ err = None /\ result = NoResult
  /\ db = "absent" /\ attached = {} /\ tables = {}
  /\ scan = [s \in Source |-> "idle"]
  /\ scanErr = [s \in Source |-> None]
  /\ emitted = [s \in Source |-> <<>>]
  /\ loaded = Untouched /\ warned = Untouched
  /\ mu = Unlocked
  /\ ctxDone = FALSE /\ groupErr = None /\ groupCancelled = FALSE

-----------------------------------------------------------------------------
(* The caller.                                                             *)

\* SIGINT or SIGTERM, or any caller that cancels ctx.
Cancel ==
  /\ ~ctxDone
  /\ main # "returned"
  /\ ctxDone' = TRUE
  /\ UNCHANGED <<mainVars, dbVars, scan, scanErr, dataVars, mu, groupVars>>

-----------------------------------------------------------------------------
(* The main goroutine.                                                     *)

\* An early return runs the deferred db.Close if the database was opened.
\* Mutant: the defer comes after the preparing loop.
DeferAfterLoop == IF main \in {"query", "querying", "wait"} THEN "close" ELSE "returned"
EarlyReturn == IF db = "open" THEN "close" ELSE "returned"

Fail(e) == err' = e /\ main' = EarlyReturn /\ UNCHANGED <<next, result>>

\* A call that was handed ctx fails for a reason of its own or because ctx is
\* done.
MayFail(e) == Fail(e) \/ (ctxDone /\ Fail("cancelled"))

MainOnly == UNCHANGED <<scan, scanErr, dataVars, mu, ctxDone, groupVars>>

GoTo(place) == main' = place /\ UNCHANGED <<next, err, result>>

Parse ==
  /\ main = "parse"
  /\ GoTo("open") \/ Fail("parse")
  /\ MainOnly /\ UNCHANGED dbVars

\* openDB; localdb.Open removes what it made when it fails, so a failure
\* leaves no database behind.
OpenDB ==
  /\ main = "open"
  /\ \/ GoTo("resolve") /\ db' = "open"
     \/ MayFail("open") /\ UNCHANGED db
  /\ MainOnly /\ UNCHANGED <<attached, tables>>

ResolveSources ==
  /\ main = "resolve"
  /\ GoTo("attach") \/ MayFail("resolve")
  /\ MainOnly /\ UNCHANGED dbVars

\* One turn of the preparing loop: Attach, which does nothing for a schema
\* already attached, ...
Attach ==
  /\ main = "attach" /\ next \in Source
  /\ \/ /\ attached' = attached \cup {SchemaOf[next]}
        /\ GoTo("create")
     \/ /\ SchemaOf[next] \notin attached
        /\ MayFail("attach")
        /\ UNCHANGED attached
  /\ MainOnly /\ UNCHANGED <<db, tables>>

\* ... then CreateTable.
CreateTable ==
  /\ main = "create" /\ next \in Source
  /\ \/ /\ tables' = tables \cup {next}
        /\ next' = next + 1
        /\ main' = "attach"
        /\ UNCHANGED <<err, result>>
     \/ MayFail("create") /\ UNCHANGED tables
  /\ MainOnly /\ UNCHANGED <<db, attached>>

\* Every table exists: streamSources begins.  Mutant: the scans of the first
\* schema start while the others are still to be attached.
PreparedOne == next > 1
Prepared == next \notin Source

StreamSources ==
  /\ main = "attach" /\ Prepared
  /\ main' = "launch" /\ next' = 1
  /\ UNCHANGED <<err, result>>
  /\ MainOnly /\ UNCHANGED dbVars

\* g.Go blocks until fewer than the limit are running, then starts the
\* goroutine of the next source.  Mutant: one slot too many.
SlotFreeOrLast == Cardinality(Active) <= maxConcurrentFetches
SlotFree == Cardinality(Active) < maxConcurrentFetches

Launch ==
  /\ main = "launch" /\ next \in Source
  /\ SlotFree
  /\ scan' = [scan EXCEPT ![next] = "scanning"]
  /\ next' = next + 1
  /\ UNCHANGED <<main, err, result, dbVars, scanErr, dataVars, mu, ctxDone, groupVars>>

LaunchedAll ==
  /\ main = "launch" /\ next \notin Source
  /\ GoTo("wait")
  /\ MainOnly /\ UNCHANGED dbVars

\* g.Wait returns the recorded error once every goroutine is done.  Mutant: it
\* returns at the first error.
DoneOrFailed == groupErr # None \/ \A s \in Source : scan[s] = "done"
AllDone == \A s \in Source : scan[s] = "done"

\* The error streamSources returns.  Mutant: gctx.Err() in place of g.Wait's.
ContextError == "cancelled"
WaitError == groupErr

Wait ==
  /\ main = "wait"
  /\ AllDone
  /\ IF groupErr = None THEN GoTo("query") ELSE Fail(WaitError)
  /\ groupCancelled' = TRUE
  /\ UNCHANGED <<dbVars, scan, scanErr, dataVars, mu, ctxDone, groupErr>>

QueryBegin ==
  /\ main = "query"
  /\ GoTo("querying")
  /\ MainOnly /\ UNCHANGED dbVars

\* The query's rows are computed from what is loaded; a done ctx can stop the
\* iteration, which rows.Err then reports.
QueryEnd ==
  /\ main = "querying"
  /\ \/ /\ result' = [ok |-> TRUE, loaded |-> loaded, warned |-> warned]
        /\ main' = "close"
        /\ UNCHANGED <<next, err>>
     \/ MayFail("query")
  /\ MainOnly /\ UNCHANGED dbVars

\* The deferred db.Close, whose error is dropped.
Close ==
  /\ main = "close"
  /\ GoTo("returned")
  /\ db' = "closed" /\ attached' = {} /\ tables' = {}
  /\ MainOnly

-----------------------------------------------------------------------------
(* The goroutine of source s.                                              *)

Goroutine(s, from, to) ==
  /\ scan[s] = from
  /\ scan' = [scan EXCEPT ![s] = to]
  /\ UNCHANGED <<mainVars, dbVars, ctxDone>>

\* The connector fetched a page and calls emit with it.
Emit(s) ==
  /\ Goroutine(s, "scanning", "emitting")
  /\ Len(emitted[s]) < MaxChunks
  /\ \E c \in Chunk : emitted' = [emitted EXCEPT ![s] = Append(@, c)]
  /\ UNCHANGED <<scanErr, loaded, warned, mu, groupVars>>

\* mu.Lock, and the chunk's warnings appended under it.  Mutant: no mutex.
LockTaken == TRUE
LockFree == mu = Unlocked

EmitLock(s) ==
  /\ Goroutine(s, "emitting", "holding")
  /\ LockFree
  /\ mu' = s
  /\ warned' = IF Current(s).warns
               THEN [warned EXCEPT ![s][Len(emitted[s])] = @ + 1]
               ELSE warned
  /\ UNCHANGED <<scanErr, emitted, loaded, groupVars>>

\* The deferred mu.Unlock.  Mutant: an explicit Unlock that the error returns
\* and the empty chunks pass by.
UnlockForgotten(s) == mu' = IF scan[s] = "inserting" THEN Unlocked ELSE mu
Unlock(s) == mu' = Unlocked

\* len(chunk.Rows) > 0.  Mutant: a chunk that warns is taken for empty.
RowsUnlessWarned(s) == Current(s).rows /\ ~Current(s).warns
HasRows(s) == Current(s).rows

\* A chunk without rows: emit returns nil.
EmitNoRows(s) ==
  /\ Goroutine(s, "holding", "scanning")
  /\ ~HasRows(s)
  /\ Unlock(s)
  /\ UNCHANGED <<scanErr, dataVars, groupVars>>

\* db.Insert begins its transaction.
InsertBegin(s) ==
  /\ Goroutine(s, "holding", "inserting")
  /\ HasRows(s)
  /\ ~GroupDone
  /\ UNCHANGED <<scanErr, dataVars, mu, groupVars>>

InsertCommit(s) ==
  /\ Goroutine(s, "inserting", "scanning")
  /\ loaded' = [loaded EXCEPT ![s][Len(emitted[s])] = @ + 1]
  /\ Unlock(s)
  /\ UNCHANGED <<scanErr, emitted, warned, groupVars>>

\* Insert returns an error of its own, or that of a done scanCtx; emit returns
\* it with the mutex released.
AbortEmit(s) ==
  /\ \/ scanErr' = [scanErr EXCEPT ![s] = "insert"]
     \/ GroupDone /\ scanErr' = [scanErr EXCEPT ![s] = "cancelled"]
  /\ Unlock(s)
  /\ UNCHANGED <<dataVars, groupVars>>

\* Insert refuses the chunk before it has a transaction: a row of the wrong
\* width, or BeginTx failed.
InsertRefuse(s) ==
  /\ Goroutine(s, "holding", "aborting")
  /\ HasRows(s)
  /\ AbortEmit(s)

\* A statement or the commit failed and the transaction is rolled back.
InsertFail(s) ==
  /\ Goroutine(s, "inserting", "aborting")
  /\ AbortEmit(s)

\* Scan propagates the error of emit.
EmitFailed(s) ==
  /\ Goroutine(s, "aborting", "returning")
  /\ UNCHANGED <<scanErr, dataVars, mu, groupVars>>

ScanSucceeds(s) ==
  /\ Goroutine(s, "scanning", "returning")
  /\ UNCHANGED <<scanErr, dataVars, mu, groupVars>>

\* The source fails: an HTTP status, a bad page, a missing filter.
ScanFails(s) ==
  /\ Goroutine(s, "scanning", "returning")
  /\ scanErr' = [scanErr EXCEPT ![s] = "source"]
  /\ UNCHANGED <<dataVars, mu, groupVars>>

\* The connector sees that its context is done.
ScanCancelled(s) ==
  /\ Goroutine(s, "scanning", "returning")
  /\ GroupDone
  /\ scanErr' = [scanErr EXCEPT ![s] = "cancelled"]
  /\ UNCHANGED <<dataVars, mu, groupVars>>

\* errgroup: the function returned nil, or its error is not the first (errOnce
\* lets one goroutine through and the others wait until it is finished).
GroupIgnore(s) ==
  /\ Goroutine(s, "returning", "releasing")
  /\ \/ scanErr[s] = None
     \/ groupErr # None /\ groupCancelled
  /\ UNCHANGED <<scanErr, dataVars, mu, groupVars>>

\* errgroup: the first error is recorded ...
GroupRecord(s) ==
  /\ Goroutine(s, "returning", "cancelling")
  /\ scanErr[s] # None /\ groupErr = None
  /\ groupErr' = scanErr[s]
  /\ UNCHANGED <<scanErr, dataVars, mu, groupCancelled>>

\* ... and then cancels gctx.
GroupCancel(s) ==
  /\ Goroutine(s, "cancelling", "releasing")
  /\ groupCancelled' = TRUE
  /\ UNCHANGED <<scanErr, dataVars, mu, groupErr>>

\* errgroup: the semaphore slot is given back.
GroupRelease(s) ==
  /\ Goroutine(s, "releasing", "done")
  /\ UNCHANGED <<scanErr, dataVars, mu, groupVars>>

-----------------------------------------------------------------------------
MainStep ==
  \/ Parse \/ OpenDB \/ ResolveSources \/ Attach \/ CreateTable \/ StreamSources
  \/ Launch \/ LaunchedAll \/ Wait \/ QueryBegin \/ QueryEnd \/ Close

\* The engine's side of a scan: the emit callback and the error group.
EngineStep(s) ==
  \/ EmitNoRows(s) \/ InsertBegin(s) \/ InsertCommit(s)
  \/ InsertRefuse(s) \/ InsertFail(s)
  \/ EmitFailed(s) \/ GroupIgnore(s) \/ GroupRecord(s) \/ GroupCancel(s)
  \/ GroupRelease(s)

\* The connector's side.
ConnectorStep(s) ==
  \/ Emit(s) \/ ScanSucceeds(s) \/ ScanFails(s) \/ ScanCancelled(s)

Next ==
  \/ Cancel
  \/ MainStep
  \/ \E s \in Source : EngineStep(s) \/ EmitLock(s) \/ ConnectorStep(s)
  \/ main = "returned" /\ UNCHANGED vars

Safety == Init /\ [][Next]_vars

\* What the Go runtime and the engine guarantee: goroutines run, a mutex in
\* starvation mode is handed to every waiter, and a connector whose context is
\* done returns.  Nothing is assumed of a connector that is not cancelled: its
\* request may hang.
EngineFairness ==
  /\ WF_vars(MainStep)
  /\ \A s \in Source : /\ WF_vars(EngineStep(s))
                       /\ SF_vars(EmitLock(s))
                       /\ WF_vars(ScanCancelled(s))

Spec == Safety /\ EngineFairness

-----------------------------------------------------------------------------
(* Properties.                                                             *)

\* Every variable keeps its type (engine.go's locals, the DB handle and the
\* error group).
TypeOK ==
  /\ main \in MainState
  /\ next \in 1..(NumSources + 1)
  /\ db \in {"absent", "open", "closed"}
  /\ attached \subseteq Schemas
  /\ tables \subseteq Source
  /\ scan \in [Source -> ScanState]
  /\ scanErr \in [Source -> Failure \cup {None}]
  /\ emitted \in [Source -> Seq(Chunk)]
  /\ \A s \in Source : Len(emitted[s]) <= MaxChunks
  /\ loaded \in Tally /\ warned \in Tally
  /\ mu \in Source \cup {Unlocked}
  /\ ctxDone \in BOOLEAN
  /\ groupErr \in Failure \cup {None}
  /\ groupCancelled \in BOOLEAN
  /\ err \in Failure \cup {None}
  /\ result \in Result

\* The goroutines inside a call on the database.
DBCallers ==
  {s \in Source : scan[s] = "inserting"}
    \cup (IF main \in {"resolve", "attach", "create", "querying", "close"}
          THEN {0} ELSE {})

\* The DB is used by one goroutine at a time, as the DB interface asks
\* (engine/db.go: "The engine serializes Insert calls"; streamSources: "the DB
\* is not required to be safe for concurrent writes"): inserts exclude each
\* other, and no table is created, no query run and the database not closed
\* while a scan can still insert.
DBSerialized == \A a, b \in DBCallers : a = b

\* An insert finds its database open, its schema attached and its table created
\* (RunWithParams prepares every table before streamSources starts a scan, and
\* closes the database only after the last one).
InsertFindsTable ==
  \A s \in Source :
    scan[s] \in {"scanning", "emitting", "holding", "inserting"} =>
      db = "open" /\ s \in tables /\ SchemaOf[s] \in attached

\* How often chunk i of source s should be loaded (for its rows) or recorded
\* (for its warnings): once if it was emitted and has any.
ExpectedRows(s, i) ==
  IF i <= Len(emitted[s]) /\ emitted[s][i].rows THEN 1 ELSE 0

ExpectedWarnings(s, i) ==
  IF i <= Len(emitted[s]) /\ emitted[s][i].warns THEN 1 ELSE 0

\* A result is complete: every chunk with rows that any connector emitted was
\* loaded exactly once before the query ran, and every warning was gathered
\* exactly once, whatever the interleaving of the scans (RunWithParams returns
\* either the whole answer or an error).
ResultComplete ==
  result.ok =>
    /\ \A s \in Source : scan[s] = "done" /\ scanErr[s] = None
    /\ \A s \in Source, i \in Position :
         /\ result.loaded[s][i] = ExpectedRows(s, i)
         /\ result.warned[s][i] = ExpectedWarnings(s, i)

\* A cancellation the engine itself caused is never reported in place of the
\* error that caused it: a run fails with "cancelled" only if its caller
\* cancelled it (streamSources: "The first error cancels the remaining
\* scans").
RootCauseReported == err = "cancelled" => ctxDone

\* At most maxConcurrentFetches sources are fetched at once.
FetchesBounded == Cardinality(Active) <= maxConcurrentFetches

\* No goroutine outlives its run, and no run leaves its database behind: when
\* RunWithParams returns, every scan it started is done and the database it
\* opened is closed (the deferred db.Close, main.go: "the deferred cleanup
\* ... still runs").
NothingLeftBehind ==
  main = "returned" =>
    /\ db # "open"
    /\ \A s \in Source : scan[s] \in {"idle", "done"}

\* The first error is final: once the group has recorded an error nothing
\* replaces it, and the run reports exactly it.
FirstErrorWins ==
  [][groupErr # None => /\ groupErr' = groupErr
                        /\ err' # err => err' = groupErr]_vars

-----------------------------------------------------------------------------
(* Why the safety properties hold: the inductive invariant.                *)

Starting == {"parse", "open", "resolve", "attach", "create"}

\* Where the goroutines can be while the main goroutine is where it is.
GoroutinesFollowMain ==
  \A s \in Source :
    /\ main \in Starting => scan[s] = "idle"
    /\ main = "launch" => (scan[s] = "idle" <=> s >= next)
    /\ main = "wait" => scan[s] # "idle"
    /\ main \in {"query", "querying"} => scan[s] = "done" /\ scanErr[s] = None
    /\ main \in {"close", "returned"} => scan[s] \in {"idle", "done"}
    /\ result.ok => scan[s] = "done" /\ scanErr[s] = None

\* The database is open from OpenDB to Close.
DatabaseFollowsMain ==
  /\ main \in {"parse", "open"} => db = "absent"
  /\ main \in MainState \ {"parse", "open", "returned"} => db = "open"
  /\ main = "returned" => db # "open"

\* The preparing loop has made the tables it has passed.
TablesFollowMain ==
  /\ main \in {"parse", "open", "resolve"} => next = 1
  /\ main = "create" => next \in Source /\ SchemaOf[next] \in attached
  /\ \A s \in Source :
       \/ main \in {"attach", "create"} /\ s < next
       \/ main \in {"launch", "wait", "query", "querying"}
       => s \in tables /\ SchemaOf[s] \in attached

\* The mutex is held exactly by the callback that is between Lock and Unlock.
MutexHeld == \A s \in Source : scan[s] \in {"holding", "inserting"} <=> mu = s

\* What a goroutine has to show for where it is.
GoroutineData ==
  \A s \in Source :
    /\ scan[s] \in {"idle", "scanning", "emitting", "holding", "inserting"} =>
         scanErr[s] = None
    /\ scan[s] \in {"aborting", "cancelling"} => scanErr[s] # None
    /\ scan[s] \in {"emitting", "holding", "inserting"} => Len(emitted[s]) > 0
    /\ scan[s] = "inserting" => Current(s).rows

\* The chunks of s whose warnings are recorded, and those that are loaded.
Recorded(s) == IF scan[s] = "emitting" THEN Len(emitted[s]) - 1 ELSE Len(emitted[s])
Settled(s) == IF scan[s] \in {"emitting", "holding", "inserting"}
              THEN Len(emitted[s]) - 1 ELSE Len(emitted[s])

ChunksAccounted ==
  \A s \in Source, i \in Position :
    /\ warned[s][i] = IF i <= Recorded(s) /\ emitted[s][i].warns THEN 1 ELSE 0
    /\ \/ loaded[s][i] = IF i <= Settled(s) /\ emitted[s][i].rows THEN 1 ELSE 0
       \/ scanErr[s] # None

\* The run has an error exactly when it is on its way out without a result.
RunOutcome ==
  /\ main \notin {"close", "returned"} => err = None /\ ~result.ok
  /\ main \in {"close", "returned"} => (result.ok <=> err = None)
  /\ err = "cancelled" => ctxDone
  /\ \A s \in Source, i \in Position :
       result.ok => /\ result.loaded[s][i] = ExpectedRows(s, i)
                    /\ result.warned[s][i] = ExpectedWarnings(s, i)

\* A goroutine fails with "cancelled" only after the caller cancelled or after
\* the group recorded an error, and the group cancels only after recording.
GroupErrors ==
  /\ main \in Starting \cup {"query", "querying"} => groupErr = None
  /\ main \in Starting => ~groupCancelled
  /\ main \in {"launch", "wait"} /\ groupCancelled => groupErr # None
  /\ groupErr = "cancelled" => ctxDone
  /\ \A s \in Source :
       /\ scanErr[s] = "cancelled" => ctxDone \/ groupErr # None
       /\ scan[s] \in {"cancelling", "releasing", "done"} /\ scanErr[s] # None =>
            groupErr # None

\* The inductive invariant of RunWithParams and streamSources: from it follow
\* all the safety properties above.
IInv ==
  /\ TypeOK
  /\ GoroutinesFollowMain
  /\ DatabaseFollowsMain
  /\ TablesFollowMain
  /\ MutexHeld
  /\ GoroutineData
  /\ ChunksAccounted
  /\ RunOutcome
  /\ GroupErrors
  /\ FetchesBounded

-----------------------------------------------------------------------------
(* The contract, and what must eventually happen.                          *)

\* The run as its caller sees it.
Outcome == IF err # None THEN "failed" ELSE IF result.ok THEN "answered" ELSE "pending"

Succeeded(s) == scanErr[s] = None /\ scan[s] \in {"returning", "releasing", "done"}

Contract == INSTANCE QueryContract WITH
  delivered <- emitted,
  complete <- {s \in Source : Succeeded(s)},
  outcome <- Outcome,
  answer <- result,
  files <- db = "open",
  returned <- main = "returned"

\* The run implements its contract: seen from outside, the goroutines, the lock
\* and the error group of RunWithParams are one answer or one failure.
ImplementsContract == Contract!Spec

\* A cancelled run returns, even if every connector would otherwise hang
\* (main.go: "Cancel the root context on Ctrl-C / SIGTERM so in-flight
\* connector scans stop").
CancelReturns == ctxDone ~> main = "returned"

\* A failed source ends the run, even if the other connectors hang
\* (streamSources: "The first error cancels the remaining scans").
FailureReturns == (groupErr # None) ~> main = "returned"

\* Every run returns when every scan goes on to a next page or to an end, as the
\* connectors' own time limits make it.
RunReturns == (\A s \in Source : WF_vars(ConnectorStep(s))) => <>(main = "returned")

=============================================================================
