--------------------------- MODULE QueryRunProofs ---------------------------
(***************************************************************************)
(* Proofs about QueryRun, for any number of sources, any assignment of them *)
(* to schemas, any limit on the concurrent fetches and any number of chunks.*)
(***************************************************************************)
EXTENDS QueryRun, FiniteSetTheorems, TLAPS

USE DEF Source, Chunk, None, Unlocked, EarlyReturn, Prepared, SlotFree, AllDone, LockFree,
        Unlock, HasRows, WaitError

LEMMA TypeOKInit == Init => TypeOK
<1> SUFFICES ASSUME Init PROVE TypeOK OBVIOUS
<1>1. Untouched \in Tally
  BY DEF Untouched, Tally, Position
<1>2. NoResult \in Result
  BY <1>1 DEF NoResult, Result
<1>3. \A s \in Source : emitted[s] \in Seq(Chunk) /\ Len(emitted[s]) <= MaxChunks
  BY LimitAssumption DEF Init
<1>4. /\ next \in 1..(NumSources + 1)
      /\ emitted \in [Source -> Seq(Chunk)]
      /\ loaded \in Tally /\ warned \in Tally
      /\ result \in Result
  BY <1>1, <1>2, <1>3, SourceAssumption DEF Init
<1> QED
  BY <1>3, <1>4 DEF Init, TypeOK, MainState, ScanState, Failure

LEMMA TypeOKMain == TypeOK /\ MainStep => TypeOK'
<1> SUFFICES ASSUME TypeOK, MainStep PROVE TypeOK' OBVIOUS
<1> USE SourceAssumption DEF TypeOK, MainOnly, GoTo, Fail, MayFail, mainVars, dbVars,
        dataVars, groupVars, MainState, Failure
<1>1. CASE Parse BY <1>1 DEF Parse
<1>2. CASE OpenDB BY <1>2 DEF OpenDB
<1>3. CASE ResolveSources BY <1>3 DEF ResolveSources
<1>4. CASE Attach BY <1>4 DEF Attach
<1>5. CASE CreateTable
  <2>1. CASE /\ tables' = tables \cup {next} /\ next' = next + 1
             /\ main' = "attach" /\ UNCHANGED <<err, result>>
    BY <1>5, <2>1 DEF CreateTable
  <2>2. CASE MayFail("create") /\ UNCHANGED tables
    BY <1>5, <2>2 DEF CreateTable
  <2> QED BY <1>5, <2>1, <2>2 DEF CreateTable
<1>6. CASE StreamSources BY <1>6 DEF StreamSources
<1>7. CASE Launch BY <1>7 DEF Launch, ScanState
<1>8. CASE LaunchedAll BY <1>8 DEF LaunchedAll
<1>9. CASE Wait BY <1>9 DEF Wait
<1>10. CASE QueryBegin BY <1>10 DEF QueryBegin
<1>11. CASE QueryEnd
  <2>1. [ok |-> TRUE, loaded |-> loaded, warned |-> warned] \in Result
    BY DEF Result
  <2>2. CASE /\ result' = [ok |-> TRUE, loaded |-> loaded, warned |-> warned]
             /\ main' = "close" /\ UNCHANGED <<next, err>>
    BY <1>11, <2>1, <2>2 DEF QueryEnd
  <2>3. CASE MayFail("query")
    BY <1>11, <2>3 DEF QueryEnd
  <2> QED BY <1>11, <2>2, <2>3 DEF QueryEnd
<1>12. CASE Close BY <1>12 DEF Close
<1> QED
  BY <1>1, <1>2, <1>3, <1>4, <1>5, <1>6, <1>7, <1>8, <1>9, <1>10, <1>11, <1>12
  DEF MainStep

\* Counting a chunk once more keeps a tally a tally.
LEMMA TallyIncrement ==
  ASSUME NEW t \in Tally, NEW s \in Source, NEW k
  PROVE  [t EXCEPT ![s][k] = @ + 1] \in Tally
<1>1. t[s] \in [Position -> Nat] BY DEF Tally
<1> DEFINE u == [t[s] EXCEPT ![k] = @ + 1]
<1>2. u \in [Position -> Nat]
  <2>1. ASSUME NEW i \in Position PROVE u[i] \in Nat
    <3>1. t[s][i] \in Nat BY <1>1
    <3>2. u[i] = IF i = k THEN t[s][i] + 1 ELSE t[s][i] BY <1>1
    <3> QED BY <3>1, <3>2
  <2>2. u = [i \in Position |-> u[i]] BY <1>1
  <2> QED BY <2>1, <2>2
<1>3. [t EXCEPT ![s][k] = @ + 1] = [t EXCEPT ![s] = [t[s] EXCEPT ![k] = @ + 1]]
  OBVIOUS
<1> QED BY <1>2, <1>3 DEF Tally

LEMMA TypeOKGoroutine ==
  ASSUME TypeOK, NEW s \in Source, EngineStep(s) \/ EmitLock(s) \/ ConnectorStep(s)
  PROVE  TypeOK'
<1> USE DEF TypeOK, Goroutine, mainVars, dbVars, dataVars, groupVars, ScanState, Failure
<1>1. CASE Emit(s)
  <2>1. PICK c \in Chunk : emitted' = [emitted EXCEPT ![s] = Append(@, c)]
    BY <1>1 DEF Emit
  <2>2. /\ Append(emitted[s], c) \in Seq(Chunk)
        /\ Len(Append(emitted[s], c)) = Len(emitted[s]) + 1
    BY <2>1
  <2>3. Len(emitted[s]) + 1 <= MaxChunks
    BY <1>1, LimitAssumption DEF Emit
  <2> QED BY <1>1, <2>1, <2>2, <2>3 DEF Emit
<1>2. CASE EmitLock(s)
  <2>1. warned' \in Tally
    BY <1>2, TallyIncrement DEF EmitLock
  <2> QED BY <1>2, <2>1 DEF EmitLock
<1>3. CASE EmitNoRows(s) BY <1>3 DEF EmitNoRows
<1>4. CASE InsertBegin(s) BY <1>4 DEF InsertBegin
<1>5. CASE InsertCommit(s)
  <2>1. loaded' \in Tally
    BY <1>5, TallyIncrement DEF InsertCommit
  <2> QED BY <1>5, <2>1 DEF InsertCommit
<1>6. CASE InsertRefuse(s) BY <1>6 DEF InsertRefuse, AbortEmit
<1>15. CASE InsertFail(s) BY <1>15 DEF InsertFail, AbortEmit
<1>7. CASE EmitFailed(s) BY <1>7 DEF EmitFailed
<1>8. CASE ScanSucceeds(s) BY <1>8 DEF ScanSucceeds
<1>9. CASE ScanFails(s) BY <1>9 DEF ScanFails
<1>10. CASE ScanCancelled(s) BY <1>10 DEF ScanCancelled
<1>11. CASE GroupIgnore(s) BY <1>11 DEF GroupIgnore
<1>12. CASE GroupRecord(s) BY <1>12 DEF GroupRecord
<1>13. CASE GroupCancel(s) BY <1>13 DEF GroupCancel
<1>14. CASE GroupRelease(s) BY <1>14 DEF GroupRelease
<1> QED
  BY <1>1, <1>2, <1>3, <1>4, <1>5, <1>6, <1>7, <1>8, <1>9, <1>10, <1>11, <1>12, <1>13, <1>14, <1>15
  DEF EngineStep, ConnectorStep

\* Every variable of a run keeps its type (QueryRun's TypeOK, for every value of
\* the constants).
THEOREM TypeCorrect == Spec => []TypeOK
<1>1. TypeOK /\ [Next]_vars => TypeOK'
  <2> SUFFICES ASSUME TypeOK, [Next]_vars PROVE TypeOK' OBVIOUS
  <2>1. CASE Cancel
    BY <2>1 DEF Cancel, TypeOK, mainVars, dbVars, dataVars, groupVars
  <2>2. CASE UNCHANGED vars
    BY <2>2 DEF vars, TypeOK, mainVars, dbVars, dataVars, groupVars
  <2> QED
    BY <2>1, <2>2, TypeOKMain, TypeOKGoroutine DEF Next
<1> QED
  BY <1>1, TypeOKInit, PTL DEF Spec, Safety
-----------------------------------------------------------------------------
(* What the steps of each side leave alone.                                *)

GoroutineStep(s) == EngineStep(s) \/ EmitLock(s) \/ ConnectorStep(s)

LEMMA MainFrame ==
  ASSUME MainStep
  PROVE  /\ UNCHANGED <<scanErr, dataVars, mu, ctxDone, groupErr>>
         /\ Launch \/ UNCHANGED scan
         /\ \/ UNCHANGED scan
            \/ /\ main = "launch" /\ next \in Source
               /\ scan' = [scan EXCEPT ![next] = "scanning"]
         /\ main # "wait" => UNCHANGED groupCancelled
<1> USE DEF MainOnly, groupVars
<1>1. CASE Launch \/ Wait BY <1>1 DEF Launch, Wait
<1>2. CASE Parse \/ OpenDB \/ ResolveSources \/ Attach \/ CreateTable \/ StreamSources
  BY <1>2 DEF Parse, OpenDB, ResolveSources, Attach, CreateTable, StreamSources
<1>3. CASE LaunchedAll \/ QueryBegin \/ QueryEnd \/ Close
  BY <1>3 DEF LaunchedAll, QueryBegin, QueryEnd, Close
<1> QED BY <1>1, <1>2, <1>3 DEF MainStep

LEMMA GoroutineFrame ==
  ASSUME TypeOK, NEW s \in Source, GoroutineStep(s)
  PROVE  /\ UNCHANGED <<mainVars, dbVars, ctxDone>>
         /\ scan[s] \notin {"idle", "done"}
         /\ \E to \in ScanState \ {"idle"} : scan' = [scan EXCEPT ![s] = to]
<1> USE DEF Goroutine, ScanState
<1>1. CASE ConnectorStep(s) \/ EmitLock(s)
  BY <1>1 DEF ConnectorStep, EmitLock, Emit, ScanSucceeds, ScanFails, ScanCancelled
<1>2. CASE EmitNoRows(s) \/ InsertBegin(s) \/ InsertCommit(s) \/ InsertRefuse(s) \/ InsertFail(s)
  BY <1>2 DEF EmitNoRows, InsertBegin, InsertCommit, InsertRefuse, InsertFail
<1>3. CASE EmitFailed(s) \/ GroupIgnore(s) \/ GroupRecord(s) \/ GroupCancel(s) \/ GroupRelease(s)
  BY <1>3 DEF EmitFailed, GroupIgnore, GroupRecord, GroupCancel, GroupRelease
<1> QED BY <1>1, <1>2, <1>3 DEF GoroutineStep, EngineStep

\* A goroutine that is at work was launched and has not been waited for.
LEMMA AtWork ==
  ASSUME TypeOK, GoroutinesFollowMain, NEW s \in Source, scan[s] \notin {"idle", "done"}
  PROVE  main \in {"launch", "wait"}
BY DEF TypeOK, GoroutinesFollowMain, MainState, Starting

-----------------------------------------------------------------------------
(* Each part of the inductive invariant, under each side's steps.          *)

LEMMA GoroutinesFollowMainMain == IInv /\ MainStep => GoroutinesFollowMain'
<1> SUFFICES ASSUME IInv, MainStep PROVE GoroutinesFollowMain' OBVIOUS
<1> USE MainFrame, SourceAssumption
    DEF IInv, TypeOK, GoroutinesFollowMain, RunOutcome, GoroutineData, GoTo, Fail, MayFail,
        MainState, Starting
<1>1. CASE Parse \/ OpenDB \/ ResolveSources
  BY <1>1 DEF Parse, OpenDB, ResolveSources
<1>2. CASE Attach \/ CreateTable \/ StreamSources
  BY <1>2 DEF Attach, CreateTable, StreamSources
<1>3. CASE Launch BY <1>3 DEF Launch
<1>4. CASE LaunchedAll
  <2>1. next = NumSources + 1 BY <1>4 DEF LaunchedAll
  <2>2. \A s \in Source : ~(s >= next) BY <2>1
  <2> QED BY <1>4, <2>2 DEF LaunchedAll, MainOnly
<1>5. CASE Wait BY <1>5 DEF Wait, GroupErrors
<1>6. CASE QueryBegin \/ QueryEnd \/ Close
  BY <1>6 DEF QueryBegin, QueryEnd, Close
<1> QED BY <1>1, <1>2, <1>3, <1>4, <1>5, <1>6 DEF MainStep

LEMMA GoroutinesFollowMainGoroutine ==
  ASSUME IInv, NEW s \in Source, GoroutineStep(s)
  PROVE  GoroutinesFollowMain'
<1>1. main \in {"launch", "wait"} /\ ~result.ok
  BY GoroutineFrame, AtWork DEF IInv, RunOutcome
<1> QED
  BY <1>1, GoroutineFrame DEF IInv, TypeOK, GoroutinesFollowMain, mainVars, Starting

LEMMA DatabaseFollowsMainMain == IInv /\ MainStep => DatabaseFollowsMain'
<1> SUFFICES ASSUME IInv, MainStep PROVE DatabaseFollowsMain' OBVIOUS
<1> USE DEF IInv, TypeOK, DatabaseFollowsMain, GoTo, Fail, MayFail, dbVars, MainState
<1>1. CASE Parse \/ OpenDB \/ ResolveSources
  BY <1>1 DEF Parse, OpenDB, ResolveSources
<1>2. CASE Attach \/ CreateTable \/ StreamSources
  BY <1>2 DEF Attach, CreateTable, StreamSources
<1>3. CASE Launch \/ LaunchedAll \/ Wait BY <1>3 DEF Launch, LaunchedAll, Wait
<1>4. CASE QueryBegin \/ QueryEnd \/ Close BY <1>4 DEF QueryBegin, QueryEnd, Close
<1> QED BY <1>1, <1>2, <1>3, <1>4 DEF MainStep

LEMMA TablesFollowMainMain == IInv /\ MainStep => TablesFollowMain'
<1> SUFFICES ASSUME IInv, MainStep PROVE TablesFollowMain' OBVIOUS
<1> USE SourceAssumption
    DEF IInv, TypeOK, TablesFollowMain, GoTo, Fail, MayFail, dbVars, MainState
<1>1. CASE Parse BY <1>1 DEF Parse
<1>2. CASE OpenDB BY <1>2 DEF OpenDB
<1>3. CASE ResolveSources BY <1>3 DEF ResolveSources
<1>4. CASE Attach BY <1>4 DEF Attach
<1>5. CASE CreateTable BY <1>5 DEF CreateTable
<1>6. CASE StreamSources BY <1>6 DEF StreamSources
<1>7. CASE Launch \/ LaunchedAll \/ Wait BY <1>7 DEF Launch, LaunchedAll, Wait
<1>8. CASE QueryBegin \/ QueryEnd \/ Close BY <1>8 DEF QueryBegin, QueryEnd, Close
<1> QED BY <1>1, <1>2, <1>3, <1>4, <1>5, <1>6, <1>7, <1>8 DEF MainStep

LEMMA DBGoroutine ==
  ASSUME IInv, NEW s \in Source, GoroutineStep(s)
  PROVE  DatabaseFollowsMain' /\ TablesFollowMain'
BY GoroutineFrame DEF IInv, DatabaseFollowsMain, TablesFollowMain, mainVars, dbVars

\* A goroutine the main goroutine starts was idle.
LEMMA LaunchFrame ==
  ASSUME IInv, MainStep
  PROVE  \/ UNCHANGED scan
         \/ /\ next \in Source /\ scan[next] = "idle" /\ scan \in [Source -> ScanState]
            /\ scan' = [scan EXCEPT ![next] = "scanning"]
BY MainFrame DEF IInv, TypeOK, GoroutinesFollowMain

LEMMA MutexHeldMain == IInv /\ MainStep => MutexHeld'
<1> SUFFICES ASSUME IInv, MainStep PROVE MutexHeld' OBVIOUS
<1>1. MutexHeld /\ UNCHANGED mu BY MainFrame DEF IInv
<1> QED BY <1>1, LaunchFrame DEF MutexHeld

LEMMA MutexHeldGoroutine ==
  ASSUME IInv, NEW s \in Source, GoroutineStep(s)
  PROVE  MutexHeld'
<1> USE DEF IInv, TypeOK, MutexHeld, Goroutine
<1>1. CASE Emit(s) \/ ScanSucceeds(s) \/ ScanFails(s) \/ ScanCancelled(s)
  BY <1>1 DEF Emit, ScanSucceeds, ScanFails, ScanCancelled
<1>2. CASE EmitLock(s) BY <1>2 DEF EmitLock
<1>3. CASE EmitNoRows(s) BY <1>3 DEF EmitNoRows
<1>4. CASE InsertBegin(s) BY <1>4 DEF InsertBegin
<1>6. CASE InsertCommit(s) BY <1>6 DEF InsertCommit
<1>7. CASE InsertRefuse(s) BY <1>7 DEF InsertRefuse, AbortEmit
<1>8. CASE InsertFail(s) BY <1>8 DEF InsertFail, AbortEmit
<1>5. CASE EmitFailed(s) \/ GroupIgnore(s) \/ GroupRecord(s) \/ GroupCancel(s) \/ GroupRelease(s)
  BY <1>5 DEF EmitFailed, GroupIgnore, GroupRecord, GroupCancel, GroupRelease
<1> QED
  BY <1>1, <1>2, <1>3, <1>4, <1>5, <1>6, <1>7, <1>8 DEF GoroutineStep, EngineStep, ConnectorStep

LEMMA GoroutineDataMain == IInv /\ MainStep => GoroutineData'
<1> SUFFICES ASSUME IInv, MainStep PROVE GoroutineData' OBVIOUS
<1>1. GoroutineData /\ UNCHANGED <<scanErr, emitted>> BY MainFrame DEF IInv, dataVars
<1> QED BY <1>1, LaunchFrame DEF GoroutineData, Current

LEMMA GoroutineDataGoroutine ==
  ASSUME IInv, NEW s \in Source, GoroutineStep(s)
  PROVE  GoroutineData'
<1> USE DEF IInv, TypeOK, GoroutineData, Goroutine, Current, dataVars
<1>1. CASE Emit(s) BY <1>1 DEF Emit
<1>2. CASE ScanSucceeds(s) \/ ScanFails(s) \/ ScanCancelled(s)
  BY <1>2 DEF ScanSucceeds, ScanFails, ScanCancelled
<1>3. CASE EmitLock(s) BY <1>3 DEF EmitLock
<1>4. CASE EmitNoRows(s) \/ InsertBegin(s) \/ InsertCommit(s)
  BY <1>4 DEF EmitNoRows, InsertBegin, InsertCommit
<1>5. CASE InsertRefuse(s) \/ InsertFail(s)
  BY <1>5 DEF InsertRefuse, InsertFail, AbortEmit
<1>6. CASE EmitFailed(s) \/ GroupIgnore(s) \/ GroupRecord(s) \/ GroupCancel(s) \/ GroupRelease(s)
  BY <1>6 DEF EmitFailed, GroupIgnore, GroupRecord, GroupCancel, GroupRelease
<1> QED
  BY <1>1, <1>2, <1>3, <1>4, <1>5, <1>6 DEF GoroutineStep, EngineStep, ConnectorStep

LEMMA RunOutcomeMain == IInv /\ MainStep => RunOutcome'
<1> SUFFICES ASSUME IInv, MainStep PROVE RunOutcome' OBVIOUS
<1> USE MainFrame
    DEF IInv, TypeOK, RunOutcome, GoTo, Fail, MayFail, MainState, dataVars,
        ExpectedRows, ExpectedWarnings
<1>1. CASE Parse \/ OpenDB \/ ResolveSources
  BY <1>1 DEF Parse, OpenDB, ResolveSources, DatabaseFollowsMain
<1>2. CASE Attach \/ CreateTable \/ StreamSources
  BY <1>2 DEF Attach, CreateTable, StreamSources, DatabaseFollowsMain
<1>3. CASE Launch \/ LaunchedAll BY <1>3 DEF Launch, LaunchedAll
<1>4. CASE Wait BY <1>4 DEF Wait, GroupErrors, DatabaseFollowsMain
<1>5. CASE QueryBegin \/ Close BY <1>5 DEF QueryBegin, Close
<1>6. CASE QueryEnd
  <2>1. CASE /\ result' = [ok |-> TRUE, loaded |-> loaded, warned |-> warned]
             /\ main' = "close" /\ UNCHANGED <<next, err>>
    <3>1. \A s \in Source : scan[s] = "done" /\ scanErr[s] = None
      BY <1>6 DEF QueryEnd, GoroutinesFollowMain
    <3>2. \A s \in Source, i \in Position :
            loaded[s][i] = ExpectedRows(s, i) /\ warned[s][i] = ExpectedWarnings(s, i)
      BY <3>1 DEF ChunksAccounted, Recorded, Settled
    <3> QED BY <1>6, <2>1, <3>2 DEF QueryEnd
  <2>2. CASE MayFail("query") BY <1>6, <2>2 DEF QueryEnd, DatabaseFollowsMain
  <2> QED BY <1>6, <2>1, <2>2 DEF QueryEnd
<1> QED BY <1>1, <1>2, <1>3, <1>4, <1>5, <1>6 DEF MainStep

LEMMA RunOutcomeGoroutine ==
  ASSUME IInv, NEW s \in Source, GoroutineStep(s)
  PROVE  RunOutcome'
<1>1. main \in {"launch", "wait"}
  BY GoroutineFrame, AtWork DEF IInv
<1> QED BY <1>1, GoroutineFrame DEF IInv, RunOutcome, mainVars

LEMMA GroupErrorsMain == IInv /\ MainStep => GroupErrors'
<1> SUFFICES ASSUME IInv, MainStep PROVE GroupErrors' OBVIOUS
<1> USE MainFrame, SourceAssumption
    DEF IInv, TypeOK, GroupErrors, GoroutinesFollowMain, GoTo, Fail, MayFail, Starting
<1>1. CASE Parse \/ OpenDB \/ ResolveSources
  BY <1>1 DEF Parse, OpenDB, ResolveSources
<1>2. CASE Attach \/ CreateTable \/ StreamSources
  BY <1>2 DEF Attach, CreateTable, StreamSources
<1>3. CASE Launch \/ LaunchedAll BY <1>3 DEF Launch, LaunchedAll
<1>4. CASE Wait BY <1>4 DEF Wait
<1>5. CASE QueryBegin \/ QueryEnd \/ Close BY <1>5 DEF QueryBegin, QueryEnd, Close
<1> QED BY <1>1, <1>2, <1>3, <1>4, <1>5 DEF MainStep

LEMMA GroupErrorsGoroutine ==
  ASSUME IInv, NEW s \in Source, GoroutineStep(s)
  PROVE  GroupErrors'
<1>1. main \in {"launch", "wait"} /\ UNCHANGED main /\ UNCHANGED ctxDone
  BY GoroutineFrame, AtWork DEF IInv, mainVars
<1> USE <1>1 DEF IInv, TypeOK, GroupErrors, GoroutineData, Goroutine, GroupDone, groupVars,
        Starting, Failure
<1>2. CASE Emit(s) BY <1>2 DEF Emit
<1>3. CASE ScanSucceeds(s) BY <1>3 DEF ScanSucceeds
<1>4. CASE ScanFails(s) BY <1>4 DEF ScanFails
<1>5. CASE ScanCancelled(s) BY <1>5 DEF ScanCancelled
<1>6. CASE EmitLock(s) BY <1>6 DEF EmitLock
<1>7. CASE EmitNoRows(s) BY <1>7 DEF EmitNoRows
<1>8. CASE InsertBegin(s) BY <1>8 DEF InsertBegin
<1>9. CASE InsertCommit(s) BY <1>9 DEF InsertCommit
<1>10. CASE InsertRefuse(s)
  <2>1. CASE scanErr' = [scanErr EXCEPT ![s] = "insert"]
    BY <1>10, <2>1 DEF InsertRefuse, AbortEmit
  <2>2. CASE GroupDone /\ scanErr' = [scanErr EXCEPT ![s] = "cancelled"]
    BY <1>10, <2>2 DEF InsertRefuse, AbortEmit
  <2> QED BY <1>10, <2>1, <2>2 DEF InsertRefuse, AbortEmit
<1>11. CASE InsertFail(s)
  <2>1. CASE scanErr' = [scanErr EXCEPT ![s] = "insert"]
    BY <1>11, <2>1 DEF InsertFail, AbortEmit
  <2>2. CASE GroupDone /\ scanErr' = [scanErr EXCEPT ![s] = "cancelled"]
    BY <1>11, <2>2 DEF InsertFail, AbortEmit
  <2> QED BY <1>11, <2>1, <2>2 DEF InsertFail, AbortEmit
<1>12. CASE EmitFailed(s) BY <1>12 DEF EmitFailed
<1>13. CASE GroupIgnore(s) BY <1>13 DEF GroupIgnore
<1>14. CASE GroupRelease(s) BY <1>14 DEF GroupRelease
<1>15. CASE GroupRecord(s) BY <1>15 DEF GroupRecord
<1>16. CASE GroupCancel(s) BY <1>16 DEF GroupCancel
<1> QED
  BY <1>2, <1>3, <1>4, <1>5, <1>6, <1>7, <1>8, <1>9, <1>10, <1>11, <1>12, <1>13, <1>14,
     <1>15, <1>16 DEF GoroutineStep, EngineStep, ConnectorStep

LEMMA ChunksAccountedMain == IInv /\ MainStep => ChunksAccounted'
<1> SUFFICES ASSUME IInv, MainStep PROVE ChunksAccounted' OBVIOUS
<1>1. ChunksAccounted /\ UNCHANGED <<scanErr, emitted, loaded, warned>>
  BY MainFrame DEF IInv, dataVars
<1> QED BY <1>1, LaunchFrame DEF ChunksAccounted, Recorded, Settled

\* What counting a chunk once more does to a tally.
LEMMA TallyAt ==
  ASSUME NEW t \in Tally, NEW s \in Source, NEW k \in Position,
         NEW r \in Source, NEW i \in Position
  PROVE  [t EXCEPT ![s][k] = @ + 1][r][i] =
           IF r = s /\ i = k THEN t[r][i] + 1 ELSE t[r][i]
BY DEF Tally

LEMMA ChunksAccountedGoroutine ==
  ASSUME IInv, NEW s \in Source, GoroutineStep(s)
  PROVE  ChunksAccounted'
<1> USE DEF Goroutine, dataVars
<1>1. /\ TypeOK /\ ChunksAccounted /\ GoroutineData
      /\ scan \in [Source -> ScanState] /\ emitted \in [Source -> Seq(Chunk)]
  BY DEF IInv, TypeOK
<1>2. scan[s] \in {"emitting", "holding", "inserting"} => Len(emitted[s]) \in Position
  BY <1>1 DEF GoroutineData, TypeOK, Position
<1>3. scan[s] \in {"scanning", "emitting", "holding", "inserting"} => scanErr[s] = None
  BY <1>1 DEF GoroutineData
<1> SUFFICES ASSUME NEW r \in Source, NEW i \in Position
             PROVE  /\ warned'[r][i] =
                         IF i <= Recorded(r)' /\ emitted'[r][i].warns THEN 1 ELSE 0
                    /\ \/ loaded'[r][i] =
                            IF i <= Settled(r)' /\ emitted'[r][i].rows THEN 1 ELSE 0
                       \/ scanErr'[r] # None
  BY DEF ChunksAccounted
<1>4. /\ warned[r][i] = IF i <= Recorded(r) /\ emitted[r][i].warns THEN 1 ELSE 0
      /\ \/ loaded[r][i] = IF i <= Settled(r) /\ emitted[r][i].rows THEN 1 ELSE 0
         \/ scanErr[r] # None
  BY <1>1 DEF ChunksAccounted
<1> USE <1>1, <1>4 DEF Recorded, Settled
<1>5. CASE Emit(s)
  <2>1. PICK c \in Chunk : emitted' = [emitted EXCEPT ![s] = Append(@, c)]
    BY <1>5 DEF Emit
  <2>2. emitted'[r] = IF r = s THEN Append(emitted[r], c) ELSE emitted[r]
    BY <2>1
  <2>3. /\ Len(Append(emitted[r], c)) = Len(emitted[r]) + 1
        /\ \A j \in 1..Len(emitted[r]) : Append(emitted[r], c)[j] = emitted[r][j]
    OBVIOUS
  <2> QED BY <1>5, <2>2, <2>3 DEF Emit, Position
<1>6. CASE EmitLock(s)
  <2>1. warned'[r][i] = IF r = s /\ i = Len(emitted[s]) /\ Current(s).warns
                        THEN warned[r][i] + 1 ELSE warned[r][i]
    BY <1>2, <1>6, TallyAt DEF EmitLock, TypeOK
  <2> QED BY <1>2, <1>6, <2>1 DEF EmitLock, Current, Position
<1>7. CASE EmitNoRows(s) BY <1>2, <1>7 DEF EmitNoRows, Current, Position
<1>8. CASE InsertBegin(s) BY <1>8 DEF InsertBegin
<1>9. CASE InsertCommit(s)
  <2>1. loaded'[r][i] = IF r = s /\ i = Len(emitted[s])
                        THEN loaded[r][i] + 1 ELSE loaded[r][i]
    BY <1>2, <1>9, TallyAt DEF InsertCommit, TypeOK
  <2>2. scan[s] = "inserting" => Current(s).rows
    BY DEF GoroutineData
  <2> QED BY <1>2, <1>3, <1>9, <2>1, <2>2 DEF InsertCommit, Current, Position
<1>10. CASE InsertRefuse(s) BY <1>10 DEF InsertRefuse, AbortEmit, TypeOK
<1>11. CASE InsertFail(s) BY <1>11 DEF InsertFail, AbortEmit, TypeOK
<1>12. CASE ScanSucceeds(s) BY <1>12 DEF ScanSucceeds
<1>13. CASE ScanFails(s) BY <1>13 DEF ScanFails, TypeOK
<1>14. CASE ScanCancelled(s) BY <1>14 DEF ScanCancelled, TypeOK
<1>15. CASE EmitFailed(s) BY <1>15 DEF EmitFailed
<1>16. CASE GroupIgnore(s) BY <1>16 DEF GroupIgnore
<1>17. CASE GroupRecord(s) BY <1>17 DEF GroupRecord
<1>18. CASE GroupCancel(s) BY <1>18 DEF GroupCancel
<1>19. CASE GroupRelease(s) BY <1>19 DEF GroupRelease
<1> QED
  BY <1>5, <1>6, <1>7, <1>8, <1>9, <1>10, <1>11, <1>12, <1>13, <1>14, <1>15, <1>16, <1>17,
     <1>18, <1>19 DEF GoroutineStep, EngineStep, ConnectorStep

\* The group never starts a goroutine beyond its limit.
LEMMA FetchesBoundedStep ==
  ASSUME IInv, [Next]_vars
  PROVE  FetchesBounded'
<1>1. IsFiniteSet(Source) /\ IsFiniteSet(Active)
  <2>1. IsFiniteSet(Source) BY FS_Interval, SourceAssumption
  <2> QED BY <2>1, FS_Subset DEF Active
<1>2. CASE Active' \subseteq Active
  <2>1. Cardinality(Active') <= Cardinality(Active) /\ IsFiniteSet(Active')
    BY <1>1, <1>2, FS_Subset
  <2>2. Cardinality(Active) \in Nat /\ Cardinality(Active') \in Nat
    BY <1>1, <2>1, FS_CardinalityType
  <2> QED BY <2>1, <2>2, LimitAssumption DEF IInv, FetchesBounded
<1>3. CASE Launch
  <2>1. Cardinality(Active) < maxConcurrentFetches BY <1>3 DEF Launch
  <2>2. Active' = Active \cup {next}
    BY <1>3 DEF Launch, Active, IInv, TypeOK, GoroutinesFollowMain
  <2>3. Cardinality(Active) \in Nat
    BY <1>1, FS_CardinalityType
  <2>4. \/ Cardinality(Active \cup {next}) = Cardinality(Active)
        \/ Cardinality(Active \cup {next}) = Cardinality(Active) + 1
    BY <1>1, FS_AddElement
  <2> QED BY <2>1, <2>2, <2>3, <2>4, LimitAssumption DEF FetchesBounded
<1>4. ASSUME NEW s \in Source, GoroutineStep(s) PROVE Active' \subseteq Active
  BY <1>4, GoroutineFrame DEF IInv, TypeOK, Active
<1>5. CASE MainStep
  BY <1>2, <1>3, <1>5, MainFrame DEF Active, MainStep
<1>6. CASE Cancel \/ UNCHANGED vars
  BY <1>2, <1>6 DEF Cancel, vars, Active
<1> QED
  BY <1>2, <1>4, <1>5, <1>6 DEF Next, GoroutineStep

-----------------------------------------------------------------------------
(* The inductive invariant and what follows from it.                       *)

LEMMA IInvInit == Init => IInv
<1> SUFFICES ASSUME Init PROVE IInv OBVIOUS
<1>1. TypeOK BY TypeOKInit
<1>2. Active = {} BY DEF Init, Active
<1>3. FetchesBounded BY <1>2, FS_EmptySet, LimitAssumption DEF FetchesBounded
<1>4. ChunksAccounted
  BY DEF Init, ChunksAccounted, Untouched, Recorded, Settled, Position
<1>5. RunOutcome BY DEF Init, RunOutcome, NoResult
<1>6. GoroutinesFollowMain /\ MutexHeld /\ GoroutineData
  BY DEF Init, GoroutinesFollowMain, MutexHeld, GoroutineData, Starting, NoResult
<1>7. DatabaseFollowsMain /\ TablesFollowMain /\ GroupErrors
  BY DEF Init, DatabaseFollowsMain, TablesFollowMain, GroupErrors, MainState
<1> QED BY <1>1, <1>3, <1>4, <1>5, <1>6, <1>7 DEF IInv

LEMMA IInvCancel == IInv /\ (Cancel \/ UNCHANGED vars) => IInv'
<1> SUFFICES ASSUME IInv, Cancel \/ UNCHANGED vars PROVE IInv' OBVIOUS
<1>1. /\ UNCHANGED <<mainVars, dbVars, scan, scanErr, dataVars, mu, groupVars>>
      /\ ctxDone' \in BOOLEAN /\ (ctxDone => ctxDone')
  BY DEF Cancel, vars, IInv, TypeOK
<1> USE <1>1 DEF mainVars, dbVars, dataVars, groupVars, IInv
<1>2. TypeOK' BY DEF TypeOK
<1>3. GoroutinesFollowMain' BY DEF GoroutinesFollowMain
<1>4. DatabaseFollowsMain' /\ TablesFollowMain' BY DEF DatabaseFollowsMain, TablesFollowMain
<1>5. MutexHeld' /\ GoroutineData' BY DEF MutexHeld, GoroutineData, Current
<1>6. ChunksAccounted' BY DEF ChunksAccounted, Recorded, Settled
<1>7. RunOutcome' /\ GroupErrors'
  BY DEF RunOutcome, GroupErrors, ExpectedRows, ExpectedWarnings
<1>8. FetchesBounded' BY DEF FetchesBounded, Active
<1> QED BY <1>2, <1>3, <1>4, <1>5, <1>6, <1>7, <1>8

LEMMA IInvNext == IInv /\ [Next]_vars => IInv'
<1> SUFFICES ASSUME IInv, [Next]_vars PROVE IInv' OBVIOUS
<1>1. FetchesBounded' BY FetchesBoundedStep
<1>2. CASE MainStep
  <2>1. TypeOK' BY <1>2, TypeOKMain DEF IInv
  <2> QED
    BY <1>1, <1>2, <2>1, GoroutinesFollowMainMain, DatabaseFollowsMainMain, TablesFollowMainMain,
       MutexHeldMain, GoroutineDataMain, ChunksAccountedMain, RunOutcomeMain, GroupErrorsMain
    DEF IInv
<1>3. ASSUME NEW s \in Source, GoroutineStep(s) PROVE IInv'
  <2>1. TypeOK' BY <1>3, TypeOKGoroutine DEF IInv, GoroutineStep
  <2> QED
    BY <1>1, <1>3, <2>1, GoroutinesFollowMainGoroutine, DBGoroutine, MutexHeldGoroutine,
       GoroutineDataGoroutine, ChunksAccountedGoroutine, RunOutcomeGoroutine,
       GroupErrorsGoroutine
    DEF IInv
<1>4. CASE Cancel \/ UNCHANGED vars BY <1>4, IInvCancel
<1> QED BY <1>2, <1>3, <1>4 DEF Next, GoroutineStep

\* Goroutines, database, tables, mutex, chunks and recorded errors are where the main
\* goroutine's position says, in every state of a run (RunWithParams, streamSources).
THEOREM EverythingInStep == Spec => []IInv
BY IInvInit, IInvNext, PTL DEF Spec, Safety

\* The database is never used by two goroutines at once, whatever the number of
\* sources and the limit (streamSources' mutex, and RunWithParams' order of
\* preparing, waiting, querying and closing).
THEOREM DatabaseSerialized == Spec => []DBSerialized
<1>1. IInv => DBSerialized
  <2> SUFFICES ASSUME IInv, NEW a \in DBCallers, NEW b \in DBCallers PROVE a = b
    BY DEF DBSerialized
  <2>1. CASE main \in {"launch", "wait"}
    BY <2>1 DEF IInv, MutexHeld, DBCallers
  <2>2. CASE main \notin {"launch", "wait"}
    BY <2>2, AtWork DEF IInv, DBCallers
  <2> QED BY <2>1, <2>2
<1> QED BY <1>1, EverythingInStep, PTL

\* Every insert finds the database open, the schema attached and the table
\* created (RunWithParams prepares before it streams and closes last).
THEOREM InsertsFindTables == Spec => []InsertFindsTable
<1>1. IInv => InsertFindsTable
  <2> SUFFICES ASSUME IInv, NEW s \in Source, scan[s] \notin {"idle", "done"}
               PROVE  db = "open" /\ s \in tables /\ SchemaOf[s] \in attached
    BY DEF InsertFindsTable
  <2>1. main \in {"launch", "wait"} BY AtWork DEF IInv
  <2> QED BY <2>1 DEF IInv, DatabaseFollowsMain, TablesFollowMain, MainState
<1> QED BY <1>1, EverythingInStep, PTL

\* A returned result holds every chunk every source emitted, each exactly once,
\* and every warning exactly once (Run's result is complete or there is none).
THEOREM ResultsComplete == Spec => []ResultComplete
<1>1. IInv => ResultComplete
  BY DEF IInv, ResultComplete, RunOutcome, GoroutinesFollowMain
<1> QED BY <1>1, EverythingInStep, PTL

\* The engine's own cancellation of the other scans is never what the caller is
\* told (errgroup's first error, streamSources).
THEOREM RootCauses == Spec => []RootCauseReported
<1>1. IInv => RootCauseReported BY DEF IInv, RootCauseReported, RunOutcome
<1> QED BY <1>1, EverythingInStep, PTL

\* At most maxConcurrentFetches sources are scanned at once, for any limit.
THEOREM FetchesAreBounded == Spec => []FetchesBounded
<1>1. IInv => FetchesBounded BY DEF IInv
<1> QED BY <1>1, EverythingInStep, PTL

\* When a run returns, its database is closed and none of its goroutines is left.
THEOREM LeavesNothingBehind == Spec => []NothingLeftBehind
<1>1. IInv => NothingLeftBehind
  BY DEF IInv, NothingLeftBehind, DatabaseFollowsMain, GoroutinesFollowMain
<1> QED BY <1>1, EverythingInStep, PTL

\* Once the group has recorded an error it is final, and it is what the run
\* reports (errgroup's errOnce, g.Wait).
THEOREM FirstErrorIsFinal == Spec => FirstErrorWins
<1>1. IInv /\ [Next]_vars =>
        [groupErr # None => groupErr' = groupErr /\ (err' # err => err' = groupErr)]_vars
  <2> SUFFICES ASSUME IInv, [Next]_vars, groupErr # None
               PROVE  groupErr' = groupErr /\ (err' # err => err' = groupErr)
    OBVIOUS
  <2>1. CASE Cancel \/ UNCHANGED vars
    BY <2>1 DEF Cancel, vars, mainVars, groupVars
  <2>2. ASSUME NEW s \in Source, GoroutineStep(s)
        PROVE  groupErr' = groupErr /\ UNCHANGED err
    <3>1. UNCHANGED err BY <2>2, GoroutineFrame DEF IInv, mainVars
    <3>2. CASE ConnectorStep(s) \/ EmitLock(s)
      BY <3>1, <3>2 DEF ConnectorStep, EmitLock, Emit, ScanSucceeds, ScanFails, ScanCancelled, groupVars
    <3>3. CASE EngineStep(s)
      BY <3>1, <3>3 DEF EngineStep, EmitNoRows, InsertBegin, InsertCommit, InsertRefuse, InsertFail,
         AbortEmit, EmitFailed, GroupIgnore, GroupRecord, GroupCancel, GroupRelease, groupVars
    <3> QED BY <2>2, <3>1, <3>2, <3>3 DEF GoroutineStep
  <2>3. CASE MainStep
    <3>1. groupErr' = groupErr BY <2>3, MainFrame
    <3>2. main \notin Starting \cup {"query", "querying"} BY DEF IInv, GroupErrors
    <3>3. main \in {"launch", "wait", "close", "returned"}
      BY <3>2 DEF IInv, TypeOK, MainState, Starting
    <3>4. CASE Wait BY <3>1, <3>4 DEF Wait, GoTo, Fail
    <3>5. CASE Launch \/ LaunchedAll \/ Close
      BY <3>1, <3>5 DEF Launch, LaunchedAll, Close, GoTo
    <3> QED
      BY <2>3, <3>3, <3>4, <3>5
      DEF MainStep, Parse, OpenDB, ResolveSources, Attach, CreateTable, StreamSources,
          QueryBegin, QueryEnd
  <2> QED BY <2>1, <2>2, <2>3 DEF Next, GoroutineStep
<1> QED BY <1>1, EverythingInStep, PTL DEF Spec, Safety, FirstErrorWins

-----------------------------------------------------------------------------
(* The run implements its contract.                                        *)

\* The contract does not see a step that changes nothing it looks at.
LEMMA ContractStutter ==
  ASSUME UNCHANGED <<emitted, err, result>>, (db = "open") = (db' = "open"),
         (main = "returned") = (main' = "returned"),
         \A s \in Source : Succeeded(s)' <=> Succeeded(s)
  PROVE  UNCHANGED Contract!vars
BY DEF Contract!vars, Outcome

\* A run that fails gives up, from wherever it is.
LEMMA ContractGivesUp ==
  ASSUME NEW e \in Failure, Fail(e), err = None, ~result.ok, UNCHANGED <<emitted, db>>,
         main # "returned",
         \A s \in Source : Succeeded(s)' <=> Succeeded(s)
  PROVE  Contract!GiveUp
<1>1. e # None BY DEF Failure
<1>2. {s \in Source : Succeeded(s)}' = {s \in Source : Succeeded(s)} OBVIOUS
<1> QED BY <1>1, <1>2 DEF Contract!GiveUp, Fail, Outcome

LEMMA ContractMain ==
  ASSUME IInv, MainStep
  PROVE  [Contract!Next]_(Contract!vars)
<1> USE DEF IInv, MayFail
<1>1. UNCHANGED <<scanErr, emitted>> /\ (\A s \in Source : Succeeded(s)' <=> Succeeded(s))
  <2>1. UNCHANGED <<scanErr, emitted>> BY MainFrame DEF dataVars
  <2> QED BY <2>1, LaunchFrame DEF Succeeded
<1>2. main \notin {"close", "returned"} => err = None /\ ~result.ok
  BY DEF RunOutcome
<1>3. ASSUME NEW e \in Failure, Fail(e), UNCHANGED db, main \notin {"close", "returned"}
      PROVE  [Contract!Next]_(Contract!vars)
  BY <1>1, <1>2, <1>3, ContractGivesUp DEF Contract!Next
<1>4. ASSUME NEW place \in MainState \ {"returned"}, GoTo(place), UNCHANGED db,
             main # "returned"
      PROVE  [Contract!Next]_(Contract!vars)
  BY <1>1, <1>4, ContractStutter DEF GoTo
<1> USE DEF MainState, Failure
<1>5. CASE Parse BY <1>3, <1>4, <1>5 DEF Parse, dbVars
<1>6. CASE OpenDB
  <2>1. CASE GoTo("resolve") /\ db' = "open"
    <3>1. Contract!Open
      BY <1>1, <1>2, <1>6, <2>1 DEF OpenDB, GoTo, Contract!Open, Outcome, DatabaseFollowsMain
    <3> QED BY <3>1 DEF Contract!Next
  <2>2. CASE MayFail("open") /\ UNCHANGED db
    BY <1>3, <1>6, <2>2 DEF OpenDB
  <2> QED BY <1>6, <2>1, <2>2 DEF OpenDB
<1>7. CASE ResolveSources BY <1>3, <1>4, <1>7 DEF ResolveSources, dbVars
<1>8. CASE Attach BY <1>3, <1>4, <1>8 DEF Attach
<1>9. CASE CreateTable
  <2>1. CASE main' = "attach" /\ UNCHANGED <<err, result>>
    BY <1>1, <1>9, <2>1, ContractStutter DEF CreateTable
  <2>2. CASE MayFail("create") BY <1>3, <1>9, <2>2 DEF CreateTable
  <2> QED BY <1>9, <2>1, <2>2 DEF CreateTable
<1>10. CASE StreamSources BY <1>1, <1>10, ContractStutter DEF StreamSources, dbVars
<1>11. CASE Launch BY <1>1, <1>11, ContractStutter DEF Launch, dbVars
<1>12. CASE LaunchedAll BY <1>4, <1>12 DEF LaunchedAll, dbVars
<1>13. CASE Wait
  <2>1. CASE groupErr = None BY <1>4, <1>13, <2>1 DEF Wait, dbVars
  <2>2. CASE groupErr # None
    <3>1. groupErr \in Failure BY <2>2 DEF TypeOK
    <3> QED BY <1>3, <1>13, <2>2, <3>1 DEF Wait, dbVars
  <2> QED BY <2>1, <2>2
<1>14. CASE QueryBegin BY <1>4, <1>14 DEF QueryBegin, dbVars
<1>15. CASE QueryEnd
  <2>1. CASE /\ result' = [ok |-> TRUE, loaded |-> loaded, warned |-> warned]
             /\ main' = "close" /\ UNCHANGED <<next, err>>
    <3>1. \A s \in Source : scan[s] = "done" /\ scanErr[s] = None
      BY <1>15 DEF QueryEnd, GoroutinesFollowMain
    <3>2. {s \in Source : Succeeded(s)} = Source /\ {s \in Source : Succeeded(s)}' = Source
      BY <1>1, <3>1 DEF Succeeded
    <3>3. \A s \in Source, i \in Position :
            loaded[s][i] = ExpectedRows(s, i) /\ warned[s][i] = ExpectedWarnings(s, i)
      BY <3>1 DEF ChunksAccounted, Recorded, Settled, ExpectedRows, ExpectedWarnings
    <3>4. loaded \in Tally /\ warned \in Tally BY DEF TypeOK
    <3>5. loaded = Contract!CountRows
      BY <3>3, <3>4 DEF Contract!CountRows, Contract!Position, Position, Tally, ExpectedRows
    <3>6. warned = Contract!CountWarnings
      BY <3>3, <3>4
      DEF Contract!CountWarnings, Contract!Position, Position, Tally, ExpectedWarnings
    <3>7. err = None /\ ~result.ok /\ db = "open" /\ UNCHANGED db /\ main = "querying"
      BY <1>2, <1>15 DEF QueryEnd, DatabaseFollowsMain, dbVars
    <3>8. Contract!Answer
      BY <1>1, <2>1, <3>2, <3>5, <3>6, <3>7 DEF Contract!Answer, Outcome
    <3> QED BY <3>8 DEF Contract!Next
  <2>2. CASE MayFail("query") BY <1>3, <1>15, <2>2 DEF QueryEnd, dbVars
  <2> QED BY <1>15, <2>1, <2>2 DEF QueryEnd
<1>16. CASE Close
  <2>1. db = "open" /\ (result.ok <=> err = None) /\ main = "close"
    BY <1>16 DEF Close, DatabaseFollowsMain, RunOutcome
  <2>2. {s \in Source : Succeeded(s)}' = {s \in Source : Succeeded(s)} BY <1>1
  <2>3. Contract!Return
    BY <1>1, <1>16, <2>1, <2>2 DEF Close, GoTo, Contract!Return, Outcome
  <2> QED BY <2>3 DEF Contract!Next
<1> QED
  BY <1>5, <1>6, <1>7, <1>8, <1>9, <1>10, <1>11, <1>12, <1>13, <1>14, <1>15, <1>16
  DEF MainStep

LEMMA ContractGoroutine ==
  ASSUME IInv, NEW s \in Source, GoroutineStep(s)
  PROVE  [Contract!Next]_(Contract!vars)
<1> USE DEF IInv, Goroutine, Succeeded
<1>1. UNCHANGED <<mainVars, dbVars>> /\ main \in {"launch", "wait"}
  BY GoroutineFrame, AtWork
<1>2. /\ err = None /\ ~result.ok /\ db = "open"
      /\ UNCHANGED <<err, result, db, main>>
  BY <1>1 DEF RunOutcome, DatabaseFollowsMain, MainState, mainVars, dbVars
<1>3. scan \in [Source -> ScanState] /\ scanErr \in [Source -> Failure \cup {None}]
  BY DEF TypeOK
<1>4. CASE Emit(s)
  <2>1. s \notin {t \in Source : Succeeded(t)} BY <1>4 DEF Emit
  <2>2. {t \in Source : Succeeded(t)}' = {t \in Source : Succeeded(t)}
    BY <1>3, <1>4 DEF Emit
  <2>3. PICK c \in Chunk : emitted' = [emitted EXCEPT ![s] = Append(@, c)] BY <1>4 DEF Emit
  <2>4. c \in Contract!Chunk BY DEF Contract!Chunk
  <2>5. Contract!Deliver(s)
    BY <1>2, <2>1, <2>2, <2>3, <2>4 DEF Contract!Deliver, Outcome
  <2> QED BY <2>5 DEF Contract!Next
<1>5. CASE ScanSucceeds(s)
  <2>1. scanErr[s] = None BY <1>5 DEF ScanSucceeds, GoroutineData
  <2>2. {t \in Source : Succeeded(t)}' = {t \in Source : Succeeded(t)} \cup {s}
    BY <1>3, <1>5, <2>1 DEF ScanSucceeds
  <2>3. Contract!Complete(s)
    BY <1>2, <1>5, <2>2 DEF Contract!Complete, Outcome, ScanSucceeds, dataVars
  <2> QED BY <2>3 DEF Contract!Next
<1>6. CASE ~Emit(s) /\ ~ScanSucceeds(s)
  <2>1. UNCHANGED emitted /\ \A t \in Source : Succeeded(t)' <=> Succeeded(t)
    <3>1. CASE ScanFails(s) \/ ScanCancelled(s)
      BY <1>3, <3>1 DEF ScanFails, ScanCancelled, Failure, dataVars
    <3>2. CASE EmitLock(s) \/ EmitNoRows(s) \/ InsertBegin(s) \/ InsertCommit(s)
      BY <1>3, <3>2 DEF EmitLock, EmitNoRows, InsertBegin, InsertCommit, dataVars
    <3>3. CASE InsertRefuse(s) \/ InsertFail(s)
      BY <1>3, <3>3 DEF InsertRefuse, InsertFail, AbortEmit, dataVars
    <3>4. CASE EmitFailed(s) BY <1>3, <3>4 DEF EmitFailed, GoroutineData, dataVars
    <3>5. CASE GroupIgnore(s) \/ GroupRelease(s)
      BY <1>3, <3>5 DEF GroupIgnore, GroupRelease, dataVars
    <3>6. CASE GroupRecord(s) \/ GroupCancel(s)
      BY <1>3, <3>6 DEF GroupRecord, GroupCancel, GoroutineData, dataVars
    <3> QED
      BY <1>6, <3>1, <3>2, <3>3, <3>4, <3>5, <3>6 DEF GoroutineStep, EngineStep, ConnectorStep
  <2> QED BY <1>2, <2>1, ContractStutter
<1> QED BY <1>4, <1>5, <1>6

\* A run, with its goroutines, mutex, error group and cancellation, implements
\* the contract "everything the sources delivered, or no answer", for any number
\* of sources, any limit and any number of chunks.
THEOREM RunImplementsContract == Spec => ImplementsContract
<1>1. Init => Contract!Init
  BY DEF Init, Contract!Init, Outcome, NoResult, Succeeded, Untouched, Contract!Nothing,
     Contract!Position, Position
<1>2. IInv /\ [Next]_vars => [Contract!Next]_(Contract!vars)
  <2> SUFFICES ASSUME IInv, [Next]_vars PROVE [Contract!Next]_(Contract!vars) OBVIOUS
  <2>1. CASE Cancel \/ UNCHANGED vars
    BY <2>1, ContractStutter DEF Cancel, vars, mainVars, dbVars, dataVars, Succeeded
  <2> QED BY <2>1, ContractMain, ContractGoroutine DEF Next, GoroutineStep
<1> QED BY <1>1, <1>2, EverythingInStep, PTL DEF Spec, Safety, ImplementsContract, Contract!Spec
=============================================================================
