-------------------------- MODULE CredentialProofs --------------------------
(***************************************************************************)
(* Proofs about Credential, for any goroutines, runs and secrets.          *)
(***************************************************************************)
EXTENDS Credential, TLAPS

USE CredentialAssumption
    DEF Step, MutexFree, Unlock, Remember, Accept, worldVars, cacheVars, callerVars

\* The steps that take place inside a Get, one by one.
GetStep(g) ==
  \/ Get(g) \/ Lock(g) \/ GetCached(g) \/ GetAtHand(g) \/ GetAsks(g)
  \/ FuncAnswers(g) \/ FuncFails(g) \/ CommandAnswers(g) \/ CommandFails(g)

World == SetEnv \/ \E r \in Run : Cancel(r)

LEMMA NextCases ==
  ASSUME [Next]_vars
  PROVE  World \/ (\E g \in Goroutine : GetStep(g)) \/ UNCHANGED vars
BY DEF Next, World, GetStep, Holder, Func, Command

LEMMA TypeOKStep == TypeOK /\ [Next]_vars => TypeOK'
<1> SUFFICES ASSUME TypeOK, [Next]_vars PROVE TypeOK' OBVIOUS
<1> USE DEF TypeOK, Value
<1>1. CASE World BY <1>1 DEF World, SetEnv, Cancel
<1>2. CASE UNCHANGED vars BY <1>2 DEF vars
<1>3. ASSUME NEW g \in Goroutine, GetStep(g) PROVE TypeOK'
  <2>1. ASSUME NEW v \in Value, Return(g, v)
        PROVE  /\ seen' \in [Goroutine -> Value \cup {Unset}]
               /\ used' \in [Goroutine -> SUBSET Value]
               /\ mu' \in Goroutine \cup {Unset}
    BY <2>1 DEF Return
  <2>2. ASSUME ReturnError(g)
        PROVE  /\ seen' \in [Goroutine -> Value \cup {Unset}]
               /\ used' \in [Goroutine -> SUBSET Value]
               /\ mu' \in Goroutine \cup {Unset}
               /\ UNCHANGED cacheVars
    BY <2>2 DEF ReturnError
  <2>3. CASE Get(g) \/ Lock(g) BY <2>3 DEF Get, Lock
  <2>4. CASE GetCached(g) BY <2>1, <2>4 DEF GetCached
  <2>5. CASE GetAtHand(g) BY <2>1, <2>5 DEF GetAtHand
  <2>6. CASE GetAsks(g) BY <2>6 DEF GetAsks
  <2>7. CASE FuncAnswers(g) BY <2>1, <2>2, <2>7 DEF FuncAnswers, Answer
  <2>8. CASE CommandAnswers(g) BY <2>1, <2>2, <2>8 DEF CommandAnswers, Answer
  <2>9. CASE FuncFails(g) \/ CommandFails(g) BY <2>2, <2>9 DEF FuncFails, CommandFails
  <2> QED BY <1>3, <2>3, <2>4, <2>5, <2>6, <2>7, <2>8, <2>9 DEF GetStep
<1> QED BY <1>1, <1>2, <1>3, NextCases

LEMMA MutexStep == IInv /\ [Next]_vars => MutexHeld'
<1> SUFFICES ASSUME IInv, [Next]_vars PROVE MutexHeld' OBVIOUS
<1> USE DEF IInv, TypeOK, MutexHeld
<1>1. CASE World BY <1>1 DEF World, SetEnv, Cancel
<1>2. CASE UNCHANGED vars BY <1>2 DEF vars
<1>3. ASSUME NEW g \in Goroutine, GetStep(g) PROVE MutexHeld'
  <2>1. CASE Get(g) \/ Lock(g) BY <2>1 DEF Get, Lock
  <2>2. CASE GetAsks(g) BY <2>2 DEF GetAsks
  <2>3. CASE GetCached(g) \/ GetAtHand(g)
    BY <2>3 DEF GetCached, GetAtHand, Return
  <2>4. CASE FuncAnswers(g) \/ CommandAnswers(g)
    BY <2>4 DEF FuncAnswers, CommandAnswers, Answer, Return, ReturnError
  <2>5. CASE FuncFails(g) \/ CommandFails(g)
    BY <2>5 DEF FuncFails, CommandFails, ReturnError
  <2> QED BY <1>3, <2>1, <2>2, <2>3, <2>4, <2>5 DEF GetStep
<1> QED BY <1>1, <1>2, <1>3, NextCases

\* Who is inside Get is alone there.
LEMMA Alone ==
  ASSUME MutexHeld, NEW g \in Goroutine, NEW h \in Goroutine,
         pc[g] \in {"holding", "calling", "running"},
         pc[h] \in {"holding", "calling", "running"}
  PROVE  g = h
BY DEF MutexHeld

LEMMA AskingStep == IInv /\ [Next]_vars => AskingWhat'
<1> SUFFICES ASSUME IInv, [Next]_vars PROVE AskingWhat' OBVIOUS
<1> USE DEF IInv, TypeOK, AskingWhat
<1>1. CASE World BY <1>1 DEF World, SetEnv, Cancel
<1>2. CASE UNCHANGED vars BY <1>2 DEF vars
<1>3. ASSUME NEW g \in Goroutine, GetStep(g) PROVE AskingWhat'
  <2>1. CASE Get(g) \/ Lock(g) BY <2>1 DEF Get, Lock
  <2>2. CASE GetAsks(g) BY <2>2 DEF GetAsks, UseFunc, UseCommand
  <2>3. CASE GetCached(g) BY <2>3 DEF GetCached
  <2>4. CASE GetAtHand(g) BY <2>4, Alone DEF GetAtHand
  <2>5. CASE FuncAnswers(g) \/ CommandAnswers(g)
    BY <2>5, Alone DEF FuncAnswers, CommandAnswers, Answer, ReturnError
  <2>6. CASE FuncFails(g) \/ CommandFails(g)
    BY <2>6 DEF FuncFails, CommandFails, ReturnError
  <2> QED BY <1>3, <2>1, <2>2, <2>3, <2>4, <2>5, <2>6 DEF GetStep
<1> QED BY <1>1, <1>2, <1>3, NextCases

\* A Get that returns what is then cached keeps the cache shared.
LEMMA ReturnCached ==
  ASSUME TypeOK, CacheIsShared, NEW g \in Goroutine, NEW v \in Value, Return(g, v),
         resolved', val' = v, resolved => val = v,
         v = Empty => ~config.static /\ ~config.fn /\ ~config.cmd, UNCHANGED config
  PROVE  CacheIsShared'
<1> USE DEF TypeOK, CacheIsShared, Return
<1>1. CASE seen[g] = Unset BY <1>1 DEF Value
<1>2. CASE seen[g] # Unset BY <1>2 DEF Value
<1> QED BY <1>1, <1>2

\* A Get that fails hands out nothing: Scan gave up, and no request can fail.
LEMMA ReturnErrorUnseen ==
  ASSUME TypeOK, CacheIsShared, ~resolved, NEW g \in Goroutine, ReturnError(g)
  PROVE  UNCHANGED <<cacheVars, callerVars>>
BY DEF ReturnError, CacheIsShared, TypeOK

LEMMA CacheStep == IInv /\ [Next]_vars => CacheIsShared'
<1> SUFFICES ASSUME IInv, [Next]_vars PROVE CacheIsShared' OBVIOUS
<1> USE DEF IInv
<1>1. CASE World BY <1>1 DEF World, SetEnv, Cancel, CacheIsShared
<1>2. CASE UNCHANGED vars BY <1>2 DEF vars, CacheIsShared
<1>3. ASSUME NEW g \in Goroutine, GetStep(g) PROVE CacheIsShared'
  <2>1. CASE Get(g) \/ Lock(g) \/ GetAsks(g)
    BY <2>1 DEF Get, Lock, GetAsks, CacheIsShared
  <2>2. CASE GetCached(g)
    <3>1. val \in Value /\ (val = Empty => ~config.static /\ ~config.fn /\ ~config.cmd)
      BY <2>2 DEF GetCached, TypeOK, CacheIsShared
    <3> QED BY <2>2, <3>1, ReturnCached DEF GetCached
  <2>3. CASE GetAtHand(g)
    <3>1. PICK v \in Value :
            /\ \/ config.static /\ v = StaticKey
               \/ UseEnv /\ v = environ
               \/ UseNothing /\ v = Empty
            /\ Remember(v)
            /\ Return(g, v)
      BY <2>3 DEF GetAtHand
    <3>2. v = Empty => ~config.static /\ ~config.fn /\ ~config.cmd
      BY <3>1 DEF UseEnv, InEnv, UseNothing
    <3> QED BY <2>3, <3>1, <3>2, ReturnCached DEF GetAtHand
  <2>4. CASE FuncAnswers(g) \/ CommandAnswers(g)
    <3>1. PICK v \in Secret \cup {Empty} :
            IF Accept(v) THEN Remember(v) /\ Return(g, v) ELSE ReturnError(g)
      BY <2>4 DEF FuncAnswers, CommandAnswers, Answer
    <3>2. ~resolved /\ UNCHANGED config
      BY <2>4 DEF FuncAnswers, CommandAnswers, Answer, AskingWhat
    <3>3. CASE v = Empty
      BY <3>1, <3>2, <3>3, ReturnErrorUnseen DEF CacheIsShared
    <3>4. CASE v # Empty
      <4>1. v \in Value BY DEF Value
      <4> QED BY <3>1, <3>2, <3>4, <4>1, ReturnCached
    <3> QED BY <3>3, <3>4
  <2>5. CASE FuncFails(g) \/ CommandFails(g)
    <3>1. ~resolved /\ UNCHANGED config /\ ReturnError(g)
      BY <2>5 DEF FuncFails, CommandFails, AskingWhat
    <3> QED BY <3>1, ReturnErrorUnseen DEF CacheIsShared
  <2> QED BY <1>3, <2>1, <2>2, <2>3, <2>4, <2>5 DEF GetStep
<1> QED BY <1>1, <1>2, <1>3, NextCases

-----------------------------------------------------------------------------
LEMMA IInvInit == Init => IInv
BY DEF Init, IInv, TypeOK, MutexHeld, AskingWhat, CacheIsShared, Value

LEMMA IInvStep == IInv /\ [Next]_vars => IInv'
BY TypeOKStep, MutexStep, AskingStep, CacheStep DEF IInv

\* The mutex is held by exactly the goroutine that asks, and whatever anybody got is
\* what is cached (Credential.Get: lock, look, resolve, remember).
THEOREM LockedAndCached == Safety => []IInv
BY IInvInit, IInvStep, PTL DEF Safety

\* The fields of a Credential keep their types.
THEOREM TypeCorrect == Safety => []TypeOK
<1>1. IInv => TypeOK BY DEF IInv
<1> QED BY <1>1, LockedAndCached, PTL

\* However many goroutines share a credential, its function or command runs for
\* one of them at a time and never after it has answered.
THEOREM AskedAtMostOnce == Safety => []AskedOnce
<1>1. IInv => AskedOnce BY Alone DEF IInv, AskedOnce, Asking, AskingWhat
<1> QED BY <1>1, LockedAndCached, PTL

\* A request never carries anything but what its Scan resolved, so ignoring the
\* error of its own Get is sound.
THEOREM RequestsCarryTheCredential == Safety => []RequestsMatchScan
<1>1. IInv => RequestsMatchScan
  BY DEF IInv, RequestsMatchScan, CacheIsShared, TypeOK
<1> QED BY <1>1, LockedAndCached, PTL

\* With a static value, a function or a command configured, nobody proceeds
\* unauthenticated.
THEOREM NobodyAnonymous == Safety => []NeverSilentlyAnonymous
<1>1. IInv => NeverSilentlyAnonymous
  BY DEF IInv, NeverSilentlyAnonymous, CacheIsShared, TypeOK
<1> QED BY <1>1, LockedAndCached, PTL

-----------------------------------------------------------------------------
(* Refinement.                                                             *)

LEMMA CellStep == IInv /\ [Next]_vars => [Cell!Next]_(Cell!vars)
<1> SUFFICES ASSUME IInv, [Next]_vars PROVE [Cell!Next]_(Cell!vars) OBVIOUS
<1> USE DEF IInv, TypeOK, Cell!vars
<1>1. CASE World BY <1>1 DEF World, SetEnv, Cancel
<1>2. CASE UNCHANGED vars BY <1>2 DEF vars
<1>3. ASSUME NEW g \in Goroutine, GetStep(g) PROVE [Cell!Next]_(Cell!vars)
  <2>1. Unset \notin Value BY DEF Value
  <2>2. ASSUME NEW v \in Value, ~resolved, Remember(v), Return(g, v) PROVE Cell!Fill(g, v)
    BY <2>1, <2>2 DEF Cell!Fill, Cell!Obtain, Return
  <2>3. CASE Get(g) \/ Lock(g) \/ GetAsks(g) BY <2>3 DEF Get, Lock, GetAsks
  <2>4. CASE GetCached(g)
    <3>1. Cell!Read(g) BY <2>1, <2>4 DEF GetCached, Cell!Read, Cell!Obtain, Return
    <3> QED BY <3>1 DEF Cell!Next
  <2>5. CASE GetAtHand(g) BY <2>2, <2>5 DEF GetAtHand, Cell!Next
  <2>6. CASE FuncAnswers(g) \/ CommandAnswers(g)
    <3>1. PICK v \in Secret \cup {Empty} :
            IF Accept(v) THEN Remember(v) /\ Return(g, v) ELSE ReturnError(g)
      BY <2>6 DEF FuncAnswers, CommandAnswers, Answer
    <3>2. ~resolved BY <2>6 DEF FuncAnswers, CommandAnswers, Answer, AskingWhat
    <3>3. v \in Value BY DEF Value
    <3>4. CASE v = Empty BY <3>1, <3>2, <3>4, ReturnErrorUnseen
    <3>5. CASE v # Empty BY <2>2, <3>1, <3>2, <3>3, <3>5 DEF Cell!Next
    <3> QED BY <3>4, <3>5
  <2>7. CASE FuncFails(g) \/ CommandFails(g)
    <3>1. ~resolved /\ ReturnError(g) BY <2>7 DEF FuncFails, CommandFails, AskingWhat
    <3> QED BY <3>1, ReturnErrorUnseen
  <2> QED BY <1>3, <2>3, <2>4, <2>5, <2>6, <2>7 DEF GetStep
<1> QED BY <1>1, <1>2, <1>3, NextCases

\* Get, with its mutex, its sources and its retries, implements a cell that is
\* written once, for any number of goroutines.
THEOREM CredentialIsOnceCell == Safety => ImplementsCell
<1>1. Init => Cell!Init BY DEF Init, Cell!Init
<1> QED BY <1>1, CellStep, LockedAndCached, PTL DEF Safety, ImplementsCell, Cell!Spec
=============================================================================
