----------------------------- MODULE Credential -----------------------------
(***************************************************************************)
(* A connector's secret, source.Credential (source/credential.go), shared   *)
(* by the goroutines that scan the connector's tables.  Scan calls Get      *)
(* first and gives up on its error; every HTTP request calls Get again and  *)
(* ignores the error ("Cached after the resolution in Scan; the error       *)
(* surfaced there", source/github/github.go and its siblings).              *)
(*                                                                          *)
(* The environment may change while the process lives, the caller's         *)
(* function and the command answer differently every time they are asked,   *)
(* and the runs the goroutines belong to may be cancelled.                  *)
(***************************************************************************)
EXTENDS FiniteSets, Naturals

CONSTANTS
  Goroutine,  \* the scans that share the credential
  Run,        \* the query runs they belong to
  RunOf,      \* the run of each of them
  Secret,     \* what the function and the command may answer
  StaticKey,  \* the value of the static param
  Environ,    \* the non-empty values env() may yield
  Empty,      \* the empty string
  Unset       \* not yet known

ASSUME CredentialAssumption ==
  /\ RunOf \in [Goroutine -> Run] /\ Unset \notin Goroutine
  /\ Empty \notin Secret \cup Environ \cup {StaticKey, Unset}
  /\ Unset \notin Secret \cup Environ \cup {StaticKey}

Value == Secret \cup Environ \cup {StaticKey, Empty}

\* What NewCredential found in the params: a static value, an env closure, a
\* function, a command (an empty list is none).
Config == [static : BOOLEAN, env : BOOLEAN, fn : BOOLEAN, cmd : BOOLEAN]

VARIABLES
  config,    \* the sources that are configured
  environ,   \* what env() would yield now
  pc,        \* where each goroutine is in its Get
  mu,        \* the holder of the mutex, or Unset
  resolved,  \* the value is cached
  val,       \* the cached value
  ctxDone,   \* the cancelled runs
  seen,      \* what each Scan's own Get returned, Unset until it has
  used       \* what the requests of each Scan were sent with

cacheVars  == <<resolved, val>>
callerVars == <<seen, used>>
worldVars  == <<config, environ, ctxDone>>
vars == <<worldVars, pc, mu, cacheVars, callerVars>>

Init ==
  /\ config \in Config
  /\ environ \in Environ \cup {Empty}
  /\ pc = [g \in Goroutine |-> "outside"]
  /\ mu = Unset
  /\ resolved = FALSE /\ val = Empty
  /\ ctxDone = {}
  /\ seen = [g \in Goroutine |-> Unset]
  /\ used = [g \in Goroutine |-> {}]

Cancelled(g) == RunOf[g] \in ctxDone

\* The process changes its environment.
SetEnv ==
  /\ environ' \in Environ \cup {Empty}
  /\ environ' # environ
  /\ UNCHANGED <<config, ctxDone, pc, mu, cacheVars, callerVars>>

Cancel(r) ==
  /\ r \notin ctxDone
  /\ ctxDone' = ctxDone \cup {r}
  /\ UNCHANGED <<config, environ, pc, mu, cacheVars, callerVars>>

-----------------------------------------------------------------------------
(* Get.                                                                    *)

Step(g, from, to) ==
  /\ pc[g] = from
  /\ pc' = [pc EXCEPT ![g] = to]
  /\ UNCHANGED worldVars

\* Scan, or a request of a Scan that has its value, calls Get.
Get(g) ==
  /\ Step(g, "outside", "waiting")
  /\ UNCHANGED <<mu, cacheVars, callerVars>>

\* c.mu.Lock.  Mutant: no mutex.
MutexIgnored == TRUE
MutexFree == mu = Unset

Lock(g) ==
  /\ Step(g, "waiting", "holding")
  /\ MutexFree
  /\ mu' = g
  /\ UNCHANGED <<cacheVars, callerVars>>

\* The deferred c.mu.Unlock.  Mutant: Unlock only on the way out with a value.
UnlockOnSuccess(ok) == mu' = IF ok THEN Unset ELSE mu
Unlock(ok) == mu' = Unset

\* Get returns v and no error.
Return(g, v) ==
  /\ Unlock(TRUE)
  /\ IF seen[g] = Unset
     THEN seen' = [seen EXCEPT ![g] = v] /\ UNCHANGED used
     ELSE used' = [used EXCEPT ![g] = @ \cup {v}] /\ UNCHANGED seen

\* Get returns an error: Scan ends with it, to be tried again by a later query;
\* a request is sent without a credential.
ReturnError(g) ==
  /\ Unlock(FALSE)
  /\ IF seen[g] = Unset
     THEN UNCHANGED used
     ELSE used' = [used EXCEPT ![g] = @ \cup {Empty}]
  /\ UNCHANGED <<cacheVars, seen>>

\* c.val, c.resolved = val, true.  Mutant: nothing is cached.
Forget(v) == UNCHANGED cacheVars
Remember(v) == resolved' = TRUE /\ val' = v

GetCached(g) ==
  /\ Step(g, "holding", "outside")
  /\ resolved
  /\ Return(g, val)
  /\ UNCHANGED cacheVars

\* The precedence of resolve: a static value, the environment as it is now, the
\* function, the command.
InEnv == config.env /\ environ # Empty
UseEnv == ~config.static /\ InEnv
UseFunc == ~config.static /\ ~InEnv /\ config.fn
UseCommand == ~config.static /\ ~InEnv /\ ~config.fn /\ config.cmd
UseNothing == ~config.static /\ ~InEnv /\ ~config.fn /\ ~config.cmd

\* A static value, an environment variable or nothing at all is at hand.
GetAtHand(g) ==
  /\ Step(g, "holding", "outside")
  /\ ~resolved
  /\ \E v \in Value :
       /\ \/ config.static /\ v = StaticKey
          \/ UseEnv /\ v = environ
          \/ UseNothing /\ v = Empty
       /\ Remember(v)
       /\ Return(g, v)

\* resolve calls the function, or starts the command, and waits for it.
GetAsks(g) ==
  /\ ~resolved
  /\ \/ UseFunc /\ Step(g, "holding", "calling")
     \/ UseCommand /\ Step(g, "holding", "running")
  /\ UNCHANGED <<mu, cacheVars, callerVars>>

\* The check for an empty answer.  Mutant: an empty answer is as good as any.
AcceptAny(v) == TRUE
Accept(v) == v # Empty

Answer(g, from) ==
  \E v \in Secret \cup {Empty} :
    /\ Step(g, from, "outside")
    /\ IF Accept(v) THEN Remember(v) /\ Return(g, v) ELSE ReturnError(g)

FuncAnswers(g) == Answer(g, "calling")
CommandAnswers(g) == Answer(g, "running")

\* The function returns an error, of its own or because its ctx is done.
FuncFails(g) == Step(g, "calling", "outside") /\ ReturnError(g)

\* The command exits with a status, is killed after its five seconds, or is
\* killed because ctx is done.
CommandFails(g) == Step(g, "running", "outside") /\ ReturnError(g)

-----------------------------------------------------------------------------
Holder(g) == GetCached(g) \/ GetAtHand(g) \/ GetAsks(g)

Func(g) == FuncAnswers(g) \/ FuncFails(g)

\* Only the run's end makes a hanging function return.
CancelledFunc(g) == Cancelled(g) /\ Func(g)

Command(g) == CommandAnswers(g) \/ CommandFails(g)

Next ==
  \/ SetEnv
  \/ \E r \in Run : Cancel(r)
  \/ \E g \in Goroutine : Get(g) \/ Lock(g) \/ Holder(g) \/ Func(g) \/ Command(g)

Safety == Init /\ [][Next]_vars

\* The mutex is handed to every waiter in the end, code runs, a command ends
\* within five seconds, and a function honours its ctx.
Spec ==
  /\ Safety
  /\ \A g \in Goroutine : /\ SF_vars(Lock(g)) /\ WF_vars(Holder(g))
                          /\ WF_vars(Command(g)) /\ WF_vars(CancelledFunc(g))

-----------------------------------------------------------------------------
(* Properties.                                                             *)

\* Every variable keeps its type (the fields of Credential).
TypeOK ==
  /\ config \in Config
  /\ environ \in Environ \cup {Empty}
  /\ pc \in [Goroutine -> {"outside", "waiting", "holding", "calling", "running"}]
  /\ mu \in Goroutine \cup {Unset}
  /\ resolved \in BOOLEAN /\ val \in Value
  /\ ctxDone \subseteq Run
  /\ seen \in [Goroutine -> Value \cup {Unset}]
  /\ used \in [Goroutine -> SUBSET Value]

Asking == {g \in Goroutine : pc[g] \in {"calling", "running"}}

\* The function or command is asked by one goroutine at a time, and never again
\* once it has answered ("the func/command runs at most once at a time and a
\* successful value is written before any other goroutine reads it").
AskedOnce ==
  /\ \A g, h \in Asking : g = h
  /\ resolved => Asking = {}

\* Every request of a Scan carries exactly the value Scan itself resolved,
\* although the request ignores the error of its own Get and the environment
\* and the secrets source change in between (github.getJSON and its siblings:
\* "Cached after the resolution in Scan; the error surfaced there").
RequestsMatchScan == \A g \in Goroutine : used[g] \subseteq {seen[g]}

\* Nobody proceeds without a credential while a static value, a function or a
\* command is configured ("silently proceeding unauthenticated would mask a
\* broken secrets source").
NeverSilentlyAnonymous ==
  \A g \in Goroutine :
    seen[g] = Empty \/ Empty \in used[g] => ~config.static /\ ~config.fn /\ ~config.cmd

Cell == INSTANCE OnceCell WITH cell <- IF resolved THEN val ELSE Unset

\* The mutex, the resolution and its retries are, for those who call Get, one
\* cell that is written once (TestCredentialConcurrent, TestCredentialErrorRetried).
ImplementsCell == Cell!Spec

\* When every run is cancelled, every Get returns, however long the function would
\* take.  (A waiter holds no ctx: the function of a run that is not cancelled keeps
\* the goroutines of the other runs waiting.)
CancelledGetReturns ==
  \A g \in Goroutine : ctxDone = Run /\ pc[g] # "outside" ~> pc[g] = "outside"

\* A failure does not poison the credential: if the scans are tried again, the
\* functions return, and neither they nor the commands fail for ever, every scan
\* gets a value ("a canceled first query or a transient secrets-manager hiccup
\* doesn't poison a long-lived process").
Retries ==
  \A g \in Goroutine : /\ WF_vars(Get(g)) /\ WF_vars(Func(g))
                       /\ SF_vars(FuncAnswers(g) /\ resolved')
                       /\ SF_vars(CommandAnswers(g) /\ resolved')
EverybodyServed == Retries => \A g \in Goroutine : <>(seen[g] # Unset)

-----------------------------------------------------------------------------
(* Why the safety properties hold: the inductive invariant.                *)

\* The mutex is held exactly by the goroutine that is inside Get.
MutexHeld == \A g \in Goroutine : pc[g] \in {"holding", "calling", "running"} <=> mu = g

\* Who asks has something to ask, and nothing is cached yet.
AskingWhat ==
  \A g \in Goroutine :
    /\ pc[g] \in {"calling", "running"} => ~resolved
    /\ pc[g] = "calling" => config.fn
    /\ pc[g] = "running" => config.cmd

\* Whatever anybody got is what is cached.
CacheIsShared ==
  /\ \A g \in Goroutine : seen[g] # Unset => resolved /\ seen[g] = val
  /\ \A g \in Goroutine : used[g] # {} => used[g] = {val} /\ seen[g] # Unset
  /\ resolved /\ val = Empty => ~config.static /\ ~config.fn /\ ~config.cmd

IInv == TypeOK /\ MutexHeld /\ AskingWhat /\ CacheIsShared
=============================================================================
