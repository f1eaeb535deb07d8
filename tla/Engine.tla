------------------------------- MODULE Engine -------------------------------
(***************************************************************************)
(* The model engine of the server, app/engine.py: one resident model, the  *)
(* re-entrant lock that covers load and generate, the idle reaper, and the *)
(* event loop's calls that touch the engine without the lock.              *)
(*                                                                         *)
(* Threads: Callers run the blocking synthesize* methods for a request     *)
(* (asyncio.to_thread), Loaders are the daemon threads of preload_async,   *)
(* Reapers are the thread objects _ensure_reaper may start.  `loop' is the *)
(* one event-loop thread: /health, /v1/models/preload, and the shutdown of *)
(* the lifespan run on it, one at a time.                                  *)
(*                                                                         *)
(* A step is what one thread does between two points at which another may  *)
(* be scheduled and see the difference.  Every unlocked read is a step.    *)
(***************************************************************************)
EXTENDS Integers, FiniteSets

CONSTANTS Callers,      \* request threads (a bound: at most this many at once)
          Loaders,      \* preload threads (a bound: at most this many at once)
          Reapers,      \* reaper thread objects (a bound on live reapers)
          Models,       \* model ids
          None,         \* Python's None
          IdleTimeout   \* settings.idle_unload_seconds, in ticks; 0 disables

ASSUME ThreadsAssumption ==
  /\ Callers \cap Loaders = {}
  /\ Callers \cap Reapers = {}
  /\ Loaders \cap Reapers = {}
  /\ None \notin Callers \cup Loaders \cup Reapers \cup Models \cup Nat

ASSUME TimeoutAssumption == IdleTimeout \in Nat

VARIABLES
  modelId,    \* _model_id (and _kind, always assigned with it)
  model,      \* the model _model (and, for TTS, _processor) refers to
  loadingId,  \* _loading_id
  idle,       \* time.monotonic() - _last_used, capped; None if _last_used is
  device,     \* what the accelerator holds of each model's weights
  owner,      \* the thread that holds _lock
  depth,      \* how often it has acquired it (RLock)
  pc,         \* the next step of each thread
  want,       \* the model_id argument of the call a thread runs
  reaper,     \* _reaper
  stopFlag,   \* _stop_reaper.is_set()
  loop,       \* what the event loop is doing
  asked,      \* the model id of the preload request it is answering
  joining     \* the thread stop_reaper is joining

slot == <<modelId, model, loadingId, idle, device>>
lock == <<owner, depth>>
reaping == <<reaper, stopFlag>>
looping == <<loop, asked, joining>>
vars == <<modelId, model, loadingId, idle, device, owner, depth, pc, want,
          reaper, stopFlag, loop, asked, joining>>

Workers == Callers \cup Loaders      \* the threads that run ensure_loaded
Threads == Workers \cup Reapers

---------------------------------------------------------------------------
(* Where a thread can be.                                                  *)

UnloadPcs == {"unload", "dropId", "dropClock", "sweep"}
\* between acquiring the lock in ensure_loaded and leaving its with-block
LoadPcs == {"recheck", "load", "publish", "publishId", "touch", "spawn",
            "alive", "start", "create", "begin", "unwatched", "finally",
            "abort", "leave", "raise"} \cup UnloadPcs
CallerPcs == {"idle", "enter", "ensure", "lock", "use", "done", "exit",
              "return"} \cup LoadPcs
LoaderPcs == {"free", "ensure", "lock"} \cup LoadPcs
ReaperPcs == {"dead", "new", "wait", "peek", "age", "lock", "recheck", "leave"}
               \cup UnloadPcs
\* stop_reaper has set the event: it is under way, has returned or has raised
Stopping == {"look", "join", "joining", "clear", "stopped", "raised"}
LoopStates == {"serving", "age", "error", "preload", "draining"} \cup Stopping
\* nothing of the weights there; referenced by _model; unreferenced but in
\* reference cycles until the next collection; left over by a load that raised
DeviceStates == {"absent", "live", "dropped", "stranded"}

\* is_alive(): a thread object that is not started yet is not
Alive(r) == pc[r] \notin {"dead", "new"}
Quiet == loop = "serving" /\ \A t \in Workers : pc[t] \in {"idle", "free"}

Move(t, from, to) == pc[t] = from /\ pc' = [pc EXCEPT ![t] = to]
\* a step that decides where to go on and changes nothing else
Jump(t, from, to) ==
  Move(t, from, to) /\ UNCHANGED <<slot, lock, want, reaping, looping>>
LoopMove(from, to) == loop = from /\ loop' = to

Acquire(t) == owner \in {None, t} /\ owner' = t /\ depth' = depth + 1
Release == depth' = depth - 1 /\ owner' = IF depth = 1 THEN None ELSE owner

\* the step after ensure_loaded returns: a generate goes on, a preload thread
\* has nothing left to do; and after it raises: the exception leaves the
\* generate's with-block
Returned(t) == IF t \in Callers THEN "use" ELSE "free"
Raised(t) == IF t \in Callers THEN "exit" ELSE "free"
\* the arguments of a preload thread that has ended are gone
Forget(t) == want' = IF t \in Loaders THEN [want EXCEPT ![t] = None] ELSE want

Init ==
  /\ modelId = None /\ model = None /\ loadingId = None /\ idle = None
  /\ device = [m \in Models |-> "absent"]
  /\ owner = None /\ depth = 0
  /\ pc = [t \in Threads |-> IF t \in Callers THEN "idle"
                             ELSE IF t \in Loaders THEN "free" ELSE "dead"]
  /\ want = [t \in Workers |-> None]
  /\ reaper = None /\ stopFlag = FALSE
  /\ loop = "serving" /\ asked = None /\ joining = None

---------------------------------------------------------------------------
(* ensure_loaded, run by a preload thread or inside a generate.            *)

\* the unlocked fast path: already resident
EnsureFast(t) ==
  /\ modelId = want[t]
  /\ Move(t, "ensure", Returned(t))
  /\ Forget(t)
  /\ UNCHANGED <<slot, lock, reaping, looping>>

EnsureSlow(t) == modelId # want[t] /\ Jump(t, "ensure", "lock")

EnsureLock(t) ==
  /\ Move(t, "lock", "recheck")
  /\ Acquire(t)
  /\ UNCHANGED <<slot, want, reaping, looping>>

\* the check again under the lock, which may have been waited for
RecheckResident(t) == modelId = want[t] /\ Jump(t, "recheck", "leave")

\* _check_disk_headroom raises before anything has been touched
RecheckNoDisk(t) == modelId # want[t] /\ Jump(t, "recheck", "raise")

RecheckLoad(t) ==
  /\ modelId # want[t]
  /\ Move(t, "recheck", "unload")
  /\ loadingId' = want[t]
  /\ UNCHANGED <<modelId, model, idle, device, lock, want, reaping, looping>>

\* from_pretrained and .to(device) return
LoadWeights(t) ==
  /\ Move(t, "load", "publish")
  /\ device' = [device EXCEPT ![want[t]] = "live"]
  /\ UNCHANGED <<modelId, model, loadingId, idle, lock, want, reaping, looping>>

\* or raise, possibly with part of the weights moved to the device
LoadFails(t) ==
  /\ Move(t, "load", "abort")
  /\ \E left \in {"absent", "stranded"} :
       device' = [device EXCEPT ![want[t]] = left]
  /\ UNCHANGED <<modelId, model, loadingId, idle, lock, want, reaping, looping>>

Publish(t) ==
  /\ Move(t, "publish", "publishId")
  /\ model' = want[t]
  /\ UNCHANGED <<modelId, loadingId, idle, device, lock, want, reaping, looping>>

PublishId(t) ==
  /\ Move(t, "publishId", "touch")
  /\ modelId' = want[t]
  /\ UNCHANGED <<model, loadingId, idle, device, lock, want, reaping, looping>>

\* variant: the load does not see to the reaper
TouchLoadedOnly(t) ==
  /\ Move(t, "touch", "finally")
  /\ idle' = 0
  /\ UNCHANGED <<modelId, model, loadingId, device, lock, want, reaping, looping>>

\* _touch: the idle clock starts at load
TouchLoaded(t) ==
  /\ Move(t, "touch", "spawn")
  /\ idle' = 0
  /\ UNCHANGED <<modelId, model, loadingId, device, lock, want, reaping, looping>>

ReaperRuns == reaper # None /\ Alive(reaper)

\* variant: nobody asks whether there is a reaper
EnsureReaperNeverLooks(t) ==
  Jump(t, "spawn", IF IdleTimeout = 0 THEN "finally" ELSE "start")

\* _ensure_reaper may be disabled; if not, is there a reaper ...
EnsureReaperLooks(t) ==
  Jump(t, "spawn", IF IdleTimeout = 0 THEN "finally"
                   ELSE IF reaper = None THEN "start" ELSE "alive")

\* ... and is it alive: a second read of _reaper, which stop_reaper may have
\* cleared in between; asking None is an AttributeError
EnsureReaperAsks(t) ==
  Jump(t, "alive", IF reaper = None THEN "unwatched"
                   ELSE IF ReaperRuns THEN "finally" ELSE "start")

EnsureReaperClears(t) ==
  /\ Move(t, "start", "create")
  /\ stopFlag' = FALSE
  /\ UNCHANGED <<slot, lock, want, reaper, looping>>

\* _reaper refers to a thread object that is not started yet
EnsureReaperCreates(t, r) ==
  /\ pc[t] = "create"
  /\ pc[r] = "dead" /\ r # joining               \* a new thread object
  /\ pc' = [pc EXCEPT ![t] = "begin", ![r] = "new"]
  /\ reaper' = r
  /\ UNCHANGED <<slot, lock, want, stopFlag, looping>>

EnsureReaperStarts(t) ==
  /\ pc[t] = "begin" /\ reaper # None
  /\ pc' = [pc EXCEPT ![t] = "finally", ![reaper] = "wait"]
  /\ UNCHANGED <<slot, lock, want, reaping, looping>>

\* None.start() is an AttributeError, and the thread object is never started
EnsureReaperLost(t, r) ==
  /\ pc[t] = "begin" /\ reaper = None
  /\ pc[r] = "new"
  /\ pc' = [pc EXCEPT ![t] = "unwatched", ![r] = "dead"]
  /\ UNCHANGED <<slot, lock, want, reaping, looping>>

\* variant: the id is cleared at the end of the try block, not in a finally
ClearedIfLoaded(t) ==
  /\ \/ Move(t, "finally", "leave") /\ loadingId' = None
     \/ Move(t, "abort", "raise") /\ UNCHANGED loadingId
     \/ Move(t, "unwatched", "raise") /\ UNCHANGED loadingId
  /\ UNCHANGED <<modelId, model, idle, device, lock, want, reaping, looping>>

\* the finally clause, after a load that succeeded or raised, or whose model is
\* in place and whose _ensure_reaper raised
Finally(t) ==
  /\ \/ Move(t, "finally", "leave")
     \/ Move(t, "abort", "raise")
     \/ Move(t, "unwatched", "raise")
  /\ loadingId' = None
  /\ UNCHANGED <<modelId, model, idle, device, lock, want, reaping, looping>>

\* variant: acquire and release calls, and no release when the load raises
LeaveIfLoaded(t) ==
  /\ \/ Move(t, "leave", Returned(t)) /\ Release
     \/ Move(t, "raise", Raised(t)) /\ UNCHANGED lock
  /\ Forget(t)
  /\ UNCHANGED <<slot, reaping, looping>>

\* the inner with-block ends: ensure_loaded returns, or its exception leaves it
LeaveEnsure(t) ==
  /\ Move(t, "leave", Returned(t)) \/ Move(t, "raise", Raised(t))
  /\ Release
  /\ Forget(t)
  /\ UNCHANGED <<slot, reaping, looping>>

---------------------------------------------------------------------------
(* _unload_resident, called by ensure_loaded and by the reaper.            *)

\* the step after it, for whoever called it, if it returns; and if it raises:
\* ensure_loaded's finally, or the reaper loop's except
Unloaded(t) == IF t \in Reapers THEN "leave" ELSE "load"
UnloadRaised(t) == IF t \in Reapers THEN "leave" ELSE "abort"

UnloadNothing(t) == model = None /\ Jump(t, "unload", Unloaded(t))

DropModel(t) ==
  /\ model # None
  /\ Move(t, "unload", "dropId")
  /\ model' = None
  /\ device' = [device EXCEPT ![model] = "dropped"]
  /\ UNCHANGED <<modelId, loadingId, idle, lock, want, reaping, looping>>

DropId(t) ==
  /\ Move(t, "dropId", "dropClock")
  /\ modelId' = None
  /\ UNCHANGED <<model, loadingId, idle, device, lock, want, reaping, looping>>

DropClock(t) ==
  /\ Move(t, "dropClock", "sweep")
  /\ idle' = None
  /\ UNCHANGED <<modelId, model, loadingId, device, lock, want, reaping, looping>>

\* variant: the cache is emptied before the collection
SweepUncollected(t) ==
  /\ Move(t, "sweep", Unloaded(t))
  /\ UNCHANGED <<slot, lock, want, reaping, looping>>

\* gc.collect, then the allocator's empty_cache, which may raise
SweepDevice(t) ==
  /\ Move(t, "sweep", Unloaded(t)) \/ Move(t, "sweep", UnloadRaised(t))
  /\ device' = [m \in Models |-> IF device[m] = "live" THEN "live" ELSE "absent"]
  /\ UNCHANGED <<modelId, model, loadingId, idle, lock, want, reaping, looping>>

---------------------------------------------------------------------------
(* synthesize, synthesize_sound_effect and design_voice.                   *)

Submit(c, m) ==
  /\ loop = "serving"
  /\ Move(c, "idle", "enter")
  /\ want' = [want EXCEPT ![c] = m]
  /\ UNCHANGED <<slot, lock, reaping, looping>>

\* variant: a lock for the load alone
EnterUnlocked(c) == Jump(c, "enter", "ensure")

EnterGenerate(c) ==
  /\ Move(c, "enter", "ensure")
  /\ Acquire(c)
  /\ UNCHANGED <<slot, want, reaping, looping>>

\* the model call returns, or raises (and then nothing is touched)
Generate(c) == Jump(c, "use", "done") \/ Jump(c, "use", "exit")

TouchUsed(c) ==
  /\ Move(c, "done", "exit")
  /\ idle' = 0
  /\ UNCHANGED <<modelId, model, loadingId, device, lock, want, reaping, looping>>

ExitGenerate(c) ==
  /\ Move(c, "exit", "return")
  /\ Release
  /\ UNCHANGED <<slot, want, reaping, looping>>

\* the waveform is converted after the lock is released, still with the
\* processor the generate took hold of
ReturnAudio(c) ==
  /\ Move(c, "return", "idle")
  /\ want' = [want EXCEPT ![c] = None]
  /\ UNCHANGED <<slot, lock, reaping, looping>>

---------------------------------------------------------------------------
(* The reaper: _reaper_loop and unload_if_idle.                            *)

\* variant: the thread sleeps for the tick, whatever the event says
ReaperSleeps(r) == Jump(r, "wait", "peek")

\* _stop_reaper.wait: the event is set, or the tick is over
ReaperWakes(r) == Jump(r, "wait", IF stopFlag THEN "dead" ELSE "peek")

\* idle_seconds, unlocked: the None checks (and unload_if_idle may be disabled)
ReaperPeeks(r) ==
  Jump(r, "peek", IF IdleTimeout > 0 /\ model # None /\ idle # None
                  THEN "age" ELSE "wait")

IdleLongEnough == idle # None /\ idle >= IdleTimeout

\* ... and the second read of _last_used; None by now is a TypeError, which the
\* reaper loop catches
ReaperReadsAge(r) == Jump(r, "age", IF IdleLongEnough THEN "lock" ELSE "wait")

ReaperLocks(r) ==
  /\ Move(r, "lock", "recheck")
  /\ Acquire(r)
  /\ UNCHANGED <<slot, want, reaping, looping>>

\* variant: what was read before the wait is good enough
ReaperTrustsPeek(r) == Jump(r, "recheck", "unload")

\* the check again under the lock: waiting may have meant waiting out a generate
ReaperRechecks(r) ==
  Jump(r, "recheck", IF model # None /\ IdleLongEnough THEN "unload" ELSE "leave")

ReaperLeaves(r) ==
  /\ Move(r, "leave", "wait")
  /\ Release
  /\ UNCHANGED <<slot, want, reaping, looping>>

---------------------------------------------------------------------------
(* The event loop: /health, /v1/models/preload, and shutdown.              *)

threads == <<slot, lock, pc, want>>

\* idle_seconds, unlocked: the None checks ...
HealthSeesModel ==
  /\ model # None /\ idle # None
  /\ LoopMove("serving", "age")
  /\ UNCHANGED <<threads, reaping, asked, joining>>

\* ... and the second read of _last_used, a TypeError if it is None by now
HealthReadsAge ==
  /\ LoopMove("age", IF idle = None THEN "error" ELSE "serving")
  /\ UNCHANGED <<threads, reaping, asked, joining>>

\* the 500 is sent, and the loop serves on
HealthFails ==
  /\ LoopMove("error", "serving")
  /\ UNCHANGED <<threads, reaping, asked, joining>>

\* preload_async: the model is not resident ...
PreloadAsked(m) ==
  /\ modelId # m
  /\ \E l \in Loaders : pc[l] = "free"       \* the bound Loaders
  /\ LoopMove("serving", "preload")
  /\ asked' = m
  /\ UNCHANGED <<threads, reaping, joining>>

\* ... but it is loading: answered "already-loaded"
PreloadDeclined ==
  /\ loadingId = asked
  /\ LoopMove("preload", "serving")
  /\ asked' = None
  /\ UNCHANGED <<threads, reaping, joining>>

\* ... and not loading either: a thread is started
PreloadStarted(l) ==
  /\ loadingId # asked
  /\ LoopMove("preload", "serving")
  /\ Move(l, "free", "ensure")
  /\ want' = [want EXCEPT ![l] = asked]
  /\ asked' = None
  /\ UNCHANGED <<slot, lock, reaping, joining>>

\* SIGTERM: no new connection, those open are drained
Terminate ==
  /\ LoopMove("serving", "draining")
  /\ UNCHANGED <<threads, reaping, asked, joining>>

\* variant: the connections are not waited for
StopReaperAtOnce ==
  /\ LoopMove("draining", "look")
  /\ stopFlag' = TRUE
  /\ UNCHANGED <<threads, reaper, asked, joining>>

\* the lifespan's finally clause calls stop_reaper once they are; it sets the
\* event ...
StopReaper ==
  /\ \A c \in Callers : pc[c] = "idle"
  /\ LoopMove("draining", "look")
  /\ stopFlag' = TRUE
  /\ UNCHANGED <<threads, reaper, asked, joining>>

\* ... and sees whether there is a reaper, which a preload may be replacing
LookForReaper ==
  /\ LoopMove("look", IF reaper = None THEN "stopped" ELSE "join")
  /\ UNCHANGED <<threads, reaping, asked, joining>>

JoinReaper ==
  /\ LoopMove("join", "joining")
  /\ joining' = reaper
  /\ UNCHANGED <<threads, reaping, asked>>

\* joining a thread that is not started is a RuntimeError out of stop_reaper
JoinRaises ==
  /\ LoopMove("joining", "raised")
  /\ pc[joining] = "new"
  /\ joining' = None
  /\ UNCHANGED <<threads, reaping, asked>>

\* join(timeout=5) returns: the thread has ended, or it is where it may be held
\* up for longer than that, or _ensure_reaper has cleared the event again
JoinReturns ==
  /\ LoopMove("joining", "clear")
  /\ pc[joining] # "new"
  /\ \/ pc[joining] \in {"dead", "lock", "recheck", "leave"} \cup UnloadPcs
     \/ ~stopFlag
  /\ joining' = None
  /\ UNCHANGED <<threads, reaping, asked>>

\* _reaper = None, whichever thread it refers to by now
ForgetReaper ==
  /\ LoopMove("clear", "stopped")
  /\ reaper' = None
  /\ UNCHANGED <<threads, stopFlag, asked, joining>>

\* the process may exit from here on
Exited == loop \in {"stopped", "raised"} /\ UNCHANGED vars

---------------------------------------------------------------------------
(* Time, the collector, and the whole.                                     *)

\* a tick of the monotonic clock; the age beyond IdleTimeout is not told apart
Tick ==
  /\ idle # None /\ idle < IdleTimeout
  /\ idle' = idle + 1
  /\ UNCHANGED <<modelId, model, loadingId, device, lock, pc, want, reaping,
                 looping>>

\* the interpreter's own cyclic collection, at any time
CyclicGC ==
  /\ \E m \in Models :
       /\ device[m] \in {"dropped", "stranded"}
       /\ device' = [device EXCEPT ![m] = "absent"]
  /\ UNCHANGED <<modelId, model, loadingId, idle, lock, pc, want, reaping,
                 looping>>

EnsureLoaded(t) ==
  \/ EnsureFast(t) \/ EnsureSlow(t) \/ EnsureLock(t)
  \/ RecheckResident(t) \/ RecheckNoDisk(t) \/ RecheckLoad(t)
  \/ LoadWeights(t) \/ LoadFails(t) \/ Publish(t) \/ PublishId(t)
  \/ TouchLoaded(t)
  \/ EnsureReaperLooks(t) \/ EnsureReaperAsks(t)
  \/ EnsureReaperClears(t) \/ EnsureReaperStarts(t)
  \/ \E r \in Reapers : EnsureReaperCreates(t, r) \/ EnsureReaperLost(t, r)
  \/ Finally(t) \/ LeaveEnsure(t)

UnloadResident(t) ==
  \/ UnloadNothing(t) \/ DropModel(t) \/ DropId(t) \/ DropClock(t)
  \/ SweepDevice(t)

CallerStep(c) ==
  \/ EnterGenerate(c) \/ EnsureLoaded(c) \/ UnloadResident(c)
  \/ Generate(c) \/ TouchUsed(c) \/ ExitGenerate(c) \/ ReturnAudio(c)

LoaderStep(l) == EnsureLoaded(l) \/ UnloadResident(l)

ReaperStep(r) ==
  \/ ReaperWakes(r) \/ ReaperPeeks(r) \/ ReaperReadsAge(r)
  \/ ReaperLocks(r) \/ ReaperRechecks(r) \/ UnloadResident(r)
  \/ ReaperLeaves(r)

\* what the loop does once it has begun to do it
LoopStep ==
  \/ HealthReadsAge \/ HealthFails
  \/ PreloadDeclined \/ \E l \in Loaders : PreloadStarted(l)
  \/ StopReaper \/ LookForReaper \/ JoinReaper
  \/ JoinRaises \/ JoinReturns \/ ForgetReaper

\* what is asked of it from outside
Demand ==
  \/ \E c \in Callers, m \in Models : Submit(c, m)
  \/ \E m \in Models : PreloadAsked(m)
  \/ HealthSeesModel
  \/ Terminate

Next ==
  \/ \E c \in Callers : CallerStep(c)
  \/ \E l \in Loaders : LoaderStep(l)
  \/ \E r \in Reapers : ReaperStep(r)
  \/ LoopStep
  \/ Demand
  \/ Exited
  \/ Tick
  \/ CyclicGC

\* Every thread is scheduled again and again, every blocking call returns
\* (generation is bounded by max_new_tokens) and time passes.  Nothing is
\* assumed of the order in which the lock is handed over, of requests
\* arriving, or of the collector.
Fairness ==
  /\ \A c \in Callers : WF_vars(CallerStep(c))
  /\ \A l \in Loaders : WF_vars(LoaderStep(l))
  /\ \A r \in Reapers : WF_vars(ReaperStep(r))
  /\ WF_vars(LoopStep)
  /\ WF_vars(Tick)

Spec == Init /\ [][Next]_vars /\ Fairness

---------------------------------------------------------------------------
(* Properties.                                                             *)

\* The type invariant.
TypeOK ==
  /\ modelId \in Models \cup {None}
  /\ model \in Models \cup {None}
  /\ loadingId \in Models \cup {None}
  /\ idle \in (0 .. IdleTimeout) \cup {None}
  /\ device \in [Models -> DeviceStates]
  /\ owner \in Threads \cup {None}
  /\ depth \in 0 .. 2
  /\ pc \in [Threads -> CallerPcs \cup LoaderPcs \cup ReaperPcs]
  /\ \A c \in Callers : pc[c] \in CallerPcs
  /\ \A l \in Loaders : pc[l] \in LoaderPcs
  /\ \A r \in Reapers : pc[r] \in ReaperPcs
  /\ want \in [Workers -> Models \cup {None}]
  /\ reaper \in Reapers \cup {None}
  /\ stopFlag \in BOOLEAN
  /\ loop \in LoopStates
  /\ asked \in Models \cup {None}
  /\ joining \in Reapers \cup {None}

\* A generate in flight runs the model its request asked for, that model is
\* the resident one and its weights are on the device: no swap, preload or
\* reaper frees it under the generate (the promise of the lock, engine.py:272).
GenerateHoldsItsModel ==
  \A c \in Callers : pc[c] \in {"use", "done"} =>
     /\ owner = c
     /\ model = want[c]
     /\ modelId = want[c]
     /\ device[want[c]] = "live"

\* Whenever no thread holds the lock the slot is in one piece, whatever raised
\* on the way: the id names the model held, the idle clock runs exactly when
\* there is one, nothing claims to be loading, and only the resident model is
\* live on the device.
SlotWhole ==
  owner = None =>
     /\ modelId = model
     /\ idle = None <=> model = None
     /\ loadingId = None
     /\ \A m \in Models : device[m] = "live" <=> model = m

\* A load never starts while weights that the swap has just released are
\* still on the device (the collect before the sweep, engine.py:311).
SwapFreesFirst ==
  \A t \in Workers : pc[t] = "load" =>
     \A m \in Models : device[m] \notin {"live", "dropped"}

\* The device never holds two models, not even one that is on its way out beside
\* one on its way in, through any sequence of swaps, evictions and unloads that
\* raise: no "16GB swap becomes a 32GB peak" (engine.py:317).  What a load that
\* raised has left there is not counted (stranded).
OneModelOnDevice ==
  \A m, n \in Models :
    device[m] \in {"live", "dropped"} /\ device[n] \in {"live", "dropped"} => m = n

\* Who holds the lock only moves towards its release: a hold is a bounded number
\* of steps of the thread's own, whatever raises and whoever waits for it.
StepsLeft ==
  [ensure |-> 21, lock |-> 20, recheck |-> 19, unload |-> 18, dropId |-> 17,
   dropClock |-> 16, sweep |-> 15, load |-> 14, publish |-> 13, publishId |-> 12,
   touch |-> 11, spawn |-> 10, alive |-> 9, start |-> 8, create |-> 7, begin |-> 6,
   finally |-> 5, abort |-> 5, unwatched |-> 5, leave |-> 4, raise |-> 4,
   use |-> 3, done |-> 2, exit |-> 1]
HoldsEnd ==
  [][\A t \in Threads : owner = t /\ owner' = t =>
       pc'[t] = pc[t] \/ StepsLeft[pc'[t]] < StepsLeft[pc[t]]]_vars

\* Until shutdown begins to stop it there is at most one reaper, it is the one
\* _reaper refers to and nobody has told it to stop.
OneReaper ==
  loop \notin Stopping =>
     \A r \in Reapers : Alive(r) => reaper = r /\ ~stopFlag

\* A model that is resident with the lock free is watched: until shutdown, and
\* unless it is disabled, a reaper is alive to evict it.
ResidentIsWatched ==
  model # None /\ owner = None /\ IdleTimeout > 0
    /\ loop \notin Stopping => ReaperRuns

\* The reaper takes a model away only when it has been idle for the timeout at
\* that moment: a generate it had to wait for saves the model (engine.py:346).
EvictsOnlyIdle ==
  [][model' # model /\ owner \in Reapers => idle = IdleTimeout]_vars

\* Whatever a load runs into, loading_model stops naming it: a client that
\* polls /health for the end of a load sees one (engine.py:453).
LoadingEnds == \A m \in Models : loadingId = m ~> loadingId # m

\* Once connections are drained shutdown gets past the reaper, whoever holds the
\* lock the reaper may be waiting for (stop_reaper's bounded join), whichever
\* thread object a preload has just put in its place: stop_reaper returns or
\* raises.
ShutdownCompletes == loop = "draining" ~> loop \in {"stopped", "raised"}

\* Once requests stop arriving a resident model is evicted, and stays so.
IdleModelEvicted == <>[]Quiet => <>[](modelId = None)

\* The engine is a ModelSlot: _model is the slot, and a client uses it from the
\* return of ensure_loaded to the end of the model call.
Slot == INSTANCE ModelSlot WITH
  Clients <- Callers,
  resident <- model,
  using <- [c \in Callers |-> IF pc[c] = "use" THEN want[c] ELSE None]

ImplementsSlot == Slot!Spec

---------------------------------------------------------------------------
(* What comments in the code say and the code does not keep.               *)

\* "a health endpoint must never 500 over a stat read" (engine.py:203), and
\* idle_seconds is "None if nothing is resident" (engine.py:293): /health
\* answers whatever the other threads are doing.
HealthAnswers == loop # "error"

---------------------------------------------------------------------------
(* The inductive invariant behind the safety properties (EngineProofs).    *)

\* the thread is inside the with-block of _lock, once or twice
Holds(t) ==
  \/ t \in Callers /\ pc[t] \in {"ensure", "lock", "use", "done", "exit"} \cup LoadPcs
  \/ t \in Loaders /\ pc[t] \in LoadPcs
  \/ t \in Reapers /\ pc[t] \in {"recheck", "leave"} \cup UnloadPcs

LockInv ==
  /\ \A t \in Threads : owner = t <=> Holds(t)
  /\ owner = None => depth = 0
  /\ \A t \in Threads : owner = t =>
       depth = IF t \in Callers /\ pc[t] \in LoadPcs THEN 2 ELSE 1

\* a thread, a preload request and a join that are under way have their argument
CallInv ==
  /\ \A t \in Workers : pc[t] \notin {"idle", "free"} => want[t] \in Models
  /\ loop = "preload" => asked \in Models
  /\ loop \in {"join", "joining", "clear"} => reaper \in Reapers
  /\ loop = "joining" => joining \in Reapers

Whole ==
  /\ modelId = model
  /\ idle = None <=> model = None
  /\ loadingId = None

\* in _ensure_reaper, or on the way out after it raised
WatchPcs == {"spawn", "alive", "start", "create", "begin", "unwatched"}

\* how much of the slot is in place at each step of the thread that changes it
SlotAt(t) ==
  /\ pc[t] \in {"ensure", "lock", "recheck", "use", "done", "exit", "leave",
                "raise"} => Whole
  /\ pc[t] \in {"use", "done"} \/ (t \in Workers /\ pc[t] = "leave")
       => model = want[t]
  /\ pc[t] = "unload" => modelId = model /\ (idle = None <=> model = None)
  /\ pc[t] = "unload" /\ t \in Reapers => idle = IdleTimeout
  /\ pc[t] \in {"dropId", "dropClock", "sweep", "load", "publish", "abort"}
       => model = None
  /\ pc[t] \in {"dropClock", "sweep", "load", "publish", "publishId", "abort"}
       => modelId = None
  /\ pc[t] \in {"sweep", "load", "publish", "publishId", "touch", "abort"}
       => idle = None
  /\ pc[t] \in {"publishId", "touch", "finally"} \cup WatchPcs => model = want[t]
  /\ pc[t] \in {"touch", "finally"} \cup WatchPcs => modelId = want[t]
  /\ pc[t] \in {"finally"} \cup WatchPcs => idle # None
  /\ t \in Reapers => loadingId = None

SlotInv ==
  /\ owner = None => Whole
  /\ \A t \in Threads : owner = t => SlotAt(t)

DeviceInv ==
  /\ \A m \in Models :
       device[m] = "live" <=>
         m = model \/ \E t \in Workers : pc[t] = "publish" /\ m = want[t]
  /\ \A m \in Models :
       device[m] = "dropped" =>
         \E t \in Threads : pc[t] \in {"dropId", "dropClock", "sweep"}

\* before shutdown: one reaper, not told to stop, there for every model except
\* between its publication and the start of the reaper
ReaperInv ==
  loop \notin Stopping =>
    /\ ~stopFlag
    /\ \A r \in Reapers : Alive(r) => reaper = r
    /\ \A t \in Workers :
         /\ pc[t] # "unwatched"
         /\ pc[t] = "alive" => reaper # None
         /\ pc[t] \in {"start", "create", "begin"} => ~ReaperRuns
         /\ pc[t] = "begin" => reaper # None
    /\ IdleTimeout > 0 /\ model # None =>
         \/ ReaperRuns
         \/ \E t \in Workers : pc[t] \in {"publishId", "touch"} \cup WatchPcs

IInv == TypeOK /\ LockInv /\ CallInv /\ SlotInv /\ DeviceInv /\ ReaperInv

=============================================================================
