--------------------------- MODULE ShutdownProofs ---------------------------
(***************************************************************************)
(* Proofs about Shutdown: closing the worker pool beside the running engine *)
(* keeps the engine's invariant, and ends with the pool closed unless       *)
(* closing it raised.                                                      *)
(*                                                                         *)
(* The argument: nothing but EngineGoesOn writes the engine's variables, so *)
(* its invariant carries over; of the pool, the polite thread ends only by  *)
(* closing it or by raising, and shutdown goes past it only then or after   *)
(* kill_workers; an exception out of stop_reaper goes no further than    *)
(* the pool.                                                               *)
(***************************************************************************)
EXTENDS Shutdown, EngineProofs

\* How far the polite thread and the pool are at each stage.
PoolInv ==
  /\ closing \in {"no", "pool"} => polite = "none"
  /\ closing # "raised"
  /\ closing = "drain" => polite # "none"
  /\ polite = "running" => executor # "missing"
  /\ polite \in {"ended", "raised"} => executor \in {"closed", "broken"}
  /\ PoolClosedAtExit

ShutdownInv == IInv /\ ShutdownTypeOK /\ PoolInv

\* The engine as constructed, and a pool that may not exist.
LEMMA ShutdownInitInv == PoolInit => ShutdownInv
PROOF
  <1> SUFFICES ASSUME PoolInit PROVE ShutdownInv
    OBVIOUS
  <1>1. IInv
    BY InitIInv DEF PoolInit
  <1>2. ShutdownTypeOK
    BY <1>1 DEF IInv, PoolInit, ShutdownTypeOK, ClosingSteps, PoliteStates,
        ExecutorStates
  <1>3. PoolInv
    BY DEF PoolInit, PoolInv, PoolClosedAtExit
  <1>q. QED
    BY <1>1, <1>2, <1>3 DEF ShutdownInv

\* A step that closes the pool leaves the engine alone.
LEMMA PoolStepsKeepIInv ==
  ASSUME ShutdownInv, [ShutdownNext]_allVars
  PROVE  IInv'
PROOF
  <1>1. [Next]_vars
    BY DEF ShutdownNext, EngineGoesOn, PoolStep, ReaperStopped, CatchReaper, NoPool,
        AskPolitely, PoliteEnds, Drained, GraceOver, KillWorkers, allVars
  <1>q. QED
    BY <1>1, NextKeepsIInv DEF ShutdownInv

\* Every step, of the engine or of the shutdown beside it, keeps the invariant.
LEMMA ShutdownNextKeepsInv == ShutdownInv /\ [ShutdownNext]_allVars => ShutdownInv'
PROOF
  <1> SUFFICES ASSUME ShutdownInv, [ShutdownNext]_allVars PROVE ShutdownInv'
    OBVIOUS
  <1>1. IInv'
    BY PoolStepsKeepIInv
  <1>2. /\ closing' \in ClosingSteps
        /\ polite' \in PoliteStates
        /\ executor' \in ExecutorStates
        /\ PoolInv'
    <2> USE DEF ShutdownInv, ShutdownTypeOK, PoolInv, PoolClosedAtExit,
                ClosingSteps, PoliteStates, ExecutorStates
    <2>1. CASE EngineGoesOn \/ UNCHANGED allVars
      BY <2>1 DEF EngineGoesOn, pooling, allVars
    <2>2. CASE ReaperStopped \/ CatchReaper \/ NoPool \/ AskPolitely
      BY <2>2 DEF ReaperStopped, CatchReaper, NoPool, AskPolitely
    <2>3. CASE PoliteEnds
      BY <2>3 DEF PoliteEnds
    <2>4. CASE Drained \/ GraceOver
      BY <2>4 DEF Drained, GraceOver
    <2>5. CASE KillWorkers
      BY <2>5 DEF KillWorkers
    <2>q. QED
      BY <2>1, <2>2, <2>3, <2>4, <2>5 DEF ShutdownNext, PoolStep
  <1>q. QED
    BY <1>1, <1>2 DEF ShutdownInv, ShutdownTypeOK, IInv

\* The engine's invariant and the pool's hold through shutdown.
THEOREM ShutdownInvariance == ShutdownSpec => []ShutdownInv
PROOF
  BY ShutdownInitInv, ShutdownNextKeepsInv, PTL DEF ShutdownSpec

\* Every variable keeps its type, the engine's included.
THEOREM ShutdownTypeCorrect == ShutdownSpec => []ShutdownTypeOK
PROOF
  <1>1. ShutdownInv => ShutdownTypeOK
    BY DEF ShutdownInv
  <1>q. QED
    BY <1>1, ShutdownInvariance, PTL

\* When shutdown is over the pool is closed, or closing it raised, also if
\* stop_reaper raised; and no exception has left shutdown (PoolInv).
THEOREM PoolIsClosedAtExit == ShutdownSpec => []PoolClosedAtExit
PROOF
  <1>1. ShutdownInv => PoolClosedAtExit
    BY DEF ShutdownInv, PoolInv
  <1>q. QED
    BY <1>1, ShutdownInvariance, PTL

\* Shutdown takes no model from a generate in flight: there is none once the
\* reaper is being stopped, and until then the lock protects it.
THEOREM ShutdownSparesGenerates == ShutdownSpec => []GenerateHoldsItsModel
PROOF
  <1>1. ShutdownInv => GenerateHoldsItsModel
    BY InvariantSparesGenerates DEF ShutdownInv
  <1>q. QED
    BY <1>1, ShutdownInvariance, PTL

---------------------------------------------------------------------------
(* The engine inside the composition.                                      *)

LEMMA StepsAreEngineSteps == [ShutdownNext]_allVars => [Next]_vars
PROOF
  BY DEF ShutdownNext, EngineGoesOn, PoolStep, ReaperStopped, CatchReaper, NoPool,
      AskPolitely, PoliteEnds, Drained, GraceOver, KillWorkers, allVars

\* Seen without the pool a run of the composition is one of the engine: closing
\* the pool never touches it, and every safety theorem about Engine holds here.
THEOREM ShutdownRunsTheEngine == ShutdownSpec => Init /\ [][Next]_vars
PROOF
  <1>1. PoolInit => Init
    BY DEF PoolInit
  <1>q. QED
    BY <1>1, StepsAreEngineSteps, PTL DEF ShutdownSpec

\* The promise of ModelSlot is kept through shutdown.
THEOREM ShutdownKeepsTheSlot == ShutdownSpec => Slot!Safety
PROOF
  <1>1. PoolInit => Slot!Init
    BY ThreadsAssumption DEF PoolInit, Init, Slot!Init, Threads, Workers
  <1>2. ShutdownInv /\ [ShutdownNext]_allVars => [Slot!Next]_(Slot!vars)
    BY StepsAreEngineSteps, StepRefines DEF ShutdownInv
  <1>q. QED
    BY <1>1, <1>2, ShutdownInvariance, PTL DEF ShutdownSpec, Slot!Safety

---------------------------------------------------------------------------
(* Reapers are stopped for good.                                           *)

\* stop_reaper is called with no request open, and none is accepted any more
CallersGone == loop \in Stopping => \A c \in Callers : pc[c] = "idle"

\* a thread that is at no step of ensure_loaded takes none
LEMMA NotLoading ==
  ASSUME NEW t \in Workers, pc[t] \in {"idle", "free"}
  PROVE  ~EnsureLoaded(t) /\ ~UnloadResident(t)
PROOF
  BY DEF EnsureLoaded, EnsureFast, EnsureSlow, EnsureLock, RecheckResident,
      RecheckNoDisk, RecheckLoad, LoadWeights, LoadFails, Publish, PublishId,
      TouchLoaded, EnsureReaperLooks, EnsureReaperAsks,
      EnsureReaperClears, EnsureReaperCreates, EnsureReaperStarts, EnsureReaperLost,
      Finally, LeaveEnsure, UnloadResident, UnloadNothing, DropModel, DropId,
      DropClock, SweepDevice, Jump, Move

\* with the callers gone no caller has a step left, and the loop takes no request
LEMMA LateSteps ==
  ASSUME IInv, CallersGone, loop \in Stopping, [Next]_vars
  PROVE  /\ loop' \in Stopping
         /\ \/ \E l \in Loaders : LoaderStep(l)
            \/ \E r \in Reapers : ReaperStep(r)
            \/ UNCHANGED <<pc, stopFlag>>
PROOF
  <1>1. ASSUME NEW c \in Callers, CallerStep(c) PROVE FALSE
    <2>1. pc[c] = "idle"
      BY DEF CallersGone
    <2>q. QED
      BY <1>1, <2>1, NotLoading DEF CallerStep, EnterGenerate, Generate, TouchUsed,
        ExitGenerate, ReturnAudio, Jump, Move, Workers
  <1>2. ASSUME \/ \E c \in Callers : CallerStep(c)
               \/ \E l \in Loaders : LoaderStep(l)
               \/ \E r \in Reapers : ReaperStep(r)
        PROVE  loop' = loop
    BY <1>2, ThreadsKeepLoop
  <1>3. ASSUME LoopStep PROVE loop' \in Stopping /\ UNCHANGED <<pc, stopFlag>>
    BY <1>3 DEF LoopStep, HealthReadsAge, HealthFails, PreloadDeclined, PreloadStarted,
      StopReaper, LookForReaper, JoinReaper, JoinRaises, JoinReturns, ForgetReaper,
      LoopMove, threads, reaping, Stopping
  <1>4. ~Demand
    BY DEF Stopping, Demand, Submit, PreloadAsked, HealthSeesModel, Terminate, LoopMove
  <1>5. ASSUME Exited \/ Tick \/ CyclicGC \/ UNCHANGED vars
        PROVE  loop' = loop /\ UNCHANGED <<pc, stopFlag>>
    BY <1>5 DEF Exited, Tick, CyclicGC, vars, reaping, looping
  <1>q. QED
    BY <1>1, <1>2, <1>3, <1>4, <1>5 DEF Next

\* a loader's and a reaper's steps are of loaders and reapers
LEMMA CallersStayIdle ==
  ASSUME IInv, CallersGone, loop \in Stopping, [Next]_vars,
         NEW c \in Callers
  PROVE  pc'[c] = "idle"
PROOF
  <1> USE ThreadsAssumption DEF Move, Jump, Threads, Workers
  <1>0. pc \in [Threads -> CallerPcs \cup LoaderPcs \cup ReaperPcs] /\ pc[c] = "idle"
    BY DEF IInv, TypeOK, CallersGone
  <1>1. ASSUME NEW t \in Threads, t \notin Callers, UnloadResident(t)
        PROVE  pc'[c] = pc[c]
    BY <1>0, <1>1 DEF UnloadResident, UnloadNothing, DropModel, DropId, DropClock,
      SweepDevice
  <1>2. ASSUME NEW l \in Loaders, EnsureLoaded(l) PROVE pc'[c] = pc[c]
    BY <1>0, <1>2, LoadMovesItself
  <1>3. ASSUME NEW r \in Reapers, ReaperStep(r) PROVE pc'[c] = pc[c]
    BY <1>0, <1>1, <1>3 DEF ReaperStep, ReaperWakes, ReaperPeeks, ReaperReadsAge,
      ReaperLocks, ReaperRechecks, ReaperLeaves
  <1>q. QED
    BY <1>0, <1>1, <1>2, <1>3, LateSteps DEF LoaderStep

LEMMA NextKeepsCallersGone ==
  ASSUME IInv, CallersGone, [Next]_vars
  PROVE  CallersGone'
PROOF
  <1>1. CASE loop \in Stopping
    BY <1>1, CallersStayIdle DEF CallersGone
  <1>2. ASSUME loop \notin Stopping, loop' \in Stopping
        PROVE  StopReaper
    <2>1. CASE \/ \E c \in Callers : CallerStep(c)
               \/ \E l \in Loaders : LoaderStep(l)
               \/ \E r \in Reapers : ReaperStep(r)
      BY <1>2, <2>1, ThreadsKeepLoop
    <2>2. CASE LoopStep \/ Demand
      BY <1>2, <2>2 DEF LoopStep, HealthReadsAge, HealthFails, PreloadDeclined,
        PreloadStarted, LookForReaper, JoinReaper, JoinRaises, JoinReturns,
        ForgetReaper, Demand, Submit, PreloadAsked, HealthSeesModel, Terminate,
        LoopMove, looping, Stopping
    <2>3. CASE Exited \/ Tick \/ CyclicGC \/ UNCHANGED vars
      BY <1>2, <2>3 DEF Exited, Tick, CyclicGC, vars, looping
    <2>q. QED
      BY <2>1, <2>2, <2>3 DEF Next
  <1>3. StopReaper => \A c \in Callers : pc'[c] = "idle"
    BY DEF StopReaper, threads
  <1>q. QED
    BY <1>1, <1>2, <1>3 DEF CallersGone

\* a reaper's own step leaves the event, the preload threads and other reapers
\* alone, and it takes none once it has ended
LEMMA ReaperStepKeeps ==
  ASSUME IInv, NEW q \in Reapers, ReaperStep(q)
  PROVE  /\ stopFlag' = stopFlag
         /\ \A l \in Loaders : pc'[l] = pc[l]
         /\ \A r \in Reapers : ~Alive(r) => ~Alive(r)'
PROOF
  <1> USE ThreadsAssumption DEF Move, Jump, Threads, Workers, Alive
  <1>0. pc \in [Threads -> CallerPcs \cup LoaderPcs \cup ReaperPcs]
    BY DEF IInv, TypeOK
  <1>1. CASE UnloadResident(q)
    BY <1>0, <1>1 DEF UnloadResident, UnloadNothing, DropModel, DropId, DropClock,
      SweepDevice, reaping
  <1>2. CASE ~UnloadResident(q)
    BY <1>0, <1>2 DEF ReaperStep, ReaperWakes, ReaperPeeks, ReaperReadsAge, ReaperLocks,
      ReaperRechecks, ReaperLeaves, reaping
  <1>q. QED
    BY <1>1, <1>2

LEMMA WindingStays ==
  ASSUME IInv, CallersGone, Winding, [Next]_vars
  PROVE  Winding' /\ \A r \in Reapers : ~Alive(r) => ~Alive(r)'
PROOF
  <1>1. ASSUME NEW l \in Loaders, LoaderStep(l) PROVE FALSE
    BY <1>1, NotLoading DEF LoaderStep, Winding, Workers
  <1>2. CASE \E q \in Reapers : ReaperStep(q)
    BY <1>2, LateSteps, ReaperStepKeeps DEF Winding
  <1>3. CASE UNCHANGED <<pc, stopFlag>>
    BY <1>3, LateSteps DEF Winding, Alive
  <1>q. QED
    BY <1>1, <1>2, <1>3, LateSteps DEF Winding

\* Once stop_reaper has been called and no preload is left, no reaper that has
\* ended is followed by another: the event stays set and nothing loads.  With it
\* ReaperEnds, which is checked, means that it ends for good.
THEOREM ReapersStopForGood == ShutdownSpec => StoppedForGood
PROOF
  <1>1. PoolInit => CallersGone
    BY DEF PoolInit, Init, CallersGone, Stopping
  <1>2. ShutdownInv /\ CallersGone /\ [ShutdownNext]_allVars => CallersGone'
    BY StepsAreEngineSteps, NextKeepsCallersGone DEF ShutdownInv
  <1>3. ShutdownInv /\ CallersGone /\ [ShutdownNext]_allVars =>
          [Winding => Winding' /\ \A r \in Reapers : ~Alive(r) => ~Alive(r)']_allVars
    BY StepsAreEngineSteps, WindingStays DEF ShutdownInv
  <1>q. QED
    BY <1>1, <1>2, <1>3, ShutdownInvariance, PTL DEF ShutdownSpec, StoppedForGood

=============================================================================
