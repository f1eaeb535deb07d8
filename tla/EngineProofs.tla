---------------------------- MODULE EngineProofs ----------------------------
(***************************************************************************)
(* Proofs about Engine, for any number of threads, models and any timeout: *)
(* its inductive invariant, the safety properties that follow from it, and *)
(* that it implements ModelSlot.                                           *)
(*                                                                         *)
(* The argument: a thread is inside the with-block of _lock exactly when   *)
(* its pc says so (LockInv), so at most one thread is, and only that       *)
(* thread writes the slot.  SlotInv then says, step by step of that        *)
(* thread, how much of the slot is in place; every way out of the block,   *)
(* those that raise included, leaves it whole.                             *)
(***************************************************************************)
EXTENDS Engine, TLAPS

---------------------------------------------------------------------------
(* The inductive invariant.                                                *)

\* The engine as constructed by __init__ satisfies the invariant.
LEMMA InitIInv == Init => IInv
PROOF
  <1> SUFFICES ASSUME Init PROVE IInv
    OBVIOUS
  <1> USE ThreadsAssumption, TimeoutAssumption DEF Init, Threads, Workers
  <1>1. TypeOK
    <2>1. pc \in [Threads -> CallerPcs \cup LoaderPcs \cup ReaperPcs]
      BY DEF CallerPcs, LoaderPcs, ReaperPcs
    <2>2. /\ \A c \in Callers : pc[c] \in CallerPcs
          /\ \A l \in Loaders : pc[l] \in LoaderPcs
          /\ \A r \in Reapers : pc[r] \in ReaperPcs
      BY DEF CallerPcs, LoaderPcs, ReaperPcs
    <2>3. stopFlag \in BOOLEAN
      BY Zenon
    <2>q. QED
      BY <2>1, <2>2, <2>3 DEF TypeOK, LoopStates, DeviceStates
  <1>2. LockInv
    BY DEF LockInv, Holds, LoadPcs, UnloadPcs
  <1>3. CallInv /\ SlotInv /\ ReaperInv
    BY DEF CallInv, SlotInv, Whole, ReaperInv, ReaperRuns, Alive
  <1>4. DeviceInv
    BY DEF DeviceInv
  <1>q. QED
    BY <1>1, <1>2, <1>3, <1>4 DEF IInv

\* A step of ensure_loaded, in a preload thread or inside a generate, keeps the
\* invariant.
LEMMA EnsureLoadedKeepsIInv ==
  ASSUME IInv, NEW t \in Workers, EnsureLoaded(t)
  PROVE  IInv'
PROOF
  <1> USE ThreadsAssumption, TimeoutAssumption
      DEF IInv, TypeOK, Move, Jump, LoopMove, Threads, Workers, CallerPcs,
          LoaderPcs, ReaperPcs, LoadPcs, UnloadPcs, LoopStates, Stopping, WatchPcs,
          DeviceStates, slot, lock, reaping, looping, threads
  <1>1. CASE EnsureFast(t)
    BY <1>1 DEF EnsureFast, Returned, Forget, LockInv, Holds, CallInv,
        SlotInv, SlotAt, Whole, DeviceInv, ReaperInv, ReaperRuns, Alive
  <1>2. CASE EnsureSlow(t)
    BY <1>2 DEF EnsureSlow, LockInv, Holds, CallInv, SlotInv, SlotAt, Whole,
        DeviceInv, ReaperInv, ReaperRuns, Alive
  <1>3. CASE EnsureLock(t)
    BY <1>3 DEF EnsureLock, Acquire, LockInv, Holds, CallInv, SlotInv, SlotAt,
        Whole, DeviceInv, ReaperInv, ReaperRuns, Alive
  <1>4. CASE RecheckResident(t)
    BY <1>4 DEF RecheckResident, LockInv, Holds, CallInv, SlotInv, SlotAt,
        Whole, DeviceInv, ReaperInv, ReaperRuns, Alive
  <1>5. CASE RecheckNoDisk(t)
    BY <1>5 DEF RecheckNoDisk, LockInv, Holds, CallInv, SlotInv, SlotAt,
        Whole, DeviceInv, ReaperInv, ReaperRuns, Alive
  <1>6. CASE RecheckLoad(t)
    BY <1>6 DEF RecheckLoad, LockInv, Holds, CallInv, SlotInv, SlotAt, Whole,
        DeviceInv, ReaperInv, ReaperRuns, Alive
  <1>7. CASE LoadWeights(t)
    <2>1. TypeOK' /\ LockInv' /\ CallInv' /\ ReaperInv'
      BY <1>7 DEF LoadWeights, LockInv, Holds, CallInv, ReaperInv, ReaperRuns,
          Alive, SlotInv, SlotAt
    <2>2. SlotInv'
      BY <1>7 DEF LoadWeights, SlotInv, SlotAt, Whole, LockInv, Holds, CallInv
    <2>3. DeviceInv'
      BY <1>7 DEF LoadWeights, DeviceInv, LockInv, Holds, SlotInv, SlotAt,
          CallInv
    <2>q. QED
      BY <2>1, <2>2, <2>3
  <1>8. CASE LoadFails(t)
    <2>1. TypeOK' /\ LockInv' /\ CallInv' /\ ReaperInv'
      BY <1>8 DEF LoadFails, LockInv, Holds, CallInv, ReaperInv, ReaperRuns,
          Alive, SlotInv, SlotAt
    <2>2. SlotInv'
      BY <1>8 DEF LoadFails, SlotInv, SlotAt, Whole, LockInv, Holds, CallInv
    <2>3. DeviceInv'
      BY <1>8 DEF LoadFails, DeviceInv, LockInv, Holds, SlotInv, SlotAt,
          CallInv
    <2>q. QED
      BY <2>1, <2>2, <2>3
  <1>9. CASE Publish(t)
    <2>1. TypeOK' /\ LockInv' /\ CallInv'
      BY <1>9 DEF Publish, LockInv, Holds, CallInv
    <2>2. SlotInv'
      BY <1>9 DEF Publish, SlotInv, SlotAt, Whole, LockInv, Holds, CallInv
    <2>3. DeviceInv'
      BY <1>9 DEF Publish, DeviceInv, LockInv, Holds, SlotInv, SlotAt, CallInv
    <2>4. ReaperInv'
      BY <1>9 DEF Publish, ReaperInv, ReaperRuns, Alive, LockInv, Holds,
          SlotInv, SlotAt
    <2>q. QED
      BY <2>1, <2>2, <2>3, <2>4
  <1>10. CASE PublishId(t)
    <2>1. TypeOK' /\ LockInv' /\ CallInv' /\ DeviceInv' /\ ReaperInv'
      BY <1>10 DEF PublishId, LockInv, Holds, CallInv, DeviceInv, SlotInv,
          SlotAt, ReaperInv, ReaperRuns, Alive
    <2>2. SlotInv'
      BY <1>10 DEF PublishId, SlotInv, SlotAt, Whole, LockInv, Holds, CallInv
    <2>q. QED
      BY <2>1, <2>2
  <1>11. CASE TouchLoaded(t)
    <2>1. TypeOK' /\ LockInv' /\ CallInv' /\ DeviceInv' /\ ReaperInv'
      BY <1>11 DEF TouchLoaded, LockInv, Holds, CallInv, DeviceInv, SlotInv,
          SlotAt, ReaperInv, ReaperRuns, Alive
    <2>2. SlotInv'
      BY <1>11 DEF TouchLoaded, SlotInv, SlotAt, Whole, LockInv, Holds,
          CallInv
    <2>q. QED
      BY <2>1, <2>2
  <1>12. CASE EnsureReaperLooks(t)
    BY <1>12 DEF EnsureReaperLooks, LockInv, Holds, CallInv, SlotInv, SlotAt,
        Whole, DeviceInv, ReaperInv, ReaperRuns, Alive
  <1>13. CASE EnsureReaperAsks(t)
    <2>1. TypeOK' /\ LockInv' /\ CallInv' /\ SlotInv' /\ DeviceInv'
      BY <1>13 DEF EnsureReaperAsks, ReaperRuns, Alive, LockInv, Holds, CallInv,
          SlotInv, SlotAt, Whole, DeviceInv
    <2>2. ReaperInv'
      BY <1>13 DEF EnsureReaperAsks, ReaperInv, ReaperRuns, Alive, LockInv,
          Holds, SlotInv, SlotAt
    <2>q. QED
      BY <2>1, <2>2
  <1>14. CASE EnsureReaperClears(t)
    <2>b. stopFlag' \in BOOLEAN
      BY <1>14, Zenon DEF EnsureReaperClears
    <2>1. TypeOK' /\ LockInv' /\ CallInv' /\ SlotInv' /\ DeviceInv'
      BY <1>14, <2>b DEF EnsureReaperClears, LockInv, Holds, CallInv, SlotInv,
          SlotAt, Whole, DeviceInv
    <2>2. ReaperInv'
      BY <1>14 DEF EnsureReaperClears, ReaperInv, ReaperRuns, Alive, LockInv,
          Holds, SlotInv, SlotAt
    <2>q. QED
      BY <2>1, <2>2
  <1>15. CASE \E r \in Reapers : EnsureReaperCreates(t, r)
    <2>1. TypeOK' /\ LockInv' /\ CallInv' /\ SlotInv' /\ DeviceInv'
      BY <1>15 DEF EnsureReaperCreates, ReaperRuns, Alive, LockInv, Holds, CallInv,
          SlotInv, SlotAt, Whole, DeviceInv
    <2>2. ReaperInv'
      BY <1>15 DEF EnsureReaperCreates, ReaperInv, ReaperRuns, Alive, LockInv,
          Holds, SlotInv, SlotAt
    <2>q. QED
      BY <2>1, <2>2
  <1>16. CASE EnsureReaperStarts(t)
    <2>1. TypeOK' /\ LockInv' /\ CallInv' /\ SlotInv' /\ DeviceInv'
      BY <1>16 DEF EnsureReaperStarts, ReaperRuns, Alive, LockInv, Holds, CallInv,
          SlotInv, SlotAt, Whole, DeviceInv
    <2>2. ReaperInv'
      BY <1>16 DEF EnsureReaperStarts, ReaperInv, ReaperRuns, Alive, LockInv,
          Holds, SlotInv, SlotAt
    <2>q. QED
      BY <2>1, <2>2
  <1>17. CASE \E r \in Reapers : EnsureReaperLost(t, r)
    <2>1. TypeOK' /\ LockInv' /\ CallInv' /\ SlotInv' /\ DeviceInv'
      BY <1>17 DEF EnsureReaperLost, ReaperRuns, Alive, LockInv, Holds, CallInv,
          SlotInv, SlotAt, Whole, DeviceInv
    <2>2. ReaperInv'
      BY <1>17 DEF EnsureReaperLost, ReaperInv, ReaperRuns, Alive, LockInv,
          Holds, SlotInv, SlotAt
    <2>q. QED
      BY <2>1, <2>2
  <1>18. CASE Finally(t)
    <2>1. TypeOK' /\ LockInv' /\ CallInv' /\ DeviceInv' /\ ReaperInv'
      BY <1>18 DEF Finally, LockInv, Holds, CallInv, DeviceInv, SlotInv,
          SlotAt, ReaperInv, ReaperRuns, Alive
    <2>2. SlotInv'
      BY <1>18 DEF Finally, SlotInv, SlotAt, Whole, LockInv, Holds, CallInv
    <2>q. QED
      BY <2>1, <2>2
  <1>19. CASE LeaveEnsure(t)
    <2>1. TypeOK' /\ CallInv' /\ DeviceInv' /\ ReaperInv'
      BY <1>19 DEF LeaveEnsure, Release, Returned, Raised, Forget, LockInv,
          Holds, CallInv, DeviceInv, SlotInv, SlotAt, ReaperInv, ReaperRuns,
          Alive
    <2>2. LockInv'
      BY <1>19 DEF LeaveEnsure, Release, Returned, Raised, Forget, LockInv,
          Holds
    <2>3. SlotInv'
      BY <1>19 DEF LeaveEnsure, Release, Returned, Raised, Forget, SlotInv,
          SlotAt, Whole, LockInv, Holds, CallInv
    <2>q. QED
      BY <2>1, <2>2, <2>3
  <1>q. QED
    BY <1>1, <1>2, <1>3, <1>4, <1>5, <1>6, <1>7, <1>8, <1>9, <1>10, <1>11,
        <1>12, <1>13, <1>14, <1>15, <1>16, <1>17, <1>18, <1>19
    DEF EnsureLoaded

\* A step of _unload_resident keeps it, whoever called.
LEMMA UnloadKeepsIInv ==
  ASSUME IInv, NEW t \in Threads, UnloadResident(t)
  PROVE  IInv'
PROOF
  <1> USE ThreadsAssumption, TimeoutAssumption
      DEF IInv, TypeOK, Move, Jump, LoopMove, Threads, Workers, CallerPcs,
          LoaderPcs, ReaperPcs, LoadPcs, UnloadPcs, LoopStates, Stopping, WatchPcs,
          DeviceStates, slot, lock, reaping, looping, threads
  <1>1. CASE UnloadNothing(t)
    BY <1>1 DEF UnloadNothing, Unloaded, LockInv, Holds, CallInv, SlotInv,
        SlotAt, Whole, DeviceInv, ReaperInv, ReaperRuns, Alive
  <1>2. CASE DropModel(t)
    <2>1. TypeOK' /\ LockInv' /\ CallInv'
      BY <1>2 DEF DropModel, LockInv, Holds, CallInv
    <2>2. SlotInv'
      BY <1>2 DEF DropModel, SlotInv, SlotAt, Whole, LockInv, Holds, CallInv
    <2>3. DeviceInv'
      BY <1>2 DEF DropModel, DeviceInv, LockInv, Holds, SlotInv, SlotAt,
          CallInv
    <2>4. ReaperInv'
      BY <1>2 DEF DropModel, ReaperInv, ReaperRuns, Alive, LockInv, Holds,
          SlotInv, SlotAt
    <2>q. QED
      BY <2>1, <2>2, <2>3, <2>4
  <1>3. CASE DropId(t)
    <2>1. TypeOK' /\ LockInv' /\ CallInv' /\ DeviceInv' /\ ReaperInv'
      BY <1>3 DEF DropId, LockInv, Holds, CallInv, DeviceInv, SlotInv, SlotAt,
          ReaperInv, ReaperRuns, Alive
    <2>2. SlotInv'
      BY <1>3 DEF DropId, SlotInv, SlotAt, Whole, LockInv, Holds, CallInv
    <2>q. QED
      BY <2>1, <2>2
  <1>4. CASE DropClock(t)
    <2>1. TypeOK' /\ LockInv' /\ CallInv' /\ DeviceInv' /\ ReaperInv'
      BY <1>4 DEF DropClock, LockInv, Holds, CallInv, DeviceInv, SlotInv,
          SlotAt, ReaperInv, ReaperRuns, Alive
    <2>2. SlotInv'
      BY <1>4 DEF DropClock, SlotInv, SlotAt, Whole, LockInv, Holds, CallInv
    <2>q. QED
      BY <2>1, <2>2
  <1>5. CASE SweepDevice(t)
    <2>1. TypeOK' /\ LockInv' /\ CallInv' /\ ReaperInv'
      BY <1>5 DEF SweepDevice, Unloaded, UnloadRaised, LockInv, Holds,
          CallInv, ReaperInv, ReaperRuns, Alive, SlotInv, SlotAt
    <2>2. SlotInv'
      BY <1>5 DEF SweepDevice, Unloaded, UnloadRaised, SlotInv, SlotAt, Whole,
          LockInv, Holds, CallInv
    <2>3. DeviceInv'
      BY <1>5 DEF SweepDevice, Unloaded, UnloadRaised, DeviceInv, LockInv,
          Holds, SlotInv, SlotAt, CallInv
    <2>q. QED
      BY <2>1, <2>2, <2>3
  <1>q. QED
    BY <1>1, <1>2, <1>3, <1>4, <1>5 DEF UnloadResident

\* A step of a generate outside ensure_loaded keeps it.
LEMMA GenerateKeepsIInv ==
  ASSUME IInv, NEW c \in Callers,
         \/ EnterGenerate(c) \/ Generate(c) \/ TouchUsed(c)
         \/ ExitGenerate(c) \/ ReturnAudio(c)
  PROVE  IInv'
PROOF
  <1> USE ThreadsAssumption, TimeoutAssumption
      DEF IInv, TypeOK, Move, Jump, LoopMove, Threads, Workers, CallerPcs,
          LoaderPcs, ReaperPcs, LoadPcs, UnloadPcs, LoopStates, Stopping, WatchPcs,
          DeviceStates, slot, lock, reaping, looping, threads
  <1>1. CASE EnterGenerate(c)
    BY <1>1 DEF EnterGenerate, Acquire, LockInv, Holds, CallInv, SlotInv,
        SlotAt, Whole, DeviceInv, ReaperInv, ReaperRuns, Alive
  <1>2. CASE Generate(c)
    BY <1>2 DEF Generate, LockInv, Holds, CallInv, SlotInv, SlotAt, Whole,
        DeviceInv, ReaperInv, ReaperRuns, Alive
  <1>3. CASE TouchUsed(c)
    <2>1. TypeOK' /\ LockInv' /\ CallInv' /\ DeviceInv' /\ ReaperInv'
      BY <1>3 DEF TouchUsed, LockInv, Holds, CallInv, DeviceInv, SlotInv,
          SlotAt, ReaperInv, ReaperRuns, Alive
    <2>2. SlotInv'
      BY <1>3 DEF TouchUsed, SlotInv, SlotAt, Whole, LockInv, Holds, CallInv
    <2>q. QED
      BY <2>1, <2>2
  <1>4. CASE ExitGenerate(c)
    <2>1. TypeOK' /\ CallInv' /\ DeviceInv' /\ ReaperInv'
      BY <1>4 DEF ExitGenerate, Release, LockInv, Holds, CallInv, DeviceInv,
          SlotInv, SlotAt, ReaperInv, ReaperRuns, Alive
    <2>2. LockInv'
      BY <1>4 DEF ExitGenerate, Release, LockInv, Holds
    <2>3. SlotInv'
      BY <1>4 DEF ExitGenerate, Release, SlotInv, SlotAt, Whole, LockInv,
          Holds, CallInv
    <2>q. QED
      BY <2>1, <2>2, <2>3
  <1>5. CASE ReturnAudio(c)
    BY <1>5 DEF ReturnAudio, LockInv, Holds, CallInv, SlotInv, SlotAt, Whole,
        DeviceInv, ReaperInv, ReaperRuns, Alive
  <1>q. QED
    BY <1>1, <1>2, <1>3, <1>4, <1>5

\* A step of the reaper outside _unload_resident keeps it.
LEMMA ReaperKeepsIInv ==
  ASSUME IInv, NEW r \in Reapers,
         \/ ReaperWakes(r) \/ ReaperPeeks(r) \/ ReaperReadsAge(r)
         \/ ReaperLocks(r) \/ ReaperRechecks(r)
         \/ ReaperLeaves(r)
  PROVE  IInv'
PROOF
  <1> USE ThreadsAssumption, TimeoutAssumption
      DEF IInv, TypeOK, Move, Jump, LoopMove, Threads, Workers, CallerPcs,
          LoaderPcs, ReaperPcs, LoadPcs, UnloadPcs, LoopStates, Stopping, WatchPcs,
          DeviceStates, slot, lock, reaping, looping, threads
  <1>1. CASE ReaperWakes(r)
    BY <1>1 DEF ReaperWakes, LockInv, Holds, CallInv, SlotInv, SlotAt, Whole,
        DeviceInv, ReaperInv, ReaperRuns, Alive
  <1>2. CASE ReaperPeeks(r)
    BY <1>2 DEF ReaperPeeks, LockInv, Holds, CallInv, SlotInv, SlotAt, Whole,
        DeviceInv, ReaperInv, ReaperRuns, Alive
  <1>3. CASE ReaperReadsAge(r)
    BY <1>3 DEF ReaperReadsAge, LockInv, Holds, CallInv, SlotInv, SlotAt,
        Whole, DeviceInv, ReaperInv, ReaperRuns, Alive
  <1>4. CASE ReaperLocks(r)
    BY <1>4 DEF ReaperLocks, Acquire, LockInv, Holds, CallInv, SlotInv,
        SlotAt, Whole, DeviceInv, ReaperInv, ReaperRuns, Alive
  <1>5. CASE ReaperRechecks(r)
    BY <1>5 DEF ReaperRechecks, IdleLongEnough, LockInv, Holds, CallInv,
        SlotInv, SlotAt, Whole, DeviceInv, ReaperInv, ReaperRuns, Alive
  <1>6. CASE ReaperLeaves(r)
    <2>1. TypeOK' /\ CallInv' /\ DeviceInv' /\ ReaperInv'
      BY <1>6 DEF ReaperLeaves, Release, LockInv, Holds, CallInv, DeviceInv,
          SlotInv, SlotAt, ReaperInv, ReaperRuns, Alive
    <2>2. LockInv'
      BY <1>6 DEF ReaperLeaves, Release, LockInv, Holds
    <2>3. SlotInv'
      BY <1>6 DEF ReaperLeaves, Release, SlotInv, SlotAt, Whole, LockInv,
          Holds, CallInv
    <2>q. QED
      BY <2>1, <2>2, <2>3
  <1>q. QED
    BY <1>1, <1>2, <1>3, <1>4, <1>5, <1>6

\* A step of the event loop, of the clock or of the collector keeps it.
LEMMA LoopKeepsIInv ==
  ASSUME IInv, LoopStep \/ Demand \/ Exited \/ Tick \/ CyclicGC
  PROVE  IInv'
PROOF
  <1> USE ThreadsAssumption, TimeoutAssumption
      DEF IInv, TypeOK, Move, Jump, LoopMove, Threads, Workers, CallerPcs,
          LoaderPcs, ReaperPcs, LoadPcs, UnloadPcs, LoopStates, Stopping, WatchPcs,
          DeviceStates, slot, lock, reaping, looping, threads
  <1>1. CASE HealthReadsAge
    BY <1>1 DEF HealthReadsAge, LockInv, Holds, CallInv, SlotInv, SlotAt,
        Whole, DeviceInv, ReaperInv, ReaperRuns, Alive
  <1>2. CASE HealthFails
    BY <1>2 DEF HealthFails, LockInv, Holds, CallInv, SlotInv, SlotAt, Whole,
        DeviceInv, ReaperInv, ReaperRuns, Alive
  <1>3. CASE PreloadDeclined
    BY <1>3 DEF PreloadDeclined, LockInv, Holds, CallInv, SlotInv, SlotAt,
        Whole, DeviceInv, ReaperInv, ReaperRuns, Alive
  <1>4. CASE \E l \in Loaders : PreloadStarted(l)
    BY <1>4 DEF PreloadStarted, LockInv, Holds, CallInv, SlotInv, SlotAt,
        Whole, DeviceInv, ReaperInv, ReaperRuns, Alive
  <1>5. CASE StopReaper
    <2>1. TypeOK' /\ LockInv' /\ CallInv' /\ SlotInv' /\ DeviceInv'
      BY <1>5 DEF StopReaper, LockInv, Holds, CallInv, SlotInv, SlotAt, Whole,
          DeviceInv
    <2>2. ReaperInv'
      BY <1>5 DEF StopReaper, ReaperInv, ReaperRuns, Alive, LockInv, Holds,
          SlotInv, SlotAt
    <2>q. QED
      BY <2>1, <2>2
  <1>6. CASE LookForReaper
    BY <1>6 DEF LookForReaper, LockInv, Holds, CallInv, SlotInv, SlotAt, Whole,
        DeviceInv, ReaperInv, ReaperRuns, Alive
  <1>7. CASE \E c \in Callers, m \in Models : Submit(c, m)
    BY <1>7 DEF Submit, LockInv, Holds, CallInv, SlotInv, SlotAt, Whole,
        DeviceInv, ReaperInv, ReaperRuns, Alive
  <1>8. CASE \E m \in Models : PreloadAsked(m)
    BY <1>8 DEF PreloadAsked, LockInv, Holds, CallInv, SlotInv, SlotAt, Whole,
        DeviceInv, ReaperInv, ReaperRuns, Alive
  <1>9. CASE HealthSeesModel
    BY <1>9 DEF HealthSeesModel, LockInv, Holds, CallInv, SlotInv, SlotAt,
        Whole, DeviceInv, ReaperInv, ReaperRuns, Alive
  <1>10. CASE Terminate
    BY <1>10 DEF Terminate, LockInv, Holds, CallInv, SlotInv, SlotAt, Whole,
        DeviceInv, ReaperInv, ReaperRuns, Alive
  <1>11. CASE Exited
    BY <1>11 DEF Exited, vars, LockInv, Holds, CallInv, SlotInv, SlotAt,
        Whole, DeviceInv, ReaperInv, ReaperRuns, Alive
  <1>12. CASE Tick
    <2>1. TypeOK' /\ LockInv' /\ CallInv' /\ DeviceInv' /\ ReaperInv'
      BY <1>12 DEF Tick, LockInv, Holds, CallInv, DeviceInv, SlotInv, SlotAt,
          ReaperInv, ReaperRuns, Alive
    <2>2. SlotInv'
      BY <1>12 DEF Tick, SlotInv, SlotAt, Whole, LockInv, Holds, CallInv
    <2>q. QED
      BY <2>1, <2>2
  <1>13. CASE CyclicGC
    <2>1. TypeOK' /\ LockInv' /\ CallInv' /\ SlotInv' /\ ReaperInv'
      BY <1>13 DEF CyclicGC, LockInv, Holds, CallInv, SlotInv, SlotAt, Whole,
          ReaperInv, ReaperRuns, Alive
    <2>2. DeviceInv'
      BY <1>13 DEF CyclicGC, DeviceInv, LockInv, Holds, SlotInv, SlotAt,
          CallInv
    <2>q. QED
      BY <2>1, <2>2
  <1>14. CASE JoinReaper
    BY <1>14 DEF JoinReaper, LockInv, Holds, CallInv, SlotInv, SlotAt, Whole,
        DeviceInv, ReaperInv, ReaperRuns, Alive
  <1>15. CASE JoinRaises
    BY <1>15 DEF JoinRaises, LockInv, Holds, CallInv, SlotInv, SlotAt, Whole,
        DeviceInv, ReaperInv, ReaperRuns, Alive
  <1>16. CASE JoinReturns
    BY <1>16 DEF JoinReturns, LockInv, Holds, CallInv, SlotInv, SlotAt, Whole,
        DeviceInv, ReaperInv, ReaperRuns, Alive
  <1>17. CASE ForgetReaper
    BY <1>17 DEF ForgetReaper, LockInv, Holds, CallInv, SlotInv, SlotAt, Whole,
        DeviceInv, ReaperInv, ReaperRuns, Alive
  <1>q. QED
    BY <1>1, <1>2, <1>3, <1>4, <1>5, <1>6, <1>7, <1>8, <1>9, <1>10, <1>11,
        <1>12, <1>13, <1>14, <1>15, <1>16, <1>17 DEF LoopStep, Demand

\* So does a stuttering step.
LEMMA StutterKeepsIInv == IInv /\ UNCHANGED vars => IInv'
  BY DEF vars, IInv, TypeOK, LockInv, Holds, CallInv, SlotInv, SlotAt, Whole,
         DeviceInv, ReaperInv, ReaperRuns, Alive

LEMMA NextKeepsIInv == IInv /\ [Next]_vars => IInv'
PROOF
  <1> SUFFICES ASSUME IInv, [Next]_vars PROVE IInv'
    OBVIOUS
  <1>1. CASE \E c \in Callers : CallerStep(c)
    BY <1>1, EnsureLoadedKeepsIInv, UnloadKeepsIInv, GenerateKeepsIInv
    DEF CallerStep, Workers, Threads
  <1>2. CASE \E l \in Loaders : LoaderStep(l)
    BY <1>2, EnsureLoadedKeepsIInv, UnloadKeepsIInv
    DEF LoaderStep, Workers, Threads
  <1>3. CASE \E r \in Reapers : ReaperStep(r)
    BY <1>3, UnloadKeepsIInv, ReaperKeepsIInv DEF ReaperStep, Threads
  <1>4. CASE LoopStep \/ Demand \/ Exited \/ Tick \/ CyclicGC
    BY <1>4, LoopKeepsIInv
  <1>5. CASE UNCHANGED vars
    BY <1>5, StutterKeepsIInv
  <1>q. QED
    BY <1>1, <1>2, <1>3, <1>4, <1>5 DEF Next

\* The invariant holds of every state of every run of the engine.
THEOREM Invariance == Spec => []IInv
PROOF
  <1>1. Init => IInv
    BY InitIInv
  <1>2. IInv /\ [Next]_vars => IInv'
    BY NextKeepsIInv
  <1>q. QED
    BY <1>1, <1>2, PTL DEF Spec

---------------------------------------------------------------------------
(* The safety properties.                                                  *)

\* Every variable of the engine keeps its type.
THEOREM TypeCorrect == Spec => []TypeOK
PROOF
  <1>1. IInv => TypeOK
    BY DEF IInv
  <1>q. QED
    BY <1>1, Invariance, PTL

\* Who is inside the model call holds the lock, and with it the slot.
LEMMA InvariantSparesGenerates == IInv => GenerateHoldsItsModel
PROOF
  <1>1. ASSUME IInv, NEW c \in Callers, pc[c] \in {"use", "done"}
        PROVE  /\ owner = c
               /\ model = want[c]
               /\ modelId = want[c]
               /\ device[want[c]] = "live"
    <2>1. owner = c
      BY <1>1 DEF IInv, LockInv, Holds, Threads, Workers
    <2>2. model = want[c] /\ modelId = want[c]
      BY <1>1, <2>1 DEF IInv, SlotInv, SlotAt, Whole, Threads, Workers
    <2>3. want[c] \in Models
      BY <1>1 DEF IInv, CallInv, Workers
    <2>q. QED
      BY <1>1, <2>1, <2>2, <2>3 DEF IInv, DeviceInv
  <1>q. QED
    BY <1>1 DEF GenerateHoldsItsModel

\* A generate in flight holds the lock and the model of its request: nothing
\* swaps or evicts it until the model call is over (engine.py:272).
THEOREM GenerateSafe == Spec => []GenerateHoldsItsModel
PROOF
  BY InvariantSparesGenerates, Invariance, PTL

\* With the lock free the slot is in one piece, whatever has raised before.
THEOREM SlotStaysWhole == Spec => []SlotWhole
PROOF
  <1>1. ASSUME IInv, owner = None
        PROVE  \A m \in Models : device[m] = "live" <=> model = m
    <2>1. \A t \in Workers : pc[t] # "publish"
      BY <1>1, ThreadsAssumption
      DEF IInv, LockInv, Holds, LoadPcs, Threads, Workers
    <2>q. QED
      BY <1>1, <2>1 DEF IInv, DeviceInv
  <1>2. IInv => SlotWhole
    BY <1>1 DEF SlotWhole, IInv, SlotInv, Whole
  <1>q. QED
    BY <1>2, Invariance, PTL

\* A load starts only after the weights it replaces have left the device.
THEOREM SwapIsClean == Spec => []SwapFreesFirst
PROOF
  <1>1. ASSUME IInv, NEW t \in Workers, pc[t] = "load", NEW m \in Models
        PROVE  device[m] \notin {"live", "dropped"}
    <2>1. owner = t
      BY <1>1 DEF IInv, LockInv, Holds, LoadPcs, Threads, Workers
    <2>2. \A u \in Threads : u # t => ~Holds(u)
      BY <1>1, <2>1 DEF IInv, LockInv
    <2>3. \A u \in Threads :
            pc[u] \notin {"publish", "dropId", "dropClock", "sweep"}
      <3>1. SUFFICES ASSUME NEW u \in Threads,
                            pc[u] \in {"publish", "dropId", "dropClock", "sweep"}
                     PROVE  FALSE
        OBVIOUS
      <3>2. Holds(u)
        BY <1>1, <3>1
        DEF IInv, TypeOK, Holds, LoadPcs, UnloadPcs, CallerPcs, LoaderPcs,
            ReaperPcs, Threads, Workers
      <3>q. QED
        BY <1>1, <2>2, <3>1, <3>2
    <2>4. model = None
      BY <1>1, <2>1 DEF IInv, SlotInv, SlotAt, Threads
    <2>5. m # None
      BY ThreadsAssumption
    <2>6. device[m] # "live"
      BY <1>1, <2>3, <2>4, <2>5 DEF IInv, DeviceInv, Threads
    <2>7. device[m] # "dropped"
      BY <1>1, <2>3 DEF IInv, DeviceInv
    <2>q. QED
      BY <2>6, <2>7
  <1>2. IInv => SwapFreesFirst
    BY <1>1 DEF SwapFreesFirst
  <1>q. QED
    BY <1>2, Invariance, PTL

\* Before shutdown at most one reaper is alive, and none is told to stop.
THEOREM ReaperIsUnique == Spec => []OneReaper
PROOF
  <1>1. IInv => OneReaper
    BY DEF IInv, ReaperInv, OneReaper
  <1>q. QED
    BY <1>1, Invariance, PTL

\* Before shutdown a resident model is never left without a reaper.
THEOREM ReaperWatches == Spec => []ResidentIsWatched
PROOF
  <1>1. ASSUME IInv, owner = None
        PROVE  \A t \in Workers :
                 pc[t] \notin {"publishId", "touch"} \cup WatchPcs
    BY <1>1, ThreadsAssumption
    DEF IInv, LockInv, Holds, LoadPcs, WatchPcs, Threads, Workers
  <1>2. IInv => ResidentIsWatched
    BY <1>1 DEF IInv, ReaperInv, ResidentIsWatched
  <1>q. QED
    BY <1>2, Invariance, PTL

\* A step that changes the slot is a publication or the drop of a model.
LEMMA ModelChanges ==
  ASSUME Next, model' # model
  PROVE  \/ \E t \in Workers : Publish(t)
         \/ \E t \in Threads : DropModel(t)
PROOF
  <1> USE DEF Jump, slot, lock, reaping, looping, threads
  <1>1. ASSUME NEW t \in Workers, EnsureLoaded(t), ~Publish(t) PROVE FALSE
    BY <1>1
    DEF EnsureLoaded, EnsureFast, EnsureSlow, EnsureLock, RecheckResident,
        RecheckNoDisk, RecheckLoad, LoadWeights, LoadFails, PublishId,
        TouchLoaded, EnsureReaperLooks, EnsureReaperAsks,
        EnsureReaperClears, EnsureReaperCreates, EnsureReaperStarts, EnsureReaperLost,
        Finally, LeaveEnsure
  <1>2. ASSUME NEW t \in Threads, UnloadResident(t), ~DropModel(t) PROVE FALSE
    BY <1>2
    DEF UnloadResident, UnloadNothing, DropId, DropClock, SweepDevice
  <1>3. ASSUME NEW c \in Callers, CallerStep(c)
        PROVE  EnsureLoaded(c) \/ UnloadResident(c)
    BY <1>3
    DEF CallerStep, EnterGenerate, Generate, TouchUsed, ExitGenerate, ReturnAudio
  <1>4. ASSUME NEW r \in Reapers, ReaperStep(r) PROVE UnloadResident(r)
    BY <1>4
    DEF ReaperStep, ReaperWakes, ReaperPeeks, ReaperReadsAge, ReaperLocks,
        ReaperRechecks, ReaperLeaves
  <1>5. ~(LoopStep \/ Demand \/ Exited \/ Tick \/ CyclicGC)
    BY DEF LoopStep, HealthReadsAge, HealthFails, PreloadDeclined,
           PreloadStarted, StopReaper, LookForReaper, JoinReaper, JoinRaises,
           JoinReturns, ForgetReaper, Demand, Submit, PreloadAsked, HealthSeesModel,
           Terminate, Exited, vars, Tick, CyclicGC
  <1>q. QED
    BY <1>1, <1>2, <1>3, <1>4, <1>5 DEF Next, LoaderStep, Workers, Threads

\* The reaper evicts a model only at the end of its idle time.
THEOREM ReaperEvictsOnlyIdle == Spec => EvictsOnlyIdle
PROOF
  <1>1. ASSUME IInv, Next, model' # model, owner \in Reapers
        PROVE  idle = IdleTimeout
    <2>1. ASSUME NEW t \in Workers, Publish(t) PROVE FALSE
      <3>1. Holds(t)
        BY <2>1 DEF Publish, Move, Holds, LoadPcs, Workers
      <3>q. QED
        BY <1>1, <2>1, <3>1, ThreadsAssumption DEF IInv, LockInv, Workers, Threads
    <2>2. ASSUME NEW t \in Threads, DropModel(t) PROVE idle = IdleTimeout
      <3>1. pc[t] = "unload"
        BY <2>2 DEF DropModel, Move
      <3>2. owner = t
        BY <1>1, <3>1
        DEF IInv, LockInv, Holds, LoadPcs, UnloadPcs, Threads, Workers
      <3>q. QED
        BY <1>1, <3>1, <3>2 DEF IInv, SlotInv, SlotAt
    <2>q. QED
      BY <1>1, <2>1, <2>2, ModelChanges
  <1>2. IInv /\ [Next]_vars
          => [model' # model /\ owner \in Reapers => idle = IdleTimeout]_vars
    BY <1>1 DEF vars
  <1>q. QED
    BY <1>2, Invariance, PTL DEF Spec, EvictsOnlyIdle

\* A step that puts weights on the device or releases them is one of these.
LEMMA DeviceChanges ==
  ASSUME Next
  PROVE  \/ \E t \in Workers : LoadWeights(t) \/ LoadFails(t)
         \/ \E t \in Threads : DropModel(t) \/ SweepDevice(t)
         \/ CyclicGC
         \/ device' = device
PROOF
  <1> USE DEF Jump, slot, threads
  <1>1. ASSUME NEW t \in Workers, EnsureLoaded(t), ~LoadWeights(t), ~LoadFails(t)
        PROVE  device' = device
    BY <1>1
    DEF EnsureLoaded, EnsureFast, EnsureSlow, EnsureLock, RecheckResident,
        RecheckNoDisk, RecheckLoad, Publish, PublishId, TouchLoaded,
        EnsureReaperLooks, EnsureReaperAsks, EnsureReaperClears,
        EnsureReaperCreates, EnsureReaperStarts, EnsureReaperLost, Finally,
        LeaveEnsure
  <1>2. ASSUME NEW t \in Threads, UnloadResident(t), ~DropModel(t), ~SweepDevice(t)
        PROVE  device' = device
    BY <1>2 DEF UnloadResident, UnloadNothing, DropId, DropClock
  <1>3. ASSUME NEW c \in Callers, CallerStep(c)
        PROVE  EnsureLoaded(c) \/ UnloadResident(c) \/ device' = device
    BY <1>3
    DEF CallerStep, EnterGenerate, Generate, TouchUsed, ExitGenerate, ReturnAudio
  <1>4. ASSUME NEW r \in Reapers, ReaperStep(r)
        PROVE  UnloadResident(r) \/ device' = device
    BY <1>4
    DEF ReaperStep, ReaperWakes, ReaperPeeks, ReaperReadsAge, ReaperLocks,
        ReaperRechecks, ReaperLeaves
  <1>5. LoopStep \/ Demand \/ Exited \/ Tick => device' = device
    BY DEF LoopStep, HealthReadsAge, HealthFails, PreloadDeclined,
           PreloadStarted, StopReaper, LookForReaper, JoinReaper, JoinRaises,
           JoinReturns, ForgetReaper, Demand, Submit, PreloadAsked, HealthSeesModel,
           Terminate, Exited, vars, Tick
  <1>q. QED
    BY <1>1, <1>2, <1>3, <1>4, <1>5 DEF Next, LoaderStep, Workers, Threads

\* While nobody unloads, the one model on the device is the resident or the one
\* being published.
LEMMA HolderClearsDevice ==
  ASSUME IInv, NEW t \in Threads, Holds(t), pc[t] \notin {"dropId", "dropClock", "sweep"},
         NEW m \in Models
  PROVE  device[m] # "dropped"
PROOF
  <1>1. ASSUME NEW u \in Threads, pc[u] \in {"dropId", "dropClock", "sweep"} PROVE FALSE
    <2>1. Holds(u)
      BY <1>1
      DEF IInv, TypeOK, Holds, LoadPcs, UnloadPcs, CallerPcs, LoaderPcs, ReaperPcs,
          Threads, Workers
    <2>q. QED
      BY <1>1, <2>1 DEF IInv, LockInv
  <1>q. QED
    BY <1>1 DEF IInv, DeviceInv

LEMMA OneModelStays ==
  ASSUME IInv, OneModelOnDevice, Next
  PROVE  OneModelOnDevice'
PROOF
  <1> USE ThreadsAssumption DEF OneModelOnDevice
  <1>0. device \in [Models -> DeviceStates]
    BY DEF IInv, TypeOK
  <1>1. ASSUME NEW t \in Workers, LoadWeights(t) PROVE OneModelOnDevice'
    <2>1. pc[t] = "load" /\ Holds(t) /\ owner = t
      BY <1>1 DEF LoadWeights, Move, Holds, LoadPcs, IInv, LockInv, Workers, Threads
    <2>2. \A m \in Models : device[m] # "dropped"
      BY <2>1, HolderClearsDevice DEF Workers, Threads
    <2>3. model = None /\ \A u \in Workers : pc[u] # "publish"
      BY <2>1 DEF IInv, LockInv, SlotInv, SlotAt, Holds, LoadPcs, Workers, Threads
    <2>4. \A m \in Models : device[m] # "live"
      BY <2>3 DEF IInv, DeviceInv
    <2>q. QED
      BY <1>0, <1>1, <2>2, <2>4 DEF LoadWeights
  <1>2. ASSUME NEW t \in Workers, LoadFails(t) PROVE OneModelOnDevice'
    BY <1>0, <1>2 DEF LoadFails
  <1>3. ASSUME NEW t \in Threads, DropModel(t) PROVE OneModelOnDevice'
    BY <1>0, <1>3 DEF DropModel, IInv, TypeOK, DeviceInv
  <1>4. (\E t \in Threads : SweepDevice(t)) \/ CyclicGC => OneModelOnDevice'
    BY <1>0 DEF SweepDevice, CyclicGC
  <1>5. device' = device => OneModelOnDevice'
    OBVIOUS
  <1>q. QED
    BY <1>1, <1>2, <1>3, <1>4, <1>5, DeviceChanges

\* The device never holds the weights of two models, whatever is swapped, evicted
\* or raised, except what a failed load has left of one.
THEOREM DeviceHoldsOneModel == Spec => []OneModelOnDevice
PROOF
  <1>1. Init => OneModelOnDevice
    BY DEF Init, OneModelOnDevice
  <1>2. IInv /\ OneModelOnDevice /\ [Next]_vars => OneModelOnDevice'
    BY OneModelStays DEF vars, OneModelOnDevice
  <1>q. QED
    BY <1>1, <1>2, Invariance, PTL DEF Spec

\* A load moves its own thread and the reaper it starts.
LEMMA LoadMovesItself ==
  ASSUME IInv, NEW t \in Workers, EnsureLoaded(t), NEW u \in Workers, u # t
  PROVE  pc'[u] = pc[u]
PROOF
  <1> USE ThreadsAssumption DEF Move, Jump, Threads, Workers
  <1>0. /\ pc \in [Threads -> CallerPcs \cup LoaderPcs \cup ReaperPcs]
        /\ reaper \in Reapers \cup {None}
    BY DEF IInv, TypeOK
  <1>1. CASE \E r \in Reapers : EnsureReaperCreates(t, r) \/ EnsureReaperLost(t, r)
    BY <1>0, <1>1 DEF EnsureReaperCreates, EnsureReaperLost
  <1>2. CASE EnsureReaperStarts(t)
    BY <1>0, <1>2 DEF EnsureReaperStarts
  <1>q. QED
    BY <1>0, <1>1, <1>2 DEF EnsureLoaded, EnsureFast, EnsureSlow, EnsureLock,
      RecheckResident, RecheckNoDisk, RecheckLoad, LoadWeights, LoadFails, Publish,
      PublishId, TouchLoaded, EnsureReaperLooks, EnsureReaperAsks,
      EnsureReaperClears, Finally, LeaveEnsure

\* The threads leave what the event loop does alone.
LEMMA ThreadsKeepLoop ==
  ASSUME \/ \E c \in Callers : CallerStep(c)
         \/ \E l \in Loaders : LoaderStep(l)
         \/ \E r \in Reapers : ReaperStep(r)
  PROVE  loop' = loop
PROOF
  <1> USE DEF Jump, looping
  <1>1. ASSUME NEW t \in Workers, EnsureLoaded(t) PROVE loop' = loop
    BY <1>1
    DEF EnsureLoaded, EnsureFast, EnsureSlow, EnsureLock, RecheckResident,
        RecheckNoDisk, RecheckLoad, LoadWeights, LoadFails, Publish, PublishId,
        TouchLoaded, EnsureReaperLooks, EnsureReaperAsks,
        EnsureReaperClears, EnsureReaperCreates, EnsureReaperStarts, EnsureReaperLost,
        Finally, LeaveEnsure
  <1>2. ASSUME NEW t \in Threads, UnloadResident(t) PROVE loop' = loop
    BY <1>2
    DEF UnloadResident, UnloadNothing, DropModel, DropId, DropClock, SweepDevice
  <1>3. ASSUME NEW c \in Callers, CallerStep(c) PROVE loop' = loop
    BY <1>1, <1>2, <1>3
    DEF CallerStep, EnterGenerate, Generate, TouchUsed, ExitGenerate, ReturnAudio,
        Workers, Threads
  <1>4. ASSUME NEW r \in Reapers, ReaperStep(r) PROVE loop' = loop
    BY <1>2, <1>4
    DEF ReaperStep, ReaperWakes, ReaperPeeks, ReaperReadsAge, ReaperLocks,
        ReaperRechecks, ReaperLeaves, Threads
  <1>q. QED
    BY <1>1, <1>2, <1>3, <1>4 DEF LoaderStep, Workers, Threads

---------------------------------------------------------------------------
(* Holds of the lock come to an end.                                       *)

\* A step of a thread that keeps the lock takes it on.
LEMMA OwnStepProceeds ==
  ASSUME IInv, NEW t \in Threads, owner = t, owner' = t,
         \/ t \in Callers /\ CallerStep(t)
         \/ t \in Loaders /\ LoaderStep(t)
         \/ t \in Reapers /\ ReaperStep(t)
  PROVE  StepsLeft[pc'[t]] < StepsLeft[pc[t]]
PROOF
  <1> USE ThreadsAssumption DEF Move, Jump, StepsLeft, lock
  <1>0. /\ pc \in [Threads -> CallerPcs \cup LoaderPcs \cup ReaperPcs]
        /\ Holds(t)
        /\ depth = IF t \in Callers /\ pc[t] \in LoadPcs THEN 2 ELSE 1
    BY DEF IInv, TypeOK, LockInv
  <1>1. ASSUME t \in Workers, EnsureLoaded(t) PROVE StepsLeft[pc'[t]] < StepsLeft[pc[t]]
    <2>1. CASE EnsureFast(t) \/ EnsureSlow(t) \/ EnsureLock(t)
      BY <1>0, <1>1, <2>1
      DEF EnsureFast, EnsureSlow, EnsureLock, Returned, Holds, LoadPcs, UnloadPcs,
          Workers
    <2>2. CASE LeaveEnsure(t)
      BY <1>0, <1>1, <2>2 DEF LeaveEnsure, Release, Returned, Raised, LoadPcs, Workers
    <2>3. CASE \E r \in Reapers : EnsureReaperCreates(t, r) \/ EnsureReaperLost(t, r)
      BY <1>0, <1>1, <2>3 DEF EnsureReaperCreates, EnsureReaperLost, Workers
    <2>4. CASE EnsureReaperStarts(t)
      BY <1>0, <1>1, <2>4 DEF EnsureReaperStarts, Workers, IInv, TypeOK
    <2>q. QED
      BY <1>0, <1>1, <2>1, <2>2, <2>3, <2>4
      DEF EnsureLoaded, RecheckResident, RecheckNoDisk, RecheckLoad, LoadWeights,
          LoadFails, Publish, PublishId, TouchLoaded,           EnsureReaperLooks, EnsureReaperAsks, EnsureReaperClears, EnsureReaperStarts,
          Finally
  <1>2. ASSUME UnloadResident(t) PROVE StepsLeft[pc'[t]] < StepsLeft[pc[t]]
    BY <1>0, <1>2
    DEF UnloadResident, UnloadNothing, DropModel, DropId, DropClock, SweepDevice,
        Unloaded, UnloadRaised
  <1>3. ASSUME t \in Callers, CallerStep(t) PROVE StepsLeft[pc'[t]] < StepsLeft[pc[t]]
    BY <1>0, <1>1, <1>2, <1>3
    DEF CallerStep, EnterGenerate, Generate, TouchUsed, ExitGenerate, ReturnAudio,
        Release, Holds, LoadPcs, UnloadPcs, Workers
  <1>4. ASSUME t \in Reapers, ReaperStep(t) PROVE StepsLeft[pc'[t]] < StepsLeft[pc[t]]
    BY <1>0, <1>2, <1>4
    DEF ReaperStep, ReaperWakes, ReaperPeeks, ReaperReadsAge, ReaperLocks,
        ReaperRechecks, ReaperLeaves, Release, Holds, LoadPcs, UnloadPcs, Workers
  <1>q. QED
    BY <1>1, <1>2, <1>3, <1>4 DEF LoaderStep, Workers

\* Another's step leaves it where it is.
LEMMA OtherStepWaits ==
  ASSUME IInv, NEW t \in Threads, owner = t, [Next]_vars,
         ~(t \in Callers /\ CallerStep(t)), ~(t \in Loaders /\ LoaderStep(t)),
         ~(t \in Reapers /\ ReaperStep(t))
  PROVE  pc'[t] = pc[t]
PROOF
  <1> USE ThreadsAssumption DEF Move, Jump, Workers, Threads
  <1>0. /\ pc \in [Threads -> CallerPcs \cup LoaderPcs \cup ReaperPcs]
        /\ Holds(t)
    BY DEF IInv, TypeOK, LockInv
  <1>1. ASSUME NEW u \in Workers, u # t, EnsureLoaded(u) PROVE pc'[t] = pc[t]
    <2>1. CASE \E r \in Reapers : EnsureReaperCreates(u, r) \/ EnsureReaperLost(u, r)
      BY <1>0, <1>1, <2>1
      DEF EnsureReaperCreates, EnsureReaperLost, Holds, LoadPcs, UnloadPcs
    <2>2. CASE EnsureReaperStarts(u)
      <3>1. Holds(u)
        BY <1>1, <2>2 DEF EnsureReaperStarts, Holds, LoadPcs
      <3>q. QED
        BY <1>1, <3>1 DEF IInv, LockInv
    <2>q. QED
      BY <1>0, <1>1, <2>1, <2>2
      DEF EnsureLoaded, EnsureFast, EnsureSlow, EnsureLock, RecheckResident,
          RecheckNoDisk, RecheckLoad, LoadWeights, LoadFails, Publish, PublishId,
          TouchLoaded, EnsureReaperLooks, EnsureReaperAsks,
          EnsureReaperClears, EnsureReaperStarts, Finally, LeaveEnsure
  <1>2. ASSUME NEW u \in Threads, u # t, UnloadResident(u) PROVE pc'[t] = pc[t]
    BY <1>0, <1>2
    DEF UnloadResident, UnloadNothing, DropModel, DropId, DropClock, SweepDevice
  <1>3. ASSUME NEW c \in Callers, CallerStep(c) PROVE pc'[t] = pc[t]
    BY <1>0, <1>1, <1>2, <1>3
    DEF CallerStep, EnterGenerate, Generate, TouchUsed, ExitGenerate, ReturnAudio
  <1>4. ASSUME NEW l \in Loaders, LoaderStep(l) PROVE pc'[t] = pc[t]
    BY <1>1, <1>2, <1>4 DEF LoaderStep
  <1>5. ASSUME NEW r \in Reapers, ReaperStep(r) PROVE pc'[t] = pc[t]
    BY <1>0, <1>2, <1>5
    DEF ReaperStep, ReaperWakes, ReaperPeeks, ReaperReadsAge, ReaperLocks,
        ReaperRechecks, ReaperLeaves
  <1>6. ASSUME LoopStep \/ Demand \/ Exited \/ Tick \/ CyclicGC \/ UNCHANGED vars
        PROVE  pc'[t] = pc[t]
    BY <1>0, <1>6
    DEF LoopStep, HealthReadsAge, HealthFails, PreloadDeclined, PreloadStarted,
        StopReaper, LookForReaper, JoinReaper, JoinRaises, JoinReturns, ForgetReaper,
        Demand, Submit, PreloadAsked, HealthSeesModel, Terminate, Exited, vars, Tick,
        CyclicGC, threads, Holds, LoadPcs, UnloadPcs
  <1>q. QED
    BY <1>3, <1>4, <1>5, <1>6 DEF Next

\* A thread that holds the lock gets nearer to its release with every step: the
\* re-entrant acquire inside a generate waits for nobody, and no way through a
\* load, an unload or their exceptions goes back.
THEOREM HoldsComeToAnEnd == Spec => HoldsEnd
PROOF
  <1>1. IInv /\ [Next]_vars =>
          [\A t \in Threads : owner = t /\ owner' = t =>
             pc'[t] = pc[t] \/ StepsLeft[pc'[t]] < StepsLeft[pc[t]]]_vars
    BY OwnStepProceeds, OtherStepWaits
  <1>q. QED
    BY <1>1, Invariance, PTL DEF Spec, HoldsEnd

---------------------------------------------------------------------------
(* The engine implements ModelSlot.                                        *)

using == [c \in Callers |-> IF pc[c] = "use" THEN want[c] ELSE None]

\* Whoever else holds the lock, no caller is in its model call.
LEMMA HolderExcludesUse ==
  ASSUME IInv, NEW t \in Threads, Holds(t), pc[t] # "use"
  PROVE  Slot!Unused
PROOF
  <1>1. ASSUME NEW c \in Callers PROVE pc[c] # "use"
    BY DEF IInv, LockInv, Holds, Threads, Workers
  <1>q. QED
    BY <1>1 DEF Slot!Unused

\* A step is, for the slot, what the mapping says.
LEMMA PublishLoads ==
  ASSUME IInv, NEW t \in Workers, Publish(t)
  PROVE  Slot!Load(want[t]) /\ want[t] \in Models
PROOF
  <1>1. Holds(t) /\ owner = t /\ want[t] \in Models
    BY DEF Publish, Move, IInv, LockInv, CallInv, Holds, LoadPcs, Workers, Threads
  <1>2. model = None /\ Slot!Unused
    BY <1>1, HolderExcludesUse
    DEF Publish, Move, IInv, SlotInv, SlotAt, Threads
  <1>3. using' = using
    BY DEF Publish, Move, using, IInv, TypeOK, Threads, Workers
  <1>q. QED
    BY <1>1, <1>2, <1>3 DEF Publish, Slot!Load, using

LEMMA DropEvicts ==
  ASSUME IInv, NEW t \in Threads, DropModel(t)
  PROVE  Slot!Evict
PROOF
  <1>1. Holds(t) /\ pc[t] = "unload"
    BY DEF DropModel, Move, IInv, TypeOK, Holds, CallerPcs, LoaderPcs, ReaperPcs,
           LoadPcs, UnloadPcs, Workers, Threads
  <1>2. Slot!Unused
    BY <1>1, HolderExcludesUse
  <1>3. using' = using
    BY <1>1 DEF DropModel, Move, using, IInv, TypeOK, Threads, Workers
  <1>q. QED
    BY <1>2, <1>3 DEF DropModel, Slot!Evict, using

LEMMA ReturnBegins ==
  ASSUME IInv, NEW c \in Callers, EnsureFast(c) \/ LeaveEnsure(c)
  PROVE  (Slot!Begin(c, want[c]) /\ want[c] \in Models) \/ UNCHANGED <<model, using>>
PROOF
  <1>1. Holds(c) /\ owner = c /\ want[c] \in Models /\ pc[c] # "use"
    BY DEF EnsureFast, LeaveEnsure, Move, IInv, LockInv, CallInv, Holds,
           LoadPcs, Workers, Threads
  <1>2. Slot!Unused
    BY <1>1, HolderExcludesUse DEF Threads, Workers
  <1>3. want' = want /\ model' = model
    BY ThreadsAssumption DEF EnsureFast, LeaveEnsure, Forget, slot
  <1>4. CASE pc[c] = "raise"
    <2>1. pc' = [pc EXCEPT ![c] = "exit"]
      BY <1>4 DEF EnsureFast, LeaveEnsure, Move, Raised
    <2>2. using' = using
      BY <1>1, <1>3, <2>1 DEF using, IInv, TypeOK, Threads, Workers
    <2>q. QED
      BY <1>3, <2>2
  <1>5. CASE pc[c] # "raise"
    <2>1. pc' = [pc EXCEPT ![c] = "use"]
      BY <1>5 DEF EnsureFast, LeaveEnsure, Move, Returned
    <2>2. using' = [using EXCEPT ![c] = want[c]]
      BY <1>3, <2>1 DEF using, IInv, TypeOK, Threads, Workers
    <2>3. model = want[c]
      BY <1>1, <1>5
      DEF EnsureFast, LeaveEnsure, Move, IInv, SlotInv, SlotAt, Whole, Workers,
          Threads
    <2>q. QED
      BY <1>1, <1>2, <1>3, <2>2, <2>3 DEF Slot!Begin, using
  <1>q. QED
    BY <1>4, <1>5

LEMMA GenerateEnds ==
  ASSUME IInv, NEW c \in Callers, Generate(c)
  PROVE  Slot!End(c)
PROOF
  <1>1. pc[c] = "use" /\ want[c] \in Models /\ want' = want /\ model' = model
    BY DEF Generate, Jump, Move, IInv, CallInv, Workers, slot
  <1>2. using' = [using EXCEPT ![c] = None]
    BY <1>1 DEF Generate, Jump, Move, using, IInv, TypeOK, Threads, Workers
  <1>q. QED
    BY <1>1, <1>2, ThreadsAssumption DEF Slot!End, using

\* The rest of ensure_loaded and of a generate leaves pc at "use" alone.
LEMMA OtherStepsKeepUse ==
  ASSUME IInv, Next,
         ~\E t \in Workers : EnsureFast(t) \/ LeaveEnsure(t),
         ~\E c \in Callers : Generate(c)
  PROVE  using' = using
PROOF
  <1> DEFINE Kept == \A c \in Callers :
                       /\ pc'[c] = "use" <=> pc[c] = "use"
                       /\ pc[c] = "use" => want'[c] = want[c]
  <1> USE ThreadsAssumption
      DEF Move, Jump, LoopMove, Workers, Threads, slot, lock, reaping, looping,
          threads
  <1>0. /\ pc \in [Threads -> CallerPcs \cup LoaderPcs \cup ReaperPcs]
        /\ want \in [Workers -> Models \cup {None}]
    BY DEF IInv, TypeOK
  <1>1. ASSUME NEW t \in Workers, EnsureLoaded(t) PROVE Kept
    <2>1. CASE \E r \in Reapers : EnsureReaperCreates(t, r) \/ EnsureReaperLost(t, r)
      BY <1>0, <1>1, <2>1 DEF EnsureReaperCreates, EnsureReaperLost
    <2>2. CASE EnsureReaperStarts(t)
      BY <1>0, <1>1, <2>2 DEF EnsureReaperStarts, IInv, TypeOK
    <2>q. QED
      BY <1>0, <1>1, <2>1, <2>2
      DEF EnsureLoaded, EnsureSlow, EnsureLock, RecheckResident, RecheckNoDisk,
          RecheckLoad, LoadWeights, LoadFails, Publish, PublishId, TouchLoaded,
          EnsureReaperLooks, EnsureReaperAsks, EnsureReaperClears,
          Finally
  <1>2. ASSUME NEW t \in Threads, UnloadResident(t) PROVE Kept
    BY <1>0, <1>2
    DEF UnloadResident, UnloadNothing, DropModel, DropId, DropClock,
        SweepDevice, Unloaded, UnloadRaised
  <1>3. ASSUME NEW c \in Callers, CallerStep(c) PROVE Kept
    BY <1>0, <1>1, <1>2, <1>3
    DEF CallerStep, EnterGenerate, TouchUsed, ExitGenerate, ReturnAudio
  <1>4. ASSUME NEW r \in Reapers, ReaperStep(r) PROVE Kept
    BY <1>0, <1>2, <1>4
    DEF ReaperStep, ReaperWakes, ReaperPeeks, ReaperReadsAge, ReaperLocks,
        ReaperRechecks, ReaperLeaves
  <1>5. ASSUME LoopStep \/ Exited \/ Tick \/ CyclicGC PROVE Kept
    BY <1>0, <1>5
    DEF LoopStep, HealthReadsAge, HealthFails, PreloadDeclined, PreloadStarted,
        StopReaper, LookForReaper, JoinReaper, JoinRaises, JoinReturns, ForgetReaper,
        Exited, vars, Tick, CyclicGC
  <1>6. ASSUME Demand PROVE Kept
    BY <1>0, <1>6 DEF Demand, Submit, PreloadAsked, HealthSeesModel, Terminate
  <1> HIDE DEF Kept
  <1>7. Kept
    BY <1>1, <1>2, <1>3, <1>4, <1>5, <1>6 DEF Next, LoaderStep
  <1>q. QED
    BY <1>7 DEF Kept, using

\* Every step of the engine is a step of the slot or leaves it alone.
LEMMA StepRefines ==
  ASSUME IInv, [Next]_vars
  PROVE  [Slot!Next]_(Slot!vars)
PROOF
  <1>1. CASE \E t \in Workers : Publish(t)
    BY <1>1, PublishLoads DEF Slot!Next
  <1>2. CASE \E t \in Threads : DropModel(t)
    BY <1>2, DropEvicts DEF Slot!Next
  <1>3. CASE \E c \in Callers : EnsureFast(c) \/ LeaveEnsure(c)
    <2>1. PICK c \in Callers : EnsureFast(c) \/ LeaveEnsure(c)
      BY <1>3
    <2>2. CASE Slot!Begin(c, want[c]) /\ want[c] \in Models
      <3>1. \E d \in Callers, m \in Models : Slot!Begin(d, m)
        BY <2>2 DEF Slot!Begin
      <3>q. QED
        BY <3>1 DEF Slot!Next
    <2>3. CASE UNCHANGED <<model, using>>
      BY <2>3 DEF Slot!vars, using
    <2>q. QED
      BY <2>1, <2>2, <2>3, ReturnBegins
  <1>4. CASE \E l \in Loaders : EnsureFast(l) \/ LeaveEnsure(l)
    <2>1. model' = model
      BY <1>4 DEF EnsureFast, LeaveEnsure, slot
    <2>2. using' = using
      BY <1>4, ThreadsAssumption
      DEF using, EnsureFast, LeaveEnsure, Forget, Move, IInv, TypeOK, Threads,
          Workers
    <2>q. QED
      BY <2>1, <2>2 DEF Slot!vars, using
  <1>5. CASE \E c \in Callers : Generate(c)
    BY <1>5, GenerateEnds DEF Slot!Next
  <1>6. CASE /\ Next
             /\ model' = model
             /\ ~\E t \in Workers : EnsureFast(t) \/ LeaveEnsure(t)
             /\ ~\E c \in Callers : Generate(c)
    BY <1>6, OtherStepsKeepUse DEF Slot!vars, using
  <1>7. CASE UNCHANGED vars
    BY <1>7 DEF vars, Slot!vars, using
  <1>q. QED
    BY <1>1, <1>2, <1>3, <1>4, <1>5, <1>6, <1>7, ModelChanges DEF Workers

\* The engine keeps the promise of ModelSlot: the slot changes only while nobody
\* generates, and a client generates only with the model it asked for.
THEOREM EngineImplementsSlot == Spec => Slot!Safety
PROOF
  <1>1. Init => Slot!Init
    BY ThreadsAssumption DEF Init, Slot!Init, Threads, Workers
  <1>2. IInv /\ [Next]_vars => [Slot!Next]_(Slot!vars)
    BY StepRefines
  <1>q. QED
    BY <1>1, <1>2, Invariance, PTL DEF Spec, Slot!Safety

=============================================================================
