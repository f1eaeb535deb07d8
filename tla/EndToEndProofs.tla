--------------------------- MODULE EndToEndProofs ---------------------------
(***************************************************************************)
(* Proofs about EndToEnd: the engine keeps its invariant and its promise    *)
(* beside the script, and what the script reports as the speech of its      *)
(* target was generated by that model.                                      *)
(*                                                                         *)
(* The argument: from the POST to the answer the request thread of the      *)
(* script has the target as its argument (SpeakerInv), because only Submit  *)
(* gives a caller another one and the thread takes no second request; and   *)
(* who is in the model call has the model of its argument                   *)
(* (EngineProofs: InvariantSparesGenerates).                                *)
(***************************************************************************)
EXTENDS EndToEnd, EngineProofs

---------------------------------------------------------------------------
(* The invariant.                                                          *)

\* the request thread of the speech stage, while the script waits for it
SpeakerInv ==
  /\ stage \in Stages
  /\ target \in Models
  /\ spoken \in BOOLEAN
  /\ stage = "answer" =>
       speaker \in Callers /\ (pc[speaker] # "idle" => want[speaker] = target)

E2eInv == IInv /\ SpeakerInv

LEMMA ScriptRunsTheEngine ==
  ASSUME target \in Models, [E2eNext]_e2eVars
  PROVE  [Next]_vars
PROOF
  <1>1. CASE Script
    BY <1>1 DEF Script, AskPreload, ReadLoaded, ReadLoading, LoadTimeout, Speak,
      SpeechAnswered, SpeechTimeout, Next, Demand
  <1>2. CASE ServerGoesOn
    BY <1>2 DEF ServerGoesOn, Next
  <1>q. QED
    BY <1>1, <1>2 DEF E2eNext, e2eVars

\* the steps of the server that nobody asks it for
ServerStep ==
  \/ \E c \in Callers : CallerStep(c)
  \/ \E l \in Loaders : LoaderStep(l)
  \/ \E r \in Reapers : ReaperStep(r)
  \/ LoopStep \/ Exited \/ Tick \/ CyclicGC

\* what they do with the thread of a request: they keep its argument until it has
\* answered, start none, and reach an audio through the model call only
LEMMA CallerMoves ==
  ASSUME IInv, ServerStep \/ UNCHANGED vars, NEW c \in Callers
  PROVE  /\ pc[c] # "idle" /\ pc'[c] # "idle" => want'[c] = want[c]
         /\ pc[c] = "idle" => pc'[c] = "idle"
         /\ pc'[c] = "done" => pc[c] \in {"use", "done"}
PROOF
  <1> DEFINE Moves == /\ pc[c] # "idle" /\ pc'[c] # "idle" => want'[c] = want[c]
                      /\ pc[c] = "idle" => pc'[c] = "idle"
                      /\ pc'[c] = "done" => pc[c] \in {"use", "done"}
  <1> USE ThreadsAssumption
      DEF Move, Jump, LoopMove, Workers, Threads, slot, lock, reaping, looping,
          threads
  <1>0. /\ pc \in [Threads -> CallerPcs \cup LoaderPcs \cup ReaperPcs]
        /\ want \in [Workers -> Models \cup {None}]
    BY DEF IInv, TypeOK
  <1>1. ASSUME NEW t \in Workers, EnsureLoaded(t) PROVE Moves
    <2>1. want'[c] = want[c]
      BY <1>0, <1>1
      DEF EnsureLoaded, EnsureFast, EnsureSlow, EnsureLock, RecheckResident,
          RecheckNoDisk, RecheckLoad, LoadWeights, LoadFails, Publish, PublishId,
          TouchLoaded, EnsureReaperLooks, EnsureReaperAsks,
          EnsureReaperClears, EnsureReaperCreates, EnsureReaperStarts,
          EnsureReaperLost, Finally, LeaveEnsure, Forget
    <2>2. CASE t # c
      BY <1>1, <2>1, <2>2, LoadMovesItself
    <2>3. CASE EnsureReaperStarts(t) /\ t = c
      BY <1>0, <2>1, <2>3 DEF EnsureReaperStarts, IInv, TypeOK
    <2>4. CASE ~EnsureReaperStarts(t) /\ t = c
      BY <1>0, <1>1, <2>1, <2>4
      DEF EnsureLoaded, EnsureFast, EnsureSlow, EnsureLock, RecheckResident,
          RecheckNoDisk, RecheckLoad, LoadWeights, LoadFails, Publish, PublishId,
          TouchLoaded, EnsureReaperLooks, EnsureReaperAsks,
          EnsureReaperClears, EnsureReaperCreates, EnsureReaperLost, Finally,
          LeaveEnsure, Returned, Raised
    <2>q. QED
      BY <2>2, <2>3, <2>4
  <1>2. ASSUME NEW t \in Threads, UnloadResident(t) PROVE Moves
    BY <1>0, <1>2
    DEF UnloadResident, UnloadNothing, DropModel, DropId, DropClock,
        SweepDevice, Unloaded, UnloadRaised
  <1>3. ASSUME NEW d \in Callers, CallerStep(d) PROVE Moves
    BY <1>0, <1>1, <1>2, <1>3
    DEF CallerStep, EnterGenerate, Generate, TouchUsed, ExitGenerate, ReturnAudio
  <1>4. ASSUME NEW r \in Reapers, ReaperStep(r) PROVE Moves
    BY <1>0, <1>2, <1>4
    DEF ReaperStep, ReaperWakes, ReaperPeeks, ReaperReadsAge, ReaperLocks,
        ReaperRechecks, ReaperLeaves
  <1>5. ASSUME LoopStep \/ Exited \/ Tick \/ CyclicGC \/ UNCHANGED vars PROVE Moves
    BY <1>0, <1>5
    DEF LoopStep, HealthReadsAge, HealthFails, PreloadDeclined, PreloadStarted,
        StopReaper, LookForReaper, JoinReaper, JoinRaises, JoinReturns, ForgetReaper,
        Exited, vars, Tick, CyclicGC
  <1> HIDE DEF Moves
  <1>7. Moves
    BY <1>1, <1>2, <1>3, <1>4, <1>5 DEF ServerStep, LoaderStep
  <1>q. QED
    BY <1>7 DEF Moves

\* and what a request does with it
LEMMA DemandMoves ==
  ASSUME IInv, Demand, NEW c \in Callers
  PROVE  /\ pc[c] # "idle" => pc'[c] = pc[c] /\ want'[c] = want[c]
         /\ pc'[c] = "done" => pc[c] = "done"
PROOF
  BY ThreadsAssumption
     DEF IInv, TypeOK, Demand, Submit, PreloadAsked, HealthSeesModel, Terminate, Move,
         LoopMove, threads, Workers, Threads

LEMMA NextKeepsSpeakerInv ==
  ASSUME E2eInv, [E2eNext]_e2eVars
  PROVE  SpeakerInv'
PROOF
  <1> USE DEF E2eInv, SpeakerInv, Stages
  <1>1. CASE /\ Script
             /\ ~\E c \in Callers : Speak(c)
    BY <1>1 DEF Script, AskPreload, ReadLoaded, ReadLoading, LoadTimeout,
        SpeechAnswered, SpeechTimeout, Go, Report
  <1>2. ASSUME NEW c \in Callers, Speak(c) PROVE SpeakerInv'
    <2>1. want'[c] = target
      BY <1>2 DEF Speak, Submit, IInv, TypeOK, Workers
    <2>q. QED
      BY <1>2, <2>1 DEF Speak, Go
  <1>3. CASE ServerGoesOn
    <2>1. /\ stage' = stage /\ target' = target /\ speaker' = speaker
          /\ spoken' \in BOOLEAN
      BY <1>3 DEF ServerGoesOn
    <2>2. ServerStep \/ (Demand /\ (Taken => pc'[speaker] = "idle"))
      BY <1>3 DEF ServerGoesOn, ServerStep
    <2>3. CASE stage = "answer"
      <3>1. speaker \in Callers
        BY <2>3
      <3>2. CASE ServerStep
        BY <2>1, <2>3, <3>1, <3>2, CallerMoves
      <3>3. CASE Demand /\ (Taken => pc'[speaker] = "idle")
        BY <2>1, <2>3, <3>1, <3>3, DemandMoves DEF Taken
      <3>q. QED
        BY <2>2, <3>2, <3>3
    <2>q. QED
      BY <2>1, <2>3
  <1>4. CASE UNCHANGED e2eVars
    BY <1>4 DEF e2eVars, script, vars
  <1>q. QED
    BY <1>1, <1>2, <1>3, <1>4 DEF E2eNext, Script

\* The invariant of the engine, and the speaker's argument, in every state.
THEOREM EndToEndInvariance == E2eSpec => []E2eInv
PROOF
  <1>1. E2eInit => E2eInv
    BY InitIInv DEF E2eInit, E2eInv, SpeakerInv, Stages
  <1>2. E2eInv /\ [E2eNext]_e2eVars => E2eInv'
    BY ScriptRunsTheEngine, NextKeepsIInv, NextKeepsSpeakerInv
       DEF E2eInv, SpeakerInv
  <1>q. QED
    BY <1>1, <1>2, PTL DEF E2eSpec

\* Seen without the script a run is one of the engine: every safety theorem
\* about Engine holds beside the script.
THEOREM EndToEndRunsTheEngine == E2eSpec => Init /\ [][Next]_vars
PROOF
  <1>1. E2eInit => Init
    BY DEF E2eInit
  <1>2. E2eInv /\ [E2eNext]_e2eVars => [Next]_vars
    BY ScriptRunsTheEngine DEF E2eInv, SpeakerInv
  <1>q. QED
    BY <1>1, <1>2, EndToEndInvariance, PTL DEF E2eSpec

\* The promise of ModelSlot is kept beside the script.
THEOREM EndToEndKeepsTheSlot == E2eSpec => Slot!Safety
PROOF
  <1>1. E2eInit => Slot!Init
    BY ThreadsAssumption DEF E2eInit, Init, Slot!Init, Threads, Workers
  <1>2. E2eInv /\ [E2eNext]_e2eVars => [Slot!Next]_(Slot!vars)
    BY ScriptRunsTheEngine, StepRefines DEF E2eInv, SpeakerInv
  <1>q. QED
    BY <1>1, <1>2, EndToEndInvariance, PTL DEF E2eSpec, Slot!Safety

---------------------------------------------------------------------------
(* What the script reports.                                                *)

\* spoken is set by the return of the speaker's model call, which runs with the
\* model of its argument
LEMMA SpokenMeansTarget ==
  ASSUME E2eInv, [E2eNext]_e2eVars, spoken' # spoken
  PROVE  model = target /\ modelId = target /\ device[target] = "live"
PROOF
  <1>1. ServerGoesOn /\ spoken \in BOOLEAN
    BY DEF E2eNext, Script, AskPreload, ReadLoaded, ReadLoading, LoadTimeout, Speak,
      SpeechAnswered, SpeechTimeout, Report, e2eVars, script, E2eInv, SpeakerInv
  <1>2. stage = "answer" /\ pc[speaker] # "done" /\ pc'[speaker] = "done"
    BY <1>1 DEF ServerGoesOn
  <1>3. speaker \in Callers
    BY <1>2 DEF E2eInv, SpeakerInv
  <1>4. ServerStep \/ Demand
    BY <1>1 DEF ServerGoesOn, ServerStep
  <1>5. pc[speaker] = "use"
    BY <1>2, <1>3, <1>4, CallerMoves, DemandMoves DEF E2eInv
  <1>6. want[speaker] = target
    BY <1>2, <1>3, <1>5 DEF E2eInv, SpeakerInv
  <1>q. QED
    BY <1>3, <1>5, <1>6, InvariantSparesGenerates DEF E2eInv, GenerateHoldsItsModel

\* The speech the script reports comes from the model it was started for, on the
\* device when the call returned, whatever others made the server load between
\* the poll that showed a model and the answer (e2e.py:202).
THEOREM SpeechIsOfTheTarget == E2eSpec => SpokenByTarget
PROOF
  <1>1. E2eInv /\ [E2eNext]_e2eVars =>
          [spoken' # spoken => /\ model = target /\ modelId = target
                               /\ device[target] = "live"]_e2eVars
    BY SpokenMeansTarget
  <1>q. QED
    BY <1>1, EndToEndInvariance, PTL DEF E2eSpec, SpokenByTarget

=============================================================================
