---------------------------- MODULE AttemptProofs ----------------------------
(***************************************************************************)
(* More proofs about Batch: what the numbers of attempts are good for.     *)
(* AttemptInv is inductive together with BatchInv; from it follows that a  *)
(* clip's object is never of a later attempt than the clip.  Beside it     *)
(* stands that the server's record of a run only moves on.                 *)
(*                                                                         *)
(* Every job there is, in a slot, an upload in flight or an object, was    *)
(* handed out once and is spent (JobsComeFrom).  It stays spent because    *)
(* the record of its run only advances (StepAdvances, SpentStays).         *)
(***************************************************************************)
EXTENDS BatchProofs

\* an attempt that has been handed out, or was: the server does not hand out its
\* number again
Spent(j) ==
  /\ state[j.run] # "queued"
  /\ phase[j.run] # "none" /\ j.line = At(j.run) =>
       /\ j.attempt <= attempt[j.run]
       /\ phase[j.run] = "scheduled" => j.attempt < attempt[j.run]

\* the object of a run's line is of the attempt f reports, or of an earlier one
NoLater(r, i, f) == store[Key[r][i]].audio.attempt <= f.attempt

\* Where attempts are found at all they are spent.  Inductive with BatchInv.
AttemptInv ==
  /\ \A w \in Workers : slot[w] # None => Spent(slot[w])
  /\ \A j \in late : Spent(j)
  /\ \A k \in Keys : store[k] # None /\ store[k].owner \in Runs =>
       Spent(store[k].audio)
  /\ \A r \in Runs :
       /\ phase[r] = "completed" => NoLater(r, At(r), outcome[r])
       /\ \A i \in DOMAIN clips[r] : NoLater(r, i, clips[r][i])

\* what a step may do to the record of a run that has jobs
Advances(r) ==
  state[r] # "queued" =>
    /\ state'[r] # "queued"
    /\ phase'[r] # "none" =>
         \/ At(r)' > At(r)
         \/ /\ At(r)' = At(r) /\ phase[r] # "none"
            /\ \/ attempt'[r] > attempt[r]
               \/ /\ attempt'[r] = attempt[r]
                  /\ phase'[r] = "scheduled" => phase[r] = "scheduled"

RecordStays(r) ==
  UNCHANGED <<status[r], state[r], clips[r], error[r], phase[r], attempt[r],
              outcome[r]>>

LEMMA StayingAdvances ==
  ASSUME BatchTypeOK, NEW r \in Runs, RecordStays(r)
  PROVE  Advances(r) /\ RecordMovesOn(r)
PROOF
  BY AtType DEF RecordStays, Advances, RecordMovesOn, At

\* only the run of a step has its record changed
LEMMA TimeOutAdvances ==
  ASSUME BatchInv, NEW r \in Runs, NEW q \in Runs, NEW f,
         status[q] = "running", phase[q] = "started", Retry(q, f),
         UNCHANGED runVars
  PROVE  Advances(r) /\ RecordMovesOn(r)
PROOF
  <1>1. CASE r # q
    <2>1. RecordStays(r)
      BY <1>1 DEF Retry, RecordStays, runVars, BatchInv, BatchTypeOK
    <2>q. QED
      BY <2>1, StayingAdvances DEF BatchInv
  <1>2. CASE r = q
    <2>1. /\ At(r)' = At(r) /\ status'[r] = status[r] /\ state'[r] = state[r]
          /\ clips'[r] = clips[r] /\ error'[r] = error[r]
          /\ phase[r] = "started" /\ attempt[r] \in Nat
      BY <1>2 DEF runVars, At, BatchInv, BatchTypeOK
    <2>2. \/ phase'[r] = "scheduled" /\ attempt'[r] = attempt[r] + 1
          \/ phase'[r] = "failed" /\ attempt'[r] = attempt[r]
      BY <1>2 DEF Retry, BatchInv, BatchTypeOK
    <2>q. QED
      BY <1>2, <2>1, <2>2, AtType
         DEF Advances, RecordMovesOn, MovesOn, PhaseRank, BatchInv
  <1>q. QED
    BY <1>1, <1>2

\* the steps that change one run as the workflow, its user or the server does
LEMMA RunStepAdvances ==
  ASSUME BatchInv, NEW r \in Runs, NEW q \in Runs,
         \/ WorkflowStep(q) \/ Submit(q) \/ CancelRun(q) \/ Terminate(q)
         \/ TimeOut(q)
  PROVE  Advances(r) /\ RecordMovesOn(r)
PROOF
  <1> USE DEF BatchInv
  <1>1. CASE TimeOut(q)
    BY <1>1, TimeOutAdvances DEF TimeOut
  <1>2. CASE ~TimeOut(q) /\ r # q
    <2>1. RecordStays(r)
      BY <1>2 DEF WorkflowStep, RejectRequest, FirstLine, AppendClip, ActivityFailed,
          Submit, CancelRun, Terminate, Close, Schedule, Unschedule, actVars,
          RecordStays, BatchTypeOK
    <2>q. QED
      BY <2>1, StayingAdvances
  <1>3. CASE (RejectRequest(q) \/ Submit(q) \/ CancelRun(q) \/ Terminate(q)) /\ r = q
    <2>1. /\ clips' = clips /\ status[r] \in {"unsubmitted", "running"}
          /\ state'[r] = "queued" => state[r] = "queued"
          /\ \/ phase'[r] = "none" /\ status'[r] # "running"
             \/ phase'[r] = phase[r] /\ attempt'[r] = attempt[r]
      BY <1>3 DEF RejectRequest, Submit, CancelRun, Terminate, Close, Unschedule,
          Unstarted, actVars, BatchTypeOK
    <2>2. At(r)' = At(r)
      BY <2>1 DEF At
    <2>q. QED
      BY <2>1, <2>2, AtType DEF Advances, RecordMovesOn, BatchTypeOK
  <1>4. CASE FirstLine(q) /\ r = q
    <2>1. /\ clips' = clips /\ status[r] = "running" /\ state[r] = "queued"
          /\ phase[r] = "none" /\ phase'[r] = "scheduled"
          /\ attempt[r] = 0 /\ attempt'[r] = 1
      BY <1>4 DEF FirstLine, Unstarted, Schedule, RunInv, BatchTypeOK
    <2>2. At(r)' = At(r) /\ attempt[r] \in Nat
      BY <2>1 DEF At, BatchTypeOK
    <2>q. QED
      BY <2>1, <2>2, AtType DEF Advances, RecordMovesOn, MovesOn, PhaseRank
  <1>5. CASE AppendClip(q) /\ r = q
    <2>1. /\ clips'[r] = Append(clips[r], outcome[r]) /\ status[r] = "running"
          /\ state'[r] # "queued" /\ outcome[r] \in Jobs /\ clips[r] \in Seq(Jobs)
      BY <1>5 DEF AppendClip, AtAwait, Close, RunInv, BatchTypeOK
    <2>2. /\ Len(clips'[r]) = Len(clips[r]) + 1 /\ Len(clips[r]) \in Nat
          /\ \A i \in DOMAIN clips[r] : clips'[r][i] = clips[r][i]
      BY <2>1
    <2>3. At(r)' > At(r)
      BY <2>2 DEF At
    <2>q. QED
      BY <2>1, <2>2, <2>3 DEF Advances, RecordMovesOn, MovesOn
  <1>6. CASE ActivityFailed(q) /\ r = q
    <2>1. /\ clips' = clips /\ status[r] = "running" /\ state'[r] # "queued"
          /\ status'[r] # "running" /\ phase'[r] = "none"
      BY <1>6 DEF ActivityFailed, AtAwait, Close, Unschedule, BatchTypeOK
    <2>q. QED
      BY <2>1, AtType DEF Advances, RecordMovesOn
  <1>q. QED
    BY <1>1, <1>2, <1>3, <1>4, <1>5, <1>6 DEF WorkflowStep

\* handing an attempt out, and the answer of the attempt on record
LEMMA ServerAdvances ==
  ASSUME BatchInv, NEW r \in Runs, NEW w \in Workers,
         (\E q \in Runs : Take(w, q)) \/ ReportClip(w) \/ ReportFailure(w)
  PROVE  Advances(r) /\ RecordMovesOn(r)
PROOF
  <1> USE DEF BatchInv
  <1>1. CASE ReportFailure(w)
    <2>1. slot[w] \in Jobs
      BY <1>1, SlotJob DEF ReportFailure
    <2>2. slot[w].run \in Runs
      BY <2>1, JobFields
    <2>q. QED
      BY <1>1, <2>2, TimeOutAdvances DEF ReportFailure, Current
  <1>2. ASSUME NEW q \in Runs, Take(w, q) \/ (ReportClip(w) /\ q = slot[w].run)
        PROVE  Advances(r) /\ RecordMovesOn(r)
    <2>1. CASE r # q
      <3>1. RecordStays(r)
        BY <1>2, <2>1 DEF Take, ReportClip, RecordStays, runVars, BatchTypeOK
      <3>q. QED
        BY <3>1, StayingAdvances
    <2>2. CASE r = q
      <3>1. /\ clips' = clips /\ state' = state /\ status[r] = "running"
            /\ attempt' = attempt /\ attempt[r] \in Nat
            /\ \/ phase[r] = "scheduled" /\ phase'[r] = "started"
               \/ phase[r] = "started" /\ phase'[r] = "completed"
        BY <1>2, <2>2 DEF Take, ReportClip, Current, runVars, BatchTypeOK
      <3>2. At(r)' = At(r)
        BY <3>1 DEF At
      <3>q. QED
        BY <3>1, <3>2, AtType DEF Advances, RecordMovesOn, MovesOn, PhaseRank
    <2>q. QED
      BY <2>1, <2>2
  <1>3. CASE ReportClip(w)
    <2>1. slot[w].run \in Runs
      BY <1>3, SlotJob, JobFields DEF ReportClip
    <2>q. QED
      BY <1>2, <1>3, <2>1
  <1>4. CASE \E q \in Runs : Take(w, q)
    <2>1. ASSUME NEW q \in Runs, Take(w, q)
          PROVE  Advances(r) /\ RecordMovesOn(r)
      BY <1>2, <2>1
    <2>q. QED
      BY <1>4, <2>1
  <1>q. QED
    BY <1>1, <1>3, <1>4

\* whatever happens, the server's record of a run only advances
LEMMA StepAdvances ==
  ASSUME BatchInv, [Next]_vars, NEW r \in Runs
  PROVE  Advances(r) /\ RecordMovesOn(r)
PROOF
  <1>1. ASSUME NEW w \in Workers, AttemptStep(w), ~ReportClip(w), ~ReportFailure(w)
        PROVE  RecordStays(r)
    BY <1>1 DEF AttemptStep, Check, Speak, Put, Who, Report, HeadClear, HeadForeign,
      HeadFails, CallAnswered, CallFailed, Abandon, Discard, StartUpload, PutCreates,
      PutLost, PutRefused, WhoOurs, WhoElse, WhoFails, ReportStale, runVars, actVars,
      RecordStays
  <1>2. ASSUME NEW w \in Workers, AbandonedEnds(w) \/ StartWorker(w) \/ Crash(w)
        PROVE  RecordStays(r)
    BY <1>2 DEF AbandonedEnds, StartWorker, Crash, runVars, actVars, RecordStays
  <1>3. ASSUME NEW j \in late, LateCreates(j) \/ LateDropped(j)
        PROVE  RecordStays(r)
    BY <1>3 DEF LateCreates, LateDropped, runVars, actVars, RecordStays
  <1>4. CASE UNCHANGED vars
    <2>1. RecordStays(r)
      BY <1>4 DEF vars, RecordStays
    <2>q. QED
      BY <2>1, StayingAdvances DEF BatchInv
  <1>5. CASE Next
    BY <1>1, <1>2, <1>3, <1>5, StayingAdvances, RunStepAdvances, ServerAdvances
       DEF Next, AttemptStep, Report, BatchInv
  <1>q. QED
    BY <1>4, <1>5

---------------------------------------------------------------------------
(* Spent attempts.                                                         *)

\* an attempt handed out stays spent, as its run only advances
LEMMA SpentStays ==
  ASSUME BatchInv, BatchTypeOK', NEW j \in Jobs, Spent(j), j.line <= At(j.run),
         Advances(j.run)
  PROVE  Spent(j)'
PROOF
  <1>1. PICK r \in Runs : r = j.run
    BY JobFields
  <1>2. /\ At(r) \in Nat /\ At(r)' \in Nat
        /\ attempt[r] \in Nat /\ attempt'[r] \in Nat
    BY DEF BatchInv, BatchTypeOK, At
  <1>3. j.line \in Int /\ j.attempt \in Int
    BY JobFields DEF Lines
  <1>q. QED
    BY <1>1, <1>2, <1>3 DEF Spent, Advances

\* an attempt in a slot, an upload in flight or an object is one that was already
\* there, or has just been handed out
LEMMA JobsComeFrom ==
  ASSUME BatchInv, [Next]_vars
  PROVE  /\ \A w \in Workers : slot'[w] \in {slot[w], None} \/ \E r \in Runs : Take(w, r)
         /\ \A j \in late' : j \in late \/ \E w \in Workers : slot[w] = j /\ j \in Jobs
         /\ \A k \in Keys :
              \/ store'[k] = store[k]
              \/ /\ store[k] = None
                 /\ store'[k].audio \in Jobs
                 /\ store'[k].audio \in late
                      \/ \E w \in Workers : slot[w] = store'[k].audio
PROOF
  <1> DEFINE Slots == \A w \in Workers :
                        slot'[w] \in {slot[w], None} \/ \E r \in Runs : Take(w, r)
             Late == \A j \in late' :
                        j \in late \/ \E w \in Workers : slot[w] = j /\ j \in Jobs
             Store == \A k \in Keys :
                        \/ store'[k] = store[k]
                        \/ /\ store[k] = None
                           /\ store'[k].audio \in Jobs
                           /\ store'[k].audio \in late
                                \/ \E w \in Workers : slot[w] = store'[k].audio
  <1>1. ASSUME NEW w \in Workers, \E r \in Runs : Take(w, r)
        PROVE  Slots /\ Late /\ Store
    BY <1>1 DEF Take, BatchInv, BatchTypeOK
  <1>2. ASSUME NEW w \in Workers,
               Check(w) \/ Speak(w) \/ PutRefused(w) \/ Who(w) \/ AbandonedEnds(w)
                 \/ StartWorker(w)
        PROVE  Slots /\ Late /\ Store
    BY <1>2 DEF Check, Speak, Who, HeadClear, HeadForeign, HeadFails, CallAnswered,
      CallFailed, Abandon, Discard, StartUpload, PutRefused, WhoOurs, WhoElse,
      WhoFails, AbandonedEnds, StartWorker, EndWith
  <1>3. ASSUME NEW w \in Workers, Report(w)
        PROVE  Slots /\ Late /\ Store
    BY <1>3 DEF Report, ReportClip, ReportFailure, ReportStale, FreeSlot, BatchInv,
      BatchTypeOK
  <1>4. ASSUME NEW w \in Workers, PutCreates(w)
        PROVE  Slots /\ Late /\ Store
    <2>1. PICK j \in Jobs : slot[w] = j /\ KeyOf(j) \in Keys
      BY <1>4, SlotJob, JobFields DEF PutCreates
    <2>2. /\ store[KeyOf(j)] = None
          /\ store' = [store EXCEPT ![KeyOf(j)] = [owner |-> j.run, audio |-> j]]
          /\ slot' = slot /\ late' = late
      BY <1>4, <2>1 DEF PutCreates, EndWith
    <2>q. QED
      BY <2>1, <2>2 DEF BatchInv, BatchTypeOK
  <1>5. ASSUME NEW w \in Workers, PutLost(w) \/ Crash(w)
        PROVE  Slots /\ Late /\ Store
    <2>1. apc[w] = "put" => slot[w] \in Jobs
      BY SlotJob
    <2>q. QED
      BY <1>5, <2>1 DEF PutLost, Crash, EndWith, BatchInv, BatchTypeOK
  <1>6. ASSUME NEW r \in Runs,
               WorkflowStep(r) \/ TimeOut(r) \/ Submit(r) \/ CancelRun(r) \/ Terminate(r)
        PROVE  Slots /\ Late /\ Store
    BY <1>6 DEF WorkflowStep, RejectRequest, FirstLine, AppendClip, ActivityFailed,
      TimeOut, Submit, CancelRun, Terminate, Elsewhere, workVars
  <1>7. ASSUME NEW j \in late, LateCreates(j)
        PROVE  Slots /\ Late /\ Store
    <2>1. j \in Jobs /\ KeyOf(j) \in Keys
      BY JobFields DEF BatchInv, BatchTypeOK
    <2>q. QED
      BY <1>7, <2>1 DEF LateCreates, workVars, BatchInv, BatchTypeOK
  <1>8. ASSUME NEW j \in late, LateDropped(j)
        PROVE  Slots /\ Late /\ Store
    BY <1>8 DEF LateDropped, workVars
  <1>9. ASSUME UNCHANGED vars PROVE Slots /\ Late /\ Store
    BY <1>9 DEF vars
  <1> HIDE DEF Slots, Late, Store
  <1>10. ASSUME Next PROVE Slots /\ Late /\ Store
    <2>1. ASSUME NEW w \in Workers, AttemptStep(w) PROVE Slots /\ Late /\ Store
      BY <2>1, <1>2, <1>3, <1>4, <1>5 DEF AttemptStep, Put
    <2>q. QED
      BY <2>1, <1>1, <1>2, <1>5, <1>6, <1>7, <1>8, <1>10 DEF Next
  <1>11. Slots /\ Late /\ Store
    BY <1>9, <1>10
  <1>q. QED
    BY <1>11 DEF Slots, Late, Store

LEMMA EveryJobIsSpent ==
  ASSUME BatchInv, AttemptInv, NEW j \in Jobs,
         \/ \E w \in Workers : slot[w] = j
         \/ j \in late
         \/ \E k \in Keys : store[k] # None /\ store[k].owner \in Runs
                                /\ store[k].audio = j
  PROVE  Spent(j) /\ j.line <= At(j.run)
PROOF
  <1>1. j # None
    BY NoneAssumption
  <1>2. CASE \E w \in Workers : slot[w] = j
    BY <1>1, <1>2 DEF AttemptInv, BatchInv, WorkerInv
  <1>3. CASE j \in late
    BY <1>3 DEF AttemptInv, BatchInv
  <1>4. CASE \E k \in Keys : store[k] # None /\ store[k].owner \in Runs
                                /\ store[k].audio = j
    BY <1>4 DEF AttemptInv, BatchInv, ObjectInv
  <1>q. QED
    BY <1>2, <1>3, <1>4

\* ... and stays so
LEMMA JobsStaySpent ==
  ASSUME BatchInv, AttemptInv, BatchInv', [Next]_vars, NEW j \in Jobs,
         \/ \E w \in Workers : slot[w] = j
         \/ j \in late
         \/ \E k \in Keys : store[k] # None /\ store[k].owner \in Runs
                                /\ store[k].audio = j
  PROVE  Spent(j)'
PROOF
  <1>1. Spent(j) /\ j.line <= At(j.run)
    BY EveryJobIsSpent
  <1>2. Advances(j.run)
    BY StepAdvances, JobFields
  <1>q. QED
    BY <1>1, <1>2, SpentStays DEF BatchInv

\* an attempt is spent from the moment it is handed out
LEMMA TakeSpends ==
  ASSUME BatchInv, BatchInv', NEW w \in Workers, NEW q \in Runs, Take(w, q)
  PROVE  \E j \in Jobs :
           /\ j = [run |-> q, line |-> At(q), attempt |-> attempt[q]]
           /\ slot'[w] = j
           /\ Spent(j)'
           /\ phase[q] = "scheduled"
           /\ \A v \in Workers \ {w} : slot'[v] = slot[v]
PROOF
  <1>1. /\ slot'[w] = [run |-> q, line |-> At(q), attempt |-> attempt[q]]
        /\ phase[q] = "scheduled" /\ phase'[q] = "started"
        /\ attempt'[q] = attempt[q] /\ clips' = clips /\ state' = state
        /\ \A v \in Workers \ {w} : slot'[v] = slot[v]
    BY DEF Take, runVars, BatchInv, BatchTypeOK
  <1>2. At(q) \in Lines /\ attempt[q] \in 1 .. MaxAttempts /\ state[q] # "queued"
    BY <1>1 DEF BatchInv, RunInv
  <1>3. PICK j \in Jobs : j = [run |-> q, line |-> At(q), attempt |-> attempt[q]]
    BY <1>2 DEF Jobs
  <1>4. At(q)' = At(q)
    BY <1>1 DEF At
  <1>5. Spent(j)'
    BY <1>1, <1>2, <1>3, <1>4 DEF Spent
  <1>q. QED
    BY <1>1, <1>3, <1>5

\* the first three conjuncts of AttemptInv, of one attempt
LEMMA SpentByAll ==
  ASSUME BatchInv, AttemptInv, BatchInv', [Next]_vars, NEW j \in Jobs,
         \/ \E w \in Workers : slot'[w] = j
         \/ j \in late'
         \/ \E k \in Keys : /\ store'[k] # None /\ store'[k].owner \in Runs
                            /\ store'[k].audio = j
  PROVE  Spent(j)'
PROOF
  <1>0. j # None
    BY NoneAssumption
  <1>1. ASSUME NEW w \in Workers, slot'[w] = j PROVE Spent(j)'
    <2>1. ASSUME NEW q \in Runs, Take(w, q) PROVE Spent(j)'
      BY <1>1, <2>1, TakeSpends
    <2>2. CASE slot'[w] = slot[w]
      BY <1>1, <2>2, JobsStaySpent
    <2>q. QED
      BY <1>0, <1>1, <2>1, <2>2, JobsComeFrom
  <1>2. CASE j \in late'
    BY <1>2, JobsComeFrom, JobsStaySpent
  <1>3. ASSUME NEW k \in Keys, store'[k] # None, store'[k].owner \in Runs,
               store'[k].audio = j
        PROVE  Spent(j)'
    <2>1. CASE store'[k] = store[k]
      BY <1>3, <2>1, JobsStaySpent
    <2>2. CASE store'[k] # store[k]
      BY <1>3, <2>2, JobsComeFrom, JobsStaySpent
    <2>q. QED
      BY <2>1, <2>2
  <1>q. QED
    BY <1>1, <1>2, <1>3

---------------------------------------------------------------------------
(* Objects are no later than the clips that describe them.                 *)

\* where a completed attempt and a new clip come from
LEMMA RecordsComeFrom ==
  ASSUME BatchInv, [Next]_vars, NEW r \in Runs
  PROVE  /\ phase'[r] = "completed" =>
              \/ \E w \in Workers : ReportClip(w) /\ slot[w].run = r
              \/ /\ phase[r] = "completed" /\ outcome'[r] = outcome[r]
                 /\ clips'[r] = clips[r]
         /\ clips'[r] = clips[r] \/ AppendClip(r)
PROOF
  <1> DEFINE From == /\ phase'[r] = "completed" =>
                          \/ \E w \in Workers : ReportClip(w) /\ slot[w].run = r
                          \/ /\ phase[r] = "completed" /\ outcome'[r] = outcome[r]
                             /\ clips'[r] = clips[r]
                     /\ clips'[r] = clips[r] \/ AppendClip(r)
  <1> USE DEF BatchInv, BatchTypeOK
  <1>1. ASSUME NEW w \in Workers, NEW q \in Runs, Take(w, q) PROVE From
    BY <1>1 DEF Take, runVars
  <1>2. ASSUME NEW w \in Workers, ReportClip(w) PROVE From
    BY <1>2 DEF ReportClip, runVars
  <1>3. ASSUME NEW q \in Runs, NEW f, Retry(q, f), UNCHANGED runVars PROVE From
    BY <1>3 DEF Retry, runVars
  <1>4. ASSUME NEW w \in Workers, ReportFailure(w) PROVE From
    <2>1. slot[w].run \in Runs
      BY <1>4, SlotJob, JobFields DEF ReportFailure
    <2>q. QED
      BY <1>4, <2>1, <1>3 DEF ReportFailure
  <1>5. ASSUME NEW w \in Workers, AttemptStep(w), ~ReportClip(w), ~ReportFailure(w)
        PROVE  From
    BY <1>5 DEF AttemptStep, Check, Speak, Put, Who, Report, HeadClear, HeadForeign,
      HeadFails, CallAnswered, CallFailed, Abandon, Discard, StartUpload, PutCreates,
      PutLost, PutRefused, WhoOurs, WhoElse, WhoFails, ReportStale, runVars, actVars
  <1>6. ASSUME NEW w \in Workers, AbandonedEnds(w) \/ StartWorker(w) \/ Crash(w)
        PROVE  From
    BY <1>6 DEF AbandonedEnds, StartWorker, Crash, runVars, actVars
  <1>7. ASSUME NEW j \in late, LateCreates(j) \/ LateDropped(j) PROVE From
    BY <1>7 DEF LateCreates, LateDropped, runVars, actVars
  <1>8. ASSUME NEW q \in Runs, WorkflowStep(q) \/ Submit(q) \/ CancelRun(q) \/ Terminate(q)
        PROVE  From
    BY <1>8 DEF WorkflowStep, RejectRequest, FirstLine, AppendClip, ActivityFailed,
      Submit, CancelRun, Terminate, Close, Schedule, Unschedule, actVars
  <1>9. ASSUME NEW q \in Runs, TimeOut(q) PROVE From
    BY <1>3, <1>9 DEF TimeOut
  <1>10. ASSUME UNCHANGED vars PROVE From
    BY <1>10 DEF vars
  <1> HIDE DEF From
  <1>11. From
    BY <1>1, <1>2, <1>4, <1>5, <1>6, <1>7, <1>8, <1>9, <1>10 DEF Next
  <1>q. QED
    BY <1>11 DEF From

\* the object under the key of a line stays, if it is the run's
LEMMA NoLaterStays ==
  ASSUME BatchInv, [Next]_vars, NEW r \in Runs, NEW i \in Lines, Mine(r, i),
         NEW f, NoLater(r, i, f)
  PROVE  store'[Key[r][i]].audio.attempt <= f.attempt
PROOF
  <1>1. store'[Key[r][i]] = store[Key[r][i]]
    BY OwnObject, JobsComeFrom
  <1>q. QED
    BY <1>1 DEF NoLater

\* the attempt on record reports a clip: the object is its own, or that of an
\* attempt before it
LEMMA ReportsNoLater ==
  ASSUME BatchInv, AttemptInv, NEW w \in Workers, ReportClip(w),
         NEW r \in Runs, slot[w].run = r
  PROVE  /\ At(r) \in Lines /\ Mine(r, At(r))
         /\ NoLater(r, At(r), slot[w])
PROOF
  <1>1. slot[w] \in Jobs /\ apc[w] = "report" /\ ending[w] = Uploaded /\ Current(slot[w])
    BY SlotJob DEF ReportClip
  <1>2. slot[w].line = At(r) /\ slot[w].attempt = attempt[r] /\ phase[r] = "started"
    BY <1>1 DEF Current
  <1>3. At(r) \in Lines /\ Mine(r, At(r))
    BY <1>1, <1>2, JobFields DEF BatchInv, WorkerInv
  <1>4. PICK o \in Jobs : o = store[Key[r][At(r)]].audio /\ o.run = r /\ o.line = At(r)
    BY <1>3, OwnObject
  <1>5. Spent(o)
    BY <1>3, <1>4, OwnObject, EveryJobIsSpent
  <1>q. QED
    BY <1>2, <1>3, <1>4, <1>5 DEF Spent, NoLater

LEMMA NoLaterKept ==
  ASSUME BatchInv, AttemptInv, BatchInv', [Next]_vars, NEW r \in Runs
  PROVE  /\ phase'[r] = "completed" => NoLater(r, At(r), outcome[r])'
         /\ \A i \in DOMAIN clips'[r] : NoLater(r, i, clips[r][i])'
PROOF
  <1>1. ASSUME phase'[r] = "completed" PROVE NoLater(r, At(r), outcome[r])'
    <2>1. ASSUME NEW w \in Workers, ReportClip(w), slot[w].run = r
          PROVE  NoLater(r, At(r), outcome[r])'
      <3>1. clips' = clips /\ store' = store /\ outcome'[r] = slot[w]
        BY <2>1 DEF ReportClip, runVars, BatchInv, BatchTypeOK
      <3>2. At(r)' = At(r)
        BY <3>1 DEF At
      <3>q. QED
        BY <2>1, <3>1, <3>2, ReportsNoLater DEF NoLater
    <2>2. CASE phase[r] = "completed" /\ outcome'[r] = outcome[r] /\ clips'[r] = clips[r]
      <3>1. At(r)' = At(r)
        BY <2>2 DEF At
      <3>2. At(r) \in Lines /\ Mine(r, At(r)) /\ NoLater(r, At(r), outcome[r])
        BY <2>2 DEF BatchInv, RunInv, AttemptInv
      <3>3. store'[Key[r][At(r)]].audio.attempt <= outcome[r].attempt
        BY <3>2, NoLaterStays
      <3>q. QED
        BY <2>2, <3>1, <3>3 DEF NoLater
    <2>q. QED
      BY <1>1, <2>1, <2>2, RecordsComeFrom
  <1>2. ASSUME NEW i \in DOMAIN clips[r], clips'[r][i] = clips[r][i]
        PROVE  NoLater(r, i, clips[r][i])'
    <2>1. i \in Lines /\ Mine(r, i) /\ NoLater(r, i, clips[r][i])
      BY ClipsAreMine DEF AttemptInv
    <2>2. store'[Key[r][i]].audio.attempt <= clips[r][i].attempt
      BY <2>1, NoLaterStays
    <2>q. QED
      BY <1>2, <2>2 DEF NoLater
  <1>3. CASE clips'[r] = clips[r]
    BY <1>1, <1>2, <1>3
  <1>4. CASE AppendClip(r)
    <2>1. /\ clips'[r] = Append(clips[r], outcome[r]) /\ store' = store
          /\ phase[r] = "completed" /\ clips[r] \in Seq(Jobs)
      BY <1>4 DEF AppendClip, Elsewhere, BatchInv, BatchTypeOK
    <2>2. outcome[r] \in Jobs /\ NoLater(r, At(r), outcome[r])
      BY <2>1 DEF BatchInv, RunInv, AttemptInv
    <2>3. /\ clips'[r][At(r)] = outcome[r]
          /\ \A i \in DOMAIN clips'[r] :
               i = At(r) \/ (i \in DOMAIN clips[r] /\ clips'[r][i] = clips[r][i])
      BY <2>1, <2>2 DEF At
    <2>4. ASSUME NEW i \in DOMAIN clips'[r], i = At(r) PROVE NoLater(r, i, clips[r][i])'
      BY <2>1, <2>2, <2>3, <2>4 DEF NoLater
    <2>q. QED
      BY <1>1, <1>2, <2>3, <2>4
  <1>q. QED
    BY <1>3, <1>4, RecordsComeFrom

---------------------------------------------------------------------------
(* The invariant, and what follows from it.                                *)

LEMMA InitSpends == Init => AttemptInv
PROOF
  <1> SUFFICES ASSUME Init PROVE AttemptInv
    OBVIOUS
  <1>1. \A k \in Keys : store[k] # None => store[k].owner \notin Runs
    BY BatchAssumption DEF Init
  <1>q. QED
    BY <1>1 DEF Init, AttemptInv

LEMMA NextKeepsAttemptInv ==
  ASSUME BatchInv, AttemptInv, BatchInv', [Next]_vars
  PROVE  AttemptInv'
PROOF
  <1>2. \A j \in Jobs :
          \/ \E w \in Workers : slot'[w] = j
          \/ j \in late'
          \/ \E k \in Keys : /\ store'[k] # None /\ store'[k].owner \in Runs
                             /\ store'[k].audio = j
          => Spent(j)'
    BY SpentByAll
  <1>3. /\ \A w \in Workers : slot'[w] \in Jobs \cup {None}
        /\ late' \subseteq Jobs
        /\ \A k \in Keys : store'[k] # None /\ store'[k].owner \in Runs =>
             store'[k].audio \in Jobs
    BY DEF BatchInv, BatchTypeOK, ObjectInv
  <1>4. (\A w \in Workers : slot[w] # None => Spent(slot[w]))'
    BY <1>2, <1>3
  <1>5. (\A j \in late : Spent(j))'
    BY <1>2, <1>3
  <1>6. (\A k \in Keys : store[k] # None /\ store[k].owner \in Runs =>
           Spent(store[k].audio))'
    BY <1>2, <1>3
  <1>7. (\A r \in Runs :
           /\ phase[r] = "completed" => NoLater(r, At(r), outcome[r])
           /\ \A i \in DOMAIN clips[r] : NoLater(r, i, clips[r][i]))'
    BY NoLaterKept
  <1>q. QED
    BY <1>4, <1>5, <1>6, <1>7 DEF AttemptInv

\* Wherever an attempt is found, in a worker, an upload or an object, the server
\* has handed its number out and does not hand it out again.
LEMMA AttemptInvariance == Spec => []AttemptInv
PROOF
  <1>1. BatchInv /\ AttemptInv /\ BatchInv' /\ [Next]_vars => AttemptInv'
    BY NextKeepsAttemptInv
  <1>q. QED
    BY <1>1, InitSpends, Invariance, PTL DEF Spec

LEMMA ClipsAreOwnLemma ==
  ASSUME BatchInv, AttemptInv
  PROVE  ClipsAreOwn
PROOF
  <1>1. ASSUME NEW r \in Runs, NEW i \in DOMAIN clips[r]
        PROVE  /\ Mine(r, i)
               /\ store[Key[r][i]].audio.run = r /\ store[Key[r][i]].audio.line = i
               /\ store[Key[r][i]].audio.attempt <= clips[r][i].attempt
    BY ClipsAreMine, OwnObject DEF AttemptInv, NoLater
  <1>2. ASSUME NEW r \in Runs, status[r] = "completed" PROVE Len(clips[r]) = NumLines
    BY <1>2 DEF BatchInv, RunInv
  <1>q. QED
    BY <1>1, <1>2 DEF ClipsAreOwn

\* What a run advertises is its own: the object under the key of every clip was
\* generated for that line of that run, by the attempt that reported the clip or
\* an earlier one, and a completed run has a clip for every line
\* (activities.py:106).
THEOREM AdvertisesItsOwn == Spec => []ClipsAreOwn
PROOF
  <1>1. BatchInv /\ AttemptInv => ClipsAreOwn
    BY ClipsAreOwnLemma
  <1>q. QED
    BY <1>1, Invariance, AttemptInvariance, PTL

\* The record of a run moves only forward, whatever late answers and timeouts
\* arrive, and not at all once the run has closed.
THEOREM RunsOnlyMoveOn == Spec => RunsMoveOn
PROOF
  <1>1. BatchInv /\ [Next]_vars => [\A r \in Runs : RecordMovesOn(r)]_vars
    BY StepAdvances
  <1>q. QED
    BY <1>1, Invariance, PTL DEF Spec, RunsMoveOn

=============================================================================
