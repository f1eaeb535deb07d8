-------------------------------- MODULE Batch --------------------------------
(***************************************************************************)
(* The batch path, moss_temporal/: a workflow run speaks its lines one     *)
(* after the other, each in an activity that calls the TTS server and puts *)
(* the audio into the bucket under a key derived from the workflow id.     *)
(*                                                                         *)
(* A run is one execution (workflow id and run id); its key for a line is  *)
(* the same for every run of that id.  A worker is a process with one      *)
(* activity slot; workers crash and come back, and the Temporal server     *)
(* times an attempt out whether or not it is still running somewhere.  An  *)
(* attempt that is no longer the current one keeps going until it notices. *)
(*                                                                         *)
(* Audio is named by the attempt that had it generated: no two generations *)
(* of a line are alike.  Temporal, the bucket and the TTS server are       *)
(* external, and modelled by what the code relies on.                      *)
(***************************************************************************)
EXTENDS Integers, Sequences

CONSTANTS Runs,         \* executions submitted (a bound)
          Id,           \* the workflow id of each run
          Keys,         \* object keys
          Key,          \* the key of each run and line
          NumLines,     \* len(req.lines)
          MaxAttempts,  \* RetryPolicy.maximum_attempts
          Workers,      \* worker processes
          MaxCrashes,   \* bound on the crashes of workers
          Untagged,     \* the owner of an object without OWNER_KEY: ""
          None

Lines == 1 .. NumLines

ASSUME KeyAssumption ==
  /\ Key \in [Runs -> [Lines -> Keys]]
  /\ \A r \in Runs : \A i, j \in Lines : Key[r][i] = Key[r][j] => i = j

ASSUME BatchAssumption ==
  /\ NumLines \in Nat \ {0}
  /\ MaxAttempts \in Nat \ {0}
  /\ MaxCrashes \in Nat
  /\ Untagged \notin Runs
  /\ None \notin Runs \cup {Untagged}

VARIABLES
  status,     \* the execution status the Temporal server keeps of each run
  state,      \* self._state of its workflow object
  clips,      \* self._clips: the audio each ClipOut describes
  error,      \* self._error
  phase,      \* its pending activity, on the server
  attempt,    \* the number of that activity's current attempt
  outcome,    \* the result or the failure the server has recorded for it
  apc,        \* what each worker's activity thread is doing
  slot,       \* the attempt it runs
  ending,     \* what the attempt has returned or raised
  abandoned,  \* how many helper threads in its process nobody waits for
  store,      \* the bucket: owner and audio under each key
  late,       \* uploads the client has given up on and the bucket may yet do
  crashes     \* counts crashes up to MaxCrashes

runVars == <<status, state, clips, error>>
actVars == <<phase, attempt, outcome>>
workVars == <<apc, slot, ending, abandoned>>
vars == <<status, state, clips, error, phase, attempt, outcome,
          apc, slot, ending, abandoned, store, late, crashes>>

---------------------------------------------------------------------------
(* Data.                                                                   *)

Statuses == {"unsubmitted", "running", "completed", "failed", "canceled",
             "terminated"}
States == {"queued", "running", "succeeded", "failed", "cancelled"}
Phases == {"none", "scheduled", "started", "completed", "failed"}
ActivityPcs == {"down", "free", "head", "wait", "got", "put", "who", "report"}

\* one attempt at one line of one run (ClipJob and activity.info())
Jobs == [run : Runs, line : Lines, attempt : 1 .. MaxAttempts]
\* an object in the bucket
Objects == [owner : Runs, audio : Jobs] \cup [owner : {Untagged}, audio : {None}]
Owners == Runs \cup {Untagged, None}

\* how an attempt can fail; a KeyCollision says who holds the key
Failures == [type : {"InvalidRequest", "Transient", "Timeout", "Cancelled"},
             holder : {None}]
              \cup [type : {"KeyCollision"}, holder : Owners]
Failure(t) == [type |-> t, holder |-> None]
Uploaded == [type |-> "Uploaded", holder |-> None]
KeyCollision(o) == [type |-> "KeyCollision", holder |-> o]

ASSUME NoneAssumption == None \notin Jobs \cup Objects \cup Failures \cup {Uploaded}

Retryable(f) == f.type \in {"Transient", "Timeout"}

\* variant: the index in the key is off by one
KeyOffByOne(j) == Key[j.run][(j.line % NumLines) + 1]
KeyOf(j) == Key[j.run][j.line]
\* owner_of: the tag, "" for an object without one, None for no object
OwnerOf(k) == IF store[k] = None THEN None ELSE store[k].owner

Up(w) == apc[w] # "down"
At(r) == Len(clips[r]) + 1     \* the line the run is at
\* the server takes answers only from the attempt it has on record
Current(j) ==
  /\ status[j.run] = "running"
  /\ phase[j.run] = "started"
  /\ attempt[j.run] = j.attempt
  /\ At(j.run) = j.line

Init ==
  /\ status = [r \in Runs |-> "unsubmitted"]
  /\ state = [r \in Runs |-> "queued"]
  /\ clips = [r \in Runs |-> << >>]
  /\ error = [r \in Runs |-> None]
  /\ phase = [r \in Runs |-> "none"]
  /\ attempt = [r \in Runs |-> 0]
  /\ outcome = [r \in Runs |-> None]
  /\ apc = [w \in Workers |-> "down"]
  /\ slot = [w \in Workers |-> None]
  /\ ending = [w \in Workers |-> None]
  /\ abandoned = [w \in Workers |-> 0]
  \* objects written before the keys were guarded, or by somebody else
  /\ store \in [Keys -> {None, [owner |-> Untagged, audio |-> None]}]
  /\ late = {}
  /\ crashes = 0

---------------------------------------------------------------------------
(* The activity: synthesize_clip on the one activity thread of a worker.   *)

GoOn(w, from, to) == apc[w] = from /\ apc' = [apc EXCEPT ![w] = to]

\* the attempt returns or raises; the SDK reports it in a step of its own
EndWith(w, from, result) ==
  /\ GoOn(w, from, "report")
  /\ ending' = [ending EXCEPT ![w] = result]
  /\ UNCHANGED slot

\* the worker polls an attempt into its free slot
Take(w, r) ==
  /\ phase[r] = "scheduled" /\ status[r] = "running"
  /\ GoOn(w, "free", "head")
  /\ phase' = [phase EXCEPT ![r] = "started"]
  /\ slot' = [slot EXCEPT ![w] =
                [run |-> r, line |-> At(r), attempt |-> attempt[r]]]
  /\ UNCHANGED <<runVars, attempt, outcome, ending, abandoned, store, late, crashes>>

\* owner_of before generating: nothing there or our own object ...
HeadClear(w) ==
  /\ GoOn(w, "head", "wait")
  /\ OwnerOf(KeyOf(slot[w])) \in {None, slot[w].run}
  /\ UNCHANGED <<runVars, actVars, slot, ending, abandoned, store, late, crashes>>

\* ... somebody else's ...
HeadForeign(w) ==
  LET holder == OwnerOf(KeyOf(slot[w])) IN
  /\ apc[w] = "head"
  /\ holder \notin {None, slot[w].run}
  /\ EndWith(w, "head", KeyCollision(holder))
  /\ UNCHANGED <<runVars, actVars, abandoned, store, late, crashes>>

\* ... or the HEAD raises
HeadFails(w) ==
  /\ EndWith(w, "head", Failure("Transient"))
  /\ UNCHANGED <<runVars, actVars, abandoned, store, late, crashes>>

\* the helper thread's call to the TTS server ends: audio ...
CallAnswered(w) ==
  /\ GoOn(w, "wait", "got")
  /\ UNCHANGED <<runVars, actVars, slot, ending, abandoned, store, late, crashes>>

\* ... a 4xx, or a 5xx, a timeout, no body; raised again on the activity thread
CallFailed(w) ==
  /\ \/ EndWith(w, "wait", Failure("InvalidRequest"))
     \/ EndWith(w, "wait", Failure("Transient"))
  /\ UNCHANGED <<runVars, actVars, abandoned, store, late, crashes>>

\* is_cancelled() is true, which it becomes some time after the attempt is no
\* longer wanted, in the answer to a heartbeat: CancelledError, and the helper
\* thread is left to itself ...
Abandon(w) ==
  /\ EndWith(w, "wait", Failure("Cancelled"))
  /\ ~Current(slot[w])
  /\ abandoned' = [abandoned EXCEPT ![w] = @ + 1]
  /\ UNCHANGED <<runVars, actVars, store, late, crashes>>

\* ... until its call ends, and nobody reads `result'
AbandonedEnds(w) ==
  /\ abandoned[w] > 0
  /\ abandoned' = [abandoned EXCEPT ![w] = @ - 1]
  /\ UNCHANGED <<runVars, actVars, apc, slot, ending, store, late, crashes>>

\* the same check once the clip is there
Discard(w) ==
  /\ EndWith(w, "got", Failure("Cancelled"))
  /\ ~Current(slot[w])
  /\ UNCHANGED <<runVars, actVars, abandoned, store, late, crashes>>

\* not cancelled, or not told so yet
StartUpload(w) ==
  /\ GoOn(w, "got", "put")
  /\ UNCHANGED <<runVars, actVars, slot, ending, abandoned, store, late, crashes>>

\* variant: without IfNoneMatch
PutOverwrites(w) ==
  LET j == slot[w] IN
  /\ apc[w] = "put"
  /\ store' = [store EXCEPT ![KeyOf(j)] = [owner |-> j.run, audio |-> j]]
  /\ EndWith(w, "put", Uploaded)
  /\ UNCHANGED <<runVars, actVars, abandoned, late, crashes>>

\* put_object with IfNoneMatch="*": the key was free ...
PutCreates(w) ==
  LET j == slot[w] IN
  /\ apc[w] = "put" /\ store[KeyOf(j)] = None
  /\ store' = [store EXCEPT ![KeyOf(j)] = [owner |-> j.run, audio |-> j]]
  /\ EndWith(w, "put", Uploaded)
  /\ UNCHANGED <<runVars, actVars, abandoned, late, crashes>>

\* ... the client gives up without an answer; the upload may still happen ...
PutLost(w) ==
  /\ apc[w] = "put"
  /\ late' = late \cup {slot[w]}
  /\ EndWith(w, "put", Failure("Transient"))
  /\ UNCHANGED <<runVars, actVars, abandoned, store, crashes>>

\* ... 412, the key is taken, or 409, another upload to it is under way
Contended(w) ==
  \/ \E v \in Workers \ {w} : apc[v] = "put" /\ KeyOf(slot[v]) = KeyOf(slot[w])
  \/ \E j \in late : KeyOf(j) = KeyOf(slot[w])
PutRefused(w) ==
  /\ GoOn(w, "put", "who")
  /\ store[KeyOf(slot[w])] # None \/ Contended(w)
  /\ UNCHANGED <<runVars, actVars, slot, ending, abandoned, store, late, crashes>>

\* variants: whoever the owner is, the clip is there; ... it is a collision; a
\* refused upload is tried again
WhoAnybody(w) ==
  /\ EndWith(w, "who", Uploaded)
  /\ UNCHANGED <<runVars, actVars, abandoned, store, late, crashes>>
WhoCollides(w) ==
  LET holder == OwnerOf(KeyOf(slot[w])) IN
  /\ apc[w] = "who"
  /\ EndWith(w, "who", KeyCollision(holder))
  /\ UNCHANGED <<runVars, actVars, abandoned, store, late, crashes>>
WhoTriesAgain(w) ==
  /\ GoOn(w, "who", "put")
  /\ OwnerOf(KeyOf(slot[w])) # slot[w].run
  /\ UNCHANGED <<runVars, actVars, slot, ending, abandoned, store, late, crashes>>

\* owner_of again: our own earlier attempt's object is a success ...
WhoOurs(w) ==
  /\ EndWith(w, "who", Uploaded)
  /\ OwnerOf(KeyOf(slot[w])) = slot[w].run
  /\ UNCHANGED <<runVars, actVars, abandoned, store, late, crashes>>

\* ... anything else a collision, nothing at all included ...
WhoElse(w) ==
  LET holder == OwnerOf(KeyOf(slot[w])) IN
  /\ apc[w] = "who" /\ holder # slot[w].run
  /\ EndWith(w, "who", KeyCollision(holder))
  /\ UNCHANGED <<runVars, actVars, abandoned, store, late, crashes>>

\* ... or the HEAD raises
WhoFails(w) ==
  /\ EndWith(w, "who", Failure("Transient"))
  /\ UNCHANGED <<runVars, actVars, abandoned, store, late, crashes>>

LateCreates(j) ==
  /\ j \in late /\ store[KeyOf(j)] = None
  /\ store' = [store EXCEPT ![KeyOf(j)] = [owner |-> j.run, audio |-> j]]
  /\ late' = late \ {j}
  /\ UNCHANGED <<runVars, actVars, workVars, crashes>>

LateDropped(j) ==
  /\ j \in late
  /\ late' = late \ {j}
  /\ UNCHANGED <<runVars, actVars, workVars, store, crashes>>

---------------------------------------------------------------------------
(* The Temporal server: the retry policy, and the answers it takes.        *)

\* an attempt has failed: another one, or the activity fails
Retry(r, f) ==
  IF Retryable(f) /\ attempt[r] < MaxAttempts
  THEN /\ phase' = [phase EXCEPT ![r] = "scheduled"]
       /\ attempt' = [attempt EXCEPT ![r] = @ + 1]
       /\ UNCHANGED outcome
  ELSE /\ phase' = [phase EXCEPT ![r] = "failed"]
       /\ outcome' = [outcome EXCEPT ![r] = f]
       /\ UNCHANGED attempt

FreeSlot(w) ==
  /\ GoOn(w, "report", "free")
  /\ slot' = [slot EXCEPT ![w] = None]
  /\ ending' = [ending EXCEPT ![w] = None]
  /\ UNCHANGED abandoned

ReportClip(w) ==
  LET r == slot[w].run IN
  /\ apc[w] = "report" /\ ending[w] = Uploaded /\ Current(slot[w])
  /\ phase' = [phase EXCEPT ![r] = "completed"]
  /\ outcome' = [outcome EXCEPT ![r] = slot[w]]
  /\ FreeSlot(w)
  /\ UNCHANGED <<runVars, attempt, store, late, crashes>>

ReportFailure(w) ==
  /\ apc[w] = "report" /\ ending[w] # Uploaded /\ Current(slot[w])
  /\ Retry(slot[w].run, ending[w])
  /\ FreeSlot(w)
  /\ UNCHANGED <<runVars, store, late, crashes>>

\* an answer from an attempt that is not on record any more is dropped
ReportStale(w) ==
  /\ apc[w] = "report" /\ ~Current(slot[w])
  /\ FreeSlot(w)
  /\ UNCHANGED <<runVars, actVars, store, late, crashes>>

\* START_TO_CLOSE or HEARTBEAT_TIMEOUT: no heartbeat has reached the server,
\* which does not mean that the attempt is not running
TimeOut(r) ==
  /\ status[r] = "running" /\ phase[r] = "started"
  /\ Retry(r, Failure("Timeout"))
  /\ UNCHANGED <<runVars, workVars, store, late, crashes>>

---------------------------------------------------------------------------
(* The workflow, a task of which any worker that is up can run.            *)

SomeWorker == \E w \in Workers : Up(w)
Unstarted(r) == status[r] = "running" /\ state[r] = "queued"
AtAwait(r) == status[r] = "running" /\ state[r] = "running"

Schedule(r) ==
  /\ phase' = [phase EXCEPT ![r] = "scheduled"]
  /\ attempt' = [attempt EXCEPT ![r] = 1]
Unschedule(r) ==
  /\ phase' = [phase EXCEPT ![r] = "none"]
  /\ attempt' = [attempt EXCEPT ![r] = 0]
Close(r, closed, said) ==
  /\ status' = [status EXCEPT ![r] = closed]
  /\ state' = [state EXCEPT ![r] = said]
Elsewhere == UNCHANGED <<workVars, store, late, crashes>>

\* validate raises
RejectRequest(r) ==
  /\ SomeWorker /\ Unstarted(r)
  /\ Close(r, "failed", "failed")
  /\ error' = [error EXCEPT ![r] = Failure("InvalidRequest")]
  /\ UNCHANGED <<clips, actVars>> /\ Elsewhere

FirstLine(r) ==
  /\ SomeWorker /\ Unstarted(r)
  /\ state' = [state EXCEPT ![r] = "running"]
  /\ Schedule(r)
  /\ UNCHANGED <<status, clips, error, outcome>> /\ Elsewhere

\* execute_activity returns; the loop goes to the next line, or ends
AppendClip(r) ==
  /\ SomeWorker /\ AtAwait(r) /\ phase[r] = "completed"
  /\ clips' = [clips EXCEPT ![r] = Append(@, outcome[r])]
  /\ outcome' = [outcome EXCEPT ![r] = None]
  /\ IF At(r) < NumLines
     THEN Schedule(r) /\ UNCHANGED <<status, state>>
     ELSE Unschedule(r) /\ Close(r, "completed", "succeeded")
  /\ UNCHANGED <<error>> /\ Elsewhere

\* variant: the line is scheduled again
FailedLineAgain(r) ==
  /\ SomeWorker /\ AtAwait(r) /\ phase[r] = "failed"
  /\ outcome' = [outcome EXCEPT ![r] = None]
  /\ Schedule(r)
  /\ UNCHANGED runVars /\ Elsewhere

\* execute_activity raises: not a cancellation
ActivityFailed(r) ==
  /\ SomeWorker /\ AtAwait(r) /\ phase[r] = "failed"
  /\ Close(r, "failed", "failed")
  /\ error' = [error EXCEPT ![r] = outcome[r]]
  /\ outcome' = [outcome EXCEPT ![r] = None]
  /\ Unschedule(r)
  /\ UNCHANGED <<clips>> /\ Elsewhere

\* moss cancel, when it reaches the workflow, which does not wait for the activity
\* to agree; a result that is there but has not been looked at is lost
CancelRun(r) ==
  /\ SomeWorker /\ status[r] = "running"
  /\ Close(r, "canceled", "cancelled")
  /\ outcome' = [outcome EXCEPT ![r] = None]
  /\ Unschedule(r)
  /\ UNCHANGED <<clips, error>> /\ Elsewhere

---------------------------------------------------------------------------
(* The command line and the processes.                                     *)

\* start_workflow: a new run of an id whose last run, if any, has closed
Submit(r) ==
  /\ status[r] = "unsubmitted"
  /\ \A q \in Runs : Id[q] = Id[r] => status[q] # "running"
  /\ status' = [status EXCEPT ![r] = "running"]
  /\ UNCHANGED <<state, clips, error, actVars>> /\ Elsewhere

\* moss cancel --terminate: the workflow is not told
Terminate(r) ==
  /\ status[r] = "running"
  /\ status' = [status EXCEPT ![r] = "terminated"]
  /\ outcome' = [outcome EXCEPT ![r] = None]
  /\ Unschedule(r)
  /\ UNCHANGED <<state, clips, error>> /\ Elsewhere

\* the bucket is there and the TTS server answers, or is not asked
StartWorker(w) ==
  /\ GoOn(w, "down", "free")
  /\ UNCHANGED <<runVars, actVars, slot, ending, abandoned, store, late, crashes>>

\* the process dies, with its helper threads; an upload it had begun may happen
Crash(w) ==
  /\ Up(w) /\ crashes < MaxCrashes
  /\ crashes' = crashes + 1
  /\ apc' = [apc EXCEPT ![w] = "down"]
  /\ slot' = [slot EXCEPT ![w] = None]
  /\ ending' = [ending EXCEPT ![w] = None]
  /\ abandoned' = [abandoned EXCEPT ![w] = 0]
  /\ late' = IF apc[w] = "put" THEN late \cup {slot[w]} ELSE late
  /\ UNCHANGED <<runVars, actVars, store>>

---------------------------------------------------------------------------
(* The specification.                                                      *)

Check(w) == HeadClear(w) \/ HeadForeign(w) \/ HeadFails(w)
Speak(w) == CallAnswered(w) \/ CallFailed(w) \/ Abandon(w) \/ Discard(w) \/ StartUpload(w)
Put(w) == PutCreates(w) \/ PutLost(w) \/ PutRefused(w)
Who(w) == WhoOurs(w) \/ WhoElse(w) \/ WhoFails(w)
Report(w) == ReportClip(w) \/ ReportFailure(w) \/ ReportStale(w)
AttemptStep(w) == Check(w) \/ Speak(w) \/ Put(w) \/ Who(w) \/ Report(w)
WorkflowStep(r) == RejectRequest(r) \/ FirstLine(r) \/ AppendClip(r)
                     \/ ActivityFailed(r)

Next ==
  \/ \E w \in Workers :
       \/ \E r \in Runs : Take(w, r)
       \/ AttemptStep(w) \/ AbandonedEnds(w) \/ StartWorker(w) \/ Crash(w)
  \/ \E r \in Runs :
       WorkflowStep(r) \/ TimeOut(r) \/ Submit(r) \/ CancelRun(r) \/ Terminate(r)
  \/ \E j \in late : LateCreates(j) \/ LateDropped(j)

\* nobody runs the attempt the server has on record
Orphaned(r) == \A w \in Workers : slot[w] # None => ~(slot[w].run = r /\ Current(slot[w]))

\* The SDK polls while a slot is free and an attempt is scheduled; a call to the
\* TTS server ends, by its own timeout at the latest; a dead attempt's heartbeat
\* timer runs out.  A worker that died is started again, which is the
\* supervisor's and not the code's.  Nothing makes a user submit or cancel.
Fairness ==
  /\ \A w \in Workers :
       /\ WF_vars(AttemptStep(w))
       /\ WF_vars(StartWorker(w))
  /\ \A r \in Runs :
       /\ WF_vars(WorkflowStep(r))
       /\ WF_vars(\E w \in Workers : Take(w, r))
       /\ WF_vars(Orphaned(r) /\ TimeOut(r))

Spec == Init /\ [][Next]_vars /\ Fairness

---------------------------------------------------------------------------
(* Properties.                                                             *)

\* The type invariant.
BatchTypeOK ==
  /\ status \in [Runs -> Statuses]
  /\ state \in [Runs -> States]
  /\ clips \in [Runs -> Seq(Jobs)]
  /\ error \in [Runs -> Failures \cup {None}]
  /\ phase \in [Runs -> Phases]
  /\ attempt \in [Runs -> 0 .. MaxAttempts]
  /\ outcome \in [Runs -> Jobs \cup Failures \cup {None}]
  /\ apc \in [Workers -> ActivityPcs]
  /\ slot \in [Workers -> Jobs \cup {None}]
  /\ ending \in [Workers -> Failures \cup {Uploaded, None}]
  /\ abandoned \in [Workers -> Nat]
  /\ store \in [Keys -> Objects \cup {None}]
  /\ late \in SUBSET Jobs
  /\ crashes \in 0 .. MaxCrashes

Mine(r, i) == OwnerOf(Key[r][i]) = r

\* What a run advertises, in its result and in the urls of its status query, is
\* its own: the object under the key of its n-th clip was generated for that line
\* of that run, whichever attempts raced for the key, by the attempt that reported
\* the clip or an earlier one, and a run that completes has one for every line
\* (activities.py:106, storage.py:135).
ClipsAreOwn ==
  \A r \in Runs :
    /\ \A i \in DOMAIN clips[r] :
         /\ Mine(r, i)
         /\ store[Key[r][i]].audio.run = r /\ store[Key[r][i]].audio.line = i
         /\ store[Key[r][i]].audio.attempt <= clips[r][i].attempt
    /\ status[r] = "completed" => Len(clips[r]) = NumLines

\* "Its index is at or above the clips_done the status query reports", says
\* docs/temporal.md:202 of an object no result references; there is at most one,
\* and it is exactly there: a run never has uploads of two lines under way, even
\* with attempts that outlive a timeout, a cancellation or the run itself.
StrayIsNextLine ==
  \A r \in Runs, i \in Lines : Mine(r, i) => i <= At(r)

\* A run that is told a key is taken, and by whom, is told the truth, and it is
\* not its own object that is in its way (storage.py:135-142).  Whether the
\* store answers 409 with nothing there yet is the store's: then nobody is named.
CollisionNamesHolder ==
  \A r \in Runs :
    LET e == error[r] IN
    e # None /\ e.type = "KeyCollision" /\ e.holder # None =>
      e.holder # r /\ At(r) \in Lines /\ OwnerOf(Key[r][At(r)]) = e.holder

\* The bucket and what is advertised of it implement the claim-once store:
\* no run replaces or removes an object a closed run has told its caller of.
advertised ==
  {<<p[1], Key[p[1]][p[2]]>> : p \in {q \in Runs \X Lines : q[2] <= Len(clips[q[1]])}}
Claims == INSTANCE ClipStore WITH objects <- store
ImplementsClipStore == Claims!Spec

\* A run only moves on.  Whatever is recorded of it while it runs, late answers
\* and timeouts of attempts that are over included, takes it to a later line, or
\* a later attempt at its line, or a later phase of that attempt; what it has
\* advertised stays; and once it has closed nothing of it changes any more.
PhaseRank == [none |-> 0, scheduled |-> 1, started |-> 2, completed |-> 3, failed |-> 3]
MovesOn(r) ==
  \/ At(r)' > At(r)
  \/ At(r)' = At(r) /\ attempt'[r] > attempt[r]
  \/ /\ At(r)' = At(r) /\ attempt'[r] = attempt[r]
     /\ PhaseRank[phase'[r]] > PhaseRank[phase[r]]
RecordMovesOn(r) ==
  /\ <<phase[r], attempt[r]>>' # <<phase[r], attempt[r]>> =>
       status'[r] # "running" \/ MovesOn(r)
  /\ Len(clips[r]) <= Len(clips'[r])
  /\ \A i \in DOMAIN clips[r] : clips'[r][i] = clips[r][i]
  /\ status[r] \notin {"unsubmitted", "running"} =>
       UNCHANGED <<status[r], state[r], clips[r], error[r], phase[r]>>
RunsMoveOn == [][\A r \in Runs : RecordMovesOn(r)]_vars

\* Every run closes, however its attempts end and whichever of them are lost:
\* the attempts of a line are bounded, and each of them ends.
EveryRunCloses == \A r \in Runs : status[r] = "running" ~> status[r] # "running"

\* The one activity slot of a worker is never held for ever, not even by an
\* attempt that nobody waits for any more.
SlotComesFree == \A w \in Workers : slot[w] # None ~> slot[w] = None

\* "Length of the audio itself", says shared.py:69 of ClipOut.audio_seconds: the
\* clip describes the audio at its url.
ClipDescribesObject ==
  \A r \in Runs : \A i \in DOMAIN clips[r] : store[Key[r][i]].audio = clips[r][i]

---------------------------------------------------------------------------
(* The inductive invariant behind ClipsAreOwn, StrayIsNextLine,            *)
(* CollisionNamesHolder and ImplementsClipStore.                           *)

\* f, had by r at line i, is the truth about who holds the key
Truthful(f, r, i) ==
  f.type = "KeyCollision" /\ f.holder # None =>
    f.holder # r /\ OwnerOf(Key[r][i]) = f.holder

\* where a run is, what the server has of it and what has been said of its keys
RunInv(r) ==
  /\ Len(clips[r]) <= NumLines
  /\ status[r] = "completed" => Len(clips[r]) = NumLines
  /\ status[r] = "unsubmitted" => state[r] = "queued"
  /\ state[r] = "queued" =>
       clips[r] = << >> /\ phase[r] = "none" /\ attempt[r] = 0
  /\ status[r] = "running" /\ state[r] = "running" => At(r) \in Lines
  /\ phase[r] # "none" =>
       status[r] = "running" /\ At(r) \in Lines /\ attempt[r] \in 1 .. MaxAttempts
  /\ phase[r] = "completed" => outcome[r] \in Jobs /\ Mine(r, At(r))
  /\ phase[r] = "failed" =>
       outcome[r] \in Failures /\ Truthful(outcome[r], r, At(r))
  /\ error[r] # None => status[r] = "failed" /\ Truthful(error[r], r, At(r))
  /\ error[r] # None /\ error[r].type = "KeyCollision" => At(r) \in Lines
  /\ \A i \in DOMAIN clips[r] : Mine(r, i)

\* an attempt is of the line its run is at, or of one before it, and what it
\* ends with is true
WorkerInv(w) ==
  /\ slot[w] = None <=> apc[w] \in {"down", "free"}
  /\ slot[w] # None => slot[w].line <= At(slot[w].run)
  /\ ending[w] = None <=> apc[w] # "report"
  /\ apc[w] = "report" =>
       /\ ending[w] = Uploaded => Mine(slot[w].run, slot[w].line)
       /\ Truthful(ending[w], slot[w].run, slot[w].line)

\* so is an object of a run, and it is under its own key
ObjectInv(k) ==
  store[k] # None /\ store[k].owner \in Runs =>
    /\ store[k].audio \in Jobs
    /\ store[k].audio.run = store[k].owner
    /\ KeyOf(store[k].audio) = k
    /\ store[k].audio.line <= At(store[k].owner)

\* All of it.  It relates the server's record of a run, the attempts that are or
\* were at work on it, the uploads that may still happen and the objects there are.
BatchInv ==
  /\ BatchTypeOK
  /\ \A r \in Runs : RunInv(r)
  /\ \A w \in Workers : WorkerInv(w)
  /\ \A k \in Keys : ObjectInv(k)
  /\ \A j \in late : j.line <= At(j.run)

=============================================================================
