----------------------------- MODULE BatchProofs -----------------------------
(***************************************************************************)
(* Proofs about Batch.  BatchInv is inductive (Invariance); from it follow *)
(* what a run advertises and says of its keys, and that the batch          *)
(* implements the claim-once store.                                        *)
(*                                                                         *)
(* A step touches one worker and one run at most, adds objects to the      *)
(* store and never takes one away, and moves a run to a later line only.   *)
(* WorkersKeep, RunsKeep and ObjectsKeep say that this is enough for all   *)
(* it does not touch; the lemma of an action is about what it does touch.  *)
(***************************************************************************)
EXTENDS Batch, TLAPS

StoreGrows == \A k \in Keys : store[k] # None => store'[k] = store[k]
LinesGrow == \A r \in Runs : At(r) <= At(r)'

LEMMA JobFields ==
  ASSUME NEW j \in Jobs
  PROVE  j.run \in Runs /\ j.line \in Lines /\ j.attempt \in 1 .. MaxAttempts
         /\ KeyOf(j) \in Keys
PROOF
  BY KeyAssumption DEF Jobs, KeyOf

LEMMA OwnerType ==
  ASSUME BatchTypeOK, NEW k \in Keys
  PROVE  OwnerOf(k) \in Owners /\ (OwnerOf(k) = None <=> store[k] = None)
PROOF
  BY BatchAssumption DEF BatchTypeOK, Objects, Owners, OwnerOf

LEMMA AtType ==
  ASSUME BatchTypeOK, NEW r \in Runs
  PROVE  At(r) \in Nat /\ At(r) = Len(clips[r]) + 1 /\ Len(clips[r]) \in Nat
         /\ DOMAIN clips[r] = 1 .. Len(clips[r])
PROOF
  BY DEF BatchTypeOK, At

\* an attempt in a slot is a job
LEMMA SlotJob ==
  ASSUME BatchInv, NEW w \in Workers, apc[w] \notin {"down", "free"}
  PROVE  slot[w] \in Jobs /\ slot[w] # None /\ slot[w].line <= At(slot[w].run)
PROOF
  BY DEF BatchInv, BatchTypeOK, WorkerInv

\* a claim stands
LEMMA OwnersStay ==
  ASSUME StoreGrows, NEW k \in Keys, OwnerOf(k) # None
  PROVE  OwnerOf(k)' = OwnerOf(k)
PROOF
  BY DEF StoreGrows, OwnerOf

LEMMA MineStays ==
  ASSUME StoreGrows, NEW r \in Runs, NEW i \in Lines, Mine(r, i)
  PROVE  Mine(r, i)'
PROOF
  <1>1. Key[r][i] \in Keys /\ r # None
    BY KeyAssumption, BatchAssumption
  <1>q. QED
    BY <1>1, OwnersStay DEF Mine

LEMMA TruthStays ==
  ASSUME StoreGrows, NEW f, NEW r \in Runs, NEW i \in Lines, Truthful(f, r, i)
  PROVE  f.type = "KeyCollision" /\ f.holder # None =>
           f.holder # r /\ OwnerOf(Key[r][i])' = f.holder
PROOF
  <1>1. Key[r][i] \in Keys
    BY KeyAssumption
  <1>q. QED
    BY <1>1, OwnersStay DEF Truthful

LEMMA WorkersKeep ==
  ASSUME BatchInv, BatchTypeOK', StoreGrows, LinesGrow, NEW w \in Workers,
         apc'[w] = apc[w], slot'[w] = slot[w], ending'[w] = ending[w]
  PROVE  WorkerInv(w)'
PROOF
  <1>1. CASE slot[w] = None
    BY <1>1 DEF WorkerInv, BatchInv
  <1>2. CASE slot[w] # None
    <2>1. slot[w] \in Jobs /\ slot[w].line <= At(slot[w].run)
      BY <1>2 DEF BatchInv, BatchTypeOK, WorkerInv
    <2>2. slot[w].run \in Runs /\ slot[w].line \in Lines
      BY <2>1, JobFields
    <2>3. slot[w].line <= At(slot[w].run)'
      <3>1. At(slot[w].run) \in Nat /\ At(slot[w].run)' \in Nat
        BY <2>2, AtType DEF BatchInv, BatchTypeOK, At
      <3>2. slot[w].line \in Int
        BY <2>2 DEF Lines
      <3>q. QED
        BY <2>1, <2>2, <3>1, <3>2 DEF LinesGrow
    <2>4. Mine(slot[w].run, slot[w].line) => Mine(slot[w].run, slot[w].line)'
      BY <2>2, MineStays
    <2>5. Truthful(ending[w], slot[w].run, slot[w].line) =>
            Truthful(ending[w], slot[w].run, slot[w].line)'
      BY <2>2, TruthStays DEF Truthful
    <2>q. QED
      BY <2>2, <2>3, <2>4, <2>5 DEF WorkerInv, BatchInv
  <1>q. QED
    BY <1>1, <1>2

LEMMA RunsKeep ==
  ASSUME BatchInv, BatchTypeOK', StoreGrows, NEW r \in Runs,
         status'[r] = status[r], state'[r] = state[r], clips'[r] = clips[r],
         error'[r] = error[r], phase'[r] = phase[r], attempt'[r] = attempt[r],
         outcome'[r] = outcome[r]
  PROVE  RunInv(r)'
PROOF
  <1>1. RunInv(r) /\ At(r)' = At(r)
    BY DEF BatchInv, At
  <1>2. \A i \in DOMAIN clips[r] : i \in Lines
    BY <1>1, AtType, BatchAssumption DEF BatchInv, RunInv, Lines
  <1>3. \A i \in Lines : Mine(r, i) => Mine(r, i)'
    BY MineStays
  <1>4. At(r) \in Lines => \A f : Truthful(f, r, At(r)) => Truthful(f, r, At(r))'
    BY <1>1, TruthStays DEF Truthful
  <1>5. error[r] # None => Truthful(error[r], r, At(r))'
    BY <1>1, <1>4 DEF RunInv, Truthful
  <1>6. phase[r] = "failed" => Truthful(outcome[r], r, At(r))'
    BY <1>1, <1>4 DEF RunInv
  <1>7. phase[r] = "completed" => Mine(r, At(r))'
    BY <1>1, <1>3 DEF RunInv, Mine
  <1>8. \A i \in DOMAIN clips[r] : Mine(r, i)'
    BY <1>1, <1>2, <1>3 DEF RunInv
  <1>q. QED
    BY <1>1, <1>5, <1>6, <1>7, <1>8 DEF RunInv, Truthful, Mine, OwnerOf

LEMMA LinesStay ==
  ASSUME BatchTypeOK, NEW r \in Runs, clips'[r] = clips[r]
  PROVE  At(r) <= At(r)'
PROOF
  BY AtType DEF At

LEMMA ObjectsKeep ==
  ASSUME BatchInv, BatchTypeOK', LinesGrow, NEW k \in Keys, store'[k] = store[k]
  PROVE  ObjectInv(k)'
PROOF
  <1>1. ObjectInv(k)
    BY DEF BatchInv
  <1>2. SUFFICES ASSUME store[k] # None, store[k].owner \in Runs
                 PROVE  store[k].audio.line <= At(store[k].owner)'
    BY <1>1 DEF ObjectInv, KeyOf
  <1>3. store[k].audio.line \in Int
    BY <1>1, <1>2, JobFields DEF ObjectInv, Lines
  <1>4. At(store[k].owner) \in Nat /\ At(store[k].owner)' \in Nat
    BY <1>2 DEF BatchInv, BatchTypeOK, At
  <1>q. QED
    BY <1>1, <1>2, <1>3, <1>4 DEF ObjectInv, LinesGrow

LEMMA LateKeep ==
  ASSUME BatchInv, BatchTypeOK', LinesGrow, NEW j \in Jobs, j.line <= At(j.run)
  PROVE  j.line <= At(j.run)'
PROOF
  <1>1. j.run \in Runs /\ j.line \in Int
    BY JobFields DEF Lines
  <1>2. At(j.run) \in Nat /\ At(j.run)' \in Nat
    BY <1>1 DEF BatchInv, BatchTypeOK, At
  <1>q. QED
    BY <1>1, <1>2 DEF LinesGrow

\* a step of one worker that leaves the runs and the store alone
LEMMA WorkerStep ==
  ASSUME BatchInv, BatchTypeOK', UNCHANGED <<runVars, actVars, store>>,
         NEW w \in Workers, WorkerInv(w)',
         \A v \in Workers \ {w} : apc'[v] = apc[v] /\ slot'[v] = slot[v]
                                    /\ ending'[v] = ending[v],
         \A j \in late' : j \in late \/ (slot[w] # None /\ j = slot[w])
  PROVE  BatchInv'
PROOF
  <1>1. StoreGrows /\ LinesGrow
    BY LinesStay DEF StoreGrows, LinesGrow, runVars, BatchInv
  <1>2. ASSUME NEW r \in Runs PROVE RunInv(r)'
    BY <1>1, RunsKeep DEF runVars, actVars
  <1>3. ASSUME NEW v \in Workers PROVE WorkerInv(v)'
    BY <1>1, WorkersKeep
  <1>4. ASSUME NEW k \in Keys PROVE ObjectInv(k)'
    BY <1>1, ObjectsKeep
  <1>5. ASSUME NEW j \in late' PROVE j.line <= At(j.run)'
    <2>1. j \in Jobs
      BY DEF BatchInv, BatchTypeOK
    <2>2. j.line <= At(j.run)
      BY DEF BatchInv, WorkerInv
    <2>q. QED
      BY <1>1, <2>1, <2>2, LateKeep
  <1>q. QED
    BY <1>2, <1>3, <1>4, <1>5 DEF BatchInv

\* a step of one run that leaves the workers and the store alone
LEMMA RunStep ==
  ASSUME BatchInv, BatchTypeOK', Elsewhere, NEW r \in Runs, RunInv(r)',
         At(r) <= At(r)',
         \A q \in Runs \ {r} :
           /\ status'[q] = status[q] /\ state'[q] = state[q]
           /\ clips'[q] = clips[q] /\ error'[q] = error[q]
           /\ phase'[q] = phase[q] /\ attempt'[q] = attempt[q]
           /\ outcome'[q] = outcome[q]
  PROVE  BatchInv'
PROOF
  <1>1. StoreGrows /\ LinesGrow
    BY LinesStay DEF StoreGrows, LinesGrow, Elsewhere, BatchInv
  <1>2. ASSUME NEW q \in Runs PROVE RunInv(q)'
    BY <1>1, RunsKeep
  <1>3. ASSUME NEW v \in Workers PROVE WorkerInv(v)'
    BY <1>1, WorkersKeep DEF Elsewhere, workVars
  <1>4. ASSUME NEW k \in Keys PROVE ObjectInv(k)'
    BY <1>1, ObjectsKeep DEF Elsewhere
  <1>5. ASSUME NEW j \in late' PROVE j.line <= At(j.run)'
    BY <1>1, LateKeep DEF Elsewhere, BatchInv, BatchTypeOK
  <1>q. QED
    BY <1>2, <1>3, <1>4, <1>5 DEF BatchInv

---------------------------------------------------------------------------
(* The actions of a worker.                                                *)

Busy == {"head", "wait", "got", "put", "who"}

\* an attempt ends
LEMMA EndKeeps ==
  ASSUME BatchInv, NEW w \in Workers, NEW from \in Busy,
         NEW e \in Failures \cup {Uploaded}, EndWith(w, from, e),
         UNCHANGED <<runVars, actVars, store, crashes>>,
         abandoned' \in [Workers -> Nat], late' \in {late, late \cup {slot[w]}},
         e = Uploaded => Mine(slot[w].run, slot[w].line),
         Truthful(e, slot[w].run, slot[w].line)
  PROVE  BatchInv'
PROOF
  <1>1. slot[w] \in Jobs /\ slot[w] # None /\ slot[w].line <= At(slot[w].run)
    BY SlotJob DEF EndWith, GoOn, Busy
  <1>2. BatchTypeOK'
    BY <1>1 DEF BatchInv, BatchTypeOK, EndWith, GoOn, runVars, actVars, ActivityPcs
  <1>3. e # None
    BY NoneAssumption
  <1>4. WorkerInv(w)'
    BY <1>1, <1>3 DEF WorkerInv, BatchInv, BatchTypeOK, EndWith, GoOn, runVars,
                      At, Truthful, Mine, OwnerOf
  <1>q. QED
    BY <1>1, <1>2, <1>4, WorkerStep DEF EndWith, GoOn, BatchInv, BatchTypeOK

\* an attempt goes on
LEMMA GoOnKeeps ==
  ASSUME BatchInv, NEW w \in Workers, NEW from \in Busy, NEW to \in Busy,
         GoOn(w, from, to),
         UNCHANGED <<runVars, actVars, slot, ending, abandoned, store, late, crashes>>
  PROVE  BatchInv'
PROOF
  <1>1. BatchTypeOK'
    BY DEF BatchInv, BatchTypeOK, GoOn, runVars, actVars, ActivityPcs, Busy
  <1>2. WorkerInv(w)'
    BY DEF WorkerInv, BatchInv, BatchTypeOK, GoOn, runVars, At, Busy
  <1>q. QED
    BY <1>1, <1>2, WorkerStep DEF GoOn, BatchInv, BatchTypeOK

LEMMA FailureTypes ==
  /\ \A t \in {"InvalidRequest", "Transient", "Timeout", "Cancelled"} :
       Failure(t) \in Failures /\ Failure(t) # Uploaded
         /\ \A r, i : Truthful(Failure(t), r, i)
  /\ \A o \in Owners : KeyCollision(o) \in Failures /\ KeyCollision(o) # Uploaded
  /\ \A r, i : Truthful(Uploaded, r, i)
PROOF
  BY DEF Failures, Failure, KeyCollision, Uploaded, Truthful

\* the attempts that end without a word about the store
LEMMA FailKeeps ==
  ASSUME BatchInv, NEW w \in Workers,
         HeadFails(w) \/ CallFailed(w) \/ Abandon(w) \/ Discard(w) \/ PutLost(w)
           \/ WhoFails(w)
  PROVE  BatchInv'
PROOF
  <1>1. PICK from \in Busy, t \in {"InvalidRequest", "Transient", "Cancelled"} :
          EndWith(w, from, Failure(t))
    BY DEF HeadFails, CallFailed, Abandon, Discard, PutLost, WhoFails, Busy
  <1>2. UNCHANGED <<runVars, actVars, store, crashes>>
    BY DEF HeadFails, CallFailed, Abandon, Discard, PutLost, WhoFails
  <1>3. abandoned' \in [Workers -> Nat]
    BY DEF HeadFails, CallFailed, Abandon, Discard, PutLost, WhoFails,
           BatchInv, BatchTypeOK
  <1>4. late' \in {late, late \cup {slot[w]}}
    BY DEF HeadFails, CallFailed, Abandon, Discard, PutLost, WhoFails
  <1>q. QED
    BY <1>1, <1>2, <1>3, <1>4, FailureTypes, EndKeeps

\* those that say who holds the key, or that it is theirs
LEMMA AnswerKeeps ==
  ASSUME BatchInv, NEW w \in Workers, HeadForeign(w) \/ WhoElse(w) \/ WhoOurs(w)
  PROVE  BatchInv'
PROOF
  <1>1. PICK from \in Busy : apc[w] = from
    BY DEF HeadForeign, WhoElse, WhoOurs, EndWith, GoOn, Busy
  <1>2. slot[w] \in Jobs
    BY <1>1, SlotJob DEF Busy
  <1>3. slot[w].run \in Runs /\ KeyOf(slot[w]) \in Keys
    BY <1>2, JobFields
  <1>4. OwnerOf(KeyOf(slot[w])) \in Owners
    BY <1>3, OwnerType DEF BatchInv
  <1>5. CASE HeadForeign(w) \/ WhoElse(w)
    <2>1. Truthful(KeyCollision(OwnerOf(KeyOf(slot[w]))), slot[w].run, slot[w].line)
      BY <1>5 DEF HeadForeign, WhoElse, Truthful, KeyCollision, KeyOf
    <2>2. PICK g \in Busy : EndWith(w, g, KeyCollision(OwnerOf(KeyOf(slot[w]))))
      BY <1>5 DEF HeadForeign, WhoElse, Busy
    <2>3. UNCHANGED <<runVars, actVars, abandoned, store, late, crashes>>
      BY <1>5 DEF HeadForeign, WhoElse
    <2>4. abandoned' \in [Workers -> Nat]
      BY <2>3 DEF BatchInv, BatchTypeOK
    <2>q. QED
      BY <1>4, <2>1, <2>2, <2>3, <2>4, FailureTypes, EndKeeps
  <1>6. CASE WhoOurs(w)
    <2>1. Mine(slot[w].run, slot[w].line)
      BY <1>6 DEF WhoOurs, Mine, KeyOf
    <2>2. EndWith(w, "who", Uploaded)
      BY <1>6 DEF WhoOurs
    <2>3. UNCHANGED <<runVars, actVars, abandoned, store, late, crashes>>
      BY <1>6 DEF WhoOurs
    <2>4. abandoned' \in [Workers -> Nat]
      BY <2>3 DEF BatchInv, BatchTypeOK
    <2>q. QED
      BY <2>1, <2>2, <2>3, <2>4, FailureTypes, EndKeeps DEF Busy
  <1>q. QED
    BY <1>5, <1>6

LEMMA MoveKeeps ==
  ASSUME BatchInv, NEW w \in Workers,
         HeadClear(w) \/ CallAnswered(w) \/ StartUpload(w) \/ PutRefused(w)
  PROVE  BatchInv'
PROOF
  <1>1. PICK from \in Busy, to \in Busy : GoOn(w, from, to)
    BY DEF HeadClear, CallAnswered, StartUpload, PutRefused, Busy
  <1>2. UNCHANGED <<runVars, actVars, slot, ending, abandoned, store, late, crashes>>
    BY DEF HeadClear, CallAnswered, StartUpload, PutRefused
  <1>q. QED
    BY <1>1, <1>2, GoOnKeeps

\* what happens to a worker with nothing in its slot, or empties it
LEMMA ProcessKeeps ==
  ASSUME BatchInv, NEW w \in Workers,
         AbandonedEnds(w) \/ StartWorker(w) \/ Crash(w) \/ ReportStale(w)
  PROVE  BatchInv'
PROOF
  <1>1. CASE AbandonedEnds(w)
    <2>1. BatchTypeOK'
      BY <1>1 DEF AbandonedEnds, BatchInv, BatchTypeOK, runVars, actVars
    <2>2. WorkerInv(w)'
      BY <1>1 DEF AbandonedEnds, WorkerInv, BatchInv, BatchTypeOK, runVars, At,
                  Truthful, Mine, OwnerOf
    <2>q. QED
      BY <1>1, <2>1, <2>2, WorkerStep DEF AbandonedEnds, BatchInv, BatchTypeOK
  <1>2. CASE StartWorker(w)
    <2>1. BatchTypeOK'
      BY <1>2 DEF StartWorker, GoOn, BatchInv, BatchTypeOK, runVars, actVars, ActivityPcs
    <2>2. WorkerInv(w)'
      BY <1>2 DEF StartWorker, GoOn, WorkerInv, BatchInv, BatchTypeOK
    <2>q. QED
      BY <1>2, <2>1, <2>2, WorkerStep DEF StartWorker, GoOn, BatchInv, BatchTypeOK
  <1>3. CASE Crash(w)
    <2>1. apc[w] = "put" => slot[w] \in Jobs /\ slot[w] # None
      BY SlotJob
    <2>2. BatchTypeOK'
      BY <1>3, <2>1, BatchAssumption
         DEF Crash, BatchInv, BatchTypeOK, runVars, actVars, ActivityPcs
    <2>3. WorkerInv(w)'
      BY <1>3 DEF Crash, WorkerInv, BatchInv, BatchTypeOK
    <2>q. QED
      BY <1>3, <2>1, <2>2, <2>3, WorkerStep DEF Crash, BatchInv, BatchTypeOK
  <1>4. CASE ReportStale(w)
    <2>1. BatchTypeOK'
      BY <1>4 DEF ReportStale, FreeSlot, GoOn, BatchInv, BatchTypeOK, runVars,
                  actVars, ActivityPcs
    <2>2. WorkerInv(w)'
      BY <1>4 DEF ReportStale, FreeSlot, GoOn, WorkerInv, BatchInv, BatchTypeOK
    <2>q. QED
      BY <1>4, <2>1, <2>2, WorkerStep
         DEF ReportStale, FreeSlot, GoOn, BatchInv, BatchTypeOK
  <1>q. QED
    BY <1>1, <1>2, <1>3, <1>4

---------------------------------------------------------------------------
(* The actions that claim a key.                                           *)

\* an upload happens, of the attempt in a slot or of one that is gone
LEMMA ClaimGrows ==
  ASSUME BatchInv, NEW j \in Jobs, j.line <= At(j.run), store[KeyOf(j)] = None,
         store' = [store EXCEPT ![KeyOf(j)] = [owner |-> j.run, audio |-> j]],
         UNCHANGED clips, BatchTypeOK'
  PROVE  /\ StoreGrows /\ LinesGrow
         /\ \A k \in Keys : ObjectInv(k)'
         /\ Mine(j.run, j.line)'
PROOF
  <1>1. j.run \in Runs /\ KeyOf(j) \in Keys
    BY JobFields
  <1>2. StoreGrows /\ LinesGrow
    BY <1>1, LinesStay DEF StoreGrows, LinesGrow, BatchInv, BatchTypeOK
  <1>3. store'[KeyOf(j)] = [owner |-> j.run, audio |-> j]
    BY <1>1 DEF BatchInv, BatchTypeOK
  <1>4. [owner |-> j.run, audio |-> j] # None
    BY <1>1, NoneAssumption DEF Objects
  <1>5. ASSUME NEW k \in Keys PROVE ObjectInv(k)'
    <2>1. CASE k = KeyOf(j)
      BY <1>1, <1>3, <2>1 DEF ObjectInv, KeyOf, At
    <2>2. CASE k # KeyOf(j)
      BY <1>1, <1>2, <2>2, ObjectsKeep DEF BatchInv, BatchTypeOK
    <2>q. QED
      BY <2>1, <2>2
  <1>6. Mine(j.run, j.line)'
    BY <1>3, <1>4 DEF Mine, OwnerOf, KeyOf
  <1>q. QED
    BY <1>2, <1>5, <1>6

LEMMA PutCreatesKeeps ==
  ASSUME BatchInv, NEW w \in Workers, PutCreates(w)
  PROVE  BatchInv'
PROOF
  <1>1. PICK j \in Jobs : slot[w] = j /\ j # None /\ j.line <= At(j.run)
    BY SlotJob DEF PutCreates
  <1>2. j.run \in Runs /\ KeyOf(j) \in Keys
    BY JobFields
  <1>3. BatchTypeOK'
    BY <1>1, <1>2 DEF PutCreates, EndWith, GoOn, BatchInv, BatchTypeOK, runVars,
                      actVars, ActivityPcs, Objects
  <1>4. StoreGrows /\ LinesGrow /\ (\A k \in Keys : ObjectInv(k)')
          /\ Mine(j.run, j.line)'
    <2>1. store[KeyOf(j)] = None
            /\ store' = [store EXCEPT ![KeyOf(j)] = [owner |-> j.run, audio |-> j]]
            /\ UNCHANGED clips
      BY <1>1 DEF PutCreates, runVars
    <2>q. QED
      BY <1>1, <1>3, <2>1, ClaimGrows
  <1>5. ASSUME NEW r \in Runs PROVE RunInv(r)'
    BY <1>3, <1>4, RunsKeep DEF PutCreates, runVars, actVars
  <1>6. WorkerInv(w)'
    <2>1. slot'[w] = j /\ apc'[w] = "report" /\ ending'[w] = Uploaded
      BY <1>1 DEF PutCreates, EndWith, GoOn, BatchInv, BatchTypeOK
    <2>2. j.line <= At(j.run)'
      BY <1>1, <1>3, <1>4, LateKeep
    <2>3. Uploaded # None /\ Uploaded.type # "KeyCollision"
      BY NoneAssumption DEF Uploaded
    <2>q. QED
      BY <1>1, <1>4, <2>1, <2>2, <2>3 DEF WorkerInv, Truthful, Mine, OwnerOf, At
  <1>7. ASSUME NEW v \in Workers \ {w} PROVE WorkerInv(v)'
    BY <1>3, <1>4, WorkersKeep DEF PutCreates, EndWith, GoOn, BatchInv, BatchTypeOK
  <1>8. ASSUME NEW i \in late' PROVE i.line <= At(i.run)'
    BY <1>3, <1>4, LateKeep DEF PutCreates, BatchInv, BatchTypeOK
  <1>q. QED
    BY <1>3, <1>4, <1>5, <1>6, <1>7, <1>8 DEF BatchInv

LEMMA LateKeeps ==
  ASSUME BatchInv, NEW j \in late, LateCreates(j) \/ LateDropped(j)
  PROVE  BatchInv'
PROOF
  <1>1. j \in Jobs /\ j.line <= At(j.run)
    BY DEF BatchInv, BatchTypeOK
  <1>2. j.run \in Runs /\ KeyOf(j) \in Keys
    BY <1>1, JobFields
  <1>3. BatchTypeOK'
    BY <1>1, <1>2 DEF LateCreates, LateDropped, BatchInv, BatchTypeOK, runVars,
                      actVars, workVars, Objects
  <1>4. StoreGrows /\ LinesGrow /\ (\A k \in Keys : ObjectInv(k)')
    <2>1. CASE LateCreates(j)
      BY <1>1, <1>3, <2>1, ClaimGrows DEF LateCreates, runVars
    <2>2. CASE LateDropped(j)
      <3>1. StoreGrows /\ LinesGrow
        BY <2>2, LinesStay DEF LateDropped, runVars, StoreGrows, LinesGrow, BatchInv
      <3>q. QED
        BY <1>3, <2>2, <3>1, ObjectsKeep DEF LateDropped
    <2>q. QED
      BY <2>1, <2>2
  <1>5. ASSUME NEW r \in Runs PROVE RunInv(r)'
    BY <1>3, <1>4, RunsKeep DEF LateCreates, LateDropped, runVars, actVars
  <1>6. ASSUME NEW v \in Workers PROVE WorkerInv(v)'
    BY <1>3, <1>4, WorkersKeep DEF LateCreates, LateDropped, workVars
  <1>7. ASSUME NEW i \in late' PROVE i.line <= At(i.run)'
    BY <1>3, <1>4, LateKeep DEF LateCreates, LateDropped, BatchInv, BatchTypeOK
  <1>q. QED
    BY <1>3, <1>4, <1>5, <1>6, <1>7 DEF BatchInv

---------------------------------------------------------------------------
(* The actions of the Temporal server.                                     *)

\* what a failed attempt does to its run
LEMMA RetryKeeps ==
  ASSUME BatchInv, NEW r \in Runs, NEW f \in Failures, phase[r] = "started",
         Truthful(f, r, At(r)), Retry(r, f), UNCHANGED <<runVars, store>>
  PROVE  /\ RunInv(r)'
         /\ phase' \in [Runs -> Phases]
         /\ attempt' \in [Runs -> 0 .. MaxAttempts]
         /\ outcome' \in [Runs -> Jobs \cup Failures \cup {None}]
         /\ \A q \in Runs \ {r} : phase'[q] = phase[q] /\ attempt'[q] = attempt[q]
                                    /\ outcome'[q] = outcome[q]
PROOF
  <1>1. RunInv(r) /\ BatchTypeOK
    BY DEF BatchInv
  <1>2. /\ phase' \in [Runs -> Phases]
        /\ attempt' \in [Runs -> 0 .. MaxAttempts]
        /\ outcome' \in [Runs -> Jobs \cup Failures \cup {None}]
        /\ \A q \in Runs \ {r} : phase'[q] = phase[q] /\ attempt'[q] = attempt[q]
                                   /\ outcome'[q] = outcome[q]
    <2>1. CASE Retryable(f) /\ attempt[r] < MaxAttempts
      <3>1. attempt[r] + 1 \in 0 .. MaxAttempts
        BY <1>1, <2>1, BatchAssumption DEF BatchTypeOK
      <3>q. QED
        BY <1>1, <2>1, <3>1 DEF Retry, BatchTypeOK, Phases
    <2>2. CASE ~(Retryable(f) /\ attempt[r] < MaxAttempts)
      BY <1>1, <2>2 DEF Retry, BatchTypeOK, Phases
    <2>q. QED
      BY <2>1, <2>2
  <1>3. RunInv(r)'
    <2>1. CASE phase'[r] = "scheduled" /\ attempt'[r] \in 1 .. MaxAttempts
      BY <1>1, <2>1 DEF RunInv, runVars, At, Mine, OwnerOf, Truthful, Phases
    <2>2. CASE phase'[r] = "failed" /\ outcome'[r] = f /\ attempt'[r] = attempt[r]
      BY <1>1, <2>2 DEF RunInv, runVars, At, Mine, OwnerOf, Truthful, Phases
    <2>3. \/ phase'[r] = "scheduled" /\ attempt'[r] \in 1 .. MaxAttempts
          \/ phase'[r] = "failed" /\ outcome'[r] = f /\ attempt'[r] = attempt[r]
      BY <1>1, BatchAssumption DEF Retry, RunInv, BatchTypeOK
    <2>q. QED
      BY <2>1, <2>2, <2>3
  <1>q. QED
    BY <1>2, <1>3

LEMMA TimeOutKeeps ==
  ASSUME BatchInv, NEW r \in Runs, TimeOut(r)
  PROVE  BatchInv'
PROOF
  <1>1. Failure("Timeout") \in Failures /\ Truthful(Failure("Timeout"), r, At(r))
    BY FailureTypes
  <1>2. phase[r] = "started" /\ Retry(r, Failure("Timeout"))
          /\ UNCHANGED <<runVars, store>>
    BY DEF TimeOut
  <1>3. /\ RunInv(r)'
        /\ phase' \in [Runs -> Phases]
        /\ attempt' \in [Runs -> 0 .. MaxAttempts]
        /\ outcome' \in [Runs -> Jobs \cup Failures \cup {None}]
        /\ \A q \in Runs \ {r} : phase'[q] = phase[q] /\ attempt'[q] = attempt[q]
                                   /\ outcome'[q] = outcome[q]
    BY <1>1, <1>2, RetryKeeps
  <1>4. BatchTypeOK'
    BY <1>3 DEF BatchInv, BatchTypeOK, TimeOut, runVars, workVars
  <1>5. At(r) <= At(r)'
    BY LinesStay DEF TimeOut, runVars, BatchInv
  <1>q. QED
    BY <1>3, <1>4, <1>5, RunStep DEF TimeOut, runVars, Elsewhere

\* a step of one worker and one run that leaves the store and the lines alone
LEMMA ReportStep ==
  ASSUME BatchInv, BatchTypeOK', UNCHANGED <<runVars, store, late>>,
         NEW w \in Workers, WorkerInv(w)', NEW r \in Runs, RunInv(r)',
         \A v \in Workers \ {w} : apc'[v] = apc[v] /\ slot'[v] = slot[v]
                                    /\ ending'[v] = ending[v],
         \A q \in Runs \ {r} : phase'[q] = phase[q] /\ attempt'[q] = attempt[q]
                                 /\ outcome'[q] = outcome[q]
  PROVE  BatchInv'
PROOF
  <1>1. StoreGrows /\ LinesGrow
    BY LinesStay DEF StoreGrows, LinesGrow, runVars, BatchInv
  <1>2. ASSUME NEW q \in Runs PROVE RunInv(q)'
    BY <1>1, RunsKeep DEF runVars
  <1>3. ASSUME NEW v \in Workers PROVE WorkerInv(v)'
    BY <1>1, WorkersKeep
  <1>4. ASSUME NEW k \in Keys PROVE ObjectInv(k)'
    BY <1>1, ObjectsKeep
  <1>5. ASSUME NEW j \in late' PROVE j.line <= At(j.run)'
    BY <1>1, LateKeep DEF BatchInv, BatchTypeOK
  <1>q. QED
    BY <1>2, <1>3, <1>4, <1>5 DEF BatchInv

\* the worker of a reported attempt
LEMMA FreeSlotKeeps ==
  ASSUME BatchInv, NEW w \in Workers, FreeSlot(w)
  PROVE  /\ WorkerInv(w)'
         /\ apc' \in [Workers -> ActivityPcs]
         /\ slot' \in [Workers -> Jobs \cup {None}]
         /\ ending' \in [Workers -> Failures \cup {Uploaded, None}]
         /\ abandoned' \in [Workers -> Nat]
         /\ \A v \in Workers \ {w} : apc'[v] = apc[v] /\ slot'[v] = slot[v]
                                       /\ ending'[v] = ending[v]
PROOF
  BY DEF FreeSlot, GoOn, WorkerInv, BatchInv, BatchTypeOK, ActivityPcs

LEMMA ReportKeeps ==
  ASSUME BatchInv, NEW w \in Workers, ReportClip(w) \/ ReportFailure(w)
  PROVE  BatchInv'
PROOF
  <1>1. PICK j \in Jobs : slot[w] = j
    BY SlotJob DEF ReportClip, ReportFailure
  <1>2. j.run \in Runs /\ phase[j.run] = "started" /\ j.line = At(j.run)
    BY <1>1, JobFields DEF ReportClip, ReportFailure, Current
  <1>3. FreeSlot(w) /\ UNCHANGED <<runVars, store, late, crashes>>
    BY DEF ReportClip, ReportFailure
  <1>4. WorkerInv(w) /\ RunInv(j.run) /\ BatchTypeOK
    BY <1>2 DEF BatchInv
  <1>5. /\ RunInv(j.run)'
        /\ phase' \in [Runs -> Phases]
        /\ attempt' \in [Runs -> 0 .. MaxAttempts]
        /\ outcome' \in [Runs -> Jobs \cup Failures \cup {None}]
        /\ \A q \in Runs \ {j.run} :
             phase'[q] = phase[q] /\ attempt'[q] = attempt[q]
               /\ outcome'[q] = outcome[q]
    <2>1. CASE ReportClip(w)
      <3>1. Mine(j.run, At(j.run))
        BY <1>1, <1>2, <1>4, <2>1 DEF ReportClip, WorkerInv
      <3>2. phase' = [phase EXCEPT ![j.run] = "completed"]
              /\ outcome' = [outcome EXCEPT ![j.run] = j] /\ attempt' = attempt
        BY <1>1, <2>1 DEF ReportClip
      <3>3. phase'[j.run] = "completed" /\ outcome'[j.run] = j
        BY <1>2, <1>4, <3>2 DEF BatchTypeOK
      <3>4. RunInv(j.run)'
        BY <1>2, <1>3, <1>4, <3>1, <3>2, <3>3
           DEF RunInv, runVars, At, Mine, OwnerOf, Truthful
      <3>q. QED
        BY <1>2, <1>4, <3>2, <3>4 DEF BatchTypeOK, Phases
    <2>2. CASE ReportFailure(w)
      <3>1. PICK f \in Failures : ending[w] = f /\ Retry(j.run, f)
        BY <1>1, <1>4, <2>2 DEF ReportFailure, BatchTypeOK, WorkerInv
      <3>2. Truthful(f, j.run, At(j.run))
        BY <1>1, <1>2, <1>4, <2>2, <3>1 DEF ReportFailure, WorkerInv
      <3>q. QED
        BY <1>2, <1>3, <3>1, <3>2, RetryKeeps
    <2>q. QED
      BY <2>1, <2>2
  <1>6. /\ WorkerInv(w)'
        /\ apc' \in [Workers -> ActivityPcs]
        /\ slot' \in [Workers -> Jobs \cup {None}]
        /\ ending' \in [Workers -> Failures \cup {Uploaded, None}]
        /\ abandoned' \in [Workers -> Nat]
        /\ \A v \in Workers \ {w} : apc'[v] = apc[v] /\ slot'[v] = slot[v]
                                      /\ ending'[v] = ending[v]
    BY <1>3, FreeSlotKeeps
  <1>7. BatchTypeOK'
    BY <1>3, <1>4, <1>5, <1>6 DEF BatchTypeOK, runVars
  <1>q. QED
    BY <1>2, <1>3, <1>5, <1>6, <1>7, ReportStep

LEMMA TakeKeeps ==
  ASSUME BatchInv, NEW w \in Workers, NEW r \in Runs, Take(w, r)
  PROVE  BatchInv'
PROOF
  <1>1. RunInv(r) /\ WorkerInv(w) /\ BatchTypeOK
    BY DEF BatchInv
  <1>2. PICK j \in Jobs : j = [run |-> r, line |-> At(r), attempt |-> attempt[r]]
    BY <1>1 DEF Take, RunInv, Jobs
  <1>3. slot' = [slot EXCEPT ![w] = j] /\ j # None
    BY <1>2, NoneAssumption DEF Take
  <1>4. BatchTypeOK'
    BY <1>1, <1>3 DEF Take, GoOn, BatchTypeOK, runVars, Phases, ActivityPcs
  <1>5. At(r)' = At(r) /\ At(r) \in Nat
    BY <1>1, AtType DEF Take, runVars, At
  <1>6. RunInv(r)'
    BY <1>1, <1>4, <1>5 DEF Take, RunInv, BatchTypeOK, runVars, Mine, OwnerOf,
                            Truthful, At
  <1>7. WorkerInv(w)'
    <2>1. slot'[w] = j /\ apc'[w] = "head" /\ ending'[w] = None
      BY <1>1, <1>3 DEF Take, GoOn, BatchTypeOK, WorkerInv
    <2>2. j.line <= At(j.run)'
      BY <1>2, <1>5
    <2>q. QED
      BY <1>3, <2>1, <2>2 DEF WorkerInv, At
  <1>q. QED
    BY <1>1, <1>3, <1>4, <1>6, <1>7, ReportStep
       DEF Take, GoOn, runVars, BatchTypeOK

---------------------------------------------------------------------------
(* The actions of the workflow and of the command line.                    *)

\* a run is closed, or goes on, without another clip
\* everything about another run stays as it is
OthersStay(r) ==
  \A q \in Runs \ {r} :
    /\ status'[q] = status[q] /\ state'[q] = state[q]
    /\ clips'[q] = clips[q] /\ error'[q] = error[q]
    /\ phase'[q] = phase[q] /\ attempt'[q] = attempt[q]
    /\ outcome'[q] = outcome[q]

LEMMA CloseKeeps ==
  ASSUME BatchInv, NEW r \in Runs,
         RejectRequest(r) \/ ActivityFailed(r) \/ CancelRun(r) \/ Terminate(r)
  PROVE  BatchInv'
PROOF
  <1>1. RunInv(r) /\ BatchTypeOK
    BY DEF BatchInv
  <1>2. clips' = clips /\ Elsewhere
    BY DEF RejectRequest, ActivityFailed, CancelRun, Terminate, Unschedule, Close
  <1>3. At(r)' = At(r) /\ At(r) \in Nat
    BY <1>1, <1>2, AtType DEF At
  <1>4. OthersStay(r)
    <2>1. CASE RejectRequest(r)
      BY <1>1, <2>1 DEF RejectRequest, Close, actVars, BatchTypeOK, OthersStay
    <2>2. CASE ActivityFailed(r)
      BY <1>1, <2>2 DEF ActivityFailed, Close, Unschedule, BatchTypeOK, OthersStay
    <2>3. CASE CancelRun(r)
      BY <1>1, <2>3 DEF CancelRun, Close, Unschedule, BatchTypeOK, OthersStay
    <2>4. CASE Terminate(r)
      BY <1>1, <2>4 DEF Terminate, Unschedule, BatchTypeOK, OthersStay
    <2>q. QED
      BY <2>1, <2>2, <2>3, <2>4
  <1>5. phase[r] = "failed" =>
          outcome[r] \in Failures /\ Truthful(outcome[r], r, At(r)) /\ At(r) \in Lines
    BY <1>1 DEF RunInv
  <1>6. Failure("InvalidRequest") \in Failures
          /\ Failure("InvalidRequest").type # "KeyCollision"
    BY DEF Failures, Failure
  <1>7. /\ status' \in [Runs -> Statuses] /\ state' \in [Runs -> States]
        /\ error' \in [Runs -> Failures \cup {None}]
        /\ phase' \in [Runs -> Phases] /\ attempt' \in [Runs -> 0 .. MaxAttempts]
        /\ outcome' \in [Runs -> Jobs \cup Failures \cup {None}]
    <2>1. CASE RejectRequest(r)
      BY <1>1, <1>6, <2>1 DEF RejectRequest, Close, actVars, BatchTypeOK, Statuses, States
    <2>2. CASE ActivityFailed(r)
      BY <1>1, <1>5, <2>2, BatchAssumption
         DEF ActivityFailed, Close, Unschedule, BatchTypeOK, Statuses, States, Phases
    <2>3. CASE CancelRun(r)
      BY <1>1, <2>3, BatchAssumption
         DEF CancelRun, Close, Unschedule, BatchTypeOK, Statuses, States, Phases
    <2>4. CASE Terminate(r)
      BY <1>1, <2>4, BatchAssumption
         DEF Terminate, Unschedule, BatchTypeOK, Statuses, Phases
    <2>q. QED
      BY <2>1, <2>2, <2>3, <2>4
  <1>8. BatchTypeOK'
    BY <1>1, <1>2, <1>7 DEF BatchTypeOK, Elsewhere, workVars
  <1>9. RunInv(r)'
    <2>1. CASE RejectRequest(r)
      BY <1>1, <1>3, <1>6, <2>1, NoneAssumption
         DEF RejectRequest, Unstarted, Close, Elsewhere, actVars, RunInv,
             BatchTypeOK, At, Mine, OwnerOf, Truthful
    <2>2. CASE ActivityFailed(r)
      BY <1>1, <1>3, <1>5, <2>2
         DEF ActivityFailed, AtAwait, Close, Unschedule, Elsewhere, RunInv,
             BatchTypeOK, At, Mine, OwnerOf, Truthful
    <2>3. CASE CancelRun(r)
      BY <1>1, <1>3, <2>3
         DEF CancelRun, Close, Unschedule, Elsewhere, RunInv, BatchTypeOK,
             At, Mine, OwnerOf, Truthful
    <2>4. CASE Terminate(r)
      BY <1>1, <1>3, <2>4
         DEF Terminate, Unschedule, Elsewhere, RunInv, BatchTypeOK,
             At, Mine, OwnerOf, Truthful
    <2>q. QED
      BY <2>1, <2>2, <2>3, <2>4
  <1>q. QED
    BY <1>2, <1>3, <1>4, <1>8, <1>9, RunStep DEF OthersStay

LEMMA OpenKeeps ==
  ASSUME BatchInv, NEW r \in Runs, Submit(r) \/ FirstLine(r)
  PROVE  BatchInv'
PROOF
  <1>1. RunInv(r) /\ BatchTypeOK
    BY DEF BatchInv
  <1>2. clips' = clips /\ Elsewhere
    BY DEF Submit, FirstLine
  <1>3. At(r)' = At(r) /\ At(r) \in Nat
    BY <1>1, <1>2, AtType DEF At
  <1>4. OthersStay(r)
    BY <1>1 DEF Submit, FirstLine, Schedule, actVars, BatchTypeOK, OthersStay
  <1>5. /\ status' \in [Runs -> Statuses] /\ state' \in [Runs -> States]
        /\ phase' \in [Runs -> Phases] /\ attempt' \in [Runs -> 0 .. MaxAttempts]
        /\ error' = error /\ outcome' = outcome
    <2>1. 1 \in 0 .. MaxAttempts
      BY BatchAssumption
    <2>2. CASE Submit(r)
      BY <1>1, <2>2 DEF Submit, actVars, BatchTypeOK, Statuses
    <2>3. CASE FirstLine(r)
      BY <1>1, <2>1, <2>3 DEF FirstLine, Schedule, BatchTypeOK, States, Phases
    <2>q. QED
      BY <2>2, <2>3
  <1>6. BatchTypeOK'
    BY <1>1, <1>2, <1>5 DEF BatchTypeOK, Elsewhere, workVars
  <1>7. RunInv(r)'
    <2>1. CASE Submit(r)
      BY <1>1, <1>3, <2>1
         DEF Submit, Elsewhere, actVars, RunInv, BatchTypeOK, At, Mine, OwnerOf, Truthful
    <2>2. CASE FirstLine(r)
      <3>1. At(r) \in Lines /\ 1 \in 1 .. MaxAttempts
        BY <1>1, <2>2, BatchAssumption DEF FirstLine, Unstarted, RunInv, At, Lines
      <3>q. QED
        BY <1>1, <1>3, <2>2, <3>1
           DEF FirstLine, Unstarted, Schedule, Elsewhere, RunInv, BatchTypeOK, At,
               Mine, OwnerOf, Truthful
    <2>q. QED
      BY <2>1, <2>2
  <1>q. QED
    BY <1>2, <1>3, <1>4, <1>6, <1>7, RunStep DEF OthersStay

LEMMA AppendClipKeeps ==
  ASSUME BatchInv, NEW r \in Runs, AppendClip(r)
  PROVE  BatchInv'
PROOF
  <1>1. RunInv(r) /\ BatchTypeOK
    BY DEF BatchInv
  <1>2. PICK c \in Jobs : c = outcome[r] /\ Mine(r, At(r)) /\ At(r) \in Lines
    BY <1>1 DEF AppendClip, RunInv
  <1>3. clips[r] \in Seq(Jobs) /\ clips' = [clips EXCEPT ![r] = Append(clips[r], c)]
    BY <1>1, <1>2 DEF AppendClip, BatchTypeOK
  <1>4. clips'[r] = Append(clips[r], c) /\ clips'[r] \in Seq(Jobs)
    BY <1>1, <1>3 DEF BatchTypeOK
  <1>5. Len(clips'[r]) = At(r) /\ At(r)' = At(r) + 1 /\ At(r) \in Nat
    BY <1>1, <1>3, <1>4, AtType DEF At
  <1>6. BatchTypeOK'
    <2>1. /\ status' \in [Runs -> Statuses] /\ state' \in [Runs -> States]
          /\ phase' \in [Runs -> Phases] /\ attempt' \in [Runs -> 0 .. MaxAttempts]
      <3>1. 0 \in 0 .. MaxAttempts /\ 1 \in 0 .. MaxAttempts
        BY BatchAssumption
      <3>2. CASE At(r) < NumLines
        <4>1. /\ phase' = [phase EXCEPT ![r] = "scheduled"]
              /\ attempt' = [attempt EXCEPT ![r] = 1]
              /\ status' = status /\ state' = state
          BY <3>2 DEF AppendClip, Schedule
        <4>q. QED
          BY <1>1, <3>1, <4>1 DEF BatchTypeOK, Phases
      <3>3. CASE ~(At(r) < NumLines)
        <4>1. /\ phase' = [phase EXCEPT ![r] = "none"]
              /\ attempt' = [attempt EXCEPT ![r] = 0]
              /\ status' = [status EXCEPT ![r] = "completed"]
              /\ state' = [state EXCEPT ![r] = "succeeded"]
          BY <3>3 DEF AppendClip, Unschedule, Close
        <4>q. QED
          BY <1>1, <3>1, <4>1 DEF BatchTypeOK, Statuses, States, Phases
      <3>q. QED
        BY <3>2, <3>3
    <2>2. /\ clips' \in [Runs -> Seq(Jobs)] /\ error' = error
          /\ outcome' \in [Runs -> Jobs \cup Failures \cup {None}]
      BY <1>1, <1>3, <1>4 DEF AppendClip, BatchTypeOK
    <2>q. QED
      BY <1>1, <2>1, <2>2 DEF AppendClip, Elsewhere, workVars, BatchTypeOK
  <1>7. \A i \in DOMAIN clips'[r] : Mine(r, i)'
    <2>1. DOMAIN clips'[r] = 1 .. At(r) /\ DOMAIN clips[r] = 1 .. (At(r) - 1)
      BY <1>1, <1>4, <1>5, AtType DEF At
    <2>2. \A i \in 1 .. At(r) : Mine(r, i)
      BY <1>1, <1>2, <1>5, <2>1 DEF RunInv
    <2>3. store' = store
      BY DEF AppendClip, Elsewhere
    <2>q. QED
      BY <2>1, <2>2, <2>3 DEF Mine, OwnerOf
  <1>8. RunInv(r)'
    <2>1. CASE At(r) < NumLines
      <3>1. At(r)' \in Lines
        BY <1>2, <1>5, <2>1, BatchAssumption DEF Lines
      <3>2. phase'[r] = "scheduled" /\ attempt'[r] = 1 /\ status'[r] = "running"
              /\ state'[r] = "running" /\ error' = error
        BY <1>1, <2>1 DEF AppendClip, AtAwait, Schedule, BatchTypeOK
      <3>q. QED
        <4>1. Len(clips'[r]) <= NumLines /\ error[r] = None
          BY <1>1, <1>5, <2>1, <3>2, BatchAssumption DEF RunInv, AppendClip, AtAwait
        <4>2. 1 \in 1 .. MaxAttempts
          BY BatchAssumption
        <4>q. QED
          BY <1>7, <3>1, <3>2, <4>1, <4>2 DEF RunInv
    <2>2. CASE ~(At(r) < NumLines)
      <3>1. phase'[r] = "none" /\ status'[r] = "completed"
              /\ state'[r] = "succeeded" /\ error' = error
        BY <1>1, <2>2 DEF AppendClip, Unschedule, Close, BatchTypeOK
      <3>2. At(r) = NumLines /\ error[r] = None
        BY <1>1, <1>2, <1>5, <2>2, BatchAssumption DEF RunInv, Lines, AppendClip, AtAwait
      <3>q. QED
        BY <1>5, <1>7, <3>1, <3>2, BatchAssumption DEF RunInv
    <2>q. QED
      BY <2>1, <2>2
  <1>9. Elsewhere /\ OthersStay(r)
    BY <1>1 DEF AppendClip, Schedule, Unschedule, Close, BatchTypeOK, OthersStay
  <1>q. QED
    BY <1>5, <1>6, <1>8, <1>9, RunStep DEF OthersStay

---------------------------------------------------------------------------
(* The invariant.                                                          *)

LEMMA InitEstablishes == Init => BatchInv
PROOF
  <1> SUFFICES ASSUME Init PROVE BatchInv
    OBVIOUS
  <1>1. /\ status \in [Runs -> Statuses] /\ state \in [Runs -> States]
        /\ error \in [Runs -> Failures \cup {None}]
        /\ phase \in [Runs -> Phases] /\ attempt \in [Runs -> 0 .. MaxAttempts]
        /\ outcome \in [Runs -> Jobs \cup Failures \cup {None}]
    BY BatchAssumption DEF Init, Statuses, States, Phases
  <1>2. clips \in [Runs -> Seq(Jobs)] /\ \A r \in Runs : Len(clips[r]) = 0
    BY DEF Init
  <1>3. /\ apc \in [Workers -> ActivityPcs] /\ slot \in [Workers -> Jobs \cup {None}]
        /\ ending \in [Workers -> Failures \cup {Uploaded, None}]
        /\ abandoned \in [Workers -> Nat]
    BY DEF Init, ActivityPcs
  <1>4. store \in [Keys -> Objects \cup {None}]
    BY DEF Init, Objects
  <1>5. late \in SUBSET Jobs /\ crashes \in 0 .. MaxCrashes
    BY BatchAssumption DEF Init
  <1>6. BatchTypeOK
    BY <1>1, <1>2, <1>3, <1>4, <1>5 DEF BatchTypeOK
  <1>7. ASSUME NEW r \in Runs PROVE RunInv(r)
    BY <1>2, BatchAssumption DEF Init, RunInv
  <1>8. ASSUME NEW w \in Workers PROVE WorkerInv(w)
    BY DEF Init, WorkerInv
  <1>9. ASSUME NEW k \in Keys PROVE ObjectInv(k)
    BY BatchAssumption DEF Init, ObjectInv
  <1>q. QED
    BY <1>6, <1>7, <1>8, <1>9 DEF BatchInv, Init

LEMMA StutterKeeps ==
  ASSUME BatchInv, UNCHANGED vars
  PROVE  BatchInv'
PROOF
  <1>1. BatchTypeOK'
    BY DEF BatchInv, BatchTypeOK, vars
  <1>2. ASSUME NEW r \in Runs PROVE RunInv(r)'
    BY DEF BatchInv, vars, RunInv, At, Mine, OwnerOf, Truthful
  <1>3. ASSUME NEW w \in Workers PROVE WorkerInv(w)'
    BY DEF BatchInv, vars, WorkerInv, At, Mine, OwnerOf, Truthful
  <1>4. ASSUME NEW k \in Keys PROVE ObjectInv(k)'
    BY DEF BatchInv, vars, ObjectInv, At, KeyOf
  <1>5. ASSUME NEW j \in late' PROVE j.line <= At(j.run)'
    BY DEF BatchInv, vars, At
  <1>q. QED
    BY <1>1, <1>2, <1>3, <1>4, <1>5 DEF BatchInv

LEMMA NextKeepsBatchInv == BatchInv /\ [Next]_vars => BatchInv'
PROOF
  <1> SUFFICES ASSUME BatchInv, [Next]_vars PROVE BatchInv'
    OBVIOUS
  <1>1. ASSUME NEW w \in Workers, AttemptStep(w) PROVE BatchInv'
    BY <1>1, FailKeeps, AnswerKeeps, MoveKeeps, ProcessKeeps, PutCreatesKeeps, ReportKeeps
       DEF AttemptStep, Check, Speak, Put, Who, Report
  <1>2. ASSUME NEW w \in Workers, AbandonedEnds(w) \/ StartWorker(w) \/ Crash(w)
        PROVE  BatchInv'
    BY <1>2, ProcessKeeps
  <1>3. ASSUME NEW r \in Runs, WorkflowStep(r) PROVE BatchInv'
    BY <1>3, CloseKeeps, OpenKeeps, AppendClipKeeps DEF WorkflowStep
  <1>4. ASSUME NEW r \in Runs, TimeOut(r) \/ Submit(r) \/ CancelRun(r) \/ Terminate(r)
        PROVE  BatchInv'
    BY <1>4, TimeOutKeeps, OpenKeeps, CloseKeeps
  <1>5. ASSUME NEW j \in late, LateCreates(j) \/ LateDropped(j) PROVE BatchInv'
    BY <1>5, LateKeeps
  <1>6. CASE Next
    BY <1>1, <1>2, <1>3, <1>4, <1>5, <1>6, TakeKeeps DEF Next
  <1>7. CASE UNCHANGED vars
    BY <1>7, StutterKeeps
  <1>q. QED
    BY <1>6, <1>7

\* The inductive invariant holds in every run of the batch: no object is found
\* above the line of the run it belongs to, and no attempt, current or not, ends
\* with anything but the truth about its key.
THEOREM Invariance == Spec => []BatchInv
PROOF
  <1>q. QED
    BY InitEstablishes, NextKeepsBatchInv, PTL DEF Spec

---------------------------------------------------------------------------
(* What follows from it.                                                   *)

\* what is found under the key of a line, if it is the run's, is of that line
LEMMA OwnObject ==
  ASSUME BatchInv, NEW r \in Runs, NEW i \in Lines, Mine(r, i)
  PROVE  /\ Key[r][i] \in Keys
         /\ store[Key[r][i]] # None
         /\ store[Key[r][i]].owner = r
         /\ store[Key[r][i]].audio \in Jobs
         /\ store[Key[r][i]].audio.run = r
         /\ store[Key[r][i]].audio.line = i
PROOF
  <1>1. Key[r][i] \in Keys /\ store[Key[r][i]] # None /\ store[Key[r][i]].owner = r
    BY KeyAssumption, BatchAssumption DEF Mine, OwnerOf
  <1>2. PICK j \in Jobs : j = store[Key[r][i]].audio /\ j.run = r
                            /\ Key[j.run][j.line] = Key[r][i]
    BY <1>1 DEF BatchInv, ObjectInv, KeyOf
  <1>3. j.line = i
    BY <1>2, JobFields, KeyAssumption
  <1>q. QED
    BY <1>1, <1>2, <1>3

\* and every clip of a run has such an object
LEMMA ClipsAreMine ==
  ASSUME BatchInv, NEW r \in Runs, NEW i \in DOMAIN clips[r]
  PROVE  i \in Lines /\ Mine(r, i)
PROOF
  <1>1. RunInv(r)
    BY DEF BatchInv
  <1>q. QED
    BY <1>1, AtType, BatchAssumption DEF BatchInv, RunInv, Lines

LEMMA StrayLemma ==
  ASSUME BatchInv
  PROVE  StrayIsNextLine
PROOF
  <1> SUFFICES ASSUME NEW r \in Runs, NEW i \in Lines, Mine(r, i) PROVE i <= At(r)
    BY DEF StrayIsNextLine
  <1>1. Key[r][i] \in Keys /\ store[Key[r][i]] # None /\ store[Key[r][i]].owner = r
    BY KeyAssumption, BatchAssumption DEF Mine, OwnerOf
  <1>2. PICK j \in Jobs : j.run = r /\ Key[j.run][j.line] = Key[r][i]
                            /\ j.line <= At(r)
    BY <1>1 DEF BatchInv, ObjectInv, KeyOf
  <1>3. j.line = i
    BY <1>2, JobFields, KeyAssumption
  <1>q. QED
    BY <1>2, <1>3

LEMMA CollisionLemma ==
  ASSUME BatchInv
  PROVE  CollisionNamesHolder
PROOF
  BY DEF BatchInv, RunInv, Truthful, CollisionNamesHolder

\* The types of Batch, for any number of runs, lines, attempts and workers.
THEOREM BatchTypeCorrect == Spec => []BatchTypeOK
PROOF
  <1>1. BatchInv => BatchTypeOK
    BY DEF BatchInv
  <1>q. QED
    BY <1>1, Invariance, PTL

\* A run has at most one object that it does not advertise, that of the line it
\* is at, or stopped at (docs/temporal.md:202).
THEOREM AtMostOneStray == Spec => []StrayIsNextLine
PROOF
  <1>1. BatchInv => StrayIsNextLine
    BY StrayLemma
  <1>q. QED
    BY <1>1, Invariance, PTL

\* A KeyCollision that names somebody names the one who has the key, and never
\* the run itself (storage.py:135-142).
THEOREM CollisionsAreReal == Spec => []CollisionNamesHolder
PROOF
  <1>1. BatchInv => CollisionNamesHolder
    BY CollisionLemma
  <1>q. QED
    BY <1>1, Invariance, PTL

---------------------------------------------------------------------------
(* The refinement of ClipStore.                                            *)

LEMMA InitRefines == Init => Claims!Init
PROOF
  <1> SUFFICES ASSUME Init PROVE Claims!Init
    OBVIOUS
  <1>1. store \in [Keys -> Objects \cup {None}]
    BY DEF Init, Objects
  <1>2. advertised = {}
    BY DEF Init, advertised, Lines
  <1>q. QED
    BY <1>1, <1>2 DEF Claims!Init

LEMMA AdvertisedStays ==
  ASSUME clips' = clips
  PROVE  advertised' = advertised
PROOF
  BY DEF advertised

\* an upload is a Claim
LEMMA UploadClaims ==
  ASSUME BatchInv, NEW j \in Jobs, store[KeyOf(j)] = None, clips' = clips,
         store' = [store EXCEPT ![KeyOf(j)] = [owner |-> j.run, audio |-> j]]
  PROVE  Claims!Next
PROOF
  <1>1. KeyOf(j) \in Keys /\ [owner |-> j.run, audio |-> j] \in Objects
    BY JobFields DEF Objects
  <1>2. Claims!Claim(KeyOf(j), [owner |-> j.run, audio |-> j])
    BY AdvertisedStays DEF Claims!Claim
  <1>q. QED
    BY <1>1, <1>2 DEF Claims!Next, Claims!Claim

\* a clip more in the result is an Advertise
LEMMA AppendAdvertises ==
  ASSUME BatchInv, NEW r \in Runs, AppendClip(r)
  PROVE  Claims!Next
PROOF
  <1>1. RunInv(r) /\ BatchTypeOK
    BY DEF BatchInv
  <1>2. Mine(r, At(r)) /\ At(r) \in Lines /\ At(r) = Len(clips[r]) + 1
          /\ Len(clips[r]) \in Nat
    BY <1>1, AtType DEF AppendClip, RunInv
  <1>3. PICK k \in Keys : k = Key[r][At(r)]
    BY <1>2, KeyAssumption
  <1>4. store' = store /\ Claims!Owns(r, k)
    BY <1>2, <1>3, BatchAssumption
       DEF AppendClip, Elsewhere, Mine, OwnerOf, Claims!Owns
  <1>5. Len(clips'[r]) = At(r) /\ \A q \in Runs \ {r} : clips'[q] = clips[q]
    BY <1>1, <1>2 DEF AppendClip, RunInv, BatchTypeOK
  <1>6. \A q \in Runs, i \in Lines :
          i <= Len(clips'[q]) <=> (i <= Len(clips[q]) \/ (q = r /\ i = At(r)))
    BY <1>2, <1>5 DEF Lines
  <1>7. advertised' = advertised \cup {<<r, k>>}
    <2> DEFINE said == {q \in Runs \X Lines : q[2] <= Len(clips[q[1]])}
               new == <<r, At(r)>>
               pair(p) == <<p[1], Key[p[1]][p[2]]>>
    <2>1. advertised = {pair(p) : p \in said}
      BY DEF advertised
    <2>2. advertised' = {pair(p) : p \in said \cup {new}}
      <3>1. {q \in Runs \X Lines : q[2] <= Len(clips'[q[1]])} = said \cup {new}
        BY <1>2, <1>6
      <3>2. advertised' = {pair(p) :
                p \in {q \in Runs \X Lines : q[2] <= Len(clips'[q[1]])}}
        BY DEF advertised
      <3>q. QED
        BY <3>1, <3>2
    <2>3. pair(new) = <<r, k>>
      BY <1>3
    <2> HIDE DEF said, new, pair
    <2>q. QED
      BY <2>1, <2>2, <2>3
  <1>q. QED
    BY <1>3, <1>4, <1>7 DEF Claims!Next, Claims!Advertise, Claims!Owns

LEMMA NextRefines ==
  ASSUME BatchInv, [Next]_vars
  PROVE  [Claims!Next]_Claims!vars
PROOF
  <1>1. CASE clips' = clips /\ store' = store
    BY <1>1, AdvertisedStays DEF Claims!vars
  <1>2. ASSUME NEW w \in Workers, PutCreates(w) PROVE Claims!Next
    <2>1. PICK j \in Jobs : slot[w] = j
      BY <1>2, SlotJob DEF PutCreates
    <2>q. QED
      BY <1>2, <2>1, UploadClaims DEF PutCreates, runVars
  <1>3. ASSUME NEW j \in late, LateCreates(j) PROVE Claims!Next
    BY <1>3, UploadClaims DEF LateCreates, runVars, BatchInv, BatchTypeOK
  <1>4. ASSUME NEW w \in Workers, AttemptStep(w), ~PutCreates(w)
        PROVE  clips' = clips /\ store' = store
    BY <1>4 DEF AttemptStep, Check, Speak, Put, Who, Report, HeadClear, HeadForeign,
      HeadFails, CallAnswered, CallFailed, Abandon, Discard, StartUpload, PutLost,
      PutRefused, WhoOurs, WhoElse, WhoFails, ReportClip, ReportFailure,
      ReportStale, runVars
  <1>5. ASSUME NEW w \in Workers,
               (\E r \in Runs : Take(w, r)) \/ AbandonedEnds(w) \/ StartWorker(w)
                 \/ Crash(w)
        PROVE  clips' = clips /\ store' = store
    BY <1>5 DEF Take, AbandonedEnds, StartWorker, Crash, runVars
  <1>6. ASSUME NEW r \in Runs,
               RejectRequest(r) \/ FirstLine(r) \/ ActivityFailed(r) \/ TimeOut(r)
                 \/ Submit(r) \/ CancelRun(r) \/ Terminate(r)
        PROVE  clips' = clips /\ store' = store
    BY <1>6 DEF RejectRequest, FirstLine, ActivityFailed, TimeOut, Submit, CancelRun,
      Terminate, Elsewhere, runVars
  <1>7. ASSUME NEW j \in late, LateDropped(j) PROVE clips' = clips /\ store' = store
    BY <1>7 DEF LateDropped, runVars
  <1>8. CASE UNCHANGED vars
    BY <1>1, <1>8 DEF vars
  <1>9. CASE Next
    BY <1>1, <1>2, <1>3, <1>4, <1>5, <1>6, <1>7, <1>9, AppendAdvertises
       DEF Next, WorkflowStep
  <1>q. QED
    BY <1>8, <1>9

\* The batch implements the claim-once store: no object is ever replaced, and
\* only a run's own objects are advertised.
THEOREM BatchImplementsClipStore == Spec => ImplementsClipStore
PROOF
  <1>q. QED
    BY InitRefines, NextRefines, Invariance, PTL DEF Spec, ImplementsClipStore, Claims!Spec

=============================================================================
