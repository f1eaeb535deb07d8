---------------------------- MODULE VoicesProofs ----------------------------
(***************************************************************************)
(* Proofs about Voices, for any number of names, uploads, readers and       *)
(* crashes: its inductive invariant, the safety properties that follow from *)
(* it, and that it implements VoiceBook.                                    *)
(*                                                                         *)
(* The argument: from its temporary file to its answer an upload holds the  *)
(* loop (LoopInv), so the flag it has taken is still true when os.replace   *)
(* comes (PlaceInv), and of two uploads of one name the later one finds the *)
(* clip of the earlier (FlagInv).  A reader resolves only while no upload   *)
(* holds the loop, so it never gets the file of one that is alive           *)
(* (ReaderInv), and nobody but a clone writes or unlinks its file           *)
(* (CloneInv).                                                              *)
(***************************************************************************)
EXTENDS Voices, TLAPS

---------------------------------------------------------------------------
(* The inductive invariant.                                                *)

\* A name that is refused leaves everything but the request alone.
LEMMA IllegalNameKeepsVInv ==
  ASSUME VInv, NEW u \in Uploads, IllegalName(u)
  PROVE  VInv'
PROOF
  <1> USE VoicesAssumption, NoFileAssumption
      DEF VInv, IllegalName, Move, Exists, File, Blocking, InVoicesDir,
          Paths, readerVars
  <1>1. VoicesTypeOK'
    BY DEF VoicesTypeOK, UploadPcs, ReaderPcs, Files
  <1>2. LoopInv'
    BY DEF VoicesTypeOK, LoopInv
  <1>3. PlaceInv'
    BY DEF VoicesTypeOK, LoopInv, PlaceInv, Successful
  <1>4. FlagInv'
    BY DEF VoicesTypeOK, LoopInv, PlaceInv, FlagInv, OnlyValidated, Successful
  <1>5. OnlyValidated'
    BY DEF VoicesTypeOK, LoopInv, PlaceInv, OnlyValidated
  <1>6. ReaderInv' /\ CloneInv'
    BY DEF VoicesTypeOK, LoopInv, ReaderInv, CloneInv, Successful, Files
  <1>7. HeardWhole'
    BY DEF VoicesTypeOK, LoopInv, PlaceInv, OnlyValidated, ReaderInv,
        HeardWhole
  <1>q. QED
    BY <1>1, <1>2, <1>3, <1>4, <1>5, <1>6, <1>7

\* An upload that arrives only notes its name and its flag.
LEMMA ArriveKeepsVInv ==
  ASSUME VInv, NEW u \in Uploads, Arrive(u)
  PROVE  VInv'
PROOF
  <1> USE VoicesAssumption, NoFileAssumption
      DEF VInv, Arrive, Move, Exists, File, Blocking, InVoicesDir, Paths,
          readerVars
  <1>1. VoicesTypeOK'
    BY DEF VoicesTypeOK, UploadPcs, ReaderPcs, Files
  <1>2. LoopInv'
    BY DEF VoicesTypeOK, LoopInv
  <1>3. PlaceInv'
    BY DEF VoicesTypeOK, LoopInv, PlaceInv, Successful
  <1>4. FlagInv'
    BY DEF VoicesTypeOK, LoopInv, PlaceInv, FlagInv, OnlyValidated, Successful
  <1>5. OnlyValidated'
    BY DEF VoicesTypeOK, LoopInv, PlaceInv, OnlyValidated
  <1>6. ReaderInv' /\ CloneInv'
    BY DEF VoicesTypeOK, LoopInv, ReaderInv, CloneInv, Successful, Files
  <1>7. HeardWhole'
    <2> SUFFICES ASSUME NEW r \in Readers
                 PROVE  HeardWhole!(r)'
      BY DEF HeardWhole
    <2>1. heard[r] # None /\ heard[r].by \in Uploads => heard[r].by # u
      BY DEF ReaderInv, Successful, VoicesTypeOK
    <2>q. QED
      BY <2>1 DEF VoicesTypeOK, HeardWhole
  <1>q. QED
    BY <1>1, <1>2, <1>3, <1>4, <1>5, <1>6, <1>7

\* The temporary file of an upload is new, and nobody holds the loop.
LEMMA BodyKeepsVInv ==
  ASSUME VInv, NEW u \in Uploads, Body(u)
  PROVE  VInv'
PROOF
  <1> USE VoicesAssumption, NoFileAssumption
      DEF VInv, Body, Move, Exists, File, Blocking, InVoicesDir, Paths,
          readerVars
  <1>1. VoicesTypeOK'
    BY DEF VoicesTypeOK, UploadPcs, ReaderPcs, Files
  <1>2. LoopInv'
    <2> USE DEF VoicesTypeOK, LoopInv
    <2> SUFFICES ASSUME NEW w \in Uploads
                 PROVE  LoopInv!(w)'
      BY DEF LoopInv
    <2>1. CASE w = u
      BY <2>1 DEF Files
    <2>2. CASE w # u
      BY <2>2
    <2>q. QED
      BY <2>1, <2>2
  <1>3. PlaceInv'
    BY DEF VoicesTypeOK, LoopInv, PlaceInv, Successful
  <1>4. FlagInv'
    BY DEF VoicesTypeOK, LoopInv, PlaceInv, FlagInv, OnlyValidated, Successful
  <1>5. OnlyValidated'
    BY DEF VoicesTypeOK, LoopInv, PlaceInv, OnlyValidated
  <1>6. ReaderInv' /\ CloneInv'
    BY DEF VoicesTypeOK, LoopInv, ReaderInv, CloneInv, Successful, Files
  <1>7. HeardWhole'
    BY DEF VoicesTypeOK, LoopInv, PlaceInv, OnlyValidated, ReaderInv,
        HeardWhole
  <1>q. QED
    BY <1>1, <1>2, <1>3, <1>4, <1>5, <1>6, <1>7

\* ffmpeg writes the temporary file of the upload that holds the loop.
LEMMA ConvertKeepsVInv ==
  ASSUME VInv, NEW u \in Uploads, Convert(u)
  PROVE  VInv'
PROOF
  <1> USE VoicesAssumption, NoFileAssumption
      DEF VInv, Convert, Move, Exists, File, Blocking, InVoicesDir, Paths,
          readerVars
  <1>1. VoicesTypeOK'
    BY DEF VoicesTypeOK, UploadPcs, ReaderPcs, Files
  <1>2. LoopInv'
    <2> USE DEF VoicesTypeOK, LoopInv
    <2> SUFFICES ASSUME NEW w \in Uploads
                 PROVE  LoopInv!(w)'
      BY DEF LoopInv
    <2>1. CASE w = u
      BY <2>1 DEF Files
    <2>2. CASE w # u
      BY <2>2
    <2>q. QED
      BY <2>1, <2>2
  <1>3. PlaceInv'
    BY DEF VoicesTypeOK, LoopInv, PlaceInv, Successful
  <1>4. FlagInv'
    BY DEF VoicesTypeOK, LoopInv, PlaceInv, FlagInv, OnlyValidated, Successful
  <1>5. OnlyValidated'
    BY DEF VoicesTypeOK, LoopInv, PlaceInv, OnlyValidated
  <1>6. ReaderInv' /\ CloneInv'
    BY DEF VoicesTypeOK, LoopInv, ReaderInv, CloneInv, Successful, Files
  <1>7. HeardWhole'
    BY DEF VoicesTypeOK, LoopInv, PlaceInv, OnlyValidated, ReaderInv,
        HeardWhole
  <1>q. QED
    BY <1>1, <1>2, <1>3, <1>4, <1>5, <1>6, <1>7

\* The flag is taken from what is in place, by the upload that holds the loop.
LEMMA CheckKeepsVInv ==
  ASSUME VInv, NEW u \in Uploads, Check(u)
  PROVE  VInv'
PROOF
  <1> USE VoicesAssumption, NoFileAssumption
      DEF VInv, Check, Move, Exists, File, Blocking, InVoicesDir, Paths,
          readerVars
  <1>1. VoicesTypeOK'
    BY DEF VoicesTypeOK, UploadPcs, ReaderPcs, Files
  <1>2. LoopInv'
    BY DEF VoicesTypeOK, LoopInv
  <1>3. PlaceInv'
    BY DEF VoicesTypeOK, LoopInv, PlaceInv, Successful
  <1>4. FlagInv'
    BY DEF VoicesTypeOK, LoopInv, PlaceInv, FlagInv, OnlyValidated, Successful
  <1>5. OnlyValidated'
    BY DEF VoicesTypeOK, LoopInv, PlaceInv, OnlyValidated
  <1>6. ReaderInv' /\ CloneInv'
    BY DEF VoicesTypeOK, LoopInv, ReaderInv, CloneInv, Successful, Files
  <1>7. HeardWhole'
    BY DEF VoicesTypeOK, LoopInv, PlaceInv, OnlyValidated, ReaderInv,
        HeardWhole
  <1>q. QED
    BY <1>1, <1>2, <1>3, <1>4, <1>5, <1>6, <1>7

\* os.replace moves a valid clip into place, and the flag says what was there.
LEMMA ReplaceKeepsVInv ==
  ASSUME VInv, NEW u \in Uploads, Replace(u)
  PROVE  VInv'
PROOF
  <1> USE VoicesAssumption, NoFileAssumption
      DEF VInv, Replace, Move, Exists, File, Blocking, InVoicesDir, Paths,
          readerVars
  <1>1. VoicesTypeOK'
    BY DEF VoicesTypeOK, UploadPcs, ReaderPcs, Files
  <1>2. LoopInv'
    BY DEF VoicesTypeOK, LoopInv
  <1>3. PlaceInv'
    BY DEF VoicesTypeOK, LoopInv, PlaceInv, Successful
  <1>4. FlagInv'
    BY DEF VoicesTypeOK, LoopInv, PlaceInv, FlagInv, OnlyValidated, Successful
  <1>5. OnlyValidated'
    BY DEF VoicesTypeOK, LoopInv, PlaceInv, OnlyValidated
  <1>6. ReaderInv' /\ CloneInv'
    BY DEF VoicesTypeOK, LoopInv, ReaderInv, CloneInv, Successful, Files
  <1>7. HeardWhole'
    BY DEF VoicesTypeOK, LoopInv, PlaceInv, OnlyValidated, ReaderInv,
        HeardWhole
  <1>q. QED
    BY <1>1, <1>2, <1>3, <1>4, <1>5, <1>6, <1>7

\* The temporary file goes, the loop is free, and the clips stay.
LEMMA FinishKeepsVInv ==
  ASSUME VInv, NEW u \in Uploads, Finish(u)
  PROVE  VInv'
PROOF
  <1> USE VoicesAssumption, NoFileAssumption
      DEF VInv, Finish, Move, Exists, File, Blocking, InVoicesDir, Paths,
          readerVars
  <1>1. VoicesTypeOK'
    BY DEF VoicesTypeOK, UploadPcs, ReaderPcs, Files
  <1>2. LoopInv'
    BY DEF VoicesTypeOK, LoopInv
  <1>3. PlaceInv'
    BY DEF VoicesTypeOK, LoopInv, PlaceInv, Successful
  <1>4. FlagInv'
    BY DEF VoicesTypeOK, LoopInv, PlaceInv, FlagInv, OnlyValidated, Successful
  <1>5. OnlyValidated'
    BY DEF VoicesTypeOK, LoopInv, PlaceInv, OnlyValidated
  <1>6. ReaderInv' /\ CloneInv'
    BY DEF VoicesTypeOK, LoopInv, ReaderInv, CloneInv, Successful, Files
  <1>7. HeardWhole'
    BY DEF VoicesTypeOK, LoopInv, PlaceInv, OnlyValidated, ReaderInv,
        HeardWhole
  <1>q. QED
    BY <1>1, <1>2, <1>3, <1>4, <1>5, <1>6, <1>7

\* A request resolves a voice only while no temporary file is alive.
LEMMA SpeakKeepsVInv ==
  ASSUME VInv, NEW r \in Readers, Speak(r)
  PROVE  VInv'
PROOF
  <1> USE VoicesAssumption, NoFileAssumption
      DEF VInv, Speak, Step, Exists, File, Blocking, InVoicesDir, Paths,
          uploadVars, Listed, ResolveVoice
  <1>1. VoicesTypeOK'
    BY DEF VoicesTypeOK, UploadPcs, ReaderPcs, Files
  <1>2. LoopInv' /\ PlaceInv' /\ FlagInv' /\ OnlyValidated'
    BY DEF VoicesTypeOK, LoopInv, PlaceInv, FlagInv, OnlyValidated, Successful
  <1>3. ReaderInv' /\ CloneInv'
    BY DEF VoicesTypeOK, LoopInv, ReaderInv, CloneInv, Successful, Files
  <1>4. HeardWhole'
    BY DEF VoicesTypeOK, LoopInv, PlaceInv, OnlyValidated, ReaderInv,
        HeardWhole
  <1>q. QED
    BY <1>1, <1>2, <1>3, <1>4

\* A clone's file is its own.
LEMMA CloneArriveKeepsVInv ==
  ASSUME VInv, NEW r \in Readers, CloneArrive(r)
  PROVE  VInv'
PROOF
  <1> USE VoicesAssumption, NoFileAssumption
      DEF VInv, CloneArrive, Step, Exists, File, Blocking, InVoicesDir,
          Paths, uploadVars
  <1>1. VoicesTypeOK'
    BY DEF VoicesTypeOK, UploadPcs, ReaderPcs, Files
  <1>2. LoopInv' /\ PlaceInv' /\ FlagInv' /\ OnlyValidated'
    BY DEF VoicesTypeOK, LoopInv, PlaceInv, FlagInv, OnlyValidated, Successful
  <1>3. ReaderInv' /\ CloneInv'
    BY DEF VoicesTypeOK, LoopInv, ReaderInv, CloneInv, Successful, Files
  <1>4. HeardWhole'
    BY DEF VoicesTypeOK, LoopInv, PlaceInv, OnlyValidated, ReaderInv,
        HeardWhole
  <1>q. QED
    BY <1>1, <1>2, <1>3, <1>4

\* A clone's file is its own, and is written or unlinked.
LEMMA CloneBodyKeepsVInv ==
  ASSUME VInv, NEW r \in Readers, CloneBody(r)
  PROVE  VInv'
PROOF
  <1> USE VoicesAssumption, NoFileAssumption
      DEF VInv, CloneBody, Step, Exists, File, Blocking, InVoicesDir, Paths,
          uploadVars
  <1>1. VoicesTypeOK'
    BY DEF VoicesTypeOK, UploadPcs, ReaderPcs, Files
  <1>2. LoopInv' /\ PlaceInv' /\ FlagInv' /\ OnlyValidated'
    BY DEF VoicesTypeOK, LoopInv, PlaceInv, FlagInv, OnlyValidated, Successful
  <1>3. ReaderInv' /\ CloneInv'
    <2> USE DEF VoicesTypeOK, LoopInv, ReaderInv, CloneInv, Successful, Files
    <2> SUFFICES ASSUME NEW s \in Readers
                 PROVE  ReaderInv!(s)' /\ CloneInv!(s)'
      BY DEF ReaderInv, CloneInv
    <2>0. File(r, "whole") # None
      BY DEF Files
    <2>1. CASE s = r
      BY <2>0, <2>1
    <2>2. CASE s # r
      BY <2>2
    <2>q. QED
      BY <2>1, <2>2
  <1>4. HeardWhole'
    BY DEF VoicesTypeOK, LoopInv, PlaceInv, OnlyValidated, ReaderInv,
        HeardWhole
  <1>q. QED
    BY <1>1, <1>2, <1>3, <1>4

\* What a thread opens is whole, or what a crash has left.
LEMMA HearKeepsVInv ==
  ASSUME VInv, NEW r \in Readers, Hear(r)
  PROVE  VInv'
PROOF
  <1> USE VoicesAssumption, NoFileAssumption
      DEF VInv, Hear, Step, Exists, File, Blocking, InVoicesDir, Paths,
          uploadVars
  <1>1. VoicesTypeOK'
    BY DEF VoicesTypeOK, UploadPcs, ReaderPcs, Files
  <1>2. LoopInv' /\ PlaceInv' /\ FlagInv' /\ OnlyValidated'
    BY DEF VoicesTypeOK, LoopInv, PlaceInv, FlagInv, OnlyValidated, Successful
  <1>3. ReaderInv' /\ CloneInv'
    <2> SUFFICES ASSUME NEW s \in Readers
                 PROVE  ReaderInv!(s)' /\ CloneInv!(s)'
      BY DEF ReaderInv, CloneInv
    <2> USE DEF VoicesTypeOK, LoopInv, ReaderInv, CloneInv, Successful, Files
    <2>1. CASE s = r
      <3>1. CASE voice[r] = None
        BY <2>1, <3>1
      <3>2. CASE voice[r] # None
        <4>1. heard'[r] = store[voice[r]] /\ heard'[r] \in Files
          BY <3>2
        <4>2. voice[r] \in Names \cup Uploads \cup Readers
          BY <3>2
        <4>3. heard'[r].by \in Uploads =>
                upc[heard'[r].by] \in Successful \cup {"lost"}
          <5>1. CASE voice[r] \in Names
            BY <3>2, <4>1, <5>1 DEF OnlyValidated
          <5>2. CASE voice[r] \in Uploads
            BY <3>2, <4>1, <5>2
          <5>3. CASE voice[r] \in Readers
            BY <3>2, <4>1, <5>3
          <5>q. QED
            BY <4>2, <5>1, <5>2, <5>3
        <4>4. voice[r] = r => heard'[r] = store[r]
          BY <4>1
        <4>q. QED
          BY <2>1, <3>2, <4>1, <4>3, <4>4
      <3>q. QED
        BY <3>1, <3>2
    <2>2. CASE s # r
      BY <2>2
    <2>q. QED
      BY <2>1, <2>2
  <1>4. HeardWhole'
    BY DEF VoicesTypeOK, LoopInv, PlaceInv, OnlyValidated, ReaderInv,
        HeardWhole
  <1>q. QED
    BY <1>1, <1>2, <1>3, <1>4

\* A request that fails leaves the files alone.
LEMMA EngineFailsKeepsVInv ==
  ASSUME VInv, NEW r \in Readers, EngineFails(r)
  PROVE  VInv'
PROOF
  <1> USE VoicesAssumption, NoFileAssumption
      DEF VInv, EngineFails, Step, Exists, File, Blocking, InVoicesDir,
          Paths, uploadVars
  <1>1. VoicesTypeOK'
    BY DEF VoicesTypeOK, UploadPcs, ReaderPcs, Files
  <1>2. LoopInv' /\ PlaceInv' /\ FlagInv' /\ OnlyValidated'
    BY DEF VoicesTypeOK, LoopInv, PlaceInv, FlagInv, OnlyValidated, Successful
  <1>3. ReaderInv' /\ CloneInv'
    BY DEF VoicesTypeOK, LoopInv, ReaderInv, CloneInv, Successful, Files
  <1>4. HeardWhole'
    BY DEF VoicesTypeOK, LoopInv, PlaceInv, OnlyValidated, ReaderInv,
        HeardWhole
  <1>q. QED
    BY <1>1, <1>2, <1>3, <1>4

\* A clone's file goes with its answer, and no voice does.
LEMMA AnswerKeepsVInv ==
  ASSUME VInv, NEW r \in Readers, Answer(r)
  PROVE  VInv'
PROOF
  <1> USE VoicesAssumption, NoFileAssumption
      DEF VInv, Answer, Step, Exists, File, Blocking, InVoicesDir, Paths,
          uploadVars
  <1>1. VoicesTypeOK'
    BY DEF VoicesTypeOK, UploadPcs, ReaderPcs, Files
  <1>2. LoopInv' /\ PlaceInv' /\ FlagInv' /\ OnlyValidated'
    BY DEF VoicesTypeOK, LoopInv, PlaceInv, FlagInv, OnlyValidated, Successful
  <1>3. ReaderInv' /\ CloneInv'
    BY DEF VoicesTypeOK, LoopInv, ReaderInv, CloneInv, Successful, Files
  <1>4. HeardWhole'
    BY DEF VoicesTypeOK, LoopInv, PlaceInv, OnlyValidated, ReaderInv,
        HeardWhole
  <1>q. QED
    BY <1>1, <1>2, <1>3, <1>4

\* A crash leaves the files, and nobody holds the loop.
LEMMA CrashKeepsVInv ==
  ASSUME VInv, Crash
  PROVE  VInv'
PROOF
  <1> USE VoicesAssumption, NoFileAssumption
      DEF VInv, Crash, Exists, File, Blocking, InVoicesDir, Paths
  <1>1. VoicesTypeOK'
    BY DEF VoicesTypeOK, UploadPcs, ReaderPcs, Files
  <1>2. LoopInv'
    BY DEF VoicesTypeOK, LoopInv
  <1>3. PlaceInv'
    BY DEF VoicesTypeOK, LoopInv, PlaceInv, Successful
  <1>4. FlagInv'
    BY DEF VoicesTypeOK, LoopInv, PlaceInv, FlagInv, OnlyValidated, Successful
  <1>5. OnlyValidated'
    BY DEF VoicesTypeOK, LoopInv, PlaceInv, OnlyValidated
  <1>6. ReaderInv' /\ CloneInv'
    BY DEF VoicesTypeOK, LoopInv, ReaderInv, CloneInv, Successful, Files
  <1>7. HeardWhole'
    BY DEF VoicesTypeOK, LoopInv, PlaceInv, OnlyValidated, ReaderInv,
        HeardWhole
  <1>q. QED
    BY <1>1, <1>2, <1>3, <1>4, <1>5, <1>6, <1>7

\* The server as it starts, with any clips already there, satisfies the
\* invariant.
LEMMA InitVInv == Init => VInv
PROOF
  <1> SUFFICES ASSUME Init PROVE VInv
    OBVIOUS
  <1> USE VoicesAssumption, NoFileAssumption
      DEF Init, Exists, File, InVoicesDir, Paths, Blocking, Successful
  <1>1. VoicesTypeOK
    BY DEF VoicesTypeOK, Files, UploadPcs, ReaderPcs
  <1>2. LoopInv /\ PlaceInv /\ FlagInv /\ OnlyValidated
    BY DEF LoopInv, PlaceInv, FlagInv, OnlyValidated
  <1>3. ReaderInv /\ CloneInv /\ HeardWhole
    BY DEF ReaderInv, CloneInv, HeardWhole
  <1>q. QED
    BY <1>1, <1>2, <1>3 DEF VInv

\* Every step keeps the invariant.
LEMMA NextKeepsVInv == VInv /\ [Next]_vars => VInv'
PROOF
  <1> SUFFICES ASSUME VInv, [Next]_vars PROVE VInv'
    OBVIOUS
  <1>1. ASSUME NEW u \in Uploads,
               IllegalName(u) \/ Arrive(u) \/ UploadStep(u)
        PROVE  VInv'
    BY <1>1, IllegalNameKeepsVInv, ArriveKeepsVInv, BodyKeepsVInv,
       ConvertKeepsVInv, CheckKeepsVInv, ReplaceKeepsVInv, FinishKeepsVInv
       DEF UploadStep
  <1>2. ASSUME NEW r \in Readers,
               Speak(r) \/ CloneArrive(r) \/ ReaderStep(r)
        PROVE  VInv'
    BY <1>2, SpeakKeepsVInv, CloneArriveKeepsVInv, CloneBodyKeepsVInv,
       HearKeepsVInv, EngineFailsKeepsVInv, AnswerKeepsVInv
       DEF ReaderStep
  <1>3. CASE UNCHANGED vars
    BY <1>3 DEF vars, VInv, VoicesTypeOK, LoopInv, PlaceInv, FlagInv,
        OnlyValidated, ReaderInv, CloneInv, HeardWhole, Exists
  <1>q. QED
    BY <1>1, <1>2, <1>3, CrashKeepsVInv DEF Next, AllAnswered

\* The invariant holds in every state the server reaches.
THEOREM Invariance == Spec => []VInv
PROOF
  <1>q. QED
    BY InitVInv, NextKeepsVInv, PTL DEF Spec

---------------------------------------------------------------------------
(* Safety.                                                                 *)

\* Every variable keeps its type.
THEOREM VoicesTypeCorrect == Spec => []VoicesTypeOK
PROOF
  <1>1. VInv => VoicesTypeOK
    BY DEF VInv
  <1>q. QED
    BY <1>1, Invariance, PTL

\* An upload that fails validation never touches a clip: what is in place
\* under a name is the valid clip of an upload that got past os.replace.
THEOREM RejectedNeverTouches == Spec => []OnlyValidated
PROOF
  <1>1. VInv => OnlyValidated
    BY DEF VInv
  <1>q. QED
    BY <1>1, Invariance, PTL

\* Under the name of a voice a synthesis never hears a half-written clip or
\* another voice's; under the name of an upload's temporary file it hears only
\* what a crash has left of it.
THEOREM NeverHalfWritten == Spec => []HeardWhole
PROOF
  <1>1. VInv => HeardWhole
    BY DEF VInv
  <1>q. QED
    BY <1>1, Invariance, PTL

\* The clip a request has resolved is there when the engine's thread opens it,
\* however many uploads came in between.
THEOREM ReferenceStays == Spec => []ResolvedStays
PROOF
  <1>1. VInv => ResolvedStays
    BY DEF VInv, ReaderInv, ResolvedStays
  <1>q. QED
    BY <1>1, Invariance, PTL

\* A clone hears its own clip, and the clip is gone with the answer, speech or
\* error; all that is ever left of one is its beginning, when its write raised.
THEOREM ClonesAreApart == Spec => []CloneHearsOwn
PROOF
  <1>1. VInv => CloneHearsOwn
    BY DEF VInv, CloneInv, CloneHearsOwn
  <1>q. QED
    BY <1>1, Invariance, PTL

\* Of the successful uploads of one name at most one is told that it made the
\* voice.
THEOREM AtMostOneFirst == Spec => []OneIsFirst
PROOF
  <1>1. VInv => OneIsFirst
    BY DEF VInv, FlagInv, OneIsFirst, Successful
  <1>q. QED
    BY <1>1, Invariance, PTL

\* An acknowledged clip, a replacement or not, is in place or was replaced by an
\* upload that says so, if that lived to answer.
THEOREM ReplacedFlagIsTrue == Spec => []ClobberIsTold
PROOF
  <1>1. VInv => ClobberIsTold
    BY DEF VInv, PlaceInv, FlagInv, ClobberIsTold, Successful
  <1>q. QED
    BY <1>1, Invariance, PTL

\* A voice is usable from its acknowledgement on, and the list shows nothing
\* but voices until a crash.
THEOREM UsableAtOnce == Spec => []ImmediatelyUsable
PROOF
  <1>1. VInv => ImmediatelyUsable
    BY VoicesAssumption
       DEF VInv, VoicesTypeOK, LoopInv, PlaceInv, ImmediatelyUsable,
           Successful, ResolveVoice, Exists, Listed, InVoicesDir, Paths
  <1>q. QED
    BY <1>1, Invariance, PTL

\* u was sent after v had been acknowledged: it has not begun, has failed, or may
\* take the place of the clip if that is the one it is for
SentAfter(u, v) ==
  /\ upc[v] = "stored"
  /\ \/ upc[u] \in {"open", "refused", "lost"}
     \/ name[u] = name[v] => overwrite[u]

LEMMA SentAfterStays ==
  ASSUME VInv, NEW u \in Uploads, NEW v \in Uploads, SentAfter(u, v), [Next]_vars
  PROVE  SentAfter(u, v)'
PROOF
  <1> USE DEF VInv, VoicesTypeOK, Move
  <1>1. CASE Arrive(u)
    <2>1. Exists(name[v]) /\ u # v
      BY <1>1 DEF SentAfter, PlaceInv, Successful, Arrive
    <2>q. QED
      BY <1>1, <2>1 DEF Arrive, SentAfter
  <1>2. ASSUME NEW w \in Uploads, Arrive(w), w # u PROVE SentAfter(u, v)'
    BY <1>2 DEF Arrive, SentAfter
  <1>3. ASSUME NEW w \in Uploads, IllegalName(w) \/ UploadStep(w)
        PROVE  SentAfter(u, v)'
    BY <1>3 DEF IllegalName, UploadStep, Body, Convert, Check, Replace, Finish,
        SentAfter
  <1>4. ASSUME NEW r \in Readers, Speak(r) \/ CloneArrive(r) \/ ReaderStep(r)
        PROVE  SentAfter(u, v)'
    BY <1>4 DEF Speak, CloneArrive, ReaderStep, CloneBody, Hear, EngineFails, Answer,
        uploadVars, SentAfter
  <1>5. CASE Crash
    BY <1>5 DEF Crash, Blocking, SentAfter
  <1>6. CASE UNCHANGED vars
    BY <1>6 DEF vars, SentAfter
  <1>q. QED
    BY <1>1, <1>2, <1>3, <1>4, <1>5, <1>6 DEF Next, AllAnswered

LEMMA SafelyLemma ==
  ASSUME NEW u \in Uploads, NEW v \in Uploads
  PROVE  Spec => Safely(u, v)
PROOF
  <1>1. upc[u] = "open" /\ upc[v] = "stored" => SentAfter(u, v)
    BY DEF SentAfter
  <1>2. VInv /\ SentAfter(u, v) /\ [Next]_vars => SentAfter(u, v)'
    BY SentAfterStays
  <1>3. SentAfter(u, v) =>
          (upc[u] \in {"placed", "stored"} /\ name[u] = name[v] => overwrite[u])
    BY DEF SentAfter
  <1>q. QED
    BY <1>1, <1>2, <1>3, Invariance, PTL DEF Spec, Safely

\* An upload with overwrite=false never replaces a clip that was acknowledged
\* before it was sent.
THEOREM AcknowledgedClipsAreSafe == Spec => AcknowledgedIsSafe
PROOF
  <1>q. QED
    BY SafelyLemma DEF AcknowledgedIsSafe

---------------------------------------------------------------------------
(* Refinement.                                                             *)

\* The abstract variables.
BookOf == [n \in Names |-> IF Exists(n) THEN store[n].by ELSE None]
Fates == [u \in Uploads |-> FateOf(u)]

\* A step that leaves the clips under the names, and changes nothing of an
\* upload that its client could know, is no step of the book.
LEMMA QuietStep ==
  ASSUME \A n \in Names : store'[n] = store[n],
         \A u \in Uploads : FateOf(u)' = FateOf(u)
  PROVE  UNCHANGED Book!vars
PROOF
  <1>1. Fates' = Fates
    BY DEF Fates
  <1>2. BookOf' = BookOf
    BY DEF BookOf, Exists
  <1>q. QED
    BY <1>1, <1>2 DEF Book!vars, Fates, BookOf

\* A step that refuses one upload and leaves the clips is the book's Refuse.
LEMMA RefusingStep ==
  ASSUME NEW u \in Uploads,
         \A n \in Names : store'[n] = store[n],
         \A v \in Uploads \ {u} : FateOf(v)' = FateOf(v),
         FateOf(u) = "open", FateOf(u)' = "refused"
  PROVE  Book!Refuse(u)
PROOF
  <1>1. Fates' = [Fates EXCEPT ![u] = "refused"] /\ Fates[u] = "open"
    BY DEF Fates
  <1>2. BookOf' = BookOf
    BY DEF BookOf, Exists
  <1>q. QED
    BY <1>1, <1>2 DEF Book!Refuse, Fates, BookOf

\* A step of one upload leaves the fates of the others.
LEMMA OthersFates ==
  ASSUME NEW u \in Uploads, VoicesTypeOK,
         \A v \in Uploads \ {u} : upc'[v] = upc[v] /\ replaced'[v] = replaced[v]
  PROVE  \A v \in Uploads \ {u} : FateOf(v)' = FateOf(v)
PROOF
  BY DEF FateOf

\* Up to os.replace an upload is open or refused, and after it its fate is
\* what its flag says: each of its steps is a step of the book or none.
LEMMA UploadRefines ==
  ASSUME VInv, NEW u \in Uploads,
         IllegalName(u) \/ Arrive(u) \/ UploadStep(u)
  PROVE  Book!Next \/ UNCHANGED Book!vars
PROOF
  <1> USE VoicesAssumption DEF VInv, VoicesTypeOK, Move, InVoicesDir, Paths
  <1>1. \A v \in Uploads \ {u} : FateOf(v)' = FateOf(v)
    <2>1. \A v \in Uploads \ {u} : upc'[v] = upc[v] /\ replaced'[v] = replaced[v]
      BY DEF IllegalName, Arrive, UploadStep, Body, Convert, Check, Replace,
          Finish
    <2>q. QED
      BY <2>1, OthersFates
  <1>2. CASE IllegalName(u) \/ Arrive(u) \/ Body(u) \/ Convert(u) \/ Check(u)
    <2>1. \A n \in Names : store'[n] = store[n]
      BY <1>2 DEF IllegalName, Arrive, Body, Convert, Check
    <2>2. FateOf(u) = "open" /\ FateOf(u)' \in {"open", "refused"}
      BY <1>2 DEF IllegalName, Arrive, Body, Convert, Check, FateOf
    <2>q. QED
      BY <1>1, <2>1, <2>2, QuietStep, RefusingStep DEF Book!Next
  <1>3. CASE Replace(u)
    <2>1. CASE upc'[u] = "failed"
      <3>1. store' = store /\ FateOf(u)' = FateOf(u)
        BY <1>3, <2>1 DEF Replace, FateOf
      <3>q. QED
        BY <1>1, <3>1, QuietStep
    <2>2. CASE upc'[u] = "placed"
      <3>1. /\ name[u] \in Names
            /\ replaced[u] = Exists(name[u])
            /\ store[u] # None /\ store[u].by = u
        BY <1>3 DEF Replace, PlaceInv, LoopInv, Exists
      <3>2. /\ store' = [store EXCEPT ![name[u]] = store[u], ![u] = None]
            /\ replaced' = replaced
        BY <1>3, <2>2 DEF Replace
      <3>3. /\ FateOf(u) = "open"
            /\ FateOf(u)' = IF Exists(name[u]) THEN "over" ELSE "new"
        BY <1>3, <2>2, <3>1, <3>2 DEF Replace, FateOf
      <3>4. /\ Fates[u] = "open"
            /\ Fates' = [Fates EXCEPT
                 ![u] = IF BookOf[name[u]] = None THEN "new" ELSE "over"]
        <4>1. BookOf[name[u]] = None <=> ~Exists(name[u])
          BY <3>1, VoicesAssumption DEF BookOf, OnlyValidated
        <4>q. QED
          BY <1>1, <3>3, <4>1 DEF Fates
      <3>5. BookOf' = [BookOf EXCEPT ![name[u]] = u]
        <4>1. store'[name[u]] = store[u]
          BY <3>1, <3>2
        <4>2. \A n \in Names \ {name[u]} : store'[n] = store[n]
          BY <3>1, <3>2
        <4>3. \A n \in Names : BookOf'[n] = IF n = name[u] THEN u ELSE BookOf[n]
          BY <3>1, <4>1, <4>2 DEF BookOf, Exists
        <4>q. QED
          BY <3>1, <4>3 DEF BookOf
      <3>6. PICK n \in Names : n = name[u]
        BY <3>1
      <3>7. Book!Put(u, n)
        BY <3>4, <3>5, <3>6 DEF Book!Put, Fates, BookOf
      <3>q. QED
        BY <3>7 DEF Book!Next
    <2>q. QED
      BY <1>3, <2>1, <2>2 DEF Replace
  <1>4. CASE Finish(u)
    <2>1. \A n \in Names : store'[n] = store[n]
      BY <1>4 DEF Finish
    <2>2. CASE upc[u] = "failed"
      <3>1. FateOf(u) = "open" /\ FateOf(u)' = "refused"
        BY <1>4, <2>2 DEF Finish, FateOf
      <3>q. QED
        BY <1>1, <2>1, <3>1, RefusingStep DEF Book!Next
    <2>3. CASE upc[u] = "placed"
      <3>1. /\ FateOf(u) = IF replaced[u] THEN "over" ELSE "new"
            /\ FateOf(u)' = IF replaced[u] THEN "told replaced" ELSE "told new"
        BY <1>4, <2>3 DEF Finish, FateOf
      <3>2. /\ Fates[u] = IF replaced[u] THEN "over" ELSE "new"
            /\ Fates' = [Fates EXCEPT
                 ![u] = IF replaced[u] THEN "told replaced" ELSE "told new"]
        BY <1>1, <3>1 DEF Fates
      <3>3. BookOf' = BookOf
        BY <2>1 DEF BookOf, Exists
      <3>4. Book!TellNew(u) \/ Book!TellReplaced(u)
        BY <3>2, <3>3 DEF Book!TellNew, Book!TellReplaced, Fates, BookOf
      <3>q. QED
        BY <3>4 DEF Book!Next
    <2>q. QED
      BY <1>4, <2>2, <2>3 DEF Finish
  <1>q. QED
    BY <1>2, <1>3, <1>4 DEF UploadStep

\* A reader's step is no step of the book.
LEMMA ReaderRefines ==
  ASSUME VInv, NEW r \in Readers, Speak(r) \/ CloneArrive(r) \/ ReaderStep(r)
  PROVE  UNCHANGED Book!vars
PROOF
  <1>1. \A n \in Names : store'[n] = store[n]
    BY VoicesAssumption
       DEF VInv, VoicesTypeOK, Speak, CloneArrive, ReaderStep, CloneBody,
           Hear, EngineFails, Answer, Paths, InVoicesDir
  <1>2. upc' = upc /\ replaced' = replaced
    BY DEF Speak, CloneArrive, ReaderStep, CloneBody, Hear, EngineFails,
           Answer, uploadVars
  <1>3. \A u \in Uploads : FateOf(u)' = FateOf(u)
    BY <1>2 DEF FateOf
  <1>q. QED
    BY <1>1, <1>3, QuietStep

\* A crash is the book's Lose, of the uploads that were under way.
LEMMA CrashRefines ==
  ASSUME VInv, Crash
  PROVE  Book!Lose
PROOF
  <1> DEFINE gone == {u \in Uploads : upc[u] \in Blocking \cup {"body"}}
  <1>1. \A u \in gone : Fates[u] \in {"open", "new", "over"}
    BY DEF VInv, VoicesTypeOK, Fates, FateOf, Blocking
  <1>2. Fates' = [u \in Uploads |-> IF u \in gone THEN "lost" ELSE Fates[u]]
    BY DEF VInv, VoicesTypeOK, Crash, Fates, FateOf, Blocking
  <1>3. gone \in SUBSET {u \in Uploads : Fates[u] \in {"open", "new", "over"}}
    BY <1>1
  <1>4. BookOf' = BookOf
    BY DEF Crash, BookOf, Exists
  <1> HIDE DEF gone
  <1>q. QED
    BY <1>2, <1>3, <1>4 DEF Book!Lose, Fates, BookOf

\* Uploads and their answers are those of a book in which each is put in one
\* step: every step of the server maps to a step of the book or to none.
THEOREM VoicesImplementBook == Spec => ImplementsVoiceBook
PROOF
  <1>1. Init => Book!Init
    <2> SUFFICES ASSUME Init PROVE Book!Init
      OBVIOUS
    <2>1. BookOf \in [Names -> {Dropped, None}]
      <3>1. \A n \in Names : store[n] \in {None, File(Dropped, "whole")}
        BY DEF Init, Paths, InVoicesDir
      <3>q. QED
        BY <3>1 DEF BookOf, Exists, File
    <2>2. Fates = [u \in Uploads |-> "open"]
      BY DEF Init, Fates, FateOf
    <2>q. QED
      BY <2>1, <2>2 DEF Book!Init, Fates, BookOf
  <1>2. VInv /\ [Next]_vars => [Book!Next]_(Book!vars)
    <2> SUFFICES ASSUME VInv, [Next]_vars
                 PROVE  Book!Next \/ UNCHANGED Book!vars
      OBVIOUS
    <2>1. CASE UNCHANGED vars
      <3>1. \A u \in Uploads : FateOf(u)' = FateOf(u)
        BY <2>1 DEF vars, FateOf
      <3>q. QED
        BY <2>1, <3>1, QuietStep DEF vars
    <2>2. CASE Crash
      BY <2>2, CrashRefines DEF Book!Next
    <2>q. QED
      BY <2>1, <2>2, UploadRefines, ReaderRefines DEF Next, AllAnswered
  <1>q. QED
    BY <1>1, <1>2, Invariance, PTL DEF Spec, ImplementsVoiceBook, Book!Spec

============================================================================
