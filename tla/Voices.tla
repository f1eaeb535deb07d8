------------------------------- MODULE Voices -------------------------------
(***************************************************************************)
(* The voices of the TTS server, app/routes.py: named reference clips in    *)
(* voices_dir, registered by uploads, resolved by speech requests, and the  *)
(* one-shot clips of clone requests.                                        *)
(*                                                                         *)
(* Handlers are coroutines of one event loop.  An upload waits once, for    *)
(* its body; from there to its answer it has the loop to itself, ffmpeg     *)
(* included.  What still runs meanwhile is the engine's threads, which open *)
(* the clip a request has resolved whenever their turn and their model      *)
(* come, and a crash, which leaves the files as they are.                   *)
(*                                                                         *)
(* A path is named by what is found there: a voice, or the temporary file   *)
(* of an upload or of a clone request.  The temporary files of uploads are  *)
(* *.wav files in voices_dir, as the voices are.                            *)
(***************************************************************************)
EXTENDS Integers

CONSTANTS Names,       \* legal voice names
          Uploads,     \* PUT requests (a bound)
          Readers,     \* speech and clone requests (a bound)
          MaxCrashes,  \* bound on the crashes of the server
          Dropped,     \* the writer of a clip that was put there by hand
          None

InVoicesDir == Names \cup Uploads
Paths == InVoicesDir \cup Readers

ASSUME VoicesAssumption ==
  /\ MaxCrashes \in Nat
  /\ Names \cap (Uploads \cup Readers) = {}
  /\ Uploads \cap Readers = {}
  /\ Dropped \notin Uploads \cup Readers
  /\ None \notin Paths \cup {Dropped}

VARIABLES
  store,      \* the file under each path, or None
  upc,        \* where the handler of each upload is
  name,       \* the voice it is for
  overwrite,  \* its query parameter
  replaced,   \* its local of that name
  loop,       \* the upload that blocks the event loop, or None
  rpc,        \* where each reader is
  voice,      \* the path its reference was resolved to; None: built-in voice
  heard,      \* the clip its generation was conditioned on
  crashes     \* counts crashes up to MaxCrashes

uploadVars == <<upc, name, overwrite, replaced>>
readerVars == <<rpc, voice, heard>>
vars == <<store, upc, name, overwrite, replaced, loop, rpc, voice, heard,
          crashes>>

---------------------------------------------------------------------------
(* Data.                                                                   *)

\* a file is half-written, whole, or whole and of an accepted length
Files == [by : Uploads \cup Readers \cup {Dropped},
          grade : {"part", "whole", "valid"}]

ASSUME NoFileAssumption == None \notin Files
File(who, grade) == [by |-> who, grade |-> grade]

UploadPcs == {"open", "body", "convert", "check", "replace", "placed",
              "failed", "stored", "refused", "lost"}
Blocking == {"convert", "check", "replace", "placed", "failed"}
ReaderPcs == {"idle", "body", "waiting", "spoken", "error", "done", "failed",
              "lost"}

Init ==
  /\ \E there \in SUBSET Names :
       store = [p \in Paths |-> IF p \in there THEN File(Dropped, "whole")
                                               ELSE None]
  /\ upc = [u \in Uploads |-> "open"]
  /\ name = [u \in Uploads |-> None]
  /\ overwrite = [u \in Uploads |-> TRUE]
  /\ replaced = [u \in Uploads |-> FALSE]
  /\ loop = None
  /\ rpc = [r \in Readers |-> "idle"]
  /\ voice = [r \in Readers |-> None]
  /\ heard = [r \in Readers |-> None]
  /\ crashes = 0

\* target.exists(), path.is_file()
Exists(p) == store[p] # None
\* GET /v1/voices: every *.wav in voices_dir
Listed == {p \in InVoicesDir : Exists(p)}

Move(u, from, to) == upc[u] = from /\ upc' = [upc EXCEPT ![u] = to]
Step(r, from, to) == rpc[r] = from /\ rpc' = [rpc EXCEPT ![r] = to]

---------------------------------------------------------------------------
(* PUT /v1/voices/{name}.                                                  *)

\* 400: not a legal name, or "default"
IllegalName(u) ==
  /\ loop = None
  /\ Move(u, "open", "refused")
  /\ UNCHANGED <<store, name, overwrite, replaced, loop, readerVars, crashes>>

\* variant: overwrite=false is not looked at
ArriveUnchecked(u) ==
  /\ loop = None
  /\ \E n \in Names, o \in BOOLEAN :
       /\ name' = [name EXCEPT ![u] = n]
       /\ overwrite' = [overwrite EXCEPT ![u] = o]
  /\ Move(u, "open", "body")
  /\ UNCHANGED <<store, replaced, loop, readerVars, crashes>>

\* up to the await of the body: 409 for a name that is taken, unless the
\* upload may replace it
Arrive(u) ==
  /\ loop = None
  /\ \E n \in Names, o \in BOOLEAN :
       /\ name' = [name EXCEPT ![u] = n]
       /\ overwrite' = [overwrite EXCEPT ![u] = o]
       /\ \/ ~o /\ Exists(n) /\ Move(u, "open", "refused")
          \/ (o \/ ~Exists(n)) /\ Move(u, "open", "body")
  /\ UNCHANGED <<store, replaced, loop, readerVars, crashes>>

\* variant: the conversion is awaited in a thread, the loop goes on meanwhile
BodyOffLoop(u) ==
  /\ loop = None
  /\ Move(u, "body", "convert")
  /\ store' = [store EXCEPT ![u] = File(u, "part")]
  /\ UNCHANGED <<name, overwrite, replaced, loop, readerVars, crashes>>

\* variant: ffmpeg writes to the target itself
BodyInPlace(u) ==
  /\ loop = None
  /\ Move(u, "body", "convert")
  /\ store' = [store EXCEPT ![u] = File(u, "part"), ![name[u]] = File(u, "part")]
  /\ loop' = u
  /\ UNCHANGED <<name, overwrite, replaced, readerVars, crashes>>

\* the body is there: 413, or no temporary file (a 500), or the conversion
\* starts into a new temporary file
Body(u) ==
  /\ loop = None
  /\ \/ Move(u, "body", "refused") /\ UNCHANGED <<store, loop>>
     \/ /\ Move(u, "body", "convert")
        /\ store' = [store EXCEPT ![u] = File(u, "part")]
        /\ loop' = u
  /\ UNCHANGED <<name, overwrite, replaced, readerVars, crashes>>

\* variant: ffmpeg is started without its input, and waits for it
ConvertWithoutInput(u) ==
  /\ Move(u, "convert", "convert")
  /\ UNCHANGED <<store, name, overwrite, replaced, loop, readerVars, crashes>>

\* ffmpeg ends: with an error, 400, or with a whole file of some length
Convert(u) ==
  /\ \/ Move(u, "convert", "failed") /\ UNCHANGED store
     \/ /\ Move(u, "convert", "check")
        /\ \E g \in {"whole", "valid"} :
             store' = [store EXCEPT ![u] = File(u, g)]
  /\ UNCHANGED <<name, overwrite, replaced, loop, readerVars, crashes>>

\* variant: nothing checks the length
CheckNothing(u) ==
  /\ Move(u, "check", "replace")
  /\ replaced' = [replaced EXCEPT ![u] = Exists(name[u])]
  /\ UNCHANGED <<store, name, overwrite, loop, readerVars, crashes>>

\* variant: an upload that may not replace is told that it did not
CheckTrustsFlag(u) ==
  /\ \/ Move(u, "check", "failed") /\ UNCHANGED replaced
     \/ /\ Move(u, "check", "replace")
        /\ store[u].grade = "valid"
        /\ replaced' = [replaced EXCEPT ![u] = overwrite[u] /\ Exists(name[u])]
  /\ UNCHANGED <<store, name, overwrite, loop, readerVars, crashes>>

\* sf.info and the bounds on the length, 400 or 500; then the flag of the
\* answer, "checked as late as possible"
Check(u) ==
  /\ \/ /\ Move(u, "check", "failed")
        /\ store[u].grade # "valid"
        /\ UNCHANGED replaced
     \/ /\ Move(u, "check", "replace")
        /\ store[u].grade = "valid"
        /\ replaced' = [replaced EXCEPT ![u] = Exists(name[u])]
  /\ UNCHANGED <<store, name, overwrite, loop, readerVars, crashes>>

\* os.replace, which may raise
Replace(u) ==
  /\ \/ Move(u, "replace", "failed") /\ UNCHANGED store
     \/ /\ Move(u, "replace", "placed")
        /\ store' = [store EXCEPT ![name[u]] = store[u], ![u] = None]
  /\ UNCHANGED <<name, overwrite, replaced, loop, readerVars, crashes>>

\* the finally clause, tmp_path.unlink, and the answer
Finish(u) ==
  /\ \/ Move(u, "placed", "stored")
     \/ Move(u, "failed", "refused")
  /\ store' = [store EXCEPT ![u] = None]
  /\ loop' = None
  /\ UNCHANGED <<name, overwrite, replaced, readerVars, crashes>>

UploadStep(u) == Body(u) \/ Convert(u) \/ Check(u) \/ Replace(u) \/ Finish(u)

---------------------------------------------------------------------------
(* Readers: POST /v1/audio/speech and /v1/audio/clone.  A clone is the      *)
(* reader whose reference is its own file.                                  *)

\* variant: the suffix is forgotten, no clip is ever found
ResolveWithoutSuffix(v) == None

\* _resolve_voice: a name without a clip is the built-in voice
ResolveVoice(v) == IF Exists(v) THEN v ELSE None

\* create_speech up to to_thread: with "default", with any string for a voice,
\* which may name any *.wav file there is, or 422 for an unknown model
Speak(r) ==
  /\ loop = None
  /\ \/ Step(r, "idle", "failed") /\ UNCHANGED voice
     \/ Step(r, "idle", "waiting") /\ UNCHANGED voice
     \/ /\ Step(r, "idle", "waiting")
        /\ \E v \in Paths :
             voice' = [voice EXCEPT ![r] = ResolveVoice(v)]
  /\ UNCHANGED <<store, uploadVars, loop, heard, crashes>>

\* clone_speech up to the await of its body: a temporary file of its own
CloneArrive(r) ==
  /\ loop = None
  /\ Step(r, "idle", "body")
  /\ store' = [store EXCEPT ![r] = File(r, "part")]
  /\ UNCHANGED <<uploadVars, loop, voice, heard, crashes>>

\* the body is there: the write may raise, which leaves the file; an unknown
\* model is a 422, after which the file is unlinked
CloneBody(r) ==
  /\ loop = None
  /\ \/ Step(r, "body", "failed") /\ UNCHANGED <<store, voice>>
     \/ /\ Step(r, "body", "failed")
        /\ store' = [store EXCEPT ![r] = None]
        /\ UNCHANGED voice
     \/ /\ Step(r, "body", "waiting")
        /\ store' = [store EXCEPT ![r] = File(r, "whole")]
        /\ voice' = [voice EXCEPT ![r] = r]
  /\ UNCHANGED <<uploadVars, loop, heard, crashes>>

\* engine.synthesize, in its thread, with or without a reference: it opens
\* the clip some time after it was resolved
Hear(r) ==
  /\ Step(r, "waiting", "spoken")
  /\ \/ voice[r] = None /\ UNCHANGED heard
     \/ /\ voice[r] # None /\ Exists(voice[r])
        /\ heard' = [heard EXCEPT ![r] = store[voice[r]]]
  /\ UNCHANGED <<store, uploadVars, loop, voice, crashes>>

\* ... or the engine raises: no disk space, a load that failed, no such file
EngineFails(r) ==
  /\ Step(r, "waiting", "error")
  /\ UNCHANGED <<store, uploadVars, loop, voice, heard, crashes>>

\* variant: clone_speech unlinks its file after the try, not in a finally
AnswerUnlinksIfSpoken(r) ==
  /\ loop = None
  /\ \/ Step(r, "spoken", "done") \/ Step(r, "spoken", "failed")
     \/ Step(r, "error", "failed")
  /\ store' = IF voice[r] = r /\ rpc[r] = "spoken" THEN [store EXCEPT ![r] = None]
                                                   ELSE store
  /\ UNCHANGED <<uploadVars, loop, voice, heard, crashes>>

\* back on the loop: clone_speech unlinks its file, then the answer; encoding
\* it may still raise
Answer(r) ==
  /\ loop = None
  /\ \/ Step(r, "spoken", "done") \/ Step(r, "spoken", "failed")
     \/ Step(r, "error", "failed")
  /\ store' = IF voice[r] = r THEN [store EXCEPT ![r] = None] ELSE store
  /\ UNCHANGED <<uploadVars, loop, voice, heard, crashes>>

ReaderStep(r) ==
  \/ CloneBody(r)
  \/ Hear(r)
  \/ EngineFails(r)
  \/ Answer(r)

---------------------------------------------------------------------------

\* the server dies and comes back: requests under way have no answer
Crash ==
  /\ crashes < MaxCrashes
  /\ crashes' = crashes + 1
  /\ upc' = [u \in Uploads |->
               IF upc[u] \in Blocking \cup {"body"} THEN "lost" ELSE upc[u]]
  /\ rpc' = [r \in Readers |->
               IF rpc[r] \in {"body", "waiting", "spoken", "error"}
               THEN "lost" ELSE rpc[r]]
  /\ loop' = None
  /\ UNCHANGED <<store, name, overwrite, replaced, voice, heard>>

Over == /\ \A u \in Uploads : upc[u] \in {"stored", "refused", "lost"}
        /\ \A r \in Readers : rpc[r] \in {"done", "failed", "lost"}
AllAnswered == Over /\ UNCHANGED vars

Next ==
  \/ \E u \in Uploads : IllegalName(u) \/ Arrive(u) \/ UploadStep(u)
  \/ \E r \in Readers : Speak(r) \/ CloneArrive(r) \/ ReaderStep(r)
  \/ Crash
  \/ AllAnswered

\* Handlers that can go on do (the loop takes them in turn), and ffmpeg, the
\* file system and the engine come to an end.  Nobody has to send a request.
Fairness ==
  /\ \A u \in Uploads : WF_vars(UploadStep(u))
  /\ \A r \in Readers : WF_vars(ReaderStep(r))

Spec == Init /\ [][Next]_vars /\ Fairness

---------------------------------------------------------------------------
(* Properties.                                                             *)

\* The type invariant.
VoicesTypeOK ==
  /\ store \in [Paths -> Files \cup {None}]
  /\ upc \in [Uploads -> UploadPcs]
  /\ name \in [Uploads -> Names \cup {None}]
  /\ overwrite \in [Uploads -> BOOLEAN]
  /\ replaced \in [Uploads -> BOOLEAN]
  /\ loop \in Uploads \cup {None}
  /\ rpc \in [Readers -> ReaderPcs]
  /\ voice \in [Readers -> Paths \cup {None}]
  /\ heard \in [Readers -> Files \cup {None}]
  /\ crashes \in 0 .. MaxCrashes

\* "Uploads that fail validation never touch an existing clip": what is in
\* place under a name was put there by hand, or is the valid clip of an upload
\* for that name that has been, is about to be, or died before being answered
\* with success (put_voice).
OnlyValidated ==
  \A n \in Names : Exists(n) =>
    LET u == store[n].by IN
    \/ u = Dropped
    \/ /\ u \in Uploads
       /\ name[u] = n
       /\ store[n].grade = "valid"
       /\ upc[u] \in {"placed", "stored", "lost"}

\* "a concurrent synthesis never reads a half-written clip": whatever the
\* uploads do between a request's _resolve_voice and its thread's turn, under
\* the name of a voice it hears a whole clip that was put or uploaded under
\* that name, and under the name of an upload's temporary file only what a
\* crash has left of it.  Nothing is promised of another request's clip.
HeardWhole ==
  \A r \in Readers : heard[r] # None =>
    LET u == heard[r].by IN
    /\ voice[r] \in Names =>
         /\ heard[r].grade # "part"
         /\ u = Dropped \/ (u \in Uploads /\ name[u] = voice[r])
    /\ voice[r] \in Uploads => u = voice[r] /\ upc[u] = "lost"

\* A clip in voices_dir that was resolved is still there when the engine's
\* thread opens it: nothing unlinks a voice, and no temporary file is resolved
\* while its upload is alive (_resolve_voice, put_voice).
ResolvedStays ==
  \A r \in Readers :
    rpc[r] = "waiting" /\ voice[r] \in InVoicesDir => Exists(voice[r])

\* A clone hears the clip it came with, whatever else is uploaded, resolved or
\* raised meanwhile, and once it is answered, with speech or with an error, the
\* clip is gone (clone_speech's finally clause).  What stays is the beginning
\* of a clip whose write raised: the write is before the try (routes.py:178).
CloneHearsOwn ==
  \A r \in Readers :
    /\ voice[r] = r =>
         /\ rpc[r] = "waiting" => store[r] = File(r, "whole")
         /\ rpc[r] = "done" => heard[r] = File(r, "whole")
    /\ rpc[r] = "done" => ~Exists(r)
    /\ rpc[r] = "failed" /\ Exists(r) => voice[r] = None /\ store[r].grade = "part"

\* Of the successful uploads of one name at most one is told that it replaced
\* nothing, however they overlap: the flag "describes what os.replace actually
\* did, not what the directory looked like on arrival" (put_voice).
OneIsFirst ==
  \A u, v \in Uploads :
    /\ upc[u] = "stored" /\ ~replaced[u]
    /\ name[v] = name[u] /\ u # v
    /\ upc[v] \in {"placed", "stored"}
    => replaced[v]

\* Nobody loses an acknowledged clip untold: when it is no longer in place,
\* whether or not it had replaced another, the upload whose clip is there says
\* in its answer that it replaced one, if it lived to give an answer.
ClobberIsTold ==
  \A u \in Uploads : upc[u] = "stored" =>
    LET by == store[name[u]].by IN
    /\ Exists(name[u])
    /\ by \in Uploads
    /\ by # u => replaced[by]

\* What overwrite=false does protect: the clip of an upload that was acknowledged
\* before this one was sent, however long its body takes and whatever is
\* registered meanwhile.  A clip acknowledged later it may well replace
\* (NoClobber).
Safely(u, v) ==
  [](upc[u] = "open" /\ upc[v] = "stored" =>
       [](upc[u] \in {"placed", "stored"} /\ name[u] = name[v] => overwrite[u]))
AcknowledgedIsSafe == \A u, v \in Uploads : Safely(u, v)

\* "immediately usable": once an upload is acknowledged, a request for its
\* name is never spoken in the built-in voice, and before any crash the list
\* holds nothing but the voices.
ImmediatelyUsable ==
  loop = None =>
    /\ \A u \in Uploads : upc[u] = "stored" => ResolveVoice(name[u]) = name[u]
    /\ crashes = 0 => Listed \subseteq Names

\* Every request is answered, or lost in a crash: uploads that block the loop
\* one after the other hold nobody up for ever.
EveryRequestEnds ==
  /\ \A u \in Uploads :
       upc[u] = "body" ~> upc[u] \in {"stored", "refused", "lost"}
  /\ \A r \in Readers :
       rpc[r] \in {"body", "waiting"} ~> rpc[r] \in {"done", "failed", "lost"}

\* The abstract book: the clip in place names its upload; an upload's fate is
\* open until os.replace, and then as its flag says.
FateOf(u) ==
  CASE upc[u] = "placed" -> IF replaced[u] THEN "over" ELSE "new"
    [] upc[u] = "stored" -> IF replaced[u] THEN "told replaced" ELSE "told new"
    [] upc[u] \in {"refused", "lost"} -> upc[u]
    [] OTHER -> "open"

Book == INSTANCE VoiceBook WITH
          book <- [n \in Names |-> IF Exists(n) THEN store[n].by ELSE None],
          fate <- [u \in Uploads |-> FateOf(u)]
\* Voices implements the book: os.replace is the one step in which a clip
\* changes, and the answer agrees with that step.
ImplementsVoiceBook == Book!Spec

---------------------------------------------------------------------------
(* The inductive invariant.                                                *)

Successful == {"placed", "stored"}

\* who blocks the loop, and what an upload has to do with its own file
LoopInv ==
  \A u \in Uploads :
    /\ upc[u] \in Blocking <=> loop = u
    /\ upc[u] = "lost" => crashes # 0
    /\ Exists(u) => store[u].by = u /\ upc[u] \in Blocking \cup {"lost"}
    /\ upc[u] \in {"convert", "check", "replace"} => Exists(u)
    /\ upc[u] = "replace" => store[u].grade = "valid"

\* what is in place under a name; until os.replace the flag is still true
PlaceInv ==
  /\ \A u \in Uploads :
       /\ upc[u] \notin {"open", "refused"} => name[u] \in Names
       /\ upc[u] = "replace" => replaced[u] = Exists(name[u])
       /\ upc[u] \in Successful =>
            Exists(name[u]) /\ store[name[u]].by \in Uploads
  /\ \A n \in Names : Exists(n) => store[n].grade # "part"

\* the answers of the uploads of one name
FlagInv ==
  /\ \A u, v \in Uploads :
       /\ upc[u] \in Successful /\ upc[v] \in Successful
       /\ name[u] = name[v] /\ u # v
       => replaced[u] \/ replaced[v]
  /\ \A u \in Uploads : upc[u] \in Successful =>
       LET by == store[name[u]].by IN by # u => replaced[by]

\* what a reader has resolved, and then heard
ReaderInv ==
  \A r \in Readers :
    /\ rpc[r] \in {"idle", "body"} => voice[r] = None
    /\ rpc[r] \in {"idle", "body", "waiting"} => heard[r] = None
    /\ voice[r] \in Uploads => upc[voice[r]] = "lost"
    /\ rpc[r] = "waiting" /\ voice[r] \in InVoicesDir => Exists(voice[r])
    /\ heard[r] # None /\ heard[r].by \in Uploads =>
         upc[heard[r].by] \in Successful \cup {"lost"}

\* the file of a clone
CloneInv ==
  \A r \in Readers :
    /\ Exists(r) => store[r].by = r
    /\ rpc[r] \in {"idle", "done"} => ~Exists(r)
    /\ rpc[r] = "body" => store[r] = File(r, "part")
    /\ rpc[r] \in {"waiting", "spoken", "error"} =>
         IF voice[r] = r THEN store[r] = File(r, "whole") ELSE ~Exists(r)
    /\ rpc[r] \in {"spoken", "done"} /\ voice[r] = r => heard[r] = File(r, "whole")
    /\ rpc[r] = "failed" /\ Exists(r) => voice[r] = None /\ store[r].grade = "part"

VInv == /\ VoicesTypeOK
        /\ LoopInv
        /\ PlaceInv
        /\ FlagInv
        /\ OnlyValidated
        /\ ReaderInv
        /\ CloneInv
        /\ HeardWhole

---------------------------------------------------------------------------
\* put_voice's docstring, routes.py:299-300: "`?overwrite=false` turns an
\* accidental clobber into a 409 instead".  The code checks before the await
\* of the body only: two uploads that both find the name free both succeed.
NoClobber ==
  \A u \in Uploads : upc[u] = "stored" /\ ~overwrite[u] => ~replaced[u]

============================================================================
