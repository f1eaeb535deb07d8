------------------------------ MODULE EndToEnd ------------------------------
(***************************************************************************)
(* scripts/e2e.py against a server that also serves others: preload, poll   *)
(* /health until the model is resident, speak.  The engine runs on as       *)
(* Engine says; what is added is one client and the two reads of the        *)
(* handler that answers its polls.                                          *)
(*                                                                         *)
(* A poll that fails (a 500, a timeout) is slept over and changes nothing.  *)
(* The stages after the first speech (--ref, --sfx) send requests of the    *)
(* same kind and are left out.                                              *)
(***************************************************************************)
EXTENDS Engine

VARIABLES
  stage,      \* where the script, or the handler it waits for, is
  target,     \* the model to test
  loaded,     \* loaded_model as the handler has read it
  sawLoading, \* a poll has shown a loading_model
  speaker,    \* the request thread of the speech stage
  spoken,     \* its generate returned
  verdict,    \* what the last stage reported
  raised      \* a load of the target has raised since the script began

script == <<stage, target, loaded, sawLoading, speaker, spoken, verdict>>
e2eVars == <<vars, script, raised>>

Stages == {"preload", "poll", "read", "speak", "answer", "over"}
Verdicts == {"none", "resident", "aborted", "timeout", "failed", "passed"}

E2eInit ==
  /\ Init
  /\ stage = "preload" /\ target \in Models /\ loaded = None
  /\ sawLoading = FALSE /\ speaker = None /\ spoken = FALSE
  /\ verdict = "none" /\ raised = FALSE

Go(from, to) == stage = from /\ stage' = to
Report(from, to, v) == Go(from, to) /\ verdict' = v

\* POST /v1/models/preload; preload_async finds the model resident, or goes on
AskPreload ==
  /\ Go("preload", "poll")
  /\ \/ PreloadAsked(target)
     \/ modelId = target /\ loop = "serving" /\ UNCHANGED vars
  /\ UNCHANGED <<target, loaded, sawLoading, speaker, spoken, verdict, raised>>

\* GET /health: the handler reads loaded_model ...
ReadLoaded ==
  /\ Go("poll", "read") /\ loop = "serving"
  /\ loaded' = modelId
  /\ UNCHANGED <<vars, target, sawLoading, speaker, spoken, verdict, raised>>

\* ... and loading_model, and the script judges by the two
ReadLoading ==
  /\ sawLoading' = (sawLoading \/ loadingId # None)
  /\ \/ loaded # None /\ Report("read", "speak", "resident")
     \/ /\ loaded = None /\ sawLoading /\ loadingId = None
        /\ Report("read", "over", "aborted")
     \/ /\ loaded = None /\ (sawLoading => loadingId # None)
        /\ Go("read", "poll") /\ UNCHANGED verdict
  /\ UNCHANGED <<vars, target, loaded, speaker, spoken, raised>>

\* the else of the loop: --load-timeout is over
LoadTimeout ==
  /\ Report("poll", "over", "timeout")
  /\ UNCHANGED <<vars, target, loaded, sawLoading, speaker, spoken, raised>>

\* POST /v1/audio/speech
Speak(c) ==
  /\ Go("speak", "answer")
  /\ Submit(c, target)
  /\ speaker' = c
  /\ UNCHANGED <<target, loaded, sawLoading, spoken, verdict, raised>>

\* 200 with a WAV, an error, or --gen-timeout
SpeechAnswered ==
  /\ Report("answer", "over", IF spoken THEN "passed" ELSE "failed")
  /\ pc[speaker] = "idle"
  /\ UNCHANGED <<vars, target, loaded, sawLoading, speaker, spoken, raised>>

SpeechTimeout ==
  /\ Report("answer", "over", "failed")
  /\ UNCHANGED <<vars, target, loaded, sawLoading, speaker, spoken, raised>>

\* the server's threads at any time, its event loop except inside the handler; the
\* thread that answers the script serves nobody else before it has
Taken == stage = "answer" /\ pc[speaker] = "idle"
ServerGoesOn ==
  /\ \/ \E c \in Callers : CallerStep(c)
     \/ \E l \in Loaders : LoaderStep(l)
     \/ \E r \in Reapers : ReaperStep(r)
     \/ stage # "read" /\ (LoopStep \/ Demand) /\ (Taken => pc'[speaker] = "idle")
     \/ Tick
     \/ CyclicGC
  /\ raised' = (raised \/ \E t \in Workers :
                 /\ want[t] = target
                 /\ pc[t] \notin {"abort", "raise"} /\ pc'[t] \in {"abort", "raise"})
  /\ spoken' = (spoken \/ /\ stage = "answer" /\ pc[speaker] # "done"
                          /\ pc'[speaker] = "done")
  /\ UNCHANGED <<stage, target, loaded, sawLoading, speaker, verdict>>

Script ==
  \/ AskPreload \/ ReadLoaded \/ ReadLoading \/ LoadTimeout
  \/ \E c \in Callers : Speak(c)
  \/ SpeechAnswered \/ SpeechTimeout

E2eNext == Script \/ ServerGoesOn

E2eSpec == E2eInit /\ [][E2eNext]_e2eVars

---------------------------------------------------------------------------

\* "Started, then stopped, with nothing resident: the load raised" (e2e.py:183):
\* the script gives up only on a target whose load has failed.
AbortMeansRaised == verdict = "aborted" => raised

\* The speech the script reports was generated by the model it was started for,
\* resident and on the device when the call returned, whatever else the server
\* was asked for between the poll and the answer (e2e.py:202).
SpokenByTarget ==
  [][spoken' # spoken => /\ model = target /\ modelId = target
                         /\ device[target] = "live"]_e2eVars

=============================================================================
