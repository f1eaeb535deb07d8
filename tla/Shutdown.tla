----------------------------- MODULE Shutdown -----------------------------
(***************************************************************************)
(* app/shutdown.py beside the running engine: the lifespan's finally clause*)
(* stops the idle reaper (Engine: StopReaper to ForgetReaper), goes on if  *)
(* that raised, and closes joblib's worker pool, politely for GRACE_SECONDS*)
(* and by force after that.  Preload threads are daemons nobody waits for: *)
(* they go on beside all of it.                                            *)
(***************************************************************************)
EXTENDS Engine

VARIABLES
  closing,   \* where shutdown is, once stop_reaper is called
  polite,    \* the thread running executor.shutdown(kill_workers=False)
  executor   \* the worker pool

pooling == <<closing, polite, executor>>
allVars == <<vars, pooling>>

\* in stop_reaper, in shutdown_worker_pool, returned, an exception left shutdown
ClosingSteps == {"no", "pool", "drain", "kill", "done", "raised"}
PoliteStates == {"none", "running", "ended", "raised"}
\* not importable or not obtainable; workers that exit when asked to; workers
\* that do not; closed; left open because closing it raised
ExecutorStates == {"missing", "idle", "wedged", "closed", "broken"}

PoolInit ==
  /\ Init
  /\ closing = "no"
  /\ polite = "none"
  /\ executor \in {"missing", "idle", "wedged"}

EngineGoesOn == Next /\ UNCHANGED pooling

ReaperStopped ==
  /\ loop = "stopped" /\ closing = "no"
  /\ closing' = "pool"
  /\ UNCHANGED <<vars, polite, executor>>

\* variant: stop_reaper is called without the try
LetRaise ==
  /\ loop = "raised" /\ closing = "no"
  /\ closing' = "raised"
  /\ UNCHANGED <<vars, polite, executor>>

\* stop_reaper raised: "reaper shutdown failed; continuing"
CatchReaper ==
  /\ loop = "raised" /\ closing = "no"
  /\ closing' = "pool"
  /\ UNCHANGED <<vars, polite, executor>>

NoPool ==
  /\ closing = "pool" /\ executor = "missing"
  /\ closing' = "done"
  /\ UNCHANGED <<vars, polite, executor>>

AskPolitely ==
  /\ closing = "pool" /\ executor # "missing"
  /\ closing' = "drain"
  /\ polite' = "running"
  /\ UNCHANGED <<vars, executor>>

\* executor.shutdown returns on its own thread when every worker has exited,
\* or raises there, where nobody catches it
PoliteEnds ==
  /\ polite = "running"
  /\ \/ executor \in {"idle", "closed"} /\ polite' = "ended" /\ executor' = "closed"
     \/ polite' = "raised" /\ executor' = IF executor = "closed" THEN "closed" ELSE "broken"
  /\ UNCHANGED <<vars, closing>>

\* join(GRACE_SECONDS): the thread has ended ...
Drained ==
  /\ closing = "drain" /\ polite # "running"
  /\ closing' = "done"
  /\ UNCHANGED <<vars, polite, executor>>

\* ... or the grace period is over and it has not
GraceOver ==
  /\ closing = "drain" /\ polite = "running"
  /\ closing' = "kill"
  /\ UNCHANGED <<vars, polite, executor>>

\* executor.shutdown(kill_workers=True), or an exception that is logged
KillWorkers ==
  /\ closing = "kill"
  /\ closing' = "done"
  /\ executor' \in {"closed", IF executor = "closed" THEN "closed" ELSE "broken"}
  /\ UNCHANGED <<vars, polite>>

PoolStep ==
  \/ ReaperStopped \/ CatchReaper
  \/ NoPool \/ AskPolitely \/ Drained \/ GraceOver \/ KillWorkers

ShutdownNext == EngineGoesOn \/ PoolStep \/ PoliteEnds

\* Only what runs on the event loop, and the reaper it joins, is scheduled
\* for sure: a preload thread may hang in a download for ever, and a wedged
\* worker never exits.
ShutdownFairness ==
  /\ WF_allVars(LoopStep /\ UNCHANGED pooling)
  /\ \A r \in Reapers : WF_allVars(ReaperStep(r) /\ UNCHANGED pooling)
  /\ WF_allVars(PoolStep)

ShutdownSpec == PoolInit /\ [][ShutdownNext]_allVars /\ ShutdownFairness

---------------------------------------------------------------------------
(* Properties.                                                             *)

\* The type invariant.
ShutdownTypeOK ==
  /\ TypeOK
  /\ closing \in ClosingSteps
  /\ polite \in PoliteStates
  /\ executor \in ExecutorStates

\* When shutdown is over, whether it returned or an exception left it, the pool
\* is closed, unless closing it raised: a reaper that could not be stopped does
\* not cost the pool its cleanup (shutdown.py:85, and the test
\* test_pool_still_closed_when_reaper_raises), and a wedged worker is killed
\* (shutdown.py:61).
PoolClosedAtExit ==
  closing \in {"done", "raised"} => executor \in {"missing", "closed", "broken"}

\* Shutdown returns and never raises, once the connections are drained: while a
\* preload hangs with the lock that the reaper waits for, while a pool worker
\* is wedged (the bounded joins, engine.py:377 and shutdown.py:70), and though
\* stop_reaper meets a reaper that a preload has created and not yet started.
ShutdownReturns == loop \in Stopping ~> closing = "done"

\* stop_reaper has been called, and no preload is left
Winding ==
  /\ loop \in Stopping
  /\ stopFlag
  /\ \A l \in Loaders : pc[l] = "free"

\* Then reapers are stopped for good: the event stays set, nothing loads any
\* more, and a reaper that has ended is not followed by another, whatever was
\* under way when the connections were drained (shutdown.py:86, engine.py:374).
StoppedForGood ==
  [][Winding => Winding' /\ \A r \in Reapers : ~Alive(r) => ~Alive(r)']_allVars

\* A reaper that was told to stop ends, wherever it was: at its wait, in an
\* unload, or at the lock until after the 5 s of the join.  Only a
\* preload that loads after stop_reaper can bring one back (_ensure_reaper
\* clears the event, engine.py:368), and then "reaper first" (shutdown.py:82)
\* is lost.
ReaperEnds == Winding ~> \A r \in Reapers : ~Alive(r)

=============================================================================
