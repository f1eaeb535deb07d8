-------------------------------- MODULE Cli --------------------------------
(***************************************************************************)
(* The `moss' command, moss_temporal/cli.py, at work on one workflow id.    *)
(*                                                                         *)
(* The Temporal server is external: under an id there is at most one open   *)
(* run, a closed id may be started again, and a handle without a run id     *)
(* means whichever run is the latest when a call arrives.  A worker is      *)
(* external too (Batch.tla has what it does): runs close and queries are    *)
(* answered only while one polls the task queue, and it comes and goes.     *)
(*                                                                         *)
(* Each of a command's calls to the server is a step of its own; between    *)
(* two of them runs close and start, and the worker goes to sleep.          *)
(***************************************************************************)
EXTENDS Integers

CONSTANTS Commands,   \* invocations of moss (a bound)
          MaxRuns,    \* bound on the runs started under the id
          None

VARIABLES
  latest,     \* the number of the latest run under the id; 0: never used
  status,     \* the execution status of each run
  cancels,    \* the runs with a cancel request
  polled,     \* a worker polls the task queue
  cmd,        \* the subcommand of each invocation
  at,         \* the call it makes next
  run,        \* the run it has started, or was told of by describe()
  saw,        \* the status describe() gave
  of,         \* the run its result or the answered query belongs to
  says        \* the state it prints, which decides its exit code

server == <<latest, status, cancels>>
command == <<cmd, at, run, saw, of, says>>
vars == <<latest, status, cancels, polled, cmd, at, run, saw, of, says>>

Runs == 1 .. MaxRuns
Closed == {"completed", "failed", "canceled", "terminated"}
Statuses == {"none", "running"} \cup Closed
Subcommands == {"submit", "wait", "status", "cancel"}
Calls == {"start", "describe", "result", "fetch", "count", "query", "done"}
\* "traceback": an exception no except clause of the command is for
Says == {"submitted", "succeeded", "failed", "timeout", "traceback",
         "no such workflow", "described", "queued", "answered", "unknown",
         "cancel_requested", "terminated"}

ASSUME CliAssumption ==
  /\ MaxRuns \in Nat
  /\ None \notin Nat
  /\ None \notin Statuses \cup Subcommands \cup Says

Init ==
  /\ latest = 0
  /\ status = [r \in Runs |-> "none"]
  /\ cancels = {}
  /\ polled \in BOOLEAN
  /\ cmd = [c \in Commands |-> None]
  /\ at = [c \in Commands |-> "start"]
  /\ run = [c \in Commands |-> None]
  /\ saw = [c \in Commands |-> None]
  /\ of = [c \in Commands |-> None]
  /\ says = [c \in Commands |-> None]

Open == latest # 0 /\ status[latest] = "running"

Call(c, from, to) == at[c] = from /\ at' = [at EXCEPT ![c] = to]
Invoke(c, sub) == cmd[c] = None /\ cmd' = [cmd EXCEPT ![c] = sub]
Emit(c, state) == says' = [says EXCEPT ![c] = state]
\* the command is over, and this is what it prints
End(c, from, state) == Call(c, from, "done") /\ Emit(c, state)
Keep == UNCHANGED <<cmd, run, saw, of>>

---------------------------------------------------------------------------
(* cmd_submit and cmd_wait.                                                *)

\* start_workflow with the default policies: an open run is an error ...
SubmitRefused(c) ==
  /\ Open
  /\ Invoke(c, "submit") /\ End(c, "start", "traceback")
  /\ UNCHANGED <<server, polled, run, saw, of>>

\* variant: the handle is got by id, and means the latest run
SubmitUnpinned(c) ==
  /\ ~Open /\ latest < MaxRuns
  /\ Invoke(c, "submit")
  /\ latest' = latest + 1
  /\ status' = [status EXCEPT ![latest + 1] = "running"]
  /\ run' = [run EXCEPT ![c] = latest + 1]
  /\ \/ End(c, "start", "submitted") /\ UNCHANGED of
     \/ Call(c, "start", "fetch") /\ UNCHANGED <<says, of>>
  /\ UNCHANGED <<cancels, polled, saw>>

\* ... and otherwise a run is started; the handle keeps its run id, for --wait
Submit(c) ==
  /\ ~Open /\ latest < MaxRuns
  /\ Invoke(c, "submit")
  /\ latest' = latest + 1
  /\ status' = [status EXCEPT ![latest + 1] = "running"]
  /\ run' = [run EXCEPT ![c] = latest + 1]
  /\ \/ End(c, "start", "submitted") /\ UNCHANGED of
     \/ /\ Call(c, "start", "result")
        /\ of' = [of EXCEPT ![c] = latest + 1]
        /\ UNCHANGED says
  /\ UNCHANGED <<cancels, polled, saw>>

\* a handle without a run id: result() waits for the run that is the latest
Wait(c) ==
  /\ Invoke(c, "wait")
  /\ \/ /\ latest = 0
        /\ End(c, "start", "traceback")
        /\ UNCHANGED <<run, of>>
     \/ /\ latest # 0
        /\ Call(c, "start", "result")
        /\ run' = [run EXCEPT ![c] = latest]
        /\ of' = [of EXCEPT ![c] = latest]
        /\ UNCHANGED says
  /\ UNCHANGED <<server, polled, saw>>

\* result() returns, or raises WorkflowFailureError, which cmd_status does not
\* catch
Result(c) ==
  /\ at[c] = "result" /\ status[of[c]] \in Closed
  /\ \/ status[of[c]] = "completed" /\ End(c, "result", "succeeded")
     \/ /\ status[of[c]] # "completed"
        /\ End(c, "result", IF cmd[c] = "status" THEN "traceback" ELSE "failed")
  /\ Keep /\ UNCHANGED <<server, polled>>

\* variant: one except clause for a failed run and for a timeout
TimeoutFails(c) ==
  /\ cmd[c] # "status"
  /\ End(c, "result", "failed")
  /\ Keep /\ UNCHANGED <<server, polled>>

\* asyncio.wait_for(handle.result(), args.timeout); cmd_status has none
Timeout(c) ==
  /\ cmd[c] # "status"
  /\ End(c, "result", "timeout")
  /\ Keep /\ UNCHANGED <<server, polled>>

---------------------------------------------------------------------------
(* cmd_status.                                                             *)

Describe(c) ==
  /\ Invoke(c, "status")
  /\ \/ latest = 0 /\ End(c, "start", "no such workflow") /\ UNCHANGED <<run, saw>>
     \/ /\ latest # 0
        /\ Call(c, "start", IF status[latest] = "completed" THEN "fetch"
                            ELSE "count")
        /\ run' = [run EXCEPT ![c] = latest]
        /\ saw' = [saw EXCEPT ![c] = status[latest]]
        /\ UNCHANGED says
  /\ UNCHANGED <<server, polled, of>>

\* variant: the handle means the first run of the id
FetchFirst(c) ==
  /\ Call(c, "fetch", "result")
  /\ of' = [of EXCEPT ![c] = 1]
  /\ UNCHANGED <<server, polled, cmd, run, saw, says>>

\* COMPLETED: result() of a handle without a run id
Fetch(c) ==
  /\ Call(c, "fetch", "result")
  /\ of' = [of EXCEPT ![c] = latest]
  /\ UNCHANGED <<server, polled, cmd, run, saw, says>>

\* _poller_count; with nobody polling no query is sent
CountPollers(c) ==
  /\ \/ polled /\ Call(c, "count", "query") /\ UNCHANGED says
     \/ /\ ~polled
        /\ End(c, "count", IF saw[c] = "running" THEN "queued" ELSE "described")
  /\ Keep /\ UNCHANGED <<server, polled>>

\* variant: without the bound of 10 s
QueryUnbounded(c) ==
  /\ polled
  /\ End(c, "query", "answered")
  /\ of' = [of EXCEPT ![c] = latest]
  /\ UNCHANGED <<server, polled, cmd, run, saw>>

\* _query: a worker answers for the latest run, or the 10 s are over (the
\* progress a heartbeat left, which is printed beside it, is not modelled)
Query(c) ==
  /\ \/ /\ polled
        /\ End(c, "query", "answered")
        /\ of' = [of EXCEPT ![c] = latest]
     \/ End(c, "query", "unknown") /\ UNCHANGED of
  /\ UNCHANGED <<server, polled, cmd, run, saw>>

---------------------------------------------------------------------------
(* cmd_cancel.                                                             *)

CancelNothing(c) ==
  /\ ~Open
  /\ Invoke(c, "cancel") /\ End(c, "start", "traceback")
  /\ UNCHANGED <<server, polled, run, saw, of>>

Cancel(c) ==
  /\ Open
  /\ Invoke(c, "cancel") /\ End(c, "start", "cancel_requested")
  /\ cancels' = cancels \cup {latest}
  /\ run' = [run EXCEPT ![c] = latest]
  /\ UNCHANGED <<latest, status, polled, saw, of>>

Terminate(c) ==
  /\ Open
  /\ Invoke(c, "cancel") /\ End(c, "start", "terminated")
  /\ status' = [status EXCEPT ![latest] = "terminated"]
  /\ run' = [run EXCEPT ![c] = latest]
  /\ UNCHANGED <<latest, cancels, polled, saw, of>>

---------------------------------------------------------------------------
(* The worker, as the server sees it.                                      *)

\* a run closes; as canceled only if somebody has asked for it
Close ==
  /\ polled /\ Open
  /\ \/ \E s \in {"completed", "failed"} :
          status' = [status EXCEPT ![latest] = s]
     \/ /\ latest \in cancels
        /\ status' = [status EXCEPT ![latest] = "canceled"]
  /\ UNCHANGED <<latest, cancels, polled, command>>

WorkerComesOrGoes ==
  /\ polled' = ~polled
  /\ UNCHANGED <<server, command>>

Start(c) ==
  \/ SubmitRefused(c) \/ Submit(c) \/ Wait(c) \/ Describe(c)
  \/ CancelNothing(c) \/ Cancel(c) \/ Terminate(c)

GoOn(c) == Result(c) \/ Timeout(c) \/ Fetch(c) \/ CountPollers(c) \/ Query(c)

Next ==
  \/ \E c \in Commands : Start(c) \/ GoOn(c)
  \/ Close
  \/ WorkerComesOrGoes

\* The server answers and timeouts expire.  Nothing is assumed of the worker.
Fairness == \A c \in Commands : WF_vars(GoOn(c))

Spec == Init /\ [][Next]_vars /\ Fairness

---------------------------------------------------------------------------
(* Properties.                                                             *)

\* The type invariant.
CliTypeOK ==
  /\ latest \in 0 .. MaxRuns
  /\ status \in [Runs -> Statuses]
  /\ cancels \subseteq Runs
  /\ polled \in BOOLEAN
  /\ cmd \in [Commands -> Subcommands \cup {None}]
  /\ at \in [Commands -> Calls]
  /\ run \in [Commands -> Runs \cup {None}]
  /\ saw \in [Commands -> Statuses \cup {None}]
  /\ of \in [Commands -> Runs \cup {None}]
  /\ says \in [Commands -> Says \cup {None}]

\* What submit --wait and wait print of a run's end is the end of the run they
\* started or found, whatever was submitted under the id meanwhile, and "failed"
\* is never printed of a run that is still open: a script may act on the exit
\* code.
OutcomeIsItsOwn ==
  \A c \in Commands : cmd[c] \in {"submit", "wait"} =>
    /\ says[c] = "succeeded" => status[run[c]] = "completed"
    /\ says[c] = "failed" => status[run[c]] \in Closed \ {"completed"}

\* A status never prints a result or a query's answer of a run older than the
\* one it describes, and a result it prints is a completed run's.
StatusLooksForward ==
  \A c \in Commands : cmd[c] = "status" /\ of[c] # None =>
    /\ of[c] >= run[c]
    /\ says[c] = "succeeded" => status[of[c]] = "completed"
    /\ saw[c] = "completed" => status[run[c]] = "completed"

\* Every command ends, worker or no worker ("say what is true instead of
\* hanging", cmd_status): but a status that has described a completed run and
\* fetches the result of a newer one waits for that without a bound.
CommandsEnd ==
  \A c \in Commands :
    at[c] \notin {"start", "done"}
      ~> at[c] = "done" \/ (cmd[c] = "status" /\ of[c] \notin {run[c], None})

\* The help of --id, cli.py:297, and docs/temporal.md:135: "reusing an OPEN one
\* joins that run": a submit that was given no run has not met an open one.
OpenIdIsJoined ==
  \A c \in Commands : cmd[c] = "submit" /\ run[c] = None => ~Open

\* The same line: "reusing a CLOSED one is refused": no submit starts a second
\* run under the id.
ClosedIdIsRefused ==
  \A c \in Commands : cmd[c] = "submit" => run[c] \in {1, None}

\* The line says both.  This is less, that it is not wrong on both counts at
\* once, and the code breaks even that: start_workflow with the default
\* policies refuses the id of an open run and reuses that of a closed one.
IdHelpHalfRight == OpenIdIsJoined \/ ClosedIdIsRefused

---------------------------------------------------------------------------
(* The inductive invariant behind them (CliProofs).                        *)

\* runs have been numbered up to the latest, and only that one can be open
RunsInv ==
  \A r \in Runs :
    /\ r < latest => status[r] \in Closed
    /\ r = latest => status[r] # "none"
    /\ r > latest => status[r] = "none"

\* what a command knows at each of its steps, and what it has printed
Told(c) ==
  /\ cmd[c] = None <=> at[c] = "start"
  /\ at[c] # "done" => says[c] = None
  /\ cmd[c] = None => run[c] = None /\ of[c] = None /\ saw[c] = None
  /\ run[c] # None => run[c] <= latest
  /\ of[c] # None => run[c] # None /\ run[c] <= of[c] /\ of[c] <= latest
  /\ at[c] \in {"fetch", "count", "query"} => cmd[c] = "status" /\ run[c] # None
  /\ at[c] = "result" => of[c] # None
  /\ cmd[c] \in {"submit", "wait"} /\ of[c] # None => of[c] = run[c]
  /\ says[c] = "succeeded" => of[c] # None /\ status[of[c]] = "completed"
  /\ says[c] = "failed" =>
       of[c] # None /\ status[of[c]] \in Closed \ {"completed"}
  /\ saw[c] = "completed" => run[c] # None /\ status[run[c]] = "completed"

CInv ==
  /\ CliTypeOK /\ RunsInv
  /\ \A c \in Commands : Told(c)

============================================================================
