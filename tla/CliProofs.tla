----------------------------- MODULE CliProofs -----------------------------
(***************************************************************************)
(* Proofs about Cli: for any number of commands, runs and interleavings     *)
(* what submit --wait and wait say of a run is true of the run they were    *)
(* pinned to, and a status never looks back.                                *)
(*                                                                         *)
(* The argument: runs are only added and a closed one keeps its status      *)
(* (RunsInv), so what a command has been told stays true (OthersAreTold);   *)
(* what is left is each command's own step (Told).                          *)
(***************************************************************************)
EXTENDS Cli, TLAPS

\* Only the command c goes a step; of the server, runs are only added, and a
\* closed one stays as it is.
OnlyMoves(c) ==
  /\ \A d \in Commands \ {c} :
       /\ cmd'[d] = cmd[d] /\ at'[d] = at[d] /\ run'[d] = run[d]
       /\ saw'[d] = saw[d] /\ of'[d] = of[d] /\ says'[d] = says[d]
  /\ latest <= latest'
  /\ \A r \in Runs : status[r] \in Closed => status'[r] = status[r]

\* None is no run, no subcommand and no state.
LEMMA NoneIsApart ==
  /\ None \notin Nat
  /\ None \notin {"submit", "wait", "status", "cancel"}
  /\ None \notin {"succeeded", "failed", "completed"}
PROOF
  BY CliAssumption DEF Subcommands, Says, Statuses, Closed

\* What another command has been told stays true when c goes a step.
LEMMA OthersAreTold ==
  ASSUME CInv, CliTypeOK', NEW c \in Commands, OnlyMoves(c)
  PROVE  \A d \in Commands \ {c} : Told(d)'
PROOF
  <1> SUFFICES ASSUME NEW d \in Commands \ {c} PROVE Told(d)'
    OBVIOUS
  <1>1. Told(d)
    BY DEF CInv
  <1>2. /\ run[d] \in Runs \cup {None} /\ of[d] \in Runs \cup {None}
        /\ latest \in Nat /\ latest' \in Nat
    BY CliAssumption DEF CInv, CliTypeOK, Runs
  <1>3. /\ cmd'[d] = cmd[d] /\ at'[d] = at[d] /\ run'[d] = run[d]
        /\ saw'[d] = saw[d] /\ of'[d] = of[d] /\ says'[d] = says[d]
    BY DEF OnlyMoves
  <1>4. \A r \in Runs : status[r] \in Closed => status'[r] = status[r]
    BY DEF OnlyMoves
  <1>5. latest <= latest'
    BY DEF OnlyMoves
  <1>q. QED
    BY <1>1, <1>2, <1>3, <1>4, <1>5, CliAssumption DEF Told, Closed, Runs

\* So a step of c keeps the invariant if it is told the truth itself.
LEMMA CommandStep ==
  ASSUME CInv, NEW c \in Commands, OnlyMoves(c),
         CliTypeOK', RunsInv', Told(c)'
  PROVE  CInv'
PROOF
  <1>1. \A d \in Commands : Told(d)'
    BY OthersAreTold
  <1>q. QED
    BY <1>1 DEF CInv

\* The exception of a submit under the id of an open run changes no run.
LEMMA SubmitRefusedKeepsCInv ==
  ASSUME CInv, NEW c \in Commands, SubmitRefused(c)
  PROVE  CInv'
PROOF
  <1>1. CliTypeOK /\ RunsInv /\ Told(c)
    BY DEF CInv
  <1>3. /\ cmd[c] = None /\ at[c] = "start"
        /\ cmd'[c] = "submit" /\ at'[c] = "done" /\ says'[c] = "traceback"
        /\ run'[c] = run[c] /\ saw'[c] = saw[c] /\ of'[c] = of[c]
    BY <1>1 DEF CliTypeOK, SubmitRefused, Invoke, End, Call, Emit, Keep,
        server
  <1>4. latest' = latest /\ status' = status
    BY DEF SubmitRefused, Open, server
  <1>5. CliTypeOK'
    BY <1>1 DEF CliTypeOK, SubmitRefused, Invoke, End, Call, Emit, Keep,
        server, Runs, Closed, Statuses, Subcommands, Calls, Says
  <1>6. RunsInv'
    BY <1>1, <1>4 DEF CliTypeOK, RunsInv, Runs, Closed
  <1>7. OnlyMoves(c)
    <2>1. \A d \in Commands \ {c} :
            /\ cmd'[d] = cmd[d] /\ at'[d] = at[d] /\ run'[d] = run[d]
            /\ saw'[d] = saw[d] /\ of'[d] = of[d] /\ says'[d] = says[d]
      BY <1>1 DEF CliTypeOK, SubmitRefused, Invoke, End, Call, Emit, Keep,
          server
    <2>2. \A r \in Runs : status[r] \in Closed => status'[r] = status[r]
      BY <1>1, <1>4 DEF CliTypeOK, RunsInv, Runs, Closed
    <2>q. QED
      BY <1>1, <1>3, <1>4, <2>1, <2>2 DEF CliTypeOK, Told, OnlyMoves,
          Runs
  <1>8. Told(c)'
    <2>1. /\ latest \in Nat /\ run[c] \in Nat \cup {None}
          /\ of[c] \in Nat \cup {None}
      BY <1>1, CliAssumption DEF CliTypeOK, Runs
    <2>q. QED
      BY <1>1, <1>3, <1>4, <2>1, NoneIsApart DEF Told, Closed
  <1>q. QED
    BY <1>5, <1>6, <1>7, <1>8, CommandStep

\* A submit is the first to know of the run it starts.
LEMMA SubmitKeepsCInv ==
  ASSUME CInv, NEW c \in Commands, Submit(c)
  PROVE  CInv'
PROOF
  <1>1. CliTypeOK /\ RunsInv /\ Told(c)
    BY DEF CInv
  <1>2. /\ latest + 1 \in Runs
        /\ latest # 0 => status[latest] \in Closed
    BY <1>1, CliAssumption DEF CliTypeOK, Submit, Open, Runs, RunsInv, Statuses
  <1>3. /\ cmd[c] = None /\ at[c] = "start"
        /\ cmd'[c] = "submit" /\ run'[c] = latest + 1 /\ saw'[c] = saw[c]
        /\ \/ at'[c] = "done" /\ says'[c] = "submitted" /\ of'[c] = of[c]
           \/ at'[c] = "result" /\ says'[c] = says[c] /\ of'[c] = latest + 1
    BY <1>1, <1>2 DEF CliTypeOK, Submit, Invoke, End, Call, Emit, Keep, server
  <1>4. /\ latest' = latest + 1
        /\ status' = [status EXCEPT ![latest + 1] = "running"]
    BY DEF Submit, Open, server
  <1>5. CliTypeOK'
    <2>1. cmd' \in [Commands -> Subcommands \cup {None}]
      BY <1>1 DEF CliTypeOK, Submit, Invoke, Subcommands
    <2>2. at' \in [Commands -> Calls]
      BY <1>1 DEF CliTypeOK, Submit, Call, End, Calls
    <2>3. says' \in [Commands -> Says \cup {None}]
      BY <1>1 DEF CliTypeOK, Submit, End, Emit, Says
    <2>4. /\ run' \in [Commands -> Runs \cup {None}]
          /\ of' \in [Commands -> Runs \cup {None}]
      BY <1>1, <1>2 DEF CliTypeOK, Submit
    <2>5. saw' \in [Commands -> Statuses \cup {None}]
      BY <1>1, <1>2 DEF CliTypeOK, Submit
    <2>6. /\ latest' \in 0 .. MaxRuns /\ status' \in [Runs -> Statuses]
          /\ cancels' \subseteq Runs /\ polled' \in BOOLEAN
      BY <1>1, <1>2 DEF CliTypeOK, Submit, server, Statuses, Runs
    <2>q. QED
      BY <2>1, <2>2, <2>3, <2>4, <2>5, <2>6 DEF CliTypeOK
  <1>6. RunsInv'
    BY <1>1, <1>2, <1>4 DEF CliTypeOK, RunsInv, Runs, Closed
  <1>7. OnlyMoves(c)
    <2>1. \A d \in Commands \ {c} :
            /\ cmd'[d] = cmd[d] /\ at'[d] = at[d] /\ run'[d] = run[d]
            /\ saw'[d] = saw[d] /\ of'[d] = of[d] /\ says'[d] = says[d]
      BY <1>1 DEF CliTypeOK, Submit, Invoke, End, Call, Emit, Keep, server
    <2>2. \A r \in Runs : status[r] \in Closed => status'[r] = status[r]
      BY <1>1, <1>2, <1>4 DEF CliTypeOK, RunsInv, Runs, Closed
    <2>q. QED
      BY <1>1, <1>2, <1>3, <1>4, <2>1, <2>2 DEF CliTypeOK, Told, OnlyMoves, Runs
  <1>8. Told(c)'
    <2>1. /\ latest \in Nat /\ run[c] \in Nat \cup {None}
          /\ of[c] \in Nat \cup {None}
      BY <1>1, CliAssumption DEF CliTypeOK, Runs
    <2>q. QED
      BY <1>1, <1>2, <1>3, <1>4, <2>1, NoneIsApart DEF Told, Closed
  <1>q. QED
    BY <1>5, <1>6, <1>7, <1>8, CommandStep

\* A wait is pinned to the run that is the latest when it asks.
LEMMA WaitKeepsCInv ==
  ASSUME CInv, NEW c \in Commands, Wait(c)
  PROVE  CInv'
PROOF
  <1>1. CliTypeOK /\ RunsInv /\ Told(c)
    BY DEF CInv
  <1>2. latest # 0 => latest \in Runs
    BY <1>1, CliAssumption DEF CliTypeOK, Runs
  <1>3. /\ cmd[c] = None /\ at[c] = "start"
        /\ cmd'[c] = "wait" /\ saw'[c] = saw[c]
        /\ \/ /\ at'[c] = "done" /\ says'[c] = "traceback"
              /\ run'[c] = run[c] /\ of'[c] = of[c]
           \/ /\ latest # 0 /\ at'[c] = "result" /\ says'[c] = says[c]
              /\ run'[c] = latest /\ of'[c] = latest
    BY <1>1, <1>2 DEF CliTypeOK, Wait, Invoke, End, Call, Emit, Keep, server
  <1>4. latest' = latest /\ status' = status
    BY DEF Wait, Open, server
  <1>5. CliTypeOK'
    <2>1. cmd' \in [Commands -> Subcommands \cup {None}]
      BY <1>1 DEF CliTypeOK, Wait, Invoke, Subcommands
    <2>2. at' \in [Commands -> Calls]
      BY <1>1 DEF CliTypeOK, Wait, Call, End, Calls
    <2>3. says' \in [Commands -> Says \cup {None}]
      BY <1>1 DEF CliTypeOK, Wait, End, Emit, Says
    <2>4. /\ run' \in [Commands -> Runs \cup {None}]
          /\ of' \in [Commands -> Runs \cup {None}]
      BY <1>1, <1>2 DEF CliTypeOK, Wait
    <2>5. saw' \in [Commands -> Statuses \cup {None}]
      BY <1>1, <1>2 DEF CliTypeOK, Wait
    <2>6. /\ latest' \in 0 .. MaxRuns /\ status' \in [Runs -> Statuses]
          /\ cancels' \subseteq Runs /\ polled' \in BOOLEAN
      BY <1>1, <1>2 DEF CliTypeOK, Wait, server, Statuses, Runs
    <2>q. QED
      BY <2>1, <2>2, <2>3, <2>4, <2>5, <2>6 DEF CliTypeOK
  <1>6. RunsInv'
    BY <1>1, <1>2, <1>4 DEF CliTypeOK, RunsInv, Runs, Closed
  <1>7. OnlyMoves(c)
    <2>1. \A d \in Commands \ {c} :
            /\ cmd'[d] = cmd[d] /\ at'[d] = at[d] /\ run'[d] = run[d]
            /\ saw'[d] = saw[d] /\ of'[d] = of[d] /\ says'[d] = says[d]
      BY <1>1 DEF CliTypeOK, Wait, Invoke, End, Call, Emit, Keep, server
    <2>2. \A r \in Runs : status[r] \in Closed => status'[r] = status[r]
      BY <1>1, <1>2, <1>4 DEF CliTypeOK, RunsInv, Runs, Closed
    <2>q. QED
      BY <1>1, <1>2, <1>3, <1>4, <2>1, <2>2 DEF CliTypeOK, Told, OnlyMoves, Runs
  <1>8. Told(c)'
    <2>1. /\ latest \in Nat /\ run[c] \in Nat \cup {None}
          /\ of[c] \in Nat \cup {None}
      BY <1>1, CliAssumption DEF CliTypeOK, Runs
    <2>q. QED
      BY <1>1, <1>2, <1>3, <1>4, <2>1, NoneIsApart DEF Told, Closed
  <1>q. QED
    BY <1>5, <1>6, <1>7, <1>8, CommandStep

\* A result is printed of a run that has closed as it says.
LEMMA ResultKeepsCInv ==
  ASSUME CInv, NEW c \in Commands, Result(c)
  PROVE  CInv'
PROOF
  <1>1. CliTypeOK /\ RunsInv /\ Told(c)
    BY DEF CInv
  <1>2. CliTypeOK'
    BY <1>1 DEF CliTypeOK, Result, Open, Invoke, End, Call, Emit, Keep,
        server, Runs, Closed, Statuses, Subcommands, Calls, Says
  <1>3. RunsInv'
    BY <1>1 DEF RunsInv, Result, Invoke, End, Call, Emit, Keep, server
  <1>4. OnlyMoves(c)
    BY <1>1, CliAssumption DEF CliTypeOK, Told, OnlyMoves, Result,
        Invoke, End, Call, Emit, Keep, server
  <1>5. Told(c)'
    BY <1>1, CliAssumption DEF CliTypeOK, RunsInv, Told, Result, Invoke, End,
        Call, Emit, Keep, server, Runs, Closed, Statuses, Subcommands, Calls,
        Says
  <1>q. QED
    BY <1>2, <1>3, <1>4, <1>5, CommandStep

\* A timeout says nothing of the run.
LEMMA TimeoutKeepsCInv ==
  ASSUME CInv, NEW c \in Commands, Timeout(c)
  PROVE  CInv'
PROOF
  <1>1. CliTypeOK /\ RunsInv /\ Told(c)
    BY DEF CInv
  <1>2. CliTypeOK'
    BY <1>1 DEF CliTypeOK, Timeout, Open, Invoke, End, Call, Emit, Keep,
        server, Runs, Closed, Statuses, Subcommands, Calls, Says
  <1>3. RunsInv'
    BY <1>1 DEF RunsInv, Timeout, Invoke, End, Call, Emit, Keep, server
  <1>4. OnlyMoves(c)
    BY <1>1, CliAssumption DEF CliTypeOK, Told, OnlyMoves, Timeout,
        Invoke, End, Call, Emit, Keep, server
  <1>5. Told(c)'
    BY <1>1, CliAssumption DEF CliTypeOK, RunsInv, Told, Timeout, Invoke, End,
        Call, Emit, Keep, server, Runs, Closed, Statuses, Subcommands, Calls,
        Says
  <1>q. QED
    BY <1>2, <1>3, <1>4, <1>5, CommandStep

\* A status describes the latest run.
LEMMA DescribeKeepsCInv ==
  ASSUME CInv, NEW c \in Commands, Describe(c)
  PROVE  CInv'
PROOF
  <1>1. CliTypeOK /\ RunsInv /\ Told(c)
    BY DEF CInv
  <1>2. latest # 0 => latest \in Runs
    BY <1>1, CliAssumption DEF CliTypeOK, Runs
  <1>3. /\ cmd[c] = None /\ at[c] = "start"
        /\ cmd'[c] = "status" /\ of'[c] = of[c]
        /\ \/ /\ at'[c] = "done" /\ says'[c] = "no such workflow"
              /\ run'[c] = run[c] /\ saw'[c] = saw[c]
           \/ /\ latest # 0 /\ at'[c] \in {"fetch", "count"} /\ says'[c] = says[c]
              /\ run'[c] = latest
              /\ saw'[c] = "completed" => status[latest] = "completed"
    BY <1>1, <1>2 DEF CliTypeOK, Describe, Invoke, End, Call, Emit, Keep,
        server
  <1>4. latest' = latest /\ status' = status
    BY DEF Describe, Open, server
  <1>5. CliTypeOK'
    <2>1. cmd' \in [Commands -> Subcommands \cup {None}]
      BY <1>1 DEF CliTypeOK, Describe, Invoke, Subcommands
    <2>2. at' \in [Commands -> Calls]
      BY <1>1 DEF CliTypeOK, Describe, Call, End, Calls
    <2>3. says' \in [Commands -> Says \cup {None}]
      BY <1>1 DEF CliTypeOK, Describe, End, Emit, Says
    <2>4. /\ run' \in [Commands -> Runs \cup {None}]
          /\ of' \in [Commands -> Runs \cup {None}]
      BY <1>1, <1>2 DEF CliTypeOK, Describe
    <2>5. saw' \in [Commands -> Statuses \cup {None}]
      BY <1>1, <1>2 DEF CliTypeOK, Describe
    <2>6. /\ latest' \in 0 .. MaxRuns /\ status' \in [Runs -> Statuses]
          /\ cancels' \subseteq Runs /\ polled' \in BOOLEAN
      BY <1>1, <1>2 DEF CliTypeOK, Describe, server, Statuses, Runs
    <2>q. QED
      BY <2>1, <2>2, <2>3, <2>4, <2>5, <2>6 DEF CliTypeOK
  <1>6. RunsInv'
    BY <1>1, <1>2, <1>4 DEF CliTypeOK, RunsInv, Runs, Closed
  <1>7. OnlyMoves(c)
    <2>1. \A d \in Commands \ {c} :
            /\ cmd'[d] = cmd[d] /\ at'[d] = at[d] /\ run'[d] = run[d]
            /\ saw'[d] = saw[d] /\ of'[d] = of[d] /\ says'[d] = says[d]
      BY <1>1 DEF CliTypeOK, Describe, Invoke, End, Call, Emit, Keep, server
    <2>2. \A r \in Runs : status[r] \in Closed => status'[r] = status[r]
      BY <1>1, <1>2, <1>4 DEF CliTypeOK, RunsInv, Runs, Closed
    <2>3. latest <= latest'
      BY <1>1, <1>4 DEF CliTypeOK
    <2>4. cmd'[c] # "submit"
      BY <1>3
    <2>q. QED
      BY <2>1, <2>2, <2>3, <2>4 DEF OnlyMoves
  <1>8. Told(c)'
    <2>1. /\ latest \in Nat /\ run[c] \in Nat \cup {None}
          /\ of[c] \in Nat \cup {None}
      BY <1>1, CliAssumption DEF CliTypeOK, Runs
    <2>2. cmd'[c] # None /\ at'[c] # "start"
      BY <1>3, NoneIsApart
    <2>3. at'[c] # "done" => says'[c] = None
      BY <1>1, <1>3 DEF Told
    <2>4. of'[c] = None
      BY <1>1, <1>3 DEF Told
    <2>5. run'[c] # None => run'[c] <= latest'
      <3>1. run'[c] = None \/ run'[c] = latest
        BY <1>1, <1>3 DEF Told
      <3>2. latest <= latest'
        BY <1>4, <2>1
      <3>q. QED
        BY <3>1, <3>2
    <2>6. at'[c] \in {"fetch", "count", "query"}
            => cmd'[c] = "status" /\ run'[c] # None
      BY <1>3, <2>1, NoneIsApart
    <2>7. says'[c] \notin {"succeeded", "failed"} /\ at'[c] # "result"
      BY <1>1, <1>3, NoneIsApart DEF Told
    <2>8. saw'[c] = "completed" => run'[c] # None /\ status'[run'[c]] = "completed"
      BY <1>1, <1>3, <1>4, <2>1, NoneIsApart DEF Told
    <2>q. QED
      BY <2>2, <2>3, <2>4, <2>5, <2>6, <2>7, <2>8 DEF Told
  <1>q. QED
    BY <1>5, <1>6, <1>7, <1>8, CommandStep

\* The run fetched is that one or a newer one.
LEMMA FetchKeepsCInv ==
  ASSUME CInv, NEW c \in Commands, Fetch(c)
  PROVE  CInv'
PROOF
  <1>1. CliTypeOK /\ RunsInv /\ Told(c)
    BY DEF CInv
  <1>2. latest \in Runs
    BY <1>1, CliAssumption DEF CliTypeOK, Told, Fetch, Call, End, Runs
  <1>3. /\ at[c] = "fetch"
        /\ cmd'[c] = cmd[c] /\ run'[c] = run[c] /\ saw'[c] = saw[c]
        /\ at'[c] = "result" /\ says'[c] = says[c] /\ of'[c] = latest
    BY <1>1, <1>2 DEF CliTypeOK, Fetch, Invoke, End, Call, Emit, Keep, server
  <1>4. latest' = latest /\ status' = status
    BY DEF Fetch, Open, server
  <1>5. CliTypeOK'
    BY <1>1, <1>2 DEF CliTypeOK, Fetch, Invoke, End, Call, Emit, Keep, server,
        Runs, Closed, Statuses, Subcommands, Calls, Says
  <1>6. RunsInv'
    BY <1>1, <1>2, <1>4 DEF CliTypeOK, RunsInv, Runs, Closed
  <1>7. OnlyMoves(c)
    <2>1. \A d \in Commands \ {c} :
            /\ cmd'[d] = cmd[d] /\ at'[d] = at[d] /\ run'[d] = run[d]
            /\ saw'[d] = saw[d] /\ of'[d] = of[d] /\ says'[d] = says[d]
      BY <1>1 DEF CliTypeOK, Fetch, Invoke, End, Call, Emit, Keep, server
    <2>2. \A r \in Runs : status[r] \in Closed => status'[r] = status[r]
      BY <1>1, <1>2, <1>4 DEF CliTypeOK, RunsInv, Runs, Closed
    <2>q. QED
      BY <1>1, <1>2, <1>3, <1>4, <2>1, <2>2 DEF CliTypeOK, Told, OnlyMoves, Runs
  <1>8. Told(c)'
    <2>1. /\ latest \in Nat /\ run[c] \in Nat \cup {None}
          /\ of[c] \in Nat \cup {None}
      BY <1>1, CliAssumption DEF CliTypeOK, Runs
    <2>q. QED
      BY <1>1, <1>2, <1>3, <1>4, <2>1, NoneIsApart DEF Told, Closed
  <1>q. QED
    BY <1>5, <1>6, <1>7, <1>8, CommandStep

\* Counting the pollers says nothing of the run.
LEMMA CountPollersKeepsCInv ==
  ASSUME CInv, NEW c \in Commands, CountPollers(c)
  PROVE  CInv'
PROOF
  <1>1. CliTypeOK /\ RunsInv /\ Told(c)
    BY DEF CInv
  <1>2. CliTypeOK'
    BY <1>1 DEF CliTypeOK, CountPollers, Open, Invoke, End, Call, Emit, Keep,
        server, Runs, Closed, Statuses, Subcommands, Calls, Says
  <1>3. RunsInv'
    BY <1>1 DEF RunsInv, CountPollers, Invoke, End, Call, Emit, Keep, server
  <1>4. OnlyMoves(c)
    BY <1>1, CliAssumption DEF CliTypeOK, Told, OnlyMoves,
        CountPollers, Invoke, End, Call, Emit, Keep, server
  <1>5. Told(c)'
    BY <1>1, CliAssumption DEF CliTypeOK, RunsInv, Told, CountPollers, Invoke,
        End, Call, Emit, Keep, server, Runs, Closed, Statuses, Subcommands,
        Calls, Says
  <1>q. QED
    BY <1>2, <1>3, <1>4, <1>5, CommandStep

\* A query is answered for the latest run.
LEMMA QueryKeepsCInv ==
  ASSUME CInv, NEW c \in Commands, Query(c)
  PROVE  CInv'
PROOF
  <1>1. CliTypeOK /\ RunsInv /\ Told(c)
    BY DEF CInv
  <1>2. at[c] = "query" /\ latest \in Runs
    BY <1>1, CliAssumption DEF CliTypeOK, Told, Query, Call, End, Runs
  <1>3. /\ at[c] = "query"
        /\ cmd'[c] = cmd[c] /\ run'[c] = run[c] /\ saw'[c] = saw[c]
        /\ at'[c] = "done" /\ says'[c] \in {"answered", "unknown"}
        /\ of'[c] = of[c] \/ of'[c] = latest
    BY <1>1, <1>2 DEF CliTypeOK, Query, Invoke, End, Call, Emit, Keep, server
  <1>4. latest' = latest /\ status' = status
    BY DEF Query, Open, server
  <1>5. CliTypeOK'
    BY <1>1, <1>2 DEF CliTypeOK, Query, Invoke, End, Call, Emit, Keep, server,
        Runs, Closed, Statuses, Subcommands, Calls, Says
  <1>6. RunsInv'
    BY <1>1, <1>2, <1>4 DEF CliTypeOK, RunsInv, Runs, Closed
  <1>7. OnlyMoves(c)
    <2>1. \A d \in Commands \ {c} :
            /\ cmd'[d] = cmd[d] /\ at'[d] = at[d] /\ run'[d] = run[d]
            /\ saw'[d] = saw[d] /\ of'[d] = of[d] /\ says'[d] = says[d]
      BY <1>1 DEF CliTypeOK, Query, Invoke, End, Call, Emit, Keep, server
    <2>2. \A r \in Runs : status[r] \in Closed => status'[r] = status[r]
      BY <1>1, <1>2, <1>4 DEF CliTypeOK, RunsInv, Runs, Closed
    <2>q. QED
      BY <1>1, <1>2, <1>3, <1>4, <2>1, <2>2 DEF CliTypeOK, Told, OnlyMoves, Runs
  <1>8. Told(c)'
    <2>1. /\ latest \in Nat /\ run[c] \in Nat \cup {None}
          /\ of[c] \in Nat \cup {None}
      BY <1>1, CliAssumption DEF CliTypeOK, Runs
    <2>q. QED
      BY <1>1, <1>2, <1>3, <1>4, <2>1, NoneIsApart DEF Told, Closed
  <1>q. QED
    BY <1>5, <1>6, <1>7, <1>8, CommandStep

\* A cancel with nothing open changes nothing.
LEMMA CancelNothingKeepsCInv ==
  ASSUME CInv, NEW c \in Commands, CancelNothing(c)
  PROVE  CInv'
PROOF
  <1>1. CliTypeOK /\ RunsInv /\ Told(c)
    BY DEF CInv
  <1>2. CliTypeOK'
    BY <1>1 DEF CliTypeOK, CancelNothing, Open, Invoke, End, Call, Emit, Keep,
        server, Runs, Closed, Statuses, Subcommands, Calls, Says
  <1>3. RunsInv'
    BY <1>1 DEF RunsInv, CancelNothing, Invoke, End, Call, Emit, Keep, server
  <1>4. OnlyMoves(c)
    BY <1>1, CliAssumption DEF CliTypeOK, Told, OnlyMoves,
        CancelNothing, Invoke, End, Call, Emit, Keep, server
  <1>5. Told(c)'
    BY <1>1, CliAssumption DEF CliTypeOK, RunsInv, Told, CancelNothing, Invoke,
        End, Call, Emit, Keep, server, Runs, Closed, Statuses, Subcommands,
        Calls, Says
  <1>q. QED
    BY <1>2, <1>3, <1>4, <1>5, CommandStep

\* A cancel request changes no status.
LEMMA CancelKeepsCInv ==
  ASSUME CInv, NEW c \in Commands, Cancel(c)
  PROVE  CInv'
PROOF
  <1>1. CliTypeOK /\ RunsInv /\ Told(c)
    BY DEF CInv
  <1>2. latest \in Runs
    BY <1>1, CliAssumption DEF CliTypeOK, Cancel, Open, Runs
  <1>3. /\ cmd[c] = None /\ at[c] = "start"
        /\ cmd'[c] = "cancel" /\ at'[c] = "done" /\ says'[c] = "cancel_requested"
        /\ run'[c] = latest /\ saw'[c] = saw[c] /\ of'[c] = of[c]
    BY <1>1, <1>2 DEF CliTypeOK, Cancel, Invoke, End, Call, Emit, Keep, server
  <1>4. latest' = latest /\ status' = status
    BY DEF Cancel, Open, server
  <1>5. CliTypeOK'
    BY <1>1, <1>2 DEF CliTypeOK, Cancel, Invoke, End, Call, Emit, Keep,
        server, Runs, Closed, Statuses, Subcommands, Calls, Says
  <1>6. RunsInv'
    BY <1>1, <1>2, <1>4 DEF CliTypeOK, RunsInv, Runs, Closed
  <1>7. OnlyMoves(c)
    <2>1. \A d \in Commands \ {c} :
            /\ cmd'[d] = cmd[d] /\ at'[d] = at[d] /\ run'[d] = run[d]
            /\ saw'[d] = saw[d] /\ of'[d] = of[d] /\ says'[d] = says[d]
      BY <1>1 DEF CliTypeOK, Cancel, Invoke, End, Call, Emit, Keep, server
    <2>2. \A r \in Runs : status[r] \in Closed => status'[r] = status[r]
      BY <1>1, <1>2, <1>4 DEF CliTypeOK, RunsInv, Runs, Closed
    <2>q. QED
      BY <1>1, <1>2, <1>3, <1>4, <2>1, <2>2 DEF CliTypeOK, Told, OnlyMoves, Runs
  <1>8. Told(c)'
    <2>1. /\ latest \in Nat /\ run[c] \in Nat \cup {None}
          /\ of[c] \in Nat \cup {None}
      BY <1>1, CliAssumption DEF CliTypeOK, Runs
    <2>q. QED
      BY <1>1, <1>2, <1>3, <1>4, <2>1, NoneIsApart DEF Told, Closed
  <1>q. QED
    BY <1>5, <1>6, <1>7, <1>8, CommandStep

\* A run that is terminated was open, so nobody had been told its end.
LEMMA TerminateKeepsCInv ==
  ASSUME CInv, NEW c \in Commands, Terminate(c)
  PROVE  CInv'
PROOF
  <1>1. CliTypeOK /\ RunsInv /\ Told(c)
    BY DEF CInv
  <1>2. latest \in Runs
    BY <1>1, CliAssumption DEF CliTypeOK, Terminate, Open, Runs
  <1>3. /\ cmd[c] = None /\ at[c] = "start"
        /\ cmd'[c] = "cancel" /\ at'[c] = "done" /\ says'[c] = "terminated"
        /\ run'[c] = latest /\ saw'[c] = saw[c] /\ of'[c] = of[c]
    BY <1>1, <1>2 DEF CliTypeOK, Terminate, Invoke, End, Call, Emit, Keep,
        server
  <1>4. /\ latest' = latest /\ status[latest] = "running"
        /\ status' = [status EXCEPT ![latest] = "terminated"]
    BY DEF Terminate, Open, server
  <1>5. CliTypeOK'
    BY <1>1, <1>2 DEF CliTypeOK, Terminate, Invoke, End, Call, Emit, Keep,
        server, Runs, Closed, Statuses, Subcommands, Calls, Says
  <1>6. RunsInv'
    BY <1>1, <1>2, <1>4 DEF CliTypeOK, RunsInv, Runs, Closed
  <1>7. OnlyMoves(c)
    <2>1. \A d \in Commands \ {c} :
            /\ cmd'[d] = cmd[d] /\ at'[d] = at[d] /\ run'[d] = run[d]
            /\ saw'[d] = saw[d] /\ of'[d] = of[d] /\ says'[d] = says[d]
      BY <1>1 DEF CliTypeOK, Terminate, Invoke, End, Call, Emit, Keep, server
    <2>2. \A r \in Runs : status[r] \in Closed => status'[r] = status[r]
      BY <1>1, <1>2, <1>4 DEF CliTypeOK, RunsInv, Runs, Closed
    <2>q. QED
      BY <1>1, <1>2, <1>3, <1>4, <2>1, <2>2 DEF CliTypeOK, Told, OnlyMoves, Runs
  <1>8. Told(c)'
    <2>1. /\ latest \in Nat /\ run[c] \in Nat \cup {None}
          /\ of[c] \in Nat \cup {None}
      BY <1>1, CliAssumption DEF CliTypeOK, Runs
    <2>q. QED
      BY <1>1, <1>2, <1>3, <1>4, <2>1, NoneIsApart DEF Told, Closed
  <1>q. QED
    BY <1>5, <1>6, <1>7, <1>8, CommandStep

\* A run that closes was open, so nobody had been told its end; and the worker
\* tells the commands nothing when it comes or goes.
LEMMA ServerStepKeepsCInv ==
  ASSUME CInv, Close \/ WorkerComesOrGoes
  PROVE  CInv'
PROOF
  <1>1. CliTypeOK /\ RunsInv /\ \A c \in Commands : Told(c)
    BY DEF CInv
  <1>2. UNCHANGED command /\ latest' = latest
    BY DEF Close, WorkerComesOrGoes, server
  <1>3. \/ status' = status
        \/ /\ latest \in Runs /\ status[latest] = "running"
           /\ \E s \in Closed : status' = [status EXCEPT ![latest] = s]
    <2>1. CASE Close
      <3>1. latest \in Runs /\ status[latest] = "running"
        BY <1>1, <2>1, CliAssumption DEF Close, Open, CliTypeOK, Runs
      <3>q. QED
        BY <2>1, <3>1 DEF Close, Closed
    <2>2. CASE WorkerComesOrGoes
      BY <2>2 DEF WorkerComesOrGoes, server
    <2>q. QED
      BY <2>1, <2>2
  <1>4. \A r \in Runs : status[r] \in Closed => status'[r] = status[r]
    BY <1>1, <1>3 DEF CliTypeOK, Closed
  <1>5. CliTypeOK'
    <2>1. cancels' \subseteq Runs /\ polled' \in BOOLEAN
      BY <1>1 DEF CliTypeOK, Close, WorkerComesOrGoes, server
    <2>2. status' \in [Runs -> Statuses]
      BY <1>1, <1>3 DEF CliTypeOK, Statuses
    <2>q. QED
      BY <1>1, <1>2, <2>1, <2>2 DEF CliTypeOK, command
  <1>6. RunsInv'
    BY <1>1, <1>2, <1>3 DEF CliTypeOK, RunsInv, Runs, Closed
  <1>7. \A c \in Commands : Told(c)'
    <2> SUFFICES ASSUME NEW c \in Commands PROVE Told(c)'
      OBVIOUS
    <2>1. Told(c) /\ run[c] \in Runs \cup {None} /\ of[c] \in Runs \cup {None}
      BY <1>1 DEF CliTypeOK
    <2>q. QED
      BY <1>2, <1>4, <2>1 DEF Told, command, Closed
  <1>q. QED
    BY <1>5, <1>6, <1>7 DEF CInv

\* Nothing has been started and nobody told anything.
LEMMA CliInitInv == Init => CInv
PROOF
  <1> SUFFICES ASSUME Init PROVE CInv
    OBVIOUS
  <1>1. CliTypeOK
    BY CliAssumption DEF Init, CliTypeOK, Statuses, Calls
  <1>2. RunsInv
    BY CliAssumption DEF Init, RunsInv, Runs
  <1>3. \A c \in Commands : Told(c)
    BY NoneIsApart DEF Init, Told
  <1>q. QED
    BY <1>1, <1>2, <1>3 DEF CInv

\* Every step keeps the invariant.
LEMMA CliNextKeepsInv == CInv /\ [Next]_vars => CInv'
PROOF
  <1> SUFFICES ASSUME CInv, [Next]_vars PROVE CInv'
    OBVIOUS
  <1>1. CASE \E c \in Commands : Start(c)
    BY <1>1, SubmitRefusedKeepsCInv, SubmitKeepsCInv, WaitKeepsCInv,
        DescribeKeepsCInv, CancelNothingKeepsCInv, CancelKeepsCInv,
        TerminateKeepsCInv DEF Start
  <1>2. CASE \E c \in Commands : GoOn(c)
    BY <1>2, ResultKeepsCInv, TimeoutKeepsCInv, FetchKeepsCInv,
        CountPollersKeepsCInv, QueryKeepsCInv DEF GoOn
  <1>3. CASE Close \/ WorkerComesOrGoes
    BY <1>3, ServerStepKeepsCInv
  <1>4. CASE UNCHANGED vars
    <2>1. CliTypeOK' /\ RunsInv'
      BY <1>4 DEF CInv, CliTypeOK, RunsInv, vars
    <2>2. \A c \in Commands : Told(c)'
      BY <1>4 DEF CInv, Told, vars
    <2>q. QED
      BY <2>1, <2>2 DEF CInv
  <1>q. QED
    BY <1>1, <1>2, <1>3, <1>4 DEF Next

\* The invariant of the commands and the runs they have been told of.
THEOREM CliInvariance == Spec => []CInv
PROOF
  BY CliInitInv, CliNextKeepsInv, PTL DEF Spec

\* Every variable keeps its type.
THEOREM CliTypeCorrect == Spec => []CliTypeOK
PROOF
  <1>1. CInv => CliTypeOK
    BY DEF CInv
  <1>q. QED
    BY <1>1, CliInvariance, PTL

\* However many runs are started under the id meanwhile, "succeeded" and
\* "failed" are said of a run that has ended so, and of the command's own.
THEOREM OutcomesAreTrue == Spec => []OutcomeIsItsOwn
PROOF
  <1>1. CInv => OutcomeIsItsOwn
    <2> SUFFICES ASSUME CInv, NEW c \in Commands, cmd[c] \in {"submit", "wait"}
                 PROVE  /\ says[c] = "succeeded" => status[run[c]] = "completed"
                        /\ says[c] = "failed" =>
                             status[run[c]] \in Closed \ {"completed"}
      BY DEF OutcomeIsItsOwn
    <2>1. Told(c)
      BY DEF CInv
    <2>q. QED
      BY <2>1 DEF Told
  <1>q. QED
    BY <1>1, CliInvariance, PTL

\* The result or answer of a status is of the run it describes or a newer one.
THEOREM StatusNeverLooksBack == Spec => []StatusLooksForward
PROOF
  <1>1. CInv => StatusLooksForward
    <2> SUFFICES ASSUME CInv, NEW c \in Commands,
                        cmd[c] = "status", of[c] # None
                 PROVE  /\ of[c] >= run[c]
                        /\ says[c] = "succeeded" => status[of[c]] = "completed"
                        /\ saw[c] = "completed" => status[run[c]] = "completed"
      BY DEF StatusLooksForward
    <2>1. Told(c) /\ of[c] \in Nat /\ run[c] \in Nat
      BY CliAssumption DEF CInv, CliTypeOK, Told, Runs
    <2>q. QED
      BY <2>1 DEF Told
  <1>q. QED
    BY <1>1, CliInvariance, PTL

============================================================================
