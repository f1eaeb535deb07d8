# A TLA+ model of moss-tts-api

moss-tts-api is an OpenAI-compatible speech server around one resident
MOSS-TTS model (`app/`), and a Temporal worker that renders batches of clips
through it and stores them in a bucket (`moss_temporal/`).  This directory
models the parts whose correctness depends on interleaving, failure and time,
checks them with TLC on small instances, and proves what matters most with
TLAPS for every instance.

## Inventory

| component | state | operations | what makes it correct |
|---|---|---|---|
| engine (`app/engine.py`) | resident model and its id, loading id, idle clock, the RLock, the reaper thread and its stop event, what the device holds | generate (`synthesize`, `synthesize_sound_effect`, `design_voice`), `ensure_loaded`, `preload_async`, `unload_if_idle`, `_ensure_reaper`, `stop_reaper`, `idle_seconds` | no swap under a generate; one model on the device; a failure at any line leaves a usable slot; an idle model goes, a used one stays |
| shutdown (`app/shutdown.py`, `app/main.py`) | reaper, joblib worker pool | `shutdown`, `shutdown_worker_pool` | returns whatever is wedged; reaper before pool |
| routes (`app/routes.py`) | none of their own: the engine, the voices directory | speech, clone, voice-design, sound-effect, preload, health, voices | answers agree with the state they describe |
| voices (`app/routes.py`) | files in `voices_dir`, temporary files | upload, list, resolve, clone | only validated clips are in place; a request hears a whole clip of its name; the answer says what was replaced |
| workflow (`moss_temporal/workflows.py`, `shared.py`) | clips done, result, cancellation | run, status query, cancel | every run closes; the result describes the store |
| activity (`activities.py`, `tts.py`) | heartbeat, helper thread, HTTP request | check, generate, upload | at most one effective upload per clip |
| storage (`storage.py`) | bucket objects with their owner | conditional `put`, `owner_of` | an object belongs to the run that claimed it first |
| worker (`worker.py`) | one activity slot | start-up check, poll | one generation at a time |
| CLI (`cli.py`) | none: runs, at the Temporal server | submit, status, wait, cancel, ls, health | the exit code is about the command's own run; it never hangs |
| scripts (`e2e.py`, `fake_worker.py`) | a polling loop | preload, poll, judge | the verdict matches the server |
| pure functions | none | `resolve_model_id`, `_build_user_message`, `validate`, `duration_seconds`, `_reaper_tick`, `encode_wav` | bounds and fallbacks |
| configuration, auth, packaging | none | parse, compare, build | |

How they interact: routes run on one event-loop thread and hand generates to
executor threads (`asyncio.to_thread`); a preload is a daemon thread of its
own; the reaper is another.  They meet in the engine's lock, and in fields that
are read without it (`_model_id`, `_loading_id`, `_model`, `_last_used`,
`_reaper`).  The lifespan calls `shutdown` on the event loop when uvicorn has
drained the connections.  The Temporal worker reaches the server over HTTP only,
and its attempts meet in the bucket.  Uploads of voices and the engine's threads
meet in `voices_dir`; commands of the CLI meet in the runs of a workflow id; the
script `e2e.py` judges a load by two fields of `/health`.

What is hard: unlocked reads beside locked writes; a swap that can raise at
every line; a reaper whose decision is stale by the time it has the lock; daemon
threads that outlive the shutdown that was meant to follow them; retries and
zombie attempts that put one object; cancellation racing an upload; checks made
before an await and used after it; a workflow id that means another run at the
next call.
`PROJECT.json` lists each hazard at its line with the properties that cover it.

## Modules

| module | models |
|---|---|
| `Engine` | `app/engine.py`, and of `app/routes.py` and `app/main.py` what touches the engine |
| `ModelSlot` | the abstract promise: a slot that changes only while nobody uses it |
| `EngineProofs` | theorems about `Engine` |
| `Shutdown` | `app/shutdown.py` composed with the running `Engine` |
| `ShutdownProofs` | theorems about `Shutdown`, on top of `EngineProofs` |
| `EndToEnd` | the polling loop of `scripts/e2e.py` and the `/health` handler, composed with the running `Engine` |
| `EndToEndProofs` | theorems about `EndToEnd`, on top of `EngineProofs` |
| `Voices` | the voice routes, `speech` and `clone` of `app/routes.py`, with the files they share |
| `VoiceBook` | the abstract promise: a name is a register that an upload writes in one step, and its answer is about that step |
| `VoicesProofs` | theorems about `Voices` |
| `Cli` | the subcommands of `moss_temporal/cli.py` that act on one workflow id |
| `CliProofs` | theorems about `Cli` |
| `Batch` | `moss_temporal/`: workflow, activity attempts, worker processes, the bucket, and what Temporal does between them |
| `ClipStore` | the abstract promise: a key is claimed once, and a run advertises only its own objects |
| `BatchProofs`, `AttemptProofs` | theorems about `Batch`; the second about its attempts, on top of the first |
| `MCEngine`, `MCShutdown`, `MCBatch`, `MCVoices`, `MCCli` | the modules the `.cfg` files are run on |

### Engine

Threads are `Callers` (a request inside one of the three generate methods),
`Loaders` (the thread of a `preload_async`), `Reapers` (thread objects of
`_ensure_reaper`) and the event loop, whose state is `loop`.  `pc[t]` is the
next step of a thread, `want[t]` the model it was called with.  A step is what
happens between two points where another thread may run and see a difference:
each unlocked read is a step, each of the assignments of `_unload_resident` and
of the end of a load is one (so readers without the lock see the slot half
changed), and what the code or its tests expect to raise has a branch that does:
the disk check, `from_pretrained`, the cache sweep, the model call, and the two
methods that start and stop the reaper.  Two reads in a row are one step where
nothing can tell them apart: the two None checks of `idle_seconds` (`ReaperPeeks`,
`HealthSeesModel`).

- `modelId`, `model`, `loadingId`, `idle` are `_model_id` (with `_kind`),
  `_model` (with `_processor`), `_loading_id` and the age of `_last_used`.
  `owner` and `depth` are the RLock: a generate holds it once around
  everything and a second time inside `ensure_loaded`.
- `idle` counts ticks since the last touch and stops at `IdleTimeout`: the code
  compares it with the timeout and nothing else.  `IdleTimeout = 0` disables the
  reaper as `idle_unload_seconds = 0` does.
- `device[m]` is what the accelerator holds of model `m`: `live` while `_model`
  refers to it, `dropped` when it does not any more and the weights sit in
  reference cycles, `stranded` when a load that raised left some there.  A
  collection makes the last two `absent`; `CyclicGC` is the interpreter's own,
  at any time or never.
- `_ensure_reaper` and `stop_reaper` share `_reaper` and no lock: the one runs in
  the thread that loads, the other on the event loop, and preload threads are not
  waited for.  Each read and each assignment is a step.  `EnsureReaperLooks` and
  `EnsureReaperAsks` are the two reads of the `if`; `EnsureReaperCreates` assigns a
  thread object that is not started yet (`pc` is `new`, and `is_alive()` says no),
  `EnsureReaperStarts` starts it.  If `stop_reaper` clears `_reaper` in between, asking
  or starting None raises out of `ensure_loaded` with the model in place
  (`unwatched`, and `EnsureReaperLost` for the thread object nobody starts).  On the
  other side `StopReaper` sets the event, `LookForReaper` and `JoinReaper` read
  `_reaper`; `JoinRaises` is the RuntimeError of joining a thread that is not started,
  and `loop` is then `raised`; `JoinReturns` and `ForgetReaper` are the rest.
- `Exited` says that the process may stop once shutdown is over; the other
  threads go on until it does, as daemon threads do.

The two generate paths for speech and design and the one for sound effects take
the same steps on the engine's state and are one action sequence
(`EnterGenerate` ... `ReturnAudio`); they differ in the data of the model call.

### Shutdown

`Shutdown` extends `Engine` with the three variables of
`shutdown_worker_pool`.  The engine goes on meanwhile (`EngineGoesOn`): uvicorn
drains connections but nobody waits for preload threads.  The pool is external:
it may be missing, exit when asked, or be wedged, and closing it may raise on
either path.  `ReaperStopped` and `CatchReaper` are the two ways past `stop_reaper`: it
has returned, or it has raised and the except clause of `shutdown` goes on to the pool.
The variant without that clause (`LetRaise`) breaks both `PoolClosedAtExit` and
`ShutdownReturns`.

`ReaperEnds` is about what follows: a reaper that was at the lock when the join
gave up goes through with its unload and then ends, unless a preload that is
loading at that moment clears the stop event and starts another (which the code
allows, against its comment "Reaper first", `shutdown.py:82`).  `Winding` is the
state without such a preload, and `StoppedForGood` the part of it that is about
single steps: it does not end, and no reaper starts in it.

### Voices

`store` is the file under each path: a voice, the temporary file of an upload (a
`*.wav` in `voices_dir` as the voices are), or the one of a clone.  A file is
half-written, whole, or whole and of an accepted length, and names who wrote it.

- An upload is a coroutine with one await, for its body (`Arrive`, then `Body`).
  From there on it blocks the event loop, ffmpeg included: `loop` names it until
  it answers, and no other handler takes a step.  The steps in between (`Convert`,
  `Check`, `Replace`, `Finish`) are apart because the engine's threads read files
  meanwhile, and a crash may come.
- `Speak` resolves the voice, `Hear` is the engine's thread opening the file some
  time later.  A clone (`CloneArrive`, `CloneBody`) is a reader whose reference is
  its own temporary file; `Answer` unlinks it, whether it answers with speech or with
  an error.  When the write of its body raises the file stays, since the write comes
  before the `try` (`CloneBody`).  The voice of a speech request is any string, which
  the code puts before `.wav`: `Speak` may name any path there is, the temporary file
  that a crash left and that of another's clone included.
- Clips put into the directory by hand (`Dropped`) are there from the start, and are
  not added later.

`VoiceBook` is what a client may rely on: one step writes the name, and `replaced`
is about that step.

### Cli

Each call of a command to the Temporal server is a step, and between two of them
runs close, start, and the worker comes and goes.  A run is its number; `run[c]` is
the one a command started or was told of, `of[c]` the one its result or answer is
of.  They differ because a handle got by id means whichever run is the latest:
`cmd_status` describes one run and may fetch the result of another, and then waits
for that one without a bound; `CommandsEnd` says that this is the only way a
command can hang.  The server is external: at most one open run under an id, closed
ids can be started again.

### EndToEnd

The engine runs as `Engine` says; the script is one client among others, and the
`/health` handler that answers it reads `_model_id` and `_loading_id` in two steps
between which the threads go on, but not the event loop.  The thread that serves the
script's speech request takes no other request until it has answered (`Taken`): a
second use of the same `c` would be another request in the script's name.  A poll that fails is slept
over and changes nothing.

### Batch

A run is one execution of the workflow; runs of one workflow id have the same
keys, which is how a second run meets the objects of the first.

- `status` and `phase`, `attempt`, `outcome` are what the Temporal server has on
  record of a run and of its one pending activity; `state`, `clips`, `error` are
  the workflow object's `_state`, `_clips`, `_error`.
- `apc[w]` is where the activity thread of worker `w` is in `synthesize_clip`:
  `head` (the HEAD before generating), `wait` (the heartbeat loop around the
  helper thread), `got`, `put`, `who` (the HEAD after a 409 or 412), `report`.
  `slot[w]` is the attempt it runs and `ending[w]` what that returned or raised.
  `abandoned[w]` counts helper threads whose `CancelledError` left them behind.
- `store[k]` is the object under a key: the run that owns it and the attempt whose
  audio it holds.  Objects without an owner tag may be there from the start.
  `late` holds uploads the client has given up on, or died in, that the bucket
  may still do, or drop.
- An attempt that the server has timed out, cancelled or forgotten keeps going.
  `Current` says whether it is still the one on record; once it is not,
  `is_cancelled` *may* become true (`Abandon`, `Discard`) and its answer is
  dropped (`ReportStale`).
- `CancelRun` closes the run at once: the code gives no cancellation type, and the
  default does not wait for the activity to agree.  The branch of `except
  Exception` (`workflows.py:100`) that tells a cancellation from a failure is the difference
  between `CancelRun` and `ActivityFailed`.

External, and modelled from how the code uses it: retries, time-outs and task
tokens of the Temporal server (`Retry` follows the `RetryPolicy` the code gives
it), conditional writes of the bucket (`PutRefused`, and 409 under `Contended`),
the TTS server, which answers, refuses or fails.  Left out: the number of the
heartbeat, audio lengths and the sums over them, and what the SDK tells an activity
when its worker drains on a signal, which this code does not show; a worker
that stops is a `Crash`.

## What the runs check

| run | instance | shows |
|---|---|---|
| `engine` | 2 callers, 2 loaders, 2 reapers, 2 models, timeout 1; about 323 000 states, symmetric | `GenerateHoldsItsModel`, `SlotWhole`, `OneModelOnDevice`, `OneReaper`, `ResidentIsWatched`; the inductive invariant `IInv`; no deadlock |
| `engine_live` | 1 caller, 1 loader, 2 reapers, 2 models, timeout 2; about 115 000 states | `EvictsOnlyIdle`, `LoadingEnds`, `ShutdownCompletes`, `IdleModelEvicted`, and that `Engine` implements `ModelSlot` with its liveness |
| `shutdown` | 1 caller, 1 loader, 2 reapers, 1 model; about 40 000 states | `PoolClosedAtExit`, `ShutdownReturns`, `StoppedForGood`, `ReaperEnds` |
| `health_race` | 1 caller, 1 loader | violated: `/health` can raise while a swap clears the clock |
| `e2e_abort` | 1 caller, 1 loader, 1 model, no reaper | violated: a load that ends between the two reads of `/health` is reported as aborted |
| `voices` | 2 uploads, 2 names, 1 speech or clone request, 1 crash; about 305 000 states | the inductive invariant `VInv`; `OnlyValidated`, `HeardWhole`, `ResolvedStays`, `CloneHearsOwn`, `OneIsFirst`, `ClobberIsTold`, `ImmediatelyUsable`, `AcknowledgedIsSafe`, `EveryRequestEnds`, and that `Voices` implements `VoiceBook` |
| `voices_clobber` | as `voices` | violated: two uploads with `overwrite=false` both succeed |
| `cli` | 3 commands, 2 runs of the id; about 56 000 states | the inductive invariant `CInv`; `OutcomeIsItsOwn`, `StatusLooksForward`, `CommandsEnd` |
| `cli_reuse` | 3 commands, 2 runs | violated: the help of `--id` is wrong on both counts: the id of an open run is refused, not joined, and that of a closed one is started again, not refused |
| `batch` | 2 runs of one id, 1 line, 2 workers, 2 attempts, 1 crash; about 1 050 000 states, symmetric | `ClipsAreOwn`, `CollisionNamesHolder`, and that `Batch` implements `ClipStore` |
| `batch_live` | 1 run, 2 lines, 2 workers, 2 attempts, 1 crash; about 90 000 states | `StrayIsNextLine`, the inductive invariant `BatchInv`; `RunsMoveOn`, `EveryRunCloses`, `SlotComesFree` |
| `batch_duration` | 1 run, 1 line, 2 workers | violated: a clip describes audio that is not the object at its url |

The type invariants are not listed: each is a conjunct of the inductive invariant
of its module, which a run checks.  The runs marked *violated* state what comments of the code say; `PROJECT.json` quotes the
lines under `findings`.  Each property of a passing run is also run against a
broken variant of one action (the definitions marked *variant* in the modules:
a lock around the load only, an id cleared outside the `finally`, a sweep before
the collection, a reaper that trusts its first look, ...), and fails there.

Bounds: two callers and two loaders are enough for a holder of the lock, a
waiter, and a second waiter for the other model or the same one; two models for
a swap; two reapers because a stopped one may still be alive when the next is
started, and never more than that are (an invariant run once by hand: at
`EnsureReaperCreates` there is always a dead thread object that nobody joins; and if
there were none the loading thread would be stuck there, against `LoadingEnds`).  A preload beyond
`Loaders` is not started.  Everything else is finite as it is.

Bounds of `Voices`: two uploads are enough for one that overlaps another between its
check and its replace, two names for one that is not touched, one crash for files
left behind.  One reader is enough for all but a speech request that names the
temporary file of another's clone, which takes two: the proofs of `VoicesProofs` are for
any number, and the safety properties were checked once with two readers and one name
(about 1 220 000 states); with the temporal ones that takes too long for a run kept here.  Of `Cli`: three
commands are enough for one that is between two calls while a second starts
a run and a third ends one, two runs for a handle that changes its meaning.  The run
`cli` needs no `CHECK_DEADLOCK FALSE` since the worker always comes or goes;
`e2e_abort` does, as its script ends.

Bounds of `Batch`: two workers are enough for an attempt that goes on after the
next one has begun, and for two uploads to one key at once; two attempts (the code
has three) for a retry and for running out of retries; two runs of one id for
one that finds the other's objects, during and after its life (the second is
submitted when the first has closed, and the first's attempts may still be at
work then); two lines for an attempt of a line the run has left.  One crash is
enough to lose a report or leave an upload in flight.  `CHECK_DEADLOCK FALSE`:
with every run closed and every slot free there is nothing left to do.

Fairness of the engine: weak fairness of each thread's next step, of the event loop's step
once it has begun one, and of time.  It says that the operating system schedules
threads, that a load and a generate end (a generate by `max_new_tokens`), and
that the clock runs.  Nothing is assumed of the order in which the lock is
handed over (Python's RLock promises none), so no property says that a
particular request is served while others keep arriving; `ShutdownCompletes`
and `IdleModelEvicted` are about the time after they have stopped.
Fairness of the batch: weak fairness of a worker's next step (a call to the TTS
server ends by its own timeout), of a free worker taking a scheduled attempt, of
workflow steps, of a worker being started again (its supervisor's or operator's
doing; `docs/temporal.md` names launchd), and of the timeout of an attempt nobody runs.  Nobody
has to submit, cancel or terminate, no upload in flight has to happen, no attempt
has to succeed, and a timeout may hit an attempt that is alive.
Fairness of the voices: handlers that can go on do, ffmpeg and the engine come to an
end; nobody has to send a request, and a crash may come instead.  Fairness of the
CLI: the Temporal server answers and timeouts expire; nothing is assumed of the
worker, so a command must end without one.
`Shutdown` assumes less: only the event loop and the reaper are scheduled for
sure, so that `ShutdownReturns` holds though a preload hangs in a download with
the lock held.

## What is proved

`EngineProofs`, for any finite or infinite sets of threads and models and any
timeout, from two assumptions: the three kinds of thread are disjoint and
`None` is none of the values (`ThreadsAssumption`), and the timeout is a natural
number (`TimeoutAssumption`).

None of the safety properties is inductive: that the model is the caller's own
during the model call depends on which thread may write the slot, and that on
who can be inside the lock.  `IInv` adds

- `LockInv`: a thread owns the lock exactly when its `pc` is inside the
  with-block, and `depth` is two exactly for a caller inside `ensure_loaded`;
- `CallInv`: threads, the preload request and the join under way have arguments;
- `SlotInv`: the slot is whole with the lock free, and `SlotAt` says step by step
  of the thread that holds it how much of it is in place;
- `DeviceInv`: live weights are the model's, or a load's that is about to be
  published; dropped ones exist only between the drop and the sweep;
- `ReaperInv`: before shutdown there is one reaper, not told to stop, and a model
  has it except between its publication and the reaper's start.

`NextKeepsIInv` goes through every action (the lemmas before it, one per group of
actions); `Invariance` is `Spec => []IInv`.  From it follow `TypeCorrect`,
`GenerateSafe`, `SlotStaysWhole`, `SwapIsClean`, `ReaperIsUnique`,
`ReaperWatches`, `DeviceHoldsOneModel` (two models' weights are never on the device
together: `DeviceInv` puts dropped weights between a drop and its sweep, and
`HolderClearsDevice` shows that a load cannot begin in between), the action
properties `ReaperEvictsOnlyIdle` and `HoldsComeToAnEnd`, and `EngineImplementsSlot`: each step of the engine is a `Load`, an `Evict`, a `Begin`
or an `End` of the slot, or leaves it alone.

`BatchProofs`, for any sets of runs, workers and keys, any number of lines,
attempts and crashes, from three assumptions: the key of a line is a key, and two
lines of a run have different ones (`KeyAssumption`); the bounds are natural
numbers, and the marks `Untagged` and `None` are not runs (`BatchAssumption`);
`None` is none of the values it stands in for (`NoneAssumption`).  Runs of
different ids may share keys in it, or not.

`ClipsAreOwn` is about the store at the time the workflow learns of a clip, which
rests on what the server has recorded, that on what an attempt reported, and that
on what it read of the store a while ago; meanwhile other attempts write.
`BatchInv` ties these together:

- `RunInv`: what is recorded or published of a run's keys is so in the store, and
  the server has a pending activity only of the line the run is at;
- `WorkerInv`: an attempt is of that line or an earlier one, and what it is about to
  report is true of the store;
- `ObjectInv`, and the clause on `late`: objects and uploads in flight are under
  their own key and not above the line of their run.

It is kept because objects are never replaced (`OwnersStay`, `TruthStays`) and a
run only moves to later lines: `WorkersKeep`, `RunsKeep` and `ObjectsKeep` carry over
what a step does not touch, and one lemma per group of actions says what it does.
From `Invariance` follow `BatchTypeCorrect`, `AtMostOneStray`, `CollisionsAreReal`, and
`BatchImplementsClipStore`: an upload is a `Claim`, `AppendClip` an `Advertise`, and the
rest stutters.

`AttemptProofs` is about the numbers of the attempts, which `BatchInv` leaves open.
`AttemptInv` says that what is found of an attempt, in a slot, as an upload in flight, as
an object in the bucket or on record, is of one that has been handed out and will not
be again: `JobsComeFrom` says where each of these comes from in a step, `StepAdvances`
that the record of a run only advances, `SpentStays` that what is spent then stays so.
It rests on how the Temporal server numbers attempts, which is external, and is kept for
what follows with it: `AdvertisesItsOwn` (a clip's object is never of a later attempt than
the clip).  The action property `RunsOnlyMoveOn` comes from `StepAdvances` alone.

`ShutdownProofs` builds on `EngineProofs`: the steps that close the pool leave the
engine's variables alone (`PoolStepsKeepIInv`), so `IInv` holds in the composition;
`PoolInv` adds how far the polite thread and the pool are at each stage.  From
`ShutdownInvariance` follow the types, `PoolIsClosedAtExit`, and that a generate still
in flight keeps its model during shutdown.  `ShutdownRunsTheEngine`: every run of the
composition is a run of the engine, so it keeps what the engine promises, `ModelSlot`
included (`ShutdownKeepsTheSlot`).  `PoolInv` says too that no exception leaves
`shutdown`, with the path on which `stop_reaper` raises among its steps.  `ReapersStopForGood` is `StoppedForGood`, by who may
clear the event: only a loader, and there is none.

`EndToEndProofs` does the same for the script (`EndToEndRunsTheEngine`,
`EndToEndKeepsTheSlot`), though it reports aborts that were none.  What it reports of the
speech is true: `SpeechIsOfTheTarget`, from `SpeakerInv` (the request's thread has the
target as its argument until it has answered) and from `GenerateHoldsItsModel`.

`VoicesProofs`, for any names, uploads, readers and crashes, from
`VoicesAssumption` (voices, uploads and readers are different paths, and none of
them is `Dropped` or `None`) and `NoFileAssumption` (`None` is no file).  What a reader
hears is about a file others replace between resolving and opening; `VInv` adds who
blocks the loop and what that upload's own file is (`LoopInv`: at most one upload is
past its body), what is in place under a name and that the flag is true until
`os.replace` (`PlaceInv`), what the answers of one name's uploads say (`FlagInv`), and
what a reader has resolved (`ReaderInv`), and what becomes of a clone's own file
(`CloneInv`).  From it follow the seven safety properties,
`AcknowledgedClipsAreSafe` (the 409 check does protect a clip acknowledged before the
request came, since a request with overwrite=false for that name is refused at once)
and `VoicesImplementBook`: `Replace` is the book's `Put`, and the flag agrees because
nothing else runs between `Check` and `Replace`.

`CliProofs`, for any number of commands and runs, from `CliAssumption` (`None` is none
of the values).  Runs are only added and a closed one keeps its status (`RunsInv`), so
what a command has been told stays true whatever the others do (`OthersAreTold`); each
command's own step tells it the truth (`Told`).

Model-checked only: the liveness properties (`LoadingEnds`, `ShutdownCompletes`,
`IdleModelEvicted`, `ShutdownReturns`, `ReaperEnds`, `EveryRunCloses`, `SlotComesFree`,
`EveryRequestEnds`, `CommandsEnd`) and the fairness of `ModelSlot`, which are out of the
prover's reach.  What they rest on is proved as far as it is about steps:
`HoldsComeToAnEnd` for the ends of a hold, `ReapersStopForGood` for a reaper that does
not come back, `RunsOnlyMoveOn` for a run that comes closer to its end.

The other way round, `SwapFreesFirst`, `HoldsEnd` and `SpokenByTarget` are proved and
in no run of their own: the first follows from `IInv`, and the other two were
model-checked on the instances of `engine` and `e2e_abort` before they were proved.

## Not modelled, and the plan

Left out for good: audio encoding and mp3 conversion, authentication, parsing of
configuration and arguments, printing, packaging; they keep no state.  The
processor that outlives the lock in `synthesize` is not tracked on the device,
and the failure to start a thread is not modelled.

Of the CLI, `ls` and `health` only read and print; of `e2e.py`, the stages that only
read and the optional ones (one more request each); `fake_worker.py` stands in for
the worker.  `resolve_model_id`, `validate`, `duration_seconds` and the other pure
functions keep no state.  The orderly drain of a worker on a signal is left out:
what its SDK tells an activity then is not in this code, so a worker that stops is a
`Crash`.

Hazards the models reach and no run states, each with its line in `PROJECT.json`:

- When the bucket answers 409 to the first of two concurrent uploads of one run, and
  the HEAD that follows finds nothing, `put` raises a permanent `KeyCollision` about
  an "untagged writer" though nobody else is involved (`WhoElse` with no holder,
  `storage.py:135-142`).  `CollisionNamesHolder` says only that whoever *is* named
  is the holder.
- Polls of preload behind a lock held for another model pile up threads
  (`engine.py:462`), though the comment above it gives the check as the remedy.
- After a load that raised, the next one starts without a collection
  (`engine.py:302`).
- A status that has described a completed run asks for the result by id alone, and may
  wait for a newer run without a bound (`cli.py:186`); `CommandsEnd` leaves it out.
- An activity that is cancelled leaves its helper thread's call at the TTS server
  while the worker takes the next (`activities.py:74`), against `tts.py:55-56`.
- The file of a clone whose body could not be written is never unlinked
  (`routes.py:178`): `CloneHearsOwn` says only that nothing else is left.
- A custom `MODEL_ID` is listed as the default and refused by its own name
  (`engine.py:119`), and `e2e.py` asks for it by name.

What is left of the plan:

1. Bounds of the pure functions (`_reaper_tick`, `validate`, `duration_seconds`)
   against reference definitions.
2. The drain of a worker, with the outcomes its SDK allows as choices.
3. `EndToEnd` with a reaper and with the `--sfx` stage that evicts the model; the
   processor of `synthesize` on the device after the lock is released.
