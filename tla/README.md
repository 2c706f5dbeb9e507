# A formal model of code-sandbox (goboxd)

`goboxd` runs untrusted programs in an nsjail sandbox. Requests reach it in two
ways: synchronously over HTTP (`POST /run`) and asynchronously as SQS messages
that the submission service (or a Java producer outside this repository) queues;
the results of the latter go to Redis, where the submission service reads them.

This directory holds TLA+ models of that program, written from its source, the
TLC configurations that check them on small instances, and TLAPS proofs for all
values of the constants. `PROJECT.json` maps every definition to the lines it
stands for and lists runs, mutants, findings, hazards and theorems.

## 1. The system

### Components, their state and operations

| Component | State | Operations |
|---|---|---|
| Executor (`internal/executor/executor.go`, `stats.go`) | semaphore channel of `MaxConcurrency + QueueDepth` tokens; atomics `total`, `rejected`, `inFlight`; latency ring under a mutex; one job directory per call | `Run`, `IncInFlight`, `DecInFlight`, `IncRejected`, `Observe`, `Snapshot` |
| Verdict of a call (`executor.go` from `runBuild` on, `internal/sandbox`) | the context of the call, the process of nsjail, the test results so far | `runBuild`, `runTest`, `runOne`, `compareOutput`, `rollup`, `sandbox.Run`, `classifyExit`, `cappedBuffer.Write` |
| SQS worker (`internal/worker`, the shutdown in `cmd/goboxd`) | none of its own: a goroutine per poller and one per message; messages in SQS, hashes in Redis | `Start`, `pollLoop`, `handleMessage`, `buildRequest`, `responseToMap`, `writeRedis`, `deleteMessage` |
| Submission ingress (`CodeSumissionService/api/index.py`) | none: SQS and Redis | `create_submission`, `get_submission_result` |
| HTTP API (`internal/api`) | none | `/run`, `/languages`, `/metrics`, `/healthz`, `/readyz`; mapping of errors to status codes |
| Daemon (`cmd/goboxd/main.go`) | root context, directories left under the workspace root | startup sweep, start of server and worker, shutdown |
| Checks and limits of a request (`executor.go` before `MkdirAll`, the arguments of nsjail in `sandbox.go`) | the request | `boundOverrides`, `filterFlags`, `safeName`, the limits `runBuild` and `runOne` pass on |
| Language registry (`internal/registry`) | map of languages, filled once | `LoadDir`, `validate`, `Get`, `List` |
| Configuration (`internal/config`) | none | reads the environment |
| Load generator (`tests/load`), infrastructure (`infra`, Docker files, workflows), language files | - | - |

### How they interact

- HTTP handlers and SQS message handlers are goroutines that call
  `Executor.Run`; they share its semaphore, its statistics and the workspace root.
- `Run` calls `sandbox.Run` once for the build and once per test. What cuts a call
  short is the context it was given: 80 s in the worker, the request timeout in the
  API, or a cancellation (`rootCancel` on SIGINT/SIGTERM, a client that hangs up). It
  kills nsjail, and only nsjail: `cmd.Run` copies the output through pipes and has no
  `WaitDelay`, so it returns when nobody has those pipes open any more.
- Worker, submission service and user communicate through SQS (at least once,
  90 s of invisibility) and the Redis hash `job:{id}` (`HSET` merges fields, TTL
  3600 s). `rootCtx` is also the context of every Redis and SQS call.
- When the process ends, compose restarts it (`restart: unless-stopped`).

### What is hard about it

Concurrency (any number of callers against a channel, three atomics, a mutex and
a reader that takes none of them together); the unwinding order of five defers;
three clocks that race for one process (nsjail's `--time_limit`, `hardCtx`, the
context of the job) with the winner guessed afterwards from an exit code and a
duration; redelivery, crashes and shutdown between any two external calls; writes
that may be applied by halves; limits, buffers and integer conversions at their
edges; timeouts that must fit into each other (80 s in 90 s, 60 s against 10 s, an
hour). `PROJECT.json` ("hazards") lists each with its line and the properties that
would catch it.

### What makes each component correct

- Executor: slots are neither leaked nor given back twice on any return path;
  the gauge and the snapshot are consistent at every instant; a call is refused
  only when the room is full; job directories go with their calls.
- Verdict: "accepted" is earned by every test; what a published verdict blames on a program
  is the program's doing, or at worst nsjail's own failure; a call overruns its deadlines
  only by the time its program holds the output open.
- Worker: every readable job is answered; no message is deleted without a terminal
  status (unless Redis fails); no half-made or interrupted verdict is shown; one
  handler per job while the visibility timeout is respected.
- Ingress and limits: no command gets more than its language allows, whatever way
  the limits took; a client is told that it is at fault only if it is; every test
  sent is run, once, and its result is shown beside its own input.
- Output: what is captured is exactly what fits, and the verdict speaks of that text.
- Daemon: left-over directories are bounded in age, a handler outlasts the
  invisibility of its message only through a slow Redis or SQS or a run that overran
  its context, a shutdown ends.

## 2. The modules

| Module | Models |
|---|---|
| `Admission` | abstract: a room for `Capacity` visitors |
| `Executor` | `Executor.Run` and `Stats`, step by step; implements `Admission` |
| `Judge` | the verdict of one call in time: `sandbox.Run`, `classifyExit`, `runBuild`, the test loop, `rollup`, and what worker and API make of it |
| `Output` | `cappedBuffer.Write` for both streams of a program, `compareOutput` and its normalisations |
| `AtLeastOnce` | abstract: a job is kept until it is answered |
| `Worker` | ingress, SQS, `internal/worker`, Redis, crash, shutdown, restart; implements `AtLeastOnce` |
| `Registry` | operators: `LoadDir`, `validate` |
| `Request` | one request from its client to the arguments of nsjail and back, on both ways in |
| `Daemon` | `main` on the clock: sweep, start, signal, HTTP grace, exit, crash, and the deadlines of the calls alive |
| `MCExecutor`, `MCJudge`, `MCOutput`, `MCWorker`, `MCRequest` | instances for TLC (`Daemon` needs none) |
| `Executor_proofs`, `Judge_proofs`, `Output_proofs`, `Worker_proofs`, `Request_proofs`, `RequestAnswers_proofs`, `Daemon_proofs` | theorems |

The modules cut the program by the question asked, not by file. A call of
`Executor.Run` appears in five of them: who else is inside (`Executor`), how long its
commands run and what they are found guilty of (`Judge`), what they print (`Output`),
with which limits they were started (`Request`), how long it keeps its caller
(`Daemon`). What one leaves open another decides: `Executor` and `Worker` take any
verdict, `Judge` any answer of `compareOutput`, `Daemon` any duration up to the
deadline. Past the deadline a run goes only if its program holds the output open
(`Judge!OverrunIsHeld`); `Holding` says in `Executor` and `Daemon` for which calls that may
happen, and there it may last for ever.

### Executor

`pc[c]` is the place of goroutine `c` inside `Run`; each stage is named for what
it has done last. A step is what Go makes atomic: a channel operation, an atomic
add or load, one critical section, one phase of file-system work. `IncInFlight`
is two adds, hence `IncTotal` and `IncGauge`; `Snapshot` is a locked copy of the
ring and three loads, hence `ScrapeRing`, `ScrapeTotal`, `ScrapeInFlight` (the
load of `rejected` is read by nobody and folded in). The defers run last in,
first out: `RemoveJobDir`, `Observe`, `DecInFlight`, `Release`. `Validate` stands
for all of the early returns before `MkdirAll`; which they are is `Request`. Whether the
sandbox ever answers a caller in `Holding` is left open, as it is in the code. The
durations in the ring are left out; its position and size are kept.

### Judge

Time is counted in ticks from the creation of the context. A step is one whole
sandbox call; everything between two of them takes no time. `SandboxRun(p, limit)`
is the set of answers `sandbox.Run` may give for a program `p` that, left alone,
would run for `p.runs` ticks and exit with `p.code`:

- nothing was started (context over, nsjail not to be run): an error;
- nsjail started but failed by itself (mount, clone, exec) and exited with a status of
  its own, `JailFault`, which the code reads like one of the program;
- nsjail ended before `hardCtx` did: with its program, or through its
  `--time_limit` (looked at once a second, and possibly missed) or `--rlimit_cpu`
  (one second more);
- `hardCtx` ended first: by its own deadline, by that of the caller or by a
  cancellation; `exec.CommandContext` then sends SIGKILL to nsjail. At that very moment
  nsjail may also have ended by itself, with `hardCtx.Err()` already set.

`HardEnd` is the moment `hardCtx` ends, not the end of the call: that comes `Held` ticks
after the end of nsjail, when what the program left behind (`p.holds`) closes the output.
The elapsed time and `hardCtx.Err()` are read only then. `Expiry` says whether `hardCtx` is
found to have ended by a deadline, which `classifyExit` and the check before it turn into
`timedOut` and `oom`. `tests` keeps with every result how its process really ended and for
how long its output was held, `last` the times of the latest call, so that properties can
compare what was said with what happened. Output is abstracted to the three answers
`compareOutput` has. A cancellation is placed before everything else that
happens in its tick: time is continuous in the program, and an event in the same
instant as the cancellation is one on either side of it, which neighbouring ticks
cover.

### Output

A text is a sequence of characters of four classes: a letter, a blank, LF and CR.
`Put(s)` is one `Write` of `io.Copy` to the buffer of stream `s`, with a piece of any
size; the two streams interleave. `printed` keeps all that was written. `Judge` is the
end of a clean run. `ToLF`, `NormalizeStrict` and `NormalizeLoose` are the `strings`
functions written out: each says which places of a text are kept (`Keep`) or where it is cut
(`TrimRight`); `Joined` is `Fields` and `Join` together. The properties compare them with
definitions of another kind (`Agree`: a common prefix with blanks after it; `Spelling`: the
letters of a text, each with the question whether its word goes on).

### Worker

A handler is one goroutine of `handleMessage`, at one of six stages; a step is one
call that leaves the process or one stage of the executor. Errors of `writeRedis`
and `deleteMessage` are logged and ignored in the code, so the handler goes on in
the model too. `Cancelled(h)` is that `rootCtx` is done: then every call fails
without being sent. The pipeline `HSET`, `EXPIRE` is no transaction: a failing
connection applies nothing, or the `HSET` only. `Receive` takes one message; a
batch of ten is ten steps, because nothing the poller does in between is visible.
`PanicJob` is the panic of `responseToMap`, which ends the process with all of its
goroutines.

Each submission has a fresh id, and a message body never changes. `NoTests` are
submit jobs with an empty `testCases` map: the Python ingress requires at least one
test, but `buildRequest` accepts such a job, so only the Java producer can send
one. SQS and Redis themselves are external and modelled from how the code uses
them (`Merge`, `ExpireKey`, `Reappear`, `ReappearLate`, `LoseReceive`).

What needs a clock here is a fault that may or may not be allowed (`FaultKinds`; `struck`
remembers which kinds have happened, so that a property can be stated as long as some have
not): `late` is a handler that outlasts the invisibility of its message, or a duplicate
delivery; `ttl` the end of a key. `Daemon!OverlapIsLate` says when the first can happen.
`told` remembers for which jobs a terminal status was ever published. A run that the 80 s of
the job cut short counts as complete: TIMEOUT is then its proper verdict. Only a run cut by
a cancellation is `interrupted`. That `Run` returns at all is an assumption here, stated
with `Fairness`.

### Registry and Request

A behaviour is one request: a payload for the submission service, or the body of `POST
/run`. `CreateSubmission`, `BuildRequest` and `Respond` are the conversions on the queue's
side, `DecodeRun` and the HTTP codes those of the API; `Validate` is the list of checks in
`Run`, in their order (`Complaint`), `Overload` the refusal before them; `RunBuild` and
`RunTest` append to `jails` the command given to nsjail with its limits. What is kept of the
data is what the properties tell apart: limits with their units (milliseconds, `math.Round`
to seconds, megabytes, kilobytes and back), flags as sets, an input as its text and whether
it ends with a line feed, a file name as safe or not. The map of test cases is a function,
its iteration any order. `languages` is the result of `LoadDir`, or the process does not
start.

### Daemon

`Tick` is the only step that takes time. A call is an HTTP request or a handler; it is
"before", "running" or "after" `Executor.Run`, and only the run has a deadline (`Overdue`),
which a call in `Holding` may overrun for ever. `timer` is what is left of the invisibility
of a message, `strays` are the directories of calls that `Exit` or `Crash` cut (main does
not wait for handlers, and for requests only as long as the grace lasts), by the age of
their mtime. `StartProcess` sweeps and may fail afterwards, as `LoadDir` and `worker.New`
may. The poll loop is `ReceiveFails`, `Resume`, `StopPolling`, `Receive`; a pause may run
out after the signal too.

## 3. The runs

Runs that pass:

| Run | Question | Instance |
|---|---|---|
| `executor` | Are slots, gauge, snapshot and directories consistent in every interleaving? Does a full executor clear, as long as some slot is not held by a program with its output open? Does `Run` implement `Admission`, liveness included? | 3 callers, two of which may be held for ever, 1+1 slots, ring of 2, 4 calls, a scraper |
| `worker` | Does a fault of any kind ever publish an interrupted verdict, or a status without its payload? Does an answer ever change? | an ordinary, a panicking and an invalid job, 1 process, 2 handlers, two faults of six kinds |
| `worker_live` | One handler per job? No deleted message without an answer? Is every readable job answered? Is `AtLeastOnce` implemented? | 2 jobs (one malformed), 2 processes, 2 handlers, two faults out of crash, stop, SQS, late |
| `judge` | Are verdicts earned and in time, is published blame right, by what can a deadline be overrun? | 14 programs, four of them with held output, and failures of nsjail; up to 2 tests, a second of 2 ticks, 5 moments of cancellation |
| `output` | Is exactly what fits captured, and does the verdict speak of that text? | limits 2, 3 and none, 4 characters printed, every expected output up to 3 |
| `request` | Do limits, flags, tests and results survive the way in and out? Is every refusal deserved? | 6 language directories, nearly 30 000 payloads, at most 2 tests allowed |
| `daemon` | How old do left-over directories get? When is a handler late? Which calls does a shutdown cut, and does it end? | 2 calls, one of which may never leave its run, 1 message, timeouts of 1 to 4 units in the order of the real ones |

Runs that show a disagreement between the code and what is said of it (each is a
finding in `PROJECT.json`, with the sentence it refutes):

| Run | What TLC shows |
|---|---|
| `oversubscribed` | the semaphore does not cap executions at `MaxConcurrency`: every admitted call executes |
| `lost_result` | the Redis write of a result fails, the message is deleted, the job stays at RUNNING |
| `poison` | a submit job without tests panics in `responseToMap`; its message is never deleted and ends every process that receives it |
| `order` | the status of a job depends on the random order of its tests |
| `limits` | the time limit of a submission never reaches its tests, which run with that of the language |

### Met on the way, without a run

- Shutdown does not wait for message handlers, although `main.go:103` says "Wait for
  worker to drain": `Worker!Exit`, `Daemon!Exit`. A burst is answered ERROR "server
  overloaded" although `docs/architecture.md:71` lets it wait in the queue: `RefuseJob`.
- A sandbox that fails during the tests is a test result with HTTP 200, not the 500 of
  `docs/architecture.md:237`: `Judge!RunOne`, `Request!HttpCode`. An nsjail that starts and
  fails by itself is not even told apart from its program: its exit status becomes
  `runtime_error`, or `build_failed` in the build. `FairVerdict` says that it becomes nothing
  else.
- The comment at `sandbox.go:58` has `hardCtx` "to ensure the call returns even if nsjail
  itself gets stuck". Without a `WaitDelay` it does not: a process that survives nsjail and
  keeps stdout or stderr open keeps the call, its slot and its directory. `OverrunIsHeld` says
  by how much a deadline is overrun, `AcceptedInTime` that such a run is not passed,
  `SaturationClears` what it does to the executor.
- `OutputCapped` is set and never read: cut output is judged as if it were whole
  (`Output!Judge`), so an output that goes on after the limit can match what is expected
  up to there, although `docs/api.md:245` says that accepted output matches "exactly".
- The default of 256 MB of a submission exceeds the 128 MB of bash, so every submission
  in bash that does not lower it is refused. `AnswerDeserved` counts the default as
  something the client asked for.
- `readyz` probes one command per language, that of the build where there is one; the
  example `verilog: missing: /usr/bin/vvp` of `docs/api.md:272` cannot occur.
- A run job feeds the first input as it is; the documents give every input a final line
  feed (`docs/api.md:144`, `docs/architecture.md:89`). Inputs of a submit that are equal up to
  it collapse into one test (`TestsKept` says so), although `docs/architecture.md:98` has
  "every individual test block" executed.
- The documents name the states QUEUED, PROCESSING and DONE; the code writes RUNNING,
  DONE, TIMEOUT and ERROR, and QUEUED is what the submission service says when there is
  no hash, which is also so once the TTL of a finished job is over (`Shown`).
- There is no "fallback background cleanup daemon" (`docs/architecture.md:160`): the sweep
  runs once, at the start of a process. `StraysBounded` is what that achieves.
- The comment in `classifyExit`, "SIGKILL came from the kernel or nsjail", overlooks
  that of `exec.CommandContext`: a cancelled context is marked `memory_exceeded`. No user
  of the worker sees it, because the same cancellation fails the write
  (`NoInterruptedVerdict`, `FairVerdict`).
- `MemoryKB / 1024` is 0 below one megabyte, and a run phase without a time limit gives
  nsjail none while `hardCtx` keeps its 2 s.

### The bounds, and why they are enough

- `executor`: callers only meet at counters and at a channel whose capacity is 2: with three
  callers one is refused while two are inside. A ring of two samples wraps within four
  calls. Two callers may be held for ever, so that they can have both slots, and one may
  not, so that somebody has to get out of a full executor. `MaxCalls` is the only bound in a
  guard (`MayCall`): without it `total` and `rejected` grow for ever. The theorems need none
  of these.
- `worker`: two handlers are needed for a duplicate, two processes for a handover;
  jobs only meet at the slots of the executor, so a third job adds the kind of job
  rather than more contention. `MaxFaults = 2` allows a fault while recovering from the
  first; `Handlers` bounds the goroutines alive at a time. One process can crash, stop
  and restart as well; two are in the run with liveness. The inductive invariant
  of the proofs was checked with TLC for one and two processes and every fault.
- `judge`: the interesting instants are those around the limit minus 100 ms, the
  limit, the limit plus 1 s and plus 2 s, and the end of the context; programs, limits
  and the moments of cancellation (at once, 1, 5 and 7 ticks, never) are chosen so that
  each occurs on both sides. Output is held not at all, for one tick or two, which ends
  before or after `hardCtx`, and for longer than anything else lasts. Two tests are the first
  number at which order and early ends matter. The theorems cover all others.
- `output`: `MaxWritten = 4` lets a stream reach its limit exactly, pass it in one piece
  and be written to when it is full; three characters are enough for a word, a line
  end of two characters and something after it.
- `request`: limits lie on both sides of every rounding edge (400, 500, 5499 and 5500 ms
  against 5 s; 0, 512, 131072, 262144 and 300000 KB) and include an explicit null and
  negative ones; up to three tests against a bound of two, with every pair of inputs that
  differ in text or only in the line feed. The directories hold a duplicate name, a language
  without limits, unsafe names, a missing run phase and a file that does not decode.
- `daemon`: time is scaled so that the order of the constants is that of the code
  (headroom < grace < request timeout < invisibility).
  `MaxUptime`, `MaxInside` and `MaxOutside` end the counting of durations that no guard and
  no property compares beyond them. One message and two calls, one of which may stay in its
  run, are enough for a second handler beside a late one and beside a punctual one.
- Symmetry (of handlers, processes and callers) is used in runs without liveness only.
- `CHECK_DEADLOCK FALSE` in the runs of `Judge`, `Output` and `Request` (a call returns),
  `Worker` (all jobs done and no fault left): there the system really stops. `Executor`
  (the scraper never stops) and `Daemon` (time does not) are checked for deadlock.

### Fairness

- `Executor`: a call that has started keeps moving. Nothing in `Run` blocks except
  `sandbox.Run`. For the callers outside `Holding` it returns: `hardCtx` ends nsjail, and
  only a held output delays the return after that (`Judge!OverrunIsHeld`). For those in `Holding`
  nothing is assumed, and the two liveness properties hold without it: `SaturationClears`
  excuses only the state in which they have all slots, `Admission` lets them stay. Nobody is
  obliged to call. `SaturationClears` needs `Capacity > 0`: with a capacity of zero
  `sem = Capacity` always holds.
- `Worker`: SQS delivers visible messages and ends visibility timeouts; a goroutine keeps
  running: Redis and SQS calls have time limits, and no program is assumed to hold its
  output open for ever (one that does keeps its handler for ever, while its message goes
  round); a draining process ends; the container is restarted (compose policy). No fairness
  is put on faults or on submitting.
- `Daemon`: time passes, `Executor.Run` returns when its context is over unless the call is
  in `Holding` (`LeaveRun`), a poll loop sees its cancelled context, `main` returns when it
  has nothing left to wait for. Nothing makes requests end: one may be held in its run, and
  the server has only a `ReadHeaderTimeout`, so a client may read its answer for ever. The
  grace is what ends the wait.

## 4. The proofs

TLAPS checks every obligation of the seven proof modules; the theorems hold for all
values of the constants that satisfy the named assumptions.

| Module | Assumes | Theorems |
|---|---|---|
| `Executor_proofs` | finitely many callers, a capacity in `Nat`, a ring of at least one | `TypeCorrect`, `SlotsSafe`, `GaugeSafe`, `SnapshotSafe`, `WorkspaceSafe`, `Refinement` |
| `Judge_proofs` | times in `Nat`, positive limits | `TypeCorrect`, `OverrunBounded`, `AcceptanceInTime`, `VerdictEarned`, `BlameFair` |
| `Output_proofs` | integer limits; a piece is a non-empty text | `TypeCorrect`, `CaptureSafe`, `VerdictSafe` |
| `Worker_proofs` | finitely many handlers, `Nobody` is none of them | `TypeCorrect`, `VerdictsWhole`, `PayloadSafe`, `SingleSafe`, `DeletedSafe`, `AnswerSafe`, `Refinement` |
| `Request_proofs` | limits are integers, lists are sequences, a body has the fields of a request | `JailSafe` |
| `RequestAnswers_proofs` | the same; an input is a text and its line feed; `AnswerSafe` only: no negative limit in a run phase (`LimitsNatural`) | `TypeCorrect`, `TestsSafe`, `PairedSafe`, `AnswerSafe` |
| `Daemon_proofs` | a headroom below the invisibility; times counted beyond every deadline compared with them | `TypeCorrect`, `StraysSafe`, `OverlapSafe`, `CutCallsSafe` |

`RequestAssumption` also says that `LoadDir` returns a map whenever it loads, which is what
telling a map from `None` takes. The bound on the tests may be any integer, as the
environment may set any: with zero a request without tests still runs once
(`MaxCommands`), below zero every request is refused.

`LimitsNatural` is a hypothesis of one theorem because the code does not enforce it:
`validate` in the registry looks at names and commands, never at limits. A negative limit in
the run phase of a language file would make `boundOverrides` refuse every test that
asks for nothing as "override_too_big", a fault the client has not made. The files
of the repository have none.

### Executor

The properties are not inductive as they stand. `GaugeWithinSlots` follows from the
exact value of the gauge, `inFlight = Cardinality(InGauge)`, together with the fact
that the callers it counts are among the holders of a slot, which is the order of
the defers. `SnapshotConsistent` compares values read at different instants; it
needs the bound `ringSz + Cardinality(Unsampled) <= total`, preserved because `total`
is counted before a sample can be taken, and its copy between two loads,
`RingRead`. Every action moves one caller between two sets of stages; lemma
`Moves` says once what that does to the cardinality of any set of stages, and each
action instantiates it. `Refinement` is `SafeSpec => Room!SafeSpec`: refusals happen
only when `Capacity` calls are inside.

### Judge

The argument is about one sandbox call first. `SandboxShape` lists the kinds of answers,
`EndFacts` how nsjail may have ended, `CallInTime` bounds the time taken, apart from the
holding, by the context and by the limit plus two seconds, and `FairOfCall` compares the
reading of `runOne` with how the process ended. The inductive invariant then says of every
test so far that its status is `Sound` at the present time: `Earned`, `Prompt` and `Blame`,
of which the last two may be excused by "the context has been cancelled by now", and blame
for time by "the context has ended"; `SoundLater` shows that time passing takes no excuse
back. `CallInv` gives `OverrunIsHeld` its step: a second call can only follow one that came
back inside the context, because past it nothing is started, so holdings do not add up.
`Rolled` ties a response to its tests, across the lenient rewriting of playground runs too;
`Timely` says that what was published was published before the cancellation, which removes
the first excuse. `RollupFacts` needs that a non-empty set of indices has a first element
(`FirstOf`), from the well-foundedness of `<`.

### Output

`Exact` says of one buffer and all that was written to it what `CaptureExact` says; it
is inductive once `WriteExact` is known, a case distinction on how much room is left,
where `Cut` says how cutting and appending commute. That a piece is never
empty is needed: an empty write to a full buffer would mark it as capped with nothing
missing, and `io.Copy` makes none.

`VerdictSafe` is about texts of any length. It needs no induction over them, because
what the normalisations keep is described by sets of places: `OrderUnique` says that there is
one ascending way through a set, so that two descriptions of the same selection agree
(`KeepFacts`). `SpellingKept` is the centre: taking white space out of a text leaves its
spelling alone as long as some stays where a word ends (`GapsKept`), and `ToLFFacts`,
`JoinedFacts` and `TrimKept` show this of each conversion; the one that could fail is
`ToLF`, which may take the CR after a word only because the LF behind it stays. In the other
direction, what `normalizeLoose` returns is `Tidy`: white space is one blank between two
letters. A tidy text is determined by its spelling (`TidyUnique`), since the place of each
letter follows from that of the one before (`TidySteps`). Hence the loose comparison is
equality of spellings (`LooseMeans`), the strict one is `Agree` (`AgreeMeans`) and implies it
(`StrictKept`), which is what makes "wrong_output" independent of the order of the two.

### Worker

The invariant joins seven parts. `OutEarned`: an interrupted verdict is in the hands of
handlers of a draining process only, whose writes fail; with that `KeysExplained`
(`NoInterruptedVerdict`, `TerminalHasPayload`) survives every merge of fields.
`Exclusive`: while no message has reappeared early, a handler holds the latest receipt of
its job's message and the message is hidden; `SingleHandler` follows. `WorkSent` and
`DeletedTold`: a live handler that is about to delete has published, unless Redis
failed. `AnsweredOnce`: without other faults the one who answered is about to delete, so
nobody will write again; `AnswerStays` is the action property it gives. `Refinement` needs
no failing Redis writes (`"redis" \notin FaultKinds`), and nothing else: crashes,
shutdowns, early redelivery and expiring keys are stutters or steps of `AtLeastOnce`.

### Request

`JailSafe` needs to know where in its life a request is: that `Run` has looked at its
limits before it starts anything (`Checked`), that the request and the registry do
not change after that, and which command is which (`Progress`: none of the run phase
before that of the build). `OneMoreJail` says once that a command within its phase keeps
the property; `BuildWithin` and `RunWithin` that these two are, with the rounding to whole
megabytes and the rule that a limit counts only when it is positive. That the limits are
integers at all goes back to the client (`Measured`, `JobMeasured`, `CasesMeasured`) and to the
language files (`LoadedIsMeasured`, which needs that the last file of a name exists).

The properties of `RequestAnswers_proofs` relate an answer to what the client sent, and none
of the steps in between has both in hand. The invariant `Faithful` therefore says what a
request *is* at every stage, in terms of its client: `Carried` (a job is the `Message` of
its payload, a request is `Translated` from a job for some order of its tests, or `Received`
from a body), `NoComplaint` (once commands are started, `Complaint` has nothing to say),
`Recorded` (each result so far was fed the input of its own position; after the loop all
tests were executed or all were skipped) and `Displayed` (what `responseToMap` puts side by
side). `TestsKept` then needs that an order of a finite set leaves nothing out and that a
key of the map holds the last of the expected outputs given for it; `ResultsPaired` needs
`Recorded` and `Displayed`. `AnswerDeserved` compares `Complaint` of the request with the
defects of the payload: the arithmetic is in the lemmas on rounding ("halves of a second go
up") and on kilobytes, the rest is that a language, a flag and a number of tests are the
same on both sides of the conversion.

### Daemon

`Hidden` is what makes `OverlapIsLate` inductive: what is left of the invisibility of a
message and the time its handler has had add up to at least the whole, as long as the
handler is not `Late`. `OneLate` says it of two handlers of
one message, `Patience` that a request alive after the signal is at least as old as the
signal. `StraysBounded` is inductive by itself: the sweep leaves nothing
older than an hour, and after it ages and uptime advance together.

### What stays with TLC

Liveness under fairness (`SaturationClears`, `EveryJobAnswered`, `ShutdownEnds`, the liveness
halves of the two refinements) and everything with ENABLED is out of the prover's
reach; so is induction over data by the library's theorems with operator parameters.
Every invariant and action property the passing runs check is stated by a theorem, with
two reservations: `AnswerDeserved` has the hypothesis `LimitsNatural`, and the refinement
of `AtLeastOnce` is proved for its safety half and without failing Redis writes.

## 5. What is not modelled

- The texts of programs and errors; what the build does; the arguments of nsjail that
  carry neither a limit nor a flag of the user.
- The percentiles `Snapshot` computes from its copy of the samples, and the durations
  themselves: they are read by nobody inside the program.
- Failing `RemoveAll` calls, in `Run` and in the sweep: both ignore the error.
- The routes `/languages`, `/healthz` and `/readyz`, the text of `/metrics`, and the logging
  middleware: they change nothing, and what `/readyz` says depends on the file system alone.
  Hence the status "partly" of the HTTP API.
- The configuration (read once; its effect is the assumptions), the load
  generator, infrastructure and language files, except for three of them whose limits are
  an instance of `Request`. `docker-compose.yml` sets `SQS_JOBS_QUEUE_URL`, `REDIS_HOST`
  and `REDIS_PORT` where the configuration reads `SQS_QUEUE_URL` and `REDIS_ADDR`: a
  process without a queue is `poller = "off"` in `Daemon`.

## 6. What could follow

The plan of the project has been carried out: `Executor` with `Admission`, `Worker` with
`AtLeastOnce`, `Judge`, then `Output`, `Registry` and `Request`, `Daemon`, and the proofs of
each. What would add to it:

1. `Snapshot` with the samples themselves, and the percentiles against their definition.
2. `Daemon` and `Worker` composed, so that `late` is a consequence of the clock rather than
   a fault.
3. `LoadDir` as the loop it is, with the files of the repository as an instance.
