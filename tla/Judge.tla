-------------------------------- MODULE Judge --------------------------------
(***************************************************************************)
(* How a verdict comes about: one call of Executor.Run from the build on   *)
(* (internal/executor) with every sandbox.Run it makes (internal/sandbox), *)
(* and what the worker then publishes (handleMessage).                     *)
(*                                                                         *)
(* Time is a number of ticks since the context of the call was created.    *)
(* The context ends at its own timeout (80 s in the worker, the request    *)
(* timeout in the HTTP handler) or when somebody cancels it (a shutdown, a *)
(* client that hangs up), whichever comes first.  A step is one whole      *)
(* sandbox call; everything between two of them takes no time.  Output is  *)
(* abstracted to how compareOutput relates it to what was expected.        *)
(*                                                                         *)
(* cmd.Run copies stdout and stderr through pipes and has no WaitDelay: it *)
(* returns when nsjail is gone AND nobody has the pipes open any more.  A  *)
(* context that ends kills nsjail, and only nsjail.                        *)
(***************************************************************************)
EXTENDS Integers, Sequences

CONSTANTS
  MaxTests,       \* bound on the test cases of a request
  Second,         \* ticks of a second
  Margin,         \* the 100 ms of classifyExit, in ticks
  BuildLimit,     \* phase.TimeLimitS of the build, in ticks
  RunLimit,       \* effective time limit of a test, in ticks
  CtxTimeout,     \* timeout of the context of the call, in ticks
  CancelTimes,    \* when it may be cancelled; a time past CtxTimeout is never
  Programs        \* what a jailed command may do, left alone

Grace == 2 * Second      \* the 2 s that hardCtx adds to the wall time

Texts == {"exact", "spacing", "different"}   \* compareOutput

\* A program ends by itself after runs ticks with an exit status; nsjail reports
\* 128 + 9 for a child that the kernel killed.  Once nsjail is gone, what the program
\* has left behind keeps its output open for holds ticks.  An nsjail that cannot set
\* up the jail or execute the command has a status of its own.
SIGKILL == 137
SIGXCPU == 152
JailFault == 255

ASSUME JudgeAssumption ==
  /\ MaxTests \in Nat
  /\ Second \in Nat \ {0} /\ Margin \in Nat
  /\ BuildLimit \in Nat \ {0} /\ RunLimit \in Nat \ {0} /\ CtxTimeout \in Nat \ {0}
  /\ CancelTimes \subseteq Nat
  /\ Programs \subseteq [runs : Nat, code : Nat, text : Texts, holds : Nat]

VARIABLES
  req,       \* the request: who asks, whether the language builds, number of tests
  cancelAt,  \* when the context of this call is cancelled
  clock,
  phase,     \* "build", "tests", "returned", "published"
  tests,     \* resp.Tests so far, with how each process really ended (history)
  last,      \* the latest sandbox call that started a process (history)
  resp,      \* the status of the response, or the error of Run
  outcome    \* what the caller gets: a status in Redis or an HTTP code

vars == <<req, cancelAt, clock, phase, tests, last, resp, outcome>>

Least(a, b) == IF a <= b THEN a ELSE b
ctxEnd == Least(CtxTimeout, cancelAt)

----------------------------------------------------------------------------
(* sandbox.Run                                                             *)

\* How nsjail may end if hardCtx leaves it alone: with its program, by its own
\* time_limit or the CPU limit (one second more), or at once because it fails.  It
\* looks at the time once a second and may miss its limit altogether.
Exits(p, limit) ==
  {[at |-> p.runs, code |-> p.code, how |-> "own"],
   [at |-> 0, code |-> JailFault, how |-> "jail"]}
    \cup {x \in [at : limit..(limit + Second), code : {SIGKILL, SIGXCPU}, how : {"limit"}] :
            x.at <= p.runs /\ (x.code = SIGXCPU => x.at = limit + Second)}

Classify_NoExpiry(took, code, expired, limit) ==   \* mutant: hardCtx.Err() is not asked
  [timedOut |-> (code = SIGKILL /\ took >= limit - Margin) \/ code = SIGXCPU,
   oom      |-> code = SIGKILL /\ took < limit - Margin,
   exit     |-> code]

\* expired says that hardCtx ended by its deadline and not by a cancellation.
Classify(took, code, expired, limit) ==
  [timedOut |-> \/ expired
                \/ code = SIGKILL /\ took >= limit - Margin
                \/ code = SIGXCPU,
   oom      |-> code = SIGKILL /\ took < limit - Margin,
   exit     |-> code]

HardEnd_Detached(limit) == limit + Grace       \* mutant: context.Background()

\* When hardCtx ends, counted from the start of the process: nsjail is then killed.
HardEnd(limit) == Least(limit + Grace, ctxEnd - clock)

Killed(limit) == [at |-> HardEnd(limit), code |-> SIGKILL, how |-> "cut"]

\* How nsjail ends under hardCtx; at that very moment both may happen.
Ends(p, limit) ==
  {x \in Exits(p, limit) : x.at <= HardEnd(limit)}
    \cup {x \in {Killed(limit)} : x.at <= p.runs}

\* How long cmd.Run goes on waiting for the end of the output.
Held(p, x) == IF x.how = "jail" THEN 0 ELSE p.holds

\* Whether hardCtx is found to have ended by its deadline when cmd.Run returns, t
\* ticks after the start; it has ended if nsjail was cut.
Expiry(limit, t, how) ==
  {e \in BOOLEAN :
     \/ ~e /\ how # "cut" /\ t <= HardEnd(limit)
     \/ t >= HardEnd(limit) /\ IF e THEN HardEnd(limit) \in {limit + Grace, CtxTimeout - clock}
                               ELSE HardEnd(limit) = cancelAt - clock}

\* No process was started: the context is over, or nsjail is missing.
NotStarted == [took |-> 0, held |-> 0, err |-> TRUE, how |-> "unstarted"]

Ended(p, x, limit, expired) ==
  LET took == x.at + Held(p, x)
  IN  [took |-> took, held |-> Held(p, x), err |-> FALSE, how |-> x.how,
       res |-> Classify(took, x.code, expired, limit)]

Answers(p, limit) ==
  UNION {{Ended(p, x, limit, e) : e \in Expiry(limit, x.at + Held(p, x), x.how)} :
           x \in Ends(p, limit)}

\* One that exits 0 when hardCtx ends may be reported as an error instead, by cmd.Wait.
Dropped(p, limit) ==
  {[took |-> x.at + Held(p, x), held |-> Held(p, x), err |-> TRUE, how |-> "cut"] :
     x \in {y \in Exits(p, limit) : y.at = HardEnd(limit) /\ y.code = 0}}

\* What sandbox.Run may answer for program p.
SandboxRun(p, limit) ==
  {NotStarted} \cup
    IF HardEnd(limit) <= 0 THEN {} ELSE Answers(p, limit) \cup Dropped(p, limit)

----------------------------------------------------------------------------
(* Executor.Run                                                            *)

Statuses == {"accepted", "wrong_output", "output_whitespace_mismatch", "time_exceeded",
             "memory_exceeded", "runtime_error", "internal_error"}

\* Without test cases only POST /run gets here: buildRequest makes one for a "run"
\* job, and a "submit" job without any is Worker!PanicJob.
Requests ==
  {r \in [type : {"http", "run", "submit"}, builds : BOOLEAN, tests : 0..MaxTests] :
     /\ r.type = "run" => r.tests = 1
     /\ r.type = "submit" => r.tests > 0}

Init ==
  /\ req \in Requests
  /\ cancelAt \in CancelTimes
  /\ clock = 0
  /\ phase = "build"
  /\ tests = << >>
  /\ last = [limit |-> 0, took |-> 0, held |-> 0]
  /\ resp = "none"
  /\ outcome = "none"

Note(a, limit) ==
  last' = IF a.how = "unstarted" THEN last
          ELSE [limit |-> limit, took |-> a.took, held |-> a.held]

BuildFails(res) == res.exit # 0 \/ res.timedOut \/ res.oom

SkipBuild ==
  /\ phase = "build" /\ ~req.builds
  /\ phase' = "tests"
  /\ UNCHANGED <<req, cancelAt, clock, tests, last, resp, outcome>>

\* An error of the sandbox is the error of Run; a failed build is a verdict.
RunBuild ==
  /\ phase = "build" /\ req.builds
  /\ \E p \in Programs : \E a \in SandboxRun(p, BuildLimit) :
       /\ clock' = clock + a.took /\ Note(a, BuildLimit)
       /\ IF a.err THEN phase' = "returned" /\ resp' = "error"
          ELSE IF BuildFails(a.res) THEN phase' = "returned" /\ resp' = "build_failed"
          ELSE phase' = "tests" /\ resp' = resp
  /\ UNCHANGED <<req, cancelAt, tests, outcome>>

RunOne_OomFirst(a) ==          \* mutant: the cases of the switch in another order
  IF a.err THEN "internal_error"
  ELSE CASE a.res.oom -> "memory_exceeded"
         [] a.res.timedOut /\ ~a.res.oom -> "time_exceeded"
         [] ~a.res.timedOut /\ ~a.res.oom /\ a.res.exit # 0 -> "runtime_error"
         [] OTHER -> "accepted"

RunOne_ErrIgnored(a) ==        \* mutant: the zero Result that comes with an error
  IF a.err THEN "accepted"
  ELSE IF a.res.timedOut THEN "time_exceeded"
  ELSE IF a.res.oom THEN "memory_exceeded"
  ELSE IF a.res.exit # 0 THEN "runtime_error"
  ELSE "accepted"

RunOne(a) ==
  IF a.err THEN "internal_error"
  ELSE IF a.res.timedOut THEN "time_exceeded"
  ELSE IF a.res.oom THEN "memory_exceeded"
  ELSE IF a.res.exit # 0 THEN "runtime_error"
  ELSE "accepted"

\* Only what ran to a clean end is compared.
RunTest(a, text) ==
  LET s == RunOne(a)
  IN  IF s # "accepted" THEN s
      ELSE CASE text = "exact" -> "accepted"
             [] text = "spacing" -> "output_whitespace_mismatch"
             [] text = "different" -> "wrong_output"

Judged == IF req.tests = 0 THEN 1 ELSE req.tests

RunNext_OffByOne ==            \* mutant: one iteration too many
  /\ phase = "tests" /\ Len(tests) <= Judged
  /\ \E p \in Programs : \E a \in SandboxRun(p, RunLimit) :
       /\ clock' = clock + a.took /\ Note(a, RunLimit)
       /\ tests' = Append(tests, 
            [status |-> RunTest(a, p.text), how |-> a.how, held |-> a.held, prog |-> p])
  /\ UNCHANGED <<req, cancelAt, phase, resp, outcome>>

\* One iteration of the loop, or the smoke run of a request without test cases,
\* which compares nothing.
RunNext ==
  /\ phase = "tests" /\ Len(tests) < Judged
  /\ \E p \in Programs : \E a \in SandboxRun(p, RunLimit) :
       /\ clock' = clock + a.took /\ Note(a, RunLimit)
       /\ tests' = Append(tests,
            [status |-> IF req.tests = 0 THEN RunOne(a) ELSE RunTest(a, p.text),
             how |-> a.how, held |-> a.held, prog |-> p])
  /\ UNCHANGED <<req, cancelAt, phase, resp, outcome>>

\* rollup: the first result that is not accepted.
Rollup(ts) ==
  LET bad == {i \in DOMAIN ts : ts[i].status # "accepted"}
  IN  IF bad = {} THEN "accepted"
      ELSE ts[CHOOSE i \in bad : \A j \in bad : i <= j].status

Return ==
  /\ phase = "tests" /\ Len(tests) = Judged
  /\ phase' = "returned"
  /\ resp' = Rollup(tests)
  /\ UNCHANGED <<req, cancelAt, clock, tests, last, outcome>>

----------------------------------------------------------------------------
(* What the caller makes of the response.                                  *)

\* handleMessage, for the playground: nothing was expected of the output.
Lenient(status) ==
  IF req.type = "run" /\ status \in {"wrong_output", "output_whitespace_mismatch"}
  THEN "accepted" ELSE status

\* The write uses the context of the worker, which does not time out but may have
\* been cancelled (before anything else that happens in the same tick); then
\* nothing is published.
Publish ==
  /\ phase = "returned" /\ req.type # "http"
  /\ phase' = "published"
  /\ resp' = Lenient(resp)
  /\ tests' = [i \in DOMAIN tests |-> [tests[i] EXCEPT !.status = Lenient(@)]]
  /\ outcome' = IF cancelAt <= clock THEN "none"
                ELSE IF resp = "error" THEN "ERROR"
                ELSE IF resp = "time_exceeded" THEN "TIMEOUT" ELSE "DONE"
  /\ UNCHANGED <<req, cancelAt, clock, last>>

\* The HTTP handler writes the response, to a client that may be gone.
Reply ==
  /\ phase = "returned" /\ req.type = "http"
  /\ phase' = "published"
  /\ outcome' = IF resp = "error" THEN "500" ELSE "200"
  /\ UNCHANGED <<req, cancelAt, clock, tests, last, resp>>

Next == SkipBuild \/ RunBuild \/ RunNext \/ Return \/ Publish \/ Reply

SafeSpec == Init /\ [][Next]_vars

----------------------------------------------------------------------------
(* Properties                                                              *)

Hows == {"own", "jail", "limit", "cut", "unstarted"}

TestRecord == [status : Statuses, how : Hows, held : Nat, prog : Programs]

\* Every variable has its type.
TypeOK ==
  /\ req \in Requests /\ cancelAt \in CancelTimes /\ clock \in Nat
  /\ phase \in {"build", "tests", "returned", "published"}
  /\ tests \in Seq(TestRecord) /\ Len(tests) <= Judged
  /\ last \in [limit : Nat, took : Nat, held : Nat]
  /\ resp \in Statuses \cup {"none", "error", "build_failed"}
  /\ outcome \in {"none", "DONE", "TIMEOUT", "ERROR", "200", "500"}

\* "accepted" is never handed out for less than the whole job: every test was run
\* to its own clean end, not much later than its limit allows, and compared equal
\* where something was expected.  A context that ends half way through the tests
\* never leaves an accepted verdict behind.
AcceptedIsEarned ==
  resp = "accepted" =>
    /\ Len(tests) = Judged
    /\ \A i \in DOMAIN tests :
         /\ tests[i].how = "own" /\ tests[i].prog.code = 0
         /\ tests[i].prog.runs <= RunLimit + Grace
         /\ req.tests > 0 /\ req.type # "run" => tests[i].prog.text = "exact"

\* The comment on sandbox.Run has hardCtx "to ensure the call returns even if nsjail
\* itself gets stuck".  What it ensures is less: a call outlasts its limit and two
\* seconds, and Run the context it was given, only by the time for which the program
\* of the last call held its output open - once, not once for every test.
OverrunIsHeld ==
  /\ last.took <= last.limit + Grace + last.held
  /\ clock <= ctxEnd + last.held

Published == phase = "published" /\ outcome \in {"DONE", "TIMEOUT"}

\* A program that exits in time but keeps its output open past hardCtx is not passed
\* for it: a test published as accepted had its call back within its limit and two
\* seconds, the holding included.  (One that a cancellation caught while holding is
\* accepted by runOne; the same cancellation keeps that from being published.)
AcceptedInTime ==
  Published => \A i \in DOMAIN tests :
                 tests[i].status = "accepted" =>
                   tests[i].prog.runs + tests[i].held <= RunLimit + Grace

\* What a published verdict says against a program is the program's doing or, for
\* runtime_error, a failure of nsjail itself: the code cannot tell the two apart, and
\* no other status is ever given for it.  The rest it guesses from exit codes and
\* elapsed times: memory from a SIGKILL before the limit, time from one close to it or
\* from the end of hardCtx, both counted to the end of the output.  The guess is wrong
\* when a shutdown kills the sandbox, and then nothing is published.
FairVerdict ==
  Published =>
    \A i \in DOMAIN tests :
      LET t == tests[i]
          elapsed == t.prog.runs + t.held
      IN  /\ t.status = "memory_exceeded" =>
               t.how = "own" /\ t.prog.code = SIGKILL /\ elapsed < RunLimit
          /\ t.status = "runtime_error" =>
               t.how = "jail" \/ (t.how = "own" /\ t.prog.code # 0)
          /\ t.status = "time_exceeded" =>
               \/ t.how \in {"limit", "cut"}
               \/ /\ t.how = "own"
                  /\ elapsed >= RunLimit - Margin \/ t.prog.code = SIGXCPU \/ clock >= ctxEnd
          /\ t.how = "jail" => t.status = "runtime_error"

\* Refuted by a run of its own.  The comment in buildRequest on the order of the
\* test cases, which Go randomises: "order doesn't matter for verdict - all cases
\* are evaluated".  Exchanging two tests does not change the status of a response in
\* which every test ran to its own end.
OrderIrrelevant ==
  req.type = "submit" /\ resp \in Statuses /\ (\A i \in DOMAIN tests : tests[i].how = "own") =>
    \A i, j \in DOMAIN tests :
      Rollup([tests EXCEPT ![i] = tests[j], ![j] = tests[i]]) = Rollup(tests)
============================================================================
