------------------------------ MODULE Request -------------------------------
(***************************************************************************)
(* The way of one request from its client to the arguments of nsjail and   *)
(* back: the submission service (create_submission), the job in the queue  *)
(* (buildRequest) or the body of POST /run (api.Server.run), what          *)
(* Executor.Run checks of it, the commands it has sandbox.Run start, and   *)
(* the answer (responseToMap or the HTTP code).                            *)
(*                                                                         *)
(* Here it is values that matter: limits and their units, flags, inputs    *)
(* and the pairing of results with tests.  How long commands run and what  *)
(* they are found guilty of is Judge; who else is in the executor is       *)
(* Executor; what is lost on the way is Worker.                            *)
(***************************************************************************)
EXTENDS Registry

CONSTANTS
  Directories,    \* what the languages directory may hold: sequences of files
  Submissions,    \* payloads of POST /submissions
  Posts,          \* bodies of POST /run
  MaxTestCases    \* Cfg.MaxTestCases

\* Limits are integers wherever they come from; validate does not look at their sign.
Limits(r) == {"time", "mem"} \subseteq DOMAIN r /\ r.time \in Int /\ r.mem \in Int

IsList(s) == s \in Seq({s[i] : i \in DOMAIN s})

\* An input is [text, nl]: nl says whether it ends with a line feed.
IsInput(input) == input = [text |-> input.text, nl |-> input.nl]

PostFields == {"decodes", "language", "source", "buildFlags", "runFlags", "tests", "time", "mem"}

ASSUME RequestAssumption ==
  /\ \A files \in Directories :
       /\ IsList(files)
       /\ \A i \in Entries(files) : files[i].lang # None =>
            \A phase \in {files[i].lang.build, files[i].lang.run} \ {None} : Limits(phase)
       /\ Loads(files) => LoadDir(files) # None
  /\ \A s \in Submissions :
       /\ IsList(s.tests) /\ \A i \in DOMAIN s.tests : IsInput(s.tests[i].input)
       /\ s.timeMs \in Int \cup {None} /\ s.memMb \in Int \cup {None}
  /\ \A p \in Posts :
       /\ DOMAIN p = PostFields
       /\ Limits(p) /\ IsList(p.tests) /\ \A i \in DOMAIN p.tests : Limits(p.tests[i])
  /\ MaxTestCases \in Int          \* from the environment, unchecked

VARIABLES
  languages,   \* the registry, None after a failed LoadDir
  client,      \* the payload and the way it comes
  stage,       \* how far the request is
  job,         \* the SQS message
  req,         \* the executor.Request
  jails,       \* the commands sandbox.Run has started, with their limits
  results,     \* resp.Tests, each with what the command was really given (history)
  shown,       \* what the answer says of each test
  answer       \* HTTP code or Redis status, and the error in it

vars == <<languages, client, stage, job, req, jails, results, shown, answer>>

Clients == {[via |-> "queue", body |-> s] : s \in Submissions}
             \cup {[via |-> "http", body |-> p] : p \in Posts}

NoAnswer == [code |-> "none", error |-> "none"]

\* main: a directory that does not load ends the process before it serves.
Init ==
  /\ \E files \in Directories :
       languages = IF Loads(files) THEN LoadDir(files) ELSE None
  /\ client \in Clients
  /\ stage = IF languages = None THEN "exited" ELSE "sent"
  /\ job = None /\ req = None
  /\ jails = << >> /\ results = << >> /\ shown = << >>
  /\ answer = NoAnswer

Answer(code, error) ==
  /\ stage' = "answered"
  /\ answer' = [code |-> code, error |-> error]

----------------------------------------------------------------------------
(* The submission service.                                                 *)

Formatted_Raw(input) == input                       \* mutant: endswith is not looked at
Formatted(input) == [input EXCEPT !.nl = TRUE]

\* The dict of test cases: equal keys collapse, the last value wins.
TestCaseMap(tests) ==
  LET keys == {Formatted(tests[i].input) : i \in DOMAIN tests}
      last(k) == CHOOSE i \in DOMAIN tests :
                   /\ Formatted(tests[i].input) = k
                   /\ \A n \in DOMAIN tests : Formatted(tests[n].input) = k => n <= i
  IN  [k \in keys |-> tests[last(k)].expected]

Lower(s) == CASE s = "Submit" -> "submit" [] s = "PY" -> "py" [] OTHER -> s

Convertible(p) == p.type # None /\ p.timeMs # None /\ p.memMb # None

\* pydantic refuses a body without source or tests; an explicit null for a field
\* with a default passes it and raises in the conversions.
RefuseSubmission ==
  /\ stage = "sent" /\ client.via = "queue"
  /\ LET p == client.body
     IN  IF p.source = "" \/ p.tests = << >> THEN Answer("422", "validation")
         ELSE ~Convertible(p) /\ Answer("500", "conversion")
  /\ UNCHANGED <<languages, client, job, req, jails, results, shown>>

\* create_submission: timeMs stands for its quotient by 1000.0.
CreateSubmission ==
  /\ stage = "sent" /\ client.via = "queue"
  /\ LET p == client.body
     IN  /\ p.source # "" /\ p.tests # << >> /\ Convertible(p)
         /\ job' = [type |-> Lower(p.type), source |-> p.source, language |-> Lower(p.language),
                    stdin |-> p.tests[1].input, testCases |-> TestCaseMap(p.tests),
                    timeMs |-> p.timeMs, memKb |-> p.memMb * 1024]
  /\ stage' = "queued"
  /\ UNCHANGED <<languages, client, req, jails, results, shown, answer>>

----------------------------------------------------------------------------
(* buildRequest and the HTTP handler.                                      *)

\* math.Round of a number of milliseconds over 1000: halves go away from zero.
RoundSeconds(ms) == IF ms >= 0 THEN (ms + 500) \div 1000 ELSE -((500 - ms) \div 1000)

Case(input, expected) == [input |-> input, expected |-> expected, time |-> 0, mem |-> 0]

Orders(S) == {o \in [1..Cardinality(S) -> S] : \A a, b \in DOMAIN o : a # b => o[a] # o[b]}

\* A submit job gets its tests from the range over a map, in any order.
CasesOf(j) ==
  IF j.type = "run" THEN {<<Case(j.stdin, "")>>}
  ELSE {[i \in DOMAIN o |-> Case(o[i], j.testCases[o[i]])] : o \in Orders(DOMAIN j.testCases)}

BuildRequest ==
  /\ stage = "queued"
  /\ job.language # "" /\ job.type \in {"run", "submit"}
  /\ \E cases \in CasesOf(job) :
       req' = [language |-> job.language, source |-> job.source,
               buildFlags |-> {}, runFlags |-> {}, tests |-> cases,
               time |-> RoundSeconds(job.timeMs), mem |-> job.memKb]
  /\ stage' = "requested"
  /\ UNCHANGED <<languages, client, job, jails, results, shown, answer>>

CannotBuild ==
  /\ stage = "queued"
  /\ job.language = "" \/ job.type \notin {"run", "submit"}
  /\ Answer("ERROR", "invalid")
  /\ UNCHANGED <<languages, client, job, req, jails, results, shown>>

\* decodes is false for bad JSON, an unknown field and a body over the limit.
BadRequest(p) == ~p.decodes \/ p.language = "" \/ p.source = ""

DecodeRun ==
  /\ stage = "sent" /\ client.via = "http"
  /\ IF BadRequest(client.body) THEN Answer("400", "bad_request") /\ UNCHANGED req
     ELSE /\ req' = [f \in DOMAIN client.body \ {"decodes"} |-> client.body[f]]
          /\ stage' = "requested" /\ UNCHANGED answer
  /\ UNCHANGED <<languages, client, job, jails, results, shown>>

----------------------------------------------------------------------------
(* The slot of Executor.Run, and what it checks once it has one.           *)

TooMany_OffByOne(r) == Len(r.tests) > MaxTestCases + 1        \* mutant

TooMany(r) == Len(r.tests) > MaxTestCases

TooBig_RequestOnly(l, r) ==    \* mutant: the tests are not looked at
  r.time > l.run.time \/ r.mem > l.run.mem

\* boundOverrides
TooBig(l, r) ==
  \/ r.time > l.run.time \/ r.mem > l.run.mem
  \/ \E i \in DOMAIN r.tests : r.tests[i].time > l.run.time \/ r.tests[i].mem > l.run.mem

\* filterFlags, for each phase there is.  Flags for a build that does not exist are
\* not looked at.
BadFlags(l, r) ==
  \/ l.build # None /\ ~(r.buildFlags \subseteq l.build.flags)
  \/ l.run # None /\ ~(r.runFlags \subseteq l.run.flags)

\* boundOverrides reads lang.Run without a look at whether it is nil.
Complaint(r) ==
  IF r.language \notin DOMAIN languages THEN "unknown_language"
  ELSE LET l == languages[r.language]
       IN  IF r.source = "big" THEN "source_too_large"
           ELSE IF TooMany(r) THEN "too_many_tests"
           ELSE IF "unsafe" \in {l.source, l.artifact} THEN "unsafe_name"
           ELSE IF BadFlags(l, r) THEN "disallowed_flag"
           ELSE IF l.run = None THEN "panic"
           ELSE IF TooBig(l, r) THEN "override_too_big"
           ELSE "none"

\* The switch in api.Server.run.
HttpCode(error) ==
  CASE error \in {"unknown_language", "source_too_large", "too_many_tests", "disallowed_flag",
                  "override_too_big"} -> "400"
    [] error = "overloaded" -> "429"
    [] OTHER -> "500"

Report(error) == Answer(IF client.via = "http" THEN HttpCode(error) ELSE "ERROR", error)

\* No slot is free: who has them is Executor.
Overload ==
  /\ stage = "requested" /\ Report("overloaded")
  /\ UNCHANGED <<languages, client, job, req, jails, results, shown>>

Validate ==
  /\ stage = "requested"
  /\ LET error == Complaint(req)
     IN  IF error # "none" THEN Report(error)
         ELSE /\ stage' = IF languages[req.language].build # None THEN "building" ELSE "running"
              /\ UNCHANGED answer
  /\ UNCHANGED <<languages, client, job, req, jails, results, shown>>

----------------------------------------------------------------------------
(* What is started.                                                        *)

\* The arguments sandbox.Run gives to nsjail: whole seconds and megabytes.
Jail(phase, userFlags, stdin, wall, memKb) ==
  [command |-> phase.command, flags |-> userFlags, stdin |-> stdin,
   wall |-> wall, cpu |-> wall + 1, mb |-> memKb \div 1024]

BuildJail(l, r) ==
  Jail(l.build, r.buildFlags, None, IF l.build.time <= 0 THEN 30 ELSE l.build.time, l.build.mem)

Override(value, limit) == IF value > 0 THEN value ELSE limit

RunJail(l, r, stdin, time, mem) ==
  Jail(l.run, r.runFlags, stdin, Override(time, l.run.time), Override(mem, l.run.mem))

RunBuild_OneNotExecuted ==     \* mutant: one result for a failed build
  /\ stage = "building"
  /\ jails' = Append(jails, BuildJail(languages[req.language], req))
  /\ \/ stage' = "running" /\ UNCHANGED <<results, answer>>
     \/ stage' = "ran" /\ results' = <<[status |-> "not_executed", fed |-> None]>>
          /\ UNCHANGED answer
  /\ UNCHANGED <<languages, client, job, req, shown>>

\* The build succeeds, fails, or cannot be run.
RunBuild ==
  /\ stage = "building"
  /\ jails' = Append(jails, BuildJail(languages[req.language], req))
  /\ \/ stage' = "running" /\ UNCHANGED <<results, answer>>
     \/ /\ stage' = "ran"
        /\ results' = [i \in DOMAIN req.tests |-> [status |-> "not_executed", fed |-> None]]
        /\ UNCHANGED answer
     \/ Report("sandbox") /\ UNCHANGED results
  /\ UNCHANGED <<languages, client, job, req, shown>>

\* The limits of a test are its own; those of the request are for the smoke run.
Start(stdin, time, mem) ==
  /\ jails' = Append(jails, RunJail(languages[req.language], req, stdin, time, mem))
  /\ results' = Append(results, [status |-> "executed", fed |-> stdin])

RunTest ==
  /\ stage = "running"
  /\ IF req.tests = << >>
     THEN stage' = "ran" /\ Start(None, req.time, req.mem)
     ELSE LET i == Len(results) + 1
              t == req.tests[i]
          IN  /\ Start(t.input, t.time, t.mem)
              /\ stage' = IF i = Len(req.tests) THEN "ran" ELSE "running"
  /\ UNCHANGED <<languages, client, job, req, shown, answer>>

\* responseToMap puts the inputs of the request beside the results, by position;
\* the HTTP handler writes the results as they are.
Respond ==
  /\ stage = "ran"
  /\ IF client.via = "http" THEN Answer("200", "none") /\ UNCHANGED shown
     ELSE /\ Answer("DONE", "none")
          /\ shown' = [i \in DOMAIN results |->
                         [status |-> results[i].status, stdin |-> req.tests[i].input,
                          expected |-> req.tests[i].expected]]
  /\ UNCHANGED <<languages, client, job, req, jails, results>>

----------------------------------------------------------------------------
Next == \/ RefuseSubmission \/ CreateSubmission \/ BuildRequest \/ CannotBuild
        \/ DecodeRun \/ Overload \/ Validate \/ RunBuild \/ RunTest \/ Respond

SafeSpec == Init /\ [][Next]_vars

----------------------------------------------------------------------------
(* Properties                                                              *)

JobFields == {"type", "source", "language", "stdin", "testCases", "timeMs", "memKb"}

Stages == {"exited", "sent", "queued", "requested", "building", "running", "ran", "answered"}

\* The build, and the tests or, without any, the one run of the program.
MaxCommands == 1 + (IF MaxTestCases > 0 THEN MaxTestCases ELSE 1)

\* Stages and values fit together: a message only behind the queue, no command before
\* the checks are over, never more commands than a build and the tests allowed.
TypeOK ==
  /\ stage \in Stages /\ client \in Clients
  /\ (languages = None) <=> stage = "exited"
  /\ stage = "queued" => DOMAIN job = JobFields
  /\ stage \in {"requested", "building", "running", "ran"} => DOMAIN req = PostFields \ {"decodes"}
  /\ jails # << >> => stage \in {"building", "running", "ran", "answered"}
  /\ Len(jails) <= MaxCommands

\* "users can lower limits, never raise them above what the YAML allows": whatever the
\* units, roundings and signs on the way, and at whatever level a limit is given, no
\* command is started with more time, memory or flags than its phase has.
JailWithinLanguage ==
  \A i \in DOMAIN jails :
    LET l == languages[req.language]
        isBuild == l.build # None /\ i = 1
        phase == IF isBuild THEN l.build ELSE l.run
    IN  /\ jails[i].command = phase.command
        /\ jails[i].flags \subseteq phase.flags
        /\ jails[i].wall <= phase.time \/ (isBuild /\ phase.time <= 0)
        /\ jails[i].mb * 1024 <= phase.mem

ClientErrors == {"unknown_language", "source_too_large", "too_many_tests", "override_too_big",
                 "disallowed_flag"}

\* What is wrong with a request, in the units of its client and by the documents.
DistinctTests(p) == {[p.tests[i].input EXCEPT !.nl = TRUE] : i \in DOMAIN p.tests}

LimitDefect(p, run) ==
  IF client.via = "queue"
  THEN \/ p.memMb * 1024 > run.mem
       \/ 2 * p.timeMs >= (2 * run.time + 1) * 1000
  ELSE LET within(e) == e.time <= run.time /\ e.mem <= run.mem
       IN  ~within(p) \/ \E i \in DOMAIN p.tests : ~within(p.tests[i])

Defects(p) ==
  LET name == IF client.via = "queue" THEN Lower(p.language) ELSE p.language
  IN  IF name \notin DOMAIN languages THEN {"unknown_language"}
  ELSE LET l == languages[name]
           n == IF client.via = "http" THEN Len(p.tests)
                ELSE IF Lower(p.type) = "run" THEN 1 ELSE Cardinality(DistinctTests(p))
       IN  {d \in ClientErrors :
              \/ d = "source_too_large" /\ p.source = "big"
              \/ d = "too_many_tests" /\ n > MaxTestCases
              \/ d = "override_too_big" /\ l.run # None /\ LimitDefect(p, l.run)
              \/ d = "disallowed_flag" /\ client.via = "http"
                   /\ \/ l.build # None /\ ~(p.buildFlags \subseteq l.build.flags)
                      \/ l.run # None /\ ~(p.runFlags \subseteq l.run.flags)}

\* A client told that its request is at fault has made that fault, one told that the
\* server is at fault (500) has not been refused for its request, one with a result
\* has made no fault, and nothing it sends makes the handler panic.
AnswerDeserved ==
  /\ answer.error \in ClientErrors => answer.error \in Defects(client.body)
  /\ answer.code \in {"200", "DONE"} => Defects(client.body) = {}
  /\ answer.code = "400" => answer.error \in ClientErrors \cup {"bad_request"}
  /\ answer.code = "500" => answer.error \in {"conversion", "unsafe_name", "sandbox"}
  /\ answer.error # "panic"

\* Of the tests a client sends, a submit runs each input that differs from the others,
\* once, up to the line feed at its end, against the expected output of its last
\* occurrence; a run feeds the first input as it is; POST /run feeds all in order.
TestsKept ==
  LET p == client.body
      fed == [i \in DOMAIN results |-> results[i].fed]
      ran == \E i \in DOMAIN results : results[i].status = "executed"
  IN  answer.error = "none" /\ stage = "answered" /\ ran =>
        IF client.via = "http"
        THEN fed = IF p.tests = << >> THEN <<None>>
                   ELSE [i \in DOMAIN p.tests |-> p.tests[i].input]
        ELSE IF Lower(p.type) = "run" THEN fed = <<p.tests[1].input>>
        ELSE /\ {fed[i] : i \in DOMAIN fed} = DistinctTests(p)
             /\ \A i, k \in DOMAIN fed : i # k => fed[i] # fed[k]
             /\ \A i \in DOMAIN fed : \E n \in DOMAIN p.tests :
                  /\ p.tests[n].expected = shown[i].expected
                  /\ \A k \in DOMAIN p.tests :
                       (p.tests[k].input.text = fed[i].text) => k <= n

\* Every test has a result, also when the build fails, and the input shown beside a
\* result is the one the command was fed.
ResultsPaired ==
  /\ stage = "answered" /\ answer.error = "none"
  /\ client.via = "queue" \/ client.body.tests # << >>
  => LET expected == IF client.via = "http" THEN Len(client.body.tests)
                    ELSE IF job.type = "run" THEN 1 ELSE Cardinality(DOMAIN job.testCases)
    IN  /\ Len(results) = expected
        /\ client.via = "queue" => Len(shown) = expected
        /\ \A i \in DOMAIN shown :
             /\ shown[i].status = results[i].status
             /\ results[i].status = "executed" => shown[i].stdin = results[i].fed

\* "users can lower limits": a submission that is accepted with a time limit has its
\* program stopped by that limit, up to the next second.  Refuted by a run of its own:
\* the limits of a submission are those of the request, which tests do not look at.
LimitHonoured ==
  client.via = "queue" /\ stage = "running" /\ client.body.timeMs > 0 =>
    LET first == IF languages[req.language].build = None THEN 1 ELSE 2
    IN  \A i \in first..Len(jails) : jails[i].wall * 1000 < client.body.timeMs + 1000
==============================================================================
