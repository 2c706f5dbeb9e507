----------------------- MODULE RequestAnswers_proofs -----------------------
(***************************************************************************)
(* More theorems about Request.tla: what comes out of Run is about what    *)
(* the client sent.  A refusal is deserved, every test that was sent is    *)
(* run against its own expected output, and every result is shown beside   *)
(* its own input.  They rest on one fact: from its client to the answer a  *)
(* request keeps its meaning, through whichever conversions it goes.       *)
(***************************************************************************)
EXTENDS Request_proofs

\* The job create_submission makes of a payload.
Message(p) ==
  [type |-> Lower(p.type), source |-> p.source, language |-> Lower(p.language),
   stdin |-> p.tests[1].input, testCases |-> TestCaseMap(p.tests),
   timeMs |-> p.timeMs, memKb |-> p.memMb * 1024]

\* The request buildRequest makes of a job, for one order of its tests.
Translated(j, cases) ==
  [language |-> j.language, source |-> j.source, buildFlags |-> {}, runFlags |-> {},
   tests |-> cases, time |-> RoundSeconds(j.timeMs), mem |-> j.memKb]

\* The request decodeBody makes of a body.
Received(p) == [f \in DOMAIN p \ {"decodes"} |-> p[f]]

Succeeded == stage = "answered" /\ answer.error = "none"
Underway == stage \in {"requested", "building", "running", "ran"} \/ Succeeded

Accepted(p) == p \in Submissions /\ p.tests # << >> /\ p.timeMs \in Int /\ p.memMb \in Int

\* What the request is, in terms of what the client sent.
Carried ==
  /\ stage = "queued" => client.via = "queue"
  /\ client.via = "queue" =>
       /\ stage = "queued" \/ Underway => Accepted(client.body) /\ job = Message(client.body)
       /\ Underway => \E cases \in CasesOf(job) : req = Translated(job, cases)
  /\ client.via = "http" /\ Underway => req = Received(client.body)

Quiet == stage # "answered" => answer = NoAnswer /\ shown = << >>

NoComplaint == stage \in {"building", "running", "ran"} \/ Succeeded => Complaint(req) = "none"

Fed(i) == IF req.tests = << >> THEN None ELSE req.tests[i].input

\* Either all tests have been executed, each with its own input, or none.
Executed ==
  /\ Len(results) = IF req.tests = << >> THEN 1 ELSE Len(req.tests)
  /\ \A i \in DOMAIN results : results[i] = [status |-> "executed", fed |-> Fed(i)]

Skipped ==
  /\ DOMAIN results = DOMAIN req.tests
  /\ \A i \in DOMAIN results : results[i].status = "not_executed"

Recorded ==
  /\ stage = "running" => /\ req.tests = << >> => results = << >>
                          /\ Len(jails) <= Len(results) + 1
                          /\ \A i \in DOMAIN results :
                               results[i] = [status |-> "executed", fed |-> Fed(i)]
  /\ stage = "ran" \/ Succeeded => IsList(results) /\ (Executed \/ Skipped)

\* What responseToMap puts together.
Beside(i) ==
  [status |-> results[i].status, stdin |-> req.tests[i].input, expected |-> req.tests[i].expected]

Displayed ==
  Succeeded => shown = IF client.via = "http" THEN << >> ELSE [i \in DOMAIN results |-> Beside(i)]

\* LoadDir lets in no language without a run phase.
RunsExist == stage # "exited" => \A n \in DOMAIN languages : languages[n].run # None

Faithful ==
  TypeOK /\ RunsExist /\ Carried /\ Quiet /\ NoComplaint /\ Recorded /\ Displayed

AInv == IInv /\ Faithful

\* However small the bound on the tests, there is room for a build and a run.
LEMMA CommandBound == MaxCommands \in Nat /\ MaxCommands >= 2 /\ MaxCommands >= MaxTestCases + 1
BY RequestAssumption DEF MaxCommands

----------------------------------------------------------------------------
(* Conversions.                                                            *)

LEMMA ViaFacts == ASSUME client \in Clients PROVE client.via \in {"queue", "http"}
BY DEF Clients

LEMMA ReceivedFacts ==
  ASSUME NEW p \in Posts
  PROVE  /\ DOMAIN Received(p) = PostFields \ {"decodes"}
         /\ Received(p).language = p.language /\ Received(p).source = p.source
         /\ Received(p).buildFlags = p.buildFlags /\ Received(p).runFlags = p.runFlags
         /\ Received(p).tests = p.tests /\ Received(p).time = p.time /\ Received(p).mem = p.mem
BY RequestAssumption DEF Received, PostFields

\* The keys of the map of test cases are the inputs, completed by a line feed.
LEMMA TestCaseMapFacts ==
  ASSUME NEW s \in Submissions
  PROVE  /\ DOMAIN TestCaseMap(s.tests) = DistinctTests(s)
         /\ IsFiniteSet(DistinctTests(s))
         /\ s.tests # << >> => DistinctTests(s) # {} /\ Cardinality(DistinctTests(s)) \in Nat \ {0}
<1>1. DOMAIN TestCaseMap(s.tests) = DistinctTests(s) BY DEF TestCaseMap, DistinctTests, Formatted
<1>2. IsFiniteSet(DistinctTests(s)) BY <1>1, TestCasesFinite
<1>3. ASSUME s.tests # << >> PROVE DistinctTests(s) # {}
  <2>1. IsList(s.tests) BY RequestAssumption
  <2>2. 1 \in DOMAIN s.tests BY <2>1, <1>3, SequenceFacts
  <2> QED BY <2>2 DEF DistinctTests
<1>4. DistinctTests(s) # {} => Cardinality(DistinctTests(s)) \in Nat \ {0}
  BY <1>2, FS_CardinalityType, FS_EmptySet
<1> QED BY <1>1, <1>2, <1>3, <1>4

\* How many tests a job has.
CaseCount(j) == IF j.type = "run" THEN 1 ELSE Cardinality(DOMAIN j.testCases)

LEMMA CaseFacts ==
  ASSUME NEW x, NEW y, NEW c, c = Case(x, y)
  PROVE  c.input = x /\ c.expected = y /\ c.time = 0 /\ c.mem = 0
BY DEF Case

LEMMA SameLength == ASSUME NEW a \in Nat, NEW b \in Nat, 1..a = 1..b PROVE a = b
<1>1. a > b => a \in 1..a /\ a \notin 1..b OBVIOUS
<1>2. b > a => b \in 1..b /\ b \notin 1..a OBVIOUS
<1> QED BY <1>1, <1>2

LEMMA CasesFacts ==
  ASSUME NEW p, Accepted(p), NEW cases \in CasesOf(Message(p))
  PROVE  /\ IsList(cases) /\ Len(cases) = CaseCount(Message(p)) /\ Len(cases) \in Nat \ {0}
         /\ \A i \in DOMAIN cases : cases[i].time = 0 /\ cases[i].mem = 0
         /\ Message(p).type = "run" =>
              Len(cases) = 1 /\ cases[1] = Case(Message(p).stdin, "")
         /\ Message(p).type # "run" =>
              \E o \in Orders(DOMAIN Message(p).testCases) :
                /\ DOMAIN o = DOMAIN cases
                /\ \A i \in DOMAIN o : cases[i] = Case(o[i], Message(p).testCases[o[i]])
<1> DEFINE j == Message(p)
           n == Cardinality(DOMAIN j.testCases)
<1>0. /\ j.testCases = TestCaseMap(p.tests)
      /\ p \in Submissions /\ p.tests # << >>
  BY DEF Accepted, Message
<1>1. IsFiniteSet(DOMAIN j.testCases) /\ n \in Nat \ {0} BY <1>0, TestCaseMapFacts
<1> HIDE DEF j, n
<1>2. IsList(cases) BY <1>1, CasesMeasured DEF j
<1>3. Len(cases) \in Nat /\ DOMAIN cases = 1..Len(cases) BY <1>2, SequenceFacts
<1>4. CASE j.type = "run"
  <2> DEFINE c == Case(j.stdin, "")
  <2>1. cases = <<c>> BY <1>4 DEF CasesOf, j
  <2>2. c.time = 0 /\ c.mem = 0
    <3>1. \A x, y : Case(x, y).time = 0 /\ Case(x, y).mem = 0 BY CaseFacts
    <3> QED BY <3>1, Zenon
  <2> HIDE DEF c
  <2>3. Len(cases) = 1 /\ DOMAIN cases = {1} /\ cases[1] = c BY <2>1, <1>3, Single
  <2>4. \A i \in DOMAIN cases : cases[i].time = 0 /\ cases[i].mem = 0 BY <2>2, <2>3
  <2>5. Len(cases) \in Nat \ {0} BY <2>3
  <2>6. CaseCount(j) = 1 BY <1>4 DEF CaseCount
  <2> QED BY <1>2, <1>4, <2>3, <2>4, <2>5, <2>6, Zenon DEF c, j
<1>5. CASE j.type # "run"
  <2>1. PICK o \in Orders(DOMAIN j.testCases) :
           cases = [i \in DOMAIN o |-> Case(o[i], j.testCases[o[i]])]
    BY <1>5 DEF CasesOf, j
  <2>2. DOMAIN o = 1..n BY DEF Orders, n
  <2>3. DOMAIN cases = 1..n /\ \A i \in DOMAIN o : cases[i] = Case(o[i], j.testCases[o[i]])
    BY <2>1, <2>2
  <2>4. Len(cases) = n BY <1>1, <1>3, <2>3, SameLength
  <2>5. \A i \in DOMAIN cases : cases[i].time = 0 /\ cases[i].mem = 0
    <3> SUFFICES ASSUME NEW i \in DOMAIN cases PROVE cases[i].time = 0 /\ cases[i].mem = 0
      OBVIOUS
    <3>1. cases[i] = Case(o[i], j.testCases[o[i]]) BY <2>2, <2>3
    <3> QED BY <3>1, CaseFacts
  <2>6. CaseCount(j) = n BY <1>5 DEF CaseCount, n
  <2> QED BY <1>1, <1>2, <1>5, <2>2, <2>3, <2>4, <2>5, <2>6 DEF j
<1> QED BY <1>4, <1>5

LEMMA SubmitCases ==
  ASSUME NEW p, Accepted(p), NEW cases \in CasesOf(Message(p)), Message(p).type # "run"
  PROVE  \E o \in Orders(DOMAIN Message(p).testCases) :
           /\ DOMAIN o = DOMAIN cases
           /\ \A i \in DOMAIN o : cases[i] = Case(o[i], Message(p).testCases[o[i]])
BY CasesFacts, Zenon

----------------------------------------------------------------------------
(* The invariant.                                                          *)

LEMMA InitFaithful == ASSUME Init PROVE Faithful
<1>1. PICK files \in Directories : languages = IF Loads(files) THEN LoadDir(files) ELSE None
  BY DEF Init
<1>2. /\ stage = IF languages = None THEN "exited" ELSE "sent"
      /\ client \in Clients /\ answer = NoAnswer
      /\ jails = << >> /\ results = << >> /\ shown = << >>
  BY DEF Init
<1>3. RunsExist
  <2> SUFFICES ASSUME stage # "exited", NEW n \in DOMAIN languages
               PROVE  languages[n].run # None BY DEF RunsExist
  <2>1. Loads(files) /\ languages = LoadDir(files) BY <1>1, <1>2
  <2>2. PICK i \in Entries(files) : languages[n] = files[i].lang /\ Valid(files[i].lang)
    BY <2>1, LoadedFromFile
  <2> QED BY <2>2 DEF Valid
<1>4. Len(jails) = 0 BY <1>2, EmptySeq
<1>5. TypeOK BY <1>2, <1>4, CommandBound DEF TypeOK, Stages
<1>6. ~Underway BY <1>2 DEF Underway, Succeeded
<1> QED BY <1>2, <1>3, <1>5, <1>6
     DEF Faithful, Carried, Quiet, NoComplaint, Recorded, Displayed, Underway

\* What the parts of the invariant that look at languages and client need of a step.
LEMMA RegistryKept ==
  ASSUME AInv, stage # "exited", stage' # "exited", stage' \in Stages,
         UNCHANGED <<languages, client>>
  PROVE  RunsExist' /\ languages' # None /\ client' \in Clients /\ stage' \in Stages
BY DEF AInv, Faithful, RunsExist, TypeOK

\* A step that answers with an error.
LEMMA ErrorStep ==
  ASSUME AInv, stage # "exited", stage' = "answered", answer'.error # "none",
         UNCHANGED <<languages, client>>, Len(jails') <= MaxCommands
  PROVE  Faithful'
<1>1. RunsExist' /\ languages' # None /\ client' \in Clients
  BY RegistryKept DEF Stages
<1>2. TypeOK' BY <1>1 DEF TypeOK, Stages
<1>3. ~Underway' BY DEF Underway, Succeeded
<1> QED BY <1>1, <1>2, <1>3
     DEF Faithful, Carried, Quiet, NoComplaint, Recorded, Displayed, Underway

LEMMA BeforeCommands ==
  ASSUME AInv, stage \in {"sent", "queued", "requested", "building"}
  PROVE  /\ jails = << >> /\ results = << >> /\ Len(jails) = 0 /\ Len(results) = 0
         /\ answer = NoAnswer /\ shown = << >> /\ stage # "exited"
BY EmptySeq DEF AInv, IInv, Progress, Faithful, Quiet

LEMMA FewJails == ASSUME AInv PROVE Len(jails) <= MaxCommands
BY DEF AInv, Faithful, TypeOK

LEMMA CreateCarries == ASSUME AInv, CreateSubmission PROVE Faithful'
<1> DEFINE p == client.body
<1>1. /\ stage = "sent" /\ stage' = "queued" /\ client.via = "queue"
      /\ UNCHANGED <<languages, client, req, jails, results, shown, answer>>
  BY DEF CreateSubmission
<1>2. jails' = << >> /\ Len(jails') = 0 /\ answer' = NoAnswer /\ shown' = << >>
  BY <1>1, BeforeCommands
<1>3. p \in Submissions BY <1>1, ClientFacts DEF AInv, IInv
<1>4. Accepted(p)
  BY <1>3, RequestAssumption DEF Accepted, CreateSubmission, Convertible
<1>5. job' = Message(p) BY DEF CreateSubmission, Message
<1>6. DOMAIN job' = JobFields BY <1>5 DEF Message, JobFields
<1>7. RunsExist' /\ languages' # None /\ client' \in Clients
  BY <1>1, RegistryKept DEF Stages
<1>8. TypeOK' BY <1>1, <1>2, <1>6, <1>7, CommandBound, RequestAssumption DEF TypeOK, Stages
<1>9. Carried' BY <1>1, <1>4, <1>5 DEF Carried, Underway, Succeeded
<1> QED BY <1>1, <1>2, <1>7, <1>8, <1>9
     DEF Faithful, Quiet, NoComplaint, Recorded, Displayed, Succeeded

\* A step that ends with a request that means what the client meant.
LEMMA RequestCarries ==
  ASSUME AInv, stage \in {"sent", "queued"}, stage' = "requested", Carried',
         DOMAIN req' = PostFields \ {"decodes"},
         UNCHANGED <<languages, client, jails, results, shown, answer>>
  PROVE  Faithful'
<1>1. jails' = << >> /\ Len(jails') = 0 /\ answer' = NoAnswer /\ shown' = << >>
  BY BeforeCommands
<1>2. RunsExist' /\ languages' # None /\ client' \in Clients BY RegistryKept DEF Stages
<1>3. TypeOK' BY <1>1, <1>2, CommandBound, RequestAssumption DEF TypeOK, Stages
<1> QED BY <1>1, <1>2, <1>3
     DEF Faithful, Quiet, NoComplaint, Recorded, Displayed, Succeeded

LEMMA BuildRequestCarries == ASSUME AInv, BuildRequest PROVE Faithful'
<1>1. /\ stage = "queued" /\ stage' = "requested"
      /\ UNCHANGED <<languages, client, job, jails, results, shown, answer>>
  BY DEF BuildRequest
<1>2. PICK cases \in CasesOf(job) : req' = Translated(job, cases)
  BY DEF BuildRequest, Translated
<1>3. client.via = "queue" /\ Accepted(client.body) /\ job = Message(client.body)
  BY <1>1 DEF AInv, Faithful, Carried
<1>4. DOMAIN req' = PostFields \ {"decodes"} BY <1>2 DEF Translated, PostFields
<1>5. Carried' BY <1>1, <1>2, <1>3 DEF Carried
<1> QED BY <1>1, <1>4, <1>5, RequestCarries

LEMMA DecodeCarries == ASSUME AInv, DecodeRun PROVE Faithful'
<1> DEFINE p == client.body
<1>1. /\ stage = "sent" /\ client.via = "http"
      /\ UNCHANGED <<languages, client, job, jails, results, shown>>
  BY DEF DecodeRun
<1>2. CASE BadRequest(p)
  <2>1. stage' = "answered" /\ answer'.error = "bad_request" BY <1>2 DEF DecodeRun, Answer
  <2> QED BY <1>1, <2>1, ErrorStep, FewJails
<1>3. CASE ~BadRequest(p)
  <2>1. /\ stage' = "requested" /\ answer' = answer /\ req' = Received(p)
    BY <1>3 DEF DecodeRun, Received
  <2>2. p \in Posts BY <1>1, ClientFacts DEF AInv, IInv
  <2>3. DOMAIN req' = PostFields \ {"decodes"} BY <2>1, <2>2, ReceivedFacts
  <2>4. Carried' BY <1>1, <2>1 DEF Carried
  <2> QED BY <1>1, <2>1, <2>3, <2>4, RequestCarries
<1> QED BY <1>2, <1>3

\* What validate has found of a request that it lets in.
LEMMA NoComplaintFacts ==
  ASSUME Complaint(req) = "none"
  PROVE  /\ req.language \in DOMAIN languages
         /\ ~TooMany(req) /\ ~BadFlags(languages[req.language], req)
         /\ languages[req.language].run # None /\ ~TooBig(languages[req.language], req)
BY Zenon DEF Complaint

\* Carried and NoComplaint hold on while the request and its client stay.
LEMMA MeaningKept ==
  ASSUME AInv, Underway, stage # "answered", stage' \notin {"sent", "queued", "exited"},
         UNCHANGED <<languages, client, job, req>>
  PROVE  Carried' /\ (Complaint(req) = "none" => NoComplaint')
<1>1. Carried' BY DEF AInv, Faithful, Carried
<1>2. Complaint(req)' = Complaint(req) BY DEF Complaint, TooMany, BadFlags, TooBig
<1> QED BY <1>1, <1>2 DEF NoComplaint

LEMMA ValidateCarries == ASSUME AInv, Validate PROVE Faithful'
<1>1. stage = "requested" /\ UNCHANGED <<languages, client, job, req, jails, results, shown>>
  BY DEF Validate
<1>2. CASE Complaint(req) # "none"
  <2>1. stage' = "answered" /\ answer'.error = Complaint(req)
    BY <1>2 DEF Validate, Report, Answer
  <2> QED BY <1>1, <1>2, <2>1, ErrorStep, FewJails
<1>3. CASE Complaint(req) = "none"
  <2>1. stage' \in {"building", "running"} /\ answer' = answer BY <1>3 DEF Validate
  <2>2. /\ jails' = << >> /\ results' = << >> /\ Len(jails') = 0 /\ Len(results') = 0
        /\ answer' = NoAnswer /\ shown' = << >>
    BY <1>1, <2>1, BeforeCommands
  <2>3. Carried' /\ NoComplaint' BY <1>1, <1>3, <2>1, MeaningKept DEF Underway
  <2>4. RunsExist' /\ languages' # None /\ client' \in Clients
    BY <1>1, <2>1, RegistryKept DEF Stages
  <2>5. DOMAIN req' = PostFields \ {"decodes"} BY <1>1 DEF AInv, Faithful, TypeOK
  <2>6. TypeOK' BY <2>1, <2>2, <2>4, <2>5, CommandBound, RequestAssumption DEF TypeOK, Stages
  <2>7. Recorded' BY <2>1, <2>2 DEF Recorded, Succeeded
  <2> QED BY <2>1, <2>2, <2>3, <2>4, <2>6, <2>7 DEF Faithful, Quiet, Displayed, Succeeded
<1> QED BY <1>2, <1>3

\* What is known of a request whose commands are started.
LEMMA UnderwayFacts ==
  ASSUME AInv, stage \in {"building", "running", "ran"}
  PROVE  /\ Complaint(req) = "none" /\ Underway /\ stage # "exited"
         /\ answer = NoAnswer /\ shown = << >>
         /\ DOMAIN req = PostFields \ {"decodes"}
         /\ IsList(jails) /\ Len(jails) \in Nat
<1>1. IsList(jails) BY DEF AInv, IInv, Progress
<1>2. Len(jails) \in Nat BY <1>1, SequenceFacts
<1> QED BY <1>1, <1>2 DEF AInv, Faithful, NoComplaint, Underway, Quiet, TypeOK

\* A step from one of these stages to another, or to the results.
LEMMA CommandStep ==
  ASSUME AInv, stage \in {"building", "running"}, stage' \in {"running", "ran"},
         UNCHANGED <<languages, client, job, req, shown, answer>>,
         Len(jails') <= MaxCommands, Recorded'
  PROVE  Faithful'
<1>1. /\ Complaint(req) = "none" /\ Underway /\ stage # "exited"
      /\ answer = NoAnswer /\ shown = << >>
      /\ DOMAIN req = PostFields \ {"decodes"}
  BY UnderwayFacts
<1>2. Carried' /\ NoComplaint' BY <1>1, MeaningKept
<1>3. RunsExist' /\ languages' # None /\ client' \in Clients
  BY <1>1, RegistryKept DEF Stages
<1>4. TypeOK' BY <1>1, <1>3 DEF TypeOK, Stages
<1> QED BY <1>1, <1>2, <1>3, <1>4 DEF Faithful, Quiet, Displayed, Succeeded

LEMMA RunBuildCarries == ASSUME AInv, RunBuild PROVE Faithful'
<1>1. /\ stage = "building" /\ UNCHANGED <<languages, client, job, req, shown>>
      /\ jails' = Append(jails, BuildJail(languages[req.language], req))
  BY DEF RunBuild
<1>2. jails = << >> /\ results = << >> /\ Len(jails) = 0 /\ Len(results) = 0
  BY <1>1, BeforeCommands
<1>3. Len(jails') = 1
  <2>1. IsList(jails) BY <1>1, UnderwayFacts
  <2> QED BY <1>1, <1>2, <2>1, Appended
<1>4. Len(jails') <= MaxCommands BY <1>3, CommandBound
<1>5. CASE stage' = "running" /\ UNCHANGED <<results, answer>>
  <2>1. Recorded' BY <1>2, <1>3, <1>5 DEF Recorded, Succeeded
  <2> QED BY <1>1, <1>4, <1>5, <2>1, CommandStep
<1>6. CASE /\ stage' = "ran" /\ UNCHANGED answer
           /\ results' = [i \in DOMAIN req.tests |-> [status |-> "not_executed", fed |-> None]]
  <2>1. Measured(req) BY <1>1 DEF AInv, IInv, Checked
  <2>2. Len(req.tests) \in Nat /\ DOMAIN req.tests = 1..Len(req.tests)
    BY <2>1, SequenceFacts DEF Measured
  <2>3. /\ DOMAIN results' = DOMAIN req.tests
        /\ \A i \in DOMAIN results' : results'[i].status = "not_executed"
        /\ results' = [i \in DOMAIN req.tests |-> results'[i]]
    BY <1>6
  <2>4. IsList(results') BY <2>2, <2>3, FunctionIsList
  <2>5. Skipped' BY <1>1, <2>3 DEF Skipped
  <2>6. Recorded' BY <1>6, <2>4, <2>5 DEF Recorded, Succeeded
  <2> QED BY <1>1, <1>4, <1>6, <2>6, CommandStep
<1>7. CASE Report("sandbox")
  <2>1. stage' = "answered" /\ answer'.error = "sandbox" BY <1>7 DEF Report, Answer
  <2> QED BY <1>1, <1>4, <2>1, ErrorStep
<1> QED BY <1>5, <1>6, <1>7 DEF RunBuild

\* The result of one more command, and the room there is for the command.
LEMMA OneMoreResult ==
  ASSUME AInv, RunTest
  PROVE  /\ IsList(results') /\ Len(results') = Len(results) + 1
         /\ Len(results) \in Nat /\ IsList(req.tests) /\ Len(req.tests) \in Nat
         /\ Len(jails') <= Len(results') + 1 /\ Len(jails') <= MaxCommands
         /\ \A i \in DOMAIN results' : results'[i] = [status |-> "executed", fed |-> Fed(i)]
         /\ req.tests = << >> => Len(results) = 0
         /\ req.tests # << >> => Len(results) < Len(req.tests)
<1> DEFINE n == Len(results) + 1
           t == req.tests[n]
<1>1. stage = "running" BY DEF RunTest
<1>2. /\ IsList(results) /\ (req.tests # << >> => Len(results) < Len(req.tests))
      /\ IsList(jails) /\ IsList(req.tests)
  BY <1>1 DEF AInv, IInv, Progress, Checked, Measured
<1>3. /\ Len(results) \in Nat /\ DOMAIN results = 1..Len(results)
      /\ Len(req.tests) \in Nat /\ Len(jails) \in Nat
  BY <1>2, SequenceFacts
<1>4. /\ req.tests = << >> => results = << >> /\ Len(results) = 0
      /\ Len(jails) <= Len(results) + 1
      /\ \A i \in DOMAIN results : results[i] = [status |-> "executed", fed |-> Fed(i)]
  BY <1>1, EmptySeq DEF AInv, Faithful, Recorded
<1>5. Len(req.tests) <= MaxTestCases
  <2>1. ~TooMany(req) BY <1>1, UnderwayFacts, NoComplaintFacts
  <2> QED BY <1>3, <2>1, RequestAssumption DEF TooMany
<1>6. \E time, mem : Start(Fed(n), time, mem)
  <2>1. CASE req.tests = << >> BY <2>1 DEF RunTest, Fed
  <2>2. CASE req.tests # << >> BY <2>2 DEF RunTest, Fed
  <2> QED BY <2>1, <2>2
<1>7. PICK j : /\ jails' = Append(jails, j)
               /\ results' = Append(results, [status |-> "executed", fed |-> Fed(n)])
  BY <1>6 DEF Start
<1>8. Len(jails') = Len(jails) + 1 BY <1>2, <1>7, Appended
<1>9. /\ IsList(results') /\ Len(results') = n /\ DOMAIN results' = 1..n
      /\ \A i \in 1..Len(results) : results'[i] = results[i]
      /\ results'[n] = [status |-> "executed", fed |-> Fed(n)]
  BY <1>2, <1>7, Appended
<1>10. \A i \in DOMAIN results' : results'[i] = [status |-> "executed", fed |-> Fed(i)]
  <2> SUFFICES ASSUME NEW i \in 1..n
               PROVE  results'[i] = [status |-> "executed", fed |-> Fed(i)] BY <1>9
  <2>1. i \in 1..Len(results) \/ i = n BY <1>3
  <2> QED BY <1>3, <1>4, <1>9, <2>1
<1>11. Len(jails') <= MaxCommands
  <2>1. CASE req.tests = << >> BY <1>3, <1>4, <1>8, <2>1, CommandBound
  <2>2. CASE req.tests # << >> BY <1>2, <1>3, <1>4, <1>5, <1>8, <2>2, CommandBound,
       RequestAssumption
  <2> QED BY <2>1, <2>2
<1> QED BY <1>2, <1>3, <1>4, <1>8, <1>9, <1>10, <1>11

LEMMA RunTestCarries == ASSUME AInv, RunTest PROVE Faithful'
<1>1. stage = "running" /\ UNCHANGED <<languages, client, job, req, shown, answer>>
  BY DEF RunTest
<1>2. /\ IsList(results') /\ Len(results') = Len(results) + 1
      /\ Len(results) \in Nat /\ Len(req.tests) \in Nat
      /\ Len(jails') <= Len(results') + 1 /\ Len(jails') <= MaxCommands
      /\ \A i \in DOMAIN results' : results'[i] = [status |-> "executed", fed |-> Fed(i)]
      /\ req.tests = << >> => Len(results) = 0
  BY OneMoreResult
<1>3. \A i : Fed(i)' = Fed(i) BY <1>1 DEF Fed
<1>4. CASE stage' = "running" /\ req.tests # << >>
  <2>1. Recorded' BY <1>1, <1>2, <1>3, <1>4 DEF Recorded, Succeeded
  <2> QED BY <1>1, <1>2, <1>4, <2>1, CommandStep
<1>5. CASE stage' = "ran" /\ (req.tests # << >> => Len(results) + 1 = Len(req.tests))
  <2>1. Executed' BY <1>1, <1>2, <1>3, <1>5 DEF Executed
  <2>2. Recorded' BY <1>2, <1>5, <2>1 DEF Recorded, Succeeded
  <2> QED BY <1>1, <1>2, <1>5, <2>2, CommandStep
<1>6. \/ stage' = "running" /\ req.tests # << >>
      \/ stage' = "ran" /\ (req.tests # << >> => Len(results) + 1 = Len(req.tests))
  BY DEF RunTest
<1> QED BY <1>4, <1>5, <1>6

LEMMA RespondCarries == ASSUME AInv, Respond PROVE Faithful'
<1>1. /\ stage = "ran" /\ stage' = "answered" /\ answer'.error = "none"
      /\ UNCHANGED <<languages, client, job, req, jails, results>>
  BY DEF Respond, Answer
<1>2. /\ Complaint(req) = "none" /\ Underway /\ stage # "exited" /\ shown = << >>
  BY <1>1, UnderwayFacts
<1>3. Carried' /\ NoComplaint' BY <1>1, <1>2, MeaningKept
<1>4. RunsExist' /\ languages' # None /\ client' \in Clients
  BY <1>1, <1>2, RegistryKept DEF Stages
<1>5. TypeOK' BY <1>1, <1>4, FewJails DEF TypeOK, Stages
<1>6. IsList(results) /\ (Executed \/ Skipped) BY <1>1 DEF AInv, Faithful, Recorded
<1>7. Recorded'
  <2>1. \A i : Fed(i)' = Fed(i) BY <1>1 DEF Fed
  <2>2. Executed => Executed' BY <1>1, <2>1 DEF Executed
  <2>3. Skipped => Skipped' BY <1>1 DEF Skipped
  <2> QED BY <1>1, <1>6, <2>2, <2>3 DEF Recorded
<1>8. Displayed' BY <1>1, <1>2 DEF Displayed, Respond, Beside
<1> QED BY <1>1, <1>3, <1>4, <1>5, <1>7, <1>8 DEF Faithful, Quiet

LEMMA NextAnswers == AInv /\ [Next]_vars => AInv'
<1> SUFFICES ASSUME AInv, [Next]_vars PROVE AInv' OBVIOUS
<1>1. IInv' BY NextInv DEF AInv
<1>2. CASE RefuseSubmission
  <2>1. /\ stage = "sent" /\ stage' = "answered"
        /\ answer'.error \in {"validation", "conversion"}
        /\ UNCHANGED <<languages, client, jails>>
    <3>1. Answer("422", "validation") \/ Answer("500", "conversion")
      BY <1>2, Zenon DEF RefuseSubmission
    <3>2. stage = "sent" /\ UNCHANGED <<languages, client, jails>>
      BY <1>2, Zenon DEF RefuseSubmission
    <3> QED BY <3>1, <3>2 DEF Answer
  <2> QED BY <1>1, <2>1, ErrorStep, FewJails DEF AInv
<1>3. CASE CreateSubmission BY <1>1, <1>3, CreateCarries DEF AInv
<1>4. CASE BuildRequest BY <1>1, <1>4, BuildRequestCarries DEF AInv
<1>5. CASE CannotBuild
  <2>1. /\ stage = "queued" /\ stage' = "answered" /\ answer'.error = "invalid"
        /\ UNCHANGED <<languages, client, jails>>
    BY <1>5 DEF CannotBuild, Answer
  <2> QED BY <1>1, <2>1, ErrorStep, FewJails DEF AInv
<1>6. CASE DecodeRun BY <1>1, <1>6, DecodeCarries DEF AInv
<1>7. CASE Overload
  <2>1. /\ stage = "requested" /\ stage' = "answered" /\ answer'.error = "overloaded"
        /\ UNCHANGED <<languages, client, jails>>
    BY <1>7 DEF Overload, Report, Answer
  <2> QED BY <1>1, <2>1, ErrorStep, FewJails DEF AInv
<1>8. CASE Validate BY <1>1, <1>8, ValidateCarries DEF AInv
<1>9. CASE RunBuild BY <1>1, <1>9, RunBuildCarries DEF AInv
<1>10. CASE RunTest BY <1>1, <1>10, RunTestCarries DEF AInv
<1>11. CASE Respond BY <1>1, <1>11, RespondCarries DEF AInv
<1>12. CASE UNCHANGED vars
  <2>1. Faithful BY DEF AInv
  <2>2. TypeOK' /\ RunsExist' BY <1>12, <2>1 DEF vars, Faithful, TypeOK, RunsExist
  <2>3. Carried' BY <1>12, <2>1 DEF vars, Faithful, Carried, Underway, Succeeded
  <2>4. Complaint(req)' = Complaint(req)
    BY <1>12 DEF vars, Complaint, TooMany, BadFlags, TooBig
  <2>5. Quiet' /\ NoComplaint'
    BY <1>12, <2>1, <2>4 DEF vars, Faithful, Quiet, NoComplaint, Succeeded
  <2>6. Recorded'
    BY <1>12, <2>1 DEF vars, Faithful, Recorded, Succeeded, Executed, Skipped, Fed
  <2>7. Displayed' BY <1>12, <2>1 DEF vars, Faithful, Displayed, Succeeded, Beside
  <2>8. Faithful' BY <2>2, <2>3, <2>5, <2>6, <2>7 DEF Faithful
  <2> QED BY <1>1, <2>8 DEF AInv
<1> QED BY <1>2, <1>3, <1>4, <1>5, <1>6, <1>7, <1>8, <1>9, <1>10, <1>11, <1>12 DEF Next

LEMMA InductiveAnswers == SafeSpec => []AInv
<1>1. Init => AInv BY InitInv, InitFaithful DEF AInv
<1>2. AInv /\ [Next]_vars => AInv' BY NextAnswers
<1> QED BY <1>1, <1>2, PTL DEF SafeSpec

----------------------------------------------------------------------------
(* Results and tests.                                                      *)

\* The tests of a request, in terms of what the client sent.
LEMMA TestsFacts ==
  ASSUME AInv, Underway
  PROVE  /\ IsList(req.tests)
         /\ client.via = "http" => client.body \in Posts /\ req.tests = client.body.tests
         /\ client.via = "queue" =>
              /\ client.body \in Submissions /\ Accepted(client.body)
              /\ job = Message(client.body) /\ req.tests \in CasesOf(job)
              /\ Len(req.tests) = CaseCount(job) /\ req.tests # << >>
<1> DEFINE p == client.body
<1>1. client \in Clients BY DEF AInv, IInv
<1>2. CASE client.via = "http"
  <2>1. p \in Posts BY <1>1, <1>2, ClientFacts
  <2>2. req = Received(p) BY <1>2 DEF AInv, Faithful, Carried
  <2>3. req.tests = p.tests BY <2>1, <2>2, ReceivedFacts
  <2>4. IsList(p.tests) BY <2>1, RequestAssumption
  <2> QED BY <1>2, <2>1, <2>3, <2>4
<1>3. CASE client.via = "queue"
  <2>1. Accepted(p) /\ job = Message(p) BY <1>3 DEF AInv, Faithful, Carried
  <2>2. PICK cases \in CasesOf(job) : req = Translated(job, cases)
    BY <1>3 DEF AInv, Faithful, Carried
  <2>3. req.tests = cases BY <2>2 DEF Translated
  <2>4. IsList(cases) /\ Len(cases) = CaseCount(job) /\ Len(cases) \in Nat \ {0}
    BY <2>1, <2>2, CasesFacts
  <2>5. cases # << >> BY <2>4, EmptySeq
  <2> QED BY <1>3, <2>1, <2>3, <2>4, <2>5 DEF Accepted
<1> QED BY <1>1, <1>2, <1>3, ViaFacts

LEMMA ResultCount ==
  ASSUME AInv, Succeeded, req.tests # << >>
  PROVE  /\ IsList(results) /\ Len(results) = Len(req.tests)
         /\ DOMAIN results = DOMAIN req.tests
<1>1. IsList(results) /\ (Executed \/ Skipped) BY DEF AInv, Faithful, Recorded
<1>2. IsList(req.tests) BY TestsFacts DEF Underway
<1>3. /\ Len(results) \in Nat /\ DOMAIN results = 1..Len(results)
      /\ Len(req.tests) \in Nat /\ DOMAIN req.tests = 1..Len(req.tests)
  BY <1>1, <1>2, SequenceFacts
<1>4. CASE Executed BY <1>1, <1>3, <1>4 DEF Executed
<1>5. CASE Skipped BY <1>1, <1>3, <1>5, SameLength DEF Skipped
<1> QED BY <1>1, <1>4, <1>5

\* What the answer shows of each test of a submission.
LEMMA ShownFacts ==
  ASSUME AInv, Succeeded
  PROVE  /\ client.via = "http" => DOMAIN shown = {}
         /\ client.via = "queue" =>
              /\ DOMAIN shown = DOMAIN results /\ Len(shown) = Len(results)
              /\ \A i \in DOMAIN results : shown[i] = Beside(i)
<1>1. shown = IF client.via = "http" THEN << >> ELSE [i \in DOMAIN results |-> Beside(i)]
  BY DEF AInv, Faithful, Displayed
<1>2. IsList(results) BY DEF AInv, Faithful, Recorded
<1>3. Len(results) \in Nat /\ DOMAIN results = 1..Len(results) BY <1>2, SequenceFacts
<1>4. CASE client.via = "http" BY <1>1, <1>4
<1>5. CASE client.via # "http"
  <2>1. /\ DOMAIN shown = 1..Len(results) /\ shown = [i \in 1..Len(results) |-> shown[i]]
        /\ \A i \in DOMAIN results : shown[i] = Beside(i)
    BY <1>1, <1>3, <1>5
  <2>2. IsList(shown) BY <1>3, <2>1, FunctionIsList
  <2>3. Len(shown) = Len(results) BY <1>3, <2>1, <2>2, SequenceFacts, SameLength
  <2> QED BY <1>3, <1>5, <2>1, <2>3
<1> QED BY <1>4, <1>5

LEMMA Paired == AInv => ResultsPaired
<1> SUFFICES ASSUME AInv, Succeeded, client.via = "queue" \/ client.body.tests # << >>
             PROVE  LET expected == IF client.via = "http" THEN Len(client.body.tests)
                                    ELSE IF job.type = "run" THEN 1
                                    ELSE Cardinality(DOMAIN job.testCases)
                    IN  /\ Len(results) = expected
                        /\ client.via = "queue" => Len(shown) = expected
                        /\ \A i \in DOMAIN shown :
                             /\ shown[i].status = results[i].status
                             /\ results[i].status = "executed" => shown[i].stdin = results[i].fed
  BY DEF ResultsPaired, Succeeded
<1>1. Underway BY DEF Underway
<1>2. client.via \in {"queue", "http"} BY ViaFacts DEF AInv, IInv
<1>3. req.tests # << >> BY <1>1, <1>2, TestsFacts
<1>4. /\ Len(results) = Len(req.tests) /\ DOMAIN results = DOMAIN req.tests
      /\ IsList(results)
  BY <1>3, ResultCount
<1>5. \A i \in DOMAIN results :
        results[i].status = "executed" => results[i].fed = req.tests[i].input
  BY <1>3 DEF AInv, Faithful, Recorded, Executed, Skipped, Fed
<1>6. CASE client.via = "http" BY <1>1, <1>4, <1>6, TestsFacts, ShownFacts
<1>7. CASE client.via = "queue"
  <2>1. Len(req.tests) = CaseCount(job) BY <1>1, <1>7, TestsFacts
  <2>2. /\ DOMAIN shown = DOMAIN results /\ Len(shown) = Len(results)
        /\ \A i \in DOMAIN results : shown[i] = Beside(i)
    BY <1>7, ShownFacts
  <2>3. \A i \in DOMAIN results :
          shown[i].status = results[i].status /\ shown[i].stdin = req.tests[i].input
    BY <2>2 DEF Beside
  <2> QED BY <1>4, <1>5, <1>7, <2>1, <2>2, <2>3 DEF CaseCount
<1> QED BY <1>2, <1>6, <1>7

----------------------------------------------------------------------------
(* Which tests are run.                                                    *)

LEMMA FormattedFacts ==
  ASSUME NEW a, IsInput(a)
  PROVE  /\ Formatted(a).text = a.text
         /\ \A b : IsInput(b) => (a.text = b.text <=> Formatted(a) = Formatted(b))
<1>1. ASSUME NEW b, IsInput(b) PROVE Formatted(b) = [text |-> b.text, nl |-> TRUE]
  <2>1. b = [text |-> b.text, nl |-> b.nl] BY <1>1, Zenon DEF IsInput
  <2>2. ASSUME NEW x, NEW y
        PROVE  [[text |-> x, nl |-> y] EXCEPT !.nl = TRUE] = [text |-> x, nl |-> TRUE]
    <3>1. \A t : [[text |-> x, nl |-> y] EXCEPT !.nl = t] = [text |-> x, nl |-> t] OBVIOUS
    <3> QED BY <3>1, Zenon
  <2>3. [b EXCEPT !.nl = TRUE] = [text |-> b.text, nl |-> TRUE] BY <2>1, <2>2, Zenon
  <2> QED BY <2>3, Zenon DEF Formatted
<1>2. \A x, y : [text |-> x, nl |-> TRUE] = [text |-> y, nl |-> TRUE] <=> x = y OBVIOUS
<1>3. Formatted(a).text = a.text BY <1>1
<1>4. ASSUME NEW b, IsInput(b) PROVE a.text = b.text <=> Formatted(a) = Formatted(b)
  <2>1. Formatted(a) = [text |-> a.text, nl |-> TRUE] BY <1>1
  <2>2. Formatted(b) = [text |-> b.text, nl |-> TRUE] BY <1>1, <1>4
  <2> QED BY <1>2, <2>1, <2>2
<1> QED BY <1>3, <1>4

\* An order of a finite set leaves nothing out.
LEMMA OrderComplete ==
  ASSUME NEW S, IsFiniteSet(S), NEW o \in Orders(S)
  PROVE  {o[i] : i \in DOMAIN o} = S
<1> DEFINE n == Cardinality(S)
<1>1. n \in Nat BY FS_CardinalityType
<1>2. /\ o \in [1..n -> S] /\ DOMAIN o = 1..n
      /\ \A a, b \in DOMAIN o : a # b => o[a] # o[b]
  BY DEF Orders
<1> HIDE DEF n
<1>3. o \in Injection(1..n, S) BY <1>2 DEF Injection, IsInjective
<1>4. Cardinality(1..n) = n BY <1>1, FS_Interval
<1>5. o \in Surjection(1..n, S) BY <1>3, <1>4, FS_Injection DEF n
<1> QED BY <1>2, <1>5 DEF Surjection

\* The expected output of a key is that of its last occurrence.
LEMMA LastExpected ==
  ASSUME NEW s \in Submissions, NEW k \in DistinctTests(s)
  PROVE  \E n \in DOMAIN s.tests :
           /\ TestCaseMap(s.tests)[k] = s.tests[n].expected
           /\ \A m \in DOMAIN s.tests : s.tests[m].input.text = k.text => m <= n
<1> DEFINE tests == s.tests
           places == {i \in DOMAIN tests : Formatted(tests[i].input) = k}
           last == CHOOSE i \in DOMAIN tests :
                     /\ Formatted(tests[i].input) = k
                     /\ \A n \in DOMAIN tests : Formatted(tests[n].input) = k => n <= i
<1>1. IsList(tests) /\ \A i \in DOMAIN tests : IsInput(tests[i].input) BY RequestAssumption
<1>2. PICK e \in DOMAIN tests : k = Formatted(tests[e].input) BY DEF DistinctTests, Formatted
<1>3. k \in {Formatted(tests[i].input) : i \in DOMAIN tests} BY <1>2
<1>4. TestCaseMap(tests)[k] = tests[last].expected BY <1>3 DEF TestCaseMap
<1>5. \A i \in DOMAIN tests : tests[i].input.text = k.text <=> Formatted(tests[i].input) = k
  BY <1>1, <1>2, FormattedFacts
<1> HIDE DEF tests
<1>6. Len(tests) \in Nat /\ DOMAIN tests = 1..Len(tests) BY <1>1, SequenceFacts
<1>7. \E m \in places : \A n \in places : n <= m BY <1>2, <1>6, LastOf
<1>8. /\ last \in DOMAIN tests
      /\ \A n \in DOMAIN tests : Formatted(tests[n].input) = k => n <= last
  BY <1>7
<1> HIDE DEF last
<1> QED BY <1>4, <1>5, <1>8 DEF tests

LEMMA Kept == AInv => TestsKept
<1> DEFINE p == client.body
           fed == [i \in DOMAIN results |-> results[i].fed]
<1> SUFFICES ASSUME AInv, Succeeded, \E i \in DOMAIN results : results[i].status = "executed"
             PROVE
               IF client.via = "http"
               THEN fed = IF p.tests = << >> THEN <<None>>
                          ELSE [i \in DOMAIN p.tests |-> p.tests[i].input]
               ELSE IF Lower(p.type) = "run" THEN fed = <<p.tests[1].input>>
               ELSE /\ {fed[i] : i \in DOMAIN fed} = DistinctTests(p)
                    /\ \A i, k \in DOMAIN fed : i # k => fed[i] # fed[k]
                    /\ \A i \in DOMAIN fed : \E n \in DOMAIN p.tests :
                         /\ p.tests[n].expected = shown[i].expected
                         /\ \A k \in DOMAIN p.tests :
                              (p.tests[k].input.text = fed[i].text) => k <= n
  BY DEF TestsKept, Succeeded
<1>1. Underway BY DEF Underway
<1>2. client.via \in {"queue", "http"} BY ViaFacts DEF AInv, IInv
<1>3. Executed /\ IsList(results) BY DEF AInv, Faithful, Recorded, Skipped
<1>4. Len(results) \in Nat /\ DOMAIN results = 1..Len(results) BY <1>3, SequenceFacts
<1>5. fed = [i \in DOMAIN results |-> Fed(i)] BY <1>3 DEF Executed
<1> HIDE DEF fed
<1>6. CASE client.via = "http"
  <2>1. req.tests = p.tests BY <1>1, <1>6, TestsFacts
  <2>2. CASE p.tests = << >>
    <3>1. DOMAIN results = 1..1 BY <1>3, <1>4, <2>1, <2>2 DEF Executed
    <3>2. fed = [i \in 1..1 |-> None] BY <1>5, <2>1, <2>2, <3>1 DEF Fed
    <3>3. fed = <<None>> BY <3>2
    <3> QED BY <1>6, <2>2, <3>3
  <2>3. CASE p.tests # << >>
    <3>1. DOMAIN results = DOMAIN p.tests BY <2>1, <2>3, ResultCount
    <3>2. fed = [i \in DOMAIN p.tests |-> p.tests[i].input] BY <1>5, <2>1, <2>3, <3>1 DEF Fed
    <3> QED BY <1>6, <2>3, <3>2
  <2> QED BY <2>2, <2>3
<1>7. CASE client.via = "queue"
  <2>1. /\ p \in Submissions /\ Accepted(p) /\ job = Message(p) /\ req.tests \in CasesOf(job)
        /\ req.tests # << >>
    BY <1>1, <1>7, TestsFacts
  <2>2. /\ DOMAIN results = DOMAIN req.tests /\ Len(results) = Len(req.tests)
        /\ fed = [i \in DOMAIN req.tests |-> req.tests[i].input]
    BY <1>5, <2>1, ResultCount DEF Fed
  <2>3. job.type = Lower(p.type) /\ job.stdin = p.tests[1].input BY <2>1 DEF Message
  <2>4. CASE job.type = "run"
    <3>1. Len(req.tests) = 1 /\ req.tests[1].input = job.stdin
      <4>1. Len(req.tests) = 1 /\ req.tests[1] = Case(job.stdin, "")
        BY <2>1, <2>4, CasesFacts, Zenon
      <4>2. \A x, y : Case(x, y).input = x BY CaseFacts
      <4> QED BY <4>1, <4>2, Zenon
    <3>2. DOMAIN req.tests = 1..1 BY <1>4, <2>2, <3>1
    <3>3. fed = [i \in 1..1 |-> job.stdin] BY <2>2, <3>1, <3>2
    <3>4. fed = <<job.stdin>> BY <3>3
    <3> QED BY <1>7, <2>3, <2>4, <3>4
  <2>5. CASE job.type # "run"
    <3> DEFINE D == DistinctTests(p)
    <3>1. DOMAIN job.testCases = D /\ job.testCases = TestCaseMap(p.tests) /\ IsFiniteSet(D)
      BY <2>1, TestCaseMapFacts DEF Message
    <3>2. PICK o \in Orders(D) :
             /\ DOMAIN o = DOMAIN req.tests
             /\ \A i \in DOMAIN o : req.tests[i] = Case(o[i], job.testCases[o[i]])
      BY <2>1, <2>5, <3>1, SubmitCases
    <3>3. \A i \in DOMAIN o :
            /\ req.tests[i].input = o[i] /\ req.tests[i].expected = job.testCases[o[i]]
            /\ o[i] \in D
      <4>1. \A i \in DOMAIN o : o[i] \in D BY DEF Orders
      <4> QED BY <3>2, <4>1, CaseFacts
    <3>4. DOMAIN fed = DOMAIN o /\ \A i \in DOMAIN o : fed[i] = o[i] BY <2>2, <3>2, <3>3
    <3>5. {fed[i] : i \in DOMAIN fed} = D
      <4>1. {o[i] : i \in DOMAIN o} = D BY <3>1, OrderComplete
      <4> QED BY <3>4, <4>1
    <3>6. \A i, k \in DOMAIN fed : i # k => fed[i] # fed[k] BY <3>4 DEF Orders
    <3>7. ASSUME NEW i \in DOMAIN fed
          PROVE  \E n \in DOMAIN p.tests :
                   /\ p.tests[n].expected = shown[i].expected
                   /\ \A k \in DOMAIN p.tests :
                        (p.tests[k].input.text = fed[i].text) => k <= n
      <4>1. fed[i] \in D /\ i \in DOMAIN results
            /\ req.tests[i].expected = TestCaseMap(p.tests)[fed[i]]
        BY <2>2, <3>1, <3>2, <3>3, <3>4
      <4>2. shown[i].expected = req.tests[i].expected BY <1>7, <4>1, ShownFacts DEF Beside
      <4>3. PICK n \in DOMAIN p.tests :
              /\ TestCaseMap(p.tests)[fed[i]] = p.tests[n].expected
              /\ \A m \in DOMAIN p.tests : p.tests[m].input.text = fed[i].text => m <= n
        BY <2>1, <4>1, LastExpected
      <4> QED BY <4>1, <4>2, <4>3
    <3> QED BY <1>7, <2>3, <2>5, <3>5, <3>6, <3>7
  <2> QED BY <2>4, <2>5
<1> QED BY <1>2, <1>6, <1>7

----------------------------------------------------------------------------
(* Refusals.                                                               *)

\* No language file gives its run phase a negative limit.
LimitsNatural ==
  \A files \in Directories : \A i \in Entries(files) :
    LET lang == files[i].lang
    IN  lang # None /\ lang.run # None => lang.run.time >= 0 /\ lang.run.mem >= 0

NaturalRuns ==
  stage # "exited" => \A n \in DOMAIN languages : LET run == languages[n].run
                                                 IN  run.time >= 0 /\ run.mem >= 0

Name(p) == IF client.via = "queue" THEN Lower(p.language) ELSE p.language

TestCount(p) ==
  IF client.via = "http" THEN Len(p.tests)
  ELSE IF Lower(p.type) = "run" THEN 1 ELSE Cardinality(DistinctTests(p))

\* Halves of a second go up.
LEMMA RoundsAbove ==
  ASSUME NEW ms \in Int, NEW limit \in Nat
  PROVE  RoundSeconds(ms) > limit <=> 2 * ms >= (2 * limit + 1) * 1000
<1>1. CASE ms >= 0
  <2>1. RoundSeconds(ms) = (ms + 500) \div 1000 BY <1>1 DEF RoundSeconds
  <2> QED BY <2>1
<1>2. CASE ms < 0
  <2>1. RoundSeconds(ms) = -((500 - ms) \div 1000) BY <1>2 DEF RoundSeconds
  <2>2. (500 - ms) \div 1000 \in Nat BY <1>2
  <2> QED BY <1>2, <2>1, <2>2
<1> QED BY <1>1, <1>2

\* The request is as far from the bounds as what the client sent.
LEMMA SameMeaning ==
  ASSUME AInv, Underway
  PROVE  /\ req.language = Name(client.body) /\ req.source = client.body.source
         /\ Len(req.tests) = TestCount(client.body)
         /\ client.via = "queue" => req.buildFlags = {} /\ req.runFlags = {}
         /\ client.via = "http" => req.buildFlags = client.body.buildFlags
                                  /\ req.runFlags = client.body.runFlags
<1> DEFINE p == client.body
<1>1. client.via \in {"queue", "http"} BY ViaFacts DEF AInv, IInv
<1>2. CASE client.via = "http"
  <2>1. p \in Posts /\ req.tests = p.tests BY <1>2, TestsFacts
  <2>2. req = Received(p) BY <1>2 DEF AInv, Faithful, Carried
  <2> QED BY <1>2, <2>1, <2>2, ReceivedFacts DEF Name, TestCount
<1>3. CASE client.via = "queue"
  <2>1. /\ p \in Submissions /\ job = Message(p) /\ Len(req.tests) = CaseCount(job)
    BY <1>3, TestsFacts
  <2>2. PICK cases \in CasesOf(job) : req = Translated(job, cases)
    BY <1>3 DEF AInv, Faithful, Carried
  <2>3. /\ req.language = job.language /\ req.source = job.source
        /\ req.buildFlags = {} /\ req.runFlags = {}
    BY <2>2 DEF Translated
  <2>4. /\ job.language = Lower(p.language) /\ job.source = p.source
        /\ job.type = Lower(p.type) /\ job.testCases = TestCaseMap(p.tests)
    BY <2>1 DEF Message
  <2>5. DOMAIN job.testCases = DistinctTests(p) BY <2>1, <2>4, TestCaseMapFacts
  <2>6. Len(req.tests) = TestCount(p) BY <1>3, <2>1, <2>4, <2>5 DEF TestCount, CaseCount
  <2> QED BY <1>3, <2>3, <2>4, <2>6 DEF Name
<1> QED BY <1>1, <1>2, <1>3

LEMMA SameLimits ==
  ASSUME AInv, Underway, NEW l, l.run.time \in Nat, l.run.mem \in Nat
  PROVE  TooBig(l, req) <=> LimitDefect(client.body, l.run)
<1> DEFINE p == client.body
<1>1. client.via \in {"queue", "http"} BY ViaFacts DEF AInv, IInv
<1>2. CASE client.via = "http"
  <2>1. p \in Posts BY <1>2, TestsFacts
  <2>2. req.tests = p.tests /\ req.time = p.time /\ req.mem = p.mem
    BY <1>2, <2>1, ReceivedFacts DEF AInv, Faithful, Carried
  <2>3. /\ p.time \in Int /\ p.mem \in Int
        /\ \A i \in DOMAIN p.tests : p.tests[i].time \in Int /\ p.tests[i].mem \in Int
    BY <2>1, RequestAssumption DEF Limits
  <2>4. client.via # "queue" BY <1>2
  <2> QED BY <2>2, <2>3, <2>4 DEF TooBig, LimitDefect
<1>3. CASE client.via = "queue"
  <2>1. Accepted(p) /\ job = Message(p) BY <1>3, TestsFacts
  <2>2. PICK cases \in CasesOf(job) : req = Translated(job, cases)
    BY <1>3 DEF AInv, Faithful, Carried
  <2>3. /\ req.tests = cases /\ req.time = RoundSeconds(job.timeMs) /\ req.mem = job.memKb
    BY <2>2 DEF Translated
  <2>4. job.timeMs = p.timeMs /\ job.memKb = p.memMb * 1024 BY <2>1 DEF Message
  <2>5. \A i \in DOMAIN cases : cases[i].time = 0 /\ cases[i].mem = 0
    BY <2>1, <2>2, CasesFacts
  <2>6. p.timeMs \in Int /\ p.memMb \in Int BY <2>1 DEF Accepted
  <2>7. TooBig(l, req) <=> RoundSeconds(p.timeMs) > l.run.time \/ p.memMb * 1024 > l.run.mem
    BY <2>3, <2>4, <2>5 DEF TooBig
  <2>8. RoundSeconds(p.timeMs) > l.run.time <=> 2 * p.timeMs >= (2 * l.run.time + 1) * 1000
    BY <2>6, RoundsAbove
  <2> QED BY <1>3, <2>7, <2>8 DEF LimitDefect
<1> QED BY <1>1, <1>2, <1>3

\* The language a request names.
LEMMA LanguageFacts ==
  ASSUME AInv, NaturalRuns, stage # "exited", NEW n \in DOMAIN languages
  PROVE  /\ languages[n].run # None
         /\ languages[n].run.time \in Nat /\ languages[n].run.mem \in Nat
<1>1. languages[n].run # None BY DEF AInv, Faithful, RunsExist
<1>2. languages[n].run.time \in Int /\ languages[n].run.mem \in Int
  BY <1>1 DEF AInv, IInv, Registered, LanguageMeasured, PhaseLimits, Numbers
<1> QED BY <1>1, <1>2 DEF NaturalRuns

LEMMA SameFlags ==
  ASSUME AInv, Underway, NEW l
  PROVE  BadFlags(l, req) <=>
           /\ client.via = "http"
           /\ \/ l.build # None /\ ~(client.body.buildFlags \subseteq l.build.flags)
              \/ l.run # None /\ ~(client.body.runFlags \subseteq l.run.flags)
<1>1. client.via \in {"queue", "http"} BY ViaFacts DEF AInv, IInv
<1> QED BY <1>1, SameMeaning DEF BadFlags

\* Defects, in terms of the request.
LEMMA DefectsFacts ==
  ASSUME AInv, Underway, NaturalRuns
  PROVE  LET D == Defects(client.body)
             l == languages[req.language]
         IN  /\ req.language \notin DOMAIN languages => D = {"unknown_language"}
             /\ req.language \in DOMAIN languages =>
                  D = {d \in ClientErrors :
                         \/ d = "source_too_large" /\ req.source = "big"
                         \/ d = "too_many_tests" /\ TooMany(req)
                         \/ d = "override_too_big" /\ TooBig(l, req)
                         \/ d = "disallowed_flag" /\ BadFlags(l, req)}
<1> DEFINE p == client.body
           l == languages[req.language]
<1>1. /\ req.language = Name(p) /\ req.source = p.source /\ Len(req.tests) = TestCount(p)
  BY SameMeaning
<1>2. CASE req.language \notin DOMAIN languages BY <1>1, <1>2 DEF Defects, Name
<1>3. CASE req.language \in DOMAIN languages
  <2>1. stage # "exited" BY DEF Underway, Succeeded
  <2>2. l.run # None /\ l.run.time \in Nat /\ l.run.mem \in Nat
    BY <1>3, <2>1, LanguageFacts
  <2>3. TooBig(l, req) <=> LimitDefect(p, l.run) BY <2>2, SameLimits
  <2>4. BadFlags(l, req) <=>
          /\ client.via = "http"
          /\ \/ l.build # None /\ ~(p.buildFlags \subseteq l.build.flags)
             \/ l.run # None /\ ~(p.runFlags \subseteq l.run.flags)
    BY SameFlags
  <2>5. TooMany(req) <=> TestCount(p) > MaxTestCases BY <1>1 DEF TooMany
  <2>6. Defects(p) =
          {d \in ClientErrors :
              \/ d = "source_too_large" /\ p.source = "big"
              \/ d = "too_many_tests" /\ TestCount(p) > MaxTestCases
              \/ d = "override_too_big" /\ l.run # None /\ LimitDefect(p, l.run)
              \/ d = "disallowed_flag" /\ client.via = "http"
                   /\ \/ l.build # None /\ ~(p.buildFlags \subseteq l.build.flags)
                      \/ l.run # None /\ ~(p.runFlags \subseteq l.run.flags)}
    BY <1>1, <1>3 DEF Defects, Name, TestCount
  <2> HIDE DEF p, l
  <2>7. Defects(p) = {d \in ClientErrors :
                         \/ d = "source_too_large" /\ req.source = "big"
                         \/ d = "too_many_tests" /\ TooMany(req)
                         \/ d = "override_too_big" /\ TooBig(l, req)
                         \/ d = "disallowed_flag" /\ BadFlags(l, req)}
    BY <1>1, <2>2, <2>3, <2>4, <2>5, <2>6
  <2> QED BY <1>3, <2>7 DEF p, l
<1> QED BY <1>2, <1>3

\* Run complains of what is wrong, and of nothing else.
LEMMA ComplaintDeserved ==
  ASSUME AInv, Underway, NaturalRuns
  PROVE  /\ Complaint(req) \in ClientErrors \cup {"unsafe_name", "none"}
         /\ Complaint(req) \in ClientErrors => Complaint(req) \in Defects(client.body)
         /\ Complaint(req) = "none" => Defects(client.body) = {}
<1> DEFINE l == languages[req.language]
           e == Complaint(req)
           D == Defects(client.body)
           found(d) == \/ d = "source_too_large" /\ req.source = "big"
                       \/ d = "too_many_tests" /\ TooMany(req)
                       \/ d = "override_too_big" /\ TooBig(l, req)
                       \/ d = "disallowed_flag" /\ BadFlags(l, req)
<1>1. CASE req.language \notin DOMAIN languages
  <2>1. e = "unknown_language" BY <1>1 DEF Complaint
  <2>2. D = {"unknown_language"} BY <1>1, DefectsFacts
  <2> QED BY <2>1, <2>2 DEF ClientErrors
<1>2. CASE req.language \in DOMAIN languages
  <2>1. D = {d \in ClientErrors : found(d)} BY <1>2, DefectsFacts
  <2>2. stage # "exited" BY DEF Underway, Succeeded
  <2>3. l.run # None BY <1>2, <2>2, LanguageFacts
  <2>4. \/ e = "source_too_large" /\ req.source = "big"
        \/ e = "too_many_tests" /\ TooMany(req)
        \/ e = "unsafe_name"
        \/ e = "disallowed_flag" /\ BadFlags(l, req)
        \/ e = "override_too_big" /\ TooBig(l, req)
        \/ e = "none" /\ req.source # "big" /\ ~TooMany(req) /\ ~BadFlags(l, req) /\ ~TooBig(l, req)
    BY <1>2, <2>3 DEF Complaint
  <2> HIDE DEF e, D, l
  <2>5. e \in ClientErrors \cup {"unsafe_name", "none"} BY <2>4 DEF ClientErrors
  <2>6. e \in ClientErrors => e \in D BY <2>1, <2>4 DEF ClientErrors
  <2>7. e = "none" => D = {} BY <2>1, <2>4
  <2> QED BY <2>5, <2>6, <2>7 DEF e, D
<1> QED BY <1>1, <1>2

DInv == AInv /\ NaturalRuns /\ AnswerDeserved

\* Answers that blame the client for nothing, nor the server for what the client did.
Blameless ==
  {<<"422", "validation">>, <<"500", "conversion">>, <<"400", "bad_request">>,
   <<"ERROR", "invalid">>, <<"429", "overloaded">>, <<"ERROR", "overloaded">>,
   <<"500", "unsafe_name">>, <<"ERROR", "unsafe_name">>,
   <<"500", "sandbox">>, <<"ERROR", "sandbox">>}

LEMMA BlamelessStep ==
  ASSUME DInv, UNCHANGED <<languages, client>>, stage # "exited",
         \E b \in Blameless : Answer(b[1], b[2])
  PROVE  (NaturalRuns /\ AnswerDeserved)'
<1>1. NaturalRuns' BY DEF DInv, NaturalRuns
<1>2. PICK b \in Blameless : answer'.code = b[1] /\ answer'.error = b[2] BY DEF Answer
<1>3. /\ b[2] \notin ClientErrors /\ b[2] # "panic" /\ b[1] \notin {"200", "DONE"}
      /\ b[1] = "400" => b[2] = "bad_request"
      /\ b[1] = "500" => b[2] \in {"conversion", "unsafe_name", "sandbox"}
  BY DEF ClientErrors, Blameless
<1>4. AnswerDeserved' BY <1>2, <1>3 DEF AnswerDeserved, ClientErrors
<1> QED BY <1>1, <1>4

\* Report, for errors of the server.
LEMMA ReportBlameless ==
  ASSUME NEW error \in {"overloaded", "unsafe_name", "sandbox"}, Report(error)
  PROVE  \E b \in Blameless : Answer(b[1], b[2])
<1>1. PICK code : /\ Answer(code, error)
                  /\ code = IF client.via = "http" THEN HttpCode(error) ELSE "ERROR"
  BY DEF Report
<1>2. <<code, error>> \in Blameless BY <1>1 DEF Blameless, HttpCode
<1> QED BY <1>1, <1>2

LEMMA DefectsKept ==
  ASSUME UNCHANGED <<languages, client>>
  PROVE  Defects(client.body)' = Defects(client.body)
BY DEF Defects, LimitDefect, DistinctTests, ClientErrors

\* A step that does not answer.
LEMMA SilentStep ==
  ASSUME DInv, UNCHANGED <<languages, client, answer>>, stage # "exited" \/ stage' = stage
  PROVE  (NaturalRuns /\ AnswerDeserved)'
<1>1. NaturalRuns' BY DEF DInv, NaturalRuns
<1>2. Defects(client.body)' = Defects(client.body) BY DefectsKept
<1>3. AnswerDeserved' BY <1>2 DEF DInv, AnswerDeserved, ClientErrors
<1> QED BY <1>1, <1>3

LEMMA NextDeserved == ASSUME DInv, [Next]_vars PROVE (NaturalRuns /\ AnswerDeserved)'
<1>0. CASE UNCHANGED vars BY <1>0, SilentStep DEF vars
<1>1. CASE RefuseSubmission
  <2>1. Answer("422", "validation") \/ Answer("500", "conversion")
    BY <1>1, Zenon DEF RefuseSubmission
  <2>2. stage = "sent" /\ UNCHANGED <<languages, client>> BY <1>1, Zenon DEF RefuseSubmission
  <2>3. \E b \in Blameless : Answer(b[1], b[2])
    <3>1. <<"422", "validation">> \in Blameless /\ <<"500", "conversion">> \in Blameless
      BY DEF Blameless
    <3> QED BY <2>1, <3>1
  <2> QED BY <2>2, <2>3, BlamelessStep
<1>2. CASE CreateSubmission
  <2>1. stage = "sent" /\ UNCHANGED <<languages, client, answer>> BY <1>2 DEF CreateSubmission
  <2> QED BY <2>1, SilentStep
<1>3. CASE BuildRequest
  <2>1. stage = "queued" /\ UNCHANGED <<languages, client, answer>> BY <1>3 DEF BuildRequest
  <2> QED BY <2>1, SilentStep
<1>4. CASE CannotBuild
  <2>1. stage = "queued" /\ Answer("ERROR", "invalid") /\ UNCHANGED <<languages, client>>
    BY <1>4 DEF CannotBuild
  <2>2. <<"ERROR", "invalid">> \in Blameless BY DEF Blameless
  <2> QED BY <2>1, <2>2, BlamelessStep
<1>5. CASE DecodeRun
  <2>1. stage = "sent" /\ UNCHANGED <<languages, client>> BY <1>5 DEF DecodeRun
  <2>2. CASE answer' = answer BY <2>1, <2>2, SilentStep
  <2>3. CASE Answer("400", "bad_request")
    <3>1. <<"400", "bad_request">> \in Blameless BY DEF Blameless
    <3> QED BY <2>1, <2>3, <3>1, BlamelessStep
  <2> QED BY <1>5, <2>2, <2>3 DEF DecodeRun
<1>6. CASE Overload
  <2>1. stage = "requested" /\ Report("overloaded") /\ UNCHANGED <<languages, client>>
    BY <1>6 DEF Overload
  <2> QED BY <2>1, ReportBlameless, BlamelessStep
<1>7. CASE Validate
  <2> DEFINE e == Complaint(req)
  <2>1. /\ stage = "requested" /\ AInv /\ NaturalRuns
        /\ UNCHANGED <<languages, client, job, req>>
    BY <1>7 DEF Validate, DInv
  <2>2. Underway BY <2>1 DEF Underway
  <2>3. /\ e \in ClientErrors \cup {"unsafe_name", "none"}
        /\ e \in ClientErrors => e \in Defects(client.body)
    BY <2>1, <2>2, ComplaintDeserved
  <2>4. CASE e = "none"
    <3>1. UNCHANGED answer BY <1>7, <2>4 DEF Validate
    <3> QED BY <2>1, <3>1, SilentStep
  <2>5. CASE e = "unsafe_name"
    <3>1. Report("unsafe_name") BY <1>7, <2>5 DEF Validate
    <3> QED BY <2>1, <3>1, ReportBlameless, BlamelessStep
  <2>6. CASE e \in ClientErrors
    <3>1. Report(e) BY <1>7, <2>6 DEF Validate, ClientErrors
    <3>2. answer'.error = e /\ answer'.code \in {"400", "ERROR"} /\ stage' = "answered"
      <4> HIDE DEF e
      <4> QED BY <2>6, <3>1 DEF Report, Answer, HttpCode, ClientErrors
    <3>3. Defects(client.body)' = Defects(client.body) BY <2>1, DefectsKept
    <3>4. NaturalRuns' BY <2>1, <3>2 DEF NaturalRuns
    <3> HIDE DEF e
    <3>5. AnswerDeserved' BY <2>3, <2>6, <3>2, <3>3 DEF AnswerDeserved, ClientErrors
    <3> QED BY <3>4, <3>5
  <2> QED BY <2>3, <2>4, <2>5, <2>6
<1>8. CASE RunBuild
  <2>1. stage = "building" /\ UNCHANGED <<languages, client>> BY <1>8 DEF RunBuild
  <2>2. CASE UNCHANGED answer BY <2>1, <2>2, SilentStep
  <2>3. CASE Report("sandbox") BY <2>1, <2>3, ReportBlameless, BlamelessStep
  <2> QED BY <1>8, <2>2, <2>3 DEF RunBuild
<1>9. CASE RunTest
  <2>1. stage = "running" /\ UNCHANGED <<languages, client, answer>> BY <1>9 DEF RunTest
  <2> QED BY <2>1, SilentStep
<1>10. CASE Respond
  <2>1. /\ stage = "ran" /\ AInv /\ NaturalRuns /\ UNCHANGED <<languages, client, job, req>>
        /\ answer'.error = "none" /\ answer'.code \in {"200", "DONE"}
    BY <1>10 DEF Respond, Answer, DInv
  <2>2. Underway /\ Complaint(req) = "none" BY <2>1, UnderwayFacts
  <2>3. Defects(client.body) = {} BY <2>1, <2>2, ComplaintDeserved
  <2>4. Defects(client.body)' = Defects(client.body) BY <2>1, DefectsKept
  <2>5. AnswerDeserved' BY <2>1, <2>3, <2>4 DEF AnswerDeserved, ClientErrors
  <2>6. NaturalRuns' BY <2>1 DEF NaturalRuns
  <2> QED BY <2>5, <2>6
<1> QED BY <1>0, <1>1, <1>2, <1>3, <1>4, <1>5, <1>6, <1>7, <1>8, <1>9, <1>10 DEF Next

LEMMA InitDeserved == ASSUME Init, LimitsNatural PROVE DInv
<1>1. AInv BY InitInv, InitFaithful DEF AInv
<1>2. NaturalRuns
  <2> SUFFICES ASSUME stage # "exited", NEW n \in DOMAIN languages
               PROVE  languages[n].run.time >= 0 /\ languages[n].run.mem >= 0
    BY DEF NaturalRuns
  <2>1. PICK files \in Directories : languages = IF Loads(files) THEN LoadDir(files) ELSE None
    BY DEF Init
  <2>2. Loads(files) /\ languages = LoadDir(files) BY <2>1 DEF Init
  <2>3. PICK i \in Entries(files) :
          languages[n] = files[i].lang /\ files[i].lang # None /\ Valid(files[i].lang)
    BY <2>2, LoadedFromFile
  <2>4. files[i].lang.run # None BY <2>3 DEF Valid
  <2> QED BY <2>3, <2>4 DEF LimitsNatural
<1>3. AnswerDeserved BY DEF Init, NoAnswer, AnswerDeserved, ClientErrors
<1> QED BY <1>1, <1>2, <1>3 DEF DInv

----------------------------------------------------------------------------
(* The theorems.                                                           *)

\* A message exists only behind the queue, a request only once one has been made of what
\* the client sent, no command is started before the checks are over, and never more
\* than the build and one for each test MaxTestCases allows (or the one without tests).
THEOREM TypeCorrect == SafeSpec => []TypeOK
<1>1. AInv => TypeOK BY DEF AInv, Faithful
<1> QED BY <1>1, InductiveAnswers, PTL

\* Of the tests a client sends, the ones with results are the ones it means to have: the
\* map of create_submission collapses equal inputs, the range over it in buildRequest
\* loses the order, and still every input is run once, against its last expected output.
THEOREM TestsSafe == SafeSpec => []TestsKept
<1>1. AInv => TestsKept BY Kept
<1> QED BY <1>1, InductiveAnswers, PTL

\* responseToMap pairs tests and results by position: every test has a result, also when
\* the build fails, and the input beside it is the one the command was fed.
THEOREM PairedSafe == SafeSpec => []ResultsPaired
<1>1. AInv => ResultsPaired BY Paired
<1> QED BY <1>1, InductiveAnswers, PTL

\* A client is told that its request is at fault exactly for the faults it has made, in
\* its own units: memMb times 1024, timeMs rounded to seconds, flags, number of tests.  A
\* language whose run phase has a negative limit would refuse every test that has none.
THEOREM AnswerSafe == ASSUME LimitsNatural PROVE SafeSpec => []AnswerDeserved
<1>1. Init => DInv BY InitDeserved
<1>2. DInv /\ [Next]_vars => DInv' BY NextAnswers, NextDeserved DEF DInv
<1>3. DInv => AnswerDeserved BY DEF DInv
<1> QED BY <1>1, <1>2, <1>3, PTL DEF SafeSpec
============================================================================
