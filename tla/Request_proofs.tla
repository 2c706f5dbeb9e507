--------------------------- MODULE Request_proofs ---------------------------
(***************************************************************************)
(* Theorems about Request.tla, for every languages directory, every        *)
(* payload and every bound on the tests: no command is started with more   *)
(* than the language file allows its phase.                                *)
(***************************************************************************)
EXTENDS Request, FiniteSetTheorems, SequenceTheorems, WellFoundedInduction, TLAPS

Numbers(r) == r.time \in Int /\ r.mem \in Int

\* What Run is given can be compared with limits.
Measured(r) ==
  /\ Numbers(r)
  /\ IsList(r.tests)
  /\ \A i \in DOMAIN r.tests : Numbers(r.tests[i])

PhaseLimits(phase) == phase # None => Numbers(phase)

LanguageMeasured(l) == PhaseLimits(l.build) /\ PhaseLimits(l.run)

\* Before it starts a command Run has looked at the request.
Admitted(l, r) == l.run # None /\ ~BadFlags(l, r) /\ ~TooBig(l, r)

Registered == stage # "exited" => \A n \in DOMAIN languages : LanguageMeasured(languages[n])

JobMeasured ==
  stage = "queued" => /\ job.timeMs \in Int /\ job.memKb \in Int
                      /\ IsFiniteSet(DOMAIN job.testCases)

Checked ==
  /\ stage \in {"requested", "building", "running"} => Measured(req)
  /\ stage \in {"building", "running"} =>
       req.language \in DOMAIN languages /\ Admitted(languages[req.language], req)

\* Which commands have been started, by stage: none before the checks are over, and
\* none of the run phase before that of the build.
Progress ==
  /\ stage \notin {"running", "ran", "answered"} => jails = << >> /\ results = << >>
  /\ stage = "building" => languages[req.language].build # None
  /\ stage = "running" =>
       /\ jails = << >> => languages[req.language].build = None
       /\ IsList(results)
       /\ req.tests # << >> => Len(results) < Len(req.tests)
  /\ jails # << >> => req.language \in DOMAIN languages
  /\ IsList(jails)

IInv == client \in Clients /\ Registered /\ JobMeasured /\ Checked /\ Progress /\ JailWithinLanguage

\* JailWithinLanguage for the command at place i.
Within(j, i, l) ==
  LET isBuild == l.build # None /\ i = 1
      phase == IF isBuild THEN l.build ELSE l.run
  IN  /\ j.command = phase.command
      /\ j.flags \subseteq phase.flags
      /\ j.wall <= phase.time \/ (isBuild /\ phase.time <= 0)
      /\ j.mb * 1024 <= phase.mem

LEMMA JailsWithin ==
  JailWithinLanguage <=> \A i \in DOMAIN jails : Within(jails[i], i, languages[req.language])
BY DEF JailWithinLanguage, Within

----------------------------------------------------------------------------
(* Sequences and the registry.                                             *)

LEMMA SequenceFacts ==
  ASSUME NEW s, IsList(s)
  PROVE  /\ Len(s) \in Nat /\ DOMAIN s = 1..Len(s)
         /\ s = << >> \/ Len(s) > 0
BY EmptySeq DEF IsList

LEMMA EmptyIsList == IsList(<< >>)
BY EmptySeq DEF IsList

LEMMA FunctionIsList ==
  ASSUME NEW n \in Nat, NEW s, DOMAIN s = 1..n, s = [i \in 1..n |-> s[i]]
  PROVE  IsList(s)
<1> DEFINE S == {s[i] : i \in DOMAIN s}
<1>1. s \in [1..n -> S] OBVIOUS
<1>2. s \in Seq(S) BY <1>1, SeqDef
<1> QED BY <1>2 DEF IsList

LEMMA Appended ==
  ASSUME NEW s, IsList(s), NEW e
  PROVE  /\ IsList(Append(s, e)) /\ Append(s, e) # << >>
         /\ Len(Append(s, e)) = Len(s) + 1
         /\ DOMAIN Append(s, e) = 1..Len(s) + 1
         /\ \A i \in 1..Len(s) : Append(s, e)[i] = s[i]
         /\ Append(s, e)[Len(s) + 1] = e
<1> DEFINE S == {s[i] : i \in DOMAIN s} \cup {e}
           t == Append(s, e)
<1>1. s \in Seq(S) /\ e \in S
  <2>1. s \in Seq({s[i] : i \in DOMAIN s}) BY DEF IsList
  <2>2. Len(s) \in Nat /\ s \in [1..Len(s) -> {s[i] : i \in DOMAIN s}] BY <2>1
  <2>3. s \in [1..Len(s) -> S] BY <2>2
  <2> QED BY <2>2, <2>3, SeqDef
<1> HIDE DEF S
<1>2. /\ t \in Seq(S) /\ t # << >> /\ Len(t) = Len(s) + 1
      /\ \A i \in 1..Len(s) : t[i] = s[i]
      /\ t[Len(s) + 1] = e
  BY <1>1, AppendProperties
<1>3. Len(t) \in Nat /\ DOMAIN t = 1..Len(t) /\ t = [i \in 1..Len(t) |-> t[i]]
  <2>1. t \in [1..Len(t) -> S] /\ Len(t) \in Nat BY <1>2, LenProperties
  <2> HIDE DEF t
  <2> QED BY <2>1
<1>4. IsList(t) BY <1>3, FunctionIsList
<1> QED BY <1>2, <1>3, <1>4

LEMMA Single ==
  ASSUME NEW e
  PROVE  IsList(<<e>>) /\ DOMAIN <<e>> = {1} /\ <<e>>[1] = e
<1>1. DOMAIN <<e>> = 1..1 /\ <<e>>[1] = e OBVIOUS
<1>2. <<e>> = [i \in 1..1 |-> <<e>>[i]] OBVIOUS
<1>3. 1..1 = {1} OBVIOUS
<1> QED BY <1>1, <1>2, <1>3, FunctionIsList

\* A non-empty set of indices has a last element.
LEMMA LastOf ==
  ASSUME NEW n \in Nat, NEW T \in SUBSET (1..n), T # {}
  PROVE  \E m \in T : \A k \in T : k <= m
<1> DEFINE Distances == {n - k : k \in T}
<1>1. Distances \in SUBSET Nat /\ Distances # {}
  <2>1. \A k \in T : n - k \in Nat OBVIOUS
  <2> QED BY <2>1
<1> DEFINE Below == {ss \in Nat \X Nat : ss[1] < ss[2]}
<1>2. OpToRel(<, Nat) = Below BY Zenon DEF OpToRel
<1>3. IsWellFoundedOn(Below, Nat) BY NatLessThanWellFounded, <1>2, Zenon
<1> HIDE DEF Below, Distances
<1>4. PICK d \in Distances : \A e \in Distances : <<e, d>> \notin Below
  BY <1>1, <1>3, WFMin
<1>5. \A e \in Distances : d <= e
  <2> SUFFICES ASSUME NEW e \in Distances PROVE d <= e OBVIOUS
  <2>1. d \in Nat /\ e \in Nat BY <1>1
  <2>2. ~(e < d) BY <1>4, <2>1 DEF Below
  <2> QED BY <2>1, <2>2
<1>6. PICK m \in T : d = n - m BY DEF Distances
<1>7. \A k \in T : n - m <= n - k BY <1>5, <1>6 DEF Distances
<1> QED BY <1>7

\* LoadDir makes a language of what some file decodes to.
LEMMA LoadedFromFile ==
  ASSUME NEW files \in Directories, Loads(files), NEW n \in DOMAIN LoadDir(files)
  PROVE  \E i \in Entries(files) :
           LoadDir(files)[n] = files[i].lang /\ files[i].lang # None /\ Valid(files[i].lang)
<1> DEFINE named == {i \in Entries(files) : files[i].lang.name = n}
           last == CHOOSE i \in Entries(files) :
                     /\ files[i].lang.name = n
                     /\ \A k \in Entries(files) : files[k].lang.name = n => k <= i
<1>1. n \in {files[i].lang.name : i \in Entries(files)} BY DEF LoadDir
<1>2. IsList(files) BY RequestAssumption
<1>3. Len(files) \in Nat /\ DOMAIN files = 1..Len(files) BY <1>2, SequenceFacts
<1>4. named \in SUBSET (1..Len(files)) /\ named # {} BY <1>1, <1>3 DEF Entries
<1>5. \E m \in named : \A k \in named : k <= m BY <1>3, <1>4, LastOf
<1>6. last \in Entries(files) BY <1>5
<1>7. LoadDir(files)[n] = files[last].lang BY <1>1 DEF LoadDir
<1> HIDE DEF last
<1>8. files[last].lang # None /\ Valid(files[last].lang) BY <1>6 DEF Loads
<1> QED BY <1>6, <1>7, <1>8

LEMMA LoadedIsMeasured ==
  ASSUME NEW files \in Directories, Loads(files), NEW n \in DOMAIN LoadDir(files)
  PROVE  LanguageMeasured(LoadDir(files)[n])
<1>1. PICK i \in Entries(files) : LoadDir(files)[n] = files[i].lang /\ files[i].lang # None
  BY LoadedFromFile
<1>2. \A phase \in {files[i].lang.build, files[i].lang.run} \ {None} : Limits(phase)
  BY <1>1, RequestAssumption
<1> QED BY <1>1, <1>2 DEF LanguageMeasured, PhaseLimits, Limits, Numbers

----------------------------------------------------------------------------
(* From the client to the request.                                         *)

LEMMA ClientFacts ==
  ASSUME client \in Clients
  PROVE  /\ client.via = "queue" => client.body \in Submissions
         /\ client.via = "http" => client.body \in Posts
BY DEF Clients

LEMMA RoundSecondsFacts ==
  ASSUME NEW ms \in Int
  PROVE  RoundSeconds(ms) \in Int
BY DEF RoundSeconds

\* The map of test cases is finite.
LEMMA TestCasesFinite ==
  ASSUME NEW s \in Submissions
  PROVE  IsFiniteSet(DOMAIN TestCaseMap(s.tests))
<1> DEFINE tests == s.tests
           K == {Formatted(tests[i].input) : i \in DOMAIN tests}
           f == [i \in DOMAIN tests |-> Formatted(tests[i].input)]
<1>1. IsList(tests) BY RequestAssumption DEF IsList
<1>2. IsFiniteSet(DOMAIN tests)
  <2>1. Len(tests) \in Nat /\ DOMAIN tests = 1..Len(tests) BY <1>1, SequenceFacts, Zenon
  <2> HIDE DEF tests
  <2>2. Len(tests) \in Int BY <2>1
  <2>3. IsFiniteSet(1..Len(tests)) BY <2>2, FS_Interval
  <2> QED BY <2>1, <2>3, Zenon
<1>3. f \in Surjection(DOMAIN tests, K)
  <2> HIDE DEF tests
  <2> QED BY Zenon DEF Surjection
<1>4. IsFiniteSet(K)
  <2> HIDE DEF tests, K, f
  <2> QED BY <1>2, <1>3, FS_Surjection
<1>5. DOMAIN TestCaseMap(tests) = K
  <2> HIDE DEF tests
  <2> QED BY Zenon DEF TestCaseMap
<1> QED BY <1>4, <1>5, Zenon

\* A job gets a list of tests without limits of their own, whatever their order.
LEMMA CasesMeasured ==
  ASSUME NEW j, j.type = "run" \/ IsFiniteSet(DOMAIN j.testCases), NEW cases \in CasesOf(j)
  PROVE  IsList(cases) /\ \A i \in DOMAIN cases : Numbers(cases[i])
<1>1. CASE j.type = "run"
  <2>1. cases = <<Case(j.stdin, "")>> BY <1>1 DEF CasesOf
  <2>2. IsList(cases) /\ DOMAIN cases = {1} /\ cases[1] = Case(j.stdin, "") BY <2>1, Single
  <2>3. Numbers(Case(j.stdin, "")) BY DEF Numbers, Case
  <2>4. \A i \in DOMAIN cases : i = 1 BY <2>2
  <2> QED BY <2>2, <2>3, <2>4
<1>2. CASE j.type # "run"
  <2> DEFINE n == Cardinality(DOMAIN j.testCases)
  <2>1. PICK o \in [1..n -> DOMAIN j.testCases] :
           cases = [i \in DOMAIN o |-> Case(o[i], j.testCases[o[i]])]
    BY <1>2 DEF CasesOf, Orders
  <2>2. n \in Nat BY <1>2, FS_CardinalityType
  <2> HIDE DEF n
  <2>3. /\ DOMAIN cases = 1..n /\ cases = [i \in 1..n |-> cases[i]]
        /\ \A i \in 1..n : cases[i] = Case(o[i], j.testCases[o[i]])
    BY <2>1
  <2>4. IsList(cases) BY <2>2, <2>3, FunctionIsList
  <2> QED BY <2>3, <2>4 DEF Numbers, Case
<1> QED BY <1>1, <1>2

----------------------------------------------------------------------------
(* Commands.                                                               *)

LEMMA WholeMegabytes == \A kb \in Int : (kb \div 1024) * 1024 <= kb
OBVIOUS

\* The command of the build.
LEMMA BuildWithin ==
  ASSUME NEW l, NEW r, LanguageMeasured(l), Admitted(l, r), l.build # None
  PROVE  Within(BuildJail(l, r), 1, l)
<1>1. l.build.time \in Int /\ l.build.mem \in Int BY DEF LanguageMeasured, PhaseLimits, Numbers
<1>2. r.buildFlags \subseteq l.build.flags BY DEF Admitted, BadFlags
<1>3. (l.build.mem \div 1024) * 1024 <= l.build.mem BY <1>1, WholeMegabytes
<1> QED BY <1>1, <1>2, <1>3 DEF Within, BuildJail, Jail

\* A command of the run phase: limits that are not above those of the phase, if they
\* count at all.
LEMMA RunWithin ==
  ASSUME NEW l, NEW r, LanguageMeasured(l), Admitted(l, r), NEW stdin,
         NEW time \in Int, NEW mem \in Int, ~(time > l.run.time), ~(mem > l.run.mem),
         NEW i, l.build = None \/ i # 1
  PROVE  Within(RunJail(l, r, stdin, time, mem), i, l)
<1>1. l.run.time \in Int /\ l.run.mem \in Int
  BY DEF LanguageMeasured, PhaseLimits, Numbers, Admitted
<1>2. r.runFlags \subseteq l.run.flags BY DEF Admitted, BadFlags
<1>3. Override(time, l.run.time) <= l.run.time BY <1>1 DEF Override
<1>4. Override(mem, l.run.mem) \in Int /\ Override(mem, l.run.mem) <= l.run.mem
  BY <1>1 DEF Override
<1>5. (Override(mem, l.run.mem) \div 1024) * 1024 <= Override(mem, l.run.mem)
  BY <1>4, WholeMegabytes
<1>6. (Override(mem, l.run.mem) \div 1024) * 1024 <= l.run.mem
  <2> DEFINE o == Override(mem, l.run.mem)
  <2>1. (o \div 1024) * 1024 \in Int BY <1>4
  <2> HIDE DEF o
  <2> QED BY <1>1, <1>4, <1>5, <2>1
<1> QED BY <1>2, <1>3, <1>6 DEF Within, RunJail, Jail

\* One more command that stays within its phase.
LEMMA OneMoreJail ==
  ASSUME IInv, UNCHANGED <<languages, req>>, req.language \in DOMAIN languages,
         NEW j, jails' = Append(jails, j),
         Within(j, Len(jails) + 1, languages[req.language])
  PROVE  /\ JailWithinLanguage' /\ IsList(jails') /\ jails' # << >>
         /\ req'.language \in DOMAIN languages'
<1>1. IsList(jails) BY DEF IInv, Progress
<1>2. /\ IsList(jails') /\ jails' # << >> /\ Len(jails) \in Nat
      /\ DOMAIN jails = 1..Len(jails) /\ DOMAIN jails' = 1..Len(jails) + 1
      /\ \A i \in 1..Len(jails) : jails'[i] = jails[i]
      /\ jails'[Len(jails) + 1] = j
  BY <1>1, Appended, SequenceFacts
<1>3. \A i \in DOMAIN jails' : Within(jails'[i], i, languages[req.language])
  <2> SUFFICES ASSUME NEW i \in DOMAIN jails'
               PROVE  Within(jails'[i], i, languages[req.language]) OBVIOUS
  <2>1. i \in 1..Len(jails) \/ i = Len(jails) + 1 BY <1>2
  <2>2. CASE i = Len(jails) + 1 BY <1>2, <2>2
  <2>3. CASE i \in 1..Len(jails)
    <3>1. Within(jails[i], i, languages[req.language]) BY <1>2, <2>3, JailsWithin DEF IInv
    <3> QED BY <1>2, <2>3, <3>1
  <2> QED BY <2>1, <2>2, <2>3
<1>4. JailWithinLanguage' BY <1>3 DEF JailWithinLanguage, Within
<1> QED BY <1>2, <1>4

\* What no step but RunBuild and RunTest can disturb.
LEMMA JailsKept ==
  ASSUME IInv, UNCHANGED <<languages, jails>>, jails = << >> \/ req' = req
  PROVE  /\ JailWithinLanguage' /\ IsList(jails)'
         /\ (jails # << >> => req.language \in DOMAIN languages)'
<1>1. IsList(jails') BY DEF IInv, Progress
<1>2. CASE jails = << >>
  <2>1. DOMAIN jails' = {} BY <1>2
  <2> QED BY <1>1, <1>2, <2>1 DEF JailWithinLanguage
<1>3. CASE req' = req BY <1>1, <1>3 DEF IInv, Progress, JailWithinLanguage
<1> QED BY <1>2, <1>3

----------------------------------------------------------------------------
(* The invariant.                                                          *)

LEMMA InitInv == Init => IInv
<1> SUFFICES ASSUME Init PROVE IInv OBVIOUS
<1>1. Registered
  <2> SUFFICES ASSUME stage # "exited", NEW n \in DOMAIN languages
               PROVE  LanguageMeasured(languages[n]) BY DEF Registered
  <2>1. PICK files \in Directories : languages = IF Loads(files) THEN LoadDir(files) ELSE None
    BY DEF Init
  <2>2. languages # None BY DEF Init
  <2>3. Loads(files) /\ languages = LoadDir(files) BY <2>1, <2>2
  <2> QED BY <2>3, LoadedIsMeasured
<1>2. stage \in {"exited", "sent"} /\ client \in Clients /\ jails = << >> /\ results = << >>
  BY DEF Init
<1>3. JailWithinLanguage BY <1>2 DEF JailWithinLanguage
<1>4. IsList(jails) BY <1>2, EmptyIsList
<1> QED BY <1>1, <1>2, <1>3, <1>4 DEF IInv, JobMeasured, Checked, Progress

\* A step that answers and starts nothing.
LEMMA AnsweredStep ==
  ASSUME IInv, stage' = "answered", stage # "exited",
         UNCHANGED <<languages, client, req, jails>>
  PROVE  IInv'
<1>1. /\ JailWithinLanguage' /\ IsList(jails)'
      /\ (jails # << >> => req.language \in DOMAIN languages)'
  BY JailsKept
<1>2. client' \in Clients BY DEF IInv
<1>3. Registered' BY DEF IInv, Registered
<1> QED BY <1>1, <1>2, <1>3 DEF IInv, JobMeasured, Checked, Progress

LEMMA CreateStep == ASSUME IInv, CreateSubmission PROVE IInv'
<1> DEFINE p == client.body
<1>1. stage = "sent" /\ stage' = "queued" /\ client.via = "queue"
  BY DEF CreateSubmission
<1>2. /\ UNCHANGED <<languages, client, req, jails, results>>
      /\ jails = << >> /\ results = << >>
  BY <1>1 DEF CreateSubmission, IInv, Progress
<1>3. p \in Submissions BY <1>1, ClientFacts DEF IInv
<1>4. p.timeMs \in Int /\ p.memMb \in Int
  BY <1>3, RequestAssumption DEF CreateSubmission, Convertible
<1>5. job'.timeMs = p.timeMs /\ job'.memKb = p.memMb * 1024
      /\ job'.testCases = TestCaseMap(p.tests)
  BY DEF CreateSubmission
<1>6. JobMeasured' BY <1>3, <1>4, <1>5, TestCasesFinite DEF JobMeasured
<1>7. /\ JailWithinLanguage' /\ IsList(jails)'
      /\ (jails # << >> => req.language \in DOMAIN languages)'
  BY <1>2, JailsKept
<1>8. client' \in Clients /\ Registered' BY <1>1, <1>2 DEF IInv, Registered
<1> QED BY <1>1, <1>2, <1>6, <1>7, <1>8 DEF IInv, Checked, Progress

\* A step that ends with a request.
LEMMA RequestedStep ==
  ASSUME IInv, stage \in {"sent", "queued"}, stage' = "requested", Measured(req'),
         UNCHANGED <<languages, client, jails, results>>
  PROVE  IInv'
<1>1. jails = << >> /\ results = << >> BY DEF IInv, Progress
<1>2. /\ JailWithinLanguage' /\ IsList(jails)'
      /\ (jails # << >> => req.language \in DOMAIN languages)'
  BY <1>1, JailsKept
<1>3. client' \in Clients /\ Registered' BY DEF IInv, Registered
<1> QED BY <1>1, <1>2, <1>3 DEF IInv, JobMeasured, Checked, Progress

LEMMA BuildRequestStep == ASSUME IInv, BuildRequest PROVE IInv'
<1>1. stage = "queued" /\ stage' = "requested" /\ UNCHANGED <<languages, client, jails, results>>
  BY DEF BuildRequest
<1>2. PICK cases \in CasesOf(job) :
        req' = [language |-> job.language, source |-> job.source,
                buildFlags |-> {}, runFlags |-> {}, tests |-> cases,
                time |-> RoundSeconds(job.timeMs), mem |-> job.memKb]
  BY DEF BuildRequest
<1>3. job.timeMs \in Int /\ job.memKb \in Int /\ IsFiniteSet(DOMAIN job.testCases)
  BY <1>1 DEF IInv, JobMeasured
<1>4. IsList(cases) /\ \A i \in DOMAIN cases : Numbers(cases[i])
  BY <1>3, CasesMeasured
<1>5. req'.time \in Int /\ req'.mem \in Int /\ req'.tests = cases
  BY <1>2, <1>3, RoundSecondsFacts
<1>6. Measured(req') BY <1>4, <1>5 DEF Measured, Numbers
<1> QED BY <1>1, <1>6, RequestedStep

LEMMA DecodeStep == ASSUME IInv, DecodeRun PROVE IInv'
<1> DEFINE p == client.body
<1>0. stage = "sent" /\ client.via = "http" /\ UNCHANGED <<languages, client, jails, results>>
  BY DEF DecodeRun
<1>1. CASE BadRequest(p)
  <2>1. stage' = "answered" /\ req' = req BY <1>1 DEF DecodeRun, Answer
  <2> QED BY <1>0, <2>1, AnsweredStep
<1>2. CASE ~BadRequest(p)
  <2>1. stage' = "requested" /\ req' = [f \in DOMAIN p \ {"decodes"} |-> p[f]]
    BY <1>2 DEF DecodeRun
  <2>2. p \in Posts BY <1>0, ClientFacts DEF IInv
  <2>3. /\ {"time", "mem", "tests"} \subseteq DOMAIN p /\ p.time \in Int /\ p.mem \in Int
        /\ IsList(p.tests)
        /\ \A i \in DOMAIN p.tests : Numbers(p.tests[i])
    BY <2>2, RequestAssumption DEF Limits, PostFields, Numbers
  <2>4. req'.time = p.time /\ req'.mem = p.mem /\ req'.tests = p.tests BY <2>1, <2>3
  <2>5. Measured(req') BY <2>3, <2>4 DEF Measured, Numbers
  <2> QED BY <1>0, <2>1, <2>5, RequestedStep
<1> QED BY <1>1, <1>2

LEMMA ValidateStep == ASSUME IInv, Validate PROVE IInv'
<1> DEFINE error == Complaint(req)
           l == languages[req.language]
<1>0. stage = "requested" /\ UNCHANGED <<languages, client, job, req, jails, results>>
  BY DEF Validate
<1>1. CASE error # "none"
  <2>1. stage' = "answered" BY <1>1 DEF Validate, Report, Answer
  <2> QED BY <1>0, <2>1, AnsweredStep
<1>2. CASE error = "none"
  <2>1. stage' = IF l.build # None THEN "building" ELSE "running" BY <1>2 DEF Validate
  <2>2. req.language \in DOMAIN languages /\ Admitted(l, req)
    BY <1>2, Zenon DEF Complaint, Admitted
  <2>3. jails = << >> /\ results = << >> BY <1>0 DEF IInv, Progress
  <2>4. Measured(req) BY <1>0 DEF IInv, Checked
  <2>5. req.tests # << >> => Len(results) < Len(req.tests)
    BY <2>3, <2>4, SequenceFacts, EmptySeq DEF Measured
  <2>6. /\ JailWithinLanguage' /\ IsList(jails)'
        /\ (jails # << >> => req.language \in DOMAIN languages)'
    BY <1>0, JailsKept
  <2>7. client' \in Clients /\ Registered' BY <1>0, <2>1 DEF IInv, Registered
  <2>8. Checked' BY <1>0, <2>2, <2>4 DEF Checked, Measured, Admitted, BadFlags, TooBig
  <2>9. Progress' BY <1>0, <2>1, <2>3, <2>5, <2>6, EmptyIsList DEF Progress
  <2> QED BY <2>1, <2>6, <2>7, <2>8, <2>9 DEF IInv, JobMeasured
<1> QED BY <1>1, <1>2

\* The language of a request that has been let in.
LEMMA AdmittedFacts ==
  ASSUME IInv, stage \in {"building", "running"}
  PROVE  /\ req.language \in DOMAIN languages
         /\ LanguageMeasured(languages[req.language])
         /\ Admitted(languages[req.language], req)
         /\ Measured(req)
BY DEF IInv, Checked, Registered

LEMMA RunBuildStep == ASSUME IInv, RunBuild PROVE IInv'
<1> DEFINE l == languages[req.language]
<1>1. /\ stage = "building" /\ jails' = Append(jails, BuildJail(l, req))
      /\ UNCHANGED <<languages, client, job, req>>
  BY DEF RunBuild
<1>2. /\ req.language \in DOMAIN languages /\ LanguageMeasured(l) /\ Admitted(l, req)
      /\ Measured(req)
  BY <1>1, AdmittedFacts
<1>3. jails = << >> /\ results = << >> /\ l.build # None BY <1>1 DEF IInv, Progress
<1>4. Within(BuildJail(l, req), Len(jails) + 1, l)
  <2>1. Len(jails) + 1 = 1 BY <1>3, EmptySeq
  <2> QED BY <1>2, <1>3, <2>1, BuildWithin
<1>5. /\ JailWithinLanguage' /\ IsList(jails') /\ jails' # << >>
      /\ req'.language \in DOMAIN languages'
  BY <1>1, <1>2, <1>4, OneMoreJail
<1>6. client' \in Clients /\ Registered' BY <1>1 DEF IInv, Registered
<1>7. CASE stage' = "running" /\ UNCHANGED results
  <2>1. req.tests # << >> => Len(results) < Len(req.tests)
    BY <1>2, <1>3, SequenceFacts, EmptySeq DEF Measured
  <2>2. Checked' BY <1>1, <1>2 DEF Checked, Measured, Admitted, BadFlags, TooBig
  <2>3. Progress' BY <1>1, <1>3, <1>5, <1>7, <2>1, EmptyIsList DEF Progress
  <2> QED BY <1>5, <1>6, <1>7, <2>2, <2>3 DEF IInv, JobMeasured
<1>8. CASE stage' \in {"ran", "answered"}
  BY <1>5, <1>6, <1>8 DEF IInv, JobMeasured, Checked, Progress
<1>9. \/ stage' = "running" /\ UNCHANGED results
      \/ stage' \in {"ran", "answered"}
  BY DEF RunBuild, Report, Answer
<1> QED BY <1>7, <1>8, <1>9

LEMMA RunTestStep == ASSUME IInv, RunTest PROVE IInv'
<1> DEFINE l == languages[req.language]
<1>1. stage = "running" /\ UNCHANGED <<languages, client, job, req>> BY DEF RunTest
<1>2. /\ req.language \in DOMAIN languages /\ LanguageMeasured(l) /\ Admitted(l, req)
      /\ Measured(req)
  BY <1>1, AdmittedFacts
<1>3. /\ IsList(jails) /\ IsList(results)
      /\ req.tests # << >> => Len(results) < Len(req.tests)
      /\ l.build = None \/ Len(jails) + 1 # 1
  <2>1. IsList(jails) /\ (jails = << >> => l.build = None) BY <1>1 DEF IInv, Progress
  <2>2. jails # << >> => Len(jails) + 1 # 1 BY <2>1, SequenceFacts
  <2> QED BY <1>1, <2>1, <2>2 DEF IInv, Progress
<1>4. client' \in Clients /\ (stage' # "exited" => Registered')
  BY <1>1 DEF IInv, Registered
<1>5. ASSUME NEW stdin, NEW time \in Int, NEW mem \in Int,
             ~(time > l.run.time), ~(mem > l.run.mem), Start(stdin, time, mem)
      PROVE  /\ JailWithinLanguage' /\ IsList(jails') /\ jails' # << >>
             /\ req'.language \in DOMAIN languages'
             /\ IsList(results') /\ Len(results') = Len(results) + 1
  <2>1. Within(RunJail(l, req, stdin, time, mem), Len(jails) + 1, l)
    BY <1>2, <1>3, <1>5, RunWithin
  <2>2. jails' = Append(jails, RunJail(l, req, stdin, time, mem)) BY <1>5 DEF Start
  <2>3. results' = Append(results, [status |-> "executed", fed |-> stdin]) BY <1>5 DEF Start
  <2> QED BY <1>1, <1>2, <1>3, <2>1, <2>2, <2>3, OneMoreJail, Appended
<1>6. CASE req.tests = << >>
  <2>1. stage' = "ran" /\ Start(None, req.time, req.mem) BY <1>6 DEF RunTest
  <2>2. /\ req.time \in Int /\ req.mem \in Int
        /\ ~(req.time > l.run.time) /\ ~(req.mem > l.run.mem)
    BY <1>2 DEF Measured, Numbers, Admitted, TooBig
  <2>3. /\ JailWithinLanguage' /\ IsList(jails') /\ jails' # << >>
        /\ req'.language \in DOMAIN languages'
    BY <1>5, <2>1, <2>2
  <2> QED BY <1>4, <2>1, <2>3 DEF IInv, JobMeasured, Checked, Progress
<1>7. CASE req.tests # << >>
  <2> DEFINE i == Len(results) + 1
             t == req.tests[i]
  <2>1. /\ Start(t.input, t.time, t.mem)
        /\ stage' = IF i = Len(req.tests) THEN "ran" ELSE "running"
    BY <1>7 DEF RunTest
  <2>2. /\ Len(results) \in Nat /\ Len(req.tests) \in Nat /\ i \in DOMAIN req.tests
    <3>1. Len(results) \in Nat BY <1>3, SequenceFacts
    <3>2. Len(req.tests) \in Nat /\ DOMAIN req.tests = 1..Len(req.tests)
      BY <1>2, SequenceFacts DEF Measured
    <3> QED BY <1>3, <1>7, <3>1, <3>2
  <2> HIDE DEF i
  <2>3. /\ t.time \in Int /\ t.mem \in Int
        /\ ~(t.time > l.run.time) /\ ~(t.mem > l.run.mem)
    BY <1>2, <2>2 DEF Measured, Numbers, Admitted, TooBig
  <2>4. /\ JailWithinLanguage' /\ IsList(jails') /\ jails' # << >>
        /\ req'.language \in DOMAIN languages'
        /\ IsList(results') /\ Len(results') = Len(results) + 1
    BY <1>5, <2>1, <2>3
  <2>5. CASE i = Len(req.tests)
    <3>1. stage' = "ran" BY <2>1, <2>5
    <3> QED BY <1>4, <2>4, <3>1 DEF IInv, JobMeasured, Checked, Progress
  <2>6. CASE i # Len(req.tests)
    <3>1. stage' = "running" BY <2>1, <2>6
    <3>2. Len(results') < Len(req'.tests) BY <1>1, <1>3, <1>7, <2>2, <2>4, <2>6 DEF i
    <3>3. Checked' BY <1>1, <1>2 DEF Checked, Measured, Admitted, BadFlags, TooBig
    <3>4. Progress' BY <2>4, <3>1, <3>2 DEF Progress
    <3> QED BY <1>4, <2>4, <3>1, <3>3, <3>4 DEF IInv, JobMeasured
  <2> QED BY <2>5, <2>6
<1> QED BY <1>6, <1>7

LEMMA NextInv == IInv /\ [Next]_vars => IInv'
<1> SUFFICES ASSUME IInv, [Next]_vars PROVE IInv' OBVIOUS
<1>1. CASE RefuseSubmission
  BY <1>1, AnsweredStep DEF RefuseSubmission, Answer
<1>2. CASE CreateSubmission BY <1>2, CreateStep
<1>3. CASE BuildRequest BY <1>3, BuildRequestStep
<1>4. CASE CannotBuild BY <1>4, AnsweredStep DEF CannotBuild, Answer
<1>5. CASE DecodeRun BY <1>5, DecodeStep
<1>11. CASE Overload BY <1>11, AnsweredStep DEF Overload, Report, Answer
<1>6. CASE Validate BY <1>6, ValidateStep
<1>7. CASE RunBuild BY <1>7, RunBuildStep
<1>8. CASE RunTest BY <1>8, RunTestStep
<1>9. CASE Respond BY <1>9, AnsweredStep DEF Respond, Answer
<1>10. CASE UNCHANGED vars
  BY <1>10 DEF vars, IInv, Registered, JobMeasured, Checked, Progress, JailWithinLanguage,
               Measured, Numbers, Admitted, BadFlags, TooBig
<1> QED BY <1>1, <1>2, <1>3, <1>4, <1>5, <1>6, <1>7, <1>8, <1>9, <1>10, <1>11 DEF Next

LEMMA Inductive == SafeSpec => []IInv
<1>1. Init => IInv BY InitInv
<1>2. IInv /\ [Next]_vars => IInv' BY NextInv
<1> QED BY <1>1, <1>2, PTL DEF SafeSpec

----------------------------------------------------------------------------
(* The theorems.                                                           *)

\* "users can lower limits, never raise them above what the YAML allows": boundOverrides
\* and filterFlags stand between every request and nsjail, for whatever units, signs and
\* roundings the limits went through on their way.
THEOREM JailSafe == SafeSpec => []JailWithinLanguage
<1>1. IInv => JailWithinLanguage BY DEF IInv
<1> QED BY <1>1, Inductive, PTL
============================================================================
