---------------------------- MODULE Judge_proofs -----------------------------
(***************************************************************************)
(* Theorems about Judge.tla, for all limits, programs, numbers of tests    *)
(* and moments of cancellation: verdicts are earned, in time and fair, and *)
(* a deadline is overrun only by the time that a program held its output.  *)
(*                                                                         *)
(* All of it rests on what one sandbox call may answer (SandboxShape and   *)
(* the lemmas after it); the invariant then says it of every test so far.  *)
(***************************************************************************)
EXTENDS Judge, WellFoundedInduction, TLAPS

\* What is known of a single test result t at time now, whoever asks.
Clean == {"accepted", "wrong_output", "output_whitespace_mismatch"}

Elapsed(t) == t.prog.runs + t.held

Earned(t) ==
  t.status \in Clean =>
    t.how = "own" /\ t.prog.code = 0 /\ t.prog.runs <= RunLimit + Grace

Prompt(t, now) ==
  t.status \in Clean => Elapsed(t) <= RunLimit + Grace \/ cancelAt <= now

Blame(t, now) ==
  /\ t.status = "memory_exceeded" =>
       \/ t.how = "own" /\ t.prog.code = SIGKILL /\ Elapsed(t) < RunLimit
       \/ cancelAt <= now
  /\ t.status = "runtime_error" => t.how = "jail" \/ (t.how = "own" /\ t.prog.code # 0)
  /\ t.status = "time_exceeded" =>
       \/ t.how \in {"limit", "cut"}
       \/ /\ t.how = "own"
          /\ Elapsed(t) >= RunLimit - Margin \/ t.prog.code = SIGXCPU \/ now >= ctxEnd
  /\ t.how = "jail" => t.status = "runtime_error"

----------------------------------------------------------------------------
(* One sandbox call.                                                       *)

\* The error that cmd.Wait makes of a late success.
Late(p, x) == [took |-> x.at + Held(p, x), held |-> Held(p, x), err |-> TRUE, how |-> "cut"]

Found(p, limit, x) == Expiry(limit, x.at + Held(p, x), x.how)

\* The kinds of answers: no process, one that ended, and a late success.
LEMMA SandboxShape ==
  ASSUME NEW p, NEW limit, HardEnd(limit) \in Int, NEW a \in SandboxRun(p, limit)
  PROVE  \/ a = NotStarted
         \/ /\ ~(HardEnd(limit) <= 0)
            /\ \/ \E x \in Ends(p, limit) : \E e \in Found(p, limit, x) : a = Ended(p, x, limit, e)
               \/ \E x \in Ends(p, limit) : a = Late(p, x)
<1>1. ASSUME a \in Answers(p, limit)
      PROVE  \E x \in Ends(p, limit) : \E e \in Found(p, limit, x) : a = Ended(p, x, limit, e)
  BY <1>1, Zenon DEF Answers, Found
<1>2. ASSUME a \in Dropped(p, limit), ~(HardEnd(limit) <= 0)
      PROVE  \E x \in Exits(p, limit) : x.at = HardEnd(limit) /\ a = Late(p, x)
  BY <1>2 DEF Dropped, Late
<1>3. \A x \in Exits(p, limit) : x.at = HardEnd(limit) => x \in Ends(p, limit)
  BY DEF Ends
<1>4. CASE a \in Answers(p, limit) /\ ~(HardEnd(limit) <= 0)
  BY <1>1, <1>4
<1>5. CASE a \in Dropped(p, limit) /\ ~(HardEnd(limit) <= 0)
  BY <1>2, <1>3, <1>5
<1> QED BY <1>4, <1>5 DEF SandboxRun

\* What the end of a process is, killed ones included.
LEMMA EndFacts ==
  ASSUME NEW p \in Programs, NEW limit \in Nat, HardEnd(limit) \in Nat,
         NEW x \in Ends(p, limit)
  PROVE  /\ x.at \in Nat /\ x.code \in Nat /\ x.at <= HardEnd(limit) /\ Held(p, x) \in Nat
         /\ \/ x.how = "own" /\ x.at = p.runs /\ x.code = p.code
            \/ x.how = "jail" /\ x.at = 0 /\ x.code = JailFault /\ Held(p, x) = 0
            \/ x.how = "limit" /\ x.at >= limit /\ x.code \in {SIGKILL, SIGXCPU}
            \/ x.how = "cut" /\ x.at = HardEnd(limit) /\ x.code = SIGKILL
<1>1. p.runs \in Nat /\ p.code \in Nat /\ p.holds \in Nat
  BY JudgeAssumption DEF JudgeAssumption
<1>2. Held(p, x) \in Nat /\ (x.how = "jail" => Held(p, x) = 0) BY <1>1 DEF Held
<1>3. CASE x \in Exits(p, limit) /\ x.at <= HardEnd(limit)
  BY <1>1, <1>2, <1>3, JudgeAssumption DEF JudgeAssumption, Exits, SIGKILL, SIGXCPU, JailFault
<1>4. CASE x = Killed(limit)
  BY <1>2, <1>4 DEF Killed, SIGKILL
<1> QED BY <1>3, <1>4 DEF Ends

\* The end of the context is a moment, and so is the end of hardCtx before it.
LEMMA CtxEndNat ==
  ASSUME cancelAt \in CancelTimes
  PROVE  ctxEnd \in Nat /\ ctxEnd <= CtxTimeout /\ ctxEnd <= cancelAt
BY JudgeAssumption DEF JudgeAssumption, ctxEnd, Least

\* hardCtx ends in time for its phase and for the context of the call.
LEMMA HardEndNat ==
  ASSUME cancelAt \in CancelTimes, clock \in Nat, NEW limit \in Nat
  PROVE  /\ HardEnd(limit) \in Int
         /\ HardEnd(limit) <= limit + Grace
         /\ clock + HardEnd(limit) <= ctxEnd
         /\ ~(HardEnd(limit) <= 0) => HardEnd(limit) \in Nat /\ HardEnd(limit) > 0
<1>1. limit + Grace \in Nat BY JudgeAssumption DEF JudgeAssumption, Grace
<1> QED BY <1>1, CtxEndNat DEF HardEnd, Least

\* What a call takes, apart from the holding, is inside its phase and its context.
LEMMA CallInTime ==
  ASSUME cancelAt \in CancelTimes, clock \in Nat,
         NEW limit \in Nat, NEW p \in Programs, NEW a \in SandboxRun(p, limit)
  PROVE  /\ a.took \in Nat /\ a.held \in Nat /\ a.how \in Hows
         /\ a.how = "unstarted" => a.took = 0
         /\ a.how # "unstarted" =>
              /\ clock + a.took <= ctxEnd + a.held
              /\ a.took <= limit + Grace + a.held
<1>1. CASE a = NotStarted
  BY <1>1 DEF NotStarted, Hows
<1>2. CASE ~(HardEnd(limit) <= 0) /\ a # NotStarted
  <2>1. /\ HardEnd(limit) \in Nat
        /\ HardEnd(limit) <= limit + Grace
        /\ clock + HardEnd(limit) <= ctxEnd
    BY <1>2, HardEndNat
  <2>2. limit + Grace \in Nat BY JudgeAssumption DEF JudgeAssumption, Grace
  <2>3. PICK x \in Ends(p, limit) : /\ a.took = x.at + Held(p, x) /\ a.held = Held(p, x)
                                    /\ a.how = x.how \/ a.how = "cut"
    BY <1>2, <2>1, SandboxShape DEF Ended, Late
  <2>4. x.at \in Nat /\ x.at <= HardEnd(limit) /\ Held(p, x) \in Nat
        /\ x.how \in {"own", "jail", "limit", "cut"}
    BY <2>1, EndFacts
  <2> QED BY <2>1, <2>2, <2>3, <2>4, CtxEndNat DEF Hows
<1> QED BY <1>1, <1>2, HardEndNat, SandboxShape

----------------------------------------------------------------------------
(* What runOne makes of it.                                                *)

\* A deadline is that of the phase or that of the context; anything else that ends
\* hardCtx is a cancellation.
LEMMA ExpiryFacts ==
  ASSUME cancelAt \in CancelTimes, clock \in Nat, ~(HardEnd(RunLimit) <= 0),
         NEW t \in Nat, NEW how, NEW e \in Expiry(RunLimit, t, how)
  PROVE  /\ e \in BOOLEAN
         /\ e => t >= HardEnd(RunLimit) /\ (t >= RunLimit - Margin \/ clock + t >= ctxEnd)
         /\ ~e => (how # "cut" /\ t <= HardEnd(RunLimit)) \/ cancelAt <= clock + t
<1>1. /\ RunLimit \in Nat /\ Margin \in Nat /\ Grace \in Nat
      /\ CtxTimeout \in Nat /\ cancelAt \in Nat
  BY JudgeAssumption DEF JudgeAssumption, Grace
<1>2. HardEnd(RunLimit) \in Nat /\ clock + HardEnd(RunLimit) <= ctxEnd
  BY <1>1, HardEndNat
<1>3. ctxEnd \in Nat /\ ctxEnd <= CtxTimeout BY CtxEndNat
<1>4. e \in BOOLEAN BY DEF Expiry
<1>5. ASSUME e
      PROVE  /\ t >= HardEnd(RunLimit)
             /\ HardEnd(RunLimit) = RunLimit + Grace \/ HardEnd(RunLimit) = CtxTimeout - clock
  BY <1>5 DEF Expiry
<1>6. ASSUME ~e
      PROVE  \/ how # "cut" /\ t <= HardEnd(RunLimit)
             \/ t >= HardEnd(RunLimit) /\ HardEnd(RunLimit) = cancelAt - clock
  BY <1>6 DEF Expiry
<1> QED BY <1>1, <1>2, <1>3, <1>4, <1>5, <1>6

\* How the switch in runOne reads a process that ended.
LEMMA Reading ==
  ASSUME NEW p, NEW limit, NEW e \in BOOLEAN, NEW x
  PROVE  LET a == Ended(p, x, limit, e)
             took == x.at + Held(p, x)
             timedOut == \/ e
                         \/ x.code = SIGKILL /\ took >= limit - Margin
                         \/ x.code = SIGXCPU
             oom == x.code = SIGKILL /\ took < limit - Margin
         IN  RunOne(a) = IF timedOut THEN "time_exceeded"
                         ELSE IF oom THEN "memory_exceeded"
                         ELSE IF x.code # 0 THEN "runtime_error"
                         ELSE "accepted"
BY DEF Ended, Classify, RunOne

\* The status s of a test is that of runOne, or the comparison that follows a clean
\* run.
Reads(s, a) == (RunOne(a) = "accepted" /\ s \in Clean) \/ s = RunOne(a)

\* A process that ended: what runOne says of it is earned, prompt and fair.
LEMMA FairOfEnd ==
  ASSUME cancelAt \in CancelTimes, clock \in Nat, ~(HardEnd(RunLimit) <= 0),
         NEW p \in Programs, NEW x \in Ends(p, RunLimit), NEW e \in Found(p, RunLimit, x),
         NEW s, Reads(s, Ended(p, x, RunLimit, e)),
         NEW t, t.status = s, t.how = x.how, t.held = Held(p, x), t.prog = p
  PROVE  /\ Earned(t)
         /\ Prompt(t, clock + x.at + Held(p, x))
         /\ Blame(t, clock + x.at + Held(p, x))
<1>1. /\ RunLimit \in Nat /\ Margin \in Nat /\ Grace \in Nat
      /\ p.runs \in Nat /\ p.code \in Nat
  BY JudgeAssumption DEF JudgeAssumption, Grace
<1>2. /\ HardEnd(RunLimit) \in Nat /\ HardEnd(RunLimit) > 0
      /\ HardEnd(RunLimit) <= RunLimit + Grace
  BY <1>1, HardEndNat
<1>3. /\ x.at \in Nat /\ x.code \in Nat /\ x.at <= HardEnd(RunLimit) /\ Held(p, x) \in Nat
      /\ \/ x.how = "own" /\ x.at = p.runs /\ x.code = p.code
         \/ x.how = "jail" /\ x.at = 0 /\ x.code = JailFault /\ Held(p, x) = 0
         \/ x.how = "limit" /\ x.at >= RunLimit /\ x.code \in {SIGKILL, SIGXCPU}
         \/ x.how = "cut" /\ x.at = HardEnd(RunLimit) /\ x.code = SIGKILL
  BY <1>1, <1>2, EndFacts
<1> DEFINE took == x.at + Held(p, x)
           now == clock + x.at + Held(p, x)
           timedOut == \/ e
                       \/ x.code = SIGKILL /\ took >= RunLimit - Margin
                       \/ x.code = SIGXCPU
           oom == x.code = SIGKILL /\ took < RunLimit - Margin
<1>4. /\ took \in Nat /\ now = clock + took /\ e \in BOOLEAN
      /\ e => took >= HardEnd(RunLimit) /\ (took >= RunLimit - Margin \/ now >= ctxEnd)
      /\ ~e => (x.how # "cut" /\ took <= HardEnd(RunLimit)) \/ cancelAt <= now
  <2>1. took \in Nat /\ now = clock + took BY <1>3
  <2>2. e \in Expiry(RunLimit, took, x.how) BY DEF Found
  <2> HIDE DEF took
  <2> QED BY <2>1, <2>2, ExpiryFacts
<1>5. RunOne(Ended(p, x, RunLimit, e)) =
        IF timedOut THEN "time_exceeded"
        ELSE IF oom THEN "memory_exceeded"
        ELSE IF x.code # 0 THEN "runtime_error"
        ELSE "accepted"
  BY <1>4, Reading
<1>6. /\ s \in Clean => ~timedOut /\ ~oom /\ x.code = 0
      /\ s = "memory_exceeded" => ~timedOut /\ oom
      /\ s = "runtime_error" => ~timedOut /\ ~oom /\ x.code # 0
      /\ s = "time_exceeded" => timedOut
      /\ ~timedOut /\ ~oom /\ x.code # 0 => s = "runtime_error"
  BY <1>5 DEF Reads, Clean
<1>7. x.how = "own" => Elapsed(t) = took BY <1>3 DEF Elapsed
<1>8. cancelAt \in Nat /\ ctxEnd \in Nat /\ now \in Nat
  BY <1>3, CtxEndNat, JudgeAssumption DEF JudgeAssumption
<1>9. Earned(t)
  BY <1>1, <1>2, <1>3, <1>6 DEF Earned, SIGKILL, SIGXCPU, JailFault
<1>10. Prompt(t, now)
  <2>1. SUFFICES ASSUME s \in Clean PROVE Elapsed(t) <= RunLimit + Grace \/ cancelAt <= now
    BY DEF Prompt
  <2>2. x.how = "own" BY <2>1, <1>9 DEF Earned
  <2>3. ~e BY <2>1, <1>6
  <2> QED BY <2>2, <2>3, <1>1, <1>2, <1>4, <1>7, <1>8
<1>11. Blame(t, now)
  <2>1. s = "memory_exceeded" =>
          \/ x.how = "own" /\ p.code = SIGKILL /\ Elapsed(t) < RunLimit
          \/ cancelAt <= now
    <3>1. SUFFICES ASSUME s = "memory_exceeded"
                   PROVE  \/ x.how = "own" /\ p.code = SIGKILL /\ Elapsed(t) < RunLimit
                          \/ cancelAt <= now
      OBVIOUS
    <3>2. ~e /\ x.code = SIGKILL /\ took < RunLimit - Margin BY <3>1, <1>6
    <3>3. took < RunLimit BY <3>2, <1>1, <1>4
    <3>4. x.how = "own" \/ x.how = "cut"
      BY <3>2, <3>3, <1>1, <1>3 DEF SIGKILL, JailFault
    <3> QED BY <3>2, <3>3, <3>4, <1>3, <1>4, <1>7
  <2>2. s = "runtime_error" => x.how = "jail" \/ (x.how = "own" /\ p.code # 0)
    <3>1. SUFFICES ASSUME s = "runtime_error", x.how # "jail"
                   PROVE  x.how = "own" /\ p.code # 0
      OBVIOUS
    <3>2. x.code # SIGKILL /\ x.code # SIGXCPU /\ x.code # 0
      BY <3>1, <1>1, <1>4, <1>6
    <3> QED BY <3>1, <3>2, <1>3
  <2>3. s = "time_exceeded" =>
          \/ x.how \in {"limit", "cut"}
          \/ /\ x.how = "own"
             /\ Elapsed(t) >= RunLimit - Margin \/ p.code = SIGXCPU \/ now >= ctxEnd
    <3>1. x.how = "jail" => ~timedOut
      BY <1>2, <1>3, <1>4 DEF SIGKILL, SIGXCPU, JailFault
    <3>2. x.how = "own" /\ timedOut =>
            took >= RunLimit - Margin \/ p.code = SIGXCPU \/ now >= ctxEnd
      BY <1>3, <1>4
    <3> QED BY <3>1, <3>2, <1>3, <1>6, <1>7
  <2>4. x.how = "jail" => s = "runtime_error"
    BY <1>2, <1>3, <1>4, <1>6 DEF SIGKILL, SIGXCPU, JailFault
  <2> HIDE DEF now
  <2> QED BY <2>1, <2>2, <2>3, <2>4 DEF Blame
<1> QED BY <1>9, <1>10, <1>11

\* The same of whatever a sandbox call answers.
LEMMA FairOfCall ==
  ASSUME cancelAt \in CancelTimes, clock \in Nat,
         NEW p \in Programs, NEW a \in SandboxRun(p, RunLimit),
         NEW s, Reads(s, a),
         NEW t, t.status = s, t.how = a.how, t.held = a.held, t.prog = p
  PROVE  Earned(t) /\ Prompt(t, clock + a.took) /\ Blame(t, clock + a.took)
<1>0. RunLimit \in Nat BY JudgeAssumption DEF JudgeAssumption
<1>1. CASE a.err /\ a.how \in {"unstarted", "cut"}
  <2>1. s = "internal_error" BY <1>1 DEF Reads, RunOne
  <2> QED BY <1>1, <2>1 DEF Earned, Prompt, Blame, Clean
<1>2. ASSUME ~(HardEnd(RunLimit) <= 0),
             NEW x \in Ends(p, RunLimit), NEW e \in Found(p, RunLimit, x),
             a = Ended(p, x, RunLimit, e)
      PROVE  Earned(t) /\ Prompt(t, clock + a.took) /\ Blame(t, clock + a.took)
  <2>1. a.took = x.at + Held(p, x) /\ a.how = x.how /\ a.held = Held(p, x)
    BY <1>2 DEF Ended
  <2>2. Reads(s, Ended(p, x, RunLimit, e)) BY <1>2
  <2>3. /\ Earned(t)
        /\ Prompt(t, clock + x.at + Held(p, x))
        /\ Blame(t, clock + x.at + Held(p, x))
    BY <1>2, <2>1, <2>2, FairOfEnd
  <2>4. HardEnd(RunLimit) \in Nat BY <1>0, <1>2, HardEndNat
  <2>5. clock + x.at + Held(p, x) = clock + a.took
    BY <1>0, <2>1, <2>4, EndFacts
  <2> QED BY <2>3, <2>5
<1>3. \/ a.err /\ a.how \in {"unstarted", "cut"}
      \/ /\ ~(HardEnd(RunLimit) <= 0)
         /\ \E x \in Ends(p, RunLimit) : \E e \in Found(p, RunLimit, x) :
              a = Ended(p, x, RunLimit, e)
  BY <1>0, HardEndNat, SandboxShape DEF NotStarted, Late
<1> QED BY <1>1, <1>2, <1>3

\* What runOne and runTest may say.
LEMMA RunOneReads ==
  ASSUME NEW a
  PROVE  RunOne(a) \in Statuses /\ Reads(RunOne(a), a)
<1> DEFINE s == RunOne(a)
<1>1. s \in {"internal_error", "time_exceeded", "memory_exceeded", "runtime_error", "accepted"}
  BY DEF RunOne
<1> QED BY <1>1 DEF Reads, Statuses

\* Equal output is what makes a clean run accepted.
LEMMA RunTestReads ==
  ASSUME NEW a, NEW text \in Texts
  PROVE  /\ RunTest(a, text) \in Statuses
         /\ Reads(RunTest(a, text), a)
         /\ RunTest(a, text) = "accepted" => text = "exact"
<1>1. RunOne(a) \in Statuses BY RunOneReads
<1>2. CASE RunOne(a) = "accepted"
  BY <1>2 DEF RunTest, Reads, Clean, Statuses, Texts
<1>3. CASE RunOne(a) # "accepted"
  BY <1>1, <1>3 DEF RunTest, Reads
<1> QED BY <1>2, <1>3

----------------------------------------------------------------------------
(* rollup                                                                  *)

\* A set of indices has a first one.
LEMMA FirstOf ==
  ASSUME NEW T \in SUBSET Nat, T # {}
  PROVE  \E m \in T : \A n \in T : m <= n
<1> DEFINE Below == {ss \in Nat \X Nat : ss[1] < ss[2]}
<1>1. OpToRel(<, Nat) = Below BY Zenon DEF OpToRel
<1>2. IsWellFoundedOn(Below, Nat) BY NatLessThanWellFounded, <1>1, Zenon
<1> HIDE DEF Below
<1>3. PICK m \in T : \A n \in T : <<n, m>> \notin Below BY <1>2, WFMin
<1>4. ASSUME NEW n \in T PROVE m <= n
  <2>1. <<n, m>> \in Nat \X Nat /\ ~(n < m) BY <1>3 DEF Below
  <2> QED BY <2>1
<1> QED BY <1>4

\* The roll-up is accepted only when every test is, and with a single test it is
\* the status of that test.
LEMMA RollupFacts ==
  ASSUME NEW ts \in Seq(TestRecord)
  PROVE  /\ Rollup(ts) \in Statuses
         /\ Rollup(ts) = "accepted" => \A i \in DOMAIN ts : ts[i].status = "accepted"
         /\ Len(ts) = 1 => Rollup(ts) = ts[1].status
<1> DEFINE bad == {i \in DOMAIN ts : ts[i].status # "accepted"}
<1>0. /\ ts \in [1..Len(ts) -> TestRecord] /\ DOMAIN ts = 1..Len(ts)
      /\ bad \in SUBSET Nat
  OBVIOUS
<1>1. CASE bad = {}
  <2>1. Rollup(ts) = "accepted" BY <1>1 DEF Rollup
  <2>2. \A i \in DOMAIN ts : ts[i].status = "accepted" BY <1>1
  <2> QED BY <2>1, <2>2 DEF Statuses
<1>2. CASE bad # {}
  <2> DEFINE first == CHOOSE i \in bad : \A j \in bad : i <= j
  <2>1. \E i \in bad : \A j \in bad : i <= j BY <1>0, <1>2, FirstOf
  <2>2. first \in bad BY <2>1
  <2>3. Rollup(ts) = ts[first].status BY <1>2 DEF Rollup
  <2>4. first \in DOMAIN ts /\ ts[first].status # "accepted" BY <2>2
  <2> HIDE DEF first
  <2>5. ts[first].status \in Statuses BY <1>0, <2>4 DEF TestRecord
  <2>6. Len(ts) = 1 => first = 1 BY <1>0, <2>4
  <2> QED BY <2>3, <2>4, <2>5, <2>6
<1> QED BY <1>1, <1>2

----------------------------------------------------------------------------
(* The invariant.                                                          *)

\* What holds of every test so far.
Sound(t, now) ==
  /\ Earned(t)
  /\ Prompt(t, now)
  /\ Blame(t, now)
  /\ t.status = "accepted" /\ req.tests > 0 /\ req.type # "run" => t.prog.text = "exact"

\* A status of the response stands for the tests it was rolled up from.
Rolled ==
  resp \in Statuses =>
    /\ Len(tests) = Judged
    /\ resp = "accepted" => \A i \in DOMAIN tests : tests[i].status = "accepted"
    /\ Len(tests) = 1 => tests[1].status = resp

\* What was published was published before the cancellation.
Timely == Published => ~(cancelAt <= clock)

IInv ==
  /\ TypeOK
  /\ OverrunIsHeld
  /\ \A i \in DOMAIN tests : Sound(tests[i], clock)
  /\ Rolled
  /\ Timely

\* The invariant holds when Run is called.
LEMMA InitInv == ASSUME Init PROVE IInv
<1>1. cancelAt \in Nat /\ ctxEnd \in Nat
  BY CtxEndNat, JudgeAssumption DEF Init, JudgeAssumption
<1>2. req.tests \in Nat BY JudgeAssumption DEF Init, Requests, JudgeAssumption
<1>3. TypeOK BY <1>2 DEF Init, TypeOK, Judged
<1>4. OverrunIsHeld
  BY <1>1, JudgeAssumption DEF Init, OverrunIsHeld, Grace, JudgeAssumption
<1> QED BY <1>3, <1>4 DEF Init, IInv, Rolled, Timely, Published, Statuses

\* Time that passes takes nothing back.
LEMMA SoundLater ==
  ASSUME cancelAt \in CancelTimes, clock \in Nat, NEW later \in Nat,
         clock <= later, NEW t, Sound(t, clock)
  PROVE  Sound(t, later)
<1>1. cancelAt \in Nat /\ ctxEnd \in Nat BY CtxEndNat, JudgeAssumption DEF JudgeAssumption
<1>2. cancelAt <= clock => cancelAt <= later BY <1>1
<1>3. clock >= ctxEnd => later >= ctxEnd BY <1>1
<1>4. Prompt(t, later) BY <1>2 DEF Sound, Prompt
<1>5. Blame(t, later) BY <1>2, <1>3 DEF Sound, Blame
<1> QED BY <1>4, <1>5 DEF Sound

\* A sandbox call moves the clock on, past the context only by what was held.
LEMMA CallInv ==
  ASSUME cancelAt \in CancelTimes, clock \in Nat, OverrunIsHeld,
         last \in [limit : Nat, took : Nat, held : Nat],
         NEW limit \in Nat, NEW p \in Programs, NEW a \in SandboxRun(p, limit),
         clock' = clock + a.took, Note(a, limit), cancelAt' = cancelAt
  PROVE  /\ clock' \in Nat /\ clock <= clock'
         /\ last' \in [limit : Nat, took : Nat, held : Nat]
         /\ OverrunIsHeld'
<1>1. /\ a.took \in Nat /\ a.held \in Nat
      /\ a.how = "unstarted" => a.took = 0
      /\ a.how # "unstarted" =>
           clock + a.took <= ctxEnd + a.held /\ a.took <= limit + Grace + a.held
  BY CallInTime
<1>2. ctxEnd' = ctxEnd /\ Grace' = Grace BY DEF ctxEnd, Grace
<1>3. CASE a.how = "unstarted"
  <2>1. last' = last /\ clock' = clock BY <1>1, <1>3 DEF Note
  <2> QED BY <1>2, <2>1 DEF OverrunIsHeld
<1>4. CASE a.how # "unstarted"
  <2>1. last' = [limit |-> limit, took |-> a.took, held |-> a.held] BY <1>4 DEF Note
  <2> QED BY <1>1, <1>2, <1>4, <2>1 DEF OverrunIsHeld
<1> QED BY <1>3, <1>4

\* The build takes its share of the time and adds no test.
LEMMA BuildInv == ASSUME IInv, RunBuild PROVE IInv'
<1> USE DEF IInv
<1>0. /\ BuildLimit \in Nat /\ cancelAt \in CancelTimes /\ clock \in Nat
      /\ last \in [limit : Nat, took : Nat, held : Nat]
  BY JudgeAssumption DEF JudgeAssumption, TypeOK
<1> DEFINE Step(a) == /\ clock' = clock + a.took /\ Note(a, BuildLimit)
                      /\ \/ phase' = "returned" /\ resp' \in {"error", "build_failed"}
                         \/ phase' = "tests" /\ resp' = resp
<1>a. PICK p \in Programs : \E a \in SandboxRun(p, BuildLimit) : Step(a) BY DEF RunBuild
<1>1. PICK a \in SandboxRun(p, BuildLimit) : Step(a) BY <1>a
<1>2. UNCHANGED <<req, cancelAt, tests, outcome>> /\ ctxEnd' = ctxEnd /\ Judged' = Judged
  BY DEF RunBuild, ctxEnd, Judged
<1>3. /\ clock' \in Nat /\ clock <= clock'
      /\ last' \in [limit : Nat, took : Nat, held : Nat]
      /\ OverrunIsHeld'
  BY <1>0, <1>1, <1>2, CallInv
<1>4. TypeOK' BY <1>1, <1>2, <1>3 DEF TypeOK
<1>5. \A i \in DOMAIN tests : Sound(tests[i], clock')
  BY <1>0, <1>3, SoundLater
<1>6. \A i \in DOMAIN tests' : Sound(tests[i], clock)'
  BY <1>2, <1>5 DEF Sound, Earned, Prompt, Blame, ctxEnd
<1>7. Rolled' /\ Timely' BY <1>1, <1>2 DEF Rolled, Timely, Published, Statuses
<1> QED BY <1>3, <1>4, <1>6, <1>7

\* A test that is added is sound at the time it ends, and the earlier ones still are.
LEMMA TestInv == ASSUME IInv, RunNext PROVE IInv'
<1> USE DEF IInv
<1>0. /\ RunLimit \in Nat /\ cancelAt \in CancelTimes /\ clock \in Nat
      /\ last \in [limit : Nat, took : Nat, held : Nat]
      /\ tests \in Seq(TestRecord) /\ Len(tests) \in Nat /\ Judged \in Nat
  BY JudgeAssumption DEF JudgeAssumption, TypeOK, Judged, Requests
<1> DEFINE s(p, a) == IF req.tests = 0 THEN RunOne(a) ELSE RunTest(a, p.text)
           t(p, a) == [status |-> s(p, a), how |-> a.how, held |-> a.held, prog |-> p]
<1>a. PICK p \in Programs : \E a \in SandboxRun(p, RunLimit) :
        clock' = clock + a.took /\ Note(a, RunLimit) /\ tests' = Append(tests, t(p, a))
  BY DEF RunNext
<1>1. PICK a \in SandboxRun(p, RunLimit) :
        clock' = clock + a.took /\ Note(a, RunLimit) /\ tests' = Append(tests, t(p, a))
  BY <1>a
<1>2. /\ UNCHANGED <<req, cancelAt, phase, resp, outcome>>
      /\ ctxEnd' = ctxEnd /\ Judged' = Judged /\ phase = "tests" /\ Len(tests) < Judged
  BY DEF RunNext, ctxEnd, Judged
<1>3. /\ clock' \in Nat /\ clock <= clock'
      /\ last' \in [limit : Nat, took : Nat, held : Nat]
      /\ OverrunIsHeld'
      /\ a.how \in Hows /\ a.held \in Nat
  BY <1>0, <1>1, <1>2, CallInv, CallInTime
<1>4. p.text \in Texts BY JudgeAssumption DEF JudgeAssumption
<1>5. /\ s(p, a) \in Statuses /\ Reads(s(p, a), a)
      /\ s(p, a) = "accepted" /\ req.tests # 0 => p.text = "exact"
  BY <1>4, RunOneReads, RunTestReads
<1>6. t(p, a) \in TestRecord BY <1>3, <1>5 DEF TestRecord
<1>7. /\ tests' = Append(tests, t(p, a)) /\ tests' \in Seq(TestRecord)
      /\ Len(tests') = Len(tests) + 1
      /\ \A i \in DOMAIN tests' : tests'[i] = t(p, a) \/ \E j \in DOMAIN tests : tests'[i] = tests[j]
  BY <1>0, <1>1, <1>6
<1>8. TypeOK' BY <1>0, <1>2, <1>3, <1>7 DEF TypeOK
<1>9. \A i \in DOMAIN tests : Sound(tests[i], clock')
  BY <1>0, <1>3, SoundLater
<1>10. Sound(t(p, a), clock')
  <2>1. /\ Earned(t(p, a)) /\ Prompt(t(p, a), clock + a.took)
        /\ Blame(t(p, a), clock + a.took)
    BY <1>0, <1>5, FairOfCall
  <2>2. req.tests > 0 => req.tests # 0 OBVIOUS
  <2> QED BY <1>1, <1>5, <2>1, <2>2 DEF Sound
<1>11. \A i \in DOMAIN tests' : Sound(tests'[i], clock') BY <1>7, <1>9, <1>10
<1>12. \A i \in DOMAIN tests' : Sound(tests[i], clock)'
  BY <1>2, <1>11 DEF Sound, Earned, Prompt, Blame, ctxEnd
<1>13. Rolled' /\ Timely' BY <1>0, <1>2 DEF Rolled, Timely, Published
<1> QED BY <1>3, <1>8, <1>12, <1>13

\* The end of the loop: the response is rolled up.
LEMMA ReturnInv == ASSUME IInv, Return PROVE IInv'
<1> USE DEF IInv
<1>1. /\ UNCHANGED <<req, cancelAt, clock, tests, last, outcome>> /\ ctxEnd' = ctxEnd
      /\ Judged' = Judged /\ Len(tests) = Judged /\ phase' = "returned"
      /\ resp' = Rollup(tests) /\ tests \in Seq(TestRecord)
  BY DEF Return, ctxEnd, Judged, TypeOK
<1>2. TypeOK' BY <1>1, RollupFacts DEF TypeOK
<1>3. Rolled' BY <1>1, RollupFacts DEF Rolled
<1>4. OverrunIsHeld' /\ Timely' BY <1>1 DEF OverrunIsHeld, Timely, Published, Grace
<1>5. \A i \in DOMAIN tests' : Sound(tests[i], clock)'
  BY <1>1 DEF Sound, Earned, Prompt, Blame, ctxEnd
<1> QED BY <1>2, <1>3, <1>4, <1>5

\* The lenient reading of a playground run turns one clean status into another, in
\* the response and in its only test alike.
LEMMA PublishInv == ASSUME IInv, Publish PROVE IInv'
<1> USE DEF IInv
<1> DEFINE published(i) == [tests[i] EXCEPT !.status = Lenient(@)]
<1>1. /\ UNCHANGED <<req, cancelAt, clock, last>> /\ ctxEnd' = ctxEnd /\ Judged' = Judged
      /\ phase' = "published" /\ resp' = Lenient(resp)
      /\ outcome' \in {"none", "DONE", "TIMEOUT", "ERROR"}
      /\ outcome' \in {"DONE", "TIMEOUT"} => ~(cancelAt <= clock)
      /\ tests' = [i \in DOMAIN tests |-> published(i)]
  BY DEF Publish, ctxEnd, Judged
<1>2. /\ tests \in [1..Len(tests) -> TestRecord] /\ Len(tests) \in Nat
      /\ DOMAIN tests = 1..Len(tests)
  BY DEF TypeOK
<1>3. \A x : /\ x \in Statuses => Lenient(x) \in Statuses
             /\ Lenient(x) \in Statuses => x \in Statuses
             /\ Lenient(x) # x => req.type = "run" /\ Lenient(x) = "accepted" /\ x \in Clean
  BY DEF Lenient, Statuses, Clean
<1>4. \A i \in DOMAIN tests :
        /\ published(i) \in TestRecord /\ published(i).status = Lenient(tests[i].status)
        /\ published(i).how = tests[i].how /\ published(i).prog = tests[i].prog
        /\ published(i).held = tests[i].held
  <2>1. SUFFICES ASSUME NEW i \in DOMAIN tests
                 PROVE  /\ published(i) \in TestRecord
                        /\ published(i).status = Lenient(tests[i].status)
                        /\ published(i).how = tests[i].how /\ published(i).prog = tests[i].prog
                        /\ published(i).held = tests[i].held
    OBVIOUS
  <2>2. tests[i] \in TestRecord BY <1>2
  <2>3. tests[i].status \in Statuses BY <2>2 DEF TestRecord
  <2>4. Lenient(tests[i].status) \in Statuses BY <1>3, <2>3
  <2> HIDE DEF Statuses
  <2> QED BY <2>2, <2>4 DEF TestRecord
<1> HIDE DEF published
<1>5. /\ tests' \in Seq(TestRecord) /\ Len(tests') = Len(tests) /\ DOMAIN tests' = DOMAIN tests
      /\ \A i \in DOMAIN tests : tests'[i] = published(i)
  BY <1>1, <1>2, <1>4
<1>6. resp' \in Statuses \cup {"none", "error", "build_failed"}
  BY <1>1 DEF TypeOK, Lenient, Statuses
<1>7. TypeOK' BY <1>1, <1>5, <1>6 DEF TypeOK
<1>8. OverrunIsHeld' /\ Timely' BY <1>1 DEF OverrunIsHeld, Timely, Published, Grace
<1>9. \A i \in DOMAIN tests : Sound(published(i), clock)
  <2>1. SUFFICES ASSUME NEW i \in DOMAIN tests PROVE Sound(published(i), clock)
    OBVIOUS
  <2>2. Sound(tests[i], clock) OBVIOUS
  <2>3. CASE Lenient(tests[i].status) = tests[i].status
    BY <1>4, <2>2, <2>3 DEF Sound, Earned, Prompt, Blame, Elapsed
  <2>4. CASE Lenient(tests[i].status) # tests[i].status
    <3>1. req.type = "run" /\ published(i).status = "accepted" /\ tests[i].status \in Clean
      BY <1>3, <1>4, <2>4
    <3> QED BY <1>4, <2>2, <3>1 DEF Sound, Earned, Prompt, Blame, Elapsed, Clean
  <2> QED BY <2>3, <2>4
<1>10. \A i \in DOMAIN tests' : Sound(tests[i], clock)'
  BY <1>1, <1>5, <1>9 DEF Sound, Earned, Prompt, Blame, ctxEnd
<1>11. Rolled'
  <2>1. SUFFICES ASSUME resp' \in Statuses
                 PROVE  /\ Len(tests') = Judged
                        /\ resp' = "accepted" => \A i \in DOMAIN tests' : tests'[i].status = "accepted"
                        /\ Len(tests') = 1 => tests'[1].status = resp'
    BY <1>1 DEF Rolled
  <2>2. resp \in Statuses BY <1>1, <1>3, <2>1
  <2>3. Len(tests) = Judged BY <2>2 DEF Rolled
  <2>4. Len(tests) = 1 => tests'[1].status = resp'
    BY <1>1, <1>2, <1>4, <1>5, <2>2 DEF Rolled
  <2>5. CASE req.type = "run"
    <3>1. Len(tests) = 1 BY <2>3, <2>5 DEF TypeOK, Requests, Judged
    <3> QED BY <1>2, <1>5, <2>3, <2>4, <3>1
  <2>6. CASE req.type # "run"
    <3>1. resp' = resp /\ \A i \in DOMAIN tests : tests'[i].status = tests[i].status
      BY <1>1, <1>3, <1>4, <1>5, <2>6
    <3> QED BY <1>5, <2>2, <2>3, <2>4, <3>1 DEF Rolled
  <2> QED BY <2>5, <2>6
<1> QED BY <1>7, <1>8, <1>10, <1>11

\* The other steps touch neither the clock nor the tests nor the response.
LEMMA ReplyInv == ASSUME IInv, Reply \/ SkipBuild \/ UNCHANGED vars PROVE IInv'
<1>1. UNCHANGED <<req, cancelAt, clock, tests, last, resp>> /\ ctxEnd' = ctxEnd /\ Judged' = Judged
  BY DEF Reply, SkipBuild, vars, ctxEnd, Judged
<1>2. \/ phase' = "published" /\ outcome' \in {"500", "200"}
      \/ phase' = "tests" /\ outcome' = outcome
      \/ phase' = phase /\ outcome' = outcome
  BY DEF Reply, SkipBuild, vars
<1>3. TypeOK' BY <1>1, <1>2 DEF IInv, TypeOK
<1>4. OverrunIsHeld' /\ Rolled' BY <1>1 DEF IInv, OverrunIsHeld, Rolled, Grace
<1>5. Timely' BY <1>1, <1>2 DEF IInv, Timely, Published
<1>6. \A i \in DOMAIN tests' : Sound(tests[i], clock)'
  BY <1>1 DEF IInv, Sound, Earned, Prompt, Blame, ctxEnd
<1> QED BY <1>3, <1>4, <1>5, <1>6 DEF IInv

\* One lemma per action.
LEMMA NextInv == ASSUME IInv, [Next]_vars PROVE IInv'
BY BuildInv, TestInv, ReturnInv, PublishInv, ReplyInv DEF Next

\* What the invariant says of the properties the runs check.
LEMMA InvImplies ==
  ASSUME IInv
  PROVE  TypeOK /\ OverrunIsHeld /\ AcceptedIsEarned /\ AcceptedInTime /\ FairVerdict
<1> USE DEF IInv
<1>1. AcceptedIsEarned
  <2>1. SUFFICES ASSUME resp = "accepted"
                 PROVE  /\ Len(tests) = Judged
                        /\ \A i \in DOMAIN tests :
                             /\ tests[i].how = "own" /\ tests[i].prog.code = 0
                             /\ tests[i].prog.runs <= RunLimit + Grace
                             /\ req.tests > 0 /\ req.type # "run" => tests[i].prog.text = "exact"
    BY DEF AcceptedIsEarned
  <2>2. resp \in Statuses BY <2>1 DEF Statuses
  <2>3. Len(tests) = Judged /\ \A i \in DOMAIN tests : tests[i].status = "accepted"
    BY <2>1, <2>2 DEF Rolled
  <2>4. \A i \in DOMAIN tests : Sound(tests[i], clock) OBVIOUS
  <2> QED BY <2>3, <2>4 DEF Sound, Earned, Clean
<1>2. AcceptedInTime
  <2>1. SUFFICES ASSUME Published, NEW i \in DOMAIN tests, tests[i].status = "accepted"
                 PROVE  tests[i].prog.runs + tests[i].held <= RunLimit + Grace
    BY DEF AcceptedInTime
  <2>2. ~(cancelAt <= clock) BY <2>1 DEF Timely
  <2>3. Prompt(tests[i], clock) BY DEF Sound
  <2> QED BY <2>1, <2>2, <2>3 DEF Prompt, Clean, Elapsed
<1>3. FairVerdict
  <2>1. SUFFICES ASSUME Published
                 PROVE  \A i \in DOMAIN tests : Blame(tests[i], clock) /\ ~(cancelAt <= clock)
    BY DEF FairVerdict, Blame, Elapsed
  <2>2. ~(cancelAt <= clock) BY <2>1 DEF Timely
  <2> QED BY <2>2 DEF Sound
<1> QED BY <1>1, <1>2, <1>3

----------------------------------------------------------------------------
(* The theorems.                                                           *)

\* The inductive invariant holds throughout every call of Executor.Run.
THEOREM Invariance == SafeSpec => []IInv
<1>1. Init => IInv BY InitInv
<1>2. IInv /\ [Next]_vars => IInv' BY NextInv
<1> QED BY <1>1, <1>2, PTL DEF SafeSpec

\* The clock, the tests and the response of a call to Executor.Run keep their types.
THEOREM TypeCorrect == SafeSpec => []TypeOK
<1>1. IInv => TypeOK BY InvImplies
<1> QED BY <1>1, Invariance, PTL

\* A sandbox call outlasts its limit and the two seconds of hardCtx, and Executor.Run
\* its context, by no more than the last program held its output open, however many
\* tests there are and whenever the call is cancelled.
THEOREM OverrunBounded == SafeSpec => []OverrunIsHeld
<1>1. IInv => OverrunIsHeld BY InvImplies
<1> QED BY <1>1, Invariance, PTL

\* No test is published as accepted whose sandbox call came back later than its limit
\* and the two seconds of hardCtx, the time its output was held open included.
THEOREM AcceptanceInTime == SafeSpec => []AcceptedInTime
<1>1. IInv => AcceptedInTime BY InvImplies
<1> QED BY <1>1, Invariance, PTL

\* An accepted response stands for a clean run, in time, of every test case, and for
\* equal output wherever some was expected.
THEOREM VerdictEarned == SafeSpec => []AcceptedIsEarned
<1>1. IInv => AcceptedIsEarned BY InvImplies
<1> QED BY <1>1, Invariance, PTL

\* What classifyExit guessed from exit codes and times is right of every verdict
\* the worker publishes, up to a failure of nsjail itself, which becomes
\* runtime_error and nothing else.
THEOREM BlameFair == SafeSpec => []FairVerdict
<1>1. IInv => FairVerdict BY InvImplies
<1> QED BY <1>1, Invariance, PTL

============================================================================
