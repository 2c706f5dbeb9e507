--------------------------- MODULE Daemon_proofs ----------------------------
(***************************************************************************)
(* Theorems about Daemon.tla, for any number of calls and messages and any *)
(* values of the timeouts: left-over directories are bounded in age, only  *)
(* a late handler meets another one of its message, and a shutdown cuts no *)
(* HTTP request before its grace is over.                                  *)
(***************************************************************************)
EXTENDS Daemon, TLAPS

\* While the handler c is not late, its message is still hidden for at least as long as
\* the rest of the invisibility it began with.
Hidden(c) ==
  call[c].kind = "sqs" /\ ~Late(c) =>
    LET m == call[c].message
    IN  timer[m] = Gone \/ timer[m] + call[c].inside + call[c].outside >= Visibility

\* Of two handlers of one message, one is late.
OneLate(c, d) ==
  c # d /\ call[c].kind = "sqs" /\ call[d].kind = "sqs" /\ call[c].message = call[d].message
  => Late(c) \/ Late(d)

\* An HTTP request has been alive since the signal.
Patience(c) ==
  life = "stopping" /\ call[c].kind = "http" => call[c].inside + call[c].outside >= grace

OnlyHandlersHaveMessages ==
  \A c \in Alive : call[c].kind = "http" => call[c].message = Nothing

CallsInv ==
  /\ OnlyHandlersHaveMessages
  /\ \A c \in Alive : Hidden(c) /\ Patience(c)
  /\ \A c, d \in Alive : OneLate(c, d)

IInv == TypeOK /\ StraysBounded /\ CallsInv

----------------------------------------------------------------------------
(* Types.                                                                  *)

\* The time of a run is counted beyond its deadline.
LEMMA DeadlineFacts ==
  ASSUME NEW k \in {"http", "sqs"}
  PROVE  Deadline(k) \in Nat /\ Deadline(k) < MaxInside
BY DaemonAssumption DEF Deadline

LEMMA SmallerFacts ==
  ASSUME NEW a \in Int, NEW b \in Int
  PROVE  Smaller(a, b) \in Int /\ Smaller(a, b) <= a /\ Smaller(a, b) <= b
         /\ (Smaller(a, b) = a \/ Smaller(a, b) = b)
BY DEF Smaller

\* A unit of time makes a call older by one, inside or outside its run, up to the bound.
LEMMA OlderFacts ==
  ASSUME NEW r \in CallRecord
  PROVE  /\ Older(r) \in CallRecord
         /\ Older(r).kind = r.kind /\ Older(r).message = r.message /\ Older(r).at = r.at
         /\ \/ /\ r.at = "running" /\ Older(r).outside = r.outside
               /\ Older(r).inside >= r.inside /\ Older(r).inside <= r.inside + 1
               /\ \/ Older(r).inside = r.inside + 1
                  \/ r.inside = MaxInside /\ Older(r).inside = MaxInside
            \/ /\ r.at # "running" /\ Older(r).inside = r.inside
               /\ Older(r).outside >= r.outside
               /\ \/ Older(r).outside = r.outside + 1
                  \/ r.outside = MaxOutside /\ Older(r).outside = MaxOutside
<1>0. MaxInside \in Nat /\ MaxOutside \in Nat BY DaemonAssumption
<1>1. CASE r.at = "running"
  <2>1. Older(r) = [r EXCEPT !.inside = Smaller(@ + 1, MaxInside)] BY <1>1 DEF Older
  <2>2. r.inside \in 0..MaxInside BY DEF CallRecord
  <2>3. /\ Smaller(r.inside + 1, MaxInside) \in 0..MaxInside
        /\ Smaller(r.inside + 1, MaxInside) >= r.inside
        /\ Smaller(r.inside + 1, MaxInside) <= r.inside + 1
        /\ \/ Smaller(r.inside + 1, MaxInside) = r.inside + 1
           \/ r.inside = MaxInside /\ Smaller(r.inside + 1, MaxInside) = MaxInside
    BY <1>0, <2>2 DEF Smaller
  <2> QED BY <2>1, <2>2, <2>3, <1>1 DEF CallRecord
<1>2. CASE r.at # "running"
  <2>1. Older(r) = [r EXCEPT !.outside = Smaller(@ + 1, MaxOutside)] BY <1>2 DEF Older
  <2>2. r.outside \in 0..MaxOutside BY DEF CallRecord
  <2>3. /\ Smaller(r.outside + 1, MaxOutside) \in 0..MaxOutside
        /\ Smaller(r.outside + 1, MaxOutside) >= r.outside
        /\ \/ Smaller(r.outside + 1, MaxOutside) = r.outside + 1
           \/ r.outside = MaxOutside /\ Smaller(r.outside + 1, MaxOutside) = MaxOutside
    BY <1>0, <2>2 DEF Smaller
  <2> QED BY <2>1, <2>2, <2>3, <1>2 DEF CallRecord
<1> QED BY <1>1, <1>2

LEMMA FreshFacts ==
  ASSUME NEW k \in {"http", "sqs"}, NEW m \in Messages \cup {Nothing}
  PROVE  /\ Fresh(k, m) \in CallRecord
         /\ Fresh(k, m).kind = k /\ Fresh(k, m).message = m /\ Fresh(k, m).at = "before"
         /\ Fresh(k, m).inside = 0 /\ Fresh(k, m).outside = 0
BY DaemonAssumption DEF Fresh, CallRecord

\* What TypeOK says of one call.
CallOK(c, r) ==
  /\ r \in CallRecord
  /\ c \notin Holding => r.inside <= Deadline(r.kind)
  /\ r.kind = "sqs" => r.message \in Messages

LEMMA CallsOK ==
  ASSUME TypeOK, NEW c \in Alive
  PROVE  c \in Calls /\ call[c] # Nothing /\ CallOK(c, call[c])
BY DEF TypeOK, Alive, CallOK

\* The part of TypeOK about calls follows from CallOK of those that are alive.
LEMMA CallsTyped ==
  ASSUME call' \in [Calls -> CallRecord \cup {Nothing}],
         \A c \in Calls : call'[c] # Nothing => CallOK(c, call'[c])
  PROVE  \A c \in Alive' : /\ c \notin Holding => call'[c].inside <= Deadline(call'[c].kind)
                           /\ call'[c].kind = "sqs" => call'[c].message \in Messages
BY DEF Alive, CallOK

LEMMA TypeAgain ==
  ASSUME life' \in {"up", "stopping", "exited", "crashed"},
         uptime' \in 0..MaxUptime, grace' \in 0..Grace,
         poller' \in {"receiving", "pausing", "off"},
         call' \in [Calls -> CallRecord \cup {Nothing}],
         \A c \in Calls : call'[c] # Nothing => CallOK(c, call'[c]),
         timer' \in [Messages -> {Gone} \cup 0..Visibility],
         strays' \subseteq 0..MaxAge,
         Down' => Alive' = {}
  PROVE  TypeOK'
BY CallsTyped DEF TypeOK

LEMMA TypeInit == Init => TypeOK
BY DaemonAssumption DEF Init, TypeOK, Alive, Down, MaxAge

LEMMA TypeStep == TypeOK /\ [Next]_vars => TypeOK'
<1> USE DaemonAssumption
<1> SUFFICES ASSUME TypeOK, [Next]_vars PROVE TypeOK' OBVIOUS
<1>1. CASE Tick
  <2>1. \A c \in Calls : call[c] # Nothing =>
          Older(call[c]) \in CallRecord /\ CallOK(c, Older(call[c]))
    <3> SUFFICES ASSUME NEW c \in Calls, call[c] # Nothing
                 PROVE  Older(call[c]) \in CallRecord /\ CallOK(c, Older(call[c]))
      OBVIOUS
    <3>1. c \in Alive /\ CallOK(c, call[c]) BY CallsOK DEF Alive
    <3>2. call[c].kind \in {"http", "sqs"} /\ call[c].inside \in Nat BY <3>1 DEF CallOK, CallRecord
    <3>3. Deadline(call[c].kind) \in Nat BY <3>2, DeadlineFacts
    <3>4. c \notin Holding /\ call[c].at = "running" =>
            call[c].inside + 1 <= Deadline(call[c].kind)
      BY <1>1, <3>1, <3>2, <3>3 DEF Tick, Overdue
    <3>5. call[c] \in CallRecord BY <3>1 DEF CallOK
    <3> QED BY <3>1, <3>3, <3>4, <3>5, OlderFacts DEF CallOK
  <2>2. call' = [c \in Calls |-> IF call[c] = Nothing THEN Nothing ELSE Older(call[c])]
    BY <1>1 DEF Tick
  <2>3. call' \in [Calls -> CallRecord \cup {Nothing}] BY <2>1, <2>2
  <2>4. \A c \in Calls : call'[c] # Nothing => CallOK(c, call'[c]) BY <2>1, <2>2
  <2>5. timer' \in [Messages -> {Gone} \cup 0..Visibility]
    BY <1>1 DEF Tick, TypeOK, Gone
  <2>6. strays' \subseteq 0..MaxAge
    BY <1>1 DEF Tick, TypeOK, Smaller, MaxAge
  <2>7. uptime' \in 0..MaxUptime /\ grace' \in 0..Grace
    BY <1>1 DEF Tick, TypeOK, Smaller
  <2>8. Down' => Alive' = {}
    BY <1>1, <2>2 DEF Tick, TypeOK, Down, Alive
  <2>9. life' = life /\ poller' = poller BY <1>1 DEF Tick
  <2>10. /\ life' \in {"up", "stopping", "exited", "crashed"}
         /\ poller' \in {"receiving", "pausing", "off"}
    BY <2>9 DEF TypeOK
  <2> QED BY <2>3, <2>4, <2>5, <2>6, <2>7, <2>8, <2>10, TypeAgain
<1>2. CASE StartProcess
  <2>1. Alive = {} BY <1>2 DEF StartProcess, TypeOK
  <2>2. call' = call /\ Alive' = {} BY <1>2, <2>1 DEF StartProcess, Alive
  <2>3. strays' \subseteq strays BY <1>2 DEF StartProcess
  <2>4. \A c \in Calls : call'[c] # Nothing => CallOK(c, call'[c]) BY <2>1, <2>2 DEF Alive
  <2>5. uptime' \in 0..MaxUptime BY <1>2 DEF StartProcess
  <2>6. life' \in {"up", "exited", "crashed"} /\ poller' \in {"receiving", "pausing", "off"}
    BY <1>2 DEF StartProcess, TypeOK, Down
  <2>7. grace' = grace /\ timer' = timer BY <1>2 DEF StartProcess
  <2> QED BY <2>2, <2>3, <2>4, <2>5, <2>6, <2>7, TypeAgain DEF TypeOK
<1>3. ASSUME NEW how \in {"exited", "crashed"}, Die(how) PROVE TypeOK'
  <2>1. PICK age \in [Calls -> 0..MaxInside] :
          strays' = strays \cup
            {Smaller(age[c], MaxAge) : c \in {d \in Alive : call[d].at = "running"}}
    BY <1>3 DEF Die
  <2>2. \A c \in Alive : Smaller(age[c], MaxAge) \in 0..MaxAge
    BY <2>1 DEF Alive, Smaller, MaxAge
  <2>3. strays' \subseteq 0..MaxAge BY <2>1, <2>2 DEF TypeOK
  <2>4. call' = [c \in Calls |-> Nothing] BY <1>3 DEF Die
  <2>5. Alive' = {} BY <2>4 DEF Alive
  <2> QED BY <1>3, <2>3, <2>4, <2>5 DEF Die, TypeOK
<1>4. CASE Signal BY <1>4 DEF Signal, TypeOK, Alive, Down
<1>5. CASE ReceiveFails \/ Resume \/ StopPolling
  BY <1>5 DEF ReceiveFails, Resume, StopPolling, TypeOK, Alive, Down
<1>6. ASSUME NEW m \in Messages, Send(m) PROVE TypeOK'
  BY <1>6 DEF Send, TypeOK, Alive, Down
<1>7. ASSUME NEW c \in Calls, NEW r \in CallRecord, CallOK(c, r), ~Down,
             call' = [call EXCEPT ![c] = r], UNCHANGED <<life, uptime, grace, poller, strays>>,
             timer' \in [Messages -> {Gone} \cup 0..Visibility]
      PROVE  TypeOK'
  <2>1. call' \in [Calls -> CallRecord \cup {Nothing}] BY <1>7 DEF TypeOK
  <2>2. \A d \in Calls : call'[d] # Nothing => CallOK(d, call'[d])
    BY <1>7, CallsOK DEF TypeOK, Alive
  <2>3. ~Down' BY <1>7 DEF Down
  <2> QED BY <1>7, <2>1, <2>2, <2>3, CallsTyped DEF TypeOK
<1>8. ASSUME NEW m \in Messages, NEW c \in Calls, Receive(c, m) PROVE TypeOK'
  <2>1. Fresh("sqs", m) \in CallRecord /\ CallOK(c, Fresh("sqs", m))
    BY FreshFacts, DeadlineFacts DEF CallOK
  <2>2. ~Down BY <1>8 DEF Receive, Down
  <2>3. timer' \in [Messages -> {Gone} \cup 0..Visibility] BY <1>8 DEF Receive, TypeOK
  <2> QED BY <1>7, <1>8, <2>1, <2>2, <2>3 DEF Receive
<1>9. ASSUME NEW c \in Calls, Accept(c) PROVE TypeOK'
  <2>1. Fresh("http", Nothing) \in CallRecord /\ CallOK(c, Fresh("http", Nothing))
    BY FreshFacts, DeadlineFacts DEF CallOK
  <2>2. ~Down BY <1>9 DEF Accept, Down
  <2> QED BY <1>7, <1>9, <2>1, <2>2 DEF Accept, TypeOK
<1>10. ASSUME NEW c \in Calls, EnterRun(c) \/ LeaveRun(c) PROVE TypeOK'
  <2>1. c \in Alive /\ CallOK(c, call[c]) BY <1>10, CallsOK DEF EnterRun, LeaveRun
  <2>2. PICK at \in {"running", "after"} : call' = [call EXCEPT ![c].at = at]
    BY <1>10 DEF EnterRun, LeaveRun
  <2> DEFINE r == [call[c] EXCEPT !.at = at]
  <2>3. r \in CallRecord /\ CallOK(c, r) BY <2>1 DEF CallOK, CallRecord
  <2>4. call' = [call EXCEPT ![c] = r] BY <2>2
  <2>5. ~Down BY <2>1 DEF TypeOK
  <2> HIDE DEF r
  <2> QED BY <1>7, <1>10, <2>3, <2>4, <2>5 DEF EnterRun, LeaveRun, TypeOK
<1>11. ASSUME NEW c \in Calls, EndCall(c) PROVE TypeOK'
  <2>1. c \in Alive /\ CallOK(c, call[c]) BY <1>11, CallsOK DEF EndCall
  <2>2. timer' \in [Messages -> {Gone} \cup 0..Visibility]
    BY <1>11, <2>1 DEF EndCall, CallOK, TypeOK
  <2>3. call' \in [Calls -> CallRecord \cup {Nothing}] BY <1>11 DEF EndCall, TypeOK
  <2>4. \A d \in Calls : call'[d] # Nothing => CallOK(d, call'[d])
    BY <1>11, CallsOK DEF EndCall, TypeOK, Alive
  <2>5. ~Down BY <2>1 DEF TypeOK
  <2>6. ~Down' BY <1>11, <2>5 DEF EndCall, Down
  <2> QED BY <1>11, <2>2, <2>3, <2>4, <2>6, CallsTyped DEF EndCall, TypeOK
<1>12. CASE UNCHANGED vars BY <1>12 DEF vars, TypeOK, Alive, Down
<1> QED
  BY <1>1, <1>2, <1>3, <1>4, <1>5, <1>6, <1>8, <1>9, <1>10, <1>11, <1>12
  DEF Next, Proceed, Crash, Exit

\* Every variable keeps its type and no run passes its deadline, the context given to
\* Executor.Run in api.Server.run and handleMessage, unless its output is held open.
THEOREM TypeCorrect == SafeSpec => []TypeOK
BY TypeInit, TypeStep, PTL DEF SafeSpec

----------------------------------------------------------------------------
(* Directories.                                                            *)

LEMMA StraysStep == TypeOK /\ StraysBounded /\ [Next]_vars => StraysBounded'
<1> USE DaemonAssumption
<1> SUFFICES ASSUME TypeOK, StraysBounded, [Next]_vars PROVE StraysBounded' OBVIOUS
<1>1. CASE Tick
  <2> SUFFICES ASSUME ~Down', NEW b \in strays' PROVE b <= Hour + uptime' BY DEF StraysBounded
  <2>1. ~Down BY <1>1 DEF Tick, Down
  <2>2. PICK a \in strays : b = Smaller(a + 1, MaxAge) BY <1>1 DEF Tick
  <2>3. a \in Int /\ a <= Hour + uptime /\ uptime \in 0..MaxUptime
    BY <2>1 DEF StraysBounded, TypeOK
  <2>4. uptime' = Smaller(uptime + 1, MaxUptime) BY <1>1, <2>1 DEF Tick
  <2> QED BY <2>2, <2>3, <2>4 DEF Smaller, MaxAge
<1>2. CASE StartProcess
  <2>1. \A a \in strays' : a \in Int /\ ~Stale(a) BY <1>2 DEF StartProcess, TypeOK
  <2>2. uptime' = 0 BY <1>2 DEF StartProcess
  <2> QED BY <2>1, <2>2 DEF StraysBounded, Stale
<1>3. ASSUME NEW how \in {"exited", "crashed"}, Die(how) PROVE StraysBounded'
  BY <1>3 DEF Die, StraysBounded, Down
<1>4. ASSUME strays' = strays, uptime' = uptime, ~Down' => ~Down PROVE StraysBounded'
  BY <1>4 DEF StraysBounded
<1>5. CASE Signal \/ ReceiveFails \/ Resume \/ StopPolling \/ UNCHANGED vars
  BY <1>4, <1>5 DEF Signal, ReceiveFails, Resume, StopPolling, vars, Down
<1>6. ASSUME NEW m \in Messages, Send(m) \/ \E c \in Calls : Receive(c, m)
      PROVE  StraysBounded'
  BY <1>4, <1>6 DEF Send, Receive, Down
<1>7. ASSUME NEW c \in Calls, Accept(c) \/ Proceed(c) PROVE StraysBounded'
  BY <1>4, <1>7 DEF Accept, Proceed, EnterRun, LeaveRun, EndCall, Down
<1> QED BY <1>1, <1>2, <1>3, <1>5, <1>6, <1>7 DEF Next, Crash, Exit

----------------------------------------------------------------------------
(* Calls.                                                                  *)

LEMMA AliveFacts ==
  ASSUME TypeOK, NEW c \in Alive
  PROVE  /\ c \in Calls
         /\ call[c] \in CallRecord
         /\ call[c].kind \in {"http", "sqs"}
         /\ call[c].inside \in 0..MaxInside /\ call[c].outside \in 0..MaxOutside
         /\ c \notin Holding => call[c].inside <= Deadline(call[c].kind)
         /\ call[c].kind = "sqs" => call[c].message \in Messages
BY CallsOK DEF CallOK, CallRecord

LEMMA TimerFacts ==
  ASSUME TypeOK, NEW m \in Messages
  PROVE  timer[m] \in Int /\ (timer[m] = Gone \/ timer[m] >= 0)
BY DaemonAssumption DEF TypeOK, Gone

\* A handler whose message is visible again is late.
LEMMA VisibleIsLate ==
  ASSUME TypeOK, NEW c \in Alive, Hidden(c), call[c].kind = "sqs", timer[call[c].message] = 0
  PROVE  Late(c)
<1>1. call[c].inside \in 0..MaxInside /\ call[c].outside \in 0..MaxOutside
  BY AliveFacts
<1> QED BY <1>1, DaemonAssumption DEF Hidden, Late, Deadline, Gone

\* A step that leaves the clocks of the calls alone.
LEMMA CallsKept ==
  ASSUME CallsInv, Alive' \subseteq Alive,
         \A c \in Alive' : /\ call'[c].kind = call[c].kind
                           /\ call'[c].message = call[c].message
                           /\ call'[c].inside = call[c].inside
                           /\ call'[c].outside = call[c].outside,
         \A c \in Alive' : call[c].kind = "sqs" =>
            timer'[call[c].message] = timer[call[c].message] \/ timer'[call[c].message] = Gone,
         life' = "stopping" => grace' = 0 \/ (life = "stopping" /\ grace' = grace),
         TypeOK, TypeOK'
  PROVE  CallsInv'
<1>1. OnlyHandlersHaveMessages' BY DEF CallsInv, OnlyHandlersHaveMessages
<1>2. ASSUME NEW c \in Alive' PROVE Hidden(c)' BY <1>2 DEF CallsInv, Hidden, Late
<1>3. ASSUME NEW c \in Alive' PROVE Patience(c)'
  <2>1. call[c].inside \in Nat /\ call[c].outside \in 0..MaxOutside BY <1>3, AliveFacts
  <2> QED BY <1>3, <2>1, DaemonAssumption DEF CallsInv, Patience
<1>4. ASSUME NEW c \in Alive', NEW d \in Alive' PROVE OneLate(c, d)'
  BY <1>4 DEF CallsInv, OneLate, Late
<1> QED BY <1>1, <1>2, <1>3, <1>4 DEF CallsInv

LEMMA CallsTick ==
  ASSUME TypeOK, CallsInv, Tick
  PROVE  CallsInv'
<1> USE DaemonAssumption
<1>1. Alive' \subseteq Alive /\ \A c \in Alive' : call'[c] = Older(call[c])
  BY DEF Tick, Alive
<1>2. ASSUME NEW c \in Alive'
      PROVE  /\ call'[c].kind = call[c].kind /\ call'[c].message = call[c].message
             /\ call'[c].inside >= call[c].inside /\ call'[c].outside >= call[c].outside
             /\ \/ call'[c].inside + call'[c].outside = call[c].inside + call[c].outside + 1
                \/ call'[c].inside = MaxInside \/ call'[c].outside = MaxOutside
             /\ call'[c].inside \in 0..MaxInside /\ call'[c].outside \in 0..MaxOutside
  <2>1. c \in Alive /\ call[c] \in CallRecord BY <1>1, <1>2, AliveFacts
  <2>2. call[c].inside \in 0..MaxInside /\ call[c].outside \in 0..MaxOutside
    BY <2>1, AliveFacts
  <2> DEFINE o == Older(call[c])
  <2>3. /\ o \in CallRecord /\ o.kind = call[c].kind /\ o.message = call[c].message
        /\ \/ /\ o.outside = call[c].outside /\ o.inside >= call[c].inside
              /\ o.inside = call[c].inside + 1 \/ o.inside = MaxInside
           \/ /\ o.inside = call[c].inside /\ o.outside >= call[c].outside
              /\ o.outside = call[c].outside + 1 \/ o.outside = MaxOutside
    BY <2>1, OlderFacts
  <2>4. o.inside \in 0..MaxInside /\ o.outside \in 0..MaxOutside BY <2>3 DEF CallRecord
  <2>5. call'[c] = o BY <1>1, <1>2
  <2> HIDE DEF o
  <2> QED BY <2>2, <2>3, <2>4, <2>5
<1>3. OnlyHandlersHaveMessages' BY <1>1, <1>2 DEF CallsInv, OnlyHandlersHaveMessages
<1>4. ASSUME NEW c \in Alive' PROVE Hidden(c)'
  <2> SUFFICES ASSUME call'[c].kind = "sqs", ~Late(c)'
               PROVE  LET m == call'[c].message
                      IN  timer'[m] = Gone \/ timer'[m] + call'[c].inside + call'[c].outside >= Visibility
    BY DEF Hidden
  <2> DEFINE m == call[c].message
  <2>1. c \in Alive /\ m \in Messages /\ call'[c].message = m /\ call[c].kind = "sqs"
    BY <1>1, <1>2, <1>4, AliveFacts
  <2>2. ~Late(c) /\ call[c].inside \in 0..MaxInside /\ call[c].outside \in 0..MaxOutside
    BY <1>2, <1>4, <2>1, AliveFacts DEF Late, Deadline
  <2>3. call'[c].inside + call'[c].outside = call[c].inside + call[c].outside + 1
    BY <1>2, <1>4, <2>2 DEF Late, Deadline
  <2>4. timer'[m] = IF timer[m] > 0 THEN timer[m] - 1 ELSE timer[m] BY <2>1 DEF Tick
  <2>5. timer[m] = Gone \/ timer[m] + call[c].inside + call[c].outside >= Visibility
    BY <2>1, <2>2 DEF CallsInv, Hidden
  <2>6. timer[m] \in Int /\ (timer[m] = Gone \/ timer[m] >= 0) BY <2>1, TimerFacts
  <2>7. call'[c].inside \in 0..MaxInside /\ call'[c].outside \in 0..MaxOutside BY <1>2, <1>4
  <2> QED BY <2>1, <2>2, <2>3, <2>4, <2>5, <2>6, <2>7 DEF Gone
<1>5. ASSUME NEW c \in Alive' PROVE Patience(c)'
  <2> SUFFICES ASSUME life' = "stopping", call'[c].kind = "http"
               PROVE  call'[c].inside + call'[c].outside >= grace'
    BY DEF Patience
  <2>1. life = "stopping" /\ grace < Grace /\ grace' = grace + 1 /\ grace \in 0..Grace
    BY DEF Tick, TypeOK
  <2>2. c \in Alive /\ call[c].kind = "http" BY <1>1, <1>2, <1>5
  <2>3. call[c].inside + call[c].outside >= grace BY <2>1, <2>2 DEF CallsInv, Patience
  <2>4. call[c].inside \in 0..MaxInside /\ call[c].outside \in 0..MaxOutside BY <2>2, AliveFacts
  <2> QED BY <1>2, <1>5, <2>1, <2>2, <2>3, <2>4
<1>6. ASSUME NEW c \in Alive', NEW d \in Alive' PROVE OneLate(c, d)'
  <2>1. c \in Alive /\ d \in Alive BY <1>1, <1>6
  <2>2. OneLate(c, d) BY <2>1 DEF CallsInv
  <2>3. ASSUME NEW e \in Alive', e \in Alive, Late(e) PROVE Late(e)'
    <3>1. /\ call[e].inside \in 0..MaxInside /\ call[e].outside \in 0..MaxOutside
          /\ call'[e].inside \in 0..MaxInside /\ call'[e].outside \in 0..MaxOutside
      BY <1>2, <2>3, AliveFacts
    <3> QED BY <1>2, <2>3, <3>1 DEF Late, Deadline
  <2> QED BY <1>2, <1>6, <2>1, <2>2, <2>3 DEF OneLate
<1> QED BY <1>3, <1>4, <1>5, <1>6 DEF CallsInv

\* A new call c: the others are as they were.
LEMMA CallsNew ==
  ASSUME TypeOK, CallsInv, NEW c \in Calls, call[c] = Nothing,
         NEW k \in {"http", "sqs"}, NEW m \in Messages \cup {Nothing},
         call' = [call EXCEPT ![c] = Fresh(k, m)],
         life = "up", life' = life,
         k = "http" => m = Nothing /\ timer' = timer,
         k = "sqs" => m \in Messages /\ timer[m] = 0 /\ timer' = [timer EXCEPT ![m] = Visibility]
  PROVE  CallsInv'
<1> USE DaemonAssumption
<1> DEFINE new == Fresh(k, m)
<1>1. /\ new.kind = k /\ new.message = m /\ new.inside = 0 /\ new.outside = 0
  BY FreshFacts
<1>2. call'[c] = new /\ \A d \in Alive' : d # c => d \in Alive /\ call'[d] = call[d]
  BY DEF TypeOK, Alive
<1>3. c \notin Alive BY DEF Alive
<1> HIDE DEF new
<1>4. OnlyHandlersHaveMessages' BY <1>1, <1>2 DEF CallsInv, OnlyHandlersHaveMessages
<1>5. ASSUME NEW d \in Alive' PROVE Hidden(d)'
  <2>1. CASE d = c
    BY <1>1, <1>2, <2>1 DEF Hidden, TypeOK
  <2>2. CASE d # c
    <3>1. d \in Alive /\ call'[d] = call[d] /\ Hidden(d) BY <1>2, <1>5, <2>2 DEF CallsInv
    <3>2. call[d].inside \in 0..MaxInside /\ call[d].outside \in 0..MaxOutside
          /\ (call[d].kind = "sqs" => call[d].message \in Messages)
      BY <3>1, AliveFacts
    <3>3. call[d].kind = "sqs" =>
            timer'[call[d].message] \in {timer[call[d].message], Visibility}
      BY <3>2 DEF TypeOK
    <3> QED BY <3>1, <3>2, <3>3 DEF Hidden, Late
  <2> QED BY <2>1, <2>2
<1>6. ASSUME NEW d \in Alive' PROVE Patience(d)' BY DEF Patience
<1>7. ASSUME NEW d \in Alive, k = "sqs", call[d].kind = "sqs", call[d].message = m
      PROVE  Late(d)
  BY <1>7, VisibleIsLate DEF CallsInv
<1>8. ASSUME NEW d \in Alive', NEW e \in Alive' PROVE OneLate(d, e)'
  <2>1. CASE d # c /\ e # c BY <1>2, <1>8, <2>1 DEF CallsInv, OneLate, Late
  <2>2. CASE d = c /\ e # c BY <1>1, <1>2, <1>7, <1>8, <2>2 DEF OneLate, Late
  <2>3. CASE d # c /\ e = c BY <1>1, <1>2, <1>7, <1>8, <2>3 DEF OneLate, Late
  <2> QED BY <2>1, <2>2, <2>3 DEF OneLate
<1> QED BY <1>4, <1>5, <1>6, <1>8 DEF CallsInv

LEMMA CallsStep == TypeOK /\ TypeOK' /\ CallsInv /\ [Next]_vars => CallsInv'
<1> USE DaemonAssumption
<1> SUFFICES ASSUME TypeOK, TypeOK', CallsInv, [Next]_vars PROVE CallsInv' OBVIOUS
<1>1. CASE Tick BY <1>1, CallsTick
<1>2. ASSUME Alive' = {} PROVE CallsInv' BY <1>2 DEF CallsInv, OnlyHandlersHaveMessages
<1>3. CASE StartProcess
  <2>1. Alive = {} /\ call' = call BY <1>3 DEF StartProcess, TypeOK
  <2> QED BY <1>2, <2>1 DEF Alive
<1>4. ASSUME NEW how \in {"exited", "crashed"}, Die(how) PROVE CallsInv'
  BY <1>2, <1>4 DEF Die, Alive
<1>5. CASE Signal \/ ReceiveFails \/ Resume \/ StopPolling \/ UNCHANGED vars
  <2>1. call' = call /\ timer' = timer
        /\ (life' = "stopping" => grace' = 0 \/ (life = "stopping" /\ grace' = grace))
    BY <1>5 DEF Signal, ReceiveFails, Resume, StopPolling, vars
  <2>2. Alive' = Alive BY <2>1 DEF Alive
  <2> QED BY <2>1, <2>2, CallsKept
<1>6. ASSUME NEW m \in Messages, Send(m) PROVE CallsInv'
  <2>1. Alive' = Alive /\ call' = call /\ life' = life /\ grace' = grace
    BY <1>6 DEF Send, Alive
  <2>2. \A c \in Alive : call[c].kind = "sqs" => timer'[call[c].message] = timer[call[c].message]
    BY <1>6, AliveFacts DEF Send, TypeOK
  <2> QED BY <2>1, <2>2, CallsKept
<1>7. ASSUME NEW m \in Messages, NEW c \in Calls, Receive(c, m) PROVE CallsInv'
  BY <1>7, CallsNew DEF Receive
<1>8. ASSUME NEW c \in Calls, Accept(c) PROVE CallsInv'
  BY <1>8, CallsNew DEF Accept
<1>9. ASSUME NEW c \in Calls, EnterRun(c) \/ LeaveRun(c) PROVE CallsInv'
  <2>1. PICK at \in {"running", "after"} : call' = [call EXCEPT ![c].at = at]
    BY <1>9 DEF EnterRun, LeaveRun
  <2>2. c \in Alive /\ timer' = timer /\ life' = life /\ grace' = grace
    BY <1>9 DEF EnterRun, LeaveRun
  <2>3. Alive' \subseteq Alive BY <2>1, <2>2 DEF Alive, TypeOK
  <2>4. \A d \in Alive' : /\ call'[d].kind = call[d].kind /\ call'[d].message = call[d].message
                          /\ call'[d].inside = call[d].inside
                          /\ call'[d].outside = call[d].outside
    <3> SUFFICES ASSUME NEW d \in Alive'
                 PROVE  /\ call'[d].kind = call[d].kind /\ call'[d].message = call[d].message
                        /\ call'[d].inside = call[d].inside
                        /\ call'[d].outside = call[d].outside
      OBVIOUS
    <3>1. d \in Alive /\ call[d] \in CallRecord BY <2>3, AliveFacts
    <3>2. call'[d] = IF d = c THEN [call[d] EXCEPT !.at = at] ELSE call[d]
      BY <2>1, <3>1 DEF TypeOK, Alive
    <3> QED BY <3>1, <3>2 DEF CallRecord
  <2> QED BY <2>2, <2>3, <2>4, CallsKept
<1>10. ASSUME NEW c \in Calls, EndCall(c) PROVE CallsInv'
  <2>1. call' = [call EXCEPT ![c] = Nothing] /\ life' = life /\ grace' = grace /\ c \in Alive
    BY <1>10 DEF EndCall
  <2>2. Alive' \subseteq Alive /\ \A d \in Alive' : call'[d] = call[d]
    BY <2>1 DEF Alive, TypeOK
  <2>3. timer' = timer
        \/ (call[c].message \in Messages /\ timer' = [timer EXCEPT ![call[c].message] = Gone])
    BY <1>10, <2>1, AliveFacts DEF EndCall
  <2>4. \A d \in Alive' : call[d].kind = "sqs" =>
          timer'[call[d].message] = timer[call[d].message] \/ timer'[call[d].message] = Gone
    BY <2>2, <2>3, AliveFacts DEF TypeOK
  <2> QED BY <2>1, <2>2, <2>4, CallsKept
<1> QED BY <1>1, <1>3, <1>4, <1>5, <1>6, <1>7, <1>8, <1>9, <1>10 DEF Next, Proceed, Crash, Exit

----------------------------------------------------------------------------
(* The theorems.                                                           *)

LEMMA IInvInit == Init => IInv
BY TypeInit DEF Init, IInv, StraysBounded, CallsInv, OnlyHandlersHaveMessages, Alive

LEMMA IInvStep == IInv /\ [Next]_vars => IInv'
BY TypeStep, StraysStep, CallsStep DEF IInv

LEMMA IInvHolds == SafeSpec => []IInv
BY IInvInit, IInvStep, PTL DEF SafeSpec

\* A process never has a directory of an earlier one that is older than maxAge of
\* sweepStaleJobs and its own uptime, whatever the runs, crashes and starts before it.
THEOREM StraysSafe == SafeSpec => []StraysBounded
BY IInvHolds, PTL DEF IInv

\* The headroom of handleMessage does what it is for: a message is delivered to a second
\* handler only when the Redis and SQS calls of one of the two have used it up, or its
\* run has overrun its context because the output was held open.
THEOREM OverlapSafe == SafeSpec => []OverlapIsLate
<1>1. IInv => OverlapIsLate
  <2> SUFFICES ASSUME IInv, NEW c \in Alive, call[c].kind = "sqs", ~Late(c)
               PROVE  /\ timer[call[c].message] # 0
                      /\ \A d \in Alive \ {c} : call[d].message = call[c].message => Late(d)
    BY DEF OverlapIsLate
  <2>1. TypeOK /\ CallsInv BY DEF IInv
  <2>2. call[c].message \in Messages BY <2>1, AliveFacts
  <2>3. timer[call[c].message] # 0 BY <2>1, VisibleIsLate DEF CallsInv
  <2>4. ASSUME NEW d \in Alive \ {c}, call[d].message = call[c].message
        PROVE  Late(d)
    <3>1. call[d].kind = "sqs"
      BY <2>1, <2>2, <2>4, AliveFacts, DaemonAssumption DEF CallsInv, OnlyHandlersHaveMessages
    <3> QED BY <2>1, <2>4, <3>1 DEF CallsInv, OneLate
  <2> QED BY <2>3, <2>4
<1> QED BY <1>1, IInvHolds, PTL

\* srv.Shutdown gives every HTTP request its grace.
THEOREM CutCallsSafe == SafeSpec => CutCallsAreLong
<1>1. IInv /\ [Next]_vars =>
        [life = "stopping" /\ life' = "exited" =>
           \A c \in Alive : call[c].kind = "http" =>
                              call[c].inside + call[c].outside >= Grace]_vars
  <2> SUFFICES ASSUME IInv, Next, life = "stopping", life' = "exited",
                      NEW c \in Alive, call[c].kind = "http"
               PROVE  call[c].inside + call[c].outside >= Grace
    OBVIOUS
  <2>1. Exit
    <3>1. ~Tick /\ ~StartProcess /\ ~Crash /\ ~Signal /\ ~ReceiveFails /\ ~Resume /\ ~StopPolling
      BY DEF Tick, StartProcess, Crash, Die, Down, Signal, ReceiveFails, Resume, StopPolling
    <3>2. \A m \in Messages, d \in Calls : ~Send(m) /\ ~Receive(d, m)
      BY DEF Send, Receive
    <3>3. \A d \in Calls : ~Accept(d) /\ ~Proceed(d)
      BY DEF Accept, Proceed, EnterRun, LeaveRun, EndCall
    <3>4. c \in Calls BY DEF Alive
    <3> QED BY <3>1, <3>2, <3>3, <3>4 DEF Next
  <2>2. grace >= Grace BY <2>1 DEF Exit
  <2>3. TypeOK /\ Patience(c) BY DEF IInv, CallsInv
  <2>4. call[c].inside \in Nat /\ call[c].outside \in 0..MaxOutside BY <2>3, AliveFacts
  <2> QED BY <2>2, <2>3, <2>4, DaemonAssumption DEF Patience, TypeOK
<1> QED BY <1>1, IInvHolds, PTL DEF SafeSpec, CutCallsAreLong
=============================================================================
