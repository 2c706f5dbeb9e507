------------------------------- MODULE Daemon -------------------------------
(***************************************************************************)
(* cmd/goboxd on the clock: start with the sweep of stale job directories, *)
(* the calls a process serves, its shutdown on a signal, and the deadlines *)
(* that the three constants of time give to them: the invisibility of a    *)
(* message against the context of its run, the request timeout against the *)
(* grace of the shutdown, and the age at which a directory is swept.       *)
(*                                                                         *)
(* A unit of time passes with Tick; all that is not the passing of time is *)
(* instantaneous.  A call is an HTTP request or the handler of a message.  *)
(* It is "before" its run (the body is read; the message travels and       *)
(* RUNNING is written), "running" in Executor.Run with a job directory, or *)
(* "after" it (the answer is sent; the result is written and the message   *)
(* deleted).  Only the run has a deadline, and the calls in Holding may    *)
(* overrun even that: cmd.Run waits for the output of the jailed program.  *)
(***************************************************************************)
EXTENDS Integers, FiniteSets

CONSTANTS
  Calls,            \* bound on the calls alive at the same time
  Holding,          \* those whose jailed programs may keep their output open for ever
  Messages,         \* bound on the messages in the queue
  Nothing,          \* no call, no message
  Visibility,       \* sqsVisibilityS
  Headroom,         \* what the context of a run is shorter: 10 s
  RequestTimeout,   \* Cfg.RequestTimeout
  Grace,            \* the timeout of srv.Shutdown: 10 s
  Hour,             \* maxAge of the sweep
  MaxUptime,        \* uptime is counted up to here,
  MaxInside,        \* the time of a call in its run up to here
  MaxOutside        \* and outside its run up to here

ASSUME DaemonAssumption ==
  /\ Nothing \notin Messages /\ Holding \subseteq Calls
  /\ Visibility \in Nat /\ Headroom \in Nat /\ Headroom < Visibility
  /\ RequestTimeout \in Nat /\ Grace \in Nat /\ Hour \in Nat /\ MaxUptime \in Nat \ {0}
  /\ MaxInside \in Nat /\ MaxInside >= Grace
  /\ Visibility - Headroom < MaxInside /\ RequestTimeout < MaxInside
  /\ MaxOutside \in Nat /\ MaxOutside >= Headroom /\ MaxOutside >= Grace

VARIABLES
  life,      \* "up", "stopping" after the signal, "exited" or "crashed"
  uptime,    \* time since the start
  grace,     \* time since the signal
  poller,    \* the loop that receives messages
  call,      \* call[c]: what c is doing, or Nothing
  timer,     \* timer[m]: how long m stays invisible, Gone when it is not in the queue
  strays     \* directories that outlived their process, by the time since mtime

vars == <<life, uptime, grace, poller, call, timer, strays>>

Gone == -1
Smaller(a, b) == IF a <= b THEN a ELSE b

\* Ages beyond this are counted as this.
MaxAge == Hour + MaxUptime

Down == life \in {"exited", "crashed"}

Alive == {c \in Calls : call[c] # Nothing}

Deadline_NoHeadroom(k) ==      \* mutant: the run may take as long as the message is hidden
  IF k = "http" THEN RequestTimeout ELSE Visibility

\* The context of Executor.Run in api.Server.run and in handleMessage.
Deadline(k) == IF k = "http" THEN RequestTimeout ELSE Visibility - Headroom

Fresh(k, m) == [kind |-> k, message |-> m, at |-> "before", inside |-> 0, outside |-> 0]

Init ==
  /\ life = "exited" /\ uptime = 0 /\ grace = 0
  /\ poller = "off"
  /\ call = [c \in Calls |-> Nothing]
  /\ timer = [m \in Messages |-> Gone]
  /\ strays = {}

----------------------------------------------------------------------------
(* Time.                                                                   *)

Overdue_NoContext(c) ==        \* mutant: handleMessage passes on the context it has
  /\ c \notin Holding /\ call[c].kind = "http"
  /\ call[c].at = "running" /\ call[c].inside >= Deadline("http")

\* Executor.Run returns when its context ends, unless its output is held open.
Overdue(c) ==
  c \notin Holding /\ call[c].at = "running" /\ call[c].inside >= Deadline(call[c].kind)

Older(r) ==
  IF r.at = "running" THEN [r EXCEPT !.inside = Smaller(@ + 1, MaxInside)]
  ELSE [r EXCEPT !.outside = Smaller(@ + 1, MaxOutside)]

\* Shutdown returns when its time is over.
Tick ==
  /\ \A c \in Alive : ~Overdue(c)
  /\ life = "stopping" => grace < Grace
  /\ call' = [c \in Calls |-> IF call[c] = Nothing THEN Nothing ELSE Older(call[c])]
  /\ timer' = [m \in Messages |-> IF timer[m] > 0 THEN timer[m] - 1 ELSE timer[m]]
  /\ strays' = {Smaller(a + 1, MaxAge) : a \in strays}
  /\ uptime' = IF Down THEN 0 ELSE Smaller(uptime + 1, MaxUptime)
  /\ grace' = IF life = "stopping" THEN grace + 1 ELSE 0
  /\ UNCHANGED <<life, poller>>

----------------------------------------------------------------------------
(* Start and end of a process.                                             *)

Stale_WrongWay(age) == age < Hour    \* mutant: After for Before

\* sweepStaleJobs: info.ModTime().Before(cutoff)
Stale(age) == age > Hour

\* The sweep comes before anything that may fail: a process that does not get
\* further than LoadDir or worker.New has swept all the same.  Without SQS_QUEUE_URL
\* there is no poller.
StartProcess ==
  /\ Down
  /\ strays' = {a \in strays : ~Stale(a)}
  /\ uptime' = 0
  /\ \/ life' = "up" /\ poller' \in {"receiving", "off"}
     \/ UNCHANGED <<life, poller>>
  /\ UNCHANGED <<grace, call, timer>>

\* The directories of calls that were running stay.  The mtime of one is the last
\* time an entry of it came or went: any time during the run.
Die(how) ==
  /\ life' = how /\ poller' = "off" /\ uptime' = 0 /\ grace' = 0
  /\ call' = [c \in Calls |-> Nothing]
  /\ \E age \in [Calls -> 0..MaxInside] :
       /\ \A c \in Calls : age[c] <= IF c \in Alive THEN call[c].inside ELSE 0
       /\ strays' = strays \cup
            {Smaller(age[c], MaxAge) : c \in {d \in Alive : call[d].at = "running"}}
  /\ UNCHANGED timer

\* From outside, by a panic in a handler, or by os.Exit after a listener error.
Crash == ~Down /\ Die("crashed")

\* The signal handler: rootCancel, then srv.Shutdown with its timeout.
Signal ==
  /\ life = "up"
  /\ life' = "stopping" /\ grace' = 0
  /\ UNCHANGED <<uptime, poller, call, timer, strays>>

Exit_NoGrace ==                \* mutant: srv.Shutdown(context.Background())
  /\ life = "stopping" /\ poller = "off"
  /\ \A c \in Alive : call[c].kind # "http"
  /\ Die("exited")

\* Shutdown returns when no request is left or its time is over; main waits for
\* the poll loops as well, not for the handlers.
Exit ==
  /\ life = "stopping" /\ poller = "off"
  /\ grace >= Grace \/ \A c \in Alive : call[c].kind # "http"
  /\ Die("exited")

----------------------------------------------------------------------------
(* pollLoop.                                                               *)

\* An error is followed by a pause.
ReceiveFails ==
  /\ life = "up" /\ poller = "receiving"
  /\ poller' = "pausing"
  /\ UNCHANGED <<life, uptime, grace, call, timer, strays>>

\* The pause may run out after the signal as well; the loop then looks at ctx.Done.
Resume ==
  /\ poller = "pausing"
  /\ poller' = "receiving"
  /\ UNCHANGED <<life, uptime, grace, call, timer, strays>>

\* A cancelled context ends ReceiveMessage, the pause and the loop.
StopPolling ==
  /\ life = "stopping" /\ poller # "off"
  /\ poller' = "off"
  /\ UNCHANGED <<life, uptime, grace, call, timer, strays>>

\* A message somebody sends.
Send(m) ==
  /\ timer[m] = Gone
  /\ \A c \in Alive : call[c].message # m
  /\ timer' = [timer EXCEPT ![m] = 0]
  /\ UNCHANGED <<life, uptime, grace, poller, call, strays>>

Receive(c, m) ==
  /\ life = "up" /\ poller = "receiving"
  /\ timer[m] = 0 /\ call[c] = Nothing
  /\ timer' = [timer EXCEPT ![m] = Visibility]
  /\ call' = [call EXCEPT ![c] = Fresh("sqs", m)]
  /\ UNCHANGED <<life, uptime, grace, poller, strays>>

----------------------------------------------------------------------------
(* Calls.                                                                  *)

Accept_WhileStopping(c) ==     \* mutant: the listener stays open
  /\ ~Down
  /\ call[c] = Nothing
  /\ call' = [call EXCEPT ![c] = Fresh("http", Nothing)]
  /\ UNCHANGED <<life, uptime, grace, poller, timer, strays>>

Accept(c) ==
  /\ life = "up"
  /\ call[c] = Nothing
  /\ call' = [call EXCEPT ![c] = Fresh("http", Nothing)]
  /\ UNCHANGED <<life, uptime, grace, poller, timer, strays>>

\* Executor.Run, from MkdirAll to RemoveAll.
EnterRun(c) ==
  /\ c \in Alive /\ call[c].at = "before"
  /\ call' = [call EXCEPT ![c].at = "running"]
  /\ UNCHANGED <<life, uptime, grace, poller, timer, strays>>

LeaveRun(c) ==
  /\ c \in Alive /\ call[c].at = "running"
  /\ call' = [call EXCEPT ![c].at = "after"]
  /\ UNCHANGED <<life, uptime, grace, poller, timer, strays>>

\* Early returns end a call before its run.  The deletion of the message may fail.
EndCall(c) ==
  /\ c \in Alive /\ call[c].at # "running"
  /\ call' = [call EXCEPT ![c] = Nothing]
  /\ IF call[c].kind = "sqs"
     THEN timer' \in {timer, [timer EXCEPT ![call[c].message] = Gone]}
     ELSE UNCHANGED timer
  /\ UNCHANGED <<life, uptime, grace, poller, strays>>

----------------------------------------------------------------------------
Proceed(c) == EnterRun(c) \/ LeaveRun(c) \/ EndCall(c)

Next ==
  \/ Tick \/ StartProcess \/ Crash \/ Signal \/ Exit
  \/ ReceiveFails \/ Resume \/ StopPolling
  \/ \E m \in Messages : Send(m) \/ \E c \in Calls : Receive(c, m)
  \/ \E c \in Calls : Accept(c) \/ Proceed(c)

\* Time passes, runs come to their end unless their output is held open, and a process
\* that has nothing left to wait for ends.
Fairness ==
  /\ WF_vars(Tick) /\ WF_vars(StopPolling) /\ WF_vars(Exit)
  /\ \A c \in Calls \ Holding : WF_vars(LeaveRun(c))

SafeSpec == Init /\ [][Next]_vars
Spec     == SafeSpec /\ Fairness

----------------------------------------------------------------------------
(* Properties                                                              *)

CallRecord ==
  [kind : {"http", "sqs"}, message : Messages \cup {Nothing}, at : {"before", "running", "after"},
   inside : 0..MaxInside, outside : 0..MaxOutside]

\* Every variable has its type, no run is past its deadline unless its output is held
\* open, and calls live in a live process only.
TypeOK ==
  /\ life \in {"up", "stopping", "exited", "crashed"}
  /\ uptime \in 0..MaxUptime /\ grace \in 0..Grace
  /\ poller \in {"receiving", "pausing", "off"}
  /\ call \in [Calls -> CallRecord \cup {Nothing}]
  /\ timer \in [Messages -> {Gone} \cup 0..Visibility]
  /\ strays \subseteq 0..MaxAge
  /\ \A c \in Alive : /\ c \notin Holding => call[c].inside <= Deadline(call[c].kind)
                      /\ call[c].kind = "sqs" => call[c].message \in Messages
  /\ Down => Alive = {}

\* What the sweep achieves: a process never has a directory of an earlier one that is
\* older than an hour and its own uptime.  (Not: than an hour.  There is no sweep while
\* a process runs.)
StraysBounded == ~Down => \A a \in strays : a <= Hour + uptime

\* The Redis and SQS calls of a handler have taken the whole headroom, or its run has
\* overrun its context.
Late(c) == call[c].outside >= Headroom \/ call[c].inside > Deadline("sqs")

\* Only that makes a handler outlast the invisibility of its message: if a message is
\* visible again, or with a second handler, while the first is still at work, one of
\* the two is late.
OverlapIsLate ==
  \A c \in Alive :
    call[c].kind = "sqs" /\ ~Late(c) =>
      /\ timer[call[c].message] # 0
      /\ \A d \in Alive \ {c} : call[d].message = call[c].message => Late(d)

\* A graceful exit cuts no HTTP request that has not had the whole grace: none is
\* accepted after the signal, and main waits for those that were.
CutCallsAreLong ==
  [][life = "stopping" /\ life' = "exited" =>
       \A c \in Alive : call[c].kind = "http" =>
                          call[c].inside + call[c].outside >= Grace]_vars

\* A signal ends the process, whatever its pollers and requests are doing: a pause, a
\* run that never returns and a client that never reads its answer included.
ShutdownEnds == life = "stopping" ~> life # "stopping"
==============================================================================
