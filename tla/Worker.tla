------------------------------- MODULE Worker --------------------------------
(***************************************************************************)
(* internal/worker: goboxd processes that poll SQS, run the jobs they      *)
(* receive, write status and result to Redis and delete the messages; with *)
(* the ingress that queues the jobs (CodeSumissionService) and, as the     *)
(* external parties they are, SQS itself and the Redis hash of a job.      *)
(*                                                                         *)
(* A job is one SQS message: its body never changes and each submission    *)
(* has a fresh id.  A handler is one goroutine of handleMessage.  A step   *)
(* is one call that leaves the process (a Redis pipeline, an SQS request)  *)
(* or one stage of the executor.  Time is not counted here: whatever needs *)
(* a clock (a handler outlasting the 90 s visibility timeout, a key        *)
(* reaching its 3600 s TTL) is one of the faults, allowed by FaultKinds.   *)
(***************************************************************************)
EXTENDS Integers, FiniteSets

CONSTANTS
  Jobs,          \* submissions
  Malformed,     \* jobs whose body is missing or does not decode
  Invalid,       \* jobs buildRequest refuses (no source, no language, bad type)
  NoTests,       \* jobs of type submit with an empty testCases map
  Procs,         \* goboxd processes polling the queue
  Handlers,      \* bound on the handler goroutines alive at the same time
  Nobody,        \* no handler, no job, no process
  Capacity,      \* slots of Executor.sem: MaxConcurrency + QueueDepth
  FaultKinds,    \* what may go wrong: a subset of AllFaults
  MaxFaults      \* how often, altogether

AllFaults == {"crash", "stop", "redis", "sqs", "late", "ttl"}

ASSUME WorkerAssumption ==
  /\ IsFiniteSet(Handlers)
  /\ Malformed \subseteq Jobs /\ Invalid \subseteq Jobs /\ NoTests \subseteq Jobs
  /\ Nobody \notin Handlers \cup Jobs \cup Procs
  /\ Capacity \in Nat
  /\ FaultKinds \subseteq AllFaults
  /\ MaxFaults \in Nat

VARIABLES
  msg,      \* msg[j]: the message of j at SQS
  holder,   \* holder[j]: the handler that has the latest receipt handle of j
  key,      \* key[j]: the Redis hash job:{j}
  told,     \* jobs a terminal status was ever published for (history)
  life,     \* life[p]: "draining" is after rootCancel, when every ctx is done
  pc,       \* pc[h]: how far handler h is inside handleMessage
  job, proc, \* job[h], proc[h]: what h is handling and where it runs
  out,      \* out[h]: what h is about to publish
  faults,   \* how many faults so far
  struck    \* and of which kinds, "panic" included (history)

queue    == <<msg, holder>>
redis    == <<key, told>>
handling == <<pc, job, proc, out>>
mishaps  == <<faults, struck>>
vars     == <<queue, redis, life, handling, mishaps>>

Terminal == {"DONE", "TIMEOUT", "ERROR"}
Stages   == {"free", "received", "marked", "executing", "writing", "deleting"}

\* The fields a write sets; "none" is a field the write does not mention.
Running   == [status |-> "RUNNING", result |-> "none", error |-> "none"]
Verdict(s, r) == [status |-> s, result |-> r, error |-> "none"]
Failed(e) == [status |-> "ERROR", result |-> "none", error |-> e]
Blank     == [status |-> "none", result |-> "none", error |-> "none"]

NoKey == [status |-> "none", result |-> "none", error |-> "none", ttl |-> FALSE]

Init ==
  /\ msg = [j \in Jobs |-> "unsent"]
  /\ holder = [j \in Jobs |-> Nobody]
  /\ key = [j \in Jobs |-> NoKey]
  /\ told = {}
  /\ life = [p \in Procs |-> "up"]
  /\ pc = [h \in Handlers |-> "free"]
  /\ job = [h \in Handlers |-> Nobody]
  /\ proc = [h \in Handlers |-> Nobody]
  /\ out = [h \in Handlers |-> Blank]
  /\ faults = 0
  /\ struck = {}

NoFault == UNCHANGED mishaps

Fault(kind) ==
  /\ kind \in FaultKinds
  /\ faults < MaxFaults
  /\ faults' = faults + 1
  /\ struck' = struck \cup {kind}

\* rootCtx is cancelled before the process ends and never revived: in a draining
\* process every call that takes a context fails.
Cancelled(h) == life[proc[h]] = "draining"

Goto(h, from, to) ==
  /\ pc[h] = from
  /\ pc' = [pc EXCEPT ![h] = to]

----------------------------------------------------------------------------
(* The queue.                                                              *)

\* create_submission: a 202 means that send_message succeeded.
Submit(j) ==
  /\ msg[j] = "unsent"
  /\ msg' = [msg EXCEPT ![j] = "visible"]
  /\ UNCHANGED <<holder, redis, life, handling, mishaps>>

Receive_Visible(p, h, j) ==    \* mutant: VisibilityTimeout 0 in ReceiveMessage
  /\ life[p] = "up"
  /\ msg[j] = "visible"
  /\ Goto(h, "free", "received")
  /\ job' = [job EXCEPT ![h] = j]
  /\ proc' = [proc EXCEPT ![h] = p]
  /\ holder' = [holder EXCEPT ![j] = h]
  /\ UNCHANGED <<msg, redis, life, out, mishaps>>

\* pollLoop receives a batch and starts one goroutine per message without waiting
\* for earlier ones.  A batch of k messages is k of these steps: nothing the
\* poller does in between is visible.
Receive(p, h, j) ==
  /\ life[p] = "up"
  /\ msg[j] = "visible"
  /\ Goto(h, "free", "received")
  /\ job' = [job EXCEPT ![h] = j]
  /\ proc' = [proc EXCEPT ![h] = p]
  /\ msg' = [msg EXCEPT ![j] = "hidden"]
  /\ holder' = [holder EXCEPT ![j] = h]
  /\ UNCHANGED <<redis, life, out, mishaps>>

\* The response of ReceiveMessage is lost: the message is hidden from everybody.
LoseReceive(j) ==
  /\ msg[j] = "visible"
  /\ Fault("sqs")
  /\ msg' = [msg EXCEPT ![j] = "hidden"]
  /\ UNCHANGED <<holder, redis, life, handling>>

\* The visibility timeout of a message that no handler is working on any more.
Reappear(j) ==
  /\ msg[j] = "hidden"
  /\ holder[j] = Nobody
  /\ msg' = [msg EXCEPT ![j] = "visible"]
  /\ UNCHANGED <<holder, redis, life, handling, mishaps>>

\* The same while its handler is still at work, or a duplicate delivery.
ReappearLate(j) ==
  /\ msg[j] = "hidden"
  /\ holder[j] # Nobody
  /\ Fault("late")
  /\ msg' = [msg EXCEPT ![j] = "visible"]
  /\ UNCHANGED <<holder, redis, life, handling>>

----------------------------------------------------------------------------
(* Redis.                                                                  *)

\* HSET overwrites the fields it names and keeps the others.
Merge(k, fields, ttl) ==
  [status |-> fields.status,
   result |-> IF fields.result = "none" THEN k.result ELSE fields.result,
   error  |-> IF fields.error = "none" THEN k.error ELSE fields.error,
   ttl    |-> ttl]

Apply(j, fields, ttl) ==
  /\ key' = [key EXCEPT ![j] = Merge(@, fields, ttl)]
  /\ told' = IF fields.status \in Terminal THEN told \cup {j} ELSE told

WriteRedis_Background(h, fields) ==   \* mutant: the write outlives the context
  Apply(job[h], fields, TRUE) /\ NoFault

WriteRedis_FieldByField(h, fields) == \* mutant: status and payload in separate calls
  \/ ~Cancelled(h) /\ Apply(job[h], fields, TRUE) /\ NoFault
  \/ Cancelled(h) /\ UNCHANGED redis /\ NoFault
  \/ /\ ~Cancelled(h)
     /\ Fault("redis")
     /\ Apply(job[h], [fields EXCEPT !.result = "none", !.error = "none"], FALSE)

\* writeRedis: HSET and EXPIRE in one pipeline that is not a transaction.  With a
\* cancelled context nothing is sent; a failing connection may apply nothing or
\* the HSET alone.
WriteRedis(h, fields) ==
  \/ ~Cancelled(h) /\ Apply(job[h], fields, TRUE) /\ NoFault
  \/ Cancelled(h) /\ UNCHANGED redis /\ NoFault
  \/ /\ ~Cancelled(h)
     /\ Fault("redis")
     /\ UNCHANGED redis \/ Apply(job[h], fields, key[job[h]].ttl)

\* The TTL of a key runs out an hour after the last write; no handler takes that
\* long.
ExpireKey(j) ==
  /\ key[j].ttl
  /\ \A h \in Handlers : job[h] # j
  /\ Fault("ttl")
  /\ key' = [key EXCEPT ![j] = NoKey]
  /\ UNCHANGED <<queue, told, life, handling>>

\* get_submission_result: no hash is shown as a job that waits in the queue.
Shown(j) == IF key[j].status = "none" THEN "QUEUED" ELSE key[j].status

----------------------------------------------------------------------------
(* handleMessage.                                                          *)

\* A nil body or one that does not decode goes straight to deleteMessage.
SkipMalformed(h) ==
  /\ job[h] \in Malformed
  /\ Goto(h, "received", "deleting")
  /\ UNCHANGED <<queue, redis, life, job, proc, out, mishaps>>

\* Whether the write of RUNNING succeeds or not, the handler goes on.
MarkRunning(h) ==
  /\ job[h] \notin Malformed
  /\ Goto(h, "received", "marked")
  /\ WriteRedis(h, Running)
  /\ UNCHANGED <<queue, life, job, proc, out>>

Occupied(p) == {h \in Handlers : pc[h] = "executing" /\ proc[h] = p}

\* buildRequest, then the select at the head of Executor.Run.
RefuseJob(h) ==
  /\ Goto(h, "marked", "writing")
  /\ \/ /\ job[h] \in Invalid
        /\ out' = [out EXCEPT ![h] = Failed("refused")]
     \/ /\ job[h] \notin Invalid
        /\ Cardinality(Occupied(proc[h])) >= Capacity
        /\ out' = [out EXCEPT ![h] = Failed("refused")]
  /\ UNCHANGED <<queue, redis, life, job, proc, mishaps>>

StartJob(h) ==
  /\ job[h] \notin Invalid
  /\ Cardinality(Occupied(proc[h])) < Capacity
  /\ Goto(h, "marked", "executing")
  /\ UNCHANGED <<queue, redis, life, job, proc, out, mishaps>>

Outcomes_RawStatus(h) ==       \* mutant: redisStatus is resp.Status as it is
  {Verdict("DONE", "complete"), Verdict("time_exceeded", "complete"), Failed("refused")}
    \cup IF Cancelled(h)
         THEN {Verdict("DONE", "interrupted"), Failed("interrupted")} ELSE {}

\* What Run may return.  When rootCtx was cancelled while it was going on, the
\* sandbox is killed: classifyExit takes the SIGKILL for an OOM, the remaining
\* tests fail to start, and the verdict says nothing of the program.
Outcomes(h) ==
  {Verdict("DONE", "complete"), Verdict("TIMEOUT", "complete"), Failed("refused")}
    \cup IF Cancelled(h)
         THEN {Verdict("DONE", "interrupted"), Failed("interrupted")} ELSE {}

\* A submit job without tests has an outcome only if Run returned no test result
\* (an error or a failed build); see PanicJob for the other case.
FinishJob(h) ==
  /\ Goto(h, "executing", "writing")
  /\ \E o \in Outcomes(h) :
       /\ job[h] \in NoTests => o.status # "TIMEOUT"
       /\ out' = [out EXCEPT ![h] = o]
  /\ UNCHANGED <<queue, redis, life, job, proc, mishaps>>

\* Whether the write of the result succeeds or not, the handler goes on.
PublishResult(h) ==
  /\ Goto(h, "writing", "deleting")
  /\ WriteRedis(h, out[h])
  /\ UNCHANGED <<queue, life, job, proc, out>>

\* Handler h ends; its receipt handle is forgotten with it.
Finish(h) ==
  /\ pc' = [pc EXCEPT ![h] = "free"]
  /\ job' = [job EXCEPT ![h] = Nobody]
  /\ proc' = [proc EXCEPT ![h] = Nobody]
  /\ out' = [out EXCEPT ![h] = Blank]
  /\ holder' = [j \in Jobs |-> IF holder[j] = h THEN Nobody ELSE holder[j]]

DeleteMessage_Background(h) == \* mutant: the delete outlives the context
  /\ pc[h] = "deleting"
  /\ msg' = [msg EXCEPT ![job[h]] = "deleted"]
  /\ NoFault
  /\ Finish(h)
  /\ UNCHANGED <<redis, life>>

DeleteMessage_NotAfterError(h) == \* mutant: an early return where Run fails
  /\ pc[h] = "deleting"
  /\ msg' = IF out[h].status = "ERROR" THEN msg ELSE [msg EXCEPT ![job[h]] = "deleted"]
  /\ NoFault
  /\ Finish(h)
  /\ UNCHANGED <<redis, life>>

\* deleteMessage: the error is only logged.  With a receipt handle that is not
\* the latest one SQS may or may not delete the message.
DeleteMessage(h) ==
  /\ pc[h] = "deleting"
  /\ \/ /\ ~Cancelled(h)
        /\ msg' = [msg EXCEPT ![job[h]] = "deleted"]
        /\ NoFault
     \/ /\ Cancelled(h) \/ holder[job[h]] # h
        /\ UNCHANGED msg
        /\ NoFault
     \/ Fault("sqs") /\ UNCHANGED msg
  /\ Finish(h)
  /\ UNCHANGED <<redis, life>>

----------------------------------------------------------------------------
(* Processes.                                                              *)

\* All goroutines of p end with it.
Kill(p) ==
  /\ pc' = [h \in Handlers |-> IF proc[h] = p THEN "free" ELSE pc[h]]
  /\ job' = [h \in Handlers |-> IF proc[h] = p THEN Nobody ELSE job[h]]
  /\ out' = [h \in Handlers |-> IF proc[h] = p THEN Blank ELSE out[h]]
  /\ proc' = [h \in Handlers |-> IF proc[h] = p THEN Nobody ELSE proc[h]]
  /\ holder' = [j \in Jobs |-> IF holder[j] \in Handlers /\ proc[holder[j]] = p
                               THEN Nobody ELSE holder[j]]
  /\ life' = [life EXCEPT ![p] = "down"]
  /\ UNCHANGED <<msg, redis>>

\* responseToMap indexes req.TestCases with the position of each test result, but
\* with no test cases Run returns one result all the same: the goroutine panics
\* and takes the process with it.
PanicJob(h) ==
  /\ pc[h] = "executing"
  /\ job[h] \in NoTests
  /\ Kill(proc[h])
  /\ struck' = struck \cup {"panic"}
  /\ UNCHANGED faults

Crash(p) ==
  /\ life[p] # "down"
  /\ Fault("crash")
  /\ Kill(p)

\* SIGINT or SIGTERM: rootCancel, seen by the poll loops and by every handler.
Shutdown(p) ==
  /\ life[p] = "up"
  /\ Fault("stop")
  /\ life' = [life EXCEPT ![p] = "draining"]
  /\ UNCHANGED <<queue, redis, handling>>

\* Start returns when the poll loops have, not when the handlers have; main then
\* returns and takes the handlers with it.
Exit(p) ==
  /\ life[p] = "draining"
  /\ Kill(p)
  /\ NoFault

Restart(p) ==
  /\ life[p] = "down"
  /\ life' = [life EXCEPT ![p] = "up"]
  /\ UNCHANGED <<queue, redis, handling, mishaps>>

----------------------------------------------------------------------------
Deliver(j) == \E p \in Procs, h \in Handlers : Receive(p, h, j)

Handle(h) == \/ SkipMalformed(h) \/ MarkRunning(h) \/ RefuseJob(h) \/ StartJob(h)
             \/ FinishJob(h) \/ PanicJob(h) \/ PublishResult(h) \/ DeleteMessage(h)

Sqs(j)     == Submit(j) \/ Deliver(j) \/ LoseReceive(j) \/ Reappear(j) \/ ReappearLate(j)
Process(p) == Crash(p) \/ Shutdown(p) \/ Exit(p) \/ Restart(p)

Next ==
  \/ \E j \in Jobs : Sqs(j) \/ ExpireKey(j)
  \/ \E h \in Handlers : Handle(h)
  \/ \E p \in Procs : Process(p)

\* SQS delivers visible messages and ends visibility timeouts; a goroutine keeps
\* running; a draining process ends; the container is restarted.  That a goroutine keeps
\* running assumes of Redis and SQS that their calls come back, and of the programs that
\* none holds its output open for ever: Executor.Run would not return (see Judge!Held).
Fairness ==
  /\ \A j \in Jobs : WF_vars(Deliver(j)) /\ WF_vars(Reappear(j))
  /\ \A h \in Handlers : WF_vars(Handle(h))
  /\ \A p \in Procs : WF_vars(Exit(p)) /\ WF_vars(Restart(p))

SafeSpec == Init /\ [][Next]_vars
Spec     == SafeSpec /\ Fairness

----------------------------------------------------------------------------
(* Properties                                                              *)

Results == {"none", "complete", "interrupted"}
Errors  == {"none", "refused", "interrupted"}

\* Every variable has its type, in Redis only what the readers of the hash know; idle
\* handlers hold nothing and busy ones run in a live process.
TypeOK ==
  /\ msg \in [Jobs -> {"unsent", "visible", "hidden", "deleted"}]
  /\ holder \in [Jobs -> Handlers \cup {Nobody}]
  /\ key \in [Jobs -> [status : {"none", "RUNNING"} \cup Terminal, result : Results,
                       error : Errors, ttl : BOOLEAN]]
  /\ told \subseteq Jobs
  /\ life \in [Procs -> {"up", "draining", "down"}]
  /\ pc \in [Handlers -> Stages]
  /\ job \in [Handlers -> Jobs \cup {Nobody}]
  /\ proc \in [Handlers -> Procs \cup {Nobody}]
  /\ out \in [Handlers -> [status : {"none"} \cup Terminal, result : Results, error : Errors]]
  /\ faults \in Nat /\ struck \subseteq FaultKinds \cup {"panic"}
  /\ \A h \in Handlers :
       IF pc[h] = "free" THEN job[h] = Nobody /\ proc[h] = Nobody
       ELSE job[h] \in Jobs /\ proc[h] \in Procs /\ life[proc[h]] # "down"

\* A verdict of a run that the shutdown cut short never reaches Redis: the context
\* that killed the sandbox also fails the write, and nothing revives it in between.
NoInterruptedVerdict ==
  \A j \in Jobs : key[j].result # "interrupted" /\ key[j].error # "interrupted"

\* A reader that sees DONE or TIMEOUT finds a result, one that sees ERROR finds an
\* error: whatever is retried, redelivered or half written, a status is never
\* visible without the field that explains it.
TerminalHasPayload ==
  \A j \in Jobs : /\ key[j].status \in {"DONE", "TIMEOUT"} => key[j].result # "none"
                  /\ key[j].status = "ERROR" => key[j].error # "none"

\* As long as no handler has outlasted the visibility timeout, two handlers never work on
\* the same job, across crashes, shutdowns, lost calls and redeliveries.
SingleHandler ==
  "late" \notin struck =>
    \A h1, h2 \in Handlers : h1 # h2 /\ job[h1] # Nobody => job[h1] # job[h2]

\* The comment on handleMessage: "It always deletes the message at the end (even
\* on error) to avoid reprocessing - the error is surfaced via the Redis "error"
\* field".  A job whose message is gone is shown with a terminal status.
AlwaysSurfaced ==
  \A j \in Jobs \ Malformed : msg[j] = "deleted" => Shown(j) \in Terminal

\* That is so unless Redis fails, a second handler is at work or the TTL is over:
\* crashes, shutdowns and lost calls at any point never leave a job whose message
\* is gone at RUNNING or without a hash.
DeletedIsSettled == struck \cap {"redis", "late", "ttl"} = {} => AlwaysSurfaced

\* What a client was told stays: once a terminal status is shown, no field of the hash
\* changes - it does not go back to RUNNING or to the QUEUED of a missing key, and no
\* result joins the error of an earlier run - unless a run is repeated (its message
\* outlived the answer) or the TTL is over.  Failing Redis writes alone do not do it.
AnswerStays ==
  [][struck' \subseteq {"redis"} =>
       \A j \in Jobs : Shown(j) \in Terminal => key'[j] = key[j]]_vars

\* The worker keeps a job until it has been answered, if Redis accepts the writes.
stageView ==
  [j \in Jobs |-> CASE msg[j] = "unsent" -> "unsent"
                    [] msg[j] = "deleted" -> "forgotten"
                    [] msg[j] \in {"visible", "hidden"} /\ j \in told -> "answered"
                    [] OTHER -> "pending"]

Promise == INSTANCE AtLeastOnce WITH Unreadable <- Malformed, stage <- stageView

ImplementsAtLeastOnce == Promise!Spec

\* A job that can be read is eventually answered, whatever finite number of
\* crashes, shutdowns, lost calls and redeliveries happen on the way.
EveryJobAnswered ==
  \A j \in Jobs \ Malformed : msg[j] = "visible" ~> j \in told

\* What the documents and comments say and the code does not do, each refuted by
\* a run of its own (AlwaysSurfaced above is one of them).

\* The comment on handleMessage again, "It always deletes the message at the end
\* (even on error)", as a liveness property: a message is eventually gone.
AlwaysDeleted == \A j \in Jobs : msg[j] = "visible" ~> msg[j] = "deleted"
==============================================================================
