---------------------------- MODULE Worker_proofs ----------------------------
(***************************************************************************)
(* Theorems about Worker.tla, for every set of jobs, processes and         *)
(* handlers, every capacity and every number of faults: what reaches Redis *)
(* is a verdict that was earned and complete, two handlers meet on one job *)
(* only when a message was visible too early, a deleted message leaves an  *)
(* answer behind, and the worker implements AtLeastOnce.                   *)
(***************************************************************************)
EXTENDS Worker, TLAPS

Outs == [status : {"none"} \cup Terminal, result : Results, error : Errors]
Keys == [status : {"none", "RUNNING"} \cup Terminal, result : Results, error : Errors,
         ttl : BOOLEAN]

\* TypeOK in parts: the functions, and what is true of one handler.
Types ==
  /\ msg \in [Jobs -> {"unsent", "visible", "hidden", "deleted"}]
  /\ holder \in [Jobs -> Handlers \cup {Nobody}]
  /\ key \in [Jobs -> Keys]
  /\ told \subseteq Jobs
  /\ life \in [Procs -> {"up", "draining", "down"}]
  /\ pc \in [Handlers -> Stages]
  /\ job \in [Handlers -> Jobs \cup {Nobody}]
  /\ proc \in [Handlers -> Procs \cup {Nobody}]
  /\ out \in [Handlers -> Outs]
  /\ faults \in Nat /\ struck \subseteq FaultKinds \cup {"panic"}

Placed(h) ==
  IF pc[h] = "free" THEN job[h] = Nobody /\ proc[h] = Nobody
  ELSE job[h] \in Jobs /\ proc[h] \in Procs /\ life[proc[h]] # "down"

LEMMA TypeParts == TypeOK <=> Types /\ \A h \in Handlers : Placed(h)
BY DEF TypeOK, Types, Placed, Outs, Keys

LEMMA NobodyApart == Nobody \notin Handlers /\ Nobody \notin Jobs /\ Nobody \notin Procs
BY WorkerAssumption

\* What a handler has at hand when it is about to publish.
Publishable ==
  {Verdict("DONE", "complete"), Verdict("TIMEOUT", "complete"), Failed("refused"),
   Verdict("DONE", "interrupted"), Failed("interrupted")}

\* A verdict that a shutdown cut short exists in a draining process only.
OutEarned ==
  \A h \in Handlers :
    /\ pc[h] = "writing" => out[h] \in Publishable
    /\ out[h].result = "interrupted" \/ out[h].error = "interrupted" =>
         pc[h] # "free" /\ life[proc[h]] = "draining"

KeysExplained == NoInterruptedVerdict /\ TerminalHasPayload

\* A job at work has been sent; its hash is only written if its message was readable.
WorkSent ==
  /\ \A h \in Handlers : pc[h] # "free" =>
       /\ msg[job[h]] # "unsent"
       /\ pc[h] \in {"marked", "executing", "writing"} => job[h] \notin Malformed
  /\ \A j \in told : msg[j] # "unsent" /\ j \notin Malformed

\* Without early reappearance a handler has the message of its job to itself.
Exclusive ==
  "late" \notin struck =>
    \A h \in Handlers : pc[h] # "free" => holder[job[h]] = h /\ msg[job[h]] = "hidden"

Settled(j) ==
  /\ j \in told
  /\ struck \cap {"late", "ttl"} = {} => key[j].status \in Terminal

\* Without failing Redis writes a live handler that deletes has published.
DeletedTold ==
  "redis" \notin struck =>
    /\ \A h \in Handlers, j \in Jobs \ Malformed :
         pc[h] = "deleting" /\ life[proc[h]] = "up" /\ job[h] = j => Settled(j)
    /\ \A j \in Jobs \ Malformed : msg[j] = "deleted" => Settled(j)

\* Without any other fault the one who answered is about to delete, or has deleted.
AnsweredOnce ==
  struck \subseteq {"redis"} =>
    /\ \A p \in Procs : life[p] = "up"
    /\ \A j \in Jobs : key[j].status \in Terminal =>
         msg[j] = "deleted" \/ \E h \in Handlers : pc[h] = "deleting" /\ job[h] = j

IInv == /\ TypeOK /\ OutEarned /\ KeysExplained /\ WorkSent
        /\ Exclusive /\ DeletedTold /\ AnsweredOnce

----------------------------------------------------------------------------
(* Types.                                                                  *)

LEMMA TypeInit == Init => TypeOK
BY WorkerAssumption DEF Init, TypeOK, Blank, NoKey, Terminal, Results, Errors, Stages

LEMMA FaultTypes ==
  ASSUME Types, NEW k, Fault(k) \/ NoFault
  PROVE  faults' \in Nat /\ struck' \subseteq FaultKinds \cup {"panic"}
BY DEF Types, Fault, NoFault, mishaps

\* What a write leaves in the hash of a job.
LEMMA MergeFacts ==
  ASSUME NEW k \in Keys, NEW f \in Outs \cup {Running}, NEW t \in BOOLEAN
  PROVE  /\ Merge(k, f, t) \in Keys
         /\ Merge(k, f, t).status = f.status
         /\ Merge(k, f, t).result = IF f.result = "none" THEN k.result ELSE f.result
         /\ Merge(k, f, t).error = IF f.error = "none" THEN k.error ELSE f.error
BY DEF Merge, Keys, Outs, Running, Results, Errors, Terminal

\* writeRedis touches the hash of its own job, if any, and tells what it wrote.
LEMMA WriteFacts ==
  ASSUME Types, NEW h \in Handlers, job[h] \in Jobs,
         NEW f \in Outs \cup {Running}, WriteRedis(h, f)
  PROVE  \/ key' = key /\ told' = told
         \/ \E t \in BOOLEAN :
              /\ key' = [key EXCEPT ![job[h]] = Merge(key[job[h]], f, t)]
              /\ told' = IF f.status \in Terminal THEN told \cup {job[h]} ELSE told
<1>1. key[job[h]].ttl \in BOOLEAN BY DEF Types, Keys
<1>2. \A t : Apply(job[h], f, t) =>
         /\ key' = [key EXCEPT ![job[h]] = Merge(key[job[h]], f, t)]
         /\ told' = IF f.status \in Terminal THEN told \cup {job[h]} ELSE told
  BY DEF Apply, Types
<1>3. \/ key' = key /\ told' = told
      \/ Apply(job[h], f, TRUE)
      \/ Apply(job[h], f, key[job[h]].ttl)
  BY DEF WriteRedis, redis
<1> QED BY <1>1, <1>2, <1>3

LEMMA WriteTypes ==
  ASSUME Types, NEW h \in Handlers, job[h] \in Jobs,
         NEW f \in Outs \cup {Running}, WriteRedis(h, f)
  PROVE  /\ key' \in [Jobs -> Keys] /\ told' \subseteq Jobs
         /\ faults' \in Nat /\ struck' \subseteq FaultKinds \cup {"panic"}
<1>1. key' \in [Jobs -> Keys] /\ told' \subseteq Jobs
  <2>1. CASE key' = key /\ told' = told BY <2>1 DEF Types
  <2>2. ASSUME NEW t \in BOOLEAN,
               key' = [key EXCEPT ![job[h]] = Merge(key[job[h]], f, t)],
               told' = IF f.status \in Terminal THEN told \cup {job[h]} ELSE told
        PROVE  key' \in [Jobs -> Keys] /\ told' \subseteq Jobs
    <3>1. Merge(key[job[h]], f, t) \in Keys BY MergeFacts DEF Types
    <3> QED BY <2>2, <3>1 DEF Types
  <2> QED BY <2>1, <2>2, WriteFacts
<1>2. Fault("redis") \/ NoFault BY DEF WriteRedis
<1> QED BY <1>1, <1>2, FaultTypes

\* A handler that goes from one busy stage to another.
LEMMA MoveTypes ==
  ASSUME TypeOK, NEW h \in Handlers, NEW from \in Stages \ {"free"}, NEW to \in Stages \ {"free"},
         Goto(h, from, to), UNCHANGED <<job, proc, life>>
  PROVE  /\ pc' \in [Handlers -> Stages]
         /\ \A g \in Handlers : Placed(g)'
         /\ job[h] \in Jobs /\ proc[h] \in Procs /\ life[proc[h]] # "down"
BY TypeParts DEF Types, Placed, Goto

\* What a handler may have to publish.
LEMMA OutTypes ==
  /\ Failed("refused") \in Outs /\ Blank \in Outs
  /\ \A h \in Handlers : Outcomes(h) \subseteq Outs
BY DEF Outs, Outcomes, Verdict, Failed, Blank, Results, Errors, Terminal

LEMMA FinishTypes ==
  ASSUME TypeOK, NEW h \in Handlers, Finish(h), UNCHANGED life
  PROVE  /\ pc' \in [Handlers -> Stages]
         /\ job' \in [Handlers -> Jobs \cup {Nobody}]
         /\ proc' \in [Handlers -> Procs \cup {Nobody}]
         /\ out' \in [Handlers -> Outs]
         /\ holder' \in [Jobs -> Handlers \cup {Nobody}]
         /\ \A g \in Handlers : Placed(g)'
BY TypeParts, OutTypes DEF Types, Placed, Finish, Stages

LEMMA KillTypes ==
  ASSUME TypeOK, NEW p \in Procs, Kill(p)
  PROVE  /\ pc' \in [Handlers -> Stages]
         /\ job' \in [Handlers -> Jobs \cup {Nobody}]
         /\ proc' \in [Handlers -> Procs \cup {Nobody}]
         /\ out' \in [Handlers -> Outs]
         /\ holder' \in [Jobs -> Handlers \cup {Nobody}]
         /\ life' \in [Procs -> {"up", "draining", "down"}]
         /\ msg' = msg /\ key' = key /\ told' = told
         /\ \A g \in Handlers : Placed(g)'
<1>1. Types /\ \A g \in Handlers : Placed(g) BY TypeParts
<1>2. msg' = msg /\ key' = key /\ told' = told BY DEF Kill, redis
<1>3. /\ pc' \in [Handlers -> Stages]
      /\ job' \in [Handlers -> Jobs \cup {Nobody}]
      /\ proc' \in [Handlers -> Procs \cup {Nobody}]
      /\ out' \in [Handlers -> Outs]
  BY <1>1, OutTypes DEF Kill, Types, Stages
<1>4. /\ holder' \in [Jobs -> Handlers \cup {Nobody}]
      /\ life' \in [Procs -> {"up", "draining", "down"}]
  BY <1>1 DEF Kill, Types
<1>5. ASSUME NEW g \in Handlers PROVE Placed(g)'
  <2>1. Placed(g) BY <1>1
  <2>2. CASE proc[g] = p
    BY <1>5, <2>2 DEF Kill, Placed
  <2>3. CASE proc[g] # p
    <3>1. pc'[g] = pc[g] /\ job'[g] = job[g] /\ proc'[g] = proc[g]
      BY <1>5, <2>3 DEF Kill
    <3>2. proc[g] \in Procs => life'[proc[g]] = life[proc[g]] BY <1>1, <2>3 DEF Kill, Types
    <3> QED BY <2>1, <3>1, <3>2 DEF Placed
  <2> QED BY <2>2, <2>3
<1> QED BY <1>2, <1>3, <1>4, <1>5

LEMMA TypeStep == TypeOK /\ [Next]_vars => TypeOK'
<1> SUFFICES ASSUME TypeOK, [Next]_vars PROVE TypeOK' OBVIOUS
<1>0. /\ Types /\ \A h \in Handlers : Placed(h)
      /\ Types' /\ (\A h \in Handlers : Placed(h)') => TypeOK'
  <2>1. Types' /\ (\A h \in Handlers : Placed(h)') => TypeOK'
    BY DEF TypeOK, Types, Placed, Outs, Keys
  <2> QED BY <2>1, TypeParts
<1>1. ASSUME NEW j \in Jobs, Submit(j) \/ Reappear(j) PROVE TypeOK'
  BY <1>0, <1>1 DEF Submit, Reappear, Types, Placed, redis, handling, mishaps
<1>2. ASSUME NEW j \in Jobs, LoseReceive(j) \/ ReappearLate(j) PROVE TypeOK'
  <2>1. faults' \in Nat /\ struck' \subseteq FaultKinds \cup {"panic"}
    BY <1>0, <1>2, FaultTypes DEF LoseReceive, ReappearLate
  <2> QED BY <1>0, <1>2, <2>1 DEF LoseReceive, ReappearLate, Types, Placed, redis, handling
<1>3. ASSUME NEW j \in Jobs, NEW p \in Procs, NEW h \in Handlers, Receive(p, h, j) PROVE TypeOK'
  BY <1>0, <1>3 DEF Receive, Goto, Types, Placed, redis, mishaps, Stages
<1>4. ASSUME NEW j \in Jobs, ExpireKey(j) PROVE TypeOK'
  <2>1. faults' \in Nat /\ struck' \subseteq FaultKinds \cup {"panic"}
    BY <1>0, <1>4, FaultTypes DEF ExpireKey
  <2>2. NoKey \in Keys BY DEF NoKey, Keys, Results, Errors
  <2> QED BY <1>0, <1>4, <2>1, <2>2 DEF ExpireKey, Types, Placed, queue, handling
<1>5. ASSUME NEW h \in Handlers, SkipMalformed(h) PROVE TypeOK'
  <2>1. pc' \in [Handlers -> Stages] /\ \A g \in Handlers : Placed(g)'
    BY <1>5, MoveTypes DEF SkipMalformed, Stages
  <2> QED BY <1>0, <1>5, <2>1 DEF SkipMalformed, Types, queue, redis, mishaps
<1>6. ASSUME NEW h \in Handlers, MarkRunning(h) PROVE TypeOK'
  <2>1. /\ pc' \in [Handlers -> Stages] /\ \A g \in Handlers : Placed(g)'
        /\ job[h] \in Jobs
    BY <1>6, MoveTypes DEF MarkRunning, Stages
  <2>2. /\ key' \in [Jobs -> Keys] /\ told' \subseteq Jobs
        /\ faults' \in Nat /\ struck' \subseteq FaultKinds \cup {"panic"}
    BY <1>0, <1>6, <2>1, WriteTypes DEF MarkRunning
  <2> QED BY <1>0, <1>6, <2>1, <2>2 DEF MarkRunning, Types, queue
<1>7. ASSUME NEW h \in Handlers, RefuseJob(h) \/ FinishJob(h) PROVE TypeOK'
  <2>1. /\ pc' \in [Handlers -> Stages] /\ \A g \in Handlers : Placed(g)'
    BY <1>7, MoveTypes DEF RefuseJob, FinishJob, Stages
  <2>2. \E o \in Outs : out' = [out EXCEPT ![h] = o]
    BY <1>7, OutTypes DEF RefuseJob, FinishJob
  <2>3. out' \in [Handlers -> Outs] BY <1>0, <2>2 DEF Types
  <2> QED BY <1>0, <1>7, <2>1, <2>3 DEF RefuseJob, FinishJob, Types, queue, redis, mishaps
<1>8. ASSUME NEW h \in Handlers, StartJob(h) PROVE TypeOK'
  <2>1. /\ pc' \in [Handlers -> Stages] /\ \A g \in Handlers : Placed(g)'
    BY <1>8, MoveTypes DEF StartJob, Stages
  <2> QED BY <1>0, <1>8, <2>1 DEF StartJob, Types, queue, redis, mishaps
<1>9. ASSUME NEW h \in Handlers, PublishResult(h) PROVE TypeOK'
  <2>1. /\ pc' \in [Handlers -> Stages] /\ \A g \in Handlers : Placed(g)'
        /\ job[h] \in Jobs
    BY <1>9, MoveTypes DEF PublishResult, Stages
  <2>2. /\ key' \in [Jobs -> Keys] /\ told' \subseteq Jobs
        /\ faults' \in Nat /\ struck' \subseteq FaultKinds \cup {"panic"}
    <3>1. out[h] \in Outs BY <1>0 DEF Types
    <3> QED BY <1>0, <1>9, <2>1, <3>1, WriteTypes DEF PublishResult
  <2> QED BY <1>0, <1>9, <2>1, <2>2 DEF PublishResult, Types, queue
<1>10. ASSUME NEW h \in Handlers, DeleteMessage(h) PROVE TypeOK'
  <2>1. /\ pc' \in [Handlers -> Stages]
        /\ job' \in [Handlers -> Jobs \cup {Nobody}]
        /\ proc' \in [Handlers -> Procs \cup {Nobody}]
        /\ out' \in [Handlers -> Outs]
        /\ holder' \in [Jobs -> Handlers \cup {Nobody}]
        /\ \A g \in Handlers : Placed(g)'
    BY <1>10, FinishTypes DEF DeleteMessage
  <2>2. faults' \in Nat /\ struck' \subseteq FaultKinds \cup {"panic"}
    BY <1>0, <1>10, FaultTypes DEF DeleteMessage
  <2>3. msg' = msg \/ msg' = [msg EXCEPT ![job[h]] = "deleted"] BY <1>10 DEF DeleteMessage
  <2> QED BY <1>0, <1>10, <2>1, <2>2, <2>3 DEF DeleteMessage, Types, redis
<1>11. ASSUME NEW p \in Procs, Kill(p), Fault("crash") \/ NoFault PROVE TypeOK'
  <2>1. faults' \in Nat /\ struck' \subseteq FaultKinds \cup {"panic"}
    BY <1>0, <1>11, FaultTypes
  <2> QED BY <1>0, <1>11, <2>1, KillTypes DEF Types
<1>12. ASSUME NEW h \in Handlers, PanicJob(h) PROVE TypeOK'
  <2>1. proc[h] \in Procs BY <1>0, <1>12 DEF PanicJob, Placed
  <2>2. faults' \in Nat /\ struck' \subseteq FaultKinds \cup {"panic"}
    BY <1>0, <1>12 DEF PanicJob, Types
  <2> QED BY <1>0, <1>12, <2>1, <2>2, KillTypes DEF PanicJob, Types
<1>13. ASSUME NEW p \in Procs, Shutdown(p) PROVE TypeOK'
  <2>1. faults' \in Nat /\ struck' \subseteq FaultKinds \cup {"panic"}
    BY <1>0, <1>13, FaultTypes DEF Shutdown
  <2> QED BY <1>0, <1>13, <2>1 DEF Shutdown, Types, Placed, queue, redis, handling
<1>14. ASSUME NEW p \in Procs, Restart(p) PROVE TypeOK'
  BY <1>0, <1>14 DEF Restart, Types, Placed, queue, redis, handling, mishaps
<1>15. CASE UNCHANGED vars
  BY <1>0, <1>15 DEF vars, Types, Placed, queue, redis, handling, mishaps
<1> QED
  BY <1>1, <1>2, <1>3, <1>4, <1>5, <1>6, <1>7, <1>8, <1>9, <1>10, <1>11, <1>12, <1>13, <1>14, <1>15
  DEF Next, Sqs, Deliver, Handle, Process, Crash, Exit

\* Every variable keeps its type; a handler that is busy has a job and runs in a process
\* that is not down: handlers die with their process and nothing else forgets them.
THEOREM TypeCorrect == SafeSpec => []TypeOK
BY TypeInit, TypeStep, PTL DEF SafeSpec

----------------------------------------------------------------------------
(* Who changes what.                                                       *)

LEMMA Parts == TypeOK => Types /\ \A h \in Handlers : Placed(h)
BY TypeParts

\* What has gone wrong is remembered.
LEMMA StruckGrows == [Next]_vars => struck \subseteq struck'
<1> SUFFICES ASSUME [Next]_vars PROVE struck \subseteq struck' OBVIOUS
<1>1. ASSUME NEW k, Fault(k) \/ NoFault \/ UNCHANGED mishaps PROVE struck \subseteq struck'
  BY <1>1 DEF Fault, NoFault, mishaps
<1>2. ASSUME NEW j \in Jobs, Sqs(j) \/ ExpireKey(j) PROVE struck \subseteq struck'
  BY <1>1, <1>2 DEF Sqs, Submit, Deliver, Receive, LoseReceive, Reappear, ReappearLate, ExpireKey
<1>3. ASSUME NEW h \in Handlers, Handle(h) PROVE struck \subseteq struck'
  <2>1. CASE PanicJob(h) BY <2>1 DEF PanicJob
  <2>2. CASE DeleteMessage(h) BY <1>1, <2>2 DEF DeleteMessage
  <2>3. CASE MarkRunning(h) \/ PublishResult(h)
    BY <1>1, <2>3 DEF MarkRunning, PublishResult, WriteRedis
  <2>4. CASE SkipMalformed(h) \/ RefuseJob(h) \/ StartJob(h) \/ FinishJob(h)
    BY <1>1, <2>4 DEF SkipMalformed, RefuseJob, StartJob, FinishJob
  <2> QED BY <1>3, <2>1, <2>2, <2>3, <2>4 DEF Handle
<1>4. ASSUME NEW p \in Procs, Process(p) PROVE struck \subseteq struck'
  BY <1>1, <1>4 DEF Process, Crash, Shutdown, Exit, Restart
<1>5. CASE UNCHANGED vars BY <1>5 DEF vars, mishaps
<1> QED BY <1>2, <1>3, <1>4, <1>5 DEF Next

\* One handler goes from a busy stage to another, the rest is as it was.
Moves(h, from, to) ==
  /\ from # "free" /\ to # "free"
  /\ Goto(h, from, to)
  /\ UNCHANGED <<job, proc, life, msg, holder>>

\* The steps of a handler before its last one.
LEMMA HandlerMoves ==
  ASSUME NEW h \in Handlers
  PROVE  /\ SkipMalformed(h) => /\ Moves(h, "received", "deleting") /\ job[h] \in Malformed
                                /\ UNCHANGED <<key, told, out, faults, struck>>
         /\ MarkRunning(h) => /\ Moves(h, "received", "marked") /\ job[h] \notin Malformed
                              /\ WriteRedis(h, Running) /\ UNCHANGED out
         /\ RefuseJob(h) => /\ Moves(h, "marked", "writing")
                            /\ out' = [out EXCEPT ![h] = Failed("refused")]
                            /\ UNCHANGED <<key, told, faults, struck>>
         /\ StartJob(h) => /\ Moves(h, "marked", "executing")
                           /\ UNCHANGED <<key, told, out, faults, struck>>
         /\ FinishJob(h) => /\ Moves(h, "executing", "writing")
                            /\ \E o \in Outcomes(h) : out' = [out EXCEPT ![h] = o]
                            /\ UNCHANGED <<key, told, faults, struck>>
         /\ PublishResult(h) => /\ Moves(h, "writing", "deleting")
                                /\ WriteRedis(h, out[h]) /\ UNCHANGED out
<1>1. SkipMalformed(h) => /\ Moves(h, "received", "deleting") /\ job[h] \in Malformed
                          /\ UNCHANGED <<key, told, out, faults, struck>>
  BY DEF SkipMalformed, Moves, queue, redis, mishaps
<1>2. MarkRunning(h) => /\ Moves(h, "received", "marked") /\ job[h] \notin Malformed
                        /\ WriteRedis(h, Running) /\ UNCHANGED out
  BY DEF MarkRunning, Moves, queue
<1>3. RefuseJob(h) => /\ Moves(h, "marked", "writing")
                      /\ out' = [out EXCEPT ![h] = Failed("refused")]
                      /\ UNCHANGED <<key, told, faults, struck>>
  BY DEF RefuseJob, Moves, queue, redis, mishaps
<1>4. StartJob(h) => /\ Moves(h, "marked", "executing")
                     /\ UNCHANGED <<key, told, out, faults, struck>>
  BY DEF StartJob, Moves, queue, redis, mishaps
<1>5. FinishJob(h) => /\ Moves(h, "executing", "writing")
                      /\ \E o \in Outcomes(h) : out' = [out EXCEPT ![h] = o]
                      /\ UNCHANGED <<key, told, faults, struck>>
  BY DEF FinishJob, Moves, queue, redis, mishaps
<1>6. PublishResult(h) => /\ Moves(h, "writing", "deleting")
                          /\ WriteRedis(h, out[h]) /\ UNCHANGED out
  BY DEF PublishResult, Moves, queue
<1> QED BY <1>1, <1>2, <1>3, <1>4, <1>5, <1>6

\* What the death of process p does to a handler, and to a process.
LEMMA KillFacts ==
  ASSUME TypeOK, NEW p \in Procs, Kill(p)
  PROVE  /\ \A h \in Handlers :
              IF proc[h] = p THEN pc'[h] = "free" /\ out'[h] = Blank
              ELSE /\ pc'[h] = pc[h] /\ job'[h] = job[h] /\ out'[h] = out[h]
                   /\ proc'[h] = proc[h]
                   /\ pc[h] # "free" => life'[proc[h]] = life[proc[h]]
         /\ \A j \in Jobs : \/ holder'[j] = holder[j]
                            \/ holder[j] \in Handlers /\ proc[holder[j]] = p /\ holder'[j] = Nobody
         /\ UNCHANGED <<msg, key, told>>
BY Parts DEF Types, Placed, Kill, redis

\* Every step, seen by the kind of change it makes to the handlers.
LEMMA NextCases ==
  ASSUME [Next]_vars
  PROVE  \/ UNCHANGED <<life, pc, job, proc, out>>
         \/ \E j \in Jobs, p \in Procs, h \in Handlers : Receive(p, h, j)
         \/ \E h \in Handlers : \/ SkipMalformed(h) \/ MarkRunning(h) \/ RefuseJob(h)
                                \/ StartJob(h) \/ FinishJob(h) \/ PublishResult(h)
         \/ \E h \in Handlers : DeleteMessage(h)
         \/ \E p \in Procs : Shutdown(p) \/ Restart(p)
         \/ \E p \in Procs : Crash(p) \/ Exit(p)
         \/ \E h \in Handlers : PanicJob(h)
<1>1. ASSUME NEW j \in Jobs, Submit(j) \/ LoseReceive(j) \/ Reappear(j) \/ ReappearLate(j)
      PROVE  UNCHANGED <<life, pc, job, proc, out>>
  BY <1>1 DEF Submit, LoseReceive, Reappear, ReappearLate, handling
<1>2. ASSUME NEW j \in Jobs, ExpireKey(j) PROVE UNCHANGED <<life, pc, job, proc, out>>
  BY <1>2 DEF ExpireKey, handling
<1>3. UNCHANGED vars => UNCHANGED <<life, pc, job, proc, out>> BY DEF vars, handling
<1> QED BY <1>1, <1>2, <1>3 DEF Next, Sqs, Deliver, Handle, Process

----------------------------------------------------------------------------
(* Verdicts.                                                               *)

LEMMA OutcomesPublishable ==
  ASSUME NEW h, NEW o \in Outcomes(h)
  PROVE  /\ o \in Publishable
         /\ o.result = "interrupted" \/ o.error = "interrupted" => Cancelled(h)
BY DEF Outcomes, Publishable, Verdict, Failed

LEMMA OutStep == TypeOK /\ OutEarned /\ [Next]_vars => OutEarned'
<1> SUFFICES ASSUME TypeOK, OutEarned, [Next]_vars PROVE OutEarned' OBVIOUS
<1>0. Types /\ \A h \in Handlers : Placed(h) BY Parts
<1>1. CASE UNCHANGED <<life, pc, job, proc, out>> BY <1>1 DEF OutEarned
<1>2. ASSUME NEW j \in Jobs, NEW p \in Procs, NEW h \in Handlers, Receive(p, h, j)
      PROVE  OutEarned'
  BY <1>0, <1>2 DEF Receive, Goto, OutEarned, Types, Placed
<1>3. ASSUME NEW h \in Handlers, NEW from, NEW to, Moves(h, from, to), to # "writing", UNCHANGED out
      PROVE  OutEarned'
  BY <1>0, <1>3 DEF Moves, Goto, OutEarned, Types
<1>4. ASSUME NEW h \in Handlers, NEW from, Moves(h, from, "writing"),
             NEW o \in Outcomes(h), out' = [out EXCEPT ![h] = o]
      PROVE  OutEarned'
  <2>1. /\ o \in Publishable
        /\ o.result = "interrupted" \/ o.error = "interrupted" => life[proc[h]] = "draining"
    BY <1>4, OutcomesPublishable DEF Cancelled
  <2> QED BY <1>0, <1>4, <2>1 DEF Moves, Goto, OutEarned, Types
<1>5. ASSUME NEW h \in Handlers, \/ SkipMalformed(h) \/ MarkRunning(h) \/ RefuseJob(h)
                                 \/ StartJob(h) \/ FinishJob(h) \/ PublishResult(h)
      PROVE  OutEarned'
  <2>1. Failed("refused") \in Outcomes(h) BY DEF Outcomes
  <2> QED BY <1>3, <1>4, <1>5, <2>1, HandlerMoves
<1>6. ASSUME NEW h \in Handlers, DeleteMessage(h) PROVE OutEarned'
  <2>1. Finish(h) /\ life' = life BY <1>6 DEF DeleteMessage
  <2> QED BY <1>0, <2>1 DEF Finish, OutEarned, Types, Blank
<1>7. ASSUME NEW p \in Procs, Kill(p) PROVE OutEarned'
  <2>1. Blank.result = "none" /\ Blank.error = "none" BY DEF Blank
  <2> QED BY <1>7, <2>1, KillFacts DEF OutEarned
<1>8. ASSUME NEW p \in Procs, Shutdown(p) \/ Restart(p) PROVE OutEarned'
  BY <1>0, <1>8 DEF Shutdown, Restart, handling, OutEarned, Types, Placed
<1>9. ASSUME NEW h \in Handlers, PanicJob(h) PROVE OutEarned'
  BY <1>0, <1>7, <1>9 DEF PanicJob, Placed
<1> QED BY <1>1, <1>2, <1>5, <1>6, <1>7, <1>8, <1>9, NextCases DEF Crash, Exit

\* Only the two writes of a handler and the TTL change the hash of a job.
LEMMA KeyCases ==
  ASSUME TypeOK, [Next]_vars
  PROVE  \/ UNCHANGED <<key, told>>
         \/ \E j \in Jobs : ExpireKey(j)
         \/ \E h \in Handlers : MarkRunning(h) \/ PublishResult(h)
<1>1. ASSUME NEW j \in Jobs, Sqs(j) PROVE UNCHANGED <<key, told>>
  BY <1>1 DEF Sqs, Submit, Deliver, Receive, LoseReceive, Reappear, ReappearLate, redis
<1>2. ASSUME NEW h \in Handlers, Handle(h), ~MarkRunning(h), ~PublishResult(h)
      PROVE  UNCHANGED <<key, told>>
  BY <1>2 DEF Handle, SkipMalformed, RefuseJob, StartJob, FinishJob, PanicJob, Kill,
              DeleteMessage, redis
<1>3. ASSUME NEW p \in Procs, Process(p) PROVE UNCHANGED <<key, told>>
  BY <1>3 DEF Process, Crash, Shutdown, Exit, Restart, Kill, redis
<1>4. UNCHANGED vars => UNCHANGED <<key, told>> BY DEF vars, redis
<1> QED BY <1>1, <1>2, <1>3, <1>4 DEF Next

\* A handler at work has a job, and what it publishes explains itself.
LEMMA Published ==
  ASSUME TypeOK, OutEarned, NEW h \in Handlers, pc[h] = "writing"
  PROVE  /\ out[h] \in Outs /\ out[h].status \in Terminal
         /\ out[h].status \in {"DONE", "TIMEOUT"} => out[h].result # "none"
         /\ out[h].status = "ERROR" => out[h].error # "none"
         /\ out[h].result = "interrupted" \/ out[h].error = "interrupted" => Cancelled(h)
<1>1. out[h] \in Publishable BY DEF OutEarned
<1>2. out[h].result = "interrupted" \/ out[h].error = "interrupted" => Cancelled(h)
  BY DEF OutEarned, Cancelled
<1> QED BY <1>1, <1>2 DEF Publishable, Verdict, Failed, Outs, Terminal, Results, Errors

\* What the writes and the TTL may do to one hash.
LEMMA KeyChange ==
  ASSUME TypeOK, OutEarned, [Next]_vars, NEW j \in Jobs
  PROVE  \/ key'[j] = key[j]
         \/ ExpireKey(j) /\ key'[j] = NoKey
         \/ \E h \in Handlers, t \in BOOLEAN, f \in Outs \cup {Running} :
              /\ (MarkRunning(h) /\ f = Running) \/ (PublishResult(h) /\ f = out[h])
              /\ job[h] = j /\ ~Cancelled(h)
              /\ key'[j] = Merge(key[j], f, t)
<1>0. Types /\ \A h \in Handlers : Placed(h) BY Parts
<1>1. ASSUME NEW i \in Jobs, ExpireKey(i)
      PROVE  key'[j] = key[j] \/ (ExpireKey(j) /\ key'[j] = NoKey)
  BY <1>0, <1>1 DEF ExpireKey, Types
<1>2. ASSUME NEW h \in Handlers, NEW f \in Outs \cup {Running}, job[h] \in Jobs, WriteRedis(h, f)
      PROVE  \/ key'[j] = key[j]
             \/ job[h] = j /\ ~Cancelled(h) /\ \E t \in BOOLEAN : key'[j] = Merge(key[j], f, t)
  <2>1. CASE Cancelled(h) BY <1>2, <2>1 DEF WriteRedis, redis
  <2>2. CASE ~Cancelled(h) BY <1>0, <1>2, <2>2, WriteFacts DEF Types
  <2> QED BY <2>1, <2>2
<1>3. ASSUME NEW h \in Handlers, MarkRunning(h)
      PROVE  \/ key'[j] = key[j]
             \/ job[h] = j /\ ~Cancelled(h) /\ \E t \in BOOLEAN : key'[j] = Merge(key[j], Running, t)
  <2>1. job[h] \in Jobs BY <1>0, <1>3 DEF MarkRunning, Goto, Placed
  <2> QED BY <1>2, <1>3, <2>1, HandlerMoves
<1>4. ASSUME NEW h \in Handlers, PublishResult(h)
      PROVE  \/ key'[j] = key[j]
             \/ job[h] = j /\ ~Cancelled(h) /\ \E t \in BOOLEAN : key'[j] = Merge(key[j], out[h], t)
  <2>1. job[h] \in Jobs /\ out[h] \in Outs
    BY <1>0, <1>4 DEF PublishResult, Goto, Placed, Types
  <2> QED BY <1>2, <1>4, <2>1, HandlerMoves
<1> QED BY <1>1, <1>3, <1>4, KeyCases, <1>0 DEF Types

LEMMA KeysStep == TypeOK /\ OutEarned /\ KeysExplained /\ [Next]_vars => KeysExplained'
<1> SUFFICES ASSUME TypeOK, OutEarned, KeysExplained, [Next]_vars, NEW j \in Jobs
             PROVE  /\ key'[j].result # "interrupted" /\ key'[j].error # "interrupted"
                    /\ key'[j].status \in {"DONE", "TIMEOUT"} => key'[j].result # "none"
                    /\ key'[j].status = "ERROR" => key'[j].error # "none"
  BY DEF KeysExplained, NoInterruptedVerdict, TerminalHasPayload
<1>1. /\ key[j] \in Keys
      /\ key[j].result # "interrupted" /\ key[j].error # "interrupted"
      /\ key[j].status \in {"DONE", "TIMEOUT"} => key[j].result # "none"
      /\ key[j].status = "ERROR" => key[j].error # "none"
  BY Parts DEF Types, KeysExplained, NoInterruptedVerdict, TerminalHasPayload
<1>2. ASSUME NEW f \in Outs \cup {Running}, NEW t \in BOOLEAN, key'[j] = Merge(key[j], f, t),
             f.result # "interrupted", f.error # "interrupted",
             f.status \in {"DONE", "TIMEOUT"} => f.result # "none",
             f.status = "ERROR" => f.error # "none"
      PROVE  /\ key'[j].result # "interrupted" /\ key'[j].error # "interrupted"
             /\ key'[j].status \in {"DONE", "TIMEOUT"} => key'[j].result # "none"
             /\ key'[j].status = "ERROR" => key'[j].error # "none"
  BY <1>1, <1>2, MergeFacts
<1>3. ASSUME NEW h \in Handlers, PublishResult(h)
      PROVE  pc[h] = "writing"
  BY <1>3 DEF PublishResult, Goto
<1>4. NoKey.result = "none" /\ NoKey.error = "none" /\ NoKey.status = "none" BY DEF NoKey
<1>5. /\ Running.result = "none" /\ Running.error = "none" /\ Running.status = "RUNNING"
  BY DEF Running
<1> QED BY <1>1, <1>2, <1>3, <1>4, <1>5, KeyChange, Published

----------------------------------------------------------------------------
(* Messages.                                                               *)

LEMMA ToldChange ==
  ASSUME TypeOK, OutEarned, [Next]_vars
  PROVE  \/ told' = told
         \/ \E h \in Handlers : PublishResult(h) /\ told' = told \cup {job[h]}
<1>0. Types /\ \A h \in Handlers : Placed(h) BY Parts
<1>1. ASSUME NEW h \in Handlers, MarkRunning(h) PROVE told' = told
  <2>1. Running.status \notin Terminal BY DEF Running, Terminal
  <2>2. job[h] \in Jobs BY <1>0, <1>1 DEF MarkRunning, Goto, Placed
  <2> QED BY <1>0, <1>1, <2>1, <2>2, WriteFacts, HandlerMoves
<1>2. ASSUME NEW h \in Handlers, PublishResult(h) PROVE told' = told \/ told' = told \cup {job[h]}
  <2>1. job[h] \in Jobs /\ out[h] \in Outs
    BY <1>0, <1>2 DEF PublishResult, Goto, Placed, Types
  <2> QED BY <1>0, <1>2, <2>1, WriteFacts, HandlerMoves
<1>3. ASSUME NEW j, ExpireKey(j) PROVE told' = told BY <1>3 DEF ExpireKey
<1> QED BY <1>1, <1>2, <1>3, KeyCases

\* How the message of a job may change.
LEMMA MsgChange ==
  ASSUME TypeOK, [Next]_vars, NEW j \in Jobs
  PROVE  \/ msg'[j] = msg[j]
         \/ msg[j] = "unsent" /\ Submit(j)
         \/ msg[j] = "visible" /\ msg'[j] = "hidden"
         \/ msg[j] = "hidden" /\ msg'[j] = "visible" /\ (Reappear(j) \/ ReappearLate(j))
         \/ /\ msg'[j] = "deleted"
            /\ \E h \in Handlers : DeleteMessage(h) /\ job[h] = j /\ ~Cancelled(h)
<1>0. Types /\ \A h \in Handlers : Placed(h) BY Parts
<1>1. ASSUME NEW i \in Jobs, Sqs(i)
      PROVE  \/ msg'[j] = msg[j]
             \/ msg[j] = "unsent" /\ Submit(j)
             \/ msg[j] = "visible" /\ msg'[j] = "hidden"
             \/ msg[j] = "hidden" /\ msg'[j] = "visible" /\ (Reappear(j) \/ ReappearLate(j))
  <2>1. CASE Submit(i) BY <1>0, <2>1 DEF Submit, Types
  <2>2. CASE Deliver(i) \/ LoseReceive(i) BY <1>0, <2>2 DEF Deliver, Receive, LoseReceive, Types
  <2>3. CASE Reappear(i) \/ ReappearLate(i) BY <1>0, <2>3 DEF Reappear, ReappearLate, Types
  <2> QED BY <1>1, <2>1, <2>2, <2>3 DEF Sqs
<1>2. ASSUME NEW h \in Handlers, DeleteMessage(h)
      PROVE  msg'[j] = msg[j] \/ (msg'[j] = "deleted" /\ job[h] = j /\ ~Cancelled(h))
  BY <1>0, <1>2 DEF DeleteMessage, Types
<1>3. ASSUME NEW h \in Handlers, Handle(h), ~DeleteMessage(h) PROVE msg' = msg
  BY <1>3 DEF Handle, SkipMalformed, MarkRunning, RefuseJob, StartJob, FinishJob, PublishResult,
              PanicJob, Kill, queue
<1>4. ASSUME NEW p \in Procs, Process(p) PROVE msg' = msg
  BY <1>4 DEF Process, Crash, Shutdown, Exit, Restart, Kill, queue
<1>5. ASSUME NEW i \in Jobs, ExpireKey(i) PROVE msg' = msg BY <1>5 DEF ExpireKey, queue
<1>6. UNCHANGED vars => msg' = msg BY DEF vars, queue
<1> QED BY <1>1, <1>2, <1>3, <1>4, <1>5, <1>6 DEF Next

\* A handler that is busy after a step has received its job in it, or was busy with it.
LEMMA BusyBefore ==
  ASSUME TypeOK, [Next]_vars, NEW h \in Handlers, pc'[h] # "free"
  PROVE  \/ \E j \in Jobs, p \in Procs : Receive(p, h, j) /\ job'[h] = j /\ proc'[h] = p
         \/ pc[h] # "free" /\ job'[h] = job[h] /\ proc'[h] = proc[h]
<1>0. Types /\ \A g \in Handlers : Placed(g) BY Parts
<1>1. CASE UNCHANGED <<life, pc, job, proc, out>> BY <1>1
<1>2. ASSUME NEW j \in Jobs, NEW p \in Procs, NEW g \in Handlers, Receive(p, g, j)
      PROVE  \/ g = h /\ job'[h] = j /\ proc'[h] = p
             \/ pc[h] # "free" /\ job'[h] = job[h] /\ proc'[h] = proc[h]
  BY <1>0, <1>2 DEF Receive, Goto, Types
<1>3. ASSUME NEW g \in Handlers, NEW from, NEW to, Moves(g, from, to)
      PROVE  pc[h] # "free" /\ job'[h] = job[h] /\ proc'[h] = proc[h]
  BY <1>0, <1>3 DEF Moves, Goto, Types
<1>4. ASSUME NEW g \in Handlers, DeleteMessage(g)
      PROVE  pc[h] # "free" /\ job'[h] = job[h] /\ proc'[h] = proc[h]
  BY <1>0, <1>4 DEF DeleteMessage, Finish, Types
<1>5. ASSUME NEW p \in Procs, Kill(p)
      PROVE  pc[h] # "free" /\ job'[h] = job[h] /\ proc'[h] = proc[h]
  BY <1>5, KillFacts
<1>6. ASSUME NEW g \in Handlers, PanicJob(g)
      PROVE  pc[h] # "free" /\ job'[h] = job[h] /\ proc'[h] = proc[h]
  BY <1>0, <1>5, <1>6 DEF PanicJob, Placed
<1>7. ASSUME NEW p \in Procs, Shutdown(p) \/ Restart(p)
      PROVE  pc[h] # "free" /\ job'[h] = job[h] /\ proc'[h] = proc[h]
  BY <1>7 DEF Shutdown, Restart, handling
<1>8. ASSUME NEW g \in Handlers, \/ SkipMalformed(g) \/ MarkRunning(g) \/ RefuseJob(g)
                                 \/ StartJob(g) \/ FinishJob(g) \/ PublishResult(g)
      PROVE  pc[h] # "free" /\ job'[h] = job[h] /\ proc'[h] = proc[h]
  BY <1>3, <1>8, HandlerMoves
<1> QED BY <1>1, <1>2, <1>4, <1>5, <1>6, <1>7, <1>8, NextCases DEF Crash, Exit

\* Past the first stage, a handler has looked at the body of its message.
LEMMA StageBefore ==
  ASSUME TypeOK, [Next]_vars, NEW h \in Handlers,
         pc'[h] \in {"marked", "executing", "writing"},
         pc[h] \notin {"marked", "executing", "writing"}
  PROVE  job[h] \notin Malformed
<1>0. Types /\ \A g \in Handlers : Placed(g) BY Parts
<1>1. CASE UNCHANGED <<life, pc, job, proc, out>> BY <1>1
<1>2. ASSUME NEW j \in Jobs, NEW p \in Procs, NEW g \in Handlers, Receive(p, g, j) PROVE FALSE
  BY <1>0, <1>2 DEF Receive, Goto, Types
<1>3. ASSUME NEW g \in Handlers, NEW from, NEW to, Moves(g, from, to)
      PROVE  g = h /\ pc[h] = from /\ pc'[h] = to
  BY <1>0, <1>3 DEF Moves, Goto, Types
<1>4. ASSUME NEW g \in Handlers, DeleteMessage(g) PROVE FALSE
  BY <1>0, <1>4 DEF DeleteMessage, Finish, Types
<1>5. ASSUME NEW p \in Procs, Kill(p) PROVE FALSE BY <1>5, KillFacts
<1>6. ASSUME NEW g \in Handlers, PanicJob(g) PROVE FALSE
  BY <1>0, <1>5, <1>6 DEF PanicJob, Placed
<1>7. ASSUME NEW p \in Procs, Shutdown(p) \/ Restart(p) PROVE FALSE
  BY <1>7 DEF Shutdown, Restart, handling
<1>8. ASSUME NEW g \in Handlers, \/ SkipMalformed(g) \/ MarkRunning(g) \/ RefuseJob(g)
                                 \/ StartJob(g) \/ FinishJob(g) \/ PublishResult(g)
      PROVE  job[h] \notin Malformed
  BY <1>3, <1>8, HandlerMoves
<1> QED BY <1>1, <1>2, <1>4, <1>5, <1>6, <1>7, <1>8, NextCases DEF Crash, Exit

LEMMA SentStep == TypeOK /\ OutEarned /\ WorkSent /\ [Next]_vars => WorkSent'
<1> SUFFICES ASSUME TypeOK, OutEarned, WorkSent, [Next]_vars PROVE WorkSent' OBVIOUS
<1>0. Types /\ \A g \in Handlers : Placed(g) BY Parts
<1>1. ASSUME NEW j \in Jobs, msg[j] # "unsent" PROVE msg'[j] # "unsent"
  BY <1>1, MsgChange
<1>2. ASSUME NEW h \in Handlers, pc'[h] # "free"
      PROVE  /\ msg'[job'[h]] # "unsent"
             /\ pc'[h] \in {"marked", "executing", "writing"} => job'[h] \notin Malformed
  <2>1. ASSUME NEW j \in Jobs, NEW p \in Procs, Receive(p, h, j), job'[h] = j
        PROVE  msg'[job'[h]] # "unsent" /\ pc'[h] = "received"
    BY <1>0, <2>1 DEF Receive, Goto, Types
  <2>2. CASE pc[h] # "free" /\ job'[h] = job[h]
    BY <1>0, <1>1, <1>2, <2>2, StageBefore DEF WorkSent, Placed
  <2> QED BY <1>2, <2>1, <2>2, BusyBefore
<1>3. ASSUME NEW j \in told' PROVE msg'[j] # "unsent" /\ j \notin Malformed
  <2>1. CASE j \in told BY <1>0, <1>1, <2>1 DEF WorkSent, Types
  <2>2. ASSUME NEW h \in Handlers, PublishResult(h), j = job[h]
        PROVE  msg'[j] # "unsent" /\ j \notin Malformed
    BY <1>0, <1>1, <2>2 DEF PublishResult, Goto, WorkSent, Placed
  <2> QED BY <1>3, <2>1, <2>2, ToldChange
<1> QED BY <1>2, <1>3 DEF WorkSent

----------------------------------------------------------------------------
(* One handler for each message.                                           *)

LEMMA ExclusiveStep == TypeOK /\ Exclusive /\ [Next]_vars => Exclusive'
<1> SUFFICES ASSUME TypeOK, Exclusive, [Next]_vars, "late" \notin struck',
                    NEW h \in Handlers, pc'[h] # "free"
             PROVE  holder'[job'[h]] = h /\ msg'[job'[h]] = "hidden"
  BY DEF Exclusive
<1>0. Types /\ \A g \in Handlers : Placed(g) BY Parts
<1>1. "late" \notin struck BY StruckGrows
<1>2. ASSUME NEW j \in Jobs, NEW p \in Procs, Receive(p, h, j)
      PROVE  holder'[job'[h]] = h /\ msg'[job'[h]] = "hidden"
  BY <1>0, <1>2 DEF Receive, Types
<1>3. ASSUME pc[h] # "free", job'[h] = job[h]
      PROVE  holder'[job'[h]] = h /\ msg'[job'[h]] = "hidden"
  <2> DEFINE j == job[h]
  <2>1. j \in Jobs /\ proc[h] \in Procs /\ holder[j] = h /\ msg[j] = "hidden"
    BY <1>0, <1>1, <1>3 DEF Exclusive, Placed
  <2>2. msg'[j] = "hidden"
    <3>1. ~Reappear(j) BY <2>1, NobodyApart DEF Reappear
    <3>2. ~ReappearLate(j) BY <1>0 DEF ReappearLate, Fault, Types
    <3>3. ASSUME NEW g \in Handlers, DeleteMessage(g), job[g] = j PROVE FALSE
      <4>1. pc[g] # "free" BY <3>3 DEF DeleteMessage
      <4>2. g = h BY <1>1, <2>1, <3>3, <4>1 DEF Exclusive
      <4> QED BY <1>0, <3>3, <4>2 DEF DeleteMessage, Finish, Types
    <3> QED BY <2>1, <3>1, <3>2, <3>3, MsgChange
  <2>3. holder'[j] = h
    <3>1. ASSUME NEW i \in Jobs, Sqs(i) PROVE holder'[j] = h
      BY <1>0, <2>1, <3>1 DEF Sqs, Submit, Deliver, Receive, LoseReceive, Reappear, ReappearLate, Types
    <3>2. ASSUME NEW p \in Procs, Kill(p) PROVE holder'[j] = h
      BY <2>1, <3>2, KillFacts
    <3>3. ASSUME NEW g \in Handlers, DeleteMessage(g) PROVE holder'[j] = h
      BY <1>0, <2>1, <3>3 DEF DeleteMessage, Finish, Types
    <3>4. ASSUME NEW g \in Handlers, PanicJob(g) PROVE holder'[j] = h
      BY <1>0, <3>2, <3>4 DEF PanicJob, Placed
    <3>5. ASSUME NEW g \in Handlers, \/ SkipMalformed(g) \/ MarkRunning(g) \/ RefuseJob(g)
                                     \/ StartJob(g) \/ FinishJob(g) \/ PublishResult(g)
          PROVE  holder'[j] = h
      BY <2>1, <3>5, HandlerMoves DEF Moves
    <3>6. ASSUME NEW p \in Procs, Shutdown(p) \/ Restart(p) PROVE holder'[j] = h
      BY <2>1, <3>6 DEF Shutdown, Restart, queue
    <3>7. ASSUME NEW i \in Jobs, ExpireKey(i) PROVE holder'[j] = h
      BY <2>1, <3>7 DEF ExpireKey, queue
    <3>8. CASE UNCHANGED vars BY <2>1, <3>8 DEF vars, queue
    <3> QED BY <3>1, <3>2, <3>3, <3>4, <3>5, <3>6, <3>7, <3>8 DEF Next, Handle, Process, Crash, Exit
  <2> QED BY <1>3, <2>2, <2>3
<1> QED BY <1>2, <1>3, BusyBefore

----------------------------------------------------------------------------
(* Answers.                                                                *)

\* How a handler comes to its last stage, and how it leaves it.
LEMMA DeletingCases ==
  ASSUME TypeOK, [Next]_vars, NEW h \in Handlers
  PROVE  /\ pc'[h] = "deleting" =>
              \/ pc[h] = "deleting" /\ job'[h] = job[h] /\ proc'[h] = proc[h]
              \/ (SkipMalformed(h) \/ PublishResult(h)) /\ job'[h] = job[h] /\ proc'[h] = proc[h]
         /\ pc[h] = "deleting" =>
              \/ pc'[h] = "deleting" /\ job'[h] = job[h]
              \/ DeleteMessage(h)
              \/ \E p \in Procs : Crash(p) \/ Exit(p)
              \/ \E g \in Handlers : PanicJob(g)
<1>0. Types /\ \A g \in Handlers : Placed(g) BY Parts
<1> DEFINE Same == pc'[h] = pc[h] /\ job'[h] = job[h] /\ proc'[h] = proc[h]
           Other == pc'[h] # "deleting" /\ pc[h] # "deleting"
<1>1. CASE UNCHANGED <<life, pc, job, proc, out>> BY <1>1
<1>2. ASSUME NEW j \in Jobs, NEW p \in Procs, NEW g \in Handlers, Receive(p, g, j)
      PROVE  Same \/ Other
  BY <1>0, <1>2 DEF Receive, Goto, Types
<1>3. ASSUME NEW g \in Handlers, NEW from, NEW to, Moves(g, from, to)
      PROVE  \/ Same
             \/ g = h /\ pc[h] = from /\ pc'[h] = to /\ job'[h] = job[h] /\ proc'[h] = proc[h]
  BY <1>0, <1>3 DEF Moves, Goto, Types
<1>4. ASSUME NEW g \in Handlers, DeleteMessage(g)
      PROVE  Same \/ (g = h /\ pc'[h] = "free")
  BY <1>0, <1>4 DEF DeleteMessage, Finish, Types
<1>5. ASSUME NEW p \in Procs, Kill(p) PROVE Same \/ pc'[h] = "free" BY <1>5, KillFacts
<1>6. ASSUME NEW g \in Handlers, PanicJob(g) PROVE Same \/ pc'[h] = "free"
  BY <1>0, <1>5, <1>6 DEF PanicJob, Placed
<1>7. ASSUME NEW p \in Procs, Shutdown(p) \/ Restart(p) PROVE Same
  BY <1>7 DEF Shutdown, Restart, handling
<1>8. ASSUME NEW g \in Handlers, \/ MarkRunning(g) \/ RefuseJob(g) \/ StartJob(g) \/ FinishJob(g)
      PROVE  Same \/ Other
  BY <1>3, <1>8, HandlerMoves
<1>9. ASSUME NEW g \in Handlers, SkipMalformed(g) \/ PublishResult(g)
      PROVE  \/ Same
             \/ g = h /\ pc[h] # "deleting" /\ job'[h] = job[h] /\ proc'[h] = proc[h]
  BY <1>3, <1>9, HandlerMoves
<1>10. ASSUME NEW p \in Procs, Crash(p) \/ Exit(p) PROVE Same \/ pc'[h] = "free"
  BY <1>5, <1>10 DEF Crash, Exit
<1> HIDE DEF Same, Other
<1>11. \/ Same \/ Other
       \/ \E p \in Procs : (Crash(p) \/ Exit(p)) /\ pc'[h] = "free"
       \/ \E g \in Handlers : PanicJob(g) /\ pc'[h] = "free"
       \/ (DeleteMessage(h) /\ pc'[h] = "free")
       \/ /\ SkipMalformed(h) \/ PublishResult(h)
          /\ pc[h] # "deleting" /\ job'[h] = job[h] /\ proc'[h] = proc[h]
  <2>1. UNCHANGED <<life, pc, job, proc, out>> => Same BY DEF Same
  <2> QED BY <2>1, <1>2, <1>4, <1>6, <1>7, <1>8, <1>9, <1>10, NextCases
<1> QED BY <1>11 DEF Same, Other

\* A process that is up after a step and had a handler before was up.
LEMMA UpBefore ==
  ASSUME TypeOK, [Next]_vars, NEW h \in Handlers, pc[h] # "free", life'[proc[h]] = "up"
  PROVE  life[proc[h]] = "up"
<1>0. Types /\ \A g \in Handlers : Placed(g) BY Parts
<1>1. proc[h] \in Procs /\ life[proc[h]] # "down" BY <1>0 DEF Placed
<1>2. CASE UNCHANGED life BY <1>2
<1>3. ASSUME NEW p \in Procs, Kill(p) PROVE life[proc[h]] = "up"
  BY <1>0, <1>1, <1>3 DEF Kill, Types
<1>4. ASSUME NEW p \in Procs, Shutdown(p) \/ Restart(p) PROVE life[proc[h]] = "up"
  BY <1>0, <1>1, <1>4 DEF Shutdown, Restart, Types
<1>5. ASSUME NEW g \in Handlers, PanicJob(g) PROVE life[proc[h]] = "up"
  BY <1>0, <1>3, <1>5 DEF PanicJob, Placed
<1>6. ASSUME NEW j \in Jobs, NEW p \in Procs, NEW g \in Handlers, Receive(p, g, j)
      PROVE  UNCHANGED life
  BY <1>6 DEF Receive
<1>7. ASSUME NEW g \in Handlers, \/ SkipMalformed(g) \/ MarkRunning(g) \/ RefuseJob(g)
                                 \/ StartJob(g) \/ FinishJob(g) \/ PublishResult(g)
      PROVE  UNCHANGED life
  BY <1>7, HandlerMoves DEF Moves
<1>8. ASSUME NEW g \in Handlers, DeleteMessage(g) PROVE UNCHANGED life BY <1>8 DEF DeleteMessage
<1> QED BY <1>2, <1>3, <1>4, <1>5, <1>6, <1>7, <1>8, NextCases DEF Crash, Exit

\* An answer that nobody is about to write over stays.
LEMMA SettledStays ==
  ASSUME TypeOK, OutEarned, [Next]_vars, NEW j \in Jobs, Settled(j),
         "late" \notin struck => \A h \in Handlers : pc[h] \in {"received", "writing"} => job[h] # j
  PROVE  Settled(j)'
<1>1. j \in told' BY ToldChange DEF Settled
<1>2. ASSUME struck' \cap {"late", "ttl"} = {} PROVE key'[j].status \in Terminal
  <2>1. struck \cap {"late", "ttl"} = {} BY <1>2, StruckGrows
  <2>2. ~ExpireKey(j) BY <1>2 DEF ExpireKey, Fault
  <2>3. \A h \in Handlers : job[h] = j => ~MarkRunning(h) /\ ~PublishResult(h)
    BY <2>1 DEF MarkRunning, PublishResult, Goto
  <2>4. key'[j] = key[j] BY <2>2, <2>3, KeyChange
  <2> QED BY <2>1, <2>4 DEF Settled
<1> QED BY <1>1, <1>2 DEF Settled

LEMMA DeletedStep ==
  TypeOK /\ OutEarned /\ Exclusive /\ DeletedTold /\ [Next]_vars => DeletedTold'
<1> SUFFICES ASSUME TypeOK, OutEarned, Exclusive, DeletedTold, [Next]_vars, "redis" \notin struck'
             PROVE  /\ \A h \in Handlers, j \in Jobs \ Malformed :
                         pc'[h] = "deleting" /\ life'[proc'[h]] = "up" /\ job'[h] = j
                           => Settled(j)'
                    /\ \A j \in Jobs \ Malformed : msg'[j] = "deleted" => Settled(j)'
  BY DEF DeletedTold
<1>0. Types /\ \A g \in Handlers : Placed(g) BY Parts
<1>1. "redis" \notin struck BY StruckGrows
<1>2. ASSUME NEW h \in Handlers, NEW j \in Jobs \ Malformed, job[h] = j,
             pc[h] = "deleting", life[proc[h]] = "up"
      PROVE  Settled(j)'
  <2>1. Settled(j) BY <1>1, <1>2 DEF DeletedTold
  <2>2. "late" \notin struck =>
          \A g \in Handlers : pc[g] \in {"received", "writing"} => job[g] # j
    BY <1>2 DEF Exclusive
  <2> QED BY <2>1, <2>2, SettledStays
<1>3. ASSUME NEW h \in Handlers, NEW j \in Jobs, job[h] = j, PublishResult(h), life[proc[h]] = "up"
      PROVE  Settled(j)'
  <2>1. pc[h] = "writing" /\ WriteRedis(h, out[h]) BY <1>3 DEF PublishResult, Goto
  <2>2. ~Cancelled(h) /\ ~Fault("redis") BY <1>3 DEF Cancelled, Fault
  <2>3. Apply(j, out[h], TRUE) BY <1>3, <2>1, <2>2 DEF WriteRedis
  <2>4. out[h] \in Outs /\ out[h].status \in Terminal BY <2>1, Published
  <2>5. key'[j] = Merge(key[j], out[h], TRUE) BY <1>0, <2>1, <2>3 DEF Apply, Types
  <2>6. key'[j].status = out[h].status BY <2>5 DEF Merge
  <2>7. j \in told' BY <2>3, <2>4 DEF Apply
  <2> QED BY <2>4, <2>6, <2>7 DEF Settled
<1>4. ASSUME NEW h \in Handlers, pc'[h] = "deleting", life'[proc'[h]] = "up",
             NEW j \in Jobs \ Malformed, job'[h] = j
      PROVE  Settled(j)'
  <2>1. CASE pc[h] = "deleting" /\ job'[h] = job[h] /\ proc'[h] = proc[h]
    BY <1>2, <1>4, <2>1, UpBefore
  <2>2. CASE SkipMalformed(h) /\ job'[h] = job[h]
    BY <1>4, <2>2 DEF SkipMalformed
  <2>3. CASE PublishResult(h) /\ job'[h] = job[h] /\ proc'[h] = proc[h]
    <3>1. pc[h] # "free" BY <2>3 DEF PublishResult, Goto
    <3> QED BY <1>3, <1>4, <2>3, <3>1, UpBefore
  <2> QED BY <1>4, <2>1, <2>2, <2>3, DeletingCases
<1>5. ASSUME NEW j \in Jobs \ Malformed, msg'[j] = "deleted" PROVE Settled(j)'
  <2>1. CASE msg[j] = "deleted"
    <3>1. Settled(j) BY <1>1, <2>1 DEF DeletedTold
    <3>2. "late" \notin struck =>
            \A g \in Handlers : pc[g] \in {"received", "writing"} => job[g] # j
      BY <2>1 DEF Exclusive
    <3> QED BY <3>1, <3>2, SettledStays
  <2>2. ASSUME NEW h \in Handlers, DeleteMessage(h), job[h] = j, ~Cancelled(h) PROVE Settled(j)'
    <3>1. pc[h] = "deleting" BY <2>2 DEF DeleteMessage
    <3>2. life[proc[h]] = "up" BY <1>0, <2>2, <3>1 DEF Cancelled, Placed, Types
    <3> QED BY <1>2, <1>5, <2>2, <3>1, <3>2
  <2>3. Submit(j) => msg'[j] = "visible" BY <1>0 DEF Submit, Types
  <2> QED BY <1>5, <2>1, <2>2, <2>3, MsgChange
<1> QED BY <1>4, <1>5

LEMMA AnsweredStep ==
  TypeOK /\ OutEarned /\ Exclusive /\ AnsweredOnce /\ [Next]_vars => AnsweredOnce'
<1> SUFFICES ASSUME TypeOK, OutEarned, Exclusive, AnsweredOnce, [Next]_vars,
                    struck' \subseteq {"redis"}
             PROVE  /\ \A p \in Procs : life'[p] = "up"
                    /\ \A j \in Jobs : key'[j].status \in Terminal =>
                         \/ msg'[j] = "deleted"
                         \/ \E h \in Handlers : pc'[h] = "deleting" /\ job'[h] = j
  BY DEF AnsweredOnce
<1>0. Types /\ \A g \in Handlers : Placed(g) BY Parts
<1>1. /\ struck \subseteq {"redis"} /\ "late" \notin struck
      /\ \A k : k # "redis" => ~Fault(k)
  BY StruckGrows DEF Fault
<1>2. \A p \in Procs : life[p] = "up" BY <1>1 DEF AnsweredOnce
<1>3. /\ \A p \in Procs : ~Crash(p) /\ ~Exit(p) /\ ~Shutdown(p) /\ ~Restart(p)
      /\ \A h \in Handlers : ~PanicJob(h)
  BY <1>1, <1>2 DEF Crash, Exit, Shutdown, Restart, PanicJob
<1>4. life' = life
  <2>1. ASSUME NEW h \in Handlers, DeleteMessage(h) PROVE life' = life BY <2>1 DEF DeleteMessage
  <2>2. ASSUME NEW h \in Handlers, \/ SkipMalformed(h) \/ MarkRunning(h) \/ RefuseJob(h)
                                   \/ StartJob(h) \/ FinishJob(h) \/ PublishResult(h)
        PROVE  life' = life
    BY <2>2, HandlerMoves DEF Moves
  <2>3. ASSUME NEW j \in Jobs, NEW p \in Procs, NEW h \in Handlers, Receive(p, h, j)
        PROVE  life' = life
    BY <2>3 DEF Receive
  <2> QED BY <1>3, <2>1, <2>2, <2>3, NextCases
<1>5. ASSUME NEW h \in Handlers, pc[h] = "deleting"
      PROVE  \/ pc'[h] = "deleting" /\ job'[h] = job[h]
             \/ msg'[job[h]] = "deleted"
  <2>1. /\ job[h] \in Jobs /\ proc[h] \in Procs /\ ~Cancelled(h) /\ holder[job[h]] = h
    BY <1>0, <1>1, <1>2, <1>5 DEF Placed, Cancelled, Exclusive
  <2>2. DeleteMessage(h) => msg'[job[h]] = "deleted"
    BY <1>0, <1>1, <2>1 DEF DeleteMessage, Types
  <2> QED BY <1>3, <1>5, <2>2, DeletingCases
<1>6. ASSUME NEW j \in Jobs, key'[j].status \in Terminal
      PROVE  \/ msg'[j] = "deleted"
             \/ \E h \in Handlers : pc'[h] = "deleting" /\ job'[h] = j
  <2>1. CASE key'[j] = key[j]
    <3>1. CASE msg[j] = "deleted"
      <4>1. ~Submit(j) BY <3>1 DEF Submit
      <4> QED BY <3>1, <4>1, MsgChange
    <3>2. ASSUME NEW h \in Handlers, pc[h] = "deleting", job[h] = j
          PROVE  msg'[j] = "deleted" \/ (pc'[h] = "deleting" /\ job'[h] = j)
      BY <1>5, <3>2
    <3> QED BY <1>1, <1>6, <2>1, <3>1, <3>2 DEF AnsweredOnce
  <2>2. ~ExpireKey(j) BY <1>1 DEF ExpireKey
  <2>3. ASSUME NEW h \in Handlers, NEW t \in BOOLEAN, key'[j] = Merge(key[j], Running, t)
        PROVE  FALSE
    BY <1>6, <2>3 DEF Merge, Running, Terminal
  <2>4. ASSUME NEW h \in Handlers, PublishResult(h), job[h] = j
        PROVE  pc'[h] = "deleting" /\ job'[h] = j
    BY <1>0, <2>4 DEF PublishResult, Goto, Types
  <2> QED BY <2>1, <2>2, <2>3, <2>4, KeyChange
<1> QED BY <1>2, <1>4, <1>6

----------------------------------------------------------------------------
(* The theorems.                                                           *)

LEMMA IInvInit == Init => IInv
<1> SUFFICES ASSUME Init PROVE IInv OBVIOUS
<1>1. OutEarned BY DEF Init, OutEarned, Blank
<1>2. KeysExplained BY DEF Init, KeysExplained, NoInterruptedVerdict, TerminalHasPayload, NoKey
<1>3. WorkSent /\ Exclusive BY DEF Init, WorkSent, Exclusive
<1>4. DeletedTold BY DEF Init, DeletedTold
<1>5. AnsweredOnce BY DEF Init, AnsweredOnce, NoKey, Terminal
<1> QED BY TypeInit, <1>1, <1>2, <1>3, <1>4, <1>5 DEF IInv

LEMMA IInvStep == IInv /\ [Next]_vars => IInv'
BY TypeStep, OutStep, KeysStep, SentStep, ExclusiveStep, DeletedStep, AnsweredStep DEF IInv

LEMMA IInvHolds == SafeSpec => []IInv
BY IInvInit, IInvStep, PTL DEF SafeSpec

\* What a shutdown cut short is never published by writeRedis: the context that killed
\* the sandbox also stops the write.
THEOREM VerdictsWhole == SafeSpec => []NoInterruptedVerdict
BY IInvHolds, PTL DEF IInv, KeysExplained

\* A terminal status in the hash of a job comes with the field that explains it, whatever
\* writeRedis calls failed, were half applied or repeated.
THEOREM PayloadSafe == SafeSpec => []TerminalHasPayload
BY IInvHolds, PTL DEF IInv, KeysExplained

\* Two goroutines of handleMessage meet on one job only when its message was visible
\* before the first was done.
THEOREM SingleSafe == SafeSpec => []SingleHandler
<1>1. IInv => SingleHandler
  <2> SUFFICES ASSUME IInv, "late" \notin struck, NEW h1 \in Handlers, NEW h2 \in Handlers,
                      h1 # h2, job[h1] # Nobody
               PROVE  job[h1] # job[h2]
    BY DEF SingleHandler
  <2>1. \A h \in Handlers : job[h] # Nobody => holder[job[h]] = h
    BY Parts DEF IInv, Exclusive, Placed
  <2> QED BY <2>1
<1> QED BY <1>1, IInvHolds, PTL

\* deleteMessage takes nothing away that has not been answered, unless Redis fails, a
\* second handler is at work or the TTL of the answer is over.
THEOREM DeletedSafe == SafeSpec => []DeletedIsSettled
<1>1. IInv => DeletedIsSettled
  BY DEF IInv, DeletedTold, Settled, DeletedIsSettled, AlwaysSurfaced, Shown, Terminal
<1> QED BY <1>1, IInvHolds, PTL

\* Failing writes of writeRedis alone never change an answer a client may have read.
THEOREM AnswerSafe == SafeSpec => AnswerStays
<1>1. IInv /\ [Next]_vars =>
        [struck' \subseteq {"redis"} =>
           \A j \in Jobs : Shown(j) \in Terminal => key'[j] = key[j]]_vars
  <2> SUFFICES ASSUME IInv, [Next]_vars, struck' \subseteq {"redis"},
                      NEW j \in Jobs, Shown(j) \in Terminal
               PROVE  key'[j] = key[j]
    OBVIOUS
  <2>1. TypeOK /\ OutEarned /\ Exclusive /\ AnsweredOnce BY DEF IInv
  <2>2. struck \subseteq {"redis"} /\ "late" \notin struck BY StruckGrows
  <2>3. key[j].status \in Terminal BY DEF Shown, Terminal
  <2>4. ~ExpireKey(j) BY DEF ExpireKey, Fault
  <2>5. ASSUME NEW h \in Handlers, MarkRunning(h) \/ PublishResult(h), job[h] = j PROVE FALSE
    <3>1. pc[h] \in {"received", "writing"} BY <2>5 DEF MarkRunning, PublishResult, Goto
    <3>2. holder[j] = h /\ msg[j] = "hidden" BY <2>1, <2>2, <2>5, <3>1 DEF Exclusive
    <3>3. PICK g \in Handlers : pc[g] = "deleting" /\ job[g] = j
      BY <2>1, <2>2, <2>3, <3>2 DEF AnsweredOnce
    <3>4. holder[j] = g BY <2>1, <2>2, <3>3 DEF Exclusive
    <3> QED BY <3>1, <3>2, <3>3, <3>4
  <2> QED BY <2>1, <2>4, <2>5, KeyChange
<1> QED BY <1>1, IInvHolds, PTL DEF SafeSpec, AnswerStays

----------------------------------------------------------------------------
(* The worker implements AtLeastOnce.                                      *)

LEMMA StageViewFacts ==
  ASSUME Types, NEW j \in Jobs
  PROVE  stageView[j] = IF msg[j] = "unsent" THEN "unsent"
                        ELSE IF msg[j] = "deleted" THEN "forgotten"
                        ELSE IF j \in told THEN "answered" ELSE "pending"
BY DEF stageView, Types

LEMMA StageViewPrimed ==
  ASSUME Types', NEW j \in Jobs
  PROVE  stageView'[j] = IF msg'[j] = "unsent" THEN "unsent"
                         ELSE IF msg'[j] = "deleted" THEN "forgotten"
                         ELSE IF j \in told' THEN "answered" ELSE "pending"
BY DEF stageView, Types

\* A step moves the message of one job, or tells of one job, or does neither.
LEMMA OneAtATime ==
  ASSUME TypeOK, OutEarned, [Next]_vars
  PROVE  \/ UNCHANGED <<msg, told>>
         \/ \E h \in Handlers : PublishResult(h) /\ told' = told \cup {job[h]} /\ msg' = msg
         \/ /\ told' = told
            /\ \E j \in Jobs : \A i \in Jobs \ {j} : msg'[i] = msg[i]
<1>0. Types /\ \A g \in Handlers : Placed(g) BY Parts
<1>1. ASSUME NEW j \in Jobs, Sqs(j)
      PROVE  told' = told /\ \A i \in Jobs \ {j} : msg'[i] = msg[i]
  <2>1. CASE Submit(j) BY <1>0, <2>1 DEF Submit, redis, Types
  <2>2. CASE Deliver(j) \/ LoseReceive(j)
    BY <1>0, <2>2 DEF Deliver, Receive, LoseReceive, redis, Types
  <2>3. CASE Reappear(j) \/ ReappearLate(j)
    BY <1>0, <2>3 DEF Reappear, ReappearLate, redis, Types
  <2> QED BY <1>1, <2>1, <2>2, <2>3 DEF Sqs
<1>2. ASSUME NEW h \in Handlers, DeleteMessage(h)
      PROVE  job[h] \in Jobs /\ told' = told /\ \A i \in Jobs \ {job[h]} : msg'[i] = msg[i]
  BY <1>0, <1>2 DEF DeleteMessage, redis, Types, Placed
<1>3. ASSUME NEW h \in Handlers, PublishResult(h) PROVE msg' = msg
  BY <1>3 DEF PublishResult, queue
<1>4. ASSUME NEW h \in Handlers, MarkRunning(h) \/ SkipMalformed(h) \/ RefuseJob(h)
                                 \/ StartJob(h) \/ FinishJob(h)
      PROVE  msg' = msg
  BY <1>4, HandlerMoves DEF Moves
<1>5. ASSUME NEW h \in Handlers, PanicJob(h) PROVE msg' = msg BY <1>5 DEF PanicJob, Kill
<1>6. ASSUME NEW p \in Procs, Process(p) PROVE msg' = msg
  BY <1>6 DEF Process, Crash, Shutdown, Exit, Restart, Kill, queue
<1>7. ASSUME NEW j \in Jobs, ExpireKey(j) PROVE msg' = msg BY <1>7 DEF ExpireKey, queue
<1>8. UNCHANGED vars => msg' = msg BY DEF vars, queue
<1>9. \/ msg' = msg
      \/ \E j \in Jobs : Sqs(j)
      \/ \E h \in Handlers : DeleteMessage(h)
  BY <1>3, <1>4, <1>5, <1>6, <1>7, <1>8 DEF Next, Handle
<1>10. CASE msg' = msg BY <1>10, ToldChange
<1> QED BY <1>1, <1>2, <1>9, <1>10

LEMMA PromiseStep ==
  ASSUME "redis" \notin FaultKinds, IInv, [Next]_vars
  PROVE  [Promise!Next]_stageView
<1>0. /\ TypeOK /\ OutEarned /\ WorkSent /\ DeletedTold /\ TypeOK' /\ WorkSent'
      /\ Types /\ Types' /\ (\A g \in Handlers : Placed(g)) /\ "redis" \notin struck
  <2>1. IInv /\ IInv' BY IInvStep
  <2>2. Types /\ \A g \in Handlers : Placed(g) BY <2>1, Parts DEF IInv
  <2>3. Types' BY <2>1 DEF IInv, TypeOK, Types, Outs, Keys
  <2> QED BY <2>1, <2>2, <2>3 DEF IInv, Types
<1>1. ASSUME NEW j \in Jobs, \A i \in Jobs \ {j} : stageView'[i] = stageView[i]
      PROVE  \A to : stageView'[j] = to => stageView' = [stageView EXCEPT ![j] = to]
  BY <1>1 DEF stageView
<1>2. \A j \in Jobs : msg'[j] = msg[j] /\ (j \in told' <=> j \in told)
                        => stageView'[j] = stageView[j]
  BY <1>0 DEF stageView
<1>3. ASSUME NEW j \in Jobs, NEW from, NEW to, stageView[j] = from, stageView'[j] = to,
             \A i \in Jobs \ {j} : stageView'[i] = stageView[i],
             \/ from = "unsent" /\ to = "pending"
             \/ from = "pending" /\ to = "answered" /\ j \notin Malformed
             \/ from = "pending" /\ to = "forgotten" /\ j \in Malformed
             \/ from = "answered" /\ to = "forgotten"
      PROVE  Promise!Next
  <2>1. Promise!Advance(j, from, to) BY <1>1, <1>3 DEF Promise!Advance
  <2> QED BY <1>3, <2>1 DEF Promise!Next, Promise!Send, Promise!Answer, Promise!Discard, Promise!Forget
<1>4. ASSUME NEW j \in Jobs, \A i \in Jobs \ {j} : stageView'[i] = stageView[i],
             stageView'[j] = stageView[j]
      PROVE  stageView' = stageView
  BY <1>4 DEF stageView
<1>5. CASE UNCHANGED <<msg, told>> BY <1>5 DEF stageView
<1>6. ASSUME NEW h \in Handlers, PublishResult(h), told' = told \cup {job[h]}, msg' = msg
      PROVE  [Promise!Next]_stageView
  <2> DEFINE j == job[h]
  <2>1. j \in Jobs /\ msg[j] # "unsent" /\ j \notin Malformed
    BY <1>0, <1>6 DEF PublishResult, Goto, WorkSent, Placed
  <2>2. \A i \in Jobs \ {j} : stageView'[i] = stageView[i] BY <1>2, <1>6
  <2>3. j \in told' /\ msg'[j] = msg[j] BY <1>6
  <2>4. \/ stageView'[j] = stageView[j]
        \/ stageView[j] = "pending" /\ stageView'[j] = "answered"
    BY <1>0, <2>1, <2>3, StageViewFacts, StageViewPrimed
  <2> HIDE DEF j
  <2> QED BY <1>3, <1>4, <2>1, <2>2, <2>4
<1>7. ASSUME told' = told, NEW j \in Jobs, \A i \in Jobs \ {j} : msg'[i] = msg[i]
      PROVE  [Promise!Next]_stageView
  <2>1. \A i \in Jobs \ {j} : stageView'[i] = stageView[i] BY <1>2, <1>7
  <2>2. CASE msg'[j] = msg[j] BY <1>2, <1>4, <1>7, <2>1, <2>2
  <2>3. CASE msg[j] = "unsent" /\ Submit(j)
    <3>1. msg'[j] = "visible" BY <1>0, <2>3 DEF Submit, Types
    <3>2. j \notin told BY <1>0, <2>3 DEF WorkSent
    <3>3. stageView[j] = "unsent" /\ stageView'[j] = "pending"
      BY <1>0, <1>7, <2>3, <3>1, <3>2, StageViewFacts, StageViewPrimed
    <3> QED BY <1>3, <2>1, <3>3
  <2>4. CASE msg[j] \in {"visible", "hidden"} /\ msg'[j] \in {"visible", "hidden"}
    <3>1. stageView'[j] = stageView[j]
      BY <1>0, <1>7, <2>4, StageViewFacts, StageViewPrimed
    <3> QED BY <1>4, <2>1, <3>1
  <2>5. ASSUME NEW h \in Handlers, DeleteMessage(h), job[h] = j, ~Cancelled(h), msg'[j] = "deleted"
        PROVE  [Promise!Next]_stageView
    <3>1. pc[h] = "deleting" /\ msg[j] # "unsent"
      BY <1>0, <2>5 DEF DeleteMessage, WorkSent
    <3>2. life[proc[h]] = "up" BY <1>0, <2>5, <3>1 DEF Cancelled, Placed, Types
    <3>3. IF j \in Malformed THEN j \notin told ELSE j \in told
      BY <1>0, <2>5, <3>1, <3>2 DEF WorkSent, DeletedTold, Settled
    <3>4. stageView'[j] = "forgotten" BY <1>0, <2>5, StageViewPrimed
    <3>5. stageView[j] = IF msg[j] = "deleted" THEN "forgotten"
                         ELSE IF j \in Malformed THEN "pending" ELSE "answered"
      BY <1>0, <3>1, <3>3, StageViewFacts
    <3>6. CASE msg[j] = "deleted" BY <1>4, <2>1, <3>4, <3>5, <3>6
    <3>7. CASE msg[j] # "deleted" BY <1>3, <2>1, <3>4, <3>5, <3>7
    <3> QED BY <3>6, <3>7
  <2> QED BY <1>0, <2>2, <2>3, <2>4, <2>5, MsgChange
<1> QED BY <1>0, <1>5, <1>6, <1>7, OneAtATime

\* The worker keeps a job until it has been answered and forgets it only then, across
\* crashes, shutdowns, lost SQS calls, duplicate deliveries and expired keys, if Redis
\* accepts the writes of live processes (the safety half of AtLeastOnce).
THEOREM Refinement ==
  ASSUME "redis" \notin FaultKinds
  PROVE  SafeSpec => Promise!SafeSpec
<1>1. Init => Promise!Init BY DEF Init, Promise!Init, stageView
<1>2. IInv /\ [Next]_vars => [Promise!Next]_stageView BY PromiseStep
<1> QED BY <1>1, <1>2, IInvHolds, PTL DEF SafeSpec, Promise!SafeSpec
=============================================================================
