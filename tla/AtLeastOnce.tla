----------------------------- MODULE AtLeastOnce -----------------------------
(***************************************************************************)
(* What the asynchronous pipeline promises about a submitted job, with no  *)
(* handlers, no processes and no visibility timeout: the job is kept until *)
(* a terminal status has been published for it, and is forgotten only      *)
(* then.  Jobs whose body cannot be parsed carry no identifier to publish  *)
(* under; they are forgotten unanswered.  Worker.tla is shown to implement *)
(* this specification while Redis accepts the writes of a live process.    *)
(***************************************************************************)
CONSTANTS
  Jobs,         \* the submitted jobs
  Unreadable    \* those whose message cannot be parsed

VARIABLE stage  \* stage[j]: how far job j is

Init == stage = [j \in Jobs |-> "unsent"]

Advance(j, from, to) ==
  /\ stage[j] = from
  /\ stage' = [stage EXCEPT ![j] = to]

Send(j)    == Advance(j, "unsent", "pending")
Answer(j)  == j \notin Unreadable /\ Advance(j, "pending", "answered")
Discard(j) == j \in Unreadable /\ Advance(j, "pending", "forgotten")
Forget(j)  == Advance(j, "answered", "forgotten")

Next == \E j \in Jobs : Send(j) \/ Answer(j) \/ Discard(j) \/ Forget(j)

\* The safety half, which the proofs use.
SafeSpec == Init /\ [][Next]_stage

\* A job that has been sent is answered, and then forgotten.
Spec == /\ SafeSpec
        /\ \A j \in Jobs : WF_stage(Answer(j) \/ Discard(j) \/ Forget(j))
==============================================================================
