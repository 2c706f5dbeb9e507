------------------------------ MODULE Executor -------------------------------
(***************************************************************************)
(* internal/executor: one goboxd process, with any number of goroutines    *)
(* inside Executor.Run (HTTP handlers and SQS message handlers alike) and  *)
(* one goroutine serving GET /metrics.                                     *)
(*                                                                         *)
(* A step is what Go makes atomic: one channel operation, one atomic add   *)
(* or load, one critical section of Stats.mu, one file-system phase.  Run  *)
(* unwinds through its defers in LIFO order: RemoveAll(jobDir), Observe,   *)
(* DecInFlight, release of the slot; the stages below spell that order     *)
(* out.  What the sandbox answers is left open here (Judge.tla models it), *)
(* and so is, for the callers in Holding, whether it ever does.            *)
(***************************************************************************)
EXTENDS Integers, FiniteSets

CONSTANTS
  Callers,          \* goroutines that call Run, each one call at a time
  Holding,          \* those whose jailed programs may keep their output open for ever
  MaxConcurrency,   \* Cfg.MaxConcurrency
  QueueDepth,       \* Cfg.QueueDepth
  RingCap,          \* ringCap, the number of latency samples kept
  MaxCalls          \* bound on the calls of a behaviour (both counters grow)

Capacity == MaxConcurrency + QueueDepth

\* envIntOr accepts any integer, but make(chan, n) panics for a negative n: the
\* sum is all New needs.
ASSUME ExecutorAssumption ==
  /\ IsFiniteSet(Callers) /\ Holding \subseteq Callers
  /\ MaxConcurrency \in Int
  /\ QueueDepth \in Int
  /\ MaxConcurrency + QueueDepth \in Nat
  /\ RingCap \in Nat \ {0}
  /\ MaxCalls \in Nat

VARIABLES
  pc,        \* pc[c]: how far caller c is inside Run
  sem,       \* number of tokens in the channel Executor.sem
  total, rejected, inFlight,   \* the three atomics of Stats
  ringIdx, ringSz,             \* the ring of Stats (its durations are left out)
  dirs,      \* callers whose job directory exists
  scraper,   \* how far the /metrics handler is inside Snapshot
  snap       \* the StatsSnapshot it is filling in

stats == <<total, rejected, inFlight, ringIdx, ringSz>>
vars  == <<pc, sem, stats, dirs, scraper, snap>>

Outside  == {"idle", "refused"}
HasDir   == {"workspace", "ready", "built", "cleanup"}
Counted  == {"inflight", "validated"} \cup HasDir \cup {"observe", "gauge"}
Stages   == Outside \cup {"admitted", "counted", "release"} \cup Counted

Among(S) == {c \in Callers : pc[c] \in S}
Holders  == Among(Stages \ Outside)    \* hold a token of sem
InGauge  == Among(Counted)             \* counted by inFlight

Goto(c, from, to) ==
  /\ pc[c] = from
  /\ pc' = [pc EXCEPT ![c] = to]

Init ==
  /\ pc = [c \in Callers |-> "idle"]
  /\ sem = 0
  /\ total = 0 /\ rejected = 0 /\ inFlight = 0
  /\ ringIdx = 0 /\ ringSz = 0
  /\ dirs = {}
  /\ scraper = "idle"
  /\ snap = [samples |-> 0, total |-> 0, inFlight |-> 0]

----------------------------------------------------------------------------
(* Entering Run: the select with a default, then the two counters.         *)

\* A bound, not a guard of the code: no more than MaxCalls calls start.
MayCall == total + rejected
             + Cardinality(Among({"admitted", "refused"})) < MaxCalls

Acquire(c) ==
  /\ MayCall
  /\ sem < Capacity
  /\ Goto(c, "idle", "admitted")
  /\ sem' = sem + 1
  /\ UNCHANGED <<stats, dirs, scraper, snap>>

Refuse(c) ==
  /\ MayCall
  /\ sem >= Capacity
  /\ Goto(c, "idle", "refused")
  /\ UNCHANGED <<sem, stats, dirs, scraper, snap>>

ObserveCall_NoWrap ==          \* mutant: the write position runs off the ring
  /\ ringIdx' = ringIdx + 1
  /\ ringSz' = IF ringSz < RingCap THEN ringSz + 1 ELSE ringSz

ObserveCall ==
  /\ ringIdx' = (ringIdx + 1) % RingCap
  /\ ringSz' = IF ringSz < RingCap THEN ringSz + 1 ELSE ringSz

IncRejected_Sampled(c) ==      \* mutant: a refused call is sampled as well
  /\ Goto(c, "refused", "idle")
  /\ rejected' = rejected + 1
  /\ ObserveCall
  /\ UNCHANGED <<sem, total, inFlight, dirs, scraper, snap>>

IncRejected(c) ==
  /\ Goto(c, "refused", "idle")
  /\ rejected' = rejected + 1
  /\ UNCHANGED <<sem, total, inFlight, ringIdx, ringSz, dirs, scraper, snap>>

\* IncInFlight is two atomic adds, total first.
IncTotal(c) ==
  /\ Goto(c, "admitted", "counted")
  /\ total' = total + 1
  /\ UNCHANGED <<sem, rejected, inFlight, ringIdx, ringSz, dirs, scraper, snap>>

IncGauge(c) ==
  /\ Goto(c, "counted", "inflight")
  /\ inFlight' = inFlight + 1
  /\ UNCHANGED <<sem, total, rejected, ringIdx, ringSz, dirs, scraper, snap>>

----------------------------------------------------------------------------
(* The body: validation, the job directory, build and tests.               *)

Validate_LeaksSlot(c) ==       \* mutant: a rejected request skips the defers
  /\ \/ Goto(c, "inflight", "validated")
     \/ Goto(c, "inflight", "idle")
  /\ UNCHANGED <<sem, stats, dirs, scraper, snap>>

\* Unknown language, source too large, too many tests, unsafe names, disallowed
\* flags, overrides too big: each returns before there is a directory.
Validate(c) ==
  /\ \/ Goto(c, "inflight", "validated")
     \/ Goto(c, "inflight", "observe")
  /\ UNCHANGED <<sem, stats, dirs, scraper, snap>>

MkdirAll(c) ==
  /\ \/ Goto(c, "validated", "workspace") /\ dirs' = dirs \cup {c}
     \/ Goto(c, "validated", "observe")   /\ dirs' = dirs
  /\ UNCHANGED <<sem, stats, scraper, snap>>

Populate_LeaksDir(c) ==        \* mutant: RemoveAll deferred after the chowns
  /\ \/ Goto(c, "workspace", "ready")
     \/ Goto(c, "workspace", "observe")
  /\ UNCHANGED <<sem, stats, dirs, scraper, snap>>

\* WriteFile and the two Chowns; any of them may fail, after the deferred
\* RemoveAll is in place.
Populate(c) ==
  /\ \/ Goto(c, "workspace", "ready")
     \/ Goto(c, "workspace", "cleanup")
  /\ UNCHANGED <<sem, stats, dirs, scraper, snap>>

\* No build phase or a successful one goes on; a failed build and an error of
\* the sandbox return.
RunBuild(c) ==
  /\ \/ Goto(c, "ready", "built")
     \/ Goto(c, "ready", "cleanup")
  /\ UNCHANGED <<sem, stats, dirs, scraper, snap>>

\* The loop over the test cases and the rollup: whatever the verdicts, Run
\* returns normally.
RunTests(c) ==
  /\ Goto(c, "built", "cleanup")
  /\ UNCHANGED <<sem, stats, dirs, scraper, snap>>

----------------------------------------------------------------------------
(* The defers, last registered first.                                      *)

\* The error of RemoveAll is dropped: a directory that could not be removed is
\* nobody's any more and leaves this model.
RemoveJobDir(c) ==
  /\ Goto(c, "cleanup", "observe")
  /\ dirs' = dirs \ {c}
  /\ UNCHANGED <<sem, stats, scraper, snap>>

Observe(c) ==
  /\ Goto(c, "observe", "gauge")
  /\ ObserveCall
  /\ UNCHANGED <<sem, total, rejected, inFlight, dirs, scraper, snap>>

DecInFlight_Skipped(c) ==      \* mutant: the gauge is never decremented
  /\ Goto(c, "gauge", "release")
  /\ UNCHANGED <<sem, stats, dirs, scraper, snap>>

DecInFlight(c) ==
  /\ Goto(c, "gauge", "release")
  /\ inFlight' = inFlight - 1
  /\ UNCHANGED <<sem, total, rejected, ringIdx, ringSz, dirs, scraper, snap>>

Release(c) ==
  /\ Goto(c, "release", "idle")
  /\ sem' = sem - 1
  /\ UNCHANGED <<stats, dirs, scraper, snap>>

----------------------------------------------------------------------------
(* Stats.Snapshot: the ring under the mutex, then one load per counter.    *)

ScrapeRing ==
  /\ scraper = "idle"
  /\ scraper' = "ring"
  /\ snap' = [samples |-> ringSz, total |-> 0, inFlight |-> 0]
  /\ UNCHANGED <<pc, sem, stats, dirs>>

ScrapeTotal ==
  /\ scraper = "ring"
  /\ scraper' = "total"
  /\ snap' = [snap EXCEPT !.total = total]
  /\ UNCHANGED <<pc, sem, stats, dirs>>

\* rejected is loaded in between; it is read by nobody else.
ScrapeInFlight ==
  /\ scraper = "total"
  /\ scraper' = "idle"
  /\ snap' = [snap EXCEPT !.inFlight = inFlight]
  /\ UNCHANGED <<pc, sem, stats, dirs>>

----------------------------------------------------------------------------
Arrive(c)    == Acquire(c) \/ Refuse(c)
Enter(c)     == IncRejected(c) \/ IncTotal(c) \/ IncGauge(c)
Prepare(c)   == Validate(c) \/ MkdirAll(c) \/ Populate(c)
Sandboxed(c) == RunBuild(c) \/ RunTests(c)
Unwind(c)    == RemoveJobDir(c) \/ Observe(c) \/ DecInFlight(c) \/ Release(c)
Proceed(c)   == Enter(c) \/ Prepare(c) \/ Sandboxed(c) \/ Unwind(c)
Scrape       == ScrapeRing \/ ScrapeTotal \/ ScrapeInFlight

Next ==
  \/ \E c \in Callers : Arrive(c) \/ Proceed(c)
  \/ Scrape

\* Nothing in Run blocks but sandbox.Run.  That one kills nsjail two seconds after
\* the wall time at the latest, but returns only when the output pipes are closed as
\* well: with a program that leaves them open it need not return.  Nobody has to call.
Fairness ==
  /\ \A c \in Callers : WF_vars(Enter(c) \/ Prepare(c) \/ Unwind(c))
  /\ \A c \in Callers \ Holding : WF_vars(Sandboxed(c))

SafeSpec == Init /\ [][Next]_vars
Spec     == SafeSpec /\ Fairness

----------------------------------------------------------------------------
(* Properties                                                              *)

\* Every variable has its type.
TypeOK ==
  /\ pc \in [Callers -> Stages]
  /\ sem \in Nat /\ total \in Nat /\ rejected \in Nat /\ inFlight \in Int
  /\ ringIdx \in 0..(RingCap - 1) /\ ringSz \in 0..RingCap
  /\ dirs \subseteq Callers
  /\ scraper \in {"idle", "ring", "total"}
  /\ snap \in [samples : 0..RingCap, total : Nat, inFlight : Int]

\* The tokens in the channel are exactly the calls between the select and the
\* last defer, on every return path of Run, and never more than its capacity: no
\* path leaks a slot or gives one back twice.
SlotsAccounted ==
  /\ sem = Cardinality(Holders)
  /\ sem <= Capacity

\* The in_flight gauge of /metrics never goes below zero or above the number of
\* occupied slots, at any instant: the defers give the gauge back before the slot.
GaugeWithinSlots == 0 <= inFlight /\ inFlight <= sem

\* What /metrics reports is consistent although it is read in three pieces while
\* calls go on: no more latency samples than calls counted in total (the ring is
\* copied first and IncInFlight precedes Observe), and an in_flight that respects
\* the capacity.
SnapshotConsistent ==
  /\ scraper = "total" => snap.samples <= snap.total
  /\ scraper = "idle" => /\ snap.samples <= snap.total
                         /\ snap.inFlight <= Capacity

\* A job directory exists only while its own call is between MkdirAll and
\* RemoveAll: every early return after MkdirAll removes it.
NoStrayWorkspace == dirs = Among(HasDir)

\* A saturated executor does not stay saturated: 429 is a passing condition
\* ("caller may retry").  It stays so only while programs that keep their output
\* open hold every single slot.
SaturationClears ==
  (sem = Capacity) ~>
    \/ sem < Capacity
    \/ Cardinality(Holding \cap Among({"ready", "built"})) = Capacity

\* The executor is the bounded room of Admission: a caller is turned away only
\* when Capacity calls are really inside, and every call whose output is not held
\* open gets out again.
Place(stage) == CASE stage = "idle" -> "away"
                  [] stage = "refused" -> "turned_away"
                  [] OTHER -> "inside"
visitorView == [c \in Callers |-> Place(pc[c])]

Room == INSTANCE Admission WITH
  Capacity <- Capacity, Lingering <- Holding, visitor <- visitorView

ImplementsAdmission == Room!Spec

\* The comment on the field sem: "sem caps concurrent executions at
\* MaxConcurrency".  A call is executing while it is building or running tests.
ExecutionsCapped == Cardinality(Among({"ready", "built"})) <= MaxConcurrency
==============================================================================
