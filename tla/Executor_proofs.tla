--------------------------- MODULE Executor_proofs ---------------------------
(***************************************************************************)
(* Theorems about Executor.tla, for every set of callers, every capacity   *)
(* and every ring: the type invariant, the safety invariants that the runs *)
(* check on small instances, and the implementation of Admission.tla.      *)
(*                                                                         *)
(* The counters sem and inFlight and the samples of the ring are tied to   *)
(* the callers by cardinalities; every action moves one caller from one    *)
(* stage to another, so all of it rests on what such a move does to the    *)
(* set of callers in a set of stages (lemma Moves).                        *)
(***************************************************************************)
EXTENDS Executor, FiniteSetTheorems, TLAPS

\* Calls counted in total whose duration is not in the ring yet.
Unsampled == Among({"counted", "inflight", "validated", "observe"} \cup HasDir)

GaugeExact   == inFlight = Cardinality(InGauge)
SamplesBound == ringSz + Cardinality(Unsampled) <= total
RingRead     == scraper = "ring" => snap.samples <= total

\* The inductive invariant.  SlotsAccounted and NoStrayWorkspace are inductive
\* given TypeOK; GaugeWithinSlots follows from the exact value of the gauge, and
\* SnapshotConsistent needs the bound that holds between two loads.
IInv ==
  /\ TypeOK
  /\ SlotsAccounted
  /\ GaugeExact
  /\ NoStrayWorkspace
  /\ SamplesBound
  /\ RingRead
  /\ SnapshotConsistent

----------------------------------------------------------------------------
\* Where the callers are is a finite set, whatever the stages.
LEMMA AmongFinite ==
  ASSUME NEW S
  PROVE  /\ IsFiniteSet(Among(S))
         /\ Cardinality(Among(S)) \in Nat
<1>1. IsFiniteSet(Among(S))
  BY ExecutorAssumption, FS_Subset DEF ExecutorAssumption, Among
<1> QED BY <1>1, FS_CardinalityType

\* What Goto does to the set of callers in the stages S, and to their number.
LEMMA Moves ==
  ASSUME NEW S, NEW c \in Callers, NEW from, NEW to,
         pc \in [Callers -> Stages], Goto(c, from, to)
  PROVE  /\ Cardinality(Among(S)') \in Nat
         /\ (from \in S <=> to \in S) => Among(S)' = Among(S)
         /\ from \notin S /\ to \in S =>
              /\ Among(S)' = Among(S) \cup {c}
              /\ Cardinality(Among(S)') = Cardinality(Among(S)) + 1
         /\ from \in S /\ to \notin S =>
              /\ Among(S)' = Among(S) \ {c}
              /\ Cardinality(Among(S)') = Cardinality(Among(S)) - 1
<1>1. (from \in S <=> to \in S) => Among(S)' = Among(S)
  BY DEF Goto, Among
<1>2. ASSUME from \notin S, to \in S
      PROVE  /\ Among(S)' = Among(S) \cup {c}
             /\ Cardinality(Among(S)') = Cardinality(Among(S)) + 1
  <2>1. Among(S)' = Among(S) \cup {c} /\ c \notin Among(S)
    BY <1>2 DEF Goto, Among
  <2> QED BY <2>1, AmongFinite, FS_AddElement
<1>3. ASSUME from \in S, to \notin S
      PROVE  /\ Among(S)' = Among(S) \ {c}
             /\ Cardinality(Among(S)') = Cardinality(Among(S)) - 1
  <2>1. Among(S)' = Among(S) \ {c} /\ c \in Among(S)
    BY <1>3 DEF Goto, Among
  <2> QED BY <2>1, AmongFinite, FS_RemoveElement
<1>4. Cardinality(Among(S)') \in Nat
  BY ExecutorAssumption, FS_Subset, FS_CardinalityType DEF ExecutorAssumption, Among
<1> QED BY <1>1, <1>2, <1>3, <1>4

\* The calls in the gauge are among those that hold a slot: the order of the
\* defers gives the gauge back first.
LEMMA GaugeWithinHolders == Cardinality(InGauge) <= Cardinality(Holders)
<1>1. InGauge \subseteq Holders
  BY DEF InGauge, Holders, Among, Counted, HasDir, Stages, Outside
<1> QED BY <1>1, AmongFinite, FS_Subset DEF Holders

----------------------------------------------------------------------------
\* The invariant holds before the first request.
LEMMA InitInv == Init => IInv
<1> SUFFICES ASSUME Init PROVE IInv
  OBVIOUS
<1>1. TypeOK
  BY ExecutorAssumption DEF Init, TypeOK, Stages, Outside, Counted, HasDir, ExecutorAssumption
<1>2. Holders = {} /\ InGauge = {} /\ Unsampled = {} /\ Among(HasDir) = {}
  BY DEF Init, Holders, InGauge, Unsampled, Among, Outside, Counted, HasDir
<1>3. Cardinality({}) = 0
  BY FS_EmptySet
<1>4. SlotsAccounted /\ GaugeExact /\ NoStrayWorkspace /\ SamplesBound
  BY <1>2, <1>3, ExecutorAssumption
  DEF Init, SlotsAccounted, GaugeExact, NoStrayWorkspace, SamplesBound, Capacity,
      ExecutorAssumption
<1>5. RingRead /\ SnapshotConsistent
  BY ExecutorAssumption DEF Init, RingRead, SnapshotConsistent, Capacity, ExecutorAssumption
<1> QED BY <1>1, <1>4, <1>5 DEF IInv

\* A move between two stages that hold the same things changes nothing but pc.
\* (IncRejected is one: nothing depends on rejected.)
LEMMA QuietMove ==
  ASSUME IInv, NEW c \in Callers, NEW from, NEW to \in Stages, Goto(c, from, to),
         from \in Stages \ Outside <=> to \in Stages \ Outside,
         from \in Counted <=> to \in Counted,
         from \in HasDir <=> to \in HasDir,
         from \in {"counted", "inflight", "validated", "observe"} \cup HasDir
           <=> to \in {"counted", "inflight", "validated", "observe"} \cup HasDir,
         rejected' \in Nat,
         UNCHANGED <<sem, total, inFlight, ringIdx, ringSz, dirs, scraper, snap>>
  PROVE  IInv'
<1>1. pc \in [Callers -> Stages] /\ pc' \in [Callers -> Stages]
  BY DEF IInv, TypeOK, Goto
<1>2. /\ Holders' = Holders /\ InGauge' = InGauge
      /\ Among(HasDir)' = Among(HasDir) /\ Unsampled' = Unsampled
  BY <1>1, Moves DEF Holders, InGauge, Unsampled
<1> QED
  BY <1>1, <1>2
  DEF IInv, TypeOK, SlotsAccounted, GaugeExact, NoStrayWorkspace, SamplesBound,
      RingRead, SnapshotConsistent

\* Entering Run.
LEMMA EnterInv ==
  ASSUME IInv, NEW c \in Callers, Arrive(c) \/ Enter(c)
  PROVE  IInv'
<1> USE DEF Stages, Outside, Counted, HasDir
<1>0. pc \in [Callers -> Stages] /\ rejected \in Nat
  BY DEF IInv, TypeOK
<1>1. CASE Acquire(c)
  <2>1. Goto(c, "idle", "admitted") /\ sem' = sem + 1 /\ sem < Capacity
    BY <1>1 DEF Acquire
  <2>2. pc' \in [Callers -> Stages]
    BY <1>0, <2>1 DEF Goto
  <2>3. /\ Cardinality(Holders') = Cardinality(Holders) + 1
        /\ InGauge' = InGauge /\ Among(HasDir)' = Among(HasDir) /\ Unsampled' = Unsampled
    BY <1>0, <2>1, Moves DEF Holders, InGauge, Unsampled
  <2> QED
    BY <1>1, <2>1, <2>2, <2>3, ExecutorAssumption
    DEF Acquire, IInv, TypeOK, SlotsAccounted, GaugeExact, NoStrayWorkspace, SamplesBound,
        RingRead, SnapshotConsistent, stats, Capacity, ExecutorAssumption
<1>2. CASE Refuse(c)
  BY <1>0, <1>2, QuietMove DEF Refuse, stats
<1>3. CASE IncRejected(c)
  BY <1>0, <1>3, QuietMove DEF IncRejected
<1>4. CASE IncTotal(c)
  <2>1. Goto(c, "admitted", "counted") /\ total' = total + 1
    BY <1>4 DEF IncTotal
  <2>2. pc' \in [Callers -> Stages]
    BY <1>0, <2>1 DEF Goto
  <2>3. /\ Cardinality(Unsampled') = Cardinality(Unsampled) + 1
        /\ Holders' = Holders /\ InGauge' = InGauge /\ Among(HasDir)' = Among(HasDir)
    BY <1>0, <2>1, Moves DEF Holders, InGauge, Unsampled
  <2>4. Cardinality(Unsampled) \in Nat
    BY AmongFinite DEF Unsampled
  <2> QED
    BY <1>4, <2>1, <2>2, <2>3, <2>4
    DEF IncTotal, IInv, TypeOK, SlotsAccounted, GaugeExact, NoStrayWorkspace, SamplesBound,
        RingRead, SnapshotConsistent
<1>5. CASE IncGauge(c)
  <2>1. Goto(c, "counted", "inflight") /\ inFlight' = inFlight + 1
    BY <1>5 DEF IncGauge
  <2>2. pc' \in [Callers -> Stages]
    BY <1>0, <2>1 DEF Goto
  <2>3. /\ Cardinality(InGauge') = Cardinality(InGauge) + 1
        /\ Holders' = Holders /\ Unsampled' = Unsampled /\ Among(HasDir)' = Among(HasDir)
    BY <1>0, <2>1, Moves DEF Holders, InGauge, Unsampled
  <2> QED
    BY <1>5, <2>1, <2>2, <2>3
    DEF IncGauge, IInv, TypeOK, SlotsAccounted, GaugeExact, NoStrayWorkspace, SamplesBound,
        RingRead, SnapshotConsistent
<1> QED BY <1>1, <1>2, <1>3, <1>4, <1>5 DEF Arrive, Enter

\* The body of Run: only MkdirAll changes anything but pc.
LEMMA BodyInv ==
  ASSUME IInv, NEW c \in Callers, Prepare(c) \/ Sandboxed(c)
  PROVE  IInv'
<1> USE DEF Stages, Outside, Counted, HasDir
<1>0. pc \in [Callers -> Stages] /\ rejected \in Nat
  BY DEF IInv, TypeOK
<1>1. CASE Validate(c)
  BY <1>0, <1>1, QuietMove DEF Validate, stats
<1>2. CASE MkdirAll(c)
  <2>1. CASE Goto(c, "validated", "observe") /\ dirs' = dirs
    BY <1>0, <1>2, <2>1, QuietMove DEF MkdirAll, stats
  <2>2. CASE Goto(c, "validated", "workspace") /\ dirs' = dirs \cup {c}
    <3>1. pc' \in [Callers -> Stages]
      BY <1>0, <2>2 DEF Goto
    <3>2. /\ Among(HasDir)' = Among(HasDir) \cup {c}
          /\ Holders' = Holders /\ InGauge' = InGauge /\ Unsampled' = Unsampled
      BY <1>0, <2>2, Moves DEF Holders, InGauge, Unsampled
    <3> QED
      BY <1>2, <2>2, <3>1, <3>2
      DEF MkdirAll, IInv, TypeOK, SlotsAccounted, GaugeExact, NoStrayWorkspace, SamplesBound,
          RingRead, SnapshotConsistent, stats
  <2> QED BY <1>2, <2>1, <2>2 DEF MkdirAll
<1>3. CASE Populate(c)
  BY <1>0, <1>3, QuietMove DEF Populate, stats
<1>4. CASE RunBuild(c)
  BY <1>0, <1>4, QuietMove DEF RunBuild, stats
<1>5. CASE RunTests(c)
  BY <1>0, <1>5, QuietMove DEF RunTests, stats
<1> QED BY <1>1, <1>2, <1>3, <1>4, <1>5 DEF Prepare, Sandboxed

\* The defers.
LEMMA UnwindInv ==
  ASSUME IInv, NEW c \in Callers, Unwind(c)
  PROVE  IInv'
<1> USE DEF Stages, Outside, Counted, HasDir
<1>0. pc \in [Callers -> Stages]
  BY DEF IInv, TypeOK
<1>1. CASE RemoveJobDir(c)
  <2>1. Goto(c, "cleanup", "observe") /\ dirs' = dirs \ {c}
    BY <1>1 DEF RemoveJobDir
  <2>2. pc' \in [Callers -> Stages]
    BY <1>0, <2>1 DEF Goto
  <2>3. /\ Among(HasDir)' = Among(HasDir) \ {c}
        /\ Holders' = Holders /\ InGauge' = InGauge /\ Unsampled' = Unsampled
    BY <1>0, <2>1, Moves DEF Holders, InGauge, Unsampled
  <2> QED
    BY <1>1, <2>1, <2>2, <2>3
    DEF RemoveJobDir, IInv, TypeOK, SlotsAccounted, GaugeExact, NoStrayWorkspace, SamplesBound,
        RingRead, SnapshotConsistent, stats
<1>2. CASE Observe(c)
  <2>1. Goto(c, "observe", "gauge") /\ ObserveCall
    BY <1>2 DEF Observe
  <2>2. pc' \in [Callers -> Stages]
    BY <1>0, <2>1 DEF Goto
  <2>3. /\ Cardinality(Unsampled') = Cardinality(Unsampled) - 1
        /\ Holders' = Holders /\ InGauge' = InGauge /\ Among(HasDir)' = Among(HasDir)
    BY <1>0, <2>1, Moves DEF Holders, InGauge, Unsampled
  <2>4. Cardinality(Unsampled) \in Nat
    BY AmongFinite DEF Unsampled
  <2>5. ringIdx' \in 0..(RingCap - 1) /\ ringSz' \in 0..RingCap /\ ringSz' <= ringSz + 1
    BY <2>1, ExecutorAssumption DEF ObserveCall, IInv, TypeOK, ExecutorAssumption
  <2>6. SamplesBound'
    BY <1>2, <2>3, <2>4, <2>5, ExecutorAssumption
    DEF Observe, IInv, TypeOK, SamplesBound, ExecutorAssumption
  <2> QED
    BY <1>2, <2>2, <2>3, <2>5, <2>6
    DEF Observe, IInv, TypeOK, SlotsAccounted, GaugeExact, NoStrayWorkspace, SamplesBound,
        RingRead, SnapshotConsistent
<1>3. CASE DecInFlight(c)
  <2>1. Goto(c, "gauge", "release") /\ inFlight' = inFlight - 1
    BY <1>3 DEF DecInFlight
  <2>2. pc' \in [Callers -> Stages]
    BY <1>0, <2>1 DEF Goto
  <2>3. /\ Cardinality(InGauge') = Cardinality(InGauge) - 1
        /\ Holders' = Holders /\ Unsampled' = Unsampled /\ Among(HasDir)' = Among(HasDir)
    BY <1>0, <2>1, Moves DEF Holders, InGauge, Unsampled
  <2> QED
    BY <1>3, <2>1, <2>2, <2>3
    DEF DecInFlight, IInv, TypeOK, SlotsAccounted, GaugeExact, NoStrayWorkspace, SamplesBound,
        RingRead, SnapshotConsistent
<1>4. CASE Release(c)
  <2>1. Goto(c, "release", "idle") /\ sem' = sem - 1
    BY <1>4 DEF Release
  <2>2. pc' \in [Callers -> Stages]
    BY <1>0, <2>1 DEF Goto
  <2>3. /\ Cardinality(Holders') = Cardinality(Holders) - 1
        /\ InGauge' = InGauge /\ Unsampled' = Unsampled /\ Among(HasDir)' = Among(HasDir)
    BY <1>0, <2>1, Moves DEF Holders, InGauge, Unsampled
  <2>4. Cardinality(Holders') \in Nat
    BY <1>0, <2>1, Moves DEF Holders
  <2> QED
    BY <1>4, <2>1, <2>2, <2>3, <2>4, ExecutorAssumption
    DEF Release, IInv, TypeOK, SlotsAccounted, GaugeExact, NoStrayWorkspace, SamplesBound,
        RingRead, SnapshotConsistent, stats, Capacity,
        ExecutorAssumption
<1> QED BY <1>1, <1>2, <1>3, <1>4 DEF Unwind

\* The loads of Snapshot, in the order of the code: what is read first can only
\* have been overtaken by what is read later.
LEMMA ScrapeInv ==
  ASSUME IInv, Scrape
  PROVE  IInv'
<1>0. /\ Holders' = Holders /\ InGauge' = InGauge
      /\ Among(HasDir)' = Among(HasDir) /\ Unsampled' = Unsampled
  BY DEF Scrape, ScrapeRing, ScrapeTotal, ScrapeInFlight, Holders, InGauge, Unsampled, Among
<1>1. Cardinality(Unsampled) \in Nat /\ Capacity \in Nat
  BY AmongFinite, ExecutorAssumption DEF Unsampled, Capacity, ExecutorAssumption
<1>2. inFlight <= Capacity
  BY <1>1, GaugeWithinHolders, AmongFinite
  DEF IInv, TypeOK, GaugeExact, SlotsAccounted, Holders, InGauge
<1> USE ExecutorAssumption DEF IInv, TypeOK, SlotsAccounted, GaugeExact, NoStrayWorkspace,
        SamplesBound, RingRead, SnapshotConsistent, stats, ExecutorAssumption
<1>3. CASE ScrapeRing
  BY <1>0, <1>1, <1>3 DEF ScrapeRing
<1>4. CASE ScrapeTotal
  BY <1>0, <1>1, <1>4 DEF ScrapeTotal
<1>5. CASE ScrapeInFlight
  BY <1>0, <1>1, <1>2, <1>5 DEF ScrapeInFlight
<1> QED BY <1>3, <1>4, <1>5 DEF Scrape

\* One lemma per part of the next-state relation.
LEMMA NextInv == IInv /\ [Next]_vars => IInv'
<1> SUFFICES ASSUME IInv, [Next]_vars PROVE IInv'
  OBVIOUS
<1>1. CASE UNCHANGED vars
  <2>1. /\ Holders' = Holders /\ InGauge' = InGauge
        /\ Among(HasDir)' = Among(HasDir) /\ Unsampled' = Unsampled
    BY <1>1 DEF vars, Holders, InGauge, Unsampled, Among
  <2> QED
    BY <1>1, <2>1
    DEF vars, stats, IInv, TypeOK, SlotsAccounted, GaugeExact, NoStrayWorkspace,
        SamplesBound, RingRead, SnapshotConsistent
<1>2. ASSUME NEW c \in Callers, Arrive(c) \/ Proceed(c) PROVE IInv'
  BY <1>2, EnterInv, BodyInv, UnwindInv DEF Proceed
<1>3. CASE Scrape
  BY <1>3, ScrapeInv
<1> QED BY <1>1, <1>2, <1>3 DEF Next

\* What the parts of the inductive invariant say together of the three counters.
LEMMA InvImplies == IInv => GaugeWithinSlots
<1> SUFFICES ASSUME IInv PROVE GaugeWithinSlots
  OBVIOUS
<1>1. Cardinality(InGauge) \in Nat /\ Cardinality(Holders) \in Nat
  BY AmongFinite DEF InGauge, Holders
<1> QED
  BY <1>1, GaugeWithinHolders DEF IInv, GaugeExact, SlotsAccounted, GaugeWithinSlots

----------------------------------------------------------------------------
\* All of the invariant holds in every reachable state of one goboxd process.
THEOREM Invariance == SafeSpec => []IInv
BY InitInv, NextInv, PTL DEF SafeSpec

\* Every variable keeps its type.
THEOREM TypeCorrect == SafeSpec => []TypeOK
<1>1. IInv => TypeOK
  BY DEF IInv
<1> QED BY <1>1, Invariance, PTL

\* The channel sem holds one token per call inside Run and never more than its
\* capacity: no return path of Run leaks a slot or gives it back twice.
THEOREM SlotsSafe == SafeSpec => []SlotsAccounted
<1>1. IInv => SlotsAccounted
  BY DEF IInv
<1> QED BY <1>1, Invariance, PTL

\* The in_flight gauge stays between 0 and the number of occupied slots.
THEOREM GaugeSafe == SafeSpec => []GaugeWithinSlots
BY InvImplies, Invariance, PTL

\* /metrics never reports more latency samples than calls, or more calls in flight
\* than the capacity, although it loads its counters one by one.
THEOREM SnapshotSafe == SafeSpec => []SnapshotConsistent
<1>1. IInv => SnapshotConsistent
  BY DEF IInv
<1> QED BY <1>1, Invariance, PTL

\* A job directory exists exactly while its call is between MkdirAll and RemoveAll.
THEOREM WorkspaceSafe == SafeSpec => []NoStrayWorkspace
<1>1. IInv => NoStrayWorkspace
  BY DEF IInv
<1> QED BY <1>1, Invariance, PTL

----------------------------------------------------------------------------
(* The executor implements the bounded room.                               *)

\* Admission counts with the Cardinality of its own instance.
LEMMA SameCardinality ==
  ASSUME NEW S
  PROVE  Room!Cardinality(S) = Cardinality(S)
BY DEF Cardinality, Room!Cardinality

\* A move of one caller as the room sees it.
LEMMA ViewMoves ==
  ASSUME NEW c \in Callers, NEW from, NEW to,
         pc \in [Callers -> Stages], Goto(c, from, to)
  PROVE  /\ visitorView[c] = Place(from)
         /\ visitorView' = [visitorView EXCEPT ![c] = Place(to)]
         /\ Place(from) = Place(to) => visitorView' = visitorView
BY DEF visitorView, Goto

\* The visitors inside are the holders of a token.
LEMMA InsideIsHolders ==
  ASSUME TypeOK
  PROVE  Room!Inside = Holders
BY DEF Room!Inside, Holders, Among, visitorView, Place, TypeOK, Outside

LEMMA RoomInit == Init => Room!Init
BY DEF Init, Room!Init, visitorView, Place

\* Every step is a step of the room or invisible to it.
LEMMA RoomNext == IInv /\ [Next]_vars => [Room!Next]_visitorView
<1> SUFFICES ASSUME IInv, [Next]_vars PROVE [Room!Next]_visitorView
  OBVIOUS
<1>0. /\ pc \in [Callers -> Stages]
      /\ Room!Cardinality(Room!Inside) = Cardinality(Holders)
      /\ sem = Cardinality(Holders) /\ sem <= Capacity /\ sem \in Nat /\ Capacity \in Nat
  BY InsideIsHolders, SameCardinality, ExecutorAssumption
  DEF IInv, TypeOK, SlotsAccounted, Capacity, ExecutorAssumption
<1>1. CASE UNCHANGED vars \/ Scrape
  BY <1>1 DEF vars, Scrape, ScrapeRing, ScrapeTotal, ScrapeInFlight, visitorView
<1>2. ASSUME NEW c \in Callers, Acquire(c) PROVE Room!Enter(c)
  <2>1. Goto(c, "idle", "admitted") /\ sem < Capacity
    BY <1>2 DEF Acquire
  <2>2. Place("idle") = "away" /\ Place("admitted") = "inside"
    BY DEF Place
  <2> QED BY <1>0, <2>1, <2>2, ViewMoves DEF Room!Enter
<1>3. ASSUME NEW c \in Callers, Refuse(c) PROVE Room!TurnAway(c)
  <2>1. Goto(c, "idle", "refused") /\ sem >= Capacity
    BY <1>3 DEF Refuse
  <2>2. Place("idle") = "away" /\ Place("refused") = "turned_away"
    BY DEF Place
  <2> QED BY <1>0, <2>1, <2>2, ViewMoves DEF Room!TurnAway
<1>4. ASSUME NEW c \in Callers, IncRejected(c) PROVE Room!GoHome(c)
  <2>1. Goto(c, "refused", "idle")
    BY <1>4 DEF IncRejected
  <2>2. Place("idle") = "away" /\ Place("refused") = "turned_away"
    BY DEF Place
  <2> QED BY <1>0, <2>1, <2>2, ViewMoves DEF Room!GoHome
<1>5. ASSUME NEW c \in Callers, Release(c) PROVE Room!Leave(c)
  <2>1. Goto(c, "release", "idle")
    BY <1>5 DEF Release
  <2>2. Place("idle") = "away" /\ Place("release") = "inside"
    BY DEF Place
  <2> QED BY <1>0, <2>1, <2>2, ViewMoves DEF Room!Leave
<1>6. ASSUME NEW c \in Callers,
             \/ IncTotal(c) \/ IncGauge(c) \/ Prepare(c) \/ Sandboxed(c)
             \/ RemoveJobDir(c) \/ Observe(c) \/ DecInFlight(c)
      PROVE  visitorView' = visitorView
  <2>1. PICK from \in Stages \ Outside, to \in Stages \ Outside : Goto(c, from, to)
    BY <1>6 DEF IncTotal, IncGauge, Prepare, Sandboxed, Validate, MkdirAll, Populate, RunBuild, RunTests,
                RemoveJobDir, Observe, DecInFlight, Stages, Outside, Counted, HasDir
  <2>2. Place(from) = Place(to)
    BY DEF Place, Outside
  <2> QED BY <1>0, <2>1, <2>2, ViewMoves
<1> QED
  BY <1>1, <1>2, <1>3, <1>4, <1>5, <1>6
  DEF Next, Arrive, Proceed, Enter, Unwind, Room!Next

\* Executor.Run admits and refuses as the bounded room does: a caller is answered
\* 429 only while Capacity calls hold a slot, whatever interleaves.
THEOREM Refinement == SafeSpec => Room!SafeSpec
BY RoomInit, RoomNext, Invariance, PTL DEF SafeSpec, Room!SafeSpec
============================================================================
