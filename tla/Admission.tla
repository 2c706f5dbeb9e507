------------------------------ MODULE Admission ------------------------------
(***************************************************************************)
(* What the executor's semaphore promises its callers, with no counter and *)
(* no channel: a room that holds at most Capacity visitors.  A visitor who *)
(* finds a free place goes in at once; one who finds the room full is      *)
(* turned away at once, and only then; whoever is inside eventually comes  *)
(* out, a few named ones excepted.  Executor.tla is shown to implement it. *)
(***************************************************************************)
EXTENDS Integers, FiniteSets

CONSTANTS
  Callers,    \* the goroutines that may ask for a place
  Lingering,  \* those that may never leave it again
  Capacity    \* how many may be inside at the same time

VARIABLE visitor   \* visitor[c]: where caller c is

Places == {"away", "inside", "turned_away"}

Inside == {c \in Callers : visitor[c] = "inside"}

Init == visitor = [c \in Callers |-> "away"]

Enter(c) ==
  /\ visitor[c] = "away"
  /\ Cardinality(Inside) < Capacity
  /\ visitor' = [visitor EXCEPT ![c] = "inside"]

TurnAway(c) ==
  /\ visitor[c] = "away"
  /\ Cardinality(Inside) = Capacity
  /\ visitor' = [visitor EXCEPT ![c] = "turned_away"]

Leave(c) ==
  /\ visitor[c] = "inside"
  /\ visitor' = [visitor EXCEPT ![c] = "away"]

GoHome(c) ==
  /\ visitor[c] = "turned_away"
  /\ visitor' = [visitor EXCEPT ![c] = "away"]

Next == \E c \in Callers : Enter(c) \/ TurnAway(c) \/ Leave(c) \/ GoHome(c)

\* The safety half, which the proofs use.
SafeSpec == Init /\ [][Next]_visitor

\* Nobody stays in front of the door for ever, and only the lingering stay inside.
Spec ==
  /\ SafeSpec
  /\ \A c \in Callers : WF_visitor(GoHome(c))
  /\ \A c \in Callers \ Lingering : WF_visitor(Leave(c))
==============================================================================
