-------------------------- MODULE TokenPresentation -------------------------
(***************************************************************************)
(* What the QT1 exchange promises of each token: it is presented at no     *)
(* more than one point, judged there at most once and nowhere else, and    *)
(* the outcome Bob records is that judgement.                              *)
(***************************************************************************)
EXTENDS Naturals

CONSTANTS Token, Point,
          Nowhere   \* not a Point

VARIABLES
  point,   \* point[t]: where t is presented, or Nowhere
  judged,  \* judged[t]: the points that gave a verdict on t
  outcome  \* outcome[t]: the point whose verdict on t Bob recorded, or Nowhere

vars == <<point, judged, outcome>>

Init ==
  /\ point = [t \in Token |-> Nowhere]
  /\ judged = [t \in Token |-> {}]
  /\ outcome = [t \in Token |-> Nowhere]

Select(t, p) ==
  /\ point[t] = Nowhere
  /\ point' = [point EXCEPT ![t] = p]
  /\ UNCHANGED <<judged, outcome>>

Judge(t) ==
  /\ point[t] # Nowhere
  /\ judged[t] = {}
  /\ judged' = [judged EXCEPT ![t] = {point[t]}]
  /\ UNCHANGED <<point, outcome>>

Conclude(t) ==
  /\ judged[t] # {}
  /\ outcome[t] = Nowhere
  /\ outcome' = [outcome EXCEPT ![t] = point[t]]
  /\ UNCHANGED <<point, judged>>

Next == \E t \in Token : Judge(t) \/ Conclude(t) \/ \E p \in Point : Select(t, p)

Spec == Init /\ [][Next]_vars
=============================================================================
