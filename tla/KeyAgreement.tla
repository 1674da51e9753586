---------------------------- MODULE KeyAgreement ----------------------------
(***************************************************************************)
(* What a key exchange between Alice and one server promises the signature *)
(* protocol that uses it: Alice never gives up with no key on a server     *)
(* that holds one.  The converse may happen: her side is complete when the *)
(* server fails.                                                           *)
(***************************************************************************)
VARIABLES
  alice,   \* "open", "key", "none": run_protocol has returned, or "gone"
  peer     \* "open", "key", or "none"

vars == <<alice, peer>>

Init == alice = "open" /\ peer = "open"

AliceKey == alice = "open" /\ alice' = "key" /\ UNCHANGED peer

\* Once she has none, no key can come up on the other side.
AliceNone == alice = "open" /\ peer # "key" /\ alice' = "none" /\ UNCHANGED peer

\* Her process ends before run_protocol returns.
AliceGone == alice = "open" /\ alice' = "gone" /\ UNCHANGED peer

PeerKey == peer = "open" /\ alice # "none" /\ peer' = "key" /\ UNCHANGED alice

PeerNone == peer = "open" /\ peer' = "none" /\ UNCHANGED alice

Next == AliceKey \/ AliceNone \/ AliceGone \/ PeerKey \/ PeerNone

Spec == Init /\ [][Next]_vars
=============================================================================
