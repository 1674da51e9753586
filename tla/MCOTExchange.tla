---------------------------- MODULE MCOTExchange ----------------------------
(* Instances of OTExchange for TLC: strings of up to six blocks of the     *)
(* smallest code and three of the largest, and keys that are at their cap, *)
(* below it, and empty.                                                    *)
EXTENDS OTExchange

ASSUME CodesInOrder == Mid < Small /\ Small < Large
=============================================================================
