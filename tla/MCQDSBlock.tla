----------------------------- MODULE MCQDSBlock -----------------------------
(* Instances of QDSBlock for TLC: three blocks, so that a half is one block *)
(* and both the kept and the sent part can hold errors.                     *)
EXTENDS QDSBlock

\* Below, at, and above what Alice's check lets through.
MCEMax == {-1, 0, 1, 2}
=============================================================================
