------------------------------ MODULE FrameLink ------------------------------
(***************************************************************************)
(* What a connection promises the programs that use send_async and         *)
(* receive_async: frames are numbered as they are written, and come out in *)
(* that order, each once and none made up.  A reader that gives a read up  *)
(* may miss frames; any other receives them without a gap.                 *)
(***************************************************************************)
EXTENDS Naturals, Sequences

CONSTANT Lossy  \* whether the reader gives reads up

VARIABLES sent, delivered

vars == <<sent, delivered>>

Init == sent = 0 /\ delivered = <<>>

Send == sent' = sent + 1 /\ UNCHANGED delivered

LastDelivered == IF delivered = <<>> THEN 0 ELSE delivered[Len(delivered)]

Deliver ==
  /\ \E f \in (LastDelivered + 1)..sent :
       /\ Lossy \/ f = LastDelivered + 1
       /\ delivered' = Append(delivered, f)
  /\ UNCHANGED sent

Next == Send \/ Deliver

Spec == Init /\ [][Next]_vars
=============================================================================
