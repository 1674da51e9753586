------------------------------ MODULE MCFraming ------------------------------
EXTENDS Framing

\* A body of one header's length lets a reader out of step fall into step again.
MCSizes == [main |-> <<2, 3, 2>>, feedback |-> <<2, 3>>]
=============================================================================
