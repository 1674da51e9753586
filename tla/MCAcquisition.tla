---------------------------- MODULE MCAcquisition ----------------------------
EXTENDS Acquisition

\* Four pulses: Alice's bases in four patterns, and a wrong result in one pulse or none.
MCPulses ==
  {[k \in 1..4 |->
      LET AX == <<0, 1, 1, 0>>[k]
          BX == <<1, 1, 0, 1>>[k]
          AH == <<0, 1, 1, 1>>[k]
      IN  [AX |-> AX, AH |-> AH, BX |-> BX, BH |-> H[k],
           R |-> IF k = wrong THEN 1 - XorBit(AX, BX) ELSE XorBit(AX, BX)]]
   : H \in {<<0, 1, 1, 0>>, <<1, 0, 0, 0>>, <<0, 0, 1, 1>>, <<1, 1, 0, 1>>}, wrong \in {0, 3}}
MCGammaErr == <<2, 5>>
MCGammaDet == <<1, 1000>>
=============================================================================
