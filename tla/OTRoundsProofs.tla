--------------------------- MODULE OTRoundsProofs ---------------------------
(* Theorems about OTRounds for any numbers of rounds and any Faults. *)
EXTENDS OTRounds, TLAPS

-----------------------------------------------------------------------------
(* Type correctness.                                                       *)

\* A round that goes on is one of those counted; a client that does not count stays in
\* its first round, which ends in the TypeError of Connect.
ClientSound ==
  /\ i \in 1..(ClientRounds + 1)
  /\ client \in {"connect", "read", "exchange", "close"} => i \in Round
  /\ nonstop => i = 1 /\ client \in {"start", "connect", "crashed"}

\* TypeOK with the rounds it rests on.
Typed == TypeOK /\ ClientSound

LEMMA TypedInit == Init => Typed
  <1> SUFFICES ASSUME Init PROVE Typed
    OBVIOUS
  <1>1. TypeOK
    BY DEF Init, TypeOK
  <1>2. ClientSound
    BY RoundsAssumption DEF Init, ClientSound
  <1> QED
    BY <1>1, <1>2 DEF Typed

LEMMA ClientStable == ClientSound /\ UNCHANGED <<nonstop, clientVars>> => ClientSound'
  BY DEF ClientSound, clientVars

LEMMA ClientKeepsType == ASSUME Typed, ClientStep PROVE Typed'
  <1> USE DEF Typed, TypeOK, ClientSound, SameRound, NextRound, ToStart, clientVars, serverVars
  <1>r. 1 \in Round /\ ClientRounds \in Nat \ {0}
    BY RoundsAssumption DEF Round
  <1>n. (ToStart \/ client \in {"connect", "read", "exchange", "close"}) =>
          i \in Round /\ i + 1 \in 1..(ClientRounds + 1)
    BY <1>r DEF Round
  <1>1. CASE ClientDone
    BY <1>1 DEF ClientDone
  <1>2. CASE StartOk
    BY <1>2, <1>n DEF StartOk
  <1>3. CASE StartRefused
    BY <1>3, <1>n DEF StartRefused
  <1>4. CASE StartUnanswered
    BY <1>4, <1>n DEF StartUnanswered
  <1>5. CASE Connect
    BY <1>5, <1>n DEF Connect, Open, Protocol
  <1>6. CASE ConnectRefused
    BY <1>6, <1>n DEF ConnectRefused
  <1>7. CASE ClientReads
    BY <1>7, <1>n DEF ClientReads, Stop
  <1>8. CASE StopFails
    BY <1>8, <1>n DEF StopFails
  <1>9. CASE ClientCompletes
    BY <1>9, <1>n DEF ClientCompletes
  <1>10. CASE ClientLeaves
    BY <1>10, <1>n DEF ClientLeaves
  <1>11. CASE ClientCloses
    BY <1>11, <1>n DEF ClientCloses
  <1> QED
    BY <1>1, <1>2, <1>3, <1>4, <1>5, <1>6, <1>7, <1>8, <1>9, <1>10, <1>11 DEF ClientStep

LEMMA GotoKeepsType ==
  ASSUME TypeOK, NEW k \in Round, connections_handled' \in Nat,
         NEW step \in {"none", "delay", "over", "raised"} \cup Open, Goto(k, step)
  PROVE  TypeOK' /\ UNCHANGED <<nonstop, clientVars>>
  BY DEF TypeOK, Goto, clientVars

LEMMA HandlerKeepsType == ASSUME Typed, NEW k \in Round, HandlerStep(k) PROVE Typed'
  <1> SUFFICES TypeOK' /\ UNCHANGED <<nonstop, clientVars>>
    BY ClientStable DEF Typed
  <1>t. TypeOK /\ connections_handled \in Nat
    BY DEF Typed, TypeOK
  <1>g. ASSUME connections_handled' \in Nat,
               \E step \in {"none", "delay", "over", "raised"} \cup Open : Goto(k, step)
        PROVE  TypeOK' /\ UNCHANGED <<nonstop, clientVars>>
    BY <1>t, <1>g, GotoKeepsType
  <1> USE DEF Open, Protocol
  <1>1. CASE CountConnection(k)
    BY <1>1, <1>t, <1>g DEF CountConnection
  <1>2. CASE RejectConnection(k)
    BY <1>2, <1>t, <1>g DEF RejectConnection
  <1>3. CASE ConnectionRejected(k)
    BY <1>3, <1>t, <1>g DEF ConnectionRejected
  <1>4. CASE HandlerReads(k)
    BY <1>4, <1>t, <1>g DEF HandlerReads
  <1>5. CASE HandlerAnswers(k)
    BY <1>5, <1>t, <1>g DEF HandlerAnswers
  <1>6. CASE HandlerCompletes(k)
    BY <1>6, <1>t, <1>g DEF HandlerCompletes
  <1>7. CASE HandlerLeaves(k)
    BY <1>7, <1>t, <1>g DEF HandlerLeaves
  <1>8. CASE HandlerCloses(k)
    BY <1>8, <1>t, <1>g DEF HandlerCloses
  <1>9. CASE DelayOver(k)
    BY <1>9, <1>t DEF DelayOver, TypeOK, clientVars
  <1> QED
    BY <1>1, <1>2, <1>3, <1>4, <1>5, <1>6, <1>7, <1>8, <1>9 DEF HandlerStep

LEMMA ServerKeepsType ==
  ASSUME Typed, RunServer \/ ServerCloses \/ ServerEnds \/ ServerExits
  PROVE  Typed'
  <1> SUFFICES TypeOK' /\ UNCHANGED <<nonstop, clientVars>>
    BY ClientStable DEF Typed
  <1>t. TypeOK
    BY DEF Typed
  <1>1. CASE RunServer \/ ServerCloses
    BY <1>1, <1>t DEF RunServer, ServerCloses, TypeOK, clientVars
  <1>2. CASE ServerEnds
    BY <1>2, <1>t DEF ServerEnds, TypeOK, clientVars
  <1>3. CASE ServerExits
    BY <1>3, <1>t DEF ServerExits, TypeOK, clientVars
  <1> QED
    BY <1>1, <1>2, <1>3

LEMMA TypedNext == Typed /\ [Next]_vars => Typed'
  <1> SUFFICES ASSUME Typed, [Next]_vars PROVE Typed'
    OBVIOUS
  <1>1. CASE ClientStep
    BY <1>1, ClientKeepsType
  <1>2. CASE \E k \in Round : HandlerStep(k)
    BY <1>2, HandlerKeepsType
  <1>3. CASE RunServer \/ ServerCloses \/ ServerEnds \/ ServerExits
    BY <1>3, ServerKeepsType
  <1>4. CASE UNCHANGED vars
    BY <1>4 DEF Typed, TypeOK, ClientSound, vars, clientVars, serverVars
  <1> QED
    BY <1>1, <1>2, <1>3, <1>4 DEF Next

LEMMA AlwaysTyped == Spec => []Typed
  BY TypedInit, TypedNext, PTL DEF Spec

\* Every variable of the two programs keeps its type (run_client, run_server).
THEOREM TypeCorrect == Spec => []TypeOK
  <1>1. Typed => TypeOK
    BY DEF Typed
  <1> QED
    BY <1>1, AlwaysTyped, PTL

-----------------------------------------------------------------------------
(* The end of the server.                                                  *)

\* The counter never passes num_rounds, the event is set only when it is there, and the
\* server leaves its loop only then and ends only without connections.
CountSound ==
  /\ ~nonstop => connections_handled <= ServerRounds
  /\ all_connections_done => ~nonstop /\ connections_handled >= ServerRounds
  /\ server \in {"closing", "ended"} => all_connections_done
  /\ server = "ended" => \A k \in Round : handler[k] \notin Open

LEMMA CountInit == Init => CountSound
  BY RoundsAssumption DEF Init, CountSound

LEMMA CountNext == Typed /\ CountSound /\ [Next]_vars => CountSound'
  <1> SUFFICES ASSUME Typed, CountSound, [Next]_vars PROVE CountSound'
    OBVIOUS
  <1>t. /\ connections_handled \in Nat /\ ServerRounds \in Nat /\ nonstop \in BOOLEAN
        /\ handler \in [Round -> {"none", "delay", "over", "raised"} \cup Open]
    BY RoundsAssumption DEF Typed, TypeOK
  <1> USE DEF CountSound
  <1>1. CASE ClientStep
    <2>1. CASE Connect
      BY <1>1, <2>1 DEF Connect
    <2>2. CASE ~Connect
      <3>1. UNCHANGED <<nonstop, serverVars>>
        BY <1>1, <2>2 DEF ClientStep, ClientDone, StartOk, StartRefused, StartUnanswered,
           ConnectRefused, ClientReads, StopFails, ClientCompletes, ClientLeaves, ClientCloses
      <3> QED
        BY <3>1 DEF serverVars
    <2> QED
      BY <2>1, <2>2
  <1>2. ASSUME NEW k \in Round, HandlerStep(k) PROVE CountSound'
    <2>1. CASE CountConnection(k)
      <3>1. server = "listening" \/ server = "closing"
        BY <2>1 DEF CountConnection, Running
      <3> QED
        BY <2>1, <3>1, <1>t DEF CountConnection, Goto
    <2>2. CASE DelayOver(k)
      BY <2>2, <1>t DEF DelayOver, LastRound, Running
    <2>3. CASE ~CountConnection(k) /\ ~DelayOver(k)
      <3>1. /\ Running
            /\ UNCHANGED <<nonstop, server, connections_handled, all_connections_done>>
        BY <1>2, <2>3 DEF HandlerStep, RejectConnection, ConnectionRejected, HandlerReads,
           HandlerAnswers, HandlerCompletes, HandlerLeaves, HandlerCloses, Goto
      <3> QED
        BY <3>1 DEF Running
    <2> QED
      BY <2>1, <2>2, <2>3
  <1>3. CASE RunServer
    BY <1>3 DEF RunServer
  <1>4. CASE ServerCloses
    BY <1>4 DEF ServerCloses
  <1>5. CASE ServerEnds
    BY <1>5, <1>t DEF ServerEnds, NoConnection, Open, Protocol
  <1>6. CASE ServerExits
    BY <1>6 DEF ServerExits
  <1>7. CASE UNCHANGED vars
    BY <1>7 DEF vars, clientVars, serverVars
  <1> QED
    BY <1>1, <1>2, <1>3, <1>4, <1>5, <1>6, <1>7 DEF Next

LEMMA AlwaysCounted == Spec => []CountSound
  BY CountInit, CountNext, AlwaysTyped, PTL DEF Spec

\* For any numbers of rounds, the server ends by itself only when num_rounds connections
\* were counted and none of them is open (handle_connection, run_server).
THEOREM RoundSafety == Spec => []NoRoundCut
  <1>1. Typed /\ CountSound => NoRoundCut
    BY RoundsAssumption DEF Typed, TypeOK, CountSound, NoRoundCut
  <1> QED
    BY <1>1, AlwaysTyped, AlwaysCounted, PTL

-----------------------------------------------------------------------------
(* The hardware.                                                           *)

\* Beyond the rounds that are excused, the hardware runs only for the present round, and
\* only until its angles are read.
HardwareSound ==
  client # "crashed" =>
    started \subseteq excused \cup (IF client \in {"connect", "read"} THEN {i} ELSE {})

LEMMA HardwareInit == Init => HardwareSound
  BY DEF Init, HardwareSound

LEMMA HardwareNext == HardwareSound /\ [Next]_vars => HardwareSound'
  <1> SUFFICES ASSUME HardwareSound, [Next]_vars PROVE HardwareSound'
    OBVIOUS
  <1> USE DEF HardwareSound, SameRound, NextRound, ToStart
  <1>1. CASE ClientDone
    BY <1>1 DEF ClientDone
  <1>2. CASE StartOk
    BY <1>2 DEF StartOk
  <1>3. CASE StartRefused
    BY <1>3 DEF StartRefused
  <1>4. CASE StartUnanswered
    BY <1>4 DEF StartUnanswered
  <1>5. CASE Connect
    BY <1>5 DEF Connect
  <1>6. CASE ConnectRefused
    BY <1>6 DEF ConnectRefused
  <1>7. CASE ClientReads
    BY <1>7 DEF ClientReads, Stop
  <1>8. CASE StopFails
    BY <1>8 DEF StopFails
  <1>9. CASE ClientCompletes \/ ClientLeaves
    BY <1>9 DEF ClientCompletes, ClientLeaves
  <1>10. CASE ClientCloses
    BY <1>10 DEF ClientCloses
  <1>11. CASE UNCHANGED clientVars
    BY <1>11 DEF clientVars
  <1>12. ASSUME NEW k \in Round, HandlerStep(k) PROVE UNCHANGED clientVars
    BY <1>12 DEF HandlerStep, CountConnection, RejectConnection, ConnectionRejected,
       HandlerReads, HandlerAnswers, HandlerCompletes, HandlerLeaves, HandlerCloses,
       DelayOver, Goto
  <1>13. (RunServer \/ ServerCloses \/ ServerEnds \/ ServerExits) => UNCHANGED clientVars
    BY DEF RunServer, ServerCloses, ServerEnds, ServerExits
  <1> QED
    BY <1>1, <1>2, <1>3, <1>4, <1>5, <1>6, <1>7, <1>8, <1>9, <1>10, <1>11, <1>12, <1>13
       DEF Next, ClientStep, vars

\* Whatever fails and however a round returns, the hardware is left running only by a
\* round that lost its connection to the server or to the hardware (run_client,
\* run_protocol).
THEOREM HardwareSafety == Spec => []HardwareStopped
  <1>1. Spec => []HardwareSound
    BY HardwareInit, HardwareNext, PTL DEF Spec
  <1>2. HardwareSound => HardwareStopped
    BY DEF HardwareSound, HardwareStopped
  <1> QED
    BY <1>1, <1>2, PTL
=============================================================================
