------------------------------ MODULE OTRounds ------------------------------
(***************************************************************************)
(* The rounds of oblivious transfer: server_run accepts connections and    *)
(* leaves after num_rounds of them, client_run starts the hardware and     *)
(* makes one connection a round.  The exchange inside a round is reduced   *)
(* to the ways it can end, which are those of OTExchange.                  *)
(*                                                                         *)
(* Connection i is the one the client makes in round i.                    *)
(***************************************************************************)
EXTENDS Naturals, FiniteSets

CONSTANTS
  ServerRounds, \* num_rounds of the server, when it counts
  ClientRounds, \* num_rounds of the client, when it counts
  Faults        \* what may go wrong

ASSUME RoundsAssumption == ServerRounds \in Nat \ {0} /\ ClientRounds \in Nat \ {0}
ASSUME FaultsAssumption ==
  Faults \subseteq {"start", "connect", "stop", "data", "abort", "raise", "exit"}

Round == 1..ClientRounds

VARIABLES
  nonstop,              \* both were given num_rounds = 0
  client,               \* where run_client stands
  i,                    \* its round
  started,              \* rounds whose start command has no stop command yet
  excused,              \* rounds whose connection to the server or the hardware failed
  completed,            \* rounds whose masked messages the client sent
  results,              \* rounds with an entry in results
  server,               \* where run_server stands
  handler,              \* handler[k]: where handle_connection of connection k stands
  connections_handled,
  all_connections_done

clientVars == <<client, i, started, excused, completed, results>>
serverVars == <<server, handler, connections_handled, all_connections_done>>
vars == <<nonstop, clientVars, serverVars>>

\* A handler inside run_protocol, and one whose connection is open.
Protocol == {"read", "talk", "answered"}
Open == Protocol \cup {"accepted", "rejecting", "closing"}

TypeOK ==
  /\ nonstop \in BOOLEAN
  /\ client \in {"start", "connect", "read", "exchange", "close", "over", "crashed"}
  /\ i \in Nat
  /\ started \subseteq Round /\ excused \subseteq Round
  /\ completed \subseteq Round /\ results \subseteq Round
  /\ server \in {"down", "listening", "closing", "ended", "exited"}
  /\ handler \in [Round -> {"none", "delay", "over", "raised"} \cup Open]
  /\ connections_handled \in Nat
  /\ all_connections_done \in BOOLEAN

Init ==
  /\ nonstop \in BOOLEAN
  /\ client = "start" /\ i = 1
  /\ started = {} /\ excused = {} /\ completed = {} /\ results = {}
  /\ server = "down"
  /\ handler = [k \in Round |-> "none"]
  /\ connections_handled = 0
  /\ all_connections_done = FALSE

-----------------------------------------------------------------------------
(* The client.                                                             *)

NextRound == client' = "start" /\ i' = i + 1
SameRound(step) == client' = step /\ i' = i

\* for i in range(num_rounds)
ClientDone ==
  /\ client = "start" /\ ~nonstop /\ i > ClientRounds
  /\ SameRound("over")
  /\ UNCHANGED <<nonstop, started, excused, completed, results, serverVars>>

ToStart == client = "start" /\ (nonstop \/ i <= ClientRounds)

StartOk ==
  /\ ToStart
  /\ started' = started \cup {i}
  /\ SameRound("connect")
  /\ UNCHANGED <<nonstop, excused, completed, results, serverVars>>

\* No socket: a counted round is spent, a non-stop client goes on without one.
StartRefused ==
  /\ ToStart /\ "start" \in Faults
  /\ IF nonstop THEN SameRound("connect") ELSE NextRound
  /\ UNCHANGED <<nonstop, started, excused, completed, results, serverVars>>

\* The answer does not come within five seconds, or the stream ends: EOFError reaches a
\* clause that logs the unbound name e, and the program dies.
StartUnanswered ==
  /\ ToStart /\ "start" \in Faults
  /\ started' \in {started, started \cup {i}}
  /\ SameRound("crashed")
  /\ UNCHANGED <<nonstop, excused, completed, results, serverVars>>

\* Non-stop, the handler is built without its secret_choice: a TypeError.
Connect ==
  /\ client = "connect" /\ server = "listening"
  /\ handler' = [handler EXCEPT ![i] = "accepted"]
  /\ SameRound(IF nonstop THEN "crashed" ELSE "read")
  /\ UNCHANGED <<nonstop, started, excused, completed, results,
                 server, connections_handled, all_connections_done>>

\* The round is given up with the hardware running.
ConnectRefused ==
  /\ client = "connect"
  /\ server # "listening" \/ "connect" \in Faults
  /\ IF nonstop THEN SameRound("start") ELSE NextRound
  /\ excused' = excused \cup {i}
  /\ UNCHANGED <<nonstop, started, completed, results, serverVars>>

\* The angles, and the stop command whether or not there were any.
StopIfAngles(empty) == IF empty THEN UNCHANGED started ELSE started' = started \ {i}
Stop(empty) == started' = started \ {i}
ClientReads ==
  /\ client = "read"
  /\ \E empty \in {FALSE} \cup (IF "data" \in Faults THEN {TRUE} ELSE {}) :
       Stop(empty) /\ SameRound(IF empty THEN "close" ELSE "exchange")
  /\ UNCHANGED <<nonstop, excused, completed, results, serverVars>>

\* An OSError is logged, an EOFError is not caught.
StopFails ==
  /\ client = "read" /\ "stop" \in Faults
  /\ excused' = excused \cup {i}
  /\ client' \in {"close", "exchange", "crashed"} /\ i' = i
  /\ UNCHANGED <<nonstop, started, completed, results, serverVars>>

ClientCompletes ==
  /\ client = "exchange" /\ handler[i] = "answered"
  /\ completed' = completed \cup {i}
  /\ SameRound("close")
  /\ UNCHANGED <<nonstop, started, excused, results, serverVars>>

\* An early return of the client, or an exception; either when the server has closed.
ClientLeaves ==
  /\ client = "exchange"
  /\ \/ "abort" \in Faults /\ SameRound("close")
     \/ "raise" \in Faults /\ SameRound("crashed")
     \/ handler[i] \notin Open /\ (SameRound("close") \/ SameRound("crashed"))
  /\ UNCHANGED <<nonstop, started, excused, completed, results, serverVars>>

\* m0 is appended however the protocol returned.
ClientCloses ==
  /\ client = "close"
  /\ results' = results \cup {i}
  /\ NextRound
  /\ UNCHANGED <<nonstop, started, excused, completed, serverVars>>

-----------------------------------------------------------------------------
(* The server.                                                             *)

RunServer ==
  /\ server = "down"
  /\ server' = "listening"
  /\ UNCHANGED <<nonstop, clientVars, handler, connections_handled, all_connections_done>>

Goto(k, step) ==
  /\ handler' = [handler EXCEPT ![k] = step]
  /\ UNCHANGED <<nonstop, clientVars, server, all_connections_done>>

Running == server \in {"listening", "closing"}

\* The lock is held while a connection in excess is closed.
Lock == \A k \in Round : handler[k] # "rejecting"

CountConnection(k) ==
  /\ Running /\ handler[k] = "accepted"
  /\ nonstop \/ (Lock /\ connections_handled < ServerRounds)
  /\ connections_handled' = connections_handled + 1
  /\ Goto(k, "read")
RejectConnection(k) ==
  /\ Running /\ handler[k] = "accepted" /\ ~nonstop /\ Lock
  /\ connections_handled >= ServerRounds
  /\ Goto(k, "rejecting") /\ UNCHANGED connections_handled
ConnectionRejected(k) ==
  /\ Running /\ handler[k] = "rejecting"
  /\ Goto(k, "over") /\ UNCHANGED connections_handled

\* The reader blocks the whole server, so it is one step; angles that do not parse raise.
HandlerReads(k) ==
  /\ Running /\ handler[k] = "read"
  /\ \/ Goto(k, "talk")
     \/ "data" \in Faults /\ (Goto(k, "closing") \/ Goto(k, "raised"))
  /\ UNCHANGED connections_handled

InExchange(k) == client = "exchange" /\ i = k
Gone(k) == i # k \/ client \in {"close", "crashed"}

HandlerAnswers(k) ==
  /\ Running /\ handler[k] = "talk" /\ InExchange(k)
  /\ Goto(k, "answered") /\ UNCHANGED connections_handled

HandlerCompletes(k) ==
  /\ Running /\ handler[k] = "answered" /\ k \in completed
  /\ Goto(k, "closing") /\ UNCHANGED connections_handled

\* An early return or an exception, the client being gone or the server's data bad.
HandlerLeaves(k) ==
  /\ Running /\ handler[k] \in {"talk", "answered"}
  /\ \/ Gone(k) /\ k \notin completed /\ (Goto(k, "closing") \/ Goto(k, "raised"))
     \/ "abort" \in Faults /\ Goto(k, "closing")
     \/ "raise" \in Faults /\ Goto(k, "raised")
  /\ UNCHANGED connections_handled

HandlerCloses(k) ==
  /\ Running /\ handler[k] = "closing"
  /\ Goto(k, "delay") /\ UNCHANGED connections_handled

OneMoreRound(handled) == ~nonstop /\ handled > ServerRounds
\* After a second the counter is read again: it counts the connections accepted by now.
LastRound(handled) == ~nonstop /\ handled >= ServerRounds
DelayOver(k) ==
  /\ Running /\ handler[k] = "delay"
  /\ handler' = [handler EXCEPT ![k] = "over"]
  /\ all_connections_done' = (all_connections_done \/ LastRound(connections_handled))
  /\ UNCHANGED <<nonstop, clientVars, server, connections_handled>>

ServerCloses ==
  /\ server = "listening" /\ all_connections_done
  /\ server' = "closing"
  /\ UNCHANGED <<nonstop, clientVars, handler, connections_handled, all_connections_done>>

\* wait_closed waits for the connections, and the end of the program cancels what sleeps.
AtOnce == TRUE
NoConnection == \A k \in Round : handler[k] \notin Open
ServerEnds ==
  /\ server = "closing" /\ NoConnection
  /\ server' = "ended"
  /\ handler' = [k \in Round |-> IF handler[k] = "delay" THEN "over" ELSE handler[k]]
  /\ UNCHANGED <<nonstop, clientVars, connections_handled, all_connections_done>>

\* exit(1) in read_matrix ends the whole program, and with it every connection.
ServerExits ==
  /\ Running /\ "exit" \in Faults
  /\ \E k \in Round : handler[k] = "answered"
  /\ server' = "exited"
  /\ handler' = [k \in Round |-> IF handler[k] \in Open \cup {"delay"} THEN "over" ELSE handler[k]]
  /\ UNCHANGED <<nonstop, clientVars, connections_handled, all_connections_done>>

ClientStep ==
  \/ ClientDone \/ StartOk \/ StartRefused \/ StartUnanswered
  \/ Connect \/ ConnectRefused \/ ClientReads \/ StopFails
  \/ ClientCompletes \/ ClientLeaves \/ ClientCloses
HandlerStep(k) ==
  \/ CountConnection(k) \/ RejectConnection(k) \/ ConnectionRejected(k)
  \/ HandlerReads(k) \/ HandlerAnswers(k) \/ HandlerCompletes(k) \/ HandlerLeaves(k)
  \/ HandlerCloses(k) \/ DelayOver(k)

Next ==
  \/ ClientStep
  \/ \E k \in Round : HandlerStep(k)
  \/ RunServer \/ ServerCloses \/ ServerEnds \/ ServerExits

Spec == Init /\ [][Next]_vars

\* Tasks that can go on do; the server need not be started, nor any fault happen.
Fairness ==
  /\ WF_vars(ClientStep)
  /\ \A k \in Round : WF_vars(HandlerStep(k))
  /\ WF_vars(ServerCloses) /\ WF_vars(ServerEnds)
FairSpec == Spec /\ Fairness

-----------------------------------------------------------------------------
(* Properties.                                                             *)

\* The server ends by itself only after num_rounds connections, none of which is still
\* inside the protocol: neither the handler that found the counter full nor the end of the
\* server cuts a round that runs beside it (handle_connection, run_server).
NoRoundCut ==
  server = "ended" =>
    /\ ~nonstop
    /\ connections_handled = ServerRounds
    /\ \A k \in Round : handler[k] \notin Open

\* Outside a round the hardware runs only for a round that failed to reach the server or
\* the hardware: a round that returned early has stopped it (run_client, run_protocol).
HardwareStopped ==
  client \in {"start", "over"} => started \subseteq excused

\* A client that counts its rounds ends whatever fails, and once one handler returns with
\* the counter full the server ends, also when other handlers raise.
RoundsEnd ==
  /\ ~nonstop ~> client \in {"over", "crashed"}
  /\ (\E k \in Round : handler[k] = "closing" /\ ~nonstop /\ connections_handled = ServerRounds)
       ~> server \in {"ended", "exited"}
=============================================================================
