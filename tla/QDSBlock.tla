------------------------------ MODULE QDSBlock ------------------------------
(***************************************************************************)
(* The block-based digital signature: Alice runs once; Bob and Charlie are *)
(* servers that start one handler task per connection and leave when the   *)
(* event all_connections_done is set.  A connection carries one request    *)
(* and at most one response, so its whole life is one status.              *)
(*                                                                         *)
(* A key is n blocks; bad[p] is the set of blocks in which the key of p    *)
(* differs from Alice's.  A signature is rejected exactly by the holder of *)
(* a bad block: hash collisions are left out.                              *)
(***************************************************************************)
EXTENDS Integers, FiniteSets

CONSTANTS
  n,      \* blocks per key
  EMax    \* values of Alice's --eMax

ASSUME BlocksAssumption == n \in Nat /\ n >= 2
ASSUME EMaxAssumption == EMax \subseteq Int

Peer == {"Bob", "Charlie"}
Block == 1..n
\* The random halves of the blocks the verifiers send each other.
HalvesFromZero == {H \in SUBSET (0..(n - 1)) : Cardinality(H) = n \div 2}
Halves == {H \in SUBSET Block : Cardinality(H) = n \div 2}
NotReceived == [received |-> FALSE, blocks |-> {}]
Received(H) == [received |-> TRUE, blocks |-> H]
HalfReceived == [received : BOOLEAN, blocks : SUBSET Block]

VARIABLES
  alice,           \* where Alice.run stands
  eMax,            \* Charlie's tolerance, announced with the QKD requests
  toEnd,           \* the peers Alice has yet to send END to
  key,             \* key[p]: whether p has a key shared with Alice
  bad,             \* bad[p]: the blocks of it that differ from Alice's
  empty,           \* the peers whose key has no bits, whatever Alice's has
  Bob_indices,     \* Charlie's data: Bob's blocks he received
  Charlie_indices, \* Bob's data: Charlie's blocks he received
  sent,            \* sent[p]: the half p drew to send
  qkdBob,          \* Bob's task for the QKD request, which goes on to the key transfer
  sigBob,          \* Bob's task for the SIGNATURES request
  transfer,        \* the KEY_TRANSFER connection, Bob to Charlie
  signed,          \* the SIGNATURES connection, Alice to Bob
  forwarded,       \* the SIGNATURES connection, Bob to Charlie
  ended,           \* ended[p]: the END connection, Alice to p
  done,            \* done[p]: all_connections_done is set
  server           \* server[p]: "up", "closed" to new connections, or "down"

aliceVars == <<alice, eMax, toEnd>>
keyVars == <<key, bad, empty>>
halfVars == <<Bob_indices, Charlie_indices, sent>>
taskVars == <<qkdBob, sigBob>>
connVars == <<transfer, signed, forwarded, ended>>
serverVars == <<done, server>>
vars == <<aliceVars, keyVars, halfVars, taskVars, connVars, serverVars>>

\* A connection: not opened, request sent, answered (with a verdict), or closed by a
\* task that ended with an exception.
Verdicts == {"success", "failure"}
Conn == {"none", "sent", "closed"}

TypeOK ==
  /\ alice \in {"start", "qkdCharlie", "qkdBob", "sign", "wait", "end", "aborted", "done", "crashed"}
  /\ eMax \in EMax
  /\ toEnd \subseteq Peer
  /\ key \in [Peer -> BOOLEAN]
  /\ bad \in [Peer -> SUBSET Block]
  /\ empty \subseteq Peer
  /\ Bob_indices \in HalfReceived /\ Charlie_indices \in HalfReceived
  /\ sent \in [Peer -> SUBSET Block]
  /\ qkdBob \in {"none", "connect", "wait", "over", "dead"}
  /\ sigBob \in {"none", "forward", "wait", "over", "dead"}
  /\ transfer \in Conn \cup {"answered"}
  /\ signed \in Conn \cup Verdicts
  /\ forwarded \in Conn \cup Verdicts
  /\ ended \in [Peer -> {"none", "sent", "over"}]
  /\ done \in [Peer -> BOOLEAN]
  /\ server \in [Peer -> {"up", "closed", "down"}]

Init ==
  /\ alice = "start"
  /\ eMax \in EMax
  /\ toEnd = {}
  /\ key = [p \in Peer |-> FALSE]
  /\ bad = [p \in Peer |-> {}]
  /\ empty = {}
  /\ Bob_indices = NotReceived /\ Charlie_indices = NotReceived
  /\ sent = [p \in Peer |-> {}]
  /\ qkdBob = "none" /\ sigBob = "none"
  /\ transfer = "none" /\ signed = "none" /\ forwarded = "none"
  /\ ended = [p \in Peer |-> "none"]
  /\ done = [p \in Peer |-> FALSE]
  /\ server = [p \in Peer |-> "up"]

-----------------------------------------------------------------------------
(* Alice.                                                                  *)

\* Abort and notify both parties.
OnlyCharlie == alice' = "end" /\ toEnd' = {"Charlie"}
Notify == alice' = "end" /\ toEnd' = Peer

CheckEMax ==
  /\ alice = "start"
  /\ IF eMax < 0 \/ 2 * eMax > n THEN Notify ELSE alice' = "qkdCharlie" /\ UNCHANGED toEnd
  /\ UNCHANGED <<eMax, keyVars, halfVars, taskVars, connVars, serverVars>>

\* Charlie first, then Bob.
KeyWith(p) == alice = IF p = "Charlie" THEN "qkdCharlie" ELSE "qkdBob"
AfterKey(p) == IF p = "Charlie" THEN "qkdBob" ELSE "sign"

\* run_QKD with p leaves both with a key, up to bad blocks, long enough or not, or p with
\* the empty one (QKD!EmptyKey); Bob's task then turns to the key transfer.
Exchange(p) ==
  /\ KeyWith(p)
  /\ \/ \E B \in SUBSET Block : bad' = [bad EXCEPT ![p] = B] /\ UNCHANGED empty
     \/ empty' = empty \cup {p} /\ UNCHANGED bad
  /\ key' = [key EXCEPT ![p] = TRUE]
  /\ \/ alice' = AfterKey(p) /\ UNCHANGED toEnd
     \/ Notify
  /\ qkdBob' = IF p = "Bob" THEN "connect" ELSE qkdBob
  /\ UNCHANGED <<eMax, halfVars, sigBob, connVars, serverVars>>

\* run_QKD leaves p with nothing, and its task ends on an exception: key[:10] of
\* None, or one raised in the exchange.  Alice has nothing either and returns, or her
\* side was complete and she goes on.
ExchangeFails(p) ==
  /\ KeyWith(p)
  /\ alice' \in {"aborted", AfterKey(p)}
  /\ qkdBob' = IF p = "Bob" THEN "dead" ELSE qkdBob
  /\ UNCHANGED <<eMax, toEnd, keyVars, halfVars, sigBob, connVars, serverVars>>

\* send_END to both at once; a refused connection is only logged.
SendEND(p) ==
  /\ alice = "end"
  /\ p \in toEnd
  /\ toEnd' = toEnd \ {p}
  /\ ended' = IF server[p] = "up" THEN [ended EXCEPT ![p] = "sent"] ELSE ended
  /\ alice' = IF toEnd = {p} THEN "aborted" ELSE alice
  /\ UNCHANGED <<eMax, keyVars, halfVars, taskVars, transfer, signed, forwarded, serverVars>>

Sign ==
  /\ alice = "sign"
  /\ signed' = "sent"
  /\ alice' = "wait"
  /\ UNCHANGED <<eMax, toEnd, keyVars, halfVars, taskVars, transfer, forwarded, ended, serverVars>>

Response ==
  /\ alice = "wait"
  /\ signed \in Verdicts \cup {"closed"}
  /\ alice' = IF signed = "closed" THEN "crashed" ELSE "done"
  /\ UNCHANGED <<eMax, toEnd, keyVars, halfVars, taskVars, connVars, serverVars>>

-----------------------------------------------------------------------------
(* The key transfer.                                                       *)

TransferRequest ==
  /\ qkdBob = "connect"
  /\ IF server["Charlie"] = "up"
     THEN /\ \E H \in Halves : sent' = [sent EXCEPT !["Bob"] = H]
          /\ transfer' = "sent"
          /\ qkdBob' = "wait"
     ELSE /\ qkdBob' = "dead"
          /\ UNCHANGED <<sent, transfer>>
  /\ UNCHANGED <<aliceVars, keyVars, Bob_indices, Charlie_indices, sigBob, signed, forwarded,
                 ended, serverVars>>

\* Charlie stores Bob's half, then cuts his own key, if he has one.
CharlieTransfer ==
  /\ transfer = "sent"
  /\ Bob_indices' = Received(sent["Bob"])
  /\ IF key["Charlie"]
     THEN /\ \E H \in Halves : sent' = [sent EXCEPT !["Charlie"] = H]
          /\ transfer' = "answered"
     ELSE transfer' = "closed" /\ UNCHANGED sent
  /\ UNCHANGED <<aliceVars, keyVars, Charlie_indices, taskVars, signed, forwarded, ended, serverVars>>

TransferResponse ==
  /\ qkdBob = "wait"
  /\ transfer \in {"answered", "closed"}
  /\ IF transfer = "answered"
     THEN Charlie_indices' = Received(sent["Charlie"]) /\ qkdBob' = "over"
     ELSE qkdBob' = "dead" /\ UNCHANGED Charlie_indices
  /\ UNCHANGED <<aliceVars, keyVars, Bob_indices, sent, sigBob, connVars, serverVars>>

-----------------------------------------------------------------------------
(* Verification.                                                           *)

\* What a verifier finds wrong: in his own blocks, and in those he received.
BobErrors == bad["Bob"] \cup (bad["Charlie"] \cap Charlie_indices.blocks)
CharlieErrors ==
  Cardinality(bad["Charlie"]) + Cardinality(bad["Bob"] \cap Bob_indices.blocks)

\* Without a key, with no block received to stack under his own, or with empty blocks on
\* either side, the sifting or the first verification raises.
OwnKeyEnough(p, received) == key[p]
CanSift(p, received) == key[p] /\ received /\ empty = {}

BobVerification ==
  /\ signed = "sent" /\ sigBob = "none"
  /\ IF ~CanSift("Bob", Charlie_indices.received)
     THEN signed' = "closed" /\ sigBob' = "dead" /\ UNCHANGED done
     ELSE IF BobErrors # {}
     THEN signed' = "failure" /\ sigBob' = "over" /\ done' = [done EXCEPT !["Bob"] = TRUE]
     ELSE signed' = "success" /\ sigBob' = "forward" /\ UNCHANGED done
  /\ UNCHANGED <<aliceVars, keyVars, halfVars, qkdBob, transfer, forwarded, ended, server>>

Forward ==
  /\ sigBob = "forward"
  /\ IF server["Charlie"] = "up" THEN forwarded' = "sent" /\ sigBob' = "wait"
     ELSE sigBob' = "dead" /\ UNCHANGED forwarded
  /\ UNCHANGED <<aliceVars, keyVars, halfVars, qkdBob, transfer, signed, ended, serverVars>>

ZeroTolerance(e) == e > 0
Rejects(e) == e > eMax

CharlieVerification ==
  /\ forwarded = "sent"
  /\ IF ~CanSift("Charlie", Bob_indices.received)
     THEN forwarded' = "closed" /\ UNCHANGED done
     ELSE /\ forwarded' = IF Rejects(CharlieErrors) THEN "failure" ELSE "success"
          /\ done' = [done EXCEPT !["Charlie"] = TRUE]
  /\ UNCHANGED <<aliceVars, keyVars, halfVars, taskVars, transfer, signed, ended, server>>

\* The end of the SIGNATURES task after Charlie has answered.
LeaveOpen == sigBob' = "over" /\ UNCHANGED done
AllDone == sigBob' = "over" /\ done' = [done EXCEPT !["Bob"] = TRUE]

ForwardResponse ==
  /\ sigBob = "wait"
  /\ forwarded \in Verdicts \cup {"closed"}
  /\ IF forwarded = "closed" THEN sigBob' = "dead" /\ UNCHANGED done
     ELSE AllDone
  /\ UNCHANGED <<aliceVars, keyVars, halfVars, qkdBob, connVars, server>>

-----------------------------------------------------------------------------
(* The servers.                                                            *)

HandleEND(p) ==
  /\ ended[p] = "sent"
  /\ ended' = [ended EXCEPT ![p] = "over"]
  /\ done' = [done EXCEPT ![p] = TRUE]
  /\ UNCHANGED <<aliceVars, keyVars, halfVars, taskVars, transfer, signed, forwarded, server>>

\* run() wakes up and closes the listening socket...
Close(p) ==
  /\ done[p] /\ server[p] = "up"
  /\ server' = [server EXCEPT ![p] = "closed"]
  /\ UNCHANGED <<aliceVars, keyVars, halfVars, taskVars, connVars, done>>

\* ...then waits for the connections that were accepted.
Serving(p) ==
  \/ ended[p] = "sent"
  \/ p = "Bob" /\ (signed = "sent" \/ qkdBob \in {"connect", "wait"} \/ sigBob \in {"forward", "wait"})
  \/ p = "Charlie" /\ (transfer = "sent" \/ forwarded = "sent")

Exit(p) ==
  /\ server[p] = "closed"
  /\ ~Serving(p)
  /\ server' = [server EXCEPT ![p] = "down"]
  /\ UNCHANGED <<aliceVars, keyVars, halfVars, taskVars, connVars, done>>

-----------------------------------------------------------------------------

AliceNext ==
  CheckEMax \/ Sign \/ Response \/ \E p \in Peer : Exchange(p) \/ ExchangeFails(p) \/ SendEND(p)
BobNext ==
  TransferRequest \/ TransferResponse \/ BobVerification \/ Forward \/ ForwardResponse
CharlieNext == CharlieTransfer \/ CharlieVerification
ServerNext(p) == HandleEND(p) \/ Close(p) \/ Exit(p)

Next == AliceNext \/ BobNext \/ CharlieNext \/ \E p \in Peer : ServerNext(p)

Spec == Init /\ [][Next]_vars

(* Alice runs on, and the event loops resume every task that can go on. *)
Fairness ==
  /\ WF_vars(AliceNext)
  /\ WF_vars(TransferRequest \/ TransferResponse)
  /\ WF_vars(BobVerification \/ Forward \/ ForwardResponse)
  /\ WF_vars(CharlieTransfer) /\ WF_vars(CharlieVerification)
  /\ \A p \in Peer : WF_vars(HandleEND(p)) /\ WF_vars(Close(p) \/ Exit(p))

FairSpec == Spec /\ Fairness

-----------------------------------------------------------------------------
(* Properties.                                                             *)

\* Bob only accepts, and so only forwards, when the key transfer is complete on both
\* sides and both keys have bits: Charlie never judges without his key or Bob's half,
\* whatever the order in which the tasks of the two servers ran.
AcceptedAfterTransfer ==
  signed = "success" =>
    /\ Charlie_indices = Received(sent["Charlie"]) /\ Bob_indices = Received(sent["Bob"])
    /\ key["Bob"] /\ key["Charlie"] /\ empty = {}

\* Non-repudiation as far as the data decides it: when Bob accepted and Charlie does
\* not, more than eMax blocks of Charlie's key are bad, all among those Bob was not sent.
RejectionNeedsHiddenErrors ==
  forwarded = "failure" =>
    /\ signed = "success"
    /\ bad["Charlie"] \cap sent["Charlie"] = {}
    /\ Cardinality(bad["Charlie"]) > eMax

\* "Bob therefore verifies 3n/2 signatures": when both keys are established, Bob holds
\* Charlie's half by the time he handles the signatures.
VerifiesCharliesHalf ==
  sigBob # "none" /\ (\A p \in Peer : key[p]) => Charlie_indices.received

AllDown == \A p \in Peer : server[p] = "down"

\* Once Bob has accepted, Charlie judges and both servers leave.
AcceptedIsJudged == signed = "success" ~> forwarded \in Verdicts /\ AllDown

\* An END that Alice decides to send makes both servers leave, even when Bob is in the
\* middle of the key transfer with a Charlie who is leaving.
EndEndsAll == alice = "end" ~> AllDown

-----------------------------------------------------------------------------
(* The inductive invariant behind the two safety properties.               *)

\* Once Bob's exchange is over, and before Alice signs, nothing changes the keys.
KeysFixed ==
  /\ qkdBob # "none" => alice \notin {"start", "qkdCharlie", "qkdBob"}
  /\ signed # "none" => alice \in {"wait", "done", "crashed"}

\* How far the key transfer is, on either side of its connection.
TransferSound ==
  /\ qkdBob \in {"connect", "wait", "over"} => key["Bob"]
  /\ transfer # "none" => qkdBob \in {"wait", "over", "dead"}
  /\ transfer = "sent" => qkdBob = "wait"
  /\ transfer = "answered" => Bob_indices = Received(sent["Bob"]) /\ key["Charlie"]
  /\ Charlie_indices.received =>
       qkdBob = "over" /\ transfer = "answered" /\ Charlie_indices = Received(sent["Charlie"])

\* What Bob's verdict says, and that only a "success" is forwarded.
VerdictSound ==
  /\ signed = "success" => Charlie_indices.received /\ BobErrors = {}
  /\ signed \in {"none", "sent"} => sigBob = "none"
  /\ sigBob \in {"forward", "wait"} => signed = "success"
  /\ forwarded # "none" => signed = "success"

SignatureSound ==
  KeysFixed /\ TransferSound /\ VerdictSound /\ AcceptedAfterTransfer /\ RejectionNeedsHiddenErrors
=============================================================================
