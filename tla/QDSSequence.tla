----------------------------- MODULE QDSSequence -----------------------------
(***************************************************************************)
(* The sequence-based digital signature: one signature under the XOR of    *)
(* the two keys Alice shares with Bob and with Charlie.  Bob and Charlie   *)
(* are servers that start one handler task per connection; they exchange   *)
(* their keys when the signature is there, and each verifies under the     *)
(* XOR of his own key and the one he received.                             *)
(*                                                                         *)
(* A key is the set of positions in which it differs from Alice's, so the  *)
(* XOR of two keys is the symmetric difference, and a signature verifies   *)
(* when that is empty: hash collisions are left out.  So is the END        *)
(* branch of the two servers: no one sends END here.                       *)
(***************************************************************************)
EXTENDS Integers, FiniteSets

CONSTANT Position   \* the first 3 * bH positions of a key

ASSUME PositionAssumption == Position \subseteq Nat \ {0}

Peer == {"Bob", "Charlie"}
Key == SUBSET Position
None == {0}    \* not a key
Empty == {-1}  \* the key without bits (QKD!EmptyKey): no XOR of it and another is defined

\* A verdict travels as 1 or 0; NoResult is what stands in self.result before.
NoResult == -1

VARIABLES
  alice,       \* where Alice.run stands
  peer,        \* peer[p]: the QKD task of p
  key,         \* key[p]: self.key of p
  sigBob,      \* Bob's task for the SIGNATURES request
  Bob_key,     \* the key in Bob's FORWARDING request, then Charlie's data
  Charlie_key, \* the key in Charlie's response, then Bob's data
  signed,      \* the SIGNATURES connection, Alice to Bob
  forwarded,   \* the FORWARDING connection, Bob to Charlie, and Charlie's task for it
  reported,    \* the RESULT connection, Bob to Charlie
  report,      \* the verdict Bob sends on it
  result,      \* self.result of Charlie
  response,    \* what Charlie answers on it
  server       \* server[p]: "up", "done" once all_connections_done is set, or "down"

keyVars == <<peer, key>>
sharedVars == <<Bob_key, Charlie_key>>
connVars == <<signed, forwarded, reported>>
resultVars == <<report, result, response>>
vars == <<alice, keyVars, sigBob, sharedVars, connVars, resultVars, server>>

Verdicts == {"success", "failure"}

\* The values each variable takes.
TypeOK ==
  /\ alice \in {"qkdCharlie", "qkdBob", "sign", "wait", "aborted", "done", "crashed"}
  /\ peer \in [Peer -> {"idle", "open", "over", "dead"}]
  /\ key \in [Peer -> Key \cup {None, Empty}]
  /\ sigBob \in {"none", "wait", "result", "over", "dead"}
  /\ {Bob_key, Charlie_key} \subseteq Key \cup {None, Empty}
  /\ signed \in {"none", "sent", "closed"} \cup Verdicts
  /\ forwarded \in {"none", "sent", "answered", "over"}
  /\ reported \in {"none", "sent", "answered"}
  /\ {report, result, response} \subseteq {NoResult, 0, 1}
  /\ server \in [Peer -> {"up", "done", "down"}]

Init ==
  /\ alice = "qkdCharlie"
  /\ peer = [p \in Peer |-> IF p = "Charlie" THEN "open" ELSE "idle"]
  /\ key = [p \in Peer |-> None]
  /\ sigBob = "none"
  /\ Bob_key = None /\ Charlie_key = None
  /\ signed = "none" /\ forwarded = "none" /\ reported = "none"
  /\ report = NoResult /\ result = NoResult /\ response = NoResult
  /\ server = [p \in Peer |-> "up"]

-----------------------------------------------------------------------------
(* The key exchanges: what KeyAgreement lets either side see.              *)

KeyWith(p) == alice = IF p = "Charlie" THEN "qkdCharlie" ELSE "qkdBob"

\* Alice has a key, and turns to Bob or to the signature...
AliceKey(p) ==
  /\ KeyWith(p)
  /\ IF p = "Charlie"
     THEN alice' = "qkdBob" /\ peer' = [peer EXCEPT !["Bob"] = "open"]
     ELSE alice' = "sign" /\ UNCHANGED peer
  /\ UNCHANGED <<key, sigBob, sharedVars, connVars, resultVars, server>>

\* ...or it is too short: she reads self.confidence, which no one assigned, and the
\* exception ends her before she calls send_END, which does not exist.
KeyTooShort(p) ==
  /\ KeyWith(p)
  /\ alice' = "crashed"
  /\ UNCHANGED <<keyVars, sigBob, sharedVars, connVars, resultVars, server>>

\* She has none, and then p has none and never will.
AliceNone(p) ==
  /\ KeyWith(p)
  /\ key[p] = None
  /\ alice' = "aborted"
  /\ peer' = [peer EXCEPT ![p] = "dead"]
  /\ UNCHANGED <<key, sigBob, sharedVars, connVars, resultVars, server>>

\* run_protocol of p returns, before or after Alice's.
PeerKey(p) ==
  /\ peer[p] = "open"
  /\ peer' = [peer EXCEPT ![p] = "over"]
  /\ \E k \in Key \cup {Empty} : key' = [key EXCEPT ![p] = k]
  /\ UNCHANGED <<alice, sigBob, sharedVars, connVars, resultVars, server>>

\* It raises, or returns None, of which key[:10] raises.
PeerNone(p) ==
  /\ peer[p] = "open"
  /\ peer' = [peer EXCEPT ![p] = "dead"]
  /\ UNCHANGED <<alice, key, sigBob, sharedVars, connVars, resultVars, server>>

-----------------------------------------------------------------------------
(* Signature and verification.                                             *)

Sign ==
  /\ alice = "sign"
  /\ alice' = "wait"
  /\ signed' = "sent"
  /\ UNCHANGED <<keyVars, sigBob, sharedVars, forwarded, reported, resultVars, server>>

\* A stream that ends without an answer raises.
Response ==
  /\ alice = "wait"
  /\ signed \in Verdicts \cup {"closed"}
  /\ alice' = IF signed = "closed" THEN "crashed" ELSE "done"
  /\ UNCHANGED <<keyVars, sigBob, sharedVars, connVars, resultVars, server>>

\* Bob puts his key, as it stands, into the request to Charlie, whose server is up: only a
\* RESULT makes it leave.
HandleSignatures ==
  /\ signed = "sent" /\ sigBob = "none"
  /\ Bob_key' = key["Bob"]
  /\ forwarded' = "sent"
  /\ sigBob' = "wait"
  /\ UNCHANGED <<alice, keyVars, Charlie_key, signed, reported, resultVars, server>>

\* Charlie answers with his key, as it stands...
KeyTransfer ==
  /\ forwarded = "sent"
  /\ forwarded' = "answered"
  /\ Charlie_key' = key["Charlie"]
  /\ UNCHANGED <<alice, keyVars, sigBob, Bob_key, signed, reported, resultVars, server>>

\* The errors of the XOR of two keys.
OwnErrors(own, other) == own
CombinedErrors(own, other) == (own \ other) \cup (other \ own)

CountedErrors(errors) == Cardinality(errors)
Judgement(errors) == IF errors = {} THEN 1 ELSE 0

CharlieUncombined == Judgement(OwnErrors(key["Charlie"], Bob_key))
CharlieVerdict == Judgement(CombinedErrors(key["Charlie"], Bob_key))
BobUncombined == Judgement(OwnErrors(key["Bob"], Charlie_key))
BobVerdict == Judgement(CombinedErrors(key["Bob"], Charlie_key))

\* ...and verifies under his key as it stands now; a missing or
\* empty key raises and leaves no result.
CharlieVerification ==
  /\ forwarded = "answered"
  /\ forwarded' = "over"
  /\ result' = IF {key["Charlie"], Bob_key} \subseteq Key THEN CharlieVerdict ELSE result
  /\ UNCHANGED <<alice, keyVars, sigBob, sharedVars, signed, reported, report, response, server>>

\* Bob verifies under his key as it stands now and tells Alice and Charlie; a missing or
\* empty key raises and closes the connection.
BobVerification ==
  /\ sigBob = "wait" /\ forwarded \in {"answered", "over"}
  /\ IF {key["Bob"], Charlie_key} \subseteq Key
     THEN /\ report' = BobVerdict
          /\ signed' = IF BobVerdict = 1 THEN "success" ELSE "failure"
          /\ reported' = "sent"
          /\ sigBob' = "result"
     ELSE sigBob' = "dead" /\ signed' = "closed" /\ UNCHANGED <<report, reported>>
  /\ UNCHANGED <<alice, keyVars, sharedVars, forwarded, result, response, server>>

LeaveOpen == UNCHANGED server
CharlieDone == server' = [server EXCEPT !["Charlie"] = "done"]

\* Charlie answers with his own result, whatever Bob's is, and is done.  His event loop has
\* resumed the verification by then: the RESULT comes on a connection Bob opens after he
\* has read the answer after which Charlie waits only for the socket to close.
CharlieResult ==
  /\ reported = "sent" /\ forwarded = "over"
  /\ reported' = "answered"
  /\ response' = result
  /\ CharlieDone
  /\ UNCHANGED <<alice, keyVars, sigBob, sharedVars, signed, forwarded, report, result>>

BobDone ==
  /\ sigBob = "result" /\ reported = "answered"
  /\ sigBob' = "over"
  /\ server' = [server EXCEPT !["Bob"] = "done"]
  /\ UNCHANGED <<alice, keyVars, sharedVars, connVars, resultVars>>

\* close and wait_closed: no one connects any more, and only an open exchange could hold
\* the server.
Leave(p) ==
  /\ server[p] = "done" /\ peer[p] # "open"
  /\ server' = [server EXCEPT ![p] = "down"]
  /\ UNCHANGED <<alice, keyVars, sigBob, sharedVars, connVars, resultVars>>

-----------------------------------------------------------------------------

AliceNext ==
  Sign \/ Response \/ \E p \in Peer : AliceKey(p) \/ KeyTooShort(p) \/ AliceNone(p)
BobNext == HandleSignatures \/ BobVerification \/ BobDone
CharlieNext == KeyTransfer \/ CharlieVerification \/ CharlieResult
PeerNext(p) == PeerKey(p) \/ PeerNone(p) \/ Leave(p)

Next == AliceNext \/ BobNext \/ CharlieNext \/ \E p \in Peer : PeerNext(p)

Spec == Init /\ [][Next]_vars

(* The event loops resume every task that can go on; nothing is assumed of *)
(* Alice or of the exchanges.                                              *)
Fairness ==
  WF_vars(BobNext) /\ WF_vars(CharlieNext) /\ \A p \in Peer : WF_vars(Leave(p))

FairSpec == Spec /\ Fairness

-----------------------------------------------------------------------------
(* Properties.                                                             *)

\* The two verdicts, where both exist, are the same: whatever errors the keys hold, and
\* however late either exchange ended, neither verifier can be held against the other.
VerdictsAgree == report # NoResult /\ result # NoResult => report = result

\* Charlie accepts only if his verification succeeds and Bob has reported success, although
\* the RESULT handler answers with Charlie's own result alone.
AcceptsWithBob == response = 1 => report = 1

\* Once Charlie has answered, a success that Alice was told is one he confirmed, unless
\* Bob's key came too late for the request Bob had already forwarded.
SuccessIsShared ==
  reported = "answered" /\ signed = "success" /\ Bob_key # None => response = 1

AllDown == \A p \in Peer : server[p] = "down"

\* Whatever the verdict, once there is one both servers leave: Charlie, too, is told of a
\* rejection.
VerdictEndsAll == signed \in Verdicts ~> AllDown
=============================================================================
