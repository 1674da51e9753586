-------------------------- MODULE QDSSequenceProofs --------------------------
(***************************************************************************)
(* Type correctness of QDSSequence and agreement of the two verdicts, for  *)
(* every length of the keys.  The argument: a key, once there, stays, so   *)
(* the one forwarded and the one received are those that both verify       *)
(* under, and the XOR does not depend on whose key comes first.            *)
(***************************************************************************)
EXTENDS QDSSequence, TLAPS

USE DEF Peer, Verdicts, NoResult

LEMMA TypeInit == Init => TypeOK
  BY DEF Init, TypeOK

\* An update within the range.
LEMMA UpdateType ==
  ASSUME NEW S, NEW T, NEW f \in [S -> T], NEW x, NEW v \in T
  PROVE  [f EXCEPT ![x] = v] \in [S -> T]
  OBVIOUS

\* Position 0 and below are in no key.
LEMMA NoKeys == None \notin Key /\ Empty \notin Key /\ None # Empty
  BY PositionAssumption DEF None, Empty, Key

LEMMA VerdictType == BobVerdict \in {0, 1} /\ CharlieVerdict \in {0, 1}
  BY DEF BobVerdict, CharlieVerdict, Judgement

-----------------------------------------------------------------------------
(* Every step preserves the types.                                         *)

LEMMA TypeExchange ==
  ASSUME TypeOK, NEW p \in Peer,
         AliceKey(p) \/ KeyTooShort(p) \/ AliceNone(p) \/ PeerKey(p) \/ PeerNone(p)
  PROVE  TypeOK'
  <1>1. UNCHANGED <<sigBob, sharedVars, connVars, resultVars, server>>
    BY DEF AliceKey, KeyTooShort, AliceNone, PeerKey, PeerNone
  <1>2. alice' \in {alice, "qkdBob", "sign", "crashed", "aborted"}
    BY DEF AliceKey, KeyTooShort, AliceNone, PeerKey, PeerNone
  <1>3. peer' \in [Peer -> {"idle", "open", "over", "dead"}]
    BY UpdateType DEF AliceKey, KeyTooShort, AliceNone, PeerKey, PeerNone, TypeOK, keyVars
  <1>4. key' \in [Peer -> Key \cup {None, Empty}]
    <2>1. CASE PeerKey(p)
      BY <2>1, UpdateType DEF PeerKey, TypeOK
    <2> QED
      BY <2>1 DEF AliceKey, KeyTooShort, AliceNone, PeerNone, TypeOK, keyVars
  <1> QED
    BY <1>1, <1>2, <1>3, <1>4 DEF TypeOK, sharedVars, connVars, resultVars

LEMMA TypeVerdict ==
  ASSUME TypeOK, CharlieVerification \/ BobVerification
  PROVE  TypeOK'
  <1>1. CASE CharlieVerification
    <2>1. result' \in {NoResult, 0, 1}
      BY <1>1, VerdictType DEF CharlieVerification, TypeOK
    <2> QED
      BY <1>1, <2>1 DEF CharlieVerification, TypeOK, keyVars, sharedVars
  <1>2. CASE BobVerification
    <2>1. report' \in {NoResult, 0, 1}
      BY <1>2, VerdictType DEF BobVerification, TypeOK
    <2>2. signed' \in {"closed", "success", "failure"} /\ sigBob' \in {"dead", "result"}
          /\ reported' \in {reported, "sent"}
      BY <1>2, Zenon DEF BobVerification
    <2>3. UNCHANGED <<alice, keyVars, sharedVars, forwarded, result, response, server>>
      BY <1>2 DEF BobVerification
    <2> QED
      BY <2>1, <2>2, <2>3 DEF TypeOK, keyVars, sharedVars
  <1> QED
    BY <1>1, <1>2

LEMMA TypeServer ==
  ASSUME TypeOK, CharlieResult \/ BobDone \/ \E p \in Peer : Leave(p)
  PROVE  TypeOK'
  <1>1. server' \in [Peer -> {"up", "done", "down"}]
    BY UpdateType DEF CharlieResult, CharlieDone, BobDone, Leave, TypeOK
  <1>2. UNCHANGED <<alice, keyVars, sharedVars, signed, forwarded, report, result>>
    BY DEF CharlieResult, BobDone, Leave, connVars, resultVars
  <1>3. sigBob' \in {sigBob, "over"} /\ reported' \in {reported, "answered"}
        /\ response' \in {response, result}
    BY DEF CharlieResult, BobDone, Leave, connVars, resultVars
  <1> QED
    BY <1>1, <1>2, <1>3 DEF TypeOK, keyVars, sharedVars

LEMMA TypeStep == TypeOK /\ [Next]_vars => TypeOK'
  <1> SUFFICES ASSUME TypeOK, [Next]_vars PROVE TypeOK'
    OBVIOUS
  <1>1. CASE UNCHANGED vars
    BY <1>1 DEF TypeOK, vars, keyVars, sharedVars, connVars, resultVars
  <1>2. CASE Sign \/ Response
    BY <1>2 DEF Sign, Response, TypeOK, keyVars, sharedVars, connVars, resultVars
  <1>3. CASE HandleSignatures \/ KeyTransfer
    BY <1>3 DEF HandleSignatures, KeyTransfer, TypeOK, keyVars, resultVars
  <1> QED
    BY <1>1, <1>2, <1>3, TypeExchange, TypeVerdict, TypeServer
       DEF Next, AliceNext, BobNext, CharlieNext, PeerNext

\* Every variable keeps its type, for keys of every length.
THEOREM TypeCorrect == Spec => []TypeOK
  BY TypeInit, TypeStep, PTL DEF Spec

-----------------------------------------------------------------------------
(* The inductive invariant.                                                *)

\* A key is there only when the exchange is over; Bob's follows Charlie's, and the
\* signature follows both.
KeysStay ==
  /\ \A p \in Peer : key[p] # None => peer[p] = "over"
  /\ alice = "qkdCharlie" => peer["Bob"] = "idle"
  /\ alice \in {"qkdCharlie", "qkdBob", "sign"} => signed = "none"

\* What Bob and Charlie hold of each other's keys.
KeysShared ==
  /\ Bob_key \in {None, key["Bob"]} /\ Charlie_key \in {None, key["Charlie"]}
  /\ signed = "none" => sigBob = "none"
  /\ sigBob = "none" => forwarded = "none"
  /\ forwarded \in {"none", "sent"} => Charlie_key = None
  /\ forwarded \in {"none", "sent", "answered"} => result = NoResult
  /\ sigBob \in {"none", "wait"} => report = NoResult /\ reported = "none"

\* Each verdict is the judgement of the two keys.
VerdictsSound ==
  /\ result # NoResult =>
       {key["Charlie"], Bob_key} \subseteq Key /\ result = CharlieVerdict
  /\ report # NoResult =>
       /\ {key["Bob"], Charlie_key} \subseteq Key /\ report = BobVerdict
       /\ signed = IF report = 1 THEN "success" ELSE "failure"
  /\ forwarded = "over" /\ {Bob_key, Charlie_key} \subseteq Key => result # NoResult

\* Charlie answers with his result, after Bob's verdict.
ResponseSound ==
  /\ signed \in Verdicts \/ reported # "none" => report # NoResult
  /\ reported # "answered" => response = NoResult
  /\ reported = "answered" => forwarded = "over" /\ response = result

SequenceSound == KeysStay /\ KeysShared /\ VerdictsSound /\ ResponseSound

LEMMA SoundInit == Init => SequenceSound
  BY DEF Init, SequenceSound, KeysStay, KeysShared, VerdictsSound, ResponseSound

-----------------------------------------------------------------------------
(* SequenceSound is inductive.                                             *)

\* An exchange changes a key only from None, where no verdict rests on it.
LEMMA SoundExchange ==
  ASSUME TypeOK, SequenceSound, NEW p \in Peer,
         AliceKey(p) \/ KeyTooShort(p) \/ AliceNone(p) \/ PeerKey(p) \/ PeerNone(p)
  PROVE  SequenceSound'
  <1>1. UNCHANGED <<sigBob, sharedVars, connVars, resultVars, server>>
    BY DEF AliceKey, KeyTooShort, AliceNone, PeerKey, PeerNone
  <1>2. \A q \in Peer : key[q] # None => key'[q] = key[q]
    <2>1. CASE PeerKey(p)
      BY <2>1 DEF PeerKey, SequenceSound, KeysStay, TypeOK, connVars
    <2> QED
      BY <2>1 DEF AliceKey, KeyTooShort, AliceNone, PeerNone, keyVars
  <1>3. KeysStay'
    <2>1. CASE AliceKey(p)
      BY <2>1 DEF AliceKey, KeyWith, SequenceSound, KeysStay, TypeOK, connVars
    <2>2. CASE KeyTooShort(p)
      BY <2>2 DEF KeyTooShort, SequenceSound, KeysStay, keyVars, connVars
    <2>3. CASE AliceNone(p)
      BY <2>3 DEF AliceNone, SequenceSound, KeysStay, TypeOK, connVars
    <2>4. CASE PeerNone(p)
      BY <2>4 DEF PeerNone, SequenceSound, KeysStay, TypeOK, connVars
    <2>5. CASE PeerKey(p)
      BY <2>5 DEF PeerKey, SequenceSound, KeysStay, TypeOK, connVars
    <2> QED
      BY <2>1, <2>2, <2>3, <2>4, <2>5
  <1>4. KeysShared'
    BY <1>1, <1>2 DEF SequenceSound, KeysShared, sharedVars, connVars, resultVars
  <1>5. VerdictsSound' /\ ResponseSound'
    <2>1. result # NoResult => key'["Charlie"] = key["Charlie"]
      BY <1>2, NoKeys DEF SequenceSound, VerdictsSound
    <2>2. report # NoResult => key'["Bob"] = key["Bob"]
      BY <1>2, NoKeys DEF SequenceSound, VerdictsSound
    <2> QED
      BY <1>1, <2>1, <2>2
      DEF SequenceSound, VerdictsSound, ResponseSound, BobVerdict, CharlieVerdict, sharedVars,
        connVars, resultVars
  <1> QED
    BY <1>3, <1>4, <1>5 DEF SequenceSound

\* What leaves keys and verdicts alone.
LEMMA SoundVerdicts ==
  ASSUME VerdictsSound, UNCHANGED <<keyVars, sharedVars, forwarded, report, result, signed>>
  PROVE  VerdictsSound'
  <1>1. UNCHANGED <<BobVerdict, CharlieVerdict>>
    BY DEF BobVerdict, CharlieVerdict, keyVars, sharedVars
  <1> QED
    BY <1>1 DEF VerdictsSound, keyVars, sharedVars

LEMMA SoundAlice ==
  ASSUME TypeOK, SequenceSound, Sign \/ Response
  PROVE  SequenceSound'
  <1>1. CASE Sign
    BY <1>1 DEF Sign, SequenceSound, KeysStay, KeysShared, VerdictsSound, ResponseSound,
                BobVerdict, CharlieVerdict, keyVars, sharedVars, resultVars
  <1>2. CASE Response
    BY <1>2 DEF Response, SequenceSound, KeysStay, KeysShared, VerdictsSound, ResponseSound,
                BobVerdict, CharlieVerdict, keyVars, sharedVars, connVars, resultVars
  <1> QED
    BY <1>1, <1>2

LEMMA SoundTransfer ==
  ASSUME TypeOK, SequenceSound, HandleSignatures \/ KeyTransfer
  PROVE  SequenceSound'
  <1>1. CASE HandleSignatures
    BY <1>1 DEF HandleSignatures, SequenceSound, KeysStay, KeysShared, VerdictsSound,
                ResponseSound, keyVars, resultVars
  <1>2. CASE KeyTransfer
    <2>1. result = NoResult /\ Charlie_key = None
      BY <1>2 DEF KeyTransfer, SequenceSound, KeysShared
    <2>2. report = NoResult
      BY <2>1, NoKeys DEF SequenceSound, VerdictsSound
    <2> QED
      BY <1>2, <2>1, <2>2 DEF KeyTransfer, SequenceSound, KeysStay, KeysShared, VerdictsSound,
                              ResponseSound, keyVars, resultVars
  <1> QED
    BY <1>1, <1>2

LEMMA SoundCharlieVerification ==
  ASSUME TypeOK, SequenceSound, CharlieVerification
  PROVE  SequenceSound'
  <1>1. UNCHANGED <<alice, keyVars, sigBob, sharedVars, signed, reported, report, response, server>>
        /\ forwarded = "answered" /\ forwarded' = "over"
    BY DEF CharlieVerification
  <1>2. result = NoResult
    BY <1>1 DEF SequenceSound, KeysShared
  <1>3. UNCHANGED <<BobVerdict, CharlieVerdict>>
    BY <1>1 DEF BobVerdict, CharlieVerdict, keyVars, sharedVars
  <1>4. VerdictsSound'
    BY <1>1, <1>2, <1>3, VerdictType, NoKeys
       DEF CharlieVerification, SequenceSound, KeysShared, VerdictsSound, keyVars, sharedVars
  <1> QED
    BY <1>1, <1>2, <1>4
       DEF SequenceSound, KeysStay, KeysShared, ResponseSound, keyVars, sharedVars

LEMMA SoundBobVerification ==
  ASSUME TypeOK, SequenceSound, BobVerification
  PROVE  SequenceSound'
  <1>1. UNCHANGED <<alice, keyVars, sharedVars, forwarded, result, response, server>>
        /\ sigBob = "wait" /\ sigBob' \in {"dead", "result"}
    BY Zenon DEF BobVerification
  <1>2. report = NoResult /\ reported = "none"
    BY <1>1 DEF SequenceSound, KeysShared
  <1>3. UNCHANGED <<BobVerdict, CharlieVerdict>>
    BY <1>1 DEF BobVerdict, CharlieVerdict, keyVars, sharedVars
  <1>4. VerdictsSound'
    BY <1>1, <1>2, <1>3, VerdictType
       DEF BobVerification, SequenceSound, VerdictsSound, keyVars, sharedVars
  <1>5. ResponseSound'
    BY <1>1, <1>2, VerdictType DEF BobVerification, SequenceSound, ResponseSound
  <1>6. signed # "none" /\ signed' # "none"
    BY <1>1 DEF BobVerification, SequenceSound, KeysShared
  <1> QED
    BY <1>1, <1>2, <1>4, <1>5, <1>6 DEF SequenceSound, KeysStay, KeysShared, keyVars, sharedVars

LEMMA SoundServer ==
  ASSUME TypeOK, SequenceSound, CharlieResult \/ BobDone \/ \E p \in Peer : Leave(p)
  PROVE  SequenceSound'
  <1>1. UNCHANGED <<alice, keyVars, sharedVars, signed, forwarded, report, result>>
    BY DEF CharlieResult, BobDone, Leave, connVars, resultVars
  <1>2. \/ reported = "sent" /\ forwarded = "over" /\ reported' = "answered" /\ response' = result
           /\ UNCHANGED sigBob
        \/ UNCHANGED <<reported, response, sigBob>>
        \/ UNCHANGED <<reported, response>> /\ sigBob = "result" /\ sigBob' = "over"
    BY DEF CharlieResult, BobDone, Leave, connVars, resultVars
  <1>3. VerdictsSound'
    BY <1>1, SoundVerdicts DEF SequenceSound
  <1> QED
    BY <1>1, <1>2, <1>3 DEF SequenceSound, KeysStay, KeysShared, ResponseSound, keyVars, sharedVars

LEMMA SoundStep == TypeOK /\ SequenceSound /\ [Next]_vars => SequenceSound'
  <1> SUFFICES ASSUME TypeOK, SequenceSound, [Next]_vars PROVE SequenceSound'
    OBVIOUS
  <1>1. CASE UNCHANGED vars
    BY <1>1, SoundVerdicts
       DEF vars, SequenceSound, KeysStay, KeysShared, ResponseSound,
           keyVars, sharedVars, connVars, resultVars
  <1> QED
    BY <1>1, SoundExchange, SoundAlice, SoundTransfer, SoundCharlieVerification,
       SoundBobVerification, SoundServer
       DEF Next, AliceNext, BobNext, CharlieNext, PeerNext

\* Keys, verdicts and answers fit together in every reachable state.
THEOREM SequenceCorrect == Spec => []SequenceSound
  <1>1. TypeOK /\ SequenceSound /\ [Next]_vars => SequenceSound'
    BY SoundStep
  <1> QED
    BY <1>1, SoundInit, TypeCorrect, PTL DEF Spec

-----------------------------------------------------------------------------
(* The properties.                                                         *)

\* Two verdicts under the same keys are the same: the XOR is symmetric.
LEMMA SameVerdict ==
  ASSUME SequenceSound, report # NoResult, result # NoResult
  PROVE  report = result
  <1>1. Bob_key = key["Bob"] /\ Charlie_key = key["Charlie"]
    BY NoKeys DEF SequenceSound, KeysShared, VerdictsSound
  <1>2. CombinedErrors(key["Bob"], Charlie_key) = CombinedErrors(key["Charlie"], Bob_key)
    BY <1>1 DEF CombinedErrors
  <1>3. BobVerdict = CharlieVerdict
    BY <1>2 DEF BobVerdict, CharlieVerdict
  <1> QED
    BY <1>3 DEF SequenceSound, VerdictsSound

\* Bob and Charlie never disagree, whatever errors their keys hold.
THEOREM Agreement == Spec => []VerdictsAgree
  <1>1. SequenceSound => VerdictsAgree
    BY SameVerdict DEF VerdictsAgree
  <1> QED
    BY <1>1, SequenceCorrect, PTL

\* Charlie accepts only after Bob has reported success.
THEOREM AcceptanceSafety == Spec => []AcceptsWithBob
  <1>1. ASSUME SequenceSound PROVE AcceptsWithBob
    <2>1. response = 1 => result = 1 /\ report # NoResult
      BY <1>1 DEF SequenceSound, ResponseSound
    <2> QED
      BY <1>1, <2>1, SameVerdict DEF AcceptsWithBob
  <1> QED
    BY <1>1, SequenceCorrect, PTL

\* A success that Alice was told is one Charlie confirmed, if Bob forwarded a key.
THEOREM SuccessSafety == Spec => []SuccessIsShared
  <1>1. ASSUME SequenceSound PROVE SuccessIsShared
    <2>1. SUFFICES ASSUME reported = "answered", signed = "success", Bob_key # None
                   PROVE  response = 1
      BY DEF SuccessIsShared
    <2>2. report # NoResult /\ forwarded = "over" /\ response = result
      BY <1>1, <2>1 DEF SequenceSound, ResponseSound
    <2>3. report = 1 /\ {key["Bob"], Charlie_key} \subseteq Key
      BY <1>1, <2>1, <2>2 DEF SequenceSound, VerdictsSound
    <2>4. result # NoResult
      BY <1>1, <2>1, <2>2, <2>3 DEF SequenceSound, KeysShared, VerdictsSound
    <2> QED
      BY <1>1, <2>2, <2>3, <2>4, SameVerdict
  <1> QED
    BY <1>1, SequenceCorrect, PTL
=============================================================================
