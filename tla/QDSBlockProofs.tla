--------------------------- MODULE QDSBlockProofs ---------------------------
(***************************************************************************)
(* Type correctness and the safety theorems of QDSBlock, for every number  *)
(* of blocks and every tolerance.  The argument: Bob's verdict is given    *)
(* while Alice waits, when nothing changes the keys any more, and after    *)
(* the transfer, when nothing changes the halves any more, so what held    *)
(* when Bob accepted still holds when Charlie judges.                      *)
(***************************************************************************)
EXTENDS QDSBlock, FiniteSetTheorems, TLAPS

USE DEF Peer, Block, Verdicts, Conn

LEMMA HalfType ==
  /\ NotReceived \in HalfReceived
  /\ \A H \in SUBSET Block : Received(H) \in HalfReceived
  BY DEF NotReceived, Received, HalfReceived

LEMMA HalvesType == Halves \subseteq SUBSET Block
  BY DEF Halves

LEMMA TypeInit == Init => TypeOK
  BY HalfType DEF Init, TypeOK

\* An update within the range.
LEMMA UpdateType ==
  ASSUME NEW S, NEW T, NEW f \in [S -> T], NEW x, NEW v \in T
  PROVE  [f EXCEPT ![x] = v] \in [S -> T]
  OBVIOUS

-----------------------------------------------------------------------------
(* Every step preserves the types.                                         *)

LEMMA TypeAlice == TypeOK /\ AliceNext => TypeOK'
  <1> SUFFICES ASSUME TypeOK, AliceNext PROVE TypeOK'
    OBVIOUS
  <1>1. CASE CheckEMax
    <2>1. alice' \in {"end", "qkdCharlie"} /\ toEnd' \subseteq Peer
      BY <1>1, Zenon DEF CheckEMax, Notify, TypeOK
    <2>2. UNCHANGED <<eMax, keyVars, halfVars, taskVars, connVars, serverVars>>
      BY <1>1 DEF CheckEMax
    <2> QED
      BY <2>1, <2>2 DEF TypeOK, keyVars, halfVars, taskVars, connVars, serverVars
  <1>2. CASE Sign
    BY <1>2 DEF Sign, TypeOK, keyVars, halfVars, taskVars, serverVars
  <1>3. CASE Response
    BY <1>3 DEF Response, TypeOK, keyVars, halfVars, taskVars, connVars, serverVars
  <1>4. ASSUME NEW p \in Peer, Exchange(p) PROVE TypeOK'
    <2>1. bad' \in [Peer -> SUBSET Block] /\ empty' \subseteq Peer
      <3>1. CASE UNCHANGED bad /\ empty' = empty \cup {p}
        BY <3>1 DEF TypeOK
      <3>2. CASE UNCHANGED empty /\ \E B \in SUBSET Block : bad' = [bad EXCEPT ![p] = B]
        BY <3>2 DEF TypeOK
      <3> QED
        BY <1>4, <3>1, <3>2 DEF Exchange
    <2>5. key' \in [Peer -> BOOLEAN]
      BY <1>4 DEF Exchange, TypeOK
    <2>2. alice' \in {"qkdBob", "sign", "end"} /\ toEnd' \subseteq Peer
      BY <1>4 DEF Exchange, AfterKey, Notify, TypeOK
    <2>3. qkdBob' \in {"connect", qkdBob}
      BY <1>4 DEF Exchange
    <2>4. UNCHANGED <<eMax, halfVars, sigBob, connVars, serverVars>>
      BY <1>4 DEF Exchange
    <2> QED
      BY <2>1, <2>2, <2>3, <2>4, <2>5 DEF TypeOK, halfVars, connVars, serverVars
  <1>5. ASSUME NEW p \in Peer, ExchangeFails(p) PROVE TypeOK'
    BY <1>5 DEF ExchangeFails, AfterKey, TypeOK, keyVars, halfVars, connVars, serverVars
  <1>6. ASSUME NEW p \in Peer, SendEND(p) PROVE TypeOK'
    <2>1. ended' \in [Peer -> {"none", "sent", "over"}]
      BY <1>6 DEF SendEND, TypeOK
    <2> QED
      BY <1>6, <2>1 DEF SendEND, TypeOK, keyVars, halfVars, taskVars, serverVars
  <1> QED
    BY <1>1, <1>2, <1>3, <1>4, <1>5, <1>6 DEF AliceNext

LEMMA TypeBob == TypeOK /\ BobNext => TypeOK'
  <1> SUFFICES ASSUME TypeOK, BobNext PROVE TypeOK'
    OBVIOUS
  <1>1. CASE TransferRequest
    <2>1. sent' \in [Peer -> SUBSET Block]
      <3>1. sent' = sent \/ \E H \in Halves : sent' = [sent EXCEPT !["Bob"] = H]
        BY <1>1, Zenon DEF TransferRequest
      <3>2. ASSUME NEW H \in Halves PROVE [sent EXCEPT !["Bob"] = H] \in [Peer -> SUBSET Block]
        BY HalvesType, UpdateType DEF TypeOK
      <3> QED
        BY <3>1, <3>2 DEF TypeOK
    <2>2. transfer' \in {transfer, "sent"} /\ qkdBob' \in {"wait", "dead"}
      BY <1>1, Zenon DEF TransferRequest
    <2>3. UNCHANGED <<aliceVars, keyVars, Bob_indices, Charlie_indices, sigBob, signed, forwarded,
                      ended, serverVars>>
      BY <1>1 DEF TransferRequest
    <2> QED
      BY <2>1, <2>2, <2>3 DEF TypeOK, aliceVars, keyVars, serverVars
  <1>2. CASE TransferResponse
    <2>1. Charlie_indices' \in HalfReceived
      BY <1>2, HalfType DEF TransferResponse, TypeOK
    <2> QED
      BY <1>2, <2>1 DEF TransferResponse, TypeOK, aliceVars, keyVars, connVars, serverVars
  <1>3. CASE BobVerification
    <2>1. done' \in [Peer -> BOOLEAN]
      <3>1. done' = done \/ done' = [done EXCEPT !["Bob"] = TRUE]
        BY <1>3, Zenon DEF BobVerification
      <3> QED
        BY <3>1, UpdateType DEF TypeOK
    <2>2. signed' \in {"closed", "failure", "success"} /\ sigBob' \in {"dead", "over", "forward"}
      BY <1>3, Zenon DEF BobVerification
    <2>3. UNCHANGED <<aliceVars, keyVars, halfVars, qkdBob, transfer, forwarded, ended, server>>
      BY <1>3 DEF BobVerification
    <2> QED
      BY <2>1, <2>2, <2>3 DEF TypeOK, aliceVars, keyVars, halfVars
  <1>4. CASE Forward
    BY <1>4 DEF Forward, TypeOK, aliceVars, keyVars, halfVars, serverVars
  <1>5. CASE ForwardResponse
    <2>1. done' \in [Peer -> BOOLEAN]
      BY <1>5, UpdateType DEF ForwardResponse, AllDone, TypeOK
    <2>2. sigBob' \in {"over", "dead"}
      BY <1>5, Zenon DEF ForwardResponse, AllDone
    <2>3. UNCHANGED <<aliceVars, keyVars, halfVars, qkdBob, connVars, server>>
      BY <1>5 DEF ForwardResponse
    <2> QED
      BY <2>1, <2>2, <2>3 DEF TypeOK, aliceVars, keyVars, halfVars, connVars
  <1> QED
    BY <1>1, <1>2, <1>3, <1>4, <1>5 DEF BobNext

LEMMA TypeCharlie == TypeOK /\ CharlieNext => TypeOK'
  <1> SUFFICES ASSUME TypeOK, CharlieNext PROVE TypeOK'
    OBVIOUS
  <1>1. CASE CharlieTransfer
    <2>1. sent' \in [Peer -> SUBSET Block]
      <3>1. sent' = sent \/ \E H \in Halves : sent' = [sent EXCEPT !["Charlie"] = H]
        BY <1>1, Zenon DEF CharlieTransfer
      <3>2. ASSUME NEW H \in Halves PROVE [sent EXCEPT !["Charlie"] = H] \in [Peer -> SUBSET Block]
        BY HalvesType, UpdateType DEF TypeOK
      <3> QED
        BY <3>1, <3>2 DEF TypeOK
    <2>2. Bob_indices' \in HalfReceived
      BY <1>1, HalfType DEF CharlieTransfer, TypeOK
    <2> QED
      BY <1>1, <2>1, <2>2 DEF CharlieTransfer, TypeOK, aliceVars, keyVars, taskVars, serverVars
  <1>2. CASE CharlieVerification
    <2>1. done' \in [Peer -> BOOLEAN]
      <3>1. done' = done \/ done' = [done EXCEPT !["Charlie"] = TRUE]
        BY <1>2, Zenon DEF CharlieVerification
      <3> QED
        BY <3>1, UpdateType DEF TypeOK
    <2>2. forwarded' \in Conn \cup Verdicts
      BY <1>2, Zenon DEF CharlieVerification
    <2>3. UNCHANGED <<aliceVars, keyVars, halfVars, taskVars, transfer, signed, ended, server>>
      BY <1>2 DEF CharlieVerification
    <2> QED
      BY <2>1, <2>2, <2>3 DEF TypeOK, aliceVars, keyVars, halfVars, taskVars
  <1> QED
    BY <1>1, <1>2 DEF CharlieNext

LEMMA TypeServer ==
  ASSUME TypeOK, NEW p \in Peer, ServerNext(p)
  PROVE  TypeOK'
  <1>1. ended' \in [Peer -> {"none", "sent", "over"}]
    BY UpdateType DEF ServerNext, HandleEND, Close, Exit, TypeOK, connVars
  <1>2. done' \in [Peer -> BOOLEAN]
    <2>1. done' = done \/ done' = [done EXCEPT ![p] = TRUE]
      BY Zenon DEF ServerNext, HandleEND, Close, Exit
    <2> QED
      BY <2>1, UpdateType DEF TypeOK
  <1>3. server' \in [Peer -> {"up", "closed", "down"}]
    BY UpdateType DEF ServerNext, HandleEND, Close, Exit, TypeOK
  <1>4. UNCHANGED <<aliceVars, keyVars, halfVars, taskVars, transfer, signed, forwarded>>
    BY DEF ServerNext, HandleEND, Close, Exit, connVars
  <1> QED
    BY <1>1, <1>2, <1>3, <1>4 DEF TypeOK, aliceVars, keyVars, halfVars, taskVars

LEMMA TypeStep == TypeOK /\ [Next]_vars => TypeOK'
  <1> SUFFICES ASSUME TypeOK, [Next]_vars PROVE TypeOK'
    OBVIOUS
  <1>1. CASE UNCHANGED vars
    BY <1>1 DEF TypeOK, vars, aliceVars, keyVars, halfVars, taskVars, connVars, serverVars
  <1> QED
    BY <1>1, TypeAlice, TypeBob, TypeCharlie, TypeServer DEF Next

\* Every variable keeps its type, for every n and EMax.
THEOREM TypeCorrect == Spec => []TypeOK
  BY TypeInit, TypeStep, PTL DEF Spec

-----------------------------------------------------------------------------
(* SignatureSound is inductive.                                            *)

LEMMA SoundInit == Init => SignatureSound
  BY DEF Init, SignatureSound, KeysFixed, TransferSound, VerdictSound, AcceptedAfterTransfer,
         RejectionNeedsHiddenErrors, NotReceived

\* The parts Charlie's verdict rests on, once Bob accepted.
Settled == UNCHANGED <<eMax, keyVars, halfVars, signed, forwarded>>

LEMMA SettledStays ==
  ASSUME SignatureSound, Settled
  PROVE  AcceptedAfterTransfer' /\ RejectionNeedsHiddenErrors'
  BY DEF SignatureSound, Settled, AcceptedAfterTransfer, RejectionNeedsHiddenErrors, keyVars, halfVars

LEMMA SoundAlice == TypeOK /\ SignatureSound /\ AliceNext => SignatureSound'
  <1> SUFFICES ASSUME TypeOK, SignatureSound, AliceNext PROVE SignatureSound'
    OBVIOUS
  <1> USE DEF SignatureSound, KeysFixed, TransferSound, VerdictSound
  <1>1. CASE CheckEMax
    BY <1>1, SettledStays
       DEF CheckEMax, Notify, Settled, keyVars, halfVars, taskVars, connVars, serverVars, BobErrors
  <1>2. CASE Sign
    <2>1. AcceptedAfterTransfer' /\ RejectionNeedsHiddenErrors'
      BY <1>2 DEF Sign, AcceptedAfterTransfer, RejectionNeedsHiddenErrors
    <2>2. UNCHANGED <<keyVars, halfVars, taskVars, transfer, forwarded, BobErrors>>
      BY <1>2 DEF Sign, keyVars, halfVars, BobErrors
    <2>3. alice = "sign" /\ alice' = "wait" /\ signed' = "sent"
      BY <1>2 DEF Sign
    <2> QED
      BY <2>1, <2>2, <2>3 DEF keyVars, halfVars, taskVars
  <1>3. CASE Response
    BY <1>3, SettledStays
       DEF Response, Settled, keyVars, halfVars, taskVars, connVars, serverVars, BobErrors
  <1>4. ASSUME NEW p \in Peer, Exchange(p) \/ ExchangeFails(p) PROVE SignatureSound'
    <2>1. alice \in {"qkdCharlie", "qkdBob"} /\ qkdBob = "none" /\ signed = "none"
      BY <1>4 DEF Exchange, ExchangeFails, KeyWith
    <2>2. forwarded = "none" /\ transfer = "none" /\ ~Charlie_indices.received
      BY <2>1
    <2>3. UNCHANGED <<eMax, halfVars, sigBob, connVars>>
      BY <1>4 DEF Exchange, ExchangeFails
    <2>4. KeysFixed'
      BY <1>4, <2>1, <2>3 DEF Exchange, ExchangeFails, KeyWith, AfterKey, Notify, connVars
    <2>5. qkdBob' \in {"none", "dead"} \/ (qkdBob' = "connect" /\ key'["Bob"])
      <3>1. CASE ExchangeFails(p)
        <4>1. qkdBob' = IF p = "Bob" THEN "dead" ELSE qkdBob
          BY <3>1, Zenon DEF ExchangeFails
        <4> QED
          BY <4>1, <2>1
      <3>2. CASE Exchange(p) /\ p = "Bob"
        BY <3>2, <2>1 DEF Exchange, TypeOK
      <3>3. CASE Exchange(p) /\ p = "Charlie"
        <4>1. qkdBob' = IF p = "Bob" THEN "connect" ELSE qkdBob
          BY <3>3, Zenon DEF Exchange
        <4> QED
          BY <4>1, <3>3, <2>1
      <3> QED
        BY <1>4, <3>1, <3>2, <3>3
    <2> QED
      BY <2>1, <2>2, <2>3, <2>4, <2>5
         DEF connVars, halfVars, AcceptedAfterTransfer, RejectionNeedsHiddenErrors
  <1>5. ASSUME NEW p \in Peer, SendEND(p) PROVE SignatureSound'
    BY <1>5, SettledStays
       DEF SendEND, Settled, keyVars, halfVars, taskVars, serverVars, BobErrors
  <1> QED
    BY <1>1, <1>2, <1>3, <1>4, <1>5 DEF AliceNext

LEMMA SoundTransfer ==
  TypeOK /\ SignatureSound /\ (TransferRequest \/ CharlieTransfer \/ TransferResponse) => SignatureSound'
  <1> SUFFICES ASSUME TypeOK, SignatureSound, TransferRequest \/ CharlieTransfer \/ TransferResponse
               PROVE  SignatureSound'
    OBVIOUS
  <1> USE DEF SignatureSound, KeysFixed, TransferSound, VerdictSound
  <1>1. signed # "success" /\ forwarded = "none" /\ ~Charlie_indices.received
    BY DEF TransferRequest, CharlieTransfer, TransferResponse
  <1>2. UNCHANGED <<alice, eMax, keyVars, sigBob, signed, forwarded>>
    <2>1. CASE TransferRequest
      BY <2>1 DEF TransferRequest, aliceVars
    <2>2. CASE CharlieTransfer
      BY <2>2 DEF CharlieTransfer, aliceVars, taskVars
    <2>3. CASE TransferResponse
      BY <2>3 DEF TransferResponse, aliceVars, connVars
    <2> QED
      BY <2>1, <2>2, <2>3
  <1>3. KeysFixed' /\ VerdictSound' /\ AcceptedAfterTransfer' /\ RejectionNeedsHiddenErrors'
    BY <1>1, <1>2
       DEF TransferRequest, CharlieTransfer, TransferResponse, taskVars, keyVars,
           AcceptedAfterTransfer, RejectionNeedsHiddenErrors
  <1>4. CASE TransferRequest
    BY <1>1, <1>2, <1>3, <1>4 DEF TransferRequest, keyVars
  <1>5. CASE CharlieTransfer
    <2>1. sent'["Bob"] = sent["Bob"]
      BY <1>5 DEF CharlieTransfer, TypeOK
    <2> QED
      BY <1>1, <1>2, <1>3, <1>5, <2>1 DEF CharlieTransfer, taskVars, keyVars
  <1>6. CASE TransferResponse
    BY <1>1, <1>2, <1>3, <1>6 DEF TransferResponse, connVars, keyVars, Received
  <1> QED
    BY <1>4, <1>5, <1>6

LEMMA NoErrorIn == Cardinality({}) = 0 /\ \A B \in SUBSET Block : Cardinality(B) \in Nat
  <1>1. IsFiniteSet(Block)
    BY FS_Interval, BlocksAssumption
  <1> QED
    BY <1>1, FS_EmptySet, FS_Subset, FS_CardinalityType

LEMMA SoundVerification ==
  TypeOK /\ SignatureSound /\ (BobVerification \/ Forward \/ ForwardResponse) => SignatureSound'
  <1> SUFFICES ASSUME TypeOK, SignatureSound, BobVerification \/ Forward \/ ForwardResponse
               PROVE  SignatureSound'
    OBVIOUS
  <1> USE DEF SignatureSound, KeysFixed, TransferSound, VerdictSound
  <1>1. CASE BobVerification
    <2>1. UNCHANGED <<alice, eMax, keyVars, halfVars, qkdBob, transfer, forwarded, BobErrors>>
      BY <1>1 DEF BobVerification, aliceVars, keyVars, halfVars, BobErrors
    <2>2. forwarded = "none" /\ signed' \in Verdicts \cup {"closed"} /\ signed = "sent"
      BY <1>1 DEF BobVerification
    <2>3. signed' = "success" =>
            key["Bob"] /\ Charlie_indices.received /\ BobErrors = {} /\ empty = {}
      BY <1>1 DEF BobVerification, CanSift
    <2>4. sigBob' \in {"forward", "wait"} => signed' = "success"
      BY <1>1 DEF BobVerification
    <2>5. KeysFixed' /\ TransferSound'
      BY <2>1, <2>2 DEF keyVars, halfVars
    <2>6. AcceptedAfterTransfer'
      BY <2>1, <2>3 DEF AcceptedAfterTransfer, keyVars, halfVars
    <2> QED
      BY <2>1, <2>2, <2>3, <2>4, <2>5, <2>6 DEF RejectionNeedsHiddenErrors, halfVars
  <1>2. CASE Forward
    <2>1. UNCHANGED <<alice, eMax, keyVars, halfVars, qkdBob, transfer, signed, BobErrors>>
      BY <1>2 DEF Forward, aliceVars, keyVars, halfVars, BobErrors
    <2>2. forwarded' # "failure" \/ UNCHANGED forwarded
      BY <1>2 DEF Forward
    <2>3. signed = "success"
      BY <1>2 DEF Forward
    <2> QED
      BY <2>1, <2>2, <2>3
         DEF AcceptedAfterTransfer, RejectionNeedsHiddenErrors, keyVars, halfVars
  <1>3. CASE ForwardResponse
    <2>1. UNCHANGED <<alice, eMax, keyVars, halfVars, qkdBob, connVars, BobErrors>>
      BY <1>3 DEF ForwardResponse, aliceVars, keyVars, halfVars, BobErrors
    <2>2. sigBob = "wait" /\ sigBob' \notin {"forward", "wait"}
      BY <1>3 DEF ForwardResponse, AllDone
    <2> QED
      BY <2>1, <2>2, SettledStays DEF Settled, connVars, keyVars, halfVars
  <1> QED
    BY <1>1, <1>2, <1>3

LEMMA SoundJudgement == TypeOK /\ SignatureSound /\ CharlieVerification => SignatureSound'
  <1> SUFFICES ASSUME TypeOK, SignatureSound, CharlieVerification PROVE SignatureSound'
    OBVIOUS
  <1> USE DEF SignatureSound, KeysFixed, TransferSound, VerdictSound
  <1>1. UNCHANGED <<alice, eMax, keyVars, halfVars, taskVars, transfer, signed, BobErrors>>
    BY DEF CharlieVerification, aliceVars, keyVars, halfVars, BobErrors
  <1>2. signed = "success"
    BY DEF CharlieVerification
  <1>3. bad["Bob"] = {} /\ bad["Charlie"] \cap sent["Charlie"] = {}
    BY <1>2 DEF BobErrors, AcceptedAfterTransfer, Received
  <1>4. CharlieErrors = Cardinality(bad["Charlie"])
    <2>1. bad["Bob"] \cap Bob_indices.blocks = {}
      BY <1>3
    <2>2. Cardinality(bad["Charlie"]) \in Nat
      BY NoErrorIn DEF TypeOK
    <2>3. CharlieErrors = Cardinality(bad["Charlie"]) + Cardinality({})
      BY <2>1, Zenon DEF CharlieErrors
    <2>4. Cardinality({}) = 0
      BY NoErrorIn
    <2> HIDE DEF Block
    <2> QED
      BY <2>2, <2>3, <2>4
  <1>5. forwarded' = "failure" => Cardinality(bad["Charlie"]) > eMax
    BY <1>4 DEF CharlieVerification, Rejects
  <1> QED
    BY <1>1, <1>2, <1>3, <1>5
       DEF AcceptedAfterTransfer, RejectionNeedsHiddenErrors, keyVars, halfVars, taskVars

LEMMA SoundServer ==
  ASSUME SignatureSound, NEW p \in Peer, ServerNext(p)
  PROVE  SignatureSound'
  <1>1. UNCHANGED <<alice, eMax, keyVars, halfVars, taskVars, transfer, signed, forwarded>>
    BY DEF ServerNext, HandleEND, Close, Exit, aliceVars, connVars
  <1> QED
    BY <1>1 DEF SignatureSound, KeysFixed, TransferSound, VerdictSound, BobErrors,
                AcceptedAfterTransfer, RejectionNeedsHiddenErrors, keyVars, halfVars, taskVars

LEMMA SoundStep == TypeOK /\ SignatureSound /\ [Next]_vars => SignatureSound'
  <1> SUFFICES ASSUME TypeOK, SignatureSound, [Next]_vars PROVE SignatureSound'
    OBVIOUS
  <1>1. CASE UNCHANGED vars
    BY <1>1 DEF vars, aliceVars, keyVars, halfVars, taskVars, connVars, SignatureSound, KeysFixed,
                TransferSound, VerdictSound, BobErrors, AcceptedAfterTransfer, RejectionNeedsHiddenErrors
  <1> QED
    BY <1>1, SoundAlice, SoundTransfer, SoundVerification, SoundJudgement, SoundServer
       DEF Next, BobNext, CharlieNext

\* The keys, the halves and the verdicts fit together in every reachable state.
THEOREM SoundCorrect == Spec => []SignatureSound
  <1>1. TypeOK /\ SignatureSound /\ [Next]_vars => SignatureSound'
    BY SoundStep
  <1> QED
    BY <1>1, SoundInit, TypeCorrect, PTL DEF Spec

\* Bob accepts only after the key transfer is complete on both sides.
THEOREM TransferSafety == Spec => []AcceptedAfterTransfer
  <1>1. SignatureSound => AcceptedAfterTransfer
    BY DEF SignatureSound
  <1> QED
    BY <1>1, SoundCorrect, PTL

\* Charlie overrules Bob only for more than eMax bad blocks, none of which Bob was sent.
THEOREM RejectionSafety == Spec => []RejectionNeedsHiddenErrors
  <1>1. SignatureSound => RejectionNeedsHiddenErrors
    BY DEF SignatureSound
  <1> QED
    BY <1>1, SoundCorrect, PTL
=============================================================================
