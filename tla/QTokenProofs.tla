---------------------------- MODULE QTokenProofs ----------------------------
(***************************************************************************)
(* The theorems of QToken, for every M, Persistent and Failures, in three  *)
(* parts: the type invariant; what is in flight, from which the safety     *)
(* invariants follow; and the way of the result, from which follows that   *)
(* QToken implements TokenPresentation.                                    *)
(***************************************************************************)
EXTENDS QToken, TLAPS

-----------------------------------------------------------------------------
(* The group of M-bit patterns.                                            *)

LEMMA XorType == ASSUME NEW p \in Pid, NEW q \in Pid PROVE Xor(p, q) \in Pid
  BY DEF Xor, Pid

LEMMA ZeroType == Zero \in Pid
  BY DEF Zero, Pid

LEMMA XorSelf == ASSUME NEW p \in Pid PROVE Xor(p, p) = Zero
  BY DEF Xor, Zero, Pid

\* d_i XOR c: the mask z drawn by Alice cancels out.
LEMMA XorCancel ==
  ASSUME NEW m \in Pid, NEW i \in Pid, NEW p \in Pid
  PROVE  Xor(Xor(m, i), Xor(p, m)) = Xor(i, p)
  BY DEF Xor, Pid

LEMMA NoPidFresh == NoPid \notin Pid
  <1> SUFFICES ASSUME NoPid \in Pid PROVE FALSE
    OBVIOUS
  <1>1. DOMAIN NoPid = 1..M
    BY DEF Pid
  <1>2. 1 \in DOMAIN NoPid
    BY <1>1, MAssumption
  <1> QED
    BY <1>2 DEF NoPid

-----------------------------------------------------------------------------
(* Type correctness.                                                       *)

LEMMA SessionType == Session \subseteq 0..N /\ 0 \in 0..N /\ 0 \notin Session
  BY NAssumption DEF Session

LEMMA NoBasisType == NoBasis \in Basis
  BY ZeroType, SessionType DEF NoBasis, Basis

LEMMA EofType == Eof \in ReplyMsg /\ Eof \in MainMsg /\ Eof \in BobMsg
  BY DEF ReplyMsg, MainMsg, BobMsg

\* Updating one entry of a table of tables keeps its type.
LEMMA SetAt ==
  ASSUME NEW S, NEW T, NEW V, NEW f \in [S -> [T -> V]], NEW s \in S, NEW i \in T, NEW v \in V
  PROVE  [f EXCEPT ![s][i] = v] \in [S -> [T -> V]]
  OBVIOUS

LEMMA TypeInit == Init => TypeOK
  <1> SUFFICES ASSUME Init PROVE TypeOK
    OBVIOUS
  <1>1. AliceTypeOK /\ AgentTypeOK /\ LinkTypeOK
    BY ZeroType DEF Init, AliceTypeOK, AgentTypeOK, LinkTypeOK
  <1>2. BobAgentTypeOK
    <2>1. d_i \in [Pid -> Basis] /\ d_tilde \in [Pid -> Basis]
      BY NoBasisType DEF Init
    <2>2. token \in [Pid -> 0..N] /\ writer_client \in [Pid -> 0..N]
      BY SessionType DEF Init
    <2> QED
      BY <2>1, <2>2 DEF Init, BobAgentTypeOK
  <1>3. MainTypeOK /\ WireTypeOK
    BY DEF Init, MainTypeOK, WireTypeOK
  <1>4. BobTypeOK
    <2>1. result \in [Session -> Verdict \cup {NoVerdict}] /\ alice_queue \in Seq(Session)
      BY DEF Init
    <2>2. agents \subseteq Pid /\ session_count \in Nat
      BY DEF Init
    <2>3. bob \in {"idle", "d", "c", "result", "ended", "stopped"} /\ shutdown_event \in BOOLEAN
      BY Zenon DEF Init
    <2> QED
      BY <2>1, <2>2, <2>3 DEF BobTypeOK
  <1> QED
    BY <1>1, <1>2, <1>3, <1>4 DEF TypeOK

LEMMA AliceStable == AliceTypeOK /\ UNCHANGED aliceVars => AliceTypeOK'
  BY DEF AliceTypeOK, aliceVars

LEMMA AgentStable == AgentTypeOK /\ UNCHANGED agentVars => AgentTypeOK'
  BY DEF AgentTypeOK, agentVars

LEMMA LinkStable == LinkTypeOK /\ UNCHANGED linkVars => LinkTypeOK'
  BY DEF LinkTypeOK, linkVars

LEMMA BobAgentStable == BobAgentTypeOK /\ UNCHANGED bobAgentVars => BobAgentTypeOK'
  BY DEF BobAgentTypeOK, bobAgentVars, dataVars

LEMMA MainStable == MainTypeOK /\ UNCHANGED toMain => MainTypeOK'
  BY DEF MainTypeOK

LEMMA BobStable == BobTypeOK /\ UNCHANGED bobVars => BobTypeOK'
  BY DEF BobTypeOK, bobVars

LEMMA WireStable == WireTypeOK /\ UNCHANGED wireVars => WireTypeOK'
  BY DEF WireTypeOK, wireVars

LEMMA TypeShutdownAgents ==
  ASSUME AgentTypeOK, NEW s \in Session, ShutdownAgents(s), UNCHANGED <<toAlice, agent>>
  PROVE  AgentTypeOK'
  BY DEF AgentTypeOK, ShutdownAgents

LEMMA TypeAlice ==
  ASSUME TypeOK, AnswerHasAgent, NEW s \in Session, AliceNext(s)
  PROVE  TypeOK'
  <1> USE AliceStable, AgentStable, LinkStable, BobAgentStable, MainStable, BobStable,
          WireStable DEF TypeOK
  <1>1. CASE AliceStart(s)
    <2>1. AliceTypeOK'
      BY <1>1 DEF AliceStart, AliceTypeOK
    <2> QED
      BY <1>1, <2>1 DEF AliceStart
  <1>2. CASE AliceConnect(s)
    <2>1. AliceTypeOK'
      BY <1>2 DEF AliceConnect, AliceTypeOK
    <2>2. CASE shutdown_event
      <3>1. AgentTypeOK'
        <4> DEFINE Word == {"token", "send_token", "eof"}
        <4>1. \A i \in Pid : toAgent[s][i] \in Seq(Word) /\ <<"token", "eof">> \in Seq(Word)
          BY DEF AgentTypeOK
        <4>2. \A q, r \in Seq(Word) : q \o r \in Seq(Word)
          OBVIOUS
        <4>3. [i \in Pid |-> toAgent[s][i] \o <<"token", "eof">>] \in [Pid -> Seq(Word)]
          BY <4>1, <4>2
        <4>4. toAgent' = [toAgent EXCEPT ![s] = [i \in Pid |-> toAgent[s][i] \o <<"token", "eof">>]]
          BY <1>2, <2>2 DEF AliceConnect, AgentTypeOK
        <4> QED
          BY <1>2, <4>3, <4>4 DEF AliceConnect, AgentTypeOK
      <3> QED
        BY <1>2, <2>1, <2>2, <3>1 DEF AliceConnect, bobVars
    <2>3. CASE ~shutdown_event
      <3>1. AgentTypeOK'
        <4> DEFINE Word == {"token", "send_token", "eof"}
        <4>1. \A i \in Pid : Append(toAgent[s][i], "token") \in Seq(Word)
          BY DEF AgentTypeOK
        <4>2. [i \in Pid |-> Append(toAgent[s][i], "token")] \in [Pid -> Seq(Word)]
          BY <4>1
        <4> QED
          BY <1>2, <2>3, <4>2 DEF AliceConnect, AgentTypeOK
      <3>2. BobTypeOK'
        <4>1. /\ alice_queue' = Append(alice_queue, s)
              /\ UNCHANGED <<bob, shutdown_event, agents, result, session_count>>
          BY <1>2, <2>3 DEF AliceConnect
        <4>2. alice_queue' \in Seq(Session)
          BY <4>1 DEF BobTypeOK
        <4> QED
          BY <4>1, <4>2 DEF BobTypeOK
      <3> QED
        BY <1>2, <2>1, <3>1, <3>2 DEF AliceConnect
    <2> QED
      BY <2>2, <2>3
  <1>3. CASE AliceSendD(s)
    <2>1. AliceTypeOK'
      BY <1>3 DEF AliceSendD, AliceTypeOK
    <2>2. WireTypeOK'
      BY <1>3 DEF AliceSendD, WireTypeOK, BobMsg
    <2> QED
      BY <1>3, <2>1, <2>2 DEF AliceSendD
  <1>4. CASE AliceSelect(s)
    <2>1. AliceTypeOK'
      BY <1>4 DEF AliceSelect, AliceTypeOK
    <2>2. AgentTypeOK'
      BY <1>4 DEF AliceSelect, AgentTypeOK
    <2>3. WireTypeOK'
      <3>1. \A p \in agents_conns[s] : [type |-> "c", mask |-> Xor(p, z[s])] \in BobMsg
        BY XorType DEF AliceTypeOK, BobMsg
      <3> QED
        BY <1>4, <3>1 DEF AliceSelect, WireTypeOK
    <2> QED
      BY <1>4, <2>1, <2>2, <2>3 DEF AliceSelect
  <1>5. CASE AliceReport(s)
    <2>1. AliceTypeOK'
      BY <1>5 DEF AliceReport, AliceTypeOK
    <2>2. b[s] \in Pid
      BY <1>5 DEF AliceReport, AnswerHasAgent
    <2>3. AgentTypeOK'
      BY <1>5, <2>2 DEF AliceReport, AgentTypeOK
    <2>4. WireTypeOK'
      <3> DEFINE h == Head(toAlice[s][b[s]])
                 m == [type |-> "result", v |-> IF h.type = "result" THEN h.v ELSE NoVerdict]
      <3>1. h \in ReplyMsg
        BY <1>5, <2>2 DEF AliceReport, AgentTypeOK
      <3>2. m \in BobMsg
        BY <3>1 DEF ReplyMsg, Result, Eof, BobMsg
      <3>3. toBob' = [toBob EXCEPT ![s] = @ \o <<m, Eof>>] /\ UNCHANGED toAck
        BY <1>5 DEF AliceReport
      <3> QED
        <4>1. <<m, Eof>> \in Seq(BobMsg)
          BY <3>2, EofType
        <4>2. toBob[s] \o <<m, Eof>> \in Seq(BobMsg)
          <5>1. toBob[s] \in Seq(BobMsg)
            BY DEF WireTypeOK
          <5> HIDE DEF m
          <5> QED
            BY <4>1, <5>1
        <4>3. toBob' = [toBob EXCEPT ![s] = toBob[s] \o <<m, Eof>>]
          BY <3>3 DEF WireTypeOK
        <4> HIDE DEF m
        <4> QED
          BY <3>3, <4>2, <4>3 DEF WireTypeOK
    <2> QED
      BY <1>5, <2>1, <2>3, <2>4 DEF AliceReport
  <1>6. CASE AliceTimeout(s)
    <2>1. AliceTypeOK'
      BY <1>6 DEF AliceTimeout, AliceTypeOK
    <2>2. WireTypeOK'
      BY <1>6, EofType DEF AliceTimeout, WireTypeOK
    <2> QED
      BY <1>6, <2>1, <2>2, TypeShutdownAgents DEF AliceTimeout
  <1>7. CASE AliceShutdown(s)
    <2>1. AliceTypeOK'
      BY <1>7 DEF AliceShutdown, AliceTypeOK
    <2> QED
      BY <1>7, <2>1, TypeShutdownAgents DEF AliceShutdown
  <1>8. CASE AliceKilled(s)
    <2>1. AliceTypeOK'
      BY <1>8 DEF AliceKilled, AliceTypeOK
    <2>2. WireTypeOK'
      BY <1>8, EofType DEF AliceKilled, WireTypeOK
    <2> QED
      BY <1>8, <2>1, <2>2, TypeShutdownAgents DEF AliceKilled
  <1> QED
    BY <1>1, <1>2, <1>3, <1>4, <1>5, <1>6, <1>7, <1>8 DEF AliceNext

LEMMA TypeAgentStop ==
  ASSUME AgentTypeOK, LinkTypeOK, NEW s \in Session, NEW i \in Pid,
         NEW said \in Seq(ReplyMsg), AgentStop(s, i, said),
         toAgent' \in [Session -> [Pid -> Seq({"token", "send_token", "eof"})]],
         answer' \in [Session -> [Pid -> Seq(ReplyMsg)]],
         UNCHANGED closed
  PROVE  AgentTypeOK' /\ LinkTypeOK'
  <1>1. agent' \in [Session -> [Pid -> {"down", "token", "request", "reply", "stopped"}]]
    BY DEF AgentStop, AgentTypeOK
  <1>2. present' \in [Session -> [Pid -> Seq({"token", "eof"})]]
    BY DEF AgentStop, LinkTypeOK
  <1>3. toAlice' \in [Session -> [Pid -> Seq(ReplyMsg)]]
    <2>1. toAlice[s][i] \in Seq(ReplyMsg) /\ <<Eof>> \in Seq(ReplyMsg)
      BY EofType DEF AgentTypeOK
    <2>2. toAlice[s][i] \o said \o <<Eof>> \in Seq(ReplyMsg)
      BY <2>1
    <2>3. toAlice' = [toAlice EXCEPT ![s][i] = toAlice[s][i] \o said \o <<Eof>>]
      BY DEF AgentStop
    <2> QED
      BY <2>2, <2>3, SetAt DEF AgentTypeOK
  <1> QED
    BY <1>1, <1>2, <1>3 DEF AgentTypeOK, LinkTypeOK

LEMMA TypeAgent ==
  ASSUME TypeOK, NEW s \in Session, NEW i \in Pid, AgentNext(s, i)
  PROVE  TypeOK'
  <1> USE AliceStable, AgentStable, LinkStable, BobAgentStable, MainStable, BobStable,
          WireStable DEF TypeOK
  <1>1. CASE AgentConnect(s, i)
    <2>1. AliceTypeOK'
      BY <1>1 DEF AgentConnect, AliceTypeOK
    <2>2. AgentTypeOK'
      BY <1>1 DEF AgentConnect, AgentTypeOK
    <2> QED
      BY <1>1, <2>1, <2>2 DEF AgentConnect
  <1>2. CASE AgentToken(s, i)
    <2>1. AgentTypeOK'
      BY <1>2 DEF AgentToken, AgentTypeOK
    <2> QED
      BY <1>2, <2>1 DEF AgentToken
  <1>3. CASE AgentForward(s, i)
    <2>1. AgentTypeOK'
      BY <1>3 DEF AgentForward, AgentTypeOK
    <2>2. LinkTypeOK'
      BY <1>3 DEF AgentForward, LinkTypeOK
    <2> QED
      BY <1>3, <2>1, <2>2 DEF AgentForward
  <1>4. CASE AgentShutdown(s, i)
    <2>1. toAgent' \in [Session -> [Pid -> Seq({"token", "send_token", "eof"})]]
      BY <1>4 DEF AgentShutdown, AgentTypeOK
    <2>2. UNCHANGED <<answer, closed>> /\ answer \in [Session -> [Pid -> Seq(ReplyMsg)]]
      BY <1>4 DEF AgentShutdown, LinkTypeOK
    <2>3. AgentTypeOK' /\ LinkTypeOK'
      <3>1. <<>> \in Seq(ReplyMsg) /\ AgentStop(s, i, <<>>)
        BY <1>4 DEF AgentShutdown
      <3> QED
        BY <2>1, <2>2, <3>1, TypeAgentStop
    <2> QED
      BY <1>4, <2>3 DEF AgentShutdown
  <1>5. CASE AgentReply(s, i)
    <2> DEFINE said == IF Head(answer[s][i]).type = "result" THEN <<Head(answer[s][i])>> ELSE <<>>
    <2>1. answer' \in [Session -> [Pid -> Seq(ReplyMsg)]] /\ Head(answer[s][i]) \in ReplyMsg
      <3>1. answer[s][i] \in Seq(ReplyMsg) /\ answer[s][i] # <<>>
        BY <1>5 DEF AgentReply, LinkTypeOK
      <3>2. Tail(answer[s][i]) \in Seq(ReplyMsg) /\ Head(answer[s][i]) \in ReplyMsg
        BY <3>1
      <3>3. answer' = [answer EXCEPT ![s][i] = Tail(answer[s][i])]
        BY <1>5 DEF AgentReply
      <3> QED
        BY <3>2, <3>3, SetAt DEF LinkTypeOK
    <2>2. said \in Seq(ReplyMsg)
      BY <2>1
    <2>3. UNCHANGED <<toAgent, closed>> /\ AgentStop(s, i, said)
      BY <1>5 DEF AgentReply
    <2>4. toAgent' \in [Session -> [Pid -> Seq({"token", "send_token", "eof"})]]
      BY <2>3 DEF AgentTypeOK
    <2>5. AgentTypeOK' /\ LinkTypeOK'
      BY <2>1, <2>2, <2>3, <2>4, TypeAgentStop
    <2> QED
      BY <1>5, <2>5 DEF AgentReply
  <1> QED
    BY <1>1, <1>2, <1>3, <1>4, <1>5 DEF AgentNext

LEMMA TypeCloseClient ==
  ASSUME LinkTypeOK, NEW i \in Pid, NEW msgs \in Seq(ReplyMsg), CloseClient(i, msgs),
         writer_client[i] \in Session
  PROVE  /\ answer' \in [Session -> [Pid -> Seq(ReplyMsg)]]
         /\ closed' \in [Session -> SUBSET Pid]
  <1> DEFINE w == writer_client[i]
  <1>1. CASE i \in closed[w]
    BY <1>1 DEF CloseClient, LinkTypeOK
  <1>2. CASE i \notin closed[w]
    <2>1. answer[w][i] \in Seq(ReplyMsg) /\ <<Eof>> \in Seq(ReplyMsg)
      BY EofType DEF LinkTypeOK
    <2>2. answer[w][i] \o msgs \o <<Eof>> \in Seq(ReplyMsg)
      BY <2>1
    <2>3. /\ answer' = [answer EXCEPT ![w][i] = answer[w][i] \o msgs \o <<Eof>>]
          /\ closed' = [closed EXCEPT ![w] = @ \cup {i}]
      BY <1>2 DEF CloseClient
    <2>4. answer' \in [Session -> [Pid -> Seq(ReplyMsg)]]
      BY <2>2, <2>3, SetAt DEF LinkTypeOK
    <2> QED
      BY <2>3, <2>4 DEF LinkTypeOK
  <1> QED
    BY <1>1, <1>2

LEMMA TypeClient ==
  ASSUME TypeOK, HandlerHasData, NEW s \in Session, NEW i \in Pid, ClientNext(s, i)
  PROVE  TypeOK'
  <1> USE AliceStable, AgentStable, LinkStable, BobAgentStable, MainStable, BobStable,
          WireStable DEF TypeOK
  <1>0. 0..N \ {0} \subseteq Session
    BY NAssumption DEF Session
  <1>1. CASE HandleClient(s, i)
    <2>1. BobAgentTypeOK'
      BY <1>1, SessionType DEF HandleClient, BobAgentTypeOK
    <2> QED
      BY <1>1, <2>1 DEF HandleClient
  <1>2. CASE ClientToken(s, i)
    <2>1. BobAgentTypeOK'
      BY <1>2, SessionType DEF ClientToken, BobAgentTypeOK
    <2>2. LinkTypeOK'
      BY <1>2 DEF ClientToken, LinkTypeOK
    <2> QED
      BY <1>2, <2>1, <2>2 DEF ClientToken
  <1>3. CASE ClientEof(s, i)
    <2>1. BobAgentTypeOK'
      BY <1>3 DEF ClientEof, BobAgentTypeOK, dataVars
    <2>2. writer_client[i] \in Session
      BY <1>3, <1>0 DEF ClientEof, HandlerHasData, BobAgentTypeOK
    <2>3. LinkTypeOK'
      <3>1. <<>> \in Seq(ReplyMsg) /\ CloseClient(i, <<>>) /\ UNCHANGED present
        BY <1>3 DEF ClientEof
      <3> QED
        BY <2>2, <3>1, TypeCloseClient DEF LinkTypeOK
    <2> QED
      BY <1>3, <2>1, <2>3 DEF ClientEof
  <1>4. CASE Verify(s, i)
    <2> DEFINE v == VerdictOf(i)
    <2>1. writer_client[i] \in Session /\ token[i] \in Session
      BY <1>4, <1>0 DEF Verify, HandlerHasData, BobAgentTypeOK
    <2>2. v \in Verdict
      BY <2>1 DEF Verdict, VerdictOf, Basis, BobAgentTypeOK
    <2>3. BobAgentTypeOK'
      BY <1>4, <2>2 DEF Verify, BobAgentTypeOK, dataVars
    <2>4. <<[type |-> "result", v |-> v]>> \in Seq(ReplyMsg)
      BY <2>2 DEF ReplyMsg, Result
    <2>5. LinkTypeOK'
      BY <1>4, <2>1, <2>4, TypeCloseClient DEF Verify, LinkTypeOK
    <2> QED
      BY <1>4, <2>3, <2>5 DEF Verify
  <1>5. CASE ClientReturns(s, i)
    <2>1. BobAgentTypeOK'
      BY <1>5 DEF ClientReturns, BobAgentTypeOK, dataVars
    <2> QED
      BY <1>5, <2>1 DEF ClientReturns
  <1> QED
    BY <1>1, <1>2, <1>3, <1>4, <1>5 DEF ClientNext

LEMMA TypeMain ==
  ASSUME TypeOK, NEW i \in Pid, MainNext(i)
  PROVE  TypeOK'
  <1> USE AliceStable, AgentStable, LinkStable, BobAgentStable, MainStable, BobStable,
          WireStable DEF TypeOK
  <1>0. ASSUME listener[i] = "up", toMain[i] # <<>>, toMain' = [toMain EXCEPT ![i] = Tail(@)]
        PROVE  MainTypeOK' /\ Head(toMain[i]) \in MainMsg
    <2>1. toMain[i] \in Seq(MainMsg)
      BY DEF MainTypeOK
    <2>2. Tail(toMain[i]) \in Seq(MainMsg) /\ Head(toMain[i]) \in MainMsg
      BY <1>0, <2>1
    <2> QED
      BY <1>0, <2>2 DEF MainTypeOK
  <1>1. CASE RegisterAgent(i)
    <2>1. BobTypeOK'
      BY <1>1 DEF RegisterAgent, BobTypeOK
    <2> QED
      BY <1>1, <2>1 DEF RegisterAgent
  <1>2. CASE MainBases(i)
    <2>1. MainTypeOK' /\ Head(toMain[i]) \in MainMsg /\ Head(toMain[i]).type = "d_i"
      BY <1>0, <1>2 DEF MainBases
    <2>2. Head(toMain[i]).basis \in Basis
      BY <2>1 DEF MainMsg, Eof
    <2>3. BobAgentTypeOK'
      BY <1>2, <2>2 DEF MainBases, BobAgentTypeOK
    <2> QED
      BY <1>2, <2>1, <2>3 DEF MainBases
  <1>3. CASE MainC(i)
    <2>1. MainTypeOK' /\ Head(toMain[i]) \in MainMsg /\ Head(toMain[i]).type = "c"
      BY <1>0, <1>3 DEF MainC
    <2>2. Head(toMain[i]).c \in Pid
      BY <2>1 DEF MainMsg, Eof
    <2>3. Unblinded(i, Head(toMain[i]).c) \in Basis
      BY <2>2, XorType DEF Unblinded, Basis, BobAgentTypeOK
    <2>4. BobAgentTypeOK'
      BY <1>3, <2>3 DEF MainC, BobAgentTypeOK
    <2> QED
      BY <1>3, <2>1, <2>4 DEF MainC
  <1>4. CASE MainCNone(i)
    <2>1. MainTypeOK'
      BY <1>0, <1>4 DEF MainCNone
    <2>2. BobAgentTypeOK'
      BY <1>4 DEF MainCNone, BobAgentTypeOK, dataVars
    <2> QED
      BY <1>4, <2>1, <2>2 DEF MainCNone
  <1>5. CASE MainShutdown(i)
    <2>1. MainTypeOK'
      BY <1>0, <1>5 DEF MainShutdown
    <2>2. BobAgentTypeOK'
      BY <1>5 DEF MainShutdown, BobAgentTypeOK, dataVars
    <2>3. LinkTypeOK'
      <3> DEFINE Reset(s) == agent[s][i] # "down" /\ handler[s][i] = "none"
                 told(s) == [answer[s] EXCEPT ![i] = Append(answer[s][i], Eof)]
      <3>1. \A s \in Session : Append(answer[s][i], Eof) \in Seq(ReplyMsg)
        BY EofType DEF LinkTypeOK
      <3>2. \A s \in Session : answer[s] \in [Pid -> Seq(ReplyMsg)] /\ told(s) \in [Pid -> Seq(ReplyMsg)]
        BY <3>1 DEF LinkTypeOK
      <3>3. /\ answer' = [s \in Session |-> IF Reset(s) THEN told(s) ELSE answer[s]]
            /\ closed' = [s \in Session |-> IF Reset(s) THEN closed[s] \cup {i} ELSE closed[s]]
            /\ UNCHANGED present
        BY <1>5 DEF MainShutdown, LinkTypeOK
      <3> HIDE DEF Reset, told
      <3>4. answer' \in [Session -> [Pid -> Seq(ReplyMsg)]]
        BY <3>2, <3>3
      <3> QED
        BY <3>3, <3>4 DEF LinkTypeOK
    <2> QED
      BY <1>5, <2>1, <2>2, <2>3 DEF MainShutdown
  <1>6. CASE BobAgentExit(i)
    <2>1. BobAgentTypeOK'
      BY <1>6 DEF BobAgentExit, BobAgentTypeOK, dataVars
    <2> QED
      BY <1>6, <2>1 DEF BobAgentExit
  <1> QED
    BY <1>1, <1>2, <1>3, <1>4, <1>5, <1>6 DEF MainNext

\* A message to an agent is appended or lost.
LEMMA TypeSendMain ==
  ASSUME MainTypeOK, NEW i \in Pid, NEW m \in MainMsg
  PROVE  SendMain(i, m) \in Seq(MainMsg)
  <1>1. toMain[i] \in Seq(MainMsg)
    BY DEF MainTypeOK
  <1> QED
    BY <1>1 DEF SendMain

LEMMA TypeStopAgents ==
  ASSUME MainTypeOK, StopAgents
  PROVE  MainTypeOK'
  <1>1. \A i \in Pid : Append(toMain[i], Eof) \in Seq(MainMsg)
    BY EofType DEF MainTypeOK
  <1> QED
    BY <1>1 DEF StopAgents, MainTypeOK

LEMMA TypeEndSession ==
  ASSUME MainTypeOK, BobTypeOK, WireTypeOK, NEW s \in Session, Serving(s), EndSession(s)
  PROVE  /\ MainTypeOK'
         /\ toAck' \in [Session -> Seq({"OK", "eof"})]
         /\ alice_queue' \in Seq(Session)
         /\ bob' \in {"idle", "ended"} /\ shutdown_event' \in BOOLEAN
  <1>1. MainTypeOK'
    BY TypeStopAgents, MainStable DEF EndSession
  <1>2. toAck' \in [Session -> Seq({"OK", "eof"})]
    <2>1. \A t \in Session : Append(toAck[t], "eof") \in Seq({"OK", "eof"})
      BY DEF WireTypeOK
    <2> QED
      BY <2>1 DEF EndSession, WireTypeOK
  <1>3. alice_queue' \in Seq(Session)
    BY DEF EndSession, BobTypeOK, Serving
  <1>4. bob' \in {"idle", "ended"} /\ shutdown_event' \in BOOLEAN
    BY PersistentAssumption DEF EndSession, BobTypeOK
  <1> QED
    BY <1>1, <1>2, <1>3, <1>4

LEMMA TypeBob ==
  ASSUME TypeOK, NEW s \in Session, BobNext(s)
  PROVE  TypeOK'
  <1> USE AliceStable, AgentStable, LinkStable, BobAgentStable, MainStable, BobStable,
          WireStable DEF TypeOK
  <1>0. ASSUME toBob[s] # <<>>
        PROVE  /\ Head(toBob[s]) \in BobMsg
               /\ [toBob EXCEPT ![s] = Tail(@)] \in [Session -> Seq(BobMsg)]
               /\ Head(toBob[s]).type \in {"d", "c"} => Head(toBob[s]).mask \in Pid
               /\ Head(toBob[s]).type = "result" => Head(toBob[s]).v \in Verdict \cup {NoVerdict}
    <2>1. toBob[s] \in Seq(BobMsg)
      BY DEF WireTypeOK
    <2>2. Tail(toBob[s]) \in Seq(BobMsg) /\ Head(toBob[s]) \in BobMsg
      BY <1>0, <2>1
    <2>3. /\ Head(toBob[s]).type \in {"d", "c"} => Head(toBob[s]).mask \in Pid
          /\ Head(toBob[s]).type = "result" => Head(toBob[s]).v \in Verdict \cup {NoVerdict}
      BY <2>2 DEF BobMsg, ReplyMsg, Result, Eof
    <2> QED
      BY <2>2, <2>3 DEF WireTypeOK
  <1>1. CASE BobStageI(s)
    <2>1. \A i \in Pid : [type |-> "d_i", basis |-> BlindedFor(s, i, Head(toBob[s]).mask)] \in MainMsg
      BY <1>0, <1>1, XorType, SessionType DEF BobStageI, BlindedFor, Basis, MainMsg
    <2>2. MainTypeOK'
      BY <1>1, <2>1, TypeSendMain DEF BobStageI, MainTypeOK
    <2>3. BobTypeOK'
      BY <1>1 DEF BobStageI, BobTypeOK
    <2>4. WireTypeOK'
      BY <1>0, <1>1 DEF BobStageI, Acknowledge, WireTypeOK
    <2> QED
      BY <1>1, <2>2, <2>3, <2>4 DEF BobStageI
  <1>2. CASE BobNoD(s)
    <2>1. MainTypeOK' /\ BobTypeOK' /\ WireTypeOK'
      BY <1>2, TypeEndSession DEF BobNoD, BobTypeOK, WireTypeOK
    <2> QED
      BY <1>2, <2>1 DEF BobNoD
  <1>3. CASE BobStageII(s)
    <2> DEFINE m == IF Head(toBob[s]).type = "c" THEN [type |-> "c", c |-> Head(toBob[s]).mask]
                    ELSE [type |-> "c_none"]
    <2>1. m \in MainMsg
      BY <1>0, <1>3 DEF BobStageII, MainMsg
    <2>2. toMain' = [i \in Pid |-> SendMain(i, m)]
      BY <1>3 DEF BobStageII
    <2> HIDE DEF m
    <2>3. MainTypeOK'
      BY <2>1, <2>2, TypeSendMain DEF MainTypeOK
    <2>4. BobTypeOK'
      BY <1>3 DEF BobStageII, BobTypeOK
    <2>5. WireTypeOK'
      BY <1>0, <1>3 DEF BobStageII, WireTypeOK
    <2> QED
      BY <1>3, <2>3, <2>4, <2>5 DEF BobStageII
  <1>4. CASE BobResult(s)
    <2>1. MainTypeOK' /\ toAck' \in [Session -> Seq({"OK", "eof"})]
          /\ alice_queue' \in Seq(Session) /\ bob' \in {"idle", "ended"} /\ shutdown_event' \in BOOLEAN
      BY <1>4, TypeEndSession DEF BobResult
    <2>2. result' \in [Session -> Verdict \cup {NoVerdict}] /\ toBob' \in [Session -> Seq(BobMsg)]
      BY <1>0, <1>4 DEF BobResult, BobTypeOK, WireTypeOK
    <2>3. session_count' \in Nat /\ agents' \subseteq Pid
      BY <1>4 DEF BobResult, BobTypeOK
    <2>4. BobTypeOK' /\ WireTypeOK'
      BY <2>1, <2>2, <2>3 DEF BobTypeOK, WireTypeOK
    <2> QED
      BY <1>4, <2>1, <2>4 DEF BobResult
  <1>5. CASE BobReset(s)
    <2>1. MainTypeOK' /\ BobTypeOK' /\ WireTypeOK'
      BY <1>5, TypeEndSession DEF BobReset, BobTypeOK, WireTypeOK
    <2> QED
      BY <1>5, <2>1 DEF BobReset
  <1>6. CASE BobTakesUp(s)
    <2>1. BobTypeOK'
      BY <1>6 DEF BobTakesUp, BobTypeOK
    <2> QED
      BY <1>6, <2>1 DEF BobTakesUp
  <1>7. CASE BobTurnsAway(s)
    <2>1. MainTypeOK' /\ BobTypeOK' /\ WireTypeOK'
      BY <1>7, TypeEndSession DEF BobTurnsAway, BobTypeOK, WireTypeOK
    <2> QED
      BY <1>7, <2>1 DEF BobTurnsAway
  <1> QED
    BY <1>1, <1>2, <1>3, <1>4, <1>5, <1>6, <1>7 DEF BobNext

LEMMA TypeStop ==
  ASSUME TypeOK, BobInterrupted \/ BobExit
  PROVE  TypeOK'
  <1> USE AliceStable, AgentStable, LinkStable, BobAgentStable, WireStable DEF TypeOK
  <1>1. MainTypeOK'
    BY TypeStopAgents DEF BobInterrupted, BobExit
  <1>2. BobTypeOK'
    BY DEF BobInterrupted, BobExit, BobTypeOK
  <1> QED
    BY <1>1, <1>2 DEF BobInterrupted, BobExit

-----------------------------------------------------------------------------
(* The auxiliary facts, and the theorem.                                   *)

LEMMA AnswerHasAgentStep ==
  ASSUME TypeOK, AnswerHasAgent, [Next]_vars
  PROVE  AnswerHasAgent'
  <1>1. ASSUME NEW s \in Session, AliceNext(s) PROVE AnswerHasAgent'
    <2> USE <1>1 DEF AnswerHasAgent, TypeOK, AliceTypeOK
    <2>1. CASE AliceStart(s)
      BY <2>1 DEF AliceStart
    <2>2. CASE AliceConnect(s)
      BY <2>2 DEF AliceConnect
    <2>3. CASE AliceSendD(s)
      BY <2>3 DEF AliceSendD
    <2>4. CASE AliceSelect(s)
      BY <2>4 DEF AliceSelect
    <2>5. CASE AliceReport(s)
      BY <2>5 DEF AliceReport
    <2>6. CASE AliceTimeout(s)
      BY <2>6 DEF AliceTimeout
    <2>7. CASE AliceShutdown(s)
      BY <2>7 DEF AliceShutdown
    <2>8. CASE AliceKilled(s)
      BY <2>8 DEF AliceKilled
    <2> QED
      BY <2>1, <2>2, <2>3, <2>4, <2>5, <2>6, <2>7, <2>8 DEF AliceNext
  <1>2. ASSUME UNCHANGED <<alice, b>> PROVE AnswerHasAgent'
    BY <1>2 DEF AnswerHasAgent
  <1>3. ASSUME NEW s \in Session, NEW i \in Pid, AgentNext(s, i) PROVE UNCHANGED <<alice, b>>
    BY <1>3 DEF AgentNext, AgentConnect, AgentToken, AgentForward, AgentShutdown, AgentReply,
                aliceVars
  <1>4. ASSUME NEW s \in Session, NEW i \in Pid, ClientNext(s, i) PROVE UNCHANGED <<alice, b>>
    BY <1>4 DEF ClientNext, HandleClient, ClientToken, ClientEof, Verify, ClientReturns,
                aliceVars
  <1>5. ASSUME NEW i \in Pid, MainNext(i) PROVE UNCHANGED <<alice, b>>
    BY <1>5 DEF MainNext, RegisterAgent, MainBases, MainC, MainCNone, MainShutdown,
                BobAgentExit, aliceVars
  <1>6. ASSUME NEW s \in Session, BobNext(s) PROVE UNCHANGED <<alice, b>>
    BY <1>6 DEF BobNext, BobTakesUp, BobTurnsAway, BobStageI, BobNoD, BobStageII,
                BobResult, BobReset, aliceVars
  <1> QED
    BY <1>1, <1>2, <1>3, <1>4, <1>5, <1>6 DEF Next, BobInterrupted, BobExit, vars,
       aliceVars

LEMMA HandlerHasDataStep ==
  ASSUME TypeOK, HandlerHasData, [Next]_vars
  PROVE  HandlerHasData'
  <1> DEFINE Same == UNCHANGED <<handler, writer_client, token>>
  <1>1. ASSUME NEW s \in Session, NEW i \in Pid, ClientNext(s, i) PROVE HandlerHasData'
    <2> USE SessionType DEF HandlerHasData, TypeOK, BobAgentTypeOK
    <2>1. CASE HandleClient(s, i)
      BY <2>1 DEF HandleClient
    <2>2. CASE ClientToken(s, i)
      BY <2>2 DEF ClientToken
    <2>3. CASE ClientEof(s, i)
      BY <2>3 DEF ClientEof, dataVars
    <2>4. CASE Verify(s, i)
      BY <2>4 DEF Verify, dataVars
    <2>5. CASE ClientReturns(s, i)
      BY <2>5 DEF ClientReturns, dataVars
    <2> QED
      BY <1>1, <2>1, <2>2, <2>3, <2>4, <2>5 DEF ClientNext
  <1>2. ASSUME NEW i \in Pid, MainNext(i) PROVE HandlerHasData'
    <2>1. CASE BobAgentExit(i)
      BY <2>1 DEF BobAgentExit, HandlerHasData, TypeOK, BobAgentTypeOK, dataVars
    <2>2. CASE ~BobAgentExit(i)
      <3>1. Same
        BY <1>2, <2>2 DEF MainNext, RegisterAgent, MainBases, MainC, MainCNone, MainShutdown,
                          bobAgentVars, dataVars
      <3> QED
        BY <3>1 DEF HandlerHasData
    <2> QED
      BY <2>1, <2>2
  <1>3. ASSUME NEW s \in Session, AliceNext(s) PROVE Same
    BY <1>3 DEF AliceNext, AliceStart, AliceConnect, AliceSendD, AliceSelect, AliceReport,
                AliceTimeout, AliceShutdown, AliceKilled, bobAgentVars, dataVars
  <1>4. ASSUME NEW s \in Session, NEW i \in Pid, AgentNext(s, i) PROVE Same
    BY <1>4 DEF AgentNext, AgentConnect, AgentToken, AgentForward, AgentShutdown, AgentReply,
                bobAgentVars, dataVars
  <1>5. ASSUME NEW s \in Session, BobNext(s) PROVE Same
    BY <1>5 DEF BobNext, BobTakesUp, BobTurnsAway, BobStageI, BobNoD, BobStageII,
                BobResult, BobReset, bobAgentVars, dataVars
  <1>6. ASSUME BobInterrupted \/ BobExit \/ UNCHANGED vars PROVE Same
    BY <1>6 DEF BobInterrupted, BobExit, vars, bobAgentVars, dataVars
  <1>7. Same => HandlerHasData'
    BY DEF HandlerHasData
  <1> QED
    BY <1>1, <1>2, <1>3, <1>4, <1>5, <1>6, <1>7 DEF Next

LEMMA TypeStep ==
  ASSUME TypeOK, AnswerHasAgent, HandlerHasData, [Next]_vars
  PROVE  TypeOK'
  <1>1. CASE UNCHANGED vars
    BY <1>1, AliceStable, AgentStable, LinkStable, BobAgentStable, MainStable, BobStable,
       WireStable DEF vars, TypeOK
  <1> QED
    BY <1>1, TypeAlice, TypeAgent, TypeClient, TypeMain, TypeBob, TypeStop DEF Next

\* Every variable keeps its type, through every handler, failure and shutdown.
THEOREM TypeCorrect == Spec => []TypeOK
  <1> DEFINE Inv == TypeOK /\ AnswerHasAgent /\ HandlerHasData
  <1>1. Init => Inv
    <2>1. Init => AnswerHasAgent
      BY DEF Init, AnswerHasAgent
    <2>2. Init => HandlerHasData
      BY DEF Init, HandlerHasData
    <2> QED
      BY <2>1, <2>2, TypeInit
  <1>2. Inv /\ [Next]_vars => Inv'
    BY TypeStep, AnswerHasAgentStep, HandlerHasDataStep
  <1> QED
    BY <1>1, <1>2, PTL DEF Spec

-----------------------------------------------------------------------------
(***************************************************************************)
(* Part two: what is in flight.                                            *)
(* InFlightSound is inductive relative to TypeOK.  Its parts split by what *)
(* carries them: the values Alice draws never change once drawn (Frozen),  *)
(* so a part can only be broken by a step that writes one of the channels  *)
(* or data it speaks of, and each lemma below goes through those steps.    *)
(***************************************************************************)

(* What a channel holds after a send or a receive.                         *)

LEMMA RangeAppend ==
  ASSUME NEW S, NEW q \in Seq(S), NEW x \in S
  PROVE  Range(Append(q, x)) = Range(q) \cup {x}
  <1>1. DOMAIN Append(q, x) = (DOMAIN q) \cup {Len(q) + 1}
    OBVIOUS
  <1>2. \A k \in DOMAIN q : Append(q, x)[k] = q[k]
    OBVIOUS
  <1>3. Append(q, x)[Len(q) + 1] = x
    OBVIOUS
  <1> QED
    BY <1>1, <1>2, <1>3 DEF Range

LEMMA RangePair ==
  ASSUME NEW S, NEW q \in Seq(S), NEW x \in S, NEW y \in S
  PROVE  Range(q \o <<x, y>>) = Range(q) \cup {x, y}
  <1> DEFINE r == Append(q, x)
  <1>1. r \in Seq(S) /\ q \o <<x, y>> = Append(r, y)
    OBVIOUS
  <1>2. Range(r) = Range(q) \cup {x}
    BY RangeAppend
  <1> HIDE DEF r
  <1>3. Range(Append(r, y)) = Range(r) \cup {y}
    BY <1>1, RangeAppend
  <1> QED
    BY <1>1, <1>2, <1>3

LEMMA TailAt ==
  ASSUME NEW S, NEW q \in Seq(S), q # <<>>
  PROVE  /\ Tail(q) \in Seq(S) /\ Head(q) = q[1] /\ 1 \in DOMAIN q
         /\ \A k \in DOMAIN Tail(q) : k + 1 \in DOMAIN q /\ Tail(q)[k] = q[k + 1]
  OBVIOUS

LEMMA RangeTail ==
  ASSUME NEW S, NEW q \in Seq(S), q # <<>>
  PROVE  Range(Tail(q)) \subseteq Range(q) /\ Head(q) \in Range(q)
  BY TailAt DEF Range

-----------------------------------------------------------------------------
(* Which variables each process leaves alone.                              *)

LEMMA AliceFrame ==
  ASSUME NEW s \in Session, AliceNext(s)
  PROVE  UNCHANGED <<linkVars, bobAgentVars, toMain, bob, shutdown_event, agents, result>>
  BY DEF AliceNext, AliceStart, AliceConnect, AliceSendD, AliceSelect, AliceReport,
         AliceTimeout, AliceShutdown, AliceKilled, bobVars

LEMMA AgentFrame ==
  ASSUME NEW s \in Session, NEW i \in Pid, AgentNext(s, i)
  PROVE  UNCHANGED <<alice, z, b, closed, bobAgentVars, toMain, bobVars, wireVars>>
  BY DEF AgentNext, AgentConnect, AgentToken, AgentForward, AgentShutdown, AgentReply,
         aliceVars, linkVars

LEMMA ClientFrame ==
  ASSUME NEW s \in Session, NEW i \in Pid, ClientNext(s, i)
  PROVE  UNCHANGED <<aliceVars, agentVars, listener, d_i, d_tilde, toMain, bobVars, wireVars>>
  BY DEF ClientNext, HandleClient, ClientToken, ClientEof, Verify, ClientReturns,
         dataVars

LEMMA MainFrame ==
  ASSUME NEW i \in Pid, MainNext(i)
  PROVE  UNCHANGED <<aliceVars, agentVars, present, token, writer_client, verdicts, bob,
                     shutdown_event, alice_queue, result, wireVars>>
  BY DEF MainNext, RegisterAgent, MainBases, MainC, MainCNone, MainShutdown, BobAgentExit,
         bobAgentVars, dataVars, linkVars, bobVars

LEMMA BobFrame ==
  ASSUME NEW s \in Session, BobNext(s)
  PROVE  UNCHANGED <<aliceVars, agentVars, linkVars, bobAgentVars, agents>>
  BY DEF BobNext, BobTakesUp, BobTurnsAway, BobStageI, BobNoD, BobStageII,
                BobResult, BobReset

LEMMA StopFrame ==
  ASSUME BobInterrupted \/ BobExit
  PROVE  /\ UNCHANGED <<aliceVars, agentVars, linkVars, bobAgentVars, agents, alice_queue,
                        result, wireVars>>
         /\ StopAgents
  BY DEF BobInterrupted, BobExit

-----------------------------------------------------------------------------
(* z and b are written once.                                               *)

Frozen ==
  \A s \in Session :
    /\ Selected(s) => b'[s] = b[s]
    /\ Masked(s) => alice'[s] \notin {"down", "gather", "connected"} /\ z'[s] = z[s]

LEMMA FrozenAlice ==
  ASSUME TypeOK, SelectedLast, NEW s \in Session, AliceNext(s)
  PROVE  Frozen /\ SelectedLast'
  <1> USE NoPidFresh DEF Frozen, Masked, Selected, SelectedLast, TypeOK, AliceTypeOK
  <1>1. CASE AliceStart(s)
    BY <1>1 DEF AliceStart
  <1>2. CASE AliceConnect(s)
    BY <1>2 DEF AliceConnect
  <1>3. CASE AliceSendD(s)
    BY <1>3 DEF AliceSendD
  <1>4. CASE AliceSelect(s)
    BY <1>4 DEF AliceSelect
  <1>5. CASE AliceReport(s)
    BY <1>5 DEF AliceReport
  <1>6. CASE AliceTimeout(s)
    BY <1>6 DEF AliceTimeout
  <1>7. CASE AliceShutdown(s)
    BY <1>7 DEF AliceShutdown
  <1>8. CASE AliceKilled(s)
    BY <1>8 DEF AliceKilled, AliceUp
  <1> QED
    BY <1>1, <1>2, <1>3, <1>4, <1>5, <1>6, <1>7, <1>8 DEF AliceNext

LEMMA FrozenStep ==
  ASSUME TypeOK, SelectedLast, [Next]_vars
  PROVE  Frozen /\ SelectedLast'
  <1>1. ASSUME UNCHANGED <<alice, z, b>> PROVE Frozen /\ SelectedLast'
    BY <1>1 DEF Frozen, SelectedLast, Masked, Selected
  <1>2. CASE \E s \in Session : AliceNext(s)
    BY <1>2, FrozenAlice
  <1>3. CASE ~\E s \in Session : AliceNext(s)
    <2>1. UNCHANGED <<alice, z, b>>
      BY <1>3, AgentFrame, ClientFrame, MainFrame, BobFrame, StopFrame
         DEF Next, vars, aliceVars
    <2> QED
      BY <1>1, <2>1
  <1> QED
    BY <1>2, <1>3

-----------------------------------------------------------------------------
(* d and c on the wire from Alice to Bob.                                  *)

\* What WireSound says of one message of session s.
Sound(m, s) ==
  /\ m.type = "d" => Masked(s) /\ m.mask = z[s]
  /\ m.type = "c" => Selected(s) /\ m.mask = Xor(b[s], z[s])

LEMMA SoundStays ==
  ASSUME SelectedLast, Frozen, NEW s \in Session, NEW m, Sound(m, s)
  PROVE  Sound(m, s)'
  BY DEF SelectedLast, Frozen, Sound, Masked, Selected

LEMMA WireSoundAlice ==
  ASSUME TypeOK, SelectedLast, AnswerHasAgent, WireSound, Frozen, NEW s \in Session, AliceNext(s)
  PROVE  WireSound'
  <1> DEFINE New == {m \in BobMsg : Sound(m, s)'}
  <1>0. /\ \A t \in Session : toBob[t] \in Seq(BobMsg)
        /\ \A t \in Session : \A m \in Range(toBob[t]) : Sound(m, t)'
    BY SoundStays DEF TypeOK, WireTypeOK, WireSound, Sound
  <1>1. ASSUME \A t \in Session : \A m \in Range(toBob'[t]) : m \in Range(toBob[t]) \/ (t = s /\ m \in New)
        PROVE  WireSound'
    BY <1>0, <1>1 DEF WireSound, Sound
  <1>2. ASSUME NEW m \in New, toBob' = [toBob EXCEPT ![s] = Append(@, m)]
        PROVE  WireSound'
    <2>1. Range(toBob'[s]) = Range(toBob[s]) \cup {m}
      BY <1>0, <1>2, RangeAppend DEF TypeOK, WireTypeOK
    <2> QED
      BY <1>1, <1>2, <2>1 DEF TypeOK, WireTypeOK
  <1>3. ASSUME UNCHANGED toBob PROVE WireSound'
    BY <1>1, <1>3
  <1>4. Eof \in New
    BY EofType DEF Eof, Sound
  <1>5. CASE AliceStart(s) \/ AliceConnect(s) \/ AliceShutdown(s)
    BY <1>3, <1>5 DEF AliceStart, AliceConnect, AliceShutdown, wireVars
  <1>6. CASE AliceSendD(s)
    <2>1. PICK m \in Pid : /\ z' = [z EXCEPT ![s] = m]
                           /\ toBob' = [toBob EXCEPT ![s] = Append(@, [type |-> "d", mask |-> m])]
      BY <1>6 DEF AliceSendD
    <2>2. [type |-> "d", mask |-> m] \in New
      BY <1>6, <2>1 DEF AliceSendD, Sound, Masked, BobMsg, TypeOK, AliceTypeOK
    <2> QED
      BY <1>2, <2>1, <2>2
  <1>7. CASE AliceSelect(s)
    <2>1. PICK p \in agents_conns[s] :
            /\ b' = [b EXCEPT ![s] = p]
            /\ toBob' = [toBob EXCEPT ![s] = Append(@, [type |-> "c", mask |-> Xor(p, z[s])])]
      BY <1>7 DEF AliceSelect
    <2>2. p \in Pid /\ b'[s] = p /\ UNCHANGED z
      BY <1>7, <2>1 DEF AliceSelect, TypeOK, AliceTypeOK
    <2>3. [type |-> "c", mask |-> Xor(p, z[s])] \in New
      BY <2>2, XorType, NoPidFresh DEF Sound, Selected, BobMsg, TypeOK, AliceTypeOK
    <2> QED
      BY <1>2, <2>1, <2>3
  <1>8. CASE AliceReport(s)
    <2> DEFINE h == Head(toAlice[s][b[s]])
               m == [type |-> "result", v |-> IF h.type = "result" THEN h.v ELSE NoVerdict]
    <2>1. b[s] \in Pid
      BY <1>8 DEF AliceReport, AnswerHasAgent
    <2>2. h \in ReplyMsg
      BY <1>8, <2>1 DEF AliceReport, TypeOK, AgentTypeOK
    <2>3. m \in BobMsg /\ m.type = "result"
      BY <2>2 DEF ReplyMsg, Result, Eof, BobMsg
    <2>4. toBob' = [toBob EXCEPT ![s] = toBob[s] \o <<m, Eof>>]
      BY <1>8 DEF AliceReport
    <2> HIDE DEF m
    <2>5. m \in New
      BY <2>3 DEF Sound
    <2>6. Range(toBob[s] \o <<m, Eof>>) = Range(toBob[s]) \cup {m, Eof}
      BY <1>0, <2>3, EofType, RangePair
    <2>7. Range(toBob'[s]) = Range(toBob[s]) \cup {m, Eof}
      BY <2>4, <2>6 DEF TypeOK, WireTypeOK
    <2> QED
      BY <1>1, <1>4, <2>4, <2>5, <2>7 DEF TypeOK, WireTypeOK
  <1>9. CASE AliceTimeout(s)
    BY <1>2, <1>4, <1>9 DEF AliceTimeout
  <1>10. CASE AliceKilled(s)
    BY <1>2, <1>3, <1>4, <1>10 DEF AliceKilled
  <1> QED
    BY <1>5, <1>6, <1>7, <1>8, <1>9, <1>10 DEF AliceNext

LEMMA WireSoundStep ==
  ASSUME TypeOK, SelectedLast, AnswerHasAgent, WireSound, [Next]_vars
  PROVE  WireSound'
  <1>1. Frozen
    BY FrozenStep
  <1>2. ASSUME \A s \in Session : Range(toBob'[s]) \subseteq Range(toBob[s]) PROVE WireSound'
    BY <1>1, <1>2, SoundStays DEF WireSound, Sound
  <1>3. ASSUME NEW s \in Session, BobNext(s) PROVE WireSound'
    <2>1. CASE toBob' = [toBob EXCEPT ![s] = Tail(@)] /\ toBob[s] # <<>>
      <3>1. toBob[s] \in Seq(BobMsg)
        BY DEF TypeOK, WireTypeOK
      <3>2. Range(Tail(toBob[s])) \subseteq Range(toBob[s])
        BY <2>1, <3>1, RangeTail
      <3> QED
        BY <1>2, <2>1, <3>2 DEF TypeOK, WireTypeOK
    <2>2. CASE UNCHANGED toBob
      BY <1>2, <2>2
    <2> QED
      BY <1>3, <2>1, <2>2 DEF BobNext, BobTakesUp, BobTurnsAway, BobStageI, BobNoD, BobStageII,
                              BobResult, BobReset, wireVars
  <1> QED
    BY <1>1, <1>2, <1>3, WireSoundAlice, AgentFrame, ClientFrame, MainFrame, StopFrame
       DEF Next, vars, wireVars

-----------------------------------------------------------------------------
(* The token request and the token.                                        *)

RequestRoute == \A s \in Session, i \in Pid : "send_token" \in Range(toAgent[s][i]) => b[s] = i
PresentRoute == \A s \in Session, i \in Pid : "token" \in Range(present[s][i]) => b[s] = i

LEMMA TokenRouteParts == TokenRoute <=> RequestRoute /\ PresentRoute
  BY DEF TokenRoute, RequestRoute, PresentRoute

\* b[s] = i for an i \in Pid is final.
LEMMA RouteStays ==
  ASSUME Frozen, NEW s \in Session, NEW i \in Pid, b[s] = i
  PROVE  b'[s] = i
  BY NoPidFresh DEF Frozen, Selected

LEMMA RequestRouteAlice ==
  ASSUME TypeOK, RequestRoute, Frozen, NEW s \in Session, AliceNext(s)
  PROVE  RequestRoute'
  <1> DEFINE Word == {"token", "send_token", "eof"}
  <1>0. \A t \in Session, i \in Pid : toAgent[t][i] \in Seq(Word)
    BY DEF TypeOK, AgentTypeOK
  <1>1. \A t \in Session, i \in Pid : "send_token" \in Range(toAgent[t][i]) => b'[t] = i
    BY RouteStays DEF RequestRoute
  <1>2. ASSUME \A t \in Session, i \in Pid : "send_token" \in Range(toAgent'[t][i]) =>
                 "send_token" \in Range(toAgent[t][i])
        PROVE  RequestRoute'
    BY <1>1, <1>2 DEF RequestRoute
  <1>3. \A t \in Session, i \in Pid :
          \A w \in {"token", "eof"} :
             "send_token" \in Range(Append(toAgent[t][i], w)) => "send_token" \in Range(toAgent[t][i])
    <2> SUFFICES ASSUME NEW t \in Session, NEW i \in Pid, NEW w \in {"token", "eof"},
                        "send_token" \in Range(Append(toAgent[t][i], w))
                 PROVE  "send_token" \in Range(toAgent[t][i])
      OBVIOUS
    <2>1. toAgent[t][i] \in Seq(Word) /\ w \in Word
      BY <1>0
    <2>2. Range(Append(toAgent[t][i], w)) = Range(toAgent[t][i]) \cup {w}
      BY <2>1, RangeAppend
    <2> QED
      BY <2>2
  <1>4. CASE UNCHANGED toAgent
    BY <1>2, <1>4
  <1>5. CASE ShutdownAgents(s)
    <2>1. \A t \in Session : t # s => toAgent'[t] = toAgent[t]
      BY <1>5 DEF ShutdownAgents, TypeOK, AgentTypeOK
    <2>2. \A i \in Pid : toAgent'[s][i] \in {toAgent[s][i], Append(toAgent[s][i], "eof")}
      BY <1>5 DEF ShutdownAgents, TypeOK, AgentTypeOK
    <2>3. \A i \in Pid : "send_token" \in Range(toAgent'[s][i]) => "send_token" \in Range(toAgent[s][i])
      BY <1>3, <2>2
    <2> QED
      BY <1>2, <2>1, <2>3
  <1>6. CASE AliceConnect(s)
    <2>1. \A t \in Session : t # s => toAgent'[t] = toAgent[t]
      BY <1>6 DEF AliceConnect, TypeOK, AgentTypeOK
    <2>2. CASE shutdown_event
      <3>1. ASSUME NEW i \in Pid, "send_token" \in Range(toAgent[s][i] \o <<"token", "eof">>)
            PROVE  "send_token" \in Range(toAgent[s][i])
        <4>1. Range(toAgent[s][i] \o <<"token", "eof">>) = Range(toAgent[s][i]) \cup {"token", "eof"}
          <5>1. toAgent[s][i] \in Seq(Word) /\ "token" \in Word /\ "eof" \in Word
            BY <1>0
          <5> HIDE DEF Word
          <5> QED
            BY <5>1, RangePair
        <4> QED
          BY <3>1, <4>1
      <3>2. \A i \in Pid : toAgent'[s][i] = toAgent[s][i] \o <<"token", "eof">>
        BY <1>6, <2>2 DEF AliceConnect, TypeOK, AgentTypeOK
      <3>3. \A i \in Pid : "send_token" \in Range(toAgent'[s][i]) => "send_token" \in Range(toAgent[s][i])
        BY <3>1, <3>2
      <3> QED
        BY <1>2, <2>1, <3>3
    <2>3. CASE ~shutdown_event
      <3>1. \A i \in Pid : toAgent'[s][i] = Append(toAgent[s][i], "token")
        BY <1>6, <2>3 DEF AliceConnect, TypeOK, AgentTypeOK
      <3>2. \A i \in Pid : "send_token" \in Range(toAgent'[s][i]) => "send_token" \in Range(toAgent[s][i])
        BY <1>3, <3>1
      <3> QED
        BY <1>2, <2>1, <3>2
    <2> QED
      BY <2>2, <2>3
  <1>7. CASE AliceSelect(s)
    <2>1. PICK p \in agents_conns[s] :
            /\ b' = [b EXCEPT ![s] = p]
            /\ toAgent' = [toAgent EXCEPT ![s] =
                             [i \in Pid |-> IF i \in Asked(s, p) THEN Append(@[i], "send_token")
                                            ELSE @[i]]]
      BY <1>7 DEF AliceSelect
    <2>2. b'[s] = p
      BY <2>1 DEF TypeOK, AliceTypeOK
    <2>3. \A t \in Session, i \in Pid : toAgent'[t][i] # toAgent[t][i] => t = s /\ i = p
      BY <2>1 DEF Asked, TypeOK, AgentTypeOK
    <2> QED
      BY <1>1, <2>2, <2>3 DEF RequestRoute
  <1> QED
    BY <1>4, <1>5, <1>6, <1>7
       DEF AliceNext, AliceStart, AliceSendD, AliceReport, AliceTimeout, AliceShutdown,
           AliceKilled, agentVars

LEMMA RequestRouteStep ==
  ASSUME TypeOK, RequestRoute, Frozen, [Next]_vars
  PROVE  RequestRoute'
  <1>1. ASSUME \A t \in Session, i \in Pid : Range(toAgent'[t][i]) \subseteq Range(toAgent[t][i])
        PROVE  RequestRoute'
    BY <1>1, RouteStays DEF RequestRoute
  <1>2. ASSUME NEW s \in Session, NEW i \in Pid, AgentNext(s, i) PROVE RequestRoute'
    <2>1. CASE toAgent' = [toAgent EXCEPT ![s][i] = Tail(@)] /\ toAgent[s][i] # <<>>
      <3>1. toAgent[s][i] \in Seq({"token", "send_token", "eof"})
        BY DEF TypeOK, AgentTypeOK
      <3>2. Range(Tail(toAgent[s][i])) \subseteq Range(toAgent[s][i])
        BY <2>1, <3>1, RangeTail
      <3> QED
        BY <1>1, <2>1, <3>2 DEF TypeOK, AgentTypeOK
    <2>2. CASE UNCHANGED toAgent
      BY <1>1, <2>2
    <2> QED
      BY <1>2, <2>1, <2>2
         DEF AgentNext, AgentConnect, AgentToken, AgentForward, AgentShutdown, AgentReply
  <1>3. ASSUME UNCHANGED toAgent PROVE RequestRoute'
    BY <1>1, <1>3
  <1>4. CASE (\E s \in Session : AliceNext(s)) \/ (\E s \in Session, i \in Pid : AgentNext(s, i))
    BY <1>2, <1>4, RequestRouteAlice
  <1>5. CASE ~ <1>4!1
    <2>1. UNCHANGED toAgent
      BY <1>5, ClientFrame, MainFrame, BobFrame, StopFrame DEF Next, vars, agentVars
    <2> QED
      BY <1>3, <2>1
  <1> QED
    BY <1>4, <1>5

LEMMA PresentRouteStep ==
  ASSUME TypeOK, TokenRoute, Frozen, [Next]_vars
  PROVE  PresentRoute'
  <1> DEFINE Word == {"token", "eof"}
  <1>0. \A t \in Session, j \in Pid : present[t][j] \in Seq(Word)
    BY DEF TypeOK, LinkTypeOK
  <1>1. ASSUME \A t \in Session, j \in Pid : "token" \in Range(present'[t][j]) =>
                 "token" \in Range(present[t][j]) \/ b[t] = j
        PROVE  PresentRoute'
    BY <1>1, RouteStays DEF TokenRoute, PresentRoute
  <1>2. \A t \in Session, j \in Pid :
          "token" \in Range(Append(present[t][j], "eof")) => "token" \in Range(present[t][j])
    <2> SUFFICES ASSUME NEW t \in Session, NEW j \in Pid,
                        "token" \in Range(Append(present[t][j], "eof"))
                 PROVE  "token" \in Range(present[t][j])
      OBVIOUS
    <2>1. Range(Append(present[t][j], "eof")) = Range(present[t][j]) \cup {"eof"}
      BY <1>0, RangeAppend
    <2> QED
      BY <2>1
  <1>3. CASE UNCHANGED present
    BY <1>1, <1>3
  <1>4. ASSUME NEW s \in Session, NEW i \in Pid, AgentNext(s, i) PROVE PresentRoute'
    <2>1. CASE AgentForward(s, i)
      <3>1. "send_token" \in Range(toAgent[s][i])
        <4>1. toAgent[s][i] \in Seq({"token", "send_token", "eof"}) /\ toAgent[s][i] # <<>>
          BY <2>1 DEF AgentForward, TypeOK, AgentTypeOK
        <4> QED
          BY <2>1, <4>1, RangeTail DEF AgentForward
      <3>2. b[s] = i
        BY <3>1 DEF TokenRoute
      <3>3. \A t \in Session, j \in Pid : present'[t][j] # present[t][j] => t = s /\ j = i
        BY <2>1 DEF AgentForward, TypeOK, LinkTypeOK
      <3> QED
        BY <1>1, <3>2, <3>3
    <2>2. ASSUME NEW said, AgentStop(s, i, said) PROVE PresentRoute'
      <3>1. \A t \in Session, j \in Pid :
              present'[t][j] = present[t][j] \/ present'[t][j] = Append(present[t][j], "eof")
        BY <2>2 DEF AgentStop, TypeOK, LinkTypeOK
      <3>2. \A t \in Session, j \in Pid :
              "token" \in Range(present'[t][j]) => "token" \in Range(present[t][j])
        BY <1>2, <3>1
      <3> QED
        BY <1>1, <3>2
    <2>3. CASE AgentShutdown(s, i) \/ AgentReply(s, i)
      BY <2>2, <2>3 DEF AgentShutdown, AgentReply
    <2>4. CASE AgentConnect(s, i) \/ AgentToken(s, i)
      BY <1>3, <2>4 DEF AgentConnect, AgentToken, linkVars
    <2> QED
      BY <1>4, <2>1, <2>3, <2>4 DEF AgentNext
  <1>5. ASSUME NEW s \in Session, NEW i \in Pid, ClientNext(s, i) PROVE PresentRoute'
    <2>1. CASE ClientToken(s, i)
      <3>1. Range(Tail(present[s][i])) \subseteq Range(present[s][i])
        BY <1>0, <2>1, RangeTail DEF ClientToken
      <3> QED
        BY <1>1, <2>1, <3>1 DEF ClientToken, TypeOK, LinkTypeOK
    <2>2. CASE ~ClientToken(s, i)
      BY <1>3, <1>5, <2>2 DEF ClientNext, HandleClient, ClientEof, Verify, ClientReturns,
                             linkVars
    <2> QED
      BY <2>1, <2>2
  <1>6. CASE (\E s \in Session, i \in Pid : AgentNext(s, i) \/ ClientNext(s, i))
    BY <1>4, <1>5, <1>6
  <1>7. CASE ~ <1>6!1
    <2>1. UNCHANGED present
      BY <1>7, AliceFrame, MainFrame, BobFrame, StopFrame DEF Next, vars, linkVars
    <2> QED
      BY <1>3, <2>1
  <1> QED
    BY <1>6, <1>7

LEMMA TokenOnlyStep ==
  ASSUME TypeOK, TokenRoute, TokenOnlyAtSelected, Frozen, [Next]_vars
  PROVE  TokenOnlyAtSelected'
  <1>0. \A i \in Pid : token[i] # 0 => token[i] \in Session /\ b'[token[i]] = i
    <2>1. \A i \in Pid : token[i] # 0 => token[i] \in Session
      BY NAssumption DEF TypeOK, BobAgentTypeOK, Session
    <2> QED
      BY <2>1, RouteStays DEF TokenOnlyAtSelected
  <1>1. CASE UNCHANGED token
    BY <1>0, <1>1 DEF TokenOnlyAtSelected
  <1>2. ASSUME NEW s \in Session, NEW i \in Pid, ClientToken(s, i)
        PROVE  TokenOnlyAtSelected'
    <2>1. "token" \in Range(present[s][i])
      <3>1. present[s][i] \in Seq({"token", "eof"}) /\ present[s][i] # <<>>
        BY <1>2 DEF ClientToken, TypeOK, LinkTypeOK
      <3> QED
        BY <1>2, <3>1, RangeTail DEF ClientToken
    <2>2. b'[s] = i
      BY <2>1, RouteStays DEF TokenRoute
    <2> QED
      BY <1>0, <1>2, <2>2
         DEF ClientToken, TokenOnlyAtSelected, TypeOK, BobAgentTypeOK
  <1>3. CASE \E s \in Session, i \in Pid : ClientNext(s, i)
    BY <1>1, <1>2, <1>3 DEF ClientNext, HandleClient, ClientEof, Verify, ClientReturns,
                           dataVars
  <1>4. CASE ~ <1>3!1
    <2>1. UNCHANGED token
      BY <1>4, AliceFrame, AgentFrame, MainFrame, BobFrame, StopFrame
         DEF Next, vars, bobAgentVars, dataVars
    <2> QED
      BY <1>1, <2>1
  <1> QED
    BY <1>3, <1>4

-----------------------------------------------------------------------------
(* The blinded bases and c, from Bob to the BobAgents.                     *)

\* A basis string with y = 0 is NoBasis to every reader.
LEMMA BlindedNotNone ==
  ASSUME NEW basis, NEW i \in Pid, Blinded(basis, i)
  PROVE  basis # NoBasis
  BY SessionType DEF Blinded, NoBasis

LEMMA BlindedStays ==
  ASSUME Frozen, NEW basis, NEW i \in Pid, Blinded(basis, i)
  PROVE  Blinded(basis, i)'
  BY DEF Frozen, Blinded, Masked

LEMMA UnblindsStays ==
  ASSUME SelectedLast, Frozen, NEW basis, NEW c, Unblinds(c, basis)
  PROVE  Unblinds(c, basis)'
  BY DEF SelectedLast, Frozen, Unblinds, Masked, Selected

\* What Bob sends once he has told his agents to stop is lost.
LEMMA LostAtStop ==
  ASSUME TypeOK, shutdown_event, NEW s \in Session, BobStageI(s) \/ BobStageII(s)
  PROVE  UNCHANGED toMain
  <1>1. toMain' = [i \in Pid |-> toMain[i]]
    BY DEF BobStageI, BobStageII, SendMain
  <1> QED
    BY <1>1 DEF TypeOK, MainTypeOK

LEMMA BasesBlindedStep ==
  ASSUME TypeOK, WireSound, BasesBlinded, Frozen, [Next]_vars
  PROVE  BasesBlinded'
  <1>0. \A i \in Pid : toMain[i] \in Seq(MainMsg)
    BY DEF TypeOK, MainTypeOK
  <1>1. ASSUME \A i \in Pid :
                 /\ d_i'[i] # d_i[i] => Blinded(d_i'[i], i)
                 /\ \A m \in Range(toMain'[i]) :
                      m \in Range(toMain[i]) \/ (m.type = "d_i" => Blinded(m.basis, i)')
        PROVE  BasesBlinded'
    BY <1>1, BlindedStays DEF BasesBlinded
  <1>2. CASE UNCHANGED <<toMain, d_i>>
    BY <1>1, <1>2
  <1>3. ASSUME NEW i \in Pid, MainNext(i) PROVE BasesBlinded'
    <2>1. CASE toMain[i] # <<>> /\ toMain' = [toMain EXCEPT ![i] = Tail(@)] /\ UNCHANGED d_i
      <3>1. Range(Tail(toMain[i])) \subseteq Range(toMain[i])
        BY <1>0, <2>1, RangeTail
      <3> QED
        BY <1>1, <2>1, <3>1 DEF TypeOK, MainTypeOK
    <2>2. CASE MainBases(i)
      <3>1. /\ Range(Tail(toMain[i])) \subseteq Range(toMain[i])
            /\ Head(toMain[i]) \in Range(toMain[i])
        BY <1>0, <2>2, RangeTail DEF MainBases
      <3>2. Blinded(Head(toMain[i]).basis, i)
        BY <2>2, <3>1 DEF MainBases, BasesBlinded
      <3>3. /\ d_i' = [d_i EXCEPT ![i] = Head(toMain[i]).basis]
            /\ toMain' = [toMain EXCEPT ![i] = Tail(@)]
        BY <2>2 DEF MainBases
      <3> QED
        BY <1>1, <3>1, <3>2, <3>3 DEF TypeOK, MainTypeOK, BobAgentTypeOK
    <2>3. CASE RegisterAgent(i) \/ BobAgentExit(i)
      BY <1>2, <2>3 DEF RegisterAgent, BobAgentExit, bobAgentVars, dataVars
    <2> QED
      BY <1>3, <2>1, <2>2, <2>3 DEF MainNext, MainC, MainCNone, MainShutdown, dataVars
  <1>4. ASSUME StopAgents, UNCHANGED d_i PROVE BasesBlinded'
    <2>1. \A i \in Pid : Range(Append(toMain[i], Eof)) = Range(toMain[i]) \cup {Eof}
      BY <1>0, EofType, RangeAppend
    <2>2. \A i \in Pid : Range(toMain'[i]) \subseteq Range(toMain[i]) \cup {Eof}
      BY <1>4, <2>1 DEF StopAgents
    <2> QED
      BY <1>1, <1>4, <2>2 DEF Eof
  <1>5. ASSUME NEW s \in Session, BobNext(s) PROVE BasesBlinded'
    <2>0. UNCHANGED d_i
      BY <1>5, BobFrame DEF bobAgentVars, dataVars
    <2>1. CASE BobStageI(s) /\ ~shutdown_event
      <3> DEFINE h == Head(toBob[s])
                 m(i) == [type |-> "d_i", basis |-> BlindedFor(s, i, h.mask)]
      <3>1. h \in BobMsg /\ h \in Range(toBob[s]) /\ h.type = "d"
        BY <2>1, RangeTail DEF BobStageI, TypeOK, WireTypeOK
      <3>2. Masked(s) /\ h.mask = z[s] /\ z[s] \in Pid
        BY <3>1 DEF WireSound, TypeOK, AliceTypeOK
      <3>3. \A i \in Pid : Blinded(m(i).basis, i) /\ m(i) \in MainMsg
        BY <3>2, XorType, SessionType DEF Blinded, BlindedFor, MainMsg, Basis
      <3>4. \A i \in Pid : toMain'[i] = Append(toMain[i], m(i))
        BY <2>1 DEF BobStageI, SendMain
      <3> HIDE DEF m
      <3>5. ASSUME NEW i \in Pid PROVE Range(toMain'[i]) = Range(toMain[i]) \cup {m(i)}
        <4>1. toMain[i] \in Seq(MainMsg) /\ m(i) \in MainMsg
          BY <1>0, <3>3
        <4>2. Range(Append(toMain[i], m(i))) = Range(toMain[i]) \cup {m(i)}
          BY <4>1, RangeAppend
        <4> QED
          BY <3>4, <4>2
      <3> QED
        BY <1>1, <2>0, <3>3, <3>5, BlindedStays
    <2>2. CASE BobStageII(s) /\ ~shutdown_event
      <3> DEFINE m == IF Head(toBob[s]).type = "c" THEN [type |-> "c", c |-> Head(toBob[s]).mask]
                      ELSE [type |-> "c_none"]
      <3>1. m \in MainMsg /\ m.type # "d_i"
        <4>1. Head(toBob[s]) \in BobMsg
          BY <2>2, RangeTail, TailAt DEF BobStageII, TypeOK, WireTypeOK
        <4> QED
          BY <4>1 DEF BobMsg, ReplyMsg, Result, Eof, MainMsg
      <3>2. \A i \in Pid : toMain'[i] = Append(toMain[i], m)
        BY <2>2 DEF BobStageII, SendMain
      <3> HIDE DEF m
      <3>3. ASSUME NEW i \in Pid PROVE Range(toMain'[i]) = Range(toMain[i]) \cup {m}
        <4>1. Range(Append(toMain[i], m)) = Range(toMain[i]) \cup {m}
          BY <1>0, <3>1, RangeAppend
        <4> QED
          BY <3>2, <4>1
      <3> QED
        BY <1>1, <2>0, <3>1, <3>3
    <2>3. CASE EndSession(s)
      BY <1>2, <1>4, <2>0, <2>3 DEF EndSession
    <2>4. CASE (shutdown_event /\ (BobStageI(s) \/ BobStageII(s))) \/ BobTakesUp(s)
      BY <1>2, <2>0, <2>4, LostAtStop DEF BobTakesUp
    <2> QED
      BY <1>5, <2>1, <2>2, <2>3, <2>4 DEF BobNext, BobNoD, BobResult, BobReset, BobTurnsAway
  <1>6. CASE BobInterrupted \/ BobExit
    BY <1>4, <1>6, StopFrame DEF bobAgentVars, dataVars
  <1>7. ASSUME NEW s \in Session,
               AliceNext(s) \/ \E i \in Pid : AgentNext(s, i) \/ ClientNext(s, i)
        PROVE  UNCHANGED <<toMain, d_i>>
    BY <1>7, AliceFrame, AgentFrame, ClientFrame DEF bobAgentVars, dataVars
  <1>8. CASE UNCHANGED vars
    BY <1>2, <1>8 DEF vars, bobAgentVars, dataVars
  <1> QED
    BY <1>2, <1>3, <1>5, <1>6, <1>7, <1>8 DEF Next

\* Receiving the head of q, which becomes the bases held if it carries some.
LEMMA PairedTail ==
  ASSUME NEW q \in Seq(MainMsg), q # <<>>, NEW d, NEW e, Paired(q, d),
         Head(q).type = "d_i" => e = Head(q).basis
  PROVE  Paired(Tail(q), e)
  <1> SUFFICES ASSUME NEW k \in DOMAIN Tail(q), Tail(q)[k].type = "c"
               PROVE  IF k = 1 THEN Unblinds(Tail(q)[k].c, e)
                      ELSE Tail(q)[k - 1].type = "d_i" /\ Unblinds(Tail(q)[k].c, Tail(q)[k - 1].basis)
    BY DEF Paired
  <1>1. k \in Nat /\ k + 1 \in DOMAIN q /\ Tail(q)[k] = q[k + 1] /\ Head(q) = q[1] /\ k > 0
    OBVIOUS
  <1>2. q[k].type = "d_i" /\ Unblinds(q[k + 1].c, q[k].basis)
    BY <1>1 DEF Paired
  <1>3. k # 1 => Tail(q)[k - 1] = q[k]
    BY <1>1
  <1> QED
    BY <1>1, <1>2, <1>3

LEMMA PairedAppend ==
  ASSUME NEW q \in Seq(MainMsg), NEW d, NEW m \in MainMsg, Paired(q, d),
         m.type = "c" => IF q = <<>> THEN Unblinds(m.c, d)
                         ELSE q[Len(q)].type = "d_i" /\ Unblinds(m.c, q[Len(q)].basis)
  PROVE  Paired(Append(q, m), d)
  <1> DEFINE r == Append(q, m)
  <1> SUFFICES ASSUME NEW k \in DOMAIN r, r[k].type = "c"
               PROVE  IF k = 1 THEN Unblinds(r[k].c, d)
                      ELSE r[k - 1].type = "d_i" /\ Unblinds(r[k].c, r[k - 1].basis)
    BY DEF Paired
  <1>1. k \in 1..(Len(q) + 1) /\ Len(q) \in Nat /\ DOMAIN q = 1..Len(q)
    OBVIOUS
  <1>2. \A n \in 1..Len(q) : r[n] = q[n]
    OBVIOUS
  <1>3. r[Len(q) + 1] = m
    OBVIOUS
  <1> HIDE DEF r
  <1>4. CASE k = Len(q) + 1
    <2>1. CASE Len(q) = 0
      <3>1. q = <<>>
        BY <2>1
      <3> QED
        BY <1>3, <1>4, <2>1, <3>1
    <2>2. CASE Len(q) # 0
      <3>1. q # <<>> /\ k - 1 = Len(q) /\ Len(q) \in 1..Len(q) /\ k # 1
        BY <1>1, <1>4, <2>2
      <3> QED
        BY <1>2, <1>3, <1>4, <3>1
    <2> QED
      BY <2>1, <2>2
  <1>5. CASE k # Len(q) + 1
    <2>1. k \in DOMAIN q /\ r[k] = q[k] /\ (k # 1 => r[k - 1] = q[k - 1])
      BY <1>1, <1>2, <1>5
    <2> QED
      BY <2>1 DEF Paired
  <1> QED
    BY <1>4, <1>5

LEMMA PendingTail ==
  ASSUME NEW q \in Seq(MainMsg), q # <<>>, NEW d, NEW e, NEW s, Pending(q, d, s),
         Head(q).type = "d_i" => e = Head(q).basis
  PROVE  Pending(Tail(q), e, s)
  <1>1. q[Len(q)].type = "d_i" /\ q[Len(q)].basis.y = s
    BY DEF Pending
  <1> DEFINE t == Tail(q)
  <1>0. /\ Len(q) \in Nat /\ Len(q) # 0 /\ Head(q) = q[1]
        /\ t \in Seq(MainMsg) /\ Len(t) = Len(q) - 1
        /\ \A k \in 1..(Len(q) - 1) : t[k] = q[k + 1]
    OBVIOUS
  <1> HIDE DEF t
  <1>2. CASE Len(q) = 1
    <2>1. \A r \in Seq(MainMsg) : Len(r) = 0 => r = <<>>
      OBVIOUS
    <2>2. t = <<>>
      BY <1>0, <1>2, <2>1
    <2>3. Pending(t, e, s)
      BY <1>0, <1>1, <1>2, <2>2 DEF Pending
    <2> QED
      BY <2>3 DEF t
  <1>3. CASE Len(q) # 1
    <2>1. Len(t) \in 1..(Len(q) - 1) /\ Len(t) + 1 = Len(q)
      BY <1>0, <1>3
    <2>2. t # <<>>
      BY <2>1
    <2>3. t[Len(t)] = q[Len(q)]
      BY <1>0, <2>1
    <2>4. Pending(t, e, s)
      BY <1>1, <2>2, <2>3 DEF Pending
    <2> QED
      BY <2>4 DEF t
  <1> QED
    BY <1>2, <1>3

LEMMA PairedStays ==
  ASSUME SelectedLast, Frozen, NEW q, NEW d, Paired(q, d)
  PROVE  Paired(q, d)'
  BY UnblindsStays DEF Paired

\* What a step of BobAgent i's listener does to one channel and the bases held.
Takes(i) ==
  /\ toMain[i] # <<>>
  /\ toMain' = [toMain EXCEPT ![i] = Tail(@)]
  /\ Head(toMain[i]).type = "d_i" => d_i' = [d_i EXCEPT ![i] = Head(toMain[i]).basis]
  /\ Head(toMain[i]).type # "d_i" => UNCHANGED d_i

LEMMA MainTakes ==
  ASSUME NEW i \in Pid, MainNext(i)
  PROVE  Takes(i) \/ UNCHANGED <<toMain, d_i>>
  BY DEF MainNext, RegisterAgent, MainBases, MainC, MainCNone, MainShutdown, BobAgentExit,
         Takes, bobAgentVars, dataVars

LEMMA TakesAt ==
  ASSUME TypeOK, NEW i \in Pid, Takes(i)
  PROVE  /\ toMain[i] \in Seq(MainMsg) /\ toMain[i] # <<>>
         /\ toMain'[i] = Tail(toMain[i])
         /\ Head(toMain[i]).type = "d_i" => d_i'[i] = Head(toMain[i]).basis
         /\ \A j \in Pid : j # i => toMain'[j] = toMain[j] /\ d_i'[j] = d_i[j]
  BY DEF TypeOK, MainTypeOK, BobAgentTypeOK, Takes

LEMMA CPairedStep ==
  ASSUME TypeOK, SelectedLast, WireSound, CPaired, BasesLast, Frozen, [Next]_vars
  PROVE  CPaired'
  <1>0. \A i \in Pid : toMain[i] \in Seq(MainMsg) /\ Paired(toMain[i], d_i[i])
    BY DEF TypeOK, MainTypeOK, CPaired
  <1>1. ASSUME \A i \in Pid : Paired(toMain'[i], d_i'[i]) PROVE CPaired'
    BY <1>1, PairedStays DEF CPaired
  <1>2. CASE UNCHANGED <<toMain, d_i>>
    BY <1>0, <1>1, <1>2
  <1>3. ASSUME NEW i \in Pid, MainNext(i) PROVE CPaired'
    <2>1. CASE Takes(i)
      <3>1. Paired(toMain'[i], d_i'[i])
        BY <1>0, <2>1, TakesAt, PairedTail
      <3> QED
        BY <1>0, <1>1, <2>1, <3>1, TakesAt
    <2> QED
      BY <1>2, <1>3, <2>1, MainTakes
  <1>5. ASSUME StopAgents, UNCHANGED d_i PROVE CPaired'
    <2>1. Eof \in MainMsg /\ Eof.type # "c"
      BY EofType DEF Eof
    <2>2. ASSUME NEW i \in Pid PROVE Paired(Append(toMain[i], Eof), d_i[i])
      BY <1>0, <2>1, PairedAppend
    <2>3. \A i \in Pid : toMain'[i] \in {toMain[i], Append(toMain[i], Eof)}
      BY <1>5 DEF StopAgents
    <2> QED
      BY <1>0, <1>1, <1>5, <2>2, <2>3
  <1>6. ASSUME NEW s \in Session, BobNext(s) PROVE CPaired'
    <2>0. UNCHANGED d_i
      BY <1>6, BobFrame DEF bobAgentVars, dataVars
    <2>1. CASE BobStageI(s) /\ ~shutdown_event
      <3> DEFINE m(i) == [type |-> "d_i", basis |-> BlindedFor(s, i, Head(toBob[s]).mask)]
      <3>1. Head(toBob[s]) \in BobMsg /\ Head(toBob[s]).type = "d"
        BY <2>1, TailAt DEF BobStageI, TypeOK, WireTypeOK
      <3>2. Head(toBob[s]).mask \in Pid
        BY <3>1 DEF BobMsg, ReplyMsg, Result, Eof
      <3>3. \A i \in Pid : m(i) \in MainMsg /\ m(i).type # "c"
        BY <3>2, XorType, SessionType DEF BlindedFor, MainMsg, Basis
      <3>4. \A i \in Pid : toMain'[i] = Append(toMain[i], m(i))
        BY <2>1 DEF BobStageI, SendMain
      <3> HIDE DEF m
      <3>5. ASSUME NEW i \in Pid PROVE Paired(Append(toMain[i], m(i)), d_i[i])
        BY <1>0, <3>3, PairedAppend
      <3> QED
        BY <1>1, <2>0, <3>4, <3>5
    <2>2. CASE BobStageII(s) /\ ~shutdown_event
      <3> DEFINE h == Head(toBob[s])
                 m == IF h.type = "c" THEN [type |-> "c", c |-> h.mask] ELSE [type |-> "c_none"]
      <3>1. h \in BobMsg /\ h \in Range(toBob[s])
        BY <2>2, RangeTail, TailAt DEF BobStageII, TypeOK, WireTypeOK
      <3>2. m \in MainMsg
        BY <3>1 DEF BobMsg, ReplyMsg, Result, Eof, MainMsg
      <3>3. m.type = "c" => m.c = Xor(b[s], z[s]) /\ Selected(s)
        BY <3>1 DEF WireSound
      <3>4. \A i \in Pid : toMain'[i] = Append(toMain[i], m) /\ Pending(toMain[i], d_i[i], s)
        BY <2>2 DEF BobStageII, BasesLast, Serving, SendMain
      <3> HIDE DEF m
      <3>5. ASSUME NEW i \in Pid PROVE Paired(Append(toMain[i], m), d_i[i])
        <4>1. m.type = "c" => IF toMain[i] = <<>> THEN Unblinds(m.c, d_i[i])
                ELSE LET q == toMain[i] IN q[Len(q)].type = "d_i" /\ Unblinds(m.c, q[Len(q)].basis)
          BY <3>3, <3>4 DEF Pending, Unblinds
        <4> QED
          BY <1>0, <3>2, <4>1, PairedAppend
      <3> QED
        BY <1>1, <2>0, <3>4, <3>5
    <2>3. CASE EndSession(s)
      BY <1>2, <1>5, <2>0, <2>3 DEF EndSession
    <2>4. CASE (shutdown_event /\ (BobStageI(s) \/ BobStageII(s))) \/ BobTakesUp(s)
      BY <1>2, <2>0, <2>4, LostAtStop DEF BobTakesUp
    <2> QED
      BY <1>6, <2>1, <2>2, <2>3, <2>4 DEF BobNext, BobNoD, BobResult, BobReset, BobTurnsAway
  <1>7. CASE BobInterrupted \/ BobExit
    BY <1>5, <1>7, StopFrame DEF bobAgentVars, dataVars
  <1>8. ASSUME NEW s \in Session,
               AliceNext(s) \/ \E i \in Pid : AgentNext(s, i) \/ ClientNext(s, i)
        PROVE  UNCHANGED <<toMain, d_i>>
    BY <1>8, AliceFrame, AgentFrame, ClientFrame DEF bobAgentVars, dataVars
  <1>9. CASE UNCHANGED vars
    BY <1>2, <1>9 DEF vars, bobAgentVars, dataVars
  <1> QED
    BY <1>2, <1>3, <1>6, <1>7, <1>8, <1>9 DEF Next

LEMMA BasesLastStep ==
  ASSUME TypeOK, BasesLast, [Next]_vars
  PROVE  BasesLast'
  <1>1. CASE bob' # "c" \/ shutdown_event'
    BY <1>1 DEF BasesLast
  <1>2. CASE UNCHANGED <<bob, shutdown_event, alice_queue, toMain, d_i>>
    BY <1>2 DEF BasesLast
  <1>3. ASSUME NEW i \in Pid, MainNext(i), Takes(i) PROVE BasesLast'
    <2>1. UNCHANGED <<bob, shutdown_event, alice_queue>>
      BY <1>3, MainFrame
    <2>2. SUFFICES ASSUME bob = "c" /\ ~shutdown_event PROVE BasesLast'
      BY <1>1, <2>1
    <2>3. Pending(toMain'[i], d_i'[i], Head(alice_queue))
      BY <1>3, <2>2, TakesAt, PendingTail DEF BasesLast
    <2> QED
      BY <1>3, <2>1, <2>2, <2>3, TakesAt DEF BasesLast
  <1>4. ASSUME NEW s \in Session, AliceConnect(s), bob = "c", ~shutdown_event PROVE BasesLast'
    <2>1. UNCHANGED <<bob, shutdown_event, toMain, d_i>>
      BY <1>4 DEF AliceConnect, bobAgentVars, dataVars
    <2>2. alice_queue # <<>> /\ alice_queue \in Seq(Session) /\ alice_queue' = Append(alice_queue, s)
      BY <1>4 DEF AliceConnect, BasesLast, TypeOK, BobTypeOK
    <2>3. alice_queue' # <<>> /\ Head(alice_queue') = Head(alice_queue)
      BY <2>2
    <2> QED
      BY <1>4, <2>1, <2>3 DEF BasesLast
  <1>5. ASSUME NEW s \in Session, BobStageI(s), ~shutdown_event PROVE BasesLast'
    <2> DEFINE m(i) == [type |-> "d_i", basis |-> BlindedFor(s, i, Head(toBob[s]).mask)]
    <2>1. \A i \in Pid : toMain'[i] = Append(toMain[i], m(i)) /\ toMain[i] \in Seq(MainMsg)
      BY <1>5 DEF BobStageI, SendMain, TypeOK, MainTypeOK
    <2>2. \A i \in Pid : m(i).type = "d_i" /\ m(i).basis.y = s
      BY DEF BlindedFor
    <2>3. alice_queue' # <<>> /\ Head(alice_queue') = s
      BY <1>5 DEF BobStageI, Serving
    <2> HIDE DEF m
    <2>4. ASSUME NEW i \in Pid PROVE Pending(toMain'[i], d_i'[i], s)
      <3>1. Append(toMain[i], m(i)) # <<>> /\ LET q == Append(toMain[i], m(i)) IN q[Len(q)] = m(i)
        BY <2>1
      <3> QED
        BY <2>1, <2>2, <3>1 DEF Pending
    <2> QED
      BY <2>3, <2>4 DEF BasesLast
  <1>6. ASSUME NEW s \in Session, AliceNext(s)
        PROVE  /\ UNCHANGED <<bob, shutdown_event, toMain, d_i>>
               /\ UNCHANGED alice_queue \/ AliceConnect(s)
    BY <1>6, AliceFrame DEF AliceNext, AliceStart, AliceSendD, AliceSelect, AliceReport,
       AliceTimeout, AliceShutdown, AliceKilled, bobVars, bobAgentVars, dataVars
  <1>7. ASSUME NEW s \in Session, \E i \in Pid : AgentNext(s, i) \/ ClientNext(s, i)
        PROVE  UNCHANGED <<bob, shutdown_event, alice_queue, toMain, d_i>>
    BY <1>7, AgentFrame, ClientFrame DEF bobVars, bobAgentVars, dataVars
  <1>8. ASSUME NEW i \in Pid, MainNext(i)
        PROVE  Takes(i) \/ UNCHANGED <<bob, shutdown_event, alice_queue, toMain, d_i>>
    BY <1>8, MainTakes, MainFrame
  <1>9. ASSUME NEW s \in Session, BobNext(s) 
        PROVE  (BobStageI(s) /\ ~shutdown_event) \/ bob' # "c" \/ shutdown_event'
    BY <1>9 DEF BobNext, BobTakesUp, BobTurnsAway, BobStageI, BobNoD, BobStageII, BobResult,
         BobReset, EndSession
  <1>10. CASE BobInterrupted \/ BobExit
    BY <1>1, <1>10 DEF BobInterrupted, BobExit
  <1>11. CASE UNCHANGED vars
    BY <1>2, <1>11 DEF vars, bobVars, bobAgentVars, dataVars
  <1>12. CASE \E s \in Session : AliceNext(s)
    BY <1>1, <1>2, <1>4, <1>6, <1>12
  <1> QED
    BY <1>1, <1>2, <1>3, <1>5, <1>7, <1>8, <1>9, <1>10, <1>11, <1>12 DEF Next

-----------------------------------------------------------------------------
(* The unblinded bases and the verdicts.                                   *)

Held(i) ==
  /\ d_tilde[i].y \in Session /\ Selected(d_tilde[i].y)
  /\ d_tilde[i].mask = Xor(i, b[d_tilde[i].y])

LEMMA HeldParts ==
  HeldSound /\ BasesOnlyAtSelected <=> \A i \in Pid : d_tilde[i] # NoBasis => Held(i)
  BY DEF HeldSound, BasesOnlyAtSelected, Held, Selected

LEMMA HeldStep ==
  ASSUME TypeOK, SelectedLast, BasesBlinded, CPaired, HeldSound, BasesOnlyAtSelected, Frozen,
         [Next]_vars
  PROVE  HeldSound' /\ BasesOnlyAtSelected'
  <1>0. ASSUME NEW i \in Pid, d_tilde'[i] = d_tilde[i], d_tilde[i] # NoBasis
        PROVE  Held(i)'
    BY <1>0, HeldParts DEF Held, Frozen, Selected
  <1>1. SUFFICES ASSUME NEW i \in Pid, d_tilde'[i] # NoBasis PROVE Held(i)'
    BY DEF Held, HeldSound, BasesOnlyAtSelected, Selected
  <1>2. CASE d_tilde'[i] = d_tilde[i]
    BY <1>0, <1>1, <1>2
  <1>3. ASSUME MainC(i), d_i[i] # NoBasis PROVE Held(i)'
    <2> DEFINE h == Head(toMain[i])
               y == d_i[i].y
    <2>1. Blinded(d_i[i], i)
      BY <1>3 DEF BasesBlinded
    <2>2. Unblinds(h.c, d_i[i])
      <3>1. toMain[i] \in Seq(MainMsg) /\ toMain[i] # <<>> /\ h.type = "c"
        BY <1>3 DEF MainC, TypeOK, MainTypeOK
      <3>2. 1 \in DOMAIN toMain[i] /\ h = toMain[i][1]
        BY <3>1, TailAt
      <3> QED
        BY <3>1, <3>2 DEF CPaired, Paired
    <2>3. d_tilde'[i] = Unblinded(i, h.c)
      BY <1>3 DEF MainC, TypeOK, BobAgentTypeOK
    <2>4. y \in Session /\ Selected(y) /\ b'[y] = b[y] /\ b[y] \in Pid /\ z[y] \in Pid
      BY <2>1, <2>2 DEF Unblinds, Selected, Frozen, TypeOK, AliceTypeOK
    <2>5. Xor(d_i[i].mask, h.c) = Xor(i, b[y])
      <3>1. d_i[i].mask = Xor(z[y], i) /\ h.c = Xor(b[y], z[y])
        BY <2>1, <2>2 DEF Blinded, Unblinds
      <3> QED
        BY <2>4, <3>1, XorCancel
    <2> QED
      BY <2>3, <2>4, <2>5 DEF Held, Unblinded, Selected
  <1>4. d_tilde'[i] # d_tilde[i] => MainC(i) /\ d_i[i] # NoBasis
    <2>1. ASSUME NEW j \in Pid, MainC(j), d_tilde'[i] # d_tilde[i]
          PROVE  MainC(i) /\ d_i[i] # NoBasis
      BY <2>1 DEF MainC, TypeOK, BobAgentTypeOK
    <2>2. ASSUME NEW j \in Pid, MainNext(j), ~MainC(j) PROVE UNCHANGED d_tilde
      BY <2>2 DEF MainNext, RegisterAgent, MainBases, MainCNone, MainShutdown, BobAgentExit,
                        bobAgentVars, dataVars
    <2>3. ASSUME NEW s \in Session,
                 AliceNext(s) \/ BobNext(s) \/ \E j \in Pid : AgentNext(s, j) \/ ClientNext(s, j)
          PROVE  UNCHANGED d_tilde
      BY <2>3, AliceFrame, BobFrame, AgentFrame, ClientFrame DEF bobAgentVars, dataVars
    <2>4. CASE BobInterrupted \/ BobExit \/ UNCHANGED vars
      BY <2>4, StopFrame DEF vars, bobAgentVars, dataVars
    <2> QED
      BY <2>1, <2>2, <2>3, <2>4 DEF Next
  <1> QED
    BY <1>2, <1>3, <1>4

LEMMA DataKeptStep ==
  ASSUME TypeOK, BasesBlinded, DataKept, [Next]_vars
  PROVE  DataKept'
  <1>1. SUFFICES ASSUME NEW i \in Pid, d_tilde'[i] # NoBasis PROVE d_i'[i] # NoBasis
    BY DEF DataKept
  <1>2. CASE UNCHANGED <<d_i, d_tilde>>
    BY <1>1, <1>2 DEF DataKept
  <1>3. ASSUME NEW j \in Pid, MainBases(j) PROVE d_i'[i] # NoBasis
    <2>1. d_i' = [d_i EXCEPT ![j] = Head(toMain[j]).basis] /\ UNCHANGED d_tilde
      BY <1>3 DEF MainBases
    <2>2. Head(toMain[j]).type = "d_i" /\ Head(toMain[j]) \in Range(toMain[j])
      <3>1. toMain[j] \in Seq(MainMsg) /\ toMain[j] # <<>>
        BY <1>3 DEF MainBases, TypeOK, MainTypeOK
      <3> QED
        BY <1>3, <3>1, TailAt DEF MainBases, Range
    <2>3. Head(toMain[j]).basis.y \in Session
      BY <2>2 DEF BasesBlinded, Blinded
    <2>4. Head(toMain[j]).basis # NoBasis
      BY <2>3, NAssumption DEF NoBasis, Session
    <2>5. CASE i = j
      BY <2>1, <2>4, <2>5 DEF TypeOK, BobAgentTypeOK
    <2>6. CASE i # j
      BY <1>1, <2>1, <2>6 DEF DataKept, TypeOK, BobAgentTypeOK
    <2> QED
      BY <2>5, <2>6
  <1>4. ASSUME NEW j \in Pid, MainC(j) PROVE d_i'[i] # NoBasis
    BY <1>1, <1>4 DEF MainC, DataKept, TypeOK, BobAgentTypeOK
  <1>5. ASSUME NEW j \in Pid, MainNext(j), ~MainBases(j), ~MainC(j) PROVE UNCHANGED <<d_i, d_tilde>>
    BY <1>5 DEF MainNext, RegisterAgent, MainCNone, MainShutdown, BobAgentExit, bobAgentVars, dataVars
  <1>6. ASSUME NEW s \in Session,
               AliceNext(s) \/ BobNext(s) \/ \E j \in Pid : AgentNext(s, j) \/ ClientNext(s, j)
        PROVE  UNCHANGED <<d_i, d_tilde>>
    BY <1>6, AliceFrame, BobFrame, AgentFrame, ClientFrame DEF bobAgentVars, dataVars
  <1>7. CASE BobInterrupted \/ BobExit \/ UNCHANGED vars
    BY <1>2, <1>7, StopFrame DEF vars, bobAgentVars, dataVars
  <1> QED
    BY <1>2, <1>3, <1>4, <1>5, <1>6, <1>7 DEF Next

\* What VerdictSound says of one verdict.
SoundVerdict(v) ==
  /\ v.agent = b[v.tok]
  /\ v.basis.y \in Session /\ Selected(v.basis.y) /\ v.tu \in Session
  /\ v.basis.mask = Xor(v.agent, b[v.basis.y])

LEMMA VerdictSoundStep ==
  ASSUME TypeOK, HandlerHasData, TokenOnlyAtSelected, HeldSound, BasesOnlyAtSelected,
         BasesBlinded, DataKept, VerdictSound, Frozen, [Next]_vars
  PROVE  VerdictSound'
  <1>0. ASSUME NEW v \in Verdict, SoundVerdict(v) PROVE SoundVerdict(v)'
    <2>1. v.tok \in Session /\ v.agent \in Pid
      BY DEF Verdict
    <2>2. Selected(v.tok)
      BY <1>0, <2>1, NoPidFresh DEF SoundVerdict, Selected
    <2> QED
      BY <1>0, <2>1, <2>2 DEF SoundVerdict, Frozen, Selected
  <1>1. \A v \in verdicts : v \in Verdict /\ SoundVerdict(v)
    BY DEF VerdictSound, SoundVerdict, TypeOK, BobAgentTypeOK
  <1>2. ASSUME \A v \in verdicts' : v \in verdicts \/ (v \in Verdict /\ SoundVerdict(v))
        PROVE  VerdictSound'
    BY <1>0, <1>1, <1>2 DEF VerdictSound, SoundVerdict
  <1>3. ASSUME NEW s \in Session, NEW i \in Pid, Verify(s, i) PROVE VerdictSound'
    <2> DEFINE v == VerdictOf(i)
    <2>1. token[i] \in Session /\ b[token[i]] = i
      BY <1>3, NAssumption
         DEF Verify, HandlerHasData, TokenOnlyAtSelected, TypeOK, BobAgentTypeOK, Session
    <2>2. Held(i) /\ d_tilde[i] \in Basis
      BY <1>3, HeldParts DEF Verify, BasesReady, TypeOK, BobAgentTypeOK
    <2>3. v \in Verdict /\ SoundVerdict(v)
      <3>1. d_i[i].y \in Session
        BY <1>3 DEF Verify, BasesReady, DataKept, BasesBlinded, Blinded
      <3>2. v \in Verdict
        BY <2>1, <2>2, <3>1 DEF Verdict, VerdictOf, Session
      <3> QED
        BY <2>1, <2>2, <3>1, <3>2 DEF VerdictOf, SoundVerdict, Held
    <2>4. verdicts' = verdicts \cup {v}
      BY <1>3 DEF Verify
    <2> QED
      BY <1>2, <2>3, <2>4
  <1>4. CASE UNCHANGED verdicts
    BY <1>2, <1>4
  <1>5. ASSUME NEW s \in Session, NEW i \in Pid, ClientNext(s, i), ~Verify(s, i)
        PROVE  UNCHANGED verdicts
    BY <1>5 DEF ClientNext, HandleClient, ClientToken, ClientEof, ClientReturns
  <1>6. ASSUME NEW s \in Session,
               AliceNext(s) \/ BobNext(s) \/ \E i \in Pid : AgentNext(s, i)
        PROVE  UNCHANGED verdicts
    BY <1>6, AliceFrame, BobFrame, AgentFrame DEF bobAgentVars
  <1>7. ASSUME (\E i \in Pid : MainNext(i)) \/ BobInterrupted \/ BobExit \/ UNCHANGED vars
        PROVE  UNCHANGED verdicts
    BY <1>7, MainFrame, StopFrame DEF vars, bobAgentVars
  <1> QED
    BY <1>3, <1>4, <1>5, <1>6, <1>7 DEF Next

-----------------------------------------------------------------------------
(* The theorems.                                                           *)

LEMMA InFlightInit == Init => InFlightSound
  <1> SUFFICES ASSUME Init PROVE InFlightSound
    OBVIOUS
  <1> USE DEF Init
  <1>1. \A s \in Session : Range(toBob[s]) = {} /\ b[s] = NoPid
    BY DEF Range
  <1>2. \A s \in Session, i \in Pid : Range(toAgent[s][i]) = {} /\ Range(present[s][i]) = {}
    BY DEF Range
  <1>3. \A i \in Pid : Range(toMain[i]) = {} /\ DOMAIN toMain[i] = {}
    BY DEF Range
  <1>4. AnswerHasAgent /\ HandlerHasData
    BY DEF AnswerHasAgent, HandlerHasData
  <1>5. SelectedLast /\ WireSound /\ TokenRoute
    BY <1>1, <1>2 DEF SelectedLast, Selected, WireSound, TokenRoute
  <1>6. BasesBlinded /\ CPaired /\ BasesLast
    BY <1>3 DEF BasesBlinded, CPaired, Paired, BasesLast
  <1>7. TokenOnlyAtSelected /\ HeldSound /\ DataKept /\ BasesOnlyAtSelected /\ VerdictSound
    BY DEF TokenOnlyAtSelected, HeldSound, DataKept, BasesOnlyAtSelected, VerdictSound
  <1> QED
    BY <1>4, <1>5, <1>6, <1>7 DEF InFlightSound

LEMMA InFlightStep ==
  ASSUME TypeOK, InFlightSound, [Next]_vars
  PROVE  InFlightSound'
  <1> USE DEF InFlightSound
  <1>1. Frozen /\ SelectedLast'
    BY FrozenStep
  <1>2. AnswerHasAgent' /\ HandlerHasData'
    BY AnswerHasAgentStep, HandlerHasDataStep
  <1>3. WireSound'
    BY WireSoundStep
  <1>4. TokenRoute'
    <2>1. RequestRoute
      BY TokenRouteParts
    <2>2. RequestRoute' /\ PresentRoute'
      BY <1>1, <2>1, RequestRouteStep, PresentRouteStep
    <2> QED
      BY <2>2 DEF TokenRoute, RequestRoute, PresentRoute
  <1>5. BasesBlinded' /\ CPaired' /\ BasesLast'
    BY <1>1, BasesBlindedStep, CPairedStep, BasesLastStep
  <1>6. TokenOnlyAtSelected' /\ HeldSound' /\ BasesOnlyAtSelected' /\ VerdictSound'
    BY <1>1, TokenOnlyStep, HeldStep, VerdictSoundStep
  <1>7. DataKept'
    BY DataKeptStep
  <1> QED
    BY <1>1, <1>2, <1>3, <1>4, <1>5, <1>6, <1>7

\* Every d, c, basis string and token in flight belongs to the session and the agent
\* it was computed for, whatever fails.
THEOREM InFlightCorrect == Spec => []InFlightSound
  <1>1. Init => TypeOK /\ InFlightSound
    BY TypeInit, InFlightInit
  <1>2. TypeOK /\ InFlightSound /\ [Next]_vars => (TypeOK /\ InFlightSound)'
    BY TypeStep, InFlightStep DEF InFlightSound
  <1> QED
    BY <1>1, <1>2, PTL DEF Spec

\* A BobAgent that holds unblinded bases holds them with the pattern i XOR b of the
\* session they stem from: Alice's own bases at the agent she selected, and no other.
THEOREM BasesSafety == Spec => []BasesOnlyAtSelected
  <1>1. InFlightSound => BasesOnlyAtSelected
    BY DEF InFlightSound
  <1> QED
    BY <1>1, InFlightCorrect, PTL

\* A token is only ever received by the BobAgent its Alice selected.
THEOREM TokenSafety == Spec => []TokenOnlyAtSelected
  <1>1. InFlightSound => TokenOnlyAtSelected
    BY DEF InFlightSound
  <1> QED
    BY <1>1, InFlightCorrect, PTL

\* A verdict on token and bases of one session is computed with the very bases the
\* token was measured in, by the agent selected.
THEOREM VerdictSafety == Spec => []SameSessionVerdictExact
  <1>1. TypeOK /\ InFlightSound => SameSessionVerdictExact
    <2> SUFFICES ASSUME TypeOK, InFlightSound, NEW v \in verdicts, v.basis.y = v.tok
                 PROVE  v.agent = b[v.tok] /\ v.basis.mask = Zero
      BY DEF SameSessionVerdictExact
    <2>1. v.agent = b[v.tok] /\ v.basis.mask = Xor(v.agent, b[v.tok])
      BY DEF InFlightSound, VerdictSound
    <2>2. v.agent \in Pid
      BY DEF TypeOK, BobAgentTypeOK, Verdict
    <2> QED
      BY <2>1, <2>2, XorSelf
  <1> QED
    BY <1>1, TypeCorrect, InFlightCorrect, PTL

\* With a single Alice no other session can lend its bases: every verdict is on her
\* token with her bases.
THEOREM SingleSession == ASSUME N = 1 PROVE Spec => []VerdictUsesOwnBases
  <1>1. TypeOK /\ InFlightSound => VerdictUsesOwnBases
    <2> SUFFICES ASSUME TypeOK, InFlightSound, NEW v \in verdicts
                 PROVE  v.basis.y = v.tok /\ v.tu = v.tok
      BY DEF VerdictUsesOwnBases
    <2>1. v.basis.y \in Session /\ v.tok \in Session /\ v.tu \in Session
      BY DEF InFlightSound, VerdictSound, TypeOK, BobAgentTypeOK, Verdict
    <2> QED
      BY <2>1 DEF Session
  <1> QED
    BY <1>1, TypeCorrect, InFlightCorrect, PTL

-----------------------------------------------------------------------------
(***************************************************************************)
(* Part three: what Bob reads as the validation result.                    *)
(* A verdict travels from a BobAgent over its AliceAgent and Alice to Bob; *)
(* ResultSound follows it on that way and holds for every N.  With one     *)
(* Alice it makes QToken an implementation of TokenPresentation.  *)
(***************************************************************************)

\* v is a verdict that BobAgent p has computed.
Given(v, p) == v \in verdicts /\ v.agent = p

\* A verdict in the streams of agent i is its own.
Answered == \A s \in Session, i \in Pid : \A m \in Range(answer[s][i]) :
              m.type = "result" => Given(m.v, i)
Relayed == \A s \in Session, i \in Pid : \A m \in Range(toAlice[s][i]) :
             m.type = "result" => Given(m.v, i)
\* v is by the agent session s selected, on her token or that of an earlier session.
Own(v, s) == Given(v, b[s]) /\ v.tok <= s
\* What Alice reports, and Bob records, is one of the agent she selected, if any.
Reported == \A s \in Session : \A m \in Range(toBob[s]) :
              m.type = "result" => m.v = NoVerdict \/ Own(m.v, s)
Recorded == \A s \in Session : result[s] # NoVerdict => Own(result[s], s)

\* Alices come one after the other.
InTurn == \A s \in Session : alice[s] # "down" => \A t \in 1..(s - 1) : alice[t] = "done"

\* Bob serves each Alice once: she waits in his queue once, after she connected and
\* before he has her result.
Unserved(s) == alice[s] \notin {"down", "gather"} /\ result[s] = NoVerdict
ServedOnce ==
  /\ \A k, l \in DOMAIN alice_queue : alice_queue[k] = alice_queue[l] => k = l
  /\ \A k \in DOMAIN alice_queue : Unserved(alice_queue[k])
  /\ \A s \in Session : alice[s] \in {"down", "gather"} => result[s] = NoVerdict

ResultSound == Answered /\ Relayed /\ Reported /\ Recorded /\ ServedOnce /\ InTurn

-----------------------------------------------------------------------------
(* Verdicts are kept, and concern the agent of a session that selected one. *)

LEMMA VerdictsGrow == ASSUME [Next]_vars PROVE verdicts \subseteq verdicts'
  <1>1. ASSUME NEW s \in Session, NEW i \in Pid, ClientNext(s, i)
        PROVE  verdicts \subseteq verdicts'
    BY <1>1 DEF ClientNext, HandleClient, ClientToken, ClientEof, Verify, ClientReturns
  <1>2. ASSUME NEW s \in Session, AliceNext(s) \/ BobNext(s) \/ \E i \in Pid : AgentNext(s, i)
        PROVE  UNCHANGED verdicts
    BY <1>2, AliceFrame, BobFrame, AgentFrame DEF bobAgentVars
  <1>3. ASSUME (\E i \in Pid : MainNext(i)) \/ BobInterrupted \/ BobExit \/ UNCHANGED vars
        PROVE  UNCHANGED verdicts
    BY <1>3, MainFrame, StopFrame DEF vars, bobAgentVars
  <1> QED
    BY <1>1, <1>2, <1>3 DEF Next

LEMMA NoVerdictGiven == ASSUME TypeOK PROVE NoVerdict \notin verdicts
  BY SessionType DEF TypeOK, BobAgentTypeOK, Verdict, NoVerdict

LEMMA GivenStays ==
  ASSUME [Next]_vars, NEW v, NEW p, Given(v, p)
  PROVE  (v \in verdicts' /\ v.agent = p)
  BY VerdictsGrow DEF Given

LEMMA GivenToSelected ==
  ASSUME TypeOK, Frozen, [Next]_vars, NEW s \in Session, NEW v, Given(v, b[s])
  PROVE  b'[s] = b[s] /\ v \in verdicts' /\ v.agent = b'[s]
  <1>1. v.agent \in Pid
    BY DEF Given, TypeOK, BobAgentTypeOK, Verdict
  <1>2. b'[s] = b[s]
    BY <1>1, NoPidFresh DEF Given, Frozen, Selected
  <1> QED
    BY <1>2, GivenStays

-----------------------------------------------------------------------------
(* From a BobAgent to its AliceAgent.                                      *)

LEMMA AnsweredTail ==
  ASSUME TypeOK, Answered, [Next]_vars, NEW s \in Session, NEW i \in Pid,
         answer[s][i] # <<>>, answer' = [answer EXCEPT ![s][i] = Tail(@)]
  PROVE  Answered'
  <1>1. answer[s][i] \in Seq(ReplyMsg)
    BY DEF TypeOK, LinkTypeOK
  <1>2. Range(Tail(answer[s][i])) \subseteq Range(answer[s][i])
    BY <1>1, RangeTail
  <1>3. \A t \in Session, j \in Pid : Range(answer'[t][j]) \subseteq Range(answer[t][j])
    BY <1>2 DEF TypeOK, LinkTypeOK
  <1> QED
    BY <1>3, VerdictsGrow DEF Answered, Given

\* Whatever is added to a stream is the end of it or a verdict of that agent.
LEMMA AnsweredMore ==
  ASSUME Answered, [Next]_vars,
         \A t \in Session, j \in Pid : \A m \in Range(answer'[t][j]) :
           \/ m \in Range(answer[t][j]) \/ m = Eof
           \/ m.v \in verdicts' /\ m.v.agent = j
  PROVE  Answered'
  BY VerdictsGrow DEF Answered, Given, Eof

LEMMA AnsweredClose ==
  ASSUME TypeOK, Answered, [Next]_vars, NEW i \in Pid, writer_client[i] \in Session,
         CloseClient(i, <<>>)
  PROVE  Answered'
  <1> DEFINE w == writer_client[i]
  <1>1. CASE i \in closed[w]
    BY <1>1, AnsweredMore DEF CloseClient
  <1>2. CASE i \notin closed[w]
    <2>1. answer[w][i] \in Seq(ReplyMsg) /\ Eof \in ReplyMsg
      BY EofType DEF TypeOK, LinkTypeOK
    <2>2. answer[w][i] \o <<>> \o <<Eof>> = Append(answer[w][i], Eof)
      BY <2>1
    <2>3. answer' = [answer EXCEPT ![w][i] = Append(answer[w][i], Eof)]
      BY <1>2, <2>2 DEF CloseClient
    <2>4. Range(Append(answer[w][i], Eof)) = Range(answer[w][i]) \cup {Eof}
      BY <2>1, RangeAppend
    <2>5. \A t \in Session, j \in Pid :
            Range(answer'[t][j]) \subseteq Range(answer[t][j]) \cup {Eof}
      BY <2>3, <2>4 DEF TypeOK, LinkTypeOK
    <2> QED
      BY <2>5, AnsweredMore
  <1> QED
    BY <1>1, <1>2

LEMMA AnsweredVerify ==
  ASSUME TypeOK, HandlerHasData, Answered, [Next]_vars, NEW s \in Session, NEW i \in Pid,
         Verify(s, i)
  PROVE  Answered'
  <1> DEFINE w == writer_client[i]
             v == VerdictOf(i)
             m == [type |-> "result", v |-> v]
  <1>1. w \in Session /\ token[i] \in Session
    BY NAssumption DEF Verify, HandlerHasData, TypeOK, BobAgentTypeOK, Session
  <1>2. v \in Verdict /\ v.agent = i
    BY <1>1 DEF VerdictOf, Verdict, TypeOK, BobAgentTypeOK, Basis
  <1>3. v \in verdicts' /\ CloseClient(i, <<m>>)
    BY DEF Verify
  <1>4. m \in ReplyMsg /\ m.v = v
    BY <1>2 DEF ReplyMsg, Result
  <1> HIDE DEF v
  <1>5. CASE i \in closed[w]
    BY <1>3, <1>5, AnsweredMore DEF CloseClient
  <1>6. CASE i \notin closed[w]
    <2>1. answer[w][i] \in Seq(ReplyMsg) /\ Eof \in ReplyMsg
      BY <1>1, EofType DEF TypeOK, LinkTypeOK
    <2> HIDE DEF m
    <2>2. answer[w][i] \o <<m>> \o <<Eof>> = answer[w][i] \o <<m, Eof>>
      BY <1>4, <2>1
    <2>3. answer' = [answer EXCEPT ![w][i] = answer[w][i] \o <<m, Eof>>]
      BY <1>3, <1>6, <2>2 DEF CloseClient
    <2>4. Range(answer[w][i] \o <<m, Eof>>) = Range(answer[w][i]) \cup {m, Eof}
      BY <1>4, <2>1, RangePair
    <2>5. \A t \in Session, j \in Pid : \A n \in Range(answer'[t][j]) :
            n \in Range(answer[t][j]) \/ n = Eof \/ (j = i /\ n = m)
      BY <1>1, <2>3, <2>4 DEF TypeOK, LinkTypeOK
    <2> QED
      BY <1>2, <1>3, <1>4, <2>5, AnsweredMore
  <1> QED
    BY <1>5, <1>6

LEMMA AnsweredShutdown ==
  ASSUME TypeOK, Answered, [Next]_vars, NEW i \in Pid, MainShutdown(i)
  PROVE  Answered'
  <1>1. \A t \in Session, j \in Pid :
          answer[t][j] \in Seq(ReplyMsg) /\ Eof \in ReplyMsg
    BY EofType DEF TypeOK, LinkTypeOK
  <1>2. \A t \in Session, j \in Pid : answer'[t][j] \in {answer[t][j], Append(answer[t][j], Eof)}
    BY DEF MainShutdown, TypeOK, LinkTypeOK
  <1>3. \A t \in Session, j \in Pid :
          Range(Append(answer[t][j], Eof)) = Range(answer[t][j]) \cup {Eof}
    BY <1>1, RangeAppend
  <1>4. \A t \in Session, j \in Pid :
          Range(answer'[t][j]) \subseteq Range(answer[t][j]) \cup {Eof}
    <2> TAKE t \in Session, j \in Pid
    <2>1. CASE answer'[t][j] = answer[t][j]
      BY <2>1
    <2>2. CASE answer'[t][j] = Append(answer[t][j], Eof)
      BY <1>3, <2>2
    <2> QED
      BY <1>2, <2>1, <2>2
  <1> QED
    BY <1>4, AnsweredMore

LEMMA AnsweredStep ==
  ASSUME TypeOK, HandlerHasData, Answered, [Next]_vars
  PROVE  Answered'
  <1>1. ASSUME UNCHANGED answer PROVE Answered'
    BY <1>1, AnsweredMore
  <1>2. ASSUME NEW s \in Session, NEW i \in Pid, AgentReply(s, i) PROVE Answered'
    BY <1>2, AnsweredTail DEF AgentReply
  <1>3. ASSUME NEW s \in Session, NEW i \in Pid, ClientEof(s, i) PROVE Answered'
    <2>1. writer_client[i] \in Session
      BY <1>3, NAssumption DEF ClientEof, HandlerHasData, TypeOK, BobAgentTypeOK, Session
    <2> QED
      BY <1>3, <2>1, AnsweredClose DEF ClientEof
  <1>4. ASSUME NEW s \in Session, NEW i \in Pid, Verify(s, i) PROVE Answered'
    BY <1>4, AnsweredVerify
  <1>5. ASSUME NEW i \in Pid, MainShutdown(i) PROVE Answered'
    BY <1>5, AnsweredShutdown
  <1>6. ASSUME NEW s \in Session, NEW i \in Pid, AgentNext(s, i), ~AgentReply(s, i)
        PROVE  UNCHANGED answer
    BY <1>6 DEF AgentNext, AgentConnect, AgentToken, AgentForward, AgentShutdown, linkVars
  <1>7. ASSUME NEW s \in Session, NEW i \in Pid, ClientNext(s, i), ~ClientEof(s, i), ~Verify(s, i)
        PROVE  UNCHANGED answer
    BY <1>7 DEF ClientNext, HandleClient, ClientToken, ClientReturns, linkVars
  <1>8. ASSUME NEW i \in Pid, MainNext(i), ~MainShutdown(i)
        PROVE  UNCHANGED answer
    BY <1>8 DEF MainNext, RegisterAgent, MainBases, MainC, MainCNone, BobAgentExit, linkVars
  <1>9. ASSUME (\E s \in Session : AliceNext(s) \/ BobNext(s)) \/ BobInterrupted \/ BobExit \/ UNCHANGED vars
        PROVE  UNCHANGED answer
    BY <1>9, AliceFrame, BobFrame, StopFrame DEF vars, linkVars
  <1> QED
    BY <1>1, <1>2, <1>3, <1>4, <1>5, <1>6, <1>7, <1>8, <1>9 DEF Next

-----------------------------------------------------------------------------
(* From an AliceAgent to Alice.                                            *)

LEMMA RelayedMore ==
  ASSUME Relayed, [Next]_vars,
         \A t \in Session, j \in Pid : \A m \in Range(toAlice'[t][j]) :
           \/ m \in Range(toAlice[t][j]) \/ m = Eof
           \/ m.type = "result" => Given(m.v, j)
  PROVE  Relayed'
  BY VerdictsGrow DEF Relayed, Given, Eof

LEMMA RelayedReport ==
  ASSUME TypeOK, AnswerHasAgent, Relayed, [Next]_vars, NEW s \in Session, AliceReport(s)
  PROVE  Relayed'
  <1>1. b[s] \in Pid /\ toAlice[s][b[s]] \in Seq(ReplyMsg) /\ toAlice[s][b[s]] # <<>>
    BY DEF AliceReport, AnswerHasAgent, TypeOK, AgentTypeOK
  <1>2. Range(Tail(toAlice[s][b[s]])) \subseteq Range(toAlice[s][b[s]])
    BY <1>1, RangeTail
  <1>3. toAlice' = [toAlice EXCEPT ![s][b[s]] = Tail(@)]
    BY DEF AliceReport
  <1>4. \A t \in Session, j \in Pid : Range(toAlice'[t][j]) \subseteq Range(toAlice[t][j])
    BY <1>1, <1>2, <1>3 DEF TypeOK, AgentTypeOK
  <1> QED
    BY <1>4, RelayedMore

LEMMA RelayedShutdown ==
  ASSUME TypeOK, Relayed, [Next]_vars, NEW s \in Session, NEW i \in Pid, AgentShutdown(s, i)
  PROVE  Relayed'
  <1>1. toAlice[s][i] \in Seq(ReplyMsg) /\ Eof \in ReplyMsg
    BY EofType DEF TypeOK, AgentTypeOK
  <1>2. toAlice[s][i] \o <<>> \o <<Eof>> = Append(toAlice[s][i], Eof)
    BY <1>1
  <1>3. toAlice' = [toAlice EXCEPT ![s][i] = Append(toAlice[s][i], Eof)]
    BY <1>2 DEF AgentShutdown, AgentStop
  <1>4. Range(Append(toAlice[s][i], Eof)) = Range(toAlice[s][i]) \cup {Eof}
    BY <1>1, RangeAppend
  <1>5. \A t \in Session, j \in Pid :
          Range(toAlice'[t][j]) \subseteq Range(toAlice[t][j]) \cup {Eof}
    BY <1>3, <1>4 DEF TypeOK, AgentTypeOK
  <1> QED
    BY <1>5, RelayedMore

LEMMA RelayedReply ==
  ASSUME TypeOK, Answered, Relayed, [Next]_vars, NEW s \in Session, NEW i \in Pid,
         AgentReply(s, i)
  PROVE  Relayed'
  <1> DEFINE h == Head(answer[s][i])
  <1>1. answer[s][i] \in Seq(ReplyMsg) /\ answer[s][i] # <<>>
    BY DEF AgentReply, TypeOK, LinkTypeOK
  <1>2. h \in ReplyMsg /\ h \in Range(answer[s][i])
    BY <1>1, RangeTail
  <1>3. h.type = "result" => Given(h.v, i)
    BY <1>2 DEF Answered
  <1>4. toAlice[s][i] \in Seq(ReplyMsg) /\ Eof \in ReplyMsg
    BY EofType DEF TypeOK, AgentTypeOK
  <1>5. toAlice' = [toAlice EXCEPT ![s][i] =
                      @ \o (IF h.type = "result" THEN <<h>> ELSE <<>>) \o <<Eof>>]
    BY DEF AgentReply, AgentStop
  <1> HIDE DEF h
  <1>6. Range(toAlice'[s][i]) \subseteq Range(toAlice[s][i]) \cup {h, Eof}
    <2>1. CASE h.type = "result"
      <3>1. toAlice[s][i] \o <<h>> \o <<Eof>> = toAlice[s][i] \o <<h, Eof>>
        BY <1>2, <1>4
      <3>2. Range(toAlice[s][i] \o <<h, Eof>>) = Range(toAlice[s][i]) \cup {h, Eof}
        BY <1>2, <1>4, RangePair
      <3>3. toAlice'[s][i] = toAlice[s][i] \o <<h, Eof>>
        BY <1>5, <2>1, <3>1 DEF TypeOK, AgentTypeOK
      <3> QED
        BY <3>2, <3>3
    <2>2. CASE h.type # "result"
      <3>1. toAlice[s][i] \o <<>> \o <<Eof>> = Append(toAlice[s][i], Eof)
        BY <1>4
      <3>2. Range(Append(toAlice[s][i], Eof)) = Range(toAlice[s][i]) \cup {Eof}
        BY <1>4, RangeAppend
      <3>3. toAlice'[s][i] = Append(toAlice[s][i], Eof)
        BY <1>5, <2>2, <3>1 DEF TypeOK, AgentTypeOK
      <3> QED
        BY <3>2, <3>3
    <2> QED
      BY <2>1, <2>2
  <1>7. \A t \in Session, j \in Pid :
          t # s \/ j # i => toAlice'[t][j] = toAlice[t][j]
    BY <1>5 DEF TypeOK, AgentTypeOK
  <1>8. \A t \in Session, j \in Pid : \A m \in Range(toAlice'[t][j]) :
          m \in Range(toAlice[t][j]) \/ m = Eof \/ (j = i /\ m = h)
    BY <1>6, <1>7
  <1> QED
    BY <1>3, <1>8, RelayedMore

LEMMA RelayedStep ==
  ASSUME TypeOK, AnswerHasAgent, Answered, Relayed, [Next]_vars
  PROVE  Relayed'
  <1>1. ASSUME UNCHANGED toAlice PROVE Relayed'
    BY <1>1, RelayedMore
  <1>2. ASSUME NEW s \in Session, AliceNext(s), ~AliceReport(s)
        PROVE  UNCHANGED toAlice
    BY <1>2 DEF AliceNext, AliceStart, AliceConnect, AliceSendD, AliceSelect, AliceTimeout,
         AliceShutdown, AliceKilled, agentVars
  <1>3. ASSUME NEW s \in Session, NEW i \in Pid, AgentNext(s, i), ~AgentShutdown(s, i),
               ~AgentReply(s, i)
        PROVE  UNCHANGED toAlice
    BY <1>3 DEF AgentNext, AgentConnect, AgentToken, AgentForward
  <1>4. ASSUME \/ \E s \in Session : BobNext(s) \/ \E i \in Pid : ClientNext(s, i)
               \/ (\E i \in Pid : MainNext(i)) \/ BobInterrupted \/ BobExit \/ UNCHANGED vars
        PROVE  UNCHANGED toAlice
    BY <1>4, BobFrame, ClientFrame, MainFrame, StopFrame DEF vars, agentVars
  <1> QED
    BY <1>1, <1>2, <1>3, <1>4, RelayedReport, RelayedShutdown, RelayedReply DEF Next

-----------------------------------------------------------------------------
(* From Alice to Bob.                                                      *)

LEMMA ReportedMore ==
  ASSUME TypeOK, Frozen, Reported, [Next]_vars,
         \A t \in Session : \A m \in Range(toBob'[t]) :
           \/ m \in Range(toBob[t]) \/ m.type # "result"
           \/ m.v = NoVerdict \/ Own(m.v, t)
  PROVE  Reported'
  <1> SUFFICES ASSUME NEW t \in Session, NEW m \in Range(toBob'[t]), m.type = "result",
                      m.v # NoVerdict
               PROVE  m.v \in verdicts' /\ m.v.agent = b'[t] /\ m.v.tok <= t
    BY DEF Reported, Own, Given
  <1>1. Own(m.v, t)
    BY DEF Reported
  <1> QED
    BY <1>1, GivenToSelected DEF Own

\* One message more, which is no result.
LEMMA ReportedOther ==
  ASSUME TypeOK, Frozen, Reported, [Next]_vars, NEW s \in Session, NEW m \in BobMsg,
         m.type # "result", toBob' = [toBob EXCEPT ![s] = Append(@, m)]
  PROVE  Reported'
  <1>1. Range(Append(toBob[s], m)) = Range(toBob[s]) \cup {m}
    BY RangeAppend DEF TypeOK, WireTypeOK
  <1>2. \A t \in Session : \A k \in Range(toBob'[t]) : k \in Range(toBob[t]) \/ k = m
    BY <1>1 DEF TypeOK, WireTypeOK
  <1> QED
    BY <1>2, ReportedMore

\* While Alice waits for an answer no later session has begun, so no verdict is on
\* a token of one.
LEMMA GivenInTime ==
  ASSUME TypeOK, InFlightSound, InTurn, NEW s \in Session, alice[s] = "answer",
         NEW v \in verdicts
  PROVE  v.tok <= s
  <1>1. v.tok \in Session /\ v.agent \in Pid /\ v.agent = b[v.tok]
    BY DEF TypeOK, BobAgentTypeOK, Verdict, InFlightSound, VerdictSound
  <1>2. alice[v.tok] # "down"
    BY <1>1, NoPidFresh DEF InFlightSound, SelectedLast, Selected
  <1>3. s \notin 1..(v.tok - 1)
    BY <1>1, <1>2 DEF InTurn
  <1>4. s \in Nat /\ s >= 1 /\ v.tok \in Nat
    BY <1>1, NAssumption DEF Session
  <1> QED
    BY <1>3, <1>4

LEMMA ReportedReport ==
  ASSUME TypeOK, InFlightSound, InTurn, Frozen, Relayed, Reported, [Next]_vars,
         NEW s \in Session, AliceReport(s)
  PROVE  Reported'
  <1> DEFINE h == Head(toAlice[s][b[s]])
             m == [type |-> "result", v |-> IF h.type = "result" THEN h.v ELSE NoVerdict]
  <1>1. b[s] \in Pid /\ toAlice[s][b[s]] \in Seq(ReplyMsg) /\ toAlice[s][b[s]] # <<>>
    BY DEF AliceReport, InFlightSound, AnswerHasAgent, TypeOK, AgentTypeOK
  <1>2. h \in ReplyMsg /\ h \in Range(toAlice[s][b[s]])
    BY <1>1, RangeTail
  <1>3. m.v = NoVerdict \/ Own(m.v, s)
    <2>1. m.v = NoVerdict \/ Given(m.v, b[s])
      BY <1>1, <1>2 DEF Relayed
    <2> HIDE DEF m
    <2>2. alice[s] = "answer"
      BY DEF AliceReport
    <2> QED
      BY <2>1, <2>2, GivenInTime DEF Own, Given
  <1>4. m \in BobMsg /\ Eof \in BobMsg
    BY <1>2, EofType DEF ReplyMsg, Result, Eof, BobMsg
  <1>5. toBob' = [toBob EXCEPT ![s] = toBob[s] \o <<m, Eof>>]
    BY DEF AliceReport
  <1> HIDE DEF m
  <1>6. Range(toBob[s] \o <<m, Eof>>) = Range(toBob[s]) \cup {m, Eof}
    BY <1>4, RangePair DEF TypeOK, WireTypeOK
  <1>7. \A t \in Session : \A k \in Range(toBob'[t]) :
          k \in Range(toBob[t]) \/ k = Eof \/ (t = s /\ k = m)
    BY <1>5, <1>6 DEF TypeOK, WireTypeOK
  <1>8. Eof.type # "result"
    BY DEF Eof
  <1> QED
    BY <1>3, <1>7, <1>8, ReportedMore

LEMMA ReportedAlice ==
  ASSUME TypeOK, InFlightSound, InTurn, Frozen, Relayed, Reported, [Next]_vars,
         NEW s \in Session, AliceNext(s)
  PROVE  Reported'
  <1>1. ASSUME UNCHANGED toBob PROVE Reported'
    BY <1>1, ReportedMore
  <1>2. Eof \in BobMsg /\ Eof.type # "result"
    BY EofType DEF Eof
  <1>3. CASE AliceStart(s) \/ AliceConnect(s) \/ AliceShutdown(s)
    BY <1>1, <1>3 DEF AliceStart, AliceConnect, AliceShutdown, wireVars
  <1>4. CASE AliceSendD(s)
    <2>1. PICK m \in Pid : toBob' = [toBob EXCEPT ![s] = Append(@, [type |-> "d", mask |-> m])]
      BY <1>4 DEF AliceSendD
    <2>2. [type |-> "d", mask |-> m] \in BobMsg
      BY DEF BobMsg
    <2> QED
      BY <2>1, <2>2, ReportedOther
  <1>5. CASE AliceSelect(s)
    <2>1. PICK p \in agents_conns[s] :
            toBob' = [toBob EXCEPT ![s] = Append(@, [type |-> "c", mask |-> Xor(p, z[s])])]
      BY <1>5 DEF AliceSelect
    <2>2. p \in Pid /\ z[s] \in Pid
      BY DEF TypeOK, AliceTypeOK
    <2>3. [type |-> "c", mask |-> Xor(p, z[s])] \in BobMsg
      BY <2>2, XorType DEF BobMsg
    <2> QED
      BY <2>1, <2>3, ReportedOther
  <1>6. CASE AliceReport(s)
    BY <1>6, ReportedReport
  <1>7. CASE AliceTimeout(s)
    BY <1>2, <1>7, ReportedOther DEF AliceTimeout
  <1>8. CASE AliceKilled(s)
    BY <1>1, <1>2, <1>8, ReportedOther DEF AliceKilled
  <1> QED
    BY <1>3, <1>4, <1>5, <1>6, <1>7, <1>8 DEF AliceNext

LEMMA ReportedBob ==
  ASSUME TypeOK, Frozen, Reported, [Next]_vars, NEW s \in Session, BobNext(s)
  PROVE  Reported'
  <1>1. toBob' = toBob \/ (toBob[s] # <<>> /\ toBob' = [toBob EXCEPT ![s] = Tail(@)])
    BY DEF BobNext, BobTakesUp, BobTurnsAway, BobStageI, BobNoD, BobStageII,
           BobResult, BobReset, wireVars
  <1>2. CASE toBob' = toBob
    BY <1>2, ReportedMore
  <1>3. CASE toBob[s] # <<>> /\ toBob' = [toBob EXCEPT ![s] = Tail(@)]
    <2>1. Range(Tail(toBob[s])) \subseteq Range(toBob[s])
      BY <1>3, RangeTail DEF TypeOK, WireTypeOK
    <2>2. \A t \in Session : Range(toBob'[t]) \subseteq Range(toBob[t])
      BY <1>3, <2>1 DEF TypeOK, WireTypeOK
    <2> QED
      BY <2>2, ReportedMore
  <1> QED
    BY <1>1, <1>2, <1>3

LEMMA ReportedStep ==
  ASSUME TypeOK, InFlightSound, InTurn, Frozen, Relayed, Reported, [Next]_vars
  PROVE  Reported'
  <1>1. ASSUME \/ \E s \in Session, i \in Pid : AgentNext(s, i) \/ ClientNext(s, i)
               \/ (\E i \in Pid : MainNext(i)) \/ BobInterrupted \/ BobExit \/ UNCHANGED vars
        PROVE  UNCHANGED toBob
    BY <1>1, AgentFrame, ClientFrame, MainFrame, StopFrame DEF vars, wireVars
  <1>2. ASSUME UNCHANGED toBob PROVE Reported'
    BY <1>2, ReportedMore
  <1> QED
    BY <1>1, <1>2, ReportedAlice, ReportedBob DEF Next

\* Only BobResult writes a result.
LEMMA ResultFrame ==
  ASSUME [Next]_vars, \A s \in Session : ~BobResult(s)
  PROVE  UNCHANGED result
  <1>1. ASSUME NEW s \in Session, BobNext(s) PROVE UNCHANGED result
    BY <1>1 DEF BobNext, BobTakesUp, BobTurnsAway, BobStageI, BobNoD, BobStageII, BobReset
  <1> QED
    BY <1>1, AliceFrame, AgentFrame, ClientFrame, MainFrame, StopFrame
       DEF Next, vars, bobVars

\* What it writes: the message at hand, or nothing.
LEMMA ResultRead ==
  ASSUME TypeOK, Reported, NEW s \in Session, BobResult(s)
  PROVE  \/ UNCHANGED result
         \/ \E v : result' = [result EXCEPT ![s] = v] /\ (v = NoVerdict \/ Own(v, s))
  <1>1. Head(toBob[s]) \in Range(toBob[s])
    BY RangeTail DEF BobResult, TypeOK, WireTypeOK
  <1>2. CASE Head(toBob[s]).type = "result"
    BY <1>1, <1>2 DEF BobResult, Reported
  <1>3. CASE Head(toBob[s]).type # "result"
    BY <1>3 DEF BobResult
  <1> QED
    BY <1>2, <1>3

LEMMA RecordedStep ==
  ASSUME TypeOK, Frozen, Reported, Recorded, [Next]_vars
  PROVE  Recorded'
  <1> SUFFICES ASSUME NEW t \in Session, result'[t] # NoVerdict
               PROVE  result'[t] \in verdicts' /\ result'[t].agent = b'[t] /\ result'[t].tok <= t
    BY DEF Recorded, Own, Given
  <1>1. Own(result'[t], t)
    <2>1. CASE result' = result
      BY <2>1 DEF Recorded
    <2>2. CASE result' # result
      <3>1. PICK s \in Session : BobResult(s)
        BY <2>2, ResultFrame
      <3>2. PICK v : result' = [result EXCEPT ![s] = v] /\ (v = NoVerdict \/ Own(v, s))
        BY <2>2, <3>1, ResultRead
      <3> QED
        BY <3>2 DEF Recorded, TypeOK, BobTypeOK
    <2> QED
      BY <2>1, <2>2
  <1> QED
    BY <1>1, GivenToSelected DEF Own

-----------------------------------------------------------------------------
(* Bob's queue.                                                            *)

LEMMA ServedStays ==
  ASSUME ServedOnce, UNCHANGED <<alice, alice_queue, result>>
  PROVE  ServedOnce'
  BY DEF ServedOnce, Unserved

\* An Alice never goes back to where she was not yet connected.
LEMMA ConnectedStays ==
  ASSUME TypeOK, NEW s \in Session, AliceNext(s)
  PROVE  \A t \in Session : alice'[t] \in {"down", "gather"} => alice[t] \in {"down", "gather"}
  <1> USE DEF TypeOK, AliceTypeOK
  <1>1. CASE AliceStart(s)
    BY <1>1 DEF AliceStart
  <1>2. CASE AliceConnect(s) \/ AliceSendD(s)
    BY <1>2 DEF AliceConnect, AliceSendD
  <1>3. CASE AliceSelect(s) \/ AliceReport(s)
    BY <1>3 DEF AliceSelect, AliceReport
  <1>4. CASE AliceTimeout(s) \/ AliceShutdown(s) \/ AliceKilled(s)
    BY <1>4 DEF AliceTimeout, AliceShutdown, AliceKilled
  <1> QED
    BY <1>1, <1>2, <1>3, <1>4 DEF AliceNext

LEMMA ServedConnect ==
  ASSUME TypeOK, ServedOnce, NEW s \in Session, AliceConnect(s)
  PROVE  ServedOnce'
  <1>1. result' = result /\ alice'[s] \notin {"down", "gather"}
        /\ \A t \in Session \ {s} : alice'[t] = alice[t]
    BY DEF AliceConnect, TypeOK, AliceTypeOK
  <1>2. alice[s] = "gather" /\ result[s] = NoVerdict
    BY DEF AliceConnect, ServedOnce
  <1>3. \A k \in DOMAIN alice_queue : alice_queue[k] \in Session /\ alice_queue[k] # s
    BY <1>2 DEF ServedOnce, Unserved, TypeOK, BobTypeOK
  <1>4. CASE alice_queue' = alice_queue
    BY <1>1, <1>3, <1>4 DEF ServedOnce, Unserved
  <1>5. CASE alice_queue' = Append(alice_queue, s)
    <2>1. /\ DOMAIN alice_queue' = DOMAIN alice_queue \cup {Len(alice_queue) + 1}
          /\ alice_queue'[Len(alice_queue) + 1] = s
          /\ \A k \in DOMAIN alice_queue : alice_queue'[k] = alice_queue[k]
      BY <1>5 DEF TypeOK, BobTypeOK
    <2> QED
      BY <1>1, <1>2, <1>3, <2>1 DEF ServedOnce, Unserved
  <1> QED
    BY <1>4, <1>5 DEF AliceConnect

LEMMA ServedAlice ==
  ASSUME TypeOK, ServedOnce, NEW s \in Session, AliceNext(s)
  PROVE  ServedOnce'
  <1>1. CASE AliceConnect(s)
    BY <1>1, ServedConnect
  <1>2. CASE ~AliceConnect(s)
    <2>1. UNCHANGED <<alice_queue, result>>
      BY <1>2 DEF AliceNext, AliceStart, AliceSendD, AliceSelect, AliceReport, AliceTimeout,
           AliceShutdown, AliceKilled, bobVars
    <2>2. \A k \in DOMAIN alice_queue : alice_queue[k] \in Session
      BY DEF TypeOK, BobTypeOK
    <2> QED
      BY <2>1, <2>2, ConnectedStays DEF ServedOnce, Unserved
  <1> QED
    BY <1>1, <1>2

\* The session at the head leaves the queue when its result is written.
LEMMA ServedBob ==
  ASSUME TypeOK, ServedOnce, NEW s \in Session, BobNext(s)
  PROVE  ServedOnce'
  <1>1. alice' = alice
    BY BobFrame DEF aliceVars
  <1>2. CASE UNCHANGED <<alice_queue, result>>
    BY <1>1, <1>2, ServedStays
  <1>3. CASE ~UNCHANGED <<alice_queue, result>>
    <2>1. /\ alice_queue # <<>> /\ Head(alice_queue) = s /\ alice_queue' = Tail(alice_queue)
          /\ result' = result \/ \E v : result' = [result EXCEPT ![s] = v]
      BY <1>3 DEF BobNext, BobTakesUp, BobTurnsAway, BobStageI, BobNoD, BobStageII,
                BobResult, BobReset, EndSession,
           Serving
    <2>2. alice_queue[1] = s /\ 1 \in DOMAIN alice_queue
      BY <2>1, TailAt DEF TypeOK, BobTypeOK
    <2>3. \A k \in DOMAIN alice_queue' :
            k \in Nat \ {0} /\ k + 1 \in DOMAIN alice_queue /\ alice_queue'[k] = alice_queue[k + 1]
      BY <2>1, TailAt DEF TypeOK, BobTypeOK
    <2>4. \A k \in DOMAIN alice_queue' : alice_queue'[k] # s /\ alice_queue'[k] \in Session
      BY <2>2, <2>3 DEF ServedOnce, TypeOK, BobTypeOK
    <2>5. alice[s] \notin {"down", "gather"} /\ \A t \in Session \ {s} : result'[t] = result[t]
      BY <2>1, <2>2 DEF ServedOnce, Unserved, TypeOK, BobTypeOK
    <2>6. \A k, l \in DOMAIN alice_queue' : alice_queue'[k] = alice_queue'[l] => k = l
      <3> TAKE k, l \in DOMAIN alice_queue'
      <3>1. alice_queue'[k] = alice_queue'[l] => k + 1 = l + 1
        BY <2>3 DEF ServedOnce
      <3> QED
        BY <2>3, <3>1
    <2>7. \A k \in DOMAIN alice_queue' : alice'[alice_queue'[k]] \notin {"down", "gather"}
                                      /\ result'[alice_queue'[k]] = NoVerdict
      BY <1>1, <2>3, <2>4, <2>5 DEF ServedOnce, Unserved
    <2> QED
      BY <1>1, <2>5, <2>6, <2>7 DEF ServedOnce, Unserved
  <1> QED
    BY <1>2, <1>3

LEMMA ServedStep ==
  ASSUME TypeOK, ServedOnce, [Next]_vars
  PROVE  ServedOnce'
  <1>1. ASSUME \/ \E s \in Session, i \in Pid : AgentNext(s, i) \/ ClientNext(s, i)
               \/ (\E i \in Pid : MainNext(i)) \/ BobInterrupted \/ BobExit \/ UNCHANGED vars
        PROVE  UNCHANGED <<alice, alice_queue, result>>
    BY <1>1, AgentFrame, ClientFrame, MainFrame, StopFrame DEF vars, aliceVars, bobVars
  <1> QED
    BY <1>1, ServedStays, ServedAlice, ServedBob DEF Next

-----------------------------------------------------------------------------
(* The order of the Alices.                                                *)

\* One Alice moves at a time; one that is done stays so, and none but a start leaves
\* "down".
LEMMA TurnMove ==
  ASSUME TypeOK, NEW s \in Session, AliceNext(s)
  PROVE  /\ \A t \in Session \ {s} : alice'[t] = alice[t]
         /\ alice[s] # "done"
         /\ alice[s] = "down" => \A t \in 1..(s - 1) : alice[t] = "done"
  <1> USE DEF TypeOK, AliceTypeOK
  <1>1. CASE AliceStart(s)
    BY <1>1 DEF AliceStart
  <1>2. CASE AliceConnect(s) \/ AliceSendD(s)
    BY <1>2 DEF AliceConnect, AliceSendD
  <1>3. CASE AliceSelect(s) \/ AliceReport(s)
    BY <1>3 DEF AliceSelect, AliceReport
  <1>4. CASE AliceTimeout(s) \/ AliceShutdown(s) \/ AliceKilled(s)
    BY <1>4 DEF AliceTimeout, AliceShutdown, AliceKilled, AliceUp
  <1> QED
    BY <1>1, <1>2, <1>3, <1>4 DEF AliceNext

LEMMA InTurnStep ==
  ASSUME TypeOK, InTurn, [Next]_vars
  PROVE  InTurn'
  <1>1. ASSUME \/ \E s \in Session, i \in Pid : AgentNext(s, i) \/ ClientNext(s, i)
               \/ \E s \in Session : BobNext(s)
               \/ (\E i \in Pid : MainNext(i)) \/ BobInterrupted \/ BobExit \/ UNCHANGED vars
        PROVE  InTurn'
    <2>1. UNCHANGED alice
      BY <1>1, AgentFrame, ClientFrame, MainFrame, BobFrame, StopFrame
         DEF vars, aliceVars
    <2> QED
      BY <2>1 DEF InTurn
  <1>2. ASSUME NEW s \in Session, AliceNext(s) PROVE InTurn'
    <2>1. /\ \A t \in Session \ {s} : alice'[t] = alice[t]
          /\ alice[s] # "done"
          /\ alice[s] = "down" => \A t \in 1..(s - 1) : alice[t] = "done"
      BY <1>2, TurnMove
    <2> SUFFICES ASSUME NEW u \in Session, alice'[u] # "down", NEW t \in 1..(u - 1)
                 PROVE  alice'[t] = "done"
      BY DEF InTurn
    <2>2. t \in Session
      BY NAssumption DEF Session
    <2>3. alice[t] = "done"
      BY <2>1 DEF InTurn
    <2> QED
      BY <2>1, <2>2, <2>3
  <1> QED
    BY <1>1, <1>2 DEF Next

-----------------------------------------------------------------------------
(* The invariant.                                                          *)

LEMMA ResultInit == Init => ResultSound
  <1> SUFFICES ASSUME Init PROVE ResultSound
    OBVIOUS
  <1> USE DEF Init
  <1>1. \A s \in Session : Range(toBob[s]) = {} /\ result[s] = NoVerdict
    BY DEF Range
  <1>2. \A s \in Session, i \in Pid : Range(answer[s][i]) = {} /\ Range(toAlice[s][i]) = {}
    BY DEF Range
  <1>3. DOMAIN alice_queue = {}
    OBVIOUS
  <1> QED
    BY <1>1, <1>2, <1>3 DEF ResultSound, Answered, Relayed, Reported, Recorded, ServedOnce,
                            InTurn

LEMMA ResultStep ==
  ASSUME TypeOK, InFlightSound, ResultSound, [Next]_vars
  PROVE  ResultSound'
  <1>1. Frozen
    BY FrozenStep DEF InFlightSound
  <1>2. Answered' /\ Relayed' /\ Reported'
    BY <1>1, AnsweredStep, RelayedStep, ReportedStep DEF InFlightSound, ResultSound
  <1>3. Recorded' /\ ServedOnce' /\ InTurn'
    BY <1>1, RecordedStep, ServedStep, InTurnStep DEF ResultSound
  <1> QED
    BY <1>2, <1>3 DEF ResultSound

LEMMA AlwaysSound == Spec => [](TypeOK /\ InFlightSound /\ ResultSound)
  BY TypeCorrect, InFlightCorrect, ResultInit, ResultStep, PTL DEF Spec

\* For any number of sessions and whatever fails, the result Bob reads for one was
\* computed by the agent she selected, and never on the token of a later session.  It
\* may be on an earlier one's: a verdict that comes late is written to the connection
\* writer_client denotes by then.
THEOREM RecordedSafety == Spec => []Recorded
  BY AlwaysSound, PTL DEF ResultSound

\* The validation result Bob reads for a session is a verdict some BobAgent computed,
\* by the agent that session selected and on the token of that session.
ResultOnOwnToken ==
  \A s \in Session : result[s] # NoVerdict =>
    result[s] \in verdicts /\ result[s].agent = b[s] /\ result[s].tok = s

\* With one Alice, whatever fails, the result Bob reads is a verdict of the agent she
\* selected, on her own token.
THEOREM ResultSafety == ASSUME N = 1 PROVE Spec => []ResultOnOwnToken
  <1>1. TypeOK /\ ResultSound => ResultOnOwnToken
    BY DEF ResultSound, Recorded, Own, Given, ResultOnOwnToken, TypeOK, BobAgentTypeOK, Verdict,
           Session
  <1> QED
    BY <1>1, AlwaysSound, PTL

-----------------------------------------------------------------------------
(* The refinement.  The judged points and the outcome of a token, as       *)
(* Presentation reads them off verdicts and result.                        *)

Judges == [s \in Session |-> {v.agent : v \in {u \in verdicts : u.tok = s}}]
Outcomes == [s \in Session |-> result[s].agent]

LEMMA PresentationInit == Init => Presentation!Init
  BY DEF Init, Presentation!Init, NoVerdict

LEMMA PresentationSelect ==
  ASSUME TypeOK, SelectedLast, NEW s \in Session, AliceNext(s)
  PROVE  \E p \in Pid : Presentation!Select(s, p) \/ UNCHANGED b
  <1>1. CASE AliceSelect(s)
    <2>1. PICK p \in agents_conns[s] : b' = [b EXCEPT ![s] = p]
      BY <1>1 DEF AliceSelect
    <2>2. p \in Pid /\ b[s] = NoPid
      BY <1>1 DEF AliceSelect, SelectedLast, Selected, TypeOK, AliceTypeOK
    <2>3. UNCHANGED <<verdicts, result>>
      BY AliceFrame DEF bobAgentVars
    <2> QED
      BY <2>1, <2>2, <2>3 DEF Presentation!Select
  <1>2. CASE ~AliceSelect(s)
    BY <1>2, ZeroType DEF AliceNext, AliceStart, AliceConnect, AliceSendD, AliceReport,
         AliceTimeout, AliceShutdown, AliceKilled
  <1> QED
    BY <1>1, <1>2

\* A second verdict on a token is one more of the agent that gave the first.
LEMMA PresentationJudge ==
  ASSUME TypeOK, InFlightSound, NEW s \in Session, NEW i \in Pid, Verify(s, i)
  PROVE  \E t \in Session : Presentation!Judge(t) \/ UNCHANGED Judges
  <1> DEFINE v == VerdictOf(i)
             t == token[i]
  <1>1. t \in Session /\ b[t] = i
    BY NAssumption DEF Verify, InFlightSound, HandlerHasData, TokenOnlyAtSelected, TypeOK,
         BobAgentTypeOK, Session
  <1>2. v.agent = i /\ v.tok = t /\ verdicts' = verdicts \cup {v}
    BY DEF Verify, VerdictOf
  <1> HIDE DEF v, t
  <1>3. Judges' = [Judges EXCEPT ![t] = Judges[t] \cup {i}]
    BY <1>1, <1>2 DEF Judges
  <1>4. Judges[t] \subseteq {i}
    BY <1>1 DEF Judges, InFlightSound, VerdictSound
  <1>5. CASE Judges[t] = {}
    <2>1. b[t] # NoPid /\ Judges' = [Judges EXCEPT ![t] = {b[t]}]
      BY <1>1, <1>3, <1>5, NoPidFresh
    <2>2. UNCHANGED <<b, result>>
      BY DEF Verify, aliceVars, bobVars
    <2> QED
      BY <1>1, <1>5, <2>1, <2>2 DEF Judges, Presentation!Judge
  <1>6. CASE Judges[t] = {i}
    BY <1>1, <1>3, <1>6 DEF Judges
  <1> QED
    BY <1>4, <1>5, <1>6

LEMMA PresentationConclude ==
  ASSUME N = 1, TypeOK, InFlightSound, ResultSound, NEW s \in Session, BobResult(s)
  PROVE  Presentation!Conclude(s) \/ UNCHANGED Outcomes
  <1>1. CASE UNCHANGED result
    BY <1>1 DEF Outcomes
  <1>2. CASE ~UNCHANGED result
    <2>1. PICK v : result' = [result EXCEPT ![s] = v] /\ (v = NoVerdict \/ Own(v, s))
      BY <1>2, ResultRead DEF ResultSound
    <2>2. result[s] = NoVerdict
      BY TailAt DEF BobResult, Serving, ResultSound, ServedOnce, Unserved, TypeOK, BobTypeOK
    <2>3. v # NoVerdict
      BY <1>2, <2>1, <2>2 DEF TypeOK, BobTypeOK
    <2>4. v \in verdicts /\ v.agent = b[s] /\ v.tok = s
      BY <2>1, <2>3 DEF Own, Given, TypeOK, BobAgentTypeOK, Verdict, Session
    <2>5. Judges[s] # {} /\ Outcomes[s] = NoPid
      BY <2>2, <2>4 DEF Judges, Outcomes, NoVerdict
    <2>6. Outcomes' = [Outcomes EXCEPT ![s] = b[s]]
      BY <2>1, <2>4 DEF Outcomes, TypeOK, BobTypeOK
    <2>7. UNCHANGED <<b, verdicts>>
      BY DEF BobResult, aliceVars, bobAgentVars
    <2> QED
      BY <2>5, <2>6, <2>7 DEF Judges, Outcomes, Presentation!Conclude
  <1> QED
    BY <1>1, <1>2

LEMMA PresentationStep ==
  ASSUME N = 1, TypeOK, InFlightSound, ResultSound, [Next]_vars
  PROVE  [Presentation!Next]_(Presentation!vars)
  <1>1. ASSUME UNCHANGED <<b, verdicts, result>> PROVE UNCHANGED Presentation!vars
    BY <1>1 DEF Presentation!vars
  <1>2. ASSUME NEW s \in Session, AliceNext(s)
        PROVE  Presentation!Next \/ UNCHANGED <<b, verdicts, result>>
    BY <1>2, AliceFrame, PresentationSelect DEF InFlightSound, Presentation!Next, bobAgentVars
  <1>3. ASSUME NEW s \in Session, NEW i \in Pid, Verify(s, i)
        PROVE  Presentation!Next \/ UNCHANGED Presentation!vars
    <2>1. UNCHANGED <<b, result>>
      BY <1>3 DEF Verify, aliceVars, bobVars
    <2> QED
      BY <1>3, <2>1, PresentationJudge DEF Presentation!Next, Presentation!vars, Judges
  <1>4. ASSUME NEW s \in Session, BobResult(s)
        PROVE  Presentation!Next \/ UNCHANGED Presentation!vars
    <2>1. UNCHANGED <<b, verdicts>>
      BY <1>4 DEF BobResult, aliceVars, bobAgentVars
    <2> QED
      BY <1>4, <2>1, PresentationConclude DEF Presentation!Next, Presentation!vars, Outcomes
  <1>5. ASSUME NEW s \in Session, BobNext(s), ~BobResult(s)
        PROVE  UNCHANGED <<b, verdicts, result>>
    BY <1>5, BobFrame DEF BobNext, BobTakesUp, BobTurnsAway, BobStageI, BobNoD, BobStageII, BobReset, aliceVars, bobAgentVars
  <1>6. ASSUME NEW s \in Session, NEW i \in Pid, ClientNext(s, i), ~Verify(s, i)
        PROVE  UNCHANGED <<b, verdicts, result>>
    BY <1>6, ClientFrame DEF ClientNext, HandleClient, ClientToken, ClientEof, ClientReturns,
         aliceVars, bobVars
  <1>7. ASSUME \/ \E s \in Session, i \in Pid : AgentNext(s, i)
               \/ (\E i \in Pid : MainNext(i)) \/ BobInterrupted \/ BobExit \/ UNCHANGED vars
        PROVE  UNCHANGED <<b, verdicts, result>>
    BY <1>7, AgentFrame, MainFrame, StopFrame DEF vars, aliceVars, bobAgentVars, bobVars
  <1> QED
    BY <1>1, <1>2, <1>3, <1>4, <1>5, <1>6, <1>7 DEF Next

\* With one Alice the exchange implements TokenPresentation, whatever fails: her token is
\* presented at one point at most, judged there and nowhere else, and the outcome Bob
\* records is that judgement.
THEOREM PresentationSafety == ASSUME N = 1 PROVE Spec => PresentedOnce
  <1>1. Init => Presentation!Init
    BY PresentationInit
  <1>2. TypeOK /\ InFlightSound /\ ResultSound /\ [Next]_vars
          => [Presentation!Next]_(Presentation!vars)
    BY PresentationStep
  <1> QED
    BY <1>1, <1>2, AlwaysSound, PTL DEF Spec, PresentedOnce, Presentation!Spec

=============================================================================
