------------------------------- MODULE QToken -------------------------------
(***************************************************************************)
(* The QT1 token exchange of Qtoken_Qline: Bob, his 2^M BobAgents, and a   *)
(* succession of Alices, each started with 2^M AliceAgents of her own.     *)
(* Every participant is a process; they talk over TCP connections, which   *)
(* are FIFO sequences here, "eof" standing for the end of the stream.      *)
(*                                                                         *)
(* A token is the session it was measured in.  A basis string is a pair:   *)
(* the session whose string y it was derived from and the M-bit pattern    *)
(* XORed onto every M-bit block of y.  The string is y itself exactly when *)
(* that pattern is Zero.                                                   *)
(***************************************************************************)
EXTENDS Naturals, Sequences, Functions

CONSTANTS
  M,          \* number of bits in an agent's name
  N,          \* number of Alice runs (sessions)
  Persistent, \* Bob's --persistent flag
  Failures    \* environment events that may occur

ASSUME MAssumption == M \in Nat \ {0}
ASSUME NAssumption == N \in Nat
ASSUME PersistentAssumption == Persistent \in BOOLEAN
ASSUME FailuresAssumption == Failures \subseteq {"timeout", "kill", "sigint"}

Session == 1..N
Pid == [1..M -> {0, 1}]
NoPid == <<>>
Zero == [k \in 1..M |-> 0]

\* Bitwise XOR of two M-bit patterns.
XorOffByOne(p, q) == [k \in 0..(M - 1) |-> IF k > 0 /\ p[k] = q[k] THEN 0 ELSE 1]
Xor(p, q) == [k \in 1..M |-> IF p[k] = q[k] THEN 0 ELSE 1]

Basis == [y : 0..N, mask : Pid]
NoBasis == [y |-> 0, mask |-> Zero]

\* A verdict is identified by the inputs verify_token_error read: the agent, the token, the
\* bases, and the session of Bob's states t and bases u.
Verdict == [agent : Pid, tok : Session, basis : Basis, tu : 0..N]
NoVerdict == [agent |-> NoPid, tok |-> 0, basis |-> NoBasis, tu |-> 0]

VARIABLES
  alice,        \* alice[s]: where execute_protocol of session s stands
  z, b,         \* z[s]: the mask drawn; b[s]: the agent selected, or NoPid
  agents_conns, \* agents_conns[s]: the AliceAgents registered with Alice
  toAgent,      \* toAgent[s][i]: Alice to AliceAgent
  toAlice,      \* toAlice[s][i]: AliceAgent to Alice
  agent,        \* agent[s][i]: where the AliceAgent's run stands
  present,      \* present[s][i]: AliceAgent to BobAgent
  answer,       \* answer[s][i]: BobAgent to AliceAgent
  handler,      \* handler[s][i]: the listen_client task of that connection
  closed,       \* closed[s]: the agents that closed their end of it
  listener,     \* listener[i]: the listen_main task of BobAgent i
  d_i, d_tilde, \* BobAgent data: bases received, bases unblinded
  token,        \* BobAgent data: the token last received, 0 for None
  writer_client,\* writer_client[i]: the connection self.writer_client denotes
  toMain,       \* toMain[i]: Bob to BobAgent
  bob,          \* where process_alice stands
  shutdown_event, \* Bob's: he has told his agents to stop and accepts no Alice
  agents,       \* the BobAgents registered with Bob
  alice_queue,  \* connections of Alices, the one being served at the head
  toBob,        \* toBob[s]: Alice to Bob
  toAck,        \* toAck[s]: Bob to Alice
  result,       \* result[s]: the validation result Bob read
  session_count,
  verdicts      \* history: every verdict computed

aliceVars == <<alice, z, b, agents_conns>>
agentVars == <<toAgent, toAlice, agent>>
linkVars == <<present, answer, closed>>
dataVars == <<d_i, d_tilde, token, writer_client>>
bobAgentVars == <<handler, listener, dataVars, verdicts>>
bobVars == <<bob, shutdown_event, agents, alice_queue, result, session_count>>
wireVars == <<toBob, toAck>>
vars == <<aliceVars, agentVars, linkVars, bobAgentVars, toMain, bobVars, wireVars>>

\* What travels on the connections; Eof ends a stream that carries records.
Eof == [type |-> "eof"]
Result == [type : {"result"}, v : Verdict \cup {NoVerdict}]
ReplyMsg == Result \cup {Eof}
MainMsg == [type : {"d_i"}, basis : Basis] \cup [type : {"c"}, c : Pid]
             \cup [type : {"c_none"}] \cup {Eof}
BobMsg == [type : {"d", "c"}, mask : Pid] \cup ReplyMsg

AliceTypeOK ==
  /\ alice \in [Session -> {"down", "gather", "connected", "ack", "answer", "finished", "done"}]
  /\ z \in [Session -> Pid]
  /\ b \in [Session -> Pid \cup {NoPid}]
  /\ agents_conns \in [Session -> SUBSET Pid]

AgentTypeOK ==
  /\ toAgent \in [Session -> [Pid -> Seq({"token", "send_token", "eof"})]]
  /\ toAlice \in [Session -> [Pid -> Seq(ReplyMsg)]]
  /\ agent \in [Session -> [Pid -> {"down", "token", "request", "reply", "stopped"}]]

LinkTypeOK ==
  /\ present \in [Session -> [Pid -> Seq({"token", "eof"})]]
  /\ answer \in [Session -> [Pid -> Seq(ReplyMsg)]]
  /\ closed \in [Session -> SUBSET Pid]

BobAgentTypeOK ==
  /\ handler \in [Session -> [Pid -> {"none", "read", "wait", "end"}]]
  /\ listener \in [Pid -> {"up", "dead", "closing", "off"}]
  /\ d_i \in [Pid -> Basis]
  /\ d_tilde \in [Pid -> Basis]
  /\ token \in [Pid -> 0..N]
  /\ writer_client \in [Pid -> 0..N]
  /\ verdicts \subseteq Verdict

MainTypeOK == toMain \in [Pid -> Seq(MainMsg)]

BobTypeOK ==
  /\ bob \in {"idle", "d", "c", "result", "ended", "stopped"}
  /\ shutdown_event \in BOOLEAN
  /\ agents \subseteq Pid
  /\ alice_queue \in Seq(Session)
  /\ result \in [Session -> Verdict \cup {NoVerdict}]
  /\ session_count \in Nat

WireTypeOK ==
  /\ toBob \in [Session -> Seq(BobMsg)]
  /\ toAck \in [Session -> Seq({"OK", "eof"})]

TypeOK ==
  /\ AliceTypeOK /\ AgentTypeOK /\ LinkTypeOK /\ BobAgentTypeOK
  /\ MainTypeOK /\ BobTypeOK /\ WireTypeOK

Init ==
  /\ alice = [s \in Session |-> "down"]
  /\ z = [s \in Session |-> Zero]
  /\ b = [s \in Session |-> NoPid]
  /\ agents_conns = [s \in Session |-> {}]
  /\ toAgent = [s \in Session |-> [i \in Pid |-> <<>>]]
  /\ toAlice = [s \in Session |-> [i \in Pid |-> <<>>]]
  /\ agent = [s \in Session |-> [i \in Pid |-> "down"]]
  /\ present = [s \in Session |-> [i \in Pid |-> <<>>]]
  /\ answer = [s \in Session |-> [i \in Pid |-> <<>>]]
  /\ closed = [s \in Session |-> {}]
  /\ handler = [s \in Session |-> [i \in Pid |-> "none"]]
  /\ listener = [i \in Pid |-> "up"]
  /\ d_i = [i \in Pid |-> NoBasis]
  /\ d_tilde = [i \in Pid |-> NoBasis]
  /\ token = [i \in Pid |-> 0]
  /\ writer_client = [i \in Pid |-> 0]
  /\ verdicts = {}
  /\ toMain = [i \in Pid |-> <<>>]
  /\ bob = "idle"
  /\ shutdown_event = FALSE
  /\ agents = {}
  /\ alice_queue = <<>>
  /\ result = [s \in Session |-> NoVerdict]
  /\ session_count = 0
  /\ toBob = [s \in Session |-> <<>>]
  /\ toAck = [s \in Session |-> <<>>]

-----------------------------------------------------------------------------
(* Alice.                                                                  *)

AliceUp(s) == alice[s] \notin {"down", "done"}

\* A new Alice binds the agent ports, so the previous one must have exited.
AliceStart(s) ==
  /\ alice[s] = "down"
  /\ \A t \in 1..(s - 1) : alice[t] = "done"
  /\ alice' = [alice EXCEPT ![s] = "gather"]
  /\ UNCHANGED <<z, b, agents_conns, agentVars, linkVars, bobAgentVars, toMain, bobVars, wireVars>>

\* What shutdown() sends, and what the exit of the process does anyway.
ShutdownAgents(s) ==
  toAgent' = [toAgent EXCEPT ![s] =
                [i \in Pid |-> IF i \in agents_conns[s] THEN Append(@[i], "eof") ELSE @[i]]]

\* With all the agents there, hand each the token and connect to Bob; a refused
\* connection ends the run through the finally clause.
AliceConnect(s) ==
  /\ alice[s] = "gather"
  /\ agents_conns[s] = Pid
  /\ IF shutdown_event
     THEN /\ toAgent' = [toAgent EXCEPT ![s] = [i \in Pid |-> @[i] \o <<"token", "eof">>]]
          /\ alice' = [alice EXCEPT ![s] = "done"]
          /\ UNCHANGED alice_queue
     ELSE /\ toAgent' = [toAgent EXCEPT ![s] = [i \in Pid |-> Append(@[i], "token")]]
          /\ alice' = [alice EXCEPT ![s] = "connected"]
          /\ alice_queue' = Append(alice_queue, s)
  /\ UNCHANGED <<z, b, agents_conns, toAlice, agent, linkVars, bobAgentVars, toMain,
                 bob, shutdown_event, agents, result, session_count, wireVars>>

AliceSendD(s) ==
  /\ alice[s] = "connected"
  /\ \E m \in Pid :
       /\ z' = [z EXCEPT ![s] = m]
       /\ toBob' = [toBob EXCEPT ![s] = Append(@, [type |-> "d", mask |-> m])]
  /\ alice' = [alice EXCEPT ![s] = "ack"]
  /\ UNCHANGED <<b, agents_conns, agentVars, linkVars, bobAgentVars, toMain, bobVars, toAck>>

\* The agents that are sent the token request when p is selected.
AskEveryAgent(s, p) == agents_conns[s]
Asked(s, p) == {p}

\* Whatever the acknowledgement is (a wrong one is only logged), select an agent,
\* tell Bob c and ask the agent to present the token.
AliceSelect(s) ==
  /\ alice[s] = "ack"
  /\ toAck[s] # <<>>
  /\ toAck' = [toAck EXCEPT ![s] = Tail(@)]
  /\ \E p \in agents_conns[s] :
       /\ b' = [b EXCEPT ![s] = p]
       /\ toBob' = [toBob EXCEPT ![s] = Append(@, [type |-> "c", mask |-> Xor(p, z[s])])]
       /\ toAgent' = [toAgent EXCEPT ![s] =
                        [i \in Pid |-> IF i \in Asked(s, p) THEN Append(@[i], "send_token")
                                       ELSE @[i]]]
  /\ alice' = [alice EXCEPT ![s] = "answer"]
  /\ UNCHANGED <<z, agents_conns, toAlice, agent, linkVars, bobAgentVars, toMain, bobVars>>

\* Relay the agent's message, or its absence, to Bob and close that connection.
AliceReport(s) ==
  /\ alice[s] = "answer"
  /\ LET ch == toAlice[s][b[s]] IN
       /\ ch # <<>>
       /\ toAlice' = [toAlice EXCEPT ![s][b[s]] = Tail(@)]
       /\ toBob' = [toBob EXCEPT ![s] =
                      @ \o <<[type |-> "result",
                              v |-> IF Head(ch).type = "result" THEN Head(ch).v ELSE NoVerdict],
                             Eof>>]
  /\ alice' = [alice EXCEPT ![s] = "finished"]
  /\ UNCHANGED <<z, b, agents_conns, toAgent, agent, linkVars, bobAgentVars, toMain, bobVars, toAck>>

\* The 30 s wait for the agent expires: the exception leaves execute_protocol
\* and the finally clause shuts everything down.
AliceTimeout(s) ==
  /\ "timeout" \in Failures
  /\ alice[s] = "answer"
  /\ alice' = [alice EXCEPT ![s] = "done"]
  /\ toBob' = [toBob EXCEPT ![s] = Append(@, Eof)]
  /\ ShutdownAgents(s)
  /\ UNCHANGED <<z, b, agents_conns, toAlice, agent, linkVars, bobAgentVars, toMain, bobVars, toAck>>

\* shutdown(): at once in one-shot mode, on a signal in persistent mode.
AliceShutdown(s) ==
  /\ alice[s] = "finished"
  /\ alice' = [alice EXCEPT ![s] = "done"]
  /\ ShutdownAgents(s)
  /\ UNCHANGED <<z, b, agents_conns, toAlice, agent, linkVars, bobAgentVars, toMain, bobVars, wireVars>>

\* The process is killed; the operating system closes its connections.
AliceKilled(s) ==
  /\ "kill" \in Failures
  /\ AliceUp(s)
  /\ alice' = [alice EXCEPT ![s] = "done"]
  /\ toBob' = IF alice[s] \in {"connected", "ack", "answer"}
              THEN [toBob EXCEPT ![s] = Append(@, Eof)] ELSE toBob
  /\ ShutdownAgents(s)
  /\ UNCHANGED <<z, b, agents_conns, toAlice, agent, linkVars, bobAgentVars, toMain, bobVars, toAck>>

-----------------------------------------------------------------------------
(* AliceAgents.                                                            *)

\* BobAgent i listens for AliceAgents until it is told to stop.
Accepts(i) == i \in agents /\ listener[i] \in {"up", "dead"}

\* Connect to the BobAgent, then to Alice, who registers the connection.
AgentConnect(s, i) ==
  /\ agent[s][i] = "down"
  /\ alice[s] = "gather"
  /\ Accepts(i)
  /\ agent' = [agent EXCEPT ![s][i] = "token"]
  /\ agents_conns' = [agents_conns EXCEPT ![s] = @ \cup {i}]
  /\ UNCHANGED <<alice, z, b, toAgent, toAlice, linkVars, bobAgentVars, toMain, bobVars, wireVars>>

\* The first "token" message is the token itself.
AgentToken(s, i) ==
  /\ agent[s][i] = "token"
  /\ toAgent[s][i] # <<>> /\ Head(toAgent[s][i]) = "token"
  /\ toAgent' = [toAgent EXCEPT ![s][i] = Tail(@)]
  /\ agent' = [agent EXCEPT ![s][i] = "request"]
  /\ UNCHANGED <<aliceVars, toAlice, linkVars, bobAgentVars, toMain, bobVars, wireVars>>

\* Forward the token and stop listening to Alice.
AgentForward(s, i) ==
  /\ agent[s][i] = "request"
  /\ toAgent[s][i] # <<>> /\ Head(toAgent[s][i]) = "send_token"
  /\ toAgent' = [toAgent EXCEPT ![s][i] = Tail(@)]
  /\ agent' = [agent EXCEPT ![s][i] = "reply"]
  /\ present' = IF i \in closed[s] THEN present
                ELSE [present EXCEPT ![s][i] = Append(@, "token")]
  /\ UNCHANGED <<aliceVars, toAlice, answer, closed, bobAgentVars, toMain, bobVars, wireVars>>

\* close(): both connections, towards BobAgent and towards Alice.
AgentStop(s, i, said) ==
  /\ agent' = [agent EXCEPT ![s][i] = "stopped"]
  /\ present' = [present EXCEPT ![s][i] = Append(@, "eof")]
  /\ toAlice' = [toAlice EXCEPT ![s][i] = @ \o said \o <<Eof>>]

\* "SHUTDOWN" and the end of the stream both reach the agent as a missing value, which
\* sets the events run() waits for.
EventsUnset(s, i) ==
  /\ agent[s][i] \in {"token", "request"}
  /\ toAgent[s][i] # <<>> /\ Head(toAgent[s][i]) = "eof"
  /\ toAgent' = [toAgent EXCEPT ![s][i] = Tail(@)]
  /\ UNCHANGED <<aliceVars, toAlice, agent, linkVars, bobAgentVars, toMain, bobVars, wireVars>>
AgentShutdown(s, i) ==
  /\ agent[s][i] \in {"token", "request"}
  /\ toAgent[s][i] # <<>> /\ Head(toAgent[s][i]) = "eof"
  /\ toAgent' = [toAgent EXCEPT ![s][i] = Tail(@)]
  /\ AgentStop(s, i, <<>>)
  /\ UNCHANGED <<aliceVars, answer, closed, bobAgentVars, toMain, bobVars, wireVars>>

AgentReply(s, i) ==
  /\ agent[s][i] = "reply"
  /\ answer[s][i] # <<>>
  /\ answer' = [answer EXCEPT ![s][i] = Tail(@)]
  /\ AgentStop(s, i, IF Head(answer[s][i]).type = "result" THEN <<Head(answer[s][i])>> ELSE <<>>)
  /\ UNCHANGED <<aliceVars, toAgent, closed, bobAgentVars, toMain, bobVars, wireVars>>

-----------------------------------------------------------------------------
(* BobAgents.                                                              *)

\* A connection is accepted, in the order the connections were made: listen_client
\* starts and takes over self.writer_client.
HandleClient(s, i) ==
  /\ handler[s][i] = "none"
  /\ agent[s][i] # "down"
  /\ \A t \in 1..(s - 1) : agent[t][i] # "down" => handler[t][i] # "none"
  /\ Accepts(i)
  /\ handler' = [handler EXCEPT ![s][i] = "read"]
  /\ writer_client' = [writer_client EXCEPT ![i] = s]
  /\ UNCHANGED <<aliceVars, agentVars, linkVars, listener, d_i, d_tilde, token, verdicts,
                 toMain, bobVars, wireVars>>

\* listen_client receives the token; it replaces the one in the agent's shared data.
ClientToken(s, i) ==
  /\ handler[s][i] = "read"
  /\ present[s][i] # <<>> /\ Head(present[s][i]) = "token"
  /\ present' = [present EXCEPT ![s][i] = Tail(@)]
  /\ token' = [token EXCEPT ![i] = s]
  /\ handler' = [handler EXCEPT ![s][i] = "wait"]
  /\ UNCHANGED <<aliceVars, agentVars, answer, closed, listener, d_i, d_tilde, writer_client,
                 verdicts, toMain, bobVars, wireVars>>

\* Write msgs to, then close, the connection self.writer_client of agent i; after
\* a close, writes are dropped.
LeaveOpen(i, msgs) ==
  LET w == writer_client[i] IN
    IF i \in closed[w] THEN UNCHANGED <<answer, closed>>
    ELSE /\ answer' = [answer EXCEPT ![w][i] = @ \o msgs]
         /\ UNCHANGED closed
CloseClient(i, msgs) ==
  LET w == writer_client[i] IN
    IF i \in closed[w] THEN UNCHANGED <<answer, closed>>
    ELSE /\ answer' = [answer EXCEPT ![w][i] = @ \o msgs \o <<Eof>>]
         /\ closed' = [closed EXCEPT ![w] = @ \cup {i}]

\* The client has closed, or this end of the connection was closed by another handler.
ClientEof(s, i) ==
  /\ handler[s][i] = "read"
  /\ \/ i \in closed[s]
     \/ present[s][i] # <<>> /\ Head(present[s][i]) = "eof"
  /\ handler' = [handler EXCEPT ![s][i] = "end"]
  /\ CloseClient(i, <<>>)
  /\ UNCHANGED <<aliceVars, agentVars, present, listener, dataVars, verdicts, toMain,
                 bobVars, wireVars>>

\* The condition the polling loop waits for.
ReadyAtOnce(i) == TRUE
BasesReady(i) == d_tilde[i] # NoBasis

\* verify_token_error, a function of what the shared data holds: t and u came with d_i.
VerdictOf(i) == [agent |-> i, tok |-> token[i], basis |-> d_tilde[i], tu |-> d_i[i].y]

\* It runs once d_tilde is not None, unless the agent is told to stop first...
Verify(s, i) ==
  /\ handler[s][i] = "wait"
  /\ BasesReady(i)
  /\ Accepts(i)
  /\ LET v == VerdictOf(i) IN
       /\ verdicts' = verdicts \cup {v}
       /\ CloseClient(i, <<[type |-> "result", v |-> v]>>)
  /\ handler' = [handler EXCEPT ![s][i] = "end"]
  /\ UNCHANGED <<aliceVars, agentVars, present, listener, dataVars, toMain, bobVars, wireVars>>

\* ...when the task returns and leaves the connection open.
ClientReturns(s, i) ==
  /\ handler[s][i] = "wait"
  /\ listener[i] = "closing"
  /\ handler' = [handler EXCEPT ![s][i] = "end"]
  /\ UNCHANGED <<aliceVars, agentVars, linkVars, listener, dataVars, verdicts, toMain,
                 bobVars, wireVars>>

\* listen_main: bases for the next token (t and u travel with them)...
MainBases(i) ==
  /\ listener[i] = "up"
  /\ toMain[i] # <<>> /\ Head(toMain[i]).type = "d_i"
  /\ d_i' = [d_i EXCEPT ![i] = Head(toMain[i]).basis]
  /\ toMain' = [toMain EXCEPT ![i] = Tail(@)]
  /\ UNCHANGED <<aliceVars, agentVars, linkVars, handler, listener, d_tilde, token,
                 writer_client, verdicts, bobVars, wireVars>>

KeptBlinded(i, c) == d_i[i]
Unblinded(i, c) == [y |-> d_i[i].y, mask |-> Xor(d_i[i].mask, c)]

\* ...and c, which unblinds them.
MainC(i) ==
  /\ listener[i] = "up"
  /\ toMain[i] # <<>> /\ Head(toMain[i]).type = "c"
  /\ d_tilde' = IF d_i[i] = NoBasis THEN d_tilde
                ELSE [d_tilde EXCEPT ![i] = Unblinded(i, Head(toMain[i]).c)]
  /\ toMain' = [toMain EXCEPT ![i] = Tail(@)]
  /\ UNCHANGED <<aliceVars, agentVars, linkVars, handler, listener, d_i, token,
                 writer_client, verdicts, bobVars, wireVars>>

\* The text "None" is not a bit string: xor_bits raises and the task dies.
MainCNone(i) ==
  /\ listener[i] = "up"
  /\ toMain[i] # <<>> /\ Head(toMain[i]).type = "c_none"
  /\ toMain' = [toMain EXCEPT ![i] = Tail(@)]
  /\ listener' = [listener EXCEPT ![i] = "dead"]
  /\ UNCHANGED <<aliceVars, agentVars, linkVars, handler, dataVars, verdicts, bobVars, wireVars>>

\* SHUTDOWN or end of stream: shutdown_event is set.  The client server closes, which
\* resets the connections it has not accepted; the tasks of the others go on.
MainShutdown(i) ==
  /\ listener[i] = "up"
  /\ toMain[i] # <<>> /\ Head(toMain[i]).type = "eof"
  /\ toMain' = [toMain EXCEPT ![i] = Tail(@)]
  /\ listener' = [listener EXCEPT ![i] = "closing"]
  /\ LET Reset(s) == agent[s][i] # "down" /\ handler[s][i] = "none" IN
       /\ answer' = [s \in Session |->
                       IF Reset(s) THEN [answer[s] EXCEPT ![i] = Append(@, Eof)] ELSE answer[s]]
       /\ closed' = [s \in Session |-> IF Reset(s) THEN closed[s] \cup {i} ELSE closed[s]]
  /\ UNCHANGED <<aliceVars, agentVars, present, handler, dataVars, verdicts, bobVars, wireVars>>

\* srv.wait_closed(): the process exits when this end of every accepted connection is
\* closed.
ClientsClosed(i) == \A s \in Session : handler[s][i] # "none" => i \in closed[s]
BobAgentExit(i) ==
  /\ listener[i] = "closing"
  /\ ClientsClosed(i)
  /\ listener' = [listener EXCEPT ![i] = "off"]
  /\ handler' = [s \in Session |-> [handler[s] EXCEPT ![i] = "end"]]
  /\ UNCHANGED <<aliceVars, agentVars, linkVars, dataVars, verdicts, toMain, bobVars, wireVars>>

-----------------------------------------------------------------------------
(* Bob.                                                                    *)

\* A BobAgent connects to Bob; its own client server starts next.
RegisterAgent(i) ==
  /\ bob # "stopped"
  /\ i \notin agents
  /\ agents' = agents \cup {i}
  /\ UNCHANGED <<aliceVars, agentVars, linkVars, bobAgentVars, toMain, bob, shutdown_event,
                 alice_queue, result, session_count, wireVars>>

SamePatternForAll(s, i, m) == [y |-> s, mask |-> m]
BlindedFor(s, i, m) == [y |-> s, mask |-> Xor(m, i)]

\* What shutdown() sends to every BobAgent whose connection it has not closed yet; the
\* exit of the process closes the rest.
Told(i) == listener[i] # "up" \/ Eof \in Range(toMain[i])
StopAgents ==
  toMain' = [i \in Pid |-> IF i \in agents /\ ~Told(i) THEN Append(toMain[i], Eof) ELSE toMain[i]]

\* What is sent to an agent after that is lost.
SendMain(i, m) == IF shutdown_event THEN toMain[i] ELSE Append(toMain[i], m)

\* finally: close the connection and, in one-shot mode, shut everything down.
EndSession(s) ==
  /\ toAck' = [toAck EXCEPT ![s] = Append(@, "eof")]
  /\ alice_queue' = Tail(alice_queue)
  /\ shutdown_event' = (shutdown_event \/ ~Persistent)
  /\ bob' = IF shutdown_event' THEN "ended" ELSE "idle"
  /\ IF Persistent THEN UNCHANGED toMain ELSE StopAgents

\* The acknowledgement that ends stage I.
AcknowledgeNobody(s) == UNCHANGED toAck
Acknowledge(s) == toAck' = [toAck EXCEPT ![s] = Append(@, "OK")]

Serving(s) == alice_queue # <<>> /\ Head(alice_queue) = s

\* An Alice is served when all the agents are there...
BobTakesUp(s) ==
  /\ bob = "idle" /\ Serving(s) /\ agents = Pid
  /\ ~shutdown_event
  /\ bob' = "d"
  /\ UNCHANGED <<aliceVars, agentVars, linkVars, bobAgentVars, toMain, shutdown_event, agents,
                 alice_queue, result, session_count, wireVars>>

\* ...or turned away when Bob is told to stop before.
BobTurnsAway(s) ==
  /\ bob = "idle" /\ Serving(s)
  /\ shutdown_event
  /\ EndSession(s)
  /\ UNCHANGED <<aliceVars, agentVars, linkVars, bobAgentVars, agents, result, session_count, toBob>>

\* Stage I: d arrives; every agent gets its d_i, Alice an acknowledgement.
BobStageI(s) ==
  /\ bob = "d" /\ Serving(s)
  /\ toBob[s] # <<>> /\ Head(toBob[s]).type = "d"
  /\ toBob' = [toBob EXCEPT ![s] = Tail(@)]
  /\ toMain' = [i \in Pid |-> SendMain(i,
                  [type |-> "d_i", basis |-> BlindedFor(s, i, Head(toBob[s]).mask)])]
  /\ Acknowledge(s)
  /\ bob' = "c"
  /\ UNCHANGED <<aliceVars, agentVars, linkVars, bobAgentVars, shutdown_event, agents,
                 alice_queue, result, session_count>>

\* Alice left before sending d: len(None) raises, the session is abandoned.
BobNoD(s) ==
  /\ bob = "d" /\ Serving(s)
  /\ toBob[s] # <<>> /\ Head(toBob[s]).type = "eof"
  /\ EndSession(s)
  /\ UNCHANGED <<aliceVars, agentVars, linkVars, bobAgentVars, agents, result, session_count, toBob>>

\* Stage II: c arrives, or the stream ends and the text "None" is sent instead.
BobStageII(s) ==
  /\ bob = "c" /\ Serving(s)
  /\ toBob[s] # <<>>
  /\ toMain' = [i \in Pid |-> SendMain(i,
                  IF Head(toBob[s]).type = "c" THEN [type |-> "c", c |-> Head(toBob[s]).mask]
                  ELSE [type |-> "c_none"])]
  /\ toBob' = IF Head(toBob[s]).type = "c" THEN [toBob EXCEPT ![s] = Tail(@)] ELSE toBob
  /\ bob' = "result"
  /\ UNCHANGED <<aliceVars, agentVars, linkVars, bobAgentVars, shutdown_event, agents,
                 alice_queue, result, session_count, toAck>>

\* The validation result, or its absence, closes the session as a success.
BobResult(s) ==
  /\ bob = "result" /\ Serving(s)
  /\ toBob[s] # <<>>
  /\ IF Head(toBob[s]).type = "result"
     THEN /\ result' = [result EXCEPT ![s] = Head(toBob[s]).v]
          /\ toBob' = [toBob EXCEPT ![s] = Tail(@)]
     ELSE UNCHANGED <<result, toBob>>
  /\ session_count' = session_count + 1
  /\ EndSession(s)
  /\ UNCHANGED <<aliceVars, agentVars, linkVars, bobAgentVars, agents>>

\* A killed Alice may also show as a connection reset, which receive_async raises.
BobReset(s) ==
  /\ bob \in {"c", "result"} /\ Serving(s)
  /\ "kill" \in Failures
  /\ toBob[s] # <<>> /\ Head(toBob[s]).type = "eof"
  /\ EndSession(s)
  /\ UNCHANGED <<aliceVars, agentVars, linkVars, bobAgentVars, agents, result, session_count, toBob>>

\* SIGINT, at any point of a session, which goes on: shutdown().
BobInterrupted ==
  /\ "sigint" \in Failures
  /\ ~shutdown_event
  /\ shutdown_event' = TRUE
  /\ StopAgents
  /\ UNCHANGED <<aliceVars, agentVars, linkVars, bobAgentVars, bob, agents, alice_queue, result,
                 session_count, wireVars>>

\* alice_serv.wait_closed(): the process exits when no connection of an Alice is open.
BobExit ==
  /\ shutdown_event /\ bob # "stopped"
  /\ alice_queue = <<>>
  /\ bob' = "stopped"
  /\ StopAgents
  /\ UNCHANGED <<aliceVars, agentVars, linkVars, bobAgentVars, shutdown_event, agents,
                 alice_queue, result, session_count, wireVars>>

-----------------------------------------------------------------------------

AliceNext(s) ==
  \/ AliceStart(s) \/ AliceConnect(s) \/ AliceSendD(s) \/ AliceSelect(s)
  \/ AliceReport(s) \/ AliceTimeout(s) \/ AliceShutdown(s) \/ AliceKilled(s)

AgentNext(s, i) ==
  \/ AgentConnect(s, i) \/ AgentToken(s, i) \/ AgentForward(s, i)
  \/ AgentShutdown(s, i) \/ AgentReply(s, i)

ClientNext(s, i) ==
  \/ HandleClient(s, i) \/ ClientToken(s, i) \/ ClientEof(s, i)
  \/ Verify(s, i) \/ ClientReturns(s, i)

MainNext(i) ==
  \/ RegisterAgent(i) \/ MainBases(i) \/ MainC(i) \/ MainCNone(i)
  \/ MainShutdown(i) \/ BobAgentExit(i)

BobNext(s) ==
  \/ BobTakesUp(s) \/ BobTurnsAway(s) \/ BobStageI(s) \/ BobNoD(s)
  \/ BobStageII(s) \/ BobResult(s) \/ BobReset(s)

Next ==
  \/ \E s \in Session : AliceNext(s) \/ BobNext(s)
  \/ \E s \in Session, i \in Pid : AgentNext(s, i) \/ ClientNext(s, i)
  \/ \E i \in Pid : MainNext(i)
  \/ BobInterrupted \/ BobExit

Spec == Init /\ [][Next]_vars

(* What the schedulers and timers provide: every process that can step does,
   an event loop starves no task, and the 30 s timer expires. *)
Fairness ==
  /\ \A s \in Session :
       /\ WF_vars(AliceStart(s) \/ AliceConnect(s) \/ AliceSendD(s) \/ AliceSelect(s)
                  \/ AliceReport(s) \/ AliceShutdown(s) \/ AliceTimeout(s))
       /\ WF_vars(BobNext(s))
  /\ \A s \in Session, i \in Pid :
       WF_vars(AgentNext(s, i)) /\ WF_vars(ClientNext(s, i))
  /\ \A i \in Pid : WF_vars(MainNext(i))
  /\ WF_vars(BobExit)

FairSpec == Spec /\ Fairness

-----------------------------------------------------------------------------
(* Properties.                                                             *)

\* Whatever BobAgent i holds as d_tilde, its pattern is i XOR b of the session it
\* stems from: across all the interleavings of d_i, c and re-used agents, only the
\* selected agent ever holds Alice's bases y themselves.
BasesOnlyAtSelected ==
  \A i \in Pid : d_tilde[i] # NoBasis =>
    /\ b[d_tilde[i].y] # NoPid
    /\ d_tilde[i].mask = Xor(i, b[d_tilde[i].y])

\* A token reaches at most one BobAgent: the one its Alice selected.
TokenOnlyAtSelected == \A i \in Pid : token[i] # 0 => b[token[i]] = i

\* A verdict computed from bases and token of one session is computed with exactly
\* the bases the token was measured in.
SameSessionVerdictExact ==
  \A v \in verdicts : v.basis.y = v.tok => v.agent = b[v.tok] /\ v.basis.mask = Zero

\* "Wait for d_tilde to be computed (after receiving c)": each verdict combines the
\* token with bases, states and unblinded bases of the same session.
VerdictUsesOwnBases == \A v \in verdicts : v.basis.y = v.tok /\ v.tu = v.tok

\* The token of a session is presented at one point at most, judged there once, and
\* the result Bob reads is that judgement.
Presentation == INSTANCE TokenPresentation WITH
  Token <- Session, Point <- Pid, Nowhere <- NoPid,
  point <- b,
  judged <- [s \in Session |-> {v.agent : v \in {u \in verdicts : u.tok = s}}],
  outcome <- [s \in Session |-> result[s].agent]
PresentedOnce == Presentation!Spec

\* Every Alice that starts her exchange ends it.
AliceEnds == \A s \in Session : alice[s] = "connected" ~> alice[s] = "done"

\* What a shutdown may leave behind.  A token that waits for c when BobAgent i is told to
\* stop is dropped with its connection open: the AliceAgent waits for the verdict, and
\* wait_closed() of the BobAgent for the AliceAgent.
Abandoned(s, i) ==
  agent[s][i] = "reply" /\ answer[s][i] = <<>> /\ handler[s][i] = "end" /\ i \notin closed[s]
\* An Alice waits for an agent that can no longer connect, and hers wait with her.
Stranded(s) == alice[s] = "gather" /\ \E i \in Pid : agent[s][i] = "down" /\ ~Accepts(i)
\* The Alice whose d agent i has got left before c, and Bob sent the text "None" for c.
LeftEarly(i) == \E s \in Session : d_i[i].y = s /\ alice[s] = "done" /\ b[s] = NoPid

\* Told to stop, Bob leaves wherever the Alice he serves stands, and the process of every
\* BobAgent exits, but for those that cannot know (listen_main died on "None") and those
\* that wait for an AliceAgent left behind.
BobAgentsStop ==
  shutdown_event ~>
    /\ bob = "stopped"
    /\ \A i \in agents :
         \/ listener[i] = "off"
         \/ listener[i] = "dead" /\ LeftEarly(i)
         \/ listener[i] = "closing" /\ \E s \in Session : Abandoned(s, i) \/ Stranded(s)

\* Once Alice has stopped, every AliceAgent stops, the selected one unless its BobAgent
\* dropped the token.
AliceAgentsStop ==
  \A s \in Session :
    alice[s] = "done" ~>
      \A i \in Pid :
        \/ agent[s][i] \in {"down", "stopped"}
        \/ i = b[s] /\ Abandoned(s, i)

-----------------------------------------------------------------------------
(* The inductive invariant behind BasesOnlyAtSelected, TokenOnlyAtSelected *)
(* and SameSessionVerdictExact.                                            *)

\* z[s] is drawn, so nothing changes it any more.
Masked(s) == alice[s] \notin {"down", "gather", "connected"}
\* b[s] is chosen, so nothing changes it any more.
Selected(s) == b[s] # NoPid

SelectedLast == \A s \in Session : Selected(s) => alice[s] \in {"answer", "finished", "done"}

\* d and c on their way to Bob are the z and b XOR z of that session.
WireSound ==
  \A s \in Session : \A m \in Range(toBob[s]) :
    /\ m.type = "d" => Masked(s) /\ m.mask = z[s]
    /\ m.type = "c" => Selected(s) /\ m.mask = Xor(b[s], z[s])

\* Only the selected agent is asked to present the token, and only it does.
TokenRoute ==
  \A s \in Session, i \in Pid :
    /\ "send_token" \in Range(toAgent[s][i]) => b[s] = i
    /\ "token" \in Range(present[s][i]) => b[s] = i

\* The bases sent to BobAgent i are those of a session, blinded with its z and i.
Blinded(basis, i) ==
  basis.y \in Session /\ Masked(basis.y) /\ basis.mask = Xor(z[basis.y], i)
BasesBlinded ==
  \A i \in Pid :
    /\ d_i[i] # NoBasis => Blinded(d_i[i], i)
    /\ \A m \in Range(toMain[i]) : m.type = "d_i" => Blinded(m.basis, i)

\* c follows the bases of its own session immediately.
Unblinds(c, basis) ==
  basis.y \in Session /\ Selected(basis.y) /\ c = Xor(b[basis.y], z[basis.y])
Paired(q, basis) ==
  \A k \in DOMAIN q : q[k].type = "c" =>
    IF k = 1 THEN Unblinds(q[k].c, basis)
    ELSE q[k - 1].type = "d_i" /\ Unblinds(q[k].c, q[k - 1].basis)
CPaired == \A i \in Pid : Paired(toMain[i], d_i[i])

\* While Bob waits for c, the bases of the session he serves are the last thing he
\* sent to every BobAgent.
Pending(q, basis, s) ==
  IF q = <<>> THEN basis.y = s ELSE q[Len(q)].type = "d_i" /\ q[Len(q)].basis.y = s
BasesLast ==
  bob = "c" /\ ~shutdown_event =>
    /\ alice_queue # <<>>
    /\ \A i \in Pid : Pending(toMain[i], d_i[i], Head(alice_queue))

\* What a verdict was computed from.
VerdictSound ==
  \A v \in verdicts :
    /\ v.agent = b[v.tok]
    /\ v.basis.y \in Session /\ Selected(v.basis.y) /\ v.tu \in Session
    /\ v.basis.mask = Xor(v.agent, b[v.basis.y])

HeldSound ==
  \A i \in Pid : d_tilde[i] # NoBasis => d_tilde[i].y \in Session

\* Unblinded bases stem from blinded ones, which are replaced but never withdrawn.
DataKept == \A i \in Pid : d_tilde[i] # NoBasis => d_i[i] # NoBasis

\* Two facts the types depend on: an Alice that waits for an answer has selected an
\* agent, and the shared data a listen_client task uses is there.
AnswerHasAgent == \A s \in Session : alice[s] = "answer" => b[s] \in Pid
HandlerHasData ==
  \A s \in Session, i \in Pid :
    /\ handler[s][i] \in {"read", "wait"} => writer_client[i] # 0
    /\ handler[s][i] = "wait" => token[i] # 0

\* Every d, c, basis string and token in flight belongs to the session and the agent
\* it was computed for; all it takes for the three safety properties to be kept by
\* every step.
InFlightSound ==
  /\ AnswerHasAgent /\ HandlerHasData
  /\ SelectedLast /\ WireSound /\ TokenRoute /\ BasesBlinded /\ CPaired /\ BasesLast
  /\ TokenOnlyAtSelected /\ HeldSound /\ DataKept /\ BasesOnlyAtSelected /\ VerdictSound
=============================================================================
