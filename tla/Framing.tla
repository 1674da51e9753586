------------------------------- MODULE Framing -------------------------------
(***************************************************************************)
(* The connection between Bob and one BobAgent, byte by byte.  send_async  *)
(* writes a header, which holds a length, and a body; receive_async reads  *)
(* the one and then the other.                                             *)
(*                                                                         *)
(* The agent reads link "main" in listen_main, under a time-out of one     *)
(* second.  At Bob's end two tasks read link "feedback": monitor_agent,    *)
(* and listen_main of the BobAgent object that stands for the agent there. *)
(***************************************************************************)
EXTENDS Naturals, Sequences

CONSTANTS
  Header,  \* bytes of a header: 4
  Sizes,   \* Sizes[l][f]: bytes in the body of frame f of link l
  Misread  \* lengths that bytes starting inside a header may spell

Link == {"main", "feedback"}

ASSUME FramesAssumption ==
  /\ Header \in Nat \ {0}
  /\ Sizes \in [Link -> Seq(Nat \ {0})]
  /\ Misread \subseteq Nat

VARIABLES
  sent,      \* sent[l]: frames written to l
  closed,    \* the links their writer has closed
  arrived,   \* arrived[l]: bytes of l that reached its reader's buffer
  pos,       \* pos[l]: bytes taken out of the buffer
  reader,    \* reader[l]: the task that reads l, "none" or "over"
  want,      \* want[l]: 0 awaiting a header, else 1 + the length of the body awaited
  frame,     \* frame[l]: the frame whose header was read, 0 for a misread one
  delivered  \* delivered[l]: the frames receive_async returned

vars == <<sent, closed, arrived, pos, reader, want, frame, delivered>>

Init ==
  /\ sent = [l \in Link |-> 0]
  /\ closed = {}
  /\ arrived = [l \in Link |-> 0]
  /\ pos = [l \in Link |-> 0]
  /\ reader = [l \in Link |-> "none"]
  /\ want = [l \in Link |-> 0]
  /\ frame = [l \in Link |-> 0]
  /\ delivered = [l \in Link |-> <<>>]

-----------------------------------------------------------------------------
(* The bytes of a link.                                                    *)

Frames(l) == DOMAIN Sizes[l]
\* Bytes before frame f.
Start(l, f) ==
  LET start[g \in 1..(Len(Sizes[l]) + 1)] ==
        IF g = 1 THEN 0 ELSE start[g - 1] + Header + Sizes[l][g - 1]
  IN  start[f]
Written(l) == Start(l, sent[l] + 1)
InHeader(l, p) == \E f \in Frames(l) : Start(l, f) <= p /\ p < Start(l, f) + Header

\* More bytes than a connection ever carries.
Endless(l) == Start(l, Len(Sizes[l]) + 1) + 1

\* The length in the four bytes at p.  Bytes of a pickled text are not zero, so as the
\* highest byte of a length one of them makes it a length of many megabytes.
Lengths(l, p) ==
  IF \E f \in Frames(l) : Start(l, f) = p
  THEN {Sizes[l][f] : f \in {g \in Frames(l) : Start(l, g) = p}}
  ELSE IF InHeader(l, p) THEN Misread \cup {Endless(l)}
  ELSE {Endless(l)}
FrameAt(l, p) ==
  IF \E f \in Frames(l) : Start(l, f) = p THEN CHOOSE f \in Frames(l) : Start(l, f) = p ELSE 0

-----------------------------------------------------------------------------
(* Writers and the network.                                                *)

\* The connection is made, the agent starts its listener, and Bob the two tasks of
\* _register_agent: the first to run waits for data, and the second finds another
\* coroutine waiting, an error that ends it.
StandInFirst ==
  /\ reader["main"] = "none"
  /\ reader' = [main |-> "listen_main", feedback |-> "listen_main"]
  /\ UNCHANGED <<sent, closed, arrived, pos, want, frame, delivered>>
_register_agent ==
  /\ reader["main"] = "none"
  /\ reader' = [main |-> "listen_main", feedback |-> "monitor_agent"]
  /\ UNCHANGED <<sent, closed, arrived, pos, want, frame, delivered>>

\* Bob sends once the agent is registered; the agent has nothing to report before it
\* received something.
send_async(l) ==
  /\ closed = {} /\ sent[l] < Len(Sizes[l])
  /\ IF l = "main" THEN reader["main"] # "none" ELSE delivered["main"] # <<>>
  /\ sent' = [sent EXCEPT ![l] = @ + 1]
  /\ UNCHANGED <<closed, arrived, pos, reader, want, frame, delivered>>

\* An end that closes the connection reads no more; the other receives what was written.
Close(l, other) ==
  /\ closed = {} /\ reader["main"] # "none"
  /\ closed' = {l}
  /\ reader' = [reader EXCEPT ![other] = "over"]
  /\ UNCHANGED <<sent, arrived, pos, want, frame, delivered>>
BobCloses == Close("main", "feedback")
AgentCloses == Close("feedback", "main")

Arrive(l) ==
  /\ arrived[l] < Written(l)
  /\ arrived' = [arrived EXCEPT ![l] = @ + 1]
  /\ UNCHANGED <<sent, closed, pos, reader, want, frame, delivered>>

-----------------------------------------------------------------------------
(* receive_async.                                                          *)

Reads(l) == reader[l] \notin {"none", "over"}
Buffered(l) == arrived[l] - pos[l]

ReadHeader(l) ==
  /\ Reads(l) /\ want[l] = 0 /\ Buffered(l) >= Header
  /\ \E size \in Lengths(l, pos[l]) : want' = [want EXCEPT ![l] = 1 + size]
  /\ frame' = [frame EXCEPT ![l] = FrameAt(l, pos[l])]
  /\ pos' = [pos EXCEPT ![l] = @ + Header]
  /\ UNCHANGED <<sent, closed, arrived, reader, delivered>>

\* Bytes that are no body do not unpickle: the error, like an empty body, comes back as
\* (None, None), which ends the task.
ReadBody(l) ==
  /\ Reads(l) /\ want[l] > 0 /\ Buffered(l) >= want[l] - 1
  /\ pos' = [pos EXCEPT ![l] = @ + want[l] - 1]
  /\ want' = [want EXCEPT ![l] = 0]
  /\ IF frame[l] = 0
     THEN reader' = [reader EXCEPT ![l] = "over"] /\ UNCHANGED delivered
     ELSE delivered' = [delivered EXCEPT ![l] = Append(@, frame[l])] /\ UNCHANGED reader
  /\ UNCHANGED <<sent, closed, arrived, frame>>

\* The stream ends short of what is awaited.
EndOfHeader(l) ==
  /\ Reads(l) /\ l \in closed /\ arrived[l] = Written(l)
  /\ want[l] = 0 /\ Buffered(l) < Header
  /\ reader' = [reader EXCEPT ![l] = "over"]
  /\ UNCHANGED <<sent, closed, arrived, pos, want, frame, delivered>>
ReadEnd(l) ==
  /\ Reads(l) /\ l \in closed /\ arrived[l] = Written(l)
  /\ Buffered(l) < (IF want[l] = 0 THEN Header ELSE want[l] - 1)
  /\ reader' = [reader EXCEPT ![l] = "over"]
  /\ UNCHANGED <<sent, closed, arrived, pos, want, frame, delivered>>

AnyReader(l) == Reads(l) /\ want[l] > 0 /\ Buffered(l) < want[l] - 1
\* wait_for cancels the read in progress: the header that was read is forgotten, the
\* body is still in the stream.
TimedOut(l) == reader[l] = "listen_main" /\ want[l] > 0 /\ Buffered(l) < want[l] - 1
Timeout(l) ==
  /\ TimedOut(l)
  /\ want' = [want EXCEPT ![l] = 0]
  /\ UNCHANGED <<sent, closed, arrived, pos, reader, frame, delivered>>

Receive(l) == ReadHeader(l) \/ ReadBody(l) \/ ReadEnd(l)

Next ==
  \/ _register_agent \/ BobCloses \/ AgentCloses
  \/ \E l \in Link : send_async(l) \/ Arrive(l) \/ Receive(l) \/ Timeout(l)

Spec == Init /\ [][Next]_vars
\* Bytes written arrive, and a task whose read can go on goes on.
Fairness == \A l \in Link : WF_vars(Arrive(l)) /\ WF_vars(Receive(l))
FairSpec == Spec /\ Fairness

-----------------------------------------------------------------------------
(* Properties.                                                             *)

MainLink == INSTANCE FrameLink WITH
  Lossy <- TRUE, sent <- sent["main"], delivered <- delivered["main"]
FeedbackLink == INSTANCE FrameLink WITH
  Lossy <- FALSE, sent <- sent["feedback"], delivered <- delivered["feedback"]

\* Bob misses no report and receives them in order; the agent receives what Bob sends
\* in order and nothing else, though a cancelled read can make it skip frames
\* (send_async, receive_async under listen_main's time-out).
LinkSpec == MainLink!Spec /\ FeedbackLink!Spec

\* Every report written reaches Bob's monitor unless he closes first (monitor_agent,
\* whatever becomes of the second task on the same stream), and after the connection is
\* closed both readers stop, also one that reads lengths in the middle of a body.
ReportsArrive ==
  /\ \A f \in Frames("feedback") :
       sent["feedback"] >= f ~>
         "main" \in closed \/ \E k \in DOMAIN delivered["feedback"] : delivered["feedback"][k] = f
  /\ closed # {} ~> reader["main"] = "over" /\ reader["feedback"] = "over"
=============================================================================
