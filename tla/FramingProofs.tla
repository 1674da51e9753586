---------------------------- MODULE FramingProofs ----------------------------
(***************************************************************************)
(* The connection of module Framing implements FrameLink, for frames of    *)
(* any number and size and whatever a misread header spells.               *)
(***************************************************************************)
EXTENDS Framing, WellFoundedInduction, TLAPS

-----------------------------------------------------------------------------
(* Induction over the naturals, from the well-foundedness of <.            *)

Below == {p \in Nat \X Nat : p[1] < p[2]}

LEMMA BelowWellFounded == IsWellFoundedOn(Below, Nat)
  BY NatLessThanWellFounded DEF Below, OpToRel

LEMMA Induction ==
  ASSUME NEW S, 0 \in S, \A n \in Nat : n \in S => n + 1 \in S
  PROVE  Nat \subseteq S
  <1> DEFINE T == Nat \ S
  <1> SUFFICES ASSUME T # {} PROVE FALSE
    OBVIOUS
  <1>1. PICK x \in T : \A y \in T : <<y, x>> \notin Below
    BY WFMin, BelowWellFounded
  <1>2. x - 1 \in T /\ x \in Nat
    OBVIOUS
  <1>3. <<x - 1, x>> \in Below
    BY <1>2 DEF Below
  <1> QED
    BY <1>1, <1>2, <1>3

-----------------------------------------------------------------------------
(* Where the frames start.                                                 *)

\* g tells the starts of the first n frames of l.
Starts(l, n, g) == g = [k \in 1..n |-> IF k = 1 THEN 0 ELSE g[k - 1] + Header + Sizes[l][k - 1]]

LEMMA StartsExist ==
  ASSUME NEW l \in Link, NEW n \in 0..Len(Sizes[l])
  PROVE  \E g : Starts(l, n + 1, g)
  <1> DEFINE S == {m \in Nat : m <= Len(Sizes[l]) => \E g : Starts(l, m + 1, g)}
  <1>1. 0 \in S
    <2>1. Starts(l, 1, [k \in 1..1 |-> 0])
      BY DEF Starts
    <2> QED
      BY <2>1
  <1>2. ASSUME NEW m \in Nat, m \in S, m + 1 <= Len(Sizes[l]) PROVE \E g : Starts(l, m + 2, g)
    <2>1. PICK g : Starts(l, m + 1, g)
      BY <1>2, FramesAssumption DEF Link
    <2> DEFINE h == [k \in 1..(m + 2) |-> IF k = m + 2 THEN g[m + 1] + Header + Sizes[l][m + 1]
                                          ELSE g[k]]
    <2>2. \A k \in 1..(m + 1) : g[k] = IF k = 1 THEN 0 ELSE g[k - 1] + Header + Sizes[l][k - 1]
      BY <2>1 DEF Starts
    <2>3. h[m + 2] = h[m + 1] + Header + Sizes[l][m + 1]
      OBVIOUS
    <2>4. \A k \in 1..(m + 1) : h[k] = IF k = 1 THEN 0 ELSE h[k - 1] + Header + Sizes[l][k - 1]
      BY <2>2
    <2>5. h = [k \in 1..(m + 2) |-> h[k]]
      OBVIOUS
    <2> HIDE DEF h
    <2>6. \A k \in 1..(m + 2) : h[k] = IF k = 1 THEN 0 ELSE h[k - 1] + Header + Sizes[l][k - 1]
      <3> SUFFICES ASSUME NEW k \in 1..(m + 2), k = m + 2
                   PROVE  h[k] = IF k = 1 THEN 0 ELSE h[k - 1] + Header + Sizes[l][k - 1]
        BY <2>4
      <3>1. k - 1 = m + 1 /\ k # 1
        OBVIOUS
      <3> QED
        BY <2>3, <3>1
    <2>7. Starts(l, m + 2, h)
      BY <2>5, <2>6 DEF Starts
    <2> QED
      BY <2>7
  <1>3. \A m \in Nat : m \in S => m + 1 \in S
    BY <1>2
  <1>4. Nat \subseteq S
    <2> HIDE DEF S
    <2> QED
      BY <1>1, <1>3, Induction
  <1> QED
    BY <1>4, FramesAssumption DEF Link

LEMMA StartTable ==
  ASSUME NEW l \in Link
  PROVE  \E g : Starts(l, Len(Sizes[l]) + 1, g) /\ \A f : Start(l, f) = g[f]
  <1> DEFINE h == CHOOSE g : Starts(l, Len(Sizes[l]) + 1, g)
  <1>1. Starts(l, Len(Sizes[l]) + 1, h)
    <2>1. Len(Sizes[l]) \in 0..Len(Sizes[l])
      BY FramesAssumption
    <2>2. \E g : Starts(l, Len(Sizes[l]) + 1, g)
      BY <2>1, StartsExist
    <2> QED
      BY <2>2, Zenon
  <1>2. \A f : Start(l, f) = h[f]
    BY Zenon DEF Start, Starts
  <1> QED
    BY <1>1, <1>2

LEMMA StartAt ==
  ASSUME NEW l \in Link
  PROVE  /\ Start(l, 1) = 0
         /\ \A f \in Frames(l) : Start(l, f + 1) = Start(l, f) + Header + Sizes[l][f]
  <1>1. PICK g : Starts(l, Len(Sizes[l]) + 1, g) /\ \A f : Start(l, f) = g[f]
    BY StartTable
  <1>2. Len(Sizes[l]) \in Nat /\ Frames(l) = 1..Len(Sizes[l])
    BY FramesAssumption DEF Frames
  <1>3. \A k \in 1..(Len(Sizes[l]) + 1) :
          g[k] = IF k = 1 THEN 0 ELSE g[k - 1] + Header + Sizes[l][k - 1]
    BY <1>1 DEF Starts
  <1>4. g[1] = 0
    <2>1. 1 \in 1..(Len(Sizes[l]) + 1)
      BY <1>2
    <2> QED
      BY <1>3, <2>1
  <1>5. ASSUME NEW f \in Frames(l) PROVE g[f + 1] = g[f] + Header + Sizes[l][f]
    <2>1. f + 1 \in 1..(Len(Sizes[l]) + 1) /\ f + 1 # 1 /\ (f + 1) - 1 = f
      BY <1>2
    <2> QED
      BY <1>3, <2>1
  <1> QED
    BY <1>1, <1>4, <1>5

\* The starts are numbers, and a frame that comes after f starts past the body of f.
LEMMA StartsGrow ==
  ASSUME NEW l \in Link
  PROVE  /\ \A f \in 1..(Len(Sizes[l]) + 1) : Start(l, f) \in Nat
         /\ \A f \in Frames(l), g \in 1..(Len(Sizes[l]) + 1) :
              f < g => Start(l, f) + Header + Sizes[l][f] <= Start(l, g)
  <1>1. Len(Sizes[l]) \in Nat /\ Frames(l) = 1..Len(Sizes[l]) /\ Header \in Nat \ {0}
        /\ \A f \in Frames(l) : Sizes[l][f] \in Nat \ {0}
    BY FramesAssumption DEF Frames
  <1> DEFINE Num == {n \in Nat : n <= Len(Sizes[l]) => Start(l, n + 1) \in Nat}
             Past == {n \in Nat : n <= Len(Sizes[l]) =>
                        \A f \in Frames(l) :
                          f < n + 1 => Start(l, f) + Header + Sizes[l][f] <= Start(l, n + 1)}
  <1>2. Nat \subseteq Num
    <2>1. 0 \in Num
      BY StartAt
    <2>2. ASSUME NEW n \in Nat, n \in Num, n + 1 <= Len(Sizes[l])
          PROVE  Start(l, (n + 1) + 1) \in Nat
      <3>1. n + 1 \in Frames(l) /\ Start(l, n + 1) \in Nat
        BY <1>1, <2>2
      <3> QED
        BY <1>1, <3>1, StartAt
    <2>3. \A n \in Nat : n \in Num => n + 1 \in Num
      BY <2>2
    <2> HIDE DEF Num
    <2> QED
      BY <2>1, <2>3, Induction
  <1>3. ASSUME NEW f \in 1..(Len(Sizes[l]) + 1) PROVE Start(l, f) \in Nat
    <2>1. f - 1 \in Nat /\ (f - 1) + 1 = f /\ f - 1 <= Len(Sizes[l])
      BY <1>1
    <2>2. f - 1 \in Num
      BY <1>2, <2>1
    <2> QED
      BY <2>1, <2>2
  <1>4. Nat \subseteq Past
    <2>1. 0 \in Past
      BY <1>1
    <2>2. ASSUME NEW n \in Nat, n \in Past, n + 1 <= Len(Sizes[l]),
                 NEW f \in Frames(l), f < n + 2
          PROVE  Start(l, f) + Header + Sizes[l][f] <= Start(l, n + 2)
      <3>1. n + 1 \in Frames(l) /\ (n + 1) + 1 = n + 2
        BY <1>1, <2>2
      <3>2. /\ Start(l, n + 2) = Start(l, n + 1) + Header + Sizes[l][n + 1]
            /\ Start(l, n + 1) \in Nat /\ Start(l, f) \in Nat
        BY <1>1, <1>3, <3>1, StartAt
      <3>3. CASE f = n + 1
        BY <1>1, <3>1, <3>2, <3>3
      <3>4. CASE f < n + 1
        <4>1. Start(l, f) + Header + Sizes[l][f] <= Start(l, n + 1)
          BY <1>1, <2>2, <3>4
        <4>2. Sizes[l][f] \in Nat /\ Sizes[l][n + 1] \in Nat
          BY <1>1, <3>1
        <4> QED
          BY <1>1, <3>2, <4>1, <4>2
      <3> QED
        BY <1>1, <2>2, <3>3, <3>4
    <2>3. ASSUME NEW n \in Nat, n \in Past PROVE n + 1 \in Past
      <3>1. (n + 1) + 1 = n + 2
        OBVIOUS
      <3> QED
        BY <2>2, <2>3, <3>1
    <2> HIDE DEF Past
    <2> QED
      BY <2>1, <2>3, Induction
  <1>5. ASSUME NEW f \in Frames(l), NEW g \in 1..(Len(Sizes[l]) + 1), f < g
        PROVE  Start(l, f) + Header + Sizes[l][f] <= Start(l, g)
    <2>1. g - 1 \in Nat /\ (g - 1) + 1 = g /\ g - 1 <= Len(Sizes[l])
      BY <1>1
    <2>2. g - 1 \in Past
      BY <1>4, <2>1
    <2> QED
      BY <1>5, <2>1, <2>2
  <1> QED
    BY <1>3, <1>5

LEMMA FrameNumbers ==
  ASSUME NEW l \in Link
  PROVE  /\ Len(Sizes[l]) \in Nat /\ Frames(l) = 1..Len(Sizes[l])
         /\ Header \in Nat \ {0} /\ \A f \in Frames(l) : Sizes[l][f] \in Nat \ {0}
  BY FramesAssumption DEF Frames

\* What the reader makes of a header: its own frame, if bytes of a header they are.
LEMMA HeaderAt ==
  ASSUME NEW l \in Link, NEW p
  PROVE  /\ FrameAt(l, p) # 0 =>
              /\ FrameAt(l, p) \in Frames(l) /\ Start(l, FrameAt(l, p)) = p
              /\ Lengths(l, p) = {Sizes[l][FrameAt(l, p)]}
         /\ \A f \in Frames(l) : Start(l, f) = p => FrameAt(l, p) = f
  <1>1. ASSUME NEW f \in Frames(l), NEW g \in Frames(l), Start(l, f) = p, Start(l, g) = p
        PROVE  f = g
    <2>1. \A m, n \in Frames(l) : m < n => Start(l, m) + Header + Sizes[l][m] <= Start(l, n)
      BY StartsGrow, FrameNumbers
    <2>2. \A m \in Frames(l) : Start(l, m) \in Nat
      BY StartsGrow, FrameNumbers
    <2> QED
      BY <1>1, <2>1, <2>2, FrameNumbers
  <1>2. ASSUME NEW f \in Frames(l), Start(l, f) = p
        PROVE  FrameAt(l, p) = f /\ Lengths(l, p) = {Sizes[l][f]}
    <2>1. \E g \in Frames(l) : Start(l, g) = p
      BY <1>2
    <2>2. FrameAt(l, p) \in Frames(l) /\ Start(l, FrameAt(l, p)) = p
      BY <2>1 DEF FrameAt
    <2>3. {g \in Frames(l) : Start(l, g) = p} = {f}
      BY <1>1, <1>2
    <2>4. Lengths(l, p) = {Sizes[l][g] : g \in {f}}
      BY <2>1, <2>3 DEF Lengths
    <2> QED
      BY <1>1, <1>2, <2>2, <2>4
  <1>3. FrameAt(l, p) # 0 => \E g \in Frames(l) : Start(l, g) = p
    BY DEF FrameAt
  <1> QED
    BY <1>2, <1>3

LEMMA HeaderType ==
  ASSUME NEW l \in Link, NEW p
  PROVE  Lengths(l, p) \subseteq Nat /\ FrameAt(l, p) \in Nat
  <1>1. Endless(l) \in Nat
    BY StartsGrow, FrameNumbers DEF Endless
  <1>2. \A f \in Frames(l) : Sizes[l][f] \in Nat
    BY FrameNumbers
  <1>3. Lengths(l, p) \subseteq Nat
    BY <1>1, <1>2, FramesAssumption DEF Lengths
  <1>4. FrameAt(l, p) = 0 \/ FrameAt(l, p) \in Frames(l)
    BY HeaderAt
  <1> QED
    BY <1>3, <1>4, FrameNumbers

-----------------------------------------------------------------------------
(* The invariant.                                                          *)

Task == {"none", "listen_main", "monitor_agent", "over"}

TypeOK ==
  /\ sent \in [Link -> Nat] /\ \A l \in Link : sent[l] <= Len(Sizes[l])
  /\ closed \subseteq Link
  /\ arrived \in [Link -> Nat] /\ pos \in [Link -> Nat]
  /\ reader \in [Link -> Task]
  /\ want \in [Link -> Nat] /\ frame \in [Link -> Nat]
  /\ delivered \in [Link -> Seq(Nat)]

Last(l) == IF delivered[l] = <<>> THEN 0 ELSE delivered[l][Len(delivered[l])]

\* A reader takes what has arrived, and what arrives was written.
InBuffer(l) == pos[l] <= arrived[l] /\ arrived[l] <= Written(l)
\* A header that was one stands right before the bytes to be read next.
AtBody(l) ==
  want[l] > 0 /\ frame[l] # 0 =>
    /\ frame[l] \in Frames(l)
    /\ pos[l] = Start(l, frame[l]) + Header
    /\ want[l] = 1 + Sizes[l][frame[l]]
\* The reader is past the last frame it delivered, in step or not.
Past(l) == Last(l) <= sent[l] /\ Start(l, Last(l) + 1) <= pos[l]
StreamOK == \A l \in Link : InBuffer(l) /\ AtBody(l) /\ Past(l)

\* No read of the monitor is given up, so it is always in step.
InStep ==
  /\ reader["feedback"] # "listen_main"
  /\ IF want["feedback"] = 0 THEN pos["feedback"] = Start("feedback", Last("feedback") + 1)
     ELSE frame["feedback"] = Last("feedback") + 1

Inv == TypeOK /\ StreamOK /\ InStep

-----------------------------------------------------------------------------
(* Each action keeps the invariant.                                        *)

LEMMA TypeStep == ASSUME TypeOK, [Next]_vars PROVE TypeOK'
  <1> USE DEF TypeOK
  <1>1. CASE _register_agent
    BY <1>1 DEF _register_agent, Task, Link
  <1>2. CASE BobCloses \/ AgentCloses
    BY <1>2 DEF BobCloses, AgentCloses, Close, Task, Link
  <1>3. ASSUME NEW l \in Link, send_async(l) PROVE TypeOK'
    BY <1>3, FrameNumbers DEF send_async
  <1>4. ASSUME NEW l \in Link, Arrive(l) PROVE TypeOK'
    BY <1>4 DEF Arrive
  <1>5. ASSUME NEW l \in Link, ReadHeader(l) PROVE TypeOK'
    <2>1. \A size \in Lengths(l, pos[l]) : size \in Nat
      BY HeaderType
    <2> QED
      BY <1>5, <2>1, HeaderType, FrameNumbers DEF ReadHeader
  <1>6. ASSUME NEW l \in Link, ReadBody(l) PROVE TypeOK'
    <2>1. pos[l] + want[l] - 1 \in Nat
      BY <1>6 DEF ReadBody
    <2>2. pos' \in [Link -> Nat] /\ want' \in [Link -> Nat] /\ UNCHANGED <<sent, closed, arrived, frame>>
      BY <1>6, <2>1 DEF ReadBody
    <2>3. reader' \in [Link -> Task]
      BY <1>6 DEF ReadBody, Task
    <2>4. delivered' \in [Link -> Seq(Nat)]
      <3>1. Append(delivered[l], frame[l]) \in Seq(Nat)
        OBVIOUS
      <3> QED
        BY <1>6, <3>1 DEF ReadBody
    <2> QED
      BY <2>2, <2>3, <2>4
  <1>7. ASSUME NEW l \in Link, ReadEnd(l) \/ Timeout(l) PROVE TypeOK'
    <2>1. CASE ReadEnd(l)
      BY <2>1 DEF ReadEnd, Task
    <2>2. CASE Timeout(l)
      BY <2>2 DEF Timeout
    <2> QED
      BY <1>7, <2>1, <2>2
  <1>8. CASE UNCHANGED vars
    BY <1>8 DEF vars
  <1> QED
    BY <1>1, <1>2, <1>3, <1>4, <1>5, <1>6, <1>7, <1>8 DEF Next, Receive

LEMMA LastType == ASSUME TypeOK, NEW l \in Link PROVE Last(l) \in Nat
  BY DEF TypeOK, Last

LEMMA LastAppend ==
  ASSUME TypeOK, NEW l \in Link, NEW f \in Nat, delivered' = [delivered EXCEPT ![l] = Append(@, f)]
  PROVE  Last(l)' = f /\ \A k \in Link \ {l} : Last(k)' = Last(k)
  <1>1. delivered[l] \in Seq(Nat) /\ delivered'[l] = Append(delivered[l], f)
    BY DEF TypeOK
  <1>2. Append(delivered[l], f) # <<>> /\ Append(delivered[l], f)[Len(Append(delivered[l], f))] = f
    BY <1>1
  <1>3. \A k \in Link \ {l} : delivered'[k] = delivered[k]
    BY DEF TypeOK
  <1> QED
    BY <1>1, <1>2, <1>3 DEF Last

LEMMA WrittenType ==
  ASSUME TypeOK, NEW l \in Link
  PROVE  Written(l) \in Nat /\ sent[l] + 1 \in 1..(Len(Sizes[l]) + 1)
  BY StartsGrow, FrameNumbers DEF TypeOK, Written

\* What only tasks and the ends of a connection do leaves the streams alone.
LEMMA TaskStep ==
  ASSUME Inv, \/ _register_agent \/ BobCloses \/ AgentCloses
              \/ (\E l \in Link : ReadEnd(l)) \/ UNCHANGED vars
  PROVE  StreamOK' /\ InStep'
  <1>1. UNCHANGED <<sent, arrived, pos, want, frame, delivered>>
    BY DEF _register_agent, BobCloses, AgentCloses, Close, ReadEnd, vars
  <1>2. reader'["feedback"] # "listen_main"
    BY DEF Inv, InStep, TypeOK, Link, _register_agent, BobCloses, AgentCloses, Close, ReadEnd, vars
  <1>3. \A l \in Link : Last(l)' = Last(l) /\ Written(l)' = Written(l)
    BY <1>1 DEF Last, Written
  <1>4. StreamOK'
    BY <1>1, <1>3 DEF Inv, StreamOK, InBuffer, AtBody, Past
  <1> QED
    BY <1>1, <1>2, <1>3, <1>4 DEF Inv, InStep, Link

LEMMA SendStep ==
  ASSUME Inv, NEW l \in Link, send_async(l)
  PROVE  StreamOK' /\ InStep'
  <1>1. sent' = [sent EXCEPT ![l] = @ + 1] /\ sent[l] < Len(Sizes[l])
        /\ UNCHANGED <<arrived, pos, want, frame, delivered, reader>>
    BY DEF send_async
  <1>2. \A k \in Link : Last(k)' = Last(k)
    BY <1>1 DEF Last
  <1>3. Written(l) <= Written(l)' /\ Written(l)' \in Nat
    <2>1. sent'[l] = sent[l] + 1 /\ sent[l] + 1 \in Frames(l) /\ sent[l] + 2 \in 1..(Len(Sizes[l]) + 1)
      BY <1>1, FrameNumbers DEF Inv, TypeOK
    <2>2. /\ Start(l, sent[l] + 1) + Header + Sizes[l][sent[l] + 1] <= Start(l, sent[l] + 2)
          /\ Start(l, sent[l] + 2) \in Nat
      BY <2>1, StartsGrow DEF Inv, TypeOK
    <2>3. (sent[l] + 1) + 1 = sent[l] + 2
      BY DEF Inv, TypeOK
    <2> QED
      BY <2>1, <2>2, <2>3, FrameNumbers, WrittenType DEF Inv, Written
  <1>4. \A k \in Link : k # l => Written(k)' = Written(k) /\ sent'[k] = sent[k]
    BY <1>1 DEF Written, Inv, TypeOK
  <1>5. \A k \in Link : Written(k) \in Nat
    BY WrittenType DEF Inv
  <1>6. ASSUME NEW k \in Link PROVE InBuffer(k)' /\ AtBody(k)' /\ Past(k)'
    <2>1. InBuffer(k) /\ AtBody(k) /\ Past(k) /\ arrived[k] \in Nat /\ Last(k) \in Nat
      BY LastType DEF Inv, StreamOK, TypeOK
    <2>2. InBuffer(k)'
      BY <1>1, <1>3, <1>4, <1>5, <2>1 DEF InBuffer
    <2>3. Past(k)'
      BY <1>1, <1>2, <1>4, <2>1 DEF Past, Inv, TypeOK
    <2>4. AtBody(k)'
      BY <1>1, <2>1 DEF AtBody
    <2> QED
      BY <2>2, <2>3, <2>4
  <1> QED
    BY <1>1, <1>2, <1>6 DEF Inv, InStep, StreamOK, Link

LEMMA ArriveStep ==
  ASSUME Inv, NEW l \in Link, Arrive(l)
  PROVE  StreamOK' /\ InStep'
  <1>1. arrived' = [arrived EXCEPT ![l] = @ + 1] /\ arrived[l] < Written(l)
        /\ UNCHANGED <<sent, pos, want, frame, delivered, reader>>
    BY DEF Arrive
  <1>2. \A k \in Link : Last(k)' = Last(k) /\ Written(k)' = Written(k)
    BY <1>1 DEF Last, Written
  <1>3. \A k \in Link : InBuffer(k)'
    BY <1>1, <1>2, WrittenType DEF Inv, TypeOK, StreamOK, InBuffer
  <1>4. \A k \in Link : AtBody(k)' /\ Past(k)'
    BY <1>1, <1>2 DEF Inv, StreamOK, AtBody, Past
  <1> QED
    BY <1>1, <1>2, <1>3, <1>4 DEF Inv, InStep, StreamOK, Link

\* Only the agent's listener gives a read up.
LEMMA TimeoutStep ==
  ASSUME Inv, NEW l \in Link, Timeout(l)
  PROVE  StreamOK' /\ InStep'
  <1>1. want' = [want EXCEPT ![l] = 0] /\ l # "feedback"
        /\ UNCHANGED <<sent, arrived, pos, frame, delivered, reader>>
    BY DEF Timeout, TimedOut, Inv, InStep
  <1>2. \A k \in Link : Last(k)' = Last(k) /\ Written(k)' = Written(k)
    BY <1>1 DEF Last, Written
  <1>3. \A k \in Link : InBuffer(k)' /\ Past(k)'
    BY <1>1, <1>2 DEF Inv, StreamOK, InBuffer, Past
  <1>4. \A k \in Link : AtBody(k)'
    BY <1>1 DEF Inv, TypeOK, StreamOK, AtBody
  <1>5. want'["feedback"] = want["feedback"]
    BY <1>1 DEF Inv, TypeOK, Link
  <1> QED
    BY <1>1, <1>2, <1>3, <1>4, <1>5 DEF Inv, InStep, StreamOK, Link

\* A reader in step at frame f has f before it: it was written.
LEMMA HeaderStep ==
  ASSUME Inv, NEW l \in Link, ReadHeader(l)
  PROVE  StreamOK' /\ InStep'
  <1>1. PICK size \in Lengths(l, pos[l]) : want' = [want EXCEPT ![l] = 1 + size]
    BY DEF ReadHeader
  <1>2. /\ frame' = [frame EXCEPT ![l] = FrameAt(l, pos[l])]
        /\ pos' = [pos EXCEPT ![l] = @ + Header]
        /\ want[l] = 0 /\ arrived[l] - pos[l] >= Header
        /\ UNCHANGED <<sent, arrived, reader, delivered>>
    BY DEF ReadHeader, Buffered
  <1>3. \A k \in Link : Last(k)' = Last(k) /\ Written(k)' = Written(k)
    BY <1>2 DEF Last, Written
  <1>4. size \in Nat /\ FrameAt(l, pos[l]) \in Nat
    BY HeaderType
  <1>5. \A k \in Link \ {l} : UNCHANGED <<want[k], frame[k], pos[k]>>
    BY <1>1, <1>2 DEF Inv, TypeOK
  <1>6. pos'[l] = pos[l] + Header /\ frame'[l] = FrameAt(l, pos[l]) /\ want'[l] = 1 + size
    BY <1>1, <1>2 DEF Inv, TypeOK
  <1>7. InBuffer(l)' /\ AtBody(l)' /\ Past(l)'
    <2>1. InBuffer(l)'
      BY <1>2, <1>3, <1>6, FrameNumbers DEF Inv, TypeOK, StreamOK, InBuffer
    <2>2. AtBody(l)'
      BY <1>1, <1>6, HeaderAt DEF AtBody
    <2>3. Start(l, Last(l) + 1) \in Nat /\ Start(l, Last(l) + 1) <= pos[l] /\ pos[l] \in Nat
      <3>1. Last(l) + 1 \in 1..(Len(Sizes[l]) + 1)
        BY LastType, FrameNumbers DEF Inv, TypeOK, StreamOK, Past
      <3> QED
        BY <3>1, StartsGrow DEF Inv, TypeOK, StreamOK, Past
    <2>4. Past(l)'
      BY <1>2, <1>3, <1>6, <2>3, FrameNumbers DEF Inv, StreamOK, Past
    <2> QED
      BY <2>1, <2>2, <2>4
  <1>8. \A k \in Link \ {l} : InBuffer(k)' /\ AtBody(k)' /\ Past(k)'
    BY <1>2, <1>3, <1>5 DEF Inv, StreamOK, InBuffer, AtBody, Past
  <1>9. InStep'
    <2>1. CASE l # "feedback"
      BY <1>2, <1>3, <1>5, <2>1 DEF Inv, InStep, Link
    <2>2. CASE l = "feedback"
      <3>1. pos[l] = Start(l, Last(l) + 1) /\ Last(l) \in Nat /\ Last(l) <= sent[l]
        BY <1>2, <2>2, LastType DEF Inv, InStep, StreamOK, Past
      <3>2. Last(l) # sent[l]
        BY <1>2, <3>1, FrameNumbers DEF Inv, TypeOK, StreamOK, InBuffer, Written
      <3>3. Last(l) + 1 \in Frames(l)
        <4>1. sent[l] \in Nat /\ sent[l] <= Len(Sizes[l])
          BY DEF Inv, TypeOK
        <4> QED
          BY <3>1, <3>2, <4>1, FrameNumbers
      <3>4. frame'[l] = Last(l) + 1
        BY <1>6, <3>1, <3>3, HeaderAt
      <3> QED
        BY <1>2, <1>3, <1>4, <1>6, <2>2, <3>4 DEF Inv, InStep
    <2> QED
      BY <2>1, <2>2
  <1> QED
    BY <1>7, <1>8, <1>9 DEF StreamOK

\* The frame whose body stands at the reader comes after the last one it delivered, and
\* has been written.
LEMMA NextFrame ==
  ASSUME Inv, NEW l \in Link, want[l] > 0, frame[l] # 0, arrived[l] - pos[l] >= want[l] - 1
  PROVE  /\ frame[l] \in Frames(l) /\ Last(l) < frame[l] /\ frame[l] <= sent[l]
         /\ pos[l] + want[l] - 1 = Start(l, frame[l] + 1)
  <1>1. /\ frame[l] \in Frames(l) /\ pos[l] = Start(l, frame[l]) + Header
        /\ want[l] = 1 + Sizes[l][frame[l]]
    BY DEF Inv, StreamOK, AtBody
  <1>2. /\ Sizes[l][frame[l]] \in Nat \ {0} /\ Header \in Nat \ {0} /\ Len(Sizes[l]) \in Nat
        /\ frame[l] \in 1..Len(Sizes[l])
    BY <1>1, FrameNumbers
  <1>3. /\ Last(l) \in Nat /\ Last(l) <= sent[l] /\ Start(l, Last(l) + 1) <= pos[l]
        /\ pos[l] <= arrived[l] /\ arrived[l] <= Written(l) /\ sent[l] <= Len(Sizes[l])
        /\ sent[l] \in Nat /\ arrived[l] \in Nat
    BY LastType DEF Inv, TypeOK, StreamOK, Past, InBuffer
  <1>4. /\ Last(l) + 1 \in 1..(Len(Sizes[l]) + 1) /\ sent[l] + 1 \in 1..(Len(Sizes[l]) + 1)
        /\ frame[l] \in 1..(Len(Sizes[l]) + 1)
    BY <1>2, <1>3
  <1>5. /\ Start(l, frame[l]) \in Nat /\ Start(l, Last(l) + 1) \in Nat
        /\ Start(l, sent[l] + 1) \in Nat
    BY <1>4, StartsGrow
  <1>6. Last(l) < frame[l]
    <2> SUFFICES ASSUME frame[l] < Last(l) + 1 PROVE FALSE
      BY <1>2, <1>3
    <2>1. Start(l, frame[l]) + Header + Sizes[l][frame[l]] <= Start(l, Last(l) + 1)
      BY <1>1, <1>4, StartsGrow
    <2> QED
      BY <1>1, <1>2, <1>3, <1>5, <2>1
  <1>7. frame[l] <= sent[l]
    <2> SUFFICES ASSUME sent[l] + 1 <= frame[l] PROVE FALSE
      BY <1>2, <1>3
    <2>1. Start(l, sent[l] + 1) <= Start(l, frame[l])
      <3>1. CASE sent[l] + 1 = frame[l]
        BY <1>5, <3>1
      <3>2. CASE sent[l] + 1 < frame[l]
        <4>1. sent[l] + 1 \in Frames(l)
          BY <1>2, <1>3, <3>2, FrameNumbers
        <4>2. /\ Start(l, sent[l] + 1) + Header + Sizes[l][sent[l] + 1] <= Start(l, frame[l])
              /\ Sizes[l][sent[l] + 1] \in Nat
          BY <1>4, <3>2, <4>1, StartsGrow, FrameNumbers
        <4> QED
          BY <1>2, <1>5, <4>2
      <3> QED
        BY <1>2, <1>3, <3>1, <3>2
    <2> QED
      BY <1>1, <1>2, <1>3, <1>5, <2>1 DEF Written
  <1>8. pos[l] + want[l] - 1 = Start(l, frame[l] + 1)
    BY <1>1, <1>2, <1>5, StartAt
  <1> QED
    BY <1>1, <1>6, <1>7, <1>8

LEMMA BodyStep ==
  ASSUME Inv, NEW l \in Link, ReadBody(l)
  PROVE  StreamOK' /\ InStep'
  <1>1. /\ want[l] > 0 /\ arrived[l] - pos[l] >= want[l] - 1
        /\ pos' = [pos EXCEPT ![l] = @ + want[l] - 1] /\ want' = [want EXCEPT ![l] = 0]
        /\ UNCHANGED <<sent, arrived, frame>>
    BY DEF ReadBody, Buffered
  <1>2. /\ pos'[l] = pos[l] + want[l] - 1 /\ want'[l] = 0
        /\ \A k \in Link \ {l} : UNCHANGED <<pos[k], want[k]>>
    BY <1>1 DEF Inv, TypeOK
  <1>3. \A k \in Link : Written(k)' = Written(k)
    BY <1>1 DEF Written
  <1>4. InBuffer(l)' /\ AtBody(l)'
    BY <1>1, <1>2, <1>3 DEF Inv, TypeOK, StreamOK, InBuffer, AtBody
  <1>5. ASSUME \A k \in Link \ {l} : Last(k)' = Last(k), Past(l)',
               l = "feedback" => pos'[l] = Start(l, Last(l)' + 1),
               reader'["feedback"] # "listen_main"
        PROVE  StreamOK' /\ InStep'
    <2>1. \A k \in Link \ {l} : InBuffer(k)' /\ AtBody(k)' /\ Past(k)'
      BY <1>1, <1>2, <1>3, <1>5 DEF Inv, StreamOK, InBuffer, AtBody, Past
    <2>2. l = "feedback" => InStep'
      BY <1>2, <1>5 DEF InStep
    <2>3. l # "feedback" => InStep'
      BY <1>1, <1>2, <1>5 DEF Inv, InStep, Link
    <2> QED
      BY <1>4, <1>5, <2>1, <2>2, <2>3 DEF StreamOK
  <1>6. CASE frame[l] = 0
    <2>1. delivered' = delivered /\ reader' = [reader EXCEPT ![l] = "over"]
      BY <1>6 DEF ReadBody
    <2>2. \A k \in Link : Last(k)' = Last(k)
      BY <2>1 DEF Last
    <2>3. l # "feedback"
      <3>1. Last("feedback") \in Nat
        BY LastType DEF Inv, Link
      <3> QED
        BY <1>1, <1>6, <3>1 DEF Inv, InStep
    <2>4. pos[l] <= pos'[l] /\ pos'[l] \in Nat
      BY <1>1, <1>2 DEF Inv, TypeOK
    <2>5. Past(l)'
      <3>1. Start(l, Last(l) + 1) \in Nat
        <4>1. Last(l) + 1 \in 1..(Len(Sizes[l]) + 1)
          BY LastType, FrameNumbers DEF Inv, TypeOK, StreamOK, Past
        <4> QED
          BY <4>1, StartsGrow
      <3> QED
        BY <1>1, <2>2, <2>4, <3>1 DEF Inv, TypeOK, StreamOK, Past
    <2>6. reader'["feedback"] # "listen_main"
      BY <2>1, <2>3 DEF Inv, TypeOK, InStep, Link
    <2> QED
      BY <1>5, <2>2, <2>3, <2>5, <2>6
  <1>7. CASE frame[l] # 0
    <2>1. delivered' = [delivered EXCEPT ![l] = Append(@, frame[l])] /\ reader' = reader
      BY <1>7 DEF ReadBody
    <2>2. Last(l)' = frame[l] /\ \A k \in Link \ {l} : Last(k)' = Last(k)
      BY <2>1, LastAppend DEF Inv, TypeOK
    <2>3. /\ frame[l] <= sent[l] /\ frame[l] \in Frames(l)
          /\ pos[l] + want[l] - 1 = Start(l, frame[l] + 1)
      BY <1>1, <1>7, NextFrame
    <2>4. pos'[l] = Start(l, Last(l)' + 1) /\ pos'[l] \in Nat
      BY <1>1, <1>2, <2>2, <2>3 DEF Inv, TypeOK
    <2>5. Past(l)'
      BY <1>1, <2>2, <2>3, <2>4 DEF Past
    <2> QED
      BY <1>5, <2>1, <2>2, <2>4, <2>5 DEF Inv, InStep
  <1> QED
    BY <1>6, <1>7

-----------------------------------------------------------------------------
(* The invariant, and the implementation of FrameLink.                     *)

LEMMA InvInit == Init => Inv
  <1> SUFFICES ASSUME Init PROVE Inv
    OBVIOUS
  <1> USE DEF Init
  <1>1. TypeOK
    BY FrameNumbers DEF TypeOK, Task
  <1>2. \A l \in Link : Last(l) = 0 /\ Written(l) = 0 /\ Start(l, 0 + 1) = 0
    BY StartAt DEF Last, Written
  <1>3. StreamOK
    BY <1>2 DEF StreamOK, InBuffer, AtBody, Past
  <1>4. InStep
    BY <1>2 DEF InStep, Link
  <1> QED
    BY <1>1, <1>3, <1>4 DEF Inv

LEMMA InvStep == ASSUME Inv, [Next]_vars PROVE Inv'
  <1>1. TypeOK'
    BY TypeStep DEF Inv
  <1>2. StreamOK' /\ InStep'
    BY TaskStep, SendStep, ArriveStep, TimeoutStep, HeaderStep, BodyStep DEF Next, Receive
  <1> QED
    BY <1>1, <1>2 DEF Inv

\* Types, and where each reader stands in its stream: behind what has arrived, past the
\* last frame it delivered and, at Bob's end, in step (receive_async).
THEOREM StreamsCorrect == Spec => []Inv
  <1>1. Init => Inv
    BY InvInit
  <1>2. Inv /\ [Next]_vars => Inv'
    BY InvStep
  <1> QED
    BY <1>1, <1>2, PTL DEF Spec

LEMMA DeliveryStep ==
  ASSUME Inv, NEW l \in Link, ReadBody(l), frame[l] # 0
  PROVE  /\ delivered' = [delivered EXCEPT ![l] = Append(@, frame[l])] /\ sent' = sent
         /\ frame[l] \in (Last(l) + 1)..sent[l]
         /\ l = "feedback" => frame[l] = Last(l) + 1
  <1>1. /\ want[l] > 0 /\ arrived[l] - pos[l] >= want[l] - 1 /\ sent' = sent
        /\ delivered' = [delivered EXCEPT ![l] = Append(@, frame[l])]
    BY DEF ReadBody, Buffered
  <1>2. frame[l] \in Nat /\ sent[l] \in Nat /\ Last(l) \in Nat
    BY LastType DEF Inv, TypeOK
  <1>3. Last(l) < frame[l] /\ frame[l] <= sent[l]
    BY <1>1, NextFrame
  <1>4. l = "feedback" => frame[l] = Last(l) + 1
    BY <1>1 DEF Inv, InStep
  <1> QED
    BY <1>1, <1>2, <1>3, <1>4

\* What any step does to what was sent and what was delivered.
LEMMA LinkStep ==
  ASSUME Inv, [Next]_vars
  PROVE  \/ UNCHANGED <<sent, delivered>>
         \/ \E l \in Link : sent' = [sent EXCEPT ![l] = @ + 1] /\ UNCHANGED delivered
         \/ \E l \in Link : ReadBody(l) /\ frame[l] # 0
  <1>1. CASE \/ _register_agent \/ BobCloses \/ AgentCloses \/ UNCHANGED vars
             \/ \E l \in Link : Arrive(l) \/ ReadHeader(l) \/ ReadEnd(l) \/ Timeout(l)
    BY <1>1 DEF _register_agent, BobCloses, AgentCloses, Close, Arrive, ReadHeader, ReadEnd,
                Timeout, vars
  <1>2. ASSUME NEW l \in Link, send_async(l)
        PROVE  sent' = [sent EXCEPT ![l] = @ + 1] /\ UNCHANGED delivered
    BY <1>2 DEF send_async
  <1>3. ASSUME NEW l \in Link, ReadBody(l), frame[l] = 0
        PROVE  UNCHANGED <<sent, delivered>>
    BY <1>3 DEF ReadBody
  <1> QED
    BY <1>1, <1>2, <1>3 DEF Next, Receive

LEMMA MainStep ==
  ASSUME Inv, [Next]_vars
  PROVE  [MainLink!Next]_(MainLink!vars)
  <1> USE DEF MainLink!Next, MainLink!vars, MainLink!Send, MainLink!Deliver,
              MainLink!LastDelivered
  <1>1. ASSUME NEW l \in Link, sent' = [sent EXCEPT ![l] = @ + 1], UNCHANGED delivered
        PROVE  MainLink!Send \/ UNCHANGED MainLink!vars
    BY <1>1 DEF Inv, TypeOK, Link
  <1>2. ASSUME NEW l \in Link, ReadBody(l), frame[l] # 0
        PROVE  MainLink!Deliver \/ UNCHANGED MainLink!vars
    BY <1>2, DeliveryStep DEF Inv, TypeOK, Link, Last
  <1> QED
    BY <1>1, <1>2, LinkStep

LEMMA FeedbackStep ==
  ASSUME Inv, [Next]_vars
  PROVE  [FeedbackLink!Next]_(FeedbackLink!vars)
  <1> USE DEF FeedbackLink!Next, FeedbackLink!vars, FeedbackLink!Send, FeedbackLink!Deliver,
              FeedbackLink!LastDelivered
  <1>1. ASSUME NEW l \in Link, sent' = [sent EXCEPT ![l] = @ + 1], UNCHANGED delivered
        PROVE  FeedbackLink!Send \/ UNCHANGED FeedbackLink!vars
    BY <1>1 DEF Inv, TypeOK, Link
  <1>2. ASSUME NEW l \in Link, ReadBody(l), frame[l] # 0
        PROVE  FeedbackLink!Deliver \/ UNCHANGED FeedbackLink!vars
    BY <1>2, DeliveryStep DEF Inv, TypeOK, Link, Last
  <1> QED
    BY <1>1, <1>2, LinkStep

\* Bob receives every report of the agent in order and without a gap, and the agent
\* what Bob sends in order, each frame at most once and none made up, whatever reads are
\* given up and wherever a reader that lost a header starts anew (send_async,
\* receive_async, monitor_agent, listen_main).
THEOREM LinksCorrect == Spec => LinkSpec
  <1>1. Init => MainLink!Init /\ FeedbackLink!Init
    BY DEF Init, MainLink!Init, FeedbackLink!Init, Link
  <1>2. Inv /\ [Next]_vars => [MainLink!Next]_(MainLink!vars)
    BY MainStep
  <1>3. Inv /\ [Next]_vars => [FeedbackLink!Next]_(FeedbackLink!vars)
    BY FeedbackStep
  <1> QED
    BY <1>1, <1>2, <1>3, StreamsCorrect, PTL
    DEF Spec, LinkSpec, MainLink!Spec, FeedbackLink!Spec
==============================================================================
