-------------------------------- MODULE QKD --------------------------------
(***************************************************************************)
(* The BB84 exchange of the signature protocols: Alice's run_protocol and  *)
(* the one Bob and Charlie share, over one TCP connection.  Both sides     *)
(* leave by returning a key or None, or on an exception; either way their  *)
(* end of the connection is closed by the caller.                          *)
(*                                                                         *)
(* The bits themselves are abstracted: what matters is how many indices    *)
(* matched, how many errors the verified half shows, and at which          *)
(* positions of the other half the two sides differ.  The decoder may turn *)
(* a block with errors into anything and leaves one without errors alone.  *)
(***************************************************************************)
EXTENDS Integers, Sequences, FiniteSets

CONSTANTS
  Sifted,               \* numbers of matching indices considered
  Qber, LowQber, MaxQber, \* thresholds, as fractions <<numerator, denominator>>
  Small, Mid, Large,    \* block lengths of the three codes
  Killable              \* sides whose process may be killed

ASSUME SiftedAssumption == Sifted \subseteq Nat
ASSUME QberAssumption ==
  /\ {Qber, LowQber, MaxQber} \subseteq Nat \X (Nat \ {0})
  /\ Qber[1] * MaxQber[2] < MaxQber[1] * Qber[2]
ASSUME BlockAssumption == {Small, Mid, Large} \subseteq Nat \ {0}

Side == {"Alice", "Bob"}
ASSUME KillableAssumption == Killable \subseteq Side

\* What travels, named after what it carries.
ToAlice == {"I", "qber"}
ToBob == {"theta1", "subset", "syndromes", "alice_key"}

Other(p) == IF p = "Alice" THEN "Bob" ELSE "Alice"

VARIABLES
  at,       \* where each side stands
  result,   \* how its run_protocol ended
  key,      \* the key it returned
  data,     \* what its reader returned
  inbox,    \* the messages sent to it and not yet received
  large,    \* whether its disk holds the matrix of the large code
  sifted,   \* the number of matching indices
  errors,   \* the errors in the verified half
  noisy     \* the positions of the remaining half where the sides differ

dataVars == <<sifted, errors, noisy>>
vars == <<at, result, key, data, inbox, large, dataVars>>

-----------------------------------------------------------------------------
(* The two halves and the choice of the code.                              *)

Rest == sifted \div 2
Verified == sifted - Rest

\* measured_qber is errors / Verified.
Below(t) == errors * t[2] < t[1] * Verified
Above(t) == errors * t[2] > t[1] * Verified

EccBlock(p) ==
  IF Below(LowQber) THEN (IF Rest < Large \/ ~large[p] THEN Small ELSE Large) ELSE Mid

Blocks(p) == Rest \div EccBlock(p)
BitsOf(i, b) == ((i - 1) * b + 1)..(i * b)

\* A key: how many bits went into it, how many blocks of syndromes leaked, the bits
\* of it that differ from Alice's, and whether it was hashed.  Hashing no bits at all
\* gives a key of length zero.
NoKey == [bits |-> 0, leak |-> 0, wrong |-> {}, amplified |-> FALSE]
RawKey(wrong) == [bits |-> Rest, leak |-> 0, wrong |-> wrong, amplified |-> FALSE]
FinalKey(p, wrong) ==
  [bits |-> Blocks(p) * EccBlock(p), leak |-> Blocks(p), wrong |-> wrong, amplified |-> TRUE]
EmptyKey == [bits |-> 0, leak |-> 0, wrong |-> {}, amplified |-> TRUE]

Position == UNION {1..(s \div 2) : s \in Sifted}
Key == [bits : Nat, leak : Nat, wrong : SUBSET Position, amplified : BOOLEAN]

TypeOK ==
  /\ at \in [Side -> {"read", "send", "hash", "over"} \cup ToAlice \cup ToBob]
  /\ result \in [Side -> {"running", "key", "none", "raised", "exit", "killed"}]
  /\ key \in [Side -> Key]
  /\ data \in [Side -> {"unread", "empty", "short", "full"}]
  /\ inbox \in [Side -> Seq(ToAlice \cup ToBob)]
  /\ large \in [Side -> BOOLEAN]
  /\ sifted \in Sifted \cup {0}
  /\ errors \in 0..Verified
  /\ noisy \subseteq 1..Rest

Init ==
  /\ at = [p \in Side |-> "read"]
  /\ result = [p \in Side |-> "running"]
  /\ key = [p \in Side |-> NoKey]
  /\ data = [p \in Side |-> "unread"]
  /\ inbox = [p \in Side |-> <<>>]
  /\ large \in [Side -> BOOLEAN]
  /\ sifted = 0 /\ errors = 0 /\ noisy = {}

-----------------------------------------------------------------------------
(* The connection and the ways to leave.                                   *)

Running(p) == result[p] = "running"

Goto(p, l) == at' = [at EXCEPT ![p] = l] /\ UNCHANGED <<result, key>>

Leave(p, r, k) ==
  /\ at' = [at EXCEPT ![p] = "over"]
  /\ result' = [result EXCEPT ![p] = r]
  /\ key' = [key EXCEPT ![p] = k]

Raise(p) == Leave(p, "raised", NoKey)

\* assend, and the step after it: to a peer that has left the write may raise.
Send(p, box, m, step) ==
  IF Running(Other(p))
  THEN inbox' = [box EXCEPT ![Other(p)] = Append(@, m)] /\ step
  ELSE inbox' = box /\ (step \/ Raise(p))

\* asrecv: the next message...
Receives(p, m) == at[p] = m /\ inbox[p] # <<>> /\ Head(inbox[p]) = m
Received(p) == [inbox EXCEPT ![p] = Tail(@)]

\* ...or an exception at the end of the stream.
EndOfStream(p) ==
  /\ at[p] \in ToAlice \cup ToBob
  /\ inbox[p] = <<>> /\ ~Running(Other(p))
  /\ Raise(p)
  /\ UNCHANGED <<data, inbox, large, dataVars>>

\* The readers return every batch, the first ones, or none at all.
Read(p) ==
  /\ at[p] = "read"
  /\ \E d \in {"empty", "short", "full"} :
       /\ data' = [data EXCEPT ![p] = d]
       /\ IF d = "empty" THEN Leave(p, "none", NoKey)
          ELSE Goto(p, IF p = "Alice" THEN "send" ELSE "theta1")
  /\ UNCHANGED <<inbox, large, dataVars>>

\* Alice's send_stop_command, between her reader and its result, raises.
StopFails ==
  /\ at["Alice"] = "read"
  /\ Raise("Alice")
  /\ UNCHANGED <<data, inbox, large, dataVars>>

\* The process is killed; what it had sent last may be lost.
Kill(p) ==
  /\ p \in Killable /\ Running(p)
  /\ Leave(p, "killed", NoKey)
  /\ \E k \in 0..Len(inbox[Other(p)]) : inbox' = [inbox EXCEPT ![Other(p)] = SubSeq(@, 1, k)]
  /\ UNCHANGED <<data, large, dataVars>>

-----------------------------------------------------------------------------
(* Sifting and the two halves.                                             *)

ReceiveFirst ==
  /\ at["Alice"] = "send"
  /\ inbox["Alice"] # <<>> \/ ~Running("Bob")
  /\ Send("Alice", inbox, "theta1", Goto("Alice", "I"))
  /\ UNCHANGED <<data, large, dataVars>>
SendBases ==
  /\ at["Alice"] = "send"
  /\ Send("Alice", inbox, "theta1", Goto("Alice", "I"))
  /\ UNCHANGED <<data, large, dataVars>>

\* The comparison runs over num_qubits and raises when either list is shorter.
MatchBases ==
  /\ Receives("Bob", "theta1")
  /\ IF \E p \in Side : data[p] = "short"
     THEN Raise("Bob") /\ inbox' = Received("Bob") /\ UNCHANGED sifted
     ELSE /\ sifted' \in Sifted
          /\ Send("Bob", Received("Bob"), "I", Goto("Bob", "subset"))
  /\ UNCHANGED <<data, large, errors, noisy>>

\* Alice draws the half to verify, and with it where the sides differ.
SendSubset ==
  /\ Receives("Alice", "I")
  /\ errors' \in 0..Verified
  /\ noisy' \in SUBSET (1..Rest)
  /\ Send("Alice", Received("Alice"), "subset", Goto("Alice", "qber"))
  /\ UNCHANGED <<data, large, sifted>>

-----------------------------------------------------------------------------
(* The decision both sides take on measured_qber.                          *)

TooNoisy == Above(Qber)
OnlyBobHandlesZero(p) == p = "Bob" /\ errors = 0
NobodyHandlesZero(p) == FALSE
Clean(p) == errors = 0
\* read_matrix exits outside the range of its codes.
Covered == errors > 0 /\ Below(MaxQber)
TooShort(p) == Rest < EccBlock(p)

Stops(p, wrong) ==
  \/ TooNoisy /\ Leave(p, "none", NoKey)
  \/ ~TooNoisy /\ Clean(p) /\ Leave(p, "key", RawKey(wrong))
  \/ ~TooNoisy /\ ~Clean(p) /\ ~Covered /\ Leave(p, "exit", NoKey)
  \/ ~TooNoisy /\ ~Clean(p) /\ Covered /\ TooShort(p) /\ Leave(p, "none", NoKey)

Corrects(p) == ~TooNoisy /\ ~Clean(p) /\ Covered /\ ~TooShort(p)

\* With nothing to verify, the division raises.
MeasureQber ==
  /\ Receives("Bob", "subset")
  /\ IF Verified = 0
     THEN Raise("Bob") /\ inbox' = Received("Bob")
     ELSE Send("Bob", Received("Bob"), "qber",
               Stops("Bob", noisy) \/ (Corrects("Bob") /\ Goto("Bob", "syndromes")))
  /\ UNCHANGED <<data, large, dataVars>>

DecideOnQber ==
  /\ Receives("Alice", "qber")
  /\ \/ Stops("Alice", {}) /\ inbox' = Received("Alice")
     \/ Corrects("Alice") /\ Send("Alice", Received("Alice"), "syndromes", Goto("Alice", "hash"))
  /\ UNCHANGED <<data, large, dataVars>>

\* Her own key goes out last; the line is marked for debugging, but Bob waits for it.
ReturnKey ==
  /\ at["Alice"] = "hash"
  /\ Send("Alice", inbox, "alice_key", Leave("Alice", "key", FinalKey("Alice", {})))
  /\ UNCHANGED <<data, large, dataVars>>

ReceiveSyndromes ==
  /\ Receives("Bob", "syndromes")
  /\ inbox' = Received("Bob") /\ Goto("Bob", "alice_key")
  /\ UNCHANGED <<data, large, dataVars>>

\* Syndromes of another code fit no block: each block raises and is dropped, and what is
\* hashed at the end is no bit at all.  The xor with Alice's key raises too, and is caught.
AnySyndromeFits == TRUE
SyndromesFit == EccBlock("Alice") = EccBlock("Bob")

NoisyBits == UNION {BitsOf(i, EccBlock("Bob")) :
                      i \in {j \in 1..Blocks("Bob") : BitsOf(j, EccBlock("Bob")) \cap noisy # {}}}

Decode ==
  /\ Receives("Bob", "alice_key")
  /\ inbox' = Received("Bob")
  /\ \/ ~SyndromesFit /\ Leave("Bob", "key", EmptyKey)
     \/ SyndromesFit /\ \E wrong \in SUBSET NoisyBits : Leave("Bob", "key", FinalKey("Bob", wrong))
  /\ UNCHANGED <<data, large, dataVars>>

-----------------------------------------------------------------------------

AliceStep ==
  \/ Read("Alice") \/ StopFails \/ SendBases \/ SendSubset \/ DecideOnQber \/ ReturnKey
  \/ EndOfStream("Alice")
BobStep ==
  \/ Read("Bob") \/ MatchBases \/ MeasureQber \/ ReceiveSyndromes \/ Decode
  \/ EndOfStream("Bob")

Next == AliceStep \/ BobStep \/ \E p \in Side : Kill(p)

Spec == Init /\ [][Next]_vars

(* Neither side stops by itself; the connection delivers what was sent.    *)
FairSpec == Spec /\ WF_vars(AliceStep) /\ WF_vars(BobStep)

-----------------------------------------------------------------------------
(* Properties.                                                             *)

\* When both sides return a key, the keys have the same length and went through the
\* same steps; a corrected one differs only in blocks that had an error, and so not
\* at all where the decoder had nothing to do.  Between different codes Bob's is empty,
\* whatever Alice's is, and never another key he takes for hers.
KeysMatch ==
  (\A p \in Side : result[p] = "key") =>
    IF errors > 0 /\ EccBlock("Alice") # EccBlock("Bob")
    THEN key["Bob"] = EmptyKey /\ key["Alice"] = FinalKey("Alice", {})
    ELSE /\ \A f \in {"bits", "leak", "amplified"} : key["Alice"][f] = key["Bob"][f]
         /\ noisy = {} => key["Alice"] = key["Bob"]

\* No measured QBER that passes the threshold makes read_matrix end the process.
NeverExits == \A p \in Side : result[p] # "exit"

\* Whatever is missing, lost or killed, both sides leave.
BothLeave == <>(\A p \in Side : ~Running(p))

\* The exchange as the signature protocol sees it.
Outcome(p) ==
  CASE result[p] = "running" -> "open"
    [] result[p] = "key" -> "key"
    [] result[p] = "killed" -> "gone"
    [] OTHER -> "none"

Agreement == INSTANCE KeyAgreement WITH
  alice <- Outcome("Alice"),
  peer <- IF Outcome("Bob") = "gone" THEN "none" ELSE Outcome("Bob")

\* Alice never gives up on a server that holds a key.
AgreementSpec == Agreement!Spec
=============================================================================
