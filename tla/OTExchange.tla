----------------------------- MODULE OTExchange -----------------------------
(***************************************************************************)
(* One oblivious transfer: the client (Alice) holds two messages, the      *)
(* server (Bob) a secret choice.  Both run ProtocolHandler.run_protocol    *)
(* over one connection, and each leaves by returning, early or at the end, *)
(* by an exception, by exit(1) in read_matrix, or because it is killed.    *)
(*                                                                         *)
(* Bits are abstracted to counts: of the Remaining positions, matched have *)
(* equal bases, and the strings are cut into blocks of the code.  Of the   *)
(* decoder's outcome only matters whether Bob's string became Alice's.     *)
(***************************************************************************)
EXTENDS Integers, Sequences

CONSTANTS
  Remaining,          \* num_bits // 2: the positions left after the opening
  Small, Mid, Large,  \* block lengths of the three codes
  Margin,             \* key bits there would be with no leak
  Rows,               \* bits of one syndrome
  Cap                 \* the most bits a key is given

ASSUME SizesAssumption == {Remaining, Small, Mid, Large, Margin, Rows, Cap} \subseteq Nat \ {0}
ASSUME CodesAssumption == Small <= Large

Side == {"Alice", "Bob"}
Other(p) == IF p = "Alice" THEN "Bob" ELSE "Alice"
Choice == {0, 1}

\* What travels, named after what it carries.
ToAlice == {"coms", "openings", "I"}
ToBob == {"indices", "qber", "theta1", "syndromes", "X", "cipher"}

\* Ranges of measured_qber: rounded to zero, those of the two codes, and the abort.
QberRange == {"zero", "low", "mid", "high"}

VARIABLES
  at,        \* where each side stands
  result,    \* how its run_protocol ended
  data,      \* what its reader returned
  inbox,     \* the messages sent to it and not yet received
  large,     \* whether its disk holds the matrix of the large code
  qber,      \* the range of measured_qber
  choice,    \* secret_choice
  matched,   \* positions with equal bases: the length of Bob's string
  leak,      \* leak[p]: the syndromes p counted
  exact,     \* the decoder left no error in any block
  bits,      \* bits[p]: the bits of the chosen string that p hashes
  got        \* what Bob decrypted

dataVars == <<qber, choice, matched>>
keyVars == <<leak, exact, bits, got>>
vars == <<at, result, data, inbox, large, dataVars, keyVars>>

-----------------------------------------------------------------------------
(* The two strings and their blocks.                                       *)

Least(a, b) == IF a <= b THEN a ELSE b

\* X(c): the length of the string Alice encrypts message c with.
X(c) == IF c = choice THEN matched ELSE Remaining - matched
Shorter == Least(X(0), X(1))

EccBlock(p) ==
  IF qber = "low" THEN (IF Shorter < Large \/ ~large[p] THEN Small ELSE Large) ELSE Mid
Blocks(c, p) == X(c) \div EccBlock(p)

\* The blocks both strings have, and at most one more of the longer.
CommonBlocks == Least(Blocks(0, "Alice"), Blocks(1, "Alice"))
OnlyCommon(c) == CommonBlocks
Syndromes(c) == CommonBlocks + (IF Blocks(c, "Alice") > CommonBlocks THEN 1 ELSE 0)

\* The length of the key hashed from a string of which l syndromes leaked.
Extracted(l) == Least(IF Margin > Rows * l THEN Margin - Rows * l ELSE 0, Cap)

TypeOK ==
  /\ at \in [Side -> {"read", "commit", "encrypt", "over"} \cup ToAlice \cup ToBob]
  /\ result \in [Side -> {"running", "done", "none", "short", "raised", "exit", "killed"}]
  /\ data \in [Side -> {"unread", "empty", "part", "full"}]
  /\ inbox \in [Side -> Seq(ToAlice \cup ToBob)]
  /\ large \in [Side -> BOOLEAN]
  /\ qber \in QberRange
  /\ choice \in Choice
  /\ matched \in 0..Remaining
  /\ leak \in [Side -> 0..Remaining]
  /\ exact \in BOOLEAN
  /\ bits \in [Side -> 0..X(choice)]
  /\ got \in {"nothing", "message", "noise"}

Init ==
  /\ at = [p \in Side |-> "read"]
  /\ result = [p \in Side |-> "running"]
  /\ data = [p \in Side |-> "unread"]
  /\ inbox = [p \in Side |-> <<>>]
  /\ large \in [Side -> BOOLEAN]
  /\ qber = "high" /\ choice = 0 /\ matched = 0
  /\ leak = [p \in Side |-> 0] /\ bits = [p \in Side |-> 0]
  /\ exact = FALSE /\ got = "nothing"

-----------------------------------------------------------------------------
(* The connection and the ways to leave.                                   *)

Running(p) == result[p] = "running"
Goto(p, l) == at' = [at EXCEPT ![p] = l] /\ UNCHANGED result
Leave(p, r) == at' = [at EXCEPT ![p] = "over"] /\ result' = [result EXCEPT ![p] = r]

\* assend, and the step after it: to a peer that has left the write may raise.
Send(p, box, ms, step) ==
  IF Running(Other(p))
  THEN inbox' = [box EXCEPT ![Other(p)] = @ \o ms] /\ step
  ELSE inbox' = box /\ (step \/ Leave(p, "raised"))

Receives(p, m) == at[p] = m /\ inbox[p] # <<>> /\ Head(inbox[p]) = m
Received(p) == [inbox EXCEPT ![p] = Tail(@)]

Kill(p) ==
  /\ Running(p)
  /\ Leave(p, "killed")
  /\ UNCHANGED <<data, inbox, large, dataVars, keyVars>>

-----------------------------------------------------------------------------
(* Reading, commitment and error estimation.                               *)

Read(p) ==
  /\ at[p] = "read"
  /\ \E d \in {"empty", "part", "full"} :
       /\ data' = [data EXCEPT ![p] = d]
       /\ IF d = "empty" THEN Leave(p, "none")
          ELSE Goto(p, IF p = "Alice" THEN "coms" ELSE "commit")
  /\ UNCHANGED <<inbox, large, dataVars, keyVars>>

\* Alice's send_stop_command raises.
StopFails ==
  /\ at["Alice"] = "read"
  /\ Leave("Alice", "raised")
  /\ UNCHANGED <<data, inbox, large, dataVars, keyVars>>

CommitLast ==
  /\ at["Bob"] = "commit"
  /\ inbox["Bob"] # <<>> \/ ~Running("Alice")
  /\ Send("Bob", inbox, <<"coms">>, Goto("Bob", "indices"))
  /\ UNCHANGED <<data, large, dataVars, keyVars>>

Commit ==
  /\ at["Bob"] = "commit"
  /\ Send("Bob", inbox, <<"coms">>, Goto("Bob", "indices"))
  /\ UNCHANGED <<data, large, dataVars, keyVars>>

\* Inside the try: a write that raises ends quietly as well.
AskOpening ==
  /\ Receives("Alice", "coms")
  /\ IF Running("Bob")
     THEN inbox' = [Received("Alice") EXCEPT !["Bob"] = Append(@, "indices")] /\ Goto("Alice", "openings")
     ELSE inbox' = Received("Alice") /\ (Goto("Alice", "openings") \/ Leave("Alice", "none"))
  /\ UNCHANGED <<data, large, dataVars, keyVars>>

Open ==
  /\ Receives("Bob", "indices")
  /\ Send("Bob", Received("Bob"), <<"openings">>, Goto("Bob", "qber"))
  /\ UNCHANGED <<data, large, dataVars, keyVars>>

\* The lengths fit when all of Alice's data is there and, of Bob's, every position that was
\* opened; else she leaves, by an exception when what both lack happens to fit.  An error
\* rate above the threshold is sent, and she leaves then.
LengthsDiffer ==
  /\ \E p \in Side : data[p] # "full"
  /\ \/ Leave("Alice", "none")
     \/ (\A p \in Side : data[p] # "full") /\ Leave("Alice", "raised")
  /\ inbox' = Received("Alice")
  /\ UNCHANGED qber

LengthsFit ==
  /\ data["Alice"] = "full"
  /\ qber' \in QberRange
  /\ IF qber' = "high"
     THEN Send("Alice", Received("Alice"), <<"qber">>, Leave("Alice", "none"))
     ELSE Send("Alice", Received("Alice"), <<"qber", "theta1">>, Goto("Alice", "I"))

Estimate ==
  /\ Receives("Alice", "openings")
  /\ LengthsDiffer \/ LengthsFit
  /\ UNCHANGED <<data, large, choice, matched, keyVars>>

ReceiveQber ==
  /\ Receives("Bob", "qber")
  /\ inbox' = Received("Bob") /\ Goto("Bob", "theta1")
  /\ UNCHANGED <<data, large, dataVars, keyVars>>

-----------------------------------------------------------------------------
(* The transfer.                                                           *)

FirstStringShort(p) == IF p = "Alice" THEN X(0) < EccBlock(p) ELSE Shorter < EccBlock(p)
OwnStringShort(p) == IF p = "Bob" THEN matched < EccBlock(p) ELSE Shorter < EccBlock(p)
TooShort(p) == Shorter < EccBlock(p)

\* read_matrix exits on a rate of zero; the rest of its range is covered.
Stops(p) ==
  \/ qber = "zero" /\ Leave(p, "exit")
  \/ qber # "zero" /\ TooShort(p) /\ Leave(p, "short")
Corrects(p) == qber # "zero" /\ ~TooShort(p)

\* Bob compares the bases and sends both index lists, in the order of his choice.  Short
\* of data that was not opened, he runs past the end of his bases.
Reconcile ==
  /\ Receives("Bob", "theta1")
  /\ choice' \in Choice
  /\ IF data["Bob"] = "full"
     THEN /\ matched' \in 0..Remaining
          /\ Send("Bob", Received("Bob"), <<"I">>, Goto("Bob", "syndromes"))
     ELSE inbox' = Received("Bob") /\ Leave("Bob", "raised") /\ UNCHANGED matched
  /\ UNCHANGED <<data, large, qber, keyVars>>

\* He loads the matrix before he waits for the syndromes.
BobStops ==
  /\ at["Bob"] = "syndromes"
  /\ Stops("Bob")
  /\ UNCHANGED <<data, inbox, large, dataVars, keyVars>>

\* The end of the stream, which a killed peer's reset may bring before what it sent.
\* The commitment on Alice's side, and Bob's wait for theta1, end quietly then; elsewhere,
\* and when Bob's wait is cut by the reset, it is an exception.
Guarded == {"coms", "openings", "theta1"}
EndOfStream(p) ==
  /\ at[p] \in ToAlice \cup ToBob
  /\ at[p] = "syndromes" => Corrects("Bob")
  /\ ~Running(Other(p)) /\ (inbox[p] = <<>> \/ result[Other(p)] = "killed")
  /\ \/ at[p] \in Guarded /\ Leave(p, "none")
     \/ at[p] \notin Guarded /\ Leave(p, "raised")
     \/ at[p] = "theta1" /\ result[Other(p)] = "killed" /\ Leave(p, "raised")
  /\ UNCHANGED <<data, inbox, large, dataVars, keyVars>>

\* 2000 s pass before theta1 comes.
Theta1Timeout ==
  /\ at["Bob"] = "theta1"
  /\ Leave("Bob", "none")
  /\ UNCHANGED <<data, inbox, large, dataVars, keyVars>>

SendSyndromes ==
  /\ Receives("Alice", "I")
  /\ \/ Stops("Alice") /\ inbox' = Received("Alice") /\ UNCHANGED keyVars
     \/ /\ Corrects("Alice")
        /\ leak' = [leak EXCEPT !["Alice"] = CommonBlocks]
        /\ bits' = [bits EXCEPT !["Alice"] = Blocks(choice, "Alice") * EccBlock("Alice")]
        /\ Send("Alice", Received("Alice"), <<"syndromes", "X">>, Goto("Alice", "encrypt"))
        /\ UNCHANGED <<exact, got>>
  /\ UNCHANGED <<data, large, dataVars>>

Encrypt ==
  /\ at["Alice"] = "encrypt"
  /\ Send("Alice", inbox, <<"cipher">>, Leave("Alice", "done"))
  /\ UNCHANGED <<data, large, dataVars, keyVars>>

ReceiveSyndromes ==
  /\ Receives("Bob", "syndromes") /\ Corrects("Bob")
  /\ inbox' = Received("Bob") /\ Goto("Bob", "X")
  /\ UNCHANGED <<data, large, dataVars, keyVars>>

\* A block without a syndrome, or with one of another code, is dropped.
Decoded ==
  IF EccBlock("Bob") = EccBlock("Alice") THEN Least(Blocks(choice, "Bob"), Syndromes(choice)) ELSE 0

Decode ==
  /\ Receives("Bob", "X")
  /\ exact' \in BOOLEAN
  /\ leak' = [leak EXCEPT !["Bob"] = Decoded]
  /\ bits' = [bits EXCEPT !["Bob"] = Decoded * EccBlock("Bob")]
  /\ inbox' = Received("Bob") /\ Goto("Bob", "cipher")
  /\ UNCHANGED <<data, large, dataVars, got>>

\* The comparison with Alice's string fails on another length, and then left_errors,
\* which goes to the csv file, is unbound: Bob raises after he decrypted.
Compared == bits["Bob"] = bits["Alice"]

\* A key of no bits is the same on both sides whatever the strings are.
SameKey ==
  /\ Extracted(leak["Bob"]) = Extracted(leak["Alice"])
  /\ Extracted(leak["Alice"]) = 0 \/ (exact /\ Compared)

Decrypt ==
  /\ Receives("Bob", "cipher")
  /\ inbox' = Received("Bob")
  /\ got' = IF SameKey THEN "message" ELSE "noise"
  /\ Leave("Bob", IF Compared THEN "done" ELSE "raised")
  /\ UNCHANGED <<data, large, dataVars, leak, exact, bits>>

-----------------------------------------------------------------------------

AliceStep ==
  \/ Read("Alice") \/ StopFails \/ EndOfStream("Alice")
  \/ AskOpening \/ Estimate \/ SendSyndromes \/ Encrypt

BobStep ==
  \/ Read("Bob") \/ EndOfStream("Bob") \/ Theta1Timeout
  \/ Commit \/ Open \/ ReceiveQber \/ Reconcile \/ BobStops
  \/ ReceiveSyndromes \/ Decode \/ Decrypt

Next == AliceStep \/ BobStep \/ \E p \in Side : Kill(p)

Spec == Init /\ [][Next]_vars
FairSpec == Spec /\ WF_vars(AliceStep) /\ WF_vars(BobStep)

-----------------------------------------------------------------------------
(* Properties.                                                             *)

Over(p) == ~Running(p)

\* A side that gives up over its own reading of the shared numbers - the strings too short
\* for the code, or an error rate that read_matrix exits on - is not alone: unless it is
\* killed the other gives up in the same way, and no transfer is left half done.
StopsAgree ==
  \A p \in Side : result[p] \in {"short", "exit"} =>
    result[Other(p)] \in {"running", "killed", result[p]}

\* A client that reports the transfer as made has a server that decrypted: unless it was
\* killed, Bob does not leave empty-handed once Alice sent the masked messages.
TransferCompletes ==
  result["Alice"] = "done" /\ Over("Bob") /\ result["Bob"] # "killed" => got # "nothing"

\* When both use the same code, and either the two strings have as many blocks or the chosen
\* one has one more and the key is at its cap all the same, an exact decoder is enough for
\* Bob to get the message he chose, and to end his round without an exception.
CorrectTransfer ==
  got # "nothing" /\ exact /\ EccBlock("Alice") = EccBlock("Bob")
  /\ (\/ Blocks(choice, "Alice") <= CommonBlocks
      \/ /\ Blocks(choice, "Alice") = CommonBlocks + 1
         /\ Extracted(CommonBlocks + 1) = Cap)
  => got = "message" /\ result["Bob"] = "done"

\* Neither side waits for ever: whatever fails on one side, both leave run_protocol.
BothLeave == <>(\A p \in Side : Over(p))

\* README.md, result guide: "The server should receive and show one of the messages in the
\* file m0.txt or m1.txt without error."  Stated for an exact decoder only.
ReceiverGetsMessage == got # "nothing" /\ exact => got = "message"
=============================================================================
