-------------------------- MODULE OTExchangeProofs --------------------------
(* Theorems about OTExchange for any sizes of strings, codes and keys. *)
EXTENDS OTExchange, SequenceTheorems, TLAPS

-----------------------------------------------------------------------------
(* The inductive invariant.                                                *)

\* A side is over exactly when run_protocol has ended.
Linked == \A p \in Side : at[p] = "over" <=> result[p] # "running"

Early == {"read", "commit", "indices", "qber", "theta1"}

\* Where Bob stands and what is under way to either side, for each place of Alice's.
\* A box of a side that is over holds what nobody reads.
Commits ==
  at["Alice"] \in {"read", "coms"} =>
    /\ at["Bob"] \in {"read", "commit", "indices", "over"}
    /\ inbox["Bob"] = <<>> /\ inbox["Alice"] \in {<<>>, <<"coms">>}
    /\ at["Bob"] \in {"read", "commit"} => inbox["Alice"] = <<>>
    /\ at["Bob"] = "indices" => inbox["Alice"] = <<"coms">>
    /\ result["Bob"] \notin {"short", "exit", "done"}

Opens ==
  at["Alice"] = "openings" =>
    /\ at["Bob"] \in {"indices", "qber", "over"}
    /\ inbox["Alice"] \in {<<>>, <<"openings">>}
    /\ at["Bob"] = "indices" => inbox["Alice"] = <<>> /\ inbox["Bob"] = <<"indices">>
    /\ at["Bob"] = "qber" => inbox["Alice"] = <<"openings">> /\ inbox["Bob"] = <<>>
    /\ result["Bob"] \notin {"short", "exit", "done"}

AwaitsI ==
  at["Alice"] = "I" =>
    /\ at["Bob"] \in {"qber", "theta1", "syndromes", "over"}
    /\ inbox["Alice"] \in {<<>>, <<"I">>}
    /\ at["Bob"] = "qber" => inbox["Alice"] = <<>> /\ inbox["Bob"] = <<"qber", "theta1">>
    /\ at["Bob"] = "theta1" => inbox["Alice"] = <<>> /\ inbox["Bob"] = <<"theta1">>
    /\ at["Bob"] = "syndromes" => inbox["Bob"] = <<>>
    /\ at["Bob"] = "syndromes" \/ result["Bob"] \in {"short", "exit"} => inbox["Alice"] = <<"I">>
    /\ inbox["Alice"] = <<"I">> =>
         at["Bob"] = "syndromes" \/ result["Bob"] \in {"short", "exit", "killed"}
    /\ result["Bob"] # "done"

Encrypts ==
  at["Alice"] = "encrypt" =>
    /\ at["Bob"] \in {"syndromes", "X", "cipher"} \/ result["Bob"] = "killed"
    /\ at["Bob"] = "syndromes" => inbox["Bob"] = <<"syndromes", "X">>
    /\ at["Bob"] = "X" => inbox["Bob"] = <<"X">>
    /\ at["Bob"] = "cipher" => inbox["Bob"] = <<>>
    /\ inbox["Alice"] = <<>>
    /\ Corrects("Alice")

\* Without Alice, Bob reads what she sent before; the masked messages only if she was done.
AliceOver ==
  at["Alice"] = "over" =>
    /\ at["Bob"] \in {"read", "commit"} => inbox["Bob"] = <<>>
    /\ at["Bob"] = "indices" => inbox["Bob"] \in {<<>>, <<"indices">>}
    /\ at["Bob"] = "qber" => \/ inbox["Bob"] \in {<<>>, <<"qber">>}
                             \/ inbox["Bob"] = <<"qber", "theta1">> /\ result["Alice"] = "killed"
    /\ at["Bob"] = "theta1" => \/ inbox["Bob"] = <<>>
                               \/ inbox["Bob"] = <<"theta1">> /\ result["Alice"] = "killed"
    /\ at["Bob"] = "syndromes" =>
         \/ inbox["Bob"] = <<>> /\ result["Alice"] \in {"killed", "short", "exit"}
         \/ inbox["Bob"] = <<"syndromes", "X">> /\ result["Alice"] = "killed"
         \/ inbox["Bob"] = <<"syndromes", "X", "cipher">> /\ result["Alice"] = "done"
    /\ at["Bob"] = "X" =>
         \/ inbox["Bob"] = <<"X">> /\ result["Alice"] = "killed"
         \/ inbox["Bob"] = <<"X", "cipher">> /\ result["Alice"] = "done"
    /\ at["Bob"] = "cipher" =>
         \/ inbox["Bob"] = <<>> /\ result["Alice"] = "killed"
         \/ inbox["Bob"] = <<"cipher">> /\ result["Alice"] = "done"
    /\ result["Alice"] = "done" => Corrects("Alice")
    /\ result["Alice"] \in {"done", "short", "exit"} =>
         at["Bob"] \in {"syndromes", "X", "cipher", "over"}

BobPlaces ==
  /\ at["Alice"] \in {"read", "coms", "openings", "I", "encrypt", "over"}
  /\ at["Bob"] \in Early \cup {"syndromes", "X", "cipher", "over"}
  /\ at["Bob"] \in {"X", "cipher"} => Corrects("Bob")

Flow == Commits /\ Opens /\ AwaitsI /\ Encrypts /\ AliceOver /\ BobPlaces

\* Why a side gave up, and with whom.
StopCause ==
  \A p \in Side :
    /\ result[p] = "exit" => qber = "zero"
    /\ result[p] = "short" => qber # "zero" /\ TooShort(p)

Stopped == StopCause /\ StopsAgree

\* What each side has counted once it has.
AliceCounts ==
  leak["Alice"] = CommonBlocks /\ bits["Alice"] = Blocks(choice, "Alice") * EccBlock("Alice")
BobCounts == leak["Bob"] = Decoded /\ bits["Bob"] = Decoded * EccBlock("Bob")

Counted ==
  /\ at["Bob"] \in Early => bits = [p \in Side |-> 0]
  /\ at["Alice"] = "encrypt" \/ result["Alice"] = "done" => AliceCounts
  /\ at["Bob"] = "cipher" => BobCounts

\* From which keys Bob decrypted, and how he left then.
Decrypted ==
  got # "nothing" =>
    /\ at["Bob"] = "over" /\ result["Alice"] = "done"
    /\ AliceCounts /\ BobCounts
    /\ SameKey => got = "message"
    /\ Compared => result["Bob"] = "done"

OTInv == TypeOK /\ Linked /\ Flow /\ Stopped /\ Counted /\ Decrypted /\ TransferCompletes

-----------------------------------------------------------------------------
(* Facts about the data and about boxes of at most three messages.         *)

LEMMA ShortBoxes ==
  ASSUME NEW S, NEW a \in S, NEW b \in S
  PROVE  /\ Append(<<>>, a) = <<a>> /\ <<>> \o <<a>> = <<a>> /\ <<>> \o <<a, b>> = <<a, b>>
         /\ <<a>> \o <<b>> = <<a, b>>
         /\ Tail(<<a>>) = <<>> /\ Tail(<<a, b>>) = <<b>>
         /\ <<a>> # <<>>
  <1>0. <<>> \in Seq(S) /\ <<a>> \in Seq(S) /\ <<b>> \in Seq(S) /\ <<a, b>> \in Seq(S)
    OBVIOUS
  <1>1. Append(<<>>, a) = <<a>> /\ <<>> \o <<a>> = <<a>> /\ <<>> \o <<a, b>> = <<a, b>>
    BY <1>0, ConcatEmptySeq
  <1>2. <<a>> \o <<b>> = <<a, b>>
    <2>1. <<a>> \o <<b>> \in Seq(S) /\ Len(<<a>> \o <<b>>) = 2
      BY <1>0
    <2>2. \A i \in 1..2 : (<<a>> \o <<b>>)[i] = <<a, b>>[i]
      BY <1>0
    <2> QED
      BY <1>0, <2>1, <2>2, SeqEqual
  <1>3. Tail(<<a>>) = <<>>
    OBVIOUS
  <1>4. Tail(<<a, b>>) = <<b>>
    OBVIOUS
  <1>5. <<a>> # <<>>
    OBVIOUS
  <1> QED
    BY <1>1, <1>2, <1>3, <1>4, <1>5

LEMMA LongBoxes ==
  ASSUME NEW S, NEW a \in S, NEW b \in S, NEW c \in S
  PROVE  <<a, b>> \o <<c>> = <<a, b, c>> /\ Tail(<<a, b, c>>) = <<b, c>>
  <1>0. /\ <<c>> \in Seq(S) /\ <<a, b>> \in Seq(S)
        /\ <<b, c>> \in Seq(S) /\ <<a, b, c>> \in Seq(S)
    OBVIOUS
  <1>1. <<a, b>> \o <<c>> = <<a, b, c>>
    <2>1. <<a, b>> \o <<c>> \in Seq(S) /\ Len(<<a, b>> \o <<c>>) = 3
      BY <1>0
    <2>2. \A i \in 1..3 : (<<a, b>> \o <<c>>)[i] = <<a, b, c>>[i]
      BY <1>0
    <2> QED
      BY <1>0, <2>1, <2>2, SeqEqual
  <1>2. Tail(<<a, b, c>>) = <<b, c>>
    <2>1. Tail(<<a, b, c>>) \in Seq(S) /\ Len(Tail(<<a, b, c>>)) = 2
      BY <1>0
    <2>2. \A i \in 1..2 : Tail(<<a, b, c>>)[i] = <<b, c>>[i]
      BY <1>0
    <2> QED
      BY <1>0, <2>1, <2>2, SeqEqual
  <1> QED
    BY <1>1, <1>2

LEMMA Messages ==
  /\ \A m \in ToAlice \cup ToBob :
       Append(<<>>, m) = <<m>> /\ <<>> \o <<m>> = <<m>> /\ Tail(<<m>>) = <<>> /\ <<m>> # <<>>
  /\ <<>> \o <<"qber", "theta1">> = <<"qber", "theta1">>
  /\ <<>> \o <<"syndromes", "X">> = <<"syndromes", "X">>
  /\ <<"syndromes", "X">> \o <<"cipher">> = <<"syndromes", "X", "cipher">>
  /\ <<"X">> \o <<"cipher">> = <<"X", "cipher">>
  /\ Tail(<<"qber", "theta1">>) = <<"theta1">>
  /\ Tail(<<"syndromes", "X">>) = <<"X">>
  /\ Tail(<<"syndromes", "X", "cipher">>) = <<"X", "cipher">>
  /\ Tail(<<"X", "cipher">>) = <<"cipher">>
  /\ {"coms", "openings", "I", "indices", "qber", "theta1", "syndromes", "X", "cipher"}
       \subseteq ToAlice \cup ToBob
  <1> DEFINE Msg == ToAlice \cup ToBob
  <1>1. /\ {"coms", "openings", "I", "indices", "qber", "theta1", "syndromes"} \subseteq Msg
        /\ "X" \in Msg /\ "cipher" \in Msg
    BY DEF ToAlice, ToBob
  <1> HIDE DEF Msg
  <1>2. \A m \in Msg :
          Append(<<>>, m) = <<m>> /\ <<>> \o <<m>> = <<m>> /\ Tail(<<m>>) = <<>> /\ <<m>> # <<>>
    BY ShortBoxes
  <1>3. ASSUME NEW a \in Msg, NEW b \in Msg
        PROVE  /\ <<>> \o <<a, b>> = <<a, b>> /\ <<a>> \o <<b>> = <<a, b>>
               /\ Tail(<<a, b>>) = <<b>>
    BY ShortBoxes
  <1>4. ASSUME NEW a \in Msg, NEW b \in Msg, NEW c \in Msg
        PROVE  <<a, b>> \o <<c>> = <<a, b, c>> /\ Tail(<<a, b, c>>) = <<b, c>>
    BY LongBoxes
  <1>5. /\ <<>> \o <<"qber", "theta1">> = <<"qber", "theta1">>
        /\ <<>> \o <<"syndromes", "X">> = <<"syndromes", "X">>
        /\ <<"X">> \o <<"cipher">> = <<"X", "cipher">>
        /\ Tail(<<"qber", "theta1">>) = <<"theta1">>
        /\ Tail(<<"syndromes", "X">>) = <<"X">>
        /\ Tail(<<"X", "cipher">>) = <<"cipher">>
    BY <1>1, <1>3
  <1>6. /\ <<"syndromes", "X">> \o <<"cipher">> = <<"syndromes", "X", "cipher">>
        /\ Tail(<<"syndromes", "X", "cipher">>) = <<"X", "cipher">>
    BY <1>1, <1>4
  <1> QED
    BY <1>1, <1>2, <1>5, <1>6 DEF Msg

LEMMA SameData ==
  ASSUME UNCHANGED <<large, dataVars>>
  PROVE  /\ \A p : Corrects(p)' = Corrects(p) /\ TooShort(p)' = TooShort(p)
                   /\ EccBlock(p)' = EccBlock(p)
         /\ \A c, p : Blocks(c, p)' = Blocks(c, p)
         /\ CommonBlocks' = CommonBlocks /\ Decoded' = Decoded
         /\ \A c : X(c)' = X(c)
  BY DEF dataVars, Corrects, TooShort, Shorter, EccBlock, Blocks, CommonBlocks, Decoded,
    Syndromes, X

LEMMA Sizes ==
  ASSUME TypeOK, NEW p
  PROVE  /\ EccBlock(p) \in Nat \ {0}
         /\ \A c \in Choice : X(c) \in 0..Remaining /\ Blocks(c, p) \in Nat
                              /\ Blocks(c, p) <= X(c) /\ Blocks(c, p) * EccBlock(p) \in 0..X(c)
         /\ Shorter \in Nat
  <1>1. EccBlock(p) \in Nat \ {0}
    BY SizesAssumption DEF EccBlock
  <1>2. \A c : X(c) \in 0..Remaining
    BY SizesAssumption DEF TypeOK, X
  <1>3. \A x \in Nat, b \in Nat \ {0} :
          (x \div b) \in Nat /\ (x \div b) <= x /\ (x \div b) * b \in 0..x
    OBVIOUS
  <1>4. Remaining \in Nat
    BY SizesAssumption
  <1>5. \A c \in Choice : Blocks(c, p) \in Nat
                          /\ Blocks(c, p) <= X(c) /\ Blocks(c, p) * EccBlock(p) \in 0..X(c)
    BY <1>1, <1>2, <1>3, <1>4 DEF Blocks
  <1>6. Shorter \in Nat
    BY <1>2, <1>4 DEF Shorter, Least
  <1> QED
    BY <1>1, <1>2, <1>5, <1>6

\* Both sides decide alike whether the strings are long enough: the codes of one range are
\* exchanged only where there is room for either.
LEMMA SameDecision ==
  ASSUME TypeOK
  PROVE  (TooShort("Alice") <=> TooShort("Bob")) /\ (Corrects("Alice") <=> Corrects("Bob"))
  <1>1. Shorter \in Nat /\ {Small, Mid, Large} \subseteq Nat \ {0}
    BY Sizes, SizesAssumption
  <1> QED
    BY <1>1, CodesAssumption DEF TooShort, Corrects, EccBlock

LEMMA Scaled ==
  ASSUME NEW d \in Nat, NEW q \in Nat, NEW b \in Nat, d <= q
  PROVE  d * b <= q * b /\ d * b \in Nat
  <1>1. PICK e \in Nat : q = d + e
    <2> q - d \in Nat /\ q = d + (q - d)
      OBVIOUS
    <2> QED OBVIOUS
  <1>2. q * b = d * b + e * b /\ e * b \in Nat /\ d * b \in Nat
    BY <1>1
  <1> QED
    BY <1>2

LEMMA DecodedSize ==
  ASSUME TypeOK
  PROVE  Decoded \in 0..Remaining /\ Decoded * EccBlock("Bob") \in 0..X(choice)
  <1> DEFINE b == EccBlock("Bob") q == Blocks(choice, "Bob") x == X(choice)
  <1>1. b \in Nat \ {0} /\ q \in Nat /\ q <= x /\ q * b \in 0..x /\ x \in 0..Remaining
    BY Sizes DEF TypeOK
  <1>2. Syndromes(choice) \in Nat
    BY Sizes DEF Syndromes, CommonBlocks, Least, Choice
  <1>3. Decoded \in Nat /\ Decoded <= q
    BY <1>1, <1>2 DEF Decoded, Least
  <1>4. Remaining \in Nat
    BY SizesAssumption
  <1> HIDE DEF b, q, x
  <1>5. Decoded * b <= q * b /\ Decoded * b \in Nat
    BY <1>1, <1>3, Scaled
  <1>6. Decoded * b \in 0..x /\ Decoded \in 0..Remaining
    BY <1>1, <1>3, <1>4, <1>5
  <1> QED
    BY <1>6 DEF b, x

-----------------------------------------------------------------------------
(* Type correctness of every action.                                       *)

Places == {"read", "commit", "encrypt", "over"} \cup ToAlice \cup ToBob
Results == {"running", "done", "none", "short", "raised", "exit", "killed"}
Control == at' \in [Side -> Places] /\ result' \in [Side -> Results]
BoxType == [Side -> Seq(ToAlice \cup ToBob)]

LEMMA LeaveTyped ==
  ASSUME TypeOK, NEW p \in Side, NEW r \in Results, Leave(p, r)
  PROVE  Control
  BY DEF TypeOK, Leave, Control, Places, Results

LEMMA GotoTyped ==
  ASSUME TypeOK, NEW p \in Side, NEW l \in Places, Goto(p, l)
  PROVE  Control
  BY DEF TypeOK, Goto, Control, Places, Results

LEMMA ReceivedTyped ==
  ASSUME TypeOK, NEW p \in Side, NEW m, Receives(p, m)
  PROVE  Received(p) \in BoxType
  <1> DEFINE Msg == ToAlice \cup ToBob
  <1>1. inbox \in [Side -> Seq(Msg)] /\ inbox[p] # <<>>
    BY DEF TypeOK, Receives
  <1> HIDE DEF Msg
  <1>2. Received(p) \in [Side -> Seq(Msg)]
    BY <1>1, HeadTailProperties DEF Received
  <1> QED
    BY <1>2 DEF Msg, BoxType

LEMMA SentTyped ==
  ASSUME NEW p \in Side, NEW box \in BoxType, NEW ms \in Seq(ToAlice \cup ToBob),
         inbox' = box \/ inbox' = [box EXCEPT ![Other(p)] = @ \o ms]
  PROVE  inbox' \in BoxType
  <1> DEFINE Msg == ToAlice \cup ToBob
  <1>1. Other(p) \in Side /\ box \in [Side -> Seq(Msg)] /\ ms \in Seq(Msg)
    BY DEF Other, Side, BoxType
  <1> HIDE DEF Msg
  <1>2. [box EXCEPT ![Other(p)] = @ \o ms] \in [Side -> Seq(Msg)]
    BY <1>1, ConcatProperties
  <1>3. inbox' \in [Side -> Seq(Msg)]
    BY <1>1, <1>2
  <1> QED
    BY <1>3 DEF Msg, BoxType

\* An action that leaves the data and the counts alone.
LEMMA DataTyped ==
  ASSUME TypeOK, UNCHANGED <<large, dataVars, leak, exact, bits>>, Control, inbox' \in BoxType,
         data' \in [Side -> {"unread", "empty", "part", "full"}],
         got' \in {"nothing", "message", "noise"}
  PROVE  TypeOK'
  <1>1. X(choice)' = X(choice)
    BY DEF X, dataVars
  <1>2. bits' \in [Side -> 0..X(choice)']
    BY <1>1 DEF TypeOK
  <1> QED
    BY <1>2 DEF TypeOK, dataVars, Control, Places, Results, BoxType

LEMMA TypedNext ==
  ASSUME TypeOK, at["Bob"] \in Early => bits = [p \in Side |-> 0], [Next]_vars
  PROVE  TypeOK'
  <1>s. "Alice" \in Side /\ "Bob" \in Side
    BY DEF Side
  <1>p. /\ {"commit", "encrypt", "coms", "openings", "I", "indices"} \subseteq Places
        /\ {"qber", "theta1", "syndromes", "X", "cipher"} \subseteq Places
    BY Messages DEF Places
  <1>i. /\ inbox \in BoxType /\ data \in [Side -> {"unread", "empty", "part", "full"}]
        /\ got \in {"nothing", "message", "noise"}
    BY DEF TypeOK, BoxType
  <1>m. /\ <<"coms">> \in Seq(ToAlice \cup ToBob) /\ <<"openings">> \in Seq(ToAlice \cup ToBob)
        /\ <<"I">> \in Seq(ToAlice \cup ToBob) /\ <<"qber">> \in Seq(ToAlice \cup ToBob)
        /\ <<"cipher">> \in Seq(ToAlice \cup ToBob)
        /\ <<"qber", "theta1">> \in Seq(ToAlice \cup ToBob)
        /\ <<"syndromes", "X">> \in Seq(ToAlice \cup ToBob)
    BY DEF ToAlice, ToBob
  <1>v. {"done", "none", "short", "raised", "exit", "killed"} \subseteq Results
    BY DEF Results
  <1>l. ASSUME NEW p \in Side, NEW r \in {"done", "none", "short", "raised", "exit", "killed"},
               Leave(p, r)
        PROVE  Control
    BY <1>l, <1>v, LeaveTyped
  <1>g. ASSUME NEW p \in Side, NEW l \in Places, Goto(p, l) PROVE Control
    BY <1>g, GotoTyped
  <1>1. ASSUME NEW p \in Side, Read(p) PROVE TypeOK'
    <2>1. Control
      BY <1>1, <1>l, <1>g, <1>p DEF Read
    <2>2. data' \in [Side -> {"unread", "empty", "part", "full"}]
      BY <1>1, <1>i DEF Read
    <2> QED
      BY <1>1, <1>i, <2>1, <2>2, DataTyped DEF Read, keyVars
  <1>2. CASE StopFails
    BY <1>2, <1>i, <1>l, <1>s, DataTyped DEF StopFails, keyVars
  <1>3. CASE Commit
    <2>1. Control
      BY <1>3, <1>l, <1>g, <1>s, <1>p DEF Commit, Send
    <2>2. inbox' \in BoxType
      BY <1>3, <1>i, <1>s, <1>m, SentTyped DEF Commit, Send
    <2> QED
      BY <1>3, <1>i, <2>1, <2>2, DataTyped DEF Commit, keyVars
  <1>4. CASE AskOpening
    <2>1. Control
      BY <1>4, <1>l, <1>g, <1>s, <1>p DEF AskOpening
    <2>2. Received("Alice") \in BoxType
      BY <1>4, <1>s, ReceivedTyped DEF AskOpening
    <2>3. inbox' \in BoxType
      <3> DEFINE Msg == ToAlice \cup ToBob
      <3>1. "indices" \in Msg
        BY Messages
      <3>2. Received("Alice") \in [Side -> Seq(Msg)]
        BY <2>2 DEF BoxType
      <3> HIDE DEF Msg
      <3>3. [Received("Alice") EXCEPT !["Bob"] = Append(@, "indices")] \in [Side -> Seq(Msg)]
        BY <1>s, <3>1, <3>2, AppendProperties
      <3>4. inbox' \in [Side -> Seq(Msg)]
        BY <1>4, <3>2, <3>3 DEF AskOpening
      <3> QED
        BY <3>4 DEF Msg, BoxType
    <2> QED
      BY <1>4, <1>i, <2>1, <2>3, DataTyped DEF AskOpening, keyVars
  <1>5. CASE Open
    <2>1. Control
      BY <1>5, <1>l, <1>g, <1>s, <1>p DEF Open, Send
    <2>2. Received("Bob") \in BoxType
      BY <1>5, <1>s, ReceivedTyped DEF Open
    <2>3. inbox' \in BoxType
      BY <1>5, <1>s, <1>m, <2>2, SentTyped DEF Open, Send
    <2> QED
      BY <1>5, <1>i, <2>1, <2>3, DataTyped DEF Open, keyVars
  <1>6. CASE Estimate
    <2>1. Control
      BY <1>6, <1>l, <1>g, <1>s, <1>p DEF Estimate, LengthsDiffer, LengthsFit, Send
    <2>2. Received("Alice") \in BoxType
      BY <1>6, <1>s, ReceivedTyped DEF Estimate
    <2>3. inbox' \in BoxType
      BY <1>6, <1>s, <1>m, <2>2, SentTyped
      DEF Estimate, LengthsDiffer, LengthsFit, Send
    <2>4. qber' \in QberRange
      BY <1>6 DEF Estimate, LengthsDiffer, LengthsFit, TypeOK
    <2>5. UNCHANGED <<data, large, choice, matched, leak, exact, bits, got>>
      BY <1>6 DEF Estimate, keyVars
    <2>6. X(choice)' = X(choice)
      BY <2>5 DEF X
    <2>7. bits' \in [Side -> 0..X(choice)']
      BY <2>5, <2>6 DEF TypeOK
    <2> QED
      BY <2>1, <2>3, <2>4, <2>5, <2>7 DEF TypeOK, Control, Places, Results, BoxType
  <1>7. CASE ReceiveQber
    <2>1. Control /\ inbox' \in BoxType
      BY <1>7, <1>g, <1>s, <1>p, ReceivedTyped DEF ReceiveQber
    <2> QED
      BY <1>7, <1>i, <2>1, DataTyped DEF ReceiveQber, keyVars
  <1>8. CASE Reconcile
    <2>1. Control
      BY <1>8, <1>l, <1>g, <1>s, <1>p DEF Reconcile, Send
    <2>2. Received("Bob") \in BoxType
      BY <1>8, <1>s, ReceivedTyped DEF Reconcile
    <2>3. inbox' \in BoxType
      BY <1>8, <1>s, <1>m, <2>2, SentTyped DEF Reconcile, Send
    <2>4. choice' \in Choice /\ matched' \in 0..Remaining
      BY <1>8 DEF Reconcile, TypeOK
    <2>5. UNCHANGED <<data, large, qber, leak, exact, bits, got>>
      BY <1>8 DEF Reconcile, keyVars
    <2>6. bits = [p \in Side |-> 0]
      BY <1>8 DEF Reconcile, Receives, Early
    <2>7. X(choice)' \in Nat
      BY <2>4, SizesAssumption DEF X
    <2>8. bits' \in [Side -> 0..X(choice)']
      BY <2>5, <2>6, <2>7
    <2> QED
      BY <2>1, <2>3, <2>4, <2>5, <2>8 DEF TypeOK, Control, Places, Results, BoxType
  <1>9. CASE BobStops
    BY <1>9, <1>i, <1>l, <1>s, DataTyped DEF BobStops, Stops, keyVars
  <1>10. ASSUME NEW p \in Side, EndOfStream(p) PROVE TypeOK'
    <2>1. Control
      BY <1>10, <1>l DEF EndOfStream
    <2> QED
      BY <1>10, <1>i, <2>1, DataTyped DEF EndOfStream, keyVars
  <1>11. CASE Theta1Timeout
    BY <1>11, <1>i, <1>l, <1>s, DataTyped DEF Theta1Timeout, keyVars
  <1>12. CASE SendSyndromes
    <2>1. Control
      BY <1>12, <1>l, <1>g, <1>s, <1>p DEF SendSyndromes, Send, Stops
    <2>2. Received("Alice") \in BoxType
      BY <1>12, <1>s, ReceivedTyped DEF SendSyndromes
    <2>3. inbox' \in BoxType
      BY <1>12, <1>s, <1>m, <2>2, SentTyped DEF SendSyndromes, Send
    <2>4. CommonBlocks \in 0..Remaining
      BY Sizes, SizesAssumption DEF CommonBlocks, Least, Choice
    <2>5. Blocks(choice, "Alice") * EccBlock("Alice") \in 0..X(choice)
      BY Sizes DEF TypeOK
    <2>6. UNCHANGED <<data, large, dataVars, exact, got>>
      BY <1>12 DEF SendSyndromes, keyVars
    <2>7. leak' \in [Side -> 0..Remaining] /\ bits' \in [Side -> 0..X(choice)]
      <3>1. \/ UNCHANGED <<leak, bits>>
            \/ /\ leak' = [leak EXCEPT !["Alice"] = CommonBlocks]
               /\ bits' = [bits EXCEPT !["Alice"] = Blocks(choice, "Alice") * EccBlock("Alice")]
        BY <1>12 DEF SendSyndromes, keyVars
      <3>2. leak \in [Side -> 0..Remaining] /\ bits \in [Side -> 0..X(choice)]
        BY DEF TypeOK
      <3> QED
        BY <1>s, <2>4, <2>5, <3>1, <3>2
    <2>8. X(choice)' = X(choice)
      BY <2>6 DEF X, dataVars
    <2> QED
      BY <2>1, <2>3, <2>6, <2>7, <2>8 DEF TypeOK, Control, Places, Results, BoxType, dataVars
  <1>13. CASE Encrypt
    <2>1. Control
      BY <1>13, <1>l, <1>s DEF Encrypt, Send
    <2>2. inbox' \in BoxType
      BY <1>13, <1>i, <1>s, <1>m, SentTyped DEF Encrypt, Send
    <2> QED
      BY <1>13, <1>i, <2>1, <2>2, DataTyped DEF Encrypt, keyVars
  <1>14. CASE ReceiveSyndromes
    <2>1. Control /\ inbox' \in BoxType
      BY <1>14, <1>g, <1>s, <1>p, ReceivedTyped DEF ReceiveSyndromes
    <2> QED
      BY <1>14, <1>i, <2>1, DataTyped DEF ReceiveSyndromes, keyVars
  <1>15. CASE Decode
    <2>1. Control /\ inbox' \in BoxType
      BY <1>15, <1>g, <1>s, <1>p, ReceivedTyped DEF Decode
    <2>2. Decoded \in 0..Remaining /\ Decoded * EccBlock("Bob") \in 0..X(choice)
      BY DecodedSize
    <2>3. UNCHANGED <<data, large, dataVars, got>> /\ exact' \in BOOLEAN
      BY <1>15 DEF Decode
    <2>4. leak' \in [Side -> 0..Remaining] /\ bits' \in [Side -> 0..X(choice)]
      BY <1>15, <1>s, <2>2 DEF Decode, TypeOK
    <2>5. X(choice)' = X(choice)
      BY <2>3 DEF X, dataVars
    <2> QED
      BY <2>1, <2>3, <2>4, <2>5 DEF TypeOK, Control, Places, Results, BoxType, dataVars
  <1>16. CASE Decrypt
    <2>1. Control /\ inbox' \in BoxType
      BY <1>16, <1>l, <1>s, ReceivedTyped DEF Decrypt
    <2>2. got' \in {"nothing", "message", "noise"}
      BY <1>16 DEF Decrypt
    <2> QED
      BY <1>16, <1>i, <2>1, <2>2, DataTyped DEF Decrypt
  <1>17. ASSUME NEW p \in Side, Kill(p) PROVE TypeOK'
    BY <1>17, <1>i, <1>l, DataTyped DEF Kill, keyVars
  <1>18. CASE UNCHANGED vars
    BY <1>18 DEF vars, dataVars, keyVars, TypeOK, X
  <1> QED
    BY <1>s, <1>1, <1>2, <1>3, <1>4, <1>5, <1>6, <1>7, <1>8, <1>9, <1>10, <1>11, <1>12, <1>13,
      <1>14, <1>15, <1>16, <1>17, <1>18
    DEF Next, AliceStep, BobStep

-----------------------------------------------------------------------------
(* The other parts of the invariant, one lemma per action.                 *)

\* The invariant without the types.
Order == Linked /\ Flow /\ Stopped /\ Counted /\ Decrypted /\ TransferCompletes

LEMMA SameKeys ==
  ASSUME UNCHANGED <<large, dataVars>>, UNCHANGED <<leak, exact, bits, got>>
  PROVE  /\ AliceCounts' = AliceCounts /\ BobCounts' = BobCounts
         /\ SameKey' = SameKey /\ Compared' = Compared
  BY SameData DEF AliceCounts, BobCounts, SameKey, Compared, dataVars, Extracted, Least

LEMMA ReadOrder == ASSUME TypeOK, Order, NEW p \in Side, Read(p) PROVE Order'
  <1> UNCHANGED <<large, dataVars>> /\ UNCHANGED <<leak, exact, bits, got>>
    BY DEF Read, keyVars
  <1>1. Linked'
    BY DEF TypeOK, Order, Linked, Read, Leave, Goto, Side
  <1>2. Flow'
    BY DEF TypeOK, Order, Linked, Flow, Commits, Opens, AwaitsI, Encrypts, AliceOver, BobPlaces,
      Early, Read, Leave, Goto, Side
  <1>3. Stopped'
    BY DEF TypeOK, Order, Linked, Flow, Commits, AliceOver, Stopped, StopCause, StopsAgree, Read,
      Leave, Goto, Side
  <1>4. (Counted /\ Decrypted)'
    BY SameKeys DEF TypeOK, Order, Linked, Early, Counted, Decrypted, Read, Leave, Goto, Side
  <1>5. TransferCompletes'
    BY DEF TypeOK, Order, Linked, Flow, AliceOver, TransferCompletes, Read, Leave, Goto, Side
  <1> QED
    BY <1>1, <1>2, <1>3, <1>4, <1>5 DEF Order

LEMMA StopFailsOrder == ASSUME TypeOK, Order, StopFails PROVE Order'
  <1> UNCHANGED <<large, dataVars>> /\ UNCHANGED <<leak, exact, bits, got>>
    BY DEF StopFails, keyVars
  <1>1. Linked'
    BY DEF TypeOK, Order, Linked, StopFails, Leave, Goto, Side
  <1>2. Flow'
    BY DEF Order, Linked, Flow, Commits, Opens, AwaitsI, Encrypts, AliceOver, BobPlaces,
      StopFails, Leave, Side
  <1>3. Stopped'
    BY DEF Order, Linked, Flow, Commits, Stopped, StopCause, StopsAgree, StopFails, Leave, Side
  <1>4. (Counted /\ Decrypted)'
    BY SameKeys DEF TypeOK, Order, Linked, Early, Counted, Decrypted, StopFails, Leave
  <1>5. TransferCompletes'
    BY DEF Order, TransferCompletes, Over, StopFails, Leave, Running
  <1> QED
    BY <1>1, <1>2, <1>3, <1>4, <1>5 DEF Order

LEMMA CommitOrder == ASSUME TypeOK, Order, Commit PROVE Order'
  <1> UNCHANGED <<large, dataVars>> /\ UNCHANGED <<leak, exact, bits, got>>
    BY DEF Commit, keyVars
  <1>1. Linked'
    BY DEF TypeOK, Order, Linked, Commit, Send, Leave, Goto
  <1>a. /\ at["Bob"] = "commit" /\ inbox["Bob"] = <<>> /\ result["Bob"] = "running"
        /\ at["Alice"] \in {"read", "coms", "over"}
        /\ at["Alice"] \in {"read", "coms"} => inbox["Alice"] = <<>> /\ result["Alice"] = "running"
    BY DEF Order, Linked, Flow, Commits, Opens, AwaitsI, Encrypts, AliceOver, BobPlaces, Commit,
      Side
  <1>b. /\ at'["Alice"] = at["Alice"] /\ result'["Alice"] = result["Alice"]
        /\ inbox'["Bob"] = <<>>
        /\ \/ at'["Bob"] = "indices" /\ result'["Bob"] = "running"
           \/ at'["Bob"] = "over" /\ result'["Bob"] = "raised" /\ at["Alice"] = "over"
        /\ at["Alice"] \in {"read", "coms"} => inbox'["Alice"] = <<"coms">>
    BY <1>a DEF TypeOK, Commit, Send, Leave, Goto, Running, Other, Side
  <1>2. Flow'
    BY <1>a, <1>b, Messages
    DEF Order, Flow, Commits, Opens, AwaitsI, Encrypts, AliceOver, BobPlaces, Early
  <1>3. Stopped'
    BY DEF TypeOK, Order, Linked, Flow, AliceOver, Stopped, StopCause, StopsAgree, Commit, Send,
      Leave, Goto, Side
  <1>4. (Counted /\ Decrypted)'
    BY DEF TypeOK, Order, Linked, Flow, Encrypts, AliceOver, Early, Counted, Decrypted, Commit,
      Send, Leave, Goto, Side
  <1>5. TransferCompletes'
    BY DEF TypeOK, Order, Linked, Flow, AliceOver, TransferCompletes, Commit, Send, Leave, Goto,
      Side
  <1> QED
    BY <1>1, <1>2, <1>3, <1>4, <1>5 DEF Order

LEMMA AskOpeningOrder == ASSUME TypeOK, Order, AskOpening PROVE Order'
  <1> UNCHANGED <<large, dataVars>> /\ UNCHANGED <<leak, exact, bits, got>>
    BY DEF AskOpening, keyVars
  <1>1. Linked'
    BY DEF TypeOK, Order, Linked, AskOpening, Receives, Leave, Goto
  <1>2. Flow'
    BY DEF TypeOK, Order, Linked, Flow, Commits, Opens, AwaitsI, Encrypts, AliceOver, BobPlaces,
      AskOpening, Running, Receives, Received, Leave, Goto, Side
  <1>3. Stopped'
    BY DEF TypeOK, Order, Linked, Flow, Commits, Stopped, StopCause, StopsAgree, AskOpening,
      Receives, Leave, Goto, Side
  <1>4. (Counted /\ Decrypted)'
    BY DEF TypeOK, Order, Linked, Flow, Commits, Counted, Decrypted, AskOpening, Receives, Leave,
      Goto, Side
  <1>5. TransferCompletes'
    BY DEF TypeOK, Order, TransferCompletes, Over, AskOpening, Running, Leave, Goto
  <1> QED
    BY <1>1, <1>2, <1>3, <1>4, <1>5 DEF Order

LEMMA OpenOrder == ASSUME TypeOK, Order, Open PROVE Order'
  <1> UNCHANGED <<large, dataVars>> /\ UNCHANGED <<leak, exact, bits, got>>
    BY DEF Open, keyVars
  <1>1. Linked'
    BY DEF TypeOK, Order, Linked, Open, Receives, Send, Leave, Goto
  <1>a. /\ at["Bob"] = "indices" /\ inbox["Bob"] = <<"indices">> /\ result["Bob"] = "running"
        /\ at["Alice"] \in {"openings", "over"}
        /\ at["Alice"] = "openings" => inbox["Alice"] = <<>> /\ result["Alice"] = "running"
    BY DEF Order, Linked, Flow, Commits, Opens, AwaitsI, Encrypts, AliceOver, BobPlaces, Open,
      Receives, Side
  <1>b. /\ at'["Alice"] = at["Alice"] /\ result'["Alice"] = result["Alice"]
        /\ inbox'["Bob"] = <<>>
        /\ \/ at'["Bob"] = "qber" /\ result'["Bob"] = "running"
           \/ at'["Bob"] = "over" /\ result'["Bob"] = "raised" /\ at["Alice"] = "over"
        /\ at["Alice"] = "openings" => inbox'["Alice"] = <<"openings">>
    BY <1>a DEF TypeOK, Open, Received, Send, Leave, Goto, Running, Other, Side
  <1>2. Flow'
    BY <1>a, <1>b, Messages
    DEF Order, Flow, Commits, Opens, AwaitsI, Encrypts, AliceOver, BobPlaces, Early
  <1>3. Stopped'
    BY DEF TypeOK, Order, Linked, Flow, AliceOver, Stopped, StopCause, StopsAgree, Open, Receives,
      Send, Leave, Goto, Side
  <1>4. (Counted /\ Decrypted)'
    BY DEF TypeOK, Order, Linked, Flow, Encrypts, AliceOver, Early, Counted, Decrypted, Open,
      Receives, Send, Leave, Goto, Side
  <1>5. TransferCompletes'
    BY DEF TypeOK, Order, Linked, Flow, AliceOver, TransferCompletes, Open, Receives, Send, Leave,
      Goto, Side
  <1> QED
    BY <1>1, <1>2, <1>3, <1>4, <1>5 DEF Order

LEMMA EstimateOrder == ASSUME TypeOK, Order, Estimate PROVE Order'
  <1>d. CASE LengthsDiffer
    <2> UNCHANGED <<large, dataVars>> /\ UNCHANGED <<leak, exact, bits, got>>
      BY <1>d DEF LengthsDiffer, Estimate, keyVars, dataVars
    <2>a. /\ at["Alice"] = "openings" /\ result["Alice"] = "running"
          /\ at["Bob"] = "qber" => inbox["Bob"] = <<>>
          /\ at["Bob"] \in {"qber", "over"} /\ got = "nothing"
          /\ result["Bob"] \notin {"short", "exit", "done"}
      BY Messages DEF TypeOK, Order, Linked, Flow, Opens, Decrypted, Estimate, Receives, Side
    <2>b. /\ at'["Alice"] = "over" /\ result'["Alice"] \in {"none", "raised"}
          /\ at'["Bob"] = at["Bob"] /\ result'["Bob"] = result["Bob"]
          /\ inbox'["Bob"] = inbox["Bob"]
      BY <1>d, <2>a DEF TypeOK, LengthsDiffer, Received, Leave, Side
    <2>1. Linked'
      BY <2>a, <2>b DEF Order, Linked, Side
    <2>2. Flow'
      BY <2>a, <2>b DEF Order, Flow, Opens, Commits, AwaitsI, Encrypts, AliceOver, BobPlaces, Early
    <2>3. Stopped'
      BY <2>a, <2>b DEF Order, Stopped, StopCause, StopsAgree, Side, Other
    <2>4. (Counted /\ Decrypted)'
      BY <2>a, <2>b DEF Order, Counted, Decrypted, Early
    <2>5. TransferCompletes'
      BY <2>b DEF TransferCompletes
    <2> QED
      BY <2>1, <2>2, <2>3, <2>4, <2>5 DEF Order
  <1>f. CASE LengthsFit
    <2>1. Linked'
      BY <1>f DEF TypeOK, Order, Linked, LengthsFit, Estimate, Receives, Send, Leave, Goto
    <2>2. Flow'
      BY <1>f, Messages, SameDecision, SMTT(60)
      DEF TypeOK, Order, Linked, Flow, Commits, Opens, AwaitsI, Encrypts, AliceOver, BobPlaces,
        Early, Stopped, StopCause, LengthsFit, Estimate, Receives, Received, Send, Running, Other,
        Leave, Goto, Side
    <2>3. Stopped'
      BY <1>f
      DEF TypeOK, Order, Linked, Flow, Opens, Stopped, StopCause, StopsAgree, LengthsFit, Estimate,
        Receives, Send, Leave, Goto, Side
    <2>a. /\ at["Alice"] = "openings" /\ result["Alice"] = "running"
          /\ at["Bob"] \in {"indices", "qber", "over"} /\ got = "nothing"
      BY DEF Order, Linked, Flow, Opens, Decrypted, Estimate, Receives, Side
    <2>b. /\ at'["Alice"] \in {"I", "over"} /\ result'["Alice"] # "done"
          /\ at'["Bob"] = at["Bob"] /\ bits' = bits /\ got' = got
      BY <1>f, <2>a DEF TypeOK, LengthsFit, Estimate, Send, Leave, Goto, keyVars, Side
    <2>4. (Counted /\ Decrypted)'
      BY <2>a, <2>b DEF Order, Counted, Decrypted, Early
    <2>5. TransferCompletes'
      BY <2>b DEF TransferCompletes
    <2> QED
      BY <2>1, <2>2, <2>3, <2>4, <2>5 DEF Order
  <1> QED
    BY <1>d, <1>f DEF Estimate

LEMMA ReceiveQberOrder == ASSUME TypeOK, Order, ReceiveQber PROVE Order'
  <1> UNCHANGED <<large, dataVars>> /\ UNCHANGED <<leak, exact, bits, got>>
    BY DEF ReceiveQber, keyVars
  <1>1. Linked'
    BY DEF Order, Linked, ReceiveQber, Receives, Goto
  <1>2. Flow'
    BY Messages, SameDecision, SameData, SameKeys
    DEF TypeOK, Order, Linked, Flow, Commits, Opens, AwaitsI, Encrypts, AliceOver, BobPlaces,
      Early, Stopped, StopCause, ReceiveQber, Receives, Received, Leave, Goto, Side
  <1>3. Stopped'
    BY DEF Order, Linked, Flow, AliceOver, Stopped, StopCause, StopsAgree, ReceiveQber, Receives,
      Goto, Side
  <1>4. (Counted /\ Decrypted)'
    BY SameKeys DEF Order, Early, Counted, Decrypted, ReceiveQber, Receives, Goto
  <1>5. TransferCompletes'
    BY DEF Order, TransferCompletes, Over, ReceiveQber, Goto, Running
  <1> QED
    BY <1>1, <1>2, <1>3, <1>4, <1>5 DEF Order

LEMMA ReconcileOrder == ASSUME TypeOK, Order, Reconcile PROVE Order'
  <1>1. Linked'
    BY DEF TypeOK, Order, Linked, Reconcile, Receives, Send, Leave, Goto
  <1>2. Flow'
    BY Messages, SameDecision, SMTT(60)
    DEF TypeOK, Order, Linked, Flow, Commits, Opens, AwaitsI, Encrypts, AliceOver, BobPlaces,
      Early, Stopped, StopCause, Reconcile, Receives, Received, Send, Running, Other, Leave, Goto,
      Side
  <1>3. Stopped'
    BY DEF TypeOK, Order, Linked, Flow, AliceOver, Stopped, StopCause, StopsAgree, Reconcile,
      Receives, Send, Leave, Goto, Side
  <1>a. /\ at["Bob"] = "theta1" /\ got = "nothing" /\ result["Alice"] # "done"
        /\ at["Alice"] # "encrypt"
    BY DEF Order, Flow, Encrypts, AliceOver, Decrypted, Reconcile, Receives, Linked, Side
  <1>b. /\ at'["Alice"] = at["Alice"] /\ result'["Alice"] = result["Alice"]
        /\ at'["Bob"] \in {"syndromes", "over"} /\ got' = got
    BY <1>a DEF TypeOK, Reconcile, Send, Leave, Goto, keyVars, Side
  <1>4. (Counted /\ Decrypted)'
    BY <1>a, <1>b DEF Order, Counted, Decrypted, Early
  <1>5. TransferCompletes'
    BY DEF TypeOK, Order, Linked, Flow, AliceOver, TransferCompletes, Reconcile, Receives, Send,
      Leave, Goto, Side
  <1> QED
    BY <1>1, <1>2, <1>3, <1>4, <1>5 DEF Order

LEMMA BobStopsOrder == ASSUME TypeOK, Order, BobStops PROVE Order'
  <1> UNCHANGED <<large, dataVars>> /\ UNCHANGED <<leak, exact, bits, got>>
    BY DEF BobStops, keyVars
  <1>1. Linked'
    BY DEF TypeOK, Order, Linked, BobStops, Stops, Leave, Side
  <1>2. Flow'
    BY SameDecision
    DEF TypeOK, Order, Flow, Commits, Opens, AwaitsI, Encrypts, AliceOver, BobPlaces, BobStops,
      Stops, Corrects, Leave, Side
  <1>a. /\ at["Bob"] = "syndromes" /\ result["Bob"] = "running"
        /\ result["Alice"] \in {"running", "killed", "short", "exit", "done"}
        /\ result["Alice"] = "done" => Corrects("Alice")
    BY DEF Order, Linked, Flow, AliceOver, BobStops, TypeOK, Side
  <1>b. /\ result'["Alice"] = result["Alice"]
        /\ \/ qber = "zero" /\ result'["Bob"] = "exit"
           \/ qber # "zero" /\ TooShort("Bob") /\ result'["Bob"] = "short"
    BY <1>a DEF TypeOK, BobStops, Stops, Leave, Side
  <1>c. ~Corrects("Alice")
    BY <1>b, SameDecision DEF Corrects
  <1>3. Stopped'
    BY <1>a, <1>b, <1>c, SameData DEF Order, Stopped, StopCause, StopsAgree, Other, Side, dataVars
  <1>4. (Counted /\ Decrypted)'
    BY SameKeys DEF TypeOK, Order, Early, Counted, Decrypted, BobStops, Stops, Leave, Side
  <1>5. TransferCompletes'
    BY SameDecision
    DEF TypeOK, Order, Linked, Flow, AliceOver, TransferCompletes, BobStops, Stops, Corrects,
      Leave, Side
  <1> QED
    BY <1>1, <1>2, <1>3, <1>4, <1>5 DEF Order

LEMMA EndOfStreamOrder == ASSUME TypeOK, Order, NEW p \in Side, EndOfStream(p) PROVE Order'
  <1> UNCHANGED <<large, dataVars>> /\ UNCHANGED <<leak, exact, bits, got>>
    BY DEF EndOfStream, keyVars
  <1>0. PICK r \in {"none", "raised"} : Leave(p, r)
    BY DEF EndOfStream
  <1>a. /\ at[p] \in ToAlice \cup ToBob /\ (at[p] = "syndromes" => Corrects("Bob"))
        /\ ~Running(Other(p)) /\ (inbox[p] = <<>> \/ result[Other(p)] = "killed")
        /\ inbox' = inbox
    BY DEF EndOfStream
  <1> HIDE DEF EndOfStream
  <1>1. Linked'
    BY <1>0 DEF TypeOK, Order, Linked, Leave
  <1>2. Flow'
    BY <1>0, <1>a, SameData
    DEF Order, Linked, Flow, Commits, Opens, AwaitsI, Encrypts, AliceOver, BobPlaces,
      Running, Other, Leave, Side
  <1>3. Stopped'
    BY <1>0, <1>a, Messages, SameDecision
    DEF Order, Linked, Flow, Commits, Opens, AwaitsI, AliceOver, BobPlaces, Stopped, StopCause,
      StopsAgree, Other, ToAlice, ToBob, Corrects, Leave, Side
  <1>4. (Counted /\ Decrypted)'
    BY <1>0, <1>a, SameKeys DEF Order, Linked, Early, Counted, Decrypted, ToAlice, ToBob, Leave
  <1>5. TransferCompletes'
    BY <1>0, <1>a, Messages
    DEF Order, Linked, Flow, AliceOver, TransferCompletes, Other, ToAlice, ToBob,
      Leave, Side
  <1> QED
    BY <1>1, <1>2, <1>3, <1>4, <1>5 DEF Order

LEMMA Theta1TimeoutOrder == ASSUME TypeOK, Order, Theta1Timeout PROVE Order'
  <1> UNCHANGED <<large, dataVars>> /\ UNCHANGED <<leak, exact, bits, got>>
    BY DEF Theta1Timeout, keyVars
  <1>1. Linked'
    BY DEF TypeOK, Order, Linked, Theta1Timeout, Leave, Goto, Side
  <1>2. Flow'
    BY DEF Order, Linked, Flow, Commits, Opens, AwaitsI, Encrypts, AliceOver, BobPlaces,
      Theta1Timeout, Leave, Side
  <1>3. Stopped'
    BY DEF Order, Linked, Flow, AliceOver, Stopped, StopCause, StopsAgree, Theta1Timeout, Leave,
      Side
  <1>4. (Counted /\ Decrypted)'
    BY SameKeys DEF Order, Early, Counted, Decrypted, Theta1Timeout, Leave
  <1>5. TransferCompletes'
    BY DEF Order, Linked, Flow, AliceOver, TransferCompletes, Theta1Timeout, Leave, Side
  <1> QED
    BY <1>1, <1>2, <1>3, <1>4, <1>5 DEF Order

LEMMA SendSyndromesOrder == ASSUME TypeOK, Order, SendSyndromes PROVE Order'
  <1> UNCHANGED <<large, dataVars>>
    BY DEF SendSyndromes
  <1>1. Linked'
    BY DEF TypeOK, Order, Linked, SendSyndromes, Stops, Receives, Send, Leave, Goto
  <1>a. /\ at["Alice"] = "I" /\ inbox["Alice"] = <<"I">> /\ result["Alice"] = "running"
        /\ \/ at["Bob"] = "syndromes" /\ inbox["Bob"] = <<>> /\ result["Bob"] = "running"
           \/ at["Bob"] = "over" /\ result["Bob"] \in {"short", "exit", "killed"}
        /\ got = "nothing"
    BY DEF Order, Linked, Flow, AwaitsI, Decrypted, SendSyndromes, Receives, Side
  <1>b. /\ at'["Bob"] = at["Bob"] /\ result'["Bob"] = result["Bob"]
        /\ inbox'["Alice"] = <<>> /\ got' = got
    BY <1>a DEF TypeOK, SendSyndromes, Stops, Received, Send, Leave, Goto, keyVars, Side
  <1>c. \/ Stops("Alice") /\ inbox'["Bob"] = inbox["Bob"] /\ UNCHANGED <<leak, bits>>
        \/ /\ Corrects("Alice")
           /\ leak' = [leak EXCEPT !["Alice"] = CommonBlocks]
           /\ bits' = [bits EXCEPT !["Alice"] = Blocks(choice, "Alice") * EccBlock("Alice")]
           /\ \/ /\ Goto("Alice", "encrypt")
                 /\ at["Bob"] = "syndromes" => inbox'["Bob"] = <<"syndromes", "X">>
              \/ Leave("Alice", "raised") /\ at["Bob"] = "over"
    BY <1>a, Messages, SMTT(60)
    DEF TypeOK, SendSyndromes, Received, Send, Running, Other, keyVars, Side
  <1>d. \/ /\ at'["Alice"] = "over" /\ inbox'["Bob"] = inbox["Bob"]
           /\ \/ qber = "zero" /\ result'["Alice"] = "exit"
              \/ qber # "zero" /\ TooShort("Alice") /\ result'["Alice"] = "short"
           /\ ~Corrects("Alice") /\ UNCHANGED <<leak, bits>>
        \/ /\ Corrects("Alice") /\ AliceCounts'
           /\ \/ /\ at'["Alice"] = "encrypt" /\ result'["Alice"] = "running"
                 /\ at["Bob"] = "syndromes" => inbox'["Bob"] = <<"syndromes", "X">>
              \/ at'["Alice"] = "over" /\ result'["Alice"] = "raised" /\ at["Bob"] = "over"
    BY <1>a, <1>c, SameData DEF TypeOK, Stops, Corrects, Leave, Goto, AliceCounts, Side, dataVars
  <1>e. result["Bob"] \in {"short", "exit"} => ~Corrects("Alice")
    BY SameDecision DEF Order, Stopped, StopCause, Corrects, Side
  <1>2. Flow'
    BY <1>a, <1>b, <1>d, <1>e, SameData
    DEF Flow, Commits, Opens, AwaitsI, Encrypts, AliceOver, BobPlaces
  <1>3. Stopped'
    <2>1. StopCause'
      BY <1>b, <1>d, SameData DEF Order, Stopped, StopCause, Side, dataVars
    <2>2. result'["Alice"] \in {"short", "exit"} => result'["Bob"] \in {"running", "killed", result'["Alice"]}
      BY <1>a, <1>b, <1>d, SameDecision DEF Order, Stopped, StopCause, Side
    <2>3. result'["Bob"] \in {"short", "exit"} => result'["Alice"] \in {"running", "killed", result'["Bob"]}
      BY <1>b, <1>d, <1>e DEF Order, Stopped, StopCause, Side
    <2> QED
      BY <2>1, <2>2, <2>3 DEF Stopped, StopsAgree, Other, Side
  <1>4. (Counted /\ Decrypted)'
    BY <1>a, <1>b, <1>d DEF Order, Counted, Decrypted, Early
  <1>5. TransferCompletes'
    BY DEF TypeOK, Order, Linked, TransferCompletes, SendSyndromes, Stops, Receives, Send, Leave,
      Goto, Side
  <1> QED
    BY <1>1, <1>2, <1>3, <1>4, <1>5 DEF Order

LEMMA EncryptOrder == ASSUME TypeOK, Order, Encrypt PROVE Order'
  <1> UNCHANGED <<large, dataVars>> /\ UNCHANGED <<leak, exact, bits, got>>
    BY DEF Encrypt, keyVars
  <1>1. Linked'
    BY DEF TypeOK, Order, Linked, Encrypt, Send, Leave, Side
  <1>a. /\ at["Alice"] = "encrypt" /\ result["Alice"] = "running" /\ Corrects("Alice")
        /\ at["Bob"] \in {"syndromes", "X", "cipher", "over"}
        /\ at["Bob"] = "syndromes" => inbox["Bob"] = <<"syndromes", "X">>
        /\ at["Bob"] = "X" => inbox["Bob"] = <<"X">>
        /\ at["Bob"] = "cipher" => inbox["Bob"] = <<>>
        /\ at["Bob"] # "over" => result["Bob"] = "running"
    BY DEF Order, Linked, Flow, Encrypts, Encrypt, Side
  <1>b. /\ at'["Alice"] = "over" /\ at'["Bob"] = at["Bob"]
        /\ result'["Alice"] \in {"done", "raised"}
        /\ at["Bob"] # "over" => /\ result'["Alice"] = "done"
                                 /\ inbox'["Bob"] = inbox["Bob"] \o <<"cipher">>
    BY <1>a DEF TypeOK, Encrypt, Send, Leave, Running, Other, Side
  <1>2. Flow'
    BY <1>a, <1>b, Messages, SameData
    DEF Order, Flow, Commits, Opens, AwaitsI, Encrypts, AliceOver, BobPlaces, Early
  <1>3. Stopped'
    BY Messages, SameDecision, SameData, SameKeys
    DEF TypeOK, Order, Linked, Flow, Commits, Opens, AwaitsI, Encrypts, AliceOver, BobPlaces,
      Early, Stopped, StopCause, StopsAgree, Encrypt, Send, Running, Other, Leave, Goto, Side
  <1>4. (Counted /\ Decrypted)'
    BY SameKeys DEF TypeOK, Order, Linked, Counted, Decrypted, Encrypt, Send, Leave, Side
  <1>5. TransferCompletes'
    BY DEF TypeOK, Order, Linked, Flow, Encrypts, TransferCompletes, Over, Encrypt, Send, Running,
      Leave, Side
  <1> QED
    BY <1>1, <1>2, <1>3, <1>4, <1>5 DEF Order

LEMMA ReceiveSyndromesOrder == ASSUME TypeOK, Order, ReceiveSyndromes PROVE Order'
  <1> UNCHANGED <<large, dataVars>> /\ UNCHANGED <<leak, exact, bits, got>>
    BY DEF ReceiveSyndromes, keyVars
  <1>1. Linked'
    BY DEF Order, Linked, ReceiveSyndromes, Receives, Goto
  <1>2. Flow'
    BY Messages, SameDecision, SameData, SameKeys
    DEF TypeOK, Order, Linked, Flow, Commits, Opens, AwaitsI, Encrypts, AliceOver, BobPlaces,
      Early, Stopped, StopCause, ReceiveSyndromes, Receives, Received, Leave, Goto, Side
  <1>3. Stopped'
    BY DEF Order, Linked, Flow, AliceOver, Stopped, StopCause, StopsAgree, ReceiveSyndromes,
      Receives, Goto, Side
  <1>4. (Counted /\ Decrypted)'
    BY SameKeys DEF Order, Early, Counted, Decrypted, ReceiveSyndromes, Receives, Goto
  <1>5. TransferCompletes'
    BY DEF Order, TransferCompletes, Over, ReceiveSyndromes, Goto, Running
  <1> QED
    BY <1>1, <1>2, <1>3, <1>4, <1>5 DEF Order

LEMMA DecodeOrder == ASSUME TypeOK, Order, Decode PROVE Order'
  <1> UNCHANGED <<large, dataVars>>
    BY DEF Decode
  <1>1. Linked'
    BY DEF Order, Linked, Decode, Receives, Goto
  <1>2. Flow'
    BY Messages, SameDecision, SameData
    DEF TypeOK, Order, Linked, Flow, Commits, Opens, AwaitsI, Encrypts, AliceOver, BobPlaces,
      Early, Stopped, StopCause, Decode, Receives, Received, Leave, Goto, Side
  <1>3. Stopped'
    BY DEF Order, Linked, Flow, AliceOver, Stopped, StopCause, StopsAgree, Decode, Receives, Goto,
      Side
  <1>a. /\ at["Bob"] = "X" /\ result["Bob"] = "running"
        /\ at["Alice"] # "encrypt" \/ AliceCounts
        /\ result["Alice"] = "done" => AliceCounts
        /\ got = "nothing"
    BY DEF Order, Linked, Counted, Decrypted, Decode, Receives, Side
  <1>b. /\ at' = [at EXCEPT !["Bob"] = "cipher"] /\ result' = result /\ got' = got
        /\ leak'["Alice"] = leak["Alice"] /\ bits'["Alice"] = bits["Alice"]
        /\ leak'["Bob"] = Decoded /\ bits'["Bob"] = Decoded * EccBlock("Bob")
    BY DEF TypeOK, Decode, Goto, Side
  <1>c. (AliceCounts' <=> AliceCounts) /\ BobCounts'
    BY <1>b, SameData DEF AliceCounts, BobCounts, dataVars
  <1>d. at'["Alice"] = at["Alice"] /\ at'["Bob"] = "cipher"
    BY <1>b DEF TypeOK, Side
  <1>4. (Counted /\ Decrypted)'
    BY <1>a, <1>b, <1>c, <1>d DEF Counted, Decrypted, Early
  <1>5. TransferCompletes'
    BY DEF Order, TransferCompletes, Over, Decode, Goto, Running
  <1> QED
    BY <1>1, <1>2, <1>3, <1>4, <1>5 DEF Order

LEMMA DecryptOrder == ASSUME TypeOK, Order, Decrypt PROVE Order'
  <1> UNCHANGED <<large, dataVars>>
    BY DEF Decrypt
  <1>1. Linked'
    BY DEF TypeOK, Order, Linked, Decrypt, Leave
  <1>2. Flow'
    BY SameData
    DEF TypeOK, Order, Flow, Commits, Opens, AwaitsI, Encrypts, AliceOver, BobPlaces, Decrypt,
      Receives, Received, Leave
  <1>3. Stopped'
    BY DEF Order, Linked, Flow, AliceOver, Stopped, StopCause, StopsAgree, Decrypt, Receives,
      Leave, Side
  <1>a. /\ at["Bob"] = "cipher" /\ result["Alice"] = "done" /\ AliceCounts /\ BobCounts
    BY DEF Order, Flow, Commits, Opens, AwaitsI, Encrypts, AliceOver, BobPlaces, Counted, Decrypt,
      Receives
  <1>b. /\ at'["Bob"] = "over" /\ at'["Alice"] = at["Alice"] /\ result'["Alice"] = "done"
        /\ SameKey => got' = "message"
        /\ Compared => result'["Bob"] = "done"
        /\ UNCHANGED <<leak, exact, bits>>
    BY <1>a DEF TypeOK, Decrypt, Leave, Side
  <1>c. /\ AliceCounts' /\ BobCounts'
        /\ SameKey' = SameKey /\ Compared' = Compared
    BY <1>a, <1>b, SameData DEF AliceCounts, BobCounts, SameKey, Compared, dataVars
  <1>4. (Counted /\ Decrypted)'
    BY <1>a, <1>b, <1>c DEF Counted, Decrypted, Early
  <1>5. TransferCompletes'
    BY DEF TransferCompletes, Decrypt
  <1> QED
    BY <1>1, <1>2, <1>3, <1>4, <1>5 DEF Order

LEMMA KillOrder == ASSUME TypeOK, Order, NEW p \in Side, Kill(p) PROVE Order'
  <1> UNCHANGED <<large, dataVars>> /\ UNCHANGED <<leak, exact, bits, got>>
    BY DEF Kill, keyVars
  <1>1. Linked'
    BY DEF TypeOK, Order, Linked, Kill, Running, Leave, Goto, Side
  <1>2. Flow'
    BY Messages, SameDecision, SameData
    DEF TypeOK, Order, Linked, Flow, Commits, Opens, AwaitsI, Encrypts, AliceOver, BobPlaces,
      Kill, Running, Leave, Side
  <1>a. result'[p] = "killed" /\ result'[Other(p)] = result[Other(p)]
    BY DEF TypeOK, Kill, Leave, Other, Side
  <1>3. Stopped'
    BY <1>a, SameData DEF Order, Stopped, StopCause, StopsAgree, Other, Side, dataVars
  <1>4. (Counted /\ Decrypted)'
    BY SameKeys DEF Order, Early, Counted, Decrypted, Kill, Running, Leave
  <1>5. TransferCompletes'
    BY DEF TransferCompletes, Over, Kill, Running, Leave, Side
  <1> QED
    BY <1>1, <1>2, <1>3, <1>4, <1>5 DEF Order

-----------------------------------------------------------------------------
(* The theorems.                                                           *)

LEMMA InvInit == Init => OTInv
  <1> SUFFICES ASSUME Init PROVE OTInv
    OBVIOUS
  <1>1. TypeOK
    <2>1. X(choice) \in Nat /\ 0 \in 0..Remaining
      BY SizesAssumption DEF Init, X
    <2>2. <<>> \in Seq(ToAlice \cup ToBob)
      OBVIOUS
    <2>3. leak \in [Side -> 0..Remaining] /\ bits \in [Side -> 0..X(choice)]
      <3> 0 \in 0..X(choice)
        BY <2>1
      <3> QED
        BY <2>1 DEF Init
    <2>4. matched \in 0..Remaining
      BY <2>1 DEF Init
    <2> QED
      BY <2>2, <2>3, <2>4 DEF Init, TypeOK, QberRange, Choice
  <1>2. Linked /\ Flow
    BY DEF Init, Linked, Flow, Commits, Opens, AwaitsI, Encrypts, AliceOver, BobPlaces, Early,
      Side
  <1> QED
    BY <1>1, <1>2
    DEF Init, OTInv, Stopped, StopCause, StopsAgree, Counted, Decrypted, TransferCompletes, Side

LEMMA InvNext == OTInv /\ [Next]_vars => OTInv'
  <1> SUFFICES ASSUME OTInv, [Next]_vars PROVE OTInv'
    OBVIOUS
  <1>1. TypeOK /\ Order
    BY DEF OTInv, Order
  <1>2. TypeOK'
    BY <1>1, TypedNext DEF Order, Counted
  <1>3. CASE UNCHANGED vars
    <2>1. /\ UNCHANGED <<at, result, data, inbox>> /\ UNCHANGED <<large, dataVars>>
          /\ UNCHANGED <<leak, exact, bits, got>>
      BY <1>3 DEF vars, keyVars
    <2>2. (Linked /\ Flow)'
      BY <1>1, <2>1, SameData
      DEF Order, Linked, Flow, Commits, Opens, AwaitsI, Encrypts, AliceOver, BobPlaces
    <2>3. (Stopped /\ TransferCompletes)'
      <3>1. StopCause'
        BY <1>1, <2>1, SameData DEF Order, Stopped, StopCause, dataVars
      <3>2. StopsAgree' /\ TransferCompletes'
        BY <1>1, <2>1 DEF Order, Stopped, StopsAgree, TransferCompletes, Over, Running
      <3> QED
        BY <3>1, <3>2 DEF Stopped
    <2>4. (Counted /\ Decrypted)'
      BY <1>1, <2>1, SameKeys DEF Order, Counted, Decrypted
    <2> QED
      BY <1>2, <2>2, <2>3, <2>4 DEF OTInv
  <1>4. CASE Next
    <2>1. Order'
      BY <1>1, <1>4, ReadOrder, StopFailsOrder, CommitOrder, AskOpeningOrder, OpenOrder,
        EstimateOrder, ReceiveQberOrder, ReconcileOrder, BobStopsOrder, EndOfStreamOrder,
        Theta1TimeoutOrder, SendSyndromesOrder, EncryptOrder, ReceiveSyndromesOrder, DecodeOrder,
        DecryptOrder, KillOrder
      DEF Next, AliceStep, BobStep, Side
    <2> QED
      BY <1>2, <2>1 DEF Order, OTInv
  <1> QED
    BY <1>3, <1>4

LEMMA AlwaysInv == Spec => []OTInv
  BY InvInit, InvNext, PTL DEF Spec

\* Every variable of the transfer keeps its type (run_protocol of both sides).
THEOREM TypeCorrect == Spec => []TypeOK
  <1>1. OTInv => TypeOK
    BY DEF OTInv
  <1> QED
    BY <1>1, AlwaysInv, PTL

\* A side that finds the strings too short, or a rate read_matrix exits on, finds the other
\* side in the same case (Alice's and Bob's tests before the correction).
THEOREM StopSafety == Spec => []StopsAgree
  <1>1. OTInv => StopsAgree
    BY DEF OTInv, Stopped
  <1> QED
    BY <1>1, AlwaysInv, PTL

\* Once Alice reports the transfer as made, Bob decrypts unless he is killed (the last send
\* of the client and what the server does between the syndromes and the cipher).
THEOREM TransferSafety == Spec => []TransferCompletes
  <1>1. OTInv => TransferCompletes
    BY DEF OTInv
  <1> QED
    BY <1>1, AlwaysInv, PTL

LEMMA ExactIsCorrect == OTInv => CorrectTransfer
  <1> SUFFICES ASSUME OTInv, got # "nothing", exact, EccBlock("Alice") = EccBlock("Bob"),
                      \/ Blocks(choice, "Alice") <= CommonBlocks
                      \/ /\ Blocks(choice, "Alice") = CommonBlocks + 1
                         /\ Extracted(CommonBlocks + 1) = Cap
               PROVE  got = "message" /\ result["Bob"] = "done"
    BY DEF CorrectTransfer
  <1> DEFINE q == Blocks(choice, "Alice")
  <1>1. TypeOK /\ AliceCounts /\ BobCounts
    BY DEF OTInv, Decrypted
  <1>2. CommonBlocks \in Nat /\ q \in Nat /\ CommonBlocks <= q
    <2>1. choice \in {0, 1} /\ Blocks(0, "Alice") \in Nat /\ Blocks(1, "Alice") \in Nat
      BY <1>1, Sizes DEF TypeOK, Choice
    <2> QED
      BY <2>1 DEF CommonBlocks, Least
  <1>3. Blocks(choice, "Bob") = q
    BY DEF Blocks
  <1>4. Decoded = q
    <2>1. Syndromes(choice) = q
      BY <1>2 DEF Syndromes
    <2> QED
      BY <1>2, <1>3, <2>1 DEF Decoded, Least
  <1>5. Compared
    BY <1>1, <1>4 DEF Compared, AliceCounts, BobCounts
  <1>6. Extracted(leak["Bob"]) = Extracted(leak["Alice"])
    <2>1. CASE q <= CommonBlocks
      BY <1>1, <1>2, <1>4, <2>1 DEF AliceCounts, BobCounts
    <2>2. CASE q = CommonBlocks + 1 /\ Extracted(CommonBlocks + 1) = Cap
      <3>1. {Margin, Rows, Cap} \subseteq Nat \ {0}
        BY SizesAssumption
      <3>2. Rows * (CommonBlocks + 1) = Rows * CommonBlocks + Rows /\ Rows * CommonBlocks \in Nat
        BY <1>2, <3>1
      <3>3. Extracted(CommonBlocks) = Cap
        BY <2>2, <3>1, <3>2 DEF Extracted, Least
      <3> QED
        BY <1>1, <1>4, <2>2, <3>3 DEF AliceCounts, BobCounts
    <2> QED
      BY <2>1, <2>2
  <1>7. SameKey
    BY <1>5, <1>6 DEF SameKey
  <1> QED
    BY <1>5, <1>7 DEF OTInv, Decrypted

\* With the same code on both sides, and strings of as many blocks or a key at its cap, an
\* exact decoder gives Bob the message he chose (reconcile_keys, EC_ldpc and the extractor).
THEOREM CorrectSafety == Spec => []CorrectTransfer
  BY ExactIsCorrect, AlwaysInv, PTL
=============================================================================
