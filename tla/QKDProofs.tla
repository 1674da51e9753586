----------------------------- MODULE QKDProofs -----------------------------
(* Theorems about QKD for any thresholds, codes and numbers of indices. *)
EXTENDS QKD, SequenceTheorems, TLAPS

-----------------------------------------------------------------------------
(* The inductive invariant.                                                *)

\* A side is over exactly when run_protocol has ended.
Linked == \A p \in Side : at[p] = "over" <=> result[p] # "running"

\* Where Bob stands and what is under way to either side, for each place of Alice's.
\* A box of a side that is over holds what nobody reads.
BeforeBases ==
  at["Alice"] \in {"read", "send"} =>
    /\ at["Bob"] \in {"read", "theta1", "over"}
    /\ inbox["Alice"] = <<>> /\ inbox["Bob"] = <<>>

AwaitsI ==
  at["Alice"] = "I" =>
    /\ at["Bob"] \in {"read", "theta1", "subset", "over"}
    /\ at["Bob"] \in {"read", "theta1"} =>
         inbox["Alice"] = <<>> /\ inbox["Bob"] = <<"theta1">>
    /\ at["Bob"] = "subset" => inbox["Alice"] = <<"I">> /\ inbox["Bob"] = <<>>
    /\ inbox["Alice"] \in {<<>>, <<"I">>}
    /\ result["Bob"] # "key"

AwaitsQber ==
  at["Alice"] = "qber" =>
    /\ at["Bob"] \in {"subset", "syndromes", "over"}
    /\ at["Bob"] = "subset" => inbox["Alice"] = <<>> /\ inbox["Bob"] = <<"subset">>
    /\ at["Bob"] = "syndromes" => inbox["Alice"] = <<"qber">> /\ inbox["Bob"] = <<>>
    /\ result["Bob"] = "key" => inbox["Alice"] = <<"qber">>
    /\ inbox["Alice"] \in {<<>>, <<"qber">>}

Hashes ==
  at["Alice"] = "hash" =>
    /\ at["Bob"] \in {"syndromes", "alice_key", "over"}
    /\ at["Bob"] = "syndromes" => inbox["Bob"] = <<"syndromes">>
    /\ at["Bob"] = "alice_key" => inbox["Bob"] = <<>>
    /\ inbox["Alice"] = <<>>
    /\ Corrects("Alice")

\* Without Alice, Bob reads what she sent before; her key only if she has it.
AliceOver ==
  at["Alice"] = "over" =>
    /\ at["Bob"] \in {"read", "theta1"} => inbox["Bob"] \in {<<>>, <<"theta1">>}
    /\ at["Bob"] = "subset" => inbox["Bob"] \in {<<>>, <<"subset">>}
    /\ at["Bob"] = "syndromes" =>
         inbox["Bob"] \in {<<>>, <<"syndromes">>, <<"syndromes", "alice_key">>}
    /\ at["Bob"] = "alice_key" => inbox["Bob"] \in {<<>>, <<"alice_key">>}
    /\ at["Bob"] = "subset" /\ inbox["Bob"] # <<>> => result["Alice"] = "killed"
    /\ at["Bob"] # "over"
       /\ inbox["Bob"] \in {<<"syndromes", "alice_key">>, <<"alice_key">>} => result["Alice"] = "key"
    /\ result["Alice"] = "key" => at["Bob"] \in {"syndromes", "alice_key", "over"}

\* Bob's places, and what he has checked when he waits for the syndromes.
BobPlaces ==
  /\ at["Alice"] \in {"read", "send", "I", "qber", "hash", "over"}
  /\ at["Bob"] \in {"read", "theta1", "subset", "syndromes", "alice_key", "over"}
  /\ at["Bob"] \in {"syndromes", "alice_key"} => Corrects("Bob")

\* Nothing is verified before the bases are compared.
Fresh == at["Bob"] \in {"read", "theta1"} => errors = 0 /\ noisy = {}

Flow == BeforeBases /\ AwaitsI /\ AwaitsQber /\ Hashes /\ AliceOver /\ BobPlaces /\ Fresh

\* How a side came by its key.  Bob has a corrected one only after Alice had hers.
AliceKeySound ==
  result["Alice"] = "key" =>
    \/ ~TooNoisy /\ Clean("Alice") /\ key["Alice"] = RawKey({})
    \/ Corrects("Alice") /\ key["Alice"] = FinalKey("Alice", {})
BobKeySound ==
  result["Bob"] = "key" =>
    /\ at["Alice"] \notin {"read", "send", "I"}
    /\ result["Alice"] \in {"running", "key", "killed"}
    /\ \/ ~TooNoisy /\ Clean("Bob") /\ key["Bob"] = RawKey(noisy)
       \/ /\ Corrects("Bob") /\ result["Alice"] = "key"
          /\ IF SyndromesFit
             THEN \E wrong \in SUBSET NoisyBits : key["Bob"] = FinalKey("Bob", wrong)
             ELSE key["Bob"] = EmptyKey

QKDInv == TypeOK /\ Linked /\ Flow /\ AliceKeySound /\ BobKeySound /\ NeverExits

-----------------------------------------------------------------------------
(* Facts about the data and about boxes of at most two messages.           *)

LEMMA Boxes ==
  ASSUME NEW S, NEW a \in S, NEW b \in S
  PROVE  /\ Append(<<>>, a) = <<a>> /\ Append(<<a>>, b) = <<a, b>>
         /\ Head(<<a>>) = a /\ Tail(<<a>>) = <<>>
         /\ Head(<<a, b>>) = a /\ Tail(<<a, b>>) = <<b>>
         /\ <<a>> # <<>> /\ <<a, b>> # <<>> /\ <<a, b>> # <<b>> /\ <<a, b>> # <<a>>
  <1>0. <<>> \in Seq(S) /\ <<a>> \in Seq(S) /\ <<b>> \in Seq(S) /\ <<a, b>> \in Seq(S)
    OBVIOUS
  <1>1. Append(<<>>, a) = <<a>>
    OBVIOUS
  <1>2. Append(<<a>>, b) = <<a, b>>
    <2>1. Append(<<a>>, b) \in Seq(S) /\ Len(Append(<<a>>, b)) = 2
      BY <1>0
    <2>2. Append(<<a>>, b)[1] = a /\ Append(<<a>>, b)[2] = b
      BY <1>0
    <2>3. \A i \in 1..2 : Append(<<a>>, b)[i] = <<a, b>>[i]
      BY <2>2
    <2> QED
      BY <1>0, <2>1, <2>3, SeqEqual
  <1>3. Head(<<a>>) = a /\ Head(<<a, b>>) = a
    OBVIOUS
  <1>4. Tail(<<a>>) = <<>>
    OBVIOUS
  <1>5. Tail(<<a, b>>) = <<b>>
    OBVIOUS
  <1>6. <<a>> # <<>> /\ <<a, b>> # <<>>
    OBVIOUS
  <1>7. <<a, b>> # <<b>> /\ <<a, b>> # <<a>>
    <2> Len(<<a, b>>) = 2 /\ Len(<<a>>) = 1 /\ Len(<<b>>) = 1
      OBVIOUS
    <2> QED OBVIOUS
  <1> QED
    BY <1>1, <1>2, <1>3, <1>4, <1>5, <1>6, <1>7

LEMMA Cuts ==
  ASSUME NEW S, NEW a \in S, NEW k \in Nat
  PROVE  /\ k = 0 => SubSeq(<<>>, 1, k) = <<>> /\ SubSeq(<<a>>, 1, k) = <<>>
         /\ k = 1 => SubSeq(<<a>>, 1, k) = <<a>>
  <1>1. SubSeq(<<>>, 1, 0) = <<>>
    OBVIOUS
  <1>2. SubSeq(<<a>>, 1, 0) = <<>>
    OBVIOUS
  <1>3. SubSeq(<<a>>, 1, 1) = <<a>>
    <2> <<a>> \in Seq(S) /\ Len(<<a>>) = 1
      OBVIOUS
    <2> QED
      BY SubSeqFull
  <1> QED
    BY <1>1, <1>2, <1>3

LEMMA Halves ==
  ASSUME TypeOK
  PROVE  /\ sifted \in Nat /\ Rest \in Nat /\ Verified \in Nat /\ Rest <= Verified
         /\ errors \in Nat /\ errors <= Verified
  BY SiftedAssumption DEF TypeOK, Rest, Verified

LEMMA BlockSize == ASSUME NEW p PROVE EccBlock(p) \in Nat \ {0}
  BY BlockAssumption DEF EccBlock

LEMMA SameData ==
  ASSUME UNCHANGED <<large, dataVars>>
  PROVE  /\ Corrects("Alice")' <=> Corrects("Alice")
         /\ Corrects("Bob")' <=> Corrects("Bob")
         /\ TooNoisy' <=> TooNoisy
         /\ Clean("Alice")' <=> Clean("Alice")
         /\ Clean("Bob")' <=> Clean("Bob")
         /\ SyndromesFit' <=> SyndromesFit
         /\ RawKey({})' = RawKey({}) /\ RawKey(noisy)' = RawKey(noisy)
         /\ FinalKey("Alice", {})' = FinalKey("Alice", {})
         /\ NoisyBits' = NoisyBits
         /\ \A w : FinalKey("Bob", w)' = FinalKey("Bob", w)
         /\ Rest' = Rest /\ Verified' = Verified
  BY DEF dataVars, Corrects, TooNoisy, Clean, Covered, TooShort, Above, Below, SyndromesFit,
    RawKey, FinalKey, NoisyBits, EccBlock, Blocks, Rest, Verified

\* An error rate at or under the threshold is within what the codes are listed for.
LEMMA Threshold ==
  ASSUME TypeOK, NEW p, ~TooNoisy, ~Clean(p)
  PROVE  Covered
  <1> DEFINE a == Qber[1] b == Qber[2] c == MaxQber[1] d == MaxQber[2]
  <1>1. a \in Nat /\ b \in Nat \ {0} /\ c \in Nat /\ d \in Nat \ {0} /\ a * d < c * b
    BY QberAssumption
  <1>2. errors \in Nat /\ Verified \in Nat \ {0} /\ errors > 0
    BY Halves DEF Clean
  <1>3. errors * b <= a * Verified
    BY <1>1, <1>2 DEF TooNoisy, Above
  <1>4. errors * d < c * Verified
    <2> HIDE DEF a, b, c, d
    <2> QED
      BY <1>1, <1>2, <1>3
  <1> QED
    BY <1>2, <1>4 DEF Covered, Below

LEMMA WholeBlocks ==
  ASSUME NEW r \in Nat, NEW b \in Nat \ {0}, NEW i \in 1..(r \div b)
  PROVE  BitsOf(i, b) \subseteq 1..r
  <1> DEFINE q == r \div b
  <1>1. q \in Nat /\ q * b <= r
    OBVIOUS
  <1> HIDE DEF q
  <1>2. i \in Nat \ {0} /\ i <= q
    BY <1>1 DEF q
  <1>3. i * b <= q * b /\ (i - 1) * b >= 0 /\ i * b \in Nat /\ (i - 1) * b \in Nat
    <2>1. PICK e \in Nat : q = i + e
      <3> q - i \in Nat /\ q = i + (q - i)
        BY <1>1, <1>2
      <3> QED OBVIOUS
    <2>2. q * b = i * b + e * b /\ e * b \in Nat
      BY <1>2, <2>1
    <2>3. i * b \in Nat /\ (i - 1) * b \in Nat
      BY <1>2
    <2> QED
      BY <2>2, <2>3
  <1> QED
    BY <1>1, <1>3 DEF BitsOf

LEMMA KeysTyped ==
  ASSUME TypeOK
  PROVE  /\ NoKey \in Key /\ RawKey({}) \in Key /\ RawKey(noisy) \in Key
         /\ FinalKey("Alice", {}) \in Key /\ EmptyKey \in Key
         /\ \A w \in SUBSET NoisyBits : FinalKey("Bob", w) \in Key
  <1>1. 1..Rest \subseteq Position
    <2>1. CASE sifted \in Sifted
      BY <2>1 DEF Position, Rest
    <2>2. CASE sifted = 0
      <3> 1..Rest = {}
        BY <2>2 DEF Rest
      <3> QED OBVIOUS
    <2> QED
      BY <2>1, <2>2 DEF TypeOK
  <1>2. NoKey \in Key /\ RawKey({}) \in Key /\ RawKey(noisy) \in Key
    BY <1>1, Halves DEF NoKey, RawKey, Key, TypeOK
  <1>3. \A p : Blocks(p) \in Nat /\ Blocks(p) * EccBlock(p) \in Nat
    BY Halves, BlockSize DEF Blocks
  <1>4. NoisyBits \subseteq 1..Rest
    <2> Rest \in Nat /\ EccBlock("Bob") \in Nat \ {0}
      BY Halves, BlockSize
    <2> \A i \in 1..Blocks("Bob") : BitsOf(i, EccBlock("Bob")) \subseteq 1..Rest
      BY WholeBlocks DEF Blocks
    <2> QED
      BY DEF NoisyBits
  <1>5. EmptyKey \in Key
    BY DEF EmptyKey, Key
  <1> QED
    BY <1>1, <1>2, <1>3, <1>4, <1>5 DEF FinalKey, Key

LEMMA BoxesTyped ==
  ASSUME TypeOK, NEW p \in Side
  PROVE  /\ Received(p) \in [Side -> Seq(ToAlice \cup ToBob)] \/ inbox[p] = <<>>
         /\ \A box \in [Side -> Seq(ToAlice \cup ToBob)], m \in ToAlice \cup ToBob :
              [box EXCEPT ![p] = Append(@, m)] \in [Side -> Seq(ToAlice \cup ToBob)]
         /\ \A k \in 0..Len(inbox[p]) :
              [inbox EXCEPT ![p] = SubSeq(@, 1, k)] \in [Side -> Seq(ToAlice \cup ToBob)]
  <1> DEFINE Msg == ToAlice \cup ToBob
  <1>0. inbox \in [Side -> Seq(Msg)]
    BY DEF TypeOK
  <1> HIDE DEF Msg
  <1>1. inbox[p] # <<>> => Received(p) \in [Side -> Seq(Msg)]
    BY <1>0, HeadTailProperties DEF Received
  <1>2. \A box \in [Side -> Seq(Msg)], m \in Msg :
          [box EXCEPT ![p] = Append(@, m)] \in [Side -> Seq(Msg)]
    BY AppendProperties
  <1>3. ASSUME NEW k \in 0..Len(inbox[p])
        PROVE  [inbox EXCEPT ![p] = SubSeq(@, 1, k)] \in [Side -> Seq(Msg)]
    <2> inbox[p] \in Seq(Msg)
      BY <1>0
    <2> SubSeq(inbox[p], 1, k) \in Seq(Msg)
      OBVIOUS
    <2> QED
      BY <1>0
  <1> QED
    BY <1>1, <1>2, <1>3 DEF Msg

-----------------------------------------------------------------------------
(* Type correctness of every action.                                       *)

LEMMA LeaveTyped ==
  ASSUME TypeOK, NEW p \in Side, NEW r \in {"key", "none", "raised", "exit", "killed"},
         NEW k \in Key, Leave(p, r, k)
  PROVE  /\ at' \in [Side -> {"read", "send", "hash", "over"} \cup ToAlice \cup ToBob]
         /\ result' \in [Side -> {"running", "key", "none", "raised", "exit", "killed"}]
         /\ key' \in [Side -> Key]
  BY DEF TypeOK, Leave

LEMMA GotoTyped ==
  ASSUME TypeOK, NEW p \in Side,
         NEW l \in {"read", "send", "hash", "over"} \cup ToAlice \cup ToBob, Goto(p, l)
  PROVE  /\ at' \in [Side -> {"read", "send", "hash", "over"} \cup ToAlice \cup ToBob]
         /\ result' \in [Side -> {"running", "key", "none", "raised", "exit", "killed"}]
         /\ key' \in [Side -> Key]
  BY DEF TypeOK, Goto

\* What Send leaves in the boxes, and where its sender stands after it.
LEMMA SendTyped ==
  ASSUME TypeOK, NEW p \in Side, NEW m \in ToAlice \cup ToBob,
         NEW box \in [Side -> Seq(ToAlice \cup ToBob)],
         inbox' = box \/ inbox' = [box EXCEPT ![Other(p)] = Append(@, m)]
  PROVE  inbox' \in [Side -> Seq(ToAlice \cup ToBob)]
  <1> Other(p) \in Side
    BY DEF Other, Side
  <1> QED
    <2> inbox' = box => inbox' \in [Side -> Seq(ToAlice \cup ToBob)]
      OBVIOUS
    <2> [box EXCEPT ![Other(p)] = Append(@, m)] \in [Side -> Seq(ToAlice \cup ToBob)]
      BY BoxesTyped
    <2> QED
      OBVIOUS

LEMMA DataTyped ==
  ASSUME TypeOK, UNCHANGED <<data, large, dataVars>>,
         at' \in [Side -> {"read", "send", "hash", "over"} \cup ToAlice \cup ToBob],
         result' \in [Side -> {"running", "key", "none", "raised", "exit", "killed"}],
         key' \in [Side -> Key],
         inbox' \in [Side -> Seq(ToAlice \cup ToBob)]
  PROVE  TypeOK'
  <1>1. Rest' = Rest /\ Verified' = Verified
    BY DEF dataVars, Rest, Verified
  <1>2. sifted' \in Sifted \cup {0} /\ errors' \in 0..Verified' /\ noisy' \subseteq 1..Rest'
    BY <1>1 DEF TypeOK, dataVars
  <1>3. /\ data' \in [Side -> {"unread", "empty", "short", "full"}]
        /\ large' \in [Side -> BOOLEAN]
    BY DEF TypeOK
  <1> QED
    BY <1>2, <1>3 DEF TypeOK

LEMMA TypedNext ==
  ASSUME TypeOK, Fresh, [Next]_vars
  PROVE  TypeOK'
  <1> DEFINE Place == {"read", "send", "hash", "over"} \cup ToAlice \cup ToBob
             Box == Seq(ToAlice \cup ToBob)
             Control == /\ at' \in [Side -> Place]
                        /\ result' \in [Side -> {"running", "key", "none", "raised", "exit", "killed"}]
                        /\ key' \in [Side -> Key]
  <1>s. "Alice" \in Side /\ "Bob" \in Side
    BY DEF Side
  <1>p. ToAlice \cup ToBob \cup {"send", "hash"} \subseteq Place
    OBVIOUS
  <1>m. {"I", "qber", "theta1", "subset", "syndromes", "alice_key"} \subseteq ToAlice \cup ToBob
    BY DEF ToAlice, ToBob
  <1>i. inbox \in [Side -> Box]
    BY DEF TypeOK
  <1>k. NoKey \in Key
    BY KeysTyped
  <1>r. ASSUME NEW p \in Side, Raise(p) PROVE Control
    BY <1>r, <1>k, LeaveTyped DEF Raise
  <1>g. ASSUME NEW p \in Side, NEW l \in Place, Goto(p, l) PROVE Control
    BY <1>g, GotoTyped
  <1>d. ASSUME UNCHANGED dataVars
        PROVE  sifted' \in Sifted \cup {0} /\ errors' \in 0..Verified' /\ noisy' \subseteq 1..Rest'
    BY <1>d DEF TypeOK, dataVars, Rest, Verified
  <1>1. ASSUME NEW p \in Side, Read(p) PROVE TypeOK'
    <2>1. Control
      <3>1. CASE Leave(p, "none", NoKey)
        BY <3>1, <1>k, LeaveTyped
      <3>2. CASE Goto(p, IF p = "Alice" THEN "send" ELSE "theta1")
        BY <3>2, <1>g, <1>p, <1>m
      <3> QED
        BY <1>1, <3>1, <3>2 DEF Read
    <2>2. data' \in [Side -> {"unread", "empty", "short", "full"}]
      BY <1>1 DEF Read, TypeOK
    <2>3. UNCHANGED <<inbox, large, dataVars>>
      BY <1>1 DEF Read
    <2> QED
      BY <2>1, <2>2, <2>3, <1>d, <1>i DEF TypeOK, dataVars
  <1>2. CASE StopFails
    BY <1>2, <1>r, <1>s, <1>i, DataTyped DEF StopFails
  <1>3. CASE SendBases
    <2>1. Control
      BY <1>3, <1>r, <1>g, <1>s, <1>p, <1>m DEF SendBases, Send
    <2>2. inbox' \in [Side -> Box]
      BY <1>3, <1>s, <1>i, <1>m, SendTyped DEF SendBases, Send
    <2> QED
      BY <1>3, <2>1, <2>2, DataTyped DEF SendBases
  <1>4. CASE MatchBases
    <2>1. Control
      BY <1>4, <1>r, <1>g, <1>s, <1>p, <1>m DEF MatchBases, Send
    <2>2. Received("Bob") \in [Side -> Box]
      BY <1>4, <1>s, BoxesTyped DEF MatchBases, Receives
    <2>3. inbox' \in [Side -> Box]
      BY <1>4, <1>s, <1>m, <2>2, SendTyped DEF MatchBases, Send
    <2>4. UNCHANGED <<data, large>>
      BY <1>4 DEF MatchBases
    <2>5. errors' = 0 /\ noisy' = {} /\ sifted' \in Sifted \cup {0}
      BY <1>4 DEF MatchBases, Receives, Fresh, TypeOK, dataVars
    <2>6. Verified' \in Nat
      <3>1. \A n \in Nat : n - (n \div 2) \in Nat
        OBVIOUS
      <3>2. sifted' \in Nat
        BY <2>5, SiftedAssumption
      <3> QED
        BY <3>1, <3>2 DEF Verified, Rest
    <2>7. errors' \in 0..Verified' /\ noisy' \subseteq 1..Rest'
      BY <2>5, <2>6
    <2>8. data' \in [Side -> {"unread", "empty", "short", "full"}] /\ large' \in [Side -> BOOLEAN]
      BY <2>4 DEF TypeOK
    <2> QED
      BY <2>1, <2>3, <2>5, <2>7, <2>8 DEF TypeOK
  <1>5. CASE SendSubset
    <2>1. Control
      BY <1>5, <1>r, <1>g, <1>s, <1>p, <1>m DEF SendSubset, Send
    <2>2. Received("Alice") \in [Side -> Box]
      BY <1>5, <1>s, BoxesTyped DEF SendSubset, Receives
    <2>3. inbox' \in [Side -> Box]
      BY <1>5, <1>s, <1>m, <2>2, SendTyped DEF SendSubset, Send
    <2>4. UNCHANGED <<data, large, sifted>> /\ errors' \in 0..Verified /\ noisy' \subseteq 1..Rest
      BY <1>5 DEF SendSubset
    <2> QED
      BY <2>1, <2>3, <2>4 DEF TypeOK, Verified, Rest
  <1>t. ASSUME NEW p \in Side, NEW w \in SUBSET Position, RawKey(w) \in Key, Stops(p, w)
        PROVE  Control
    <2>1. \E r \in {"key", "none", "raised", "exit", "killed"}, k \in Key : Leave(p, r, k)
      BY <1>t, <1>k DEF Stops
    <2> QED
      BY <2>1, LeaveTyped
  <1>n. noisy \in SUBSET Position /\ RawKey(noisy) \in Key /\ RawKey({}) \in Key
    BY KeysTyped DEF RawKey, Key
  <1>6. CASE MeasureQber
    <2>1. Received("Bob") \in [Side -> Box]
      BY <1>6, <1>s, BoxesTyped DEF MeasureQber, Receives
    <2>2. inbox' \in [Side -> Box]
      BY <1>6, <1>s, <1>m, <2>1, SendTyped DEF MeasureQber, Send
    <2>3. Raise("Bob") \/ Stops("Bob", noisy) \/ Goto("Bob", "syndromes")
      BY <1>6 DEF MeasureQber, Send
    <2>4. Control
      BY <2>3, <1>r, <1>g, <1>s, <1>m, <1>t, <1>n
    <2> QED
      BY <1>6, <2>2, <2>4, DataTyped DEF MeasureQber
  <1>7. CASE DecideOnQber
    <2>1. Received("Alice") \in [Side -> Box]
      BY <1>7, <1>s, BoxesTyped DEF DecideOnQber, Receives
    <2>2. inbox' \in [Side -> Box]
      BY <1>7, <1>s, <1>m, <2>1, SendTyped DEF DecideOnQber, Send
    <2>3. Raise("Alice") \/ Stops("Alice", {}) \/ Goto("Alice", "hash")
      BY <1>7 DEF DecideOnQber, Send
    <2>4. Control
      BY <2>3, <1>r, <1>g, <1>s, <1>p, <1>t, <1>n
    <2> QED
      BY <1>7, <2>2, <2>4, DataTyped DEF DecideOnQber
  <1>8. CASE ReturnKey
    <2>1. inbox' \in [Side -> Box]
      BY <1>8, <1>s, <1>i, <1>m, SendTyped DEF ReturnKey, Send
    <2>2. Raise("Alice") \/ Leave("Alice", "key", FinalKey("Alice", {}))
      BY <1>8 DEF ReturnKey, Send
    <2>3. Control
      BY <2>2, <1>r, <1>s, KeysTyped, LeaveTyped
    <2> QED
      BY <1>8, <2>1, <2>3, DataTyped DEF ReturnKey
  <1>9. CASE ReceiveSyndromes
    <2>1. inbox' \in [Side -> Box] /\ Control
      BY <1>9, <1>s, <1>g, <1>m, BoxesTyped DEF ReceiveSyndromes, Receives
    <2> QED
      BY <1>9, <2>1, DataTyped DEF ReceiveSyndromes
  <1>10. CASE Decode
    <2>1. inbox' \in [Side -> Box]
      BY <1>10, <1>s, BoxesTyped DEF Decode, Receives
    <2>2. Raise("Bob") \/ \E k \in Key : Leave("Bob", "key", k)
      BY <1>10, KeysTyped DEF Decode
    <2>3. Control
      BY <2>2, <1>r, <1>s, LeaveTyped
    <2> QED
      BY <1>10, <2>1, <2>3, DataTyped DEF Decode
  <1>11. ASSUME NEW p \in Side, EndOfStream(p) PROVE TypeOK'
    <2>1. Control
      BY <1>11, <1>r DEF EndOfStream
    <2> QED
      BY <1>11, <1>i, <2>1, DataTyped DEF EndOfStream
  <1>12. ASSUME NEW p \in Side, Kill(p) PROVE TypeOK'
    <2>1. Control
      BY <1>12, <1>k, LeaveTyped DEF Kill
    <2>2. Other(p) \in Side
      BY DEF Other, Side
    <2>3. inbox' \in [Side -> Box]
      BY <1>12, <2>2, BoxesTyped DEF Kill
    <2> QED
      BY <1>12, <2>1, <2>3, DataTyped DEF Kill
  <1>13. CASE UNCHANGED vars
    BY <1>13 DEF vars, dataVars, TypeOK, Rest, Verified
  <1> QED
    BY <1>s, <1>1, <1>2, <1>3, <1>4, <1>5, <1>6, <1>7, <1>8, <1>9, <1>10, <1>11, <1>12, <1>13
    DEF Next, AliceStep, BobStep

-----------------------------------------------------------------------------
(* The other parts of the invariant, one lemma per action.                 *)

LEMMA Messages ==
  /\ \A m \in ToAlice \cup ToBob :
       /\ Append(<<>>, m) = <<m>> /\ Tail(<<m>>) = <<>> /\ Head(<<m>>) = m /\ <<m>> # <<>>
       /\ <<m>> # <<"syndromes", "alice_key">>
       /\ \A n \in ToAlice \cup ToBob : <<m>> = <<n>> => m = n
  /\ Append(<<"syndromes">>, "alice_key") = <<"syndromes", "alice_key">>
  /\ Tail(<<"syndromes", "alice_key">>) = <<"alice_key">>
  /\ Head(<<"syndromes", "alice_key">>) = "syndromes"
  /\ <<"syndromes", "alice_key">> # <<>>
  /\ {"I", "qber", "theta1", "subset", "syndromes", "alice_key"} \subseteq ToAlice \cup ToBob
  <1> DEFINE Msg == ToAlice \cup ToBob
  <1>1. {"I", "qber", "theta1", "subset", "syndromes", "alice_key"} \subseteq Msg
    BY DEF ToAlice, ToBob
  <1>2. \A m \in Msg : /\ Append(<<>>, m) = <<m>> /\ Tail(<<m>>) = <<>>
                       /\ Head(<<m>>) = m /\ <<m>> # <<>>
    <2> HIDE DEF Msg
    <2> QED
      BY Boxes
  <1>3. \A m, n \in Msg : <<m>> = <<n>> => m = n
    OBVIOUS
  <1>4. \A m \in Msg : <<m>> # <<"syndromes", "alice_key">>
    <2> HIDE DEF Msg
    <2> \A m : Len(<<m>>) = 1 /\ Len(<<"syndromes", "alice_key">>) = 2
      OBVIOUS
    <2> QED OBVIOUS
  <1>5. /\ Append(<<"syndromes">>, "alice_key") = <<"syndromes", "alice_key">>
        /\ Tail(<<"syndromes", "alice_key">>) = <<"alice_key">>
        /\ Head(<<"syndromes", "alice_key">>) = "syndromes"
        /\ <<"syndromes", "alice_key">> # <<>>
    <2> HIDE DEF Msg
    <2> "syndromes" \in Msg /\ "alice_key" \in Msg
      BY <1>1
    <2> QED
      BY Boxes
  <1> QED
    BY <1>1, <1>2, <1>3, <1>4, <1>5

\* The invariant without the types.
Order == Linked /\ Flow /\ AliceKeySound /\ BobKeySound /\ NeverExits

LEMMA ReadOrder == ASSUME TypeOK, Order, NEW p \in Side, Read(p) PROVE Order'
  <1>1. UNCHANGED <<inbox, large, dataVars>>
    BY DEF Read
  <1> USE <1>1, SameData
  <1>2. CASE p = "Alice"
    <2>1. Linked' /\ NeverExits'
      BY DEF TypeOK, Order, Linked, NeverExits, Read, Leave, Goto, Side
    <2>2. Flow'
      BY <1>2
      DEF TypeOK, Order, Linked, Flow, BeforeBases, AwaitsI, AwaitsQber, Hashes, AliceOver,
        BobPlaces, Fresh, Read, Leave, Goto, Side, dataVars
    <2>3. AliceKeySound' /\ BobKeySound'
      BY DEF TypeOK, Order, AliceKeySound, BobKeySound, Read, Leave, Goto, Side
    <2> QED
      BY <2>1, <2>2, <2>3 DEF Order
  <1>3. CASE p = "Bob"
    <2>1. Linked' /\ NeverExits'
      BY DEF TypeOK, Order, Linked, NeverExits, Read, Leave, Goto, Side
    <2>2. Flow'
      BY <1>3
      DEF TypeOK, Order, Flow, BeforeBases, AwaitsI, AwaitsQber, Hashes, AliceOver, BobPlaces,
        Fresh, Read, Leave, Goto, Side, dataVars
    <2>3. AliceKeySound' /\ BobKeySound'
      BY DEF TypeOK, Order, AliceKeySound, BobKeySound, Read, Leave, Goto, Side
    <2> QED
      BY <2>1, <2>2, <2>3 DEF Order
  <1> QED
    BY <1>2, <1>3 DEF Side

LEMMA StopFailsOrder == ASSUME TypeOK, Order, StopFails PROVE Order'
  <1> UNCHANGED <<large, dataVars>>
    BY DEF StopFails
  <1>1. Linked' /\ NeverExits'
    BY DEF TypeOK, Order, Linked, NeverExits, StopFails, Raise, Leave
  <1>2. Flow'
    BY DEF Order, Linked, Flow, BeforeBases, AwaitsI, AwaitsQber, Hashes, AliceOver, BobPlaces,
      Fresh, StopFails, Raise, Leave, Side, dataVars
  <1>3. AliceKeySound' /\ BobKeySound'
    BY SameData DEF TypeOK, Order, AliceKeySound, BobKeySound, StopFails, Raise, Leave
  <1> QED
    BY <1>1, <1>2, <1>3 DEF Order

LEMMA SendBasesOrder == ASSUME TypeOK, Order, SendBases PROVE Order'
  <1> UNCHANGED <<large, dataVars>>
    BY DEF SendBases
  <1>1. Linked' /\ NeverExits'
    BY DEF TypeOK, Order, Linked, NeverExits, SendBases, Send, Raise, Leave, Goto
  <1>2. Flow'
    BY DEF TypeOK, Order, Linked, Flow, BeforeBases, AwaitsI, AwaitsQber, Hashes, AliceOver,
      BobPlaces, Fresh, BobKeySound, SendBases, Send, Raise, Running, Other, Leave, Goto, Side,
      dataVars
  <1>3. AliceKeySound' /\ BobKeySound'
    BY DEF TypeOK, Order, Linked, AliceKeySound, BobKeySound, SendBases, Send, Raise, Leave, Goto,
      Side
  <1> QED
    BY <1>1, <1>2, <1>3 DEF Order

LEMMA MatchBasesOrder == ASSUME TypeOK, Order, MatchBases PROVE Order'
  <1>1. Linked' /\ NeverExits'
    BY DEF TypeOK, Order, Linked, NeverExits, MatchBases, Receives, Send, Raise, Leave, Goto, Side
  <1>2. Flow'
    BY Messages
    DEF TypeOK, Order, Linked, Flow, BeforeBases, AwaitsI, AwaitsQber, Hashes, AliceOver,
      BobPlaces, Fresh, MatchBases, Receives, Received, Send, Raise, Running, Other, Leave, Goto,
      Side
  <1>3. AliceKeySound' /\ BobKeySound'
    BY DEF TypeOK, Order, Linked, Flow, AliceOver, AliceKeySound, BobKeySound, MatchBases,
      Receives, Send, Raise, Leave, Goto, Side
  <1> QED
    BY <1>1, <1>2, <1>3 DEF Order

LEMMA SendSubsetOrder == ASSUME TypeOK, Order, SendSubset PROVE Order'
  <1>1. Linked' /\ NeverExits'
    BY DEF TypeOK, Order, Linked, NeverExits, SendSubset, Receives, Send, Raise, Leave, Goto, Side
  <1>2. Flow'
    BY DEF TypeOK, Order, Linked, Flow, BeforeBases, AwaitsI, AwaitsQber, Hashes, AliceOver,
      BobPlaces, Fresh, SendSubset, Receives, Received, Send, Raise, Running, Other, Leave, Goto,
      Side
  <1>3. AliceKeySound' /\ BobKeySound'
    BY DEF TypeOK, Order, Linked, AliceKeySound, BobKeySound, SendSubset, Receives, Send, Raise,
      Leave, Goto, Side
  <1> QED
    BY <1>1, <1>2, <1>3 DEF Order

LEMMA ReturnKeyOrder == ASSUME TypeOK, Order, ReturnKey PROVE Order'
  <1> UNCHANGED <<large, dataVars>>
    BY DEF ReturnKey
  <1>b. result["Bob"] # "key"
    BY DEF Order, Linked, Flow, Hashes, BobKeySound, ReturnKey, Corrects, Clean, Side
  <1>1. Linked' /\ NeverExits'
    BY DEF TypeOK, Order, Linked, NeverExits, ReturnKey, Send, Raise, Leave, Side
  <1>n. /\ at["Bob"] \in {"syndromes", "alice_key", "over"}
        /\ at["Bob"] = "syndromes" => inbox["Bob"] = <<"syndromes">>
        /\ at["Bob"] = "alice_key" => inbox["Bob"] = <<>>
        /\ at["Bob"] # "over" => result["Bob"] = "running"
    BY DEF Order, Linked, Flow, Hashes, ReturnKey, Side
  <1>m. at["Bob"] # "over" =>
          inbox'["Bob"] = Append(inbox["Bob"], "alice_key") /\ result'["Alice"] = "key"
    BY <1>n DEF TypeOK, ReturnKey, Send, Leave, Running, Other, Side
  <1>f. at'["Alice"] = "over" /\ at'["Bob"] = at["Bob"]
    BY DEF TypeOK, ReturnKey, Send, Leave, Raise, Side
  <1>2. Flow'
    <2>1. (BeforeBases /\ AwaitsI /\ AwaitsQber /\ Hashes)'
      BY <1>f DEF BeforeBases, AwaitsI, AwaitsQber, Hashes
    <2>2. AliceOver'
      BY <1>f, <1>n, <1>m, Messages DEF AliceOver
    <2>3. BobPlaces' /\ Fresh'
      BY <1>f, <1>n, SameData DEF Order, Flow, BobPlaces, Fresh, dataVars
    <2> QED
      BY <2>1, <2>2, <2>3 DEF Flow
  <1>3. AliceKeySound' /\ BobKeySound'
    BY <1>b, SameData
    DEF TypeOK, Order, Flow, Hashes, AliceKeySound, BobKeySound, ReturnKey, Send, Raise, Leave,
      Side
  <1> QED
    BY <1>1, <1>2, <1>3 DEF Order

LEMMA ReceiveSyndromesOrder == ASSUME TypeOK, Order, ReceiveSyndromes PROVE Order'
  <1> UNCHANGED <<large, dataVars>>
    BY DEF ReceiveSyndromes
  <1>1. Linked' /\ NeverExits'
    BY DEF Order, Linked, NeverExits, ReceiveSyndromes, Receives, Goto
  <1>2. Flow'
    BY SameData, Messages
    DEF TypeOK, Order, Linked, Flow, BeforeBases, AwaitsI, AwaitsQber, Hashes, AliceOver,
      BobPlaces, Fresh, ReceiveSyndromes, Receives, Received, Leave, Goto, Side, dataVars
  <1>3. AliceKeySound' /\ BobKeySound'
    BY SameData DEF Order, AliceKeySound, BobKeySound, ReceiveSyndromes, Goto
  <1> QED
    BY <1>1, <1>2, <1>3 DEF Order

LEMMA DecodeOrder == ASSUME TypeOK, Order, Decode PROVE Order'
  <1> UNCHANGED <<large, dataVars>>
    BY DEF Decode
  <1>1. Linked' /\ NeverExits'
    BY DEF TypeOK, Order, Linked, NeverExits, Decode, Raise, Leave
  <1>2. Flow'
    BY DEF TypeOK, Order, Flow, BeforeBases, AwaitsI, AwaitsQber, Hashes, AliceOver, BobPlaces,
      Fresh, Decode, Receives, Raise, Leave, Side
  <1>3. AliceKeySound' /\ BobKeySound'
    BY SameData
    DEF TypeOK, Order, Flow, BeforeBases, AwaitsI, AwaitsQber, Hashes, AliceOver, BobPlaces,
      AliceKeySound, BobKeySound, Decode, Receives, Raise, Leave, Side
  <1> QED
    BY <1>1, <1>2, <1>3 DEF Order

LEMMA EndOfStreamOrder == ASSUME TypeOK, Order, NEW p \in Side, EndOfStream(p) PROVE Order'
  <1> UNCHANGED <<large, dataVars>>
    BY DEF EndOfStream
  <1>1. Linked' /\ NeverExits'
    BY DEF TypeOK, Order, Linked, NeverExits, EndOfStream, Raise, Leave
  <1>2. Flow'
    BY DEF TypeOK, Order, Linked, Flow, BeforeBases, AwaitsI, AwaitsQber, Hashes, AliceOver,
      BobPlaces, Fresh, EndOfStream, Raise, Running, Other, Leave, Side
  <1>3. AliceKeySound' /\ BobKeySound'
    BY SameData, Messages
    DEF Order, Linked, Flow, AwaitsQber, BobPlaces, AliceKeySound, BobKeySound, EndOfStream,
      Raise, ToAlice, ToBob, Leave
  <1> QED
    BY <1>1, <1>2, <1>3 DEF Order

\* A side that stops has no key, or the raw one.
LEMMA StopsOutcome ==
  ASSUME TypeOK, NEW p, NEW w, Stops(p, w)
  PROVE  \/ (TooNoisy \/ ~Clean(p)) /\ Leave(p, "none", NoKey)
         \/ ~TooNoisy /\ Clean(p) /\ Leave(p, "key", RawKey(w))
  BY Threshold DEF Stops

LEMMA MeasureQberOrder == ASSUME TypeOK, Order, MeasureQber PROVE Order'
  <1> UNCHANGED <<large, dataVars>>
    BY DEF MeasureQber
  <1>1. /\ at["Bob"] = "subset" /\ inbox["Bob"] # <<>>
        /\ at["Alice"] \in {"qber", "over"}
        /\ at["Alice"] = "qber" => inbox["Alice"] = <<>> /\ result["Alice"] = "running"
        /\ at["Alice"] = "over" => result["Alice"] = "killed"
        /\ result["Bob"] = "running"
    BY DEF Order, Linked, Flow, BeforeBases, AwaitsI, AwaitsQber, Hashes, AliceOver, BobPlaces,
      MeasureQber, Receives, Side
  <1>2. /\ at["Alice"] = "qber" /\ ~Raise("Bob") => inbox'["Alice"] = <<"qber">>
        /\ inbox'["Alice"] \in {inbox["Alice"], <<"qber">>}
        /\ at'["Alice"] = at["Alice"] /\ result'["Alice"] = result["Alice"]
        /\ key'["Alice"] = key["Alice"]
    BY <1>1, Messages
    DEF TypeOK, MeasureQber, Send, Stops, Received, Raise, Leave, Goto, Running, Other, Side
  <1>3. \/ Raise("Bob")
        \/ Leave("Bob", "none", NoKey)
        \/ ~TooNoisy /\ Clean("Bob") /\ Leave("Bob", "key", RawKey(noisy))
        \/ Corrects("Bob") /\ Goto("Bob", "syndromes")
    BY StopsOutcome DEF MeasureQber, Send
  <1>4. /\ at'["Bob"] \in {"syndromes", "over"}
        /\ at'["Bob"] = "over" => result'["Bob"] \in {"raised", "none", "key"}
        /\ at'["Bob"] = "syndromes" => Corrects("Bob") /\ result'["Bob"] = "running" /\ ~Raise("Bob")
        /\ result'["Bob"] = "key" =>
             ~TooNoisy /\ Clean("Bob") /\ key'["Bob"] = RawKey(noisy) /\ ~Raise("Bob")
    BY <1>1, <1>3 DEF TypeOK, Raise, Leave, Goto, Side
  <1>5. inbox'["Bob"] = <<>> \/ at'["Bob"] = "over"
    BY <1>1 DEF TypeOK, Order, Flow, AwaitsQber, AliceOver, MeasureQber, Received, Send, Side
  <1>6. Linked' /\ NeverExits'
    BY <1>1, <1>2, <1>4 DEF Order, Linked, NeverExits, Side
  <1>7. Flow'
    BY <1>1, <1>2, <1>4, <1>5, SameData
    DEF Flow, BeforeBases, AwaitsI, AwaitsQber, Hashes, AliceOver, BobPlaces, Fresh
  <1>8. AliceKeySound' /\ BobKeySound'
    BY <1>1, <1>2, <1>4, SameData DEF Order, AliceKeySound, BobKeySound
  <1> QED
    BY <1>6, <1>7, <1>8 DEF Order

LEMMA DecideOnQberOrder == ASSUME TypeOK, Order, DecideOnQber PROVE Order'
  <1> UNCHANGED <<large, dataVars>>
    BY DEF DecideOnQber
  <1>1. /\ at["Alice"] = "qber" /\ inbox["Alice"] = <<"qber">>
        /\ result["Alice"] = "running"
        /\ at["Bob"] \in {"syndromes", "over"}
        /\ at["Bob"] = "syndromes" =>
             inbox["Bob"] = <<>> /\ Corrects("Bob") /\ result["Bob"] = "running"
        /\ result["Bob"] = "key" => ~TooNoisy /\ Clean("Bob")
    BY DEF Order, Linked, Flow, AwaitsQber, BobPlaces, BobKeySound, DecideOnQber, Receives, Side
  <1>2. /\ inbox'["Alice"] = <<>>
        /\ at'["Bob"] = at["Bob"] /\ result'["Bob"] = result["Bob"] /\ key'["Bob"] = key["Bob"]
        /\ inbox'["Bob"] \in {inbox["Bob"], Append(inbox["Bob"], "syndromes")}
        /\ at["Bob"] = "syndromes" /\ ~Stops("Alice", {}) => inbox'["Bob"] = <<"syndromes">>
        /\ at["Bob"] = "syndromes" => inbox'["Bob"] \in {<<>>, <<"syndromes">>}
    BY <1>1, Messages
    DEF TypeOK, DecideOnQber, Send, Stops, Received, Raise, Leave, Goto, Running, Other, Side
  <1>3. \/ Raise("Alice") /\ Corrects("Alice")
        \/ (TooNoisy \/ ~Clean("Alice")) /\ Leave("Alice", "none", NoKey)
        \/ ~TooNoisy /\ Clean("Alice") /\ Leave("Alice", "key", RawKey({}))
        \/ Corrects("Alice") /\ Goto("Alice", "hash")
    BY StopsOutcome DEF DecideOnQber, Send
  <1>4. /\ at'["Alice"] \in {"hash", "over"}
        /\ at'["Alice"] = "over" => result'["Alice"] \in {"raised", "none", "key"}
        /\ at'["Alice"] = "hash" => Corrects("Alice") /\ result'["Alice"] = "running"
        /\ at'["Alice"] = "hash" => ~Stops("Alice", {})
        /\ result'["Alice"] = "key" => ~TooNoisy /\ Clean("Alice") /\ key'["Alice"] = RawKey({})
        /\ result["Bob"] = "key" => result'["Alice"] = "key"
    BY <1>1, <1>3 DEF TypeOK, Raise, Leave, Goto, Side, Clean, Corrects, Stops
  <1>5. Linked' /\ NeverExits'
    BY <1>1, <1>2, <1>4 DEF Order, Linked, NeverExits, Side
  <1>6. Flow'
    BY <1>1, <1>2, <1>4, Messages, SameData
    DEF Order, Flow, BeforeBases, AwaitsI, AwaitsQber, Hashes, AliceOver, BobPlaces, Fresh, Clean,
      Corrects
  <1>7. AliceKeySound' /\ BobKeySound'
    BY <1>1, <1>2, <1>4, SameData DEF Order, AliceKeySound, BobKeySound
  <1> QED
    BY <1>5, <1>6, <1>7 DEF Order

\* What a kill leaves of a box with at most one message.
LEMMA CutBox ==
  ASSUME NEW s, NEW k \in 0..Len(s)
  PROVE  /\ s = <<>> => SubSeq(s, 1, k) = <<>>
         /\ \A m \in ToAlice \cup ToBob :
              s \in {<<>>, <<m>>} => SubSeq(s, 1, k) \in {<<>>, <<m>>}
  <1> DEFINE Msg == ToAlice \cup ToBob
  <1> HIDE DEF Msg
  <1>1. CASE s = <<>>
    <2> k = 0
      BY <1>1
    <2> QED
      BY <1>1, Cuts
  <1>2. ASSUME NEW m \in Msg, s = <<m>>
        PROVE  SubSeq(s, 1, k) \in {<<>>, <<m>>}
    <2> k \in {0, 1}
      BY <1>2
    <2> QED
      BY <1>2, Cuts
  <1>3. \A m \in Msg : s \in {<<>>, <<m>>} => SubSeq(s, 1, k) \in {<<>>, <<m>>}
    BY <1>1, <1>2
  <1> QED
    BY <1>1, <1>3 DEF Msg

LEMMA KillOrder == ASSUME TypeOK, Order, NEW p \in Side, Kill(p) PROVE Order'
  <1> UNCHANGED <<large, dataVars>>
    BY DEF Kill
  <1>1. CASE p = "Alice"
    <2>1. /\ at'["Alice"] = "over" /\ result'["Alice"] = "killed" /\ result["Alice"] = "running"
          /\ at'["Bob"] = at["Bob"] /\ result'["Bob"] = result["Bob"] /\ key'["Bob"] = key["Bob"]
      BY <1>1 DEF TypeOK, Kill, Leave, Running, Side
    <2>2. PICK k \in 0..Len(inbox["Bob"]) : inbox'["Bob"] = SubSeq(inbox["Bob"], 1, k)
      BY <1>1 DEF TypeOK, Kill, Other, Side
    <2>3. \A m \in ToAlice \cup ToBob :
            inbox["Bob"] \in {<<>>, <<m>>} => inbox'["Bob"] \in {<<>>, <<m>>}
      BY <2>2, CutBox
    <2>4. at["Alice"] # "over" /\ at["Alice"] \in {"read", "send", "I", "qber", "hash"}
      BY <2>1 DEF Order, Linked, Flow, BobPlaces, Side
    <2>5. Linked' /\ NeverExits'
      BY <2>1 DEF Order, Linked, NeverExits, Side
    <2>6. Flow'
      <3>1. (BeforeBases /\ AwaitsI /\ AwaitsQber /\ Hashes)'
        BY <2>1 DEF BeforeBases, AwaitsI, AwaitsQber, Hashes
      <3>2. /\ at["Bob"] \in {"read", "theta1"} => inbox["Bob"] \in {<<>>, <<"theta1">>}
            /\ at["Bob"] = "subset" => inbox["Bob"] \in {<<>>, <<"subset">>}
            /\ at["Bob"] = "syndromes" => inbox["Bob"] \in {<<>>, <<"syndromes">>}
            /\ at["Bob"] = "alice_key" => inbox["Bob"] = <<>>
        BY <2>4 DEF Order, Flow, BeforeBases, AwaitsI, AwaitsQber, Hashes
      <3>3. AliceOver'
        BY <2>1, <2>3, <3>2, Messages DEF Order, Flow, BobPlaces, AliceOver
      <3>4. BobPlaces' /\ Fresh'
        BY <2>1, SameData DEF Order, Flow, BobPlaces, Fresh, dataVars
      <3> QED
        BY <3>1, <3>3, <3>4 DEF Flow
    <2>7. AliceKeySound' /\ BobKeySound'
      BY <2>1, SameData DEF Order, AliceKeySound, BobKeySound
    <2> QED
      BY <2>5, <2>6, <2>7 DEF Order
  <1>2. CASE p = "Bob"
    <2>1. /\ at'["Bob"] = "over" /\ result'["Bob"] = "killed" /\ result["Bob"] = "running"
          /\ at'["Alice"] = at["Alice"] /\ result'["Alice"] = result["Alice"]
          /\ key'["Alice"] = key["Alice"] /\ inbox'["Bob"] = inbox["Bob"]
      BY <1>2 DEF TypeOK, Kill, Leave, Running, Other, Side
    <2>2. PICK k \in 0..Len(inbox["Alice"]) : inbox'["Alice"] = SubSeq(inbox["Alice"], 1, k)
      BY <1>2 DEF TypeOK, Kill, Other, Side
    <2>3. \A m \in ToAlice \cup ToBob :
            inbox["Alice"] \in {<<>>, <<m>>} => inbox'["Alice"] \in {<<>>, <<m>>}
      BY <2>2, CutBox
    <2>4. inbox["Alice"] = <<>> => inbox'["Alice"] = <<>>
      BY <2>2, CutBox
    <2>5. Linked' /\ NeverExits'
      BY <2>1 DEF Order, Linked, NeverExits, Side
    <2>6. Flow'
      BY <2>1, <2>3, Messages, SameData
      DEF Order, Flow, BeforeBases, AwaitsI, AwaitsQber, Hashes, AliceOver, BobPlaces, Fresh
    <2>7. AliceKeySound' /\ BobKeySound'
      BY <2>1, SameData DEF Order, AliceKeySound, BobKeySound
    <2> QED
      BY <2>5, <2>6, <2>7 DEF Order
  <1> QED
    BY <1>1, <1>2 DEF Side

-----------------------------------------------------------------------------
(* The theorems.                                                           *)

LEMMA InvInit == Init => QKDInv
  <1> SUFFICES ASSUME Init PROVE QKDInv
    OBVIOUS
  <1>1. TypeOK
    <2> NoKey \in Key /\ Rest = 0 /\ Verified = 0
      BY DEF Init, NoKey, Key, Rest, Verified
    <2> <<>> \in Seq(ToAlice \cup ToBob)
      OBVIOUS
    <2> QED
      BY DEF Init, TypeOK
  <1>2. Flow
    BY DEF Init, Flow, BeforeBases, AwaitsI, AwaitsQber, Hashes, AliceOver, BobPlaces, Fresh, Side
  <1> QED
    BY <1>1, <1>2 DEF Init, QKDInv, Linked, AliceKeySound, BobKeySound, NeverExits, Side

LEMMA InvNext == QKDInv /\ [Next]_vars => QKDInv'
  <1> SUFFICES ASSUME QKDInv, [Next]_vars PROVE QKDInv'
    OBVIOUS
  <1>1. TypeOK /\ Order /\ Fresh
    BY DEF QKDInv, Order, Flow
  <1>2. TypeOK'
    BY <1>1, TypedNext
  <1>3. CASE UNCHANGED vars
    <2>1. UNCHANGED <<at, result, key, data, inbox>> /\ UNCHANGED <<large, dataVars>>
      BY <1>3 DEF vars
    <2>2. (Linked /\ Flow /\ NeverExits)'
      BY <1>1, <2>1, SameData
      DEF Order, Linked, Flow, NeverExits, BeforeBases, AwaitsI, AwaitsQber, Hashes, AliceOver,
        BobPlaces, Fresh, dataVars
    <2>3. (AliceKeySound /\ BobKeySound)'
      BY <1>1, <2>1, SameData DEF Order, AliceKeySound, BobKeySound, dataVars
    <2> QED
      BY <1>2, <2>2, <2>3 DEF QKDInv
  <1>4. CASE Next
    <2>1. Order'
      BY <1>1, <1>4, ReadOrder, StopFailsOrder, SendBasesOrder, MatchBasesOrder, SendSubsetOrder,
        MeasureQberOrder, DecideOnQberOrder, ReturnKeyOrder, ReceiveSyndromesOrder, DecodeOrder,
        EndOfStreamOrder, KillOrder
      DEF Next, AliceStep, BobStep, Side
    <2> QED
      BY <1>2, <2>1 DEF Order, QKDInv
  <1> QED
    BY <1>3, <1>4

LEMMA AlwaysInv == Spec => []QKDInv
  BY InvInit, InvNext, PTL DEF Spec

\* Every variable of the exchange keeps its type (run_protocol of both sides).
THEOREM TypeCorrect == Spec => []TypeOK
  <1>1. QKDInv => TypeOK
    BY DEF QKDInv
  <1> QED
    BY <1>1, AlwaysInv, PTL

\* read_matrix is never asked for a rate it exits on: zero and what is above the
\* threshold are handled before it is called.
THEOREM ExitSafety == Spec => []NeverExits
  <1>1. QKDInv => NeverExits
    BY DEF QKDInv
  <1> QED
    BY <1>1, AlwaysInv, PTL

LEMMA SoundKeysMatch == QKDInv => KeysMatch
  <1> SUFFICES ASSUME QKDInv, result["Alice"] = "key", result["Bob"] = "key"
               PROVE  KeysMatch
    BY DEF KeysMatch, Side
  <1>e. errors \in Nat
    BY DEF QKDInv, TypeOK, Verified, Rest
  <1>1. CASE Clean("Alice")
    <2>1. key["Alice"] = RawKey({}) /\ key["Bob"] = RawKey(noisy)
      BY <1>1 DEF QKDInv, AliceKeySound, BobKeySound, Corrects, Clean
    <2>2. /\ key["Alice"].bits = key["Bob"].bits /\ key["Alice"].leak = key["Bob"].leak
          /\ key["Alice"].amplified = key["Bob"].amplified
      BY <2>1 DEF RawKey
    <2>3. ~(errors > 0)
      BY <1>1, <1>e DEF Clean
    <2> QED
      BY <2>1, <2>2, <2>3 DEF KeysMatch
  <1>2. CASE ~Clean("Alice")
    <2>1. key["Alice"] = FinalKey("Alice", {})
      BY <1>2 DEF QKDInv, AliceKeySound, Clean
    <2>2. IF SyndromesFit
          THEN \E wrong \in SUBSET NoisyBits : key["Bob"] = FinalKey("Bob", wrong)
          ELSE key["Bob"] = EmptyKey
      BY <1>2 DEF QKDInv, BobKeySound, Clean
    <2>3. CASE EccBlock("Alice") # EccBlock("Bob")
      <3>1. errors > 0
        BY <1>2, <1>e DEF Clean
      <3> QED
        BY <2>1, <2>2, <2>3, <3>1 DEF KeysMatch, SyndromesFit
    <2>4. CASE EccBlock("Alice") = EccBlock("Bob")
      <3>1. PICK wrong \in SUBSET NoisyBits : key["Bob"] = FinalKey("Bob", wrong)
        BY <2>2, <2>4 DEF SyndromesFit
      <3>2. Blocks("Alice") = Blocks("Bob")
        BY <2>4 DEF Blocks
      <3>3. noisy = {} => NoisyBits = {}
        BY DEF NoisyBits
      <3>4. /\ key["Alice"].bits = key["Bob"].bits /\ key["Alice"].leak = key["Bob"].leak
            /\ key["Alice"].amplified = key["Bob"].amplified
        BY <2>1, <2>4, <3>1, <3>2 DEF FinalKey
      <3>5. noisy = {} => key["Alice"] = key["Bob"]
        BY <2>1, <2>4, <3>1, <3>2, <3>3 DEF FinalKey
      <3> QED
        BY <2>4, <3>4, <3>5 DEF KeysMatch
    <2> QED
      BY <2>3, <2>4
  <1> QED
    BY <1>1, <1>2

\* Two keys are of one length and went through the same steps, and are equal where the
\* halves were; when the sides corrected with different codes, Bob's is empty
\* (run_protocol's decision on measured_qber, read_matrix, EC_ldpc).
THEOREM KeySafety == Spec => []KeysMatch
  BY SoundKeysMatch, AlwaysInv, PTL

-----------------------------------------------------------------------------
(* The exchange implements KeyAgreement.                                   *)

\* A step ends at most one side, and a side that has ended stays so.
LEMMA OneLeaves ==
  ASSUME QKDInv, [Next]_vars
  PROVE  \E p \in Side : /\ result'[Other(p)] = result[Other(p)]
                         /\ result[p] # "running" => result'[p] = result[p]
  <1> DEFINE Moves(p) == Running(p) /\ (\/ \E r, k : Leave(p, r, k)
                                        \/ \E l : Goto(p, l))
  <1>1. ASSUME NEW p \in Side, Moves(p)
        PROVE  /\ result'[Other(p)] = result[Other(p)]
               /\ result[p] # "running" => result'[p] = result[p]
    BY <1>1 DEF QKDInv, TypeOK, Leave, Goto, Running, Other, Side
  <1>2. \A p \in Side : at[p] # "over" => Running(p)
    BY DEF QKDInv, Linked, Running
  <1>3. ASSUME Next PROVE \E p \in Side : Moves(p)
    <2>1. ASSUME NEW p \in Side, Read(p) PROVE Moves(p)
      BY <1>2, <2>1 DEF Read
    <2>2. ASSUME NEW p \in Side, EndOfStream(p) PROVE Moves(p)
      BY <1>2, <2>2 DEF EndOfStream, Raise, ToAlice, ToBob
    <2>3. ASSUME NEW p \in Side, Kill(p) PROVE Moves(p)
      BY <2>3 DEF Kill
    <2>4. StopFails \/ SendBases \/ SendSubset \/ DecideOnQber \/ ReturnKey => Moves("Alice")
      BY <1>2
      DEF StopFails, SendBases, SendSubset, DecideOnQber, ReturnKey, Receives, Send, Stops, Raise,
        Side
    <2>5. MatchBases \/ MeasureQber \/ ReceiveSyndromes \/ Decode => Moves("Bob")
      BY <1>2
      DEF MatchBases, MeasureQber, ReceiveSyndromes, Decode, Receives, Send, Stops, Raise, Side
    <2> QED
      BY <1>3, <2>1, <2>2, <2>3, <2>4, <2>5 DEF Next, AliceStep, BobStep, Side
  <1>4. CASE UNCHANGED vars
    BY <1>4 DEF vars, Side
  <1> QED
    BY <1>1, <1>3, <1>4

LEMMA AgreementInit == Init => Agreement!Init
  BY DEF Init, Agreement!Init, Outcome, Side

LEMMA AgreementStep ==
  ASSUME QKDInv, QKDInv', [Next]_vars
  PROVE  [Agreement!Next]_(Agreement!vars)
  <1>1. /\ result \in [Side -> {"running", "key", "none", "raised", "exit", "killed"}]
        /\ result' \in [Side -> {"running", "key", "none", "raised", "exit", "killed"}]
    BY DEF QKDInv, TypeOK
  <1>2. result'["Bob"] = "key" => result'["Alice"] \in {"running", "key", "killed"}
    BY DEF QKDInv, BobKeySound
  <1>3. PICK p \in Side : /\ result'[Other(p)] = result[Other(p)]
                          /\ result[p] # "running" => result'[p] = result[p]
    BY OneLeaves
  <1> USE DEF Outcome, Agreement!Next, Agreement!vars, Agreement!AliceKey, Agreement!AliceNone,
        Agreement!AliceGone, Agreement!PeerKey, Agreement!PeerNone
  <1>4. CASE p = "Alice"
    BY <1>1, <1>2, <1>3, <1>4 DEF Other, Side
  <1>5. CASE p = "Bob"
    BY <1>1, <1>2, <1>3, <1>5 DEF Other, Side
  <1> QED
    BY <1>4, <1>5 DEF Side

\* Alice never gives up on a server that holds a key, whatever is cut, killed or missing.
THEOREM AgreementSafety == Spec => AgreementSpec
  BY AgreementInit, AgreementStep, AlwaysInv, PTL DEF Spec, AgreementSpec, Agreement!Spec
=============================================================================
