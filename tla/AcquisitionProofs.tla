-------------------------- MODULE AcquisitionProofs --------------------------
(***************************************************************************)
(* What the strings of the token exchange are, for streams, batches, names *)
(* and integers of any size: the pulses measured, whatever way they went.  *)
(***************************************************************************)
EXTENDS Acquisition, FiniteSetTheorems, FunctionTheorems, WellFoundedInduction, TLAPS

-----------------------------------------------------------------------------
(* Induction over the naturals, from the well-foundedness of <.            *)

Below == {p \in Nat \X Nat : p[1] < p[2]}

LEMMA BelowWellFounded == IsWellFoundedOn(Below, Nat)
  BY NatLessThanWellFounded DEF Below, OpToRel

LEMMA Induction ==
  ASSUME NEW S, 0 \in S, \A n \in Nat : n \in S => n + 1 \in S
  PROVE  Nat \subseteq S
  <1> DEFINE T == Nat \ S
  <1> SUFFICES ASSUME T # {} PROVE FALSE
    OBVIOUS
  <1>1. PICK least \in T : \A other \in T : <<other, least>> \notin Below
    BY WFMin, BelowWellFounded
  <1>2. least - 1 \in T /\ least \in Nat
    OBVIOUS
  <1>3. <<least - 1, least>> \in Below
    BY <1>2 DEF Below
  <1> QED
    BY <1>1, <1>2, <1>3

-----------------------------------------------------------------------------
(* Division with a remainder.                                              *)

LEMMA Division ==
  ASSUME NEW a \in Nat, NEW d \in Nat \ {0}
  PROVE  /\ a \div d \in Nat /\ a % d \in 0..(d - 1)
         /\ a = (d * (a \div d)) + (a % d)
  OBVIOUS

LEMMA Quotient ==
  ASSUME NEW d \in Nat \ {0}, NEW q \in Nat, NEW r \in 0..(d - 1)
  PROVE  ((d * q) + r) \div d = q /\ ((d * q) + r) % d = r
  OBVIOUS

LEMMA Distribute ==
  ASSUME NEW a \in Nat, NEW b \in Nat, NEW c \in Nat
  PROVE  /\ (a + b) * c = (a * c) + (b * c) /\ c * (a + b) = (c * a) + (c * b)
         /\ a * c \in Nat /\ c * a = a * c
  OBVIOUS

-----------------------------------------------------------------------------
(* Pieces of sequences.                                                    *)

LEMMA Cut ==
  ASSUME NEW S, NEW s \in Seq(S), NEW m \in Nat, NEW n \in Nat, m + n <= Len(s)
  PROVE  /\ SubSeq(s, m + 1, m + n) \in Seq(S) /\ Len(SubSeq(s, m + 1, m + n)) = n
         /\ \A j \in 1..n : SubSeq(s, m + 1, m + n)[j] = s[m + j]
  OBVIOUS

LEMMA Joined ==
  ASSUME NEW S, NEW r \in Seq(S), NEW s \in Seq(S)
  PROVE  /\ r \o s \in Seq(S) /\ Len(r \o s) = Len(r) + Len(s)
         /\ \A k \in 1..Len(r) : (r \o s)[k] = r[k]
         /\ \A k \in 1..Len(s) : (r \o s)[Len(r) + k] = s[k]
  OBVIOUS

-----------------------------------------------------------------------------
(* Bits packed one after the other into an integer (list_to_int).          *)

\* The integer the first k bits of a list spell, the last of them being bit 0.
Spelt(bits, k) == {p \in Nat : p < k /\ bits[k - p] = 1}

\* result is the table of BitByBit.
Results(bits, result) ==
  result = [k \in 0..Len(bits) |-> IF k = 0 THEN {} ELSE ShiftIn(result[k - 1], bits[k])]

LEMMA SpeltShift ==
  ASSUME NEW bits \in Seq(Bit), NEW k \in 1..Len(bits)
  PROVE  Spelt(bits, k) = ShiftIn(Spelt(bits, k - 1), bits[k])
  <1>1. ASSUME NEW p \in Spelt(bits, k) PROVE p \in ShiftIn(Spelt(bits, k - 1), bits[k])
    <2>1. CASE p = 0
      BY <1>1, <2>1 DEF Spelt, ShiftIn
    <2>2. CASE p # 0
      <3>1. p - 1 \in Nat /\ (p - 1) + 1 = p /\ p - 1 < k - 1 /\ (k - 1) - (p - 1) = k - p
        BY <1>1, <2>2 DEF Spelt
      <3>2. p - 1 \in Spelt(bits, k - 1)
        BY <1>1, <3>1 DEF Spelt
      <3> QED
        BY <3>1, <3>2 DEF ShiftIn
    <2> QED
      BY <2>1, <2>2
  <1>2. ASSUME NEW p \in ShiftIn(Spelt(bits, k - 1), bits[k]) PROVE p \in Spelt(bits, k)
    <2>1. CASE p \in IF bits[k] = 1 THEN {0} ELSE {}
      <3>1. p = 0 /\ bits[k] = 1 /\ k - 0 = k /\ 0 < k
        BY <2>1
      <3> QED
        BY <3>1 DEF Spelt
    <2>2. CASE \E q \in Spelt(bits, k - 1) : p = q + 1
      <3>1. PICK q \in Spelt(bits, k - 1) : p = q + 1
        BY <2>2
      <3>2. q \in Nat /\ q < k - 1 /\ bits[(k - 1) - q] = 1
        BY DEF Spelt
      <3>3. (k - 1) - q = k - p /\ p \in Nat /\ p < k
        BY <3>1, <3>2
      <3> QED
        BY <3>2, <3>3 DEF Spelt
    <2> QED
      BY <1>2, <2>1, <2>2 DEF ShiftIn
  <1> QED
    BY <1>1, <1>2

LEMMA ResultsSpelt ==
  ASSUME NEW bits \in Seq(Bit), NEW result
  PROVE  Results(bits, result) <=> result = [k \in 0..Len(bits) |-> Spelt(bits, k)]
  <1>0. Spelt(bits, 0) = {} /\ Len(bits) \in Nat
    BY DEF Spelt
  <1>1. ASSUME Results(bits, result) PROVE result = [k \in 0..Len(bits) |-> Spelt(bits, k)]
    <2> DEFINE S == {n \in Nat : n <= Len(bits) => result[n] = Spelt(bits, n)}
    <2>1. \A k \in 0..Len(bits) :
            result[k] = IF k = 0 THEN {} ELSE ShiftIn(result[k - 1], bits[k])
      BY <1>1 DEF Results
    <2>2. 0 \in S
      <3>1. 0 \in 0..Len(bits)
        BY <1>0
      <3> QED
        BY <1>0, <2>1, <3>1
    <2>3. ASSUME NEW n \in Nat, n \in S, n + 1 <= Len(bits) PROVE result[n + 1] = Spelt(bits, n + 1)
      <3>1. n + 1 \in 1..Len(bits) /\ n + 1 \in 0..Len(bits) /\ n + 1 # 0 /\ (n + 1) - 1 = n
        BY <1>0, <2>3
      <3>2. result[n] = Spelt(bits, n)
        BY <1>0, <2>3
      <3>3. result[n + 1] = ShiftIn(result[n], bits[n + 1])
        BY <2>1, <3>1
      <3> QED
        BY <3>1, <3>2, <3>3, SpeltShift
    <2>4. Nat \subseteq S
      <3>1. \A n \in Nat : n \in S => n + 1 \in S
        BY <2>3
      <3> HIDE DEF S
      <3> QED
        BY <2>2, <3>1, Induction
    <2>5. \A k \in 0..Len(bits) : result[k] = Spelt(bits, k)
      BY <1>0, <2>4
    <2>6. result = [k \in 0..Len(bits) |-> result[k]]
      BY <1>1 DEF Results
    <2> QED
      BY <2>5, <2>6
  <1>2. ASSUME result = [k \in 0..Len(bits) |-> Spelt(bits, k)] PROVE Results(bits, result)
    <2>1. ASSUME NEW k \in 0..Len(bits)
          PROVE  result[k] = IF k = 0 THEN {} ELSE ShiftIn(result[k - 1], bits[k])
      <3>1. CASE k = 0
        BY <1>0, <1>2, <3>1
      <3>2. CASE k # 0
        <4>1. k \in 1..Len(bits) /\ k - 1 \in 0..Len(bits)
          BY <1>0, <3>2
        <4>2. result[k] = Spelt(bits, k) /\ result[k - 1] = Spelt(bits, k - 1)
          BY <1>2, <4>1
        <4> QED
          BY <3>2, <4>1, <4>2, SpeltShift
      <3> QED
        BY <3>1, <3>2
    <2>2. result = [k \in 0..Len(bits) |-> result[k]]
      BY <1>2
    <2> QED
      BY <2>1, <2>2 DEF Results
  <1> QED
    BY <1>1, <1>2

LEMMA BitByBitSpelt ==
  ASSUME NEW bits \in Seq(Bit)
  PROVE  BitByBit(bits) = Spelt(bits, Len(bits))
  <1> DEFINE table == CHOOSE result : Results(bits, result)
  <1>1. Results(bits, table)
    <2>1. \E result : Results(bits, result)
      BY ResultsSpelt
    <2> QED
      BY <2>1, Zenon
  <1>2. BitByBit(bits) = table[Len(bits)]
    BY Zenon DEF BitByBit, Results
  <1> HIDE DEF table
  <1>3. table[Len(bits)] = Spelt(bits, Len(bits))
    BY <1>1, ResultsSpelt
  <1> QED
    BY <1>2, <1>3

\* Zeros in front of the list make its length a multiple of a byte's.
LEMMA PaddedBits ==
  ASSUME NEW bits \in Seq(Bit)
  PROVE  \E z, q \in Nat :
           /\ Padded(bits) \in Seq(Bit)
           /\ Len(Padded(bits)) = z + Len(bits) /\ z + Len(bits) = ByteBits * q
           /\ \A k \in 1..z : Padded(bits)[k] = 0
           /\ \A k \in 1..Len(bits) : Padded(bits)[z + k] = bits[k]
  <1> DEFINE r == Len(bits) % ByteBits
             z == (ByteBits - r) % ByteBits
  <1>1. ByteBits \in Nat \ {0} /\ Len(bits) \in Nat
    BY PackingAssumption
  <1>2. r \in 0..(ByteBits - 1) /\ Len(bits) = (ByteBits * (Len(bits) \div ByteBits)) + r
        /\ Len(bits) \div ByteBits \in Nat
    BY <1>1, Division
  <1> HIDE DEF r
  <1>3. z = IF r = 0 THEN 0 ELSE ByteBits - r
    <2>1. CASE r = 0
      BY <1>1, <2>1
    <2>2. CASE r # 0
      <3>1. ByteBits - r \in 0..(ByteBits - 1) /\ (ByteBits * 0) + (ByteBits - r) = ByteBits - r
        BY <1>1, <1>2, <2>2
      <3> QED
        BY <1>1, <2>2, <3>1, Quotient
    <2> QED
      BY <2>1, <2>2
  <1>4. Padded(bits) = ZeroBits(z) \o bits
    BY DEF Padded, r
  <1> HIDE DEF z
  <1>5. z \in Nat /\ \E q \in Nat : z + Len(bits) = ByteBits * q
    <2> DEFINE n == Len(bits) \div ByteBits
    <2>1. n \in Nat /\ Len(bits) = (ByteBits * n) + r
      BY <1>2
    <2> HIDE DEF n
    <2>2. ByteBits * (n + 1) = (ByteBits * n) + ByteBits
      BY <1>1, <2>1
    <2>3. CASE r = 0
      BY <1>1, <1>3, <2>1, <2>3
    <2>4. CASE r # 0
      <3>1. z = ByteBits - r
        BY <1>3, <2>4
      <3>2. ByteBits * n \in Nat
        BY <1>1, <2>1
      <3>3. z + Len(bits) = ByteBits * (n + 1)
        BY <1>1, <1>2, <2>1, <2>2, <3>1, <3>2
      <3> QED
        BY <1>1, <1>2, <2>1, <3>1, <3>3
    <2> QED
      BY <2>3, <2>4
  <1>6. ZeroBits(z) \in Seq(Bit) /\ Len(ZeroBits(z)) = z /\ \A k \in 1..z : ZeroBits(z)[k] = 0
    BY <1>5 DEF ZeroBits, Bit
  <1>7. /\ Padded(bits) \in Seq(Bit) /\ Len(Padded(bits)) = z + Len(bits)
        /\ \A k \in 1..z : Padded(bits)[k] = 0
        /\ \A k \in 1..Len(bits) : Padded(bits)[z + k] = bits[k]
    <2> DEFINE zeros == ZeroBits(z)
    <2>1. zeros \in Seq(Bit) /\ Len(zeros) = z /\ \A k \in 1..z : zeros[k] = 0
      BY <1>6
    <2>2. Padded(bits) = zeros \o bits
      BY <1>4
    <2> HIDE DEF zeros
    <2>3. /\ Len(zeros \o bits) = Len(zeros) + Len(bits) /\ zeros \o bits \in Seq(Bit)
          /\ \A k \in 1..Len(zeros) : (zeros \o bits)[k] = zeros[k]
          /\ \A k \in 1..Len(bits) : (zeros \o bits)[Len(zeros) + k] = bits[k]
      <3>1. zeros \in Seq(Bit) /\ bits \in Seq(Bit)
        BY <2>1
      <3> QED
        BY ONLY <3>1, Joined
    <2> QED
      BY <2>1, <2>2, <2>3
  <1> QED
    BY <1>5, <1>7

\* Whole bytes, the first of them the highest.
LEMMA PackedSpelt ==
  ASSUME NEW P \in Seq(Bit), NEW q \in Nat, Len(P) = ByteBits * q
  PROVE  Packed(P) = Spelt(P, Len(P))
  <1> DEFINE bytes == Len(P) \div ByteBits
             part(g) == SubSeq(P, ((g - 1) * ByteBits) + 1, g * ByteBits)
             shifted(g) == {p + ((bytes - g) * ByteBits) : p \in BitByBit(part(g))}
  <1>1. ByteBits \in Nat \ {0}
    BY PackingAssumption
  <1>2. bytes = q
    <2>1. 0 \in 0..(ByteBits - 1) /\ (ByteBits * q) + 0 = Len(P)
      BY <1>1
    <2> QED
      BY <1>1, <2>1, Quotient
  <1>3. Packed(P) = UNION {shifted(g) : g \in 1..bytes}
    BY Zenon DEF Packed
  <1> HIDE DEF bytes
  <1>4. ASSUME NEW g \in 1..q
        PROVE  BitByBit(part(g)) = {p \in Nat : p < ByteBits /\ P[(g * ByteBits) - p] = 1}
    <2> DEFINE m == (g - 1) * ByteBits
    <2>1. m \in Nat /\ g * ByteBits = m + ByteBits /\ g * ByteBits <= Len(P)
      <3>1. g - 1 \in Nat /\ (g - 1) + 1 = g /\ q - g \in Nat /\ g + (q - g) = q /\ g \in Nat
        OBVIOUS
      <3>2. ((g - 1) + 1) * ByteBits = m + (1 * ByteBits) /\ m \in Nat
        BY <1>1, <3>1, Distribute
      <3>3. /\ ByteBits * (g + (q - g)) = (ByteBits * g) + (ByteBits * (q - g))
            /\ ByteBits * (q - g) \in Nat /\ ByteBits * g = g * ByteBits /\ g * ByteBits \in Nat
        BY <1>1, <3>1, Distribute
      <3> HIDE DEF m
      <3>4. g * ByteBits = m + ByteBits
        BY <1>1, <3>1, <3>2
      <3> QED
        BY <3>1, <3>2, <3>3, <3>4
    <2>2. part(g) = SubSeq(P, m + 1, m + ByteBits)
      BY <2>1
    <2> HIDE DEF m
    <2>3. /\ part(g) \in Seq(Bit) /\ Len(part(g)) = ByteBits
          /\ \A j \in 1..ByteBits : part(g)[j] = P[m + j]
      BY <1>1, <2>1, <2>2, Cut
    <2>4. BitByBit(part(g)) = {p \in Nat : p < ByteBits /\ part(g)[ByteBits - p] = 1}
      BY <2>3, BitByBitSpelt DEF Spelt
    <2>5. ASSUME NEW p \in Nat, p < ByteBits
          PROVE  part(g)[ByteBits - p] = P[(g * ByteBits) - p]
      <3>1. ByteBits - p \in 1..ByteBits /\ m + (ByteBits - p) = (g * ByteBits) - p
        BY <1>1, <2>1, <2>5
      <3> QED
        BY <2>3, <3>1
    <2> HIDE DEF part
    <2> QED
      BY <2>4, <2>5
  <1>5. ASSUME NEW g \in 1..q, NEW h \in 0..(q - 1), h = q - g, NEW p \in Nat, p < ByteBits
        PROVE  /\ p + (h * ByteBits) \in Nat /\ p + (h * ByteBits) < Len(P)
               /\ Len(P) - (p + (h * ByteBits)) = (g * ByteBits) - p
    <2>1. g - 1 \in Nat /\ (g - 1) + 1 = g /\ h \in Nat /\ g + h = q /\ g \in Nat
      BY <1>5
    <2>2. ((g - 1) + 1) * ByteBits = ((g - 1) * ByteBits) + (1 * ByteBits)
          /\ (g - 1) * ByteBits \in Nat
      BY <1>1, <2>1, Distribute
    <2>3. /\ ByteBits * (g + h) = (ByteBits * g) + (ByteBits * h) /\ h * ByteBits \in Nat
          /\ ByteBits * g = g * ByteBits /\ ByteBits * h = h * ByteBits /\ g * ByteBits \in Nat
      BY <1>1, <2>1, Distribute
    <2>4. Len(P) = (g * ByteBits) + (h * ByteBits) /\ g * ByteBits >= ByteBits
      BY <1>1, <2>1, <2>2, <2>3
    <2> QED
      BY <1>1, <1>5, <2>3, <2>4
  <1>6. ASSUME NEW g \in 1..q, NEW v \in shifted(g) PROVE v \in Spelt(P, Len(P))
    <2>1. PICK p \in BitByBit(part(g)) : v = p + ((q - g) * ByteBits)
      BY <1>2
    <2>2. p \in Nat /\ p < ByteBits /\ P[(g * ByteBits) - p] = 1 /\ q - g \in 0..(q - 1)
      BY <1>4
    <2>3. v \in Nat /\ v < Len(P) /\ Len(P) - v = (g * ByteBits) - p
      BY <1>5, <2>1, <2>2
    <2> QED
      BY <2>2, <2>3 DEF Spelt
  <1>7. ASSUME NEW v \in Spelt(P, Len(P)) PROVE \E g \in 1..q : v \in shifted(g)
    <2>1. v \in Nat /\ v < Len(P) /\ P[Len(P) - v] = 1
      BY DEF Spelt
    <2> DEFINE h == v \div ByteBits
               p == v % ByteBits
               g == q - h
    <2>2. h \in Nat /\ p \in 0..(ByteBits - 1) /\ v = (ByteBits * h) + p
      BY <1>1, <2>1, Division
    <2> HIDE DEF h, p
    <2>3. h < q
      <3> SUFFICES ASSUME q <= h PROVE FALSE
        BY <2>2
      <3>1. h - q \in Nat /\ q + (h - q) = h
        BY <2>2
      <3>2. ByteBits * (q + (h - q)) = (ByteBits * q) + (ByteBits * (h - q))
            /\ ByteBits * (h - q) \in Nat /\ ByteBits * q \in Nat
        BY <1>1, <3>1, Distribute
      <3> QED
        BY <1>1, <2>1, <2>2, <3>1, <3>2
    <2>4. g \in 1..q /\ q - g = h /\ h \in 0..(q - 1) /\ p \in Nat /\ p < ByteBits
          /\ ByteBits * h = h * ByteBits /\ ByteBits * h \in Nat
      BY <1>1, <2>2, <2>3, Distribute
    <2> HIDE DEF g
    <2>5. v = p + (h * ByteBits)
      BY <2>2, <2>4
    <2>6. Len(P) - v = (g * ByteBits) - p
      BY <1>5, <2>4, <2>5
    <2>7. p \in BitByBit(part(g))
      BY <1>4, <2>1, <2>4, <2>6
    <2>8. v \in shifted(g)
      BY <1>2, <2>4, <2>5, <2>7
    <2> QED
      BY <2>4, <2>8
  <1> HIDE DEF shifted
  <1> QED
    BY <1>2, <1>3, <1>6, <1>7

LEMMA ListToInt ==
  ASSUME NEW bits \in Seq(Bit)
  PROVE  list_to_int(bits) = Spelt(bits, Len(bits))
  <1>1. PICK z \in Nat, q \in Nat :
          /\ Padded(bits) \in Seq(Bit)
          /\ Len(Padded(bits)) = z + Len(bits) /\ z + Len(bits) = ByteBits * q
          /\ \A k \in 1..z : Padded(bits)[k] = 0
          /\ \A k \in 1..Len(bits) : Padded(bits)[z + k] = bits[k]
    BY PaddedBits
  <1>2. Packed(Padded(bits)) = Spelt(Padded(bits), z + Len(bits))
    BY <1>1, PackedSpelt
  <1>3. ASSUME NEW p \in Nat
        PROVE  p < z + Len(bits) /\ Padded(bits)[(z + Len(bits)) - p] = 1
                 <=> p < Len(bits) /\ bits[Len(bits) - p] = 1
    <2>1. CASE p < Len(bits)
      <3>1. Len(bits) - p \in 1..Len(bits) /\ (z + Len(bits)) - p = z + (Len(bits) - p)
            /\ p < z + Len(bits)
        BY <2>1
      <3> QED
        BY <1>1, <2>1, <3>1
    <2>2. CASE ~(p < Len(bits))
      <3>1. p < z + Len(bits) => (z + Len(bits)) - p \in 1..z
        BY <2>2
      <3> QED
        BY <1>1, <2>2, <3>1
    <2> QED
      BY <2>1, <2>2
  <1>4. Spelt(Padded(bits), z + Len(bits)) = Spelt(bits, Len(bits))
    BY <1>3 DEF Spelt
  <1> QED
    BY <1>2, <1>4, BitByBitSpelt DEF list_to_int

LEMMA StrToInt ==
  ASSUME NEW bits \in Seq(Bit)
  PROVE  str_to_int(bits) = Spelt(bits, Len(bits))
  <1>1. ASSUME NEW k \in DOMAIN bits, bits[k] = 1 PROVE Len(bits) - k \in Spelt(bits, Len(bits))
    <2>1. Len(bits) - k \in Nat /\ Len(bits) - k < Len(bits) /\ Len(bits) - (Len(bits) - k) = k
      OBVIOUS
    <2> QED
      BY <1>1, <2>1 DEF Spelt
  <1>2. ASSUME NEW p \in Spelt(bits, Len(bits)) PROVE p \in str_to_int(bits)
    <2>1. p \in Nat /\ p < Len(bits) /\ bits[Len(bits) - p] = 1
      BY DEF Spelt
    <2>2. Len(bits) - p \in DOMAIN bits /\ p = Len(bits) - (Len(bits) - p)
      BY <2>1
    <2> QED
      BY <2>1, <2>2 DEF str_to_int
  <1> QED
    BY <1>1, <1>2 DEF str_to_int

LEMMA Greatest ==
  ASSUME NEW n \in Nat, NEW S, S # {}, \A p \in S : p \in Nat /\ p < n
  PROVE  \E p \in S : \A q \in S : q <= p
  <1> DEFINE T == {n - p : p \in S}
  <1>1. T \subseteq Nat /\ T # {}
    OBVIOUS
  <1>2. PICK m \in T : \A k \in T : <<k, m>> \notin Below
    BY <1>1, WFMin, BelowWellFounded
  <1>3. PICK p \in S : m = n - p
    OBVIOUS
  <1>4. ASSUME NEW q \in S PROVE q <= p
    <2>1. n - q \in T /\ n - q \in Nat /\ m \in Nat
      OBVIOUS
    <2>2. ~(n - q < m)
      BY <1>2, <2>1 DEF Below
    <2> QED
      BY <1>3, <2>1, <2>2
  <1> QED
    BY <1>4

LEMMA IntToStrType ==
  ASSUME NEW n \in Nat, NEW S, \A p \in S : p \in Nat /\ p < n, NEW len \in Nat
  PROVE  int_to_str(S, len) \in Seq(Bit)
  <1> DEFINE width == IF \A p \in S : p < len THEN len
                      ELSE 1 + (CHOOSE p \in S : \A q \in S : q <= p)
  <1>1. width \in Nat
    <2>1. CASE \A p \in S : p < len
      BY <2>1
    <2>2. CASE ~ \A p \in S : p < len
      <3>1. \E p \in S : \A q \in S : q <= p
        BY <2>2, Greatest
      <3>2. (CHOOSE p \in S : \A q \in S : q <= p) \in S
        BY <3>1
      <3> QED
        BY <2>2, <3>2
    <2> QED
      BY <2>1, <2>2
  <1>2. int_to_str(S, len) = [k \in 1..width |-> IF width - k \in S THEN 1 ELSE 0]
    BY DEF int_to_str
  <1> HIDE DEF width
  <1> QED
    BY <1>1, <1>2 DEF Bit

\* Written out with as many digits as the list has, an integer is the list it was made of.
LEMMA BitsRestored ==
  ASSUME NEW bits \in Seq(Bit)
  PROVE  int_to_str(list_to_int(bits), Len(bits)) = bits
  <1>1. \A p \in Spelt(bits, Len(bits)) : p < Len(bits)
    BY DEF Spelt
  <1>2. int_to_str(Spelt(bits, Len(bits)), Len(bits)) =
          [k \in 1..Len(bits) |-> IF Len(bits) - k \in Spelt(bits, Len(bits)) THEN 1 ELSE 0]
    BY <1>1 DEF int_to_str
  <1>3. ASSUME NEW k \in 1..Len(bits)
        PROVE  bits[k] = IF Len(bits) - k \in Spelt(bits, Len(bits)) THEN 1 ELSE 0
    <2>1. Len(bits) - k \in Nat /\ Len(bits) - k < Len(bits) /\ Len(bits) - (Len(bits) - k) = k
      OBVIOUS
    <2>2. bits[k] \in {0, 1}
      BY DEF Bit
    <2> QED
      BY <2>1, <2>2 DEF Spelt
  <1>4. bits = [k \in 1..Len(bits) |-> bits[k]]
    OBVIOUS
  <1> QED
    BY <1>2, <1>3, <1>4, ListToInt

-----------------------------------------------------------------------------
(* Masks and names, repeated over a string.                                *)

LEMMA NameType ==
  ASSUME NEW p \in Name
  PROVE  p \in Seq(Bit) /\ Len(p) = M
  BY AcquisitionAssumption DEF Name

LEMMA XorType ==
  ASSUME NEW p \in Seq(Bit), NEW q \in Seq(Bit)
  PROVE  /\ xor_bits(p, q) \in Seq(Bit) /\ Len(xor_bits(p, q)) = Least(Len(p), Len(q))
         /\ \A k \in 1..Least(Len(p), Len(q)) : xor_bits(p, q)[k] = XorBit(p[k], q[k])
  BY DEF xor_bits, XorBit, Bit, Least

LEMMA RepeatType ==
  ASSUME NEW p \in Name, NEW times \in Nat, NEW n \in Nat
  PROVE  /\ Repeat(p, times, n) \in Seq(Bit) /\ Len(Repeat(p, times, n)) = Least(times * M, n)
         /\ \A k \in 1..Least(times * M, n) :
              /\ Repeat(p, times, n)[k] = p[((k - 1) % M) + 1]
              /\ ((k - 1) % M) + 1 \in 1..M
  <1> DEFINE len == Least(times * M, n)
  <1>1. M \in Nat \ {0} /\ Len(p) = M
    BY NameType, AcquisitionAssumption
  <1>2. len \in Nat
    <2>1. times * M \in Nat
      BY <1>1, Distribute
    <2> QED
      BY <2>1 DEF Least
  <1>3. Repeat(p, times, n) = [k \in 1..len |-> p[((k - 1) % M) + 1]]
    BY <1>1 DEF Repeat, Least
  <1> HIDE DEF len
  <1>4. ASSUME NEW k \in 1..len PROVE ((k - 1) % M) + 1 \in 1..M
    <2>1. k - 1 \in Nat
      BY <1>2
    <2>2. (k - 1) % M \in 0..(M - 1)
      BY <1>1, <2>1, Division
    <2> QED
      BY <1>1, <2>2
  <1>5. \A k \in 1..len : p[((k - 1) % M) + 1] \in Bit
    BY <1>4 DEF Name
  <1> QED
    BY <1>2, <1>3, <1>4, <1>5 DEF len

\* The place in a name that bit k of a string falls on.
Place(k) == ((k - 1) % M) + 1

LEMMA WholeBlocks ==
  ASSUME NEW n \in Nat
  PROVE  /\ n \div M \in Nat /\ M * (n \div M) \in Nat /\ M * (n \div M) = (n \div M) * M
         /\ M * (n \div M) <= n /\ n < (((n \div M) + 1) * M) /\ ((n \div M) + 1) * M \in Nat
         /\ (M * (n \div M)) \div M = n \div M
  <1>1. M \in Nat \ {0}
    BY AcquisitionAssumption
  <1>2. n \div M \in Nat /\ n % M \in 0..(M - 1) /\ n = (M * (n \div M)) + (n % M)
    BY <1>1, Division
  <1>3. /\ ((n \div M) + 1) * M = ((n \div M) * M) + (1 * M) /\ (n \div M) * M \in Nat
        /\ M * (n \div M) = (n \div M) * M
    BY <1>1, <1>2, Distribute
  <1>4. (M * (n \div M)) \div M = n \div M
    <2> DEFINE q == n \div M
    <2>1. q \in Nat
      BY <1>2
    <2> HIDE DEF q
    <2>2. 0 \in 0..(M - 1) /\ (M * q) + 0 = M * q
      BY <1>1, <2>1
    <2>3. (M * q) \div M = q
      BY <1>1, <2>1, <2>2, Quotient
    <2> QED
      BY <2>3 DEF q
  <1> QED
    BY <1>1, <1>2, <1>3, <1>4

\* y as Alice masks it, an agent's share as Bob blinds it, and what the agent makes of it.
LEMMA Blinded ==
  ASSUME NEW s \in Seq(Bit), NEW z \in Name
  PROVE  /\ Blind(s, z) \in Seq(Bit) /\ Len(Blind(s, z)) = Len(s)
         /\ \A k \in 1..Len(s) : Blind(s, z)[k] = XorBit(s[k], z[Place(k)]) /\ Place(k) \in 1..M
  <1> DEFINE times == (Len(s) \div M) + 1
             mask == Repeat(z, times, Len(s))
  <1>1. Len(s) \in Nat /\ times \in Nat /\ Least(times * M, Len(s)) = Len(s)
    <2>1. Len(s) \in Nat
      OBVIOUS
    <2>2. Len(s) \div M \in Nat /\ times * M \in Nat /\ Len(s) < times * M
      BY ONLY <2>1, WholeBlocks
    <2>3. times \in Nat
      BY <2>2
    <2> HIDE DEF times
    <2> QED
      BY <2>1, <2>2, <2>3 DEF Least
  <1>2. Blind(s, z) = xor_bits(s, mask)
    BY NameType DEF Blind
  <1> HIDE DEF times
  <1>3. /\ mask \in Seq(Bit) /\ Len(mask) = Len(s)
        /\ \A k \in 1..Len(s) : mask[k] = z[Place(k)] /\ Place(k) \in 1..M
    BY <1>1, RepeatType DEF Place
  <1> HIDE DEF mask
  <1>4. Least(Len(s), Len(mask)) = Len(s)
    BY <1>1, <1>3 DEF Least
  <1>5. /\ xor_bits(s, mask) \in Seq(Bit) /\ Len(xor_bits(s, mask)) = Least(Len(s), Len(mask))
        /\ \A k \in 1..Least(Len(s), Len(mask)) : xor_bits(s, mask)[k] = XorBit(s[k], mask[k])
    BY <1>3, XorType
  <1> QED
    BY <1>2, <1>3, <1>4, <1>5

\* Bob's blinding and an agent's unblinding are the same computation.
LEMMA NameOver ==
  ASSUME NEW s \in Seq(Bit), NEW p \in Name, NEW n, n = M * (Len(s) \div M)
  PROVE  /\ BlindFor(s, p) \in Seq(Bit) /\ Len(BlindFor(s, p)) = n /\ Unblind(s, p) = BlindFor(s, p)
         /\ \A k \in 1..n : BlindFor(s, p)[k] = XorBit(s[k], p[Place(k)]) /\ Place(k) \in 1..M
  <1> DEFINE times == Len(s) \div M
             name == Repeat(p, times, Len(s))
  <1>1. Len(s) \in Nat /\ times \in Nat /\ Least(times * M, Len(s)) = n /\ n \in Nat /\ n <= Len(s)
    <2>1. Len(s) \in Nat
      OBVIOUS
    <2>2. times \in Nat /\ times * M = n /\ n \in Nat /\ n <= Len(s)
      BY <2>1, WholeBlocks
    <2> QED
      BY <2>1, <2>2 DEF Least
  <1>2. BlindFor(s, p) = xor_bits(s, name) /\ Unblind(s, p) = xor_bits(s, name)
    BY NameType DEF BlindFor, Unblind
  <1> HIDE DEF times
  <1>3. /\ name \in Seq(Bit) /\ Len(name) = n
        /\ \A k \in 1..n : name[k] = p[Place(k)] /\ Place(k) \in 1..M
    BY <1>1, RepeatType DEF Place
  <1> HIDE DEF name
  <1>4. Least(Len(s), Len(name)) = n
    BY <1>1, <1>3 DEF Least
  <1>5. /\ xor_bits(s, name) \in Seq(Bit) /\ Len(xor_bits(s, name)) = Least(Len(s), Len(name))
        /\ \A k \in 1..Least(Len(s), Len(name)) : xor_bits(s, name)[k] = XorBit(s[k], name[k])
    BY <1>3, XorType
  <1> QED
    BY <1>1, <1>2, <1>3, <1>4, <1>5

LEMMA SeqsEqual ==
  ASSUME NEW S, NEW r \in Seq(S), NEW s \in Seq(S), Len(r) = Len(s),
         \A k \in 1..Len(s) : r[k] = s[k]
  PROVE  r = s
  OBVIOUS

Blocks(s) == SubSeq(s, 1, M * (Len(s) \div M))

LEMMA BlocksType ==
  ASSUME NEW s \in Seq(Bit)
  PROVE  /\ Blocks(s) \in Seq(Bit) /\ Len(Blocks(s)) = M * (Len(s) \div M)
         /\ M * (Len(s) \div M) \in Nat /\ M * (Len(s) \div M) <= Len(s)
         /\ \A k \in 1..(M * (Len(s) \div M)) : Blocks(s)[k] = s[k]
  <1> DEFINE n == M * (Len(s) \div M)
  <1>1. Len(s) \in Nat
    OBVIOUS
  <1>2. n \in Nat /\ n <= Len(s)
    BY <1>1, WholeBlocks
  <1>3. Blocks(s) = SubSeq(s, 0 + 1, 0 + n)
    BY <1>2 DEF Blocks
  <1> HIDE DEF n
  <1>4. /\ SubSeq(s, 0 + 1, 0 + n) \in Seq(Bit) /\ Len(SubSeq(s, 0 + 1, 0 + n)) = n
        /\ \A k \in 1..n : SubSeq(s, 0 + 1, 0 + n)[k] = s[0 + k]
    BY <1>1, <1>2, Cut
  <1>5. \A k \in 1..n : s[0 + k] = s[k]
    BY <1>2
  <1> QED
    BY <1>2, <1>3, <1>4, <1>5 DEF n

LEMMA MaskedName ==
  ASSUME NEW b \in Name, NEW z \in Name
  PROVE  xor_bits(b, z) \in Name /\ \A m \in 1..M : xor_bits(b, z)[m] = XorBit(b[m], z[m])
  <1>1. Least(M, M) = M /\ M \in Nat
    BY AcquisitionAssumption DEF Least
  <1>2. b \in Seq(Bit) /\ z \in Seq(Bit) /\ Len(b) = M /\ Len(z) = M
    BY NameType
  <1>3. /\ xor_bits(b, z) \in Seq(Bit) /\ Len(xor_bits(b, z)) = M
        /\ \A m \in 1..M : xor_bits(b, z)[m] = XorBit(b[m], z[m])
    <2>1. /\ xor_bits(b, z) \in Seq(Bit) /\ Len(xor_bits(b, z)) = Least(Len(b), Len(z))
          /\ \A m \in 1..Least(Len(b), Len(z)) : xor_bits(b, z)[m] = XorBit(b[m], z[m])
      BY <1>2, XorType
    <2> QED
      BY <1>1, <1>2, <2>1
  <1>4. xor_bits(b, z) \in [1..M -> Bit]
    BY <1>3
  <1> QED
    BY <1>3, <1>4 DEF Name

\* Bit by bit, an agent is left with Alice's bases where its name agrees with her b.
LEMMA UnblindedBits ==
  ASSUME NEW s \in Seq(Bit), NEW z \in Name, NEW b \in Name, NEW pid \in Name,
         NEW n, n = M * (Len(s) \div M)
  PROVE  LET share == d_tilde(Blind(s, z), xor_bits(b, z), pid)
         IN  /\ share \in Seq(Bit) /\ Len(share) = n
             /\ \A k \in 1..n : share[k] = s[k] <=> pid[Place(k)] = b[Place(k)]
  <1> DEFINE d == Blind(s, z)
             c == xor_bits(b, z)
             d_i == BlindFor(d, pid)
             share == Unblind(d_i, c)
  <1>1. /\ d \in Seq(Bit) /\ Len(d) = Len(s)
        /\ \A k \in 1..Len(s) : d[k] = XorBit(s[k], z[Place(k)])
    BY Blinded
  <1>2. c \in Name /\ \A m \in 1..M : c[m] = XorBit(b[m], z[m])
    BY MaskedName
  <1> HIDE DEF d, c
  <1>3. /\ d_i \in Seq(Bit) /\ Len(d_i) = n
        /\ \A k \in 1..n : d_i[k] = XorBit(d[k], pid[Place(k)]) /\ Place(k) \in 1..M
    BY <1>1, NameOver
  <1>4. n \in Nat /\ n <= Len(s) /\ n = M * (n \div M)
    <2>1. Len(s) \in Nat
      OBVIOUS
    <2> QED
      BY <2>1, WholeBlocks
  <1> HIDE DEF d_i
  <1>5. /\ share \in Seq(Bit) /\ Len(share) = n
        /\ \A k \in 1..n : share[k] = XorBit(d_i[k], c[Place(k)])
    <2>1. n = M * (Len(d_i) \div M)
      BY <1>3, <1>4
    <2>2. /\ BlindFor(d_i, c) \in Seq(Bit) /\ Len(BlindFor(d_i, c)) = n
          /\ Unblind(d_i, c) = BlindFor(d_i, c)
          /\ \A k \in 1..n : BlindFor(d_i, c)[k] = XorBit(d_i[k], c[Place(k)])
      BY <1>2, <1>3, <2>1, NameOver
    <2> QED
      BY <2>2
  <1>6. ASSUME NEW k \in 1..n PROVE share[k] = s[k] <=> pid[Place(k)] = b[Place(k)]
    <2>1. Place(k) \in 1..M /\ k \in 1..Len(s)
      BY <1>3, <1>4
    <2>2. /\ s[k] \in {0, 1} /\ z[Place(k)] \in {0, 1} /\ b[Place(k)] \in {0, 1}
          /\ pid[Place(k)] \in {0, 1}
      BY <2>1 DEF Name, Bit
    <2>3. share[k] = XorBit(XorBit(XorBit(s[k], z[Place(k)]), pid[Place(k)]),
                            XorBit(b[Place(k)], z[Place(k)]))
      BY <1>1, <1>2, <1>3, <1>5, <2>1
    <2> HIDE DEF share
    <2> QED
      BY <2>2, <2>3 DEF XorBit
  <1>7. share = d_tilde(Blind(s, z), xor_bits(b, z), pid)
    BY DEF d_tilde, d, c, d_i
  <1> HIDE DEF share
  <1> QED
    BY <1>5, <1>6, <1>7

LEMMA OnlyTheNamed ==
  ASSUME NEW s \in Seq(Bit), NEW z \in Name, NEW b \in Name, NEW pid \in Name
  PROVE  d_tilde(Blind(s, z), xor_bits(b, z), pid) = Blocks(s) <=> pid = b \/ Blocks(s) = <<>>
  <1> DEFINE n == M * (Len(s) \div M)
             share == d_tilde(Blind(s, z), xor_bits(b, z), pid)
  <1>1. /\ share \in Seq(Bit) /\ Len(share) = n
        /\ \A k \in 1..n : share[k] = s[k] <=> pid[Place(k)] = b[Place(k)]
    BY UnblindedBits
  <1>2. /\ Blocks(s) \in Seq(Bit) /\ Len(Blocks(s)) = n /\ n \in Nat /\ n <= Len(s)
        /\ \A k \in 1..n : Blocks(s)[k] = s[k]
    BY BlocksType
  <1>3. Len(s) \in Nat /\ Len(s) \div M \in Nat /\ M \in Nat \ {0}
    <2>1. Len(s) \in Nat
      OBVIOUS
    <2> QED
      BY <2>1, WholeBlocks, AcquisitionAssumption
  <1>4. n # 0 => M <= n
    <2> SUFFICES ASSUME n # 0 PROVE M <= n
      OBVIOUS
    <2> DEFINE q == Len(s) \div M
    <2>1. q \in Nat /\ n = M * q /\ M * 0 = 0
      BY <1>3
    <2> HIDE DEF q, n
    <2>2. q # 0
      BY <2>1
    <2>3. q - 1 \in Nat /\ (q - 1) + 1 = q
      BY <2>1, <2>2
    <2>4. M * ((q - 1) + 1) = (M * (q - 1)) + (M * 1) /\ M * (q - 1) \in Nat
      BY <1>3, <2>3, Distribute
    <2> QED
      BY <1>3, <2>1, <2>3, <2>4
  <1> HIDE DEF n, share
  <1>5. CASE pid = b
    <2>1. \A k \in 1..Len(Blocks(s)) : share[k] = Blocks(s)[k]
      BY <1>1, <1>2, <1>5
    <2>2. share = Blocks(s)
      BY <1>1, <1>2, <2>1, SeqsEqual
    <2> QED
      BY <1>5, <2>2 DEF share
  <1>6. CASE Blocks(s) = <<>>
    <2>1. share = <<>>
      BY <1>1, <1>2, <1>6
    <2> QED
      BY <1>6, <2>1 DEF share
  <1>7. CASE pid # b /\ Blocks(s) # <<>>
    <2>1. PICK m \in 1..M : pid[m] # b[m]
      <3> SUFFICES ASSUME \A m \in 1..M : pid[m] = b[m] PROVE pid = b
        BY <1>7
      <3>1. pid = [m \in 1..M |-> pid[m]] /\ b = [m \in 1..M |-> b[m]]
        BY DEF Name
      <3> QED
        BY <3>1
    <2>2. n # 0
      BY <1>2, <1>7
    <2>3. m \in 1..n
      BY <1>2, <1>3, <1>4, <2>2
    <2>4. Place(m) = m
      <3>1. m - 1 \in 0..(M - 1) /\ (M * 0) + (m - 1) = m - 1
        BY <1>3
      <3>2. (m - 1) % M = m - 1
        BY <1>3, <3>1, Quotient
      <3> QED
        BY <1>3, <3>2 DEF Place
    <2>5. share[m] # Blocks(s)[m]
      BY <1>1, <1>2, <2>1, <2>3, <2>4
    <2> QED
      BY <1>7, <2>5 DEF share
  <1> QED
    BY <1>5, <1>6, <1>7

-----------------------------------------------------------------------------
(* Counting on integers and counting on strings.                           *)

\* Position k of a string of length n is bit n - k of the integer.
LEMMA Mirrored ==
  ASSUME NEW n \in Nat, NEW A \in SUBSET (1..n), NEW B,
         \A p : p \in B <=> p \in 0..(n - 1) /\ n - p \in A
  PROVE  IsFiniteSet(A) /\ Cardinality(B) = Cardinality(A) /\ (B = {} <=> A = {})
  <1>1. IsFiniteSet(A)
    <2>1. IsFiniteSet(1..n)
      BY FS_Interval
    <2> QED
      BY <2>1, FS_Subset
  <1> DEFINE f == [k \in A |-> n - k]
  <1>2. ASSUME NEW k \in A PROVE n - k \in B
    <2>1. n - k \in 0..(n - 1) /\ n - (n - k) = k
      OBVIOUS
    <2> QED
      BY <2>1
  <1>3. f \in [A -> B]
    BY <1>2
  <1>4. \A j, k \in A : f[j] = f[k] => j = k
    OBVIOUS
  <1>5. ASSUME NEW p \in B PROVE \E k \in A : f[k] = p
    <2>1. p \in 0..(n - 1) /\ n - p \in A /\ n - (n - p) = p
      OBVIOUS
    <2> QED
      BY <2>1
  <1> HIDE DEF f
  <1>6. f \in Bijection(A, B)
    BY <1>3, <1>4, <1>5, Fun_IsBij
  <1>7. ExistsBijection(A, B)
    BY <1>6 DEF ExistsBijection
  <1>8. Cardinality(B) = Cardinality(A)
    BY <1>1, <1>7, FS_Bijection
  <1>9. B = {} <=> A = {}
    BY <1>2, <1>5
  <1> QED
    BY <1>1, <1>8, <1>9

\* The verdict on total pulses sent and n received, given the places where the bases agree
\* and those of them where the results do not.
Counted(n, total, same, wrong) ==
  IF total = 0 \/ n * GammaDet[2] < GammaDet[1] * total THEN "few"
  ELSE IF same = {} THEN "no match"
  ELSE IF Cardinality(wrong) * GammaErr[2] <= GammaErr[1] * Cardinality(same)
       THEN "valid" ELSE "errors"

LEMMA VerdictCounted ==
  ASSUME NEW n \in Nat, NEW Y \in Seq(Bit), NEW X \in Seq(Bit), NEW U \in Seq(Bit),
         NEW T \in Seq(Bit), Len(Y) = n, Len(X) = n, Len(U) = n, Len(T) = n, NEW total,
         NEW same, \A k : k \in same <=> k \in 1..n /\ Y[k] = U[k],
         NEW wrong, \A k : k \in wrong <=> k \in same /\ X[k] # T[k]
  PROVE  verify_token_error(Y, X, U, T, GammaErr, GammaDet, {total}) = Counted(n, total, same, wrong)
  <1> DEFINE delta_b == Matching(str_to_int(Y), str_to_int(U), n)
             missed == SymDiff(str_to_int(X), str_to_int(T)) \cap delta_b
  <1>1. ASSUME NEW V \in Seq(Bit), NEW W \in Seq(Bit), Len(V) = n, Len(W) = n,
               NEW p \in 0..(n - 1)
        PROVE  p \in SymDiff(str_to_int(V), str_to_int(W)) <=> V[n - p] # W[n - p]
    <2>1. n - p \in 1..n /\ p < n /\ p \in Nat
      OBVIOUS
    <2>2. V[n - p] \in {0, 1} /\ W[n - p] \in {0, 1}
      BY <1>1, <2>1 DEF Bit
    <2>3. p \in str_to_int(V) <=> V[n - p] = 1
      BY <1>1, <2>1, StrToInt DEF Spelt
    <2>4. p \in str_to_int(W) <=> W[n - p] = 1
      BY <1>1, <2>1, StrToInt DEF Spelt
    <2> QED
      BY <2>2, <2>3, <2>4 DEF SymDiff
  <1>2. \A p : p \in delta_b <=> p \in 0..(n - 1) /\ n - p \in same
    <2>1. \A p \in 0..(n - 1) : n - p \in DOMAIN Y
      OBVIOUS
    <2>2. \A p : p \in delta_b <=> p \in 0..(n - 1) /\ p \notin SymDiff(str_to_int(Y), str_to_int(U))
      BY DEF Matching
    <2> QED
      BY <1>1, <2>1, <2>2
  <1>3. \A p : p \in missed <=> p \in 0..(n - 1) /\ n - p \in wrong
    BY <1>1, <1>2
  <1>4. same \in SUBSET (1..n) /\ wrong \in SUBSET (1..n)
    OBVIOUS
  <1>5. verify_token_error(Y, X, U, T, GammaErr, GammaDet, {total}) =
          IF total = 0 \/ n * GammaDet[2] < GammaDet[1] * total THEN "few"
          ELSE IF delta_b = {} THEN "no match"
          ELSE IF Cardinality(missed) * GammaErr[2] <= GammaErr[1] * Cardinality(delta_b)
               THEN "valid" ELSE "errors"
    BY DEF verify_token_error
  <1> HIDE DEF delta_b, missed
  <1>6. Cardinality(delta_b) = Cardinality(same) /\ (delta_b = {} <=> same = {})
    BY <1>2, <1>4, Mirrored
  <1>7. Cardinality(missed) = Cardinality(wrong)
    BY <1>3, <1>4, Mirrored
  <1> QED
    BY <1>5, <1>6, <1>7 DEF Counted

Same(Y, U) == {k \in DOMAIN Y : Y[k] = U[k]}
Wrong(Y, X, U, T) == {k \in Same(Y, U) : X[k] # T[k]}

LEMMA VerdictOf ==
  ASSUME NEW Y \in Seq(Bit), NEW X \in Seq(Bit), NEW U \in Seq(Bit), NEW T \in Seq(Bit),
         Len(Y) = Len(X), Len(U) = Len(X), Len(T) = Len(X), NEW total
  PROVE  verify_token_error(Y, X, U, T, GammaErr, GammaDet, {total}) =
           Counted(Len(X), total, Same(Y, U), Wrong(Y, X, U, T))
  <1> DEFINE n == Len(X)
             same == Same(Y, U)
             wrong == Wrong(Y, X, U, T)
  <1>1. n \in Nat /\ Len(Y) = n /\ Len(X) = n /\ Len(U) = n /\ Len(T) = n
    OBVIOUS
  <1>2. /\ \A k : k \in same <=> k \in 1..n /\ Y[k] = U[k]
        /\ \A k : k \in wrong <=> k \in same /\ X[k] # T[k]
    BY <1>1 DEF Same, Wrong
  <1> HIDE DEF n, same, wrong
  <1>3. verify_token_error(Y, X, U, T, GammaErr, GammaDet, {total}) = Counted(n, total, same, wrong)
    BY <1>1, <1>2, VerdictCounted
  <1> QED
    BY <1>3 DEF n, same, wrong

-----------------------------------------------------------------------------
(* The angles of the streams.                                              *)

Pulse == [AX : Bit, AH : Bit, BX : Bit, BH : Bit, R : Bit]

\* What Init chooses once and for all.
StreamsOK ==
  /\ source \in {"hwsim", "database"} /\ bit_size \in Nat \ {0}
  /\ pulse \in Seq(Pulse) /\ length \in [Fifo -> Nat]
  /\ 2 * length["angleA"] <= Len(pulse) /\ 2 * length["angleB"] <= Len(pulse)
  /\ length["result"] <= Len(pulse)

AngleFifo(party) == IF party = "A" THEN "angleA" ELSE "angleB"
ValueOf(party, k) == IF party = "A" THEN pulse[k].AX ELSE pulse[k].BX
BasisOf(party, k) == IF party = "A" THEN pulse[k].AH ELSE pulse[k].BH
Coded(party, k) == Code(party, ValueOf(party, k), BasisOf(party, k))

LEMMA CodeFound ==
  ASSUME NEW party, NEW X \in Bit, NEW H \in Bit
  PROVE  Code(party, X, H) \in 0..3 /\ mapping(party)[Code(party, X, H)] = <<X, H>>
  <1>1. \E v \in 0..3 : mapping(party)[v] = <<X, H>>
    <2>1. 0 \in 0..3 /\ 1 \in 0..3 /\ 2 \in 0..3 /\ 3 \in 0..3
      OBVIOUS
    <2>2. CASE party = "A"
      <3>1. /\ mapping(party)[0] = <<0, 1>> /\ mapping(party)[1] = <<1, 0>>
            /\ mapping(party)[2] = <<0, 0>> /\ mapping(party)[3] = <<1, 1>>
        BY <2>2 DEF mapping
      <3> QED
        BY <2>1, <3>1 DEF Bit
    <2>3. CASE party # "A"
      <3>1. /\ mapping(party)[0] = <<0, 0>> /\ mapping(party)[1] = <<1, 1>>
            /\ mapping(party)[2] = <<0, 1>> /\ mapping(party)[3] = <<1, 0>>
        BY <2>3 DEF mapping
      <3> QED
        BY <2>1, <3>1 DEF Bit
    <2> QED
      BY <2>2, <2>3
  <1> QED
    BY <1>1 DEF Code

LEMMA PulseCode ==
  ASSUME StreamsOK, NEW party \in Party, NEW k \in 1..Len(pulse)
  PROVE  /\ ValueOf(party, k) \in Bit /\ BasisOf(party, k) \in Bit
         /\ Coded(party, k) \in 0..3
         /\ mapping(party)[Coded(party, k)] = <<ValueOf(party, k), BasisOf(party, k)>>
  <1>1. pulse[k] \in Pulse
    BY DEF StreamsOK
  <1>2. ValueOf(party, k) \in Bit /\ BasisOf(party, k) \in Bit
    BY <1>1 DEF ValueOf, BasisOf, Pulse
  <1> QED
    BY <1>2, CodeFound DEF Coded

LEMMA AngleByteOf ==
  ASSUME NEW party \in Party, NEW j
  PROVE  AngleByte(party, j) =
           Byte(Coded(party, (2 * j) - 1),
                IF j = 1 /\ AngleFifo(party) \in garbled THEN 4 ELSE Coded(party, 2 * j))
  BY DEF AngleByte, Coded, ValueOf, BasisOf, AngleFifo, Party

\* A byte splits into the two numbers it was made of.
LEMMA Halves ==
  ASSUME NEW p \in 0..3, NEW q \in Nat
  PROVE  Byte(p, q) % Half = p /\ Byte(p, q) \div Half = q
  BY DEF Byte, Half

\* What parses is read as it was produced.
LEMMA ParsedAngles ==
  ASSUME StreamsOK, NEW party \in Party, NEW n \in Nat, n <= length[AngleFifo(party)],
         NEW bytes, bytes = [j \in 1..n |-> AngleByte(party, j)], Parses(bytes)
  PROVE  /\ parse_angle(bytes, party).X = [k \in 1..(2 * n) |-> ValueOf(party, k)]
         /\ parse_angle(bytes, party).H = [k \in 1..(2 * n) |-> BasisOf(party, k)]
  <1>1. Len(bytes) = n
    OBVIOUS
  <1>2. 2 * n <= Len(pulse)
    BY DEF StreamsOK, AngleFifo, Party, Fifo
  <1>3. ASSUME NEW k \in 1..(2 * n) PROVE Nibbles(bytes)[k] = Coded(party, k)
    <2>1. Nibbles(bytes)[k] \in 0..3
      BY <1>1 DEF Parses
    <2>2. CASE k % 2 = 1
      <3> DEFINE j == (k + 1) \div 2
      <3>1. j \in 1..n /\ (2 * j) - 1 = k
        BY <2>2
      <3>2. Nibbles(bytes)[k] = bytes[j] % Half
        BY <1>1, <2>2 DEF Nibbles
      <3> HIDE DEF j
      <3>3. PICK q \in Nat : bytes[j] = Byte(Coded(party, k), q)
        <4>1. Coded(party, 2 * j) \in Nat
          <5>1. 2 * j \in 1..Len(pulse)
            BY <1>2, <3>1 DEF StreamsOK
          <5> QED
            BY <5>1, PulseCode
        <4> QED
          BY <3>1, <4>1, AngleByteOf
      <3>4. Coded(party, k) \in 0..3
        <4>1. k \in 1..Len(pulse)
          BY <1>2 DEF StreamsOK
        <4> QED
          BY <4>1, PulseCode
      <3> QED
        BY <3>2, <3>3, <3>4, Halves
    <2>3. CASE k % 2 # 1
      <3> DEFINE j == k \div 2
      <3>1. j \in 1..n /\ 2 * j = k /\ (2 * j) - 1 \in 1..(2 * n)
        BY <2>3
      <3>2. Nibbles(bytes)[k] = bytes[j] \div Half
        BY <1>1, <2>3 DEF Nibbles
      <3> HIDE DEF j
      <3>3. Coded(party, (2 * j) - 1) \in 0..3 /\ Coded(party, k) \in 0..3
        <4>1. (2 * j) - 1 \in 1..Len(pulse) /\ k \in 1..Len(pulse)
          BY <1>2, <3>1 DEF StreamsOK
        <4> QED
          BY <4>1, PulseCode
      <3> DEFINE c == IF j = 1 /\ AngleFifo(party) \in garbled THEN 4 ELSE Coded(party, k)
      <3>4. bytes[j] = Byte(Coded(party, (2 * j) - 1), c)
        <4>1. Coded(party, 2 * j) = Coded(party, k)
          BY <3>1
        <4>2. bytes[j] = AngleByte(party, j)
          BY <3>1
        <4> QED
          BY <4>1, <4>2, AngleByteOf
      <3>6. c \in Nat
        BY <3>3
      <3> HIDE DEF c
      <3>5. Nibbles(bytes)[k] = c
        BY <3>2, <3>3, <3>4, <3>6, Halves
      <3> QED
        BY <2>1, <3>5 DEF c
    <2> QED
      BY <2>2, <2>3
  <1>4. ASSUME NEW k \in 1..(2 * n)
        PROVE  mapping(party)[Nibbles(bytes)[k]] = <<ValueOf(party, k), BasisOf(party, k)>>
    <2>1. k \in 1..Len(pulse)
      BY <1>2 DEF StreamsOK
    <2> QED
      BY <1>3, <2>1, PulseCode
  <1>5. /\ parse_angle(bytes, party).X = [k \in 1..(2 * n) |-> mapping(party)[Nibbles(bytes)[k]][1]]
        /\ parse_angle(bytes, party).H = [k \in 1..(2 * n) |-> mapping(party)[Nibbles(bytes)[k]][2]]
    BY <1>1 DEF parse_angle
  <1>6. ASSUME NEW k \in 1..(2 * n)
        PROVE  /\ mapping(party)[Nibbles(bytes)[k]][1] = ValueOf(party, k)
               /\ mapping(party)[Nibbles(bytes)[k]][2] = BasisOf(party, k)
    BY <1>4
  <1> QED
    BY <1>5, <1>6

-----------------------------------------------------------------------------
(* The invariant.                                                          *)

\* How far n batches reach into a FIFO, and what batch k of a party holds.
Width(f) == IF f = "result" THEN 2 * BatchSize ELSE BatchSize
Reach(f, n) == Least(n * Width(f), length[f])
Prefix(f, n) == SubSeq(Stream(f), 1, Reach(f, n))
Chunk(f, k) == SubSeq(Stream(f), Reach(f, k - 1) + 1, Reach(f, k))
BatchAt(p, k) == Batch(Chunk(AngleFifo(p), k), IF p = "B" THEN Chunk("result", k) ELSE <<>>)
FifosOf(p) == IF p = "B" THEN {"angleB", "result"} ELSE {"angleA"}

\* A reader may stop after n batches: it has them all, or one of its FIFOs is used up.
Enough(p, n) ==
  n = num_batches \/ \E f \in FifosOf(p) : n * Width(f) >= length[f]

\* The first n batches are what a party holds.
Holds(p, n) ==
  /\ angles[p] = Prefix(AngleFifo(p), n)
  /\ p = "B" => results = Prefix("result", n)

\* The queue holds m batches that follow the ones taken, none of them taken for the sentinel.
Waiting(p, m) ==
  \A k \in 1..m : local_queue[p][k] = BatchAt(p, taken[p] + k) /\ local_queue[p][k] # Sentinel

ReaderOK(p) ==
  /\ thread[p] = "none" =>
       /\ local_queue[p] = <<>> /\ taken[p] = 0 /\ Holds(p, 0)
       /\ \A f \in FifosOf(p) : pos[f] = 0
  /\ thread[p] = "reading" /\ taken[p] < num_batches =>
       /\ i(p) <= num_batches /\ Holds(p, taken[p]) /\ Waiting(p, Len(local_queue[p]))
       /\ \A f \in FifosOf(p) : pos[f] = Reach(f, i(p))
  /\ thread[p] = "ended" /\ taken[p] < num_batches =>
       \E n \in taken[p]..num_batches :
         /\ Enough(p, n) /\ Holds(p, taken[p])
         /\ Len(local_queue[p]) = (n - taken[p]) + 1 /\ Waiting(p, n - taken[p])
         /\ local_queue[p][(n - taken[p]) + 1] = Sentinel
  /\ taken[p] = num_batches =>
       \E n \in 0..num_batches : Enough(p, n) /\ Holds(p, n)

TypeOK ==
  /\ pos \in [Fifo -> Nat] /\ thread \in [Party -> {"none", "reading", "ended"}]
  /\ local_queue \in [Party -> Seq([a : Seq(Nat), r : Seq(Nat)])]
  /\ taken \in [Party -> 0..num_batches] /\ angles \in [Party -> Seq(Nat)] /\ results \in Seq(Nat)
  /\ hardware \in {"idle", "running"}

\* A thread starts once; the exchange needs both sides, and Alice a simulator.
Phases ==
  /\ bob \in {"init", "read"} => thread["A"] = "none"
  /\ alice = "init" => thread["B"] = "none"
  /\ alice \in {"parse", "ready"} => source = "hwsim"
  /\ judged # {} => bob = "ready" /\ alice = "ready"

Strings ==
  /\ FirstPulses
  /\ alice = "ready" => x \in Seq(Bit) /\ y \in Seq(Bit) /\ Len(x) = Len(y)

Inv ==
  /\ StreamsOK /\ TypeOK /\ Phases /\ Strings
  /\ \A p \in Party : ReaderOK(p)
  /\ UnblindedOnlyAtB /\ VerdictAsMeasured

-----------------------------------------------------------------------------
(* Batches of a stream.                                                    *)

LEMMA LeastType ==
  ASSUME NEW a \in Nat, NEW b \in Nat
  PROVE  Least(a, b) \in Nat /\ Least(a, b) <= a /\ Least(a, b) <= b
  BY DEF Least

LEMMA WidthType ==
  ASSUME NEW f \in Fifo
  PROVE  Width(f) \in Nat \ {0}
  BY AcquisitionAssumption DEF Width

\* The batches both sides plan for hold at least the bits they want.
LEMMA Planned ==
  ASSUME StreamsOK
  PROVE  num_batches \in Nat \ {0} /\ bit_size <= num_batches * (2 * BatchSize)
  <1> DEFINE wanted == (bit_size * 6) \div 5
             d == 2 * BatchSize
  <1>1. d \in Nat \ {0} /\ bit_size \in Nat \ {0}
    BY AcquisitionAssumption DEF StreamsOK
  <1>2. wanted \in Nat /\ bit_size <= wanted
    BY <1>1
  <1>3. num_batches = ((wanted + d) - 1) \div d
    BY <1>1, <1>2 DEF num_batches
  <1> HIDE DEF wanted, d
  <1> DEFINE e == (wanted + d) - 1
             q == e \div d
  <1>4. e \in Nat /\ wanted + d = e + 1
    BY <1>1, <1>2
  <1>5. q \in Nat /\ e % d \in 0..(d - 1) /\ e = (d * q) + (e % d)
    BY <1>1, <1>4, Division
  <1> HIDE DEF e, q
  <1>6. d * q \in Nat /\ q * d = d * q /\ d * 0 = 0
    BY <1>1, <1>5, Distribute
  <1>7. wanted <= d * q
    BY <1>1, <1>2, <1>4, <1>5, <1>6
  <1>8. q # 0
    BY <1>1, <1>2, <1>6, <1>7
  <1> QED
    BY <1>2, <1>1, <1>3, <1>5, <1>6, <1>7, <1>8 DEF e, q, d

LEMMA StreamType ==
  ASSUME StreamsOK, NEW f \in Fifo
  PROVE  /\ Stream(f) \in Seq(Nat) /\ Len(Stream(f)) = length[f] /\ length[f] \in Nat
         /\ \A j \in 1..length[f] :
              Stream(f)[j] = IF f = "result" THEN pulse[j].R
                             ELSE AngleByte(IF f = "angleA" THEN "A" ELSE "B", j)
  <1>1. length[f] \in Nat
    BY DEF StreamsOK
  <1>2. ASSUME NEW j \in 1..length[f]
        PROVE  /\ Stream(f)[j] = IF f = "result" THEN pulse[j].R
                                 ELSE AngleByte(IF f = "angleA" THEN "A" ELSE "B", j)
               /\ Stream(f)[j] \in Nat
    <2>1. Stream(f)[j] = IF f = "result" THEN pulse[j].R
                         ELSE AngleByte(IF f = "angleA" THEN "A" ELSE "B", j)
      BY DEF Stream, Fifo
    <2>2. CASE f = "result"
      <3>1. j \in 1..Len(pulse) /\ pulse \in Seq(Pulse)
        BY <1>1, <2>2 DEF StreamsOK
      <3>2. pulse[j] \in Pulse
        BY <3>1
      <3>3. pulse[j].R \in Nat
        BY <3>2 DEF Pulse, Bit
      <3> QED
        BY <2>1, <2>2, <3>3
    <2>3. CASE f # "result"
      <3> DEFINE party == IF f = "angleA" THEN "A" ELSE "B"
      <3>1. party \in Party /\ f = AngleFifo(party) /\ 2 * length[f] <= Len(pulse)
        BY <2>3 DEF Party, Fifo, AngleFifo, StreamsOK
      <3> HIDE DEF party
      <3>2. (2 * j) - 1 \in 1..Len(pulse) /\ 2 * j \in 1..Len(pulse)
        BY <1>1, <3>1 DEF StreamsOK
      <3>3. Coded(party, (2 * j) - 1) \in 0..3 /\ Coded(party, 2 * j) \in 0..3
        BY <3>1, <3>2, PulseCode
      <3>4. AngleByte(party, j) \in Nat
        BY <3>1, <3>3, AngleByteOf DEF Byte, Half
      <3> QED
        BY <2>1, <2>3, <3>4 DEF party
    <2> QED
      BY <2>1, <2>2, <2>3
  <1>3. Stream(f) \in Seq(Nat) /\ Len(Stream(f)) = length[f]
    <2> DEFINE s == Stream(f)
               L == length[f]
    <2>1. s = [j \in 1..L |-> s[j]] /\ L \in Nat /\ \A j \in 1..L : s[j] \in Nat
      BY <1>1, <1>2 DEF Stream
    <2> HIDE DEF s, L
    <2>2. s \in [1..L -> Nat]
      BY <2>1
    <2>3. s \in Seq(Nat) /\ Len(s) = L
      BY <2>1, <2>2
    <2> QED
      BY <2>3 DEF s, L
  <1> QED
    BY <1>1, <1>2, <1>3

LEMMA ReachType ==
  ASSUME StreamsOK, NEW f \in Fifo, NEW n \in Nat
  PROVE  /\ Reach(f, n) \in Nat /\ Reach(f, n) <= length[f] /\ Reach(f, 0) = 0
         /\ Reach(f, n) <= Reach(f, n + 1)
         /\ Reach(f, n + 1) = IF Reach(f, n) + Width(f) <= length[f]
                              THEN Reach(f, n) + Width(f) ELSE length[f]
         /\ Reach(f, n) = Reach(f, n + 1) => n * Width(f) >= length[f]
         /\ n * Width(f) \in Nat
  <1> DEFINE w == Width(f)
             L == length[f]
  <1>1. w \in Nat \ {0} /\ L \in Nat
    BY WidthType DEF StreamsOK
  <1>2. (n + 1) * w = (n * w) + (1 * w) /\ n * w \in Nat /\ 0 * w = 0
    BY <1>1, Distribute
  <1>3. Reach(f, n) = Least(n * w, L) /\ Reach(f, n + 1) = Least((n + 1) * w, L) /\ Reach(f, 0) = Least(0 * w, L)
    BY DEF Reach
  <1> HIDE DEF w, L
  <1>4. /\ Least(n * w, L) \in Nat /\ Least(n * w, L) <= L /\ Least(0 * w, L) = 0
        /\ Least(n * w, L) <= Least((n + 1) * w, L)
        /\ Least((n + 1) * w, L) = IF Least(n * w, L) + w <= L THEN Least(n * w, L) + w ELSE L
        /\ Least(n * w, L) = Least((n + 1) * w, L) => n * w >= L
    BY <1>1, <1>2 DEF Least
  <1> QED
    BY <1>2, <1>3, <1>4 DEF w, L

LEMMA ChunkType ==
  ASSUME StreamsOK, NEW f \in Fifo, NEW n \in Nat
  PROVE  /\ Prefix(f, n) \in Seq(Nat) /\ Len(Prefix(f, n)) = Reach(f, n)
         /\ \A j \in 1..Reach(f, n) : Prefix(f, n)[j] = Stream(f)[j]
         /\ Chunk(f, n + 1) \in Seq(Nat) /\ Len(Chunk(f, n + 1)) = Reach(f, n + 1) - Reach(f, n)
         /\ Prefix(f, n) \o Chunk(f, n + 1) = Prefix(f, n + 1)
  <1> DEFINE s == Stream(f)
             a == Reach(f, n)
             b == Reach(f, n + 1)
  <1>1. s \in Seq(Nat) /\ a \in Nat /\ b \in Nat /\ a <= b /\ b <= Len(s)
    <2>1. n + 1 \in Nat
      OBVIOUS
    <2> QED
      BY <2>1, StreamType, ReachType
  <1>2. (n + 1) - 1 = n
    OBVIOUS
  <1>3. Prefix(f, n) = SubSeq(s, 1, a) /\ Chunk(f, n + 1) = SubSeq(s, a + 1, b)
        /\ Prefix(f, n + 1) = SubSeq(s, 1, b)
    BY <1>2 DEF Prefix, Chunk
  <1> HIDE DEF s, a, b
  <1>4. /\ SubSeq(s, 1, a) \in Seq(Nat) /\ Len(SubSeq(s, 1, a)) = a
        /\ \A j \in 1..a : SubSeq(s, 1, a)[j] = s[j]
        /\ SubSeq(s, a + 1, b) \in Seq(Nat) /\ Len(SubSeq(s, a + 1, b)) = b - a
        /\ SubSeq(s, 1, a) \o SubSeq(s, a + 1, b) = SubSeq(s, 1, b)
    BY <1>1
  <1> QED
    BY <1>3, <1>4 DEF a, b, s

\* A reader that stands after n batches reads batch n + 1.
LEMMA ReadChunk ==
  ASSUME StreamsOK, NEW f \in Fifo, NEW n \in Nat, pos[f] = Reach(f, n)
  PROVE  /\ Read(f, Width(f)) = Chunk(f, n + 1)
         /\ pos[f] + Len(Read(f, Width(f))) = Reach(f, n + 1)
         /\ Read(f, Width(f)) = <<>> => n * Width(f) >= length[f]
  <1>1. Read(f, Width(f)) = Chunk(f, n + 1)
    <2>1. (n + 1) - 1 = n
      OBVIOUS
    <2>2. Reach(f, n + 1) = IF pos[f] + Width(f) <= length[f] THEN pos[f] + Width(f) ELSE length[f]
      BY ReachType
    <2> QED
      BY <2>1, <2>2 DEF Read, Chunk
  <1>2. /\ Reach(f, n) \in Nat /\ Reach(f, n + 1) \in Nat
        /\ Reach(f, n) = Reach(f, n + 1) => n * Width(f) >= length[f]
    <2>1. n + 1 \in Nat
      OBVIOUS
    <2> QED
      BY <2>1, ReachType
  <1>3. Len(Chunk(f, n + 1)) = Reach(f, n + 1) - Reach(f, n)
    BY ChunkType
  <1>4. Chunk(f, n + 1) = <<>> => Len(Chunk(f, n + 1)) = 0
    OBVIOUS
  <1> QED
    BY <1>1, <1>2, <1>3, <1>4

-----------------------------------------------------------------------------
(* The readers.                                                            *)

LEMMA StreamsKept ==
  ASSUME UNCHANGED streamVars
  PROVE  /\ num_batches' = num_batches
         /\ \A f, n : Reach(f, n)' = Reach(f, n) /\ Prefix(f, n)' = Prefix(f, n)
         /\ \A p, k : BatchAt(p, k)' = BatchAt(p, k)
         /\ \A n : \A p \in Party : Enough(p, n)' <=> Enough(p, n)
         /\ StreamsOK' <=> StreamsOK
  <1>1. num_batches' = num_batches
    BY DEF streamVars, num_batches
  <1>2. \A f, n : Reach(f, n)' = Reach(f, n)
    BY DEF streamVars, Reach
  <1>3. \A f : Stream(f)' = Stream(f)
    BY DEF streamVars, Stream, AngleByte
  <1>4. \A f, n : Prefix(f, n)' = Prefix(f, n) /\ Chunk(f, n)' = Chunk(f, n)
    BY <1>2, <1>3 DEF Prefix, Chunk
  <1>5. \A p, k : BatchAt(p, k)' = BatchAt(p, k)
    BY <1>4 DEF BatchAt
  <1>6. \A n : \A p \in Party : Enough(p, n)' <=> Enough(p, n)
    BY <1>1 DEF Enough, streamVars
  <1>7. StreamsOK' <=> StreamsOK
    BY DEF StreamsOK, streamVars
  <1> QED
    BY <1>1, <1>2, <1>4, <1>5, <1>6, <1>7

\* A reader nobody touches.
LEMMA ReaderKept ==
  ASSUME NEW p \in Party, ReaderOK(p), UNCHANGED streamVars,
         thread'[p] = thread[p], local_queue'[p] = local_queue[p], taken'[p] = taken[p],
         angles'[p] = angles[p], p = "B" => results' = results,
         \A f \in FifosOf(p) : pos'[f] = pos[f]
  PROVE  ReaderOK(p)'
  <1>1. \A n : Holds(p, n)' <=> Holds(p, n)
    BY StreamsKept DEF Holds
  <1>2. \A m : Waiting(p, m)' <=> Waiting(p, m)
    BY StreamsKept DEF Waiting
  <1>3. i(p)' = i(p)
    BY DEF i
  <1> QED
    BY <1>1, <1>2, <1>3, StreamsKept DEF ReaderOK

LEMMA PartyFifos ==
  ASSUME NEW p \in Party
  PROVE  /\ FifosOf(p) \subseteq Fifo /\ AngleFifo(p) \in FifosOf(p)
         /\ p = "B" => "result" \in FifosOf(p)
         /\ FifosOf(p) = {AngleFifo(p)} \cup (IF p = "B" THEN {"result"} ELSE {})
  BY DEF Party, FifosOf, AngleFifo, Fifo

LEMMA HoldsKept ==
  ASSUME NEW p \in Party, UNCHANGED streamVars, angles'[p] = angles[p], p = "B" => results' = results,
         NEW n
  PROVE  Holds(p, n)' <=> Holds(p, n)
  BY StreamsKept DEF Holds

\* What a turn of p's thread reads and where it goes.
Fetched(p, batch) ==
  /\ \A f \in FifosOf(p) : pos'[f] = pos[f] + Len(Read(f, Width(f)))
  /\ batch = IF \E f \in FifosOf(p) : Read(f, Width(f)) = <<>> THEN Sentinel
             ELSE Batch(Read(AngleFifo(p), Width(AngleFifo(p))),
                        IF p = "B" THEN Read("result", Width("result")) ELSE <<>>)
  /\ local_queue'[p] = Append(local_queue[p], batch)
  /\ thread'[p] = IF \E f \in FifosOf(p) : Read(f, Width(f)) = <<>> THEN "ended" ELSE thread[p]
  /\ taken'[p] = taken[p] /\ angles'[p] = angles[p] /\ (p = "B" => results' = results)
  /\ UNCHANGED streamVars

LEMMA FetchedOK ==
  ASSUME StreamsOK, TypeOK, NEW p \in Party, ReaderOK(p), thread[p] = "reading",
         i(p) < num_batches, NEW batch, Fetched(p, batch)
  PROVE  ReaderOK(p)' /\ batch \in [a : Seq(Nat), r : Seq(Nat)]
  <1> DEFINE Batches == [a : Seq(Nat), r : Seq(Nat)]
  <1>1. PICK n \in Nat, q \in Seq(Batches), tk \in Nat :
          /\ q = local_queue[p] /\ tk = taken[p] /\ n = i(p) /\ num_batches \in Nat
          /\ n = tk + Len(q) /\ n < num_batches /\ tk < num_batches
    <2>1. local_queue[p] \in Seq(Batches) /\ taken[p] \in Nat /\ num_batches \in Nat
      BY Planned DEF TypeOK
    <2> HIDE DEF Batches
    <2>2. i(p) = taken[p] + Len(local_queue[p]) /\ i(p) \in Nat
      BY <2>1 DEF i
    <2>3. taken[p] < num_batches
      BY <2>1, <2>2
    <2> QED
      BY <2>1, <2>2, <2>3
  <1>0. /\ n \in Nat /\ tk \in Nat /\ num_batches \in Nat /\ Len(q) \in Nat
        /\ n = tk + Len(q) /\ n < num_batches /\ tk < num_batches
    <2> HIDE DEF Batches
    <2> QED
      BY <1>1
  <1>2. /\ Holds(p, tk) /\ \A k \in 1..Len(q) : q[k] = BatchAt(p, tk + k) /\ q[k] # Sentinel
        /\ \A f \in FifosOf(p) : pos[f] = Reach(f, n)
    BY <1>1 DEF ReaderOK, Waiting
  <1>3. ASSUME NEW f \in FifosOf(p)
        PROVE  /\ Read(f, Width(f)) = Chunk(f, n + 1) /\ Chunk(f, n + 1) \in Seq(Nat)
               /\ pos[f] + Len(Read(f, Width(f))) = Reach(f, n + 1)
               /\ Read(f, Width(f)) = <<>> => n * Width(f) >= length[f]
    BY <1>2, PartyFifos, ReadChunk, ChunkType
  <1>4. PICK q2 \in {Append(q, batch)} :
          /\ q2 = local_queue'[p] /\ Len(q2) = Len(q) + 1 /\ q2[Len(q) + 1] = batch
          /\ \A k \in 1..Len(q) : q2[k] = q[k]
    BY <1>1 DEF Fetched
  <1>5. UNCHANGED streamVars /\ taken'[p] = tk /\ num_batches' = num_batches /\ Holds(p, tk)'
    BY <1>1, <1>2, HoldsKept, StreamsKept DEF Fetched
  <1>6. Sentinel' = Sentinel /\ \A k : BatchAt(p, k)' = BatchAt(p, k)
    BY <1>5, StreamsKept DEF Sentinel, Batch
  <1>7. ASSUME NEW m \in Nat, \A k \in 1..m : q2[k] = BatchAt(p, tk + k) /\ q2[k] # Sentinel
        PROVE  Waiting(p, m)'
    BY <1>4, <1>5, <1>6, <1>7 DEF Waiting
  <1>8. CASE \E f \in FifosOf(p) : Read(f, Width(f)) = <<>>
    <2>1. batch = Sentinel /\ thread'[p] = "ended"
      BY <1>8 DEF Fetched
    <2>2. Enough(p, n)'
      BY <1>3, <1>5, <1>8, StreamsKept DEF Enough
    <2>3. n \in tk..num_batches /\ n - tk = Len(q) /\ (n - tk) + 1 = Len(q) + 1 /\ Len(q) \in Nat
      BY ONLY <1>0
    <2>4. Waiting(p, n - tk)'
      BY <1>2, <1>4, <1>7, <2>3
    <2>5. q2[(n - tk) + 1] = Sentinel /\ Len(q2) = (n - tk) + 1
      BY <1>4, <2>1, <2>3
    <2>6. \E m \in taken'[p]..num_batches' :
            /\ Enough(p, m)' /\ Holds(p, tk)'
            /\ Len(local_queue'[p]) = (m - taken'[p]) + 1 /\ Waiting(p, m - tk)'
            /\ local_queue'[p][(m - taken'[p]) + 1] = Sentinel'
      BY <1>4, <1>5, <1>6, <2>2, <2>3, <2>4, <2>5
    <2>7. taken'[p] # num_batches'
      BY <1>1, <1>5
    <2>8. ReaderOK(p)'
      BY <1>5, <2>1, <2>6, <2>7 DEF ReaderOK, Holds, Waiting
    <2>9. batch \in Batches
      BY <2>1 DEF Sentinel, Batch
    <2> QED
      BY <2>8, <2>9
  <1>9. CASE ~ \E f \in FifosOf(p) : Read(f, Width(f)) = <<>>
    <2>1. batch = BatchAt(p, n + 1) /\ thread'[p] = "reading"
      BY <1>3, <1>9, PartyFifos DEF Fetched, BatchAt
    <2>2. batch # Sentinel /\ batch \in Batches
      <3>1. /\ Chunk(AngleFifo(p), n + 1) # <<>> /\ Chunk(AngleFifo(p), n + 1) \in Seq(Nat)
            /\ p = "B" => Chunk("result", n + 1) \in Seq(Nat)
        BY <1>3, <1>9, PartyFifos
      <3> QED
        BY <2>1, <3>1 DEF BatchAt, Batch, Sentinel
    <2>3. n + 1 = tk + (Len(q) + 1) /\ Len(q) + 1 \in Nat
          /\ \A k \in 1..(Len(q) + 1) : k \in 1..Len(q) \/ k = Len(q) + 1
      BY ONLY <1>0
    <2>4. i(p)' = n + 1 /\ n + 1 <= num_batches
      BY <1>1, <1>4, <1>5, <2>3 DEF i
    <2>5. Waiting(p, Len(q2))'
      <3>1. \A k \in 1..(Len(q) + 1) : q2[k] = BatchAt(p, tk + k) /\ q2[k] # Sentinel
        BY <1>2, <1>4, <2>1, <2>2, <2>3
      <3>2. Waiting(p, Len(q) + 1)'
        BY <1>7, <2>3, <3>1
      <3> QED
        BY <1>4, <3>2
    <2>6. \A f \in FifosOf(p) : pos'[f] = Reach(f, n + 1)'
      BY <1>3, <1>5, StreamsKept DEF Fetched
    <2>7. taken'[p] # num_batches'
      BY <1>1, <1>5
    <2>8. Waiting(p, Len(local_queue[p]))' /\ Holds(p, taken[p])'
      BY <1>4, <1>5, <2>5 DEF Waiting, Holds
    <2>9. \A f \in FifosOf(p) : pos'[f] = Reach(f, i(p))'
      BY <2>4, <2>6 DEF Reach
    <2>10. ReaderOK(p)'
      BY <1>5, <2>1, <2>4, <2>7, <2>8, <2>9 DEF ReaderOK
    <2> QED
      BY <2>2, <2>10
  <1> QED
    BY <1>8, <1>9

LEMMA LoopDoneOK ==
  ASSUME StreamsOK, TypeOK, NEW p \in Party, ReaderOK(p), LoopDone(p)
  PROVE  ReaderOK(p)'
  <1>1. UNCHANGED streamVars /\ taken'[p] = taken[p] /\ thread[p] = "reading" /\ thread'[p] = "ended"
        /\ i(p) = num_batches /\ local_queue'[p] = Append(local_queue[p], Sentinel)
        /\ angles'[p] = angles[p] /\ results' = results
    BY DEF LoopDone, End, Reading, mainVars, TypeOK
  <1> DEFINE Batches == [a : Seq(Nat), r : Seq(Nat)]
  <1>2. PICK n \in Nat, q \in Seq(Batches), tk \in Nat :
          /\ q = local_queue[p] /\ tk = taken[p] /\ n = num_batches /\ tk <= n
          /\ n = tk + Len(q)
    <2>1. local_queue[p] \in Seq(Batches) /\ taken[p] \in Nat /\ num_batches \in Nat
          /\ taken[p] <= num_batches
      BY Planned DEF TypeOK
    <2> HIDE DEF Batches
    <2>2. num_batches = taken[p] + Len(local_queue[p])
      BY <1>1 DEF i
    <2> QED
      BY <2>1, <2>2
  <1>3. /\ num_batches' = n /\ Sentinel' = Sentinel /\ \A k : BatchAt(p, k)' = BatchAt(p, k)
        /\ \A m : Holds(p, m)' <=> Holds(p, m)
        /\ \A m : Enough(p, m)' <=> Enough(p, m)
    BY <1>1, <1>2, StreamsKept, HoldsKept DEF Sentinel, Batch
  <1>4. CASE tk = n
    <2>1. \E m \in 0..num_batches' : Enough(p, m)' /\ Holds(p, m)'
      BY <1>2, <1>3, <1>4 DEF ReaderOK
    <2> QED
      BY <1>1, <1>2, <1>3, <1>4, <2>1 DEF ReaderOK
  <1>5. CASE tk # n
    <2>1. Holds(p, tk) /\ \A k \in 1..Len(q) : q[k] = BatchAt(p, tk + k) /\ q[k] # Sentinel
      <3>1. taken[p] < num_batches
        BY <1>2, <1>5
      <3>2. Holds(p, taken[p]) /\ Waiting(p, Len(local_queue[p]))
        BY <1>1, <3>1 DEF ReaderOK
      <3> QED
        BY <1>2, <3>2 DEF Waiting, Holds
    <2>2. PICK q2 \in {Append(q, Sentinel)} :
            /\ q2 = local_queue'[p] /\ Len(q2) = Len(q) + 1 /\ q2[Len(q) + 1] = Sentinel
            /\ \A k \in 1..Len(q) : q2[k] = q[k]
      BY <1>1, <1>2
    <2>3. n \in tk..n /\ n - tk = Len(q) /\ (n - tk) + 1 = Len(q) + 1
      <3>1. n \in Nat /\ tk \in Nat /\ Len(q) \in Nat /\ tk <= n /\ n = tk + Len(q)
        <4> HIDE DEF Batches
        <4> QED
          BY <1>2
      <3> QED
        BY ONLY <3>1
    <2>4. Enough(p, n)'
      BY <1>3 DEF Enough
    <2>5. Waiting(p, n - tk)'
      BY <1>1, <1>2, <1>3, <2>1, <2>2, <2>3 DEF Waiting
    <2>6. \E m \in taken'[p]..num_batches' :
            /\ Enough(p, m)' /\ Holds(p, tk)'
            /\ Len(local_queue'[p]) = (m - taken'[p]) + 1 /\ Waiting(p, m - tk)'
            /\ local_queue'[p][(m - taken'[p]) + 1] = Sentinel'
      BY <1>1, <1>2, <1>3, <2>1, <2>2, <2>3, <2>4, <2>5
    <2> QED
      BY <1>1, <1>2, <1>3, <1>5, <2>6 DEF ReaderOK, Holds, Waiting
  <1> QED
    BY <1>4, <1>5

\* One batch leaves the queue and lengthens what is held, or the sentinel ends the loop.
LEMMA GetOK ==
  ASSUME StreamsOK, TypeOK, NEW p \in Party, ReaderOK(p), Get(p)
  PROVE  ReaderOK(p)'
  <1> DEFINE Batches == [a : Seq(Nat), r : Seq(Nat)]
  <1>1. PICK q \in Seq(Batches), tk \in Nat, n \in Nat :
          /\ q = local_queue[p] /\ tk = taken[p] /\ n = num_batches /\ tk < n /\ q # <<>>
    BY Planned DEF TypeOK, Get
  <1>2. PICK batch \in {Head(q)}, rest \in {Tail(q)} :
          /\ batch = q[1] /\ rest \in Seq(Batches) /\ Len(q) = Len(rest) + 1
          /\ \A k \in 1..Len(rest) : rest[k] = q[k + 1]
    BY <1>1
  <1>3. /\ UNCHANGED streamVars /\ thread'[p] = thread[p] /\ pos' = pos /\ thread[p] # "none"
        /\ taken'[p] = IF batch = Sentinel THEN n ELSE tk + 1
        /\ angles'[p] = angles[p] \o batch.a
        /\ p = "B" => results' = results \o batch.r
        /\ local_queue'[p] = rest
    BY <1>1, <1>2 DEF Get, TypeOK, mainVars
  <1>4. /\ num_batches' = n /\ Sentinel' = Sentinel /\ \A k : BatchAt(p, k)' = BatchAt(p, k)
        /\ \A m : Enough(p, m)' <=> Enough(p, m)
        /\ \A f, m : Reach(f, m)' = Reach(f, m) /\ Prefix(f, m)' = Prefix(f, m)
    BY <1>1, <1>3, StreamsKept DEF Sentinel, Batch
  <1>5. PICK m \in tk..n :
          /\ Holds(p, tk) /\ Waiting(p, m - tk)
          /\ \/ /\ thread[p] = "reading" /\ Len(q) = m - tk /\ m = tk + Len(q)
                /\ \A f \in FifosOf(p) : pos[f] = Reach(f, m)
             \/ /\ thread[p] = "ended" /\ Enough(p, m)
                /\ Len(q) = (m - tk) + 1 /\ q[(m - tk) + 1] = Sentinel
    <2>1. thread[p] \in {"reading", "ended"}
      BY <1>3 DEF TypeOK
    <2>2. CASE thread[p] = "reading"
      <3>1. /\ i(p) <= n /\ Holds(p, tk) /\ Waiting(p, Len(q))
            /\ \A f \in FifosOf(p) : pos[f] = Reach(f, i(p))
        BY <1>1, <2>2 DEF ReaderOK
      <3>2. i(p) = tk + Len(q) /\ i(p) \in tk..n /\ i(p) - tk = Len(q)
        BY <1>1, <3>1 DEF i
      <3> QED
        BY <2>2, <3>1, <3>2
    <2>3. CASE thread[p] = "ended"
      BY <1>1, <2>3 DEF ReaderOK
    <2> QED
      BY <2>1, <2>2, <2>3
  <1>6. \A k \in 1..(m - tk) : q[k] = BatchAt(p, tk + k) /\ q[k] # Sentinel
    BY <1>1, <1>5 DEF Waiting
  <1>7. CASE batch = Sentinel
    <2>1. m = tk /\ thread[p] = "ended" /\ Enough(p, tk)
      <3>1. 1 \notin 1..(m - tk)
        BY <1>2, <1>6, <1>7
      <3>2. m - tk = 0 /\ m = tk /\ Len(q) # 0
        BY <1>1, <1>2, <1>5, <3>1
      <3> QED
        BY <1>5, <3>2
    <2>2. angles'[p] = angles[p] /\ (p = "B" => results' = results)
      <3>1. batch.a = <<>> /\ batch.r = <<>>
        BY <1>7 DEF Sentinel, Batch
      <3>2. angles[p] \in Seq(Nat) /\ results \in Seq(Nat)
        BY DEF TypeOK
      <3>3. angles[p] \o <<>> = angles[p] /\ results \o <<>> = results
        BY ONLY <3>2
      <3> QED
        BY <1>3, <3>1, <3>3
    <2>3. Holds(p, tk)'
      BY <1>3, <1>5, <2>2, HoldsKept
    <2>4. \E k \in 0..num_batches' : Enough(p, k)' /\ Holds(p, k)'
      BY <1>1, <1>4, <2>1, <2>3
    <2> QED
      BY <1>3, <1>4, <1>7, <2>1, <2>4 DEF ReaderOK
  <1>8. CASE batch # Sentinel
    <2>1. m - tk >= 1 /\ batch = BatchAt(p, tk + 1) /\ tk + 1 \in Nat /\ tk + 1 <= m /\ tk + 1 \in 0..n
      <3>1. m - tk # 0
        BY <1>1, <1>2, <1>5, <1>8
      <3>2. 1 \in 1..(m - tk) /\ tk + 1 <= m /\ tk + 1 \in 0..n
        <4>1. tk \in Nat /\ n \in Nat /\ m \in tk..n
          OBVIOUS
        <4> QED
          BY ONLY <3>1, <4>1
      <3> QED
        BY <1>2, <1>6, <3>2
    <2>2. Holds(p, tk + 1)'
      <3>1. angles'[p] = Prefix(AngleFifo(p), tk + 1)
        <4>1. batch.a = Chunk(AngleFifo(p), tk + 1)
          BY <2>1 DEF BatchAt, Batch
        <4>2. Prefix(AngleFifo(p), tk) \o Chunk(AngleFifo(p), tk + 1) = Prefix(AngleFifo(p), tk + 1)
          BY PartyFifos, ChunkType
        <4> QED
          BY <1>3, <1>5, <4>1, <4>2 DEF Holds
      <3>2. p = "B" => results' = Prefix("result", tk + 1)
        <4> SUFFICES ASSUME p = "B" PROVE results' = Prefix("result", tk + 1)
          OBVIOUS
        <4>1. batch.r = Chunk("result", tk + 1)
          BY <2>1 DEF BatchAt, Batch
        <4>2. Prefix("result", tk) \o Chunk("result", tk + 1) = Prefix("result", tk + 1)
          BY PartyFifos, ChunkType
        <4> QED
          BY <1>3, <1>5, <4>1, <4>2 DEF Holds
      <3> QED
        BY <1>4, <3>1, <3>2 DEF Holds
    <2>3. taken'[p] = tk + 1
      BY <1>3, <1>8
    <2>4. CASE tk + 1 = n
      <3>1. Enough(p, n)'
        BY <1>4 DEF Enough
      <3>2. \E k \in 0..num_batches' : Enough(p, k)' /\ Holds(p, k)'
        BY <1>4, <2>1, <2>2, <2>4, <3>1
      <3> QED
        BY <1>3, <1>4, <2>3, <2>4, <3>2 DEF ReaderOK
    <2>5. CASE tk + 1 # n
      <3>1. Holds(p, taken[p])' /\ taken'[p] # num_batches'
        BY <1>4, <2>2, <2>3, <2>5 DEF Holds
      <3>2. /\ m - (tk + 1) \in Nat /\ m - tk = (m - (tk + 1)) + 1 /\ m \in (tk + 1)..n
            /\ Len(rest) \in Nat
        BY <1>2, <2>1
      <3>3. \A k \in 1..(m - (tk + 1)) :
              rest[k] = BatchAt(p, (tk + 1) + k) /\ rest[k] # Sentinel
        <4> SUFFICES ASSUME NEW k \in 1..(m - (tk + 1))
                     PROVE  rest[k] = BatchAt(p, (tk + 1) + k) /\ rest[k] # Sentinel
          OBVIOUS
        <4>1. k + 1 \in 1..(m - tk) /\ tk + (k + 1) = (tk + 1) + k /\ k \in 1..Len(rest)
          BY <1>2, <1>5, <3>2
        <4> QED
          BY <1>2, <1>6, <4>1
      <3>4. Waiting(p, m - (tk + 1))'
        BY <1>3, <1>4, <2>3, <3>3 DEF Waiting
      <3>5. CASE thread[p] = "reading"
        <4>1. Len(rest) = m - (tk + 1) /\ i(p)' = m
          BY <1>2, <1>3, <1>5, <2>3, <3>2, <3>5 DEF i
        <4>2. \A f \in FifosOf(p) : pos'[f] = Reach(f, i(p))'
          BY <1>3, <1>4, <1>5, <3>5, <4>1 DEF Reach
        <4>3. Waiting(p, Len(local_queue[p]))'
          BY <1>3, <3>4, <4>1 DEF Waiting
        <4> QED
          BY <1>1, <1>3, <1>4, <3>1, <3>5, <4>1, <4>2, <4>3 DEF ReaderOK
      <3>6. CASE thread[p] = "ended"
        <4>1. Len(rest) = (m - (tk + 1)) + 1 /\ rest[(m - (tk + 1)) + 1] = Sentinel
          <5>1. Len(q) = (m - tk) + 1 /\ q[(m - tk) + 1] = Sentinel
            BY <1>5, <3>6
          <5>2. Len(rest) = m - tk /\ m - tk \in 1..Len(rest)
            <6>1. Len(q) = Len(rest) + 1
              BY <1>2
            <6>2. tk \in Nat /\ m \in Int /\ Len(rest) \in Nat /\ m - tk >= 1
              BY <2>1, <3>2
            <6>3. Len(rest) + 1 = (m - tk) + 1
              BY <5>1, <6>1
            <6>4. Len(rest) = m - tk
              BY ONLY <6>2, <6>3
            <6> QED
              BY ONLY <6>2, <6>4
          <5> QED
            BY <1>1, <1>2, <1>5, <3>2, <5>1, <5>2
        <4>2. \E k \in taken'[p]..num_batches' :
                /\ Enough(p, k)' /\ Holds(p, taken[p])'
                /\ Len(local_queue'[p]) = (k - taken'[p]) + 1 /\ Waiting(p, k - (tk + 1))'
                /\ local_queue'[p][(k - taken'[p]) + 1] = Sentinel'
          BY <1>3, <1>4, <1>5, <2>3, <3>1, <3>2, <3>4, <3>6, <4>1
        <4> QED
          BY <1>3, <2>3, <3>1, <3>6, <4>2 DEF ReaderOK, Waiting
      <3> QED
        BY <1>5, <3>5, <3>6
    <2> QED
      BY <2>4, <2>5
  <1> QED
    BY <1>7, <1>8

-----------------------------------------------------------------------------
(* What the main functions make of what the readers hold.                  *)

LEMMA FieldsOf ==
  ASSUME NEW k
  PROVE  /\ pulse[k]["AX"] = pulse[k].AX /\ pulse[k]["AH"] = pulse[k].AH
         /\ pulse[k]["BX"] = pulse[k].BX /\ pulse[k]["BH"] = pulse[k].BH /\ pulse[k]["R"] = pulse[k].R
  OBVIOUS

\* Once a reader has enough, the bits it lacks are bits nobody asked for.
LEMMA CaughtUp ==
  ASSUME StreamsOK, NEW p \in Party, NEW n \in Nat, Enough(p, n),
         NEW wanted, wanted = Least(2 * length[AngleFifo(p)], bit_size),
         p = "B" => wanted <= length["result"]
  PROVE  /\ wanted \in Nat /\ Least(2 * Reach(AngleFifo(p), n), bit_size) = wanted
         /\ p = "B" => wanted <= Reach("result", n)
  <1> DEFINE L == length[AngleFifo(p)]
             R == length["result"]
             a == n * BatchSize
             b == n * (2 * BatchSize)
  <1>1. /\ L \in Nat /\ R \in Nat /\ bit_size \in Nat /\ BatchSize \in Nat /\ num_batches \in Nat
        /\ bit_size <= num_batches * (2 * BatchSize)
    BY Planned, AcquisitionAssumption DEF StreamsOK, AngleFifo, Fifo
  <1>2. a \in Nat /\ b = a + a
    <2>1. 2 * BatchSize = BatchSize + BatchSize
      BY <1>1
    <2>2. n * (BatchSize + BatchSize) = (n * BatchSize) + (n * BatchSize) /\ n * BatchSize \in Nat
      BY <1>1, Distribute
    <2> QED
      BY <2>1, <2>2
  <1>3. /\ Width(AngleFifo(p)) = BatchSize /\ Width("result") = 2 * BatchSize
        /\ Reach(AngleFifo(p), n) = Least(a, L) /\ Reach("result", n) = Least(b, R)
    BY DEF Width, Reach, AngleFifo
  <1>4. bit_size <= b \/ a >= L \/ (p = "B" /\ b >= R)
    <2>1. CASE n = num_batches
      BY <1>1, <2>1
    <2>2. CASE \E f \in FifosOf(p) : n * Width(f) >= length[f]
      BY <1>3, <2>2, PartyFifos
    <2> QED
      BY <2>1, <2>2 DEF Enough
  <1> HIDE DEF L, R, a, b
  <1>5. wanted = Least(2 * L, bit_size) /\ (p = "B" => wanted <= R)
    BY DEF L, R
  <1>6. wanted \in Nat /\ wanted <= b
    BY <1>1, <1>2, <1>4, <1>5 DEF Least
  <1>7. Least(2 * Least(a, L), bit_size) = wanted /\ (p = "B" => wanted <= Least(b, R))
    BY <1>1, <1>2, <1>5, <1>6 DEF Least
  <1> QED
    BY <1>3, <1>6, <1>7

LEMMA FirstOf ==
  ASSUME StreamsOK, NEW S, NEW s \in Seq(S)
  PROVE  /\ First(s) \in Seq(S) /\ Len(First(s)) = Least(Len(s), bit_size)
         /\ \A k \in 1..Least(Len(s), bit_size) : First(s)[k] = s[k]
  <1> DEFINE n == Least(Len(s), bit_size)
  <1>1. n \in Nat /\ n <= Len(s) /\ bit_size \in Nat
    BY DEF StreamsOK, Least
  <1>2. First(s) = SubSeq(s, 0 + 1, 0 + n)
    BY <1>1 DEF First, Least
  <1> HIDE DEF n
  <1>3. /\ SubSeq(s, 0 + 1, 0 + n) \in Seq(S) /\ Len(SubSeq(s, 0 + 1, 0 + n)) = n
        /\ \A k \in 1..n : SubSeq(s, 0 + 1, 0 + n)[k] = s[0 + k]
    BY <1>1, Cut
  <1>4. \A k \in 1..n : 0 + k = k
    BY <1>1
  <1> QED
    BY <1>2, <1>3, <1>4 DEF n

\* The bits of the angles held are those of the first pulses.
LEMMA HeldAngles ==
  ASSUME StreamsOK, NEW p \in Party, NEW n \in Nat, Holds(p, n), Parses(angles[p]),
         NEW m, m = Least(2 * Reach(AngleFifo(p), n), bit_size)
  PROVE  LET A == parse_angle(angles[p], p)
         IN  /\ m \in Nat
             /\ First(A.X) \in Seq(Bit) /\ Len(First(A.X)) = m
             /\ \A k \in 1..m : First(A.X)[k] = ValueOf(p, k)
             /\ First(A.H) \in Seq(Bit) /\ Len(First(A.H)) = m
             /\ \A k \in 1..m : First(A.H)[k] = BasisOf(p, k)
  <1> DEFINE f == AngleFifo(p)
             r == Reach(f, n)
             A == parse_angle(angles[p], p)
  <1>1. f \in Fifo /\ r \in Nat /\ r <= length[f] /\ length[f] \in Nat /\ f # "result"
    BY PartyFifos, ReachType, StreamType DEF AngleFifo
  <1>2. angles[p] = [j \in 1..r |-> AngleByte(p, j)]
    <2>1. angles[p] = Prefix(f, n) /\ Prefix(f, n) \in Seq(Nat) /\ Len(Prefix(f, n)) = r
          /\ \A j \in 1..r : Prefix(f, n)[j] = Stream(f)[j]
      BY <1>1, ChunkType DEF Holds
    <2>2. \A j \in 1..r : Stream(f)[j] = AngleByte(p, j)
      <3>1. \A j \in 1..length[f] : Stream(f)[j] = AngleByte(IF f = "angleA" THEN "A" ELSE "B", j)
        BY <1>1, StreamType
      <3>2. (IF f = "angleA" THEN "A" ELSE "B") = p
        BY DEF AngleFifo, Party
      <3> QED
        BY <1>1, <3>1, <3>2
    <2>3. Prefix(f, n) = [j \in 1..r |-> Prefix(f, n)[j]]
      BY <2>1
    <2> QED
      BY <2>1, <2>2, <2>3
  <1>3. /\ A.X = [k \in 1..(2 * r) |-> ValueOf(p, k)]
        /\ A.H = [k \in 1..(2 * r) |-> BasisOf(p, k)]
    BY <1>1, <1>2, ParsedAngles
  <1>4. \A k \in 1..(2 * r) : ValueOf(p, k) \in Bit /\ BasisOf(p, k) \in Bit
    <2>1. 2 * r <= Len(pulse) /\ Len(pulse) \in Nat
      BY <1>1 DEF StreamsOK, AngleFifo, Party
    <2>2. \A k \in 1..(2 * r) : k \in 1..Len(pulse)
      BY <1>1, <2>1
    <2> QED
      BY <2>2, PulseCode
  <1> HIDE DEF f, A
  <1>5. m = Least(2 * r, bit_size) /\ 2 * r \in Nat
    BY <1>1 DEF f
  <1> HIDE DEF r
  <1>6. m \in Nat /\ m <= 2 * r
    BY <1>5 DEF StreamsOK, Least
  <1>7. /\ A.X \in Seq(Bit) /\ Len(A.X) = 2 * r /\ \A k \in 1..(2 * r) : A.X[k] = ValueOf(p, k)
        /\ A.H \in Seq(Bit) /\ Len(A.H) = 2 * r /\ \A k \in 1..(2 * r) : A.H[k] = BasisOf(p, k)
    BY <1>3, <1>4, <1>5
  <1>8. /\ First(A.X) \in Seq(Bit) /\ Len(First(A.X)) = m /\ \A k \in 1..m : First(A.X)[k] = A.X[k]
        /\ First(A.H) \in Seq(Bit) /\ Len(First(A.H)) = m /\ \A k \in 1..m : First(A.H)[k] = A.H[k]
    BY <1>5, <1>7, FirstOf
  <1>9. \A k \in 1..m : k \in 1..(2 * r)
    BY <1>5, <1>6
  <1>10. A = parse_angle(angles[p], p)
    BY DEF A
  <1> QED
    BY <1>6, <1>7, <1>8, <1>9, <1>10

LEMMA RestoredBits ==
  ASSUME NEW bits \in Seq(Bit)
  PROVE  Restored(bits) = bits
  BY BitsRestored DEF Restored

\* The readers' results and the results FIFO.
LEMMA HeldResults ==
  ASSUME StreamsOK, NEW n \in Nat, Holds("B", n),
         NEW m, m = Least(Reach("result", n), bit_size)
  PROVE  /\ m \in Nat /\ First(results) \in Seq(Bit) /\ Len(First(results)) = m
         /\ \A k \in 1..m : First(results)[k] = pulse[k].R
  <1> DEFINE r == Reach("result", n)
             s == Prefix("result", n)
  <1>1. "result" \in Fifo
    BY DEF Fifo
  <1>2. r \in Nat /\ r <= length["result"] /\ length["result"] \in Nat
    BY <1>1, ReachType, StreamType
  <1>3. results = s /\ s \in Seq(Nat) /\ Len(s) = r /\ \A j \in 1..r : s[j] = Stream("result")[j]
    BY <1>1, ChunkType DEF Holds
  <1>4. ASSUME NEW j \in 1..r PROVE s[j] = pulse[j].R /\ pulse[j].R \in Bit
    <2>1. j \in 1..length["result"]
      BY <1>2
    <2>2. Stream("result")[j] = pulse[j].R
      BY <1>1, <2>1, StreamType
    <2>3. j \in 1..Len(pulse) /\ pulse \in Seq(Pulse)
      BY <1>2, <2>1 DEF StreamsOK
    <2>4. pulse[j] \in Pulse
      BY <2>3
    <2> QED
      BY <1>3, <2>2, <2>4 DEF Pulse
  <1> HIDE DEF r, s
  <1>5. s \in Seq(Bit)
    <2>1. \A j \in 1..Len(s) : s[j] \in Bit
      BY <1>3, <1>4
    <2> QED
      BY <1>3, <2>1
  <1>6. m \in Nat /\ m <= r /\ m = Least(r, bit_size)
    BY <1>2 DEF StreamsOK, Least, r
  <1>7. /\ First(s) \in Seq(Bit) /\ Len(First(s)) = m
        /\ \A k \in 1..m : First(s)[k] = s[k]
    BY <1>3, <1>5, <1>6, FirstOf
  <1>8. \A k \in 1..m : k \in 1..r
    BY <1>2, <1>6
  <1> QED
    BY <1>3, <1>4, <1>6, <1>7, <1>8

\* Bob's strings, once he has parsed.
LEMMA BobParsed ==
  ASSUME StreamsOK, TypeOK, ReaderOK("A"), Collected("A"), Parses(angles["A"])
  PROVE  LET A == parse_angle(angles["A"], "A")
         IN  /\ Restored(First(A.X)) = BitsOf("AX", BobPulses)
             /\ Restored(First(A.H)) = BitsOf("AH", BobPulses)
  <1> DEFINE A == parse_angle(angles["A"], "A")
             m == BobPulses
             v == First(A.X)
             w == First(A.H)
  <1>1. PICK n \in 0..num_batches : Enough("A", n) /\ Holds("A", n)
    BY DEF ReaderOK, Collected, Party
  <1>2. n \in Nat /\ "A" \in Party /\ AngleFifo("A") = "angleA"
    BY Planned DEF Party, AngleFifo
  <1>3. m = Least(2 * length[AngleFifo("A")], bit_size)
    BY <1>2 DEF BobPulses
  <1> HIDE DEF m
  <1>4. m = Least(2 * Reach(AngleFifo("A"), n), bit_size)
    BY <1>1, <1>2, <1>3, CaughtUp
  <1>5. /\ m \in Nat
        /\ v \in Seq(Bit) /\ Len(v) = m
        /\ \A k \in 1..m : v[k] = ValueOf("A", k)
        /\ w \in Seq(Bit) /\ Len(w) = m
        /\ \A k \in 1..m : w[k] = BasisOf("A", k)
    BY <1>1, <1>2, <1>4, HeldAngles
  <1> HIDE DEF A, v, w
  <1>6. v = [k \in 1..m |-> v[k]] /\ w = [k \in 1..m |-> w[k]]
    BY <1>5
  <1>7. v = BitsOf("AX", m) /\ w = BitsOf("AH", m)
    BY <1>5, <1>6, FieldsOf DEF BitsOf, ValueOf, BasisOf
  <1>8. Restored(v) = v /\ Restored(w) = w
    BY <1>5, RestoredBits
  <1> QED
    BY <1>7, <1>8 DEF m, A, v, w

\* Alice's strings: of one length whenever she goes on, and the first pulses' when a result
\* came for each of them.
LEMMA AliceParsed ==
  ASSUME StreamsOK, TypeOK, ReaderOK("B"), Collected("B"), Parses(angles["B"]),
         NEW x2, x2 = Restored(xor_bits(First(parse_angle(angles["B"], "B").X), First(results))),
         NEW y2, y2 = int_to_str(list_to_int(First(parse_angle(angles["B"], "B").H)), Len(x2))
  PROVE  /\ x2 \in Seq(Bit) /\ y2 \in Seq(Bit)
         /\ length["result"] >= AlicePulses =>
              /\ y2 = BitsOf("BH", AlicePulses)
              /\ x2 = xor_bits(BitsOf("BX", AlicePulses), BitsOf("R", AlicePulses))
  <1> DEFINE B == parse_angle(angles["B"], "B")
             m == AlicePulses
             r == First(results)
             v == First(B.X)
             w == First(B.H)
  <1>1. PICK n \in 0..num_batches : Enough("B", n) /\ Holds("B", n)
    BY DEF ReaderOK, Collected, Party
  <1>2. n \in Nat /\ "B" \in Party /\ AngleFifo("B") = "angleB"
    BY Planned DEF Party, AngleFifo
  <1>3. PICK a \in Nat :
          /\ a = Least(2 * Reach(AngleFifo("B"), n), bit_size)
          /\ v \in Seq(Bit) /\ Len(v) = a /\ \A k \in 1..a : v[k] = ValueOf("B", k)
          /\ w \in Seq(Bit) /\ Len(w) = a /\ \A k \in 1..a : w[k] = BasisOf("B", k)
    BY <1>1, <1>2, HeldAngles
  <1>4. PICK c \in Nat :
          /\ c = Least(Reach("result", n), bit_size)
          /\ r \in Seq(Bit) /\ Len(r) = c /\ \A k \in 1..c : r[k] = pulse[k].R
    BY <1>1, <1>2, HeldResults
  <1>5. x2 = Restored(xor_bits(v, r)) /\ y2 = int_to_str(list_to_int(w), Len(x2))
    OBVIOUS
  <1> HIDE DEF B, m, r, v, w
  <1>6. /\ xor_bits(v, r) \in Seq(Bit) /\ Len(xor_bits(v, r)) = Least(Len(v), Len(r))
        /\ x2 = xor_bits(v, r)
    BY <1>3, <1>4, <1>5, XorType, RestoredBits
  <1>7. y2 \in Seq(Bit)
    <2>1. list_to_int(w) = Spelt(w, a) /\ \A e \in Spelt(w, a) : e \in Nat /\ e < a
      BY <1>3, ListToInt DEF Spelt
    <2>2. Len(x2) \in Nat
      BY <1>6
    <2> QED
      BY <1>5, <2>1, <2>2, IntToStrType
  <1>8. ASSUME length["result"] >= m
        PROVE  y2 = BitsOf("BH", m) /\ x2 = xor_bits(BitsOf("BX", m), BitsOf("R", m))
    <2>1. m = Least(2 * length[AngleFifo("B")], bit_size)
      BY <1>2 DEF AlicePulses, m
    <2>2. length["result"] \in Nat /\ 2 * length[AngleFifo("B")] \in Nat /\ bit_size \in Nat
      BY <1>2 DEF StreamsOK, Fifo
    <2>3. m \in Nat /\ m <= bit_size /\ m <= length["result"]
      BY <1>8, <2>1, <2>2 DEF Least
    <2>4. a = m /\ m <= Reach("result", n)
      BY <1>1, <1>2, <1>3, <2>1, <2>3, CaughtUp
    <2>5. m <= c
      BY <1>4, <2>3, <2>4 DEF Least
    <2>6. Least(Len(v), Len(r)) = m
      BY <1>3, <1>4, <2>3, <2>4, <2>5 DEF Least
    <2>7. w = BitsOf("BH", m) /\ v = BitsOf("BX", m)
      <3>1. w = [k \in 1..a |-> w[k]] /\ v = [k \in 1..a |-> v[k]]
        BY <1>3
      <3> QED
        BY <1>3, <2>4, <3>1, FieldsOf DEF BitsOf, ValueOf, BasisOf
    <2>8. x2 = xor_bits(BitsOf("BX", m), BitsOf("R", m))
      <3>1. /\ \A k \in 1..m : BitsOf("R", m)[k] = r[k] /\ BitsOf("BX", m)[k] = v[k]
            /\ Len(BitsOf("R", m)) = m /\ Len(BitsOf("BX", m)) = m
        <4>1. \A k \in 1..m : k \in 1..c
          BY <2>3, <2>5
        <4> QED
          BY <1>4, <2>3, <2>7, <4>1, FieldsOf DEF BitsOf
      <3>2. xor_bits(BitsOf("BX", m), BitsOf("R", m)) = [k \in 1..m |-> XorBit(v[k], r[k])]
        BY <2>3, <3>1 DEF xor_bits
      <3>3. xor_bits(v, r) = [k \in 1..m |-> XorBit(v[k], r[k])]
        BY <2>6 DEF xor_bits, Least
      <3> QED
        BY <1>6, <3>2, <3>3
    <2>9. y2 = w
      <3>1. Len(x2) = Len(w)
        BY <1>3, <1>6, <2>4, <2>6
      <3> QED
        BY <1>3, <1>5, <3>1, BitsRestored
    <2> QED
      BY <2>7, <2>8, <2>9
  <1> QED
    BY <1>6, <1>7, <1>8 DEF m

-----------------------------------------------------------------------------
(* The invariant holds at the start.                                       *)

LEMMA InitStreams ==
  ASSUME Init PROVE StreamsOK
  <1>1. pulse \in Seq(Pulse) /\ bit_size \in Nat \ {0} /\ source \in {"hwsim", "database"}
    BY AcquisitionAssumption DEF Init, Pulse
  <1>2. Len(pulse) \in Nat /\ 2 * (Len(pulse) \div 2) <= Len(pulse) /\ Len(pulse) \div 2 \in Nat
    BY <1>1
  <1>3. length \in [Fifo -> Nat] /\ \A f \in Fifo : length[f] <= Whole(pulse)[f]
    <2>1. Whole(pulse) \in [Fifo -> Nat]
      BY <1>2 DEF Whole
    <2>2. \/ length \in [Fifo -> 0..Len(pulse)] /\ \A f \in Fifo : length[f] <= Whole(pulse)[f]
          \/ length = Whole(pulse)
      BY DEF Init
    <2>3. CASE length = Whole(pulse)
      BY <2>1, <2>3
    <2>4. CASE length \in [Fifo -> 0..Len(pulse)] /\ \A f \in Fifo : length[f] <= Whole(pulse)[f]
      <3>1. \A f \in Fifo : length[f] \in Nat
        BY <1>2, <2>4
      <3> QED
        BY <2>4, <3>1
    <2> QED
      BY <2>2, <2>3, <2>4
  <1>4. /\ "angleA" \in Fifo /\ "angleB" \in Fifo /\ "result" \in Fifo
        /\ Whole(pulse)["angleA"] = Len(pulse) \div 2 /\ Whole(pulse)["angleB"] = Len(pulse) \div 2
        /\ Whole(pulse)["result"] = Len(pulse)
    BY DEF Fifo, Whole
  <1>5. /\ length["angleA"] \in Nat /\ length["angleA"] <= Len(pulse) \div 2
        /\ length["angleB"] \in Nat /\ length["angleB"] <= Len(pulse) \div 2
        /\ length["result"] <= Len(pulse)
    BY <1>3, <1>4
  <1> QED
    BY <1>1, <1>2, <1>3, <1>5 DEF StreamsOK

LEMMA InitInv ==
  ASSUME Init PROVE Inv
  <1>1. StreamsOK
    BY InitStreams
  <1>2. num_batches \in Nat \ {0} /\ 0 \in 0..num_batches
    BY <1>1, Planned
  <1>3. TypeOK
    BY <1>2 DEF Init, TypeOK
  <1>4. ASSUME NEW p \in Party PROVE ReaderOK(p)
    <2>1. \A f \in Fifo : Prefix(f, 0) = <<>>
      <3> SUFFICES ASSUME NEW f \in Fifo PROVE Prefix(f, 0) = <<>>
        OBVIOUS
      <3>1. Prefix(f, 0) \in Seq(Nat) /\ Len(Prefix(f, 0)) = Reach(f, 0) /\ Reach(f, 0) = 0
        BY <1>1, ChunkType, ReachType
      <3> QED
        BY <3>1
    <2>2. AngleFifo(p) \in Fifo /\ "result" \in Fifo /\ FifosOf(p) \subseteq Fifo
      BY PartyFifos DEF Fifo
    <2>3. Holds(p, 0)
      BY <2>1, <2>2 DEF Holds, Init
    <2>4. thread[p] = "none" /\ local_queue[p] = <<>> /\ taken[p] = 0 /\ taken[p] # num_batches
          /\ \A f \in FifosOf(p) : pos[f] = 0
      BY <1>2, <2>2 DEF Init
    <2> QED
      BY <2>3, <2>4 DEF ReaderOK
  <1> QED
    BY <1>1, <1>3, <1>4
    DEF Inv, Phases, Strings, FirstPulses, UnblindedOnlyAtB, VerdictAsMeasured, Init, Party

-----------------------------------------------------------------------------
(* Every step keeps it.                                                    *)

\* A step of a reader concerns nobody's strings.
LEMMA StringsKept ==
  ASSUME Inv, UNCHANGED mainVars, \A p \in Party : thread[p] = "none" => thread'[p] = "none"
  PROVE  StreamsOK' /\ Phases' /\ Strings' /\ UnblindedOnlyAtB' /\ VerdictAsMeasured'
  <1>1. UNCHANGED streamVars /\ StreamsOK'
    BY StreamsKept DEF Inv, mainVars, streamVars
  <1>2. Phases'
    BY DEF Inv, Phases, mainVars, streamVars, Party
  <1>3. Strings'
    BY DEF Inv, Strings, FirstPulses, BobPulses, AlicePulses, BitsOf, mainVars, streamVars
  <1>4. UnblindedOnlyAtB' /\ VerdictAsMeasured'
    BY DEF Inv, UnblindedOnlyAtB, VerdictAsMeasured, mainVars
  <1> QED
    BY <1>1, <1>2, <1>3, <1>4

\* The reader that did not move.
LEMMA OthersKept ==
  ASSUME Inv, UNCHANGED mainVars, NEW p \in Party, ReaderOK(p)',
         \A o \in Party \ {p} :
            /\ thread'[o] = thread[o] /\ local_queue'[o] = local_queue[o] /\ taken'[o] = taken[o]
            /\ angles'[o] = angles[o] /\ (o = "B" => results' = results)
            /\ \A f \in FifosOf(o) : pos'[f] = pos[f]
  PROVE  \A o \in Party : ReaderOK(o)'
  <1> SUFFICES ASSUME NEW o \in Party \ {p} PROVE ReaderOK(o)'
    OBVIOUS
  <1>1. UNCHANGED streamVars /\ ReaderOK(o)
    BY DEF Inv, mainVars
  <1> QED
    BY <1>1, ReaderKept

LEMMA ReadType ==
  ASSUME StreamsOK, TypeOK, NEW p \in Party, ReaderOK(p), thread[p] = "reading",
         i(p) < num_batches, NEW f \in FifosOf(p)
  PROVE  Len(Read(f, Width(f))) \in Nat
  <1>1. thread[p] = "reading" /\ taken[p] < num_batches /\ i(p) \in Nat
    BY Planned DEF TypeOK, i
  <1>2. pos[f] = Reach(f, i(p))
    BY <1>1 DEF ReaderOK
  <1>3. Read(f, Width(f)) = Chunk(f, i(p) + 1) /\ Chunk(f, i(p) + 1) \in Seq(Nat)
    BY <1>1, <1>2, PartyFifos, ReadChunk, ChunkType
  <1> QED
    BY <1>3

LEMMA AliceFetches ==
  ASSUME Inv, fifo_reader_alice PROVE Inv'
  <1> DEFINE data == Read("angleA", BatchSize)
             batch == IF data = <<>> THEN Sentinel ELSE Batch(data, <<>>)
  <1>1. /\ StreamsOK /\ TypeOK /\ ReaderOK("A") /\ thread["A"] = "reading" /\ i("A") < num_batches
        /\ UNCHANGED mainVars /\ "A" \in Party
    BY DEF Inv, fifo_reader_alice, Reading, Party
  <1>2. FifosOf("A") = {"angleA"} /\ AngleFifo("A") = "angleA" /\ Width("angleA") = BatchSize
    BY DEF FifosOf, AngleFifo, Width
  <1>3. /\ pos' = [pos EXCEPT !["angleA"] = @ + Len(data)]
        /\ local_queue' = [local_queue EXCEPT !["A"] = Append(@, batch)]
        /\ thread' = IF data = <<>> THEN [thread EXCEPT !["A"] = "ended"] ELSE thread
        /\ taken' = taken /\ angles' = angles /\ results' = results
    BY DEF fifo_reader_alice, End, Put
  <1>4. Fetched("A", batch)
    BY <1>1, <1>2, <1>3 DEF Fetched, TypeOK, Fifo, mainVars
  <1>5. ReaderOK("A")' /\ batch \in [a : Seq(Nat), r : Seq(Nat)]
    BY <1>1, <1>4, FetchedOK
  <1>6. \A o \in Party : ReaderOK(o)'
    <2>1. ASSUME NEW o \in Party \ {"A"}
          PROVE  /\ thread'[o] = thread[o] /\ local_queue'[o] = local_queue[o]
                 /\ \A f \in FifosOf(o) : pos'[f] = pos[f]
      BY <1>1, <1>3 DEF TypeOK, FifosOf, Party, Fifo
    <2> QED
      BY <1>1, <1>3, <1>5, <2>1, OthersKept
  <1>7. TypeOK'
    <2>1. Len(data) \in Nat
      BY <1>1, <1>2, ReadType
    <2>2. num_batches' = num_batches /\ hardware' = hardware
      BY <1>1, StreamsKept DEF mainVars
    <2> HIDE DEF data, batch
    <2> QED
      BY <1>1, <1>3, <1>5, <2>1, <2>2 DEF TypeOK, Fifo
  <1>8. StreamsOK' /\ Phases' /\ Strings' /\ UnblindedOnlyAtB' /\ VerdictAsMeasured'
    <2>1. \A p \in Party : thread[p] = "none" => thread'[p] = "none"
      BY <1>1, <1>3 DEF TypeOK
    <2> QED
      BY <1>1, <2>1, StringsKept
  <1> QED
    BY <1>6, <1>7, <1>8 DEF Inv

LEMMA BobFetches ==
  ASSUME Inv, fifo_reader_bob PROVE Inv'
  <1> DEFINE rd == Read("result", 2 * BatchSize)
             ad == Read("angleB", BatchSize)
             batch == IF rd = <<>> \/ ad = <<>> THEN Sentinel ELSE Batch(ad, rd)
  <1>1. /\ StreamsOK /\ TypeOK /\ ReaderOK("B") /\ thread["B"] = "reading" /\ i("B") < num_batches
        /\ UNCHANGED mainVars /\ "B" \in Party
    BY DEF Inv, fifo_reader_bob, ReadPairs, Reading, Party
  <1>2. /\ FifosOf("B") = {"angleB", "result"} /\ AngleFifo("B") = "angleB"
        /\ Width("angleB") = BatchSize /\ Width("result") = 2 * BatchSize
    BY DEF FifosOf, AngleFifo, Width
  <1>3. /\ pos' = [pos EXCEPT !["result"] = @ + Len(rd), !["angleB"] = @ + Len(ad)]
        /\ local_queue' = [local_queue EXCEPT !["B"] = Append(@, batch)]
        /\ thread' = IF rd = <<>> \/ ad = <<>> THEN [thread EXCEPT !["B"] = "ended"] ELSE thread
        /\ taken' = taken /\ angles' = angles /\ results' = results
    BY DEF fifo_reader_bob, ReadPairs, End, Put
  <1>4. Fetched("B", batch)
    <2> HIDE DEF rd, ad
    <2>1. \A f \in FifosOf("B") : pos'[f] = pos[f] + Len(Read(f, Width(f)))
      BY <1>1, <1>2, <1>3 DEF TypeOK, Fifo, rd, ad
    <2>2. (\E f \in FifosOf("B") : Read(f, Width(f)) = <<>>) <=> rd = <<>> \/ ad = <<>>
      BY <1>2 DEF rd, ad
    <2>3. Read(AngleFifo("B"), Width(AngleFifo("B"))) = ad /\ Read("result", Width("result")) = rd
      BY <1>2 DEF rd, ad
    <2> QED
      BY <1>1, <1>3, <2>1, <2>2, <2>3 DEF Fetched, TypeOK, mainVars
  <1>5. ReaderOK("B")' /\ batch \in [a : Seq(Nat), r : Seq(Nat)]
    BY <1>1, <1>4, FetchedOK
  <1>6. \A o \in Party : ReaderOK(o)'
    <2>1. ASSUME NEW o \in Party \ {"B"}
          PROVE  /\ thread'[o] = thread[o] /\ local_queue'[o] = local_queue[o] /\ o # "B"
                 /\ \A f \in FifosOf(o) : pos'[f] = pos[f]
      BY <1>1, <1>3 DEF TypeOK, FifosOf, Party, Fifo
    <2> QED
      BY <1>1, <1>3, <1>5, <2>1, OthersKept
  <1>7. TypeOK'
    <2>1. Len(rd) \in Nat /\ Len(ad) \in Nat
      BY <1>1, <1>2, ReadType
    <2>2. num_batches' = num_batches /\ hardware' = hardware
      BY <1>1, StreamsKept DEF mainVars
    <2> HIDE DEF rd, ad, batch
    <2>3. pos' \in [Fifo -> Nat]
      <3>1. pos \in [Fifo -> Nat] /\ "angleB" \in Fifo /\ "result" \in Fifo
        BY <1>1 DEF TypeOK, Fifo
      <3>2. pos["angleB"] + Len(ad) \in Nat /\ pos["result"] + Len(rd) \in Nat
        BY <2>1, <3>1
      <3>3. \A f \in Fifo : pos'[f] \in Nat
        BY <1>3, <2>1, <3>1, <3>2
      <3> QED
        BY <1>3, <3>1, <3>3
    <2>4. local_queue' \in [Party -> Seq([a : Seq(Nat), r : Seq(Nat)])]
      BY <1>1, <1>3, <1>5 DEF TypeOK
    <2>5. thread' \in [Party -> {"none", "reading", "ended"}]
      BY <1>1, <1>3 DEF TypeOK
    <2> QED
      BY <1>1, <1>3, <2>2, <2>3, <2>4, <2>5 DEF TypeOK
  <1>8. StreamsOK' /\ Phases' /\ Strings' /\ UnblindedOnlyAtB' /\ VerdictAsMeasured'
    <2>1. \A p \in Party : thread[p] = "none" => thread'[p] = "none"
      BY <1>1, <1>3 DEF TypeOK
    <2> QED
      BY <1>1, <2>1, StringsKept
  <1> QED
    BY <1>6, <1>7, <1>8 DEF Inv

LEMMA HeadTail ==
  ASSUME NEW S, NEW s \in Seq(S), s # <<>>
  PROVE  Head(s) \in S /\ Tail(s) \in Seq(S)
  OBVIOUS

LEMMA LoopEnds ==
  ASSUME Inv, NEW p \in Party, LoopDone(p) PROVE Inv'
  <1>1. /\ StreamsOK /\ TypeOK /\ ReaderOK(p) /\ thread[p] = "reading" /\ UNCHANGED mainVars
        /\ thread' = [thread EXCEPT ![p] = "ended"]
        /\ local_queue' = [local_queue EXCEPT ![p] = Append(@, Sentinel)]
        /\ pos' = pos /\ taken' = taken /\ angles' = angles /\ results' = results
    BY DEF Inv, LoopDone, End, Reading
  <1>2. ReaderOK(p)'
    BY <1>1, LoopDoneOK
  <1>3. \A o \in Party : ReaderOK(o)'
    <2>1. \A o \in Party \ {p} : thread'[o] = thread[o] /\ local_queue'[o] = local_queue[o]
      BY <1>1 DEF TypeOK
    <2> QED
      BY <1>1, <1>2, <2>1, OthersKept
  <1>4. TypeOK'
    <2>1. num_batches' = num_batches /\ hardware' = hardware
      BY <1>1, StreamsKept DEF mainVars
    <2>2. Sentinel \in [a : Seq(Nat), r : Seq(Nat)]
      BY DEF Sentinel, Batch
    <2> QED
      BY <1>1, <2>1, <2>2 DEF TypeOK
  <1>5. StreamsOK' /\ Phases' /\ Strings' /\ UnblindedOnlyAtB' /\ VerdictAsMeasured'
    <2>1. \A o \in Party : thread[o] = "none" => thread'[o] = "none"
      BY <1>1 DEF TypeOK
    <2> QED
      BY <1>1, <2>1, StringsKept
  <1> QED
    BY <1>3, <1>4, <1>5 DEF Inv

LEMMA Gets ==
  ASSUME Inv, NEW p \in Party, Get(p) PROVE Inv'
  <1> DEFINE batch == Head(local_queue[p])
  <1>1. /\ StreamsOK /\ TypeOK /\ ReaderOK(p) /\ UNCHANGED mainVars
        /\ taken[p] < num_batches /\ local_queue[p] # <<>>
        /\ taken' = [taken EXCEPT ![p] = IF batch = Sentinel THEN num_batches ELSE @ + 1]
        /\ angles' = [angles EXCEPT ![p] = @ \o batch.a]
        /\ results' = IF p = "B" THEN results \o batch.r ELSE results
        /\ local_queue' = [local_queue EXCEPT ![p] = Tail(@)]
        /\ pos' = pos /\ thread' = thread
    BY DEF Inv, Get
  <1>2. ReaderOK(p)'
    BY <1>1, GetOK
  <1>3. \A o \in Party : ReaderOK(o)'
    <2>1. \A o \in Party \ {p} : /\ local_queue'[o] = local_queue[o] /\ taken'[o] = taken[o]
                                 /\ angles'[o] = angles[o] /\ (o = "B" => results' = results)
      BY <1>1 DEF TypeOK
    <2> QED
      BY <1>1, <1>2, <2>1, OthersKept
  <1>4. TypeOK'
    <2>1. num_batches' = num_batches /\ hardware' = hardware
      BY <1>1, StreamsKept DEF mainVars
    <2>2. local_queue[p] \in Seq([a : Seq(Nat), r : Seq(Nat)])
      BY <1>1 DEF TypeOK
    <2>3. batch \in [a : Seq(Nat), r : Seq(Nat)]
          /\ Tail(local_queue[p]) \in Seq([a : Seq(Nat), r : Seq(Nat)])
      BY <1>1, <2>2, HeadTail
    <2>4. batch.a \in Seq(Nat) /\ batch.r \in Seq(Nat)
      BY <2>3
    <2> HIDE DEF batch
    <2>5. taken' \in [Party -> 0..num_batches]
      <3>1. num_batches \in Nat /\ taken[p] + 1 \in 0..num_batches /\ num_batches \in 0..num_batches
        BY <1>1, Planned DEF TypeOK
      <3> QED
        BY <1>1, <3>1 DEF TypeOK
    <2>6. angles' \in [Party -> Seq(Nat)] /\ results' \in Seq(Nat)
      <3>1. angles[p] \o batch.a \in Seq(Nat) /\ results \o batch.r \in Seq(Nat)
        BY <1>1, <2>4 DEF TypeOK
      <3> QED
        BY <1>1, <3>1 DEF TypeOK
    <2> QED
      BY <1>1, <2>1, <2>3, <2>5, <2>6 DEF TypeOK
  <1>5. StreamsOK' /\ Phases' /\ Strings' /\ UnblindedOnlyAtB' /\ VerdictAsMeasured'
    BY <1>1, StringsKept
  <1> QED
    BY <1>3, <1>4, <1>5 DEF Inv

LEMMA Unmoved ==
  ASSUME Inv, UNCHANGED <<streamVars, readVars>>, hardware' \in {"idle", "running"}
  PROVE  StreamsOK' /\ TypeOK' /\ \A p \in Party : ReaderOK(p)'
  <1>1. UNCHANGED streamVars /\ UNCHANGED <<pos, thread, local_queue, taken, angles, results>>
    BY DEF readVars
  <1>2. StreamsOK' /\ num_batches' = num_batches
    BY <1>1, StreamsKept DEF Inv
  <1>3. TypeOK'
    BY <1>1, <1>2 DEF Inv, TypeOK
  <1>4. \A p \in Party : ReaderOK(p)'
    BY <1>1, ReaderKept DEF Inv
  <1> QED
    BY <1>2, <1>3, <1>4

LEMMA Started ==
  ASSUME Inv, NEW p \in Party, thread[p] = "none", StartReader(p), UNCHANGED <<streamVars, hardware>>
  PROVE  StreamsOK' /\ TypeOK' /\ \A o \in Party : ReaderOK(o)'
  <1>1. /\ UNCHANGED streamVars /\ UNCHANGED <<pos, local_queue, taken, angles, results, hardware>>
        /\ thread' = [thread EXCEPT ![p] = "reading"] /\ StreamsOK /\ TypeOK /\ ReaderOK(p)
    BY DEF StartReader, Inv
  <1>2. StreamsOK' /\ num_batches' = num_batches /\ num_batches \in Nat \ {0}
    BY <1>1, StreamsKept, Planned
  <1>3. TypeOK'
    BY <1>1, <1>2 DEF TypeOK
  <1>4. \A o \in Party \ {p} : ReaderOK(o)'
    <2> SUFFICES ASSUME NEW o \in Party \ {p} PROVE ReaderOK(o)'
      OBVIOUS
    <2>1. thread'[o] = thread[o] /\ ReaderOK(o)
      BY <1>1 DEF TypeOK, Inv
    <2> QED
      BY <1>1, <2>1, ReaderKept
  <1>5. ReaderOK(p)'
    <2>1. /\ local_queue[p] = <<>> /\ taken[p] = 0 /\ Holds(p, 0)
          /\ \A f \in FifosOf(p) : pos[f] = 0
      BY <1>1 DEF ReaderOK
    <2>2. thread'[p] = "reading" /\ taken'[p] = 0 /\ local_queue'[p] = <<>> /\ i(p)' = 0
      BY <1>1, <2>1 DEF TypeOK, i
    <2>3. Holds(p, 0)'
      BY <1>1, <2>1, HoldsKept
    <2>4. Holds(p, taken[p])'
      BY <2>2, <2>3 DEF Holds
    <2>5. Waiting(p, Len(local_queue[p]))'
      BY <2>2 DEF Waiting
    <2>6. \A f \in FifosOf(p) : pos'[f] = Reach(f, i(p))'
      <3> SUFFICES ASSUME NEW f \in FifosOf(p) PROVE pos'[f] = Reach(f, i(p))'
        OBVIOUS
      <3>1. Reach(f, 0) = 0
        BY <1>1, PartyFifos, ReachType
      <3>2. Reach(f, 0)' = Reach(f, 0)
        BY <1>1, StreamsKept
      <3> QED
        BY <1>1, <2>1, <2>2, <3>1, <3>2 DEF Reach
    <2> QED
      BY <1>2, <2>2, <2>4, <2>5, <2>6 DEF ReaderOK
  <1> QED
    BY <1>2, <1>3, <1>4, <1>5

LEMMA NotJudged ==
  ASSUME judged' = {} PROVE UnblindedOnlyAtB' /\ VerdictAsMeasured'
  BY DEF UnblindedOnlyAtB, VerdictAsMeasured

\* Alice's strings are left alone, and Bob's are the right ones.
LEMMA AliceKept ==
  ASSUME Inv, UNCHANGED <<streamVars, x, y>>, alice' = "ready" => alice = "ready",
         bob' = "ready" /\ source = "hwsim" =>
           t' = BitsOf("AX", BobPulses) /\ u' = BitsOf("AH", BobPulses)
  PROVE  Strings'
  BY DEF Inv, Strings, FirstPulses, BobPulses, AlicePulses, BitsOf, streamVars

LEMMA BobSteps ==
  ASSUME Inv, BobLoads \/ BobStarts \/ BobReads \/ BobParses PROVE Inv'
  <1>1. /\ UNCHANGED <<streamVars, alice, x, y, judged>> /\ bob \in {"init", "read", "parse"}
        /\ source' = source
    BY DEF BobLoads, BobStarts, BobReads, BobParses, streamVars
  <1>2. judged' = {} /\ UnblindedOnlyAtB' /\ VerdictAsMeasured'
    BY <1>1, NotJudged DEF Inv, Phases
  <1>3. CASE BobLoads
    <2>1. StreamsOK' /\ TypeOK' /\ \A p \in Party : ReaderOK(p)'
      BY <1>3, Unmoved DEF BobLoads, Inv, TypeOK
    <2>2. Phases'
      BY <1>1, <1>2, <1>3 DEF BobLoads, Phases, Inv, readVars
    <2>3. Strings'
      BY <1>1, <1>3, AliceKept DEF BobLoads
    <2> QED
      BY <1>2, <2>1, <2>2, <2>3 DEF Inv
  <1>4. CASE BobStarts
    <2>1. StreamsOK' /\ TypeOK' /\ \A p \in Party : ReaderOK(p)'
      BY <1>4, Unmoved DEF BobStarts
    <2>2. Phases'
      BY <1>1, <1>2, <1>4 DEF BobStarts, Phases, Inv, readVars
    <2>3. Strings'
      BY <1>1, <1>4, AliceKept DEF BobStarts
    <2> QED
      BY <1>2, <2>1, <2>2, <2>3 DEF Inv
  <1>5. CASE BobReads
    <2>1. thread["A"] = "none" /\ "A" \in Party
      BY <1>5 DEF BobReads, Inv, Phases, Party
    <2>2. StreamsOK' /\ TypeOK' /\ \A p \in Party : ReaderOK(p)'
      <3>1. CASE StartReader("A")
        BY <1>5, <2>1, <3>1, Started DEF BobReads
      <3>2. CASE UNCHANGED readVars
        BY <1>5, <3>2, Unmoved DEF BobReads, Inv, TypeOK
      <3> QED
        BY <1>5, <3>1, <3>2 DEF BobReads
    <2>3. bob' \in {"parse", "stopped"} /\ thread'["B"] = thread["B"]
      BY <1>5 DEF BobReads, StartReader, readVars, Inv, TypeOK, Party
    <2>4. Phases'
      BY <1>1, <1>2, <2>3 DEF Phases, Inv
    <2>5. Strings'
      BY <1>1, <2>3, AliceKept
    <2> QED
      BY <1>2, <2>2, <2>4, <2>5 DEF Inv
  <1>6. CASE BobParses
    <2>1. StreamsOK' /\ TypeOK' /\ \A p \in Party : ReaderOK(p)'
      BY <1>6, Unmoved DEF BobParses, Inv, TypeOK
    <2>2. bob' \in {"ready", "stopped"}
      BY <1>6 DEF BobParses
    <2>3. Phases'
      BY <1>1, <1>2, <1>6, <2>2 DEF BobParses, Phases, Inv, readVars
    <2>4. ASSUME bob' = "ready"
          PROVE  t' = BitsOf("AX", BobPulses) /\ u' = BitsOf("AH", BobPulses)
      <3> DEFINE A == parse_angle(angles["A"], "A")
      <3>1. /\ Collected("A") /\ Parses(angles["A"])
            /\ t' = Restored(First(A.X)) /\ u' = Restored(First(A.H))
        BY <1>6, <2>4 DEF BobParses
      <3>2. StreamsOK /\ TypeOK /\ ReaderOK("A")
        BY DEF Inv, Party
      <3> QED
        BY <3>1, <3>2, BobParsed
    <2>5. Strings'
      BY <1>1, <2>4, AliceKept
    <2> QED
      BY <1>2, <2>1, <2>3, <2>5 DEF Inv
  <1> QED
    BY <1>3, <1>4, <1>5, <1>6

LEMMA AliceSteps ==
  ASSUME Inv, AliceLoads \/ AliceReads \/ AliceParses PROVE Inv'
  <1>1. /\ UNCHANGED <<streamVars, hardware, bob, t, u, judged>> /\ alice \in {"init", "parse"}
        /\ source' = source
    BY DEF AliceLoads, AliceReads, AliceParses, streamVars
  <1>2. judged' = {} /\ UnblindedOnlyAtB' /\ VerdictAsMeasured'
    BY <1>1, NotJudged DEF Inv, Phases
  <1>3. bob = "ready" /\ source = "hwsim" =>
          t' = BitsOf("AX", BobPulses) /\ u' = BitsOf("AH", BobPulses)
    BY <1>1 DEF Inv, Strings, FirstPulses
  <1>4. CASE AliceLoads
    <2>1. StreamsOK' /\ TypeOK' /\ \A p \in Party : ReaderOK(p)'
      BY <1>4, Unmoved DEF AliceLoads, Inv, TypeOK
    <2>2. Phases'
      BY <1>1, <1>2, <1>4 DEF AliceLoads, Phases, Inv, readVars
    <2>3. Strings'
      BY <1>1, <1>3, <1>4, AliceKept DEF AliceLoads
    <2> QED
      BY <1>2, <2>1, <2>2, <2>3 DEF Inv
  <1>5. CASE AliceReads
    <2>1. thread["B"] = "none" /\ "B" \in Party
      BY <1>5 DEF AliceReads, Inv, Phases, Party
    <2>2. StreamsOK' /\ TypeOK' /\ \A p \in Party : ReaderOK(p)'
      <3>1. CASE StartReader("B")
        BY <1>5, <2>1, <3>1, Started DEF AliceReads
      <3>2. CASE UNCHANGED readVars
        BY <1>5, <3>2, Unmoved DEF AliceReads, Inv, TypeOK
      <3> QED
        BY <1>5, <3>1, <3>2 DEF AliceReads
    <2>3. alice' \in {"parse", "crashed"} /\ thread'["A"] = thread["A"] /\ source = "hwsim"
      BY <1>5 DEF AliceReads, StartReader, readVars, Inv, TypeOK, Party
    <2>4. Phases'
      BY <1>1, <1>2, <2>3 DEF Phases, Inv
    <2>5. Strings'
      BY <1>1, <1>3, <1>5, <2>3, AliceKept DEF AliceReads
    <2> QED
      BY <1>2, <2>2, <2>4, <2>5 DEF Inv
  <1>6. CASE AliceParses
    <2>1. StreamsOK' /\ TypeOK' /\ \A p \in Party : ReaderOK(p)'
      BY <1>6, Unmoved DEF AliceParses, Inv, TypeOK
    <2>2. alice' \in {"ready", "stopped"} /\ alice = "parse"
      BY <1>6 DEF AliceParses
    <2>3. Phases'
      BY <1>1, <1>2, <1>6, <2>2 DEF AliceParses, Phases, Inv, readVars
    <2>4. ASSUME alice' = "ready"
          PROVE  /\ x' \in Seq(Bit) /\ y' \in Seq(Bit) /\ Len(x') = Len(y')
                 /\ length["result"] >= AlicePulses =>
                      /\ y' = BitsOf("BH", AlicePulses)
                      /\ x' = xor_bits(BitsOf("BX", AlicePulses), BitsOf("R", AlicePulses))
      <3> DEFINE B == parse_angle(angles["B"], "B")
      <3>1. /\ Collected("B") /\ Parses(angles["B"])
            /\ \E x2 \in {Restored(xor_bits(First(B.X), First(results)))} :
               \E y2 \in {int_to_str(list_to_int(First(B.H)), Len(x2))} :
                 x' = x2 /\ y' = y2 /\ Len(x2) = Len(y2)
        BY <1>6, <2>4 DEF AliceParses
      <3>2. StreamsOK /\ TypeOK /\ ReaderOK("B")
        BY DEF Inv, Party
      <3>3. PICK x2 \in {Restored(xor_bits(First(B.X), First(results)))} :
              \E y2 \in {int_to_str(list_to_int(First(B.H)), Len(x2))} :
                x' = x2 /\ y' = y2 /\ Len(x2) = Len(y2)
        BY <3>1
      <3>4. PICK y2 \in {int_to_str(list_to_int(First(B.H)), Len(x2))} :
              x' = x2 /\ y' = y2 /\ Len(x2) = Len(y2)
        BY <3>3
      <3>5. /\ x2 \in Seq(Bit) /\ y2 \in Seq(Bit)
            /\ length["result"] >= AlicePulses =>
                 /\ y2 = BitsOf("BH", AlicePulses)
                 /\ x2 = xor_bits(BitsOf("BX", AlicePulses), BitsOf("R", AlicePulses))
        BY <3>1, <3>2, AliceParsed
      <3> QED
        BY <3>4, <3>5
    <2>5. Strings'
      <3>1. bob' = bob /\ length' = length /\ AlicePulses' = AlicePulses /\ BobPulses' = BobPulses
            /\ \A f, n : BitsOf(f, n)' = BitsOf(f, n)
        BY <1>1 DEF streamVars, AlicePulses, BobPulses, BitsOf
      <3> QED
        BY <1>1, <1>3, <2>4, <3>1 DEF Strings, FirstPulses
    <2> QED
      BY <1>2, <2>1, <2>3, <2>5 DEF Inv
  <1> QED
    BY <1>4, <1>5, <1>6

\* A string of whole blocks is all blocks.
LEMMA AllBlocks ==
  ASSUME NEW s \in Seq(Bit), Len(s) % M = 0
  PROVE  Blocks(s) = s
  <1>1. /\ Blocks(s) \in Seq(Bit) /\ Len(Blocks(s)) = M * (Len(s) \div M)
        /\ \A k \in 1..(M * (Len(s) \div M)) : Blocks(s)[k] = s[k]
    BY BlocksType
  <1>2. Len(s) \in Nat /\ M \in Nat \ {0}
    BY AcquisitionAssumption
  <1>3. Len(s) = (M * (Len(s) \div M)) + (Len(s) % M) /\ M * (Len(s) \div M) \in Nat
    BY <1>2, Division, WholeBlocks
  <1>4. Len(Blocks(s)) = Len(s) /\ \A k \in 1..Len(s) : Blocks(s)[k] = s[k]
    BY <1>1, <1>2, <1>3
  <1> QED
    BY <1>1, <1>4, SeqsEqual

LEMMA BobStringsType ==
  ASSUME StreamsOK
  PROVE  /\ BitsOf("AX", BobPulses) \in Seq(Bit) /\ Len(BitsOf("AX", BobPulses)) = BobPulses
         /\ BitsOf("AH", BobPulses) \in Seq(Bit) /\ Len(BitsOf("AH", BobPulses)) = BobPulses
  <1> DEFINE m == BobPulses
  <1>1. m \in Nat /\ m <= Len(pulse) /\ Len(pulse) \in Nat /\ pulse \in Seq(Pulse)
    BY DEF BobPulses, Least, StreamsOK, Fifo
  <1> HIDE DEF m
  <1>2. ASSUME NEW k \in 1..m PROVE pulse[k].AX \in Bit /\ pulse[k].AH \in Bit
    <2>1. pulse[k] \in Pulse
      BY <1>1
    <2> QED
      BY <2>1 DEF Pulse
  <1>3. /\ BitsOf("AX", m) \in Seq(Bit) /\ Len(BitsOf("AX", m)) = m
        /\ BitsOf("AH", m) \in Seq(Bit) /\ Len(BitsOf("AH", m)) = m
    BY <1>1, <1>2, FieldsOf DEF BitsOf
  <1> QED
    BY <1>3 DEF m

LEMMA Exchanges ==
  ASSUME Inv, Exchange PROVE Inv'
  <1>1. /\ UNCHANGED <<streamVars, hardware, readVars, bob, alice, t, u, x, y>>
        /\ bob = "ready" /\ alice = "ready"
    BY DEF Exchange
  <1>2. StreamsOK' /\ TypeOK' /\ \A p \in Party : ReaderOK(p)'
    BY <1>1, Unmoved DEF Inv, TypeOK
  <1>3. Phases'
    BY <1>1 DEF Phases, Inv, readVars, streamVars
  <1>4. Strings'
    BY <1>1 DEF Inv, Strings, FirstPulses, BobPulses, AlicePulses, BitsOf, streamVars
  <1>5. /\ x \in Seq(Bit) /\ y \in Seq(Bit) /\ Len(x) = Len(y)
        /\ t \in Seq(Bit) /\ u \in Seq(Bit) /\ Len(t) = Len(u)
    <2>1. StreamsOK /\ source = "hwsim"
      BY <1>1 DEF Inv, Phases
    <2>2. t = BitsOf("AX", BobPulses) /\ u = BitsOf("AH", BobPulses)
      BY <1>1, <2>1 DEF Inv, Strings, FirstPulses
    <2> QED
      BY <1>1, <2>1, <2>2, BobStringsType DEF Inv, Strings
  <1>6. PICK z \in Name, b \in Name, total \in TotalSent :
          judged' = {[b |-> b, total |-> total,
                      d_tilde |-> [pid \in Name |-> d_tilde(Blind(y, z), xor_bits(b, z), pid)],
                      verdict |-> verify_token_error(d_tilde(Blind(y, z), xor_bits(b, z), b),
                                                     x, u, t, GammaErr, GammaDet, {total})]}
    BY DEF Exchange
  <1>7. UnblindedOnlyAtB'
    <2>1. y' = y /\ Blocks(y) = SubSeq(y, 1, M * (Len(y) \div M))
      BY <1>1 DEF Blocks
    <2>2. \A pid \in Name : d_tilde(Blind(y, z), xor_bits(b, z), pid) = Blocks(y)
                              <=> pid = b \/ Blocks(y) = <<>>
      BY <1>5, OnlyTheNamed
    <2>3. ASSUME NEW j \in judged', NEW pid \in Name
          PROVE  j.d_tilde[pid] = Blocks(y) <=> pid = j.b \/ Blocks(y) = <<>>
      <3>1. j.b = b /\ j.d_tilde[pid] = d_tilde(Blind(y, z), xor_bits(b, z), pid)
        BY <1>6, <2>3
      <3> QED
        BY <2>2, <3>1
    <2> QED
      BY <2>1, <2>3 DEF UnblindedOnlyAtB
  <1>8. VerdictAsMeasured'
    <2> SUFFICES ASSUME NEW j \in judged', Len(t) = Len(x), Len(x) % M = 0
                 PROVE  LET same == {k \in DOMAIN y : y[k] = u[k]}
                            wrong == {k \in same : x[k] # t[k]}
                        IN  j.verdict =
                              IF j.total = 0 \/ Len(x) * GammaDet[2] < GammaDet[1] * j.total
                              THEN "few"
                              ELSE IF same = {} THEN "no match"
                              ELSE IF Cardinality(wrong) * GammaErr[2]
                                        <= GammaErr[1] * Cardinality(same)
                                   THEN "valid" ELSE "errors"
      BY <1>1 DEF VerdictAsMeasured
    <2>1. d_tilde(Blind(y, z), xor_bits(b, z), b) = y
      BY <1>5, OnlyTheNamed, AllBlocks
    <2>2. j.total = total
          /\ j.verdict = verify_token_error(y, x, u, t, GammaErr, GammaDet, {total})
      BY <1>6, <2>1
    <2>3. Len(x) \in Nat /\ Len(y) = Len(x) /\ Len(u) = Len(x)
      BY <1>5
    <2>4. verify_token_error(y, x, u, t, GammaErr, GammaDet, {total}) =
            Counted(Len(x), total, Same(y, u), Wrong(y, x, u, t))
      BY <1>5, <2>3, VerdictOf
    <2> QED
      BY <2>2, <2>4 DEF Same, Wrong, Counted
  <1> QED
    BY <1>2, <1>3, <1>4, <1>7, <1>8 DEF Inv

LEMMA NextInv ==
  ASSUME Inv, [Next]_vars PROVE Inv'
  <1>1. CASE Next
    BY <1>1, AliceFetches, BobFetches, LoopEnds, Gets, BobSteps, AliceSteps, Exchanges DEF Next
  <1>2. CASE UNCHANGED vars
    <2>1. UNCHANGED mainVars /\ UNCHANGED readVars
      BY <1>2 DEF vars
    <2>2. StreamsOK' /\ TypeOK' /\ \A p \in Party : ReaderOK(p)'
      BY <2>1, Unmoved DEF mainVars, Inv, TypeOK
    <2>3. Phases' /\ Strings' /\ UnblindedOnlyAtB' /\ VerdictAsMeasured'
      BY <2>1, StringsKept DEF readVars
    <2> QED
      BY <2>2, <2>3 DEF Inv
  <1> QED
    BY <1>1, <1>2

\* Bytes are read in batches, queued, counted off and joined in their order, whatever the
\* batch size, the number of bits wanted and the bytes after which a FIFO ends
\* (fifo_reader, get_angles_and_results and main of both sides).
THEOREM AcquisitionCorrect == Spec => []Inv
  <1>1. Init => Inv
    BY InitInv
  <1>2. Inv /\ [Next]_vars => Inv'
    BY NextInv
  <1> QED
    BY <1>1, <1>2, PTL DEF Spec

\* Bit k of Bob's states and bases and of Alice's results and bases is pulse k's, for
\* streams of any length, also after list_to_int and int_to_str (main of alice.py and bob.py).
THEOREM StringsAreFirstPulses == Spec => []FirstPulses
  <1>1. Inv => FirstPulses
    BY DEF Inv, Strings
  <1> QED
    BY <1>1, AcquisitionCorrect, PTL

\* For names of any number of bits, an agent is left with Alice's bases exactly when the
\* point she chose is its own (blinding in alice.py and bob.py, unblinding in bob_agent.py).
THEOREM OnlyAtChosenPoint == Spec => []UnblindedOnlyAtB
  <1>1. Inv => UnblindedOnlyAtB
    BY DEF Inv
  <1> QED
    BY <1>1, AcquisitionCorrect, PTL

\* The verdict computed on integers at the chosen point is the one counted on the strings
\* both sides measured (verify_token_error and its callers).
THEOREM VerdictIsTheMeasured == Spec => []VerdictAsMeasured
  <1>1. Inv => VerdictAsMeasured
    BY DEF Inv
  <1> QED
    BY <1>1, AcquisitionCorrect, PTL
==============================================================================
