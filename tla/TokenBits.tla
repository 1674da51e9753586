------------------------------ MODULE TokenBits ------------------------------
(***************************************************************************)
(* The bit strings of the token exchange and what protocol_utils computes  *)
(* with them.  A string or list of bits is a sequence, most significant    *)
(* bit first.  A Python integer is the set of the positions of its one     *)
(* bits, 0 being the least significant: XOR is then a symmetric            *)
(* difference, & an intersection and bit_count() a cardinality.            *)
(***************************************************************************)
EXTENDS Naturals, Sequences, FiniteSets, FiniteSetsExt

CONSTANTS
  ByteBits,   \* bits of a byte: 8
  SmallList   \* the longest list packed bit by bit: 64

ASSUME PackingAssumption == ByteBits \in Nat \ {0} /\ SmallList \in Nat

Bit == {0, 1}
XorBit(a, b) == IF a = b THEN 0 ELSE 1

-----------------------------------------------------------------------------
(* Strings.                                                                *)

\* zip stops at the end of the shorter string.
xor_bits(a, b) ==
  [k \in 1..(IF Len(a) <= Len(b) THEN Len(a) ELSE Len(b)) |-> XorBit(a[k], b[k])]

\* (p * times)[:n]
Repeat(p, times, n) ==
  [k \in 1..(IF times * Len(p) <= n THEN times * Len(p) ELSE n) |-> p[((k - 1) % Len(p)) + 1]]

\* Alice repeats z past the end of y, and cuts it there.
Blind(y, z) == xor_bits(y, Repeat(z, (Len(y) \div Len(z)) + 1, Len(y)))

\* Bob repeats an agent's name, and the agent repeats c, for whole blocks only.
BlindFor(d, pid) == xor_bits(d, Repeat(pid, Len(d) \div Len(pid), Len(d)))
FirstBlockOnly(d_i, c) == xor_bits(d_i, c)
Unblind(d_i, c) == xor_bits(d_i, Repeat(c, Len(d_i) \div Len(c), Len(d_i)))

-----------------------------------------------------------------------------
(* Integers.                                                               *)

ShiftIn(n, bit) == {p + 1 : p \in n} \cup (IF bit = 1 THEN {0} ELSE {})
BitByBit(bits) ==
  LET result[k \in 0..Len(bits)] == IF k = 0 THEN {} ELSE ShiftIn(result[k - 1], bits[k])
  IN  result[Len(bits)]

\* The bytes of a padded list, then int.from_bytes(..., 'big').
ZeroBits(n) == [k \in 1..n |-> 0]
Padded(bits) == ZeroBits((ByteBits - (Len(bits) % ByteBits)) % ByteBits) \o bits
Packed(bits) ==
  LET bytes == Len(bits) \div ByteBits
      byte(i) == BitByBit(SubSeq(bits, ((i - 1) * ByteBits) + 1, i * ByteBits))
  IN  UNION {{p + ((bytes - i) * ByteBits) : p \in byte(i)} : i \in 1..bytes}

list_to_int(bits) == IF Len(bits) <= SmallList THEN BitByBit(bits) ELSE Packed(Padded(bits))

\* int(bitstring, 2)
str_to_int(bits) == {Len(bits) - k : k \in {j \in DOMAIN bits : bits[j] = 1}}

\* format(n, '0{length}b'): zeros in front up to length, and more bits if n has them.
int_to_str(n, length) ==
  LET width == IF \A p \in n : p < length THEN length
               ELSE 1 + (CHOOSE p \in n : \A q \in n : q <= p)
  IN  [k \in 1..width |-> IF width - k \in n THEN 1 ELSE 0]

-----------------------------------------------------------------------------
(* Verification.                                                           *)

\* The delta_b mask, the errors in it and the number of bits received.
MatchingUpTo(a, b, n) == 0..n \ SymDiff(a, b)
Matching(a, b, n) == 0..(n - 1) \ SymDiff(a, b)

\* The verdict on strings turned into integers; a threshold is a fraction <<p, q>>, and
\* total the set holding the number of pulses sent, empty when it is unknown.  The
\* detection rate comes first, then whether any basis matched, then the error rate.  The
\* strings are aligned at their last bits, whatever their lengths.
verify_token_error(alice_bases, alice_results, bob_bases, bob_states, gamma_err, gamma_det, total) ==
  LET n == IF Len(alice_bases) >= Len(bob_bases) THEN Len(alice_bases) ELSE Len(bob_bases)
      delta_b == Matching(str_to_int(alice_bases), str_to_int(bob_bases), n)
      errors == Cardinality(SymDiff(str_to_int(alice_results), str_to_int(bob_states)) \cap delta_b)
      few(N) == N = 0 \/ n * gamma_det[2] < gamma_det[1] * N
  IN  CASE \E N \in (IF total = {} THEN {n} ELSE total) : few(N) -> "few"
        [] OTHER ->
           IF delta_b = {} THEN "no match"
           ELSE IF errors * gamma_err[2] <= gamma_err[1] * Cardinality(delta_b) THEN "valid"
           ELSE "errors"

-----------------------------------------------------------------------------
(* Angles.  A byte carries two pulses, the earlier in its low half, each a  *)
(* number that codes the bit <<X, H>>: a value and a basis.                 *)

Half == 16
Byte(first, second) == first + (Half * second)

Nibbles(bytes) ==
  [k \in 1..(2 * Len(bytes)) |->
     IF k % 2 = 1 THEN bytes[(k + 1) \div 2] % Half ELSE bytes[k \div 2] \div Half]

mapping(party) ==
  IF party = "A" THEN [v \in 0..3 |-> <<<<0, 1>>, <<1, 0>>, <<0, 0>>, <<1, 1>>>>[v + 1]]
                 ELSE [v \in 0..3 |-> <<<<0, 0>>, <<1, 1>>, <<0, 1>>, <<1, 0>>>>[v + 1]]

\* A ValueError when some half of a byte codes nothing.
Parses(bytes) == \A k \in 1..(2 * Len(bytes)) : Nibbles(bytes)[k] \in 0..3
parse_angle(bytes, party) ==
  [X |-> [k \in 1..(2 * Len(bytes)) |-> mapping(party)[Nibbles(bytes)[k]][1]],
   H |-> [k \in 1..(2 * Len(bytes)) |-> mapping(party)[Nibbles(bytes)[k]][2]]]
=============================================================================
