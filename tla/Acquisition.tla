----------------------------- MODULE Acquisition -----------------------------
(***************************************************************************)
(* How Bob and Alice of the token exchange come by their strings, and what *)
(* the exchange then computes with them.  Bob starts the hardware and      *)
(* reads his angles; Alice reads her angles and her detection results.     *)
(* Each has a thread that reads FIFOs in batches into a queue, and a loop  *)
(* that empties the queue.  A FIFO may end after any number of bytes.      *)
(***************************************************************************)
EXTENDS TokenBits, Naturals

CONSTANTS
  M,          \* bits of an agent's name
  BatchSize,  \* angle bytes of a batch: HW_SIM_BATCH_SIZE
  BitSizes,   \* values of --bit_size
  Pulses,     \* what the hardware may produce: sequences of records AX, AH, BX, BH, R
  TotalSent,  \* what the duration of Bob's reading may come to: total_sent_count
  GammaErr,   \* the thresholds, fractions
  GammaDet

Fifo == {"angleA", "angleB", "result"}
Party == {"A", "B"}

ASSUME AcquisitionAssumption ==
  /\ M \in Nat \ {0} /\ BatchSize \in Nat \ {0} /\ BitSizes \subseteq Nat \ {0}
  /\ TotalSent \subseteq Nat
  /\ \A p \in Pulses : p \in Seq([AX : Bit, AH : Bit, BX : Bit, BH : Bit, R : Bit])

VARIABLES
  source,    \* both were given --sim, or both --run_id
  bit_size,
  pulse,     \* the pulses behind the FIFOs
  length,    \* length[f]: bytes after which FIFO f ends
  garbled,   \* FIFOs whose first byte codes no angle
  present,   \* FIFOs that exist
  hardware,  \* started or not
  pos,       \* pos[f]: bytes read from FIFO f
  bob, alice,
  thread,    \* thread[p]: the reader thread of p
  local_queue,
  taken,     \* taken[p]: the turns of p's loop that are over
  angles, results,
  t, u,      \* Bob's states and bases
  x, y,      \* Alice's results and bases
  judged     \* what the exchange came to

streamVars == <<source, bit_size, pulse, length, garbled, present>>
readVars == <<pos, thread, local_queue, taken, angles, results>>
mainVars == <<streamVars, hardware, bob, alice, t, u, x, y, judged>>
vars == <<readVars, mainVars>>

\* Ceiling division of the data wanted, with a margin of a fifth.
num_batches == (((bit_size * 6) \div 5) + (2 * BatchSize) - 1) \div (2 * BatchSize)

\* The streams the hardware makes of the pulses.
Code(party, X, H) == CHOOSE v \in 0..3 : mapping(party)[v] = <<X, H>>
AngleByte(party, j) ==
  LET a(k) == IF party = "A" THEN Code("A", pulse[k].AX, pulse[k].AH)
                             ELSE Code("B", pulse[k].BX, pulse[k].BH)
      f == IF party = "A" THEN "angleA" ELSE "angleB"
  IN  Byte(a((2 * j) - 1), IF j = 1 /\ f \in garbled THEN 4 ELSE a(2 * j))
Stream(f) ==
  [j \in 1..length[f] |->
     CASE f = "angleA" -> AngleByte("A", j)
       [] f = "angleB" -> AngleByte("B", j)
       [] OTHER -> pulse[j].R]

\* What read(n) returns: it blocks until it has n bytes or the FIFO ended.
Read(f, n) ==
  SubSeq(Stream(f), pos[f] + 1, IF pos[f] + n <= length[f] THEN pos[f] + n ELSE length[f])

\* The FIFOs at their full length, or one thing wrong with them.
Whole(p) == [f \in Fifo |-> IF f = "result" THEN Len(p) ELSE Len(p) \div 2]
Init ==
  /\ source \in {"hwsim", "database"}
  /\ bit_size \in BitSizes
  /\ pulse \in Pulses
  /\ \/ /\ length \in [Fifo -> 0..Len(pulse)]
        /\ \A f \in Fifo : length[f] <= Whole(pulse)[f]
        /\ garbled = {} /\ present = Fifo
     \/ length = Whole(pulse) /\ garbled \in {{"angleA"}, {"angleB"}} /\ present = Fifo
     \/ length = Whole(pulse) /\ garbled = {} /\ \E f \in Fifo : present = Fifo \ {f}
  /\ hardware = "idle"
  /\ pos = [f \in Fifo |-> 0]
  /\ bob = "init" /\ alice = "init"
  /\ thread = [p \in Party |-> "none"]
  /\ local_queue = [p \in Party |-> <<>>]
  /\ taken = [p \in Party |-> 0]
  /\ angles = [p \in Party |-> <<>>]
  /\ results = <<>>
  /\ t = <<>> /\ u = <<>> /\ x = <<>> /\ y = <<>>
  /\ judged = {}

-----------------------------------------------------------------------------
(* The reader of either party.                                             *)

Batch(a, r) == [a |-> a, r |-> r]
Sentinel == Batch(<<>>, <<>>)

StartReader(p) ==
  /\ thread' = [thread EXCEPT ![p] = "reading"]
  /\ UNCHANGED <<pos, local_queue, taken, angles, results>>

\* The thread is inside its loop; opening a FIFO blocks until the hardware runs.
Reading(p) == thread[p] = "reading" /\ hardware = "running"
i(p) == taken[p] + Len(local_queue[p])

EndSilently(p) ==
  /\ thread' = [thread EXCEPT ![p] = "ended"]
  /\ UNCHANGED local_queue
End(p) ==
  /\ thread' = [thread EXCEPT ![p] = "ended"]
  /\ local_queue' = [local_queue EXCEPT ![p] = Append(@, Sentinel)]

LoopDone(p) ==
  /\ Reading(p) /\ i(p) = num_batches
  /\ End(p)
  /\ UNCHANGED <<pos, taken, angles, results, mainVars>>

Put(p, batch) ==
  /\ local_queue' = [local_queue EXCEPT ![p] = Append(@, batch)]
  /\ UNCHANGED thread

fifo_reader_alice ==
  /\ Reading("A") /\ i("A") < num_batches
  /\ LET data == Read("angleA", BatchSize) IN
       /\ pos' = [pos EXCEPT !["angleA"] = @ + Len(data)]
       /\ IF data = <<>> THEN End("A") ELSE Put("A", Batch(data, <<>>))
  /\ UNCHANGED <<taken, angles, results, mainVars>>

\* Two results to an angle byte; what one FIFO gave is lost when the other has ended.
ReadPairs(wanted) ==
  /\ Reading("B") /\ i("B") < num_batches
  /\ LET result_data == Read("result", wanted)
         angle_data == Read("angleB", BatchSize)
     IN  /\ pos' = [pos EXCEPT !["result"] = @ + Len(result_data),
                               !["angleB"] = @ + Len(angle_data)]
         /\ IF result_data = <<>> \/ angle_data = <<>> THEN End("B")
            ELSE Put("B", Batch(angle_data, result_data))
  /\ UNCHANGED <<taken, angles, results, mainVars>>
OneResultPerByte == ReadPairs(BatchSize)
fifo_reader_bob == ReadPairs(2 * BatchSize)

\* One get; the reader returns after num_batches of them or at the sentinel.
Collected(p) == thread[p] # "none" /\ taken[p] = num_batches
Get(p) ==
  /\ thread[p] # "none" /\ taken[p] < num_batches
  /\ local_queue[p] # <<>>
  /\ LET batch == Head(local_queue[p]) IN
       /\ taken' = [taken EXCEPT ![p] = IF batch = Sentinel THEN num_batches ELSE @ + 1]
       /\ angles' = [angles EXCEPT ![p] = @ \o batch.a]
       /\ results' = IF p = "B" THEN results \o batch.r ELSE results
       /\ local_queue' = [local_queue EXCEPT ![p] = Tail(@)]
  /\ UNCHANGED <<pos, thread, mainVars>>

-----------------------------------------------------------------------------
(* The main functions.                                                     *)

Restored(bits) == int_to_str(list_to_int(bits), Len(bits))
First(bits) == SubSeq(bits, 1, IF Len(bits) <= bit_size THEN Len(bits) ELSE bit_size)
Row(f) == [k \in 1..bit_size |-> f[k]]

\* With --run_id, t and u are those of a row, which may be missing.
BobLoads ==
  /\ bob = "init" /\ source = "database"
  /\ \/ /\ bob' = "ready"
        /\ t' = Row([k \in DOMAIN pulse |-> pulse[k].AX])
        /\ u' = Row([k \in DOMAIN pulse |-> pulse[k].AH])
     \/ bob' = "stopped" /\ UNCHANGED <<t, u>>
  /\ UNCHANGED <<streamVars, hardware, readVars, alice, x, y, judged>>

\* The start command is answered; without a simulator it is refused, and an
\* EOFError may come in place of the answer.
BobStarts ==
  /\ bob = "init" /\ source = "hwsim"
  /\ \/ hardware' = "running" /\ bob' = "read"
     \/ hardware' \in {"idle", "running"} /\ bob' = "stopped"
  /\ UNCHANGED <<streamVars, readVars, alice, t, u, x, y, judged>>

BobReads ==
  /\ bob = "read"
  /\ IF "angleA" \in present
     THEN bob' = "parse" /\ StartReader("A")
     ELSE bob' = "stopped" /\ UNCHANGED readVars
  /\ UNCHANGED <<streamVars, hardware, alice, t, u, x, y, judged>>

BobParses ==
  /\ bob = "parse" /\ Collected("A")
  /\ IF angles["A"] = <<>> \/ ~Parses(angles["A"])
     THEN bob' = "stopped" /\ UNCHANGED <<t, u>>
     ELSE \E A \in {parse_angle(angles["A"], "A")} :
            /\ t' = Restored(First(A.X))
            /\ u' = Restored(First(A.H))
            /\ bob' = "ready"
  /\ UNCHANGED <<streamVars, hardware, readVars, alice, x, y, judged>>

\* With --run_id, Alice crashes on a lambda_set nothing has assigned.
AliceLoads ==
  /\ alice = "init" /\ source = "database"
  /\ alice' \in {"stopped", "crashed"}
  /\ UNCHANGED <<streamVars, hardware, readVars, bob, t, u, x, y, judged>>

\* Without FIFOs the reader returns None, and logging its first angles raises.
AliceReads ==
  /\ alice = "init" /\ source = "hwsim"
  /\ IF {"angleB", "result"} \subseteq present
     THEN alice' = "parse" /\ StartReader("B")
     ELSE alice' = "crashed" /\ UNCHANGED readVars
  /\ UNCHANGED <<streamVars, hardware, bob, t, u, x, y, judged>>

\* y is written with as many digits as x has; the agents' port may be taken.
AliceParses ==
  /\ alice = "parse" /\ Collected("B")
  /\ IF angles["B"] = <<>> \/ results = <<>> \/ ~Parses(angles["B"])
     THEN alice' = "stopped" /\ UNCHANGED <<x, y>>
     ELSE \E B \in {parse_angle(angles["B"], "B")} :
          \E x_parsed \in {Restored(xor_bits(First(B.X), First(results)))} :
          \E y_parsed \in {int_to_str(list_to_int(First(B.H)), Len(x_parsed))} :
              /\ x' = x_parsed /\ y' = y_parsed
              /\ alice' \in IF Len(x_parsed) = Len(y_parsed) THEN {"ready", "stopped"} ELSE {"stopped"}
  /\ UNCHANGED <<streamVars, hardware, readVars, bob, t, u, judged>>

-----------------------------------------------------------------------------
(* The exchange: Alice draws a mask z and a point b, each agent unblinds    *)
(* its bases, and the one at b judges the token.  Bob counts the pulses    *)
(* sent from a duration, so their number may be anything.                  *)

Name == [1..M -> Bit]
d_tilde(d, c, pid) == Unblind(BlindFor(d, pid), c)

Exchange ==
  /\ bob = "ready" /\ alice = "ready" /\ judged = {}
  /\ \E z, b \in Name, total \in TotalSent :
     \E d \in {Blind(y, z)}, c \in {xor_bits(b, z)} :
           judged' = {[b |-> b, total |-> total,
                     d_tilde |-> [pid \in Name |-> d_tilde(d, c, pid)],
                     verdict |-> verify_token_error(d_tilde(d, c, b), x, u, t,
                                                    GammaErr, GammaDet, {total})]}
  /\ UNCHANGED <<streamVars, hardware, readVars, bob, alice, t, u, x, y>>

Next ==
  \/ fifo_reader_alice \/ fifo_reader_bob
  \/ \E p \in Party : LoopDone(p) \/ Get(p)
  \/ BobLoads \/ BobStarts \/ BobReads \/ BobParses
  \/ AliceLoads \/ AliceReads \/ AliceParses
  \/ Exchange

Spec == Init /\ [][Next]_vars
\* A thread turns as long as the hardware runs, and a loop takes what is queued.
Fairness ==
  /\ WF_vars(fifo_reader_alice) /\ WF_vars(fifo_reader_bob)
  /\ \A p \in Party : WF_vars(LoopDone(p)) /\ WF_vars(Get(p))
  /\ WF_vars(BobReads) /\ WF_vars(BobParses) /\ WF_vars(AliceReads) /\ WF_vars(AliceParses)
FairSpec == Spec /\ Fairness

-----------------------------------------------------------------------------
(* Properties.                                                             *)

Least(a, b) == IF a <= b THEN a ELSE b
BobPulses == Least(2 * length["angleA"], bit_size)
AlicePulses == Least(2 * length["angleB"], bit_size)
BitsOf(field, n) == [k \in 1..n |-> pulse[k][field]]

\* Bit k of t, u, x and y is that of pulse k, from the first pulse to the last one asked
\* for or delivered, whatever the batches, the end of a FIFO and the conversions did;
\* for Alice as long as a result came for each of her pulses (readers, main of both).
FirstPulses ==
  /\ bob = "ready" /\ source = "hwsim" =>
       t = BitsOf("AX", BobPulses) /\ u = BitsOf("AH", BobPulses)
  /\ alice = "ready" /\ length["result"] >= AlicePulses =>
       /\ y = BitsOf("BH", AlicePulses)
       /\ x = xor_bits(BitsOf("BX", AlicePulses), BitsOf("R", AlicePulses))

\* The verdict at b, reached through masks, names and integers, is the one the
\* measured strings themselves give, when they have one length and M divides it
\* (verify_token_error on what Alice, Bob and the agent made of them).
VerdictAsMeasured ==
  \A j \in judged :
    Len(t) = Len(x) /\ Len(x) % M = 0 =>
      LET same == {k \in DOMAIN y : y[k] = u[k]}
          wrong == {k \in same : x[k] # t[k]}
      IN  j.verdict =
            IF j.total = 0 \/ Len(x) * GammaDet[2] < GammaDet[1] * j.total THEN "few"
            ELSE IF same = {} THEN "no match"
            ELSE IF Cardinality(wrong) * GammaErr[2] <= GammaErr[1] * Cardinality(same)
                 THEN "valid" ELSE "errors"

\* The agent at b recovers Alice's bases in whole blocks of M bits, and no other agent
\* does: the bits beyond the last block are dropped at the end, never in between
\* (alice.py, bob.py and bob_agent.py each repeat their name over the string in their
\* own way).
UnblindedOnlyAtB ==
  LET blocks == SubSeq(y, 1, M * (Len(y) \div M)) IN
  \A j \in judged : \A pid \in Name :
    (j.d_tilde[pid] = blocks) <=> (pid = j.b \/ blocks = <<>>)

\* Once the hardware runs, neither main waits in its reader for ever, however short
\* the FIFOs are.
ReadersReturn ==
  /\ hardware = "running" /\ bob = "read" ~> bob \in {"ready", "stopped"}
  /\ hardware = "running" /\ alice = "parse" ~> alice \in {"ready", "stopped"}
=============================================================================
