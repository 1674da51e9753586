# Verification of the Qline applications

The repository holds three Python `asyncio` programs that run on the Qline quantum hardware.
Each is a distributed protocol among a few processes joined by TCP connections:

* `Qtoken_Qline` - quantum tokens (QT1): a token is bought from Bob and presented at exactly
  one of his agents;
* `Q_digital_signatures` - quantum digital signatures (QDS), in a block-based and a
  sequence-based version, both on top of a BB84 key distribution;
* `Q_oblivious_transfer` - 1-out-of-2 oblivious transfer (OT).

This directory holds TLA+ models of their control: what each process sends, waits for and
stores, in which order, and how it leaves. The modules are written from the code under
`src/`; line numbers are in the `map` of `PROJECT.json`.

Photons, angles, hashes, LDPC decoding and the finite-key formulas are real-valued or far
too large to enumerate. They appear as what the control can tell apart: which session a bit
string stems from, how many bits match, whether a block has errors, whether a decoder
succeeded.

## 1. Inventory

### 1.1 Qtoken_Qline

| Part | State | Operations |
| --- | --- | --- |
| Bob (`bob/bob.py`) | registered agents, the queue of Alice connections, mode (`--persistent`), `shutdown_event`, result, session count | register a BobAgent, serve one Alice (stage I: d, stage II: c, result), shutdown, signals |
| BobAgent (`agents/bob_agent.py`) | `data` (d_i, t, u, d_tilde, token), `writer_client`, `shutdown_event`, two kinds of task: `listen_main`, and one `listen_client` per connection | store bases, unblind with c, accept a token, verify and answer, shutdown |
| Alice (`alice/alice.py`) | agent connections, z, b, d, c | wait for agents, hand out the token, send d, receive the acknowledgement, select b, send c, ask one agent to present, wait 30 s, report, shutdown |
| AliceAgent (`agents/alice_agent.py`) | connection to Alice, connection to its BobAgent, token | connect, store the token, present it, relay the reply, close |
| Framing (`utils/participant.py`) | the position in a byte stream | send and receive a length-prefixed JSON frame |
| Photon readers (`alice.py`, `bob.py`, `utils/`) | the FIFOs' positions, a queue each, a reader thread each | start the hardware, read batches, parse angles, cut to `bit_size` |
| Data and bounds (`utils/protocol_utils.py`) | none | presentation points, XOR, conversions, verification, security bounds |

Interaction: Bob to BobAgent (d_i, c, SHUTDOWN), Alice to Bob (d, c, result) and back (OK),
Alice to AliceAgent (token, request, SHUTDOWN), AliceAgent to BobAgent (token) and back
(verdict). Every pair is one TCP stream; there is no order between streams.

Hard: the token and c race to a BobAgent on two different streams; a BobAgent outlives
sessions in persistent mode and its tasks share `data` and `writer_client`; Alice may die,
be interrupted or time out at any point; the shutdown cascade must reach everybody, and
`wait_closed()` holds a process until its connections are closed; a BobAgent's read is
cancelled every second, possibly between a header and its body; a FIFO ends after any number
of bytes while another goes on.

Correct when: a token is presented at one point at most and judged there once; only the
selected agent ever holds the unblinded bases; a verdict combines token and bases of one
session; the result Bob reads is that verdict; every exchange ends; a shutdown leaves nobody
behind but those named in section 3; frames come out once and in order; bit k of every
string stems from pulse k.

### 1.2 Q_digital_signatures

| Part | State | Operations |
| --- | --- | --- |
| Alice (block) | keys, eMax | check eMax, QKD with Charlie, QKD with Bob, sign, send END |
| Bob (block) | key, Charlie's half, `Charlie_indices`, `all_connections_done` | serve QKD, transfer halves, verify 3n/2 blocks, forward, serve END |
| Charlie (block) | key, Bob's half, `Bob_indices`, `all_connections_done` | serve QKD, serve the transfer, verify against eMax, serve END |
| QKD (`helpers/qkd.py`) | bases, the sifted strings, syndromes | sift, estimate the error, correct, amplify - on either side |
| Codes, hashes, formulas (`helpers/utils.py`) | none | code selection, LDPC, Toeplitz hash, entropy |
| Alice (sequence) | the two keys | QKD with Charlie, QKD with Bob, sign under the XOR of the keys |
| Bob (sequence) | key, `bH`, Charlie's key, `all_connections_done` | serve QKD, forward signature and key, verify, report the result |
| Charlie (sequence) | key, `bH`, Bob's key, `result`, `all_connections_done` | serve QKD, return his key, verify, answer the report |

Interaction: Alice connects to each server once per request (QKD, SIGNATURES, END); Bob
connects to Charlie (KEY_TRANSFER, SIGNATURES; in the sequence-based version FORWARDING,
RESULT). A server runs one task per connection, all sharing its attributes. In a QKD
connection the two sides run in lock step.

Hard: Bob's signature task may run before his key transfer; a request may find a server that
is leaving; each side of the QKD takes its abort decisions by itself; matrix files may be
missing on one of two disks; an exception ends one task and nothing else.

Correct when: an accepted signature was checked against both halves; Charlie overrules Bob
only for more than eMax errors Bob could not see; in the sequence-based version the two
verdicts are equal; all abort paths agree; both servers leave; two returned keys have the
same length and agree except where the decoder failed, or Bob's is empty because the two
disks gave different codes.

### 1.3 Q_oblivious_transfer

| Part | State | Operations |
| --- | --- | --- |
| Server handler (`handler.py`, Bob) | bits and bases, choice, index lists, decoded string | read, commit, open, wait for qber and bases, reconcile, correct, decrypt |
| Client handler (`handler.py`, Alice) | bits and bases, the two strings | read, check openings, estimate, send bases, syndromes, encrypt |
| Commitment (`extractable_equivocal_commitment/eec.py`) | randomness, commitments | commit, open, verify |
| Rounds (`server_run.py`, `client_run.py`) | rounds served, rounds tried | accept, connect, count, leave |
| Codes, pads (`utils.py`) | none | code selection, LDPC, pad length, hash |

Hard: both sides cut the matched and unmatched strings into blocks by themselves, and
compute the pad's length from leaks they count separately; every abort is silent on the
wire; a round that fails on one side still counts on the other.

Correct when: both sides give up together; a transfer the client completes is decrypted by
the server; the chosen message arrives whenever the decoder is exact; both leave.

## 2. Plan

Order: the most shared state first, then the protocol whose servers have concurrent tasks,
then the two-party exchanges.

1. `TokenPresentation`, `QToken`, `MCQToken` - done.
2. `QTokenProofs`: types, the inductive invariant and safety, the way of a verdict to Bob,
   the refinement for one session - done.
3. `QDSBlock`, `MCQDSBlock`, `QDSBlockProofs` - done.
4. `KeyAgreement`, `QKD`, `MCQKD`, `QKDProofs` (with the refinement) - done.
5. `OTExchange`, `MCOTExchange`, `OTExchangeProofs` - done.
6. `OTRounds`, `OTRoundsProofs`: the accept loop and the client's rounds around an exchange
   reduced to its outcomes, those `OTExchange` reaches - done.
7. `QDSSequence`, `QDSSequenceProofs`: the sequence-based signature, whose order of exchange
   differs (README of the QDS, steps 1-8), with its own abort paths - done.
8. `FrameLink`, `Framing`, `MCFraming`, `FramingProofs` (with the refinement): bytes of a
   frame, `wait_for` with one second, a cancelled `readexactly`, two tasks on one stream -
   done.
9. `TokenBits`, `Acquisition`, `MCAcquisition`, `AcquisitionProofs`: the readers, and the
   data level of masking and verification - done.

Left: nothing of the safety properties the passing runs check; what is only model-checked,
and why, is at the end of section 5. `PresentedOnce` and `VerdictUsesOwnBases` are stated,
checked and proved for one session, because two sessions violate them (section 3,
Disagreements).

## 3. Modules and the code

### QToken

One Bob and 2^M BobAgents live throughout; N sessions follow each other, each with an Alice
and 2^M AliceAgents of its own (a new Alice binds the same ports, so she starts when the
previous one is gone). `M`, `N`, `Persistent` and `Failures` are parameters.

* Streams are sequences, `toAgent`, `toAlice`, `present`, `answer`, `toMain`, `toBob`,
  `toAck`; an end of stream is an element. A frame is delivered whole.
* A token is the session it was measured in. A basis string is a pair of the session and the
  M-bit pattern XORed onto each M-bit block: `Blinded`, `Unblinded` and `Xor` are the bit
  operations of the code on that pattern, and the string is exact when it is `Zero`.
* `BobTakesUp`, `BobTurnsAway`, `BobStageI`, `BobNoD`, `BobStageII`, `BobResult`, `BobReset`
  are the awaits of `process_alice`, with the `finally` clause in `EndSession`; `MainBases`,
  `MainC`, `MainCNone`, `MainShutdown` are the branches of `listen_main`; `HandleClient`,
  `ClientToken`, `ClientEof`, `Verify`, `ClientReturns` those of a connection's
  `listen_client`, which read and write the shared `token`, `d_tilde` and `writer_client`;
  `Alice...` and `Agent...` are the awaits of `execute_protocol` and of the AliceAgent's
  `run`.
* A shutdown takes time. `shutdown_event` is Bob's: from then on he turns new Alices away
  and what he sends to an agent is lost (`SendMain`), but the session he serves goes on to
  its end, and `BobExit`, the return of `alice_serv.wait_closed()`, waits for every
  connection of an Alice. A BobAgent that hears SHUTDOWN goes to `closing` (`MainShutdown`):
  connections it has not accepted are reset, a task that polls for d_tilde returns and
  leaves its connection open (`ClientReturns`, `bob_agent.py:228`), and `BobAgentExit`, the
  return of `srv.wait_closed()`, waits until this end of every accepted connection is closed
  (`ClientsClosed`). Connections are accepted in the order they were made. A writer nobody
  holds any more could be closed by the garbage collector; when that happens is not defined,
  and it is not modelled.
* `verdicts` is a history variable: the inputs of every verification (`VerdictOf`): the
  token, the unblinded bases, and which session Bob's states `t` and bases `u` come from.
  `verify_token_error` is deterministic in those inputs, so they stand for its answer.
* `Failures` adds the 30 s timer, kills of Alice and SIGINT to Bob, at every point.

`TokenPresentation` is the abstract specification: select a point, judge there once, record
that judgement. `PresentedOnce` states the refinement.

### QDSBlock

Alice runs once against two servers. A connection carries a request and at most one
response, so it is one status; each task of Bob has a variable of its own (`qkdBob`,
`sigBob`), because the order of tasks is the point. `bad[p]` is the set of blocks in which
p's key differs from Alice's: hash collisions are left out, so a block is rejected exactly
by its holder when it is bad. `Halves` are the random halves the verifiers exchange. The
exchange of keys is one action (`Exchange`, `ExchangeFails`) whose outcomes are those of
`KeyAgreement`: Alice may have a key when the server does not, and never the converse when
she returns with none. A server's key may be the empty one (`empty`, see QKD below); halves
of it raise at the first index, so `CanSift` needs keys with blocks. `QKD` is checked
against the same specification, so the abstraction is the specification they share.

Two of Alice's four abort paths notify nobody (`Alice.py:191`, `:214`, when `run_QKD` yields
no key): `ExchangeFails` leads to `aborted`, and both servers stay up. `EndEndsAll` is
therefore stated for the two paths that send END.

### QDSSequence

The same servers without the transfer of halves: Bob forwards the signature together with
his whole key, Charlie returns his, and each verifies under the XOR. `key[p]` is the set of
positions in which p's key differs from Alice's, so the XOR is a symmetric difference
(`CombinedErrors`) and a signature verifies when that is empty. `Bob_key` and `Charlie_key`
are the copies that travel: `HandleSignatures` takes Bob's before the round trip,
`BobVerification` uses `self.key` after it, and `PeerKey` may come in between - Alice's side
of an exchange may end first, and nothing orders the connections. A missing key raises where
the code indexes it and ends that task alone; so does one that is empty (`Empty`), at
`BobVerification` and `CharlieVerification`. `KeyTooShort` is the abort path that reads
`self.confidence` and would call `send_END`, neither of which exists. `CharlieVerification`
precedes `CharlieResult`: the RESULT arrives on a connection that Bob opens after he has
read the answer, and Charlie's verification is by then next in his event loop.

### QKD

Both sides of `run_protocol`, one action per await, over one connection. Data is reduced to
how many indices matched (`sifted`), the errors seen in the verified half and the positions
of the other half where the sides differ (`noisy`). `EccBlock` is the code selection of
`read_matrix`; `Decode` lets the decoder turn a block with errors into anything. When a
matrix file is missing on one disk only, the codes differ, no syndrome fits (`SyndromesFit`)
and Bob drops every block; the error rate of no bits is inf in numpy, the entropy of that 1,
the length of the key 0, and the failing xor is caught (`helpers/utils.py:697-721`,
`qkd.py:222-233`): Bob returns an empty key (`EmptyKey`) beside Alice's full one.
`KeysMatch` says so. Readers may return nothing, or less than asked; either process may be
killed at any point.

A measured error rate of exactly zero makes both sides return the remaining half as it is
(`qkd.py:162` and `:343`), neither corrected nor amplified, while
`Q_digital_signatures/README.md:334-335` describes both steps for every key. The model has
this path (`Clean`, `RawKey`), and `KeysMatch` covers it.

### OTExchange

Both handlers, one action per await; the commitment is its two round trips. `matched` is the
number of positions with equal bases, so the two strings have `matched` and `Remaining -
matched` bits; `Blocks`, `CommonBlocks` and `Syndromes` are the block arithmetic of the
client (at most one block beyond the common ones gets a syndrome), `Decoded` that of the
server, `Extracted` the pad's length as a function of the leak. `exact` says whether the
decoder left no error. `Compared` is the comparison that, when the lengths differ, leaves
`left_errors` unbound and makes the handler raise at its end. `Extracted` uses one size of
syndrome for all codes: it only matters whether two leaks are equal, below the cap, or
consume everything. A reader may return part of the data. Alice stops when her own is short
or when an opened position is missing (`LengthsDiffer`), with an exception when both lack
what makes the lengths fit; when Bob lacks only positions that were not opened, all checks
pass (`handler.py:386`) and Bob runs past the end of his bases when theta1 comes
(`Reconcile`).

### OTRounds

`run_server` with its accept loop, its counter and its handlers, and `run_client` with its
rounds. A handler is one variable: `CountConnection` or `RejectConnection` (under the lock),
the blocking reader (`HandlerReads`), the exchange, the close, and the second of
`asyncio.sleep` after which the counter is read again (`DelayOver`). The second holds back
nothing but its own handler (`server_run.py:63`): the next connection is accepted, and
counted, meanwhile. The client starts the hardware, connects, reads and stops it, and goes
through the exchange; each of these may fail in the ways the code distinguishes
(`StartRefused`, `StartUnanswered`, `ConnectRefused`, `StopFails`, `ClientLeaves`).
`nonstop` is `num_rounds = 0` on both sides.

### Framing

One connection between Bob and a BobAgent, in two directions (`main`, `feedback`), byte by
byte: `arrived` is what the network delivered, `pos` what the reader took out. `ReadHeader`
and `ReadBody` are the two `readexactly` of `receive_async`; `Timeout` is the agent's
`wait_for`, which cancels a read whose header is already gone from the stream, so the next
one takes bytes of a body for a header (`Lengths`). On `feedback` both `monitor_agent` and
the `listen_main` of the stand-in BobAgent read: whichever runs second raises
(`StandInFirst`, `_register_agent`). `FrameLink` is the abstract specification of a
direction: numbered frames come out in order, each at most once, without a gap unless the
reader gives reads up.

### TokenBits and Acquisition

`TokenBits` are the pure operators: masking with a name repeated over the string in the
three ways Alice, Bob and the agent do it (`Blind`, `BlindFor`, `Unblind`), the conversions
between lists, strings and integers, the parsing of angles and `verify_token_error`. A
Python integer is the set of its one bits, so that `^`, `&` and `bit_count` are set
operations.

`Acquisition` has both reader threads, their queues and the loops that empty them, the
hardware that starts or does not, and FIFOs that end anywhere, are missing or hold a byte
that codes no angle. `BobStarts` to `AliceParses` are the steps of the two `main`.
`Exchange` then runs mask, unblinding and verification on the strings that came out.
`QToken` and `Acquisition` meet there: `Zero` patterns in `QToken` are the strings
`UnblindedOnlyAtB` speaks of.

### Disagreements with the text of the repository that no run states

* `BobAgent.writer_client` is shared by all connections, and the `finally` clause of a
  finished session's task closes whatever it holds by then (`bob_agent.py:331`; the comment
  at `:203` names the races this is to avoid). A verdict that comes late may so reach the
  next session as its own. TLC violates `PresentedOnce` and the statement that a result is
  of the session's own token with two sessions and Alice's timer, and with three sessions
  and no failure at all: the task of session 1's connection to an agent she did not select
  ends late, and closes the connection on which session 2 waits at that agent; session 2
  ends without a result, and its verdict, which had waited for c, goes to session 3 (found
  in an instance of three sessions with masks, selections and the order of some starts
  fixed). No run states these properties for more than one session, and the theorems are for
  N = 1. `RecordedSafety` says what is left for any number of sessions: the result is a
  verdict of the agent this session selected, on her token or that of an earlier session.
* `scripts/test_protocol_w_hw.sh:283-286` says "When Bob stops -> all BobAgents shutdown
  automatically" and "When Alice stops -> all AliceAgents shutdown automatically". Neither
  is so, and TLC refutes both once the exceptions are taken out of `BobAgentsStop` and
  `AliceAgentsStop`. First, a BobAgent that is told to stop while a token waits for c drops
  the token without closing its connection (`bob_agent.py:228`). The AliceAgent waits for
  the verdict without a timeout (`alice_agent.py:134`) and the BobAgent for the AliceAgent
  (`bob_agent.py:355`), for ever (`Abandoned`). It takes Bob's SIGINT, or Alice's timer or
  kill, before the poll has seen d_tilde. Second, an Alice killed between d and c makes Bob
  send `None` for c, on which `listen_main` ends (`bob_agent.py:141`): that agent never
  hears SHUTDOWN (`dead`, `LeftEarly`). Third, a Bob that stops while Alice gathers her
  agents leaves those that have connected waiting for her, and her for the others, whose
  BobAgents accept no more (`Stranded`). Fourth, a second Alice in the queue of a one-shot
  Bob that shuts down is never answered: `AliceEnds` and the two properties are checked for
  one session.
* When M does not divide the length, d_i loses its last bits, and the verification compares
  bases aligned at their last bit. `scripts/test_protocol_w_hw.sh:86` gives `$0 3 20 0.05`
  as an example: M=3 and 20 bits. `UnblindedOnlyAtB` covers such lengths, and
  `VerdictAsMeasured` is stated for lengths M divides.
* A result FIFO that ends before the angles shifts y against x, although both pass the
  comparison of lengths (`alice.py:400`). `FirstPulses` speaks of Alice only when a result
  came for each of her pulses.
* The duration Bob measures starts before the FIFO opens (`bob.py:482`) and inflates
  `total_sent_count`. The model takes any number.
* `lambda_set` is unbound in Alice's `--run_id` and `--basis` branches, so the offline mode
  her help text offers (`alice.py:314`) crashes at line 447 (`AliceLoads`).
* In `client_run.py` the non-stop branch builds the handler without its `secret_choice`
  (line 71) and bare `except` clauses log an unbound `e` (lines 60, 95). A result is
  appended also after a round that returned early (line 117).
* The OT server stays up when every handler that found the counter full raises
  (`server_run.py:66` is then never reached). `RoundsEnd` is stated for a handler that
  returns.
* Status texts contain " = ", and Bob's monitor splits them (`bob.py:80`): text only, not
  modelled.

## 4. Runs

| Run | Instance | Shows |
| --- | --- | --- |
| `qtoken_oneshot` | M=1, N=1, timeout, kill, SIGINT | token and bases meet only at the selected agent; refinement of `TokenPresentation`; every exchange ends; Bob and all agents stop but for those a shutdown leaves waiting for each other |
| `qtoken_persistent` | M=1, N=2, persistent, no failures | the inductive invariant of the proofs; exact verdicts |
| `qtoken_stale_bases` | M=1, N=2, persistent | violation: a verdict with the previous session's d_tilde |
| `acquisition` | 4 pulses, M=2, sizes 3 and 4, FIFOs of any length | bits keep their pulse; only the selected agent unblinds; verdicts are those of the measured strings; the readers return |
| `framing` | header of 2 bytes, bodies of 2 and 3 | implements `FrameLink` in both directions; reports arrive; both readers stop |
| `qds_block` | 3 blocks, eMax in -1..2 | verdicts rest on a complete transfer; both servers leave |
| `qds_race` | same | violation: signatures handled before Charlie's half is there |
| `qds_sequence` | keys of 2 positions | both verifiers agree; Charlie accepts only with Bob; every verdict ends both servers |
| `qkd` | sifted in {0,1,3,5,6,8,9}, codes of 2, 3, 4, kills | aborts agree, and lengths where the codes do; implements `KeyAgreement` |
| `ot_exchange` | 12 positions, codes of 2, 3, 4, kills | aborts agree; the message arrives; both leave |
| `ot_unequal_blocks` | same | violation: an exact decoder, and noise all the same |
| `ot_rounds` | server 2, client 3 or non-stop, every fault | the server cuts no round; the hardware is stopped; both ends come |

Every property of a passing run has a mutant in `PROJECT.json`: a changed definition, the
kind of slip the code could have, under which TLC finds the property violated.

### Bounds

* M=1 gives a selected agent and one that is not, all the roles there are; the patterns of
  one bit include equal and different ones. The theorems hold for every M and, except three
  that name N = 1, for every N.
* N=2 is what it takes for one session's leftovers to meet the next. Two Alices that both
  wait in a one-shot Bob's queue are not run: the second is only ever turned away
  (`BobTurnsAway`). The session count is bounded by N. With failures the two-session
  instance has millions of states; what fails is explored with one session, and the theorems
  cover both together.
* Three blocks make halves of one block: a key has a sent part and a kept part of more than
  one, and eMax ranges below, at and above what Alice's check lets through.
* Two positions give keys without errors, with the same error, and with different ones:
  errors that cancel in the XOR, and errors that do not.
* QKD: remaining halves of 0 to 4 bits against codes of 2, 3 and 4 bits give halves with no
  bit, too short for a code, exactly a block, and with bits to drop. The thresholds are
  fractions placed so that every branch of `read_matrix` is taken.
* OT: 12 positions give two strings of up to five blocks, equal numbers of blocks, one more
  and several more, codes that differ between the disks, and pads at the cap, below it and
  empty.
* OT rounds: a server of two rounds and a client of three have a connection in excess, one
  that arrives during another's second of delay, and a client that finds the server gone.
* Framing: three frames one way and two the other. A header of 2 bytes, not 4, and a body of
  exactly that length let a reader that is out of step get back into step, or read a length
  inside a header (`Misread`: zero, one shorter and one longer than a body). A misread
  length that starts in a body is longer than the stream, as four bytes of pickled text are.
* Acquisition: batches of one byte, bytes of two bits and lists of two bits stand for 1024
  bytes, 8 and 64: lists below and above the limit of the bit-by-bit conversion, with and
  without padding, one batch and several. Four pulses at sizes 3 and 4 with M=2 are a length
  M divides and one it does not, and a cut inside a byte. The four basis patterns of Alice,
  one wrong result or none, and two totals reach every verdict.
* All channels are bounded by what the protocols send; no bound cuts behaviour off.

`CHECK_DEADLOCK FALSE` throughout: these programs end, and a final state has no successor.
Where something must not hang there is a liveness property instead.

### Fairness

Weak fairness on each process or task (in `QToken`, `BobExit` and `BobAgentExit` included:
`wait_closed()` returns once the connections are closed): an operating system runs every
process that can go on, and an asyncio event loop starves no task that is ready. The 30 s
timer of Alice expires (weak fairness on `AliceTimeout` with her other steps). Not assumed:
that a kill, a signal, or the 2000 s timer of the OT server ever happens. In `QDSBlock` each
task of Bob has its own fairness, as the tasks are scheduled separately. In `QDSSequence`
only the two servers are fair: nothing is assumed of Alice or of the exchanges. In
`OTRounds` each handler and the client are fair; the server need not be started. In
`Framing` written bytes arrive and a read that can go on does; neither end need send, close
or time out. In `Acquisition` the threads and the loops turn; the hardware need not start.

## 5. Proofs

`TypeCorrect` (in each proof module but `FramingProofs` and `AcquisitionProofs`, where it is
a conjunct of the inductive invariant) is the type invariant. The rest rests on it.

**QToken** (`QTokenProofs`). `BasesOnlyAtSelected` and `TokenOnlyAtSelected` are not
inductive: they say nothing of what is still in flight. `InFlightSound` adds: z and b do not
change once used (`Masked`, `Selected`); every d and c on its way to Bob is that of its
session (`WireSound`); only the selected agent is asked (`TokenRoute`); bases on their way
to a BobAgent carry z XOR i (`BasesBlinded`); every c in the queue of a BobAgent is preceded
by the bases of its own session (`CPaired`), and while Bob waits for c those bases are the
last he sent (`BasesLast` and its companions). Unblinding then leaves i XOR b, which is zero
exactly at the selected agent: a small lemma on `Xor`. From it follow `BasesSafety`,
`TokenSafety`, `VerdictSafety` (every verdict whose token and bases belong together is the
exact one) and, for N = 1, `SingleSession`: every verdict uses the bases and states of its
own session (`DataKept` gives the states) - the property that fails for N = 2 in
`qtoken_stale_bases`.

The last part follows a verdict back to Bob. `ResultSound`, inductive on top of
`InFlightSound` for every N, says that a verdict on its way is one its agent computed
(`Answered`, `Relayed`), that what Alice reports and Bob records comes from the agent she
selected, on her token or an earlier one (`Reported`, `Recorded`), that the Alices follow
each other (`InTurn`: while one waits for her answer, no verdict is on a later token) and
that each is served once (`ServedOnce`). `RecordedSafety` is this for every N; for N = 1 it
is `ResultSafety`, that the result is on the session's own token (`ResultOnOwnToken`, stated
in the proof module), and `PresentationSafety` is the refinement: `AliceSelect` is `Select`,
a first verdict is `Judge`, `BobResult` is `Conclude`, and every other step, a second
verdict included, leaves point, judgement and outcome as they are.

**QDSBlock** (`QDSBlockProofs`). `SignatureSound` adds to the two safety properties when the
keys are fixed (`KeysFixed`), how far the transfer is on either side (`TransferSound`) and
what a verdict rests on (`VerdictSound`). The lemma `SettledStays` does the work for the
actions that only touch tasks and servers. `RejectionSafety` needs that no element of the
half Bob was sent is bad once he accepted, and hence that Charlie's count exceeds eMax in
the rest.

**QDSSequence** (`QDSSequenceProofs`). `VerdictsAgree` says nothing of the keys the verdicts
rest on. `SequenceSound` adds that a key, once there, stays (`KeysStay`), that a copy which
travelled is absent or is that key (`KeysShared`), what each verdict is a function of
(`VerdictsSound`) and that Charlie's answer is his result (`ResponseSound`). `Agreement` is
then the symmetry of the XOR, and `AcceptanceSafety` and `SuccessSafety` follow from it.
They hold for keys of every length and every pattern of errors.

**QKD** (`QKDProofs`). `KeysMatch` and `NeverExits` relate the two sides' results, which are
set at different times, on what the messages between them said. `QKDInv` adds the protocol's
place: a side has left exactly when it has a result (`Linked`), and `Flow` says for each
message in an inbox where both sides stand and what it carries - one conjunct per phase of
the exchange, from `BeforeBases` over `AwaitsI`, `AwaitsQber` and `Hashes` to `AliceOver`
and `BobPlaces`. `AliceKeySound` and `BobKeySound` tie each side's key to the shared data:
Bob's is the final key, the raw one, or, when the codes differ, the empty one. That neither
side reaches the exit of `read_matrix` follows from `QberAssumption` (lemma `Threshold`):
the rate at which both give up lies below the rates no code is listed for. `AgreementSafety`
is the refinement: initial states map to initial states, and a step either leaves the
abstract variables alone or is one side's leaving (`OneLeaves`), which `QKDInv` turns into a
step of `KeyAgreement`.

**OTExchange** (`OTExchangeProofs`). The same shape: `Flow` has the phases `Commits`,
`Opens`, `AwaitsI`, `Encrypts`, `AliceOver` and `BobPlaces`; `Stopped` adds why a side that
gave up did so, `Counted` what each side counted as leak and as bits, and `Decrypted` what
Bob's decryption rests on. `SameDecision` needs `CodesAssumption`, that the small code is
not longer than the large one: both sides then decide alike whether the strings are long
enough, although they may have different codes on their disks. `DecodedSize` bounds what Bob
decoded by what Alice sent, for every number of blocks. `CorrectTransfer` follows: with
equal blocks on both sides and an exact decoder the pads are those of the same string and of
the same length.

**OTRounds** (`OTRoundsProofs`). `ClientSound` relates the client's place to its round;
`CountSound` says that the counter never passes `num_rounds`, that a server that is to end
has counted them all, and that one which ended has no open connection, from which
`RoundSafety` follows; `HardwareSound` follows the start command through the round, and
gives `HardwareSafety`. For any numbers of rounds and any set of faults.

**Framing** (`FramingProofs`). A reader that lost a header is out of step, so `LinkSpec`
cannot rest on the reader standing at a frame. `StreamOK` says what holds in step or not: a
header that was one stands right before the bytes to be read next (`AtBody`), and the reader
is past the last frame it delivered (`Past`), so that the next true header it meets belongs
to a later frame. `InStep` adds for `feedback`, whose reads nobody cancels, that the reader
stands exactly at the next frame or behind its header, and hence leaves no gap. `Start` is a
recursive function over the frames; `StartTable` shows that it has the values its definition
says, by an induction that needs no operator parameter (`Induction`, from the library's
well-foundedness of < on the naturals), and `StartsGrow` and `FrameNumbers` make positions
and frames determine each other. `StreamsCorrect` is the invariant and `LinksCorrect` the
refinement: only `ReadBody` of a true frame changes the delivered sequence, and it is a step
of `FrameLink`. For headers and bodies of any size, any number of frames and any set of
misread lengths.

**Acquisition** (`AcquisitionProofs`). The first part is about the operators of `TokenBits`,
for strings of any length. Lists go to integers and back: `ListToInt` (both conversions,
below and above `SmallList`, with the padding of an incomplete byte: `BitByBitSpelt`,
`PackedSpelt`) and `BitsRestored`, by the same induction as above. Masks: `Blinded` and
`UnblindedBits` reduce the three repetitions of a name to the name's bit at a position, and
`OnlyTheNamed` concludes that an agent is left with y, cut to whole blocks, exactly when its
name is the one drawn. Counting: `VerdictOf` says that `^`, `&` and `bit_count` on integers
count what the strings have in common, by a bijection between positions of bits and of
characters (`Mirrored`). The second part is the readers. `ReaderOK` relates the bytes read
from a FIFO, the batches in the queue and what the loop has taken: the queue holds the
batches that follow those taken, then perhaps the sentinel (`Waiting`, `Holds`), and a
reader that ended had all its batches or used up one of its FIFOs (`Enough`). From
`CaughtUp` - what a party holds when its loop ends - `BobParsed` and `AliceParsed` get the
strings of the first pulses (`FirstPulses`), and `Exchanges` applies the first part to them.
`AcquisitionCorrect` is the invariant, from which `StringsAreFirstPulses`,
`OnlyAtChosenPoint` and `VerdictIsTheMeasured` follow, for every M, batch size, bits in a
byte, threshold and sequence of pulses. TLC checked this invariant on the instance of
`acquisition` before it was proved.

Assumptions used: those the modules name, `M > 0`, `n >= 2`, `EMax` integers, thresholds and
codes in their order, frames that have a body (`FramesAssumption`), batches and bytes of at
least one element (`AcquisitionAssumption`, `PackingAssumption`); failures arbitrary.
Nothing is assumed about fairness.

Only model-checked: the liveness properties (`AliceEnds`, `BobAgentsStop`,
`AliceAgentsStop`, `ReadersReturn`, `ReportsArrive`, `AcceptedIsJudged`, `EndEndsAll`,
`VerdictEndsAll`, `BothLeave`, `RoundsEnd`), which are beyond the prover.

## 6. Not modelled

* The END branch of the sequence-based servers: nobody sends END there.
* Bob's latency limit on a verification, reports and warm-up; Alice's `--basis` and
  `--meas`, which end like `--run_id`; the mask helpers of `protocol_utils.py` nobody calls.
* The photon readers, hardware start and stop and transport of the QDS and of the OT: the
  exchanges start with what the readers return, which may be nothing or too little where the
  code handles it.
* Logging, csv files, configuration, argument parsing, scripts: input and output.
* Finite-key formulas, parameter searches and LDPC arithmetic: real-valued or too large.
* Secrecy: the models say who holds which string, not what could be computed from it.
* The peer's exception closes its connection: this is what `asyncio.start_server` does since
  Python 3.12 (`Q_digital_signatures/README.md` names 3.13.7). Before, some waits would be
  longer.
