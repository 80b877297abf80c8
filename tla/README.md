# Verification of the Sprinter RTL8019AS network stack

The repository is a TCP/IP stack for the Sprinter computer (Z80, DSS) over an
RTL8019AS Ethernet card: some 52 000 lines of assembly, `src/` for the program
and `tools/` for host-side peers and an emulator harness.  This directory holds
TLA+ models of the parts that are hard to test, the TLC runs that check them on
small instances, and proofs (TLAPS) that hold for every size.  Paths below are
relative to the repository; `T:n` is `src/lib/tcp_lib.asm`, `U:n`
`src/dll/unetrtl.asm`, `R:n` `src/lib/rtl8019.asm` at line n.

## 1. Inventory

There is one CPU, the stack uses no interrupt, and every call is synchronous.
What interleaves is the network: the card puts frames into its ring on its own,
so between any two accesses of the driver a frame may arrive, and any
transmission may fail.  The system's 50 Hz frame interrupt runs beside every
program; it must leave no trace.

The repository carries a machine of its own to test the programs on
(`tools/exe-harness/`): a Z80 interpreter, the memory and services of the
computer, and a model of the card with faults that were met on real hardware.
Tests are only as good as that machine, so it is modelled too.

| component | state | operations | hard behaviour | correct means |
|---|---|---|---|---|
| UNET API (`unetrtl.asm`) | CH_STATE, ACTIVE_CH, swap slot, APEND_*, LISTEN_*, CH_PEND_*, CH_CLOSED, FOREIGN_* | NETINIT, NETDONE, CONNECT, SEND, RECV, CLOSE, UDPOPEN, LISTEN, UNLISTEN, RESOLVE, PING, STATUS, SETOPT | two channels share one working context; a frame of the other channel is processed inside this channel's wait; a suspended SEND; one listener that re-arms | contexts, queues, closes and the listener's record stay with their connection; no call hangs; nothing blocks for ever |
| receive path (`RECV_IMPL`, `TCP.RECV`, `STORE_TCP_PAYLOAD`) | RCV_NXT, queue with offset, ACK debt, dirty window | RECV, the drain loop, the final flush | save before ACK; part of a segment fits; ACK lost in the NIC; FIN or RST behind queued bytes | the stream, in order, once; nothing unsaved acknowledged; no stall behind a closed window |
| send and close path (`F_SEND`, `TCP.SEND`, `SEND_RESUME`, `TCP.CLOSE`) | SND_UNA, SND_NXT, target, retries, budget of the attempt | SEND, its repetition after AGAIN, CLOSE | retransmission, AGAIN slices, an ACK that comes with the timeout, FIN or RST; abort at the right number | the peer gets a prefix, once; DE is exact; bounded attempts; CLOSE tells the truth |
| sequence arithmetic (`tcp_lib`) | 32-bit registers | compare, add | wrap, stale and unearned ACKs, overlaps | decisions as on unwrapped numbers |
| open and passive open (`TCP.OPEN`, `LISTEN_POLL`) | TCP_STATE, ISN, ports | SYN attempts, SYN+ACK, final ACK | stale SYN+ACK of an earlier attempt, half-open peer, duplicate SYN | a channel opens only with the peer that answered it |
| out-of-order buffer (`tcp_ooo.asm`) | one saved segment | store, drain, prune | experimental | no byte twice |
| NIC receive ring (`rtl8019.asm`) | BNRY, CURR, next page | poll, peek, commit, recover | overflow, damaged header, a peeked frame that stays | never deaf for ever, frames aligned, an uncommitted frame not lost |
| NIC transmit, probe, reset, EEPROM | chip registers, the frame in packet memory | send, verify, wait for PTX | damaged copy in the card, stale status, lost writes | sent means sent, and what was built |
| test machine: Z80 core (`Z80core.js`) | registers, flags, IFF, one delay flag for DI and EI | run_instruction, interrupt | prefixes, flags, HALT, delayed EI | a program computes what its source says |
| test machine: harness (`harness.js`) | memory, windows, blocks, ISA window, limits | rd, wr, in, out, services, timer interrupt, delay shortcut | interrupt at any boundary; shortcut instead of execution | a handled interrupt leaves no trace; every run ends |
| test machine: card (`rtl8019-model.js`) | registers, packet ring, overflow latch | readReg, writeReg, deliverFrame, doTransmit | lost cycles, overflow, stop | as the driver's source says of the chip |
| ARP, resolver, DNS (`resolve_lib`, `dns_lib`, `unetrtl_cold`) | next hop, query id, server index | ARP wait, DNS wait, retries | late and foreign replies; reads frames of open channels | the answer belongs to the question |
| UDP, ICMP | bound tuple | build, match | | |
| DHCP (`dhcp.asm`, `ifup`) | xid, offer, lease | DISCOVER, REQUEST | lost, late, foreign replies | configuration only from an ACK to us |
| configuration (`netenv`, `netcfg_lib`, `netcfg_write`) | file, environment | load, save | a save that fails half way | the old or the new file |
| TFTP | block number, socket | read, write | delayed duplicates, block wrap | the file, once |
| ZMODEM, YMODEM | position, escape state | receive, send | recovery of position | the file, once |
| FTP, WGET, TELNET | two contexts, chunk state | commands, transfers | swap of contexts | data of the right connection |
| small utilities, probes, diagnostics, loader, test tools | | | one request, one reply | |

Interaction: an application calls the UNET dispatcher; it selects the channel's
context and calls `tcp_lib` or `udp_lib`; their wait loops poll the ring of
`rtl8019.asm`; a frame that is not the selected channel's goes to
`HANDLE_FOREIGN_FRAME` (U:2127), which runs the TCP receiver once under the
other context; payload goes through `STORE_TCP_PAYLOAD` (U:2043) before it is
acknowledged.  `PROJECT.json` lists every component with its status, and every
hazard at its line with the properties aimed at it.

## 2. Modules and how they correspond to the code

| module | models | runs |
|---|---|---|
| `UnetRecv` | receive path of one channel | recv_* |
| `UnetRecv_proofs` | its proofs | |
| `TcpSeq` | 32-bit comparisons and additions | tcp_seq |
| `TcpSeq_proofs` | their proofs | |
| `ByteStream` | what a reliable sender promises | (refined by UnetSend) |
| `UnetSend` | send and close path of one channel | send, send_again |
| `UnetSend_proofs` | its proofs | |
| `TcpOpen` | active and passive open of one channel | tcp_open |
| `TcpOpen_proofs` | its proofs | |
| `UnetChannels` | two channels, contexts, listener, suspended SEND | channels* |
| `UnetChannels_proofs` | its proofs | |
| `Rtl8019` | the card: registers, ring, overflow, transmission | (under NicRing) |
| `FrameQueue` | what the receive ring promises | (refined by NicRing) |
| `NicRing` | the driver's polling, reading, recovery and sending, on Rtl8019 | nic |
| `NicRing_proofs` | its proofs: the registers, types and sending | |
| `NicQueue_proofs` | its proofs: the frames in the ring | |
| `NicRefine_proofs` | its proofs: the ring implements FrameQueue | |
| `Z80Core` | the Z80 interpreter of the test machine | (under ExeHarness) |
| `ExeHarness` | the test machine: bus, services, interrupt, limits | exe_harness |
| `ExePrograms` | what it runs: routines of `src/lib` and self tests | (under ExeHarness) |
| `MC*` | values for TLC | |

**UnetRecv.**  A byte is its position in the peer's stream, the FIN has the
position behind the last byte.  `pc` says where the caller is in the DLL;
`RecvEnter` is RECV up to its wait (the opening window update, the copy out of
the queue, the deferred close), `RecvInOrder` and `RecvOutOfOrder` one frame in
`TCP.RECV` (trimming, how much fits, acknowledgement or debt, FIN, drain),
`RecvTimeout`, `RecvExit` the flush and the return.  `SendCall` is the same
receiver under SEND, where payload can go to the queue only; it also stands for
the frame the other channel's wait takes.  Every transmission takes a flag that
says whether it left the NIC.  `wire` is a set, so frames are lost (never
taken), repeated and reordered.  History: `buf` (bytes handed over), `reported`
(sum of DE), `last` (the last ACK and window on the wire).

**TcpSeq.**  Two registers of width `Modulus` beside the true, unwrapped
numbers.  Signed comparison is the code's subtraction and test of the top
byte's sign; the receive comparison is unsigned, as at T:2486.

**UnetSend.**  `SendStart`, `SendChunk`, `SendFrame`, `SendSilence`,
`SendResume` are F_SEND's loop, one transmission, one frame in the wait, one
expired quantum, and the repeated call.  `CloseStart`, `CloseAborts`,
`FinFrame`, `FinSilence` are CLOSE.  The chunk's state is as in the code:
TCP_SEND_SEQ, target, retries left, milliseconds left of the attempt.  The peer
may take a segment in part, close and reset.

**TcpOpen.**  An end is a peer with one of our ports; initial numbers are drawn
fresh and stand for ISNs (the k-th is 10 k), ports come from a small set and
repeat.  `Connect`, `Attempt`, `Syn*` are CONNECT and TCP.OPEN with
WAIT_SYN_ACK; `Listen`, `Unlisten`, `Poll` and the `Poll*`, `FirstSyn`,
`SynAgain`, `ResetHalfOpen`, `Accept` are LISTEN, UNLISTEN and LISTEN_POLL;
`Recv*` and `Close` are RECV and CLOSE as far as segments of handshakes meet
them.  `call` is the wait the caller is in with what is left of it, `tcb` the
working context.  The server and the clients do what RFC 793 asks of a
handshake; `agreed` records the pairs of initial numbers a peer took part in.

**Rtl8019, NicRing, FrameQueue.**  `Rtl8019` is one record `chip` with an
operator for each register write and read, `Store` for a received frame (pages
with a header, CURR, the overflow latch) and `DoTransmit`; it follows the
repository's model of the card, which is its statement of what the chip does.
`NicRing` is the driver on it, one access an action: `Poll`, `SelectTry`,
`CurrFirst`, `CurrAgain`, `Decide`, `IsrFirst`, `IsrAgain` are RING_HAS_PACKET
with SELECT_PAGE, `MonitorMode`, `StopChip`, `RestartChip` RECOVER_OVERFLOW,
`PacketCall`, `ReadHeader`, `BadHeader`, `ReadBody`, `ReadRest`, `PeekDone`,
`ReadDone`, `CommitPacket` READ_PACKET, PEEK_PACKET and COMMIT_PACKET,
`SendFrame`, `WriteFrame`, `SetLength`, `ClearStatus`, `Transmit`, `WaitPtx`
SEND_FRAME_SG.  `WaitPtx` has the code's three reads, each of which the card may
sit out: ISR in the loop (R:1534), then CR and ISR in CAPTURE_TX_STATE (R:1978,
1980), on the last of which the verdict rests.  A read that the card sits out
gives what was last on the data lines, after TXP the command itself.  The card
sends TBCR bytes from TPSR on.  `reg.before` is history: the faults before the
call of SEND_FRAME.
`Arrive` may come between any two.  `FrameQueue` is a bounded queue; NicRing's
`Queued`, the frames that begin on the pages from the driver's boundary to CURR,
maps to it.

**Z80Core, ExeHarness, ExePrograms.**  A processor is a record with the fields
of the JavaScript object; an instruction is an operator on such records, one
operator for each row or group of the instruction tables.  `ExeHarness` adds
the bus (four windows, the ISA window with the card's registers as latches),
the DSS and BIOS entry points, the shortcut over the delay loop, and the timer
interrupt, which may come before any instruction.  Beside the machine `z` runs
`quiet`, the same program without interrupts: `Transparent` compares them.
`ExePrograms` holds assembled routines of `src/lib` (ISA_OPEN and ISA_CLOSE,
the delays, HEXB, CHECKSUM, DIV32_BY_DE, the cold overlay's RUN) and the
programs of `test-exe-harness.js`, each with the end its source promises.

**UnetChannels.**  A connection is a number; the context is its state, its TCP
connection and its UDP tuple.  `work` and `spare` are the working variables and
the swap slot, so that using a context without SELECT_CHANNEL is expressible.
A call is a sequence of steps, `call` says which wait it is in; a pass of a
wait takes the head of the ring, which is its own (`Recv*`, `Send*`, `Open*`,
`Close*`, `Poll*`), the other channel's (`Foreign*`) or nobody's (`Dropped`).
Whether a transmission succeeds, whether a FIN is in order and whether the
queue has room are choices here; UnetRecv and UnetSend decide them.

## 3. Runs

Passing runs (all complete state spaces):

| run | checks | shows |
|---|---|---|
| recv | TypeOK, SavedInOrder, AckedIsSaved, ClosedAfterData, NoDebtMeansAcked, FreedSpaceAnnounced, LossOnlyOnFailure | bytes once and in order, queue never overrun, nothing unsaved acknowledged; closing never overtakes data; debt and dirty window survive failed transmissions |
| recv_live | StreamDelivered | no stall behind a closed window |
| tcp_seq | TypeOK, UnaExact, AcceptedInPlace | the registers decide as the unwrapped numbers do |
| send | TypeOK, PeerGetsPrefix, ProgressExact, AbortHitsPeer, ImplementsStream, CallsEnd | exact delivery and exact DE; the sender implements ByteStream; CLOSE's two resets reach a peer that takes segments whole; SEND with any slices, and CLOSE, end |
| tcp_open | TypeOK, Synchronised, HandshakesEnd | a channel is open only with a peer that took part in this handshake; no handshake hangs whose client goes on with it |
| channels | TypeOK, ContextFollowsChannel, SuspendedCanResume, ListenerRecordSound, QueuedIsOwn, CloseIsTheirs, DatagramProtected | nothing of one connection ends up with another |
| channels_live | CallsReturn, DatagramServed | every call returns; a blocking datagram is read |
| nic | TypeOK, HeldIsWhole, RegistersIntact, SentIsTrue, ImplementsQueue, NeverDeaf | with two faults of bus or card: the ring implements FrameQueue; what was read stays whole until released; no write hits the wrong page; failed means not sent, and no single fault makes a frame that never left a sent one; the receiver always comes back |
| exe_harness | TypeOK, EndsAsPromised, Transparent, IrqsOffWhileOpen, Finishes | wherever the interrupt falls, the routines compute what their source says, and end; interrupts are off over the card |

Runs that find a disagreement between a statement of the repository and the
code (`PROJECT.json` "findings" quotes both):

| run | property | what happens |
|---|---|---|
| recv_lost_bytes | FailedCallKeepsBytes | RECV's failed opening window update loses queued bytes |
| send_again | ProgressExact | SEND after a failed SEND reports a negative DE |
| channels_rst | ContextFollowsChannel | a foreign RST of an accepted channel makes CLOSE overwrite the other context |

### Deviations without a run of their own

Each was met while modelling; where a constant is named, setting it in the cfg
of the passing run makes TLC show the behaviour.

* `DebtMayWrap` (recv): the debt shares a byte with the defer flag; the 128th
  unacknowledged segment of one drain carries into the flag and the byte is 0,
  so the final flush sends no ACK (T:2356).  It delays an ACK, no more:
  StreamDelivered still holds with it on, in a run of three minutes.
* Part of a segment (send, `takesPart`): a peer that took part of a segment, in
  an ACK that was lost, expects neither of the two numbers CLOSE resets at
  (T:2678); AbortHitsPeer excludes it.
* FIN in front of sent bytes: when the first attempt of a SEND fails in the NIC,
  RESTORE_SEQ (T:1799) rewinds SND_NXT to SND_UNA, past bytes that an earlier
  failed SEND had on the wire; CLOSE then finds both equal and sends a FIN at
  their first number.  `docs/UNETRTL.md`:191 says "so the segment stays
  outstanding" and that CLOSE aborts.  A peer that has the bytes ignores the FIN.
* Overlap across the wrap: the comparison at T:2486 is unsigned, so once RCV_NXT
  has wrapped an overlapping retransmission that starts before the wrap counts
  as a hole and its new bytes are refused, where T:2462 wants "trim the overlap
  and accept" them.  AcceptedInPlace holds: nothing wrong is accepted.
* A half-open connection has no timer (T:1579).  A client that vanishes, or one
  that waits for our first byte while its final ACK was lost, holds the one
  listener until UNLISTEN or CLOSE (`Silent <- AllClients` in TcpOpen.cfg),
  whereas `docs/UNETRTL.md`:411 says that another peer's retransmission "brings
  it back once the first handshake resolves one way or the other".
* A wrong ACK for a half-open connection is dropped without a reset (T:1620), so
  a client that believes in an older handshake is not told, and the connection
  stays half-open until that client gives up.
* OPEN ends at once, with attempts left, on a SYN+ACK of the right tuple and the
  wrong number (T:460, F_BAD_SEG).  The comment at T:402 relies on "each attempt
  has a new port"; ports are 14 bits of a salt whose walk x -> 3x + R + c has no
  full period, so they may repeat.
* The damaged CURR (nic, `Faulty <- Misread`): RING_HAS_PACKET reads CURR twice
  (R:2103) with no other access in between, so a second cycle that the card sits
  out repeats the first value and a misdirected first read is confirmed; an old
  frame is then read as a new one.  R:2489, of SELECT_PAGE, says why two reads
  need a conditioner between them.  The value on the data lines need not be a
  misdirected one: before both reads it is that of CR, 98, a page of the real
  ring (70 to 127), so two cycles that the card sits out are confirmed too
  (nic with `PStart = 96`, `PStop = 101`, `Faulty = {"read"}`).  The ring of the
  nic run leaves 98 out, and HeldWhole assumes it outside (section 4).
* Faults that the run leaves out because the driver does not survive them: a
  lost stop command in RECOVER_OVERFLOW (R:2196, add "stop" to `LostCycles`) leaves
  the receiver deaf for good; a damaged header whose next page is inside the
  ring is trusted; the write that restores RCR (R:2229) is not read back; as many
  lost cycles as SELECT_PAGE has tries defeat it.
* SentIsTrue's bounds are where the code stops telling the truth; TLC finds each
  when its bound is dropped.  Two faults in one call: the card reports TXE and
  the captured ISR read (R:1980) is missed, so that the verdict is passed on the
  value of CR; or TXP is lost and the first look (R:1534) is missed, so that the
  command on the data lines, 26h, passes for PTX and the capture finds no TXE.
  Either is "sent" for a frame that never left.  One fault: TBCR is written once
  (R:1704), and a lost write sends the frame in another length with PTX as the
  result; TPSR is written once (R:1710), which matters only if INIT_NORMAL's
  write of it (R:1413) was lost before; and a byte behind the verified headers
  may be wrong.  R:1675 says "cannot silently turn into PTX=success for a
  malformed frame", and what it verifies is the headers.
* Faults that no constant turns on.  In a remote DMA only the first write, which
  selects page 0, may be lost (`DmaSetUp`), and in VERIFY_TX_PREFIX none.  A lost
  write of RSAR1 would read an earlier page as the header or the rest of a frame, or
  put an outgoing frame on a page of the ring; of RBCR, end a body early; of the
  command, start no transfer, which DMA_READ reports when its wait for RDC runs
  out.  Only the headers of an outgoing frame are read back.  The reads that wait for
  RDC are not missed either.  HeldIsWhole, ImplementsQueue and their theorems say
  nothing of a run with such a fault.
* The interpreter delays DI by one instruction in a flag that any next
  instruction consumes (`Z80core.js`:2087).  An interrupt accepted in between
  lets the handler's first instruction consume it, and the handler's EI then
  stays in force inside the DI section of ISA_OPEN, whose source says "keep IRQs
  off while open".  It takes a handler in window 0, which the programs of the
  run do not have.
* Where `Z80core.js` differs from a Z80 and no program of the run notices:
  ADC and SBC HL add the carry before they compute H and P (lines 806, 807), ADD
  IX does not mask IX to 16 bits, RETI does not restore IFF1, INI and OUTI
  decrement B in the other order.  Z80Core has them as the interpreter does.
* `BusyResolver` (channels): the resolver reads frames of open channels from
  the ring and discards them (`unetrtl_cold.asm`:671).
* A RECV during which nothing arrives owes nothing at its end, so the window
  that counted the caller's buffer stays announced (U:1093).
* A FIN of the peer that crosses ours ends CLOSE's wait as answered, although
  our FIN may have been lost (T:2748).
* A SYN for the listening channel that arrives during a wait of the other
  channel is nobody's and is dropped (T:1287); `docs/UNETRTL.md`:408 says it is
  not, and that the peer's retransmission covers the gap, which it does.

### Bounds and why they are enough

* UnetRecv: a FIN behind 3 bytes (2 in recv_live), segments of 1 or 2, a queue
  of 2 bytes (1), reads of 1, so that a segment fits whole, in part and not at
  all, is split between caller and queue, overlaps RCV_NXT, and a read halves or
  empties the queue; one frame and one ACK in flight, kept and repeated as long
  as the network likes.  The window's cap is below what queue and buffer hold.
  `DeferBit` is 4 (2) for the code's 128, so that the debt reaches its limit.
  The proofs have none of these bounds.
* TcpSeq: registers of 16 values, streams of 18 positions, so that both
  registers wrap whatever the start; windows stay below half the modulus as
  536-byte segments do below 2^31.
* UnetSend: 2 or 3 bytes in chunks of up to 2, so there are a full chunk, a short
  one and a second one; two attempts (4 in the code), two FINs (3), an attempt
  of two units with slices of 0 (blocking), 1 and 3 (longer than the attempt).
* TcpOpen: two clients and a server, two attempts (3 in the code), one
  ephemeral port, so that a late SYN+ACK of the first attempt fits the second;
  a wait of two passes; polls of 0 (which the code makes 1) and 2 ticks; two
  initial numbers on either side, so that each end can hold on to a handshake
  the other has left; two segments in flight, kept and repeated.  Ports repeat
  although the code's rarely do; ISNs do not, although the code's might.
* NicRing: a ring of five pages, 78 to 82, in the middle of the real one, so
  that a CURR of 80 or more has the bit of the overflow latch and one of 78 or
  82 passes the mask with which SELECT_PAGE recognises page 1, and without 98, the
  value of CR that two missed reads of CURR both give; frames of two and
  three pages, where the buffers hold two; three stored frames, so that the ring
  fills and wraps; two sent, of 300 bytes, so that both halves of TBCR matter; two
  faults in a run and two tries where the code has four or three (32 for
  TX_CLEAR_TRIES), so that every retry is needed and some are used up.  A
  remote DMA always completes; the body of a frame never looks like a header; a
  damaged header gives a page outside the ring or a bad status.
* ExeHarness: programs are constants; one interrupt a run, at any boundary.  A
  second one would start in a state that Transparent says is the quiet one.
* UnetChannels: two connections beside closed and listening channels, which is
  two on one channel and one on each; a ring of one frame, as every decision is
  about the head of the ring and the next frame may come at once; waits of one
  pass, because a pass without data changes nothing but the time left, with
  every remaining length reached through data; a buffer of two segments.
  channels_live leaves out the listener and NETDONE, for size.  `RstFrom` keeps
  resets of accepted connections out of the passing run: channels_rst shows
  what they do.  `BusyResolver` keeps frames from the resolver there for the
  same reason; it is on in channels_live.

### Fairness

* UnetRecv: the application keeps calling RECV; a transmission does not fail
  for ever; waits end; the peer retransmits from its SND.UNA and probes a
  closed window, as TCP requires; what is sent again and again arrives.
* UnetSend: the code runs, its waits end, a suspended SEND is repeated.  Each
  pass of a wait loop spends a tick (T:2120), so waits end without the network.
  Nothing is assumed of the network or the peer.
* TcpOpen: waits end, because every pass is charged; the application polls its
  listener.  Of the network: what the client of the half-open connection sends
  again and again is in the ring in some poll, is taken there, and what we answer
  reaches it (strong fairness of `Arrives`, `Heard`, `Reaches`): the ring keeps
  what arrives between polls, and TCP itself assumes no more.  Nothing is
  assumed of a client that stops.
* NicRing: the driver goes on with a call (weak), the application polls again
  and again and releases what it took (strong, as both wait for other calls).
  Nothing is assumed of frames; the bus has at most `MaxFaults` faults, of the
  kinds in `Faulty` and at the accesses that the actions name (section 3,
  deviations).
* ExeHarness: the loop of `harness.js` goes on; no program of the run halts.
* UnetChannels: the CPU goes on with a call it has begun (weak fairness of
  `Code`); the application polls RECV on both channels and repeats a suspended
  SEND (strong, since a call is possible only between calls).
  `docs/UNETRTL.md` asks for that ("STATUS reports UNET_ST_RXPEND ... when the
  other channel needs service").

## 4. Proofs

Eight modules hold the proofs, each beside the module it is about.  Every
theorem is of the form `Spec => []Inv` or `Spec => [][A]_vars`, or says that
the abstract specification is implemented, and comes from an inductive
invariant with one lemma per kind of step.

**UnetRecv_proofs**: `TypeCorrect`, `DeliversInOrder`, `AcksOnlySaved`,
`ClosesAfterData`, `ForgetsNoAck`, `AnnouncesSpace`, `LosesOnlyOnFailure`, for
all stream lengths, segment, queue, window and buffer sizes and any number of
frames in flight.

* The first invariant is `IInv == TypeOK /\ PhaseInv /\ FinInv /\ StreamInv /\
  AckInv`.  SavedInOrder alone is not inductive: a step moves bytes from segment
  to queue to buffer and RCV_NXT in one go.  StreamInv says that buffer followed
  by queue is the stretch of the stream from 0 to RCV_NXT (less one when the FIN
  was taken, FinInv); AckInv that every ACK in flight and the last one sent are
  at most RCV_NXT; PhaseInv ties `pc` to what is left of the caller's buffer.
  The lemmas are about stretches (`StretchAppend`, `StretchMove`), the window
  (`WindowNat`) and a transmission (`EmitAck`, `FlushAck`).
* On top of it `JInv == QueueInv /\ CountInv /\ (~DebtMayWrap => DebtInv)`:
  an empty queue starts at offset 0; what was copied for the call in progress,
  and that a close is reported only by a call that copied nothing; and that
  without a debt the last ACK on the wire was RCV_NXT, and without the dirty flag
  its window covers what the queue has free.  `ForgetsNoAck` and
  `AnnouncesSpace` need DebtInv and therefore `~DebtMayWrap`: with the wrap the
  debt really is forgotten (section 3, deviations).

**TcpSeq_proofs**: `TypeCorrect`, `UnaIsExact`, `AcceptsOnlyInPlace`, for every
modulus, start and stream length, from the assumption that what is outstanding
and how far an acknowledgement can be off stay below half the modulus.  The
lemmas compute with remainders (`ModDifference`, `ModSmall`, `MinusExact`,
`NegativeExact`).

**UnetSend_proofs**: `TypeCorrect`, `DeliversPrefix`, `CountsExactly`,
`ResetsHit`, `Implements`, for every stream, chunk size, number of attempts and
time.  Each assumes `~SendsAgain`, that the application closes after a failed
SEND: otherwise the code does report a wrong length, which is the run
send_again.  `IInv` is stop-and-wait: at most the chunk in progress is beyond
SND_UNA (CallInv), every segment in flight is a stretch of what the application
put (NetInv), the peer's bytes are a prefix of that and reach at least the last
acknowledgement (PeerInv), and a peer that takes segments whole expects one of
the two numbers at which CLOSE resets (WholeInv).  `Implements` shows that the
first state and every step map to ByteStream.

**TcpOpen_proofs**: `TypeCorrect`, `OpensOneHandshake` (Synchronised), for any
set of clients and ports, number of attempts and waits.  Synchronised is about
the opened channel only; inductively, every segment in flight must be `Sound`:
our numbers in it were drawn, a peer's belong to a handshake that peer has taken
part in, and `agreed` only grows.  A half-open or open context holds a number of
ours that no other peer was, or can be, given (`Given`).

**UnetChannels_proofs**: `TypeCorrect`, `ContextFollows`, `ListenerSound`,
`SuspendedResumes`, `QueueIsOwn`, `CloseTheirs`, `DatagramWaits`, for any set of
connections, ring, queue and wait length.

* `Base` holds unconditionally: the types, which call may be on a channel in
  which state and that its channel is the selected one (CallInv), what NETDONE
  and NETINIT have closed already (DownInv), which frames a connection can have
  in the ring (RingInv, PeerInv), and the tuple of a datagram channel (UdpInv).
  `TypeCorrect` and, for `~BusyResolver`, `DatagramWaits` follow from it; with
  the resolver the latter is false (section 3).
* The others need `Rest` (each open channel has its connection in its own
  context, an accepted peer that sends has not been reset) and assume
  `"in" \notin RstFrom`: a foreign RST of an accepted channel breaks it, which is the run channels_rst.
  For QueuedIsOwn and CloseIsTheirs TLC finds no violation without that
  assumption either, but then the invariant they are proved from does not hold.
* The steps are grouped: *quiet* steps that change no channel; steps that keep
  both contexts; steps of one channel, for which the other channel's part
  of the invariant is one lemma; and the release of a connection.

**NicRing_proofs**: `TypeCorrect`, `SentTrue` (SentIsTrue), `Intact`
(RegistersIntact), for any ring, number of frames, retries, bodies, lengths and faults (for Intact
see below).

* The first part is about the card: what a write to each register and each
  command changes, so that an action can name the parts of `chip` it leaves
  alone (`SameStore`, `SameOne`, `SameBounds`), then what a transfer through the
  data port and the read-backs of SELECT_PAGE amount to.
* `IInv == ChipInv /\ TypeInv /\ CallInv /\ SendInv`.  ChipInv: no transfer is
  under way between two actions and the bounds of the ring are those that were
  programmed.  CallInv: what the working values are at each label; a header that
  passed the checks names a page of the ring.  SendInv: the frame being sent is
  not on the wire before TXP, is in the transmit buffer from the check of its
  headers on, and while WAIT_PTX runs the frame has left and PTX says so, or it has
  not and a fault of this call is why (TXP lost, TXE, the wrong page).  Each
  is needed for types already: the body is read from the page the header names.
* `Intact` adds `PageInv` (page 1 outlives a poll only when every try of
  SELECT_PAGE lost its write) and assumes `FewFaults`, at most SelectTries
  and at most 3 faulty cycles.  Both bounds are sharp: with two tries and three
  faults, and with four tries and four faults, TLC finds a write meant for page 0
  in the registers of page 1.  The code tries four times (rtl8019.asm:2515).

**NicQueue_proofs**: `HeldWhole` (HeldIsWhole), for any ring and any number and
sizes of frames.  On IInv and PageInv of NicRing_proofs it adds
`QueueInv == RingInv /\ CurrInv /\ HeadInv`.

* A place in the ring is a number of pages behind another one (`Behind`), so
  that the wrap is dealt with in a few lemmas and the card's remainders in
  another few (`GapIsRest`, `PartIsPlace`).
* RingInv: between the driver's boundary and CURR lie frames, each whole with a
  header that says where the next one begins; BNRY is at or behind the boundary,
  since writes of it can be lost, and CURR has not caught up with it.  It is
  kept by a store (`Stores`: a frame that fits touches no page of the others), by a
  release and by a recovery (`Dropped`: the queue loses frames at its head).
* CurrInv: a value of CURR that two reads agreed on and that names a page of the
  ring other than the boundary's next one is true, a frame does wait there.  A
  first read that claims so falsely was a fault: misdirected, which the second read
  is not too, or sat out, and then it gave 98.  This is what the second read, and
  the confirmed page before it, are for.
* HeadInv: what was read is the header at the boundary and the pages behind it in
  order.  Stores and lost writes of BNRY do not reach these pages.
* Assumed are `FewFaults`; `PoisonOutside`, that what a read without a header gives
  (0AAh) is no page of the ring, as in the code; and `NoFalseCurr`: at most one
  fault, or no "repeat" and no "read", or no "repeat", at most two faults and a
  ring without 98.  Without it the property is false (section 3, the
  damaged CURR), so for the code's own ring the theorem covers one fault of any
  kind, or as many as FewFaults allows of the kinds other than "read" and "repeat".

**NicRefine_proofs**: `RingIsQueue` (ImplementsQueue), the first state and every
step of NicRing map to FrameQueue, for any ring and any number and sizes of frames,
under the assumptions of HeldWhole.

* The queue and the sum of its pages are recursive functions, so the proofs need
  induction.  The library's induction rules take a predicate as a parameter; that a
  set of naturals has a least element does not, and `Induction` and `InductionTo`
  are derived from it.  Each recursive function is shown to exist for every bound
  (`HeadsExist`, `SumExists`) before its equation is used.
* `Heads(ram, s)[k]` is the queue on the first k pages behind s.  `HeadsSame`,
  `HeadsQuiet` and `HeadsShift` say what pages that stay, pages in the middle of
  a frame and a boundary that moves on do to it; `Leaves`, `Leads` and `StoredLast`
  make of that the removal of the head and the frame appended by a store.
* That the frames in the queue never need more pages than the ring less one
  (`Fills`) goes by induction over the pages too, with what the frame last begun has
  left of its pages as the slack.
* FrameQueue counts damaged reads of the head since its reading began; NicRing
  starts the count with each READ_PACKET or PEEK_PACKET.  `DamageInv`: a frame that
  fits the callers' buffers is being read for the k-th time in a call only after
  k - 1 damaged reads, and given up only after HdrRetries of them.  A lost write or a stored frame does not use up a try (`HeaderReads`), which
  needs PageInv.  It fails, as TLC shows, when FewFaults does: with page 1 selected
  a lost write leaves the transfer unstarted, and the tries go by without damage.
* A bad header that names no page of the ring moves the boundary by one page.  In
  the middle of a frame that changes no queue; at its beginning the frame is
  skipped, and its other pages are passed over later.

The assumptions on constants are the ASSUMEs of the modules (sizes are naturals,
the queue is not empty, the modulus leaves room), evaluated by TLC in each run.

Only model-checked: the liveness properties StreamDelivered, CallsEnd,
HandshakesEnd, CallsReturn, DatagramServed, NeverDeaf and Finishes, since the
prover does not reason about fairness or ENABLED here; and ExeHarness, whose
properties are about what constant programs compute.

## 5. Not modelled

The components marked `not_modelled` in `PROJECT.json`.  Of the modelled ones:
checksums, header layout and text; the cost of time in milliseconds (a tick is
a step); the cancel key except as the end of a wait; IP fragments.  Above the
driver a fault of the card is a transmission that fails, or a frame that is
lost; the faults themselves are NicRing's.  TcpOpen has one channel and no FIN of
a peer; UnetChannels has both channels.  Of the card: pages 2 and 3, the station
PROM, loopback, probe, reset, the byte-wise transfer and the EEPROM.  Of the test
machine: cycle counts, and the file, key and environment services.  UnetChannels abstracts the bytes and
UnetRecv/UnetSend the second channel; their composition is planned.

## 6. Plan

1. Done: UnetRecv and proofs, TcpSeq and proofs, ByteStream, UnetSend, TcpOpen,
   UnetChannels, Rtl8019, FrameQueue, NicRing, Z80Core, ExeHarness, ExePrograms.
2. Done: proofs of UnetRecv, TcpSeq, UnetSend with its refinement, TcpOpen,
   UnetChannels, and of NicRing the types, SentIsTrue, RegistersIntact,
   HeldIsWhole and its refinement of FrameQueue.  Next: ExeHarness
   (IrqsOffWhileOpen).
3. `Tftp`, `Dhcp`, `Resolve`: protocol clients with late, duplicate and foreign
   replies; abstract specification "the file / lease / address, once".
4. `ZModem`, `YModem`, the FTP context swap, the configuration file.
5. Composition of UnetChannels with UnetRecv for two byte streams.
