------------------------------- MODULE Vsock -------------------------------
(***************************************************************************)
(* Stream connections between the host and the guest: the vsock device of  *)
(* packages/kernel/src/virtio/vsock.ts and its receive queue, rx.ts.       *)
(*                                                                         *)
(* A stream is paced by credit: a side may have no more bytes on the way   *)
(* than its peer has room for, and learns from the fwd_cnt of the packets  *)
(* it receives how many the peer's reader has taken.  All counters         *)
(* wrap at Modulus; byte number i of a stream is known here by its number  *)
(* alone, so a chunk is where it starts and how long it is.                *)
(*                                                                         *)
(* The guest is Linux's vsock (external): it answers or refuses requests,  *)
(* its programs read, write and close, its driver posts receive buffers.   *)
(* A kick does not await, so an action is one packet of a transmit kick,   *)
(* one posted buffer, or one turn of a reader, of a writer, of a timer.    *)
(* A connection has one reader, as in conn.ts.  Its port is its identity:  *)
(* #allocate_port comes round to a port only after 16384 connects.         *)
(* A definition marked `fault' is a slip this code could have had, used by *)
(* no action: it shows which property would notice it.                     *)
(***************************************************************************)
EXTENDS Integers, Sequences

CONSTANTS
  MaxPorts,                 (* bound: connections made                      *)
  Modulus,                  (* where a counter wraps: 2^32 in the code      *)
  DEFAULT_VSOCK_BUF_ALLOC,  (* the host's room for a stream, in bytes       *)
  MAX_VSOCK_PAYLOAD,
  GuestAlloc,               (* the guest's room for a stream                *)
  MaxBuffers,               (* bound: receive buffers of the guest's driver *)
  MaxTransfer,              (* bound: bytes of one read or write            *)
  MaxHostBytes, MaxGuestBytes,  (* bounds: bytes written by either side     *)
  MaxResets                 (* bound: resets of the device                  *)

ConstantsFit ==
  /\ Modulus \in Nat \ {0}
  /\ DEFAULT_VSOCK_BUF_ALLOC \in 1 .. Modulus - 1 /\ GuestAlloc \in 1 .. Modulus - 1
  /\ MAX_VSOCK_PAYLOAD \in Nat \ {0}
  /\ MaxPorts \in Nat /\ MaxBuffers \in Nat /\ MaxResets \in Nat
  /\ MaxTransfer \in Nat /\ MaxHostBytes \in Nat /\ MaxGuestBytes \in Nat

PortNumbers == 1 .. MaxPorts
Counter == 0 .. Modulus - 1
Wrap(x) == x % Modulus      \* x >>> 0
Least(x, y) == IF x <= y THEN x ELSE y

VARIABLES
  conn,        (* port -> the host's side of the connection                 *)
  pending,     (* packets that wait for a receive buffer                    *)
  rx_chains,   (* receive buffers posted and not used                       *)
  device,      (* "running", "stopped", then "closed"                       *)
  guest,       (* port -> the guest's side                                  *)
  to_guest,    (* packets in receive buffers                                *)
  to_host,     (* packets on the transmit queue                             *)
  reset_count,
  budget       (* bytes that programs of each side may still write          *)

vars == <<conn, pending, rx_chains, device, guest, to_guest, to_host, reset_count, budget>>

Chunk(from, n) == [from |-> from, n |-> n]
NoBytes == Chunk(0, 0)

(* `listed' is being in #connections, `timer' having the timeout of the    *)
(* connect armed.  A reader is idle, parked in read_waiters, or about to   *)
(* go on with the chunk it was given; `left' is what readExactly still     *)
(* wants, 0 in read.  A writer is idle, ready to run, or parked in         *)
(* credit_waiters.  `abandoned' is history: not the guest ended it.        *)
NewConnection ==
  [promise |-> "none", listed |-> FALSE, timer |-> FALSE, closed |-> FALSE,
   bytes_read |-> 0, bytes_written |-> 0, last_credit_update |-> 0,
   peer_buf_alloc |-> DEFAULT_VSOCK_BUF_ALLOC, peer_fwd_cnt |-> 0,
   read_buffer |-> <<>>, reader |-> "idle", chunk |-> NoBytes, left |-> 0,
   writer |-> "idle", unwritten |-> 0, abandoned |-> FALSE]

(* Linux: bytes sent, received and read, what its last packet said of the  *)
(* reads, and what the last packet of the host said of its own.            *)
NewGuest ==
  [state |-> "none", tx |-> 0, rcvd |-> 0, fwd |-> 0, last_fwd |-> 0, peer_fwd |-> 0]

Init ==
  /\ conn = [c \in PortNumbers |-> NewConnection] /\ guest = [c \in PortNumbers |-> NewGuest]
  /\ pending = <<>> /\ to_guest = <<>> /\ to_host = <<>>
  /\ rx_chains = 0 /\ reset_count = 0
  /\ device = "running"
  /\ budget \in {[host |-> MaxHostBytes, guest |-> 0],
                 [host |-> 0, guest |-> MaxGuestBytes]}

-----------------------------------------------------------------------------
(***************************************************************************)
(* Sending to the guest: as many packets are delivered as there are posted *)
(* buffers, the others wait.                                               *)
(***************************************************************************)
Packet(c, op, chunk, fwd) ==
  [port |-> c, op |-> op, from |-> chunk.from, n |-> chunk.n, fwd |-> fwd]

Flush(packets, chains) ==
  LET n == Least(Len(packets), chains) IN
    /\ to_guest' = to_guest \o SubSeq(packets, 1, n)
    /\ pending' = SubSeq(packets, n + 1, Len(packets))
    /\ rx_chains' = chains - n

Send(packets) == Flush(pending \o packets, rx_chains)
SendNothing == UNCHANGED <<to_guest, pending, rx_chains>>

(* A packet without data, with the connection's own count of bytes read.   *)
Signal(c, op) == Packet(c, op, NoBytes, conn[c].bytes_read)

(* ops.send: what a connection itself sends.                               *)
OpsSend(c, packets) ==
  IF device = "running" /\ conn[c].listed THEN Send(packets) ELSE SendNothing

(* A kick of the receive queue, with a buffer more.                        *)
PostBuffer ==
  /\ device = "running" /\ rx_chains + Len(to_guest) < MaxBuffers
  /\ Flush(pending, rx_chains + 1)
  /\ UNCHANGED <<conn, device, guest, to_host, reset_count, budget>>

-----------------------------------------------------------------------------
(***************************************************************************)
(* The host's side of a connection, as functions of its record k.          *)
(***************************************************************************)
WakeWriter(k) == [k EXCEPT !.writer = IF @ = "parked" THEN "ready" ELSE @]
WakeReader(k, chunk) == [k EXCEPT !.reader = "resumed", !.chunk = chunk]

ClosedFromPeer(k) ==
  IF k.closed THEN k
  ELSE [WakeWriter(IF k.reader = "parked" THEN WakeReader(k, NoBytes) ELSE k)
          EXCEPT !.closed = TRUE]

(* Taken out of #connections: a connect that has no answer yet is rejected.*)
Ended(k) ==
  [ClosedFromPeer(k) EXCEPT !.listed = FALSE, !.timer = FALSE,
     !.promise = IF @ = "pending" THEN "rejected" ELSE @]

UpdateCredit(k, p) ==
  WakeWriter([k EXCEPT !.peer_buf_alloc = GuestAlloc, !.peer_fwd_cnt = p.fwd])

Enqueue(k, chunk) ==
  IF k.closed \/ chunk.n = 0 THEN k
  ELSE IF k.reader = "parked" THEN WakeReader(k, chunk)
       ELSE [k EXCEPT !.read_buffer = Append(@, chunk)]

(* read_chunk: from the buffer, or the end, or wait for one of them.       *)
ReadChunk(k) ==
  IF k.read_buffer # <<>>
  THEN [WakeReader(k, Head(k.read_buffer)) EXCEPT !.read_buffer = Tail(@)]
  ELSE IF k.closed THEN WakeReader(k, NoBytes)
       ELSE [k EXCEPT !.reader = "parked"]

-----------------------------------------------------------------------------
(***************************************************************************)
(* connect(), its timeout, and the packets of a transmit kick.             *)
(***************************************************************************)
Connect(c) ==
  /\ device = "running" /\ conn[c].promise = "none"
  /\ \A d \in 1 .. c - 1 : conn[d].promise # "none"
  /\ conn' = [conn EXCEPT ![c] =
                [@ EXCEPT !.promise = "pending", !.listed = TRUE, !.timer = TRUE]]
  /\ Send(<<Signal(c, "REQUEST")>>)
  /\ UNCHANGED <<device, guest, to_host, reset_count, budget>>

Timeout(c) ==
  /\ conn[c].timer
  /\ Send(<<Signal(c, "RST")>>)
  /\ conn' = [conn EXCEPT ![c] = [Ended(@) EXCEPT !.abandoned = TRUE]]
  /\ UNCHANGED <<device, guest, to_host, reset_count, budget>>

(* A packet of a connection that is not in the table is dropped; another   *)
(* updates its credit and leaves the connection as k.                      *)
TakePacket(p) ==
  /\ device = "running" /\ to_host # <<>> /\ p = Head(to_host)
  /\ to_host' = Tail(to_host)
  /\ UNCHANGED <<device, guest, reset_count, budget>>

ReceiveUnknown(p) ==
  TakePacket(p) /\ ~conn[p.port].listed /\ SendNothing /\ UNCHANGED conn

Receive(p, op, k) ==
  /\ TakePacket(p) /\ p.op = op /\ conn[p.port].listed
  /\ conn' = [conn EXCEPT ![p.port] = k]

Credited(p) == UpdateCredit(conn[p.port], p)

ReceiveResponse(p) ==
  /\ Receive(p, "RESPONSE", [Credited(p) EXCEPT !.promise = "resolved", !.timer = FALSE])
  /\ SendNothing

ReceiveData(p) ==
  Receive(p, "RW", Enqueue(Credited(p), Chunk(p.from, p.n))) /\ SendNothing

ReceiveCreditUpdate(p) == Receive(p, "CREDIT_UPDATE", Credited(p)) /\ SendNothing

ReceiveCreditRequest(p) ==
  Receive(p, "CREDIT_REQUEST", Credited(p)) /\ Send(<<Signal(p.port, "CREDIT_UPDATE")>>)

ReceiveShutdown(p) ==
  Receive(p, "SHUTDOWN", Ended(Credited(p))) /\ Send(<<Signal(p.port, "RST")>>)

ReceiveRst(p) == Receive(p, "RST", Ended(Credited(p))) /\ SendNothing

-----------------------------------------------------------------------------
(***************************************************************************)
(* read(), readExactly(), write() and close() of a connection.             *)
(***************************************************************************)
Turn(c, k) ==
  /\ conn' = [conn EXCEPT ![c] = k]
  /\ UNCHANGED <<device, guest, to_host, reset_count>>

Read(c, length) ==
  /\ conn[c].promise = "resolved" /\ conn[c].reader = "idle"
  /\ Turn(c, ReadChunk([conn[c] EXCEPT !.left = length]))
  /\ SendNothing
  /\ UNCHANGED budget

TellsPeerLate(k, n) ==   \* fault: only when more than all the room was read
  Wrap(k.bytes_read + n - k.last_credit_update) > DEFAULT_VSOCK_BUF_ALLOC

(* consume: the peer is told once a quarter of the room has been read.     *)
TellsPeer(k, n) ==
  4 * Wrap(k.bytes_read + n - k.last_credit_update) >= DEFAULT_VSOCK_BUF_ALLOC

Consumed(k, n) ==
  LET read == Wrap(k.bytes_read + n) IN
    [k EXCEPT !.bytes_read = read,
              !.last_credit_update = IF TellsPeer(k, n) THEN read ELSE @]

GiveBackLast(k, rest) ==   \* fault: behind the chunks that came after it
  [k EXCEPT !.read_buffer = Append(@, rest)]

(* readExactly gives back what it does not want.                           *)
GiveBack(k, rest) == [k EXCEPT !.read_buffer = <<rest>> \o @]

(* It goes on until it has what it wants, or the stream ends.              *)
ReadResumes(c) ==
  LET k == conn[c]
      n == IF k.left = 0 THEN k.chunk.n ELSE Least(k.chunk.n, k.left)
      read == [Consumed(k, n) EXCEPT !.reader = "idle", !.chunk = NoBytes, !.left = 0]
      rest == Chunk(Wrap(k.chunk.from + n), k.chunk.n - n)
  IN
  /\ k.reader = "resumed"
  /\ Turn(c, IF rest.n > 0 THEN GiveBack(read, rest)
             ELSE IF n > 0 /\ n < k.left THEN ReadChunk([read EXCEPT !.left = k.left - n])
             ELSE read)
  /\ IF TellsPeer(k, n)
     THEN OpsSend(c, <<Packet(c, "CREDIT_UPDATE", NoBytes, read.bytes_read)>>)
     ELSE SendNothing
  /\ UNCHANGED budget

Write(c, n) ==
  /\ conn[c].promise = "resolved" /\ conn[c].writer = "idle" /\ n <= budget.host
  /\ Turn(c, [conn[c] EXCEPT !.writer = "ready", !.unwritten = n])
  /\ budget' = [budget EXCEPT !.host = @ - n]
  /\ SendNothing

Room(alloc, used) == IF used < alloc THEN alloc - used ELSE 0

Available(k) == Room(k.peer_buf_alloc, Wrap(k.bytes_written - k.peer_fwd_cnt))

(* The packets of the next n bytes.                                        *)
DataPackets(c, n) ==
  [i \in 1 .. (n + MAX_VSOCK_PAYLOAD - 1) \div MAX_VSOCK_PAYLOAD |->
     LET sent == (i - 1) * MAX_VSOCK_PAYLOAD IN
       Packet(c, "RW", Chunk(Wrap(conn[c].bytes_written + sent),
                             Least(MAX_VSOCK_PAYLOAD, n - sent)),
              conn[c].bytes_read)]

WriteFails(c) ==
  /\ conn[c].writer = "ready" /\ conn[c].closed
  /\ Turn(c, [conn[c] EXCEPT !.writer = "idle", !.unwritten = 0])
  /\ SendNothing
  /\ UNCHANGED budget

(* write_serialized sends until it is done or out of credit.               *)
WriteProceeds(c) ==
  LET k == conn[c]
      n == Least(Available(k), k.unwritten)
  IN
  /\ k.writer = "ready" /\ ~k.closed
  /\ Turn(c, [k EXCEPT !.bytes_written = Wrap(@ + n), !.unwritten = @ - n,
                       !.writer = IF n < k.unwritten THEN "parked" ELSE "idle"])
  /\ OpsSend(c, DataPackets(c, n))
  /\ UNCHANGED budget

Close(c) ==
  /\ conn[c].promise = "resolved" /\ ~conn[c].closed
  /\ IF conn[c].listed THEN Send(<<Signal(c, "SHUTDOWN")>>) ELSE SendNothing
  /\ Turn(c, [ClosedFromPeer(conn[c]) EXCEPT !.abandoned = TRUE])
  /\ UNCHANGED budget

-----------------------------------------------------------------------------
(***************************************************************************)
(* The device: reset by the guest's driver, shut down by the host.         *)
(***************************************************************************)
AllEnded ==
  conn' = [c \in PortNumbers |-> IF conn[c].listed THEN [Ended(conn[c]) EXCEPT !.abandoned = TRUE]
                           ELSE conn[c]]

(* The driver comes back with empty queues and no connections.             *)
Reset ==
  /\ device = "running" /\ reset_count < MaxResets
  /\ reset_count' = reset_count + 1
  /\ AllEnded
  /\ pending' = <<>> /\ rx_chains' = 0 /\ to_guest' = <<>> /\ to_host' = <<>>
  /\ guest' = [c \in PortNumbers |-> [guest[c] EXCEPT !.state = IF @ = "none" THEN @ ELSE "gone"]]
  /\ UNCHANGED <<device, budget>>

Stop ==
  /\ device = "running"
  /\ device' = "stopped"
  /\ UNCHANGED <<conn, pending, rx_chains, guest, to_guest, to_host, reset_count, budget>>

CloseDevice ==
  LET listed == SelectSeq([c \in PortNumbers |-> c], LAMBDA c : conn[c].listed)
      packets == pending \o [i \in 1 .. Len(listed) |-> Signal(listed[i], "RST")]
      n == Least(Len(packets), rx_chains)
  IN
  /\ device = "stopped"
  /\ device' = "closed"
  /\ AllEnded
  /\ to_guest' = to_guest \o SubSeq(packets, 1, n)
  /\ pending' = SubSeq(packets, n + 1, Len(packets))
  /\ rx_chains' = 0
  /\ UNCHANGED <<guest, to_host, reset_count, budget>>

-----------------------------------------------------------------------------
(***************************************************************************)
(* Linux and its programs (external).  A device that is stopped ignores    *)
(* its guest, which is then left alone.                                    *)
(***************************************************************************)
GuestStep(c, g, packets) ==
  /\ device = "running"
  /\ guest' = [guest EXCEPT ![c] = g]
  /\ to_host' = to_host \o packets
  /\ UNCHANGED <<conn, pending, rx_chains, device, reset_count>>

GuestSignal(c, op, fwd) == <<Packet(c, op, NoBytes, fwd)>>

(* The next packet, which finds the connection in one of these states.     *)
GuestTakes(p, op, states) ==
  /\ to_guest # <<>> /\ p = Head(to_guest) /\ p.op = op /\ guest[p.port].state \in states
  /\ to_guest' = Tail(to_guest)
  /\ UNCHANGED budget

GuestAccepts(p) ==
  /\ GuestTakes(p, "REQUEST", {"none"})
  /\ GuestStep(p.port, [guest[p.port] EXCEPT !.state = "open", !.peer_fwd = p.fwd],
               GuestSignal(p.port, "RESPONSE", 0))

GuestRefuses(p) ==
  /\ GuestTakes(p, "REQUEST", {"none"})
  /\ GuestStep(p.port, [guest[p.port] EXCEPT !.state = "gone"],
               GuestSignal(p.port, "RST", 0))

GuestData(p) ==
  /\ GuestTakes(p, "RW", {"open"})
  /\ GuestStep(p.port, [guest[p.port] EXCEPT !.rcvd = Wrap(@ + p.n), !.peer_fwd = p.fwd],
               <<>>)

GuestCredit(p) ==
  /\ GuestTakes(p, "CREDIT_UPDATE", {"open", "half", "closing"})
  /\ GuestStep(p.port, [guest[p.port] EXCEPT !.peer_fwd = p.fwd], <<>>)

(* With data its program has not read, the guest's end stays half open.    *)
GuestShutdown(p) ==
  LET g == guest[p.port] IN
  /\ GuestTakes(p, "SHUTDOWN", {"open"})
  /\ GuestStep(p.port, [g EXCEPT !.state = IF g.rcvd # g.fwd THEN "half" ELSE "gone"],
               IF g.rcvd # g.fwd THEN <<>> ELSE GuestSignal(p.port, "RST", g.fwd))

GuestRst(p) ==
  /\ GuestTakes(p, "RST", {"open", "half", "closing", "gone"})
  /\ GuestStep(p.port, [guest[p.port] EXCEPT !.state = "gone"], <<>>)

(* What comes after its program closed is ignored, and is refused when the *)
(* connection is no more.                                                  *)
GuestLate(p) ==
  \/ /\ GuestTakes(p, p.op, {"closing"}) /\ p.op \in {"RW", "SHUTDOWN"}
     /\ GuestStep(p.port, guest[p.port], <<>>)
  \/ /\ GuestTakes(p, p.op, {"gone"}) /\ p.op # "RST"
     /\ GuestStep(p.port, guest[p.port], GuestSignal(p.port, "RST", guest[p.port].fwd))

(* Linux tells the host once less than a quarter of the room is left by    *)
(* what the host knows.                                                    *)
GuestReads(c, n) ==
  LET g == guest[c]
      fwd == Wrap(g.fwd + n)
      tells == 4 * (GuestAlloc - Wrap(fwd - g.last_fwd)) < GuestAlloc
  IN
  /\ g.state \in {"open", "half"} /\ n <= Wrap(g.rcvd - g.fwd)
  /\ GuestStep(c, [g EXCEPT !.fwd = fwd, !.last_fwd = IF tells THEN fwd ELSE @],
               IF tells THEN GuestSignal(c, "CREDIT_UPDATE", fwd) ELSE <<>>)
  /\ UNCHANGED <<to_guest, budget>>

GuestCreditLeft(c) == DEFAULT_VSOCK_BUF_ALLOC - Wrap(guest[c].tx - guest[c].peer_fwd)

GuestWrites(c, n) ==
  LET g == guest[c] IN
  /\ g.state = "open" /\ n <= GuestCreditLeft(c) /\ n <= budget.guest
  /\ GuestStep(c, [g EXCEPT !.tx = Wrap(@ + n), !.last_fwd = g.fwd],
               <<Packet(c, "RW", Chunk(g.tx, n), g.fwd)>>)
  /\ budget' = [budget EXCEPT !.guest = @ - n]
  /\ UNCHANGED to_guest

(* Only when no other packet is on its way: a bound.                       *)
GuestAsks(c) ==
  LET g == guest[c] IN
  /\ g.state = "open" /\ GuestCreditLeft(c) = 0
  /\ to_host = <<>> /\ to_guest = <<>> /\ pending = <<>>
  /\ GuestStep(c, [g EXCEPT !.last_fwd = g.fwd], GuestSignal(c, "CREDIT_REQUEST", g.fwd))
  /\ UNCHANGED <<to_guest, budget>>

GuestCloses(c) ==
  LET g == guest[c] IN
  /\ \/ /\ g.state = "open"
        /\ GuestStep(c, [g EXCEPT !.state = "closing"], GuestSignal(c, "SHUTDOWN", g.fwd))
     \/ /\ g.state = "half"
        /\ GuestStep(c, [g EXCEPT !.state = "gone"], GuestSignal(c, "RST", g.fwd))
  /\ UNCHANGED <<to_guest, budget>>

-----------------------------------------------------------------------------
HandleTxPacket ==
  \E i \in 1 .. Len(to_host) : LET p == to_host[i] IN
    \/ ReceiveUnknown(p) \/ ReceiveResponse(p) \/ ReceiveData(p)
    \/ ReceiveCreditUpdate(p) \/ ReceiveCreditRequest(p)
    \/ ReceiveShutdown(p) \/ ReceiveRst(p)

HostCall(c) ==
  \/ Connect(c)
  \/ \E n \in 0 .. MaxTransfer : Read(c, n)
  \/ \E n \in 1 .. MaxTransfer : Write(c, n)
  \/ Close(c)

GuestReceive ==
  \E i \in 1 .. Len(to_guest) : LET p == to_guest[i] IN
    \/ GuestAccepts(p) \/ GuestRefuses(p) \/ GuestData(p) \/ GuestCredit(p)
    \/ GuestShutdown(p) \/ GuestRst(p) \/ GuestLate(p)

GuestProgram(c) ==
  \/ \E n \in 1 .. MaxTransfer : GuestReads(c, n) \/ GuestWrites(c, n)
  \/ GuestAsks(c)
  \/ GuestCloses(c)

Next ==
  \/ PostBuffer
  \/ HandleTxPacket
  \/ \E c \in PortNumbers :
       \/ HostCall(c) \/ Timeout(c)
       \/ ReadResumes(c) \/ WriteFails(c) \/ WriteProceeds(c)
       \/ GuestProgram(c)
  \/ Reset
  \/ Stop
  \/ CloseDevice
  \/ GuestReceive

Spec == Init /\ [][Next]_vars

(* Fairness: event loop and timers run; Linux refills its receive queue    *)
(* and handles packets; programs on both sides read what they are sent,    *)
(* and the guest's closes a socket it has read to the end.  Nobody need    *)
(* write, connect or close.                                                *)
Fairness ==
  /\ WF_vars(PostBuffer) /\ WF_vars(HandleTxPacket)
  /\ WF_vars(GuestReceive) /\ WF_vars(CloseDevice)
  /\ \A c \in PortNumbers :
       /\ WF_vars(ReadResumes(c)) /\ WF_vars(WriteFails(c) \/ WriteProceeds(c))
       /\ WF_vars(\E n \in 0 .. MaxTransfer : Read(c, n)) /\ WF_vars(Timeout(c))
       /\ WF_vars(\E n \in 1 .. MaxTransfer : GuestReads(c, n))
       /\ WF_vars(guest[c].state = "half" /\ GuestCloses(c))

-----------------------------------------------------------------------------
(***************************************************************************)
(* Properties.                                                             *)
(***************************************************************************)
ChunkType == [from: Counter, n: Nat]
PacketType ==
  [port: PortNumbers, op: {"REQUEST", "RESPONSE", "RST", "SHUTDOWN", "RW", "CREDIT_UPDATE",
                     "CREDIT_REQUEST"},
   from: Counter, n: Nat, fwd: Counter]

(* Counters wrap, and buffers and queues hold chunks and packets.          *)
TypeOK ==
  /\ conn \in [PortNumbers ->
       [promise: {"none", "pending", "resolved", "rejected"},
        listed: BOOLEAN, timer: BOOLEAN, closed: BOOLEAN, abandoned: BOOLEAN,
        bytes_read: Counter, bytes_written: Counter, last_credit_update: Counter,
        peer_buf_alloc: Nat, peer_fwd_cnt: Counter, read_buffer: Seq(ChunkType),
        reader: {"idle", "parked", "resumed"}, chunk: ChunkType, left: Nat,
        writer: {"idle", "parked", "ready"}, unwritten: Nat]]
  /\ guest \in [PortNumbers ->
       [state: {"none", "open", "half", "closing", "gone"}, tx: Counter, rcvd: Counter,
        fwd: Counter, last_fwd: Counter, peer_fwd: Counter]]
  /\ pending \in Seq(PacketType) /\ to_guest \in Seq(PacketType)
  /\ to_host \in Seq(PacketType)
  /\ rx_chains \in Nat /\ reset_count \in Nat /\ budget \in [host: Nat, guest: Nat]
  /\ device \in {"running", "stopped", "closed"}

(* The chunks are the bytes from one count to the other, in order, once.   *)
Covers(chunks, first, end) ==
  LET after(i) == IF i = 0 THEN first ELSE Wrap(chunks[i].from + chunks[i].n) IN
    /\ \A i \in 1 .. Len(chunks) : chunks[i].from = after(i - 1)
    /\ end = after(Len(chunks))

Data(c, packets) == SelectSeq(packets, LAMBDA p : p.port = c /\ p.op = "RW")
InHand(k) == IF k.chunk.n = 0 THEN <<>> ELSE <<k.chunk>>
Open(c) == guest[c].state \in {"open", "half"} /\ device = "running"

(* Between the two ends of a stream there is exactly what was written and  *)
(* not yet read, in order: nothing lost, repeated or exchanged by buffers  *)
(* that run out, partial reads or a connection closed behind the data.     *)
StreamsWhole ==
  \A c \in PortNumbers : LET k == conn[c] IN
    /\ ~k.abandoned =>
         Covers(InHand(k) \o k.read_buffer \o Data(c, to_host), k.bytes_read, guest[c].tx)
    /\ Open(c) => Covers(Data(c, to_guest \o pending), guest[c].rcvd, k.bytes_written)

(* Neither side is sent more than it has room for, also when the counters  *)
(* have wrapped.                                                           *)
RoomKept ==
  \A c \in PortNumbers : LET k == conn[c] IN
    /\ ~k.abandoned => Wrap(guest[c].tx - k.bytes_read) <= DEFAULT_VSOCK_BUF_ALLOC
    /\ Open(c) => Wrap(k.bytes_written - guest[c].fwd) <= GuestAlloc

(* Whoever waits can still be reached: a connect has its timer, and a      *)
(* connection that is open, or that somebody reads or writes, is in the    *)
(* table where the guest's packets, a reset and a shutdown find it.        *)
NobodyStranded ==
  \A c \in PortNumbers : LET k == conn[c] IN
    /\ (k.promise = "pending") <=> k.timer
    /\ k.promise \in {"pending", "resolved"} /\ ~k.closed => k.listed
    /\ k.reader = "parked" \/ k.writer = "parked" => ~k.closed

(* A connection is sound at both its ends, through wrapping counters, full *)
(* buffers, timeouts, crossing closes, reset and shutdown.                 *)
ConnectionSound == StreamsWhole /\ RoomKept /\ NobodyStranded

(* Credit comes back: a write ends, and a guest that has used up its room  *)
(* gets more, as long as the other side reads.                             *)
CreditReturns ==
  \A c \in PortNumbers :
    /\ []<>(conn[c].writer = "idle")
    /\ []<>(GuestCreditLeft(c) > 0 \/ guest[c].state # "open" \/ device # "running")

(* No half-open connections: a connection one side has given up is given   *)
(* up by the other, unless the device is shut down.  Neither is taken up   *)
(* again.                                                                  *)
HalfOpenEnds ==
  \A c \in PortNumbers :
    /\ []<>(conn[c].closed => ~conn[c].listed)
    /\ []<>(conn[c].listed \/ guest[c].state \in {"none", "gone"} \/ device # "running")

(* A connection that is used goes on, and one that is given up ends.       *)
ConnectionProgress == CreditReturns /\ HalfOpenEnds
=============================================================================
