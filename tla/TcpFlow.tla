------------------------------ MODULE TcpFlow ------------------------------
(***************************************************************************)
(* One TCP connection between the host and a guest: the TCP endpoint of    *)
(* packages/linux-guest/src/network.ts.  The host opens it with connect(), *)
(* or the guest does and a connectTcp handler serves it; the handler's     *)
(* first read, write or close answers the guest's SYN ("activation").      *)
(*                                                                         *)
(* The endpoint sends one segment at a time and repeats none: whatever it  *)
(* waits for has a timer, or the guest's window, to end it.  Sequence      *)
(* numbers are compared for equality only, so they are naturals here, with *)
(* the SYN of either side at 0; byte i of a stream is known by its number. *)
(*                                                                         *)
(* A send returns when the guest's NIC takes the frame.  When the NIC is   *)
(* behind (net.ts, RECEIVE_BACKLOG) the frame is held and the sender waits,*)
(* or the frame is lost (MAX_PENDING_FRAMES) and the sender goes on.       *)
(*                                                                         *)
(* The guest is Linux (external), which repeats what is not acknowledged.  *)
(* Reads and writes are those of pipeTo: one at a time, and a handler ends *)
(* when its calls have.  receive_tail handles one segment at a time; the   *)
(* segments waiting in it are here those of to_host, and the calls of      *)
(* update_tcp_window waiting in it are one flag, update_due.               *)
(* One flow per behaviour: a SYN that is repeated after its flow was       *)
(* closed, which would start another, is ignored.  Programs write in one   *)
(* direction per behaviour (Init).                                         *)
(*                                                                         *)
(* A definition marked `fault' is a slip this code could have had, used by *)
(* no action: it shows which property would notice it.                     *)
(***************************************************************************)
EXTENDS Integers, Sequences

CONSTANTS
  TCP_MSS, TCP_RECEIVE_WINDOW,
  GuestRoom,                    (* receive buffer of the guest's socket     *)
  MaxHostBytes, MaxGuestBytes,  (* bounds: bytes written by either side     *)
  MaxBehind,                    (* bound: times the guest's NIC is behind   *)
  MaxLost                       (* bound: frames lost                       *)

ASSUME TcpAssumption ==
  /\ TCP_MSS \in Nat \ {0} /\ TCP_RECEIVE_WINDOW \in Nat \ {0} /\ GuestRoom \in Nat \ {0}
  /\ MaxHostBytes \in Nat /\ MaxGuestBytes \in Nat
  /\ MaxBehind \in Nat /\ MaxLost \in Nat

VARIABLES
  flow,       (* the TcpFlow with its streams and the calls made on them    *)
  held,       (* frames that wait in the guest's NIC, and who awaits them   *)
  to_guest,   (* frames in the guest's receive buffers                      *)
  to_host,    (* segments sent by the guest                                 *)
  guest,      (* the guest's socket                                         *)
  sent,       (* history: bytes the host has sent, and wrote successfully   *)
  behind,     (* history: times the guest's NIC fell behind                 *)
  lost,       (* history: frames lost                                       *)
  stale       (* history: a frame was sent with the sequence number of one  *)
              (* that was still held                                        *)

vars == <<flow, held, to_guest, to_host, guest, sent, behind, lost, stale>>

Least(x, y) == IF x <= y THEN x ELSE y
Most(x, y) == IF x <= y THEN y ELSE x

-----------------------------------------------------------------------------
(***************************************************************************)
(* State.                                                                  *)
(***************************************************************************)
WriterCalls == {"write", "fin"}

(* A call of send_tcp_data or send_tcp_fin: `ack' is its AckWaiter, `want' *)
(* the acknowledgement this one waits for, `length' that of its segment.   *)
NoCall == [state |-> "idle", ack |-> "none", want |-> 0, left |-> 0, length |-> 0]

(* `promise' is the answer to connect(), or what became of the handler;    *)
(* `tail' what receive_tail does after the frame it is sending; `queue'    *)
(* the bytes given to the readable stream, `taken' how many were read.     *)
NoFlow ==
  [phase |-> "none", by |-> "host", promise |-> "none", timer |-> FALSE,
   established |-> FALSE, local_ended |-> FALSE, remote_ended |-> FALSE,
   send_sequence |-> 0, receive_sequence |-> 0,
   advertised_window |-> TCP_RECEIVE_WINDOW, peer_window |-> 0,
   activation |-> "none", receive_demand |-> FALSE,
   tail |-> "idle", update_due |-> FALSE,
   readable |-> "none", queue |-> <<>>, taken |-> 0,
   reading |-> FALSE, pulling |-> FALSE, supervised |-> FALSE,
   call |-> [s \in WriterCalls |-> NoCall]]

(* Linux: what was sent and is acknowledged, how far the host's window     *)
(* reaches, what is received, and how much of it the program has read.     *)
NoSocket ==
  [state |-> "none", wrote |-> 0, closing |-> FALSE, next |-> 0, una |-> 0, edge |-> 0,
   received |-> 0, got |-> <<>>, read |-> 0, eof |-> FALSE]

(* A socket that is no more keeps its history.                              *)
Gone(g, state) == [NoSocket EXCEPT !.state = state, !.wrote = g.wrote, !.got = g.got, !.eof = g.eof]

Init ==
  /\ flow = NoFlow
  /\ held = <<>> /\ to_guest = <<>> /\ to_host = <<>>
  /\ \E state \in {"none", "listen"}, closing \in BOOLEAN, w \in {0, MaxGuestBytes} :
       guest = [NoSocket EXCEPT !.state = state, !.wrote = w, !.closing = closing]
  /\ sent = [bytes |-> 0, written |-> 0, budget |-> IF guest.wrote = 0 THEN MaxHostBytes ELSE 0]
  /\ behind = 0 /\ lost = 0 /\ stale = FALSE

-----------------------------------------------------------------------------
(***************************************************************************)
(* Sending: send_ip, the switch and the guest's NIC.                       *)
(***************************************************************************)
Queued(f) == Len(f.queue) - f.taken
HighWaterMark(f) == IF f.by = "host" THEN TCP_RECEIVE_WINDOW ELSE 0
DesiredSize(f) ==
  IF f.readable = "open" \/ (f.readable = "closed" /\ Queued(f) > 0)
  THEN HighWaterMark(f) - Queued(f) ELSE 0

tcp_receive_window(f) ==
  IF f.readable = "none" THEN TCP_RECEIVE_WINDOW
  ELSE IF f.activation # "none" THEN (IF f.receive_demand THEN TCP_RECEIVE_WINDOW ELSE 0)
  ELSE Most(0, Least(TCP_RECEIVE_WINDOW, DesiredSize(f)))

Segment(f, op, n) ==
  [op |-> op, seq |-> f.send_sequence, ack |-> f.receive_sequence,
   win |-> tcp_receive_window(f), from |-> IF n > 0 THEN sent.bytes + 1 ELSE 0, n |-> n]

CallsSettled(f, ok) ==
  [s \in WriterCalls |-> IF f.call[s].state # "activating" THEN f.call[s]
                   ELSE IF ok THEN [f.call[s] EXCEPT !.state = "start"]
                   ELSE [NoCall EXCEPT !.state = "failed"]]

SettledOnly(f, ok) ==   \* fault: the pull does not go on to open the window
  [f EXCEPT !.activation = IF ok THEN "done" ELSE "failed",
            !.pulling = FALSE, !.call = CallsSettled(f, ok)]

(* The activation is settled: a pull and the calls that await it go on.    *)
Settled(f, ok) ==
  [f EXCEPT !.activation = IF ok THEN "done" ELSE "failed",
            !.pulling = FALSE, !.update_due = @ \/ (ok /\ f.pulling),
            !.call = CallsSettled(f, ok)]

(* Waiters that a closing flow rejects.  A call that still awaits its send *)
(* learns of it when the send returns.                                     *)
RejectCall(c) ==
  IF c.state = "parked" THEN [NoCall EXCEPT !.state = "failed"]
  ELSE [c EXCEPT !.ack = IF @ = "waiting" THEN "rejected" ELSE @]

close_tcp_flow(f, error) ==
  IF f.phase # "open" THEN f
  ELSE LET g == IF f.activation = "waiting" THEN Settled(f, FALSE) ELSE f IN
       [g EXCEPT !.phase = "closed", !.timer = FALSE,
          !.call = [s \in WriterCalls |-> RejectCall(g.call[s])],
          !.activation = IF @ = "sending" THEN "doomed" ELSE @,
          !.readable = IF @ # "open" THEN @ ELSE IF error THEN "errored" ELSE "closed",
          !.reading = IF f.readable = "open" THEN FALSE ELSE @,
          !.promise = IF f.by = "host" /\ @ = "pending" THEN "rejected" ELSE @]

(* What follows a send.                                                    *)
AfterCall(f, s) ==
  [f EXCEPT !.send_sequence = f.call[s].want, !.call[s].state = "acking"]

AfterSynAck(f) ==
  LET g == [f EXCEPT !.send_sequence = @ + 1] IN
    CASE f.activation = "doomed" -> Settled(g, FALSE)
      [] f.activation = "late" -> [g EXCEPT !.activation = "orphaned"]
      [] OTHER -> [g EXCEPT !.activation = "waiting"]

Opened(f) ==
  [f EXCEPT !.tail = "idle", !.readable = IF f.promise = "pending" THEN "open" ELSE @,
            !.promise = IF @ = "pending" THEN "resolved" ELSE @]

CheckEnded(f) ==
  LET g == [f EXCEPT !.tail = "idle"] IN
    IF g.local_ended /\ g.remote_ended /\ \A s \in WriterCalls : g.call[s].ack # "waiting"
    THEN close_tcp_flow(g, FALSE) ELSE g

After(f, who) ==
  CASE who \in WriterCalls -> AfterCall(f, who)
    [] who = "activate" -> AfterSynAck(f)
    [] who = "open" -> Opened(f)
    [] who = "check" -> CheckEnded(f)
    [] who = "ack" -> [f EXCEPT !.tail = "idle"]
    [] OTHER -> f

(* The frame reaches the guest, waits, or is dropped by a NIC that is full *)
(* (also of frames that are not of this connection).                       *)
Emit(f, segment, who) ==
  LET g == [f EXCEPT !.advertised_window = segment.win] IN
  /\ \/ /\ held = <<>>
        /\ flow' = After(g, who) /\ to_guest' = Append(to_guest, segment)
        /\ UNCHANGED <<held, behind, lost>>
     \/ /\ held # <<>> \/ behind < MaxBehind
        /\ behind' = IF held = <<>> THEN behind + 1 ELSE behind
        /\ flow' = g /\ held' = Append(held, [segment |-> segment, who |-> who])
        /\ UNCHANGED <<to_guest, lost>>
     \/ /\ lost < MaxLost
        /\ flow' = After(g, who) /\ lost' = lost + 1
        /\ UNCHANGED <<held, to_guest, behind>>
  /\ stale' = (stale \/ \E i \in 1 .. Len(held) : held[i].who \in WriterCalls \cup {"activate"})

EmitNothing(f) == flow' = f /\ UNCHANGED <<held, to_guest, behind, lost, stale>>

(* The guest posts a receive buffer for the frame.                         *)
Deliver ==
  /\ held # <<>>
  /\ to_guest' = Append(to_guest, Head(held).segment)
  /\ flow' = After(flow, Head(held).who)
  /\ held' = Tail(held)
  /\ UNCHANGED <<to_host, guest, sent, behind, lost, stale>>

-----------------------------------------------------------------------------
(***************************************************************************)
(* Opening and ending a flow.                                              *)
(***************************************************************************)
connect_tcp ==
  LET f == [NoFlow EXCEPT !.phase = "open", !.promise = "pending", !.timer = TRUE,
                          !.send_sequence = 1] IN
  /\ flow.phase = "none" /\ guest.state \in {"none", "listen"}
  /\ Emit(f, [Segment(f, "SYN", 0) EXCEPT !.seq = 0], "nobody")
  /\ UNCHANGED <<to_host, guest, sent>>

abort_tcp_flow(f, error) ==
  IF f.phase # "open" THEN EmitNothing(f)
  ELSE Emit(close_tcp_flow(f, error), Segment(f, "RST", 0), "nobody")

(* close() of the connection, an aborted signal or stream, a guest that is *)
(* detached, a network that is closed.                                     *)
Abort(error) ==
  /\ flow.phase = "open"
  /\ error \/ (flow.by = "host" /\ flow.promise = "resolved")
  /\ abort_tcp_flow(flow, error)
  /\ UNCHANGED <<to_host, guest, sent>>

HandshakeTimeout ==
  /\ flow.timer
  /\ abort_tcp_flow(flow, TRUE)
  /\ UNCHANGED <<to_host, guest, sent>>

(* A SYN of the guest starts the handler.                                  *)
start_outbound_tcp(p) ==
  [NoFlow EXCEPT !.phase = "open", !.by = "guest", !.promise = "pending", !.timer = TRUE,
                 !.receive_sequence = p.seq + 1, !.peer_window = p.win, !.readable = "open"]

(* Like an abort, to a guest that compares only the acknowledgement.        *)
reject_outbound_tcp(f) == Emit(close_tcp_flow(f, TRUE), Segment(f, "RST", 0), "nobody")

Serving == flow.by = "guest" /\ flow.promise = "pending"
Busy(c) == c.state \notin {"idle", "done", "failed"}

HandlerReturns ==
  LET f == [flow EXCEPT !.promise = "resolved"] IN
  /\ Serving /\ ~flow.reading /\ \A s \in WriterCalls : ~Busy(flow.call[s])
  /\ flow.activation \in {"none", "done"}
  /\ IF flow.phase = "closed" THEN EmitNothing(f)
     ELSE IF flow.activation = "none" THEN reject_outbound_tcp(f)
     ELSE EmitNothing(IF f.local_ended THEN f
                      ELSE [f EXCEPT !.supervised = TRUE, !.call["fin"].state = "start"])
  /\ UNCHANGED <<to_host, guest, sent>>

HandlerThrows ==
  LET f == [flow EXCEPT !.promise = "rejected"] IN
  /\ Serving
  /\ IF flow.phase = "open" /\ flow.activation = "none"
     THEN reject_outbound_tcp(f)
     ELSE abort_tcp_flow(f, TRUE)
  /\ UNCHANGED <<to_host, guest, sent>>

-----------------------------------------------------------------------------
(***************************************************************************)
(* The streams: reads, writes and the close of the writable stream.        *)
(***************************************************************************)
CanUse == IF flow.by = "host" THEN flow.promise = "resolved" ELSE Serving

(* activate(): SYN-ACK, unless it was sent.  On a flow that is closed by   *)
(* then nobody is left to settle the waiter.                               *)
Activate(f) ==
  IF f.by = "guest" /\ f.activation = "none"
  THEN Emit([f EXCEPT !.activation = IF f.phase = "closed" THEN "late" ELSE "sending"],
            Segment(f, "SYNACK", 0), "activate")
  ELSE EmitNothing(f)

(* A stream below its high-water mark calls pull(), which ends in          *)
(* update_tcp_window.                                                      *)
PullIfBelow(f) ==
  IF f.readable = "open" /\ DesiredSize(f) > 0 THEN [f EXCEPT !.update_due = TRUE] ELSE f

ReadQueued ==
  /\ CanUse /\ ~flow.reading /\ Queued(flow) > 0 /\ flow.readable # "errored"
  /\ EmitNothing(PullIfBelow([flow EXCEPT !.taken = @ + 1]))
  /\ UNCHANGED <<to_host, guest, sent>>

Activated == flow.by = "host" \/ flow.activation = "done"

(* pull() wants a segment, and awaits the activation.                      *)
ReadWaits ==
  /\ CanUse /\ ~flow.reading /\ Queued(flow) = 0 /\ flow.readable = "open"
  /\ Activate([flow EXCEPT !.reading = TRUE, !.receive_demand = TRUE,
                           !.pulling = ~Activated, !.update_due = @ \/ Activated])
  /\ UNCHANGED <<to_host, guest, sent>>

CallBegins(s, n) ==
  /\ CanUse /\ flow.call["fin"].state = "idle" /\ flow.call["write"].state = "idle"
  /\ Activate([flow EXCEPT !.call[s] =
                 CASE Activated -> [NoCall EXCEPT !.state = "start", !.left = n]
                   [] flow.activation = "failed" -> [NoCall EXCEPT !.state = "failed"]
                   [] OTHER -> [NoCall EXCEPT !.state = "activating", !.left = n]])
  /\ UNCHANGED <<to_host, guest, sent>>

Write(n) == sent.bytes + n <= sent.budget /\ CallBegins("write", n)
Close == CallBegins("fin", 0)

Fails(s) ==
  LET f == [flow EXCEPT !.call[s] = [NoCall EXCEPT !.state = "failed"]] IN
    IF s = "fin" /\ f.supervised THEN abort_tcp_flow(f, TRUE) ELSE EmitNothing(f)

Over == flow.phase = "closed" \/ flow.local_ended

(* wait_for_peer_window, with the tests its callers make before it, ends   *)
(* in a window, in an error, or in waiting.                                *)
wait_for_peer_window(s) ==
  LET c == flow.call[s] IN
  /\ c.state \in {"start", "woken"}
  /\ \/ Over /\ IF s = "fin" /\ c.state = "start"
                 THEN EmitNothing([flow EXCEPT !.call[s].state = "done"]) ELSE Fails(s)
     \/ /\ ~Over /\ flow.peer_window = 0
        /\ EmitNothing([flow EXCEPT !.call[s].state = "parked"])
  /\ UNCHANGED <<to_host, guest, sent>>

Granted(s) == flow.call[s].state \in {"start", "woken"} /\ ~Over /\ flow.peer_window > 0

(* A segment, which counts in send_sequence once it is sent.               *)
send_tcp_data ==
  LET c == flow.call["write"]
      n == Least(Least(TCP_MSS, flow.peer_window), c.left)
  IN
  /\ Granted("write")
  /\ Emit([flow EXCEPT !.call["write"] =
             [state |-> "sending", ack |-> "waiting", want |-> flow.send_sequence + n,
              left |-> c.left - n, length |-> n]],
          Segment(flow, "DATA", n), "write")
  /\ sent' = [sent EXCEPT !.bytes = @ + n]
  /\ UNCHANGED <<to_host, guest>>

send_tcp_fin ==
  /\ Granted("fin")
  /\ Emit([flow EXCEPT !.local_ended = TRUE,
             !.call["fin"] = [@ EXCEPT !.state = "sending", !.ack = "waiting",
                                       !.want = flow.send_sequence + 1]],
          Segment(flow, "FIN", 0), "fin")
  /\ UNCHANGED <<to_host, guest, sent>>

AckTimeout(s) ==
  /\ flow.call[s].ack = "waiting"
  /\ EmitNothing([flow EXCEPT !.call[s].ack = "rejected"])
  /\ UNCHANGED <<to_host, guest, sent>>

WriteAcked ==
  LET c == flow.call["write"] IN
  /\ c.state = "acking" /\ c.ack = "acked"
  /\ EmitNothing([flow EXCEPT !.call["write"] =
                    [NoCall EXCEPT !.state = IF c.left > 0 THEN "start" ELSE "idle",
                                   !.left = c.left]])
  /\ sent' = [sent EXCEPT !.written = @ + c.length]
  /\ UNCHANGED <<to_host, guest>>

FinAcked ==
  LET f == [flow EXCEPT !.call["fin"].state = "done"] IN
  /\ flow.call["fin"].state = "acking" /\ flow.call["fin"].ack = "acked"
  /\ EmitNothing(IF f.remote_ended THEN close_tcp_flow(f, FALSE) ELSE f)
  /\ UNCHANGED <<to_host, guest, sent>>

CallRejected(s) ==
  /\ flow.call[s].state = "acking" /\ flow.call[s].ack = "rejected"
  /\ Fails(s)
  /\ UNCHANGED <<to_host, guest, sent>>

-----------------------------------------------------------------------------
(***************************************************************************)
(* receive_tcp and process_tcp: the next segment, once receive_tail has    *)
(* sent the answer to the one before.                                      *)
(***************************************************************************)
Take(p) ==
  /\ flow.tail = "idle"
  /\ to_host' = Tail(to_host)
  /\ UNCHANGED <<guest, sent>>

ReceiveUnknown(p) ==
  /\ Take(p) /\ flow.phase # "open"
  /\ EmitNothing(IF p.op = "SYN" /\ flow.phase = "none" THEN start_outbound_tcp(p) ELSE flow)

ReceiveRst(p) ==
  /\ Take(p) /\ flow.phase = "open" /\ p.op = "RST"
  /\ EmitNothing(close_tcp_flow(flow, TRUE))

AcknowledgeAll(f, p) ==   \* fault: any acknowledgement will do
  [f EXCEPT !.call = [s \in WriterCalls |-> IF f.call[s].ack = "waiting"
                                      THEN [f.call[s] EXCEPT !.ack = "acked"] ELSE f.call[s]]]

acknowledge_waiters(f, p) ==
  [f EXCEPT !.call = [s \in WriterCalls |-> IF f.call[s].ack = "waiting" /\ f.call[s].want = p.ack
                                      THEN [f.call[s] EXCEPT !.ack = "acked"] ELSE f.call[s]]]

SetPeerWindow(f, p) ==   \* fault: nobody who waits for a window is woken
  [f EXCEPT !.peer_window = p.win]

update_peer_window(f, p) ==
  [f EXCEPT !.peer_window = p.win,
            !.call = [s \in WriterCalls |-> IF f.call[s].state = "parked" /\ p.win > 0
                                      THEN [f.call[s] EXCEPT !.state = "woken"]
                                      ELSE f.call[s]]]

Acknowledged(p) ==
  IF p.op = "SYN" THEN flow ELSE acknowledge_waiters(update_peer_window(flow, p), p)

establish_tcp_flow(f) ==
  [IF f.activation = "waiting" THEN Settled(f, TRUE) ELSE f
     EXCEPT !.established = TRUE, !.timer = FALSE]

Handshake(p) ==
  LET f == Acknowledged(p)
      opened == [establish_tcp_flow(f) EXCEPT !.receive_sequence = p.seq + 1, !.tail = "open"]
  IN
  /\ Take(p) /\ flow.phase = "open" /\ p.op # "RST" /\ ~flow.established
  /\ IF flow.by = "host"
     THEN IF p.op = "SYNACK" /\ p.ack = flow.send_sequence
          THEN Emit(opened, Segment(opened, "ACK", 0), "open")
          ELSE EmitNothing(f)
     ELSE EmitNothing(IF p.op # "SYN" /\ p.ack = flow.send_sequence
                      THEN establish_tcp_flow(f) ELSE f)

Consumes(p) == p.n > 0 \/ p.op = "FIN"
InOrder(f, p) == p.seq = f.receive_sequence /\ p.n <= tcp_receive_window(f)

(* enqueue() answers a read that waits, and then the demand is met.        *)
Enqueued(f, p) ==
  IF p.n = 0 THEN f
  ELSE PullIfBelow([f EXCEPT !.queue = @ \o [i \in 1 .. p.n |-> p.from + i - 1],
                             !.taken = IF f.reading THEN @ + p.n ELSE @,
                             !.reading = FALSE, !.receive_demand = FALSE,
                             !.receive_sequence = @ + p.n])

RemoteEnded(f, p) ==
  IF p.op # "FIN" THEN f
  ELSE [f EXCEPT !.receive_sequence = @ + 1, !.remote_ended = TRUE, !.readable = "closed",
                 !.reading = FALSE]

process_tcp(p) ==
  LET f == Acknowledged(p)
      accepted == [RemoteEnded(Enqueued(f, p), p) EXCEPT !.tail = "check"]
      repeated == [f EXCEPT !.tail = "ack"]
  IN
  /\ Take(p) /\ flow.phase = "open" /\ p.op # "RST" /\ flow.established
  /\ CASE ~Consumes(p) -> EmitNothing(f)
       [] Consumes(p) /\ InOrder(f, p) -> Emit(accepted, Segment(accepted, "ACK", 0), "check")
       [] OTHER -> Emit(repeated, Segment(repeated, "ACK", 0), "ack")

update_tcp_window ==
  LET f == [flow EXCEPT !.update_due = FALSE] IN
  /\ flow.update_due /\ flow.tail = "idle"
  /\ IF f.phase = "open" /\ f.established /\ tcp_receive_window(f) > f.advertised_window
     THEN Emit([f EXCEPT !.tail = "ack"], Segment(f, "ACK", 0), "ack")
     ELSE EmitNothing(f)
  /\ UNCHANGED <<to_host, guest, sent>>

-----------------------------------------------------------------------------
(***************************************************************************)
(* Linux and its programs (external).                                      *)
(***************************************************************************)
GuestSegment(g, op, seq, n) ==
  [op |-> op, seq |-> seq, ack |-> g.received, win |-> GuestRoom - (Len(g.got) - g.read),
   from |-> IF n > 0 THEN seq ELSE 0, n |-> n]

Ack(g) == GuestSegment(g, "ACK", g.next, 0)

GuestStep(g, segments) ==
  /\ guest' = g
  /\ to_host' = to_host \o segments
  /\ UNCHANGED <<flow, held, sent, behind, lost, stale>>

GuestTakes(p, ops, states) ==
  /\ p.op \in ops /\ guest.state \in states
  /\ to_guest' = Tail(to_guest)

GuestSyn(p) ==
  LET g == [guest EXCEPT !.state = "syn_rcvd", !.received = 1, !.next = 1] IN
  /\ GuestTakes(p, {"SYN"}, {"listen"})
  /\ GuestStep(g, <<GuestSegment(g, "SYNACK", 0, 0)>>)

GuestSynAck(p) ==
  LET g == [guest EXCEPT !.state = "open", !.una = 1, !.edge = p.ack + p.win,
                         !.received = 1] IN
  /\ GuestTakes(p, {"SYNACK"}, {"syn_sent"})
  /\ GuestStep(g, <<Ack(g)>>)

(* A reset counts only with the expected sequence number, or that of the   *)
(* FIN before it, or, while the guest connects, with the acknowledgement.  *)
GuestRst(p) ==
  LET hit == IF guest.state = "syn_sent" THEN p.ack = guest.next
             ELSE p.seq = guest.received \/ (guest.eof /\ p.seq = guest.received - 1)
  IN
  /\ GuestTakes(p, {"RST"}, {"syn_sent", "syn_rcvd", "open"})
  /\ GuestStep(IF hit THEN Gone(guest, "gone") ELSE guest, <<>>)

(* The other segments: one from before what was received is answered and   *)
(* otherwise ignored, its acknowledgement and window too.                  *)
Progressed(p) ==
  [guest EXCEPT !.state = IF @ = "syn_rcvd" /\ p.ack = 1 THEN "open" ELSE @,
                !.una = Most(@, p.ack), !.edge = p.ack + p.win]

Ended(g) ==
  IF g.closing /\ g.una = g.wrote + 2 /\ g.eof THEN Gone(g, "done") ELSE g

GuestOther(p) ==
  LET g == Progressed(p)
      fits == p.seq = g.received /\ Len(g.got) - g.read + p.n <= GuestRoom
      taken == [g EXCEPT !.received = @ + (IF p.op = "FIN" THEN 1 ELSE p.n),
                         !.got = @ \o [i \in 1 .. p.n |-> p.from + i - 1],
                         !.eof = (p.op = "FIN")]
  IN
  /\ GuestTakes(p, {"ACK", "DATA", "FIN"}, {"syn_rcvd", "open"})
  /\ CASE p.seq < guest.received -> GuestStep(guest, <<Ack(guest)>>)
       [] p.seq >= guest.received /\ p.op = "ACK" -> GuestStep(Ended(g), <<>>)
       [] p.seq >= guest.received /\ p.op # "ACK" /\ fits ->
            GuestStep(Ended(taken), <<Ack(taken)>>)
       [] OTHER -> GuestStep(g, <<Ack(g)>>)

(* What no socket takes is refused, and what ended is ignored.             *)
GuestUnknown(p) ==
  \/ /\ GuestTakes(p, {"SYN", "SYNACK", "ACK", "DATA", "FIN"}, {"none", "gone"})
     /\ GuestStep(guest, <<GuestSegment(guest, "RST", 0, 0)>>)
  \/ /\ p.op \in {"RST"} \/ guest.state = "done"
     /\ GuestTakes(p, {p.op}, {"none", "listen", "gone", "done"})
     /\ GuestStep(guest, <<>>)

GuestConnects ==
  LET g == [guest EXCEPT !.state = "syn_sent", !.next = 1] IN
  /\ guest.state = "none" /\ flow.phase = "none"
  /\ GuestStep(g, <<GuestSegment(g, "SYN", 0, 0)>>)
  /\ UNCHANGED to_guest

GuestResets ==
  /\ guest.state = "open"
  /\ GuestStep(Gone(guest, "gone"), <<GuestSegment(guest, "RST", guest.next, 0)>>)
  /\ UNCHANGED to_guest

(* The segment with this sequence number: a byte, or the end.              *)
GuestPiece(seq) ==
  IF seq = 0 THEN GuestSegment(guest, IF guest.state = "syn_sent" THEN "SYN" ELSE "SYNACK", 0, 0)
  ELSE IF seq <= guest.wrote THEN GuestSegment(guest, "DATA", seq, 1)
  ELSE GuestSegment(guest, "FIN", seq, 0)

GuestSends ==
  /\ guest.state = "open" /\ guest.next < guest.edge
  /\ guest.next <= guest.wrote \/ (guest.closing /\ guest.next = guest.wrote + 1)
  /\ GuestStep([guest EXCEPT !.next = @ + 1], <<GuestPiece(guest.next)>>)
  /\ UNCHANGED to_guest

(* Only when no frame is on its way: a bound.                              *)
GuestRepeats ==
  /\ guest.state \in {"syn_sent", "syn_rcvd", "open"} /\ guest.una < guest.next
  /\ to_host = <<>> /\ to_guest = <<>> /\ held = <<>>
  /\ GuestStep(guest, <<GuestPiece(guest.una)>>)
  /\ UNCHANGED to_guest

GuestReads ==
  LET g == [guest EXCEPT !.read = @ + 1] IN
  /\ guest.state = "open" /\ guest.read < Len(guest.got)
  /\ GuestStep(g, IF Len(guest.got) - guest.read = GuestRoom THEN <<Ack(g)>> ELSE <<>>)
  /\ UNCHANGED to_guest

-----------------------------------------------------------------------------
ReceiveFrame ==
  to_host # <<>> /\ LET p == Head(to_host) IN
    ReceiveUnknown(p) \/ ReceiveRst(p) \/ Handshake(p) \/ process_tcp(p)

GuestReceives ==
  to_guest # <<>> /\ LET p == Head(to_guest) IN
    GuestSyn(p) \/ GuestSynAck(p) \/ GuestRst(p) \/ GuestOther(p) \/ GuestUnknown(p)

(* The steps a call on a stream takes by itself.                           *)
CallSteps ==
  \/ send_tcp_data \/ send_tcp_fin \/ WriteAcked \/ FinAcked
  \/ \E s \in WriterCalls : wait_for_peer_window(s) \/ CallRejected(s)

Read == ReadQueued \/ ReadWaits

Timers == HandshakeTimeout \/ \E s \in WriterCalls : AckTimeout(s)

Next ==
  \/ Deliver \/ ReceiveFrame \/ update_tcp_window \/ CallSteps
  \/ connect_tcp \/ Timers
  \/ \E error \in BOOLEAN : Abort(error)
  \/ HandlerReturns \/ HandlerThrows
  \/ Read \/ Close
  \/ \E n \in 1 .. MaxHostBytes : Write(n)
  \/ GuestReceives \/ GuestConnects \/ GuestResets
  \/ GuestSends \/ GuestRepeats \/ GuestReads

Spec == Init /\ [][Next]_vars

(* Fairness: event loop and timers run, the guest's driver posts buffers,  *)
(* Linux sends, repeats and handles frames, and both sides read.  Nobody   *)
(* need connect, write, close or abort.                                    *)
FairSpec ==
  /\ Spec
  /\ WF_vars(Deliver) /\ WF_vars(ReceiveFrame)
  /\ WF_vars(CallSteps \/ update_tcp_window)
  /\ WF_vars(Timers) /\ WF_vars(Read)
  /\ WF_vars(GuestReceives) /\ WF_vars(GuestSends \/ GuestReads) /\ WF_vars(GuestRepeats)

-----------------------------------------------------------------------------
(***************************************************************************)
(* Properties.                                                             *)
(***************************************************************************)
TypeOK ==
  /\ DOMAIN flow = DOMAIN NoFlow
  /\ flow.phase \in {"none", "open", "closed"} /\ flow.by \in {"host", "guest"}
  /\ flow.promise \in {"none", "pending", "resolved", "rejected"}
  /\ flow.activation \in
       {"none", "sending", "waiting", "done", "failed", "doomed", "late", "orphaned"}
  /\ flow.readable \in {"none", "open", "closed", "errored"}
  /\ flow.tail \in {"idle", "open", "check", "ack"}
  /\ \A s \in WriterCalls :
       /\ flow.call[s].state \in {"idle", "activating", "start", "parked", "woken",
                                 "sending", "acking", "done", "failed"}
       /\ flow.call[s].ack \in {"none", "waiting", "acked", "rejected"}
  /\ flow.queue \in Seq(1 .. MaxGuestBytes) /\ flow.taken \in 0 .. Len(flow.queue)
  /\ guest.state \in {"none", "listen", "syn_sent", "syn_rcvd", "open", "done", "gone"}
  /\ guest.read <= Len(guest.got) \/ guest.state \in {"done", "gone"}
  /\ behind <= MaxBehind /\ lost <= MaxLost /\ stale \in BOOLEAN

Numbered(bytes) == \A i \in 1 .. Len(bytes) : bytes[i] = i

(* The bytes of either stream arrive once and in order, whatever is        *)
(* repeated, dropped or held on the way; the end of the guest's stream is  *)
(* seen behind all its bytes.                                              *)
StreamsInOrder ==
  /\ Numbered(flow.queue) /\ Len(flow.queue) <= guest.wrote
  /\ Numbered(guest.got) /\ Len(guest.got) <= sent.bytes
  /\ flow.remote_ended => Len(flow.queue) = guest.wrote

(* A write or a close that was reported done has reached the guest, a      *)
(* close behind every byte that was sent.                                  *)
DoneMeansReceived ==
  /\ sent.written <= Len(guest.got)
  /\ flow.call["fin"].ack = "acked" => guest.eof /\ Len(guest.got) = sent.bytes

(* Both hold together through losses, repeats and held frames.             *)
StreamsReceived == StreamsInOrder /\ DoneMeansReceived

Pending ==
  (flow.by = "host" /\ flow.promise = "pending") \/ \E s \in WriterCalls : Busy(flow.call[s])

Connected == guest.state \in {"syn_sent", "syn_rcvd", "open"}

(* No connect, write or close is unanswered, unless it was the first call  *)
(* of a handler and came after its flow was closed; and no connection the  *)
(* host has ended is open in the guest, unless a frame was lost or sent    *)
(* with a sequence number that had been used.                              *)
Quiet ==
  /\ ~Pending \/ flow.activation = "orphaned"
  /\ ~(flow.phase = "closed" /\ Connected) \/ lost > 0 \/ stale

(* A flow settles, on both sides at once: every call ends, and nothing is  *)
(* left half open.                                                         *)
FlowSettles == []<>Quiet

(* A host that reads gets what the guest wrote, as long as no frame was    *)
(* lost or sent with a sequence number that had been used.                 *)
ReadsServed ==
  (flow.reading /\ Len(flow.queue) < guest.wrote)
    ~> (~flow.reading \/ lost > 0 \/ stale \/ guest.state = "gone")

(* What network.ts says of close(), "Resets and closes the connection": a  *)
(* connection closed by the host ends in the guest.                        *)
ClosedMeansReset ==
  (flow.by = "host" /\ flow.phase = "closed") ~> ~Connected
=============================================================================
