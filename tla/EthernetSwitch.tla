--------------------------- MODULE EthernetSwitch ---------------------------
(***************************************************************************)
(* The learning switch and the network devices on it,                      *)
(* packages/kernel/src/virtio/net.ts.                                      *)
(*                                                                         *)
(* A transmit holds its chain until the network accepts the frame: a       *)
(* unicast frame waits for its recipient when that is behind, a flood      *)
(* waits for nobody.  The recipient may reset, stop, or never post a       *)
(* buffer; the sender may reset or stop while it waits.                    *)
(*                                                                         *)
(* A frame is its number, its sender and its destination address.  Guests  *)
(* are external: they post buffers, transmit from their own address or     *)
(* from one of a virtual machine that moves, and reset.                    *)
(***************************************************************************)
EXTENDS Naturals, Sequences

CONSTANTS
  Ports,                (* devices on the network                           *)
  Roaming,              (* an address that is seen behind several ports     *)
  RECEIVE_BACKLOG, MAX_PENDING_FRAMES,
  MaxFrames,            (* bound: frames transmitted                        *)
  MaxBuffers,           (* bound: receive buffers posted at a time          *)
  MaxResets             (* bound: resets                                    *)

VARIABLES
  ports,       (* the ports that their devices have not closed              *)
  learned,     (* the Map `learned'                                         *)
  closed,      (* the network is closed, and with it every port             *)
  pending,     (* #pending of each device                                   *)
  rx,          (* buffers posted to each device                             *)
  tx,          (* #waiting: the frame whose acceptance a device waits for   *)
  got,         (* frames each guest was given                               *)
  frames,      (* frames transmitted                                        *)
  resets

vars == <<ports, learned, closed, pending, rx, tx, got, frames, resets>>

Addresses == Ports \cup {Roaming}
Everyone == "everyone"
Nobody == "nobody"
None == 0

Init ==
  /\ ports = Ports /\ learned = [a \in Addresses |-> Nobody] /\ closed = FALSE
  /\ pending = [p \in Ports |-> <<>>] /\ rx = [p \in Ports |-> 0]
  /\ tx = [p \in Ports |-> None] /\ got = [p \in Ports |-> <<>>]
  /\ frames = 0 /\ resets = 0

Stopped(p) == p \notin ports

-----------------------------------------------------------------------------
(* #receive: a stopped or full device drops the frame; #flush fills the    *)
(* posted buffers.                                                         *)
Accepts(p) == ~Stopped(p) /\ Len(pending[p]) < MAX_PENDING_FRAMES
Receives(p, frame) == IF Accepts(p) THEN Append(pending[p], frame) ELSE pending[p]

Least(x, y) == IF x <= y THEN x ELSE y
Flushed(p, queue, buffers) ==
  LET n == Least(Len(queue), buffers) IN
  [now |-> SubSeq(queue, 1, n), later |-> SubSeq(queue, n + 1, Len(queue)), buffers |-> buffers - n]

Held(p, frame) == Accepts(p) /\ Len(Flushed(p, Receives(p, frame), rx[p]).later) > RECEIVE_BACKLOG

RecipientsAll(p, to) == ports   \* fault: also back to the sender

(* The ports a frame goes to, and whether its sender waits.                *)
Recipients(p, to) ==
  IF to # Everyone /\ learned'[to] # Nobody THEN {learned'[to]} \ {p} ELSE ports \ {p}

Waits(to, recipients, frame) ==
  to # Everyone /\ learned'[to] # Nobody /\ \E q \in recipients : Held(q, frame)

(* A kick of the transmit queue, up to where it waits.                     *)
Transmit(p, from, to) ==
  LET frame == [number |-> frames + 1, sender |-> p]
      recipients == Recipients(p, to)
      flushed == [q \in Ports |-> Flushed(q, Receives(q, frame), rx[q])]
  IN
  /\ ~Stopped(p) /\ ~closed /\ tx[p] = None /\ frames < MaxFrames
  /\ frames' = frames + 1
  /\ learned' = [learned EXCEPT ![from] = p]
  /\ pending' = [q \in Ports |-> IF q \in recipients THEN flushed[q].later ELSE pending[q]]
  /\ got' = [q \in Ports |-> IF q \in recipients THEN got[q] \o flushed[q].now ELSE got[q]]
  /\ rx' = [q \in Ports |-> IF q \in recipients THEN flushed[q].buffers ELSE rx[q]]
  /\ tx' = [tx EXCEPT ![p] = IF Waits(to, recipients, frame) THEN frame.number ELSE None]
  /\ UNCHANGED <<ports, closed, resets>>

(* send() on a closed network drops the frame.                             *)
TransmitClosed(p) ==
  /\ ~Stopped(p) /\ closed /\ tx[p] = None /\ frames < MaxFrames
  /\ frames' = frames + 1
  /\ UNCHANGED <<ports, learned, closed, pending, rx, tx, got, resets>>

Numbers(queue) == {queue[i].number : i \in 1 .. Len(queue)}

(* The promises of these frames are resolved: their senders go on.         *)
Resolve(numbers) == [p \in Ports |-> IF tx[p] \in numbers THEN None ELSE tx[p]]

(* A kick of the receive queue.                                            *)
Post(p) ==
  LET flushed == Flushed(p, pending[p], rx[p] + 1) IN
  /\ ~Stopped(p) /\ rx[p] < MaxBuffers
  /\ pending' = [pending EXCEPT ![p] = flushed.later]
  /\ got' = [got EXCEPT ![p] = @ \o flushed.now]
  /\ rx' = [rx EXCEPT ![p] = flushed.buffers]
  /\ tx' = Resolve(Numbers(flushed.now))
  /\ UNCHANGED <<ports, learned, closed, frames, resets>>

(* The guest resets the device: its frames stay, its buffers and the       *)
(* transmit it waits for go.                                               *)
Reset(p) ==
  /\ ~Stopped(p) /\ resets < MaxResets
  /\ resets' = resets + 1
  /\ rx' = [rx EXCEPT ![p] = 0] /\ tx' = [tx EXCEPT ![p] = None]
  /\ UNCHANGED <<ports, learned, closed, pending, got, frames>>

Forget(p) == [a \in Addresses |-> IF learned[a] = p THEN Nobody ELSE learned[a]]

StopSilently(p) ==   \* fault: the senders of held frames are not told
  /\ ~Stopped(p)
  /\ ports' = ports \ {p} /\ learned' = Forget(p)
  /\ rx' = [rx EXCEPT ![p] = 0] /\ pending' = [pending EXCEPT ![p] = <<>>]
  /\ tx' = [tx EXCEPT ![p] = None]
  /\ UNCHANGED <<closed, got, frames, resets>>

(* The device stops: its port is closed and its frames are dropped.        *)
Stop(p) ==
  /\ ~Stopped(p)
  /\ ports' = ports \ {p} /\ learned' = Forget(p)
  /\ rx' = [rx EXCEPT ![p] = 0] /\ pending' = [pending EXCEPT ![p] = <<>>]
  /\ tx' = [Resolve(Numbers(pending[p])) EXCEPT ![p] = None]
  /\ UNCHANGED <<closed, got, frames, resets>>

(* The network is closed; frames that were accepted are still delivered.   *)
CloseNetwork ==
  /\ ~closed /\ closed' = TRUE
  /\ learned' = [a \in Addresses |-> Nobody]
  /\ UNCHANGED <<ports, pending, rx, tx, got, frames, resets>>

Next ==
  \/ CloseNetwork
  \/ \E p \in Ports :
       \/ Post(p) \/ Reset(p) \/ Stop(p) \/ TransmitClosed(p)
       \/ \E from \in {p, Roaming}, to \in Addresses \cup {Everyone} : Transmit(p, from, to)

Spec == Init /\ [][Next]_vars

-----------------------------------------------------------------------------
(* A guest gets each frame once and never its own, in the order of         *)
(* transmission, whatever was held, dropped or flooded on the way.         *)
FramesInOrder ==
  \A p \in Ports :
    LET all == got[p] \o pending[p] IN
    /\ \A i, j \in 1 .. Len(all) : i < j => all[i].number < all[j].number
    /\ \A i \in 1 .. Len(all) : all[i].sender # p

(* A device that holds its guest's transmit back is held by somebody: its  *)
(* frame waits at a device that still runs and is behind, so that a buffer *)
(* there, a stop there, or a reset or stop here ends the wait.  The switch *)
(* knows no address behind a port that has left.                           *)
SenderHeldByReceiver ==
  /\ \A p \in Ports : tx[p] # None =>
       \E q \in ports : tx[p] \in Numbers(pending[q]) /\ Len(pending[q]) > rx[q]
  /\ \A a \in Addresses : learned[a] # Nobody => learned[a] \in ports
=============================================================================
