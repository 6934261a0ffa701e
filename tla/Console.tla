------------------------------ MODULE Console ------------------------------
(***************************************************************************)
(* The console device, packages/kernel/src/virtio/console.ts, on the       *)
(* receive queue of virtio/rx.ts: input from the host's stream to the      *)
(* guest, output from the guest, window size, reset and shutdown.          *)
(*                                                                         *)
(* The pump reads the host's stream only when the guest has a buffer, and  *)
(* keeps what a buffer did not take.  Linux shows its receive queue before *)
(* its tty is ready; the first transmit says that it is.  A reset takes    *)
(* the buffers back while the pump may be waiting for a buffer, for the    *)
(* first transmit, or for the stream.                                      *)
(*                                                                         *)
(* Input byte i is the number i.  The guest is external.                   *)
(***************************************************************************)
EXTENDS Naturals, Sequences

CONSTANTS
  MaxInput,      (* bound: bytes of input                                   *)
  ChunkSizes,    (* sizes of the stream's chunks                            *)
  BufferSizes,   (* sizes of the guest's receive buffers                    *)
  MaxBuffers,    (* bound: buffers posted at a time                         *)
  MaxResets,     (* bound: resets                                           *)
  MaxSizes       (* bound: sizes set by resize()                            *)

VARIABLES
  pump,          (* what the pump waits for                                 *)
  chunk,         (* the chunk it holds                                      *)
  read,          (* bytes taken from the host's stream                      *)
  ready,         (* #guest_ready                                            *)
  rx,            (* sizes of the posted buffers                             *)
  tty,           (* bytes the guest was given                               *)
  output,        (* a transmit: idle, or waiting for the writer             *)
  size,          (* the size set, and the size in the guest's memory        *)
  stopped,
  resets

vars == <<pump, chunk, read, ready, rx, tty, output, size, stopped, resets>>

Init ==
  /\ pump = "opened" /\ chunk = <<>> /\ read = 0
  /\ ready = FALSE /\ rx = <<>> /\ tty = <<>>
  /\ output = "idle" /\ size = [device |-> 0, guest |-> 0]
  /\ stopped = FALSE /\ resets = 0

-----------------------------------------------------------------------------
(* #receivable: go on, or wait for the guest or for a buffer.              *)
Waits(q, r) == IF ~r THEN "opened" ELSE IF q = <<>> THEN "ready" ELSE "woken"

(* The pump runs again after it was woken: it goes on if it still may.     *)
Wakes ==
  /\ pump = "awake"
  /\ pump' = IF stopped THEN "done" ELSE Waits(rx, ready)
  /\ UNCHANGED <<chunk, read, ready, rx, tty, output, size, stopped, resets>>

(* With no chunk in hand it asks the stream for one.                       *)
Asks ==
  /\ pump = "woken" /\ chunk = <<>>
  /\ pump' = "stream"
  /\ UNCHANGED <<chunk, read, ready, rx, tty, output, size, stopped, resets>>

StreamGives(n) ==
  /\ pump = "stream" /\ read + n <= MaxInput
  /\ chunk' = [i \in 1 .. n |-> read + i] /\ read' = read + n
  /\ pump' = "awake"
  /\ UNCHANGED <<ready, rx, tty, output, size, stopped, resets>>

(* The stream ends, or shutdown cancels it.                                *)
StreamEnds ==
  /\ pump = "stream" /\ (read = MaxInput \/ stopped)
  /\ pump' = "done"
  /\ UNCHANGED <<chunk, read, ready, rx, tty, output, size, stopped, resets>>

Least(x, y) == IF x <= y THEN x ELSE y
LeftDropped(n) == <<>>   \* fault: what a buffer did not take is dropped

Left(n) == SubSeq(chunk, n + 1, Len(chunk))

(* deliver(): the next buffer is filled, if a reset left one.              *)
Delivers ==
  LET n == IF rx = <<>> THEN 0 ELSE Least(Len(chunk), Head(rx)) IN
  /\ pump = "woken" /\ chunk # <<>>
  /\ tty' = tty \o SubSeq(chunk, 1, n)
  /\ rx' = IF rx = <<>> THEN rx ELSE Tail(rx)
  /\ chunk' = Left(n)
  /\ pump' = "awake"
  /\ UNCHANGED <<read, ready, output, size, stopped, resets>>

-----------------------------------------------------------------------------
Woken(from) == pump' = IF pump = from THEN "awake" ELSE pump

(* A kick of the receive queue: post().                                    *)
Posts(n) ==
  /\ ~stopped /\ Len(rx) < MaxBuffers
  /\ rx' = Append(rx, n) /\ Woken("ready")
  /\ UNCHANGED <<chunk, read, ready, tty, output, size, stopped, resets>>

(* A kick of the transmit queue: each chain is written and released.       *)
Transmits ==
  /\ ~stopped /\ output = "idle"
  /\ output' = "writing" /\ ready' = TRUE
  /\ IF ready THEN UNCHANGED pump ELSE Woken("opened")
  /\ UNCHANGED <<chunk, read, rx, tty, size, stopped, resets>>

Transmitted ==
  /\ output = "writing"
  /\ output' = "idle"
  /\ UNCHANGED <<pump, chunk, read, ready, rx, tty, size, stopped, resets>>

Reset ==
  /\ ~stopped /\ resets < MaxResets
  /\ resets' = resets + 1
  /\ rx' = <<>> /\ ready' = FALSE /\ Woken("opened")
  /\ UNCHANGED <<chunk, read, tty, output, size, stopped>>

(* update_config() copies the configuration to the guest and interrupts it.*)
Resize ==
  /\ size.device < MaxSizes
  /\ size' = [device |-> size.device + 1, guest |-> IF stopped THEN size.guest ELSE size.device + 1]
  /\ UNCHANGED <<pump, chunk, read, ready, rx, tty, output, stopped, resets>>

Stop ==
  /\ ~stopped
  /\ stopped' = TRUE /\ rx' = <<>>
  /\ pump' = IF pump \in {"opened", "ready"} THEN "awake" ELSE pump
  /\ UNCHANGED <<chunk, read, ready, tty, output, size, resets>>

PumpStep == Wakes \/ Asks \/ Delivers \/ StreamEnds \/ \E n \in ChunkSizes : StreamGives(n)

Next ==
  \/ PumpStep \/ (\E n \in BufferSizes : Posts(n)) \/ Transmits \/ Transmitted \/ Reset \/ Resize \/ Stop

Spec == Init /\ [][Next]_vars

-----------------------------------------------------------------------------
(* The guest gets the bytes of the stream once and in order, whatever the  *)
(* sizes of chunks and buffers, and none is lost: a byte read from the     *)
(* stream is with the guest or in the pump's hands, also after a reset.    *)
InputWhole ==
  /\ \A i \in 1 .. Len(tty) : tty[i] = i
  /\ Len(tty) + Len(chunk) = read
  /\ \A i \in 1 .. Len(chunk) : chunk[i] = Len(tty) + i

(* The pump never waits for what has come already: it does not wait for a  *)
(* buffer with one posted, nor for a guest that is ready, nor for anything *)
(* once the device has stopped, whatever reset or kick came in between.    *)
PumpNotStranded ==
  /\ pump = "ready" => rx = <<>>
  /\ pump = "opened" => ~ready
  /\ stopped => pump \notin {"ready", "opened"}

(* The input pump neither loses nor invents input, nor stops for nothing.  *)
PumpSound == InputWhole /\ PumpNotStranded
=============================================================================
