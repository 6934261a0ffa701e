---------------------------- MODULE BlockDevice ----------------------------
(***************************************************************************)
(* Requests of the block device, packages/kernel/src/virtio/block.ts.      *)
(*                                                                         *)
(* kick() starts each request of the ring in turn and waits for none; a    *)
(* request runs alone up to its first await, so it is registered in the    *)
(* order of the ring.  transfer() moves a request in pieces, one storage   *)
(* call for each, unless the storage takes them together.  The storage is  *)
(* external: it keeps what was written to it in a cache until a flush,     *)
(* and what a flush covers is what had been written when it was called.    *)
(***************************************************************************)
EXTENDS Naturals, FiniteSets

CONSTANTS
  Requests,    (* bound: requests, in the order of the ring                 *)
  Pieces       (* pieces of a request                                       *)

VARIABLES
  request,     (* type, stage, pieces left to move and status of each       *)
  writes,      (* #writes: writes in flight                                 *)
  cached,      (* pieces in the storage                                     *)
  durable,     (* pieces that would survive a crash of the storage          *)
  waiting      (* what an allSettled of a flush still waits for, or covers  *)

vars == <<request, writes, cached, durable, waiting>>

Ids == 1 .. Requests

(* "at once" stands for the requests that kick() itself answers: out of    *)
(* range, without data, not supported, or GET_ID.                          *)
Types == {"IN", "OUT", "FLUSH", "at once"}

Init ==
  /\ \E type \in [Ids -> Types], pieces \in {1, Pieces} :
       request = [r \in Ids |->
         [type |-> type[r], stage |-> "ring", left |-> pieces, status |-> "none"]]
  /\ writes = {} /\ cached = {} /\ durable = {}
  /\ waiting = [r \in Ids |-> {}]

First == {r \in Ids : request[r].stage = "ring" /\ \A q \in Ids : q < r => request[q].stage # "ring"}

(* The status byte is set and the chain released.                          *)
Answered(r, status) == [request EXCEPT ![r].stage = "done", ![r].status = status]

RegisterLate(r) == {}   \* fault: the write is registered when it ends

Registers(r) == IF request[r].type = "OUT" THEN {r} ELSE {}

(* kick() starts the next request.                                         *)
Start(r) ==
  /\ r \in First
  /\ IF request[r].type = "at once"
     THEN /\ \E status \in {"OK", "IOERR", "UNSUPP"} : request' = Answered(r, status)
          /\ UNCHANGED <<writes, waiting>>
     ELSE /\ request' = [request EXCEPT ![r].stage =
                           IF request[r].type = "FLUSH" THEN "settling" ELSE "moving"]
          /\ writes' = writes \cup Registers(r)
          /\ waiting' = IF request[r].type = "FLUSH" THEN [waiting EXCEPT ![r] = writes] ELSE waiting
  /\ UNCHANGED <<cached, durable>>

Piece(r) == <<r, request[r].left>>
Settled(r) ==
  /\ writes' = writes \ {r}
  /\ waiting' = [f \in Ids |-> IF request[f].stage = "settling" THEN waiting[f] \ {r} ELSE waiting[f]]

(* A storage call of a read or a write ends: with the piece moved, short,  *)
(* or with an exception, which fails the device.                           *)
Move(r, result) ==
  LET last == result # "moved" \/ request[r].left = 1
      status == IF result = "moved" THEN "OK" ELSE IF result = "short" THEN "IOERR" ELSE "error"
  IN
  /\ request[r].stage = "moving"
  /\ cached' = IF result = "moved" /\ request[r].type = "OUT" THEN cached \cup {Piece(r)} ELSE cached
  /\ IF last THEN request' = Answered(r, status) /\ Settled(r)
     ELSE request' = [request EXCEPT ![r].left = @ - 1] /\ UNCHANGED <<writes, waiting>>
  /\ UNCHANGED durable

(* Promise.allSettled has settled, and storage.flush() is called.          *)
Flush(r) ==
  /\ request[r].stage = "settling" /\ waiting[r] = {}
  /\ request' = [request EXCEPT ![r].stage = "flushing"]
  /\ waiting' = [waiting EXCEPT ![r] = cached]
  /\ UNCHANGED <<writes, cached, durable>>

Flushed(r, ok) ==
  /\ request[r].stage = "flushing"
  /\ request' = Answered(r, IF ok THEN "OK" ELSE "error")
  /\ durable' = IF ok THEN durable \cup waiting[r] ELSE durable
  /\ waiting' = [waiting EXCEPT ![r] = {}]
  /\ UNCHANGED <<writes, cached>>

Step(r) ==
  \/ Start(r) \/ Flush(r)
  \/ \E ok \in BOOLEAN : Flushed(r, ok)
  \/ \E result \in {"moved", "short", "error"} : Move(r, result)

Next == \E r \in Ids : Step(r)

Spec == Init /\ [][Next]_vars

-----------------------------------------------------------------------------
(* When a flush is reported done, every write that came before it on the   *)
(* ring has ended, and all that such a write has moved is durable: also    *)
(* when writes overlap, move in pieces, fall short or fail.                *)
FlushCovers ==
  \A f \in Ids : request[f].type = "FLUSH" /\ request[f].status = "OK" =>
    \A w \in Ids : w < f /\ request[w].type = "OUT" =>
      /\ request[w].stage = "done"
      /\ \A p \in cached : p[1] = w => p \in durable
=============================================================================
