---------------------------- MODULE RequestQueue ----------------------------
(***************************************************************************)
(* What a virtqueue promises, with no ring: the driver submits requests,   *)
(* the device takes them in that order and completes those it took in any  *)
(* order, and the driver gets each completion once, in completion order.   *)
(* Once the queue is revoked the device completes nothing more; what is    *)
(* left is abandoned when the queue is set up again.                       *)
(***************************************************************************)
EXTENDS Naturals, Sequences

CONSTANT Requests

VARIABLES
  live,          (* the device may complete requests                        *)
  outstanding,   (* the requests the driver waits for                       *)
  queued,        (* submitted, not taken: first in, first out               *)
  taken,         (* the device has it                                       *)
  done           (* completed, not collected: first in, first out           *)

vars == <<live, outstanding, queued, taken, done>>

Init ==
  /\ live = TRUE
  /\ outstanding = {} /\ taken = {}
  /\ queued = <<>> /\ done = <<>>

Submit(r) ==
  /\ r \notin outstanding
  /\ outstanding' = outstanding \cup {r}
  /\ queued' = Append(queued, r)
  /\ UNCHANGED <<live, taken, done>>

Take ==
  /\ live /\ queued # <<>>
  /\ taken' = taken \cup {Head(queued)}
  /\ queued' = Tail(queued)
  /\ UNCHANGED <<live, outstanding, done>>

Complete(r) ==
  /\ live /\ r \in taken
  /\ taken' = taken \ {r}
  /\ done' = Append(done, r)
  /\ UNCHANGED <<live, outstanding, queued>>

Collect ==
  /\ done # <<>>
  /\ outstanding' = outstanding \ {Head(done)}
  /\ done' = Tail(done)
  /\ UNCHANGED <<live, queued, taken>>

Revoke ==
  /\ live
  /\ live' = FALSE
  /\ UNCHANGED <<outstanding, queued, taken, done>>

Abandon ==
  /\ ~live
  /\ \/ queued # <<>> /\ queued' = Tail(queued) /\ UNCHANGED taken
     \/ \E r \in taken : taken' = taken \ {r} /\ UNCHANGED queued
  /\ UNCHANGED <<live, outstanding, done>>

Restart ==
  /\ ~live
  /\ live' = TRUE
  /\ outstanding' = {} /\ taken' = {}
  /\ queued' = <<>> /\ done' = <<>>

Next ==
  \/ \E r \in Requests : Submit(r) \/ Complete(r)
  \/ Take
  \/ Collect
  \/ Revoke
  \/ Abandon
  \/ Restart

Spec == Init /\ [][Next]_vars
=============================================================================
