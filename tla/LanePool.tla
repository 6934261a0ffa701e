------------------------------ MODULE LanePool ------------------------------
(***************************************************************************)
(* What the lane pool of a guest session promises: at most Capacity        *)
(* exchanges have a lane at a time, one each; an exchange that finds them  *)
(* all taken waits its turn, and a lane given up goes to the exchange that *)
(* has waited longest.  A lane whose connection cannot be made is lost to  *)
(* its exchange alone.  When the session ends, nobody waits any more.      *)
(***************************************************************************)
EXTENDS Naturals, FiniteSets, Sequences

CONSTANTS Exchanges, Capacity

VARIABLES
  busy,      (* the exchanges that have a lane                              *)
  waiting,   (* the exchanges that wait for one, oldest first               *)
  ended

vars == <<busy, waiting, ended>>

Waits(e) == \E i \in 1 .. Len(waiting) : waiting[i] = e

Init == busy = {} /\ waiting = <<>> /\ ended = FALSE

(* An exchange enters the pool: it gets a lane, or waits for one.          *)
Enter(e) ==
  /\ e \notin busy /\ ~Waits(e)
  /\ \/ /\ Cardinality(busy) < Capacity
        /\ busy' = busy \cup {e}
        /\ UNCHANGED waiting
     \/ /\ Cardinality(busy) = Capacity
        /\ waiting' = Append(waiting, e)
        /\ UNCHANGED busy

(* It leaves: its lane goes to the exchange that has waited longest.       *)
Leave(e) ==
  /\ e \in busy
  /\ \/ /\ waiting = <<>>
        /\ busy' = busy \ {e}
        /\ UNCHANGED waiting
     \/ /\ waiting # <<>>
        /\ busy' = (busy \ {e}) \cup {Head(waiting)}
        /\ waiting' = Tail(waiting)

Acquire(e) == ~ended /\ Enter(e) /\ UNCHANGED ended
Release(e) == ~ended /\ Leave(e) /\ UNCHANGED ended

(* The exchange never got its connection, or ends after the session did.   *)
Drop(e) ==
  /\ e \in busy
  /\ busy' = busy \ {e}
  /\ UNCHANGED <<waiting, ended>>

(* The session ends, with the exchanges that broke it: one, or none.       *)
End(broken) ==
  /\ ~ended
  /\ ended' = TRUE
  /\ busy' = busy \ broken
  /\ waiting' = <<>>

Next ==
  \/ \E e \in Exchanges : Acquire(e) \/ Release(e) \/ Drop(e) \/ End({e})
  \/ End({})

Spec == Init /\ [][Next]_vars
=============================================================================
