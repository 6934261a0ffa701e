---------------------------- MODULE VirtioDevice ----------------------------
(***************************************************************************)
(* The base class of every device, packages/kernel/src/virtio/device.ts:   *)
(* how guest notifications become kicks, what a guest reset waits for and  *)
(* how a device shuts down.                                                *)
(*                                                                         *)
(* Everything here runs on one event loop, so an action is one turn of it: *)
(* a guest call (a synchronous Wasm import), the settling of a kick or of  *)
(* spawned work, or the continuation of an async function.  Other guest    *)
(* threads put requests on the rings at any moment (Submit) and notify     *)
(* afterwards.  A kick takes chains until it finds its ring empty or its   *)
(* queue gone; whether it awaits in between is the device's choice, as in  *)
(* block.ts (never) and fs.ts (after each chain), so it may do either.     *)
(* The work started on a chain is in the active set until it settles.      *)
(* A definition marked `fault' is a slip this code could have had, used by *)
(* no action: it shows which property would notice it.                     *)
(***************************************************************************)
EXTENDS Integers, FiniteSets

CONSTANTS
  NumQueues,    (* the device's queues                                      *)
  Views,        (* whether work touches guest memory in place               *)
  MaxRings,     (* bound: rings the guest sets up                           *)
  MaxRequests,  (* bound: requests the guest submits                        *)
  MaxResets     (* bound: guest resets                                      *)

ASSUME QueuesAssumption == NumQueues \in Nat \ {0}
ASSUME ViewsAssumption == Views \in BOOLEAN
ASSUME BoundsAssumption ==
  MaxRings \in Nat /\ MaxRequests \in Nat /\ MaxResets \in Nat

Queues == 0 .. NumQueues - 1
NoRing == 0

VARIABLES
  \* the guest
  avail,        (* queue -> requests on its ring the device has not taken   *)
  owes,         (* queue -> requests were added since the last notify       *)
  unseen,       (* queue -> a completion was published the guest has not    *)
                (* been interrupted for                                     *)
  reclaimed,    (* rings up to this number are the guest's memory again     *)
  ring_count, request_count, reset_count,
  \* QueueState of each queue
  queue, pending, notifying,
  armed,        (* the rings with an interrupt microtask queued             *)
  \* the active set
  kicks,        (* kicks not yet settled                                    *)
  looking,      (* those still iterating over their ring                    *)
  work,         (* spawned work not yet settled                             *)
  resuming,     (* drain loops whose kick has settled                       *)
  draining,     (* resets waiting for the active work                       *)
  \* shutdown
  stopped, phase, waiting,
  thrown        (* history: queue -> a kick has thrown since the guest's    *)
                (* last notification                                        *)

guestVars == <<avail, owes, unseen, reclaimed, ring_count, request_count, reset_count>>
queueVars == <<queue, pending, notifying>>
stopVars == <<stopped, phase, waiting>>
vars == <<guestVars, queueVars, armed, kicks, looking, work, resuming, draining,
          stopVars, thrown>>

Active == ({"kick"} \X kicks) \cup ({"work"} \X work)

(* A number no member of S has.                                            *)
Fresh(S) == CHOOSE n \in 1 .. 1 + Cardinality(S) : \A s \in S : s.n # n

Init ==
  /\ avail = [q \in Queues |-> 0] /\ owes = [q \in Queues |-> FALSE]
  /\ unseen = [q \in Queues |-> FALSE]
  /\ reclaimed = 0 /\ ring_count = 0 /\ request_count = 0 /\ reset_count = 0
  /\ queue = [q \in Queues |-> NoRing]
  /\ pending = [q \in Queues |-> FALSE]
  /\ notifying = [q \in Queues |-> FALSE]
  /\ armed = {}
  /\ kicks = {} /\ looking = {} /\ work = {} /\ resuming = {} /\ draining = {}
  /\ stopped = FALSE /\ phase = "running" /\ waiting = {}
  /\ thrown = [q \in Queues |-> FALSE]

-----------------------------------------------------------------------------
(***************************************************************************)
(* drain(vq) starts a loop unless one is running or there is no queue; the *)
(* loop clears `pending' and dispatches.  #dispatch does nothing once the  *)
(* device has stopped: the loop then only comes round again.               *)
(***************************************************************************)
Dispatch(q, r, n) ==
  LET kick == [n |-> n, q |-> q, ring |-> r]
  IN  /\ kicks' = IF stopped THEN kicks ELSE kicks \cup {kick}
      /\ looking' = IF stopped THEN looking ELSE looking \cup {kick}
      /\ resuming' = {l \in resuming : l.n # n} \cup
                     (IF stopped THEN {[n |-> n, q |-> q, ok |-> TRUE]} ELSE {})

(* notify and enable_queue: p is `pending' and r the queue as they set it. *)
Drains(q, r) == ~notifying[q] /\ r # NoRing

Drain(q, p, r) ==
  IF Drains(q, r)
  THEN /\ notifying' = [notifying EXCEPT ![q] = TRUE]
       /\ pending' = [pending EXCEPT ![q] = FALSE]
       /\ Dispatch(q, r, Fresh(kicks \cup resuming))
  ELSE /\ pending' = [pending EXCEPT ![q] = p]
       /\ UNCHANGED <<notifying, kicks, looking, resuming>>

-----------------------------------------------------------------------------
(***************************************************************************)
(* The guest.                                                              *)
(***************************************************************************)
Submit(q) ==
  /\ request_count < MaxRequests
  /\ queue[q] # NoRing
  /\ request_count' = request_count + 1
  /\ avail' = [avail EXCEPT ![q] = @ + 1]
  /\ owes' = [owes EXCEPT ![q] = TRUE]
  /\ UNCHANGED <<unseen, reclaimed, ring_count, reset_count, queueVars, armed,
                 kicks, looking, work, resuming, draining, stopVars, thrown>>

Notify(q) ==
  /\ owes[q]
  /\ owes' = [owes EXCEPT ![q] = FALSE]
  /\ thrown' = [thrown EXCEPT ![q] = FALSE]
  /\ Drain(q, TRUE, queue[q])
  /\ UNCHANGED <<avail, unseen, reclaimed, ring_count, request_count,
                 reset_count, queue, armed, work, draining, stopVars>>

EnableQueue(q) ==
  /\ ring_count < MaxRings
  /\ ring_count' = ring_count + 1
  /\ queue' = [queue EXCEPT ![q] = ring_count + 1]
  /\ avail' = [avail EXCEPT ![q] = 0]
  /\ owes' = [owes EXCEPT ![q] = FALSE]
  /\ unseen' = [unseen EXCEPT ![q] = FALSE]
  /\ IF pending[q] THEN Drain(q, TRUE, ring_count + 1)
     ELSE UNCHANGED <<pending, notifying, kicks, looking, resuming>>
  /\ UNCHANGED <<reclaimed, request_count, reset_count, armed, work, draining,
                 stopVars, thrown>>

DisableQueue(q) ==
  /\ queue[q] # NoRing
  /\ queue' = [queue EXCEPT ![q] = NoRing]
  /\ pending' = [pending EXCEPT ![q] = FALSE]
  /\ avail' = [avail EXCEPT ![q] = 0]
  /\ owes' = [owes EXCEPT ![q] = FALSE]
  /\ unseen' = [unseen EXCEPT ![q] = FALSE]
  /\ UNCHANGED <<reclaimed, ring_count, request_count, reset_count, notifying,
                 armed, kicks, looking, work, resuming, draining, stopVars, thrown>>

(* reset() drops every queue; with views it settles only after the work    *)
(* that was active when it was called.                                     *)
ResetWaitsFor == IF Views THEN Active ELSE {}

Reset ==
  /\ reset_count < MaxResets
  /\ reset_count' = reset_count + 1
  /\ queue' = [q \in Queues |-> NoRing]
  /\ pending' = [q \in Queues |-> FALSE]
  /\ avail' = [q \in Queues |-> 0]
  /\ owes' = [q \in Queues |-> FALSE]
  /\ unseen' = [q \in Queues |-> FALSE]
  /\ draining' = draining \cup {[limit |-> ring_count, wait |-> ResetWaitsFor]}
  /\ UNCHANGED <<reclaimed, ring_count, request_count, notifying, armed, kicks, looking,
                 work, resuming, stopVars, thrown>>

(* The bus stores the word the guest sleeps on.                            *)
ResetDone(d) ==
  /\ d \in draining
  /\ d.wait \cap Active = {}
  /\ draining' = draining \ {d}
  /\ reclaimed' = IF d.limit > reclaimed THEN d.limit ELSE reclaimed
  /\ UNCHANGED <<avail, owes, unseen, ring_count, request_count, reset_count,
                 queueVars, armed, kicks, looking, work, resuming, stopVars, thrown>>

-----------------------------------------------------------------------------
(***************************************************************************)
(* Kicks and spawned work.                                                 *)
(***************************************************************************)
(* The iterator yields a chain, and the kick spawns the work on it.        *)
TakeChain(k) ==
  /\ k \in looking
  /\ queue[k.q] = k.ring /\ avail[k.q] > 0
  /\ avail' = [avail EXCEPT ![k.q] = @ - 1]
  /\ work' = work \cup {[n |-> Fresh(work), q |-> k.q, ring |-> k.ring]}
  /\ UNCHANGED <<owes, unseen, reclaimed, ring_count, request_count, reset_count,
                 queueVars, armed, kicks, looking, resuming, draining, stopVars,
                 thrown>>

(* The iterator ends: the ring is empty, or the queue is not this one.     *)
EndOfRing(k) ==
  /\ k \in looking
  /\ queue[k.q] # k.ring \/ avail[k.q] = 0
  /\ looking' = looking \ {k}
  /\ UNCHANGED <<guestVars, queueVars, armed, kicks, work, resuming, draining,
                 stopVars, thrown>>

(* The kick's promise settles and leaves the active set; its drain loop    *)
(* has a continuation to run.                                              *)
SettleKick(k, ok) ==
  /\ k \in kicks /\ (ok => k \notin looking)
  /\ kicks' = kicks \ {k}
  /\ looking' = looking \ {k}
  /\ resuming' = resuming \cup {[n |-> k.n, q |-> k.q, ok |-> ok]}
  /\ UNCHANGED <<guestVars, queueVars, armed, work, draining, stopVars, thrown>>

(* The loop goes round again for a notification that came meanwhile.       *)
OneRound(l) == FALSE   \* fault: a notification during the kick is forgotten
GoesRound(l) == l.ok /\ pending[l.q] /\ queue[l.q] # NoRing

NextRound(l) ==
  /\ l \in resuming /\ GoesRound(l)
  /\ pending' = [pending EXCEPT ![l.q] = FALSE]
  /\ Dispatch(l.q, queue[l.q], l.n)
  /\ UNCHANGED <<guestVars, queue, notifying, armed, work, draining, stopVars, thrown>>

EndLoopStuck(l) ==   \* fault: `notifying' is not cleared
  /\ l \in resuming /\ ~GoesRound(l)
  /\ resuming' = resuming \ {l}
  /\ thrown' = [thrown EXCEPT ![l.q] = @ \/ ~l.ok]
  /\ UNCHANGED <<guestVars, queueVars, armed, kicks, looking, work, draining, stopVars>>

EndLoop(l) ==
  /\ l \in resuming /\ ~GoesRound(l)
  /\ resuming' = resuming \ {l}
  /\ notifying' = [notifying EXCEPT ![l.q] = FALSE]
  /\ thrown' = [thrown EXCEPT ![l.q] = @ \/ ~l.ok]
  /\ UNCHANGED <<guestVars, queue, pending, armed, kicks, looking, work, draining, stopVars>>

(* A request finishes and releases its chain: the completion is published  *)
(* if the queue is still the one it came from, and an interrupt is armed.  *)
FinishWork(w) ==
  /\ w \in work
  /\ work' = work \ {w}
  /\ unseen' = IF queue[w.q] = w.ring THEN [unseen EXCEPT ![w.q] = TRUE] ELSE unseen
  /\ armed' = IF queue[w.q] = w.ring THEN armed \cup {w.ring} ELSE armed
  /\ UNCHANGED <<avail, owes, reclaimed, ring_count, request_count, reset_count,
                 queueVars, kicks, looking, resuming, draining, stopVars, thrown>>

FailWork(w) ==
  /\ w \in work
  /\ work' = work \ {w}
  /\ UNCHANGED <<guestVars, queueVars, armed, kicks, looking, resuming, draining, stopVars,
                 thrown>>

(* The interrupt microtask of ring r.                                      *)
Interrupt(r) ==
  /\ r \in armed
  /\ armed' = armed \ {r}
  /\ unseen' = [q \in Queues |-> IF queue[q] = r THEN FALSE ELSE unseen[q]]
  /\ UNCHANGED <<avail, owes, reclaimed, ring_count, request_count, reset_count,
                 queueVars, kicks, looking, work, resuming, draining, stopVars, thrown>>

-----------------------------------------------------------------------------
(***************************************************************************)
(* Shutdown: stop new kicks, wait until the active set is empty (what is   *)
(* in flight may spawn more), then close the backend.                      *)
(***************************************************************************)
AfterSettled == IF Active = {} THEN "closing" ELSE "stopping"

Shutdown ==
  /\ ~stopped
  /\ stopped' = TRUE
  /\ phase' = AfterSettled
  /\ waiting' = Active
  /\ UNCHANGED <<guestVars, queueVars, armed, kicks, looking, work, resuming, draining, thrown>>

AllSettled ==
  /\ phase = "stopping" /\ waiting \cap Active = {}
  /\ phase' = AfterSettled
  /\ waiting' = Active
  /\ UNCHANGED <<guestVars, queueVars, armed, kicks, looking, work, resuming, draining,
                 stopped, thrown>>

Closed ==
  /\ phase = "closing"
  /\ phase' = "closed"
  /\ UNCHANGED <<guestVars, queueVars, armed, kicks, looking, work, resuming, draining,
                 stopped, waiting, thrown>>

GuestCall ==
  \/ \E q \in Queues :
       Submit(q) \/ Notify(q) \/ EnableQueue(q) \/ DisableQueue(q)
  \/ Reset

KickStep ==
  \E k \in kicks :
    TakeChain(k) \/ EndOfRing(k) \/ \E ok \in BOOLEAN : SettleKick(k, ok)

LoopStep == \E l \in resuming : NextRound(l) \/ EndLoop(l)
WorkStep == \E w \in work : FinishWork(w) \/ FailWork(w)

Next ==
  \/ GuestCall
  \/ KickStep
  \/ LoopStep
  \/ WorkStep
  \/ \E d \in draining : ResetDone(d)
  \/ \E r \in armed : Interrupt(r)
  \/ Shutdown
  \/ AllSettled
  \/ Closed

(***************************************************************************)
(* Fairness: the event loop runs every continuation, a kick looks at its   *)
(* ring to the end and settles (device.ts forbids it to await the guest),  *)
(* storage answers, the guest's driver notifies after it adds requests.    *)
(***************************************************************************)
Spec == Init /\ [][Next]_vars

FairSpec ==
  /\ Spec
  /\ \A q \in Queues : WF_vars(Notify(q))
  /\ WF_vars(KickStep) /\ WF_vars(LoopStep) /\ WF_vars(WorkStep)
  /\ WF_vars(\E d \in draining : ResetDone(d))
  /\ WF_vars(AllSettled) /\ WF_vars(Closed)

-----------------------------------------------------------------------------
(***************************************************************************)
(* Properties.                                                             *)
(***************************************************************************)
Task == [n: Nat, q: Queues, ring: Nat]

(* The queues' states, the active set and the shutdown have their types; a *)
(* kick that still looks at its ring is one that has not settled.          *)
TypeOK ==
  /\ avail \in [Queues -> Nat] /\ owes \in [Queues -> BOOLEAN]
  /\ unseen \in [Queues -> BOOLEAN]
  /\ reclaimed \in Nat /\ ring_count \in Nat
  /\ request_count \in Nat /\ reset_count \in Nat
  /\ queue \in [Queues -> Nat]
  /\ pending \in [Queues -> BOOLEAN] /\ notifying \in [Queues -> BOOLEAN]
  /\ armed \in SUBSET Nat
  /\ kicks \in SUBSET Task /\ looking \in SUBSET kicks /\ work \in SUBSET Task
  /\ resuming \in SUBSET [n: Nat, q: Queues, ok: BOOLEAN]
  /\ draining \in SUBSET [limit: Nat, wait: SUBSET ({"kick", "work"} \X Task)]
  /\ stopped \in BOOLEAN /\ thrown \in [Queues -> BOOLEAN]
  /\ phase \in {"running", "stopping", "closing", "closed"}
  /\ waiting \in SUBSET ({"kick", "work"} \X Task)

(* A kick is settled before the next kick on its queue is delivered, even  *)
(* when the queue was disabled and enabled again meanwhile.                *)
OneKickAtATime == \A k1, k2 \in kicks : k1.q = k2.q => k1 = k2

(* A request the guest has notified is never forgotten: a kick is still    *)
(* going to look at its ring, or a loop will go round for it.  A kick that *)
(* throws may leave requests behind, but only to the next notification.    *)
NoLostNotification ==
  \A q \in Queues :
    avail[q] > 0 /\ ~owes[q] /\ ~stopped /\ ~thrown[q] =>
      \/ \E k \in looking : k.q = q /\ k.ring = queue[q]
      \/ pending[q] /\ \E k \in kicks : k.q = q
      \/ pending[q] /\ \E l \in resuming : l.q = q
      \/ \E l \in resuming : l.q = q /\ ~l.ok

(* A published completion has an interrupt on its way to the guest.        *)
NoSilentCompletion == \A q \in Queues : unseen[q] => queue[q] \in armed

(* After a reset is done, no work in flight can touch the memory of the    *)
(* rings the guest had before it.                                          *)
ResetMeansQuiet == Views => \A t \in work : t.ring > reclaimed

(* The backend is closed only when nothing is in flight, and nothing is    *)
(* started after that.                                                     *)
CloseMeansQuiet == phase \in {"closing", "closed"} => Active = {}

(* Whoever was told that the device is done with memory or with its        *)
(* backend can rely on it.                                                 *)
NothingInFlight == ResetMeansQuiet /\ CloseMeansQuiet

(* Coalescing kicks and batching interrupts loses nothing, kicks of a      *)
(* queue never overlap, and quiet means quiet.                             *)
DeviceSound ==
  OneKickAtATime /\ NoLostNotification /\ NoSilentCompletion /\ NothingInFlight

(* Requests the guest keeps on a ring are taken, unless the device stops,  *)
(* or throws on them and the guest notifies no more.                       *)
RequestsTaken ==
  \A q \in Queues, r \in 1 .. MaxRings :
    (queue[q] = r /\ avail[q] > 0)
      ~> (avail[q] = 0 \/ queue[q] # r \/ stopped \/ thrown[q])

(* A reset is always answered, and a shutdown always finishes, also when   *)
(* kicks and work fail.                                                    *)
WaitsEnd ==
  /\ (draining # {}) ~> (draining = {})
  /\ stopped ~> phase = "closed"

(* Nothing waits for ever on this device: requests, resets and shutdown.   *)
DeviceProgress == RequestsTaken /\ WaitsEnd
=============================================================================
