---------------------------- MODULE RemoteDevice ----------------------------
(***************************************************************************)
(* A virtio device served from a worker: the transport of                  *)
(* packages/kernel/src/virtio/remote.ts.  The main thread runs the guest's *)
(* calls (enable, disable, notify, reset) and commits completions to guest *)
(* memory; the worker walks the queues and runs the requests.  They share  *)
(* two FIFO message ports and `control', an array of epochs: slot 0 for    *)
(* the device, one slot for each queue.  Only the main thread writes it.   *)
(*                                                                         *)
(* A ring the guest sets up gets a number of its own, `ring' here, so that *)
(* the properties can tell the memory of one setup from the next; the code *)
(* has only the epochs.  A notify stands for one request put on the ring.  *)
(* The worker's device is a VirtioDevice with or without views; what is    *)
(* kept of it is the queue it works on and the requests in flight.         *)
(* A definition marked `fault' is a slip this code could have had, used by *)
(* no action: it shows which property would notice it.                     *)
(***************************************************************************)
EXTENDS Integers, FiniteSets, Sequences

CONSTANTS
  NumQueues,    (* the device's queues                                      *)
  Views,        (* whether requests work on guest memory in place           *)
  MaxRings,     (* bound: rings the guest sets up                           *)
  MaxResets,    (* bound: guest resets                                      *)
  MaxRequests   (* bound: requests the guest submits                        *)

ASSUME QueuesAssumption == NumQueues \in Nat \ {0}
ASSUME ViewsAssumption == Views \in BOOLEAN
ASSUME BoundsAssumption ==
  /\ MaxRings \in Nat /\ MaxResets \in Nat /\ MaxRequests \in Nat

VARIABLES
  \* guest memory
  rings,          (* queue -> the ring the guest has set up, 0 for none     *)
  used,           (* queue -> the rings whose completions were written to it*)
  reclaimed,      (* rings up to this number are the guest's memory again   *)
  ring_count, request_count, reset_count,
  \* connect_remote_device and create_remote_device, on the main thread
  control, queue_control,     (* control[0] and control[1 + vq]             *)
  enabled,
  resets,         (* the resets not yet acknowledged, oldest first          *)
  failed, close_started, closed, listening,
  \* serveDevice, in the worker
  device_epoch, queue_epochs,
  worker_rings,   (* queue -> the ring of its PackedVirtqueue, 0 for none   *)
  work,           (* requests in flight                                     *)
  draining,       (* resets waiting for the requests in flight              *)
  closing, serving,
  \* the message ports
  to_worker, to_main

guestVars == <<rings, used, reclaimed, ring_count, request_count, reset_count>>
mainVars == <<control, queue_control, enabled, resets, failed, close_started,
              closed, listening>>
workerVars == <<device_epoch, queue_epochs, worker_rings, work, draining,
                closing, serving>>
vars == <<guestVars, mainVars, workerVars, to_worker, to_main>>

Queues == 0 .. NumQueues - 1
NoRing == 0
NoQueue == -1

(* A message has a value for every field; most types use only a few.       *)
Message(type) == [type |-> type, vq |-> NoQueue, n |-> 0, de |-> 0, qe |-> 0]

(* "closed" says whether the device failed to shut down.                   *)
ClosedMessage(error) ==
  [type |-> "closed", vq |-> NoQueue, n |-> IF error THEN 1 ELSE 0, de |-> 0, qe |-> 0]

EnableMessage(q, r, de, qe) ==
  [type |-> "enable", vq |-> q, n |-> r, de |-> de, qe |-> qe]
CompleteMessage(q, r, de, qe) ==
  [type |-> "complete", vq |-> q, n |-> r, de |-> de, qe |-> qe]

Init ==
  /\ rings = [q \in Queues |-> NoRing]
  /\ used = [q \in Queues |-> {}]
  /\ reclaimed = 0
  /\ ring_count = 0 /\ request_count = 0 /\ reset_count = 0
  /\ control = 0
  /\ queue_control = [q \in Queues |-> 0]
  /\ enabled = [q \in Queues |-> FALSE]
  /\ resets = <<>>
  /\ failed = FALSE /\ close_started = FALSE /\ closed = "pending"
  /\ listening = TRUE
  /\ device_epoch = 0
  /\ queue_epochs = [q \in Queues |-> 0]
  /\ worker_rings = [q \in Queues |-> NoRing]
  /\ work = {} /\ draining = {}
  /\ closing = FALSE /\ serving = TRUE
  /\ to_worker = <<>> /\ to_main = <<>>

-----------------------------------------------------------------------------
(***************************************************************************)
(* The guest's calls: synchronous Wasm imports on the main thread.         *)
(***************************************************************************)
EnableQueue(q) ==
  /\ ring_count < MaxRings
  /\ ring_count' = ring_count + 1
  /\ rings' = [rings EXCEPT ![q] = ring_count + 1]
  /\ used' = [used EXCEPT ![q] = {}]
  /\ queue_control' = [queue_control EXCEPT ![q] = @ + 1]
  /\ enabled' = [enabled EXCEPT ![q] = TRUE]
  /\ to_worker' = Append(to_worker,
                    EnableMessage(q, ring_count + 1, control, queue_control[q] + 1))
  /\ UNCHANGED <<reclaimed, request_count, reset_count, control, resets, failed,
                 close_started, closed, listening, workerVars, to_main>>

DisableQueue(q) ==
  /\ rings[q] # NoRing
  /\ rings' = [rings EXCEPT ![q] = NoRing]
  /\ used' = [used EXCEPT ![q] = {}]
  /\ enabled' = [enabled EXCEPT ![q] = FALSE]
  /\ queue_control' = [queue_control EXCEPT ![q] = @ + 1]
  /\ to_worker' = Append(to_worker, [Message("disable") EXCEPT !.vq = q])
  /\ UNCHANGED <<reclaimed, ring_count, request_count, reset_count, control,
                 resets, failed, close_started, closed, listening, workerVars,
                 to_main>>

Notify(q) ==
  /\ rings[q] # NoRing
  /\ request_count < MaxRequests
  /\ request_count' = request_count + 1
  /\ to_worker' = Append(to_worker,
                    [Message("notify") EXCEPT !.vq = q, !.n = request_count + 1])
  /\ UNCHANGED <<rings, used, reclaimed, ring_count, reset_count, mainVars,
                 workerVars, to_main>>

Reset ==
  /\ reset_count < MaxResets
  /\ reset_count' = reset_count + 1
  /\ rings' = [q \in Queues |-> NoRing]
  /\ used' = [q \in Queues |-> {}]
  /\ control' = control + 1
  /\ enabled' = [q \in Queues |-> FALSE]
  /\ resets' = Append(resets, ring_count)
  /\ to_worker' = Append(to_worker, [Message("reset") EXCEPT !.n = reset_count + 1])
  /\ UNCHANGED <<reclaimed, ring_count, request_count, queue_control, failed,
                 close_started, closed, listening, workerVars, to_main>>

Shutdown ==
  /\ ~close_started
  /\ close_started' = TRUE
  /\ control' = control + 1
  /\ enabled' = [q \in Queues |-> FALSE]
  /\ to_worker' = Append(to_worker, Message("close"))
  /\ UNCHANGED <<guestVars, queue_control, resets, failed, closed, listening,
                 workerVars, to_main>>

-----------------------------------------------------------------------------
(***************************************************************************)
(* The main thread's messages.                                             *)
(***************************************************************************)
Receive(type) ==
  /\ listening /\ to_main # <<>> /\ Head(to_main).type = type
  /\ to_main' = Tail(to_main)

(* The check that keeps a completion of an old ring out of guest memory.   *)
PublishableIfEnabled(m) == enabled[m.vq] /\ control = m.de   \* fault: no queue epoch
Publishable(m) ==
  enabled[m.vq] /\ control = m.de /\ queue_control[m.vq] = m.qe

ReceiveComplete ==
  /\ Receive("complete")
  /\ LET m == Head(to_main)
     IN  used' = IF Publishable(m) THEN [used EXCEPT ![m.vq] = @ \cup {m.n}] ELSE used
  /\ UNCHANGED <<rings, reclaimed, ring_count, request_count, reset_count,
                 mainVars, workerVars, to_worker>>

(* The guest, asleep in reset, owns the rings it had set up before it.     *)
Reclaim(limit) == IF limit > reclaimed THEN limit ELSE reclaimed

ReceiveResetDone ==
  /\ Receive("reset_done")
  /\ reclaimed' = IF resets = <<>> THEN reclaimed ELSE Reclaim(Head(resets))
  /\ resets' = IF resets = <<>> THEN resets ELSE Tail(resets)
  /\ UNCHANGED <<rings, used, ring_count, request_count, reset_count, control,
                 queue_control, enabled, failed, close_started, closed,
                 listening, workerVars, to_worker>>

(* fail() of the connection.                                               *)
Fail ==
  /\ failed' = TRUE
  /\ control' = IF failed THEN control ELSE control + 1

ReceiveError ==
  /\ Receive("error")
  /\ Fail
  /\ UNCHANGED <<guestVars, queue_control, enabled, resets, close_started,
                 closed, listening, workerVars, to_worker>>

ReceiveClosedForgets ==   \* fault: nobody who waits is told
  /\ Receive("closed")
  /\ listening' = FALSE
  /\ control' = control + 1
  /\ enabled' = [q \in Queues |-> FALSE]
  /\ UNCHANGED <<guestVars, queue_control, resets, failed, close_started, closed,
                 workerVars, to_worker>>

(* The worker has drained its device: every waiting reset is released.     *)
(* revoke() comes first, then fail() if the device did not close well.     *)
ReceiveClosed ==
  /\ Receive("closed")
  /\ listening' = FALSE
  /\ enabled' = [q \in Queues |-> FALSE]
  /\ reclaimed' = IF resets = <<>> THEN reclaimed ELSE Reclaim(resets[Len(resets)])
  /\ resets' = <<>>
  /\ LET error == Head(to_main).n = 1
     IN  /\ failed' = (failed \/ error)
         /\ control' = IF error /\ ~failed THEN control + 2 ELSE control + 1
         /\ closed' = IF closed # "pending" THEN closed
                      ELSE IF error THEN "rejected" ELSE "resolved"
  /\ UNCHANGED <<rings, used, ring_count, request_count, reset_count,
                 queue_control, close_started, workerVars, to_worker>>

(* The endpoint itself fails: nothing more is heard from the worker.       *)
EndpointFailure ==
  /\ listening
  /\ listening' = FALSE
  /\ Fail
  /\ closed' = IF closed = "pending" THEN "rejected" ELSE closed
  /\ UNCHANGED <<guestVars, queue_control, enabled, resets, close_started,
                 workerVars, to_worker, to_main>>

-----------------------------------------------------------------------------
(***************************************************************************)
(* The worker.                                                             *)
(***************************************************************************)
Handle(type) ==
  /\ serving /\ to_worker # <<>> /\ Head(to_worker).type = type
  /\ to_worker' = Tail(to_worker)

(* queue_is_current(), which also guards publish_completion.               *)
QueueIsCurrent(q) == control = device_epoch /\ queue_control[q] = queue_epochs[q]

HandleEnable ==
  /\ Handle("enable")
  /\ LET m == Head(to_worker)
     IN  /\ device_epoch' = m.de
         /\ queue_epochs' = [queue_epochs EXCEPT ![m.vq] = m.qe]
         /\ worker_rings' = [worker_rings EXCEPT ![m.vq] = m.n]
  /\ UNCHANGED <<guestVars, mainVars, work, draining, closing, serving, to_main>>

HandleDisable ==
  /\ Handle("disable")
  /\ worker_rings' = [worker_rings EXCEPT ![Head(to_worker).vq] = NoRing]
  /\ UNCHANGED <<guestVars, mainVars, device_epoch, queue_epochs, work,
                 draining, closing, serving, to_main>>

(* A kick takes the request off the ring, if the queue is still current    *)
(* and the device is not shutting down, and starts work on it.             *)
HandleNotify ==
  /\ Handle("notify")
  /\ LET m == Head(to_worker)
     IN  work' = IF worker_rings[m.vq] # NoRing /\ QueueIsCurrent(m.vq) /\ ~closing
                 THEN work \cup {[vq |-> m.vq, ring |-> worker_rings[m.vq], n |-> m.n]}
                 ELSE work
  /\ UNCHANGED <<guestVars, mainVars, device_epoch, queue_epochs, worker_rings,
                 draining, closing, serving, to_main>>

(* reset() drops the queues and, with views, waits for the work in flight. *)
NoneInFlight == {}   \* fault: reset does not wait
InFlight == IF Views THEN work ELSE {}

HandleReset ==
  /\ Handle("reset")
  /\ device_epoch' = control
  /\ worker_rings' = [q \in Queues |-> NoRing]
  /\ draining' = draining \cup
       {[n |-> Head(to_worker).n, wait |-> InFlight]}
  /\ UNCHANGED <<guestVars, mainVars, queue_epochs, work, closing, serving, to_main>>

ResetSettled(d) ==
  /\ d \in draining /\ d.wait \cap work = {}
  /\ draining' = draining \ {d}
  /\ to_main' = Append(to_main, Message("reset_done"))
  /\ UNCHANGED <<guestVars, mainVars, device_epoch, queue_epochs, worker_rings,
                 work, closing, serving, to_worker>>

(* A request finishes: its chain is released, which posts the completion   *)
(* if its queue is the one the worker has and is still current.            *)
Posts(w) == worker_rings[w.vq] = w.ring /\ QueueIsCurrent(w.vq)

FinishRequest(w) ==
  /\ w \in work
  /\ work' = work \ {w}
  /\ to_main' = IF Posts(w)
                THEN Append(to_main, CompleteMessage(w.vq, w.ring, device_epoch,
                                                     queue_epochs[w.vq]))
                ELSE to_main
  /\ UNCHANGED <<guestVars, mainVars, device_epoch, queue_epochs, worker_rings,
                 draining, closing, serving, to_worker>>

(* A request or a kick fails, and says so.                                 *)
FailRequest(w) ==
  /\ w \in work
  /\ work' = work \ {w}
  /\ to_main' = Append(to_main, Message("error"))
  /\ UNCHANGED <<guestVars, mainVars, device_epoch, queue_epochs, worker_rings,
                 draining, closing, serving, to_worker>>

HandleClose ==
  /\ Handle("close")
  /\ closing' = TRUE
  /\ UNCHANGED <<guestVars, mainVars, device_epoch, queue_epochs, worker_rings,
                 work, draining, serving, to_main>>

(* shutdown() has waited for the work in flight and closed the backend; it *)
(* fails if some of that work did or if the backend does not close.        *)
WorkerClosed(error) ==
  /\ closing /\ serving /\ work = {}
  /\ serving' = FALSE
  /\ to_main' = Append(to_main, ClosedMessage(error))
  /\ UNCHANGED <<guestVars, mainVars, device_epoch, queue_epochs, worker_rings,
                 work, draining, closing, to_worker>>

WorkerStep ==
  \/ HandleEnable \/ HandleDisable \/ HandleNotify \/ HandleReset \/ HandleClose
  \/ \E error \in BOOLEAN : WorkerClosed(error)
  \/ \E d \in draining : ResetSettled(d)

MainReceive ==
  \/ ReceiveComplete \/ ReceiveResetDone \/ ReceiveError \/ ReceiveClosed

GuestCall ==
  \/ \E q \in Queues : EnableQueue(q) \/ DisableQueue(q) \/ Notify(q)
  \/ Reset

Next ==
  \/ GuestCall
  \/ Shutdown
  \/ MainReceive
  \/ EndpointFailure
  \/ WorkerStep
  \/ \E w \in work : FinishRequest(w) \/ FailRequest(w)

(***************************************************************************)
(* Fairness.  Both event loops keep running and deliver their messages in  *)
(* order, and storage answers every request it is given, well or badly.    *)
(* The guest, the caller of shutdown and a failing endpoint owe nothing.   *)
(***************************************************************************)
Requests == [vq: Queues, ring: 1 .. MaxRings, n: 1 .. MaxRequests]

Spec == Init /\ [][Next]_vars

FairSpec ==
  /\ Spec
  /\ WF_vars(WorkerStep)
  /\ WF_vars(MainReceive)
  /\ \A w \in Requests : WF_vars(FinishRequest(w) \/ FailRequest(w))

-----------------------------------------------------------------------------
(***************************************************************************)
(* Properties.                                                             *)
(***************************************************************************)
MessageOf(types) ==
  [type: types, vq: Queues \cup {NoQueue}, n: Nat, de: Nat, qe: Nat]

(* A message about a queue names one.                                      *)
WorkerMessage ==
  {m \in MessageOf({"enable", "disable", "notify", "reset", "close"}) :
     m.type \in {"enable", "disable", "notify"} => m.vq \in Queues}
MainMessage ==
  {m \in MessageOf({"complete", "reset_done", "error", "closed"}) :
     m.type = "complete" => m.vq \in Queues}

RequestType == [vq: Queues, ring: Nat, n: Nat]

(* Each side's state, the epochs and the messages in the two ports have    *)
(* their types: above all, no message about a queue is without one.        *)
TypeOK ==
  /\ rings \in [Queues -> Nat] /\ used \in [Queues -> SUBSET Nat]
  /\ reclaimed \in Nat /\ ring_count \in Nat
  /\ request_count \in Nat /\ reset_count \in Nat
  /\ control \in Nat /\ queue_control \in [Queues -> Nat]
  /\ enabled \in [Queues -> BOOLEAN]
  /\ resets \in Seq(Nat)
  /\ failed \in BOOLEAN /\ close_started \in BOOLEAN /\ listening \in BOOLEAN
  /\ closed \in {"pending", "resolved", "rejected"}
  /\ device_epoch \in Nat /\ queue_epochs \in [Queues -> Nat]
  /\ worker_rings \in [Queues -> Nat]
  /\ work \in SUBSET RequestType
  /\ draining \in SUBSET [n: Nat, wait: SUBSET RequestType]
  /\ closing \in BOOLEAN /\ serving \in BOOLEAN
  /\ to_worker \in Seq(WorkerMessage) /\ to_main \in Seq(MainMessage)

(* A completion is written only into the ring it was taken from: what is   *)
(* in a ring the guest has set up came from that ring, however the guest   *)
(* disabled, reset and enabled the queue while the message was on its way. *)
OwnCompletionsOnly == \A q \in Queues : used[q] \subseteq {rings[q]} \ {NoRing}

(***************************************************************************)
(* Why: what the epochs say.  Ring r fits epoch qe of queue q if that      *)
(* epoch, when it is the present one of an enabled queue, is r's.  A ring  *)
(* fits the epoch it travels with, in an "enable", in the worker and in a  *)
(* "complete"; so the main thread's check tells it that a completion is    *)
(* for the ring in place.                                                  *)
(***************************************************************************)
Fits(q, r, qe) ==
  /\ r # NoRing /\ qe <= queue_control[q]
  /\ qe = queue_control[q] /\ enabled[q] => r = rings[q]

EnablesFit ==
  \A i \in 1 .. Len(to_worker) :
    to_worker[i].type = "enable" =>
      Fits(to_worker[i].vq, to_worker[i].n, to_worker[i].qe)

CompletionsFit ==
  \A i \in 1 .. Len(to_main) :
    to_main[i].type = "complete" => Fits(to_main[i].vq, to_main[i].n, to_main[i].qe)

WorkerFits ==
  /\ \A q \in Queues :
       worker_rings[q] # NoRing => Fits(q, worker_rings[q], queue_epochs[q])
  /\ \A w \in work : w.ring # NoRing

EpochInv == EnablesFit /\ CompletionsFit /\ WorkerFits /\ OwnCompletionsOnly

(* Once a reset has been released the guest may reuse the memory of every  *)
(* ring it had before: no request on one of them is still in flight when   *)
(* requests work on guest memory in place.                                 *)
ResetMeansQuiet == Views => \A w \in work : w.ring > reclaimed

(* When the device reports itself closed, the worker has no request left.  *)
ClosedMeansQuiet == closed = "resolved" => work = {}

(* Whoever was told that the device is done with memory can rely on it.    *)
NothingInFlight == ResetMeansQuiet /\ ClosedMeansQuiet

(* A reset is released: by its acknowledgement, or because the device      *)
(* closed while the reset was under way; only an endpoint that fails may   *)
(* leave the guest waiting.                                                *)
ResetReleased ==
  (resets # <<>> /\ listening) ~> (resets = <<>> \/ closed = "rejected")

(* A request in flight on a ring the guest keeps is completed into it,     *)
(* unless the device failed or is shut down.                               *)
RequestCompletes ==
  \A q \in Queues, r \in 1 .. MaxRings :
    (rings[q] = r /\ \E w \in work : w.ring = r)
      ~> (r \in used[q] \/ rings[q] # r \/ failed \/ close_started)

(* shutdown() settles.                                                     *)
ShutdownSettles == close_started ~> closed # "pending"

(* Whoever waits for the worker is answered: a guest asleep in reset, a    *)
(* request in flight, and shutdown().                                      *)
EverybodyAnswered == ResetReleased /\ RequestCompletes /\ ShutdownSettles
=============================================================================
