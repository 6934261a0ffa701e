------------------------- MODULE RemoteDeviceProofs -------------------------
(***************************************************************************)
(* Proofs about RemoteDevice, for any number of queues, with or without    *)
(* views, and whatever the bounds on rings, resets and requests: the type  *)
(* invariant, that a completion is written only into the ring it was taken *)
(* from, and that nothing is in flight once the guest is told so.  The     *)
(* second follows from EpochInv, the third from FlightInv: each is         *)
(* inductive once the types are known.                                     *)
(***************************************************************************)
EXTENDS RemoteDevice, FiniteSetTheorems, TLAPS

USE QueuesAssumption, ViewsAssumption, BoundsAssumption

-----------------------------------------------------------------------------
(***************************************************************************)
(* Sequences of messages.                                                  *)
(***************************************************************************)
(* Receiving: the head is a message, and the rest moves up one place.      *)
LEMMA TailOfSeq ==
  ASSUME NEW S, NEW s \in Seq(S), s # <<>>
  PROVE  /\ Head(s) \in S /\ Head(s) = s[1] /\ 1 \in 1 .. Len(s)
         /\ Tail(s) \in Seq(S)
         /\ Len(Tail(s)) = Len(s) - 1
         /\ \A i \in 1 .. Len(Tail(s)) : i + 1 \in 1 .. Len(s) /\ Tail(s)[i] = s[i + 1]
  OBVIOUS

(* Posting: the new message comes last, the others keep their places.      *)
LEMMA AppendToSeq ==
  ASSUME NEW S, NEW s \in Seq(S), NEW m \in S
  PROVE  /\ Append(s, m) \in Seq(S)
         /\ Len(Append(s, m)) = Len(s) + 1
         /\ \A i \in 1 .. Len(s) : Append(s, m)[i] = s[i]
         /\ Append(s, m)[Len(s) + 1] = m
  OBVIOUS

(* The messages that are sent are messages of their port.                  *)
LEMMA MessagesTyped ==
  /\ \A q \in Queues, r, de, qe \in Nat :
       /\ EnableMessage(q, r, de, qe) \in WorkerMessage
       /\ CompleteMessage(q, r, de, qe) \in MainMessage
  /\ \A q \in Queues, n \in Nat :
       /\ [Message("disable") EXCEPT !.vq = q] \in WorkerMessage
       /\ [Message("notify") EXCEPT !.vq = q, !.n = n] \in WorkerMessage
  /\ \A n \in Nat : [Message("reset") EXCEPT !.n = n] \in WorkerMessage
  /\ Message("close") \in WorkerMessage
  /\ Message("reset_done") \in MainMessage
  /\ Message("error") \in MainMessage
  /\ \A error \in BOOLEAN : ClosedMessage(error) \in MainMessage
  BY DEF WorkerMessage, MainMessage, MessageOf, Message, EnableMessage,
         CompleteMessage, ClosedMessage, NoQueue

-----------------------------------------------------------------------------
(***************************************************************************)
(* Type correctness.                                                       *)
(***************************************************************************)
(* The variables keep their types in every step of every action.           *)
LEMMA TypeStep == TypeOK /\ [Next]_vars => TypeOK'
<1> SUFFICES ASSUME TypeOK, [Next]_vars PROVE TypeOK'
  OBVIOUS
<1>1. ASSUME NEW q \in Queues, EnableQueue(q) PROVE TypeOK'
  <2>1. to_worker' \in Seq(WorkerMessage)
    <3>1. ring_count + 1 \in Nat /\ control \in Nat /\ queue_control[q] + 1 \in Nat
      BY DEF TypeOK
    <3>2. EnableMessage(q, ring_count + 1, control, queue_control[q] + 1) \in WorkerMessage
      BY <3>1, MessagesTyped, Zenon
    <3> QED
      BY <1>1, <3>2, AppendToSeq DEF TypeOK, EnableQueue
  <2> QED
    BY <1>1, <2>1 DEF TypeOK, EnableQueue, workerVars
<1>2. ASSUME NEW q \in Queues, DisableQueue(q) PROVE TypeOK'
  <2>1. to_worker' \in Seq(WorkerMessage)
    BY MessagesTyped, AppendToSeq, <1>2 DEF TypeOK, DisableQueue
  <2> QED
    BY <1>2, <2>1 DEF TypeOK, DisableQueue, workerVars, NoRing
<1>3. ASSUME NEW q \in Queues, Notify(q) PROVE TypeOK'
  <2>1. to_worker' \in Seq(WorkerMessage)
    <3>1. [Message("notify") EXCEPT !.vq = q, !.n = request_count + 1] \in WorkerMessage
      <4>1. request_count + 1 \in Nat
        BY DEF TypeOK
      <4> QED
        BY <4>1, MessagesTyped, Zenon
    <3> QED
      BY <1>3, <3>1, AppendToSeq DEF TypeOK, Notify
  <2> QED
    BY <1>3, <2>1 DEF TypeOK, Notify, mainVars, workerVars
<1>4. CASE Reset
  <2>1. to_worker' \in Seq(WorkerMessage)
    <3>1. [Message("reset") EXCEPT !.n = reset_count + 1] \in WorkerMessage
      <4>1. reset_count + 1 \in Nat
        BY DEF TypeOK
      <4> QED
        BY <4>1, MessagesTyped, Zenon
    <3> QED
      BY <1>4, <3>1, AppendToSeq DEF TypeOK, Reset
  <2>2. resets' \in Seq(Nat)
    BY MessagesTyped, AppendToSeq, <1>4 DEF TypeOK, Reset
  <2> QED
    BY <1>4, <2>1, <2>2 DEF TypeOK, Reset, workerVars, NoRing
<1>5. CASE Shutdown
  <2>1. to_worker' \in Seq(WorkerMessage)
    BY MessagesTyped, AppendToSeq, <1>5 DEF TypeOK, Shutdown
  <2> QED
    BY <1>5, <2>1 DEF TypeOK, Shutdown, guestVars, workerVars
<1>6. CASE ReceiveComplete
  <2>1. Head(to_main) \in MainMessage /\ to_main' \in Seq(MainMessage)
    BY TailOfSeq, <1>6 DEF TypeOK, ReceiveComplete, Receive
  <2>2. Head(to_main).vq \in Queues /\ Head(to_main).n \in Nat
    BY <1>6, <2>1 DEF ReceiveComplete, Receive, MainMessage, MessageOf
  <2> QED
    BY <1>6, <2>1, <2>2 DEF TypeOK, ReceiveComplete, mainVars, workerVars
<1>7. CASE ReceiveResetDone
  <2>1. to_main' \in Seq(MainMessage)
    BY TailOfSeq, <1>7 DEF TypeOK, ReceiveResetDone, Receive
  <2>2. resets' \in Seq(Nat) /\ reclaimed' \in Nat
    BY TailOfSeq, <1>7 DEF TypeOK, ReceiveResetDone, Reclaim
  <2> QED
    BY <1>7, <2>1, <2>2 DEF TypeOK, ReceiveResetDone, workerVars
<1>8. CASE ReceiveError
  <2>1. to_main' \in Seq(MainMessage)
    BY TailOfSeq, <1>8 DEF TypeOK, ReceiveError, Receive
  <2> QED
    BY <1>8, <2>1 DEF TypeOK, ReceiveError, Fail, guestVars, workerVars
<1>9. CASE ReceiveClosed
  <2>1. to_main' \in Seq(MainMessage)
    BY TailOfSeq, <1>9 DEF TypeOK, ReceiveClosed, Receive
  <2>2. reclaimed' \in Nat /\ resets' \in Seq(Nat)
    <3>1. resets # <<>> => resets[Len(resets)] \in Nat
      BY DEF TypeOK
    <3> QED
      BY <1>9, <3>1 DEF TypeOK, ReceiveClosed, Reclaim
  <2>3. closed' \in {"pending", "resolved", "rejected"}
    BY <1>9 DEF TypeOK, ReceiveClosed
  <2>4. control' \in Nat /\ enabled' \in [Queues -> BOOLEAN] /\ failed' \in BOOLEAN
    BY <1>9 DEF TypeOK, ReceiveClosed
  <2> QED
    BY <1>9, <2>1, <2>2, <2>3, <2>4 DEF TypeOK, ReceiveClosed, workerVars
<1>10. CASE EndpointFailure
  <2>1. closed' \in {"pending", "resolved", "rejected"}
    BY <1>10 DEF TypeOK, EndpointFailure
  <2>2. control' \in Nat /\ failed' \in BOOLEAN
    BY <1>10 DEF TypeOK, EndpointFailure, Fail
  <2> QED
    BY <1>10, <2>1, <2>2 DEF TypeOK, EndpointFailure, guestVars, workerVars
<1>11. CASE HandleEnable
  <2>1. Head(to_worker) \in WorkerMessage /\ to_worker' \in Seq(WorkerMessage)
    BY TailOfSeq, <1>11 DEF TypeOK, HandleEnable, Handle
  <2>2. /\ Head(to_worker).vq \in Queues /\ Head(to_worker).n \in Nat
        /\ Head(to_worker).de \in Nat /\ Head(to_worker).qe \in Nat
    BY <1>11, <2>1 DEF HandleEnable, Handle, WorkerMessage, MessageOf
  <2> QED
    BY <1>11, <2>1, <2>2 DEF TypeOK, HandleEnable, guestVars, mainVars
<1>12. CASE HandleDisable
  <2>1. to_worker' \in Seq(WorkerMessage)
    BY TailOfSeq, <1>12 DEF TypeOK, HandleDisable, Handle
  <2> QED
    BY <1>12, <2>1 DEF TypeOK, HandleDisable, guestVars, mainVars, NoRing
<1>13. CASE HandleNotify
  <2>1. Head(to_worker) \in WorkerMessage /\ to_worker' \in Seq(WorkerMessage)
    BY TailOfSeq, <1>13 DEF TypeOK, HandleNotify, Handle
  <2>2. Head(to_worker).vq \in Queues /\ Head(to_worker).n \in Nat
    BY <1>13, <2>1 DEF HandleNotify, Handle, WorkerMessage, MessageOf
  <2>3. work' \in SUBSET RequestType
    BY <1>13, <2>2 DEF TypeOK, HandleNotify, RequestType
  <2> QED
    BY <1>13, <2>1, <2>3 DEF TypeOK, HandleNotify, guestVars, mainVars
<1>14. CASE HandleReset
  <2>1. Head(to_worker) \in WorkerMessage /\ to_worker' \in Seq(WorkerMessage)
    BY TailOfSeq, <1>14 DEF TypeOK, HandleReset, Handle
  <2>2. Head(to_worker).n \in Nat
    BY <2>1 DEF WorkerMessage, MessageOf
  <2>3. draining' \in SUBSET [n: Nat, wait: SUBSET RequestType]
    BY <1>14, <2>2 DEF TypeOK, HandleReset, InFlight
  <2> QED
    BY <1>14, <2>1, <2>3 DEF TypeOK, HandleReset, guestVars, mainVars, NoRing
<1>15. CASE HandleClose
  <2>1. to_worker' \in Seq(WorkerMessage)
    BY TailOfSeq, <1>15 DEF TypeOK, HandleClose, Handle
  <2> QED
    BY <1>15, <2>1 DEF TypeOK, HandleClose, guestVars, mainVars
<1>16. ASSUME NEW error \in BOOLEAN, WorkerClosed(error) PROVE TypeOK'
  <2>1. to_main' \in Seq(MainMessage)
    BY MessagesTyped, AppendToSeq, <1>16 DEF TypeOK, WorkerClosed
  <2> QED
    BY <1>16, <2>1 DEF TypeOK, WorkerClosed, guestVars, mainVars
<1>17. ASSUME NEW d \in draining, ResetSettled(d) PROVE TypeOK'
  <2>1. to_main' \in Seq(MainMessage)
    BY MessagesTyped, AppendToSeq, <1>17 DEF TypeOK, ResetSettled
  <2> QED
    BY <1>17, <2>1 DEF TypeOK, ResetSettled, guestVars, mainVars
<1>18. ASSUME NEW w \in work, FinishRequest(w) PROVE TypeOK'
  <2>1. w.vq \in Queues /\ w.ring \in Nat
    BY DEF TypeOK, RequestType
  <2>2. to_main' \in Seq(MainMessage)
    BY MessagesTyped, AppendToSeq, <1>18, <2>1 DEF TypeOK, FinishRequest
  <2> QED
    BY <1>18, <2>2 DEF TypeOK, FinishRequest, guestVars, mainVars
<1>19. ASSUME NEW w \in work, FailRequest(w) PROVE TypeOK'
  <2>1. to_main' \in Seq(MainMessage)
    BY MessagesTyped, AppendToSeq, <1>19 DEF TypeOK, FailRequest
  <2> QED
    BY <1>19, <2>1 DEF TypeOK, FailRequest, guestVars, mainVars
<1>20. CASE UNCHANGED vars
  BY <1>20 DEF TypeOK, vars, guestVars, mainVars, workerVars
<1> QED
  BY <1>1, <1>2, <1>3, <1>4, <1>5, <1>6, <1>7, <1>8, <1>9, <1>10, <1>11, <1>12,
     <1>13, <1>14, <1>15, <1>16, <1>17, <1>18, <1>19, <1>20
     DEF Next, GuestCall, MainReceive, WorkerStep

(* Every variable of the main thread, the worker and the ports keeps its   *)
(* type: in particular a message about a queue names one.                  *)
THEOREM TypeCorrect == Spec => []TypeOK
<1>1. Init => TypeOK
  <2> SUFFICES ASSUME Init PROVE TypeOK
    OBVIOUS
  <2>1. /\ rings \in [Queues -> Nat] /\ used \in [Queues -> SUBSET Nat]
        /\ queue_control \in [Queues -> Nat] /\ queue_epochs \in [Queues -> Nat]
        /\ worker_rings \in [Queues -> Nat] /\ enabled \in [Queues -> BOOLEAN]
    BY DEF Init, NoRing
  <2>2. /\ to_worker \in Seq(WorkerMessage) /\ to_main \in Seq(MainMessage)
        /\ resets \in Seq(Nat)
    BY DEF Init
  <2>3. /\ work \in SUBSET RequestType
        /\ draining \in SUBSET [n: Nat, wait: SUBSET RequestType]
    BY DEF Init
  <2>4. /\ reclaimed \in Nat /\ ring_count \in Nat
        /\ request_count \in Nat /\ reset_count \in Nat
        /\ control \in Nat /\ device_epoch \in Nat
    BY DEF Init
  <2>5. /\ failed \in BOOLEAN /\ close_started \in BOOLEAN /\ listening \in BOOLEAN
        /\ closed \in {"pending", "resolved", "rejected"}
        /\ closing \in BOOLEAN /\ serving \in BOOLEAN
    BY DEF Init
  <2> QED
    BY <2>1, <2>2, <2>3, <2>4, <2>5 DEF TypeOK
<1> QED
  BY <1>1, TypeStep, PTL DEF Spec

-----------------------------------------------------------------------------
(***************************************************************************)
(* Rings and epochs.                                                       *)
(***************************************************************************)
(* Every message of a type in t was already in s.                          *)
OldIn(s, t, type) ==
  \A i \in 1 .. Len(t) :
    t[i].type = type => \E j \in 1 .. Len(s) : s[j] = t[i]

(* Taking a message adds none.                                             *)
LEMMA OldInTail ==
  ASSUME NEW S, NEW s \in Seq(S), s # <<>>, NEW type
  PROVE  OldIn(s, Tail(s), type)
  BY TailOfSeq DEF OldIn

(* Posting a message of another type adds none of this type.               *)
LEMMA OldInAppend ==
  ASSUME NEW S, NEW s \in Seq(S), NEW m \in S, NEW type, m.type # type
  PROVE  OldIn(s, Append(s, m), type)
  BY AppendToSeq DEF OldIn

(* A port that is not touched has no new message.                          *)
LEMMA OldInSame ==
  ASSUME NEW S, NEW s \in Seq(S), NEW type
  PROVE  OldIn(s, s, type)
  BY DEF OldIn

(* The types of the messages that are sent.                                *)
LEMMA MessageTypes ==
  /\ \A q, r, de, qe : CompleteMessage(q, r, de, qe).type = "complete"
  /\ \A q : [Message("disable") EXCEPT !.vq = q].type = "disable"
  /\ \A q, n : [Message("notify") EXCEPT !.vq = q, !.n = n].type = "notify"
  /\ \A n : [Message("reset") EXCEPT !.n = n].type = "reset"
  /\ Message("close").type = "close"
  /\ Message("reset_done").type = "reset_done"
  /\ Message("error").type = "error"
  /\ \A error : ClosedMessage(error).type = "closed"
  BY Zenon DEF Message, CompleteMessage, ClosedMessage

(* What every step does to the main thread's epochs: a queue is enabled    *)
(* with another ring only under a later epoch.                             *)
KeepsRings ==
  \A q \in Queues :
    /\ queue_control'[q] >= queue_control[q]
    /\ queue_control'[q] = queue_control[q] /\ enabled'[q] =>
         enabled[q] /\ rings'[q] = rings[q]

(* A ring that fits an epoch goes on fitting it.                           *)
LEMMA FitsKept ==
  ASSUME TypeOK, TypeOK', KeepsRings,
         NEW q \in Queues, NEW r \in Nat, NEW qe \in Nat, Fits(q, r, qe)
  PROVE  Fits(q, r, qe)'
<1>1. r # NoRing /\ qe <= queue_control[q]
  BY DEF Fits
<1>2. queue_control'[q] >= queue_control[q]
  BY DEF KeepsRings
<1>3. queue_control[q] \in Nat /\ queue_control'[q] \in Nat
  BY DEF TypeOK
<1>4. qe <= queue_control'[q]
  BY <1>1, <1>2, <1>3
<1>5. ASSUME qe = queue_control'[q], enabled'[q] PROVE r = rings'[q]
  <2>1. queue_control'[q] = queue_control[q]
    BY <1>1, <1>2, <1>3, <1>5
  <2>2. enabled[q] /\ rings'[q] = rings[q]
    BY <1>5, <2>1, Zenon DEF KeepsRings
  <2> QED
    BY <1>5, <2>1, <2>2, Zenon DEF Fits
<1> QED
  BY <1>1, <1>4, <1>5, Zenon DEF Fits

(* The "enable" messages on their way still fit after the step.            *)
LEMMA EnablesKept ==
  ASSUME TypeOK, TypeOK', KeepsRings, EnablesFit, OldIn(to_worker, to_worker', "enable")
  PROVE  EnablesFit'
<1> SUFFICES ASSUME NEW i \in 1 .. Len(to_worker'), to_worker'[i].type = "enable"
             PROVE  Fits(to_worker[i].vq, to_worker[i].n, to_worker[i].qe)'
  BY DEF EnablesFit
<1>1. PICK j \in 1 .. Len(to_worker) : to_worker[j] = to_worker'[i]
  BY DEF OldIn
<1>2. to_worker[j] \in WorkerMessage
  BY SMTT(60) DEF TypeOK
<1>3. /\ to_worker[j].vq \in Queues /\ to_worker[j].n \in Nat /\ to_worker[j].qe \in Nat
  BY <1>1, <1>2 DEF WorkerMessage, MessageOf
<1>4. PICK q \in Queues, r \in Nat, qe \in Nat :
        q = to_worker[j].vq /\ r = to_worker[j].n /\ qe = to_worker[j].qe
  BY <1>3
<1>5. Fits(q, r, qe)
  BY <1>1, <1>4 DEF EnablesFit, CompletionsFit
<1>6. Fits(q, r, qe)'
  BY <1>5, FitsKept
<1>7. q = to_worker'[i].vq /\ r = to_worker'[i].n /\ qe = to_worker'[i].qe
  BY <1>1, <1>4
<1> QED
  BY <1>6, <1>7, Zenon DEF Fits

(* The "complete" messages on their way still fit after the step.          *)
LEMMA CompletionsKept ==
  ASSUME TypeOK, TypeOK', KeepsRings, CompletionsFit, OldIn(to_main, to_main', "complete")
  PROVE  CompletionsFit'
<1> SUFFICES ASSUME NEW i \in 1 .. Len(to_main'), to_main'[i].type = "complete"
             PROVE  Fits(to_main[i].vq, to_main[i].n, to_main[i].qe)'
  BY DEF CompletionsFit
<1>1. PICK j \in 1 .. Len(to_main) : to_main[j] = to_main'[i]
  BY DEF OldIn
<1>2. to_main[j] \in MainMessage
  BY SMTT(60) DEF TypeOK
<1>3. /\ to_main[j].vq \in Queues /\ to_main[j].n \in Nat /\ to_main[j].qe \in Nat
  BY <1>1, <1>2 DEF MainMessage, MessageOf
<1>4. PICK q \in Queues, r \in Nat, qe \in Nat :
        q = to_main[j].vq /\ r = to_main[j].n /\ qe = to_main[j].qe
  BY <1>3
<1>5. Fits(q, r, qe)
  BY <1>1, <1>4 DEF EnablesFit, CompletionsFit
<1>6. Fits(q, r, qe)'
  BY <1>5, FitsKept
<1>7. q = to_main'[i].vq /\ r = to_main'[i].n /\ qe = to_main'[i].qe
  BY <1>1, <1>4
<1> QED
  BY <1>6, <1>7, Zenon DEF Fits

(* The worker's queues still fit when the worker gets no new one.          *)
LEMMA WorkerKept ==
  ASSUME TypeOK, TypeOK', KeepsRings, WorkerFits,
         \A q \in Queues : worker_rings'[q] # NoRing =>
            worker_rings'[q] = worker_rings[q] /\ queue_epochs'[q] = queue_epochs[q],
         \A w \in work' : w \in work
  PROVE  WorkerFits'
<1>1. ASSUME NEW q \in Queues, worker_rings'[q] # NoRing
      PROVE  Fits(q, worker_rings[q], queue_epochs[q])'
  <2>1. PICK r \in Nat, qe \in Nat : r = worker_rings[q] /\ qe = queue_epochs[q]
    BY DEF TypeOK
  <2>2. Fits(q, r, qe)
    BY <1>1, <2>1 DEF WorkerFits
  <2>3. Fits(q, r, qe)'
    BY <2>2, FitsKept
  <2>4. r = worker_rings'[q] /\ qe = queue_epochs'[q]
    BY <1>1, <2>1
  <2> QED
    BY <2>3, <2>4, Zenon DEF Fits
<1> QED
  BY <1>1 DEF WorkerFits

(* A step that leaves the main thread's view of the queues alone, or       *)
(* disables them all, keeps the rings.                                     *)
LEMMA QuietKeepsRings ==
  ASSUME TypeOK, queue_control' = queue_control,
         \/ rings' = rings /\ enabled' = enabled
         \/ enabled' = [q \in Queues |-> FALSE]
  PROVE  KeepsRings
<1> SUFFICES ASSUME NEW q \in Queues
             PROVE  /\ queue_control'[q] >= queue_control[q]
                    /\ queue_control'[q] = queue_control[q] /\ enabled'[q] =>
                         enabled[q] /\ rings'[q] = rings[q]
  BY Zenon DEF KeepsRings
<1>1. queue_control'[q] >= queue_control[q]
  BY DEF TypeOK
<1>2. enabled'[q] => enabled[q] /\ rings'[q] = rings[q]
  BY Zenon
<1> QED
  BY <1>1, <1>2, Zenon

(* A step that touches neither the worker nor the rings in place.          *)
LEMMA WorkerUntouched ==
  ASSUME TypeOK, TypeOK', KeepsRings, WorkerFits, UNCHANGED workerVars
  PROVE  WorkerFits'
<1>1. worker_rings' = worker_rings /\ queue_epochs' = queue_epochs /\ work' = work
  BY DEF workerVars
<1> QED
  BY <1>1, WorkerKept

(* Used rings that nobody writes keep only their own completions.          *)
LEMMA UsedUntouched ==
  ASSUME OwnCompletionsOnly, UNCHANGED <<rings, used>>
  PROVE  OwnCompletionsOnly'
  BY DEF OwnCompletionsOnly

(* The guest's own calls: a new ring comes with a new epoch.               *)
LEMMA GuestEpochs ==
  ASSUME TypeOK, TypeOK', EpochInv, GuestCall \/ Shutdown
  PROVE  EpochInv'
<1> USE DEF EpochInv
<1>1. ASSUME NEW q \in Queues, EnableQueue(q) PROVE EpochInv'
  <2> DEFINE m == EnableMessage(q, ring_count + 1, control, queue_control[q] + 1)
  <2>0. /\ ring_count \in Nat /\ ring_count + 1 \in Nat /\ control \in Nat
        /\ queue_control[q] + 1 \in Nat
    <3>1. ring_count \in Nat /\ control \in Nat /\ queue_control \in [Queues -> Nat]
      BY Zenon DEF TypeOK
    <3> QED
      BY <3>1
  <2>1. m \in WorkerMessage
    BY <2>0, MessagesTyped, Zenon
  <2>2. m.type = "enable" /\ m.vq = q /\ m.n = ring_count + 1 /\ m.qe = queue_control[q] + 1
    BY DEF EnableMessage
  <2>3. /\ to_worker' = Append(to_worker, m) /\ to_worker \in Seq(WorkerMessage)
        /\ to_main' = to_main /\ to_main \in Seq(MainMessage)
        /\ UNCHANGED workerVars
    BY <1>1, Zenon DEF EnableQueue, TypeOK
  <2>4. /\ queue_control'[q] = queue_control[q] + 1 /\ rings'[q] = ring_count + 1
        /\ \A p \in Queues \ {q} : /\ queue_control'[p] = queue_control[p]
                                   /\ rings'[p] = rings[p] /\ used'[p] = used[p]
        /\ used'[q] = {}
    BY <1>1 DEF EnableQueue, TypeOK
  <2>5. \A p \in Queues \ {q} : enabled'[p] = enabled[p]
    BY <1>1 DEF EnableQueue, TypeOK
  <2>6. KeepsRings
    <3> SUFFICES ASSUME NEW p \in Queues
                 PROVE  /\ queue_control'[p] >= queue_control[p]
                        /\ queue_control'[p] = queue_control[p] /\ enabled'[p] =>
                             enabled[p] /\ rings'[p] = rings[p]
      BY Zenon DEF KeepsRings
    <3>1. queue_control[p] \in Nat
      BY DEF TypeOK
    <3>2. CASE p = q
      <4>1. queue_control'[p] >= queue_control[p] /\ queue_control'[p] # queue_control[p]
        BY <2>4, <3>1, <3>2
      <4> QED
        BY <4>1, Zenon
    <3>3. CASE p # q
      <4>1. queue_control'[p] >= queue_control[p]
        BY <2>4, <3>1, <3>3
      <4> QED
        BY <4>1, <2>4, <2>5, <3>3, Zenon
    <3> QED
      BY <3>2, <3>3
  <2>7. EnablesFit'
    <3> SUFFICES ASSUME NEW i \in 1 .. Len(to_worker'), to_worker'[i].type = "enable"
                 PROVE  Fits(to_worker[i].vq, to_worker[i].n, to_worker[i].qe)'
      BY DEF EnablesFit
    <3>1. CASE i \in 1 .. Len(to_worker)
      <4>1. to_worker'[i] = to_worker[i] /\ to_worker[i] \in WorkerMessage
        BY <2>1, <2>3, <3>1, AppendToSeq
      <4>2. /\ to_worker[i].vq \in Queues /\ to_worker[i].n \in Nat
            /\ to_worker[i].qe \in Nat
        BY <4>1 DEF WorkerMessage, MessageOf
      <4>3. PICK p \in Queues, r \in Nat, qe \in Nat :
              p = to_worker[i].vq /\ r = to_worker[i].n /\ qe = to_worker[i].qe
        BY <4>2
      <4>4. Fits(p, r, qe)
        BY <3>1, <4>1, <4>3 DEF EnablesFit
      <4>5. Fits(p, r, qe)'
        BY <2>6, <4>4, FitsKept
      <4> QED
        BY <4>1, <4>3, <4>5, Zenon DEF Fits
    <3>2. CASE i = Len(to_worker) + 1
      <4>1. to_worker'[i] = m
        BY <2>1, <2>3, <3>2, AppendToSeq
      <4>2. ring_count + 1 # NoRing /\ queue_control[q] + 1 <= queue_control'[q]
        BY <2>0, <2>4 DEF NoRing
      <4> QED
        BY <4>1, <4>2, <2>2, <2>4, Zenon DEF Fits
    <3> QED
      BY <2>1, <2>3, <3>1, <3>2, AppendToSeq
  <2>8. CompletionsFit'
    BY <2>3, <2>6, OldInSame, CompletionsKept
  <2>9. WorkerFits'
    BY <2>3, <2>6, WorkerUntouched
  <2>10. OwnCompletionsOnly'
    BY <2>4 DEF OwnCompletionsOnly
  <2> QED
    BY <2>7, <2>8, <2>9, <2>10
<1>2. ASSUME NEW q \in Queues, DisableQueue(q) PROVE EpochInv'
  <2> DEFINE m == [Message("disable") EXCEPT !.vq = q]
  <2>1. m \in WorkerMessage /\ m.type # "enable"
    BY MessagesTyped, MessageTypes, Zenon
  <2>2. /\ to_worker' = Append(to_worker, m) /\ to_worker \in Seq(WorkerMessage)
        /\ to_main' = to_main /\ to_main \in Seq(MainMessage)
        /\ UNCHANGED workerVars
    BY <1>2, Zenon DEF DisableQueue, TypeOK
  <2>3. /\ queue_control'[q] = queue_control[q] + 1
        /\ \A p \in Queues \ {q} : /\ queue_control'[p] = queue_control[p]
                                   /\ rings'[p] = rings[p] /\ used'[p] = used[p]
        /\ used'[q] = {}
    BY <1>2 DEF DisableQueue, TypeOK
  <2>4. \A p \in Queues \ {q} : enabled'[p] = enabled[p]
    BY <1>2 DEF DisableQueue, TypeOK
  <2>5. KeepsRings
    <3> SUFFICES ASSUME NEW p \in Queues
                 PROVE  /\ queue_control'[p] >= queue_control[p]
                        /\ queue_control'[p] = queue_control[p] /\ enabled'[p] =>
                             enabled[p] /\ rings'[p] = rings[p]
      BY Zenon DEF KeepsRings
    <3>1. queue_control[p] \in Nat
      BY DEF TypeOK
    <3>2. CASE p = q
      <4>1. queue_control'[p] >= queue_control[p] /\ queue_control'[p] # queue_control[p]
        BY <2>3, <3>1, <3>2
      <4> QED
        BY <4>1, Zenon
    <3>3. CASE p # q
      <4>1. queue_control'[p] >= queue_control[p]
        BY <2>3, <3>1, <3>3
      <4> QED
        BY <4>1, <2>3, <2>4, <3>3, Zenon
    <3> QED
      BY <3>2, <3>3
  <2>6. EnablesFit'
    <3>1. OldIn(to_worker, to_worker', "enable")
      BY <2>1, <2>2, OldInAppend
    <3> QED
      BY <2>5, <3>1, EnablesKept
  <2>7. CompletionsFit'
    BY <2>2, <2>5, OldInSame, CompletionsKept
  <2>8. WorkerFits'
    BY <2>2, <2>5, WorkerUntouched
  <2>9. OwnCompletionsOnly'
    BY <2>3 DEF OwnCompletionsOnly
  <2> QED
    BY <2>6, <2>7, <2>8, <2>9
<1>3. ASSUME NEW q \in Queues, Notify(q) PROVE EpochInv'
  <2> DEFINE m == [Message("notify") EXCEPT !.vq = q, !.n = request_count + 1]
  <2>1. m \in WorkerMessage /\ m.type # "enable"
    <3>1. request_count + 1 \in Nat
      BY DEF TypeOK
    <3> QED
      BY <3>1, MessagesTyped, MessageTypes, Zenon
  <2>2. /\ to_worker' = Append(to_worker, m) /\ to_worker \in Seq(WorkerMessage)
        /\ to_main' = to_main /\ to_main \in Seq(MainMessage)
        /\ UNCHANGED workerVars /\ UNCHANGED <<rings, used>>
    BY <1>3, Zenon DEF Notify, TypeOK
  <2>3. KeepsRings
    BY <1>3, <2>2, QuietKeepsRings DEF Notify, mainVars
  <2>4. EnablesFit'
    <3>1. OldIn(to_worker, to_worker', "enable")
      BY <2>1, <2>2, OldInAppend
    <3> QED
      BY <2>3, <3>1, EnablesKept
  <2>5. CompletionsFit'
    BY <2>2, <2>3, OldInSame, CompletionsKept
  <2> QED
    BY <2>2, <2>3, <2>4, <2>5, WorkerUntouched, UsedUntouched
<1>4. CASE Reset
  <2> DEFINE m == [Message("reset") EXCEPT !.n = reset_count + 1]
  <2>1. m \in WorkerMessage /\ m.type # "enable"
    <3>1. reset_count + 1 \in Nat
      BY DEF TypeOK
    <3> QED
      BY <3>1, MessagesTyped, MessageTypes, Zenon
  <2>2. /\ to_worker' = Append(to_worker, m) /\ to_worker \in Seq(WorkerMessage)
        /\ to_main' = to_main /\ to_main \in Seq(MainMessage)
        /\ UNCHANGED workerVars
    BY <1>4, Zenon DEF Reset, TypeOK
  <2>3. KeepsRings
    BY <1>4, QuietKeepsRings, Zenon DEF Reset
  <2>4. EnablesFit'
    <3>1. OldIn(to_worker, to_worker', "enable")
      BY <2>1, <2>2, OldInAppend
    <3> QED
      BY <2>3, <3>1, EnablesKept
  <2>5. CompletionsFit'
    BY <2>2, <2>3, OldInSame, CompletionsKept
  <2>6. OwnCompletionsOnly'
    BY <1>4 DEF Reset, OwnCompletionsOnly
  <2> QED
    BY <2>2, <2>3, <2>4, <2>5, <2>6, WorkerUntouched
<1>5. CASE Shutdown
  <2>1. Message("close") \in WorkerMessage /\ Message("close").type # "enable"
    BY MessagesTyped, MessageTypes, Zenon
  <2>2. /\ to_worker' = Append(to_worker, Message("close"))
        /\ to_worker \in Seq(WorkerMessage)
        /\ to_main' = to_main /\ to_main \in Seq(MainMessage)
        /\ UNCHANGED workerVars /\ UNCHANGED <<rings, used>>
    BY <1>5, Zenon DEF Shutdown, TypeOK, guestVars
  <2>3. KeepsRings
    BY <1>5, QuietKeepsRings, Zenon DEF Shutdown
  <2>4. EnablesFit'
    <3>1. OldIn(to_worker, to_worker', "enable")
      BY <2>1, <2>2, OldInAppend
    <3> QED
      BY <2>3, <3>1, EnablesKept
  <2>5. CompletionsFit'
    BY <2>2, <2>3, OldInSame, CompletionsKept
  <2> QED
    BY <2>2, <2>3, <2>4, <2>5, WorkerUntouched, UsedUntouched
<1> QED
  BY <1>1, <1>2, <1>3, <1>4, <1>5 DEF GuestCall

(* The main thread's messages: only a completion whose epochs are still    *)
(* the present ones is written, so its ring is the one in place.           *)
LEMMA MainEpochs ==
  ASSUME TypeOK, TypeOK', EpochInv, MainReceive \/ EndpointFailure
  PROVE  EpochInv'
<1> USE DEF EpochInv
<1>0. to_main \in Seq(MainMessage) /\ to_worker \in Seq(WorkerMessage)
  BY DEF TypeOK
<1>1. CASE ReceiveComplete
  <2>1. /\ to_main # <<>> /\ Head(to_main).type = "complete"
        /\ to_main' = Tail(to_main) /\ to_worker' = to_worker /\ rings' = rings
        /\ UNCHANGED mainVars /\ UNCHANGED workerVars
    BY <1>1, Zenon DEF ReceiveComplete, Receive
  <2>2. KeepsRings
    BY <2>1, QuietKeepsRings DEF mainVars
  <2>3. EnablesFit'
    BY <1>0, <2>1, <2>2, OldInSame, EnablesKept
  <2>4. CompletionsFit'
    BY <1>0, <2>1, <2>2, OldInTail, CompletionsKept
  <2>5. OwnCompletionsOnly'
    <3> DEFINE m == Head(to_main)
    <3>1. CASE ~Publishable(m)
      <4>1. used' = used
        BY <1>1, <3>1, Zenon DEF ReceiveComplete
      <4> QED
        BY <2>1, <4>1, UsedUntouched
    <3>2. CASE Publishable(m)
      <4>1. used' = [used EXCEPT ![m.vq] = @ \cup {m.n}]
        BY <1>1, <3>2, Zenon DEF ReceiveComplete
      <4>2. m \in MainMessage /\ m = to_main[1] /\ 1 \in 1 .. Len(to_main)
        BY <1>0, <2>1, TailOfSeq
      <4>3. Fits(m.vq, m.n, m.qe)
        BY <2>1, <4>2, Zenon DEF CompletionsFit
      <4>4. m.vq \in Queues
        BY <2>1, <4>2 DEF MainMessage
      <4>5. m.n = rings[m.vq] /\ m.n # NoRing
        BY <3>2, <4>3, Zenon DEF Fits, Publishable
      <4>6. used \in [Queues -> SUBSET Nat]
        BY DEF TypeOK
      <4> HIDE DEF m
      <4>7. \A q \in Queues : used'[q] = IF q = m.vq THEN used[q] \cup {m.n} ELSE used[q]
        BY <4>1, <4>4, <4>6
      <4> QED
        <5> SUFFICES ASSUME NEW q \in Queues
                     PROVE  used'[q] \subseteq {rings'[q]} \ {NoRing}
          BY DEF OwnCompletionsOnly
        <5>1. used[q] \subseteq {rings[q]} \ {NoRing} /\ rings'[q] = rings[q]
          BY <2>1 DEF OwnCompletionsOnly
        <5>2. CASE q = m.vq
          <6>1. used'[q] = used[q] \cup {m.n} /\ m.n = rings[q]
            BY <4>5, <4>7, <5>2
          <6> QED
            BY <4>5, <5>1, <6>1
        <5>3. CASE q # m.vq
          BY <4>7, <5>1, <5>3
        <5> QED
          BY <5>2, <5>3
    <3> QED
      BY <3>1, <3>2
  <2> QED
    BY <2>1, <2>2, <2>3, <2>4, <2>5, WorkerUntouched
<1>2. ASSUME \/ ReceiveResetDone \/ ReceiveError \/ ReceiveClosed \/ EndpointFailure
      PROVE  EpochInv'
  <2>1. /\ to_worker' = to_worker /\ UNCHANGED workerVars /\ UNCHANGED <<rings, used>>
        /\ \/ to_main # <<>> /\ to_main' = Tail(to_main)
           \/ to_main' = to_main
    BY <1>2, Zenon DEF ReceiveResetDone, ReceiveError, ReceiveClosed, EndpointFailure,
         Receive, guestVars
  <2>2. /\ queue_control' = queue_control
        /\ enabled' = enabled \/ enabled' = [q \in Queues |-> FALSE]
    BY <1>2, Zenon DEF ReceiveResetDone, ReceiveError, ReceiveClosed, EndpointFailure
  <2>3. KeepsRings
    BY <2>1, <2>2, QuietKeepsRings
  <2>4. EnablesFit'
    BY <1>0, <2>1, <2>3, OldInSame, EnablesKept
  <2>5. CompletionsFit'
    <3>1. OldIn(to_main, to_main', "complete")
      BY <1>0, <2>1, OldInTail, OldInSame
    <3> QED
      BY <2>3, <3>1, CompletionsKept
  <2> QED
    BY <2>1, <2>3, <2>4, <2>5, WorkerUntouched, UsedUntouched
<1> QED
  BY <1>1, <1>2 DEF MainReceive

(* The worker's steps: the ring it works on fits the epochs it has, and so *)
(* does the completion it posts.                                           *)
LEMMA WorkerEpochs ==
  ASSUME TypeOK, TypeOK', EpochInv,
         WorkerStep \/ \E w \in work : FinishRequest(w) \/ FailRequest(w)
  PROVE  EpochInv'
<1> USE DEF EpochInv
<1>0. to_main \in Seq(MainMessage) /\ to_worker \in Seq(WorkerMessage)
  BY DEF TypeOK
<1>1. UNCHANGED guestVars /\ UNCHANGED mainVars
  BY Zenon DEF WorkerStep, HandleEnable, HandleDisable, HandleNotify, HandleReset,
         HandleClose, WorkerClosed, ResetSettled, FinishRequest, FailRequest
<1>2. KeepsRings /\ OwnCompletionsOnly'
  BY <1>1, QuietKeepsRings, UsedUntouched DEF guestVars, mainVars
<1>3. ASSUME NEW type, Handle(type), to_main' = to_main
      PROVE  EnablesFit' /\ CompletionsFit'
  <2>1. OldIn(to_worker, to_worker', "enable")
    BY <1>0, <1>3, OldInTail DEF Handle
  <2>2. OldIn(to_main, to_main', "complete")
    BY <1>0, <1>3, OldInSame
  <2> QED
    BY <1>2, <2>1, <2>2, EnablesKept, CompletionsKept
<1>4. ASSUME NEW m \in MainMessage, m.type # "complete",
             to_main' = Append(to_main, m), to_worker' = to_worker
      PROVE  EnablesFit' /\ CompletionsFit'
  <2>1. OldIn(to_worker, to_worker', "enable")
    BY <1>0, <1>4, OldInSame
  <2>2. OldIn(to_main, to_main', "complete")
    BY <1>0, <1>4, OldInAppend
  <2> QED
    BY <1>2, <2>1, <2>2, EnablesKept, CompletionsKept
<1>5. CASE HandleEnable
  <2> DEFINE m == Head(to_worker)
  <2>1. /\ Handle("enable") /\ to_main' = to_main /\ work' = work
        /\ queue_epochs' = [queue_epochs EXCEPT ![m.vq] = m.qe]
        /\ worker_rings' = [worker_rings EXCEPT ![m.vq] = m.n]
    BY <1>5, Zenon DEF HandleEnable
  <2>2. m.type = "enable" /\ m \in WorkerMessage /\ m = to_worker[1] /\ 1 \in 1 .. Len(to_worker)
    BY <1>0, <2>1, TailOfSeq DEF Handle
  <2>3. Fits(m.vq, m.n, m.qe)
    BY <2>2, Zenon DEF EnablesFit
  <2>4. m.vq \in Queues /\ m.n \in Nat /\ m.qe \in Nat
    BY <2>2 DEF WorkerMessage, MessageOf
  <2> HIDE DEF m
  <2>5. PICK v \in Queues, r \in Nat, e \in Nat : v = m.vq /\ r = m.n /\ e = m.qe
    BY <2>4
  <2>6. Fits(v, r, e)
    BY <2>3, <2>5
  <2>7. Fits(v, r, e)'
    BY <1>2, <2>6, FitsKept
  <2>8. /\ worker_rings'[v] = r /\ queue_epochs'[v] = e
        /\ \A q \in Queues \ {v} : /\ worker_rings'[q] = worker_rings[q]
                                   /\ queue_epochs'[q] = queue_epochs[q]
    BY <2>1, <2>5 DEF TypeOK
  <2>9. ASSUME NEW q \in Queues, worker_rings'[q] # NoRing
        PROVE  Fits(q, worker_rings[q], queue_epochs[q])'
    <3>1. CASE q = v
      BY <2>7, <2>8, <3>1, Zenon DEF Fits
    <3>2. CASE q # v
      <4>1. PICK rr \in Nat, ee \in Nat : rr = worker_rings[q] /\ ee = queue_epochs[q]
        BY DEF TypeOK
      <4>2. rr = worker_rings'[q] /\ ee = queue_epochs'[q]
        BY <2>8, <3>2, <4>1
      <4>3. Fits(q, rr, ee)
        BY <2>9, <4>1, <4>2 DEF WorkerFits
      <4>4. Fits(q, rr, ee)'
        BY <1>2, <4>3, FitsKept
      <4> QED
        BY <4>2, <4>4, Zenon DEF Fits
    <3> QED
      BY <3>1, <3>2
  <2>10. WorkerFits'
    BY <2>1, <2>9 DEF WorkerFits
  <2> QED
    BY <1>2, <1>3, <2>1, <2>10
<1>6. CASE HandleDisable \/ HandleReset
  <2>1. Handle("disable") \/ Handle("reset")
    BY <1>6, Zenon DEF HandleDisable, HandleReset
  <2>2. to_main' = to_main /\ work' = work /\ queue_epochs' = queue_epochs
    BY <1>6, Zenon DEF HandleDisable, HandleReset
  <2>3. \A q \in Queues : worker_rings'[q] # NoRing => worker_rings'[q] = worker_rings[q]
    BY <1>6 DEF HandleDisable, HandleReset, TypeOK
  <2>4. WorkerFits'
    BY <1>2, <2>2, <2>3, WorkerKept
  <2> QED
    BY <1>2, <1>3, <2>1, <2>2, <2>4
<1>7. CASE HandleNotify
  <2>1. /\ Handle("notify") /\ to_main' = to_main /\ worker_rings' = worker_rings
        /\ queue_epochs' = queue_epochs
    BY <1>7, Zenon DEF HandleNotify
  <2>2. \A w \in work' : w.ring # NoRing
    BY <1>7 DEF HandleNotify, WorkerFits
  <2>3. ASSUME NEW q \in Queues, worker_rings'[q] # NoRing
        PROVE  Fits(q, worker_rings[q], queue_epochs[q])'
    <3>1. PICK r \in Nat, e \in Nat : r = worker_rings[q] /\ e = queue_epochs[q]
      BY DEF TypeOK
    <3>2. Fits(q, r, e)
      BY <2>1, <2>3, <3>1 DEF WorkerFits
    <3>3. Fits(q, r, e)'
      BY <1>2, <3>2, FitsKept
    <3> QED
      BY <2>1, <3>1, <3>3, Zenon DEF Fits
  <2> QED
    BY <1>2, <1>3, <2>1, <2>2, <2>3 DEF WorkerFits
<1>8. CASE HandleClose
  <2>1. /\ Handle("close") /\ to_main' = to_main /\ worker_rings' = worker_rings
        /\ queue_epochs' = queue_epochs /\ work' = work
    BY <1>8, Zenon DEF HandleClose
  <2>2. WorkerFits'
    BY <1>2, <2>1, WorkerKept
  <2> QED
    BY <1>2, <1>3, <2>1, <2>2
<1>9. ASSUME \/ \E error \in BOOLEAN : WorkerClosed(error)
             \/ \E d \in draining : ResetSettled(d)
             \/ \E w \in work : FailRequest(w)
      PROVE  EpochInv'
  <2>1. PICK m \in MainMessage : m.type # "complete" /\ to_main' = Append(to_main, m)
    <3>1. CASE \E error \in BOOLEAN : WorkerClosed(error)
      BY <3>1, MessagesTyped, MessageTypes, Zenon DEF WorkerClosed
    <3>2. CASE \E d \in draining : ResetSettled(d)
      BY <3>2, MessagesTyped, MessageTypes, Zenon DEF ResetSettled
    <3>3. CASE \E w \in work : FailRequest(w)
      BY <3>3, MessagesTyped, MessageTypes, Zenon DEF FailRequest
    <3> QED
      BY <1>9, <3>1, <3>2, <3>3
  <2>3. /\ to_worker' = to_worker /\ worker_rings' = worker_rings
        /\ queue_epochs' = queue_epochs /\ \A w \in work' : w \in work
    BY <1>9 DEF WorkerClosed, ResetSettled, FailRequest
  <2>4. WorkerFits'
    BY <1>2, <2>3, WorkerKept
  <2> QED
    BY <1>2, <1>4, <2>1, <2>3, <2>4
<1>10. ASSUME NEW w \in work, FinishRequest(w) PROVE EpochInv'
  <2>1. /\ to_worker' = to_worker /\ worker_rings' = worker_rings
        /\ queue_epochs' = queue_epochs /\ \A x \in work' : x \in work
    BY <1>10 DEF FinishRequest
  <2>2. WorkerFits'
    BY <1>2, <2>1, WorkerKept
  <2>3. EnablesFit'
    BY <1>0, <1>2, <2>1, OldInSame, EnablesKept
  <2>4. CASE ~Posts(w)
    <3>1. to_main' = to_main
      BY <1>10, <2>4, Zenon DEF FinishRequest
    <3>2. CompletionsFit'
      BY <1>0, <1>2, <3>1, OldInSame, CompletionsKept
    <3> QED
      BY <1>2, <2>2, <2>3, <3>2
  <2>5. CASE Posts(w)
    <3> DEFINE m == CompleteMessage(w.vq, w.ring, device_epoch, queue_epochs[w.vq])
    <3>1. to_main' = Append(to_main, m)
      BY <1>10, <2>5, Zenon DEF FinishRequest
    <3>2. /\ w.vq \in Queues /\ w.ring \in Nat /\ device_epoch \in Nat
          /\ queue_epochs[w.vq] \in Nat
      BY DEF TypeOK, RequestType
    <3>3. /\ m \in MainMessage /\ m.vq = w.vq /\ m.n = w.ring
          /\ m.qe = queue_epochs[w.vq]
      <4>1. m \in MainMessage
        BY <3>2, MessagesTyped, Zenon
      <4>2. m.vq = w.vq /\ m.n = w.ring /\ m.qe = queue_epochs[w.vq]
        BY DEF CompleteMessage
      <4> QED
        BY <4>1, <4>2
    <3> HIDE DEF m
    <3>4. PICK v \in Queues, r \in Nat, e \in Nat : v = m.vq /\ r = m.n /\ e = m.qe
      BY <3>2, <3>3
    <3>5. Fits(v, r, e)
      <4>1. w.ring # NoRing /\ worker_rings[w.vq] = w.ring
        BY <2>5, Zenon DEF Posts, WorkerFits
      <4> QED
        BY <3>2, <3>3, <3>4, <4>1, Zenon DEF WorkerFits
    <3>6. Fits(v, r, e)'
      BY <1>2, <3>5, FitsKept
    <3>7. ASSUME NEW i \in 1 .. Len(to_main'), to_main'[i].type = "complete"
          PROVE  Fits(to_main[i].vq, to_main[i].n, to_main[i].qe)'
      <4>1. CASE i = Len(to_main) + 1
        <5>1. to_main'[i] = m
          BY <1>0, <3>1, <3>3, <4>1, AppendToSeq
        <5> QED
          BY <3>4, <3>6, <5>1, Zenon DEF Fits
      <4>2. CASE i \in 1 .. Len(to_main)
        <5>1. to_main'[i] = to_main[i] /\ to_main[i] \in MainMessage
          BY <1>0, <3>1, <3>3, <4>2, AppendToSeq
        <5>2. /\ to_main[i].vq \in Queues /\ to_main[i].n \in Nat
              /\ to_main[i].qe \in Nat
          BY <3>7, <5>1 DEF MainMessage, MessageOf
        <5>3. PICK p \in Queues, s \in Nat, f \in Nat :
                p = to_main[i].vq /\ s = to_main[i].n /\ f = to_main[i].qe
          BY <5>2
        <5>4. Fits(p, s, f)
          BY <3>7, <4>2, <5>1, <5>3 DEF CompletionsFit
        <5>5. Fits(p, s, f)'
          BY <1>2, <5>4, FitsKept
        <5> QED
          BY <5>1, <5>3, <5>5, Zenon DEF Fits
      <4> QED
        BY <1>0, <3>1, <3>3, <3>7, <4>1, <4>2, AppendToSeq
    <3>8. CompletionsFit'
      BY <3>7 DEF CompletionsFit
    <3> QED
      BY <1>2, <2>2, <2>3, <3>8
  <2> QED
    BY <2>4, <2>5
<1> QED
  BY <1>5, <1>6, <1>7, <1>8, <1>9, <1>10 DEF WorkerStep

(* A completion is written only into the ring it was taken from, for any   *)
(* number of queues and any sequence of enables, disables, resets,         *)
(* failures and shutdown racing with it: the epoch check of the main       *)
(* thread's "complete" handler is enough.                                  *)
THEOREM OwnCompletions == Spec => []OwnCompletionsOnly
<1>1. Init => EpochInv
  BY DEF Init, EpochInv, EnablesFit, CompletionsFit, WorkerFits, OwnCompletionsOnly
<1>2. TypeOK /\ TypeOK' /\ EpochInv /\ [Next]_vars => EpochInv'
  <2> SUFFICES ASSUME TypeOK, TypeOK', EpochInv, [Next]_vars PROVE EpochInv'
    OBVIOUS
  <2>1. CASE UNCHANGED vars
    BY <2>1 DEF vars, guestVars, mainVars, workerVars, EpochInv, EnablesFit,
           CompletionsFit, WorkerFits, Fits, OwnCompletionsOnly
  <2> QED
    BY <2>1, GuestEpochs, MainEpochs, WorkerEpochs, Zenon DEF Next
<1>3. EpochInv => OwnCompletionsOnly
  BY DEF EpochInv
<1> QED
  BY <1>1, <1>2, <1>3, TypeCorrect, PTL DEF Spec

-----------------------------------------------------------------------------
(***************************************************************************)
(* Nothing in flight.                                                      *)
(*                                                                         *)
(* The acknowledgements of resets carry no number: the main thread takes   *)
(* each for its oldest reset, while the worker may settle them in another  *)
(* order.  That is sound because of a count: as many resets are settled as *)
(* acknowledgements were sent, so that one of the settled resets is at     *)
(* least as late as the one the main thread releases, and a reset that has *)
(* settled has nothing left on any ring before it.                         *)
(***************************************************************************)
Acked == reset_count - Len(resets)
Dones == {i \in 1 .. Len(to_main) : to_main[i].type = "reset_done"}

(* Ring r was set up after the n-th reset and after those acknowledged: of *)
(* the a first resets, c is the limit, and s has the limits of the others. *)
Later(r, n, c, s, a) == r > c /\ \A k \in 1 .. Len(s) : a + k <= n => r > s[k]
After(r, n) == Later(r, n, reclaimed, resets, Acked)

(* The limits of the resets that wait, oldest first.                       *)
LimitsOrdered ==
  /\ Len(resets) <= reset_count /\ reclaimed <= ring_count
  /\ \A i \in 1 .. Len(resets) : reclaimed <= resets[i] /\ resets[i] <= ring_count
  /\ \A i, j \in 1 .. Len(resets) : i <= j => resets[i] <= resets[j]

(* The worker has handled h resets: the later ones are on their way to it, *)
(* in order.                                                               *)
Numbered(h) ==
  /\ h \in Nat /\ h <= reset_count
  /\ \A i \in 1 .. Len(to_worker) : to_worker[i].type = "reset" =>
       h < to_worker[i].n /\ to_worker[i].n <= reset_count
  /\ \A i, j \in 1 .. Len(to_worker) :
       to_worker[i].type = "reset" /\ to_worker[j].type = "reset" /\ i < j =>
         to_worker[i].n < to_worker[j].n
  /\ \A n \in Nat : h < n /\ n <= reset_count =>
       \E i \in 1 .. Len(to_worker) : to_worker[i].type = "reset" /\ to_worker[i].n = n

(* Of those, the ones that have settled are as many as were acknowledged.  *)
Settled(h) ==
  /\ IsFiniteSet(draining)
  /\ \A d \in draining : 1 <= d.n /\ d.n <= h
  /\ \A d, e \in draining : d.n = e.n => d = e
  /\ h - Cardinality(draining) = Acked + Cardinality(Dones)

(* What the worker works on, and what it is told to, is later than the     *)
(* resets it has handled by then.                                          *)
WorkerAfter(h) ==
  \A q \in Queues : worker_rings[q] # NoRing => After(worker_rings[q], h)
PortAfter(h) ==
  /\ \A i \in 1 .. Len(to_worker) : to_worker[i].type = "enable" => After(to_worker[i].n, h)
  /\ \A i, j \in 1 .. Len(to_worker) :
       to_worker[i].type = "enable" /\ to_worker[j].type = "reset" /\ j < i =>
         After(to_worker[i].n, to_worker[j].n)

(* What is in flight is later than every reset that has settled, and what  *)
(* is not later than a draining one is waited for by it.                   *)
WorkAfter(h) ==
  Views =>
    /\ \A w \in work : w.ring > reclaimed
    /\ \A n \in Nat : 1 <= n /\ n <= h /\ (\A d \in draining : d.n # n) =>
         \A w \in work : After(w.ring, n)
    /\ \A d \in draining, w \in work : After(w.ring, d.n) \/ w \in d.wait

ServingInv(h) ==
  /\ LimitsOrdered /\ Numbered(h) /\ Settled(h)
  /\ WorkerAfter(h) /\ PortAfter(h) /\ WorkAfter(h)

(* Once the worker has closed its device, it has nothing in flight.        *)
ClosedInv ==
  /\ ~serving => work = {}
  /\ closed = "resolved" => ~serving
  /\ \A i \in 1 .. Len(to_main) : to_main[i].type = "closed" => ~serving

(* The inductive invariant of NothingInFlight.                             *)
FlightInv == ClosedInv /\ (serving => \E h \in Nat : ServingInv(h))

-----------------------------------------------------------------------------
(* Later, as the resets are asked for and acknowledged.                    *)
LEMMA LaterFacts ==
  ASSUME NEW r \in Nat, NEW c \in Nat, NEW s \in Seq(Nat), NEW a \in Nat, NEW n \in Nat
  PROVE  /\ \A m \in Nat : m <= n /\ Later(r, n, c, s, a) => Later(r, m, c, s, a)
         /\ r > c /\ (\A k \in 1 .. Len(s) : r > s[k]) => Later(r, n, c, s, a)
         /\ \A x \in Nat : n <= a + Len(s) /\ Later(r, n, c, s, a) => Later(r, n, c, Append(s, x), a)
         /\ s # <<>> /\ r > s[1] /\ Later(r, n, c, s, a) => Later(r, n, s[1], Tail(s), a + 1)
         /\ s # <<>> /\ a < n /\ Later(r, n, c, s, a) => r > s[1]
<1>1. ASSUME NEW m \in Nat, m <= n, Later(r, n, c, s, a) PROVE Later(r, m, c, s, a)
  BY <1>1 DEF Later
<1>2. r > c /\ (\A k \in 1 .. Len(s) : r > s[k]) => Later(r, n, c, s, a)
  BY DEF Later
<1>3. ASSUME NEW x \in Nat, n <= a + Len(s), Later(r, n, c, s, a)
      PROVE  Later(r, n, c, Append(s, x), a)
  <2>1. Len(Append(s, x)) = Len(s) + 1 /\ \A k \in 1 .. Len(s) : Append(s, x)[k] = s[k]
    BY AppendToSeq
  <2>2. \A k \in 1 .. Len(Append(s, x)) : a + k <= n => k \in 1 .. Len(s)
    BY <1>3, <2>1
  <2> QED
    BY <1>3, <2>1, <2>2 DEF Later
<1>4. ASSUME s # <<>>, r > s[1], Later(r, n, c, s, a) PROVE Later(r, n, s[1], Tail(s), a + 1)
  <2>1. \A k \in 1 .. Len(Tail(s)) : k + 1 \in 1 .. Len(s) /\ Tail(s)[k] = s[k + 1]
    BY <1>4, TailOfSeq
  <2>2. \A k \in 1 .. Len(Tail(s)) : (a + 1) + k <= n => a + (k + 1) <= n
    BY <1>4, TailOfSeq
  <2> QED
    BY <1>4, <2>1, <2>2 DEF Later
<1>5. ASSUME s # <<>>, a < n, Later(r, n, c, s, a) PROVE r > s[1]
  <2>1. 1 \in 1 .. Len(s) /\ a + 1 <= n
    BY <1>5, TailOfSeq
  <2> QED
    BY <1>5, <2>1 DEF Later
<1> QED
  BY <1>1, <1>2, <1>3, <1>4, <1>5

(* Counting acknowledgements.                                              *)
LEMMA DonesFinite ==
  ASSUME TypeOK
  PROVE  IsFiniteSet(Dones) /\ Cardinality(Dones) \in Nat
<1>1. Len(to_main) \in Nat
  BY DEF TypeOK
<1>2. IsFiniteSet(1 .. Len(to_main))
  BY <1>1, FS_Interval
<1> QED
  BY <1>2, FS_Subset, FS_CardinalityType DEF Dones

LEMMA DonesAppend ==
  ASSUME TypeOK, NEW m \in MainMessage, to_main' = Append(to_main, m)
  PROVE  Cardinality(Dones') =
           IF m.type = "reset_done" THEN Cardinality(Dones) + 1 ELSE Cardinality(Dones)
<1>0. to_main \in Seq(MainMessage) /\ Len(to_main) \in Nat
  BY DEF TypeOK
<1>1. /\ Len(to_main') = Len(to_main) + 1 /\ to_main'[Len(to_main) + 1] = m
      /\ \A i \in 1 .. Len(to_main) : to_main'[i] = to_main[i]
  BY <1>0, AppendToSeq
<1>2. CASE m.type = "reset_done"
  <2>1. Dones' = Dones \cup {Len(to_main) + 1} /\ Len(to_main) + 1 \notin Dones
    BY <1>0, <1>1, <1>2 DEF Dones
  <2> QED
    BY <1>2, <2>1, DonesFinite, FS_AddElement
<1>3. CASE m.type # "reset_done"
  <2>1. Dones' = Dones
    BY <1>0, <1>1, <1>3 DEF Dones
  <2> QED
    BY <1>3, <2>1
<1> QED
  BY <1>2, <1>3

LEMMA DonesTail ==
  ASSUME TypeOK, to_main # <<>>, to_main' = Tail(to_main)
  PROVE  Cardinality(Dones) =
           IF Head(to_main).type = "reset_done" THEN Cardinality(Dones') + 1
           ELSE Cardinality(Dones')
<1>0. to_main \in Seq(MainMessage) /\ Len(to_main) \in Nat
  BY DEF TypeOK
<1>1. /\ Len(to_main') = Len(to_main) - 1 /\ Head(to_main) = to_main[1]
      /\ 1 \in 1 .. Len(to_main)
      /\ \A i \in 1 .. Len(to_main') : i + 1 \in 1 .. Len(to_main) /\ to_main'[i] = to_main[i + 1]
  BY <1>0, TailOfSeq
<1> DEFINE later == Dones \ {1}
           f == [i \in Dones' |-> i + 1]
<1>2. IsFiniteSet(later) /\ Cardinality(later) \in Nat
  BY DonesFinite, FS_RemoveElement, FS_CardinalityType
<1>3. f \in Bijection(Dones', later)
  <2>1. \A i \in Dones' : i \in Nat /\ f[i] = i + 1 /\ i + 1 \in later
    BY <1>1 DEF Dones
  <2>2. \A j \in later : j - 1 \in Dones' /\ f[j - 1] = j
    BY <1>0, <1>1 DEF Dones
  <2>3. \A i, j \in Dones' : f[i] = f[j] => i = j
    BY <2>1
  <2>4. f \in [Dones' -> later]
    BY <2>1
  <2>5. \A j \in later : \E i \in Dones' : f[i] = j
    BY <2>2
  <2> HIDE DEF f, later
  <2> QED
    BY <2>3, <2>4, <2>5 DEF Bijection, Injection, IsInjective, Surjection
<1>4. f \in Bijection(Dones', later) => Cardinality(Dones') = Cardinality(later)
  <2>1. IsFiniteSet(Dones')
    <3>1. Len(to_main') \in Nat
      BY <1>0, <1>1
    <3>2. IsFiniteSet(1 .. Len(to_main'))
      BY <3>1, FS_Interval
    <3> QED
      BY <3>2, FS_Subset DEF Dones
  <2> HIDE DEF f, later
  <2> QED
    BY <2>1, FS_Bijection DEF ExistsBijection
<1>5. 1 \in Dones <=> Head(to_main).type = "reset_done"
  BY <1>1 DEF Dones
<1>6. CASE 1 \in Dones
  BY <1>2, <1>3, <1>4, <1>5, <1>6, DonesFinite, FS_RemoveElement
<1>7. CASE 1 \notin Dones
  <2>1. later = Dones
    BY <1>7
  <2> QED
    BY <1>3, <1>4, <1>5, <1>7, <2>1
<1> QED
  BY <1>6, <1>7

-----------------------------------------------------------------------------
(* A step of the worker's port that takes or posts no reset, and posts no  *)
(* "enable".                                                               *)
PortStep ==
  \/ to_worker' = to_worker
  \/ to_worker # <<>> /\ Head(to_worker).type # "reset" /\ to_worker' = Tail(to_worker)
  \/ \E m \in WorkerMessage :
       m.type \notin {"reset", "enable"} /\ to_worker' = Append(to_worker, m)

LEMMA PortKept ==
  ASSUME TypeOK, NEW h, Numbered(h), PortAfter(h), PortStep,
         UNCHANGED <<resets, reclaimed, reset_count>>
  PROVE  Numbered(h)' /\ PortAfter(h)'
<1>0. to_worker \in Seq(WorkerMessage) /\ Len(to_worker) \in Nat /\ Acked' = Acked
  BY DEF TypeOK, Acked
<1>1. CASE to_worker' = to_worker
  BY <1>0, <1>1 DEF Numbered, PortAfter, After
<1>2. CASE to_worker # <<>> /\ Head(to_worker).type # "reset" /\ to_worker' = Tail(to_worker)
  <2>1. /\ Len(to_worker') = Len(to_worker) - 1 /\ to_worker[1].type # "reset"
        /\ \A i \in 1 .. Len(to_worker') :
             i + 1 \in 1 .. Len(to_worker) /\ to_worker'[i] = to_worker[i + 1]
    BY <1>0, <1>2, TailOfSeq
  <2>2. \A j \in 1 .. Len(to_worker) : to_worker[j].type = "reset" =>
          j - 1 \in 1 .. Len(to_worker') /\ to_worker'[j - 1] = to_worker[j]
    <3> SUFFICES ASSUME NEW j \in 1 .. Len(to_worker), to_worker[j].type = "reset"
                 PROVE  j - 1 \in 1 .. Len(to_worker') /\ to_worker'[j - 1] = to_worker[j]
      OBVIOUS
    <3>1. j # 1
      BY <2>1
    <3>2. j - 1 \in 1 .. Len(to_worker') /\ (j - 1) + 1 = j
      BY <1>0, <2>1, <3>1
    <3> QED
      BY <2>1, <3>2
  <2>3. Numbered(h)'
    <3>1. \A i \in 1 .. Len(to_worker') : to_worker'[i].type = "reset" =>
            h < to_worker'[i].n /\ to_worker'[i].n <= reset_count'
      BY <2>1 DEF Numbered
    <3>2. \A i, j \in 1 .. Len(to_worker') :
            to_worker'[i].type = "reset" /\ to_worker'[j].type = "reset" /\ i < j =>
              to_worker'[i].n < to_worker'[j].n
      <4> SUFFICES ASSUME NEW i \in 1 .. Len(to_worker'), NEW j \in 1 .. Len(to_worker'),
                          to_worker'[i].type = "reset", to_worker'[j].type = "reset", i < j
                   PROVE  to_worker'[i].n < to_worker'[j].n
        OBVIOUS
      <4>1. i + 1 < j + 1
        OBVIOUS
      <4> QED
        BY <2>1, <4>1 DEF Numbered
    <3>3. \A n \in Nat : h < n /\ n <= reset_count' =>
            \E i \in 1 .. Len(to_worker') : to_worker'[i].type = "reset" /\ to_worker'[i].n = n
      BY <2>2 DEF Numbered
    <3> QED
      BY <3>1, <3>2, <3>3 DEF Numbered
  <2>4. PortAfter(h)'
    <3>1. \A i \in 1 .. Len(to_worker') : to_worker'[i].type = "enable" =>
            Later(to_worker'[i].n, h, reclaimed', resets', Acked')
      BY <1>0, <2>1 DEF PortAfter, After
    <3>2. \A i, j \in 1 .. Len(to_worker') :
            to_worker'[i].type = "enable" /\ to_worker'[j].type = "reset" /\ j < i =>
              Later(to_worker'[i].n, to_worker'[j].n, reclaimed', resets', Acked')
      <4> SUFFICES ASSUME NEW i \in 1 .. Len(to_worker'), NEW j \in 1 .. Len(to_worker'),
                          to_worker'[i].type = "enable", to_worker'[j].type = "reset", j < i
                   PROVE  Later(to_worker'[i].n, to_worker'[j].n, reclaimed', resets', Acked')
        OBVIOUS
      <4>1. j + 1 < i + 1
        OBVIOUS
      <4> QED
        BY <1>0, <2>1, <4>1 DEF PortAfter, After
    <3> QED
      BY <3>1, <3>2 DEF PortAfter, After
  <2> QED
    BY <2>3, <2>4
<1>3. CASE \E m \in WorkerMessage :
             m.type \notin {"reset", "enable"} /\ to_worker' = Append(to_worker, m)
  <2>0. PICK m \in WorkerMessage :
          m.type \notin {"reset", "enable"} /\ to_worker' = Append(to_worker, m)
    BY <1>3
  <2>1. /\ Len(to_worker') = Len(to_worker) + 1 /\ to_worker'[Len(to_worker) + 1] = m
        /\ \A i \in 1 .. Len(to_worker) : to_worker'[i] = to_worker[i]
    BY <1>0, <2>0, AppendToSeq
  <2>2. \A i \in 1 .. Len(to_worker') : to_worker'[i].type \in {"reset", "enable"} =>
          i \in 1 .. Len(to_worker) /\ to_worker'[i] = to_worker[i]
    BY <1>0, <2>0, <2>1
  <2>3. 1 .. Len(to_worker) \subseteq 1 .. Len(to_worker')
    BY <1>0, <2>1
  <2>4. Numbered(h)'
    BY <2>1, <2>2, <2>3 DEF Numbered
  <2>5. PortAfter(h)'
    BY <1>0, <2>2 DEF PortAfter, After
  <2> QED
    BY <2>4, <2>5
<1> QED
  BY <1>1, <1>2, <1>3 DEF PortStep

(* A step that asks for, settles and acknowledges no reset.                *)
LEMMA NoResetStep ==
  ASSUME TypeOK, NEW h, ServingInv(h), PortStep,
         UNCHANGED <<resets, reclaimed, reset_count, ring_count, draining>>,
         Cardinality(Dones') = Cardinality(Dones),
         \A q \in Queues : worker_rings'[q] # NoRing => After(worker_rings'[q], h),
         \A w \in work' : w \in work \/ (After(w.ring, h) /\ w.ring \in Nat)
  PROVE  ServingInv(h)'
<1> USE DEF ServingInv
<1>0. Acked' = Acked
  BY DEF Acked
<1>1. LimitsOrdered' /\ Settled(h)'
  BY <1>0 DEF LimitsOrdered, Settled
<1>2. Numbered(h)' /\ PortAfter(h)'
  BY PortKept
<1>3. WorkerAfter(h)'
  BY <1>0 DEF WorkerAfter, After
<1>4. WorkAfter(h)'
  <2> SUFFICES ASSUME Views PROVE WorkAfter(h)'
    BY DEF WorkAfter
  <2>1. /\ h \in Nat /\ reclaimed \in Nat /\ resets \in Seq(Nat) /\ Acked \in Nat
        /\ \A d \in draining : d.n \in Nat /\ d.n <= h
    <3>1. Len(resets) \in Nat /\ reset_count \in Nat /\ Len(resets) <= reset_count
      BY DEF TypeOK, LimitsOrdered
    <3> QED
      BY <3>1 DEF TypeOK, Numbered, Acked, Settled
  <2>2. \A w \in work' : w \in work \/
          (w.ring > reclaimed /\ \A n \in Nat : n <= h => After(w.ring, n))
    BY <2>1, LaterFacts DEF After, Later
  <2>3. \A w \in work' : w.ring > reclaimed
    BY <2>2 DEF WorkAfter
  <2>4. \A n \in Nat : 1 <= n /\ n <= h /\ (\A d \in draining : d.n # n) =>
          \A w \in work' : After(w.ring, n)
    BY <2>2 DEF WorkAfter
  <2>5. \A d \in draining, w \in work' : After(w.ring, d.n) \/ w \in d.wait
    BY <2>1, <2>2 DEF WorkAfter
  <2> QED
    BY <1>0, <2>3, <2>4, <2>5 DEF WorkAfter, After
<1> QED
  BY <1>1, <1>2, <1>3, <1>4

LEMMA ServingTyped ==
  ASSUME TypeOK, NEW h, ServingInv(h)
  PROVE  /\ h \in Nat /\ reset_count \in Nat /\ ring_count \in Nat /\ reclaimed \in Nat
         /\ resets \in Seq(Nat) /\ Len(resets) \in Nat /\ Acked \in Nat
         /\ Acked + Len(resets) = reset_count /\ h <= reset_count
         /\ \A k \in 1 .. Len(resets) : resets[k] \in Nat
         /\ to_worker \in Seq(WorkerMessage) /\ Len(to_worker) \in Nat
         /\ \A i \in 1 .. Len(to_worker) : to_worker[i].n \in Nat
         /\ \A q \in Queues : worker_rings[q] \in Nat
         /\ \A w \in work : w.ring \in Nat
         /\ \A d \in draining : d.n \in Nat
         /\ IsFiniteSet(draining) /\ Cardinality(draining) \in Nat /\ Cardinality(Dones) \in Nat
<1>1. /\ reset_count \in Nat /\ ring_count \in Nat /\ reclaimed \in Nat
      /\ resets \in Seq(Nat) /\ Len(resets) \in Nat /\ Len(resets) <= reset_count
  BY DEF TypeOK, ServingInv, LimitsOrdered
<1>2. Acked \in Nat /\ Acked + Len(resets) = reset_count
  BY <1>1 DEF Acked
<1>3. h \in Nat /\ h <= reset_count /\ IsFiniteSet(draining)
  BY DEF ServingInv, Numbered, Settled
<1>4. to_worker \in Seq(WorkerMessage) /\ Len(to_worker) \in Nat
  BY DEF TypeOK
<1>5. \A i \in 1 .. Len(to_worker) : to_worker[i].n \in Nat
  <2>1. \A i \in 1 .. Len(to_worker) : to_worker[i] \in WorkerMessage
    BY <1>4
  <2> QED
    BY <2>1 DEF WorkerMessage, MessageOf
<1>6. /\ \A q \in Queues : worker_rings[q] \in Nat
      /\ \A w \in work : w.ring \in Nat
      /\ \A d \in draining : d.n \in Nat
  BY DEF TypeOK, RequestType
<1>7. Cardinality(draining) \in Nat /\ Cardinality(Dones) \in Nat
  BY <1>3, FS_CardinalityType, DonesFinite
<1> QED
  BY <1>1, <1>2, <1>3, <1>4, <1>5, <1>6, <1>7, SMTT(60)

(* A new ring is later than every reset asked for so far.                  *)
LEMMA EnableServing ==
  ASSUME TypeOK, NEW h, ServingInv(h), NEW q \in Queues, EnableQueue(q)
  PROVE  ServingInv(h)'
<1> USE DEF ServingInv
<1> DEFINE m == EnableMessage(q, ring_count + 1, control, queue_control[q] + 1)
<1>t. /\ h \in Nat /\ reset_count \in Nat /\ ring_count \in Nat /\ reclaimed \in Nat
      /\ resets \in Seq(Nat) /\ Acked \in Nat /\ ring_count + 1 \in Nat
      /\ \A k \in 1 .. Len(resets) : resets[k] \in Nat
      /\ to_worker \in Seq(WorkerMessage) /\ Len(to_worker) \in Nat
      /\ \A i \in 1 .. Len(to_worker) : to_worker[i].n \in Nat
  BY ServingTyped
<1>0. /\ UNCHANGED <<reclaimed, reset_count, resets, draining, worker_rings, work, to_main>>
      /\ ring_count' = ring_count + 1 /\ to_worker' = Append(to_worker, m)
  BY DEF EnableQueue, workerVars
<1>m. m \in WorkerMessage /\ m.type = "enable" /\ m.n = ring_count + 1
  <2>1. control \in Nat /\ queue_control[q] + 1 \in Nat
    BY DEF TypeOK
  <2>2. m \in WorkerMessage
    BY <1>t, <2>1, MessagesTyped, Zenon
  <2> QED
    BY <2>2 DEF EnableMessage
<1> HIDE DEF m
<1>1. Acked' = Acked /\ Dones' = Dones
  BY <1>0 DEF Acked, Dones
<1>2. LimitsOrdered'
  BY <1>0, <1>t DEF LimitsOrdered
<1>3. Settled(h)' /\ WorkerAfter(h)' /\ WorkAfter(h)'
  BY <1>0, <1>1 DEF Settled, WorkerAfter, WorkAfter, After
<1>4. /\ Len(to_worker') = Len(to_worker) + 1 /\ to_worker'[Len(to_worker) + 1] = m
      /\ \A i \in 1 .. Len(to_worker) : to_worker'[i] = to_worker[i]
  BY <1>0, <1>m, <1>t, AppendToSeq
<1>5. \A i \in 1 .. Len(to_worker') :
        i = Len(to_worker) + 1 \/ (i \in 1 .. Len(to_worker) /\ to_worker'[i] = to_worker[i])
  BY <1>4, <1>t
<1>6. Numbered(h)'
  <2>1. 1 .. Len(to_worker) \subseteq 1 .. Len(to_worker')
    BY <1>4, <1>t
  <2>2. \A i \in 1 .. Len(to_worker') : to_worker'[i].type = "reset" =>
          i \in 1 .. Len(to_worker) /\ to_worker'[i] = to_worker[i]
    BY <1>4, <1>5, <1>m
  <2> QED
    BY <1>0, <1>4, <2>1, <2>2 DEF Numbered
<1>7. \A n \in Nat : Later(ring_count + 1, n, reclaimed, resets, Acked)
  <2>1. ring_count + 1 > reclaimed /\ \A k \in 1 .. Len(resets) : ring_count + 1 > resets[k]
    BY <1>t DEF LimitsOrdered
  <2> QED
    BY <1>t, <2>1, LaterFacts
<1>8. PortAfter(h)'
  <2>1. \A i \in 1 .. Len(to_worker') : to_worker'[i].type = "enable" =>
          Later(to_worker'[i].n, h, reclaimed, resets, Acked)
    BY <1>4, <1>5, <1>7, <1>m, <1>t DEF PortAfter, After
  <2>2. \A i, j \in 1 .. Len(to_worker') :
          to_worker'[i].type = "enable" /\ to_worker'[j].type = "reset" /\ j < i =>
            Later(to_worker'[i].n, to_worker'[j].n, reclaimed, resets, Acked)
    <3> SUFFICES ASSUME NEW i \in 1 .. Len(to_worker'), NEW j \in 1 .. Len(to_worker'),
                        to_worker'[i].type = "enable", to_worker'[j].type = "reset", j < i
                 PROVE  Later(to_worker'[i].n, to_worker'[j].n, reclaimed, resets, Acked)
      OBVIOUS
    <3>1. j \in 1 .. Len(to_worker) /\ to_worker'[j] = to_worker[j] /\ to_worker'[j].n \in Nat
      BY <1>4, <1>5, <1>m, <1>t
    <3>2. CASE i = Len(to_worker) + 1
      BY <1>4, <1>7, <1>m, <3>1, <3>2
    <3>3. CASE i \in 1 .. Len(to_worker) /\ to_worker'[i] = to_worker[i]
      BY <3>1, <3>3 DEF PortAfter, After
    <3> QED
      BY <1>5, <3>2, <3>3
  <2> QED
    BY <1>0, <1>1, <2>1, <2>2 DEF PortAfter, After
<1> QED
  BY <1>2, <1>3, <1>6, <1>8

(* A reset is asked for: it is the latest, and what was later than some    *)
(* reset before still is.                                                  *)
LEMMA AskServing ==
  ASSUME TypeOK, NEW h, ServingInv(h), Reset
  PROVE  ServingInv(h)'
<1> USE DEF ServingInv
<1> DEFINE m == [Message("reset") EXCEPT !.n = reset_count + 1]
<1>t. /\ h \in Nat /\ reset_count \in Nat /\ ring_count \in Nat /\ reclaimed \in Nat
      /\ resets \in Seq(Nat) /\ Acked \in Nat /\ reset_count + 1 \in Nat
      /\ \A k \in 1 .. Len(resets) : resets[k] \in Nat
      /\ to_worker \in Seq(WorkerMessage) /\ Len(to_worker) \in Nat /\ Len(resets) \in Nat
      /\ Acked + Len(resets) = reset_count /\ h <= reset_count
  BY ServingTyped
<1>u. /\ \A i \in 1 .. Len(to_worker) : to_worker[i].n \in Nat
      /\ \A q \in Queues : worker_rings[q] \in Nat
      /\ \A w \in work : w.ring \in Nat
      /\ \A d \in draining : d.n \in Nat /\ d.n <= h
  BY ServingTyped DEF Settled
<1>0. /\ UNCHANGED <<reclaimed, ring_count, draining, worker_rings, work, to_main>>
      /\ reset_count' = reset_count + 1 /\ resets' = Append(resets, ring_count)
      /\ to_worker' = Append(to_worker, m)
  BY DEF Reset, workerVars
<1>m. m \in WorkerMessage /\ m.type = "reset" /\ m.n = reset_count + 1
  <2>1. m \in WorkerMessage
    BY <1>t, MessagesTyped, Zenon
  <2> QED
    BY <2>1 DEF Message
<1> HIDE DEF m
<1>1. /\ Len(resets') = Len(resets) + 1 /\ resets'[Len(resets) + 1] = ring_count
      /\ \A i \in 1 .. Len(resets) : resets'[i] = resets[i]
  BY <1>0, <1>t, AppendToSeq
<1>2. Acked' = Acked /\ Dones' = Dones
  BY <1>0, <1>1, <1>t DEF Acked, Dones
<1>3. LimitsOrdered'
  <2>1. \A i \in 1 .. Len(resets') : i = Len(resets) + 1 \/ i \in 1 .. Len(resets)
    BY <1>1, <1>t
  <2>2. \A i \in 1 .. Len(resets') : reclaimed' <= resets'[i] /\ resets'[i] <= ring_count'
    BY <1>0, <1>1, <1>t, <2>1 DEF LimitsOrdered
  <2>3. \A i, j \in 1 .. Len(resets') : i <= j => resets'[i] <= resets'[j]
    BY <1>0, <1>1, <1>t, <2>1 DEF LimitsOrdered
  <2>4. Len(resets') <= reset_count' /\ reclaimed' <= ring_count'
    BY <1>0, <1>1, <1>t DEF LimitsOrdered
  <2> QED
    BY <2>2, <2>3, <2>4 DEF LimitsOrdered
<1>4. Settled(h)'
  BY <1>0, <1>2 DEF Settled
<1>5. /\ Len(to_worker') = Len(to_worker) + 1 /\ to_worker'[Len(to_worker) + 1] = m
      /\ \A i \in 1 .. Len(to_worker) : to_worker'[i] = to_worker[i]
  BY <1>0, <1>m, <1>t, AppendToSeq
<1>6. \A i \in 1 .. Len(to_worker') :
        i = Len(to_worker) + 1 \/ (i \in 1 .. Len(to_worker) /\ to_worker'[i] = to_worker[i])
  BY <1>5, <1>t
<1>7. Numbered(h)'
  <2>1. h \in Nat /\ h <= reset_count'
    BY <1>0, <1>t
  <2>2. \A i \in 1 .. Len(to_worker') : to_worker'[i].type = "reset" =>
          h < to_worker'[i].n /\ to_worker'[i].n <= reset_count'
    BY <1>0, <1>5, <1>6, <1>m, <1>t, <1>u DEF Numbered
  <2>3. \A i, j \in 1 .. Len(to_worker') :
          to_worker'[i].type = "reset" /\ to_worker'[j].type = "reset" /\ i < j =>
            to_worker'[i].n < to_worker'[j].n
    <3> SUFFICES ASSUME NEW i \in 1 .. Len(to_worker'), NEW j \in 1 .. Len(to_worker'),
                        to_worker'[i].type = "reset", to_worker'[j].type = "reset", i < j
                 PROVE  to_worker'[i].n < to_worker'[j].n
      OBVIOUS
    <3>1. i \in 1 .. Len(to_worker) /\ to_worker'[i] = to_worker[i]
      BY <1>5, <1>6, <1>t
    <3>2. to_worker[i].n \in Nat /\ to_worker[i].n <= reset_count
      BY <1>u, <3>1 DEF Numbered
    <3>3. CASE j = Len(to_worker) + 1
      BY <1>5, <1>m, <1>t, <3>1, <3>2, <3>3
    <3>4. CASE j \in 1 .. Len(to_worker) /\ to_worker'[j] = to_worker[j]
      BY <3>1, <3>4 DEF Numbered
    <3> QED
      BY <1>6, <3>3, <3>4
  <2>4. ASSUME NEW n \in Nat, h < n, n <= reset_count'
        PROVE  \E i \in 1 .. Len(to_worker') : to_worker'[i].type = "reset" /\ to_worker'[i].n = n
    <3>1. CASE n = reset_count + 1
      BY <1>5, <1>m, <1>t, <3>1, SMTT(60)
    <3>2. CASE n <= reset_count
      <4>1. PICK i \in 1 .. Len(to_worker) : to_worker[i].type = "reset" /\ to_worker[i].n = n
        BY <2>4, <3>2 DEF Numbered
      <4>2. i \in 1 .. Len(to_worker') /\ to_worker'[i] = to_worker[i]
        BY <1>5, <1>t, <4>1
      <4> QED
        BY <4>1, <4>2
    <3> QED
      BY <1>0, <1>t, <2>4, <3>1, <3>2
  <2> QED
    BY <2>1, <2>2, <2>3, <2>4 DEF Numbered
<1>8. \A r, n \in Nat : n <= reset_count /\ After(r, n) => Later(r, n, reclaimed', resets', Acked')
  BY <1>0, <1>2, <1>t, LaterFacts DEF After
<1>9. WorkerAfter(h)'
  BY <1>0, <1>8, <1>t, <1>u DEF WorkerAfter, After
<1>10. PortAfter(h)'
  <2>1. \A i \in 1 .. Len(to_worker') : to_worker'[i].type = "enable" =>
          i \in 1 .. Len(to_worker) /\ to_worker'[i] = to_worker[i]
    BY <1>5, <1>6, <1>m
  <2>2. \A i, j \in 1 .. Len(to_worker') :
          to_worker'[i].type = "enable" /\ to_worker'[j].type = "reset" /\ j < i =>
            j \in 1 .. Len(to_worker) /\ to_worker'[j] = to_worker[j] /\ to_worker[j].n <= reset_count
    BY <1>6, <1>t, <2>1 DEF Numbered
  <2>3. \A i \in 1 .. Len(to_worker') : to_worker'[i].type = "enable" =>
          Later(to_worker'[i].n, h, reclaimed', resets', Acked')
    BY <1>8, <1>t, <1>u, <2>1 DEF PortAfter
  <2>4. \A i, j \in 1 .. Len(to_worker') :
          to_worker'[i].type = "enable" /\ to_worker'[j].type = "reset" /\ j < i =>
            Later(to_worker'[i].n, to_worker'[j].n, reclaimed', resets', Acked')
    BY <1>8, <1>u, <2>1, <2>2 DEF PortAfter
  <2> QED
    BY <2>3, <2>4 DEF PortAfter, After
<1>11. WorkAfter(h)'
  <2> SUFFICES ASSUME Views PROVE WorkAfter(h)'
    BY DEF WorkAfter
  <2>1. \A w \in work' : w.ring > reclaimed'
    BY <1>0 DEF WorkAfter
  <2>2. \A n \in Nat : 1 <= n /\ n <= h /\ (\A d \in draining : d.n # n) =>
          \A w \in work : Later(w.ring, n, reclaimed', resets', Acked')
    BY <1>8, <1>t, <1>u DEF WorkAfter
  <2>3. \A d \in draining, w \in work :
          Later(w.ring, d.n, reclaimed', resets', Acked') \/ w \in d.wait
    BY <1>8, <1>t, <1>u DEF WorkAfter
  <2> QED
    BY <1>0, <2>1, <2>2, <2>3 DEF WorkAfter, After
<1> QED
  BY <1>3, <1>4, <1>7, <1>9, <1>10, <1>11

(* The pigeons: if h resets were handled and fewer than h - a are still    *)
(* draining, one of the resets after the a-th has settled.                 *)
LEMMA SomeSettled ==
  ASSUME NEW h \in Nat, NEW a \in Nat, NEW D, IsFiniteSet(D),
         a < h - Cardinality(D)
  PROVE  \E n \in Nat : a < n /\ n <= h /\ \A d \in D : d.n # n
<1> DEFINE numbers == {d.n : d \in D}
           open == (1 .. h) \ numbers
<1>1. IsFiniteSet(numbers) /\ Cardinality(numbers) <= Cardinality(D)
  <2> DEFINE f == [d \in D |-> d.n]
  <2>1. f \in Surjection(D, numbers)
    BY DEF Surjection
  <2> HIDE DEF f, numbers
  <2> QED
    BY <2>1, FS_Surjection DEF ExistsSurjection
<1>2. Cardinality(numbers) \in Nat /\ Cardinality(D) \in Nat
  BY <1>1, FS_CardinalityType
<1>3. IsFiniteSet(1 .. h) /\ Cardinality(1 .. h) = h
  BY FS_Interval
<1>4. /\ IsFiniteSet((1 .. h) \cap numbers)
      /\ Cardinality((1 .. h) \cap numbers) <= Cardinality(numbers)
      /\ Cardinality((1 .. h) \cap numbers) \in Nat
  <2>1. (1 .. h) \cap numbers \subseteq numbers
    OBVIOUS
  <2> QED
    BY <1>1, <2>1, FS_Subset, FS_CardinalityType
<1>5. IsFiniteSet(open) /\ Cardinality(open) = h - Cardinality((1 .. h) \cap numbers)
  BY <1>3, FS_Difference
<1>6. Cardinality(open) > a
  BY <1>1, <1>2, <1>4, <1>5
<1>7. IsFiniteSet(1 .. a) /\ Cardinality(1 .. a) = a
  BY FS_Interval
<1>8. ~ (open \subseteq 1 .. a)
  <2> SUFFICES ASSUME open \subseteq 1 .. a PROVE FALSE
    OBVIOUS
  <2>1. Cardinality(open) <= a
    BY <1>7, FS_Subset
  <2>2. Cardinality(open) \in Nat
    BY <1>5, FS_CardinalityType
  <2> HIDE DEF open
  <2> QED
    BY <1>6, <2>1, <2>2
<1>9. PICK n \in 1 .. h : n \notin numbers /\ n \notin 1 .. a
  BY <1>8
<1> QED
  BY <1>9

(* The main thread takes an acknowledgement for its oldest reset.          *)
LEMMA AckServing ==
  ASSUME TypeOK, NEW h, ServingInv(h), ReceiveResetDone
  PROVE  ServingInv(h)'
<1> USE DEF ServingInv
<1> DEFINE limit == resets[1]
<1>t. /\ h \in Nat /\ reset_count \in Nat /\ ring_count \in Nat /\ reclaimed \in Nat
      /\ resets \in Seq(Nat) /\ Len(resets) \in Nat /\ Acked \in Nat
      /\ Acked + Len(resets) = reset_count /\ h <= reset_count
      /\ \A k \in 1 .. Len(resets) : resets[k] \in Nat
      /\ IsFiniteSet(draining) /\ Cardinality(draining) \in Nat /\ Cardinality(Dones) \in Nat
  BY ServingTyped
<1>u. /\ \A i \in 1 .. Len(to_worker) : to_worker[i].n \in Nat
      /\ \A q \in Queues : worker_rings[q] \in Nat
      /\ \A w \in work : w.ring \in Nat
      /\ \A d \in draining : d.n \in Nat
  BY ServingTyped
<1>0. /\ UNCHANGED <<ring_count, reset_count, draining, worker_rings, work, to_worker>>
      /\ to_main # <<>> /\ Head(to_main).type = "reset_done" /\ to_main' = Tail(to_main)
  BY DEF ReceiveResetDone, Receive, workerVars
<1>1. Cardinality(Dones) = Cardinality(Dones') + 1 /\ Cardinality(Dones') \in Nat
  <2>1. Cardinality(Dones) = Cardinality(Dones') + 1
    BY <1>0, DonesTail
  <2>2. IsFiniteSet(Dones')
    <3>1. to_main \in Seq(MainMessage)
      BY DEF TypeOK
    <3>2. Len(to_main') \in Nat
      BY <1>0, <3>1, TailOfSeq
    <3>3. IsFiniteSet(1 .. Len(to_main'))
      BY <3>2, FS_Interval
    <3> QED
      BY <3>3, FS_Subset DEF Dones
  <2> QED
    BY <2>1, <2>2, FS_CardinalityType
<1>2. Acked < h - Cardinality(draining)
  BY <1>1, <1>t DEF Settled
<1>3. PICK s \in Nat : Acked < s /\ s <= h /\ \A d \in draining : d.n # s
  BY <1>2, <1>t, SomeSettled
<1>4. resets # <<>> /\ 1 \in 1 .. Len(resets) /\ limit \in Nat /\ Acked < h
  <2>1. Len(resets) > 0
    BY <1>3, <1>t
  <2> QED
    BY <1>3, <1>t, <2>1
<1>5. /\ Len(Tail(resets)) = Len(resets) - 1 /\ Head(resets) = limit
      /\ \A i \in 1 .. Len(Tail(resets)) :
           i + 1 \in 1 .. Len(resets) /\ Tail(resets)[i] = resets[i + 1]
  BY <1>4, <1>t, TailOfSeq
<1>6. reclaimed <= limit /\ limit <= ring_count
  BY <1>4 DEF LimitsOrdered
<1>7. reclaimed' = limit /\ resets' = Tail(resets)
  BY <1>4, <1>5, <1>6, <1>t DEF ReceiveResetDone, Reclaim
<1>8. Acked' = Acked + 1
  <2>1. Len(resets') = Len(resets) - 1 /\ reset_count' = reset_count
    BY <1>0, <1>5, <1>7
  <2>2. Acked = reset_count - Len(resets) /\ Acked' = reset_count' - Len(resets')
    BY DEF Acked
  <2> QED
    BY <1>t, <2>1, <2>2
<1>9. \A r, n \in Nat : r > limit /\ After(r, n) => Later(r, n, reclaimed', resets', Acked')
  BY <1>4, <1>7, <1>8, <1>t, LaterFacts DEF After
<1>10. \A r, n \in Nat : Acked < n /\ After(r, n) => r > limit
  BY <1>4, <1>t, LaterFacts DEF After
<1> HIDE DEF limit
<1>11. LimitsOrdered'
  <2>1. Len(resets') <= reset_count' /\ reclaimed' <= ring_count'
    BY <1>0, <1>5, <1>6, <1>7, <1>t
  <2>2. \A i \in 1 .. Len(resets') : reclaimed' <= resets'[i] /\ resets'[i] <= ring_count'
    BY <1>0, <1>4, <1>5, <1>7, <1>t DEF LimitsOrdered, limit
  <2>3. \A i, j \in 1 .. Len(resets') : i <= j => resets'[i] <= resets'[j]
    <3> SUFFICES ASSUME NEW i \in 1 .. Len(resets'), NEW j \in 1 .. Len(resets'), i <= j
                 PROVE  resets'[i] <= resets'[j]
      OBVIOUS
    <3>1. i + 1 <= j + 1
      OBVIOUS
    <3> QED
      BY <1>5, <1>7, <3>1 DEF LimitsOrdered
  <2> QED
    BY <2>1, <2>2, <2>3 DEF LimitsOrdered
<1>12. Numbered(h)'
  BY <1>0 DEF Numbered
<1>13. Settled(h)'
  BY <1>0, <1>1, <1>8, <1>t DEF Settled
<1>14. WorkerAfter(h)'
  BY <1>0, <1>4, <1>9, <1>10, <1>t, <1>u DEF WorkerAfter, After
<1>15. PortAfter(h)'
  <2>1. \A i \in 1 .. Len(to_worker) : to_worker[i].type = "enable" =>
          Later(to_worker[i].n, h, reclaimed', resets', Acked')
    BY <1>4, <1>9, <1>10, <1>t, <1>u DEF PortAfter
  <2>2. \A i, j \in 1 .. Len(to_worker) :
          to_worker[i].type = "enable" /\ to_worker[j].type = "reset" /\ j < i =>
            Later(to_worker[i].n, to_worker[j].n, reclaimed', resets', Acked')
    BY <1>4, <1>9, <1>10, <1>t, <1>u DEF PortAfter
  <2> QED
    BY <1>0, <2>1, <2>2 DEF PortAfter, After
<1>16. WorkAfter(h)'
  <2> SUFFICES ASSUME Views PROVE WorkAfter(h)'
    BY DEF WorkAfter
  <2>1. \A w \in work : After(w.ring, s)
    <3>1. 1 <= s
      BY <1>3, <1>t
    <3> QED
      BY <1>3, <3>1 DEF WorkAfter
  <2>2. \A w \in work : w.ring > limit
    BY <1>3, <1>10, <1>u, <2>1
  <2>3. \A n \in Nat : 1 <= n /\ n <= h /\ (\A d \in draining : d.n # n) =>
          \A w \in work : Later(w.ring, n, reclaimed', resets', Acked')
    BY <1>9, <1>u, <2>2 DEF WorkAfter
  <2>4. \A d \in draining, w \in work :
          Later(w.ring, d.n, reclaimed', resets', Acked') \/ w \in d.wait
    BY <1>9, <1>u, <2>2 DEF WorkAfter
  <2> QED
    BY <1>0, <1>7, <2>2, <2>3, <2>4 DEF WorkAfter, After
<1> QED
  BY <1>11, <1>12, <1>13, <1>14, <1>15, <1>16

(* The worker handles the next reset: it drops its queues and waits for    *)
(* what is in flight.                                                      *)
LEMMA HandleResetServing ==
  ASSUME TypeOK, NEW h, ServingInv(h), HandleReset
  PROVE  ServingInv(h + 1)'
<1> USE DEF ServingInv
<1> DEFINE new == [n |-> Head(to_worker).n, wait |-> InFlight]
<1>t. /\ h \in Nat /\ h + 1 \in Nat /\ reset_count \in Nat /\ ring_count \in Nat
      /\ Acked \in Nat /\ to_worker \in Seq(WorkerMessage) /\ Len(to_worker) \in Nat
      /\ IsFiniteSet(draining) /\ Cardinality(draining) \in Nat /\ Cardinality(Dones) \in Nat
  BY ServingTyped
<1>u. /\ \A i \in 1 .. Len(to_worker) : to_worker[i].n \in Nat
      /\ \A d \in draining : d.n \in Nat /\ 1 <= d.n /\ d.n <= h
  BY ServingTyped DEF Settled
<1>0. /\ UNCHANGED <<reclaimed, resets, ring_count, reset_count, work, to_main>>
      /\ to_worker # <<>> /\ Head(to_worker).type = "reset" /\ to_worker' = Tail(to_worker)
      /\ worker_rings' = [q \in Queues |-> NoRing]
      /\ draining' = draining \cup {new}
  BY DEF HandleReset, Handle, guestVars, mainVars
<1>1. /\ Len(to_worker') = Len(to_worker) - 1 /\ Head(to_worker) = to_worker[1]
      /\ 1 \in 1 .. Len(to_worker)
      /\ \A i \in 1 .. Len(to_worker') :
           i + 1 \in 1 .. Len(to_worker) /\ to_worker'[i] = to_worker[i + 1]
  BY <1>0, <1>t, TailOfSeq
<1>2. to_worker[1].type = "reset" /\ to_worker[1].n = h + 1
  <2>1. to_worker[1].type = "reset" /\ h < to_worker[1].n /\ to_worker[1].n <= reset_count
    BY <1>0, <1>1 DEF Numbered
  <2>2. h < h + 1 /\ h + 1 <= reset_count
    BY <1>1, <1>t, <1>u, <2>1
  <2>3. PICK i \in 1 .. Len(to_worker) : to_worker[i].type = "reset" /\ to_worker[i].n = h + 1
    BY <1>t, <2>2 DEF Numbered
  <2>4. CASE i = 1
    BY <2>3, <2>4
  <2>5. CASE 1 < i
    <3>1. to_worker[1].n < h + 1
      BY <1>1, <2>1, <2>3, <2>5 DEF Numbered
    <3> QED
      BY <1>1, <1>t, <1>u, <2>1, <3>1
  <2> QED
    BY <1>t, <2>4, <2>5
<1>3. new.n = h + 1 /\ new.wait = InFlight
  BY <1>1, <1>2
<1> HIDE DEF new
<1>4. Acked' = Acked /\ Dones' = Dones
  BY <1>0 DEF Acked, Dones
<1>5. LimitsOrdered'
  BY <1>0 DEF LimitsOrdered
<1>6. Numbered(h + 1)'
  <2>1. h + 1 <= reset_count'
    BY <1>0, <1>1, <1>2 DEF Numbered
  <2>2. \A i \in 1 .. Len(to_worker') : to_worker'[i].type = "reset" =>
          h + 1 < to_worker'[i].n /\ to_worker'[i].n <= reset_count'
    <3> SUFFICES ASSUME NEW i \in 1 .. Len(to_worker'), to_worker'[i].type = "reset"
                 PROVE  h + 1 < to_worker'[i].n /\ to_worker'[i].n <= reset_count'
      OBVIOUS
    <3>1. 1 < i + 1
      OBVIOUS
    <3> QED
      BY <1>0, <1>1, <1>2, <3>1 DEF Numbered
  <2>3. \A i, j \in 1 .. Len(to_worker') :
          to_worker'[i].type = "reset" /\ to_worker'[j].type = "reset" /\ i < j =>
            to_worker'[i].n < to_worker'[j].n
    <3> SUFFICES ASSUME NEW i \in 1 .. Len(to_worker'), NEW j \in 1 .. Len(to_worker'),
                        to_worker'[i].type = "reset", to_worker'[j].type = "reset", i < j
                 PROVE  to_worker'[i].n < to_worker'[j].n
      OBVIOUS
    <3>1. /\ i + 1 < j + 1 /\ i + 1 \in 1 .. Len(to_worker) /\ j + 1 \in 1 .. Len(to_worker)
          /\ to_worker'[i] = to_worker[i + 1] /\ to_worker'[j] = to_worker[j + 1]
      BY <1>1
    <3> QED
      BY <3>1 DEF Numbered
  <2>4. ASSUME NEW n \in Nat, h + 1 < n, n <= reset_count'
        PROVE  \E i \in 1 .. Len(to_worker') : to_worker'[i].type = "reset" /\ to_worker'[i].n = n
    <3>1. h < n /\ n <= reset_count
      BY <1>0, <1>t, <2>4
    <3>2. PICK i \in 1 .. Len(to_worker) : to_worker[i].type = "reset" /\ to_worker[i].n = n
      BY <3>1 DEF Numbered
    <3>3. i # 1
      BY <1>2, <1>t, <2>4, <3>2
    <3>4. i - 1 \in 1 .. Len(to_worker') /\ (i - 1) + 1 = i
      BY <1>1, <1>t, <3>3
    <3>5. to_worker'[i - 1] = to_worker[i]
      BY <1>1, <3>4
    <3> QED
      BY <3>2, <3>4, <3>5
  <2> QED
    BY <1>t, <2>1, <2>2, <2>3, <2>4 DEF Numbered
<1>7. Settled(h + 1)'
  <2>1. new \notin draining
    BY <1>3, <1>t, <1>u
  <2>2. IsFiniteSet(draining') /\ Cardinality(draining') = Cardinality(draining) + 1
    BY <1>0, <1>t, <2>1, FS_AddElement
  <2>3. \A d \in draining' : 1 <= d.n /\ d.n <= h + 1
    BY <1>0, <1>3, <1>t, <1>u
  <2>4. \A d, e \in draining' : d.n = e.n => d = e
    BY <1>0, <1>3, <1>t, <1>u DEF Settled
  <2>5. h - Cardinality(draining) = Acked + Cardinality(Dones)
    BY DEF Settled
  <2>6. (h + 1) - Cardinality(draining') = Acked' + Cardinality(Dones')
    BY <1>4, <1>t, <2>2, <2>5
  <2> QED
    BY <2>2, <2>3, <2>4, <2>6 DEF Settled
<1>8. WorkerAfter(h + 1)'
  BY <1>0 DEF WorkerAfter
<1>9. PortAfter(h + 1)'
  <2>1. \A i \in 1 .. Len(to_worker') : to_worker'[i].type = "enable" =>
          After(to_worker'[i].n, h + 1)
    <3> SUFFICES ASSUME NEW i \in 1 .. Len(to_worker'), to_worker'[i].type = "enable"
                 PROVE  After(to_worker'[i].n, h + 1)
      OBVIOUS
    <3>1. 1 < i + 1
      OBVIOUS
    <3> QED
      BY <1>1, <1>2, <3>1 DEF PortAfter
  <2>2. \A i, j \in 1 .. Len(to_worker') :
          to_worker'[i].type = "enable" /\ to_worker'[j].type = "reset" /\ j < i =>
            After(to_worker'[i].n, to_worker'[j].n)
    <3> SUFFICES ASSUME NEW i \in 1 .. Len(to_worker'), NEW j \in 1 .. Len(to_worker'),
                        to_worker'[i].type = "enable", to_worker'[j].type = "reset", j < i
                 PROVE  After(to_worker'[i].n, to_worker'[j].n)
      OBVIOUS
    <3>1. j + 1 < i + 1
      OBVIOUS
    <3> QED
      BY <1>1, <3>1 DEF PortAfter
  <2> QED
    BY <1>0, <1>4, <2>1, <2>2 DEF PortAfter, After
<1>10. WorkAfter(h + 1)'
  <2> SUFFICES ASSUME Views PROVE WorkAfter(h + 1)'
    BY DEF WorkAfter
  <2>1. \A w \in work : w.ring > reclaimed
    BY DEF WorkAfter
  <2>2. ASSUME NEW n \in Nat, 1 <= n, n <= h + 1, \A d \in draining' : d.n # n
        PROVE  \A w \in work : After(w.ring, n)
    <3>1. n # h + 1 /\ \A d \in draining : d.n # n
      BY <1>0, <1>3, <2>2
    <3>2. n <= h
      BY <1>t, <2>2, <3>1
    <3> QED
      BY <2>2, <3>1, <3>2 DEF WorkAfter
  <2>3. \A d \in draining', w \in work : After(w.ring, d.n) \/ w \in d.wait
    BY <1>0, <1>3 DEF WorkAfter, InFlight
  <2> QED
    BY <1>0, <1>4, <2>1, <2>2, <2>3 DEF WorkAfter, After
<1> QED
  BY <1>5, <1>6, <1>7, <1>8, <1>9, <1>10

(* A reset settles: what it waited for is over, and one acknowledgement is *)
(* sent.                                                                   *)
LEMMA SettleServing ==
  ASSUME TypeOK, NEW h, ServingInv(h), NEW d \in draining, ResetSettled(d)
  PROVE  ServingInv(h)'
<1> USE DEF ServingInv
<1>t. /\ h \in Nat /\ Acked \in Nat /\ IsFiniteSet(draining)
      /\ Cardinality(draining) \in Nat /\ Cardinality(Dones) \in Nat
  BY ServingTyped
<1>0. /\ UNCHANGED <<reclaimed, resets, ring_count, reset_count, work, to_worker, worker_rings>>
      /\ to_main' = Append(to_main, Message("reset_done"))
      /\ draining' = draining \ {d} /\ d.wait \cap work = {}
  BY DEF ResetSettled, guestVars, mainVars
<1>1. Acked' = Acked
  BY <1>0 DEF Acked
<1>2. Cardinality(Dones') = Cardinality(Dones) + 1
  <2>1. Message("reset_done") \in MainMessage /\ Message("reset_done").type = "reset_done"
    BY MessagesTyped DEF Message
  <2> QED
    BY <1>0, <2>1, DonesAppend
<1>3. LimitsOrdered' /\ Numbered(h)'
  BY <1>0 DEF LimitsOrdered, Numbered
<1>4. Settled(h)'
  <2>1. IsFiniteSet(draining') /\ Cardinality(draining') = Cardinality(draining) - 1
    BY <1>0, <1>t, FS_RemoveElement
  <2>2. h - Cardinality(draining) = Acked + Cardinality(Dones)
    BY DEF Settled
  <2>3. h - Cardinality(draining') = Acked' + Cardinality(Dones')
    BY <1>1, <1>2, <1>t, <2>1, <2>2
  <2> QED
    BY <1>0, <2>1, <2>3 DEF Settled
<1>5. WorkerAfter(h)' /\ PortAfter(h)'
  BY <1>0, <1>1 DEF WorkerAfter, PortAfter, After
<1>6. WorkAfter(h)'
  <2> SUFFICES ASSUME Views PROVE WorkAfter(h)'
    BY DEF WorkAfter
  <2>1. \A w \in work : After(w.ring, d.n)
    BY <1>0 DEF WorkAfter
  <2>2. ASSUME NEW n \in Nat, 1 <= n, n <= h, \A e \in draining' : e.n # n
        PROVE  \A w \in work : After(w.ring, n)
    <3>1. CASE n = d.n
      BY <2>1, <3>1
    <3>2. CASE n # d.n
      BY <1>0, <2>2, <3>2 DEF WorkAfter
    <3> QED
      BY <3>1, <3>2
  <2>3. \A e \in draining', w \in work : After(w.ring, e.n) \/ w \in e.wait
    BY <1>0 DEF WorkAfter
  <2>4. \A w \in work : w.ring > reclaimed
    BY DEF WorkAfter
  <2> QED
    BY <1>0, <1>1, <2>2, <2>3, <2>4 DEF WorkAfter, After
<1> QED
  BY <1>3, <1>4, <1>5, <1>6

(* The other steps ask for, settle and acknowledge no reset.               *)
LEMMA GuestServing ==
  ASSUME TypeOK, NEW h, ServingInv(h), GuestCall \/ Shutdown \/ EndpointFailure
  PROVE  ServingInv(h)'
<1>t. WorkerAfter(h)
  BY DEF ServingInv
<1>1. ASSUME NEW q \in Queues, EnableQueue(q) PROVE ServingInv(h)'
  BY <1>1, EnableServing
<1>2. ASSUME Reset PROVE ServingInv(h)'
  BY <1>2, AskServing
<1>3. ASSUME PortStep, UNCHANGED <<reclaimed, resets, ring_count, reset_count, workerVars, to_main>>
      PROVE  ServingInv(h)'
  <2>1. UNCHANGED <<resets, reclaimed, reset_count, ring_count, draining, worker_rings, work>>
    BY <1>3 DEF workerVars
  <2>2. Dones' = Dones
    BY <1>3 DEF Dones
  <2>3. \A q \in Queues : worker_rings'[q] # NoRing => After(worker_rings'[q], h)
    BY <1>t, <2>1 DEF WorkerAfter
  <2>4. \A w \in work' : w \in work \/ (After(w.ring, h) /\ w.ring \in Nat)
    BY <2>1
  <2> QED
    BY <1>3, <2>1, <2>2, <2>3, <2>4, NoResetStep
<1>4. ASSUME NEW q \in Queues, DisableQueue(q) PROVE ServingInv(h)'
  <2> DEFINE m == [Message("disable") EXCEPT !.vq = q]
  <2>1. m \in WorkerMessage /\ m.type \notin {"reset", "enable"}
    BY MessagesTyped DEF Message
  <2>2. to_worker' = Append(to_worker, m)
    BY <1>4 DEF DisableQueue
  <2> HIDE DEF m
  <2>3. PortStep
    BY <2>1, <2>2 DEF PortStep
  <2> QED
    BY <1>3, <1>4, <2>3 DEF DisableQueue
<1>5. ASSUME NEW q \in Queues, Notify(q) PROVE ServingInv(h)'
  <2> DEFINE m == [Message("notify") EXCEPT !.vq = q, !.n = request_count + 1]
  <2>0. request_count + 1 \in Nat
    BY DEF TypeOK
  <2>1. m \in WorkerMessage /\ m.type \notin {"reset", "enable"}
    BY <2>0, MessagesTyped DEF Message
  <2>2. to_worker' = Append(to_worker, m)
    BY <1>5 DEF Notify
  <2> HIDE DEF m
  <2>3. PortStep
    BY <2>1, <2>2 DEF PortStep
  <2> QED
    BY <1>3, <1>5, <2>3 DEF Notify, mainVars
<1>6. ASSUME Shutdown PROVE ServingInv(h)'
  <2>1. Message("close") \in WorkerMessage /\ Message("close").type \notin {"reset", "enable"}
    BY MessagesTyped DEF Message
  <2>2. to_worker' = Append(to_worker, Message("close"))
    BY <1>6 DEF Shutdown
  <2>3. PortStep
    BY <2>1, <2>2 DEF PortStep
  <2> QED
    BY <1>3, <1>6, <2>3 DEF Shutdown, guestVars
<1>7. ASSUME EndpointFailure PROVE ServingInv(h)'
  <2>1. PortStep
    BY <1>7 DEF EndpointFailure, PortStep
  <2> QED
    BY <1>3, <1>7, <2>1 DEF EndpointFailure, guestVars
<1> QED
  BY <1>1, <1>2, <1>4, <1>5, <1>6, <1>7 DEF GuestCall

LEMMA MainServing ==
  ASSUME TypeOK, NEW h, ServingInv(h), ReceiveComplete \/ ReceiveResetDone \/ ReceiveError
  PROVE  ServingInv(h)'
<1>t. WorkerAfter(h)
  BY DEF ServingInv
<1>1. ASSUME ReceiveComplete \/ ReceiveError PROVE ServingInv(h)'
  <2>1. /\ UNCHANGED <<resets, reclaimed, reset_count, ring_count, draining, worker_rings, work>>
        /\ to_worker' = to_worker
    BY <1>1 DEF ReceiveComplete, ReceiveError, mainVars, guestVars, workerVars
  <2>2. to_main # <<>> /\ Head(to_main).type # "reset_done" /\ to_main' = Tail(to_main)
    BY <1>1 DEF ReceiveComplete, ReceiveError, Receive
  <2>3. Cardinality(Dones') = Cardinality(Dones)
    BY <2>2, DonesTail
  <2>4. \A q \in Queues : worker_rings'[q] # NoRing => After(worker_rings'[q], h)
    BY <1>t, <2>1 DEF WorkerAfter
  <2>5. PortStep
    BY <2>1 DEF PortStep
  <2>6. \A w \in work' : w \in work \/ (After(w.ring, h) /\ w.ring \in Nat)
    BY <2>1
  <2> QED
    BY <2>1, <2>3, <2>4, <2>5, <2>6, NoResetStep
<1> QED
  BY <1>1, AckServing

LEMMA HandleServing ==
  ASSUME TypeOK, NEW h, ServingInv(h),
         HandleEnable \/ HandleDisable \/ HandleNotify \/ HandleClose
  PROVE  ServingInv(h)'
<1>t. /\ WorkerAfter(h) /\ PortAfter(h)
      /\ to_worker \in Seq(WorkerMessage) /\ worker_rings \in [Queues -> Nat]
  BY DEF ServingInv, TypeOK
<1>0. /\ to_worker # <<>> /\ to_worker' = Tail(to_worker) /\ Head(to_worker).type # "reset"
      /\ UNCHANGED <<resets, reclaimed, reset_count, ring_count, draining, to_main>>
  BY DEF HandleEnable, HandleDisable, HandleNotify, HandleClose, Handle, guestVars, mainVars
<1>1. PortStep
  BY <1>0 DEF PortStep
<1>2. Dones' = Dones
  BY <1>0 DEF Dones
<1>3. Head(to_worker) = to_worker[1] /\ 1 \in 1 .. Len(to_worker) /\ Head(to_worker) \in WorkerMessage
  BY <1>0, <1>t, TailOfSeq
<1>4. CASE HandleEnable
  <2>1. work' = work /\ worker_rings' = [worker_rings EXCEPT ![Head(to_worker).vq] = Head(to_worker).n]
    BY <1>4 DEF HandleEnable
  <2>2. After(Head(to_worker).n, h)
    BY <1>3, <1>4, <1>t DEF PortAfter, HandleEnable, Handle
  <2>3. \A q \in Queues : worker_rings'[q] # NoRing => After(worker_rings'[q], h)
    BY <1>t, <2>1, <2>2 DEF WorkerAfter
  <2>4. \A w \in work' : w \in work \/ (After(w.ring, h) /\ w.ring \in Nat)
    BY <2>1
  <2> QED
    BY <1>0, <1>1, <1>2, <2>3, <2>4, NoResetStep
<1>5. CASE HandleDisable
  <2>1. work' = work /\ worker_rings' = [worker_rings EXCEPT ![Head(to_worker).vq] = NoRing]
    BY <1>5 DEF HandleDisable
  <2>2. \A q \in Queues : worker_rings'[q] # NoRing => After(worker_rings'[q], h)
    BY <1>t, <2>1 DEF WorkerAfter
  <2>3. \A w \in work' : w \in work \/ (After(w.ring, h) /\ w.ring \in Nat)
    BY <2>1
  <2> QED
    BY <1>0, <1>1, <1>2, <2>2, <2>3, NoResetStep
<1>6. CASE HandleNotify
  <2> DEFINE vq == Head(to_worker).vq
             new == [vq |-> vq, ring |-> worker_rings[vq], n |-> Head(to_worker).n]
  <2>1. worker_rings' = worker_rings
    BY <1>6 DEF HandleNotify
  <2>2. vq \in Queues
    BY <1>3, <1>6 DEF HandleNotify, Handle, WorkerMessage
  <2>3. work' = work \/ (work' = work \cup {new} /\ worker_rings[vq] # NoRing)
    BY <1>6 DEF HandleNotify
  <2>4. new.ring = worker_rings[vq] /\ worker_rings[vq] \in Nat
    BY <1>t, <2>2
  <2> HIDE DEF new, vq
  <2>5. \A w \in work' : w \in work \/ (After(w.ring, h) /\ w.ring \in Nat)
    <3>1. worker_rings[vq] # NoRing => After(new.ring, h) /\ new.ring \in Nat
      BY <1>t, <2>2, <2>4 DEF WorkerAfter
    <3> QED
      BY <2>3, <3>1
  <2>6. \A q \in Queues : worker_rings'[q] # NoRing => After(worker_rings'[q], h)
    BY <1>t, <2>1 DEF WorkerAfter
  <2> QED
    BY <1>0, <1>1, <1>2, <2>5, <2>6, NoResetStep
<1>7. CASE HandleClose
  <2>1. work' = work /\ worker_rings' = worker_rings
    BY <1>7 DEF HandleClose
  <2>2. \A q \in Queues : worker_rings'[q] # NoRing => After(worker_rings'[q], h)
    BY <1>t, <2>1 DEF WorkerAfter
  <2>3. \A w \in work' : w \in work \/ (After(w.ring, h) /\ w.ring \in Nat)
    BY <2>1
  <2> QED
    BY <1>0, <1>1, <1>2, <2>2, <2>3, NoResetStep
<1> QED
  BY <1>4, <1>5, <1>6, <1>7

LEMMA RequestServing ==
  ASSUME TypeOK, NEW h, ServingInv(h), NEW w \in work, FinishRequest(w) \/ FailRequest(w)
  PROVE  ServingInv(h)'
<1>t. WorkerAfter(h)
  BY DEF ServingInv
<1>0. /\ UNCHANGED <<resets, reclaimed, reset_count, ring_count, draining, worker_rings>>
      /\ to_worker' = to_worker /\ work' = work \ {w}
  BY DEF FinishRequest, FailRequest, guestVars, mainVars
<1>1. PortStep
  BY <1>0 DEF PortStep
<1>2. Cardinality(Dones') = Cardinality(Dones)
  <2> DEFINE done == CompleteMessage(w.vq, w.ring, device_epoch, queue_epochs[w.vq])
  <2>1. done \in MainMessage /\ done.type # "reset_done"
    <3>1. w.vq \in Queues /\ w.ring \in Nat /\ device_epoch \in Nat /\ queue_epochs[w.vq] \in Nat
      BY DEF TypeOK, RequestType
    <3>2. done \in MainMessage
      BY <3>1, MessagesTyped
    <3> QED
      BY <3>2 DEF CompleteMessage
  <2>2. Message("error") \in MainMessage /\ Message("error").type # "reset_done"
    BY MessagesTyped DEF Message
  <2>3. \/ to_main' = to_main
        \/ to_main' = Append(to_main, done)
        \/ to_main' = Append(to_main, Message("error"))
    BY DEF FinishRequest, FailRequest
  <2> HIDE DEF done
  <2>4. CASE to_main' = to_main
    <3>1. Dones' = Dones
      BY <2>4 DEF Dones
    <3> QED
      BY <3>1
  <2>5. CASE to_main' = Append(to_main, done)
    BY <2>1, <2>5, DonesAppend
  <2>6. CASE to_main' = Append(to_main, Message("error"))
    BY <2>2, <2>6, DonesAppend
  <2> QED
    BY <2>3, <2>4, <2>5, <2>6
<1>3. \A q \in Queues : worker_rings'[q] # NoRing => After(worker_rings'[q], h)
  BY <1>t, <1>0 DEF WorkerAfter
<1>4. \A x \in work' : x \in work \/ (After(x.ring, h) /\ x.ring \in Nat)
  BY <1>0
<1> QED
  BY <1>0, <1>1, <1>2, <1>3, <1>4, NoResetStep

-----------------------------------------------------------------------------
(* A step of the main thread's port that posts no "closed".                *)
MainPortStep ==
  \/ to_main' = to_main
  \/ to_main # <<>> /\ to_main' = Tail(to_main)
  \/ \E m \in MainMessage : m.type # "closed" /\ to_main' = Append(to_main, m)

LEMMA ClosedKept ==
  ASSUME TypeOK, ClosedInv, MainPortStep, serving' = serving,
         serving \/ work' \subseteq work,
         closed' = closed \/ closed' # "resolved" \/ ~serving
  PROVE  ClosedInv'
<1>0. to_main \in Seq(MainMessage) /\ Len(to_main) \in Nat
  BY DEF TypeOK
<1>1. ~serving' => work' = {}
  BY DEF ClosedInv
<1>2. closed' = "resolved" => ~serving'
  BY DEF ClosedInv
<1>3. \A i \in 1 .. Len(to_main') : to_main'[i].type = "closed" =>
        \E j \in 1 .. Len(to_main) : to_main[j].type = "closed"
  <2>1. CASE to_main' = to_main
    BY <2>1
  <2>2. CASE to_main # <<>> /\ to_main' = Tail(to_main)
    <3>1. \A i \in 1 .. Len(to_main') : i + 1 \in 1 .. Len(to_main) /\ to_main'[i] = to_main[i + 1]
      BY <1>0, <2>2, TailOfSeq
    <3> QED
      BY <3>1
  <2>3. CASE \E m \in MainMessage : m.type # "closed" /\ to_main' = Append(to_main, m)
    <3>1. PICK m \in MainMessage : m.type # "closed" /\ to_main' = Append(to_main, m)
      BY <2>3
    <3>2. /\ Len(to_main') = Len(to_main) + 1 /\ to_main'[Len(to_main) + 1] = m
          /\ \A i \in 1 .. Len(to_main) : to_main'[i] = to_main[i]
      BY <1>0, <3>1, AppendToSeq
    <3>3. \A i \in 1 .. Len(to_main') : i = Len(to_main) + 1 \/ i \in 1 .. Len(to_main)
      BY <1>0, <3>2
    <3> QED
      BY <3>1, <3>2, <3>3
  <2> QED
    BY <2>1, <2>2, <2>3 DEF MainPortStep
<1>4. \A i \in 1 .. Len(to_main') : to_main'[i].type = "closed" => ~serving'
  BY <1>3 DEF ClosedInv
<1> QED
  BY <1>1, <1>2, <1>4 DEF ClosedInv

(* A "closed" comes from a worker that has drained its device.             *)
LEMMA ClosedStep ==
  ASSUME TypeOK, ClosedInv, [Next]_vars
  PROVE  ClosedInv'
<1>1. ASSUME GuestCall \/ Shutdown \/ EndpointFailure PROVE ClosedInv'
  <2>1. /\ to_main' = to_main /\ serving' = serving /\ work' = work
        /\ closed' = closed \/ closed' # "resolved"
    BY <1>1 DEF GuestCall, Shutdown, EndpointFailure, EnableQueue, DisableQueue, Notify, Reset,
                mainVars, workerVars
  <2> QED
    BY <2>1, ClosedKept DEF MainPortStep
<1>2. ASSUME MainReceive PROVE ClosedInv'
  <2>1. to_main # <<>> /\ to_main' = Tail(to_main) /\ serving' = serving /\ work' = work
    BY <1>2 DEF MainReceive, ReceiveComplete, ReceiveResetDone, ReceiveError, ReceiveClosed,
                Receive, workerVars
  <2>2. CASE ReceiveClosed
    <3>1. to_main[1].type = "closed" /\ 1 \in 1 .. Len(to_main)
      <4>1. Head(to_main) = to_main[1] /\ 1 \in 1 .. Len(to_main)
        BY <2>1, TailOfSeq DEF TypeOK
      <4> QED
        BY <2>2, <4>1 DEF ReceiveClosed, Receive
    <3>2. ~serving
      BY <3>1 DEF ClosedInv
    <3> QED
      BY <2>1, <3>2, ClosedKept DEF MainPortStep
  <2>3. CASE ~ReceiveClosed
    <3>1. closed' = closed
      BY <1>2, <2>3 DEF MainReceive, ReceiveComplete, ReceiveResetDone, ReceiveError, mainVars
    <3> QED
      BY <2>1, <3>1, ClosedKept DEF MainPortStep
  <2> QED
    BY <2>2, <2>3
<1>3. ASSUME HandleEnable \/ HandleDisable \/ HandleNotify \/ HandleReset \/ HandleClose
      PROVE  ClosedInv'
  <2>1. to_main' = to_main /\ serving' = serving /\ closed' = closed /\ serving
    BY <1>3 DEF HandleEnable, HandleDisable, HandleNotify, HandleReset, HandleClose, Handle, mainVars
  <2> QED
    BY <2>1, ClosedKept DEF MainPortStep
<1>4. ASSUME NEW error \in BOOLEAN, WorkerClosed(error) PROVE ClosedInv'
  <2>1. serving' = FALSE /\ work' = {}
    BY <1>4 DEF WorkerClosed
  <2> QED
    BY <2>1 DEF ClosedInv
<1>5. ASSUME NEW d \in draining, ResetSettled(d) PROVE ClosedInv'
  <2>1. Message("reset_done") \in MainMessage /\ Message("reset_done").type # "closed"
    BY MessagesTyped DEF Message
  <2>2. /\ to_main' = Append(to_main, Message("reset_done"))
        /\ serving' = serving /\ closed' = closed /\ work' = work
    BY <1>5 DEF ResetSettled, mainVars
  <2>3. MainPortStep
    BY <2>1, <2>2 DEF MainPortStep
  <2> QED
    BY <2>2, <2>3, ClosedKept
<1>6. ASSUME NEW w \in work, FinishRequest(w) \/ FailRequest(w) PROVE ClosedInv'
  <2> DEFINE done == CompleteMessage(w.vq, w.ring, device_epoch, queue_epochs[w.vq])
  <2>1. done \in MainMessage /\ done.type # "closed"
    <3>1. w.vq \in Queues /\ w.ring \in Nat /\ device_epoch \in Nat /\ queue_epochs[w.vq] \in Nat
      BY DEF TypeOK, RequestType
    <3>2. done \in MainMessage
      BY <3>1, MessagesTyped
    <3> QED
      BY <3>2 DEF CompleteMessage
  <2>2. Message("error") \in MainMessage /\ Message("error").type # "closed"
    BY MessagesTyped DEF Message
  <2>3. \/ to_main' = to_main
        \/ to_main' = Append(to_main, done)
        \/ to_main' = Append(to_main, Message("error"))
    BY <1>6 DEF FinishRequest, FailRequest
  <2>4. serving' = serving /\ closed' = closed /\ work' \subseteq work
    BY <1>6 DEF FinishRequest, FailRequest, mainVars
  <2> HIDE DEF done
  <2>5. MainPortStep
    BY <2>1, <2>2, <2>3 DEF MainPortStep
  <2> QED
    BY <2>4, <2>5, ClosedKept
<1>7. ASSUME UNCHANGED vars PROVE ClosedInv'
  <2>1. to_main' = to_main /\ serving' = serving /\ work' = work /\ closed' = closed
    BY <1>7 DEF vars, mainVars, workerVars
  <2> QED
    BY <2>1, ClosedKept DEF MainPortStep
<1> QED
  BY <1>1, <1>2, <1>3, <1>4, <1>5, <1>6, <1>7 DEF Next, WorkerStep

(* The count of resets is kept by every step of a worker that serves on.   *)
LEMMA ServingStep ==
  ASSUME TypeOK, ClosedInv, serving, serving', NEW h, ServingInv(h), [Next]_vars
  PROVE  ServingInv(h)' \/ ServingInv(h + 1)'
<1>1. ASSUME GuestCall \/ Shutdown \/ EndpointFailure PROVE ServingInv(h)'
  BY <1>1, GuestServing
<1>2. ASSUME MainReceive PROVE ServingInv(h)'
  <2>1. ~ReceiveClosed
    <3> SUFFICES ASSUME ReceiveClosed PROVE FALSE
      OBVIOUS
    <3>1. to_main # <<>> /\ Head(to_main).type = "closed"
      BY DEF ReceiveClosed, Receive
    <3>2. Head(to_main) = to_main[1] /\ 1 \in 1 .. Len(to_main)
      BY <3>1, TailOfSeq DEF TypeOK
    <3> QED
      BY <3>1, <3>2 DEF ClosedInv
  <2> QED
    BY <1>2, <2>1, MainServing DEF MainReceive
<1>3. ASSUME HandleEnable \/ HandleDisable \/ HandleNotify \/ HandleClose PROVE ServingInv(h)'
  BY <1>3, HandleServing
<1>4. ASSUME HandleReset PROVE ServingInv(h + 1)'
  BY <1>4, HandleResetServing
<1>5. ASSUME NEW error \in BOOLEAN, WorkerClosed(error) PROVE FALSE
  BY <1>5 DEF WorkerClosed
<1>6. ASSUME NEW d \in draining, ResetSettled(d) PROVE ServingInv(h)'
  BY <1>6, SettleServing
<1>7. ASSUME NEW w \in work, FinishRequest(w) \/ FailRequest(w) PROVE ServingInv(h)'
  BY <1>7, RequestServing
<1>8. ASSUME UNCHANGED vars PROVE ServingInv(h)'
  BY <1>8 DEF vars, guestVars, mainVars, workerVars, ServingInv, LimitsOrdered, Numbered, Settled,
              WorkerAfter, PortAfter, WorkAfter, After, Acked, Dones
<1> QED
  BY <1>1, <1>2, <1>3, <1>4, <1>5, <1>6, <1>7, <1>8 DEF Next, WorkerStep

(* Whoever is told that the device is done with memory can rely on it.     *)
(* When remote.ts answers the guest's reset, no request on an earlier ring *)
(* is in flight on the guest's memory, although the acknowledgements of    *)
(* overlapping resets carry no number and may come in another order; and   *)
(* when the device reports itself closed there is no request left at all.  *)
THEOREM RemoteQuiet == Spec => []NothingInFlight
<1>1. Init => FlightInv
  <2> SUFFICES ASSUME Init PROVE FlightInv
    OBVIOUS
  <2>1. ClosedInv
    BY DEF Init, ClosedInv
  <2>2. Cardinality({}) = 0 /\ IsFiniteSet({})
    BY FS_EmptySet
  <2>3. Dones = {} /\ Acked = 0
    <3>1. Len(to_main) = 0 /\ Len(resets) = 0 /\ reset_count = 0
      BY DEF Init
    <3>2. 1 .. 0 = {}
      OBVIOUS
    <3> QED
      BY <3>1, <3>2 DEF Dones, Acked
  <2>4. Settled(0)
    BY <2>2, <2>3 DEF Init, Settled
  <2>5. ServingInv(0)
    BY <2>4 DEF Init, ServingInv, LimitsOrdered, Numbered, WorkerAfter, PortAfter, WorkAfter
  <2> QED
    BY <2>1, <2>5 DEF FlightInv
<1>2. TypeOK /\ FlightInv /\ [Next]_vars => FlightInv'
  <2> SUFFICES ASSUME TypeOK, FlightInv, [Next]_vars PROVE FlightInv'
    OBVIOUS
  <2>1. ClosedInv'
    BY ClosedStep DEF FlightInv
  <2>2. ASSUME serving' PROVE \E h \in Nat : ServingInv(h)'
    <3>1. serving
      BY <2>2 DEF Next, GuestCall, Shutdown, EndpointFailure, EnableQueue, DisableQueue, Notify,
                  Reset, MainReceive, ReceiveComplete, ReceiveResetDone, ReceiveError,
                  ReceiveClosed, WorkerStep, HandleEnable, HandleDisable, HandleNotify,
                  HandleReset, HandleClose, WorkerClosed, ResetSettled, FinishRequest,
                  FailRequest, Handle, workerVars, vars
    <3>2. PICK h \in Nat : ServingInv(h)
      BY <3>1 DEF FlightInv
    <3>3. ServingInv(h)' \/ ServingInv(h + 1)'
      BY <2>2, <3>1, <3>2, ServingStep DEF FlightInv
    <3>4. h + 1 \in Nat
      OBVIOUS
    <3> QED
      BY <3>3, <3>4
  <2> QED
    BY <2>1, <2>2 DEF FlightInv
<1>3. TypeOK /\ FlightInv => NothingInFlight
  <2> SUFFICES ASSUME TypeOK, FlightInv PROVE NothingInFlight
    OBVIOUS
  <2>1. CASE ~serving
    BY <2>1 DEF FlightInv, ClosedInv, NothingInFlight, ResetMeansQuiet, ClosedMeansQuiet
  <2>2. CASE serving
    BY <2>2 DEF FlightInv, ClosedInv, ServingInv, WorkAfter, NothingInFlight, ResetMeansQuiet,
                ClosedMeansQuiet
  <2> QED
    BY <2>1, <2>2
<1> QED
  BY <1>1, <1>2, <1>3, TypeCorrect, PTL DEF Spec

=============================================================================
