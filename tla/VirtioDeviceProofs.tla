------------------------- MODULE VirtioDeviceProofs -------------------------
(***************************************************************************)
(* Proof about VirtioDevice, for any number of queues, rings, requests and *)
(* resets: kicks of a queue never overlap, no notified request and no      *)
(* completion is forgotten, and a reset or a shutdown that was answered    *)
(* left nothing in flight.  Three facts make that inductive:               *)
(*   - a queue has exactly one drain loop, in a kick or between two of     *)
(*     them, while `notifying' is set (OneLoop);                           *)
(*   - rings are numbered in the order the guest set them up, and a reset  *)
(*     separates the rings before it from those after it (RingsOrdered);   *)
(*   - whatever touches a ring from before a reset is work that reset      *)
(*     waits for (ResetWaits).                                             *)
(***************************************************************************)
EXTENDS VirtioDevice, FiniteSetTheorems, TLAPS

FiniteTasks == IsFiniteSet(kicks) /\ IsFiniteSet(resuming) /\ IsFiniteSet(work)

(* The loop of a queue is its kick or its continuation, never both, and is *)
(* there as long as `notifying' says so.                                   *)
OneLoop ==
  /\ \A a, b \in kicks : a.q = b.q => a = b
  /\ \A a, b \in resuming : a.q = b.q => a = b
  /\ \A k \in kicks, l \in resuming : k.q # l.q
  /\ \A k \in kicks : notifying[k.q]
  /\ \A l \in resuming : notifying[l.q]
  /\ \A q \in Queues : notifying[q] =>
       (\E k \in kicks : k.q = q) \/ (\E l \in resuming : l.q = q)

(* A loop keeps its number from kick to kick, and shares it with no other. *)
LoopsNumbered ==
  /\ \A a, b \in kicks : a.n = b.n => a = b
  /\ \A a, b \in resuming : a.n = b.n => a = b
  /\ \A k \in kicks, l \in resuming : k.n # l.n

(* Rings in the order they were set up: those the guest uses come after    *)
(* every reset it has asked for.                                           *)
RingsOrdered ==
  /\ reclaimed <= ring_count
  /\ \A d \in draining : d.limit <= ring_count
  /\ \A k \in kicks : 0 < k.ring
  /\ \A q \in Queues : queue[q] = NoRing => avail[q] = 0
  /\ \A q \in Queues : queue[q] # NoRing =>
       queue[q] <= ring_count /\ reclaimed < queue[q] /\ \A d \in draining : d.limit < queue[q]

(* What is in flight on a ring from before a reset is waited for by it.    *)
ResetWaits ==
  Views =>
    /\ \A k \in kicks : reclaimed < k.ring
    /\ \A w \in work : reclaimed < w.ring
    /\ \A d \in draining, k \in kicks : k.ring <= d.limit => <<"kick", k>> \in d.wait
    /\ \A d \in draining, w \in work : w.ring <= d.limit => <<"work", w>> \in d.wait

(* Once the backend closes, the device has stopped and nothing is active.  *)
CloseQuiet ==
  /\ phase # "running" => stopped
  /\ phase \in {"closing", "closed"} => kicks = {} /\ work = {}

(* The inductive invariant.                                                *)
DeviceInv ==
  /\ TypeOK /\ FiniteTasks /\ OneLoop /\ LoopsNumbered /\ RingsOrdered /\ ResetWaits
  /\ CloseQuiet /\ NoLostNotification /\ NoSilentCompletion

-----------------------------------------------------------------------------
(* There is always a number left: a finite set cannot use one more than it *)
(* has members.                                                            *)
LEMMA FreshIsFresh ==
  ASSUME NEW S, IsFiniteSet(S)
  PROVE  Fresh(S) \in Nat /\ \A s \in S : s.n # Fresh(S)
<1> DEFINE f == [s \in S |-> s.n]
           T == {s.n : s \in S}
           c == Cardinality(S)
<1>1. c \in Nat
  BY FS_CardinalityType
<1>2. f \in Surjection(S, T)
  BY DEF Surjection
<1>3. IsFiniteSet(T) /\ Cardinality(T) <= c /\ Cardinality(T) \in Nat
  BY <1>2, FS_Surjection, FS_CardinalityType
<1>4. Cardinality(1 .. 1 + c) = 1 + c
  BY <1>1, FS_Interval
<1>5. ~(1 .. 1 + c \subseteq T)
  <2> SUFFICES ASSUME 1 .. 1 + c \in SUBSET T PROVE FALSE
    OBVIOUS
  <2>1. Cardinality(1 .. 1 + c) <= Cardinality(T)
    BY <1>3, FS_Subset
  <2> QED
    BY <1>1, <1>3, <1>4, <2>1
<1>6. \E n \in 1 .. 1 + c : \A s \in S : s.n # n
  BY <1>5
<1>7. 1 .. 1 + c \subseteq Nat
  BY <1>1
<1> QED
  BY <1>6, <1>7 DEF Fresh

(* What a new loop does to the table of loops: a kick, or, once the device *)
(* has stopped, a continuation, under a number of its own.                 *)
NewLoop(q, r) ==
  \E n \in Nat :
    /\ \A k \in kicks : k.n # n
    /\ \A l \in resuming : l.n # n
    /\ IF stopped
       THEN /\ resuming' = resuming \cup {[n |-> n, q |-> q, ok |-> TRUE]}
            /\ kicks' = kicks /\ looking' = looking
       ELSE /\ kicks' = kicks \cup {[n |-> n, q |-> q, ring |-> r]}
            /\ looking' = looking \cup {[n |-> n, q |-> q, ring |-> r]}
            /\ resuming' = resuming

LEMMA DrainStarts ==
  ASSUME FiniteTasks, NEW q, NEW r, NEW p, Drain(q, p, r), Drains(q, r)
  PROVE  NewLoop(q, r)
<1> DEFINE n == Fresh(kicks \cup resuming)
<1>1. IsFiniteSet(kicks \cup resuming)
  BY FS_Union DEF FiniteTasks
<1>2. n \in Nat /\ \A s \in kicks \cup resuming : s.n # n
  BY <1>1, FreshIsFresh
<1>3. Dispatch(q, r, n)
  BY DEF Drain
<1>4. {l \in resuming : l.n # n} = resuming
  BY <1>2
<1> HIDE DEF n
<1> QED
  BY <1>2, <1>3, <1>4 DEF Dispatch, NewLoop

-----------------------------------------------------------------------------
(***************************************************************************)
(* Types.                                                                  *)
(***************************************************************************)
LEMMA NewLoopTyped ==
  ASSUME TypeOK, FiniteTasks, NEW q \in Queues, NEW r \in Nat, NewLoop(q, r)
  PROVE  /\ kicks' \in SUBSET Task /\ looking' \in SUBSET kicks'
         /\ resuming' \in SUBSET [n: Nat, q: Queues, ok: BOOLEAN]
         /\ IsFiniteSet(kicks') /\ IsFiniteSet(resuming')
<1>1. CASE stopped
  <2>1. PICK n \in Nat : /\ resuming' = resuming \cup {[n |-> n, q |-> q, ok |-> TRUE]}
                         /\ kicks' = kicks /\ looking' = looking
    BY <1>1 DEF NewLoop
  <2>2. [n |-> n, q |-> q, ok |-> TRUE] \in [n: Nat, q: Queues, ok: BOOLEAN]
    OBVIOUS
  <2>3. IsFiniteSet(resuming')
    BY <2>1, FS_AddElement DEF FiniteTasks
  <2> QED
    BY <2>1, <2>2, <2>3 DEF TypeOK, FiniteTasks
<1>2. CASE ~stopped
  <2>1. PICK n \in Nat : /\ kicks' = kicks \cup {[n |-> n, q |-> q, ring |-> r]}
                         /\ looking' = looking \cup {[n |-> n, q |-> q, ring |-> r]}
                         /\ resuming' = resuming
    BY <1>2 DEF NewLoop
  <2>2. [n |-> n, q |-> q, ring |-> r] \in Task
    BY DEF Task
  <2>3. IsFiniteSet(kicks')
    BY <2>1, FS_AddElement DEF FiniteTasks
  <2> QED
    BY <2>1, <2>2, <2>3 DEF TypeOK, FiniteTasks
<1> QED
  BY <1>1, <1>2

LEMMA ActiveTyped ==
  ASSUME TypeOK
  PROVE  Active \in SUBSET ({"kick", "work"} \X Task)
  BY DEF TypeOK, Active

LEMMA TypedStep ==
  ASSUME DeviceInv, [Next]_vars
  PROVE  TypeOK' /\ FiniteTasks'
<1> USE DEF DeviceInv
<1>1. CASE UNCHANGED vars
  BY <1>1 DEF vars, guestVars, queueVars, stopVars, TypeOK, FiniteTasks
<1>2. ASSUME NEW q \in Queues, Submit(q) PROVE TypeOK' /\ FiniteTasks'
  BY <1>2 DEF Submit, TypeOK, FiniteTasks, queueVars, stopVars
<1>3. ASSUME NEW q \in Queues, Notify(q) PROVE TypeOK' /\ FiniteTasks'
  <2>1. CASE Drains(q, queue[q])
    <3>1. queue[q] \in Nat
      BY DEF TypeOK
    <3>2. NewLoop(q, queue[q])
      BY <1>3, <2>1, DrainStarts DEF Notify
    <3> QED
      BY <1>3, <2>1, <3>1, <3>2, NewLoopTyped
      DEF Notify, Drain, TypeOK, FiniteTasks, stopVars
  <2>2. CASE ~Drains(q, queue[q])
    BY <1>3, <2>2 DEF Notify, Drain, TypeOK, FiniteTasks, stopVars
  <2> QED
    BY <2>1, <2>2
<1>4. ASSUME NEW q \in Queues, EnableQueue(q) PROVE TypeOK' /\ FiniteTasks'
  <2>0. ring_count + 1 \in Nat
    BY DEF TypeOK
  <2>1. CASE pending[q] /\ Drains(q, ring_count + 1)
    <3>1. NewLoop(q, ring_count + 1)
      BY <1>4, <2>1, DrainStarts DEF EnableQueue
    <3> QED
      BY <1>4, <2>0, <2>1, <3>1, NewLoopTyped
      DEF EnableQueue, Drain, TypeOK, FiniteTasks, stopVars
  <2>2. CASE ~(pending[q] /\ Drains(q, ring_count + 1))
    BY <1>4, <2>0, <2>2 DEF EnableQueue, Drain, TypeOK, FiniteTasks, stopVars
  <2> QED
    BY <2>1, <2>2
<1>5. ASSUME NEW q \in Queues, DisableQueue(q) PROVE TypeOK' /\ FiniteTasks'
  BY <1>5 DEF DisableQueue, TypeOK, FiniteTasks, stopVars, NoRing
<1>6. CASE Reset
  <2>1. [limit |-> ring_count, wait |-> ResetWaitsFor]
          \in [limit: Nat, wait: SUBSET ({"kick", "work"} \X Task)]
    BY ActiveTyped DEF TypeOK, ResetWaitsFor
  <2> QED
    BY <1>6, <2>1 DEF Reset, TypeOK, FiniteTasks, stopVars, NoRing
<1>7. ASSUME NEW k \in kicks, TakeChain(k) PROVE TypeOK' /\ FiniteTasks'
  <2>1. k.q \in Queues /\ k.ring \in Nat /\ avail[k.q] - 1 \in Nat
    BY <1>7 DEF TakeChain, TypeOK, Task
  <2>2. [n |-> Fresh(work), q |-> k.q, ring |-> k.ring] \in Task
    BY <2>1, FreshIsFresh DEF FiniteTasks, Task
  <2> DEFINE new == [n |-> Fresh(work), q |-> k.q, ring |-> k.ring]
  <2>3. work' = work \cup {new}
    BY <1>7 DEF TakeChain
  <2>4. work' \in SUBSET Task
    BY <2>2, <2>3 DEF TypeOK
  <2>5. IsFiniteSet(work')
    <3> HIDE DEF new
    <3> QED
      BY <2>3, FS_AddElement DEF FiniteTasks
  <2> QED
    BY <1>7, <2>1, <2>4, <2>5 DEF TakeChain, TypeOK, FiniteTasks, queueVars, stopVars
<1>8. ASSUME NEW k \in kicks, EndOfRing(k) PROVE TypeOK' /\ FiniteTasks'
  BY <1>8 DEF EndOfRing, TypeOK, FiniteTasks, guestVars, queueVars, stopVars
<1>9. ASSUME NEW k \in kicks, NEW ok \in BOOLEAN, SettleKick(k, ok)
      PROVE  TypeOK' /\ FiniteTasks'
  <2>1. [n |-> k.n, q |-> k.q, ok |-> ok] \in [n: Nat, q: Queues, ok: BOOLEAN]
    BY DEF TypeOK, Task
  <2>2. IsFiniteSet(kicks') /\ IsFiniteSet(resuming')
    BY <1>9, FS_AddElement, FS_RemoveElement DEF SettleKick, FiniteTasks
  <2> QED
    BY <1>9, <2>1, <2>2
    DEF SettleKick, TypeOK, FiniteTasks, guestVars, queueVars, stopVars
<1>10. ASSUME NEW l \in resuming, NextRound(l) PROVE TypeOK' /\ FiniteTasks'
  <2>1. l.n \in Nat /\ l.q \in Queues /\ queue[l.q] \in Nat
    BY DEF TypeOK
  <2>2. [n |-> l.n, q |-> l.q, ring |-> queue[l.q]] \in Task
    BY <2>1 DEF Task
  <2>3. IsFiniteSet({m \in resuming : m.n # l.n})
    BY FS_Subset DEF FiniteTasks
  <2>4. IsFiniteSet(kicks') /\ IsFiniteSet(resuming')
    BY <1>10, <2>3, FS_AddElement, FS_EmptySet DEF NextRound, Dispatch, FiniteTasks
  <2>5. [n |-> l.n, q |-> l.q, ok |-> TRUE] \in [n: Nat, q: Queues, ok: BOOLEAN]
    BY <2>1
  <2>6. /\ kicks' \in SUBSET Task /\ looking' \in SUBSET kicks'
        /\ resuming' \in SUBSET [n: Nat, q: Queues, ok: BOOLEAN]
    BY <1>10, <2>2, <2>5 DEF NextRound, Dispatch, TypeOK
  <2> QED
    BY <1>10, <2>1, <2>4, <2>6 DEF NextRound, TypeOK, FiniteTasks, guestVars, stopVars
<1>11. ASSUME NEW l \in resuming, EndLoop(l) PROVE TypeOK' /\ FiniteTasks'
  <2>1. IsFiniteSet(resuming')
    BY <1>11, FS_RemoveElement DEF EndLoop, FiniteTasks
  <2> QED
    BY <1>11, <2>1 DEF EndLoop, TypeOK, FiniteTasks, guestVars, stopVars
<1>12. ASSUME NEW w \in work, FinishWork(w) PROVE TypeOK' /\ FiniteTasks'
  <2>1. IsFiniteSet(work')
    BY <1>12, FS_RemoveElement DEF FinishWork, FiniteTasks
  <2> QED
    BY <1>12, <2>1 DEF FinishWork, TypeOK, Task, FiniteTasks, queueVars, stopVars
<1>13. ASSUME NEW w \in work, FailWork(w) PROVE TypeOK' /\ FiniteTasks'
  <2>1. IsFiniteSet(work')
    BY <1>13, FS_RemoveElement DEF FailWork, FiniteTasks
  <2> QED
    BY <1>13, <2>1 DEF FailWork, TypeOK, FiniteTasks, guestVars, queueVars, stopVars
<1>14. ASSUME NEW d \in draining, ResetDone(d) PROVE TypeOK' /\ FiniteTasks'
  BY <1>14 DEF ResetDone, TypeOK, FiniteTasks, queueVars, stopVars
<1>15. ASSUME NEW r \in armed, Interrupt(r) PROVE TypeOK' /\ FiniteTasks'
  BY <1>15 DEF Interrupt, TypeOK, FiniteTasks, queueVars, stopVars
<1>16. CASE Shutdown \/ AllSettled
  BY <1>16, ActiveTyped
  DEF Shutdown, AllSettled, AfterSettled, TypeOK, FiniteTasks, guestVars, queueVars
<1>17. CASE Closed
  BY <1>17 DEF Closed, TypeOK, FiniteTasks, guestVars, queueVars
<1> QED
  BY <1>1, <1>2, <1>3, <1>4, <1>5, <1>6, <1>7, <1>8, <1>9, <1>10, <1>11, <1>12,
     <1>13, <1>14, <1>15, <1>16, <1>17
  DEF Next, GuestCall, KickStep, LoopStep, WorkStep

-----------------------------------------------------------------------------
(***************************************************************************)
(* Drain loops.                                                            *)
(***************************************************************************)
(* A loop is started only where there is none.                             *)
LEMMA NewLoopAlone ==
  ASSUME DeviceInv, NEW q \in Queues, NEW r \in Nat, NewLoop(q, r), ~notifying[q],
         notifying' = [notifying EXCEPT ![q] = TRUE]
  PROVE  OneLoop' /\ LoopsNumbered'
<1> USE DEF DeviceInv
<1>0. /\ \A k \in kicks : k.q # q /\ k.q \in Queues
      /\ \A l \in resuming : l.q # q /\ l.q \in Queues
  BY DEF OneLoop, TypeOK, Task
<1>1. /\ notifying'[q] /\ \A p \in Queues : p # q => notifying'[p] = notifying[p]
  BY DEF TypeOK
<1>2. CASE stopped
  <2>1. PICK n \in Nat :
          /\ \A k \in kicks : k.n # n
          /\ \A l \in resuming : l.n # n
          /\ resuming' = resuming \cup {[n |-> n, q |-> q, ok |-> TRUE]}
          /\ kicks' = kicks
    BY <1>2 DEF NewLoop
  <2> DEFINE new == [n |-> n, q |-> q, ok |-> TRUE]
  <2>2. new.q = q /\ new.n = n /\ new \in resuming'
    BY <2>1
  <2>3. \A l \in resuming' : l \in resuming \/ l = new
    BY <2>1
  <2> HIDE DEF new
  <2>4. OneLoop'
    BY <1>0, <1>1, <2>1, <2>2, <2>3 DEF OneLoop
  <2>5. LoopsNumbered'
    BY <2>1, <2>2, <2>3 DEF LoopsNumbered
  <2> QED
    BY <2>4, <2>5
<1>3. CASE ~stopped
  <2>1. PICK n \in Nat :
          /\ \A k \in kicks : k.n # n
          /\ \A l \in resuming : l.n # n
          /\ kicks' = kicks \cup {[n |-> n, q |-> q, ring |-> r]}
          /\ resuming' = resuming
    BY <1>3 DEF NewLoop
  <2> DEFINE new == [n |-> n, q |-> q, ring |-> r]
  <2>2. new.q = q /\ new.n = n /\ new \in kicks'
    BY <2>1
  <2>3. \A k \in kicks' : k \in kicks \/ k = new
    BY <2>1
  <2> HIDE DEF new
  <2>4. OneLoop'
    BY <1>0, <1>1, <2>1, <2>2, <2>3 DEF OneLoop
  <2>5. LoopsNumbered'
    BY <2>1, <2>2, <2>3 DEF LoopsNumbered
  <2> QED
    BY <2>4, <2>5
<1> QED
  BY <1>2, <1>3

(* A loop that goes round: its continuation becomes its next kick.         *)
LEMMA RoundOfLoop ==
  ASSUME DeviceInv, NEW l \in resuming, NextRound(l)
  PROVE  /\ l.q \in Queues
         /\ \A m \in resuming : m = l \/ m.n # l.n
         /\ ~stopped => LET kick == [n |-> l.n, q |-> l.q, ring |-> queue[l.q]]
                        IN  /\ kicks' = kicks \cup {kick}
                            /\ looking' = looking \cup {kick}
                            /\ resuming' = resuming \ {l}
         /\ stopped => LET next == [n |-> l.n, q |-> l.q, ok |-> TRUE]
                       IN  /\ kicks' = kicks /\ looking' = looking
                           /\ resuming' = (resuming \ {l}) \cup {next}
<1>1. l.q \in Queues /\ \A m \in resuming : m = l \/ m.n # l.n
  BY DEF DeviceInv, LoopsNumbered, TypeOK
<1>2. {m \in resuming : m.n # l.n} = resuming \ {l}
  BY <1>1
<1> QED
  BY <1>1, <1>2 DEF NextRound, Dispatch

LEMMA LoopsStep ==
  ASSUME DeviceInv, [Next]_vars
  PROVE  OneLoop' /\ LoopsNumbered'
<1> USE DEF DeviceInv
<1>1. CASE UNCHANGED <<kicks, resuming, notifying>>
  BY <1>1 DEF OneLoop, LoopsNumbered
<1>2. ASSUME NEW q \in Queues, Notify(q) PROVE OneLoop' /\ LoopsNumbered'
  <2>1. CASE Drains(q, queue[q])
    <3>1. NewLoop(q, queue[q]) /\ queue[q] \in Nat
      BY <1>2, <2>1, DrainStarts DEF Notify, TypeOK
    <3> QED
      BY <1>2, <2>1, <3>1, NewLoopAlone DEF Notify, Drain, Drains
  <2> QED
    BY <1>1, <1>2, <2>1 DEF Notify, Drain
<1>3. ASSUME NEW q \in Queues, EnableQueue(q) PROVE OneLoop' /\ LoopsNumbered'
  <2>1. CASE pending[q] /\ Drains(q, ring_count + 1)
    <3>1. NewLoop(q, ring_count + 1)
      BY <1>3, <2>1, DrainStarts DEF EnableQueue
    <3>2. ring_count + 1 \in Nat
      BY DEF TypeOK
    <3> QED
      BY <1>3, <2>1, <3>1, <3>2, NewLoopAlone DEF EnableQueue, Drain, Drains
  <2> QED
    BY <1>1, <1>3, <2>1 DEF EnableQueue, Drain
<1>4. ASSUME NEW k \in kicks, NEW ok \in BOOLEAN, SettleKick(k, ok)
      PROVE  OneLoop' /\ LoopsNumbered'
  <2> DEFINE loop == [n |-> k.n, q |-> k.q, ok |-> ok]
  <2>1. loop.n = k.n /\ loop.q = k.q /\ loop \in resuming' /\ k \notin kicks'
    BY <1>4 DEF SettleKick
  <2>2. /\ \A l \in resuming' : l \in resuming \/ l = loop
        /\ \A a \in kicks' : a \in kicks /\ a # k
        /\ \A a \in kicks : a \in kicks' \/ a = k
        /\ resuming \subseteq resuming' /\ notifying' = notifying
    BY <1>4 DEF SettleKick, queueVars
  <2> HIDE DEF loop
  <2>3. OneLoop'
    BY <2>1, <2>2 DEF OneLoop
  <2>4. LoopsNumbered'
    BY <2>1, <2>2 DEF LoopsNumbered
  <2> QED
    BY <2>3, <2>4
<1>5. ASSUME NEW l \in resuming, NextRound(l) PROVE OneLoop' /\ LoopsNumbered'
  <2>1. notifying' = notifying
    BY <1>5 DEF NextRound
  <2>2. CASE stopped
    <3> DEFINE next == [n |-> l.n, q |-> l.q, ok |-> TRUE]
    <3>1. next.n = l.n /\ next.q = l.q /\ next \in resuming' /\ kicks' = kicks
      BY <1>5, <2>2, RoundOfLoop
    <3>2. /\ \A m \in resuming' : m = next \/ (m \in resuming /\ m # l)
          /\ \A m \in resuming : m \in resuming' \/ m = l
      BY <1>5, <2>2, RoundOfLoop
    <3> HIDE DEF next
    <3>3. OneLoop'
      BY <2>1, <3>1, <3>2 DEF OneLoop
    <3>4. LoopsNumbered'
      BY <3>1, <3>2 DEF LoopsNumbered
    <3> QED
      BY <3>3, <3>4
  <2>3. CASE ~stopped
    <3> DEFINE kick == [n |-> l.n, q |-> l.q, ring |-> queue[l.q]]
    <3>1. kick.n = l.n /\ kick.q = l.q /\ kick \in kicks' /\ resuming' = resuming \ {l}
      BY <1>5, <2>3, RoundOfLoop
    <3>2. /\ \A k \in kicks' : k = kick \/ k \in kicks
          /\ kicks \subseteq kicks'
      BY <1>5, <2>3, RoundOfLoop
    <3> HIDE DEF kick
    <3>3. OneLoop'
      BY <2>1, <3>1, <3>2 DEF OneLoop
    <3>4. LoopsNumbered'
      BY <3>1, <3>2 DEF LoopsNumbered
    <3> QED
      BY <3>3, <3>4
  <2> QED
    BY <2>2, <2>3
<1>6. ASSUME NEW l \in resuming, EndLoop(l) PROVE OneLoop' /\ LoopsNumbered'
  <2>1. l.q \in Queues /\ \A k \in kicks : k.q \in Queues
    BY DEF TypeOK, Task
  <2>2. /\ resuming' = resuming \ {l} /\ kicks' = kicks
        /\ notifying' = [notifying EXCEPT ![l.q] = FALSE]
    BY <1>6 DEF EndLoop
  <2>3. \A q \in Queues : notifying'[q] = (q # l.q /\ notifying[q])
    BY <2>1, <2>2 DEF TypeOK
  <2>4. \A m \in resuming : m.q \in Queues
    BY DEF TypeOK
  <2>5. OneLoop'
    BY <2>1, <2>2, <2>3, <2>4, ZenonT(60) DEF OneLoop
  <2> QED
    BY <2>2, <2>5 DEF LoopsNumbered
<1>7. CASE \/ Reset \/ Shutdown \/ AllSettled \/ Closed \/ UNCHANGED vars
           \/ \E q \in Queues : Submit(q) \/ DisableQueue(q)
           \/ \E k \in kicks : TakeChain(k) \/ EndOfRing(k)
           \/ WorkStep \/ (\E d \in draining : ResetDone(d)) \/ \E r \in armed : Interrupt(r)
  BY <1>1, <1>7
  DEF Reset, Shutdown, AllSettled, Closed, vars, Submit, DisableQueue, TakeChain, EndOfRing,
      WorkStep, FinishWork, FailWork, ResetDone, Interrupt, queueVars
<1> QED
  BY <1>2, <1>3, <1>4, <1>5, <1>6, <1>7 DEF Next, GuestCall, KickStep, LoopStep

-----------------------------------------------------------------------------
(***************************************************************************)
(* Rings, resets and what is in flight.                                    *)
(***************************************************************************)
(* How a step may change the kicks: none is new, or one is, on a ring the  *)
(* guest has after the step.                                               *)
KicksGrow ==
  \/ kicks' \subseteq kicks
  \/ \E k \in Task : /\ ~stopped /\ kicks' = kicks \cup {k}
                     /\ k.ring = queue'[k.q] /\ k.ring # NoRing

LEMMA NewLoopKicks ==
  ASSUME NEW q \in Queues, NEW r \in Nat, NewLoop(q, r), r = queue'[q], r # NoRing
  PROVE  KicksGrow
<1>1. CASE stopped
  BY <1>1 DEF NewLoop, KicksGrow
<1>2. CASE ~stopped
  <2>1. PICK n \in Nat : kicks' = kicks \cup {[n |-> n, q |-> q, ring |-> r]}
    BY <1>2 DEF NewLoop
  <2>2. [n |-> n, q |-> q, ring |-> r] \in Task
    BY DEF Task
  <2> QED
    BY <1>2, <2>1, <2>2 DEF KicksGrow
<1> QED
  BY <1>1, <1>2

LEMMA KicksStep ==
  ASSUME DeviceInv, [Next]_vars
  PROVE  KicksGrow
<1> USE DEF DeviceInv
<1>1. CASE kicks' = kicks
  BY <1>1 DEF KicksGrow
<1>2. ASSUME NEW q \in Queues, Notify(q) PROVE KicksGrow
  <2>1. CASE Drains(q, queue[q])
    <3>1. NewLoop(q, queue[q]) /\ queue'[q] = queue[q]
      BY <1>2, <2>1, DrainStarts DEF Notify
    <3>2. queue[q] \in Nat
      BY DEF TypeOK
    <3> QED
      BY <2>1, <3>1, <3>2, NewLoopKicks DEF Drains
  <2> QED
    BY <1>1, <1>2, <2>1 DEF Notify, Drain
<1>3. ASSUME NEW q \in Queues, EnableQueue(q) PROVE KicksGrow
  <2>1. CASE pending[q] /\ Drains(q, ring_count + 1)
    <3>1. NewLoop(q, ring_count + 1)
      BY <1>3, <2>1, DrainStarts DEF EnableQueue
    <3>2. ring_count + 1 \in Nat /\ queue'[q] = ring_count + 1
      BY <1>3 DEF EnableQueue, TypeOK
    <3> QED
      BY <2>1, <3>1, <3>2, NewLoopKicks DEF Drains
  <2> QED
    BY <1>1, <1>3, <2>1 DEF EnableQueue, Drain
<1>4. ASSUME NEW l \in resuming, NextRound(l) PROVE KicksGrow
  <2>1. CASE stopped
    BY <1>1, <1>4, <2>1, RoundOfLoop
  <2>2. CASE ~stopped
    <3> DEFINE kick == [n |-> l.n, q |-> l.q, ring |-> queue[l.q]]
    <3>1. kicks' = kicks \cup {kick}
      BY <1>4, <2>2, RoundOfLoop
    <3>2. kick \in Task
      BY DEF TypeOK, Task
    <3>3. kick.ring = queue'[kick.q] /\ kick.ring # NoRing
      BY <1>4 DEF NextRound, GoesRound
    <3> HIDE DEF kick
    <3> QED
      BY <2>2, <3>1, <3>2, <3>3 DEF KicksGrow
  <2> QED
    BY <2>1, <2>2
<1>5. CASE \/ Reset \/ Shutdown \/ AllSettled \/ Closed \/ UNCHANGED vars
           \/ \E q \in Queues : Submit(q) \/ DisableQueue(q)
           \/ \E k \in kicks : TakeChain(k) \/ EndOfRing(k)
           \/ \E l \in resuming : EndLoop(l)
           \/ WorkStep \/ (\E d \in draining : ResetDone(d)) \/ \E r \in armed : Interrupt(r)
  BY <1>1, <1>5
  DEF Reset, Shutdown, AllSettled, Closed, vars, Submit, DisableQueue, TakeChain, EndOfRing,
      EndLoop, WorkStep, FinishWork, FailWork, ResetDone, Interrupt
<1>6. CASE \E k \in kicks, ok \in BOOLEAN : SettleKick(k, ok)
  BY <1>6 DEF SettleKick, KicksGrow
<1> QED
  BY <1>2, <1>3, <1>4, <1>5, <1>6 DEF Next, GuestCall, KickStep, LoopStep

(* The same for the work: a task is new only on a ring the guest has.      *)
WorkGrows ==
  \/ work' \subseteq work
  \/ \E w \in Task : /\ kicks # {} /\ work' = work \cup {w}
                     /\ w.ring = queue'[w.q] /\ w.ring # NoRing

LEMMA WorkGrowth ==
  ASSUME DeviceInv, [Next]_vars
  PROVE  WorkGrows
<1> USE DEF DeviceInv
<1>1. CASE work' \subseteq work
  BY <1>1 DEF WorkGrows
<1>2. ASSUME NEW k \in kicks, TakeChain(k) PROVE WorkGrows
  <2> DEFINE w == [n |-> Fresh(work), q |-> k.q, ring |-> k.ring]
  <2>1. w \in Task
    BY FreshIsFresh DEF FiniteTasks, TypeOK, Task
  <2>2. w.ring = queue'[w.q] /\ w.ring # NoRing
    BY <1>2 DEF TakeChain, queueVars, RingsOrdered, NoRing
  <2>3. work' = work \cup {w}
    BY <1>2 DEF TakeChain
  <2> HIDE DEF w
  <2> QED
    BY <2>1, <2>2, <2>3 DEF WorkGrows
<1>3. CASE GuestCall \/ LoopStep \/ \E k \in kicks : EndOfRing(k) \/ \E ok \in BOOLEAN : SettleKick(k, ok)
  BY <1>1, <1>3
  DEF GuestCall, Submit, Notify, EnableQueue, DisableQueue, Reset, LoopStep, NextRound,
      EndLoop, EndOfRing, SettleKick
<1>4. CASE \/ WorkStep \/ (\E d \in draining : ResetDone(d)) \/ (\E r \in armed : Interrupt(r))
           \/ Shutdown \/ AllSettled \/ Closed \/ UNCHANGED vars
  BY <1>1, <1>4
  DEF WorkStep, FinishWork, FailWork, ResetDone, Interrupt, Shutdown, AllSettled, Closed, vars
<1> QED
  BY <1>2, <1>3, <1>4 DEF Next, KickStep

LEMMA RingsStep ==
  ASSUME DeviceInv, [Next]_vars
  PROVE  RingsOrdered'
<1> USE DEF DeviceInv
<1>k. \A k \in kicks' : 0 < k.ring
  <2>1. \A k \in Task : k.ring \in Nat
    BY DEF Task
  <2> QED
    BY <2>1, KicksStep DEF KicksGrow, RingsOrdered, NoRing
<1>1. CASE /\ UNCHANGED <<reclaimed, ring_count, draining, queue>>
           /\ \A q \in Queues : avail'[q] = avail[q] \/ queue[q] # NoRing
  BY <1>1, <1>k DEF RingsOrdered
<1>2. ASSUME NEW q \in Queues, Submit(q) PROVE RingsOrdered'
  BY <1>1, <1>2 DEF Submit, queueVars, TypeOK
<1>3. ASSUME NEW k \in kicks, TakeChain(k) PROVE RingsOrdered'
  <2>1. k.q \in Queues /\ queue[k.q] # NoRing
    BY <1>3 DEF TakeChain, TypeOK, Task, RingsOrdered, NoRing
  <2> QED
    BY <1>1, <1>3, <2>1 DEF TakeChain, queueVars, TypeOK
<1>4. ASSUME NEW q \in Queues, EnableQueue(q) PROVE RingsOrdered'
  <2>1. /\ queue' = [queue EXCEPT ![q] = ring_count + 1] /\ avail' = [avail EXCEPT ![q] = 0]
        /\ ring_count' = ring_count + 1 /\ reclaimed' = reclaimed /\ draining' = draining
    BY <1>4 DEF EnableQueue
  <2>2. ring_count \in Nat /\ reclaimed \in Nat /\ \A d \in draining : d.limit \in Nat
    BY DEF TypeOK
  <2>3. \A p \in Queues : queue[p] \in Nat
    BY DEF TypeOK
  <2>4. \A p \in Queues : queue'[p] = (IF p = q THEN ring_count + 1 ELSE queue[p])
    BY <2>1 DEF TypeOK
  <2>5. \A p \in Queues : avail'[p] = (IF p = q THEN 0 ELSE avail[p])
    BY <2>1 DEF TypeOK
  <2> QED
    BY <1>k, <2>1, <2>2, <2>3, <2>4, <2>5 DEF RingsOrdered, NoRing
<1>5. ASSUME NEW q \in Queues, DisableQueue(q) PROVE RingsOrdered'
  <2>1. \A p \in Queues : queue'[p] = NoRing \/ queue'[p] = queue[p]
    BY <1>5 DEF DisableQueue, TypeOK
  <2>2. \A p \in Queues : queue'[p] = NoRing => avail'[p] = 0
    BY <1>5 DEF DisableQueue, TypeOK, RingsOrdered
  <2> QED
    BY <1>5, <1>k, <2>1, <2>2 DEF DisableQueue, RingsOrdered
<1>6. CASE Reset
  <2>1. ring_count \in Nat /\ reclaimed \in Nat
    BY DEF TypeOK
  <2> DEFINE d == [limit |-> ring_count, wait |-> ResetWaitsFor]
  <2>2. d.limit = ring_count /\ draining' = draining \cup {d}
    BY <1>6 DEF Reset
  <2> HIDE DEF d
  <2>3. /\ \A q \in Queues : queue'[q] = NoRing /\ avail'[q] = 0
        /\ ring_count' = ring_count /\ reclaimed' = reclaimed
    BY <1>6 DEF Reset
  <2> QED
    BY <1>k, <2>1, <2>2, <2>3 DEF RingsOrdered
<1>7. ASSUME NEW d \in draining, ResetDone(d) PROVE RingsOrdered'
  <2>1. reclaimed' = reclaimed \/ reclaimed' = d.limit
    BY <1>7 DEF ResetDone
  <2>2. draining' \subseteq draining /\ UNCHANGED <<queue, ring_count, avail>>
    BY <1>7 DEF ResetDone, queueVars
  <2> QED
    BY <1>k, <2>1, <2>2 DEF RingsOrdered
<1>8. CASE \/ (\E q \in Queues : Notify(q)) \/ LoopStep
           \/ \E k \in kicks : EndOfRing(k) \/ \E ok \in BOOLEAN : SettleKick(k, ok)
  BY <1>1, <1>8
  DEF Notify, LoopStep, NextRound, EndLoop, EndOfRing, SettleKick, guestVars, queueVars
<1>9. CASE \/ WorkStep \/ (\E r \in armed : Interrupt(r))
           \/ Shutdown \/ AllSettled \/ Closed \/ UNCHANGED vars
  BY <1>1, <1>9
  DEF WorkStep, FinishWork, FailWork, Interrupt, Shutdown, AllSettled, Closed, vars,
      guestVars, queueVars
<1> QED
  BY <1>2, <1>3, <1>4, <1>5, <1>6, <1>7, <1>8, <1>9 DEF Next, GuestCall, KickStep

(* A reset that is answered leaves nothing of the rings before it, and no  *)
(* step starts anything on them.                                           *)
LEMMA QuietStep ==
  ASSUME DeviceInv, [Next]_vars
  PROVE  ResetWaits'
<1> USE DEF DeviceInv
<1> SUFFICES ASSUME Views PROVE ResetWaits'
  BY DEF ResetWaits
<1>t. /\ \A d \in draining' : d.limit \in Nat
      /\ reclaimed' \in Nat /\ reclaimed \in Nat
      /\ \A k \in kicks' : k.q \in Queues /\ k.ring \in Nat
      /\ \A w \in work' : w.q \in Queues /\ w.ring \in Nat
      /\ \A t \in Task : t.q \in Queues
  BY TypedStep DEF TypeOK, Task
<1>1. CASE reclaimed' = reclaimed /\ draining' \subseteq draining
  <2>1. \A k \in kicks' :
          k \in kicks \/ (reclaimed' < k.ring /\ \A d \in draining' : d.limit < k.ring)
    BY <1>t, KicksStep, RingsStep DEF KicksGrow, RingsOrdered
  <2>2. \A w \in work' :
          w \in work \/ (reclaimed' < w.ring /\ \A d \in draining' : d.limit < w.ring)
    BY <1>t, WorkGrowth, RingsStep DEF WorkGrows, RingsOrdered
  <2>3. \A k \in kicks' : reclaimed' < k.ring
    BY <1>1, <2>1 DEF ResetWaits
  <2>4. \A w \in work' : reclaimed' < w.ring
    BY <1>1, <2>2 DEF ResetWaits
  <2>5. \A d \in draining', k \in kicks' : k.ring <= d.limit => <<"kick", k>> \in d.wait
    BY <1>t, <1>1, <2>1 DEF ResetWaits
  <2>6. \A d \in draining', w \in work' : w.ring <= d.limit => <<"work", w>> \in d.wait
    BY <1>t, <1>1, <2>2 DEF ResetWaits
  <2> QED
    BY <2>3, <2>4, <2>5, <2>6 DEF ResetWaits
<1>2. CASE Reset
  <2> DEFINE d == [limit |-> ring_count, wait |-> Active]
  <2>1. d.wait = Active /\ draining' = draining \cup {d}
    BY <1>2 DEF Reset, ResetWaitsFor
  <2> HIDE DEF d
  <2>2. kicks' = kicks /\ work' = work /\ reclaimed' = reclaimed
    BY <1>2 DEF Reset
  <2>3. (\A k \in kicks : <<"kick", k>> \in Active) /\ \A w \in work : <<"work", w>> \in Active
    BY DEF Active
  <2> QED
    BY <2>1, <2>2, <2>3 DEF ResetWaits
<1>3. ASSUME NEW d \in draining, ResetDone(d) PROVE ResetWaits'
  <2>1. kicks' = kicks /\ work' = work /\ draining' \subseteq draining
    BY <1>3 DEF ResetDone
  <2>2. reclaimed' = reclaimed \/ reclaimed' = d.limit
    BY <1>3 DEF ResetDone
  <2>3. /\ \A k \in kicks : <<"kick", k>> \notin d.wait
        /\ \A w \in work : <<"work", w>> \notin d.wait
    BY <1>3 DEF ResetDone, Active
  <2>4. d.limit \in Nat
    BY DEF TypeOK
  <2>5. ASSUME NEW k \in kicks PROVE reclaimed' < k.ring
    <3>1. ~(k.ring <= d.limit) /\ k.ring \in Nat /\ reclaimed < k.ring
      BY <1>t, <2>1, <2>3 DEF ResetWaits
    <3> QED
      BY <2>2, <2>4, <3>1
  <2>6. ASSUME NEW w \in work PROVE reclaimed' < w.ring
    <3>1. ~(w.ring <= d.limit) /\ w.ring \in Nat /\ reclaimed < w.ring
      BY <1>t, <2>1, <2>3 DEF ResetWaits
    <3> QED
      BY <2>2, <2>4, <3>1
  <2> QED
    BY <2>1, <2>5, <2>6 DEF ResetWaits
<1>4. CASE LoopStep \/ KickStep
  BY <1>1, <1>4
  DEF LoopStep, NextRound, EndLoop, KickStep, TakeChain, EndOfRing, SettleKick, guestVars
<1>5. CASE \/ WorkStep \/ (\E r \in armed : Interrupt(r))
           \/ Shutdown \/ AllSettled \/ Closed \/ UNCHANGED vars
  BY <1>1, <1>5
  DEF WorkStep, FinishWork, FailWork, Interrupt, Shutdown, AllSettled, Closed, vars, guestVars
<1>6. CASE \E q \in Queues : Submit(q) \/ Notify(q) \/ EnableQueue(q) \/ DisableQueue(q)
  BY <1>1, <1>6 DEF Submit, Notify, EnableQueue, DisableQueue
<1> QED
  BY <1>2, <1>3, <1>4, <1>5, <1>6 DEF Next, GuestCall

(* What is in flight may start more only before the backend is closed.     *)
LEMMA CloseStep ==
  ASSUME DeviceInv, [Next]_vars
  PROVE  CloseQuiet'
<1> USE DEF DeviceInv
<1>1. CASE UNCHANGED <<phase, stopped>>
  <2> SUFFICES ASSUME phase \in {"closing", "closed"} PROVE kicks' = {} /\ work' = {}
    BY <1>1 DEF CloseQuiet
  <2>1. stopped /\ kicks = {} /\ work = {}
    BY DEF CloseQuiet
  <2> QED
    BY <2>1, KicksStep, WorkGrowth DEF KicksGrow, WorkGrows
<1>2. CASE Shutdown \/ AllSettled
  <2>1. kicks' = kicks /\ work' = work /\ stopped' = TRUE /\ phase' = AfterSettled
    BY <1>2 DEF Shutdown, AllSettled, CloseQuiet, TypeOK
  <2>2. AfterSettled \in {"closing", "closed"} => kicks = {} /\ work = {}
    <3> SUFFICES ASSUME Active = {} PROVE kicks = {} /\ work = {}
      BY DEF AfterSettled
    <3>1. (\A k \in kicks : <<"kick", k>> \in Active) /\ \A w \in work : <<"work", w>> \in Active
      BY DEF Active
    <3> QED
      BY <3>1
  <2> QED
    BY <2>1, <2>2 DEF CloseQuiet
<1>3. CASE Closed
  BY <1>3 DEF Closed, CloseQuiet
<1>4. CASE GuestCall \/ KickStep \/ LoopStep
  BY <1>1, <1>4
  DEF GuestCall, Submit, Notify, EnableQueue, DisableQueue, Reset, LoopStep, NextRound, EndLoop,
      KickStep, TakeChain, EndOfRing, SettleKick, stopVars
<1>5. CASE \/ WorkStep \/ (\E r \in armed : Interrupt(r))
           \/ (\E d \in draining : ResetDone(d)) \/ UNCHANGED vars
  BY <1>1, <1>5 DEF WorkStep, FinishWork, FailWork, Interrupt, ResetDone, vars, stopVars
<1> QED
  BY <1>2, <1>3, <1>4, <1>5 DEF Next

-----------------------------------------------------------------------------
(***************************************************************************)
(* Notifications and completions.                                          *)
(***************************************************************************)
(* Somebody is going to look at the ring of queue q.                       *)
Attended(q) ==
  \/ \E k \in looking : k.q = q /\ k.ring = queue[q]
  \/ pending[q] /\ \E k \in kicks : k.q = q
  \/ pending[q] /\ \E l \in resuming : l.q = q
  \/ \E l \in resuming : l.q = q /\ ~l.ok

(* A new loop attends to its own queue, and to no other less than before.  *)
LEMMA NewLoopAttends ==
  ASSUME TypeOK, NEW q \in Queues, NEW r \in Nat, NewLoop(q, r), ~stopped, r = queue'[q],
         pending' = [pending EXCEPT ![q] = FALSE],
         \A p \in Queues : p # q => queue'[p] = queue[p]
  PROVE  /\ Attended(q)'
         /\ \A p \in Queues : p # q /\ Attended(p) => Attended(p)'
<1>1. PICK n \in Nat : /\ kicks' = kicks \cup {[n |-> n, q |-> q, ring |-> r]}
                       /\ looking' = looking \cup {[n |-> n, q |-> q, ring |-> r]}
                       /\ resuming' = resuming
  BY DEF NewLoop
<1> DEFINE new == [n |-> n, q |-> q, ring |-> r]
<1>2. new \in looking' /\ new.q = q /\ new.ring = queue'[q]
  BY <1>1
<1>3. /\ kicks \subseteq kicks' /\ looking \subseteq looking'
      /\ \A p \in Queues : p # q => pending'[p] = pending[p]
  BY <1>1 DEF TypeOK
<1> HIDE DEF new
<1> QED
  BY <1>1, <1>2, <1>3 DEF Attended

(* A notification that finds a loop at work stays pending for it.          *)
LEMMA NoLostStep ==
  ASSUME DeviceInv, [Next]_vars
  PROVE  NoLostNotification'
<1> USE DEF DeviceInv
<1> SUFFICES ASSUME NEW q \in Queues, avail'[q] > 0, ~owes'[q], ~stopped', ~thrown'[q]
             PROVE  Attended(q)'
  BY DEF NoLostNotification, Attended
<1>n. ~stopped => \A p \in Queues :
        avail[p] > 0 /\ ~owes[p] /\ ~thrown[p] => Attended(p)
  BY DEF NoLostNotification, Attended
<1>a. avail[q] \in Nat /\ avail'[q] \in Nat
  BY TypedStep DEF TypeOK
<1>1. CASE UNCHANGED <<avail, owes, stopped, thrown, queue, pending, kicks, looking, resuming>>
  BY <1>1, <1>n DEF Attended
<1>2. ASSUME NEW p \in Queues, Submit(p) PROVE Attended(q)'
  <2>1. p # q /\ avail'[q] = avail[q] /\ owes'[q] = owes[q]
    BY <1>2 DEF Submit, TypeOK
  <2> QED
    BY <1>2, <1>n, <2>1 DEF Submit, queueVars, stopVars, Attended
<1>3. ASSUME NEW p \in Queues, Notify(p) PROVE Attended(q)'
  <2>0. ~stopped /\ avail' = avail /\ queue' = queue /\ (q # p => ~thrown[q])
    BY <1>3 DEF Notify, stopVars, TypeOK
  <2>1. q # p => Attended(q)
    BY <1>3, <1>n, <2>0 DEF Notify, TypeOK
  <2>2. CASE Drains(p, queue[p])
    <3>1. NewLoop(p, queue[p]) /\ pending' = [pending EXCEPT ![p] = FALSE]
      BY <1>3, <2>2, DrainStarts DEF Notify, Drain
    <3>2. queue[p] \in Nat
      BY DEF TypeOK
    <3> QED
      BY <2>0, <2>1, <3>1, <3>2, NewLoopAttends
  <2>3. CASE ~Drains(p, queue[p])
    <3>1. /\ pending' = [pending EXCEPT ![p] = TRUE]
          /\ UNCHANGED <<kicks, looking, resuming>>
      BY <1>3, <2>3 DEF Notify, Drain
    <3>2. CASE q # p
      <4>1. pending'[q] = pending[q]
        BY <3>1, <3>2 DEF TypeOK
      <4> QED
        BY <2>0, <2>1, <3>1, <3>2, <4>1 DEF Attended
    <3>3. CASE q = p
      <4>1. queue[p] # NoRing
        BY <2>0, <3>3, <1>a DEF RingsOrdered
      <4>2. notifying[p] /\ pending'[q]
        BY <2>3, <3>1, <3>3, <4>1 DEF Drains, TypeOK
      <4> QED
        BY <3>1, <3>3, <4>2 DEF OneLoop, Attended
    <3> QED
      BY <3>2, <3>3
  <2> QED
    BY <2>2, <2>3
<1>4. ASSUME NEW p \in Queues, EnableQueue(p) PROVE Attended(q)'
  <2>0. ~stopped /\ ~thrown[q]
    BY <1>4 DEF EnableQueue, stopVars
  <2>q. q # p
    BY <1>4, <1>a DEF EnableQueue, TypeOK
  <2>1. /\ q # p /\ avail'[q] = avail[q] /\ owes'[q] = owes[q]
        /\ \A x \in Queues : x # p => queue'[x] = queue[x]
    BY <1>4, <2>q DEF EnableQueue, TypeOK
  <2>2. Attended(q)
    BY <1>n, <2>0, <2>1
  <2>3. CASE pending[p] /\ Drains(p, ring_count + 1)
    <3>1. NewLoop(p, ring_count + 1)
      BY <1>4, <2>3, DrainStarts DEF EnableQueue
    <3>2. pending' = [pending EXCEPT ![p] = FALSE]
      BY <1>4, <2>3 DEF EnableQueue, Drain
    <3>3. ring_count + 1 \in Nat /\ queue'[p] = ring_count + 1
      BY <1>4 DEF EnableQueue, TypeOK
    <3> QED
      BY <2>0, <2>1, <2>2, <3>1, <3>2, <3>3, NewLoopAttends
  <2>4. CASE ~(pending[p] /\ Drains(p, ring_count + 1))
    <3>1. UNCHANGED <<kicks, looking, resuming>> /\ pending'[q] = pending[q]
      BY <1>4, <2>1, <2>4 DEF EnableQueue, Drain, TypeOK
    <3> QED
      BY <2>1, <2>2, <3>1 DEF Attended
  <2> QED
    BY <2>3, <2>4
<1>5. ASSUME NEW p \in Queues, DisableQueue(p) PROVE Attended(q)'
  <2>0. ~stopped /\ ~thrown[q] /\ UNCHANGED <<kicks, looking, resuming>>
    BY <1>5 DEF DisableQueue, stopVars
  <2>q. q # p
    BY <1>5, <1>a DEF DisableQueue, TypeOK
  <2>1. /\ avail'[q] = avail[q] /\ owes'[q] = owes[q]
        /\ queue'[q] = queue[q] /\ pending'[q] = pending[q]
    BY <1>5, <2>q DEF DisableQueue, TypeOK
  <2> QED
    BY <1>n, <2>0, <2>1 DEF Attended
<1>6. CASE Reset
  BY <1>6 DEF Reset
<1>7. ASSUME NEW k \in kicks, TakeChain(k) PROVE Attended(q)'
  <2>1. avail[q] > 0
    BY <1>7, <1>a DEF TakeChain, TypeOK, Task
  <2> QED
    BY <1>7, <1>n, <2>1 DEF TakeChain, queueVars, stopVars, Attended
<1>8. ASSUME NEW k \in kicks, EndOfRing(k) PROVE Attended(q)'
  <2>1. ~stopped /\ ~thrown[q] /\ UNCHANGED <<avail, owes, queue, pending, kicks, resuming>>
    BY <1>8 DEF EndOfRing, guestVars, queueVars, stopVars
  <2>2. Attended(q)
    BY <1>n, <2>1
  <2>3. ~(k.q = q /\ k.ring = queue[q])
    BY <1>8, <1>a, <2>1 DEF EndOfRing
  <2> QED
    BY <1>8, <2>1, <2>2, <2>3 DEF EndOfRing, Attended
<1>9. ASSUME NEW k \in kicks, NEW ok \in BOOLEAN, SettleKick(k, ok) PROVE Attended(q)'
  <2>1. ~stopped /\ ~thrown[q] /\ UNCHANGED <<avail, owes, queue, pending>>
    BY <1>9 DEF SettleKick, guestVars, queueVars, stopVars
  <2>2. Attended(q)
    BY <1>n, <2>1
  <2> DEFINE loop == [n |-> k.n, q |-> k.q, ok |-> ok]
  <2>3. loop \in resuming' /\ loop.q = k.q /\ loop.ok = ok
    BY <1>9 DEF SettleKick
  <2> HIDE DEF loop
  <2>4. /\ \A x \in kicks : x = k \/ x \in kicks'
        /\ \A x \in looking : (x = k /\ ~ok) \/ x \in looking'
        /\ resuming \subseteq resuming'
    BY <1>9 DEF SettleKick
  <2> QED
    BY <2>1, <2>2, <2>3, <2>4 DEF Attended
<1>10. ASSUME NEW l \in resuming, NextRound(l) PROVE Attended(q)'
  <2>1. ~stopped /\ ~thrown[q] /\ UNCHANGED <<avail, owes, queue>>
    BY <1>10 DEF NextRound, guestVars, stopVars
  <2>2. Attended(q)
    BY <1>n, <2>1
  <2> DEFINE kick == [n |-> l.n, q |-> l.q, ring |-> queue[l.q]]
  <2>3. kick \in looking' /\ kick.q = l.q /\ kick.ring = queue'[l.q]
    BY <1>10, <2>1, RoundOfLoop
  <2>4. kicks \subseteq kicks' /\ looking \subseteq looking' /\ resuming' = resuming \ {l}
    BY <1>10, <2>1, RoundOfLoop
  <2> HIDE DEF kick
  <2>5. CASE q = l.q
    BY <2>3, <2>5 DEF Attended
  <2>6. CASE q # l.q
    <3>1. pending'[q] = pending[q]
      BY <1>10, <2>6 DEF NextRound, TypeOK
    <3> QED
      BY <2>1, <2>2, <2>4, <2>6, <3>1 DEF Attended
  <2> QED
    BY <2>5, <2>6
<1>11. ASSUME NEW l \in resuming, EndLoop(l) PROVE Attended(q)'
  <2>0. l.q \in Queues /\ thrown \in [Queues -> BOOLEAN]
    BY DEF TypeOK
  <2>1. /\ ~stopped /\ ~thrown[q] /\ (l.q = q => l.ok)
        /\ UNCHANGED <<avail, owes, queue, pending, kicks, looking>>
        /\ resuming' = resuming \ {l}
    BY <1>11, <2>0 DEF EndLoop, guestVars, stopVars
  <2>2. Attended(q)
    BY <1>n, <2>1
  <2>3. ~(pending[q] /\ l.q = q)
    <3>1. queue[q] # NoRing
      BY <1>a, <2>1 DEF RingsOrdered
    <3> QED
      BY <1>11, <2>1, <3>1 DEF EndLoop, GoesRound
  <2> QED
    BY <2>1, <2>2, <2>3 DEF Attended
<1>12. CASE \E w \in work : FinishWork(w)
  BY <1>1, <1>12 DEF FinishWork, queueVars, stopVars
<1>13. CASE \E w \in work : FailWork(w)
  BY <1>1, <1>13 DEF FailWork, guestVars, queueVars, stopVars
<1>14. CASE \/ (\E r \in armed : Interrupt(r)) \/ (\E d \in draining : ResetDone(d))
            \/ Closed \/ AllSettled \/ UNCHANGED vars
  BY <1>1, <1>14
  DEF Interrupt, ResetDone, Closed, AllSettled, vars, guestVars, queueVars, stopVars
<1>15. CASE Shutdown
  BY <1>15 DEF Shutdown
<1> QED
  BY <1>2, <1>3, <1>4, <1>5, <1>6, <1>7, <1>8, <1>9, <1>10, <1>11, <1>12, <1>13, <1>14, <1>15
  DEF Next, GuestCall, KickStep, LoopStep, WorkStep

(* The interrupt of a ring clears what it announces, and only that.        *)
LEMMA NoSilentStep ==
  ASSUME DeviceInv, [Next]_vars
  PROVE  NoSilentCompletion'
<1> USE DEF DeviceInv
<1>1. CASE UNCHANGED <<unseen, queue, armed>>
  BY <1>1 DEF NoSilentCompletion
<1>2. ASSUME NEW q \in Queues, EnableQueue(q) \/ DisableQueue(q) PROVE NoSilentCompletion'
  <2>1. /\ armed' = armed /\ unseen'[q] = FALSE
        /\ \A p \in Queues : p # q => unseen'[p] = unseen[p] /\ queue'[p] = queue[p]
    BY <1>2 DEF EnableQueue, DisableQueue, TypeOK
  <2> QED
    BY <2>1 DEF NoSilentCompletion
<1>3. CASE Reset
  BY <1>3 DEF Reset, NoSilentCompletion
<1>4. ASSUME NEW w \in work, FinishWork(w) PROVE NoSilentCompletion'
  <2>1. w.q \in Queues
    BY DEF TypeOK, Task
  <2> QED
    BY <1>4, <2>1 DEF FinishWork, queueVars, NoSilentCompletion, TypeOK
<1>5. ASSUME NEW r \in armed, Interrupt(r) PROVE NoSilentCompletion'
  BY <1>5 DEF Interrupt, queueVars, NoSilentCompletion
<1>6. CASE (\E q \in Queues : Submit(q) \/ Notify(q)) \/ KickStep \/ LoopStep
  BY <1>1, <1>6
  DEF Submit, Notify, LoopStep, NextRound, EndLoop, KickStep, TakeChain, EndOfRing,
      SettleKick, guestVars, queueVars
<1>7. CASE \/ (\E w \in work : FailWork(w)) \/ (\E d \in draining : ResetDone(d))
           \/ Shutdown \/ AllSettled \/ Closed \/ UNCHANGED vars
  BY <1>1, <1>7
  DEF FailWork, ResetDone, Shutdown, AllSettled, Closed, vars, guestVars, queueVars
<1> QED
  BY <1>2, <1>3, <1>4, <1>5, <1>6, <1>7 DEF Next, GuestCall, WorkStep

-----------------------------------------------------------------------------
LEMMA DeviceInit == Init => DeviceInv
<1> SUFFICES ASSUME Init PROVE DeviceInv
  OBVIOUS
<1>1. TypeOK
  BY DEF Init, TypeOK, NoRing
<1>2. FiniteTasks
  BY FS_EmptySet DEF Init, FiniteTasks
<1>3. OneLoop /\ LoopsNumbered /\ RingsOrdered /\ ResetWaits /\ CloseQuiet
  BY DEF Init, OneLoop, LoopsNumbered, RingsOrdered, ResetWaits, CloseQuiet
<1>4. NoLostNotification /\ NoSilentCompletion
  BY DEF Init, NoLostNotification, NoSilentCompletion
<1> QED
  BY <1>1, <1>2, <1>3, <1>4 DEF DeviceInv

LEMMA DeviceInductive == Spec => []DeviceInv
<1>1. DeviceInv /\ [Next]_vars => DeviceInv'
  BY TypedStep, LoopsStep, RingsStep, QuietStep, CloseStep, NoLostStep, NoSilentStep
  DEF DeviceInv
<1> QED
  BY DeviceInit, <1>1, PTL DEF Spec

(* The queues' states, the active set and the shutdown of device.ts keep   *)
(* their types.                                                            *)
THEOREM DeviceTyped == Spec => []TypeOK
<1>1. DeviceInv => TypeOK
  BY DEF DeviceInv
<1> QED
  BY DeviceInductive, <1>1, PTL

(* For any number of queues and whatever the guest does between the awaits *)
(* of drain(), reset() and shutdown(): kicks of a queue never overlap, a   *)
(* notified request and a published completion are never forgotten, a kick *)
(* that throws leaves a queue the next notification starts again, an       *)
(* answered reset leaves nothing in flight on the rings before it, and     *)
(* the backend is closed only when nothing is active.                      *)
THEOREM DeviceIsSound == Spec => []DeviceSound
<1>1. DeviceInv => DeviceSound
  <2> SUFFICES ASSUME DeviceInv PROVE DeviceSound
    OBVIOUS
  <2>1. OneKickAtATime
    BY DEF DeviceInv, OneLoop, OneKickAtATime
  <2>2. ResetMeansQuiet
    BY DEF DeviceInv, ResetWaits, ResetMeansQuiet, TypeOK, Task
  <2>3. CloseMeansQuiet
    BY DEF DeviceInv, CloseQuiet, CloseMeansQuiet, Active
  <2> QED
    BY <2>1, <2>2, <2>3 DEF DeviceInv, DeviceSound, NothingInFlight
<1> QED
  BY DeviceInductive, <1>1, PTL
=============================================================================
