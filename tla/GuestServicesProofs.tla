------------------------ MODULE GuestServicesProofs ------------------------
(***************************************************************************)
(* Proofs about the services of GuestServices, and about the gateway, for  *)
(* every value of the constants.                                           *)
(*                                                                         *)
(* EthernetSwitch: frames of a sender arrive once and in order, and a      *)
(* sender that waits, waits for a receiver that is there.  AgentSession:   *)
(* the client has one session, and a session starts clean.  GuestFiles: a  *)
(* call works on its own files only, moves everything or fails, and        *)
(* recursive mkdirs meet.  GuestFetch: an exchange lets go of everything,  *)
(* and the body of a response is whole, in order, or fails.                *)
(* HostFetch: a request gets one answer.  GatewayIp: a datagram is handed  *)
(* on whole, and nothing is kept for a guest that has left.                *)
(***************************************************************************)
EXTENDS GuestServices, GatewayIp, FiniteSetTheorems, SequenceTheorems, WellFoundedInduction, TLAPS

-----------------------------------------------------------------------------
(***************************************************************************)
(* The Ethernet switch.                                                    *)
(***************************************************************************)
EthernetFrames == [number: Nat, sender: Ports]

SwitchTyped ==
  /\ ports \in SUBSET Ports /\ frames \in Nat
  /\ DOMAIN learned = E!Addresses
  /\ pending \in [Ports -> Seq(EthernetFrames)] /\ got \in [Ports -> Seq(EthernetFrames)]
  /\ rx \in [Ports -> Nat] /\ tx \in [Ports -> Nat]

(* Frames in the order of transmission, n the last so far, none of p's.    *)
Ordered(s, n, p) ==
  /\ \A i \in 1 .. Len(s) : s[i].number <= n /\ s[i].sender # p
  /\ \A i, j \in 1 .. Len(s) : i < j => s[i].number < s[j].number

FramesOrdered == \A p \in Ports : Ordered(got[p] \o pending[p], frames, p)

(* #flush leaves no frame beside a buffer.                                 *)
QueuesFlushed == \A p \in Ports : pending[p] = <<>> \/ rx[p] = 0

(* Whoever waits, waits for a device that still runs.                      *)
WaitsHeld == \A p \in Ports : tx[p] # 0 => \E q \in ports : tx[p] \in E!Numbers(pending[q])

LearnedOpen == \A a \in E!Addresses : learned[a] # "nobody" => learned[a] \in ports

SwitchInv == SwitchTyped /\ FramesOrdered /\ QueuesFlushed /\ WaitsHeld /\ LearnedOpen

LEMMA SwitchInvInit == E!Init => SwitchInv
<1> SUFFICES ASSUME E!Init PROVE SwitchInv
  OBVIOUS
<1>1. <<>> \in Seq(EthernetFrames)
  OBVIOUS
<1>2. SwitchTyped
  BY <1>1 DEF E!Init, SwitchTyped, E!None
<1>3. ASSUME NEW p \in Ports PROVE Ordered(got[p] \o pending[p], frames, p)
  <2>1. got[p] = <<>> /\ pending[p] = <<>>
    BY DEF E!Init
  <2>2. got[p] \o pending[p] = <<>>
    BY <1>1, <2>1, ConcatEmptySeq
  <2>3. Len(<<>>) = 0
    OBVIOUS
  <2> QED
    BY <2>2, <2>3 DEF Ordered
<1>4. QueuesFlushed /\ WaitsHeld /\ LearnedOpen
  BY DEF E!Init, QueuesFlushed, WaitsHeld, LearnedOpen, E!None, E!Nobody
<1> QED
  BY <1>2, <1>3, <1>4 DEF SwitchInv, FramesOrdered

(***************************************************************************)
(* #flush, and sequences of frames.                                        *)
(***************************************************************************)
(* What #flush makes of a queue: it is cut in two, and its end is kept.    *)
Cut(f, queue, buffers) ==
  /\ f.now \in Seq(EthernetFrames) /\ f.later \in Seq(EthernetFrames) /\ f.buffers \in Nat
  /\ f.now \o f.later = queue
  /\ f.later = <<>> \/ f.buffers = 0
  /\ f.later # <<>> => queue # <<>> /\ f.later[Len(f.later)] = queue[Len(queue)]
  /\ buffers = 0 => f.now = <<>> /\ f.later = queue

LEMMA FlushedIs ==
  ASSUME NEW p \in Ports, NEW queue \in Seq(EthernetFrames), NEW buffers \in Nat
  PROVE  Cut(E!Flushed(p, queue, buffers), queue, buffers)
<1>1. PICK m \in Nat : m = Len(queue)
  OBVIOUS
<1>2. PICK n : n = E!Least(m, buffers)
  OBVIOUS
<1>3. n \in Nat /\ n <= m /\ n <= buffers /\ (n = m \/ n = buffers)
  BY <1>1, <1>2 DEF E!Least
<1>4. PICK u, v : u = SubSeq(queue, 1, n) /\ v = SubSeq(queue, n + 1, m)
  OBVIOUS
<1>5. E!Flushed(p, queue, buffers) = [now |-> u, later |-> v, buffers |-> buffers - n]
  BY <1>1, <1>2, <1>4 DEF E!Flushed
<1>6. u \in Seq(EthernetFrames) /\ Len(u) = n /\ \A i \in 1 .. n : u[i] = queue[i]
  BY <1>1, <1>3, <1>4
<1>7. v \in Seq(EthernetFrames) /\ Len(v) = m - n /\ \A i \in 1 .. m - n : v[i] = queue[n + i]
  <2>1. n + 1 \in Int /\ m \in Int /\ \A i \in n + 1 .. m : queue[i] \in EthernetFrames
    BY <1>1, <1>3
  <2>2. /\ v \in Seq(EthernetFrames) /\ Len(v) = IF n + 1 <= m THEN m - (n + 1) + 1 ELSE 0
        /\ \A i \in 1 .. m - (n + 1) + 1 : v[i] = queue[n + 1 + i - 1]
    BY <1>4, <2>1, SubSeqProperties
  <2>3. Len(v) = m - n
    BY <1>3, <2>2
  <2>4. ASSUME NEW i \in 1 .. m - n PROVE v[i] = queue[n + i]
    <3>1. i \in 1 .. m - (n + 1) + 1 /\ n + 1 + i - 1 = n + i
      BY <1>3
    <3> QED
      BY <2>2, <3>1
  <2> QED
    BY <2>2, <2>3, <2>4
<1>8. u \o v = queue
  <2>1. /\ u \o v \in Seq(EthernetFrames) /\ Len(u \o v) = Len(u) + Len(v)
        /\ \A i \in 1 .. Len(u) + Len(v) : (u \o v)[i] = IF i <= Len(u) THEN u[i] ELSE v[i - Len(u)]
    BY <1>6, <1>7, ConcatProperties
  <2>2. Len(u \o v) = m
    BY <1>3, <1>6, <1>7, <2>1
  <2>3. ASSUME NEW i \in 1 .. m PROVE (u \o v)[i] = queue[i]
    <3>1. CASE i <= n
      BY <1>3, <1>6, <1>7, <2>1, <3>1
    <3>2. CASE i > n
      <4>1. PICK j : j = i - n
        OBVIOUS
      <4>2. j \in 1 .. m - n /\ n + j = i
        BY <1>3, <3>2, <4>1
      <4>3. (u \o v)[i] = v[j]
        BY <1>3, <1>6, <1>7, <2>1, <3>2, <4>1
      <4> QED
        BY <1>7, <4>2, <4>3
    <3>3. i <= n \/ i > n
      BY <1>3
    <3> QED
      BY <3>1, <3>2, <3>3
  <2> QED
    BY <1>1, <2>1, <2>2, <2>3, SeqEqual
<1>9. v = <<>> \/ buffers - n = 0
  <2>1. CASE n = m
    <3>1. Len(v) = 0
      BY <1>3, <1>7, <2>1
    <3> QED
      BY <1>7, <3>1
  <2>2. CASE n = buffers
    BY <2>2
  <2> QED
    BY <1>3, <2>1, <2>2
<1>10. v # <<>> => queue # <<>> /\ v[Len(v)] = queue[Len(queue)]
  <2> SUFFICES ASSUME v # <<>> PROVE queue # <<>> /\ v[Len(v)] = queue[Len(queue)]
    OBVIOUS
  <2>1. Len(v) # 0
    BY <1>7
  <2>2. m - n \in 1 .. m - n /\ n + (m - n) = m /\ m # 0
    BY <1>3, <1>7, <2>1
  <2> QED
    BY <1>1, <1>7, <2>2
<1>11. buffers = 0 => u = <<>> /\ v = queue
  <2> SUFFICES ASSUME buffers = 0 PROVE u = <<>> /\ v = queue
    OBVIOUS
  <2>1. u = <<>>
    BY <1>3, <1>6
  <2> QED
    BY <1>7, <1>8, <2>1, ConcatEmptySeq
<1>12. buffers - n \in Nat
  BY <1>3
<1> QED
  BY <1>5, <1>6, <1>7, <1>8, <1>9, <1>10, <1>11, <1>12 DEF Cut

(* A frame behind the others is the last in the order.                     *)
LEMMA OrderedAppend ==
  ASSUME NEW s \in Seq(EthernetFrames), NEW n \in Nat, NEW p, Ordered(s, n, p),
         NEW f \in EthernetFrames, f.number = n + 1, f.sender # p
  PROVE  Ordered(Append(s, f), n + 1, p)
<1>1. PICK m \in Nat : m = Len(s)
  OBVIOUS
<1>2. PICK t : t = Append(s, f)
  OBVIOUS
<1>3. Len(t) = m + 1 /\ t[m + 1] = f /\ \A i \in 1 .. m : t[i] = s[i]
  BY <1>1, <1>2
<1>4. \A i \in 1 .. m : s[i].number \in Nat /\ s[i].number <= n /\ s[i].sender # p
  <2>1. \A i \in 1 .. m : s[i] \in EthernetFrames
    BY <1>1
  <2> QED
    BY <1>1, <2>1 DEF Ordered, EthernetFrames
<1>5. \A i, j \in 1 .. m : i < j => s[i].number < s[j].number
  BY <1>1 DEF Ordered
<1>6. ASSUME NEW i \in 1 .. m + 1 PROVE t[i].number <= n + 1 /\ t[i].sender # p
  <2>1. i \in 1 .. m \/ i = m + 1
    OBVIOUS
  <2>2. CASE i \in 1 .. m
    <3>1. s[i].number \in Nat /\ s[i].number <= n
      BY <1>4, <2>2
    <3>2. s[i].number <= n + 1
      BY <3>1
    <3> QED
      BY <1>3, <1>4, <2>2, <3>2
  <2>3. CASE i = m + 1
    BY <1>3, <2>3
  <2> QED
    BY <2>1, <2>2, <2>3
<1>7. ASSUME NEW i \in 1 .. m + 1, NEW j \in 1 .. m + 1, i < j PROVE t[i].number < t[j].number
  <2>1. i \in 1 .. m /\ (j \in 1 .. m \/ j = m + 1)
    BY <1>7
  <2>2. CASE j \in 1 .. m
    BY <1>3, <1>5, <1>7, <2>1, <2>2
  <2>3. CASE j = m + 1
    <3>1. s[i].number \in Nat /\ s[i].number <= n
      BY <1>4, <2>1
    <3>2. s[i].number < n + 1
      BY <3>1
    <3> QED
      BY <1>3, <2>1, <2>3, <3>2
  <2> QED
    BY <2>1, <2>2, <2>3
<1> QED
  BY <1>2, <1>3, <1>6, <1>7 DEF Ordered

(* What is true of all frames is true of the first ones, and later.        *)
LEMMA OrderedPrefix ==
  ASSUME NEW s \in Seq(EthernetFrames), NEW t \in Seq(EthernetFrames), NEW n \in Nat, NEW p,
         Ordered(s \o t, n, p)
  PROVE  Ordered(s, n, p)
<1>1. /\ Len(s \o t) = Len(s) + Len(t)
      /\ \A i \in 1 .. Len(s) + Len(t) : (s \o t)[i] = IF i <= Len(s) THEN s[i] ELSE t[i - Len(s)]
  BY ConcatProperties
<1>2. \A i \in 1 .. Len(s) : i \in 1 .. Len(s \o t) /\ (s \o t)[i] = s[i]
  BY <1>1
<1> QED
  BY <1>2 DEF Ordered

LEMMA OrderedLater ==
  ASSUME NEW s \in Seq(EthernetFrames), NEW n \in Nat, NEW p, Ordered(s, n, p)
  PROVE  Ordered(s, n + 1, p)
<1>1. ASSUME NEW i \in 1 .. Len(s) PROVE s[i].number <= n + 1
  <2>1. s[i].number \in Nat /\ s[i].number <= n
    <3>1. s[i] \in EthernetFrames
      OBVIOUS
    <3> QED
      BY <3>1 DEF Ordered, EthernetFrames
  <2> QED
    BY <2>1
<1> QED
  BY <1>1 DEF Ordered

(* The numbers of a queue that grows or is cut in two.                     *)
LEMMA NumbersConcat ==
  ASSUME NEW s \in Seq(EthernetFrames), NEW t \in Seq(EthernetFrames)
  PROVE  E!Numbers(s \o t) = E!Numbers(s) \cup E!Numbers(t)
<1>1. PICK a \in Nat, b \in Nat : a = Len(s) /\ b = Len(t)
  OBVIOUS
<1>2. PICK u : u = s \o t
  OBVIOUS
<1>3. Len(u) = a + b /\ \A i \in 1 .. a + b : u[i] = IF i <= a THEN s[i] ELSE t[i - a]
  BY <1>1, <1>2, ConcatProperties
<1>4. ASSUME NEW i \in 1 .. a + b PROVE u[i].number \in E!Numbers(s) \cup E!Numbers(t)
  <2>1. CASE i <= a
    BY <1>1, <1>3, <2>1 DEF E!Numbers
  <2>2. CASE i > a
    <3>1. i - a \in 1 .. b /\ u[i] = t[i - a]
      BY <1>3, <2>2
    <3> QED
      BY <1>1, <3>1 DEF E!Numbers
  <2> QED
    BY <2>1, <2>2
<1>5. ASSUME NEW i \in 1 .. a PROVE s[i].number \in E!Numbers(u)
  <2>1. i \in 1 .. a + b /\ u[i] = s[i]
    BY <1>3
  <2> QED
    BY <1>3, <2>1 DEF E!Numbers
<1>6. ASSUME NEW i \in 1 .. b PROVE t[i].number \in E!Numbers(u)
  <2>1. a + i \in 1 .. a + b /\ ~(a + i <= a) /\ (a + i) - a = i
    OBVIOUS
  <2>2. u[a + i] = t[i]
    BY <1>3, <2>1
  <2> QED
    BY <1>3, <2>1, <2>2 DEF E!Numbers
<1>7. E!Numbers(u) \subseteq E!Numbers(s) \cup E!Numbers(t)
  BY <1>3, <1>4 DEF E!Numbers
<1>8. E!Numbers(s) \subseteq E!Numbers(u) /\ E!Numbers(t) \subseteq E!Numbers(u)
  BY <1>1, <1>5, <1>6 DEF E!Numbers
<1> QED
  BY <1>2, <1>7, <1>8

LEMMA NumbersAppend ==
  ASSUME NEW s \in Seq(EthernetFrames), NEW f \in EthernetFrames
  PROVE  E!Numbers(s) \subseteq E!Numbers(Append(s, f))
<1>1. PICK n, t : n = Len(s) /\ t = Append(s, f)
  OBVIOUS
<1>2. Len(t) = n + 1 /\ \A i \in 1 .. n : i \in 1 .. n + 1 /\ t[i] = s[i]
  BY <1>1
<1> QED
  BY <1>1, <1>2 DEF E!Numbers

LEMMA FramesConcat ==
  ASSUME NEW s \in Seq(EthernetFrames), NEW t \in Seq(EthernetFrames), NEW u \in Seq(EthernetFrames)
  PROVE  (s \o t) \o u = s \o (t \o u) /\ s \o t \in Seq(EthernetFrames)
BY ConcatAssociative, ConcatProperties

(***************************************************************************)
(* The steps.                                                              *)
(***************************************************************************)
(* #receive at one device: the frame is behind those it has, or dropped.   *)
LEMMA ReceiveKeeps ==
  ASSUME SwitchInv, NEW q \in Ports, NEW frame \in EthernetFrames,
         frame.number = frames + 1, frame.sender # q
  PROVE  LET f == E!Flushed(q, E!Receives(q, frame), rx[q]) IN
         /\ f.later \in Seq(EthernetFrames) /\ got[q] \o f.now \in Seq(EthernetFrames) /\ f.buffers \in Nat
         /\ Ordered((got[q] \o f.now) \o f.later, frames + 1, q)
         /\ f.later = <<>> \/ f.buffers = 0
         /\ E!Numbers(pending[q]) \subseteq E!Numbers(f.later)
         /\ E!Held(q, frame) => q \in ports /\ frame.number \in E!Numbers(f.later)
<1>1. /\ pending[q] \in Seq(EthernetFrames) /\ got[q] \in Seq(EthernetFrames) /\ rx[q] \in Nat
      /\ frames \in Nat /\ Ordered(got[q] \o pending[q], frames, q)
  BY DEF SwitchInv, SwitchTyped, FramesOrdered
<1>2. PICK r : r = E!Receives(q, frame)
  OBVIOUS
<1>3. r = IF E!Accepts(q) THEN Append(pending[q], frame) ELSE pending[q]
  BY <1>2 DEF E!Receives
<1>4. r \in Seq(EthernetFrames)
  BY <1>1, <1>3
<1>5. PICK f : f = E!Flushed(q, r, rx[q])
  OBVIOUS
<1>6. /\ f.now \in Seq(EthernetFrames) /\ f.later \in Seq(EthernetFrames) /\ f.buffers \in Nat
      /\ f.now \o f.later = r /\ (f.later = <<>> \/ f.buffers = 0)
      /\ f.later # <<>> => r # <<>> /\ f.later[Len(f.later)] = r[Len(r)]
      /\ rx[q] = 0 => f.now = <<>> /\ f.later = r
  <2>1. Cut(f, r, rx[q])
    BY <1>1, <1>4, <1>5, FlushedIs
  <2> QED
    BY <2>1 DEF Cut
<1>7. /\ (got[q] \o f.now) \o f.later = got[q] \o r
      /\ got[q] \o f.now \in Seq(EthernetFrames)
  <2>1. PICK g, u, v : g = got[q] /\ u = f.now /\ v = f.later
    OBVIOUS
  <2>2. g \in Seq(EthernetFrames) /\ u \in Seq(EthernetFrames) /\ v \in Seq(EthernetFrames) /\ u \o v = r
    BY <1>1, <1>6, <2>1
  <2>3. (g \o u) \o v = g \o (u \o v) /\ g \o u \in Seq(EthernetFrames)
    BY <2>2, FramesConcat
  <2> QED
    BY <2>1, <2>2, <2>3
<1>8. Ordered(got[q] \o r, frames + 1, q)
  <2>1. got[q] \o pending[q] \in Seq(EthernetFrames)
    BY <1>1, ConcatProperties
  <2>2. CASE E!Accepts(q)
    <3>1. got[q] \o Append(pending[q], frame) = Append(got[q] \o pending[q], frame)
      <4>1. <<frame>> \in Seq(EthernetFrames)
        OBVIOUS
      <4>2. Append(pending[q], frame) = pending[q] \o <<frame>>
        BY <1>1, AppendIsConcat
      <4>3. Append(got[q] \o pending[q], frame) = (got[q] \o pending[q]) \o <<frame>>
        BY <2>1, AppendIsConcat
      <4> QED
        <5>1. PICK g, u, v : g = got[q] /\ u = pending[q] /\ v = <<frame>>
          OBVIOUS
        <5>2. g \in Seq(EthernetFrames) /\ u \in Seq(EthernetFrames) /\ v \in Seq(EthernetFrames)
          BY <1>1, <4>1, <5>1
        <5>3. (g \o u) \o v = g \o (u \o v)
          BY <5>2, FramesConcat
        <5> QED
          BY <4>2, <4>3, <5>1, <5>3
    <3>2. Ordered(Append(got[q] \o pending[q], frame), frames + 1, q)
      BY <1>1, <2>1, OrderedAppend
    <3> QED
      BY <1>3, <2>2, <3>1, <3>2
  <2>3. CASE ~E!Accepts(q)
    BY <1>1, <1>3, <2>1, <2>3, OrderedLater
  <2> QED
    BY <2>2, <2>3
<1>9. E!Numbers(pending[q]) \subseteq E!Numbers(f.later)
  <2>1. CASE pending[q] = <<>>
    <3>1. Len(<<>>) = 0
      OBVIOUS
    <3> QED
      BY <2>1, <3>1 DEF E!Numbers
  <2>2. CASE pending[q] # <<>>
    <3>1. f.later = r
      BY <1>6, <2>2 DEF SwitchInv, QueuesFlushed
    <3> QED
      BY <1>1, <1>3, <3>1, NumbersAppend
  <2> QED
    BY <2>1, <2>2
<1>10. E!Held(q, frame) => q \in ports /\ frame.number \in E!Numbers(f.later)
  <2> SUFFICES ASSUME E!Held(q, frame) PROVE q \in ports /\ frame.number \in E!Numbers(f.later)
    OBVIOUS
  <2>1. E!Accepts(q) /\ Len(f.later) > RECEIVE_BACKLOG /\ q \in ports
    BY <1>2, <1>5 DEF E!Held, E!Accepts, E!Stopped
  <2>2. PICK k \in Nat : k = Len(f.later)
    BY <1>6
  <2>3. k \in 1 .. k
    BY <2>1, <2>2, GuestAssumption
  <2>4. f.later # <<>>
    <3>1. Len(<<>>) = 0
      OBVIOUS
    <3> QED
      BY <2>2, <2>3, <3>1
  <2>5. r = Append(pending[q], frame)
    BY <1>3, <2>1
  <2>6. r[Len(r)] = frame
    BY <1>1, <2>5
  <2>7. f.later[k] = frame
    BY <1>6, <2>2, <2>4, <2>6
  <2> QED
    BY <2>1, <2>2, <2>3, <2>7 DEF E!Numbers
<1> QED
  BY <1>2, <1>5, <1>6, <1>7, <1>8, <1>9, <1>10

LEMMA TransmitKeeps ==
  ASSUME SwitchInv, NEW p \in Ports, NEW from \in {p, Roaming},
         NEW to \in E!Addresses \cup {E!Everyone}, E!Transmit(p, from, to)
  PROVE  SwitchInv'
<1>1. PICK frame : frame = [number |-> frames + 1, sender |-> p]
  OBVIOUS
<1>2. PICK recipients : recipients = E!Recipients(p, to)
  OBVIOUS
<1> DEFINE f(q) == E!Flushed(q, E!Receives(q, frame), rx[q])
<1>3. PICK flushed : flushed = [q \in Ports |-> f(q)]
  OBVIOUS
<1> HIDE DEF f
<1>4. /\ p \in ports /\ frames' = frames + 1 /\ learned' = [learned EXCEPT ![from] = p]
      /\ UNCHANGED <<ports, switch_closed, resets>>
  BY DEF E!Transmit, E!Stopped
<1>5. pending' = [q \in Ports |-> IF q \in recipients THEN flushed[q].later ELSE pending[q]]
  BY <1>1, <1>2, <1>3 DEF E!Transmit, f
<1>6. got' = [q \in Ports |-> IF q \in recipients THEN got[q] \o flushed[q].now ELSE got[q]]
  BY <1>1, <1>2, <1>3 DEF E!Transmit, f
<1>7. rx' = [q \in Ports |-> IF q \in recipients THEN flushed[q].buffers ELSE rx[q]]
  BY <1>1, <1>2, <1>3 DEF E!Transmit, f
<1>8. tx' = [tx EXCEPT ![p] = IF E!Waits(to, recipients, frame) THEN frames + 1 ELSE 0]
  BY <1>1, <1>2 DEF E!Transmit, E!None
<1>9. frames \in Nat /\ frame \in EthernetFrames /\ frame.number = frames + 1 /\ frame.sender = p
  BY <1>1 DEF SwitchInv, SwitchTyped, EthernetFrames
<1>10. p \notin recipients
  BY <1>2 DEF E!Recipients
<1>11. ASSUME NEW q \in Ports, q \in recipients
       PROVE  /\ flushed[q].later \in Seq(EthernetFrames) /\ got[q] \o flushed[q].now \in Seq(EthernetFrames)
              /\ flushed[q].buffers \in Nat
              /\ Ordered((got[q] \o flushed[q].now) \o flushed[q].later, frames + 1, q)
              /\ flushed[q].later = <<>> \/ flushed[q].buffers = 0
              /\ E!Numbers(pending[q]) \subseteq E!Numbers(flushed[q].later)
              /\ E!Held(q, frame) => q \in ports /\ frame.number \in E!Numbers(flushed[q].later)
  <2>1. frame.sender # q
    BY <1>9, <1>10, <1>11
  <2>2. flushed[q] = E!Flushed(q, E!Receives(q, frame), rx[q])
    BY <1>3 DEF f
  <2> QED
    BY <1>9, <2>1, <2>2, ReceiveKeeps
<1>12. SwitchTyped'
  <2>1. pending' \in [Ports -> Seq(EthernetFrames)] /\ got' \in [Ports -> Seq(EthernetFrames)] /\ rx' \in [Ports -> Nat]
    BY <1>5, <1>6, <1>7, <1>11 DEF SwitchInv, SwitchTyped
  <2>2. tx' \in [Ports -> Nat] /\ frames' \in Nat /\ DOMAIN learned' = E!Addresses /\ ports' \in SUBSET Ports
    BY <1>4, <1>8, <1>9 DEF SwitchInv, SwitchTyped
  <2> QED
    BY <2>1, <2>2 DEF SwitchTyped
<1>13. ASSUME NEW q \in Ports
       PROVE  /\ Ordered(got'[q] \o pending'[q], frames', q)
              /\ pending'[q] = <<>> \/ rx'[q] = 0
              /\ E!Numbers(pending[q]) \subseteq E!Numbers(pending'[q])
  <2>1. CASE q \in recipients
    BY <1>4, <1>5, <1>6, <1>7, <1>11, <2>1
  <2>2. CASE q \notin recipients
    <3>1. pending'[q] = pending[q] /\ got'[q] = got[q] /\ rx'[q] = rx[q]
      BY <1>5, <1>6, <1>7, <2>2
    <3>2. got[q] \o pending[q] \in Seq(EthernetFrames) /\ Ordered(got[q] \o pending[q], frames, q)
      BY ConcatProperties DEF SwitchInv, SwitchTyped, FramesOrdered
    <3>3. Ordered(got[q] \o pending[q], frames + 1, q)
      BY <1>9, <3>2, OrderedLater
    <3> QED
      BY <1>4, <3>1, <3>3 DEF SwitchInv, QueuesFlushed
  <2> QED
    BY <2>1, <2>2
<1>14. FramesOrdered' /\ QueuesFlushed'
  BY <1>13 DEF FramesOrdered, QueuesFlushed
<1>15. WaitsHeld'
  <2> SUFFICES ASSUME NEW r \in Ports, tx'[r] # 0
               PROVE  \E q \in ports : tx'[r] \in E!Numbers(pending'[q])
    BY <1>4 DEF WaitsHeld
  <2>1. CASE r # p
    <3>1. tx'[r] = tx[r]
      BY <1>8, <2>1 DEF SwitchInv, SwitchTyped
    <3>2. PICK q \in ports : tx[r] \in E!Numbers(pending[q])
      BY <3>1 DEF SwitchInv, WaitsHeld
    <3>3. q \in Ports
      BY <3>2 DEF SwitchInv, SwitchTyped
    <3> QED
      BY <1>13, <3>1, <3>2, <3>3
  <2>2. CASE r = p
    <3>1. E!Waits(to, recipients, frame) /\ tx'[r] = frames + 1
      BY <1>8, <2>2 DEF SwitchInv, SwitchTyped
    <3>2. PICK q \in recipients : E!Held(q, frame)
      BY <3>1 DEF E!Waits
    <3>3. q \in ports /\ q \in Ports
      BY <3>2 DEF E!Held, E!Accepts, E!Stopped, SwitchInv, SwitchTyped
    <3>4. frame.number \in E!Numbers(flushed[q].later)
      BY <1>11, <3>2, <3>3
    <3>5. pending'[q] = flushed[q].later
      BY <1>5, <3>2, <3>3
    <3> QED
      BY <1>9, <3>1, <3>3, <3>4, <3>5
  <2> QED
    BY <2>1, <2>2
<1>16. LearnedOpen'
  BY <1>4 DEF SwitchInv, SwitchTyped, LearnedOpen
<1> QED
  BY <1>12, <1>14, <1>15, <1>16 DEF SwitchInv

LEMMA PostKeeps ==
  ASSUME SwitchInv, NEW p \in Ports, E!Post(p)
  PROVE  SwitchInv'
<1>1. PICK f : f = E!Flushed(p, pending[p], rx[p] + 1)
  OBVIOUS
<1>2. /\ p \in ports /\ pending' = [pending EXCEPT ![p] = f.later]
      /\ got' = [got EXCEPT ![p] = got[p] \o f.now] /\ rx' = [rx EXCEPT ![p] = f.buffers]
      /\ tx' = E!Resolve(E!Numbers(f.now)) /\ UNCHANGED <<ports, learned, switch_closed, frames, resets>>
  BY <1>1 DEF E!Post, E!Stopped
<1>3. pending[p] \in Seq(EthernetFrames) /\ got[p] \in Seq(EthernetFrames) /\ rx[p] + 1 \in Nat
  BY DEF SwitchInv, SwitchTyped
<1>4. /\ f.now \in Seq(EthernetFrames) /\ f.later \in Seq(EthernetFrames) /\ f.buffers \in Nat
      /\ f.now \o f.later = pending[p] /\ (f.later = <<>> \/ f.buffers = 0)
  <2>1. Cut(f, pending[p], rx[p] + 1)
    BY <1>1, <1>3, FlushedIs
  <2> QED
    BY <2>1 DEF Cut
<1>5. /\ got[p] \o f.now \in Seq(EthernetFrames)
      /\ (got[p] \o f.now) \o f.later = got[p] \o pending[p]
      /\ E!Numbers(pending[p]) = E!Numbers(f.now) \cup E!Numbers(f.later)
  <2>1. PICK g, u, v : g = got[p] /\ u = f.now /\ v = f.later
    OBVIOUS
  <2>2. g \in Seq(EthernetFrames) /\ u \in Seq(EthernetFrames) /\ v \in Seq(EthernetFrames) /\ u \o v = pending[p]
    BY <1>3, <1>4, <2>1
  <2>3. (g \o u) \o v = g \o (u \o v) /\ g \o u \in Seq(EthernetFrames)
    BY <2>2, FramesConcat
  <2>4. E!Numbers(u \o v) = E!Numbers(u) \cup E!Numbers(v)
    BY <2>2, NumbersConcat
  <2> QED
    BY <2>1, <2>2, <2>3, <2>4
<1>6. tx' \in [Ports -> Nat] /\ \A q \in Ports : tx'[q] = IF tx[q] \in E!Numbers(f.now) THEN 0 ELSE tx[q]
  BY <1>2 DEF E!Resolve, E!None, SwitchInv, SwitchTyped
<1>7. SwitchTyped'
  BY <1>2, <1>4, <1>5, <1>6 DEF SwitchInv, SwitchTyped
<1>8. ASSUME NEW q \in Ports
      PROVE  /\ Ordered(got'[q] \o pending'[q], frames', q)
             /\ pending'[q] = <<>> \/ rx'[q] = 0
  <2>1. CASE q = p
    <3>1. got'[q] = got[p] \o f.now /\ pending'[q] = f.later /\ rx'[q] = f.buffers
      BY <1>2, <2>1 DEF SwitchInv, SwitchTyped
    <3> QED
      BY <1>2, <1>4, <1>5, <2>1, <3>1 DEF SwitchInv, FramesOrdered
  <2>2. CASE q # p
    <3>1. got'[q] = got[q] /\ pending'[q] = pending[q] /\ rx'[q] = rx[q]
      BY <1>2, <2>2 DEF SwitchInv, SwitchTyped
    <3> QED
      BY <1>2, <3>1 DEF SwitchInv, FramesOrdered, QueuesFlushed
  <2> QED
    BY <2>1, <2>2
<1>9. FramesOrdered' /\ QueuesFlushed'
  BY <1>8 DEF FramesOrdered, QueuesFlushed
<1>10. WaitsHeld'
  <2> SUFFICES ASSUME NEW r \in Ports, tx'[r] # 0
               PROVE  \E q \in ports : tx'[r] \in E!Numbers(pending'[q])
    BY <1>2 DEF WaitsHeld
  <2>1. tx'[r] = tx[r] /\ tx[r] \notin E!Numbers(f.now)
    BY <1>6
  <2>2. PICK q \in ports : tx[r] \in E!Numbers(pending[q])
    BY <2>1 DEF SwitchInv, WaitsHeld
  <2>3. pending'[q] = IF q = p THEN f.later ELSE pending[q]
    BY <1>2, <2>2 DEF SwitchInv, SwitchTyped
  <2>4. tx[r] \in E!Numbers(pending'[q])
    BY <1>5, <2>1, <2>2, <2>3
  <2> QED
    BY <2>1, <2>4
<1>11. LearnedOpen'
  BY <1>2 DEF SwitchInv, LearnedOpen
<1> QED
  BY <1>7, <1>9, <1>10, <1>11 DEF SwitchInv

LEMMA StopKeeps ==
  ASSUME SwitchInv, NEW p \in Ports, E!Stop(p)
  PROVE  SwitchInv'
<1>1. /\ ports' = ports \ {p} /\ learned' = E!Forget(p) /\ rx' = [rx EXCEPT ![p] = 0]
      /\ pending' = [pending EXCEPT ![p] = <<>>]
      /\ tx' = [E!Resolve(E!Numbers(pending[p])) EXCEPT ![p] = 0]
      /\ UNCHANGED <<switch_closed, got, frames, resets>>
  BY DEF E!Stop, E!None
<1>2. <<>> \in Seq(EthernetFrames)
  OBVIOUS
<1>3. /\ tx' \in [Ports -> Nat]
      /\ \A q \in Ports : tx'[q] # 0 => tx'[q] = tx[q] /\ tx[q] \notin E!Numbers(pending[p])
  BY <1>1 DEF E!Resolve, E!None, SwitchInv, SwitchTyped
<1>4. SwitchTyped'
  BY <1>1, <1>2, <1>3 DEF E!Forget, SwitchInv, SwitchTyped
<1>5. ASSUME NEW q \in Ports
      PROVE  /\ Ordered(got'[q] \o pending'[q], frames', q)
             /\ pending'[q] = <<>> \/ rx'[q] = 0
  <2>1. got[q] \in Seq(EthernetFrames) /\ pending[q] \in Seq(EthernetFrames) /\ frames \in Nat
    BY DEF SwitchInv, SwitchTyped
  <2>2. CASE q = p
    <3>1. pending'[q] = <<>> /\ got[q] \o <<>> = got[q]
      BY <1>1, <2>1, <2>2, ConcatEmptySeq DEF SwitchInv, SwitchTyped
    <3>2. Ordered(got[q], frames, q)
      BY <2>1, OrderedPrefix DEF SwitchInv, FramesOrdered
    <3> QED
      BY <1>1, <3>1, <3>2
  <2>3. CASE q # p
    <3>1. got'[q] = got[q] /\ pending'[q] = pending[q] /\ rx'[q] = rx[q]
      BY <1>1, <2>3 DEF SwitchInv, SwitchTyped
    <3> QED
      BY <1>1, <3>1 DEF SwitchInv, FramesOrdered, QueuesFlushed
  <2> QED
    BY <2>2, <2>3
<1>6. FramesOrdered' /\ QueuesFlushed'
  BY <1>5 DEF FramesOrdered, QueuesFlushed
<1>7. WaitsHeld'
  <2> SUFFICES ASSUME NEW r \in Ports, tx'[r] # 0
               PROVE  \E q \in ports' : tx'[r] \in E!Numbers(pending'[q])
    BY DEF WaitsHeld
  <2>1. PICK q \in ports : tx[r] \in E!Numbers(pending[q])
    BY <1>3 DEF SwitchInv, WaitsHeld
  <2>2. q # p /\ q \in ports'
    BY <1>1, <1>3, <2>1
  <2>3. pending'[q] = pending[q]
    BY <1>1, <2>1, <2>2 DEF SwitchInv, SwitchTyped
  <2> QED
    BY <1>3, <2>1, <2>2, <2>3
<1>8. LearnedOpen'
  BY <1>1 DEF SwitchInv, SwitchTyped, LearnedOpen, E!Forget, E!Nobody
<1> QED
  BY <1>4, <1>6, <1>7, <1>8 DEF SwitchInv

LEMMA SwitchInvStep == SwitchInv /\ (E!Next \/ UNCHANGED switchVars) => SwitchInv'
<1> SUFFICES ASSUME SwitchInv, E!Next \/ UNCHANGED switchVars PROVE SwitchInv'
  OBVIOUS
<1>1. CASE E!CloseNetwork
  BY <1>1 DEF E!CloseNetwork, SwitchInv, SwitchTyped, FramesOrdered, QueuesFlushed, WaitsHeld, LearnedOpen, E!Nobody
<1>2. ASSUME NEW p \in Ports, E!Reset(p) PROVE SwitchInv'
  <2>1. /\ rx' = [rx EXCEPT ![p] = 0] /\ tx' = [tx EXCEPT ![p] = 0]
        /\ UNCHANGED <<ports, learned, switch_closed, pending, got, frames>>
    BY <1>2 DEF E!Reset, E!None
  <2>2. SwitchTyped' /\ QueuesFlushed'
    BY <2>1 DEF SwitchInv, SwitchTyped, QueuesFlushed
  <2>3. FramesOrdered' /\ LearnedOpen'
    BY <2>1 DEF SwitchInv, FramesOrdered, LearnedOpen
  <2>4. WaitsHeld'
    BY <2>1 DEF SwitchInv, SwitchTyped, WaitsHeld
  <2> QED
    BY <2>2, <2>3, <2>4 DEF SwitchInv
<1>3. ASSUME NEW p \in Ports, E!TransmitClosed(p) PROVE SwitchInv'
  <2>1. frames' = frames + 1 /\ UNCHANGED <<ports, learned, switch_closed, pending, rx, tx, got, resets>>
    BY <1>3 DEF E!TransmitClosed
  <2>2. ASSUME NEW q \in Ports PROVE Ordered(got[q] \o pending[q], frames + 1, q)
    <3>1. got[q] \o pending[q] \in Seq(EthernetFrames) /\ frames \in Nat
      BY ConcatProperties DEF SwitchInv, SwitchTyped
    <3> QED
      BY <3>1, OrderedLater DEF SwitchInv, FramesOrdered
  <2>3. FramesOrdered'
    BY <2>1, <2>2 DEF FramesOrdered
  <2> QED
    BY <2>1, <2>3 DEF SwitchInv, SwitchTyped, QueuesFlushed, WaitsHeld, LearnedOpen
<1>4. CASE UNCHANGED switchVars
  BY <1>4 DEF switchVars, SwitchInv, SwitchTyped, FramesOrdered, QueuesFlushed, WaitsHeld, LearnedOpen
<1>5. ASSUME NEW p \in Ports,
             \/ E!Post(p) \/ E!Reset(p) \/ E!Stop(p) \/ E!TransmitClosed(p)
             \/ \E from \in {p, Roaming}, to \in E!Addresses \cup {E!Everyone} : E!Transmit(p, from, to)
      PROVE  SwitchInv'
  BY <1>2, <1>3, <1>5, PostKeeps, StopKeeps, TransmitKeeps
<1> QED
  BY <1>1, <1>4, <1>5 DEF E!Next

LEMMA SwitchInvHolds == ServicesSpec => []SwitchInv
<1>1. ServicesInit => SwitchInv
  BY SwitchInvInit DEF ServicesInit
<1>2. SwitchInv /\ [ServicesNext]_servicesVars => SwitchInv'
  BY SwitchInvStep DEF ServicesNext, servicesVars
<1> QED
  BY <1>1, <1>2, PTL DEF ServicesSpec

(* The switch and the devices of net.ts give a guest every frame once, in  *)
(* the order of transmission, and never its own: for any number of ports,  *)
(* frames and buffers and any backlog, over resets, stops and floods.      *)
THEOREM SwitchKeepsOrder == ServicesSpec => []FramesInOrder
<1>1. SwitchInv => FramesInOrder
  BY DEF SwitchInv, FramesOrdered, Ordered, FramesInOrder, E!FramesInOrder
<1> QED
  BY <1>1, SwitchInvHolds, PTL

(* A device of net.ts that holds its guest's transmit back is held by one  *)
(* that still runs and is behind: no reset, stop or close of the network   *)
(* leaves a sender waiting for nobody, or an address behind a closed port. *)
THEOREM SendersAreHeld == ServicesSpec => []SenderHeldByReceiver
<1>1. SwitchInv => SenderHeldByReceiver
  <2> SUFFICES ASSUME SwitchInv PROVE E!SenderHeldByReceiver
    BY DEF SenderHeldByReceiver
  <2>1. ASSUME NEW p \in Ports, tx[p] # 0
        PROVE  \E q \in ports : tx[p] \in E!Numbers(pending[q]) /\ Len(pending[q]) > rx[q]
    <3>1. PICK q \in ports : tx[p] \in E!Numbers(pending[q])
      BY <2>1 DEF SwitchInv, WaitsHeld
    <3>2. q \in Ports /\ pending[q] \in Seq(EthernetFrames)
      BY <3>1 DEF SwitchInv, SwitchTyped
    <3>3. PICK n \in Nat : n = Len(pending[q])
      BY <3>2
    <3>4. n > 0
      BY <3>1, <3>3 DEF E!Numbers
    <3>5. pending[q] # <<>>
      <4>1. Len(<<>>) = 0
        OBVIOUS
      <4> QED
        BY <3>3, <3>4, <4>1
    <3>6. rx[q] = 0
      BY <3>2, <3>5 DEF SwitchInv, QueuesFlushed
    <3> QED
      BY <3>1, <3>3, <3>4, <3>6
  <2> QED
    BY <2>1 DEF SwitchInv, LearnedOpen, E!SenderHeldByReceiver, E!None, E!Nobody
<1> QED
  BY <1>1, SwitchInvHolds, PTL


-----------------------------------------------------------------------------
(***************************************************************************)
(* The agent's sessions.                                                   *)
(***************************************************************************)
Live == {"connecting", "handshake", "open"}

(* The client's side of it: no attempt is left that is not its session.    *)
ClientInv == DOMAIN host = A!Sessions /\ A!OneSession

LEMMA ClientInvInit == A!Init => ClientInv
BY DEF A!Init, ClientInv, A!OneSession

(* #connect: a new attempt is made only where there is no session.         *)
LEMMA ConnectKeeps ==
  ASSUME ClientInv, A!connect
  PROVE  ClientInv'
<1>1. CASE session # 0
  BY <1>1 DEF A!connect, ClientInv, A!OneSession
<1>2. CASE session = 0
  <2>1. \A s \in A!Sessions : s # 0
    BY GuestAssumption DEF A!Sessions
  <2>2. \A s \in A!Sessions : host[s] \notin Live
    BY <1>2, <2>1 DEF ClientInv, A!OneSession, Live
  <2>3. PICK s \in A!Sessions : session' = s /\ host' = [host EXCEPT ![s] = "connecting"]
    BY <1>2 DEF A!connect, A!Attempt, A!Unused
  <2> QED
    BY <2>2, <2>3 DEF ClientInv, A!OneSession, Live
<1> QED
  BY <1>1, <1>2

LEMMA HangupKeeps ==
  ASSUME ClientInv, NEW s \in A!Sessions, A!Hangup(s), session' = session \/ A!Forgets(s)
  PROVE  ClientInv'
BY DEF ClientInv, A!OneSession, A!Hangup, A!Forgets

LEMMA ClientInvStep == ClientInv /\ (A!Next \/ UNCHANGED sessionVars) => ClientInv'
<1> SUFFICES ASSUME ClientInv, A!Next \/ UNCHANGED sessionVars PROVE ClientInv'
  OBVIOUS
<1>1. CASE A!Call \/ A!Ping
  BY <1>1, ConnectKeeps DEF A!Call, A!Ping
<1>2. ASSUME NEW s \in A!Sessions, A!ConnectFails(s) \/ A!SessionDies(s) PROVE ClientInv'
  BY <1>2, HangupKeeps DEF A!ConnectFails, A!SessionDies
<1>3. ASSUME NEW s \in A!Sessions, A!Arrive(s) PROVE ClientInv'
  BY <1>3 DEF A!Arrive, ClientInv, A!OneSession
<1>4. CASE A!Handshake
  <2>1. session' = session /\ (host' = host \/
          (host[main.session] = "handshake" /\ host' = [host EXCEPT ![main.session] = "open"]))
    BY <1>4 DEF A!Handshake
  <2> QED
    BY <2>1 DEF ClientInv, A!OneSession
<1>5. CASE UNCHANGED <<session, host>>
  BY <1>5 DEF ClientInv, A!OneSession
<1>6. CASE A!PingAnswered \/ \E again \in BOOLEAN : A!PingFails(again)
  BY <1>5, <1>6 DEF A!PingAnswered, A!PingFails
<1>7. CASE A!AgentStep \/ A!InitExits
  BY <1>4, <1>5, <1>7 DEF A!AgentStep, A!Listen, A!Accept, A!SessionEnds, A!AcceptLane, A!LaneEnds,
     A!WorkerStarts, A!KillGroup, A!ReapGroup, A!InitExits
<1>8. ASSUME NEW p \in Procs,
             \/ A!Spawn(p) \/ A!SetSid(p) \/ A!ProcExits(p) \/ A!ParentReaps(p) \/ A!Reaper(p)
             \/ \E q \in Procs : A!Fork(p, q)
      PROVE  ClientInv'
  BY <1>5, <1>8 DEF A!Spawn, A!SetSid, A!ProcExits, A!ParentReaps, A!Reaper, A!Fork
<1> QED
  BY <1>1, <1>2, <1>3, <1>5, <1>6, <1>7, <1>8 DEF A!Next, A!HostStep, sessionVars

(* #connect of client.ts never leaves a second attempt behind for PID 1 to *)
(* take for the session: for any number of connections, refused, late,     *)
(* given up in the handshake or dead.                                      *)
THEOREM ClientHasOneSession == ServicesSpec => []OneSession
<1>1. ServicesInit => ClientInv
  BY ClientInvInit DEF ServicesInit
<1>2. ClientInv /\ [ServicesNext]_servicesVars => ClientInv'
  BY ClientInvStep DEF ServicesNext, servicesVars
<1>3. ClientInv => OneSession
  BY DEF ClientInv, OneSession
<1> QED
  BY <1>1, <1>2, <1>3, PTL DEF ServicesSpec

(***************************************************************************)
(* PID 1's side.                                                           *)
(***************************************************************************)
AgentTyped ==
  /\ DOMAIN main = {"at", "session"} /\ main.at \in {"boot", "accept", "wait", "reap", "over"}
  /\ worker \in {"none", "starting", "handshake", "serving", "exited", "failed"}
  /\ active_lanes \in Nat
  /\ DOMAIN proc = Procs
  /\ \A p \in Procs :
       /\ DOMAIN proc[p] = {"session", "grouped", "parent", "state"}
       /\ proc[p].grouped \in BOOLEAN /\ proc[p].parent \subseteq Procs
       /\ proc[p].state \in {"none", "running", "killed", "zombie", "gone"}
       /\ proc[p].state = "none" => proc[p].grouped

(* Where PID 1 is, the session's process is.                               *)
WorkerFollows ==
  /\ main.at \in {"boot", "accept"} => worker = "none"
  /\ main.at = "reap" => worker \in {"exited", "failed"}
  /\ active_lanes > 0 => worker = "serving"

(* A process and the one that forked it are of the same session, and       *)
(* nobody descends from itself.                                            *)
ParentsKnown ==
  \A p \in Procs : \A q \in proc[p].parent :
    proc[q].state # "none" /\ proc[q].session = proc[p].session

NoCycle == \A S \in SUBSET Procs : S # {} => \E p \in S : proc[p].parent \cap S = {}

(* What is left of a session's group is of the session that is served, and *)
(* there is none of it before that session is open; except for the killed  *)
(* of a session that a process has escaped from.                           *)
OfServed(p) == proc[p].session = main.session /\ worker \in {"serving", "exited", "failed"}

GroupServed ==
  \A p \in Procs : proc[p].grouped =>
    /\ proc[p].state = "running" => OfServed(p) /\ main.at # "reap"
    /\ proc[p].state \in {"killed", "zombie"} => OfServed(p) \/ A!Escaped(proc[p].session)

AgentInv == AgentTyped /\ WorkerFollows /\ ParentsKnown /\ NoCycle /\ GroupServed

LEMMA AgentInvInit == A!Init => AgentInv
<1> SUFFICES ASSUME A!Init PROVE AgentInv
  OBVIOUS
<1>1. \A p \in Procs : proc[p] = [session |-> 0, grouped |-> TRUE, parent |-> {}, state |-> "none"]
  BY DEF A!Init
<1>2. NoCycle
  BY <1>1 DEF NoCycle
<1>3. GroupServed
  BY <1>1 DEF GroupServed
<1>4. ParentsKnown
  BY <1>1 DEF ParentsKnown
<1>5. AgentTyped
  BY <1>1 DEF A!Init, AgentTyped
<1>6. WorkerFollows
  BY DEF A!Init, WorkerFollows
<1> QED
  BY <1>2, <1>3, <1>4, <1>5, <1>6 DEF AgentInv

(* Processes that only change their state, and are neither spawned nor     *)
(* start to run: they die, or are reaped.                                  *)
Ages(p) ==
  /\ DOMAIN proc'[p] = {"session", "grouped", "parent", "state"}
  /\ proc'[p].session = proc[p].session /\ proc'[p].grouped = proc[p].grouped
  /\ proc'[p].parent = proc[p].parent
  /\ \/ proc'[p].state = proc[p].state
     \/ proc[p].state = "running" /\ proc'[p].state \in {"killed", "zombie"}
     \/ proc[p].state = "killed" /\ proc'[p].state = "zombie"
     \/ proc[p].state = "zombie" /\ proc'[p].state = "gone"

LEMMA AgesKeeps ==
  ASSUME AgentInv, DOMAIN proc' = Procs, \A p \in Procs : Ages(p), UNCHANGED active_lanes,
         DOMAIN main' = {"at", "session"}, main'.session = main.session, UNCHANGED worker,
         \/ main' = main
         \/ /\ main.at = "wait" /\ main'.at = "reap" /\ worker \in {"exited", "failed"}
            /\ \A p \in Procs : proc[p].grouped => proc'[p].state # "running"
  PROVE  AgentInv'
<1>1. AgentTyped'
  BY DEF AgentInv, AgentTyped, Ages
<1>2. WorkerFollows'
  BY DEF AgentInv, WorkerFollows
<1>3. ParentsKnown'
  BY DEF AgentInv, AgentTyped, ParentsKnown, Ages
<1>4. NoCycle'
  <2> SUFFICES ASSUME NEW S \in SUBSET Procs, S # {}
               PROVE  \E p \in S : proc'[p].parent \cap S = {}
    BY DEF NoCycle
  <2> QED
    BY DEF AgentInv, NoCycle, Ages
<1>5. \A p \in Procs : A!Escaped(proc[p].session) => A!Escaped(proc[p].session)'
  BY DEF A!Escaped, Ages
<1>6. GroupServed'
  <2> SUFFICES ASSUME NEW p \in Procs, proc'[p].grouped
               PROVE  /\ proc'[p].state = "running" => OfServed(p)' /\ main'.at # "reap"
                      /\ proc'[p].state \in {"killed", "zombie"} =>
                           OfServed(p)' \/ A!Escaped(proc[p].session)'
    BY DEF GroupServed
  <2>1. OfServed(p) => OfServed(p)'
    BY DEF OfServed, Ages
  <2>2. /\ proc[p].grouped /\ proc'[p].session = proc[p].session
        /\ proc'[p].state = "running" => proc[p].state = "running"
        /\ proc'[p].state \in {"killed", "zombie"} => proc[p].state \in {"running", "killed", "zombie"}
    BY DEF Ages
  <2> QED
    BY <1>5, <2>1, <2>2 DEF AgentInv, GroupServed
<1> QED
  BY <1>1, <1>2, <1>3, <1>4, <1>6 DEF AgentInv

(* Steps that leave the processes alone.                                   *)
LEMMA ProcessesKept ==
  ASSUME AgentInv, UNCHANGED proc
  PROVE  /\ ParentsKnown' /\ NoCycle'
         /\ \A s : A!Escaped(s)' = A!Escaped(s)
BY DEF AgentInv, ParentsKnown, NoCycle, A!Escaped

LEMMA ServedKeeps ==
  ASSUME AgentInv, UNCHANGED proc, main'.session = main.session,
         main.at # "reap" => main'.at # "reap",
         worker \in {"serving", "exited", "failed"} => worker' \in {"serving", "exited", "failed"}
  PROVE  GroupServed'
<1>1. \A p \in Procs : OfServed(p) => OfServed(p)'
  BY DEF OfServed
<1> QED
  BY <1>1 DEF AgentInv, GroupServed, A!Escaped

(* A session's process exits, and leaves its group for PID 1 to reap.      *)
LEMMA ExitKeeps ==
  ASSUME AgentInv, NEW status \in {"exited", "failed"}, A!Exit(status),
         worker \in {"starting", "handshake", "serving"}, UNCHANGED <<main, proc>>
  PROVE  AgentInv'
<1>1. AgentTyped' /\ WorkerFollows'
  BY DEF AgentInv, AgentTyped, WorkerFollows, A!Exit
<1>2. GroupServed'
  BY ServedKeeps DEF A!Exit
<1> QED
  BY <1>1, <1>2, ProcessesKept DEF AgentInv

(* Its steps before that.                                                  *)
LEMMA WorkerKeeps ==
  ASSUME AgentInv,
         A!Handshake \/ A!SessionEnds \/ A!AcceptLane \/ A!LaneEnds \/ (\E ok \in BOOLEAN : A!WorkerStarts(ok))
  PROVE  AgentInv'
<1>1. ASSUME UNCHANGED <<main, proc>>, worker' \in {"handshake", "serving"},
             worker \in {"starting", "handshake"} \/ worker' = worker,
             worker \in {"starting", "handshake", "serving"},
             active_lanes' \in Nat, active_lanes' > 0 => worker = "serving" /\ worker' = worker
      PROVE  AgentInv'
  <2>1. AgentTyped'
    BY <1>1 DEF AgentInv, AgentTyped
  <2>2. WorkerFollows'
    BY <1>1 DEF AgentInv, WorkerFollows
  <2>3. GroupServed'
    BY <1>1, ServedKeeps
  <2> QED
    BY <1>1, <2>1, <2>2, <2>3, ProcessesKept DEF AgentInv
<1>2. CASE A!Handshake
  <2>1. CASE worker' = "serving" /\ UNCHANGED <<main, proc, active_lanes>>
    BY <1>1, <1>2, <2>1 DEF A!Handshake, AgentInv, AgentTyped, WorkerFollows
  <2>2. CASE A!Exit("exited")
    BY <1>2, <2>2, ExitKeeps DEF A!Handshake
  <2> QED
    BY <1>2, <2>1, <2>2 DEF A!Handshake
<1>3. CASE A!SessionEnds
  BY <1>3, ExitKeeps DEF A!SessionEnds
<1>4. CASE A!AcceptLane
  BY <1>1, <1>4 DEF A!AcceptLane, AgentInv, AgentTyped
<1>5. CASE A!LaneEnds
  BY <1>1, <1>5 DEF A!LaneEnds, AgentInv, AgentTyped, WorkerFollows
<1>6. ASSUME NEW ok \in BOOLEAN, A!WorkerStarts(ok) PROVE AgentInv'
  <2>1. CASE ok
    BY <1>1, <1>6, <2>1 DEF A!WorkerStarts, AgentInv, AgentTyped, WorkerFollows
  <2>2. CASE ~ok
    BY <1>6, <2>2, ExitKeeps DEF A!WorkerStarts
  <2> QED
    BY <2>1, <2>2
<1> QED
  BY <1>2, <1>3, <1>4, <1>5, <1>6

LEMMA KillGroupKeeps ==
  ASSUME AgentInv, A!KillGroup
  PROVE  AgentInv'
<1>1. /\ main.at = "wait" /\ worker \in {"exited", "failed"} /\ UNCHANGED <<worker, active_lanes>>
      /\ main' = [main EXCEPT !.at = "reap"] /\ proc' = A!Killed
  BY DEF A!KillGroup
<1>2. /\ main'.at = "reap" /\ main'.session = main.session /\ DOMAIN main' = {"at", "session"}
  BY <1>1 DEF AgentInv, AgentTyped
<1>3. DOMAIN proc' = Procs
  BY <1>1 DEF A!Killed
<1>4. ASSUME NEW p \in Procs
      PROVE  Ages(p) /\ (proc[p].grouped => proc'[p].state # "running")
  <2>1. proc[p].grouped /\ proc[p].state = "running" => A!InGroup(p)
    BY DEF A!InGroup, AgentInv, GroupServed, OfServed
  <2>2. CASE A!InGroup(p) /\ proc[p].state = "running"
    <3>1. proc'[p] = [proc[p] EXCEPT !.state = "killed"]
      BY <1>1, <2>2 DEF A!Killed
    <3> QED
      BY <2>2, <3>1 DEF Ages, AgentInv, AgentTyped
  <2>3. CASE ~(A!InGroup(p) /\ proc[p].state = "running")
    <3>1. proc'[p] = proc[p]
      BY <1>1, <2>3 DEF A!Killed
    <3> QED
      BY <2>1, <2>3, <3>1 DEF Ages, AgentInv, AgentTyped
  <2> QED
    BY <2>2, <2>3
<1> QED
  BY <1>1, <1>2, <1>3, <1>4, AgesKeeps

(* One process changes its state.                                          *)
LEMMA OneAges ==
  ASSUME AgentInv, UNCHANGED <<main, worker, active_lanes>>, NEW p \in Procs, NEW state,
         proc' = [proc EXCEPT ![p].state = state],
         \/ proc[p].state \in {"running", "killed"} /\ state = "zombie"
         \/ proc[p].state = "zombie" /\ state = "gone"
  PROVE  AgentInv'
<1>1. DOMAIN proc' = Procs
  BY DEF AgentInv, AgentTyped
<1>2. ASSUME NEW q \in Procs PROVE Ages(q)
  <2>1. CASE q = p
    <3>1. proc'[q] = [proc[q] EXCEPT !.state = state]
      BY <2>1 DEF AgentInv, AgentTyped
    <3> QED
      BY <2>1, <3>1 DEF Ages, AgentInv, AgentTyped
  <2>2. CASE q # p
    BY <2>2 DEF Ages, AgentInv, AgentTyped
  <2> QED
    BY <2>1, <2>2
<1>3. DOMAIN main' = {"at", "session"}
  BY DEF AgentInv, AgentTyped
<1> QED
  BY <1>1, <1>2, <1>3, AgesKeeps

(* waitpid(-worker) has no child any more: what is left of the group       *)
(* descends from a process that has escaped, for every other ancestor      *)
(* would be left too, and nobody descends from itself.                     *)
LEMMA LeftByEscaped ==
  ASSUME AgentInv, main.at = "reap",
         \A p \in Procs : A!InGroup(p) /\ A!Orphaned(p) => proc[p].state = "gone",
         NEW p \in Procs, A!InGroup(p), proc[p].state \in {"killed", "zombie"}
  PROVE  A!Escaped(main.session)
<1> SUFFICES ASSUME ~A!Escaped(main.session) PROVE FALSE
  OBVIOUS
<1> DEFINE Left == {q \in Procs : A!InGroup(q) /\ proc[q].state \in {"killed", "zombie"}}
<1>1. PICK q \in Left : proc[q].parent \cap Left = {}
  BY DEF AgentInv, NoCycle
<1>2. ~A!Orphaned(q)
  OBVIOUS
<1>3. PICK r \in proc[q].parent : proc[r].state \notin {"zombie", "gone"}
  BY <1>2 DEF A!Orphaned
<1>4. r \in Procs /\ proc[r].state \in {"running", "killed"} /\ proc[r].session = main.session
  BY <1>3 DEF AgentInv, AgentTyped, ParentsKnown, A!InGroup
<1>5. A!InGroup(r)
  BY <1>4 DEF A!Escaped, A!InGroup
<1>6. proc[r].state = "killed"
  BY <1>4, <1>5 DEF AgentInv, GroupServed, A!InGroup
<1> QED
  BY <1>1, <1>3, <1>4, <1>5, <1>6

LEMMA ReapGroupKeeps ==
  ASSUME AgentInv, A!ReapGroup
  PROVE  AgentInv'
<1>1. main.at = "reap" /\ UNCHANGED active_lanes
  BY DEF A!ReapGroup
<1>2. CASE /\ UNCHANGED <<main, worker>>
           /\ \E p \in Procs : proc[p].state = "zombie" /\ proc' = [proc EXCEPT ![p].state = "gone"]
  BY <1>1, <1>2, OneAges
<1>3. CASE /\ \A p \in Procs : A!InGroup(p) /\ A!Orphaned(p) => proc[p].state = "gone"
           /\ main' = [at |-> IF worker = "failed" THEN "over" ELSE "accept", session |-> main.session]
           /\ worker' = "none" /\ UNCHANGED proc
  <2>1. ASSUME NEW p \in Procs, proc[p].grouped
        PROVE  /\ proc[p].state # "running"
               /\ proc[p].state \in {"killed", "zombie"} => A!Escaped(proc[p].session)
    <3>1. proc[p].state # "running"
      BY <1>1, <2>1 DEF AgentInv, GroupServed
    <3>2. ASSUME proc[p].state \in {"killed", "zombie"}, proc[p].session = main.session
          PROVE  A!Escaped(proc[p].session)
      BY <1>1, <1>3, <2>1, <3>2, LeftByEscaped DEF A!InGroup
    <3> QED
      BY <2>1, <3>1, <3>2 DEF AgentInv, GroupServed, OfServed
  <2>2. ~(active_lanes > 0)
    BY <1>1 DEF AgentInv, WorkerFollows
  <2>3. DOMAIN main' = {"at", "session"} /\ main'.at \in {"over", "accept"}
    BY <1>3
  <2>4. AgentTyped' /\ WorkerFollows'
    BY <1>1, <1>3, <2>2, <2>3 DEF AgentInv, AgentTyped, WorkerFollows
  <2>5. GroupServed'
    BY <1>3, <2>1 DEF GroupServed, A!Escaped
  <2> QED
    BY <1>3, <2>4, <2>5, ProcessesKept DEF AgentInv
<1> QED
  BY <1>2, <1>3 DEF A!ReapGroup

LEMMA MainKeeps ==
  ASSUME AgentInv, A!Listen \/ (\E cloned \in BOOLEAN : A!Accept(cloned)) \/ A!InitExits
  PROVE  AgentInv'
<1>1. CASE A!Listen
  <2>1. /\ main.at = "boot" /\ main'.at = "accept" /\ main'.session = main.session
        /\ DOMAIN main' = {"at", "session"} /\ UNCHANGED <<worker, active_lanes, proc>>
    BY <1>1 DEF A!Listen, AgentInv, AgentTyped
  <2>2. AgentTyped' /\ WorkerFollows'
    BY <2>1 DEF AgentInv, AgentTyped, WorkerFollows
  <2> QED
    BY <2>1, <2>2, ProcessesKept, ServedKeeps DEF AgentInv
<1>2. ASSUME NEW cloned \in BOOLEAN, A!Accept(cloned) PROVE AgentInv'
  <2>1. /\ main.at = "accept" /\ main'.at \in {"wait", "over"} /\ worker' \in {"starting", "none"}
        /\ DOMAIN main' = {"at", "session"} /\ UNCHANGED <<active_lanes, proc>>
    BY <1>2 DEF A!Accept
  <2>2. worker = "none" /\ ~(active_lanes > 0)
    BY <2>1 DEF AgentInv, WorkerFollows
  <2>3. \A p \in Procs : proc[p].grouped =>
          /\ proc[p].state # "running"
          /\ proc[p].state \in {"killed", "zombie"} => A!Escaped(proc[p].session)
    BY <2>2 DEF AgentInv, GroupServed, OfServed
  <2>4. AgentTyped' /\ WorkerFollows'
    BY <2>1, <2>2 DEF AgentInv, AgentTyped, WorkerFollows
  <2>5. GroupServed'
    BY <2>1, <2>3 DEF GroupServed, A!Escaped
  <2> QED
    BY <2>1, <2>4, <2>5, ProcessesKept DEF AgentInv
<1>3. CASE A!InitExits
  <2>1. /\ main'.at = IF main.at \in {"accept", "wait"} THEN "over" ELSE main.at
        /\ main'.session = main.session /\ main.at \notin {"boot", "over"}
        /\ DOMAIN main' = {"at", "session"} /\ UNCHANGED <<worker, active_lanes, proc>>
    BY <1>3 DEF A!InitExits, AgentInv, AgentTyped
  <2>2. AgentTyped' /\ WorkerFollows'
    BY <2>1 DEF AgentInv, AgentTyped, WorkerFollows
  <2> QED
    BY <2>1, <2>2, ProcessesKept, ServedKeeps DEF AgentInv
<1> QED
  BY <1>1, <1>2, <1>3

(* A process is there that was not: of a session that is served, and a     *)
(* child of nobody or of one that runs.                                    *)
LEMMA ProcessStarts ==
  ASSUME AgentInv, UNCHANGED <<main, worker, active_lanes>>,
         NEW q \in Procs, proc[q].state = "none", NEW new, proc' = [proc EXCEPT ![q] = new],
         DOMAIN new = {"session", "grouped", "parent", "state"}, new.state = "running",
         new.grouped \in BOOLEAN,
         new.grouped => /\ new.session = main.session
                        /\ worker \in {"serving", "exited", "failed"} /\ main.at # "reap",
         new.parent = {} \/ (\E p \in Procs : /\ new.parent = {p} /\ proc[p].state = "running"
                                              /\ proc[p].session = new.session)
  PROVE  AgentInv'
<1>1. DOMAIN proc' = Procs /\ proc'[q] = new /\ \A p \in Procs \ {q} : proc'[p] = proc[p]
  BY DEF AgentInv, AgentTyped
<1>2. new.parent \subseteq Procs /\ q \notin new.parent
  OBVIOUS
<1>3. \A p \in Procs : q \notin proc[p].parent
  BY DEF AgentInv, ParentsKnown
<1>4. AgentTyped'
  BY <1>1, <1>2 DEF AgentInv, AgentTyped
<1>5. WorkerFollows'
  BY DEF AgentInv, WorkerFollows
<1>6. ParentsKnown'
  <2> SUFFICES ASSUME NEW p \in Procs, NEW r \in proc'[p].parent
               PROVE  proc'[r].state # "none" /\ proc'[r].session = proc'[p].session
    BY DEF ParentsKnown
  <2>1. CASE p = q
    <3>1. r \in Procs \ {q} /\ proc[r].state = "running" /\ proc[r].session = new.session
      BY <1>1, <1>2, <2>1
    <3> QED
      BY <1>1, <2>1, <3>1
  <2>2. CASE p # q
    <3>1. r \in proc[p].parent /\ r # q /\ r \in Procs
      BY <1>1, <1>3, <2>2 DEF AgentInv, AgentTyped
    <3> QED
      BY <1>1, <2>2, <3>1 DEF AgentInv, ParentsKnown
  <2> QED
    BY <2>1, <2>2
<1>7. NoCycle'
  <2> SUFFICES ASSUME NEW S \in SUBSET Procs, S # {}
               PROVE  \E p \in S : proc'[p].parent \cap S = {}
    BY DEF NoCycle
  <2>1. CASE S \ {q} = {}
    BY <1>1, <1>2, <2>1
  <2>2. CASE S \ {q} # {}
    <3>1. PICK p \in S \ {q} : proc[p].parent \cap (S \ {q}) = {}
      <4>1. S \ {q} \in SUBSET Procs
        OBVIOUS
      <4> QED
        BY <2>2, <4>1 DEF AgentInv, NoCycle
    <3>2. proc'[p] = proc[p] /\ q \notin proc[p].parent
      BY <1>1, <1>3
    <3> QED
      BY <3>1, <3>2
  <2> QED
    BY <2>1, <2>2
<1>8. GroupServed'
  <2>1. \A p \in Procs \ {q} : A!Escaped(proc[p].session) => A!Escaped(proc[p].session)'
    <3>1. \A p \in Procs : ~proc[p].grouped => p # q
      BY DEF AgentInv, AgentTyped
    <3> QED
      BY <1>1, <3>1 DEF A!Escaped
  <2>2. ASSUME NEW p \in Procs, p # q, proc'[p].grouped
        PROVE  /\ proc'[p].state = "running" => OfServed(p)' /\ main'.at # "reap"
               /\ proc'[p].state \in {"killed", "zombie"} =>
                    OfServed(p)' \/ A!Escaped(proc[p].session)'
    <3>1. proc'[p] = proc[p] /\ (OfServed(p) => OfServed(p)')
      BY <1>1, <2>2 DEF OfServed
    <3> QED
      BY <2>1, <2>2, <3>1 DEF AgentInv, GroupServed
  <2>3. proc'[q].grouped => OfServed(q)' /\ main'.at # "reap" /\ proc'[q].state = "running"
    BY <1>1 DEF OfServed
  <2> QED
    BY <2>2, <2>3 DEF GroupServed
<1> QED
  BY <1>4, <1>5, <1>6, <1>7, <1>8 DEF AgentInv

(* A process leaves its group, and its session counts as escaped from.     *)
LEMMA SetSidKeeps ==
  ASSUME AgentInv, NEW q \in Procs, A!SetSid(q)
  PROVE  AgentInv'
<1>1. /\ UNCHANGED <<main, worker, active_lanes>> /\ proc[q].state = "running"
      /\ proc' = [proc EXCEPT ![q].grouped = FALSE]
  BY DEF A!SetSid
<1>2. DOMAIN proc' = Procs
  BY <1>1 DEF AgentInv, AgentTyped
<1>3. ASSUME NEW p \in Procs
      PROVE  /\ DOMAIN proc'[p] = {"session", "grouped", "parent", "state"}
             /\ proc'[p].session = proc[p].session /\ proc'[p].parent = proc[p].parent
             /\ proc'[p].state = proc[p].state
             /\ proc'[p].grouped = IF p = q THEN FALSE ELSE proc[p].grouped
  <2>0. DOMAIN proc = Procs /\ DOMAIN proc[p] = {"session", "grouped", "parent", "state"}
    BY DEF AgentInv, AgentTyped
  <2>1. CASE p = q
    <3>1. proc'[p] = [proc[p] EXCEPT !.grouped = FALSE]
      BY <1>1, <2>0, <2>1
    <3> QED
      BY <2>0, <2>1, <3>1
  <2>2. CASE p # q
    <3>1. proc'[p] = proc[p]
      BY <1>1, <2>0, <2>2
    <3> QED
      BY <2>0, <2>2, <3>1
  <2> QED
    BY <2>1, <2>2
<1>4. AgentTyped'
  <2>1. ASSUME NEW p \in Procs
        PROVE  /\ proc'[p].grouped \in BOOLEAN /\ proc'[p].parent \subseteq Procs
               /\ proc'[p].state \in {"none", "running", "killed", "zombie", "gone"}
               /\ proc'[p].state = "none" => proc'[p].grouped
    <3>1. /\ proc[p].grouped \in BOOLEAN /\ proc[p].parent \subseteq Procs
          /\ proc[p].state \in {"none", "running", "killed", "zombie", "gone"}
          /\ proc[p].state = "none" => proc[p].grouped
      BY DEF AgentInv, AgentTyped
    <3> QED
      BY <1>1, <1>3, <3>1
  <2> QED
    BY <1>1, <1>2, <1>3, <2>1 DEF AgentInv, AgentTyped
<1>5. WorkerFollows'
  BY <1>1 DEF AgentInv, WorkerFollows
<1>6. ParentsKnown'
  <2>1. \A p \in Procs : proc[p].parent \subseteq Procs
    BY DEF AgentInv, AgentTyped
  <2> SUFFICES ASSUME NEW p \in Procs, NEW r \in proc'[p].parent
               PROVE  proc'[r].state # "none" /\ proc'[r].session = proc'[p].session
    BY DEF ParentsKnown
  <2>2. r \in proc[p].parent /\ r \in Procs
    BY <1>3, <2>1
  <2>3. proc[r].state # "none" /\ proc[r].session = proc[p].session
    BY <2>2 DEF AgentInv, ParentsKnown
  <2> QED
    BY <1>3, <2>2, <2>3
<1>7. NoCycle'
  <2> SUFFICES ASSUME NEW S \in SUBSET Procs, S # {}
               PROVE  \E p \in S : proc'[p].parent \cap S = {}
    BY DEF NoCycle
  <2> QED
    BY <1>3 DEF AgentInv, NoCycle
<1>8. \A p \in Procs : A!Escaped(proc[p].session) => A!Escaped(proc[p].session)'
  BY <1>3 DEF A!Escaped
<1>9. GroupServed'
  <2> SUFFICES ASSUME NEW p \in Procs, proc'[p].grouped
               PROVE  /\ proc'[p].state = "running" => OfServed(p)' /\ main'.at # "reap"
                      /\ proc'[p].state \in {"killed", "zombie"} =>
                           OfServed(p)' \/ A!Escaped(proc[p].session)'
    BY DEF GroupServed
  <2>1. proc[p].grouped /\ proc'[p].state = proc[p].state /\ proc'[p].session = proc[p].session
    BY <1>3
  <2>2. OfServed(p) => OfServed(p)'
    BY <1>1, <2>1 DEF OfServed
  <2> QED
    BY <1>1, <1>8, <2>1, <2>2 DEF AgentInv, GroupServed
<1> QED
  BY <1>4, <1>5, <1>6, <1>7, <1>9 DEF AgentInv

(* What the processes do.                                                  *)
LEMMA ProcessKeeps ==
  ASSUME AgentInv, NEW p \in Procs,
         \/ A!Spawn(p) \/ A!SetSid(p) \/ A!ProcExits(p) \/ A!ParentReaps(p) \/ A!Reaper(p)
         \/ \E q \in Procs : A!Fork(p, q)
  PROVE  AgentInv'
<1>1. CASE A!Spawn(p)
  <2>1. worker = "serving" /\ main.at # "reap"
    BY <1>1 DEF A!Spawn, AgentInv, WorkerFollows
  <2> DEFINE new == [session |-> main.session, grouped |-> TRUE, parent |-> {}, state |-> "running"]
  <2>2. /\ DOMAIN new = {"session", "grouped", "parent", "state"} /\ new.parent = {}
        /\ new.session = main.session /\ new.grouped = TRUE /\ new.state = "running"
    OBVIOUS
  <2>3. /\ UNCHANGED <<main, worker, active_lanes>> /\ proc[p].state = "none"
        /\ proc' = [proc EXCEPT ![p] = new]
    BY <1>1 DEF A!Spawn
  <2> HIDE DEF new
  <2> QED
    BY <2>1, <2>2, <2>3, ProcessStarts
<1>2. CASE A!ProcExits(p) \/ A!ParentReaps(p) \/ A!Reaper(p)
  BY <1>2, OneAges DEF A!ProcExits, A!ParentReaps, A!Reaper
<1>3. ASSUME NEW q \in Procs, A!Fork(p, q) PROVE AgentInv'
  <2>1. /\ UNCHANGED <<main, worker, active_lanes>>
        /\ proc[p].state = "running" /\ proc[q].state = "none"
        /\ proc' = [proc EXCEPT ![q] = [proc[p] EXCEPT !.parent = {p}]]
    BY <1>3 DEF A!Fork
  <2> DEFINE new == [proc[p] EXCEPT !.parent = {p}]
  <2>2. /\ DOMAIN new = {"session", "grouped", "parent", "state"} /\ new.parent = {p}
        /\ new.session = proc[p].session /\ new.grouped = proc[p].grouped /\ new.state = "running"
    BY <2>1 DEF AgentInv, AgentTyped
  <2>3. new.grouped \in BOOLEAN
    BY <2>2 DEF AgentInv, AgentTyped
  <2>4. new.grouped => /\ new.session = main.session
                       /\ worker \in {"serving", "exited", "failed"} /\ main.at # "reap"
    BY <2>1, <2>2 DEF AgentInv, GroupServed, OfServed
  <2>5. proc' = [proc EXCEPT ![q] = new]
    BY <2>1
  <2> HIDE DEF new
  <2>6. \E r \in Procs : new.parent = {r} /\ proc[r].state = "running" /\ proc[r].session = new.session
    BY <2>1, <2>2
  <2> QED
    BY <2>1, <2>2, <2>3, <2>4, <2>5, <2>6, ProcessStarts
<1> QED
  BY <1>1, <1>2, <1>3, SetSidKeeps

LEMMA AgentInvStep == AgentInv /\ (A!Next \/ UNCHANGED sessionVars) => AgentInv'
<1> SUFFICES ASSUME AgentInv, A!Next \/ UNCHANGED sessionVars PROVE AgentInv'
  OBVIOUS
<1>1. ASSUME UNCHANGED <<main, worker, active_lanes, proc>> PROVE AgentInv'
  <2>1. AgentTyped' /\ WorkerFollows'
    BY <1>1 DEF AgentInv, AgentTyped, WorkerFollows
  <2> QED
    BY <1>1, <2>1, ProcessesKept, ServedKeeps DEF AgentInv
<1>2. CASE A!HostStep
  <2>1. UNCHANGED <<main, worker, active_lanes, proc>>
    BY <1>2 DEF A!HostStep, A!Call, A!Ping, A!PingAnswered, A!PingFails, A!ConnectFails, A!SessionDies, A!Arrive
  <2> QED
    BY <1>1, <2>1
<1>3. CASE A!AgentStep \/ A!InitExits
  BY <1>3, MainKeeps, WorkerKeeps, KillGroupKeeps, ReapGroupKeeps DEF A!AgentStep
<1>4. ASSUME NEW p \in Procs,
             \/ A!Spawn(p) \/ A!SetSid(p) \/ A!ProcExits(p) \/ A!ParentReaps(p) \/ A!Reaper(p)
             \/ \E q \in Procs : A!Fork(p, q)
      PROVE  AgentInv'
  BY <1>4, ProcessKeeps
<1> QED
  BY <1>1, <1>2, <1>3, <1>4 DEF A!Next, sessionVars

(* main() of agent.c starts every session on clean ground: no lane is      *)
(* there and no process of an earlier session's group runs, and all of the *)
(* group are gone unless a process has left it; for any number of sessions *)
(* and processes, whatever forked, left the group or was orphaned when     *)
(* that session's process died.                                            *)
THEOREM SessionsStartClean == ServicesSpec => []StartsClean
<1>1. ServicesInit => AgentInv
  BY AgentInvInit DEF ServicesInit
<1>2. AgentInv /\ [ServicesNext]_servicesVars => AgentInv'
  BY AgentInvStep DEF ServicesNext, servicesVars
<1>3. AgentInv => StartsClean
  <2> SUFFICES ASSUME AgentInv, main.at = "accept" \/ worker \in {"starting", "handshake"}
               PROVE  /\ active_lanes = 0
                      /\ \A p \in Procs : proc[p].grouped =>
                           \/ proc[p].state \in {"none", "gone"}
                           \/ proc[p].state \in {"killed", "zombie"} /\ A!Escaped(proc[p].session)
    BY DEF StartsClean, A!StartsClean
  <2>1. worker \in {"none", "starting", "handshake"}
    BY DEF AgentInv, WorkerFollows
  <2>2. active_lanes = 0
    BY <2>1 DEF AgentInv, AgentTyped, WorkerFollows
  <2> QED
    BY <2>1, <2>2 DEF AgentInv, AgentTyped, GroupServed, OfServed
<1> QED
  BY <1>1, <1>2, <1>3, PTL DEF ServicesSpec


-----------------------------------------------------------------------------
(***************************************************************************)
(* File operations on the guest.                                           *)
(***************************************************************************)
Moving == {"readFile", "writeFile", "copyFile"}
OnOne == {"read", "write", "source", "yield", "readlink", "truncate", "file"}
OnPath == {"idle", "lookup", "path", "rmdir", "mkdir", "stat"}
Finished == {"done", "failed"}
Places == OnOne \cup OnPath \cup Finished \cup {"open", "close"}
Failures == {"none", "errno", "exception", "abort"}

CallRecords ==
  [kind: Kinds, at: Places, fds: Seq(Fds), open: Nat, error: Failures, aborted: BOOLEAN,
   left: Nat, hand: Nat, moved: Nat, level: Nat, queue: Nat, closed: BOOLEAN]
AnswerRecords == [result: {"none", "ok", "errno", "exception", "EEXIST", "EISDIR"}, n: Nat]

(* Which kinds of call come to a place.                                    *)
KindFits(r) ==
  /\ r.at = "read" => r.kind \in {"readFile", "readDir", "copyFile"}
  /\ r.at = "write" => r.kind \in {"writeFile", "copyFile"}
  /\ r.at = "source" => r.kind = "writeFile"
  /\ r.at = "yield" => r.kind = "readDir"
  /\ r.at = "readlink" => r.kind = "realPath"
  /\ r.at = "truncate" => r.kind \in {"truncate", "copyFile"}
  /\ r.at = "file" => r.kind = "open"
  /\ r.at = "lookup" => r.kind = "copyFile"
  /\ r.at = "open" => r.kind \notin {"mkdir", "path"}
  /\ r.at \in {"path", "rmdir"} => r.kind = "path"
  /\ r.at \in {"mkdir", "stat"} => r.kind = "mkdir"

(* How many files a call has in its scope: all that it opened, until it    *)
(* leaves the scope.                                                       *)
InScope(r) ==
  /\ r.open <= Len(r.fds)
  /\ r.at \notin Finished \cup {"close"} => r.open = Len(r.fds) /\ r.error = "none"
  /\ r.at \in OnPath \cup Finished => r.open = 0
  /\ r.at \in OnOne => r.open = IF r.kind = "copyFile" THEN 2 ELSE 1
  /\ r.at = "open" => r.open = 0 \/ (r.open = 1 /\ r.kind = "copyFile")
  /\ r.at = "close" => r.open > 0
  /\ r.at = "done" => r.error = "none"
  /\ r.kind \in {"mkdir", "path"} => r.open = 0
  /\ r.queue > 0 => r.at = "file"

(* The system call it waits for is one on the file it should be.           *)
Own(r) ==
  CASE r.at = "close" -> r.open
    [] r.at \in {"read", "readlink"} -> 1
    [] r.at \in {"write", "truncate"} -> IF r.kind = "copyFile" THEN 2 ELSE 1
    [] OTHER -> 0

Asks(r, q) ==
  \/ q = F!NoRequest /\ r.at \in Finished \cup {"idle", "source", "yield", "file"}
  \/ q = F!Request(r, r.at, Own(r)) /\ r.at \notin Finished \cup {"idle", "source", "yield", "file"}
  \/ q = F!Request(r, "op", 1) /\ r.at = "file" /\ r.queue > 0

(* The data it has to move is at its source, in its hands, or moved.       *)
DataKept(r) ==
  r.kind \in Moving =>
    /\ r.left + r.hand + r.moved = Total
    /\ r.at \in OnPath \cup {"open", "read", "source", "truncate"} => r.hand = 0

(* The prefixes a recursive mkdir has passed are directories.              *)
PathMade(r, t) ==
  r.kind = "mkdir" =>
    /\ r.level \in 1 .. Depth
    /\ \A l \in 1 .. r.level - 1 : t[l] = "dir"
    /\ r.at = "stat" => t[r.level] # "none"
    /\ r.error = "errno" => \E l \in 1 .. Depth : t[l] = "file"

(* What a call that resolves has done.                                     *)
Complete(r, t) ==
  /\ r.kind \in Moving => r.moved = Total
  /\ r.kind = "mkdir" => \A l \in 1 .. Depth : t[l] = "dir"

Leaves(r, t) == r.at \in Finished \cup {"close"} /\ r.error = "none" => Complete(r, t)

CallGood(r, q, t) ==
  /\ r \in CallRecords /\ KindFits(r) /\ InScope(r) /\ Asks(r, q)
  /\ DataKept(r) /\ PathMade(r, t) /\ Leaves(r, t)

(* An answer is one to the call that waits for it, and still true.         *)
AnswerGood(r, q, a, t) ==
  /\ a \in AnswerRecords
  /\ a.result = "none" <=> a = F!NoAnswer
  /\ a.result # "none" => q # F!NoRequest
  /\ a.result = "EISDIR" => q.op = "path"
  /\ a.result = "EEXIST" => q.op = "mkdir" /\ t[r.level] # "none"
  /\ q.op \in {"mkdir", "stat"} /\ a.result = "ok" => t[r.level] = "dir"
  /\ q.op = "mkdir" => a.result # "errno"
  /\ q.op = "stat" /\ a.result = "errno" => t[r.level] = "file"
  /\ q.op = "read" /\ a.result = "ok" => a.n = IF r.left = 0 THEN 0 ELSE 1
  /\ q.op = "write" /\ a.result = "ok" => a.n <= r.hand
  /\ q.op = "open" /\ a.result = "ok" => a.n \in Fds

FilesTyped ==
  /\ call = [c \in Calls |-> call[c]] /\ req = [c \in Calls |-> req[c]] /\ ans = [c \in Calls |-> ans[c]]
  /\ DOMAIN table = Fds /\ tree \in [1 .. Depth -> {"none", "dir", "file"}]
  /\ dead \in BOOLEAN
  /\ \A c \in Calls : CallGood(call[c], req[c], tree) /\ AnswerGood(call[c], req[c], ans[c], tree)

(* The guest has executed a close, so that the number may be another's; or *)
(* an open, of which the host does not know yet.                           *)
JustClosed(c) == req[c].op = "close" /\ ans[c].result \in {"ok", "errno"}
JustOpened(c) == req[c].op = "open" /\ ans[c].result = "ok"

(* The table is what the calls together hold, but for what was lost.       *)
Held(c, i) == i \in 1 .. call[c].open /\ ~(i = call[c].open /\ JustClosed(c))

TableOwned ==
  /\ ~dead => \A c \in Calls : \A i \in Nat : Held(c, i) => table[call[c].fds[i]] = <<c, i>>
  /\ ~dead => \A c \in Calls : JustOpened(c) => table[ans[c].n] = <<c, call[c].open + 1>>
  /\ \A fd \in Fds : table[fd] # F!None =>
       \E c \in Calls : \E i \in Nat :
         /\ table[fd] = <<c, i>>
         /\ \/ <<c, i>> \in lost
            \/ Held(c, i) /\ call[c].fds[i] = fd
            \/ i = call[c].open + 1 /\ JustOpened(c) /\ ans[c].n = fd
  /\ \A c \in Calls : req[c].op = "close" /\ ans[c].result = "exception" => <<c, call[c].open>> \in lost
  /\ dead => \A fd \in Fds : table[fd] = F!None

(* The invariant: FilesOwned speaks of the numbers that are sent; this     *)
(* says whose every number is, and what each call knows at each await.     *)
FilesInv == FilesTyped /\ TableOwned

-----------------------------------------------------------------------------
(* What is known of a call between two awaits, wherever it goes next.      *)
Between(r, t) ==
  /\ r \in CallRecords /\ r.open <= Len(r.fds) /\ r.queue = 0
  /\ r.kind \in {"mkdir", "path"} => r.open = 0
  /\ r.kind \in Moving => r.left + r.hand + r.moved = Total
  /\ r.kind = "mkdir" =>
       /\ r.level \in 1 .. Depth
       /\ \A l \in 1 .. r.level - 1 : t[l] = "dir"
       /\ r.error = "errno" => \E l \in 1 .. Depth : t[l] = "file"

(* It goes on well, with these files in its scope.                         *)
NextGood(next, t, fds, open) ==
  /\ CallGood(next.call, next.req, t)
  /\ next.call.fds = fds /\ next.call.open = open

LEMMA RestsGood ==
  ASSUME NEW t, NEW r, Between(r, t),
         NEW place \in Finished \cup {"source", "yield", "file"}, NEW s, s = [r EXCEPT !.at = place],
         KindFits(s), InScope(s), DataKept(s), Leaves(s, t)
  PROVE  NextGood(F!Rests(r, place), t, r.fds, r.open)
<1>1. /\ s \in CallRecords /\ s.at = place /\ s.kind = r.kind /\ s.level = r.level /\ s.error = r.error
      /\ s.fds = r.fds /\ s.open = r.open
  BY DEF Between, CallRecords, Places, OnOne
<1>2. PathMade(s, t)
  BY <1>1 DEF PathMade, Between, Finished
<1>3. Asks(s, F!NoRequest)
  BY <1>1 DEF Asks
<1>4. F!Rests(r, place).call = s /\ F!Rests(r, place).req = F!NoRequest
  BY DEF F!Rests
<1> QED
  BY <1>1, <1>2, <1>3, <1>4 DEF NextGood, CallGood

LEMMA WaitsGood ==
  ASSUME NEW t, NEW r, Between(r, t),
         NEW op \in Places \ (Finished \cup {"idle", "source", "yield", "file"}),
         NEW s, s = [r EXCEPT !.at = op], NEW i, i = Own(s),
         KindFits(s), InScope(s), DataKept(s), Leaves(s, t), op = "stat" => t[r.level] # "none"
  PROVE  NextGood(F!Waits(r, op, i), t, r.fds, r.open)
<1>1. /\ s \in CallRecords /\ s.at = op /\ s.kind = r.kind /\ s.level = r.level /\ s.error = r.error
      /\ s.fds = r.fds /\ s.open = r.open
  BY DEF Between, CallRecords
<1>2. PathMade(s, t)
  BY <1>1 DEF PathMade, Between
<1>3. F!Request(r, op, i) = F!Request(s, s.at, Own(s))
  BY <1>1 DEF F!Request
<1>4. Asks(s, F!Request(r, op, i))
  BY <1>1, <1>3 DEF Asks
<1>5. F!Waits(r, op, i).call = s /\ F!Waits(r, op, i).req = F!Request(r, op, i)
  BY DEF F!Waits
<1> QED
  BY <1>1, <1>2, <1>4, <1>5 DEF NextGood, CallGood

(* Leaving the scope of the files, of which the last is closed first.      *)
LEMMA LeaveGood ==
  ASSUME NEW t, NEW r, Between(r, t), NEW e \in Failures,
         r.kind = "mkdir" /\ e = "errno" => \E l \in 1 .. Depth : t[l] = "file",
         r.error = "none" /\ e = "none" => Complete(r, t)
  PROVE  NextGood(F!Leave(r, e), t, r.fds, r.open)
<1>1. PICK f : f = [r EXCEPT !.error = IF r.error = "none" THEN e ELSE r.error]
  OBVIOUS
<1>2. /\ f \in CallRecords /\ f.error = IF r.error = "none" THEN e ELSE r.error
      /\ f.kind = r.kind /\ f.fds = r.fds /\ f.open = r.open /\ f.queue = r.queue /\ f.level = r.level
      /\ f.left = r.left /\ f.hand = r.hand /\ f.moved = r.moved
  BY <1>1 DEF Between, CallRecords
<1>3. Between(f, t) /\ (f.error = "none" => Complete(f, t))
  BY <1>2 DEF Between, Complete
<1>4. CASE f.open > 0
  <2>1. PICK s : s = [f EXCEPT !.at = "close"]
    OBVIOUS
  <2>2. /\ s \in CallRecords /\ s.at = "close" /\ s.error = f.error
        /\ s.kind = f.kind /\ s.fds = f.fds /\ s.open = f.open /\ s.queue = f.queue
        /\ s.left = f.left /\ s.hand = f.hand /\ s.moved = f.moved
    BY <1>2, <2>1 DEF CallRecords, Places
  <2>3. KindFits(s) /\ InScope(s) /\ DataKept(s) /\ Leaves(s, t)
    BY <1>3, <1>4, <2>2 DEF KindFits, InScope, DataKept, Leaves, Complete, Between, OnOne, OnPath, Finished
  <2>4. f.open = Own(s)
    BY <2>2 DEF Own
  <2>5. "close" \in Places \ (Finished \cup {"idle", "source", "yield", "file"})
    BY DEF Places, Finished
  <2>6. NextGood(F!Waits(f, "close", f.open), t, f.fds, f.open)
    BY <1>3, <2>1, <2>3, <2>4, <2>5, WaitsGood
  <2>7. F!Leave(r, e) = F!Waits(f, "close", f.open)
    BY <1>1, <1>4 DEF F!Leave
  <2> QED
    BY <1>2, <2>6, <2>7
<1>5. CASE ~(f.open > 0)
  <2>1. PICK place \in Finished : place = IF f.error = "none" THEN "done" ELSE "failed"
    BY DEF Finished
  <2>2. PICK s : s = [f EXCEPT !.at = place]
    OBVIOUS
  <2>3. /\ s \in CallRecords /\ s.at = place /\ s.error = f.error
        /\ s.kind = f.kind /\ s.fds = f.fds /\ s.open = f.open /\ s.queue = f.queue
        /\ s.left = f.left /\ s.hand = f.hand /\ s.moved = f.moved
    BY <1>2, <2>1, <2>2 DEF CallRecords, Places
  <2>4. s.open = 0
    BY <1>5, <2>3 DEF CallRecords
  <2>5. KindFits(s) /\ InScope(s) /\ DataKept(s) /\ Leaves(s, t)
    BY <1>3, <2>1, <2>3, <2>4 DEF KindFits, InScope, DataKept, Leaves, Complete, Between, OnOne, OnPath, Finished
  <2>6. NextGood(F!Rests(f, place), t, f.fds, f.open)
    BY <1>3, <2>1, <2>2, <2>5, RestsGood
  <2>7. F!Leave(r, e) = F!Rests(f, place)
    BY <1>1, <1>5, <2>1 DEF F!Leave
  <2> QED
    BY <1>2, <2>6, <2>7
<1> QED
  BY <1>4, <1>5

LEMMA UnlessGood ==
  ASSUME NEW t, NEW r, Between(r, t), NEW next, NextGood(next, t, r.fds, r.open)
  PROVE  NextGood(F!Unless(r, next), t, r.fds, r.open)
<1>1. NextGood(F!Leave(r, "abort"), t, r.fds, r.open)
  BY LeaveGood DEF Failures
<1> QED
  BY <1>1 DEF F!Unless

(* A call that has kept everything it opened, and met no error.            *)
Ready(r, t) == Between(r, t) /\ r.error = "none" /\ r.open = Len(r.fds)

(* To wait for a system call in the middle of an operation.                *)
LEMMA ReadyWaits ==
  ASSUME NEW t, NEW r, Ready(r, t),
         NEW op \in {"read", "write", "readlink", "truncate", "open", "lookup", "path", "rmdir", "mkdir", "stat"},
         NEW i,
         op \in {"read", "readlink"} => i = 1,
         op \in {"write", "truncate"} => i = IF r.kind = "copyFile" THEN 2 ELSE 1,
         op \in {"open", "lookup", "path", "rmdir", "mkdir", "stat"} => i = 0,
         op \in {"read", "write", "readlink", "truncate"} => r.open = IF r.kind = "copyFile" THEN 2 ELSE 1,
         op \in {"lookup", "path", "rmdir", "mkdir", "stat"} => r.open = 0,
         op = "open" => r.open = 0 \/ (r.open = 1 /\ r.kind = "copyFile"),
         r.kind \in Moving => op = "write" \/ r.hand = 0,
         op = "stat" => t[r.level] # "none",
         KindFits([r EXCEPT !.at = op])
  PROVE  NextGood(F!Waits(r, op, i), t, r.fds, r.open)
<1>1. PICK s : s = [r EXCEPT !.at = op]
  OBVIOUS
<1>2. op \in Places \ (Finished \cup {"idle", "source", "yield", "file"}) /\ op # "close"
  BY DEF Places, OnOne, OnPath, Finished
<1>3. /\ s.at = op /\ s.error = "none" /\ s.open = r.open /\ s.fds = r.fds
      /\ s.kind = r.kind /\ s.queue = 0 /\ s.open = Len(s.fds)
      /\ s.left = r.left /\ s.hand = r.hand /\ s.moved = r.moved
  BY <1>1 DEF Ready, Between, CallRecords
<1>4. i = Own(s)
  BY <1>2, <1>3 DEF Own
<1>5. s.open \in Nat /\ (s.kind \in {"mkdir", "path"} => s.open = 0)
  BY <1>3 DEF Ready, Between, CallRecords
<1>6. InScope(s)
  BY <1>2, <1>3, <1>5 DEF InScope, OnOne, OnPath, Finished
<1>7. DataKept(s)
  BY <1>3 DEF DataKept, Ready, Between, OnPath
<1>8. Leaves(s, t)
  BY <1>2, <1>3 DEF Leaves
<1> QED
  BY <1>1, <1>2, <1>4, <1>6, <1>7, <1>8, WaitsGood DEF Ready

LEMMA ReadyRests ==
  ASSUME NEW t, NEW r, Ready(r, t), NEW place \in {"source", "yield", "file"},
         r.open = 1, r.kind \in Moving => r.hand = 0, r.kind # "copyFile",
         KindFits([r EXCEPT !.at = place])
  PROVE  NextGood(F!Rests(r, place), t, r.fds, r.open)
<1>1. PICK s : s = [r EXCEPT !.at = place]
  OBVIOUS
<1>2. place \in Places /\ place \notin Finished \cup {"close", "open"} \cup OnPath
  BY DEF Places, OnOne, OnPath, Finished
<1>3. /\ s.at = place /\ s.error = "none" /\ s.open = r.open /\ s.fds = r.fds
      /\ s.kind = r.kind /\ s.queue = 0 /\ s.open = Len(s.fds)
      /\ s.left = r.left /\ s.hand = r.hand /\ s.moved = r.moved
  BY <1>1 DEF Ready, Between, CallRecords
<1>4. InScope(s)
  <2>0. r.kind \notin {"mkdir", "path"}
    BY DEF Ready, Between
  <2>1. s.kind \notin {"mkdir", "path"} /\ s.kind # "copyFile" /\ s.open = 1 /\ Len(s.fds) = 1
    BY <1>3, <2>0
  <2>2. s.at \in {"source", "yield", "file"} /\ s.queue = 0
    BY <1>3
  <2> QED
    BY <1>3, <2>1, <2>2 DEF InScope, OnOne, OnPath, Finished
<1>5. DataKept(s)
  BY <1>3 DEF DataKept, Ready, Between
<1>6. Leaves(s, t)
  BY <1>2, <1>3 DEF Leaves
<1> QED
  BY <1>1, <1>4, <1>5, <1>6, RestsGood DEF Ready

LEMMA ReadingGood ==
  ASSUME NEW t, NEW r, Ready(r, t), r.kind \in {"readFile", "readDir", "copyFile"},
         r.open = IF r.kind = "copyFile" THEN 2 ELSE 1, r.kind \in Moving => r.hand = 0
  PROVE  NextGood(F!Reading(r), t, r.fds, r.open)
<1>1. KindFits([r EXCEPT !.at = "read"])
  BY DEF KindFits, Ready, Between, CallRecords
<1>2. NextGood(F!Waits(r, "read", 1), t, r.fds, r.open)
  BY <1>1, ReadyWaits
<1> QED
  BY <1>2, UnlessGood DEF F!Reading, Ready

LEMMA WritingGood ==
  ASSUME NEW t, NEW r, Ready(r, t), r.kind \in {"writeFile", "copyFile"},
         r.open = IF r.kind = "copyFile" THEN 2 ELSE 1
  PROVE  NextGood(F!Writing(r), t, r.fds, r.open)
<1>1. KindFits([r EXCEPT !.at = "write"])
  BY DEF KindFits, Ready, Between, CallRecords
<1>2. NextGood(F!Waits(r, "write", IF r.kind = "copyFile" THEN 2 ELSE 1), t, r.fds, r.open)
  BY <1>1, ReadyWaits
<1> QED
  BY <1>2, UnlessGood DEF F!Writing, Ready

LEMMA SourcingGood ==
  ASSUME NEW t, NEW r, Ready(r, t), r.kind = "writeFile", r.open = 1, r.hand = 0
  PROVE  NextGood(F!Sourcing(r), t, r.fds, r.open)
<1>1. KindFits([r EXCEPT !.at = "source"])
  BY DEF KindFits, Ready, Between, CallRecords
<1>2. NextGood(F!Rests(r, "source"), t, r.fds, r.open)
  BY <1>1, ReadyRests
<1> QED
  BY <1>2, UnlessGood DEF F!Sourcing, Ready

(* openat has returned: the file joins the scope.                          *)
LEMMA OpenedGood ==
  ASSUME NEW t, NEW r, Ready(r, t), NEW fd \in Fds, r.kind \notin {"mkdir", "path"},
         r.open = 0 \/ (r.open = 1 /\ r.kind = "copyFile"), r.kind \in Moving => r.hand = 0
  PROVE  NextGood(F!Opened(r, fd), t, Append(r.fds, fd), r.open + 1)
<1>1. PICK o : o = [r EXCEPT !.fds = Append(r.fds, fd), !.open = r.open + 1]
  OBVIOUS
<1>2. /\ Append(r.fds, fd) \in Seq(Fds) /\ Len(Append(r.fds, fd)) = r.open + 1
      /\ r.fds \in Seq(Fds) /\ r.open \in Nat /\ r.open + 1 \in Nat
      /\ (r.kind # "copyFile" => r.open + 1 = 1)
  BY DEF Ready, Between, CallRecords
<1>3. /\ o \in CallRecords /\ o.kind = r.kind /\ o.fds = Append(r.fds, fd) /\ o.open = r.open + 1
      /\ o.error = r.error /\ o.queue = r.queue /\ o.hand = r.hand /\ o.left = r.left
      /\ o.moved = r.moved /\ o.level = r.level
  <2> HIDE DEF Kinds
  <2>1. r \in CallRecords
    BY DEF Ready, Between
  <2> QED
    BY <1>1, <1>2, <2>1 DEF CallRecords
<1>4. Ready(o, t)
  BY <1>2, <1>3 DEF Ready, Between
<1>5. r.kind \in Kinds
  BY DEF Ready, Between, CallRecords
<1> DEFINE Goal(next) == NextGood(next, t, o.fds, o.open)
<1>6. CASE r.kind \in {"readFile", "readDir"}
  <2>1. Goal(F!Reading(o))
    BY <1>2, <1>3, <1>4, <1>6, ReadingGood
  <2> QED
    BY <1>1, <1>3, <1>6, <2>1 DEF F!Opened
<1>7. CASE r.kind = "writeFile"
  <2>1. Goal(F!Sourcing(o))
    BY <1>2, <1>3, <1>4, <1>7, SourcingGood DEF Moving
  <2> QED
    BY <1>1, <1>3, <1>7, <2>1 DEF F!Opened
<1>8. CASE r.kind = "realPath"
  <2>1. KindFits([o EXCEPT !.at = "readlink"])
    BY <1>3, <1>8 DEF KindFits, CallRecords
  <2>2. Goal(F!Waits(o, "readlink", 1))
    BY <1>2, <1>3, <1>4, <1>8, <2>1, ReadyWaits
  <2> QED
    BY <1>1, <1>3, <1>8, <2>2 DEF F!Opened
<1>9. CASE r.kind = "truncate"
  <2>1. KindFits([o EXCEPT !.at = "truncate"])
    BY <1>3, <1>9 DEF KindFits, CallRecords
  <2>2. Goal(F!Waits(o, "truncate", 1))
    BY <1>2, <1>3, <1>4, <1>9, <2>1, ReadyWaits
  <2> QED
    BY <1>1, <1>3, <1>9, <2>2 DEF F!Opened
<1>10. CASE r.kind = "open"
  <2>1. KindFits([o EXCEPT !.at = "file"])
    BY <1>3, <1>10 DEF KindFits, CallRecords
  <2>2. Goal(F!Rests(o, "file"))
    BY <1>2, <1>3, <1>4, <1>10, <2>1, ReadyRests
  <2> QED
    BY <1>1, <1>3, <1>10, <2>2 DEF F!Opened
<1>11. CASE r.kind = "copyFile"
  <2>1. KindFits([o EXCEPT !.at = "open"]) /\ KindFits([o EXCEPT !.at = "truncate"])
    BY <1>3, <1>11 DEF KindFits, CallRecords
  <2>2. o.open = 1 => Goal(F!Waits(o, "open", 0))
    BY <1>3, <1>4, <1>11, <2>1, ReadyWaits
  <2>3. o.open = 2 => Goal(F!Waits(o, "truncate", 2))
    BY <1>3, <1>4, <1>11, <2>1, ReadyWaits
  <2>4. o.open = 1 \/ o.open = 2
    BY <1>3
  <2> QED
    BY <1>1, <1>3, <1>11, <2>2, <2>3, <2>4 DEF F!Opened
<1> QED
  BY <1>5, <1>6, <1>7, <1>8, <1>9, <1>10, <1>11 DEF Kinds

(* write_all: what is left of the chunk is written, or the next is asked   *)
(* for; a write of nothing is an error.                                    *)
LEMMA WrittenGood ==
  ASSUME NEW t, NEW r, Ready(r, t), r.kind \in {"writeFile", "copyFile"},
         r.open = IF r.kind = "copyFile" THEN 2 ELSE 1, NEW n \in Nat, n <= r.hand
  PROVE  NextGood(F!Written(r, n), t, r.fds, r.open)
<1>1. PICK w : w = [r EXCEPT !.hand = r.hand - n, !.moved = r.moved + n]
  OBVIOUS
<1>2. r.hand \in Nat /\ r.moved \in Nat /\ r.left \in Nat /\ r.hand - n \in Nat /\ r.moved + n \in Nat
  BY DEF Ready, Between, CallRecords
<1>3. /\ w \in CallRecords /\ w.kind = r.kind /\ w.fds = r.fds /\ w.open = r.open
      /\ w.error = r.error /\ w.queue = r.queue /\ w.hand = r.hand - n /\ w.left = r.left
      /\ w.moved = r.moved + n /\ w.level = r.level
  BY <1>1, <1>2 DEF Ready, Between, CallRecords
<1>4. Ready(w, t)
  <2>1. w.left + w.hand + w.moved = r.left + r.hand + r.moved
    BY <1>2, <1>3
  <2> QED
    BY <1>3, <2>1 DEF Ready, Between
<1>5. NextGood(F!Leave(r, "errno"), t, r.fds, r.open)
  BY LeaveGood DEF Failures, Ready
<1>6. NextGood(F!Writing(w), t, r.fds, r.open)
  BY <1>3, <1>4, WritingGood
<1>7. ~(w.hand > 0) /\ r.kind = "copyFile" => NextGood(F!Reading(w), t, r.fds, r.open)
  BY <1>2, <1>3, <1>4, ReadingGood
<1>8. ~(w.hand > 0) /\ r.kind = "writeFile" => NextGood(F!Sourcing(w), t, r.fds, r.open)
  BY <1>2, <1>3, <1>4, SourcingGood
<1>9. CASE n = 0
  BY <1>5, <1>9 DEF F!Written
<1>10. CASE n # 0 /\ w.hand > 0
  BY <1>1, <1>6, <1>10 DEF F!Written
<1>11. CASE n # 0 /\ ~(w.hand > 0) /\ r.kind = "copyFile"
  BY <1>1, <1>7, <1>11 DEF F!Written
<1>12. CASE n # 0 /\ ~(w.hand > 0) /\ r.kind = "writeFile"
  BY <1>1, <1>8, <1>12 DEF F!Written
<1> QED
  BY <1>9, <1>10, <1>11, <1>12

(* A read has given a unit: it is moved, yielded, or to be written.        *)
LEMMA ReadGood ==
  ASSUME NEW t, NEW r, Ready(r, t), r.kind \in {"readFile", "readDir", "copyFile"},
         r.open = IF r.kind = "copyFile" THEN 2 ELSE 1, r.kind \in Moving => r.hand = 0, r.left # 0
  PROVE  NextGood(F!Read(r), t, r.fds, r.open)
<1>1. PICK m : m = [[r EXCEPT !.left = r.left - 1] EXCEPT !.moved = r.moved + 1]
  OBVIOUS
<1>2. PICK h : h = [[r EXCEPT !.left = r.left - 1] EXCEPT !.hand = 1]
  OBVIOUS
<1>3. r \in CallRecords
  BY DEF Ready, Between
<1>4. r.hand \in Nat /\ r.moved \in Nat /\ r.left \in Nat /\ r.left - 1 \in Nat /\ r.moved + 1 \in Nat
  BY <1>3 DEF CallRecords
<1>5. /\ m \in CallRecords /\ m.kind = r.kind /\ m.fds = r.fds /\ m.open = r.open
      /\ m.error = r.error /\ m.queue = r.queue /\ m.hand = r.hand /\ m.left = r.left - 1
      /\ m.moved = r.moved + 1 /\ m.level = r.level
  BY <1>1, <1>3, <1>4 DEF CallRecords
<1>6. /\ h \in CallRecords /\ h.kind = r.kind /\ h.fds = r.fds /\ h.open = r.open
      /\ h.error = r.error /\ h.queue = r.queue /\ h.hand = 1 /\ h.left = r.left - 1
      /\ h.moved = r.moved /\ h.level = r.level
  BY <1>2, <1>3, <1>4 DEF CallRecords
<1>7. Ready(m, t)
  <2>1. m.left + m.hand + m.moved = r.left + r.hand + r.moved
    BY <1>4, <1>5
  <2> QED
    BY <1>5, <2>1 DEF Ready, Between
<1>8. CASE r.kind = "readFile"
  <2>1. NextGood(F!Reading(m), t, r.fds, r.open)
    BY <1>5, <1>7, <1>8, ReadingGood
  <2> QED
    BY <1>1, <1>3, <1>8, <2>1 DEF F!Read, CallRecords
<1>9. CASE r.kind = "readDir"
  <2>1. KindFits([m EXCEPT !.at = "yield"])
    BY <1>5, <1>9 DEF KindFits, CallRecords
  <2>2. NextGood(F!Rests(m, "yield"), t, r.fds, r.open)
    BY <1>5, <1>7, <1>9, <2>1, ReadyRests DEF Moving
  <2> QED
    BY <1>1, <1>3, <1>9, <2>2 DEF F!Read, CallRecords
<1>10. CASE r.kind = "copyFile"
  <2>1. h.left + h.hand + h.moved = r.left + r.hand + r.moved
    BY <1>4, <1>6, <1>10 DEF Moving
  <2>2. Ready(h, t)
    BY <1>6, <2>1 DEF Ready, Between
  <2>3. NextGood(F!Writing(h), t, r.fds, r.open)
    BY <1>6, <1>10, <2>2, WritingGood
  <2> QED
    BY <1>2, <1>3, <1>10, <2>3 DEF F!Read, CallRecords
<1> QED
  BY <1>8, <1>9, <1>10

(* The prefix is a directory now: on to the next one, or done.             *)
LEMMA DeeperGood ==
  ASSUME NEW t, NEW r, Ready(r, t), r.kind = "mkdir", t[r.level] = "dir"
  PROVE  NextGood(F!Deeper(r), t, r.fds, r.open)
<1>1. /\ r \in CallRecords /\ r.level \in 1 .. Depth /\ r.open = 0 /\ r.level \in Nat /\ Depth \in Nat
      /\ \A l \in 1 .. r.level - 1 : t[l] = "dir"
  BY FilesAssumption DEF Ready, Between, CallRecords
<1>2. \A l \in 1 .. r.level : t[l] = "dir"
  BY <1>1
<1>3. CASE r.level = Depth
  <2>1. Complete(r, t)
    BY <1>2, <1>3 DEF Complete, Moving
  <2>2. NextGood(F!Leave(r, "none"), t, r.fds, r.open)
    BY <2>1, LeaveGood DEF Ready, Failures
  <2> QED
    BY <1>3, <2>2 DEF F!Deeper
<1>4. CASE r.level # Depth
  <2>1. PICK d : d = [r EXCEPT !.level = r.level + 1]
    OBVIOUS
  <2>2. r.level + 1 \in Nat /\ r.level + 1 \in 1 .. Depth /\ (r.level + 1) - 1 = r.level
    BY <1>1, <1>4
  <2>3. /\ d \in CallRecords /\ d.kind = r.kind /\ d.fds = r.fds /\ d.open = r.open
        /\ d.error = r.error /\ d.queue = r.queue /\ d.hand = r.hand /\ d.left = r.left
        /\ d.moved = r.moved /\ d.level = r.level + 1
    BY <1>1, <2>1, <2>2 DEF CallRecords
  <2>4. Ready(d, t)
    BY <1>2, <2>2, <2>3 DEF Ready, Between
  <2>5. KindFits([d EXCEPT !.at = "mkdir"])
    BY <2>3 DEF KindFits, CallRecords
  <2>6. NextGood(F!Waits(d, "mkdir", 0), t, r.fds, r.open)
    BY <1>1, <2>3, <2>4, <2>5, ReadyWaits DEF Moving
  <2> QED
    BY <1>4, <2>1, <2>6 DEF F!Deeper
<1> QED
  BY <1>3, <1>4

-----------------------------------------------------------------------------
(* A call that waits for a system call in the middle of an operation.      *)
LEMMA WaitingReady ==
  ASSUME NEW t, NEW r, NEW q, CallGood(r, q, t), q # F!NoRequest, q.op \notin {"close", "op"}
  PROVE  /\ Ready(r, t) /\ q.op = r.at
         /\ r.at \in {"read", "write", "readlink", "truncate", "open", "lookup", "path", "rmdir", "mkdir", "stat"}
<1>1. r \in CallRecords /\ InScope(r) /\ Asks(r, q) /\ KindFits(r) /\ DataKept(r) /\ PathMade(r, t)
  BY DEF CallGood
<1>2. q.op = r.at /\ r.at \notin Finished \cup {"idle", "source", "yield", "file"}
  BY <1>1 DEF Asks, F!Request
<1>3. r.at \in {"read", "write", "readlink", "truncate", "open", "lookup", "path", "rmdir", "mkdir", "stat"}
  BY <1>1, <1>2 DEF CallRecords, Places, OnOne, OnPath, Finished
<1>4. r.queue \in Nat /\ r.queue = 0
  BY <1>1, <1>2 DEF InScope, CallRecords
<1>5. Between(r, t)
  BY <1>1, <1>4 DEF Between, InScope, DataKept, PathMade
<1>6. r.error = "none" /\ r.open = Len(r.fds)
  BY <1>1, <1>3 DEF InScope, Finished
<1> QED
  BY <1>2, <1>3, <1>5, <1>6 DEF Ready

(* Each await's continuation leads to an await or an end.                  *)
AnsweredFds(r, op, a) == IF op = "open" /\ a.result = "ok" THEN Append(r.fds, a.n) ELSE r.fds
AnsweredOpen(r, op, a) ==
  IF op = "open" /\ a.result = "ok" THEN r.open + 1 ELSE IF op = "close" THEN r.open - 1 ELSE r.open

LEMMA OkGood ==
  ASSUME NEW t, NEW r, NEW q, NEW a, CallGood(r, q, t), AnswerGood(r, q, a, t),
         q # F!NoRequest, q.op \notin {"close", "op"}, a.result = "ok"
  PROVE  NextGood(F!Continue(r, q.op, a), t, AnsweredFds(r, q.op, a), AnsweredOpen(r, q.op, a))
<1>1. /\ Ready(r, t) /\ q.op = r.at
      /\ r.at \in {"read", "write", "readlink", "truncate", "open", "lookup", "path", "rmdir", "mkdir", "stat"}
  BY WaitingReady
<1>2. PICK op : op = q.op
  OBVIOUS
<1>3. r \in CallRecords /\ KindFits(r) /\ InScope(r) /\ DataKept(r)
  BY DEF CallGood
<1>4. r.open \in Nat /\ r.left \in Nat /\ r.moved \in Nat /\ r.hand \in Nat /\ a.n \in Nat
  BY <1>3 DEF CallRecords, AnswerGood, AnswerRecords
<1>5. /\ r.at \in OnOne => r.open = IF r.kind = "copyFile" THEN 2 ELSE 1
      /\ r.at \in OnPath => r.open = 0
      /\ r.at = "open" => r.open = 0 \/ (r.open = 1 /\ r.kind = "copyFile")
  BY <1>3 DEF InScope
<1>6. r.kind \in Moving /\ r.at # "write" => r.hand = 0
  BY <1>1, <1>3 DEF DataKept, OnPath, KindFits, Moving
<1>7. CASE op = "open"
  <2>1. NextGood(F!Opened(r, a.n), t, Append(r.fds, a.n), r.open + 1)
    BY <1>1, <1>2, <1>3, <1>5, <1>6, <1>7, OpenedGood DEF KindFits, AnswerGood
  <2> QED
    BY <1>2, <1>7, <2>1 DEF F!Continue, AnsweredFds, AnsweredOpen
<1> DEFINE Goal(next) == NextGood(next, t, r.fds, r.open)
<1>8. CASE op = "read"
  <2>1. r.kind \in {"readFile", "readDir", "copyFile"} /\ r.open = (IF r.kind = "copyFile" THEN 2 ELSE 1)
    BY <1>1, <1>2, <1>3, <1>5, <1>8 DEF KindFits, OnOne
  <2>2. CASE a.n = 0
    <3>1. r.left = 0
      BY <1>2, <1>8, <2>2 DEF AnswerGood
    <3>2. r.kind \in Moving => r.moved = Total
      BY <1>1, <1>2, <1>3, <1>4, <1>6, <1>8, <3>1 DEF DataKept
    <3>3. Complete(r, t)
      BY <2>1, <3>2 DEF Complete
    <3>4. Goal(F!Leave(r, "none"))
      BY <1>1, <3>3, LeaveGood DEF Ready, Failures
    <3> QED
      BY <1>2, <1>8, <2>2, <3>4 DEF F!Continue, AnsweredFds, AnsweredOpen
  <2>3. CASE a.n # 0
    <3>1. r.left # 0
      BY <1>2, <1>8, <2>3 DEF AnswerGood
    <3>2. Goal(F!Read(r))
      BY <1>1, <1>2, <1>6, <1>8, <2>1, <3>1, ReadGood
    <3> QED
      BY <1>2, <1>8, <2>3, <3>2 DEF F!Continue, AnsweredFds, AnsweredOpen
  <2> QED
    BY <2>2, <2>3
<1>9. CASE op = "write"
  <2>1. r.kind \in {"writeFile", "copyFile"} /\ r.open = (IF r.kind = "copyFile" THEN 2 ELSE 1)
    BY <1>1, <1>2, <1>3, <1>5, <1>9 DEF KindFits, OnOne
  <2>2. a.n <= r.hand
    BY <1>2, <1>9 DEF AnswerGood
  <2>3. Goal(F!Written(r, a.n))
    BY <1>1, <1>4, <2>1, <2>2, WrittenGood
  <2> QED
    BY <1>2, <1>9, <2>3 DEF F!Continue, AnsweredFds, AnsweredOpen
<1>10. CASE op = "truncate"
  <2>1. r.kind \in {"truncate", "copyFile"} /\ r.open = (IF r.kind = "copyFile" THEN 2 ELSE 1)
    BY <1>1, <1>2, <1>3, <1>5, <1>10 DEF KindFits, OnOne
  <2>2. CASE r.kind = "copyFile"
    <3>1. Goal(F!Reading(r))
      BY <1>1, <1>2, <1>6, <1>10, <2>1, <2>2, ReadingGood
    <3> QED
      BY <1>2, <1>10, <2>2, <3>1 DEF F!Continue, AnsweredFds, AnsweredOpen
  <2>3. CASE r.kind = "truncate"
    <3>1. Complete(r, t)
      BY <2>3 DEF Complete, Moving
    <3>2. Goal(F!Leave(r, "none"))
      BY <1>1, <2>3, <3>1, LeaveGood DEF Ready, Failures
    <3> QED
      BY <1>2, <1>10, <2>3, <3>2 DEF F!Continue, AnsweredFds, AnsweredOpen
  <2> QED
    BY <2>1, <2>2, <2>3
<1>11. CASE op = "lookup"
  <2>1. r.kind = "copyFile" /\ r.open = 0 /\ r.hand = 0
    BY <1>1, <1>2, <1>3, <1>5, <1>6, <1>11 DEF KindFits, OnPath, Moving
  <2>2. PICK d : d = [r EXCEPT !.level = 2]
    OBVIOUS
  <2>3. /\ d \in CallRecords /\ d.kind = r.kind /\ d.fds = r.fds /\ d.open = r.open
        /\ d.error = r.error /\ d.queue = r.queue /\ d.hand = r.hand /\ d.left = r.left
        /\ d.moved = r.moved
    BY <1>3, <2>2 DEF CallRecords
  <2>4. Ready(d, t)
    BY <1>1, <2>1, <2>3 DEF Ready, Between
  <2>5. KindFits([d EXCEPT !.at = "lookup"]) /\ KindFits([r EXCEPT !.at = "open"])
    BY <1>3, <2>1, <2>3 DEF KindFits, CallRecords
  <2>6. Goal(F!Waits(d, "lookup", 0))
    BY <2>1, <2>3, <2>4, <2>5, ReadyWaits
  <2>7. Goal(F!Waits(r, "open", 0))
    BY <1>1, <2>1, <2>5, ReadyWaits
  <2>8. CASE r.level = 1
    BY <1>2, <1>11, <2>2, <2>6, <2>8 DEF F!Continue, AnsweredFds, AnsweredOpen
  <2>9. CASE r.level # 1
    BY <1>2, <1>11, <2>7, <2>9 DEF F!Continue, AnsweredFds, AnsweredOpen
  <2> QED
    BY <2>8, <2>9
<1>12. CASE op \in {"readlink", "path", "rmdir"}
  <2>1. r.kind \in {"realPath", "path"}
    BY <1>1, <1>2, <1>3, <1>12 DEF KindFits
  <2>2. Complete(r, t)
    BY <2>1 DEF Complete, Moving
  <2>3. Goal(F!Leave(r, "none"))
    BY <1>1, <2>1, <2>2, LeaveGood DEF Ready, Failures
  <2> QED
    BY <1>2, <1>12, <2>3 DEF F!Continue, AnsweredFds, AnsweredOpen
<1>13. CASE op \in {"mkdir", "stat"}
  <2>1. r.kind = "mkdir" /\ t[r.level] = "dir"
    BY <1>1, <1>2, <1>3, <1>13 DEF KindFits, AnswerGood
  <2>2. Goal(F!Deeper(r))
    BY <1>1, <2>1, DeeperGood
  <2> QED
    BY <1>2, <1>13, <2>2 DEF F!Continue, AnsweredFds, AnsweredOpen
<1> QED
  BY <1>1, <1>2, <1>7, <1>8, <1>9, <1>10, <1>11, <1>12, <1>13

(* A system call has failed, or a close or an operation of an FsFile ended.*)
LEMMA ContinueGood ==
  ASSUME NEW t, NEW r, NEW q, NEW a, CallGood(r, q, t), AnswerGood(r, q, a, t), a.result # "none"
  PROVE  NextGood(F!Continue(r, q.op, a), t, AnsweredFds(r, q.op, a), AnsweredOpen(r, q.op, a))
<1>1. PICK op : op = q.op
  OBVIOUS
<1>2. /\ r \in CallRecords /\ KindFits(r) /\ InScope(r) /\ DataKept(r) /\ PathMade(r, t) /\ Leaves(r, t)
      /\ Asks(r, q) /\ q # F!NoRequest
  BY DEF CallGood, AnswerGood
<1>3. /\ a.result \in {"ok", "errno", "exception", "EEXIST", "EISDIR"}
      /\ a.result = "EISDIR" => op = "path"
      /\ a.result = "EEXIST" => op = "mkdir"
  BY <1>1 DEF AnswerGood, AnswerRecords
<1> DEFINE Goal(next) == NextGood(next, t, r.fds, r.open)
<1>4. CASE op = "close"
  <2>1. r.at = "close" /\ r.open \in Nat /\ r.open > 0 /\ r.kind \notin {"mkdir", "path"} /\ r.queue = 0
    <3>1. r.at = "close"
      <4>1. \/ q = F!Request(r, r.at, Own(r))
            \/ q = F!Request(r, "op", 1)
        BY <1>2 DEF Asks
      <4>2. /\ q = F!Request(r, r.at, Own(r)) => q.op = r.at
            /\ q = F!Request(r, "op", 1) => q.op = "op"
        BY DEF F!Request
      <4> QED
        BY <1>1, <1>4, <4>1, <4>2
    <3>2. r.open \in Nat /\ r.queue \in Nat
      BY <1>2 DEF CallRecords
    <3> QED
      BY <1>2, <3>1, <3>2 DEF InScope
  <2>2. PICK d : d = [r EXCEPT !.open = r.open - 1]
    OBVIOUS
  <2>3. /\ d \in CallRecords /\ d.kind = r.kind /\ d.fds = r.fds /\ d.open = r.open - 1
        /\ d.error = r.error /\ d.queue = r.queue /\ d.hand = r.hand /\ d.left = r.left
        /\ d.moved = r.moved
    BY <1>2, <2>1, <2>2 DEF CallRecords
  <2>4. Between(d, t)
    BY <1>2, <2>1, <2>3 DEF Between, InScope, DataKept
  <2>5. PICK e \in Failures : e = IF a.result = "ok" THEN "none" ELSE a.result
    BY <1>3, <1>4 DEF Failures
  <2>6. d.error = "none" /\ e = "none" => Complete(d, t)
    BY <1>2, <2>1, <2>3 DEF Leaves, Complete
  <2>7. NextGood(F!Leave(d, e), t, d.fds, d.open)
    BY <2>1, <2>3, <2>4, <2>5, <2>6, LeaveGood
  <2>8. F!Continue(r, op, a) = F!Leave(d, e)
    BY <1>4, <2>2, <2>5 DEF F!Continue
  <2> QED
    BY <1>1, <1>4, <2>3, <2>7, <2>8 DEF AnsweredFds, AnsweredOpen
<1>5. CASE op = "op"
  <2>1. r.at = "file" /\ r.queue \in Nat /\ r.queue > 0
    <3>1. r.at \in Places /\ "op" \notin Places /\ r.queue \in Nat
      BY <1>2 DEF CallRecords, Places, OnOne, OnPath, Finished
    <3>2. \/ q = F!Request(r, r.at, Own(r))
          \/ q = F!Request(r, "op", 1) /\ r.at = "file" /\ r.queue > 0
      BY <1>2 DEF Asks
    <3>3. q = F!Request(r, r.at, Own(r)) => q.op = r.at
      BY DEF F!Request
    <3> QED
      BY <1>1, <1>5, <3>1, <3>2, <3>3
  <2>2. PICK d : d = [r EXCEPT !.queue = r.queue - 1]
    OBVIOUS
  <2>3. /\ d \in CallRecords /\ d.kind = r.kind /\ d.fds = r.fds /\ d.open = r.open /\ d.at = r.at
        /\ d.error = r.error /\ d.hand = r.hand /\ d.left = r.left /\ d.level = r.level
        /\ d.moved = r.moved
    BY <1>2, <2>1, <2>2 DEF CallRecords
  <2>4. KindFits(d) /\ InScope(d)
    BY <1>2, <2>1, <2>3 DEF KindFits, InScope
  <2>5. DataKept(d) /\ PathMade(d, t) /\ Leaves(d, t)
    BY <1>2, <2>1, <2>3 DEF DataKept, PathMade, Leaves, Finished, Complete
  <2>6. Asks(d, F!NoRequest)
    BY <2>1, <2>3 DEF Asks
  <2>7. F!Continue(r, op, a).call = d /\ F!Continue(r, op, a).req = F!NoRequest
    BY <1>5, <2>2 DEF F!Continue
  <2>8. AnsweredFds(r, op, a) = r.fds /\ AnsweredOpen(r, op, a) = r.open
    BY <1>5 DEF AnsweredFds, AnsweredOpen
  <2> QED
    BY <1>1, <2>3, <2>4, <2>5, <2>6, <2>7, <2>8 DEF NextGood, CallGood
<1>6. CASE op \notin {"close", "op"} /\ a.result # "ok"
  <2>1. /\ Ready(r, t) /\ q.op = r.at
        /\ r.at \in {"read", "write", "readlink", "truncate", "open", "lookup", "path", "rmdir", "mkdir", "stat"}
    BY <1>1, <1>2, <1>6, WaitingReady
  <2>2. AnsweredFds(r, op, a) = r.fds /\ AnsweredOpen(r, op, a) = r.open
    BY <1>6 DEF AnsweredFds, AnsweredOpen
  <2>3. CASE a.result = "EEXIST"
    <3>1. r.at = "mkdir" /\ r.kind = "mkdir" /\ r.open = 0 /\ t[r.level] # "none"
      BY <1>1, <1>2, <1>3, <2>1, <2>3 DEF KindFits, InScope, AnswerGood
    <3>2. KindFits([r EXCEPT !.at = "stat"])
      BY <1>2, <3>1 DEF KindFits, CallRecords
    <3>3. Goal(F!Waits(r, "stat", 0))
      BY <2>1, <3>1, <3>2, ReadyWaits DEF Moving
    <3> QED
      BY <1>1, <1>3, <1>6, <2>2, <2>3, <3>3 DEF F!Continue, F!Exists
  <2>4. CASE a.result = "EISDIR"
    <3>1. r.at = "path" /\ r.kind = "path" /\ r.open = 0
      BY <1>1, <1>2, <1>3, <2>1, <2>4 DEF KindFits, InScope
    <3>2. KindFits([r EXCEPT !.at = "rmdir"])
      BY <1>2, <3>1 DEF KindFits, CallRecords
    <3>3. Goal(F!Waits(r, "rmdir", 0))
      BY <2>1, <3>1, <3>2, ReadyWaits DEF Moving
    <3> QED
      BY <1>1, <1>3, <1>6, <2>2, <2>4, <3>3 DEF F!Continue
  <2>5. CASE a.result \in {"errno", "exception"}
    <3>1. r.kind = "mkdir" /\ a.result = "errno" => r.at = "stat" /\ r.level \in 1 .. Depth /\ t[r.level] = "file"
      BY <1>2, <2>1 DEF AnswerGood, KindFits, PathMade
    <3>2. Goal(F!Leave(r, a.result))
      BY <2>1, <2>5, <3>1, LeaveGood DEF Ready, Failures
    <3> QED
      BY <1>1, <1>6, <2>2, <2>5, <3>2 DEF F!Continue
  <2> QED
    BY <1>3, <1>6, <2>3, <2>4, <2>5
<1>7. CASE op \notin {"close", "op"} /\ a.result = "ok"
  BY <1>1, <1>2, <1>7, OkGood
<1> QED
  BY <1>4, <1>5, <1>6, <1>7

-----------------------------------------------------------------------------
(* The steps of a call's own: it begins, is given data, or goes on.        *)
LEMMA BeginGood ==
  ASSUME NEW t, NEW r, NEW q, CallGood(r, q, t), r.at = "idle"
  PROVE  NextGood(F!Unless(r, F!Waits(r, F!FirstOp(r.kind), 0)), t, r.fds, r.open)
<1>1. /\ r \in CallRecords /\ InScope(r) /\ DataKept(r) /\ PathMade(r, t)
  BY DEF CallGood
<1>2. r.queue \in Nat /\ r.queue = 0 /\ r.open = 0 /\ r.open = Len(r.fds) /\ r.error = "none"
  BY <1>1 DEF InScope, CallRecords, OnPath, Finished
<1>3. Ready(r, t)
  BY <1>1, <1>2 DEF Ready, Between, DataKept, PathMade, InScope
<1>4. r.kind \in Moving => r.hand = 0
  BY <1>1 DEF DataKept, OnPath
<1>5. PICK op : op = F!FirstOp(r.kind)
  OBVIOUS
<1>6. /\ op \in {"lookup", "mkdir", "path", "open"}
      /\ op = "lookup" => r.kind = "copyFile"
      /\ op = "open" => r.kind \notin {"mkdir", "path"}
      /\ op \in {"mkdir", "path"} => r.kind = op
  BY <1>5 DEF F!FirstOp
<1>7. KindFits([r EXCEPT !.at = op])
  BY <1>1, <1>6 DEF KindFits, CallRecords
<1>8. NextGood(F!Waits(r, op, 0), t, r.fds, r.open)
  BY <1>2, <1>3, <1>4, <1>6, <1>7, ReadyWaits
<1> QED
  BY <1>3, <1>5, <1>8, UnlessGood DEF Ready

(* A call that rests, in the middle of an operation.                       *)
LEMMA RestingReady ==
  ASSUME NEW t, NEW r, NEW q, CallGood(r, q, t), r.at \in {"source", "yield", "file"}, r.queue = 0
  PROVE  /\ Ready(r, t) /\ r.open = 1 /\ r.kind # "copyFile"
         /\ r.at = "source" => r.kind = "writeFile" /\ r.hand = 0
         /\ r.at = "yield" => r.kind = "readDir"
         /\ r.at = "file" => r.kind = "open"
<1>1. /\ r \in CallRecords /\ KindFits(r) /\ InScope(r) /\ DataKept(r) /\ PathMade(r, t)
  BY DEF CallGood
<1>2. r.open = Len(r.fds) /\ r.error = "none"
  BY <1>1 DEF InScope, Finished
<1>3. /\ r.at = "source" => r.kind = "writeFile" /\ r.hand = 0
      /\ r.at = "yield" => r.kind = "readDir"
      /\ r.at = "file" => r.kind = "open"
  BY <1>1 DEF KindFits, DataKept, Moving
<1>4. r.open = 1
  BY <1>1, <1>3 DEF InScope, OnOne
<1>5. Between(r, t)
  BY <1>1, <1>2 DEF Between, DataKept, PathMade, InScope
<1> QED
  BY <1>2, <1>3, <1>4, <1>5 DEF Ready

LEMMA SourceGivesGood ==
  ASSUME NEW t, NEW r, NEW q, CallGood(r, q, t), r.at = "source", NEW n \in Nat, n <= r.left
  PROVE  NextGood(F!Writing([r EXCEPT !.left = r.left - n, !.hand = n]), t, r.fds, r.open)
<1>1. r \in CallRecords /\ r.queue = 0
  BY DEF CallGood, InScope, CallRecords
<1>2. Ready(r, t) /\ r.open = 1 /\ r.kind = "writeFile" /\ r.hand = 0
  BY <1>1, RestingReady
<1>3. PICK d : d = [r EXCEPT !.left = r.left - n, !.hand = n]
  OBVIOUS
<1>4. r.left \in Nat /\ r.moved \in Nat /\ r.left - n \in Nat
  BY <1>1 DEF CallRecords
<1>5. /\ d \in CallRecords /\ d.kind = r.kind /\ d.fds = r.fds /\ d.open = r.open
      /\ d.error = r.error /\ d.queue = r.queue /\ d.hand = n /\ d.left = r.left - n
      /\ d.moved = r.moved /\ d.level = r.level
  BY <1>1, <1>3, <1>4 DEF CallRecords
<1>6. d.left + d.hand + d.moved = r.left + r.hand + r.moved
  BY <1>2, <1>4, <1>5
<1>7. Ready(d, t)
  BY <1>2, <1>5, <1>6 DEF Ready, Between
<1> QED
  BY <1>2, <1>3, <1>5, <1>7, WritingGood

LEMMA SourceEndsGood ==
  ASSUME NEW t, NEW r, NEW q, CallGood(r, q, t), r.at = "source", r.left = 0 \/ r.aborted
  PROVE  NextGood(F!Ends(r), t, r.fds, r.open)
<1>1. r \in CallRecords /\ r.queue = 0 /\ r.moved \in Nat
  BY DEF CallGood, InScope, CallRecords
<1>2. Ready(r, t) /\ r.open = 1 /\ r.kind = "writeFile" /\ r.hand = 0
  BY <1>1, RestingReady
<1>3. CASE r.aborted
  <2>1. NextGood(F!Leave(r, "abort"), t, r.fds, r.open)
    BY <1>2, LeaveGood DEF Failures, Ready
  <2> QED
    BY <1>3, <2>1 DEF F!Ends, F!Unless
<1>4. CASE ~r.aborted
  <2>1. r.moved = Total
    BY <1>1, <1>2, <1>4 DEF Ready, Between, Moving
  <2>2. Complete(r, t)
    BY <1>2, <2>1 DEF Complete
  <2>3. NextGood(F!Leave(r, "none"), t, r.fds, r.open)
    BY <1>2, <2>2, LeaveGood DEF Failures, Ready
  <2> QED
    BY <1>4, <2>3 DEF F!Ends, F!Unless
<1> QED
  BY <1>3, <1>4

LEMMA SourceFailsGood ==
  ASSUME NEW t, NEW r, NEW q, CallGood(r, q, t), r.at = "source", NEW e \in {"abort", "exception"}
  PROVE  NextGood(F!Leave(r, e), t, r.fds, r.open)
<1>1. r.queue = 0
  BY DEF CallGood, InScope, CallRecords
<1>2. Ready(r, t)
  BY <1>1, RestingReady
<1> QED
  BY <1>2, LeaveGood DEF Failures, Ready

LEMMA YieldedGood ==
  ASSUME NEW t, NEW r, NEW q, CallGood(r, q, t), r.at = "yield"
  PROVE  /\ NextGood(F!Reading(r), t, r.fds, r.open)
         /\ NextGood(F!Leave(r, "none"), t, r.fds, r.open)
<1>1. r.queue = 0
  BY DEF CallGood, InScope, CallRecords
<1>2. Ready(r, t) /\ r.open = 1 /\ r.kind = "readDir"
  BY <1>1, RestingReady
<1>3. Complete(r, t)
  BY <1>2 DEF Complete, Moving
<1>4. NextGood(F!Leave(r, "none"), t, r.fds, r.open)
  BY <1>2, <1>3, LeaveGood DEF Failures, Ready
<1> QED
  BY <1>2, <1>4, ReadingGood DEF Moving

LEMMA CloseRunsGood ==
  ASSUME NEW t, NEW r, NEW q, CallGood(r, q, t), r.at = "file", r.queue = 0
  PROVE  NextGood(F!Leave(r, "none"), t, r.fds, r.open)
<1>1. Ready(r, t) /\ r.kind = "open"
  BY RestingReady
<1>2. Complete(r, t)
  BY <1>1 DEF Complete, Moving
<1> QED
  BY <1>1, <1>2, LeaveGood DEF Failures, Ready

-----------------------------------------------------------------------------
(* A call that has no answer yet, whatever it waits for.                   *)
LEMMA UnansweredGood ==
  ASSUME NEW t, NEW r, NEW q PROVE AnswerGood(r, q, F!NoAnswer, t)
  BY DEF AnswerGood, AnswerRecords, F!NoAnswer

LEMMA OneCall ==
  ASSUME FilesTyped, NEW c \in Calls, NEW r, NEW q, NEW a,
         call' = [call EXCEPT ![c] = r], req' = [req EXCEPT ![c] = q], ans' = [ans EXCEPT ![c] = a],
         CallGood(r, q, tree), AnswerGood(r, q, a, tree),
         UNCHANGED <<tree, dead>>, DOMAIN table' = DOMAIN table
  PROVE  FilesTyped'
<1>1. /\ call' = [x \in Calls |-> call'[x]] /\ req' = [x \in Calls |-> req'[x]]
      /\ ans' = [x \in Calls |-> ans'[x]]
  BY DEF FilesTyped
<1>2. /\ call'[c] = r /\ req'[c] = q /\ ans'[c] = a
      /\ \A x \in Calls : x # c => call'[x] = call[x] /\ req'[x] = req[x] /\ ans'[x] = ans[x]
  BY DEF FilesTyped
<1>3. ASSUME NEW x \in Calls
      PROVE  CallGood(call'[x], req'[x], tree') /\ AnswerGood(call'[x], req'[x], ans'[x], tree')
  BY <1>2 DEF FilesTyped
<1> QED
  BY <1>1, <1>3 DEF FilesTyped

(* Who holds what is as it was.                                            *)
LEMMA TableSame ==
  ASSUME TableOwned, UNCHANGED <<table, dead>>, lost \subseteq lost',
         \A x \in Calls :
           /\ call'[x].fds = call[x].fds /\ call'[x].open = call[x].open
           /\ JustClosed(x)' <=> JustClosed(x)
           /\ JustOpened(x)' <=> JustOpened(x)
           /\ JustOpened(x) => ans'[x].n = ans[x].n
           /\ req'[x].op = "close" /\ ans'[x].result = "exception" => <<x, call[x].open>> \in lost'
  PROVE  TableOwned'
<1>1. \A x \in Calls : \A i : Held(x, i)' <=> Held(x, i)
  BY DEF Held
<1>2. ASSUME ~dead', NEW x \in Calls, NEW i \in Nat, Held(x, i)'
      PROVE  table'[call'[x].fds[i]] = <<x, i>>
  <2>1. Held(x, i) /\ ~dead
    BY <1>1, <1>2
  <2>2. table[call[x].fds[i]] = <<x, i>>
    BY <2>1 DEF TableOwned
  <2>3. call'[x].fds = call[x].fds /\ table' = table
    OBVIOUS
  <2> QED
    BY <2>2, <2>3
<1>3. ASSUME ~dead', NEW x \in Calls, JustOpened(x)'
      PROVE  table'[ans'[x].n] = <<x, call'[x].open + 1>>
  BY <1>3 DEF TableOwned
<1>4. ASSUME NEW fd \in Fds, table'[fd] # F!None
      PROVE  \E x \in Calls : \E i \in Nat :
               /\ table'[fd] = <<x, i>>
               /\ \/ <<x, i>> \in lost'
                  \/ Held(x, i)' /\ call'[x].fds[i] = fd
                  \/ i = call'[x].open + 1 /\ JustOpened(x)' /\ ans'[x].n = fd
  <2>1. PICK x \in Calls : \E i \in Nat :
               /\ table[fd] = <<x, i>>
               /\ \/ <<x, i>> \in lost
                  \/ Held(x, i) /\ call[x].fds[i] = fd
                  \/ i = call[x].open + 1 /\ JustOpened(x) /\ ans[x].n = fd
    BY <1>4 DEF TableOwned
  <2> QED
    BY <1>1, <2>1
<1>5. dead' => \A fd \in Fds : table'[fd] = F!None
  BY DEF TableOwned
<1>6. \A x \in Calls : req'[x].op = "close" /\ ans'[x].result = "exception" => <<x, call'[x].open>> \in lost'
  OBVIOUS
<1>7. F!None' = F!None
  BY DEF F!None
<1> QED
  BY <1>2, <1>3, <1>4, <1>5, <1>6, <1>7 DEF TableOwned

(* A step of a call's own, to its next await.                              *)
LEMMA GoKeeps ==
  ASSUME FilesInv, NEW c \in Calls, NEW next, NextGood(next, tree, call[c].fds, call[c].open),
         F!Go(c, next), ans[c] = F!NoAnswer, UNCHANGED <<ans, table, tree, lost, dead>>
  PROVE  FilesInv'
<1>1. PICK r : r = next.call
  OBVIOUS
<1>2. PICK q : q = next.req
  OBVIOUS
<1>3. /\ call' = [call EXCEPT ![c] = r] /\ req' = [req EXCEPT ![c] = q] /\ ans' = [ans EXCEPT ![c] = F!NoAnswer]
  BY <1>1, <1>2 DEF F!Go, FilesInv, FilesTyped
<1>4. CallGood(r, q, tree) /\ r.fds = call[c].fds /\ r.open = call[c].open
  BY <1>1, <1>2 DEF NextGood
<1>5. FilesTyped'
  BY <1>3, <1>4, UnansweredGood, OneCall DEF FilesInv
<1>6. ASSUME NEW x \in Calls
      PROVE  /\ call'[x].fds = call[x].fds /\ call'[x].open = call[x].open
             /\ JustClosed(x)' <=> JustClosed(x)
             /\ JustOpened(x)' <=> JustOpened(x)
             /\ JustOpened(x) => ans'[x].n = ans[x].n
             /\ req'[x].op = "close" /\ ans'[x].result = "exception" => <<x, call[x].open>> \in lost'
  <2>1. CASE x = c
    <3>1. call'[x] = r /\ ans'[x].result = "none" /\ ans[x].result = "none"
      BY <1>3, <2>1 DEF FilesInv, FilesTyped, F!NoAnswer
    <3> QED
      BY <1>4, <2>1, <3>1 DEF JustClosed, JustOpened
  <2>2. CASE x # c
    <3>1. call'[x] = call[x] /\ req'[x] = req[x] /\ ans'[x] = ans[x]
      BY <1>3, <2>2 DEF FilesInv, FilesTyped
    <3> QED
      BY <3>1 DEF JustClosed, JustOpened, FilesInv, TableOwned
  <2> QED
    BY <2>1, <2>2
<1>7. TableOwned'
  BY <1>6, TableSame DEF FilesInv
<1> QED
  BY <1>5, <1>7 DEF FilesInv

(* At rest no answer is due.                                               *)
LEMMA RestingUnanswered ==
  ASSUME FilesInv, NEW c \in Calls, call[c].at \in {"idle", "source", "yield"} \/ F!Free(c)
  PROVE  ans[c] = F!NoAnswer /\ CallGood(call[c], req[c], tree)
<1>1. CallGood(call[c], req[c], tree) /\ AnswerGood(call[c], req[c], ans[c], tree)
  BY DEF FilesInv, FilesTyped
<1>2. req[c] = F!NoRequest
  BY <1>1 DEF CallGood, Asks, F!Free
<1> QED
  BY <1>1, <1>2 DEF AnswerGood

(* A flag of a call, or what waits at its FsFile.                          *)
LEMMA FlagKeeps ==
  ASSUME FilesInv, NEW c \in Calls, NEW s, s \in CallRecords, call' = [call EXCEPT ![c] = s],
         s = [call[c] EXCEPT !.aborted = s.aborted, !.queue = s.queue, !.closed = s.closed],
         s.queue = call[c].queue \/ (s.at = "file" /\ s.queue > 0),
         UNCHANGED <<req, ans, table, tree, lost, dead>>
  PROVE  FilesInv'
<1>1. PICK r : r = call[c]
  OBVIOUS
<1>2. /\ CallGood(r, req[c], tree) /\ AnswerGood(r, req[c], ans[c], tree) /\ r \in CallRecords
  BY <1>1 DEF FilesInv, FilesTyped, CallGood
<1>3. /\ s.kind = r.kind /\ s.at = r.at /\ s.fds = r.fds /\ s.open = r.open /\ s.error = r.error
      /\ s.left = r.left /\ s.hand = r.hand /\ s.moved = r.moved /\ s.level = r.level
      /\ s.queue \in Nat /\ r.queue \in Nat
  BY <1>1, <1>2 DEF CallRecords
<1>4. KindFits(s) /\ InScope(s)
  BY <1>1, <1>2, <1>3 DEF CallGood, KindFits, InScope
<1>5. DataKept(s) /\ PathMade(s, tree) /\ Leaves(s, tree)
  BY <1>2, <1>3 DEF CallGood, DataKept, PathMade, Leaves, Complete
<1>6. Own(s) = Own(r) /\ F!Request(s, "op", 1) = F!Request(r, "op", 1) /\ \A i : F!Request(s, s.at, i) = F!Request(r, r.at, i)
  BY <1>3 DEF Own, F!Request
<1>7. Asks(s, req[c])
  BY <1>1, <1>2, <1>3, <1>6 DEF CallGood, Asks
<1>8. CallGood(s, req[c], tree) /\ AnswerGood(s, req[c], ans[c], tree)
  BY <1>2, <1>3, <1>4, <1>5, <1>7 DEF CallGood, AnswerGood
<1>9. req' = [req EXCEPT ![c] = req[c]] /\ ans' = [ans EXCEPT ![c] = ans[c]]
  BY DEF FilesInv, FilesTyped
<1>10. FilesTyped'
  BY <1>8, <1>9, OneCall DEF FilesInv
<1>11. \A x \in Calls : call'[x].fds = call[x].fds /\ call'[x].open = call[x].open
  BY <1>1, <1>3 DEF FilesInv, FilesTyped
<1>12. TableOwned'
  BY <1>11, TableSame DEF FilesInv, JustClosed, JustOpened, TableOwned
<1> QED
  BY <1>10, <1>12 DEF FilesInv

LEMMA OperateKeeps ==
  ASSUME FilesInv, NEW c \in Calls, F!Operate(c)
  PROVE  FilesInv'
<1>1. ans[c] = F!NoAnswer /\ CallGood(call[c], req[c], tree)
  BY RestingUnanswered DEF F!Operate
<1>2. PICK q : q = F!Request(call[c], "op", 1)
  OBVIOUS
<1>3. /\ req' = [req EXCEPT ![c] = q] /\ call' = [call EXCEPT ![c] = call[c]]
      /\ ans' = [ans EXCEPT ![c] = F!NoAnswer] /\ UNCHANGED <<call, ans, table, tree, lost, dead>>
  BY <1>1, <1>2 DEF F!Operate, FilesInv, FilesTyped
<1>4. Asks(call[c], q)
  BY <1>1, <1>2 DEF F!Operate, CallGood, InScope, Asks
<1>5. CallGood(call[c], q, tree)
  BY <1>1, <1>4 DEF CallGood
<1>6. FilesTyped'
  BY <1>3, <1>5, UnansweredGood, OneCall DEF FilesInv
<1>7. ASSUME NEW x \in Calls
      PROVE  /\ JustClosed(x)' <=> JustClosed(x)
             /\ JustOpened(x)' <=> JustOpened(x)
             /\ req'[x].op = "close" /\ ans'[x].result = "exception" => <<x, call[x].open>> \in lost'
  <2>1. CASE x = c
    BY <1>1, <1>3, <2>1 DEF JustClosed, JustOpened, F!NoAnswer
  <2>2. CASE x # c
    <3>1. req'[x] = req[x] /\ ans'[x] = ans[x]
      BY <1>3, <2>2 DEF FilesInv, FilesTyped
    <3> QED
      BY <1>3, <3>1 DEF JustClosed, JustOpened, FilesInv, TableOwned
  <2> QED
    BY <2>1, <2>2
<1>8. TableOwned'
  BY <1>3, <1>7, TableSame DEF FilesInv
<1> QED
  BY <1>6, <1>8 DEF FilesInv

-----------------------------------------------------------------------------
(* The number openat returns is that of no open file.                      *)
LEMMA LowestFree ==
  ASSUME \E fd \in Fds : table[fd] = F!None
  PROVE  F!Lowest \in Fds /\ table[F!Lowest] = F!None
<1>1. PICK free : free = {fd \in Fds : table[fd] = F!None}
  OBVIOUS
<1>2. free \subseteq Nat /\ free # {}
  BY <1>1, FilesAssumption
<1>3. \A a, b \in Nat : <<a, b>> \in OpToRel(<, Nat) <=> a < b
  BY Zenon DEF OpToRel
<1>4. \E R : IsWellFoundedOn(R, Nat) /\ \A a, b \in Nat : <<a, b>> \in R <=> a < b
  BY <1>3, NatLessThanWellFounded, Zenon
<1>5. PICK R : IsWellFoundedOn(R, Nat) /\ \A a, b \in Nat : <<a, b>> \in R <=> a < b
  BY <1>4
<1>6. IsWellFoundedOn(R, Nat)
  BY <1>5
<1>7. PICK fd \in free : \A f \in free : ~ (<<f, fd>> \in R)
  BY <1>2, <1>6, WFMin, Zenon
<1>8. \A f \in free : ~ (f < fd)
  BY <1>2, <1>5, <1>7, Zenon
<1>9. fd \in Fds /\ table[fd] = F!None /\ \A f \in Fds : f < fd => table[f] # F!None
  BY <1>1, <1>7, <1>8
<1> QED
  BY <1>9 DEF F!Lowest

(* A close is asked for the last file of the scope.                        *)
LEMMA CloseAsks ==
  ASSUME NEW t, NEW r, NEW q, CallGood(r, q, t), q.op = "close"
  PROVE  /\ r.at = "close" /\ q.own = r.open /\ q.fd = r.fds[r.open]
         /\ r.open \in Nat /\ r.open > 0 /\ r.open <= Len(r.fds) /\ r.fds \in Seq(Fds)
<1>1. /\ r \in CallRecords /\ InScope(r) /\ Asks(r, q)
  BY DEF CallGood
<1>2. q # F!NoRequest
  BY DEF F!NoRequest
<1>3. /\ q = F!Request(r, r.at, Own(r)) => q.op = r.at
      /\ q = F!Request(r, "op", 1) => q.op = "op"
  BY DEF F!Request
<1>4. q = F!Request(r, r.at, Own(r)) /\ r.at = "close"
  BY <1>1, <1>2, <1>3 DEF Asks
<1>5. r.open \in Nat /\ r.fds \in Seq(Fds) /\ r.open > 0 /\ r.open <= Len(r.fds)
  BY <1>1, <1>4 DEF CallRecords, InScope
<1>6. q = F!Request(r, "close", r.open)
  BY <1>4 DEF Own
<1> QED
  BY <1>4, <1>5, <1>6 DEF F!Request

LEMMA OpenAsks ==
  ASSUME NEW t, NEW r, NEW q, CallGood(r, q, t), q.op = "open"
  PROVE  r.open \in Nat /\ r.fds \in Seq(Fds) /\ Len(r.fds) = r.open
<1>1. q # F!NoRequest
  BY DEF F!NoRequest
<1>2. Ready(r, t)
  BY <1>1, WaitingReady
<1> QED
  BY <1>2 DEF Ready, Between, CallRecords

(* A number of a file in scope is one.                                     *)
LEMMA ScopeNumbers ==
  ASSUME FilesTyped, NEW c \in Calls, NEW i \in Nat, i \in 1 .. call[c].open
  PROVE  call[c].fds[i] \in Fds
<1>1. call[c] \in CallRecords /\ call[c].open <= Len(call[c].fds)
  BY DEF FilesTyped, CallGood, InScope
<1>2. call[c].fds \in Seq(Fds) /\ call[c].open \in Nat /\ i \in 1 .. Len(call[c].fds)
  BY <1>1 DEF CallRecords
<1> QED
  BY <1>2

(* A call takes its answer.                                                *)
LEMMA ResumeKeeps ==
  ASSUME FilesInv, NEW c \in Calls, F!Resume(c)
  PROVE  FilesInv'
<1>1. PICK r : r = call[c]
  OBVIOUS
<1>2. PICK q : q = req[c]
  OBVIOUS
<1>3. PICK a : a = ans[c]
  OBVIOUS
<1>4. PICK next : next = F!Continue(r, q.op, a)
  OBVIOUS
<1>5. PICK s : s = next.call
  OBVIOUS
<1>6. PICK p : p = next.req
  OBVIOUS
<1>7. CallGood(r, q, tree) /\ AnswerGood(r, q, a, tree) /\ a # F!NoAnswer
  BY <1>1, <1>2, <1>3 DEF FilesInv, FilesTyped, F!Resume
<1>8. a.result # "none" /\ a.result \in {"ok", "errno", "exception", "EEXIST", "EISDIR"}
  BY <1>7 DEF AnswerGood, AnswerRecords
<1>9. NextGood(next, tree, AnsweredFds(r, q.op, a), AnsweredOpen(r, q.op, a))
  BY <1>4, <1>7, <1>8, ContinueGood
<1>10. CallGood(s, p, tree) /\ s.fds = AnsweredFds(r, q.op, a) /\ s.open = AnsweredOpen(r, q.op, a)
  BY <1>5, <1>6, <1>9 DEF NextGood
<1>11. /\ call' = [call EXCEPT ![c] = s] /\ req' = [req EXCEPT ![c] = p] /\ ans' = [ans EXCEPT ![c] = F!NoAnswer]
       /\ UNCHANGED <<table, tree, lost, dead>>
  BY <1>1, <1>2, <1>3, <1>4, <1>5, <1>6 DEF F!Resume, F!Go
<1>12. FilesTyped'
  BY <1>10, <1>11, UnansweredGood, OneCall DEF FilesInv
<1>13. /\ call'[c] = s /\ ans'[c].result = "none"
       /\ \A x \in Calls : x # c => call'[x] = call[x] /\ req'[x] = req[x] /\ ans'[x] = ans[x]
  BY <1>11 DEF FilesInv, FilesTyped, F!NoAnswer
<1>14. ~JustClosed(c)' /\ ~JustOpened(c)'
  BY <1>13 DEF JustClosed, JustOpened
<1>15. \A x \in Calls : x # c => (JustClosed(x)' <=> JustClosed(x)) /\ (JustOpened(x)' <=> JustOpened(x))
  BY <1>13 DEF JustClosed, JustOpened
<1>16. \A x \in Calls : x # c => \A i : Held(x, i)' <=> Held(x, i)
  BY <1>13, <1>15 DEF Held
<1>17. \A i : Held(c, i)' <=> i \in 1 .. s.open
  BY <1>13, <1>14 DEF Held
<1>18. /\ JustOpened(c) => s.fds = Append(r.fds, a.n) /\ s.open = r.open + 1
       /\ q.op = "close" => s.fds = r.fds /\ s.open = r.open - 1
       /\ ~JustOpened(c) /\ q.op # "close" => s.fds = r.fds /\ s.open = r.open
  BY <1>2, <1>3, <1>10 DEF AnsweredFds, AnsweredOpen, JustOpened
<1>19. r.open \in Nat
  BY <1>7 DEF CallGood, CallRecords
<1>20. JustOpened(c) => /\ r.fds \in Seq(Fds) /\ Len(r.fds) = r.open /\ a.n \in Fds /\ q.op # "close"
                        /\ s.fds[r.open + 1] = a.n /\ \A i \in 1 .. r.open : s.fds[i] = r.fds[i]
  <2> SUFFICES ASSUME JustOpened(c) PROVE /\ r.fds \in Seq(Fds) /\ Len(r.fds) = r.open /\ a.n \in Fds /\ q.op # "close"
                        /\ s.fds[r.open + 1] = a.n /\ \A i \in 1 .. r.open : s.fds[i] = r.fds[i]
    OBVIOUS
  <2>1. q.op = "open" /\ a.result = "ok"
    BY <1>2, <1>3 DEF JustOpened
  <2>2. r.fds \in Seq(Fds) /\ Len(r.fds) = r.open
    BY <1>7, <2>1, OpenAsks
  <2>3. a.n \in Fds
    BY <1>7, <2>1 DEF AnswerGood
  <2> QED
    BY <1>18, <2>1, <2>2, <2>3
<1>21. ASSUME ~dead', NEW x \in Calls, NEW i \in Nat, Held(x, i)'
       PROVE  table'[call'[x].fds[i]] = <<x, i>>
  <2>1. CASE x # c
    <3>1. Held(x, i) /\ call'[x] = call[x] /\ table' = table /\ ~dead
      BY <1>11, <1>13, <1>16, <1>21, <2>1
    <3> QED
      BY <3>1 DEF FilesInv, TableOwned
  <2>2. CASE x = c /\ q.op = "close"
    <3>1. i \in 1 .. r.open /\ i # r.open /\ s.fds = r.fds
      BY <1>17, <1>18, <1>19, <1>21, <2>2
    <3>2. Held(c, i)
      BY <1>1, <3>1 DEF Held
    <3>3. table[r.fds[i]] = <<c, i>>
      BY <1>1, <1>11, <1>21, <3>2 DEF FilesInv, TableOwned
    <3> QED
      BY <1>11, <1>13, <2>2, <3>1, <3>3
  <2>3. CASE x = c /\ q.op # "close" /\ (~JustOpened(c) \/ i \in 1 .. r.open)
    <3>1. i \in 1 .. r.open /\ s.fds[i] = r.fds[i]
      BY <1>17, <1>18, <1>20, <1>21, <2>3
    <3>2. Held(c, i)
      BY <1>1, <1>2, <2>3, <3>1 DEF Held, JustClosed
    <3>3. table[r.fds[i]] = <<c, i>>
      BY <1>1, <1>11, <1>21, <3>2 DEF FilesInv, TableOwned
    <3> QED
      BY <1>11, <1>13, <2>3, <3>1, <3>3
  <2>4. CASE x = c /\ JustOpened(c) /\ i \notin 1 .. r.open
    <3>1. i \in 1 .. r.open + 1
      BY <1>17, <1>18, <1>21, <2>4
    <3>2. i = r.open + 1
      BY <1>19, <2>4, <3>1
    <3>3. table[a.n] = <<c, r.open + 1>>
      BY <1>1, <1>3, <1>11, <1>21, <2>4 DEF FilesInv, TableOwned
    <3> QED
      BY <1>11, <1>13, <1>20, <2>4, <3>2, <3>3
  <2> QED
    BY <1>20, <2>1, <2>2, <2>3, <2>4
<1>22. ASSUME ~dead', NEW x \in Calls, JustOpened(x)'
       PROVE  table'[ans'[x].n] = <<x, call'[x].open + 1>>
  <2>1. x # c
    BY <1>14, <1>22
  <2>2. JustOpened(x) /\ call'[x] = call[x] /\ ans'[x] = ans[x] /\ table' = table /\ ~dead
    BY <1>11, <1>13, <1>15, <1>22, <2>1
  <2> QED
    BY <2>2 DEF FilesInv, TableOwned
<1>23. ASSUME NEW fd \in Fds, table'[fd] # F!None
       PROVE  \E x \in Calls : \E i \in Nat :
                /\ table'[fd] = <<x, i>>
                /\ \/ <<x, i>> \in lost'
                   \/ Held(x, i)' /\ call'[x].fds[i] = fd
                   \/ i = call'[x].open + 1 /\ JustOpened(x)' /\ ans'[x].n = fd
  <2>1. PICK x \in Calls : \E i \in Nat :
               /\ table[fd] = <<x, i>>
               /\ \/ <<x, i>> \in lost
                  \/ Held(x, i) /\ call[x].fds[i] = fd
                  \/ i = call[x].open + 1 /\ JustOpened(x) /\ ans[x].n = fd
    BY <1>11, <1>23 DEF FilesInv, TableOwned
  <2>2. PICK i \in Nat :
               /\ table[fd] = <<x, i>>
               /\ \/ <<x, i>> \in lost
                  \/ Held(x, i) /\ call[x].fds[i] = fd
                  \/ i = call[x].open + 1 /\ JustOpened(x) /\ ans[x].n = fd
    BY <2>1
  <2>3. table'[fd] = <<x, i>>
    BY <1>11, <2>2
  <2>4. CASE <<x, i>> \in lost
    BY <1>11, <2>3, <2>4
  <2>5. CASE x # c /\ Held(x, i) /\ call[x].fds[i] = fd
    <3>1. Held(x, i)' /\ call'[x].fds[i] = fd
      BY <1>13, <1>16, <2>5
    <3> QED
      BY <2>3, <3>1
  <2>6. CASE x # c /\ i = call[x].open + 1 /\ JustOpened(x) /\ ans[x].n = fd
    <3>1. i = call'[x].open + 1 /\ JustOpened(x)' /\ ans'[x].n = fd
      BY <1>13, <1>15, <2>6
    <3> QED
      BY <2>3, <3>1
  <2>7. CASE x = c /\ Held(c, i) /\ r.fds[i] = fd /\ q.op = "close"
    <3>1. i \in 1 .. r.open /\ ~(i = r.open /\ JustClosed(c))
      BY <1>1, <2>7 DEF Held
    <3>2. CASE i = r.open
      <4>1. a.result = "exception"
        BY <1>2, <1>3, <1>7, <1>8, <2>7, <3>1, <3>2 DEF JustClosed, AnswerGood
      <4>2. <<c, r.open>> \in lost
        BY <1>1, <1>2, <1>3, <2>7, <4>1 DEF FilesInv, TableOwned
      <4> QED
        BY <2>4, <2>7, <3>2, <4>2
    <3>3. CASE i # r.open
      <4>1. i \in 1 .. s.open /\ s.fds = r.fds
        BY <1>18, <1>19, <2>7, <3>1, <3>3
      <4>2. Held(c, i)' /\ call'[c].fds[i] = fd
        BY <1>13, <1>17, <2>7, <4>1
      <4> QED
        BY <2>3, <2>7, <4>2
    <3> QED
      BY <3>2, <3>3
  <2>8. CASE x = c /\ Held(c, i) /\ r.fds[i] = fd /\ q.op # "close"
    <3>1. i \in 1 .. r.open
      BY <1>1, <2>8 DEF Held
    <3>2. i \in 1 .. s.open /\ s.fds[i] = r.fds[i]
      <4>1. CASE JustOpened(c)
        BY <1>18, <1>19, <1>20, <3>1, <4>1
      <4>2. CASE ~JustOpened(c)
        BY <1>18, <2>8, <3>1, <4>2
      <4> QED
        BY <4>1, <4>2
    <3>3. Held(c, i)' /\ call'[c].fds[i] = fd
      BY <1>13, <1>17, <2>8, <3>2
    <3> QED
      BY <2>3, <2>8, <3>3
  <2>9. CASE x = c /\ i = r.open + 1 /\ JustOpened(c) /\ a.n = fd
    <3>1. s.open = r.open + 1 /\ s.fds[r.open + 1] = a.n
      BY <1>18, <1>20, <2>9
    <3>2. i \in 1 .. s.open
      BY <1>19, <2>9, <3>1
    <3>3. Held(c, i)' /\ call'[c].fds[i] = fd
      BY <1>13, <1>17, <2>9, <3>1, <3>2
    <3> QED
      BY <2>3, <2>9, <3>3
  <2> QED
    BY <1>1, <1>3, <2>2, <2>4, <2>5, <2>6, <2>7, <2>8, <2>9
<1>24. \A x \in Calls : req'[x].op = "close" /\ ans'[x].result = "exception" => <<x, call'[x].open>> \in lost'
  BY <1>11, <1>13 DEF FilesInv, TableOwned
<1>25. dead' => \A fd \in Fds : table'[fd] = F!None
  BY <1>11 DEF FilesInv, TableOwned
<1>26. TableOwned'
  BY <1>21, <1>22, <1>23, <1>24, <1>25 DEF TableOwned, F!None
<1> QED
  BY <1>12, <1>26 DEF FilesInv

-----------------------------------------------------------------------------
(* An answer that opens and closes nothing.                                *)
LEMMA AnswerKeeps ==
  ASSUME FilesInv, NEW c \in Calls, F!Pending(c), NEW a, F!Answers(c, a),
         AnswerGood(call[c], req[c], a, tree),
         req[c].op = "open" => a.result # "ok",
         req[c].op = "close" => a.result = "exception" /\ <<c, call[c].open>> \in lost',
         UNCHANGED <<call, req, table, tree, dead>>, lost \subseteq lost'
  PROVE  FilesInv'
<1>1. /\ call' = [call EXCEPT ![c] = call[c]] /\ req' = [req EXCEPT ![c] = req[c]]
      /\ ans' = [ans EXCEPT ![c] = a] /\ CallGood(call[c], req[c], tree)
  BY DEF FilesInv, FilesTyped, F!Answers
<1>2. FilesTyped'
  BY <1>1, OneCall DEF FilesInv
<1>3. ans'[c] = a /\ ans[c].result = "none" /\ \A x \in Calls : x # c => ans'[x] = ans[x]
  BY <1>1 DEF FilesInv, FilesTyped, F!Pending, F!NoAnswer
<1>4. ASSUME NEW x \in Calls
      PROVE  /\ JustClosed(x)' <=> JustClosed(x)
             /\ JustOpened(x)' <=> JustOpened(x)
             /\ JustOpened(x) => ans'[x].n = ans[x].n
             /\ req'[x].op = "close" /\ ans'[x].result = "exception" => <<x, call[x].open>> \in lost'
  <2>1. CASE x = c
    BY <1>3, <2>1 DEF JustClosed, JustOpened
  <2>2. CASE x # c
    BY <1>3, <2>2 DEF JustClosed, JustOpened, FilesInv, TableOwned
  <2> QED
    BY <2>1, <2>2
<1>5. TableOwned'
  BY <1>4, TableSame DEF FilesInv
<1> QED
  BY <1>2, <1>5 DEF FilesInv

(* A path component appears; none goes.                                    *)
LEMMA TreeGood ==
  ASSUME NEW r, NEW q, NEW a, NEW t, NEW u, CallGood(r, q, t), AnswerGood(r, q, a, t),
         \A l \in 1 .. Depth : t[l] # "none" => u[l] = t[l]
  PROVE  CallGood(r, q, u) /\ AnswerGood(r, q, a, u)
<1>1. r \in CallRecords /\ KindFits(r) /\ PathMade(r, t) /\ Asks(r, q)
  BY DEF CallGood
<1>2. r.level \in Nat /\ Depth \in Nat
  BY <1>1, FilesAssumption DEF CallRecords
<1>3. r.kind = "mkdir" => r.level \in 1 .. Depth /\ \A l \in 1 .. r.level - 1 : l \in 1 .. Depth
  BY <1>1, <1>2 DEF PathMade
<1>4. PathMade(r, u)
  BY <1>1, <1>3 DEF PathMade
<1>5. Leaves(r, u)
  BY DEF CallGood, Leaves, Complete
<1>6. q.op \in {"mkdir", "stat"} => r.kind = "mkdir"
  <2>1. q # F!NoRequest \/ q.op = "none"
    BY DEF F!NoRequest
  <2>2. /\ q = F!Request(r, r.at, Own(r)) => q.op = r.at
        /\ q = F!Request(r, "op", 1) => q.op = "op"
    BY DEF F!Request
  <2> QED
    BY <1>1, <2>1, <2>2 DEF Asks, KindFits
<1>7. AnswerGood(r, q, a, u)
  BY <1>3, <1>6 DEF AnswerGood
<1> QED
  BY <1>4, <1>5, <1>7 DEF CallGood

(* mkdirat makes a component, or says that it is there.                    *)
LEMMA MkdirKeeps ==
  ASSUME FilesInv, NEW c \in Calls, F!Pending(c), req[c].op = "mkdir", F!MkdirAt(c),
         UNCHANGED <<call, req, lost, dead>>
  PROVE  FilesInv'
<1>1. PICK l : l = call[c].level
  OBVIOUS
<1>2. CallGood(call[c], req[c], tree) /\ tree \in [1 .. Depth -> {"none", "dir", "file"}]
  BY DEF FilesInv, FilesTyped
<1>3. Ready(call[c], tree) /\ call[c].at = "mkdir"
  BY <1>2, WaitingReady DEF F!Pending, F!Free
<1>4. l \in 1 .. Depth /\ \A k \in 1 .. l - 1 : tree[k] = "dir"
  BY <1>1, <1>2, <1>3 DEF CallGood, KindFits, PathMade
<1>5. l \in Nat /\ Depth \in Nat
  BY <1>4, FilesAssumption
<1>6. F!Parent(l) = "dir"
  <2>1. CASE l = 1
    BY <2>1 DEF F!Parent
  <2>2. CASE l # 1
    <3>1. l - 1 \in 1 .. l - 1
      BY <1>4, <1>5, <2>2
    <3> QED
      BY <1>4, <2>2, <3>1 DEF F!Parent
  <2> QED
    BY <2>1, <2>2
<1>7. CASE tree[l] # "none"
  <2>1. F!Answers(c, F!Answer("EEXIST", 0)) /\ UNCHANGED <<table, tree>>
    BY <1>1, <1>7 DEF F!MkdirAt
  <2>2. AnswerGood(call[c], req[c], F!Answer("EEXIST", 0), tree)
    BY <1>1, <1>7 DEF AnswerGood, AnswerRecords, F!Answer, F!NoAnswer, F!Pending, F!Free
  <2> QED
    BY <2>1, <2>2, AnswerKeeps
<1>8. CASE tree[l] = "none"
  <2>1. tree' = [tree EXCEPT ![l] = "dir"] /\ F!Answers(c, F!Answer("ok", 0)) /\ table' = table
    BY <1>1, <1>6, <1>8 DEF F!MkdirAt
  <2>2. tree' \in [1 .. Depth -> {"none", "dir", "file"}] /\ tree'[l] = "dir"
    BY <1>2, <1>4, <2>1
  <2>3. \A k \in 1 .. Depth : tree[k] # "none" => tree'[k] = tree[k]
    BY <1>2, <1>4, <1>8, <2>1
  <2>4. PICK a : a = F!Answer("ok", 0)
    OBVIOUS
  <2>5. /\ ans' = [ans EXCEPT ![c] = a] /\ ans'[c] = a /\ a.result = "ok" /\ a.n = 0
        /\ ans'= [x \in Calls |-> ans'[x]] /\ \A x \in Calls : x # c => ans'[x] = ans[x]
    BY <2>1, <2>4 DEF F!Answers, F!Answer, FilesInv, FilesTyped
  <2>6. AnswerGood(call[c], req[c], a, tree')
    BY <1>1, <2>2, <2>4 DEF AnswerGood, AnswerRecords, F!Answer, F!NoAnswer, F!Pending, F!Free
  <2>7. ASSUME NEW x \in Calls
        PROVE  CallGood(call'[x], req'[x], tree') /\ AnswerGood(call'[x], req'[x], ans'[x], tree')
    <3>1. PICK u : u = tree'
      OBVIOUS
    <3>2. CallGood(call[x], req[x], u) /\ AnswerGood(call[x], req[x], ans[x], u)
      <4>1. CallGood(call[x], req[x], tree) /\ AnswerGood(call[x], req[x], ans[x], tree)
        BY DEF FilesInv, FilesTyped
      <4>2. \A k \in 1 .. Depth : tree[k] # "none" => u[k] = tree[k]
        BY <2>3, <3>1
      <4> QED
        BY <4>1, <4>2, TreeGood
    <3> QED
      BY <2>5, <2>6, <3>1, <3>2
  <2>8. FilesTyped'
    BY <2>1, <2>2, <2>5, <2>7 DEF FilesInv, FilesTyped
  <2>9. ans[c].result = "none"
    BY DEF F!Pending, F!NoAnswer
  <2>10. ASSUME NEW x \in Calls
         PROVE  /\ JustClosed(x)' <=> JustClosed(x)
                /\ JustOpened(x)' <=> JustOpened(x)
                /\ JustOpened(x) => ans'[x].n = ans[x].n
                /\ req'[x].op = "close" /\ ans'[x].result = "exception" => <<x, call[x].open>> \in lost'
    <3>1. CASE x = c
      BY <2>5, <2>9, <3>1 DEF JustClosed, JustOpened
    <3>2. CASE x # c
      BY <2>5, <3>2 DEF JustClosed, JustOpened, FilesInv, TableOwned
    <3> QED
      BY <3>1, <3>2
  <2>11. TableOwned'
    BY <2>1, <2>10, TableSame DEF FilesInv
  <2> QED
    BY <2>8, <2>11 DEF FilesInv
<1> QED
  BY <1>7, <1>8

(* openat gives out a number that nobody holds.                            *)
LEMMA OpenKeeps ==
  ASSUME FilesInv, NEW c \in Calls, F!Pending(c), req[c].op = "open", ~dead, F!OpenAt(c),
         UNCHANGED <<call, req, lost, dead>>
  PROVE  FilesInv'
<1>1. CASE F!Answers(c, F!Answer("errno", 0)) /\ UNCHANGED <<table, tree>>
  <2>1. PICK a : a = F!Answer("errno", 0)
    OBVIOUS
  <2>2. AnswerGood(call[c], req[c], a, tree) /\ a.result # "ok"
    BY <2>1 DEF AnswerGood, AnswerRecords, F!Answer, F!NoAnswer, F!Pending, F!Free
  <2> QED
    BY <1>1, <2>1, <2>2, AnswerKeeps
<1>2. CASE /\ \E fd \in Fds : table[fd] = F!None
           /\ table' = [table EXCEPT ![F!Lowest] = <<c, call[c].open + 1>>]
           /\ F!Answers(c, F!Answer("ok", F!Lowest)) /\ UNCHANGED tree
  <2>1. PICK low : low = F!Lowest
    OBVIOUS
  <2>2. low \in Fds /\ table[low] = F!None
    BY <1>2, <2>1, LowestFree
  <2>3. PICK a : a = F!Answer("ok", low)
    OBVIOUS
  <2>4. /\ ans' = [ans EXCEPT ![c] = a] /\ ans'[c] = a /\ a.result = "ok" /\ a.n = low
        /\ \A x \in Calls : x # c => ans'[x] = ans[x]
    BY <1>2, <2>1, <2>3 DEF F!Answers, F!Answer, FilesInv, FilesTyped
  <2>5. AnswerGood(call[c], req[c], a, tree)
    BY <2>2, <2>3, FilesAssumption DEF AnswerGood, AnswerRecords, F!Answer, F!NoAnswer, F!Pending, F!Free
  <2>6. /\ call' = [call EXCEPT ![c] = call[c]] /\ req' = [req EXCEPT ![c] = req[c]]
        /\ CallGood(call[c], req[c], tree)
    BY DEF FilesInv, FilesTyped
  <2>7. /\ DOMAIN table' = DOMAIN table /\ table'[low] = <<c, call[c].open + 1>>
        /\ \A fd \in Fds : fd # low => table'[fd] = table[fd]
    BY <1>2, <2>1, <2>2 DEF FilesInv, FilesTyped
  <2>8. FilesTyped'
    BY <1>2, <2>4, <2>5, <2>6, <2>7, OneCall DEF FilesInv
  <2>9. ans[c].result = "none"
    BY DEF F!Pending, F!NoAnswer
  <2>10. JustOpened(c)' /\ \A x \in Calls : x # c => (JustOpened(x)' <=> JustOpened(x))
    BY <2>4 DEF JustOpened
  <2>11. \A x \in Calls : JustClosed(x)' <=> JustClosed(x)
    BY <2>4 DEF JustClosed
  <2>12. \A x \in Calls : \A i : Held(x, i)' <=> Held(x, i)
    BY <2>11 DEF Held
  <2>13. \A x, i : <<x, i>> # F!None
    BY DEF F!None
  <2>14. ASSUME NEW x \in Calls, NEW i \in Nat, Held(x, i)'
         PROVE  table'[call'[x].fds[i]] = <<x, i>>
    <3>1. Held(x, i) /\ i \in 1 .. call[x].open
      BY <2>12, <2>14 DEF Held
    <3>2. table[call[x].fds[i]] = <<x, i>>
      BY <3>1 DEF FilesInv, TableOwned
    <3>3. call[x].fds[i] \in Fds /\ call[x].fds[i] # low
      BY <2>2, <2>13, <3>1, <3>2, ScopeNumbers DEF FilesInv
    <3> QED
      BY <2>7, <3>2, <3>3
  <2>15. ASSUME NEW x \in Calls, JustOpened(x)'
         PROVE  table'[ans'[x].n] = <<x, call'[x].open + 1>>
    <3>1. CASE x = c
      BY <2>4, <2>7, <3>1
    <3>2. CASE x # c
      <4>1. JustOpened(x) /\ ans'[x] = ans[x]
        BY <2>4, <2>10, <2>15, <3>2
      <4>2. table[ans[x].n] = <<x, call[x].open + 1>> /\ ans[x].n \in Fds
        BY <4>1 DEF FilesInv, TableOwned, FilesTyped, AnswerGood, JustOpened
      <4>3. ans[x].n # low
        BY <2>2, <2>13, <4>2
      <4> QED
        BY <2>7, <4>1, <4>2, <4>3
    <3> QED
      BY <3>1, <3>2
  <2>16. ASSUME NEW fd \in Fds, table'[fd] # F!None
         PROVE  \E x \in Calls : \E i \in Nat :
                  /\ table'[fd] = <<x, i>>
                  /\ \/ <<x, i>> \in lost'
                     \/ Held(x, i)' /\ call'[x].fds[i] = fd
                     \/ i = call'[x].open + 1 /\ JustOpened(x)' /\ ans'[x].n = fd
    <3>1. CASE fd = low
      <4>1. call[c].open + 1 \in Nat
        BY <2>6, OpenAsks
      <4>2. /\ table'[fd] = <<c, call[c].open + 1>> /\ JustOpened(c)' /\ ans'[c].n = fd
            /\ call[c].open + 1 = call'[c].open + 1
        BY <2>4, <2>7, <2>10, <3>1
      <4> QED
        BY <4>1, <4>2
    <3>2. CASE fd # low
      <4>1. table'[fd] = table[fd]
        BY <2>7, <3>2
      <4>2. PICK x \in Calls : \E i \in Nat :
               /\ table[fd] = <<x, i>>
               /\ \/ <<x, i>> \in lost
                  \/ Held(x, i) /\ call[x].fds[i] = fd
                  \/ i = call[x].open + 1 /\ JustOpened(x) /\ ans[x].n = fd
        BY <2>16, <4>1 DEF FilesInv, TableOwned
      <4>3. JustOpened(x) => JustOpened(x)' /\ ans'[x] = ans[x]
        BY <2>4, <2>9, <2>10 DEF JustOpened
      <4> QED
        BY <2>12, <4>1, <4>2, <4>3
    <3> QED
      BY <3>1, <3>2
  <2>17. \A x \in Calls : req'[x].op = "close" /\ ans'[x].result = "exception" => <<x, call'[x].open>> \in lost'
    BY <2>4 DEF FilesInv, TableOwned
  <2>18. TableOwned'
    BY <2>14, <2>15, <2>16, <2>17 DEF TableOwned, F!None
  <2> QED
    BY <2>8, <2>18 DEF FilesInv
<1> QED
  BY <1>1, <1>2 DEF F!OpenAt

(* close frees the number of the file the call means, whatever it reports. *)
LEMMA CloseKeeps ==
  ASSUME FilesInv, NEW c \in Calls, F!Pending(c), req[c].op = "close", ~dead, F!CloseFd(c),
         UNCHANGED <<call, req, lost, dead>>
  PROVE  FilesInv'
<1>1. PICK a \in {F!Answer("ok", 0), F!Answer("errno", 0)} : F!Answers(c, a)
  BY DEF F!CloseFd
<1>2. PICK n : n = call[c].open
  OBVIOUS
<1>3. PICK gone : gone = req[c].fd
  OBVIOUS
<1>4. CallGood(call[c], req[c], tree)
  BY DEF FilesInv, FilesTyped
<1>5. gone = call[c].fds[n] /\ n \in Nat /\ n > 0
  BY <1>2, <1>3, <1>4, CloseAsks
<1>6. n \in 1 .. call[c].open
  BY <1>2, <1>5
<1>7. gone \in Fds
  BY <1>5, <1>6, ScopeNumbers DEF FilesInv
<1>8. /\ a.result \in {"ok", "errno"} /\ ans' = [ans EXCEPT ![c] = a] /\ ans'[c] = a
      /\ \A x \in Calls : x # c => ans'[x] = ans[x]
  BY <1>1 DEF F!Answers, F!Answer, FilesInv, FilesTyped
<1>9. AnswerGood(call[c], req[c], a, tree)
  BY <1>1 DEF AnswerGood, AnswerRecords, F!Answer, F!NoAnswer, F!Pending, F!Free
<1>10. /\ call' = [call EXCEPT ![c] = call[c]] /\ req' = [req EXCEPT ![c] = req[c]]
  BY DEF FilesInv, FilesTyped
<1>11. /\ DOMAIN table' = DOMAIN table /\ table'[gone] = F!None /\ tree' = tree
       /\ \A fd \in Fds : fd # gone => table'[fd] = table[fd]
  BY <1>3, <1>7 DEF F!CloseFd, FilesInv, FilesTyped
<1>12. FilesTyped'
  BY <1>4, <1>8, <1>9, <1>10, <1>11, OneCall DEF FilesInv
<1>13. ans[c].result = "none"
  BY DEF F!Pending, F!NoAnswer
<1>14. ~JustClosed(c) /\ JustClosed(c)' /\ ~JustOpened(c) /\ ~JustOpened(c)'
  BY <1>8, <1>13 DEF JustClosed, JustOpened
<1>15. \A x \in Calls : x # c => (JustClosed(x)' <=> JustClosed(x)) /\ (JustOpened(x)' <=> JustOpened(x))
  BY <1>8 DEF JustClosed, JustOpened
<1>16. \A x \in Calls : \A i : Held(x, i)' <=> Held(x, i) /\ <<x, i>> # <<c, n>>
  <2>1. \A i : Held(c, i)' <=> i \in 1 .. n /\ i # n
    BY <1>2, <1>14 DEF Held
  <2>2. \A i : Held(c, i) <=> i \in 1 .. n
    BY <1>2, <1>14 DEF Held
  <2>3. \A x \in Calls : x # c => \A i : Held(x, i)' <=> Held(x, i)
    BY <1>15 DEF Held
  <2> QED
    BY <2>1, <2>2, <2>3
<1>17. table[gone] = <<c, n>>
  <2>1. Held(c, n)
    BY <1>6, <1>14 DEF Held
  <2> QED
    BY <1>5, <2>1 DEF FilesInv, TableOwned
<1>18. ASSUME NEW x \in Calls, NEW i \in Nat, Held(x, i)'
       PROVE  table'[call'[x].fds[i]] = <<x, i>>
  <2>1. Held(x, i) /\ <<x, i>> # <<c, n>> /\ i \in 1 .. call[x].open
    BY <1>16, <1>18 DEF Held
  <2>2. table[call[x].fds[i]] = <<x, i>>
    BY <2>1 DEF FilesInv, TableOwned
  <2>3. call[x].fds[i] \in Fds /\ call[x].fds[i] # gone
    BY <1>17, <2>1, <2>2, ScopeNumbers DEF FilesInv
  <2> QED
    BY <1>11, <2>2, <2>3
<1>19. ASSUME NEW x \in Calls, JustOpened(x)'
       PROVE  table'[ans'[x].n] = <<x, call'[x].open + 1>>
  <2>1. x # c /\ JustOpened(x) /\ ans'[x] = ans[x]
    BY <1>8, <1>14, <1>15, <1>19
  <2>2. table[ans[x].n] = <<x, call[x].open + 1>> /\ ans[x].n \in Fds
    BY <2>1 DEF FilesInv, TableOwned, FilesTyped, AnswerGood, JustOpened
  <2>3. ans[x].n # gone
    BY <1>17, <2>1, <2>2
  <2> QED
    BY <1>11, <2>1, <2>2, <2>3
<1>20. ASSUME NEW fd \in Fds, table'[fd] # F!None
       PROVE  \E x \in Calls : \E i \in Nat :
                /\ table'[fd] = <<x, i>>
                /\ \/ <<x, i>> \in lost'
                   \/ Held(x, i)' /\ call'[x].fds[i] = fd
                   \/ i = call'[x].open + 1 /\ JustOpened(x)' /\ ans'[x].n = fd
  <2>1. fd # gone /\ table'[fd] = table[fd]
    BY <1>11, <1>20
  <2>2. PICK x \in Calls : \E i \in Nat :
               /\ table[fd] = <<x, i>>
               /\ \/ <<x, i>> \in lost
                  \/ Held(x, i) /\ call[x].fds[i] = fd
                  \/ i = call[x].open + 1 /\ JustOpened(x) /\ ans[x].n = fd
    BY <1>20, <2>1 DEF FilesInv, TableOwned
  <2>3. PICK i \in Nat :
               /\ table[fd] = <<x, i>>
               /\ \/ <<x, i>> \in lost
                  \/ Held(x, i) /\ call[x].fds[i] = fd
                  \/ i = call[x].open + 1 /\ JustOpened(x) /\ ans[x].n = fd
    BY <2>2
  <2>4. JustOpened(x) => JustOpened(x)' /\ ans'[x] = ans[x]
    BY <1>8, <1>14, <1>15
  <2>5. Held(x, i) /\ call[x].fds[i] = fd => Held(x, i)'
    BY <1>5, <1>16, <2>1
  <2> QED
    BY <2>1, <2>3, <2>4, <2>5
<1>21. \A x \in Calls : req'[x].op = "close" /\ ans'[x].result = "exception" => <<x, call'[x].open>> \in lost'
  BY <1>8 DEF FilesInv, TableOwned
<1>22. TableOwned'
  BY <1>18, <1>19, <1>20, <1>21 DEF TableOwned, F!None
<1> QED
  BY <1>12, <1>22 DEF FilesInv

-----------------------------------------------------------------------------
(* The agent executes a system call, or it cannot be sent.                 *)
LEMMA ExecuteKeeps ==
  ASSUME FilesInv, NEW c \in Calls, F!Execute(c)
  PROVE  FilesInv'
<1>1. F!Pending(c) /\ ~dead /\ UNCHANGED <<call, req, lost, dead>>
  BY DEF F!Execute
<1>2. CASE req[c].op = "open"
  BY <1>1, <1>2, OpenKeeps DEF F!Execute
<1>3. CASE req[c].op = "close"
  BY <1>1, <1>3, CloseKeeps DEF F!Execute
<1>4. CASE req[c].op = "mkdir"
  BY <1>1, <1>4, MkdirKeeps DEF F!Execute
<1>5. CASE req[c].op \notin {"open", "close", "mkdir"}
  <2>1. PICK a \in F!Results(c) : F!Answers(c, a)
    BY <1>5 DEF F!Execute
  <2>2. UNCHANGED <<table, tree>>
    BY <1>5 DEF F!Execute
  <2>3. CallGood(call[c], req[c], tree) /\ tree \in [1 .. Depth -> {"none", "dir", "file"}]
    BY DEF FilesInv, FilesTyped
  <2>4. call[c].hand \in Nat
    BY <2>3 DEF CallGood, CallRecords
  <2>5. req[c] # F!NoRequest
    BY <1>1 DEF F!Pending, F!Free
  <2>6. AnswerGood(call[c], req[c], a, tree)
    <3>1. CASE req[c].op = "read"
      BY <2>1, <2>5, <3>1 DEF F!Results, AnswerGood, AnswerRecords, F!Answer, F!NoAnswer
    <3>2. CASE req[c].op = "write"
      <4>1. CASE a = F!Answer("errno", 0)
        BY <2>5, <3>2, <4>1 DEF AnswerGood, AnswerRecords, F!Answer, F!NoAnswer
      <4>2. CASE \E n \in 0 .. call[c].hand : a = F!Answer("ok", n)
        <5>1. PICK n \in 0 .. call[c].hand : a = F!Answer("ok", n)
          BY <4>2
        <5>2. a.result = "ok" /\ a.n = n /\ n \in Nat /\ n <= call[c].hand /\ a \in AnswerRecords
          BY <2>4, <5>1 DEF F!Answer, AnswerRecords
        <5> QED
          BY <2>5, <3>2, <5>2 DEF AnswerGood, F!NoAnswer
      <4> QED
        BY <2>1, <3>2, <4>1, <4>2 DEF F!Results
    <3>3. CASE req[c].op = "stat"
      <4>1. Ready(call[c], tree) /\ call[c].at = "stat"
        BY <2>3, <2>5, <3>3, WaitingReady
      <4>2. call[c].level \in 1 .. Depth /\ tree[call[c].level] # "none"
        BY <2>3, <4>1 DEF CallGood, KindFits, PathMade
      <4>3. tree[call[c].level] \in {"dir", "file"}
        BY <2>3, <4>2
      <4>4. a = F!Answer(IF tree[call[c].level] = "dir" THEN "ok" ELSE "errno", 0)
        BY <2>1, <3>3 DEF F!Results
      <4> QED
        BY <2>5, <3>3, <4>3, <4>4 DEF AnswerGood, AnswerRecords, F!Answer, F!NoAnswer
    <3>4. CASE req[c].op = "path"
      BY <2>1, <2>5, <3>4 DEF F!Results, AnswerGood, AnswerRecords, F!Answer, F!NoAnswer
    <3>5. CASE req[c].op \notin {"read", "write", "stat", "path"}
      <4>1. a \in {F!Answer("ok", 0), F!Answer("errno", 0)}
        BY <2>1, <3>5 DEF F!Results
      <4> QED
        BY <1>5, <2>5, <3>5, <4>1 DEF AnswerGood, AnswerRecords, F!Answer, F!NoAnswer
    <3> QED
      BY <3>1, <3>2, <3>3, <3>4, <3>5
  <2> QED
    BY <1>1, <1>5, <2>1, <2>2, <2>6, AnswerKeeps
<1> QED
  BY <1>2, <1>3, <1>4, <1>5

LEMMA FailKeeps ==
  ASSUME FilesInv, NEW c \in Calls, F!Fail(c)
  PROVE  FilesInv'
<1>1. PICK a : a = F!Answer("exception", 0)
  OBVIOUS
<1>2. /\ F!Pending(c) /\ F!Answers(c, a) /\ UNCHANGED <<call, req, table, tree, dead>>
      /\ lost' = IF req[c].op = "close" THEN lost \cup {<<c, req[c].own>>} ELSE lost
  BY <1>1 DEF F!Fail
<1>3. AnswerGood(call[c], req[c], a, tree) /\ a.result = "exception"
  BY <1>1, <1>2 DEF AnswerGood, AnswerRecords, F!Answer, F!NoAnswer, F!Pending, F!Free
<1>4. req[c].op = "close" => req[c].own = call[c].open
  BY CloseAsks DEF FilesInv, FilesTyped
<1>5. req[c].op = "close" => <<c, call[c].open>> \in lost'
  BY <1>2, <1>4
<1>6. lost \subseteq lost'
  BY <1>2
<1> QED
  BY <1>2, <1>3, <1>5, <1>6, AnswerKeeps

LEMMA DieKeeps == ASSUME FilesInv, F!Die PROVE FilesInv'
<1>1. dead' = TRUE /\ table' = [fd \in Fds |-> F!None] /\ UNCHANGED <<call, req, ans, tree, lost>>
  BY DEF F!Die
<1>2. FilesTyped'
  BY <1>1 DEF FilesInv, FilesTyped
<1>3. TableOwned'
  BY <1>1 DEF FilesInv, TableOwned, F!None
<1> QED
  BY <1>2, <1>3 DEF FilesInv

(* No call has begun, and no file is open.                                 *)
LEMMA FilesInvInit == F!Init => FilesInv
<1> SUFFICES ASSUME F!Init PROVE FilesInv
  OBVIOUS
<1>1. PICK kind \in Mixes :
        call = [c \in Calls |->
          [kind |-> kind[c], at |-> "idle", fds |-> <<>>, open |-> 0, error |-> "none",
           aborted |-> FALSE, left |-> Total, hand |-> 0, moved |-> 0, level |-> 1,
           queue |-> 0, closed |-> FALSE]]
  BY DEF F!Init
<1>2. /\ req = [c \in Calls |-> F!NoRequest] /\ ans = [c \in Calls |-> F!NoAnswer]
      /\ table = [fd \in Fds |-> F!None] /\ lost = {} /\ dead = FALSE
  BY DEF F!Init
<1>3. tree \in [1 .. Depth -> {"none", "dir", "file"}]
  BY DEF F!Init
<1>4. ASSUME NEW c \in Calls PROVE CallGood(call[c], req[c], tree)
  <2>1. PICK r : r = call[c]
    OBVIOUS
  <2>2. r = [kind |-> kind[c], at |-> "idle", fds |-> <<>>, open |-> 0, error |-> "none",
             aborted |-> FALSE, left |-> Total, hand |-> 0, moved |-> 0, level |-> 1,
             queue |-> 0, closed |-> FALSE]
    BY <1>1, <2>1
  <2>3. kind[c] \in Kinds /\ Total \in Nat /\ Depth \in Nat /\ 1 \in 1 .. Depth
    BY FilesAssumption
  <2>4. <<>> \in Seq(Fds) /\ Len(<<>>) = 0
    OBVIOUS
  <2>5. r \in CallRecords /\ r.at = "idle" /\ r.open = 0 /\ r.fds = <<>> /\ r.error = "none"
        /\ r.left = Total /\ r.hand = 0 /\ r.moved = 0 /\ r.level = 1 /\ r.queue = 0
    BY <2>2, <2>3, <2>4 DEF CallRecords, Places, OnPath, Failures
  <2>6. KindFits(r)
    BY <2>5 DEF KindFits
  <2>7. InScope(r)
    BY <2>4, <2>5 DEF InScope, OnOne, OnPath, Finished
  <2>8. DataKept(r) /\ Leaves(r, tree)
    BY <2>3, <2>5 DEF DataKept, Leaves, Finished
  <2>9. PathMade(r, tree)
    BY <2>3, <2>5 DEF PathMade
  <2>10. Asks(r, F!NoRequest)
    BY <2>5 DEF Asks
  <2> QED
    BY <1>2, <2>1, <2>5, <2>6, <2>7, <2>8, <2>9, <2>10 DEF CallGood
<1>5. FilesTyped
  BY <1>1, <1>2, <1>3, <1>4, UnansweredGood DEF FilesTyped
<1>6. \A c \in Calls : call[c].open = 0 /\ ans[c].result = "none"
  BY <1>1, <1>2 DEF F!NoAnswer
<1>7. TableOwned
  BY <1>2, <1>6 DEF TableOwned, Held, JustOpened, JustClosed
<1> QED
  BY <1>5, <1>7 DEF FilesInv

(* Each step of a call, of the agent and of the session keeps the          *)
(* invariant.                                                              *)
LEMMA FilesInvStep == FilesInv /\ (F!Next \/ UNCHANGED fileVars) => FilesInv'
<1> SUFFICES ASSUME FilesInv, F!Next \/ UNCHANGED fileVars PROVE FilesInv'
  OBVIOUS
<1>1. CASE F!Die
  BY <1>1, DieKeeps
<1>2. ASSUME NEW c \in Calls, F!Begin(c) PROVE FilesInv'
  <2>1. ans[c] = F!NoAnswer /\ CallGood(call[c], req[c], tree)
    BY <1>2, RestingUnanswered DEF F!Begin
  <2> QED
    BY <1>2, <2>1, BeginGood, GoKeeps DEF F!Begin
<1>3. ASSUME NEW c \in Calls, F!Resume(c) PROVE FilesInv'
  BY <1>3, ResumeKeeps
<1>4. ASSUME NEW c \in Calls, F!Abort(c) \/ F!Run(c) \/ F!CloseFile(c) PROVE FilesInv'
  <2>1. PICK r : r = call[c]
    OBVIOUS
  <2>2. r \in CallRecords
    BY <2>1 DEF FilesInv, FilesTyped, CallGood
  <2>3. CASE F!Abort(c)
    <3>1. PICK s : s = [r EXCEPT !.aborted = TRUE]
      OBVIOUS
    <3>2. call' = [call EXCEPT ![c] = s] /\ UNCHANGED <<req, ans, table, tree, lost, dead>>
      BY <2>1, <2>3, <3>1 DEF F!Abort
    <3>3. /\ s \in CallRecords /\ s.queue = r.queue
          /\ s = [r EXCEPT !.aborted = s.aborted, !.queue = s.queue, !.closed = s.closed]
      BY <2>2, <3>1 DEF CallRecords
    <3> QED
      BY <2>1, <3>2, <3>3, FlagKeeps
  <2>4. CASE F!Run(c)
    <3>1. PICK s : s = [r EXCEPT !.queue = r.queue + 1]
      OBVIOUS
    <3>2. call' = [call EXCEPT ![c] = s] /\ UNCHANGED <<req, ans, table, tree, lost, dead>> /\ r.at = "file"
      BY <2>1, <2>4, <3>1 DEF F!Run
    <3>3. r.queue \in Nat /\ r.queue + 1 \in Nat /\ r.queue + 1 > 0
      BY <2>2 DEF CallRecords
    <3>4. /\ s \in CallRecords /\ s.queue > 0 /\ s.at = r.at
          /\ s = [r EXCEPT !.aborted = s.aborted, !.queue = s.queue, !.closed = s.closed]
      BY <2>2, <3>1, <3>3 DEF CallRecords
    <3> QED
      BY <2>1, <3>2, <3>4, FlagKeeps
  <2>5. CASE F!CloseFile(c)
    <3>1. PICK s : s = [r EXCEPT !.closed = TRUE]
      OBVIOUS
    <3>2. call' = [call EXCEPT ![c] = s] /\ UNCHANGED <<req, ans, table, tree, lost, dead>>
      BY <2>1, <2>5, <3>1 DEF F!CloseFile
    <3>3. /\ s \in CallRecords /\ s.queue = r.queue
          /\ s = [r EXCEPT !.aborted = s.aborted, !.queue = s.queue, !.closed = s.closed]
      BY <2>2, <3>1 DEF CallRecords
    <3> QED
      BY <2>1, <3>2, <3>3, FlagKeeps
  <2> QED
    BY <1>4, <2>3, <2>4, <2>5
<1>5. ASSUME NEW c \in Calls, F!SourceEnds(c) PROVE FilesInv'
  <2>1. ans[c] = F!NoAnswer /\ CallGood(call[c], req[c], tree)
    BY <1>5, RestingUnanswered DEF F!SourceEnds
  <2> QED
    BY <1>5, <2>1, SourceEndsGood, GoKeeps DEF F!SourceEnds
<1>6. ASSUME NEW c \in Calls, F!SourceFails(c) PROVE FilesInv'
  <2>1. ans[c] = F!NoAnswer /\ CallGood(call[c], req[c], tree)
    BY <1>6, RestingUnanswered DEF F!SourceFails
  <2>2. PICK e \in {"abort", "exception"} : e = IF call[c].aborted THEN "abort" ELSE "exception"
    OBVIOUS
  <2>3. NextGood(F!Leave(call[c], e), tree, call[c].fds, call[c].open)
    BY <1>6, <2>1, SourceFailsGood DEF F!SourceFails
  <2> QED
    BY <1>6, <2>1, <2>2, <2>3, GoKeeps DEF F!SourceFails
<1>7. ASSUME NEW c \in Calls, NEW n \in 1 .. Total, F!SourceGives(c, n) PROVE FilesInv'
  <2>1. ans[c] = F!NoAnswer /\ CallGood(call[c], req[c], tree)
    BY <1>7, RestingUnanswered DEF F!SourceGives
  <2>2. n \in Nat
    BY FilesAssumption
  <2>3. PICK next : next = F!Writing([call[c] EXCEPT !.left = call[c].left - n, !.hand = n])
    OBVIOUS
  <2>4. NextGood(next, tree, call[c].fds, call[c].open)
    BY <1>7, <2>1, <2>2, <2>3, SourceGivesGood DEF F!SourceGives
  <2>5. F!Go(c, next) /\ UNCHANGED <<ans, table, tree, lost, dead>>
    BY <1>7, <2>3 DEF F!SourceGives
  <2> QED
    BY <2>1, <2>4, <2>5, GoKeeps
<1>8. ASSUME NEW c \in Calls, NEW more \in BOOLEAN, F!Yielded(c, more) PROVE FilesInv'
  <2>1. ans[c] = F!NoAnswer /\ CallGood(call[c], req[c], tree)
    BY <1>8, RestingUnanswered DEF F!Yielded
  <2>2. PICK next : next = IF more THEN F!Reading(call[c]) ELSE F!Leave(call[c], "none")
    OBVIOUS
  <2>3. NextGood(next, tree, call[c].fds, call[c].open)
    BY <1>8, <2>1, <2>2, YieldedGood DEF F!Yielded
  <2> QED
    BY <1>8, <2>1, <2>2, <2>3, GoKeeps DEF F!Yielded
<1>9. ASSUME NEW c \in Calls, F!Operate(c) PROVE FilesInv'
  BY <1>9, OperateKeeps
<1>10. ASSUME NEW c \in Calls, F!CloseRuns(c) PROVE FilesInv'
  <2>1. ans[c] = F!NoAnswer /\ CallGood(call[c], req[c], tree)
    BY <1>10, RestingUnanswered DEF F!CloseRuns
  <2> QED
    BY <1>10, <2>1, CloseRunsGood, GoKeeps DEF F!CloseRuns, F!TailSettled
<1>11. ASSUME NEW c \in Calls, F!Execute(c) PROVE FilesInv'
  BY <1>11, ExecuteKeeps
<1>12. ASSUME NEW c \in Calls, F!Fail(c) PROVE FilesInv'
  BY <1>12, FailKeeps
<1>13. CASE UNCHANGED fileVars
  BY <1>13 DEF fileVars, FilesInv, FilesTyped, TableOwned, Held, JustOpened, JustClosed
<1> QED
  BY <1>1, <1>2, <1>3, <1>4, <1>5, <1>6, <1>7, <1>8, <1>9, <1>10, <1>11, <1>12, <1>13 DEF F!Next

(* The files of the guest client keep their invariant in every behaviour.  *)
LEMMA FilesInvHolds == ServicesSpec => []FilesInv
<1>1. ServicesInit => FilesInv
  BY FilesInvInit DEF ServicesInit
<1>2. FilesInv /\ [ServicesNext]_servicesVars => FilesInv'
  BY FilesInvStep DEF ServicesNext, servicesVars
<1> QED
  BY <1>1, <1>2, PTL DEF ServicesSpec, servicesVars

(* What a call asks of a file of its own.                                  *)
LEMMA OwnInScope ==
  ASSUME FilesInv, NEW c \in Calls, F!Pending(c), req[c].own > 0
  PROVE  Held(c, req[c].own) /\ req[c].own \in Nat /\ req[c].fd = call[c].fds[req[c].own]
<1>1. PICK r : r = call[c]
  OBVIOUS
<1>2. PICK q : q = req[c]
  OBVIOUS
<1>3. r \in CallRecords /\ InScope(r) /\ Asks(r, q) /\ KindFits(r) /\ q # F!NoRequest
  BY <1>1, <1>2 DEF FilesInv, FilesTyped, CallGood, F!Pending, F!Free
<1>4. r.open \in Nat
  BY <1>3 DEF CallRecords
<1>5. PICK i : q.own = i /\ q.fd = (IF i = 0 THEN 0 ELSE r.fds[i]) /\
               (i = Own(r) \/ (i = 1 /\ r.at = "file"))
  BY <1>3 DEF Asks, F!Request
<1>6. i \in 1 .. r.open
  <2>1. CASE r.at = "close"
    <3>1. i = r.open
      BY <1>5, <2>1 DEF Own
    <3> QED
      BY <1>2, <1>4, <1>5, <3>1
  <2>2. CASE r.at \in OnOne
    <3>1. r.open = IF r.kind = "copyFile" THEN 2 ELSE 1
      BY <1>3, <2>2 DEF InScope
    <3>2. i \in {0, 1} \/ (i = 2 /\ r.kind = "copyFile")
      BY <1>5, <2>2 DEF Own, OnOne
    <3>3. i # 0
      BY <1>2, <1>5
    <3> QED
      BY <3>1, <3>2, <3>3
  <2>3. CASE r.at \notin OnOne \cup {"close"}
    <3>1. i = 0
      BY <1>5, <2>3 DEF Own, OnOne
    <3> QED
      BY <1>2, <1>5, <3>1
  <2> QED
    BY <2>1, <2>2, <2>3
<1>7. i \in Nat /\ i # 0
  BY <1>4, <1>6
<1>8. ~JustClosed(c)
  BY DEF JustClosed, F!Pending, F!NoAnswer
<1> QED
  BY <1>1, <1>2, <1>5, <1>6, <1>7, <1>8 DEF Held

(* The guest client and its files (client.ts, file.ts, syscalls.ts) never  *)
(* send the number of a file that another call was given since, and a call *)
(* that has ended has no file open in the agent but one whose close found  *)
(* no lane: for any number of calls side by side, of any kind.             *)
THEOREM CallsOwnTheirFiles == ServicesSpec => []FilesOwned
<1>1. FilesInv => FilesOwned
  <2> SUFFICES ASSUME FilesInv PROVE FilesOwned
    OBVIOUS
  <2>1. ASSUME NEW c \in Calls, F!Pending(c), req[c].own > 0, ~dead
        PROVE  table[req[c].fd] = <<c, req[c].own>>
    <3>1. Held(c, req[c].own) /\ req[c].own \in Nat /\ req[c].fd = call[c].fds[req[c].own]
      BY <2>1, OwnInScope
    <3>2. PICK i \in Nat : i = req[c].own
      BY <3>1
    <3>3. table[call[c].fds[i]] = <<c, i>>
      BY <2>1, <3>1, <3>2 DEF FilesInv, TableOwned
    <3> QED
      BY <3>1, <3>2, <3>3
  <2>2. ASSUME NEW fd \in Fds, table[fd] # F!None
        PROVE  ~F!Ended(table[fd][1]) \/ table[fd] \in lost
    <3>1. PICK c \in Calls : \E i \in Nat :
               /\ table[fd] = <<c, i>>
               /\ \/ <<c, i>> \in lost
                  \/ Held(c, i) /\ call[c].fds[i] = fd
                  \/ i = call[c].open + 1 /\ JustOpened(c) /\ ans[c].n = fd
      BY <2>2 DEF FilesInv, TableOwned
    <3>2. PICK i \in Nat :
               /\ table[fd] = <<c, i>>
               /\ \/ <<c, i>> \in lost
                  \/ Held(c, i) /\ call[c].fds[i] = fd
                  \/ i = call[c].open + 1 /\ JustOpened(c) /\ ans[c].n = fd
      BY <3>1
    <3>3. CallGood(call[c], req[c], tree)
      BY DEF FilesInv, FilesTyped
    <3>4. F!Ended(c) => ~Held(c, i)
      BY <3>3 DEF F!Ended, CallGood, InScope, Finished, Held
    <3>5. F!Ended(c) => ~JustOpened(c)
      BY <3>3 DEF F!Ended, CallGood, Asks, Finished, JustOpened, F!NoRequest
    <3>6. table[fd][1] = c
      BY <3>2
    <3> QED
      BY <3>2, <3>4, <3>5, <3>6
  <2> QED
    BY <2>1, <2>2 DEF FilesOwned, F!FilesOwned
<1> QED
  BY <1>1, FilesInvHolds, PTL

(* A readFile that resolves has read, and a writeFile or copyFile has      *)
(* written, everything: through short writes, aborts and errors in the     *)
(* middle, for files of any length.                                        *)
THEOREM DataIsWhole == ServicesSpec => []WholeOrFailed
<1>1. FilesInv => WholeOrFailed
  BY DEF FilesInv, FilesTyped, CallGood, Leaves, InScope, Complete, Finished, Moving,
         WholeOrFailed, F!WholeOrFailed
<1> QED
  BY <1>1, FilesInvHolds, PTL

(* Recursive mkdirs of one path that meet on the way (mkdir of client.ts)  *)
(* fail with an error of the guest only when a component is a file, and    *)
(* leave the whole path behind when they succeed, for paths of any depth.  *)
THEOREM MkdirsSucceed == ServicesSpec => []MkdirsMeet
<1>1. FilesInv => MkdirsMeet
  BY DEF FilesInv, FilesTyped, CallGood, PathMade, Leaves, InScope, Complete, Finished,
         MkdirsMeet, F!MkdirsMeet
<1> QED
  BY <1>1, FilesInvHolds, PTL

-----------------------------------------------------------------------------
(***************************************************************************)
(* A host's HTTP request that a server in the guest answers.               *)
(***************************************************************************)
Running == {"size", "data", "boundary", "trailers"}
Over == {"closed", "errored", "cancelled", "null"}

(* Which fields the records of the exchange have.                          *)
FetchShaped ==
  /\ handler = [at |-> handler.at, responded |-> handler.responded, alive |-> handler.alive]
  /\ body = [at |-> body.at, remaining |-> body.remaining, got |-> body.got]
  /\ upload = [at |-> upload.at, declared |-> upload.declared, left |-> upload.left,
               written |-> upload.written, cancelled |-> upload.cancelled]
  /\ handler.responded \in BOOLEAN /\ upload.cancelled \in BOOLEAN

(* The invariant: FetchReleases speaks of exchanges that are over; this    *)
(* adds that the connection goes already where the handler throws, that a  *)
(* body exists just where the server has answered, and that the upload is  *)
(* cancelled also while one of its writes is under way.                    *)
FetchInv ==
  /\ FetchShaped
  /\ handler.at \in {"head", "catch", "rejected", "responded"}
  /\ handler.responded <=> handler.at = "responded"
  /\ body.at \in {"none"} \cup Running \cup Over
  /\ body.at # "none" <=> handler.at = "responded"
  /\ handler.at \in {"catch", "rejected"} => connection = "closed"
  /\ handler.at = "rejected" => H!SentOrFailed
  /\ body.at \in Over => connection = "closed"
  /\ handler.responded /\ H!HasReader => upload.cancelled

(* An exchange begins with nothing answered and the upload not begun.      *)
LEMMA FetchInvInit == H!Init => FetchInv
  BY DEF H!Init, FetchInv, FetchShaped, Running, Over, H!SentOrFailed, H!HasReader

(* Whatever the upload does while its request is being sent: a failure     *)
(* closes the connection only before the answer, and it is never reopened. *)
LEMMA UploadKeeps ==
  ASSUME FetchInv, ~H!SentOrFailed, UNCHANGED <<handler, body>>,
         upload' = [upload EXCEPT !.at = upload'.at, !.left = upload'.left,
                                  !.written = upload'.written, !.cancelled = upload'.cancelled],
         upload'.cancelled \in BOOLEAN,
         connection' \in {connection, "closed"},
         handler.responded /\ upload'.at \in {"read", "write"} => upload'.cancelled
  PROVE  FetchInv'
<1>1. FetchShaped'
  BY DEF FetchInv, FetchShaped
<1>2. handler.at # "rejected"
  BY DEF FetchInv
<1>3. (handler.responded /\ H!HasReader => upload.cancelled)'
  BY DEF H!HasReader
<1> QED
  BY <1>1, <1>2, <1>3 DEF FetchInv, Over

LEMMA SendFailsKeeps ==
  ASSUME FetchInv, ~H!SentOrFailed, H!SendFails, UNCHANGED <<handler, body>>
  PROVE  FetchInv'
<1>1. /\ upload' = [upload EXCEPT !.at = "failed"]
      /\ connection' \in {connection, "closed"}
  BY DEF H!SendFails
<1>2. /\ upload' = [upload EXCEPT !.at = upload'.at, !.left = upload'.left,
                                  !.written = upload'.written, !.cancelled = upload'.cancelled]
      /\ upload'.at = "failed" /\ upload'.cancelled \in BOOLEAN
  BY <1>1 DEF FetchInv, FetchShaped
<1> QED
  BY <1>1, <1>2, UploadKeeps

LEMMA AllWrittenKeeps ==
  ASSUME FetchInv, ~H!SentOrFailed, H!AllWritten, UNCHANGED <<handler, body>>
  PROVE  FetchInv'
<1>1. CASE H!SendFails
  BY <1>1, SendFailsKeeps
<1>2. CASE upload' = [upload EXCEPT !.at = "close"] /\ UNCHANGED connection
  <2>1. /\ upload' = [upload EXCEPT !.at = upload'.at, !.left = upload'.left,
                                    !.written = upload'.written, !.cancelled = upload'.cancelled]
        /\ upload'.at = "close" /\ upload'.cancelled \in BOOLEAN
    BY <1>2 DEF FetchInv, FetchShaped
  <2> QED
    BY <1>2, <2>1, UploadKeeps
<1> QED
  BY <1>1, <1>2 DEF H!AllWritten

(* A step of send_request.                                                 *)
LEMMA SendRequestKeeps ==
  ASSUME FetchInv,
         \/ H!HeadWritten \/ H!SourceEnds \/ H!SourceFails \/ H!Written \/ H!WriteFails
         \/ \E n \in 1 .. Upload : H!SourceGives(n)
  PROVE  FetchInv'
<1>1. CASE H!HeadWritten
  <2>1. CASE H!AllWritten
    BY <1>1, <2>1, AllWrittenKeeps DEF H!HeadWritten, H!SentOrFailed
  <2>2. CASE H!set_reader /\ UNCHANGED connection
    <3>1. /\ upload' = [upload EXCEPT !.at = upload'.at, !.left = upload'.left,
                                      !.written = upload'.written, !.cancelled = upload'.cancelled]
          /\ upload'.cancelled = handler.responded
      BY <2>2 DEF H!set_reader, FetchInv, FetchShaped
    <3> QED
      BY <1>1, <2>2, <3>1, UploadKeeps DEF H!HeadWritten, H!SentOrFailed, FetchInv, FetchShaped
  <2> QED
    BY <1>1, <2>1, <2>2 DEF H!HeadWritten
<1>2. CASE H!SourceEnds
  BY <1>2, AllWrittenKeeps DEF H!SourceEnds, H!SentOrFailed
<1>3. CASE H!SourceFails \/ H!WriteFails
  BY <1>3, SendFailsKeeps DEF H!SourceFails, H!WriteFails, H!SentOrFailed
<1>4. CASE H!Written
  <2>1. /\ upload' = [upload EXCEPT !.at = upload'.at, !.left = upload'.left,
                                    !.written = upload'.written, !.cancelled = upload'.cancelled]
        /\ upload'.cancelled = upload.cancelled
        /\ upload'.at = IF upload.at = "write" THEN "read" ELSE "done"
    BY <1>4 DEF H!Written, FetchInv, FetchShaped
  <2>2. handler.responded /\ upload'.at \in {"read", "write"} => upload'.cancelled
    BY <1>4, <2>1 DEF H!Written, FetchInv, H!HasReader
  <2> QED
    BY <1>4, <2>1, <2>2, UploadKeeps DEF H!Written, H!SentOrFailed, FetchInv, FetchShaped
<1>5. ASSUME NEW n \in 1 .. Upload, H!SourceGives(n) PROVE FetchInv'
  <2>1. CASE H!SendFails
    BY <1>5, <2>1, SendFailsKeeps DEF H!SourceGives, H!SentOrFailed
  <2>2. CASE upload' = [upload EXCEPT !.at = "write", !.left = @ - n, !.written = @ + n]
             /\ UNCHANGED connection
    <3>1. /\ upload' = [upload EXCEPT !.at = upload'.at, !.left = upload'.left,
                                      !.written = upload'.written, !.cancelled = upload'.cancelled]
          /\ upload'.cancelled = upload.cancelled
      BY <2>2 DEF FetchInv, FetchShaped
    <3>2. upload.at = "read" /\ ~upload.cancelled /\ UNCHANGED <<handler, body>>
      BY <1>5 DEF H!SourceGives
    <3>3. ~handler.responded
      BY <3>2 DEF FetchInv, H!HasReader
    <3> QED
      BY <2>2, <3>1, <3>2, <3>3, UploadKeeps DEF H!SentOrFailed, FetchInv, FetchShaped
  <2> QED
    BY <1>5, <2>1, <2>2 DEF H!SourceGives
<1> QED
  BY <1>1, <1>2, <1>3, <1>4, <1>5

(* The catch block of the handler closes the connection.                   *)
LEMMA ThrowsKeeps ==
  ASSUME FetchInv, handler.at = "head", H!Throws
  PROVE  FetchInv'
<1>1. /\ handler' = [handler EXCEPT !.at = "catch"] /\ connection' = "closed"
      /\ upload' = [upload EXCEPT !.cancelled = upload.cancelled \/ H!HasReader] /\ body' = body
  BY DEF H!Throws, H!CancelReader
<1>2. (upload.cancelled \/ H!HasReader) \in BOOLEAN
  OBVIOUS
<1>3. FetchShaped' /\ handler'.at = "catch" /\ handler'.responded = handler.responded
  BY <1>1, <1>2 DEF FetchInv, FetchShaped
<1> QED
  BY <1>1, <1>3 DEF FetchInv

(* The server has answered: a reader that is set is cancelled.             *)
LEMMA RespondsKeeps ==
  ASSUME FetchInv, handler.at = "head", NEW status, H!Responds(status)
  PROVE  FetchInv'
<1>1. /\ handler' = [at |-> "responded", responded |-> TRUE, alive |-> connection = "open"]
      /\ upload' = [upload EXCEPT !.cancelled = upload.cancelled \/ H!HasReader]
  BY DEF H!Responds, H!CancelReader
<1>2. (upload.cancelled \/ H!HasReader) \in BOOLEAN
  OBVIOUS
<1>3. upload'.at = upload.at /\ upload'.cancelled = (upload.cancelled \/ H!HasReader)
  BY <1>1 DEF FetchInv, FetchShaped
<1>4. /\ body' = [at |-> body'.at, remaining |-> body'.remaining, got |-> body'.got]
      /\ body'.at \in Running \cup Over
      /\ body'.at \in Over => connection' = "closed"
  BY DEF H!Responds, H!FirstStage, FetchInv, FetchShaped, Running, Over
<1>5. FetchShaped'
  BY <1>1, <1>2, <1>4 DEF FetchInv, FetchShaped
<1>6. handler'.at = "responded" /\ handler'.responded
  BY <1>1
<1>7. (handler.responded /\ H!HasReader => upload.cancelled)'
  BY <1>3 DEF H!HasReader
<1>8. body'.at # "none"
  BY <1>4 DEF Running, Over
<1> QED
  BY <1>4, <1>5, <1>6, <1>7, <1>8 DEF FetchInv

(* A step of the response's body: it goes on, or closes the connection.    *)
LEMMA BodyKeeps ==
  ASSUME FetchInv, body.at \in Running, UNCHANGED <<handler, upload>>,
         body' = [at |-> body'.at, remaining |-> body'.remaining, got |-> body'.got],
         body'.at \in Running \cup Over,
         body'.at \in Over => connection' = "closed"
  PROVE  FetchInv'
<1>1. FetchShaped'
  BY DEF FetchInv, FetchShaped
<1>2. body'.at # "none" /\ body.at # "none"
  BY DEF Running, Over
<1>3. handler.at = "responded"
  BY <1>2 DEF FetchInv
<1> QED
  BY <1>1, <1>2, <1>3 DEF FetchInv, H!SentOrFailed, H!HasReader

LEMMA ClosesKeeps ==
  ASSUME FetchInv, body.at \in Running, NEW over \in Over, H!Closes(over),
         UNCHANGED <<handler, upload>>
  PROVE  FetchInv'
<1>1. /\ body' = [at |-> body'.at, remaining |-> body'.remaining, got |-> body'.got]
      /\ body'.at = over /\ connection' = "closed"
  BY DEF H!Closes, FetchInv, FetchShaped
<1> QED
  BY <1>1, BodyKeeps

LEMMA BecomesKeeps ==
  ASSUME FetchInv, body.at \in Running, NEW stage \in Running, NEW n, H!Becomes(stage, n),
         UNCHANGED <<handler, upload>>
  PROVE  FetchInv'
<1>1. /\ body' = [at |-> body'.at, remaining |-> body'.remaining, got |-> body'.got]
      /\ body'.at = stage
  BY DEF H!Becomes, FetchInv, FetchShaped
<1>2. stage \notin Over
  BY DEF Running, Over
<1> QED
  BY <1>1, <1>2, BodyKeeps

(* Each step of the handler, of its upload and of the body it returned     *)
(* keeps the invariant.                                                    *)
LEMMA FetchInvStep == FetchInv /\ (H!Next \/ UNCHANGED guestFetchVars) => FetchInv'
<1> SUFFICES ASSUME FetchInv, H!Next \/ UNCHANGED guestFetchVars PROVE FetchInv'
  OBVIOUS
<1>1. ASSUME UNCHANGED <<handler, body, upload, connection>> PROVE FetchInv'
  BY <1>1 DEF FetchInv, FetchShaped, H!SentOrFailed, H!HasReader
<1>2. ASSUME NEW n \in 1 .. Len(response.units), H!Fill(n) PROVE FetchInv'
  BY <1>1, <1>2 DEF H!Fill
<1>3. CASE \/ H!HeadWritten \/ H!SourceEnds \/ H!SourceFails \/ H!Written \/ H!WriteFails
           \/ \E n \in 1 .. Upload : H!SourceGives(n)
  BY <1>3, SendRequestKeeps
<1>4. CASE H!ReadEnds
  <2>1. CASE handler.at = "head"
    BY <1>4, <2>1, ThrowsKeeps DEF H!ReadEnds
  <2>2. CASE handler.at # "head"
    <3>1. body.at \in Running
      BY <1>4, <2>2 DEF H!ReadEnds, H!Starved, H!WantsLine, H!WantsBytes, Running
    <3>2. PICK over \in {"closed", "errored"} : H!Closes(over)
      BY <1>4, <2>2 DEF H!ReadEnds
    <3> QED
      BY <1>4, <2>2, <3>1, <3>2, ClosesKeeps DEF H!ReadEnds, Over
  <2> QED
    BY <2>1, <2>2
<1>5. CASE H!ParseHead
  <2>1. handler.at = "head"
    BY <1>5 DEF H!ParseHead
  <2>2. CASE H!Throws
    BY <2>1, <2>2, ThrowsKeeps
  <2>3. CASE H!Responds(H!Line[1].n)
    BY <2>1, <2>3, RespondsKeeps
  <2> QED
    BY <1>1, <1>5, <2>2, <2>3 DEF H!ParseHead
<1>6. CASE H!Caught
  <2>1. /\ handler' = [handler EXCEPT !.at = "rejected"] /\ handler.at = "catch"
        /\ UNCHANGED <<body, upload, connection>> /\ H!SentOrFailed
    BY <1>6 DEF H!Caught
  <2>2. FetchShaped' /\ handler'.at = "rejected" /\ handler'.responded = handler.responded
    BY <2>1 DEF FetchInv, FetchShaped
  <2> QED
    BY <2>1, <2>2 DEF FetchInv, H!SentOrFailed, H!HasReader
<1>7. CASE H!ChunkLine
  <2>1. body.at \in {"boundary", "size", "trailers"} /\ UNCHANGED <<handler, upload>>
    BY <1>7 DEF H!ChunkLine
  <2>2. \/ \E over \in {"closed", "errored"} : H!Closes(over)
        \/ \E stage \in {"size", "data", "trailers"}, n \in {0, H!Line[1].n} : H!Becomes(stage, n)
    BY <1>7, <2>1 DEF H!ChunkLine
  <2> QED
    BY <2>1, <2>2, ClosesKeeps, BecomesKeeps DEF Running, Over
<1>8. CASE H!Data
  <2>1. body.at = "data" /\ UNCHANGED <<handler, upload>>
    BY <1>8 DEF H!Data, H!WantsBytes
  <2>2. /\ body' = [at |-> body'.at, remaining |-> body'.remaining, got |-> body'.got]
        /\ body'.at \in {"data", "boundary", "closed"}
        /\ body'.at = "closed" => connection' = "closed"
    BY <1>8, <2>1 DEF H!Data, FetchInv, FetchShaped
  <2> QED
    BY <2>1, <2>2, BodyKeeps DEF Running, Over
<1>9. CASE H!Cancel
  BY <1>9, ClosesKeeps DEF H!Cancel, Running, Over
<1>10. CASE UNCHANGED guestFetchVars
  BY <1>1, <1>10 DEF guestFetchVars
<1> QED
  BY <1>2, <1>3, <1>4, <1>5, <1>6, <1>7, <1>8, <1>9, <1>10 DEF H!Next

(* guestFetchHandler of guest-fetch-handler.ts holds nothing for longer    *)
(* than the exchange: its connection is closed and its upload ended where  *)
(* it has rejected, the connection is closed where the response's body is  *)
(* over, and the request's body is not read after the server has answered, *)
(* in whichever order the answer and the upload's first read come.         *)
THEOREM FetchLetsGo == ServicesSpec => []FetchReleases
<1>1. ServicesInit => FetchInv
  BY FetchInvInit DEF ServicesInit
<1>2. FetchInv /\ [ServicesNext]_servicesVars => FetchInv'
  BY FetchInvStep DEF ServicesNext, servicesVars
<1>3. FetchInv => FetchReleases
  BY DEF FetchInv, FetchReleases, H!FetchReleases, H!HasReader, Over
<1> QED
  BY <1>1, <1>2, <1>3, PTL DEF ServicesSpec, servicesVars

-----------------------------------------------------------------------------
(***************************************************************************)
(* What the consumer of the response gets.                                 *)
(***************************************************************************)
Kind == {"eol", "bad", "status", "size", "trailer", "byte"}
Units == [kind: Kind, n: Nat]
Byte(i) == H!Unit("byte", i)
Chunks == [start: Nat, from: Nat, size: Nat]

(* A chunk of `size' bytes on the wire w, the first of them behind byte    *)
(* number `from', and what follows it.                                     *)
ChunkOn(w, c) ==
  /\ c.start + c.size + 3 <= Len(w.units)
  /\ w.units[c.start + 1] = H!Size(c.size) /\ w.units[c.start + 2] = H!Eol
  /\ \A i \in 1 .. c.size : w.units[c.start + 2 + i] = Byte(c.from + i)
  /\ w.units[c.start + c.size + 3] = H!Eol
  /\ c.from + c.size <= Body /\ (c.size = 0 => c.from = Body)
  /\ \/ c.start + c.size + 3 = w.last /\ c.from + c.size = Body
     \/ \E d \in w.chunks : d.start = c.start + c.size + 3 /\ d.from = c.from + c.size

LastOn(w) ==
  /\ Len(w.units) = w.last + 5
  /\ w.units[w.last + 1] = H!Size(0) /\ w.units[w.last + 2] = H!Eol
  /\ w.units[w.last + 3] = H!Unit("trailer", 0)
  /\ w.units[w.last + 4] = H!Eol /\ w.units[w.last + 5] = H!Eol

(* The response w as the server means it: its units, the length of its     *)
(* head, its chunks and where the last one begins.                         *)
Meant(w, framing) ==
  /\ w.units \in Seq(Units) /\ w.head \in {2, 4} /\ w.chunks \subseteq Chunks /\ w.last \in Nat
  /\ w.head <= Len(w.units)
  /\ w.units[1] \in {H!Status(200), H!Status(204)} => w.head = 2
  /\ w.units[1] = H!Status(100) => w.head = 4
  /\ w.head = 4 => w.units[3] # H!Status(100)
  /\ framing # "chunked" =>
       /\ Len(w.units) = w.head + Body
       /\ \A i \in 1 .. Body : w.units[w.head + i] = Byte(i)
       /\ \A i \in 1 .. w.head : w.units[i].kind # "byte"
  /\ framing = "chunked" =>
       /\ LastOn(w) /\ \A c \in w.chunks : ChunkOn(w, c)
       /\ \E c \in w.chunks : c.start = w.head /\ c.from = 0

(* What the server sends of it.                                            *)
SentOf(w) ==
  /\ response.units \in Seq(Units) /\ Len(response.units) <= Len(w.units)
  /\ response.framing \in {"chunked", "fixed", "eof"} /\ response.end \in {"fin", "reset"}
  /\ \A i \in 1 .. Len(response.units) :
       \/ response.units[i] = w.units[i]
       \/ response.units[i] = H!Bad /\ w.units[i].kind # "byte"
  /\ response.whole => response.units = w.units

(* The units that were parsed: those that arrived and are not buffered.    *)
Parsed == arrived - Len(buffer)

BufferGood ==
  /\ buffer \in Seq(Units) /\ arrived \in 0 .. Len(response.units) /\ Len(buffer) <= arrived
  /\ \A i \in 1 .. Len(buffer) : buffer[i] = response.units[Parsed + i]

Count == Len(body.got)

(* How far the parser is on the wire, by the stage it is in.               *)
HeadParsed(w) == handler.at = "head" => Parsed = 0 \/ (Parsed = 2 /\ w.head = 4)

LengthParsed(w) ==
  response.framing # "chunked" /\ body.at \in Running =>
    /\ body.at = "data" /\ Parsed = w.head + Count
    /\ response.framing = "fixed" => Count < Body /\ body.remaining = Body - Count
    /\ response.framing = "eof" => body.remaining = H!Unlimited

SizeParsed(w) ==
  response.framing = "chunked" /\ body.at = "size" =>
    \/ \E c \in w.chunks : c.start = Parsed /\ c.from = Count
    \/ Parsed = w.last /\ Count = Body

DataParsed(w) ==
  response.framing = "chunked" /\ body.at = "data" =>
    \E c \in w.chunks : /\ Count \in c.from .. c.from + c.size - 1
                        /\ Parsed = c.start + 2 + (Count - c.from)
                        /\ body.remaining = c.from + c.size - Count

BoundaryParsed(w) ==
  response.framing = "chunked" /\ body.at = "boundary" =>
    \E c \in w.chunks : Parsed = c.start + 2 + c.size /\ Count = c.from + c.size

TrailersParsed(w) ==
  response.framing = "chunked" /\ body.at = "trailers" =>
    /\ Count = Body
    /\ response.whole => \/ Parsed \in {w.last + 2, w.last + 4}
                         \/ \E c \in w.chunks : c.size = 0 /\ Parsed = c.start + 2

Place(w) ==
  LengthParsed(w) /\ SizeParsed(w) /\ DataParsed(w) /\ BoundaryParsed(w) /\ TrailersParsed(w)

(* What the consumer has, and how its body has ended.                      *)
GotInOrder == body.got \in Seq(Units) /\ \A i \in 1 .. Count : body.got[i] = Byte(i)

EndsWell(w) ==
  /\ body.at = "none" => Count = 0
  /\ body.at = "closed" =>
       IF response.framing = "eof" THEN Count = Len(response.units) - w.head /\ w.head <= Len(response.units)
       ELSE Count = Body
  /\ body.at = "errored" /\ handler.alive =>
       ~response.whole \/ (response.framing = "eof" /\ response.end = "reset")
  /\ body.at \in Running /\ handler.alive => connection = "open"

WireInv(w) ==
  /\ Meant(w, response.framing) /\ SentOf(w) /\ BufferGood /\ HeadParsed(w)
  /\ Place(w) /\ GotInOrder /\ EndsWell(w)

(* Where the elements of a concatenation and of a slice come from.         *)
Joins(c, a, b) ==
  /\ c \in Seq(Units) /\ Len(c) = Len(a) + Len(b)
  /\ \A i \in 1 .. Len(a) : c[i] = a[i]
  /\ \A i \in 1 .. Len(b) : c[Len(a) + i] = b[i]

LEMMA Joined ==
  ASSUME NEW a \in Seq(Units), NEW b \in Seq(Units)
  PROVE  Joins(a \o b, a, b)
<1>1. PICK c : c = a \o b
  OBVIOUS
<1>2. /\ c \in Seq(Units) /\ Len(c) = Len(a) + Len(b)
      /\ \A i \in 1 .. Len(a) + Len(b) : c[i] = IF i <= Len(a) THEN a[i] ELSE b[i - Len(a)]
  BY <1>1, ConcatProperties
<1>3. Len(a) \in Nat /\ Len(b) \in Nat
  BY LenProperties
<1>4. ASSUME NEW i \in 1 .. Len(b) PROVE c[Len(a) + i] = b[i]
  <2>1. Len(a) + i \in 1 .. Len(a) + Len(b) /\ ~(Len(a) + i <= Len(a)) /\ Len(a) + i - Len(a) = i
    BY <1>3
  <2> QED
    BY <1>2, <2>1
<1> QED
  BY <1>1, <1>2, <1>3, <1>4 DEF Joins

IsSlice(c, s, m, n) ==
  c \in Seq(Units) /\ Len(c) = n /\ \A i \in 1 .. n : c[i] = s[m + i]

LEMMA Sliced ==
  ASSUME NEW s \in Seq(Units), NEW m \in Nat, NEW n \in Nat, m + n <= Len(s)
  PROVE  IsSlice(SubSeq(s, m + 1, m + n), s, m, n)
<1>0. PICK c : c = SubSeq(s, m + 1, m + n)
  OBVIOUS
<1>1. m + 1 \in Int /\ m + n \in Int /\ \A i \in m + 1 .. m + n : i \in 1 .. Len(s)
  OBVIOUS
<1>2. \A i \in m + 1 .. m + n : s[i] \in Units
  BY <1>1, ElementOfSeq
<1>3. /\ c \in Seq(Units) /\ Len(c) = IF m + 1 <= m + n THEN m + n - (m + 1) + 1 ELSE 0
      /\ \A i \in 1 .. m + n - (m + 1) + 1 : c[i] = s[m + 1 + i - 1]
  BY <1>0, <1>1, <1>2, SubSeqProperties
<1>4. Len(c) = n /\ \A i \in 1 .. n : i \in 1 .. m + n - (m + 1) + 1 /\ m + 1 + i - 1 = m + i
  BY <1>3
<1> QED
  BY <1>0, <1>3, <1>4 DEF IsSlice

LEMMA UnitsAre ==
  /\ H!Eol \in Units /\ H!Bad \in Units /\ H!Unit("trailer", 0) \in Units
  /\ \A n \in Nat : H!Size(n) \in Units /\ H!Status(n) \in Units /\ Byte(n) \in Units
  /\ H!Eol.kind = "eol" /\ H!Bad.kind = "bad"
  /\ \A n \in Nat : H!Size(n).kind = "size" /\ H!Status(n).kind = "status" /\ Byte(n).kind = "byte"
  /\ \A n \in Nat : H!Size(n).n = n /\ H!Status(n).n = n
  BY DEF Units, Kind, H!Unit, H!Eol, H!Bad, H!Size, H!Status, Byte

LEMMA BytesAre ==
  ASSUME NEW f \in Nat, NEW n \in Nat
  PROVE  /\ H!Bytes(f, n) \in Seq(Units) /\ Len(H!Bytes(f, n)) = n
         /\ \A i \in 1 .. n : H!Bytes(f, n)[i] = Byte(f + i)
<1>1. \A i \in 1 .. n : Byte(f + i) \in Units
  BY UnitsAre
<1>2. \A i \in 1 .. n : H!Unit("byte", f + i) \in Units
  BY <1>1 DEF Byte
<1>3. [i \in 1 .. n |-> H!Unit("byte", f + i)] \in Seq(Units)
  BY <1>2, IsASeq
<1>4. Len([i \in 1 .. n |-> H!Unit("byte", f + i)]) = n
  BY <1>3
<1> QED
  BY <1>3, <1>4 DEF H!Bytes, Byte

(* A chunk is a size, a line's end, the bytes, and a line's end.           *)
IsChunk(c, f, n) ==
  /\ c \in Seq(Units) /\ Len(c) = n + 3
  /\ c[1] = H!Size(n) /\ c[2] = H!Eol /\ c[n + 3] = H!Eol
  /\ \A i \in 1 .. n : c[2 + i] = Byte(f + i)

LEMMA ChunkUnits ==
  ASSUME NEW f \in Nat, NEW n \in Nat
  PROVE  IsChunk(H!Chunk(f, n), f, n)
<1>0. PICK c : c = H!Chunk(f, n)
  OBVIOUS
<1>1. PICK b : b = H!Bytes(f, n)
  OBVIOUS
<1>2. b \in Seq(Units) /\ Len(b) = n /\ \A i \in 1 .. n : b[i] = Byte(f + i)
  BY <1>1, BytesAre
<1>3. PICK p : p = <<H!Size(n), H!Eol>>
  OBVIOUS
<1>4. p \in Seq(Units) /\ Len(p) = 2 /\ p[1] = H!Size(n) /\ p[2] = H!Eol
  BY <1>3, UnitsAre
<1>5. PICK e : e = <<H!Eol>>
  OBVIOUS
<1>6. e \in Seq(Units) /\ Len(e) = 1 /\ e[1] = H!Eol
  BY <1>5, UnitsAre
<1>7. PICK q : q = p \o b
  OBVIOUS
<1>8. Joins(q, p, b)
  BY <1>2, <1>4, <1>7, Joined, Zenon
<1>9. /\ q \in Seq(Units) /\ Len(q) = 2 + n
      /\ \A i \in 1 .. 2 : q[i] = p[i]
      /\ \A i \in 1 .. n : q[2 + i] = b[i]
  BY <1>2, <1>4, <1>8 DEF Joins
<1>10. Joins(c, q, e)
  <2>1. c = q \o e
    BY <1>0, <1>1, <1>3, <1>5, <1>7 DEF H!Chunk
  <2> QED
    BY <1>6, <1>9, <2>1, Joined, Zenon
<1>11. /\ c \in Seq(Units) /\ Len(c) = 2 + n + 1
       /\ \A i \in 1 .. 2 + n : c[i] = q[i]
       /\ \A i \in 1 .. 1 : c[2 + n + i] = e[i]
  BY <1>6, <1>9, <1>10 DEF Joins
<1>12. c[1] = H!Size(n) /\ c[2] = H!Eol
  BY <1>4, <1>9, <1>11
<1>13. 2 + n + 1 = n + 3 /\ 1 \in 1 .. 1
  OBVIOUS
<1>14. c[n + 3] = H!Eol
  BY <1>6, <1>11, <1>13
<1>15. ASSUME NEW i \in 1 .. n PROVE c[2 + i] = Byte(f + i)
  <2>1. 2 + i \in 1 .. 2 + n
    OBVIOUS
  <2> QED
    BY <1>2, <1>9, <1>11, <2>1
<1> QED
  BY <1>0, <1>11, <1>12, <1>13, <1>14, <1>15 DEF IsChunk

LEMMA LastChunkUnits ==
  ASSUME NEW t, t = H!LastChunk
  PROVE  /\ t \in Seq(Units) /\ Len(t) = 5
         /\ t[1] = H!Size(0) /\ t[2] = H!Eol /\ t[3] = H!Unit("trailer", 0)
         /\ t[4] = H!Eol /\ t[5] = H!Eol
  BY UnitsAre DEF H!LastChunk

LEMMA HeadUnits ==
  ASSUME NEW framing \in {"chunked", "fixed", "eof"}, NEW hd \in H!Heads(framing)
  PROVE  /\ hd \in Seq(Units) /\ Len(hd) \in {2, 4}
         /\ \A i \in 1 .. Len(hd) : hd[i].kind # "byte"
         /\ hd[1] \in {H!Status(200), H!Status(204)} => Len(hd) = 2
         /\ hd[1] = H!Status(100) => Len(hd) = 4
         /\ Len(hd) = 4 => hd[3] # H!Status(100)
         /\ framing = "chunked" => Len(hd) = 2
<1>1. H!Status(100) # H!Status(200) /\ H!Status(100) # H!Status(204) /\ H!Status(101) # H!Status(100)
  BY DEF H!Status, H!Unit
<1>2. CASE hd = <<H!Status(200), H!Eol>>
  BY <1>1, <1>2, UnitsAre
<1>3. CASE hd = <<H!Status(100), H!Eol, H!Status(200), H!Eol>> /\ framing = "fixed"
  <2>1. hd \in Seq(Units) /\ Len(hd) = 4 /\ hd[1] = H!Status(100) /\ hd[2] = H!Eol
        /\ hd[3] = H!Status(200) /\ hd[4] = H!Eol
    BY <1>3, UnitsAre
  <2>2. \A i \in 1 .. 4 : i = 1 \/ i = 2 \/ i = 3 \/ i = 4
    OBVIOUS
  <2> QED
    BY <1>1, <1>3, <2>1, <2>2, UnitsAre
<1>4. CASE hd = <<H!Status(101), H!Eol>> /\ framing = "fixed"
  BY <1>1, <1>4, UnitsAre
<1>5. CASE hd = <<H!Status(204), H!Eol>> /\ framing = "fixed"
  BY <1>1, <1>5, UnitsAre
<1> QED
  BY <1>2, <1>3, <1>4, <1>5 DEF H!Heads

(* A body of known or unknown length, behind its head.                     *)
LEMMA LengthMeant ==
  ASSUME NEW framing \in {"fixed", "eof"}, NEW o \in H!Whole(framing)
  PROVE  \E w : w.units = o /\ Meant(w, framing)
<1>1. PICK hd \in H!Heads(framing), e \in H!Encodings(framing) : o = hd \o e
  BY DEF H!Whole
<1>2. /\ hd \in Seq(Units) /\ Len(hd) \in {2, 4}
      /\ \A i \in 1 .. Len(hd) : hd[i].kind # "byte"
      /\ hd[1] \in {H!Status(200), H!Status(204)} => Len(hd) = 2
      /\ hd[1] = H!Status(100) => Len(hd) = 4
      /\ Len(hd) = 4 => hd[3] # H!Status(100)
  BY HeadUnits
<1>3. Body \in Nat /\ e = H!Bytes(0, Body)
  BY FetchAssumption DEF H!Encodings
<1>4. e \in Seq(Units) /\ Len(e) = Body /\ \A i \in 1 .. Body : e[i] = Byte(0 + i)
  BY <1>3, BytesAre
<1>5. \A i \in 1 .. Body : e[i] = Byte(i)
  BY <1>3, <1>4
<1>6. PICK m \in Nat : m = Len(hd)
  BY <1>2
<1>6a. Joins(o, hd, e)
  BY <1>1, <1>2, <1>4, Joined, Zenon
<1>7. /\ o \in Seq(Units) /\ Len(o) = m + Body
      /\ \A i \in 1 .. m : o[i] = hd[i]
      /\ \A i \in 1 .. Body : o[m + i] = e[i]
  BY <1>4, <1>6, <1>6a DEF Joins
<1>8. PICK w : w = [units |-> o, head |-> m, chunks |-> {}, last |-> 0]
  OBVIOUS
<1>9. w.units = o /\ w.head = m /\ w.chunks = {} /\ w.last = 0
  BY <1>8
<1>10. m \in {2, 4} /\ m <= m + Body /\ 1 \in 1 .. m /\ (m = 4 => 3 \in 1 .. m)
  BY <1>2, <1>3, <1>6
<1>11. /\ o[1] \in {H!Status(200), H!Status(204)} => m = 2
       /\ o[1] = H!Status(100) => m = 4
       /\ m = 4 => o[3] # H!Status(100)
       /\ \A i \in 1 .. m : o[i].kind # "byte"
       /\ \A i \in 1 .. Body : o[m + i] = Byte(i)
  <2>1. o[1] = hd[1] /\ (m = 4 => o[3] = hd[3])
    BY <1>7, <1>10
  <2>2. \A i \in 1 .. m : o[i].kind # "byte"
    BY <1>2, <1>6, <1>7
  <2>3. \A i \in 1 .. Body : o[m + i] = Byte(i)
    BY <1>5, <1>7
  <2> QED
    BY <1>2, <1>6, <2>1, <2>2, <2>3
<1>12. w.chunks \subseteq Chunks /\ w.last \in Nat
  BY <1>9
<1>13. Meant(w, framing)
  BY <1>7, <1>9, <1>10, <1>11, <1>12 DEF Meant
<1> QED
  BY <1>9, <1>13

(* A body in chunks: one, or two of which the second may be empty.         *)
LEMMA ChunksMeant ==
  ASSUME NEW o \in H!Whole("chunked")
  PROVE  \E w : w.units = o /\ Meant(w, "chunked")
<1>1. PICK hd \in H!Heads("chunked"), e \in H!Encodings("chunked") : o = hd \o e
  BY DEF H!Whole
<1>2. /\ hd \in Seq(Units) /\ Len(hd) = 2
      /\ hd[1] = H!Status(100) => Len(hd) = 4
  BY HeadUnits
<1>3. Body \in Nat \ {0}
  BY FetchAssumption
<1>4. PICK t : t = H!LastChunk
  OBVIOUS
<1>5. /\ t \in Seq(Units) /\ Len(t) = 5
      /\ t[1] = H!Size(0) /\ t[2] = H!Eol /\ t[3] = H!Unit("trailer", 0)
      /\ t[4] = H!Eol /\ t[5] = H!Eol
  BY <1>4, LastChunkUnits
<1>6. ASSUME e \in Seq(Units)
      PROVE  /\ o \in Seq(Units) /\ Len(o) = 2 + Len(e) /\ o[1] = hd[1]
             /\ \A i \in 1 .. Len(e) : o[2 + i] = e[i]
  <2>1. PICK n \in Nat : n = Len(e)
    BY <1>6, LenProperties
  <2>2. 2 \in Nat /\ 1 \in 1 .. 2
    OBVIOUS
  <2>3. /\ o \in Seq(Units) /\ Len(o) = 2 + n
        /\ \A i \in 1 .. 2 : o[i] = hd[i]
        /\ \A i \in 1 .. n : o[2 + i] = e[i]
    <3>1. Joins(o, hd, e)
      BY <1>1, <1>2, <1>6, Joined, Zenon
    <3> QED
      BY <1>2, <2>1, <3>1 DEF Joins
  <2> QED
    BY <2>1, <2>2, <2>3
<1>7. CASE e = H!Chunk(0, Body) \o H!LastChunk
  <2>1. PICK a : a = H!Chunk(0, Body)
    OBVIOUS
  <2>2. /\ a \in Seq(Units) /\ Len(a) = Body + 3
        /\ a[1] = H!Size(Body) /\ a[2] = H!Eol /\ a[Body + 3] = H!Eol
        /\ \A i \in 1 .. Body : a[2 + i] = Byte(0 + i)
    <3>1. Body \in Nat /\ 0 \in Nat
      BY <1>3
    <3>2. IsChunk(a, 0, Body)
      BY <2>1, <3>1, ChunkUnits
    <3> QED
      BY <3>2 DEF IsChunk
  <2>3. /\ e \in Seq(Units) /\ Len(e) = Body + 8
        /\ \A i \in 1 .. Body + 3 : e[i] = a[i]
        /\ \A i \in 1 .. 5 : e[Body + 3 + i] = t[i]
    <3>1. Body + 3 \in Nat /\ 5 \in Nat /\ Body + 3 + 5 = Body + 8 /\ e = a \o t
      BY <1>3, <1>4, <1>7, <2>1
    <3>2. /\ e \in Seq(Units) /\ Len(e) = Body + 3 + 5
          /\ \A i \in 1 .. Body + 3 : e[i] = a[i]
          /\ \A i \in 1 .. 5 : e[Body + 3 + i] = t[i]
      <4>1. Joins(e, a, t)
        BY <1>5, <2>2, <3>1, Joined, Zenon
      <4> QED
        BY <1>5, <2>2, <4>1 DEF Joins
    <3> QED
      BY <3>1, <3>2
  <2>4. /\ o \in Seq(Units) /\ Len(o) = Body + 10 /\ o[1] = hd[1]
        /\ \A i \in 1 .. Body + 8 : o[2 + i] = e[i]
    <3>1. 2 + (Body + 8) = Body + 10
      BY <1>3
    <3> QED
      BY <1>6, <2>3, <3>1
  <2>5. \A i \in 1 .. Body + 3 : o[2 + i] = a[i]
    BY <1>3, <2>3, <2>4
  <2>6. \A i \in 1 .. 5 : o[Body + 5 + i] = t[i]
    <3> SUFFICES ASSUME NEW i \in 1 .. 5 PROVE o[Body + 5 + i] = t[i]
      OBVIOUS
    <3>1. Body + 3 + i \in 1 .. Body + 8 /\ 2 + (Body + 3 + i) = Body + 5 + i
      BY <1>3
    <3> QED
      BY <2>3, <2>4, <3>1
  <2>7. PICK c : c = [start |-> 2, from |-> 0, size |-> Body]
    OBVIOUS
  <2>8. c \in Chunks /\ c.start = 2 /\ c.from = 0 /\ c.size = Body
    BY <1>3, <2>7 DEF Chunks
  <2>9. PICK w : w = [units |-> o, head |-> 2, chunks |-> {c}, last |-> Body + 5]
    OBVIOUS
  <2>10. w.units = o /\ w.head = 2 /\ w.chunks = {c} /\ w.last = Body + 5
    BY <2>9
  <2>11. LastOn(w)
    <3>1. o[w.last + 1] = t[1] /\ o[w.last + 2] = t[2] /\ o[w.last + 3] = t[3]
          /\ o[w.last + 4] = t[4] /\ o[w.last + 5] = t[5]
      BY <2>6, <2>10
    <3> QED
      BY <1>3, <1>5, <2>4, <2>10, <3>1 DEF LastOn
  <2>12. ChunkOn(w, c)
    <3>1. o[2 + 1] = a[1] /\ o[2 + 2] = a[2] /\ o[2 + (Body + 3)] = a[Body + 3]
      BY <1>3, <2>5
    <3>2. ASSUME NEW i \in 1 .. Body PROVE o[2 + 2 + i] = Byte(0 + i)
      <4>1. 2 + i \in 1 .. Body + 3 /\ 2 + (2 + i) = 2 + 2 + i
        BY <1>3
      <4> QED
        BY <2>2, <2>5, <4>1
    <3>3. 2 + Body + 3 = 2 + (Body + 3) /\ c.start + c.size + 3 = w.last /\ c.from + c.size = Body
          /\ 2 + Body + 3 <= Body + 10 /\ (Body = 0 => 0 = Body) /\ Body <= Body
      BY <1>3, <2>8, <2>10
    <3> QED
      BY <1>3, <2>2, <2>4, <2>8, <2>10, <3>1, <3>2, <3>3 DEF ChunkOn
  <2>13. Meant(w, "chunked")
    BY <1>2, <1>3, <2>4, <2>8, <2>10, <2>11, <2>12 DEF Meant
  <2> QED
    BY <2>10, <2>13
<1>8. CASE e = H!Chunk(0, 1) \o H!Chunk(1, Body - 1) \o H!LastChunk
  <2>1. PICK a, b : a = H!Chunk(0, 1) /\ b = H!Chunk(1, Body - 1)
    OBVIOUS
  <2>2. Body - 1 \in Nat /\ Body - 1 + 3 = Body + 2
    BY <1>3
  <2>3. /\ a \in Seq(Units) /\ Len(a) = 1 + 3
        /\ a[1] = H!Size(1) /\ a[2] = H!Eol /\ a[1 + 3] = H!Eol
        /\ \A i \in 1 .. 1 : a[2 + i] = Byte(0 + i)
    <3>1. IsChunk(a, 0, 1)
      BY <2>1, ChunkUnits
    <3> QED
      BY <3>1 DEF IsChunk
  <2>4. /\ b \in Seq(Units) /\ Len(b) = Body - 1 + 3
        /\ b[1] = H!Size(Body - 1) /\ b[2] = H!Eol /\ b[Body - 1 + 3] = H!Eol
        /\ \A i \in 1 .. Body - 1 : b[2 + i] = Byte(1 + i)
    <3>1. IsChunk(b, 1, Body - 1)
      BY <2>1, <2>2, ChunkUnits
    <3> QED
      BY <3>1 DEF IsChunk
  <2>5. PICK d : d = a \o b
    OBVIOUS
  <2>6. /\ d \in Seq(Units) /\ Len(d) = Body + 6
        /\ \A i \in 1 .. 4 : d[i] = a[i]
        /\ \A i \in 1 .. Body + 2 : d[4 + i] = b[i]
    <3>1. 4 \in Nat /\ Body + 2 \in Nat /\ Len(a) = 4 /\ Len(b) = Body + 2 /\ 4 + (Body + 2) = Body + 6
      BY <1>3, <2>2, <2>3, <2>4
    <3>2. /\ d \in Seq(Units) /\ Len(d) = 4 + (Body + 2)
          /\ \A i \in 1 .. 4 : d[i] = a[i]
          /\ \A i \in 1 .. Body + 2 : d[4 + i] = b[i]
      <4>1. Joins(d, a, b)
        BY <2>3, <2>4, <2>5, Joined, Zenon
      <4> QED
        BY <3>1, <4>1 DEF Joins
    <3> QED
      BY <3>1, <3>2
  <2>7. e = d \o t
    BY <1>4, <1>8, <2>1, <2>5
  <2>8. /\ e \in Seq(Units) /\ Len(e) = Body + 11
        /\ \A i \in 1 .. Body + 6 : e[i] = d[i]
        /\ \A i \in 1 .. 5 : e[Body + 6 + i] = t[i]
    <3>1. Body + 6 \in Nat /\ 5 \in Nat /\ Body + 6 + 5 = Body + 11
      BY <1>3
    <3>2. /\ e \in Seq(Units) /\ Len(e) = Body + 6 + 5
          /\ \A i \in 1 .. Body + 6 : e[i] = d[i]
          /\ \A i \in 1 .. 5 : e[Body + 6 + i] = t[i]
      <4>1. Joins(e, d, t)
        BY <1>5, <2>6, <2>7, Joined, Zenon
      <4> QED
        BY <1>5, <2>6, <4>1 DEF Joins
    <3> QED
      BY <3>1, <3>2
  <2>9. /\ o \in Seq(Units) /\ Len(o) = Body + 13 /\ o[1] = hd[1]
        /\ \A i \in 1 .. Body + 11 : o[2 + i] = e[i]
    <3>1. 2 + (Body + 11) = Body + 13
      BY <1>3
    <3> QED
      BY <1>6, <2>8, <3>1
  <2>10. \A i \in 1 .. 4 : o[2 + i] = a[i]
    <3> SUFFICES ASSUME NEW i \in 1 .. 4 PROVE o[2 + i] = a[i]
      OBVIOUS
    <3>1. i \in 1 .. Body + 6 /\ i \in 1 .. Body + 11
      BY <1>3
    <3>2. o[2 + i] = e[i]
      BY <2>9, <3>1
    <3>3. e[i] = d[i]
      BY <2>8, <3>1
    <3>4. d[i] = a[i]
      BY <2>6
    <3> QED
      BY <3>2, <3>3, <3>4
  <2>11. \A i \in 1 .. Body + 2 : o[6 + i] = b[i]
    <3> SUFFICES ASSUME NEW i \in 1 .. Body + 2 PROVE o[6 + i] = b[i]
      OBVIOUS
    <3>1. 4 + i \in 1 .. Body + 6 /\ 4 + i \in 1 .. Body + 11 /\ 2 + (4 + i) = 6 + i
      BY <1>3
    <3>2. o[2 + (4 + i)] = e[4 + i]
      BY <2>9, <3>1
    <3>3. e[4 + i] = d[4 + i]
      BY <2>8, <3>1
    <3>4. d[4 + i] = b[i]
      BY <2>6
    <3> QED
      BY <3>1, <3>2, <3>3, <3>4
  <2>12. \A i \in 1 .. 5 : o[Body + 8 + i] = t[i]
    <3> SUFFICES ASSUME NEW i \in 1 .. 5 PROVE o[Body + 8 + i] = t[i]
      OBVIOUS
    <3>1. Body + 6 + i \in 1 .. Body + 11 /\ 2 + (Body + 6 + i) = Body + 8 + i
      BY <1>3
    <3> QED
      BY <2>8, <2>9, <3>1
  <2>13. PICK c1, c2 : /\ c1 = [start |-> 2, from |-> 0, size |-> 1]
                       /\ c2 = [start |-> 6, from |-> 1, size |-> Body - 1]
    OBVIOUS
  <2>14. /\ c1 \in Chunks /\ c1.start = 2 /\ c1.from = 0 /\ c1.size = 1
         /\ c2 \in Chunks /\ c2.start = 6 /\ c2.from = 1 /\ c2.size = Body - 1
    BY <2>2, <2>13 DEF Chunks
  <2>15. PICK w : w = [units |-> o, head |-> 2, chunks |-> {c1, c2}, last |-> Body + 8]
    OBVIOUS
  <2>16. w.units = o /\ w.head = 2 /\ w.chunks = {c1, c2} /\ w.last = Body + 8
    BY <2>15
  <2>17. LastOn(w)
    <3>1. o[w.last + 1] = t[1] /\ o[w.last + 2] = t[2] /\ o[w.last + 3] = t[3]
          /\ o[w.last + 4] = t[4] /\ o[w.last + 5] = t[5]
      BY <2>12, <2>16
    <3> QED
      BY <1>3, <1>5, <2>9, <2>16, <3>1 DEF LastOn
  <2>18. ChunkOn(w, c1)
    <3>1. o[2 + 1] = H!Size(1) /\ o[2 + 2] = H!Eol /\ o[2 + 1 + 3] = H!Eol /\ o[2 + 2 + 1] = Byte(0 + 1)
      BY <2>3, <2>10
    <3>2. \A i \in 1 .. 1 : i = 1
      OBVIOUS
    <3>3. 2 + 1 + 3 <= Body + 13 /\ 2 + 1 + 3 = 6 /\ 0 + 1 = 1 /\ 1 <= Body
      BY <1>3
    <3> QED
      BY <2>9, <2>14, <2>16, <3>1, <3>2, <3>3 DEF ChunkOn
  <2>19. ChunkOn(w, c2)
    <3>1. o[6 + 1] = H!Size(Body - 1) /\ o[6 + 2] = H!Eol /\ o[6 + (Body - 1 + 3)] = H!Eol
      BY <1>3, <2>2, <2>4, <2>11
    <3>2. ASSUME NEW i \in 1 .. Body - 1 PROVE o[6 + 2 + i] = Byte(1 + i)
      <4>1. 2 + i \in 1 .. Body + 2 /\ 6 + (2 + i) = 6 + 2 + i
        BY <1>3
      <4> QED
        BY <2>4, <2>11, <4>1
    <3>3. /\ 6 + (Body - 1) + 3 = 6 + (Body - 1 + 3) /\ 6 + (Body - 1) + 3 = Body + 8
          /\ 1 + (Body - 1) = Body /\ Body <= Body /\ Body + 8 <= Body + 13 /\ (Body - 1 = 0 => 1 = Body)
      BY <1>3
    <3> QED
      BY <2>9, <2>14, <2>16, <3>1, <3>2, <3>3 DEF ChunkOn
  <2>20. Meant(w, "chunked")
    BY <1>2, <1>3, <2>9, <2>14, <2>16, <2>17, <2>18, <2>19 DEF Meant
  <2> QED
    BY <2>16, <2>20
<1> QED
  BY <1>7, <1>8 DEF H!Encodings

LEMMA MeantByServer ==
  ASSUME H!Init PROVE \E w : Meant(w, response.framing) /\ SentOf(w)
<1>0. \E framing \in {"chunked", "fixed", "eof"}, end \in {"fin", "reset"} :
        /\ end = "reset" => framing = "eof"
        /\ \E units \in H!Whole(framing) :
             \E sent \in {units} \cup H!CutOff(units) \cup H!Garbled(units) :
               response = [framing |-> framing, units |-> sent, end |-> end, whole |-> sent = units]
  BY Zenon DEF H!Init
<1>1. PICK framing \in {"chunked", "fixed", "eof"}, end \in {"fin", "reset"} :
        /\ end = "reset" => framing = "eof"
        /\ \E units \in H!Whole(framing) :
             \E sent \in {units} \cup H!CutOff(units) \cup H!Garbled(units) :
               response = [framing |-> framing, units |-> sent, end |-> end, whole |-> sent = units]
  BY <1>0, Zenon
<1>2. PICK units \in H!Whole(framing) :
        \E sent \in {units} \cup H!CutOff(units) \cup H!Garbled(units) :
          response = [framing |-> framing, units |-> sent, end |-> end, whole |-> sent = units]
  BY <1>1
<1>3. PICK sent \in {units} \cup H!CutOff(units) \cup H!Garbled(units) :
        response = [framing |-> framing, units |-> sent, end |-> end, whole |-> sent = units]
  BY <1>2
<1>4. /\ response.framing = framing /\ response.units = sent /\ response.end = end
      /\ response.whole = (sent = units)
  BY <1>3
<1>5. PICK w : w.units = units /\ Meant(w, framing)
  BY LengthMeant, ChunksMeant
<1>6. units \in Seq(Units) /\ Len(units) \in Nat /\ \A i \in 1 .. Len(units) : units[i] \in Units
  <2>1. units \in Seq(Units)
    BY <1>5 DEF Meant
  <2> QED
    BY <2>1, LenProperties, ElementOfSeq
<1>7. /\ sent \in Seq(Units) /\ Len(sent) <= Len(units)
      /\ \A i \in 1 .. Len(sent) :
           sent[i] = units[i] \/ (sent[i] = H!Bad /\ units[i].kind # "byte")
  <2>1. CASE sent = units
    BY <1>6, <2>1
  <2>2. CASE sent \in H!CutOff(units)
    <3>1. PICK n \in 0 .. Len(units) - 1 : sent = SubSeq(units, 1, n)
      BY <2>2 DEF H!CutOff
    <3>2. /\ 0 \in Nat /\ n \in Nat /\ 0 + n <= Len(units) /\ n <= Len(units)
          /\ sent = SubSeq(units, 0 + 1, 0 + n)
      BY <1>6, <3>1
    <3>3. sent \in Seq(Units) /\ Len(sent) = n /\ \A i \in 1 .. n : sent[i] = units[0 + i]
      <4>1. IsSlice(sent, units, 0, n)
        BY <1>6, <3>2, Sliced, Zenon
      <4> QED
        BY <4>1 DEF IsSlice
    <3>4. \A i \in 1 .. n : 0 + i = i
      OBVIOUS
    <3> QED
      BY <3>2, <3>3, <3>4
  <2>3. CASE sent \in H!Garbled(units)
    <3>1. PICK i \in 1 .. Len(units) : units[i].kind # "byte" /\ sent = [units EXCEPT ![i] = H!Bad]
      BY <2>3 DEF H!Garbled
    <3>2. sent \in Seq(Units) /\ Len(sent) = Len(units)
      BY <1>6, <3>1, UnitsAre, ExceptSeq
    <3>3. \A j \in 1 .. Len(units) : sent[j] = IF j = i THEN H!Bad ELSE units[j]
      BY <1>6, <3>1
    <3> QED
      BY <1>6, <3>1, <3>2, <3>3
  <2> QED
    BY <2>1, <2>2, <2>3
<1>8. SentOf(w)
  BY <1>4, <1>5, <1>7 DEF SentOf
<1> QED
  BY <1>4, <1>5, <1>8

LEMMA WireInvInit == H!Init => \E w : WireInv(w)
<1> SUFFICES ASSUME H!Init PROVE \E w : WireInv(w)
  OBVIOUS
<1>1. PICK w : Meant(w, response.framing) /\ SentOf(w)
  BY MeantByServer
<1>2. /\ arrived = 0 /\ buffer = <<>> /\ handler.at = "head" /\ body.at = "none" /\ body.got = <<>>
  BY DEF H!Init
<1>3. Len(buffer) = 0 /\ buffer \in Seq(Units) /\ Len(body.got) = 0 /\ body.got \in Seq(Units)
  BY <1>2, EmptySeq
<1>3a. Parsed = 0
  <2>1. Parsed = 0 - 0
    BY <1>2, <1>3, Zenon DEF Parsed
  <2> QED
    BY <2>1
<1>4. Len(response.units) \in Nat
  BY <1>1, LenProperties DEF SentOf
<1>5. BufferGood
  BY <1>2, <1>3, <1>3a, <1>4 DEF BufferGood
<1> QED
  BY <1>1, <1>2, <1>3, <1>3a, <1>5 DEF WireInv, HeadParsed, Place, LengthParsed, SizeParsed, DataParsed,
       BoundaryParsed, TrailersParsed, GotInOrder, EndsWell, Count, Running

-----------------------------------------------------------------------------
(* The ByteReader.                                                         *)
LEMMA LeastOf ==
  ASSUME NEW P \in SUBSET Nat, P # {}
  PROVE  \E n \in P : \A m \in P : n <= m
<1>1. \A a, b \in Nat : <<a, b>> \in OpToRel(<, Nat) <=> a < b
  BY Zenon DEF OpToRel
<1>2. \E R : IsWellFoundedOn(R, Nat) /\ \A a, b \in Nat : <<a, b>> \in R <=> a < b
  BY <1>1, NatLessThanWellFounded, Zenon
<1>3. PICK R : IsWellFoundedOn(R, Nat) /\ \A a, b \in Nat : <<a, b>> \in R <=> a < b
  BY <1>2
<1>4. IsWellFoundedOn(R, Nat)
  BY <1>3
<1>5. PICK n \in P : \A m \in P : ~ (<<m, n>> \in R)
  BY <1>4, WFMin, Zenon
<1>6. \A m \in P : ~ (m < n)
  BY <1>3, <1>5, Zenon
<1> QED
  BY <1>5, <1>6

(* line() finds the first end of a line.                                   *)
LEMMA LineIs ==
  ASSUME BufferGood, NEW i \in 1 .. Len(buffer), buffer[i] = H!Eol
  PROVE  /\ H!HasLine /\ H!LineEnd \in 1 .. Len(buffer) /\ H!LineEnd <= i
         /\ buffer[H!LineEnd] = H!Eol /\ \A j \in 1 .. H!LineEnd - 1 : buffer[j] # H!Eol
         /\ H!Line \in Seq(Units) /\ Len(H!Line) = H!LineEnd - 1
         /\ \A j \in 1 .. H!LineEnd - 1 : H!Line[j] = buffer[j]
<1>1. buffer \in Seq(Units) /\ Len(buffer) \in Nat /\ \A j \in 1 .. Len(buffer) : buffer[j] \in Units
  <2>1. buffer \in Seq(Units)
    BY DEF BufferGood
  <2> QED
    BY <2>1, LenProperties, ElementOfSeq
<1>2. PICK P : P = {j \in 1 .. Len(buffer) : buffer[j] = H!Eol}
  OBVIOUS
<1>3. P \in SUBSET Nat /\ P # {}
  BY <1>1, <1>2
<1>4. PICK n \in P : \A m \in P : n <= m
  BY <1>3, LeastOf
<1>5. n \in 1 .. Len(buffer) /\ buffer[n] = H!Eol /\ \A j \in 1 .. n - 1 : buffer[j] # H!Eol
  BY <1>1, <1>2, <1>4
<1>6. PICK e : e = H!LineEnd
  OBVIOUS
<1>7. e \in 1 .. Len(buffer) /\ buffer[e] = H!Eol /\ \A j \in 1 .. e - 1 : buffer[j] # H!Eol
  BY <1>5, <1>6, Zenon DEF H!LineEnd
<1>8. e <= i
  BY <1>1, <1>7
<1>9. H!Line = SubSeq(buffer, 1, e - 1)
  BY <1>6 DEF H!Line
<1>10. e - 1 \in Int /\ 1 \in Int /\ \A j \in 1 .. e - 1 : buffer[j] \in Units
  BY <1>1, <1>7
<1>11. /\ H!Line \in Seq(Units) /\ Len(H!Line) = IF 1 <= e - 1 THEN e - 1 - 1 + 1 ELSE 0
       /\ \A j \in 1 .. e - 1 - 1 + 1 : H!Line[j] = buffer[1 + j - 1]
  BY <1>9, <1>10, SubSeqProperties
<1>12. Len(H!Line) = e - 1 /\ \A j \in 1 .. e - 1 : j \in 1 .. e - 1 - 1 + 1 /\ 1 + j - 1 = j
  BY <1>7, <1>11
<1>13. \A j \in 1 .. e - 1 : H!Line[j] = buffer[j]
  BY <1>11, <1>12
<1> QED
  BY <1>6, <1>7, <1>8, <1>11, <1>12, <1>13 DEF H!HasLine

LEMMA BufferTyped ==
  ASSUME BufferGood, response.units \in Seq(Units)
  PROVE  /\ Len(buffer) \in Nat /\ arrived \in Nat /\ Parsed \in Nat /\ Len(response.units) \in Nat
         /\ arrived = Parsed + Len(buffer) /\ arrived <= Len(response.units)
         /\ \A i \in 1 .. Len(buffer) : buffer[i] \in Units
<1>1. /\ Len(buffer) \in Nat /\ Len(response.units) \in Nat
      /\ \A i \in 1 .. Len(buffer) : buffer[i] \in Units
  BY LenProperties, ElementOfSeq DEF BufferGood
<1> QED
  BY <1>1 DEF BufferGood, Parsed

LEMMA ConsumeKeeps ==
  ASSUME BufferGood, response.units \in Seq(Units), NEW n \in 0 .. Len(buffer), H!Consume(n),
         UNCHANGED <<response, arrived>>
  PROVE  BufferGood' /\ Parsed' = Parsed + n
<1>1. /\ Len(buffer) \in Nat /\ arrived \in Nat /\ Parsed \in Nat
      /\ arrived = Parsed + Len(buffer)
      /\ \A i \in 1 .. Len(buffer) : buffer[i] \in Units
  BY BufferTyped
<1>2. buffer' = SubSeq(buffer, n + 1, Len(buffer))
  BY DEF H!Consume
<1>3. n + 1 \in Int /\ Len(buffer) \in Int /\ \A i \in n + 1 .. Len(buffer) : buffer[i] \in Units
  BY <1>1
<1>4. /\ buffer' \in Seq(Units)
      /\ Len(buffer') = IF n + 1 <= Len(buffer) THEN Len(buffer) - (n + 1) + 1 ELSE 0
      /\ \A i \in 1 .. Len(buffer) - (n + 1) + 1 : buffer'[i] = buffer[n + 1 + i - 1]
  BY <1>2, <1>3, SubSeqProperties
<1>5. Len(buffer') = Len(buffer) - n
  BY <1>1, <1>4
<1>6. Parsed' = Parsed + n
  BY <1>1, <1>5 DEF Parsed
<1>7. ASSUME NEW i \in 1 .. Len(buffer') PROVE buffer'[i] = response.units[Parsed + n + i]
  <2>1. /\ i \in 1 .. Len(buffer) - (n + 1) + 1 /\ n + 1 + i - 1 = n + i
        /\ n + i \in 1 .. Len(buffer) /\ Parsed + (n + i) = Parsed + n + i
    BY <1>1, <1>5
  <2>2. buffer'[i] = buffer[n + i]
    BY <1>4, <2>1
  <2>3. buffer[n + i] = response.units[Parsed + (n + i)]
    BY <2>1 DEF BufferGood
  <2> QED
    BY <2>1, <2>2, <2>3
<1>8. arrived' = arrived /\ response' = response /\ Len(buffer') <= arrived
  BY <1>1, <1>5
<1> QED
  BY <1>4, <1>6, <1>7, <1>8 DEF BufferGood

LEMMA FillKeeps ==
  ASSUME BufferGood, response.units \in Seq(Units), NEW n \in 1 .. Len(response.units), H!Fill(n)
  PROVE  BufferGood' /\ Parsed' = Parsed
<1>1. /\ Len(buffer) \in Nat /\ arrived \in Nat /\ Parsed \in Nat /\ Len(response.units) \in Nat
      /\ arrived = Parsed + Len(buffer)
  BY BufferTyped
<1>2. /\ arrived + n <= Len(response.units) /\ arrived' = arrived + n /\ response' = response
      /\ buffer' = buffer \o SubSeq(response.units, arrived + 1, arrived + n)
  BY DEF H!Fill
<1>3. PICK a : a = SubSeq(response.units, arrived + 1, arrived + n)
  OBVIOUS
<1>4. n \in Nat
  BY <1>1
<1>5. a \in Seq(Units) /\ Len(a) = n /\ \A i \in 1 .. n : a[i] = response.units[arrived + i]
  <2>1. IsSlice(a, response.units, arrived, n)
    BY <1>1, <1>2, <1>3, <1>4, Sliced, Zenon
  <2> QED
    BY <2>1 DEF IsSlice
<1>8. buffer \in Seq(Units)
  BY DEF BufferGood
<1>9. /\ buffer' \in Seq(Units) /\ Len(buffer') = Len(buffer) + n
      /\ \A i \in 1 .. Len(buffer) : buffer'[i] = buffer[i]
      /\ \A i \in 1 .. n : buffer'[Len(buffer) + i] = a[i]
  <2>1. Joins(buffer', buffer, a)
    BY <1>2, <1>3, <1>5, <1>8, Joined, Zenon
  <2> QED
    BY <1>5, <2>1 DEF Joins
<1>10. Parsed' = Parsed
  BY <1>1, <1>2, <1>9 DEF Parsed
<1>11. ASSUME NEW i \in 1 .. Len(buffer') PROVE buffer'[i] = response.units[Parsed + i]
  <2>1. CASE i <= Len(buffer)
    BY <1>1, <1>9, <2>1 DEF BufferGood
  <2>2. CASE ~(i <= Len(buffer))
    <3>1. /\ i - Len(buffer) \in 1 .. n /\ arrived + (i - Len(buffer)) = Parsed + i
          /\ Len(buffer) + (i - Len(buffer)) = i
      BY <1>1, <1>4, <1>9, <2>2
    <3> QED
      BY <1>5, <1>9, <3>1
  <2> QED
    BY <2>1, <2>2
<1>12. arrived' \in 0 .. Len(response.units) /\ Len(buffer') <= arrived'
  BY <1>1, <1>2, <1>9
<1> QED
  BY <1>2, <1>9, <1>10, <1>11, <1>12 DEF BufferGood

(* The buffer holds what the server means, but for a garbled line.         *)
LEMMA MeantAt ==
  ASSUME NEW w, w.units \in Seq(Units), SentOf(w), BufferGood, NEW i \in 1 .. Len(buffer)
  PROVE  /\ Parsed + i \in 1 .. Len(w.units) /\ Parsed + i <= Len(response.units)
         /\ buffer[i] = w.units[Parsed + i] \/ (buffer[i] = H!Bad /\ w.units[Parsed + i].kind # "byte")
         /\ response.whole => buffer[i] = w.units[Parsed + i]
<1>1. /\ Len(buffer) \in Nat /\ arrived \in Nat /\ Parsed \in Nat /\ Len(response.units) \in Nat
      /\ arrived = Parsed + Len(buffer) /\ arrived <= Len(response.units)
  BY BufferTyped DEF SentOf
<1>2. Len(w.units) \in Nat /\ Len(response.units) <= Len(w.units)
  BY LenProperties DEF SentOf
<1>3. Parsed + i \in 1 .. Len(response.units) /\ Parsed + i \in 1 .. Len(w.units)
  BY <1>1, <1>2
<1>4. buffer[i] = response.units[Parsed + i]
  BY DEF BufferGood
<1> QED
  BY <1>3, <1>4 DEF SentOf

(* Once a whole response has arrived, all that was not parsed is buffered. *)
LEMMA AllBuffered ==
  ASSUME NEW w, w.units \in Seq(Units), SentOf(w), BufferGood, response.whole,
         arrived = Len(response.units), NEW i \in Nat \ {0}, Parsed + i <= Len(w.units)
  PROVE  i \in 1 .. Len(buffer) /\ buffer[i] = w.units[Parsed + i]
<1>1. /\ Len(buffer) \in Nat /\ Parsed \in Nat /\ arrived = Parsed + Len(buffer)
  BY BufferTyped DEF SentOf
<1>2. Len(response.units) = Len(w.units)
  BY DEF SentOf
<1>3. Len(w.units) \in Nat
  BY LenProperties
<1>4. i <= Len(buffer)
  <2>1. Parsed + i <= Parsed + Len(buffer)
    BY <1>1, <1>2
  <2> QED
    BY <1>1, <2>1
<1> QED
  BY <1>4, MeantAt

-----------------------------------------------------------------------------
(* The steps.  The response does not change, so what is meant does not.    *)
LEMMA MeantStays ==
  ASSUME NEW w, Meant(w, response.framing), SentOf(w), response' = response
  PROVE  (Meant(w, response.framing) /\ SentOf(w))'
<1>1. Meant(w, response'.framing)
  OBVIOUS
<1> QED
  BY <1>1 DEF SentOf

(* Whatever leaves the body alone, and the parser where it is.             *)
LEMMA WireSame ==
  ASSUME NEW w, WireInv(w), response' = response, body' = body, BufferGood', HeadParsed(w)',
         body.at = "none" \/ Parsed' = Parsed, handler'.alive = handler.alive,
         body.at \in Running => connection' = connection
  PROVE  WireInv(w)'
<1>1. (Meant(w, response.framing) /\ SentOf(w))'
  BY MeantStays DEF WireInv
<1>2. Count' = Count /\ GotInOrder'
  BY DEF WireInv, GotInOrder, Count
<1>3. EndsWell(w)'
  BY <1>2 DEF WireInv, EndsWell
<1>4. Place(w)'
  <2>1. CASE body.at = "none"
    BY <2>1 DEF Place, LengthParsed, SizeParsed, DataParsed, BoundaryParsed, TrailersParsed, Running
  <2>2. CASE Parsed' = Parsed
    <3>1. LengthParsed(w)' /\ SizeParsed(w)'
      BY <1>2, <2>2 DEF WireInv, Place, LengthParsed, SizeParsed
    <3>2. DataParsed(w)'
      BY <1>2, <2>2 DEF WireInv, Place, DataParsed
    <3>3. BoundaryParsed(w)' /\ TrailersParsed(w)'
      BY <1>2, <2>2 DEF WireInv, Place, BoundaryParsed, TrailersParsed
    <3> QED
      BY <3>1, <3>2, <3>3 DEF Place
  <2> QED
    BY <2>1, <2>2
<1> QED
  BY <1>1, <1>2, <1>3, <1>4 DEF WireInv

(* The body closes, fails or is cancelled.                                 *)
LEMMA WireCloses ==
  ASSUME NEW w, WireInv(w), FetchInv, UNCHANGED <<response, handler>>, BufferGood',
         body.at \in Running, NEW over \in {"closed", "errored", "cancelled"}, H!Closes(over),
         over = "closed" =>
           IF response.framing = "eof" THEN Count = Len(response.units) - w.head /\ w.head <= Len(response.units)
           ELSE Count = Body,
         over = "errored" /\ handler.alive =>
           ~response.whole \/ (response.framing = "eof" /\ response.end = "reset")
  PROVE  WireInv(w)'
<1>1. (Meant(w, response.framing) /\ SentOf(w))'
  BY MeantStays DEF WireInv
<1>2. body'.at = over /\ body'.got = body.got
  BY DEF H!Closes, FetchInv, FetchShaped
<1>3. Count' = Count /\ GotInOrder'
  BY <1>2 DEF WireInv, GotInOrder, Count
<1>4. handler'.at # "head"
  BY DEF FetchInv, Running
<1>5. EndsWell(w)'
  BY <1>2, <1>3 DEF EndsWell, Running
<1>6. Place(w)'
  BY <1>2 DEF Place, LengthParsed, SizeParsed, DataParsed, BoundaryParsed, TrailersParsed, Running
<1> QED
  BY <1>1, <1>3, <1>4, <1>5, <1>6 DEF WireInv, HeadParsed

(* The body goes on, at another place.                                     *)
LEMMA WireGoesOn ==
  ASSUME NEW w, WireInv(w), FetchInv, UNCHANGED <<response, handler, connection>>, BufferGood',
         body.at \in Running, body'.at \in Running, GotInOrder', Place(w)'
  PROVE  WireInv(w)'
<1>1. (Meant(w, response.framing) /\ SentOf(w))'
  BY MeantStays DEF WireInv
<1>2. handler'.at # "head"
  BY DEF FetchInv, Running
<1>3. EndsWell(w)'
  BY DEF WireInv, EndsWell, Running
<1> QED
  BY <1>1, <1>2, <1>3 DEF WireInv, HeadParsed

(* send_request closes the connection under no response.                   *)
LEMMA SendKeepsWire ==
  ASSUME NEW w, WireInv(w), FetchInv,
         \/ H!HeadWritten \/ H!SourceEnds \/ H!SourceFails \/ H!Written \/ H!WriteFails
         \/ \E n \in 1 .. Upload : H!SourceGives(n)
  PROVE  WireInv(w)'
<1>1. UNCHANGED <<response, arrived, buffer, handler, body>>
  BY DEF H!HeadWritten, H!SourceEnds, H!SourceFails, H!Written, H!WriteFails, H!SourceGives
<1>2. handler.responded => connection' = connection
  BY DEF H!HeadWritten, H!SourceEnds, H!SourceFails, H!Written, H!WriteFails, H!SourceGives,
         H!AllWritten, H!SendFails
<1>3. body.at \in Running => handler.responded
  BY DEF FetchInv, Running
<1>4. Parsed' = Parsed
  BY <1>1 DEF Parsed
<1>5. BufferGood' /\ HeadParsed(w)'
  BY <1>1, <1>4 DEF WireInv, BufferGood, HeadParsed
<1> QED
  BY <1>1, <1>2, <1>3, <1>4, <1>5, WireSame

LEMMA FillKeepsWire ==
  ASSUME NEW w, WireInv(w), NEW n \in 1 .. Len(response.units), H!Fill(n)
  PROVE  WireInv(w)'
<1>1. UNCHANGED <<response, handler, body, connection>>
  BY DEF H!Fill
<1>2. BufferGood' /\ Parsed' = Parsed
  BY FillKeeps DEF WireInv, SentOf
<1>3. HeadParsed(w)'
  BY <1>1, <1>2 DEF WireInv, HeadParsed
<1> QED
  BY <1>1, <1>2, <1>3, WireSame

(* The first line of the buffer.                                           *)
LEMMA FirstLine ==
  ASSUME BufferGood, H!HasLine, NEW e, e = H!LineEnd
  PROVE  /\ e \in 1 .. Len(buffer) /\ e \in Nat /\ buffer[e] = H!Eol
         /\ \A j \in 1 .. e - 1 : buffer[j] # H!Eol
         /\ H!Line \in Seq(Units) /\ Len(H!Line) = e - 1
         /\ \A j \in 1 .. e - 1 : H!Line[j] = buffer[j]
<1>1. PICK i \in 1 .. Len(buffer) : buffer[i] = H!Eol
  BY DEF H!HasLine
<1> QED
  BY <1>1, LineIs

(* A line of one unit, and an empty one.                                   *)
LEMMA LineOfOne ==
  ASSUME BufferGood, H!HasLine, Len(H!Line) = 1
  PROVE  H!LineEnd = 2 /\ 1 \in 1 .. Len(buffer) /\ H!Line[1] = buffer[1]
<1>1. PICK e : e = H!LineEnd
  OBVIOUS
<1>2. /\ e \in 1 .. Len(buffer) /\ e \in Nat /\ Len(H!Line) = e - 1
      /\ \A j \in 1 .. e - 1 : H!Line[j] = buffer[j]
  BY <1>1, FirstLine
<1>3. e = 2
  <2>1. e - 1 = 1 /\ e \in Nat
    BY <1>2, Zenon
  <2> QED
    BY <2>1
<1> QED
  BY <1>1, <1>2, <1>3

LEMMA LineOfNone ==
  ASSUME BufferGood, H!HasLine
  PROVE  H!Line = <<>> <=> H!LineEnd = 1
<1>1. PICK e : e = H!LineEnd
  OBVIOUS
<1>2. e \in 1 .. Len(buffer) /\ e \in Nat /\ H!Line \in Seq(Units) /\ Len(H!Line) = e - 1
  BY <1>1, FirstLine
<1>3. H!Line = <<>> <=> Len(H!Line) = 0
  BY <1>2, EmptySeq
<1> QED
  BY <1>1, <1>2, <1>3

(* In a whole response the line ends where the server ends one, or before. *)
LEMMA LineEndMeant ==
  ASSUME NEW w, w.units \in Seq(Units), SentOf(w), BufferGood, H!HasLine, response.whole,
         NEW i \in Nat \ {0}, w.units[Parsed + i] = H!Eol
  PROVE  H!LineEnd <= i
<1>1. PICK e : e = H!LineEnd
  OBVIOUS
<1>2. /\ e \in 1 .. Len(buffer) /\ e \in Nat /\ \A j \in 1 .. e - 1 : buffer[j] # H!Eol
  BY <1>1, FirstLine
<1>3. Len(buffer) \in Nat
  BY LenProperties DEF BufferGood
<1>4. CASE i <= Len(buffer)
  <2>1. i \in 1 .. Len(buffer)
    BY <1>3, <1>4
  <2>2. buffer[i] = H!Eol
    BY <2>1, MeantAt
  <2> QED
    BY <1>1, <1>2, <1>3, <2>1, <2>2
<1>5. CASE ~(i <= Len(buffer))
  BY <1>1, <1>2, <1>3, <1>5
<1> QED
  BY <1>4, <1>5

(* ParseHead: a head is parsed to its end.                                 *)
LEMMA ThrowsKeepsWire ==
  ASSUME NEW w, WireInv(w), FetchInv, handler.at = "head", H!Throws, response' = response, BufferGood'
  PROVE  WireInv(w)'
<1>1. handler'.at = "catch" /\ handler'.alive = handler.alive /\ body' = body
  BY DEF H!Throws, FetchInv, FetchShaped
<1>2. body.at = "none"
  BY DEF FetchInv
<1>3. HeadParsed(w)'
  BY <1>1 DEF HeadParsed
<1> QED
  BY <1>1, <1>2, <1>3, WireSame DEF Running

LEMMA RespondsKeepsWire ==
  ASSUME NEW w, WireInv(w), FetchInv, handler.at = "head", NEW status, H!Responds(status),
         response' = response, BufferGood', Parsed' = w.head
  PROVE  WireInv(w)'
<1>1. (Meant(w, response.framing) /\ SentOf(w))'
  BY MeantStays DEF WireInv
<1>2. body.at = "none" /\ Count = 0
  BY DEF FetchInv, WireInv, EndsWell
<1>3. /\ handler'.at = "responded" /\ body'.got = body.got
      /\ handler'.alive <=> connection = "open"
  BY DEF H!Responds, FetchInv, FetchShaped
<1>4. Count' = 0 /\ GotInOrder'
  BY <1>2, <1>3 DEF WireInv, GotInOrder, Count
<1>5. w.head \in Nat /\ Body \in Nat \ {0}
  BY FetchAssumption DEF WireInv, Meant
<1>6. CASE body' = [body EXCEPT !.at = "null"]
  <2>1. body'.at = "null"
    BY <1>6 DEF FetchInv, FetchShaped
  <2>2. EndsWell(w)'
    BY <2>1 DEF EndsWell, Running
  <2>3. Place(w)'
    BY <2>1 DEF Place, LengthParsed, SizeParsed, DataParsed, BoundaryParsed, TrailersParsed, Running
  <2> QED
    BY <1>1, <1>3, <1>4, <2>2, <2>3 DEF WireInv, HeadParsed
<1>7. CASE /\ body' = [body EXCEPT !.at = H!FirstStage, !.remaining = H!Length]
           /\ UNCHANGED connection
  <2>1. body'.at = H!FirstStage /\ body'.remaining = H!Length
    BY <1>7 DEF FetchInv, FetchShaped
  <2>2. EndsWell(w)'
    BY <1>3, <1>7, <2>1 DEF EndsWell, Running, H!FirstStage
  <2>3. Place(w)'
    <3>1. CASE response.framing = "chunked"
      <4>1. body'.at = "size"
        BY <2>1, <3>1 DEF H!FirstStage
      <4>2. \E c \in w.chunks : c.start = w.head /\ c.from = 0
        BY <3>1 DEF WireInv, Meant
      <4> QED
        BY <1>4, <3>1, <4>1, <4>2
           DEF Place, LengthParsed, SizeParsed, DataParsed, BoundaryParsed, TrailersParsed
    <3>2. CASE response.framing # "chunked"
      <4>1. /\ body'.at = "data"
            /\ response.framing = "fixed" => body'.remaining = Body
            /\ response.framing = "eof" => body'.remaining = H!Unlimited
        BY <2>1, <3>2 DEF H!FirstStage, H!Length, WireInv, SentOf
      <4>2. w.head = w.head + 0 /\ 0 < Body /\ Body = Body - 0
        BY <1>5
      <4> QED
        BY <1>4, <3>2, <4>1, <4>2
           DEF Place, LengthParsed, SizeParsed, DataParsed, BoundaryParsed, TrailersParsed
    <3> QED
      BY <3>1, <3>2
  <2> QED
    BY <1>1, <1>3, <1>4, <2>2, <2>3 DEF WireInv, HeadParsed
<1> QED
  BY <1>6, <1>7 DEF H!Responds

LEMMA ParseHeadKeepsWire ==
  ASSUME NEW w, WireInv(w), FetchInv, H!ParseHead
  PROVE  WireInv(w)'
<1>1. /\ handler.at = "head" /\ H!HasLine /\ H!Consume(H!LineEnd) /\ UNCHANGED <<response, arrived>>
      /\ \/ H!Line = <<H!Status(100)>> /\ UNCHANGED <<handler, body, upload, connection>>
         \/ H!Line \in {<<H!Status(200)>>, <<H!Status(204)>>} /\ H!Responds(H!Line[1].n)
         \/ H!Throws
  BY DEF H!ParseHead
<1>2. /\ Meant(w, response.framing) /\ SentOf(w) /\ BufferGood /\ w.units \in Seq(Units)
      /\ response.units \in Seq(Units) /\ Len(buffer) \in Nat
  BY LenProperties DEF WireInv, Meant, SentOf, BufferGood
<1>3. H!LineEnd \in 0 .. Len(buffer)
  BY <1>1, <1>2, FirstLine
<1>4. BufferGood' /\ Parsed' = Parsed + H!LineEnd
  BY <1>1, <1>2, <1>3, ConsumeKeeps
<1>5. Parsed = 0 \/ (Parsed = 2 /\ w.head = 4)
  BY <1>1 DEF WireInv, HeadParsed
<1>6. ASSUME NEW n \in Nat, H!Line = <<H!Status(n)>>
      PROVE  H!LineEnd = 2 /\ w.units[Parsed + 1] = H!Status(n)
  <2>1. Len(H!Line) = 1 /\ H!Line[1] = H!Status(n)
    BY <1>6
  <2>2. H!LineEnd = 2 /\ 1 \in 1 .. Len(buffer) /\ H!Line[1] = buffer[1]
    BY <1>1, <1>2, <2>1, LineOfOne
  <2>3. buffer[1] = w.units[Parsed + 1] \/ buffer[1] = H!Bad
    BY <1>2, <2>2, MeantAt
  <2>4. buffer[1] # H!Bad
    BY <2>1, <2>2 DEF H!Bad, H!Status, H!Unit
  <2> QED
    BY <2>1, <2>2, <2>3, <2>4
<1>7. CASE H!Line = <<H!Status(100)>> /\ UNCHANGED <<handler, body, upload, connection>>
  <2>1. H!LineEnd = 2 /\ w.units[Parsed + 1] = H!Status(100)
    BY <1>6, <1>7
  <2>2. Parsed = 0 /\ w.head = 4
    <3>1. CASE Parsed = 0
      BY <1>2, <2>1, <3>1 DEF Meant
    <3>2. CASE Parsed = 2 /\ w.head = 4
      BY <1>2, <2>1, <3>2 DEF Meant
    <3> QED
      BY <1>5, <3>1, <3>2
  <2>3. HeadParsed(w)'
    BY <1>4, <2>1, <2>2 DEF HeadParsed
  <2>4. body.at = "none"
    BY <1>1 DEF FetchInv
  <2> QED
    BY <1>1, <1>4, <1>7, <2>3, <2>4, WireSame DEF Running
<1>8. CASE H!Line \in {<<H!Status(200)>>, <<H!Status(204)>>} /\ H!Responds(H!Line[1].n)
  <2>1. PICK n \in {200, 204} : H!Line = <<H!Status(n)>>
    BY <1>8
  <2>2. H!LineEnd = 2 /\ w.units[Parsed + 1] = H!Status(n)
    BY <1>6, <2>1
  <2>3. Parsed' = w.head
    <3>1. CASE Parsed = 0
      <4>1. w.head = 2
        BY <1>2, <2>1, <2>2, <3>1 DEF Meant
      <4> QED
        BY <1>4, <2>2, <3>1, <4>1
    <3>2. CASE Parsed = 2 /\ w.head = 4
      BY <1>4, <2>2, <3>2
    <3> QED
      BY <1>5, <3>1, <3>2
  <2> QED
    BY <1>1, <1>4, <1>8, <2>3, RespondsKeepsWire
<1>9. CASE H!Throws
  BY <1>1, <1>4, <1>9, ThrowsKeepsWire
<1> QED
  BY <1>1, <1>7, <1>8, <1>9

(* While a whole response is parsed on a live connection there is always   *)
(* more to read: an end of the wire does not meet the parser there.        *)
LEMMA NotStarved ==
  ASSUME NEW w, WireInv(w), handler.at # "head", response.whole, response.framing # "eof",
         arrived = Len(response.units), body.at \in Running
  PROVE  ~H!Starved
<1>1. /\ Meant(w, response.framing) /\ SentOf(w) /\ BufferGood /\ w.units \in Seq(Units)
      /\ Len(w.units) \in Nat /\ Parsed \in Nat
  BY LenProperties, BufferTyped DEF WireInv, Meant, SentOf
<1>2. response.framing \in {"chunked", "fixed"} /\ Body \in Nat /\ Count \in Nat
  BY <1>1, FetchAssumption, LenProperties DEF SentOf, WireInv, GotInOrder, Count
<1>3. ASSUME NEW i \in Nat \ {0}, Parsed + i <= Len(w.units), w.units[Parsed + i] = H!Eol PROVE H!HasLine
  BY <1>1, <1>3, AllBuffered DEF H!HasLine
<1>4. ASSUME Parsed + 1 <= Len(w.units) PROVE buffer # <<>>
  <2>1. 1 \in 1 .. Len(buffer)
    BY <1>1, <1>4, AllBuffered
  <2> QED
    BY <2>1
<1>5. \A c \in w.chunks : c \in Chunks /\ c.start \in Nat /\ c.from \in Nat /\ c.size \in Nat
  BY <1>1 DEF Meant, Chunks
<1>6. CASE response.framing = "fixed"
  <2>1. body.at = "data" /\ Parsed = w.head + Count /\ Count < Body
    BY <1>6 DEF WireInv, Place, LengthParsed
  <2>2. Len(w.units) = w.head + Body /\ w.head \in Nat
    BY <1>1, <1>6 DEF Meant
  <2>3. buffer # <<>>
    BY <1>2, <1>4, <2>1, <2>2
  <2> QED
    BY <2>1, <2>3 DEF H!Starved, H!WantsLine
<1>7. CASE response.framing = "chunked"
  <2>1. LastOn(w) /\ \A c \in w.chunks : ChunkOn(w, c)
    BY <1>1, <1>7 DEF Meant
  <2>2. w.last \in Nat
    BY <1>1 DEF Meant
  <2>3. CASE body.at = "data"
    <3>1. PICK c \in w.chunks : /\ Count \in c.from .. c.from + c.size - 1
                                /\ Parsed = c.start + 2 + (Count - c.from)
      BY <1>7, <2>3 DEF WireInv, Place, DataParsed
    <3>2. c.start + c.size + 3 <= Len(w.units)
      BY <2>1 DEF ChunkOn
    <3>3. Parsed + 1 <= Len(w.units)
      <4>1. PICK s \in Nat, f \in Nat, z \in Nat : s = c.start /\ f = c.from /\ z = c.size
        BY <1>5
      <4>2. PICK k \in Nat, n \in Nat : k = Count /\ n = Len(w.units)
        BY <1>1, <1>2
      <4>3. k \in f .. f + z - 1 /\ Parsed = s + 2 + (k - f) /\ s + z + 3 <= n
        BY <3>1, <3>2, <4>1, <4>2
      <4>4. k - f < z
        BY <4>3
      <4>5. Parsed + 1 <= n
        BY <4>3, <4>4
      <4> QED
        BY <4>2, <4>5
    <3> QED
      BY <1>4, <2>3, <3>3 DEF H!Starved, H!WantsLine
  <2>4. CASE body.at = "boundary"
    <3>1. PICK c \in w.chunks : Parsed = c.start + 2 + c.size
      BY <1>7, <2>4 DEF WireInv, Place, BoundaryParsed
    <3>2. c.start + c.size + 3 <= Len(w.units) /\ w.units[c.start + c.size + 3] = H!Eol
      BY <2>1 DEF ChunkOn
    <3>3. c.start + c.size + 3 = Parsed + 1
      <4>1. PICK s \in Nat, z \in Nat : s = c.start /\ z = c.size
        BY <1>5
      <4>2. Parsed = s + 2 + z
        BY <3>1, <4>1
      <4>3. s + z + 3 = Parsed + 1
        BY <4>2
      <4> QED
        BY <4>1, <4>3
    <3> QED
      BY <1>3, <2>4, <3>2, <3>3 DEF H!Starved, H!WantsBytes
  <2>5. CASE body.at = "size"
    <3>1. CASE Parsed = w.last
      <4>1. w.units[Parsed + 2] = H!Eol /\ Parsed + 2 <= Len(w.units)
        BY <2>1, <2>2, <3>1 DEF LastOn
      <4> QED
        BY <1>3, <2>5, <4>1 DEF H!Starved, H!WantsBytes
    <3>2. ASSUME NEW c \in w.chunks, c.start = Parsed PROVE ~H!Starved
      <4>1. w.units[c.start + 2] = H!Eol /\ c.start + c.size + 3 <= Len(w.units)
        BY <2>1 DEF ChunkOn
      <4>2. Parsed + 2 <= Len(w.units)
        BY <1>1, <1>5, <3>2, <4>1
      <4> QED
        BY <1>3, <2>5, <3>2, <4>1, <4>2 DEF H!Starved, H!WantsBytes
    <3> QED
      BY <1>7, <2>5, <3>1, <3>2 DEF WireInv, Place, SizeParsed
  <2>6. CASE body.at = "trailers"
    <3>1. CASE Parsed = w.last + 2
      <4>1. w.units[Parsed + 2] = H!Eol /\ Parsed + 2 <= Len(w.units)
        <5>1. w.last + 4 = Parsed + 2 /\ Parsed + 2 <= w.last + 5
          BY <2>2, <3>1
        <5> QED
          BY <2>1, <5>1 DEF LastOn
      <4> QED
        BY <1>3, <2>6, <4>1 DEF H!Starved, H!WantsBytes
    <3>2. CASE Parsed = w.last + 4
      <4>1. w.units[Parsed + 1] = H!Eol /\ Parsed + 1 <= Len(w.units)
        <5>1. w.last + 5 = Parsed + 1 /\ Parsed + 1 <= w.last + 5
          BY <2>2, <3>2
        <5> QED
          BY <2>1, <5>1 DEF LastOn
      <4> QED
        BY <1>3, <2>6, <4>1 DEF H!Starved, H!WantsBytes
    <3>3. ASSUME NEW c \in w.chunks, c.size = 0, Parsed = c.start + 2 PROVE ~H!Starved
      <4>1. w.units[c.start + c.size + 3] = H!Eol /\ c.start + c.size + 3 <= Len(w.units)
        BY <2>1 DEF ChunkOn
      <4>2. c.start + c.size + 3 = Parsed + 1
        BY <1>5, <3>3
      <4> QED
        BY <1>3, <2>6, <4>1, <4>2 DEF H!Starved, H!WantsBytes
    <3> QED
      BY <1>7, <2>6, <3>1, <3>2, <3>3 DEF WireInv, Place, TrailersParsed
  <2> QED
    BY <2>3, <2>4, <2>5, <2>6 DEF Running
<1> QED
  BY <1>2, <1>6, <1>7

LEMMA ReadEndsKeepsWire ==
  ASSUME NEW w, WireInv(w), FetchInv, H!ReadEnds
  PROVE  WireInv(w)'
<1>1. UNCHANGED <<response, arrived, buffer>> /\ H!Starved
  BY DEF H!ReadEnds
<1>2. BufferGood'
  BY <1>1 DEF WireInv, BufferGood, Parsed
<1>3. CASE handler.at = "head"
  BY <1>1, <1>2, <1>3, ThrowsKeepsWire DEF H!ReadEnds
<1>4. CASE handler.at # "head"
  <2>1. body.at \in Running /\ UNCHANGED handler
    BY <1>4 DEF H!ReadEnds, H!Starved, H!WantsLine, H!WantsBytes, Running
  <2>2. arrived = Len(response.units) \/ connection = "closed"
    BY DEF H!ReadEnds
  <2>3. CASE response.framing = "eof" /\ response.end = "fin" /\ connection = "open"
    <3>1. body.at = "data" /\ Parsed = w.head + Count
      BY <2>1, <2>3 DEF WireInv, Place, LengthParsed
    <3>2. buffer = <<>> /\ arrived = Len(response.units)
      BY <1>1, <1>4, <2>2, <2>3, <3>1 DEF H!Starved, H!WantsLine
    <3>3. /\ Len(buffer) = 0 /\ Parsed \in Nat /\ arrived = Parsed + Len(buffer)
      BY <3>2, BufferTyped DEF WireInv, SentOf
    <3>4. w.head \in Nat /\ Count \in Nat
      BY LenProperties DEF WireInv, Meant, GotInOrder, Count
    <3>5. Count = Len(response.units) - w.head /\ w.head <= Len(response.units)
      BY <3>1, <3>2, <3>3, <3>4
    <3>6. H!Closes("closed")
      BY <1>4, <2>3 DEF H!ReadEnds
    <3> QED
      BY <1>1, <1>2, <2>1, <2>3, <3>5, <3>6, WireCloses
  <2>4. CASE ~(response.framing = "eof" /\ response.end = "fin" /\ connection = "open")
    <3>1. H!Closes("errored")
      BY <1>4, <2>4 DEF H!ReadEnds
    <3>2. ASSUME handler.alive, response.whole PROVE response.framing = "eof" /\ response.end = "reset"
      <4>1. connection = "open"
        BY <2>1, <3>2 DEF WireInv, EndsWell
      <4>2. arrived = Len(response.units)
        BY <2>2, <4>1
      <4>3. response.framing = "eof"
        BY <1>1, <1>4, <2>1, <3>2, <4>2, NotStarved
      <4> QED
        BY <2>4, <4>1, <4>3 DEF WireInv, SentOf
    <3> QED
      BY <1>1, <1>2, <2>1, <3>1, <3>2, WireCloses
  <2> QED
    BY <2>3, <2>4
<1> QED
  BY <1>3, <1>4

(* A line of chunked_body.                                                 *)
LEMMA BecomesKeepsWire ==
  ASSUME NEW w, WireInv(w), FetchInv, UNCHANGED <<response, handler>>, BufferGood',
         body.at \in Running, NEW stage \in Running, NEW n, H!Becomes(stage, n),
         body'.at = stage /\ body'.remaining = n /\ Count' = Count => Place(w)'
  PROVE  WireInv(w)'
<1>1. /\ body'.at = stage /\ body'.remaining = n /\ body'.got = body.got /\ connection' = connection
  BY DEF H!Becomes, FetchInv, FetchShaped
<1>2. Count' = Count /\ GotInOrder'
  BY <1>1 DEF WireInv, GotInOrder, Count
<1> QED
  BY <1>1, <1>2, WireGoesOn

LEMMA ErrsKeepsWire ==
  ASSUME NEW w, WireInv(w), FetchInv, UNCHANGED <<response, handler>>, BufferGood',
         body.at \in Running, H!Closes("errored"), ~response.whole
  PROVE  WireInv(w)'
  BY WireCloses

LEMMA BoundaryKeepsWire ==
  ASSUME NEW w, WireInv(w), FetchInv, UNCHANGED <<response, handler>>, BufferGood', H!HasLine,
         Parsed' = Parsed + H!LineEnd, body.at = "boundary", response.framing = "chunked",
         IF H!Line = <<>> THEN H!Becomes("size", 0) ELSE H!Closes("errored")
  PROVE  WireInv(w)'
<1>1. Meant(w, response.framing) /\ SentOf(w) /\ BufferGood /\ w.units \in Seq(Units)
  BY DEF WireInv, Meant
<1>2. PICK c \in w.chunks : Parsed = c.start + 2 + c.size /\ Count = c.from + c.size
  BY DEF WireInv, Place, BoundaryParsed
<1>3. c.start \in Nat /\ c.from \in Nat /\ c.size \in Nat /\ ChunkOn(w, c)
  BY <1>1 DEF Meant, Chunks
<1>4. Parsed + 1 = c.start + c.size + 3
  BY <1>2, <1>3
<1>5. CASE H!Line = <<>>
  <2>1. H!LineEnd = 1
    BY <1>1, <1>5, LineOfNone
  <2>2. \/ Parsed' = w.last /\ Count = Body
        \/ \E d \in w.chunks : d.start = Parsed' /\ d.from = Count
    BY <1>2, <1>3, <1>4, <2>1 DEF ChunkOn
  <2>3. ASSUME body'.at = "size", Count' = Count PROVE Place(w)'
    BY <2>2, <2>3 DEF Place, LengthParsed, SizeParsed, DataParsed, BoundaryParsed, TrailersParsed
  <2> QED
    BY <1>5, <2>3, BecomesKeepsWire DEF Running
<1>6. CASE H!Line # <<>>
  <2>1. ASSUME response.whole PROVE FALSE
    <3>1. w.units[Parsed + 1] = H!Eol
      BY <1>3, <1>4 DEF ChunkOn
    <3>2. H!LineEnd <= 1
      BY <1>1, <2>1, <3>1, LineEndMeant
    <3>3. PICK e : e = H!LineEnd
      OBVIOUS
    <3>4. e \in Nat /\ e \in 1 .. Len(buffer)
      BY <1>1, <3>3, FirstLine
    <3>5. e = 1
      BY <3>2, <3>3, <3>4
    <3> QED
      BY <1>1, <1>6, <3>3, <3>5, LineOfNone
  <2> QED
    BY <1>6, <2>1, ErrsKeepsWire DEF Running
<1> QED
  BY <1>5, <1>6

(* The line of a size, wherever the server writes one.                     *)
LEMMA SizeLine ==
  ASSUME NEW w, w.units \in Seq(Units), SentOf(w), BufferGood, H!HasLine, NEW n \in Nat,
         w.units[Parsed + 1] = H!Size(n), w.units[Parsed + 2] = H!Eol
  PROVE  /\ Len(H!Line) = 1 /\ H!Line[1].kind = "size" => H!LineEnd = 2 /\ H!Line[1].n = n
         /\ ~(Len(H!Line) = 1 /\ H!Line[1].kind = "size") => ~response.whole
<1>1. ASSUME Len(H!Line) = 1, H!Line[1].kind = "size" PROVE H!LineEnd = 2 /\ H!Line[1].n = n
  <2>1. H!LineEnd = 2 /\ 1 \in 1 .. Len(buffer) /\ H!Line[1] = buffer[1]
    BY <1>1, LineOfOne
  <2>2. buffer[1] = w.units[Parsed + 1] \/ buffer[1] = H!Bad
    BY <2>1, MeantAt
  <2>3. buffer[1] # H!Bad
    BY <1>1, <2>1, UnitsAre
  <2> QED
    BY <2>1, <2>2, <2>3, UnitsAre
<1>2. ASSUME response.whole PROVE Len(H!Line) = 1 /\ H!Line[1].kind = "size"
  <2>1. PICK e : e = H!LineEnd
    OBVIOUS
  <2>2. /\ e \in 1 .. Len(buffer) /\ e \in Nat /\ buffer[e] = H!Eol /\ Len(H!Line) = e - 1
        /\ \A j \in 1 .. e - 1 : H!Line[j] = buffer[j]
    BY <2>1, FirstLine
  <2>3. e <= 2
    <3>1. 2 \in Nat \ {0}
      OBVIOUS
    <3> QED
      BY <1>2, <2>1, <3>1, LineEndMeant
  <2>4. 1 \in 1 .. Len(buffer)
    BY <2>2
  <2>5. buffer[1] = H!Size(n)
    BY <1>2, <2>4, MeantAt
  <2>6. H!Size(n) # H!Eol /\ H!Size(n).kind = "size"
    BY UnitsAre
  <2>7. e = 2
    BY <2>2, <2>3, <2>5, <2>6
  <2> QED
    BY <2>2, <2>5, <2>6, <2>7
<1> QED
  BY <1>1, <1>2

LEMMA SizeKeepsWire ==
  ASSUME NEW w, WireInv(w), FetchInv, UNCHANGED <<response, handler>>, BufferGood', H!HasLine,
         Parsed' = Parsed + H!LineEnd, body.at = "size", response.framing = "chunked",
         IF Len(H!Line) = 1 /\ H!Line[1].kind = "size"
         THEN H!Becomes(IF H!Line[1].n = 0 THEN "trailers" ELSE "data", H!Line[1].n)
         ELSE H!Closes("errored")
  PROVE  WireInv(w)'
<1>1. /\ Meant(w, response.framing) /\ SentOf(w) /\ BufferGood /\ w.units \in Seq(Units)
      /\ LastOn(w) /\ w.last \in Nat
  BY DEF WireInv, Meant
<1>2. Count \in Nat /\ Body \in Nat
  BY FetchAssumption, LenProperties DEF WireInv, GotInOrder, Count
<1>3. ASSUME NEW n \in Nat, w.units[Parsed + 1] = H!Size(n), w.units[Parsed + 2] = H!Eol,
             n = 0 => /\ Count = Body
                      /\ \/ Parsed = w.last
                         \/ \E c \in w.chunks : c.size = 0 /\ Parsed = c.start,
             n # 0 => \E c \in w.chunks : c.start = Parsed /\ c.from = Count /\ c.size = n
      PROVE  WireInv(w)'
  <2>1. CASE ~(Len(H!Line) = 1 /\ H!Line[1].kind = "size")
    <3>1. ~response.whole
      BY <1>1, <1>3, <2>1, SizeLine
    <3> QED
      BY <2>1, <3>1, ErrsKeepsWire DEF Running
  <2>2. CASE Len(H!Line) = 1 /\ H!Line[1].kind = "size"
    <3>1. H!LineEnd = 2 /\ H!Line[1].n = n
      BY <1>1, <1>3, <2>2, SizeLine
    <3>2. CASE n = 0
      <4>1. ASSUME body'.at = "trailers", Count' = Count PROVE Place(w)'
        <5>1. \/ Parsed' \in {w.last + 2, w.last + 4}
              \/ \E c \in w.chunks : c.size = 0 /\ Parsed' = c.start + 2
          BY <1>3, <3>1, <3>2
        <5>2. Count' = Body
          BY <1>3, <3>2, <4>1
        <5> QED
          BY <4>1, <5>1, <5>2
             DEF Place, LengthParsed, SizeParsed, DataParsed, BoundaryParsed, TrailersParsed
      <4>2. H!Becomes("trailers", 0)
        BY <2>2, <3>1, <3>2
      <4> QED
        BY <4>1, <4>2, BecomesKeepsWire DEF Running
    <3>3. CASE n # 0
      <4>1. ASSUME body'.at = "data", body'.remaining = n, Count' = Count PROVE Place(w)'
        <5>1. PICK c \in w.chunks : c.start = Parsed /\ c.from = Count /\ c.size = n
          BY <1>3, <3>3
        <5>2. c.start \in Nat /\ c.from \in Nat /\ c.size \in Nat
          BY <1>1 DEF Meant, Chunks
        <5>3. /\ Count \in c.from .. c.from + c.size - 1
              /\ Parsed' = c.start + 2 + (Count - c.from)
              /\ n = c.from + c.size - Count
          BY <3>1, <3>3, <5>1, <5>2
        <5> QED
          BY <4>1, <5>3
             DEF Place, LengthParsed, SizeParsed, DataParsed, BoundaryParsed, TrailersParsed
      <4>2. H!Becomes("data", n)
        BY <2>2, <3>1, <3>3
      <4> QED
        BY <4>1, <4>2, BecomesKeepsWire DEF Running
    <3> QED
      BY <3>2, <3>3
  <2> QED
    BY <2>1, <2>2
<1>4. ASSUME NEW c \in w.chunks, c.start = Parsed, c.from = Count PROVE WireInv(w)'
  <2>1. c.size \in Nat /\ ChunkOn(w, c)
    BY <1>1 DEF Meant, Chunks
  <2>2. w.units[Parsed + 1] = H!Size(c.size) /\ w.units[Parsed + 2] = H!Eol
    BY <1>4, <2>1 DEF ChunkOn
  <2>3. c.size = 0 => Count = Body
    BY <1>4, <2>1 DEF ChunkOn
  <2> QED
    BY <1>3, <1>4, <2>1, <2>2, <2>3
<1>5. CASE Parsed = w.last /\ Count = Body
  <2>1. w.units[Parsed + 1] = H!Size(0) /\ w.units[Parsed + 2] = H!Eol
    BY <1>1, <1>5 DEF LastOn
  <2> QED
    BY <1>3, <1>5, <2>1
<1> QED
  BY <1>4, <1>5 DEF WireInv, Place, SizeParsed

LEMMA TrailersKeepWire ==
  ASSUME NEW w, WireInv(w), FetchInv, UNCHANGED <<response, handler>>, BufferGood', H!HasLine,
         Parsed' = Parsed + H!LineEnd, body.at = "trailers", response.framing = "chunked",
         IF H!Line = <<>> THEN H!Closes("closed") ELSE H!Becomes("trailers", 0)
  PROVE  WireInv(w)'
<1>1. /\ Meant(w, response.framing) /\ SentOf(w) /\ BufferGood /\ w.units \in Seq(Units)
      /\ LastOn(w) /\ w.last \in Nat
  BY DEF WireInv, Meant
<1>2. Count = Body
  BY DEF WireInv, Place, TrailersParsed
<1>3. CASE H!Line = <<>>
  BY <1>2, <1>3, WireCloses DEF Running
<1>4. CASE H!Line # <<>>
  <2>1. PICK e : e = H!LineEnd
    OBVIOUS
  <2>2. e \in Nat /\ e \in 1 .. Len(buffer) /\ e # 1
    BY <1>1, <1>4, <2>1, FirstLine, LineOfNone
  <2>3. ASSUME response.whole PROVE Parsed' = w.last + 4
    <3>1. w.units[Parsed + 1] # H!Eol
      <4>1. ASSUME w.units[Parsed + 1] = H!Eol PROVE FALSE
        <5>1. e <= 1
          BY <1>1, <2>1, <2>3, <4>1, LineEndMeant
        <5> QED
          BY <2>2, <5>1
      <4> QED
        BY <4>1
    <3>2. Parsed # w.last + 4
      <4>1. w.last + 4 + 1 = w.last + 5
        BY <1>1
      <4> QED
        BY <1>1, <3>1, <4>1 DEF LastOn
    <3>3. \A c \in w.chunks : ~(c.size = 0 /\ Parsed = c.start + 2)
      <4> SUFFICES ASSUME NEW c \in w.chunks, c.size = 0, Parsed = c.start + 2 PROVE FALSE
        OBVIOUS
      <4>1. c.start \in Nat /\ ChunkOn(w, c)
        BY <1>1 DEF Meant, Chunks
      <4>2. c.start + c.size + 3 = Parsed + 1
        BY <4>1
      <4> QED
        BY <3>1, <4>1, <4>2 DEF ChunkOn
    <3>4. Parsed = w.last + 2
      BY <2>3, <3>2, <3>3 DEF WireInv, Place, TrailersParsed
    <3>5. Parsed + 2 = w.last + 4 /\ 2 \in Nat \ {0}
      BY <1>1, <3>4
    <3>6. e <= 2
      <4>1. w.units[Parsed + 2] = H!Eol
        BY <1>1, <3>5 DEF LastOn
      <4> QED
        BY <1>1, <2>1, <2>3, <3>5, <4>1, LineEndMeant
    <3>7. e = 2
      BY <2>2, <3>6
    <3> QED
      BY <2>1, <3>5, <3>7
  <2>4. ASSUME body'.at = "trailers", Count' = Count PROVE Place(w)'
    BY <1>2, <2>3, <2>4
       DEF Place, LengthParsed, SizeParsed, DataParsed, BoundaryParsed, TrailersParsed
  <2> QED
    BY <1>4, <2>4, BecomesKeepsWire DEF Running
<1> QED
  BY <1>3, <1>4

LEMMA ChunkLineKeepsWire ==
  ASSUME NEW w, WireInv(w), FetchInv, H!ChunkLine
  PROVE  WireInv(w)'
<1>1. /\ body.at \in {"boundary", "size", "trailers"} /\ H!HasLine /\ H!Consume(H!LineEnd)
      /\ UNCHANGED <<response, arrived, handler, upload>>
  BY DEF H!ChunkLine
<1>2. response.framing = "chunked"
  BY <1>1 DEF WireInv, Place, LengthParsed, Running
<1>3. BufferGood /\ response.units \in Seq(Units) /\ Len(buffer) \in Nat
  BY LenProperties DEF WireInv, SentOf, BufferGood
<1>4. H!LineEnd \in 0 .. Len(buffer)
  BY <1>1, <1>3, FirstLine
<1>5. BufferGood' /\ Parsed' = Parsed + H!LineEnd
  BY <1>1, <1>3, <1>4, ConsumeKeeps
<1>6. CASE body.at = "boundary"
  <2>1. IF H!Line = <<>> THEN H!Becomes("size", 0) ELSE H!Closes("errored")
    BY <1>6 DEF H!ChunkLine
  <2> QED
    BY <1>1, <1>2, <1>5, <1>6, <2>1, BoundaryKeepsWire
<1>7. CASE body.at = "size"
  <2>1. IF Len(H!Line) = 1 /\ H!Line[1].kind = "size"
        THEN H!Becomes(IF H!Line[1].n = 0 THEN "trailers" ELSE "data", H!Line[1].n)
        ELSE H!Closes("errored")
    BY <1>7 DEF H!ChunkLine
  <2> QED
    BY <1>1, <1>2, <1>5, <1>7, <2>1, SizeKeepsWire
<1>8. CASE body.at = "trailers"
  <2>1. IF H!Line = <<>> THEN H!Closes("closed") ELSE H!Becomes("trailers", 0)
    BY <1>8 DEF H!ChunkLine
  <2> QED
    BY <1>1, <1>2, <1>5, <1>8, <2>1, TrailersKeepWire
<1> QED
  BY <1>1, <1>6, <1>7, <1>8

(* take(remaining): what is taken are the next bytes of the body.          *)
LEMMA TakenBytes ==
  ASSUME NEW w, WireInv(w), NEW t \in 1 .. Len(buffer), \A i \in 1 .. t : buffer[i] = Byte(Count + i),
         body'.got = body.got \o SubSeq(buffer, 1, t)
  PROVE  GotInOrder' /\ Count' = Count + t
<1>1. /\ buffer \in Seq(Units) /\ Len(buffer) \in Nat /\ body.got \in Seq(Units) /\ Count \in Nat
      /\ \A i \in 1 .. Count : body.got[i] = Byte(i)
  BY LenProperties DEF WireInv, BufferGood, GotInOrder, Count
<1>2. PICK s : s = SubSeq(buffer, 1, t)
  OBVIOUS
<1>3. s \in Seq(Units) /\ Len(s) = t /\ \A i \in 1 .. t : s[i] = buffer[i]
  <2>1. 0 \in Nat /\ t \in Nat /\ 0 + t <= Len(buffer) /\ s = SubSeq(buffer, 0 + 1, 0 + t)
    BY <1>1, <1>2
  <2>2. IsSlice(s, buffer, 0, t)
    BY <1>1, <2>1, Sliced, Zenon
  <2>3. \A i \in 1 .. t : 0 + i = i
    OBVIOUS
  <2> QED
    BY <2>2, <2>3 DEF IsSlice
<1>4. Joins(body'.got, body.got, s)
  BY <1>1, <1>2, <1>3, Joined, Zenon
<1>5. /\ body'.got \in Seq(Units) /\ Len(body'.got) = Count + t
      /\ \A i \in 1 .. Count : body'.got[i] = body.got[i]
      /\ \A i \in 1 .. t : body'.got[Count + i] = s[i]
  BY <1>3, <1>4 DEF Joins, Count
<1>6. Count' = Count + t
  BY <1>5 DEF Count
<1>7. ASSUME NEW i \in 1 .. Count + t PROVE body'.got[i] = Byte(i)
  <2>1. CASE i <= Count
    BY <1>1, <1>5, <2>1
  <2>2. CASE ~(i <= Count)
    <3>1. PICK j : j = i - Count
      OBVIOUS
    <3>2. j \in 1 .. t /\ Count + j = i
      BY <1>1, <2>2, <3>1
    <3>3. body'.got[Count + j] = s[j] /\ s[j] = buffer[j] /\ buffer[j] = Byte(Count + j)
      BY <1>3, <1>5, <3>2
    <3> QED
      BY <3>2, <3>3
  <2> QED
    BY <2>1, <2>2
<1> QED
  BY <1>5, <1>6, <1>7 DEF GotInOrder

LEMMA DataKeepsWire ==
  ASSUME NEW w, WireInv(w), FetchInv, H!Data
  PROVE  WireInv(w)'
<1>1. PICK t : t = H!Take
  OBVIOUS
<1>2. PICK left : left = IF body.remaining = H!Unlimited THEN H!Unlimited ELSE body.remaining - t
  OBVIOUS
<1>3. PICK b : b = [body EXCEPT !.got = @ \o SubSeq(buffer, 1, t), !.remaining = left]
  OBVIOUS
<1>4. /\ body.at = "data" /\ body.remaining > 0 /\ buffer # <<>> /\ H!Consume(t)
      /\ UNCHANGED <<response, arrived, handler, upload>>
      /\ \/ left > 0 /\ body' = b /\ UNCHANGED connection
         \/ left = 0 /\ response.framing = "chunked" /\ body' = [b EXCEPT !.at = "boundary"] /\ UNCHANGED connection
         \/ left = 0 /\ response.framing = "fixed" /\ body' = [b EXCEPT !.at = "closed"] /\ connection' = "closed"
  BY <1>1, <1>2, <1>3 DEF H!Data, H!WantsBytes
<1>5. /\ body'.got = body.got \o SubSeq(buffer, 1, t) /\ body'.remaining = left
      /\ \/ left > 0 /\ body'.at = "data" /\ connection' = connection
         \/ left = 0 /\ response.framing = "chunked" /\ body'.at = "boundary" /\ connection' = connection
         \/ left = 0 /\ response.framing = "fixed" /\ body'.at = "closed"
  <2>1. /\ b.got = body.got \o SubSeq(buffer, 1, t) /\ b.remaining = left /\ b.at = "data"
        /\ b = [at |-> b.at, remaining |-> b.remaining, got |-> b.got]
    BY <1>3, <1>4 DEF FetchInv, FetchShaped
  <2> QED
    BY <1>4, <2>1
<1>6. /\ Meant(w, response.framing) /\ SentOf(w) /\ BufferGood /\ w.units \in Seq(Units)
      /\ response.units \in Seq(Units) /\ buffer \in Seq(Units)
      /\ w.head \in Nat /\ Body \in Nat /\ Count \in Nat /\ Len(buffer) \in Nat /\ Parsed \in Nat
      /\ Len(w.units) \in Nat
  <2>1. Len(buffer) \in Nat /\ Parsed \in Nat
    BY BufferTyped DEF WireInv, SentOf
  <2> QED
    BY <2>1, FetchAssumption, LenProperties DEF WireInv, Meant, SentOf, BufferGood, GotInOrder, Count
<1>7. Len(buffer) > 0
  BY <1>4, <1>6, EmptySeq
<1>8. ASSUME NEW r \in Nat, r = body.remaining
      PROVE  t \in 1 .. Len(buffer) /\ t <= r
  BY <1>1, <1>4, <1>6, <1>7, <1>8 DEF H!Take
<1>9. ASSUME NEW i \in 1 .. Len(buffer), w.units[Parsed + i] = Byte(Count + i)
      PROVE  buffer[i] = Byte(Count + i)
  <2>1. w.units[Parsed + i].kind = "byte"
    <3>1. Count + i \in Nat
      BY <1>6
    <3> QED
      BY <1>9, <3>1, UnitsAre
  <2> QED
    BY <1>6, <1>9, <2>1, MeantAt
<1>10. ASSUME t \in 1 .. Len(buffer) PROVE BufferGood' /\ Parsed' = Parsed + t
  <2>1. t \in 0 .. Len(buffer)
    BY <1>10
  <2> QED
    BY <1>4, <1>6, <2>1, ConsumeKeeps
<1>11. ASSUME BufferGood', GotInOrder', body'.at \in Running, connection' = connection, Place(w)'
       PROVE  WireInv(w)'
  BY <1>4, <1>11, WireGoesOn DEF Running
<1>12. CASE response.framing # "chunked"
  <2>1. /\ Parsed = w.head + Count
        /\ response.framing = "fixed" => Count < Body /\ body.remaining = Body - Count
        /\ response.framing = "eof" => body.remaining = Body + 1
        /\ response.framing \in {"fixed", "eof"}
    BY <1>4, <1>6, <1>12 DEF WireInv, Place, LengthParsed, Running, H!Unlimited, SentOf
  <2>2. PICK r \in Nat : r = body.remaining
    BY <1>6, <2>1
  <2>3. t \in 1 .. Len(buffer) /\ t <= r /\ t \in Nat
    BY <1>8, <2>2
  <2>4. ASSUME NEW i \in 1 .. t PROVE buffer[i] = Byte(Count + i)
    <3>1. i \in 1 .. Len(buffer)
      BY <1>6, <2>3
    <3>2. Parsed + i <= Len(w.units)
      BY <1>6, <3>1, MeantAt
    <3>3. Len(w.units) = w.head + Body /\ \A j \in 1 .. Body : w.units[w.head + j] = Byte(j)
      BY <1>6, <1>12 DEF Meant
    <3>4. Count + i \in 1 .. Body /\ Parsed + i = w.head + (Count + i)
      BY <1>6, <2>1, <3>2, <3>3
    <3> QED
      BY <1>9, <3>1, <3>3, <3>4
  <2>5. BufferGood' /\ Parsed' = Parsed + t /\ GotInOrder' /\ Count' = Count + t
    BY <1>5, <1>10, <2>3, <2>4, TakenBytes
  <2>6. Parsed' = w.head + Count'
    BY <1>6, <2>1, <2>3, <2>5
  <2>7. CASE left > 0
    <3>1. body'.at = "data" /\ connection' = connection /\ body'.remaining = left
      BY <1>5, <2>7
    <3>2. response.framing = "fixed" => Count' < Body /\ left = Body - Count'
      BY <1>2, <1>6, <2>1, <2>3, <2>5, <2>7 DEF H!Unlimited
    <3>3. response.framing = "eof" => left = H!Unlimited
      BY <1>2, <2>1 DEF H!Unlimited
    <3>4. Place(w)'
      BY <1>4, <1>12, <2>6, <3>1, <3>2, <3>3
         DEF Place, LengthParsed, SizeParsed, DataParsed, BoundaryParsed, TrailersParsed
    <3> QED
      BY <1>11, <2>5, <3>1, <3>4 DEF Running
  <2>8. CASE ~(left > 0)
    <3>1. left = 0 /\ response.framing = "fixed" /\ body'.at = "closed"
      BY <1>5, <1>12, <2>8
    <3>2. Count' = Body
      BY <1>2, <1>6, <2>1, <2>3, <2>5, <3>1 DEF H!Unlimited
    <3>3. Place(w)' /\ EndsWell(w)'
      BY <1>4, <3>1, <3>2 DEF Place, LengthParsed, SizeParsed, DataParsed, BoundaryParsed,
           TrailersParsed, EndsWell, Running
    <3>4. HeadParsed(w)'
      BY <1>4 DEF FetchInv, HeadParsed
    <3>5. (Meant(w, response.framing) /\ SentOf(w))'
      BY <1>4, <1>6, MeantStays
    <3> QED
      BY <2>5, <3>3, <3>4, <3>5 DEF WireInv
  <2> QED
    BY <2>7, <2>8
<1>13. CASE response.framing = "chunked"
  <2>1. PICK c \in w.chunks : /\ Count \in c.from .. c.from + c.size - 1
                              /\ Parsed = c.start + 2 + (Count - c.from)
                              /\ body.remaining = c.from + c.size - Count
    BY <1>4, <1>13 DEF WireInv, Place, DataParsed
  <2>2. c.start \in Nat /\ c.from \in Nat /\ c.size \in Nat /\ ChunkOn(w, c)
    BY <1>6, <1>13 DEF Meant, Chunks
  <2>3. PICK s \in Nat, f \in Nat, z \in Nat : s = c.start /\ f = c.from /\ z = c.size
    BY <2>2
  <2>4. PICK k \in Nat, p \in Nat : k = Count /\ p = Parsed
    BY <1>6
  <2>5. k \in f .. f + z - 1 /\ p = s + 2 + (k - f) /\ body.remaining = f + z - k
    BY <2>1, <2>3, <2>4
  <2>6. PICK d \in Nat : d < z /\ k = f + d /\ p = s + 2 + d
    <3>1. k - f \in Nat /\ k - f < z /\ k = f + (k - f)
      BY <2>5
    <3> QED
      BY <2>5, <3>1
  <2>7. body.remaining = z - d /\ z - d \in Nat
    BY <2>5, <2>6
  <2>8. t \in 1 .. Len(buffer) /\ t <= z - d /\ t \in Nat
    BY <1>8, <2>7
  <2>9. f + z <= Body /\ \A i \in 1 .. z : w.units[s + 2 + i] = Byte(f + i)
    BY <2>2, <2>3 DEF ChunkOn
  <2>10. ASSUME NEW i \in 1 .. t PROVE buffer[i] = Byte(Count + i)
    <3>1. i \in 1 .. Len(buffer) /\ i \in Nat
      BY <1>6, <2>8
    <3>2. d + i \in 1 .. z
      <4>1. i <= t /\ t <= z - d /\ t \in Nat
        BY <2>8
      <4>2. d + i <= z
        BY <3>1, <4>1
      <4> QED
        BY <3>1, <4>2
    <3>3. p + i = s + 2 + (d + i)
      BY <2>6, <3>1
    <3>4. k + i = f + (d + i)
      BY <2>6, <3>1
    <3>5. w.units[p + i] = Byte(k + i)
      BY <2>9, <3>2, <3>3, <3>4
    <3> QED
      BY <1>9, <2>4, <3>1, <3>5
  <2>11. BufferGood' /\ Parsed' = p + t /\ GotInOrder' /\ Count' = k + t
    BY <1>5, <1>10, <2>4, <2>8, <2>10, TakenBytes
  <2>12. left = z - d - t
    BY <1>2, <1>6, <2>6, <2>7, <2>9 DEF H!Unlimited
  <2>13. body'.at \in {"data", "boundary"} /\ connection' = connection /\ body'.remaining = left
    BY <1>5, <1>13
  <2>14. Place(w)'
    <3>1. CASE left > 0
      <4>1. body'.at = "data"
        BY <1>5, <3>1
      <4>2. k + t \in f .. f + z - 1
        BY <2>6, <2>8, <2>12, <3>1
      <4>3. p + t = s + 2 + (k + t - f) /\ left = f + z - (k + t)
        BY <2>6, <2>8, <2>12
      <4>4. /\ Count' \in c.from .. c.from + c.size - 1
            /\ Parsed' = c.start + 2 + (Count' - c.from)
            /\ body'.remaining = c.from + c.size - Count'
        <5>1. Count' \in f .. f + z - 1
          BY <2>11, <4>2, Zenon
        <5>2. Parsed' = s + 2 + (Count' - f)
          BY <2>8, <2>11, <4>3
        <5>3. body'.remaining = f + z - Count'
          BY <2>11, <2>13, <4>3, Zenon
        <5> QED
          BY <2>3, <5>1, <5>2, <5>3, Zenon
      <4> QED
        BY <1>4, <1>13, <4>1, <4>4
           DEF Place, LengthParsed, SizeParsed, DataParsed, BoundaryParsed, TrailersParsed
    <3>2. CASE left = 0
      <4>1. body'.at = "boundary"
        BY <1>5, <1>13, <3>2
      <4>2. p + t = s + 2 + z /\ k + t = f + z
        BY <2>6, <2>8, <2>12, <3>2
      <4>3. Parsed' = c.start + 2 + c.size /\ Count' = c.from + c.size
        BY <2>3, <2>11, <4>2
      <4> QED
        BY <1>4, <1>13, <4>1, <4>3
           DEF Place, LengthParsed, SizeParsed, DataParsed, BoundaryParsed, TrailersParsed
    <3> QED
      BY <1>5, <3>1, <3>2
  <2> QED
    BY <1>11, <2>11, <2>13, <2>14 DEF Running
<1> QED
  BY <1>12, <1>13

LEMMA WireInvStep ==
  ASSUME NEW w, WireInv(w), FetchInv, H!Next \/ UNCHANGED guestFetchVars
  PROVE  WireInv(w)'
<1>1. CASE H!Caught
  <2>1. /\ UNCHANGED <<response, arrived, buffer, body, connection>>
        /\ handler'.at = "rejected" /\ handler'.alive = handler.alive
    BY <1>1 DEF H!Caught, FetchInv, FetchShaped
  <2>2. Parsed' = Parsed
    BY <2>1 DEF Parsed
  <2>3. BufferGood' /\ HeadParsed(w)'
    BY <2>1, <2>2 DEF WireInv, BufferGood, HeadParsed
  <2> QED
    BY <2>1, <2>2, <2>3, WireSame
<1>2. CASE H!Cancel
  <2>1. /\ body.at \in Running /\ H!Closes("cancelled") /\ UNCHANGED <<response, arrived, buffer, handler>>
    BY <1>2 DEF H!Cancel, Running
  <2>2. BufferGood'
    BY <2>1 DEF WireInv, BufferGood, Parsed
  <2> QED
    BY <2>1, <2>2, WireCloses
<1>3. CASE UNCHANGED guestFetchVars
  <2>1. UNCHANGED <<response, arrived, buffer, handler, body, connection>>
    BY <1>3 DEF guestFetchVars
  <2>2. Parsed' = Parsed
    BY <2>1 DEF Parsed
  <2>3. BufferGood' /\ HeadParsed(w)'
    BY <2>1, <2>2 DEF WireInv, BufferGood, HeadParsed
  <2> QED
    BY <2>1, <2>2, <2>3, WireSame
<1>4. CASE \E n \in 1 .. Len(response.units) : H!Fill(n)
  BY <1>4, FillKeepsWire
<1>5. CASE \/ H!HeadWritten \/ H!SourceEnds \/ H!SourceFails \/ H!Written \/ H!WriteFails
           \/ \E n \in 1 .. Upload : H!SourceGives(n)
  BY <1>5, SendKeepsWire
<1>6. CASE H!ReadEnds
  BY <1>6, ReadEndsKeepsWire
<1>7. CASE H!ParseHead
  BY <1>7, ParseHeadKeepsWire
<1>8. CASE H!ChunkLine
  BY <1>8, ChunkLineKeepsWire
<1>9. CASE H!Data
  BY <1>9, DataKeepsWire
<1> QED
  BY <1>1, <1>2, <1>3, <1>4, <1>5, <1>6, <1>7, <1>8, <1>9, Zenon DEF H!Next

(* A body without a length that ends has all the bytes that were sent.     *)
LEMMA SentIs ==
  ASSUME NEW w, WireInv(w), response.framing = "eof", w.head <= Len(response.units)
  PROVE  H!Sent = Len(response.units) - w.head
<1>1. /\ Meant(w, response.framing) /\ SentOf(w) /\ w.units \in Seq(Units) /\ response.units \in Seq(Units)
      /\ w.head \in Nat /\ Len(response.units) \in Nat /\ Len(w.units) \in Nat /\ Body \in Nat
      /\ Len(response.units) <= Len(w.units)
  <2>1. Meant(w, response.framing) /\ SentOf(w)
    BY DEF WireInv
  <2>2. w.units \in Seq(Units) /\ w.head \in Nat
    BY <2>1 DEF Meant
  <2>3. response.units \in Seq(Units) /\ Len(response.units) <= Len(w.units)
    BY <2>1 DEF SentOf
  <2> QED
    BY <2>1, <2>2, <2>3, FetchAssumption, LenProperties
<1>2. PICK n \in Nat : n = Len(response.units)
  BY <1>1
<1>3. /\ Len(w.units) = w.head + Body
      /\ \A i \in 1 .. Body : w.units[w.head + i] = Byte(i)
      /\ \A i \in 1 .. w.head : w.units[i].kind # "byte"
  BY <1>1 DEF Meant
<1>4. ASSUME NEW i \in 1 .. n PROVE response.units[i].kind = "byte" <=> i > w.head
  <2>1. \/ response.units[i] = w.units[i]
        \/ response.units[i] = H!Bad /\ w.units[i].kind # "byte"
    BY <1>1, <1>2 DEF SentOf
  <2>2. CASE i > w.head
    <3>1. PICK j : j = i - w.head
      OBVIOUS
    <3>2. j \in 1 .. Body /\ w.head + j = i /\ j \in Nat
      <4>1. PICK m \in Nat : m = w.head
        BY <1>1
      <4>2. i <= m + Body /\ i > m /\ j = i - m
        BY <1>1, <1>2, <1>3, <2>2, <3>1, <4>1
      <4>3. j \in Int /\ m + j = i
        BY <4>2
      <4>4. j \in 1 .. Body /\ j \in Nat
        BY <1>1, <4>2, <4>3
      <4> QED
        BY <4>1, <4>3, <4>4
    <3>3. w.units[i] = Byte(j)
      BY <1>3, <3>2
    <3>4. w.units[i].kind = "byte"
      BY <3>2, <3>3, UnitsAre
    <3> QED
      BY <2>1, <2>2, <3>4
  <2>3. CASE ~(i > w.head)
    <3>1. i \in 1 .. w.head
      BY <1>1, <2>3
    <3>2. w.units[i].kind # "byte" /\ H!Bad.kind # "byte"
      BY <1>3, <3>1, UnitsAre
    <3> QED
      BY <2>1, <2>3, <3>2
  <2> QED
    BY <2>2, <2>3
<1>5. {i \in 1 .. Len(response.units) : response.units[i].kind = "byte"} = w.head + 1 .. n
  <2>1. {i \in 1 .. n : response.units[i].kind = "byte"} = {i \in 1 .. n : i > w.head}
    BY <1>4
  <2>2. {i \in 1 .. n : i > w.head} = w.head + 1 .. n
    BY <1>1
  <2> QED
    BY <1>2, <2>1, <2>2
<1>6. w.head + 1 \in Int /\ n \in Int /\ w.head <= n
  BY <1>1, <1>2
<1>7. Cardinality(w.head + 1 .. n) = IF w.head + 1 > n THEN 0 ELSE n - (w.head + 1) + 1
  BY <1>6, FS_Interval
<1>8. Cardinality(w.head + 1 .. n) = n - w.head
  BY <1>1, <1>6, <1>7
<1>9. H!Sent = Cardinality(w.head + 1 .. n)
  BY <1>5 DEF H!Sent, H!Cardinality, Cardinality
<1> QED
  BY <1>2, <1>8, <1>9

LEMMA WireIsWhole ==
  ASSUME NEW w, WireInv(w) PROVE ResponseWhole
<1>1. /\ body.got \in Seq(Units) /\ Count \in Nat /\ Len(body.got) = Count
      /\ \A i \in 1 .. Count : body.got[i] = Byte(i)
  BY LenProperties DEF WireInv, GotInOrder, Count
<1>2. body.got = H!Bytes(0, Len(body.got))
  <2>1. PICK s : s = H!Bytes(0, Count)
    OBVIOUS
  <2>2. s \in Seq(Units) /\ Len(s) = Count /\ \A i \in 1 .. Count : s[i] = Byte(0 + i)
    BY <1>1, <2>1, BytesAre
  <2>3. \A i \in 1 .. Count : s[i] = body.got[i]
    <3>1. \A i \in 1 .. Count : 0 + i = i
      OBVIOUS
    <3> QED
      BY <1>1, <2>2, <3>1
  <2>4. s = body.got
    BY <1>1, <2>2, <2>3, SeqEqual
  <2> QED
    BY <1>1, <2>1, <2>4
<1>3. body.at = "closed" => Len(body.got) = IF response.framing = "eof" THEN H!Sent ELSE Body
  BY <1>1, SentIs DEF WireInv, EndsWell
<1>4. body.at = "errored" /\ handler.alive =>
       ~response.whole \/ (response.framing = "eof" /\ response.end = "reset")
  BY DEF WireInv, EndsWell
<1> QED
  BY <1>2, <1>3, <1>4 DEF ResponseWhole, H!ResponseWhole

(* The response that guestFetchHandler of guest-fetch-handler.ts returns   *)
(* has the server's bytes in order, however the ByteReader of http.ts is   *)
(* given them and whichever line the server garbles or breaks off at: its  *)
(* normal end comes after all of them, and a whole response is not broken  *)
(* off, also when the upload fails after its head was parsed.              *)
THEOREM ResponsesAreWhole == ServicesSpec => []ResponseWhole
<1>1. ServicesInit => FetchInv /\ \E w : WireInv(w)
  BY FetchInvInit, WireInvInit DEF ServicesInit
<1>2. (FetchInv /\ \E w : WireInv(w)) /\ [ServicesNext]_servicesVars => (FetchInv /\ \E w : WireInv(w))'
  <2> SUFFICES ASSUME FetchInv, \E w : WireInv(w), [ServicesNext]_servicesVars
               PROVE  FetchInv' /\ \E w : WireInv(w)'
    OBVIOUS
  <2>1. H!Next \/ UNCHANGED guestFetchVars
    BY DEF ServicesNext, servicesVars
  <2>2. FetchInv'
    BY <2>1, FetchInvStep
  <2>3. PICK w : WireInv(w)
    OBVIOUS
  <2>4. WireInv(w)'
    BY <2>1, <2>3, WireInvStep
  <2> QED
    BY <2>2, <2>4
<1>3. (\E w : WireInv(w)) => ResponseWhole
  BY WireIsWhole
<1> QED
  BY <1>1, <1>2, <1>3, PTL DEF ServicesSpec, servicesVars

-----------------------------------------------------------------------------
(***************************************************************************)
(* A guest's HTTP request that the host answers.                           *)
(***************************************************************************)
Answer == X!Errors \cup {"200"}
Output == Answer \cup {"100", "piece", "end"}

Unanswered == {"head", "continue", "continued", "fetch"}
Answering == {"answer", "error", "stream", "piece", "close"}
Awaits == Unanswered \cup Answering \cup {"finally", "over"}

(* What stands on the connection at each await.                            *)
Standing ==
  /\ at \in Unanswered \cup {"answer", "error"} =>
       ~X!Said(Answer) /\ ~X!Said({"piece"}) /\ ~X!Said({"end"})
  /\ at \in {"head", "continue"} => out = <<>>
  /\ at \in {"stream", "piece"} => X!Said({"200"}) /\ ~X!Said(X!Errors) /\ ~X!Said({"end"})
  /\ at = "close" =>
       X!Said(Answer) /\ ~X!Said({"end"}) /\ (X!Said({"piece"}) => source.left = 0)

(* What is being written at each await.                                    *)
Writing ==
  /\ at = "continue" => writing = "100"
  /\ at = "answer" => writing = "200"
  /\ at = "error" => writing \in X!Errors
  /\ at = "piece" => writing = "piece"
  /\ at = "close" => writing = "end"

(* The invariant: OneAnswer speaks of what was written; this adds what    *)
(* each await leaves possible, above all that final_output_started is set  *)
(* wherever an answer is on its way, which the outer catch relies on.      *)
AnswerInv ==
  /\ at \in Awaits /\ out \in Seq(Output) /\ DOMAIN source = {"left", "reader"}
  /\ at \in Unanswered => final_output_started = FALSE
  /\ at \in Answering => final_output_started = TRUE
  /\ Standing /\ Writing /\ X!OneAnswer

-----------------------------------------------------------------------------
(* Writing one more thing adds its place and moves no other.               *)
LEMMA PlacesAppend ==
  ASSUME NEW x \in Output, out \in Seq(Output), out' = Append(out, x), NEW what
  PROVE  X!Places(what)' = IF x \in what THEN X!Places(what) \cup {Len(out) + 1} ELSE X!Places(what)
<1>1. Len(out') = Len(out) + 1 /\ out'[Len(out) + 1] = x /\ Len(out) \in Nat
  OBVIOUS
<1>2. \A i \in 1 .. Len(out) : out'[i] = out[i]
  OBVIOUS
<1> QED
  BY <1>1, <1>2 DEF X!Places

(* A step that writes nothing and leaves the body alone keeps what was said.*)
LEMMA SaidKept ==
  ASSUME out' = out
  PROVE  \A what : X!Places(what)' = X!Places(what) /\ (X!Said(what)' <=> X!Said(what))
  BY DEF X!Said, X!Places

(* The outer catch answers 400 where no answer was begun, and ends the     *)
(* exchange otherwise.                                                     *)
LEMMA CatchKeeps ==
  ASSUME AnswerInv, at \in Unanswered \cup Answering, X!Catch,
         UNCHANGED <<out, request, source, aborted>>
  PROVE  AnswerInv'
<1> USE SaidKept DEF Unanswered, Answering, Awaits
<1>1. X!OneAnswer'
  BY DEF AnswerInv, X!OneAnswer
<1>2. CASE final_output_started
  BY <1>1, <1>2 DEF AnswerInv, X!Catch, Standing, Writing
<1>3. CASE ~final_output_started
  <2>1. at \in Unanswered
    BY <1>3 DEF AnswerInv
  <2>2. at' = "error" /\ writing' = "400" /\ final_output_started' = TRUE
    BY <1>3 DEF X!Catch, X!error_response, X!Writes
  <2> QED
    BY <1>1, <2>1, <2>2 DEF AnswerInv, Standing, Writing, X!Errors
<1> QED
  BY <1>2, <1>3

(* An error response is begun only where no answer was.                    *)
LEMMA ErrorKeeps ==
  ASSUME AnswerInv, at \in Unanswered, NEW code \in X!Errors, X!error_response(code),
         UNCHANGED <<out, source>>
  PROVE  AnswerInv'
<1> USE SaidKept DEF Unanswered, Answering, Awaits
<1>1. X!OneAnswer'
  BY DEF AnswerInv, X!OneAnswer
<1>2. at' = "error" /\ writing' = code /\ final_output_started' = TRUE
  BY DEF X!error_response, X!Writes
<1> QED
  BY <1>1, <1>2 DEF AnswerInv, Standing, Writing

(* What is being written stands on the connection when it has been taken.  *)
LEMMA WrittenKeeps ==
  ASSUME AnswerInv, NEW has \in BOOLEAN, X!Written(has)
  PROVE  AnswerInv'
<1> USE DEF Unanswered, Answering, Awaits
<1>1. writing \in Output /\ out' = Append(out, writing) /\ out' \in Seq(Output)
  BY DEF AnswerInv, X!Written, Writing, Output, Answer
<1> DEFINE Adds(what) ==
      X!Places(what)' = IF writing \in what THEN X!Places(what) \cup {Len(out) + 1} ELSE X!Places(what)
<1>2. /\ Adds(X!Errors \cup {"200"}) /\ Adds(X!Errors) /\ Adds({"200"})
      /\ Adds({"100"}) /\ Adds({"piece"}) /\ Adds({"end"})
  BY <1>1, PlacesAppend DEF AnswerInv
<1>3. \A what : Len(out) + 1 \notin X!Places(what)
  BY DEF AnswerInv, X!Places
<1>4. /\ source'.left = source.left /\ DOMAIN source' = {"left", "reader"}
      /\ final_output_started' = final_output_started
  BY DEF AnswerInv, X!Written
<1>5. /\ at \in {"continue", "answer", "piece", "error", "close"}
      /\ (at = "piece" => has) /\ (at \notin {"answer", "piece"} => ~has)
      /\ at' = X!After(has) /\ writing' = IF X!After(has) = "close" THEN "end" ELSE "none"
  BY DEF X!Written
<1> HIDE DEF Adds
<1>6. CASE at = "continue"
  <2>1. at' = "continued" /\ writing = "100" /\ Len(out) = 0
    BY <1>5, <1>6 DEF X!After, AnswerInv, Writing, Standing
  <2>2. "100" \notin X!Errors
    BY DEF X!Errors
  <2>3. /\ X!Places(X!Errors \cup {"200"})' = {} /\ X!Places(X!Errors)' = {} /\ X!Places({"100"})' = {1}
        /\ X!Places({"piece"})' = {} /\ X!Places({"end"})' = {}
    BY <1>2, <1>6, <2>1, <2>2 DEF AnswerInv, Standing, X!Said, X!Places, Adds
  <2>4. X!OneAnswer'
    BY <2>3 DEF X!OneAnswer, X!Said
  <2> QED
    BY <1>1, <1>4, <1>6, <2>1, <2>3, <2>4 DEF AnswerInv, Standing, Writing, Answer, X!Said
<1>7. CASE at \in {"answer", "error"}
  <2>1. /\ X!Places(X!Errors \cup {"200"}) = {} /\ X!Places(X!Errors) = {}
        /\ X!Places({"piece"}) = {} /\ X!Places({"end"}) = {} /\ \A i \in X!Places({"100"}) : i = 1
        /\ X!Places({"200"}) = {}
    BY <1>7 DEF AnswerInv, Standing, X!Said, X!OneAnswer, X!Places, Answer
  <2>2. writing \in X!Errors \cup {"200"} /\ (at = "answer" => writing = "200")
    BY <1>7 DEF AnswerInv, Writing
  <2>3. writing \notin {"100"} /\ writing \notin {"piece"} /\ writing \notin {"end"}
    BY <2>2 DEF X!Errors
  <2>4. /\ X!Places(X!Errors \cup {"200"})' = {Len(out) + 1} /\ X!Places({"piece"})' = {}
        /\ X!Places({"end"})' = {} /\ \A i \in X!Places({"100"})' : i = 1
        /\ at = "answer" => X!Places({"200"})' = {Len(out) + 1} /\ X!Places(X!Errors)' = {}
    BY <1>2, <2>1, <2>2, <2>3 DEF Adds, X!Errors
  <2>5. X!OneAnswer'
    BY <2>4 DEF X!OneAnswer, X!Said
  <2>6. at' = "close" \/ (at = "answer" /\ at' = "stream")
    BY <1>5, <1>7 DEF X!After
  <2>7. at' = "close" => writing' = "end"
    BY <1>5, <2>6
  <2>8. final_output_started' = TRUE
    BY <1>4, <1>7 DEF AnswerInv
  <2> QED
    BY <1>1, <1>4, <2>4, <2>5, <2>6, <2>7, <2>8 DEF AnswerInv, Standing, Writing, Answer, X!Said
<1>8. CASE at = "piece"
  <2>1. /\ X!Places({"200"}) # {} /\ X!Places(X!Errors) = {} /\ X!Places({"end"}) = {}
        /\ \A i \in X!Places({"100"}) : i = 1
        /\ \A i, j \in X!Places(X!Errors \cup {"200"}) : i = j
        /\ writing = "piece" /\ writing \notin X!Errors \cup {"200"}
    BY <1>8 DEF AnswerInv, Standing, X!Said, X!OneAnswer, Writing, X!Errors
  <2>2. /\ X!Places({"200"})' # {} /\ X!Places(X!Errors)' = {} /\ X!Places({"end"})' = {}
        /\ \A i \in X!Places({"100"})' : i = 1
        /\ \A i, j \in X!Places(X!Errors \cup {"200"})' : i = j
    BY <1>2, <2>1 DEF Adds
  <2>3. X!OneAnswer'
    BY <2>2 DEF X!OneAnswer, X!Said
  <2>4. at' = "stream" /\ final_output_started' = TRUE
    BY <1>4, <1>5, <1>8 DEF X!After, AnswerInv
  <2> QED
    BY <1>1, <1>4, <2>2, <2>3, <2>4 DEF AnswerInv, Standing, Writing, X!Said
<1>9. CASE at = "close"
  <2>1. writing = "end" /\ writing \notin X!Errors \cup {"200"}
    BY <1>9 DEF AnswerInv, Writing, X!Errors
  <2>2. /\ X!Places(X!Errors \cup {"200"})' = X!Places(X!Errors \cup {"200"})
        /\ X!Places(X!Errors)' = X!Places(X!Errors) /\ X!Places({"100"})' = X!Places({"100"})
        /\ X!Places({"piece"})' = X!Places({"piece"})
    BY <1>2, <2>1 DEF Adds
  <2>3. X!OneAnswer'
    BY <1>4, <1>9, <2>2, ZenonT(60) DEF X!OneAnswer, X!Said, AnswerInv, Standing, Answer
  <2>4. at' = "finally"
    BY <1>5, <1>9 DEF X!After
  <2> QED
    BY <1>1, <1>4, <2>3, <2>4 DEF AnswerInv, Standing, Writing
<1> QED
  BY <1>5, <1>6, <1>7, <1>8, <1>9

-----------------------------------------------------------------------------
(* An exchange begins with nothing written.                                *)
LEMMA AnswerInvInit == X!Init => AnswerInv
<1> SUFFICES ASSUME X!Init PROVE AnswerInv
  OBVIOUS
<1>1. \A what : X!Places(what) = {}
  BY DEF X!Init, X!Places
<1> QED
  BY <1>1 DEF X!Init, AnswerInv, Unanswered, Answering, Awaits, Standing, Writing, X!OneAnswer, X!Said

(* Each step of exchange() and of the world around it keeps the invariant. *)
LEMMA AnswerInvStep == AnswerInv /\ (X!Next \/ UNCHANGED hostFetchVars) => AnswerInv'
<1> SUFFICES ASSUME AnswerInv, X!Next \/ UNCHANGED hostFetchVars PROVE AnswerInv'
  OBVIOUS
<1> USE DEF Unanswered, Answering, Awaits
<1>1. CASE X!BadRequest \/ X!WriteFails \/ X!StreamFails
  BY <1>1, CatchKeeps DEF X!BadRequest, X!WriteFails, X!StreamFails
<1>2. ASSUME NEW code \in {"417", "501"}, X!Unsupported(code) PROVE AnswerInv'
  BY <1>2, ErrorKeeps DEF X!Unsupported, X!Errors
<1>3. CASE X!FetchFails
  <2>1. CASE aborted
    BY <1>3, <2>1, CatchKeeps DEF X!FetchFails
  <2>2. CASE ~aborted
    BY <1>3, <2>2, ErrorKeeps DEF X!FetchFails, X!Errors
  <2> QED
    BY <2>1, <2>2
<1>4. CASE X!BadStatus
  BY <1>4, ErrorKeeps DEF X!BadStatus, X!Errors
<1>5. ASSUME NEW has \in BOOLEAN, X!Written(has) PROVE AnswerInv'
  BY <1>5, WrittenKeeps
<1>6. ASSUME out' = out PROVE X!OneAnswer => (source'.left = source.left => X!OneAnswer')
  BY <1>6, SaidKept DEF X!OneAnswer
<1>7. CASE X!NoHead
  BY <1>6, <1>7, SaidKept DEF X!NoHead, AnswerInv, Standing, Writing
<1>8. CASE X!Continues
  BY <1>6, <1>8, SaidKept DEF X!Continues, X!Writes, AnswerInv, Standing, Writing
<1>9. CASE X!SessionAborts
  BY <1>6, <1>9, SaidKept DEF X!SessionAborts, AnswerInv, Standing, Writing
<1>10. ASSUME NEW has \in {"none", "open"}, X!Requests(has) PROVE AnswerInv'
  BY <1>6, <1>10, SaidKept DEF X!Requests, X!Fetches, AnswerInv, Standing, Writing
<1>11. ASSUME NEW end \in {"ended", "broken"}, X!BodyRead(end) PROVE AnswerInv'
  BY <1>6, <1>11, SaidKept DEF X!BodyRead, AnswerInv, Standing, Writing
<1>12. CASE X!Answers
  BY <1>6, <1>12, SaidKept DEF X!Answers, X!Writes, AnswerInv, Standing, Writing
<1>13. CASE X!StreamGives
  <2>1. X!OneAnswer'
    <3>1. out' = out /\ at = "stream"
      BY <1>13 DEF X!StreamGives
    <3>2. ~X!Said({"end"})'
      BY <3>1, SaidKept DEF AnswerInv, Standing
    <3> QED
      BY <3>1, <3>2, SaidKept DEF AnswerInv, X!OneAnswer
  <2> QED
    BY <1>13, <2>1, SaidKept DEF X!StreamGives, X!Writes, AnswerInv, Standing, Writing
<1>14. CASE X!StreamEnds
  BY <1>6, <1>14, SaidKept DEF X!StreamEnds, X!Writes, AnswerInv, Standing, Writing, X!Said, X!Places, Answer
<1>15. CASE X!End
  <2>1. source'.left = source.left /\ DOMAIN source' = {"left", "reader"}
    BY <1>15 DEF X!End, AnswerInv
  <2> QED
    BY <1>6, <1>15, <2>1, SaidKept DEF X!End, AnswerInv, Standing, Writing
<1>16. CASE UNCHANGED hostFetchVars
  BY <1>6, <1>16, SaidKept DEF hostFetchVars, AnswerInv, Standing, Writing
<1> QED
  BY <1>1, <1>2, <1>3, <1>4, <1>5, <1>7, <1>8, <1>9, <1>10, <1>11, <1>12, <1>13, <1>14,
     <1>15, <1>16 DEF X!Next

(* exchange() of host-fetch-network.ts never puts a second answer on a     *)
(* connection, nor an error into a response that has begun, however the    *)
(* request, the fetch, the response's body, a write or the session fails.  *)
THEOREM ExchangeAnswersOnce == ServicesSpec => []OneAnswer
<1>1. ServicesInit => AnswerInv
  BY AnswerInvInit DEF ServicesInit
<1>2. AnswerInv /\ [ServicesNext]_servicesVars => AnswerInv'
  BY AnswerInvStep DEF ServicesNext, servicesVars
<1>3. AnswerInv => OneAnswer
  BY DEF AnswerInv, OneAnswer
<1> QED
  BY <1>1, <1>2, <1>3, PTL DEF ServicesSpec, servicesVars

-----------------------------------------------------------------------------
(***************************************************************************)
(* The gateway: reassembly.                                                *)
(***************************************************************************)
Extents == {f \in [offset: Nat, length: Nat \ {0}, content: Contents] : End(f) <= MaxLength}

(* Fragments in order, none over another.                                  *)
Apart(s) == \A i, j \in 1 .. Len(s) : i < j => End(s[i]) <= s[j].offset

(* findIndex and its -1: all before the place end before the fragment      *)
(* starts, and the one at the place does not.                              *)
LEMMA InsertionIs ==
  ASSUME NEW s \in Seq(Extents), NEW f \in Extents
  PROVE  LET n == Insertion(s, f) IN
         /\ n \in 1 .. Len(s) + 1
         /\ n \in 1 .. Len(s) => f.offset < End(s[n])
         /\ \A i \in 1 .. n - 1 : End(s[i]) <= f.offset
<1>1. /\ Len(s) \in Nat /\ f.offset \in Nat
      /\ \A i \in 1 .. Len(s) : s[i] \in Extents /\ End(s[i]) \in Nat
  <2>1. Len(s) \in Nat /\ \A i \in 1 .. Len(s) : s[i] \in Extents
    BY LenProperties, ElementOfSeq
  <2> QED
    BY <2>1 DEF Extents, End
<1>2. PICK places : places = {n \in 1 .. Len(s) + 1 : n \in 1 .. Len(s) => f.offset < End(s[n])}
  OBVIOUS
<1>3. places \subseteq Nat /\ places # {}
  <2>1. Len(s) + 1 \in places
    BY <1>1, <1>2
  <2> QED
    BY <1>1, <1>2, <2>1
<1>4. \A a, b \in Nat : <<a, b>> \in OpToRel(<, Nat) <=> a < b
  BY Zenon DEF OpToRel
<1>5. \E R : IsWellFoundedOn(R, Nat) /\ \A a, b \in Nat : <<a, b>> \in R <=> a < b
  BY <1>4, NatLessThanWellFounded, Zenon
<1>6. PICK R : IsWellFoundedOn(R, Nat) /\ \A a, b \in Nat : <<a, b>> \in R <=> a < b
  BY <1>5
<1>7. IsWellFoundedOn(R, Nat)
  BY <1>6
<1>8. PICK n \in places : \A m \in places : ~ (<<m, n>> \in R)
  BY <1>3, <1>7, WFMin, Zenon
<1>9. \A m \in places : ~ (m < n)
  BY <1>3, <1>6, <1>8, Zenon
<1>10. /\ n \in 1 .. Len(s) + 1
       /\ n \in 1 .. Len(s) => f.offset < End(s[n])
       /\ \A i \in 1 .. n - 1 : ~(f.offset < End(s[i]))
  BY <1>1, <1>2, <1>9
<1>11. PICK k : k = Insertion(s, f)
  OBVIOUS
<1>12. /\ k \in 1 .. Len(s) + 1
       /\ k \in 1 .. Len(s) => f.offset < End(s[k])
       /\ \A i \in 1 .. k - 1 : ~(f.offset < End(s[i]))
  BY <1>10, <1>11, Zenon DEF Insertion
<1>13. \A i \in 1 .. k - 1 : End(s[i]) <= f.offset
  BY <1>1, <1>12
<1> QED
  BY <1>11, <1>12, <1>13

(* A fragment that overlaps none keeps the rest apart.                     *)
LEMMA SplicedApart ==
  ASSUME NEW s \in Seq(Extents), Apart(s), NEW f \in Extents, ~Overlaps(s, f)
  PROVE  LET t == Spliced(s, f) IN t \in Seq(Extents) /\ Len(t) = Len(s) + 1 /\ Apart(t)
<1>1. PICK n : n = Insertion(s, f)
  OBVIOUS
<1>2. /\ n \in 1 .. Len(s) + 1
      /\ n \in 1 .. Len(s) => f.offset < End(s[n])
      /\ \A i \in 1 .. n - 1 : End(s[i]) <= f.offset
  BY <1>1, InsertionIs
<1>3. PICK m : m = Len(s)
  OBVIOUS
<1>4. m \in Nat /\ n \in Nat /\ n >= 1 /\ n <= m + 1 /\ \A i \in 1 .. m : s[i] \in Extents
  BY <1>2, <1>3, LenProperties, ElementOfSeq
<1>5. \A g \in Extents : /\ g.offset \in Nat /\ End(g) \in Nat /\ g.offset < End(g)
  BY DEF Extents, End
<1>6. n \in 1 .. m => End(f) <= s[n].offset
  <2>1. ASSUME n \in 1 .. m PROVE End(f) <= s[n].offset
    <3>1. ~(End(f) > s[n].offset)
      BY <1>1, <1>3, <2>1 DEF Overlaps
    <3>2. s[n] \in Extents
      BY <1>4, <2>1
    <3> QED
      BY <1>5, <3>1, <3>2
  <2> QED
    BY <2>1
<1>7. PICK a : a = SubSeq(s, 1, n - 1)
  OBVIOUS
<1>8. PICK b : b = SubSeq(s, n, m)
  OBVIOUS
<1>9. a \in Seq(Extents) /\ Len(a) = n - 1 /\ \A i \in 1 .. n - 1 : a[i] = s[i]
  <2>1. \A i \in 1 .. n - 1 : s[i] \in Extents
    BY <1>4
  <2> QED
    BY <1>4, <1>7, <2>1, SubSeqProperties
<1>10. b \in Seq(Extents) /\ Len(b) = m - n + 1 /\ \A i \in 1 .. m - n + 1 : b[i] = s[n + i - 1]
  <2>1. \A i \in n .. m : s[i] \in Extents
    BY <1>4
  <2> QED
    BY <1>4, <1>8, <2>1, SubSeqProperties
<1>11. PICK c : c = a \o <<f>>
  OBVIOUS
<1>12. c \in Seq(Extents) /\ Len(c) = n /\ c[n] = f /\ \A i \in 1 .. n - 1 : c[i] = s[i]
  BY <1>4, <1>9, <1>11
<1>13. PICK t : t = c \o b
  OBVIOUS
<1>14. /\ t \in Seq(Extents) /\ Len(t) = m + 1
       /\ \A i \in 1 .. n : t[i] = c[i]
       /\ \A i \in n + 1 .. m + 1 : t[i] = b[i - n]
  <2>1. /\ t \in Seq(Extents) /\ Len(t) = Len(c) + Len(b)
        /\ \A i \in 1 .. Len(t) : t[i] = IF i <= Len(c) THEN c[i] ELSE b[i - Len(c)]
    <3>1. c \in Seq(Extents) /\ b \in Seq(Extents)
      BY <1>10, <1>12
    <3> QED
      BY <1>13, <3>1, ConcatProperties
  <2>2. Len(c) = n /\ Len(t) = m + 1
    BY <1>4, <1>10, <1>12, <2>1
  <2> QED
    BY <1>4, <2>1, <2>2
<1>15. /\ t[n] = f
       /\ \A i \in 1 .. n - 1 : t[i] = s[i]
       /\ \A i \in n + 1 .. m + 1 : t[i] = s[i - 1]
  <2>1. ASSUME NEW i \in n + 1 .. m + 1 PROVE t[i] = s[i - 1]
    <3>1. i - n \in 1 .. m - n + 1 /\ n + (i - n) - 1 = i - 1
      BY <1>4
    <3> QED
      BY <1>10, <1>14, <3>1
  <2>2. t[n] = f
    BY <1>4, <1>12, <1>14
  <2>3. ASSUME NEW i \in 1 .. n - 1 PROVE t[i] = s[i]
    BY <1>4, <1>12, <1>14
  <2> QED
    BY <2>1, <2>2, <2>3
<1>16. Apart(t)
  <2> SUFFICES ASSUME NEW i \in 1 .. m + 1, NEW j \in 1 .. m + 1, i < j
               PROVE  End(t[i]) <= t[j].offset
    BY <1>14 DEF Apart
  <2>1. \A k, l \in 1 .. m : k < l => End(s[k]) <= s[l].offset
    BY <1>3 DEF Apart
  <2>2. CASE i < n /\ j < n
    BY <1>4, <1>15, <2>1, <2>2
  <2>3. CASE i < n /\ j = n
    <3>1. t[i] = s[i] /\ t[j] = f /\ i \in 1 .. n - 1
      BY <1>4, <1>15, <2>3
    <3> QED
      BY <1>2, <3>1
  <2>4. CASE i < n /\ j > n
    <3>1. t[i] = s[i] /\ t[j] = s[j - 1] /\ i \in 1 .. m /\ j - 1 \in 1 .. m /\ i < j - 1
      BY <1>4, <1>15, <2>4
    <3> QED
      BY <2>1, <3>1
  <2>5. CASE i = n
    <3>1. t[i] = f /\ t[j] = s[j - 1] /\ j - 1 \in 1 .. m /\ n \in 1 .. m
      BY <1>4, <1>15, <2>5
    <3>2. CASE j - 1 = n
      BY <1>6, <3>1, <3>2
    <3>3. CASE j - 1 # n
      <4>1. End(s[n]) <= s[j - 1].offset
        BY <1>4, <2>1, <2>5, <3>1, <3>3
      <4>2. End(f) <= s[n].offset /\ s[n] \in Extents /\ s[j - 1] \in Extents
        BY <1>4, <1>6, <3>1
      <4>3. End(s[n]) \in Nat /\ s[n].offset <= End(s[n]) /\ s[n].offset \in Nat
        BY <1>5, <4>2
      <4>4. s[j - 1].offset \in Nat /\ End(f) \in Nat
        BY <1>5, <4>2
      <4>5. End(f) <= s[j - 1].offset
        BY <4>1, <4>2, <4>3, <4>4
      <4> QED
        BY <3>1, <4>5
    <3> QED
      BY <3>2, <3>3
  <2>6. CASE i > n
    <3>1. t[i] = s[i - 1] /\ t[j] = s[j - 1] /\ i - 1 \in 1 .. m /\ j - 1 \in 1 .. m /\ i - 1 < j - 1
      BY <1>4, <1>15, <2>6
    <3> QED
      BY <2>1, <3>1
  <2> QED
    BY <1>4, <2>2, <2>3, <2>4, <2>5, <2>6
<1>17. Spliced(s, f) = t
  BY <1>1, <1>3, <1>7, <1>8, <1>11, <1>13 DEF Spliced
<1> QED
  BY <1>3, <1>14, <1>16, <1>17

(* A unit is in one of them at most.                                       *)
LEMMA CoversOne ==
  ASSUME NEW s \in Seq(Extents), Apart(s), NEW u \in Nat
  PROVE  /\ IsFiniteSet(Covers(s, u)) /\ Cardinality(Covers(s, u)) <= 1
         /\ Cardinality(Covers(s, u)) \in Nat
         /\ Cardinality(Covers(s, u)) = 1 <=> Covers(s, u) # {}
         /\ Cardinality(Covers(s, u)) = 0 <=> Covers(s, u) = {}
<1>1. Len(s) \in Nat /\ \A i \in 1 .. Len(s) : s[i].offset \in Nat /\ End(s[i]) \in Nat
  <2>1. Len(s) \in Nat /\ \A i \in 1 .. Len(s) : s[i] \in Extents
    BY LenProperties, ElementOfSeq
  <2> QED
    BY <2>1 DEF Extents, End
<1>2. \A i, j \in Covers(s, u) : i = j
  <2> SUFFICES ASSUME NEW i \in Covers(s, u), NEW j \in Covers(s, u), i < j PROVE FALSE
    BY <1>1 DEF Covers
  <2>1. i \in 1 .. Len(s) /\ j \in 1 .. Len(s) /\ u < End(s[i]) /\ s[j].offset <= u
    BY <1>1 DEF Covers
  <2>2. End(s[i]) <= s[j].offset
    BY <2>1 DEF Apart
  <2> QED
    BY <1>1, <2>1, <2>2
<1>3. CASE Covers(s, u) = {}
  BY <1>3, FS_EmptySet
<1>4. CASE Covers(s, u) # {}
  <2>1. PICK i : i \in Covers(s, u)
    BY <1>4
  <2>2. Covers(s, u) = {i}
    BY <1>2, <2>1
  <2>3. IsFiniteSet({i}) /\ Cardinality({i}) = 1
    BY FS_Singleton
  <2> QED
    BY <1>4, <2>2, <2>3
<1> QED
  BY <1>3, <1>4

(* Without a gap, every unit is in one.                                    *)
LEMMA ContiguousWhole ==
  ASSUME NEW s \in Seq(Extents), s # <<>>, Apart(s), NEW total \in Nat,
         \A i \in 1 .. Len(s) : s[i].offset = IF i = 1 THEN 0 ELSE End(s[i - 1]),
         End(s[Len(s)]) = total
  PROVE  Whole(s, total)
<1>1. PICK m : m = Len(s)
  OBVIOUS
<1>2. m \in Nat \ {0} /\ \A i \in 1 .. m : s[i].offset \in Nat /\ End(s[i]) \in Nat
  <2>1. Len(s) \in Nat \ {0} /\ \A i \in 1 .. Len(s) : s[i] \in Extents
    BY LenProperties, ElementOfSeq, EmptySeq
  <2> QED
    BY <1>1, <2>1 DEF Extents, End
<1>3. \A i \in 1 .. m : End(s[i]) <= total
  <2> TAKE i \in 1 .. m
  <2>1. CASE i = m
    BY <1>1, <1>2, <2>1
  <2>2. CASE i < m
    <3>1. End(s[i]) <= s[m].offset /\ s[m].offset <= End(s[m])
      <4>1. m \in 1 .. m
        BY <1>2
      <4>2. s[m] \in Extents
        BY <1>1, <4>1, ElementOfSeq
      <4>3. End(s[i]) <= s[m].offset
        BY <1>1, <2>2, <4>1 DEF Apart
      <4>4. s[m].offset <= End(s[m])
        BY <4>2 DEF Extents, End
      <4> QED
        BY <4>3, <4>4
    <3> QED
      BY <1>1, <1>2, <3>1
  <2> QED
    BY <1>2, <2>1, <2>2
<1> SUFFICES ASSUME NEW u \in 0 .. MaxLength
             PROVE  Cardinality(Covers(s, u)) = IF u < total THEN 1 ELSE 0
  BY DEF Whole
<1>4. u \in Nat
  BY LengthAssumption
<1>5. CASE u < total
  <2>1. PICK ends : ends = {i \in 1 .. m : u < End(s[i])}
    OBVIOUS
  <2>2. ends \subseteq Nat /\ ends # {}
    <3>1. m \in ends
      BY <1>1, <1>2, <1>5, <2>1
    <3>2. 1 .. m \subseteq Nat
      BY <1>2
    <3> QED
      BY <2>1, <3>1, <3>2
  <2>3. \A a, b \in Nat : <<a, b>> \in OpToRel(<, Nat) <=> a < b
    BY Zenon DEF OpToRel
  <2>4. \E R : IsWellFoundedOn(R, Nat) /\ \A a, b \in Nat : <<a, b>> \in R <=> a < b
    BY <2>3, NatLessThanWellFounded, Zenon
  <2>5. PICK R : IsWellFoundedOn(R, Nat) /\ \A a, b \in Nat : <<a, b>> \in R <=> a < b
    BY <2>4
  <2>6. IsWellFoundedOn(R, Nat)
    BY <2>5
  <2>7. PICK i \in ends : \A j \in ends : ~ (<<j, i>> \in R)
    BY <2>2, <2>6, WFMin, Zenon
  <2>8. \A j \in ends : ~ (j < i)
    BY <2>2, <2>5, <2>7, Zenon
  <2>9. i \in 1 .. m /\ u < End(s[i]) /\ s[i].offset <= u
    <3>1. i \in 1 .. m /\ u < End(s[i])
      BY <2>1, <2>7
    <3>2. CASE i = 1
      <4>1. s[1].offset = 0
        BY <1>1, <3>1, <3>2
      <4> QED
        BY <1>4, <3>1, <3>2, <4>1
    <3>3. CASE i # 1
      <4>1. i - 1 \in 1 .. m /\ i - 1 < i
        BY <1>2, <3>1, <3>3
      <4>2. ~(u < End(s[i - 1]))
        BY <2>1, <2>8, <4>1
      <4>3. s[i].offset = End(s[i - 1])
        BY <1>1, <3>1, <3>3
      <4> QED
        BY <1>2, <1>4, <3>1, <4>1, <4>2, <4>3
    <3> QED
      BY <3>2, <3>3
  <2>10. i \in Covers(s, u)
    BY <1>1, <1>2, <1>4, <2>9 DEF Covers
  <2> QED
    BY <1>4, <1>5, <2>10, CoversOne
<1>6. CASE ~(u < total)
  <2>1. Covers(s, u) = {}
    BY <1>1, <1>2, <1>3, <1>4, <1>6 DEF Covers
  <2> QED
    BY <1>4, <1>6, <2>1, CoversOne
<1> QED
  BY <1>5, <1>6

(* And if every unit is in one, there is no gap.                           *)
LEMMA WholeContiguous ==
  ASSUME NEW s \in Seq(Extents), s # <<>>, Apart(s), NEW total \in Nat \ {0}, Whole(s, total)
  PROVE  /\ \A i \in 1 .. Len(s) : s[i].offset = IF i = 1 THEN 0 ELSE End(s[i - 1])
         /\ End(s[Len(s)]) = total
<1>1. PICK m : m = Len(s)
  OBVIOUS
<1>2. m \in Nat \ {0} /\ \A i \in 1 .. m : s[i] \in Extents
  BY <1>1, LenProperties, ElementOfSeq, EmptySeq
<1>3. \A i \in 1 .. m : /\ s[i].offset \in Nat /\ End(s[i]) \in Nat
                        /\ s[i].offset < End(s[i]) /\ End(s[i]) <= MaxLength
  <2> SUFFICES ASSUME NEW f \in Extents
               PROVE  f.offset \in Nat /\ End(f) \in Nat /\ f.offset < End(f) /\ End(f) <= MaxLength
    BY <1>2
  <2>1. f.offset \in Nat /\ f.length \in Nat \ {0} /\ End(f) <= MaxLength
    BY DEF Extents
  <2> QED
    BY <2>1 DEF End
<1>4. \A i, j \in 1 .. m : i < j => End(s[i]) <= s[j].offset
  BY <1>1 DEF Apart
<1>5. \A u \in 0 .. MaxLength : u < total => \E i \in 1 .. m : s[i].offset <= u /\ u < End(s[i])
  <2> SUFFICES ASSUME NEW u \in 0 .. MaxLength, u < total
               PROVE  \E i \in 1 .. m : s[i].offset <= u /\ u < End(s[i])
    OBVIOUS
  <2>1. Cardinality(Covers(s, u)) = 1 /\ u \in Nat
    BY LengthAssumption DEF Whole
  <2>2. Covers(s, u) # {}
    BY <2>1, CoversOne
  <2>3. PICK i : i \in Covers(s, u)
    BY <2>2
  <2> QED
    BY <1>1, <1>3, <2>1, <2>3 DEF Covers
<1>6. \A i \in 1 .. m : End(s[i]) <= total
  <2> SUFFICES ASSUME NEW i \in 1 .. m, End(s[i]) > total PROVE FALSE
    BY <1>3
  <2>1. PICK u : u = End(s[i]) - 1
    OBVIOUS
  <2>2. u \in 0 .. MaxLength /\ u \in Nat /\ ~(u < total) /\ s[i].offset <= u /\ u < End(s[i])
    BY <1>3, <2>1, LengthAssumption
  <2>3. i \in Covers(s, u)
    BY <1>1, <1>3, <2>2 DEF Covers
  <2>4. Cardinality(Covers(s, u)) = 0
    BY <2>2 DEF Whole
  <2> QED
    BY <2>2, <2>3, <2>4, CoversOne
<1>7. ASSUME NEW i \in 1 .. m PROVE s[i].offset = IF i = 1 THEN 0 ELSE End(s[i - 1])
  <2>1. CASE i = 1
    <3>1. 0 \in 0 .. MaxLength /\ 0 < total
      BY LengthAssumption
    <3>2. PICK j \in 1 .. m : s[j].offset <= 0 /\ 0 < End(s[j])
      BY <1>5, <3>1
    <3>3. s[j].offset = 0
      BY <1>3, <3>2
    <3>4. j = 1
      <4>1. ASSUME 1 < j PROVE FALSE
        <5>1. End(s[1]) <= s[j].offset /\ s[1].offset < End(s[1]) /\ s[1].offset \in Nat /\ End(s[1]) \in Nat
          BY <1>2, <1>3, <1>4, <4>1
        <5> QED
          BY <3>3, <5>1
      <4> QED
        BY <1>2, <4>1
    <3> QED
      BY <2>1, <3>3, <3>4
  <2>2. CASE i # 1
    <3>1. i - 1 \in 1 .. m
      BY <1>2, <2>2
    <3>2. PICK u : u = End(s[i - 1])
      OBVIOUS
    <3>3. u <= s[i].offset /\ s[i].offset < End(s[i]) /\ End(s[i]) <= total /\ End(s[i]) <= MaxLength /\ u \in Nat
      BY <1>3, <1>4, <1>6, <3>1, <3>2
    <3>4. u \in 0 .. MaxLength /\ u < total
      BY <1>3, <3>3, LengthAssumption
    <3>5. PICK j \in 1 .. m : s[j].offset <= u /\ u < End(s[j])
      BY <1>5, <3>4
    <3>6. ~(j < i)
      <4> SUFFICES ASSUME j < i PROVE FALSE
        OBVIOUS
      <4>1. CASE j = i - 1
        BY <1>3, <3>2, <3>5, <4>1
      <4>2. CASE j < i - 1
        <5>1. End(s[j]) <= s[i - 1].offset /\ s[i - 1].offset < End(s[i - 1])
          BY <1>3, <1>4, <3>1, <4>2
        <5> QED
          BY <1>3, <3>1, <3>2, <3>5, <5>1
      <4> QED
        BY <3>1, <4>1, <4>2
    <3>7. ~(i < j)
      <4> SUFFICES ASSUME i < j PROVE FALSE
        OBVIOUS
      <4>1. End(s[i]) <= s[j].offset
        BY <1>4
      <4> QED
        BY <1>3, <3>3, <3>5, <4>1
    <3>8. j = i
      BY <3>6, <3>7
    <3> QED
      BY <1>3, <2>2, <3>2, <3>3, <3>5, <3>8
  <2> QED
    BY <2>1, <2>2
<1>8. End(s[m]) = total
  <2> SUFFICES ASSUME End(s[m]) # total PROVE FALSE
    OBVIOUS
  <2>1. PICK u : u = End(s[m])
    OBVIOUS
  <2>2. u \in 0 .. MaxLength /\ u < total /\ u \in Nat
    BY <1>2, <1>3, <1>6, <2>1, LengthAssumption
  <2>3. PICK j \in 1 .. m : s[j].offset <= u /\ u < End(s[j])
    BY <1>5, <2>2
  <2>4. CASE j = m
    BY <1>3, <2>1, <2>2, <2>3, <2>4
  <2>5. CASE j < m
    <3>1. End(s[j]) <= s[m].offset /\ s[m].offset < End(s[m])
      BY <1>2, <1>3, <1>4, <2>5
    <3> QED
      BY <1>2, <1>3, <2>1, <2>2, <2>3, <3>1
  <2> QED
    BY <1>2, <2>4, <2>5
<1> QED
  BY <1>1, <1>7, <1>8

-----------------------------------------------------------------------------
Entries(keys) == [older: SUBSET keys, fragments: Seq(Extents), total: Nat]

(* What waits is in order, apart, and not complete.                        *)
Waiting(r) == r.fragments # <<>> /\ Apart(r.fragments) /\ ~Contiguous(r)

(* Of two entries one that is older has fewer that are older still.        *)
MapGood(map) ==
  /\ IsFiniteSet(DOMAIN map)
  /\ \A k \in DOMAIN map :
       /\ map[k] \in Entries(DOMAIN map) /\ Waiting(map[k])
       /\ k \notin map[k].older /\ \A j \in map[k].older : map[j].older \subseteq map[k].older

HandedOn == delivered # <<>> => Whole(delivered, End(delivered[Len(delivered)]))

ReassemblyInv ==
  /\ MapGood(reassemblies) /\ Cardinality(DOMAIN reassemblies) <= MAX_IP_REASSEMBLIES
  /\ HandedOn

LEMMA WithoutGood ==
  ASSUME NEW map, MapGood(map), NEW gone
  PROVE  LET left == Without(map, gone) IN
         /\ MapGood(left) /\ DOMAIN left = DOMAIN map \ gone
         /\ Cardinality(DOMAIN left) <= Cardinality(DOMAIN map)
<1>1. PICK left : left = Without(map, gone)
  OBVIOUS
<1>2. DOMAIN left = DOMAIN map \ gone
  BY <1>1 DEF Without
<1>3. \A k \in DOMAIN left : left[k] = [map[k] EXCEPT !.older = @ \ gone] /\ k \in DOMAIN map
  BY <1>1 DEF Without
<1>4. /\ IsFiniteSet(DOMAIN left) /\ Cardinality(DOMAIN left) <= Cardinality(DOMAIN map)
  BY <1>2, FS_Subset DEF MapGood
<1>5. ASSUME NEW k \in DOMAIN left
      PROVE  /\ left[k] \in Entries(DOMAIN left) /\ left[k].older = map[k].older \ gone
             /\ left[k].fragments = map[k].fragments /\ left[k].total = map[k].total
  BY <1>2, <1>3 DEF MapGood, Entries
<1>6. ASSUME NEW k \in DOMAIN left PROVE Waiting(left[k])
  <2>1. Waiting(map[k])
    BY <1>3 DEF MapGood
  <2> QED
    BY <1>5, <2>1 DEF Waiting, Contiguous
<1>7. ASSUME NEW k \in DOMAIN left
      PROVE  k \notin left[k].older /\ \A j \in left[k].older : left[j].older \subseteq left[k].older
  <2>1. map[k].older \subseteq DOMAIN map /\ k \in DOMAIN map
    BY <1>3 DEF MapGood, Entries
  <2>2. ASSUME NEW j \in left[k].older PROVE left[j].older \subseteq left[k].older
    <3>1. j \in map[k].older /\ j \in DOMAIN left
      BY <1>2, <1>5, <2>1
    <3> QED
      BY <1>5, <2>1, <3>1 DEF MapGood
  <2> QED
    BY <1>5, <2>1, <2>2 DEF MapGood
<1> QED
  BY <1>1, <1>2, <1>4, <1>5, <1>6, <1>7 DEF MapGood

(* A Map that is not empty has a first key.                                *)
LEMMA OldestExists ==
  ASSUME NEW map, MapGood(map), DOMAIN map # {}
  PROVE  Oldest(map) # {}
<1>1. ASSUME NEW k \in DOMAIN map
      PROVE  /\ map[k].older \subseteq DOMAIN map /\ IsFiniteSet(map[k].older)
             /\ Cardinality(map[k].older) \in Nat
  <2>1. map[k].older \subseteq DOMAIN map
    BY DEF MapGood, Entries
  <2>2. IsFiniteSet(map[k].older)
    BY <2>1, FS_Subset DEF MapGood
  <2> QED
    BY <2>1, <2>2, FS_CardinalityType
<1>2. PICK ages : ages = {Cardinality(map[k].older) : k \in DOMAIN map}
  OBVIOUS
<1>3. ages \subseteq Nat /\ ages # {}
  BY <1>1, <1>2
<1>4. \A a, b \in Nat : <<a, b>> \in OpToRel(<, Nat) <=> a < b
  BY Zenon DEF OpToRel
<1>5. \E R : IsWellFoundedOn(R, Nat) /\ \A a, b \in Nat : <<a, b>> \in R <=> a < b
  BY <1>4, NatLessThanWellFounded, Zenon
<1>6. PICK R : IsWellFoundedOn(R, Nat) /\ \A a, b \in Nat : <<a, b>> \in R <=> a < b
  BY <1>5
<1>7. IsWellFoundedOn(R, Nat)
  BY <1>6
<1>8. PICK age \in ages : \A a \in ages : ~ (<<a, age>> \in R)
  BY <1>3, <1>7, WFMin, Zenon
<1>9. \A a \in ages : ~ (a < age)
  BY <1>3, <1>6, <1>8, Zenon
<1>10. PICK k \in DOMAIN map : age = Cardinality(map[k].older)
  BY <1>2, <1>8
<1>11. map[k].older = {}
  <2> SUFFICES ASSUME NEW j \in map[k].older PROVE FALSE
    OBVIOUS
  <2>1. j \in DOMAIN map
    BY <1>1
  <2>2. map[j].older \subseteq map[k].older /\ j \notin map[j].older
    BY <2>1 DEF MapGood
  <2>3. map[j].older # map[k].older
    BY <2>2
  <2>4. /\ Cardinality(map[j].older) <= Cardinality(map[k].older)
        /\ Cardinality(map[k].older) # Cardinality(map[j].older)
    BY <1>1, <2>2, <2>3, FS_Subset
  <2>5. Cardinality(map[j].older) < age
    BY <1>1, <1>10, <2>1, <2>4
  <2> QED
    BY <1>2, <1>9, <2>1, <2>5
<1> QED
  BY <1>11 DEF Oldest

(* There is room for the key, for whose sake the first may have gone.      *)
LEMMA OthersGood ==
  ASSUME ReassemblyInv, NEW key
  PROVE  LET others == Others(key) IN
         /\ MapGood(others) /\ DOMAIN others \subseteq DOMAIN reassemblies
         /\ key \in DOMAIN reassemblies => others = reassemblies
         /\ Cardinality(DOMAIN others) <= MAX_IP_REASSEMBLIES
         /\ key \notin DOMAIN reassemblies => Cardinality(DOMAIN others) < MAX_IP_REASSEMBLIES
<1>1. /\ MapGood(reassemblies) /\ IsFiniteSet(DOMAIN reassemblies)
      /\ Cardinality(DOMAIN reassemblies) <= MAX_IP_REASSEMBLIES
  BY DEF ReassemblyInv, MapGood
<1>2. Cardinality(DOMAIN reassemblies) \in Nat /\ MAX_IP_REASSEMBLIES \in Nat \ {0}
  BY <1>1, FS_CardinalityType, LimitsAssumption
<1>3. CASE key \in DOMAIN reassemblies \/ Cardinality(DOMAIN reassemblies) < MAX_IP_REASSEMBLIES
  BY <1>1, <1>3 DEF Others
<1>4. CASE ~(key \in DOMAIN reassemblies \/ Cardinality(DOMAIN reassemblies) < MAX_IP_REASSEMBLIES)
  <2>1. PICK others : others = Without(reassemblies, Oldest(reassemblies))
    OBVIOUS
  <2>2. Others(key) = others
    BY <1>4, <2>1 DEF Others
  <2>3. MapGood(others) /\ DOMAIN others = DOMAIN reassemblies \ Oldest(reassemblies)
    BY <1>1, <2>1, WithoutGood
  <2>4. DOMAIN reassemblies # {}
    BY <1>2, <1>4, FS_EmptySet
  <2>5. PICK k : k \in Oldest(reassemblies)
    BY <1>1, <2>4, OldestExists
  <2>6. k \in DOMAIN reassemblies /\ DOMAIN others \subseteq DOMAIN reassemblies \ {k}
    BY <2>3, <2>5 DEF Oldest
  <2>7. /\ IsFiniteSet(DOMAIN reassemblies \ {k})
        /\ Cardinality(DOMAIN reassemblies \ {k}) = Cardinality(DOMAIN reassemblies) - 1
    BY <1>1, <2>6, FS_RemoveElement
  <2>8. IsFiniteSet(DOMAIN others) /\ Cardinality(DOMAIN others) <= Cardinality(DOMAIN reassemblies \ {k})
    BY <2>6, <2>7, FS_Subset
  <2>9. Cardinality(DOMAIN others) \in Nat
    BY <2>8, FS_CardinalityType
  <2> QED
    BY <1>1, <1>2, <1>4, <2>2, <2>3, <2>6, <2>7, <2>8, <2>9
<1> QED
  BY <1>3, <1>4

(* An entry for the key beside the others.                                 *)
LEMMA StoreGood ==
  ASSUME ReassemblyInv, NEW key, NEW r, Waiting(r),
         r.older = Of(key).older, r \in [older: {r.older}, fragments: Seq(Extents), total: Nat]
  PROVE  /\ MapGood(Store(key, r)) /\ Cardinality(DOMAIN Store(key, r)) <= MAX_IP_REASSEMBLIES
<1>1. PICK others : others = Others(key)
  OBVIOUS
<1>2. /\ MapGood(others) /\ DOMAIN others \subseteq DOMAIN reassemblies
      /\ key \in DOMAIN reassemblies => others = reassemblies
      /\ Cardinality(DOMAIN others) <= MAX_IP_REASSEMBLIES
      /\ key \notin DOMAIN reassemblies => Cardinality(DOMAIN others) < MAX_IP_REASSEMBLIES
  BY <1>1, OthersGood
<1>3. IsFiniteSet(DOMAIN others) /\ Cardinality(DOMAIN others) \in Nat /\ MAX_IP_REASSEMBLIES \in Nat
  BY <1>2, FS_CardinalityType, LimitsAssumption DEF MapGood
<1>4. PICK map : map = Store(key, r)
  OBVIOUS
<1>5. /\ DOMAIN map = DOMAIN others \cup {key} /\ map[key] = r
      /\ \A k \in DOMAIN others : k # key => map[k] = others[k]
  BY <1>1, <1>4 DEF Store, With
<1>6. IsFiniteSet(DOMAIN map) /\ Cardinality(DOMAIN map) <= MAX_IP_REASSEMBLIES
  <2>1. /\ IsFiniteSet(DOMAIN others \cup {key})
        /\ Cardinality(DOMAIN others \cup {key}) =
             IF key \in DOMAIN others THEN Cardinality(DOMAIN others) ELSE Cardinality(DOMAIN others) + 1
    BY <1>3, FS_AddElement
  <2> QED
    BY <1>2, <1>3, <1>5, <2>1
<1>7. /\ key \notin r.older /\ r.older \subseteq DOMAIN others
      /\ \A j \in r.older : others[j].older \subseteq r.older
  <2>1. CASE key \in DOMAIN reassemblies
    <3>1. r.older = others[key].older /\ key \in DOMAIN others
      BY <1>2, <2>1 DEF Of
    <3> QED
      BY <1>2, <3>1 DEF MapGood, Entries
  <2>2. CASE key \notin DOMAIN reassemblies
    <3>1. r.older = DOMAIN others
      BY <1>1, <2>2 DEF Of
    <3> QED
      BY <1>2, <2>2, <3>1 DEF MapGood, Entries
  <2> QED
    BY <2>1, <2>2
<1>8. ASSUME NEW k \in DOMAIN others, k # key PROVE key \notin DOMAIN others => key \notin others[k].older
  BY <1>2 DEF MapGood, Entries
<1>9. ASSUME NEW k \in DOMAIN others, NEW j \in others[k].older
      PROVE  map[j].older \subseteq others[k].older /\ j \in DOMAIN others
  <2>1. others[j].older \subseteq others[k].older /\ j \in DOMAIN others
    BY <1>2 DEF MapGood, Entries
  <2>2. CASE j = key
    <3>1. key \in DOMAIN reassemblies /\ r.older = others[key].older
      BY <1>2, <2>1, <2>2 DEF Of
    <3> QED
      BY <1>5, <2>1, <2>2, <3>1
  <2>3. CASE j # key
    BY <1>5, <2>1, <2>3
  <2> QED
    BY <2>1, <2>2, <2>3
<1>10. ASSUME NEW k \in DOMAIN map PROVE map[k] \in Entries(DOMAIN map) /\ Waiting(map[k])
  <2>1. CASE k = key
    <3>1. r.older \in SUBSET DOMAIN map
      BY <1>5, <1>7
    <3>2. r \in Entries(DOMAIN map)
      BY <3>1 DEF Entries
    <3> QED
      BY <1>5, <2>1, <3>2
  <2>2. CASE k # key
    <3>1. k \in DOMAIN others /\ map[k] = others[k]
      BY <1>5, <2>2
    <3>2. others[k] \in Entries(DOMAIN others) /\ Waiting(others[k])
      BY <1>2, <3>1 DEF MapGood
    <3> QED
      BY <1>5, <3>1, <3>2 DEF Entries
  <2> QED
    BY <2>1, <2>2
<1>11. ASSUME NEW k \in DOMAIN map
       PROVE  k \notin map[k].older /\ \A j \in map[k].older : map[j].older \subseteq map[k].older
  <2>1. CASE k = key
    <3>1. ASSUME NEW j \in r.older PROVE map[j].older \subseteq r.older
      BY <1>5, <1>7, <3>1
    <3> QED
      BY <1>5, <1>7, <2>1, <3>1
  <2>2. CASE k # key
    <3>1. k \in DOMAIN others /\ map[k] = others[k]
      BY <1>5, <2>2
    <3> QED
      BY <1>2, <1>9, <3>1 DEF MapGood
  <2> QED
    BY <2>1, <2>2
<1> QED
  BY <1>4, <1>6, <1>10, <1>11 DEF MapGood

LEMMA ReassemblyInvInit == Init => ReassemblyInv
<1> SUFFICES ASSUME Init PROVE ReassemblyInv
  OBVIOUS
<1>1. DOMAIN reassemblies = {} /\ delivered = <<>>
  BY DEF Init
<1>2. IsFiniteSet({}) /\ Cardinality({}) = 0
  BY FS_EmptySet
<1> QED
  BY <1>1, <1>2, LimitsAssumption DEF ReassemblyInv, MapGood, HandedOn

(* What leaves the Map leaves the rest as it was.                          *)
LEMMA DropGood ==
  ASSUME ReassemblyInv, NEW key
  PROVE  MapGood(Drop(key)) /\ Cardinality(DOMAIN Drop(key)) <= MAX_IP_REASSEMBLIES
<1>1. PICK others : others = Others(key)
  OBVIOUS
<1>2. MapGood(others) /\ Cardinality(DOMAIN others) <= MAX_IP_REASSEMBLIES
  BY <1>1, OthersGood
<1>3. PICK left : left = Without(others, {key})
  OBVIOUS
<1>4. MapGood(left) /\ Cardinality(DOMAIN left) <= Cardinality(DOMAIN others)
  BY <1>2, <1>3, WithoutGood
<1>5. /\ Cardinality(DOMAIN left) \in Nat /\ Cardinality(DOMAIN others) \in Nat
      /\ MAX_IP_REASSEMBLIES \in Nat
  BY <1>2, <1>4, FS_CardinalityType, LimitsAssumption DEF MapGood
<1> QED
  BY <1>1, <1>2, <1>3, <1>4, <1>5 DEF Drop

LEMMA LeaveGoodMap ==
  ASSUME ReassemblyInv, NEW gone
  PROVE  /\ MapGood(Without(reassemblies, gone))
         /\ Cardinality(DOMAIN Without(reassemblies, gone)) <= MAX_IP_REASSEMBLIES
<1>1. MapGood(reassemblies) /\ Cardinality(DOMAIN reassemblies) <= MAX_IP_REASSEMBLIES
  BY DEF ReassemblyInv
<1>2. PICK left : left = Without(reassemblies, gone)
  OBVIOUS
<1>3. MapGood(left) /\ Cardinality(DOMAIN left) <= Cardinality(DOMAIN reassemblies)
  BY <1>1, <1>2, WithoutGood
<1>4. /\ Cardinality(DOMAIN left) \in Nat /\ Cardinality(DOMAIN reassemblies) \in Nat
      /\ MAX_IP_REASSEMBLIES \in Nat
  BY <1>1, <1>3, FS_CardinalityType, LimitsAssumption DEF MapGood
<1> QED
  BY <1>1, <1>2, <1>3, <1>4

(* The entry a fragment finds: in order and apart, if it is not empty.     *)
LEMMA OfGood ==
  ASSUME ReassemblyInv, NEW key
  PROVE  LET r == Of(key) IN
         /\ r \in [older: {r.older}, fragments: Seq(Extents), total: Nat] /\ Apart(r.fragments)
         /\ key \notin DOMAIN reassemblies => r.fragments = <<>>
         /\ key \in DOMAIN reassemblies => Waiting(r)
<1>1. PICK r : r = Of(key)
  OBVIOUS
<1>2. CASE key \in DOMAIN reassemblies
  <2>1. r = reassemblies[key]
    BY <1>1, <1>2 DEF Of
  <2>2. r \in Entries(DOMAIN reassemblies) /\ Waiting(r)
    BY <1>2, <2>1 DEF ReassemblyInv, MapGood
  <2>3. r \in [older: {r.older}, fragments: Seq(Extents), total: Nat]
    BY <2>2 DEF Entries
  <2> QED
    BY <1>1, <1>2, <2>2, <2>3 DEF Waiting
<1>3. CASE key \notin DOMAIN reassemblies
  <2>1. r = [older |-> DOMAIN Others(key), fragments |-> <<>>, total |-> 0]
    BY <1>1, <1>3 DEF Of, NoTotal
  <2>2. <<>> \in Seq(Extents) /\ Len(<<>>) = 0
    OBVIOUS
  <2>3. r \in [older: {r.older}, fragments: Seq(Extents), total: Nat] /\ r.fragments = <<>>
    BY <2>1, <2>2
  <2>4. Apart(r.fragments)
    BY <2>2, <2>3 DEF Apart
  <2> QED
    BY <1>1, <1>3, <2>3, <2>4
<1> QED
  BY <1>2, <1>3

(* A fragment that fits: the entry is kept if it is not complete, and what *)
(* is complete is whole.                                                   *)
LEMMA InsertedGood ==
  ASSUME ReassemblyInv, NEW key, NEW f \in Extents, NEW more \in BOOLEAN,
         ~Overlaps(Of(key).fragments, f)
  PROVE  LET grown == Inserted(Of(key), f, more) IN
         /\ Contiguous(grown) => Whole(grown.fragments, End(grown.fragments[Len(grown.fragments)]))
         /\ ~Contiguous(grown) =>
              /\ MapGood(Store(key, grown))
              /\ Cardinality(DOMAIN Store(key, grown)) <= MAX_IP_REASSEMBLIES
<1>1. PICK r : r = Of(key)
  OBVIOUS
<1>2. r \in [older: {r.older}, fragments: Seq(Extents), total: Nat] /\ Apart(r.fragments)
  BY <1>1, OfGood
<1>3. PICK t : t = Spliced(r.fragments, f)
  OBVIOUS
<1>4. r.fragments \in Seq(Extents) /\ r.total \in Nat
  BY <1>2
<1>5. t \in Seq(Extents) /\ Len(t) = Len(r.fragments) + 1 /\ Apart(t)
  BY <1>1, <1>2, <1>3, <1>4, SplicedApart
<1>6. t # <<>> /\ Len(t) \in Nat \ {0}
  BY <1>4, <1>5
<1>7. PICK grown : grown = Inserted(r, f, more)
  OBVIOUS
<1>8. End(f) \in Nat
  BY DEF Extents, End
<1>9. /\ grown.fragments = t /\ grown.total \in Nat /\ grown.older = r.older
      /\ grown \in [older: {grown.older}, fragments: Seq(Extents), total: Nat]
  BY <1>2, <1>3, <1>5, <1>7, <1>8 DEF Inserted
<1>10. ASSUME Contiguous(grown) PROVE Whole(t, End(t[Len(t)]))
  <2>1. /\ \A i \in 1 .. Len(t) : t[i].offset = IF i = 1 THEN 0 ELSE End(t[i - 1])
        /\ End(t[Len(t)]) = grown.total
    BY <1>9, <1>10 DEF Contiguous
  <2> QED
    BY <1>5, <1>6, <1>9, <2>1, ContiguousWhole
<1>11. ASSUME ~Contiguous(grown)
       PROVE  /\ MapGood(Store(key, grown))
              /\ Cardinality(DOMAIN Store(key, grown)) <= MAX_IP_REASSEMBLIES
  <2>1. Waiting(grown)
    BY <1>5, <1>6, <1>9, <1>11 DEF Waiting
  <2> QED
    BY <1>1, <1>9, <2>1, StoreGood
<1> QED
  BY <1>1, <1>7, <1>9, <1>10, <1>11

LEMMA ReassembleKeeps ==
  ASSUME ReassemblyInv, NEW g, NEW id, NEW f \in Extents, NEW more \in BOOLEAN, NEW port,
         reassemble_ip(g, id, f, more, port)
  PROVE  ReassemblyInv'
<1>1. PICK key : key = <<g, id>>
  OBVIOUS
<1>2. PICK r : r = Of(key)
  OBVIOUS
<1>3. PICK grown : grown = Inserted(r, f, more)
  OBVIOUS
<1>4. ASSUME MapGood(reassemblies'), Cardinality(DOMAIN reassemblies') <= MAX_IP_REASSEMBLIES,
             delivered' # <<>> => Whole(delivered', End(delivered'[Len(delivered')]))
      PROVE  ReassemblyInv'
  <2>1. PICK map : map = reassemblies'
    OBVIOUS
  <2>2. MapGood(map) = MapGood(reassemblies)'
    BY <2>1 DEF MapGood, Entries, Waiting, Apart, Contiguous, Extents, End, NoTotal
  <2>3. HandedOn'
    BY <1>4 DEF HandedOn, Whole, Covers, End
  <2> QED
    BY <1>4, <2>1, <2>2, <2>3 DEF ReassemblyInv
<1>5. CASE f.offset = 0 /\ ~more /\ reassemblies' = Discard(key) /\ delivered' = <<f>>
  <2>1. MapGood(reassemblies') /\ Cardinality(DOMAIN reassemblies') <= MAX_IP_REASSEMBLIES
    BY <1>5, LeaveGoodMap DEF Discard
  <2>2. PICK t : t = <<f>>
    OBVIOUS
  <2>3. t \in Seq(Extents) /\ Len(t) = 1 /\ t[1] = f /\ t # <<>>
    BY <2>2
  <2>4. Apart(t) /\ End(f) \in Nat
    BY <2>3 DEF Apart, Extents, End
  <2>5. Whole(t, End(t[Len(t)]))
    <3>1. \A i \in 1 .. Len(t) : t[i].offset = IF i = 1 THEN 0 ELSE End(t[i - 1])
      BY <1>5, <2>3
    <3> QED
      BY <2>3, <2>4, <3>1, ContiguousWhole
  <2> QED
    BY <1>4, <1>5, <2>1, <2>2, <2>5
<1>6. CASE reassemblies' = Drop(key) /\ delivered' = <<>>
  BY <1>4, <1>6, DropGood
<1>7. CASE /\ reassemblies' = Store(key, r) /\ delivered' = <<>>
           /\ \E i \in 1 .. Len(r.fragments) : r.fragments[i] = f
  <2>1. key \in DOMAIN reassemblies
    <3>1. Len(<<>>) = 0
      OBVIOUS
    <3> QED
      BY <1>2, <1>7, <3>1, OfGood
  <2>2. Waiting(r) /\ r \in [older: {r.older}, fragments: Seq(Extents), total: Nat]
    BY <1>2, <2>1, OfGood
  <2>3. MapGood(Store(key, r)) /\ Cardinality(DOMAIN Store(key, r)) <= MAX_IP_REASSEMBLIES
    BY <1>2, <2>2, StoreGood
  <2> QED
    BY <1>4, <1>7, <2>3
<1>8. CASE /\ ~Overlaps(r.fragments, f) /\ Contiguous(grown)
           /\ reassemblies' = Drop(key) /\ delivered' = grown.fragments
  <2>1. Whole(grown.fragments, End(grown.fragments[Len(grown.fragments)]))
    BY <1>2, <1>3, <1>8, InsertedGood
  <2> QED
    BY <1>4, <1>8, <2>1, DropGood
<1>9. CASE /\ ~Overlaps(r.fragments, f) /\ ~Contiguous(grown)
           /\ reassemblies' = Store(key, grown) /\ delivered' = <<>>
  <2>1. MapGood(Store(key, grown)) /\ Cardinality(DOMAIN Store(key, grown)) <= MAX_IP_REASSEMBLIES
    BY <1>2, <1>3, <1>9, InsertedGood
  <2> QED
    BY <1>4, <1>9, <2>1
<1> QED
  BY <1>1, <1>2, <1>3, <1>5, <1>6, <1>7, <1>8, <1>9 DEF reassemble_ip, Nothing

LEMMA ReassemblyInvStep == ReassemblyInv /\ [Next]_vars => ReassemblyInv'
<1> SUFFICES ASSUME ReassemblyInv, [Next]_vars PROVE ReassemblyInv'
  OBVIOUS
<1>1. ASSUME MapGood(reassemblies'), Cardinality(DOMAIN reassemblies') <= MAX_IP_REASSEMBLIES,
             delivered' = <<>> \/ UNCHANGED delivered
      PROVE  ReassemblyInv'
  <2>1. PICK map : map = reassemblies'
    OBVIOUS
  <2>2. MapGood(map) = MapGood(reassemblies)'
    BY <2>1 DEF MapGood, Entries, Waiting, Apart, Contiguous, Extents, End, NoTotal
  <2>3. HandedOn'
    BY <1>1 DEF HandedOn, Whole, Covers, End, ReassemblyInv
  <2> QED
    BY <1>1, <2>1, <2>2, <2>3 DEF ReassemblyInv
<1>2. ASSUME NEW gone, reassemblies' = Without(reassemblies, gone), delivered' = <<>>
      PROVE  ReassemblyInv'
  BY <1>1, <1>2, LeaveGoodMap
<1>3. ASSUME UNCHANGED reassemblies, delivered' = <<>> \/ UNCHANGED delivered PROVE ReassemblyInv'
  BY <1>1, <1>3 DEF ReassemblyInv
<1>4. ASSUME NEW g \in Guests, NEW id \in Identifications, NEW f \in Arriving, NEW more \in BOOLEAN,
             NEW port \in HostPorts, End(f) <= MaxLength, reassemble_ip(g, id, f, more, port)
      PROVE  ReassemblyInv'
  <2>1. f \in Extents
    BY <1>4, LengthAssumption DEF Arriving, Fragment, Extents
  <2> QED
    BY <1>4, <2>1, ReassembleKeeps
<1>5. ASSUME NEW key \in Guests \X Identifications, Expire(key) PROVE ReassemblyInv'
  BY <1>2, <1>5 DEF Expire, Discard
<1>6. ASSUME NEW g \in Guests,
             connect_udp(g) \/ OpenTcp(g) \/ CloseTcp(g) \/ DeviceCloses(g)
      PROVE  ReassemblyInv'
  BY <1>3, <1>6 DEF connect_udp, OpenTcp, CloseTcp, DeviceCloses
<1>7. ASSUME NEW g \in Guests, Detach(g) PROVE ReassemblyInv'
  BY <1>2, <1>7 DEF Detach
<1>8. ASSUME NEW flow \in Guests \X HostPorts, ReadUdp(flow) \/ CloseUdp(flow) PROVE ReassemblyInv'
  BY <1>3, <1>8 DEF ReadUdp, CloseUdp
<1>9. CASE CloseNetwork
  BY <1>2, <1>9 DEF CloseNetwork
<1>10. CASE UNCHANGED vars
  BY <1>3, <1>10 DEF vars
<1> QED
  BY <1>4, <1>5, <1>6, <1>7, <1>8, <1>9, <1>10 DEF Next

(* ReassembledWhole: reassemble_ip hands on a datagram whole or not at     *)
(* all, in whatever order fragments come, repeat, overlap, contradict each *)
(* other and expire, keeps none that is whole, and never more of them than *)
(* MAX_IP_REASSEMBLIES; for any limits, guests and identifications.        *)
THEOREM DatagramsAreWhole == Spec => []ReassembledWhole
<1>1. ReassemblyInv => ReassembledWhole
  <2> SUFFICES ASSUME ReassemblyInv PROVE ReassembledWhole
    OBVIOUS
  <2>1. ASSUME NEW key \in DOMAIN reassemblies, NEW r, r = reassemblies[key]
        PROVE  /\ ~(r.total # NoTotal /\ Whole(r.fragments, r.total))
               /\ \A u \in 0 .. MaxLength : Cardinality(Covers(r.fragments, u)) <= 1
    <3>1. r \in Entries(DOMAIN reassemblies) /\ Waiting(r)
      BY <2>1 DEF ReassemblyInv, MapGood
    <3>2. r.fragments \in Seq(Extents) /\ r.total \in Nat /\ Apart(r.fragments) /\ r.fragments # <<>>
      BY <3>1 DEF Entries, Waiting
    <3>3. ASSUME r.total # NoTotal, Whole(r.fragments, r.total) PROVE FALSE
      <4>1. r.total \in Nat \ {0}
        BY <3>2, <3>3 DEF NoTotal
      <4>2. Contiguous(r)
        BY <3>2, <3>3, <4>1, WholeContiguous DEF Contiguous
      <4> QED
        BY <3>1, <4>2 DEF Waiting
    <3>4. ASSUME NEW u \in 0 .. MaxLength PROVE Cardinality(Covers(r.fragments, u)) <= 1
      <4>1. u \in Nat
        BY LengthAssumption
      <4> QED
        BY <3>2, <4>1, CoversOne
    <3> QED
      BY <3>3, <3>4
  <2> QED
    BY <2>1 DEF ReassembledWhole, ReassemblyInv, HandedOn
<1> QED
  BY <1>1, ReassemblyInvInit, ReassemblyInvStep, PTL DEF Spec

-----------------------------------------------------------------------------
(***************************************************************************)
(* The gateway: guests that leave.                                         *)
(***************************************************************************)
GoneInv ==
  /\ udp = [flow \in Guests \X HostPorts |-> udp[flow]]
  /\ ~closed => running \subseteq attached
  /\ NothingOfTheGone

LEMMA GoneInvStep == GoneInv /\ [Next]_vars => GoneInv'
<1> SUFFICES ASSUME GoneInv, [Next]_vars PROVE GoneInv'
  OBVIOUS
<1>1. DOMAIN udp = Guests \X HostPorts
  BY DEF GoneInv
<1>2. ASSUME NEW g \in Guests, NEW id \in Identifications, NEW f \in Arriving, NEW more \in BOOLEAN,
             NEW port \in HostPorts, reassemble_ip(g, id, f, more, port)
      PROVE  GoneInv'
  <2>1. g \in attached /\ UNCHANGED <<attached, running, closed, tcp>>
    BY <1>2 DEF reassemble_ip, GoneInv
  <2>2. udp' = udp \/ udp' = [udp EXCEPT ![<<g, port>>] = @ + 1]
    BY <1>2 DEF reassemble_ip, Enqueue, Nothing
  <2>3. DOMAIN Others(<<g, id>>) \subseteq DOMAIN reassemblies
    BY DEF Others, Without
  <2>4. DOMAIN reassemblies' \subseteq DOMAIN reassemblies \cup {<<g, id>>}
    BY <1>2, <2>3 DEF reassemble_ip, Discard, Drop, Store, With, Without
  <2>5. ASSUME NEW h \in Guests \ attached PROVE \A key \in DOMAIN reassemblies' : key[1] # h
    <3>1. \A key \in DOMAIN reassemblies : key[1] # h
      BY DEF GoneInv, NothingOfTheGone
    <3>2. <<g, id>>[1] = g /\ g # h
      BY <2>1
    <3> QED
      BY <2>4, <3>1, <3>2
  <2>6. ASSUME NEW h \in Guests \ attached, NEW p \in HostPorts PROVE udp'[<<h, p>>] = Absent
    <3>1. udp[<<h, p>>] = Absent /\ <<h, p>> # <<g, port>>
      BY <2>1 DEF GoneInv, NothingOfTheGone
    <3> QED
      BY <1>1, <2>2, <3>1
  <2>7. udp' = [flow \in Guests \X HostPorts |-> udp'[flow]]
    BY <1>1, <2>2 DEF GoneInv
  <2> QED
    BY <2>1, <2>5, <2>6, <2>7 DEF GoneInv, NothingOfTheGone, Absent
<1>3. ASSUME NEW key \in Guests \X Identifications, Expire(key) PROVE GoneInv'
  BY <1>3 DEF Expire, Discard, Without, GoneInv, NothingOfTheGone, Absent
<1>4. ASSUME NEW g \in Guests, connect_udp(g) PROVE GoneInv'
  BY <1>1, <1>4 DEF connect_udp, GoneInv, NothingOfTheGone, Absent
<1>5. ASSUME NEW g \in Guests, OpenTcp(g) \/ CloseTcp(g) \/ DeviceCloses(g) PROVE GoneInv'
  BY <1>5 DEF OpenTcp, CloseTcp, DeviceCloses, GoneInv, NothingOfTheGone, Absent
<1>6. ASSUME NEW g \in Guests, Detach(g) PROVE GoneInv'
  BY <1>1, <1>6 DEF Detach, WithoutUdp, Without, GoneInv, NothingOfTheGone, Absent
<1>7. ASSUME NEW flow \in Guests \X HostPorts, ReadUdp(flow) \/ CloseUdp(flow) PROVE GoneInv'
  <2>1. CASE ReadUdp(flow)
    <3>1. udp[flow] # Absent
      BY <2>1, LimitsAssumption DEF ReadUdp, Absent
    <3>2. PICK g \in Guests, port \in HostPorts : flow = <<g, port>>
      BY <1>7
    <3>3. g \in attached
      BY <3>1, <3>2 DEF GoneInv, NothingOfTheGone
    <3>4. ASSUME NEW h \in Guests \ attached, NEW p \in HostPorts PROVE udp'[<<h, p>>] = Absent
      <4>1. udp[<<h, p>>] = Absent /\ <<h, p>> # flow
        BY <3>2, <3>3 DEF GoneInv, NothingOfTheGone
      <4> QED
        BY <1>1, <2>1, <4>1 DEF ReadUdp
    <3>5. udp' = [x \in Guests \X HostPorts |-> udp'[x]]
      BY <1>1, <2>1 DEF ReadUdp, GoneInv
    <3> QED
      BY <2>1, <3>4, <3>5 DEF ReadUdp, GoneInv, NothingOfTheGone, Absent
  <2>2. CASE CloseUdp(flow)
    BY <1>1, <2>2 DEF CloseUdp, GoneInv, NothingOfTheGone, Absent
  <2> QED
    BY <1>7, <2>1, <2>2
<1>8. CASE CloseNetwork
  BY <1>1, <1>8 DEF CloseNetwork, WithoutUdp, Without, GoneInv, NothingOfTheGone, Absent
<1>9. CASE UNCHANGED vars
  BY <1>9 DEF vars, GoneInv, NothingOfTheGone, Absent
<1> QED
  BY <1>2, <1>3, <1>4, <1>5, <1>6, <1>7, <1>8, <1>9 DEF Next

(* NothingOfTheGone: when an attachment closes, its connections and        *)
(* fragments go, and no frame on its way brings any back, since the device *)
(* has stopped before; after network.close() there is nothing of anybody.  *)
THEOREM GoneLeaveNothing == Spec => []NothingOfTheGone
<1>1. Init => GoneInv
  BY DEF Init, GoneInv, NothingOfTheGone
<1>2. GoneInv => NothingOfTheGone
  BY DEF GoneInv
<1> QED
  BY <1>1, <1>2, GoneInvStep, PTL DEF Spec
=============================================================================
