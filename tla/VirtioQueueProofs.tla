------------------------- MODULE VirtioQueueProofs -------------------------
(***************************************************************************)
(* Proofs about VirtioQueue, for a ring of any size: its types, that the   *)
(* ring is always consistent, and that it implements RequestQueue.         *)
(*                                                                         *)
(* Everything is counted in descriptors from the driver's used cursor, as  *)
(* in RingInv: u, p and a are the distances of the device's used cursor,   *)
(* of its avail cursor and of the driver's.  The used elements lie in      *)
(* 0 .. u-1 in the order of `done', and the chains the device has yet to   *)
(* take in p .. a-1 in the order of `queued', the first of them perhaps    *)
(* partly walked.  dp and qp say where each of them starts.  RingInv       *)
(* follows from that layout, and so does the refinement, as the layout     *)
(* knows which chain each side meets next.                                 *)
(***************************************************************************)
EXTENDS VirtioQueue, FiniteSetTheorems, TLAPS

USE SizeAssumption, GenerationsAssumption

-----------------------------------------------------------------------------
(***************************************************************************)
(* Ring arithmetic.                                                        *)
(***************************************************************************)
(* A step leads to a slot.                                                 *)
LEMMA StepIn ==
  ASSUME NEW s \in Slots, NEW n \in 0 .. Size
  PROVE  Step(s, n) \in Slots
BY DEF Step, Slots

(* A wrap counter is a bit.                                                *)
LEMMA WrapIn ==
  ASSUME NEW s, NEW w \in BOOLEAN, NEW n
  PROVE  Wrap(s, w, n) \in BOOLEAN
BY DEF Wrap

(* No step at all.                                                         *)
LEMMA StepZero ==
  ASSUME NEW s \in Slots, NEW w \in BOOLEAN
  PROVE  Step(s, 0) = s /\ Wrap(s, w, 0) = w
BY DEF Step, Wrap, Slots

(* Two steps within a lap are one.                                         *)
LEMMA StepStep ==
  ASSUME NEW s \in Slots, NEW w \in BOOLEAN, NEW m \in Nat, NEW n \in Nat, m + n <= Size
  PROVE  Step(Step(s, m), n) = Step(s, m + n)
         /\ Wrap(Step(s, m), Wrap(s, w, m), n) = Wrap(s, w, m + n)
BY DEF Step, Wrap, Slots

(* Two steps that go round once end a lap later, on the other wrap.        *)
LEMMA StepPast ==
  ASSUME NEW s \in Slots, NEW w \in BOOLEAN, NEW m \in 0 .. Size, NEW n \in 0 .. Size,
         m + n >= Size
  PROVE  Step(Step(s, m), n) = Step(s, m + n - Size)
         /\ Wrap(Step(s, m), Wrap(s, w, m), n) = ~Wrap(s, w, m + n - Size)
<1>1. Step(Step(s, m), n) = Step(s, m + n - Size)
  BY DEF Step, Slots
<1>2. Wrap(Step(s, m), Wrap(s, w, m), n) = ~Wrap(s, w, m + n - Size)
  <2>1. CASE s + m >= Size
    BY <2>1 DEF Step, Wrap, Slots
  <2>2. CASE s + m < Size
    BY <2>2 DEF Step, Wrap, Slots
  <2> QED
    BY <2>1, <2>2 DEF Slots
<1> QED
  BY <1>1, <1>2

(* Within a lap no slot comes twice, and each comes.                       *)
LEMMA StepInjective ==
  ASSUME NEW s \in Slots, NEW d \in 0 .. Size - 1, NEW e \in 0 .. Size - 1,
         Step(s, d) = Step(s, e)
  PROVE  d = e
BY DEF Step, Slots

(* Each slot of the ring is a step away.                                   *)
LEMMA StepOnto ==
  ASSUME NEW s \in Slots, NEW t \in Slots
  PROVE  \E d \in 0 .. Size - 1 : Step(s, d) = t
<1>1. CASE t >= s
  BY <1>1, t - s \in 0 .. Size - 1, Step(s, t - s) = t DEF Step, Slots
<1>2. CASE t < s
  BY <1>2, t - s + Size \in 0 .. Size - 1, Step(s, t - s + Size) = t DEF Step, Slots
<1> QED
  BY <1>1, <1>2 DEF Slots

(* A cursor n steps on is at distance n.                                   *)
LEMMA DistanceIs ==
  ASSUME NEW s \in Slots, NEW w \in BOOLEAN, NEW n \in 0 .. Size
  PROVE  Distance(Position(s, w), Position(Step(s, n), Wrap(s, w, n))) = n
<1>1. CASE w = TRUE
  BY <1>1 DEF Distance, Position, Step, Wrap, Slots
<1>2. CASE w = FALSE
  BY <1>2 DEF Distance, Position, Step, Wrap, Slots
<1> QED
  BY <1>1, <1>2

-----------------------------------------------------------------------------
(***************************************************************************)
(* Chains laid out one after the other: chain seq[k] is len[seq[k]] long   *)
(* and starts at pos[k].                                                   *)
(***************************************************************************)
Layout(pos, seq, len, from, to) ==
  /\ pos \in [1 .. Len(seq) + 1 -> Int]
  /\ pos[1] = from /\ pos[Len(seq) + 1] = to
  /\ \A k \in 1 .. Len(seq) : len[seq[k]] > 0 /\ pos[k + 1] = pos[k] + len[seq[k]]
  /\ \A k, m \in 1 .. Len(seq) + 1 : k < m => pos[k] < pos[m]
  /\ \A d \in from .. to - 1 : \E k \in 1 .. Len(seq) : pos[k] <= d /\ d < pos[k + 1]

Lens == [Ids -> Nat]

(* The bounds are integers, in order, and tell whether there is a chain.   *)
LEMMA LayoutEnds ==
  ASSUME NEW seq \in Seq(Ids), NEW len \in Lens, NEW from, NEW to, NEW pos,
         Layout(pos, seq, len, from, to)
  PROVE  /\ from \in Int /\ to \in Int /\ from <= to
         /\ from < to <=> seq # <<>>
         /\ seq # <<>> => seq[1] \in Ids /\ len[seq[1]] \in Nat \ {0}
                          /\ from + len[seq[1]] <= to
         /\ \A k \in 1 .. Len(seq) :
              /\ seq[k] \in Ids /\ len[seq[k]] \in Nat \ {0}
              /\ from <= pos[k] /\ pos[k] + len[seq[k]] <= to
<1>1. Len(seq) \in Nat /\ \A k \in 1 .. Len(seq) : seq[k] \in Ids
  OBVIOUS
<1>2. /\ \A k \in 1 .. Len(seq) + 1 : pos[k] \in Int
      /\ from \in Int /\ to \in Int
  BY <1>1, SMTT(60) DEF Layout
<1>3. \A k \in 1 .. Len(seq) + 1 : from <= pos[k] /\ pos[k] <= to
  BY <1>1, <1>2 DEF Layout
<1>4. \A k \in 1 .. Len(seq) :
        /\ seq[k] \in Ids /\ len[seq[k]] \in Nat \ {0}
        /\ from <= pos[k] /\ pos[k] + len[seq[k]] <= to
  <2> SUFFICES ASSUME NEW k \in 1 .. Len(seq)
               PROVE  /\ seq[k] \in Ids /\ len[seq[k]] \in Nat \ {0}
                      /\ from <= pos[k] /\ pos[k] + len[seq[k]] <= to
    OBVIOUS
  <2>1. k \in 1 .. Len(seq) + 1 /\ k + 1 \in 1 .. Len(seq) + 1
    BY <1>1
  <2>2. seq[k] \in Ids /\ len[seq[k]] \in Nat /\ len[seq[k]] > 0
    BY <1>1 DEF Layout, Lens
  <2> QED
    BY <1>3, <2>1, <2>2 DEF Layout
<1>5. CASE seq = <<>>
  BY <1>2, <1>4, <1>5 DEF Layout
<1>6. CASE seq # <<>>
  <2>1. 1 \in 1 .. Len(seq)
    BY <1>6
  <2>2. pos[1] = from
    BY DEF Layout
  <2>3. len[seq[1]] \in Nat \ {0} /\ from + len[seq[1]] <= to /\ seq[1] \in Ids
    BY <1>4, <2>1, <2>2
  <2> QED
    BY <1>2, <1>4, <1>6, <2>3
<1> QED
  BY <1>5, <1>6

(* A chain is added at the end.                                            *)
LEMMA LayoutAppend ==
  ASSUME NEW seq \in Seq(Ids), NEW len \in Lens, NEW from, NEW to, NEW pos,
         Layout(pos, seq, len, from, to), NEW x \in Ids, len[x] > 0
  PROVE  Layout([k \in 1 .. Len(seq) + 2 |->
                   IF k = Len(seq) + 2 THEN to + len[x] ELSE pos[k]],
                Append(seq, x), len, from, to + len[x])
<1> DEFINE new == [k \in 1 .. Len(seq) + 2 |->
                     IF k = Len(seq) + 2 THEN to + len[x] ELSE pos[k]]
           s2 == Append(seq, x)
           n == Len(seq)
<1>1. /\ n \in Nat /\ s2 \in Seq(Ids) /\ Len(s2) = n + 1
      /\ \A k \in 1 .. n : s2[k] = seq[k]
      /\ s2[n + 1] = x
  OBVIOUS
<1>2. len[x] \in Nat /\ from \in Int /\ to \in Int
  BY LayoutEnds DEF Lens
<1>3. /\ \A k \in 1 .. n + 1 : pos[k] \in Int
      /\ pos[1] = from /\ pos[n + 1] = to
  BY <1>1 DEF Layout
<1>4. /\ new \in [1 .. n + 2 -> Int]
      /\ \A k \in 1 .. n + 1 : new[k] = pos[k]
      /\ new[n + 2] = to + len[x]
  BY <1>1, <1>2, <1>3
<1>5. \A k, m \in 1 .. n + 1 : k < m => pos[k] < pos[m]
  BY DEF Layout
<1>6. \A k \in 1 .. n + 1 : pos[k] <= to
  BY <1>1, <1>2, <1>3, <1>5
<1> HIDE DEF new, s2, n
<1>7. \A k \in 1 .. n + 1 : len[s2[k]] > 0 /\ new[k + 1] = new[k] + len[s2[k]]
  <2> SUFFICES ASSUME NEW k \in 1 .. n + 1
               PROVE  len[s2[k]] > 0 /\ new[k + 1] = new[k] + len[s2[k]]
    OBVIOUS
  <2>1. CASE k = n + 1
    BY <1>1, <1>2, <1>3, <1>4, <2>1
  <2>2. CASE k \in 1 .. n
    <3>1. len[seq[k]] > 0 /\ pos[k + 1] = pos[k] + len[seq[k]]
      BY <2>2 DEF Layout, n
    <3>2. k + 1 \in 1 .. n + 1 /\ k \in 1 .. n + 1
      BY <1>1, <2>2
    <3> QED
      BY <1>1, <1>4, <2>2, <3>1, <3>2
  <2> QED
    BY <1>1, <2>1, <2>2
<1>8. \A k, m \in 1 .. n + 2 : k < m => new[k] < new[m]
  <2> SUFFICES ASSUME NEW k \in 1 .. n + 2, NEW m \in 1 .. n + 2, k < m
               PROVE  new[k] < new[m]
    OBVIOUS
  <2>1. k \in 1 .. n + 1 /\ new[k] = pos[k] /\ pos[k] \in Int
    BY <1>1, <1>3, <1>4
  <2>2. CASE m = n + 2
    <3>1. pos[k] <= to /\ new[m] = to + len[x]
      BY <1>4, <1>6, <2>1, <2>2
    <3> QED
      BY <1>2, <2>1, <3>1
  <2>3. CASE m \in 1 .. n + 1
    BY <1>4, <1>5, <2>1, <2>3
  <2> QED
    BY <1>1, <2>2, <2>3
<1>9. \A d \in from .. (to + len[x]) - 1 : \E k \in 1 .. n + 1 : new[k] <= d /\ d < new[k + 1]
  <2> SUFFICES ASSUME NEW d \in from .. (to + len[x]) - 1
               PROVE  \E k \in 1 .. n + 1 : new[k] <= d /\ d < new[k + 1]
    OBVIOUS
  <2>1. CASE d >= to
    <3>1. n + 1 \in 1 .. n + 1 /\ new[n + 1] = to /\ new[(n + 1) + 1] = to + len[x]
      BY <1>1, <1>3, <1>4
    <3>2. new[n + 1] <= d /\ d < new[(n + 1) + 1]
      BY <1>2, <2>1, <3>1
    <3> QED
      BY <3>1, <3>2
  <2>2. CASE d < to
    <3>0. d \in from .. to - 1
      BY <1>2, <2>2
    <3>1. PICK k \in 1 .. n : pos[k] <= d /\ d < pos[k + 1]
      BY <3>0 DEF Layout, n
    <3>2. k \in 1 .. n + 1 /\ k + 1 \in 1 .. n + 1
      BY <1>1
    <3>3. new[k] = pos[k] /\ new[k + 1] = pos[k + 1]
      BY <1>4, <3>2
    <3> QED
      BY <3>1, <3>2, <3>3
  <2> QED
    BY <1>2, <2>1, <2>2
<1>10. (n + 1) + 1 = n + 2 /\ 1 \in 1 .. n + 1
  BY <1>1
<1>11. Layout(new, s2, len, from, to + len[x])
  BY <1>1, <1>3, <1>4, <1>7, <1>8, <1>9, <1>10 DEF Layout
<1> QED
  BY <1>11 DEF new, s2, n

(* The first chain is removed.                                             *)
LEMMA LayoutTail ==
  ASSUME NEW seq \in Seq(Ids), NEW len \in Lens, NEW from, NEW to, NEW pos,
         Layout(pos, seq, len, from, to), seq # <<>>
  PROVE  Layout([k \in 1 .. Len(seq) |-> pos[k + 1]],
                Tail(seq), len, from + len[seq[1]], to)
<1> DEFINE new == [k \in 1 .. Len(seq) |-> pos[k + 1]]
           s2 == Tail(seq)
           n == Len(seq)
<1>1. /\ n \in Nat \ {0} /\ s2 \in Seq(Ids) /\ Len(s2) = n - 1
      /\ \A k \in 1 .. n - 1 : s2[k] = seq[k + 1]
  OBVIOUS
<1>2. len[seq[1]] \in Nat /\ from \in Int /\ to \in Int /\ 1 \in 1 .. n
  BY <1>1, LayoutEnds DEF Lens
<1>3. /\ \A k \in 1 .. n + 1 : pos[k] \in Int
      /\ pos[1] = from /\ pos[n + 1] = to /\ pos[2] = from + len[seq[1]]
  <2>1. pos[1 + 1] = pos[1] + len[seq[1]]
    BY <1>2 DEF Layout
  <2> QED
    BY <2>1 DEF Layout
<1>4. /\ new \in [1 .. n -> Int]
      /\ \A k \in 1 .. n : new[k] = pos[k + 1]
  BY <1>1, <1>3
<1>5. /\ \A k, m \in 1 .. n + 1 : k < m => pos[k] < pos[m]
      /\ \A k \in 1 .. n : len[seq[k]] > 0 /\ pos[k + 1] = pos[k] + len[seq[k]]
      /\ \A d \in from .. to - 1 : \E k \in 1 .. n : pos[k] <= d /\ d < pos[k + 1]
  BY DEF Layout
<1> HIDE DEF new, s2, n
<1>6. \A k \in 1 .. n - 1 : len[s2[k]] > 0 /\ new[k + 1] = new[k] + len[s2[k]]
  <2> SUFFICES ASSUME NEW k \in 1 .. n - 1
               PROVE  len[s2[k]] > 0 /\ new[k + 1] = new[k] + len[s2[k]]
    OBVIOUS
  <2>1. k \in 1 .. n /\ k + 1 \in 1 .. n
    BY <1>1
  <2>2. new[k] = pos[k + 1] /\ new[k + 1] = pos[(k + 1) + 1] /\ s2[k] = seq[k + 1]
    BY <1>1, <1>4, <2>1
  <2> QED
    BY <1>5, <2>1, <2>2
<1>7. \A k, m \in 1 .. n : k < m => new[k] < new[m]
  <2> SUFFICES ASSUME NEW k \in 1 .. n, NEW m \in 1 .. n, k < m
               PROVE  new[k] < new[m]
    OBVIOUS
  <2>1. k + 1 \in 1 .. n + 1 /\ m + 1 \in 1 .. n + 1 /\ k + 1 < m + 1
    BY <1>1
  <2> QED
    BY <1>4, <1>5, <2>1
<1>8. ASSUME NEW d \in from + len[seq[1]] .. to - 1
      PROVE  \E k \in 1 .. n - 1 : new[k] <= d /\ d < new[k + 1]
  <2>1. d \in from .. to - 1 /\ pos[2] <= d /\ d \in Int
    BY <1>2, <1>3
  <2>2. PICK k \in 1 .. n : pos[k] <= d /\ d < pos[k + 1]
    BY <1>5, <2>1
  <2>3. k # 1
    <3>1. CASE k = 1
      <4>1. d < pos[2]
        BY <2>2, <3>1
      <4> QED
        BY <1>1, <1>3, <2>1, <4>1
    <3> QED
      BY <3>1
  <2>4. k - 1 \in 1 .. n - 1 /\ k - 1 \in 1 .. n /\ (k - 1) + 1 = k /\ k \in 1 .. n
    BY <1>1, <2>3
  <2>5. new[k - 1] = pos[k] /\ new[(k - 1) + 1] = pos[k + 1]
    BY <1>4, <2>4
  <2> QED
    BY <2>2, <2>4, <2>5
<1>9. (n - 1) + 1 = n /\ 1 \in 1 .. n /\ n \in 1 .. n /\ new[1] = pos[2] /\ new[n] = pos[n + 1]
  BY <1>1, <1>4
<1>10. Layout(new, s2, len, from + len[seq[1]], to)
  BY <1>1, <1>3, <1>4, <1>6, <1>7, <1>8, <1>9 DEF Layout
<1> QED
  BY <1>10 DEF new, s2, n

(* Everything is counted from n descriptors further on.                    *)
LEMMA LayoutShift ==
  ASSUME NEW seq \in Seq(Ids), NEW len \in Lens, NEW from, NEW to, NEW pos,
         Layout(pos, seq, len, from, to), NEW x \in Int
  PROVE  Layout([k \in 1 .. Len(seq) + 1 |-> pos[k] - x], seq, len, from - x, to - x)
<1> DEFINE new == [k \in 1 .. Len(seq) + 1 |-> pos[k] - x]
           n == Len(seq)
<1>1. n \in Nat /\ from \in Int /\ to \in Int
  BY LayoutEnds
<1>2. /\ \A k \in 1 .. n + 1 : pos[k] \in Int
      /\ pos[1] = from /\ pos[n + 1] = to
      /\ \A k, m \in 1 .. n + 1 : k < m => pos[k] < pos[m]
      /\ \A k \in 1 .. n : len[seq[k]] > 0 /\ pos[k + 1] = pos[k] + len[seq[k]]
      /\ \A d \in from .. to - 1 : \E k \in 1 .. n : pos[k] <= d /\ d < pos[k + 1]
  BY DEF Layout
<1>3. /\ new \in [1 .. n + 1 -> Int]
      /\ \A k \in 1 .. n + 1 : new[k] = pos[k] - x
  BY <1>2
<1> HIDE DEF new, n
<1>4. \A k \in 1 .. n : len[seq[k]] > 0 /\ new[k + 1] = new[k] + len[seq[k]]
  <2> SUFFICES ASSUME NEW k \in 1 .. n
               PROVE  len[seq[k]] > 0 /\ new[k + 1] = new[k] + len[seq[k]]
    OBVIOUS
  <2>1. k \in 1 .. n + 1 /\ k + 1 \in 1 .. n + 1 /\ len[seq[k]] \in Nat
    BY <1>1, LayoutEnds DEF n
  <2>2. new[k] = pos[k] - x /\ new[k + 1] = pos[k + 1] - x /\ pos[k] \in Int
    BY <1>2, <1>3, <2>1
  <2>3. len[seq[k]] > 0 /\ pos[k + 1] = pos[k] + len[seq[k]]
    BY <1>2
  <2> QED
    BY <2>1, <2>2, <2>3
<1>5. \A k, m \in 1 .. n + 1 : k < m => new[k] < new[m]
  BY <1>2, <1>3
<1>6. ASSUME NEW d \in from - x .. (to - x) - 1
      PROVE  \E k \in 1 .. n : new[k] <= d /\ d < new[k + 1]
  <2>1. d + x \in from .. to - 1 /\ d \in Int
    BY <1>1
  <2>2. PICK k \in 1 .. n : pos[k] <= d + x /\ d + x < pos[k + 1]
    BY <1>2, <2>1
  <2>3. k \in 1 .. n + 1 /\ k + 1 \in 1 .. n + 1
    BY <1>1
  <2>4. new[k] = pos[k] - x /\ new[k + 1] = pos[k + 1] - x /\ pos[k] \in Int /\ pos[k + 1] \in Int
    BY <1>2, <1>3, <2>3
  <2> QED
    BY <2>1, <2>2, <2>4
<1>7. new[1] = from - x /\ new[n + 1] = to - x
  BY <1>1, <1>2, <1>3
<1>8. Layout(new, seq, len, from - x, to - x)
  BY <1>3, <1>4, <1>5, <1>6, <1>7 DEF Layout, n
<1> QED
  BY <1>8 DEF new, n

(* Only the lengths of the chains in the layout matter.                    *)
LEMMA LayoutSame ==
  ASSUME NEW seq \in Seq(Ids), NEW len, NEW len2, NEW from, NEW to, NEW pos,
         Layout(pos, seq, len, from, to),
         \A k \in 1 .. Len(seq) : len2[seq[k]] = len[seq[k]]
  PROVE  Layout(pos, seq, len2, from, to)
BY DEF Layout

(* No chain, no descriptor.                                                *)
LEMMA LayoutNone ==
  ASSUME NEW len
  PROVE  Layout([k \in {1} |-> 0], <<>>, len, 0, 0)
BY DEF Layout

-----------------------------------------------------------------------------
(***************************************************************************)
(* The inductive invariant.                                                *)
(***************************************************************************)
Taken == UNION {owned[i] : i \in Ids}
Lengths == [i \in Ids |-> Cardinality(owned[i])]

(* The descriptor d places on is the driver's or the device's of this lap, *)
(* and is a used element.                                                  *)
Mine(d) == At(d).avail = WrapAt(d)
Spent(d) == At(d).avail = At(d).used

(* Chains are made of different ids, each named after one of its own.      *)
OwnedSound ==
  /\ \A i \in Ids : owned[i] # {} => i \in owned[i]
  /\ \A i, j \in Ids : i # j => owned[i] \cap owned[j] = {}

(* A chain being walked is the first of those queued.                      *)
Walking ==
  IF popping.id = None THEN popping = NotPopping
  ELSE /\ queued # <<>> /\ popping.id = queued[1]
       /\ 0 < popping.skip /\ popping.skip <= Lengths[queued[1]]
       /\ popping.more <=> popping.skip < Lengths[queued[1]]

(* Nothing goes on in an invalid queue.                                    *)
Life == ~valid => ~is_current /\ popping = NotPopping

(* The chains held are whole and no two are the same.                      *)
HeldSound ==
  /\ \A c \in held : c.gen <= generation
  /\ \A c \in HeldChains : owned[c.id] # {} /\ c.skip = Lengths[c.id]
  /\ \A c1, c2 \in HeldChains : c1.id = c2.id => c1 = c2

(* A chain is in one place.                                                *)
Apart ==
  /\ \A k, m \in 1 .. Len(queued) : queued[k] = queued[m] => k = m
  /\ \A k, m \in 1 .. Len(done) : done[k] = done[m] => k = m
  /\ \A k \in 1 .. Len(queued), m \in 1 .. Len(done) : queued[k] # done[m]
  /\ \A k \in 1 .. Len(queued) : queued[k] \notin HeldIds /\ queued[k] # staged
  /\ \A k \in 1 .. Len(done) : done[k] \notin HeldIds /\ done[k] # staged
  /\ staged \notin HeldIds

Cursors(u, p, a) ==
  /\ used_idx = Step(last_used_idx, u) /\ used_wrap = WrapAt(u)
  /\ avail_idx = Step(last_used_idx, p) /\ avail_wrap = WrapAt(p)
  /\ next_avail_idx = Step(last_used_idx, a) /\ avail_wrap_counter = WrapAt(a)
  /\ u <= p /\ p <= a /\ a + StagedLength = Cardinality(Taken)

Flags(u, a) ==
  \A d \in 0 .. Size - 1 :
    /\ Mine(d) <=> d < a \/ (a < d /\ d < a + StagedLength)
    /\ u <= d /\ Mine(d) => ~Spent(d)

QueuedChains(p, a, qp) ==
  /\ Layout(qp, queued, Lengths, p - popping.skip, a)
  /\ \A k \in 1 .. Len(queued), d \in p .. a - 1 :
       qp[k] <= d /\ d < qp[k] + Lengths[queued[k]] =>
         /\ At(d).id = queued[k]
         /\ At(d).next <=> d < qp[k] + Lengths[queued[k]] - 1

DoneChains(u, dp) ==
  /\ Layout(dp, done, Lengths, 0, u)
  /\ \A k \in 1 .. Len(done) : Spent(dp[k]) /\ At(dp[k]).id = done[k]
  /\ \A d \in 0 .. u - 1 : Spent(d) => \E k \in 1 .. Len(done) : d = dp[k]

StagedBody(a) ==
  staged # None =>
    /\ owned[staged] # {}
    /\ \A d \in 0 .. Size - 1 : a < d /\ d < a + Lengths[staged] =>
         /\ At(d).id = staged
         /\ At(d).next <=> d < a + Lengths[staged] - 1

HeldTaken == UNION {owned[i] : i \in HeldIds}
HeldCount(u, p) == is_current => p - u = popping.skip + Cardinality(HeldTaken)

Shape(u, p, a, dp, qp) ==
  /\ Cursors(u, p, a) /\ Flags(u, a) /\ QueuedChains(p, a, qp) /\ DoneChains(u, dp)
  /\ StagedBody(a) /\ HeldCount(u, p)

Sound == TypeOK /\ errors = {} /\ OwnedSound /\ Walking /\ Life /\ HeldSound /\ Apart

QueueInv ==
  Sound /\ \E u, p, a \in 0 .. Size : \E dp, qp : Shape(u, p, a, dp, qp)

-----------------------------------------------------------------------------
(***************************************************************************)
(* What the invariant says of lengths, and what a step leaves alone.       *)
(***************************************************************************)
LEMMA IdsFinite ==
  ASSUME NEW S \in SUBSET Ids
  PROVE  IsFiniteSet(S) /\ Cardinality(S) \in 0 .. Size /\ (Cardinality(S) = 0 <=> S = {})
<1>1. IsFiniteSet(Ids) /\ Cardinality(Ids) = Size
  <2>1. IsFiniteSet(0 .. Size - 1) /\ Cardinality(0 .. Size - 1) =
           IF 0 > Size - 1 THEN 0 ELSE (Size - 1) - 0 + 1
    BY FS_Interval
  <2> QED
    BY <2>1 DEF Ids
<1>2. IsFiniteSet(S) /\ Cardinality(S) <= Cardinality(Ids)
  BY <1>1, FS_Subset
<1>3. Cardinality(S) \in Nat /\ (Cardinality(S) = 0 <=> S = {})
  BY <1>2, FS_CardinalityType, FS_EmptySet
<1> QED
  BY <1>1, <1>2, <1>3

(* What the types say of the chains' lengths.                              *)
LEMMA OwnedFacts ==
  ASSUME TypeOK
  PROVE  /\ Lengths \in Lens
         /\ \A i \in Ids : /\ Lengths[i] = Cardinality(owned[i]) /\ Length(i) = Lengths[i]
                           /\ Lengths[i] \in 0 .. Size
                           /\ Lengths[i] = 0 <=> owned[i] = {}
         /\ Taken \in SUBSET Ids /\ IsFiniteSet(Taken) /\ Cardinality(Taken) \in 0 .. Size
         /\ StagedLength \in 0 .. Size
<1>1. owned \in [Ids -> SUBSET Ids] /\ staged \in Ids \cup {None}
  BY DEF TypeOK
<1>2. Taken \in SUBSET Ids
  BY <1>1 DEF Taken
<1>3. \A i \in Ids : Lengths[i] = Cardinality(owned[i]) /\ Length(i) = Lengths[i]
  BY DEF Lengths, Length
<1>5. \A i \in Ids : Lengths[i] \in 0 .. Size /\ (Lengths[i] = 0 <=> owned[i] = {})
  BY <1>1, <1>3, IdsFinite
<1>4. StagedLength \in 0 .. Size
  <2>1. CASE staged = None
    BY <2>1 DEF StagedLength
  <2>2. CASE staged # None
    BY <1>1, <1>3, <1>5, <2>2 DEF StagedLength
  <2> QED
    BY <2>1, <2>2
<1> QED
  BY <1>1, <1>2, <1>3, <1>4, <1>5, IdsFinite DEF Lengths, Lens

(* The ring and the place it is counted from stay as they are.             *)
LEMMA ViewKept ==
  ASSUME UNCHANGED <<ring, last_used_idx, used_wrap_counter>>
  PROVE  \A d : /\ At(d)' = At(d) /\ WrapAt(d)' = WrapAt(d)
                /\ Mine(d)' <=> Mine(d)
                /\ Spent(d)' <=> Spent(d)
BY DEF At, WrapAt, Mine, Spent

(* The driver's chains stay as they are.                                   *)
LEMMA ChainsKept ==
  ASSUME UNCHANGED <<owned, staged>>
  PROVE  /\ Lengths' = Lengths /\ Taken' = Taken /\ StagedLength' = StagedLength
         /\ OwnedSound => OwnedSound'
BY DEF Lengths, Taken, StagedLength, Length, OwnedSound

(* A step that touches neither ring nor driver keeps what they say.        *)
LEMMA DriverKept ==
  ASSUME UNCHANGED <<ring, driverVars>>, NEW u, NEW a, NEW dp,
         Flags(u, a), StagedBody(a), OwnedSound
  PROVE  /\ Flags(u, a)' /\ StagedBody(a)' /\ OwnedSound'
         /\ UNCHANGED done => (DoneChains(u, dp) => DoneChains(u, dp)')
<1>1. UNCHANGED <<ring, last_used_idx, used_wrap_counter, owned, staged>>
  BY DEF driverVars
<1>2. /\ Lengths' = Lengths /\ StagedLength' = StagedLength /\ OwnedSound'
  BY <1>1, ChainsKept
<1>3. Flags(u, a)'
  BY <1>1, <1>2, ViewKept DEF Flags
<1>4. StagedBody(a)'
  BY <1>1, <1>2, ViewKept DEF StagedBody
<1>5. UNCHANGED done => (DoneChains(u, dp) => DoneChains(u, dp)')
  BY <1>1, <1>2, ViewKept DEF DoneChains
<1> QED
  BY <1>2, <1>3, <1>4, <1>5

-----------------------------------------------------------------------------
(***************************************************************************)
(* The device's walk.                                                      *)
(***************************************************************************)
(* The flags at the device's cursor tell whether the driver is ahead.      *)
LEMMA AdvanceTells ==
  ASSUME TypeOK, NEW u \in 0 .. Size, NEW p \in 0 .. Size, NEW a \in 0 .. Size,
         Cursors(u, p, a), Flags(u, a)
  PROVE  /\ CanAdvance <=> p < a
         /\ p < a => ring[avail_idx] = At(p)
<1>1. /\ avail_idx = Step(last_used_idx, p) /\ avail_wrap = WrapAt(p)
      /\ u <= p /\ p <= a /\ ring[avail_idx] = At(p)
  BY DEF Cursors, At
<1>2. CASE p < Size
  <2>1. p \in 0 .. Size - 1
    BY <1>2
  <2>2. CanAdvance <=> ~Spent(p) /\ Mine(p)
    BY <1>1 DEF CanAdvance, Available, Spent, Mine
  <2>3. Mine(p) <=> p < a
    BY <1>1, <2>1 DEF Flags
  <2>4. Mine(p) => ~Spent(p)
    BY <1>1, <2>1 DEF Flags
  <2> QED
    BY <1>1, <2>2, <2>3, <2>4
<1>3. CASE p = Size
  <2>1. a = Size
    BY <1>1, <1>3
  <2>2. last_used_idx \in Slots /\ used_wrap_counter \in BOOLEAN
    BY DEF TypeOK
  <2>3. /\ Step(last_used_idx, Size) = last_used_idx
        /\ Wrap(last_used_idx, used_wrap_counter, Size) = ~used_wrap_counter
    BY <2>2 DEF Step, Wrap, Slots
  <2>4. Step(last_used_idx, 0) = last_used_idx /\ WrapAt(0) = used_wrap_counter
    BY <2>2, StepZero DEF WrapAt
  <2>5. 0 \in 0 .. Size - 1 /\ Mine(0)
    BY <2>1 DEF Flags
  <2>6. ring[avail_idx].avail = used_wrap_counter /\ avail_wrap = ~used_wrap_counter
    BY <1>1, <1>3, <2>3, <2>4, <2>5 DEF Mine, At, WrapAt
  <2>7. ~CanAdvance
    BY <2>2, <2>6, Zenon DEF CanAdvance, Available
  <2> QED
    BY <1>3, <2>1, <2>7
<1> QED
  BY <1>2, <1>3

(* The cursor moves one descriptor on.                                     *)
LEMMA AdvanceMoves ==
  ASSUME TypeOK, UNCHANGED <<last_used_idx, used_wrap_counter, used_idx, used_wrap,
                             next_avail_idx, avail_wrap_counter, owned, staged>>,
         NEW u \in 0 .. Size, NEW p \in 0 .. Size, NEW a \in 0 .. Size,
         Cursors(u, p, a), p < a, CanAdvance, Advance
  PROVE  /\ Cursors(u, p + 1, a)' /\ p + 1 \in 0 .. Size
         /\ avail_idx' \in Slots /\ avail_wrap' \in BOOLEAN
<1>1. last_used_idx \in Slots /\ used_wrap_counter \in BOOLEAN
  BY DEF TypeOK
<1>2. p \in Nat /\ 1 \in Nat /\ p + 1 <= Size /\ p + 1 \in 0 .. Size
  OBVIOUS
<1>3. /\ Step(Step(last_used_idx, p), 1) = Step(last_used_idx, p + 1)
      /\ Wrap(Step(last_used_idx, p), WrapAt(p), 1) = WrapAt(p + 1)
  BY <1>1, <1>2, StepStep DEF WrapAt
<1>4. avail_idx' = Step(last_used_idx, p + 1) /\ avail_wrap' = WrapAt(p + 1)
  BY <1>3 DEF Advance, Cursors
<1>5. Step(last_used_idx, p + 1) \in Slots /\ WrapAt(p + 1) \in BOOLEAN
  BY <1>1, <1>2, StepIn, WrapIn DEF WrapAt
<1>6. \A d : WrapAt(d)' = WrapAt(d)
  BY DEF WrapAt
<1>7. StagedLength' = StagedLength /\ Taken' = Taken
  BY ChainsKept
<1>8. /\ used_idx' = Step(last_used_idx', u) /\ used_wrap' = WrapAt(u)'
      /\ avail_idx' = Step(last_used_idx', p + 1) /\ avail_wrap' = WrapAt(p + 1)'
      /\ next_avail_idx' = Step(last_used_idx', a) /\ avail_wrap_counter' = WrapAt(a)'
  BY <1>4, <1>6 DEF Cursors
<1>9. u <= p + 1 /\ p + 1 <= a /\ a + StagedLength' = Cardinality(Taken')
  BY <1>2, <1>7 DEF Cursors
<1> QED
  BY <1>2, <1>4, <1>5, <1>8, <1>9 DEF Cursors

(* What the chain being walked has at the cursor.                          *)
LEMMA WalkAt ==
  ASSUME Sound, NEW u \in 0 .. Size, NEW p \in 0 .. Size, NEW a \in 0 .. Size, NEW qp,
         QueuedChains(p, a, qp), p < a, queued # <<>>, popping.skip < Lengths[queued[1]]
  PROVE  At(p).id = queued[1] /\ (At(p).next <=> popping.skip + 1 < Lengths[queued[1]])
<1>1. 1 \in 1 .. Len(queued) /\ queued[1] \in Ids /\ popping.skip \in Nat
  BY DEF Sound, TypeOK
<1>2. Lengths[queued[1]] \in Nat
  BY <1>1, OwnedFacts DEF Sound, TypeOK
<1>3. qp[1] = p - popping.skip
  BY DEF QueuedChains, Layout
<1>4. p \in p .. a - 1 /\ qp[1] <= p /\ p < qp[1] + Lengths[queued[1]]
  BY <1>1, <1>2, <1>3
<1>5. At(p).id = queued[1] /\ (At(p).next <=> p < qp[1] + Lengths[queued[1]] - 1)
  BY <1>1, <1>4 DEF QueuedChains
<1>6. p < qp[1] + Lengths[queued[1]] - 1 <=> popping.skip + 1 < Lengths[queued[1]]
  BY <1>1, <1>2, <1>3
<1> QED
  BY <1>5, <1>6

(* The device has read one more descriptor of the first chain queued.      *)
LEMMA WalkKeeps ==
  ASSUME Sound, NEW u \in 0 .. Size, NEW p \in 0 .. Size, NEW a \in 0 .. Size,
         NEW dp, NEW qp, Shape(u, p, a, dp, qp), p < a, Advance,
         UNCHANGED <<ring, driverVars, used_idx, used_wrap, valid, is_current,
                     generation, held, queued, done, errors>>,
         valid, queued # <<>>,
         popping'.skip = popping.skip + 1, popping'.skip <= Lengths[queued[1]],
         popping' = [id |-> queued[1], skip |-> popping.skip + 1, more |-> At(p).next]
  PROVE  QueueInv'
<1>1. UNCHANGED <<last_used_idx, used_wrap_counter, next_avail_idx, avail_wrap_counter,
                  owned, staged>>
  BY DEF driverVars
<1>2. /\ TypeOK /\ Cursors(u, p, a) /\ Flags(u, a) /\ QueuedChains(p, a, qp)
      /\ DoneChains(u, dp) /\ StagedBody(a) /\ HeldCount(u, p) /\ OwnedSound
  BY DEF Sound, Shape
<1>3. CanAdvance
  BY <1>2, AdvanceTells
<1>4. /\ Cursors(u, p + 1, a)' /\ p + 1 \in 0 .. Size
      /\ avail_idx' \in Slots /\ avail_wrap' \in BOOLEAN
  BY <1>1, <1>2, <1>3, AdvanceMoves
<1>5. queued[1] \in Ids /\ popping.skip \in Nat /\ Lengths[queued[1]] \in 0 .. Size
  BY <1>2, OwnedFacts DEF TypeOK
<1>6. popping.skip < Lengths[queued[1]]
  BY <1>5
<1>7. At(p).id = queued[1] /\ (At(p).next <=> popping.skip + 1 < Lengths[queued[1]])
  BY <1>2, <1>6, WalkAt
<1>8. At(p).next \in BOOLEAN
  <2>1. Step(last_used_idx, p) \in Slots
    BY <1>2, StepIn DEF TypeOK
  <2> QED
    BY <1>2, <2>1 DEF At, TypeOK, Descriptor
<1>9. Flags(u, a)' /\ StagedBody(a)' /\ OwnedSound' /\ DoneChains(u, dp)'
  BY <1>2, DriverKept
<1>10. Lengths' = Lengths /\ \A d : At(d)' = At(d)
  BY <1>1, ChainsKept, ViewKept
<1>11. QueuedChains(p + 1, a, qp)'
  <2>1. (p + 1) - popping'.skip = p - popping.skip
    BY <1>5
  <2>2. \A d \in p + 1 .. a - 1 : d \in p .. a - 1
    OBVIOUS
  <2> QED
    BY <1>2, <1>10, <2>1, <2>2 DEF QueuedChains
<1>12. HeldIds' = HeldIds /\ HeldChains' = HeldChains
  BY DEF HeldIds, HeldChains
<1>13. HeldCount(u, p + 1)'
  <2>1. HeldTaken' = HeldTaken
    BY <1>1, <1>12 DEF HeldTaken
  <2>2. is_current => p - u = popping.skip + Cardinality(HeldTaken)
    BY <1>2 DEF HeldCount
  <2>3. is_current => Cardinality(HeldTaken) = (p - u) - popping.skip
    <3>1. HeldTaken \in SUBSET Ids
      BY <1>2 DEF HeldTaken, HeldIds, HeldChains, TypeOK, ChainType
    <3>2. Cardinality(HeldTaken) \in Nat
      BY <3>1, IdsFinite
    <3> QED
      BY <1>5, <2>2, <3>2
  <2> QED
    BY <1>5, <2>1, <2>3 DEF HeldCount
<1>14. TypeOK'
  <2>1. popping' \in [id: Ids \cup {None}, skip: 0 .. Size, more: BOOLEAN]
    BY <1>5, <1>8
  <2> QED
    BY <1>1, <1>2, <1>4, <2>1 DEF TypeOK
<1>15. Walking'
  <2>1. popping'.id = queued'[1] /\ queued[1] # None
    BY <1>5 DEF Ids, None
  <2>2. popping'.more <=> popping'.skip < Lengths[queued[1]]
    BY <1>7
  <2> QED
    BY <1>5, <1>10, <2>1, <2>2 DEF Walking
<1>16. Life' /\ HeldSound' /\ Apart'
  <2>1. Life'
    BY DEF Life
  <2>2. HeldSound'
    BY <1>1, <1>10, <1>12 DEF HeldSound, Sound
  <2>3. Apart'
    BY <1>1, <1>12 DEF Apart, Sound
  <2> QED
    BY <2>1, <2>2, <2>3
<1>17. Sound' /\ Shape(u, p + 1, a, dp, qp)'
  BY <1>4, <1>9, <1>11, <1>13, <1>14, <1>15, <1>16 DEF Sound, Shape
<1> QED
  BY <1>4, <1>17 DEF QueueInv

(* #pop reads a chain's first descriptor.                                  *)
LEMMA PopHeadKeeps ==
  ASSUME Sound, NEW u \in 0 .. Size, NEW p \in 0 .. Size, NEW a \in 0 .. Size,
         NEW dp, NEW qp, Shape(u, p, a, dp, qp), PopHead
  PROVE  QueueInv'
<1>1. /\ TypeOK /\ Cursors(u, p, a) /\ Flags(u, a) /\ QueuedChains(p, a, qp)
  BY DEF Sound, Shape
<1>2. /\ valid /\ popping = NotPopping /\ CanAdvance /\ Advance
      /\ popping' = [id |-> ring[avail_idx].id, skip |-> 1, more |-> ring[avail_idx].next]
      /\ UNCHANGED <<ring, driverVars, used_idx, used_wrap, valid, is_current,
                     generation, held, queued, done, errors>>
  BY DEF PopHead
<1>3. p < a /\ ring[avail_idx] = At(p)
  BY <1>1, <1>2, AdvanceTells
<1>4. popping.skip = 0
  BY <1>2 DEF NotPopping
<1>5. Layout(qp, queued, Lengths, p, a) /\ queued \in Seq(Ids) /\ Lengths \in Lens
  BY <1>1, <1>4, OwnedFacts DEF QueuedChains, TypeOK
<1>6. queued # <<>> /\ Lengths[queued[1]] \in Nat \ {0}
  BY <1>3, <1>5, LayoutEnds
<1>7. At(p).id = queued[1]
  BY <1>1, <1>3, <1>4, <1>6, WalkAt
<1> QED
  BY <1>2, <1>3, <1>4, <1>6, <1>7, WalkKeeps

(* A chain that goes on is walked to its end: the driver published it whole. *)
LEMMA WalkGoesOn ==
  ASSUME Sound, NEW u \in 0 .. Size, NEW p \in 0 .. Size, NEW a \in 0 .. Size,
         NEW dp, NEW qp, Shape(u, p, a, dp, qp), popping.more
  PROVE  /\ p < a /\ valid /\ queued # <<>> /\ popping.skip \in Nat
         /\ popping.id = queued[1] /\ popping.skip < Lengths[queued[1]]
         /\ Lengths[queued[1]] \in Nat
<1>1. /\ TypeOK /\ QueuedChains(p, a, qp) /\ Walking /\ Life
  BY DEF Sound, Shape
<1>2. popping # NotPopping
  BY DEF NotPopping
<1>3. valid /\ queued # <<>> /\ popping.id = queued[1] /\ popping.skip < Lengths[queued[1]]
  BY <1>1, <1>2 DEF Walking, Life
<1>4. Layout(qp, queued, Lengths, p - popping.skip, a) /\ queued \in Seq(Ids) /\ Lengths \in Lens
  BY <1>1, OwnedFacts DEF QueuedChains, TypeOK
<1>5. Lengths[queued[1]] \in Nat /\ (p - popping.skip) + Lengths[queued[1]] <= a
  BY <1>3, <1>4, LayoutEnds
<1>6. popping.skip \in Nat
  BY <1>1 DEF TypeOK
<1> QED
  BY <1>3, <1>5, <1>6

(* #pop follows NEXT, which never fails.                                   *)
LEMMA PopNextKeeps ==
  ASSUME Sound, NEW u \in 0 .. Size, NEW p \in 0 .. Size, NEW a \in 0 .. Size,
         NEW dp, NEW qp, Shape(u, p, a, dp, qp), PopNext
  PROVE  QueueInv'
<1>1. /\ TypeOK /\ Cursors(u, p, a) /\ Flags(u, a)
  BY DEF Sound, Shape
<1>2. popping.more
  BY DEF PopNext
<1>3. /\ p < a /\ valid /\ queued # <<>> /\ popping.skip \in Nat
      /\ popping.id = queued[1] /\ popping.skip < Lengths[queued[1]]
      /\ Lengths[queued[1]] \in Nat
  BY <1>2, WalkGoesOn
<1>4. CanAdvance /\ ring[avail_idx] = At(p)
  BY <1>1, <1>3, AdvanceTells
<1>5. /\ Advance
      /\ UNCHANGED <<ring, driverVars, used_idx, used_wrap, valid, is_current,
                     generation, held, queued, done, errors>>
      /\ popping' = [popping EXCEPT !.skip = popping.skip + 1, !.more = At(p).next]
  BY <1>4 DEF PopNext
<1>6. popping' = [id |-> queued[1], skip |-> popping.skip + 1, more |-> At(p).next]
  BY <1>1, <1>3, <1>5 DEF TypeOK
<1>7. popping'.skip = popping.skip + 1 /\ popping'.skip <= Lengths[queued[1]]
  BY <1>3, <1>6
<1> QED
  BY <1>3, <1>5, <1>6, <1>7, WalkKeeps

(* Of the chains held, c is taken away.                                    *)
LEMMA HeldLess ==
  ASSUME HeldSound, Apart, NEW c, held' = held \ {c},
         UNCHANGED <<generation, owned, staged>>
  PROVE  /\ HeldSound' /\ HeldIds' \subseteq HeldIds /\ HeldChains' = HeldChains \ {c}
         /\ c \in HeldChains => HeldIds' = HeldIds \ {c.id} /\ c.id \in HeldIds
         /\ c \notin HeldChains => HeldIds' = HeldIds
<1>1. HeldChains' = HeldChains \ {c}
  BY DEF HeldChains
<1>2. Lengths' = Lengths
  BY ChainsKept
<1>3. HeldSound'
  <2>1. \A x \in held' : x.gen <= generation'
    BY DEF HeldSound
  <2>2. \A x \in HeldChains' : owned'[x.id] # {} /\ x.skip = Lengths'[x.id]
    BY <1>1, <1>2 DEF HeldSound
  <2>3. \A c1, c2 \in HeldChains' : c1.id = c2.id => c1 = c2
    BY <1>1 DEF HeldSound
  <2> QED
    BY <2>1, <2>2, <2>3 DEF HeldSound
<1>4. HeldIds' \subseteq HeldIds
  BY <1>1 DEF HeldIds
<1>5. c \in HeldChains => HeldIds' = HeldIds \ {c.id} /\ c.id \in HeldIds
  BY <1>1 DEF HeldIds, HeldSound
<1>6. c \notin HeldChains => HeldIds' = HeldIds
  BY <1>1 DEF HeldIds
<1> QED
  BY <1>1, <1>3, <1>4, <1>5, <1>6

(* Letting go of a held chain brings no two chains together.               *)
LEMMA ApartLess ==
  ASSUME Apart, HeldIds' \subseteq HeldIds, UNCHANGED <<queued, done, staged>>
  PROVE  Apart'
BY DEF Apart

(* The cursors are where they were.                                        *)
LEMMA CursorsKept ==
  ASSUME UNCHANGED <<driverVars, avail_idx, avail_wrap, used_idx, used_wrap>>,
         NEW u, NEW p, NEW a, Cursors(u, p, a)
  PROVE  Cursors(u, p, a)'
<1>1. UNCHANGED <<last_used_idx, used_wrap_counter, next_avail_idx, avail_wrap_counter,
                  owned, staged>>
  BY DEF driverVars
<1>2. StagedLength' = StagedLength /\ Taken' = Taken /\ \A d : WrapAt(d)' = WrapAt(d)
  BY <1>1, ChainsKept DEF WrapAt
<1> QED
  BY <1>1, <1>2 DEF Cursors

(* A release that #release ignores.                                        *)
LEMMA ReleaseStaleKeeps ==
  ASSUME Sound, NEW u \in 0 .. Size, NEW p \in 0 .. Size, NEW a \in 0 .. Size,
         NEW dp, NEW qp, Shape(u, p, a, dp, qp), NEW c \in held, ReleaseStale(c)
  PROVE  QueueInv'
<1>1. /\ held' = held \ {c} /\ Stale(c)
      /\ UNCHANGED <<ring, driverVars, deviceVars, valid, is_current, generation,
                     errors, queued, done>>
      /\ UNCHANGED <<last_used_idx, used_wrap_counter, next_avail_idx, avail_wrap_counter,
                     owned, staged, avail_idx, avail_wrap, used_idx, used_wrap, popping>>
  BY DEF ReleaseStale, driverVars, deviceVars
<1>2. /\ TypeOK /\ Cursors(u, p, a) /\ Flags(u, a) /\ QueuedChains(p, a, qp)
      /\ DoneChains(u, dp) /\ StagedBody(a) /\ HeldCount(u, p)
      /\ OwnedSound /\ HeldSound /\ Apart /\ Walking /\ Life /\ errors = {}
  BY DEF Sound, Shape
<1>3. /\ HeldSound' /\ HeldIds' \subseteq HeldIds
      /\ c \notin HeldChains => HeldIds' = HeldIds
  BY <1>1, <1>2, HeldLess
<1>4. Apart'
  BY <1>1, <1>2, <1>3, ApartLess
<1>5. Lengths' = Lengths /\ \A d : At(d)' = At(d)
  BY <1>1, ChainsKept, ViewKept
<1>6. /\ Cursors(u, p, a)' /\ Flags(u, a)' /\ StagedBody(a)' /\ OwnedSound' /\ DoneChains(u, dp)'
  BY <1>1, <1>2, CursorsKept, DriverKept
<1>7. QueuedChains(p, a, qp)'
  BY <1>1, <1>2, <1>5 DEF QueuedChains
<1>8. HeldCount(u, p)'
  <2>1. is_current => c \notin HeldChains
    BY <1>1, <1>2 DEF Stale, HeldChains, Life
  <2> QED
    BY <1>1, <1>2, <1>3, <2>1 DEF HeldCount, HeldTaken
<1>9. TypeOK'
  BY <1>1, <1>2 DEF TypeOK
<1>10. Walking' /\ Life'
  BY <1>1, <1>2, <1>5 DEF Walking, Life
<1>11. Sound' /\ Shape(u, p, a, dp, qp)'
  BY <1>1, <1>2, <1>3, <1>4, <1>6, <1>7, <1>8, <1>9, <1>10 DEF Sound, Shape
<1> QED
  BY <1>11 DEF QueueInv

(* Revoking and invalidating only say so.                                  *)
LEMMA RevokeKeeps ==
  ASSUME Sound, NEW u \in 0 .. Size, NEW p \in 0 .. Size, NEW a \in 0 .. Size,
         NEW dp, NEW qp, Shape(u, p, a, dp, qp), Revoke \/ Invalidate
  PROVE  QueueInv'
<1>1. /\ UNCHANGED <<ring, driverVars, deviceVars, generation, held, errors, queued, done>>
      /\ UNCHANGED <<last_used_idx, used_wrap_counter, next_avail_idx, avail_wrap_counter,
                     owned, staged, avail_idx, avail_wrap, used_idx, used_wrap, popping>>
      /\ valid' \in BOOLEAN /\ is_current' \in BOOLEAN /\ (is_current' => is_current)
      /\ ~valid' => ~is_current' /\ popping = NotPopping
  <2>1. TypeOK /\ Life /\ valid \in BOOLEAN /\ is_current \in BOOLEAN
    BY DEF Sound, TypeOK
  <2>2. CASE Revoke
    BY <2>1, <2>2, Zenon DEF Revoke, driverVars, deviceVars, Life
  <2>3. CASE Invalidate
    BY <2>1, <2>3, Zenon DEF Invalidate, driverVars, deviceVars, Life
  <2> QED
    BY <2>2, <2>3
<1>2. /\ TypeOK /\ Cursors(u, p, a) /\ Flags(u, a) /\ QueuedChains(p, a, qp)
      /\ DoneChains(u, dp) /\ StagedBody(a) /\ HeldCount(u, p)
      /\ OwnedSound /\ HeldSound /\ Apart /\ Walking /\ Life /\ errors = {}
  BY DEF Sound, Shape
<1>3. HeldIds' = HeldIds /\ HeldChains' = HeldChains
  BY <1>1 DEF HeldIds, HeldChains
<1>4. Lengths' = Lengths /\ \A d : At(d)' = At(d)
  BY <1>1, ChainsKept, ViewKept
<1>5. Apart' /\ HeldSound'
  BY <1>1, <1>2, <1>3, <1>4 DEF Apart, HeldSound
<1>6. /\ Cursors(u, p, a)' /\ Flags(u, a)' /\ StagedBody(a)' /\ OwnedSound' /\ DoneChains(u, dp)'
  BY <1>1, <1>2, CursorsKept, DriverKept
<1>7. QueuedChains(p, a, qp)'
  BY <1>1, <1>2, <1>4 DEF QueuedChains
<1>8. HeldCount(u, p)'
  BY <1>1, <1>2, <1>3 DEF HeldCount, HeldTaken
<1>9. TypeOK'
  BY <1>1, <1>2 DEF TypeOK
<1>10. Walking' /\ Life'
  BY <1>1, <1>2, <1>4 DEF Walking, Life
<1>11. Sound' /\ Shape(u, p, a, dp, qp)'
  BY <1>1, <1>2, <1>5, <1>6, <1>7, <1>8, <1>9, <1>10 DEF Sound, Shape
<1> QED
  BY <1>11 DEF QueueInv

(* Nothing changes.                                                        *)
LEMMA StutterKeeps ==
  ASSUME Sound, NEW u \in 0 .. Size, NEW p \in 0 .. Size, NEW a \in 0 .. Size,
         NEW dp, NEW qp, Shape(u, p, a, dp, qp), UNCHANGED vars
  PROVE  QueueInv'
<1>1. UNCHANGED <<ring, last_used_idx, used_wrap_counter, next_avail_idx, avail_wrap_counter,
                  owned, staged, avail_idx, avail_wrap, used_idx, used_wrap, popping,
                  valid, is_current, generation, held, errors, queued, done>>
      /\ UNCHANGED driverVars
  BY DEF vars, driverVars, deviceVars
<1>2. /\ TypeOK /\ Cursors(u, p, a) /\ Flags(u, a) /\ QueuedChains(p, a, qp)
      /\ DoneChains(u, dp) /\ StagedBody(a) /\ HeldCount(u, p)
      /\ OwnedSound /\ HeldSound /\ Apart /\ Walking /\ Life /\ errors = {}
  BY DEF Sound, Shape
<1>3. HeldIds' = HeldIds /\ HeldChains' = HeldChains
  BY <1>1 DEF HeldIds, HeldChains
<1>4. Lengths' = Lengths /\ \A d : At(d)' = At(d)
  BY <1>1, ChainsKept, ViewKept
<1>5. Apart' /\ HeldSound'
  BY <1>1, <1>2, <1>3, <1>4 DEF Apart, HeldSound
<1>6. /\ Cursors(u, p, a)' /\ Flags(u, a)' /\ StagedBody(a)' /\ OwnedSound' /\ DoneChains(u, dp)'
  BY <1>1, <1>2, CursorsKept, DriverKept
<1>7. QueuedChains(p, a, qp)' /\ HeldCount(u, p)'
  BY <1>1, <1>2, <1>3, <1>4 DEF QueuedChains, HeldCount, HeldTaken
<1>8. TypeOK' /\ Walking' /\ Life'
  BY <1>1, <1>2, <1>4 DEF TypeOK, Walking, Life
<1>9. Sound' /\ Shape(u, p, a, dp, qp)'
  BY <1>1, <1>2, <1>5, <1>6, <1>7, <1>8 DEF Sound, Shape
<1> QED
  BY <1>9 DEF QueueInv

(* The ids of different chains are counted separately.                     *)
LEMMA DisjointCounts ==
  ASSUME NEW S \in SUBSET Ids, NEW T \in SUBSET Ids, S \cap T = {}
  PROVE  /\ Cardinality(S \cup T) = Cardinality(S) + Cardinality(T)
         /\ Cardinality(S) \in Nat /\ Cardinality(T) \in Nat
<1>1. /\ IsFiniteSet(S) /\ IsFiniteSet(T)
      /\ Cardinality(S) \in Nat /\ Cardinality(T) \in Nat
  BY IdsFinite
<1>2. Cardinality(S \cup T) = Cardinality(S) + Cardinality(T) - Cardinality(S \cap T)
  BY <1>1, FS_Union
<1> QED
  BY <1>1, <1>2, FS_EmptySet

(* The types of what the device holds.                                     *)
LEMMA HeldTyped ==
  ASSUME TypeOK
  PROVE  HeldIds \in SUBSET Ids /\ HeldTaken \in SUBSET Ids /\ Cardinality(HeldTaken) \in Nat
<1>1. HeldIds \in SUBSET Ids
  BY DEF HeldIds, HeldChains, TypeOK, ChainType
<1>2. HeldTaken \in SUBSET Ids
  BY <1>1 DEF HeldTaken, TypeOK
<1> QED
  BY <1>1, <1>2, IdsFinite

(* The device has the first of the chains queued, if its queue is current. *)
LEMMA PopReturnKeeps ==
  ASSUME Sound, NEW u \in 0 .. Size, NEW p \in 0 .. Size, NEW a \in 0 .. Size,
         NEW dp, NEW qp, Shape(u, p, a, dp, qp), PopReturn
  PROVE  QueueInv'
<1> DEFINE n == Lengths[queued[1]]
           c == [id |-> queued[1], skip |-> n, gen |-> generation]
<1>q. PICK qp2 : qp2 = [k \in 1 .. Len(queued) |-> qp[k + 1]]
  OBVIOUS
<1>1. /\ popping # NotPopping /\ ~popping.more /\ popping' = NotPopping
      /\ UNCHANGED <<ring, driverVars, avail_idx, avail_wrap, used_idx, used_wrap,
                     valid, is_current, generation, errors, done>>
      /\ UNCHANGED <<last_used_idx, used_wrap_counter, owned, staged>>
  BY DEF PopReturn, driverVars
<1>2. /\ TypeOK /\ Cursors(u, p, a) /\ Flags(u, a) /\ QueuedChains(p, a, qp)
      /\ DoneChains(u, dp) /\ StagedBody(a) /\ HeldCount(u, p)
      /\ OwnedSound /\ HeldSound /\ Apart /\ Walking /\ Life /\ errors = {}
  BY DEF Sound, Shape
<1>3. queued \in Seq(Ids) /\ Lengths \in Lens /\ popping.skip \in Nat /\ generation \in Nat
  BY <1>2, OwnedFacts DEF TypeOK
<1>4. /\ queued # <<>> /\ popping.id = queued[1] /\ 0 < popping.skip
      /\ popping.skip <= n /\ ~(popping.skip < n)
  BY <1>1, <1>2 DEF Walking
<1>5. /\ queued[1] \in Ids /\ n \in 1 .. Size /\ popping.skip = n
      /\ owned[queued[1]] # {} /\ n = Cardinality(owned[queued[1]])
  <2>1. queued[1] \in Ids
    BY <1>3, <1>4
  <2>2. n \in 0 .. Size /\ (n = 0 <=> owned[queued[1]] = {}) /\ n = Cardinality(owned[queued[1]])
    BY <1>2, <2>1, OwnedFacts
  <2> QED
    BY <1>3, <1>4, <2>1, <2>2
<1>6. /\ queued' = Tail(queued)
      /\ held' = IF is_current THEN held \cup {c} ELSE held
  BY <1>4, <1>5 DEF PopReturn
<1>7. /\ queued' \in Seq(Ids) /\ Len(queued) \in Nat /\ Len(queued') = Len(queued) - 1
      /\ \A k \in 1 .. Len(queued') : k + 1 \in 1 .. Len(queued) /\ queued'[k] = queued[k + 1]
      /\ 1 \in 1 .. Len(queued)
  BY <1>3, <1>4, <1>6
<1>8. c \in ChainType /\ c.id = queued[1] /\ c.skip = n /\ c.gen = generation
  BY <1>3, <1>5 DEF ChainType
<1>9. Lengths' = Lengths /\ \A d : At(d)' = At(d)
  BY <1>1, ChainsKept, ViewKept
<1>10. /\ Cursors(u, p, a)' /\ Flags(u, a)' /\ StagedBody(a)' /\ OwnedSound' /\ DoneChains(u, dp)'
  BY <1>1, <1>2, CursorsKept, DriverKept
<1>11. QueuedChains(p, a, qp2)'
  <2>1. Layout(qp, queued, Lengths, p - popping.skip, a)
    BY <1>2 DEF QueuedChains
  <2>2. Layout(qp2, queued', Lengths, (p - popping.skip) + n, a)
    BY <1>q, <1>3, <1>4, <1>6, <2>1, LayoutTail
  <2>3. (p - popping.skip) + n = p - popping'.skip
    BY <1>1, <1>3, <1>5 DEF NotPopping
  <2>4. \A k \in 1 .. Len(queued') : qp2[k] = qp[k + 1]
    BY <1>q, <1>7
  <2>5. ASSUME NEW k \in 1 .. Len(queued'), NEW d \in p .. a - 1,
               qp2[k] <= d, d < qp2[k] + Lengths[queued'[k]]
        PROVE  At(d).id = queued'[k] /\ (At(d).next <=> d < qp2[k] + Lengths[queued'[k]] - 1)
    <3>1. k + 1 \in 1 .. Len(queued) /\ queued'[k] = queued[k + 1] /\ qp2[k] = qp[k + 1]
      BY <1>7, <2>4
    <3> QED
      BY <1>2, <2>5, <3>1 DEF QueuedChains
  <2> QED
    BY <1>9, <2>2, <2>3, <2>5 DEF QueuedChains
<1> HIDE DEF c, n
<1>12. /\ HeldChains' = IF is_current THEN HeldChains \cup {c} ELSE HeldChains
       /\ HeldIds' = IF is_current THEN HeldIds \cup {queued[1]} ELSE HeldIds
  <2>1. HeldChains' = IF is_current THEN HeldChains \cup {c} ELSE HeldChains
    BY <1>1, <1>6, <1>8 DEF HeldChains
  <2> QED
    BY <1>8, <2>1 DEF HeldIds
<1>13. queued[1] \notin HeldIds /\ queued[1] # staged
  BY <1>2, <1>7 DEF Apart
<1>14. HeldSound'
  <2>1. \A x \in held' : x.gen <= generation'
    BY <1>1, <1>2, <1>3, <1>6, <1>8 DEF HeldSound
  <2>2. \A x \in HeldChains' : owned'[x.id] # {} /\ x.skip = Lengths'[x.id]
    BY <1>1, <1>2, <1>5, <1>8, <1>9, <1>12 DEF HeldSound, n
  <2>3. \A x \in HeldChains : x.id # c.id
    BY <1>8, <1>13 DEF HeldIds
  <2>4. \A c1, c2 \in HeldChains' : c1.id = c2.id => c1 = c2
    BY <1>2, <1>12, <2>3 DEF HeldSound
  <2> QED
    BY <2>1, <2>2, <2>4 DEF HeldSound
<1>15. Apart'
  <2>1. \A k \in 1 .. Len(queued') : queued'[k] # queued[1] /\ queued'[k] \notin HeldIds
                                     /\ queued'[k] # staged
    <3> SUFFICES ASSUME NEW k \in 1 .. Len(queued')
                 PROVE  queued'[k] # queued[1] /\ queued'[k] \notin HeldIds /\ queued'[k] # staged
      OBVIOUS
    <3>1. k + 1 \in 1 .. Len(queued) /\ queued'[k] = queued[k + 1] /\ k + 1 # 1
      BY <1>7
    <3> QED
      BY <1>2, <1>7, <3>1 DEF Apart
  <2>2. \A k, m \in 1 .. Len(queued') : queued'[k] = queued'[m] => k = m
    <3> SUFFICES ASSUME NEW k \in 1 .. Len(queued'), NEW m \in 1 .. Len(queued'),
                        queued'[k] = queued'[m]
                 PROVE  k = m
      OBVIOUS
    <3>1. /\ k + 1 \in 1 .. Len(queued) /\ queued'[k] = queued[k + 1]
          /\ m + 1 \in 1 .. Len(queued) /\ queued'[m] = queued[m + 1]
      BY <1>7
    <3>2. k + 1 = m + 1
      BY <1>2, <3>1 DEF Apart
    <3> QED
      BY <1>7, <3>2
  <2>3. \A k \in 1 .. Len(queued'), m \in 1 .. Len(done) : queued'[k] # done[m]
    <3> SUFFICES ASSUME NEW k \in 1 .. Len(queued'), NEW m \in 1 .. Len(done)
                 PROVE  queued'[k] # done[m]
      OBVIOUS
    <3>1. k + 1 \in 1 .. Len(queued) /\ queued'[k] = queued[k + 1]
      BY <1>7
    <3> QED
      BY <1>2, <3>1 DEF Apart
  <2>4. \A m \in 1 .. Len(done) : done[m] # queued[1] /\ done[m] \notin HeldIds /\ done[m] # staged
    BY <1>2, <1>7 DEF Apart
  <2>5. \A k, m \in 1 .. Len(done) : done[k] = done[m] => k = m
    BY <1>2 DEF Apart
  <2>6. staged \notin HeldIds
    BY <1>2 DEF Apart
  <2>7. HeldIds' \subseteq HeldIds \cup {queued[1]}
    BY <1>12
  <2> QED
    BY <1>1, <1>13, <2>1, <2>2, <2>3, <2>4, <2>5, <2>6, <2>7 DEF Apart
<1>16. HeldCount(u, p)'
  <2> SUFFICES ASSUME is_current
               PROVE  p - u = popping'.skip + Cardinality(HeldTaken')
    BY <1>1 DEF HeldCount
  <2>1. HeldTaken' = HeldTaken \cup owned[queued[1]]
    BY <1>1, <1>12 DEF HeldTaken
  <2>2. HeldIds \in SUBSET Ids /\ HeldTaken \in SUBSET Ids
    BY <1>2, HeldTyped
  <2>3. HeldTaken \cap owned[queued[1]] = {} /\ owned[queued[1]] \in SUBSET Ids
    BY <1>2, <1>5, <1>13, <2>2 DEF HeldTaken, OwnedSound, TypeOK
  <2>4. /\ Cardinality(HeldTaken') = Cardinality(HeldTaken) + Cardinality(owned[queued[1]])
        /\ Cardinality(HeldTaken) \in Nat
    BY <2>1, <2>2, <2>3, DisjointCounts
  <2>5. p - u = popping.skip + Cardinality(HeldTaken) /\ popping'.skip = 0
    BY <1>1, <1>2 DEF HeldCount, NotPopping
  <2> QED
    BY <1>3, <1>5, <2>4, <2>5
<1>17. TypeOK'
  <2>1. held' \in SUBSET ChainType
    BY <1>2, <1>6, <1>8 DEF TypeOK
  <2>2. popping' \in [id: Ids \cup {None}, skip: 0 .. Size, more: BOOLEAN]
    BY <1>1 DEF NotPopping
  <2> QED
    BY <1>1, <1>2, <1>7, <2>1, <2>2 DEF TypeOK, driverVars
<1>18. Walking' /\ Life'
  BY <1>1, <1>2 DEF Walking, Life, NotPopping
<1>19. Sound' /\ Shape(u, p, a, dp, qp2)'
  BY <1>1, <1>2, <1>10, <1>11, <1>14, <1>15, <1>16, <1>17, <1>18 DEF Sound, Shape
<1> QED
  BY <1>19 DEF QueueInv

(* A new queue over a zeroed ring.                                         *)
NewState ==
  /\ ring = [s \in Slots |-> ZeroDescriptor]
  /\ next_avail_idx = 0 /\ avail_wrap_counter = TRUE
  /\ last_used_idx = 0 /\ used_wrap_counter = TRUE
  /\ owned = [i \in Ids |-> {}] /\ staged = None
  /\ avail_idx = 0 /\ avail_wrap = TRUE /\ used_idx = 0 /\ used_wrap = TRUE
  /\ valid = TRUE /\ is_current = TRUE /\ popping = NotPopping
  /\ errors = {} /\ queued = <<>> /\ done = <<>>
  /\ generation \in Nat /\ held \in SUBSET ChainType /\ \A c \in held : c.gen < generation

(* The invariant of a new queue: nothing anywhere.                         *)
LEMMA NewQueue == NewState => QueueInv
<1> SUFFICES ASSUME NewState PROVE QueueInv
  OBVIOUS
<1> USE DEF NewState
<1>1. 0 \in Slots /\ 0 \in Ids /\ None \notin Ids
  BY DEF Slots, Ids, None
<1>2. TypeOK
  BY <1>1 DEF TypeOK, Descriptor, ZeroDescriptor, NotPopping
<1>3. HeldChains = {} /\ HeldIds = {}
  <2>1. \A c \in held : c.gen \in Nat
    BY DEF ChainType
  <2>2. HeldChains = {}
    BY <2>1 DEF HeldChains
  <2> QED
    BY <2>2 DEF HeldIds
<1>4. Taken = {} /\ HeldTaken = {} /\ StagedLength = 0 /\ Cardinality({}) = 0
  BY <1>3, FS_EmptySet DEF Taken, HeldTaken, StagedLength
<1>5. OwnedSound /\ Walking /\ Life
  BY DEF OwnedSound, Walking, Life, NotPopping
<1>6. HeldSound /\ Apart
  <2>1. \A c \in held : c.gen \in Nat
    BY DEF ChainType
  <2>2. HeldSound
    BY <1>3, <2>1 DEF HeldSound
  <2> QED
    BY <1>3, <2>2 DEF Apart
<1>7. Step(0, 0) = 0 /\ WrapAt(0) = TRUE
  BY <1>1, StepZero DEF WrapAt
<1>8. Cursors(0, 0, 0)
  <2>1. 0 <= 0 /\ 0 + StagedLength = Cardinality(Taken)
    BY <1>4
  <2> QED
    BY <1>7, <2>1, Zenon DEF Cursors
<1>9. \A d \in 0 .. Size - 1 : ~Mine(d)
  <2> SUFFICES ASSUME NEW d \in 0 .. Size - 1 PROVE ~Mine(d)
    OBVIOUS
  <2>1. Step(0, d) \in Slots /\ WrapAt(d) = TRUE
    BY DEF Step, Slots, WrapAt, Wrap
  <2>2. At(d).avail = FALSE
    BY <2>1 DEF At, ZeroDescriptor
  <2> QED
    BY <2>1, <2>2 DEF Mine
<1>10. Flags(0, 0)
  BY <1>4, <1>9 DEF Flags
<1> DEFINE at0 == [k \in {1} |-> 0]
<1>11. Layout(at0, <<>>, Lengths, 0, 0)
  BY LayoutNone
<1> HIDE DEF at0
<1>12. QueuedChains(0, 0, at0) /\ DoneChains(0, at0)
  <2>1. 0 - popping.skip = 0
    BY DEF NotPopping
  <2> QED
    BY <1>11, <2>1 DEF QueuedChains, DoneChains
<1>13. StagedBody(0) /\ HeldCount(0, 0)
  BY <1>4 DEF StagedBody, HeldCount, NotPopping
<1>14. Sound /\ Shape(0, 0, 0, at0, at0) /\ 0 \in 0 .. Size
  BY <1>2, <1>5, <1>6, <1>8, <1>10, <1>12, <1>13 DEF Sound, Shape
<1> QED
  BY <1>14 DEF QueueInv

(* The driver sets the queue up again.                                     *)
LEMMA EnableKeeps ==
  ASSUME Sound, EnableQueue
  PROVE  QueueInv'
<1>1. NewState'
  <2>1. /\ generation \in Nat /\ generation' = generation + 1
        /\ held' = held /\ held \in SUBSET ChainType
        /\ \A c \in held : c.gen <= generation
    BY DEF EnableQueue, Sound, TypeOK, HeldSound
  <2>2. \A c \in held' : c.gen < generation'
    BY <2>1 DEF ChainType
  <2> QED
    BY <2>1, <2>2 DEF NewState, EnableQueue, Sound, Life
<1>2. NewState' => QueueInv'
  BY NewQueue, PTL
<1> QED
  BY <1>1, <1>2

-----------------------------------------------------------------------------
(***************************************************************************)
(* Steps that write one descriptor.                                        *)
(***************************************************************************)
LEMMA OneWritten ==
  ASSUME TypeOK, NEW x \in 0 .. Size - 1, NEW desc \in Descriptor,
         ring' = [ring EXCEPT ![Step(last_used_idx, x)] = desc],
         UNCHANGED <<last_used_idx, used_wrap_counter>>
  PROVE  /\ ring' \in [Slots -> Descriptor]
         /\ At(x)' = desc /\ (Mine(x)' <=> desc.avail = WrapAt(x))
         /\ Spent(x)' <=> desc.avail = desc.used
         /\ \A d : WrapAt(d)' = WrapAt(d)
         /\ \A d \in 0 .. Size - 1 : d # x =>
              At(d)' = At(d) /\ (Mine(d)' <=> Mine(d)) /\ (Spent(d)' <=> Spent(d))
<1>1. last_used_idx \in Slots /\ ring \in [Slots -> Descriptor]
  BY DEF TypeOK
<1>2. x \in 0 .. Size /\ \A d \in 0 .. Size - 1 : d \in 0 .. Size
  OBVIOUS
<1>3. Step(last_used_idx, x) \in Slots
  BY <1>1, <1>2, StepIn
<1>4. ring' \in [Slots -> Descriptor] /\ At(x)' = desc
  BY <1>1, <1>3 DEF At
<1>5. \A d : WrapAt(d)' = WrapAt(d)
  BY DEF WrapAt
<1>6. ASSUME NEW d \in 0 .. Size - 1, d # x
      PROVE  At(d)' = At(d)
  <2>1. Step(last_used_idx, d) # Step(last_used_idx, x)
    BY <1>1, <1>6, StepInjective
  <2>2. Step(last_used_idx, d) \in Slots
    BY <1>1, <1>2, StepIn
  <2> QED
    BY <1>1, <2>1, <2>2 DEF At
<1>7. ASSUME NEW d \in 0 .. Size - 1, d # x
      PROVE  (Mine(d)' <=> Mine(d)) /\ (Spent(d)' <=> Spent(d))
  BY <1>5, <1>6, <1>7 DEF Mine, Spent
<1>8. (Mine(x)' <=> desc.avail = WrapAt(x)) /\ (Spent(x)' <=> desc.avail = desc.used)
  BY <1>4, <1>5 DEF Mine, Spent
<1> QED
  BY <1>4, <1>5, <1>6, <1>7, <1>8

(* A current queue has room for the used element of a chain it holds.      *)
LEMMA ReleaseFinds ==
  ASSUME Sound, NEW u \in 0 .. Size, NEW p \in 0 .. Size, NEW a \in 0 .. Size,
         NEW dp, NEW qp, Shape(u, p, a, dp, qp), NEW c \in held, ~Stale(c)
  PROVE  /\ c \in HeldChains /\ c.id \in HeldIds /\ c.id \in Ids /\ valid /\ is_current
         /\ c.skip \in 1 .. Size /\ c.skip = Lengths[c.id] /\ c.skip = Cardinality(owned[c.id])
         /\ u + c.skip <= p /\ u \in 0 .. Size - 1 /\ u < a
         /\ CanRelease /\ Mine(u)
<1>1. /\ TypeOK /\ Cursors(u, p, a) /\ Flags(u, a) /\ HeldCount(u, p) /\ HeldSound
  BY DEF Sound, Shape
<1>2. c \in HeldChains /\ c.id \in HeldIds /\ valid /\ is_current
  BY DEF Stale, HeldChains, HeldIds
<1>3. c.id \in Ids /\ c.skip \in 1 .. Size
  BY <1>1 DEF TypeOK, ChainType
<1>4. c.skip = Lengths[c.id] /\ c.skip = Cardinality(owned[c.id])
  BY <1>1, <1>2, <1>3, OwnedFacts DEF HeldSound
<1>5. owned[c.id] \subseteq HeldTaken /\ HeldTaken \in SUBSET Ids
  BY <1>1, <1>2, HeldTyped DEF HeldTaken
<1>6. Cardinality(owned[c.id]) <= Cardinality(HeldTaken) /\ Cardinality(HeldTaken) \in Nat
  BY <1>5, IdsFinite, FS_Subset
<1>7. p - u = popping.skip + Cardinality(HeldTaken) /\ popping.skip \in Nat
  BY <1>1, <1>2 DEF HeldCount, TypeOK
<1>8. u + c.skip <= p
  BY <1>3, <1>4, <1>6, <1>7
<1>9. u <= p /\ p <= a /\ used_idx = Step(last_used_idx, u) /\ used_wrap = WrapAt(u)
  BY <1>1 DEF Cursors
<1>10. u \in 0 .. Size - 1 /\ u < a
  BY <1>3, <1>8, <1>9
<1>11. Mine(u) /\ ~Spent(u)
  BY <1>1, <1>10 DEF Flags
<1>12. CanRelease
  BY <1>9, <1>11 DEF CanRelease, Available, Mine, Spent, At
<1> QED
  BY <1>2, <1>3, <1>4, <1>8, <1>10, <1>11, <1>12

(* The device writes a used element.                                       *)
LEMMA ReleaseKeeps ==
  ASSUME Sound, NEW u \in 0 .. Size, NEW p \in 0 .. Size, NEW a \in 0 .. Size,
         NEW dp, NEW qp, Shape(u, p, a, dp, qp), NEW c \in held, Release(c)
  PROVE  QueueInv'
<1> DEFINE desc == UsedElement(used_wrap, c.id)
<1>0. PICK n : n = c.skip
  OBVIOUS
<1>q. PICK dp2 : dp2 = [k \in 1 .. Len(done) + 2 |->
                          IF k = Len(done) + 2 THEN u + Lengths[c.id] ELSE dp[k]]
  OBVIOUS
<1>1. ~Stale(c)
  BY DEF Release
<1>2. /\ c \in HeldChains /\ c.id \in HeldIds /\ c.id \in Ids /\ valid /\ is_current
      /\ n \in 1 .. Size /\ n = Lengths[c.id] /\ n = Cardinality(owned[c.id])
      /\ u + n <= p /\ u \in 0 .. Size - 1 /\ u < a
      /\ CanRelease /\ Mine(u)
  BY <1>0, <1>1, ReleaseFinds
<1>3. /\ held' = held \ {c} /\ errors' = errors
      /\ ring' = [ring EXCEPT ![used_idx] = desc]
      /\ used_idx' = Step(used_idx, n) /\ used_wrap' = Wrap(used_idx, used_wrap, n)
      /\ done' = Append(done, c.id)
      /\ UNCHANGED <<driverVars, avail_idx, avail_wrap, popping, valid, is_current,
                     generation, queued>>
      /\ UNCHANGED <<last_used_idx, used_wrap_counter, next_avail_idx, avail_wrap_counter,
                     owned, staged>>
  BY <1>0, <1>2 DEF Release, driverVars
<1>4. /\ TypeOK /\ Cursors(u, p, a) /\ Flags(u, a) /\ QueuedChains(p, a, qp)
      /\ DoneChains(u, dp) /\ StagedBody(a) /\ HeldCount(u, p)
      /\ OwnedSound /\ HeldSound /\ Apart /\ Walking /\ Life /\ errors = {}
  BY DEF Sound, Shape
<1>5. used_idx = Step(last_used_idx, u) /\ used_wrap = WrapAt(u) /\ p <= a
  BY <1>4 DEF Cursors
<1>6. /\ desc \in Descriptor /\ desc.avail = WrapAt(u) /\ desc.used = desc.avail
      /\ desc.id = c.id
  BY <1>2, <1>4, <1>5 DEF UsedElement, Descriptor, TypeOK
<1> HIDE DEF desc
<1>7. /\ ring' \in [Slots -> Descriptor]
      /\ At(u)' = desc /\ Mine(u)' /\ Spent(u)'
      /\ \A d : WrapAt(d)' = WrapAt(d)
      /\ \A d \in 0 .. Size - 1 : d # u =>
           At(d)' = At(d) /\ (Mine(d)' <=> Mine(d)) /\ (Spent(d)' <=> Spent(d))
  BY <1>2, <1>3, <1>4, <1>5, <1>6, OneWritten
<1>8. /\ Lengths' = Lengths /\ Taken' = Taken /\ StagedLength' = StagedLength /\ OwnedSound'
      /\ Lengths \in Lens /\ StagedLength \in Nat
  BY <1>3, <1>4, ChainsKept, OwnedFacts
<1>9. done \in Seq(Ids) /\ Len(done) \in Nat
  BY <1>4 DEF TypeOK
<1>10. /\ Len(done') = Len(done) + 1 /\ done'[Len(done) + 1] = c.id
       /\ \A k \in 1 .. Len(done) : done'[k] = done[k]
       /\ done' \in Seq(Ids)
  BY <1>2, <1>3, <1>9
<1>11. Cursors(u + n, p, a)' /\ u + n \in 0 .. Size /\ used_idx' \in Slots /\ used_wrap' \in BOOLEAN
  <2>1. last_used_idx \in Slots /\ used_wrap_counter \in BOOLEAN
    BY <1>4 DEF TypeOK
  <2>2. u \in Nat /\ n \in Nat /\ u + n <= Size /\ u + n \in 0 .. Size
    BY <1>2
  <2>3. used_idx' = Step(last_used_idx, u + n) /\ used_wrap' = WrapAt(u + n)
    BY <1>3, <1>5, <2>1, <2>2, StepStep DEF WrapAt
  <2>4. used_idx' \in Slots /\ used_wrap' \in BOOLEAN
    BY <2>1, <2>2, <2>3, StepIn, WrapIn DEF WrapAt
  <2>5. /\ used_idx' = Step(last_used_idx', u + n) /\ used_wrap' = WrapAt(u + n)'
        /\ avail_idx' = Step(last_used_idx', p) /\ avail_wrap' = WrapAt(p)'
        /\ next_avail_idx' = Step(last_used_idx', a) /\ avail_wrap_counter' = WrapAt(a)'
    BY <1>3, <1>4, <1>7, <2>3 DEF Cursors
  <2>6. u + n <= p /\ p <= a /\ a + StagedLength' = Cardinality(Taken')
    BY <1>2, <1>4, <1>8 DEF Cursors
  <2> QED
    BY <2>2, <2>4, <2>5, <2>6 DEF Cursors
<1>12. Flags(u + n, a)'
  <2> SUFFICES ASSUME NEW d \in 0 .. Size - 1
               PROVE  /\ Mine(d)' <=> d < a \/ (a < d /\ d < a + StagedLength)
                      /\ u + n <= d /\ Mine(d)' => ~Spent(d)'
    BY <1>8 DEF Flags
  <2>1. /\ Mine(d) <=> d < a \/ (a < d /\ d < a + StagedLength)
        /\ u <= d /\ Mine(d) => ~Spent(d)
    BY <1>4 DEF Flags
  <2>2. CASE d = u
    BY <1>2, <1>7, <2>2
  <2>3. CASE d # u
    <3>1. (Mine(d)' <=> Mine(d)) /\ (Spent(d)' <=> Spent(d))
      BY <1>7, <2>3
    <3> QED
      BY <1>2, <2>1, <3>1
  <2> QED
    BY <2>2, <2>3
<1>13. QueuedChains(p, a, qp)'
  <2>1. \A d \in p .. a - 1 : At(d)' = At(d)
    BY <1>2, <1>7
  <2> QED
    BY <1>3, <1>4, <1>8, <2>1 DEF QueuedChains
<1>14. DoneChains(u + n, dp2)'
  <2>1. Layout(dp, done, Lengths, 0, u)
    BY <1>4 DEF DoneChains
  <2>2. Layout(dp2, done', Lengths, 0, u + n)
    <3>1. Lengths[c.id] > 0 /\ u + n = u + Lengths[c.id]
      BY <1>2
    <3>2. Layout(dp2, Append(done, c.id), Lengths, 0, u + Lengths[c.id])
      BY <1>q, <1>2, <1>8, <1>9, <2>1, <3>1, LayoutAppend
    <3> QED
      BY <1>3, <3>1, <3>2
  <2>3. \A k \in 1 .. Len(done) : dp2[k] = dp[k]
    BY <1>q, <1>9
  <2>4. dp2[Len(done) + 1] = u
    BY <1>q, <1>9, <2>1 DEF Layout
  <2>5. \A k \in 1 .. Len(done) : dp[k] \in Int /\ 0 <= dp[k] /\ dp[k] < u
    <3> SUFFICES ASSUME NEW k \in 1 .. Len(done)
                 PROVE  dp[k] \in Int /\ 0 <= dp[k] /\ dp[k] < u
      OBVIOUS
    <3>1. Lengths[done[k]] \in Nat \ {0} /\ 0 <= dp[k] /\ dp[k] + Lengths[done[k]] <= u
      BY <1>8, <1>9, <2>1, LayoutEnds
    <3>2. dp[k] \in Int
      BY <1>9, <2>1 DEF Layout
    <3> QED
      BY <3>1, <3>2
  <2>6. \A k \in 1 .. Len(done) : dp[k] \in 0 .. Size - 1 /\ dp[k] # u
    BY <1>2, <2>5
  <2>7. ASSUME NEW k \in 1 .. Len(done')
        PROVE  Spent(dp2[k])' /\ At(dp2[k])'.id = done'[k]
    <3>1. CASE k \in 1 .. Len(done)
      <4>1. Spent(dp[k]) /\ At(dp[k]).id = done[k]
        BY <1>4, <3>1 DEF DoneChains
      <4>2. (Spent(dp[k])' <=> Spent(dp[k])) /\ At(dp[k])' = At(dp[k])
        BY <1>7, <2>6, <3>1
      <4>3. dp2[k] = dp[k] /\ done'[k] = done[k]
        BY <1>10, <2>3, <3>1
      <4> QED
        BY <4>1, <4>2, <4>3
    <3>2. CASE k = Len(done) + 1
      <4>1. dp2[k] = u /\ done'[k] = c.id
        BY <1>10, <2>4, <3>2
      <4> QED
        BY <1>6, <1>7, <4>1
    <3> QED
      BY <1>9, <1>10, <3>1, <3>2
  <2>8. ASSUME NEW d \in 0 .. (u + n) - 1, Spent(d)'
        PROVE  \E k \in 1 .. Len(done') : d = dp2[k]
    <3>1. CASE d < u
      <4>1. d \in 0 .. u - 1 /\ d \in 0 .. Size - 1 /\ d # u
        BY <1>2, <3>1
      <4>2. Spent(d)
        BY <1>7, <2>8, <4>1
      <4>3. PICK k \in 1 .. Len(done) : d = dp[k]
        BY <1>4, <4>1, <4>2 DEF DoneChains
      <4>4. k \in 1 .. Len(done') /\ d = dp2[k]
        BY <1>9, <1>10, <2>3, <4>3
      <4> QED
        BY <4>4
    <3>2. CASE d = u
      <4>1. Len(done) + 1 \in 1 .. Len(done')
        BY <1>9, <1>10
      <4> QED
        BY <2>4, <3>2, <4>1
    <3>3. CASE u < d
      <4>1. d \in 0 .. Size - 1 /\ d # u /\ u <= d /\ d < a
        BY <1>2, <1>5, <3>3
      <4>2. Mine(d) /\ (Mine(d) => ~Spent(d))
        BY <1>4, <4>1 DEF Flags
      <4> QED
        BY <1>7, <2>8, <4>1, <4>2
    <3> QED
      BY <1>2, <3>1, <3>2, <3>3
  <2> QED
    BY <1>8, <2>2, <2>7, <2>8 DEF DoneChains
<1>15. StagedBody(a)'
  <2>1. \A d \in 0 .. Size - 1 : a < d => At(d)' = At(d)
    BY <1>2, <1>7
  <2> QED
    BY <1>3, <1>4, <1>8, <2>1 DEF StagedBody
<1>16. HeldSound' /\ HeldIds' = HeldIds \ {c.id}
  BY <1>2, <1>3, <1>4, HeldLess
<1>17. HeldCount(u + n, p)'
  <2>1. HeldIds \in SUBSET Ids /\ HeldTaken \in SUBSET Ids
    BY <1>4, HeldTyped
  <2>2. HeldTaken' = UNION {owned[i] : i \in HeldIds \ {c.id}}
    BY <1>3, <1>16 DEF HeldTaken
  <2>3. HeldTaken = HeldTaken' \cup owned[c.id]
    BY <1>2, <2>2 DEF HeldTaken
  <2>4. HeldTaken' \cap owned[c.id] = {}
    BY <1>2, <1>4, <2>1, <2>2 DEF OwnedSound
  <2>5. HeldTaken' \in SUBSET Ids /\ owned[c.id] \in SUBSET Ids
    BY <2>1, <2>3
  <2>6. Cardinality(HeldTaken) = Cardinality(HeldTaken') + n /\ Cardinality(HeldTaken') \in Nat
    BY <1>2, <2>3, <2>4, <2>5, DisjointCounts
  <2>7. p - u = popping.skip + Cardinality(HeldTaken) /\ popping.skip \in Nat
    BY <1>2, <1>4 DEF HeldCount, TypeOK
  <2>8. p - (u + n) = popping.skip + Cardinality(HeldTaken')
    BY <1>2, <2>6, <2>7
  <2> QED
    BY <1>3, <2>8 DEF HeldCount
<1>18. Apart'
  <2>1. \A k \in 1 .. Len(done) : done[k] # c.id
    BY <1>2, <1>4 DEF Apart
  <2>2. \A k, m \in 1 .. Len(done') : done'[k] = done'[m] => k = m
    <3>1. \A k \in 1 .. Len(done') : k \in 1 .. Len(done) \/ k = Len(done) + 1
      BY <1>9, <1>10
    <3> QED
      BY <1>4, <1>10, <2>1, <3>1 DEF Apart
  <2>3. \A m \in 1 .. Len(done') : done'[m] = c.id \/ \E k \in 1 .. Len(done) : done'[m] = done[k]
    BY <1>9, <1>10
  <2>4. \A k \in 1 .. Len(queued) : queued[k] # c.id /\ queued[k] \notin HeldIds /\ queued[k] # staged
    BY <1>2, <1>4 DEF Apart
  <2>5. \A k \in 1 .. Len(queued), m \in 1 .. Len(done') : queued[k] # done'[m]
    BY <1>4, <2>3, <2>4 DEF Apart
  <2>6. \A m \in 1 .. Len(done') : done'[m] \notin HeldIds' /\ done'[m] # staged
    <3>1. c.id \notin HeldIds' /\ c.id # staged
      BY <1>2, <1>4, <1>16 DEF Apart
    <3>2. \A k \in 1 .. Len(done) : done[k] \notin HeldIds' /\ done[k] # staged
      BY <1>4, <1>16 DEF Apart
    <3> QED
      BY <2>3, <3>1, <3>2
  <2>7. staged \notin HeldIds' /\ \A k, m \in 1 .. Len(queued) : queued[k] = queued[m] => k = m
    BY <1>4, <1>16 DEF Apart
  <2> QED
    BY <1>3, <1>16, <2>2, <2>4, <2>5, <2>6, <2>7, SMTT(60) DEF Apart
<1>19. TypeOK'
  <2>1. held' \in SUBSET ChainType
    BY <1>3, <1>4 DEF TypeOK
  <2> QED
    BY <1>3, <1>4, <1>7, <1>10, <1>11, <2>1 DEF TypeOK
<1>20. Walking' /\ Life'
  BY <1>3, <1>4, <1>8 DEF Walking, Life
<1>21. Sound' /\ Shape(u + n, p, a, dp2, qp)'
  BY <1>3, <1>4, <1>8, <1>11, <1>12, <1>13, <1>14, <1>15, <1>16, <1>17, <1>18, <1>19, <1>20
    DEF Sound, Shape
<1> QED
  BY <1>11, <1>21 DEF QueueInv

(* The driver makes the staged chain visible.                              *)
LEMMA PublishKeeps ==
  ASSUME Sound, NEW u \in 0 .. Size, NEW p \in 0 .. Size, NEW a \in 0 .. Size,
         NEW dp, NEW qp, Shape(u, p, a, dp, qp), DriverPublish
  PROVE  QueueInv'
<1>q. PICK qp2 : qp2 = [k \in 1 .. Len(queued) + 2 |->
                          IF k = Len(queued) + 2 THEN a + Lengths[staged] ELSE qp[k]]
  OBVIOUS
<1>0. PICK n : n = Cardinality(owned[staged])
  OBVIOUS
<1>d. PICK desc : desc = ChainDescriptor(staged, n, 0)
  OBVIOUS
<1>1. /\ valid /\ staged # None /\ staged' = None /\ queued' = Append(queued, staged)
      /\ ring' = [ring EXCEPT ![next_avail_idx] = desc]
      /\ next_avail_idx' = Step(next_avail_idx, n)
      /\ avail_wrap_counter' = Wrap(next_avail_idx, avail_wrap_counter, n)
      /\ UNCHANGED <<last_used_idx, used_wrap_counter, owned, deviceVars, valid,
                     is_current, generation, held, errors, done>>
      /\ UNCHANGED <<avail_idx, avail_wrap, used_idx, used_wrap, popping>>
  BY <1>0, <1>d DEF DriverPublish, deviceVars
<1>2. /\ TypeOK /\ Cursors(u, p, a) /\ Flags(u, a) /\ QueuedChains(p, a, qp)
      /\ DoneChains(u, dp) /\ StagedBody(a) /\ HeldCount(u, p)
      /\ OwnedSound /\ HeldSound /\ Apart /\ Walking /\ Life /\ errors = {}
  BY DEF Sound, Shape
<1>3. /\ staged \in Ids /\ n = Lengths[staged] /\ n \in 1 .. Size /\ StagedLength = n
      /\ Lengths \in Lens /\ Cardinality(Taken) \in 0 .. Size
  <2>1. staged \in Ids /\ owned[staged] # {}
    BY <1>1, <1>2 DEF TypeOK, StagedBody
  <2>2. /\ n = Lengths[staged] /\ Lengths[staged] \in 0 .. Size
        /\ Lengths[staged] # 0 /\ Length(staged) = n
        /\ Lengths \in Lens /\ Cardinality(Taken) \in 0 .. Size
    BY <1>0, <1>2, <2>1, OwnedFacts
  <2> QED
    BY <1>1, <2>1, <2>2 DEF StagedLength
<1>4. /\ next_avail_idx = Step(last_used_idx, a) /\ avail_wrap_counter = WrapAt(a)
      /\ u <= p /\ p <= a /\ a + n = Cardinality(Taken)
  BY <1>2, <1>3 DEF Cursors
<1>5. a \in 0 .. Size - 1 /\ a + n \in 0 .. Size /\ a + n <= Size
  BY <1>3, <1>4
<1>6. last_used_idx \in Slots /\ used_wrap_counter \in BOOLEAN /\ WrapAt(a) \in BOOLEAN
  BY <1>2, WrapIn DEF TypeOK, WrapAt
<1>7. /\ desc \in Descriptor /\ desc.avail = WrapAt(a) /\ desc.used # desc.avail
      /\ desc.id = staged /\ (desc.next <=> 0 < n - 1)
  <2>1. next_avail_idx \in Slots /\ avail_wrap_counter \in BOOLEAN
    BY <1>2 DEF TypeOK
  <2>2. Wrap(next_avail_idx, avail_wrap_counter, 0) = WrapAt(a)
    BY <1>4, <2>1, StepZero
  <2>3. desc = [avail |-> WrapAt(a), used |-> ~WrapAt(a), next |-> 0 < n - 1, id |-> staged]
    BY <1>d, <2>2 DEF ChainDescriptor, Made
  <2>4. desc.used = ~WrapAt(a) /\ (0 < n - 1) \in BOOLEAN
    BY <2>3
  <2>5. desc \in Descriptor
    BY <1>3, <1>6, <2>3, <2>4 DEF Descriptor
  <2>6. desc.avail = WrapAt(a) /\ desc.id = staged /\ (desc.next <=> 0 < n - 1)
    BY <2>3
  <2>7. desc.used # desc.avail
    BY <1>6, <2>4, <2>6, Zenon
  <2> QED
    BY <2>5, <2>6, <2>7
<1>8. /\ ring' \in [Slots -> Descriptor]
      /\ At(a)' = desc /\ Mine(a)' /\ ~Spent(a)'
      /\ \A d : WrapAt(d)' = WrapAt(d)
      /\ \A d \in 0 .. Size - 1 : d # a =>
           At(d)' = At(d) /\ (Mine(d)' <=> Mine(d)) /\ (Spent(d)' <=> Spent(d))
  BY <1>1, <1>2, <1>4, <1>5, <1>7, OneWritten
<1>9. Lengths' = Lengths /\ Taken' = Taken /\ StagedLength' = 0
  BY <1>1 DEF Lengths, Taken, StagedLength
<1>10. /\ queued \in Seq(Ids) /\ Len(queued) \in Nat
       /\ Len(queued') = Len(queued) + 1 /\ queued'[Len(queued) + 1] = staged
       /\ \A k \in 1 .. Len(queued) : queued'[k] = queued[k]
       /\ queued' \in Seq(Ids)
  <2>1. queued \in Seq(Ids)
    BY <1>2 DEF TypeOK
  <2> QED
    BY <1>1, <1>3, <2>1
<1>11. Cursors(u, p, a + n)' /\ next_avail_idx' \in Slots /\ avail_wrap_counter' \in BOOLEAN
  <2>1. a \in Nat /\ n \in Nat
    BY <1>3
  <2>2. /\ next_avail_idx' = Step(last_used_idx, a + n)
        /\ avail_wrap_counter' = WrapAt(a + n)
    BY <1>1, <1>4, <1>5, <1>6, <2>1, StepStep DEF WrapAt
  <2>3. next_avail_idx' \in Slots /\ avail_wrap_counter' \in BOOLEAN
    BY <1>5, <1>6, <2>2, StepIn, WrapIn DEF WrapAt
  <2>4. /\ used_idx' = Step(last_used_idx', u) /\ used_wrap' = WrapAt(u)'
        /\ avail_idx' = Step(last_used_idx', p) /\ avail_wrap' = WrapAt(p)'
        /\ next_avail_idx' = Step(last_used_idx', a + n) /\ avail_wrap_counter' = WrapAt(a + n)'
    BY <1>1, <1>2, <1>8, <2>2 DEF Cursors
  <2>5. u <= p /\ p <= a + n /\ (a + n) + StagedLength' = Cardinality(Taken')
    BY <1>4, <1>9, <2>1
  <2> QED
    BY <2>3, <2>4, <2>5 DEF Cursors
<1>12. Flags(u, a + n)'
  <2> SUFFICES ASSUME NEW d \in 0 .. Size - 1
               PROVE  /\ Mine(d)' <=> d < a + n \/ (a + n < d /\ d < (a + n) + 0)
                      /\ u <= d /\ Mine(d)' => ~Spent(d)'
    BY <1>9 DEF Flags
  <2>1. /\ Mine(d) <=> d < a \/ (a < d /\ d < a + n)
        /\ u <= d /\ Mine(d) => ~Spent(d)
    BY <1>2, <1>3 DEF Flags
  <2>2. CASE d = a
    BY <1>3, <1>8, <2>2
  <2>3. CASE d # a
    <3>1. (Mine(d)' <=> Mine(d)) /\ (Spent(d)' <=> Spent(d))
      BY <1>8, <2>3
    <3>2. (d < a \/ (a < d /\ d < a + n)) <=> (d < a + n \/ (a + n < d /\ d < (a + n) + 0))
      BY <1>3, <2>3
    <3> QED
      BY <2>1, <3>1, <3>2
  <2> QED
    BY <2>2, <2>3
<1>13. QueuedChains(p, a + n, qp2)'
  <2>1. Layout(qp, queued, Lengths, p - popping.skip, a)
    BY <1>2 DEF QueuedChains
  <2>2. Layout(qp2, queued', Lengths, p - popping.skip, a + n)
    <3>1. Lengths[staged] > 0 /\ a + n = a + Lengths[staged]
      BY <1>3
    <3>2. Layout(qp2, Append(queued, staged), Lengths, p - popping.skip, a + Lengths[staged])
      BY <1>q, <1>3, <1>10, <2>1, <3>1, LayoutAppend
    <3> QED
      BY <1>1, <3>1, <3>2
  <2>3. \A k \in 1 .. Len(queued) : qp2[k] = qp[k]
    BY <1>q, <1>10
  <2>4. qp2[Len(queued) + 1] = a
    BY <1>q, <1>10, <2>1 DEF Layout
  <2>5. ASSUME NEW k \in 1 .. Len(queued'), NEW d \in p .. (a + n) - 1,
               qp2[k] <= d, d < qp2[k] + Lengths[queued'[k]]
        PROVE  At(d)'.id = queued'[k] /\ (At(d)'.next <=> d < qp2[k] + Lengths[queued'[k]] - 1)
    <3>1. CASE k \in 1 .. Len(queued)
      <4>1. qp2[k] = qp[k] /\ queued'[k] = queued[k]
        BY <1>10, <2>3, <3>1
      <4>2. Lengths[queued[k]] \in Nat /\ qp[k] + Lengths[queued[k]] <= a /\ qp[k] \in Int
        <5>1. Lengths[queued[k]] \in Nat /\ qp[k] + Lengths[queued[k]] <= a
          BY <1>3, <1>10, <2>1, <3>1, LayoutEnds, SMTT(60)
        <5>2. qp[k] \in Int
          BY <1>10, <2>1, <3>1 DEF Layout
        <5> QED
          BY <5>1, <5>2
      <4>3. d \in p .. a - 1 /\ d \in 0 .. Size - 1 /\ d # a
        BY <1>5, <2>5, <4>1, <4>2
      <4>4. At(d).id = queued[k] /\ (At(d).next <=> d < qp[k] + Lengths[queued[k]] - 1)
        BY <1>2, <2>5, <3>1, <4>1, <4>3 DEF QueuedChains
      <4> QED
        BY <1>8, <4>1, <4>3, <4>4
    <3>2. CASE k = Len(queued) + 1
      <4>1. qp2[k] = a /\ queued'[k] = staged /\ Lengths[queued'[k]] = n
        BY <1>3, <1>10, <2>4, <3>2
      <4>2. CASE d = a
        <5>1. 0 < n - 1 <=> d < a + n - 1
          BY <1>3, <4>2, SMTT(60)
        <5> QED
          BY <1>7, <1>8, <4>1, <4>2, <5>1
      <4>3. CASE d # a
        <5>1. d \in 0 .. Size - 1 /\ a < d /\ d < a + Lengths[staged]
          BY <1>3, <1>5, <2>5, <4>1, <4>3, SMTT(60)
        <5>2. At(d).id = staged /\ (At(d).next <=> d < a + Lengths[staged] - 1)
          BY <1>1, <1>2, <5>1 DEF StagedBody
        <5> QED
          BY <1>8, <4>1, <4>3, <5>1, <5>2
      <4> QED
        BY <4>2, <4>3
    <3> QED
      BY <1>10, <3>1, <3>2
  <2> QED
    BY <1>1, <1>9, <2>2, <2>5 DEF QueuedChains
<1>14. DoneChains(u, dp)'
  <2>1. Layout(dp, done, Lengths, 0, u) /\ done \in Seq(Ids) /\ Len(done) \in Nat
    BY <1>2 DEF DoneChains, TypeOK
  <2>2. \A k \in 1 .. Len(done) : dp[k] \in 0 .. Size - 1 /\ dp[k] # a
    <3> SUFFICES ASSUME NEW k \in 1 .. Len(done)
                 PROVE  dp[k] \in 0 .. Size - 1 /\ dp[k] # a
      OBVIOUS
    <3>1. Lengths[done[k]] \in Nat \ {0} /\ 0 <= dp[k] /\ dp[k] + Lengths[done[k]] <= u
      BY <1>3, <2>1, LayoutEnds
    <3>2. dp[k] \in Int
      BY <2>1 DEF Layout
    <3> QED
      BY <1>4, <1>5, <3>1, <3>2
  <2>3. \A d \in 0 .. u - 1 : d \in 0 .. Size - 1 /\ d # a
    BY <1>4, <1>5
  <2> QED
    BY <1>1, <1>2, <1>8, <1>9, <2>2, <2>3 DEF DoneChains
<1>15. StagedBody(a + n)'
  BY <1>1 DEF StagedBody
<1>16. HeldIds' = HeldIds /\ HeldChains' = HeldChains
  BY <1>1 DEF HeldIds, HeldChains
<1>17. HeldCount(u, p)' /\ HeldSound'
  BY <1>1, <1>2, <1>9, <1>16 DEF HeldCount, HeldTaken, HeldSound
<1>18. Apart'
  <2>1. \A k \in 1 .. Len(queued') : queued'[k] = staged \/ \E m \in 1 .. Len(queued) : queued'[k] = queued[m]
    BY <1>10
  <2>2. \A k, m \in 1 .. Len(queued') : queued'[k] = queued'[m] => k = m
    <3>1. \A k \in 1 .. Len(queued') : k \in 1 .. Len(queued) \/ k = Len(queued) + 1
      BY <1>10
    <3> QED
      BY <1>2, <1>10, <3>1 DEF Apart
  <2>3. None \notin HeldIds /\ None \notin Ids
    BY <1>2, HeldTyped DEF Ids, None
  <2>4. \A k \in 1 .. Len(queued') : queued'[k] \notin HeldIds
    BY <1>2, <2>1 DEF Apart
  <2>5. \A k \in 1 .. Len(queued'), m \in 1 .. Len(done) : queued'[k] # done[m]
    BY <1>2, <2>1 DEF Apart
  <2>6. /\ \A k \in 1 .. Len(queued') : queued'[k] # None
        /\ \A k \in 1 .. Len(done) : done[k] # None /\ done[k] \notin HeldIds
    <3>1. \A k \in 1 .. Len(queued') : queued'[k] \in Ids
      BY <1>10
    <3>2. \A k \in 1 .. Len(done) : done[k] \in Ids
      BY <1>2 DEF TypeOK
    <3> QED
      BY <1>2, <2>3, <3>1, <3>2 DEF Apart
  <2>7. \A k, m \in 1 .. Len(done) : done[k] = done[m] => k = m
    BY <1>2 DEF Apart
  <2> QED
    BY <1>1, <1>16, <2>2, <2>3, <2>4, <2>5, <2>6, <2>7 DEF Apart
<1>19. TypeOK'
  BY <1>1, <1>2, <1>8, <1>10, <1>11 DEF TypeOK
<1>20. Walking' /\ Life' /\ OwnedSound'
  <2>1. queued # <<>> => queued' # <<>> /\ queued'[1] = queued[1]
    BY <1>10
  <2>2. Walking'
    BY <1>1, <1>2, <1>9, <2>1 DEF Walking
  <2> QED
    BY <1>1, <1>2, <2>2 DEF Life, OwnedSound
<1>21. Sound' /\ Shape(u, p, a + n, dp, qp2)'
  BY <1>1, <1>2, <1>11, <1>12, <1>13, <1>14, <1>15, <1>17, <1>18, <1>19, <1>20 DEF Sound, Shape
<1> QED
  BY <1>5, <1>21 DEF QueueInv

-----------------------------------------------------------------------------
(***************************************************************************)
(* The driver stages a chain.                                              *)
(***************************************************************************)
(* The ids taken are free, and there is room for as many descriptors.      *)
LEMMA StageFits ==
  ASSUME Sound, NEW a \in 0 .. Size, a + StagedLength = Cardinality(Taken),
         NEW mine \in SUBSET Ids, NEW i \in mine, DriverStage(i, mine)
  PROVE  /\ owned[i] = {} /\ i \in Ids /\ staged = None /\ StagedLength = 0
         /\ Cardinality(mine) \in 1 .. Size /\ a + Cardinality(mine) <= Size
         /\ owned' = [owned EXCEPT ![i] = mine] /\ staged' = i
         /\ Lengths'[i] = Cardinality(mine)
         /\ \A j \in Ids : j # i => owned'[j] = owned[j] /\ Lengths'[j] = Lengths[j]
         /\ Taken' = Taken \cup mine /\ Taken \cap mine = {}
         /\ Cardinality(Taken') = a + Cardinality(mine)
         /\ OwnedSound'
<1>1. /\ staged = None /\ mine \subseteq FreeIds
      /\ owned' = [owned EXCEPT ![i] = mine] /\ staged' = i
  BY DEF DriverStage
<1>2. owned \in [Ids -> SUBSET Ids] /\ i \in Ids /\ OwnedSound /\ TypeOK
  BY DEF Sound, TypeOK
<1>3. Taken \cap mine = {}
  BY <1>1 DEF FreeIds, Taken
<1>4. owned[i] = {}
  <2>1. i \notin owned[i]
    BY <1>2, <1>3 DEF Taken
  <2> QED
    BY <1>2, <2>1 DEF OwnedSound
<1>5. owned'[i] = mine /\ \A j \in Ids : j # i => owned'[j] = owned[j]
  BY <1>1, <1>2
<1>6. Taken' = Taken \cup mine
  BY <1>2, <1>4, <1>5 DEF Taken
<1>7. Lengths'[i] = Cardinality(mine) /\ \A j \in Ids : j # i => Lengths'[j] = Lengths[j]
  BY <1>2, <1>5 DEF Lengths
<1>8. StagedLength = 0
  BY <1>1 DEF StagedLength
<1>9. Taken \in SUBSET Ids /\ Taken' \in SUBSET Ids
  BY <1>2, <1>6, OwnedFacts
<1>10. /\ Cardinality(Taken') = Cardinality(Taken) + Cardinality(mine)
       /\ Cardinality(mine) \in 0 .. Size /\ Cardinality(mine) # 0
       /\ Cardinality(Taken') \in 0 .. Size
  BY <1>3, <1>6, <1>9, DisjointCounts, IdsFinite
<1>11. OwnedSound'
  <2>1. \A j \in Ids : owned'[j] # {} => j \in owned'[j]
    BY <1>2, <1>5 DEF OwnedSound
  <2>2. \A j \in Ids : j # i => owned[j] \cap mine = {}
    BY <1>2, <1>3 DEF Taken
  <2>3. \A j, k \in Ids : j # k => owned'[j] \cap owned'[k] = {}
    BY <1>2, <1>5, <2>2 DEF OwnedSound
  <2> QED
    BY <2>1, <2>3 DEF OwnedSound
<1>12. a + Cardinality(mine) <= Size /\ Cardinality(Taken') = a + Cardinality(mine)
       /\ Cardinality(mine) \in 1 .. Size
  BY <1>8, <1>10
<1> QED
  BY <1>1, <1>2, <1>3, <1>4, <1>5, <1>6, <1>7, <1>8, <1>11, <1>12

(* The chain's body lies behind the driver's cursor.                       *)
LEMMA StageWrites ==
  ASSUME TypeOK, NEW a \in 0 .. Size, NEW i \in Ids, NEW n \in 1 .. Size, a + n <= Size,
         next_avail_idx = Step(last_used_idx, a), avail_wrap_counter = WrapAt(a),
         NEW mine, n = Cardinality(mine), DriverStage(i, mine)
  PROVE  /\ ring' \in [Slots -> Descriptor]
         /\ \A d : WrapAt(d)' = WrapAt(d)
         /\ \A d \in 0 .. Size - 1 : a < d /\ d < a + n =>
              At(d)' = Made(WrapAt(d), d - a < n - 1, i)
         /\ \A d \in 0 .. Size - 1 : ~(a < d /\ d < a + n) => At(d)' = At(d)
<1>a. PICK Body : Body = {Step(next_avail_idx, j) : j \in 1 .. n - 1}
  OBVIOUS
<1>b. ring' = [s \in Slots |->
                 IF s \in Body
                 THEN ChainDescriptor(i, n, CHOOSE j \in 1 .. n - 1 : Step(next_avail_idx, j) = s)
                 ELSE ring[s]]
      /\ UNCHANGED <<last_used_idx, used_wrap_counter>>
  BY <1>a DEF DriverStage
<1>1. last_used_idx \in Slots /\ used_wrap_counter \in BOOLEAN /\ ring \in [Slots -> Descriptor]
  BY DEF TypeOK
<1>2. \A d : WrapAt(d)' = WrapAt(d)
  BY <1>b DEF WrapAt
<1>3. ASSUME NEW j \in 1 .. n - 1
      PROVE  /\ Step(next_avail_idx, j) = Step(last_used_idx, a + j)
             /\ Wrap(next_avail_idx, avail_wrap_counter, j) = WrapAt(a + j)
             /\ a + j \in 0 .. Size - 1
  <2>1. a \in Nat /\ j \in Nat /\ a + j <= Size /\ a + j \in 0 .. Size - 1
    OBVIOUS
  <2> QED
    BY <1>1, <2>1, StepStep DEF WrapAt
<1>4. \A d \in 0 .. Size - 1 : Step(last_used_idx, d) \in Slots
  <2>1. \A d \in 0 .. Size - 1 : d \in 0 .. Size
    OBVIOUS
  <2> QED
    BY <1>1, <2>1, StepIn
<1>5. ASSUME NEW d \in 0 .. Size - 1, NEW j \in 1 .. n - 1,
             Step(next_avail_idx, j) = Step(last_used_idx, d)
      PROVE  d = a + j
  BY <1>1, <1>3, <1>5, StepInjective
<1>6. ASSUME NEW d \in 0 .. Size - 1, a < d, d < a + n
      PROVE  At(d)' = Made(WrapAt(d), d - a < n - 1, i)
  <2> DEFINE s == Step(last_used_idx, d)
             j == CHOOSE j \in 1 .. n - 1 : Step(next_avail_idx, j) = s
  <2>1. d - a \in 1 .. n - 1 /\ a + (d - a) = d
    BY <1>6
  <2>2. Step(next_avail_idx, d - a) = s
    BY <1>3, <2>1
  <2>3. s \in Body
    BY <1>a, <2>1, <2>2
  <2>4. j \in 1 .. n - 1 /\ Step(next_avail_idx, j) = s
    BY <2>1, <2>2
  <2> HIDE DEF j
  <2>5. d = a + j
    BY <1>5, <2>4
  <2>6. j = d - a
    BY <2>4, <2>5
  <2>7. At(d)' = ChainDescriptor(i, n, j)
    BY <1>b, <1>4, <2>3 DEF At, j
  <2>8. Wrap(next_avail_idx, avail_wrap_counter, d - a) = WrapAt(d)
    BY <1>3, <2>1
  <2> QED
    BY <2>6, <2>7, <2>8 DEF ChainDescriptor
<1>7. ASSUME NEW d \in 0 .. Size - 1, ~(a < d /\ d < a + n)
      PROVE  At(d)' = At(d)
  <2>1. ASSUME Step(last_used_idx, d) \in Body PROVE FALSE
    <3>1. PICK j \in 1 .. n - 1 : Step(next_avail_idx, j) = Step(last_used_idx, d)
      BY <1>a, <2>1
    <3>2. d = a + j
      BY <1>5, <3>1
    <3> QED
      BY <1>7, <3>2
  <2> QED
    BY <1>b, <1>4, <2>1 DEF At
<1>8. ring' \in [Slots -> Descriptor]
  <2> SUFFICES ASSUME NEW s \in Slots PROVE ring'[s] \in Descriptor
    BY <1>b
  <2>1. PICK d \in 0 .. Size - 1 : Step(last_used_idx, d) = s
    BY <1>1, StepOnto
  <2>2. ring'[s] = At(d)' /\ ring[s] = At(d)
    BY <1>b, <2>1 DEF At
  <2>3. CASE a < d /\ d < a + n
    <3>1. WrapAt(d) \in BOOLEAN
      BY <1>1, WrapIn DEF WrapAt
    <3>2. Made(WrapAt(d), d - a < n - 1, i) \in Descriptor
      BY <3>1 DEF Made, Descriptor
    <3> QED
      BY <1>6, <2>2, <2>3, <3>2
  <2>4. CASE ~(a < d /\ d < a + n)
    BY <1>1, <1>7, <2>2, <2>4
  <2> QED
    BY <2>3, <2>4
<1> QED
  BY <1>2, <1>6, <1>7, <1>8

(* The driver stages a chain: only free descriptors change.                *)
LEMMA StageKeeps ==
  ASSUME Sound, NEW u \in 0 .. Size, NEW p \in 0 .. Size, NEW a \in 0 .. Size,
         NEW dp, NEW qp, Shape(u, p, a, dp, qp),
         NEW mine \in SUBSET Ids, NEW i \in mine, DriverStage(i, mine)
  PROVE  QueueInv'
<1>0. PICK n : n = Cardinality(mine)
  OBVIOUS
<1>1. /\ UNCHANGED <<next_avail_idx, avail_wrap_counter, last_used_idx,
                     used_wrap_counter, deviceVars, valid, is_current, generation,
                     held, errors, queued, done>>
      /\ UNCHANGED <<avail_idx, avail_wrap, used_idx, used_wrap, popping>>
  BY DEF DriverStage, deviceVars
<1>2. /\ TypeOK /\ Cursors(u, p, a) /\ Flags(u, a) /\ QueuedChains(p, a, qp)
      /\ DoneChains(u, dp) /\ StagedBody(a) /\ HeldCount(u, p)
      /\ OwnedSound /\ HeldSound /\ Apart /\ Walking /\ Life /\ errors = {}
  BY DEF Sound, Shape
<1>3. a + StagedLength = Cardinality(Taken) /\ u <= p /\ p <= a
      /\ next_avail_idx = Step(last_used_idx, a) /\ avail_wrap_counter = WrapAt(a)
  BY <1>2 DEF Cursors
<1>4. /\ owned[i] = {} /\ i \in Ids /\ staged = None /\ StagedLength = 0
      /\ n \in 1 .. Size /\ a + n <= Size
      /\ owned' = [owned EXCEPT ![i] = mine] /\ staged' = i
      /\ Lengths'[i] = n
      /\ \A j \in Ids : j # i => owned'[j] = owned[j] /\ Lengths'[j] = Lengths[j]
      /\ Cardinality(Taken') = a + n
      /\ OwnedSound'
  BY <1>0, <1>3, StageFits
<1>5. /\ ring' \in [Slots -> Descriptor]
      /\ \A d : WrapAt(d)' = WrapAt(d)
      /\ \A d \in 0 .. Size - 1 : a < d /\ d < a + n =>
           At(d)' = Made(WrapAt(d), d - a < n - 1, i)
      /\ \A d \in 0 .. Size - 1 : ~(a < d /\ d < a + n) => At(d)' = At(d)
  BY <1>0, <1>2, <1>3, <1>4, StageWrites
<1>6. \A d \in 0 .. Size - 1 : ~(a < d /\ d < a + n) =>
        (Mine(d)' <=> Mine(d)) /\ (Spent(d)' <=> Spent(d))
  BY <1>5 DEF Mine, Spent
<1>7. \A d \in 0 .. Size - 1 : a < d /\ d < a + n => Mine(d)' /\ ~Spent(d)'
  <2> SUFFICES ASSUME NEW d \in 0 .. Size - 1, a < d, d < a + n
               PROVE  Mine(d)' /\ ~Spent(d)'
    OBVIOUS
  <2>1. At(d)' = Made(WrapAt(d), d - a < n - 1, i) /\ WrapAt(d)' = WrapAt(d)
    BY <1>5
  <2>2. At(d)'.avail = WrapAt(d) /\ At(d)'.used = ~WrapAt(d)
    BY <2>1 DEF Made
  <2>3. WrapAt(d) \in BOOLEAN
    BY <1>2, WrapIn DEF WrapAt, TypeOK
  <2>4. At(d)'.avail # At(d)'.used
    BY <2>2, <2>3, Zenon
  <2> QED
    BY <2>1, <2>2, <2>4 DEF Mine, Spent
<1>8. StagedLength' = n
  <2>1. i # None
    BY <1>4 DEF Ids, None
  <2> QED
    BY <1>4, <2>1 DEF StagedLength, Length, Lengths
<1>9. \A j \in Ids : owned[j] # {} => j # i
  BY <1>4
<1>10. /\ \A k \in 1 .. Len(queued) : queued[k] \in Ids /\ queued[k] # i
       /\ \A k \in 1 .. Len(done) : done[k] \in Ids /\ done[k] # i
       /\ \A c \in HeldChains : c.id \in Ids /\ c.id # i
  <2>1. queued \in Seq(Ids) /\ done \in Seq(Ids) /\ Lengths \in Lens
    BY <1>2, OwnedFacts DEF TypeOK
  <2>2. /\ \A k \in 1 .. Len(queued) : queued[k] \in Ids /\ Lengths[queued[k]] \in Nat \ {0}
        /\ \A k \in 1 .. Len(done) : done[k] \in Ids /\ Lengths[done[k]] \in Nat \ {0}
    BY <1>2, <2>1, LayoutEnds DEF QueuedChains, DoneChains
  <2>3. Lengths[i] = 0
    BY <1>2, <1>4, OwnedFacts
  <2>4. \A c \in HeldChains : c.id \in Ids /\ owned[c.id] # {}
    BY <1>2 DEF HeldChains, HeldSound, TypeOK, ChainType
  <2> QED
    BY <1>9, <2>2, <2>3, <2>4
<1>11. Cursors(u, p, a)'
  <2>1. a + StagedLength' = Cardinality(Taken')
    BY <1>4, <1>8
  <2> QED
    BY <1>1, <1>2, <1>5, <2>1 DEF Cursors
<1>12. Flags(u, a)'
  <2> SUFFICES ASSUME NEW d \in 0 .. Size - 1
               PROVE  /\ Mine(d)' <=> d < a \/ (a < d /\ d < a + n)
                      /\ u <= d /\ Mine(d)' => ~Spent(d)'
    BY <1>8 DEF Flags
  <2>1. /\ Mine(d) <=> d < a \/ (a < d /\ d < a + 0)
        /\ u <= d /\ Mine(d) => ~Spent(d)
    BY <1>2, <1>4 DEF Flags
  <2>2. CASE a < d /\ d < a + n
    BY <1>7, <2>2
  <2>3. CASE ~(a < d /\ d < a + n)
    <3>1. (Mine(d)' <=> Mine(d)) /\ (Spent(d)' <=> Spent(d))
      BY <1>6, <2>3
    <3>2. Mine(d) <=> d < a
      BY <2>1
    <3> QED
      BY <2>1, <2>3, <3>1, <3>2
  <2> QED
    BY <2>2, <2>3
<1>13. QueuedChains(p, a, qp)'
  <2>1. \A d \in p .. a - 1 : At(d)' = At(d)
    BY <1>5
  <2>2. \A k \in 1 .. Len(queued) : Lengths'[queued[k]] = Lengths[queued[k]]
    BY <1>4, <1>10
  <2>3. Layout(qp, queued, Lengths', p - popping.skip, a)
    BY <1>2, <2>2, LayoutSame DEF QueuedChains, TypeOK
  <2> QED
    BY <1>1, <1>2, <2>1, <2>2, <2>3 DEF QueuedChains
<1>14. DoneChains(u, dp)'
  <2>1. \A k \in 1 .. Len(done) : Lengths'[done[k]] = Lengths[done[k]]
    BY <1>4, <1>10
  <2>2. Layout(dp, done, Lengths, 0, u) /\ done \in Seq(Ids) /\ Len(done) \in Nat /\ Lengths \in Lens
    BY <1>2, OwnedFacts DEF DoneChains, TypeOK
  <2>3. Layout(dp, done, Lengths', 0, u)
    BY <2>1, <2>2, LayoutSame
  <2>4. \A k \in 1 .. Len(done) : dp[k] \in 0 .. Size - 1 /\ ~(a < dp[k] /\ dp[k] < a + n)
    <3> SUFFICES ASSUME NEW k \in 1 .. Len(done)
                 PROVE  dp[k] \in 0 .. Size - 1 /\ ~(a < dp[k] /\ dp[k] < a + n)
      OBVIOUS
    <3>1. Lengths[done[k]] \in Nat \ {0} /\ 0 <= dp[k] /\ dp[k] + Lengths[done[k]] <= u
      BY <2>2, LayoutEnds
    <3>2. dp[k] \in Int
      BY <2>2 DEF Layout
    <3> QED
      BY <1>3, <3>1, <3>2
  <2>5. \A d \in 0 .. u - 1 : d \in 0 .. Size - 1 /\ ~(a < d /\ d < a + n)
    BY <1>3
  <2> QED
    BY <1>1, <1>2, <1>5, <1>6, <2>3, <2>4, <2>5 DEF DoneChains
<1>15. StagedBody(a)'
  <2>1. owned'[i] # {}
    BY <1>2, <1>4 DEF TypeOK
  <2>2. ASSUME NEW d \in 0 .. Size - 1, a < d, d < a + n
        PROVE  At(d)'.id = i /\ (At(d)'.next <=> d < a + n - 1)
    <3>0. At(d)' = Made(WrapAt(d), d - a < n - 1, i)
      BY <1>5, <2>2
    <3>a. PICK b : b = (d - a < n - 1)
      OBVIOUS
    <3>b. At(d)'.id = i /\ At(d)'.next = b
      BY <3>0, <3>a DEF Made
    <3>1. At(d)'.id = i /\ (At(d)'.next <=> d - a < n - 1)
      BY <3>a, <3>b
    <3>2. d - a < n - 1 <=> d < a + n - 1
      BY <1>4
    <3> QED
      BY <3>1, <3>2
  <2> QED
    BY <1>4, <2>1, <2>2 DEF StagedBody
<1>16. HeldIds' = HeldIds /\ HeldChains' = HeldChains
  BY <1>1 DEF HeldIds, HeldChains
<1>17. HeldSound'
  <2>1. \A c \in HeldChains : owned'[c.id] = owned[c.id] /\ Lengths'[c.id] = Lengths[c.id]
    BY <1>4, <1>10
  <2> QED
    BY <1>1, <1>2, <1>16, <2>1 DEF HeldSound
<1>18. HeldCount(u, p)'
  <2>1. \A j \in HeldIds : owned'[j] = owned[j]
    BY <1>4, <1>10 DEF HeldIds
  <2>2. HeldTaken' = HeldTaken
    BY <1>16, <2>1 DEF HeldTaken
  <2> QED
    BY <1>1, <1>2, <2>2 DEF HeldCount
<1>19. Apart'
  <2>1. i \notin HeldIds
    BY <1>10 DEF HeldIds
  <2> QED
    BY <1>1, <1>2, <1>4, <1>10, <1>16, <2>1 DEF Apart
<1>20. TypeOK'
  <2>1. owned' \in [Ids -> SUBSET Ids]
    BY <1>2, <1>4 DEF TypeOK
  <2> QED
    BY <1>1, <1>2, <1>4, <1>5, <2>1 DEF TypeOK
<1>21. Walking' /\ Life'
  <2>1. queued # <<>> => Lengths'[queued[1]] = Lengths[queued[1]]
    BY <1>2, <1>4, <1>10 DEF TypeOK
  <2> QED
    BY <1>1, <1>2, <2>1 DEF Walking, Life
<1>22. Sound' /\ Shape(u, p, a, dp, qp)'
  BY <1>1, <1>2, <1>4, <1>11, <1>12, <1>13, <1>14, <1>15, <1>17, <1>18, <1>19, <1>20, <1>21
    DEF Sound, Shape
<1> QED
  BY <1>22 DEF QueueInv

-----------------------------------------------------------------------------
(***************************************************************************)
(* The driver collects a used element.                                     *)
(***************************************************************************)
(* It names the chain released first.                                      *)
LEMMA CollectFinds ==
  ASSUME Sound, NEW u \in 0 .. Size, NEW p \in 0 .. Size, NEW a \in 0 .. Size,
         NEW dp, NEW qp, Shape(u, p, a, dp, qp), UsedReady
  PROVE  /\ done # <<>> /\ done[1] \in Ids /\ ring[last_used_idx].id = done[1]
         /\ Lengths[done[1]] \in 1 .. Size /\ Lengths[done[1]] <= u
         /\ owned[done[1]] # {} /\ Cardinality(owned[done[1]]) = Lengths[done[1]]
<1>1. /\ TypeOK /\ Flags(u, a) /\ DoneChains(u, dp)
  BY DEF Sound, Shape
<1>2. last_used_idx \in Slots /\ used_wrap_counter \in BOOLEAN /\ 0 \in 0 .. Size - 1
  BY <1>1 DEF TypeOK
<1>3. At(0) = ring[last_used_idx] /\ WrapAt(0) = used_wrap_counter
  BY <1>2, StepZero DEF At, WrapAt
<1>4. Mine(0) /\ Spent(0)
  BY <1>3 DEF UsedReady, Mine, Spent
<1>5. 0 < u
  BY <1>1, <1>2, <1>4 DEF Flags
<1>6. Layout(dp, done, Lengths, 0, u) /\ done \in Seq(Ids) /\ Lengths \in Lens
  BY <1>1, OwnedFacts DEF DoneChains, TypeOK
<1>7. done # <<>> /\ done[1] \in Ids /\ Lengths[done[1]] \in Nat \ {0} /\ 0 + Lengths[done[1]] <= u
  BY <1>5, <1>6, LayoutEnds
<1>8. dp[1] = 0 /\ 1 \in 1 .. Len(done)
  BY <1>6, <1>7 DEF Layout
<1>9. At(0).id = done[1]
  BY <1>1, <1>8 DEF DoneChains
<1>10. owned[done[1]] # {} /\ Cardinality(owned[done[1]]) = Lengths[done[1]]
  BY <1>1, <1>7, OwnedFacts
<1> QED
  BY <1>3, <1>7, <1>9, <1>10

(* Everything is counted from n descriptors further on; what lay before is *)
(* of the other lap.                                                       *)
LEMMA ViewMoves ==
  ASSUME TypeOK, NEW n \in 1 .. Size, ring' = ring,
         last_used_idx' = Step(last_used_idx, n), used_wrap_counter' = WrapAt(n)
  PROVE  /\ last_used_idx' \in Slots /\ used_wrap_counter' \in BOOLEAN
         /\ \A d \in 0 .. Size : d + n <= Size =>
              Step(last_used_idx', d) = Step(last_used_idx, d + n) /\ WrapAt(d)' = WrapAt(d + n)
         /\ \A d \in 0 .. Size : d + n <= Size =>
              /\ At(d)' = At(d + n)
              /\ Mine(d)' <=> Mine(d + n)
              /\ Spent(d)' <=> Spent(d + n)
         /\ \A d \in 0 .. Size - 1 : d + n >= Size => (Mine(d)' <=> ~Mine(d + n - Size))
<1>1. last_used_idx \in Slots /\ used_wrap_counter \in BOOLEAN /\ ring \in [Slots -> Descriptor]
  BY DEF TypeOK
<1>2. last_used_idx' \in Slots /\ used_wrap_counter' \in BOOLEAN
  BY <1>1, StepIn, WrapIn DEF WrapAt
<1>3. ASSUME NEW d \in 0 .. Size, d + n <= Size
      PROVE  Step(last_used_idx', d) = Step(last_used_idx, d + n) /\ WrapAt(d)' = WrapAt(d + n)
  <2>1. n \in Nat /\ d \in Nat /\ n + d <= Size /\ n + d = d + n
    BY <1>3
  <2> QED
    BY <1>1, <2>1, StepStep DEF WrapAt
<1>4. ASSUME NEW d \in 0 .. Size, d + n <= Size
      PROVE  /\ At(d)' = At(d + n)
             /\ Mine(d)' <=> Mine(d + n)
             /\ Spent(d)' <=> Spent(d + n)
  BY <1>3, <1>4 DEF At, Mine, Spent
<1>5. ASSUME NEW d \in 0 .. Size - 1, d + n >= Size
      PROVE  Mine(d)' <=> ~Mine(d + n - Size)
  <2>1. n \in 0 .. Size /\ d \in 0 .. Size /\ n + d >= Size /\ n + d = d + n
    BY <1>5
  <2>2. /\ Step(last_used_idx', d) = Step(last_used_idx, d + n - Size)
        /\ WrapAt(d)' = ~WrapAt(d + n - Size)
    BY <1>1, <2>1, StepPast DEF WrapAt
  <2>3. At(d)' = At(d + n - Size)
    BY <2>2 DEF At
  <2>4. d + n - Size \in 0 .. Size /\ Step(last_used_idx, d + n - Size) \in Slots
    BY <1>1, <2>1, StepIn
  <2>5. WrapAt(d + n - Size) \in BOOLEAN /\ At(d + n - Size).avail \in BOOLEAN
    BY <1>1, <2>4, WrapIn DEF WrapAt, At, Descriptor
  <2> QED
    BY <2>2, <2>3, <2>5, Zenon DEF Mine
<1> QED
  BY <1>2, <1>3, <1>4, <1>5

(* The driver collects: every distance shrinks by the chain's length.      *)
LEMMA CollectKeeps ==
  ASSUME Sound, NEW u \in 0 .. Size, NEW p \in 0 .. Size, NEW a \in 0 .. Size,
         NEW dp, NEW qp, Shape(u, p, a, dp, qp), DriverCollect
  PROVE  QueueInv'
<1>0. PICK i, n : i = done[1] /\ n = Lengths[done[1]]
  OBVIOUS
<1>1. UsedReady /\ valid
  BY DEF DriverCollect
<1>2. /\ TypeOK /\ Cursors(u, p, a) /\ Flags(u, a) /\ QueuedChains(p, a, qp)
      /\ DoneChains(u, dp) /\ StagedBody(a) /\ HeldCount(u, p)
      /\ OwnedSound /\ HeldSound /\ Apart /\ Walking /\ Life /\ errors = {}
  BY DEF Sound, Shape
<1>3. /\ done # <<>> /\ i \in Ids /\ ring[last_used_idx].id = i
      /\ n \in 1 .. Size /\ n <= u /\ owned[i] # {} /\ Cardinality(owned[i]) = n
  BY <1>0, <1>1, CollectFinds
<1>n. n \in Int /\ Size \in Int /\ 1 <= n /\ n <= Size
  BY <1>3
<1>4. /\ errors' = errors /\ done' = Tail(done)
      /\ last_used_idx' = Step(last_used_idx, n) /\ used_wrap_counter' = WrapAt(n)
      /\ owned' = [owned EXCEPT ![i] = {}]
      /\ UNCHANGED <<ring, next_avail_idx, avail_wrap_counter, staged, deviceVars,
                     valid, is_current, generation, held, queued>>
      /\ UNCHANGED <<avail_idx, avail_wrap, used_idx, used_wrap, popping>>
  BY <1>3 DEF DriverCollect, deviceVars, WrapAt
<1>5. /\ last_used_idx' \in Slots /\ used_wrap_counter' \in BOOLEAN
      /\ \A d \in 0 .. Size : d + n <= Size =>
           Step(last_used_idx', d) = Step(last_used_idx, d + n) /\ WrapAt(d)' = WrapAt(d + n)
      /\ \A d \in 0 .. Size : d + n <= Size =>
           /\ At(d)' = At(d + n)
           /\ Mine(d)' <=> Mine(d + n)
           /\ Spent(d)' <=> Spent(d + n)
      /\ \A d \in 0 .. Size - 1 : d + n >= Size => (Mine(d)' <=> ~Mine(d + n - Size))
  BY <1>2, <1>3, <1>4, ViewMoves
<1>6. u <= p /\ p <= a /\ a + StagedLength = Cardinality(Taken)
  BY <1>2 DEF Cursors
<1>7. /\ Lengths \in Lens /\ Cardinality(Taken) \in 0 .. Size /\ StagedLength \in 0 .. Size
      /\ Taken \in SUBSET Ids
  BY <1>2, OwnedFacts
<1>8. owned \in [Ids -> SUBSET Ids] /\ queued \in Seq(Ids) /\ done \in Seq(Ids)
      /\ Len(queued) \in Nat /\ Len(done) \in Nat /\ popping.skip \in Nat
  BY <1>2 DEF TypeOK
<1>9. owned'[i] = {} /\ \A j \in Ids : j # i => owned'[j] = owned[j] /\ Lengths'[j] = Lengths[j]
  BY <1>3, <1>4, <1>8 DEF Lengths
<1>10. /\ 1 \in 1 .. Len(done) /\ Len(done') = Len(done) - 1 /\ done' \in Seq(Ids)
       /\ \A k \in 1 .. Len(done') :
            k + 1 \in 1 .. Len(done) /\ k + 1 # 1 /\ done'[k] = done[k + 1]
  BY <1>3, <1>4, <1>8
<1>11. /\ \A k \in 1 .. Len(queued) : queued[k] \in Ids /\ queued[k] # i
       /\ \A k \in 1 .. Len(done) : done[k] \in Ids /\ (k # 1 => done[k] # i)
       /\ i \notin HeldIds /\ i # staged
  BY <1>0, <1>2, <1>8, <1>10 DEF Apart
<1>12. Taken' \cup owned[i] = Taken /\ Taken' \cap owned[i] = {} /\ Taken' \in SUBSET Ids
  <2>1. Taken' = UNION {owned[j] : j \in Ids \ {i}}
    BY <1>3, <1>9 DEF Taken
  <2>2. Taken' \cup owned[i] = Taken
    BY <1>3, <2>1 DEF Taken
  <2>3. Taken' \cap owned[i] = {}
    BY <1>2, <1>3, <2>1 DEF OwnedSound
  <2> QED
    BY <1>7, <2>2, <2>3
<1>13. Cardinality(Taken) = Cardinality(Taken') + n /\ Cardinality(Taken') \in Nat
  <2>1. owned[i] \in SUBSET Ids
    BY <1>3, <1>8
  <2> QED
    BY <1>3, <1>12, <2>1, DisjointCounts
<1>14. StagedLength' = StagedLength
  <2>1. CASE staged = None
    BY <1>4, <2>1 DEF StagedLength
  <2>2. CASE staged # None
    <3>1. staged \in Ids /\ owned'[staged] = owned[staged]
      BY <1>2, <1>9, <1>11, <2>2 DEF TypeOK
    <3> QED
      BY <1>4, <3>1 DEF StagedLength, Length
  <2> QED
    BY <2>1, <2>2
<1>15. /\ u - n \in 0 .. Size /\ p - n \in 0 .. Size /\ a - n \in 0 .. Size
       /\ (u - n) + n = u /\ (p - n) + n = p /\ (a - n) + n = a
       /\ (u - n) + n <= Size /\ (p - n) + n <= Size /\ (a - n) + n <= Size
  BY <1>3, <1>6
<1>16. Cursors(u - n, p - n, a - n)'
  <2>1. /\ Step(last_used_idx', u - n) = Step(last_used_idx, u) /\ WrapAt(u - n)' = WrapAt(u)
        /\ Step(last_used_idx', p - n) = Step(last_used_idx, p) /\ WrapAt(p - n)' = WrapAt(p)
        /\ Step(last_used_idx', a - n) = Step(last_used_idx, a) /\ WrapAt(a - n)' = WrapAt(a)
    BY <1>5, <1>15
  <2>2. /\ used_idx' = Step(last_used_idx', u - n) /\ used_wrap' = WrapAt(u - n)'
        /\ avail_idx' = Step(last_used_idx', p - n) /\ avail_wrap' = WrapAt(p - n)'
        /\ next_avail_idx' = Step(last_used_idx', a - n) /\ avail_wrap_counter' = WrapAt(a - n)'
    BY <1>2, <1>4, <2>1 DEF Cursors
  <2>3. u - n <= p - n /\ p - n <= a - n /\ (a - n) + StagedLength' = Cardinality(Taken')
    BY <1>3, <1>6, <1>7, <1>13, <1>14
  <2> QED
    BY <2>2, <2>3 DEF Cursors
<1>17. Flags(u - n, a - n)'
  <2> SUFFICES ASSUME NEW d \in 0 .. Size - 1
               PROVE  /\ Mine(d)' <=> d < a - n \/ (a - n < d /\ d < (a - n) + StagedLength)
                      /\ u - n <= d /\ Mine(d)' => ~Spent(d)'
    BY <1>14 DEF Flags
  <2>1. CASE d + n < Size
    <3>1. d + n \in 0 .. Size - 1 /\ d \in 0 .. Size /\ d + n <= Size
      BY <1>3, <2>1
    <3>2. /\ Mine(d + n) <=> d + n < a \/ (a < d + n /\ d + n < a + StagedLength)
          /\ u <= d + n /\ Mine(d + n) => ~Spent(d + n)
      BY <1>2, <3>1 DEF Flags
    <3>3. (Mine(d)' <=> Mine(d + n)) /\ (Spent(d)' <=> Spent(d + n))
      BY <1>5, <3>1
    <3>4. /\ (d + n < a \/ (a < d + n /\ d + n < a + StagedLength))
               <=> (d < a - n \/ (a - n < d /\ d < (a - n) + StagedLength))
          /\ u <= d + n <=> u - n <= d
      BY <1>3, <1>7
    <3> QED
      BY <3>2, <3>3, <3>4
  <2>2. CASE d + n >= Size
    <3>1. d + n - Size \in 0 .. Size - 1 /\ d + n - Size < a
      BY <1>3, <1>6, <2>2
    <3>2. Mine(d + n - Size)
      BY <1>2, <3>1 DEF Flags
    <3>3. ~Mine(d)'
      BY <1>5, <2>2, <3>2
    <3>4. ~(d < a - n \/ (a - n < d /\ d < (a - n) + StagedLength))
      BY <1>3, <1>6, <1>7, <2>2
    <3> QED
      BY <3>3, <3>4
  <2> QED
    BY <1>3, <2>1, <2>2
<1>18. PICK qp2 : /\ qp2 = [k \in 1 .. Len(queued) + 1 |-> qp[k] - n]
  OBVIOUS
<1>19. QueuedChains(p - n, a - n, qp2)'
  <2>1. Layout(qp, queued, Lengths, p - popping.skip, a)
    BY <1>2 DEF QueuedChains
  <2>2. Layout(qp2, queued, Lengths, (p - popping.skip) - n, a - n)
    <3>1. Layout([k \in 1 .. Len(queued) + 1 |-> qp[k] - n], queued, Lengths,
                 (p - popping.skip) - n, a - n)
      BY <1>n, <1>7, <1>8, <2>1, LayoutShift
    <3> QED
      BY <1>18, <3>1
  <2>3. \A k \in 1 .. Len(queued) : Lengths'[queued[k]] = Lengths[queued[k]]
    BY <1>9, <1>11
  <2>4. (p - popping.skip) - n = (p - n) - popping.skip
    BY <1>3, <1>8
  <2>5. Layout(qp2, queued, Lengths', (p - n) - popping.skip, a - n)
    BY <1>8, <2>2, <2>3, <2>4, LayoutSame
  <2>6. ASSUME NEW k \in 1 .. Len(queued), NEW d \in p - n .. (a - n) - 1,
               qp2[k] <= d, d < qp2[k] + Lengths'[queued[k]]
        PROVE  At(d)'.id = queued[k] /\ (At(d)'.next <=> d < qp2[k] + Lengths'[queued[k]] - 1)
    <3>1. qp2[k] = qp[k] - n /\ qp[k] \in Int /\ Lengths'[queued[k]] = Lengths[queued[k]]
          /\ Lengths[queued[k]] \in Nat
      <4>1. qp[k] \in Int /\ qp2[k] = qp[k] - n
        <5>1. k \in 1 .. Len(queued) + 1
          BY <1>8
        <5>2. qp[k] \in Int
          BY <2>1, <5>1 DEF Layout
        <5> QED
          BY <1>18, <5>1, <5>2
      <4>2. Lengths[queued[k]] \in Nat
        BY <1>7, <1>11 DEF Lens
      <4> QED
        BY <2>3, <4>1, <4>2
    <3>2. /\ d + n \in p .. a - 1 /\ d \in 0 .. Size /\ d + n <= Size
          /\ qp[k] <= d + n /\ d + n < qp[k] + Lengths[queued[k]]
      <4>1. d \in Int /\ p - n <= d /\ d <= (a - n) - 1
        BY <1>n
      <4>2. qp[k] - n <= d /\ d < (qp[k] - n) + Lengths[queued[k]]
        BY <2>6, <3>1
      <4> QED
        <5>1. d + n \in p .. a - 1 /\ d \in 0 .. Size /\ d + n <= Size
          BY <1>n, <1>6, <1>15, <4>1
        <5>2. PICK x, y : x = qp[k] /\ y = Lengths[queued[k]]
          OBVIOUS
        <5>3. x \in Int /\ y \in Nat /\ x - n <= d /\ d < (x - n) + y
          BY <3>1, <4>2, <5>2
        <5>4. x <= d + n /\ d + n < x + y
          BY <1>n, <4>1, <5>3
        <5> QED
          BY <5>1, <5>2, <5>4
    <3>3. /\ At(d + n).id = queued[k]
          /\ At(d + n).next <=> d + n < qp[k] + Lengths[queued[k]] - 1
      BY <1>2, <3>2 DEF QueuedChains
    <3>4. At(d)' = At(d + n)
      BY <1>5, <3>2
    <3>5. d + n < qp[k] + Lengths[queued[k]] - 1 <=> d < qp2[k] + Lengths'[queued[k]] - 1
      <4>1. d \in Int
        BY <1>n
      <4> QED
        BY <1>n, <3>1, <4>1, SMTT(60)
    <3> QED
      BY <3>3, <3>4, <3>5
  <2> QED
    BY <1>4, <2>5, <2>6 DEF QueuedChains
<1>20. PICK tp : tp = [k \in 1 .. Len(done) |-> dp[k + 1]]
  OBVIOUS
<1>21. PICK dp2 : dp2 = [k \in 1 .. Len(done') + 1 |-> tp[k] - n]
  OBVIOUS
<1>22. DoneChains(u - n, dp2)'
  <2>1. Layout(dp, done, Lengths, 0, u)
    BY <1>2 DEF DoneChains
  <2>2. Layout(tp, done', Lengths, n, u)
    <3>1. Layout(tp, Tail(done), Lengths, 0 + Lengths[done[1]], u)
      BY <1>3, <1>7, <1>8, <1>20, <2>1, LayoutTail
    <3>2. 0 + Lengths[done[1]] = n
      BY <1>0, <1>3
    <3> QED
      BY <1>4, <3>1, <3>2
  <2>3. Layout(dp2, done', Lengths, n - n, u - n)
    <3>1. Layout([k \in 1 .. Len(done') + 1 |-> tp[k] - n], done', Lengths, n - n, u - n)
      BY <1>n, <1>7, <1>10, <2>2, LayoutShift
    <3> QED
      BY <1>21, <3>1
  <2>4. \A k \in 1 .. Len(done') : Lengths'[done'[k]] = Lengths[done'[k]]
    BY <1>9, <1>10, <1>11, SMTT(60)
  <2>5. Layout(dp2, done', Lengths', 0, u - n)
    <3>1. n - n = 0
      BY <1>3
    <3> QED
      BY <1>10, <2>3, <2>4, <3>1, LayoutSame
  <2>6. \A k \in 1 .. Len(done') : dp2[k] = dp[k + 1] - n /\ dp[k + 1] \in Int
    <3> SUFFICES ASSUME NEW k \in 1 .. Len(done')
                 PROVE  dp2[k] = dp[k + 1] - n /\ dp[k + 1] \in Int
      OBVIOUS
    <3>1. k \in 1 .. Len(done) /\ k \in 1 .. Len(done') + 1 /\ k + 1 \in 1 .. Len(done) + 1
      BY <1>8, <1>10
    <3>2. tp[k] = dp[k + 1] /\ dp2[k] = tp[k] - n
      BY <1>20, <1>21, <3>1
    <3>3. dp[k + 1] \in Int
      BY <2>1, <3>1 DEF Layout
    <3> QED
      BY <3>2, <3>3
  <2>7. ASSUME NEW k \in 1 .. Len(done')
        PROVE  Spent(dp2[k])' /\ At(dp2[k])'.id = done'[k]
    <3>1. k + 1 \in 1 .. Len(done) /\ done'[k] = done[k + 1]
      BY <1>10
    <3>2. Spent(dp[k + 1]) /\ At(dp[k + 1]).id = done[k + 1]
      BY <1>2, <3>1 DEF DoneChains
    <3>3. Lengths[done[k + 1]] \in Nat \ {0} /\ dp[k + 1] + Lengths[done[k + 1]] <= u
      BY <1>7, <1>8, <2>1, <3>1, LayoutEnds
    <3>4. 0 <= dp2[k]
      <4>1. Lengths[done'[k]] \in Nat /\ n <= tp[k]
        BY <1>7, <1>10, <2>2, LayoutEnds
      <4>2. tp[k] = dp[k + 1]
        BY <1>8, <1>10, <1>20
      <4> QED
        BY <1>3, <2>6, <4>1, <4>2
    <3>5. dp2[k] \in 0 .. Size /\ dp2[k] + n <= Size /\ dp2[k] + n = dp[k + 1]
      <4>1. dp2[k] = dp[k + 1] - n /\ dp[k + 1] \in Int
        BY <2>6
      <4>2. PICK x : x = Lengths[done[k + 1]]
        OBVIOUS
      <4>3. x \in Nat /\ dp[k + 1] + x <= u
        BY <3>3, <4>2
      <4> QED
        BY <1>n, <3>4, <4>1, <4>3, SMTT(60)
    <3>6. (Spent(dp2[k])' <=> Spent(dp[k + 1])) /\ At(dp2[k])' = At(dp[k + 1])
      BY <1>5, <3>5
    <3> QED
      BY <3>1, <3>2, <3>6
  <2>8. ASSUME NEW d \in 0 .. (u - n) - 1, Spent(d)'
        PROVE  \E k \in 1 .. Len(done') : d = dp2[k]
    <3>1. d \in 0 .. Size /\ d + n <= Size /\ d + n \in 0 .. u - 1 /\ d + n # 0
      BY <1>3
    <3>2. Spent(d + n)
      BY <1>5, <2>8, <3>1
    <3>3. PICK k \in 1 .. Len(done) : d + n = dp[k]
      BY <1>2, <3>1, <3>2 DEF DoneChains
    <3>4. k # 1
      BY <2>1, <3>1, <3>3 DEF Layout
    <3>5. k - 1 \in 1 .. Len(done') /\ (k - 1) + 1 = k
      BY <1>8, <1>10, <3>4
    <3>6. dp2[k - 1] = dp[k] - n
      BY <2>6, <3>5
    <3>7. d = dp2[k - 1]
      BY <1>3, <3>3, <3>6
    <3> QED
      BY <3>5, <3>7
  <2> QED
    BY <2>5, <2>7, <2>8 DEF DoneChains
<1>23. StagedBody(a - n)'
  <2> SUFFICES ASSUME staged # None
               PROVE  /\ owned'[staged] # {}
                      /\ \A d \in 0 .. Size - 1 : a - n < d /\ d < (a - n) + Lengths'[staged] =>
                           /\ At(d)'.id = staged
                           /\ At(d)'.next <=> d < (a - n) + Lengths'[staged] - 1
    BY <1>4 DEF StagedBody
  <2>1. /\ staged \in Ids /\ owned'[staged] = owned[staged] /\ Lengths'[staged] = Lengths[staged]
        /\ owned[staged] # {}
    BY <1>2, <1>9, <1>11 DEF TypeOK, StagedBody
  <2>2. StagedLength = Lengths[staged]
    BY <1>2, <2>1, OwnedFacts DEF StagedLength
  <2>3. ASSUME NEW d \in 0 .. Size - 1, a - n < d, d < (a - n) + Lengths[staged]
        PROVE  At(d)'.id = staged /\ (At(d)'.next <=> d < (a - n) + Lengths[staged] - 1)
    <3>1. /\ d + n \in 0 .. Size - 1 /\ a < d + n /\ d + n < a + Lengths[staged]
          /\ d \in 0 .. Size /\ d + n <= Size
      BY <1>3, <1>6, <1>7, <2>2, <2>3
    <3>2. At(d + n).id = staged /\ (At(d + n).next <=> d + n < a + Lengths[staged] - 1)
      BY <1>2, <3>1 DEF StagedBody
    <3>3. At(d)' = At(d + n)
      BY <1>5, <3>1
    <3>4. d + n < a + Lengths[staged] - 1 <=> d < (a - n) + Lengths[staged] - 1
      BY <1>3, <1>7, <2>2
    <3> QED
      BY <3>2, <3>3, <3>4
  <2> QED
    BY <2>1, <2>3
<1>24. HeldIds' = HeldIds /\ HeldChains' = HeldChains /\ HeldIds \in SUBSET Ids
  BY <1>2, <1>4, HeldTyped DEF HeldIds, HeldChains
<1>25. HeldSound'
  <2>1. \A c \in HeldChains : owned'[c.id] = owned[c.id] /\ Lengths'[c.id] = Lengths[c.id]
    <3>1. \A c \in HeldChains : c.id \in HeldIds
      BY DEF HeldIds
    <3> QED
      BY <1>9, <1>11, <1>24, <3>1
  <2> QED
    BY <1>2, <1>4, <1>24, <2>1 DEF HeldSound
<1>26. HeldCount(u - n, p - n)'
  <2>1. \A j \in HeldIds : owned'[j] = owned[j]
    BY <1>9, <1>11, <1>24
  <2>2. HeldTaken' = HeldTaken
    BY <1>24, <2>1 DEF HeldTaken
  <2>3. (p - n) - (u - n) = p - u
    BY <1>3
  <2> QED
    BY <1>2, <1>4, <2>2, <2>3 DEF HeldCount
<1>27. Apart'
  <2>1. \A k, m \in 1 .. Len(done') : done'[k] = done'[m] => k = m
    <3> SUFFICES ASSUME NEW k \in 1 .. Len(done'), NEW m \in 1 .. Len(done'),
                        done'[k] = done'[m]
                 PROVE  k = m
      OBVIOUS
    <3>1. /\ k + 1 \in 1 .. Len(done) /\ done'[k] = done[k + 1]
          /\ m + 1 \in 1 .. Len(done) /\ done'[m] = done[m + 1]
      BY <1>10
    <3>2. k + 1 = m + 1
      BY <1>2, <3>1 DEF Apart
    <3> QED
      BY <1>10, <3>2
  <2>2. \A m \in 1 .. Len(done') : \E k \in 1 .. Len(done) : done'[m] = done[k]
    BY <1>10
  <2>3. \A k \in 1 .. Len(queued), m \in 1 .. Len(done') : queued[k] # done'[m]
    BY <1>2, <2>2 DEF Apart
  <2>4. \A m \in 1 .. Len(done') : done'[m] \notin HeldIds /\ done'[m] # staged
    BY <1>2, <2>2 DEF Apart
  <2>5. /\ \A k, m \in 1 .. Len(queued) : queued[k] = queued[m] => k = m
        /\ \A k \in 1 .. Len(queued) : queued[k] \notin HeldIds /\ queued[k] # staged
        /\ staged \notin HeldIds
    BY <1>2 DEF Apart
  <2> QED
    BY <1>4, <1>24, <2>1, <2>3, <2>4, <2>5 DEF Apart
<1>28. TypeOK'
  <2>1. owned' \in [Ids -> SUBSET Ids]
    BY <1>4, <1>8
  <2> QED
    BY <1>2, <1>4, <1>5, <1>10, <2>1 DEF TypeOK
<1>29. Walking' /\ Life'
  <2>1. queued # <<>> => Lengths'[queued[1]] = Lengths[queued[1]]
    BY <1>8, <1>9, <1>11
  <2> QED
    BY <1>2, <1>4, <2>1 DEF Walking, Life
<1>30. OwnedSound'
  <2>1. \A j \in Ids : owned'[j] # {} => j # i /\ owned'[j] = owned[j]
    BY <1>9
  <2>2. \A j \in Ids : owned'[j] \subseteq owned[j]
    BY <1>9
  <2>3. \A j \in Ids : owned'[j] # {} => j \in owned'[j]
    BY <1>2, <2>1 DEF OwnedSound
  <2>4. \A j, k \in Ids : j # k => owned'[j] \cap owned'[k] = {}
    BY <1>2, <2>2 DEF OwnedSound
  <2> QED
    BY <2>3, <2>4 DEF OwnedSound
<1>31. Sound' /\ Shape(u - n, p - n, a - n, dp2, qp2)'
  BY <1>2, <1>4, <1>16, <1>17, <1>19, <1>22, <1>23, <1>25, <1>26, <1>27, <1>28, <1>29, <1>30
    DEF Sound, Shape
<1> QED
  BY <1>15, <1>31 DEF QueueInv

-----------------------------------------------------------------------------
(***************************************************************************)
(* The invariant holds for ever.                                           *)
(***************************************************************************)
LEMMA QueueInit == Init => QueueInv
<1> SUFFICES ASSUME Init PROVE QueueInv
  OBVIOUS
<1>1. NewState
  BY DEF Init, NewState
<1> QED
  BY <1>1, NewQueue

(* Every step keeps the invariant.                                         *)
LEMMA QueueStep == QueueInv /\ [Next]_vars => QueueInv'
<1> SUFFICES ASSUME QueueInv, [Next]_vars PROVE QueueInv'
  OBVIOUS
<1>1. Sound
  BY DEF QueueInv
<1>2. PICK u \in 0 .. Size, p \in 0 .. Size, a \in 0 .. Size : \E dp, qp : Shape(u, p, a, dp, qp)
  BY DEF QueueInv
<1>3. PICK dp, qp : Shape(u, p, a, dp, qp)
  BY <1>2
<1>4. CASE \E mine \in SUBSET Ids : \E i \in mine : DriverStage(i, mine)
  BY <1>1, <1>3, <1>4, StageKeeps
<1>5. CASE DriverPublish
  BY <1>1, <1>3, <1>5, PublishKeeps
<1>6. CASE DriverCollect
  BY <1>1, <1>3, <1>6, CollectKeeps
<1>7. CASE PopHead
  BY <1>1, <1>3, <1>7, PopHeadKeeps
<1>8. CASE PopNext
  BY <1>1, <1>3, <1>8, PopNextKeeps
<1>9. CASE PopReturn
  BY <1>1, <1>3, <1>9, PopReturnKeeps
<1>10. CASE \E c \in held : ReleaseStale(c) \/ Release(c)
  BY <1>1, <1>3, <1>10, ReleaseStaleKeeps, ReleaseKeeps
<1>11. CASE Revoke \/ Invalidate
  BY <1>1, <1>3, <1>11, RevokeKeeps
<1>12. CASE EnableQueue
  BY <1>1, <1>12, EnableKeeps
<1>13. CASE UNCHANGED vars
  BY <1>1, <1>3, <1>13, StutterKeeps
<1> QED
  BY <1>4, <1>5, <1>6, <1>7, <1>8, <1>9, <1>10, <1>11, <1>12, <1>13 DEF Next

(* The invariant always holds.                                             *)
LEMMA QueueInductive == Spec => []QueueInv
BY QueueInit, QueueStep, PTL DEF Spec

(* Type correctness: the four cursors of #advance, #release and the driver *)
(* stay in the ring, whatever its size, and #pop walks no chain longer     *)
(* than it.                                                                *)
THEOREM QueueTyped == Spec => []TypeOK
<1>1. QueueInv => TypeOK
  BY DEF QueueInv, Sound
<1> QED
  BY <1>1, QueueInductive, PTL

-----------------------------------------------------------------------------
(***************************************************************************)
(* The ring is consistent: the invariant implies each part of RingInv.     *)
(***************************************************************************)
(* The distances are those the cursors show.                               *)
LEMMA CountsAre ==
  ASSUME TypeOK, NEW u \in 0 .. Size, NEW p \in 0 .. Size, NEW a \in 0 .. Size,
         Cursors(u, p, a)
  PROVE  UsedCount = u /\ PoppedCount = p /\ AvailCount = a
<1>1. last_used_idx \in Slots /\ used_wrap_counter \in BOOLEAN
  BY DEF TypeOK
<1> QED
  BY <1>1, DistanceIs DEF Cursors, UsedCount, PoppedCount, AvailCount, Collected, WrapAt

(* What is read in the ring are descriptors.                               *)
LEMMA AtTyped ==
  ASSUME TypeOK, NEW d \in 0 .. Size
  PROVE  At(d).next \in BOOLEAN /\ At(d).id \in Ids
<1>1. Step(last_used_idx, d) \in Slots /\ ring \in [Slots -> Descriptor]
  BY StepIn DEF TypeOK
<1> QED
  BY <1>1 DEF At, Descriptor

(* A walk is of the first chain queued, which is the driver's.             *)
LEMMA WalkIs ==
  ASSUME Sound, popping # NotPopping
  PROVE  /\ popping.id # None /\ queued # <<>> /\ popping.id = queued[1]
         /\ queued[1] \in Ids /\ 1 \in 1 .. Len(queued)
         /\ popping.skip \in Nat \ {0} /\ Lengths[queued[1]] \in Nat
         /\ popping.skip <= Lengths[queued[1]]
         /\ popping.more <=> popping.skip < Lengths[queued[1]]
         /\ owned[queued[1]] # {} /\ Length(queued[1]) = Lengths[queued[1]]
<1>1. TypeOK /\ Walking
  BY DEF Sound
<1>2. popping.id # None
  BY <1>1 DEF Walking
<1>3. /\ queued # <<>> /\ popping.id = queued[1]
      /\ 0 < popping.skip /\ popping.skip <= Lengths[queued[1]]
      /\ popping.more <=> popping.skip < Lengths[queued[1]]
  BY <1>1, <1>2 DEF Walking
<1>4. queued \in Seq(Ids) /\ popping.skip \in 0 .. Size
  BY <1>1 DEF TypeOK
<1>5. queued[1] \in Ids /\ 1 \in 1 .. Len(queued)
  BY <1>3, <1>4
<1>6. /\ Lengths[queued[1]] \in 0 .. Size /\ Length(queued[1]) = Lengths[queued[1]]
      /\ Lengths[queued[1]] = 0 <=> owned[queued[1]] = {}
  BY <1>1, <1>5, OwnedFacts
<1> QED
  BY <1>2, <1>3, <1>4, <1>5, <1>6

(* The descriptors of a queued chain the device has yet to read.           *)
LEMMA QueuedAt ==
  ASSUME TypeOK, NEW p \in 0 .. Size, NEW a \in 0 .. Size, NEW qp, QueuedChains(p, a, qp),
         NEW k \in 1 .. Len(queued), NEW d \in p .. a - 1,
         qp[k] <= d, d < qp[k] + Lengths[queued[k]]
  PROVE  /\ At(d).id = queued[k]
         /\ At(d).next = (d < qp[k] + Lengths[queued[k]] - 1)
<1>1. /\ At(d).id = queued[k]
      /\ At(d).next <=> d < qp[k] + Lengths[queued[k]] - 1
  BY DEF QueuedChains
<1>2. At(d).next \in BOOLEAN
  <2>1. d \in 0 .. Size
    OBVIOUS
  <2> QED
    BY <2>1, AtTyped
<1> QED
  BY <1>1, <1>2

(* A pending head is where a queued chain starts, and not the walked one.  *)
LEMMA PendingAt ==
  ASSUME Sound, NEW u \in 0 .. Size, NEW p \in 0 .. Size, NEW a \in 0 .. Size,
         NEW dp, NEW qp, Shape(u, p, a, dp, qp), NEW d \in 0 .. Size - 1, IsPendingHead(d)
  PROVE  \E k \in 1 .. Len(queued) :
           /\ d = qp[k] /\ At(d).id = queued[k] /\ d \in p .. a - 1
           /\ popping # NotPopping => k # 1
<1>1. /\ TypeOK /\ Cursors(u, p, a) /\ QueuedChains(p, a, qp)
  BY DEF Sound, Shape
<1>2. PoppedCount = p /\ AvailCount = a
  BY <1>1, CountsAre
<1>3. d \in p .. a - 1 /\ (d = p => ~popping.more) /\ (d # p => ~At(d - 1).next)
  BY <1>2 DEF IsPendingHead
<1>4. /\ Layout(qp, queued, Lengths, p - popping.skip, a) /\ queued \in Seq(Ids)
      /\ Lengths \in Lens /\ popping.skip \in 0 .. Size /\ Len(queued) \in Nat
  BY <1>1, OwnedFacts DEF QueuedChains, TypeOK
<1>5. /\ qp[1] = p - popping.skip /\ qp[Len(queued) + 1] = a
      /\ \A k \in 1 .. Len(queued) : qp[k + 1] = qp[k] + Lengths[queued[k]]
      /\ \A k \in 1 .. Len(queued) + 1 : qp[k] \in Int
  BY <1>4 DEF Layout
<1>6. \A k \in 1 .. Len(queued) : Lengths[queued[k]] \in Nat \ {0}
  BY <1>4, LayoutEnds
<1>7. SUFFICES \E k \in 1 .. Len(queued) : d = qp[k] /\ (popping # NotPopping => k # 1)
  <2>1. PICK k \in 1 .. Len(queued) : d = qp[k] /\ (popping # NotPopping => k # 1)
    BY <1>7
  <2>2. PICK n : n = Lengths[queued[k]]
    OBVIOUS
  <2>3. n \in Nat \ {0}
    BY <1>6, <2>2
  <2>4. qp[k] <= d /\ d < qp[k] + n
    BY <2>1, <2>3
  <2>5. At(d).id = queued[k]
    BY <1>1, <1>3, <2>2, <2>4, QueuedAt
  <2> QED
    BY <1>3, <2>1, <2>5
<1>8. CASE d = p /\ popping = NotPopping
  <2>1. popping.skip = 0
    BY <1>8 DEF NotPopping
  <2>2. queued # <<>>
    BY <1>3, <1>4, <2>1, LayoutEnds
  <2>3. 1 \in 1 .. Len(queued)
    BY <1>4, <2>2
  <2> QED
    BY <1>5, <1>8, <2>1, <2>3
<1>9. CASE d = p /\ popping # NotPopping
  <2>1. /\ 1 \in 1 .. Len(queued) /\ Lengths[queued[1]] \in Nat /\ popping.skip = Lengths[queued[1]]
    BY <1>3, <1>9, WalkIs
  <2>2. qp[1 + 1] = qp[1] + Lengths[queued[1]]
    BY <1>5, <2>1
  <2>3. qp[2] = p
    BY <1>5, <2>1, <2>2
  <2>4. 2 # Len(queued) + 1
    BY <1>3, <1>5, <1>9, <2>3
  <2>5. 2 \in 1 .. Len(queued)
    BY <1>4, <2>1, <2>4
  <2> QED
    BY <1>9, <2>3, <2>5
<1>10. CASE d # p
  <2>1. d \in p - popping.skip .. a - 1
    BY <1>3, <1>4
  <2>2. PICK k \in 1 .. Len(queued) : qp[k] <= d /\ d < qp[k + 1]
    BY <1>4, <2>1 DEF Layout
  <2>3. PICK n : n = Lengths[queued[k]]
    OBVIOUS
  <2>4. n \in Nat \ {0} /\ qp[k] \in Int /\ d < qp[k] + n
    BY <1>4, <1>5, <1>6, <2>2, <2>3
  <2>5. qp[k] = d
    <3> SUFFICES ASSUME qp[k] # d PROVE FALSE
      OBVIOUS
    <3>1. d - 1 \in p .. a - 1 /\ qp[k] <= d - 1 /\ d - 1 < qp[k] + n /\ d - 1 < qp[k] + n - 1
      BY <1>3, <1>10, <2>2, <2>4
    <3>2. At(d - 1).next = (d - 1 < qp[k] + n - 1)
      BY <1>1, <2>3, <3>1, QueuedAt
    <3> QED
      BY <1>3, <1>10, <3>1, <3>2
  <2>6. k # 1
    BY <1>3, <1>4, <1>5, <1>10, <2>5
  <2> QED
    BY <2>5, <2>6
<1> QED
  BY <1>8, <1>9, <1>10

(* A used head is where a released chain starts.                           *)
LEMMA UsedAt ==
  ASSUME Sound, NEW u \in 0 .. Size, NEW p \in 0 .. Size, NEW a \in 0 .. Size,
         NEW dp, NEW qp, Shape(u, p, a, dp, qp), NEW d \in 0 .. Size - 1, IsUsedHead(d)
  PROVE  \E k \in 1 .. Len(done) : d = dp[k] /\ At(d).id = done[k] /\ d \in 0 .. u - 1
<1>1. /\ TypeOK /\ Cursors(u, p, a) /\ DoneChains(u, dp)
  BY DEF Sound, Shape
<1>2. UsedCount = u
  BY <1>1, CountsAre
<1>3. d \in 0 .. u - 1 /\ Spent(d)
  BY <1>2 DEF IsUsedHead, Spent
<1> QED
  BY <1>1, <1>3 DEF DoneChains

(* The chains the driver made and the device has yet to take are whole.    *)
LEMMA PendingWhole ==
  ASSUME Sound, NEW u \in 0 .. Size, NEW p \in 0 .. Size, NEW a \in 0 .. Size,
         NEW dp, NEW qp, Shape(u, p, a, dp, qp)
  PROVE  PendingChains
<1>1. /\ TypeOK /\ Cursors(u, p, a) /\ QueuedChains(p, a, qp) /\ StagedBody(a)
  BY DEF Sound, Shape
<1>2. PoppedCount = p /\ AvailCount = a
  BY <1>1, CountsAre
<1>3. /\ Layout(qp, queued, Lengths, p - popping.skip, a) /\ queued \in Seq(Ids)
      /\ Lengths \in Lens /\ popping.skip \in 0 .. Size /\ Len(queued) \in Nat
  BY <1>1, OwnedFacts DEF QueuedChains, TypeOK
<1>4. \A k \in 1 .. Len(queued) :
        /\ queued[k] \in Ids /\ Lengths[queued[k]] \in Nat \ {0}
        /\ qp[k] \in Int /\ qp[k] + Lengths[queued[k]] <= a
  <2>1. \A k \in 1 .. Len(queued) : k \in 1 .. Len(queued) + 1
    BY <1>3
  <2>2. \A k \in 1 .. Len(queued) : qp[k] \in Int
    BY <1>3, <2>1 DEF Layout
  <2> QED
    BY <1>3, <2>2, LayoutEnds
<1>5. \A i \in Ids : Length(i) = Lengths[i] /\ (Lengths[i] = 0 <=> owned[i] = {})
  BY <1>1, OwnedFacts
<1>6. ASSUME NEW d \in 0 .. Size - 1, IsPendingHead(d)
      PROVE  /\ owned[At(d).id] # {} /\ d + Length(At(d).id) <= a
             /\ ChainFrom(d, At(d).id, Length(At(d).id))
  <2>1. PICK k \in 1 .. Len(queued) : d = qp[k] /\ At(d).id = queued[k] /\ d \in p .. a - 1
    BY <1>6, PendingAt
  <2>2. PICK n : n = Lengths[queued[k]]
    OBVIOUS
  <2>3. n \in Nat \ {0} /\ d + n <= a /\ Length(queued[k]) = n /\ owned[queued[k]] # {}
    BY <1>4, <1>5, <2>1, <2>2
  <2>4. ASSUME NEW j \in 0 .. n - 1
        PROVE  At(d + j).next = (j < n - 1) /\ At(d + j).id = queued[k]
    <3>1. d + j \in p .. a - 1 /\ qp[k] <= d + j /\ d + j < qp[k] + n
          /\ (d + j < qp[k] + n - 1) = (j < n - 1)
      BY <2>1, <2>3, SMTT(60)
    <3>2. At(d + j).id = queued[k] /\ At(d + j).next = (d + j < qp[k] + n - 1)
      BY <1>1, <2>2, <3>1, QueuedAt
    <3> QED
      BY <3>1, <3>2
  <2> QED
    BY <2>1, <2>3, <2>4 DEF ChainFrom
<1>7. ASSUME staged # None
      PROVE  /\ owned[staged] # {}
             /\ \A j \in 1 .. Length(staged) - 1 :
                  /\ At(a + j).next = (j < Length(staged) - 1)
                  /\ At(a + j).id = staged
  <2>1. staged \in Ids /\ owned[staged] # {}
    BY <1>1, <1>7 DEF TypeOK, StagedBody
  <2>2. PICK n : n = Lengths[staged]
    OBVIOUS
  <2>3. n \in Nat /\ Length(staged) = n /\ StagedLength = n
    BY <1>3, <1>5, <1>7, <2>1, <2>2 DEF Lens, StagedLength
  <2>4. a + n <= Size
    BY <1>1, <2>3, OwnedFacts DEF Cursors
  <2>5. ASSUME NEW j \in 1 .. n - 1
        PROVE  At(a + j).next = (j < n - 1) /\ At(a + j).id = staged
    <3>1. /\ a + j \in 0 .. Size - 1 /\ a + j \in 0 .. Size /\ a < a + j /\ a + j < a + n
          /\ a + j < a + n - 1 <=> j < n - 1
      BY <2>3, <2>4
    <3>2. At(a + j).id = staged /\ (At(a + j).next <=> a + j < a + n - 1)
      BY <1>1, <1>7, <2>2, <3>1 DEF StagedBody
    <3>3. At(a + j).next \in BOOLEAN
      BY <1>1, <3>1, AtTyped
    <3> QED
      BY <3>1, <3>2, <3>3
  <2> QED
    BY <2>1, <2>3, <2>5
<1>8. ASSUME popping # NotPopping, NEW n, n = Length(popping.id) - popping.skip
      PROVE  /\ popping.id # None /\ owned[popping.id] # {} /\ popping.skip > 0
             /\ p + n <= a /\ (n > 0 <=> popping.more) /\ n >= 0
             /\ ChainFrom(p, popping.id, n)
  <2>1. /\ popping.id # None /\ popping.id = queued[1] /\ 1 \in 1 .. Len(queued)
        /\ popping.skip \in Nat \ {0} /\ popping.skip <= Lengths[queued[1]]
        /\ popping.more <=> popping.skip < Lengths[queued[1]]
        /\ owned[queued[1]] # {} /\ Length(queued[1]) = Lengths[queued[1]]
    BY <1>8, WalkIs
  <2>2. PICK m : m = Lengths[queued[1]]
    OBVIOUS
  <2>3. m \in Nat \ {0} /\ qp[1] \in Int /\ qp[1] + m <= a
    BY <1>4, <2>1, <2>2
  <2>4. qp[1] = p - popping.skip
    BY <1>3 DEF Layout
  <2>5. n = m - popping.skip /\ n \in Nat /\ p + n <= a /\ (n > 0 <=> popping.skip < m)
    <3>1. Length(popping.id) = m
      BY <2>1, <2>2
    <3>2. popping.skip \in Nat \ {0} /\ popping.skip <= m /\ n = m - popping.skip
      BY <1>8, <2>1, <2>2, <3>1
    <3> QED
      BY <2>3, <2>4, <3>2
  <2>6. ASSUME NEW j \in 0 .. n - 1
        PROVE  At(p + j).next = (j < n - 1) /\ At(p + j).id = queued[1]
    <3>1. p + j \in p .. a - 1 /\ qp[1] <= p + j /\ p + j < qp[1] + m
          /\ (p + j < qp[1] + m - 1) = (j < n - 1)
      <4>1. PICK s : s = popping.skip
        OBVIOUS
      <4>2. s \in Nat \ {0} /\ qp[1] = p - s /\ n = m - s /\ n \in Nat /\ p + n <= a
        BY <2>1, <2>4, <2>5, <4>1
      <4>3. qp[1] <= p + j /\ qp[1] + m = p + n
        BY <2>3, <4>2
      <4>4. j \in Nat /\ j <= n - 1
        BY <4>2
      <4>5. (p + j < qp[1] + m - 1) = (j < n - 1)
        BY <2>3, <4>2, <4>3, <4>4
      <4> QED
        BY <4>2, <4>3, <4>4, <4>5
    <3>2. At(p + j).id = queued[1] /\ At(p + j).next = (p + j < qp[1] + m - 1)
      BY <1>1, <2>1, <2>2, <3>1, QueuedAt
    <3> QED
      BY <3>1, <3>2
  <2> QED
    BY <2>1, <2>2, <2>5, <2>6, SMTT(60) DEF ChainFrom
<1> QED
  BY <1>2, <1>6, <1>7, <1>8 DEF PendingChains

(* The used elements lead from one to the next.                            *)
LEMMA UsedLinked ==
  ASSUME Sound, NEW u \in 0 .. Size, NEW p \in 0 .. Size, NEW a \in 0 .. Size,
         NEW dp, NEW qp, Shape(u, p, a, dp, qp)
  PROVE  UsedElements
<1>1. /\ TypeOK /\ Cursors(u, p, a) /\ DoneChains(u, dp)
  BY DEF Sound, Shape
<1>2. UsedCount = u
  BY <1>1, CountsAre
<1>3. /\ Layout(dp, done, Lengths, 0, u) /\ done \in Seq(Ids)
      /\ Lengths \in Lens /\ Len(done) \in Nat
  BY <1>1, OwnedFacts DEF DoneChains, TypeOK
<1>4. \A k \in 1 .. Len(done) : dp[k] < u => IsUsedHead(dp[k])
  BY <1>1, <1>2 DEF DoneChains, IsUsedHead, Spent
<1>5. ASSUME u > 0 PROVE IsUsedHead(0)
  <2>1. done # <<>>
    BY <1>3, <1>5, LayoutEnds
  <2>2. dp[1] = 0 /\ 1 \in 1 .. Len(done)
    BY <1>3, <2>1 DEF Layout
  <2> QED
    BY <1>4, <1>5, <2>2
<1>6. ASSUME NEW d \in 0 .. Size - 1, IsUsedHead(d), NEW n, n = Length(At(d).id)
      PROVE  n > 0 /\ d + n <= u /\ (d + n < u => IsUsedHead(d + n))
  <2>1. PICK k \in 1 .. Len(done) : d = dp[k] /\ At(d).id = done[k]
    BY <1>6, UsedAt
  <2>2. /\ done[k] \in Ids /\ Lengths[done[k]] \in Nat \ {0} /\ dp[k] + Lengths[done[k]] <= u
    BY <1>3, LayoutEnds
  <2>3. n = Lengths[done[k]]
    BY <1>1, <1>6, <2>1, <2>2, OwnedFacts
  <2>4. dp[k + 1] = d + n
    BY <1>3, <2>1, <2>3 DEF Layout
  <2>5. ASSUME d + n < u PROVE IsUsedHead(d + n)
    <3>1. k + 1 # Len(done) + 1
      BY <1>3, <2>4, <2>5 DEF Layout
    <3>2. k + 1 \in 1 .. Len(done)
      BY <1>3, <3>1
    <3> QED
      BY <1>4, <2>4, <2>5, <3>2
  <2> QED
    BY <2>1, <2>2, <2>3, <2>5
<1> QED
  BY <1>2, <1>5, <1>6 DEF UsedElements

(* No id is in two places.                                                 *)
LEMMA OnePlace ==
  ASSUME Sound, NEW u \in 0 .. Size, NEW p \in 0 .. Size, NEW a \in 0 .. Size,
         NEW dp, NEW qp, Shape(u, p, a, dp, qp)
  PROVE  OnePlaceEach
<1>1. TypeOK /\ OwnedSound /\ Apart /\ Walking
  BY DEF Sound
<1>2. None \notin Ids /\ HeldIds \in SUBSET Ids /\ staged \in Ids \cup {None}
      /\ queued \in Seq(Ids) /\ done \in Seq(Ids)
  BY <1>1, HeldTyped DEF None, Ids, TypeOK
<1>3. /\ \A k \in 1 .. Len(queued) : queued[k] \in Ids
      /\ \A k \in 1 .. Len(done) : done[k] \in Ids
  BY <1>2
<1>4. \/ popping = NotPopping /\ popping.id = None
      \/ popping # NotPopping /\ 1 \in 1 .. Len(queued) /\ popping.id = queued[1]
  BY WalkIs DEF NotPopping
<1>5. ASSUME NEW d \in 0 .. Size - 1, IsPendingHead(d)
      PROVE  \E k \in 1 .. Len(queued) :
               d = qp[k] /\ At(d).id = queued[k] /\ queued[k] # popping.id
  <2>1. PICK k \in 1 .. Len(queued) : d = qp[k] /\ At(d).id = queued[k]
                                      /\ (popping # NotPopping => k # 1)
    BY <1>5, PendingAt
  <2>2. queued[k] # popping.id
    BY <1>1, <1>2, <1>3, <1>4, <2>1 DEF Apart
  <2> QED
    BY <2>1, <2>2
<1>6. ASSUME NEW d \in 0 .. Size - 1, IsUsedHead(d)
      PROVE  \E k \in 1 .. Len(done) : d = dp[k] /\ At(d).id = done[k] /\ done[k] # popping.id
  <2>1. PICK k \in 1 .. Len(done) : d = dp[k] /\ At(d).id = done[k]
    BY <1>6, UsedAt
  <2>2. done[k] # popping.id
    BY <1>1, <1>2, <1>3, <1>4, SMTT(60) DEF Apart
  <2> QED
    BY <2>1, <2>2
<1>7. ASSUME NEW d \in 0 .. Size - 1, NEW e \in 0 .. Size - 1, d # e,
             IsPendingHead(d) \/ IsUsedHead(d), IsPendingHead(e) \/ IsUsedHead(e)
      PROVE  At(d).id # At(e).id
  <2>1. CASE IsPendingHead(d) /\ IsPendingHead(e)
    BY <1>1, <1>5, <1>7, <2>1 DEF Apart
  <2>2. CASE IsPendingHead(d) /\ IsUsedHead(e)
    BY <1>1, <1>5, <1>6, <1>7, <2>2 DEF Apart
  <2>3. CASE IsUsedHead(d) /\ IsPendingHead(e)
    BY <1>1, <1>5, <1>6, <1>7, <2>3 DEF Apart
  <2>4. CASE IsUsedHead(d) /\ IsUsedHead(e)
    BY <1>1, <1>6, <1>7, <2>4 DEF Apart
  <2> QED
    BY <1>7, <2>1, <2>2, <2>3, <2>4
<1>8. ASSUME NEW d \in 0 .. Size - 1, IsPendingHead(d) \/ IsUsedHead(d)
      PROVE  At(d).id \notin HeldIds \cup {staged, popping.id}
  <2>1. CASE IsPendingHead(d)
    BY <1>1, <1>5, <2>1 DEF Apart
  <2>2. CASE IsUsedHead(d)
    BY <1>1, <1>6, <2>2 DEF Apart
  <2> QED
    BY <1>8, <2>1, <2>2
<1>9. staged \notin HeldIds \cup {popping.id} \/ staged = None
  BY <1>1, <1>2, <1>4 DEF Apart
<1>10. popping.id \notin HeldIds
  BY <1>1, <1>2, <1>4 DEF Apart
<1>11. \A i, j \in Ids : i # j => owned[i] \cap owned[j] = {}
  BY <1>1 DEF OwnedSound
<1> QED
  BY <1>7, <1>8, <1>9, <1>10, <1>11 DEF OnePlaceEach

(* The invariant says more than that the ring is consistent.               *)
LEMMA RingFollows == QueueInv => RingConsistent
<1> SUFFICES ASSUME QueueInv PROVE RingConsistent
  OBVIOUS
<1>1. Sound
  BY DEF QueueInv
<1>2. PICK u \in 0 .. Size, p \in 0 .. Size, a \in 0 .. Size : \E dp, qp : Shape(u, p, a, dp, qp)
  BY DEF QueueInv
<1>3. PICK dp, qp : Shape(u, p, a, dp, qp)
  BY <1>2
<1>4. /\ TypeOK /\ errors = {} /\ HeldSound /\ Cursors(u, p, a) /\ Flags(u, a) /\ HeldCount(u, p)
  BY <1>1, <1>3 DEF Sound, Shape
<1>5. UsedCount = u /\ PoppedCount = p /\ AvailCount = a
  BY <1>4, CountsAre
<1>6. CursorsInOrder
  BY <1>4, <1>5 DEF Cursors, CursorsInOrder, Taken
<1>7. FlagsTellTheOwner
  <2> SUFFICES ASSUME NEW d \in 0 .. Size - 1
               PROVE  /\ (At(d).avail = WrapAt(d)) <=>
                           (d < a \/ (d > a /\ d < a + StagedLength))
                      /\ d >= u /\ At(d).avail = WrapAt(d) => At(d).used # At(d).avail
    BY <1>5 DEF FlagsTellTheOwner
  <2>1. /\ At(d).avail = WrapAt(d) <=> d < a \/ (a < d /\ d < a + StagedLength)
        /\ u <= d /\ At(d).avail = WrapAt(d) => ~(At(d).avail = At(d).used)
    BY <1>4 DEF Flags, Mine, Spent
  <2> QED
    BY <2>1
<1>8. HeldAccounted
  <2>1. \A c \in HeldChains : owned[c.id] # {} /\ c.skip = Length(c.id)
    <3>1. \A c \in HeldChains : c.id \in HeldIds
      BY DEF HeldIds
    <3>2. \A c \in HeldChains : Length(c.id) = Lengths[c.id]
      BY <1>4, <3>1, HeldTyped, OwnedFacts
    <3> QED
      BY <1>4, <3>2 DEF HeldSound
  <2> QED
    BY <1>4, <1>5, <2>1 DEF HeldAccounted, HeldSound, HeldCount, HeldTaken
<1>9. PendingChains /\ UsedElements /\ OnePlaceEach
  BY <1>1, <1>3, PendingWhole, UsedLinked, OnePlace
<1> QED
  BY <1>4, <1>6, <1>7, <1>8, <1>9 DEF RingConsistent, RingInv

(* While its queue is valid the ring makes sense to both sides, whatever   *)
(* its size, wherever driver and device are and whenever the queue was     *)
(* revoked: #release never throws "ring full", #pop never throws "no next  *)
(* descriptor is available", and the driver gets no id that is not a chain *)
(* of its own.                                                             *)
THEOREM RingIsConsistent == Spec => []RingConsistent
BY QueueInductive, RingFollows, PTL

-----------------------------------------------------------------------------
(***************************************************************************)
(* The ring implements the queue of requests.                              *)
(***************************************************************************)
(* What the driver waits for: its chains but the one it is writing.        *)
Waiting == {i \in Ids : owned[i] # {} /\ i # staged}

(* Who is waited for depends on the driver alone.                          *)
LEMMA WaitingKept ==
  ASSUME UNCHANGED <<owned, staged>>
  PROVE  Waiting' = Waiting
BY DEF Waiting

(* What is taken depends on the chains held alone.                         *)
LEMMA HeldKept ==
  ASSUME UNCHANGED <<held, generation>>
  PROVE  HeldIds' = HeldIds
BY DEF HeldIds, HeldChains

(* A chain becomes visible: a request is submitted.                        *)
LEMMA PublishSubmits ==
  ASSUME Sound, NEW a, StagedBody(a), DriverPublish
  PROVE  Queue!Next
<1>1. /\ staged \in Ids /\ owned[staged] # {} /\ None \notin Ids
  BY DEF DriverPublish, Sound, TypeOK, StagedBody, None, Ids
<1>2. /\ owned' = owned /\ staged' = None /\ queued' = Append(queued, staged)
      /\ is_current' = is_current /\ held' = held /\ generation' = generation /\ done' = done
  BY DEF DriverPublish
<1>3. staged \notin Waiting /\ Waiting' = Waiting \cup {staged}
  BY <1>1, <1>2 DEF Waiting
<1>4. HeldIds' = HeldIds
  BY <1>2, HeldKept
<1>5. PICK r \in Ids : r = staged
  BY <1>1
<1>6. Queue!Submit(r)
  BY <1>2, <1>3, <1>4, <1>5 DEF Queue!Submit, Waiting
<1> QED
  BY <1>6 DEF Queue!Next

(* The driver takes back the chain completed first.                        *)
LEMMA CollectCollects ==
  ASSUME Sound, NEW u \in 0 .. Size, NEW p \in 0 .. Size, NEW a \in 0 .. Size,
         NEW dp, NEW qp, Shape(u, p, a, dp, qp), DriverCollect
  PROVE  Queue!Next
<1>1. done # <<>> /\ done[1] \in Ids /\ ring[last_used_idx].id = done[1]
  BY CollectFinds DEF DriverCollect
<1>2. /\ owned' = [owned EXCEPT ![done[1]] = {}] /\ done' = Tail(done)
      /\ staged' = staged /\ is_current' = is_current /\ held' = held
      /\ generation' = generation /\ queued' = queued
  BY <1>1 DEF DriverCollect
<1>3. owned \in [Ids -> SUBSET Ids]
  BY DEF Sound, TypeOK
<1>4. Waiting' = Waiting \ {Head(done)}
  <2>1. Head(done) = done[1]
    OBVIOUS
  <2> QED
    BY <1>1, <1>2, <1>3, <2>1 DEF Waiting
<1>5. HeldIds' = HeldIds
  BY <1>2, HeldKept
<1>6. Queue!Collect
  BY <1>1, <1>2, <1>4, <1>5 DEF Queue!Collect, Waiting
<1> QED
  BY <1>6 DEF Queue!Next

(* The chain #pop returns is the one submitted first; a revoked queue's is *)
(* dropped.                                                                *)
LEMMA ReturnTakes ==
  ASSUME Sound, PopReturn
  PROVE  Queue!Next
<1>1. queued # <<>> /\ popping.id = queued[1] /\ Head(queued) = queued[1]
  BY WalkIs DEF PopReturn
<1>2. /\ queued' = Tail(queued) /\ owned' = owned /\ staged' = staged
      /\ is_current' = is_current /\ generation' = generation /\ done' = done
  BY <1>1 DEF PopReturn, driverVars
<1>3. Waiting' = Waiting
  BY <1>2, WaitingKept
<1>4. is_current \in BOOLEAN
  BY DEF Sound, TypeOK
<1>5. CASE is_current
  <2>1. PICK c : c = [id |-> popping.id, skip |-> popping.skip, gen |-> generation]
    OBVIOUS
  <2>2. held' = held \cup {c} /\ c.gen = generation /\ c.id = Head(queued)
    BY <1>1, <1>5, <2>1 DEF PopReturn
  <2>3. HeldChains' = HeldChains \cup {c}
    BY <1>2, <2>2 DEF HeldChains
  <2>4. HeldIds' = HeldIds \cup {Head(queued)}
    BY <2>2, <2>3 DEF HeldIds
  <2>5. Queue!Take
    BY <1>1, <1>2, <1>3, <1>5, <2>4 DEF Queue!Take, Waiting
  <2> QED
    BY <2>5 DEF Queue!Next
<1>6. CASE ~is_current
  <2>1. held' = held
    BY <1>6 DEF PopReturn
  <2>2. HeldIds' = HeldIds
    BY <1>2, <2>1, HeldKept
  <2>3. Queue!Abandon
    BY <1>1, <1>2, <1>3, <1>6, <2>2 DEF Queue!Abandon, Waiting
  <2> QED
    BY <2>3 DEF Queue!Next
<1> QED
  BY <1>4, <1>5, <1>6

(* A chain of an earlier queue is none of this one's, and one of a revoked *)
(* queue is dropped.                                                       *)
LEMMA StaleAbandons ==
  ASSUME Sound, NEW c \in held, ReleaseStale(c)
  PROVE  Queue!Next \/ UNCHANGED Queue!vars
<1>1. /\ held' = held \ {c} /\ Stale(c)
      /\ owned' = owned /\ staged' = staged /\ is_current' = is_current
      /\ generation' = generation /\ queued' = queued /\ done' = done
  BY DEF ReleaseStale, driverVars
<1>2. HeldSound /\ Apart /\ Life
  BY DEF Sound
<1>3. Waiting' = Waiting
  BY <1>1, WaitingKept
<1>4. /\ c \in HeldChains => HeldIds' = HeldIds \ {c.id} /\ c.id \in HeldIds
      /\ c \notin HeldChains => HeldIds' = HeldIds
  BY <1>1, <1>2, HeldLess
<1>5. CASE c \in HeldChains
  <2>1. ~is_current
    BY <1>1, <1>2, <1>5 DEF HeldChains, Stale, Life
  <2>2. Queue!Abandon
    BY <1>1, <1>3, <1>4, <1>5, <2>1 DEF Queue!Abandon, Waiting
  <2> QED
    BY <2>2 DEF Queue!Next
<1>6. CASE c \notin HeldChains
  <2>1. UNCHANGED Queue!vars
    BY <1>1, <1>3, <1>4, <1>6 DEF Queue!vars, Waiting
  <2> QED
    BY <2>1
<1> QED
  BY <1>5, <1>6

(* A release the queue accepts completes a request the device has taken.   *)
LEMMA ReleaseCompletes ==
  ASSUME Sound, NEW u \in 0 .. Size, NEW p \in 0 .. Size, NEW a \in 0 .. Size,
         NEW dp, NEW qp, Shape(u, p, a, dp, qp), NEW c \in held, Release(c)
  PROVE  Queue!Next
<1>1. ~Stale(c)
  BY DEF Release
<1>2. c \in HeldChains /\ c.id \in HeldIds /\ c.id \in Ids /\ is_current /\ CanRelease
  BY <1>1, ReleaseFinds
<1>3. /\ held' = held \ {c} /\ done' = Append(done, c.id)
      /\ owned' = owned /\ staged' = staged /\ is_current' = is_current
      /\ generation' = generation /\ queued' = queued
  BY <1>2 DEF Release, driverVars
<1>4. HeldSound /\ Apart
  BY DEF Sound
<1>5. HeldIds' = HeldIds \ {c.id}
  BY <1>2, <1>3, <1>4, HeldLess
<1>6. Waiting' = Waiting
  BY <1>3, WaitingKept
<1>7. Queue!Complete(c.id)
  BY <1>2, <1>3, <1>5, <1>6 DEF Queue!Complete, Waiting
<1> QED
  BY <1>2, <1>7 DEF Queue!Next

(* Setting the queue up again starts from nothing.                         *)
LEMMA EnableRestarts ==
  ASSUME Sound, EnableQueue
  PROVE  Queue!Next
<1>1. ~is_current
  BY DEF EnableQueue, Sound, Life
<1>2. /\ is_current' = TRUE /\ owned' = [i \in Ids |-> {}] /\ queued' = <<>> /\ done' = <<>>
      /\ generation' = generation + 1 /\ held' = held
  BY DEF EnableQueue
<1>3. Waiting' = {}
  BY <1>2 DEF Waiting
<1>4. HeldIds' = {}
  <2>1. \A c \in held : c.gen \in Nat /\ c.gen <= generation
    BY DEF Sound, TypeOK, ChainType, HeldSound
  <2>2. generation \in Nat
    BY DEF Sound, TypeOK
  <2>3. HeldChains' = {}
    BY <1>2, <2>1, <2>2 DEF HeldChains
  <2> QED
    BY <2>3 DEF HeldIds
<1>5. Queue!Restart
  BY <1>1, <1>2, <1>3, <1>4 DEF Queue!Restart, Waiting
<1> QED
  BY <1>5 DEF Queue!Next

(* Writing a chain's body, reading a descriptor and invalidating change    *)
(* nothing the queue of requests knows of.                                 *)
LEMMA StageHides ==
  ASSUME Sound, NEW u \in 0 .. Size, NEW p \in 0 .. Size, NEW a \in 0 .. Size,
         NEW dp, NEW qp, Shape(u, p, a, dp, qp),
         NEW mine \in SUBSET Ids, NEW i \in mine, DriverStage(i, mine)
  PROVE  UNCHANGED Queue!vars
<1>1. a + StagedLength = Cardinality(Taken)
  BY DEF Shape, Cursors
<1>2. /\ owned[i] = {} /\ i \in Ids /\ staged = None /\ staged' = i
      /\ owned' = [owned EXCEPT ![i] = mine]
  BY <1>1, StageFits
<1>3. owned \in [Ids -> SUBSET Ids] /\ None \notin Ids
  BY DEF Sound, TypeOK, None, Ids
<1>4. Waiting' = Waiting
  BY <1>2, <1>3 DEF Waiting
<1>5. /\ is_current' = is_current /\ queued' = queued /\ done' = done
      /\ held' = held /\ generation' = generation
  BY DEF DriverStage
<1>6. HeldIds' = HeldIds
  BY <1>5, HeldKept
<1> QED
  BY <1>4, <1>5, <1>6 DEF Queue!vars, Waiting

(* Walking a chain and invalidating are stuttering steps.                  *)
LEMMA WalkHides ==
  ASSUME PopHead \/ PopNext \/ Invalidate \/ UNCHANGED vars
  PROVE  UNCHANGED Queue!vars
<1>1. /\ is_current' = is_current /\ queued' = queued /\ done' = done
      /\ held' = held /\ generation' = generation /\ owned' = owned /\ staged' = staged
  BY DEF PopHead, PopNext, Invalidate, vars, driverVars
<1>2. HeldIds' = HeldIds /\ Waiting' = Waiting
  BY <1>1, HeldKept, WaitingKept
<1> QED
  BY <1>1, <1>2 DEF Queue!vars, Waiting

(* Revoking is revoking.                                                   *)
LEMMA RevokeRevokes ==
  ASSUME Revoke
  PROVE  Queue!Next
<1>1. /\ is_current /\ is_current' = FALSE /\ queued' = queued /\ done' = done
      /\ held' = held /\ generation' = generation /\ owned' = owned /\ staged' = staged
  BY DEF Revoke, driverVars
<1>2. HeldIds' = HeldIds /\ Waiting' = Waiting
  BY <1>1, HeldKept, WaitingKept
<1>3. Queue!Revoke
  BY <1>1, <1>2 DEF Queue!Revoke, Waiting
<1> QED
  BY <1>3 DEF Queue!Next

(* Every step of the ring is a step of the queue of requests, or none.     *)
LEMMA StepIsQueueStep == QueueInv /\ [Next]_vars => [Queue!Next]_Queue!vars
<1> SUFFICES ASSUME QueueInv, [Next]_vars PROVE Queue!Next \/ UNCHANGED Queue!vars
  OBVIOUS
<1>1. Sound
  BY DEF QueueInv
<1>2. PICK u \in 0 .. Size, p \in 0 .. Size, a \in 0 .. Size : \E dp, qp : Shape(u, p, a, dp, qp)
  BY DEF QueueInv
<1>3. PICK dp, qp : Shape(u, p, a, dp, qp)
  BY <1>2
<1>4. CASE \E mine \in SUBSET Ids : \E i \in mine : DriverStage(i, mine)
  BY <1>1, <1>3, <1>4, StageHides
<1>5. CASE DriverPublish
  <2>1. StagedBody(a)
    BY <1>3 DEF Shape
  <2> QED
    BY <1>1, <1>5, <2>1, PublishSubmits
<1>6. CASE DriverCollect
  BY <1>1, <1>3, <1>6, CollectCollects
<1>7. CASE PopHead \/ PopNext \/ Invalidate \/ UNCHANGED vars
  BY <1>7, WalkHides
<1>8. CASE PopReturn
  BY <1>1, <1>8, ReturnTakes
<1>9. CASE \E c \in held : ReleaseStale(c) \/ Release(c)
  BY <1>1, <1>3, <1>9, StaleAbandons, ReleaseCompletes
<1>10. CASE Revoke
  BY <1>10, RevokeRevokes
<1>11. CASE EnableQueue
  BY <1>1, <1>11, EnableRestarts
<1> QED
  BY <1>4, <1>5, <1>6, <1>7, <1>8, <1>9, <1>10, <1>11 DEF Next

(* The ring implements RequestQueue: #pop hands over the chains in the     *)
(* order the driver made them visible, #release completes each chain taken *)
(* at most once and none after the queue was revoked, and the driver gets  *)
(* exactly the completed ones, in that order.                              *)
THEOREM QueueIsRequestQueue == Spec => IsRequestQueue
<1>1. Init => Queue!Init
  <2> SUFFICES ASSUME Init PROVE Queue!Init
    OBVIOUS
  <2>1. HeldIds = {}
    BY DEF Init, HeldIds, HeldChains
  <2>2. Waiting = {}
    BY DEF Init, Waiting
  <2> QED
    BY <2>1, <2>2 DEF Init, Queue!Init, Waiting
<1> QED
  BY <1>1, QueueInductive, StepIsQueueStep, PTL DEF Spec, IsRequestQueue, Queue!Spec
=============================================================================
