------------------------- MODULE GuestSessionProofs -------------------------
(***************************************************************************)
(* Proofs about GuestSession, for any finite set of exchanges and any      *)
(* number of lanes: the types, that the pool is sound, and that it         *)
(* implements LanePool.  The inductive invariant PoolInv adds to PoolSound *)
(* what #release and #die rely on: whoever is in the queue is waiting, and *)
(* once; a dead session has neither idle lanes nor waiters.                *)
(***************************************************************************)
EXTENDS GuestSession, FiniteSetTheorems, TLAPS

USE LanesAssumption, ExchangesAssumption

(* The queue of #acquire is the exchanges that wait, each in it once.      *)
QueueSound ==
  /\ \A i \in 1 .. Len(waiters) : state[waiters[i]] = "waiting"
  /\ \A i, j \in 1 .. Len(waiters) : i # j => waiters[i] # waiters[j]

(* #die leaves nothing in the pool, and nothing comes back to it.          *)
DeadIsEmpty == dead => free = <<>> /\ waiters = <<>>

(* The inductive invariant.                                                *)
PoolInv ==
  /\ TypeOK /\ QueueSound /\ DeadIsEmpty
  /\ LanesCounted /\ LanesSerial /\ NoLeakedLane

-----------------------------------------------------------------------------
(***************************************************************************)
(* Sequences and finite sets.                                              *)
(***************************************************************************)
(* A lane is taken from the end of the stack.                              *)
LEMMA Popped ==
  ASSUME NEW S, NEW s \in Seq(S), s # <<>>
  PROVE  LET t == SubSeq(s, 1, Len(s) - 1) IN
         /\ Len(s) \in 1 .. Len(s) /\ s[Len(s)] \in S
         /\ t \in Seq(S) /\ Len(t) = Len(s) - 1
         /\ \A i \in 1 .. Len(t) : t[i] = s[i]
<1> DEFINE n == Len(s) - 1
<1>1. n \in Nat /\ Len(s) \in 1 .. Len(s) /\ s[Len(s)] \in S
  OBVIOUS
<1>2. SubSeq(s, 1, n) = [i \in 1 .. n |-> s[i]]
  BY <1>1
<1>3. \A i \in 1 .. n : s[i] \in S
  BY <1>1
<1> HIDE DEF n
<1>4. [i \in 1 .. n |-> s[i]] \in Seq(S) /\ Len([i \in 1 .. n |-> s[i]]) = n
  BY <1>1, <1>3
<1> QED
  BY <1>1, <1>2, <1>4 DEF n

(* A lane is put back at the end, and a waiter comes last.                 *)
LEMMA Pushed ==
  ASSUME NEW S, NEW s \in Seq(S), NEW x \in S
  PROVE  /\ Append(s, x) \in Seq(S) /\ Len(Append(s, x)) = Len(s) + 1
         /\ \A i \in 1 .. Len(s) : Append(s, x)[i] = s[i]
         /\ Append(s, x)[Len(s) + 1] = x
  OBVIOUS

(* The oldest waiter is served first.                                      *)
LEMMA Shifted ==
  ASSUME NEW S, NEW s \in Seq(S), s # <<>>
  PROVE  /\ Head(s) = s[1] /\ s[1] \in S /\ Len(s) >= 1
         /\ Tail(s) \in Seq(S) /\ Len(Tail(s)) = Len(s) - 1
         /\ \A i \in 1 .. Len(Tail(s)) : Tail(s)[i] = s[i + 1]
  OBVIOUS

(* The set of users is finite, and counted one by one.                     *)
LEMMA UsersCounted ==
  /\ IsFiniteSet(Users) /\ Cardinality(Users) \in Nat
  /\ \A e : /\ IsFiniteSet(Users \cup {e}) /\ IsFiniteSet(Users \ {e})
            /\ e \notin Users => Cardinality(Users \cup {e}) = Cardinality(Users) + 1
            /\ e \in Users => Cardinality(Users \ {e}) = Cardinality(Users) - 1
            /\ \A f : e \in Users /\ f \notin Users =>
                 Cardinality((Users \ {e}) \cup {f}) = Cardinality(Users)
<1>1. Users \in SUBSET Exchanges
  BY DEF Users
<1>2. IsFiniteSet(Users)
  BY <1>1, FS_Subset
<1>3. Cardinality(Users) \in Nat
  BY <1>2, FS_CardinalityType
<1>4. ASSUME NEW e
      PROVE  /\ IsFiniteSet(Users \cup {e}) /\ IsFiniteSet(Users \ {e})
             /\ e \notin Users => Cardinality(Users \cup {e}) = Cardinality(Users) + 1
             /\ e \in Users => Cardinality(Users \ {e}) = Cardinality(Users) - 1
  BY <1>2, FS_AddElement, FS_RemoveElement
<1>5. ASSUME NEW e \in Users, NEW f, f \notin Users
      PROVE  Cardinality((Users \ {e}) \cup {f}) = Cardinality(Users)
  <2>1. f \notin Users \ {e}
    BY <1>5
  <2>2. Cardinality((Users \ {e}) \cup {f}) = Cardinality(Users \ {e}) + 1
    BY <1>4, <2>1, FS_AddElement
  <2>3. Cardinality(Users \ {e}) = Cardinality(Users) - 1
    BY <1>4
  <2> QED
    BY <1>3, <2>2, <2>3
<1> QED
  BY <1>2, <1>3, <1>4, <1>5

(* An exchange that is connecting can be given a lane that is not open:    *)
(* there are more names for lanes than connections.                        *)
LEMMA NewLaneIsNew ==
  ASSUME PoolInv, NEW e \in Exchanges, state[e] = "connecting"
  PROVE  NewLane \in Lanes /\ NewLane \notin open
<1> DEFINE Holders == {x \in Exchanges : Holds(x)}
           Held == {lane[x] : x \in Holders}
           n == MAX_LANES + Cardinality(Exchanges)
<1>1. Cardinality(Exchanges) \in Nat
  BY FS_CardinalityType
<1>2. IsFiniteSet(Lanes) /\ Cardinality(Lanes) = n
  BY <1>1, FS_Interval, SMTT(60) DEF Lanes
<1>3. e \in Users /\ Holders \subseteq Users \ {e}
  BY DEF Users, Holds, Opening
<1>4. IsFiniteSet(Users \ {e}) /\ Cardinality(Users \ {e}) = Cardinality(Users) - 1
  BY <1>3, UsersCounted
<1>5. IsFiniteSet(Holders) /\ Cardinality(Holders) \in Nat
      /\ Cardinality(Holders) <= Cardinality(Users) - 1
  BY <1>3, <1>4, FS_Subset, FS_CardinalityType
<1>6. IsFiniteSet(Held) /\ Cardinality(Held) \in Nat /\ Cardinality(Held) <= Cardinality(Holders)
  <2>1. [x \in Holders |-> lane[x]] \in Surjection(Holders, Held)
    BY DEF Surjection
  <2> QED
    BY <1>5, <2>1, FS_Surjection, FS_CardinalityType
<1>7. IsFiniteSet(Idle) /\ Cardinality(Idle) \in Nat /\ Cardinality(Idle) <= Len(free)
  <2>1. free \in Surjection(1 .. Len(free), Idle)
    BY DEF PoolInv, TypeOK, Surjection, Idle
  <2>2. IsFiniteSet(1 .. Len(free)) /\ Cardinality(1 .. Len(free)) = Len(free)
    <3>1. Len(free) \in Nat
      BY DEF PoolInv, TypeOK
    <3> QED
      BY <3>1, FS_Interval, SMTT(60)
  <2> QED
    BY <2>1, <2>2, FS_Surjection, FS_CardinalityType
<1>8. IsFiniteSet(open) /\ Cardinality(open) <= Len(free) + Cardinality(Holders)
  <2>1. open = Idle \cup Held
    BY DEF PoolInv, NoLeakedLane
  <2>2. Cardinality(Idle \cap Held) \in Nat
    BY <1>7, FS_Intersection, FS_CardinalityType
  <2> QED
    <3>1. /\ IsFiniteSet(open)
          /\ Cardinality(open) = Cardinality(Idle) + Cardinality(Held) - Cardinality(Idle \cap Held)
      BY <1>6, <1>7, <2>1, FS_Union
    <3>2. Len(free) \in Nat
      BY DEF PoolInv, TypeOK
    <3> QED
      BY <1>5, <1>6, <1>7, <2>2, <3>1, <3>2
<1>9. Cardinality(open) < n
  <2>1. CASE dead
    <3>1. Cardinality(Users) <= Cardinality(Exchanges)
      BY FS_Subset DEF Users
    <3>2. Len(free) = 0
      BY <2>1 DEF PoolInv, DeadIsEmpty
    <3> QED
      BY <1>1, <1>5, <1>8, <3>1, <3>2, UsersCounted, FS_CardinalityType
  <2>2. CASE ~dead
    BY <1>1, <1>5, <1>8, <2>2, UsersCounted, FS_CardinalityType
       DEF PoolInv, LanesCounted, TypeOK
  <2> QED
    BY <2>1, <2>2
<1>10. \E l \in Lanes : l \notin open
  <2>1. open # Lanes
    BY <1>1, <1>2, <1>9
  <2> QED
    BY <2>1 DEF PoolInv, TypeOK
<1> QED
  BY <1>10 DEF NewLane

-----------------------------------------------------------------------------
(***************************************************************************)
(* The steps.                                                              *)
(***************************************************************************)
(* A new session has no lane.                                              *)
LEMMA PoolInvInit == Init => PoolInv
<1> SUFFICES ASSUME Init PROVE PoolInv
  OBVIOUS
<1>1. Users = {} /\ Idle = {} /\ \A e \in Exchanges : ~Holds(e)
  BY DEF Init, Users, Opening, Idle, Holds
<1>2. TypeOK
  <2>1. <<>> \in Seq(Lanes) /\ <<>> \in Seq(Exchanges)
    OBVIOUS
  <2>2. dead \in BOOLEAN /\ connect_failed \in BOOLEAN
    BY DEF Init
  <2>3. /\ state \in [Exchanges -> {"idle", "connecting", "handshake", "running",
                                    "waiting", "failed"}]
        /\ lane \in [Exchanges -> Lanes \cup {NoLane}]
    BY DEF Init
  <2>4. lane_count \in Int /\ open \in SUBSET Lanes
    BY DEF Init
  <2> QED
    BY <2>1, <2>2, <2>3, <2>4 DEF Init, TypeOK
<1>3. LanesCounted
  BY <1>1, FS_EmptySet DEF Init, LanesCounted
<1> QED
  BY <1>1, <1>2, <1>3 DEF Init, PoolInv, QueueSound, DeadIsEmpty, LanesSerial, NoLeakedLane

(* A step that moves no connection keeps the lanes apart and accounted for.*)
LEMMA LanesUntouched ==
  ASSUME PoolInv, free' = free, open' = open,
         \A x \in Exchanges : (Holds(x)' <=> Holds(x)) /\ (Holds(x) => lane'[x] = lane[x])
  PROVE  LanesSerial' /\ NoLeakedLane'
<1>1. Idle' = Idle
  BY DEF Idle
<1> QED
  BY <1>1 DEF PoolInv, LanesSerial, NoLeakedLane

(* #acquire finds the session dead.                                        *)
LEMMA RefuseKeeps ==
  ASSUME PoolInv, NEW e \in Exchanges, Refuse(e)
  PROVE  PoolInv'
<1>1. Users' = Users /\ Idle' = Idle /\ \A x \in Exchanges : Holds(x)' <=> Holds(x)
  BY DEF PoolInv, TypeOK, Refuse, Users, Opening, Idle, Holds
<1>2. TypeOK' /\ QueueSound' /\ DeadIsEmpty'
  BY DEF PoolInv, TypeOK, QueueSound, DeadIsEmpty, Refuse
<1> QED
  BY <1>1, <1>2 DEF PoolInv, Refuse, LanesCounted, LanesSerial, NoLeakedLane

(* #acquire takes the idle lane that was used last.                        *)
LEMMA TakeFreeKeeps ==
  ASSUME PoolInv, NEW e \in Exchanges, TakeFree(e)
  PROVE  PoolInv'
<1> DEFINE l == free[Len(free)]
<1>1. /\ Len(free) \in 1 .. Len(free) /\ l \in Lanes
      /\ free' \in Seq(Lanes) /\ Len(free') = Len(free) - 1
      /\ \A i \in 1 .. Len(free') : free'[i] = free[i]
  BY Popped DEF PoolInv, TypeOK, TakeFree
<1>2. /\ state[e] = "idle" /\ state'[e] = "running" /\ lane'[e] = l
      /\ \A x \in Exchanges : x # e => state'[x] = state[x] /\ lane'[x] = lane[x]
      /\ ~dead /\ dead' = dead /\ lane_count' = lane_count /\ waiters' = waiters /\ open' = open
  BY DEF PoolInv, TypeOK, TakeFree
<1>3. TypeOK' /\ QueueSound' /\ DeadIsEmpty'
  BY <1>1, <1>2 DEF PoolInv, TypeOK, QueueSound, DeadIsEmpty, TakeFree
<1>4. e \notin Users /\ Users' = Users \cup {e}
  BY <1>2 DEF Users, Opening
<1>5. LanesCounted'
  <2>1. Cardinality(Users') = Cardinality(Users) + 1
    BY <1>4, UsersCounted
  <2> QED
    BY <1>1, <1>2, <2>1, UsersCounted DEF PoolInv, TypeOK, LanesCounted
<1>6. Idle = Idle' \cup {l} /\ l \notin Idle'
  <2>1. \A i \in 1 .. Len(free) : i \in 1 .. Len(free') \/ i = Len(free)
    BY <1>1 DEF PoolInv, TypeOK
  <2>2. \A i \in 1 .. Len(free') : i \in 1 .. Len(free) /\ i # Len(free)
    BY <1>1 DEF PoolInv, TypeOK
  <2>3. Idle' = {free[i] : i \in 1 .. Len(free')}
    BY <1>1 DEF Idle
  <2> QED
    BY <1>1, <2>1, <2>2, <2>3, ZenonT(60) DEF PoolInv, LanesSerial, Idle
<1>7. \A x \in Exchanges : Holds(x)' <=> Holds(x) \/ x = e
  BY <1>2 DEF Holds
<1>8. ~Holds(e) /\ \A x \in Exchanges : Holds(x) => lane[x] # l /\ lane[x] \notin Idle'
  BY <1>2, <1>6 DEF PoolInv, LanesSerial, Holds
<1>9. LanesSerial'
  <2>1. l \in open
    BY <1>6 DEF PoolInv, NoLeakedLane
  <2>2. \A x, y \in Exchanges : x # y /\ Holds(x)' /\ Holds(y)' => lane'[x] # lane'[y]
    BY <1>2, <1>7, <1>8 DEF PoolInv, LanesSerial
  <2>3. \A x \in Exchanges : Holds(x)' => lane'[x] \in open' /\ lane'[x] \notin Idle'
    BY <1>2, <1>6, <1>7, <1>8, <2>1 DEF PoolInv, LanesSerial
  <2>4. \A i, j \in 1 .. Len(free') : i # j => free'[i] # free'[j]
    BY <1>1 DEF PoolInv, TypeOK, LanesSerial
  <2> QED
    BY <2>2, <2>3, <2>4 DEF LanesSerial
<1>10. NoLeakedLane'
  BY <1>2, <1>6, <1>7, <1>8 DEF PoolInv, NoLeakedLane
<1> QED
  BY <1>3, <1>5, <1>9, <1>10 DEF PoolInv

(* #acquire counts a lane that it begins to open.                          *)
LEMMA OpenLaneKeeps ==
  ASSUME PoolInv, NEW e \in Exchanges, OpenLane(e)
  PROVE  PoolInv'
<1>1. /\ state[e] = "idle" /\ state'[e] = "connecting"
      /\ \A x \in Exchanges : x # e => state'[x] = state[x]
  BY DEF PoolInv, TypeOK, OpenLane
<1>2. TypeOK' /\ QueueSound' /\ DeadIsEmpty'
  BY <1>1 DEF PoolInv, TypeOK, QueueSound, DeadIsEmpty, OpenLane
<1>3. e \notin Users /\ Users' = Users \cup {e}
  BY <1>1 DEF Users, Opening
<1>4. LanesCounted'
  <2>1. Cardinality(Users') = Cardinality(Users) + 1
    BY <1>3, UsersCounted
  <2> QED
    BY <2>1, UsersCounted DEF PoolInv, TypeOK, LanesCounted, OpenLane
<1>5. \A x \in Exchanges : Holds(x)' <=> Holds(x)
  BY <1>1 DEF Holds
<1>6. LanesSerial' /\ NoLeakedLane'
  BY <1>5, LanesUntouched DEF OpenLane
<1> QED
  BY <1>2, <1>4, <1>6 DEF PoolInv

(* #acquire parks an exchange behind those that wait.                      *)
LEMMA WaitKeeps ==
  ASSUME PoolInv, NEW e \in Exchanges, Wait(e)
  PROVE  PoolInv'
<1>1. /\ state[e] = "idle" /\ state'[e] = "waiting"
      /\ \A x \in Exchanges : x # e => state'[x] = state[x]
      /\ ~dead /\ dead' = dead /\ free' = free /\ lane' = lane /\ open' = open
  BY DEF PoolInv, TypeOK, Wait
<1>2. /\ waiters' \in Seq(Exchanges) /\ Len(waiters') = Len(waiters) + 1
      /\ \A i \in 1 .. Len(waiters) : waiters'[i] = waiters[i]
      /\ waiters'[Len(waiters) + 1] = e /\ Len(waiters) \in Nat
  BY Pushed DEF PoolInv, TypeOK, Wait
<1>3. TypeOK' /\ DeadIsEmpty'
  BY <1>1, <1>2 DEF PoolInv, TypeOK, DeadIsEmpty, Wait
<1>4. QueueSound'
  <2>1. \A i \in 1 .. Len(waiters) : waiters[i] \in Exchanges /\ waiters[i] # e
    BY <1>1 DEF PoolInv, TypeOK, QueueSound
  <2>2. \A i \in 1 .. Len(waiters') : i \in 1 .. Len(waiters) \/ i = Len(waiters) + 1
    BY <1>2
  <2>3. \A i \in 1 .. Len(waiters') : state'[waiters'[i]] = "waiting"
    BY <1>1, <1>2, <2>1, <2>2 DEF PoolInv, QueueSound
  <2>4. \A i, j \in 1 .. Len(waiters') : i # j => waiters'[i] # waiters'[j]
    BY <1>2, <2>1, <2>2 DEF PoolInv, QueueSound
  <2> QED
    BY <2>3, <2>4 DEF QueueSound
<1>5. Users' = Users /\ \A x \in Exchanges : Holds(x)' <=> Holds(x)
  BY <1>1 DEF Users, Opening, Holds
<1>6. LanesCounted'
  BY <1>5 DEF PoolInv, LanesCounted, Wait
<1>7. LanesSerial' /\ NoLeakedLane'
  BY <1>1, <1>5, LanesUntouched
<1> QED
  BY <1>3, <1>4, <1>6, <1>7 DEF PoolInv

(* A connection is made: it has a lane of its own.                         *)
LEMMA ConnectedKeeps ==
  ASSUME PoolInv, NEW e \in Exchanges, Connected(e)
  PROVE  PoolInv'
<1> DEFINE l == NewLane
<1>1. l \in Lanes /\ l \notin open
  BY NewLaneIsNew DEF Connected
<1> HIDE DEF l
<1>2. /\ state[e] = "connecting" /\ state'[e] = "handshake" /\ lane'[e] = l
      /\ \A x \in Exchanges : x # e => state'[x] = state[x] /\ lane'[x] = lane[x]
      /\ dead' = dead /\ free' = free /\ lane_count' = lane_count /\ waiters' = waiters
      /\ open' = open \cup {l}
  BY DEF PoolInv, TypeOK, Connected, l
<1>3. TypeOK'
  BY <1>1, <1>2 DEF PoolInv, TypeOK, Connected, l
<1>4. QueueSound' /\ DeadIsEmpty'
  BY <1>2 DEF PoolInv, TypeOK, QueueSound, DeadIsEmpty
<1>5. Users' = Users /\ Idle' = Idle
  BY <1>2 DEF Users, Opening, Idle
<1>6. LanesCounted'
  BY <1>2, <1>5 DEF PoolInv, LanesCounted
<1>7. ~Holds(e) /\ \A x \in Exchanges : Holds(x)' <=> Holds(x) \/ x = e
  BY <1>2 DEF Holds
<1>8. l \notin Idle /\ \A x \in Exchanges : Holds(x) => lane[x] # l
  BY <1>1 DEF PoolInv, NoLeakedLane
<1>9. LanesSerial'
  BY <1>2, <1>5, <1>7, <1>8 DEF PoolInv, LanesSerial
<1>10. NoLeakedLane'
  BY <1>2, <1>5, <1>7 DEF PoolInv, NoLeakedLane
<1> QED
  BY <1>3, <1>4, <1>6, <1>9, <1>10 DEF PoolInv

(* A connection cannot be made: its lane is not counted any more.          *)
LEMMA ConnectFailsKeeps ==
  ASSUME PoolInv, NEW e \in Exchanges, ConnectFails(e)
  PROVE  PoolInv'
<1>1. /\ state[e] = "connecting" /\ state'[e] = "failed"
      /\ \A x \in Exchanges : x # e => state'[x] = state[x]
  BY DEF PoolInv, TypeOK, ConnectFails
<1>2. TypeOK' /\ QueueSound' /\ DeadIsEmpty'
  BY <1>1 DEF PoolInv, TypeOK, QueueSound, DeadIsEmpty, ConnectFails
<1>3. e \in Users /\ Users' = Users \ {e}
  BY <1>1 DEF Users, Opening
<1>4. LanesCounted'
  <2>1. Cardinality(Users') = Cardinality(Users) - 1
    BY <1>3, UsersCounted
  <2> QED
    BY <2>1, UsersCounted DEF PoolInv, TypeOK, LanesCounted, ConnectFails
<1>5. \A x \in Exchanges : Holds(x)' <=> Holds(x)
  BY <1>1 DEF Holds
<1>6. LanesSerial' /\ NoLeakedLane'
  BY <1>5, LanesUntouched DEF ConnectFails
<1> QED
  BY <1>2, <1>4, <1>6 DEF PoolInv

(* The handshake is done, and the exchange runs.                           *)
LEMMA HandshakeDoneKeeps ==
  ASSUME PoolInv, NEW e \in Exchanges, HandshakeDone(e)
  PROVE  PoolInv'
<1>1. /\ state[e] = "handshake" /\ state'[e] = "running"
      /\ \A x \in Exchanges : x # e => state'[x] = state[x]
  BY DEF PoolInv, TypeOK, HandshakeDone
<1>2. TypeOK' /\ QueueSound' /\ DeadIsEmpty'
  BY <1>1 DEF PoolInv, TypeOK, QueueSound, DeadIsEmpty, HandshakeDone
<1>3. Users' = Users /\ \A x \in Exchanges : Holds(x)' <=> Holds(x)
  BY <1>1 DEF Users, Opening, Holds
<1>4. LanesCounted'
  BY <1>3 DEF PoolInv, LanesCounted, HandshakeDone
<1>5. LanesSerial' /\ NoLeakedLane'
  BY <1>3, LanesUntouched DEF HandshakeDone
<1> QED
  BY <1>2, <1>4, <1>5 DEF PoolInv

(* An exchange closes its lane: nobody else had it.                        *)
LEMMA LaneClosed ==
  ASSUME PoolInv, NEW e \in Exchanges, Holds(e), free' = free, open' = open \ {lane[e]},
         \A x \in Exchanges : (Holds(x)' <=> Holds(x) /\ x # e) /\ (x # e => lane'[x] = lane[x])
  PROVE  LanesSerial' /\ NoLeakedLane'
<1>1. Idle' = Idle
  BY DEF Idle
<1>2. lane[e] \notin Idle /\ \A x \in Exchanges : Holds(x) /\ x # e => lane[x] # lane[e]
  BY DEF PoolInv, LanesSerial
<1>3. LanesSerial'
  BY <1>1, <1>2 DEF PoolInv, LanesSerial
<1>4. NoLeakedLane'
  BY <1>1, <1>2 DEF PoolInv, NoLeakedLane
<1> QED
  BY <1>3, <1>4

(* The handshake failed: the connection is closed and not counted.         *)
LEMMA HandshakeFailsKeeps ==
  ASSUME PoolInv, NEW e \in Exchanges, HandshakeFails(e)
  PROVE  PoolInv'
<1>1. /\ state[e] = "handshake" /\ state'[e] = "failed"
      /\ \A x \in Exchanges : x # e => state'[x] = state[x] /\ lane'[x] = lane[x]
  BY DEF PoolInv, TypeOK, HandshakeFails
<1>2. TypeOK' /\ QueueSound' /\ DeadIsEmpty'
  BY <1>1 DEF PoolInv, TypeOK, QueueSound, DeadIsEmpty, HandshakeFails
<1>3. e \in Users /\ Users' = Users \ {e}
  BY <1>1 DEF Users, Opening
<1>4. LanesCounted'
  <2>1. Cardinality(Users') = Cardinality(Users) - 1
    BY <1>3, UsersCounted
  <2> QED
    BY <2>1, UsersCounted DEF PoolInv, TypeOK, LanesCounted, HandshakeFails
<1>5. Holds(e) /\ \A x \in Exchanges : Holds(x)' <=> Holds(x) /\ x # e
  BY <1>1 DEF Holds
<1>6. LanesSerial' /\ NoLeakedLane'
  BY <1>1, <1>5, LaneClosed DEF HandshakeFails
<1> QED
  BY <1>2, <1>4, <1>6 DEF PoolInv

(* #release of a dead session closes the lane.                             *)
LEMMA ReleaseDeadKeeps ==
  ASSUME PoolInv, NEW e \in Exchanges, ReleaseDead(e)
  PROVE  PoolInv'
<1>1. /\ state[e] = "running" /\ state'[e] = "idle"
      /\ \A x \in Exchanges : x # e => state'[x] = state[x] /\ lane'[x] = lane[x]
  BY DEF PoolInv, TypeOK, ReleaseDead
<1>2. TypeOK' /\ QueueSound' /\ DeadIsEmpty' /\ LanesCounted'
  BY <1>1 DEF PoolInv, TypeOK, QueueSound, DeadIsEmpty, LanesCounted, ReleaseDead
<1>3. Holds(e) /\ \A x \in Exchanges : Holds(x)' <=> Holds(x) /\ x # e
  BY <1>1 DEF Holds
<1>4. LanesSerial' /\ NoLeakedLane'
  BY <1>1, <1>3, LaneClosed DEF ReleaseDead
<1> QED
  BY <1>2, <1>4 DEF PoolInv

(* #release hands the lane to the oldest waiter: the number of users and   *)
(* the set of lanes in use stay what they were.                            *)
LEMMA ReleaseToWaiterKeeps ==
  ASSUME PoolInv, NEW e \in Exchanges, ReleaseToWaiter(e)
  PROVE  PoolInv'
<1> DEFINE w == Head(waiters)
<1>1. /\ w = waiters[1] /\ w \in Exchanges /\ Len(waiters) >= 1
      /\ waiters' \in Seq(Exchanges) /\ Len(waiters') = Len(waiters) - 1
      /\ \A i \in 1 .. Len(waiters') : waiters'[i] = waiters[i + 1]
  BY Shifted DEF PoolInv, TypeOK, ReleaseToWaiter
<1>2. state[w] = "waiting" /\ state[e] = "running" /\ w # e /\ ~dead
  BY <1>1 DEF PoolInv, QueueSound, ReleaseToWaiter
<1>3. /\ lane' = [lane EXCEPT ![e] = NoLane, ![w] = lane[e]]
      /\ state' = [state EXCEPT ![e] = "idle", ![w] = "running"]
      /\ dead' = dead /\ free' = free /\ lane_count' = lane_count /\ open' = open
      /\ connect_failed' = connect_failed
  BY DEF ReleaseToWaiter
<1> HIDE DEF w
<1>4. /\ state'[e] = "idle" /\ state'[w] = "running" /\ lane'[w] = lane[e]
      /\ \A x \in Exchanges : x # e /\ x # w => state'[x] = state[x] /\ lane'[x] = lane[x]
  BY <1>1, <1>2, <1>3 DEF PoolInv, TypeOK
<1>5. TypeOK'
  BY <1>1, <1>3 DEF PoolInv, TypeOK
<1>6. DeadIsEmpty'
  BY <1>2, <1>3 DEF DeadIsEmpty
<1>7. QueueSound'
  <2>1. \A i \in 1 .. Len(waiters') :
          /\ i + 1 \in 1 .. Len(waiters) /\ waiters[i + 1] \in Exchanges
          /\ state[waiters[i + 1]] = "waiting" /\ waiters[i + 1] # w
    BY <1>1 DEF PoolInv, TypeOK, QueueSound
  <2>2. \A i \in 1 .. Len(waiters') : state'[waiters'[i]] = "waiting"
    BY <1>1, <1>2, <1>4, <2>1
  <2>3. \A i, j \in 1 .. Len(waiters') : i # j => waiters'[i] # waiters'[j]
    <3> SUFFICES ASSUME NEW i \in 1 .. Len(waiters'), NEW j \in 1 .. Len(waiters'), i # j
                 PROVE  waiters'[i] # waiters'[j]
      OBVIOUS
    <3>1. i + 1 # j + 1
      BY <1>1 DEF PoolInv, TypeOK
    <3> QED
      BY <1>1, <2>1, <3>1 DEF PoolInv, QueueSound
  <2> QED
    BY <2>2, <2>3 DEF QueueSound
<1>8. e \in Users /\ w \notin Users /\ Users' = (Users \ {e}) \cup {w}
  BY <1>1, <1>2, <1>4 DEF Users, Opening
<1>9. LanesCounted'
  BY <1>3, <1>8, UsersCounted DEF PoolInv, LanesCounted
<1>10. /\ Holds(e) /\ ~Holds(w) /\ Idle' = Idle
       /\ \A x \in Exchanges : Holds(x)' <=> (Holds(x) /\ x # e) \/ x = w
  BY <1>1, <1>2, <1>3, <1>4, ZenonT(60) DEF Holds, Idle
<1>11. LanesSerial'
  <2>1. \A x, y \in Exchanges : x # y /\ Holds(x)' /\ Holds(y)' => lane'[x] # lane'[y]
    BY <1>1, <1>4, <1>10 DEF PoolInv, LanesSerial
  <2>2. \A x \in Exchanges : Holds(x)' => lane'[x] \in open' /\ lane'[x] \notin Idle'
    <3> SUFFICES ASSUME NEW x \in Exchanges, Holds(x)'
                 PROVE  lane'[x] \in open /\ lane'[x] \notin Idle
      BY <1>3, <1>10
    <3>1. CASE x = w
      BY <1>4, <1>10, <3>1 DEF PoolInv, LanesSerial
    <3>2. CASE x # w
      BY <1>4, <1>10, <3>2 DEF PoolInv, LanesSerial
    <3> QED
      BY <3>1, <3>2
  <2> QED
    BY <1>3, <2>1, <2>2 DEF PoolInv, LanesSerial
<1>12. NoLeakedLane'
  <2>1. {lane'[x] : x \in {y \in Exchanges : Holds(y)'}}
          = {lane[x] : x \in {y \in Exchanges : Holds(y)}}
    BY <1>1, <1>2, <1>4, <1>10
  <2> QED
    BY <1>3, <1>10, <2>1 DEF PoolInv, NoLeakedLane
<1> QED
  BY <1>5, <1>6, <1>7, <1>9, <1>11, <1>12 DEF PoolInv

(* #release puts the lane back.                                            *)
LEMMA ReleaseToPoolKeeps ==
  ASSUME PoolInv, NEW e \in Exchanges, ReleaseToPool(e)
  PROVE  PoolInv'
<1> DEFINE l == lane[e]
<1>1. /\ state[e] = "running" /\ state'[e] = "idle" /\ ~dead /\ dead' = dead
      /\ \A x \in Exchanges : x # e => state'[x] = state[x] /\ lane'[x] = lane[x]
      /\ lane_count' = lane_count /\ open' = open
  BY DEF PoolInv, TypeOK, ReleaseToPool
<1>2. Holds(e) /\ \A x \in Exchanges : Holds(x)' <=> Holds(x) /\ x # e
  BY <1>1 DEF Holds
<1>3. /\ l \in open /\ l \in Lanes /\ l \notin Idle
      /\ \A x \in Exchanges : Holds(x) /\ x # e => lane[x] # l
  BY <1>2 DEF PoolInv, TypeOK, LanesSerial
<1>4. /\ free' \in Seq(Lanes) /\ Len(free') = Len(free) + 1 /\ Len(free) \in Nat
      /\ \A i \in 1 .. Len(free) : free'[i] = free[i]
      /\ free'[Len(free) + 1] = l
  BY <1>3, Pushed DEF PoolInv, TypeOK, ReleaseToPool
<1>5. TypeOK' /\ QueueSound' /\ DeadIsEmpty'
  BY <1>1, <1>4 DEF PoolInv, TypeOK, QueueSound, DeadIsEmpty, ReleaseToPool
<1>6. e \in Users /\ Users' = Users \ {e}
  BY <1>1 DEF Users, Opening
<1>7. LanesCounted'
  <2>1. Cardinality(Users') = Cardinality(Users) - 1
    BY <1>6, UsersCounted
  <2> QED
    BY <1>1, <1>4, <2>1, UsersCounted DEF PoolInv, TypeOK, LanesCounted
<1>8. \A i \in 1 .. Len(free') : i \in 1 .. Len(free) \/ i = Len(free) + 1
  BY <1>4
<1>9. Idle' = Idle \cup {l}
  <2>1. \A i \in 1 .. Len(free) : i \in 1 .. Len(free')
    BY <1>4
  <2>2. Len(free) + 1 \in 1 .. Len(free')
    BY <1>4
  <2> QED
    BY <1>4, <1>8, <2>1, <2>2 DEF Idle
<1>10. LanesSerial'
  <2>1. \A x, y \in Exchanges : x # y /\ Holds(x)' /\ Holds(y)' => lane'[x] # lane'[y]
    BY <1>1, <1>2 DEF PoolInv, LanesSerial
  <2>2. \A x \in Exchanges : Holds(x)' => lane'[x] \in open' /\ lane'[x] \notin Idle'
    BY <1>1, <1>2, <1>3, <1>9 DEF PoolInv, LanesSerial
  <2>3. \A i \in 1 .. Len(free) : free[i] # l
    BY <1>3 DEF Idle
  <2>4. \A i, j \in 1 .. Len(free') : i # j => free'[i] # free'[j]
    BY <1>4, <1>8, <2>3 DEF PoolInv, LanesSerial
  <2> QED
    BY <2>1, <2>2, <2>4 DEF LanesSerial
<1>11. NoLeakedLane'
  <2>1. {lane'[x] : x \in {y \in Exchanges : Holds(y)'}} \cup {l}
          = {lane[x] : x \in {y \in Exchanges : Holds(y)}}
    BY <1>1, <1>2
  <2> QED
    BY <1>1, <1>9, <2>1 DEF PoolInv, NoLeakedLane
<1> QED
  BY <1>5, <1>7, <1>10, <1>11 DEF PoolInv

(* #die, after the exchange that broke the session, if any, has let go of  *)
(* its lane: the lanes of the others are open still, and no more are.      *)
LEMMA DieKeeps ==
  ASSUME PoolInv, NEW broken \in SUBSET Users,
         \A e \in broken : state[e] = "running",
         \A x \in Exchanges : x \notin broken => lane'[x] = lane[x],
         lane' \in [Exchanges -> Lanes \cup {NoLane}],
         connect_failed' = connect_failed, lane_count' \in Int, lane_count' <= lane_count,
         Die([x \in Exchanges |-> IF x \in broken THEN "failed" ELSE state[x]],
             open \ {lane[x] : x \in broken})
  PROVE  PoolInv'
<1>1. /\ dead' = TRUE /\ free' = <<>> /\ waiters' = <<>>
      /\ \A x \in Exchanges : x \in broken => state'[x] = "failed"
      /\ \A x \in Exchanges : x \notin broken =>
           state'[x] = IF state[x] = "waiting" THEN "failed" ELSE state[x]
      /\ open' = (open \ {lane[x] : x \in broken}) \ Idle
  BY DEF Die
<1>2. TypeOK'
  <2>1. free' \in Seq(Lanes) /\ waiters' \in Seq(Exchanges)
    BY <1>1
  <2>2. state' \in [Exchanges -> {"idle", "connecting", "handshake", "running",
                                  "waiting", "failed"}]
    BY DEF PoolInv, TypeOK, Die
  <2>3. dead' \in BOOLEAN /\ connect_failed' \in BOOLEAN
    BY <1>1 DEF PoolInv, TypeOK
  <2>4. open' \in SUBSET Lanes
    BY <1>1 DEF PoolInv, TypeOK
  <2> QED
    BY <2>1, <2>2, <2>3, <2>4 DEF TypeOK
<1>3. QueueSound' /\ DeadIsEmpty'
  BY <1>1 DEF QueueSound, DeadIsEmpty
<1>4. LanesCounted'
  BY <1>1 DEF PoolInv, TypeOK, LanesCounted
<1>5. Idle' = {} /\ Len(free') = 0
  BY <1>1 DEF Idle
<1>6. \A x \in Exchanges : Holds(x)' <=> Holds(x) /\ x \notin broken
  BY <1>1 DEF Holds
<1>7. \A x \in broken : x \in Exchanges /\ Holds(x)
  BY DEF Holds, Users
<1>8. LanesSerial'
  BY <1>1, <1>5, <1>6, <1>7 DEF PoolInv, LanesSerial
<1>9. NoLeakedLane'
  BY <1>1, <1>5, <1>6, <1>7 DEF PoolInv, LanesSerial, NoLeakedLane
<1> QED
  BY <1>2, <1>3, <1>4, <1>8, <1>9 DEF PoolInv

(* fn threw: the exchange closes its lane and the session dies with it.    *)
LEMMA ExchangeThrowsKeeps ==
  ASSUME PoolInv, NEW e \in Exchanges, ExchangeThrows(e)
  PROVE  PoolInv'
<1>1. {e} \in SUBSET Users /\ \A x \in {e} : state[x] = "running"
  BY DEF ExchangeThrows, Users
<1>2. [state EXCEPT ![e] = "failed"]
        = [x \in Exchanges |-> IF x \in {e} THEN "failed" ELSE state[x]]
  BY DEF PoolInv, TypeOK
<1>3. {lane[x] : x \in {e}} = {lane[e]}
  OBVIOUS
<1>4. Die([x \in Exchanges |-> IF x \in {e} THEN "failed" ELSE state[x]],
          open \ {lane[x] : x \in {e}})
  BY <1>2, <1>3, Zenon DEF ExchangeThrows
<1>5. /\ lane' \in [Exchanges -> Lanes \cup {NoLane}]
      /\ \A x \in Exchanges : x \notin {e} => lane'[x] = lane[x]
      /\ connect_failed' = connect_failed /\ lane_count' \in Int /\ lane_count' <= lane_count
  BY DEF PoolInv, TypeOK, ExchangeThrows
<1> QED
  BY <1>1, <1>4, <1>5, DieKeeps

(* The session ends by itself.                                             *)
LEMMA SessionEndsKeeps ==
  ASSUME PoolInv, SessionEnds
  PROVE  PoolInv'
<1>1. state = [x \in Exchanges |-> IF x \in {} THEN "failed" ELSE state[x]]
  BY DEF PoolInv, TypeOK
<1>2. open \ {lane[x] : x \in {}} = open
  OBVIOUS
<1>3. Die([x \in Exchanges |-> IF x \in {} THEN "failed" ELSE state[x]],
          open \ {lane[x] : x \in {}})
  BY <1>1, <1>2, Zenon DEF SessionEnds
<1>4. /\ lane' = lane /\ lane' \in [Exchanges -> Lanes \cup {NoLane}]
      /\ connect_failed' = connect_failed /\ lane_count' \in Int /\ lane_count' <= lane_count
  BY DEF PoolInv, TypeOK, SessionEnds
<1>5. /\ {} \in SUBSET Users /\ \A x \in {} : state[x] = "running"
      /\ \A x \in Exchanges : x \notin {} => lane'[x] = lane[x]
  BY <1>4
<1> QED
  BY <1>3, <1>4, <1>5, DieKeeps

(* A step that changes nothing.                                            *)
LEMMA StutterKeeps ==
  ASSUME PoolInv, UNCHANGED vars
  PROVE  PoolInv'
<1>1. Users' = Users /\ Idle' = Idle /\ \A x \in Exchanges : Holds(x)' <=> Holds(x)
  BY DEF vars, Users, Opening, Idle, Holds
<1> QED
  BY <1>1 DEF vars, PoolInv, TypeOK, QueueSound, DeadIsEmpty, LanesCounted, LanesSerial,
     NoLeakedLane

(* Every step keeps the invariant.                                         *)
LEMMA PoolInvStep == PoolInv /\ [Next]_vars => PoolInv'
<1> SUFFICES ASSUME PoolInv, [Next]_vars PROVE PoolInv'
  OBVIOUS
<1>1. ASSUME NEW e \in Exchanges, Acquire(e) PROVE PoolInv'
  BY <1>1, RefuseKeeps, TakeFreeKeeps, OpenLaneKeeps, WaitKeeps DEF Acquire
<1>2. ASSUME NEW e \in Exchanges, Opened(e) \/ Failed(e) PROVE PoolInv'
  BY <1>2, ConnectedKeeps, HandshakeDoneKeeps, ConnectFailsKeeps, HandshakeFailsKeeps
     DEF Opened, Failed
<1>3. ASSUME NEW e \in Exchanges, Release(e) PROVE PoolInv'
  BY <1>3, ReleaseDeadKeeps, ReleaseToWaiterKeeps, ReleaseToPoolKeeps DEF Release
<1>4. ASSUME NEW e \in Exchanges, ExchangeThrows(e) PROVE PoolInv'
  BY <1>4, ExchangeThrowsKeeps
<1> QED
  BY <1>1, <1>2, <1>3, <1>4, SessionEndsKeeps, StutterKeeps DEF Next

(* PoolInv holds in every state of a session.                              *)
LEMMA PoolInvHolds == Spec => []PoolInv
  BY PoolInvInit, PoolInvStep, PTL DEF Spec

-----------------------------------------------------------------------------
(* The pool's variables have their types in every state of GuestSession.   *)
THEOREM SessionTyped == Spec => []TypeOK
<1>1. PoolInv => TypeOK
  BY DEF PoolInv
<1> QED
  BY <1>1, PoolInvHolds, PTL

(* The lanes of conn.ts are counted, serial and never leaked, through      *)
(* failed handshakes, broken exchanges and the death of the session.       *)
THEOREM SessionPoolSound == Spec => []PoolSound
<1>1. PoolInv => PoolSound
  BY DEF PoolInv, PoolSound
<1> QED
  BY <1>1, PoolInvHolds, PTL

-----------------------------------------------------------------------------
(***************************************************************************)
(* The refinement.                                                         *)
(***************************************************************************)
(* The abstract pool counts its users as the session does.                 *)
LEMMA SameCardinality == \A S : Pool!Cardinality(S) = Cardinality(S)
  BY Zenon DEF Pool!Cardinality, Cardinality

(* #acquire enters the abstract pool, or finds it ended.                   *)
LEMMA AcquireRefines ==
  ASSUME PoolInv, NEW e \in Exchanges, Acquire(e)
  PROVE  Pool!Acquire(e) \/ UNCHANGED Pool!vars
<1>1. CASE Refuse(e)
  <2>1. Users' = Users
    BY <1>1 DEF PoolInv, TypeOK, Refuse, Users, Opening
  <2> QED
    BY <1>1, <2>1 DEF Refuse, Pool!vars
<1>2. CASE ~Refuse(e)
  <2>1. state[e] = "idle" /\ ~dead /\ dead' = dead
    BY <1>2 DEF Acquire, Refuse, TakeFree, OpenLane, Wait
  <2>2. e \notin Users /\ ~Pool!Waits(e)
    BY <2>1 DEF Users, Opening, Pool!Waits, PoolInv, QueueSound
  <2>3. CASE TakeFree(e) \/ OpenLane(e)
    <3>1. Users' = Users \cup {e} /\ waiters' = waiters
      BY <2>1, <2>3 DEF PoolInv, TypeOK, TakeFree, OpenLane, Users, Opening
    <3>2. Cardinality(Users) < MAX_LANES
      <4>1. free # <<>> => Len(free) > 0
        BY DEF PoolInv, TypeOK
      <4> QED
        BY <2>1, <2>3, <4>1, UsersCounted DEF PoolInv, TypeOK, LanesCounted, TakeFree, OpenLane
    <3> QED
      BY <2>1, <2>2, <3>1, <3>2, SameCardinality, Zenon DEF Pool!Acquire, Pool!Enter
  <2>4. CASE Wait(e)
    <3>1. Users' = Users /\ waiters' = Append(waiters, e)
      BY <2>1, <2>4 DEF PoolInv, TypeOK, Wait, Users, Opening
    <3>2. Cardinality(Users) = MAX_LANES
      BY <2>1, <2>4, UsersCounted DEF PoolInv, TypeOK, LanesCounted, Wait
    <3> QED
      BY <2>1, <2>2, <3>1, <3>2, SameCardinality, Zenon DEF Pool!Acquire, Pool!Enter
  <2> QED
    BY <1>2, <2>3, <2>4 DEF Acquire
<1> QED
  BY <1>1, <1>2

(* Opening a lane is invisible; failing to drops the exchange.             *)
LEMMA OpenRefines ==
  ASSUME PoolInv, NEW e \in Exchanges, Opened(e) \/ Failed(e)
  PROVE  Pool!Drop(e) \/ UNCHANGED Pool!vars
<1>1. CASE Opened(e)
  BY <1>1 DEF PoolInv, TypeOK, Opened, Connected, HandshakeDone, Users, Opening, Pool!vars
<1>2. CASE Failed(e)
  <2>1. e \in Users /\ Users' = Users \ {e}
    BY <1>2 DEF PoolInv, TypeOK, Failed, ConnectFails, HandshakeFails, Users, Opening
  <2> QED
    BY <1>2, <2>1 DEF Failed, ConnectFails, HandshakeFails, Pool!Drop
<1> QED
  BY <1>1, <1>2

(* #release leaves the abstract pool, which serves its oldest waiter.      *)
LEMMA ReleaseRefines ==
  ASSUME PoolInv, NEW e \in Exchanges, Release(e)
  PROVE  Pool!Release(e) \/ Pool!Drop(e)
<1>1. e \in Users
  BY DEF Release, ReleaseDead, ReleaseToWaiter, ReleaseToPool, Users
<1>2. CASE ReleaseDead(e)
  <2>1. Users' = Users \ {e}
    BY <1>2 DEF PoolInv, TypeOK, ReleaseDead, Users, Opening
  <2> QED
    BY <1>1, <1>2, <2>1 DEF ReleaseDead, Pool!Drop
<1>3. CASE ReleaseToWaiter(e)
  <2>1. Head(waiters) \in Exchanges /\ state[Head(waiters)] = "waiting"
    BY <1>3, Shifted DEF PoolInv, TypeOK, QueueSound, ReleaseToWaiter
  <2>2. Users' = (Users \ {e}) \cup {Head(waiters)}
    BY <1>3, <2>1 DEF PoolInv, TypeOK, ReleaseToWaiter, Users, Opening
  <2> QED
    BY <1>1, <1>3, <2>2 DEF ReleaseToWaiter, Pool!Release, Pool!Leave
<1>4. CASE ReleaseToPool(e)
  <2>1. Users' = Users \ {e}
    BY <1>4 DEF PoolInv, TypeOK, ReleaseToPool, Users, Opening
  <2> QED
    BY <1>1, <1>4, <2>1 DEF ReleaseToPool, Pool!Release, Pool!Leave
<1> QED
  BY <1>2, <1>3, <1>4 DEF Release

(* #die ends the abstract pool, the first time.                            *)
LEMMA DieRefines ==
  ASSUME PoolInv, NEW e \in Exchanges, ExchangeThrows(e)
  PROVE  Pool!End({e}) \/ Pool!Drop(e)
<1>1. e \in Users /\ Users' = Users \ {e}
  BY DEF PoolInv, TypeOK, ExchangeThrows, Die, Users, Opening
<1>2. dead' = TRUE /\ waiters' = <<>>
  BY DEF ExchangeThrows, Die
<1>3. CASE dead
  <2>1. waiters' = waiters /\ dead' = dead
    BY <1>2, <1>3 DEF PoolInv, TypeOK, DeadIsEmpty
  <2> QED
    BY <1>1, <2>1 DEF Pool!Drop
<1>4. CASE ~dead
  BY <1>1, <1>2, <1>4 DEF Pool!End
<1> QED
  BY <1>3, <1>4

(* GuestSession hands lanes out as LanePool does: never more than          *)
(* MAX_LANES, and in the order of arrival.                                 *)
THEOREM SessionIsLanePool == Spec => IsLanePool
<1>1. Init => Pool!Init
  BY DEF Init, Pool!Init, Users, Opening
<1>2. PoolInv /\ [Next]_vars => [Pool!Next]_(Pool!vars)
  <2> SUFFICES ASSUME PoolInv, [Next]_vars PROVE [Pool!Next]_(Pool!vars)
    OBVIOUS
  <2>1. ASSUME NEW e \in Exchanges,
               Acquire(e) \/ Opened(e) \/ Failed(e) \/ Release(e) \/ ExchangeThrows(e)
        PROVE  [Pool!Next]_(Pool!vars)
    BY <2>1, AcquireRefines, OpenRefines, ReleaseRefines, DieRefines DEF Pool!Next
  <2>2. CASE SessionEnds
    <3>1. Users' = Users \ {}
      BY <2>2 DEF PoolInv, TypeOK, SessionEnds, Die, Users, Opening
    <3> QED
      BY <2>2, <3>1 DEF SessionEnds, Die, Pool!Next, Pool!End
  <2>3. CASE UNCHANGED vars
    BY <2>3 DEF vars, Pool!vars, Users, Opening
  <2> QED
    BY <2>1, <2>2, <2>3 DEF Next
<1> QED
  BY <1>1, <1>2, PoolInvHolds, PTL DEF Spec, IsLanePool, Pool!Spec
=============================================================================
