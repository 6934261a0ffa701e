---------------------------- MODULE GuestSession ----------------------------
(***************************************************************************)
(* The host's session with the guest agent, class GuestSession of          *)
(* packages/linux-guest/src/conn.ts: a pool of at most MAX_LANES vsock     *)
(* connections ("lanes"), each used by one request/reply exchange at a     *)
(* time.  Every call into the guest is an exchange: it takes a free lane,  *)
(* opens a new one, or waits for one to be released.  Anything unexpected  *)
(* on a lane or on the session's own connection kills the session.         *)
(* A definition marked `fault' is a slip this code could have had, used by *)
(* no action: it shows which property would notice it.                     *)
(***************************************************************************)
EXTENDS Integers, FiniteSets, Sequences

CONSTANTS
  Exchanges,    (* the callers of exchange()                                *)
  MAX_LANES

ASSUME LanesAssumption == MAX_LANES \in Nat \ {0}
ASSUME ExchangesAssumption == IsFiniteSet(Exchanges)

VARIABLES
  dead,
  free,         (* the stack of idle lanes                                  *)
  lane_count,
  waiters,      (* exchanges parked in #acquire, oldest first               *)
  state,        (* where each exchange is                                   *)
  lane,         (* the lane each exchange has                               *)
  open,         (* the vsock connections not closed by the host             *)
  connect_failed  (* history: some lane could not be opened                 *)

vars == <<dead, free, lane_count, waiters, state, lane, open, connect_failed>>

NoLane == 0
Lanes == 1 .. MAX_LANES + Cardinality(Exchanges)
NewLane == CHOOSE l \in Lanes : l \notin open

Holds(e) == state[e] \in {"handshake", "running"}
Opening(e) == state[e] \in {"connecting", "handshake"}
Users == {e \in Exchanges : Opening(e) \/ state[e] = "running"}

Init ==
  /\ dead = FALSE
  /\ free = <<>> /\ lane_count = 0 /\ waiters = <<>>
  /\ state = [e \in Exchanges |-> "idle"]
  /\ lane = [e \in Exchanges |-> NoLane]
  /\ open = {}
  /\ connect_failed = FALSE

-----------------------------------------------------------------------------
(***************************************************************************)
(* #acquire: its three ways to a lane, and the refusal once dead.          *)
(***************************************************************************)
Refuse(e) ==
  /\ state[e] = "idle" /\ dead
  /\ state' = [state EXCEPT ![e] = "failed"]
  /\ UNCHANGED <<dead, free, lane_count, waiters, lane, open, connect_failed>>

TakeFree(e) ==
  /\ state[e] = "idle" /\ ~dead /\ free # <<>>
  /\ lane' = [lane EXCEPT ![e] = free[Len(free)]]
  /\ free' = SubSeq(free, 1, Len(free) - 1)
  /\ state' = [state EXCEPT ![e] = "running"]
  /\ UNCHANGED <<dead, lane_count, waiters, open, connect_failed>>

OpenLaneOverCap(e) ==   \* fault: one lane too many
  /\ state[e] = "idle" /\ ~dead /\ free = <<>>
  /\ lane_count <= MAX_LANES
  /\ lane_count' = lane_count + 1
  /\ state' = [state EXCEPT ![e] = "connecting"]
  /\ UNCHANGED <<dead, free, waiters, lane, open, connect_failed>>

OpenLane(e) ==
  /\ state[e] = "idle" /\ ~dead /\ free = <<>>
  /\ lane_count < MAX_LANES
  /\ lane_count' = lane_count + 1
  /\ state' = [state EXCEPT ![e] = "connecting"]
  /\ UNCHANGED <<dead, free, waiters, lane, open, connect_failed>>

Wait(e) ==
  /\ state[e] = "idle" /\ ~dead /\ free = <<>>
  /\ lane_count >= MAX_LANES
  /\ waiters' = Append(waiters, e)
  /\ state' = [state EXCEPT ![e] = "waiting"]
  /\ UNCHANGED <<dead, free, lane_count, lane, open, connect_failed>>

(* The vsock connect answers; the handshake on the connection follows.     *)
Connected(e) ==
  /\ state[e] = "connecting"
  /\ open' = open \cup {NewLane}
  /\ lane' = [lane EXCEPT ![e] = NewLane]
  /\ state' = [state EXCEPT ![e] = "handshake"]
  /\ UNCHANGED <<dead, free, lane_count, waiters, connect_failed>>

ConnectFails(e) ==
  /\ state[e] = "connecting"
  /\ lane_count' = lane_count - 1
  /\ state' = [state EXCEPT ![e] = "failed"]
  /\ connect_failed' = TRUE
  /\ UNCHANGED <<dead, free, waiters, lane, open>>

(* The session may have died during the handshake.                         *)
HandshakeDone(e) ==
  /\ state[e] = "handshake" /\ ~dead
  /\ state' = [state EXCEPT ![e] = "running"]
  /\ UNCHANGED <<dead, free, lane_count, waiters, lane, open, connect_failed>>

HandshakeFailsUnclosed(e) ==   \* fault: the connection stays open
  /\ state[e] = "handshake"
  /\ lane_count' = lane_count - 1
  /\ lane' = [lane EXCEPT ![e] = NoLane]
  /\ state' = [state EXCEPT ![e] = "failed"]
  /\ connect_failed' = TRUE
  /\ UNCHANGED <<dead, free, waiters, open>>

HandshakeFails(e) ==
  /\ state[e] = "handshake"
  /\ open' = open \ {lane[e]}
  /\ lane_count' = lane_count - 1
  /\ lane' = [lane EXCEPT ![e] = NoLane]
  /\ state' = [state EXCEPT ![e] = "failed"]
  /\ connect_failed' = TRUE
  /\ UNCHANGED <<dead, free, waiters>>

-----------------------------------------------------------------------------
(***************************************************************************)
(* The exchange has its reply: #release closes the lane of a dead session, *)
(* hands a live one to the oldest waiter, or puts it back.                 *)
(***************************************************************************)
ReleaseDead(e) ==
  /\ state[e] = "running" /\ dead
  /\ open' = open \ {lane[e]}
  /\ lane' = [lane EXCEPT ![e] = NoLane]
  /\ state' = [state EXCEPT ![e] = "idle"]
  /\ UNCHANGED <<dead, free, lane_count, waiters, connect_failed>>

ReleaseToNewest(e) ==   \* fault: the last waiter is served first
  /\ state[e] = "running" /\ ~dead /\ waiters # <<>>
  /\ LET w == waiters[Len(waiters)]
     IN  /\ lane' = [lane EXCEPT ![e] = NoLane, ![w] = lane[e]]
         /\ state' = [state EXCEPT ![e] = "idle", ![w] = "running"]
  /\ waiters' = SubSeq(waiters, 1, Len(waiters) - 1)
  /\ UNCHANGED <<dead, free, lane_count, open, connect_failed>>

ReleaseToWaiter(e) ==
  /\ state[e] = "running" /\ ~dead /\ waiters # <<>>
  /\ LET w == Head(waiters)
     IN  /\ lane' = [lane EXCEPT ![e] = NoLane, ![w] = lane[e]]
         /\ state' = [state EXCEPT ![e] = "idle", ![w] = "running"]
  /\ waiters' = Tail(waiters)
  /\ UNCHANGED <<dead, free, lane_count, open, connect_failed>>

ReleaseToPool(e) ==
  /\ state[e] = "running" /\ ~dead /\ waiters = <<>>
  /\ free' = Append(free, lane[e])
  /\ lane' = [lane EXCEPT ![e] = NoLane]
  /\ state' = [state EXCEPT ![e] = "idle"]
  /\ UNCHANGED <<dead, lane_count, waiters, open, connect_failed>>

(***************************************************************************)
(* #die rejects the waiters and closes the idle lanes; the lanes in use    *)
(* are closed by their exchanges.  It does nothing the second time.        *)
(***************************************************************************)
Idle == {free[i] : i \in 1 .. Len(free)}

Die(st, connections) ==
  /\ dead' = TRUE
  /\ free' = <<>> /\ waiters' = <<>>
  /\ state' = [x \in Exchanges |-> IF st[x] = "waiting" THEN "failed" ELSE st[x]]
  /\ open' = connections \ Idle

(* fn threw: a wire violation, or the lane's connection went away.         *)
ExchangeThrows(e) ==
  /\ state[e] = "running"
  /\ Die([state EXCEPT ![e] = "failed"], open \ {lane[e]})
  /\ lane' = [lane EXCEPT ![e] = NoLane]
  /\ lane_count' = lane_count - 1
  /\ UNCHANGED connect_failed

(* #watch sees the session's connection end or speak, or close() is called.*)
SessionEnds ==
  /\ ~dead
  /\ Die(state, open)
  /\ UNCHANGED <<lane_count, lane, connect_failed>>

Acquire(e) == Refuse(e) \/ TakeFree(e) \/ OpenLane(e) \/ Wait(e)
Opened(e) == Connected(e) \/ HandshakeDone(e)
Failed(e) == ConnectFails(e) \/ HandshakeFails(e)
Release(e) == ReleaseDead(e) \/ ReleaseToWaiter(e) \/ ReleaseToPool(e)

Next ==
  \/ \E e \in Exchanges :
       Acquire(e) \/ Opened(e) \/ Failed(e) \/ Release(e) \/ ExchangeThrows(e)
  \/ SessionEnds

(***************************************************************************)
(* Fairness: connect() has a timeout, so a lane opens or fails; the guest  *)
(* answers an exchange, or its connection is reset once the agent has torn *)
(* the session down.  No caller is obliged to start an exchange.           *)
(***************************************************************************)
Spec == Init /\ [][Next]_vars

Fairness ==
  \A e \in Exchanges :
    WF_vars(Opened(e) \/ Failed(e)) /\ WF_vars(Release(e) \/ ExchangeThrows(e))

-----------------------------------------------------------------------------
(***************************************************************************)
(* Properties.                                                             *)
(***************************************************************************)
(* The pool's stack, queue and count and the exchanges' states have their  *)
(* types.                                                                  *)
TypeOK ==
  /\ dead \in BOOLEAN /\ connect_failed \in BOOLEAN
  /\ free \in Seq(Lanes) /\ waiters \in Seq(Exchanges)
  /\ lane_count \in Int
  /\ state \in [Exchanges -> {"idle", "connecting", "handshake", "running",
                              "waiting", "failed"}]
  /\ lane \in [Exchanges -> Lanes \cup {NoLane}]
  /\ open \in SUBSET Lanes

(* The count #acquire tests against MAX_LANES is the number of lanes: in   *)
(* use, being opened, or idle.                                             *)
LanesCounted ==
  /\ lane_count <= MAX_LANES
  /\ ~dead => lane_count = Len(free) + Cardinality(Users)

(* A lane is strictly serial: it has one user at most, and none while it   *)
(* is idle.                                                                *)
LanesSerial ==
  /\ \A e, f \in Exchanges : e # f /\ Holds(e) /\ Holds(f) => lane[e] # lane[f]
  /\ \A e \in Exchanges : Holds(e) => lane[e] \in open /\ lane[e] \notin Idle
  /\ \A i, j \in 1 .. Len(free) : i # j => free[i] # free[j]

(* A connection is never forgotten: every open one is idle in the pool or  *)
(* with an exchange that will release or close it.                         *)
NoLeakedLane == open = Idle \cup {lane[e] : e \in {x \in Exchanges : Holds(x)}}

(* The pool is sound through failed handshakes, broken exchanges and the   *)
(* death of the session: lanes counted, serial, and none leaked.           *)
PoolSound == LanesCounted /\ LanesSerial /\ NoLeakedLane

(* A waiter gets a lane or an error.  The code does not wake a waiter when *)
(* a lane fails to open; after that, one is left only where no exchange    *)
(* runs any more that would release its lane to it.                        *)
Runs == \E e \in Exchanges : state[e] = "running"
WaiterServed ==
  \A e \in Exchanges : []<>(Runs \/ ~connect_failed) => []<>(state[e] # "waiting")

(* Once the session is dead its connections are all closed in the end; the *)
(* session does not come alive again.                                      *)
DeathClosesAll == []<>(dead => open = {})

(* The pool comes to rest: waiters are served, a dead session is closed.   *)
PoolSettles == WaiterServed /\ DeathClosesAll

(* The pool is the abstract one.                                           *)
Pool == INSTANCE LanePool WITH
  Capacity <- MAX_LANES,
  busy <- Users,
  waiting <- waiters,
  ended <- dead

(* #acquire, #release and #die never do what the abstract pool may not:    *)
(* the lanes are handed out in order, never more than MAX_LANES of them.   *)
IsLanePool == Pool!Spec
=============================================================================
