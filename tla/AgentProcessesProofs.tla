------------------------ MODULE AgentProcessesProofs ------------------------
(***************************************************************************)
(* Proof about AgentProcesses, for any number of lanes, table size and     *)
(* number of processes: what the table of agent.c says of a process is so. *)
(* Three facts make that inductive:                                        *)
(*   - a slot that was claimed belongs to the lane that claimed it until   *)
(*     the child's pid is in it, and a pid belongs to one lane or to the   *)
(*     host (SlotsOwned, PidsOwned);                                       *)
(*   - the mutex is held from posix_spawn until the pid is published, so   *)
(*     the reaper never looks a child up before that (TableKnows);         *)
(*   - the host's count of processes is the number of used slots and of    *)
(*     spawns that have yet to claim one (HostCounts).                     *)
(***************************************************************************)
EXTENDS AgentProcesses, FiniteSetTheorems, WellFoundedInduction, TLAPS

Used == {s \in Slots : children[s].used}
Claiming == {t \in Lanes : lane[t].at = "claim"}

(* The lanes between claiming a slot and putting the pid in it, and those  *)
(* that answer for a process.                                              *)
Filling(t) == lane[t].at \in {"spawn", "publish"}
Answers(t) == lane[t].at \in {"spawned", "reap", "wait"}
HasPid(t) == lane[t].at = "publish" \/ Answers(t)

LaneStates == [at: {"idle", "claim", "spawn", "publish", "spawned", "reap", "wait"},
               slot: Slots \cup {NoSlot}, pid: Pids \cup {NoPid}]
ChildStates == [used: BOOLEAN, pid: Pids \cup {NoPid},
                reaped: BOOLEAN, status: Pids \cup {NoPid}]

InTable(p) == \E s \in Slots : children[s].used /\ children[s].pid = p

SlotsOwned ==
  /\ \A t \in Lanes : Filling(t) => lane[t].slot \in Slots /\ children[lane[t].slot] = Claimed
  /\ \A t, u \in Lanes : Filling(t) /\ Filling(u) /\ lane[t].slot = lane[u].slot => t = u
  /\ \A t \in Lanes : lane[t].at = "wait" =>
       /\ lane[t].slot \in Slots
       /\ children[lane[t].slot].used
       /\ children[lane[t].slot].pid = lane[t].pid

PidsOwned ==
  /\ \A t \in Lanes : HasPid(t) =>
       lane[t].pid \in Pids /\ lane[t].pid < next_pid /\ lane[t].pid \notin known
  /\ \A t, u \in Lanes : HasPid(t) /\ HasPid(u) /\ lane[t].pid = lane[u].pid => t = u
  /\ \A t \in Lanes : Answers(t) => InTable(lane[t].pid)
  /\ \A p \in known : p < next_pid /\ InTable(p)

TableKnows ==
  /\ \A s \in Used : children[s].pid < next_pid
  /\ \A s \in Used : children[s].reaped => children[s].status = children[s].pid
  /\ \A s, r \in Used : children[s].pid # NoPid /\ children[s].pid = children[r].pid => s = r
  /\ \A t \in Lanes : lane[t].at = "publish" =>
       /\ spawning = {t}
       /\ ~InTable(lane[t].pid)
       /\ lane[t].pid \in live \cup zombies \cup {collected}
  /\ IF reaper = "collected" THEN collected \in Pids ELSE collected = NoPid
  /\ \A p \in Pids : statuses[p] \in {NoPid, p}

HostCounts == processes = Cardinality(Used) + Cardinality(Claiming)

(* The inductive invariant.                                                *)
TableInv ==
  TypeOK /\ SlotsOwned /\ PidsOwned /\ TableKnows /\ HostCounts /\ NoLostExit /\ NeverRefused

-----------------------------------------------------------------------------
(* A search that has something to find finds it.                           *)
LEMMA FirstSlotFinds ==
  ASSUME NEW wanted \in SUBSET Slots
  PROVE  IF wanted = {} THEN FirstSlot(wanted) = NoSlot ELSE FirstSlot(wanted) \in wanted
<1>1. CASE wanted # {}
  <2>1. Slots \subseteq Nat
    BY DEF Slots
  <2>2. \A a, b \in Nat : <<a, b>> \in OpToRel(<, Nat) <=> a < b
    BY Zenon DEF OpToRel
  <2>3. \E R : IsWellFoundedOn(R, Nat) /\ \A a, b \in Nat : <<a, b>> \in R <=> a < b
    BY <2>2, NatLessThanWellFounded, Zenon
  <2>4. PICK R : IsWellFoundedOn(R, Nat) /\ \A a, b \in Nat : <<a, b>> \in R <=> a < b
    BY <2>3
  <2>5. IsWellFoundedOn(R, Nat) /\ wanted \subseteq Nat
    BY <2>1, <2>4
  <2>6. PICK s \in wanted : \A r \in wanted : ~ (<<r, s>> \in R)
    BY <1>1, <2>5, WFMin, Zenon
  <2>7. \A r \in wanted : ~ (r < s)
    BY <2>4, <2>5, <2>6, Zenon
  <2>8. \A r \in wanted : s <= r
    BY <2>1, <2>7
  <2> QED
    BY <1>1, <2>8 DEF FirstSlot
<1> QED
  BY <1>1 DEF FirstSlot

LEMMA Numbers ==
  /\ Slots \subseteq Nat /\ NoSlot \notin Slots /\ IsFiniteSet(Slots)
  /\ Cardinality(Slots) = process_capacity
  /\ Pids \subseteq Nat /\ NoPid \notin Pids
<1>1. process_capacity \in Nat /\ process_capacity # 0
  BY CapacityAssumption
<1>2. IsFiniteSet(1 .. process_capacity) /\ Cardinality(1 .. process_capacity) = process_capacity
  BY <1>1, FS_Interval
<1> QED
  BY <1>1, <1>2, PidAssumption DEF Slots, NoSlot, Pids, NoPid

LEMMA NextPid ==
  ASSUME TypeOK
  PROVE  next_pid \in Nat /\ 0 < next_pid /\ (next_pid <= MaxPid => next_pid \in Pids)
<1>1. next_pid \in 1 .. MaxPid + 1
  BY DEF TypeOK
<1> QED
  BY <1>1, PidAssumption DEF Pids

(* The count of a finite set that gains or loses one member, or none.      *)
LEMMA Counts ==
  ASSUME NEW S, IsFiniteSet(S), NEW x
  PROVE  /\ Cardinality(S) \in Nat
         /\ x \notin S => Cardinality(S \cup {x}) = Cardinality(S) + 1
         /\ x \in S => Cardinality(S \ {x}) = Cardinality(S) - 1
         /\ x \in S => Cardinality(S) > 0
<1>1. Cardinality(S) \in Nat /\ Cardinality(S \ {x}) \in Nat
  BY FS_CardinalityType, FS_RemoveElement
<1>2. x \in S => Cardinality(S \ {x}) = Cardinality(S) - 1
  BY FS_RemoveElement
<1> QED
  BY <1>1, <1>2, FS_AddElement

LEMMA TablesFinite ==
  ASSUME TypeOK
  PROVE  IsFiniteSet(Used) /\ IsFiniteSet(Claiming)
  BY FS_Subset, Numbers, LanesAssumption DEF Used, Claiming

-----------------------------------------------------------------------------
(* The host's request: one more lane that has yet to claim a slot.         *)
LEMMA SpawnRequestStep ==
  ASSUME TableInv, NEW t \in Lanes, SpawnRequest(t)
  PROVE  TableInv'
<1> USE DEF TableInv
<1>1. /\ lane[t].at = "idle" /\ lane'[t].at = "claim"
      /\ \A u \in Lanes : u # t => lane'[u] = lane[u]
      /\ lane' \in [Lanes -> LaneStates]
  BY ZenonT(60) DEF SpawnRequest, TypeOK, LaneStates
<1>2. UNCHANGED <<children, spawning, asleep, reaper, collected, live, zombies, next_pid,
                  known, statuses, refused>>
  BY DEF SpawnRequest, kernelVars
<1>3. Used' = Used /\ Claiming' = Claiming \cup {t} /\ t \notin Claiming
  BY <1>1, <1>2 DEF Used, Claiming
<1>c. processes' = processes + 1 /\ processes < MAX_PROCESSES
  BY DEF SpawnRequest
<1>4. HostCounts'
  <2>1. Cardinality(Claiming') = Cardinality(Claiming) + 1 /\ Cardinality(Claiming) \in Nat
    BY <1>3, TablesFinite, Counts
  <2>2. Cardinality(Used) \in Nat
    BY TablesFinite, Counts
  <2> QED
    BY <1>3, <1>c, <2>1, <2>2 DEF HostCounts
<1>5. TypeOK'
  <2>1. processes' \in 0 .. MAX_PROCESSES
    <3>1. processes \in 0 .. MAX_PROCESSES /\ MAX_PROCESSES \in Nat
      BY CapacityAssumption DEF TypeOK
    <3> QED
      BY <1>c, <3>1
  <2> QED
    BY <1>1, <1>2, <2>1 DEF TypeOK, LaneStates
<1>6. SlotsOwned'
  BY <1>1, <1>2 DEF SlotsOwned, Filling
<1>7. PidsOwned'
  BY <1>1, <1>2 DEF PidsOwned, HasPid, Answers, InTable
<1>8. TableKnows'
  BY <1>1, <1>2 DEF TableKnows, InTable, Used
<1>9. NoLostExit' /\ NeverRefused'
  BY <1>2 DEF NoLostExit, NeverRefused
<1> QED
  BY <1>4, <1>5, <1>6, <1>7, <1>8, <1>9

(* A lane that moves on leaves the others where they are.                  *)
LEMMA LaneMoves ==
  ASSUME TypeOK, NEW t \in Lanes, NEW x \in LaneStates, lane' = [lane EXCEPT ![t] = x]
  PROVE  /\ lane' \in [Lanes -> LaneStates] /\ lane'[t] = x
         /\ \A u \in Lanes : u # t => lane'[u] = lane[u]
  BY DEF TypeOK, LaneStates

LEMMA IdleTyped == Idle \in LaneStates /\ Claimed \in ChildStates
  BY DEF Idle, Claimed, Free, LaneStates, ChildStates, NoSlot, NoPid

(* A change of one slot of the table leaves the others as they were.       *)
LEMMA SlotChanges ==
  ASSUME TypeOK, NEW s \in Slots, NEW x \in ChildStates, children' = [children EXCEPT ![s] = x]
  PROVE  /\ children' \in [Slots -> ChildStates] /\ children'[s] = x
         /\ \A r \in Slots : r # s => children'[r] = children[r]
  BY DEF TypeOK, ChildStates

(* With every slot in use and a lane waiting for one, the host has more    *)
(* processes than the table holds.                                         *)
LEMMA ClaimSlotRefused ==
  ASSUME TableInv, NEW t \in Lanes, ClaimSlot(t), UnusedSlot = NoSlot
  PROVE  TableInv'
<1> USE DEF TableInv
<1>1. /\ lane' = [lane EXCEPT ![t] = Idle] /\ refused' = TRUE
      /\ processes' = processes - 1 /\ lane[t].at = "claim"
      /\ UNCHANGED <<children, spawning, asleep, reaper, collected, live, zombies, next_pid,
                     known, statuses>>
  BY DEF ClaimSlot, kernelVars
<1>2. /\ lane' \in [Lanes -> LaneStates] /\ lane'[t] = Idle
      /\ \A u \in Lanes : u # t => lane'[u] = lane[u]
  BY <1>1, IdleTyped, LaneMoves
<1>3. Used = Slots
  <2>1. {s \in Slots : ~children[s].used} = {}
    BY FirstSlotFinds, Numbers DEF UnusedSlot
  <2> QED
    BY <2>1 DEF Used
<1>4. Used' = Used /\ Claiming' = Claiming \ {t} /\ t \in Claiming
  BY <1>1, <1>2 DEF Used, Claiming, Idle
<1>5. /\ Cardinality(Claiming') = Cardinality(Claiming) - 1 /\ Cardinality(Claiming) > 0
      /\ Cardinality(Claiming) \in Nat
  BY <1>4, TablesFinite, Counts
<1>6. Cardinality(Used) = process_capacity /\ process_capacity \in Nat
  BY <1>3, Numbers, CapacityAssumption
<1>7. processes \in 0 .. MAX_PROCESSES /\ MAX_PROCESSES \in Nat
  BY CapacityAssumption DEF TypeOK
<1>8. HostCounts' /\ processes' \in 0 .. MAX_PROCESSES
  BY <1>1, <1>4, <1>5, <1>6, <1>7 DEF HostCounts
<1>9. NeverRefused'
  BY <1>5, <1>6, <1>7 DEF NeverRefused, HostCounts
<1>10. TypeOK'
  BY <1>1, <1>2, <1>8 DEF TypeOK, LaneStates
<1>11. SlotsOwned'
  BY <1>1, <1>2 DEF SlotsOwned, Filling, Idle
<1>12. PidsOwned'
  BY <1>1, <1>2 DEF PidsOwned, HasPid, Answers, InTable, Idle
<1>13. TableKnows'
  BY <1>1, <1>2 DEF TableKnows, InTable, Used, Idle
<1> QED
  BY <1>1, <1>8, <1>9, <1>10, <1>11, <1>12, <1>13 DEF NoLostExit

(* The slot claimed was nobody's.                                          *)
LEMMA ClaimSlotTaken ==
  ASSUME TableInv, NEW t \in Lanes, ClaimSlot(t), UnusedSlot # NoSlot
  PROVE  TableInv'
<1> USE DEF TableInv
<1> DEFINE s == UnusedSlot
           x == [at |-> "spawn", slot |-> s, pid |-> NoPid]
<1>0. s \in Slots /\ children[s].used = FALSE
  <2>1. {r \in Slots : ~children[r].used} # {}
    BY FirstSlotFinds DEF UnusedSlot
  <2>2. s \in {r \in Slots : ~children[r].used}
    BY <2>1, FirstSlotFinds DEF UnusedSlot
  <2> QED
    BY <2>2 DEF TypeOK
<1>1. /\ lane' = [lane EXCEPT ![t] = x] /\ refused' = refused
      /\ children' = [children EXCEPT ![s] = Claimed]
      /\ processes' = processes /\ lane[t].at = "claim"
      /\ UNCHANGED <<spawning, asleep, reaper, collected, live, zombies, next_pid,
                     known, statuses>>
  BY DEF ClaimSlot, kernelVars, TypeOK
<1>x. x \in LaneStates
  BY <1>0 DEF LaneStates
<1>y. x.at = "spawn" /\ x.slot = s
  OBVIOUS
<1> HIDE DEF s, x
<1>2. /\ lane' \in [Lanes -> LaneStates] /\ lane'[t] = x
      /\ \A u \in Lanes : u # t => lane'[u] = lane[u]
  BY <1>1, <1>x, LaneMoves
<1>3. /\ children' \in [Slots -> ChildStates] /\ children'[s] = Claimed
      /\ \A r \in Slots : r # s => children'[r] = children[r]
  BY <1>0, <1>1, IdleTyped, SlotChanges
<1>c. Claimed.used = TRUE /\ Claimed.pid = NoPid /\ Claimed.reaped = FALSE
  BY DEF Claimed, Free
<1>4. Used' = Used \cup {s} /\ s \notin Used /\ Claiming' = Claiming \ {t} /\ t \in Claiming
  BY <1>0, <1>1, <1>2, <1>3, <1>c, <1>y DEF Used, Claiming
<1>5. HostCounts'
  <2>1. /\ Cardinality(Claiming') = Cardinality(Claiming) - 1
        /\ Cardinality(Claiming) \in Nat
    BY <1>4, TablesFinite, Counts
  <2>2. Cardinality(Used') = Cardinality(Used) + 1 /\ Cardinality(Used) \in Nat
    BY <1>4, TablesFinite, Counts
  <2> QED
    BY <1>1, <2>1, <2>2 DEF HostCounts
<1>6. TypeOK'
  BY <1>1, <1>2, <1>3 DEF TypeOK, LaneStates, ChildStates
<1>7. SlotsOwned'
  <2>1. \A u \in Lanes : u # t /\ (Filling(u) \/ lane[u].at = "wait") => lane[u].slot # s
    BY <1>0, <1>c DEF SlotsOwned
  <2> QED
    BY <1>0, <1>1, <1>2, <1>3, <1>y, <2>1 DEF SlotsOwned, Filling
<1>i. \A p \in Pids : InTable(p)' <=> InTable(p)
  BY <1>0, <1>3, <1>c, Numbers DEF InTable
<1>8. PidsOwned'
  <2>1. \A p \in known : p \in Pids
    BY DEF TypeOK
  <2> QED
    BY <1>1, <1>2, <1>y, <1>i, <2>1 DEF PidsOwned, HasPid, Answers
<1>9. TableKnows'
  <2>0. Used \subseteq Slots /\ 0 < next_pid
    BY NextPid DEF Used
  <2>1. \A r \in Used' : r = s \/ (r \in Used /\ children'[r] = children[r])
    BY <1>3, <1>4, <2>0
  <2>2. \A u \in Lanes : lane'[u].at = "publish" => u # t /\ lane[u].pid \in Pids
    BY <1>2, <1>y DEF PidsOwned, HasPid
  <2>3. \A r \in Used' : children'[r].pid < next_pid
    BY <1>3, <1>c, <2>0, <2>1 DEF TableKnows, NoPid
  <2>4. \A r \in Used' : children'[r].reaped => children'[r].status = children'[r].pid
    BY <1>3, <1>c, <2>1 DEF TableKnows
  <2>5. \A q, r \in Used' :
          children'[q].pid # NoPid /\ children'[q].pid = children'[r].pid => q = r
    BY <1>3, <1>c, <2>1 DEF TableKnows
  <2> QED
    BY <1>1, <1>2, <1>i, <2>2, <2>3, <2>4, <2>5 DEF TableKnows
<1>10. NoLostExit'
  BY <1>1, <1>3, <1>c DEF NoLostExit
<1> QED
  BY <1>1, <1>5, <1>6, <1>7, <1>8, <1>9, <1>10 DEF NeverRefused

(* posix_spawn: a new child, with the mutex held.                          *)
LEMMA SpawnStep ==
  ASSUME TableInv, NEW t \in Lanes, Spawn(t)
  PROVE  TableInv'
<1> USE DEF TableInv
<1> DEFINE x == [lane[t] EXCEPT !.at = "publish", !.pid = next_pid]
<1>0. next_pid \in Pids /\ next_pid \in Nat
  BY NextPid DEF Spawn
<1>1. /\ lane' = [lane EXCEPT ![t] = x] /\ lane[t].at = "spawn"
      /\ next_pid' = next_pid + 1 /\ live' = live \cup {next_pid} /\ spawning' = {t}
      /\ spawning = {}
      /\ UNCHANGED <<children, asleep, reaper, collected, zombies, processes,
                     known, statuses, refused>>
  BY DEF Spawn, hostVars, MutexFree
<1>x. x \in LaneStates /\ x.at = "publish" /\ x.pid = next_pid /\ x.slot = lane[t].slot
  BY <1>0 DEF LaneStates, TypeOK
<1> HIDE DEF x
<1>2. /\ lane' \in [Lanes -> LaneStates] /\ lane'[t] = x
      /\ \A u \in Lanes : u # t => lane'[u] = lane[u]
  BY <1>1, <1>x, LaneMoves
<1>3. Used' = Used /\ Claiming' = Claiming
  BY <1>1, <1>2, <1>x DEF Used, Claiming
<1>4. TypeOK'
  <2>1. next_pid' \in 1 .. MaxPid + 1
    BY <1>0, <1>1, PidAssumption DEF Pids
  <2> QED
    BY <1>0, <1>1, <1>2, <2>1 DEF TypeOK, LaneStates
<1>5. SlotsOwned'
  BY <1>1, <1>2, <1>x DEF SlotsOwned, Filling
<1>i. \A p : InTable(p)' <=> InTable(p)
  BY <1>1 DEF InTable
<1>l. \A p \in Nat : p < next_pid => p < next_pid' /\ p # next_pid
  BY <1>0, <1>1
<1>6. PidsOwned'
  <2>1. \A p \in known : p \in Nat
    BY Numbers DEF TypeOK
  <2>2. next_pid \notin known /\ next_pid < next_pid'
    BY <1>0, <1>1, <1>l, <2>1 DEF PidsOwned
  <2>3. \A u \in Lanes : HasPid(u) => u # t /\ lane[u].pid \in Nat /\ lane[u].pid # next_pid
    BY <1>1, <1>l, Numbers DEF PidsOwned, HasPid, Answers
  <2>4. \A u \in Lanes : u # t => (HasPid(u)' <=> HasPid(u)) /\ (Answers(u)' <=> Answers(u))
    BY <1>2 DEF HasPid, Answers
  <2>5. ~Answers(t)'
    BY <1>2, <1>x DEF Answers
  <2>6. \A u \in Lanes : HasPid(u)' =>
          lane'[u].pid \in Pids /\ lane'[u].pid < next_pid' /\ lane'[u].pid \notin known'
    BY <1>0, <1>1, <1>2, <1>x, <1>l, <2>2, <2>3, <2>4 DEF PidsOwned
  <2>7. \A u, v \in Lanes : HasPid(u)' /\ HasPid(v)' /\ lane'[u].pid = lane'[v].pid => u = v
    BY <1>2, <1>x, <2>3, <2>4 DEF PidsOwned
  <2>8. \A u \in Lanes : Answers(u)' => InTable(lane[u].pid)'
    <3>1. \A u \in Lanes : Answers(u)' => InTable(lane[u].pid) /\ lane'[u] = lane[u]
      BY <1>2, <2>4, <2>5 DEF PidsOwned
    <3> QED
      BY <1>1, <3>1 DEF InTable
  <2>9. \A p \in known' : p < next_pid' /\ InTable(p)'
    BY <1>1, <1>i, <1>l, <2>1 DEF PidsOwned
  <2> QED
    BY <2>6, <2>7, <2>8, <2>9 DEF PidsOwned
<1>7. TableKnows'
  <2>1. \A s \in Used : children[s].pid \in Nat
    <3>1. \A s \in Used : children[s].pid \in Pids \cup {NoPid}
      BY DEF TypeOK, Used
    <3>2. Pids \cup {NoPid} \subseteq Nat
      BY Numbers DEF NoPid
    <3> QED
      BY <3>1, <3>2
  <2>2. \A s \in Used : children[s].pid < next_pid' /\ children[s].pid # next_pid
    BY <1>l, <2>1 DEF TableKnows
  <2>3. ~InTable(next_pid)
    BY <2>2 DEF InTable, Used
  <2>4. \A u \in Lanes : lane'[u].at = "publish" => u = t
    BY <1>1, <1>2 DEF TableKnows
  <2> QED
    BY <1>1, <1>2, <1>3, <1>x, <1>i, <2>2, <2>3, <2>4 DEF TableKnows
<1>8. HostCounts' /\ NoLostExit' /\ NeverRefused'
  BY <1>1, <1>3 DEF HostCounts, NoLostExit, NeverRefused
<1> QED
  BY <1>4, <1>5, <1>6, <1>7, <1>8

(* The pid goes into the slot of the lane that spawned it.                 *)
LEMMA PublishPidStep ==
  ASSUME TableInv, NEW t \in Lanes, PublishPid(t)
  PROVE  TableInv'
<1> USE DEF TableInv
<1> DEFINE s == lane[t].slot
           p == lane[t].pid
           c == [children[s] EXCEPT !.pid = p]
           x == [lane[t] EXCEPT !.at = "spawned"]
<1>0. /\ s \in Slots /\ children[s] = Claimed
      /\ p \in Pids /\ p < next_pid /\ p \notin known /\ ~InTable(p)
      /\ spawning = {t} /\ p \in live \cup zombies \cup {collected}
  BY DEF PublishPid, SlotsOwned, PidsOwned, TableKnows, Filling, HasPid
<1>1. /\ lane' = [lane EXCEPT ![t] = x] /\ lane[t].at = "publish"
      /\ children' = [children EXCEPT ![s] = c]
      /\ asleep' = {} /\ spawning' = {}
      /\ UNCHANGED <<reaper, collected, live, zombies, next_pid, processes, known, statuses,
                     refused>>
  BY DEF PublishPid, hostVars, kernelVars
<1>x. x \in LaneStates /\ x.at = "spawned" /\ x.pid = p
  BY ZenonT(60) DEF LaneStates, TypeOK
<1>c. /\ c \in ChildStates /\ c.used = TRUE /\ c.pid = p /\ c.reaped = FALSE
      /\ children[s].used = TRUE /\ children[s].pid = NoPid
  BY <1>0 DEF ChildStates, Claimed, Free
<1> HIDE DEF s, p, c, x
<1>2. /\ lane' \in [Lanes -> LaneStates] /\ lane'[t] = x
      /\ \A u \in Lanes : u # t => lane'[u] = lane[u]
  BY <1>1, <1>x, LaneMoves
<1>3. /\ children' \in [Slots -> ChildStates] /\ children'[s] = c
      /\ \A r \in Slots : r # s => children'[r] = children[r]
  BY <1>0, <1>1, <1>c, SlotChanges
<1>4. Used' = Used /\ Claiming' = Claiming
  BY <1>0, <1>1, <1>2, <1>3, <1>c, <1>x DEF Used, Claiming
<1>i. \A q \in Pids : InTable(q)' <=> InTable(q) \/ q = p
  BY <1>0, <1>3, <1>c, Numbers DEF InTable
<1>5. TypeOK'
  BY <1>1, <1>2, <1>3 DEF TypeOK, LaneStates, ChildStates
<1>6. SlotsOwned'
  <2>1. \A u \in Lanes : u # t /\ Filling(u) => lane[u].slot # s
    BY <1>1 DEF SlotsOwned, Filling, s
  <2>2. \A u \in Lanes : lane[u].at = "wait" => lane[u].slot # s
    BY <1>c, Numbers DEF SlotsOwned, PidsOwned, HasPid, Answers
  <2> QED
    BY <1>1, <1>2, <1>3, <1>x, <2>1, <2>2 DEF SlotsOwned, Filling
<1>7. PidsOwned'
  <2>1. \A u \in Lanes : /\ HasPid(u)' <=> HasPid(u)
                         /\ Answers(u)' <=> Answers(u) \/ u = t
                         /\ lane'[u].pid = lane[u].pid
    BY <1>1, <1>2, <1>x DEF HasPid, Answers, p
  <2>2. \A q \in known : q \in Pids
    BY DEF TypeOK
  <2>3. /\ \A u \in Lanes : HasPid(u)' =>
             lane'[u].pid \in Pids /\ lane'[u].pid < next_pid' /\ lane'[u].pid \notin known'
        /\ \A u, v \in Lanes : HasPid(u)' /\ HasPid(v)' /\ lane'[u].pid = lane'[v].pid => u = v
    BY <1>1, <2>1 DEF PidsOwned
  <2>4. \A u \in Lanes : Answers(u)' => InTable(lane[u].pid)'
    <3> SUFFICES ASSUME NEW u \in Lanes, Answers(u)' PROVE InTable(lane[u].pid)'
      OBVIOUS
    <3>1. InTable(lane[u].pid) \/ lane[u].pid = p
      BY <2>1 DEF PidsOwned, p
    <3>2. lane[u].pid \in Pids
      BY <1>1, <2>1 DEF PidsOwned, HasPid, Answers
    <3>3. \E r \in Slots : children'[r].used /\ children'[r].pid = lane[u].pid
      BY <1>i, <3>1, <3>2 DEF InTable
    <3> QED
      BY <2>1, <3>3 DEF InTable
  <2>5. \A q \in known' : q < next_pid' /\ InTable(q)'
    BY <1>1, <1>i, <2>2 DEF PidsOwned
  <2> QED
    BY <2>3, <2>4, <2>5 DEF PidsOwned
<1>8. TableKnows'
  <2>1. \A r \in Used : r # s => children'[r] = children[r]
    BY <1>3 DEF Used
  <2>2. \A r \in Used : children[r].pid # p
    BY <1>0 DEF InTable, Used
  <2>3. \A u \in Lanes : lane'[u].at # "publish"
    BY <1>0, <1>2, <1>x DEF TableKnows
  <2>4. \A r \in Used' : children'[r].pid < next_pid'
    BY <1>0, <1>1, <1>3, <1>4, <1>c, <2>1 DEF TableKnows
  <2>5. \A r \in Used' : children'[r].reaped => children'[r].status = children'[r].pid
    BY <1>3, <1>4, <1>c, <2>1 DEF TableKnows
  <2>6. \A q, r \in Used' :
          children'[q].pid # NoPid /\ children'[q].pid = children'[r].pid => q = r
    BY <1>3, <1>4, <1>c, <2>1, <2>2 DEF TableKnows
  <2> QED
    BY <1>1, <2>3, <2>4, <2>5, <2>6 DEF TableKnows
<1>9. NoLostExit'
  BY <1>0, <1>1, <1>3, <1>c DEF NoLostExit
<1> QED
  BY <1>1, <1>4, <1>5, <1>6, <1>7, <1>8, <1>9 DEF HostCounts, NeverRefused

(* A step that leaves the table and the kernel alone, and changes what one *)
(* lane answers for.                                                       *)
LEMMA TableAlone ==
  ASSUME TableInv, NEW t \in Lanes, lane[t].at \notin {"claim", "spawn", "publish"},
         NEW x \in LaneStates, lane' = [lane EXCEPT ![t] = x],
         x.at \in {"idle", "reap", "wait"},
         x.at = "wait" => x.slot \in Slots /\ children[x.slot].used /\ children[x.slot].pid = x.pid,
         UNCHANGED <<children, spawning, asleep, reaper, collected, kernelVars, processes,
                     statuses, refused>>,
         known' \in SUBSET Pids,
         PidsOwned'
  PROVE  TableInv'
<1> USE DEF TableInv
<1>1. /\ lane' \in [Lanes -> LaneStates] /\ lane'[t] = x
      /\ \A u \in Lanes : u # t => lane'[u] = lane[u]
  BY LaneMoves
<1>2. UNCHANGED <<live, zombies, next_pid>>
  BY DEF kernelVars
<1>3. Used' = Used /\ Claiming' = Claiming
  BY <1>1 DEF Used, Claiming
<1>4. TypeOK'
  BY <1>1, <1>2 DEF TypeOK, LaneStates
<1>5. SlotsOwned'
  BY <1>1 DEF SlotsOwned, Filling
<1>6. TableKnows'
  BY <1>1, <1>2, <1>3 DEF TableKnows, InTable
<1> QED
  BY <1>2, <1>3, <1>4, <1>5, <1>6 DEF HostCounts, NoLostExit, NeverRefused

LEMMA SpawnReplyStep ==
  ASSUME TableInv, NEW t \in Lanes, SpawnReply(t)
  PROVE  TableInv'
<1> USE DEF TableInv
<1>1. /\ lane' = [lane EXCEPT ![t] = Idle] /\ lane[t].at = "spawned"
      /\ known' = known \cup {lane[t].pid}
      /\ UNCHANGED <<children, spawning, asleep, reaper, collected, kernelVars, processes,
                     statuses, refused>>
  BY DEF SpawnReply
<1>2. HasPid(t) /\ Answers(t)
  BY <1>1 DEF HasPid, Answers
<1>3. lane[t].pid \in Pids /\ lane[t].pid < next_pid /\ InTable(lane[t].pid)
  BY <1>2 DEF PidsOwned
<1>4. lane'[t] = Idle /\ \A u \in Lanes : u # t => lane'[u] = lane[u]
  BY <1>1, IdleTyped, LaneMoves
<1>5. Idle.at = "idle"
  BY DEF Idle
<1>6. PidsOwned'
  <2>1. \A u \in Lanes : /\ HasPid(u)' <=> HasPid(u) /\ u # t
                         /\ Answers(u)' <=> Answers(u) /\ u # t
    BY <1>4, <1>5 DEF HasPid, Answers
  <2>2. \A u \in Lanes : HasPid(u)' => lane'[u] = lane[u] /\ lane[u].pid # lane[t].pid
    BY <1>2, <1>4, <2>1 DEF PidsOwned
  <2>3. \A u \in Lanes : Answers(u)' => InTable(lane[u].pid)'
    BY <1>1, <1>4, <2>1 DEF PidsOwned, InTable
  <2>4. \A q \in known' : q < next_pid' /\ InTable(q)'
    BY <1>1, <1>3 DEF PidsOwned, InTable, kernelVars
  <2> QED
    BY <1>1, <2>1, <2>2, <2>3, <2>4 DEF PidsOwned, kernelVars
<1> QED
  BY <1>1, <1>3, <1>5, <1>6, IdleTyped, TableAlone DEF TypeOK

LEMMA ReapRequestStep ==
  ASSUME TableInv, NEW t \in Lanes, NEW p \in known, ReapRequest(t, p)
  PROVE  TableInv'
<1> USE DEF TableInv
<1> DEFINE x == [at |-> "reap", slot |-> NoSlot, pid |-> p]
<1>1. /\ lane' = [lane EXCEPT ![t] = x] /\ lane[t].at = "idle"
      /\ known' = known \ {p}
      /\ UNCHANGED <<children, spawning, asleep, reaper, collected, kernelVars, processes,
                     statuses, refused>>
  BY DEF ReapRequest
<1>2. p \in Pids /\ p < next_pid /\ InTable(p)
  BY DEF PidsOwned, TypeOK
<1>3. x \in LaneStates /\ x.at = "reap" /\ x.pid = p
  BY <1>2 DEF LaneStates
<1> HIDE DEF x
<1>4. lane'[t] = x /\ \A u \in Lanes : u # t => lane'[u] = lane[u]
  BY <1>1, <1>3, LaneMoves
<1>5. PidsOwned'
  <2>1. \A u \in Lanes : u # t => (HasPid(u)' <=> HasPid(u)) /\ (Answers(u)' <=> Answers(u))
    BY <1>4 DEF HasPid, Answers
  <2>2. \A u \in Lanes : u # t /\ HasPid(u) => lane[u].pid # p
    BY DEF PidsOwned
  <2>3. \A u \in Lanes : Answers(u)' => InTable(lane[u].pid)'
    BY <1>1, <1>2, <1>3, <1>4, <2>1 DEF PidsOwned, InTable
  <2>4. \A q \in known' : q < next_pid' /\ InTable(q)'
    BY <1>1 DEF PidsOwned, InTable, kernelVars
  <2>5. \A u \in Lanes : HasPid(u)' =>
          lane'[u].pid \in Pids /\ lane'[u].pid < next_pid' /\ lane'[u].pid \notin known'
    BY <1>1, <1>2, <1>3, <1>4, <2>1 DEF PidsOwned, kernelVars
  <2>6. \A u, v \in Lanes : HasPid(u)' /\ HasPid(v)' /\ lane'[u].pid = lane'[v].pid => u = v
    BY <1>3, <1>4, <2>1, <2>2 DEF PidsOwned
  <2> QED
    BY <2>3, <2>4, <2>5, <2>6 DEF PidsOwned
<1> QED
  BY <1>1, <1>3, <1>5, TableAlone DEF TypeOK

(* A reap finds its process in the table.                                  *)
LEMMA ReapFinds ==
  ASSUME TableInv, NEW p \in Pids
  PROVE  IF InTable(p)
         THEN /\ SlotOf(p) \in Slots
              /\ children[SlotOf(p)].used /\ children[SlotOf(p)].pid = p
         ELSE SlotOf(p) = NoSlot
<1> DEFINE wanted == {s \in Slots : children[s].used /\ children[s].pid = p}
<1>1. IF wanted = {} THEN FirstSlot(wanted) = NoSlot ELSE FirstSlot(wanted) \in wanted
  BY FirstSlotFinds
<1>2. InTable(p) <=> wanted # {}
  BY DEF InTable
<1> QED
  BY <1>1, <1>2 DEF SlotOf

LEMMA FindChildStep ==
  ASSUME TableInv, NEW t \in Lanes, FindChild(t)
  PROVE  TableInv'
<1> USE DEF TableInv
<1> DEFINE s == SlotOf(lane[t].pid)
           x == [at |-> "wait", slot |-> s, pid |-> lane[t].pid]
<1>1. lane[t].at = "reap" /\ HasPid(t) /\ Answers(t)
  BY DEF FindChild, HasPid, Answers
<1>2. lane[t].pid \in Pids /\ InTable(lane[t].pid)
  BY <1>1 DEF PidsOwned
<1>3. s \in Slots /\ children[s].used /\ children[s].pid = lane[t].pid /\ s # NoSlot
  BY <1>2, ReapFinds, Numbers
<1>4. /\ lane' = [lane EXCEPT ![t] = x]
      /\ UNCHANGED <<children, spawning, asleep, reaper, collected, kernelVars, processes,
                     known, statuses, refused>>
  BY <1>3 DEF FindChild
<1>5. x \in LaneStates /\ x.at = "wait" /\ x.pid = lane[t].pid /\ x.slot = s
  BY <1>2, <1>3 DEF LaneStates
<1> HIDE DEF x, s
<1>6. lane'[t] = x /\ \A u \in Lanes : u # t => lane'[u] = lane[u]
  BY <1>4, <1>5, LaneMoves
<1>7. PidsOwned'
  <2>1. \A u \in Lanes : /\ HasPid(u)' <=> HasPid(u)
                         /\ Answers(u)' <=> Answers(u)
                         /\ lane'[u].pid = lane[u].pid
    BY <1>1, <1>5, <1>6 DEF HasPid, Answers
  <2> QED
    BY <1>4, <2>1 DEF PidsOwned, InTable, kernelVars
<1> QED
  BY <1>1, <1>3, <1>4, <1>5, <1>7, TableAlone DEF TypeOK

-----------------------------------------------------------------------------
(* Freeing the slot of a lane that is done: no other lane has that slot,   *)
(* and nobody answers for the process that was in it.                      *)
LEMMA FreeSlot ==
  ASSUME TableInv, NEW t \in Lanes, lane[t].at \in {"spawn", "wait"},
         lane' = [lane EXCEPT ![t] = Idle],
         children' = [children EXCEPT ![lane[t].slot].used = FALSE],
         asleep' = {}, processes' = processes - 1,
         UNCHANGED <<spawning, reaper, collected, kernelVars, known, refused>>,
         statuses' \in [Pids -> Pids \cup {NoPid}],
         \A p \in Pids : statuses'[p] \in {NoPid, p}
  PROVE  TableInv'
<1> USE DEF TableInv
<1> DEFINE s == lane[t].slot
           c == [children[s] EXCEPT !.used = FALSE]
<1>0. s \in Slots /\ children[s].used = TRUE
  BY DEF SlotsOwned, Filling, Claimed, Free, TypeOK
<1>1. /\ lane'[t] = Idle /\ lane' \in [Lanes -> LaneStates]
      /\ \A u \in Lanes : u # t => lane'[u] = lane[u]
  BY IdleTyped, LaneMoves
<1>2. UNCHANGED <<live, zombies, next_pid>>
  BY DEF kernelVars
<1>c. c \in ChildStates /\ c.used = FALSE
  BY <1>0, ZenonT(60) DEF TypeOK, ChildStates
<1>d. children' = [children EXCEPT ![s] = c]
  OBVIOUS
<1> HIDE DEF c
<1>3. /\ children' \in [Slots -> ChildStates] /\ children'[s].used = FALSE
      /\ \A r \in Slots : r # s => children'[r] = children[r]
  BY <1>0, <1>c, <1>d, SlotChanges
<1>e. Idle.at = "idle"
  BY DEF Idle
<1>4. Used' = Used \ {s} /\ s \in Used /\ Claiming' = Claiming
  BY <1>0, <1>1, <1>3, <1>e DEF Used, Claiming
<1>5. HostCounts' /\ processes' \in 0 .. MAX_PROCESSES
  <2>1. /\ Cardinality(Used') = Cardinality(Used) - 1 /\ Cardinality(Used) > 0
        /\ Cardinality(Used) \in Nat
    BY <1>4, TablesFinite, Counts
  <2>2. Cardinality(Claiming) \in Nat
    BY TablesFinite, Counts
  <2>3. processes \in 0 .. MAX_PROCESSES /\ MAX_PROCESSES \in Nat
    BY CapacityAssumption DEF TypeOK
  <2>4. processes = Cardinality(Used) + Cardinality(Claiming)
    BY DEF HostCounts
  <2> QED
    BY <1>4, <2>1, <2>2, <2>3, <2>4 DEF HostCounts
<1>6. TypeOK'
  BY <1>1, <1>2, <1>3, <1>5 DEF TypeOK, LaneStates, ChildStates
<1>7. \A u \in Lanes : u # t /\ (Filling(u) \/ lane[u].at = "wait") => lane[u].slot # s
  <2>1. Claimed.pid = NoPid
    BY DEF Claimed, Free
  <2>2. \A u \in Lanes : lane[u].at = "wait" => lane[u].pid # NoPid
    BY Numbers DEF PidsOwned, HasPid, Answers
  <2>3. CASE lane[t].at = "spawn"
    BY <2>1, <2>2, <2>3 DEF SlotsOwned, Filling
  <2>4. CASE lane[t].at = "wait"
    <3>1. children[s].pid = lane[t].pid /\ lane[t].pid # NoPid
      BY <2>2, <2>4 DEF SlotsOwned
    <3>2. \A u \in Lanes : u # t /\ lane[u].at = "wait" => lane[u].pid # lane[t].pid
      BY <2>4 DEF PidsOwned, HasPid, Answers
    <3> QED
      BY <2>1, <3>1, <3>2 DEF SlotsOwned, Filling
  <2> QED
    BY <2>3, <2>4
<1>8. SlotsOwned'
  BY <1>1, <1>3, <1>7, <1>e DEF SlotsOwned, Filling
<1>9. ASSUME NEW q \in Pids, InTable(q), q = lane[t].pid => lane[t].at # "wait"
      PROVE  InTable(q)'
  <2>1. children[s].pid # q
    BY <1>9, Numbers DEF SlotsOwned, Filling, Claimed, Free
  <2> QED
    BY <1>3, <1>9, <2>1 DEF InTable
<1>10. PidsOwned'
  <2>1. \A u \in Lanes : /\ HasPid(u)' => HasPid(u) /\ u # t
                         /\ Answers(u)' => Answers(u) /\ u # t
    BY <1>1, <1>e DEF HasPid, Answers
  <2>2. lane[t].at = "wait" => HasPid(t)
    BY DEF HasPid, Answers
  <2>3. \A u \in Lanes : Answers(u)' => InTable(lane[u].pid)'
    <3> SUFFICES ASSUME NEW u \in Lanes, Answers(u)' PROVE InTable(lane[u].pid)'
      OBVIOUS
    <3>1. HasPid(u) /\ u # t /\ Answers(u)
      BY <2>1 DEF HasPid
    <3>2. lane[u].pid \in Pids /\ InTable(lane[u].pid)
      BY <3>1 DEF PidsOwned
    <3>3. lane[u].pid = lane[t].pid => lane[t].at # "wait"
      BY <2>2, <3>1 DEF PidsOwned
    <3>4. \E r \in Slots : children'[r].used /\ children'[r].pid = lane[u].pid
      BY <1>9, <3>2, <3>3 DEF InTable
    <3> QED
      BY <1>1, <3>1, <3>4 DEF InTable
  <2>4. \A q \in known' : q < next_pid' /\ InTable(q)'
    <3> SUFFICES ASSUME NEW q \in known PROVE q < next_pid /\ InTable(q)'
      BY <1>2
    <3>1. q \in Pids /\ q < next_pid /\ InTable(q)
      BY DEF PidsOwned, TypeOK
    <3>2. q = lane[t].pid => lane[t].at # "wait"
      BY <2>2 DEF PidsOwned
    <3> QED
      BY <1>9, <3>1, <3>2
  <2> QED
    BY <1>1, <1>2, <2>1, <2>3, <2>4 DEF PidsOwned
<1>11. TableKnows'
  <2>1. \A r \in Used' : r \in Used /\ children'[r] = children[r]
    BY <1>3, <1>4 DEF Used
  <2>2. \A u \in Lanes : lane'[u].at = "publish" => u # t /\ lane'[u] = lane[u]
    BY <1>1, <1>e
  <2>3. \A q : InTable(q)' => InTable(q)
    BY <2>1 DEF InTable, Used
  <2>4. \A u \in Lanes : lane'[u].at = "publish" =>
          /\ spawning' = {u} /\ ~InTable(lane[u].pid)'
          /\ lane'[u].pid \in live' \cup zombies' \cup {collected'}
    <3> SUFFICES ASSUME NEW u \in Lanes, lane'[u].at = "publish"
                 PROVE  /\ spawning = {u} /\ ~InTable(lane[u].pid)'
                        /\ lane'[u].pid \in live \cup zombies \cup {collected}
      BY <1>2
    <3>1. /\ spawning = {u} /\ ~InTable(lane[u].pid)
          /\ lane'[u].pid \in live \cup zombies \cup {collected}
      BY <2>2 DEF TableKnows
    <3>2. ~\E r \in Slots : children'[r].used /\ children'[r].pid = lane[u].pid
      BY <2>3, <3>1 DEF InTable
    <3> QED
      BY <2>2, <3>1, <3>2 DEF InTable
  <2> QED
    BY <1>2, <2>1, <2>4 DEF TableKnows
<1>12. NoLostExit' /\ NeverRefused'
  BY <1>2, <1>3 DEF NoLostExit, NeverRefused
<1> QED
  BY <1>5, <1>6, <1>8, <1>10, <1>11, <1>12

LEMMA SpawnFailsStep ==
  ASSUME TableInv, NEW t \in Lanes, SpawnFails(t)
  PROVE  TableInv'
<1>1. statuses' = statuses
  BY DEF SpawnFails
<1>2. statuses' \in [Pids -> Pids \cup {NoPid}] /\ \A p \in Pids : statuses'[p] \in {NoPid, p}
  BY <1>1 DEF TableInv, TypeOK, TableKnows
<1> QED
  BY <1>2, FreeSlot DEF SpawnFails

(* The status in a slot is that of the process in it.                      *)
LEMMA TakeStatusStep ==
  ASSUME TableInv, NEW t \in Lanes, TakeStatus(t)
  PROVE  TableInv'
<1>0. lane[t].at = "wait" /\ children[lane[t].slot].reaped
  BY DEF TakeStatus
<1>1. lane[t].slot \in Used /\ children[lane[t].slot].pid = lane[t].pid
  BY <1>0 DEF TableInv, SlotsOwned, Used
<1>2. children[lane[t].slot].status = lane[t].pid
  BY <1>0, <1>1 DEF TableInv, TableKnows
<1>3. lane[t].pid \in Pids
  BY <1>0 DEF TableInv, PidsOwned, HasPid, Answers
<1>4. statuses' = [statuses EXCEPT ![lane[t].pid] = lane[t].pid]
  BY <1>2 DEF TakeStatus
<1>5. statuses' \in [Pids -> Pids \cup {NoPid}] /\ \A p \in Pids : statuses'[p] \in {NoPid, p}
  BY <1>3, <1>4 DEF TableInv, TypeOK, TableKnows
<1> QED
  BY <1>0, <1>5, FreeSlot DEF TakeStatus

(* The reaper marks the slot of the process it has collected, and only it. *)
LEMMA DeliverStep ==
  ASSUME TableInv, Deliver
  PROVE  TableInv'
<1> USE DEF TableInv
<1>0. reaper = "collected" /\ collected \in Pids /\ spawning = {}
  BY DEF Deliver, MutexFree, TableKnows
<1>1. /\ collected' = NoPid /\ reaper' = "waitpid" /\ asleep' = {}
      /\ UNCHANGED <<spawning, lane, live, zombies, next_pid, processes, known, statuses, refused>>
  BY DEF Deliver, Delivered, kernelVars, hostVars
<1>2. \A u \in Lanes : lane[u].at # "publish"
  BY <1>0 DEF TableKnows
<1>3. CASE InTable(collected)
  <2> DEFINE s == SlotOf(collected)
             c == [children[s] EXCEPT !.status = collected, !.reaped = TRUE]
  <2>1. s \in Slots /\ children[s].used = TRUE /\ children[s].pid = collected /\ s # NoSlot
    BY <1>0, <1>3, ReapFinds, Numbers DEF TypeOK
  <2>2. children' = [children EXCEPT ![s] = c]
    BY <2>1 DEF Deliver, Delivered
  <2>3. /\ c \in ChildStates /\ c.used = TRUE /\ c.pid = collected /\ c.reaped = TRUE
        /\ c.status = collected
    BY <1>0, <2>1, ZenonT(60) DEF ChildStates, TypeOK
  <2> HIDE DEF c, s
  <2>4. /\ children' \in [Slots -> ChildStates] /\ children'[s] = c
        /\ \A r \in Slots : r # s => children'[r] = children[r]
    BY <2>1, <2>2, <2>3, SlotChanges
  <2>5. \A r \in Slots : /\ children'[r].used = children[r].used
                         /\ children'[r].pid = children[r].pid
    BY <2>1, <2>3, <2>4
  <2>6. Used' = Used /\ Claiming' = Claiming
    BY <1>1, <2>5 DEF Used, Claiming
  <2>7. TypeOK'
    BY <1>1, <2>4 DEF TypeOK, ChildStates
  <2>8. SlotsOwned'
    <3>1. \A u \in Lanes : Filling(u) => lane[u].slot # s
      BY <1>0, <2>1, Numbers DEF SlotsOwned, Claimed, Free
    <3> QED
      BY <1>1, <2>4, <2>5, <3>1 DEF SlotsOwned, Filling
  <2>9. PidsOwned'
    BY <1>1, <2>5 DEF PidsOwned, HasPid, Answers, InTable
  <2>10. TableKnows'
    <3>1. \A r \in Used : r \in Slots
      BY DEF Used
    <3>2. \A r \in Used' : children'[r].reaped => children'[r].status = children'[r].pid
      BY <2>3, <2>4, <2>6, <3>1 DEF TableKnows
    <3>3. \A r \in Used' : children'[r].pid < next_pid'
      BY <1>1, <2>5, <2>6, <3>1 DEF TableKnows
    <3>4. \A q, r \in Used' :
            children'[q].pid # NoPid /\ children'[q].pid = children'[r].pid => q = r
      BY <2>5, <2>6, <3>1 DEF TableKnows
    <3> QED
      BY <1>1, <1>2, <3>2, <3>3, <3>4 DEF TableKnows
  <2>11. NoLostExit'
    <3>1. \A r \in Slots : r # s /\ children[r].used => children[r].pid # collected
      BY <1>0, <2>1, Numbers DEF TableKnows, Used
    <3> QED
      BY <1>1, <2>3, <2>4, <3>1 DEF NoLostExit
  <2> QED
    BY <1>1, <2>6, <2>7, <2>8, <2>9, <2>10, <2>11 DEF HostCounts, NeverRefused
<1>4. CASE ~InTable(collected)
  <2>1. children' = children
    BY <1>0, <1>4, ReapFinds DEF Deliver, Delivered
  <2>2. Used' = Used /\ Claiming' = Claiming
    BY <1>1, <2>1 DEF Used, Claiming
  <2>3. TypeOK'
    BY <1>1, <2>1 DEF TypeOK
  <2>4. SlotsOwned' /\ PidsOwned'
    BY <1>1, <2>1 DEF SlotsOwned, Filling, PidsOwned, HasPid, Answers, InTable
  <2>5. TableKnows'
    BY <1>1, <1>2, <2>1, <2>2 DEF TableKnows
  <2>6. NoLostExit'
    BY <1>1, <1>4, <2>1 DEF NoLostExit, InTable
  <2> QED
    BY <1>1, <2>2, <2>3, <2>4, <2>5, <2>6 DEF HostCounts, NeverRefused
<1> QED
  BY <1>3, <1>4

(* A process exits, and one it leaves behind has a new pid.                *)
LEMMA ExitStep ==
  ASSUME TableInv, NEW p \in live, Exit(p)
  PROVE  TableInv'
<1> USE DEF TableInv
<1>1. /\ UNCHANGED <<children, spawning, asleep, lane, reaper, collected, processes, known,
                     statuses, refused>>
      /\ zombies' = zombies \cup {p} /\ live \subseteq live' \cup zombies'
  BY DEF Exit, hostVars
<1>2. p \in Pids /\ next_pid \in Nat
  BY NextPid DEF TypeOK
<1>3. /\ live' \in SUBSET Pids /\ next_pid' \in 1 .. MaxPid + 1
      /\ next_pid' = next_pid \/ next_pid' = next_pid + 1
  <2>1. next_pid \in 1 .. MaxPid + 1 /\ MaxPid \in Nat /\ live \in SUBSET Pids
    BY PidAssumption DEF TypeOK
  <2>2. CASE next_pid' = next_pid /\ live' = live \ {p}
    BY <2>1, <2>2
  <2>3. CASE next_pid <= MaxPid /\ next_pid' = next_pid + 1 /\ live' = (live \ {p}) \cup {next_pid}
    BY <2>1, <2>3 DEF Pids
  <2> QED
    BY <2>2, <2>3 DEF Exit
<1>4. \A q \in Nat : q < next_pid => q < next_pid'
  BY <1>2, <1>3
<1>5. TypeOK'
  BY <1>1, <1>2, <1>3 DEF TypeOK
<1>6. SlotsOwned'
  BY <1>1 DEF SlotsOwned, Filling
<1>7. PidsOwned'
  <2>1. known \subseteq Nat /\ \A t \in Lanes : HasPid(t) => lane[t].pid \in Nat
    BY Numbers DEF TypeOK, PidsOwned
  <2>2. \A t \in Lanes : (HasPid(t)' <=> HasPid(t)) /\ (Answers(t)' <=> Answers(t))
    BY <1>1 DEF HasPid, Answers
  <2> QED
    BY <1>1, <1>4, <2>1, <2>2 DEF PidsOwned, InTable
<1>8. TableKnows'
  <2>1. Used' = Used
    BY <1>1 DEF Used
  <2>2. \A s \in Used : children[s].pid \in Nat
    <3>1. \A s \in Used : children[s].pid \in Pids \cup {NoPid}
      BY DEF TypeOK, Used
    <3>2. Pids \cup {NoPid} \subseteq Nat
      BY Numbers DEF NoPid
    <3> QED
      BY <3>1, <3>2
  <2> QED
    BY <1>1, <1>4, <2>1, <2>2 DEF TableKnows, InTable
<1>9. HostCounts' /\ NoLostExit' /\ NeverRefused'
  BY <1>1 DEF HostCounts, Used, Claiming, NoLostExit, NeverRefused
<1> QED
  BY <1>5, <1>6, <1>7, <1>8, <1>9

(* A step of the reaper or of a sleeper that leaves the table alone.       *)
LEMMA QuietStep ==
  ASSUME TableInv, UNCHANGED <<children, spawning, lane, live, next_pid, hostVars>>,
         asleep' \in SUBSET (Lanes \cup {Reaper}),
         reaper' \in {"waitpid", "collected", "no children"},
         zombies' \in SUBSET Pids, collected' \in Pids \cup {NoPid},
         IF reaper' = "collected" THEN collected' \in Pids ELSE collected' = NoPid,
         zombies \subseteq zombies' \cup {collected'},
         collected = NoPid \/ collected' = collected
  PROVE  TableInv'
<1> USE DEF TableInv
<1>1. UNCHANGED <<processes, known, statuses, refused>>
  BY DEF hostVars
<1>2. TypeOK'
  BY <1>1 DEF TypeOK
<1>3. SlotsOwned'
  BY DEF SlotsOwned, Filling
<1>4. PidsOwned'
  BY <1>1 DEF PidsOwned, HasPid, Answers, InTable
<1>5. \A p \in Pids : p \in live \cup zombies \cup {collected}
                        => p \in live' \cup zombies' \cup {collected'}
  BY Numbers
<1>6. TableKnows'
  <2>1. \A t \in Lanes : lane[t].at = "publish" => lane[t].pid \in Pids
    BY DEF PidsOwned, HasPid
  <2>2. Used' = Used
    BY DEF Used
  <2> QED
    BY <1>1, <1>5, <2>1, <2>2 DEF TableKnows, InTable
<1>7. NoLostExit'
  <2>1. \A s \in Slots : children[s].pid # NoPid => children[s].pid \in Pids
    BY DEF TypeOK
  <2> QED
    BY <1>5, <2>1 DEF NoLostExit
<1> QED
  BY <1>1, <1>2, <1>3, <1>4, <1>6, <1>7 DEF HostCounts, Used, Claiming, NeverRefused

-----------------------------------------------------------------------------
LEMMA TableInit == Init => TableInv
<1> SUFFICES ASSUME Init PROVE TableInv
  OBVIOUS
<1>1. Idle \in LaneStates /\ Idle.at = "idle" /\ Free \in ChildStates /\ Free.used = FALSE
  BY DEF Idle, Free, LaneStates, ChildStates, NoPid, NoSlot
<1>2. /\ \A s \in Slots : children[s] = Free
      /\ \A t \in Lanes : lane[t] = Idle
  BY DEF Init
<1>3. TypeOK
  <2>1. next_pid \in 1 .. MaxPid + 1 /\ processes \in 0 .. MAX_PROCESSES
    BY PidAssumption, CapacityAssumption DEF Init
  <2> QED
    BY <1>1, <2>1 DEF Init, TypeOK, LaneStates, ChildStates
<1>4. Used = {} /\ Claiming = {}
  BY <1>1, <1>2 DEF Used, Claiming
<1>5. HostCounts
  BY <1>4, FS_EmptySet DEF Init, HostCounts
<1>6. SlotsOwned /\ NoLostExit
  BY <1>1, <1>2 DEF SlotsOwned, Filling, NoLostExit
<1>7. PidsOwned
  BY <1>1, <1>2 DEF Init, PidsOwned, HasPid, Answers
<1>8. TableKnows
  BY <1>1, <1>2, <1>4 DEF Init, TableKnows
<1> QED
  BY <1>3, <1>5, <1>6, <1>7, <1>8 DEF TableInv, Init, NeverRefused

LEMMA TableStep == TableInv /\ [Next]_vars => TableInv'
<1> SUFFICES ASSUME TableInv, [Next]_vars PROVE TableInv'
  OBVIOUS
<1>0. /\ asleep \in SUBSET (Lanes \cup {Reaper}) /\ zombies \in SUBSET Pids
      /\ reaper \in {"waitpid", "collected", "no children"}
      /\ IF reaper = "collected" THEN collected \in Pids ELSE collected = NoPid
      /\ collected \in Pids \cup {NoPid}
  BY DEF TableInv, TypeOK, TableKnows
<1>1. CASE UNCHANGED vars
  BY <1>0, <1>1, QuietStep DEF vars, kernelVars
<1>2. ASSUME NEW t \in Lanes, LaneStep(t) PROVE TableInv'
  <2>1. CASE WaitForExit(t)
    BY <1>0, <2>1, QuietStep DEF WaitForExit, kernelVars
  <2>2. CASE ClaimSlot(t)
    BY <2>2, ClaimSlotRefused, ClaimSlotTaken
  <2> QED
    BY <1>2, <2>1, <2>2, SpawnStep, PublishPidStep, SpawnReplyStep, SpawnFailsStep, FindChildStep,
       TakeStatusStep DEF LaneStep
<1>3. ASSUME NEW p \in zombies, WaitPid(p) PROVE TableInv'
  <2>1. /\ collected = NoPid /\ collected' = p /\ reaper' = "collected" /\ p \in Pids
        /\ zombies' = zombies \ {p} /\ asleep' = asleep
        /\ UNCHANGED <<children, spawning, lane, live, next_pid, hostVars>>
    BY <1>0, <1>3 DEF WaitPid
  <2> QED
    BY <1>0, <2>1, QuietStep
<1>4. CASE NoChildren
  <2>1. /\ collected = NoPid /\ reaper' = "no children"
        /\ UNCHANGED <<children, spawning, lane, live, next_pid, hostVars, asleep, collected, zombies>>
    BY <1>0, <1>4 DEF NoChildren, kernelVars
  <2> QED
    BY <1>0, <2>1, QuietStep
<1>5. CASE AwaitChildren
  <2>1. /\ collected = NoPid /\ reaper' \in {"waitpid", "no children"}
        /\ asleep' \in SUBSET (Lanes \cup {Reaper})
        /\ UNCHANGED <<children, spawning, lane, live, next_pid, hostVars, collected, zombies>>
    BY <1>0, <1>5 DEF AwaitChildren, kernelVars
  <2> QED
    BY <1>0, <2>1, QuietStep
<1> QED
  BY <1>1, <1>2, <1>3, <1>4, <1>5, SpawnRequestStep, ReapRequestStep, DeliverStep, ExitStep
  DEF Next, ReaperStep

LEMMA TableInductive == Spec => []TableInv
  BY TableInit, TableStep, PTL DEF Spec

(* The table, the threads, the kernel's processes and the host's view of   *)
(* them keep their types, the host's count of processes included.          *)
THEOREM TableTyped == Spec => []TypeOK
<1>1. TableInv => TypeOK
  BY DEF TableInv
<1> QED
  BY TableInductive, <1>1, PTL

(* However the lanes of agent.c, its reaper, the children and the orphans  *)
(* interleave: a process in the table that is not marked reaped has its    *)
(* exit ahead of it, a reap finds its process and is answered with that    *)
(* process's status, and a host that keeps to the table's capacity is      *)
(* never refused a slot.                                                   *)
THEOREM TableIsTrue == Spec => []TableTrue
<1>1. TableInv => TableTrue
  <2> SUFFICES ASSUME TableInv PROVE TableTrue
    OBVIOUS
  <2>1. ASSUME NEW t \in Lanes, lane[t].at \in {"reap", "wait"}
        PROVE  SlotOf(lane[t].pid) # NoSlot
    <3>1. lane[t].pid \in Pids /\ InTable(lane[t].pid)
      BY <2>1 DEF TableInv, PidsOwned, HasPid, Answers
    <3> QED
      BY <3>1, ReapFinds, Numbers
  <2> QED
    BY <2>1 DEF TableInv, TableKnows, TableTrue, OwnStatus
<1> QED
  BY TableInductive, <1>1, PTL
=============================================================================
