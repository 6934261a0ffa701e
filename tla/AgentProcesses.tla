--------------------------- MODULE AgentProcesses ---------------------------
(***************************************************************************)
(* The process table of the guest agent, distro/guest-agent/agent.c: one   *)
(* thread per lane serves spawn and reap requests, and one thread, the     *)
(* reaper, owns waitpid for every child of the session, including the      *)
(* orphans it adopts.  They share children[] under children_mutex and wait *)
(* on children_changed.                                                    *)
(*                                                                         *)
(* A critical section that makes no blocking call is one step, possible    *)
(* when the mutex is free.  The one that spans posix_spawn is two steps,   *)
(* because the child runs as soon as it exists.  A process id is never     *)
(* used twice here: the kernel comes round to an id only after pid_max     *)
(* others.  The host is client.ts: it takes a process slot before it asks  *)
(* for a spawn, reaps every process it is given once, and returns the slot *)
(* when the reap or a failed spawn is answered.                            *)
(* A definition marked `fault' is a slip this code could have had, used by *)
(* no action: it shows which property would notice it.                     *)
(***************************************************************************)
EXTENDS Integers, FiniteSets

CONSTANTS
  Lanes,              (* the lane threads                                   *)
  process_capacity,
  MAX_PROCESSES,      (* the host's cap on processes it has not reaped      *)
  MaxPid              (* bound: processes ever created                      *)

ASSUME CapacityAssumption ==
  process_capacity \in Nat \ {0} /\ MAX_PROCESSES \in Nat \ {0}
ASSUME PidAssumption == MaxPid \in Nat
ASSUME LanesAssumption == IsFiniteSet(Lanes)

Slots == 1 .. process_capacity
Pids == 1 .. MaxPid
NoPid == 0
NoSlot == 0
Free == [used |-> FALSE, pid |-> NoPid, reaped |-> FALSE, status |-> NoPid]
Claimed == [Free EXCEPT !.used = TRUE]

VARIABLES
  children,
  spawning,     (* the lane that holds the mutex across posix_spawn         *)
  asleep,       (* the threads in pthread_cond_wait(&children_changed)      *)
  lane,         (* each lane thread: what it serves, its slot, its pid      *)
  reaper,       (* the reaper: "waitpid", "collected" or "no children"      *)
  collected,    (* the process whose status it has taken from the kernel    *)
  \* the kernel
  live, zombies, next_pid,
  \* the host
  processes,    (* host process slots in use                                *)
  known,        (* processes the host has been given and not asked to reap  *)
  statuses,     (* pid -> whose exit status the host was given for it       *)
  refused       (* the host was answered EAGAIN                             *)

kernelVars == <<live, zombies, next_pid>>
hostVars == <<processes, known, statuses, refused>>
vars == <<children, spawning, asleep, lane, reaper, collected, kernelVars, hostVars>>

Reaper == "reaper"
Idle == [at |-> "idle", slot |-> NoSlot, pid |-> NoPid]
MutexFree == spawning = {}

Init ==
  /\ children = [s \in Slots |-> Free]
  /\ spawning = {} /\ asleep = {}
  /\ lane = [t \in Lanes |-> Idle]
  /\ reaper = "waitpid" /\ collected = NoPid
  /\ live = {} /\ zombies = {} /\ next_pid = 1
  /\ processes = 0 /\ known = {} /\ refused = FALSE
  /\ statuses = [p \in Pids |-> NoPid]

-----------------------------------------------------------------------------
(***************************************************************************)
(* serve_spawn.                                                            *)
(***************************************************************************)
(* The host's request reaches an idle lane.                                *)
SpawnRequest(t) ==
  /\ lane[t].at = "idle"
  /\ processes < MAX_PROCESSES
  /\ processes' = processes + 1
  /\ lane' = [lane EXCEPT ![t].at = "claim"]
  /\ UNCHANGED <<children, spawning, asleep, reaper, collected, kernelVars,
                 known, statuses, refused>>

(* A search of the table finds the first slot of those it looks for, or    *)
(* none: an unused one, the one of a child.                                *)
FirstSlot(wanted) ==
  IF wanted = {} THEN NoSlot ELSE CHOOSE s \in wanted : \A r \in wanted : s <= r

UnusedSlot == FirstSlot({s \in Slots : ~children[s].used})
SlotOf(p) == FirstSlot({s \in Slots : children[s].used /\ children[s].pid = p})

ClaimSlot(t) ==
  /\ lane[t].at = "claim" /\ MutexFree
  /\ LET s == UnusedSlot
     IN  /\ children' = IF s = NoSlot THEN children ELSE [children EXCEPT ![s] = Claimed]
         /\ lane' = [lane EXCEPT ![t] =
              IF s = NoSlot THEN Idle ELSE [at |-> "spawn", slot |-> s, pid |-> NoPid]]
         /\ refused' = (refused \/ s = NoSlot)
         /\ processes' = IF s = NoSlot THEN processes - 1 ELSE processes
  /\ UNCHANGED <<spawning, asleep, reaper, collected, kernelVars, known, statuses>>

(* posix_spawn, with the mutex held: the child exists and may even exit.   *)
Spawn(t) ==
  /\ lane[t].at = "spawn" /\ MutexFree
  /\ next_pid <= MaxPid
  /\ next_pid' = next_pid + 1
  /\ live' = live \cup {next_pid}
  /\ spawning' = {t}
  /\ lane' = [lane EXCEPT ![t].at = "publish", ![t].pid = next_pid]
  /\ UNCHANGED <<children, asleep, reaper, collected, zombies, hostVars>>

PublishPidSilently(t) ==   \* fault: no broadcast
  /\ lane[t].at = "publish"
  /\ children' = [children EXCEPT ![lane[t].slot].pid = lane[t].pid]
  /\ spawning' = {}
  /\ lane' = [lane EXCEPT ![t].at = "spawned"]
  /\ UNCHANGED <<asleep, reaper, collected, kernelVars, hostVars>>

PublishPid(t) ==
  /\ lane[t].at = "publish"
  /\ children' = [children EXCEPT ![lane[t].slot].pid = lane[t].pid]
  /\ asleep' = {}
  /\ spawning' = {}
  /\ lane' = [lane EXCEPT ![t].at = "spawned"]
  /\ UNCHANGED <<reaper, collected, kernelVars, hostVars>>

SpawnReply(t) ==
  /\ lane[t].at = "spawned"
  /\ known' = known \cup {lane[t].pid}
  /\ lane' = [lane EXCEPT ![t] = Idle]
  /\ UNCHANGED <<children, spawning, asleep, reaper, collected, kernelVars,
                 processes, statuses, refused>>

(* A pipe, a file action or posix_spawn itself fails.                      *)
SpawnFails(t) ==
  /\ lane[t].at = "spawn" /\ MutexFree
  /\ children' = [children EXCEPT ![lane[t].slot].used = FALSE]
  /\ asleep' = {}
  /\ lane' = [lane EXCEPT ![t] = Idle]
  /\ processes' = processes - 1
  /\ UNCHANGED <<spawning, reaper, collected, kernelVars, known, statuses, refused>>

-----------------------------------------------------------------------------
(***************************************************************************)
(* serve_reap.                                                             *)
(***************************************************************************)
ReapRequest(t, p) ==
  /\ lane[t].at = "idle" /\ p \in known
  /\ known' = known \ {p}
  /\ lane' = [lane EXCEPT ![t] = [at |-> "reap", slot |-> NoSlot, pid |-> p]]
  /\ UNCHANGED <<children, spawning, asleep, reaper, collected, kernelVars,
                 processes, statuses, refused>>

(* The table is searched once; then the lane waits on the slot it found.   *)
FindChild(t) ==
  /\ lane[t].at = "reap" /\ MutexFree
  /\ LET s == SlotOf(lane[t].pid)
     IN  /\ lane' = [lane EXCEPT ![t] =
              IF s = NoSlot THEN Idle ELSE [at |-> "wait", slot |-> s, pid |-> @.pid]]
         /\ processes' = IF s = NoSlot THEN processes - 1 ELSE processes
  /\ UNCHANGED <<children, spawning, asleep, reaper, collected, kernelVars,
                 known, statuses, refused>>

(* while (!children[i].reaped) pthread_cond_wait(...)                      *)
WaitForExit(t) ==
  /\ lane[t].at = "wait" /\ t \notin asleep /\ MutexFree
  /\ ~children[lane[t].slot].reaped
  /\ asleep' = asleep \cup {t}
  /\ UNCHANGED <<children, spawning, lane, reaper, collected, kernelVars, hostVars>>

TakeStatus(t) ==
  /\ lane[t].at = "wait" /\ t \notin asleep /\ MutexFree
  /\ children[lane[t].slot].reaped
  /\ statuses' = [statuses EXCEPT ![lane[t].pid] = children[lane[t].slot].status]
  /\ children' = [children EXCEPT ![lane[t].slot].used = FALSE]
  /\ asleep' = {}
  /\ lane' = [lane EXCEPT ![t] = Idle]
  /\ processes' = processes - 1
  /\ UNCHANGED <<spawning, reaper, collected, kernelVars, known, refused>>

-----------------------------------------------------------------------------
(***************************************************************************)
(* The reaper, and the processes themselves.                               *)
(***************************************************************************)
WaitPid(p) ==
  /\ reaper = "waitpid" /\ p \in zombies
  /\ zombies' = zombies \ {p}
  /\ collected' = p
  /\ reaper' = "collected"
  /\ UNCHANGED <<children, spawning, asleep, lane, live, next_pid, hostVars>>

Delivered(s) ==
  /\ children' = IF s = NoSlot THEN children
                 ELSE [children EXCEPT ![s].status = collected, ![s].reaped = TRUE]
  /\ collected' = NoPid
  /\ reaper' = "waitpid"
  /\ UNCHANGED <<spawning, lane, kernelVars, hostVars>>

DeliverUnlocked ==   \* fault: the table is searched without the mutex
  reaper = "collected" /\ Delivered(SlotOf(collected)) /\ asleep' = {}

(* The status goes to the slot of that child; an orphan's is discarded.    *)
Deliver ==
  /\ reaper = "collected" /\ MutexFree
  /\ Delivered(SlotOf(collected))
  /\ asleep' = {}

(* ECHILD: sleep until the table has a child that was not reaped.          *)
NoChildren ==
  /\ reaper = "waitpid" /\ live \cup zombies = {}
  /\ reaper' = "no children"
  /\ UNCHANGED <<children, spawning, asleep, lane, collected, kernelVars, hostVars>>

HasUnreaped == \E s \in Slots :
  children[s].used /\ children[s].pid # NoPid /\ ~children[s].reaped

AwaitChildren ==
  /\ reaper = "no children" /\ Reaper \notin asleep /\ MutexFree
  /\ reaper' = IF HasUnreaped THEN "waitpid" ELSE reaper
  /\ asleep' = IF HasUnreaped THEN asleep ELSE asleep \cup {Reaper}
  /\ UNCHANGED <<children, spawning, lane, collected, kernelVars, hostVars>>

(* A process exits; a child of its own may be left for the agent to adopt. *)
Exit(p) ==
  /\ p \in live
  /\ zombies' = zombies \cup {p}
  /\ \/ live' = live \ {p} /\ UNCHANGED next_pid
     \/ /\ next_pid <= MaxPid
        /\ live' = (live \ {p}) \cup {next_pid}
        /\ next_pid' = next_pid + 1
  /\ UNCHANGED <<children, spawning, asleep, lane, reaper, collected, hostVars>>

LaneStep(t) ==
  \/ ClaimSlot(t) \/ Spawn(t) \/ PublishPid(t) \/ SpawnReply(t) \/ SpawnFails(t)
  \/ FindChild(t) \/ WaitForExit(t) \/ TakeStatus(t)

ReaperStep ==
  \/ \E p \in zombies : WaitPid(p)
  \/ Deliver \/ NoChildren \/ AwaitChildren

Next ==
  \/ \E t \in Lanes : SpawnRequest(t) \/ LaneStep(t) \/ \E p \in known : ReapRequest(t, p)
  \/ ReaperStep
  \/ \E p \in live : Exit(p)

(* Every thread that can run does.  Processes need not exit, and the host  *)
(* need not ask for anything.                                              *)
Spec == Init /\ [][Next]_vars

FairSpec ==
  /\ Spec
  /\ WF_vars(ReaperStep)
  /\ \A t \in Lanes : WF_vars(LaneStep(t))

-----------------------------------------------------------------------------
(***************************************************************************)
(* Properties.                                                             *)
(***************************************************************************)
(* The table, the threads, the kernel's processes and the host's view of   *)
(* them have their types.                                                  *)
TypeOK ==
  /\ children \in [Slots -> [used: BOOLEAN, pid: Pids \cup {NoPid},
                             reaped: BOOLEAN, status: Pids \cup {NoPid}]]
  /\ spawning \in SUBSET Lanes /\ asleep \in SUBSET (Lanes \cup {Reaper})
  /\ lane \in [Lanes -> [at: {"idle", "claim", "spawn", "publish", "spawned",
                              "reap", "wait"},
                         slot: Slots \cup {NoSlot}, pid: Pids \cup {NoPid}]]
  /\ reaper \in {"waitpid", "collected", "no children"}
  /\ collected \in Pids \cup {NoPid}
  /\ live \in SUBSET Pids /\ zombies \in SUBSET Pids /\ next_pid \in 1 .. MaxPid + 1
  /\ processes \in 0 .. MAX_PROCESSES /\ known \in SUBSET Pids
  /\ statuses \in [Pids -> Pids \cup {NoPid}] /\ refused \in BOOLEAN

(* A process in the table that is not marked reaped still has its exit     *)
(* ahead of it: it runs, is a zombie, or is in the reaper's hands.  A fast *)
(* exit is never classified before the pid is published.                   *)
NoLostExit ==
  \A s \in Slots :
    children[s].used /\ children[s].pid # NoPid /\ ~children[s].reaped =>
      children[s].pid \in live \cup zombies \cup {collected}

(* A reap is answered with the exit status of the process it asked for,    *)
(* and never finds the process missing.                                    *)
OwnStatus ==
  /\ \A p \in Pids : statuses[p] \in {NoPid, p}
  /\ \A t \in Lanes : lane[t].at \in {"reap", "wait"} => SlotOf(lane[t].pid) # NoSlot

(* The table has a slot for every process the host may have: the host is   *)
(* never refused while its cap is no larger than the table.                *)
NeverRefused == MAX_PROCESSES <= process_capacity => ~refused

(* What the table says of a process is so, for as long as it is there.     *)
TableTrue == NoLostExit /\ OwnStatus /\ NeverRefused

(* Every zombie is collected, adopted orphans included, even after the     *)
(* reaper had gone to sleep for want of children.                          *)
ZombiesCollected == \A p \in Pids : (p \in zombies) ~> (p \notin zombies)

(* A reap request of a process that has exited is answered.                *)
ReapAnswered ==
  \A t \in Lanes :
    (lane[t].at = "wait" /\ lane[t].pid \notin live) ~> (lane[t].at # "wait")

(* No exit waits for ever, in the kernel or before the host that asked.    *)
ExitsReported == ZombiesCollected /\ ReapAnswered
=============================================================================
