---------------------------- MODULE AgentSession ----------------------------
(***************************************************************************)
(* Sessions between the host and the guest's PID 1: main, session_worker,  *)
(* serve_session and accept_lane of distro/guest-agent/agent.c; #connect   *)
(* of packages/linux-guest/src/client.ts, connect of conn.ts, and          *)
(* wait_for_guest of agent.ts, which tries until the agent answers.        *)
(*                                                                         *)
(* PID 1 serves one session at a time, each in a process of its own; when  *)
(* that has exited, it kills the session's process group and reaps those   *)
(* of it that are its children.  A process whose parent lives is reaped by *)
(* that parent; an orphan's parent is the session's process, a subreaper,  *)
(* and PID 1 once that has exited.  The host may give up a connection at   *)
(* any time, also one that the guest has yet to accept.  SIGCHLD reaches   *)
(* PID 1 only in the calls it interrupts.                                  *)
(*                                                                         *)
(* AgentProcesses has the process table of one session in detail, and      *)
(* GuestSession the host's lanes; both are counts here.  Vsock, processes  *)
(* and signals are external.                                               *)
(***************************************************************************)
EXTENDS Naturals, Sequences, FiniteSets

CONSTANTS
  MaxSessions,    (* bound: connections to the session port                 *)
  max_lanes,      (* lanes a session may have                               *)
  Procs           (* processes ever spawned                                 *)

VARIABLES
  session,        (* #session of the client, 0 is null                      *)
  wait,           (* wait_for_guest                                         *)
  host, guest,    (* the two ends of each connection                        *)
  backlog,        (* of PID 1's listener                                    *)
  main,           (* where PID 1 is, and the session it serves              *)
  worker,         (* the session's process                                  *)
  active_lanes,
  proc,           (* of each process: session, group, parent and state; one *)
                  (* that the agent has spawned has no parent among them    *)
  init            (* the system's own init                                  *)

vars == <<session, wait, host, guest, backlog, main, worker, active_lanes, proc, init>>

Sessions == 1 .. MaxSessions

Init ==
  /\ session = 0 /\ wait = "sleeping"
  /\ host = [s \in Sessions |-> "none"] /\ guest = [s \in Sessions |-> "none"]
  /\ backlog = <<>> /\ main = [at |-> "boot", session |-> 0] /\ worker = "none"
  /\ active_lanes = 0 /\ init = "running"
  /\ proc = [p \in Procs |-> [session |-> 0, grouped |-> TRUE, parent |-> {}, state |-> "none"]]

-----------------------------------------------------------------------------
(***************************************************************************)
(* The host.                                                               *)
(***************************************************************************)
Unused == {s \in Sessions : host[s] = "none"}

Attempt ==
  \E s \in Unused :
    /\ \A t \in Unused : s <= t
    /\ session' = s /\ host' = [host EXCEPT ![s] = "connecting"]

connectAgain == Attempt   \* fault: an attempt is not remembered

(* #connect: the session there is, or an attempt at one.                   *)
connect == IF session # 0 THEN UNCHANGED <<session, host>> ELSE Attempt

(* Any call of the client, and the ping of the readiness loop.             *)
Call ==
  /\ connect
  /\ UNCHANGED <<wait, guest, backlog, main, worker, active_lanes, proc, init>>

Ping ==
  /\ wait = "sleeping" /\ wait' = "pinging" /\ connect
  /\ UNCHANGED <<guest, backlog, main, worker, active_lanes, proc, init>>

Hangup(s) == host' = [host EXCEPT ![s] = "closed"]
Forgets(s) == session' = IF session = s THEN 0 ELSE session

(* It is refused or times out, or the handshake fails: the guest closes,   *)
(* or does not echo the hello.                                             *)
ConnectFails(s) ==
  /\ host[s] \in {"connecting", "handshake"}
  /\ Hangup(s) /\ Forgets(s)
  /\ UNCHANGED <<wait, guest, backlog, main, worker, active_lanes, proc, init>>

(* The session dies: the guest hung up, an exchange failed, or close().    *)
SessionDies(s) ==
  /\ host[s] = "open" /\ Hangup(s)
  /\ UNCHANGED <<session, wait, guest, backlog, main, worker, active_lanes, proc, init>>

HasSession(states) == \E s \in Sessions : s = session /\ host[s] \in states

PingAnswered ==
  /\ wait = "pinging" /\ HasSession({"open"}) /\ active_lanes > 0
  /\ wait' = "ready"
  /\ UNCHANGED <<session, host, guest, backlog, main, worker, active_lanes, proc, init>>

(* The ping fails, with its attempt, its session, or for want of a lane:   *)
(* again in 25 ms.  The deadline or the machine's end leaves the loop.     *)
PingFails(again) ==
  /\ wait = "pinging" /\ (again => session = 0 \/ HasSession({"open", "closed"}))
  /\ wait' = IF again THEN "sleeping" ELSE "failed"
  /\ UNCHANGED <<session, host, guest, backlog, main, worker, active_lanes, proc, init>>

-----------------------------------------------------------------------------
(***************************************************************************)
(* PID 1.                                                                  *)
(***************************************************************************)
(* The root is prepared, /init started, and the listener is there.         *)
Listen ==
  /\ main.at = "boot" /\ main' = [main EXCEPT !.at = "accept"]
  /\ UNCHANGED <<session, wait, host, guest, backlog, worker, active_lanes, proc, init>>

(* A request to connect arrives, perhaps after the host has given it up.   *)
Arrive(s) ==
  /\ host[s] \in {"connecting", "closed"} /\ guest[s] = "none"
  /\ main.at \notin {"boot", "over"}
  /\ guest' = [guest EXCEPT ![s] = "backlog"] /\ backlog' = Append(backlog, s)
  /\ host' = [host EXCEPT ![s] = IF @ = "connecting" THEN "handshake" ELSE @]
  /\ UNCHANGED <<session, wait, main, worker, active_lanes, proc, init>>

(* PID 1 ends if it cannot clone.                                          *)
Accept(cloned) ==
  /\ main.at = "accept" /\ backlog # <<>>
  /\ main' = [at |-> IF cloned THEN "wait" ELSE "over", session |-> Head(backlog)]
  /\ backlog' = Tail(backlog)
  /\ worker' = IF cloned THEN "starting" ELSE "none"
  /\ UNCHANGED <<session, wait, host, guest, active_lanes, proc, init>>

(* _exit: the lanes and the connection go with the process.                *)
Exit(status) ==
  /\ worker' = status /\ active_lanes' = 0
  /\ guest' = [guest EXCEPT ![main.session] = "closed"]

(* session_worker: its own group, subreaper, lane listener and reaper.     *)
WorkerStarts(ok) ==
  /\ worker = "starting"
  /\ IF ok THEN worker' = "handshake" /\ UNCHANGED <<guest, active_lanes>> ELSE Exit("failed")
  /\ UNCHANGED <<session, wait, host, backlog, main, proc, init>>

(* The hello is echoed; or it is a wrong one, or the host has hung up.     *)
Handshake ==
  /\ worker = "handshake"
  /\ \/ /\ host[main.session] = "handshake"
        /\ host' = [host EXCEPT ![main.session] = "open"] /\ worker' = "serving"
        /\ UNCHANGED <<guest, active_lanes>>
     \/ Exit("exited") /\ UNCHANGED host
  /\ UNCHANGED <<session, wait, backlog, main, proc, init>>

(* serve_session: the session has ended, or polling fails.                 *)
SessionEnds ==
  /\ worker = "serving"
  /\ \/ host[main.session] = "closed" /\ Exit("exited")
     \/ Exit("failed")
  /\ UNCHANGED <<session, wait, host, backlog, main, proc, init>>

(* accept_lane; one lane too many is closed at once.                       *)
AcceptLane ==
  /\ worker = "serving" /\ host[main.session] = "open" /\ active_lanes < max_lanes
  /\ active_lanes' = active_lanes + 1
  /\ UNCHANGED <<session, wait, host, guest, backlog, main, worker, proc, init>>

LaneEnds ==
  /\ active_lanes > 0 /\ active_lanes' = active_lanes - 1
  /\ UNCHANGED <<session, wait, host, guest, backlog, main, worker, proc, init>>

(* waitpid of the worker returns, and its group is killed: none of it runs *)
(* or forks any more, but dying takes its time.                            *)
InGroup(p) == proc[p].grouped /\ proc[p].session = main.session
Killed == [p \in Procs |-> IF InGroup(p) /\ proc[p].state = "running"
                           THEN [proc[p] EXCEPT !.state = "killed"] ELSE proc[p]]

KillGroup ==
  /\ main.at = "wait" /\ worker \in {"exited", "failed"}
  /\ main' = [main EXCEPT !.at = "reap"] /\ proc' = Killed
  /\ UNCHANGED <<session, wait, host, guest, backlog, worker, active_lanes, init>>

ReapOnceOnly ==   \* fault: one waitpid, whatever is left
  /\ main.at = "reap"
  /\ main' = [at |-> IF worker = "failed" THEN "over" ELSE "accept", session |-> main.session]
  /\ worker' = "none"
  /\ UNCHANGED <<session, wait, host, guest, backlog, active_lanes, proc, init>>

(* The agent's children: those it has spawned, and orphans.                *)
Orphaned(p) == \A q \in proc[p].parent : proc[q].state \in {"zombie", "gone"}

(* waitpid(-worker), again and again, until PID 1 has no such child.       *)
ReapGroup ==
  /\ main.at = "reap"
  /\ \/ /\ \E p \in Procs : /\ InGroup(p) /\ Orphaned(p) /\ proc[p].state = "zombie"
                             /\ proc' = [proc EXCEPT ![p].state = "gone"]
        /\ UNCHANGED <<main, worker>>
     \/ /\ \A p \in Procs : InGroup(p) /\ Orphaned(p) => proc[p].state = "gone"
        /\ main' = [at |-> IF worker = "failed" THEN "over" ELSE "accept", session |-> main.session]
        /\ worker' = "none" /\ UNCHANGED proc
  /\ UNCHANGED <<session, wait, host, guest, backlog, active_lanes, init>>

(* check_system_init: the machine is powered off, if a call of PID 1 that  *)
(* checks was interrupted.                                                 *)
InitExits ==
  /\ init = "running" /\ main.at \notin {"boot", "over"} /\ init' = "exited"
  /\ main' = [main EXCEPT !.at = IF @ \in {"accept", "wait"} THEN "over" ELSE @]
  /\ UNCHANGED <<session, wait, host, guest, backlog, worker, active_lanes, proc>>

-----------------------------------------------------------------------------
(***************************************************************************)
(* Processes of a session.                                                 *)
(***************************************************************************)
Spawn(p) ==
  /\ active_lanes > 0 /\ proc[p].state = "none"
  /\ proc' = [proc EXCEPT ![p] = [session |-> main.session, grouped |-> TRUE, parent |-> {},
                                  state |-> "running"]]
  /\ UNCHANGED <<session, wait, host, guest, backlog, main, worker, active_lanes, init>>

Fork(p, q) ==
  /\ proc[p].state = "running" /\ proc[q].state = "none"
  /\ proc' = [proc EXCEPT ![q] = [proc[p] EXCEPT !.parent = {p}]]
  /\ UNCHANGED <<session, wait, host, guest, backlog, main, worker, active_lanes, init>>

SetSid(p) ==
  /\ proc[p].state = "running" /\ proc[p].grouped
  /\ proc' = [proc EXCEPT ![p].grouped = FALSE]
  /\ UNCHANGED <<session, wait, host, guest, backlog, main, worker, active_lanes, init>>

ProcExits(p) ==
  /\ proc[p].state \in {"running", "killed"}
  /\ proc' = [proc EXCEPT ![p].state = "zombie"]
  /\ UNCHANGED <<session, wait, host, guest, backlog, main, worker, active_lanes, init>>

ParentReaps(p) ==
  /\ proc[p].state = "zombie" /\ \E q \in proc[p].parent : proc[q].state = "running"
  /\ proc' = [proc EXCEPT ![p].state = "gone"]
  /\ UNCHANGED <<session, wait, host, guest, backlog, main, worker, active_lanes, init>>

(* reap_children of the session's process.                                 *)
Reaper(p) ==
  /\ worker \in {"handshake", "serving"} /\ proc[p].session = main.session
  /\ Orphaned(p) /\ proc[p].state = "zombie"
  /\ proc' = [proc EXCEPT ![p].state = "gone"]
  /\ UNCHANGED <<session, wait, host, guest, backlog, main, worker, active_lanes, init>>

HostStep ==
  \/ Call \/ Ping \/ PingAnswered \/ (\E again \in BOOLEAN : PingFails(again))
  \/ \E s \in Sessions : ConnectFails(s) \/ SessionDies(s) \/ Arrive(s)

AgentStep ==
  \/ Listen \/ Handshake \/ SessionEnds \/ AcceptLane \/ LaneEnds
  \/ (\E ok \in BOOLEAN : Accept(ok) \/ WorkerStarts(ok)) \/ KillGroup \/ ReapGroup

Next ==
  \/ HostStep
  \/ main.at # "over" /\ (AgentStep \/ InitExits)
  \/ main.at # "over" /\ \E p \in Procs :
       \/ Spawn(p) \/ SetSid(p) \/ ProcExits(p) \/ ParentReaps(p) \/ Reaper(p)
       \/ \E q \in Procs : Fork(p, q)

Spec == Init /\ [][Next]_vars

-----------------------------------------------------------------------------
(* A session starts on clean ground: while PID 1 waits for one or starts   *)
(* it, no lane is there and no process of an earlier session's group runs, *)
(* whatever was forked, orphaned or exiting when that session died.  All   *)
(* of the group are gone, unless a process of that session has left it:    *)
(* then what that one has forked before may yet be dying or unreaped.      *)
Escaped(s) == \E p \in Procs : ~proc[p].grouped /\ proc[p].session = s

StartsClean ==
  main.at = "accept" \/ worker \in {"starting", "handshake"} =>
    /\ active_lanes = 0
    /\ \A p \in Procs : proc[p].grouped =>
         \/ proc[p].state \in {"none", "gone"}
         \/ proc[p].state \in {"killed", "zombie"} /\ Escaped(proc[p].session)

(* What protocol.md says of a session's end: PID 1 "then SIGKILLs and      *)
(* reaps every remaining descendant before returning to accept()".         *)
DescendantsReaped ==
  main.at = "accept" => \A p \in Procs : proc[p].state \in {"none", "gone"}

(* The host has one session at a time, and no attempt of an earlier time   *)
(* is left that the guest could take for the session: PID 1 would serve    *)
(* that one and never come to the other.                                   *)
OneSession ==
  \A s \in Sessions : host[s] \in {"connecting", "handshake", "open"} => session = s
=============================================================================
