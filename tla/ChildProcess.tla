---------------------------- MODULE ChildProcess ----------------------------
(***************************************************************************)
(* Processes as the host sees them: exec() and its process slots in        *)
(* packages/linux-guest/src/client.ts, and class ChildProcess of           *)
(* process.ts.  Every call into the guest holds a lane of the session's    *)
(* pool until the guest answers, and four of a process's calls may block   *)
(* there: the reap, one read of each output pipe and one stdin write.      *)
(*                                                                         *)
(* The pool is LanePool, which GuestSession implements: a call that is     *)
(* answered leaves it and the calls its caller then makes enter it, in one *)
(* turn of the event loop.  The guest is external: a child exits by itself *)
(* or by SIGKILL, and may leave a descendant that keeps its pipes open.  A *)
(* session that dies and a lane that cannot be opened are left to          *)
(* GuestSession.                                                           *)
(* A definition marked `fault' is a slip this code could have had, used by *)
(* no action: it shows which property would notice it.                     *)
(***************************************************************************)
EXTENDS Integers, FiniteSets, SequencesExt

CONSTANTS
  Procs,           (* the callers of exec()                                 *)
  Outputs,         (* the output pipes                                      *)
  MAX_PROCESSES, MAX_LANES,
  MaxWrites        (* bound: stdin chunks written to a process              *)

ASSUME ProcsAssumption == IsFiniteSet(Procs) /\ IsFiniteSet(Outputs)
ASSUME CapsAssumption ==
  MAX_PROCESSES \in Nat \ {0} /\ MAX_LANES \in Nat \ {0} /\ MaxWrites \in Nat
ASSUME StdinAssumption == "stdin" \notin Outputs

Fds == Outputs \cup {"stdin"}

(* A call: what it does, for which process, on which pipe if any.          *)
Call(kind, p) == <<kind, p, "-">>
ReadCall(p, fd) == <<"read", p, fd>>
LateRead(p, fd) == <<"late read", p, fd>>   \* by number, after the fd's close
CloseCall(p, fd) == <<"close", p, fd>>
Calls ==
  ({"spawn", "reap", "write", "kill"} \X Procs \X {"-"})
    \cup ({"read", "late read"} \X Procs \X Outputs) \cup ({"close"} \X Procs \X Fds)

VARIABLES
  \* GuestClient
  processes, process_waiters,
  stage,           (* exec(): "idle", "parked", "spawning", "running",      *)
                   (* "failed"; then status: "settled"                      *)
  \* ChildProcess
  unwritten,       (* stdin chunks not yet written                          *)
  stdin_stopped, stdin_error, stdin_closing,
  ended,           (* the output streams that are closed                    *)
  fd_close,        (* GuestFd: "open", "closing", "closed"                  *)
  closing,         (* #close_all: "no", "kill", "stdin", "fds", "done"      *)
  \* the session's lanes
  busy, waiting,
  \* the guest
  child,           (* "none", "alive", "dead"                               *)
  holders          (* processes whose pipes a descendant keeps open         *)

clientVars == <<processes, process_waiters, stage>>
stdinVars == <<unwritten, stdin_stopped, stdin_error, stdin_closing>>
laneVars == <<busy, waiting>>
guestVars == <<child, holders>>
vars == <<clientVars, stdinVars, ended, fd_close, closing, laneVars, guestVars>>

Outstanding == busy \cup Range(waiting)

Init ==
  /\ processes = 0 /\ process_waiters = <<>>
  /\ stage = [p \in Procs |-> "idle"]
  /\ unwritten = [p \in Procs |-> 0]
  /\ stdin_stopped = {} /\ stdin_error = {} /\ stdin_closing = {}
  /\ ended = {}
  /\ fd_close = [p \in Procs |-> [fd \in Fds |-> "open"]]
  /\ closing = [p \in Procs |-> "no"]
  /\ busy = {} /\ waiting = <<>>
  /\ child = [p \in Procs |-> "none"] /\ holders = {}

-----------------------------------------------------------------------------
(***************************************************************************)
(* The pool: with the lanes `taken' and the calls `queue' waiting in this  *)
(* order, the first calls get the lanes there are.                         *)
(***************************************************************************)
Serve(taken, queue) ==
  LET n == Min({MAX_LANES - Cardinality(taken), Len(queue)})
  IN  /\ busy' = taken \cup Range(SubSeq(queue, 1, n))
      /\ waiting' = SubSeq(queue, n + 1, Len(queue))

(* Calls are made, in this order.                                          *)
Make(calls) == Serve(busy, waiting \o calls)

(* A call is answered, and its caller goes on to make others.              *)
Answer(c, calls) == c \in busy /\ Serve(busy \ {c}, waiting \o calls)

-----------------------------------------------------------------------------
(***************************************************************************)
(* exec() and its slots.  A slot that is released goes straight to the     *)
(* oldest waiter.                                                          *)
(***************************************************************************)
ExecOverCap(p) ==   \* fault: one process too many
  /\ stage[p] = "idle" /\ processes <= MAX_PROCESSES
  /\ processes' = processes + 1
  /\ stage' = [stage EXCEPT ![p] = "spawning"]
  /\ Make(<<Call("spawn", p)>>)
  /\ UNCHANGED <<process_waiters, stdinVars, ended, fd_close, closing, guestVars>>

Exec(p) ==
  /\ stage[p] = "idle" /\ processes < MAX_PROCESSES
  /\ processes' = processes + 1
  /\ stage' = [stage EXCEPT ![p] = "spawning"]
  /\ Make(<<Call("spawn", p)>>)
  /\ UNCHANGED <<process_waiters, stdinVars, ended, fd_close, closing, guestVars>>

ExecParked(p) ==
  /\ stage[p] = "idle" /\ processes >= MAX_PROCESSES
  /\ process_waiters' = Append(process_waiters, p)
  /\ stage' = [stage EXCEPT ![p] = "parked"]
  /\ UNCHANGED <<processes, stdinVars, ended, fd_close, closing, laneVars, guestVars>>

(* release(), by a process whose stage becomes s.                          *)
Unparked == IF process_waiters = <<>> THEN {} ELSE {Head(process_waiters)}

ReleaseSlot(p, s) ==
  /\ processes' = IF Unparked = {} THEN processes - 1 ELSE processes
  /\ process_waiters' = IF Unparked = {} THEN <<>> ELSE Tail(process_waiters)
  /\ stage' = [q \in Procs |-> IF q = p THEN s
                               ELSE IF q \in Unparked THEN "spawning" ELSE stage[q]]

(* The child runs; the constructor makes the reap call and both output     *)
(* streams pull their first chunk.                                         *)
Spawned(p) ==
  /\ stage[p] = "spawning"
  /\ Answer(Call("spawn", p),
            <<Call("reap", p)>> \o SetToSeq({ReadCall(p, fd) : fd \in Outputs}))
  /\ child' = [child EXCEPT ![p] = "alive"]
  /\ stage' = [stage EXCEPT ![p] = "running"]
  /\ UNCHANGED <<processes, process_waiters, stdinVars, ended, fd_close, closing,
                 holders>>

SpawnFails(p) ==
  /\ stage[p] = "spawning"
  /\ ReleaseSlot(p, "failed")
  /\ Answer(Call("spawn", p), SetToSeq({Call("spawn", q) : q \in Unparked}))
  /\ UNCHANGED <<stdinVars, ended, fd_close, closing, guestVars>>

(* reap() is answered: status settles, and the process slot is released.   *)
Reaped(p) ==
  /\ stage[p] = "running" /\ child[p] = "dead"
  /\ ReleaseSlot(p, "settled")
  /\ Answer(Call("reap", p), SetToSeq({Call("spawn", q) : q \in Unparked}))
  /\ UNCHANGED <<stdinVars, ended, fd_close, closing, guestVars>>

-----------------------------------------------------------------------------
(***************************************************************************)
(* The pipes.                                                              *)
(***************************************************************************)
Exists(p) == child[p] # "none"
PipesOpen(p) == child[p] = "alive" \/ p \in holders

(* An output stream's read returns data: the next pull waits for the       *)
(* consumer.                                                               *)
ReadData(p, fd) ==
  /\ PipesOpen(p)
  /\ Answer(ReadCall(p, fd), <<>>)
  /\ UNCHANGED <<clientVars, stdinVars, ended, fd_close, closing, guestVars>>

(* A stream is pulled until it ends; it does not know of a close() of its  *)
(* fd that came from elsewhere.                                            *)
Pull(p, fd) ==
  /\ Exists(p) /\ <<p, fd>> \notin ended
  /\ {ReadCall(p, fd), LateRead(p, fd)} \cap Outstanding = {}
  /\ Make(<<IF fd_close[p][fd] = "open" THEN ReadCall(p, fd) ELSE LateRead(p, fd)>>)
  /\ UNCHANGED <<clientVars, stdinVars, ended, fd_close, closing, guestVars>>

(* The number is nobody's: EBADF ends the stream.                          *)
LateReadFails(p, fd) ==
  /\ Answer(LateRead(p, fd), <<>>)
  /\ ended' = ended \cup {<<p, fd>>}
  /\ UNCHANGED <<clientVars, stdinVars, fd_close, closing, guestVars>>

(* GuestFd.close(): the call is made the first time only.                  *)
CloseFds(p, fds) ==
  fd_close' = [fd_close EXCEPT ![p] =
                 [fd \in Fds |-> IF fd \in fds /\ @[fd] = "open" THEN "closing" ELSE @[fd]]]
ClosesMade(p, fds) ==
  SetToSeq({CloseCall(p, fd) : fd \in {f \in fds : fd_close[p][f] = "open"}})

(* End of file, once nobody has the pipe open for writing.                 *)
ReadEof(p, fd) ==
  /\ ~PipesOpen(p)
  /\ CloseFds(p, {fd})
  /\ Answer(ReadCall(p, fd), ClosesMade(p, {fd}))
  /\ ended' = ended \cup {<<p, fd>>}
  /\ UNCHANGED <<clientVars, stdinVars, closing, guestVars>>

(* The consumer cancels the stream.                                        *)
Cancel(p, fd) ==
  /\ Exists(p) /\ <<p, fd>> \notin ended
  /\ CloseFds(p, {fd})
  /\ Make(ClosesMade(p, {fd}))
  /\ ended' = ended \cup {<<p, fd>>}
  /\ UNCHANGED <<clientVars, stdinVars, closing, guestVars>>

FdClosed(p, fd) ==
  /\ Answer(CloseCall(p, fd), <<>>)
  /\ fd_close' = [fd_close EXCEPT ![p][fd] = "closed"]
  /\ UNCHANGED <<clientVars, stdinVars, ended, closing, guestVars>>

(* stdin.write() buffers the chunk on the host, and pump() writes it later *)
(* unless the process is being torn down.                                  *)
Write(p) ==
  /\ Exists(p) /\ p \notin stdin_closing \cup stdin_error
  /\ unwritten[p] < MaxWrites
  /\ unwritten' = [unwritten EXCEPT ![p] = @ + 1]
  /\ UNCHANGED <<clientVars, stdin_stopped, stdin_error, stdin_closing, ended,
                 fd_close, closing, laneVars, guestVars>>

PumpsWhenStopped(p) == unwritten[p] > 0 /\ p \notin stdin_error   \* fault
Pumps(p) == unwritten[p] > 0 /\ p \notin stdin_stopped \cup stdin_error

Pump(p) ==
  /\ Pumps(p) /\ Call("write", p) \notin Outstanding
  /\ Make(<<Call("write", p)>>)
  /\ UNCHANGED <<clientVars, stdinVars, ended, fd_close, closing, guestVars>>

(* The guest accepts the bytes while somebody may read them, and fails the *)
(* write when nobody can.                                                  *)
Written(p) ==
  /\ Answer(Call("write", p), <<>>)
  /\ unwritten' = [unwritten EXCEPT ![p] = @ - 1]
  /\ stdin_error' = IF PipesOpen(p) THEN stdin_error ELSE stdin_error \cup {p}
  /\ UNCHANGED <<clientVars, stdin_stopped, stdin_closing, ended, fd_close,
                 closing, guestVars>>

TailSettled(p) == ~Pumps(p) /\ Call("write", p) \notin Outstanding

(* stdin.close() waits for the chunks before it.                           *)
StdinClose(p) ==
  /\ Exists(p) /\ p \notin stdin_closing
  /\ stdin_closing' = stdin_closing \cup {p}
  /\ UNCHANGED <<clientVars, unwritten, stdin_stopped, stdin_error, ended,
                 fd_close, closing, laneVars, guestVars>>

StdinFlushed(p) ==
  /\ p \in stdin_closing /\ fd_close[p]["stdin"] = "open" /\ TailSettled(p)
  /\ CloseFds(p, {"stdin"})
  /\ Make(ClosesMade(p, {"stdin"}))
  /\ UNCHANGED <<clientVars, stdinVars, ended, closing, guestVars>>

-----------------------------------------------------------------------------
(***************************************************************************)
(* close(): kill, wait for the write under way, then close the pipes.      *)
(***************************************************************************)
CloseWithoutKill(p) ==   \* fault: the write under way is waited for first
  /\ Exists(p) /\ closing[p] = "no"
  /\ stdin_stopped' = stdin_stopped \cup {p}
  /\ closing' = [closing EXCEPT ![p] = "stdin"]
  /\ UNCHANGED <<clientVars, unwritten, stdin_error, stdin_closing, ended,
                 fd_close, laneVars, guestVars>>

Close(p) ==
  /\ Exists(p) /\ closing[p] = "no"
  /\ stdin_stopped' = stdin_stopped \cup {p}
  /\ closing' = [closing EXCEPT ![p] = "kill"]
  /\ Make(<<Call("kill", p)>>)
  /\ UNCHANGED <<clientVars, unwritten, stdin_error, stdin_closing, ended,
                 fd_close, guestVars>>

(* SIGKILL reaches the child, and only the child.                          *)
Killed(p) ==
  /\ Answer(Call("kill", p), <<>>)
  /\ closing' = [closing EXCEPT ![p] = "stdin"]
  /\ child' = [child EXCEPT ![p] = "dead"]
  /\ \/ UNCHANGED holders
     \/ child[p] = "alive" /\ holders' = holders \cup {p}
  /\ UNCHANGED <<clientVars, stdinVars, ended, fd_close>>

CloseAll(p) ==
  /\ closing[p] = "stdin" /\ TailSettled(p)
  /\ closing' = [closing EXCEPT ![p] = "fds"]
  /\ CloseFds(p, Fds)
  /\ Make(ClosesMade(p, Fds))
  /\ UNCHANGED <<clientVars, stdinVars, ended, guestVars>>

Closed(p) ==
  /\ closing[p] = "fds" /\ \A fd \in Fds : fd_close[p][fd] = "closed"
  /\ closing' = [closing EXCEPT ![p] = "done"]
  /\ UNCHANGED <<clientVars, stdinVars, ended, fd_close, laneVars, guestVars>>

(* The child exits by itself, and a descendant it left may exit later.     *)
Exit(p) ==
  /\ child[p] = "alive"
  /\ child' = [child EXCEPT ![p] = "dead"]
  /\ \/ UNCHANGED holders
     \/ holders' = holders \cup {p}
  /\ UNCHANGED <<clientVars, stdinVars, ended, fd_close, closing, laneVars>>

DescendantExits(p) ==
  /\ p \in holders
  /\ holders' = holders \ {p}
  /\ UNCHANGED <<clientVars, stdinVars, ended, fd_close, closing, laneVars, child>>

-----------------------------------------------------------------------------
(* What the guest answers at once, whoever else is blocked.                *)
Answered(p) ==
  \/ Spawned(p) \/ SpawnFails(p) \/ Reaped(p) \/ Killed(p)
  \/ \E fd \in Outputs : ReadEof(p, fd) \/ LateReadFails(p, fd)
  \/ \E fd \in Fds : FdClosed(p, fd)
  \/ Written(p) /\ ~PipesOpen(p)

HostStep(p) == Pump(p) \/ StdinFlushed(p) \/ CloseAll(p) \/ Closed(p)

Next ==
  \E p \in Procs :
    \/ Exec(p) \/ ExecParked(p) \/ Answered(p) \/ Written(p) \/ HostStep(p)
    \/ \E fd \in Outputs : ReadData(p, fd) \/ Pull(p, fd) \/ Cancel(p, fd)
    \/ Write(p) \/ StdinClose(p) \/ Close(p)
    \/ Exit(p) \/ DescendantExits(p)

(* Fairness: the event loop runs, and the guest answers a call it can      *)
(* answer.  A child need not read, write or exit.                          *)
Spec == Init /\ [][Next]_vars

FairSpec ==
  /\ Spec
  /\ \A p \in Procs : WF_vars(Answered(p)) /\ WF_vars(HostStep(p))

-----------------------------------------------------------------------------
(***************************************************************************)
(* Properties.                                                             *)
(***************************************************************************)
(* The slots, the streams, the fds and the calls have their types.         *)
TypeOK ==
  /\ processes \in Nat /\ process_waiters \in Seq(Procs)
  /\ stage \in [Procs -> {"idle", "parked", "spawning", "running", "failed", "settled"}]
  /\ unwritten \in [Procs -> 0 .. MaxWrites]
  /\ stdin_stopped \in SUBSET Procs /\ stdin_error \in SUBSET Procs
  /\ stdin_closing \in SUBSET Procs
  /\ ended \in SUBSET (Procs \X Outputs)
  /\ fd_close \in [Procs -> [Fds -> {"open", "closing", "closed"}]]
  /\ closing \in [Procs -> {"no", "kill", "stdin", "fds", "done"}]
  /\ busy \in SUBSET Calls /\ waiting \in Seq(Calls)
  /\ child \in [Procs -> {"none", "alive", "dead"}] /\ holders \in SUBSET Procs

(* The calls of a process that have a lane and cannot be answered before   *)
(* the process, or what keeps its pipes, does something.                   *)
Blocked(p) ==
  {c \in busy : c[2] = p /\
     \/ c[1] = "reap" /\ child[p] = "alive"
     \/ c[1] \in {"read", "write"} /\ PipesOpen(p)}

LaneShare == (2 + Cardinality(Outputs)) * MAX_PROCESSES

(* Process traffic that is stuck takes no more lanes than four for each    *)
(* process the host may have (reap, stdout, stderr, one stdin write), as   *)
(* client.ts needs in order to keep half the pool for everything else.     *)
ProcessTrafficBounded ==
  Cardinality(UNION {Blocked(p) : p \in Procs}) <= LaneShare

(* The same of processes that leave no descendant with their pipes: a call *)
(* that is stuck is always the call of a process that has its slot.        *)
AttachedTrafficBounded ==
  Cardinality(UNION {Blocked(p) : p \in Procs \ holders}) <= LaneShare

(* stdin is never closed with a write on its way: the fd number, free for  *)
(* reuse after the close, cannot receive bytes meant for this process.     *)
StdinClosedQuiet ==
  \A p \in Procs :
    fd_close[p]["stdin"] # "open" => Call("write", p) \notin Outstanding

(* The two that follow are promised as long as no descendant keeps pipes   *)
(* open, however many calls are stuck in the guest.                        *)
Attached == [](holders = {})

(* close() finishes: the SIGKILL it starts with gets a lane though others  *)
(* are stuck, and the stdin write it waits for and its fd closes are all   *)
(* answered.                                                               *)
CloseFinishes ==
  Attached => \A p \in Procs : (closing[p] # "no") ~> (closing[p] = "done")

(* An exec() that found no process slot gets one, if every process exits.  *)
ParkedRuns ==
  Attached /\ (\A q \in Procs : (child[q] = "alive") ~> (child[q] = "dead"))
    => \A p \in Procs : (stage[p] = "parked") ~> (stage[p] # "parked")

(* Nobody waits for ever for a lane or a slot that stuck processes hold.   *)
ProcessesServed == CloseFinishes /\ ParkedRuns
=============================================================================
