------------------------------ MODULE Machine ------------------------------
(***************************************************************************)
(* The life of a machine: bootMachine in packages/kernel/src/index.ts with *)
(* its plugins (plugin-internal.ts), its bus (virtio/bus.ts) and the       *)
(* workers that are its virtual CPUs and threads (worker.ts, platform.ts). *)
(*                                                                         *)
(* The main thread is an event loop and every step of it is one task.      *)
(* Workers run beside it and talk to it by messages, in order for each     *)
(* worker.  Plugin i contributes device i.  A worker that forks waits,     *)
(* without an event loop, for its child to copy the memory, and the child  *)
(* can be started by the main thread only.                                 *)
(*                                                                         *)
(* The kernel that runs in a worker is external: it may spawn, halt, end   *)
(* the machine, write to the boot console, or throw.                       *)
(***************************************************************************)
EXTENDS Naturals, Sequences, FiniteSets

CONSTANTS
  Plugins,     (* number of plugins, each with one device                   *)
  MaxWorkers   (* bound: workers ever asked for                             *)

ASSUME MachineAssumption == Plugins \in Nat /\ MaxWorkers \in Nat \ {0}

VARIABLES
  boot,      (* where bootMachine is, and at which plugin                   *)
  main,      (* closed, failed, finish_error, finish_promise, boot console  *)
  devices,   (* the devices of the plugins                                  *)
  workers,   (* the Set `workers' of index.ts                               *)
  worker,    (* what each worker is doing                                   *)
  init,      (* the InitMessage of a worker: parent and user_copy_status    *)
  mail       (* messages of a worker to the main thread                     *)

vars == <<boot, main, devices, workers, worker, init, mail>>

Workers == 1 .. MaxWorkers
Devices == 1 .. Plugins
None == "none"
Message(type, child) == [type |-> type, child |-> child]

Init ==
  /\ boot = [at |-> "configure", plugin |-> 1]
  /\ main = [closed |-> FALSE, failed |-> FALSE, finish_error |-> None,
             finish |-> "no", outcome |-> "pending", console |-> "open"]
  /\ devices = [d \in Devices |-> "none"]
  /\ workers = {}
  /\ worker = [w \in Workers |-> "none"]
  /\ init = [w \in Workers |-> [parent |-> 0, copy |-> "none"]]
  /\ mail = [w \in Workers |-> <<>>]

-----------------------------------------------------------------------------
(***************************************************************************)
(* finish, fail and close.                                                 *)
(***************************************************************************)
bus_close == devices' = [d \in Devices |-> IF devices[d] = "ready" THEN "closing" ELSE devices[d]]

FinishAgain(m) ==   \* fault: a second close starts over
  /\ main' = [m EXCEPT !.closed = TRUE, !.finish = "devices"]
  /\ bus_close

finish(m) ==
  IF m.finish # "no" THEN main' = m /\ UNCHANGED devices
  ELSE main' = [m EXCEPT !.closed = TRUE, !.finish = "devices"] /\ bus_close

Failed(m, error) ==
  [m EXCEPT !.failed = TRUE, !.finish_error = IF m.failed THEN @ ELSE error]

fail(error) == finish(Failed(main, error))

boot_console_close(m) == [m EXCEPT !.console = "closed"]

(* A device's shutdown() has settled.                                      *)
DeviceClosed(d, ok) ==
  /\ devices[d] = "closing"
  /\ devices' = [devices EXCEPT ![d] = IF ok THEN "closed" ELSE "broken"]
  /\ UNCHANGED <<boot, main, workers, worker, init, mail>>

AllSettled == \A d \in Devices : devices[d] # "closing"
AnyBroken == \E d \in Devices : devices[d] = "broken"

(* Every worker that is known is told to stop, and is no longer listened to.*)
DevicesClosed ==
  /\ main.finish = "devices" /\ AllSettled
  /\ main' = [IF AnyBroken THEN Failed(main, "device") ELSE main EXCEPT !.finish = "workers"]
  /\ worker' = [w \in Workers |-> IF w \in workers THEN "terminated" ELSE worker[w]]
  /\ mail' = [w \in Workers |-> IF w \in workers THEN <<>> ELSE mail[w]]
  /\ UNCHANGED <<boot, devices, workers, init>>

WorkersTerminated(ok) ==
  LET m == IF ok THEN main ELSE Failed(main, "terminate") IN
  /\ main.finish = "workers"
  /\ main' = [boot_console_close(m) EXCEPT
                !.finish = "done", !.outcome = IF m.failed THEN "rejected" ELSE "resolved"]
  /\ UNCHANGED <<boot, devices, workers, worker, init, mail>>

(* close(), which needs the machine: plugins have it when they are booted. *)
Close ==
  /\ boot.at \in {"hooks", "resolved"}
  /\ finish(main)
  /\ UNCHANGED <<boot, workers, worker, init, mail>>

(* A device reports an error of its own.                                   *)
DeviceError(d) ==
  /\ boot.at \in {"attached", "hooks", "catch", "resolved"} /\ devices[d] \in {"ready", "closing"}
  /\ fail("device")
  /\ UNCHANGED <<boot, workers, worker, init, mail>>

(* A reader of the boot console cancels it.                                *)
CancelConsole ==
  /\ main.console = "open"
  /\ main' = [main EXCEPT !.console = "closed"]
  /\ UNCHANGED <<boot, devices, workers, worker, init, mail>>

-----------------------------------------------------------------------------
(***************************************************************************)
(* bootMachine.                                                            *)
(***************************************************************************)
Added(added) == [devices EXCEPT ![boot.plugin] = IF added THEN "ready" ELSE @]

(* A plugin is configured; it may throw before or after it added a device. *)
Configure ==
  /\ boot.at = "configure" /\ boot.plugin \in Devices
  /\ devices' = Added(TRUE) /\ boot' = [boot EXCEPT !.plugin = @ + 1]
  /\ UNCHANGED <<main, workers, worker, init, mail>>

ConfigureThrowsEarlier(added) ==   \* fault: what the throwing plugin added is missed
  /\ boot.at = "configure" /\ boot.plugin \in Devices
  /\ devices' = [i \in Devices |-> IF devices[i] = "ready" THEN "closing" ELSE Added(added)[i]]
  /\ boot' = [boot EXCEPT !.at = "unconfigure"]
  /\ UNCHANGED <<main, workers, worker, init, mail>>

ConfigureThrows(added) ==
  LET d == Added(added) IN
  /\ boot.at = "configure" /\ boot.plugin \in Devices
  /\ devices' = [i \in Devices |-> IF d[i] = "ready" THEN "closing" ELSE d[i]]
  /\ boot' = [boot EXCEPT !.at = "unconfigure"]
  /\ UNCHANGED <<main, workers, worker, init, mail>>

Unconfigured ==
  /\ boot.at = "unconfigure" /\ AllSettled
  /\ boot' = [boot EXCEPT !.at = "rejected"]
  /\ main' = boot_console_close(main)
  /\ UNCHANGED <<devices, workers, worker, init, mail>>

Configured ==
  /\ boot.at = "configure" /\ boot.plugin = Plugins + 1
  /\ boot' = [at |-> "load", plugin |-> 1]
  /\ UNCHANGED <<main, devices, workers, worker, init, mail>>

(* The devices are connected to the kernel, which is being instantiated.    *)
Attach ==
  /\ boot.at = "load"
  /\ boot' = [boot EXCEPT !.at = "attached"]
  /\ UNCHANGED <<main, devices, workers, worker, init, mail>>

(* The catch block of bootMachine.                                         *)
BootThrows ==
  /\ boot.at \in {"load", "attached", "hooks"}
  /\ boot' = [boot EXCEPT !.at = "catch"]
  /\ finish(main)
  /\ UNCHANGED <<workers, worker, init, mail>>

Caught ==
  /\ boot.at = "catch" /\ main.finish = "done"
  /\ boot' = [boot EXCEPT !.at = "rejected"]
  /\ UNCHANGED <<main, devices, workers, worker, init, mail>>

Fresh == {w \in Workers : worker[w] = "none"}
Next1(S) == CHOOSE w \in S : \A v \in S : w <= v

(* start_worker, which does nothing once the machine is closed.            *)
start_worker(child) ==
  /\ IF main.closed THEN UNCHANGED <<workers, worker>>
     ELSE workers' = workers \cup {child} /\ worker' = [worker EXCEPT ![child] = "created"]
  /\ UNCHANGED <<main, devices>>

(* exports.boot() runs in the main thread and starts the first worker.     *)
Boot ==
  /\ boot.at = "attached"
  /\ boot' = [boot EXCEPT !.at = "hooks"]
  /\ start_worker(1)
  /\ UNCHANGED <<init, mail>>

BootedHook ==
  /\ boot.at = "hooks"
  /\ boot' = IF boot.plugin = Plugins + 1 THEN [boot EXCEPT !.at = "resolved"]
             ELSE [boot EXCEPT !.plugin = @ + 1]
  /\ UNCHANGED <<main, devices, workers, worker, init, mail>>

-----------------------------------------------------------------------------
(***************************************************************************)
(* A worker: start() and the kernel's calls out of it.                     *)
(***************************************************************************)
Post(w, message) == mail' = [mail EXCEPT ![w] = Append(@, message)]
Becomes(w, state) == worker' = [worker EXCEPT ![w] = state]

Start(w) ==
  /\ worker[w] = "created" /\ init[w].copy = "none"
  /\ Becomes(w, "running")
  /\ UNCHANGED <<boot, main, devices, workers, init, mail>>

StartCopied(w) ==
  /\ worker[w] = "created" /\ init[w].copy = "pending"
  /\ Becomes(w, "running") /\ init' = [init EXCEPT ![w].copy = "copied"]
  /\ UNCHANGED <<boot, main, devices, workers, mail>>

CopyFailsSilently(w) ==   \* fault: the parent is not told
  /\ worker[w] = "created" /\ init[w].copy = "pending"
  /\ Becomes(w, "quit")
  /\ Post(w, Message("worker_exit", w))
  /\ UNCHANGED <<boot, main, devices, workers, init>>

CopyFails(w) ==
  /\ worker[w] = "created" /\ init[w].copy = "pending"
  /\ Becomes(w, "quit") /\ init' = [init EXCEPT ![w].copy = "failed"]
  /\ Post(w, Message("worker_exit", w))
  /\ UNCHANGED <<boot, main, devices, workers>>

(* spawn_worker, with a copy of the memory or without.  The InitMessage is *)
(* in the child's port before the main thread starts the child.            *)
SpawnWorker(w, copy) ==
  /\ worker[w] = "running" /\ Fresh # {}
  /\ LET child == Next1(Fresh) IN
     /\ worker' = [worker EXCEPT ![child] = "asked", ![w] = IF copy THEN "waiting" ELSE @]
     /\ init' = [init EXCEPT ![child] = [parent |-> w, copy |-> IF copy THEN "pending" ELSE "none"]]
     /\ Post(w, Message("spawn_worker", child))
  /\ UNCHANGED <<boot, main, devices, workers>>

(* Atomics.wait returns.                                                   *)
ParentResumes(w) ==
  /\ worker[w] = "waiting"
  /\ \E c \in Workers : init[c].parent = w /\ init[c].copy \in {"copied", "failed"}
  /\ \A c \in Workers : init[c].parent = w => init[c].copy # "pending"
  /\ Becomes(w, "running")
  /\ UNCHANGED <<boot, main, devices, workers, init, mail>>

HaltWorker(w) ==
  /\ worker[w] = "running"
  /\ Becomes(w, "quit") /\ Post(w, Message("worker_exit", w))
  /\ UNCHANGED <<boot, main, devices, workers, init>>

(* terminate_machine: the thread ends, the worker stays.                   *)
TerminateMachine(w, panic) ==
  /\ worker[w] = "running"
  /\ Becomes(w, "halted")
  /\ Post(w, Message(IF panic THEN "panic" ELSE "clean", w))
  /\ UNCHANGED <<boot, main, devices, workers, init>>

ConsoleClose(w) ==
  /\ worker[w] = "running" /\ main.console = "open" /\ mail[w] = <<>>
  /\ Post(w, Message("boot_console_close", w))
  /\ UNCHANGED <<boot, main, devices, workers, worker, init>>

(* An exception nobody catches.                                            *)
Crash(w) ==
  /\ worker[w] \in {"created", "running"}
  /\ Becomes(w, "crashed") /\ Post(w, Message("error", w))
  /\ UNCHANGED <<boot, main, devices, workers, init>>

-----------------------------------------------------------------------------
(***************************************************************************)
(* on_message and on_error of a worker.                                    *)
(***************************************************************************)
Take(w) == mail' = [mail EXCEPT ![w] = Tail(@)]

HandleSpawn(w, m) ==
  /\ m.type = "spawn_worker" /\ Take(w)
  /\ \/ start_worker(m.child)
     \/ ~main.closed /\ fail("spawn") /\ UNCHANGED <<workers, worker>>
  /\ UNCHANGED <<boot, init>>

HandleTerminate(w, m) ==
  /\ m.type \in {"clean", "panic"} /\ Take(w)
  /\ IF m.type = "clean" THEN finish(main) ELSE fail("panic")
  /\ UNCHANGED <<boot, workers, worker, init>>

HandleConsoleClose(w, m) ==
  /\ m.type = "boot_console_close" /\ Take(w)
  /\ main' = boot_console_close(main)
  /\ UNCHANGED <<boot, devices, workers, worker, init>>

HandleExit(w, m) ==
  /\ m.type = "worker_exit" /\ Take(w)
  /\ workers' = workers \ {w}
  /\ UNCHANGED <<boot, main, devices, worker, init>>

HandleError(w, m) ==
  /\ m.type = "error" /\ Take(w)
  /\ fail("error")
  /\ UNCHANGED <<boot, workers, worker, init>>

HandleMessage(w) ==
  /\ mail[w] # <<>>
  /\ LET m == Head(mail[w]) IN
       \/ HandleSpawn(w, m) \/ HandleTerminate(w, m) \/ HandleConsoleClose(w, m)
       \/ HandleExit(w, m) \/ HandleError(w, m)

-----------------------------------------------------------------------------
BootStep ==
  \/ Configure \/ Configured \/ Unconfigured \/ Attach \/ Boot \/ BootedHook \/ Caught
  \/ BootThrows \/ \E added \in BOOLEAN : ConfigureThrows(added)

FinishStep ==
  DevicesClosed \/ \E ok \in BOOLEAN : WorkersTerminated(ok)

StartStep(w) == Start(w) \/ StartCopied(w) \/ CopyFails(w)

KernelStep(w) ==
  \/ \E flag \in BOOLEAN : SpawnWorker(w, flag) \/ TerminateMachine(w, flag)
  \/ HaltWorker(w) \/ ConsoleClose(w) \/ Crash(w)

Next ==
  \/ BootStep \/ FinishStep \/ Close \/ CancelConsole
  \/ \E d \in Devices : DeviceError(d) \/ \E ok \in BOOLEAN : DeviceClosed(d, ok)
  \/ \E w \in Workers : StartStep(w) \/ ParentResumes(w) \/ KernelStep(w) \/ HandleMessage(w)

Spec == Init /\ [][Next]_vars

(* Fairness: the main thread's event loop runs, and with it the boot, whose *)
(* plugins end; devices end their shutdown; a worker that was created      *)
(* starts, and one whose wait is over goes on.                             *)
Fairness ==
  /\ WF_vars(BootStep) /\ WF_vars(FinishStep)
  /\ WF_vars(\E d \in Devices, ok \in BOOLEAN : DeviceClosed(d, ok))
  /\ \A w \in Workers : WF_vars(StartStep(w) \/ ParentResumes(w)) /\ WF_vars(HandleMessage(w))

-----------------------------------------------------------------------------
(***************************************************************************)
(* Properties.                                                             *)
(***************************************************************************)
TypeOK ==
  /\ boot.at \in {"configure", "unconfigure", "load", "attached", "hooks", "catch", "resolved", "rejected"}
  /\ boot.plugin \in 1 .. Plugins + 1
  /\ main.closed \in BOOLEAN /\ main.failed \in BOOLEAN
  /\ main.finish \in {"no", "devices", "workers", "done"}
  /\ main.outcome \in {"pending", "resolved", "rejected"} /\ main.console \in {"open", "closed"}
  /\ devices \in [Devices -> {"none", "ready", "closing", "closed", "broken"}]
  /\ workers \in SUBSET Workers
  /\ worker \in [Workers -> {"none", "asked", "created", "running", "waiting", "halted",
                             "crashed", "quit", "terminated"}]
  /\ \A w \in Workers : init[w].parent \in 0 .. MaxWorkers

Live == {"created", "running", "waiting", "halted", "crashed"}
Released ==
  /\ \A d \in Devices : devices[d] \in {"none", "closed", "broken"}
  /\ \A w \in Workers : worker[w] \notin Live
  /\ main.console = "closed"

(* Once the machine has closed, or bootMachine has failed, nothing of it   *)
(* is left: each device is shut down, no worker runs or is started later   *)
(* by a message that was on its way, and the boot console has ended.       *)
NothingLeft == (main.outcome # "pending" \/ boot.at = "rejected") => Released

(* A failing or ending machine closes: whatever the workers wait for, a    *)
(* panic, a crash, a clean end or a close() settles `closed'.              *)
Ending ==
  \/ main.closed
  \/ \E w \in Workers : w \in workers /\ \E i \in 1 .. Len(mail[w]) :
       mail[w][i].type \in {"clean", "panic", "error"}
Closes == Ending ~> (main.outcome # "pending")

(* A worker that waits for its child's copy is answered, or ends with the  *)
(* machine: also when the child could not be started, or never was.        *)
ForkAnswered == \A w \in Workers : (worker[w] = "waiting") ~> (worker[w] # "waiting")
=============================================================================
