--------------------------- MODULE MachineProofs ---------------------------
(***************************************************************************)
(* Proofs about the machine and what MCMachine runs beside it, for every   *)
(* value of the constants.                                                 *)
(*                                                                         *)
(* Machine: its type invariant, and that nothing of a machine is left once *)
(* it has closed or has failed to boot.  The second needs an invariant     *)
(* about both sides: how far finish() has come bounds what the devices and *)
(* the workers can be doing, and what is still in a worker's port bounds   *)
(* which worker a late message could start or forget.                      *)
(*                                                                         *)
(* BlockDevice: a flush covers the writes before it.  Console: input is    *)
(* delivered whole, and the pump is never stranded.  UserProgram: siginfo  *)
(* callbacks keep their slots, and what runs is what is mapped.            *)
(***************************************************************************)
EXTENDS MCMachine, FiniteSetTheorems, SequenceTheorems, WellFoundedInduction, TLAPS

USE MachineAssumption

-----------------------------------------------------------------------------
(***************************************************************************)
(* The types, with every field of every record.                            *)
(***************************************************************************)
BootType ==
  [at: {"configure", "unconfigure", "load", "attached", "hooks", "catch", "resolved", "rejected"},
   plugin: 1 .. Plugins + 1]
MainType ==
  [closed: BOOLEAN, failed: BOOLEAN,
   finish_error: {None, "device", "terminate", "spawn", "panic", "error"},
   finish: {"no", "devices", "workers", "done"},
   outcome: {"pending", "resolved", "rejected"}, console: {"open", "closed"}]
DeviceStates == {"none", "ready", "closing", "closed", "broken"}
WorkerStates == {"none", "asked", "created", "running", "waiting", "halted", "crashed",
                 "quit", "terminated"}
InitType == [parent: 0 .. MaxWorkers, copy: {"none", "pending", "copied", "failed"}]
MessageType ==
  [type: {"spawn_worker", "worker_exit", "clean", "panic", "boot_console_close", "error"},
   child: Workers]

Typed ==
  /\ boot \in BootType /\ main \in MainType
  /\ devices \in [Devices -> DeviceStates]
  /\ workers \in SUBSET Workers
  /\ worker \in [Workers -> WorkerStates]
  /\ init \in [Workers -> InitType]
  /\ mail \in [Workers -> Seq(MessageType)]

(***************************************************************************)
(* How far finish() has come.                                              *)
(***************************************************************************)
FinishOrdered ==
  /\ main.closed <=> main.finish # "no"
  /\ main.outcome # "pending" <=> main.finish = "done"
  /\ main.finish = "done" => main.console = "closed"

(* No device is left open once the bus is closing, nor one that closes     *)
(* once the workers are told to stop.                                      *)
DevicesFollow ==
  /\ main.finish # "no" => \A d \in Devices : devices[d] # "ready"
  /\ main.finish \in {"workers", "done"} => \A d \in Devices : devices[d] # "closing"

(* Before the kernel boots there is no worker; a boot that fails in a      *)
(* plugin's configuration closes the devices itself, one that fails later  *)
(* through finish().                                                       *)
BootOrdered ==
  /\ boot.at \in {"configure", "unconfigure", "load", "attached"} =>
       \A w \in Workers : worker[w] = "none"
  /\ boot.at \in {"configure", "unconfigure"} => main.finish = "no"
  /\ boot.at = "unconfigure" => \A d \in Devices : devices[d] # "ready"
  /\ boot.at = "rejected" => main.finish \in {"no", "done"}
  /\ boot.at = "rejected" /\ main.finish = "no" =>
       /\ \A w \in Workers : worker[w] = "none"
       /\ \A d \in Devices : devices[d] \notin {"ready", "closing"}
       /\ main.console = "closed"

(* The machine knows every worker that lives, and none that was never      *)
(* asked for, until it has told them all to stop.                          *)
WorkersKnown ==
  /\ \A w \in workers : worker[w] # "none"
  /\ \A w \in Workers : worker[w] \in Live => w \in workers
  /\ main.finish \in {"workers", "done"} => \A w \in Workers : worker[w] \notin Live

(* What is in a worker's port: nothing from one that has not run, an       *)
(* "exit" only from one that has ended, and, while the machine is open,    *)
(* one "spawn" for each worker that was asked for and not yet created.     *)
Spawns(w, i, c) ==
  i \in 1 .. Len(mail[w]) /\ mail[w][i].type = "spawn_worker" /\ mail[w][i].child = c

MailSound ==
  /\ \A w \in Workers : worker[w] \in {"none", "asked", "created"} => mail[w] = <<>>
  /\ \A w \in Workers : \A i \in 1 .. Len(mail[w]) :
       mail[w][i].type = "worker_exit" => worker[w] \in {"quit", "terminated"}

SpawnsOnce ==
  ~main.closed =>
    /\ \A w, c \in Workers, i \in Nat : Spawns(w, i, c) => worker[c] = "asked"
    /\ \A w, v, c \in Workers, i, j \in Nat :
         Spawns(w, i, c) /\ Spawns(v, j, c) => w = v /\ i = j

(* The inductive invariant of NothingLeft.                                 *)
MachineInv ==
  /\ Typed
  /\ FinishOrdered
  /\ DevicesFollow
  /\ BootOrdered
  /\ WorkersKnown
  /\ MailSound
  /\ SpawnsOnce

-----------------------------------------------------------------------------
(***************************************************************************)
(* Ports.                                                                  *)
(***************************************************************************)
LEMMA PostMail ==
  ASSUME Typed, NEW w \in Workers, NEW m \in MessageType, Post(w, m)
  PROVE  /\ mail' \in [Workers -> Seq(MessageType)]
         /\ \A v \in Workers : v # w => mail'[v] = mail[v]
         /\ Len(mail[w]) \in Nat /\ Len(mail'[w]) = Len(mail[w]) + 1
         /\ \A i \in 1 .. Len(mail[w]) : mail'[w][i] = mail[w][i]
         /\ mail'[w][Len(mail[w]) + 1] = m
<1>1. mail' = [mail EXCEPT ![w] = Append(mail[w], m)] /\ mail \in [Workers -> Seq(MessageType)]
  BY DEF Post, Typed
<1>2. mail[w] \in Seq(MessageType) /\ mail'[w] = Append(mail[w], m)
  BY <1>1
<1>3. mail' \in [Workers -> Seq(MessageType)] /\ \A v \in Workers : v # w => mail'[v] = mail[v]
  BY <1>1, <1>2
<1> QED
  BY <1>2, <1>3

LEMMA TakeMail ==
  ASSUME Typed, NEW w \in Workers, mail[w] # <<>>, Take(w)
  PROVE  /\ mail' \in [Workers -> Seq(MessageType)]
         /\ \A v \in Workers : v # w => mail'[v] = mail[v]
         /\ Len(mail[w]) \in Nat /\ Len(mail'[w]) = Len(mail[w]) - 1
         /\ 1 \in 1 .. Len(mail[w]) /\ Head(mail[w]) = mail[w][1] /\ mail[w][1] \in MessageType
         /\ \A i \in 1 .. Len(mail'[w]) : i + 1 \in 1 .. Len(mail[w]) /\ mail'[w][i] = mail[w][i + 1]
<1>1. mail' = [mail EXCEPT ![w] = Tail(mail[w])] /\ mail \in [Workers -> Seq(MessageType)]
  BY DEF Take, Typed
<1>2. mail[w] \in Seq(MessageType) /\ mail'[w] = Tail(mail[w])
  BY <1>1
<1>3. Tail(mail[w]) \in Seq(MessageType)
  BY <1>2
<1>4. mail' \in [Workers -> Seq(MessageType)] /\ \A v \in Workers : v # w => mail'[v] = mail[v]
  BY <1>1, <1>3
<1>5. /\ Len(mail[w]) \in Nat /\ Len(mail'[w]) = Len(mail[w]) - 1
      /\ 1 \in 1 .. Len(mail[w]) /\ Head(mail[w]) = mail[w][1] /\ mail[w][1] \in MessageType
  BY <1>2
<1>6. \A i \in 1 .. Len(mail'[w]) : i + 1 \in 1 .. Len(mail[w]) /\ mail'[w][i] = mail[w][i + 1]
  BY <1>2
<1> QED
  BY <1>4, <1>5, <1>6

(* Taking a message takes no other "spawn" away, and adds none.            *)
LEMMA TakeSpawns ==
  ASSUME MachineInv, NEW w \in Workers, mail[w] # <<>>, Take(w), ~main.closed
  PROVE  /\ \A v, c \in Workers, i \in Nat : Spawns(v, i, c)' =>
              worker[c] = "asked" /\ ~(Head(mail[w]).type = "spawn_worker" /\ Head(mail[w]).child = c)
         /\ \A v, x, c \in Workers, i, j \in Nat :
              Spawns(v, i, c)' /\ Spawns(x, j, c)' => v = x /\ i = j
<1>t. Typed /\ SpawnsOnce
  BY DEF MachineInv
<1>m. /\ \A v \in Workers : v # w => mail'[v] = mail[v]
      /\ 1 \in 1 .. Len(mail[w]) /\ Head(mail[w]) = mail[w][1]
      /\ \A i \in 1 .. Len(mail'[w]) : i + 1 \in 1 .. Len(mail[w]) /\ mail'[w][i] = mail[w][i + 1]
  BY <1>t, TakeMail
<1> DEFINE old(v, i) == IF v = w THEN i + 1 ELSE i
<1>1. \A v, c \in Workers, i \in Nat : Spawns(v, i, c)' =>
        old(v, i) \in Nat /\ Spawns(v, old(v, i), c) /\ (v = w => old(v, i) # 1)
  <2> SUFFICES ASSUME NEW v \in Workers, NEW c \in Workers, NEW i \in Nat, Spawns(v, i, c)'
               PROVE  old(v, i) \in Nat /\ Spawns(v, old(v, i), c) /\ (v = w => old(v, i) # 1)
    OBVIOUS
  <2>1. CASE v = w
    <3>1. i >= 1 /\ i + 1 # 1 /\ i + 1 \in 1 .. Len(mail[w]) /\ mail'[w][i] = mail[w][i + 1]
      BY <1>m, <2>1 DEF Spawns
    <3> QED
      BY <2>1, <3>1 DEF Spawns
  <2>2. CASE v # w
    BY <1>m, <2>2 DEF Spawns
  <2> QED
    BY <2>1, <2>2
<1>2. \A v, c \in Workers, i \in Nat : Spawns(v, i, c)' => worker[c] = "asked"
  BY <1>1, <1>t DEF SpawnsOnce
<1>3. ASSUME NEW v \in Workers, NEW c \in Workers, NEW i \in Nat, Spawns(v, i, c)',
             Head(mail[w]).type = "spawn_worker", Head(mail[w]).child = c
      PROVE  FALSE
  <2>1. Spawns(w, 1, c)
    BY <1>3, <1>m DEF Spawns
  <2>2. old(v, i) \in Nat /\ Spawns(v, old(v, i), c) /\ (v = w => old(v, i) # 1)
    BY <1>1, <1>3
  <2> HIDE DEF old
  <2>3. v = w /\ old(v, i) = 1
    BY <1>t, <2>1, <2>2 DEF SpawnsOnce
  <2> QED
    BY <2>2, <2>3
<1>4. ASSUME NEW v \in Workers, NEW x \in Workers, NEW c \in Workers, NEW i \in Nat, NEW j \in Nat,
             Spawns(v, i, c)', Spawns(x, j, c)'
      PROVE  v = x /\ i = j
  <2>1. /\ old(v, i) \in Nat /\ Spawns(v, old(v, i), c)
        /\ old(x, j) \in Nat /\ Spawns(x, old(x, j), c)
    BY <1>1, <1>4
  <2>2. v = x /\ old(v, i) = old(x, j)
    <3> HIDE DEF old
    <3> QED
      BY <1>t, <2>1 DEF SpawnsOnce
  <2> QED
    BY <2>2
<1> QED
  BY <1>2, <1>3, <1>4

(* A message leaves a port: what was sound stays sound.                    *)
LEMMA TakeKeeps ==
  ASSUME MachineInv, NEW w \in Workers, mail[w] # <<>>, Take(w), worker' = worker,
         main.closed => main'.closed
  PROVE  MailSound' /\ SpawnsOnce'
<1>t. Typed /\ MailSound /\ SpawnsOnce
  BY DEF MachineInv
<1>m. /\ \A v \in Workers : v # w => mail'[v] = mail[v]
      /\ \A i \in 1 .. Len(mail'[w]) : i + 1 \in 1 .. Len(mail[w]) /\ mail'[w][i] = mail[w][i + 1]
  BY <1>t, TakeMail
<1>1. \A v \in Workers : worker'[v] \in {"none", "asked", "created"} => mail'[v] = <<>>
  BY <1>m, <1>t DEF MailSound
<1>2. \A v \in Workers : \A i \in 1 .. Len(mail'[v]) :
        mail'[v][i].type = "worker_exit" => worker'[v] \in {"quit", "terminated"}
  <2> SUFFICES ASSUME NEW v \in Workers, NEW i \in 1 .. Len(mail'[v]),
                      mail'[v][i].type = "worker_exit"
               PROVE  worker'[v] \in {"quit", "terminated"}
    OBVIOUS
  <2>1. CASE v = w
    BY <1>m, <1>t, <2>1 DEF MailSound
  <2>2. CASE v # w
    BY <1>m, <1>t, <2>2 DEF MailSound
  <2> QED
    BY <2>1, <2>2
<1>3. SpawnsOnce'
  <2> SUFFICES ASSUME ~main'.closed PROVE SpawnsOnce'
    BY DEF SpawnsOnce
  <2>1. ~main.closed
    OBVIOUS
  <2> QED
    BY <2>1, TakeSpawns DEF SpawnsOnce
<1> QED
  BY <1>1, <1>2, <1>3 DEF MailSound

(* Ports and workers that nothing happens to.                              *)
LEMMA WorkersKept ==
  ASSUME MachineInv, UNCHANGED <<workers, worker, mail>>, main.closed => main'.closed
  PROVE  MailSound' /\ SpawnsOnce'
<1>t. Typed /\ MailSound /\ SpawnsOnce
  BY DEF MachineInv
<1>1. MailSound'
  BY <1>t DEF MailSound
<1>2. SpawnsOnce'
  BY <1>t DEF SpawnsOnce, Spawns
<1> QED
  BY <1>1, <1>2

-----------------------------------------------------------------------------
(***************************************************************************)
(* finish(), by whoever calls it.                                          *)
(***************************************************************************)
Finished ==
  /\ main' \in MainType /\ devices' \in [Devices -> DeviceStates]
  /\ main'.finish = IF main.finish = "no" THEN "devices" ELSE main.finish
  /\ main'.closed
  /\ main'.outcome = main.outcome /\ main'.console = main.console
  /\ \A d \in Devices :
       devices'[d] = IF main.finish = "no" /\ devices[d] = "ready" THEN "closing" ELSE devices[d]

LEMMA FinishFacts ==
  ASSUME MachineInv, NEW m \in MainType, finish(m),
         m.closed = main.closed, m.finish = main.finish,
         m.outcome = main.outcome, m.console = main.console
  PROVE  Finished
<1>t. Typed /\ FinishOrdered /\ main \in MainType /\ devices \in [Devices -> DeviceStates]
  BY DEF MachineInv, Typed
<1>1. CASE main.finish # "no"
  <2>1. main' = m /\ devices' = devices
    BY <1>1 DEF finish
  <2>2. main.closed
    BY <1>1, <1>t DEF FinishOrdered
  <2> QED
    BY <1>1, <1>t, <2>1, <2>2 DEF Finished
<1>2. CASE main.finish = "no"
  <2>1. main' = [m EXCEPT !.closed = TRUE, !.finish = "devices"] /\ bus_close
    BY <1>2 DEF finish
  <2>2. /\ main' \in MainType /\ main'.finish = "devices" /\ main'.closed = TRUE
        /\ main'.outcome = main.outcome /\ main'.console = main.console
    BY <2>1 DEF MainType
  <2>3. /\ devices' \in [Devices -> DeviceStates]
        /\ \A d \in Devices : devices'[d] = IF devices[d] = "ready" THEN "closing" ELSE devices[d]
    BY <1>t, <2>1 DEF bus_close, DeviceStates
  <2> QED
    BY <1>2, <2>2, <2>3 DEF Finished
<1> QED
  BY <1>1, <1>2

LEMMA FailFacts ==
  ASSUME MachineInv, NEW error \in {"device", "spawn", "panic", "error"}, fail(error)
  PROVE  Finished
<1> DEFINE m == Failed(main, error)
<1>1. main \in MainType
  BY DEF MachineInv, Typed
<1>2. /\ m \in MainType /\ m.closed = main.closed /\ m.finish = main.finish
      /\ m.outcome = main.outcome /\ m.console = main.console
  BY <1>1 DEF Failed, MainType
<1>3. finish(m)
  BY DEF fail
<1> HIDE DEF m
<1> QED
  BY <1>2, <1>3, FinishFacts

(* finish() in a machine that has been configured keeps the invariant.     *)
LEMMA FinishKeeps ==
  ASSUME MachineInv, Finished, boot.at \notin {"configure", "unconfigure"},
         boot.at = "rejected" => main.finish # "no",
         boot'.at \in {boot.at, "catch"}
  PROVE  FinishOrdered' /\ DevicesFollow' /\
         (worker' = worker /\ workers' = workers => BootOrdered' /\ WorkersKnown')
<1>t. main \in MainType /\ main' \in MainType /\ FinishOrdered /\ DevicesFollow /\ BootOrdered /\ WorkersKnown
  BY DEF MachineInv, Typed, Finished
<1>0. main'.finish # "no"
  BY DEF Finished
<1>1. FinishOrdered'
  BY <1>0, <1>t DEF Finished, FinishOrdered
<1>2. DevicesFollow'
  BY <1>t DEF Finished, DevicesFollow
<1>3. ASSUME worker' = worker, workers' = workers PROVE BootOrdered' /\ WorkersKnown'
  <2>1. BootOrdered'
    BY <1>0, <1>3, <1>t DEF Finished, BootOrdered
  <2>2. WorkersKnown'
    BY <1>3, <1>t DEF Finished, WorkersKnown
  <2> QED
    BY <2>1, <2>2
<1> QED
  BY <1>1, <1>2, <1>3

-----------------------------------------------------------------------------
(***************************************************************************)
(* The steps of bootMachine.                                               *)
(***************************************************************************)
LEMMA BootTyped ==
  ASSUME MachineInv
  PROVE  /\ boot \in BootType /\ main \in MainType /\ devices \in [Devices -> DeviceStates]
         /\ workers \in SUBSET Workers /\ worker \in [Workers -> WorkerStates]
         /\ init \in [Workers -> InitType] /\ mail \in [Workers -> Seq(MessageType)]
         /\ FinishOrdered /\ DevicesFollow /\ BootOrdered /\ WorkersKnown /\ MailSound /\ SpawnsOnce
  BY DEF MachineInv, Typed

LEMMA BootKeeps ==
  ASSUME MachineInv, BootStep
  PROVE  MachineInv'
<1>t. /\ boot \in BootType /\ main \in MainType /\ devices \in [Devices -> DeviceStates]
      /\ workers \in SUBSET Workers /\ worker \in [Workers -> WorkerStates]
      /\ init \in [Workers -> InitType] /\ mail \in [Workers -> Seq(MessageType)]
      /\ FinishOrdered /\ DevicesFollow /\ BootOrdered /\ WorkersKnown /\ MailSound /\ SpawnsOnce
  BY BootTyped
<1>1. CASE Configure
  <2>1. /\ UNCHANGED <<main, workers, worker, init, mail>> /\ boot.at = "configure"
        /\ boot.plugin \in Devices /\ boot' = [boot EXCEPT !.plugin = @ + 1]
        /\ devices' = [devices EXCEPT ![boot.plugin] = "ready"]
    BY <1>1 DEF Configure, Added
  <2>2. boot' \in BootType /\ boot'.at = "configure"
    BY <1>t, <2>1 DEF BootType, Devices
  <2>3. devices' \in [Devices -> DeviceStates]
    BY <1>t, <2>1 DEF DeviceStates
  <2>4. Typed'
    BY <1>t, <2>1, <2>2, <2>3 DEF Typed
  <2>5. main.finish = "no"
    BY <1>t, <2>1 DEF BootOrdered
  <2>6. FinishOrdered' /\ DevicesFollow' /\ BootOrdered' /\ WorkersKnown'
    BY <1>t, <2>1, <2>2, <2>5 DEF FinishOrdered, DevicesFollow, BootOrdered, WorkersKnown
  <2>7. MailSound' /\ SpawnsOnce'
    BY <2>1, WorkersKept
  <2> QED
    BY <2>4, <2>6, <2>7 DEF MachineInv
<1>2. CASE Configured
  <2>1. /\ UNCHANGED <<main, devices, workers, worker, init, mail>> /\ boot.at = "configure"
        /\ boot' = [at |-> "load", plugin |-> 1]
    BY <1>2 DEF Configured
  <2>2. boot' \in BootType /\ boot'.at = "load"
    BY <2>1 DEF BootType
  <2>3. Typed'
    BY <1>t, <2>1, <2>2 DEF Typed
  <2>4. FinishOrdered' /\ DevicesFollow' /\ BootOrdered' /\ WorkersKnown'
    BY <1>t, <2>1, <2>2 DEF FinishOrdered, DevicesFollow, BootOrdered, WorkersKnown
  <2>5. MailSound' /\ SpawnsOnce'
    BY <2>1, WorkersKept
  <2> QED
    BY <2>3, <2>4, <2>5 DEF MachineInv
<1>3. ASSUME NEW added \in BOOLEAN, ConfigureThrows(added) PROVE MachineInv'
  <2> DEFINE dev == Added(added)
  <2>1. /\ UNCHANGED <<main, workers, worker, init, mail>> /\ boot.at = "configure"
        /\ boot.plugin \in Devices /\ boot' = [boot EXCEPT !.at = "unconfigure"]
        /\ devices' = [i \in Devices |-> IF dev[i] = "ready" THEN "closing" ELSE dev[i]]
    BY <1>3 DEF ConfigureThrows
  <2>2. dev \in [Devices -> DeviceStates]
    BY <1>t, <2>1 DEF Added, DeviceStates
  <2> HIDE DEF dev
  <2>3. boot' \in BootType /\ boot'.at = "unconfigure"
    BY <1>t, <2>1 DEF BootType
  <2>4. devices' \in [Devices -> DeviceStates] /\ \A d \in Devices : devices'[d] # "ready"
    BY <2>1, <2>2 DEF DeviceStates
  <2>5. Typed'
    BY <1>t, <2>1, <2>3, <2>4 DEF Typed
  <2>6. main.finish = "no"
    BY <1>t, <2>1 DEF BootOrdered
  <2>7. FinishOrdered' /\ DevicesFollow' /\ BootOrdered' /\ WorkersKnown'
    BY <1>t, <2>1, <2>3, <2>4, <2>6 DEF FinishOrdered, DevicesFollow, BootOrdered, WorkersKnown
  <2>8. MailSound' /\ SpawnsOnce'
    BY <2>1, WorkersKept
  <2> QED
    BY <2>5, <2>7, <2>8 DEF MachineInv
<1>4. CASE Unconfigured
  <2>1. /\ UNCHANGED <<devices, workers, worker, init, mail>> /\ boot.at = "unconfigure"
        /\ AllSettled /\ boot' = [boot EXCEPT !.at = "rejected"]
        /\ main' = [main EXCEPT !.console = "closed"]
    BY <1>4 DEF Unconfigured, boot_console_close
  <2>2. boot' \in BootType /\ boot'.at = "rejected"
    BY <1>t, <2>1 DEF BootType
  <2>3. /\ main' \in MainType /\ main'.console = "closed" /\ main'.finish = main.finish
        /\ main'.closed = main.closed /\ main'.outcome = main.outcome
    BY <1>t, <2>1 DEF MainType
  <2>4. Typed'
    BY <1>t, <2>1, <2>2, <2>3 DEF Typed
  <2>5. main.finish = "no" /\ \A w \in Workers : worker[w] = "none"
    BY <1>t, <2>1 DEF BootOrdered
  <2>6. \A d \in Devices : devices[d] \notin {"ready", "closing"}
    BY <1>t, <2>1 DEF BootOrdered, AllSettled
  <2>7. FinishOrdered' /\ DevicesFollow' /\ WorkersKnown'
    BY <1>t, <2>1, <2>3, <2>5 DEF FinishOrdered, DevicesFollow, WorkersKnown
  <2>8. BootOrdered'
    BY <2>1, <2>2, <2>3, <2>5, <2>6 DEF BootOrdered
  <2>9. MailSound' /\ SpawnsOnce'
    BY <2>1, <2>3, WorkersKept
  <2> QED
    BY <2>4, <2>7, <2>8, <2>9 DEF MachineInv
<1>5. CASE Attach \/ BootedHook \/ Caught
  <2>1. /\ UNCHANGED <<main, devices, workers, worker, init, mail>>
        /\ boot' \in BootType /\ boot'.at \in {"attached", "hooks", "resolved", "rejected"}
        /\ boot'.at = "attached" => boot.at = "load"
        /\ boot'.at = "rejected" => main.finish = "done"
    <3>1. CASE Attach
      BY <1>t, <3>1 DEF Attach, BootType
    <3>2. CASE BootedHook
      <4>1. CASE boot.plugin = Plugins + 1
        BY <1>t, <3>2, <4>1 DEF BootedHook, BootType
      <4>2. CASE boot.plugin # Plugins + 1
        <5>1. boot' = [boot EXCEPT !.plugin = boot.plugin + 1] /\ boot.at = "hooks"
          BY <3>2, <4>2 DEF BootedHook
        <5>2. boot.plugin \in 1 .. Plugins + 1 /\ boot.plugin + 1 \in 1 .. Plugins + 1
          BY <1>t, <4>2 DEF BootType
        <5>3. boot' \in BootType /\ boot'.at = "hooks"
          BY <1>t, <5>1, <5>2 DEF BootType
        <5> QED
          BY <3>2, <5>3 DEF BootedHook
      <4> QED
        BY <4>1, <4>2
    <3>3. CASE Caught
      BY <1>t, <3>3 DEF Caught, BootType
    <3> QED
      BY <1>5, <3>1, <3>2, <3>3
  <2>2. Typed'
    BY <1>t, <2>1 DEF Typed
  <2>3. FinishOrdered' /\ DevicesFollow' /\ BootOrdered' /\ WorkersKnown'
    BY <1>t, <2>1 DEF FinishOrdered, DevicesFollow, BootOrdered, WorkersKnown
  <2>4. MailSound' /\ SpawnsOnce'
    BY <2>1, WorkersKept
  <2> QED
    BY <2>2, <2>3, <2>4 DEF MachineInv
<1>6. CASE BootThrows
  <2>1. /\ UNCHANGED <<workers, worker, init, mail>> /\ boot.at \in {"load", "attached", "hooks"}
        /\ boot' = [boot EXCEPT !.at = "catch"] /\ finish(main)
    BY <1>6 DEF BootThrows
  <2>2. boot' \in BootType /\ boot'.at = "catch"
    BY <1>t, <2>1 DEF BootType
  <2>3. Finished
    BY <1>t, <2>1, FinishFacts
  <2>4. Typed'
    BY <1>t, <2>1, <2>2, <2>3 DEF Typed, Finished
  <2>5. FinishOrdered' /\ DevicesFollow' /\ BootOrdered' /\ WorkersKnown'
    BY <2>1, <2>2, <2>3, FinishKeeps
  <2>6. MailSound' /\ SpawnsOnce'
    BY <2>1, <2>3, WorkersKept DEF Finished
  <2> QED
    BY <2>4, <2>5, <2>6 DEF MachineInv
<1>7. CASE Boot
  <2>1. /\ UNCHANGED <<main, devices, init, mail>> /\ boot.at = "attached"
        /\ boot' = [boot EXCEPT !.at = "hooks"] /\ start_worker(1)
    BY <1>7 DEF Boot, start_worker
  <2>2. boot' \in BootType /\ boot'.at = "hooks"
    BY <1>t, <2>1 DEF BootType
  <2>3. /\ \A w \in Workers : worker[w] = "none" /\ mail[w] = <<>>
        /\ 1 \in Workers
    BY <1>t, <2>1 DEF BootOrdered, MailSound, Workers
  <2>4. \/ main.closed /\ UNCHANGED <<workers, worker>>
        \/ ~main.closed /\ workers' = workers \cup {1} /\ worker' = [worker EXCEPT ![1] = "created"]
    BY <2>1 DEF start_worker
  <2>5. Typed'
    BY <1>t, <2>1, <2>2, <2>3, <2>4 DEF Typed, WorkerStates
  <2>6. FinishOrdered' /\ DevicesFollow' /\ BootOrdered'
    BY <1>t, <2>1, <2>2 DEF FinishOrdered, DevicesFollow, BootOrdered
  <2>7. WorkersKnown'
    BY <1>t, <2>1, <2>3, <2>4 DEF WorkersKnown, FinishOrdered, Live
  <2>8. MailSound' /\ SpawnsOnce'
    BY <2>1, <2>3 DEF MailSound, SpawnsOnce, Spawns
  <2> QED
    BY <2>5, <2>6, <2>7, <2>8 DEF MachineInv
<1> QED
  BY <1>1, <1>2, <1>3, <1>4, <1>5, <1>6, <1>7 DEF BootStep

-----------------------------------------------------------------------------
(***************************************************************************)
(* The steps of closing.                                                   *)
(***************************************************************************)
LEMMA CloseKeeps ==
  ASSUME MachineInv,
         \/ FinishStep \/ Close \/ CancelConsole
         \/ \E d \in Devices : DeviceError(d) \/ \E ok \in BOOLEAN : DeviceClosed(d, ok)
  PROVE  MachineInv'
<1>t. /\ boot \in BootType /\ main \in MainType /\ devices \in [Devices -> DeviceStates]
      /\ workers \in SUBSET Workers /\ worker \in [Workers -> WorkerStates]
      /\ init \in [Workers -> InitType] /\ mail \in [Workers -> Seq(MessageType)]
      /\ FinishOrdered /\ DevicesFollow /\ BootOrdered /\ WorkersKnown /\ MailSound /\ SpawnsOnce
  BY BootTyped
<1>1. ASSUME DevicesClosed PROVE MachineInv'
  <2> DEFINE m == IF AnyBroken THEN Failed(main, "device") ELSE main
  <2>1. /\ UNCHANGED <<boot, devices, workers, init>> /\ main.finish = "devices" /\ AllSettled
        /\ main' = [m EXCEPT !.finish = "workers"]
        /\ worker' = [w \in Workers |-> IF w \in workers THEN "terminated" ELSE worker[w]]
        /\ mail' = [w \in Workers |-> IF w \in workers THEN <<>> ELSE mail[w]]
    BY <1>1 DEF DevicesClosed
  <2>2. /\ m \in MainType /\ m.closed = main.closed
        /\ m.outcome = main.outcome /\ m.console = main.console
    BY <1>t DEF Failed, MainType
  <2> HIDE DEF m
  <2>3. /\ main' \in MainType /\ main'.finish = "workers" /\ main'.closed = main.closed
        /\ main'.outcome = main.outcome /\ main'.console = main.console
    BY <2>1, <2>2 DEF MainType
  <2>4. worker' \in [Workers -> WorkerStates] /\ mail' \in [Workers -> Seq(MessageType)]
    BY <1>t, <2>1 DEF WorkerStates
  <2>5. Typed'
    BY <1>t, <2>1, <2>3, <2>4 DEF Typed
  <2>6. FinishOrdered' /\ main.closed
    BY <1>t, <2>1, <2>3 DEF FinishOrdered
  <2>7. DevicesFollow'
    BY <1>t, <2>1, <2>3 DEF DevicesFollow, AllSettled
  <2>8. boot.at \notin {"configure", "unconfigure", "rejected"}
    BY <1>t, <2>1 DEF BootOrdered
  <2>9. \A w \in Workers : worker'[w] \notin Live
    BY <1>t, <2>1 DEF WorkersKnown, Live
  <2>10. WorkersKnown'
    <3>1. \A w \in workers : worker'[w] # "none"
      BY <1>t, <2>1
    <3> QED
      BY <2>1, <2>9, <3>1 DEF WorkersKnown
  <2>11. boot.at \in {"load", "attached"} => \A w \in Workers : worker'[w] = "none"
    BY <1>t, <2>1 DEF BootOrdered, WorkersKnown
  <2>12. BootOrdered'
    BY <2>1, <2>8, <2>11 DEF BootOrdered
  <2>13. MailSound'
    BY <1>t, <2>1 DEF MailSound
  <2>14. SpawnsOnce'
    BY <2>3, <2>6 DEF SpawnsOnce
  <2> QED
    BY <2>5, <2>6, <2>7, <2>10, <2>12, <2>13, <2>14 DEF MachineInv
<1>2. ASSUME NEW ok \in BOOLEAN, WorkersTerminated(ok) PROVE MachineInv'
  <2> DEFINE m == IF ok THEN main ELSE Failed(main, "terminate")
  <2>1. /\ UNCHANGED <<boot, devices, workers, worker, init, mail>> /\ main.finish = "workers"
        /\ main' = [[m EXCEPT !.console = "closed"] EXCEPT
                      !.finish = "done", !.outcome = IF m.failed THEN "rejected" ELSE "resolved"]
    BY <1>2 DEF WorkersTerminated, boot_console_close
  <2>2. m \in MainType /\ m.closed = main.closed
    BY <1>t DEF Failed, MainType
  <2> HIDE DEF m
  <2>3. /\ main' \in MainType /\ main'.finish = "done" /\ main'.closed = main.closed
        /\ main'.outcome \in {"rejected", "resolved"} /\ main'.console = "closed"
    BY <2>1, <2>2 DEF MainType
  <2>4. Typed'
    BY <1>t, <2>1, <2>3 DEF Typed
  <2>5. FinishOrdered' /\ DevicesFollow' /\ WorkersKnown'
    BY <1>t, <2>1, <2>3 DEF FinishOrdered, DevicesFollow, WorkersKnown
  <2>6. BootOrdered'
    BY <1>t, <2>1, <2>3 DEF BootOrdered
  <2>7. MailSound' /\ SpawnsOnce'
    BY <2>1, <2>3, WorkersKept
  <2> QED
    BY <2>4, <2>5, <2>6, <2>7 DEF MachineInv
<1>3. ASSUME Finished, UNCHANGED <<boot, workers, worker, init, mail>>,
             boot.at \in {"attached", "hooks", "catch", "resolved"}
      PROVE  MachineInv'
  <2>1. Typed'
    BY <1>t, <1>3 DEF Typed, Finished
  <2>2. FinishOrdered' /\ DevicesFollow' /\ BootOrdered' /\ WorkersKnown'
    BY <1>3, FinishKeeps
  <2>3. MailSound' /\ SpawnsOnce'
    BY <1>3, WorkersKept DEF Finished
  <2> QED
    BY <2>1, <2>2, <2>3 DEF MachineInv
<1>4. ASSUME Close PROVE MachineInv'
  <2>1. Finished
    BY <1>4, <1>t, FinishFacts DEF Close
  <2> QED
    BY <1>3, <1>4, <2>1 DEF Close
<1>5. ASSUME NEW d \in Devices, DeviceError(d) PROVE MachineInv'
  <2>1. Finished
    BY <1>5, FailFacts DEF DeviceError
  <2> QED
    BY <1>3, <1>5, <2>1 DEF DeviceError
<1>6. ASSUME NEW d \in Devices, NEW ok \in BOOLEAN, DeviceClosed(d, ok) PROVE MachineInv'
  <2>1. /\ UNCHANGED <<boot, main, workers, worker, init, mail>> /\ devices[d] = "closing"
        /\ devices' = [devices EXCEPT ![d] = IF ok THEN "closed" ELSE "broken"]
    BY <1>6 DEF DeviceClosed
  <2>2. devices' \in [Devices -> DeviceStates]
    BY <1>t, <2>1 DEF DeviceStates
  <2>3. \A e \in Devices : devices'[e] = devices[e] \/ devices'[e] \in {"closed", "broken"}
    BY <1>t, <2>1
  <2>4. Typed'
    BY <1>t, <2>1, <2>2 DEF Typed
  <2>5. FinishOrdered' /\ DevicesFollow' /\ WorkersKnown'
    BY <1>t, <2>1, <2>3 DEF FinishOrdered, DevicesFollow, WorkersKnown
  <2>6. BootOrdered'
    BY <1>t, <2>1, <2>3 DEF BootOrdered
  <2>7. MailSound' /\ SpawnsOnce'
    BY <2>1, WorkersKept
  <2> QED
    BY <2>4, <2>5, <2>6, <2>7 DEF MachineInv
<1>7. ASSUME CancelConsole PROVE MachineInv'
  <2>1. /\ UNCHANGED <<boot, devices, workers, worker, init, mail>>
        /\ main' = [main EXCEPT !.console = "closed"]
    BY <1>7 DEF CancelConsole
  <2>2. /\ main' \in MainType /\ main'.console = "closed" /\ main'.finish = main.finish
        /\ main'.closed = main.closed /\ main'.outcome = main.outcome
    BY <1>t, <2>1 DEF MainType
  <2>3. Typed'
    BY <1>t, <2>1, <2>2 DEF Typed
  <2>4. FinishOrdered' /\ DevicesFollow' /\ WorkersKnown'
    BY <1>t, <2>1, <2>2 DEF FinishOrdered, DevicesFollow, WorkersKnown
  <2>5. BootOrdered'
    BY <1>t, <2>1, <2>2 DEF BootOrdered
  <2>6. MailSound' /\ SpawnsOnce'
    BY <2>1, <2>2, WorkersKept
  <2> QED
    BY <2>3, <2>4, <2>5, <2>6 DEF MachineInv
<1> QED
  BY <1>1, <1>2, <1>4, <1>5, <1>6, <1>7 DEF FinishStep

-----------------------------------------------------------------------------
(***************************************************************************)
(* The steps of a worker.                                                  *)
(***************************************************************************)
(* A worker that has begun means a machine that has booted and whose       *)
(* workers have not been told to stop.                                     *)
LEMMA Begun ==
  ASSUME MachineInv, NEW w \in Workers, worker[w] \in Live
  PROVE  /\ boot.at \in {"hooks", "catch", "resolved", "rejected"}
         /\ main.finish \notin {"workers", "done"}
         /\ boot.at # "rejected" /\ w \in workers
<1>t. boot \in BootType /\ BootOrdered /\ WorkersKnown /\ worker[w] # "none"
  BY DEF MachineInv, Typed, Live
<1>1. main.finish \notin {"workers", "done"} /\ w \in workers
  BY <1>t DEF WorkersKnown
<1> QED
  BY <1>1, <1>t DEF BootOrdered, BootType

(* A worker goes on, and may say so.                                       *)
LEMMA WorkerMoves ==
  ASSUME MachineInv, NEW w \in Workers, worker[w] \in {"created", "running", "waiting"},
         NEW s \in {"running", "halted", "crashed", "quit"},
         worker' = [worker EXCEPT ![w] = s], UNCHANGED <<boot, main, devices, workers>>,
         init' \in [Workers -> InitType],
         \/ mail' = mail
         \/ \E m \in MessageType : /\ m.type # "spawn_worker" /\ (m.type = "worker_exit" => s = "quit")
                                   /\ Post(w, m)
  PROVE  MachineInv'
<1>t. /\ boot \in BootType /\ main \in MainType /\ devices \in [Devices -> DeviceStates]
      /\ workers \in SUBSET Workers /\ worker \in [Workers -> WorkerStates]
      /\ mail \in [Workers -> Seq(MessageType)]
      /\ FinishOrdered /\ DevicesFollow /\ BootOrdered /\ WorkersKnown /\ MailSound /\ SpawnsOnce
  BY BootTyped
<1>0. Typed
  BY DEF MachineInv
<1>1. /\ boot.at \in {"hooks", "catch", "resolved", "rejected"}
      /\ main.finish \notin {"workers", "done"}
      /\ boot.at # "rejected" /\ w \in workers
  <2>1. worker[w] \in Live
    BY DEF Live
  <2> QED
    BY <2>1, Begun
<1>2. /\ \A v \in Workers : v # w => mail'[v] = mail[v]
      /\ mail' \in [Workers -> Seq(MessageType)]
      /\ \A i \in 1 .. Len(mail'[w]) :
           \/ i \in 1 .. Len(mail[w]) /\ mail'[w][i] = mail[w][i]
           \/ mail'[w][i].type # "spawn_worker" /\ (mail'[w][i].type = "worker_exit" => s = "quit")
  <2>1. CASE mail' = mail
    BY <1>t, <2>1
  <2>2. CASE \E m \in MessageType : /\ m.type # "spawn_worker" /\ (m.type = "worker_exit" => s = "quit")
                                    /\ Post(w, m)
    <3>1. PICK m \in MessageType : /\ m.type # "spawn_worker" /\ (m.type = "worker_exit" => s = "quit")
                                   /\ Post(w, m)
      BY <2>2
    <3>2. /\ mail' \in [Workers -> Seq(MessageType)]
          /\ \A v \in Workers : v # w => mail'[v] = mail[v]
          /\ Len(mail[w]) \in Nat /\ Len(mail'[w]) = Len(mail[w]) + 1
          /\ \A i \in 1 .. Len(mail[w]) : mail'[w][i] = mail[w][i]
          /\ mail'[w][Len(mail[w]) + 1] = m
      BY <1>0, <3>1, PostMail
    <3>3. \A i \in 1 .. Len(mail'[w]) : i \in 1 .. Len(mail[w]) \/ i = Len(mail[w]) + 1
      BY <3>2
    <3> QED
      BY <3>1, <3>2, <3>3
  <2> QED
    BY <2>1, <2>2
<1>3. /\ worker' \in [Workers -> WorkerStates] /\ worker'[w] = s
      /\ \A v \in Workers : v # w => worker'[v] = worker[v]
  BY <1>t DEF WorkerStates
<1>4. Typed'
  BY <1>2, <1>3, <1>t DEF Typed
<1>5. FinishOrdered' /\ DevicesFollow' /\ BootOrdered'
  BY <1>1, <1>t DEF FinishOrdered, DevicesFollow, BootOrdered
<1>6. WorkersKnown'
  <2>1. \A v \in workers : worker'[v] # "none"
    BY <1>3, <1>t DEF WorkersKnown
  <2>2. \A v \in Workers : worker'[v] \in Live => v \in workers
    BY <1>1, <1>3, <1>t DEF WorkersKnown
  <2> QED
    BY <1>1, <2>1, <2>2 DEF WorkersKnown
<1>7. MailSound'
  <2>1. \A v \in Workers : worker'[v] \in {"none", "asked", "created"} => mail'[v] = <<>>
    BY <1>2, <1>3, <1>t DEF MailSound
  <2>2. \A v \in Workers : \A i \in 1 .. Len(mail'[v]) :
          mail'[v][i].type = "worker_exit" => worker'[v] \in {"quit", "terminated"}
    <3> SUFFICES ASSUME NEW v \in Workers, NEW i \in 1 .. Len(mail'[v]),
                        mail'[v][i].type = "worker_exit"
                 PROVE  worker'[v] \in {"quit", "terminated"}
      OBVIOUS
    <3>1. CASE v # w
      BY <1>2, <1>3, <1>t, <3>1 DEF MailSound
    <3>2. CASE v = w
      <4>1. ~(i \in 1 .. Len(mail[w]) /\ mail'[w][i] = mail[w][i])
        BY <1>t, <3>2 DEF MailSound
      <4> QED
        BY <1>2, <1>3, <3>2, <4>1
    <3> QED
      BY <3>1, <3>2
  <2> QED
    BY <2>1, <2>2 DEF MailSound
<1>8. SpawnsOnce'
  <2> SUFFICES ASSUME ~main.closed PROVE SpawnsOnce'
    BY DEF SpawnsOnce
  <2>1. \A v, c \in Workers, i \in Nat : Spawns(v, i, c)' => Spawns(v, i, c)
    <3> SUFFICES ASSUME NEW v \in Workers, NEW c \in Workers, NEW i \in Nat, Spawns(v, i, c)'
                 PROVE  Spawns(v, i, c)
      OBVIOUS
    <3>1. CASE v # w
      BY <1>2, <3>1 DEF Spawns
    <3>2. CASE v = w
      BY <1>2, <3>2 DEF Spawns
    <3> QED
      BY <3>1, <3>2
  <2>2. \A c \in Workers : worker[c] = "asked" => worker'[c] = "asked"
    BY <1>3
  <2> QED
    BY <1>t, <2>1, <2>2 DEF SpawnsOnce
<1> QED
  BY <1>4, <1>5, <1>6, <1>7, <1>8 DEF MachineInv

(* The next worker is one that was never asked for.                        *)
LEMMA NextIsFresh ==
  ASSUME Fresh # {}
  PROVE  Next1(Fresh) \in Fresh
<1>1. Fresh \subseteq Nat
  BY DEF Fresh, Workers
<1>2. \A a, b \in Nat : <<a, b>> \in OpToRel(<, Nat) <=> a < b
  BY Zenon DEF OpToRel
<1>3. \E R : IsWellFoundedOn(R, Nat) /\ \A a, b \in Nat : <<a, b>> \in R <=> a < b
  BY <1>2, NatLessThanWellFounded, Zenon
<1>4. PICK R : IsWellFoundedOn(R, Nat) /\ \A a, b \in Nat : <<a, b>> \in R <=> a < b
  BY <1>3
<1>5. IsWellFoundedOn(R, Nat)
  BY <1>4
<1>6. PICK w \in Fresh : \A v \in Fresh : ~ (<<v, w>> \in R)
  BY <1>1, <1>5, WFMin, Zenon
<1>7. \A v \in Fresh : ~ (v < w)
  BY <1>1, <1>4, <1>6, Zenon
<1>8. \A v \in Fresh : w <= v
  BY <1>1, <1>7
<1> QED
  BY <1>8 DEF Next1

(* A worker is asked for: its "spawn" is the only one that names it.       *)
LEMMA SpawnKeeps ==
  ASSUME MachineInv, NEW w \in Workers, NEW copy \in BOOLEAN, SpawnWorker(w, copy)
  PROVE  MachineInv'
<1>t. /\ boot \in BootType /\ main \in MainType /\ devices \in [Devices -> DeviceStates]
      /\ workers \in SUBSET Workers /\ worker \in [Workers -> WorkerStates]
      /\ init \in [Workers -> InitType] /\ mail \in [Workers -> Seq(MessageType)]
      /\ FinishOrdered /\ DevicesFollow /\ BootOrdered /\ WorkersKnown /\ MailSound /\ SpawnsOnce
  BY BootTyped
<1>0. Typed
  BY DEF MachineInv
<1> DEFINE child == Next1(Fresh)
           m == Message("spawn_worker", child)
           next == IF copy THEN "waiting" ELSE "running"
<1>1. child \in Workers /\ worker[child] = "none" /\ worker[w] = "running" /\ child # w
  <2>1. child \in Fresh /\ worker[w] = "running"
    BY NextIsFresh DEF SpawnWorker
  <2> QED
    BY <2>1 DEF Fresh
<1>2. /\ UNCHANGED <<boot, main, devices, workers>> /\ Post(w, m)
      /\ worker' = [worker EXCEPT ![child] = "asked", ![w] = next]
      /\ init' = [init EXCEPT ![child] = [parent |-> w, copy |-> IF copy THEN "pending" ELSE "none"]]
  BY <1>1 DEF SpawnWorker
<1>3. m \in MessageType /\ m.type = "spawn_worker" /\ m.child = child
  BY <1>1 DEF Message, MessageType
<1>4. init' \in [Workers -> InitType]
  <2>1. [parent |-> w, copy |-> IF copy THEN "pending" ELSE "none"] \in InitType
    BY DEF InitType, Workers
  <2> QED
    BY <1>2, <1>t, <2>1
<1> HIDE DEF child, m
<1>5. /\ worker' \in [Workers -> WorkerStates] /\ worker'[w] \in {"running", "waiting"}
      /\ worker'[child] = "asked"
      /\ \A v \in Workers : v # w /\ v # child => worker'[v] = worker[v]
  BY <1>1, <1>2, <1>t DEF WorkerStates
<1>6. /\ mail' \in [Workers -> Seq(MessageType)]
      /\ \A v \in Workers : v # w => mail'[v] = mail[v]
      /\ Len(mail[w]) \in Nat /\ Len(mail'[w]) = Len(mail[w]) + 1
      /\ \A i \in 1 .. Len(mail[w]) : mail'[w][i] = mail[w][i]
      /\ mail'[w][Len(mail[w]) + 1] = m
  BY <1>0, <1>2, <1>3, PostMail
<1>7. \A i \in 1 .. Len(mail'[w]) : i \in 1 .. Len(mail[w]) \/ i = Len(mail[w]) + 1
  BY <1>6
<1>8. /\ boot.at \in {"hooks", "catch", "resolved", "rejected"}
      /\ main.finish \notin {"workers", "done"}
      /\ boot.at # "rejected" /\ w \in workers
  <2>1. worker[w] \in Live
    BY <1>1 DEF Live
  <2> QED
    BY <2>1, Begun
<1>9. Typed'
  BY <1>2, <1>4, <1>5, <1>6, <1>t DEF Typed
<1>10. FinishOrdered' /\ DevicesFollow' /\ BootOrdered'
  BY <1>2, <1>8, <1>t DEF FinishOrdered, DevicesFollow, BootOrdered
<1>11. WorkersKnown'
  <2>1. \A v \in workers : worker'[v] # "none"
    BY <1>5, <1>t DEF WorkersKnown
  <2>2. \A v \in Workers : worker'[v] \in Live => v \in workers
    BY <1>5, <1>8, <1>t DEF WorkersKnown, Live
  <2> QED
    BY <1>2, <1>8, <2>1, <2>2 DEF WorkersKnown
<1>12. MailSound'
  <2>1. \A v \in Workers : worker'[v] \in {"none", "asked", "created"} => mail'[v] = <<>>
    BY <1>1, <1>5, <1>6, <1>t DEF MailSound
  <2>2. \A v \in Workers : \A i \in 1 .. Len(mail'[v]) :
          mail'[v][i].type = "worker_exit" => worker'[v] \in {"quit", "terminated"}
    <3> SUFFICES ASSUME NEW v \in Workers, NEW i \in 1 .. Len(mail'[v]),
                        mail'[v][i].type = "worker_exit"
                 PROVE  worker'[v] \in {"quit", "terminated"}
      OBVIOUS
    <3>1. CASE v # w
      <4>1. worker[v] \in {"quit", "terminated"}
        BY <1>6, <1>t, <3>1 DEF MailSound
      <4> QED
        BY <1>1, <1>5, <3>1, <4>1
    <3>2. CASE v = w
      <4>1. i # Len(mail[w]) + 1
        BY <1>3, <1>6, <3>2
      <4>2. mail[w][i].type = "worker_exit" /\ i \in 1 .. Len(mail[w])
        BY <1>6, <1>7, <3>2, <4>1
      <4> QED
        BY <1>1, <1>t, <4>2 DEF MailSound
    <3> QED
      BY <3>1, <3>2
  <2> QED
    BY <2>1, <2>2 DEF MailSound
<1>13. SpawnsOnce'
  <2> SUFFICES ASSUME ~main.closed PROVE SpawnsOnce'
    BY <1>2 DEF SpawnsOnce
  <2>1. \A v, c \in Workers, i \in Nat : Spawns(v, i, c)' =>
          Spawns(v, i, c) \/ (v = w /\ i = Len(mail[w]) + 1 /\ c = child)
    <3> SUFFICES ASSUME NEW v \in Workers, NEW c \in Workers, NEW i \in Nat, Spawns(v, i, c)'
                 PROVE  Spawns(v, i, c) \/ (v = w /\ i = Len(mail[w]) + 1 /\ c = child)
      OBVIOUS
    <3>1. CASE v # w
      BY <1>6, <3>1 DEF Spawns
    <3>2. CASE v = w
      BY <1>3, <1>6, <1>7, <3>2 DEF Spawns
    <3> QED
      BY <3>1, <3>2
  <2>2. \A v \in Workers, i \in Nat : ~Spawns(v, i, child)
    BY <1>1, <1>t DEF SpawnsOnce
  <2>3. \A v, c \in Workers, i \in Nat : Spawns(v, i, c)' => worker'[c] = "asked"
    <3>1. \A v, c \in Workers, i \in Nat : Spawns(v, i, c) => worker[c] = "asked"
      BY <1>t DEF SpawnsOnce
    <3>2. \A c \in Workers : worker[c] = "asked" => worker'[c] = "asked"
      BY <1>1, <1>5
    <3> QED
      BY <1>5, <2>1, <3>1, <3>2
  <2>4. \A v, x, c \in Workers, i, j \in Nat :
          Spawns(v, i, c)' /\ Spawns(x, j, c)' => v = x /\ i = j
    BY <1>t, <2>1, <2>2 DEF SpawnsOnce
  <2> QED
    BY <2>3, <2>4 DEF SpawnsOnce
<1> QED
  BY <1>9, <1>10, <1>11, <1>12, <1>13 DEF MachineInv

LEMMA WorkerKeeps ==
  ASSUME MachineInv, NEW w \in Workers, StartStep(w) \/ ParentResumes(w) \/ KernelStep(w)
  PROVE  MachineInv'
<1>t. init \in [Workers -> InitType] /\ worker \in [Workers -> WorkerStates]
  BY BootTyped
<1>m. /\ Message("worker_exit", w) \in MessageType /\ Message("worker_exit", w).type = "worker_exit"
      /\ Message("boot_console_close", w) \in MessageType
      /\ Message("boot_console_close", w).type = "boot_console_close"
      /\ Message("error", w) \in MessageType /\ Message("error", w).type = "error"
      /\ Message("clean", w) \in MessageType /\ Message("clean", w).type = "clean"
      /\ Message("panic", w) \in MessageType /\ Message("panic", w).type = "panic"
  BY DEF Message, MessageType
<1>1. ASSUME Start(w) \/ StartCopied(w) \/ ParentResumes(w) PROVE MachineInv'
  <2>1. init' \in [Workers -> InitType]
    <3>1. CASE StartCopied(w)
      <4>1. init' = [init EXCEPT ![w] = [init[w] EXCEPT !.copy = "copied"]]
        BY <3>1 DEF StartCopied
      <4>2. [init[w] EXCEPT !.copy = "copied"] \in InitType
        BY <1>t DEF InitType
      <4> QED
        BY <1>t, <4>1, <4>2
    <3>2. CASE ~StartCopied(w)
      BY <1>1, <1>t, <3>2 DEF Start, ParentResumes
    <3> QED
      BY <3>1, <3>2
  <2>2. /\ worker[w] \in {"created", "running", "waiting"}
        /\ worker' = [worker EXCEPT ![w] = "running"]
        /\ UNCHANGED <<boot, main, devices, workers>> /\ mail' = mail
    BY <1>1 DEF Start, StartCopied, ParentResumes, Becomes
  <2> QED
    BY <2>1, <2>2, WorkerMoves
<1>2. ASSUME CopyFails(w) PROVE MachineInv'
  <2>1. init' = [init EXCEPT ![w] = [init[w] EXCEPT !.copy = "failed"]]
    BY <1>2 DEF CopyFails
  <2>2. [init[w] EXCEPT !.copy = "failed"] \in InitType
    BY <1>t DEF InitType
  <2>3. init' \in [Workers -> InitType]
    BY <1>t, <2>1, <2>2
  <2>4. /\ worker[w] \in {"created", "running", "waiting"}
        /\ worker' = [worker EXCEPT ![w] = "quit"]
        /\ UNCHANGED <<boot, main, devices, workers>> /\ Post(w, Message("worker_exit", w))
    BY <1>2 DEF CopyFails, Becomes
  <2> QED
    BY <1>m, <2>3, <2>4, WorkerMoves
<1>3. ASSUME NEW copy \in BOOLEAN, SpawnWorker(w, copy) PROVE MachineInv'
  BY <1>3, SpawnKeeps
<1>4. ASSUME HaltWorker(w) PROVE MachineInv'
  <2>1. /\ worker[w] \in {"created", "running", "waiting"}
        /\ worker' = [worker EXCEPT ![w] = "quit"] /\ init' = init
        /\ UNCHANGED <<boot, main, devices, workers>> /\ Post(w, Message("worker_exit", w))
    BY <1>4 DEF HaltWorker, Becomes
  <2> QED
    BY <1>m, <1>t, <2>1, WorkerMoves
<1>5. ASSUME NEW panic \in BOOLEAN, TerminateMachine(w, panic) PROVE MachineInv'
  <2>1. /\ worker[w] \in {"created", "running", "waiting"}
        /\ worker' = [worker EXCEPT ![w] = "halted"] /\ init' = init
        /\ UNCHANGED <<boot, main, devices, workers>>
        /\ Post(w, Message("clean", w)) \/ Post(w, Message("panic", w))
    BY <1>5 DEF TerminateMachine, Becomes
  <2>2. \E m \in MessageType : m.type \notin {"spawn_worker", "worker_exit"} /\ Post(w, m)
    BY <1>m, <2>1
  <2> QED
    BY <1>t, <2>1, <2>2, WorkerMoves
<1>6. ASSUME ConsoleClose(w) PROVE MachineInv'
  <2>1. /\ worker[w] = "running" /\ worker' = worker /\ init' = init
        /\ UNCHANGED <<boot, main, devices, workers>> /\ Post(w, Message("boot_console_close", w))
    BY <1>6 DEF ConsoleClose
  <2>2. worker' = [worker EXCEPT ![w] = "running"]
    BY <1>t, <2>1
  <2> QED
    BY <1>m, <1>t, <2>1, <2>2, WorkerMoves
<1>7. ASSUME Crash(w) PROVE MachineInv'
  <2>1. /\ worker[w] \in {"created", "running", "waiting"}
        /\ worker' = [worker EXCEPT ![w] = "crashed"] /\ init' = init
        /\ UNCHANGED <<boot, main, devices, workers>> /\ Post(w, Message("error", w))
    BY <1>7 DEF Crash, Becomes
  <2> QED
    BY <1>m, <1>t, <2>1, WorkerMoves
<1> QED
  BY <1>1, <1>2, <1>3, <1>4, <1>5, <1>6, <1>7 DEF StartStep, KernelStep

-----------------------------------------------------------------------------
(***************************************************************************)
(* The main thread's handlers.                                             *)
(***************************************************************************)
(* A message means a machine that has booted.                              *)
LEMMA Spoken ==
  ASSUME MachineInv, NEW w \in Workers, mail[w] # <<>>
  PROVE  /\ boot.at \in {"hooks", "catch", "resolved", "rejected"}
         /\ boot.at = "rejected" => main.finish # "no"
         /\ worker[w] \notin {"none", "asked", "created"}
<1>t. boot \in BootType /\ BootOrdered /\ MailSound
  BY DEF MachineInv, Typed
<1>1. worker[w] \notin {"none", "asked", "created"}
  BY <1>t DEF MailSound
<1> QED
  BY <1>1, <1>t DEF BootOrdered, BootType

(* A handler that calls finish().                                          *)
LEMMA FinishHandled ==
  ASSUME MachineInv, NEW w \in Workers, mail[w] # <<>>, Take(w), Finished,
         UNCHANGED <<boot, workers, worker, init>>
  PROVE  MachineInv'
<1>t. /\ boot \in BootType /\ workers \in SUBSET Workers /\ worker \in [Workers -> WorkerStates]
      /\ init \in [Workers -> InitType]
  BY BootTyped
<1>0. Typed
  BY DEF MachineInv
<1>1. mail' \in [Workers -> Seq(MessageType)]
  BY <1>0, TakeMail
<1>2. Typed'
  BY <1>1, <1>t DEF Typed, Finished
<1>3. boot.at \notin {"configure", "unconfigure"} /\ (boot.at = "rejected" => main.finish # "no")
  BY Spoken
<1>4. FinishOrdered' /\ DevicesFollow' /\ BootOrdered' /\ WorkersKnown'
  BY <1>3, FinishKeeps
<1>5. main'.closed
  BY DEF Finished
<1>6. MailSound' /\ SpawnsOnce'
  BY <1>5, TakeKeeps
<1> QED
  BY <1>2, <1>4, <1>6 DEF MachineInv

LEMMA HandleKeeps ==
  ASSUME MachineInv, NEW w \in Workers, HandleMessage(w)
  PROVE  MachineInv'
<1> DEFINE m == Head(mail[w])
<1>t. /\ boot \in BootType /\ main \in MainType /\ devices \in [Devices -> DeviceStates]
      /\ workers \in SUBSET Workers /\ worker \in [Workers -> WorkerStates]
      /\ init \in [Workers -> InitType] /\ mail \in [Workers -> Seq(MessageType)]
      /\ FinishOrdered /\ DevicesFollow /\ BootOrdered /\ WorkersKnown /\ MailSound /\ SpawnsOnce
  BY BootTyped
<1>0. Typed
  BY DEF MachineInv
<1>1. /\ mail[w] # <<>> /\ Take(w)
      /\ \/ HandleSpawn(w, m) \/ HandleTerminate(w, m) \/ HandleConsoleClose(w, m)
         \/ HandleExit(w, m) \/ HandleError(w, m)
  BY DEF HandleMessage, HandleSpawn, HandleTerminate, HandleConsoleClose, HandleExit, HandleError
<1>2. /\ mail' \in [Workers -> Seq(MessageType)]
      /\ \A v \in Workers : v # w => mail'[v] = mail[v]
      /\ 1 \in 1 .. Len(mail[w]) /\ m = mail[w][1] /\ m \in MessageType
      /\ \A i \in 1 .. Len(mail'[w]) : i + 1 \in 1 .. Len(mail[w]) /\ mail'[w][i] = mail[w][i + 1]
  BY <1>0, <1>1, TakeMail
<1>3. /\ boot.at \in {"hooks", "catch", "resolved", "rejected"}
      /\ boot.at = "rejected" => main.finish # "no"
      /\ worker[w] \notin {"none", "asked", "created"}
  BY <1>1, Spoken
<1>4. ASSUME UNCHANGED <<boot, main, devices, worker, init>>, workers' \in SUBSET Workers,
             \A v \in workers' : v \in workers,
             \A v \in Workers : worker[v] \in Live => v \in workers'
      PROVE  MachineInv'
  <2>1. Typed'
    BY <1>2, <1>4, <1>t DEF Typed
  <2>2. FinishOrdered' /\ DevicesFollow' /\ BootOrdered'
    BY <1>4, <1>t DEF FinishOrdered, DevicesFollow, BootOrdered
  <2>3. WorkersKnown'
    BY <1>4, <1>t DEF WorkersKnown
  <2>4. MailSound' /\ SpawnsOnce'
    BY <1>1, <1>4, TakeKeeps
  <2> QED
    BY <2>1, <2>2, <2>3, <2>4 DEF MachineInv
<1> HIDE DEF m
<1>5. CASE HandleTerminate(w, m)
  <2>1. finish(main) \/ fail("panic")
    BY <1>5 DEF HandleTerminate
  <2>2. Finished
    BY <1>t, <2>1, FinishFacts, FailFacts
  <2> QED
    BY <1>1, <1>5, <2>2, FinishHandled DEF HandleTerminate
<1>6. CASE HandleError(w, m)
  <2>1. Finished
    BY <1>6, FailFacts DEF HandleError
  <2> QED
    BY <1>1, <1>6, <2>1, FinishHandled DEF HandleError
<1>7. CASE HandleConsoleClose(w, m)
  <2>1. /\ UNCHANGED <<boot, devices, workers, worker, init>>
        /\ main' = [main EXCEPT !.console = "closed"]
    BY <1>7 DEF HandleConsoleClose, boot_console_close
  <2>2. /\ main' \in MainType /\ main'.console = "closed" /\ main'.finish = main.finish
        /\ main'.closed = main.closed /\ main'.outcome = main.outcome
    BY <1>t, <2>1 DEF MainType
  <2>3. Typed'
    BY <1>2, <1>t, <2>1, <2>2 DEF Typed
  <2>4. FinishOrdered' /\ DevicesFollow' /\ WorkersKnown'
    BY <1>t, <2>1, <2>2 DEF FinishOrdered, DevicesFollow, WorkersKnown
  <2>5. BootOrdered'
    BY <1>t, <2>1, <2>2 DEF BootOrdered
  <2>6. MailSound' /\ SpawnsOnce'
    BY <1>1, <2>1, <2>2, TakeKeeps
  <2> QED
    BY <2>3, <2>4, <2>5, <2>6 DEF MachineInv
<1>8. CASE HandleExit(w, m)
  <2>1. UNCHANGED <<boot, main, devices, worker, init>> /\ workers' = workers \ {w}
    BY <1>8 DEF HandleExit
  <2>2. worker[w] \notin Live
    BY <1>2, <1>8, <1>t DEF HandleExit, MailSound, Live
  <2>3. workers' \in SUBSET Workers /\ \A v \in workers' : v \in workers
    BY <1>t, <2>1
  <2>4. \A v \in Workers : worker[v] \in Live => v \in workers'
    BY <1>t, <2>1, <2>2 DEF WorkersKnown
  <2> QED
    BY <1>4, <2>1, <2>3, <2>4
<1>9. CASE HandleSpawn(w, m)
  <2>0. m.type = "spawn_worker" /\ UNCHANGED <<boot, init>>
    BY <1>9 DEF HandleSpawn
  <2>1. CASE fail("spawn") /\ UNCHANGED <<workers, worker>>
    <3>1. Finished
      BY <2>1, FailFacts
    <3> QED
      BY <1>1, <2>0, <2>1, <3>1, FinishHandled
  <2>2. CASE main.closed /\ UNCHANGED <<workers, worker, main, devices>>
    BY <1>4, <1>t, <2>0, <2>2 DEF WorkersKnown
  <2>3. CASE /\ ~main.closed /\ UNCHANGED <<main, devices>>
             /\ workers' = workers \cup {m.child} /\ worker' = [worker EXCEPT ![m.child] = "created"]
    <3>1. m.child \in Workers /\ worker[m.child] = "asked"
      <4>1. m.child \in Workers
        BY <1>2 DEF MessageType
      <4>2. Spawns(w, 1, m.child)
        BY <1>2, <2>0 DEF Spawns
      <4> QED
        BY <1>t, <2>3, <4>1, <4>2 DEF SpawnsOnce
    <3>2. m.child # w /\ mail[m.child] = <<>>
      BY <1>3, <1>t, <3>1 DEF MailSound
    <3>3. /\ worker' \in [Workers -> WorkerStates] /\ worker'[m.child] = "created"
          /\ \A v \in Workers : v # m.child => worker'[v] = worker[v]
      BY <1>t, <2>3, <3>1 DEF WorkerStates
    <3>4. Typed'
      BY <1>2, <1>t, <2>0, <2>3, <3>1, <3>3 DEF Typed
    <3>5. main.finish = "no"
      BY <1>t, <2>3 DEF FinishOrdered
    <3>6. FinishOrdered' /\ DevicesFollow' /\ BootOrdered'
      BY <1>3, <1>t, <2>0, <2>3 DEF FinishOrdered, DevicesFollow, BootOrdered
    <3>7. WorkersKnown'
      <4>1. \A v \in workers' : worker'[v] # "none"
        BY <1>t, <2>3, <3>3 DEF WorkersKnown
      <4>2. \A v \in Workers : worker'[v] \in Live => v \in workers'
        BY <1>t, <2>3, <3>3 DEF WorkersKnown
      <4> QED
        BY <2>3, <3>5, <4>1, <4>2 DEF WorkersKnown
    <3>8. MailSound'
      <4>1. \A v \in Workers : worker'[v] \in {"none", "asked", "created"} => mail'[v] = <<>>
        BY <1>2, <1>3, <1>t, <3>2, <3>3 DEF MailSound
      <4>2. \A v \in Workers : \A i \in 1 .. Len(mail'[v]) :
              mail'[v][i].type = "worker_exit" => worker'[v] \in {"quit", "terminated"}
        <5> SUFFICES ASSUME NEW v \in Workers, NEW i \in 1 .. Len(mail'[v]),
                            mail'[v][i].type = "worker_exit"
                     PROVE  worker'[v] \in {"quit", "terminated"}
          OBVIOUS
        <5>1. worker[v] \in {"quit", "terminated"}
          <6>1. CASE v = w
            BY <1>2, <1>t, <6>1 DEF MailSound
          <6>2. CASE v # w
            BY <1>2, <1>t, <6>2 DEF MailSound
          <6> QED
            BY <6>1, <6>2
        <5> QED
          BY <3>1, <3>3, <5>1
      <4> QED
        BY <4>1, <4>2 DEF MailSound
    <3>9. SpawnsOnce'
      <4>1. /\ \A v, c \in Workers, i \in Nat : Spawns(v, i, c)' =>
                 worker[c] = "asked" /\ ~(m.type = "spawn_worker" /\ m.child = c)
            /\ \A v, x, c \in Workers, i, j \in Nat :
                 Spawns(v, i, c)' /\ Spawns(x, j, c)' => v = x /\ i = j
        BY <1>1, <2>3, TakeSpawns DEF m
      <4>2. \A v, c \in Workers, i \in Nat : Spawns(v, i, c)' => worker'[c] = "asked"
        BY <2>0, <3>3, <4>1
      <4> QED
        BY <4>1, <4>2 DEF SpawnsOnce
    <3> QED
      BY <3>4, <3>6, <3>7, <3>8, <3>9 DEF MachineInv
  <2> QED
    BY <1>9, <2>1, <2>2, <2>3 DEF HandleSpawn, start_worker
<1> QED
  BY <1>1, <1>5, <1>6, <1>7, <1>8, <1>9

-----------------------------------------------------------------------------
LEMMA MachineInvariant == Spec => []MachineInv
<1>1. Init => MachineInv
  <2> SUFFICES ASSUME Init PROVE MachineInv
    OBVIOUS
  <2>1. /\ boot = [at |-> "configure", plugin |-> 1] /\ workers = {}
        /\ main = [closed |-> FALSE, failed |-> FALSE, finish_error |-> None,
                   finish |-> "no", outcome |-> "pending", console |-> "open"]
        /\ devices \in [Devices -> DeviceStates]
        /\ worker \in [Workers -> WorkerStates] /\ \A w \in Workers : worker[w] = "none"
        /\ mail \in [Workers -> Seq(MessageType)] /\ \A w \in Workers : mail[w] = <<>>
    BY DEF Init, DeviceStates, WorkerStates
  <2>2. boot \in BootType /\ boot.at = "configure"
    BY <2>1 DEF BootType
  <2>3. /\ main \in MainType /\ main.closed = FALSE /\ main.finish = "no"
        /\ main.outcome = "pending"
    BY <2>1 DEF MainType
  <2>4. init \in [Workers -> InitType]
    BY DEF Init, InitType
  <2>5. Typed
    BY <2>1, <2>2, <2>3, <2>4 DEF Typed
  <2>6. FinishOrdered /\ DevicesFollow /\ BootOrdered /\ WorkersKnown
    BY <2>1, <2>2, <2>3 DEF FinishOrdered, DevicesFollow, BootOrdered, WorkersKnown, Live
  <2>7. MailSound /\ SpawnsOnce
    BY <2>1 DEF MailSound, SpawnsOnce, Spawns
  <2> QED
    BY <2>5, <2>6, <2>7 DEF MachineInv
<1>2. MachineInv /\ [Next]_vars => MachineInv'
  <2> SUFFICES ASSUME MachineInv, [Next]_vars PROVE MachineInv'
    OBVIOUS
  <2>1. CASE Next
    BY <2>1, BootKeeps, CloseKeeps, WorkerKeeps, HandleKeeps DEF Next
  <2>2. CASE UNCHANGED vars
    BY <2>2 DEF vars, MachineInv, Typed, FinishOrdered, DevicesFollow, BootOrdered, WorkersKnown,
                MailSound, SpawnsOnce, Spawns
  <2> QED
    BY <2>1, <2>2
<1> QED
  BY <1>1, <1>2, PTL DEF Spec

(* The state of a machine, its devices and its workers keep their types.   *)
THEOREM MachineTyped == Spec => []TypeOK
<1>1. MachineInv => TypeOK
  BY DEF MachineInv, Typed, TypeOK, BootType, MainType, DeviceStates, WorkerStates, InitType
<1> QED
  BY <1>1, MachineInvariant, PTL

(* Once bootMachine has failed or the machine's `closed' has settled, the  *)
(* devices are shut down, no worker of it runs and its console has ended;  *)
(* and no message still on its way starts a worker after that.             *)
THEOREM MachineLeavesNothing == Spec => []NothingLeft
<1>1. MachineInv => NothingLeft
  <2> SUFFICES ASSUME MachineInv, main.outcome # "pending" \/ boot.at = "rejected"
               PROVE  Released
    BY DEF NothingLeft
  <2>t. /\ devices \in [Devices -> DeviceStates]
        /\ FinishOrdered /\ DevicesFollow /\ BootOrdered /\ WorkersKnown
    BY BootTyped
  <2>1. CASE main.finish = "done"
    BY <2>1, <2>t DEF FinishOrdered, DevicesFollow, WorkersKnown, Released, DeviceStates
  <2>2. CASE main.finish # "done"
    <3>1. boot.at = "rejected" /\ main.finish = "no"
      BY <2>2, <2>t DEF FinishOrdered, BootOrdered
    <3> QED
      BY <2>t, <3>1 DEF BootOrdered, Released, DeviceStates, Live
  <2> QED
    BY <2>1, <2>2
<1> QED
  BY <1>1, MachineInvariant, PTL

-----------------------------------------------------------------------------
(***************************************************************************)
(* The block device.  A flush takes a copy of #writes when it starts.      *)
(* FlushInv says what the copy is good for: the writes it misses have      *)
(* ended, because requests start in the order of the ring and a write is   *)
(* registered before its first await; and once the copy is settled, no     *)
(* write before the flush moves another piece.                             *)
(***************************************************************************)
Stages == {"ring", "moving", "settling", "flushing", "done"}

(* A request is a record, and is at a stage its type can be at.            *)
RequestsTyped ==
  /\ DOMAIN request = B!Ids
  /\ \A r \in B!Ids :
       /\ DOMAIN request[r] = {"type", "stage", "left", "status"}
       /\ request[r].stage \in Stages
       /\ request[r].stage = "moving" => request[r].type # "FLUSH"
       /\ request[r].stage \in {"settling", "flushing"} => request[r].type = "FLUSH"
       /\ request[r].stage # "done" => request[r].status = "none"
  /\ DOMAIN waiting = B!Ids

(* Requests have left the ring in its order.                               *)
InRingOrder ==
  \A r, q \in B!Ids : q < r /\ request[r].stage # "ring" => request[q].stage # "ring"

(* #writes holds every write that is under way.                            *)
WritesRegistered ==
  \A w \in B!Ids : request[w].type = "OUT" /\ request[w].stage = "moving" => w \in writes

Before(w, f) == w < f /\ request[w].type = "OUT"

(* A flush that waits for #writes waits for each write before it that has  *)
(* not ended.                                                              *)
SettlingCovers ==
  \A f, w \in B!Ids : request[f].stage = "settling" /\ Before(w, f) =>
    request[w].stage = "done" \/ w \in waiting[f]

(* A flush of the storage was called when the writes before it had ended,  *)
(* and covers what they moved.                                             *)
FlushingCovers ==
  \A f, w \in B!Ids : request[f].stage = "flushing" /\ Before(w, f) =>
    request[w].stage = "done" /\ \A p \in cached : p[1] = w => p \in waiting[f]

(* The inductive invariant.                                                *)
FlushInv ==
  /\ RequestsTyped /\ InRingOrder /\ WritesRegistered
  /\ SettlingCovers /\ FlushingCovers /\ B!FlushCovers

-----------------------------------------------------------------------------
(* No request of the ring is started.                                      *)
LEMMA FlushInvInit == B!Init => FlushInv
<1> SUFFICES ASSUME B!Init PROVE FlushInv
  OBVIOUS
<1> PICK type \in [B!Ids -> B!Types], pieces \in {1, Pieces} :
      request = [r \in B!Ids |->
        [type |-> type[r], stage |-> "ring", left |-> pieces, status |-> "none"]]
  BY Zenon DEF B!Init
<1>1. /\ DOMAIN request = B!Ids
      /\ \A r \in B!Ids : /\ DOMAIN request[r] = {"type", "stage", "left", "status"}
                        /\ request[r].stage = "ring" /\ request[r].status = "none"
  OBVIOUS
<1>2. DOMAIN waiting = B!Ids
  BY DEF B!Init
<1> QED
  BY <1>1, <1>2 DEF FlushInv, RequestsTyped, Stages, InRingOrder, WritesRegistered,
     SettlingCovers, FlushingCovers, B!FlushCovers

(* kick() starts a request behind all those before it.                     *)
LEMMA StartKeeps ==
  ASSUME FlushInv, NEW r \in B!Ids, B!Start(r)
  PROVE  FlushInv'
<1> USE DEF FlushInv
<1>1. /\ request[r].stage = "ring"
      /\ \A q \in B!Ids : q < r => request[q].stage # "ring"
      /\ cached' = cached /\ durable' = durable
  BY DEF B!Start, B!First
<1>2. CASE request[r].type = "at once"
  <2>1. writes' = writes /\ waiting' = waiting
    BY <1>2 DEF B!Start
  <2>2. \E status \in {"OK", "IOERR", "UNSUPP"} : request' = B!Answered(r, status)
    BY <1>2 DEF B!Start
  <2>3. /\ DOMAIN request' = B!Ids
        /\ \A q \in B!Ids : q # r => request'[q] = request[q]
        /\ request'[r].type = "at once" /\ request'[r].stage = "done"
        /\ DOMAIN request'[r] = {"type", "stage", "left", "status"}
    BY <1>2, <2>2, ZenonT(60) DEF B!Answered, RequestsTyped
  <2>4. \A f, w \in B!Ids : Before(w, f)' <=> Before(w, f)
    BY <1>2, <2>3 DEF Before
  <2>5. RequestsTyped'
    BY <2>1, <2>3 DEF RequestsTyped, Stages
  <2>6. InRingOrder'
    BY <1>1, <2>3, ZenonT(60) DEF InRingOrder
  <2>7. WritesRegistered'
    BY <1>2, <2>1, <2>3 DEF WritesRegistered
  <2>8. SettlingCovers'
    BY <1>1, <2>1, <2>3, <2>4 DEF SettlingCovers
  <2>9. FlushingCovers'
    <3> SUFFICES ASSUME NEW f \in B!Ids, NEW w \in B!Ids, request'[f].stage = "flushing",
                        Before(w, f)
                 PROVE  request'[w].stage = "done" /\ \A p \in cached : p[1] = w => p \in waiting'[f]
      BY <1>1, <2>4 DEF FlushingCovers
    <3>1. f # r /\ w # r
      BY <1>1, <2>3 DEF FlushingCovers
    <3>2. request'[f] = request[f] /\ request'[w] = request[w]
      BY <2>3, <3>1
    <3>3. request[w].stage = "done" /\ \A p \in cached : p[1] = w => p \in waiting[f]
      BY <3>2, Zenon DEF FlushingCovers
    <3> QED
      BY <2>1, <3>2, <3>3, Zenon
  <2>10. B!FlushCovers'
    <3>1. \A q \in B!Ids : request'[q].type \in {"FLUSH", "OUT"} => request'[q] = request[q]
      BY <2>3
    <3> QED
      BY <1>1, <3>1 DEF B!FlushCovers
  <2> QED
    BY <2>5, <2>6, <2>7, <2>8, <2>9, <2>10
<1>3. CASE request[r].type # "at once"
  <2>1. /\ DOMAIN request' = B!Ids
        /\ \A q \in B!Ids : q # r => request'[q] = request[q]
        /\ request'[r].type = request[r].type /\ request'[r].status = "none"
        /\ request'[r].stage = IF request[r].type = "FLUSH" THEN "settling" ELSE "moving"
        /\ DOMAIN request'[r] = {"type", "stage", "left", "status"}
    <3>1. request' = [request EXCEPT ![r].stage =
                        IF request[r].type = "FLUSH" THEN "settling" ELSE "moving"]
      BY <1>3 DEF B!Start
    <3> QED
      BY <1>1, <3>1 DEF RequestsTyped
  <2>2. /\ writes' = writes \cup B!Registers(r)
        /\ waiting' = IF request[r].type = "FLUSH" THEN [waiting EXCEPT ![r] = writes] ELSE waiting
    BY <1>3 DEF B!Start
  <2>3. RequestsTyped'
    BY <2>1, <2>2 DEF RequestsTyped, Stages
  <2>4. InRingOrder' /\ WritesRegistered'
    BY <1>1, <2>1, <2>2 DEF InRingOrder, WritesRegistered, B!Registers
  <2>5. \A q, w \in B!Ids : Before(w, q)' <=> Before(w, q)
    BY <2>1 DEF Before
  <2>6. SettlingCovers'
    <3> SUFFICES ASSUME NEW f \in B!Ids, NEW w \in B!Ids, request'[f].stage = "settling",
                        Before(w, f)
                 PROVE  request'[w].stage = "done" \/ w \in waiting'[f]
      BY <2>5 DEF SettlingCovers
    <3>1. CASE f = r
      <4>1. waiting'[f] = writes /\ w # r
        BY <1>1, <2>1, <2>2, <3>1 DEF RequestsTyped, Before
      <4>2. request[w].stage \in {"moving", "done"}
        BY <1>1, <3>1 DEF Before, RequestsTyped, Stages
      <4> QED
        BY <2>1, <4>1, <4>2 DEF WritesRegistered, Before
    <3>2. CASE f # r
      <4>1. w # r
        BY <1>1, <2>1, <3>2 DEF InRingOrder, Before
      <4> QED
        BY <2>1, <2>2, <3>2, <4>1 DEF SettlingCovers, RequestsTyped
    <3> QED
      BY <3>1, <3>2
  <2>7. FlushingCovers'
    <3> SUFFICES ASSUME NEW f \in B!Ids, NEW w \in B!Ids, request'[f].stage = "flushing",
                        Before(w, f)
                 PROVE  request'[w].stage = "done" /\ \A p \in cached : p[1] = w => p \in waiting'[f]
      BY <1>1, <2>5 DEF FlushingCovers
    <3>1. f # r /\ w # r
      BY <1>1, <2>1 DEF FlushingCovers
    <3> QED
      BY <2>1, <2>2, <3>1 DEF FlushingCovers, RequestsTyped
  <2>8. B!FlushCovers'
    BY <1>1, <2>1 DEF B!FlushCovers
  <2> QED
    BY <2>3, <2>4, <2>6, <2>7, <2>8
<1> QED
  BY <1>2, <1>3

(* A storage call ends: with a piece moved, or with the whole request.     *)
LEMMA MoveKeeps ==
  ASSUME FlushInv, NEW r \in B!Ids, NEW result \in {"moved", "short", "error"}, B!Move(r, result)
  PROVE  FlushInv'
<1> USE DEF FlushInv
<1>1. /\ request[r].stage = "moving" /\ request[r].type # "FLUSH" /\ durable' = durable
      /\ cached' = cached \/ (request[r].type = "OUT" /\ cached' = cached \cup {B!Piece(r)})
  BY DEF B!Move, RequestsTyped
<1>2. B!Piece(r)[1] = r
  BY DEF B!Piece
<1>3. /\ DOMAIN request' = B!Ids
      /\ \A q \in B!Ids : q # r => request'[q] = request[q]
      /\ request'[r].type = request[r].type /\ request'[r].stage \in {"moving", "done"}
      /\ request'[r].stage # "done" => request'[r].status = "none"
      /\ DOMAIN request'[r] = {"type", "stage", "left", "status"}
  BY <1>1 DEF B!Move, B!Answered, RequestsTyped
<1>4. \/ /\ request'[r].stage = "moving" /\ writes' = writes /\ waiting' = waiting
      \/ request'[r].stage = "done" /\ B!Settled(r)
  BY <1>1 DEF B!Move, B!Answered, RequestsTyped
<1>5. /\ DOMAIN waiting' = B!Ids
      /\ \A f \in B!Ids : request[f].stage # "settling" => waiting'[f] = waiting[f]
      /\ \A f \in B!Ids : waiting'[f] = waiting[f] \/ (request'[r].stage = "done" /\ waiting'[f] = waiting[f] \ {r})
      /\ \A w \in writes : w \in writes' \/ (w = r /\ request'[r].stage = "done")
  BY <1>4 DEF B!Settled, RequestsTyped
<1>6. \A f, w \in B!Ids : Before(w, f)' <=> Before(w, f)
  BY <1>3 DEF Before
<1>7. RequestsTyped'
  BY <1>1, <1>3, <1>5 DEF RequestsTyped, Stages
<1>8. InRingOrder' /\ WritesRegistered'
  BY <1>1, <1>3, <1>5 DEF InRingOrder, WritesRegistered
<1>9. SettlingCovers'
  BY <1>1, <1>3, <1>5, <1>6 DEF SettlingCovers
<1>10. FlushingCovers'
  BY <1>1, <1>2, <1>3, <1>5, <1>6 DEF FlushingCovers, Before
<1>11. B!FlushCovers'
  BY <1>1, <1>2, <1>3 DEF B!FlushCovers
<1> QED
  BY <1>7, <1>8, <1>9, <1>10, <1>11

(* storage.flush() is called once every write that was copied has settled. *)
LEMMA FlushKeeps ==
  ASSUME FlushInv, NEW r \in B!Ids, B!Flush(r)
  PROVE  FlushInv'
<1> USE DEF FlushInv
<1>1. /\ request[r].stage = "settling" /\ request[r].type = "FLUSH" /\ waiting[r] = {}
      /\ writes' = writes /\ cached' = cached /\ durable' = durable
      /\ DOMAIN waiting' = B!Ids /\ waiting'[r] = cached
      /\ \A f \in B!Ids : f # r => waiting'[f] = waiting[f]
  BY DEF B!Flush, RequestsTyped
<1>2. /\ DOMAIN request' = B!Ids
      /\ \A q \in B!Ids : q # r => request'[q] = request[q]
      /\ request'[r].type = "FLUSH" /\ request'[r].stage = "flushing"
      /\ request'[r].status = "none"
      /\ DOMAIN request'[r] = {"type", "stage", "left", "status"}
  BY <1>1 DEF B!Flush, RequestsTyped
<1>3. RequestsTyped'
  BY <1>1, <1>2 DEF RequestsTyped, Stages
<1>4. InRingOrder' /\ WritesRegistered'
  BY <1>1, <1>2 DEF InRingOrder, WritesRegistered
<1>5. SettlingCovers'
  BY <1>1, <1>2 DEF SettlingCovers, Before
<1>6. FlushingCovers'
  BY <1>1, <1>2 DEF FlushingCovers, SettlingCovers, Before
<1>7. B!FlushCovers'
  BY <1>1, <1>2 DEF B!FlushCovers
<1> QED
  BY <1>3, <1>4, <1>5, <1>6, <1>7

(* The storage has flushed, or failed to.                                  *)
LEMMA FlushedKeeps ==
  ASSUME FlushInv, NEW r \in B!Ids, NEW ok \in BOOLEAN, B!Flushed(r, ok)
  PROVE  FlushInv'
<1> USE DEF FlushInv
<1>1. /\ request[r].stage = "flushing" /\ request[r].type = "FLUSH"
      /\ writes' = writes /\ cached' = cached
      /\ durable' = IF ok THEN durable \cup waiting[r] ELSE durable
      /\ DOMAIN waiting' = B!Ids
      /\ \A f \in B!Ids : f # r => waiting'[f] = waiting[f]
  BY DEF B!Flushed, RequestsTyped
<1>2. /\ DOMAIN request' = B!Ids
      /\ \A q \in B!Ids : q # r => request'[q] = request[q]
      /\ request'[r].type = "FLUSH" /\ request'[r].stage = "done"
      /\ request'[r].status = IF ok THEN "OK" ELSE "error"
      /\ DOMAIN request'[r] = {"type", "stage", "left", "status"}
  BY <1>1 DEF B!Flushed, B!Answered, RequestsTyped
<1>3. RequestsTyped'
  BY <1>1, <1>2 DEF RequestsTyped, Stages
<1>4. InRingOrder' /\ WritesRegistered'
  BY <1>1, <1>2 DEF InRingOrder, WritesRegistered
<1>5. SettlingCovers' /\ FlushingCovers'
  BY <1>1, <1>2 DEF SettlingCovers, FlushingCovers, Before
<1>6. B!FlushCovers'
  BY <1>1, <1>2 DEF B!FlushCovers, FlushingCovers, Before
<1> QED
  BY <1>3, <1>4, <1>5, <1>6

-----------------------------------------------------------------------------
(* A flush of block.ts that is answered OK has made durable all that the   *)
(* writes before it on the ring have moved, and none of them is still      *)
(* under way: for every ring, and every way the storage calls interleave,  *)
(* fall short or fail.                                                     *)
THEOREM FlushCoversWrites == MCSpec => []FlushCovers
<1>1. MCInit => FlushInv
  BY FlushInvInit DEF MCInit
<1>2. FlushInv /\ [MCNext]_<<focus, vars, programVars, consoleVars, blockVars>> => FlushInv'
  <2> SUFFICES ASSUME FlushInv, B!Next \/ UNCHANGED blockVars PROVE FlushInv'
    BY DEF MCNext
  <2>1. ASSUME NEW r \in B!Ids, B!Step(r) PROVE FlushInv'
    BY <2>1, StartKeeps, MoveKeeps, FlushKeeps, FlushedKeeps DEF B!Step
  <2>2. CASE UNCHANGED blockVars
    BY <2>2 DEF blockVars, FlushInv, RequestsTyped, InRingOrder, WritesRegistered, SettlingCovers,
       FlushingCovers, B!FlushCovers, Before
  <2> QED
    BY <2>1, <2>2 DEF B!Next
<1>3. FlushInv => FlushCovers
  BY DEF FlushInv, FlushCovers
<1> QED
  BY <1>1, <1>2, <1>3, PTL DEF MCSpec

-----------------------------------------------------------------------------
(***************************************************************************)
(* The console.                                                            *)
(***************************************************************************)
PumpTyped ==
  /\ chunk \in Seq(Nat) /\ tty \in Seq(Nat) /\ rx \in Seq(Nat) /\ read \in Nat
  /\ pump \in {"opened", "ready", "woken", "stream", "awake", "done"}
  /\ ready \in BOOLEAN /\ stopped \in BOOLEAN

(* The stream is asked for a chunk only when there is none left.           *)
AsksEmptyHanded == pump = "stream" => chunk = <<>>

PumpInv == PumpTyped /\ AsksEmptyHanded /\ C!InputWhole /\ C!PumpNotStranded

LEMMA PumpInvInit == C!Init => PumpInv
<1> SUFFICES ASSUME C!Init PROVE PumpInv
  OBVIOUS
<1>1. AsksEmptyHanded /\ C!PumpNotStranded
  BY DEF C!Init, AsksEmptyHanded, C!PumpNotStranded
<1>2. Len(tty) = 0 /\ Len(chunk) = 0 /\ read = 0
  BY DEF C!Init
<1>3. C!InputWhole
  BY <1>2 DEF C!InputWhole
<1>4. PumpTyped
  <2>1. chunk \in Seq(Nat) /\ tty \in Seq(Nat) /\ rx \in Seq(Nat)
    BY DEF C!Init
  <2> QED
    BY <2>1 DEF C!Init, PumpTyped
<1> QED
  BY <1>1, <1>3, <1>4 DEF PumpInv

(* A step that leaves the bytes alone, which only moves the pump.          *)
LEMMA BytesStay ==
  ASSUME PumpInv, UNCHANGED <<chunk, read, tty>>
  PROVE  C!InputWhole'
BY DEF PumpInv, C!InputWhole

(* The chunk that the stream gives continues what the guest was given.     *)
LEMMA StreamGivesKeeps ==
  ASSUME PumpInv, NEW n \in Nat, C!StreamGives(n)
  PROVE  PumpInv'
<1>1. /\ chunk = <<>> /\ tty' = tty /\ read' = read + n /\ read \in Nat
      /\ chunk' = [i \in 1 .. n |-> read + i] /\ tty \in Seq(Nat)
  BY DEF PumpInv, PumpTyped, AsksEmptyHanded, C!StreamGives
<1>2. chunk' \in Seq(Nat) /\ Len(chunk') = n
  <2>1. chunk' \in [1 .. n -> Nat]
    BY <1>1
  <2> QED
    BY <1>1, <2>1
<1>3. Len(tty) = read
  BY <1>1 DEF PumpInv, C!InputWhole
<1>4. C!InputWhole'
  BY <1>1, <1>2, <1>3 DEF PumpInv, C!InputWhole
<1>5. PumpTyped' /\ AsksEmptyHanded' /\ C!PumpNotStranded'
  BY <1>1, <1>2 DEF PumpInv, PumpTyped, AsksEmptyHanded, C!PumpNotStranded, C!StreamGives
<1> QED
  BY <1>4, <1>5 DEF PumpInv

(* deliver() moves the head of the chunk to the guest, and keeps the rest. *)
LEMMA DeliversKeeps ==
  ASSUME PumpInv, C!Delivers
  PROVE  PumpInv'
<1>1. PICK n : n = IF rx = <<>> THEN 0 ELSE C!Least(Len(chunk), Head(rx))
  OBVIOUS
<1>2. /\ chunk \in Seq(Nat) /\ tty \in Seq(Nat) /\ rx \in Seq(Nat) /\ read \in Nat
      /\ Len(chunk) \in Nat /\ Len(tty) \in Nat
  BY DEF PumpInv, PumpTyped
<1>3. n \in 0 .. Len(chunk)
  BY <1>1, <1>2 DEF C!Least
<1>4. /\ tty' = tty \o SubSeq(chunk, 1, n) /\ chunk' = SubSeq(chunk, n + 1, Len(chunk))
      /\ rx' \in Seq(Nat) /\ read' = read
  BY <1>1, <1>2 DEF C!Delivers, C!Left
<1>5. PICK h : h = SubSeq(chunk, 1, n)
  OBVIOUS
<1>6. h \in Seq(Nat) /\ Len(h) = n /\ \A i \in 1 .. n : h[i] = chunk[i]
  BY <1>2, <1>3, <1>5
<1>7. /\ chunk' \in Seq(Nat) /\ Len(chunk') = Len(chunk) - n
      /\ \A i \in 1 .. Len(chunk) - n : chunk'[i] = chunk[n + i]
  <2>1. PICK m \in Nat : m = Len(chunk)
    BY <1>2
  <2>2. n + 1 \in Int /\ m \in Int /\ \A i \in n + 1 .. m : chunk[i] \in Nat
    BY <1>2, <1>3, <2>1
  <2>3. PICK u : u = SubSeq(chunk, n + 1, m)
    OBVIOUS
  <2>4. /\ u \in Seq(Nat) /\ Len(u) = IF n + 1 <= m THEN m - (n + 1) + 1 ELSE 0
        /\ \A i \in 1 .. m - (n + 1) + 1 : u[i] = chunk[n + 1 + i - 1]
    BY <2>2, <2>3, SubSeqProperties
  <2>5. n \in Nat /\ n <= m
    BY <1>3, <2>1
  <2>6. Len(u) = m - n
    BY <2>4, <2>5
  <2>7. ASSUME NEW i \in 1 .. m - n PROVE u[i] = chunk[n + i]
    <3>1. i \in 1 .. m - (n + 1) + 1 /\ n + 1 + i - 1 = n + i
      BY <2>5
    <3> QED
      BY <2>4, <3>1
  <2> QED
    BY <1>4, <2>1, <2>3, <2>4, <2>6, <2>7
<1>8. /\ tty' \in Seq(Nat) /\ Len(tty') = Len(tty) + n
      /\ \A i \in 1 .. Len(tty) : tty'[i] = tty[i]
      /\ \A i \in 1 .. Len(tty) + n : i > Len(tty) => tty'[i] = h[i - Len(tty)]
  <2>1. tty' = tty \o h
    BY <1>4, <1>5
  <2>2. /\ tty \o h \in Seq(Nat) /\ Len(tty \o h) = Len(tty) + Len(h)
        /\ \A i \in 1 .. Len(tty) + Len(h) :
             (tty \o h)[i] = IF i <= Len(tty) THEN tty[i] ELSE h[i - Len(tty)]
    BY <1>2, <1>6, ConcatProperties
  <2> QED
    BY <1>2, <1>3, <1>6, <2>1, <2>2
<1>9. /\ \A i \in 1 .. Len(tty) : tty[i] = i
      /\ Len(tty) + Len(chunk) = read
      /\ \A i \in 1 .. Len(chunk) : chunk[i] = Len(tty) + i
  BY DEF PumpInv, C!InputWhole
<1>10. \A i \in 1 .. Len(tty') : tty'[i] = i
  <2> SUFFICES ASSUME NEW i \in 1 .. Len(tty) + n PROVE tty'[i] = i
    BY <1>8
  <2>1. CASE i <= Len(tty)
    <3>1. i \in 1 .. Len(tty)
      BY <1>2, <1>3, <2>1
    <3> QED
      BY <1>8, <1>9, <3>1
  <2>2. CASE i > Len(tty)
    <3>1. PICK j : j = i - Len(tty)
      OBVIOUS
    <3>2. j \in 1 .. n /\ j \in 1 .. Len(chunk) /\ i = Len(tty) + j
      BY <1>2, <1>3, <2>2, <3>1
    <3> QED
      BY <1>6, <1>8, <1>9, <2>2, <3>1, <3>2
  <2> QED
    BY <1>2, <2>1, <2>2
<1>11. \A i \in 1 .. Len(chunk') : chunk'[i] = Len(tty') + i
  <2> SUFFICES ASSUME NEW i \in 1 .. Len(chunk) - n PROVE chunk'[i] = Len(tty) + n + i
    BY <1>7, <1>8
  <2>1. n + i \in 1 .. Len(chunk)
    BY <1>2, <1>3
  <2>2. chunk'[i] = Len(tty) + (n + i)
    BY <1>7, <1>9, <2>1
  <2> QED
    BY <1>2, <1>3, <2>2
<1>12. Len(tty') + Len(chunk') = read'
  <2>1. /\ Len(tty') = Len(tty) + n /\ Len(chunk') = Len(chunk) - n
        /\ read' = read /\ Len(tty) + Len(chunk) = read
    BY <1>4, <1>7, <1>8, <1>9
  <2>2. Len(tty) \in Nat /\ Len(chunk) \in Nat /\ n \in Nat
    BY <1>2, <1>3
  <2> QED
    BY <2>1, <2>2
<1>13. C!InputWhole'
  BY <1>10, <1>11, <1>12 DEF C!InputWhole
<1>14. PumpTyped' /\ AsksEmptyHanded' /\ C!PumpNotStranded'
  BY <1>4, <1>7, <1>8 DEF PumpInv, PumpTyped, AsksEmptyHanded, C!PumpNotStranded, C!Delivers
<1> QED
  BY <1>13, <1>14 DEF PumpInv

LEMMA PumpStepKeeps ==
  ASSUME PumpInv, C!PumpStep
  PROVE  PumpInv'
<1> USE DEF PumpInv, PumpTyped, AsksEmptyHanded
<1>1. CASE C!Wakes
  BY <1>1, BytesStay DEF C!Wakes, C!Waits, C!PumpNotStranded
<1>2. CASE C!Asks
  BY <1>2, BytesStay DEF C!Asks, C!PumpNotStranded
<1>3. CASE C!Delivers
  BY <1>3, DeliversKeeps
<1>4. CASE C!StreamEnds
  BY <1>4, BytesStay DEF C!StreamEnds, C!PumpNotStranded
<1>5. ASSUME NEW n \in ChunkSizes, C!StreamGives(n) PROVE PumpInv'
  BY <1>5, StreamGivesKeeps, ConsoleAssumption
<1> QED
  BY <1>1, <1>2, <1>3, <1>4, <1>5 DEF C!PumpStep

(* What comes from outside: kicks, the writer, a reset, a size, the end.   *)
LEMMA ConsoleCallKeeps ==
  ASSUME PumpInv,
         (\E n \in BufferSizes : C!Posts(n)) \/ C!Transmits \/ C!Transmitted \/ C!Reset \/ C!Resize \/ C!Stop
  PROVE  PumpInv'
<1> USE DEF PumpInv, PumpTyped, AsksEmptyHanded
<1>1. ASSUME NEW n \in BufferSizes, C!Posts(n) PROVE PumpInv'
  <2>1. rx' \in Seq(Nat)
    BY <1>1, ConsoleAssumption DEF C!Posts
  <2> QED
    BY <1>1, <2>1, BytesStay DEF C!Posts, C!Woken, C!PumpNotStranded
<1>2. CASE C!Transmits
  BY <1>2, BytesStay DEF C!Transmits, C!Woken, C!PumpNotStranded
<1>3. CASE C!Transmitted
  BY <1>3, BytesStay DEF C!Transmitted, C!PumpNotStranded
<1>4. CASE C!Reset
  <2>1. C!InputWhole'
    BY <1>4, BytesStay DEF C!Reset
  <2>2. /\ rx' = <<>> /\ ready' = FALSE /\ ~stopped /\ stopped' = stopped
        /\ pump' = IF pump = "opened" THEN "awake" ELSE pump
        /\ chunk' = chunk /\ tty' = tty /\ read' = read
    BY <1>4 DEF C!Reset, C!Woken
  <2>3. rx' \in Seq(Nat)
    BY <2>2
  <2>4. PumpTyped' /\ AsksEmptyHanded'
    BY <2>2, <2>3
  <2>5. C!PumpNotStranded'
    BY <2>2 DEF C!PumpNotStranded
  <2> QED
    BY <2>1, <2>4, <2>5
<1>5. CASE C!Resize
  BY <1>5, BytesStay DEF C!Resize, C!PumpNotStranded
<1>6. CASE C!Stop
  BY <1>6, BytesStay DEF C!Stop, C!PumpNotStranded
<1> QED
  BY <1>1, <1>2, <1>3, <1>4, <1>5, <1>6

(* The guest of console.ts gets the bytes of the host's stream once and in *)
(* order, none is lost over short buffers and resets, and the input pump   *)
(* never waits for what has come: for any sizes of chunks and buffers and  *)
(* any order of kicks, resets, transmits and shutdown.                     *)
THEOREM InputPumpIsSound == MCSpec => []PumpSound
<1>1. MCInit => PumpInv
  BY PumpInvInit DEF MCInit
<1>2. PumpInv /\ [MCNext]_<<focus, vars, programVars, consoleVars, blockVars>> => PumpInv'
  <2> SUFFICES ASSUME PumpInv, C!Next \/ UNCHANGED consoleVars PROVE PumpInv'
    BY DEF MCNext
  <2>1. CASE C!Next
    BY <2>1, PumpStepKeeps, ConsoleCallKeeps DEF C!Next
  <2>2. CASE UNCHANGED consoleVars
    BY <2>2 DEF consoleVars, PumpInv, PumpTyped, AsksEmptyHanded, C!InputWhole, C!PumpNotStranded
  <2> QED
    BY <2>1, <2>2
<1>3. PumpInv => PumpSound
  BY DEF PumpInv, PumpSound, C!PumpSound
<1> QED
  BY <1>1, <1>2, <1>3, PTL DEF MCSpec

-----------------------------------------------------------------------------
(***************************************************************************)
(* The user programs of a worker.                                          *)
(***************************************************************************)
Copied == {"null", "ok", "fault"}
Frames ==
  [kind: {"entry", "signal", "siginfo"}, program: Nat, entry: {"start", "function"}, copied: Copied]

StackTyped ==
  /\ context \in Nat /\ instance \in Nat /\ programs \in Nat
  /\ pending \in {"none", "bytes", "module"}
  /\ call_entry \in {"start", "function"}
  /\ stack \in Seq(Frames) /\ siginfo_copy_results \in Seq(Copied)
  /\ mode \in {"kernel", "user", "loop", "replaced", "over"}

(* The first frame is that of call(), and there is none outside call().    *)
EntryFirst ==
  /\ stack # <<>> => stack[1].kind = "entry"
  /\ mode \in {"loop", "over"} => stack = <<>>

(* What is instantiated is what is mapped, until an instantiation fails.   *)
InstanceMapped == mode # "over" => instance = context

(* The frames that run are of the program that is instantiated.            *)
FramesCurrent ==
  mode \in {"kernel", "user"} =>
    \A k \in 1 .. Len(stack) :
      /\ stack[k].program = instance
      /\ stack[k].program > 1 => stack[k].entry = "start"

(* Only the first program can be entered at a function.                    *)
FunctionIsFirst == call_entry = "function" /\ mode \in {"kernel", "user", "loop"} => instance = 1

(* A program is compiled in a system call, or where there is none yet.     *)
CompiledInCall ==
  /\ mode = "kernel" /\ pending # "none" => stack # <<>> \/ instance = 0
  /\ mode \in {"user", "loop", "replaced"} => pending = "none"

StackInv ==
  /\ StackTyped /\ EntryFirst /\ InstanceMapped /\ FramesCurrent /\ FunctionIsFirst
  /\ CompiledInCall /\ P!SiginfoMatched

(***************************************************************************)
(* Slots and frames, whatever stack they are of.                           *)
(***************************************************************************)
SlotIn(frames, i) == Cardinality({j \in P!SiginfoFrames(frames) : j <= i})
Matched(frames, slots) ==
  /\ Len(slots) = Cardinality(P!SiginfoFrames(frames))
  /\ \A i \in P!SiginfoFrames(frames) : slots[SlotIn(frames, i)] = frames[i].copied

LEMMA CardinalityIs == ASSUME NEW S PROVE P!Cardinality(S) = Cardinality(S)
BY DEF P!Cardinality, Cardinality

LEMMA MatchedIs == P!SiginfoMatched <=> Matched(stack, siginfo_copy_results)
<1>1. ASSUME NEW i PROVE P!SlotOf(i) = SlotIn(stack, i)
  BY CardinalityIs DEF SlotIn, P!SlotOf
<1>2. P!Cardinality(P!SiginfoFrames(stack)) = Cardinality(P!SiginfoFrames(stack))
  BY CardinalityIs
<1> QED
  BY <1>1, <1>2 DEF P!SiginfoMatched, Matched

LEMMA SiginfoFramesFinite ==
  ASSUME NEW frames \in Seq(Frames)
  PROVE  /\ IsFiniteSet(P!SiginfoFrames(frames)) /\ Cardinality(P!SiginfoFrames(frames)) \in Nat
         /\ \A i \in P!SiginfoFrames(frames) : i \in 1 .. Len(frames) /\ frames[i].kind = "siginfo"
<1>1. IsFiniteSet(1 .. Len(frames))
  BY FS_Interval
<1>2. P!SiginfoFrames(frames) \in SUBSET (1 .. Len(frames))
  BY DEF P!SiginfoFrames
<1>3. IsFiniteSet(P!SiginfoFrames(frames))
  BY <1>1, <1>2, FS_Subset
<1> QED
  BY <1>3, FS_CardinalityType DEF P!SiginfoFrames

(* A slot is one of the stack's, and that of the frame below the topmost   *)
(* siginfo frame is not its slot.                                          *)
LEMMA SlotInRange ==
  ASSUME NEW frames \in Seq(Frames), NEW i \in P!SiginfoFrames(frames)
  PROVE  /\ SlotIn(frames, i) \in 1 .. Cardinality(P!SiginfoFrames(frames))
         /\ \A k \in P!SiginfoFrames(frames) : i < k => SlotIn(frames, i) < Cardinality(P!SiginfoFrames(frames))
<1>1. PICK F : F = P!SiginfoFrames(frames)
  OBVIOUS
<1>2. IsFiniteSet(F) /\ Cardinality(F) \in Nat /\ i \in Int /\ F \subseteq Int
  BY <1>1, SiginfoFramesFinite
<1>3. PICK T : T = {j \in F : j <= i}
  OBVIOUS
<1>4. T \in SUBSET F /\ i \in T
  BY <1>1, <1>2, <1>3
<1>5. /\ IsFiniteSet(T) /\ Cardinality(T) <= Cardinality(F) /\ Cardinality(T) \in Nat
      /\ Cardinality(T) = Cardinality(F) => T = F
  BY <1>2, <1>4, FS_Subset, FS_CardinalityType
<1>6. Cardinality(T) # 0
  BY <1>4, <1>5, FS_EmptySet
<1>7. ASSUME NEW k \in F, i < k PROVE Cardinality(T) # Cardinality(F)
  <2>1. k \notin T
    BY <1>2, <1>3, <1>7
  <2> QED
    BY <1>5, <2>1
<1>8. SlotIn(frames, i) = Cardinality(T)
  BY <1>1, <1>3 DEF SlotIn
<1> QED
  BY <1>1, <1>2, <1>5, <1>6, <1>7, <1>8

(* The slot of the topmost siginfo frame is the last one.                  *)
LEMMA SlotOfTop ==
  ASSUME NEW frames \in Seq(Frames), NEW i \in P!SiginfoFrames(frames), i = Len(frames)
  PROVE  SlotIn(frames, i) = Cardinality(P!SiginfoFrames(frames))
<1>1. {j \in P!SiginfoFrames(frames) : j <= i} = P!SiginfoFrames(frames)
  BY SiginfoFramesFinite
<1> QED
  BY <1>1 DEF SlotIn

(* A frame on top changes none of the slots below it.                      *)
LEMMA PushFrames ==
  ASSUME NEW frames \in Seq(Frames), NEW f \in Frames
  PROVE  LET s == Append(frames, f) IN
         /\ s \in Seq(Frames) /\ Len(s) = Len(frames) + 1 /\ s[Len(frames) + 1] = f
         /\ \A i \in 1 .. Len(frames) : s[i] = frames[i]
         /\ f.kind # "siginfo" => P!SiginfoFrames(s) = P!SiginfoFrames(frames)
         /\ f.kind = "siginfo" => P!SiginfoFrames(s) = P!SiginfoFrames(frames) \cup {Len(frames) + 1}
         /\ \A i \in P!SiginfoFrames(frames) : SlotIn(s, i) = SlotIn(frames, i)
<1>1. PICK s : s = Append(frames, f)
  OBVIOUS
<1>2. PICK n \in Nat : n = Len(frames)
  OBVIOUS
<1>3. /\ s \in Seq(Frames) /\ Len(s) = n + 1 /\ s[n + 1] = f
      /\ \A i \in 1 .. n : s[i] = frames[i]
  BY <1>1, <1>2
<1>4. \A i : i \in 1 .. n + 1 <=> i \in 1 .. n \/ i = n + 1
  BY <1>2
<1>5. f.kind # "siginfo" => P!SiginfoFrames(s) = P!SiginfoFrames(frames)
  BY <1>2, <1>3, <1>4 DEF P!SiginfoFrames
<1>6. f.kind = "siginfo" => P!SiginfoFrames(s) = P!SiginfoFrames(frames) \cup {n + 1}
  BY <1>2, <1>3, <1>4 DEF P!SiginfoFrames
<1>7. ASSUME NEW i \in P!SiginfoFrames(frames) PROVE SlotIn(s, i) = SlotIn(frames, i)
  <2>1. i \in 1 .. n
    BY <1>2, SiginfoFramesFinite
  <2>2. ~(n + 1 <= i)
    BY <2>1
  <2>3. {j \in P!SiginfoFrames(s) : j <= i} = {j \in P!SiginfoFrames(frames) : j <= i}
    BY <1>5, <1>6, <2>2
  <2> QED
    BY <2>3 DEF SlotIn
<1> QED
  BY <1>1, <1>2, <1>3, <1>5, <1>6, <1>7

LEMMA MatchedPush ==
  ASSUME NEW frames \in Seq(Frames), NEW slots \in Seq(Copied), Matched(frames, slots),
         NEW f \in Frames, f.kind # "siginfo"
  PROVE  Matched(Append(frames, f), slots)
<1>1. PICK s : s = Append(frames, f)
  OBVIOUS
<1>2. /\ P!SiginfoFrames(s) = P!SiginfoFrames(frames)
      /\ \A i \in 1 .. Len(frames) : s[i] = frames[i]
      /\ \A i \in P!SiginfoFrames(frames) : SlotIn(s, i) = SlotIn(frames, i)
  BY <1>1, PushFrames
<1> QED
  BY <1>1, <1>2, SiginfoFramesFinite DEF Matched

LEMMA MatchedPushSiginfo ==
  ASSUME NEW frames \in Seq(Frames), NEW slots \in Seq(Copied), Matched(frames, slots),
         NEW f \in Frames, f.kind = "siginfo"
  PROVE  Matched(Append(frames, f), Append(slots, f.copied))
<1>1. PICK s : s = Append(frames, f)
  OBVIOUS
<1>2. PICK n \in Nat : n = Len(frames)
  OBVIOUS
<1>3. /\ s \in Seq(Frames) /\ Len(s) = n + 1 /\ s[n + 1] = f
      /\ P!SiginfoFrames(s) = P!SiginfoFrames(frames) \cup {n + 1}
      /\ \A i \in 1 .. n : s[i] = frames[i]
      /\ \A i \in P!SiginfoFrames(frames) : SlotIn(s, i) = SlotIn(frames, i)
  BY <1>1, <1>2, PushFrames
<1>4. PICK c : c = Cardinality(P!SiginfoFrames(frames))
  OBVIOUS
<1>5. /\ c \in Nat /\ Len(slots) = c /\ IsFiniteSet(P!SiginfoFrames(frames))
      /\ \A i \in P!SiginfoFrames(frames) : i \in 1 .. n
  BY <1>2, <1>4, SiginfoFramesFinite DEF Matched
<1>6. n + 1 \notin P!SiginfoFrames(frames)
  BY <1>5
<1>7. Cardinality(P!SiginfoFrames(s)) = c + 1
  <2>1. PICK F, x : F = P!SiginfoFrames(frames) /\ x = n + 1
    OBVIOUS
  <2>2. Cardinality(F \cup {x}) = c + 1
    BY <1>4, <1>5, <1>6, <2>1, FS_AddElement
  <2> QED
    BY <1>3, <2>1, <2>2
<1>8. PICK t : t = Append(slots, f.copied)
  OBVIOUS
<1>9. f.copied \in Copied
  BY DEF Frames
<1>10. Len(t) = c + 1 /\ t[c + 1] = f.copied /\ \A k \in 1 .. c : t[k] = slots[k]
  BY <1>5, <1>8, <1>9
<1>11. ASSUME NEW i \in P!SiginfoFrames(s) PROVE t[SlotIn(s, i)] = s[i].copied
  <2>1. CASE i \in P!SiginfoFrames(frames)
    <3>1. SlotIn(s, i) = SlotIn(frames, i) /\ SlotIn(frames, i) \in 1 .. c
      BY <1>3, <1>4, <2>1, SlotInRange
    <3>2. s[i] = frames[i] /\ slots[SlotIn(frames, i)] = frames[i].copied
      BY <1>3, <1>5, <2>1 DEF Matched
    <3> QED
      BY <1>10, <3>1, <3>2
  <2>2. CASE i = n + 1
    <3>1. SlotIn(s, i) = c + 1
      BY <1>3, <1>7, <2>2, SlotOfTop
    <3> QED
      BY <1>3, <1>10, <2>2, <3>1
  <2> QED
    BY <1>3, <2>1, <2>2
<1> QED
  BY <1>1, <1>7, <1>8, <1>10, <1>11 DEF Matched

(* A result in the topmost slot and frame touches no other slot.           *)
LEMMA MatchedCopy ==
  ASSUME NEW frames \in Seq(Frames), NEW slots \in Seq(Copied), Matched(frames, slots),
         frames # <<>>, frames[Len(frames)].kind = "siginfo", NEW result \in Copied
  PROVE  /\ [frames EXCEPT ![Len(frames)].copied = result] \in Seq(Frames)
         /\ [slots EXCEPT ![Len(slots)] = result] \in Seq(Copied)
         /\ Matched([frames EXCEPT ![Len(frames)].copied = result], [slots EXCEPT ![Len(slots)] = result])
<1>1. PICK n \in Nat : n = Len(frames) /\ n # 0 /\ n \in 1 .. n
  OBVIOUS
<1>2. PICK g : g = [frames[n] EXCEPT !.copied = result]
  OBVIOUS
<1>3. frames[n] \in Frames /\ frames[n].kind = "siginfo"
  BY <1>1
<1>4. g \in Frames /\ g.kind = "siginfo" /\ g.copied = result
  BY <1>2, <1>3 DEF Frames
<1>5. PICK s : s = [frames EXCEPT ![Len(frames)].copied = result]
  OBVIOUS
<1>6. s = [frames EXCEPT ![n] = g]
  BY <1>1, <1>2, <1>5
<1>7. s \in Seq(Frames) /\ Len(s) = n /\ s[n] = g /\ \A i \in 1 .. n : i # n => s[i] = frames[i]
  BY <1>1, <1>4, <1>6
<1>8. P!SiginfoFrames(s) = P!SiginfoFrames(frames)
  BY <1>1, <1>3, <1>4, <1>7 DEF P!SiginfoFrames
<1>9. PICK F : F = P!SiginfoFrames(frames)
  OBVIOUS
<1>10. /\ n \in F /\ Cardinality(F) \in Nat /\ Len(slots) = Cardinality(F)
       /\ \A i \in F : i \in 1 .. n
  <2>1. n \in F
    BY <1>1, <1>3, <1>9 DEF P!SiginfoFrames
  <2> QED
    BY <1>1, <1>9, <2>1, SiginfoFramesFinite DEF Matched
<1>11. \A i \in F : SlotIn(s, i) = SlotIn(frames, i)
  BY <1>8 DEF SlotIn
<1>12. SlotIn(frames, n) = Len(slots) /\ Len(slots) \in 1 .. Len(slots)
  BY <1>1, <1>9, <1>10, SlotOfTop, SlotInRange
<1>13. \A i \in F : i # n => SlotIn(frames, i) \in 1 .. Len(slots) /\ SlotIn(frames, i) # Len(slots)
  <2> SUFFICES ASSUME NEW i \in F, i # n
               PROVE  SlotIn(frames, i) \in 1 .. Len(slots) /\ SlotIn(frames, i) # Len(slots)
    OBVIOUS
  <2>1. i < n
    BY <1>10
  <2> QED
    BY <1>9, <1>10, <2>1, SlotInRange
<1>14. PICK t : t = [slots EXCEPT ![Len(slots)] = result]
  OBVIOUS
<1>15. /\ t \in Seq(Copied) /\ Len(t) = Len(slots) /\ t[Len(slots)] = result
       /\ \A k \in 1 .. Len(slots) : k # Len(slots) => t[k] = slots[k]
  BY <1>12, <1>14
<1>16. ASSUME NEW i \in F PROVE t[SlotIn(s, i)] = s[i].copied
  <2>1. CASE i = n
    BY <1>4, <1>7, <1>11, <1>12, <1>15, <2>1
  <2>2. CASE i # n
    <3>1. slots[SlotIn(frames, i)] = frames[i].copied /\ i \in 1 .. n
      BY <1>9, <1>10 DEF Matched
    <3> QED
      BY <1>7, <1>11, <1>13, <1>15, <2>2, <3>1
  <2> QED
    BY <2>1, <2>2
<1>17. Matched(s, t)
  BY <1>8, <1>9, <1>10, <1>15, <1>16 DEF Matched
<1> QED
  BY <1>5, <1>7, <1>14, <1>15, <1>17

(* The frame on top goes, and with a siginfo frame its slot.               *)
LEMMA MatchedPop ==
  ASSUME NEW frames \in Seq(Frames), NEW slots \in Seq(Copied), Matched(frames, slots), frames # <<>>
  PROVE  LET t == IF frames[Len(frames)].kind = "siginfo" THEN P!Front(slots) ELSE slots IN
         /\ P!Front(frames) \in Seq(Frames) /\ Len(P!Front(frames)) = Len(frames) - 1
         /\ \A i \in 1 .. Len(frames) - 1 : P!Front(frames)[i] = frames[i]
         /\ t \in Seq(Copied) /\ Matched(P!Front(frames), t)
<1>1. PICK n \in Nat : Len(frames) = n + 1
  <2>1. Len(frames) \in Nat /\ Len(frames) # 0
    OBVIOUS
  <2>2. Len(frames) - 1 \in Nat /\ Len(frames) = (Len(frames) - 1) + 1
    BY <2>1
  <2> QED
    BY <2>2
<1>2. PICK s : s = P!Front(frames)
  OBVIOUS
<1>3. s = SubSeq(frames, 1, n)
  BY <1>1, <1>2 DEF P!Front
<1>4. s \in Seq(Frames) /\ Len(s) = n /\ \A i \in 1 .. n : s[i] = frames[i]
  BY <1>1, <1>3
<1>5. PICK f \in Frames : f = frames[n + 1]
  BY <1>1
<1>6. frames = Append(s, f)
  <2>1. PICK u : u = Append(s, f)
    OBVIOUS
  <2>2. u \in Seq(Frames) /\ Len(u) = n + 1 /\ u[n + 1] = f /\ \A i \in 1 .. n : u[i] = s[i]
    BY <1>4, <1>5, <2>1
  <2>3. \A i \in 1 .. n + 1 : u[i] = frames[i]
    <3> SUFFICES ASSUME NEW i \in 1 .. n + 1 PROVE u[i] = frames[i]
      OBVIOUS
    <3>1. i \in 1 .. n \/ i = n + 1
      OBVIOUS
    <3> QED
      BY <1>4, <1>5, <2>2, <3>1
  <2>4. Len(u) = Len(frames)
    BY <1>1, <2>2
  <2> QED
    BY <1>1, <2>1, <2>2, <2>3, <2>4, SeqEqual
<1>7. /\ f.kind # "siginfo" => P!SiginfoFrames(frames) = P!SiginfoFrames(s)
      /\ f.kind = "siginfo" => P!SiginfoFrames(frames) = P!SiginfoFrames(s) \cup {n + 1}
      /\ \A i \in P!SiginfoFrames(s) : SlotIn(frames, i) = SlotIn(s, i)
  BY <1>4, <1>6, PushFrames
<1>8. \A i \in P!SiginfoFrames(s) : i \in 1 .. n
  BY <1>4, SiginfoFramesFinite
<1>9. CASE f.kind # "siginfo"
  <2>1. Matched(s, slots)
    BY <1>4, <1>7, <1>8, <1>9 DEF Matched
  <2> QED
    BY <1>1, <1>2, <1>4, <1>5, <1>9, <2>1
<1>10. CASE f.kind = "siginfo"
  <2>1. PICK c : c = Cardinality(P!SiginfoFrames(s))
    OBVIOUS
  <2>2. c \in Nat /\ IsFiniteSet(P!SiginfoFrames(s)) /\ n + 1 \notin P!SiginfoFrames(s)
    BY <1>4, <1>8, <2>1, SiginfoFramesFinite
  <2>3. Len(slots) = c + 1
    BY <1>7, <1>10, <2>1, <2>2, FS_AddElement DEF Matched
  <2>4. PICK t : t = P!Front(slots)
    OBVIOUS
  <2>5. t = SubSeq(slots, 1, c)
    BY <2>2, <2>3, <2>4 DEF P!Front
  <2>6. t \in Seq(Copied) /\ Len(t) = c /\ \A k \in 1 .. c : t[k] = slots[k]
    BY <2>2, <2>3, <2>5
  <2>7. ASSUME NEW i \in P!SiginfoFrames(s) PROVE t[SlotIn(s, i)] = s[i].copied
    <3>1. SlotIn(s, i) \in 1 .. c
      BY <1>4, <2>1, SlotInRange
    <3>2. slots[SlotIn(frames, i)] = frames[i].copied
      BY <1>7, <1>10 DEF Matched
    <3> QED
      BY <1>4, <1>7, <1>8, <2>6, <3>1, <3>2
  <2>8. Matched(s, t)
    BY <2>1, <2>6, <2>7 DEF Matched
  <2> QED
    BY <1>1, <1>2, <1>4, <1>5, <1>10, <2>4, <2>6, <2>8
<1> QED
  BY <1>9, <1>10

(* A throw through the whole stack takes every slot.                       *)
LEMMA ThrowEmpties ==
  ASSUME StackInv, NEW to, P!Throw(to)
  PROVE  /\ stack' = <<>> /\ siginfo_copy_results' = <<>> /\ mode' = to
         /\ P!SiginfoMatched'
<1>1. PICK c : c = Cardinality(P!SiginfoFrames(stack))
  OBVIOUS
<1>2. Len(siginfo_copy_results) = c /\ c \in Nat /\ P!Cardinality(P!SiginfoFrames(stack)) = c
  BY <1>1, MatchedIs, SiginfoFramesFinite, CardinalityIs DEF StackInv, StackTyped, Matched
<1>3. siginfo_copy_results' = SubSeq(siginfo_copy_results, 1, 0)
  BY <1>2 DEF P!Throw, P!Slots
<1>4. siginfo_copy_results' = <<>> /\ stack' = <<>>
  BY <1>3, SubSeqEmpty DEF P!Throw
<1>5. P!SiginfoFrames(<<>>) = {} /\ Len(<<>>) = 0 /\ P!Cardinality({}) = 0
  BY CardinalityIs, FS_EmptySet DEF P!SiginfoFrames
<1>6. P!SiginfoMatched'
  BY <1>4, <1>5 DEF P!SiginfoMatched
<1> QED
  BY <1>4, <1>6 DEF P!Throw

LEMMA MatchedIsNext ==
  ASSUME Matched(stack', siginfo_copy_results')
  PROVE  P!SiginfoMatched'
<1>1. ASSUME NEW i PROVE P!SlotOf(i)' = SlotIn(stack', i)
  BY CardinalityIs DEF SlotIn, P!SlotOf
<1>2. P!Cardinality(P!SiginfoFrames(stack')) = Cardinality(P!SiginfoFrames(stack'))
  BY CardinalityIs
<1> QED
  BY <1>1, <1>2 DEF P!SiginfoMatched, Matched

LEMMA StackInvInit == P!Init => StackInv
<1> SUFFICES ASSUME P!Init PROVE StackInv
  OBVIOUS
<1>1. stack = <<>> /\ siginfo_copy_results = <<>> /\ mode = "kernel" /\ pending = "none" /\ call_entry = "start"
  BY DEF P!Init
<1>2. instance = context /\ context \in {0, 1} /\ programs = context
  BY DEF P!Init, P!None
<1>3. P!SiginfoMatched
  <2>1. P!SiginfoFrames(<<>>) = {} /\ Len(<<>>) = 0 /\ P!Cardinality({}) = 0
    BY CardinalityIs, FS_EmptySet DEF P!SiginfoFrames
  <2> QED
    BY <1>1, <2>1 DEF P!SiginfoMatched
<1>4. stack \in Seq(Frames) /\ siginfo_copy_results \in Seq(Copied) /\ Len(stack) = 0
  BY <1>1
<1>5. StackTyped
  BY <1>1, <1>2, <1>4 DEF StackTyped
<1>6. EntryFirst /\ InstanceMapped /\ FramesCurrent /\ FunctionIsFirst /\ CompiledInCall
  BY <1>1, <1>2, <1>4 DEF EntryFirst, InstanceMapped, FramesCurrent, FunctionIsFirst, CompiledInCall
<1> QED
  BY <1>3, <1>5, <1>6 DEF StackInv

(* What leaves stack and slots alone leaves them matched.                  *)
LEMMA StackStays ==
  ASSUME StackInv, UNCHANGED <<stack, siginfo_copy_results>>
  PROVE  P!SiginfoMatched'
BY DEF StackInv, P!SiginfoMatched, P!SlotOf

LEMMA CompileKeeps ==
  ASSUME StackInv, P!compile_begin \/ P!compile_end \/ P!compile_abort \/ P!switch_entry
  PROVE  StackInv'
<1>1. /\ UNCHANGED <<context, instance, stack, siginfo_copy_results, mode, programs>> /\ mode = "kernel"
      /\ \/ /\ call_entry' = call_entry /\ pending' \in {"none", "bytes", "module"}
            /\ pending' # "none" => pending # "none" \/ stack # <<>> \/ instance = 0
         \/ pending' = pending /\ call_entry' = "function" /\ instance = 1
  BY DEF P!compile_begin, P!compile_end, P!compile_abort, P!switch_entry, P!Kernel, P!None
<1>2. P!SiginfoMatched'
  BY <1>1, StackStays
<1>3. StackTyped'
  BY <1>1 DEF StackInv, StackTyped
<1>4. EntryFirst' /\ InstanceMapped' /\ FramesCurrent'
  BY <1>1 DEF StackInv, EntryFirst, InstanceMapped, FramesCurrent
<1>5. FunctionIsFirst' /\ CompiledInCall'
  BY <1>1 DEF StackInv, FunctionIsFirst, CompiledInCall
<1> QED
  BY <1>2, <1>3, <1>4, <1>5 DEF StackInv

LEMMA ThrowKeeps ==
  ASSUME StackInv, NEW to, P!Throw(to), to \in {"over", "loop"},
         context' \in Nat, instance' \in Nat, programs' \in Nat, pending' \in {"none", "bytes", "module"},
         call_entry' \in {"start", "function"},
         to = "loop" => instance' = context' /\ call_entry' = "start" /\ pending' = "none"
  PROVE  StackInv'
<1>1. /\ stack' = <<>> /\ siginfo_copy_results' = <<>> /\ mode' = to
      /\ P!SiginfoMatched'
  BY ThrowEmpties
<1>2. stack' \in Seq(Frames) /\ siginfo_copy_results' \in Seq(Copied)
  BY <1>1
<1>3. StackTyped'
  BY <1>1, <1>2 DEF StackTyped
<1>4. EntryFirst' /\ InstanceMapped' /\ FramesCurrent' /\ FunctionIsFirst' /\ CompiledInCall'
  BY <1>1 DEF EntryFirst, InstanceMapped, FramesCurrent, FunctionIsFirst, CompiledInCall
<1> QED
  BY <1>1, <1>3, <1>4 DEF StackInv

LEMMA InstantiateKeeps ==
  ASSUME StackInv, NEW ok \in BOOLEAN, P!instantiate(ok)
  PROVE  StackInv'
<1>1. /\ mode = "kernel" /\ pending = "module" /\ pending' = "none" /\ programs' = programs + 1
      /\ context' = programs + 1 /\ call_entry' = call_entry /\ programs \in Nat /\ instance \in Nat
      /\ call_entry \in {"start", "function"}
  BY DEF P!instantiate, P!Kernel, StackInv, StackTyped
<1>2. CASE ok
  <2>1. /\ instance' = programs + 1 /\ stack' = stack /\ siginfo_copy_results' = siginfo_copy_results
        /\ mode' = IF stack = <<>> THEN "kernel" ELSE "replaced"
    BY <1>2 DEF P!instantiate
  <2>2. P!SiginfoMatched'
    BY <2>1, StackStays
  <2>3. StackTyped'
    BY <1>1, <2>1 DEF StackInv, StackTyped
  <2>4. EntryFirst' /\ InstanceMapped'
    BY <1>1, <2>1 DEF StackInv, EntryFirst, InstanceMapped
  <2>5. FramesCurrent' /\ FunctionIsFirst' /\ CompiledInCall'
    <3>1. CASE stack = <<>>
      <4>1. Len(stack') = 0 /\ instance = 0
        BY <1>1, <2>1, <3>1 DEF StackInv, CompiledInCall
      <4>2. call_entry # "function"
        BY <1>1, <4>1 DEF StackInv, FunctionIsFirst
      <4> QED
        BY <1>1, <2>1, <3>1, <4>1, <4>2 DEF FramesCurrent, FunctionIsFirst, CompiledInCall
    <3>2. CASE stack # <<>>
      BY <1>1, <2>1, <3>2 DEF FramesCurrent, FunctionIsFirst, CompiledInCall
    <3> QED
      BY <3>1, <3>2
  <2> QED
    BY <2>2, <2>3, <2>4, <2>5 DEF StackInv
<1>3. CASE ~ok
  <2>1. P!Throw("over") /\ instance' = instance
    BY <1>3 DEF P!instantiate
  <2> QED
    BY <1>1, <2>1, ThrowKeeps
<1> QED
  BY <1>2, <1>3

LEMMA UnwindKeeps ==
  ASSUME StackInv, P!unwind \/ P!Ends
  PROVE  StackInv'
<1>1. CASE P!unwind
  <2>1. /\ P!Throw("loop") /\ mode = "replaced" /\ call_entry' = "start"
        /\ UNCHANGED <<context, instance, pending, programs>>
    BY <1>1 DEF P!unwind
  <2>2. instance' = context' /\ pending' = "none"
    BY <2>1 DEF StackInv, InstanceMapped, CompiledInCall
  <2> QED
    BY <2>1, <2>2, ThrowKeeps DEF StackInv, StackTyped
<1>2. CASE P!Ends
  <2>1. P!Throw("over") /\ UNCHANGED <<context, instance, pending, call_entry, programs>>
    BY <1>2 DEF P!Ends
  <2> QED
    BY <2>1, ThrowKeeps DEF StackInv, StackTyped
<1> QED
  BY <1>1, <1>2

(* A frame of the program that runs, above frames of that program.         *)
LEMMA FrameType ==
  ASSUME StackInv, NEW kind \in {"entry", "signal", "siginfo"}
  PROVE  /\ P!Frame(kind) \in Frames /\ P!Frame(kind).kind = kind /\ P!Frame(kind).program = instance
         /\ P!Frame(kind).entry = call_entry /\ P!Frame(kind).copied = "null"
BY DEF P!Frame, P!Null, Frames, Copied, StackInv, StackTyped

LEMMA CallKeeps ==
  ASSUME StackInv, P!call
  PROVE  StackInv'
<1>1. /\ stack = <<>> /\ mode \in {"loop", "kernel"} /\ (mode = "kernel" => instance # 0)
      /\ mode' = "user" /\ stack' = <<P!Frame("entry")>>
      /\ UNCHANGED <<context, instance, pending, call_entry, siginfo_copy_results, programs>>
  BY DEF P!call, P!Kernel, P!None, StackInv, EntryFirst
<1>2. PICK f \in Frames : /\ f = P!Frame("entry") /\ f.kind = "entry" /\ f.program = instance
                          /\ f.entry = call_entry /\ f.copied = "null"
  BY FrameType
<1>3. /\ stack' = Append(stack, f) /\ stack' \in Seq(Frames) /\ Len(stack') = 1 /\ stack'[1] = f
  <2>1. stack' = <<f>> /\ stack = <<>>
    BY <1>1, <1>2
  <2>2. <<f>> = Append(<<>>, f) /\ <<f>> \in Seq(Frames) /\ Len(<<f>>) = 1 /\ <<f>>[1] = f
    OBVIOUS
  <2> QED
    BY <2>1, <2>2
<1>4. Matched(stack', siginfo_copy_results')
  <2>1. Matched(stack, siginfo_copy_results)
    BY MatchedIs DEF StackInv
  <2> QED
    BY <1>1, <1>2, <1>3, <2>1, MatchedPush DEF StackInv, StackTyped
<1>5. P!SiginfoMatched'
  BY <1>4, MatchedIsNext
<1>6. StackTyped'
  BY <1>1, <1>3 DEF StackInv, StackTyped
<1>7. pending = "none" /\ instance = context /\ (call_entry = "function" => instance = 1)
  BY <1>1 DEF StackInv, CompiledInCall, InstanceMapped, FunctionIsFirst
<1>8. EntryFirst' /\ InstanceMapped' /\ FunctionIsFirst' /\ CompiledInCall'
  BY <1>1, <1>2, <1>3, <1>7 DEF EntryFirst, InstanceMapped, FunctionIsFirst, CompiledInCall
<1>9. FramesCurrent'
  <2>1. instance > 1 => call_entry = "start"
    BY <1>7 DEF StackInv, StackTyped
  <2> QED
    BY <1>1, <1>2, <1>3, <2>1 DEF FramesCurrent
<1> QED
  BY <1>5, <1>6, <1>8, <1>9 DEF StackInv

LEMMA SyscallKeeps ==
  ASSUME StackInv, P!Syscall \/ P!SyscallReturns
  PROVE  StackInv'
<1>1. /\ UNCHANGED <<context, instance, pending, call_entry, stack, siginfo_copy_results, programs>>
      /\ mode \in {"kernel", "user"} /\ mode' \in {"kernel", "user"} /\ pending = "none"
  BY DEF P!Syscall, P!SyscallReturns, P!User, P!Kernel, StackInv, CompiledInCall
<1>2. P!SiginfoMatched'
  BY <1>1, StackStays
<1>3. StackTyped'
  BY <1>1 DEF StackInv, StackTyped
<1>4. EntryFirst' /\ InstanceMapped' /\ FramesCurrent' /\ FunctionIsFirst' /\ CompiledInCall'
  BY <1>1 DEF StackInv, EntryFirst, InstanceMapped, FramesCurrent, FunctionIsFirst, CompiledInCall
<1> QED
  BY <1>2, <1>3, <1>4 DEF StackInv

(* The kernel calls a handler of the program.                              *)
LEMMA HandlerKeeps ==
  ASSUME StackInv, P!call_signal_handler \/ P!call_siginfo_handler
  PROVE  StackInv'
<1>1. PICK kind \in {"signal", "siginfo"} :
        /\ mode = "kernel" /\ stack # <<>> /\ pending = "none" /\ mode' = "user"
        /\ stack' = Append(stack, P!Frame(kind))
        /\ siginfo_copy_results' = IF kind = "siginfo" THEN Append(siginfo_copy_results, "null")
                                   ELSE siginfo_copy_results
        /\ UNCHANGED <<context, instance, pending, call_entry, programs>>
  BY DEF P!call_signal_handler, P!call_siginfo_handler, P!Kernel, P!Null
<1>2. PICK f \in Frames : /\ f = P!Frame(kind) /\ f.kind = kind /\ f.program = instance
                          /\ f.entry = call_entry /\ f.copied = "null"
  BY FrameType
<1>3. PICK n \in Nat : n = Len(stack) /\ n # 0
  BY <1>1 DEF StackInv, StackTyped
<1>4. /\ stack' \in Seq(Frames) /\ Len(stack') = n + 1 /\ stack'[n + 1] = f
      /\ \A i \in 1 .. n : stack'[i] = stack[i]
  BY <1>1, <1>2, <1>3, PushFrames DEF StackInv, StackTyped
<1>5. Matched(stack, siginfo_copy_results) /\ siginfo_copy_results \in Seq(Copied) /\ stack \in Seq(Frames)
  BY MatchedIs DEF StackInv, StackTyped
<1>6. siginfo_copy_results' \in Seq(Copied)
  BY <1>1, <1>5 DEF Copied
<1>7. Matched(stack', siginfo_copy_results')
  <2>1. CASE kind = "siginfo"
    BY <1>1, <1>2, <1>5, <2>1, MatchedPushSiginfo
  <2>2. CASE kind # "siginfo"
    BY <1>1, <1>2, <1>5, <2>2, MatchedPush
  <2> QED
    BY <2>1, <2>2
<1>8. P!SiginfoMatched'
  BY <1>7, MatchedIsNext
<1>9. StackTyped'
  BY <1>1, <1>4, <1>6 DEF StackInv, StackTyped
<1>10. EntryFirst'
  <2>1. stack'[1] = stack[1] /\ stack[1].kind = "entry"
    BY <1>1, <1>3, <1>4 DEF StackInv, EntryFirst
  <2> QED
    BY <1>1, <2>1 DEF EntryFirst
<1>11. InstanceMapped' /\ FunctionIsFirst' /\ CompiledInCall'
  BY <1>1 DEF StackInv, InstanceMapped, FunctionIsFirst, CompiledInCall
<1>12. FramesCurrent'
  <2>1. instance > 1 => call_entry = "start"
    BY <1>1 DEF StackInv, StackTyped, FunctionIsFirst
  <2> SUFFICES ASSUME NEW k \in 1 .. n + 1
               PROVE  /\ stack'[k].program = instance
                      /\ stack'[k].program > 1 => stack'[k].entry = "start"
    BY <1>1, <1>4 DEF FramesCurrent
  <2>2. k \in 1 .. n \/ k = n + 1
    OBVIOUS
  <2>3. CASE k = n + 1
    BY <1>2, <1>4, <2>1, <2>3
  <2>4. CASE k \in 1 .. n
    BY <1>1, <1>3, <1>4, <2>4 DEF StackInv, FramesCurrent
  <2> QED
    BY <2>2, <2>3, <2>4
<1> QED
  BY <1>8, <1>9, <1>10, <1>11, <1>12 DEF StackInv

(* The trampoline asks for the payload of the callback on top.             *)
LEMMA CopyKeeps ==
  ASSUME StackInv, NEW result \in {"ok", "fault"}, P!copy_siginfo(result)
  PROVE  StackInv'
<1>1. /\ mode = "user" /\ stack # <<>> /\ stack[Len(stack)].kind = "siginfo"
      /\ siginfo_copy_results' = [siginfo_copy_results EXCEPT ![Len(siginfo_copy_results)] = result]
      /\ stack' = [stack EXCEPT ![Len(stack)].copied = result]
      /\ UNCHANGED <<context, instance, pending, call_entry, mode, programs>>
  BY DEF P!copy_siginfo, P!User, P!Top
<1>2. Matched(stack, siginfo_copy_results) /\ siginfo_copy_results \in Seq(Copied) /\ stack \in Seq(Frames)
  BY MatchedIs DEF StackInv, StackTyped
<1>3. result \in Copied
  BY DEF Copied
<1>4. /\ stack' \in Seq(Frames) /\ siginfo_copy_results' \in Seq(Copied)
      /\ Matched(stack', siginfo_copy_results')
  BY <1>1, <1>2, <1>3, MatchedCopy
<1>5. P!SiginfoMatched'
  BY <1>4, MatchedIsNext
<1>6. /\ Len(stack') = Len(stack)
      /\ \A k \in 1 .. Len(stack) : /\ stack'[k].kind = stack[k].kind
                                    /\ stack'[k].program = stack[k].program
                                    /\ stack'[k].entry = stack[k].entry
  <2>1. PICK n \in Nat : n = Len(stack)
    BY <1>2
  <2>2. stack' = [stack EXCEPT ![n] = [stack[n] EXCEPT !.copied = result]]
    BY <1>1, <2>1
  <2>3. Len(stack') = n /\ \A k \in 1 .. n : k # n => stack'[k] = stack[k]
    BY <1>2, <2>1, <2>2
  <2>4. ASSUME n \in 1 .. n
        PROVE  /\ stack'[n].kind = stack[n].kind /\ stack'[n].program = stack[n].program
               /\ stack'[n].entry = stack[n].entry
    <3>1. stack'[n] = [stack[n] EXCEPT !.copied = result] /\ stack[n] \in Frames
      BY <1>2, <2>1, <2>2, <2>4
    <3> QED
      BY <3>1 DEF Frames
  <2> QED
    BY <2>1, <2>3, <2>4
<1>7. StackTyped'
  BY <1>1, <1>4 DEF StackInv, StackTyped
<1>8. EntryFirst'
  <2>1. 1 \in 1 .. Len(stack)
    BY <1>1, <1>2
  <2> QED
    BY <1>1, <1>6, <2>1 DEF StackInv, EntryFirst
<1>9. FramesCurrent'
  BY <1>1, <1>6 DEF StackInv, FramesCurrent
<1>10. InstanceMapped' /\ FunctionIsFirst' /\ CompiledInCall'
  BY <1>1 DEF StackInv, InstanceMapped, FunctionIsFirst, CompiledInCall
<1> QED
  BY <1>5, <1>7, <1>8, <1>9, <1>10 DEF StackInv

(* A handler returns: it was not the frame of call().                      *)
LEMMA ReturnKeeps ==
  ASSUME StackInv, P!HandlerReturns
  PROVE  StackInv'
<1>1. /\ mode = "user" /\ stack # <<>> /\ mode' = "kernel" /\ stack' = P!Front(stack)
      /\ siginfo_copy_results' = IF stack[Len(stack)].kind = "siginfo" THEN P!Front(siginfo_copy_results)
                                 ELSE siginfo_copy_results
      /\ UNCHANGED <<context, instance, pending, call_entry, programs>>
  BY DEF P!HandlerReturns, P!User, P!Top
<1>2. Matched(stack, siginfo_copy_results) /\ siginfo_copy_results \in Seq(Copied) /\ stack \in Seq(Frames)
  BY MatchedIs DEF StackInv, StackTyped
<1>3. /\ stack' \in Seq(Frames) /\ Len(stack') = Len(stack) - 1
      /\ \A i \in 1 .. Len(stack) - 1 : stack'[i] = stack[i]
      /\ siginfo_copy_results' \in Seq(Copied) /\ Matched(stack', siginfo_copy_results')
  BY <1>1, <1>2, MatchedPop
<1>4. P!SiginfoMatched'
  BY <1>3, MatchedIsNext
<1>5. StackTyped'
  BY <1>1, <1>3 DEF StackInv, StackTyped
<1>6. EntryFirst'
  <2>1. ASSUME stack' # <<>> PROVE stack'[1] = stack[1]
    <3>1. Len(stack') # 0
      BY <1>3, <2>1
    <3>2. 1 \in 1 .. Len(stack) - 1
      BY <1>2, <1>3, <3>1
    <3> QED
      BY <1>3, <3>2
  <2> QED
    BY <1>1, <2>1 DEF StackInv, EntryFirst
<1>7. FramesCurrent'
  <2>1. \A k \in 1 .. Len(stack') : k \in 1 .. Len(stack) /\ stack'[k] = stack[k]
    BY <1>2, <1>3
  <2> QED
    BY <1>1, <2>1 DEF StackInv, FramesCurrent
<1>8. InstanceMapped' /\ FunctionIsFirst' /\ CompiledInCall'
  BY <1>1 DEF StackInv, InstanceMapped, FunctionIsFirst, CompiledInCall
<1> QED
  BY <1>4, <1>5, <1>6, <1>7, <1>8 DEF StackInv

(* The function of a clone returns: the frame is call()'s, without a slot. *)
LEMMA EntryReturnKeeps ==
  ASSUME StackInv, P!EntryReturns
  PROVE  StackInv'
<1>1. /\ mode = "user" /\ Len(stack) = 1 /\ stack' = <<>> /\ mode' = "loop"
      /\ UNCHANGED <<context, instance, pending, call_entry, siginfo_copy_results, programs>>
  BY DEF P!EntryReturns, P!User
<1>2. stack # <<>> /\ stack[1].kind = "entry"
  <2>1. stack # <<>>
    <3>1. Len(<<>>) = 0
      OBVIOUS
    <3> QED
      BY <1>1, <3>1
  <2> QED
    BY <2>1 DEF StackInv, EntryFirst
<1>3. stack' = P!Front(stack)
  <2>1. P!Front(stack) = SubSeq(stack, 1, 0)
    BY <1>1 DEF P!Front
  <2> QED
    BY <1>1, <2>1, SubSeqEmpty
<1>4. Matched(stack, siginfo_copy_results) /\ siginfo_copy_results \in Seq(Copied) /\ stack \in Seq(Frames)
  BY MatchedIs DEF StackInv, StackTyped
<1>5. stack' \in Seq(Frames) /\ Matched(stack', siginfo_copy_results)
  BY <1>1, <1>2, <1>3, <1>4, MatchedPop
<1>6. P!SiginfoMatched'
  BY <1>1, <1>5, MatchedIsNext
<1>7. StackTyped'
  BY <1>1, <1>5 DEF StackInv, StackTyped
<1>8. EntryFirst' /\ InstanceMapped' /\ FramesCurrent' /\ FunctionIsFirst' /\ CompiledInCall'
  BY <1>1 DEF StackInv, EntryFirst, InstanceMapped, FramesCurrent, FunctionIsFirst, CompiledInCall
<1> QED
  BY <1>6, <1>7, <1>8 DEF StackInv

(* In a worker of worker.ts every siginfo callback keeps its own slot, and *)
(* what runs is the program that is mapped, entered where it should be:    *)
(* for any number of programs and any depth of the stack, whatever nests   *)
(* on it and throws through it.                                            *)
THEOREM WorkerStackIsSound == MCSpec => []StackSound
<1>1. MCInit => StackInv
  BY StackInvInit DEF MCInit
<1>2. StackInv /\ [MCNext]_<<focus, vars, programVars, consoleVars, blockVars>> => StackInv'
  <2> SUFFICES ASSUME StackInv, P!Next \/ UNCHANGED programVars PROVE StackInv'
    BY DEF MCNext
  <2>1. CASE P!Next
    BY <2>1, CompileKeeps, InstantiateKeeps, UnwindKeeps, CallKeeps, SyscallKeeps, HandlerKeeps,
       CopyKeeps, ReturnKeeps, EntryReturnKeeps DEF P!Next
  <2>2. CASE UNCHANGED programVars
    <3>1. P!SiginfoMatched'
      BY <2>2, StackStays DEF programVars
    <3> QED
      BY <2>2, <3>1 DEF programVars, StackInv, StackTyped, EntryFirst, InstanceMapped, FramesCurrent,
         FunctionIsFirst, CompiledInCall
  <2> QED
    BY <2>1, <2>2
<1>3. StackInv => StackSound
  <2> SUFFICES ASSUME StackInv PROVE P!RunsCurrentProgram
    BY DEF StackInv, StackSound, P!StackSound
  <2> QED
    BY DEF StackInv, P!RunsCurrentProgram, P!User, FramesCurrent, InstanceMapped
<1> QED
  BY <1>1, <1>2, <1>3, PTL DEF MCSpec
=============================================================================
