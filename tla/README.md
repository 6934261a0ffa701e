# A TLA+ verification of the Wasm Linux host and its guest agent

This directory specifies, model-checks and proves the core of this repository: a
Linux kernel compiled to Wasm that runs in JavaScript workers, the virtio devices
the host gives it (`packages/kernel`), the library that runs programs inside the
guest (`packages/linux-guest`), and the agent that serves it there
(`distro/guest-agent`).

Contents: [inventory](#1-inventory) · [modules](#2-modules-and-the-code) ·
[runs](#3-what-the-runs-check) · [fairness](#4-fairness-and-deadlock) ·
[proofs](#5-what-is-proved) · [disagreements](#6-where-code-and-comments-disagree) ·
[not modelled](#7-what-is-not-modelled) · [plan](#8-plan)

## 1. Inventory

### The system

A machine (`kernel/src/index.ts`) boots a Wasm kernel. Every guest thread is a
worker that shares the guest's memory; the main thread owns the devices. A guest
thread reaches a device by synchronous calls (`enable_vring`, `notify`, `reset`)
that are dispatched by `virtio/bus.ts`, and by writing descriptors in shared
memory. A device is an object on the main thread's event loop (`virtio/device.ts`)
or, behind the same interface, an object in a worker of its own
(`virtio/remote.ts`). Above the vsock device, `linux-guest/src/conn.ts` keeps a
pool of connections to the agent in the guest; every file operation, process
operation and mount is a request and reply on one of them. Behind the network
device, `linux-guest/src/network.ts` is an IP network in user space: it answers
ARP and DNS, and turns the guest's TCP connections and UDP flows into streams.

```
 guest threads (UserProgram)  --rings in shared memory, notify/reset--> virtio/bus.ts
   workers (Machine)                                        |
                 VirtioQueue, RequestQueue        virtio/device.ts  VirtioDevice
                                                     |          \
            Console, BlockDevice, FileSystemDevice, ...   virtio/remote.ts RemoteDevice
                                                     |                 | message ports
   network.ts <--EthernetSwitch, NIC--  net        vsock (Vsock)     worker
     TcpFlow, GatewayIp                              |
     GuestFetch, HostFetch                           |
   client.ts, process.ts, file.ts --exchanges--> conn.ts (lanes) --vsock--> agent.c
     ChildProcess, GuestFiles        GuestSession, LanePool  AgentSession, AgentProcesses
```

### Components

| Component | State | Operations | What is hard | What makes it correct |
|---|---|---|---|---|
| Packed virtqueue, `queue.ts` | two cursors with wrap counters, validity; the ring in guest memory | iterate, `#pop`, `release`, `invalidate` | no lock: ownership is two flag bits against a wrap counter; revocation in the middle of a walk | neither side misreads a descriptor; a FIFO of requests, each completed once, none after revocation |
| Virtio device base, `device.ts` | per queue: queue, pending, notifying; active work; stopped | notify, kick, spawn, interrupt, reset, shutdown | kicks are asynchronous and coalesced; reset and shutdown wait for a moving set | no notification and no interrupt lost; nothing in flight after reset or close |
| Remote transport, `remote.ts` | epochs shared by both threads, outstanding resets, messages in two ports | enable, disable, notify, reset, complete, error, close | completions cross disables, resets and new queues on the way | a completion lands only in its own ring; every reset and shutdown is answered |
| Bus, `bus.ts` | devices by number | dispatch, close | the guest thread sleeps until a reset is done | every sleeper is woken |
| Receive queue, `rx.ts` | host data waiting for guest buffers | push, kick | data and buffers arrive independently | order kept, nothing lost or duplicated |
| Vsock, `vsock.ts` | connections by port, credit counters modulo 2^32 | connect, accept, data, credit, shutdown, reset | credit wrap, connect timeout against a late answer | never more than the peer's buffer in flight; every connect and write ends |
| Net and switch, `net.ts` | learned addresses, frames that wait, transmits that wait for them | send, forward, reset, stop, close | a sender waits for a recipient that is behind, resets or leaves | frames once and in order; whoever waits, waits for a guest that can end it |
| Console, `console.ts` | the chunk in the pump's hand, receive buffers, size | input, output, resize, reset, stop | a chunk is held over awaits in which the guest takes part of it or resets | input once and in order; the pump never waits for what is there |
| Block, `block.ts` | writes in flight | read, write, flush | requests overlap; a flush must wait for writes, also those that fail | a flush covers the writes started before it |
| File system, `fs.ts` | node records with three counts, open handles | FUSE requests, forgets, finalize | forgets come in at every await; collecting cascades to parents | counts exact, no use of a forgotten node, nothing kept or released twice |
| Entropy, `entropy.ts` | none | fill | — | — |
| Machine, `index.ts`, `worker.ts`, `plugin*.ts` | workers, devices, failure, closing | boot, spawn, fork, halt, panic, fail, close | failure while booting, close while failing; a forking worker sleeps without an event loop | everything released; `closed` settles; the sleeper is answered |
| User programs, `worker.ts` | the running instance, what is mapped, one stack, siginfo slots | compile, exec, system calls, signal handlers, end | an exec or trap throws through nested handlers | what runs is what is mapped; slots are matched |
| Session, `conn.ts` | idle lanes, count, waiters, dead | exchange, open lane, release, die, close | the pool's count changes around awaits; the session may die at any of them | count exact, lanes serial, no connection leaked, waiters served in order |
| Client and processes, `client.ts`, `process.ts` | process slots, waiters; pipes, stdin queue, reap | exec, write, read, close, kill | blocked calls hold lanes | a kill always gets a lane; close and parked exec finish |
| Agent processes, `agent.c` | table of children, mutex, condition variable | spawn, reap, reaper thread | a child exits before its pid is published; sleeping reaper | no exit lost, every reap answered with its own status |
| Sessions, `agent.c`, `client.ts`, `agent.ts` | PID 1, the session's process and its group, lane threads; the client's attempt | connect, retry, accept, serve, tear down | processes fork and exit while their session is torn down; retries race late answers | a session starts on clean ground; the host has one |
| Files, `client.ts`, `file.ts`, `syscalls.ts` | numbers of open files, an FsFile's queue | read, write, copy, list, mkdir, open, truncate | numbers are used again at once; aborts and short writes | a call touches its own files; what resolves is whole |
| TCP endpoint, `network.ts` | per flow: sequence numbers, windows, ack and window waiters, handshake, streams | connect, handler, read, write, close, abort, segments in | one segment at a time and no retransmission: timers, closed windows and a NIC that holds frames back; close at any await | data once and in order; every call ends; an ended connection ends on both sides |
| Gateway, `network.ts` | reassembly buffers, UDP connections, ports, attachments | fragments, connect, read, detach, close | fragments overlap, repeat and expire; guests leave | a datagram whole or not at all; nothing of a guest that left |
| HTTP, `http.ts`, `*fetch*.ts` | a buffer of bytes, an upload, a response | request, parse, stream, cancel | the answer may come before the upload ends, and either may fail | a response whole or failed; one answer; nothing held afterwards |

`PROJECT.json` lists every component with its status, and the hazards of this code
at the lines where they bite.

## 2. Modules and the code

A definition marked `fault` in a module is a slip the code could have had. It is
used by no action; with it in place of the definition it is a variant of, one named
property fails, which is how each property is known to say something. Bounds are
constants whose names start with `Max`; they occur only in the guards of actions
of the environment. `PROJECT.json` maps every definition to its source lines.

**VirtioQueue** — one ring, Linux's driver (external) and `PackedVirtqueue`. The
driver takes free ids, writes a chain and makes its head visible last
(`DriverStage`, `DriverPublish`, `DriverCollect`). `#pop` is one step per descriptor
(`PopHead`, `PopNext`, `PopReturn`), because `is_current` is read between them
and the main thread may turn it false (`Revoke`) while a worker walks; `Release` or
`ReleaseStale` follows the test in `#release`. An indirect chain takes one ring
descriptor, so it is a chain of length one. **RequestQueue** is what the ring
promises: no ring, only queues of requests; `IsRequestQueue` is the refinement.

**RemoteDevice** — both sides of `remote.ts` once a device is bound, with the two
message ports as sequences. Each ring the guest sets up gets a number the code does
not have, so that properties can tell one ring's memory from the next; the handlers
compare epochs only, as the code does. The shared `control` array is written by the
main thread and read by the worker at any time. An acknowledged reset raises
`reclaimed`: those rings are the guest's memory again.

**VirtioDevice** — `device.ts` on one event loop: an action is one turn of it.
A kick may take one chain and await, or take several, as `fs.ts` and `block.ts` do.
`resuming` holds the drain loops whose kick has settled but whose continuation has
not run yet, which is where a notification could be lost. A kick that throws costs the
notifications it was to serve, and no later one: `thrown` remembers it, for one queue and
until that queue's next `notify`.

**GuestSession** — `conn.ts`: an exchange takes an idle lane, opens one in two
stages (connection, handshake), or waits. `#die` may happen at any point.
**LanePool** is the pool without connections; `IsLanePool` is the refinement.

**ChildProcess** — `exec()` with its process slots and class `ChildProcess`. Each
call into the guest occupies a lane of a `LanePool` (`busy`, `waiting`), and a step
of the host is one turn of the event loop: it takes an answer and issues the calls
that follow. Children are external: they read or do not, exit or do not, and may
leave a descendant that keeps their pipes open (`holders`). `Written` and `ReadData`
are answers only the child's own activity brings.

**AgentProcesses** — `children[]`, lane threads and the reaper of `agent.c`.
A critical section that makes no blocking call is one step; the one that spans
`posix_spawn` is two, because the child runs, and may exit, before its pid is
published. The kernel (processes, zombies, `waitpid`) is external.

**Vsock** — connections of `vsock.ts` with the receive queue of `rx.ts`, both sides
of the stream. The guest's side is Linux (external), written from what the device
is sent and has to answer. A packet is its operation, its `fwd_cnt` and, for data,
where its bytes begin in the stream and how many they are, so StreamsWhole can say
that the bytes between two ends are the right ones without having contents.
`conn` is the host's object: the connect's promise and timer, the credit counters,
the read buffer, a reader (`idle`, `parked` in `read_waiters`, `resumed` with a
chunk) and a writer (`ready` or `parked` in `credit_waiters`). `Send` is `send` with
the flush of the receive queue it ends in: packets go to posted buffers and wait in
`pending` when there are none. Each packet of a transmit kick is an action of its
own, named for its operation.

**TcpFlow** — one TCP connection of `network.ts`, opened by the host (`connect_tcp`)
or by the guest and served by a `connectTcp` handler. An action is a task of the
event loop with the microtasks it ends in; the actions keep the code's names
(`send_tcp_data`, `process_tcp`, `update_tcp_window`, ...). The code awaits every
send until the guest's NIC has taken the frame, so a send is `Emit`, and what the
code does after the await is `After`: with room in the NIC both are one step,
otherwise the frame and the name of who awaits it wait in `held` until `Deliver`,
and everything else goes on meanwhile. A NIC that is full, of this connection's frames
or of others, drops the frame and the sender goes on. `call` has the two calls a writable stream can make, a write and a
close, each with its ack waiter; `activation` is the handler's answer to the guest's
SYN, made by its first read, write or close. Linux's socket (external)
acknowledges, repeats, honours the window and checks the sequence numbers of
resets as RFC 9293 and 5961 have it. Byte `i` of a stream is the number `i`.

**Machine** — `bootMachine`, the plugins, the bus's close and the workers. A step of
the main thread is a task of its event loop; a worker is where its thread is, and
its messages are in order. A worker that forks is `waiting` in `Atomics.wait` until
its child has copied the memory or failed to. The kernel in a worker is external.

**UserProgram** — `user_imports` of one worker: a stack of frames, each a call into
a program (its start, a signal handler, a siginfo handler) or into the kernel, and
the throws that pass through all of it. Programs are numbers, the newest compiled
is the one mapped. `copy_siginfo` is called by libc's trampoline, in a siginfo frame.

**Console** — the input pump of `console.ts` step by step (`Waits`, `Wakes`, `Asks`,
`StreamGives`, `Delivers`) with `ready()` of the receive queue, beside output, reset,
stop and resize. **BlockDevice** — requests that move in pieces, each of which may
fall short or fail, and flushes that wait for the set of writes they found; what the
backend has `cached` becomes `durable` by its flush.

**EthernetSwitch** — the learning switch with its NICs: a unicast frame to a
recipient that is behind keeps the sender's transmit waiting, a flood never does. An
address that roams makes the switch learn anew.

**FileSystemDevice** — the tables of `fs.ts`. A request is in `request` with the
stage it awaits in; each answer of the backend is a step, and forgets come in
between. Linux (external) forgets only what it was given, and at unmount drops all.

**GatewayIp** — reassembly, UDP connections, attachments and detaching. A fragment
is its extent in units of eight bytes and a letter for its contents; the code's
search for neighbours, its limits and its replacement of the oldest datagram are
`reassemble_ip`. A JavaScript Map keeps the order of insertion: here it is a function
whose entries know which keys are `older`. `Whole` is the reference definition
reassembly is checked against.

**AgentSession** — PID 1's loop and the session's process, the host's attempts and
its readiness loop. A process is in the group of its session unless it has left it
(`SetSid`), and knows the process that forked it, which is the one to reap it while that
runs (`ParentReaps`). An orphan's parent is the session's process, whose `reap_children`
takes it, and PID 1 after that: `waitpid(-worker)` sees PID 1's own children only
(`Orphaned`). SIGKILL stops a process at once, but it takes its time to become a zombie
(`killed`).

**GuestFiles** — every operation of `client.ts` on files and paths as the sequence
of system calls it makes, `FsFile`, and the agent that executes them on a table of
open files. A number the host uses carries, as history, whose file it means.

**GuestFetch** — a fetch that a guest's server answers: `send_request` beside the
parser, with the wire cut anywhere. **HostFetch** — `exchange` of a guest's request
with a fetch of the host: what was written to the guest is `out`.

**GuestServices** puts EthernetSwitch, AgentSession, GuestFiles, GuestFetch and HostFetch
side by side; **MCGuest** adds GatewayIp, FileSystemDevice, TcpFlow and Vsock with the
instances TLC checks. **MCMachine** is Machine beside UserProgram, Console and
BlockDevice, and **MCLanes** is GuestSession beside a Vsock connection. A behaviour of
these is of one component, its `focus`; the components of one run do not interact there,
and each component's fairness is assumed of the behaviours that are its own.

The theorems of section 5 are in **VirtioQueueProofs**, **RemoteDeviceProofs**,
**VirtioDeviceProofs**, **GuestSessionProofs**, **AgentProcessesProofs** and
**ChildProcessProofs**, each about the module it is named after; **MachineProofs** is
about the components of MCMachine, **GuestServicesProofs** about those of GuestServices
and GatewayIp.

`TypeOK` is stated in the core modules. For VirtioQueue, RemoteDevice, VirtioDevice,
GuestSession, AgentProcesses, ChildProcess and Machine it is a theorem.

## 3. What the runs check

| Run | Instance | States | Shows |
|---|---|---|---|
| `virtio_queue` | 3 descriptors, 1 replacement | 673,884 | RingConsistent: no side throws or misreads; IsRequestQueue: the ring implements RequestQueue |
| `remote_device` | 1 queue, views, 2 rings, 2 resets, 1 request | 242,833 | OwnCompletionsOnly, NothingInFlight; EverybodyAnswered: resets, requests and shutdown end |
| `virtio_device` | 1 queue, views, 2 rings, 1 reset, 2 requests | 27,184 | DeviceSound: kicks one at a time, no notification or interrupt lost, nothing in flight after reset or close; DeviceProgress: all waits end |
| `lanes` | 4 exchanges, 2 lanes; 1 vsock connection, counters modulo 3, 1 receive buffer, 3 bytes either way, 1 reset | 103,652 | PoolSound: lanes counted, serial, not leaked; IsLanePool; PoolSettles: waiters served, death closes all; ConnectionProgress: credit comes back, half-open connections end |
| `process_lanes` | 2 processes, 1 slot, 3 lanes, no output pipes | 37,197 | AttachedTrafficBounded; StdinClosedQuiet; ProcessesServed: close() finishes, a parked exec runs |
| `agent_processes` | 3 lanes, 2 slots, 3 pids | 75,521 | TableTrue: no exit lost, own status, never refused; ExitsReported: zombies collected, reaps answered |
| `tcp_flow` | 1 connection, window and guest's room of 1 byte, 1 byte to or from the guest, the NIC behind once | 164,615 | FlowSettles: connects, writes and closes end, nothing half open; ReadsServed |
| `machine` | 2 plugins, 2 workers; 3 programs on a stack of 4; 3 units of input; 3 requests of 2 pieces | 145,150 | NothingLeft, Closes, ForkAnswered; StackSound; PumpSound; FlushCovers |
| `guest_services` | the instances in `MCGuest.tla` and `MCGuest.cfg` | 1,430,671 | FramesInOrder, SenderHeldByReceiver; ReassembledWhole, NothingOfTheGone; TableSound, NothingKept; StreamsReceived; ConnectionSound; StartsClean, OneSession; FilesOwned, WholeOrFailed, MkdirsMeet; ResponseWhole, FetchReleases; OneAnswer |
| `process_detached` | 3 processes, 1 slot, 8 lanes | — | violation: section 6 |
| `tcp_reset` | 1 byte, the NIC behind once | — | violation: section 6 |
| `session_descendants` | 1 session, 2 processes | — | violation: section 6 |

Many of these properties are conjunctions of named parts, one comment each, in the
module they belong to.

Why the bounds are enough to be interesting:

- Three descriptors give chains of length 1, 2 and 3, chains that cross the end of
  the ring, completions out of order, a full ring and any number of laps: nothing
  bounds the run except the one replacement, and the driver goes on for ever after
  it, so the run has no deadlock.
- A completion can be misplaced only if it was taken from one ring and arrives when
  another is in place: two rings. Two resets make one outstanding while another is
  acknowledged. For the properties of section 5 the theorems remove the bounds.
- Two requests in VirtioDevice are one that a kick takes and one that arrives while
  the kick is settling. Queues are independent of each other except in what reset
  and shutdown wait for, and one queue with two rings has tasks of both kinds there.
- For ConnectionSound, in `guest_services`, the host's room is three bytes, so that a
  partial read can give bytes back in front of a later chunk; four bytes each way
  make counters modulo 4 wrap; one receive buffer makes packets
  wait. `lanes` has counters modulo 3 and three bytes, which wrap too, for its
  liveness. Programs write in one direction in each behaviour, chosen in `Init`:
  credit that travels on data of the other direction is outside the instance, though
  not outside the model. Connections share only `pending` and the posted buffers, so
  one is checked.
- In `tcp_flow` a window of one is closed by the guest's byte, and must open again for
  its FIN; the guest's room of one is used up by a byte. A NIC that is behind once can
  hold any number of frames, in front of which the host closes, times out, resets and
  answers. For StreamsReceived, in `guest_services`, any one frame may be lost as well,
  and the host writes two bytes; there a guest closes of its own accord only if it has
  written.
- Four exchanges and two lanes give two waiters behind a full pool, so that the
  order of service matters.
- `process_lanes` shrinks the ratio of the code (four lanes per process, half of
  the lanes) to two per process and one spare: a process with no outputs has a reap
  and a write that can be stuck, two lanes, and one lane remains. For
  AttachedTrafficBounded and StdinClosedQuiet the theorems remove the bounds, output
  pipes included.
- Three pids are a child, a second child and an orphan or a slot used again.
- Two plugins give a first that has its device when the second fails; two workers a
  parent that waits for a child. Three programs are the one a worker starts with and
  two execs; four frames are a program, a call, a handler and a handler in its call.
- Three requests are a write, a flush and a write behind it, each in two pieces.
- Three NICs tell a flood from a unicast, two with three frames let one wait behind
  another; one address roams.
- A directory and a file with three node ids let a record be collected with its
  parent and be looked up again; the second mount has an instance of its own.
- Three units of length with two contents give fragments that repeat, overlap,
  contradict and complete each other in any order, in one reassembly at a time, which a
  second guest's fragment replaces. At most two fragments are kept, so that the limit on
  them is met; the theorem DatagramsAreWhole has any limit and any number of fragments.
  Connections, which reassembly never meets, are in behaviours of their own, with a
  fragment of one kind.
- Two sessions are one that dies and one that follows; two processes are a child and
  one that it forks, before or after it leaves the group, and may leave an orphan.
- Each file operation runs beside a truncate, which opens and closes a number that
  the other may be about to use; two mkdirs of two components meet at both.
- A response of two bytes, in one chunk or two, is cut after every unit, garbled at
  every line and delivered in every division; the upload has one byte.

## 4. Fairness and deadlock

Every fairness condition is weak fairness of a step that a running event loop,
thread or kernel takes by itself:

- RemoteDevice: the worker handles its next message, the main thread handles its
  next message, and a request the backend has started is finished or fails.
  Nothing is assumed of the guest, of the caller of `shutdown`, or of an endpoint
  failing. ResetReleased allows a failed endpoint to leave the guest waiting.
- VirtioDevice: a guest that put requests on a ring notifies (Linux's
  `virtqueue_kick`); kicks, loops, work, resets and the shutdown's awaits proceed.
- Vsock: the event loop and the timers run; Linux refills its receive queue and
  handles packets; programs read what they are sent, and the guest's closes a socket
  it has read to the end. Nobody need write, connect or close.
- TcpFlow: the event loop and the timers run; the guest's driver posts receive
  buffers; Linux handles frames, sends what the window allows and repeats what is
  not acknowledged; both sides read. Nobody need connect, write, close or abort.
  A read ends only if the guest writes or closes, so ReadsServed is about bytes the
  guest has written. ReadsServed and the half-open part of FlowSettles except
  behaviours in which a frame was lost or sent with a number already used: see
  section 6.
- Machine: the event loop runs and with it the boot, whose plugins' hooks end; devices
  end their shutdown; a worker that was created starts. Nothing is assumed of the
  kernel in a worker or of the caller of `close()`: Closes is about machines that have
  begun to end.
- GuestSession: opening a lane succeeds or fails; an exchange on a lane ends or
  throws. That is an assumption on the guest: the code has no timeout there.
- ChildProcess: calls the guest can answer are answered, and the host's event loop
  runs. A child need not read, write or exit; the property ParkedRuns says itself
  that it assumes children to exit.
- AgentProcesses: the threads are scheduled. Children need not exit.

Where components share a run, the fairness of each is assumed only of behaviours of
that component (`[]<>(focus = ...) => ...`), so no behaviour of another is excluded.

Deadlock checking is off where the system may stop: the guest can be idle, a
session dead, every process closed, or the bound on new pids reached. It is on in
`virtio_queue`.

WaiterServed has a condition: `#acquire` gives the place of a lane that fails to open
back but wakes no waiter, so an exchange that waits while all lanes are being opened, all
of which fail, stays parked. It does so until another exchange releases a lane or the
session dies; WaiterServed says that, after a failure too, a waiter is served as long as
exchanges go on running.

## 5. What is proved

Each theorem is about one component, for every value of its constants that the
assumptions of its module allow: any size of ring, any number of queues, lanes, plugins,
workers, pids, processes, requests, NICs, sessions, calls or guests, and whatever the
bounds. The assumptions say that sizes are naturals (where the code needs one, not
zero), that sets of lanes, exchanges, processes and outputs are finite, that the mixes
of file operations are mixes of operations the client has, and that the body of
GuestFetch's response has a byte, since one of its encodings splits it.
No module has an assumption about particular values; that an agent whose table is at
least as large as the host's cap never refuses has that condition in the property.

| Module | Theorem | States |
|---|---|---|
| VirtioQueueProofs | `QueueTyped`, `RingIsConsistent`, `QueueIsRequestQueue` | `TypeOK`, `RingConsistent`, the refinement `IsRequestQueue` |
| RemoteDeviceProofs | `TypeCorrect`, `OwnCompletions`, `RemoteQuiet` | `TypeOK`, `OwnCompletionsOnly`, `NothingInFlight` |
| VirtioDeviceProofs | `DeviceTyped`, `DeviceIsSound` | `TypeOK`, `DeviceSound` |
| GuestSessionProofs | `SessionTyped`, `SessionPoolSound`, `SessionIsLanePool` | `TypeOK`, `PoolSound`, the refinement `IsLanePool` |
| AgentProcessesProofs | `TableTyped`, `TableIsTrue` | `TypeOK`, `TableTrue` |
| MachineProofs | `MachineTyped`, `MachineLeavesNothing` | `TypeOK`, `NothingLeft` |
| MachineProofs | `WorkerStackIsSound`, `InputPumpIsSound`, `FlushCoversWrites` | `StackSound`, `PumpSound`, `FlushCovers` of the instances in MCMachine |
| ChildProcessProofs | `ProcessesTyped`, `AttachedTrafficIsBounded`, `StdinClosedIsQuiet` | `TypeOK`, `AttachedTrafficBounded`, `StdinClosedQuiet` |
| GuestServicesProofs | `SwitchKeepsOrder`, `SendersAreHeld` | `FramesInOrder`, `SenderHeldByReceiver` |
| | `ClientHasOneSession`, `SessionsStartClean` | `OneSession`, `StartsClean` |
| | `CallsOwnTheirFiles`, `DataIsWhole`, `MkdirsSucceed` | `FilesOwned`, `WholeOrFailed`, `MkdirsMeet` |
| | `FetchLetsGo`, `ResponsesAreWhole`, `ExchangeAnswersOnce` | `FetchReleases`, `ResponseWhole`, `OneAnswer` |
| | `DatagramsAreWhole`, `GoneLeaveNothing` | `ReassembledWhole`, `NothingOfTheGone` |

All rest on an inductive invariant: it holds at first, every action keeps it, and it
implies the property; the two refinements show under it that each step is one of the
abstract specification, or a stuttering step. The invariants are stated at the head of each proof
module in named parts; one lemma takes each action, or a group of them, through it.

**VirtioQueue.** RingInv, which RingConsistent asserts of a valid queue, describes the
ring by what a reader of it can tell, the heads it meets. It does not connect those
with the history, so it cannot say which chain `#pop` returns next or which the driver
collects, and the refinement needs that. `QueueInv` describes the same ring from its
history. All is counted in descriptors from the driver's used cursor: the device's used
cursor is *u* on, its avail cursor *p*, the driver's *a* (`Cursors`). There are positions
*dp* at which the chains of `done` start, one behind the other from 0 to *u*, and
positions *qp* for the chains of `queued`, from *p* less what `#pop` has already walked
of the first one up to *a*; each lies as many descriptors before the next as the driver
took ids for it (`Layout`). At these positions, and at no other below *u*, is a used
element, with that chain's id (`DoneChains`); the descriptors from *p* on have their
chain's id and NEXT on all but its last (`QueuedChains`). An AVAIL bit agrees with the
lap's wrap counter exactly below *a* and in the body of a staged chain (`Flags`). The
descriptors between *u* and *p* are as many as those of the chains held and of the one
being walked (`HeldCount`), though no longer in any order, since chains are released in
any order over each other's descriptors: that count is why `#release` never finds the
ring full, and why it never overwrites a descriptor the device has yet to read. A
collect moves the origin, hence all positions, and what was before it becomes the other
lap's (`ViewMoves`). The lemmas on `Step` and `Wrap` are the only ones that look at the
index arithmetic.

**RemoteDevice, OwnCompletions.** OwnCompletionsOnly is not inductive: it says nothing
of the completions still in the port, of the worker's queues, or of the `enable`
messages that will become queues. `EpochInv` adds these. Say that ring *r fits* epoch
*e* of queue *q* if *e* is not in the future and, when it is the present epoch of an
enabled queue, *r* is the ring in place. EpochInv says that a ring fits the epoch it
travels with, in an `enable`, in the worker, and in a `complete`. Since each enable,
disable and reset raises the epoch, fitting is preserved by whatever the main thread
does (`FitsKept`): an old epoch never becomes the present one again. The main thread
writes a completion only if its epoch is the present one of an enabled queue, so its
ring is the ring in place. Epochs are natural numbers here; the code's are 32 bits
wide, so the theorem is about runs in which no message is delayed across 2^32 changes
of a queue.

**RemoteDevice, RemoteQuiet.** A `reset_done` carries no number: the main thread takes
it for its oldest reset, though the worker may settle resets in another order.
`FlightInv` has the count that makes this right. Of the *h* resets the worker has
handled, those not draining are as many as the acknowledgements sent (`Settled`), so
by pigeonhole (`SomeSettled`) one of them is at least as late as the one the main
thread now releases; and a settled reset left nothing in flight on any ring before it
(`WorkAfter`). The order of `enable` and `reset` in the port (`PortAfter`) keeps a
queue set up after a reset from being counted before it.

**VirtioDevice.** `DeviceInv` says that while `notifying` is set a queue has exactly
one drain loop, in a kick or between two (`OneLoop`), which is what a notification
that only sets `pending` relies on; that rings are numbered in the order they were set
up and a reset separates those before it from those after it (`RingsOrdered`); and
that whatever touches a ring from before a reset is among what the reset waits for
(`ResetWaits`).

**GuestSession.** `PoolInv` adds to PoolSound that whoever is in the queue is waiting,
and once, and that a dead session has neither idle lanes nor waiters. The refinement
maps the exchanges between `#acquire` and `#release` to `busy`. The proof attempt found
an error of the abstract specification: LanePool's `End` took the broken exchange out
of `busy` always, but a session can also be ended by its own supervision while every
exchange is busy and none is broken. `End` now ends with one broken exchange or none.

**AgentProcesses.** `TableInv`: a claimed slot belongs to its lane until the pid is in
it, and a pid to one lane or the host (`SlotsOwned`, `PidsOwned`); between
`posix_spawn` and the publication the spawning lane is alone in the critical section,
and a child that has exited meanwhile is a zombie or in the reaper's hand, not lost
(`TableKnows`); and the host's count is the used slots and the spawns that have yet to
claim one (`HostCounts`), from which a spawn finds a free slot.

**Machine.** `MachineInv` relates how far `finish()` has come to what the devices and
workers can be doing, and says of the messages under way that each worker asked for
has one `spawn_worker` in one port (`SpawnsOnce`) and that an exit comes only from a
worker that has ended (`MailSound`), so that no late message starts or forgets one.

**BlockDevice.** `FlushInv`: a flush's copy of `#writes` misses only writes that have
ended, since requests start in ring order and register before their first await; once
that copy has settled, no write before the flush moves another piece.

**Console.** `PumpInv` adds to PumpSound that the pump asks the stream for a chunk only
with none in its hand, so that what is read is delivered or in the hand, in order.

**UserProgram.** `StackInv`: the frames that run are all of the program that is
instantiated (`FramesCurrent`), a program is compiled only inside a call
(`CompiledInCall`), and the first frame is that of `call()` (`EntryFirst`). The slot of
a siginfo frame is how many such frames there are up to it, so a throw that unwinds
frames takes exactly their slots.

**ChildProcess.** `Inv`: slots are counted, and a child that lives has one
(`SlotsCounted`); a call is served or waits, once, and the lanes out are never more than
there are (`LanesHold`, `WritesKnown`); a stdin that is closing has neither a write
under way nor a pump that could make one, and whatever closes it, `close()`, an abort,
a failed write, has stopped its writers first (`StdinQuiet`). The bound of
AttachedTrafficBounded is an injection of the stuck calls into slots times the ways of a
process to be stuck: its reap, its write and a read of each output.

**EthernetSwitch.** `SwitchInv`: what a NIC got and what it waits for are one ascending
sequence of transmit numbers, none its own (`FramesOrdered`); frames wait only where no
buffer is (`QueuesFlushed`), else a later frame would overtake them; and a sender's
number is in the queue of a NIC that still runs (`WaitsHeld`), which is why every path
that takes a frame out of a queue, or a NIC out of the switch, settles its sender.

**AgentSession.** OneSession is inductive but for types (`ClientInv`). `AgentInv`: where
PID 1 is tells where the session's process is (`WorkerFollows`); whoever runs in a group
is of the session served, and whoever is killed or a zombie in one is of that session
too, or of one that a process has escaped from (`GroupServed`). That `waitpid(-worker)`
returns ECHILD says only that PID 1 has no child in the group; what is left of it then
has a living parent, and so on upwards. Parents are of the same session (`ParentsKnown`)
and nobody descends from itself (`NoCycle`), so that chain ends in a process that is not
in the group: somebody has escaped (`LeftByEscaped`).

**GuestFiles.** `FilesInv` says whose every number is: the table holds exactly what the
calls hold, but for the two moments at which guest and host disagree, a close executed
whose answer is under way and an open the host does not know of yet (`TableOwned`); and
what each call knows at each await: which file its system call means (`Asks`), that its
data is at the source, in its hand or moved (`DataKept`), that the prefixes a mkdir has
passed are directories (`PathMade`). Calls touch each other only through the table and
the tree, and the tree only grows.

**GuestFetch.** `FetchInv` adds to FetchReleases that the connection goes already where
the handler throws, that a body exists just where the server has answered, and that the
upload is cancelled also while one of its writes is under way. For ResponseWhole,
`WireInv(w)` holds of some response w as the server means it, a head and then the body's
bytes, or chunks that each begin where the one before ended: what is sent is w, cut off
or with one line garbled (`SentOf`), what has arrived and is not buffered has been parsed
(`BufferGood`), and the stage of the body and the count of bytes given tell the parser's
place on w (`Place`). So the parser meets a size of zero, which ends the body, only when
all bytes are given, and where a whole response has arrived it never starves: the unit
it would wait for is one that w has.

**HostFetch.** `AnswerInv` says what each await of `exchange` leaves possible; above
all, `final_output_started` is set wherever an answer is on its way, which the outer
`catch` relies on.

**GatewayIp.** `ReassemblyInv`: the fragments of a datagram in progress are in order and
apart and not complete, the order of the Map's keys is an order (`MapGood`), and what
was handed on just now was whole. Since fragments are kept in order and apart, adjacent
ones that touch leave no gap, and the code's comparison of neighbours is as good as
`Whole`, which looks at every unit. `GoneInv`: a guest whose device runs is attached,
and what there is of a guest, the network is still attached to.

Definitions that were changed so that they can be reasoned about, without changing what
TLC checks: `Fresh` of VirtioDevice and `NewLane` of GuestSession name an unused number,
no longer the smallest; UserProgram counts slots and GuestFetch the bytes sent by Cardinality; GatewayIp's Map is a
function with `older`, where it was a sequence that a fold rebuilt. Two proof attempts
found a CASE whose guards overlapped, in `Written` of GuestFiles and in `reassemble_ip`:
TLA+ leaves open which arm such a CASE takes, the code does not, and TLC took the code's
by accident. Both are now nested conditions in the code's order.

Only model-checked:

- every liveness property, and with it ENABLED and fairness, which the prover does not
  handle;
- TableSound and NothingKept of FileSystemDevice: a forget that collects cascades to the
  parents by a recursive function, and the counts are folds over records; what these
  compute for every input needs induction over data, which is out of the prover's reach;
- ConnectionSound of Vsock: the packets of a connection are selected from the queues by a
  recursive library operator, and credits are differences of counters modulo 2^32;
- StreamsReceived of TcpFlow, whose inductive invariant has to relate the sequence
  numbers of both sides to frames held, repeated and lost, and has not been attempted.

## 6. Where code and comments disagree

- `process_detached`: `client.ts` reasons that process traffic takes at most four
  lanes per process, hence half the pool. A slot is released by the reap, but reads
  of pipes that a detached descendant keeps open go on holding lanes, so processes
  that are already reaped can fill the rest of the pool.
  AttachedTrafficBounded is the same bound without such descendants, and holds.
- `tcp_reset`: `TcpConnection.close()` "Resets and closes the connection". The
  sequence number of a flow moves when a send returns, and a send returns when the
  guest's NIC has taken the frame. A `close()` in between sends a reset with the
  number of the frame that is still waiting; the guest gets that frame first and
  drops the reset as old. The host's flow is gone, so the guest's end stays open
  until it sends something and gives up. FlowSettles says the same without
  such frames, and holds.

- `session_descendants`: `distro/guest-agent/protocol.md` (lines 25-28 and 106-108) says
  that PID 1 kills and reaps every descendant of a session before it accepts another.
  `kill(-worker)` reaches the process group of the session only, and `waitpid(-worker)`
  those of it that are PID 1's children. A descendant that has called `setsid` or
  `setpgid` lives on into the next session; what it forked before it left the group is
  killed, but is its child, so that PID 1 may be back in `accept()` before that is dead
  or reaped. StartsClean says what does hold of the group: none of it runs, and all of it
  is reaped if nobody has escaped.

Seen while modelling, without a run:

- A SIGCHLD of `/init` that arrives at PID 1 outside `accept4` and the wait for the
  worker interrupts nothing, and nobody asks for `/init` until another signal does: the
  machine stays on.
- `GuestClient.#session` stays on a session that has died, and the readiness loop then
  fails until its deadline though the agent would accept another session.
- `fs.ts`: if the attributes of a new entry cannot be had after LOOKUP or CREATE, the
  lookup, and CREATE's backend handle, are counted though Linux never hears of them. A
  release that throws is repeated by `finalize`. `finalize` is memoized, so handles of a
  second mount are never released, and the counts of the first mount stay. NothingKept
  excepts these and says so.
- `allocate_port` of `network.ts` tries one port fewer than there are.
- `openat` without `O_CLOEXEC` in `client.ts`: a process spawned meanwhile inherits the
  file. `copyFile` compares device and inode before it opens. A `GuestFd.close()` that
  finds no lane leaves the file open in the agent (`lost` in GuestFiles).
- `guest-fetch-handler.ts`: if the upload fails when the head has been received but not
  yet parsed, the connection is closed under a response that is then returned
  (`handler.alive` in GuestFetch). If the handler throws before the upload has its
  reader and the write of the head still succeeds, it waits for a request body that
  may stall.

- The doc comment of `ChildProcess.close()` says that it waits for the process to be
  reaped. `#close_all` waits for the kill, the stdin write and the closing of the
  pipes only; the reap goes on in the background.
- A handler's first write or read on a flow that was closed before never settles:
  `activate` makes a waiter that only `close_tcp_flow`, which has run, would reject.
- A window update sent while a data frame is held has that frame's sequence number;
  the guest ignores its window, and a probe of a zero window carries no data, so
  that `process_tcp` does not answer it. A reader can then wait for good.
- A handler that returns while its write is under way has `send_tcp_fin` start with
  the sequence number of the data. TcpFlow's handlers await their calls, as `pipeTo`
  does.
- Two reads at once on a session's stream: `enqueue` calls `pull` for the second
  before `receive_demand` is cleared for the first, and the demand is lost.
  TcpFlow has one reader.

## 7. What is not modelled

- Contents: bytes, lengths and encodings of messages, device config layouts, FUSE
  payloads, HTTP fields, device trees, Wasm sections. They are pure conversions without concurrency.
- Reuse of process ids by the guest kernel, and of fd numbers in ChildProcess
  (GuestFiles has it).
- A recursive `remove`, which makes the calls of GuestFiles (`readDir`, `remove`) one
  after another and holds nothing over them.
- In the gateway, guests that send with another guest's address: a reassembly's key has
  the address of the packet, which GatewayIp takes for its sender's.
- The 2^32 wrap of epochs.
- Reuse of a vsock port: `#allocate_port` comes round after 16384 connects, and a
  port is a connection's identity in Vsock. Several readers of one connection:
  `conn.ts` has one.
- In the network: ARP, DNS and ICMP, which answer a frame and keep nothing. A flow's
  port is not used again in TcpFlow, and sequence numbers, which the code only adds to
  and compares for equality, do not wrap.
- The entropy device, the adapters of `node.ts` and `browser.ts` to external file
  systems, and the handshake and config messages of `remote.ts`.
- In ChildProcess, death of the session and failure to open a lane: GuestSession
  has them, the composition is planned.
- Demonstration sites, the command-line runner, the build recipes, and third-party
  packages and patches under `distro/`.

## 8. Plan

Done: VirtioQueue with RequestQueue; RemoteDevice; VirtioDevice; GuestSession with
LanePool; ChildProcess; AgentProcesses; Vsock; TcpFlow; Machine, UserProgram, Console
and BlockDevice; EthernetSwitch, FileSystemDevice, GatewayIp, AgentSession, GuestFiles,
GuestFetch and HostFetch; the proofs of section 5.

Next, in this order:

1. A byte stream as the abstract specification that Vsock and TcpFlow both implement,
   and the proofs of it.
2. The composition of GuestSession's failures with ChildProcess.
