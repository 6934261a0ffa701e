---------------------------- MODULE VirtioQueue ----------------------------
(***************************************************************************)
(* The packed virtqueue of packages/kernel/src/virtio/queue.ts: one ring   *)
(* of descriptors in guest memory, written by the guest's driver and by    *)
(* the device, with no lock between them.  A side knows that a descriptor  *)
(* is for it only by comparing the descriptor's AVAIL and USED bits with   *)
(* its own wrap counter.                                                   *)
(*                                                                         *)
(* The driver is Linux's (external to the repository): it takes free ids,  *)
(* writes a chain's descriptors and makes the head visible last.  The      *)
(* device is PackedVirtqueue: it walks one chain descriptor by descriptor  *)
(* (`#pop'), holds as many chains as it likes, and releases them in any    *)
(* order (`#release').  A queue is revoked (is_current turns false) while  *)
(* the device is in the middle of either, then invalidated, and the driver *)
(* sets up a new generation of the queue over a zeroed ring.               *)
(*                                                                         *)
(* An indirect chain occupies one descriptor of the ring: it is a chain of *)
(* length one here.  Buffer contents and lengths are left out.             *)
(* A definition marked `fault' is a slip this code could have had; it is   *)
(* used by no action, and shows which property would notice it.            *)
(***************************************************************************)
EXTENDS Integers, FiniteSets, Sequences

CONSTANTS
  Size,            (* descriptors in the ring                               *)
  MaxGenerations   (* bound: how many times the queue may be replaced       *)

ASSUME SizeAssumption == Size \in Nat \ {0}
ASSUME GenerationsAssumption == MaxGenerations \in Nat

Slots == 0 .. Size - 1
Ids == 0 .. Size - 1
None == -1

Descriptor == [avail: BOOLEAN, used: BOOLEAN, next: BOOLEAN, id: Ids]
ZeroDescriptor == [avail |-> FALSE, used |-> FALSE, next |-> FALSE, id |-> 0]

VARIABLES
  ring,            (* [Slots -> Descriptor], guest memory                   *)
  \* the driver
  next_avail_idx, avail_wrap_counter,
  last_used_idx, used_wrap_counter,
  owned,           (* id -> the ids its chain took from the free list       *)
  staged,          (* the chain being written, its head not yet visible     *)
  \* the PackedVirtqueue of the current generation
  avail_idx, avail_wrap, used_idx, used_wrap,
  valid, is_current,
  popping,         (* the chain #pop is walking                             *)
  generation,
  held,            (* the chains the device has and has not released        *)
  errors,          (* the Error()s thrown                                   *)
  \* history: submitted and not popped, released and not collected
  queued, done

driverVars == <<next_avail_idx, avail_wrap_counter, last_used_idx,
                used_wrap_counter, owned, staged>>
deviceVars == <<avail_idx, avail_wrap, used_idx, used_wrap, popping>>
vars == <<ring, driverVars, deviceVars, valid, is_current, generation, held,
          errors, queued, done>>

NotPopping == [id |-> None, skip |-> 0, more |-> FALSE]

(***************************************************************************)
(* Ring arithmetic: an index moves n descriptors on, and the wrap counter  *)
(* flips when it passes the end.                                           *)
(***************************************************************************)
Step(idx, n) == IF idx + n >= Size THEN idx + n - Size ELSE idx + n
Wrap(idx, wrap, n) == IF idx + n >= Size THEN ~wrap ELSE wrap

(* The flags test of #advance and #release, against one wrap counter.      *)
Available(desc, wrap) == desc.avail # desc.used /\ desc.avail = wrap

Init ==
  /\ ring = [s \in Slots |-> ZeroDescriptor]
  /\ next_avail_idx = 0 /\ avail_wrap_counter = TRUE
  /\ last_used_idx = 0 /\ used_wrap_counter = TRUE
  /\ owned = [i \in Ids |-> {}]
  /\ staged = None
  /\ avail_idx = 0 /\ avail_wrap = TRUE
  /\ used_idx = 0 /\ used_wrap = TRUE
  /\ valid = TRUE /\ is_current = TRUE
  /\ popping = NotPopping
  /\ generation = 0
  /\ held = {}
  /\ errors = {}
  /\ queued = <<>> /\ done = <<>>

-----------------------------------------------------------------------------
(***************************************************************************)
(* The driver.                                                             *)
(***************************************************************************)
FreeIds == Ids \ UNION {owned[i] : i \in Ids}

Made(wrap, more, i) == [avail |-> wrap, used |-> ~wrap, next |-> more, id |-> i]

(* The descriptor a chain of n descriptors with id i puts j places after   *)
(* the driver's cursor.                                                    *)
ChainDescriptor(i, n, j) ==
  Made(Wrap(next_avail_idx, avail_wrap_counter, j), j < n - 1, i)

(* The driver takes ids `mine' for a chain named after one of them and     *)
(* writes every descriptor of it but the head.                             *)
DriverStage(i, mine) ==
  /\ valid /\ staged = None
  /\ i \in mine /\ mine \subseteq FreeIds
  /\ LET n == Cardinality(mine)
         Body == {Step(next_avail_idx, j) : j \in 1 .. n - 1}
         Place(s) == CHOOSE j \in 1 .. n - 1 : Step(next_avail_idx, j) = s
     IN  ring' = [s \in Slots |->
                    IF s \in Body THEN ChainDescriptor(i, n, Place(s)) ELSE ring[s]]
  /\ owned' = [owned EXCEPT ![i] = mine]
  /\ staged' = i
  /\ UNCHANGED <<next_avail_idx, avail_wrap_counter, last_used_idx,
                 used_wrap_counter, deviceVars, valid, is_current, generation,
                 held, errors, queued, done>>

(* Behind a write barrier, the head's flags make the whole chain visible.  *)
DriverPublish ==
  /\ valid /\ staged # None
  /\ LET n == Cardinality(owned[staged])
     IN  /\ ring' = [ring EXCEPT ![next_avail_idx] = ChainDescriptor(staged, n, 0)]
         /\ next_avail_idx' = Step(next_avail_idx, n)
         /\ avail_wrap_counter' = Wrap(next_avail_idx, avail_wrap_counter, n)
  /\ queued' = Append(queued, staged)
  /\ staged' = None
  /\ UNCHANGED <<last_used_idx, used_wrap_counter, owned, deviceVars, valid,
                 is_current, generation, held, errors, done>>

(* The driver takes back the chain its next used element names, and moves  *)
(* on by as many descriptors as that chain had.                            *)
UsedReady ==
  LET desc == ring[last_used_idx]
  IN  desc.avail = desc.used /\ desc.used = used_wrap_counter

DriverCollect ==
  /\ valid /\ UsedReady
  /\ LET i == ring[last_used_idx].id
         n == Cardinality(owned[i])
     IN  /\ errors' = IF owned[i] = {} THEN errors \cup {"id is not a head"} ELSE errors
         /\ last_used_idx' = Step(last_used_idx, n)
         /\ used_wrap_counter' = Wrap(last_used_idx, used_wrap_counter, n)
         /\ owned' = [owned EXCEPT ![i] = {}]
  /\ done' = IF done = <<>> THEN done ELSE Tail(done)
  /\ UNCHANGED <<ring, next_avail_idx, avail_wrap_counter, staged, deviceVars,
                 valid, is_current, generation, held, queued>>

-----------------------------------------------------------------------------
(***************************************************************************)
(* The device.  #advance reads the flags at avail_idx and moves on.        *)
(***************************************************************************)
CanAdvance == Available(ring[avail_idx], avail_wrap)

Advance ==
  /\ avail_idx' = IF CanAdvance THEN Step(avail_idx, 1) ELSE avail_idx
  /\ avail_wrap' = IF CanAdvance THEN Wrap(avail_idx, avail_wrap, 1) ELSE avail_wrap

(* The iterator asks for a chain, and #pop reads its first descriptor.     *)
PopHead ==
  /\ valid /\ is_current
  /\ popping = NotPopping
  /\ CanAdvance
  /\ Advance
  /\ popping' = [id |-> ring[avail_idx].id, skip |-> 1, more |-> ring[avail_idx].next]
  /\ UNCHANGED <<ring, driverVars, used_idx, used_wrap, valid, is_current,
                 generation, held, errors, queued, done>>

(* #pop follows NEXT to one more descriptor, or throws.                    *)
PopNext ==
  /\ popping.more
  /\ Advance
  /\ errors' = IF CanAdvance THEN errors
               ELSE errors \cup {"no next descriptor is available"}
  /\ popping' = IF CanAdvance
                THEN [popping EXCEPT !.skip = @ + 1, !.more = ring[avail_idx].next]
                ELSE NotPopping
  /\ UNCHANGED <<ring, driverVars, used_idx, used_wrap, valid, is_current,
                 generation, held, queued, done>>

(* The chain is complete: the device gets it, unless the queue was revoked *)
(* while it was being read.                                                *)
PopReturn ==
  /\ popping # NotPopping /\ ~popping.more
  /\ held' = IF is_current
             THEN held \cup {[id |-> popping.id, skip |-> popping.skip,
                              gen |-> generation]}
             ELSE held
  /\ queued' = IF queued = <<>> THEN queued ELSE Tail(queued)
  /\ popping' = NotPopping
  /\ UNCHANGED <<ring, driverVars, avail_idx, avail_wrap, used_idx, used_wrap,
                 valid, is_current, generation, errors, done>>

(* #release does nothing for a chain of an invalidated or revoked queue.   *)
StaleIfInvalid(c) == c.gen # generation \/ ~valid   \* fault: is_current is ignored
Stale(c) == c.gen # generation \/ ~valid \/ ~is_current

ReleaseStale(c) ==
  /\ c \in held /\ Stale(c)
  /\ held' = held \ {c}
  /\ UNCHANGED <<ring, driverVars, deviceVars, valid, is_current, generation,
                 errors, queued, done>>

(* #release writes the used element at used_idx, whose flags both take the *)
(* used wrap counter, and skips as many descriptors as the chain had.  The *)
(* descriptor it overwrites must still be one the driver made available.   *)
CanRelease == Available(ring[used_idx], used_wrap)

UsedElementFirstLap(wrap, i) ==   \* fault: both flags always set
  [avail |-> TRUE, used |-> TRUE, next |-> FALSE, id |-> i]
UsedElement(wrap, i) == [avail |-> wrap, used |-> wrap, next |-> FALSE, id |-> i]

Release(c) ==
  /\ c \in held /\ ~Stale(c)
  /\ held' = held \ {c}
  /\ errors' = IF CanRelease THEN errors ELSE errors \cup {"ring full"}
  /\ ring' = IF CanRelease
             THEN [ring EXCEPT ![used_idx] = UsedElement(used_wrap, c.id)] ELSE ring
  /\ used_idx' = IF CanRelease THEN Step(used_idx, c.skip) ELSE used_idx
  /\ used_wrap' = IF CanRelease THEN Wrap(used_idx, used_wrap, c.skip) ELSE used_wrap
  /\ done' = IF CanRelease THEN Append(done, c.id) ELSE done
  /\ UNCHANGED <<driverVars, avail_idx, avail_wrap, popping, valid, is_current,
                 generation, queued>>

-----------------------------------------------------------------------------
(***************************************************************************)
(* Replacing the queue.  The device side may be anywhere when is_current   *)
(* turns false; it runs invalidate() between two of its own synchronous    *)
(* steps, and the guest, asleep in reset, sets up the next queue after it. *)
(***************************************************************************)
Revoke ==
  /\ is_current /\ generation < MaxGenerations
  /\ is_current' = FALSE
  /\ UNCHANGED <<ring, driverVars, deviceVars, valid, generation, held, errors,
                 queued, done>>

Invalidate ==
  /\ valid /\ ~is_current /\ popping = NotPopping
  /\ valid' = FALSE
  /\ UNCHANGED <<ring, driverVars, deviceVars, is_current, generation, held,
                 errors, queued, done>>

EnableQueue ==
  /\ ~valid
  /\ ring' = [s \in Slots |-> ZeroDescriptor]
  /\ next_avail_idx' = 0 /\ avail_wrap_counter' = TRUE
  /\ last_used_idx' = 0 /\ used_wrap_counter' = TRUE
  /\ owned' = [i \in Ids |-> {}]
  /\ staged' = None
  /\ avail_idx' = 0 /\ avail_wrap' = TRUE
  /\ used_idx' = 0 /\ used_wrap' = TRUE
  /\ valid' = TRUE /\ is_current' = TRUE
  /\ generation' = generation + 1
  /\ queued' = <<>> /\ done' = <<>>
  /\ UNCHANGED <<popping, held, errors>>

Next ==
  \/ \E mine \in SUBSET Ids : \E i \in mine : DriverStage(i, mine)
  \/ DriverPublish
  \/ DriverCollect
  \/ PopHead
  \/ PopNext
  \/ PopReturn
  \/ \E c \in held : ReleaseStale(c) \/ Release(c)
  \/ Revoke
  \/ Invalidate
  \/ EnableQueue

Spec == Init /\ [][Next]_vars

-----------------------------------------------------------------------------
(***************************************************************************)
(* Type correctness.                                                       *)
(***************************************************************************)
ChainType == [id: Ids, skip: 1 .. Size, gen: Nat]

(* The four cursors stay inside the ring, and #pop never walks a chain     *)
(* longer than the ring.                                                   *)
TypeOK ==
  /\ ring \in [Slots -> Descriptor]
  /\ next_avail_idx \in Slots /\ avail_wrap_counter \in BOOLEAN
  /\ last_used_idx \in Slots /\ used_wrap_counter \in BOOLEAN
  /\ owned \in [Ids -> SUBSET Ids]
  /\ staged \in Ids \cup {None}
  /\ avail_idx \in Slots /\ avail_wrap \in BOOLEAN
  /\ used_idx \in Slots /\ used_wrap \in BOOLEAN
  /\ valid \in BOOLEAN /\ is_current \in BOOLEAN
  /\ popping \in [id: Ids \cup {None}, skip: 0 .. Size, more: BOOLEAN]
  /\ generation \in Nat
  /\ held \in SUBSET ChainType
  /\ queued \in Seq(Ids) /\ done \in Seq(Ids)

(***************************************************************************)
(* Where the four cursors are, counted in descriptors from the driver's    *)
(* used cursor: used elements first, then descriptors the device has read, *)
(* then those it has yet to read, then free ones.                          *)
(***************************************************************************)
Position(idx, wrap) == IF wrap THEN idx ELSE idx + Size
Distance(a, b) == IF b >= a THEN b - a ELSE b - a + 2 * Size

Collected == Position(last_used_idx, used_wrap_counter)
UsedCount == Distance(Collected, Position(used_idx, used_wrap))
PoppedCount == Distance(Collected, Position(avail_idx, avail_wrap))
AvailCount == Distance(Collected, Position(next_avail_idx, avail_wrap_counter))

(* The descriptor d places after the driver's used cursor, and the wrap    *)
(* counter both sides have when they are there.                            *)
At(d) == ring[Step(last_used_idx, d)]
WrapAt(d) == Wrap(last_used_idx, used_wrap_counter, d)

Length(i) == Cardinality(owned[i])
StagedLength == IF staged = None THEN 0 ELSE Length(staged)

CursorsInOrder ==
  /\ UsedCount <= PoppedCount
  /\ PoppedCount <= AvailCount
  /\ AvailCount + StagedLength = Cardinality(UNION {owned[i] : i \in Ids})

(* A descriptor's AVAIL bit agrees with the wrap counter from the used     *)
(* cursor up to the driver's, and on a staged chain's body; USED differs   *)
(* from it from the device's used cursor on.                               *)
FlagsTellTheOwner ==
  \A d \in 0 .. Size - 1 :
    /\ (At(d).avail = WrapAt(d)) <=>
         (d < AvailCount \/ (d > AvailCount /\ d < AvailCount + StagedLength))
    /\ d >= UsedCount /\ At(d).avail = WrapAt(d) => At(d).used # At(d).avail

(* The descriptors a chain with n descriptors left has from d on.          *)
ChainFrom(d, i, n) ==
  \A j \in 0 .. n - 1 : At(d + j).next = (j < n - 1) /\ At(d + j).id = i

IsPendingHead(d) ==
  /\ PoppedCount <= d /\ d < AvailCount
  /\ IF d = PoppedCount THEN ~popping.more ELSE ~At(d - 1).next

PendingChains ==
  /\ \A d \in 0 .. Size - 1 : IsPendingHead(d) =>
       LET i == At(d).id IN
         /\ owned[i] # {} /\ d + Length(i) <= AvailCount
         /\ ChainFrom(d, i, Length(i))
  /\ staged # None =>
       /\ owned[staged] # {}
       /\ \A j \in 1 .. Length(staged) - 1 :
            /\ At(AvailCount + j).next = (j < Length(staged) - 1)
            /\ At(AvailCount + j).id = staged
  /\ popping # NotPopping =>
       LET n == Length(popping.id) - popping.skip IN
         /\ popping.id # None /\ owned[popping.id] # {} /\ popping.skip > 0
         /\ PoppedCount + n <= AvailCount /\ (n > 0 <=> popping.more) /\ n >= 0
         /\ ChainFrom(PoppedCount, popping.id, n)

IsUsedHead(d) == d < UsedCount /\ At(d).avail = At(d).used

UsedElements ==
  /\ UsedCount > 0 => IsUsedHead(0)
  /\ \A d \in 0 .. Size - 1 : IsUsedHead(d) =>
       LET n == Length(At(d).id) IN
         /\ n > 0 /\ d + n <= UsedCount
         /\ d + n < UsedCount => IsUsedHead(d + n)

HeldChains == {c \in held : c.gen = generation}
HeldIds == {c.id : c \in HeldChains}

(* A chain the device holds has the length the driver gave it, and between *)
(* them these chains account for every descriptor read and not yet used.   *)
HeldAccounted ==
  /\ \A c \in HeldChains : owned[c.id] # {} /\ c.skip = Length(c.id)
  /\ \A c1, c2 \in HeldChains : c1.id = c2.id => c1 = c2
  /\ is_current =>
       PoppedCount - UsedCount
         = popping.skip + Cardinality(UNION {owned[i] : i \in HeldIds})

(* No id is in two places at once.                                         *)
OnePlaceEach ==
  /\ \A i, j \in Ids : i # j => owned[i] \cap owned[j] = {}
  /\ \A d, e \in 0 .. Size - 1 :
       d # e /\ (IsPendingHead(d) \/ IsUsedHead(d)) /\ (IsPendingHead(e) \/ IsUsedHead(e))
         => At(d).id # At(e).id
  /\ \A d \in 0 .. Size - 1 :
       IsPendingHead(d) \/ IsUsedHead(d) =>
         At(d).id \notin HeldIds \cup {staged, popping.id}
  /\ staged \notin HeldIds \cup {popping.id} \/ staged = None
  /\ popping.id \notin HeldIds

(* What the ring of a valid queue is like.                                 *)
RingInv ==
  /\ CursorsInOrder
  /\ FlagsTellTheOwner
  /\ PendingChains
  /\ UsedElements
  /\ HeldAccounted
  /\ OnePlaceEach

(* While its queue is valid, a ring is always consistent: cursors in       *)
(* order, flags that tell the owner, chains whole, every id in one place.  *)
(* So neither side ever meets a ring it cannot make sense of: #release     *)
(* never throws "ring full", #pop never throws "no next descriptor is      *)
(* available" and the driver never gets an id that is no chain of its own. *)
RingConsistent == errors = {} /\ (valid => RingInv)

(***************************************************************************)
(* The ring implements a queue of requests: chains are taken in submission *)
(* order, each is completed at most once and only while the queue is       *)
(* current, and the driver gets exactly the completed ones in order.       *)
(***************************************************************************)
Queue == INSTANCE RequestQueue WITH
  Requests <- Ids,
  live <- is_current,
  outstanding <- {i \in Ids : owned[i] # {} /\ i # staged},
  taken <- HeldIds

(* Every step of driver and device on the ring is a step of the queue of   *)
(* requests, or none.                                                      *)
IsRequestQueue == Queue!Spec
=============================================================================
