-------------------------- MODULE FileSystemDevice --------------------------
(***************************************************************************)
(* The node and handle tables of the virtio-fs device,                     *)
(* packages/kernel/src/virtio/fs.ts.                                       *)
(*                                                                         *)
(* Linux sends requests on one queue, which the device answers one at a    *)
(* time, and forgets on another: they come in at every await of a request. *)
(* A record lives as long as Linux knows its id, a handle is open on it,   *)
(* or another record has it as parent.                                     *)
(*                                                                         *)
(* External: the backend, a tree that answers or throws at each call, and  *)
(* Linux, which uses and forgets only ids it was given and not in a        *)
(* request that is on its way, and at unmount drops them without a word.   *)
(* A malformed request is refused and changes nothing; payloads, flags and *)
(* attributes are left out.                                                *)
(***************************************************************************)
EXTENDS Integers, Sequences, FiniteSets, FiniteSetsExt

CONSTANTS
  Dirs, Files,  (* the backend's nodes, without its root                    *)
  MaxIds,       (* bound: node ids given out                                *)
  MaxHandles,   (* bound: handles opened                                    *)
  MaxKnown,     (* bound: lookups of an id that Linux holds at a time       *)
  MaxBatches,   (* bound: forgets on their way                              *)
  MaxMounts     (* bound: mounts                                            *)

VARIABLES
  records,      (* the Maps `records' and `by_node'                         *)
  next_nodeid,
  handles,      (* the Map `handles'                                        *)
  next_handle,
  request,      (* the request being processed                              *)
  forgets,      (* the high-priority queue                                  *)
  final,        (* finalize_promise, and whether the device was closed      *)
  backend,      (* where each node is; releases of each handle; destroys    *)
  linux,        (* lookups held of each id, open handles, mounts            *)
  failed        (* history: a release threw, or a getattr for a new entry   *)

vars == <<records, next_nodeid, handles, next_handle, request, forgets, final, backend, linux, failed>>
tables == <<records, next_nodeid, handles, next_handle>>

Root == "root"
Nodes == Dirs \cup Files
Ids == 1 .. MaxIds
Fhs == 1 .. MaxHandles

(* A record object outlives its entry in the Maps.                         *)
Unused == [listed |-> FALSE, node |-> "none", parent |-> 1, lookups |-> 0, handles |-> 0, children |-> 0]
Record(node, parent) == [Unused EXCEPT !.listed = TRUE, !.node = node, !.parent = parent]
NoHandle == [node |-> 0, directory |-> FALSE]
Idle == [op |-> "none", stage |-> "idle", node |-> 1, name |-> Root, fh |-> 1, newdir |-> 1, seen |-> {}]

Listed == {i \in Ids : records[i].listed}
IdOf(recs, node) == {i \in Ids : recs[i].listed /\ recs[i].node = node}
Open == {fh \in Fhs : handles[fh] # NoHandle}

Init ==
  /\ records = [i \in Ids |-> IF i = 1 THEN [Record(Root, 1) EXCEPT !.lookups = 1] ELSE Unused]
  /\ next_nodeid = 2
  /\ handles = [fh \in Fhs |-> NoHandle] /\ next_handle = 1
  /\ request = Idle /\ forgets = <<>>
  /\ final = [promise |-> "none", closed |-> FALSE]
  /\ \E place \in [Nodes -> Dirs \cup {Root, "new"}] :
       /\ \A d \in Dirs : place[d] = Root
       /\ backend = [where |-> place, released |-> [fh \in Fhs |-> 0], destroys |-> 0]
  /\ linux = [known |-> [i \in Ids |-> IF i = 1 THEN 1 ELSE 0], open |-> {}, mounts |-> 1, mounted |-> TRUE]
  /\ failed = FALSE

-----------------------------------------------------------------------------
(***************************************************************************)
(* The tables.                                                             *)
(***************************************************************************)
(* record_for_node: the record of a node, made if there is none.           *)
HasRoom(nodes) == next_nodeid + Cardinality({n \in nodes : IdOf(records, n) = {}}) <= MaxIds + 1

record_for_node(t, node, parent) ==
  IF IdOf(t.records, node) # {} THEN [t EXCEPT !.ids = @ \cup IdOf(t.records, node)]
  ELSE [records |-> [t.records EXCEPT ![t.next] = Record(node, parent), ![parent].children = @ + 1],
        next |-> t.next + 1, ids |-> t.ids \cup {t.next}]

(* The records of a set of nodes of one directory.                         *)
RecordsFor(nodes, parent) ==
  FoldSet(LAMBDA n, t : record_for_node(t, n, parent),
          [records |-> records, next |-> next_nodeid, ids |-> {}], nodes)

CollectibleAgain(recs, i) ==   \* fault: also a record that is gone already
  i # 1 /\ recs[i].lookups = 0 /\ recs[i].handles = 0 /\ recs[i].children = 0

Collectible(recs, i) ==
  recs[i].listed /\ i # 1 /\ recs[i].lookups = 0 /\ recs[i].handles = 0 /\ recs[i].children = 0

(* collect_record: a record nobody needs goes, and its parent may follow.  *)
collect_record(recs, i) ==
  LET depth == Cardinality(Dirs) + 1
      chain[k \in 0 .. depth] ==
        IF k = 0 THEN [records |-> recs, at |-> i]
        ELSE LET c == chain[k - 1]  up == c.records[c.at].parent IN
             IF Collectible(c.records, c.at)
             THEN [records |-> [c.records EXCEPT ![c.at].listed = FALSE, ![up].children = @ - 1], at |-> up]
             ELSE [c EXCEPT !.at = 1]
  IN chain[depth].records

CollectAll(recs, ids) == FoldSet(LAMBDA i, r : collect_record(r, i), recs, ids)

forget(recs, i, count) ==
  collect_record([recs EXCEPT ![i].lookups = IF count >= @ THEN 0 ELSE @ - count], i)

add_handle(i, directory) ==
  /\ next_handle \in Fhs
  /\ handles' = [handles EXCEPT ![next_handle] = [node |-> i, directory |-> directory]]
  /\ next_handle' = next_handle + 1

Removed(fh) ==
  collect_record([records EXCEPT ![handles[fh].node].handles = @ - 1], handles[fh].node)

remove_handle(fh) ==
  /\ handles' = [handles EXCEPT ![fh] = NoHandle] /\ records' = Removed(fh)

-----------------------------------------------------------------------------
(***************************************************************************)
(* Linux sends a request, and the device runs it up to its first await:    *)
(* the node and the handle are looked up.                                  *)
(***************************************************************************)
Knows(i) == linux.known[i] > 0
node_record(i) == records[i].listed
handle_record(fh, i) == handles[fh].node = i
IsDir(i) == records[i].node \in Dirs \cup {Root}

Send(r) ==
  /\ request = Idle /\ linux.mounted /\ ~final.closed /\ Knows(r.node)
  /\ request' = IF node_record(r.node) THEN [r EXCEPT !.stage = "backend"] ELSE Idle

SendByName(op, i, n) ==
  /\ Send([Idle EXCEPT !.op = op, !.node = i, !.name = n]) /\ IsDir(i)
  /\ UNCHANGED <<tables, forgets, final, backend, linux, failed>>

SendRename(i, j, n) ==
  /\ Send([Idle EXCEPT !.op = "RENAME", !.node = i, !.name = n, !.newdir = j])
  /\ IsDir(i) /\ IsDir(j) /\ Knows(j) /\ i # j
  /\ UNCHANGED <<tables, forgets, final, backend, linux, failed>>

SendOpen(i) ==
  /\ Send([Idle EXCEPT !.op = "OPEN", !.node = i])
  /\ UNCHANGED <<tables, forgets, final, backend, linux, failed>>

(* A request with a handle; a release is the last of them.                 *)
SendWithHandle(op, i, fh) ==
  /\ fh \in linux.open /\ handle_record(fh, i) /\ (op = "READDIR" => handles[fh].directory)
  /\ Send([Idle EXCEPT !.op = op, !.node = i, !.fh = fh])
  /\ linux' = IF op = "RELEASE" THEN [linux EXCEPT !.open = @ \ {fh}] ELSE linux
  /\ UNCHANGED <<tables, forgets, final, backend, failed>>

(* Linux unmounts.                                                         *)
SendDestroy ==
  /\ linux.open = {}
  /\ Send([Idle EXCEPT !.op = "DESTROY"])
  /\ final' = IF final.promise = "none" THEN [final EXCEPT !.promise = "handles"] ELSE final
  /\ UNCHANGED <<tables, forgets, backend, linux, failed>>

SendForget(S) ==
  /\ S # {} /\ Len(forgets) < MaxBatches /\ linux.mounted /\ ~final.closed
  /\ \A i \in S : i # 1 /\ Knows(i) /\ i \notin {request.node, request.newdir}
                  /\ \A fh \in linux.open : handles[fh].node # i
  /\ forgets' = Append(forgets, [i \in S |-> linux.known[i]])
  /\ linux' = [linux EXCEPT !.known = [i \in Ids |-> IF i \in S THEN 0 ELSE @[i]]]
  /\ UNCHANGED <<tables, request, final, backend, failed>>

Remount ==
  /\ ~linux.mounted /\ linux.mounts < MaxMounts /\ ~final.closed
  /\ linux' = [linux EXCEPT !.mounted = TRUE, !.mounts = @ + 1, !.known[1] = 1]
  /\ UNCHANGED <<tables, request, forgets, final, backend, failed>>

-----------------------------------------------------------------------------
(***************************************************************************)
(* process(), from one await to the next.                                  *)
(***************************************************************************)
At(ops, stage) == request.op \in ops /\ request.stage = stage
Node == records[request.node].node
Answer == request' = Idle

(* The backend throws, and the request is answered with an error.  Bound:  *)
(* one such error leaves something behind.                                 *)
BackendThrows ==
  /\ request.stage \in {"backend", "getattr", "rename"} /\ request.op # "DESTROY"
  /\ records' = CollectAll(records, IF request.op = "READDIR" THEN request.seen ELSE {})
  /\ LET leaves == request.op = "RELEASE" \/ (request.stage = "getattr" /\ request.op # "READDIR") IN
       ~(failed /\ leaves) /\ failed' = (failed \/ leaves)
  /\ Answer
  /\ UNCHANGED <<next_nodeid, handles, next_handle, forgets, final, backend, linux>>

Making == {"MKDIR", "CREATE"}

(* LOOKUP finds a node; MKDIR, SYMLINK and CREATE make one.                *)
FindsEntry ==
  LET n == request.name
      t == RecordsFor({n}, request.node)
  IN
  /\ At({"LOOKUP"} \cup Making, "backend") /\ HasRoom({n})
  /\ backend.where[n] = IF request.op = "LOOKUP" THEN Node ELSE "new"
  /\ request.op # "LOOKUP" => (request.op = "MKDIR") = (n \in Dirs)
  /\ backend' = [backend EXCEPT !.where[n] = Node]
  /\ next_nodeid' = t.next
  /\ records' = [i \in Ids |-> IF i \in t.ids THEN [t.records[i] EXCEPT !.lookups = @ + 1] ELSE t.records[i]]
  /\ request' = [request EXCEPT !.stage = "getattr", !.seen = t.ids]
  /\ UNCHANGED <<handles, next_handle, forgets, final, linux, failed>>

(* The entry is answered, and with CREATE a handle.                        *)
AnswersEntry ==
  /\ At({"LOOKUP"} \cup Making, "getattr")
  /\ \E i \in request.seen :
       /\ linux.known[i] < MaxKnown
       /\ IF request.op = "CREATE"
          THEN /\ add_handle(i, FALSE)
               /\ records' = [records EXCEPT ![i].handles = @ + 1]
               /\ linux' = [linux EXCEPT !.known[i] = @ + 1, !.open = @ \cup {next_handle}]
          ELSE /\ linux' = [linux EXCEPT !.known[i] = @ + 1]
               /\ UNCHANGED <<handles, next_handle, records>>
  /\ Answer
  /\ UNCHANGED <<next_nodeid, forgets, final, backend, failed>>

(* GETATTR, SETATTR, READLINK, READ, WRITE, FLUSH, FSYNC, STATFS, ACCESS:  *)
(* the tables stay as they are.                                            *)
AnswersPlainly ==
  /\ At({"IO"}, "backend")
  /\ Answer
  /\ UNCHANGED <<tables, forgets, final, backend, linux, failed>>

(* UNLINK and RMDIR take a node out of the tree; its record stays.         *)
AnswersUnlink ==
  /\ At({"UNLINK"}, "backend")
  /\ backend.where[request.name] = Node /\ \A n \in Nodes : backend.where[n] # request.name
  /\ backend' = [backend EXCEPT !.where[request.name] = "gone"] /\ Answer
  /\ UNCHANGED <<tables, forgets, final, linux, failed>>

FindsMoved ==
  /\ At({"RENAME"}, "backend") /\ request.name \in Files /\ backend.where[request.name] = Node
  /\ request' = [request EXCEPT !.stage = "rename", !.seen = IdOf(records, request.name)]
  /\ UNCHANGED <<tables, forgets, final, backend, linux, failed>>

(* The record that was found moves along, if it is still listed.           *)
AnswersRename ==
  LET to == request.newdir
      moves == {i \in request.seen : records[i].listed /\ records[i].parent # to}
  IN
  /\ At({"RENAME"}, "rename")
  /\ backend' = [backend EXCEPT !.where[request.name] = records[to].node]
  /\ records' =
       FoldSet(LAMBDA i, r :
                 collect_record([r EXCEPT ![r[i].parent].children = @ - 1, ![to].children = @ + 1,
                                          ![i].parent = to], r[i].parent),
               records, moves)
  /\ Answer
  /\ UNCHANGED <<next_nodeid, handles, next_handle, forgets, final, linux, failed>>

AnswersOpen ==
  /\ At({"OPEN"}, "backend")
  /\ add_handle(request.node, IsDir(request.node))
  /\ records' = [records EXCEPT ![request.node].handles = @ + 1]
  /\ linux' = [linux EXCEPT !.open = @ \cup {next_handle}] /\ Answer
  /\ UNCHANGED <<next_nodeid, forgets, final, backend, failed>>

AnswersRelease ==
  /\ At({"RELEASE"}, "backend")
  /\ remove_handle(request.fh)
  /\ backend' = [backend EXCEPT !.released[request.fh] = @ + 1] /\ Answer
  /\ UNCHANGED <<next_nodeid, next_handle, forgets, final, linux, failed>>

(* READDIR makes records for all entries, and lets go of them at the end.  *)
FindsEntries ==
  LET found == {n \in Nodes : backend.where[n] = Node}
      t == RecordsFor(found, request.node)
  IN
  /\ At({"READDIR"}, "backend") /\ HasRoom(found)
  /\ records' = t.records /\ next_nodeid' = t.next
  /\ request' = [request EXCEPT !.stage = "getattr", !.seen = t.ids]
  /\ UNCHANGED <<handles, next_handle, forgets, final, backend, linux, failed>>

AnswersReaddir ==
  /\ At({"READDIR"}, "getattr")
  /\ records' = CollectAll(records, request.seen) /\ Answer
  /\ UNCHANGED <<next_nodeid, handles, next_handle, forgets, final, backend, linux, failed>>

(* FORGET and BATCH_FORGET.                                                *)
TakesForget ==
  /\ forgets # <<>> /\ ~final.closed
  /\ records' = FoldSet(LAMBDA i, r : IF records[i].listed THEN forget(r, i, Head(forgets)[i]) ELSE r,
                        records, DOMAIN Head(forgets))
  /\ forgets' = Tail(forgets)
  /\ UNCHANGED <<next_nodeid, handles, next_handle, request, final, backend, linux, failed>>

-----------------------------------------------------------------------------
(***************************************************************************)
(* finalize(), for DESTROY and for the device's close().                   *)
(***************************************************************************)
FinalizeHandle(fh, throws) ==
  /\ final.promise = "handles" /\ fh \in Open /\ \A other \in Open : fh <= other
  /\ remove_handle(fh)
  /\ backend' = [backend EXCEPT !.released[fh] = @ + 1]
  /\ failed' = (failed \/ throws)
  /\ UNCHANGED <<next_nodeid, next_handle, request, forgets, final, linux>>

FinalizeDone ==
  /\ final.promise = "handles" /\ Open = {}
  /\ final' = [final EXCEPT !.promise = "settled"]
  /\ backend' = [backend EXCEPT !.destroys = @ + 1]
  /\ UNCHANGED <<tables, request, forgets, linux, failed>>

AnswersDestroy ==
  /\ At({"DESTROY"}, "backend") /\ final.promise = "settled"
  /\ linux' = [linux EXCEPT !.mounted = FALSE, !.known = [i \in Ids |-> 0]] /\ Answer
  /\ UNCHANGED <<tables, forgets, final, backend, failed>>

CloseAgain ==   \* fault: finalize() starts over
  /\ ~final.closed /\ request = Idle
  /\ final' = [closed |-> TRUE, promise |-> "handles"]
  /\ UNCHANGED <<tables, request, forgets, backend, linux, failed>>

(* The device is shut down, behind the request it is working on.           *)
Close ==
  /\ ~final.closed /\ request = Idle
  /\ final' = [closed |-> TRUE, promise |-> IF final.promise = "none" THEN "handles" ELSE final.promise]
  /\ UNCHANGED <<tables, request, forgets, backend, linux, failed>>

-----------------------------------------------------------------------------
Sends ==
  \/ \E i \in Ids, n \in Nodes, op \in {"LOOKUP", "MKDIR", "CREATE", "UNLINK"} : SendByName(op, i, n)
  \/ \E i, j \in Ids, n \in Files : SendRename(i, j, n)
  \/ \E i \in Ids : SendOpen(i) \/ \E fh \in Fhs, op \in {"IO", "RELEASE", "READDIR"} : SendWithHandle(op, i, fh)
  \/ SendDestroy \/ Remount \/ \E S \in SUBSET Ids : SendForget(S)

Processes ==
  \/ FindsEntry \/ AnswersEntry \/ AnswersPlainly \/ AnswersUnlink \/ FindsMoved \/ AnswersRename
  \/ AnswersOpen \/ AnswersRelease \/ FindsEntries \/ AnswersReaddir \/ AnswersDestroy
  \/ BackendThrows \/ TakesForget

Finalizes == FinalizeDone \/ \E fh \in Fhs, throws \in BOOLEAN : FinalizeHandle(fh, throws)

Next == Sends \/ Processes \/ Finalizes \/ Close

Spec == Init /\ [][Next]_vars

-----------------------------------------------------------------------------
(***************************************************************************)
(* Properties.                                                             *)
(***************************************************************************)
OnTheWay(i) ==
  MapThenSumSet(LAMBDA k : IF i \in DOMAIN forgets[k] THEN forgets[k][i] ELSE 0, 1 .. Len(forgets))

(* The tables agree with each other and with Linux whatever forgets come   *)
(* in between: an id Linux holds, or has a handle on, is listed with at    *)
(* least the lookups Linux will give back; the parent of a listed record   *)
(* is listed; the counts of children and handles are exact.                *)
TableSound ==
  /\ linux.mounted /\ linux.mounts = 1 => \A i \in Ids : linux.known[i] + OnTheWay(i) <= records[i].lookups
                                            /\ (Knows(i) => records[i].listed)
  /\ ~final.closed => linux.open \subseteq Open
  /\ \A fh \in Open : records[handles[fh].node].listed
  /\ \A i \in Listed :
       /\ records[records[i].parent].listed
       /\ records[i].children = Cardinality({j \in Listed \ {1} : records[j].parent = i})
       /\ records[i].handles = Cardinality({fh \in Open : handles[fh].node = i})

(* Nothing is kept for longer than it is needed, unless a release threw or *)
(* the attributes of a new entry could not be had: with every id given     *)
(* back and every handle released only the root is listed, a handle is     *)
(* released once, and when finalize() has run all are, and the backend was *)
(* destroyed once.                                                         *)
GivenBack == linux.open = {} /\ forgets = <<>> /\ \A i \in Ids \ {1} : ~Knows(i)
NothingKept ==
  ~failed /\ linux.mounts = 1 =>
    /\ request = Idle /\ linux.mounted /\ GivenBack => Listed = {1} /\ Open = {}
    /\ \A fh \in Fhs : backend.released[fh] <= 1
    /\ final.promise = "settled" =>
         backend.destroys = 1 /\ \A fh \in Fhs : fh < next_handle => backend.released[fh] = 1
=============================================================================
