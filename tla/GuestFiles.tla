----------------------------- MODULE GuestFiles -----------------------------
(***************************************************************************)
(* File operations on the guest: packages/linux-guest/src/client.ts,       *)
(* FsFile of file.ts, GuestFd and the system calls of syscalls.ts, and     *)
(* serve_syscall of distro/guest-agent/agent.c, which executes them.       *)
(*                                                                         *)
(* A call is a sequence of system calls, one at a time, on files it opens  *)
(* and, by `await using', closes in reverse.  Calls go on side by side and *)
(* share the agent's table of open files, in which a number is given out   *)
(* again as soon as it is closed.  An FsFile runs what its user asks for   *)
(* one after the other, and its close behind all of it.                    *)
(*                                                                         *)
(* Files are external: each call that moves data moves Total units of its  *)
(* own.  A request may find no lane, and the session may die.              *)
(***************************************************************************)
EXTENDS Naturals, Sequences, FiniteSets

CONSTANTS
  Calls,      (* calls made side by side                                    *)
  Mixes,      (* the operations they are: functions from Calls              *)
  Fds,        (* numbers of the agent's open files                          *)
  Total,      (* units of data in a file or stream                          *)
  Depth,      (* components of the path of a recursive mkdir                *)
  MaxOps      (* bound: operations of an FsFile that wait                   *)

VARIABLES
  call,       (* each call: its kind, where it is, and what it holds        *)
  req,        (* its system call, if it waits for one                       *)
  ans,        (* the answer, once the guest has executed it                 *)
  table,      (* whose open file a number is                                *)
  tree,       (* what is at each component of the path                      *)
  lost,       (* history: files whose close found no lane                   *)
  dead        (* the session has died                                       *)

vars == <<call, req, ans, table, tree, lost, dead>>

None == <<>>
NoAnswer == [result |-> "none", n |-> 0]
Answer(result, n) == [result |-> result, n |-> n]

(* A system call on the i-th file of the call, 0 for one on a path.        *)
Request(r, op, i) == [op |-> op, own |-> i, fd |-> IF i = 0 THEN 0 ELSE r.fds[i]]
NoRequest == [op |-> "none", own |-> 0, fd |-> 0]

Init ==
  /\ \E kind \in Mixes :
       call = [c \in Calls |->
         [kind |-> kind[c], at |-> "idle", fds |-> <<>>, open |-> 0, error |-> "none",
          aborted |-> FALSE, left |-> Total, hand |-> 0, moved |-> 0, level |-> 1,
          queue |-> 0, closed |-> FALSE]]
  /\ req = [c \in Calls |-> NoRequest] /\ ans = [c \in Calls |-> NoAnswer]
  /\ table = [fd \in Fds |-> None] /\ lost = {} /\ dead = FALSE
  /\ \E first \in {"none", "dir", "file"} :
       /\ first = "none" \/ \E c \in Calls : call[c].kind = "mkdir"
       /\ tree = [l \in 1 .. Depth |-> IF l = 1 THEN first ELSE "none"]

-----------------------------------------------------------------------------
(***************************************************************************)
(* Where a call goes next: its new state and the system call it waits for. *)
(***************************************************************************)
Waits(r, op, i) == [call |-> [r EXCEPT !.at = op], req |-> Request(r, op, i)]
Rests(r, at) == [call |-> [r EXCEPT !.at = at], req |-> NoRequest]

(* The scope of the files ends: they are closed, the last first.           *)
Leave(r, error) ==
  LET f == [r EXCEPT !.error = IF @ = "none" THEN error ELSE @] IN
  IF f.open > 0 THEN Waits(f, "close", f.open)
  ELSE Rests(f, IF f.error = "none" THEN "done" ELSE "failed")

Unless(r, next) == IF r.aborted THEN Leave(r, "abort") ELSE next

Reading(r) == Unless(r, Waits(r, "read", 1))
Writing(r) == Unless(r, Waits(r, "write", IF r.kind = "copyFile" THEN 2 ELSE 1))
Sourcing(r) == Unless(r, Rests(r, "source"))

(* openat has returned a number, which becomes a GuestFd.                  *)
Opened(r, fd) ==
  LET o == [r EXCEPT !.fds = Append(@, fd), !.open = @ + 1] IN
  CASE r.kind \in {"readFile", "readDir"} -> Reading(o)
    [] r.kind = "writeFile" -> Sourcing(o)
    [] r.kind = "realPath" -> Waits(o, "readlink", 1)
    [] r.kind = "truncate" -> Waits(o, "truncate", 1)
    [] r.kind = "open" -> Rests(o, "file")
    [] r.kind = "copyFile" -> IF o.open = 1 THEN Waits(o, "open", 0) ELSE Waits(o, "truncate", 2)

(* write_all: again for the rest of the chunk, which must get shorter.     *)
Written(r, n) ==
  LET w == [r EXCEPT !.hand = @ - n, !.moved = @ + n] IN
  IF n = 0 THEN Leave(r, "errno")
  ELSE IF w.hand > 0 THEN Writing(w)
  ELSE IF r.kind = "copyFile" THEN Reading(w) ELSE Sourcing(w)

Read(r) ==
  LET d == [r EXCEPT !.left = @ - 1] IN
  CASE r.kind = "readFile" -> Reading([d EXCEPT !.moved = @ + 1])
    [] r.kind = "readDir" -> Rests([d EXCEPT !.moved = @ + 1], "yield")
    [] r.kind = "copyFile" -> Writing([d EXCEPT !.hand = 1])

(* The next prefix of a recursive mkdir.                                   *)
Deeper(r) ==
  IF r.level = Depth THEN Leave(r, "none")
  ELSE Waits([r EXCEPT !.level = @ + 1], "mkdir", 0)

ExistsFails(r) == Leave(r, "errno")   \* fault: somebody else made the prefix

Exists(r) == Waits(r, "stat", 0)

Continue(r, op, a) ==
  CASE op = "close" -> Leave([r EXCEPT !.open = @ - 1], IF a.result = "ok" THEN "none" ELSE a.result)
    [] op = "op" -> [call |-> [r EXCEPT !.queue = @ - 1], req |-> NoRequest]
    [] op \notin {"close", "op"} /\ a.result = "EEXIST" -> Exists(r)
    [] op \notin {"close", "op"} /\ a.result \in {"errno", "exception"} -> Leave(r, a.result)
    [] op = "open" /\ a.result = "ok" -> Opened(r, a.n)
    [] op = "read" /\ a.result = "ok" -> IF a.n = 0 THEN Leave(r, "none") ELSE Read(r)
    [] op = "write" /\ a.result = "ok" -> Written(r, a.n)
    [] op = "truncate" /\ a.result = "ok" -> IF r.kind = "copyFile" THEN Reading(r) ELSE Leave(r, "none")
    [] op = "lookup" /\ a.result = "ok" ->
         IF r.level = 1 THEN Waits([r EXCEPT !.level = 2], "lookup", 0) ELSE Waits(r, "open", 0)
    [] op = "path" /\ a.result = "EISDIR" -> Waits(r, "rmdir", 0)
    [] op \in {"readlink", "path", "rmdir"} /\ a.result = "ok" -> Leave(r, "none")
    [] op \in {"mkdir", "stat"} /\ a.result = "ok" -> Deeper(r)

Go(c, next) ==
  /\ call' = [call EXCEPT ![c] = next.call] /\ req' = [req EXCEPT ![c] = next.req]

Free(c) == req[c] = NoRequest

-----------------------------------------------------------------------------
(* copyFile first looks at both files; "path" is an operation that opens   *)
(* none: a stat, a rename, a link, a mount, or a remove, which tries again *)
(* for a directory.                                                        *)
FirstOp(kind) ==
  CASE kind = "copyFile" -> "lookup"
    [] kind \in {"mkdir", "path"} -> kind
    [] OTHER -> "open"

Begin(c) ==
  /\ call[c].at = "idle"
  /\ Go(c, Unless(call[c], Waits(call[c], FirstOp(call[c].kind), 0)))
  /\ UNCHANGED <<ans, table, tree, lost, dead>>

Resume(c) ==
  /\ ans[c] # NoAnswer
  /\ Go(c, Continue(call[c], req[c].op, ans[c])) /\ ans' = [ans EXCEPT ![c] = NoAnswer]
  /\ UNCHANGED <<table, tree, lost, dead>>

(* The caller's signal; while writeFile waits for its stream, it cancels it.*)
Abort(c) ==
  /\ call[c].kind \in {"readFile", "writeFile"} /\ call[c].at \notin {"done", "failed"}
  /\ call' = [call EXCEPT ![c].aborted = TRUE]
  /\ UNCHANGED <<req, ans, table, tree, lost, dead>>

(* writeFile: the stream has a chunk, has ended or was cancelled, or fails. *)
SourceGives(c, n) ==
  /\ call[c].at = "source" /\ n <= call[c].left /\ ~call[c].aborted
  /\ Go(c, Writing([call[c] EXCEPT !.left = @ - n, !.hand = n]))
  /\ UNCHANGED <<ans, table, tree, lost, dead>>

EndsUnchecked(r) == Leave(r, "none")   \* fault: a cancelled stream counts as its end

Ends(r) == Unless(r, Leave(r, "none"))

SourceEnds(c) ==
  /\ call[c].at = "source" /\ (call[c].left = 0 \/ call[c].aborted)
  /\ Go(c, Ends(call[c]))
  /\ UNCHANGED <<ans, table, tree, lost, dead>>

SourceFails(c) ==
  /\ call[c].at = "source"
  /\ Go(c, Leave(call[c], IF call[c].aborted THEN "abort" ELSE "exception"))
  /\ UNCHANGED <<ans, table, tree, lost, dead>>

(* readDir is a generator: its consumer goes on, or leaves the loop.       *)
Yielded(c, more) ==
  /\ call[c].at = "yield"
  /\ Go(c, IF more THEN Reading(call[c]) ELSE Leave(call[c], "none"))
  /\ UNCHANGED <<ans, table, tree, lost, dead>>

(* FsFile: an operation is asked for and waits for the ones before it.     *)
Run(c) ==
  /\ call[c].at = "file" /\ ~call[c].closed /\ call[c].queue < MaxOps
  /\ call' = [call EXCEPT ![c].queue = @ + 1]
  /\ UNCHANGED <<req, ans, table, tree, lost, dead>>

Operate(c) ==
  /\ call[c].queue > 0 /\ Free(c)
  /\ req' = [req EXCEPT ![c] = Request(call[c], "op", 1)]
  /\ UNCHANGED <<call, ans, table, tree, lost, dead>>

(* close(), by the user, the end or the cancel of a stream, any number.    *)
CloseFile(c) ==
  /\ call[c].at = "file" /\ call' = [call EXCEPT ![c].closed = TRUE]
  /\ UNCHANGED <<req, ans, table, tree, lost, dead>>

TailIgnored(r) == TRUE   \* fault: the close overtakes what waits

TailSettled(r) == r.queue = 0

CloseRuns(c) ==
  /\ call[c].at = "file" /\ call[c].closed /\ Free(c) /\ TailSettled(call[c])
  /\ Go(c, Leave(call[c], "none"))
  /\ UNCHANGED <<ans, table, tree, lost, dead>>

-----------------------------------------------------------------------------
(***************************************************************************)
(* The agent executes a system call.                                       *)
(***************************************************************************)
Lowest == CHOOSE fd \in Fds : table[fd] = None /\ \A f \in Fds : f < fd => table[f] # None
Parent(l) == IF l = 1 THEN "dir" ELSE tree[l - 1]
Answers(c, a) == ans' = [ans EXCEPT ![c] = a]

OpenAt(c) ==
  \/ /\ \E fd \in Fds : table[fd] = None
     /\ table' = [table EXCEPT ![Lowest] = <<c, call[c].open + 1>>]
     /\ Answers(c, Answer("ok", Lowest)) /\ UNCHANGED tree
  \/ Answers(c, Answer("errno", 0)) /\ UNCHANGED <<table, tree>>

(* The number is free also when close reports an error.                    *)
CloseFd(c) ==
  /\ table' = [table EXCEPT ![req[c].fd] = None] /\ UNCHANGED tree
  /\ \E result \in {"ok", "errno"} : Answers(c, Answer(result, 0))

MkdirAt(c) ==
  LET l == call[c].level IN
  /\ UNCHANGED table
  /\ IF tree[l] = "none" /\ Parent(l) = "dir"
     THEN tree' = [tree EXCEPT ![l] = "dir"] /\ Answers(c, Answer("ok", 0))
     ELSE Answers(c, Answer(IF tree[l] = "none" THEN "errno" ELSE "EEXIST", 0)) /\ UNCHANGED tree

Results(c) ==
  LET r == call[c] IN
  CASE req[c].op = "read" -> {Answer("ok", IF r.left = 0 THEN 0 ELSE 1), Answer("errno", 0)}
    [] req[c].op = "write" -> {Answer("ok", n) : n \in 0 .. r.hand} \cup {Answer("errno", 0)}
    [] req[c].op = "stat" -> {Answer(IF tree[r.level] = "dir" THEN "ok" ELSE "errno", 0)}
    [] req[c].op = "path" -> {Answer("ok", 0), Answer("EISDIR", 0), Answer("errno", 0)}
    [] OTHER -> {Answer("ok", 0), Answer("errno", 0)}

Pending(c) == ~Free(c) /\ ans[c] = NoAnswer

Execute(c) ==
  /\ Pending(c) /\ ~dead
  /\ CASE req[c].op = "open" -> OpenAt(c)
       [] req[c].op = "close" -> CloseFd(c)
       [] req[c].op = "mkdir" -> MkdirAt(c)
       [] OTHER -> (\E a \in Results(c) : Answers(c, a)) /\ UNCHANGED <<table, tree>>
  /\ UNCHANGED <<call, req, lost, dead>>

(* No lane could be opened for it, or the session is dead.                 *)
Fail(c) ==
  /\ Pending(c) /\ Answers(c, Answer("exception", 0))
  /\ lost' = IF req[c].op = "close" THEN lost \cup {<<c, req[c].own>>} ELSE lost
  /\ UNCHANGED <<call, req, table, tree, dead>>

(* The session's process exits, and with it go its files.                  *)
Die ==
  /\ ~dead /\ dead' = TRUE
  /\ table' = [fd \in Fds |-> None]
  /\ UNCHANGED <<call, req, ans, tree, lost>>

Next ==
  \/ Die
  \/ \E c \in Calls :
       \/ Begin(c) \/ Resume(c) \/ Abort(c) \/ SourceEnds(c) \/ SourceFails(c)
       \/ \E n \in 1 .. Total : SourceGives(c, n)
       \/ \E more \in BOOLEAN : Yielded(c, more)
       \/ Run(c) \/ Operate(c) \/ CloseFile(c) \/ CloseRuns(c)
       \/ Execute(c) \/ Fail(c)

Spec == Init /\ [][Next]_vars

-----------------------------------------------------------------------------
Ended(c) == call[c].at \in {"done", "failed"}

(* A number the host sends is that of the file it means, never of one that *)
(* another call was given since; and a call that has ended, well, badly or *)
(* by its caller's leaving, has no file open, unless no lane could be had  *)
(* to close it.                                                            *)
FilesOwned ==
  /\ \A c \in Calls : Pending(c) /\ req[c].own > 0 /\ ~dead => table[req[c].fd] = <<c, req[c].own>>
  /\ \A fd \in Fds : table[fd] # None =>
       ~Ended(table[fd][1]) \/ table[fd] \in lost

(* What resolves is whole: readFile has read, and writeFile and copyFile   *)
(* have written, all of it, through short writes, an abort that comes      *)
(* while the stream is read or written, and errors in the middle.          *)
WholeOrFailed ==
  \A c \in Calls : call[c].at = "done" /\ call[c].kind \in {"readFile", "writeFile", "copyFile"} =>
    call[c].moved = Total

(* Recursive mkdirs of one path that meet on the way all succeed, unless a *)
(* component is a file; the path is there when one has succeeded.          *)
MkdirsMeet ==
  \A c \in Calls : call[c].kind = "mkdir" =>
    /\ call[c].error = "errno" => \E l \in 1 .. Depth : tree[l] = "file"
    /\ call[c].at = "done" => \A l \in 1 .. Depth : tree[l] = "dir"
=============================================================================
