---------------------------- MODULE UserProgram ----------------------------
(***************************************************************************)
(* The user programs of one worker: user_imports of                        *)
(* packages/kernel/src/worker.ts.                                          *)
(*                                                                         *)
(* The kernel calls into a program and the program into the kernel, which  *)
(* may call a signal handler of the program, and so on: one stack holds    *)
(* all of it, and an exec, a trap or the end of the thread throws through  *)
(* the whole stack.  The kernel is external: it makes these calls in any   *)
(* order that its stack allows.                                            *)
(***************************************************************************)
EXTENDS Naturals, FiniteSets, SequencesExt

CONSTANTS
  MaxPrograms,   (* bound: programs, the first with which the worker starts *)
  MaxDepth       (* bound: frames on the stack                              *)

VARIABLES
  context,       (* the program whose memory is mapped, 0 is none           *)
  instance,      (* the program that is instantiated                        *)
  pending,       (* an exec: none, bytes, or the compiled program           *)
  call_entry,    (* where call() enters: _start or a clone's function       *)
  stack,         (* entry, signal and siginfo frames                        *)
  siginfo_copy_results,
  mode,          (* who runs on top: the kernel, the program, or nobody     *)
  programs       (* programs so far                                         *)

vars == <<context, instance, pending, call_entry, stack, siginfo_copy_results, mode, programs>>

None == 0
Null == "null"
Frame(kind) == [kind |-> kind, program |-> instance, entry |-> call_entry, copied |-> Null]

(* A worker of a fresh thread has no program; one that clone or fork made  *)
(* has its parent's context, and an instance of its own: prepare().        *)
Init ==
  /\ \E p \in {None, 1} : context = p /\ instance = p /\ programs = p
  /\ pending = "none" /\ call_entry = "start" /\ stack = <<>>
  /\ siginfo_copy_results = <<>> /\ mode = "kernel"

Kernel == mode = "kernel"
User == mode = "user"
Top == stack[Len(stack)]

-----------------------------------------------------------------------------
(* The kernel reads a program into memory and compiles it: in a system     *)
(* call of a program, or in a thread that has none yet.                    *)
compile_begin ==
  /\ Kernel /\ programs < MaxPrograms /\ (stack # <<>> \/ instance = None)
  /\ pending' \in {"none", "bytes"}
  /\ UNCHANGED <<context, instance, call_entry, stack, siginfo_copy_results, mode, programs>>

compile_end ==
  /\ Kernel /\ pending = "bytes"
  /\ pending' \in {"none", "module"}
  /\ UNCHANGED <<context, instance, call_entry, stack, siginfo_copy_results, mode, programs>>

compile_abort ==
  /\ Kernel /\ pending' = "none"
  /\ UNCHANGED <<context, instance, call_entry, stack, siginfo_copy_results, mode, programs>>

(* The siginfo frames of a stack, and the slots left when all its frames   *)
(* have been thrown through: the finally of each of these takes one.       *)
SiginfoFrames(frames) == {i \in 1 .. Len(frames) : frames[i].kind = "siginfo"}
Slots(slots, frames) == SubSeq(slots, 1, Len(slots) - Cardinality(SiginfoFrames(frames)))

Throw(to) ==
  /\ siginfo_copy_results' = Slots(siginfo_copy_results, stack)
  /\ stack' = <<>> /\ mode' = to

(* The new program takes the old one's place.  An instantiation that fails *)
(* throws, and call() returns to the kernel.                               *)
instantiate(ok) ==
  /\ Kernel /\ pending = "module"
  /\ pending' = "none" /\ programs' = programs + 1 /\ context' = programs + 1
  /\ IF ok THEN instance' = programs + 1 /\ mode' = (IF stack = <<>> THEN "kernel" ELSE "replaced")
                /\ UNCHANGED <<stack, siginfo_copy_results>>
     ELSE Throw("over") /\ UNCHANGED instance
  /\ UNCHANGED call_entry

UnwindToEntry ==   \* fault: a clone's function is entered again
  /\ mode = "replaced"
  /\ Throw("loop")
  /\ UNCHANGED <<context, instance, pending, call_entry, programs>>

(* The system call of an exec does not return: HALT_USER goes to call().   *)
unwind ==
  /\ mode = "replaced"
  /\ call_entry' = "start" /\ Throw("loop")
  /\ UNCHANGED <<context, instance, pending, programs>>

(* switch_entry: a clone starts at a function.                             *)
switch_entry ==
  /\ Kernel /\ stack = <<>> /\ instance = 1 /\ programs = 1
  /\ call_entry' = "function"
  /\ UNCHANGED <<context, instance, pending, stack, siginfo_copy_results, mode, programs>>

(* call() enters the program, the first time or after HALT_USER.           *)
call ==
  /\ mode = "loop" \/ (Kernel /\ stack = <<>> /\ instance # None)
  /\ stack' = <<Frame("entry")>> /\ mode' = "user"
  /\ UNCHANGED <<context, instance, pending, call_entry, siginfo_copy_results, programs>>

-----------------------------------------------------------------------------
Syscall ==
  /\ User /\ mode' = "kernel"
  /\ UNCHANGED <<context, instance, pending, call_entry, stack, siginfo_copy_results, programs>>

SyscallReturns ==
  /\ Kernel /\ stack # <<>> /\ pending = "none" /\ mode' = "user"
  /\ UNCHANGED <<context, instance, pending, call_entry, stack, siginfo_copy_results, programs>>

call_signal_handler ==
  /\ Kernel /\ stack # <<>> /\ Len(stack) < MaxDepth /\ pending = "none"
  /\ stack' = Append(stack, Frame("signal")) /\ mode' = "user"
  /\ UNCHANGED <<context, instance, pending, call_entry, siginfo_copy_results, programs>>

call_siginfo_handler ==
  /\ Kernel /\ stack # <<>> /\ Len(stack) < MaxDepth /\ pending = "none"
  /\ stack' = Append(stack, Frame("siginfo")) /\ mode' = "user"
  /\ siginfo_copy_results' = Append(siginfo_copy_results, Null)
  /\ UNCHANGED <<context, instance, pending, call_entry, programs>>

(* The trampoline of a siginfo callback asks for the payload; nothing else *)
(* in a program does, though the import would serve it.                    *)
copy_siginfo(result) ==
  /\ User /\ stack # <<>> /\ Top.kind = "siginfo" /\ siginfo_copy_results # <<>>
  /\ siginfo_copy_results' = [siginfo_copy_results EXCEPT ![Len(siginfo_copy_results)] = result]
  /\ stack' = [stack EXCEPT ![Len(stack)].copied = result]
  /\ UNCHANGED <<context, instance, pending, call_entry, mode, programs>>

(* A handler returns to the kernel, with the result in its slot.           *)
HandlerReturns ==
  /\ User /\ stack # <<>> /\ Top.kind \in {"signal", "siginfo"}
  /\ siginfo_copy_results' = IF Top.kind = "siginfo" THEN Front(siginfo_copy_results) ELSE siginfo_copy_results
  /\ stack' = Front(stack) /\ mode' = "kernel"
  /\ UNCHANGED <<context, instance, pending, call_entry, programs>>

(* The function a clone began at returns: call() enters it once more.      *)
EntryReturns ==
  /\ User /\ Len(stack) = 1 /\ Top.entry = "function"
  /\ stack' = <<>> /\ mode' = "loop"
  /\ UNCHANGED <<context, instance, pending, call_entry, siginfo_copy_results, programs>>

(* The program traps: call() reports it and returns to the kernel.  Or the *)
(* thread ends: HALT_KERNEL.                                               *)
Ends ==
  /\ User \/ (Kernel /\ stack # <<>>)
  /\ Throw("over")
  /\ UNCHANGED <<context, instance, pending, call_entry, programs>>

Next ==
  \/ compile_begin \/ compile_end \/ compile_abort \/ unwind \/ switch_entry \/ call
  \/ \E ok \in BOOLEAN : instantiate(ok)
  \/ Syscall \/ SyscallReturns \/ call_signal_handler \/ call_siginfo_handler
  \/ \E result \in {"ok", "fault"} : copy_siginfo(result)
  \/ HandlerReturns \/ EntryReturns \/ Ends

Spec == Init /\ [][Next]_vars

-----------------------------------------------------------------------------
(* The slot of the callback at frame i: one for each at or below it.       *)
SlotOf(i) == Cardinality({j \in SiginfoFrames(stack) : j <= i})

(* Each siginfo callback on the stack has its own slot, and the slot holds *)
(* what its own trampoline was told, also when callbacks nest and when an  *)
(* exec, a trap or the end of the thread throws through some of them.      *)
SiginfoMatched ==
  /\ Len(siginfo_copy_results) = Cardinality(SiginfoFrames(stack))
  /\ \A i \in SiginfoFrames(stack) : siginfo_copy_results[SlotOf(i)] = stack[i].copied

(* What runs is the program whose memory is mapped, on top of frames of    *)
(* that program only, and a program that was executed began at its _start, *)
(* also in a thread that itself began at a function.                       *)
RunsCurrentProgram ==
  User => \A k \in 1 .. Len(stack) :
            /\ stack[k].program = instance /\ instance = context
            /\ stack[k].program > 1 => stack[k].entry = "start"

(* The one stack is sound, whatever nests on it and throws through it.     *)
StackSound == SiginfoMatched /\ RunsCurrentProgram
=============================================================================
