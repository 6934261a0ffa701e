----------------------------- MODULE MCMachine -----------------------------
(***************************************************************************)
(* The machine, the user programs of one worker, and the console and block *)
(* devices, side by side.  They do not interact: a behaviour is one of     *)
(* `focus', and the others stand still.  Fairness is that of the machine   *)
(* in its own behaviours, and its liveness properties are about those.     *)
(***************************************************************************)
EXTENDS Machine

CONSTANTS
  MaxPrograms, MaxDepth,                                       (* UserProgram *)
  MaxInput, ChunkSizes, BufferSizes, MaxBuffers, MaxResets, MaxSizes, (* Console *)
  Requests, Pieces                                             (* BlockDevice *)

ASSUME ConsoleAssumption ==
  MaxInput \in Nat /\ ChunkSizes \subseteq Nat /\ BufferSizes \subseteq Nat

VARIABLES
  focus,                                        (* what the behaviour is of *)
  context, instance, pending, call_entry, stack, siginfo_copy_results, mode, programs,
  pump, chunk, read, ready, rx, tty, output, size, stopped, resets,
  request, writes, cached, durable, waiting

programVars ==
  <<context, instance, pending, call_entry, stack, siginfo_copy_results, mode, programs>>
consoleVars == <<pump, chunk, read, ready, rx, tty, output, size, stopped, resets>>
blockVars == <<request, writes, cached, durable, waiting>>

P == INSTANCE UserProgram
C == INSTANCE Console
B == INSTANCE BlockDevice

(* A block device that is not looked at has one request on its ring.       *)
AtOnce == [type |-> "at once", stage |-> "ring", left |-> 1, status |-> "none"]

MCInit ==
  /\ Init /\ P!Init /\ C!Init /\ B!Init
  /\ focus \in {"machine", "program", "console", "block"}
  /\ focus # "program" => context = P!None
  /\ focus # "block" => \A r \in B!Ids : request[r] = AtOnce

MCNext ==
  /\ UNCHANGED focus
  /\ \/ focus = "machine" /\ Next /\ UNCHANGED <<programVars, consoleVars, blockVars>>
     \/ focus = "program" /\ P!Next /\ UNCHANGED <<vars, consoleVars, blockVars>>
     \/ focus = "console" /\ C!Next /\ UNCHANGED <<vars, programVars, blockVars>>
     \/ focus = "block" /\ B!Next /\ UNCHANGED <<vars, programVars, consoleVars>>

(* `focus' never changes; said with []<>, the fairness is one TLC checks   *)
(* without a tableau.                                                      *)
MCSpec ==
  /\ MCInit /\ [][MCNext]_<<focus, vars, programVars, consoleVars, blockVars>>
  /\ []<>(focus = "machine") => Fairness

-----------------------------------------------------------------------------
(* UserProgram!StackSound: siginfo callbacks keep their own slots, and     *)
(* what runs is what is mapped.                                            *)
StackSound == P!StackSound

(* Console!PumpSound: input arrives once and in order, also over a reset,  *)
(* and the pump never waits for what has come.                             *)
PumpSound == C!PumpSound

(* BlockDevice!FlushCovers: a flush covers the writes before it.           *)
FlushCovers == B!FlushCovers
=============================================================================
