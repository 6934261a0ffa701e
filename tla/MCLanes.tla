------------------------------ MODULE MCLanes ------------------------------
(***************************************************************************)
(* The lanes of a session, and beside them one vsock connection, which is  *)
(* what a lane consists of.  Each is checked by itself: a behaviour is of  *)
(* one of them, which `focus' tells, with its own fairness, and the other  *)
(* stands still.                                                           *)
(***************************************************************************)
EXTENDS GuestSession

VARIABLES
  focus,
  conn, pending, rx_chains, device, guest, to_guest, to_host, reset_count, budget

vsockVars == <<conn, pending, rx_chains, device, guest, to_guest, to_host, reset_count, budget>>

V == INSTANCE Vsock WITH
  MaxPorts <- 1, Modulus <- 3, DEFAULT_VSOCK_BUF_ALLOC <- 2, MAX_VSOCK_PAYLOAD <- 1,
  GuestAlloc <- 2, MaxBuffers <- 1, MaxTransfer <- 2, MaxHostBytes <- 3,
  MaxGuestBytes <- 3, MaxResets <- 1

ASSUME VsockAssumption == V!ConstantsFit

MCInit ==
  /\ Init /\ V!Init /\ focus \in {"pool", "vsock"}
  /\ focus = "pool" => budget.guest = 0

MCNext ==
  /\ UNCHANGED focus
  /\ \/ focus = "pool" /\ Next /\ UNCHANGED vsockVars
     \/ focus = "vsock" /\ V!Next /\ UNCHANGED vars

(* `focus' never changes; said with []<>, the fairness is one TLC checks   *)
(* without a tableau.                                                      *)
MCSpec ==
  /\ MCInit /\ [][MCNext]_<<focus, vars, vsockVars>>
  /\ []<>(focus = "pool") => Fairness
  /\ []<>(focus = "vsock") => V!Fairness

-----------------------------------------------------------------------------
(* Vsock!ConnectionProgress: a connection that is used goes on, and one    *)
(* that is given up ends.                                                  *)
ConnectionProgress == V!ConnectionProgress
=============================================================================
