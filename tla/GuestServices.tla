--------------------------- MODULE GuestServices ---------------------------
(***************************************************************************)
(* The Ethernet switch, the agent's sessions, the files of the guest       *)
(* client, and HTTP exchanges in both directions, side by side.  They do   *)
(* not interact: a behaviour is one of `focus', and the others stand still *)
(* in one of their initial states.                                         *)
(***************************************************************************)
EXTENDS Naturals, Sequences, FiniteSets

CONSTANTS
  Ports, Roaming, RECEIVE_BACKLOG, MAX_PENDING_FRAMES,      (* EthernetSwitch *)
  MaxFrames, MaxBuffers, MaxResets,
  MaxSessions, max_lanes, Procs,                              (* AgentSession *)
  Calls, Mixes, Fds, Total, Depth, MaxOps,                      (* GuestFiles *)
  Body, Upload,                                                 (* GuestFetch *)
  Pieces                                                         (* HostFetch *)

ASSUME GuestAssumption == MaxSessions \in Nat /\ RECEIVE_BACKLOG \in Nat

(* The operations of the guest client that GuestFiles has.                 *)
Kinds ==
  {"readFile", "readDir", "writeFile", "copyFile", "realPath", "truncate", "open", "path", "mkdir"}

ASSUME FilesAssumption ==
  Mixes \subseteq [Calls -> Kinds] /\ Fds \subseteq Nat /\ Total \in Nat /\ Depth \in Nat \ {0}

ASSUME FetchAssumption == Body \in Nat \ {0}

VARIABLES
  focus,                                        (* what the behaviour is of *)
  ports, learned, switch_closed, pending, rx, tx, got, frames, resets,
  session, wait, host, guest, backlog, main, worker, active_lanes, proc, init,
  call, req, ans, table, tree, lost, dead,
  response, arrived, buffer, handler, body, upload, connection,
  at, writing, final_output_started, out, request, fetch, source, aborted

switchVars == <<ports, learned, switch_closed, pending, rx, tx, got, frames, resets>>
sessionVars == <<session, wait, host, guest, backlog, main, worker, active_lanes, proc, init>>
fileVars == <<call, req, ans, table, tree, lost, dead>>
guestFetchVars == <<response, arrived, buffer, handler, body, upload, connection>>
hostFetchVars == <<at, writing, final_output_started, out, request, fetch, source, aborted>>

E == INSTANCE EthernetSwitch WITH closed <- switch_closed
A == INSTANCE AgentSession
F == INSTANCE GuestFiles
H == INSTANCE GuestFetch
X == INSTANCE HostFetch WITH pending <- writing, response <- source

ServicesInit ==
  /\ focus \in {"switch", "sessions", "files", "guest fetch", "host fetch"}
  /\ E!Init /\ A!Init
  /\ F!Init /\ (focus # "files" => \A c \in Calls : call[c].kind = "truncate")
  /\ H!Init /\ (focus # "guest fetch" =>
       response.framing = "fixed" /\ response.units = <<>> /\ upload.left = 0 /\ upload.declared = 0)
  /\ X!Init /\ (focus # "host fetch" => ~aborted)

ServicesNext ==
  /\ UNCHANGED focus
  /\ \/ /\ focus = "switch" /\ E!Next
        /\ UNCHANGED <<sessionVars, fileVars, guestFetchVars, hostFetchVars>>
     \/ /\ focus = "sessions" /\ A!Next
        /\ UNCHANGED <<switchVars, fileVars, guestFetchVars, hostFetchVars>>
     \/ /\ focus = "files" /\ F!Next
        /\ UNCHANGED <<switchVars, sessionVars, guestFetchVars, hostFetchVars>>
     \/ /\ focus = "guest fetch" /\ H!Next
        /\ UNCHANGED <<switchVars, sessionVars, fileVars, hostFetchVars>>
     \/ /\ focus = "host fetch" /\ X!Next
        /\ UNCHANGED <<switchVars, sessionVars, fileVars, guestFetchVars>>

servicesVars == <<focus, switchVars, sessionVars, fileVars, guestFetchVars, hostFetchVars>>

ServicesSpec == ServicesInit /\ [][ServicesNext]_servicesVars

-----------------------------------------------------------------------------
(* EthernetSwitch!FramesInOrder: frames of a sender arrive once, in order. *)
FramesInOrder == E!FramesInOrder

(* EthernetSwitch!SenderHeldByReceiver: whoever waits, waits for a guest.  *)
SenderHeldByReceiver == E!SenderHeldByReceiver

(* AgentSession!StartsClean: a session inherits nothing of the one before. *)
StartsClean == A!StartsClean

(* AgentSession!OneSession: the client has one session.                    *)
OneSession == A!OneSession

(* GuestFiles!FilesOwned: a call works on its own open files only.         *)
FilesOwned == F!FilesOwned

(* GuestFiles!WholeOrFailed: a call that succeeds has moved everything.    *)
WholeOrFailed == F!WholeOrFailed

(* GuestFiles!MkdirsMeet: two recursive mkdirs of a path both succeed.     *)
MkdirsMeet == F!MkdirsMeet

(* GuestFetch!ResponseWhole: a body ends in order only when it is whole.   *)
ResponseWhole == H!ResponseWhole

(* GuestFetch!FetchReleases: an exchange that is over holds nothing.       *)
FetchReleases == H!FetchReleases

(* HostFetch!OneAnswer: a guest's request gets one answer.                 *)
OneAnswer == X!OneAnswer
=============================================================================
