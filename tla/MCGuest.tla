------------------------------ MODULE MCGuest ------------------------------
(***************************************************************************)
(* GuestServices and GatewayIp for TLC, and beside them instances of       *)
(* components whose safety only is checked here: the file system device, a *)
(* TCP connection to a guest whose NIC is behind, and a vsock connection   *)
(* whose counters wrap, whose variables are the first of v1, v2, ...       *)
(*                                                                         *)
(* They do not interact: a behaviour is of one of them, which `traffic'    *)
(* and `focus' tell, and the others stand still.                           *)
(***************************************************************************)
EXTENDS GuestServices, GatewayIp

VARIABLES traffic, v1, v2, v3, v4, v5, v6, v7, v8, v9, v10

trafficVars == <<v1, v2, v3, v4, v5, v6, v7, v8, v9, v10>>

FS(MaxMounts, MaxIds) == INSTANCE FileSystemDevice WITH
  Dirs <- {"d"}, Files <- {"f"}, MaxHandles <- 1, MaxKnown <- 1, MaxBatches <- 1,
  records <- v1, next_nodeid <- v2, handles <- v3, next_handle <- v4, request <- v5,
  forgets <- v6, final <- v7, backend <- v8, linux <- v9, failed <- v10

T == INSTANCE TcpFlow WITH
  TCP_MSS <- 1, TCP_RECEIVE_WINDOW <- 1, GuestRoom <- 1, MaxHostBytes <- 2,
  MaxGuestBytes <- 1, MaxBehind <- 1, MaxLost <- 1,
  flow <- v1, held <- v2, to_guest <- v3, to_host <- v4, guest <- v5,
  sent <- v6, behind <- v7, lost <- v8, stale <- v9

V == INSTANCE Vsock WITH
  MaxPorts <- 1, Modulus <- 4, DEFAULT_VSOCK_BUF_ALLOC <- 3, MAX_VSOCK_PAYLOAD <- 1,
  GuestAlloc <- 2, MaxBuffers <- 1, MaxTransfer <- 2, MaxHostBytes <- 4,
  MaxGuestBytes <- 4, MaxResets <- 1,
  conn <- v1, guest <- v2, pending <- v3, to_guest <- v4, to_host <- v5,
  rx_chains <- v6, reset_count <- v7, budget <- v8, device <- v9

(* Each call beside a truncation, which opens a file too; and two mkdirs.  *)
Pairs ==
  {[a |-> k, b |-> "truncate"] : k \in Kinds \ {"mkdir"}} \cup {[a |-> "mkdir", b |-> "mkdir"]}

-----------------------------------------------------------------------------
Idle == v1 = 0 /\ v2 = 0 /\ v3 = 0 /\ v4 = 0 /\ v5 = 0 /\ v6 = 0 /\ v7 = 0 /\ v8 = 0 /\ v9 = 0

(* Bound: a guest that writes nothing does not close of its own accord.    *)
TcpBound == v5.closing => v5.wrote > 0

MCInit ==
  /\ ServicesInit /\ Init
  /\ \/ traffic = "none" /\ Idle /\ v10 = 0
     \/ /\ focus = "switch"
        /\ \/ traffic \in {"fragments", "flows"} /\ Idle /\ v10 = 0
           \/ traffic = "fs" /\ FS(1, 3)!Init
           \/ traffic = "remount" /\ FS(2, 2)!Init
           \/ traffic = "tcp" /\ T!Init /\ v10 = 0 /\ TcpBound
           \/ traffic = "vsock" /\ V!Init /\ v10 = 0

(* Bound: fragments without connections, which they never meet, or         *)
(* connections with datagrams and fragments of one kind.                   *)
One == <<Fragment(0, 1, "a")>>
GatewayNext ==
  /\ Next
  /\ traffic = "fragments" => UNCHANGED <<udp, tcp>>
  /\ traffic = "flows" =>
       /\ delivered' \in {<<>>, One}
       /\ \A key \in DOMAIN reassemblies' : reassemblies'[key].fragments = One

TrafficNext ==
  \/ traffic = "fs" /\ FS(1, 3)!Next
  \/ traffic = "remount" /\ FS(2, 2)!Next
  \/ traffic = "tcp" /\ T!Next /\ UNCHANGED v10
  \/ traffic = "vsock" /\ V!Next /\ UNCHANGED v10

MCNext ==
  /\ UNCHANGED traffic
  /\ \/ traffic = "none" /\ ServicesNext /\ UNCHANGED <<vars, trafficVars>>
     \/ traffic \in {"fragments", "flows"} /\ GatewayNext /\ UNCHANGED <<servicesVars, trafficVars>>
     \/ TrafficNext /\ UNCHANGED <<servicesVars, vars>>

MCSpec == MCInit /\ [][MCNext]_<<servicesVars, vars, traffic, trafficVars>>

-----------------------------------------------------------------------------
(* FileSystemDevice!TableSound: a node is in the table exactly while it is *)
(* used.                                                                   *)
TableSound ==
  /\ traffic = "fs" => FS(1, 3)!TableSound
  /\ traffic = "remount" => FS(2, 2)!TableSound

(* FileSystemDevice!NothingKept: what Linux gave back is not kept.         *)
NothingKept ==
  /\ traffic = "fs" => FS(1, 3)!NothingKept
  /\ traffic = "remount" => FS(2, 2)!NothingKept

(* TcpFlow!StreamsReceived: bytes arrive once and in order, and what was   *)
(* reported done has arrived, though the NIC holds back and loses frames.  *)
StreamsReceived == traffic = "tcp" => T!StreamsReceived

(* Vsock!ConnectionSound: both ends agree, and nobody is left waiting.     *)
ConnectionSound == traffic = "vsock" => V!ConnectionSound
=============================================================================
