----------------------------- MODULE GatewayIp -----------------------------
(***************************************************************************)
(* The gateway of the user-space network below TCP,                        *)
(* packages/linux-guest/src/network.ts: attachments of guests, reassembly  *)
(* of their IP datagrams, UDP connections, and what goes with a guest that *)
(* leaves.  TCP connections are counted only; TcpFlow has one in detail.   *)
(*                                                                         *)
(* Lengths are in units of 8 bytes.  A fragment's contents are a letter:   *)
(* two datagrams may share an identification, since it wraps.  Guests are  *)
(* external and send, with their own addresses, any fragments parse_ip     *)
(* lets through; other frames change nothing here.  reassemble_ip's check  *)
(* of the first fragment's header and payload against 0xffff is left out:  *)
(* parse_ip has bounded their sum by the packet's 16-bit total length.     *)
(***************************************************************************)
EXTENDS Naturals, Sequences, FiniteSets

CONSTANTS
  Guests, Identifications, Contents,
  MaxLength,               (* bound: end of a fragment                      *)
  MAX_IP_REASSEMBLIES, MAX_IP_FRAGMENTS,
  FirstPort, LastPort,     (* the host's ports, 49152 and 65535 in the code *)
  UDP_READABLE_QUEUE_CAP

ASSUME LimitsAssumption == MAX_IP_REASSEMBLIES \in Nat \ {0} /\ UDP_READABLE_QUEUE_CAP \in Nat
ASSUME LengthAssumption == MaxLength \in Nat

VARIABLES
  attached,      (* the Map `attachments'                                   *)
  running,       (* guests whose network device still runs                  *)
  closed,        (* the network is closed                                   *)
  reassemblies,  (* the Map `ip_reassemblies': an entry of it for each key  *)
  delivered,     (* history: the fragments of a datagram handed on just now *)
  udp,           (* the Map `udp_flows': datagrams queued in each           *)
  tcp,           (* guests with TCP connections                             *)
  next_port

vars == <<attached, running, closed, reassemblies, delivered, udp, tcp, next_port>>

HostPorts == FirstPort .. LastPort
Absent == UDP_READABLE_QUEUE_CAP + 1
NoTotal == 0
Fragment(o, l, c) == [offset |-> o, length |-> l, content |-> c]
End(f) == f.offset + f.length

(* do_attach_guest, once for each guest.                                   *)
Init ==
  /\ attached = Guests /\ running = Guests /\ closed = FALSE
  /\ reassemblies = [k \in {} |-> {}] /\ delivered = <<>>
  /\ udp = [flow \in Guests \X HostPorts |-> Absent] /\ tcp = {}
  /\ next_port = FirstPort

-----------------------------------------------------------------------------
(***************************************************************************)
(* reassemble_ip.                                                          *)
(***************************************************************************)
(* A Map in insertion order: an entry knows the keys that are older.       *)
Without(map, gone) == [k \in DOMAIN map \ gone |-> [map[k] EXCEPT !.older = @ \ gone]]
With(map, key, r) == [k \in DOMAIN map \cup {key} |-> IF k = key THEN r ELSE map[k]]
Oldest(map) == {k \in DOMAIN map : map[k].older = {}}
Discard(key) == Without(reassemblies, {key})

(* The reassembly of a key: the one in progress, or a new one, for which   *)
(* the oldest of too many goes.                                            *)
Others(key) ==
  IF key \in DOMAIN reassemblies \/ Cardinality(DOMAIN reassemblies) < MAX_IP_REASSEMBLIES
  THEN reassemblies ELSE Without(reassemblies, Oldest(reassemblies))
Of(key) ==
  IF key \in DOMAIN reassemblies THEN reassemblies[key]
  ELSE [older |-> DOMAIN Others(key), fragments |-> <<>>, total |-> NoTotal]
Store(key, r) == With(Others(key), key, r)
Drop(key) == Without(Others(key), {key})

(* The place of the first fragment that ends behind the start of f.        *)
Insertion(fragments, f) ==
  CHOOSE n \in 1 .. Len(fragments) + 1 :
    /\ n \in 1 .. Len(fragments) => f.offset < End(fragments[n])
    /\ \A i \in 1 .. n - 1 : ~(f.offset < End(fragments[i]))

OverlapsEqual(fragments, f) ==   \* fault: only the same offset is an overlap
  \E i \in 1 .. Len(fragments) : fragments[i].offset = f.offset

(* All before the place end before f starts: only the one at it can be in  *)
(* the way.                                                                *)
Overlaps(fragments, f) ==
  LET n == Insertion(fragments, f) IN n \in 1 .. Len(fragments) /\ End(f) > fragments[n].offset

(* No gap from 0 to the total length.                                      *)
Contiguous(r) ==
  /\ r.total # NoTotal
  /\ \A i \in 1 .. Len(r.fragments) :
       r.fragments[i].offset = IF i = 1 THEN 0 ELSE End(r.fragments[i - 1])
  /\ End(r.fragments[Len(r.fragments)]) = r.total

Spliced(fragments, f) ==
  LET n == Insertion(fragments, f)
  IN  SubSeq(fragments, 1, n - 1) \o <<f>> \o SubSeq(fragments, n, Len(fragments))

Inserted(r, f, more) ==
  [r EXCEPT !.fragments = Spliced(@, f), !.total = IF more THEN @ ELSE End(f)]

(* One fragment too many, or a last fragment that is not last.             *)
Misfits(r, f, more) ==
  \/ Len(r.fragments) = MAX_IP_FRAGMENTS
  \/ /\ ~more
     /\ \/ r.total \notin {NoTotal, End(f)}
        \/ \E i \in 1 .. Len(r.fragments) : r.fragments[i].offset >= End(f)

(* The UDP connection that a datagram is for gets it, if there is room.    *)
Enqueue(g, port) ==
  udp' = IF udp[<<g, port>>] < UDP_READABLE_QUEUE_CAP /\ g \in attached
         THEN [udp EXCEPT ![<<g, port>>] = @ + 1] ELSE udp

Nothing == delivered' = <<>> /\ UNCHANGED udp

(* A fragment, or a whole datagram, arrives.                               *)
reassemble_ip(g, id, f, more, port) ==
  LET key == <<g, id>>
      r == Of(key)
      grown == Inserted(r, f, more)
      duplicate == \E i \in 1 .. Len(r.fragments) : r.fragments[i] = f
  IN
  /\ g \in running /\ ~closed
  /\ \/ /\ f.offset = 0 /\ ~more
        /\ reassemblies' = Discard(key) /\ delivered' = <<f>> /\ Enqueue(g, port)
     \/ /\ f.offset > 0 \/ more
        /\ IF r.total # NoTotal /\ End(f) > r.total THEN reassemblies' = Drop(key) /\ Nothing
           ELSE IF Overlaps(r.fragments, f)
           THEN reassemblies' = (IF duplicate THEN Store(key, r) ELSE Drop(key)) /\ Nothing
           ELSE IF Misfits(r, f, more) THEN reassemblies' = Drop(key) /\ Nothing
           ELSE IF Contiguous(grown)
           THEN reassemblies' = Drop(key) /\ delivered' = grown.fragments /\ Enqueue(g, port)
           ELSE reassemblies' = Store(key, grown) /\ Nothing
  /\ UNCHANGED <<attached, running, closed, tcp, next_port>>

(* The timer of a reassembly.                                              *)
Expire(key) ==
  /\ key \in DOMAIN reassemblies /\ reassemblies' = Discard(key)
  /\ delivered' = <<>> /\ UNCHANGED <<attached, running, closed, udp, tcp, next_port>>

-----------------------------------------------------------------------------
(***************************************************************************)
(* Connections.                                                            *)
(***************************************************************************)
InUse(g, port) == udp[<<g, port>>] # Absent
After(port, n) == FirstPort + ((port - FirstPort + n) % (LastPort - FirstPort + 1))

(* allocate_port: the next port that is free, of all but one.              *)
allocate_port(g) ==
  {After(next_port, n) : n \in {m \in 0 .. LastPort - FirstPort - 1 :
     ~InUse(g, After(next_port, m)) /\ \A k \in 0 .. m - 1 : InUse(g, After(next_port, k))}}

connect_udp(g) ==
  /\ ~closed /\ g \in attached
  /\ \E port \in allocate_port(g) :
       /\ udp' = [udp EXCEPT ![<<g, port>>] = 0]
       /\ next_port' = After(port, 1)
  /\ delivered' = <<>> /\ UNCHANGED <<attached, running, closed, reassemblies, tcp>>

ReadUdp(flow) ==
  /\ udp[flow] \in 1 .. UDP_READABLE_QUEUE_CAP
  /\ udp' = [udp EXCEPT ![flow] = @ - 1]
  /\ delivered' = <<>> /\ UNCHANGED <<attached, running, closed, reassemblies, tcp, next_port>>

CloseUdp(flow) ==
  /\ udp[flow] # Absent
  /\ udp' = [udp EXCEPT ![flow] = Absent]
  /\ delivered' = <<>> /\ UNCHANGED <<attached, running, closed, reassemblies, tcp, next_port>>

(* A TCP connection to or from a guest, and its end.                       *)
OpenTcp(g) ==
  /\ ~closed /\ g \in attached /\ tcp' = tcp \cup {g}
  /\ delivered' = <<>> /\ UNCHANGED <<attached, running, closed, reassemblies, udp, next_port>>

CloseTcp(g) ==
  /\ tcp' = tcp \ {g}
  /\ delivered' = <<>> /\ UNCHANGED <<attached, running, closed, reassemblies, udp, next_port>>

-----------------------------------------------------------------------------
(* The guest's device stops; the attachment follows later.                 *)
DeviceCloses(g) ==
  /\ running' = running \ {g}
  /\ delivered' = <<>> /\ UNCHANGED <<attached, closed, reassemblies, udp, tcp, next_port>>

WithoutUdp(S) == [flow \in DOMAIN udp |-> IF flow[1] \in S THEN Absent ELSE udp[flow]]

DetachKeepsFragments(g) ==   \* fault: the fragments of the guest stay
  /\ g \in attached \ running
  /\ attached' = attached \ {g} /\ tcp' = tcp \ {g} /\ udp' = WithoutUdp({g})
  /\ delivered' = <<>> /\ UNCHANGED <<running, closed, reassemblies, next_port>>

Detach(g) ==
  /\ g \in attached \ running
  /\ attached' = attached \ {g} /\ tcp' = tcp \ {g} /\ udp' = WithoutUdp({g})
  /\ reassemblies' = Without(reassemblies, {k \in DOMAIN reassemblies : k[1] = g})
  /\ delivered' = <<>> /\ UNCHANGED <<running, closed, next_port>>

CloseNetwork ==
  /\ ~closed /\ closed' = TRUE
  /\ attached' = {} /\ tcp' = {} /\ udp' = WithoutUdp(Guests)
  /\ reassemblies' = Without(reassemblies, DOMAIN reassemblies)
  /\ delivered' = <<>> /\ UNCHANGED <<running, next_port>>

Arriving == {Fragment(o, l, c) : o \in 0 .. MaxLength - 1, l \in 1 .. MaxLength, c \in Contents}

Next ==
  \/ \E g \in Guests :
       \/ connect_udp(g) \/ OpenTcp(g) \/ CloseTcp(g) \/ DeviceCloses(g) \/ Detach(g)
       \/ \E id \in Identifications, f \in Arriving, more \in BOOLEAN, port \in HostPorts :
            End(f) <= MaxLength /\ reassemble_ip(g, id, f, more, port)
  \/ \E key \in Guests \X Identifications : Expire(key)
  \/ \E flow \in Guests \X HostPorts : ReadUdp(flow) \/ CloseUdp(flow)
  \/ CloseNetwork

Spec == Init /\ [][Next]_vars

-----------------------------------------------------------------------------
Covers(fragments, u) == {i \in 1 .. Len(fragments) : u \in fragments[i].offset .. End(fragments[i]) - 1}

(* The reference: a datagram is whole when each unit up to the end of its  *)
(* last fragment is in one fragment and in one only.                       *)
Whole(fragments, total) ==
  \A u \in 0 .. MaxLength : Cardinality(Covers(fragments, u)) = IF u < total THEN 1 ELSE 0

(* A datagram is handed on whole or not at all, whatever order fragments   *)
(* come in, repeat, overlap and contradict each other; and one that is     *)
(* whole does not wait for anything more.                                  *)
ReassembledWhole ==
  /\ delivered # <<>> => Whole(delivered, End(delivered[Len(delivered)]))
  /\ \A key \in DOMAIN reassemblies : LET r == reassemblies[key] IN
       /\ ~(r.total # NoTotal /\ Whole(r.fragments, r.total))
       /\ \A u \in 0 .. MaxLength : Cardinality(Covers(r.fragments, u)) <= 1
  /\ Cardinality(DOMAIN reassemblies) <= MAX_IP_REASSEMBLIES

(* With a guest go its connections and the fragments it had sent, and      *)
(* nothing of it comes back; with the network, everybody's.                *)
NothingOfTheGone ==
  \A g \in Guests \ attached :
    /\ g \notin tcp
    /\ \A port \in HostPorts : udp[<<g, port>>] = Absent
    /\ \A key \in DOMAIN reassemblies : key[1] # g
=============================================================================
