------------------------------- MODULE Caster -------------------------------
(***************************************************************************)
(* The event loop of NtripCaster (src/src/ntrip_caster.cc): one thread     *)
(* that takes a batch of ready descriptors from epoll, and for each of     *)
(* them accepts a connection, reads one chunk and parses it, or            *)
(* disconnects.  Its state is a list of mount points, each with the        *)
(* DESCRIPTOR of the base station that feeds it and the DESCRIPTORS of the *)
(* receivers that follow it.  A descriptor is a small number the kernel    *)
(* hands out again as soon as it is closed, so the module keeps the        *)
(* process's descriptor table and the TCP connections behind it apart:     *)
(* what the lists mean is which connection their descriptors denote.       *)
(*                                                                         *)
(* The peers at the other end of the connections are the environment: they *)
(* connect, send, close and vanish between any two events.                 *)
(***************************************************************************)
EXTENDS Naturals, Sequences, FiniteSets, SequencesExt

CONSTANTS
  Conns,        \* the TCP connections peers make, each made at most once
  Fds,          \* the descriptors accept() can return
  ListenFd,     \* the descriptor of listen_sock_
  MountPoints,
  Creds,        \* the user:password pairs
  Requests,     \* the POST and GET requests peers make
  MaxEvents,    \* max_count_, the size of epoll_events_
  MaxSend,      \* bound: chunks one peer sends on a connection
  NoConn, NoMount, NoCred

PostRequest == [kind : {"post"}, mount : MountPoints \cup {NoMount},
                cred : Creds \cup {NoCred},
                str : MountPoints \cup {NoMount}, strOk : BOOLEAN]
GetRequest == [kind : {"get"}, mount : MountPoints \cup {NoMount},
               cred : Creds \cup {NoCred}]
Payload == [kind : {"gga", "data"}, src : Conns, n : Nat]
Message == PostRequest \cup GetRequest \cup Payload

ASSUME CasterAssumption ==
  /\ IsFiniteSet(Conns) /\ IsFiniteSet(Fds) /\ Fds \subseteq Nat
  /\ ListenFd \in Nat \ Fds
  /\ NoConn \notin Conns /\ NoMount \notin MountPoints /\ NoCred \notin Creds
  /\ Requests \subseteq PostRequest \cup GetRequest
  /\ MaxEvents \in Nat \ {0} /\ MaxSend \in Nat

VARIABLES
  infos,    \* mount_point_infos_
  strs,     \* ntrip_str_list_: the mount point each source-table line names
  sock,     \* the process's descriptor table: which connection, if open
  batch,    \* what is left of epoll_events_ in the current pass
  service,  \* the service thread: running, stopped, or the process killed
  backlog,  \* connections completed and not accepted yet
  conn,     \* the peer's end: idle, open, fin (closed) or rst (aborted)
  sent,     \* how many chunks the peer has sent
  inbox,    \* chunks the caster has not received yet
  grants,   \* history: what each connection was answered 200 OK for
  got       \* history: payloads delivered to each connection

table == <<infos, strs>>
peers == <<backlog, conn, sent>>
vars == <<infos, strs, sock, batch, service, backlog, conn, sent, inbox,
          grants, got>>

MountPointInformation ==
  [server_fd : Fds, mountpoint : MountPoints, cred : Creds,
   client_socket_list : Seq(Fds)]

Grant == [role : {"server", "client"}, mount : MountPoints]

TypeOK ==
  /\ infos \in Seq(MountPointInformation)
  /\ strs \in Seq(MountPoints \cup {NoMount})
  /\ sock \in [Fds -> Conns \cup {NoConn}]
  /\ batch \in Seq(Fds \cup {ListenFd})
  /\ service \in {"running", "stopped", "killed"}
  /\ backlog \in Seq(Conns)
  /\ conn \in [Conns -> {"idle", "open", "fin", "rst"}]
  /\ sent \in [Conns -> Nat]
  /\ inbox \in [Conns -> Seq(Message)]
  /\ grants \in [Conns -> SUBSET Grant]
  /\ got \in [Conns -> Seq(Payload)]

Init ==
  /\ infos = <<>> /\ strs = <<>>
  /\ sock = [fd \in Fds |-> NoConn]
  /\ batch = <<>> /\ service = "running" /\ backlog = <<>>
  /\ conn = [c \in Conns |-> "idle"]
  /\ sent = [c \in Conns |-> 0]
  /\ inbox = [c \in Conns |-> <<>>]
  /\ grants = [c \in Conns |-> {}]
  /\ got = [c \in Conns |-> <<>>]

-----------------------------------------------------------------------------
(* The peers.                                                              *)

Held(c) == \E fd \in Fds : sock[fd] = c

PeerConnect(c) ==
  /\ conn[c] = "idle"
  /\ conn' = [conn EXCEPT ![c] = "open"]
  /\ backlog' = Append(backlog, c)
  /\ UNCHANGED <<table, sock, batch, service, sent, inbox, grants, got>>

(* One chunk, as one recv() of the caster returns it: a request, a GGA     *)
(* sentence, or other bytes (correction data, a fragment, another          *)
(* sentence).                                                              *)
Sayable(c) ==
  Requests \cup [kind : {"gga", "data"}, src : {c}, n : {sent[c] + 1}]

PeerSend(c, m) ==
  /\ conn[c] = "open" /\ sent[c] < MaxSend
  /\ Held(c) \/ c \in Range(backlog)
  /\ inbox' = [inbox EXCEPT ![c] = Append(@, m)]
  /\ sent' = [sent EXCEPT ![c] = @ + 1]
  /\ UNCHANGED <<table, sock, batch, service, backlog, conn, grants, got>>

PeerClose(c) ==
  /\ conn[c] = "open"
  /\ conn' = [conn EXCEPT ![c] = "fin"]
  /\ UNCHANGED <<table, sock, batch, service, backlog, sent, inbox, grants, got>>

PeerReset(c) ==
  /\ conn[c] \in {"open", "fin"}
  /\ conn' = [conn EXCEPT ![c] = "rst"]
  /\ UNCHANGED <<table, sock, batch, service, backlog, sent, inbox, grants, got>>

(* What a peer built on this library's NtripServer or NtripClient sends:   *)
(* one request, then nothing until it is answered 200 OK, then only        *)
(* correction data (server) or only GGA sentences (client).  The two would *)
(* send any other bytes too: the application is taken to give a GGA        *)
(* sentence to set_gga_buffer and corrections to SendData.                 *)
Conforming(c, m) ==
  \/ m \in Requests /\ sent[c] = 0
  \/ m.kind = "data" /\ \E g \in grants[c] : g.role = "server"
  \/ m.kind = "gga" /\ \E g \in grants[c] : g.role = "client"

-----------------------------------------------------------------------------
(* ThreadHandler: epoll_wait.                                              *)

(* recv() would return: a chunk, 0 (the peer closed) or an error.          *)
Readable(fd) == sock[fd] # NoConn /\ (inbox[sock[fd]] # <<>>
                                      \/ conn[sock[fd]] \in {"fin", "rst"})

ReadyEvents ==
  {fd \in Fds : Readable(fd)} \cup {fd \in {ListenFd} : backlog # <<>>}

EpollWait ==
  /\ service = "running" /\ batch = <<>> /\ ReadyEvents # {}
  /\ batch' \in SeqOf(ReadyEvents, MaxEvents) /\ IsInjective(batch')
  /\ Len(batch') = MaxEvents \/ Range(batch') = ReadyEvents
  /\ UNCHANGED <<table, sock, service, peers, inbox, grants, got>>

(* epoll_wait fails, for instance interrupted when the process is stopped  *)
(* and continued: the loop ends and the service with it.                   *)
EpollError ==
  /\ service = "running" /\ batch = <<>>
  /\ service' = "stopped"
  /\ UNCHANGED <<table, sock, batch, peers, inbox, grants, got>>

-----------------------------------------------------------------------------
(* Handlers of one event.                                                  *)

Event(fd) == service = "running" /\ batch # <<>> /\ Head(batch) = fd

Done == batch' = Tail(batch)

HasChunk(fd) == sock[fd] # NoConn /\ inbox[sock[fd]] # <<>>

Chunk(fd) == Head(inbox[sock[fd]])

Receive(fd) ==
  inbox' = [inbox EXCEPT ![sock[fd]] = Tail(@)]

(* The kernel gives accept() the lowest free descriptor; with none left,   *)
(* accept() fails and the connection stays in the backlog.                 *)
LowestFree(fd) ==
  sock[fd] = NoConn /\ \A g \in Fds : sock[g] = NoConn => fd <= g

AcceptNewConnect ==
  /\ Event(ListenFd) /\ backlog # <<>>
  /\ Done
  /\ \/ \E fd \in Fds :
          /\ LowestFree(fd)
          /\ sock' = [sock EXCEPT ![fd] = Head(backlog)]
          /\ backlog' = Tail(backlog)
     \/ /\ \A fd \in Fds : sock[fd] # NoConn
        /\ UNCHANGED <<sock, backlog>>
  /\ UNCHANGED <<table, service, conn, sent, inbox, grants, got>>

(* close(): harmless on a descriptor that is already closed.               *)
Close(S) == sock' = [fd \in Fds |-> IF fd \in S THEN NoConn ELSE sock[fd]]

IsFirst(k, s, e) ==
  k \in DOMAIN s /\ s[k] = e /\ \A j \in 1..(k - 1) : s[j] # e

(* Mutant: the clients' lists are not searched.                            *)
MentionsServer(info, fd) == info.server_fd = fd

Mentions(info, fd) ==
  info.server_fd = fd \/ fd \in Range(info.client_socket_list)

(* The list is searched in order; the first record that mentions fd, as    *)
(* its server or as one of its clients, decides.                           *)
FirstMention(i, fd) ==
  /\ i \in DOMAIN infos /\ Mentions(infos[i], fd)
  /\ \A j \in 1..(i - 1) : ~Mentions(infos[j], fd)

(* Mutant: the line stays.                                                 *)
KeepSourceTableLine(mount) == UNCHANGED strs

EraseSourceTableLine(mount) ==
  \/ \E k \in DOMAIN strs : IsFirst(k, strs, mount) /\ strs' = RemoveAt(strs, k)
  \/ mount \notin Range(strs) /\ UNCHANGED strs

DisconnectServer(fd, i) ==
  /\ FirstMention(i, fd) /\ infos[i].server_fd = fd
  /\ Close({fd} \cup Range(infos[i].client_socket_list))
  /\ EraseSourceTableLine(infos[i].mountpoint)
  /\ infos' = RemoveAt(infos, i)

DisconnectClient(fd, i) ==
  /\ FirstMention(i, fd) /\ infos[i].server_fd # fd
  /\ \E k \in DOMAIN infos[i].client_socket_list :
       /\ IsFirst(k, infos[i].client_socket_list, fd)
       /\ infos' = [infos EXCEPT ![i].client_socket_list = RemoveAt(@, k)]
  /\ Close({fd})
  /\ UNCHANGED strs

(* Mutant: only descriptors found in the list are closed.                  *)
IgnoreUnknown(fd) ==
  (\A i \in DOMAIN infos : ~Mentions(infos[i], fd)) /\ UNCHANGED <<table, sock>>

DisconnectUnknown(fd) ==
  /\ \A i \in DOMAIN infos : ~Mentions(infos[i], fd)
  /\ Close({fd})
  /\ UNCHANGED table

(* recv() returned 0 or -1: the peer is gone, or the event is stale, its   *)
(* descriptor closed (EBADF) or reused (EAGAIN) earlier in the same batch. *)
Disconnect(fd) ==
  /\ Event(fd) /\ ~HasChunk(fd)
  /\ Done
  /\ \/ \E i \in DOMAIN infos : DisconnectServer(fd, i)
     \/ \E i \in DOMAIN infos : DisconnectClient(fd, i)
     \/ DisconnectUnknown(fd)
  /\ UNCHANGED <<service, peers, inbox, grants, got>>

MountUsed(mount) == \E i \in DOMAIN infos : infos[i].mountpoint = mount

(* Mutants: a mount point in use, or an empty one, is accepted.            *)
RegistrableTwice(m) == m.strOk /\ m.mount # NoMount /\ m.cred # NoCred
RegistrableUnnamed(m) == ~MountUsed(m.mount) /\ m.strOk /\ m.cred # NoCred

Registrable(m) ==
  /\ ~MountUsed(m.mount)
  /\ m.strOk
  /\ m.mount # NoMount /\ m.cred # NoCred

(* send() to an aborted connection fails.                                  *)
CanSend(c) == conn[c] # "rst"

ServerConnectRequest(fd) ==
  /\ Event(fd) /\ HasChunk(fd) /\ Chunk(fd).kind = "post"
  /\ Done
  /\ Receive(fd)
  /\ LET m == Chunk(fd)  c == sock[fd] IN
       \/ /\ Registrable(m) /\ CanSend(c)
          /\ infos' = Append(infos, [server_fd |-> fd, mountpoint |-> m.mount,
                                     cred |-> m.cred, client_socket_list |-> <<>>])
          /\ strs' = Append(strs, m.str)
          /\ grants' = [grants EXCEPT ![c] =
                          @ \cup {[role |-> "server", mount |-> m.mount]}]
          /\ UNCHANGED sock
       \/ /\ ~(Registrable(m) /\ CanSend(c))
          /\ Close({fd})
          /\ UNCHANGED <<table, grants>>
  /\ UNCHANGED <<service, peers, got>>

(* Mutant: any mount point of the user will do.                            *)
AdmitsByUser(info, m) == m.cred # NoCred /\ info.cred = m.cred

Admits(info, m) ==
  m.cred # NoCred /\ info.mountpoint = m.mount /\ info.cred = m.cred

ClientConnectRequest(fd) ==
  /\ Event(fd) /\ HasChunk(fd) /\ Chunk(fd).kind = "get"
  /\ Done
  /\ Receive(fd)
  /\ LET m == Chunk(fd)  c == sock[fd] IN
       \/ \E i \in DOMAIN infos :
            /\ Admits(infos[i], m) /\ \A j \in 1..(i - 1) : ~Admits(infos[j], m)
            /\ CanSend(c)
            /\ infos' = [infos EXCEPT ![i].client_socket_list = Append(@, fd)]
            /\ grants' = [grants EXCEPT ![c] =
                            @ \cup {[role |-> "client", mount |-> m.mount]}]
            /\ UNCHANGED sock
       \/ /\ ~CanSend(c) \/ \A i \in DOMAIN infos : ~Admits(infos[i], m)
          /\ Close({fd})
          /\ UNCHANGED <<infos, grants>>
  /\ UNCHANGED <<strs, service, peers, got>>

FeedsAt(i, fd) ==
  /\ i \in DOMAIN infos /\ infos[i].server_fd = fd
  /\ \A j \in 1..(i - 1) : infos[j].server_fd # fd

(* The chunk goes to the clients of the first record fed by fd, one        *)
(* non-blocking send() each, in list order; the sends at the positions in  *)
(* lost fail and nothing is retried.                                       *)
TryToForwardServerData(fd, i, lost) ==
  /\ Event(fd) /\ HasChunk(fd) /\ Chunk(fd).kind \in {"gga", "data"}
  /\ FeedsAt(i, fd)
  /\ Done
  /\ Receive(fd)
  /\ LET list == infos[i].client_socket_list
         copies(c) == {k \in DOMAIN list \ lost :
                         sock[list[k]] = c /\ conn[c] = "open"} IN
       got' = [c \in Conns |-> got[c] \o
                 [k \in 1..Cardinality(copies(c)) |-> Chunk(fd)]]
  /\ UNCHANGED <<table, sock, service, peers, grants>>

Forward(fd) ==
  \E i \in DOMAIN infos :
    \E lost \in SUBSET DOMAIN infos[i].client_socket_list :
      TryToForwardServerData(fd, i, lost)

(* A payload of a connection that feeds no mount point: a GGA sentence is  *)
(* taken note of, anything else makes ParseData return -1, and the loop    *)
(* closes the descriptor without Disconnect.                               *)
NotAServer(fd) ==
  /\ Event(fd) /\ HasChunk(fd) /\ Chunk(fd).kind \in {"gga", "data"}
  /\ \A i \in DOMAIN infos : infos[i].server_fd # fd
  /\ Done
  /\ Receive(fd)
  /\ \/ Chunk(fd).kind = "gga" /\ UNCHANGED sock
     \/ Chunk(fd).kind = "data" /\ Close({fd})
  /\ UNCHANGED <<table, service, peers, grants, got>>

(* The connections a chunk makes the caster send to.                       *)
Addressees(fd) ==
  LET m == Chunk(fd) IN
  IF m.kind = "get" \/ (m.kind = "post" /\ (MountUsed(m.mount) \/ Registrable(m)))
  THEN {sock[fd]}
  ELSE UNION {{sock[g] : g \in Range(infos[i].client_socket_list)} :
                i \in {j \in DOMAIN infos :
                         m.kind \in {"gga", "data"} /\ FeedsAt(j, fd)}}

(* send() to a connection whose peer has aborted may also raise SIGPIPE,   *)
(* which neither the library nor the examples ignore: the process dies.    *)
KilledBySigPipe(fd) ==
  /\ Event(fd) /\ HasChunk(fd)
  /\ \E c \in Addressees(fd) \cap Conns : conn[c] = "rst"
  /\ service' = "killed"
  /\ UNCHANGED <<table, sock, batch, peers, inbox, grants, got>>

HandleEvent(fd) ==
  \/ Disconnect(fd)
  \/ ServerConnectRequest(fd)
  \/ ClientConnectRequest(fd)
  \/ Forward(fd)
  \/ NotAServer(fd)
  \/ KilledBySigPipe(fd)

-----------------------------------------------------------------------------

Loop == EpollWait \/ EpollError \/ AcceptNewConnect
        \/ \E fd \in Fds : HandleEvent(fd)

PeerStep(c) == PeerConnect(c) \/ PeerClose(c) \/ PeerReset(c)

(* Peers of any kind: any message at any time.                             *)
Next ==
  \/ Loop
  \/ \E c \in Conns : PeerStep(c) \/ \E m \in Sayable(c) : PeerSend(c, m)

(* Peers that follow the protocol of this library's NtripServer and        *)
(* NtripClient.                                                            *)
ConformingNext ==
  \/ Loop
  \/ \E c \in Conns : \/ PeerStep(c)
                      \/ \E m \in Sayable(c) : Conforming(c, m) /\ PeerSend(c, m)

Spec == Init /\ [][Next]_vars
ConformingSpec == Init /\ [][ConformingNext]_vars

(* The thread is scheduled, and epoll, whose ready list is a queue, does   *)
(* not pass over a descriptor that stays ready.                            *)
Fairness ==
  /\ WF_vars(AcceptNewConnect \/ \E fd \in Fds : HandleEvent(fd))
  /\ \A e \in Fds \cup {ListenFd} : SF_vars(EpollWait /\ e \in Range(batch'))

FairSpec == Spec /\ Fairness
-----------------------------------------------------------------------------
(* Properties that hold whatever the peers send.                           *)

(* Two records never carry the same mount point: ServerConnectRequest      *)
(* refuses a mount point in use, in the same handler that would add it.    *)
MountPointsUnique ==
  \A i, j \in DOMAIN infos :
    infos[i].mountpoint = infos[j].mountpoint => i = j

(* A connection whose peer has gone does not keep its descriptor: epoll    *)
(* keeps reporting it until a handler closes it, unless the service ends.  *)
GoneIsForgotten ==
  \A c \in Conns : Held(c) /\ conn[c] \in {"fin", "rst"}
                      ~> ~Held(c) \/ service # "running"

-----------------------------------------------------------------------------
(* Properties that hold when the peers follow the protocol.                *)

Granted(fd, role, mount) ==
  sock[fd] # NoConn /\ [role |-> role, mount |-> mount] \in grants[sock[fd]]

(* Every descriptor in the mount point list is open and denotes the        *)
(* connection that was answered 200 OK for that place in it: no descriptor *)
(* outlives its connection in the list, to be taken for the next one that  *)
(* gets the same number.                                                   *)
TableDenotesPeers ==
  \A i \in DOMAIN infos :
    /\ Granted(infos[i].server_fd, "server", infos[i].mountpoint)
    /\ \A fd \in Range(infos[i].client_socket_list) :
         Granted(fd, "client", infos[i].mountpoint)

(* Data sent by a server goes to connected clients of its mount point.     *)
RoutedToSubscribers ==
  \A c \in Conns : \A k \in DOMAIN got[c] : \E mp \in MountPoints :
    /\ [role |-> "server", mount |-> mp] \in grants[got[c][k].src]
    /\ [role |-> "client", mount |-> mp] \in grants[c]

(* What a client receives comes from one server, in the order it was sent, *)
(* nothing twice: the clients of a server that goes are let go with it, so *)
(* none sees the corrections of two base stations spliced together.        *)
OneSourceInOrder ==
  \A c \in Conns : \A j, k \in DOMAIN got[c] :
    j < k => got[c][j].src = got[c][k].src /\ got[c][j].n < got[c][k].n

(* With requests whose Ntrip-STR names their mount point, the source table *)
(* lists exactly the mount points in service, in the same order.           *)
SourceTableMatches ==
  strs = [i \in DOMAIN infos |-> infos[i].mountpoint]

(* c follows a mount point whose server's peer has gone.                   *)
LosesServer(c) ==
  \E i \in DOMAIN infos :
    /\ [role |-> "client", mount |-> infos[i].mountpoint] \in grants[c]
    /\ \A d \in Conns : sock[infos[i].server_fd] = d => conn[d] # "open"

(* A server or client in service whose peer is still there is closed only  *)
(* together with the server it follows: never by an event meant for a      *)
(* connection that had its descriptor before, nor by the end of another    *)
(* mount point.                                                            *)
MembersDroppedOnlyForCause ==
  [][\A c \in Conns :
       Held(c) /\ grants[c] # {} /\ conn[c] = "open" /\ ~Held(c)' =>
         LosesServer(c)]_vars

(* The same of every accepted connection, which may also be closed for     *)
(* what it sent.                                                           *)
DroppedOnlyForCause ==
  [][\A c \in Conns :
       Held(c) /\ conn[c] = "open" /\ ~Held(c)' =>
         Len(inbox'[c]) < Len(inbox[c]) \/ LosesServer(c)]_vars

(* The caster, seen through its descriptor table, implements the broker.   *)
RecordOf(mp) == CHOOSE i \in DOMAIN infos : infos[i].mountpoint = mp

Publisher ==
  [mp \in MountPoints |->
     IF MountUsed(mp) THEN sock[infos[RecordOf(mp)].server_fd] ELSE NoConn]

Subscribers ==
  [mp \in MountPoints |->
     IF MountUsed(mp)
     THEN {sock[fd] : fd \in Range(infos[RecordOf(mp)].client_socket_list)}
     ELSE {}]

Promise == INSTANCE Broker WITH publisher <- Publisher, subscribers <- Subscribers

ImplementsBroker == Promise!Spec
=============================================================================
