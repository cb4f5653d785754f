----------------------------- MODULE OrderProofs -----------------------------
(***************************************************************************)
(* What a client of the caster receives comes from one server and in order,*)
(* for any sets of connections, descriptors, mount points and requests, as *)
(* long as the peers follow the protocol.  The invariant adds to the one of*)
(* CasterProofs where the numbers of the payloads stand: those delivered   *)
(* before those that wait, those that wait in order, and all of them at    *)
(* most the number the peer has sent.                                      *)
(***************************************************************************)
EXTENDS CasterProofs

IsPayload(m) == m.kind \in {"gga", "data"}

(* The n-th chunk of c was sent, and comes before all that wait.           *)
Before(c, n) ==
  /\ n <= sent[c]
  /\ \A k \in DOMAIN inbox[c] : IsPayload(inbox[c][k]) => n < inbox[c][k].n

InboxInOrder ==
  \A c \in Conns : \A k \in DOMAIN inbox[c] :
    IsPayload(inbox[c][k]) =>
      /\ inbox[c][k].src = c /\ inbox[c][k].n <= sent[c]
      /\ \A j \in 1..(k - 1) : IsPayload(inbox[c][j]) => inbox[c][j].n < inbox[c][k].n

GotBefore ==
  \A c \in Conns : \A j \in DOMAIN got[c] : Before(got[c][j].src, got[c][j].n)

(* What a client in the list has received so far came from the server it   *)
(* follows now.                                                            *)
FromItsServer ==
  \A i \in DOMAIN infos : \A fd \in Range(infos[i].client_socket_list) :
    \A j \in DOMAIN got[sock[fd]] : got[sock[fd]][j].src = sock[infos[i].server_fd]

OrderInv ==
  ConformingInv /\ InboxInOrder /\ GotBefore /\ FromItsServer /\ OneSourceInOrder

-----------------------------------------------------------------------------
(* Inboxes.                                                                *)

(* A step leaves the inbox of a connection and its count of sent chunks    *)
(* alone, takes the first chunk away, or adds one.                         *)
LEMMA InboxMoves ==
  ASSUME TypeOK, [Next]_vars, NEW c \in Conns
  PROVE  \/ inbox'[c] = inbox[c] /\ sent'[c] = sent[c]
         \/ inbox[c] # <<>> /\ inbox'[c] = Tail(inbox[c]) /\ sent'[c] = sent[c]
         \/ \E m \in Sayable(c) :
              inbox'[c] = Append(inbox[c], m) /\ sent'[c] = sent[c] + 1
<1>1. CASE UNCHANGED <<inbox, sent>>
  BY <1>1
<1>2. ASSUME NEW fd \in Fds, HasChunk(fd), Receive(fd), UNCHANGED sent
      PROVE  \/ inbox'[c] = inbox[c] /\ sent'[c] = sent[c]
             \/ inbox[c] # <<>> /\ inbox'[c] = Tail(inbox[c]) /\ sent'[c] = sent[c]
  BY <1>2 DEF TypeOK, HasChunk, Receive
<1>3. ASSUME NEW d \in Conns, NEW m \in Sayable(d), PeerSend(d, m)
      PROVE  \/ inbox'[c] = inbox[c] /\ sent'[c] = sent[c]
             \/ d = c /\ inbox'[c] = Append(inbox[c], m) /\ sent'[c] = sent[c] + 1
  BY <1>3 DEF TypeOK, PeerSend
<1>4. ASSUME NEW fd \in Fds, HandleEvent(fd)
      PROVE  \/ inbox'[c] = inbox[c] /\ sent'[c] = sent[c]
             \/ inbox[c] # <<>> /\ inbox'[c] = Tail(inbox[c]) /\ sent'[c] = sent[c]
  <2>1. CASE Disconnect(fd) \/ KilledBySigPipe(fd)
    BY <2>1 DEF Disconnect, KilledBySigPipe, peers
  <2>2. CASE ServerConnectRequest(fd) \/ ClientConnectRequest(fd) \/ NotAServer(fd) \/ Forward(fd)
    BY <1>2, <2>2 DEF ServerConnectRequest, ClientConnectRequest, NotAServer, Forward,
                      TryToForwardServerData, peers
  <2>. QED  BY <1>4, <2>1, <2>2 DEF HandleEvent
<1>5. CASE EpollWait \/ EpollError \/ AcceptNewConnect
  BY <1>5 DEF EpollWait, EpollError, AcceptNewConnect, peers
<1>6. ASSUME NEW d \in Conns, PeerStep(d) PROVE UNCHANGED <<inbox, sent>>
  BY <1>6 DEF PeerStep, PeerConnect, PeerClose, PeerReset
<1>7. CASE UNCHANGED vars
  BY <1>1, <1>7 DEF vars
<1>. QED  BY <1>1, <1>3, <1>4, <1>5, <1>6, <1>7 DEF Next, Loop

(* Chunk by chunk: s is the number of chunks taken away.                   *)
LEMMA InboxEntries ==
  ASSUME TypeOK, [Next]_vars, NEW c \in Conns
  PROVE  /\ sent'[c] \in Nat /\ sent[c] \in Nat /\ sent[c] <= sent'[c]
         /\ \E s \in {0, 1} : \A k \in DOMAIN inbox'[c] :
              /\ k \in Nat \ {0}
              /\ \/ k + s \in DOMAIN inbox[c] /\ inbox'[c][k] = inbox[c][k + s]
                 \/ /\ \A j \in 1..(k - 1) : j \in DOMAIN inbox[c] /\ inbox'[c][j] = inbox[c][j]
                    /\ \A j \in DOMAIN inbox[c] : j < k
                    /\ sent'[c] = sent[c] + 1
                    /\ IsPayload(inbox'[c][k]) =>
                         inbox'[c][k].src = c /\ inbox'[c][k].n = sent'[c]
<1>1. /\ inbox[c] \in Seq(Message) /\ sent[c] \in Nat
      /\ Len(inbox[c]) \in Nat /\ DOMAIN inbox[c] = 1..Len(inbox[c])
  BY LenProperties DEF TypeOK
<1>2. CASE inbox'[c] = inbox[c] /\ sent'[c] = sent[c]
  BY <1>1, <1>2
<1>3. CASE inbox[c] # <<>> /\ inbox'[c] = Tail(inbox[c]) /\ sent'[c] = sent[c]
  <2>1. /\ Tail(inbox[c]) \in Seq(Message) /\ Len(Tail(inbox[c])) = Len(inbox[c]) - 1
        /\ \A k \in 1..Len(Tail(inbox[c])) : Tail(inbox[c])[k] = inbox[c][k + 1]
        /\ DOMAIN Tail(inbox[c]) = 1..Len(Tail(inbox[c]))
    BY <1>1, <1>3, HeadTailProperties, LenProperties
  <2>2. \A k \in DOMAIN inbox'[c] :
          k \in Nat \ {0} /\ k + 1 \in DOMAIN inbox[c] /\ inbox'[c][k] = inbox[c][k + 1]
    BY <1>1, <1>3, <2>1
  <2>. QED  BY <1>1, <1>3, <2>2
<1>4. ASSUME NEW m \in Sayable(c), inbox'[c] = Append(inbox[c], m), sent'[c] = sent[c] + 1
      PROVE  \A k \in DOMAIN inbox'[c] :
               /\ k \in Nat \ {0}
               /\ \/ k + 0 \in DOMAIN inbox[c] /\ inbox'[c][k] = inbox[c][k + 0]
                  \/ /\ \A j \in 1..(k - 1) : j \in DOMAIN inbox[c] /\ inbox'[c][j] = inbox[c][j]
                     /\ \A j \in DOMAIN inbox[c] : j < k
                     /\ IsPayload(inbox'[c][k]) =>
                          inbox'[c][k].src = c /\ inbox'[c][k].n = sent'[c]
  <2>1. m \in Message /\ (IsPayload(m) => m.src = c /\ m.n = sent[c] + 1)
    BY <1>1, CasterAssumption
       DEF Sayable, Message, PostRequest, GetRequest, Payload, IsPayload
  <2>2. /\ Len(Append(inbox[c], m)) = Len(inbox[c]) + 1
        /\ DOMAIN Append(inbox[c], m) = 1..(Len(inbox[c]) + 1)
        /\ \A k \in 1..Len(inbox[c]) : Append(inbox[c], m)[k] = inbox[c][k]
        /\ Append(inbox[c], m)[Len(inbox[c]) + 1] = m
    BY <1>1, <2>1, AppendProperties, LenProperties
  <2>3. ASSUME NEW k \in DOMAIN inbox'[c]
        PROVE  k \in Nat \ {0} /\ (k \in DOMAIN inbox[c] \/ k = Len(inbox[c]) + 1)
    BY <1>1, <1>4, <2>2
  <2>4. inbox'[c][Len(inbox[c]) + 1] = m
    BY <1>4, <2>2
  <2>5. \A k \in DOMAIN inbox[c] : inbox'[c][k] = inbox[c][k]
    BY <1>1, <1>4, <2>2
  <2>. QED  BY <1>1, <1>4, <2>1, <2>3, <2>4, <2>5
<1>. QED  BY <1>1, <1>2, <1>3, <1>4, InboxMoves

(* What waits stays in order, and what came before it still does.          *)
LEMMA InboxOrderStep ==
  ASSUME TypeOK, InboxInOrder, [Next]_vars
  PROVE  InboxInOrder'
<1>. SUFFICES ASSUME NEW c \in Conns, NEW k \in DOMAIN inbox'[c], IsPayload(inbox'[c][k])
              PROVE  /\ inbox'[c][k].src = c /\ inbox'[c][k].n <= sent'[c]
                     /\ \A j \in 1..(k - 1) :
                          IsPayload(inbox'[c][j]) => inbox'[c][j].n < inbox'[c][k].n
  BY DEF InboxInOrder
<1>. DEFINE Old(s, j) == j + s \in DOMAIN inbox[c] /\ inbox'[c][j] = inbox[c][j + s]
            New(j) == /\ \A i \in 1..(j - 1) : i \in DOMAIN inbox[c] /\ inbox'[c][i] = inbox[c][i]
                      /\ \A i \in DOMAIN inbox[c] : i < j
                      /\ sent'[c] = sent[c] + 1
                      /\ IsPayload(inbox'[c][j]) =>
                           inbox'[c][j].src = c /\ inbox'[c][j].n = sent'[c]
<1>1. /\ sent'[c] \in Nat /\ sent[c] \in Nat /\ sent[c] <= sent'[c]
      /\ inbox'[c] \in Seq(Message) /\ inbox[c] \in Seq(Message)
  BY InboxEntries, TypeStep DEF TypeOK
<1>2. PICK s \in {0, 1} : \A j \in DOMAIN inbox'[c] : j \in Nat \ {0} /\ (Old(s, j) \/ New(j))
  BY InboxEntries
<1>3. \A j \in 1..(k - 1) : j \in DOMAIN inbox'[c]
  BY <1>1, LenProperties
<1>4. \A j \in DOMAIN inbox[c] : IsPayload(inbox[c][j]) => inbox[c][j].n \in Nat
  BY <1>1, LenProperties DEF IsPayload, Message, Payload, PostRequest, GetRequest
<1>5. CASE Old(s, k)
  <2>1. PICK h \in DOMAIN inbox[c] : h = k + s /\ inbox'[c][k] = inbox[c][h]
    BY <1>5
  <2>2. /\ inbox[c][h].src = c /\ inbox[c][h].n <= sent[c] /\ inbox[c][h].n \in Nat
        /\ \A i \in 1..(h - 1) : IsPayload(inbox[c][i]) => inbox[c][i].n < inbox[c][h].n
    BY <1>4, <2>1 DEF InboxInOrder
  <2>3. ASSUME NEW j \in 1..(k - 1), IsPayload(inbox'[c][j])
        PROVE  inbox'[c][j].n < inbox'[c][k].n
    <3>1. j \in DOMAIN inbox'[c] /\ ~New(j)
      BY <1>2, <1>3, <1>5
    <3>2. PICK i \in DOMAIN inbox[c] : i = j + s /\ inbox'[c][j] = inbox[c][i]
      BY <1>2, <3>1
    <3>3. i \in 1..(h - 1)
      BY <1>2, <2>1, <3>1, <3>2
    <3>. QED  BY <2>1, <2>2, <2>3, <3>2, <3>3
  <2>. QED  BY <1>1, <2>1, <2>2, <2>3
<1>6. CASE New(k)
  <2>1. ASSUME NEW j \in 1..(k - 1), IsPayload(inbox'[c][j])
        PROVE  inbox'[c][j].n < inbox'[c][k].n
    <3>1. j \in DOMAIN inbox[c] /\ inbox'[c][j] = inbox[c][j]
      BY <1>6
    <3>2. inbox[c][j].n <= sent[c] /\ inbox[c][j].n \in Nat
      BY <1>4, <2>1, <3>1 DEF InboxInOrder
    <3>. QED  BY <1>1, <1>6, <3>1, <3>2
  <2>. QED  BY <1>1, <1>6, <2>1
<1>. QED  BY <1>2, <1>5, <1>6

(* What was delivered is a payload.                                        *)
LEMMA GotType ==
  ASSUME TypeOK, NEW c \in Conns, NEW j \in DOMAIN got[c]
  PROVE  got[c][j].src \in Conns /\ got[c][j].n \in Nat
<1>1. got[c] \in Seq(Payload)
  BY DEF TypeOK
<1>2. got[c][j] \in Payload
  BY <1>1, LenProperties
<1>. QED  BY <1>2 DEF Payload

LEMMA BeforeStays ==
  ASSUME TypeOK, [Next]_vars, NEW c \in Conns, NEW n \in Nat, Before(c, n)
  PROVE  Before(c, n)'
<1>1. sent'[c] \in Nat /\ sent[c] \in Nat /\ sent[c] <= sent'[c] /\ n <= sent[c]
  BY InboxEntries DEF Before
<1>2. ASSUME NEW k \in DOMAIN inbox'[c], IsPayload(inbox'[c][k])
      PROVE  n < inbox'[c][k].n
  <2>1. \/ \E s \in {0, 1} : k + s \in DOMAIN inbox[c] /\ inbox'[c][k] = inbox[c][k + s]
        \/ sent'[c] = sent[c] + 1 /\ inbox'[c][k].n = sent'[c]
    BY <1>2, InboxEntries
  <2>. QED  BY <1>1, <1>2, <2>1 DEF Before
<1>. QED  BY <1>1, <1>2 DEF Before

LEMMA GotBeforeStays ==
  ASSUME TypeOK, GotBefore, [Next]_vars, UNCHANGED got
  PROVE  GotBefore'
<1>. DEFINE Still(d, n) ==
       /\ n <= sent'[d]
       /\ \A k \in DOMAIN inbox'[d] : IsPayload(inbox'[d][k]) => n < inbox'[d][k].n
<1>1. \A d \in Conns, n \in Nat : Before(d, n) => Still(d, n)
  BY BeforeStays DEF Before
<1>2. \A c \in Conns : \A j \in DOMAIN got[c] :
        got[c][j].src \in Conns /\ got[c][j].n \in Nat
  BY GotType
<1>3. \A c \in Conns : \A j \in DOMAIN got[c] : Still(got[c][j].src, got[c][j].n)
  <2>. HIDE DEF Still
  <2>. QED  BY <1>1, <1>2 DEF GotBefore
<1>4. ASSUME NEW c \in Conns, NEW j \in DOMAIN got'[c]
      PROVE  Before(got[c][j].src, got[c][j].n)'
  <2>1. Still(got[c][j].src, got[c][j].n) /\ got'[c][j] = got[c][j]
    BY <1>3
  <2>. QED  BY <2>1 DEF Before
<1>. QED  BY <1>4 DEF GotBefore

-----------------------------------------------------------------------------
(* The lists.                                                              *)

(* No payload has reached a connection without a grant.                    *)
LEMMA UngrantedUnserved ==
  ASSUME ConformingInv, NEW c \in Conns, grants[c] = {}
  PROVE  DOMAIN got[c] = {}
BY DEF ConformingInv, ProtocolInv, RoutedToSubscribers

(* Steps that deliver nothing and after which every client that is listed  *)
(* was listed under the same server and denotes the same connection as     *)
(* before, or has received nothing.                                        *)
LEMMA ListsStay ==
  ASSUME FromItsServer, UNCHANGED got,
         \A k \in DOMAIN infos' :
           \/ Range(infos'[k].client_socket_list) = {}
           \/ \E i \in DOMAIN infos :
                /\ infos'[k].server_fd = infos[i].server_fd
                /\ sock'[infos'[k].server_fd] = sock[infos[i].server_fd]
                /\ \A fd \in Range(infos'[k].client_socket_list) :
                     \/ fd \in Range(infos[i].client_socket_list) /\ sock'[fd] = sock[fd]
                     \/ DOMAIN got[sock'[fd]] = {}
  PROVE  FromItsServer'
BY DEF FromItsServer

LEMMA AcceptLists ==
  ASSUME OrderInv, AcceptNewConnect
  PROVE  FromItsServer'
<1>1. UNCHANGED <<infos, got>> /\ \A fd \in Fds : sock[fd] # NoConn => sock'[fd] = sock[fd]
  BY DEF OrderInv, ConformingInv, TypeOK, AcceptNewConnect, LowestFree, table
<1>2. \A i \in DOMAIN infos :
        /\ infos[i].server_fd \in Fds /\ sock[infos[i].server_fd] # NoConn
        /\ \A fd \in Range(infos[i].client_socket_list) : fd \in Fds /\ sock[fd] # NoConn
  BY InfoType DEF OrderInv, ConformingInv, ProtocolInv, TableDenotesPeers, Granted
<1>. QED  BY <1>1, <1>2, ListsStay DEF OrderInv

(* A step that closes descriptors and takes records or clients off the     *)
(* list: what is listed afterwards is open, so it is as it was.            *)
LEMMA CloseLists ==
  ASSUME OrderInv, ConformingInv', NEW S, Close(S), UNCHANGED got,
         \A k \in DOMAIN infos' : \E i \in DOMAIN infos :
           /\ infos'[k].server_fd = infos[i].server_fd
           /\ Range(infos'[k].client_socket_list) \subseteq Range(infos[i].client_socket_list)
  PROVE  FromItsServer'
<1>1. \A fd \in Fds : sock'[fd] # NoConn => sock'[fd] = sock[fd]
  BY DEF Close
<1>2. \A i \in DOMAIN infos :
        infos[i].server_fd \in Fds /\ Range(infos[i].client_socket_list) \subseteq Fds
  BY InfoType DEF OrderInv, ConformingInv
<1>3. \A k \in DOMAIN infos' :
        /\ sock'[infos'[k].server_fd] # NoConn
        /\ \A fd \in Range(infos'[k].client_socket_list) : sock'[fd] # NoConn
  BY DEF ConformingInv, ProtocolInv, TableDenotesPeers, Granted
<1>. QED  BY <1>1, <1>2, <1>3, ListsStay DEF OrderInv

LEMMA DisconnectLists ==
  ASSUME OrderInv, ConformingInv', NEW fd \in Fds, Disconnect(fd)
  PROVE  FromItsServer'
<1>1. infos \in Seq(MountPointInformation) /\ UNCHANGED got
  BY DEF OrderInv, ConformingInv, TypeOK, Disconnect
<1>2. ASSUME NEW i \in DOMAIN infos, DisconnectServer(fd, i) PROVE FromItsServer'
  <2>1. \A k \in DOMAIN infos' : \E j \in DOMAIN infos : j # i /\ infos'[k] = infos[j]
    BY <1>1, <1>2, RemoveAtKeeps DEF DisconnectServer
  <2>2. PICK S : Close(S)
    BY <1>2 DEF DisconnectServer
  <2>. QED  BY <1>1, <2>1, <2>2, CloseLists
<1>3. ASSUME NEW i \in DOMAIN infos, DisconnectClient(fd, i) PROVE FromItsServer'
  <2>. DEFINE list == infos[i].client_socket_list
  <2>1. PICK k \in DOMAIN list : infos' = [infos EXCEPT ![i].client_socket_list = RemoveAt(list, k)]
    BY <1>3 DEF DisconnectClient, IsFirst
  <2>2. list \in Seq(Fds) /\ IsInjective(list)
    BY InfoType DEF OrderInv, ConformingInv, ProtocolInv, ClientsOnce
  <2>3. Range(RemoveAt(list, k)) \subseteq Range(list)
    BY <2>2, RemoveAtInjective
  <2>4. \A j \in DOMAIN infos' :
          /\ j \in DOMAIN infos /\ infos'[j].server_fd = infos[j].server_fd
          /\ Range(infos'[j].client_socket_list) \subseteq Range(infos[j].client_socket_list)
    BY <1>1, <2>1, <2>3, InfoType DEF OrderInv, ConformingInv, MountPointInformation
  <2>5. Close({fd})
    BY <1>3 DEF DisconnectClient
  <2>. QED  BY <1>1, <2>4, <2>5, CloseLists
<1>4. CASE DisconnectUnknown(fd)
  BY <1>1, <1>4, CloseLists DEF DisconnectUnknown, table
<1>. QED  BY <1>2, <1>3, <1>4 DEF Disconnect

LEMMA RegisterLists ==
  ASSUME OrderInv, ConformingInv', NEW fd \in Fds, ServerConnectRequest(fd)
  PROVE  FromItsServer'
<1>1. infos \in Seq(MountPointInformation) /\ infos' \in Seq(MountPointInformation)
      /\ UNCHANGED got
  BY DEF OrderInv, ConformingInv, TypeOK, ServerConnectRequest
<1>2. CASE Close({fd}) /\ UNCHANGED infos
  BY <1>1, <1>2, CloseLists
<1>3. ASSUME NEW info, info.client_socket_list = <<>>, infos' = Append(infos, info),
             UNCHANGED sock
      PROVE  FromItsServer'
  <2>1. \A k \in DOMAIN infos' :
          (k \in DOMAIN infos /\ infos'[k] = infos[k]) \/ infos'[k] = info
    <3>1. infos \in Seq(MountPointInformation \cup {info})
      BY <1>1
    <3>. QED  BY <1>3, <3>1, AppendProperties, LenProperties
  <2>2. Range(<<>>) = {}
    BY DEF Range
  <2>. QED  BY <1>1, <1>3, <2>1, <2>2, ListsStay DEF OrderInv
<1>. QED  BY <1>2, <1>3 DEF ServerConnectRequest, table

LEMMA SubscribeLists ==
  ASSUME OrderInv, ConformingInv', NEW fd \in Fds, ClientConnectRequest(fd)
  PROVE  FromItsServer'
<1>1. HasChunk(fd) /\ Chunk(fd).kind = "get" /\ UNCHANGED got
      /\ infos \in Seq(MountPointInformation)
  BY DEF OrderInv, ConformingInv, TypeOK, ClientConnectRequest
<1>2. CASE Close({fd}) /\ UNCHANGED infos
  BY <1>1, <1>2, CloseLists
<1>3. ASSUME NEW i \in DOMAIN infos, UNCHANGED sock,
             infos' = [infos EXCEPT ![i].client_socket_list = Append(@, fd)]
      PROVE  FromItsServer'
  <2>. DEFINE list == infos[i].client_socket_list
  <2>1. sock[fd] \in Conns /\ DOMAIN got[sock[fd]] = {}
    BY <1>1, RequestUngranted, UngrantedUnserved DEF OrderInv, ConformingInv, TypeOK, HasChunk
  <2>2. list \in Seq(Fds)
    BY InfoType DEF OrderInv, ConformingInv
  <2>3. Range(Append(list, fd)) \subseteq Range(list) \cup {fd}
    BY <2>2, AppendProperties, LenProperties DEF Range
  <2>4. \A j \in DOMAIN infos' :
          /\ j \in DOMAIN infos /\ infos'[j].server_fd = infos[j].server_fd
          /\ Range(infos'[j].client_socket_list)
               \subseteq Range(infos[j].client_socket_list) \cup {fd}
    BY <1>1, <1>3, <2>3, InfoType DEF OrderInv, ConformingInv, MountPointInformation
  <2>. QED  BY <1>1, <1>3, <2>1, <2>4, ListsStay DEF OrderInv
<1>. QED  BY <1>2, <1>3 DEF ClientConnectRequest

-----------------------------------------------------------------------------
(* Forwarding.                                                             *)

(* A client gets the chunk once at most: the list does not repeat it.      *)
LEMMA ForwardDelivers ==
  ASSUME ConformingInv, NEW fd \in Fds, Forward(fd)
  PROVE  /\ HasChunk(fd) /\ IsPayload(Chunk(fd)) /\ UNCHANGED <<infos, sock, sent>>
         /\ Receive(fd)
         /\ \E i \in DOMAIN infos :
              /\ infos[i].server_fd = fd
              /\ \A c \in Conns :
                   \/ got'[c] = got[c]
                   \/ /\ got'[c] = Append(got[c], Chunk(fd))
                      /\ \E g \in Range(infos[i].client_socket_list) : sock[g] = c
<1>0. PICK i \in DOMAIN infos :
        \E lost \in SUBSET DOMAIN infos[i].client_socket_list :
          TryToForwardServerData(fd, i, lost)
  BY DEF Forward
<1>1. PICK lost \in SUBSET DOMAIN infos[i].client_socket_list :
        TryToForwardServerData(fd, i, lost)
  BY <1>0
<1>. DEFINE list == infos[i].client_socket_list
            d == Chunk(fd)
            copies(c) == {k \in DOMAIN list \ lost :
                            sock[list[k]] = c /\ conn[c] = "open"}
            N(c) == Cardinality(copies(c))
            new(c) == [k \in 1..N(c) |-> d]
<1>2. /\ HasChunk(fd) /\ Receive(fd) /\ IsPayload(d) /\ infos[i].server_fd = fd
      /\ UNCHANGED <<infos, sock, sent>>
      /\ got' = [c \in Conns |-> got[c] \o new(c)]
  BY <1>1 DEF TryToForwardServerData, FeedsAt, table, peers, IsPayload
<1>3. list \in Seq(Fds) /\ DOMAIN list = 1..Len(list) /\ IsInjective(list)
  BY InfoType, LenProperties DEF ConformingInv, ProtocolInv, ClientsOnce
<1>4. d \in Payload
  BY <1>2, ReceiveType, KindOf DEF ConformingInv, IsPayload
<1>5. ASSUME NEW c \in Conns
      PROVE  copies(c) = {} \/ \E k \in DOMAIN list : copies(c) = {k} /\ sock[list[k]] = c
  <2>1. \A k \in copies(c) : k \in DOMAIN list /\ list[k] \in Fds /\ sock[list[k]] = c
    BY <1>3, LenProperties
  <2>2. c # NoConn
    BY CasterAssumption
  <2>3. \A j, k \in copies(c) : list[j] = list[k]
    BY <2>1, <2>2 DEF ConformingInv, ProtocolInv, DescriptorsApart
  <2>4. \A j, k \in copies(c) : j = k
    BY <1>3, <2>1, <2>3 DEF IsInjective
  <2>. HIDE DEF copies, list
  <2>. QED  BY <2>1, <2>4
<1>6. ASSUME NEW c \in Conns
      PROVE  \/ N(c) = 0
             \/ N(c) = 1 /\ \E g \in Range(list) : sock[g] = c
  <2>1. CASE copies(c) = {}
    <3>. HIDE DEF copies
    <3>. QED  BY <2>1, FS_EmptySet
  <2>2. ASSUME NEW k \in DOMAIN list, copies(c) = {k}, sock[list[k]] = c
        PROVE  N(c) = 1 /\ \E g \in Range(list) : sock[g] = c
    <3>1. list[k] \in Range(list)
      BY DEF Range
    <3>. HIDE DEF copies, list
    <3>. QED  BY <2>2, <3>1, FS_Singleton
  <2>. HIDE DEF copies, list, N
  <2>. QED  BY <1>5, <2>1, <2>2
<1>7. ASSUME NEW c \in Conns
      PROVE  \/ got'[c] = got[c]
             \/ got'[c] = Append(got[c], d) /\ \E g \in Range(list) : sock[g] = c
  <2>1. got[c] \in Seq(Payload) /\ got'[c] = got[c] \o new(c)
    BY <1>2 DEF ConformingInv, TypeOK
  <2>2. CASE N(c) = 0
    <3>1. new(c) = <<>>
      <4>. HIDE DEF N, d
      <4>. QED  BY <2>2
    <3>. QED  BY <2>1, <3>1, ConcatEmptySeq
  <2>3. CASE N(c) = 1 /\ \E g \in Range(list) : sock[g] = c
    <3>1. new(c) = <<d>>
      <4>. HIDE DEF N, d
      <4>. QED  BY <2>3
    <3>2. got[c] \o <<d>> = Append(got[c], d)
      <4>. HIDE DEF d
      <4>. QED  BY <1>4, <2>1, AppendIsConcat
    <3>. QED  BY <2>1, <2>3, <3>1, <3>2
  <2>. HIDE DEF N, new, d, list
  <2>. QED  BY <1>6, <2>2, <2>3
<1>. QED  BY <1>2, <1>7

(* The chunk in hand comes from the server of the record, after all that   *)
(* were delivered, and before those that wait behind it.                   *)
LEMMA ChunkInOrder ==
  ASSUME OrderInv, NEW fd \in Fds, HasChunk(fd), IsPayload(Chunk(fd)), Receive(fd),
         UNCHANGED sent
  PROVE  /\ Chunk(fd).src = sock[fd]
         /\ \A c \in Conns, n \in Nat : c = sock[fd] /\ n = Chunk(fd).n => Before(c, n)'
         /\ \A c \in Conns : \A j \in DOMAIN got[c] :
              got[c][j].src = sock[fd] => got[c][j].n < Chunk(fd).n
<1>. DEFINE s == sock[fd]  d == Chunk(fd)
<1>1. /\ s \in Conns /\ 1 \in DOMAIN inbox[s] /\ d = inbox[s][1]
      /\ inbox[s] \in Seq(Message) /\ inbox[s] # <<>>
  BY ReceiveType DEF OrderInv, ConformingInv, TypeOK, HasChunk
<1>2. d.src = s /\ d.n <= sent[s]
  BY <1>1 DEF OrderInv, InboxInOrder
<1>3. /\ \A k \in DOMAIN inbox'[s] :
           k + 1 \in DOMAIN inbox[s] /\ inbox'[s][k] = inbox[s][k + 1] /\ 1 \in 1..((k + 1) - 1)
  <2>1. inbox'[s] = Tail(inbox[s])
    BY <1>1 DEF OrderInv, ConformingInv, TypeOK, Receive
  <2>2. /\ Tail(inbox[s]) \in Seq(Message) /\ Len(Tail(inbox[s])) = Len(inbox[s]) - 1
        /\ \A k \in 1..Len(Tail(inbox[s])) : Tail(inbox[s])[k] = inbox[s][k + 1]
    BY <1>1, HeadTailProperties
  <2>3. DOMAIN Tail(inbox[s]) = 1..Len(Tail(inbox[s])) /\ DOMAIN inbox[s] = 1..Len(inbox[s])
        /\ Len(inbox[s]) \in Nat
    BY <1>1, <2>2, LenProperties
  <2>. HIDE DEF s
  <2>. QED  BY <2>1, <2>2, <2>3
<1>4. ASSUME NEW k \in DOMAIN inbox'[s], IsPayload(inbox'[s][k])
      PROVE  d.n < inbox'[s][k].n
  <2>1. PICK h \in DOMAIN inbox[s] : inbox'[s][k] = inbox[s][h] /\ 1 \in 1..(h - 1)
    BY <1>3
  <2>. QED  BY <1>1, <1>4, <2>1 DEF OrderInv, InboxInOrder
<1>5. ASSUME NEW c \in Conns, NEW j \in DOMAIN got[c], got[c][j].src = s
      PROVE  got[c][j].n < d.n
  <2>1. Before(s, got[c][j].n)
    BY <1>5 DEF OrderInv, GotBefore
  <2>. QED  BY <1>1, <2>1 DEF Before
<1>6. sock[fd] = s
  OBVIOUS
<1>7. /\ d.n <= sent'[s]
      /\ \A k \in DOMAIN inbox'[s] : IsPayload(inbox'[s][k]) => d.n < inbox'[s][k].n
  BY <1>2, <1>4
<1>. QED  BY <1>2, <1>5, <1>7 DEF Before

LEMMA ForwardOrder ==
  ASSUME OrderInv, [Next]_vars, NEW fd \in Fds, Forward(fd)
  PROVE  GotBefore' /\ FromItsServer' /\ OneSourceInOrder'
<1>. DEFINE d == Chunk(fd)
<1>1. /\ HasChunk(fd) /\ IsPayload(d) /\ UNCHANGED <<infos, sock, sent>> /\ Receive(fd)
      /\ ConformingInv /\ TypeOK
  BY ForwardDelivers DEF OrderInv, ConformingInv
<1>2. PICK i \in DOMAIN infos :
        /\ infos[i].server_fd = fd
        /\ \A c \in Conns : \A k \in DOMAIN got'[c] :
             /\ k \in Nat
             /\ \/ k \in DOMAIN got[c] /\ got'[c][k] = got[c][k]
                \/ /\ got'[c][k] = d /\ \A j \in DOMAIN got'[c] : j <= k
                   /\ \E g \in Range(infos[i].client_socket_list) : sock[g] = c
  <2>1. PICK i \in DOMAIN infos :
          /\ infos[i].server_fd = fd
          /\ \A c \in Conns :
               \/ got'[c] = got[c]
               \/ /\ got'[c] = Append(got[c], d)
                  /\ \E g \in Range(infos[i].client_socket_list) : sock[g] = c
    BY ForwardDelivers DEF OrderInv
  <2>2. d \in Payload
    BY <1>1, ReceiveType, KindOf DEF IsPayload
  <2>3. ASSUME NEW c \in Conns
        PROVE  /\ DOMAIN got[c] = 1..Len(got[c]) /\ Len(got[c]) \in Nat
               /\ DOMAIN Append(got[c], d) = 1..(Len(got[c]) + 1)
               /\ \A k \in 1..Len(got[c]) : Append(got[c], d)[k] = got[c][k]
               /\ Append(got[c], d)[Len(got[c]) + 1] = d
    <3>1. got[c] \in Seq(Payload)
      BY <1>1 DEF TypeOK
    <3>. HIDE DEF d
    <3>. QED  BY <2>2, <3>1, AppendProperties, LenProperties
  <2>. HIDE DEF d
  <2>. QED  BY <2>1, <2>3
<1>3. /\ d.src = sock[fd]
      /\ \A c \in Conns, n \in Nat : c = sock[fd] /\ n = d.n => Before(c, n)'
      /\ \A c \in Conns : \A j \in DOMAIN got[c] : got[c][j].src = sock[fd] => got[c][j].n < d.n
  BY <1>1, ChunkInOrder
<1>4. sock[fd] \in Conns /\ d.n \in Nat
  <2>1. d \in Payload
    BY <1>1, ReceiveType, KindOf DEF IsPayload
  <2>. QED  BY <1>1, <2>1, ReceiveType DEF Payload
<1>5. GotBefore'
  <2>1. ASSUME NEW c \in Conns, NEW k \in DOMAIN got'[c]
        PROVE  Before(got[c][k].src, got[c][k].n)'
    <3>1. ASSUME NEW src \in Conns, NEW n \in Nat, Before(src, n)',
                 got'[c][k].src = src, got'[c][k].n = n
          PROVE  Before(got[c][k].src, got[c][k].n)'
      BY <3>1 DEF Before
    <3>2. CASE k \in DOMAIN got[c] /\ got'[c][k] = got[c][k]
      <4>1. PICK src \in Conns, n \in Nat : src = got[c][k].src /\ n = got[c][k].n
        BY <1>1, <3>2, GotType
      <4>2. Before(src, n)
        BY <3>2, <4>1 DEF OrderInv, GotBefore
      <4>3. Before(src, n)'
        BY <1>1, <4>2, BeforeStays
      <4>. QED  BY <3>1, <3>2, <4>1, <4>3
    <3>3. CASE got'[c][k] = d
      <4>1. PICK src \in Conns, n \in Nat : src = sock[fd] /\ n = d.n
        BY <1>4
      <4>2. Before(src, n)'
        BY <1>3, <4>1
      <4>. QED  BY <1>3, <3>1, <3>3, <4>1, <4>2
    <3>. QED  BY <1>2, <3>2, <3>3
  <2>. QED  BY <2>1 DEF GotBefore
(* A client of another record is none of this one.                         *)
<1>6. FromItsServer'
  <2>1. ASSUME NEW h \in DOMAIN infos, NEW g \in Range(infos[h].client_socket_list),
               NEW k \in DOMAIN got'[sock[g]]
        PROVE  got'[sock[g]][k].src = sock[infos[h].server_fd]
    <3>1. g \in Fds /\ sock[g] # NoConn /\ sock[g] \in Conns
      BY <1>1, InfoType DEF ConformingInv, ProtocolInv, TableDenotesPeers, Granted, TypeOK
    <3>2. CASE k \in DOMAIN got[sock[g]] /\ got'[sock[g]][k] = got[sock[g]][k]
      BY <3>2 DEF OrderInv, FromItsServer
    <3>3. ASSUME got'[sock[g]][k] = d,
                 NEW f \in Range(infos[i].client_socket_list), sock[f] = sock[g]
          PROVE  got'[sock[g]][k].src = sock[infos[h].server_fd]
      <4>1. f \in Fds
        BY <1>1, InfoType
      <4>2. f = g
        BY <1>1, <3>1, <3>3, <4>1 DEF ConformingInv, ProtocolInv, DescriptorsApart
      <4>3. h = i
        BY <1>1, <3>1, <4>2, OnePlace DEF Mentions
      <4>. QED  BY <1>2, <1>3, <3>3, <4>3
    <3>. QED  BY <1>2, <3>1, <3>2, <3>3
  <2>. QED  BY <1>1, <2>1 DEF FromItsServer
<1>7. OneSourceInOrder'
  <2>1. ASSUME NEW c \in Conns, NEW j \in DOMAIN got'[c], NEW k \in DOMAIN got'[c], j < k
        PROVE  got'[c][j].src = got'[c][k].src /\ got'[c][j].n < got'[c][k].n
    <3>1. j \in DOMAIN got[c] /\ got'[c][j] = got[c][j] /\ j \in Nat /\ k \in Nat
      BY <1>2, <2>1
    <3>2. CASE k \in DOMAIN got[c] /\ got'[c][k] = got[c][k]
      BY <2>1, <3>1, <3>2 DEF OrderInv, OneSourceInOrder
    <3>3. ASSUME got'[c][k] = d, NEW g \in Range(infos[i].client_socket_list), sock[g] = c
          PROVE  got'[c][j].src = got'[c][k].src /\ got'[c][j].n < got'[c][k].n
      <4>1. got[c][j].src = sock[fd]
        BY <1>2, <3>1, <3>3 DEF OrderInv, FromItsServer
      <4>. QED  BY <1>3, <3>1, <3>3, <4>1
    <3>. QED  BY <1>2, <3>2, <3>3
  <2>. QED  BY <2>1 DEF OneSourceInOrder
<1>. QED  BY <1>5, <1>6, <1>7

-----------------------------------------------------------------------------
LEMMA OrderInit == Init => OrderInv
<1>. SUFFICES ASSUME Init PROVE OrderInv
  OBVIOUS
<1>1. ConformingInv
  BY ConformingInit
<1>2. /\ infos = <<>> /\ \A c \in Conns : inbox[c] = <<>> /\ got[c] = <<>>
      /\ DOMAIN <<>> = {}
  BY DEF Init
<1>. QED  BY <1>1, <1>2
          DEF OrderInv, InboxInOrder, GotBefore, FromItsServer, OneSourceInOrder

LEMMA OrderStep == OrderInv /\ [ConformingNext]_vars => OrderInv'
<1>. SUFFICES ASSUME OrderInv, [ConformingNext]_vars PROVE OrderInv'
  OBVIOUS
<1>1. [Next]_vars /\ TypeOK /\ ConformingInv'
  BY ConformingStep DEF ConformingNext, Next, OrderInv, ConformingInv
<1>2. InboxInOrder'
  BY <1>1, InboxOrderStep DEF OrderInv
<1>3. ASSUME UNCHANGED got PROVE GotBefore' /\ OneSourceInOrder'
  BY <1>1, <1>3, GotBeforeStays DEF OrderInv, OneSourceInOrder
<1>4. ASSUME UNCHANGED <<infos, sock, got>> PROVE FromItsServer'
  BY <1>4 DEF OrderInv, FromItsServer
<1>5. ASSUME NEW fd \in Fds, HandleEvent(fd)
      PROVE  GotBefore' /\ FromItsServer' /\ OneSourceInOrder'
  <2>1. CASE Forward(fd)
    BY <1>1, <2>1, ForwardOrder
  <2>2. CASE Disconnect(fd)
    <3>1. UNCHANGED got
      BY <2>2 DEF Disconnect
    <3>. QED  BY <1>1, <1>3, <2>2, <3>1, DisconnectLists
  <2>3. CASE ServerConnectRequest(fd)
    <3>1. UNCHANGED got
      BY <2>3 DEF ServerConnectRequest
    <3>. QED  BY <1>1, <1>3, <2>3, <3>1, RegisterLists
  <2>4. CASE ClientConnectRequest(fd)
    <3>1. UNCHANGED got
      BY <2>4 DEF ClientConnectRequest
    <3>. QED  BY <1>1, <1>3, <2>4, <3>1, SubscribeLists
  <2>5. CASE NotAServer(fd)
    <3>1. UNCHANGED <<infos, got>> /\ (Close({fd}) \/ UNCHANGED sock)
      BY <2>5 DEF NotAServer, table
    <3>. QED  BY <1>1, <1>3, <1>4, <3>1, CloseLists
  <2>6. CASE KilledBySigPipe(fd)
    BY <1>3, <1>4, <2>6 DEF KilledBySigPipe, table
  <2>. QED  BY <1>5, <2>1, <2>2, <2>3, <2>4, <2>5, <2>6 DEF HandleEvent
<1>6. CASE AcceptNewConnect
  <2>1. UNCHANGED got
    BY <1>6 DEF AcceptNewConnect
  <2>. QED  BY <1>1, <1>2, <1>3, <1>6, <2>1, AcceptLists DEF OrderInv
<1>7. CASE EpollWait \/ EpollError
  BY <1>1, <1>2, <1>3, <1>4, <1>7 DEF EpollWait, EpollError, table, OrderInv
<1>8. ASSUME NEW c \in Conns, PeerStep(c) \/ \E m \in Sayable(c) : PeerSend(c, m)
      PROVE  UNCHANGED <<infos, sock, got>>
  BY <1>8 DEF PeerStep, PeerConnect, PeerClose, PeerReset, PeerSend, table
<1>9. CASE UNCHANGED vars
  BY <1>1, <1>2, <1>3, <1>4, <1>9 DEF vars, OrderInv
<1>. QED  BY <1>1, <1>2, <1>3, <1>4, <1>5, <1>6, <1>7, <1>8, <1>9
          DEF ConformingNext, Loop, OrderInv

LEMMA OrderInvariant == ConformingSpec => []OrderInv
BY OrderInit, OrderStep, PTL DEF ConformingSpec

(* While the peers follow the protocol, what a connection receives comes   *)
(* from one server, in the order it was sent, nothing twice.               *)
THEOREM OneSourceAndInOrder == ConformingSpec => []OneSourceInOrder
<1>1. OrderInv => OneSourceInOrder
  BY DEF OrderInv
<1>. QED  BY <1>1, OrderInvariant, PTL
=============================================================================
