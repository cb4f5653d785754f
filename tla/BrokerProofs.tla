---------------------------- MODULE BrokerProofs ----------------------------
(***************************************************************************)
(* The caster implements the broker, for any sets of connections,          *)
(* descriptors, mount points and requests, as long as the peers follow the *)
(* protocol: each of its steps registers or retires a publisher, adds or   *)
(* removes a subscriber, delivers one payload, or changes nothing a peer   *)
(* could tell.                                                             *)
(***************************************************************************)
EXTENDS OrderProofs

-----------------------------------------------------------------------------
(* The refinement mapping, record by record.                               *)
View ==
  /\ DOMAIN Publisher = MountPoints /\ DOMAIN Subscribers = MountPoints
  /\ \A i \in DOMAIN infos :
       /\ infos[i].mountpoint \in MountPoints
       /\ Publisher[infos[i].mountpoint] = sock[infos[i].server_fd]
       /\ Subscribers[infos[i].mountpoint] =
            {sock[fd] : fd \in Range(infos[i].client_socket_list)}
  /\ \A mp \in MountPoints :
       \/ \E i \in DOMAIN infos : infos[i].mountpoint = mp
       \/ Publisher[mp] = NoConn /\ Subscribers[mp] = {}

(* A mount point has one record, so the mapping finds it.                  *)
LEMMA ViewHolds == TypeOK /\ MountPointsUnique => View
<1>. SUFFICES ASSUME TypeOK, MountPointsUnique PROVE View
  OBVIOUS
<1>1. ASSUME NEW i \in DOMAIN infos
      PROVE  /\ infos[i].mountpoint \in MountPoints /\ MountUsed(infos[i].mountpoint)
             /\ RecordOf(infos[i].mountpoint) = i
  <2>1. infos[i].mountpoint \in MountPoints
    BY InfoType
  <2>2. \A j \in DOMAIN infos : infos[j].mountpoint = infos[i].mountpoint => j = i
    BY DEF MountPointsUnique
  <2>. QED  BY <2>1, <2>2 DEF MountUsed, RecordOf
<1>2. ASSUME NEW i \in DOMAIN infos
      PROVE  /\ Publisher[infos[i].mountpoint] = sock[infos[i].server_fd]
             /\ Subscribers[infos[i].mountpoint] =
                  {sock[fd] : fd \in Range(infos[i].client_socket_list)}
  BY <1>1 DEF Publisher, Subscribers
<1>3. ASSUME NEW mp \in MountPoints, ~\E i \in DOMAIN infos : infos[i].mountpoint = mp
      PROVE  Publisher[mp] = NoConn /\ Subscribers[mp] = {}
  BY <1>3 DEF Publisher, Subscribers, MountUsed
<1>4. DOMAIN Publisher = MountPoints /\ DOMAIN Subscribers = MountPoints
  BY DEF Publisher, Subscribers
<1>. QED  BY <1>1, <1>2, <1>3, <1>4 DEF View

(* The mapping in terms of the list, on both sides of a step.              *)
LEMMA ViewKept == OrderInv /\ OrderInv' => View /\ View'
<1>1. OrderInv => View
  BY ViewHolds DEF OrderInv, ConformingInv
<1>. QED  BY <1>1, PTL

(* A descriptor open before and after a step denotes the same connection.  *)
LEMMA SockStays ==
  ASSUME TypeOK, [Next]_vars, NEW fd \in Fds, sock[fd] # NoConn, sock'[fd] # NoConn
  PROVE  sock'[fd] = sock[fd]
<1>1. CASE UNCHANGED sock
  BY <1>1
<1>2. ASSUME NEW S, Close(S) PROVE sock'[fd] = sock[fd]
  BY <1>2 DEF Close
<1>3. CASE AcceptNewConnect
  BY <1>3 DEF TypeOK, AcceptNewConnect, LowestFree
<1>4. ASSUME NEW g \in Fds, HandleEvent(g) PROVE sock'[fd] = sock[fd]
  <2>1. CASE Disconnect(g)
    BY <1>1, <1>2, <2>1 DEF Disconnect, DisconnectServer, DisconnectClient, DisconnectUnknown
  <2>2. CASE ServerConnectRequest(g)
    BY <1>1, <1>2, <2>2 DEF ServerConnectRequest
  <2>3. CASE ClientConnectRequest(g)
    BY <1>1, <1>2, <2>3 DEF ClientConnectRequest
  <2>4. CASE Forward(g) \/ NotAServer(g) \/ KilledBySigPipe(g)
    BY <1>1, <1>2, <2>4 DEF Forward, TryToForwardServerData, NotAServer, KilledBySigPipe
  <2>. QED  BY <1>4, <2>1, <2>2, <2>3, <2>4 DEF HandleEvent
<1>5. CASE EpollWait \/ EpollError
  BY <1>5 DEF EpollWait, EpollError
<1>6. ASSUME NEW c \in Conns, PeerStep(c) \/ \E m \in Sayable(c) : PeerSend(c, m)
      PROVE  UNCHANGED sock
  BY <1>6 DEF PeerStep, PeerConnect, PeerClose, PeerReset, PeerSend
<1>7. CASE UNCHANGED vars
  BY <1>7 DEF vars
<1>. QED  BY <1>1, <1>3, <1>4, <1>5, <1>6, <1>7 DEF Next, Loop

(* What is listed is open.                                                 *)
Listed(i) ==
  /\ infos[i].server_fd \in Fds /\ sock[infos[i].server_fd] # NoConn
  /\ \A fd \in Range(infos[i].client_socket_list) : fd \in Fds /\ sock[fd] # NoConn

LEMMA AllListed == ConformingInv => \A i \in DOMAIN infos : Listed(i)
BY InfoType DEF ConformingInv, ProtocolInv, TableDenotesPeers, Granted, Listed

(* And so it is after a step.                                              *)
LEMMA ListedNext == ConformingInv' => \A i \in DOMAIN infos' : Listed(i)'
<1>1. (ConformingInv => \A i \in DOMAIN infos : Listed(i))'
  BY AllListed, PTL
<1>. QED  BY <1>1
-----------------------------------------------------------------------------
(* One record, or none, before and after a step.                           *)
LEMMA RecordKept ==
  ASSUME OrderInv, OrderInv', [Next]_vars, NEW j \in DOMAIN infos, NEW k \in DOMAIN infos',
         infos'[k].mountpoint = infos[j].mountpoint, infos'[k].server_fd = infos[j].server_fd
  PROVE  /\ Publisher'[infos[j].mountpoint] = Publisher[infos[j].mountpoint]
         /\ Range(infos'[k].client_socket_list) = Range(infos[j].client_socket_list) =>
              Subscribers'[infos[j].mountpoint] = Subscribers[infos[j].mountpoint]
<1>1. View /\ View' /\ TypeOK
  BY ViewKept DEF OrderInv, ConformingInv
<1>2. \A fd \in Fds : sock[fd] # NoConn /\ sock'[fd] # NoConn => sock'[fd] = sock[fd]
  BY <1>1, SockStays
<1>3. Listed(j) /\ Listed(k)'
  BY AllListed, ListedNext DEF OrderInv
<1>4. sock'[infos'[k].server_fd] = sock[infos[j].server_fd]
  BY <1>2, <1>3 DEF Listed
<1>5. Publisher'[infos[j].mountpoint] = Publisher[infos[j].mountpoint]
  BY <1>1, <1>4 DEF View
<1>6. ASSUME Range(infos'[k].client_socket_list) = Range(infos[j].client_socket_list)
      PROVE  Subscribers'[infos[j].mountpoint] = Subscribers[infos[j].mountpoint]
  <2>1. \A fd \in Range(infos[j].client_socket_list) : sock'[fd] = sock[fd]
    BY <1>2, <1>3, <1>6 DEF Listed
  <2>2. {sock'[fd] : fd \in Range(infos'[k].client_socket_list)} =
          {sock[fd] : fd \in Range(infos[j].client_socket_list)}
    BY <1>6, <2>1
  <2>3. /\ Subscribers'[infos'[k].mountpoint] =
               {sock'[fd] : fd \in Range(infos'[k].client_socket_list)}
        /\ Subscribers[infos[j].mountpoint] =
               {sock[fd] : fd \in Range(infos[j].client_socket_list)}
    BY <1>1 DEF View
  <2>. QED  BY <2>2, <2>3
<1>. QED  BY <1>5, <1>6

Used(list, mp) == \E i \in DOMAIN list : list[i].mountpoint = mp

(* A mount point unused before and after.                                  *)
LEMMA UnusedStays ==
  ASSUME OrderInv, OrderInv', NEW mp \in MountPoints, ~Used(infos, mp), ~Used(infos', mp)
  PROVE  Publisher'[mp] = Publisher[mp] /\ Subscribers'[mp] = Subscribers[mp]
BY ViewKept DEF View, Used

(* The mapping after a step, point by point.                               *)
LEMMA MappingIs ==
  ASSUME NEW P, NEW Q, P = [mp \in MountPoints |-> P[mp]], Q = [mp \in MountPoints |-> Q[mp]],
         \A mp \in MountPoints : Publisher'[mp] = P[mp] /\ Subscribers'[mp] = Q[mp]
  PROVE  Publisher' = P /\ Subscribers' = Q
<1>1. /\ Publisher' = [mp \in MountPoints |-> Publisher'[mp]]
      /\ Subscribers' = [mp \in MountPoints |-> Subscribers'[mp]]
  BY DEF Publisher, Subscribers
<1>. QED  BY <1>1

(* And before it.                                                          *)
LEMMA MappingNow ==
  /\ Publisher = [mp \in MountPoints |-> Publisher[mp]]
  /\ Subscribers = [mp \in MountPoints |-> Subscribers[mp]]
BY DEF Publisher, Subscribers

-----------------------------------------------------------------------------
(* The steps.                                                              *)
(* A step that leaves the list alone leaves the mapping alone.             *)
LEMMA SameLists ==
  ASSUME OrderInv, OrderInv', [Next]_vars, UNCHANGED infos
  PROVE  UNCHANGED <<Publisher, Subscribers>>
<1>1. ASSUME NEW mp \in MountPoints
      PROVE  Publisher'[mp] = Publisher[mp] /\ Subscribers'[mp] = Subscribers[mp]
  <2>1. CASE Used(infos, mp)
    BY <2>1, RecordKept DEF Used
  <2>2. CASE ~Used(infos, mp)
    BY <2>2, UnusedStays
  <2>. QED  BY <2>1, <2>2
<1>. QED  BY <1>1, MappingNow, MappingIs

(* A connection without a grant has no part in the broker.                 *)
LEMMA UngrantedUncommitted ==
  ASSUME OrderInv, NEW c \in Conns, grants[c] = {}
  PROVE  Promise!Uncommitted(c)
<1>1. View
  BY ViewHolds DEF OrderInv, ConformingInv
<1>2. c # NoConn
  BY CasterAssumption
<1>3. ASSUME NEW i \in DOMAIN infos
      PROVE  /\ sock[infos[i].server_fd] # c
             /\ \A fd \in Range(infos[i].client_socket_list) : sock[fd] # c
  BY DEF OrderInv, ConformingInv, ProtocolInv, TableDenotesPeers, Granted
<1>4. ASSUME NEW mp \in MountPoints
      PROVE  Publisher[mp] # c /\ c \notin Subscribers[mp]
  BY <1>1, <1>2, <1>3 DEF View
<1>. QED  BY <1>4 DEF Promise!Uncommitted

(* The end of a server retires its mount point, followers included.        *)
LEMMA RetireSimulated ==
  ASSUME OrderInv, OrderInv', [Next]_vars, NEW fd \in Fds, NEW i \in DOMAIN infos,
         DisconnectServer(fd, i), UNCHANGED got
  PROVE  Promise!Retire(infos[i].mountpoint)
<1>. DEFINE mp == infos[i].mountpoint
<1>1. View /\ View' /\ infos \in Seq(MountPointInformation) /\ MountPointsUnique
  BY ViewKept DEF OrderInv, ConformingInv, TypeOK
<1>2. /\ \A k \in DOMAIN infos' : \E j \in DOMAIN infos : j # i /\ infos'[k] = infos[j]
      /\ \A j \in DOMAIN infos : j # i => \E k \in DOMAIN infos' : infos'[k] = infos[j]
  BY <1>1, RemoveAtKeeps DEF DisconnectServer
<1>3. mp \in MountPoints /\ Publisher[mp] # NoConn
  BY <1>1, AllListed DEF OrderInv, View, Listed
<1>4. ~Used(infos', mp)
  BY <1>1, <1>2 DEF Used, MountPointsUnique
<1>5. Publisher'[mp] = NoConn /\ Subscribers'[mp] = {}
  BY <1>1, <1>3, <1>4 DEF View, Used
<1>6. ASSUME NEW q \in MountPoints, q # mp
      PROVE  Publisher'[q] = Publisher[q] /\ Subscribers'[q] = Subscribers[q]
  <2>1. ASSUME NEW j \in DOMAIN infos, infos[j].mountpoint = q
        PROVE  Publisher'[q] = Publisher[q] /\ Subscribers'[q] = Subscribers[q]
    <3>1. PICK k \in DOMAIN infos' : infos'[k] = infos[j]
      BY <1>2, <1>6, <2>1
    <3>. QED  BY <2>1, <3>1, RecordKept
  <2>2. CASE ~Used(infos, q)
    <3>1. ~Used(infos', q)
      BY <1>2, <2>2 DEF Used
    <3>. QED  BY <2>2, <3>1, UnusedStays
  <2>. QED  BY <2>1, <2>2 DEF Used
<1>. DEFINE P == [Publisher EXCEPT ![mp] = NoConn]
            Q == [Subscribers EXCEPT ![mp] = {}]
<1>7. /\ P = [q \in MountPoints |-> P[q]] /\ Q = [q \in MountPoints |-> Q[q]]
      /\ \A q \in MountPoints : /\ P[q] = IF q = mp THEN NoConn ELSE Publisher[q]
                               /\ Q[q] = IF q = mp THEN {} ELSE Subscribers[q]
  BY <1>1 DEF View
<1>. HIDE DEF mp, P, Q
<1>8. Publisher' = P /\ Subscribers' = Q
  BY <1>5, <1>6, <1>7, MappingIs
<1>. QED  BY <1>3, <1>8 DEF Promise!Retire, mp, P, Q

(* The end of a client takes it off the subscribers of its mount point.    *)
LEMMA UnsubscribeSimulated ==
  ASSUME OrderInv, OrderInv', [Next]_vars, NEW fd \in Fds, NEW i \in DOMAIN infos,
         DisconnectClient(fd, i), UNCHANGED got
  PROVE  sock[fd] \in Conns /\ Promise!Unsubscribe(sock[fd], infos[i].mountpoint)
<1>. DEFINE mp == infos[i].mountpoint  list == infos[i].client_socket_list  c == sock[fd]
<1>1. /\ View /\ View' /\ infos \in Seq(MountPointInformation) /\ ConformingInv /\ TypeOK
      /\ ConformingInv'
  BY ViewKept DEF OrderInv, ConformingInv, TypeOK
<1>2. PICK k \in DOMAIN list :
        list[k] = fd /\ infos' = [infos EXCEPT ![i].client_socket_list = RemoveAt(list, k)]
  BY DEF DisconnectClient, IsFirst
<1>3. list \in Seq(Fds) /\ IsInjective(list)
  BY <1>1, InfoType DEF ConformingInv, ProtocolInv, ClientsOnce
<1>4. Range(RemoveAt(list, k)) = Range(list) \ {fd} /\ fd \in Range(list)
  BY <1>2, <1>3, RemoveAtInjective DEF Range
<1>5. /\ DOMAIN infos' = DOMAIN infos
      /\ infos'[i].client_socket_list = RemoveAt(list, k)
      /\ \A j \in DOMAIN infos :
           /\ infos'[j].server_fd = infos[j].server_fd
           /\ infos'[j].mountpoint = infos[j].mountpoint
           /\ j # i => infos'[j] = infos[j]
  BY <1>1, <1>2, InfoType DEF MountPointInformation
<1>6. mp \in MountPoints /\ Subscribers[mp] = {sock[g] : g \in Range(list)}
  BY <1>1 DEF View
<1>7. Publisher'[mp] = Publisher[mp]
  BY <1>5, RecordKept
<1>8. Subscribers'[mp] = {sock'[g] : g \in Range(list) \ {fd}}
  <2>1. Subscribers'[infos'[i].mountpoint] =
          {sock'[g] : g \in Range(infos'[i].client_socket_list)}
    BY <1>1, <1>5 DEF View
  <2>. QED  BY <1>4, <1>5, <2>1
<1>9. \A g \in Range(list) : g \in Fds /\ sock[g] # NoConn
  BY <1>1, AllListed DEF Listed
<1>10. \A g \in Range(list) \ {fd} : sock'[g] = sock[g] /\ sock[g] # c
  <2>1. \A g \in Range(list) \ {fd} : sock[g] # c
    BY <1>4, <1>9, <1>1 DEF ConformingInv, ProtocolInv, DescriptorsApart
  <2>. QED  BY <2>1, <1>9 DEF DisconnectClient, Close
<1>11. Subscribers'[mp] = Subscribers[mp] \ {c}
  <2>. HIDE DEF c, list, mp
  <2>1. Subscribers'[mp] = {sock[g] : g \in Range(list) \ {fd}}
    BY <1>8, <1>10
  <2>2. c = sock[fd]
    BY DEF c
  <2>. QED  BY <1>6, <1>10, <2>1, <2>2
<1>12. ASSUME NEW q \in MountPoints, q # mp
      PROVE  Publisher'[q] = Publisher[q] /\ Subscribers'[q] = Subscribers[q]
  <2>1. ASSUME NEW j \in DOMAIN infos, infos[j].mountpoint = q
        PROVE  Publisher'[q] = Publisher[q] /\ Subscribers'[q] = Subscribers[q]
    BY <1>5, <1>12, <2>1, RecordKept
  <2>2. CASE ~Used(infos, q)
    <3>1. ~Used(infos', q)
      BY <1>5, <2>2 DEF Used
    <3>. QED  BY <2>2, <3>1, UnusedStays
  <2>. QED  BY <2>1, <2>2 DEF Used
<1>. DEFINE Q == [Subscribers EXCEPT ![mp] = @ \ {c}]
<1>13. /\ Q = [q \in MountPoints |-> Q[q]]
       /\ \A q \in MountPoints : Q[q] = IF q = mp THEN Subscribers[mp] \ {c} ELSE Subscribers[q]
  BY <1>1 DEF View
<1>14. c \in Conns /\ c \in Subscribers[mp]
  BY <1>1, <1>4, <1>6, <1>9 DEF TypeOK
<1>. HIDE DEF mp, Q, c, list
<1>15. \A q \in MountPoints : Publisher'[q] = Publisher[q] /\ Subscribers'[q] = Q[q]
  BY <1>7, <1>11, <1>12, <1>13
<1>16. Publisher' = Publisher /\ Subscribers' = Q
  BY <1>13, <1>15, MappingNow, MappingIs
<1>. QED  BY <1>14, <1>16 DEF Promise!Unsubscribe, mp, Q, c

(* An accepted POST makes a publisher, a refused one changes nothing.      *)
LEMMA RegisterSimulated ==
  ASSUME OrderInv, OrderInv', [Next]_vars, NEW fd \in Fds, ServerConnectRequest(fd)
  PROVE  \/ UNCHANGED <<Publisher, Subscribers, got>>
         \/ \E c \in Conns, mp \in MountPoints : Promise!Register(c, mp)
<1>. DEFINE m == Chunk(fd)  mp == Chunk(fd).mount  c == sock[fd]
<1>1. /\ HasChunk(fd) /\ m.kind = "post" /\ UNCHANGED got /\ View /\ View'
      /\ infos \in Seq(MountPointInformation) /\ ConformingInv /\ TypeOK
  BY ViewKept DEF ServerConnectRequest, OrderInv, ConformingInv, TypeOK
<1>2. CASE UNCHANGED infos
  BY <1>1, <1>2, SameLists
<1>3. ASSUME Registrable(m), UNCHANGED sock,
             NEW info, info.server_fd = fd, info.mountpoint = mp, info.client_socket_list = <<>>,
             infos' = Append(infos, info)
      PROVE  \E x \in Conns, q \in MountPoints : Promise!Register(x, q)
  <2>1. m \in PostRequest
    BY <1>1, ReceiveType, KindOf
  <2>2. mp \in MountPoints /\ ~Used(infos, mp)
    BY <1>3, <2>1 DEF Registrable, PostRequest, Used, MountUsed
  <2>3. c \in Conns /\ Promise!Uncommitted(c)
    BY <1>1, ReceiveType, RequestUngranted, UngrantedUncommitted
  <2>4. /\ \A k \in DOMAIN infos : k \in DOMAIN infos' /\ infos'[k] = infos[k]
        /\ \A k \in DOMAIN infos' : k \in DOMAIN infos \/ infos'[k] = info
        /\ \E k \in DOMAIN infos' : infos'[k] = info
    <3>1. infos \in Seq(MountPointInformation \cup {info})
      BY <1>1
    <3>. QED  BY <1>3, <3>1, AppendProperties, LenProperties
  <2>5. Publisher[mp] = NoConn /\ Subscribers[mp] = {}
    BY <1>1, <2>2 DEF View, Used
  <2>6. Publisher'[mp] = c /\ Subscribers'[mp] = {}
    <3>1. PICK k \in DOMAIN infos' : infos'[k] = info
      BY <2>4
    <3>2. /\ Publisher'[infos'[k].mountpoint] = sock'[infos'[k].server_fd]
          /\ Subscribers'[infos'[k].mountpoint] =
               {sock'[g] : g \in Range(infos'[k].client_socket_list)}
      BY <1>1, <3>1 DEF View
    <3>3. Range(<<>>) = {}
      BY DEF Range
    <3>. QED  BY <1>3, <3>1, <3>2, <3>3
  <2>7. ASSUME NEW q \in MountPoints, q # mp
        PROVE  Publisher'[q] = Publisher[q] /\ Subscribers'[q] = Subscribers[q]
    <3>1. CASE Used(infos, q)
      BY <2>4, <3>1, RecordKept DEF Used
    <3>2. CASE ~Used(infos, q)
      <4>1. ~Used(infos', q)
        BY <1>3, <2>4, <2>7, <3>2 DEF Used
      <4>. QED  BY <3>2, <4>1, UnusedStays
    <3>. QED  BY <3>1, <3>2
  <2>. DEFINE P == [Publisher EXCEPT ![mp] = c]
  <2>8. /\ P = [q \in MountPoints |-> P[q]]
        /\ \A q \in MountPoints : P[q] = IF q = mp THEN c ELSE Publisher[q]
    BY <1>1 DEF View
  <2>. HIDE DEF mp, P, c, m
  <2>9. Publisher' = P /\ Subscribers' = Subscribers
    BY <2>5, <2>6, <2>7, <2>8, MappingNow, MappingIs
  <2>. QED  BY <1>1, <2>2, <2>3, <2>5, <2>9 DEF Promise!Register, P
<1>. QED  BY <1>2, <1>3 DEF ServerConnectRequest, table

(* An accepted GET makes a subscriber, a refused one changes nothing.      *)
LEMMA SubscribeSimulated ==
  ASSUME OrderInv, OrderInv', [Next]_vars, NEW fd \in Fds, ClientConnectRequest(fd)
  PROVE  \/ UNCHANGED <<Publisher, Subscribers, got>>
         \/ \E c \in Conns, mp \in MountPoints : Promise!Subscribe(c, mp)
<1>. DEFINE m == Chunk(fd)  c == sock[fd]
<1>1. /\ HasChunk(fd) /\ m.kind = "get" /\ UNCHANGED got /\ View /\ View'
      /\ infos \in Seq(MountPointInformation) /\ ConformingInv /\ TypeOK
  BY ViewKept DEF ClientConnectRequest, OrderInv, ConformingInv, TypeOK
<1>2. CASE UNCHANGED infos
  BY <1>1, <1>2, SameLists
<1>3. ASSUME NEW i \in DOMAIN infos, UNCHANGED sock,
             infos' = [infos EXCEPT ![i].client_socket_list = Append(@, fd)]
      PROVE  \E x \in Conns, q \in MountPoints : Promise!Subscribe(x, q)
  <2>. DEFINE mp == infos[i].mountpoint  list == infos[i].client_socket_list
  <2>1. list \in Seq(Fds) /\ mp \in MountPoints
    BY <1>1, InfoType
  <2>2. Range(Append(list, fd)) = Range(list) \cup {fd}
    <3>. HIDE DEF list
    <3>1. /\ DOMAIN Append(list, fd) = 1..(Len(list) + 1) /\ Len(list) \in Nat
          /\ DOMAIN list = 1..Len(list)
          /\ \A k \in 1..Len(list) : Append(list, fd)[k] = list[k]
          /\ Append(list, fd)[Len(list) + 1] = fd
      BY <2>1, AppendProperties, LenProperties
    <3>2. \A k \in DOMAIN Append(list, fd) : k \in DOMAIN list \/ k = Len(list) + 1
      BY <3>1
    <3>. QED  BY <3>1, <3>2 DEF Range
  <2>3. c \in Conns /\ Promise!Uncommitted(c)
    BY <1>1, ReceiveType, RequestUngranted, UngrantedUncommitted
  <2>4. /\ DOMAIN infos' = DOMAIN infos
        /\ infos'[i].client_socket_list = Append(list, fd)
        /\ \A j \in DOMAIN infos :
             /\ infos'[j].server_fd = infos[j].server_fd
             /\ infos'[j].mountpoint = infos[j].mountpoint
             /\ j # i => infos'[j] = infos[j]
    BY <1>1, <1>3, InfoType DEF MountPointInformation
  <2>5. /\ Publisher'[mp] = Publisher[mp] /\ Publisher[mp] # NoConn
        /\ Subscribers'[mp] = Subscribers[mp] \cup {c}
    <3>1. Publisher'[mp] = Publisher[mp]
      BY <2>4, RecordKept
    <3>2. Publisher[mp] # NoConn
      BY <1>1, AllListed DEF View, Listed
    <3>3. /\ Subscribers'[infos'[i].mountpoint] =
               {sock'[g] : g \in Range(infos'[i].client_socket_list)}
          /\ Subscribers[mp] = {sock[g] : g \in Range(list)}
      BY <1>1, <2>4 DEF View
    <3>4. Subscribers'[mp] = {sock[g] : g \in Range(list) \cup {fd}}
      <4>1. Subscribers'[mp] = {sock'[g] : g \in Range(Append(list, fd))}
        BY <2>4, <3>3
      <4>. HIDE DEF list, mp
      <4>. QED  BY <1>3, <2>2, <4>1
    <3>5. {sock[g] : g \in Range(list) \cup {fd}} = {sock[g] : g \in Range(list)} \cup {c}
      <4>. HIDE DEF list
      <4>. QED  OBVIOUS
    <3>. QED  BY <3>1, <3>2, <3>3, <3>4, <3>5
  <2>6. ASSUME NEW q \in MountPoints, q # mp
        PROVE  Publisher'[q] = Publisher[q] /\ Subscribers'[q] = Subscribers[q]
    <3>1. ASSUME NEW j \in DOMAIN infos, infos[j].mountpoint = q
          PROVE  Publisher'[q] = Publisher[q] /\ Subscribers'[q] = Subscribers[q]
      BY <2>4, <2>6, <3>1, RecordKept
    <3>2. CASE ~Used(infos, q)
      <4>1. ~Used(infos', q)
        BY <2>4, <3>2 DEF Used
      <4>. QED  BY <3>2, <4>1, UnusedStays
    <3>. QED  BY <3>1, <3>2 DEF Used
  <2>. DEFINE Q == [Subscribers EXCEPT ![mp] = @ \cup {c}]
  <2>7. /\ Q = [q \in MountPoints |-> Q[q]]
        /\ \A q \in MountPoints : Q[q] = IF q = mp THEN Subscribers[mp] \cup {c}
                                                  ELSE Subscribers[q]
    BY <1>1 DEF View
  <2>. HIDE DEF mp, Q, c, list
  <2>8. Publisher' = Publisher /\ Subscribers' = Q
    BY <2>5, <2>6, <2>7, MappingNow, MappingIs
  <2>. QED  BY <1>1, <2>1, <2>3, <2>5, <2>8 DEF Promise!Subscribe, Q
<1>. QED  BY <1>2, <1>3 DEF ClientConnectRequest

(* The chunk goes to some of those who follow the server that sent it.     *)
LEMMA ForwardSimulated ==
  ASSUME OrderInv, OrderInv', [Next]_vars, NEW fd \in Fds, Forward(fd)
  PROVE  \/ UNCHANGED <<Publisher, Subscribers, got>>
         \/ \E mp \in MountPoints :
              \E R \in SUBSET Subscribers[mp], d \in Promise!Delivered : Promise!Deliver(mp, d, R)
<1>. DEFINE d == Chunk(fd)  R == {c \in Conns : got'[c] # got[c]}
<1>1. /\ HasChunk(fd) /\ IsPayload(d) /\ UNCHANGED <<infos, sock, sent>> /\ Receive(fd)
      /\ View /\ ConformingInv /\ TypeOK /\ TypeOK'
  BY ForwardDelivers, ViewKept DEF OrderInv, ConformingInv
<1>2. PICK i \in DOMAIN infos :
        /\ infos[i].server_fd = fd
        /\ \A c \in Conns :
             \/ got'[c] = got[c]
             \/ /\ got'[c] = Append(got[c], d)
                /\ \E g \in Range(infos[i].client_socket_list) : sock[g] = c
  BY ForwardDelivers DEF OrderInv
<1>3. UNCHANGED <<Publisher, Subscribers>>
  BY <1>1, SameLists
<1>4. got = [c \in Conns |-> got[c]] /\ got' = [c \in Conns |-> got'[c]]
  BY <1>1 DEF TypeOK
<1>5. CASE R = {}
  <2>1. \A c \in Conns : got'[c] = got[c]
    BY <1>5
  <2>. QED  BY <1>3, <1>4, <2>1
<1>6. CASE R # {}
  <2>. DEFINE mp == infos[i].mountpoint
  <2>1. d \in Payload
    BY <1>1, ReceiveType, KindOf DEF IsPayload
  <2>2. d \in Promise!Delivered
    <3>1. PICK c \in Conns : got'[c] = Append(got[c], d)
      BY <1>2, <1>6
    <3>2. got[c] \in Seq(Payload)
      BY <1>1 DEF TypeOK
    <3>3. Len(got'[c]) > Len(got[c]) /\ got'[c][Len(got'[c])] = d
      <4>. HIDE DEF d
      <4>. QED  BY <2>1, <3>1, <3>2, AppendProperties, LenProperties
    <3>. HIDE DEF d
    <3>. QED  BY <3>3 DEF Promise!Delivered
  <2>3. /\ mp \in MountPoints /\ Publisher[mp] = sock[fd]
        /\ Subscribers[mp] = {sock[g] : g \in Range(infos[i].client_socket_list)}
    BY <1>1, <1>2 DEF View
  <2>4. R \in SUBSET Subscribers[mp]
    BY <1>2, <2>3
  <2>5. sock[fd] # NoConn /\ d.src = sock[fd]
    BY <1>1, ChunkInOrder DEF HasChunk
  <2>6. ASSUME NEW c \in R, NEW k \in DOMAIN got[c]
        PROVE  got[c][k].src = d.src /\ got[c][k].n < d.n
    <3>1. got[c][k].src = sock[fd]
      BY <1>2, <2>6 DEF OrderInv, FromItsServer
    <3>. QED  BY <1>1, <2>5, <3>1, ChunkInOrder
  <2>7. got' = [c \in Conns |-> IF c \in R THEN Append(got[c], d) ELSE got[c]]
    <3>1. \A c \in Conns : got'[c] = IF c \in R THEN Append(got[c], d) ELSE got[c]
      BY <1>2
    <3>. HIDE DEF R, d
    <3>. QED  BY <1>4, <3>1
  <2>. HIDE DEF R, d, mp
  <2>8. Promise!Deliver(mp, d, R)
    BY <1>3, <2>3, <2>4, <2>5, <2>6, <2>7 DEF Promise!Deliver
  <2>. QED  BY <2>2, <2>3, <2>4, <2>8
<1>. QED  BY <1>5, <1>6

LEMMA InitSimulated == Init => Promise!Init
<1>. SUFFICES ASSUME Init PROVE Promise!Init
  OBVIOUS
<1>1. \A mp \in MountPoints : ~MountUsed(mp)
  BY DEF Init, MountUsed
<1>. QED  BY <1>1 DEF Init, Publisher, Subscribers, Promise!Init

LEMMA StepSimulated ==
  OrderInv /\ OrderInv' /\ [ConformingNext]_vars => [Promise!Next]_(Promise!vars)
<1>. SUFFICES ASSUME OrderInv, OrderInv', [ConformingNext]_vars
              PROVE  Promise!Next \/ UNCHANGED <<Publisher, Subscribers, got>>
  BY DEF Promise!vars
<1>1. [Next]_vars /\ TypeOK
  BY DEF ConformingNext, Next, OrderInv, ConformingInv
<1>2. ASSUME UNCHANGED <<infos, got>> PROVE UNCHANGED <<Publisher, Subscribers, got>>
  BY <1>1, <1>2, SameLists
<1>3. ASSUME NEW fd \in Fds, HandleEvent(fd)
      PROVE  Promise!Next \/ UNCHANGED <<Publisher, Subscribers, got>>
  <2>1. CASE Disconnect(fd)
    <3>1. UNCHANGED got
      BY <2>1 DEF Disconnect
    <3>2. ASSUME NEW i \in DOMAIN infos, DisconnectServer(fd, i) PROVE Promise!Next
      BY <1>1, <3>1, <3>2, RetireSimulated, InfoType DEF Promise!Next
    <3>3. ASSUME NEW i \in DOMAIN infos, DisconnectClient(fd, i) PROVE Promise!Next
      BY <1>1, <3>1, <3>3, UnsubscribeSimulated, InfoType DEF Promise!Next
    <3>4. CASE DisconnectUnknown(fd)
      BY <1>2, <3>1, <3>4 DEF DisconnectUnknown, table
    <3>. QED  BY <2>1, <3>2, <3>3, <3>4 DEF Disconnect
  <2>2. CASE ServerConnectRequest(fd)
    BY <1>1, <2>2, RegisterSimulated DEF Promise!Next
  <2>3. CASE ClientConnectRequest(fd)
    BY <1>1, <2>3, SubscribeSimulated DEF Promise!Next
  <2>4. CASE Forward(fd)
    BY <1>1, <2>4, ForwardSimulated DEF Promise!Next
  <2>5. CASE NotAServer(fd) \/ KilledBySigPipe(fd)
    BY <1>2, <2>5 DEF NotAServer, KilledBySigPipe, table
  <2>. QED  BY <1>3, <2>1, <2>2, <2>3, <2>4, <2>5 DEF HandleEvent
<1>4. CASE EpollWait \/ EpollError \/ AcceptNewConnect
  BY <1>2, <1>4 DEF EpollWait, EpollError, AcceptNewConnect, table
<1>5. ASSUME NEW c \in Conns, PeerStep(c) \/ \E m \in Sayable(c) : PeerSend(c, m)
      PROVE  UNCHANGED <<infos, got>>
  BY <1>5 DEF PeerStep, PeerConnect, PeerClose, PeerReset, PeerSend, table
<1>6. CASE UNCHANGED vars
  BY <1>2, <1>6 DEF vars
<1>. QED  BY <1>2, <1>3, <1>4, <1>5, <1>6 DEF ConformingNext, Loop

(* While the peers follow the protocol, every behaviour of the caster,     *)
(* seen through its descriptor table, is one of the broker's: a mount      *)
(* point has one source, its followers receive only what that source sent, *)
(* in order and at most once, and they are let go with it.                 *)
THEOREM CasterImplementsBroker == ConformingSpec => ImplementsBroker
<1>1. Init => Promise!Init
  BY InitSimulated
<1>2. OrderInv /\ OrderInv' /\ [ConformingNext]_vars => [Promise!Next]_(Promise!vars)
  BY StepSimulated
<1>. QED  BY <1>1, <1>2, OrderInvariant, PTL DEF ConformingSpec, ImplementsBroker, Promise!Spec
=============================================================================
