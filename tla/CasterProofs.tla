---------------------------- MODULE CasterProofs ----------------------------
(***************************************************************************)
(* Theorems about Caster, for any sets of connections, descriptors, mount  *)
(* points and requests.  Of peers of any kind: the types, that mount       *)
(* points are unique, and that the source table lists them.  Of peers that *)
(* follow the protocol: the descriptors in the mount point list denote the *)
(* connections that were granted their place in it, so that data goes to   *)
(* subscribers only.                                                       *)
(***************************************************************************)
EXTENDS Caster, SequenceTheorems, FiniteSetTheorems, TLAPS

-----------------------------------------------------------------------------
(* Sequences.                                                              *)

(* What RemoveAt, the erase of a list at an iterator, leaves.              *)
LEMMA RemoveAtProperties ==
  ASSUME NEW S, NEW s \in Seq(S), NEW i \in DOMAIN s
  PROVE  /\ RemoveAt(s, i) \in Seq(S)
         /\ Len(RemoveAt(s, i)) = Len(s) - 1
         /\ DOMAIN RemoveAt(s, i) = 1..(Len(s) - 1)
         /\ \A k \in 1..(Len(s) - 1) :
              RemoveAt(s, i)[k] = IF k < i THEN s[k] ELSE s[k + 1]
<1>. DEFINE front == SubSeq(s, 1, i - 1)
            back == SubSeq(s, i + 1, Len(s))
<1>1. i \in 1..Len(s) /\ Len(s) \in Nat
  BY LenProperties
<1>2. /\ front \in Seq(S) /\ Len(front) = i - 1
      /\ \A k \in 1..(i - 1) : front[k] = s[k]
  BY <1>1, SubSeqProperties
<1>3. /\ back \in Seq(S) /\ Len(back) = Len(s) - i
      /\ \A k \in 1..(Len(s) - i) : back[k] = s[k + i]
  <2>1. CASE i = Len(s)
    BY <1>1, <2>1, SubSeqProperties
  <2>2. CASE i < Len(s)
    BY <1>1, <2>2, SubSeqProperties
  <2>. QED  BY <1>1, <2>1, <2>2
<1>4. /\ front \o back \in Seq(S) /\ Len(front \o back) = Len(s) - 1
      /\ \A k \in 1..(Len(s) - 1) :
           (front \o back)[k] = IF k <= i - 1 THEN front[k] ELSE back[k - (i - 1)]
  <2>. HIDE DEF front, back
  <2>1. Len(front) + Len(back) = Len(s) - 1
    BY <1>1, <1>2, <1>3
  <2>2. /\ front \o back \in Seq(S)
        /\ Len(front \o back) = Len(front) + Len(back)
        /\ \A k \in 1..(Len(front) + Len(back)) : (front \o back)[k] =
             IF k <= Len(front) THEN front[k] ELSE back[k - Len(front)]
    BY <1>2, <1>3, ConcatProperties
  <2>. QED  BY <1>2, <2>1, <2>2
<1>5. ASSUME NEW k \in 1..(Len(s) - 1)
      PROVE  (front \o back)[k] = IF k < i THEN s[k] ELSE s[k + 1]
  <2>. HIDE DEF front, back
  <2>1. CASE k < i
    BY <1>1, <1>2, <1>4, <2>1
  <2>2. CASE ~(k < i)
    <3>. DEFINE m == k - (i - 1)
    <3>1. m \in 1..(Len(s) - i) /\ m + i = k + 1 /\ ~(k <= i - 1)
      BY <1>1, <2>2
    <3>2. (front \o back)[k] = back[m]
      BY <1>4, <3>1
    <3>3. back[m] = s[m + i]
      BY <1>3, <3>1
    <3>. QED  BY <2>2, <3>1, <3>2, <3>3
  <2>. QED  BY <2>1, <2>2
<1>. QED  BY <1>1, <1>4, <1>5, LenProperties DEF RemoveAt

(* RemoveAt keeps the elements at the other positions, and nothing else.   *)
LEMMA RemoveAtKeeps ==
  ASSUME NEW S, NEW s \in Seq(S), NEW i \in DOMAIN s
  PROVE  /\ \A k \in DOMAIN RemoveAt(s, i) :
              \E j \in DOMAIN s : j # i /\ RemoveAt(s, i)[k] = s[j]
         /\ \A j \in DOMAIN s : j # i =>
              \E k \in DOMAIN RemoveAt(s, i) : RemoveAt(s, i)[k] = s[j]
<1>1. i \in 1..Len(s) /\ Len(s) \in Nat /\ DOMAIN s = 1..Len(s)
  BY LenProperties
<1>r. /\ DOMAIN RemoveAt(s, i) = 1..(Len(s) - 1)
      /\ \A k \in 1..(Len(s) - 1) :
           RemoveAt(s, i)[k] = IF k < i THEN s[k] ELSE s[k + 1]
  BY RemoveAtProperties
<1>2. ASSUME NEW k \in DOMAIN RemoveAt(s, i)
      PROVE  \E j \in DOMAIN s : j # i /\ RemoveAt(s, i)[k] = s[j]
  <2>1. CASE k < i
    BY <1>1, <2>1, <1>r
  <2>2. CASE ~(k < i)
    <3>1. /\ k + 1 \in DOMAIN s /\ k + 1 # i
          /\ RemoveAt(s, i)[k] = s[k + 1]
      BY <1>1, <2>2, <1>r
    <3>. QED  BY <3>1
  <2>. QED  BY <2>1, <2>2
<1>3. ASSUME NEW j \in DOMAIN s, j # i
      PROVE  \E k \in DOMAIN RemoveAt(s, i) : RemoveAt(s, i)[k] = s[j]
  <2>1. CASE j < i
    BY <1>1, <2>1, <1>r
  <2>2. CASE j > i
    <3>. DEFINE k == j - 1
    <3>1. k \in DOMAIN RemoveAt(s, i) /\ ~(k < i) /\ k + 1 = j
      BY <1>1, <2>2, <1>r
    <3>. QED  BY <1>1, <3>1, <1>r
  <2>. QED  BY <1>1, <1>3, <2>1, <2>2
<1>. QED  BY <1>2, <1>3

(* RemoveAt of a sequence without duplicates has none either, and the      *)
(* element removed is gone.                                                *)
LEMMA RemoveAtInjective ==
  ASSUME NEW S, NEW s \in Seq(S), NEW i \in DOMAIN s, IsInjective(s)
  PROVE  /\ IsInjective(RemoveAt(s, i))
         /\ Range(RemoveAt(s, i)) = Range(s) \ {s[i]}
<1>1. i \in 1..Len(s) /\ Len(s) \in Nat /\ DOMAIN s = 1..Len(s)
  BY LenProperties
<1>r. /\ DOMAIN RemoveAt(s, i) = 1..(Len(s) - 1)
      /\ \A k \in 1..(Len(s) - 1) :
           RemoveAt(s, i)[k] = IF k < i THEN s[k] ELSE s[k + 1]
  BY RemoveAtProperties
<1>2. IsInjective(RemoveAt(s, i))
  <2>. SUFFICES ASSUME NEW a \in DOMAIN RemoveAt(s, i),
                       NEW b \in DOMAIN RemoveAt(s, i),
                       RemoveAt(s, i)[a] = RemoveAt(s, i)[b]
                PROVE  a = b
    BY DEF IsInjective
  <2>. DEFINE at(k) == IF k < i THEN k ELSE k + 1
  <2>1. ASSUME NEW k \in DOMAIN RemoveAt(s, i)
        PROVE  k \in Nat /\ at(k) \in DOMAIN s /\ RemoveAt(s, i)[k] = s[at(k)]
    BY <1>1, <1>r
  <2>2. at(a) = at(b)
    BY <2>1 DEF IsInjective
  <2>. QED  BY <1>1, <2>1, <2>2
<1>3. Range(RemoveAt(s, i)) = Range(s) \ {s[i]}
  BY RemoveAtKeeps DEF Range, IsInjective
<1>. QED  BY <1>2, <1>3

-----------------------------------------------------------------------------
(* Types.                                                                  *)

LEMMA DoneType ==
  ASSUME TypeOK, batch # <<>>, Done
  PROVE  batch' \in Seq(Fds \cup {ListenFd})
BY HeadTailProperties DEF TypeOK, Done

(* What a handler knows of the chunk it reads, and what reading leaves.    *)
LEMMA ReceiveType ==
  ASSUME TypeOK, NEW fd \in Fds, HasChunk(fd)
  PROVE  /\ sock[fd] \in Conns
         /\ Chunk(fd) \in Message
         /\ Chunk(fd) = inbox[sock[fd]][1]
         /\ 1 \in DOMAIN inbox[sock[fd]]
         /\ Receive(fd) => inbox' \in [Conns -> Seq(Message)]
<1>1. sock[fd] \in Conns /\ inbox[sock[fd]] \in Seq(Message)
      /\ inbox[sock[fd]] # <<>>
  BY DEF TypeOK, HasChunk
<1>2. /\ Head(inbox[sock[fd]]) \in Message
      /\ Tail(inbox[sock[fd]]) \in Seq(Message)
  BY <1>1, HeadTailProperties
<1>3. 1 \in DOMAIN inbox[sock[fd]]
  BY <1>1, EmptySeq, LenProperties
<1>4. Head(inbox[sock[fd]]) = inbox[sock[fd]][1]
  BY <1>1
<1>5. Receive(fd) => inbox' \in [Conns -> Seq(Message)]
  BY <1>1, <1>2 DEF TypeOK, Receive
<1>. QED  BY <1>1, <1>2, <1>3, <1>4, <1>5 DEF Chunk

LEMMA KindOf ==
  ASSUME NEW m \in Message
  PROVE  /\ m.kind = "post" => m \in PostRequest
         /\ m.kind = "get" => m \in GetRequest
         /\ m.kind \in {"gga", "data"} => m \in Payload
         /\ m.kind \in {"post", "get", "gga", "data"}
BY DEF Message, PostRequest, GetRequest, Payload

LEMMA InfoType ==
  ASSUME TypeOK, NEW i \in DOMAIN infos
  PROVE  /\ infos[i] \in MountPointInformation
         /\ infos[i].server_fd \in Fds
         /\ infos[i].mountpoint \in MountPoints
         /\ infos[i].client_socket_list \in Seq(Fds)
         /\ Range(infos[i].client_socket_list) \subseteq Fds
<1>1. infos[i] \in MountPointInformation
  BY LenProperties DEF TypeOK
<1>2. infos[i].client_socket_list \in Seq(Fds)
  BY <1>1 DEF MountPointInformation
<1>3. Range(infos[i].client_socket_list) \subseteq Fds
  BY <1>2, LenProperties DEF Range
<1>. QED  BY <1>1, <1>2, <1>3 DEF MountPointInformation

(* A record of infos with another client list is a record.                 *)
LEMMA NewListType ==
  ASSUME TypeOK, NEW i \in DOMAIN infos, NEW l \in Seq(Fds)
  PROVE  [infos EXCEPT ![i].client_socket_list = l] \in Seq(MountPointInformation)
<1>1. [infos[i] EXCEPT !.client_socket_list = l] \in MountPointInformation
  BY InfoType DEF MountPointInformation
<1>2. infos \in Seq(MountPointInformation) /\ i \in 1..Len(infos)
  BY LenProperties DEF TypeOK
<1>3. [infos EXCEPT ![i] = [infos[i] EXCEPT !.client_socket_list = l]]
        \in Seq(MountPointInformation)
  BY <1>1, <1>2, ExceptSeq
<1>4. [infos EXCEPT ![i].client_socket_list = l]
        = [infos EXCEPT ![i] = [infos[i] EXCEPT !.client_socket_list = l]]
  OBVIOUS
<1>. QED  BY <1>3, <1>4

LEMMA InitType == Init => TypeOK
BY EmptySeq DEF Init, TypeOK

LEMMA PeerStepType ==
  ASSUME TypeOK, NEW c \in Conns, PeerStep(c)
  PROVE  TypeOK'
<1>1. CASE PeerConnect(c)
  BY <1>1, AppendProperties DEF TypeOK, PeerConnect, table
<1>2. CASE PeerClose(c)
  BY <1>2 DEF TypeOK, PeerClose, table
<1>3. CASE PeerReset(c)
  BY <1>3 DEF TypeOK, PeerReset, table
<1>. QED  BY <1>1, <1>2, <1>3 DEF PeerStep

LEMMA PeerSendType ==
  ASSUME TypeOK, NEW c \in Conns, NEW m \in Sayable(c), PeerSend(c, m)
  PROVE  TypeOK'
<1>1. sent[c] \in Nat /\ inbox[c] \in Seq(Message)
  BY DEF TypeOK
<1>2. m \in Message
  BY <1>1, CasterAssumption DEF Sayable, Message, Payload
<1>3. Append(inbox[c], m) \in Seq(Message)
  BY <1>1, <1>2, AppendProperties
<1>4. inbox' \in [Conns -> Seq(Message)] /\ sent' \in [Conns -> Nat]
  BY <1>1, <1>3 DEF TypeOK, PeerSend
<1>. QED  BY <1>4 DEF TypeOK, PeerSend, table

LEMMA WaitType ==
  ASSUME TypeOK, EpollWait \/ EpollError
  PROVE  TypeOK'
<1>1. CASE EpollWait
  <2>1. ReadyEvents \subseteq Fds \cup {ListenFd}
    BY DEF ReadyEvents
  <2>2. batch' \in Seq(ReadyEvents)
    BY <1>1, SeqDef, CasterAssumption DEF EpollWait, SeqOf
  <2>3. batch' \in Seq(Fds \cup {ListenFd})
    BY <2>1, <2>2, SeqMonotonic
  <2>. QED  BY <1>1, <2>3 DEF TypeOK, EpollWait, table, peers
<1>2. CASE EpollError
  BY <1>2 DEF TypeOK, EpollError, table, peers
<1>. QED  BY <1>1, <1>2

LEMMA AcceptType ==
  ASSUME TypeOK, AcceptNewConnect
  PROVE  TypeOK'
<1>1. batch' \in Seq(Fds \cup {ListenFd})
  BY DoneType DEF AcceptNewConnect, Event
<1>2. Head(backlog) \in Conns /\ Tail(backlog) \in Seq(Conns)
  BY HeadTailProperties DEF TypeOK, AcceptNewConnect
<1>3. sock' \in [Fds -> Conns \cup {NoConn}] /\ backlog' \in Seq(Conns)
  BY <1>2 DEF TypeOK, AcceptNewConnect
<1>. QED  BY <1>1, <1>3 DEF TypeOK, AcceptNewConnect, table

LEMMA DisconnectType ==
  ASSUME TypeOK, NEW fd \in Fds, Disconnect(fd)
  PROVE  TypeOK'
<1>1. batch' \in Seq(Fds \cup {ListenFd})
  BY DoneType DEF Disconnect, Event
<1>2. sock' \in [Fds -> Conns \cup {NoConn}]
  BY DEF TypeOK, Disconnect, DisconnectServer, DisconnectClient,
         DisconnectUnknown, Close
<1>3. infos' \in Seq(MountPointInformation) /\ strs' \in Seq(MountPoints \cup {NoMount})
  <2>0. infos \in Seq(MountPointInformation) /\ strs \in Seq(MountPoints \cup {NoMount})
    BY DEF TypeOK
  <2>1. ASSUME NEW i \in DOMAIN infos, DisconnectServer(fd, i)
        PROVE  <1>3!1 /\ <1>3!2
    <3>1. infos' \in Seq(MountPointInformation)
      BY <2>0, <2>1, RemoveAtProperties DEF DisconnectServer
    <3>2. strs' \in Seq(MountPoints \cup {NoMount})
      BY <2>0, <2>1, RemoveAtProperties DEF DisconnectServer, EraseSourceTableLine
    <3>. QED  BY <3>1, <3>2
  <2>2. ASSUME NEW i \in DOMAIN infos, DisconnectClient(fd, i)
        PROVE  <1>3!1 /\ <1>3!2
    <3>1. PICK k \in DOMAIN infos[i].client_socket_list :
            infos' = [infos EXCEPT ![i].client_socket_list =
                        RemoveAt(infos[i].client_socket_list, k)]
      BY <2>2 DEF DisconnectClient
    <3>2. RemoveAt(infos[i].client_socket_list, k) \in Seq(Fds)
      BY InfoType, RemoveAtProperties
    <3>. QED  BY <2>0, <2>2, <3>1, <3>2, NewListType DEF DisconnectClient
  <2>3. CASE DisconnectUnknown(fd)
    BY <2>0, <2>3 DEF DisconnectUnknown, table
  <2>. QED  BY <2>1, <2>2, <2>3 DEF Disconnect
<1>. QED  BY <1>1, <1>2, <1>3 DEF TypeOK, Disconnect, peers

LEMMA RegisterType ==
  ASSUME TypeOK, NEW fd \in Fds, ServerConnectRequest(fd)
  PROVE  TypeOK'
<1>. DEFINE m == Chunk(fd)
            c == sock[fd]
<1>1. batch' \in Seq(Fds \cup {ListenFd})
  BY DoneType DEF ServerConnectRequest, Event
<1>2. inbox' \in [Conns -> Seq(Message)] /\ c \in Conns /\ m \in PostRequest
  BY ReceiveType, KindOf DEF ServerConnectRequest
<1>3. CASE Registrable(m) /\ CanSend(c)
  <2>. DEFINE info == [server_fd |-> fd, mountpoint |-> m.mount, cred |-> m.cred,
                       client_socket_list |-> <<>>]
              g == [role |-> "server", mount |-> m.mount]
  <2>0. /\ infos' = Append(infos, info) /\ strs' = Append(strs, m.str)
        /\ grants' = [grants EXCEPT ![c] = @ \cup {g}]
    BY <1>3 DEF ServerConnectRequest
  <2>1. m.mount \in MountPoints /\ m.cred \in Creds /\ m.str \in MountPoints \cup {NoMount}
    BY <1>2, <1>3 DEF PostRequest, Registrable
  <2>2. info \in MountPointInformation
    BY <2>1, EmptySeq DEF MountPointInformation
  <2>3. infos' \in Seq(MountPointInformation) /\ strs' \in Seq(MountPoints \cup {NoMount})
    <3>. HIDE DEF info, m
    <3>. QED  BY <2>0, <2>1, <2>2, AppendProperties DEF TypeOK
  <2>4. grants' \in [Conns -> SUBSET Grant]
    <3>1. g \in Grant
      BY <2>1 DEF Grant
    <3>. HIDE DEF g
    <3>. QED  BY <1>2, <2>0, <3>1 DEF TypeOK
  <2>. QED  BY <1>1, <1>2, <1>3, <2>3, <2>4 DEF TypeOK, ServerConnectRequest, peers
<1>4. CASE ~(Registrable(m) /\ CanSend(c))
  BY <1>1, <1>2, <1>4 DEF TypeOK, ServerConnectRequest, Close, peers, table
<1>. QED  BY <1>3, <1>4

LEMMA SubscribeType ==
  ASSUME TypeOK, NEW fd \in Fds, ClientConnectRequest(fd)
  PROVE  TypeOK'
<1>. DEFINE m == Chunk(fd)
            c == sock[fd]
<1>1. batch' \in Seq(Fds \cup {ListenFd})
  BY DoneType DEF ClientConnectRequest, Event
<1>2. inbox' \in [Conns -> Seq(Message)] /\ c \in Conns /\ m \in GetRequest
  BY ReceiveType, KindOf DEF ClientConnectRequest
<1>3. ASSUME NEW i \in DOMAIN infos, Admits(infos[i], m),
             infos' = [infos EXCEPT ![i].client_socket_list = Append(@, fd)],
             grants' = [grants EXCEPT ![c] =
                          @ \cup {[role |-> "client", mount |-> m.mount]}],
             UNCHANGED sock
      PROVE  TypeOK'
  <2>1. Append(infos[i].client_socket_list, fd) \in Seq(Fds)
    BY InfoType, AppendProperties
  <2>2. infos' \in Seq(MountPointInformation)
    BY <1>3, <2>1, NewListType
  <2>3. m.mount \in MountPoints
    BY <1>3, InfoType DEF Admits
  <2>4. grants' \in [Conns -> SUBSET Grant]
    BY <1>2, <1>3, <2>3 DEF TypeOK, Grant
  <2>. QED  BY <1>1, <1>2, <1>3, <2>2, <2>4 DEF TypeOK, ClientConnectRequest, peers
<1>4. CASE Close({fd}) /\ UNCHANGED <<infos, grants>>
  BY <1>1, <1>2, <1>4 DEF TypeOK, ClientConnectRequest, Close, peers
<1>. QED  BY <1>3, <1>4 DEF ClientConnectRequest

LEMMA ForwardType ==
  ASSUME TypeOK, NEW fd \in Fds, Forward(fd)
  PROVE  TypeOK'
<1>0. PICK i \in DOMAIN infos :
        \E lost \in SUBSET DOMAIN infos[i].client_socket_list :
          TryToForwardServerData(fd, i, lost)
  BY DEF Forward
<1>1. PICK lost \in SUBSET DOMAIN infos[i].client_socket_list :
        TryToForwardServerData(fd, i, lost)
  BY <1>0
<1>. DEFINE list == infos[i].client_socket_list
            copies(c) == {k \in DOMAIN list \ lost :
                            sock[list[k]] = c /\ conn[c] = "open"}
            new(c) == [k \in 1..Cardinality(copies(c)) |-> Chunk(fd)]
<1>2. batch' \in Seq(Fds \cup {ListenFd})
  BY <1>1, DoneType DEF TryToForwardServerData, Event
<1>3. inbox' \in [Conns -> Seq(Message)] /\ Chunk(fd) \in Payload
  BY <1>1, ReceiveType, KindOf DEF TryToForwardServerData
<1>4. ASSUME NEW c \in Conns
      PROVE  got[c] \o new(c) \in Seq(Payload)
  <2>1. IsFiniteSet(1..Len(list)) /\ copies(c) \subseteq 1..Len(list)
    <3>1. list \in Seq(Fds)
      BY InfoType
    <3>2. DOMAIN list = 1..Len(list) /\ Len(list) \in Int
      BY <3>1, LenProperties
    <3>3. copies(c) \subseteq DOMAIN list
      OBVIOUS
    <3>. QED  BY <3>2, <3>3, FS_Interval
  <2>2. Cardinality(copies(c)) \in Nat
    BY <2>1, FS_Subset, FS_CardinalityType
  <2>3. new(c) \in [1..Cardinality(copies(c)) -> Payload]
    BY <1>3
  <2>4. new(c) \in Seq(Payload)
    BY <2>2, <2>3, SeqDef
  <2>5. got[c] \in Seq(Payload)
    BY DEF TypeOK
  <2>. HIDE DEF new
  <2>. QED  BY <2>4, <2>5, ConcatProperties
<1>5. got' = [c \in Conns |-> got[c] \o new(c)]
  BY <1>1 DEF TryToForwardServerData
<1>6. got' \in [Conns -> Seq(Payload)]
  <2>. HIDE DEF new
  <2>. QED  BY <1>4, <1>5
<1>. QED  BY <1>1, <1>2, <1>3, <1>6 DEF TypeOK, TryToForwardServerData, table, peers

LEMMA NotAServerType ==
  ASSUME TypeOK, NEW fd \in Fds, NotAServer(fd)
  PROVE  TypeOK'
<1>1. batch' \in Seq(Fds \cup {ListenFd})
  BY DoneType DEF NotAServer, Event
<1>2. inbox' \in [Conns -> Seq(Message)]
  BY ReceiveType DEF NotAServer
<1>3. sock' \in [Fds -> Conns \cup {NoConn}]
  BY DEF TypeOK, NotAServer, Close
<1>. QED  BY <1>1, <1>2, <1>3 DEF TypeOK, NotAServer, table, peers

LEMMA HandleEventType ==
  ASSUME TypeOK, NEW fd \in Fds, HandleEvent(fd)
  PROVE  TypeOK'
<1>1. CASE KilledBySigPipe(fd)
  BY <1>1 DEF TypeOK, KilledBySigPipe, table, peers
<1>. QED  BY <1>1, DisconnectType, RegisterType, SubscribeType, ForwardType,
             NotAServerType DEF HandleEvent

LEMMA TypeStep == TypeOK /\ [Next]_vars => TypeOK'
<1>. SUFFICES ASSUME TypeOK, [Next]_vars PROVE TypeOK'
  OBVIOUS
<1>1. CASE Loop
  BY <1>1, WaitType, AcceptType, HandleEventType DEF Loop
<1>2. CASE \E c \in Conns : PeerStep(c) \/ \E m \in Sayable(c) : PeerSend(c, m)
  BY <1>2, PeerStepType, PeerSendType
<1>3. CASE UNCHANGED vars
  BY <1>3 DEF TypeOK, vars
<1>. QED  BY <1>1, <1>2, <1>3 DEF Next

(* Every variable keeps its type, whatever the peers send: in particular   *)
(* the mount point list holds descriptors only and the caster never reads  *)
(* past the end of a list.                                                 *)
THEOREM TypeCorrect == Spec => []TypeOK
BY InitType, TypeStep, PTL DEF Spec

-----------------------------------------------------------------------------
(* Mount points.                                                           *)

(* The ways a step can change the mount point list.                        *)
LEMMA InfosStep ==
  ASSUME TypeOK, [Next]_vars
  PROVE  \/ UNCHANGED infos
         \/ \E i \in DOMAIN infos : infos' = RemoveAt(infos, i)
         \/ \E i \in DOMAIN infos, l \in Seq(Fds) :
              infos' = [infos EXCEPT ![i].client_socket_list = l]
         \/ \E info \in MountPointInformation :
              ~MountUsed(info.mountpoint) /\ infos' = Append(infos, info)
<1>. DEFINE Goal == \/ UNCHANGED infos
                    \/ \E i \in DOMAIN infos : infos' = RemoveAt(infos, i)
                    \/ \E i \in DOMAIN infos, l \in Seq(Fds) :
                         infos' = [infos EXCEPT ![i].client_socket_list = l]
                    \/ \E info \in MountPointInformation :
                         ~MountUsed(info.mountpoint) /\ infos' = Append(infos, info)
<1>1. ASSUME NEW fd \in Fds, Disconnect(fd) PROVE Goal
  <2>1. ASSUME NEW i \in DOMAIN infos, DisconnectClient(fd, i) PROVE Goal
    <3>1. PICK k \in DOMAIN infos[i].client_socket_list :
            infos' = [infos EXCEPT ![i].client_socket_list =
                        RemoveAt(infos[i].client_socket_list, k)]
      BY <2>1 DEF DisconnectClient
    <3>2. RemoveAt(infos[i].client_socket_list, k) \in Seq(Fds)
      BY InfoType, RemoveAtProperties
    <3>. QED  BY <3>1, <3>2
  <2>2. ASSUME NEW i \in DOMAIN infos, DisconnectServer(fd, i) PROVE Goal
    BY <2>2 DEF DisconnectServer
  <2>3. CASE DisconnectUnknown(fd)
    BY <2>3 DEF DisconnectUnknown, table
  <2>. QED  BY <1>1, <2>1, <2>2, <2>3 DEF Disconnect
<1>2. ASSUME NEW fd \in Fds, ServerConnectRequest(fd) PROVE Goal
  <2>. DEFINE m == Chunk(fd)
              info == [server_fd |-> fd, mountpoint |-> m.mount, cred |-> m.cred,
                       client_socket_list |-> <<>>]
  <2>1. CASE Registrable(m) /\ infos' = Append(infos, info)
    <3>1. m \in PostRequest
      BY <1>2, ReceiveType, KindOf DEF ServerConnectRequest
    <3>2. info \in MountPointInformation
      BY <2>1, <3>1, EmptySeq DEF MountPointInformation, PostRequest, Registrable
    <3>3. ~MountUsed(info.mountpoint)
      BY <2>1 DEF Registrable
    <3>. QED  BY <2>1, <3>2, <3>3
  <2>2. CASE UNCHANGED infos
    BY <2>2
  <2>. QED  BY <1>2, <2>1, <2>2 DEF ServerConnectRequest, table
<1>3. ASSUME NEW fd \in Fds, ClientConnectRequest(fd) PROVE Goal
  <2>1. ASSUME NEW i \in DOMAIN infos,
               infos' = [infos EXCEPT ![i].client_socket_list = Append(@, fd)]
        PROVE  Goal
    <3>1. Append(infos[i].client_socket_list, fd) \in Seq(Fds)
      BY InfoType, AppendProperties
    <3>. QED  BY <2>1, <3>1
  <2>. QED  BY <1>3, <2>1 DEF ClientConnectRequest
<1>4. ASSUME NEW fd \in Fds, Forward(fd) \/ NotAServer(fd) \/ KilledBySigPipe(fd)
      PROVE  UNCHANGED infos
  BY <1>4 DEF Forward, TryToForwardServerData, NotAServer, KilledBySigPipe, table
<1>5. ASSUME EpollWait \/ EpollError \/ AcceptNewConnect PROVE UNCHANGED infos
  BY <1>5 DEF EpollWait, EpollError, AcceptNewConnect, table
<1>6. ASSUME NEW c \in Conns, PeerStep(c) \/ \E m \in Sayable(c) : PeerSend(c, m)
      PROVE  UNCHANGED infos
  BY <1>6 DEF PeerStep, PeerConnect, PeerClose, PeerReset, PeerSend, table
<1>7. ASSUME UNCHANGED vars PROVE UNCHANGED infos
  BY <1>7 DEF vars
<1>8. ASSUME NEW fd \in Fds, HandleEvent(fd) PROVE Goal
  BY <1>1, <1>2, <1>3, <1>4, <1>8 DEF HandleEvent
<1>9. Goal
  <2>. HIDE DEF Goal
  <2>1. UNCHANGED infos => Goal
    BY DEF Goal
  <2>2. CASE Loop
    BY <1>5, <1>8, <2>1, <2>2 DEF Loop
  <2>3. CASE \E c \in Conns : PeerStep(c) \/ \E m \in Sayable(c) : PeerSend(c, m)
    BY <1>6, <2>1, <2>3
  <2>. QED  BY <1>7, <2>1, <2>2, <2>3 DEF Next
<1>. QED  BY <1>9

LEMMA UniqueStep ==
  ASSUME TypeOK, MountPointsUnique, [Next]_vars
  PROVE  MountPointsUnique'
<1>0. infos \in Seq(MountPointInformation) /\ DOMAIN infos = 1..Len(infos)
      /\ Len(infos) \in Nat
  BY LenProperties DEF TypeOK
<1>1. CASE UNCHANGED infos
  BY <1>1 DEF MountPointsUnique
<1>2. ASSUME NEW i \in DOMAIN infos, infos' = RemoveAt(infos, i)
      PROVE  MountPointsUnique'
  <2>. DEFINE at(k) == IF k < i THEN k ELSE k + 1
  <2>1. /\ DOMAIN RemoveAt(infos, i) = 1..(Len(infos) - 1)
        /\ \A k \in 1..(Len(infos) - 1) :
              RemoveAt(infos, i)[k] = IF k < i THEN infos[k] ELSE infos[k + 1]
    BY <1>0, RemoveAtProperties
  <2>2. \A k \in DOMAIN infos' :
          k \in Nat /\ at(k) \in DOMAIN infos /\ infos'[k] = infos[at(k)]
    BY <1>0, <1>2, <2>1
  <2>3. \A j, k \in DOMAIN infos' : at(j) = at(k) => j = k
    BY <1>0, <2>2
  <2>. HIDE DEF at
  <2>. QED  BY <2>2, <2>3 DEF MountPointsUnique
<1>3. ASSUME NEW i \in DOMAIN infos, NEW l \in Seq(Fds),
             infos' = [infos EXCEPT ![i].client_socket_list = l]
      PROVE  MountPointsUnique'
  <2>1. /\ DOMAIN infos' = DOMAIN infos
        /\ \A k \in DOMAIN infos : infos'[k].mountpoint = infos[k].mountpoint
    BY <1>3, InfoType DEF MountPointInformation
  <2>. QED  BY <2>1 DEF MountPointsUnique
<1>4. ASSUME NEW info \in MountPointInformation,
             ~MountUsed(info.mountpoint), infos' = Append(infos, info)
      PROVE  MountPointsUnique'
  <2>1. /\ DOMAIN infos' = 1..(Len(infos) + 1)
        /\ \A k \in 1..Len(infos) : infos'[k] = infos[k]
        /\ infos'[Len(infos) + 1] = info
    BY <1>0, <1>4, AppendProperties, LenProperties
  <2>. QED  BY <1>0, <1>4, <2>1 DEF MountPointsUnique, MountUsed
<1>. QED  BY <1>1, <1>2, <1>3, <1>4, InfosStep

(* No two records carry the same mount point, whatever the peers send: two *)
(* base stations that ask for the same one race for it, and one is refused.*)
THEOREM MountPointsAreUnique == Spec => []MountPointsUnique
<1>1. Init => MountPointsUnique
  BY DEF Init, MountPointsUnique
<1>2. TypeOK /\ MountPointsUnique /\ [Next]_vars => MountPointsUnique'
  BY UniqueStep
<1>. QED  BY <1>1, <1>2, TypeCorrect, PTL DEF Spec

-----------------------------------------------------------------------------
(* The inductive invariant for peers that follow the protocol.             *)

(* Two descriptors never denote the same connection, and a connection that *)
(* waits to be accepted denotes none, was granted nothing and waits once.  *)
DescriptorsApart ==
  /\ \A f, g \in Fds : sock[f] = sock[g] /\ sock[f] # NoConn => f = g
  /\ \A fd \in Fds : sock[fd] # NoConn => conn[sock[fd]] # "idle"
  /\ \A k \in DOMAIN backlog :
       /\ ~Held(backlog[k]) /\ conn[backlog[k]] # "idle"
       /\ grants[backlog[k]] = {}
       /\ \A j \in DOMAIN backlog : backlog[j] = backlog[k] => j = k
  /\ \A c \in Conns : conn[c] = "idle" => grants[c] = {}

(* A connection is granted one place at most.                              *)
OneGrant == \A c \in Conns : \A g, h \in grants[c] : g = h

(* An open connection that was granted a place is listed in it.            *)
ListedAt(fd, g) ==
  \E i \in DOMAIN infos :
    /\ infos[i].mountpoint = g.mount
    /\ g.role = "server" => infos[i].server_fd = fd
    /\ g.role = "client" => fd \in Range(infos[i].client_socket_list)

GrantedIsListed ==
  \A fd \in Fds : sock[fd] # NoConn =>
    \A g \in grants[sock[fd]] : ListedAt(fd, g)

ClientsOnce ==
  \A i \in DOMAIN infos : IsInjective(infos[i].client_socket_list)

(* What the caster has still to read of a connection: its only request,    *)
(* alone and before any grant, or payloads of the kind its grant allows.   *)
InboxConforms ==
  \A c \in Conns :
    /\ sent[c] = 0 => inbox[c] = <<>> /\ grants[c] = {}
    /\ \A k \in DOMAIN inbox[c] :
         LET m == inbox[c][k] IN
         /\ m.kind \in {"post", "get"} => Len(inbox[c]) = 1 /\ grants[c] = {}
         /\ m.kind = "data" =>
              m.src = c /\ \E g \in grants[c] : g.role = "server"
         /\ m.kind = "gga" => \E g \in grants[c] : g.role = "client"

ProtocolInv ==
  /\ TableDenotesPeers
  /\ DescriptorsApart
  /\ OneGrant
  /\ GrantedIsListed
  /\ ClientsOnce
  /\ InboxConforms
  /\ RoutedToSubscribers

ConformingInv == TypeOK /\ MountPointsUnique /\ ProtocolInv

LEMMA ConformingInit == Init => ConformingInv
BY InitType, EmptySeq DEF Init, ConformingInv, ProtocolInv, MountPointsUnique, TableDenotesPeers,
   DescriptorsApart, OneGrant, GrantedIsListed, ClientsOnce, InboxConforms,
   RoutedToSubscribers, Held

(* Steps that leave the list, the descriptors and the grants alone leave   *)
(* what relates them.                                                      *)
LEMMA FrameStep ==
  ASSUME ConformingInv, UNCHANGED <<infos, sock, grants>>
  PROVE  TableDenotesPeers' /\ OneGrant' /\ GrantedIsListed' /\ ClientsOnce'
BY DEF ConformingInv, ProtocolInv, TableDenotesPeers, OneGrant, GrantedIsListed, ClientsOnce,
       Granted, ListedAt

LEMMA RoutedFrame ==
  ASSUME RoutedToSubscribers, UNCHANGED got, TypeOK,
         \A c \in Conns : grants[c] \subseteq grants'[c]
  PROVE  RoutedToSubscribers'
<1>. SUFFICES ASSUME NEW c \in Conns, NEW k \in DOMAIN got[c]
              PROVE  \E mp \in MountPoints :
                       /\ [role |-> "server", mount |-> mp] \in grants'[got[c][k].src]
                       /\ [role |-> "client", mount |-> mp] \in grants'[c]
  BY DEF RoutedToSubscribers
<1>1. got[c] \in Seq(Payload)
  BY DEF TypeOK
<1>2. got[c][k] \in Payload
  BY <1>1, LenProperties
<1>3. got[c][k].src \in Conns
  BY <1>2 DEF Payload
<1>. QED  BY <1>3 DEF RoutedToSubscribers

(* A connection in the list has a grant; so one without a grant, or a      *)
(* descriptor that is closed, is not in it.                                *)
LEMMA UngrantedUnmentioned ==
  ASSUME ConformingInv, NEW fd \in Fds,
         sock[fd] = NoConn \/ grants[sock[fd]] = {}
  PROVE  \A i \in DOMAIN infos : ~Mentions(infos[i], fd)
BY DEF ConformingInv, ProtocolInv, TableDenotesPeers, Granted, Mentions

(* A descriptor is in one record, either as its server or as a client.     *)
LEMMA OnePlace ==
  ASSUME ConformingInv, NEW i \in DOMAIN infos, NEW j \in DOMAIN infos,
         NEW fd \in Fds, Mentions(infos[i], fd), Mentions(infos[j], fd)
  PROVE  /\ i = j
         /\ infos[i].server_fd = fd => fd \notin Range(infos[i].client_socket_list)
<1>. DEFINE g(k, r) == [role |-> r, mount |-> infos[k].mountpoint]
<1>1. sock[fd] \in Conns
  BY CasterAssumption DEF ConformingInv, ProtocolInv, TypeOK, TableDenotesPeers, Granted, Mentions
<1>2. \A k \in {i, j} :
        /\ infos[k].server_fd = fd => g(k, "server") \in grants[sock[fd]]
        /\ fd \in Range(infos[k].client_socket_list) =>
             g(k, "client") \in grants[sock[fd]]
  BY DEF ConformingInv, ProtocolInv, TableDenotesPeers, Granted
<1>3. \A x, y \in grants[sock[fd]] : x = y
  BY <1>1 DEF ConformingInv, ProtocolInv, OneGrant
<1>4. \A k \in {i, j} : g(k, "server") \in grants[sock[fd]] \/ g(k, "client") \in grants[sock[fd]]
  BY <1>2 DEF Mentions
<1>5. infos[i].mountpoint = infos[j].mountpoint
  BY <1>3, <1>4
<1>6. i = j
  BY <1>5 DEF ConformingInv, ProtocolInv, MountPointsUnique
<1>7. g(i, "server") # g(i, "client")
  OBVIOUS
<1>. QED  BY <1>2, <1>3, <1>6, <1>7

(* Closing descriptors keeps them apart.                                   *)
LEMMA CloseApart ==
  ASSUME ConformingInv, NEW S, Close(S), UNCHANGED <<backlog, conn, grants>>
  PROVE  DescriptorsApart'
<1>1. \A fd \in Fds : sock'[fd] # NoConn => sock'[fd] = sock[fd]
  BY DEF Close
<1>2. \A c \in Conns : Held(c)' => Held(c)
  BY <1>1, CasterAssumption DEF Held
<1>3. \A k \in DOMAIN backlog : backlog[k] \in Conns
  BY LenProperties DEF ConformingInv, ProtocolInv, TypeOK
<1>. QED  BY <1>1, <1>2, <1>3 DEF ConformingInv, ProtocolInv, DescriptorsApart

(* Reading a chunk keeps the rest of the inbox as it should be, also when  *)
(* the chunk was a request and its connection is granted a place.          *)
LEMMA ReceiveConforms ==
  ASSUME ConformingInv, NEW fd \in Fds, HasChunk(fd), Receive(fd), UNCHANGED sent,
         \A c \in Conns : grants[c] \subseteq grants'[c],
         \A c \in Conns : grants'[c] # grants[c] =>
           c = sock[fd] /\ Chunk(fd).kind \in {"post", "get"}
  PROVE  InboxConforms'
<1>. DEFINE c == sock[fd]
<1>1. c \in Conns /\ inbox[c] \in Seq(Message) /\ inbox[c] # <<>>
      /\ 1 \in DOMAIN inbox[c] /\ Chunk(fd) = inbox[c][1]
  BY ReceiveType DEF ConformingInv, ProtocolInv, TypeOK, HasChunk
<1>2. /\ Tail(inbox[c]) \in Seq(Message) /\ Len(Tail(inbox[c])) = Len(inbox[c]) - 1
      /\ \A k \in 1..Len(Tail(inbox[c])) : Tail(inbox[c])[k] = inbox[c][k + 1]
      /\ DOMAIN inbox[c] = 1..Len(inbox[c]) /\ Len(inbox[c]) \in Nat
      /\ DOMAIN Tail(inbox[c]) = 1..Len(Tail(inbox[c]))
  BY <1>1, HeadTailProperties, LenProperties
<1>3. inbox'[c] = Tail(inbox[c]) /\ \A d \in Conns : d # c => inbox'[d] = inbox[d]
  BY <1>1 DEF ConformingInv, ProtocolInv, TypeOK, Receive
<1>4. sent[c] # 0
  BY <1>1 DEF ConformingInv, ProtocolInv, InboxConforms
<1>5. ASSUME NEW d \in Conns, d # c
      PROVE  /\ sent'[d] = 0 => inbox'[d] = <<>> /\ grants'[d] = {}
             /\ \A k \in DOMAIN inbox'[d] :
                  LET m == inbox'[d][k] IN
                  /\ m.kind \in {"post", "get"} =>
                       Len(inbox'[d]) = 1 /\ grants'[d] = {}
                  /\ m.kind = "data" =>
                       m.src = d /\ \E g \in grants'[d] : g.role = "server"
                  /\ m.kind = "gga" => \E g \in grants'[d] : g.role = "client"
  <2>1. grants'[d] = grants[d] /\ inbox'[d] = inbox[d] /\ sent'[d] = sent[d]
    BY <1>3, <1>5
  <2>. QED  BY <2>1 DEF ConformingInv, ProtocolInv, InboxConforms
<1>6. ASSUME NEW k \in DOMAIN inbox'[c]
      PROVE  LET m == inbox'[c][k] IN
             /\ m.kind \in {"post", "get"} => Len(inbox'[c]) = 1 /\ grants'[c] = {}
             /\ m.kind = "data" =>
                  m.src = c /\ \E g \in grants'[c] : g.role = "server"
             /\ m.kind = "gga" => \E g \in grants'[c] : g.role = "client"
  <2>1. k + 1 \in DOMAIN inbox[c] /\ inbox'[c][k] = inbox[c][k + 1] /\ Len(inbox[c]) # 1
    BY <1>2, <1>3
  <2>2. LET m == inbox[c][k + 1] IN
          /\ m.kind \notin {"post", "get"}
          /\ m.kind = "data" =>
               m.src = c /\ \E g \in grants[c] : g.role = "server"
          /\ m.kind = "gga" => \E g \in grants[c] : g.role = "client"
    BY <1>1, <2>1 DEF ConformingInv, ProtocolInv, InboxConforms
  <2>3. grants[c] \subseteq grants'[c]
    BY <1>1
  <2>. QED  BY <2>1, <2>2, <2>3
<1>. QED  BY <1>4, <1>5, <1>6 DEF InboxConforms

-----------------------------------------------------------------------------
(* The protocol invariant, one lemma for each kind of step.                *)

LEMMA ConnectProtocol ==
  ASSUME ConformingInv, NEW c \in Conns, PeerConnect(c)
  PROVE  ProtocolInv'
<1>1. UNCHANGED <<infos, sock, grants, got, sent, inbox>>
  BY DEF PeerConnect, table
<1>2. TableDenotesPeers' /\ OneGrant' /\ GrantedIsListed' /\ ClientsOnce'
  BY <1>1, FrameStep
<1>3. RoutedToSubscribers'
  BY <1>1, RoutedFrame DEF ConformingInv, ProtocolInv
<1>4. InboxConforms'
  BY <1>1 DEF ConformingInv, ProtocolInv, InboxConforms
<1>5. DescriptorsApart'
  <2>1. backlog \in Seq(Conns) /\ conn \in [Conns -> {"idle", "open", "fin", "rst"}]
        /\ sock \in [Fds -> Conns \cup {NoConn}]
    BY DEF ConformingInv, TypeOK
  <2>2. /\ DOMAIN backlog' = 1..(Len(backlog) + 1) /\ Len(backlog) \in Nat
        /\ DOMAIN backlog = 1..Len(backlog)
        /\ \A k \in DOMAIN backlog : backlog'[k] = backlog[k]
        /\ backlog'[Len(backlog) + 1] = c
    BY <2>1, AppendProperties, LenProperties DEF PeerConnect
  <2>3. conn[c] = "idle" /\ conn' = [conn EXCEPT ![c] = "open"]
    BY DEF PeerConnect
  <2>4. ~Held(c) /\ grants[c] = {} /\ \A k \in DOMAIN backlog : backlog[k] # c
    BY <2>3, CasterAssumption DEF ConformingInv, ProtocolInv, DescriptorsApart, Held
  <2>5. \A d \in Conns : Held(d)' <=> Held(d)
    BY <1>1 DEF Held
  <2>6. \A k \in DOMAIN backlog' :
          backlog'[k] \in Conns /\ (k \in DOMAIN backlog \/ backlog'[k] = c)
    BY <2>1, <2>2, LenProperties
  <2>7. \A k \in DOMAIN backlog' :
          /\ ~Held(backlog[k])' /\ conn'[backlog'[k]] # "idle"
          /\ grants'[backlog'[k]] = {}
    BY <1>1, <2>1, <2>2, <2>3, <2>4, <2>5, <2>6
       DEF ConformingInv, ProtocolInv, DescriptorsApart
  <2>8. \A j, k \in DOMAIN backlog' : backlog'[j] = backlog'[k] => j = k
    BY <2>2, <2>4 DEF ConformingInv, ProtocolInv, DescriptorsApart
  <2>9. /\ \A fd \in Fds : sock'[fd] # NoConn => conn'[sock'[fd]] # "idle"
        /\ \A d \in Conns : conn'[d] = "idle" => grants'[d] = {}
    BY <1>1, <2>1, <2>3 DEF ConformingInv, ProtocolInv, DescriptorsApart
  <2>. QED  BY <1>1, <2>7, <2>8, <2>9 DEF ConformingInv, ProtocolInv, DescriptorsApart
<1>. QED  BY <1>2, <1>3, <1>4, <1>5 DEF ProtocolInv

LEMMA GoneProtocol ==
  ASSUME ConformingInv, NEW c \in Conns, PeerClose(c) \/ PeerReset(c)
  PROVE  ProtocolInv'
<1>1. UNCHANGED <<infos, sock, backlog, grants, got, sent, inbox>>
  BY DEF PeerClose, PeerReset, table
<1>2. TableDenotesPeers' /\ OneGrant' /\ GrantedIsListed' /\ ClientsOnce'
  BY <1>1, FrameStep
<1>3. RoutedToSubscribers' /\ InboxConforms'
  BY <1>1, RoutedFrame DEF ConformingInv, ProtocolInv, InboxConforms
<1>4. \A d \in Conns : conn'[d] = "idle" <=> conn[d] = "idle"
  BY DEF ConformingInv, TypeOK, PeerClose, PeerReset
<1>5. \A k \in DOMAIN backlog : backlog[k] \in Conns
  BY LenProperties DEF ConformingInv, TypeOK
<1>6. \A fd \in Fds : sock[fd] # NoConn => sock[fd] \in Conns
  BY DEF ConformingInv, TypeOK
<1>7. DescriptorsApart'
  BY <1>1, <1>4, <1>5, <1>6 DEF ConformingInv, ProtocolInv, DescriptorsApart, Held
<1>. QED  BY <1>2, <1>3, <1>7 DEF ProtocolInv

LEMMA SendProtocol ==
  ASSUME ConformingInv, NEW c \in Conns, NEW m \in Sayable(c),
         Conforming(c, m), PeerSend(c, m)
  PROVE  ProtocolInv'
<1>1. UNCHANGED <<infos, sock, conn, backlog, grants, got>>
  BY DEF PeerSend, table
<1>2. TableDenotesPeers' /\ OneGrant' /\ GrantedIsListed' /\ ClientsOnce'
  BY <1>1, FrameStep
<1>3. RoutedToSubscribers' /\ DescriptorsApart'
  BY <1>1, RoutedFrame DEF ConformingInv, ProtocolInv, DescriptorsApart, Held
<1>4. m \in Message /\ (m \in Requests => m.kind \in {"post", "get"})
      /\ (m \notin Requests => m.src = c /\ m.kind \in {"gga", "data"})
  BY CasterAssumption
     DEF ConformingInv, TypeOK, Sayable, Message, PostRequest, GetRequest, Payload
<1>5. /\ inbox[c] \in Seq(Message) /\ sent[c] \in Nat
      /\ inbox' = [inbox EXCEPT ![c] = Append(inbox[c], m)]
      /\ sent' = [sent EXCEPT ![c] = sent[c] + 1]
  BY DEF ConformingInv, TypeOK, PeerSend
<1>6. /\ DOMAIN inbox'[c] = 1..(Len(inbox[c]) + 1) /\ Len(inbox[c]) \in Nat
      /\ DOMAIN inbox[c] = 1..Len(inbox[c])
      /\ Len(inbox'[c]) = Len(inbox[c]) + 1
      /\ \A k \in DOMAIN inbox[c] : inbox'[c][k] = inbox[c][k]
      /\ inbox'[c][Len(inbox[c]) + 1] = m
  <2>1. inbox'[c] = Append(inbox[c], m)
    BY <1>5 DEF ConformingInv, TypeOK
  <2>. QED  BY <1>4, <1>5, <2>1, AppendProperties, LenProperties
<1>7. sent'[c] # 0 /\ \A d \in Conns : d # c => sent'[d] = sent[d] /\ inbox'[d] = inbox[d]
  BY <1>5 DEF ConformingInv, TypeOK
<1>8. ASSUME NEW k \in DOMAIN inbox'[c]
      PROVE  /\ inbox'[c][k].kind \in {"post", "get"} =>
                  Len(inbox'[c]) = 1 /\ grants[c] = {}
             /\ inbox'[c][k].kind = "data" => inbox'[c][k].src = c
                  /\ \E g \in grants[c] : g.role = "server"
             /\ inbox'[c][k].kind = "gga" => \E g \in grants[c] : g.role = "client"
  <2>1. CASE m \in Requests /\ sent[c] = 0
    <3>1. inbox[c] = <<>> /\ grants[c] = {}
      BY <2>1 DEF ConformingInv, ProtocolInv, InboxConforms
    <3>2. k = 1 /\ Len(inbox'[c]) = 1 /\ inbox'[c][k] = m
      BY <1>6, <3>1, EmptySeq
    <3>. QED  BY <1>4, <2>1, <3>1, <3>2
  <2>2. CASE \/ m.kind = "data" /\ \E g \in grants[c] : g.role = "server"
             \/ m.kind = "gga" /\ \E g \in grants[c] : g.role = "client"
    <3>1. CASE k \in DOMAIN inbox[c]
      <4>1. inbox[c][k].kind \notin {"post", "get"}
        BY <2>2, <3>1 DEF ConformingInv, ProtocolInv, InboxConforms
      <4>. QED  BY <1>6, <3>1, <4>1 DEF ConformingInv, ProtocolInv, InboxConforms
    <3>2. CASE k = Len(inbox[c]) + 1
      BY <1>4, <1>6, <2>2, <3>2
    <3>. QED  BY <1>6, <3>1, <3>2
  <2>. QED  BY <2>1, <2>2 DEF Conforming
<1>9. InboxConforms'
  BY <1>1, <1>7, <1>8 DEF ConformingInv, ProtocolInv, InboxConforms
<1>. QED  BY <1>2, <1>3, <1>9 DEF ProtocolInv

LEMMA AcceptProtocol ==
  ASSUME ConformingInv, AcceptNewConnect
  PROVE  ProtocolInv'
<1>1. UNCHANGED <<infos, conn, grants, got, sent, inbox>>
  BY DEF AcceptNewConnect, table
<1>2. RoutedToSubscribers' /\ InboxConforms' /\ ClientsOnce' /\ OneGrant'
  BY <1>1, RoutedFrame
     DEF ConformingInv, ProtocolInv, InboxConforms, ClientsOnce, OneGrant
<1>3. CASE UNCHANGED <<sock, backlog>>
  BY <1>1, <1>2, <1>3, FrameStep
     DEF ConformingInv, ProtocolInv, DescriptorsApart, Held
<1>4. ASSUME NEW fd \in Fds, LowestFree(fd), backlog # <<>>,
             sock' = [sock EXCEPT ![fd] = Head(backlog)], backlog' = Tail(backlog)
      PROVE  TableDenotesPeers' /\ GrantedIsListed' /\ DescriptorsApart'
  <2>. DEFINE c == Head(backlog)
  <2>1. backlog \in Seq(Conns) /\ sock \in [Fds -> Conns \cup {NoConn}]
    BY DEF ConformingInv, TypeOK
  <2>2. /\ c = backlog[1] /\ c \in Conns /\ 1 \in DOMAIN backlog
        /\ DOMAIN backlog = 1..Len(backlog) /\ Len(backlog) \in Nat
        /\ DOMAIN backlog' = 1..(Len(backlog) - 1)
        /\ \A k \in DOMAIN backlog' : backlog'[k] = backlog[k + 1]
    BY <1>4, <2>1, HeadTailProperties, LenProperties, EmptySeq
  <2>3. ~Held(c) /\ conn[c] # "idle" /\ grants[c] = {}
        /\ \A k \in DOMAIN backlog' : backlog'[k] # c
    BY <2>2 DEF ConformingInv, ProtocolInv, DescriptorsApart
  <2>4. sock[fd] = NoConn
    BY <1>4 DEF LowestFree
  <2>5. /\ sock'[fd] = c
        /\ \A g \in Fds : g # fd => sock'[g] = sock[g]
    BY <1>4, <2>1
  <2>6. \A i \in DOMAIN infos : ~Mentions(infos[i], fd)
    BY <2>4, UngrantedUnmentioned
  <2>7. TableDenotesPeers'
    BY <1>1, <2>5, <2>6, InfoType, SMTT(30)
       DEF ConformingInv, ProtocolInv, TableDenotesPeers, Granted, Mentions
  <2>8. GrantedIsListed'
    BY <1>1, <2>3, <2>5 DEF ConformingInv, ProtocolInv, GrantedIsListed, ListedAt
  <2>9. \A k \in DOMAIN backlog' : ~Held(backlog[k])'
    <3>1. \A k \in DOMAIN backlog' : k + 1 \in DOMAIN backlog
      BY <2>2
    <3>. QED  BY <2>2, <2>3, <2>5, <3>1
              DEF ConformingInv, ProtocolInv, DescriptorsApart, Held
  <2>10. /\ \A k \in DOMAIN backlog' :
              conn[backlog'[k]] # "idle" /\ grants[backlog'[k]] = {}
         /\ \A j, k \in DOMAIN backlog' : backlog'[j] = backlog'[k] => j = k
    <3>1. \A k \in DOMAIN backlog' : k \in Nat /\ k + 1 \in DOMAIN backlog
      BY <2>2
    <3>2. \A j, k \in DOMAIN backlog' : j + 1 = k + 1 => j = k
      BY <3>1
    <3>. QED  BY <2>2, <3>1, <3>2 DEF ConformingInv, ProtocolInv, DescriptorsApart
  <2>11. /\ \A f, g \in Fds : sock'[f] = sock'[g] /\ sock'[f] # NoConn => f = g
         /\ \A f \in Fds : sock'[f] # NoConn => conn[sock'[f]] # "idle"
    BY <2>3, <2>5 DEF ConformingInv, ProtocolInv, DescriptorsApart, Held
  <2>12. DescriptorsApart'
    BY <1>1, <2>9, <2>10, <2>11 DEF ConformingInv, ProtocolInv, DescriptorsApart
  <2>. QED  BY <2>7, <2>8, <2>12
<1>. QED  BY <1>2, <1>3, <1>4 DEF ProtocolInv, AcceptNewConnect

(* The parts that Disconnect leaves alone.                                 *)
LEMMA DisconnectFrame ==
  ASSUME ConformingInv, NEW fd \in Fds, Disconnect(fd)
  PROVE  OneGrant' /\ InboxConforms' /\ RoutedToSubscribers' /\ DescriptorsApart'
<1>1. UNCHANGED <<backlog, conn, sent, inbox, grants, got>>
  BY DEF Disconnect, peers
<1>2. PICK S : Close(S)
  BY DEF Disconnect, DisconnectServer, DisconnectClient, DisconnectUnknown
<1>3. DescriptorsApart'
  BY <1>1, <1>2, CloseApart
<1>. QED  BY <1>1, <1>3, RoutedFrame
          DEF ConformingInv, ProtocolInv, OneGrant, InboxConforms

LEMMA DisconnectServerProtocol ==
  ASSUME ConformingInv, NEW fd \in Fds, NEW i \in DOMAIN infos,
         DisconnectServer(fd, i), UNCHANGED grants
  PROVE  TableDenotesPeers' /\ GrantedIsListed' /\ ClientsOnce'
<1>. DEFINE C == {fd} \cup Range(infos[i].client_socket_list)
<1>1. infos \in Seq(MountPointInformation) /\ infos' = RemoveAt(infos, i)
  BY DEF ConformingInv, TypeOK, DisconnectServer
<1>2. /\ \A k \in DOMAIN infos' :
           \E j \in DOMAIN infos : j # i /\ infos'[k] = infos[j]
      /\ \A j \in DOMAIN infos : j # i =>
           \E k \in DOMAIN infos' : infos'[k] = infos[j]
  BY <1>1, RemoveAtKeeps
<1>3. \A g \in Fds : sock'[g] = IF g \in C THEN NoConn ELSE sock[g]
  BY DEF DisconnectServer, Close
<1>4. C \subseteq Fds /\ \A g \in C : Mentions(infos[i], g)
  BY InfoType DEF ConformingInv, DisconnectServer, FirstMention, Mentions
<1>5. \A j \in DOMAIN infos, g \in C : j # i => ~Mentions(infos[j], g)
  BY <1>4, OnePlace
<1>6. ASSUME NEW k \in DOMAIN infos'
      PROVE  /\ Granted(infos[k].server_fd, "server", infos[k].mountpoint)'
             /\ \A g \in Range(infos'[k].client_socket_list) :
                  Granted(g, "client", infos[k].mountpoint)'
             /\ IsInjective(infos'[k].client_socket_list)
  <2>1. PICK j \in DOMAIN infos : j # i /\ infos'[k] = infos[j]
    BY <1>2
  <2>2. /\ infos[j].server_fd \in Fds /\ Range(infos[j].client_socket_list) \subseteq Fds
        /\ \A g \in Fds : Mentions(infos[j], g) => sock'[g] = sock[g]
    BY <1>3, <1>5, <2>1, InfoType DEF ConformingInv
  <2>. QED  BY <2>1, <2>2
            DEF ConformingInv, ProtocolInv, TableDenotesPeers, ClientsOnce, Granted, Mentions
<1>7. TableDenotesPeers' /\ ClientsOnce'
  BY <1>6 DEF TableDenotesPeers, ClientsOnce
<1>8. ASSUME NEW h \in Fds, sock'[h] # NoConn, NEW g \in grants'[sock'[h]]
      PROVE  ListedAt(h, g)'
  <2>1. h \notin C /\ sock'[h] = sock[h] /\ g \in grants[sock[h]]
    BY <1>3, <1>8
  <2>2. g.role \in {"server", "client"}
    BY <1>8, <2>1, CasterAssumption DEF ConformingInv, TypeOK, Grant
  <2>3. PICK j \in DOMAIN infos :
          /\ infos[j].mountpoint = g.mount
          /\ g.role = "server" => infos[j].server_fd = h
          /\ g.role = "client" => h \in Range(infos[j].client_socket_list)
    BY <1>8, <2>1 DEF ConformingInv, ProtocolInv, GrantedIsListed, ListedAt
  <2>4. j # i
    BY <2>1, <2>2, <2>3 DEF DisconnectServer
  <2>5. PICK k \in DOMAIN infos' : infos'[k] = infos[j]
    BY <1>2, <2>4
  <2>. QED  BY <2>3, <2>5 DEF ListedAt
<1>9. GrantedIsListed'
  BY <1>8 DEF GrantedIsListed
<1>. QED  BY <1>7, <1>9

LEMMA DisconnectClientProtocol ==
  ASSUME ConformingInv, NEW fd \in Fds, NEW i \in DOMAIN infos,
         DisconnectClient(fd, i), UNCHANGED grants
  PROVE  TableDenotesPeers' /\ GrantedIsListed' /\ ClientsOnce'
<1>. DEFINE list == infos[i].client_socket_list
<1>1. PICK k \in DOMAIN list :
        /\ list[k] = fd
        /\ infos' = [infos EXCEPT ![i].client_socket_list = RemoveAt(list, k)]
  BY DEF DisconnectClient, IsFirst
<1>2. list \in Seq(Fds) /\ IsInjective(list)
  BY InfoType DEF ConformingInv, ProtocolInv, ClientsOnce
<1>3. /\ IsInjective(RemoveAt(list, k))
      /\ Range(RemoveAt(list, k)) = Range(list) \ {fd}
  BY <1>1, <1>2, RemoveAtInjective
<1>4. /\ DOMAIN infos' = DOMAIN infos
      /\ infos'[i].client_socket_list = RemoveAt(list, k)
      /\ \A j \in DOMAIN infos :
           /\ infos'[j].server_fd = infos[j].server_fd
           /\ infos'[j].mountpoint = infos[j].mountpoint
           /\ j # i => infos'[j] = infos[j]
  BY <1>1, InfoType DEF ConformingInv, MountPointInformation
<1>5. \A g \in Fds : sock'[g] = IF g = fd THEN NoConn ELSE sock[g]
  BY DEF DisconnectClient, Close
<1>6. fd \in Range(list) /\ Mentions(infos[i], fd) /\ infos[i].server_fd # fd
  BY <1>1 DEF DisconnectClient, Mentions, Range
<1>7. \A j \in DOMAIN infos : j # i => ~Mentions(infos[j], fd)
  BY <1>6, OnePlace
<1>8. \A j \in DOMAIN infos :
        /\ infos'[j].server_fd # fd /\ infos'[j].server_fd \in Fds
        /\ Range(infos'[j].client_socket_list)
             = Range(infos[j].client_socket_list) \ {fd}
        /\ Range(infos[j].client_socket_list) \subseteq Fds
        /\ IsInjective(infos'[j].client_socket_list)
  BY <1>3, <1>4, <1>6, <1>7, InfoType
     DEF ConformingInv, ProtocolInv, ClientsOnce, Mentions
<1>9. TableDenotesPeers' /\ ClientsOnce'
  <2>1. ASSUME NEW j \in DOMAIN infos'
        PROVE  /\ Granted(infos[j].server_fd, "server", infos[j].mountpoint)'
               /\ \A g \in Range(infos'[j].client_socket_list) :
                    Granted(g, "client", infos[j].mountpoint)'
    <3>1. /\ Granted(infos[j].server_fd, "server", infos[j].mountpoint)
          /\ \A g \in Range(infos[j].client_socket_list) :
               Granted(g, "client", infos[j].mountpoint)
      BY <1>4 DEF ConformingInv, ProtocolInv, TableDenotesPeers
    <3>. QED  BY <1>4, <1>5, <1>8, <3>1 DEF Granted
  <2>. QED  BY <1>4, <1>8, <2>1 DEF TableDenotesPeers, ClientsOnce
<1>10. GrantedIsListed'
  BY <1>4, <1>5, <1>8 DEF ConformingInv, ProtocolInv, GrantedIsListed, ListedAt
<1>. QED  BY <1>9, <1>10

LEMMA CloseUnmentioned ==
  ASSUME ConformingInv, NEW fd \in Fds, \A i \in DOMAIN infos : ~Mentions(infos[i], fd),
         Close({fd}), UNCHANGED <<infos, grants>>
  PROVE  TableDenotesPeers' /\ GrantedIsListed' /\ ClientsOnce'
<1>1. \A g \in Fds : sock'[g] = IF g = fd THEN NoConn ELSE sock[g]
  BY DEF Close
<1>2. ASSUME NEW i \in DOMAIN infos
      PROVE  /\ infos[i].server_fd \in Fds \ {fd}
             /\ Range(infos[i].client_socket_list) \subseteq Fds \ {fd}
  BY InfoType DEF ConformingInv, Mentions
<1>3. TableDenotesPeers'
  BY <1>1, <1>2 DEF ConformingInv, ProtocolInv, TableDenotesPeers, Granted
<1>. QED  BY <1>1, <1>3
          DEF ConformingInv, ProtocolInv, GrantedIsListed, ListedAt, ClientsOnce

LEMMA DisconnectProtocol ==
  ASSUME ConformingInv, NEW fd \in Fds, Disconnect(fd)
  PROVE  ProtocolInv'
<1>1. UNCHANGED grants
  BY DEF Disconnect
<1>2. TableDenotesPeers' /\ GrantedIsListed' /\ ClientsOnce'
  BY <1>1, DisconnectServerProtocol, DisconnectClientProtocol, CloseUnmentioned
     DEF Disconnect, DisconnectUnknown, table
<1>. QED  BY <1>2, DisconnectFrame DEF ProtocolInv

(* A request is read only from a connection that has no grant.             *)
LEMMA RequestUngranted ==
  ASSUME ConformingInv, NEW fd \in Fds, HasChunk(fd),
         Chunk(fd).kind \in {"post", "get"}
  PROVE  grants[sock[fd]] = {}
BY ReceiveType DEF ConformingInv, ProtocolInv, InboxConforms

(* Answering a request: the descriptor is closed, or its connection, so    *)
(* far without a grant, is granted the place it takes in the list.         *)
LEMMA RefuseProtocol ==
  ASSUME ConformingInv, NEW fd \in Fds, HasChunk(fd), Receive(fd),
         Chunk(fd).kind \in {"post", "get"}, Close({fd}),
         UNCHANGED <<infos, grants, sent, backlog, conn, got>>
  PROVE  ProtocolInv'
<1>1. \A i \in DOMAIN infos : ~Mentions(infos[i], fd)
  BY RequestUngranted, UngrantedUnmentioned
<1>2. TableDenotesPeers' /\ GrantedIsListed' /\ ClientsOnce'
  BY <1>1, CloseUnmentioned
<1>3. InboxConforms'
  BY ReceiveConforms
<1>4. RoutedToSubscribers' /\ OneGrant'
  BY RoutedFrame DEF ConformingInv, ProtocolInv, OneGrant
<1>. QED  BY <1>2, <1>3, <1>4, CloseApart DEF ProtocolInv

LEMMA GrantProtocol ==
  ASSUME ConformingInv, NEW fd \in Fds, HasChunk(fd), Receive(fd),
         Chunk(fd).kind \in {"post", "get"}, NEW g \in Grant,
         grants' = [grants EXCEPT ![sock[fd]] = @ \cup {g}],
         UNCHANGED <<sock, sent, backlog, conn, got>>
  PROVE  /\ OneGrant' /\ InboxConforms' /\ RoutedToSubscribers' /\ DescriptorsApart'
         /\ grants'[sock[fd]] = {g}
         /\ \A c \in Conns : c # sock[fd] => grants'[c] = grants[c]
         /\ \A h \in Fds : sock[h] = sock[fd] => h = fd
         /\ sock[fd] \in Conns
<1>. DEFINE c == sock[fd]
<1>1. c \in Conns /\ grants[c] = {}
  BY RequestUngranted, ReceiveType DEF ConformingInv
<1>2. grants'[c] = {g} /\ \A d \in Conns : d # c => grants'[d] = grants[d]
  BY <1>1 DEF ConformingInv, TypeOK
<1>3. OneGrant'
  BY <1>2 DEF ConformingInv, ProtocolInv, OneGrant
<1>4. InboxConforms'
  BY <1>1, <1>2, ReceiveConforms
<1>5. RoutedToSubscribers'
  BY <1>1, <1>2, RoutedFrame DEF ConformingInv, ProtocolInv
<1>6. \A h \in Fds : sock[h] = c => h = fd
  BY <1>1, CasterAssumption DEF ConformingInv, ProtocolInv, DescriptorsApart
<1>7. Held(c) /\ conn[c] # "idle"
  BY <1>1, CasterAssumption DEF ConformingInv, ProtocolInv, DescriptorsApart, Held
<1>8. \A k \in DOMAIN backlog : backlog[k] \in Conns /\ backlog[k] # c
  BY <1>7, LenProperties DEF ConformingInv, TypeOK, ProtocolInv, DescriptorsApart
<1>9. DescriptorsApart'
  BY <1>2, <1>7, <1>8 DEF ConformingInv, ProtocolInv, DescriptorsApart, Held
<1>. QED  BY <1>1, <1>2, <1>3, <1>4, <1>5, <1>6, <1>9

LEMMA RegisterProtocol ==
  ASSUME ConformingInv, NEW fd \in Fds, ServerConnectRequest(fd)
  PROVE  ProtocolInv'
<1>. DEFINE m == Chunk(fd)
            c == sock[fd]
            info == [server_fd |-> fd, mountpoint |-> m.mount, cred |-> m.cred,
                     client_socket_list |-> <<>>]
            g == [role |-> "server", mount |-> m.mount]
<1>1. /\ HasChunk(fd) /\ Receive(fd) /\ m.kind = "post"
      /\ UNCHANGED <<sent, backlog, conn, got>>
  BY DEF ServerConnectRequest, peers
<1>2. CASE Close({fd}) /\ UNCHANGED <<table, grants>>
  BY <1>1, <1>2, RefuseProtocol DEF table
<1>3. CASE /\ Registrable(m)
           /\ infos' = Append(infos, info)
           /\ grants' = [grants EXCEPT ![c] = @ \cup {g}]
           /\ UNCHANGED sock
  <2>1. m \in PostRequest
    BY <1>1, ReceiveType, KindOf DEF ConformingInv
  <2>2. m.mount \in MountPoints /\ m.cred \in Creds
    BY <1>3, <2>1 DEF Registrable, PostRequest
  <2>3. g \in Grant /\ info \in MountPointInformation
    BY <2>2, EmptySeq DEF Grant, MountPointInformation
  <2>. DEFINE n == Len(infos) + 1
  <2>4. /\ DOMAIN infos' = 1..n /\ Len(infos) \in Nat
        /\ DOMAIN infos = 1..Len(infos)
        /\ \A k \in DOMAIN infos : infos'[k] = infos[k]
        /\ infos'[n] = info
    <3>1. infos \in Seq(MountPointInformation)
      BY DEF ConformingInv, TypeOK
    <3>. HIDE DEF info
    <3>. QED  BY <1>3, <2>3, <3>1, AppendProperties, LenProperties
  <2>5. \A k \in DOMAIN infos' : k \in DOMAIN infos \/ k = n
    BY <2>4
  <2>6. /\ OneGrant' /\ InboxConforms' /\ RoutedToSubscribers' /\ DescriptorsApart'
        /\ grants'[c] = {g}
        /\ \A d \in Conns : d # c => grants'[d] = grants[d]
        /\ \A h \in Fds : sock[h] = c => h = fd
        /\ c \in Conns
    <3>. HIDE DEF g
    <3>. QED  BY <1>1, <1>3, <2>3, GrantProtocol
  <2>7. /\ info.server_fd = fd /\ info.mountpoint = m.mount
        /\ Range(info.client_socket_list) = {} /\ IsInjective(info.client_socket_list)
    BY DEF Range, IsInjective
  <2>8. c # NoConn /\ grants[c] = {}
    BY <1>1, <2>6, CasterAssumption, RequestUngranted
  <2>. HIDE DEF info, m
  <2>9. TableDenotesPeers'
    <3>1. ASSUME NEW k \in DOMAIN infos
          PROVE  /\ Granted(infos[k].server_fd, "server", infos[k].mountpoint)'
                 /\ \A h \in Range(infos'[k].client_socket_list) :
                      Granted(h, "client", infos[k].mountpoint)'
      <4>1. /\ infos'[k] = infos[k]
            /\ infos[k].server_fd \in Fds /\ Range(infos[k].client_socket_list) \subseteq Fds
        BY <2>4, InfoType DEF ConformingInv
      <4>2. \A h \in Fds : sock[h] # NoConn => grants[sock[h]] \subseteq grants'[sock[h]]
        BY <2>6, <2>8 DEF ConformingInv, TypeOK
      <4>. QED  BY <1>3, <4>1, <4>2 DEF ConformingInv, ProtocolInv, TableDenotesPeers, Granted
    <3>2. /\ infos'[n].server_fd = fd /\ infos'[n].mountpoint = m.mount
          /\ Range(infos'[n].client_socket_list) = {}
      BY <2>4, <2>7
    <3>3. sock'[fd] = c /\ g \in grants'[c]
      BY <1>3, <2>6
    <3>. SUFFICES ASSUME NEW k \in DOMAIN infos'
          PROVE  /\ Granted(infos[k].server_fd, "server", infos[k].mountpoint)'
                 /\ \A h \in Range(infos'[k].client_socket_list) :
                      Granted(h, "client", infos[k].mountpoint)'
      BY DEF TableDenotesPeers
    <3>4. CASE k = n
      <4>1. Granted(infos[k].server_fd, "server", infos[k].mountpoint)'
        BY <2>8, <3>2, <3>3, <3>4 DEF Granted
      <4>. QED  BY <3>2, <3>4, <4>1
    <3>. QED  BY <2>5, <3>1, <3>4
  <2>10. GrantedIsListed'
    <3>1. ASSUME NEW h \in Fds, sock[h] # NoConn, NEW x \in grants'[sock[h]]
          PROVE  ListedAt(h, x)'
      <4>1. CASE h = fd
        <5>1. x = g /\ n \in DOMAIN infos'
          BY <2>4, <2>6, <3>1, <4>1
        <5>. QED  BY <2>4, <2>7, <4>1, <5>1 DEF ListedAt
      <4>2. CASE h # fd
        <5>1. x \in grants[sock[h]]
          BY <2>6, <3>1, <4>2 DEF ConformingInv, TypeOK
        <5>2. PICK k \in DOMAIN infos :
                /\ infos[k].mountpoint = x.mount
                /\ x.role = "server" => infos[k].server_fd = h
                /\ x.role = "client" => h \in Range(infos[k].client_socket_list)
          BY <3>1, <5>1 DEF ConformingInv, ProtocolInv, GrantedIsListed, ListedAt
        <5>3. k \in DOMAIN infos' /\ infos'[k] = infos[k]
          BY <2>4
        <5>. QED  BY <5>2, <5>3 DEF ListedAt
      <4>. QED  BY <4>1, <4>2
    <3>. QED  BY <1>3, <3>1 DEF GrantedIsListed
  <2>11. ClientsOnce'
    BY <2>4, <2>5, <2>7 DEF ConformingInv, ProtocolInv, ClientsOnce
  <2>. QED  BY <2>6, <2>9, <2>10, <2>11 DEF ProtocolInv
<1>. QED  BY <1>2, <1>3 DEF ServerConnectRequest

LEMMA SubscribeProtocol ==
  ASSUME ConformingInv, NEW fd \in Fds, ClientConnectRequest(fd)
  PROVE  ProtocolInv'
<1>. DEFINE m == Chunk(fd)
            c == sock[fd]
            g == [role |-> "client", mount |-> m.mount]
<1>1. /\ HasChunk(fd) /\ Receive(fd) /\ m.kind = "get"
      /\ UNCHANGED <<sent, backlog, conn, got>>
  BY DEF ClientConnectRequest, peers
<1>2. CASE Close({fd}) /\ UNCHANGED <<infos, grants>>
  BY <1>1, <1>2, RefuseProtocol
<1>3. ASSUME NEW i \in DOMAIN infos, Admits(infos[i], m),
             infos' = [infos EXCEPT ![i].client_socket_list = Append(@, fd)],
             grants' = [grants EXCEPT ![c] = @ \cup {g}],
             UNCHANGED sock
      PROVE  ProtocolInv'
  <2>. DEFINE list == infos[i].client_socket_list
  <2>1. m.mount = infos[i].mountpoint /\ m.mount \in MountPoints
    BY <1>3, InfoType DEF ConformingInv, Admits
  <2>2. g \in Grant
    BY <2>1 DEF Grant
  <2>3. /\ OneGrant' /\ InboxConforms' /\ RoutedToSubscribers' /\ DescriptorsApart'
        /\ grants'[c] = {g}
        /\ \A d \in Conns : d # c => grants'[d] = grants[d]
        /\ \A h \in Fds : sock[h] = c => h = fd
        /\ c \in Conns
    <3>. HIDE DEF g
    <3>. QED  BY <1>1, <1>3, <2>2, GrantProtocol
  <2>4. c # NoConn /\ grants[c] = {}
    BY <1>1, <2>3, CasterAssumption, RequestUngranted
  <2>5. \A k \in DOMAIN infos : ~Mentions(infos[k], fd)
    BY <2>4, UngrantedUnmentioned
  <2>6. list \in Seq(Fds) /\ DOMAIN list = 1..Len(list) /\ Len(list) \in Nat
        /\ IsInjective(list) /\ fd \notin Range(list)
    BY <2>5, InfoType, LenProperties DEF ConformingInv, ProtocolInv, ClientsOnce, Mentions
  <2>7. /\ DOMAIN Append(list, fd) = 1..(Len(list) + 1)
        /\ \A k \in DOMAIN list : Append(list, fd)[k] = list[k]
        /\ Append(list, fd)[Len(list) + 1] = fd
    BY <2>6, AppendProperties, LenProperties
  <2>8. Range(Append(list, fd)) = Range(list) \cup {fd} /\ IsInjective(Append(list, fd))
    <3>1. \A k \in DOMAIN Append(list, fd) : k \in DOMAIN list \/ k = Len(list) + 1
      BY <2>6, <2>7
    <3>2. Range(Append(list, fd)) = Range(list) \cup {fd}
      BY <2>6, <2>7, <3>1 DEF Range
    <3>3. IsInjective(Append(list, fd))
      BY <2>6, <2>7, <3>1 DEF IsInjective, Range
    <3>. QED  BY <3>2, <3>3
  <2>9. /\ DOMAIN infos' = DOMAIN infos
        /\ infos'[i].client_socket_list = Append(list, fd)
        /\ \A j \in DOMAIN infos :
             /\ infos'[j].server_fd = infos[j].server_fd
             /\ infos'[j].mountpoint = infos[j].mountpoint
             /\ j # i => infos'[j] = infos[j]
    BY <1>3, InfoType DEF ConformingInv, MountPointInformation
  <2>10. TableDenotesPeers'
    <3>1. ASSUME NEW j \in DOMAIN infos'
          PROVE  /\ Granted(infos[j].server_fd, "server", infos[j].mountpoint)'
                 /\ \A h \in Range(infos'[j].client_socket_list) :
                      Granted(h, "client", infos[j].mountpoint)'
      <4>0. infos[j].server_fd \in Fds /\ Range(infos[j].client_socket_list) \subseteq Fds
        BY <2>9, InfoType DEF ConformingInv
      <4>1. \A h \in Fds : sock[h] # NoConn => grants[sock[h]] \subseteq grants'[sock[h]]
        BY <2>3, <2>4 DEF ConformingInv, TypeOK
      <4>2. /\ Granted(infos[j].server_fd, "server", infos[j].mountpoint)
            /\ \A h \in Range(infos[j].client_socket_list) :
                 Granted(h, "client", infos[j].mountpoint)
        BY <2>9 DEF ConformingInv, ProtocolInv, TableDenotesPeers
      <4>3. j = i => Granted(fd, "client", infos[j].mountpoint)'
        BY <1>3, <2>1, <2>3, <2>4, <2>9, ZenonT(30) DEF Granted
      <4>4. \A h \in Range(infos'[j].client_socket_list) :
              h \in Range(infos[j].client_socket_list) \/ (j = i /\ h = fd)
        BY <2>8, <2>9
      <4>. QED  BY <1>3, <2>9, <4>0, <4>1, <4>2, <4>3, <4>4 DEF Granted
    <3>. QED  BY <3>1 DEF TableDenotesPeers
  <2>11. GrantedIsListed'
    <3>1. ASSUME NEW h \in Fds, sock[h] # NoConn, NEW x \in grants'[sock[h]]
          PROVE  ListedAt(h, x)'
      <4>1. CASE h = fd
        <5>1. x = g
          BY <2>3, <3>1, <4>1
        <5>. QED  BY <2>1, <2>8, <2>9, <4>1, <5>1 DEF ListedAt
      <4>2. CASE h # fd
        <5>1. x \in grants[sock[h]]
          BY <2>3, <3>1, <4>2 DEF ConformingInv, TypeOK
        <5>2. PICK k \in DOMAIN infos :
                /\ infos[k].mountpoint = x.mount
                /\ x.role = "server" => infos[k].server_fd = h
                /\ x.role = "client" => h \in Range(infos[k].client_socket_list)
          BY <3>1, <5>1 DEF ConformingInv, ProtocolInv, GrantedIsListed, ListedAt
        <5>3. /\ k \in DOMAIN infos'
              /\ Range(infos[k].client_socket_list) \subseteq Range(infos'[k].client_socket_list)
          BY <2>8, <2>9
        <5>. QED  BY <2>9, <5>2, <5>3 DEF ListedAt
      <4>. QED  BY <4>1, <4>2
    <3>. QED  BY <1>3, <3>1 DEF GrantedIsListed
  <2>12. ClientsOnce'
    BY <2>8, <2>9 DEF ConformingInv, ProtocolInv, ClientsOnce
  <2>. QED  BY <2>3, <2>10, <2>11, <2>12 DEF ProtocolInv
<1>. QED  BY <1>2, <1>3 DEF ClientConnectRequest

(* A payload is read only from a connection with a grant: data from the    *)
(* server of a mount point, a GGA sentence from a client.                  *)
LEMMA PayloadGranted ==
  ASSUME ConformingInv, NEW fd \in Fds, HasChunk(fd)
  PROVE  /\ Chunk(fd).kind = "data" =>
              /\ Chunk(fd).src = sock[fd]
              /\ \E g \in grants[sock[fd]] : g.role = "server"
         /\ Chunk(fd).kind = "gga" => \E g \in grants[sock[fd]] : g.role = "client"
BY ReceiveType DEF ConformingInv, ProtocolInv, InboxConforms

LEMMA ForwardProtocol ==
  ASSUME ConformingInv, NEW fd \in Fds, Forward(fd)
  PROVE  ProtocolInv'
<1>0. PICK i \in DOMAIN infos :
        \E lost \in SUBSET DOMAIN infos[i].client_socket_list :
          TryToForwardServerData(fd, i, lost)
  BY DEF Forward
<1>1. PICK lost \in SUBSET DOMAIN infos[i].client_socket_list :
        TryToForwardServerData(fd, i, lost)
  BY <1>0
<1>. DEFINE list == infos[i].client_socket_list
            mp == infos[i].mountpoint
            d == Chunk(fd)
            copies(c) == {k \in DOMAIN list \ lost :
                            sock[list[k]] = c /\ conn[c] = "open"}
            new(c) == [k \in 1..Cardinality(copies(c)) |-> d]
<1>2. /\ HasChunk(fd) /\ Receive(fd) /\ d.kind \in {"gga", "data"}
      /\ infos[i].server_fd = fd
      /\ UNCHANGED <<infos, strs, sock, backlog, conn, sent, grants>>
  BY <1>1 DEF TryToForwardServerData, FeedsAt, table, peers
<1>3. TableDenotesPeers' /\ OneGrant' /\ GrantedIsListed' /\ ClientsOnce'
  BY <1>2, FrameStep
<1>4. DescriptorsApart' /\ InboxConforms'
  BY <1>2, ReceiveConforms DEF ConformingInv, ProtocolInv, DescriptorsApart, Held
<1>5. sock[fd] \in Conns /\ [role |-> "server", mount |-> mp] \in grants[sock[fd]]
  BY <1>2, ReceiveType DEF ConformingInv, ProtocolInv, TableDenotesPeers, Granted
<1>6. d.src = sock[fd]
  BY <1>2, <1>5, PayloadGranted DEF ConformingInv, ProtocolInv, OneGrant
<1>7. ASSUME NEW c \in Conns, copies(c) # {}
      PROVE  [role |-> "client", mount |-> mp] \in grants[c]
  BY <1>7 DEF ConformingInv, ProtocolInv, TableDenotesPeers, Granted, Range
<1>8. ASSUME NEW c \in Conns, NEW k \in DOMAIN (got[c] \o new(c))
      PROVE  \/ k \in DOMAIN got[c] /\ (got[c] \o new(c))[k] = got[c][k]
             \/ copies(c) # {} /\ (got[c] \o new(c))[k] = d
  <2>1. Cardinality(copies(c)) \in Nat
    <3>1. list \in Seq(Fds)
      BY InfoType DEF ConformingInv
    <3>2. DOMAIN list = 1..Len(list) /\ Len(list) \in Int
      BY <3>1, LenProperties
    <3>3. copies(c) \subseteq DOMAIN list
      OBVIOUS
    <3>4. IsFiniteSet(DOMAIN list)
      BY <3>2, FS_Interval
    <3>5. IsFiniteSet(copies(c))
      BY <3>3, <3>4, FS_Subset
    <3>. HIDE DEF copies
    <3>. QED  BY <3>5, FS_CardinalityType
  <2>2. copies(c) = {} => Cardinality(copies(c)) = 0
    BY FS_EmptySet
  <2>3. d \in Payload
    BY <1>2, ReceiveType, KindOf DEF ConformingInv
  <2>4. got[c] \in Seq(Payload)
    BY DEF ConformingInv, TypeOK
  <2>. DEFINE N == Cardinality(copies(c))
  <2>5. new(c) \in [1..N -> Payload]
    BY <2>3
  <2>6. new(c) \in Seq(Payload) /\ Len(new(c)) = N
    BY <2>1, <2>5, SeqDef, LenProperties
  <2>7. \A j \in 1..N : new(c)[j] = d
    OBVIOUS
  <2>. HIDE DEF new, d, copies, N
  <2>8. /\ DOMAIN (got[c] \o new(c)) = 1..(Len(got[c]) + N)
        /\ DOMAIN got[c] = 1..Len(got[c]) /\ Len(got[c]) \in Nat
        /\ \A j \in 1..(Len(got[c]) + N) : (got[c] \o new(c))[j] =
             IF j <= Len(got[c]) THEN got[c][j] ELSE new(c)[j - Len(got[c])]
    <3>1. /\ got[c] \o new(c) \in Seq(Payload)
          /\ Len(got[c] \o new(c)) = Len(got[c]) + Len(new(c))
          /\ \A j \in 1..(Len(got[c]) + Len(new(c))) : (got[c] \o new(c))[j] =
               IF j <= Len(got[c]) THEN got[c][j] ELSE new(c)[j - Len(got[c])]
      BY <2>4, <2>6, ConcatProperties
    <3>2. DOMAIN (got[c] \o new(c)) = 1..Len(got[c] \o new(c))
      BY <3>1, LenProperties
    <3>3. DOMAIN got[c] = 1..Len(got[c]) /\ Len(got[c]) \in Nat
      BY <2>4, LenProperties
    <3>. QED  BY <2>6, <3>1, <3>2, <3>3
  <2>9. CASE k <= Len(got[c])
    BY <2>8, <2>9
  <2>10. CASE ~(k <= Len(got[c]))
    <3>. DEFINE j == k - Len(got[c])
    <3>1. j \in 1..N /\ N # 0 /\ (got[c] \o new(c))[k] = new(c)[j]
      BY <2>1, <2>8, <2>10 DEF N
    <3>. QED  BY <2>2, <2>7, <3>1 DEF N
  <2>. QED  BY <2>9, <2>10
<1>9. got' = [c \in Conns |-> got[c] \o new(c)]
  BY <1>1 DEF TryToForwardServerData
<1>10. RoutedToSubscribers'
  <2>. HIDE DEF new, d, mp, copies
  <2>. SUFFICES ASSUME NEW c \in Conns, NEW k \in DOMAIN got'[c]
                PROVE  \E p \in MountPoints :
                         /\ [role |-> "server", mount |-> p] \in grants[got'[c][k].src]
                         /\ [role |-> "client", mount |-> p] \in grants[c]
    BY <1>2 DEF RoutedToSubscribers
  <2>1. got'[c] = got[c] \o new(c)
    BY <1>9
  <2>2. CASE k \in DOMAIN got[c] /\ got'[c][k] = got[c][k]
    BY <2>2 DEF ConformingInv, ProtocolInv, RoutedToSubscribers
  <2>3. CASE copies(c) # {} /\ got'[c][k] = d
    <3>1. mp \in MountPoints
      BY InfoType DEF ConformingInv, mp
    <3>. QED  BY <1>5, <1>6, <1>7, <2>3, <3>1
  <2>. QED  BY <1>8, <2>1, <2>2, <2>3
<1>. QED  BY <1>3, <1>4, <1>10 DEF ProtocolInv

(* ParseData never fails on what a conforming peer sends as data, so the   *)
(* close without Disconnect is not reached.                                *)
(* Data comes from a server that is listed: nothing is closed for it.      *)
LEMMA NoStrayData ==
  ASSUME ConformingInv, NEW fd \in Fds, NotAServer(fd)
  PROVE  UNCHANGED sock
<1>1. HasChunk(fd) /\ \A i \in DOMAIN infos : infos[i].server_fd # fd
  BY DEF NotAServer
<1>2. ASSUME Chunk(fd).kind = "data" PROVE FALSE
  <2>1. PICK g \in grants[sock[fd]] : g.role = "server"
    BY <1>1, <1>2, PayloadGranted
  <2>2. sock[fd] # NoConn
    BY <1>1 DEF HasChunk
  <2>3. ListedAt(fd, g)
    BY <2>1, <2>2 DEF ConformingInv, ProtocolInv, GrantedIsListed
  <2>. QED  BY <1>1, <2>1, <2>3 DEF ListedAt
<1>. QED  BY <1>2 DEF NotAServer

LEMMA NotAServerProtocol ==
  ASSUME ConformingInv, NEW fd \in Fds, NotAServer(fd)
  PROVE  ProtocolInv'
<1>1. /\ HasChunk(fd) /\ Receive(fd) /\ Chunk(fd).kind \in {"gga", "data"}
      /\ \A i \in DOMAIN infos : infos[i].server_fd # fd
      /\ UNCHANGED <<infos, backlog, conn, sent, grants, got>>
  BY DEF NotAServer, table, peers
<1>3. UNCHANGED sock
  BY NoStrayData
<1>4. TableDenotesPeers' /\ OneGrant' /\ GrantedIsListed' /\ ClientsOnce'
  BY <1>1, <1>3, FrameStep
<1>5. InboxConforms'
  BY <1>1, ReceiveConforms
<1>6. RoutedToSubscribers' /\ DescriptorsApart'
  BY <1>1, <1>3, RoutedFrame
     DEF ConformingInv, ProtocolInv, DescriptorsApart, Held
<1>. QED  BY <1>4, <1>5, <1>6 DEF ProtocolInv

(* Steps that change none of the variables the invariant mentions.         *)
LEMMA QuietProtocol ==
  ASSUME ConformingInv,
         UNCHANGED <<infos, sock, backlog, conn, sent, inbox, grants, got>>
  PROVE  ProtocolInv'
<1>1. TableDenotesPeers' /\ OneGrant' /\ GrantedIsListed' /\ ClientsOnce'
  BY FrameStep
<1>2. RoutedToSubscribers'
  BY RoutedFrame DEF ConformingInv, ProtocolInv
<1>. QED  BY <1>1, <1>2
          DEF ConformingInv, ProtocolInv, DescriptorsApart, Held, InboxConforms

LEMMA LoopProtocol ==
  ASSUME ConformingInv, Loop
  PROVE  ProtocolInv'
<1>1. CASE EpollWait \/ EpollError
  BY <1>1, QuietProtocol DEF EpollWait, EpollError, table, peers
<1>2. CASE AcceptNewConnect
  BY <1>2, AcceptProtocol
<1>3. ASSUME NEW fd \in Fds, HandleEvent(fd) PROVE ProtocolInv'
  <2>1. CASE KilledBySigPipe(fd)
    BY <2>1, QuietProtocol DEF KilledBySigPipe, table, peers
  <2>. QED  BY <1>3, <2>1, DisconnectProtocol, RegisterProtocol, SubscribeProtocol,
                ForwardProtocol, NotAServerProtocol DEF HandleEvent
<1>. QED  BY <1>1, <1>2, <1>3 DEF Loop

LEMMA ConformingStep == ConformingInv /\ [ConformingNext]_vars => ConformingInv'
<1>. SUFFICES ASSUME ConformingInv, [ConformingNext]_vars PROVE ConformingInv'
  OBVIOUS
<1>1. [Next]_vars
  BY DEF ConformingNext, Next
<1>2. TypeOK' /\ MountPointsUnique'
  BY <1>1, TypeStep, UniqueStep DEF ConformingInv
<1>3. ASSUME Loop PROVE ProtocolInv'
  BY <1>3, LoopProtocol
<1>4. ASSUME NEW c \in Conns, PeerStep(c) PROVE ProtocolInv'
  BY <1>4, ConnectProtocol, GoneProtocol DEF PeerStep
<1>5. ASSUME NEW c \in Conns, NEW m \in Sayable(c), Conforming(c, m), PeerSend(c, m)
      PROVE  ProtocolInv'
  BY <1>5, SendProtocol
<1>6. ASSUME UNCHANGED vars PROVE ProtocolInv'
  BY <1>6, QuietProtocol DEF vars
<1>7. ProtocolInv'
  BY <1>3, <1>4, <1>5, <1>6 DEF ConformingNext
<1>. QED  BY <1>2, <1>7 DEF ConformingInv

LEMMA ConformingInvariant == ConformingSpec => []ConformingInv
BY ConformingInit, ConformingStep, PTL DEF ConformingSpec

(* While the peers follow the protocol, every descriptor in the mount      *)
(* point list is open and denotes the connection that was granted its      *)
(* place, however the kernel reuses descriptors and whatever stale events  *)
(* a batch holds.                                                          *)
THEOREM DescriptorsDenotePeers == ConformingSpec => []TableDenotesPeers
<1>1. ConformingInv => TableDenotesPeers
  BY DEF ConformingInv, ProtocolInv
<1>. QED  BY <1>1, ConformingInvariant, PTL

(* While the peers follow the protocol, a connection receives nothing but  *)
(* data of the server of a mount point it was granted as a client.         *)
THEOREM DataReachesSubscribersOnly == ConformingSpec => []RoutedToSubscribers
<1>1. ConformingInv => RoutedToSubscribers
  BY DEF ConformingInv, ProtocolInv
<1>. QED  BY <1>1, ConformingInvariant, PTL
-----------------------------------------------------------------------------
(* Stale events.                                                           *)

(* The events of a batch are for different descriptors, and none that      *)
(* denotes a connection with a grant is stale: there is something to       *)
(* receive from it, or its peer has gone.                                  *)
EventsCurrent ==
  /\ IsInjective(batch)
  /\ \A fd \in Range(batch) \cap Fds :
       sock[fd] # NoConn /\ grants[sock[fd]] # {} => Readable(fd)

(* The events behind the one that is handled stay current if its handler   *)
(* leaves alone what their descriptors denote.                             *)
LEMMA NextEvents ==
  ASSUME TypeOK, EventsCurrent, NEW e, Event(e), Done, UNCHANGED conn,
         \A f \in Fds \ {e} : sock'[f] # NoConn /\ grants'[sock'[f]] # {} =>
           /\ sock'[f] = sock[f] /\ grants'[sock'[f]] = grants[sock[f]]
           /\ inbox'[sock'[f]] = inbox[sock[f]]
  PROVE  EventsCurrent'
<1>1. /\ batch \in Seq(Fds \cup {ListenFd}) /\ batch # <<>> /\ Head(batch) = e
      /\ IsInjective(batch)
  BY DEF TypeOK, Event, EventsCurrent
<1>2. /\ Len(batch) \in Nat /\ DOMAIN batch = 1..Len(batch) /\ e = batch[1] /\ 1 \in DOMAIN batch
      /\ DOMAIN Tail(batch) = 1..(Len(batch) - 1)
      /\ \A k \in DOMAIN Tail(batch) : k + 1 \in DOMAIN batch /\ Tail(batch)[k] = batch[k + 1]
  BY <1>1, HeadTailProperties, LenProperties, EmptySeq
<1>3. IsInjective(Tail(batch))
  BY <1>1, <1>2 DEF IsInjective
<1>4. \A f \in Range(Tail(batch)) : f \in Range(batch) /\ f # e
  <2>1. ASSUME NEW k \in DOMAIN Tail(batch)
        PROVE  Tail(batch)[k] \in Range(batch) /\ Tail(batch)[k] # e
    <3>1. k + 1 # 1 /\ k + 1 \in DOMAIN batch
      BY <1>2
    <3>. QED  BY <1>1, <1>2, <3>1 DEF IsInjective, Range
  <2>. QED  BY <2>1 DEF Range
<1>. QED  BY <1>3, <1>4 DEF EventsCurrent, Done, Readable

(* A handler changes what its own descriptor denotes, closes descriptors,  *)
(* receives from its own connection and grants it a place.                 *)
LEMMA HandlerEvents ==
  ASSUME ConformingInv, EventsCurrent, NEW fd \in Fds, Event(fd), Done, UNCHANGED conn,
         UNCHANGED sock \/ \E S : Close(S),
         \A c \in Conns : c = sock[fd] \/ (inbox'[c] = inbox[c] /\ grants'[c] = grants[c])
  PROVE  EventsCurrent'
<1>1. \A f \in Fds : sock'[f] # NoConn => sock'[f] = sock[f]
  BY DEF Close
<1>2. \A f \in Fds \ {fd} : sock[f] # NoConn => sock[f] \in Conns /\ sock[f] # sock[fd]
  BY DEF ConformingInv, TypeOK, ProtocolInv, DescriptorsApart
<1>. QED  BY <1>1, <1>2, NextEvents DEF ConformingInv

LEMMA EventsStep ==
  ASSUME ConformingInv, EventsCurrent, [ConformingNext]_vars
  PROVE  EventsCurrent'
<1>1. TypeOK /\ ListenFd \notin Fds
  BY CasterAssumption DEF ConformingInv
<1>2. CASE EpollWait
  <2>1. /\ \A f \in Range(batch') : f \in ReadyEvents
        /\ IsInjective(batch') /\ UNCHANGED <<sock, inbox, conn, grants>>
    BY <1>2 DEF EpollWait, SeqOf, Range, peers
  <2>2. \A f \in ReadyEvents \cap Fds : Readable(f)
    BY <1>1 DEF ReadyEvents
  <2>. QED  BY <2>1, <2>2 DEF EventsCurrent, Readable
<1>3. CASE AcceptNewConnect
  <2>1. /\ Event(ListenFd) /\ Done /\ UNCHANGED <<conn, inbox, grants>>
        /\ backlog # <<>>
    BY <1>3 DEF AcceptNewConnect
  <2>2. grants[Head(backlog)] = {}
    <3>1. 1 \in DOMAIN backlog /\ Head(backlog) = backlog[1]
      BY <1>1, <2>1, EmptySeq, LenProperties DEF TypeOK
    <3>. QED  BY <3>1 DEF ConformingInv, ProtocolInv, DescriptorsApart
  <2>3. \A f \in Fds : sock'[f] = sock[f] \/ sock'[f] = Head(backlog)
    BY <1>1, <1>3 DEF AcceptNewConnect, TypeOK
  <2>. QED  BY <1>1, <2>1, <2>2, <2>3, NextEvents
<1>4. ASSUME NEW fd \in Fds, HandleEvent(fd) PROVE EventsCurrent'
  <2>1. CASE KilledBySigPipe(fd)
    BY <2>1 DEF KilledBySigPipe, EventsCurrent, Readable, peers
  <2>2. CASE Disconnect(fd)
    <3>1. Event(fd) /\ Done /\ UNCHANGED <<conn, inbox, grants>> /\ \E S : Close(S)
      BY <2>2 DEF Disconnect, DisconnectServer, DisconnectClient, DisconnectUnknown, peers
    <3>. QED  BY <3>1, HandlerEvents
  <2>3. CASE ServerConnectRequest(fd) \/ ClientConnectRequest(fd) \/ NotAServer(fd) \/ Forward(fd)
    <3>1. /\ Event(fd) /\ Done /\ UNCHANGED conn /\ Receive(fd) /\ HasChunk(fd)
          /\ UNCHANGED sock \/ Close({fd})
      BY <2>3 DEF ServerConnectRequest, ClientConnectRequest, NotAServer, Forward,
                  TryToForwardServerData, peers
    <3>2. \A c \in Conns : c = sock[fd] \/ grants'[c] = grants[c]
      BY <1>1, <2>3 DEF ServerConnectRequest, ClientConnectRequest, NotAServer, Forward,
                        TryToForwardServerData, TypeOK
    <3>3. \A c \in Conns : c = sock[fd] \/ inbox'[c] = inbox[c]
      BY <1>1, <3>1 DEF Receive, TypeOK
    <3>. QED  BY <3>1, <3>2, <3>3, HandlerEvents
  <2>. QED  BY <1>4, <2>1, <2>2, <2>3 DEF HandleEvent
<1>5. ASSUME NEW c \in Conns, PeerStep(c) \/ \E m \in Sayable(c) : PeerSend(c, m)
      PROVE  EventsCurrent'
  <2>1. UNCHANGED <<batch, sock, grants>>
    BY <1>5 DEF PeerStep, PeerConnect, PeerClose, PeerReset, PeerSend
  <2>2. \A d \in Conns : inbox[d] # <<>> => inbox'[d] # <<>>
    BY <1>1, <1>5, AppendProperties DEF PeerStep, PeerConnect, PeerClose, PeerReset, PeerSend, TypeOK
  <2>3. \A d \in Conns : conn[d] \in {"fin", "rst"} => conn'[d] \in {"fin", "rst"}
    BY <1>1, <1>5 DEF PeerStep, PeerConnect, PeerClose, PeerReset, PeerSend, TypeOK
  <2>4. \A f \in Fds : Readable(f) => Readable(f)'
    BY <1>1, <2>1, <2>2, <2>3 DEF Readable, TypeOK
  <2>. QED  BY <2>1, <2>4 DEF EventsCurrent
<1>6. CASE EpollError \/ UNCHANGED vars
  BY <1>6 DEF EpollError, vars, EventsCurrent, Readable, peers
<1>. QED  BY <1>2, <1>3, <1>4, <1>5, <1>6 DEF ConformingNext, Loop

(* A member's descriptor is closed because its peer has gone, or its       *)
(* server's peer.                                                          *)
LEMMA MembersStep ==
  ASSUME ConformingInv, EventsCurrent, [ConformingNext]_vars, NEW c \in Conns,
         Held(c), grants[c] # {}, conn[c] = "open", ~Held(c)'
  PROVE  LosesServer(c)
<1>1. PICK f \in Fds : sock[f] = c /\ sock'[f] # c
  BY DEF Held
<1>2. c # NoConn /\ TypeOK
  BY CasterAssumption DEF ConformingInv
<1>3. ASSUME NEW fd \in Fds, Disconnect(fd) PROVE LosesServer(c)
  <2>1. fd \in Range(batch) /\ ~HasChunk(fd)
    <3>1. 1 \in DOMAIN batch /\ Head(batch) = batch[1]
      BY <1>2, <1>3, EmptySeq, LenProperties DEF Disconnect, Event, TypeOK
    <3>. QED  BY <1>3, <3>1 DEF Disconnect, Event, Range
  <2>2. sock[fd] # NoConn /\ grants[sock[fd]] # {} => conn[sock[fd]] \in {"fin", "rst"}
    BY <2>1 DEF EventsCurrent, Readable, HasChunk
  <2>3. f # fd
    BY <1>1, <1>2, <2>2
  <2>4. PICK i \in DOMAIN infos : DisconnectServer(fd, i)
    BY <1>1, <1>3, <2>3 DEF Disconnect, DisconnectClient, DisconnectUnknown, Close
  <2>5. f \in Range(infos[i].client_socket_list) /\ infos[i].server_fd = fd
    BY <1>1, <2>3, <2>4 DEF DisconnectServer, Close
  <2>6. Granted(f, "client", infos[i].mountpoint) /\ Granted(fd, "server", infos[i].mountpoint)
    BY <2>5 DEF ConformingInv, ProtocolInv, TableDenotesPeers
  <2>. QED  BY <1>1, <2>2, <2>5, <2>6 DEF LosesServer, Granted
<1>4. ASSUME NEW fd \in Fds, ServerConnectRequest(fd) \/ ClientConnectRequest(fd)
      PROVE  FALSE
  <2>1. /\ HasChunk(fd) /\ Chunk(fd).kind \in {"post", "get"}
        /\ UNCHANGED sock \/ Close({fd})
    BY <1>4 DEF ServerConnectRequest, ClientConnectRequest
  <2>2. f = fd
    BY <1>1, <2>1 DEF Close
  <2>. QED  BY <1>1, <2>1, <2>2, RequestUngranted
<1>5. ASSUME UNCHANGED sock PROVE FALSE
  BY <1>1, <1>5
<1>6. ASSUME NEW fd \in Fds, NotAServer(fd) \/ Forward(fd) \/ KilledBySigPipe(fd) PROVE FALSE
  BY <1>5, <1>6, NoStrayData DEF Forward, TryToForwardServerData, KilledBySigPipe
<1>7. CASE AcceptNewConnect
  BY <1>1, <1>2, <1>7 DEF AcceptNewConnect, LowestFree, TypeOK
<1>8. CASE EpollWait \/ EpollError \/ UNCHANGED vars
  BY <1>5, <1>8 DEF EpollWait, EpollError, vars
<1>9. ASSUME NEW d \in Conns, PeerStep(d) \/ \E m \in Sayable(d) : PeerSend(d, m) PROVE FALSE
  BY <1>5, <1>9 DEF PeerStep, PeerConnect, PeerClose, PeerReset, PeerSend
<1>. QED  BY <1>3, <1>4, <1>6, <1>7, <1>8, <1>9 DEF ConformingNext, Loop, HandleEvent

(* While the peers follow the protocol, no stale event and no other mount  *)
(* point's end ever closes a server or client in service whose peer is     *)
(* still there.                                                            *)
THEOREM MembersAreDroppedForCause == ConformingSpec => MembersDroppedOnlyForCause
<1>. DEFINE Drops ==
       \A c \in Conns : Held(c) /\ grants[c] # {} /\ conn[c] = "open" /\ ~Held(c)' => LosesServer(c)
<1>1. Init => EventsCurrent
  BY DEF Init, EventsCurrent, IsInjective, Range
<1>2. ConformingInv /\ EventsCurrent /\ [ConformingNext]_vars => EventsCurrent' /\ Drops
  BY EventsStep, MembersStep
<1>. QED  BY <1>1, <1>2, ConformingInvariant, PTL DEF ConformingSpec, MembersDroppedOnlyForCause
-----------------------------------------------------------------------------
(* The source table.  It follows the mount point list whatever the peers   *)
(* send, as long as every Ntrip-STR names the mount point of its request.  *)

Named(m) == m.kind = "post" => m.str = m.mount

StringsNamed == \A m \in Requests : Named(m)

(* What waits to be received was sent: its Ntrip-STR names its mount point.*)
InboxNamed == \A c \in Conns : \A k \in DOMAIN inbox[c] : Named(inbox[c][k])

(* Receiving takes a chunk away, sending adds one that a request allows.   *)
LEMMA InboxNamedStep ==
  ASSUME StringsNamed, TypeOK, InboxNamed, [Next]_vars
  PROVE  InboxNamed'
<1>1. CASE UNCHANGED inbox
  BY <1>1 DEF InboxNamed
<1>2. ASSUME NEW fd \in Fds, HasChunk(fd), Receive(fd)
      PROVE  InboxNamed'
  <2>1. sock[fd] \in Conns /\ inbox[sock[fd]] \in Seq(Message) /\ inbox[sock[fd]] # <<>>
    BY <1>2 DEF TypeOK, HasChunk
  <2>2. \A k \in DOMAIN Tail(inbox[sock[fd]]) :
          /\ k + 1 \in DOMAIN inbox[sock[fd]]
          /\ Tail(inbox[sock[fd]])[k] = inbox[sock[fd]][k + 1]
    BY <2>1, HeadTailProperties, LenProperties
  <2>3. inbox' = [inbox EXCEPT ![sock[fd]] = Tail(inbox[sock[fd]])]
    BY <1>2 DEF Receive
  <2>. QED  BY <2>1, <2>2, <2>3 DEF InboxNamed, TypeOK
<1>3. ASSUME NEW c \in Conns, NEW m \in Sayable(c), PeerSend(c, m)
      PROVE  InboxNamed'
  <2>1. Named(m)
    BY DEF StringsNamed, Sayable, Named
  <2>2. inbox[c] \in Seq(Message) /\ Len(inbox[c]) \in Nat
    BY LenProperties DEF TypeOK
  <2>3. inbox' = [inbox EXCEPT ![c] = Append(inbox[c], m)]
    BY <1>3 DEF PeerSend
  <2>4. \A k \in DOMAIN Append(inbox[c], m) :
          Append(inbox[c], m)[k] = m \/ (k \in DOMAIN inbox[c] /\ Append(inbox[c], m)[k] = inbox[c][k])
    <3>1. inbox[c] \in Seq(Message \cup {m})
      BY <2>2
    <3>. QED  BY <3>1, <2>2, AppendProperties, LenProperties
  <2>. QED  BY <2>1, <2>3, <2>4 DEF InboxNamed, TypeOK
<1>4. ASSUME NEW fd \in Fds, HandleEvent(fd) PROVE InboxNamed'
  <2>1. CASE Disconnect(fd) \/ KilledBySigPipe(fd)
    BY <1>1, <2>1 DEF Disconnect, KilledBySigPipe
  <2>2. CASE ServerConnectRequest(fd) \/ ClientConnectRequest(fd) \/ NotAServer(fd) \/ Forward(fd)
    BY <1>2, <2>2 DEF ServerConnectRequest, ClientConnectRequest, NotAServer, Forward,
                      TryToForwardServerData
  <2>. QED  BY <1>4, <2>1, <2>2 DEF HandleEvent
<1>5. CASE EpollWait \/ EpollError \/ AcceptNewConnect
  BY <1>1, <1>5 DEF EpollWait, EpollError, AcceptNewConnect
<1>6. ASSUME NEW c \in Conns, PeerStep(c) PROVE InboxNamed'
  BY <1>1, <1>6 DEF PeerStep, PeerConnect, PeerClose, PeerReset
<1>7. CASE UNCHANGED vars
  BY <1>1, <1>7 DEF vars
<1>. QED  BY <1>3, <1>4, <1>5, <1>6, <1>7 DEF Next, Loop

-----------------------------------------------------------------------------
(* An interval from 1 determines its length.                              *)
LEMMA SameInterval ==
  ASSUME NEW a \in Nat, NEW b \in Nat, 1..a = 1..b
  PROVE  a = b
<1>1. CASE a < b
  <2>1. b \in 1..b /\ b \notin 1..a
    BY <1>1
  <2>. QED  BY <2>1
<1>2. CASE b < a
  <2>1. a \in 1..a /\ a \notin 1..b
    BY <1>2
  <2>. QED  BY <2>1
<1>. QED  BY <1>1, <1>2

(* A server that goes takes the line of its own mount point with it: it is *)
(* the first, and only, line that names it.                                *)
LEMMA DisconnectServerStep ==
  ASSUME TypeOK, MountPointsUnique, SourceTableMatches,
         NEW fd \in Fds, NEW i \in DOMAIN infos, DisconnectServer(fd, i)
  PROVE  SourceTableMatches'
<1>. DEFINE mount == infos[i].mountpoint
<1>1. /\ strs \in Seq(MountPoints \cup {NoMount})
      /\ infos \in Seq(MountPointInformation)
      /\ DOMAIN strs = DOMAIN infos /\ DOMAIN infos = 1..Len(infos)
      /\ Len(strs) = Len(infos) /\ Len(infos) \in Nat
      /\ \A k \in DOMAIN infos : strs[k] = infos[k].mountpoint
  <2>1. strs \in Seq(MountPoints \cup {NoMount}) /\ infos \in Seq(MountPointInformation)
    BY DEF TypeOK
  <2>2. DOMAIN strs = 1..Len(strs) /\ DOMAIN infos = 1..Len(infos)
        /\ Len(strs) \in Nat /\ Len(infos) \in Nat
    BY <2>1, LenProperties
  <2>3. DOMAIN strs = DOMAIN infos /\ \A k \in DOMAIN infos : strs[k] = infos[k].mountpoint
    BY DEF SourceTableMatches
  <2>4. Len(strs) = Len(infos)
    BY <2>2, <2>3, SameInterval
  <2>. QED  BY <2>1, <2>2, <2>3, <2>4
<1>2. \A k \in DOMAIN strs : IsFirst(k, strs, mount) => k = i
  BY <1>1 DEF IsFirst, MountPointsUnique
<1>3. mount \in Range(strs)
  BY <1>1 DEF Range
<1>4. strs' = RemoveAt(strs, i)
  BY <1>2, <1>3 DEF DisconnectServer, EraseSourceTableLine, IsFirst
<1>5. infos' = RemoveAt(infos, i)
  BY DEF DisconnectServer
<1>6. /\ RemoveAt(strs, i) \in Seq(MountPoints \cup {NoMount})
      /\ DOMAIN RemoveAt(strs, i) = 1..(Len(infos) - 1)
      /\ \A k \in 1..(Len(infos) - 1) :
           RemoveAt(strs, i)[k] = IF k < i THEN strs[k] ELSE strs[k + 1]
  BY <1>1, RemoveAtProperties, SMTT(30)
<1>7. /\ DOMAIN RemoveAt(infos, i) = 1..(Len(infos) - 1)
      /\ \A k \in 1..(Len(infos) - 1) :
           RemoveAt(infos, i)[k] = IF k < i THEN infos[k] ELSE infos[k + 1]
  BY <1>1, RemoveAtProperties
<1>8. \A k \in 1..(Len(infos) - 1) :
        RemoveAt(strs, i)[k] = RemoveAt(infos, i)[k].mountpoint
  BY <1>1, <1>6, <1>7
<1>9. RemoveAt(strs, i) = [k \in 1..(Len(infos) - 1) |-> RemoveAt(strs, i)[k]]
  BY <1>6
<1>. QED  BY <1>4, <1>5, <1>7, <1>8, <1>9 DEF SourceTableMatches

(* A server that registers adds its record and its line, both at the end.  *)
LEMMA RegisterStep ==
  ASSUME StringsNamed, TypeOK, InboxNamed, SourceTableMatches,
         NEW fd \in Fds, ServerConnectRequest(fd)
  PROVE  SourceTableMatches'
<1>. DEFINE m == Chunk(fd)
            info == [server_fd |-> fd, mountpoint |-> m.mount, cred |-> m.cred,
                     client_socket_list |-> <<>>]
<1>1. CASE UNCHANGED table
  BY <1>1 DEF SourceTableMatches, table
<1>2. CASE Registrable(m) /\ infos' = Append(infos, info) /\ strs' = Append(strs, m.str)
  <2>1. m \in PostRequest /\ m.str = m.mount
    BY ReceiveType, KindOf, SMTT(30) DEF ServerConnectRequest, InboxNamed, Named, TypeOK
  <2>2. m.str \in MountPoints \cup {NoMount} /\ info \in MountPointInformation
    BY <1>2, <2>1, EmptySeq DEF PostRequest, MountPointInformation, Registrable
  <2>3. info.mountpoint = m.str
    BY <2>1
  <2>. HIDE DEF info, m
  <2>4. /\ DOMAIN infos' = 1..(Len(infos) + 1) /\ Len(infos) \in Nat
        /\ \A k \in 1..Len(infos) : infos'[k] = infos[k]
        /\ infos'[Len(infos) + 1] = info
    BY <1>2, <2>2, AppendProperties, LenProperties DEF TypeOK
  <2>5. /\ strs' \in Seq(MountPoints \cup {NoMount})
        /\ DOMAIN strs' = 1..(Len(strs) + 1) /\ Len(strs) \in Nat
        /\ \A k \in 1..Len(strs) : strs'[k] = strs[k]
        /\ strs'[Len(strs) + 1] = m.str
    BY <1>2, <2>2, AppendProperties, LenProperties DEF TypeOK
  <2>6. Len(strs) = Len(infos) /\ \A k \in 1..Len(infos) : strs[k] = infos[k].mountpoint
    <3>1. strs \in Seq(MountPoints \cup {NoMount}) /\ infos \in Seq(MountPointInformation)
      BY DEF TypeOK
    <3>2. DOMAIN strs = 1..Len(strs) /\ DOMAIN infos = 1..Len(infos)
      BY <3>1, LenProperties
    <3>3. DOMAIN strs = DOMAIN infos /\ \A k \in DOMAIN infos : strs[k] = infos[k].mountpoint
      BY DEF SourceTableMatches
    <3>4. Len(strs) = Len(infos)
      BY <2>4, <2>5, <3>2, <3>3, SameInterval
    <3>. QED  BY <3>2, <3>3, <3>4
  <2>7. \A k \in DOMAIN infos' : strs'[k] = infos'[k].mountpoint
    BY <2>3, <2>4, <2>5, <2>6
  <2>8. DOMAIN strs' = DOMAIN infos' /\ strs' = [k \in DOMAIN strs' |-> strs'[k]]
    BY <2>4, <2>5, <2>6
  <2>. QED  BY <2>7, <2>8 DEF SourceTableMatches
<1>. QED  BY <1>1, <1>2 DEF ServerConnectRequest

(* A step that leaves the lines alone and changes client lists at most.    *)
LEMMA SameMountsStep ==
  ASSUME TypeOK, SourceTableMatches, UNCHANGED strs,
         \/ UNCHANGED infos
         \/ \E i \in DOMAIN infos, l \in Seq(Fds) :
              infos' = [infos EXCEPT ![i].client_socket_list = l]
  PROVE  SourceTableMatches'
<1>1. CASE UNCHANGED infos
  BY <1>1 DEF SourceTableMatches
<1>2. ASSUME NEW i \in DOMAIN infos, NEW l \in Seq(Fds),
             infos' = [infos EXCEPT ![i].client_socket_list = l]
      PROVE  SourceTableMatches'
  <2>1. /\ DOMAIN infos' = DOMAIN infos
        /\ \A k \in DOMAIN infos : infos'[k].mountpoint = infos[k].mountpoint
    BY <1>2, InfoType DEF MountPointInformation
  <2>. QED  BY <2>1 DEF SourceTableMatches
<1>. QED  BY <1>1, <1>2

(* No other step touches the lines.                                        *)
LEMMA SourceTableStep ==
  ASSUME StringsNamed, TypeOK, MountPointsUnique, InboxNamed, SourceTableMatches,
         [Next]_vars
  PROVE  SourceTableMatches'
<1>1. ASSUME NEW fd \in Fds, Disconnect(fd) PROVE SourceTableMatches'
  <2>1. ASSUME NEW i \in DOMAIN infos, DisconnectClient(fd, i)
        PROVE  SourceTableMatches'
    <3>1. PICK k \in DOMAIN infos[i].client_socket_list :
            infos' = [infos EXCEPT ![i].client_socket_list =
                        RemoveAt(infos[i].client_socket_list, k)]
      BY <2>1 DEF DisconnectClient
    <3>2. RemoveAt(infos[i].client_socket_list, k) \in Seq(Fds)
      BY InfoType, RemoveAtProperties
    <3>. QED  BY <2>1, <3>1, <3>2, SameMountsStep DEF DisconnectClient
  <2>2. ASSUME NEW i \in DOMAIN infos, DisconnectServer(fd, i)
        PROVE  SourceTableMatches'
    BY <2>2, DisconnectServerStep
  <2>3. CASE DisconnectUnknown(fd)
    BY <2>3, SameMountsStep DEF DisconnectUnknown, table
  <2>. QED  BY <1>1, <2>1, <2>2, <2>3 DEF Disconnect
<1>2. ASSUME NEW fd \in Fds, ClientConnectRequest(fd) PROVE SourceTableMatches'
  <2>1. ASSUME NEW i \in DOMAIN infos, UNCHANGED strs,
               infos' = [infos EXCEPT ![i].client_socket_list = Append(@, fd)]
        PROVE  SourceTableMatches'
    <3>1. Append(infos[i].client_socket_list, fd) \in Seq(Fds)
      BY InfoType, AppendProperties
    <3>. QED  BY <2>1, <3>1, SameMountsStep
  <2>. QED  BY <1>2, <2>1, SameMountsStep DEF ClientConnectRequest
<1>3. ASSUME UNCHANGED table PROVE SourceTableMatches'
  BY <1>3, SameMountsStep DEF table
<1>4. ASSUME NEW fd \in Fds, Forward(fd) \/ NotAServer(fd) \/ KilledBySigPipe(fd)
      PROVE  UNCHANGED table
  BY <1>4 DEF Forward, TryToForwardServerData, NotAServer, KilledBySigPipe
<1>5. ASSUME NEW fd \in Fds, HandleEvent(fd) PROVE SourceTableMatches'
  BY <1>1, <1>2, <1>3, <1>4, <1>5, RegisterStep DEF HandleEvent
<1>6. CASE EpollWait \/ EpollError \/ AcceptNewConnect
  BY <1>3, <1>6 DEF EpollWait, EpollError, AcceptNewConnect
<1>7. ASSUME NEW c \in Conns, PeerStep(c) \/ \E m \in Sayable(c) : PeerSend(c, m)
      PROVE  UNCHANGED table
  BY <1>7 DEF PeerStep, PeerConnect, PeerClose, PeerReset, PeerSend
<1>8. CASE UNCHANGED vars
  BY <1>3, <1>8 DEF vars, table
<1>. QED  BY <1>3, <1>5, <1>6, <1>7, <1>8 DEF Next, Loop

(* While every Ntrip-STR names its mount point, the source table lists     *)
(* exactly the mount points in service, in order, whatever else peers send *)
(* and however servers come, go and come back under one name.              *)
THEOREM SourceTableFollows ==
  ASSUME StringsNamed PROVE Spec => []SourceTableMatches
<1>1. Init => InboxNamed /\ SourceTableMatches
  BY DEF Init, InboxNamed, SourceTableMatches
<1>2. /\ TypeOK /\ MountPointsUnique /\ InboxNamed /\ SourceTableMatches
      /\ [Next]_vars
      => InboxNamed' /\ SourceTableMatches'
  BY InboxNamedStep, SourceTableStep
<1>. QED  BY <1>1, <1>2, TypeCorrect, MountPointsAreUnique, PTL DEF Spec
=============================================================================
