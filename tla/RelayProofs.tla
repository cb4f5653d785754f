----------------------------- MODULE RelayProofs -----------------------------
(***************************************************************************)
(* A client and a server in one process: what SessionProofs proves of the  *)
(* objects of a process, with SessionInv until a Stop is called on an      *)
(* object whose socket_fd_ is outdated.  A Run cannot meet that: the main  *)
(* loop Runs an object only when its service_is_running() is false, which  *)
(* it is not while a thread is about to reset its socket_fd_.  SturdyInv   *)
(* holds after such a Stop, too.                                           *)
(***************************************************************************)
EXTENDS Relay, SessionProofs

RelayInv == SturdyInv /\ SendingTypeOK /\ crossed \in BOOLEAN /\ (crossed \/ SessionInv)

(* A Run of an object that is not running meets no stale number.           *)
LEMMA NotRunningNotStale ==
  ASSUME SessionInv, NEW o \in Objects, ~running[o], app.at = "idle"
  PROVE  ~Stale(o)
  BY DEF SessionInv, FlagTold, Stale, Idle, InStop

(* Neither does a Stop, unless the number is outdated.                     *)
LEMMA OutdatedOrNotStale ==
  ASSUME NEW o \in Objects, ~Outdated(o), socket_fd[o] # NoFd
  PROVE  ~Stale(o)
  BY DEF Outdated, Open, Stale

(* The calls of the main loop.                                             *)
LEMMA MainStep ==
  ASSUME RelayInv, NEW o \in Objects, MainLoop(o) \/ MainStop(o)
  PROVE  RelayInv'
<1>. USE DEF RelayInv
<1>1. SturdyInv'
  BY SturdyKeeps DEF MainLoop, MainStop
<1>2. SendingTypeOK' /\ crossed' \in BOOLEAN /\ (crossed => crossed')
  BY DEF MainLoop, MainStop, sending, SendingTypeOK
<1>3. CASE ~crossed' /\ MainLoop(o)
  BY <1>1, <1>2, <1>3, NotRunningNotStale, CallKeeps DEF MainLoop, CallRun
<1>4. CASE ~crossed' /\ MainStop(o)
  BY <1>1, <1>2, <1>4, OutdatedOrNotStale, CallKeeps DEF MainStop
<1>. QED  BY <1>1, <1>2, <1>3, <1>4

(* Every other step is one of a session, and leaves crossed alone.           *)
LEMMA OtherStep ==
  ASSUME \/ (Caster \/ ServerThread(Server)) /\ UNCHANGED <<sending, crossed>>
         \/ InCall \/ ClientThread \/ UNCHANGED vars
  PROVE  /\ UNCHANGED crossed
         /\ \/ Caster \/ AppSteps \/ UNCHANGED sessionVars
            \/ \E o \in Objects : ThreadSteps(o)
<1>. USE RelayAssumption
<1>1. CASE ServerThread(Server) /\ UNCHANGED <<sending, crossed>>
  BY <1>1 DEF ServerThread, ThreadSteps, Moves, Leave, Onward
<1>2. CASE InCall
  BY <1>2 DEF InCall, ServerStop, ServerRun, Greeted, AppSteps
<1>3. CASE ClientThread
  <2>1. CASE Callback \/ NoCallback
    BY <2>1 DEF Callback, NoCallback, ThreadSteps, Moves, Onward
  <2>2. CASE InSendData
    BY <2>2 DEF InSendData, ThreadSteps, Moves, Onward
  <2>3. CASE /\ \/ Begin(Client) \/ Loop(Client) \/ Leave(Client)
                \/ RecvChunk(Client, "work") \/ RecvEnd(Client)
                \/ RecvNothing(Client, "loop") \/ RecvNothing(Client, "check")
             /\ UNCHANGED <<sending, crossed>>
    BY <2>3 DEF ThreadSteps, Moves, Leave, Onward
  <2>. QED  BY <1>3, <2>1, <2>2, <2>3 DEF ClientThread
<1>4. CASE UNCHANGED vars
  BY <1>4 DEF vars
<1>. QED  BY <1>1, <1>2, <1>3, <1>4

(* SendData keeps its own types.                                           *)
LEMMA SendingStep ==
  ASSUME BaseInv, SendingTypeOK,
         \/ (Caster \/ ServerThread(Server)) /\ UNCHANGED <<sending, crossed>>
         \/ InCall \/ ClientThread \/ UNCHANGED vars
  PROVE  SendingTypeOK'
<1>1. CASE UNCHANGED sending
  BY <1>1 DEF sending, SendingTypeOK
<1>2. CASE Callback
  BY <1>2 DEF Callback, CallSendData, SendingTypeOK
<1>3. CASE ReadSocket(Server)
  <2>1. socket_fd[Server] \in Fds \cup {NoFd}
    BY RelayAssumption, SocketFacts
  <2>. QED  BY <1>3, <2>1 DEF ReadSocket, SendingTypeOK
<1>4. CASE Send
  <2>1. target \in Fds \cup {NoFd} /\ (Open(target) => desc[target] \in Runs)
    BY DEF SendingTypeOK, Open, BaseInv, Typed
  <2>. QED  BY <1>4, <2>1 DEF Send, SendingTypeOK
<1>. QED
  BY <1>1, <1>2, <1>3, <1>4 DEF InCall, ClientThread, InSendData, NoCallback, vars, sending

(* The invariant of the composition.                                       *)
LEMMA RelayStep == RelayInv /\ [Next]_vars => RelayInv'
<1>. SUFFICES ASSUME RelayInv, [Next]_vars PROVE RelayInv'
  OBVIOUS
<1>. USE RelayAssumption
<1>1. CASE MainLoop(Client) \/ MainLoop(Server) \/ MainStop(Client) \/ MainStop(Server)
  BY <1>1, MainStep
<1>2. CASE \/ (Caster \/ ServerThread(Server)) /\ UNCHANGED <<sending, crossed>>
           \/ InCall \/ ClientThread \/ UNCHANGED vars
  BY <1>2, OtherStep, SendingStep, SessionKeeps, SturdyKeeps DEF RelayInv, SturdyInv
<1>. QED  BY <1>1, <1>2 DEF Next

LEMMA RelayInvariant == Spec => []RelayInv
<1>1. RelayInit => RelayInv
  BY SessionInit, SessionIsSturdy DEF RelayInit, RelayInv, SendingInit, SendingTypeOK
<1>. QED  BY <1>1, RelayStep, PTL DEF Spec

-----------------------------------------------------------------------------
(* Every field keeps its type, through every interleaving and any number   *)
(* of connections, also when a Stop closes a number of the other object.   *)
THEOREM RelayTypeCorrect == Spec => []RelayTypeOK
<1>1. RelayInv => RelayTypeOK
  BY SturdyMeans DEF RelayInv, RelayTypeOK
<1>. QED  BY <1>1, RelayInvariant, PTL

(* Whatever is closed by whom, every connection that is open has an object *)
(* that will close it: also when a Stop has closed a number that was the   *)
(* other object's.                                                         *)
THEOREM RelayNeverLeaks == Spec => []NoLeak
<1>1. RelayInv => NoLeak
  BY SturdyMeans DEF RelayInv
<1>. QED  BY <1>1, RelayInvariant, PTL

(* A Stop that returns is final, whatever number it met: nothing of the    *)
(* object is left, whatever it and the other have closed of each other's.  *)
THEOREM RelayStopIsFinal == Spec => []StopIsFinal
<1>1. RelayInv => StopIsFinal
  BY SturdyMeans DEF RelayInv
<1>. QED  BY <1>1, RelayInvariant, PTL

(* However descriptor numbers pass between the two objects, each service   *)
(* thread works on the connection its Run has made, unless a Stop has met  *)
(* a number that was the other's by then.                                  *)
THEOREM RelayThreadsKeepApart == Spec => []ThreadsKeepApart
<1>1. RelayInv => ThreadsKeepApart
  BY SessionMeans DEF RelayInv, ThreadsKeepApart
<1>. QED  BY <1>1, RelayInvariant, PTL

(* Until then a step closes the descriptors of the object that takes it,   *)
(* and no others.                                                          *)
LEMMA ClosesOwn ==
  ASSUME SessionInv, [Next]_vars, NEW f \in Fds, desc[f] # Free, desc'[f] = Free
  PROVE  \/ app' # app /\ made[desc[f]] = app.obj
         \/ \E o \in Objects : thread'[o] # thread[o] /\ made[desc[f]] = o
<1>. USE DEF SessionInv
<1>1. f # NoFd
  BY TypeFacts
<1>2. CASE UNCHANGED desc
  BY <1>2
<1>3. CASE StopClose
  <2>1. app.obj \in Objects /\ app' # app /\ socket_fd[app.obj] = f
    BY <1>3, StopCloseDoes, TypeFacts DEF Close, Stay, BaseInv, Typed
  <2>. QED  BY <1>1, <1>3, <2>1 DEF StopClose, Sockets, Closed, Own, LastRun, Stale, InStop
<1>4. CASE DecideFailed \/ \E n \in Runs : HungUp(n) \/ GreetFails(n)
  <2>1. app.at \in {"poll", "decide"} /\ app'.at = "idle" /\ app.fd = f
    BY <1>4, FailDoes DEF Close, BaseInv, Typed
  <2>. QED  BY <2>1 DEF Setup
<1>5. CASE Connect
  BY <1>5, ConnectDoes DEF BaseInv, Typed, Free
<1>6. ASSUME NEW o \in Objects, LeaveClose(o)
      PROVE  thread'[o] # thread[o] /\ made[desc[f]] = o
  <2>1. thread[o] = "close" /\ thread'[o] = "forget" /\ socket_fd[o] = f
    BY <1>6, LeaveCloseDoes DEF Close, BaseInv, Typed
  <2>. QED  BY <1>1, <2>1 DEF Sockets, Closed, Own, LastRun, Stale
<1>7. CASE \E o \in Objects : ThreadSteps(o)
  BY <1>2, <1>6, <1>7, BeginDoes, MovesDoes, LeaveForgetDoes, EndDoes DEF ThreadSteps, Moved
<1>8. CASE Caster \/ AppSteps \/ UNCHANGED sessionVars
  BY <1>2, <1>3, <1>4, <1>5, <1>8, CasterTypes, StopFlagDoes, StopCheckDoes, StopForgetDoes,
     JoinDoes, AwaitDoes, AcceptedDoes, StartedDoes
  DEF AppSteps, Stop, Await, Decide, sessionVars
<1>9. CASE MainLoop(Client) \/ MainLoop(Server) \/ MainStop(Client) \/ MainStop(Server)
  BY <1>2, <1>9 DEF MainLoop, MainStop, CallRun, CallStop
<1>. QED  BY <1>7, <1>8, <1>9, OtherStep DEF Next

(* Neither object closes a connection of the other, however Run and Stop   *)
(* meet the threads, unless Stop is called between a thread's close() and  *)
(* its reset when the other object has been given the number.              *)
THEOREM RelayClosesItsOwn == Spec => ClosesItsOwn
<1>1. RelayInv /\ [Next]_vars
      => [\A f \in Fds : desc[f] # Free /\ desc'[f] = Free /\ ~crossed =>
            \/ app' # app /\ made[desc[f]] = app.obj
            \/ \E o \in Objects : thread'[o] # thread[o] /\ made[desc[f]] = o]_vars
  BY ClosesOwn DEF RelayInv
<1>. QED  BY <1>1, RelayInvariant, PTL DEF Spec, ClosesItsOwn

-----------------------------------------------------------------------------
(* A step of the session that is a step of a link is one of the promise.   *)
LEMMA ClientPromiseStep ==
  ASSUME LinkInv, LinkStep(Client)
  PROVE  [ClientPromise!Next]_(ClientPromise!vars)
<1>. USE DEF LinkStep, SameLink, Served, Allowed, ClientPromise!Next, ClientPromise!vars,
             ClientPromise!Call, ClientPromise!Return, ClientPromise!Dial,
             ClientPromise!Grant, ClientPromise!Start, ClientPromise!Fail,
             ClientPromise!Lose, ClientPromise!Finish
<1>. QED  BY SMTT(60)

LEMMA ServerPromiseStep ==
  ASSUME LinkInv, LinkStep(Server)
  PROVE  [ServerPromise!Next]_(ServerPromise!vars)
<1>. USE DEF LinkStep, SameLink, Served, Allowed, ServerPromise!Next, ServerPromise!vars,
             ServerPromise!Call, ServerPromise!Return, ServerPromise!Dial,
             ServerPromise!Grant, ServerPromise!Start, ServerPromise!Fail,
             ServerPromise!Lose, ServerPromise!Finish
<1>. QED  BY SMTT(60)

(* Every step, any Stop too, keeps what a link needs, and is a step of     *)
(* both promises.                                                          *)
LEMMA RelayLinkStep ==
  LinkInv /\ [Next]_vars
    => /\ LinkInv'
       /\ [ClientPromise!Next]_(ClientPromise!vars)
       /\ [ServerPromise!Next]_(ServerPromise!vars)
<1>. SUFFICES ASSUME LinkInv, [Next]_vars PROVE LinkInv' /\ LinkStep(Client) /\ LinkStep(Server)
  BY ClientPromiseStep, ServerPromiseStep
<1>1. Client \in Objects /\ Server \in Objects
  BY RelayAssumption
<1>2. CASE MainLoop(Client) \/ MainLoop(Server) \/ MainStop(Client) \/ MainStop(Server)
  BY <1>1, <1>2, LinkKeeps DEF MainLoop, MainStop
<1>3. CASE \/ (Caster \/ ServerThread(Server)) /\ UNCHANGED <<sending, crossed>>
           \/ InCall \/ ClientThread \/ UNCHANGED vars
  BY <1>1, <1>3, OtherStep, LinkKeeps
<1>. QED  BY <1>2, <1>3 DEF Next

(* The client and the server of the relay are links, whatever they close   *)
(* of each other's.                                                        *)
THEOREM RelayObjectsAreLinks == Spec => ImplementLinks
<1>1. RelayInit => LinkInv /\ ClientPromise!Init /\ ServerPromise!Init
  <2>. SUFFICES ASSUME RelayInit PROVE LinkInv /\ ClientPromise!Init /\ ServerPromise!Init
    OBVIOUS
  <2>1. LinkInv
    BY LinkInit DEF RelayInit
  <2>2. \A o \in {Client, Server} :
           /\ CallOf(o) = "none" /\ Latest(o) = 0 /\ ~Allowed(o)
           /\ HeldBy(o) = {} /\ ~Served(o)
    BY LinkInit, RelayAssumption DEF RelayInit
  <2>. QED  BY <2>1, <2>2 DEF Allowed, Served, ClientPromise!Init, ServerPromise!Init
<1>. QED
  BY <1>1, RelayLinkStep, PTL
  DEF Spec, ImplementLinks, ClientPromise!Spec, ServerPromise!Spec
=============================================================================
