------------------------------- MODULE Relay -------------------------------
(***************************************************************************)
(* An application with one NtripClient and one NtripServer on one          *)
(* descriptor table, as the relay example builds it                        *)
(* (src/examples/ntrip_client_to_ntrip_server_exam.cc): what the client    *)
(* receives its callback passes to the server's SendData, on the client's  *)
(* service thread, while the main loop Runs either object again whenever   *)
(* its service_is_running() is false.  The application may also Stop       *)
(* either of them at any time.                                             *)
(*                                                                         *)
(* What else the client does between two receptions (NtripClient) touches  *)
(* nothing of the server's, and is one step here.                          *)
(***************************************************************************)
EXTENDS NtripServer

CONSTANTS Client, Server

ASSUME RelayAssumption == Objects = {Client, Server} /\ Client # Server

VARIABLE
  crossed   \* history: Stop was called on an object whose socket_fd_ was outdated

vars == <<sessionVars, sending, crossed>>

RelayTypeOK == TypeOK /\ SendingTypeOK /\ crossed \in BOOLEAN

RelayInit == Init /\ SendingInit /\ crossed = FALSE

-----------------------------------------------------------------------------
(* The application's thread.                                               *)

MainLoop(o) == ~running[o] /\ CallRun(o) /\ UNCHANGED <<sending, crossed>>

(* The service thread of o has closed the number in socket_fd_, has not    *)
(* reset it yet, and the other object has been given the number.           *)
Outdated(o) == thread[o] = "forget" /\ Open(socket_fd[o])

MainStop(o) ==
  /\ CallStop(o)
  /\ crossed' = (crossed \/ Outdated(o))
  /\ UNCHANGED sending

Greeted == \E n \in Runs : app.obj = Client /\ GreetFails(n)

InCall == (ServerStop \/ ServerRun \/ Greeted) /\ UNCHANGED <<sending, crossed>>

-----------------------------------------------------------------------------
(* The client's service thread, and in it the callback.                    *)

Callback ==
  /\ thread[Client] = "work" /\ CallSendData(Server)
  /\ UNCHANGED <<sessionVars, crossed>>

InSendData ==
  /\ \/ ReadSocket(Server) /\ UNCHANGED sessionVars
     \/ Send /\ Work(Client, "loop")
  /\ UNCHANGED crossed

(* The server is not running.                                              *)
NoCallback ==
  /\ sender = "idle" /\ ~running[Server] /\ Work(Client, "loop")
  /\ UNCHANGED <<sending, crossed>>

(* Without data the client reports, and gives the caster up some time.     *)
ClientThread ==
  \/ Callback \/ InSendData \/ NoCallback
  \/ /\ \/ Begin(Client) \/ Loop(Client) \/ Leave(Client)
        \/ RecvChunk(Client, "work") \/ RecvEnd(Client)
        \/ RecvNothing(Client, "loop") \/ RecvNothing(Client, "check")
     /\ UNCHANGED <<sending, crossed>>

-----------------------------------------------------------------------------

Next ==
  \/ (Caster \/ ServerThread(Server)) /\ UNCHANGED <<sending, crossed>>
  \/ MainLoop(Client) \/ MainLoop(Server) \/ MainStop(Client) \/ MainStop(Server)
  \/ InCall \/ ClientThread

Spec == RelayInit /\ [][Next]_vars

(* The three threads are scheduled.                                        *)
FairSpec ==
  /\ Spec /\ WF_vars(InCall) /\ WF_vars(ClientThread)
  /\ WF_vars(ServerThread(Server) /\ UNCHANGED <<sending, crossed>>)
-----------------------------------------------------------------------------
(* Properties.                                                             *)

(* A descriptor is closed by the object whose connection it denotes, in    *)
(* Run, in Stop or by its service thread, although a number passes from    *)
(* one object to the other as soon as it is closed.  The one thing that    *)
(* can break this is a Stop called between the thread's close() and its    *)
(* reset of socket_fd_, when a Run of the other object has been given the  *)
(* number meanwhile: it closes the other's connection, whose thread may    *)
(* then close what is the first one's again.  A Stop that meets the thread *)
(* anywhere else, also within its close() and reset, does no harm.         *)
ClosesItsOwn ==
  [][\A f \in Fds : desc[f] # Free /\ desc'[f] = Free /\ ~crossed =>
       \/ app' # app /\ made[desc[f]] = app.obj
       \/ \E o \in Objects : thread'[o] # thread[o] /\ made[desc[f]] = o]_vars

ClientPromise == INSTANCE Link WITH
  Connections <- Runs,
  call <- CallOf(Client), latest <- Latest(Client), granted <- Latest(Client) \in granted,
  held <- HeldBy(Client), worker <- thread[Client] \in Live

ServerPromise == INSTANCE Link WITH
  Connections <- Runs,
  call <- CallOf(Server), latest <- Latest(Server), granted <- Latest(Server) \in granted,
  held <- HeldBy(Server), worker <- thread[Server] \in Live

(* Each of the two objects is a link, whatever the other does, and also    *)
(* after a Stop that closed a number of the other's: the worst that the    *)
(* other can do to a link is to lose it.                                   *)
ImplementLinks == ClientPromise!Spec /\ ServerPromise!Spec

(* With the same exception, every thread works on the connection it was    *)
(* started for, and that one was accepted.                                 *)
ThreadsKeepApart == crossed \/ (ThreadServesItsRun /\ ServesOnlyGranted)

(* With the same exception, either thread notices that its caster has      *)
(* closed or reset the connection, and the main loop sees that the object  *)
(* has stopped.  (Where Stop has closed the other's number and Run has got *)
(* it again, the other's thread receives from it for as long as it lasts.) *)
EitherHangupNoticed ==
  \A o \in Objects : PeerGone(o) ~> crossed \/ (thread[o] \in {"none", "done"} /\ ~running[o])

(* What the source says, and the code does not do.                         *)

(* When SendData returns 0 the data went to the caster that had accepted   *)
(* the server's POST: never to a connection that is still to see the       *)
(* request, nor to the one the client receives from.                       *)
SentToService == \A n \in reported : made[n] = Server /\ n \in granted
=============================================================================
