------------------------------ MODULE Session ------------------------------
(***************************************************************************)
(* What NtripClient and NtripServer have in common (src/src/ntrip_client.cc*)
(* and src/src/ntrip_server.cc): an object with a flag                     *)
(* service_is_running_, a descriptor socket_fd_ and a service thread.  The *)
(* application calls Run, which stops what runs, connects, waits for the   *)
(* caster to accept and starts the thread; the thread receives until the   *)
(* connection ends; Stop tells it to leave and joins it.                   *)
(*                                                                         *)
(* The two threads share the fields without a lock, so every access to one *)
(* of them is a step of its own.  All objects of the process live on one   *)
(* descriptor table, whose numbers are handed out again as soon as they    *)
(* are closed.  The caster at the other end answers, sends, falls silent,  *)
(* closes or resets at any time.                                           *)
(*                                                                         *)
(* Run and Stop are called from one thread, never from a service thread,   *)
(* and nothing else in the process opens descriptors.                      *)
(***************************************************************************)
EXTENDS Integers, Sequences

CONSTANTS
  Objects,    \* the NtripClient and NtripServer objects of the process
  Fds,        \* the descriptors socket() can return
  Polls,      \* the initial value of timeout in Run: 30
  MaxRuns,    \* bound: connections made
  MaxInbox    \* bound: chunks waiting in a connection

ASSUME SessionAssumption ==
  /\ Fds \subseteq Nat \ {0} /\ Polls \in Nat \ {0}
  /\ MaxRuns \in Nat /\ MaxInbox \in Nat

Runs == 1..MaxRuns
NoFd == -1
Free == 0

VARIABLES
  running,    \* service_is_running_ of each object
  socket_fd,  \* socket_fd_
  thread,     \* where the service thread is; none once joined
  app,        \* where the application's thread is: in which call, of which
              \* object, and the locals socket_fd and timeout of Run
  desc,       \* the descriptor table: the connection a descriptor denotes
  made,       \* the connections made so far: which object made each
  inbox,      \* chunks of each connection not received yet
  peer,       \* the caster's end: new, ok or no (answered), fin or rst
  granted     \* history: the connections on which Run received a 200 OK

object == <<running, socket_fd, thread>>
wire == <<inbox, peer>>
sessionVars == <<running, socket_fd, thread, app, desc, made, inbox, peer, granted>>

Live == {"begin", "loop", "recv", "work", "check", "close", "forget", "end"}
InStop == {"stop", "check", "close", "forget", "join"}
InRun == {"connect", "poll", "decide"}

TypeOK ==
  /\ running \in [Objects -> BOOLEAN]
  /\ socket_fd \in [Objects -> Fds \cup {NoFd}]
  /\ thread \in [Objects -> {"none", "done"} \cup Live]
  /\ app \in [at : {"idle"} \cup InStop \cup InRun, obj : Objects,
              call : {"run", "stop"}, fd : Fds \cup {NoFd}, timeout : -1..Polls]
  /\ desc \in [Fds -> Runs \cup {Free}]
  /\ made \in Seq(Objects) /\ Len(made) <= MaxRuns
  /\ inbox \in [Runs -> Seq({"ok", "no", "data"})]
  /\ peer \in [Runs -> {"new", "ok", "no", "fin", "rst"}]
  /\ granted \subseteq Runs

Init ==
  /\ running = [o \in Objects |-> FALSE]
  /\ socket_fd = [o \in Objects |-> NoFd]
  /\ thread = [o \in Objects |-> "none"]
  /\ \E o \in Objects :
       app = [at |-> "idle", obj |-> o, call |-> "stop", fd |-> NoFd, timeout |-> 0]
  /\ desc = [f \in Fds |-> Free] /\ made = <<>>
  /\ inbox = [n \in Runs |-> <<>>] /\ peer = [n \in Runs |-> "new"]
  /\ granted = {}

-----------------------------------------------------------------------------
(* Descriptors.  close(), recv() and send() of one that is not open fail.  *)

Open(f) == f # NoFd /\ desc[f] # Free

Held(n) == \E f \in Fds : desc[f] = n

Close(f) == desc' = [g \in Fds |-> IF g = f THEN Free ELSE desc[g]]

LowestFree(f) == desc[f] = Free /\ \A g \in Fds : desc[g] = Free => f <= g

(* What recv() on a connection finds.                                      *)
Ready(n) == inbox[n] # <<>>
Ended(n) == inbox[n] = <<>> /\ peer[n] = "fin"
Failed(n) == inbox[n] = <<>> /\ peer[n] = "rst"
Nothing(n) == inbox[n] = <<>> /\ peer[n] \notin {"fin", "rst"}

Receive(n) == inbox' = [inbox EXCEPT ![n] = Tail(@)]

-----------------------------------------------------------------------------
(* The caster.                                                             *)

Answer(n) ==
  /\ peer[n] = "new" /\ Held(n)
  /\ \E reply \in {"ok", "no"} :
       /\ peer' = [peer EXCEPT ![n] = reply]
       /\ inbox' = [inbox EXCEPT ![n] = Append(@, reply)]
  /\ UNCHANGED <<object, app, desc, made, granted>>

SendsData(n) ==
  /\ peer[n] = "ok" /\ Held(n) /\ Len(inbox[n]) < MaxInbox
  /\ inbox' = [inbox EXCEPT ![n] = Append(@, "data")]
  /\ UNCHANGED <<object, app, desc, made, peer, granted>>

Ends(n) ==
  /\ peer[n] \in {"new", "ok", "no"} /\ Held(n)
  /\ \E how \in {"fin", "rst"} : peer' = [peer EXCEPT ![n] = how]
  /\ UNCHANGED <<object, app, desc, made, inbox, granted>>

Caster == \E n \in Runs : Answer(n) \/ SendsData(n) \/ Ends(n)

-----------------------------------------------------------------------------
(* Run and Stop, which Run calls too.                                      *)

At(at) == app' = [app EXCEPT !.at = at]

CallStop(o) ==
  /\ app.at = "idle"
  /\ app' = [app EXCEPT !.at = "stop", !.obj = o, !.call = "stop"]
  /\ UNCHANGED <<object, desc, made, wire, granted>>

CallRun(o) ==
  /\ app.at = "idle" /\ Len(made) < MaxRuns
  /\ app' = [app EXCEPT !.at = IF running[o] THEN "idle" ELSE "stop",
                        !.obj = o, !.call = "run"]
  /\ UNCHANGED <<object, desc, made, wire, granted>>

StopFlag ==
  /\ app.at = "stop" /\ At("check")
  /\ running' = [running EXCEPT ![app.obj] = FALSE]
  /\ UNCHANGED <<socket_fd, thread, desc, made, wire, granted>>

(* Mutant: Stop relies on the flag alone.                                  *)
StopByFlag ==
  /\ app.at = "check" /\ At("join")
  /\ UNCHANGED <<object, desc, made, wire, granted>>

StopCheck ==
  /\ app.at = "check"
  /\ At(IF socket_fd[app.obj] > 0 THEN "close" ELSE "join")
  /\ UNCHANGED <<object, desc, made, wire, granted>>

StopClose ==
  /\ app.at = "close" /\ At("forget")
  /\ Close(socket_fd[app.obj])
  /\ UNCHANGED <<object, made, wire, granted>>

StopForget ==
  /\ app.at = "forget" /\ At("join")
  /\ socket_fd' = [socket_fd EXCEPT ![app.obj] = NoFd]
  /\ UNCHANGED <<running, thread, desc, made, wire, granted>>

(* Mutant: detach() instead of join().                                     *)
Detach ==
  /\ app.at = "join" /\ At(IF app.call = "run" THEN "connect" ELSE "idle")
  /\ UNCHANGED <<object, desc, made, wire, granted>>

(* join() returns at once when there is no thread to join.                 *)
Join ==
  /\ app.at = "join" /\ At(IF app.call = "run" THEN "connect" ELSE "idle")
  /\ thread[app.obj] \in {"none", "done"}
  /\ thread' = [thread EXCEPT ![app.obj] = "none"]
  /\ UNCHANGED <<running, socket_fd, desc, made, wire, granted>>

Stop == StopFlag \/ StopCheck \/ StopClose \/ StopForget \/ Join

(* socket(), connect() and send(): the request is on its way, or one of    *)
(* them has failed and nothing is left open.                               *)
Connect ==
  /\ app.at = "connect"
  /\ \/ \E f \in Fds :
          /\ LowestFree(f)
          /\ desc' = [desc EXCEPT ![f] = Len(made) + 1]
          /\ made' = Append(made, app.obj)
          /\ app' = [app EXCEPT !.at = "poll", !.fd = f, !.timeout = Polls]
     \/ At("idle") /\ UNCHANGED <<desc, made>>
  /\ UNCHANGED <<object, wire, granted>>

Return == app' = [app EXCEPT !.at = "idle", !.fd = NoFd, !.timeout = 0]

(* Mutant: the socket is not closed on the way out.                        *)
FailOpen == Return /\ UNCHANGED desc

Fail == Return /\ Close(app.fd)

(* Mutant: one poll too many.                                              *)
ExhaustedLate == app.timeout < 0

Exhausted == app.timeout = 0

(* while (timeout--) ... with what recv() finds.                           *)
Polled(at) == app' = [app EXCEPT !.at = at, !.timeout = @ - 1]

GiveUp ==
  /\ app.at = "poll" /\ Exhausted
  /\ Polled("decide")
  /\ UNCHANGED <<object, desc, made, wire, granted>>

Polling(n) == app.at = "poll" /\ ~Exhausted /\ n = desc[app.fd]

Accepted(n) ==
  /\ Polling(n) /\ Ready(n) /\ Head(inbox[n]) = "ok"
  /\ Receive(n) /\ granted' = granted \cup {n}
  /\ Polled("decide")
  /\ UNCHANGED <<object, desc, made, peer>>

Refused(n) ==
  /\ Polling(n) /\ Ready(n) /\ Head(inbox[n]) # "ok"
  /\ Receive(n)
  /\ Polled("poll")
  /\ UNCHANGED <<object, desc, made, peer, granted>>

HungUp(n) ==
  /\ Polling(n) /\ Ended(n)
  /\ Fail
  /\ UNCHANGED <<object, made, wire, granted>>

(* The client's GGA sentence cannot be sent: Run fails.                    *)
GreetFails(n) ==
  /\ Polling(n) /\ Ready(n) /\ Head(inbox[n]) = "ok" /\ peer[n] = "rst"
  /\ Receive(n) /\ granted' = granted \cup {n}
  /\ Fail
  /\ UNCHANGED <<object, made, peer>>

(* recv() reports an error, which is polled past: a reset once, end of file *)
(* next; that another object has closed the descriptor every time.         *)
Unanswered ==
  /\ app.at = "poll" /\ ~Exhausted
  /\ LET n == desc[app.fd] IN
       /\ Open(app.fd) => Failed(n) \/ Nothing(n)
       /\ peer' = [m \in Runs |-> IF m = n /\ peer[m] = "rst" THEN "fin" ELSE peer[m]]
  /\ Polled("poll")
  /\ UNCHANGED <<object, desc, made, inbox, granted>>

(* Mutant: the loop is taken to leave 0 in timeout.                        *)
TimedOutAtZero == app.timeout = 0

TimedOut == app.timeout <= 0

DecideFailed ==
  /\ app.at = "decide" /\ TimedOut
  /\ Fail
  /\ UNCHANGED <<object, made, wire, granted>>

DecideStarted ==
  /\ app.at = "decide" /\ ~TimedOut
  /\ socket_fd' = [socket_fd EXCEPT ![app.obj] = app.fd]
  /\ thread' = [thread EXCEPT ![app.obj] = "begin"]
  /\ Return
  /\ UNCHANGED <<running, desc, made, wire, granted>>

Await == GiveUp \/ Unanswered \/ (\E n \in Runs : Refused(n) \/ HungUp(n))

Decide == DecideFailed \/ DecideStarted

-----------------------------------------------------------------------------
(* ThreadHandler of an object.                                             *)

Goto(o, at) == thread' = [thread EXCEPT ![o] = at]

Begin(o) ==
  /\ thread[o] = "begin" /\ Goto(o, "loop")
  /\ running' = [running EXCEPT ![o] = TRUE]
  /\ UNCHANGED <<socket_fd, app, desc, made, wire, granted>>

Loop(o) ==
  /\ thread[o] = "loop" /\ Goto(o, IF running[o] THEN "recv" ELSE "check")
  /\ UNCHANGED <<running, socket_fd, app, desc, made, wire, granted>>

(* recv(), and where the thread goes with what it found.                   *)
RecvChunk(o, at) ==
  /\ thread[o] = "recv" /\ Goto(o, at)
  /\ Open(socket_fd[o]) /\ Ready(desc[socket_fd[o]])
  /\ Receive(desc[socket_fd[o]])
  /\ UNCHANGED <<running, socket_fd, app, desc, made, peer, granted>>

RecvNothing(o, at) ==
  /\ thread[o] = "recv" /\ Goto(o, at)
  /\ Open(socket_fd[o]) /\ Nothing(desc[socket_fd[o]])
  /\ UNCHANGED <<running, socket_fd, app, desc, made, wire, granted>>

RecvEnd(o) ==
  /\ thread[o] = "recv" /\ Goto(o, "check")
  /\ LET n == desc[socket_fd[o]] IN Open(socket_fd[o]) => Ended(n) \/ Failed(n)
  /\ UNCHANGED <<running, socket_fd, app, desc, made, wire, granted>>

(* What an object does between two receptions, and leaves or goes on.      *)
Work(o, at) ==
  /\ thread[o] = "work" /\ Goto(o, at)
  /\ UNCHANGED <<running, socket_fd, app, desc, made, wire, granted>>

LeaveCheck(o) ==
  /\ thread[o] = "check" /\ Goto(o, IF socket_fd[o] > 0 THEN "close" ELSE "end")
  /\ UNCHANGED <<running, socket_fd, app, desc, made, wire, granted>>

LeaveClose(o) ==
  /\ thread[o] = "close" /\ Goto(o, "forget")
  /\ Close(socket_fd[o])
  /\ UNCHANGED <<running, socket_fd, app, made, wire, granted>>

(* Mutant: socket_fd_ keeps the number of what was closed.                 *)
LeaveKeeps(o) ==
  /\ thread[o] = "forget" /\ Goto(o, "end")
  /\ UNCHANGED <<running, socket_fd, app, desc, made, wire, granted>>

LeaveForget(o) ==
  /\ thread[o] = "forget" /\ Goto(o, "end")
  /\ socket_fd' = [socket_fd EXCEPT ![o] = NoFd]
  /\ UNCHANGED <<running, app, desc, made, wire, granted>>

(* Mutant: service_is_running_ is left set.                                *)
EndRunning(o) ==
  /\ thread[o] = "end" /\ Goto(o, "done")
  /\ UNCHANGED <<running, socket_fd, app, desc, made, wire, granted>>

End(o) ==
  /\ thread[o] = "end" /\ Goto(o, "done")
  /\ running' = [running EXCEPT ![o] = FALSE]
  /\ UNCHANGED <<socket_fd, app, desc, made, wire, granted>>

Leave(o) == LeaveCheck(o) \/ LeaveClose(o) \/ LeaveForget(o) \/ End(o)

-----------------------------------------------------------------------------
(* Properties of every module that extends this one.                       *)

(* Every connection still open is one that Run is setting up or the one    *)
(* behind a socket_fd_: whichever of Stop, a failing Run and the service   *)
(* thread ends a connection, and in whatever order they look at            *)
(* socket_fd_, none is left open with nobody to close it.                  *)
NoLeak ==
  \A f \in Fds : desc[f] # Free => f = app.fd \/ \E o \in Objects : f = socket_fd[o]

LastRun(o, n) == made[n] = o /\ \A m \in DOMAIN made : m > n => made[m] # o

(* While an object's service thread lives, its Run is not setting up       *)
(* another connection, and the descriptor the thread works on denotes the  *)
(* connection it was started for: Run joins the previous thread before it  *)
(* opens anything.  (Between close and reset the number denotes nothing of *)
(* the thread's.)                                                          *)
ThreadServesItsRun ==
  \A o \in Objects : thread[o] \in Live =>
    /\ ~(app.obj = o /\ app.at \in InRun)
    /\ Open(socket_fd[o]) /\ thread[o] # "forget" => LastRun(o, desc[socket_fd[o]])

(* Only a connection whose request was answered 200 OK gets a service      *)
(* thread: a Run that gave up polling never starts one.                    *)
ServesOnlyGranted ==
  \A o \in Objects :
    thread[o] \in Live \ {"forget"} /\ Open(socket_fd[o]) => desc[socket_fd[o]] \in granted

(* When Stop has returned, and until the application's next call, the      *)
(* object has no thread left to call the callback, nothing of it is open   *)
(* and it is not running, also when the thread stored true into            *)
(* service_is_running_ after Stop had stored false.                        *)
StopIsFinal ==
  app.at = "idle" /\ app.call = "stop" =>
    /\ thread[app.obj] = "none" /\ ~running[app.obj] /\ socket_fd[app.obj] = NoFd
    /\ \A f \in Fds : desc[f] # Free => made[desc[f]] # app.obj

(* What an object looks like to its application (Link).                    *)
MadeBy(o) == {n \in DOMAIN made : made[n] = o}

Latest(o) == IF MadeBy(o) = {} THEN 0 ELSE CHOOSE n \in MadeBy(o) : LastRun(o, n)

HeldBy(o) == {n \in MadeBy(o) : Held(n)}

CallOf(o) ==
  IF app.obj # o \/ app.at = "idle" THEN "none"
  ELSE IF app.at \in {"poll", "decide"} THEN "wait" ELSE app.call

(* A call of Stop, and the one Run makes, returns: the thread it joins     *)
(* notices that the descriptor is gone even when it missed the flag.       *)
StopReturns == app.at \in InStop ~> app.at \notin InStop

PeerGone(o) ==
  /\ thread[o] \in Live /\ Open(socket_fd[o])
  /\ made[desc[socket_fd[o]]] = o /\ peer[desc[socket_fd[o]]] \in {"fin", "rst"}

(* A service thread notices that the caster has closed or reset its        *)
(* connection, and service_is_running() becomes false by itself.           *)
HangupNoticed ==
  \A o \in Objects : PeerGone(o) ~> thread[o] \in {"none", "done"} /\ ~running[o]
=============================================================================
