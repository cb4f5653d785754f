--------------------------- MODULE SessionProofs ---------------------------
(***************************************************************************)
(* The invariant of a session and the steps that keep it, for any set of   *)
(* objects on any set of descriptors.  It is stated for the objects of one *)
(* process together because a descriptor number closed by one of them can  *)
(* be handed to another before the first has reset its socket_fd_: the     *)
(* number is then stale, and only an object whose thread is about to reset *)
(* it, and which is not being stopped, may hold such a number.             *)
(*                                                                         *)
(* Every step of Session keeps the invariant, except a call of Stop or Run *)
(* on an object that holds a stale number: the modules that compose        *)
(* sessions have to rule that out.                                         *)
(***************************************************************************)
EXTENDS Session, SequenceTheorems, TLAPS

Idle == {"none", "begin", "done"}

AppAt == {"idle"} \cup InStop \cup InRun

AppType ==
  app \in [at : AppAt, obj : Objects, call : {"run", "stop"}, fd : Fds \cup {NoFd},
           timeout : -1..Polls]

Chunks == {"ok", "no", "data"}

(* TypeOK, one variable at a time.                                         *)
Typed ==
  /\ running \in [Objects -> BOOLEAN] /\ socket_fd \in [Objects -> Fds \cup {NoFd}]
  /\ thread \in [Objects -> {"none", "done"} \cup Live] /\ AppType
  /\ desc \in [Fds -> Runs \cup {Free}] /\ made \in Seq(Objects) /\ Len(made) <= MaxRuns
  /\ inbox \in [Runs -> Seq(Chunks)]
  /\ peer \in [Runs -> {"new", "ok", "no", "fin", "rst"}] /\ granted \subseteq Runs

(* Where the locals of Run have a value, and that Run has a connection     *)
(* left to make.                                                           *)
Locals ==
  /\ app.fd # NoFd <=> app.at \in {"poll", "decide"}
  /\ app.at = "poll" => app.timeout >= 0
  /\ app.at \in InRun => app.call = "run"
  /\ (app.at \in InStop /\ app.call = "run") \/ app.at = "connect" => Len(made) < MaxRuns

(* The invariant of the types, which holds whatever is called when.        *)
BaseInv == Typed /\ Locals

(* Descriptors denote connections that were made.                          *)
Made == \A f \in Fds : desc[f] # Free => desc[f] \in DOMAIN made

(* The connection Run sets up is the last one, and its own.                *)
Setup ==
  app.at \in {"poll", "decide"} =>
    /\ desc[app.fd] = Len(made) /\ Len(made) # 0 /\ made[Len(made)] = app.obj
    /\ app.at = "decide" /\ ~TimedOut => Len(made) \in granted

(* While Run is past Stop the object has no thread, and a thread that is   *)
(* over, or about to be, has left no descriptor behind.                    *)
Joined ==
  \A o \in Objects :
    /\ app.obj = o /\ app.at \in InRun => thread[o] = "none"
    /\ thread[o] \in {"none", "end", "done"} => socket_fd[o] = NoFd

(* service_is_running_ says where the thread is, except that Stop clears it.*)
FlagTold ==
  \A o \in Objects :
    /\ thread[o] \in Idle => ~running[o]
    /\ thread[o] \notin Idle /\ ~running[o] => app.obj = o /\ app.at \in InStop \ {"stop"}

(* socket_fd_ holds a number closed and to be reset by who closed it, the  *)
(* connection its Run has made, or a number that belongs to another object *)
(* by now.                                                                 *)
Closed(o) ==
  desc[socket_fd[o]] = Free /\ (thread[o] = "forget" \/ (app.obj = o /\ app.at = "forget"))

Own(o) ==
  /\ desc[socket_fd[o]] # Free /\ desc[socket_fd[o]] \in granted
  /\ LastRun(o, desc[socket_fd[o]])
  /\ thread[o] # "forget" /\ ~(app.obj = o /\ app.at = "forget")

Stale(o) ==
  /\ desc[socket_fd[o]] # Free /\ made[desc[socket_fd[o]]] # o
  /\ thread[o] = "forget" /\ ~(app.obj = o /\ app.at \in InStop)

Sockets == \A o \in Objects : socket_fd[o] # NoFd => Closed(o) \/ Own(o) \/ Stale(o)

(* An open connection is in the hands of Run or of the object that made it.*)
Accounted ==
  \A f \in Fds : desc[f] # Free => f = app.fd \/ socket_fd[made[desc[f]]] = f

(* Between a Stop and the next call the object has no thread.              *)
Quiet == app.at = "idle" /\ app.call = "stop" => thread[app.obj] = "none"

SessionInv ==
  BaseInv /\ Made /\ Setup /\ Joined /\ FlagTold /\ Sockets /\ Accounted /\ Quiet

-----------------------------------------------------------------------------
(* The fields of the application's record after each kind of step.         *)
Stay(at) ==
  /\ app'.at = at /\ app'.obj = app.obj /\ app'.call = app.call
  /\ app'.fd = app.fd /\ app'.timeout = app.timeout

LEMMA AtStays ==
  ASSUME AppType, NEW at \in AppAt, At(at)
  PROVE  Stay(at) /\ AppType'
  BY DEF At, Stay, AppType

LEMMA ReturnGives ==
  ASSUME AppType, Return
  PROVE  /\ app'.at = "idle" /\ app'.obj = app.obj /\ app'.call = app.call
         /\ app'.fd = NoFd /\ app'.timeout = 0 /\ AppType'
<1>1. app' = [at |-> "idle", obj |-> app.obj, call |-> app.call, fd |-> NoFd, timeout |-> 0]
  BY DEF Return, AppType
<1>2. 0 \in -1..Polls /\ app.obj \in Objects /\ app.call \in {"run", "stop"}
  BY SessionAssumption DEF AppType
<1>. QED  BY <1>1, <1>2 DEF AppType, AppAt

LEMMA PolledGives ==
  ASSUME AppType, NEW at \in {"poll", "decide"}, Polled(at), app.timeout >= 0
  PROVE  /\ app'.at = at /\ app'.obj = app.obj /\ app'.call = app.call
         /\ app'.fd = app.fd /\ app'.timeout = app.timeout - 1 /\ AppType'
<1>1. app' = [at |-> at, obj |-> app.obj, call |-> app.call, fd |-> app.fd,
              timeout |-> app.timeout - 1]
  BY DEF Polled, AppType
<1>2. /\ app.obj \in Objects /\ app.call \in {"run", "stop"}
      /\ app.fd \in Fds \cup {NoFd} /\ app.timeout \in -1..Polls
  BY DEF AppType
<1>3. app.timeout - 1 \in -1..Polls
  BY <1>2, SessionAssumption
<1>. QED  BY <1>1, <1>2, <1>3 DEF AppType, AppAt, InRun

-----------------------------------------------------------------------------
(* Types.                                                                  *)

LEMMA TypedIsTypeOK == TypeOK <=> Typed
  BY DEF TypeOK, Typed, AppType, AppAt, Chunks

LEMMA ReceiveType ==
  ASSUME NEW n \in Runs, inbox \in [Runs -> Seq(Chunks)], Ready(n), Receive(n)
  PROVE  inbox' \in [Runs -> Seq(Chunks)]
<1>1. Tail(inbox[n]) \in Seq(Chunks)
  BY HeadTailProperties DEF Ready
<1>. QED  BY <1>1 DEF Receive

LEMMA SendType ==
  ASSUME NEW n \in Runs, inbox \in [Runs -> Seq(Chunks)], NEW m \in Chunks,
         inbox' = [inbox EXCEPT ![n] = Append(@, m)]
  PROVE  inbox' \in [Runs -> Seq(Chunks)]
<1>1. Append(inbox[n], m) \in Seq(Chunks)
  BY AppendProperties
<1>. QED  BY <1>1

LEMMA CloseType ==
  ASSUME desc \in [Fds -> Runs \cup {Free}], NEW f, Close(f)
  PROVE  desc' \in [Fds -> Runs \cup {Free}]
  BY DEF Close

(* The caster.                                                             *)
LEMMA CasterTypes ==
  ASSUME BaseInv, Caster
  PROVE  BaseInv' /\ UNCHANGED <<object, app, desc, made, granted>>
<1>. USE DEF BaseInv, object
<1>1. ASSUME NEW n \in Runs, Answer(n)
      PROVE  Typed' /\ UNCHANGED <<object, app, desc, made, granted>>
  <2>1. PICK reply \in {"ok", "no"} :
          /\ peer' = [peer EXCEPT ![n] = reply]
          /\ inbox' = [inbox EXCEPT ![n] = Append(@, reply)]
    BY <1>1 DEF Answer
  <2>2. inbox' \in [Runs -> Seq(Chunks)]
    BY <2>1, SendType DEF Typed, Chunks
  <2>3. peer' \in [Runs -> {"new", "ok", "no", "fin", "rst"}]
    BY <2>1 DEF Typed
  <2>4. UNCHANGED <<object, app, desc, made, granted>>
    BY <1>1 DEF Answer
  <2>. QED  BY <2>2, <2>3, <2>4 DEF Typed, AppType
<1>2. ASSUME NEW n \in Runs, SendsData(n)
      PROVE  Typed' /\ UNCHANGED <<object, app, desc, made, granted>>
  <2>1. inbox' \in [Runs -> Seq(Chunks)]
    BY <1>2, SendType DEF SendsData, Typed, Chunks
  <2>. QED  BY <1>2, <2>1 DEF SendsData, Typed, AppType
<1>3. ASSUME NEW n \in Runs, Ends(n)
      PROVE  Typed' /\ UNCHANGED <<object, app, desc, made, granted>>
  BY <1>3 DEF Ends, Typed, AppType
<1>4. Typed' /\ UNCHANGED <<object, app, desc, made, granted>>
  BY <1>1, <1>2, <1>3 DEF Caster
<1>. QED  BY <1>4 DEF Locals

(* Calls and Stop.                                                         *)
LEMMA CallDoes ==
  ASSUME BaseInv, NEW o \in Objects, CallStop(o) \/ CallRun(o)
  PROVE  /\ BaseInv' /\ app.at = "idle" /\ app'.obj = o /\ app'.fd = app.fd
         /\ app'.at \in {"idle", "stop"} /\ (app'.at = "idle" => app'.call = "run")
         /\ UNCHANGED <<object, desc, made, granted>>
<1>. USE DEF BaseInv, object, wire
<1>1. AppType' /\ app'.fd = app.fd /\ app'.obj = o
  <2>1. app.fd \in Fds \cup {NoFd} /\ app.timeout \in -1..Polls
    BY DEF Typed, AppType
  <2>2. CASE CallStop(o)
    <3>1. app' = [at |-> "stop", obj |-> o, call |-> "stop", fd |-> app.fd,
                  timeout |-> app.timeout]
      BY <2>2 DEF CallStop, Typed, AppType
    <3>. QED  BY <2>1, <3>1 DEF AppType, AppAt, InStop
  <2>3. CASE CallRun(o)
    <3>1. app' = [at |-> IF running[o] THEN "idle" ELSE "stop", obj |-> o,
                  call |-> "run", fd |-> app.fd, timeout |-> app.timeout]
      BY <2>3 DEF CallRun, Typed, AppType
    <3>. QED  BY <2>1, <3>1 DEF AppType, AppAt, InStop
  <2>. QED  BY <2>2, <2>3
<1>2. Typed'
  BY <1>1 DEF CallStop, CallRun, Typed
<1>3. /\ app'.at \in {"idle", "stop"} /\ (app'.call = "run" => Len(made) < MaxRuns)
      /\ app.at = "idle" /\ (app'.at = "idle" => app'.call = "run")
  BY DEF CallStop, CallRun, Typed, AppType
<1>4. UNCHANGED made
  BY DEF CallStop, CallRun
<1>5. Locals'
  BY <1>1, <1>3, <1>4 DEF Locals, InRun, InStop
<1>. QED  BY <1>1, <1>2, <1>3, <1>5 DEF CallStop, CallRun

(* A step that leaves the record of the application and the connections    *)
(* made alone keeps Run's locals.                                          *)
LEMMA SameLocals ==
  ASSUME Locals, UNCHANGED <<app, made>> PROVE Locals'
  BY DEF Locals

LEMMA TypeFacts ==
  ASSUME BaseInv
  PROVE  /\ app.obj \in Objects /\ app.fd \in Fds \cup {NoFd} /\ app.at \in AppAt
         /\ app.call \in {"run", "stop"} /\ app.timeout \in -1..Polls
         /\ app.timeout \in Int
         /\ NoFd \notin Fds /\ 0 \notin Fds /\ Free \notin Runs
         /\ Len(made) \in Nat /\ DOMAIN made = 1..Len(made)
         /\ \A n \in DOMAIN made : made[n] \in Objects
<1>. USE DEF BaseInv, Typed
<1>1. /\ app.obj \in Objects /\ app.fd \in Fds \cup {NoFd} /\ app.at \in AppAt
      /\ app.call \in {"run", "stop"} /\ app.timeout \in -1..Polls
  BY DEF AppType
<1>2. app.timeout \in Int
  BY <1>1, SessionAssumption
<1>3. NoFd \notin Fds /\ 0 \notin Fds /\ Free \notin Runs
  BY SessionAssumption DEF NoFd, Free, Runs
<1>4. Len(made) \in Nat /\ DOMAIN made = 1..Len(made)
  BY LenProperties
<1>5. \A n \in DOMAIN made : made[n] \in Objects
  BY ElementOfSeq, <1>4
<1>. QED  BY <1>1, <1>2, <1>3, <1>4, <1>5

LEMMA SocketFacts ==
  ASSUME BaseInv, NEW o \in Objects
  PROVE  /\ socket_fd[o] \in Fds \cup {NoFd}
         /\ IF socket_fd[o] > 0 THEN socket_fd[o] \in Fds /\ socket_fd[o] # NoFd
                                ELSE socket_fd[o] = NoFd
<1>1. socket_fd[o] \in Fds \cup {NoFd}
  BY DEF BaseInv, Typed
<1>2. ASSUME NEW f \in Fds PROVE f > 0 /\ f # NoFd
  BY SessionAssumption DEF NoFd
<1>3. ~(NoFd > 0)
  BY DEF NoFd
<1>4. CASE socket_fd[o] \in Fds
  BY <1>2, <1>4
<1>5. CASE socket_fd[o] = NoFd
  BY <1>3, <1>5
<1>. QED  BY <1>1, <1>4, <1>5

(* What each step of Stop does, in full.                                   *)
LEMMA StopFlagDoes ==
  ASSUME BaseInv, StopFlag
  PROVE  /\ app.at = "stop" /\ Stay("check") /\ BaseInv'
         /\ running' = [running EXCEPT ![app.obj] = FALSE]
         /\ UNCHANGED <<socket_fd, thread, desc, made, wire, granted>>
<1>. USE DEF BaseInv, wire
<1>1. Stay("check") /\ AppType'
  BY AtStays DEF StopFlag, Typed, AppAt, InStop
<1>2. Typed'
  BY <1>1 DEF StopFlag, Typed
<1>3. Locals'
  BY <1>1 DEF StopFlag, Locals, Stay, InRun, InStop
<1>. QED  BY <1>1, <1>2, <1>3 DEF StopFlag

LEMMA StopCheckDoes ==
  ASSUME BaseInv, StopCheck
  PROVE  /\ app.at = "check" /\ BaseInv'
         /\ IF socket_fd[app.obj] # NoFd THEN Stay("close") ELSE Stay("join")
         /\ UNCHANGED <<object, desc, made, wire, granted>>
<1>. USE DEF BaseInv, wire, object
<1>1. app.obj \in Objects
  BY TypeFacts
<1>2. /\ IF socket_fd[app.obj] # NoFd THEN Stay("close") ELSE Stay("join")
      /\ AppType'
  BY <1>1, SocketFacts, AtStays DEF StopCheck, Typed, AppAt, InStop
<1>3. Typed'
  BY <1>2 DEF StopCheck, Typed
<1>4. Locals'
  BY <1>2 DEF StopCheck, Locals, Stay, InRun, InStop
<1>. QED  BY <1>2, <1>3, <1>4 DEF StopCheck

LEMMA StopCloseDoes ==
  ASSUME BaseInv, StopClose
  PROVE  /\ app.at = "close" /\ Stay("forget") /\ BaseInv'
         /\ Close(socket_fd[app.obj])
         /\ UNCHANGED <<object, made, wire, granted>>
<1>. USE DEF BaseInv, wire, object
<1>1. Stay("forget") /\ AppType'
  BY AtStays DEF StopClose, Typed, AppAt, InStop
<1>2. Typed'
  BY <1>1, CloseType DEF StopClose, Typed
<1>3. Locals'
  BY <1>1 DEF StopClose, Locals, Stay, InRun, InStop
<1>. QED  BY <1>1, <1>2, <1>3 DEF StopClose

LEMMA StopForgetDoes ==
  ASSUME BaseInv, StopForget
  PROVE  /\ app.at = "forget" /\ Stay("join") /\ BaseInv'
         /\ socket_fd' = [socket_fd EXCEPT ![app.obj] = NoFd]
         /\ UNCHANGED <<running, thread, desc, made, wire, granted>>
<1>. USE DEF BaseInv, wire
<1>1. Stay("join") /\ AppType'
  BY AtStays DEF StopForget, Typed, AppAt, InStop
<1>2. Typed'
  BY <1>1 DEF StopForget, Typed
<1>3. Locals'
  BY <1>1 DEF StopForget, Locals, Stay, InRun, InStop
<1>. QED  BY <1>1, <1>2, <1>3 DEF StopForget

LEMMA JoinDoes ==
  ASSUME BaseInv, Join
  PROVE  /\ app.at = "join" /\ BaseInv'
         /\ IF app.call = "run" THEN Stay("connect") ELSE Stay("idle")
         /\ thread[app.obj] \in {"none", "done"}
         /\ thread' = [thread EXCEPT ![app.obj] = "none"]
         /\ UNCHANGED <<running, socket_fd, desc, made, wire, granted>>
<1>. USE DEF BaseInv, wire
<1>1. /\ IF app.call = "run" THEN Stay("connect") ELSE Stay("idle")
      /\ AppType'
  BY AtStays DEF Join, Typed, AppAt, InStop, InRun
<1>2. Typed'
  BY <1>1 DEF Join, Typed
<1>3. Locals'
  BY <1>1 DEF Join, Locals, Stay, InRun, InStop, Typed, AppType
<1>. QED  BY <1>1, <1>2, <1>3 DEF Join

(* What the steps of Run do.                                               *)
LEMMA ConnectDoes ==
  ASSUME BaseInv, Connect
  PROVE  /\ app.at = "connect" /\ BaseInv' /\ UNCHANGED <<object, wire, granted>>
         /\ app'.obj = app.obj /\ app'.call = app.call
         /\ \/ /\ Stay("idle") /\ UNCHANGED <<desc, made>>
            \/ \E f \in Fds :
                 /\ desc[f] = Free /\ desc' = [desc EXCEPT ![f] = Len(made) + 1]
                 /\ made' = Append(made, app.obj)
                 /\ app'.at = "poll" /\ app'.fd = f
<1>. USE DEF BaseInv, wire, object
<1>1. CASE At("idle") /\ UNCHANGED <<desc, made>>
  <2>1. Stay("idle") /\ AppType'
    BY <1>1, AtStays DEF Typed, AppAt
  <2>2. Typed' /\ Locals'
    BY <1>1, <2>1 DEF Connect, Typed, Locals, Stay, InRun, InStop
  <2>. QED  BY <1>1, <2>1, <2>2 DEF Connect, Stay
<1>2. ASSUME NEW f \in Fds, LowestFree(f), desc' = [desc EXCEPT ![f] = Len(made) + 1],
             made' = Append(made, app.obj),
             app' = [app EXCEPT !.at = "poll", !.fd = f, !.timeout = Polls]
      PROVE  /\ app.at = "connect" /\ BaseInv' /\ app'.obj = app.obj
             /\ app'.call = app.call /\ desc[f] = Free
             /\ app'.at = "poll" /\ app'.fd = f
  <2>1. app.at = "connect" /\ Len(made) < MaxRuns /\ app.call = "run"
    BY DEF Connect, Locals, InRun
  <2>2. app' = [at |-> "poll", obj |-> app.obj, call |-> app.call, fd |-> f,
                timeout |-> Polls]
    BY <1>2 DEF Typed, AppType
  <2>3. AppType' /\ app.obj \in Objects
    BY <2>2, SessionAssumption DEF Typed, AppType, AppAt, InRun
  <2>4. made' \in Seq(Objects) /\ Len(made') = Len(made) + 1 /\ Len(made) \in Nat
    BY <1>2, <2>3, AppendProperties, LenProperties DEF Typed
  <2>5. desc' \in [Fds -> Runs \cup {Free}] /\ Len(made') <= MaxRuns
    BY <1>2, <2>1, <2>4, SessionAssumption DEF Typed, Runs
  <2>6. Typed'
    BY <2>3, <2>4, <2>5 DEF Connect, Typed
  <2>7. Locals'
    BY <2>1, <2>2, SessionAssumption DEF Locals, InRun, InStop, NoFd
  <2>. QED  BY <1>2, <2>1, <2>2, <2>6, <2>7 DEF LowestFree
<1>. QED  BY <1>1, <1>2 DEF Connect

LEMMA FailType ==
  ASSUME BaseInv, Fail
  PROVE  /\ AppType' /\ desc' \in [Fds -> Runs \cup {Free}]
         /\ app'.at = "idle" /\ app'.obj = app.obj /\ app'.call = app.call
         /\ app'.fd = NoFd /\ Close(app.fd)
  BY ReturnGives, CloseType DEF Fail, BaseInv, Typed

(* Polling goes on, or ends.                                               *)
LEMMA PollingDoes ==
  ASSUME BaseInv, app.at = "poll", NEW at \in {"poll", "decide"}, Polled(at),
         ~Exhausted \/ at = "decide", UNCHANGED made
  PROVE  /\ AppType' /\ Locals' /\ app'.at = at /\ app'.obj = app.obj
         /\ app'.call = app.call /\ app'.fd = app.fd /\ app'.timeout = app.timeout - 1
<1>1. app.timeout >= 0 /\ app.timeout \in Int
  BY TypeFacts DEF BaseInv, Locals
<1>2. /\ AppType' /\ app'.at = at /\ app'.obj = app.obj /\ app'.call = app.call
      /\ app'.fd = app.fd /\ app'.timeout = app.timeout - 1
  BY <1>1, PolledGives DEF BaseInv, Typed
<1>3. at = "poll" => app.timeout # 0
  BY DEF Exhausted
<1>. QED  BY <1>1, <1>2, <1>3 DEF BaseInv, Locals, InRun, InStop

(* Polling leaves everything but the connection's end alone.               *)
LEMMA AwaitDoes ==
  ASSUME BaseInv, GiveUp \/ Unanswered \/ \E n \in Runs : Refused(n)
  PROVE  /\ BaseInv' /\ app.at = "poll" /\ app'.at \in {"poll", "decide"}
         /\ app'.obj = app.obj /\ app'.call = app.call /\ app'.fd = app.fd
         /\ app'.at = "decide" => app'.timeout < 0
         /\ UNCHANGED <<object, desc, made, granted>>
<1>. USE DEF BaseInv, wire, object
<1>1. CASE GiveUp
  <2>1. app'.timeout = -1
    BY <1>1, PollingDoes DEF GiveUp, Exhausted
  <2>. QED  BY <1>1, <2>1, PollingDoes DEF GiveUp, Typed
<1>2. CASE Unanswered
  <2>1. peer' \in [Runs -> {"new", "ok", "no", "fin", "rst"}]
    BY <1>2 DEF Unanswered, Typed
  <2>. QED  BY <1>2, <2>1, PollingDoes DEF Unanswered, Typed
<1>3. ASSUME NEW n \in Runs, Refused(n)
      PROVE  /\ BaseInv' /\ app.at = "poll" /\ app'.at \in {"poll", "decide"}
             /\ app'.obj = app.obj /\ app'.call = app.call /\ app'.fd = app.fd
             /\ app'.at = "decide" => app'.timeout < 0
             /\ UNCHANGED <<object, desc, made, granted>>
  <2>1. inbox' \in [Runs -> Seq(Chunks)]
    BY <1>3, ReceiveType DEF Refused, Typed
  <2>. QED  BY <1>3, <2>1, PollingDoes DEF Refused, Polling, Typed
<1>. QED  BY <1>1, <1>2, <1>3

LEMMA AcceptedDoes ==
  ASSUME BaseInv, NEW n \in Runs, Accepted(n)
  PROVE  /\ BaseInv' /\ app.at = "poll" /\ app'.at = "decide" /\ n = desc[app.fd]
         /\ app'.obj = app.obj /\ app'.call = app.call /\ app'.fd = app.fd
         /\ granted' = granted \cup {n} /\ UNCHANGED <<object, desc, made>>
<1>. USE DEF BaseInv, object
<1>1. inbox' \in [Runs -> Seq(Chunks)] /\ granted' \subseteq Runs
  BY ReceiveType DEF Accepted, Typed
<1>. QED  BY <1>1, PollingDoes DEF Accepted, Polling, Typed

(* The ways in which Run fails once it has connected.                      *)
LEMMA FailDoes ==
  ASSUME BaseInv, DecideFailed \/ \E n \in Runs : HungUp(n) \/ GreetFails(n)
  PROVE  /\ BaseInv' /\ app.at \in {"poll", "decide"} /\ app'.at = "idle"
         /\ app'.obj = app.obj /\ app'.call = app.call /\ app'.fd = NoFd
         /\ Close(app.fd) /\ granted \subseteq granted' /\ UNCHANGED <<object, made>>
<1>. USE DEF BaseInv, wire, object
<1>1. Fail /\ app.at \in {"poll", "decide"} /\ UNCHANGED <<object, made>>
  BY DEF DecideFailed, HungUp, GreetFails, Polling
<1>2. Locals'
  BY <1>1, FailType DEF Locals, InRun, InStop
<1>3. CASE DecideFailed \/ \E n \in Runs : HungUp(n)
  BY <1>1, <1>2, <1>3, FailType DEF DecideFailed, HungUp, Typed
<1>4. ASSUME NEW n \in Runs, GreetFails(n)
      PROVE  BaseInv' /\ granted \subseteq granted'
  <2>1. inbox' \in [Runs -> Seq(Chunks)] /\ granted' \subseteq Runs
    BY <1>4, ReceiveType DEF GreetFails, Typed
  <2>. QED  BY <1>1, <1>2, <1>4, <2>1, FailType DEF GreetFails, Typed
<1>. QED  BY <1>1, <1>3, <1>4, FailType

LEMMA StartedDoes ==
  ASSUME BaseInv, DecideStarted
  PROVE  /\ BaseInv' /\ app.at = "decide" /\ ~TimedOut /\ app'.at = "idle"
         /\ app'.obj = app.obj /\ app'.call = app.call /\ app'.fd = NoFd
         /\ socket_fd' = [socket_fd EXCEPT ![app.obj] = app.fd]
         /\ thread' = [thread EXCEPT ![app.obj] = "begin"]
         /\ UNCHANGED <<running, desc, made, granted>>
<1>. USE DEF BaseInv, wire
<1>1. /\ AppType' /\ app'.at = "idle" /\ app'.obj = app.obj /\ app'.call = app.call
      /\ app'.fd = NoFd
  BY ReturnGives DEF DecideStarted, Typed
<1>2. socket_fd' \in [Objects -> Fds \cup {NoFd}]
  BY TypeFacts DEF DecideStarted, Typed
<1>3. thread' \in [Objects -> {"none", "done"} \cup Live]
  BY DEF DecideStarted, Typed, Live
<1>4. Locals'
  BY <1>1 DEF Locals, InRun, InStop
<1>. QED  BY <1>1, <1>2, <1>3, <1>4 DEF DecideStarted, Typed

-----------------------------------------------------------------------------
(* What the steps of a service thread do.                                  *)

Onward == {"loop", "work", "check"}

(* Everything between the start and the closing of the descriptor.         *)
Moves(o) ==
  \/ Loop(o) \/ RecvEnd(o) \/ LeaveCheck(o)
  \/ \E at \in Onward : RecvChunk(o, at) \/ RecvNothing(o, at) \/ Work(o, at)

Moved(o, at) ==
  /\ thread[o] \in {"loop", "recv", "work", "check"}
  /\ at \in {"loop", "recv", "work", "check", "close", "end"}
  /\ at = "end" => socket_fd[o] = NoFd
  /\ thread' = [thread EXCEPT ![o] = at]
  /\ UNCHANGED <<running, socket_fd, app, desc, made, granted>>

LEMMA GotoType ==
  ASSUME BaseInv, NEW o \in Objects, NEW at \in {"none", "done"} \cup Live, Goto(o, at)
  PROVE  thread' \in [Objects -> {"none", "done"} \cup Live]
  BY DEF BaseInv, Typed, Goto

LEMMA MovesDoes ==
  ASSUME BaseInv, NEW o \in Objects, Moves(o)
  PROVE  BaseInv' /\ \E at \in {"none", "done"} \cup Live : Moved(o, at)
<1>. USE DEF BaseInv, wire
<1>1. \E at \in {"none", "done"} \cup Live : Moved(o, at)
  <2>1. CASE Loop(o) \/ RecvEnd(o)
    BY <2>1 DEF Loop, RecvEnd, Moved, Goto, Live
  <2>2. CASE LeaveCheck(o)
    BY <2>2, SocketFacts DEF LeaveCheck, Moved, Goto, Live
  <2>3. ASSUME NEW at \in Onward, RecvChunk(o, at) \/ RecvNothing(o, at) \/ Work(o, at)
        PROVE  Moved(o, at) /\ at \in {"none", "done"} \cup Live
    BY <2>3 DEF RecvChunk, RecvNothing, Work, Moved, Goto, Onward, Live
  <2>. QED  BY <2>1, <2>2, <2>3 DEF Moves
<1>2. inbox' \in [Runs -> Seq(Chunks)] /\ UNCHANGED peer
  <2>1. ASSUME NEW at \in Onward, RecvChunk(o, at)
        PROVE  inbox' \in [Runs -> Seq(Chunks)] /\ UNCHANGED peer
    <3>1. socket_fd[o] \in Fds
      BY <2>1, SocketFacts DEF RecvChunk, Open
    <3>2. desc[socket_fd[o]] \in Runs
      BY <2>1, <3>1 DEF RecvChunk, Open, Typed
    <3>. QED  BY <2>1, <3>2, ReceiveType DEF RecvChunk, Typed
  <2>. QED  BY <2>1 DEF Moves, Loop, RecvEnd, LeaveCheck, RecvNothing, Work, Typed
<1>3. PICK at \in {"none", "done"} \cup Live : Moved(o, at)
  BY <1>1
<1>4. Typed'
  BY <1>2, <1>3, GotoType DEF Moved, Goto, Typed, AppType
<1>. QED  BY <1>1, <1>3, <1>4, SameLocals DEF Moved

LEMMA BeginDoes ==
  ASSUME BaseInv, NEW o \in Objects, Begin(o)
  PROVE  /\ BaseInv' /\ thread[o] = "begin"
         /\ thread' = [thread EXCEPT ![o] = "loop"]
         /\ running' = [running EXCEPT ![o] = TRUE]
         /\ UNCHANGED <<socket_fd, app, desc, made, granted>>
<1>. USE DEF BaseInv, wire
<1>1. running' \in [Objects -> BOOLEAN]
  BY DEF Begin, Typed
<1>2. thread' \in [Objects -> {"none", "done"} \cup Live]
  BY GotoType DEF Begin, Live
<1>3. Typed'
  BY <1>1, <1>2 DEF Begin, Typed, AppType
<1>. QED  BY <1>3, SameLocals DEF Begin, Goto

LEMMA LeaveCloseDoes ==
  ASSUME BaseInv, NEW o \in Objects, LeaveClose(o)
  PROVE  /\ BaseInv' /\ thread[o] = "close"
         /\ thread' = [thread EXCEPT ![o] = "forget"]
         /\ Close(socket_fd[o])
         /\ UNCHANGED <<running, socket_fd, app, made, granted>>
<1>. USE DEF BaseInv, wire
<1>1. desc' \in [Fds -> Runs \cup {Free}]
  BY CloseType DEF LeaveClose, Typed
<1>2. thread' \in [Objects -> {"none", "done"} \cup Live]
  BY GotoType DEF LeaveClose, Live
<1>3. Typed'
  BY <1>1, <1>2 DEF LeaveClose, Typed, AppType
<1>. QED  BY <1>3, SameLocals DEF LeaveClose, Goto

LEMMA LeaveForgetDoes ==
  ASSUME BaseInv, NEW o \in Objects, LeaveForget(o)
  PROVE  /\ BaseInv' /\ thread[o] = "forget"
         /\ thread' = [thread EXCEPT ![o] = "end"]
         /\ socket_fd' = [socket_fd EXCEPT ![o] = NoFd]
         /\ UNCHANGED <<running, app, desc, made, granted>>
<1>. USE DEF BaseInv, wire
<1>1. socket_fd' \in [Objects -> Fds \cup {NoFd}]
  BY DEF LeaveForget, Typed
<1>2. thread' \in [Objects -> {"none", "done"} \cup Live]
  BY GotoType DEF LeaveForget, Live
<1>3. Typed'
  BY <1>1, <1>2 DEF LeaveForget, Typed, AppType
<1>. QED  BY <1>3, SameLocals DEF LeaveForget, Goto

LEMMA EndDoes ==
  ASSUME BaseInv, NEW o \in Objects, End(o)
  PROVE  /\ BaseInv' /\ thread[o] = "end"
         /\ thread' = [thread EXCEPT ![o] = "done"]
         /\ running' = [running EXCEPT ![o] = FALSE]
         /\ UNCHANGED <<socket_fd, app, desc, made, granted>>
<1>. USE DEF BaseInv, wire
<1>1. running' \in [Objects -> BOOLEAN]
  BY DEF End, Typed
<1>2. thread' \in [Objects -> {"none", "done"} \cup Live]
  BY GotoType DEF End, Live
<1>3. Typed'
  BY <1>1, <1>2 DEF End, Typed, AppType
<1>. QED  BY <1>3, SameLocals DEF End, Goto

-----------------------------------------------------------------------------
(* Every step keeps the invariant.                                         *)

LEMMA CasterKeeps ==
  ASSUME SessionInv, Caster PROVE SessionInv'
<1>1. BaseInv' /\ UNCHANGED <<running, socket_fd, thread, app, desc, made, granted>>
  BY CasterTypes DEF SessionInv, object
<1>. QED
  BY <1>1 DEF SessionInv, Made, Setup, TimedOut, Joined, FlagTold, Sockets, Closed, Own,
              Stale, LastRun, Accounted, Quiet

LEMMA CallKeeps ==
  ASSUME SessionInv, NEW o \in Objects, socket_fd[o] # NoFd => ~Stale(o),
         CallStop(o) \/ CallRun(o)
  PROVE  SessionInv'
<1>. USE DEF SessionInv, object
<1>1. /\ BaseInv' /\ app.at = "idle" /\ app'.obj = o /\ app'.fd = app.fd
      /\ app'.at \in {"idle", "stop"} /\ (app'.at = "idle" => app'.call = "run")
      /\ UNCHANGED <<running, socket_fd, thread, desc, made, granted>>
  BY CallDoes
<1>2. Made' /\ Setup' /\ Joined' /\ Accounted' /\ Quiet'
  BY <1>1 DEF Made, Setup, Joined, Accounted, Quiet, InRun
<1>3. FlagTold'
  BY <1>1 DEF FlagTold, InStop
<1>4. Sockets'
  BY <1>1 DEF Sockets, Closed, Own, Stale, LastRun, InStop
<1>. QED  BY <1>1, <1>2, <1>3, <1>4

LEMMA StopFlagKeeps ==
  ASSUME SessionInv, StopFlag PROVE SessionInv'
<1>. USE DEF SessionInv, Stay
<1>1. /\ BaseInv' /\ app.at = "stop" /\ Stay("check")
      /\ running' = [running EXCEPT ![app.obj] = FALSE]
      /\ UNCHANGED <<socket_fd, thread, desc, made, granted>>
  BY StopFlagDoes
<1>2. Made' /\ Setup' /\ Joined' /\ Accounted' /\ Quiet'
  BY <1>1 DEF Made, Setup, Joined, Accounted, Quiet, InRun
<1>3. FlagTold'
  BY <1>1 DEF FlagTold, InStop, BaseInv, Typed
<1>4. Sockets'
  BY <1>1 DEF Sockets, Closed, Own, Stale, LastRun, InStop
<1>. QED  BY <1>1, <1>2, <1>3, <1>4

LEMMA StopCheckKeeps ==
  ASSUME SessionInv, StopCheck PROVE SessionInv'
<1>. USE DEF SessionInv, Stay
<1>1. /\ BaseInv' /\ app.at = "check"
      /\ IF socket_fd[app.obj] # NoFd THEN Stay("close") ELSE Stay("join")
      /\ UNCHANGED <<running, socket_fd, thread, desc, made, granted>>
  BY StopCheckDoes DEF object
<1>2. Made' /\ Setup' /\ Joined' /\ Accounted' /\ Quiet'
  BY <1>1 DEF Made, Setup, Joined, Accounted, Quiet, InRun
<1>3. FlagTold'
  BY <1>1 DEF FlagTold, InStop
<1>4. Sockets'
  BY <1>1 DEF Sockets, Closed, Own, Stale, LastRun, InStop
<1>. QED  BY <1>1, <1>2, <1>3, <1>4

(* An object whose own number is closed: who else holds the number is      *)
(* about to reset it.                                                      *)
LEMMA CloseKeeps ==
  ASSUME SessionInv, NEW o \in Objects, NEW f \in Fds, desc[f] # Free, made[desc[f]] = o,
         NEW p \in Objects, p # o, socket_fd[p] = f
  PROVE  thread[p] = "forget"
<1>1. f # NoFd
  BY TypeFacts DEF SessionInv
<1>. QED  BY <1>1 DEF SessionInv, Sockets, Closed, Own, LastRun, Stale

LEMMA StopCloseKeeps ==
  ASSUME SessionInv, StopClose PROVE SessionInv'
<1>. USE DEF SessionInv, Stay
<1>1. /\ BaseInv' /\ app.at = "close" /\ Stay("forget") /\ Close(socket_fd[app.obj])
      /\ UNCHANGED <<running, socket_fd, thread, made, granted>>
  BY StopCloseDoes DEF object
<1>2. Made' /\ Accounted'
  BY <1>1 DEF Close, Made, Accounted
<1>3. Setup' /\ Joined' /\ Quiet'
  BY <1>1 DEF Setup, Joined, Quiet, InRun
<1>4. FlagTold'
  BY <1>1 DEF FlagTold, InStop
<1>5. Sockets'
  <2>. SUFFICES ASSUME NEW p \in Objects, socket_fd[p] # NoFd
                PROVE  (Closed(p) \/ Own(p) \/ Stale(p))'
    BY <1>1 DEF Sockets
  <2>1. app.obj \in Objects /\ socket_fd[p] \in Fds
    BY SocketFacts, TypeFacts
  <2>2. CASE p = app.obj
    BY <1>1, <2>1, <2>2 DEF Close, Closed
  <2>3. CASE p # app.obj /\ socket_fd[p] # socket_fd[app.obj]
    BY <1>1, <2>1, <2>3 DEF Sockets, Close, Closed, Own, Stale, LastRun
  <2>4. CASE p # app.obj /\ socket_fd[p] = socket_fd[app.obj]
    <3>1. Closed(app.obj) \/ Own(app.obj)
      BY <1>1, <2>1, <2>4 DEF Sockets, Stale, InStop
    <3>2. thread[p] = "forget"
      BY <1>1, <2>1, <2>4, <3>1, CloseKeeps DEF Sockets, Closed, Own, LastRun, Stale
    <3>. QED  BY <1>1, <2>1, <2>4, <3>2 DEF Close, Closed
  <2>. QED  BY <2>2, <2>3, <2>4
<1>. QED  BY <1>1, <1>2, <1>3, <1>4, <1>5

LEMMA StopForgetKeeps ==
  ASSUME SessionInv, StopForget PROVE SessionInv'
<1>. USE DEF SessionInv, Stay
<1>1. /\ BaseInv' /\ app.at = "forget" /\ Stay("join")
      /\ socket_fd' = [socket_fd EXCEPT ![app.obj] = NoFd]
      /\ UNCHANGED <<running, thread, desc, made, granted>>
  BY StopForgetDoes
<1>2. app.obj \in Objects /\ socket_fd \in [Objects -> Fds \cup {NoFd}]
  BY TypeFacts DEF BaseInv, Typed
<1>3. Made' /\ Setup' /\ Quiet'
  BY <1>1 DEF Made, Setup, Quiet
<1>4. Joined'
  BY <1>1, <1>2 DEF Joined, InRun
<1>5. FlagTold'
  BY <1>1 DEF FlagTold, InStop
<1>6. Sockets'
  BY <1>1, <1>2 DEF Sockets, Closed, Own, Stale, LastRun, InStop
<1>7. Accounted'
  <2>. SUFFICES ASSUME NEW f \in Fds, desc[f] # Free
                PROVE  f = app'.fd \/ socket_fd'[made[desc[f]]] = f
    BY <1>1 DEF Accounted
  <2>1. f = app.fd \/ socket_fd[made[desc[f]]] = f
    BY DEF Accounted
  <2>2. f # NoFd /\ made[desc[f]] \in Objects
    BY TypeFacts DEF Made
  <2>3. socket_fd[app.obj] # NoFd => desc[socket_fd[app.obj]] = Free
    BY <1>1, <1>2 DEF Sockets, Closed, Own, Stale, InStop
  <2>. QED  BY <1>1, <1>2, <2>1, <2>2, <2>3
<1>. QED  BY <1>1, <1>3, <1>4, <1>5, <1>6, <1>7

LEMMA JoinKeeps ==
  ASSUME SessionInv, Join PROVE SessionInv'
<1>. USE DEF SessionInv, Stay
<1>1. /\ BaseInv' /\ app.at = "join"
      /\ IF app.call = "run" THEN Stay("connect") ELSE Stay("idle")
      /\ thread[app.obj] \in {"none", "done"}
      /\ thread' = [thread EXCEPT ![app.obj] = "none"]
      /\ UNCHANGED <<running, socket_fd, desc, made, granted>>
  BY JoinDoes
<1>2. app.obj \in Objects /\ thread'[app.obj] = "none"
      /\ \A o \in Objects : o # app.obj => thread'[o] = thread[o]
  BY <1>1, TypeFacts DEF BaseInv, Typed
<1>3. Made' /\ Setup' /\ Accounted' /\ Quiet'
  BY <1>1, <1>2 DEF Made, Setup, Accounted, Quiet
<1>4. Joined'
  BY <1>1, <1>2 DEF Joined
<1>5. FlagTold'
  BY <1>1, <1>2 DEF FlagTold, Idle, InStop
<1>6. Sockets'
  BY <1>1, <1>2 DEF Sockets, Joined, Closed, Own, Stale, LastRun, InStop
<1>. QED  BY <1>1, <1>3, <1>4, <1>5, <1>6

LEMMA ConnectKeeps ==
  ASSUME SessionInv, Connect PROVE SessionInv'
<1>. USE DEF SessionInv
<1>1. /\ app.at = "connect" /\ BaseInv' /\ UNCHANGED <<running, socket_fd, thread, granted>>
      /\ app'.obj = app.obj /\ app'.call = app.call /\ app.call = "run" /\ app.fd = NoFd
  BY ConnectDoes DEF object, BaseInv, Locals, InRun
<1>2. CASE Stay("idle") /\ UNCHANGED <<desc, made>>
  <2>1. Made' /\ Setup' /\ Joined' /\ Accounted' /\ Quiet'
    BY <1>1, <1>2 DEF Made, Setup, Joined, Accounted, Quiet, InRun, Stay
  <2>2. FlagTold'
    BY <1>1, <1>2 DEF FlagTold, InStop, Stay
  <2>3. Sockets'
    BY <1>1, <1>2 DEF Sockets, Closed, Own, Stale, LastRun, InStop, Stay
  <2>. QED  BY <1>1, <2>1, <2>2, <2>3
<1>3. ASSUME NEW f \in Fds, desc[f] = Free, desc' = [desc EXCEPT ![f] = Len(made) + 1],
             made' = Append(made, app.obj), app'.at = "poll", app'.fd = f
      PROVE  SessionInv'
  <2>1. /\ made \in Seq(Objects) /\ app.obj \in Objects /\ Len(made) \in Nat
        /\ DOMAIN made = 1..Len(made) /\ desc \in [Fds -> Runs \cup {Free}]
    BY TypeFacts DEF BaseInv, Typed
  <2>2. /\ Len(made') = Len(made) + 1 /\ DOMAIN made' = 1..(Len(made) + 1)
        /\ \A n \in DOMAIN made : made'[n] = made[n]
        /\ made'[Len(made) + 1] = app.obj
    BY <1>3, <2>1, AppendProperties, LenProperties
  <2>3. /\ desc'[f] = Len(made) + 1 /\ desc'[f] # Free
        /\ \A g \in Fds : g # f => desc'[g] = desc[g]
    BY <1>3, <2>1 DEF Free
  <2>4. Made'
    BY <2>1, <2>2, <2>3 DEF Made
  <2>5. Setup'
    BY <1>1, <1>3, <2>1, <2>2, <2>3 DEF Setup
  <2>6. Joined' /\ Quiet'
    BY <1>1, <1>3 DEF Joined, Quiet, InRun
  <2>7. FlagTold'
    BY <1>1, <1>3 DEF FlagTold, InStop
  <2>8. Accounted'
    <3>. SUFFICES ASSUME NEW g \in Fds, desc'[g] # Free, g # f
                  PROVE  socket_fd'[made'[desc'[g]]] = g
      BY <1>3 DEF Accounted
    <3>1. desc[g] # Free /\ desc[g] \in DOMAIN made /\ g # NoFd
      BY <2>3, TypeFacts DEF Made
    <3>. QED  BY <1>1, <2>2, <2>3, <3>1 DEF Accounted
  <2>9. Sockets'
    <3>. SUFFICES ASSUME NEW p \in Objects, socket_fd[p] # NoFd
                  PROVE  (Closed(p) \/ Own(p) \/ Stale(p))'
      BY <1>1 DEF Sockets
    <3>1. socket_fd[p] \in Fds /\ p # app.obj
      BY <1>1, SocketFacts DEF Joined, InRun
    <3>2. CASE socket_fd[p] = f
      <4>1. thread[p] = "forget"
        BY <1>1, <1>3, <3>1, <3>2 DEF Sockets, Closed, Own, Stale
      <4>. QED  BY <1>1, <1>3, <2>2, <2>3, <3>1, <3>2, <4>1 DEF Stale
    <3>3. CASE socket_fd[p] # f /\ Closed(p)
      BY <1>1, <1>3, <2>3, <3>1, <3>3 DEF Closed
    <3>4. CASE socket_fd[p] # f /\ Own(p)
      <4>1. LastRun(p, desc[socket_fd[p]])'
        BY <1>1, <2>1, <2>2, <2>3, <3>1, <3>4 DEF Own, LastRun, Made
      <4>. QED  BY <1>1, <1>3, <2>3, <3>1, <3>4, <4>1 DEF Own
    <3>5. CASE socket_fd[p] # f /\ Stale(p)
      BY <1>1, <1>3, <2>2, <2>3, <3>1, <3>5 DEF Stale, Made, InStop
    <3>. QED  BY <3>2, <3>3, <3>4, <3>5 DEF Sockets
  <2>. QED  BY <1>1, <2>4, <2>5, <2>6, <2>7, <2>8, <2>9
<1>. QED  BY <1>2, <1>3, ConnectDoes

LEMMA AwaitKeeps ==
  ASSUME SessionInv, GiveUp \/ Unanswered \/ \E n \in Runs : Refused(n)
  PROVE  SessionInv'
<1>. USE DEF SessionInv
<1>1. /\ BaseInv' /\ app.at = "poll" /\ app'.at \in {"poll", "decide"}
      /\ app'.obj = app.obj /\ app'.call = app.call /\ app'.fd = app.fd
      /\ app'.at = "decide" => app'.timeout < 0
      /\ UNCHANGED <<running, socket_fd, thread, desc, made, granted>>
  BY AwaitDoes DEF object
<1>2. app'.at = "decide" => TimedOut'
  <2>1. app'.timeout \in Int
    BY <1>1, SessionAssumption DEF BaseInv, Typed, AppType
  <2>. QED  BY <1>1, <2>1 DEF TimedOut
<1>3. Made' /\ Setup' /\ Joined' /\ Accounted' /\ Quiet'
  BY <1>1, <1>2 DEF Made, Setup, Joined, Accounted, Quiet, InRun
<1>4. FlagTold'
  BY <1>1 DEF FlagTold, InStop
<1>5. Sockets'
  BY <1>1 DEF Sockets, Closed, Own, Stale, LastRun, InStop
<1>. QED  BY <1>1, <1>3, <1>4, <1>5

LEMMA AcceptedKeeps ==
  ASSUME SessionInv, NEW n \in Runs, Accepted(n) PROVE SessionInv'
<1>. USE DEF SessionInv
<1>1. /\ BaseInv' /\ app.at = "poll" /\ app'.at = "decide" /\ n = desc[app.fd]
      /\ app'.obj = app.obj /\ app'.call = app.call /\ app'.fd = app.fd
      /\ granted' = granted \cup {n} /\ UNCHANGED <<running, socket_fd, thread, desc, made>>
  BY AcceptedDoes DEF object
<1>2. Made' /\ Setup' /\ Joined' /\ Accounted' /\ Quiet'
  BY <1>1 DEF Made, Setup, Joined, Accounted, Quiet, InRun
<1>3. FlagTold'
  BY <1>1 DEF FlagTold, InStop
<1>4. Sockets'
  BY <1>1 DEF Sockets, Closed, Own, Stale, LastRun, InStop
<1>. QED  BY <1>1, <1>2, <1>3, <1>4

LEMMA FailKeeps ==
  ASSUME SessionInv, DecideFailed \/ \E n \in Runs : HungUp(n) \/ GreetFails(n)
  PROVE  SessionInv'
<1>. USE DEF SessionInv
<1>1. /\ BaseInv' /\ app.at \in {"poll", "decide"} /\ app'.at = "idle"
      /\ app'.obj = app.obj /\ app'.call = "run" /\ app'.fd = NoFd
      /\ Close(app.fd) /\ granted \subseteq granted'
      /\ UNCHANGED <<running, socket_fd, thread, made>>
  BY FailDoes DEF object, BaseInv, Locals, InRun
<1>2. Made' /\ Accounted'
  BY <1>1 DEF Close, Made, Accounted
<1>3. Setup' /\ Joined' /\ Quiet'
  BY <1>1 DEF Setup, Joined, Quiet, InRun
<1>4. FlagTold'
  BY <1>1 DEF FlagTold, InStop
<1>5. Sockets'
  <2>. SUFFICES ASSUME NEW p \in Objects, socket_fd[p] # NoFd
                PROVE  (Closed(p) \/ Own(p) \/ Stale(p))'
    BY <1>1 DEF Sockets
  <2>1. socket_fd[p] \in Fds /\ p # app.obj /\ app.fd \in Fds
    BY <1>1, SocketFacts, TypeFacts DEF Joined, InRun, BaseInv, Locals
  <2>2. CASE socket_fd[p] # app.fd
    BY <1>1, <2>1, <2>2 DEF Sockets, Close, Closed, Own, Stale, LastRun, InStop
  <2>3. CASE socket_fd[p] = app.fd
    <3>1. thread[p] = "forget"
      BY <1>1, <2>1, <2>3, TypeFacts, CloseKeeps DEF Setup, Free
    <3>. QED  BY <1>1, <2>1, <2>3, <3>1 DEF Close, Closed
  <2>. QED  BY <2>2, <2>3
<1>. QED  BY <1>1, <1>2, <1>3, <1>4, <1>5

LEMMA StartedKeeps ==
  ASSUME SessionInv, DecideStarted PROVE SessionInv'
<1>. USE DEF SessionInv
<1>1. /\ BaseInv' /\ app.at = "decide" /\ ~TimedOut /\ app'.at = "idle"
      /\ app'.obj = app.obj /\ app'.call = "run" /\ app'.fd = NoFd
      /\ socket_fd' = [socket_fd EXCEPT ![app.obj] = app.fd]
      /\ thread' = [thread EXCEPT ![app.obj] = "begin"]
      /\ UNCHANGED <<running, desc, made, granted>>
  BY StartedDoes DEF BaseInv, Locals, InRun
<1>2. /\ app.obj \in Objects /\ app.fd \in Fds /\ thread[app.obj] = "none"
      /\ desc[app.fd] = Len(made) /\ Len(made) \in Nat \ {0}
      /\ made[Len(made)] = app.obj /\ Len(made) \in granted
      /\ DOMAIN made = 1..Len(made)
  BY <1>1, TypeFacts DEF Setup, Joined, InRun, BaseInv, Locals
<1>3. /\ thread'[app.obj] = "begin" /\ socket_fd'[app.obj] = app.fd
      /\ \A o \in Objects : o # app.obj => /\ thread'[o] = thread[o]
                                          /\ socket_fd'[o] = socket_fd[o]
  BY <1>1, <1>2 DEF BaseInv, Typed
<1>4. Made' /\ Setup' /\ Quiet'
  BY <1>1 DEF Made, Setup, Quiet
<1>5. Joined'
  BY <1>1, <1>3 DEF Joined, InRun
<1>6. FlagTold'
  BY <1>1, <1>2, <1>3 DEF FlagTold, Idle, InStop
<1>7. Accounted'
  <2>. SUFFICES ASSUME NEW f \in Fds, desc[f] # Free
                PROVE  socket_fd'[made[desc[f]]] = f
    BY <1>1 DEF Accounted
  <2>1. made[desc[f]] \in Objects
    BY TypeFacts DEF Made
  <2>2. f = app.fd \/ socket_fd[made[desc[f]]] = f
    BY DEF Accounted
  <2>3. f # NoFd /\ socket_fd[app.obj] = NoFd
    BY <1>2, TypeFacts DEF Joined
  <2>. QED  BY <1>2, <1>3, <2>1, <2>2, <2>3
<1>8. Sockets'
  <2>. SUFFICES ASSUME NEW p \in Objects, socket_fd'[p] # NoFd
                PROVE  (Closed(p) \/ Own(p) \/ Stale(p))'
    BY DEF Sockets
  <2>1. CASE p = app.obj
    <3>1. LastRun(p, Len(made))'
      BY <1>1, <1>2, <2>1 DEF LastRun
    <3>. QED  BY <1>1, <1>2, <1>3, <2>1, <3>1 DEF Own, Free
  <2>2. CASE p # app.obj
    BY <1>1, <1>3, <2>2 DEF Sockets, Closed, Own, Stale, LastRun, InStop
  <2>. QED  BY <2>1, <2>2
<1>. QED  BY <1>1, <1>4, <1>5, <1>6, <1>7, <1>8

(* The steps of a service thread.                                          *)
LEMMA MovesKeeps ==
  ASSUME SessionInv, NEW o \in Objects, Moves(o) PROVE SessionInv'
<1>. USE DEF SessionInv, Moved
<1>1. PICK at \in {"none", "done"} \cup Live : Moved(o, at)
  BY MovesDoes
<1>2. /\ BaseInv' /\ thread'[o] = at
      /\ \A p \in Objects : p # o => thread'[p] = thread[p]
      /\ UNCHANGED <<running, socket_fd, app, desc, made, granted>>
  BY <1>1, MovesDoes DEF BaseInv, Typed
<1>3. Made' /\ Setup' /\ Accounted'
  BY <1>2 DEF Made, Setup, TimedOut, Accounted
<1>4. Joined' /\ Quiet'
  BY <1>1, <1>2 DEF Joined, Quiet
<1>5. FlagTold'
  BY <1>1, <1>2 DEF FlagTold, Idle
<1>6. Sockets'
  BY <1>1, <1>2 DEF Sockets, Closed, Own, Stale, LastRun
<1>. QED  BY <1>2, <1>3, <1>4, <1>5, <1>6

LEMMA BeginKeeps ==
  ASSUME SessionInv, NEW o \in Objects, Begin(o) PROVE SessionInv'
<1>. USE DEF SessionInv
<1>1. /\ BaseInv' /\ thread[o] = "begin" /\ thread'[o] = "loop" /\ running'[o]
      /\ \A p \in Objects : p # o => thread'[p] = thread[p] /\ running'[p] = running[p]
      /\ UNCHANGED <<socket_fd, app, desc, made, granted>>
  BY BeginDoes DEF BaseInv, Typed
<1>2. Made' /\ Setup' /\ Accounted'
  BY <1>1 DEF Made, Setup, TimedOut, Accounted
<1>3. Joined' /\ Quiet'
  BY <1>1, TypeFacts DEF Joined, Quiet
<1>4. FlagTold'
  BY <1>1 DEF FlagTold, Idle
<1>5. Sockets'
  BY <1>1 DEF Sockets, Closed, Own, Stale, LastRun
<1>. QED  BY <1>1, <1>2, <1>3, <1>4, <1>5

LEMMA EndKeeps ==
  ASSUME SessionInv, NEW o \in Objects, End(o) PROVE SessionInv'
<1>. USE DEF SessionInv
<1>1. /\ BaseInv' /\ thread[o] = "end" /\ thread'[o] = "done" /\ ~running'[o]
      /\ \A p \in Objects : p # o => thread'[p] = thread[p] /\ running'[p] = running[p]
      /\ UNCHANGED <<socket_fd, app, desc, made, granted>>
  BY EndDoes DEF BaseInv, Typed
<1>2. Made' /\ Setup' /\ Accounted'
  BY <1>1 DEF Made, Setup, TimedOut, Accounted
<1>3. Joined' /\ Quiet'
  BY <1>1, TypeFacts DEF Joined, Quiet
<1>4. FlagTold'
  BY <1>1 DEF FlagTold, Idle
<1>5. Sockets'
  BY <1>1 DEF Sockets, Closed, Own, Stale, LastRun
<1>. QED  BY <1>1, <1>2, <1>3, <1>4, <1>5

LEMMA LeaveCloseKeeps ==
  ASSUME SessionInv, NEW o \in Objects, LeaveClose(o) PROVE SessionInv'
<1>. USE DEF SessionInv
<1>1. /\ BaseInv' /\ thread[o] = "close" /\ thread'[o] = "forget" /\ Close(socket_fd[o])
      /\ \A p \in Objects : p # o => thread'[p] = thread[p]
      /\ UNCHANGED <<running, socket_fd, app, made, granted>>
  BY LeaveCloseDoes DEF BaseInv, Typed
<1>2. Made' /\ Accounted'
  BY <1>1 DEF Close, Made, Accounted
<1>3. Joined' /\ Quiet'
  BY <1>1, TypeFacts DEF Joined, Quiet
<1>4. FlagTold'
  BY <1>1 DEF FlagTold, Idle
<1>5. socket_fd[o] # NoFd => Closed(o) \/ Own(o)
  BY <1>1 DEF Sockets, Stale
<1>6. Setup'
  <2>. SUFFICES ASSUME app.at \in {"poll", "decide"} PROVE desc'[app.fd] = desc[app.fd]
    BY <1>1 DEF Setup, TimedOut
  <2>1. app.fd \in Fds /\ o # app.obj /\ desc[app.fd] # Free /\ made[desc[app.fd]] = app.obj
    BY <1>1, TypeFacts DEF Setup, Joined, InRun, BaseInv, Locals, Free
  <2>2. socket_fd[o] # app.fd
    BY <1>5, <2>1, TypeFacts DEF Own, LastRun, Closed
  <2>. QED  BY <1>1, <2>1, <2>2 DEF Close
<1>7. Sockets'
  <2>. SUFFICES ASSUME NEW p \in Objects, socket_fd[p] # NoFd
                PROVE  (Closed(p) \/ Own(p) \/ Stale(p))'
    BY <1>1 DEF Sockets
  <2>1. socket_fd[p] \in Fds
    BY SocketFacts
  <2>2. CASE p = o
    BY <1>1, <2>1, <2>2 DEF Close, Closed
  <2>3. CASE p # o /\ socket_fd[p] # socket_fd[o]
    BY <1>1, <2>1, <2>3 DEF Sockets, Close, Closed, Own, Stale, LastRun
  <2>4. CASE p # o /\ socket_fd[p] = socket_fd[o]
    <3>1. Closed(p) \/ thread[p] = "forget"
      BY <1>5, <2>1, <2>4, CloseKeeps DEF Sockets, Closed, Own, LastRun, Stale
    <3>. QED  BY <1>1, <2>1, <2>4, <3>1 DEF Close, Closed
  <2>. QED  BY <2>2, <2>3, <2>4
<1>. QED  BY <1>1, <1>2, <1>3, <1>4, <1>6, <1>7

LEMMA LeaveForgetKeeps ==
  ASSUME SessionInv, NEW o \in Objects, LeaveForget(o) PROVE SessionInv'
<1>. USE DEF SessionInv
<1>1. /\ BaseInv' /\ thread[o] = "forget" /\ thread'[o] = "end" /\ socket_fd'[o] = NoFd
      /\ \A p \in Objects : p # o => thread'[p] = thread[p] /\ socket_fd'[p] = socket_fd[p]
      /\ UNCHANGED <<running, app, desc, made, granted>>
  BY LeaveForgetDoes DEF BaseInv, Typed
<1>2. Made' /\ Setup'
  BY <1>1 DEF Made, Setup, TimedOut
<1>3. Joined' /\ Quiet'
  BY <1>1, TypeFacts DEF Joined, Quiet
<1>4. FlagTold'
  BY <1>1 DEF FlagTold, Idle
<1>5. Accounted'
  <2>. SUFFICES ASSUME NEW f \in Fds, desc[f] # Free
                PROVE  f = app.fd \/ socket_fd'[made[desc[f]]] = f
    BY <1>1 DEF Accounted
  <2>1. f # NoFd /\ made[desc[f]] \in Objects
    BY TypeFacts DEF Made
  <2>2. socket_fd[o] = f => made[desc[f]] # o
    BY <1>1, <2>1 DEF Sockets, Closed, Own, Stale
  <2>. QED  BY <1>1, <2>1, <2>2 DEF Accounted
<1>6. Sockets'
  BY <1>1 DEF Sockets, Closed, Own, Stale, LastRun
<1>. QED  BY <1>1, <1>2, <1>3, <1>4, <1>5, <1>6

-----------------------------------------------------------------------------
(* What is left of the application's thread and of a service thread once   *)
(* the calls are taken away, and what that keeps.                          *)
AppSteps ==
  Stop \/ Connect \/ Await \/ Decide \/ \E n \in Runs : Accepted(n) \/ GreetFails(n)

ThreadSteps(o) == Begin(o) \/ Moves(o) \/ LeaveClose(o) \/ LeaveForget(o) \/ End(o)

LEMMA SessionKeeps ==
  ASSUME SessionInv,
         \/ Caster \/ AppSteps \/ UNCHANGED sessionVars
         \/ \E o \in Objects : ThreadSteps(o)
  PROVE  SessionInv'
<1>1. CASE Stop
  BY <1>1, StopFlagKeeps, StopCheckKeeps, StopCloseKeeps, StopForgetKeeps, JoinKeeps DEF Stop
<1>2. CASE Connect \/ Await \/ Decide \/ \E n \in Runs : Accepted(n) \/ GreetFails(n)
  BY <1>2, ConnectKeeps, AwaitKeeps, AcceptedKeeps, FailKeeps, StartedKeeps
  DEF Await, Decide
<1>3. ASSUME NEW o \in Objects, ThreadSteps(o) PROVE SessionInv'
  BY <1>3, BeginKeeps, MovesKeeps, LeaveCloseKeeps, LeaveForgetKeeps, EndKeeps
  DEF ThreadSteps
<1>4. CASE UNCHANGED sessionVars
  BY <1>4 DEF sessionVars, SessionInv, BaseInv, Typed, AppType, Locals, Made, Setup,
              TimedOut, Joined, FlagTold, Sockets, Closed, Own, Stale, LastRun, Accounted,
              Quiet
<1>. QED  BY <1>1, <1>2, <1>3, <1>4, CasterKeeps DEF AppSteps

(* Nothing is open at first, and nothing runs.                             *)
LEMMA SessionInit == Init => SessionInv
<1>. SUFFICES ASSUME Init PROVE SessionInv
  OBVIOUS
<1>1. PICK o \in Objects :
        app = [at |-> "idle", obj |-> o, call |-> "stop", fd |-> NoFd, timeout |-> 0]
  BY DEF Init
<1>2. AppType
  <2>1. 0 \in -1..Polls
    BY SessionAssumption
  <2>. QED  BY <1>1, <2>1 DEF AppType, AppAt
<1>3. made \in Seq(Objects) /\ Len(made) = 0 /\ <<>> \in Seq(Chunks)
  BY EmptySeq DEF Init
<1>4. Typed
  <2>1. /\ running \in [Objects -> BOOLEAN] /\ socket_fd \in [Objects -> Fds \cup {NoFd}]
        /\ thread \in [Objects -> {"none", "done"} \cup Live]
        /\ desc \in [Fds -> Runs \cup {Free}]
    BY DEF Init
  <2>2. /\ inbox \in [Runs -> Seq(Chunks)]
        /\ peer \in [Runs -> {"new", "ok", "no", "fin", "rst"}] /\ granted \subseteq Runs
    BY <1>3 DEF Init
  <2>. QED  BY <1>2, <1>3, <2>1, <2>2, SessionAssumption DEF Typed
<1>5. Locals
  BY <1>1 DEF Locals, InRun, InStop
<1>6. Made /\ Setup /\ Accounted
  BY <1>1 DEF Init, Made, Setup, Accounted
<1>7. Joined /\ FlagTold /\ Sockets /\ Quiet
  BY <1>1 DEF Init, Joined, FlagTold, Sockets, Quiet, InRun, Idle
<1>. QED  BY <1>4, <1>5, <1>6, <1>7 DEF SessionInv, BaseInv

-----------------------------------------------------------------------------
(* What no call can break, also one that meets a stale number: a thread or *)
(* a Stop may then close what is not its object's, but nobody forgets what *)
(* is open, and nothing is started that is not joined.                     *)

(* The connection Run sets up is the last one, or another object has       *)
(* closed its number.                                                      *)
SetupOrLost ==
  app.at \in {"poll", "decide"} =>
    /\ desc[app.fd] \in {Free, Len(made)} /\ Len(made) # 0
    /\ made[Len(made)] = app.obj

FlagOff == \A o \in Objects : thread[o] \in Idle => ~running[o]

(* Who is about to reset a socket_fd_ leaves nothing of the object open.   *)
ForgetsClosed ==
  \A o \in Objects : thread[o] = "forget" \/ (app.obj = o /\ app.at = "forget") =>
    \A f \in Fds : desc[f] # Free => made[desc[f]] # o

SturdyInv ==
  BaseInv /\ Made /\ SetupOrLost /\ Joined /\ FlagOff /\ Accounted /\ ForgetsClosed /\ Quiet

(* Closing a descriptor leaves what is said of open ones true.             *)
LEMMA CloseSturdy ==
  ASSUME SturdyInv, NEW f, Close(f), UNCHANGED <<socket_fd, made>>
  PROVE  /\ Made' /\ \A g \in Fds : desc'[g] # Free => desc'[g] = desc[g]
         /\ UNCHANGED app => Accounted' /\ SetupOrLost'
<1>1. \A g \in Fds : desc'[g] # Free => desc'[g] = desc[g]
  BY DEF Close, SturdyInv, BaseInv, Typed
<1>2. \A g \in Fds : desc'[g] \in {Free, desc[g]}
  BY DEF Close, SturdyInv, BaseInv, Typed
<1>3. Made'
  BY <1>1 DEF Made, SturdyInv
<1>4. ASSUME UNCHANGED app PROVE Accounted'
  BY <1>1, <1>4 DEF Accounted, SturdyInv
<1>5. ASSUME UNCHANGED app PROVE SetupOrLost'
  <2>. SUFFICES ASSUME app.at \in {"poll", "decide"} PROVE desc'[app.fd] \in {Free, Len(made)}
    BY <1>5 DEF SetupOrLost, SturdyInv
  <2>1. app.fd \in Fds
    BY TypeFacts DEF SturdyInv, BaseInv, Locals
  <2>. QED  BY <1>2, <2>1 DEF SetupOrLost, SturdyInv
<1>. QED  BY <1>1, <1>3, <1>4, <1>5

(* Calls, and the steps that move the application's thread only.           *)
LEMMA AppSturdy ==
  ASSUME SturdyInv,
         \/ Caster \/ UNCHANGED sessionVars \/ StopFlag \/ StopCheck
         \/ GiveUp \/ Unanswered
         \/ \E n \in Runs : Refused(n) \/ Accepted(n)
         \/ \E o \in Objects : CallStop(o) \/ CallRun(o)
  PROVE  SturdyInv'
<1>. USE DEF SturdyInv, object, Stay
<1>1. CASE Caster \/ UNCHANGED sessionVars
  <2>1. BaseInv' /\ UNCHANGED <<running, socket_fd, thread, app, desc, made>>
    BY <1>1, CasterTypes
    DEF sessionVars, BaseInv, Typed, AppType, Locals
  <2>. QED
    BY <2>1 DEF Made, SetupOrLost, Joined, FlagOff, Accounted, ForgetsClosed, Quiet
<1>2. CASE StopFlag
  <2>1. /\ BaseInv' /\ app.at = "stop" /\ Stay("check")
        /\ running' = [running EXCEPT ![app.obj] = FALSE]
        /\ UNCHANGED <<socket_fd, thread, desc, made>>
    BY <1>2, StopFlagDoes
  <2>2. FlagOff'
    BY <2>1 DEF FlagOff, BaseInv, Typed
  <2>. QED
    BY <2>1, <2>2 DEF Made, SetupOrLost, Joined, Accounted, ForgetsClosed, Quiet, InRun
<1>3. CASE StopCheck
  <2>1. /\ BaseInv' /\ app.at = "check"
        /\ IF socket_fd[app.obj] # NoFd THEN Stay("close") ELSE Stay("join")
        /\ UNCHANGED <<running, socket_fd, thread, desc, made>>
    BY <1>3, StopCheckDoes
  <2>. QED
    BY <2>1 DEF Made, SetupOrLost, Joined, FlagOff, Accounted, ForgetsClosed, Quiet, InRun
<1>4. CASE GiveUp \/ Unanswered \/ \E n \in Runs : Refused(n) \/ Accepted(n)
  <2>1. /\ BaseInv' /\ app.at = "poll" /\ app'.at \in {"poll", "decide"}
        /\ app'.obj = app.obj /\ app'.fd = app.fd
        /\ UNCHANGED <<running, socket_fd, thread, desc, made>>
    BY <1>4, AwaitDoes, AcceptedDoes
  <2>. QED
    BY <2>1 DEF Made, SetupOrLost, Joined, FlagOff, Accounted, ForgetsClosed, Quiet, InRun
<1>5. ASSUME NEW o \in Objects, CallStop(o) \/ CallRun(o) PROVE SturdyInv'
  <2>1. /\ BaseInv' /\ app.at = "idle" /\ app'.obj = o /\ app'.fd = app.fd
        /\ app'.at \in {"idle", "stop"} /\ (app'.at = "idle" => app'.call = "run")
        /\ UNCHANGED <<running, socket_fd, thread, desc, made>>
    BY <1>5, CallDoes
  <2>. QED
    BY <2>1 DEF Made, SetupOrLost, Joined, FlagOff, Accounted, ForgetsClosed, Quiet, InRun
<1>. QED  BY <1>1, <1>2, <1>3, <1>4, <1>5

(* What Stop closes was all that its object had open.                      *)
LEMMA StopCloseSturdy ==
  ASSUME SturdyInv, StopClose PROVE SturdyInv'
<1>. USE DEF SturdyInv, Stay
<1>1. /\ BaseInv' /\ app.at = "close" /\ Stay("forget") /\ Close(socket_fd[app.obj])
      /\ app.fd = NoFd /\ UNCHANGED <<running, socket_fd, thread, made>>
  BY StopCloseDoes DEF object, BaseInv, Locals
<1>2. Made' /\ \A g \in Fds : desc'[g] # Free => desc'[g] = desc[g]
  BY <1>1, CloseSturdy
<1>3. Accounted'
  BY <1>1, <1>2 DEF Accounted
<1>4. SetupOrLost' /\ Joined' /\ FlagOff' /\ Quiet'
  BY <1>1 DEF SetupOrLost, Joined, FlagOff, Quiet, InRun
<1>5. ForgetsClosed'
  <2>. SUFFICES ASSUME NEW g \in Fds, desc'[g] # Free PROVE made[desc'[g]] # app.obj
    BY <1>1, <1>2 DEF ForgetsClosed
  <2>1. g # NoFd /\ g # socket_fd[app.obj]
    BY <1>1, TypeFacts DEF Close
  <2>. QED  BY <1>1, <1>2, <2>1 DEF Accounted
<1>. QED  BY <1>1, <1>2, <1>3, <1>4, <1>5

LEMMA StopForgetSturdy ==
  ASSUME SturdyInv, StopForget PROVE SturdyInv'
<1>. USE DEF SturdyInv, Stay
<1>1. /\ BaseInv' /\ app.at = "forget" /\ Stay("join")
      /\ socket_fd' = [socket_fd EXCEPT ![app.obj] = NoFd]
      /\ UNCHANGED <<running, thread, desc, made>>
  BY StopForgetDoes
<1>2. app.obj \in Objects /\ socket_fd \in [Objects -> Fds \cup {NoFd}]
  BY TypeFacts DEF BaseInv, Typed
<1>3. Made' /\ SetupOrLost' /\ FlagOff' /\ ForgetsClosed' /\ Quiet'
  BY <1>1 DEF Made, SetupOrLost, FlagOff, ForgetsClosed, Quiet
<1>4. Joined'
  BY <1>1, <1>2 DEF Joined, InRun
<1>5. Accounted'
  <2>1. \A f \in Fds : desc[f] # Free => made[desc[f]] \in Objects \ {app.obj}
    BY <1>1, <1>2, TypeFacts DEF ForgetsClosed, Made
  <2>. QED  BY <1>1, <1>2, <2>1 DEF Accounted
<1>. QED  BY <1>1, <1>3, <1>4, <1>5

LEMMA JoinSturdy ==
  ASSUME SturdyInv, Join PROVE SturdyInv'
<1>. USE DEF SturdyInv, Stay
<1>1. /\ BaseInv' /\ app.at = "join"
      /\ IF app.call = "run" THEN Stay("connect") ELSE Stay("idle")
      /\ thread[app.obj] \in {"none", "done"}
      /\ thread' = [thread EXCEPT ![app.obj] = "none"]
      /\ UNCHANGED <<running, socket_fd, desc, made>>
  BY JoinDoes
<1>2. app.obj \in Objects /\ thread'[app.obj] = "none"
      /\ \A o \in Objects : o # app.obj => thread'[o] = thread[o]
  BY <1>1, TypeFacts DEF BaseInv, Typed
<1>3. Made' /\ SetupOrLost' /\ Accounted' /\ Quiet' /\ ForgetsClosed'
  BY <1>1, <1>2 DEF Made, SetupOrLost, Accounted, Quiet, ForgetsClosed
<1>4. Joined' /\ FlagOff'
  BY <1>1, <1>2 DEF Joined, FlagOff, Idle
<1>. QED  BY <1>1, <1>3, <1>4

LEMMA ConnectSturdy ==
  ASSUME SturdyInv, Connect PROVE SturdyInv'
<1>. USE DEF SturdyInv
<1>1. /\ app.at = "connect" /\ BaseInv' /\ UNCHANGED <<running, socket_fd, thread>>
      /\ app'.obj = app.obj /\ app'.call = app.call /\ app.call = "run" /\ app.fd = NoFd
  BY ConnectDoes DEF object, BaseInv, Locals, InRun
<1>2. CASE Stay("idle") /\ UNCHANGED <<desc, made>>
  BY <1>1, <1>2
  DEF Made, SetupOrLost, Joined, FlagOff, Accounted, ForgetsClosed, Quiet, InRun, Stay
<1>3. ASSUME NEW f \in Fds, desc[f] = Free, desc' = [desc EXCEPT ![f] = Len(made) + 1],
             made' = Append(made, app.obj), app'.at = "poll", app'.fd = f
      PROVE  SturdyInv'
  <2>1. /\ made \in Seq(Objects) /\ app.obj \in Objects /\ Len(made) \in Nat
        /\ DOMAIN made = 1..Len(made) /\ desc \in [Fds -> Runs \cup {Free}]
    BY TypeFacts DEF BaseInv, Typed
  <2>2. /\ Len(made') = Len(made) + 1 /\ DOMAIN made' = 1..(Len(made) + 1)
        /\ \A n \in DOMAIN made : made'[n] = made[n]
        /\ made'[Len(made) + 1] = app.obj
    BY <1>3, <2>1, AppendProperties, LenProperties
  <2>3. /\ desc'[f] = Len(made) + 1 /\ desc'[f] # Free
        /\ \A g \in Fds : g # f => desc'[g] = desc[g]
    BY <1>3, <2>1 DEF Free
  <2>4. Made'
    BY <2>1, <2>2, <2>3 DEF Made
  <2>5. SetupOrLost'
    BY <1>1, <1>3, <2>1, <2>2, <2>3 DEF SetupOrLost
  <2>6. Joined' /\ FlagOff' /\ Quiet'
    BY <1>1, <1>3 DEF Joined, FlagOff, Quiet, InRun
  <2>7. \A g \in Fds : g # f /\ desc'[g] # Free =>
          made'[desc'[g]] = made[desc[g]] /\ desc[g] # Free /\ g # NoFd
    BY <2>2, <2>3, TypeFacts DEF Made
  <2>8. Accounted'
    BY <1>1, <1>3, <2>7 DEF Accounted
  <2>9. ForgetsClosed'
    <3>. SUFFICES ASSUME NEW p \in Objects, thread[p] = "forget",
                         NEW g \in Fds, desc'[g] # Free
                  PROVE  made'[desc'[g]] # p
      BY <1>1, <1>3 DEF ForgetsClosed
    <3>1. thread[app.obj] = "none"
      BY <1>1, <2>1 DEF Joined, InRun
    <3>. QED  BY <2>2, <2>3, <2>7, <3>1 DEF ForgetsClosed
  <2>. QED  BY <1>1, <2>4, <2>5, <2>6, <2>8, <2>9
<1>. QED  BY <1>2, <1>3, ConnectDoes

LEMMA FailSturdy ==
  ASSUME SturdyInv, DecideFailed \/ \E n \in Runs : HungUp(n) \/ GreetFails(n)
  PROVE  SturdyInv'
<1>. USE DEF SturdyInv
<1>1. /\ BaseInv' /\ app.at \in {"poll", "decide"} /\ app'.at = "idle"
      /\ app'.obj = app.obj /\ app'.call = "run" /\ app'.fd = NoFd
      /\ Close(app.fd) /\ UNCHANGED <<running, socket_fd, thread, made>>
  BY FailDoes DEF object, BaseInv, Locals, InRun
<1>2. Made' /\ \A g \in Fds : desc'[g] # Free => desc'[g] = desc[g] /\ g # app.fd
  BY <1>1, CloseSturdy DEF Close
<1>3. Accounted'
  BY <1>1, <1>2 DEF Accounted
<1>4. SetupOrLost' /\ Joined' /\ FlagOff' /\ Quiet'
  BY <1>1 DEF SetupOrLost, Joined, FlagOff, Quiet, InRun
<1>5. ForgetsClosed'
  BY <1>1, <1>2 DEF ForgetsClosed
<1>. QED  BY <1>1, <1>2, <1>3, <1>4, <1>5

LEMMA StartedSturdy ==
  ASSUME SturdyInv, DecideStarted PROVE SturdyInv'
<1>. USE DEF SturdyInv
<1>1. /\ BaseInv' /\ app.at = "decide" /\ app'.at = "idle"
      /\ app'.obj = app.obj /\ app'.call = "run" /\ app'.fd = NoFd
      /\ socket_fd' = [socket_fd EXCEPT ![app.obj] = app.fd]
      /\ thread' = [thread EXCEPT ![app.obj] = "begin"]
      /\ UNCHANGED <<running, desc, made>>
  BY StartedDoes DEF BaseInv, Locals, InRun
<1>2. /\ app.obj \in Objects /\ app.fd \in Fds /\ thread[app.obj] = "none"
      /\ socket_fd[app.obj] = NoFd
  BY <1>1, TypeFacts DEF Joined, InRun, BaseInv, Locals
<1>3. /\ thread'[app.obj] = "begin" /\ socket_fd'[app.obj] = app.fd
      /\ \A o \in Objects : o # app.obj => /\ thread'[o] = thread[o]
                                          /\ socket_fd'[o] = socket_fd[o]
  BY <1>1, <1>2 DEF BaseInv, Typed
<1>4. Made' /\ SetupOrLost' /\ Quiet'
  BY <1>1 DEF Made, SetupOrLost, Quiet
<1>5. Joined' /\ FlagOff' /\ ForgetsClosed'
  BY <1>1, <1>2, <1>3 DEF Joined, FlagOff, ForgetsClosed, Idle, InRun
<1>6. Accounted'
  <2>. SUFFICES ASSUME NEW f \in Fds, desc[f] # Free
                PROVE  socket_fd'[made[desc[f]]] = f
    BY <1>1 DEF Accounted
  <2>1. made[desc[f]] \in Objects /\ f # NoFd
    BY TypeFacts DEF Made
  <2>2. CASE f = app.fd
    BY <1>1, <1>3, <2>2 DEF SetupOrLost
  <2>3. CASE f # app.fd
    BY <1>2, <1>3, <2>1, <2>3 DEF Accounted
  <2>. QED  BY <2>2, <2>3
<1>. QED  BY <1>1, <1>4, <1>5, <1>6

(* The steps of a service thread.                                          *)
LEMMA ThreadSturdy ==
  ASSUME SturdyInv, NEW o \in Objects, Begin(o) \/ Moves(o) \/ End(o) PROVE SturdyInv'
<1>. USE DEF SturdyInv
<1>1. /\ BaseInv' /\ thread[o] \notin {"none", "done", "forget"}
      /\ thread'[o] \notin {"none", "begin", "forget"}
      /\ thread'[o] \in {"end", "done"} => socket_fd[o] = NoFd
      /\ thread'[o] = "done" => ~running'[o]
      /\ \A p \in Objects : p # o => thread'[p] = thread[p] /\ running'[p] = running[p]
      /\ UNCHANGED <<socket_fd, app, desc, made>>
  <2>1. CASE Begin(o)
    BY <2>1, BeginDoes DEF BaseInv, Typed
  <2>2. CASE Moves(o)
    <3>1. PICK at \in {"none", "done"} \cup Live : Moved(o, at)
      BY <2>2, MovesDoes
    <3>. QED  BY <2>2, <3>1, MovesDoes DEF Moved, BaseInv, Typed
  <2>3. CASE End(o)
    BY <2>3, EndDoes DEF BaseInv, Typed, Joined
  <2>. QED  BY <2>1, <2>2, <2>3
<1>2. Made' /\ SetupOrLost' /\ Accounted'
  BY <1>1 DEF Made, SetupOrLost, Accounted
<1>3. Joined' /\ FlagOff' /\ ForgetsClosed' /\ Quiet'
  BY <1>1, TypeFacts DEF Joined, FlagOff, ForgetsClosed, Quiet, Idle
<1>. QED  BY <1>1, <1>2, <1>3

LEMMA LeaveCloseSturdy ==
  ASSUME SturdyInv, NEW o \in Objects, LeaveClose(o) PROVE SturdyInv'
<1>. USE DEF SturdyInv
<1>1. /\ BaseInv' /\ thread[o] = "close" /\ thread'[o] = "forget" /\ Close(socket_fd[o])
      /\ \A p \in Objects : p # o => thread'[p] = thread[p]
      /\ UNCHANGED <<running, socket_fd, app, made>>
  BY LeaveCloseDoes DEF BaseInv, Typed
<1>2. /\ Made' /\ Accounted' /\ SetupOrLost'
      /\ \A g \in Fds : desc'[g] # Free => desc'[g] = desc[g] /\ g # socket_fd[o]
  BY <1>1, CloseSturdy DEF Close
<1>3. Joined' /\ FlagOff' /\ Quiet'
  BY <1>1, TypeFacts DEF Joined, FlagOff, Quiet, Idle
<1>4. ForgetsClosed'
  <2>. SUFFICES ASSUME NEW g \in Fds, desc'[g] # Free PROVE made[desc'[g]] # o
    BY <1>1, <1>2 DEF ForgetsClosed
  <2>1. desc[g] # Free /\ desc'[g] = desc[g] /\ g # socket_fd[o] /\ g # NoFd
    BY <1>2, TypeFacts
  <2>2. CASE g = app.fd
    BY <1>1, <2>1, <2>2 DEF SetupOrLost, Joined, InRun, BaseInv, Locals
  <2>3. CASE g # app.fd
    BY <2>1, <2>3 DEF Accounted
  <2>. QED  BY <2>2, <2>3
<1>. QED  BY <1>1, <1>2, <1>3, <1>4

LEMMA LeaveForgetSturdy ==
  ASSUME SturdyInv, NEW o \in Objects, LeaveForget(o) PROVE SturdyInv'
<1>. USE DEF SturdyInv
<1>1. /\ BaseInv' /\ thread[o] = "forget" /\ thread'[o] = "end" /\ socket_fd'[o] = NoFd
      /\ \A p \in Objects : p # o => thread'[p] = thread[p] /\ socket_fd'[p] = socket_fd[p]
      /\ UNCHANGED <<running, app, desc, made>>
  BY LeaveForgetDoes DEF BaseInv, Typed
<1>2. Made' /\ SetupOrLost'
  BY <1>1 DEF Made, SetupOrLost
<1>3. Joined' /\ FlagOff' /\ ForgetsClosed' /\ Quiet'
  BY <1>1, TypeFacts DEF Joined, FlagOff, ForgetsClosed, Quiet, Idle
<1>4. Accounted'
  <2>1. \A f \in Fds : desc[f] # Free => made[desc[f]] \in Objects \ {o}
    BY <1>1, TypeFacts DEF ForgetsClosed, Made
  <2>. QED  BY <1>1, <2>1 DEF Accounted
<1>. QED  BY <1>1, <1>2, <1>3, <1>4

LEMMA SturdyKeeps ==
  ASSUME SturdyInv,
         \/ Caster \/ AppSteps \/ UNCHANGED sessionVars
         \/ \E o \in Objects : CallStop(o) \/ CallRun(o) \/ ThreadSteps(o)
  PROVE  SturdyInv'
<1>1. CASE Stop
  BY <1>1, AppSturdy, StopCloseSturdy, StopForgetSturdy, JoinSturdy DEF Stop
<1>2. CASE Connect \/ Await \/ Decide \/ \E n \in Runs : Accepted(n) \/ GreetFails(n)
  BY <1>2, AppSturdy, ConnectSturdy, FailSturdy, StartedSturdy DEF Await, Decide
<1>3. ASSUME NEW o \in Objects, ThreadSteps(o) PROVE SturdyInv'
  BY <1>3, ThreadSturdy, LeaveCloseSturdy, LeaveForgetSturdy DEF ThreadSteps
<1>. QED  BY <1>1, <1>2, <1>3, AppSturdy DEF AppSteps

(* A session that has met no stale number is sturdy.                       *)
LEMMA SessionIsSturdy == SessionInv => SturdyInv
<1>. SUFFICES ASSUME SessionInv PROVE SturdyInv
  OBVIOUS
<1>. USE DEF SessionInv
<1>1. SetupOrLost /\ FlagOff
  BY DEF Setup, SetupOrLost, FlagTold, FlagOff
<1>2. ForgetsClosed
  <2>. SUFFICES ASSUME NEW o \in Objects,
                       thread[o] = "forget" \/ (app.obj = o /\ app.at = "forget"),
                       NEW f \in Fds, desc[f] # Free, made[desc[f]] = o
                PROVE  FALSE
    BY DEF ForgetsClosed
  <2>1. f # NoFd
    BY TypeFacts
  <2>2. f # app.fd
    BY <2>1 DEF Setup, Joined, InRun, BaseInv, Locals
  <2>3. socket_fd[o] = f
    BY <2>2 DEF Accounted
  <2>. QED  BY <2>1, <2>3 DEF Sockets, Closed, Own, Stale
<1>. QED  BY <1>1, <1>2 DEF SturdyInv

-----------------------------------------------------------------------------
(* What the invariants mean.                                               *)

LEMMA SturdyMeans ==
  ASSUME SturdyInv PROVE TypeOK /\ NoLeak /\ StopIsFinal
<1>. USE DEF SturdyInv
<1>1. TypeOK
  BY TypedIsTypeOK DEF BaseInv
<1>2. NoLeak
  <2>1. \A f \in Fds : desc[f] # Free => made[desc[f]] \in Objects
    BY TypeFacts DEF Made
  <2>. QED  BY <2>1 DEF NoLeak, Accounted
<1>3. StopIsFinal
  <2>. SUFFICES ASSUME app.at = "idle", app.call = "stop"
                PROVE  /\ thread[app.obj] = "none" /\ ~running[app.obj]
                       /\ socket_fd[app.obj] = NoFd
                       /\ \A f \in Fds : desc[f] # Free => made[desc[f]] # app.obj
    BY DEF StopIsFinal
  <2>1. app.obj \in Objects /\ app.fd = NoFd
    BY TypeFacts DEF BaseInv, Locals
  <2>2. thread[app.obj] = "none" /\ ~running[app.obj] /\ socket_fd[app.obj] = NoFd
    BY <2>1 DEF Quiet, FlagOff, Idle, Joined
  <2>. QED  BY <2>1, <2>2, TypeFacts DEF Accounted
<1>. QED  BY <1>1, <1>2, <1>3

LEMMA SessionMeans ==
  ASSUME SessionInv
  PROVE  TypeOK /\ NoLeak /\ StopIsFinal /\ ThreadServesItsRun /\ ServesOnlyGranted
<1>. USE DEF SessionInv
<1>1. ThreadServesItsRun
  <2>. SUFFICES ASSUME NEW o \in Objects, thread[o] \in Live
                PROVE  /\ ~(app.obj = o /\ app.at \in InRun)
                       /\ Open(socket_fd[o]) /\ thread[o] # "forget" =>
                            LastRun(o, desc[socket_fd[o]])
    BY DEF ThreadServesItsRun
  <2>1. ~(app.obj = o /\ app.at \in InRun)
    BY DEF Joined, Live
  <2>. QED  BY <2>1 DEF Open, Sockets, Closed, Own, Stale
<1>2. ServesOnlyGranted
  BY DEF ServesOnlyGranted, Open, Sockets, Closed, Own, Stale
<1>. QED  BY <1>1, <1>2, SessionIsSturdy, SturdyMeans

-----------------------------------------------------------------------------
(* Seen from the application, every object is a link (Link): what a step   *)
(* of the session does to the five things an application can tell.         *)

Served(o) == thread[o] \in Live
Allowed(o) == Latest(o) \in granted

SameLink(o) ==
  /\ UNCHANGED <<CallOf(o), Latest(o), HeldBy(o)>>
  /\ Allowed(o)' <=> Allowed(o)
  /\ Served(o)' <=> Served(o)

LinkStep(o) ==
  \/ SameLink(o)
  \/ /\ CallOf(o) = "none" /\ CallOf(o)' \in {"run", "stop"}
     /\ UNCHANGED <<Latest(o), HeldBy(o)>>
     /\ (Allowed(o)' <=> Allowed(o)) /\ (Served(o)' <=> Served(o))
  \/ /\ CallOf(o) \in {"run", "stop"} /\ HeldBy(o) = {} /\ ~Served(o)
     /\ CallOf(o)' = "none" /\ UNCHANGED <<Latest(o), HeldBy(o)>>
     /\ (Allowed(o)' <=> Allowed(o)) /\ ~Served(o)'
  \/ /\ CallOf(o) = "run" /\ HeldBy(o) = {} /\ ~Served(o)
     /\ Latest(o)' \in Runs /\ Latest(o)' > Latest(o)
     /\ CallOf(o)' = "wait" /\ HeldBy(o)' = {Latest(o)'} /\ ~Allowed(o)' /\ ~Served(o)'
  \/ /\ CallOf(o) = "wait" /\ HeldBy(o) = {Latest(o)}
     /\ Allowed(o)' /\ UNCHANGED <<CallOf(o), Latest(o), HeldBy(o)>>
     /\ (Served(o)' <=> Served(o))
  \/ /\ CallOf(o) = "wait" /\ Allowed(o)
     /\ Served(o)' /\ CallOf(o)' = "none"
     /\ UNCHANGED <<Latest(o), HeldBy(o)>> /\ Allowed(o)'
  \/ /\ CallOf(o) = "wait" /\ CallOf(o)' = "none" /\ HeldBy(o)' = {}
     /\ \/ Allowed(o)' <=> Allowed(o)
        \/ Allowed(o)' /\ HeldBy(o) = {Latest(o)}
     /\ UNCHANGED Latest(o) /\ (Served(o)' <=> Served(o))
  \/ /\ HeldBy(o) # {} /\ HeldBy(o)' = {}
     /\ UNCHANGED <<CallOf(o), Latest(o)>>
     /\ (Allowed(o)' <=> Allowed(o)) /\ (Served(o)' <=> Served(o))
  \/ /\ Served(o) /\ HeldBy(o) = {} /\ ~Served(o)'
     /\ UNCHANGED <<CallOf(o), Latest(o), HeldBy(o)>>
     /\ (Allowed(o)' <=> Allowed(o))

(* What a link needs of the session: a Run that is to start a thread was   *)
(* answered, answers are those of connections, and every object that made  *)
(* a connection has a latest one.                                          *)
Answered == app.at = "decide" /\ ~TimedOut => Len(made) \in granted

LatestMade ==
  \A o \in Objects : MadeBy(o) = {} \/ \E n \in MadeBy(o) : LastRun(o, n)

LinkInv == SturdyInv /\ Answered /\ granted \subseteq DOMAIN made /\ LatestMade

(* The latest connection of an object, if it has one.                      *)
LEMMA LatestFacts ==
  ASSUME LinkInv, NEW o \in Objects
  PROVE  /\ Latest(o) \in Nat /\ Latest(o) <= Len(made)
         /\ Latest(o) # 0 => Latest(o) \in MadeBy(o)
<1>1. Len(made) \in Nat /\ DOMAIN made = 1..Len(made)
  BY TypeFacts DEF LinkInv, SturdyInv
<1>2. MadeBy(o) # {} => Latest(o) \in MadeBy(o)
  BY DEF Latest, LinkInv, LatestMade
<1>3. MadeBy(o) = {} => Latest(o) = 0
  BY DEF Latest
<1>4. MadeBy(o) \subseteq 1..Len(made)
  BY <1>1 DEF MadeBy
<1>. QED  BY <1>1, <1>2, <1>3, <1>4

(* The last connection of all is the latest of the object that made it.    *)
LEMMA LastIsLatest ==
  ASSUME LinkInv, NEW o \in Objects, Len(made) # 0, made[Len(made)] = o
  PROVE  Latest(o) = Len(made)
<1>1. Len(made) \in Nat /\ DOMAIN made = 1..Len(made)
  BY TypeFacts DEF LinkInv, SturdyInv
<1>2. Len(made) \in MadeBy(o) /\ LastRun(o, Len(made))
  BY <1>1 DEF MadeBy, LastRun
<1>3. \A n \in MadeBy(o) : LastRun(o, n) => n = Len(made)
  BY <1>1 DEF MadeBy, LastRun
<1>. QED  BY <1>2, <1>3 DEF Latest

(* What is held of an object is in its Run or in its socket_fd_.           *)
LEMMA HeldFacts ==
  ASSUME LinkInv, NEW o \in Objects
  PROVE  /\ \A n \in HeldBy(o) : \E f \in Fds :
              /\ desc[f] = n /\ desc[f] # Free /\ made[desc[f]] = o
         /\ \A f \in Fds : desc[f] # Free /\ made[desc[f]] = o => desc[f] \in HeldBy(o)
<1>1. Len(made) \in Nat /\ DOMAIN made = 1..Len(made)
  BY TypeFacts DEF LinkInv, SturdyInv
<1>2. Free \notin DOMAIN made
  BY <1>1 DEF Free
<1>3. \A f \in Fds : desc[f] # Free => desc[f] \in DOMAIN made
  BY DEF LinkInv, SturdyInv, Made
<1>. QED  BY <1>2, <1>3 DEF HeldBy, MadeBy, Held

(* An object whose thread is over, and whose Run has not dialed, holds     *)
(* nothing.                                                                *)
LEMMA NothingHeld ==
  ASSUME LinkInv, NEW o \in Objects, thread[o] \in {"none", "end", "done"},
         ~(app.obj = o /\ app.at \in {"poll", "decide"})
  PROVE  HeldBy(o) = {}
<1>. SUFFICES ASSUME NEW f \in Fds, desc[f] # Free, made[desc[f]] = o
              PROVE  FALSE
  BY HeldFacts
<1>. USE DEF LinkInv, SturdyInv
<1>1. NoFd \notin Fds /\ socket_fd[o] = NoFd
  BY TypeFacts DEF Joined
<1>2. f = app.fd
  BY <1>1 DEF Accounted
<1>3. app.at \in {"poll", "decide"}
  BY <1>1, <1>2 DEF BaseInv, Locals
<1>. QED  BY <1>2, <1>3 DEF SetupOrLost

(* While Run waits, what it holds is its own connection, the latest.       *)
LEMMA WaitingHolds ==
  ASSUME LinkInv, app.at \in {"poll", "decide"}
  PROVE  /\ app.obj \in Objects /\ app.fd \in Fds /\ CallOf(app.obj) = "wait"
         /\ ~Served(app.obj) /\ Latest(app.obj) = Len(made) /\ Len(made) \in Runs
         /\ HeldBy(app.obj) = IF desc[app.fd] = Free THEN {} ELSE {Len(made)}
         /\ desc[app.fd] \in {Free, Len(made)}
<1>. USE DEF LinkInv, SturdyInv
<1>1. /\ app.obj \in Objects /\ app.fd \in Fds /\ NoFd \notin Fds
      /\ Len(made) \in Nat
  BY TypeFacts DEF BaseInv, Locals
<1>2. /\ desc[app.fd] \in {Free, Len(made)} /\ Len(made) # 0
      /\ made[Len(made)] = app.obj
  BY DEF SetupOrLost
<1>3. Latest(app.obj) = Len(made)
  BY <1>1, <1>2, LastIsLatest
<1>4. thread[app.obj] = "none" /\ socket_fd[app.obj] = NoFd
  BY <1>1 DEF Joined, InRun
<1>5. \A f \in Fds : desc[f] # Free /\ made[desc[f]] = app.obj => f = app.fd
  BY <1>1, <1>4 DEF Accounted
<1>6. HeldBy(app.obj) = IF desc[app.fd] = Free THEN {} ELSE {Len(made)}
  <2>1. \A n \in HeldBy(app.obj) : desc[app.fd] = n /\ n # Free
    BY <1>1, <1>5, HeldFacts
  <2>2. desc[app.fd] # Free => Len(made) \in HeldBy(app.obj)
    BY <1>1, <1>2, HeldFacts
  <2>. QED  BY <1>2, <2>1, <2>2
<1>7. Len(made) \in Runs
  BY <1>1, <1>2, SessionAssumption DEF Runs, BaseInv, Typed
<1>. QED  BY <1>1, <1>2, <1>3, <1>4, <1>6, <1>7 DEF CallOf, Served, Live

(* No object has two descriptors open.                                     *)
LEMMA OneOpen ==
  ASSUME LinkInv, NEW o \in Objects, NEW f \in Fds, NEW g \in Fds,
         desc[f] # Free, made[desc[f]] = o, desc[g] # Free, made[desc[g]] = o
  PROVE  f = g
<1>. USE DEF LinkInv, SturdyInv
<1>1. f \in {app.fd, socket_fd[o]} /\ g \in {app.fd, socket_fd[o]} /\ NoFd \notin Fds
  BY TypeFacts DEF Accounted
<1>2. CASE f = app.fd \/ g = app.fd
  <2>1. app.at \in {"poll", "decide"}
    BY <1>1, <1>2 DEF BaseInv, Locals
  <2>2. app.obj = o
    BY <1>2, <2>1 DEF SetupOrLost
  <2>3. socket_fd[o] = NoFd
    BY <2>1, <2>2 DEF Joined, InRun
  <2>. QED  BY <1>1, <2>3
<1>. QED  BY <1>1, <1>2

(* Closing a descriptor loses all that one object holds, or nothing.       *)
LEMMA CloseLoses ==
  ASSUME LinkInv, NEW o \in Objects, NEW f, Close(f), UNCHANGED made
  PROVE  /\ Latest(o)' = Latest(o)
         /\ HeldBy(o)' = HeldBy(o) \/ (HeldBy(o) # {} /\ HeldBy(o)' = {})
<1>1. Latest(o)' = Latest(o) /\ MadeBy(o)' = MadeBy(o)
  BY DEF Latest, MadeBy, LastRun
<1>2. \A g \in Fds : desc'[g] = IF g = f THEN Free ELSE desc[g]
  BY DEF Close
<1>3. Free \notin MadeBy(o)
  BY TypeFacts DEF MadeBy, Free, LinkInv, SturdyInv
<1>4. HeldBy(o)' = {n \in MadeBy(o) : \E g \in Fds : g # f /\ desc[g] = n}
  BY <1>1, <1>2, <1>3 DEF HeldBy, Held
<1>5. CASE f \in Fds /\ desc[f] # Free /\ made[desc[f]] = o
  <2>1. \A g \in Fds : g # f => desc[g] \notin MadeBy(o)
    BY <1>3, <1>5, OneOpen DEF MadeBy
  <2>2. desc[f] \in HeldBy(o)
    BY <1>5, HeldFacts
  <2>. QED  BY <1>1, <1>4, <2>1, <2>2
<1>6. CASE ~(f \in Fds /\ desc[f] # Free /\ made[desc[f]] = o)
  <2>1. HeldBy(o) = {n \in MadeBy(o) : \E g \in Fds : g # f /\ desc[g] = n}
    BY <1>3, <1>6 DEF HeldBy, Held, MadeBy
  <2>. QED  BY <1>1, <1>4, <2>1
<1>. QED  BY <1>5, <1>6

(* What neither opens nor closes leaves what is held alone.                *)
LEMMA SameHeld ==
  ASSUME NEW o, UNCHANGED <<desc, made>>
  PROVE  Latest(o)' = Latest(o) /\ HeldBy(o)' = HeldBy(o)
  BY DEF Latest, HeldBy, MadeBy, LastRun, Held

(* What leaves the connections alone leaves LinkInv alone, apart from the  *)
(* answer that Run decides upon.                                           *)
LEMMA SameConnections ==
  ASSUME LinkInv, SturdyInv', Answered', UNCHANGED <<made, granted>>
  PROVE  LinkInv'
  BY DEF LinkInv, LatestMade, MadeBy, LastRun

LEMMA AppFields ==
  SturdyInv => app.timeout \in Int /\ app.call \in {"run", "stop"}
  BY TypeFacts DEF SturdyInv

(* The caster, and what moves the application's thread only.               *)
LEMMA AppLinked ==
  ASSUME LinkInv, SturdyInv',
         \/ Caster \/ UNCHANGED sessionVars \/ StopFlag \/ StopCheck \/ StopForget
         \/ GiveUp \/ Unanswered \/ \E n \in Runs : Refused(n)
  PROVE  LinkInv' /\ \A o \in Objects : SameLink(o)
<1>. USE DEF object, Stay
<1>1. BaseInv /\ app.call \in {"run", "stop"}
  BY TypeFacts DEF LinkInv, SturdyInv
<1>2. /\ UNCHANGED <<thread, desc, made, granted>>
      /\ app'.obj = app.obj /\ app'.call = app.call
      /\ \/ app'.at = app.at /\ app'.timeout = app.timeout
         \/ app.at \in InStop /\ app'.at \in InStop
         \/ /\ app.at \in {"poll", "decide"} /\ app'.at \in {"poll", "decide"}
            /\ app'.at = "decide" => app'.timeout < 0
  BY <1>1, CasterTypes, StopFlagDoes, StopCheckDoes, StopForgetDoes, AwaitDoes
  DEF sessionVars, InStop
<1>3. Answered'
  <2>1. (app.timeout \in Int /\ app.call \in {"run", "stop"})'
    BY AppFields, PTL
  <2>. QED  BY <1>2, <2>1 DEF Answered, TimedOut, LinkInv, InStop
<1>4. LinkInv'
  BY <1>2, <1>3, SameConnections
<1>5. ASSUME NEW o \in Objects PROVE SameLink(o)
  <2>1. Latest(o)' = Latest(o) /\ HeldBy(o)' = HeldBy(o)
    BY <1>2, SameHeld
  <2>2. CallOf(o)' = CallOf(o)
    BY <1>2 DEF CallOf, InStop
  <2>. QED  BY <1>2, <2>1, <2>2 DEF SameLink, Allowed, Served
<1>. QED  BY <1>4, <1>5

LEMMA CallLinked ==
  ASSUME LinkInv, SturdyInv', NEW p \in Objects, CallStop(p) \/ CallRun(p)
  PROVE  LinkInv' /\ \A o \in Objects : LinkStep(o)
<1>. USE DEF object
<1>1. /\ app.at = "idle" /\ app'.obj = p /\ app'.at \in {"idle", "stop"}
      /\ UNCHANGED <<thread, desc, made, granted>>
  BY CallDoes DEF LinkInv, SturdyInv
<1>2. (app.timeout \in Int /\ app.call \in {"run", "stop"})'
  BY AppFields, PTL
<1>3. LinkInv'
  BY <1>1, SameConnections DEF Answered
<1>4. ASSUME NEW o \in Objects PROVE LinkStep(o)
  <2>1. Latest(o)' = Latest(o) /\ HeldBy(o)' = HeldBy(o)
    BY <1>1, SameHeld
  <2>2. CallOf(o) = "none" /\ CallOf(o)' \in {"none", "run", "stop"}
    BY <1>1, <1>2 DEF CallOf
  <2>. QED  BY <1>1, <2>1, <2>2 DEF LinkStep, SameLink, Allowed, Served
<1>. QED  BY <1>3, <1>4

(* Stop, and the service thread, lose what they close.                     *)
LEMMA CloseLinked ==
  ASSUME LinkInv, SturdyInv', StopClose \/ \E p \in Objects : LeaveClose(p)
  PROVE  LinkInv' /\ \A o \in Objects : LinkStep(o)
<1>. USE DEF Stay
<1>1. BaseInv /\ app.obj \in Objects /\ thread \in [Objects -> {"none", "done"} \cup Live]
  BY TypeFacts DEF LinkInv, SturdyInv, BaseInv, Typed
<1>2. PICK f : Close(f)
  BY <1>1, StopCloseDoes, LeaveCloseDoes
<1>3. /\ UNCHANGED <<made, granted>>
      /\ app'.obj = app.obj /\ app'.call = app.call
      /\ app'.at = app.at \/ (app.at = "close" /\ app'.at = "forget")
      /\ app'.timeout = app.timeout
      /\ \A o \in Objects : thread'[o] \in Live <=> thread[o] \in Live
  BY <1>1, StopCloseDoes, LeaveCloseDoes DEF object, Live
<1>4. LinkInv'
  BY <1>3, SameConnections DEF Answered, TimedOut, LinkInv
<1>5. ASSUME NEW o \in Objects PROVE LinkStep(o)
  <2>1. /\ Latest(o)' = Latest(o)
        /\ HeldBy(o)' = HeldBy(o) \/ (HeldBy(o) # {} /\ HeldBy(o)' = {})
    BY <1>2, <1>3, CloseLoses
  <2>2. CallOf(o)' = CallOf(o)
    BY <1>3 DEF CallOf
  <2>. QED  BY <1>3, <2>1, <2>2 DEF LinkStep, SameLink, Allowed, Served
<1>. QED  BY <1>4, <1>5

(* Stop returns.                                                           *)
LEMMA JoinLinked ==
  ASSUME LinkInv, SturdyInv', Join
  PROVE  LinkInv' /\ \A o \in Objects : LinkStep(o)
<1>. USE DEF Stay
<1>1. /\ app.at = "join" /\ app.obj \in Objects /\ app.call \in {"run", "stop"}
      /\ thread \in [Objects -> {"none", "done"} \cup Live]
      /\ app'.obj = app.obj /\ app'.call = app.call
      /\ app'.at = IF app.call = "run" THEN "connect" ELSE "idle"
      /\ thread[app.obj] \in {"none", "done"}
      /\ thread' = [thread EXCEPT ![app.obj] = "none"]
      /\ UNCHANGED <<desc, made, granted>>
  BY TypeFacts, JoinDoes DEF LinkInv, SturdyInv, BaseInv, Typed
<1>2. LinkInv'
  BY <1>1, SameConnections DEF Answered
<1>3. ASSUME NEW o \in Objects PROVE LinkStep(o)
  <2>1. /\ Latest(o)' = Latest(o) /\ HeldBy(o)' = HeldBy(o)
        /\ Served(o)' <=> Served(o)
        /\ Allowed(o)' <=> Allowed(o)
    BY <1>1, SameHeld DEF Served, Allowed, Live
  <2>2. CASE o = app.obj /\ app.call = "stop"
    <3>1. HeldBy(o) = {} /\ ~Served(o)
      BY <1>1, <2>2, NothingHeld DEF Served, Live
    <3>2. CallOf(o) = "stop" /\ CallOf(o)' = "none"
      BY <1>1, <2>2 DEF CallOf
    <3>. QED  BY <2>1, <3>1, <3>2 DEF LinkStep
  <2>3. CASE ~(o = app.obj /\ app.call = "stop")
    <3>1. CallOf(o)' = CallOf(o)
      BY <1>1, <2>3 DEF CallOf
    <3>. QED  BY <2>1, <3>1 DEF LinkStep, SameLink
  <2>. QED  BY <2>2, <2>3
<1>. QED  BY <1>2, <1>3

(* Run connects, or returns without.                                       *)
LEMMA ConnectLinked ==
  ASSUME LinkInv, SturdyInv', Connect
  PROVE  LinkInv' /\ \A o \in Objects : LinkStep(o)
<1>. USE DEF Stay, object
<1>1. /\ BaseInv /\ app.at = "connect" /\ app.obj \in Objects /\ app.call = "run"
      /\ app'.obj = app.obj /\ app'.call = app.call
      /\ UNCHANGED <<thread, granted>> /\ thread[app.obj] = "none"
      /\ Len(made) \in Nat /\ DOMAIN made = 1..Len(made) /\ made \in Seq(Objects)
  BY TypeFacts, ConnectDoes
  DEF LinkInv, SturdyInv, BaseInv, Typed, Locals, Joined, InRun
<1>2. HeldBy(app.obj) = {} /\ ~Served(app.obj) /\ CallOf(app.obj) = "run"
  BY <1>1, NothingHeld DEF Served, Live, CallOf
<1>3. CASE Stay("idle") /\ UNCHANGED <<desc, made>>
  <2>1. LinkInv'
    BY <1>1, <1>3, SameConnections DEF Answered
  <2>2. ASSUME NEW o \in Objects PROVE LinkStep(o)
    <3>1. /\ Latest(o)' = Latest(o) /\ HeldBy(o)' = HeldBy(o)
          /\ Served(o)' <=> Served(o)
          /\ Allowed(o)' <=> Allowed(o)
      BY <1>1, <1>3, SameHeld DEF Served, Allowed
    <3>2. CallOf(o)' = "none" /\ (o # app.obj => CallOf(o) = "none")
      BY <1>1, <1>3 DEF CallOf
    <3>. QED  BY <1>2, <3>1, <3>2 DEF LinkStep, SameLink
  <2>. QED  BY <2>1, <2>2
<1>4. CASE \E f \in Fds :
             /\ desc[f] = Free /\ desc' = [desc EXCEPT ![f] = Len(made) + 1]
             /\ made' = Append(made, app.obj)
             /\ app'.at = "poll" /\ app'.fd = f
  <2>0. PICK n \in Nat : n = Len(made) + 1
    BY <1>1
  <2>1. PICK f \in Fds :
          /\ desc[f] = Free /\ desc' = [desc EXCEPT ![f] = n]
          /\ made' = Append(made, app.obj) /\ app'.at = "poll"
    BY <1>4, <2>0
  <2>2. /\ n \in Nat /\ n > Len(made) /\ n # Free
        /\ DOMAIN made' = DOMAIN made \cup {n} /\ n \notin DOMAIN made
        /\ made'[n] = app.obj /\ \A m \in DOMAIN made : made'[m] = made[m]
        /\ Len(made') = n
    <3>1. /\ Len(made') = n /\ made' \in Seq(Objects) /\ made'[n] = app.obj
          /\ \A m \in 1..Len(made) : made'[m] = made[m]
      BY <1>1, <2>0, <2>1, AppendProperties
    <3>2. DOMAIN made' = 1..n
      BY <3>1, LenProperties
    <3>. QED  BY <1>1, <2>0, <3>1, <3>2 DEF Free
  <2>3. n \in Runs
    BY <1>1, <2>2, SessionAssumption DEF SturdyInv, BaseInv, Typed, Runs
  <2>4. \A m \in DOMAIN made : m < n
    BY <1>1, <2>2
  <2>5. \A o \in Objects : MadeBy(o)' = IF o = app.obj THEN MadeBy(o) \cup {n} ELSE MadeBy(o)
    BY <2>2 DEF MadeBy
  <2>6. ASSUME NEW o \in Objects, o # app.obj, NEW m \in MadeBy(o)
        PROVE  LastRun(o, m)' <=> LastRun(o, m)
    BY <2>2, <2>6 DEF LastRun, MadeBy
  <2>7. \A o : o = app.obj => LastRun(o, n)' /\ n \in MadeBy(o)'
    <3>1. \A m \in DOMAIN made' : ~(m > n)
      BY <1>1, <2>2, <2>4
    <3>. QED  BY <2>2, <3>1 DEF LastRun, MadeBy
  <2>8. LatestMade'
    <3>. SUFFICES ASSUME NEW o \in Objects, o # app.obj, MadeBy(o)' # {}
                  PROVE  \E m \in MadeBy(o)' : LastRun(o, m)'
      BY <2>7 DEF LatestMade
    <3>. QED  BY <2>5, <2>6 DEF LatestMade, LinkInv
  <2>9. LinkInv'
    BY <1>1, <2>1, <2>2, <2>8 DEF LinkInv, Answered
  <2>10. ASSUME NEW o \in Objects, o # app.obj PROVE SameLink(o)
    <3>1. MadeBy(o)' = MadeBy(o)
      BY <2>5, <2>10
    <3>2. Latest(o)' = Latest(o)
      <4>1. CASE MadeBy(o) = {}
        BY <3>1, <4>1 DEF Latest
      <4>2. ASSUME NEW m \in MadeBy(o), LastRun(o, m) PROVE Latest(o)' = Latest(o)
        <5>1. \A k \in MadeBy(o) : LastRun(o, k) => k = m
          BY <1>1, <4>2 DEF LastRun, MadeBy
        <5>2. LastRun(o, m)' /\ \A k \in MadeBy(o) : LastRun(o, k)' => k = m
          BY <2>6, <2>10, <4>2, <5>1
        <5>3. Latest(o) = m
          BY <4>2, <5>1 DEF Latest
        <5>. QED  BY <3>1, <4>2, <5>2, <5>3 DEF Latest
      <4>. QED  BY <4>1, <4>2 DEF LinkInv, LatestMade
    <3>3. HeldBy(o)' = HeldBy(o)
      <4>1. n \notin MadeBy(o) /\ Free \notin MadeBy(o)
        BY <1>1, <2>2 DEF MadeBy, Free
      <4>2. desc \in [Fds -> Runs \cup {Free}]
        BY <1>1 DEF BaseInv, Typed
      <4>3. \A m \in MadeBy(o) : (\E g \in Fds : desc'[g] = m) <=> \E g \in Fds : desc[g] = m
        BY <2>1, <4>1, <4>2
      <4>. QED  BY <3>1, <4>3 DEF HeldBy, Held
    <3>4. CallOf(o) = "none" /\ CallOf(o)' = "none"
      BY <1>1, <2>10 DEF CallOf
    <3>. QED  BY <1>1, <3>2, <3>3, <3>4 DEF SameLink, Served, Allowed
  <2>11. ASSUME NEW o \in Objects, o = app.obj PROVE LinkStep(o)
    <3>1. Latest(o)' = n
      <4>1. \A m \in MadeBy(o)' : LastRun(o, m)' => m = n
        BY <1>1, <2>2, <2>4, <2>11 DEF LastRun, MadeBy
      <4>. QED  BY <2>7, <2>11, <4>1 DEF Latest
    <3>2. Latest(o) < n /\ n \in Runs /\ n \notin granted
      BY <1>1, <2>2, <2>3, <2>11, LatestFacts DEF LinkInv
    <3>3. HeldBy(o)' = {n}
      <4>1. desc' = [desc EXCEPT ![f] = n] /\ desc \in [Fds -> Runs \cup {Free}]
        BY <1>1, <2>1 DEF BaseInv, Typed
      <4>2. \A m \in MadeBy(o) : ~\E g \in Fds : desc[g] = m
        BY <1>2, <2>11 DEF HeldBy, Held
      <4>3. \A m \in MadeBy(o) : m # n
        BY <2>2 DEF MadeBy
      <4>4. \A m \in MadeBy(o) : ~\E g \in Fds : desc'[g] = m
        BY <4>1, <4>2, <4>3
      <4>5. \E g \in Fds : desc'[g] = n
        BY <4>1
      <4>6. MadeBy(o)' = MadeBy(o) \cup {n}
        BY <1>1, <2>5, <2>11
      <4>7. HeldBy(o)' = {m \in MadeBy(o)' : \E g \in Fds : desc'[g] = m}
        BY DEF HeldBy, Held
      <4>. QED  BY <4>4, <4>5, <4>6, <4>7
    <3>4. CallOf(o)' = "wait" /\ ~Served(o)'
      BY <1>1, <2>1, <2>11 DEF CallOf, Served, Live
    <3>5. ~Allowed(o)'
      BY <1>1, <3>1, <3>2 DEF Allowed
    <3>. QED  BY <1>2, <2>11, <3>1, <3>2, <3>3, <3>4, <3>5 DEF LinkStep
  <2>. QED  BY <1>1, <2>9, <2>10, <2>11 DEF LinkStep
<1>. QED  BY <1>3, <1>4, ConnectDoes, <1>1

(* The caster has answered 200 OK.                                         *)
LEMMA AcceptedLinked ==
  ASSUME LinkInv, SturdyInv', NEW n \in Runs, Accepted(n)
  PROVE  LinkInv' /\ \A o \in Objects : LinkStep(o)
<1>. USE DEF object
<1>1. /\ app.at = "poll" /\ app'.at = "decide" /\ n = desc[app.fd]
      /\ app'.obj = app.obj /\ granted' = granted \cup {n}
      /\ UNCHANGED <<thread, desc, made>>
  BY AcceptedDoes DEF LinkInv, SturdyInv
<1>2. /\ app.obj \in Objects /\ CallOf(app.obj) = "wait"
      /\ Latest(app.obj) = Len(made) /\ desc[app.fd] \in {Free, Len(made)}
      /\ HeldBy(app.obj) = IF desc[app.fd] = Free THEN {} ELSE {Len(made)}
  BY <1>1, WaitingHolds
<1>3. n = Len(made) /\ n # Free /\ HeldBy(app.obj) = {n} /\ n \in MadeBy(app.obj)
  <2>1. n # Free
    BY TypeFacts DEF LinkInv, SturdyInv
  <2>2. HeldBy(app.obj) = {n}
    BY <1>1, <1>2, <2>1
  <2>. QED  BY <1>1, <1>2, <2>1, <2>2 DEF HeldBy
<1>4. LinkInv'
  BY <1>1, <1>3, SMTT(30) DEF LinkInv, Answered, LatestMade, MadeBy, LastRun
<1>5. ASSUME NEW o \in Objects PROVE LinkStep(o)
  <2>1. Latest(o)' = Latest(o) /\ HeldBy(o)' = HeldBy(o) /\ (Served(o)' <=> Served(o))
    BY <1>1, SameHeld DEF Served
  <2>2. CallOf(o)' = CallOf(o)
    BY <1>1 DEF CallOf
  <2>3. CASE o = app.obj
    BY <1>1, <1>2, <1>3, <2>1, <2>2, <2>3 DEF LinkStep, Allowed
  <2>4. CASE o # app.obj
    <3>1. Latest(o) # n
      BY <1>3, <2>4, LatestFacts, TypeFacts DEF MadeBy, Free
    <3>. QED  BY <1>1, <2>1, <2>2, <3>1 DEF LinkStep, SameLink, Allowed
  <2>. QED  BY <2>3, <2>4
<1>. QED  BY <1>4, <1>5

(* Run gives up, which may be after the 200 OK.                            *)
LEMMA FailLinked ==
  ASSUME LinkInv, SturdyInv', DecideFailed \/ \E n \in Runs : HungUp(n) \/ GreetFails(n)
  PROVE  LinkInv' /\ \A o \in Objects : LinkStep(o)
<1>. USE DEF object
<1>1. /\ app.at \in {"poll", "decide"} /\ app'.at = "idle" /\ app'.obj = app.obj
      /\ Close(app.fd) /\ UNCHANGED <<thread, made>>
  BY FailDoes DEF LinkInv, SturdyInv
<1>2. /\ app.obj \in Objects /\ app.fd \in Fds /\ CallOf(app.obj) = "wait"
      /\ Latest(app.obj) = Len(made) /\ desc[app.fd] \in {Free, Len(made)}
      /\ HeldBy(app.obj) = IF desc[app.fd] = Free THEN {} ELSE {Len(made)}
      /\ Len(made) \in Runs
  BY <1>1, WaitingHolds
<1>3. granted' = granted \/ (granted' = granted \cup {Len(made)} /\ desc[app.fd] # Free)
  <2>1. CASE DecideFailed \/ \E n \in Runs : HungUp(n)
    BY <2>1 DEF DecideFailed, HungUp
  <2>2. ASSUME NEW n \in Runs, GreetFails(n)
        PROVE  granted' = granted \cup {Len(made)} /\ desc[app.fd] # Free
    BY <1>2, <2>2, TypeFacts DEF GreetFails, Polling, LinkInv, SturdyInv
  <2>. QED  BY <2>1, <2>2
<1>4. HeldBy(app.obj) = {} \/ HeldBy(app.obj) = {Len(made)}
  BY <1>2
<1>5. \A n \in HeldBy(app.obj) : n = desc[app.fd]
  BY <1>2
<1>6. ASSUME NEW o \in Objects, o = app.obj PROVE HeldBy(o)' = {}
  <2>1. /\ MadeBy(o)' = MadeBy(o) /\ Free \notin MadeBy(o)
        /\ \A g \in Fds : desc'[g] = IF g = app.fd THEN Free ELSE desc[g]
    BY <1>1, TypeFacts DEF MadeBy, Free, LinkInv, SturdyInv, Close
  <2>2. ASSUME NEW n \in MadeBy(o), NEW g \in Fds, desc'[g] = n PROVE FALSE
    <3>1. desc[g] = n /\ g # app.fd /\ n # Free
      BY <2>1, <2>2
    <3>2. n \in HeldBy(o)
      BY <3>1, <2>2 DEF HeldBy, Held
    <3>3. desc[app.fd] = n
      BY <1>5, <1>6, <3>2
    <3>. QED  BY <1>2, <2>2, <3>1, <3>3, OneOpen DEF MadeBy
  <2>. QED  BY <2>1, <2>2 DEF HeldBy, Held
<1>7. LinkInv'
  <2>1. Len(made) \in DOMAIN made
    BY <1>2, TypeFacts DEF Runs, LinkInv, SturdyInv
  <2>. QED
    BY <1>1, <1>3, <2>1 DEF LinkInv, Answered, LatestMade, MadeBy, LastRun
<1>8. ASSUME NEW o \in Objects PROVE LinkStep(o)
  <2>1. /\ Latest(o)' = Latest(o) /\ (Served(o)' <=> Served(o))
        /\ HeldBy(o)' = HeldBy(o) \/ (HeldBy(o) # {} /\ HeldBy(o)' = {})
    BY <1>1, CloseLoses DEF Served
  <2>2. CallOf(o)' = "none"
    BY <1>1 DEF CallOf
  <2>3. CASE o = app.obj
    <3>1. /\ CallOf(o) = "wait" /\ HeldBy(o)' = {} /\ Latest(o) = Len(made)
          /\ HeldBy(o) = IF desc[app.fd] = Free THEN {} ELSE {Latest(o)}
      BY <1>2, <1>6, <2>3
    <3>2. \/ Allowed(o)' <=> Allowed(o)
          \/ Allowed(o)' /\ HeldBy(o) = {Latest(o)}
      BY <1>3, <2>1, <3>1 DEF Allowed
    <3>. QED  BY <2>1, <2>2, <3>1, <3>2 DEF LinkStep
  <2>4. CASE o # app.obj
    <3>1. Latest(o) # Len(made)
      <4>1. Len(made) # 0 /\ made[Len(made)] = app.obj
        BY <1>1 DEF LinkInv, SturdyInv, SetupOrLost
      <4>. QED  BY <2>4, <4>1, LatestFacts DEF MadeBy
    <3>2. CallOf(o) = "none" /\ (Allowed(o)' <=> Allowed(o))
      BY <1>3, <2>1, <2>4, <3>1 DEF CallOf, Allowed
    <3>. QED  BY <2>1, <2>2, <3>2 DEF LinkStep, SameLink
  <2>. QED  BY <2>3, <2>4
<1>. QED  BY <1>7, <1>8

(* Run starts the service thread.                                          *)
LEMMA StartedLinked ==
  ASSUME LinkInv, SturdyInv', DecideStarted
  PROVE  LinkInv' /\ \A o \in Objects : LinkStep(o)
<1>1. /\ app.at = "decide" /\ ~TimedOut /\ app'.at = "idle" /\ app'.obj = app.obj
      /\ thread' = [thread EXCEPT ![app.obj] = "begin"]
      /\ UNCHANGED <<desc, made, granted>>
      /\ thread \in [Objects -> {"none", "done"} \cup Live]
  BY StartedDoes DEF LinkInv, SturdyInv, BaseInv, Typed
<1>2. /\ app.obj \in Objects /\ CallOf(app.obj) = "wait" /\ Latest(app.obj) \in granted
  BY <1>1, WaitingHolds DEF LinkInv, Answered
<1>3. LinkInv'
  BY <1>1, SameConnections DEF Answered
<1>4. ASSUME NEW o \in Objects PROVE LinkStep(o)
  <2>1. /\ Latest(o)' = Latest(o) /\ HeldBy(o)' = HeldBy(o) /\ CallOf(o)' = "none"
        /\ Allowed(o)' <=> Allowed(o)
    BY <1>1, SameHeld DEF CallOf, Allowed
  <2>2. CASE o = app.obj
    BY <1>1, <1>2, <2>1, <2>2 DEF LinkStep, Allowed, Served, Live
  <2>3. CASE o # app.obj
    <3>1. CallOf(o) = "none" /\ (Served(o)' <=> Served(o))
      BY <1>1, <2>3 DEF CallOf, Served
    <3>. QED  BY <2>1, <3>1 DEF LinkStep, SameLink
  <2>. QED  BY <2>2, <2>3
<1>. QED  BY <1>3, <1>4

(* The service thread, except where it closes its descriptor.              *)
LEMMA ThreadLinked ==
  ASSUME LinkInv, SturdyInv', NEW p \in Objects,
         Begin(p) \/ Moves(p) \/ LeaveForget(p) \/ End(p)
  PROVE  LinkInv' /\ \A o \in Objects : LinkStep(o)
<1>1. /\ UNCHANGED <<app, desc, made, granted>>
      /\ thread \in [Objects -> {"none", "done"} \cup Live]
      /\ \/ thread[p] \in Live /\ \E at \in Live : thread' = [thread EXCEPT ![p] = at]
         \/ thread[p] = "end" /\ thread' = [thread EXCEPT ![p] = "done"]
  BY BeginDoes, MovesDoes, LeaveForgetDoes, EndDoes
  DEF LinkInv, SturdyInv, BaseInv, Typed, Moved, Live
<1>2. LinkInv'
  BY <1>1, SameConnections DEF Answered, TimedOut, LinkInv
<1>3. ASSUME NEW o \in Objects PROVE LinkStep(o)
  <2>1. /\ Latest(o)' = Latest(o) /\ HeldBy(o)' = HeldBy(o) /\ CallOf(o)' = CallOf(o)
        /\ Allowed(o)' <=> Allowed(o)
    BY <1>1, SameHeld DEF CallOf, Allowed
  <2>2. CASE Served(o)' <=> Served(o)
    BY <2>1, <2>2 DEF LinkStep, SameLink
  <2>3. CASE ~(Served(o)' <=> Served(o))
    <3>1. o = p /\ thread[o] = "end" /\ Served(o) /\ ~Served(o)'
      BY <1>1, <2>3 DEF Served, Live
    <3>2. ~(app.obj = o /\ app.at \in {"poll", "decide"})
      BY <3>1 DEF LinkInv, SturdyInv, Joined, InRun
    <3>. QED  BY <2>1, <3>1, <3>2, NothingHeld DEF LinkStep
  <2>. QED  BY <2>2, <2>3
<1>. QED  BY <1>2, <1>3

(* Every step of a session is one of each of its links.                    *)
LEMMA LinkKeeps ==
  ASSUME LinkInv,
         \/ Caster \/ AppSteps \/ UNCHANGED sessionVars
         \/ \E o \in Objects : CallStop(o) \/ CallRun(o) \/ ThreadSteps(o)
  PROVE  LinkInv' /\ \A o \in Objects : LinkStep(o)
<1>1. SturdyInv'
  BY SturdyKeeps DEF LinkInv
<1>2. CASE Stop
  BY <1>1, <1>2, AppLinked, CloseLinked, JoinLinked DEF Stop, LinkStep
<1>3. CASE Connect \/ Await \/ Decide \/ \E n \in Runs : Accepted(n) \/ GreetFails(n)
  BY <1>1, <1>3, AppLinked, ConnectLinked, AcceptedLinked, FailLinked, StartedLinked
  DEF Await, Decide, LinkStep
<1>4. ASSUME NEW o \in Objects, ThreadSteps(o) PROVE LinkInv' /\ \A p \in Objects : LinkStep(p)
  BY <1>1, <1>4, ThreadLinked, CloseLinked DEF ThreadSteps
<1>5. CASE Caster \/ UNCHANGED sessionVars
  BY <1>1, <1>5, AppLinked DEF LinkStep
<1>. QED  BY <1>1, <1>2, <1>3, <1>4, <1>5, CallLinked DEF AppSteps

LEMMA LinkInit ==
  ASSUME Init
  PROVE  /\ LinkInv
         /\ \A o \in Objects : /\ CallOf(o) = "none" /\ Latest(o) = 0 /\ ~Allowed(o)
                               /\ HeldBy(o) = {} /\ ~Served(o)
<1>1. SturdyInv
  BY SessionInit, SessionIsSturdy
<1>2. made = <<>> /\ DOMAIN made = {} /\ granted = {} /\ app.at = "idle"
  BY EmptySeq DEF Init
<1>3. \A o \in Objects : MadeBy(o) = {}
  BY <1>2 DEF MadeBy
<1>4. LinkInv
  BY <1>1, <1>2, <1>3 DEF LinkInv, Answered, LatestMade
<1>. QED  BY <1>2, <1>3, <1>4 DEF Init, CallOf, Latest, Allowed, HeldBy, Served, Live
=============================================================================
