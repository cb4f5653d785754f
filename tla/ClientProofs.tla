---------------------------- MODULE ClientProofs ----------------------------
(***************************************************************************)
(* One NtripClient: what SessionProofs proves of a session, for any        *)
(* descriptors, polls, connections and receive timeout period, and that    *)
(* the count of the service thread is the count of the silent intervals.   *)
(***************************************************************************)
EXTENDS NtripClient, SessionProofs

(* With one object in the process no number can be another object's.       *)
LEMMA NeverStale ==
  ASSUME SessionInv, socket_fd[Client] # NoFd
  PROVE  ~Stale(Client)
<1>1. Client \in Objects /\ socket_fd[Client] \in Fds
  BY ClientAssumption, SocketFacts DEF SessionInv
<1>. QED  BY <1>1, TypeFacts, ClientAssumption DEF SessionInv, Made, Stale

(* The steps of the service thread, as those of a session.                 *)
LEMMA ClientThreadSteps ==
  ASSUME ClientThread
  PROVE  ThreadSteps(Client) \/ UNCHANGED sessionVars
<1>. USE DEF ThreadSteps, Moves, Onward
<1>1. CASE (Loop(Client) \/ RecvEnd(Client) \/ Leave(Client)) /\ UNCHANGED <<sentence, clock>>
  BY <1>1 DEF Leave
<1>2. CASE BeginService \/ Data \/ NoData \/ TooEarly \/ SendGga
  BY <1>2 DEF BeginService, Data, NoData, TooEarly, SendGga
<1>3. CASE Called \/ Report \/ Generate
  BY <1>3 DEF Called, Report, Generate
<1>. QED  BY <1>1, <1>2, <1>3 DEF ClientThread

(* Every step keeps the invariant of the session.                          *)
LEMMA ClientSessionStep ==
  ASSUME SessionInv, [Next]_vars
  PROVE  SessionInv'
<1>1. Client \in Objects
  BY ClientAssumption
<1>2. CASE Call
  BY <1>1, <1>2, NeverStale, CallKeeps DEF Call
<1>3. CASE ClientThread
  BY <1>1, <1>3, ClientThreadSteps, SessionKeeps
<1>4. CASE Caster \/ SetGgaBuffer \/ InCall \/ UNCHANGED vars
  <2>1. Caster \/ AppSteps \/ UNCHANGED sessionVars
    BY <1>4 DEF SetGgaBuffer, InCall, ClientStop, ClientRun, Greet, SetGgaFlag, AppSteps, vars
  <2>. QED  BY <2>1, SessionKeeps
<1>. QED  BY <1>2, <1>3, <1>4 DEF Next

-----------------------------------------------------------------------------
(* The thread works on something exactly when it is in its work, and while *)
(* it goes on the count and the silent intervals add up to the period.     *)
ClockInv ==
  /\ gga \in {"empty", "generated", "user"} /\ updated \in BOOLEAN /\ setting \in BOOLEAN
  /\ step \in {"none", "callback", "report", "generate", "send"}
  /\ cnt \in -1..Period /\ silent \in 0..(Period + 1)
  /\ step # "none" <=> thread[Client] = "work"
  /\ thread[Client] \in {"loop", "recv", "work"} => silent <= Period /\ cnt = Period - silent

(* Nothing the application or the caster does moves a thread in its work.  *)
LEMMA AppLeavesWork ==
  ASSUME SessionInv, Caster \/ AppSteps \/ CallStop(Client) \/ CallRun(Client)
  PROVE  \/ thread'[Client] = thread[Client]
         \/ /\ thread[Client] \notin {"loop", "recv", "work"}
            /\ thread'[Client] \notin {"loop", "recv", "work"}
<1>. USE ClientAssumption DEF SessionInv
<1>1. Client \in Objects /\ thread \in [Objects -> {"none", "done"} \cup Live]
  BY DEF BaseInv, Typed
<1>2. CASE Caster
  BY <1>2, CasterTypes DEF object
<1>3. CASE CallStop(Client) \/ CallRun(Client)
  BY <1>3 DEF CallStop, CallRun, object
<1>4. CASE Join
  BY <1>1, <1>4, TypeFacts DEF Join
<1>5. CASE DecideStarted
  <2>1. thread[app.obj] = "none" /\ app.obj \in Objects
    BY <1>5, TypeFacts DEF DecideStarted, Joined, InRun
  <2>. QED  BY <1>1, <1>5, <2>1 DEF DecideStarted
<1>6. CASE StopFlag \/ StopCheck \/ StopClose \/ StopForget
  BY <1>6 DEF StopFlag, StopCheck, StopClose, StopForget, object
<1>7. CASE Connect \/ Await \/ DecideFailed \/ \E n \in Runs : Accepted(n) \/ GreetFails(n)
  BY <1>7, AwaitDoes DEF Connect, Await, GiveUp, Unanswered, Refused, HungUp, DecideFailed,
                         Accepted, GreetFails, object
<1>. QED  BY <1>2, <1>3, <1>4, <1>5, <1>6, <1>7 DEF AppSteps, Stop, Decide

(* Every step keeps the count right.                                       *)
LEMMA ClockStep ==
  ASSUME SessionInv, ClockInv, [Next]_vars
  PROVE  ClockInv'
<1>. USE DEF ClockInv
<1>1. /\ Client \in Objects /\ thread \in [Objects -> {"none", "done"} \cup Live]
      /\ Period \in Nat
  BY ClientAssumption DEF SessionInv, BaseInv, Typed
<1>2. CASE Caster /\ UNCHANGED <<sentence, clock>>
  BY <1>2, AppLeavesWork DEF sentence, clock
<1>3. CASE Call
  BY <1>3, AppLeavesWork DEF Call, sentence, clock
<1>4. CASE ClientStop \/ ClientRun
  <2>1. AppSteps
    BY <1>4 DEF ClientStop, ClientRun, Greet, AppSteps
  <2>2. UNCHANGED <<updated, setting, clock>> /\ gga' \in {gga, "generated"}
    BY <1>4 DEF ClientStop, ClientRun, Greet, sentence, clock
  <2>. QED  BY <2>1, <2>2, AppLeavesWork DEF clock
<1>5. CASE SetGgaBuffer \/ SetGgaFlag \/ UNCHANGED vars
  BY <1>5 DEF SetGgaBuffer, SetGgaFlag, vars, sessionVars, clock
<1>6. CASE (Loop(Client) \/ RecvEnd(Client) \/ Leave(Client)) /\ UNCHANGED <<sentence, clock>>
  BY <1>1, <1>6 DEF Loop, RecvEnd, Leave, LeaveCheck, LeaveClose, LeaveForget, End, Goto,
                    sentence, clock
<1>7. CASE BeginService
  BY <1>1, <1>7 DEF BeginService, Begin, Goto, Restart, sentence
<1>8. CASE Data
  BY <1>1, <1>8 DEF Data, RecvChunk, Goto, Restart, sentence
<1>9. CASE NoData
  BY <1>1, <1>9 DEF NoData, RecvNothing, Goto, sentence
<1>10. CASE Called \/ TooEarly \/ SendGga
  BY <1>1, <1>10 DEF Called, TooEarly, SendGga, Work, Goto, sentence, sessionVars
<1>11. CASE Generate
  BY <1>11 DEF Generate, sessionVars
<1>12. CASE Report
  <2>1. cnt' = cnt - 1 /\ silent' = silent + 1 /\ silent <= Period /\ cnt = Period - silent
    BY <1>12, <1>1 DEF Report, CountDown
  <2>2. CASE GivesUp /\ Work(Client, "check") /\ step' = "none"
    BY <1>1, <1>12, <2>1, <2>2 DEF Report, GivesUp, Work, Goto, sentence
  <2>3. CASE ~GivesUp /\ step' = (IF updated THEN "send" ELSE "generate")
             /\ UNCHANGED sessionVars
    BY <1>1, <1>12, <2>1, <2>3 DEF Report, GivesUp, sessionVars, sentence
  <2>. QED  BY <1>12, <2>2, <2>3 DEF Report
<1>. QED
  BY <1>2, <1>3, <1>4, <1>5, <1>6, <1>7, <1>8, <1>9, <1>10, <1>11, <1>12
  DEF Next, InCall, ClientThread

(* The invariant of the client.                                            *)
LEMMA ClientInvariant == Spec => [](SessionInv /\ ClockInv)
<1>1. ClientInit => SessionInv /\ ClockInv
  <2>. SUFFICES ASSUME ClientInit PROVE SessionInv /\ ClockInv
    OBVIOUS
  <2>1. SessionInv
    BY SessionInit DEF ClientInit
  <2>2. thread[Client] = "none"
    BY ClientAssumption DEF ClientInit, Init
  <2>3. 0 \in -1..Period /\ 0 \in 0..(Period + 1)
    BY ClientAssumption
  <2>4. ClockInv
    BY <2>2, <2>3 DEF ClientInit, ClockInv
  <2>. QED  BY <2>1, <2>4
<1>2. SessionInv /\ ClockInv /\ [Next]_vars => SessionInv' /\ ClockInv'
  BY ClientSessionStep, ClockStep
<1>. QED  BY <1>1, <1>2, PTL DEF Spec

-----------------------------------------------------------------------------
(* Every field keeps its type; receive_timeout_cnt never passes -1.        *)
THEOREM ClientTypeCorrect == Spec => []ClientTypeOK
<1>1. SessionInv /\ ClockInv => ClientTypeOK
  BY SessionMeans DEF ClockInv, ClientTypeOK
<1>. QED  BY <1>1, ClientInvariant, PTL

(* Whichever of Run, Stop and ThreadHandler ends a connection, and however *)
(* they interleave, its descriptor is closed.                              *)
THEOREM ClientNeverLeaks == Spec => []NoLeak
<1>1. SessionInv => NoLeak
  BY SessionMeans
<1>. QED  BY <1>1, ClientInvariant, PTL

(* A thread never outlives its Run into the next one's connection.         *)
THEOREM ClientThreadServesItsRun == Spec => []ThreadServesItsRun
<1>1. SessionInv => ThreadServesItsRun
  BY SessionMeans
<1>. QED  BY <1>1, ClientInvariant, PTL

(* No thread is started for a connection that was not answered 200 OK.     *)
THEOREM ClientServesOnlyGranted == Spec => []ServesOnlyGranted
<1>1. SessionInv => ServesOnlyGranted
  BY SessionMeans
<1>. QED  BY <1>1, ClientInvariant, PTL

(* After Stop the callback is not called, although the thread may have     *)
(* stored true into service_is_running_ after Stop had stored false.       *)
THEOREM ClientStopIsFinal == Spec => []StopIsFinal
<1>1. SessionInv => StopIsFinal
  BY SessionMeans
<1>. QED  BY <1>1, ClientInvariant, PTL

(* A silent caster is given up after exactly kReceiveTimeoutPeriod report  *)
(* intervals, whatever the period.                                         *)
THEOREM ClientToleratesSilence == Spec => SilenceTolerated
<1>1. ASSUME SessionInv, ClockInv, [Next]_vars, step = "report", silent' # silent
      PROVE  thread'[Client] = "check" <=> silent = Period
  <2>. USE DEF ClockInv
  <2>1. /\ Client \in Objects /\ thread \in [Objects -> {"none", "done"} \cup Live]
        /\ Period \in Nat /\ thread[Client] = "work"
    BY <1>1, ClientAssumption DEF SessionInv, BaseInv, Typed
  <2>2. Report
    BY <1>1, <2>1 DEF Next, Call, SetGgaBuffer, InCall, ClientStop, ClientRun, Greet, SetGgaFlag,
                 ClientThread, BeginService, Begin, Data, RecvChunk, Called, NoData, TooEarly,
                 Generate, SendGga, vars, sentence, clock
  <2>3. silent <= Period /\ cnt = Period - silent
    BY <1>1, <2>1
  <2>4. CASE GivesUp /\ Work(Client, "check") /\ step' = "none"
    BY <1>1, <2>1, <2>3, <2>4 DEF GivesUp, Work, Goto
  <2>5. CASE ~GivesUp /\ UNCHANGED sessionVars
    BY <1>1, <2>1, <2>3, <2>5 DEF GivesUp, sessionVars
  <2>. QED  BY <2>2, <2>4, <2>5 DEF Report
<1>2. SessionInv /\ ClockInv /\ [Next]_vars
      => [step = "report" /\ silent' # silent =>
            (thread'[Client] = "check" <=> silent = Period)]_vars
  BY <1>1
<1>. QED  BY <1>2, ClientInvariant, PTL DEF Spec, SilenceTolerated

-----------------------------------------------------------------------------
(* A step of the session that is a step of a link is one of the promise.   *)
LEMMA PromiseStep ==
  ASSUME LinkInv, LinkStep(Client)
  PROVE  [Promise!Next]_(Promise!vars)
<1>. USE DEF LinkStep, SameLink, Served, Allowed, Promise!Next, Promise!vars, Promise!Call,
             Promise!Return, Promise!Dial, Promise!Grant, Promise!Start, Promise!Fail,
             Promise!Lose, Promise!Finish
<1>. QED  BY SMTT(60)

(* Every step keeps what a link needs, and is a step of the promise.       *)
LEMMA ClientLinkStep == LinkInv /\ [Next]_vars => LinkInv' /\ [Promise!Next]_(Promise!vars)
<1>. SUFFICES ASSUME LinkInv, [Next]_vars PROVE LinkInv' /\ LinkStep(Client)
  BY PromiseStep
<1>1. Client \in Objects
  BY ClientAssumption
<1>2. CASE Call
  BY <1>1, <1>2, LinkKeeps DEF Call
<1>3. CASE ClientThread
  BY <1>1, <1>3, ClientThreadSteps, LinkKeeps
<1>4. CASE Caster \/ SetGgaBuffer \/ InCall \/ UNCHANGED vars
  <2>1. Caster \/ AppSteps \/ UNCHANGED sessionVars
    BY <1>4 DEF SetGgaBuffer, InCall, ClientStop, ClientRun, Greet, SetGgaFlag, AppSteps, vars
  <2>. QED  BY <1>1, <2>1, LinkKeeps
<1>. QED  BY <1>2, <1>3, <1>4 DEF Next

(* A client holds one connection at a time, dialed by a Run after the last *)
(* was closed and its thread gone; it starts a thread only when granted,   *)
(* and Stop returns with nothing held: it is a link.                       *)
THEOREM ClientIsALink == Spec => ImplementsLink
<1>1. ClientInit => LinkInv /\ Promise!Init
  <2>. SUFFICES ASSUME ClientInit PROVE LinkInv /\ Promise!Init
    OBVIOUS
  <2>1. LinkInv
    BY LinkInit DEF ClientInit
  <2>2. /\ CallOf(Client) = "none" /\ Latest(Client) = 0 /\ ~Allowed(Client)
        /\ HeldBy(Client) = {} /\ ~Served(Client)
    BY LinkInit, ClientAssumption DEF ClientInit
  <2>. QED  BY <2>1, <2>2 DEF Allowed, Served, Promise!Init
<1>. QED  BY <1>1, ClientLinkStep, PTL DEF Spec, ImplementsLink, Promise!Spec
=============================================================================
