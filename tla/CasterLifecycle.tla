-------------------------- MODULE CasterLifecycle --------------------------
(***************************************************************************)
(* Run and Stop of NtripCaster against its service thread                  *)
(* (src/src/ntrip_caster.cc).  Stop clears the list, closes the listening  *)
(* and the epoll descriptor and frees epoll_events_ while the thread may   *)
(* be using all of them, and only then joins it; the thread never looks at *)
(* service_is_running_.  What becomes of one connection is reduced to      *)
(* being accepted, listed and closed (Caster has the rest).                *)
(*                                                                         *)
(* Reading or writing epoll_events_ once it is freed, and using the list   *)
(* while Stop clears it, is undefined: the process may be taken down.  The *)
(* application uses one caster, from one thread, with one port, and opens  *)
(* no other descriptors: the numbers Stop leaves in listen_sock_ and       *)
(* epoll_fd_, which the next Stop closes again, are nobody's then.         *)
(***************************************************************************)
EXTENDS Naturals

CONSTANTS
  Conns,     \* connections peers make
  Finite,    \* time_out_ >= 0: epoll_wait returns by itself
  MaxRuns    \* bound: calls of Run

ASSUME LifecycleAssumption == Finite \in BOOLEAN /\ MaxRuns \in Nat

VARIABLES
  app,      \* where the application's thread is; idle outside Run and Stop
  runs,     \* calls of Run
  seen,     \* what the application has seen of service_is_running() since Run
  hasty,    \* history: the Stop called last came before the service was seen
            \* to end
  running,  \* service_is_running_
  thread,   \* where the service thread is; none once joined
  batch,    \* what is left of the events epoll_wait has returned
  events,   \* epoll_events_: null, live or freed
  listen,   \* what listen_sock_ denotes: none, open or closed
  epoll,    \* what epoll_fd_ denotes
  conn,     \* the connections: new, backlog, open (accepted), listed, closed;
            \* refused is listed and closed; lost and stale are open and listed
            \* ones no epoll reports any more
  lines,    \* ntrip_str_list_: whose line it holds
  process   \* alive, exited by exit(1), or broken by undefined behaviour

caller == <<app, runs, seen, hasty>>
opened == <<events, listen, epoll>>
vars == <<app, runs, seen, hasty, running, thread, batch, events, listen, epoll,
          conn, lines, process>>

InStop == {"flag", "clear", "listen", "epoll", "delete", "null", "lines", "join"}
Listener == "listener"

(* The states in which the mount point list holds a connection.            *)
Recorded == {"listed", "refused", "stale"}
ConnStates == {"new", "backlog", "open", "closed", "lost"} \cup Recorded

LifecycleTypeOK ==
  /\ app \in {"idle"} \cup InStop /\ runs \in 0..MaxRuns
  /\ seen \in {"nothing", "up", "down"} /\ hasty \in BOOLEAN /\ running \in BOOLEAN
  /\ thread \in {"none", "begin", "call", "wait", "event", "handle", "end", "done"}
  /\ batch \subseteq Conns \cup {Listener}
  /\ thread = "handle" => batch # {}
  /\ batch # {} => thread \in {"event", "handle"}
  /\ events \in {"null", "live", "freed"}
  /\ listen \in {"none", "open", "closed"} /\ epoll \in {"none", "open", "closed"}
  /\ conn \in [Conns -> ConnStates]
  /\ lines \subseteq Conns
  /\ process \in {"alive", "exited", "broken"}

Init ==
  /\ app = "idle" /\ runs = 0 /\ seen = "nothing" /\ hasty = FALSE
  /\ running = FALSE /\ thread = "none" /\ batch = {}
  /\ events = "null" /\ listen = "none" /\ epoll = "none"
  /\ conn = [c \in Conns |-> "new"] /\ lines = {} /\ process = "alive"

Alive == process = "alive"

Breaks == process' \in {"alive", "broken"}

-----------------------------------------------------------------------------
(* The application: Run, Stop and the destructor, and service_is_running().*)

(* bind() fails while the caster listens already, and may fail otherwise.  *)
RunExits ==
  /\ Alive /\ app = "idle"
  /\ process' = "exited"
  /\ UNCHANGED <<caller, running, thread, batch, opened, conn, lines>>

Run ==
  /\ Alive /\ app = "idle" /\ listen # "open" /\ runs < MaxRuns
  /\ listen' = "open" /\ events' = "live" /\ epoll' = "open"
  /\ thread' = "begin" /\ seen' = "nothing" /\ runs' = runs + 1
  /\ conn' = [c \in Conns |-> CASE conn[c] = "open" -> "lost"
                               [] conn[c] = "listed" -> "stale" [] OTHER -> conn[c]]
  /\ UNCHANGED <<app, hasty, running, batch, lines, process>>

LooksUp ==
  /\ Alive /\ app = "idle" /\ seen = "nothing" /\ running
  /\ seen' = "up"
  /\ UNCHANGED <<app, runs, hasty, running, thread, batch, opened, conn, lines, process>>

LooksDown ==
  /\ Alive /\ app = "idle" /\ seen = "up" /\ ~running
  /\ seen' = "down"
  /\ UNCHANGED <<app, runs, hasty, running, thread, batch, opened, conn, lines, process>>

CallStop ==
  /\ Alive /\ app = "idle"
  /\ app' = "flag" /\ hasty' = (thread # "none" /\ seen # "down")
  /\ UNCHANGED <<runs, seen, running, thread, batch, opened, conn, lines, process>>

InStopAt(at, next) ==
  Alive /\ app = at /\ app' = next /\ UNCHANGED <<runs, seen, hasty, thread, batch>>

StopFlag ==
  /\ InStopAt("flag", "clear") /\ running' = FALSE
  /\ UNCHANGED <<opened, conn, lines, process>>

CloseAll(S) == conn' = [c \in Conns |-> IF c \in S THEN "closed" ELSE conn[c]]

(* Mutant: the list is left to the next Run.                               *)
KeepAllConnection == UNCHANGED conn

ClearAllConnection == CloseAll({c \in Conns : conn[c] \in Recorded})

StopClear ==
  /\ InStopAt("clear", "listen") /\ ClearAllConnection
  /\ IF thread = "handle" THEN Breaks ELSE UNCHANGED process
  /\ UNCHANGED <<running, opened, lines>>

StopListen ==
  /\ InStopAt("listen", "epoll")
  /\ listen' = IF listen = "open" THEN "closed" ELSE listen
  /\ CloseAll({c \in Conns : conn[c] = "backlog"})
  /\ UNCHANGED <<running, events, epoll, lines, process>>

(* Mutant: epoll_fd_ stays open.                                           *)
EpollKept == epoll

EpollClosed == IF epoll = "open" THEN "closed" ELSE epoll

StopEpoll ==
  /\ InStopAt("epoll", "delete") /\ epoll' = EpollClosed
  /\ UNCHANGED <<running, events, listen, conn, lines, process>>

StopDelete ==
  /\ InStopAt("delete", "null")
  /\ events' = IF events = "live" THEN "freed" ELSE events
  /\ UNCHANGED <<running, listen, epoll, conn, lines, process>>

StopNull ==
  /\ InStopAt("null", "lines") /\ events' = "null"
  /\ UNCHANGED <<running, listen, epoll, conn, lines, process>>

StopLines ==
  /\ InStopAt("lines", "join") /\ lines' = {}
  /\ IF thread = "handle" THEN Breaks ELSE UNCHANGED process
  /\ UNCHANGED <<running, opened, conn>>

(* Mutant: detach() instead of join().                                     *)
Detach ==
  /\ Alive /\ app = "join" /\ app' = "idle"
  /\ UNCHANGED <<runs, seen, hasty, running, thread, batch, opened, conn, lines, process>>

Join ==
  /\ Alive /\ app = "join" /\ thread \in {"none", "done"}
  /\ app' = "idle" /\ thread' = "none"
  /\ UNCHANGED <<runs, seen, hasty, running, batch, opened, conn, lines, process>>

Stop == StopFlag \/ StopClear \/ StopListen \/ StopEpoll \/ StopDelete \/ StopNull
        \/ StopLines \/ Join

-----------------------------------------------------------------------------
(* ThreadHandler.                                                          *)

ThreadAt(at, next) == Alive /\ thread = at /\ thread' = next /\ UNCHANGED caller

Begin ==
  /\ ThreadAt("begin", "call") /\ running' = TRUE
  /\ UNCHANGED <<batch, opened, conn, lines, process>>

(* epoll_wait() of a descriptor that is closed fails and ends the loop.    *)
EpollWait ==
  /\ ThreadAt("call", IF epoll = "open" THEN "wait" ELSE "end")
  /\ UNCHANGED <<running, batch, opened, conn, lines, process>>

TimesOut ==
  /\ Finite /\ ThreadAt("wait", "call")
  /\ UNCHANGED <<running, batch, opened, conn, lines, process>>

(* Mutant: the flag is cleared on an error, and the loop goes on.          *)
InterruptedGoesOn ==
  /\ ThreadAt("wait", "call") /\ running' = FALSE
  /\ UNCHANGED <<batch, opened, conn, lines, process>>

(* By a signal.                                                            *)
Interrupted ==
  /\ ThreadAt("wait", "end")
  /\ UNCHANGED <<running, batch, opened, conn, lines, process>>

(* A call that has begun goes on when its descriptor is closed, for what   *)
(* is still registered; the kernel writes to the array it was called with. *)
Returns ==
  /\ ThreadAt("wait", "event")
  /\ \E S \in SUBSET ({c \in Conns : conn[c] \in {"open", "listed"}} \cup
                      {l \in {Listener} : \E c \in Conns : conn[c] = "backlog"}) :
       S # {} /\ batch' = S
  /\ IF events = "live" THEN UNCHANGED process ELSE Breaks
  /\ UNCHANGED <<running, opened, conn, lines>>

(* Mutant: i <= alive_count.                                               *)
OneMore == FALSE

AllHandled == batch = {}

(* A read of epoll_events_[i].                                             *)
ReadsArray ==
  \/ events = "live" /\ UNCHANGED process
  \/ events = "freed" /\ Breaks
  \/ events = "null" /\ process' = "broken"

(* Which descriptor the next event names, until the batch is done.         *)
ReadEvent ==
  /\ ThreadAt("event", IF AllHandled THEN "call" ELSE "handle")
  /\ IF batch = {} THEN UNCHANGED process ELSE ReadsArray
  /\ UNCHANGED <<running, batch, opened, conn, lines>>

(* The handlers read the event again.                                      *)
Handled(e) == ThreadAt("handle", "event") /\ e \in batch /\ batch' = batch \ {e}
              /\ ReadsArray /\ UNCHANGED <<running, opened>>

(* accept() takes the first of the backlog, and fails once listen_sock_ is *)
(* closed.                                                                 *)
AcceptNewConnect ==
  /\ Handled(Listener)
  /\ \/ \E c \in Conns : conn[c] = "backlog" /\ conn' = [conn EXCEPT ![c] = "open"]
     \/ (\A c \in Conns : conn[c] # "backlog") /\ UNCHANGED conn
  /\ UNCHANGED lines

(* A request that is granted: the connection enters the list.              *)
Register(c) ==
  /\ Handled(c) /\ conn[c] = "open"
  /\ conn' = [conn EXCEPT ![c] = "listed"] /\ lines' = lines \cup {c}

(* Corrections, a GGA sentence.                                            *)
Relayed(c) == Handled(c) /\ conn[c] \in {"open", "listed"} /\ UNCHANGED <<conn, lines>>

(* A chunk ParseData refuses: the connection is closed, and stays in the   *)
(* list if it is there (who gets its number is Caster's matter).           *)
Refuse(c) ==
  /\ Handled(c) /\ conn[c] \in {"open", "listed"} /\ UNCHANGED lines
  /\ conn' = [conn EXCEPT ![c] = IF conn[c] = "listed" THEN "refused" ELSE "closed"]

(* Gone, or closed by Stop since the event was reported.                   *)
Disconnect(c) ==
  /\ Handled(c) /\ CloseAll({c})
  /\ lines' = IF conn[c] = "listed" THEN lines \ {c} ELSE lines

End ==
  /\ ThreadAt("end", "done") /\ running' = FALSE
  /\ UNCHANGED <<batch, opened, conn, lines, process>>

(* What the thread does when it is scheduled.                              *)
Progress ==
  \/ Begin \/ EpollWait \/ TimesOut \/ Returns \/ ReadEvent \/ End
  \/ AcceptNewConnect
  \/ \E c \in Conns : Register(c) \/ Relayed(c) \/ Refuse(c) \/ Disconnect(c)

ThreadHandler == Progress \/ Interrupted

-----------------------------------------------------------------------------
PeerConnects(c) ==
  /\ Alive /\ listen = "open" /\ conn[c] = "new"
  /\ conn' = [conn EXCEPT ![c] = "backlog"]
  /\ UNCHANGED <<caller, running, thread, batch, opened, lines, process>>

Next ==
  \/ RunExits \/ Run \/ LooksUp \/ LooksDown \/ CallStop \/ Stop \/ ThreadHandler
  \/ \E c \in Conns : PeerConnects(c)

Spec == Init /\ [][Next]_vars

(* Both threads are scheduled, and epoll_wait() times out if it is to; no  *)
(* signal has to come.                                                     *)
FairSpec == Spec /\ WF_vars(Stop) /\ WF_vars(Progress)
-----------------------------------------------------------------------------
(* Properties.                                                             *)

(* ThreadHandler uses freed memory, or the list together with Stop, only   *)
(* during a Stop that was called before the service was seen to run and to *)
(* end, and from its second statement on.  Seeing service_is_running()     *)
(* false is not enough (a thread that has not started yet says the same,   *)
(* and the caster example takes the one for the other); but a hasty Stop   *)
(* that returns leaves no such use to the Runs and the Stops after it.     *)
BrokenOnlyInHaste ==
  process = "broken" => hasty /\ app \in InStop \ {"flag", "clear"}

Stopped == process = "alive" /\ app = "idle" /\ listen # "open" /\ runs > 0

(* When Stop has returned there is no service thread, the array is freed   *)
(* for good and service_is_running() is false, also when the thread stored *)
(* true after Stop had stored false.                                       *)
StopIsFinal ==
  Stopped => thread = "none" /\ ~running /\ epoll # "open" /\ events = "null"

(* A caster that is started again after a Stop that was not hasty starts   *)
(* from an empty list and an empty source table, and none of the           *)
(* connections it served is left open: such a Stop also cleans up what     *)
(* hasty ones before it have left.                                         *)
StopEmpties ==
  Stopped /\ ~hasty => lines = {} /\ \A c \in Conns : conn[c] \notin Recorded

(* Stop returns, or takes the process down: the thread it joins notices    *)
(* that epoll_fd_ is closed, although it never looks at the flag.  It      *)
(* takes a timeout for that: with Finite = FALSE the property fails.       *)
StopReturns == app \in InStop ~> app = "idle" \/ process # "alive"
=============================================================================
