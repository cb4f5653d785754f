--------------------------- MODULE LifecycleProofs ---------------------------
(***************************************************************************)
(* Run and Stop of the caster, for any connections and any number of runs. *)
(* The invariant ties the four things Stop and the service thread share to *)
(* where the two of them are: a thread that is not joined yet has all its  *)
(* resources as long as nobody is in Stop, and an application that has     *)
(* seen the service end knows that the thread touches them no more.        *)
(***************************************************************************)
EXTENDS CasterLifecycle, TLAPS

Over == {"none", "done"}
Idle == {"none", "begin", "done"}

(* service_is_running_ says where the thread is, until Stop clears it.     *)
FlagTold ==
  /\ thread \in Idle => ~running
  /\ app \in {"idle", "flag"} /\ thread \notin Idle => running

(* What the application has seen of the thread it started last.            *)
SeenRight ==
  /\ seen = "up" => thread # "begin"
  /\ seen = "down" => thread \in Over
  /\ app \in InStop /\ ~hasty => thread \in Over

(* Outside Stop a service thread has its descriptors and its array, which  *)
(* it has until Stop frees it, and there is no other thread.               *)
Equipped ==
  thread # "none" =>
    /\ app = "idle" => epoll = "open" /\ listen = "open"
    /\ app \in {"idle", "flag", "clear", "listen", "epoll", "delete"} => events = "live"

(* How far Stop has come.                                                  *)
TornDown ==
  /\ app \in {"epoll", "delete", "null", "lines", "join"} => listen # "open"
  /\ app \in {"delete", "null", "lines", "join"} => epoll # "open"
  /\ app \in {"lines", "join"} => events = "null"
  /\ app = "idle" /\ listen # "open" => epoll # "open" /\ events = "null"

NoneListed == \A c \in Conns : conn[c] \notin Recorded

Emptied ==
  ~hasty =>
    /\ app \in {"listen", "epoll", "delete", "null", "lines", "join"} => NoneListed
    /\ app = "join" => lines = {}
    /\ app = "idle" /\ listen # "open" => lines = {} /\ NoneListed

LifecycleInv ==
  /\ LifecycleTypeOK /\ FlagTold /\ SeenRight /\ Equipped /\ TornDown /\ Emptied
  /\ BrokenOnlyInHaste

-----------------------------------------------------------------------------
(* The invariant holds at first.                                           *)
LEMMA LifecycleInit == Init => LifecycleInv
<1>. SUFFICES ASSUME Init PROVE LifecycleInv
  OBVIOUS
<1>1. LifecycleTypeOK
  <2>1. conn \in [Conns -> ConnStates]
    BY DEF Init, ConnStates
  <2>2. hasty \in BOOLEAN /\ running \in BOOLEAN
    BY DEF Init
  <2>. QED  BY <2>1, <2>2, LifecycleAssumption DEF Init, LifecycleTypeOK
<1>2. FlagTold /\ SeenRight /\ Equipped
  BY DEF Init, FlagTold, SeenRight, Equipped, Idle, InStop
<1>3. TornDown /\ Emptied /\ BrokenOnlyInHaste
  BY DEF Init, TornDown, Emptied, NoneListed, Recorded, BrokenOnlyInHaste
<1>. QED  BY <1>1, <1>2, <1>3 DEF LifecycleInv

(* Closing connections lists none.                                         *)
LEMMA CloseAllType ==
  ASSUME LifecycleTypeOK, NEW S, CloseAll(S)
  PROVE  /\ conn' \in [Conns -> ConnStates]
         /\ NoneListed => NoneListed'
  BY DEF CloseAll, LifecycleTypeOK, NoneListed, ConnStates, Recorded

(* What the application does outside Stop.                                 *)
LEMMA ApplicationStep ==
  ASSUME LifecycleInv, RunExits \/ Run \/ LooksUp \/ LooksDown \/ CallStop
  PROVE  LifecycleInv'
<1>. USE DEF LifecycleInv, caller, opened, Alive
<1>1. CASE RunExits
  BY <1>1 DEF RunExits, LifecycleTypeOK, FlagTold, SeenRight, Equipped, TornDown,
              Emptied, NoneListed, BrokenOnlyInHaste, InStop
<1>2. CASE Run
  <2>1. thread = "none"
    BY <1>2 DEF Run, Equipped
  <2>2. /\ runs' \in 0..MaxRuns
        /\ conn' \in [Conns -> ConnStates]
    BY <1>2, LifecycleAssumption DEF Run, LifecycleTypeOK, ConnStates, Recorded
  <2>3. batch = {}
    BY <2>1 DEF LifecycleTypeOK
  <2>. QED
    BY <1>2, <2>1, <2>2, <2>3
    DEF Run, LifecycleTypeOK, FlagTold, SeenRight, Equipped, TornDown, Emptied,
        BrokenOnlyInHaste, Idle, Over, InStop
<1>3. CASE LooksUp
  BY <1>3 DEF LooksUp, LifecycleTypeOK, FlagTold, SeenRight, Equipped, TornDown,
              Emptied, NoneListed, BrokenOnlyInHaste, Idle, InStop
<1>4. CASE LooksDown
  BY <1>4 DEF LooksDown, LifecycleTypeOK, FlagTold, SeenRight, Equipped, TornDown,
              Emptied, NoneListed, BrokenOnlyInHaste, Idle, Over, InStop
<1>5. CASE CallStop
  BY <1>5 DEF CallStop, LifecycleTypeOK, FlagTold, SeenRight, Equipped, TornDown,
              Emptied, NoneListed, BrokenOnlyInHaste, Idle, Over, InStop
<1>. QED  BY <1>1, <1>2, <1>3, <1>4, <1>5

(* Stop, one step after the other.                                         *)
LEMMA StopStep ==
  ASSUME LifecycleInv, Stop
  PROVE  LifecycleInv'
<1>. USE DEF LifecycleInv, caller, opened, Alive, InStopAt
<1>1. CASE StopFlag
  <2>1. LifecycleTypeOK'
    BY <1>1, ZenonT(30) DEF StopFlag, LifecycleTypeOK, InStop
  <2>2. FlagTold' /\ SeenRight'
    BY <1>1 DEF StopFlag, FlagTold, SeenRight, InStop
  <2>3. Equipped' /\ TornDown' /\ Emptied' /\ BrokenOnlyInHaste'
    BY <1>1 DEF StopFlag, Equipped, TornDown, Emptied, BrokenOnlyInHaste
  <2>. QED  BY <2>1, <2>2, <2>3
<1>2. CASE StopClear
  <2>1. CloseAll({c \in Conns : conn[c] \in Recorded})
    BY <1>2 DEF StopClear, ClearAllConnection
  <2>2. NoneListed'
    BY <2>1 DEF CloseAll, NoneListed, LifecycleTypeOK, Recorded
  <2>3. process' \in {"alive", "broken"} /\ (process' = "broken" => hasty)
    BY <1>2 DEF StopClear, Breaks, SeenRight, Over, InStop
  <2>. QED
    BY <1>2, <2>1, <2>2, <2>3, CloseAllType
    DEF StopClear, LifecycleTypeOK, FlagTold, SeenRight, Equipped, TornDown,
        Emptied, BrokenOnlyInHaste, Idle, InStop
<1>3. CASE StopListen
  BY <1>3, CloseAllType
  DEF StopListen, LifecycleTypeOK, FlagTold, SeenRight, Equipped, TornDown,
      Emptied, BrokenOnlyInHaste, Idle, InStop
<1>4. CASE StopEpoll
  BY <1>4 DEF StopEpoll, EpollClosed, LifecycleTypeOK, FlagTold, SeenRight, Equipped,
              TornDown, Emptied, NoneListed, BrokenOnlyInHaste, Idle, InStop
<1>5. CASE StopDelete
  BY <1>5 DEF StopDelete, LifecycleTypeOK, FlagTold, SeenRight, Equipped,
              TornDown, Emptied, NoneListed, BrokenOnlyInHaste, Idle, InStop
<1>6. CASE StopNull
  BY <1>6 DEF StopNull, LifecycleTypeOK, FlagTold, SeenRight, Equipped,
              TornDown, Emptied, NoneListed, BrokenOnlyInHaste, Idle, InStop
<1>7. CASE StopLines
  <2>1. process' \in {"alive", "broken"} /\ (process' = "broken" => hasty)
    BY <1>7 DEF StopLines, Breaks, SeenRight, Over, InStop
  <2>. QED
    BY <1>7, <2>1
    DEF StopLines, LifecycleTypeOK, FlagTold, SeenRight, Equipped, TornDown,
        Emptied, NoneListed, BrokenOnlyInHaste, Idle, InStop
<1>8. CASE Join
  BY <1>8 DEF Join, LifecycleTypeOK, FlagTold, SeenRight, Equipped,
              TornDown, Emptied, NoneListed, BrokenOnlyInHaste, Idle, Over, InStop
<1>. QED  BY <1>1, <1>2, <1>3, <1>4, <1>5, <1>6, <1>7, <1>8 DEF Stop

(* The service thread takes no step during a Stop that was not hasty, and  *)
(* misses its array only after the hasty one has freed it.                 *)
LEMMA ThreadBusy ==
  ASSUME LifecycleInv, thread \notin Over
  PROVE  /\ app = "idle" \/ hasty
         /\ app = "idle" => events = "live" /\ listen = "open" /\ epoll = "open"
         /\ events = "live" \/ (hasty /\ app \in InStop \ {"flag", "clear"})
  BY DEF LifecycleInv, LifecycleTypeOK, SeenRight, Equipped, Over, InStop

(* Its steps that touch neither the list nor the source table.             *)
LEMMA ThreadStep ==
  ASSUME LifecycleInv,
         Begin \/ EpollWait \/ TimesOut \/ Interrupted \/ Returns \/ ReadEvent \/ End
  PROVE  LifecycleInv'
<1>. USE DEF LifecycleInv, caller, opened, Alive, ThreadAt
<1>1. CASE Begin
  BY <1>1 DEF Begin, LifecycleTypeOK, FlagTold, SeenRight, Equipped, TornDown,
              Emptied, NoneListed, BrokenOnlyInHaste, Idle, Over, InStop
<1>2. CASE EpollWait \/ TimesOut \/ Interrupted
  BY <1>2 DEF EpollWait, TimesOut, Interrupted, LifecycleTypeOK, FlagTold, SeenRight,
              Equipped, TornDown, Emptied, NoneListed, BrokenOnlyInHaste, Idle, Over,
              InStop
<1>3. CASE Returns
  <2>1. batch' \subseteq Conns \cup {Listener}
    BY <1>3 DEF Returns
  <2>2. process' \in {"alive", "broken"} /\ BrokenOnlyInHaste'
    BY <1>3, ThreadBusy DEF Returns, Breaks, Over, BrokenOnlyInHaste
  <2>. QED
    BY <1>3, <2>1, <2>2
    DEF Returns, LifecycleTypeOK, FlagTold, SeenRight, Equipped, TornDown,
        Emptied, NoneListed, Idle, Over, InStop
<1>4. CASE ReadEvent
  <2>1. process' \in {"alive", "broken"} /\ BrokenOnlyInHaste'
    BY <1>4, ThreadBusy DEF ReadEvent, ReadsArray, Breaks, Over, BrokenOnlyInHaste
  <2>. QED
    BY <1>4, <2>1
    DEF ReadEvent, AllHandled, LifecycleTypeOK, FlagTold, SeenRight, Equipped, TornDown,
        Emptied, NoneListed, Idle, Over, InStop
<1>5. CASE End
  BY <1>5, ZenonT(30) DEF End, LifecycleTypeOK, FlagTold, SeenRight, Equipped, TornDown,
              Emptied, NoneListed, BrokenOnlyInHaste, Idle, Over, InStop
<1>. QED  BY <1>1, <1>2, <1>3, <1>4, <1>5

(* The handling of one event, which may list a connection.                 *)
LEMMA HandledStep ==
  ASSUME LifecycleInv, NEW e, Handled(e), lines' \subseteq Conns,
         conn' \in [Conns -> ConnStates]
  PROVE  LifecycleInv'
<1>. USE DEF LifecycleInv
<1>1. thread = "handle" /\ thread' = "event" /\ thread \notin Over
  BY DEF Handled, ThreadAt, Over
<1>2. hasty \/ (app = "idle" /\ listen = "open")
  BY <1>1, ThreadBusy
<1>3. UNCHANGED <<caller, running, opened>> /\ batch' \subseteq batch
  BY DEF Handled, ThreadAt
<1>. USE DEF caller, opened
<1>7. process' \in {"alive", "broken"} /\ BrokenOnlyInHaste'
  BY <1>1, <1>3, ThreadBusy
  DEF Handled, ThreadAt, Alive, ReadsArray, Breaks, BrokenOnlyInHaste
<1>4. LifecycleTypeOK'
  BY <1>1, <1>3, <1>7 DEF LifecycleTypeOK
<1>5. FlagTold' /\ SeenRight' /\ Equipped' /\ TornDown'
  BY <1>1, <1>3 DEF FlagTold, SeenRight, Equipped, TornDown, Idle, Over, InStop
<1>6. Emptied'
  BY <1>2, <1>3 DEF Emptied
<1>. QED  BY <1>4, <1>5, <1>6, <1>7

(* Every event: the listener's, and what a connection's comes to.          *)
LEMMA HandleStep ==
  ASSUME LifecycleInv,
         AcceptNewConnect \/ \E c \in Conns : Register(c) \/ Relayed(c) \/ Refuse(c) \/ Disconnect(c)
  PROVE  LifecycleInv'
<1>. USE DEF LifecycleInv, LifecycleTypeOK
<1>1. CASE AcceptNewConnect
  BY <1>1, HandledStep DEF AcceptNewConnect, ConnStates
<1>2. ASSUME NEW c \in Conns, Register(c) PROVE LifecycleInv'
  BY <1>2, HandledStep DEF Register, ConnStates, Recorded
<1>3. ASSUME NEW c \in Conns, Relayed(c) PROVE LifecycleInv'
  BY <1>3, HandledStep DEF Relayed
<1>4. ASSUME NEW c \in Conns, Disconnect(c) PROVE LifecycleInv'
  BY <1>4, HandledStep, CloseAllType DEF Disconnect
<1>5. ASSUME NEW c \in Conns, Refuse(c) PROVE LifecycleInv'
  BY <1>5, HandledStep DEF Refuse, ConnStates, Recorded
<1>. QED  BY <1>1, <1>2, <1>3, <1>4, <1>5

(* Every step keeps the invariant.                                         *)
LEMMA LifecycleStep == LifecycleInv /\ [Next]_vars => LifecycleInv'
<1>. SUFFICES ASSUME LifecycleInv, [Next]_vars PROVE LifecycleInv'
  OBVIOUS
<1>1. ASSUME NEW c \in Conns, PeerConnects(c) PROVE LifecycleInv'
  <2>1. /\ conn' \in [Conns -> ConnStates]
        /\ NoneListed => NoneListed'
    BY <1>1 DEF PeerConnects, LifecycleInv, LifecycleTypeOK, NoneListed, ConnStates,
                Recorded
  <2>. QED
    BY <1>1, <2>1
    DEF PeerConnects, caller, opened, LifecycleInv, LifecycleTypeOK, FlagTold, SeenRight,
        Equipped, TornDown, Emptied, BrokenOnlyInHaste
<1>2. CASE UNCHANGED vars
  BY <1>2 DEF vars, LifecycleInv, LifecycleTypeOK, FlagTold, SeenRight, Equipped,
              TornDown, Emptied, NoneListed, BrokenOnlyInHaste
<1>. QED
  BY <1>1, <1>2, ApplicationStep, StopStep, ThreadStep, HandleStep
  DEF Next, ThreadHandler, Progress

-----------------------------------------------------------------------------
(* Every field keeps its type, the array and the descriptors included.     *)
THEOREM LifecycleTypeCorrect == Spec => []LifecycleTypeOK
<1>1. LifecycleInv => LifecycleTypeOK
  BY DEF LifecycleInv
<1>. QED  BY <1>1, LifecycleInit, LifecycleStep, PTL DEF Spec

(* ThreadHandler uses the array after Stop has freed it, or the list while *)
(* Stop clears it, only during a Stop that was called before the service   *)
(* was seen to run and to end, whatever Stops there were before.           *)
THEOREM NeverBrokenInPatience == Spec => []BrokenOnlyInHaste
<1>1. LifecycleInv => BrokenOnlyInHaste
  BY DEF LifecycleInv
<1>. QED  BY <1>1, LifecycleInit, LifecycleStep, PTL DEF Spec

(* However Stop and ThreadHandler interleave, when Stop has returned the   *)
(* thread is gone, nothing it used is open and service_is_running() is     *)
(* false.                                                                  *)
THEOREM StopLeavesNothing == Spec => []StopIsFinal
<1>1. LifecycleInv => StopIsFinal
  BY DEF LifecycleInv, StopIsFinal, Stopped, FlagTold, Equipped, TornDown, Idle
<1>. QED  BY <1>1, LifecycleInit, LifecycleStep, PTL DEF Spec

(* A Stop that was not hasty leaves the lists empty for the next Run.      *)
THEOREM StopLeavesListsEmpty == Spec => []StopEmpties
<1>1. LifecycleInv => StopEmpties
  BY DEF LifecycleInv, StopEmpties, Stopped, Emptied, NoneListed
<1>. QED  BY <1>1, LifecycleInit, LifecycleStep, PTL DEF Spec
=============================================================================
