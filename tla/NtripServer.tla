---------------------------- MODULE NtripServer ----------------------------
(***************************************************************************)
(* NtripServer objects (src/src/ntrip_server.cc): a session whose service  *)
(* thread drops what it receives, and SendData, which a third thread       *)
(* calls.  The process ignores SIGPIPE.  data_list_ is left out: nothing   *)
(* ever adds to it.                                                        *)
(***************************************************************************)
EXTENDS Session

VARIABLES
  sender,     \* where the thread that calls SendData is
  target,     \* the value of socket_fd_ SendData passes to send()
  reported    \* history: the connections SendData sent on, returning 0

sending == <<sender, target, reported>>

SendingTypeOK ==
  /\ sender \in {"idle", "read", "send"} /\ target \in Fds \cup {NoFd}
  /\ reported \subseteq Runs

SendingInit == sender = "idle" /\ target = NoFd /\ reported = {}

-----------------------------------------------------------------------------
(* Run, Stop and ThreadHandler.                                            *)

ServerStop == Stop

ServerRun == Connect \/ (\E n \in Runs : Accepted(n)) \/ Await \/ Decide

ServerThread(o) ==
  \/ Begin(o) \/ Loop(o)
  \/ RecvChunk(o, "loop") \/ RecvNothing(o, "loop") \/ RecvEnd(o)
  \/ Leave(o)

-----------------------------------------------------------------------------
(* SendData(o), called as the examples call it: if service_is_running().   *)

CallSendData(o) ==
  /\ sender = "idle" /\ running[o]
  /\ sender' = "read"
  /\ UNCHANGED <<target, reported>>

ReadSocket(o) ==
  /\ sender = "read"
  /\ target' = socket_fd[o] /\ sender' = "send"
  /\ UNCHANGED reported

(* send() takes the whole of the data and SendData returns 0, or it takes  *)
(* less, nothing or fails, and SendData returns -1.                        *)
Send ==
  /\ sender = "send"
  /\ sender' = "idle" /\ target' = NoFd
  /\ \/ /\ Open(target) /\ peer[desc[target]] # "rst"
        /\ reported' = reported \cup {desc[target]}
     \/ UNCHANGED reported
=============================================================================
