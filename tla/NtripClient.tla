---------------------------- MODULE NtripClient ----------------------------
(***************************************************************************)
(* One NtripClient object (src/src/ntrip_client.cc): a session that, once  *)
(* accepted, greets the caster with a GGA sentence, gives what it receives *)
(* to the callback, sends a GGA sentence every report interval and gives a *)
(* silent caster up.  gga_buffer_ and gga_is_update_ are shared by the     *)
(* application and the service thread without a lock, like the fields of a *)
(* session.                                                                *)
(***************************************************************************)
EXTENDS Session

CONSTANTS
  Client,   \* the object
  Period    \* kReceiveTimeoutPeriod: 3

ASSUME ClientAssumption == Objects = {Client} /\ Period \in Nat

VARIABLES
  gga,      \* gga_buffer_: empty, generated, or set by the user
  updated,  \* gga_is_update_
  setting,  \* the application is in set_gga_buffer
  step,     \* where the service thread is in its work
  cnt,      \* receive_timeout_cnt
  silent    \* history: report intervals since the last data, up to Period + 1

sentence == <<gga, updated, setting>>
clock == <<step, cnt, silent>>
vars == <<sessionVars, gga, updated, setting, step, cnt, silent>>

ClientTypeOK ==
  /\ TypeOK
  /\ gga \in {"empty", "generated", "user"} /\ updated \in BOOLEAN
  /\ setting \in BOOLEAN
  /\ step \in {"none", "callback", "report", "generate", "send"}
  /\ cnt \in -1..Period /\ silent \in 0..(Period + 1)

ClientInit ==
  /\ Init
  /\ gga = "empty" /\ updated = FALSE /\ setting = FALSE
  /\ step = "none" /\ cnt = 0 /\ silent = 0

-----------------------------------------------------------------------------
(* The application: Run, Stop and set_gga_buffer, one at a time.           *)

Call ==
  /\ ~setting /\ (CallRun(Client) \/ CallStop(Client))
  /\ UNCHANGED <<sentence, clock>>

SetGgaBuffer ==
  /\ app.at = "idle" /\ ~setting
  /\ gga' = "user" /\ setting' = TRUE
  /\ UNCHANGED <<sessionVars, updated, clock>>

SetGgaFlag ==
  /\ setting
  /\ updated' = TRUE /\ setting' = FALSE
  /\ UNCHANGED <<sessionVars, gga, clock>>

ClientStop == Stop /\ UNCHANGED <<sentence, clock>>

(* A 200 OK is answered with a GGA sentence, generated if none is set;     *)
(* what else came in the same chunk is dropped.                            *)
Greet ==
  /\ \E n \in Runs : Accepted(n) \/ GreetFails(n)
  /\ gga' = IF gga = "empty" THEN "generated" ELSE gga
  /\ UNCHANGED <<updated, setting, clock>>

ClientRun ==
  \/ Greet
  \/ (Connect \/ Await \/ Decide) /\ UNCHANGED <<sentence, clock>>

-----------------------------------------------------------------------------
(* ThreadHandler.                                                          *)

Restart == cnt' = Period /\ silent' = 0

BeginService == Begin(Client) /\ Restart /\ UNCHANGED <<sentence, step>>

(* The callback; a full buffer is followed by another recv() at once.      *)
Data == RecvChunk(Client, "work") /\ Restart /\ step' = "callback" /\ UNCHANGED sentence

Called ==
  /\ step = "callback"
  /\ \/ Work(Client, "loop") /\ step' = "none"
     \/ step' = "report" /\ UNCHANGED sessionVars
  /\ UNCHANGED <<sentence, cnt, silent>>

NoData ==
  /\ RecvNothing(Client, "work") /\ step' = "report"
  /\ UNCHANGED <<sentence, cnt, silent>>

TooEarly ==
  /\ step = "report" /\ Work(Client, "loop") /\ step' = "none"
  /\ UNCHANGED <<sentence, cnt, silent>>

(* Mutant: gives up one interval early.                                    *)
GivesUpEarly == cnt <= 1

GivesUp == cnt <= 0

(* Mutant: the count is not taken down.                                    *)
CountKept == cnt

CountDown == cnt - 1

Report ==
  /\ step = "report"
  /\ cnt' = CountDown /\ silent' = IF silent > Period THEN silent ELSE silent + 1
  /\ \/ GivesUp /\ Work(Client, "check") /\ step' = "none"
     \/ ~GivesUp /\ step' = (IF updated THEN "send" ELSE "generate")
        /\ UNCHANGED sessionVars
  /\ UNCHANGED sentence

Generate ==
  /\ step = "generate"
  /\ gga' = "generated" /\ step' = "send"
  /\ UNCHANGED <<sessionVars, updated, setting, cnt, silent>>

SendGga ==
  /\ step = "send" /\ Work(Client, "loop") /\ step' = "none"
  /\ UNCHANGED <<sentence, cnt, silent>>

ClientThread ==
  \/ (Loop(Client) \/ RecvEnd(Client) \/ Leave(Client)) /\ UNCHANGED <<sentence, clock>>
  \/ BeginService \/ Data \/ Called \/ NoData \/ TooEarly \/ Report \/ Generate \/ SendGga

-----------------------------------------------------------------------------

InCall == ClientStop \/ ClientRun \/ SetGgaFlag

Next ==
  \/ Caster /\ UNCHANGED <<sentence, clock>>
  \/ Call \/ SetGgaBuffer \/ InCall \/ ClientThread

Spec == ClientInit /\ [][Next]_vars

(* Both threads are scheduled.                                             *)
FairSpec == Spec /\ WF_vars(InCall) /\ WF_vars(ClientThread)
-----------------------------------------------------------------------------
(* Properties.                                                             *)

(* The service thread gives a silent caster up after Period whole report   *)
(* intervals without data, and not one interval before.                    *)
SilenceTolerated ==
  [][step = "report" /\ silent' # silent =>
       (thread'[Client] = "check" <=> silent = Period)]_vars

Promise == INSTANCE Link WITH
  Connections <- Runs,
  call <- CallOf(Client), latest <- Latest(Client), granted <- Latest(Client) \in granted,
  held <- HeldBy(Client), worker <- thread[Client] \in Live

(* Seen without its flag, its descriptors and the steps of its threads,    *)
(* the client is a link.                                                   *)
ImplementsLink == Promise!Spec

(* A caster that stops sending, with or without closing, is given up, if   *)
(* the clock runs: the report interval elapses again and again.            *)
SilentEnds ==
  SF_vars(Report) /\ <>[][\A n \in Runs : Len(inbox'[n]) <= Len(inbox[n])]_vars
    => (thread[Client] = "begin" ~> thread[Client] \in {"none", "done"})

(* What the source says, and the code does not do.                         *)

(* A 200 OK that arrives within the 30 polls of 100 ms makes Run succeed.  *)
InTimeIsAccepted ==
  [][app.at = "decide" /\ app'.at # "decide" /\ desc[app.fd] \in granted =>
       thread'[app.obj] = "begin"]_vars

(* Once set_gga_buffer has returned, and the service thread has no report  *)
(* under way, its sentence is the one that will be sent.                   *)
UserGgaIsSent == updated /\ ~setting /\ step = "none" => gga = "user"
=============================================================================
