-------------------------------- MODULE Link --------------------------------
(***************************************************************************)
(* What an NtripClient or an NtripServer promises the application that     *)
(* calls its Run and Stop, with no flag, no descriptor and no lock: it     *)
(* holds one connection at a time; Run dials a new one when the last is    *)
(* closed and its service thread is gone, starts a thread when the caster  *)
(* has granted it, and otherwise returns with nothing held; the thread     *)
(* ends when its connection is closed; and Stop returns when nothing is    *)
(* held and no thread is left.                                             *)
(***************************************************************************)
EXTENDS Naturals

CONSTANT Connections  \* natural numbers, in the order they are made

VARIABLES
  call,      \* none, stop, or run, and wait once Run has sent the request
  latest,    \* the connection dialed last, 0 before the first
  granted,   \* the caster has answered 200 OK on it
  held,      \* the connections that are open
  worker     \* a service thread serves the latest

vars == <<call, latest, granted, held, worker>>

Init == call = "none" /\ latest = 0 /\ ~granted /\ held = {} /\ ~worker

Call ==
  /\ call = "none" /\ call' \in {"run", "stop"}
  /\ UNCHANGED <<latest, granted, held, worker>>

(* Stop, or a Run that cannot connect, is over.                            *)
Return ==
  /\ call \in {"run", "stop"} /\ held = {} /\ ~worker
  /\ call' = "none"
  /\ UNCHANGED <<latest, granted, held, worker>>

Dial(n) ==
  /\ call = "run" /\ held = {} /\ ~worker /\ n > latest
  /\ call' = "wait" /\ latest' = n /\ held' = {n} /\ granted' = FALSE
  /\ UNCHANGED worker

Grant ==
  /\ call = "wait" /\ held = {latest}
  /\ granted' = TRUE
  /\ UNCHANGED <<call, latest, held, worker>>

Start ==
  /\ call = "wait" /\ granted
  /\ worker' = TRUE /\ call' = "none"
  /\ UNCHANGED <<latest, granted, held>>

(* Run gives the connection up, granted or not.                            *)
Fail ==
  /\ call = "wait"
  /\ call' = "none" /\ held' = {}
  /\ granted' \in {granted, granted \/ held = {latest}}
  /\ UNCHANGED <<latest, worker>>

(* The connection is closed, by whom and when ever.                        *)
Lose ==
  /\ held # {} /\ held' = {}
  /\ UNCHANGED <<call, latest, granted, worker>>

Finish ==
  /\ worker /\ held = {}
  /\ worker' = FALSE
  /\ UNCHANGED <<call, latest, granted, held>>

Next ==
  \/ Call \/ Return \/ (\E n \in Connections : Dial(n)) \/ Grant \/ Start \/ Fail
  \/ Lose \/ Finish

Spec == Init /\ [][Next]_vars
=============================================================================
