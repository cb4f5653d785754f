------------------------------- MODULE Broker -------------------------------
(***************************************************************************)
(* What a caster promises its peers, with no descriptors and no sockets:   *)
(* a mount point is fed by at most one connection at a time; a payload     *)
(* reaches connections that follow the mount point its source feeds; what  *)
(* one connection receives comes from a single source, in the order that   *)
(* source sent it, each payload at most once; and when the source goes,    *)
(* every connection that followed it is let go with it.                    *)
(***************************************************************************)
EXTENDS Naturals, Sequences

CONSTANTS Conns, MountPoints, NoConn

VARIABLES
  publisher,    \* the connection that feeds a mount point, or NoConn
  subscribers,  \* the connections that follow a mount point
  got           \* the payloads each connection has received

vars == <<publisher, subscribers, got>>

Init ==
  /\ publisher = [mp \in MountPoints |-> NoConn]
  /\ subscribers = [mp \in MountPoints |-> {}]
  /\ got = [c \in Conns |-> <<>>]

Uncommitted(c) ==
  \A mp \in MountPoints : publisher[mp] # c /\ c \notin subscribers[mp]

Register(c, mp) ==
  /\ publisher[mp] = NoConn /\ Uncommitted(c)
  /\ publisher' = [publisher EXCEPT ![mp] = c]
  /\ UNCHANGED <<subscribers, got>>

Subscribe(c, mp) ==
  /\ publisher[mp] # NoConn /\ Uncommitted(c)
  /\ subscribers' = [subscribers EXCEPT ![mp] = @ \cup {c}]
  /\ UNCHANGED <<publisher, got>>

Unsubscribe(c, mp) ==
  /\ c \in subscribers[mp]
  /\ subscribers' = [subscribers EXCEPT ![mp] = @ \ {c}]
  /\ UNCHANGED <<publisher, got>>

Retire(mp) ==
  /\ publisher[mp] # NoConn
  /\ publisher' = [publisher EXCEPT ![mp] = NoConn]
  /\ subscribers' = [subscribers EXCEPT ![mp] = {}]
  /\ UNCHANGED got

(* A payload d of the publisher of mp is new to every subscriber in R.     *)
Deliver(mp, d, R) ==
  /\ publisher[mp] # NoConn /\ d.src = publisher[mp]
  /\ R \subseteq subscribers[mp]
  /\ \A c \in R : \A k \in DOMAIN got[c] :
       got[c][k].src = d.src /\ got[c][k].n < d.n
  /\ got' = [c \in Conns |-> IF c \in R THEN Append(got[c], d) ELSE got[c]]
  /\ UNCHANGED <<publisher, subscribers>>

(* The payload a step delivered, if it delivered one.                      *)
Delivered ==
  {got'[c][Len(got'[c])] : c \in {x \in Conns : Len(got'[x]) > Len(got[x])}}

Next ==
  \E mp \in MountPoints :
    \/ Retire(mp)
    \/ \E c \in Conns : Register(c, mp) \/ Subscribe(c, mp) \/ Unsubscribe(c, mp)
    \/ \E R \in SUBSET subscribers[mp], d \in Delivered : Deliver(mp, d, R)

Spec == Init /\ [][Next]_vars
=============================================================================
