------------------------------ MODULE CasterMC ------------------------------
(* Instances of Caster for TLC.                                            *)
EXTENDS Caster

PostFor(mount, cred, str, ok) ==
  [kind |-> "post", mount |-> mount, cred |-> cred, str |-> str, strOk |-> ok]
GetFor(mount, cred) == [kind |-> "get", mount |-> mount, cred |-> cred]

(* What NtripServer and NtripClient send when they are configured as the   *)
(* examples are: an Ntrip-STR that names the mount point.                  *)
LibraryRequests ==
  {PostFor(mp, cr, mp, TRUE) : mp \in MountPoints, cr \in Creds} \cup
  {GetFor(mp, cr) : mp \in MountPoints, cr \in Creds}

(* A representative of everything the two request parsers tell apart: a    *)
(* POST that is refused (no mount point, no credentials, an Ntrip-STR that *)
(* contradicts the mount point), one whose Ntrip-STR is missing, one the   *)
(* examples send; a GET with and without credentials.                      *)
AnyRequests ==
  LibraryRequests \cup
  {PostFor(NoMount, cr, NoMount, TRUE) : cr \in Creds} \cup
  {PostFor(mp, NoCred, mp, TRUE) : mp \in MountPoints} \cup
  {PostFor(mp, cr, mp, FALSE) : mp \in MountPoints, cr \in Creds} \cup
  {PostFor(mp, cr, NoMount, TRUE) : mp \in MountPoints, cr \in Creds} \cup
  {GetFor(mp, NoCred) : mp \in MountPoints}

Peers == Permutations(Conns)
PeersAndMounts == Permutations(Conns) \cup Permutations(MountPoints)
=============================================================================
