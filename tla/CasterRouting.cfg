\* Three conforming peers and two mount points.
SPECIFICATION ConformingSpec
CONSTANTS
  Conns = {c1, c2, c3}
  Fds = {4, 5, 6}
  ListenFd = 3
  MountPoints = {mp1, mp2}
  Creds = {u1}
  Requests <- LibraryRequests
  MaxEvents = 3
  MaxSend = 2
  NoConn = NoConn
  NoMount = NoMount
  NoCred = NoCred
SYMMETRY PeersAndMounts
INVARIANTS TableDenotesPeers RoutedToSubscribers SourceTableMatches
PROPERTIES MembersDroppedOnlyForCause
CHECK_DEADLOCK FALSE
