\* Peers of any kind: every request the parser tells apart, at any time.
SPECIFICATION FairSpec
CONSTANTS
  Conns = {c1, c2}
  Fds = {4, 5}
  ListenFd = 3
  MountPoints = {mp1}
  Creds = {u1}
  Requests <- AnyRequests
  MaxEvents = 2
  MaxSend = 1
  NoConn = NoConn
  NoMount = NoMount
  NoCred = NoCred
INVARIANTS TypeOK MountPointsUnique
PROPERTIES GoneIsForgotten
CHECK_DEADLOCK FALSE
