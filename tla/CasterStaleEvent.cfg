\* A batch of three events in which a descriptor is closed and accepted again.
SPECIFICATION ConformingSpec
CONSTANTS
  Conns = {c1, c2, c3}
  Fds = {4, 5}
  ListenFd = 3
  MountPoints = {mp1}
  Creds = {u1}
  Requests <- LibraryRequests
  MaxEvents = 3
  MaxSend = 3
  NoConn = NoConn
  NoMount = NoMount
  NoCred = NoCred
SYMMETRY Peers
PROPERTIES DroppedOnlyForCause
CHECK_DEADLOCK FALSE
