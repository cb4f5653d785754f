\* Three conforming peers that share two descriptors, so that accept() reuses
\* one and meets a full table, against the abstract broker.
SPECIFICATION ConformingSpec
CONSTANTS
  Conns = {c1, c2, c3}
  Fds = {4, 5}
  ListenFd = 3
  MountPoints = {mp1}
  Creds = {u1}
  Requests <- LibraryRequests
  MaxEvents = 3
  MaxSend = 3
  NoConn = NoConn
  NoMount = NoMount
  NoCred = NoCred
SYMMETRY Peers
INVARIANTS OneSourceInOrder
PROPERTIES ImplementsBroker
CHECK_DEADLOCK FALSE
