\* Peers of any kind: a chunk ParseData refuses closes a registered descriptor.
SPECIFICATION Spec
CONSTANTS
  Conns = {c1, c2}
  Fds = {4, 5}
  ListenFd = 3
  MountPoints = {mp1}
  Creds = {u1}
  Requests <- LibraryRequests
  MaxEvents = 2
  MaxSend = 2
  NoConn = NoConn
  NoMount = NoMount
  NoCred = NoCred
SYMMETRY Peers
INVARIANTS RoutedToSubscribers
CHECK_DEADLOCK FALSE
