\* Two connections, of one object or of each, and every interleaving of the
\* application's thread, the two service threads and the casters.
SPECIFICATION FairSpec
CONSTANTS
  Client = client
  Server = server
  Objects = {client, server}
  Fds = {4, 5}
  Polls = 2
  MaxRuns = 2
  MaxInbox = 1
INVARIANTS RelayTypeOK NoLeak ThreadsKeepApart StopIsFinal
PROPERTIES ImplementLinks ClosesItsOwn StopReturns EitherHangupNoticed
