\* Two connections, one after the other, and every interleaving of the
\* application's thread, the service thread and the caster.
SPECIFICATION FairSpec
CONSTANTS
  Client = client
  Objects = {client}
  Fds = {4, 5}
  Polls = 2
  Period = 2
  MaxRuns = 2
  MaxInbox = 2
INVARIANTS ClientTypeOK NoLeak ThreadServesItsRun ServesOnlyGranted StopIsFinal
PROPERTIES ImplementsLink SilenceTolerated StopReturns HangupNoticed SilentEnds
