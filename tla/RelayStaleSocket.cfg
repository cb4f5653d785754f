\* The callback's SendData against a server whose connection ends.
SPECIFICATION Spec
CONSTANTS
  Client = client
  Server = server
  Objects = {client, server}
  Fds = {4, 5}
  Polls = 2
  MaxRuns = 2
  MaxInbox = 1
INVARIANTS SentToService
