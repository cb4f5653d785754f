\* One connection: a 200 OK found by the last poll.
SPECIFICATION Spec
CONSTANTS
  Client = client
  Objects = {client}
  Fds = {4, 5}
  Polls = 3
  Period = 2
  MaxRuns = 1
  MaxInbox = 2
PROPERTIES InTimeIsAccepted
