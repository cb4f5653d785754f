\* One connection: set_gga_buffer against a report in progress.
SPECIFICATION Spec
CONSTANTS
  Client = client
  Objects = {client}
  Fds = {4, 5}
  Polls = 3
  Period = 2
  MaxRuns = 1
  MaxInbox = 2
INVARIANTS UserGgaIsSent
