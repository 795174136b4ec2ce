SPECIFICATION Spec
CONSTANTS
  c1 = c1
  r1 = r1
  Consoles = {c1}
  Callers = {r1}
  Clients = {c1, r1}
  Values <- MCValues
  Capacity = 3
  MaxPages = 1
  MaxAdds = 0
  MaxRestarts = 0
  InitLines <- MCInitLines
  Commands <- MCCommands
  RawRequests <- MCRawRequests
PROPERTY GetNodeReturns
CHECK_DEADLOCK FALSE
