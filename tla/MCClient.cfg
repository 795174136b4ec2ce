SPECIFICATION Spec
CONSTANTS
  c1 = c1
  r1 = r1
  Consoles = {c1}
  Callers = {r1}
  Clients = {c1, r1}
  Values <- MCValues
  Capacity = 2
  MaxPages = 3
  MaxAdds = 5
  MaxRestarts = 1
  InitLines <- MCInitLines
  Commands <- MCCommands
  RawRequests <- MCRawRequests
INVARIANTS
  FillsBuildTheTree
PROPERTIES
  ServesADocument
  CreatesUnderThePath
  ConsolesDoNoHarm
  CommandsEnd
CHECK_DEADLOCK FALSE
