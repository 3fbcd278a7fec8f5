SPECIFICATION Spec
CONSTANTS
  c1 = c1
  c2 = c2
  c3 = c3
  c4 = c4
  p1 = p1
  Nobody = Nobody
  Clients <- MCClients
  Names = {1, 2, 3}
  NameOf <- MCNameOf
  Pings <- MCPings
INVARIANTS
  TypeOK
  NotifiedOnce
PROPERTIES
  SweepComplete
  SweepEnds
CHECK_DEADLOCK FALSE
