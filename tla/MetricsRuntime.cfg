\* The metrics runtime over three windows, with one client of the HTTP server.
SPECIFICATION FairSpec
CONSTANTS
  Types = {OrderFilled}
  Clients = {c1}
  Second = 2
  Window = 2
  MaxStaleness = 1
  MaxDelay = 1
  MaxNow = 8
  MaxLogs = 2
  OrderFilled = OrderFilled
  c1 = c1
INVARIANTS
  TypeOK
  RatesAreOfLastMinute
  OkIsOfOneMoment
PROPERTIES
  ShutdownEnds
