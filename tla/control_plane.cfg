\* Two commands, each any number of times, on two pids; two faults, one interrupt.
CONSTANTS
  db = db
  http = http
  Commands = {c1, c2}
  Pids = {a1, a2}
  NoPid = noPid
  Other = other
  Order <- Providers
  MaxFaults = 2
  MaxCuts = 1
SPECIFICATION Spec
INVARIANTS
  ProvidersUnwind
  OneRecordedApi
PROPERTIES
  ImplementsApiHost
