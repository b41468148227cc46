\* Every handler gives the lock up; state.json does not exist at first.
CONSTANTS
  Api = {t1}
  Cli = {c1}
  ApiProcess = api
  InitProcess = init
  Pids = {p1}
  Runtimes = {r1}
  Versions = {v1}
  NoActor = noActor
  NoPid = noPid
  NoTarget = noTarget
  FreshWorkspace = TRUE
  MaxFaults = 1
SPECIFICATION FairSpec
PROPERTY LockIsReleased
