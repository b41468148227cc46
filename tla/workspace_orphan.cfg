\* A start cut short after Popen, then a switch.
CONSTANTS
  Api = {t1}
  Cli = {c1}
  ApiProcess = api
  InitProcess = init
  Pids = {p1, p2}
  Runtimes = {r1, r2}
  Versions = {}
  NoActor = noActor
  NoPid = noPid
  NoTarget = noTarget
  FreshWorkspace = FALSE
  MaxFaults = 1
SPECIFICATION Spec
PROPERTY NoSwitchWhileServiceRuns
