\* Two API threads and a command line, two runtimes, one crash or failed write.
CONSTANTS
  Api = {t1, t2}
  Cli = {c1}
  ApiProcess = api
  InitProcess = init
  Pids = {p1, p2}
  Runtimes = {r1, r2}
  Versions = {v1}
  NoActor = noActor
  NoPid = noPid
  NoTarget = noTarget
  FreshWorkspace = FALSE
  MaxFaults = 1
SPECIFICATION Spec
SYMMETRY Interchangeable
INVARIANTS
  TypeOK
  LockExclusion
  ServiceIsRecorded
  ServiceRunsSelection
  ServiceInvariant
  SelectionIsWhole
PROPERTIES
  SignalsOnlyComfy
  NeverForgotten
  ImplementsServiceControl
