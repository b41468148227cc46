\* Two commands at a time on runtimes, versions or plugins; two failing steps, one kill.
CONSTANTS
  n0 = n0
  n1 = n1
  r1 = r1
  r2 = r2
  k1 = k1
  k2 = k2
  v1 = v1
  v2 = v2
  v3 = v3
  p1 = p1
  p2 = p2
  Commands = {c1, c2}
  NoCommand = noCommand
  NoWork = noWork
  MaxFaults = 2
  MaxKills = 1
  Names = {n0, n1}
  Registered = {n0}
  Refs = {r1, r2}
  Commits = {k1, k2}
  NoCommit = noCommit
  VersionIds = {v1, v2, v3}
  VersionId <- IdOf
  PluginOrder <- Order
  Shifts <- AllShifts
SPECIFICATION FairSpec
INVARIANTS
  ListedIsTrue
  FailureLeavesNothing
PROPERTIES
  RetrySucceeds
  QuietPlugins
CHECK_DEADLOCK FALSE
