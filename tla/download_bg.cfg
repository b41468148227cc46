\* Three commands, two downloads, one interrupt or failed write, and one kill.
CONSTANTS
  Commands = {c1, c2, c3}
  Downloads = {d1, d2}
  Pids = {p1, p2}
  NoPid = noPid
  NoDownload = noDownload
  MaxCuts = 1
  MaxKills = 1
  MaxForeign = 1
SPECIFICATION Spec
SYMMETRY Interchangeable
INVARIANTS
  OneRunner
  RunnerIsActive
  AnswerIsTrue
  StartLockIsHeld
CHECK_DEADLOCK FALSE
