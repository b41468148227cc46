\* Three commands, and nothing fails.
CONSTANTS
  Commands = {c1, c2, c3}
  Downloads = {d1, d2}
  Pids = {p1, p2}
  NoPid = noPid
  NoDownload = noDownload
  MaxCuts = 0
  MaxKills = 0
  MaxForeign = 0
SPECIFICATION Spec
INVARIANT OneBackgroundDownload
CHECK_DEADLOCK FALSE
