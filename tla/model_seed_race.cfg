\* A download and a merge of one model.
CONSTANTS
  d1 = d1
  d2 = d2
  h1 = h1
  l1 = l1
  l2 = l2
  m1 = m1
  m2 = m2
  m3 = m3
  Downloads = {d1, d2}
  Manual = {h1}
  Links = {l1, l2}
  Models = {m1}
  NoActor = noActor
  Source <- Sources
  Declared <- Declares
  Workflow <- InOrder
  InitialFiles <- NoFile
  SeedFiles <- AnySeed
  Served <- GoodAnswer
  Casts <- RaceCast
  MaxKills = 0
  MaxFaults = 0
SPECIFICATION Spec
PROPERTY NoSilentOverwrite
