\* A local and a Hugging Face model, one kill, and one bad answer or raising file operation.
CONSTANTS
  d1 = d1
  d2 = d2
  h1 = h1
  l1 = l1
  l2 = l2
  m1 = m1
  m2 = m2
  m3 = m3
  Downloads = {d1, d2}
  Manual = {h1}
  Links = {l1, l2}
  Models = {m1, m3}
  NoActor = noActor
  Source <- Sources
  Declared <- Declares
  Workflow <- InOrder
  InitialFiles <- AnyFile
  SeedFiles <- AnySeed
  Served <- AnyAnswer
  Casts <- AllCasts
  MaxKills = 1
  MaxFaults = 1
SPECIFICATION FairSpec
INVARIANTS
  PublishedIsVerified
  MissingOrDownloading
  ConflictMovesNothing
PROPERTIES
  DownloadedIsOwn
  SeedKept
  RetryCompletes
  MergeCompletes
  ImplementsModelShelf
CHECK_DEADLOCK FALSE
