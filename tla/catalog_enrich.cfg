\* Two commands of every kind, at once or one after the other; one is cut short.
CONSTANTS
  f1 = f1
  f2 = f2
  x = x
  y = y
  z = z
  old = old
  new = new
  EmptyFile = emptyFile
  Nothing = nothing
  Commands = {c1, c2}
  Files = {f1, f2}
  Layouts <- AllLayouts
  Models = {x, y, z}
  Home <- ModelHome
  Selections <- AllSelections
  Contents = {old, new, emptyFile}
  MaxAsks = 2
  MaxFaults = 1
SYMMETRY AnyCommand
SPECIFICATION Spec
INVARIANTS
  FilesSayWhatWasAnnounced
CHECK_DEADLOCK FALSE
