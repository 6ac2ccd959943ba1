SPECIFICATION Spec
CONSTANTS
  a = a
  b = b
  out = out
  Datasets = {a, b, out}
  Episodes <- TwoDatasets
  Videos <- Cameras
  Images <- Folders
  Missing <- TwoVideos
  MaxIndex = 6
  MaxEdits = 2
  MaxFaults = 1
INVARIANTS
  EditsAreExact
  NamesAgree
  NothingElseLost
CHECK_DEADLOCK FALSE
