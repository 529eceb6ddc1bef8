SPECIFICATION SnapshotSpec
CONSTANTS
  Savers = {s1, s2}
  UnderLock = FALSE
  Staged = TRUE
  Inodes = {i1, i2, i3}
  NoInode = none
  MaxVersion = 2
  Size <- MCSize
SYMMETRY Symmetry
INVARIANT
  SavesSurvive
