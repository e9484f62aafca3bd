SPECIFICATION Spec
CONSTANTS
  Torrents = {"a", "b", "c"}
  Callers = {c1, c2}
  c1 = c1
  c2 = c2
  PathOf <- MCPathOf
  Extent <- MCExtent
  Target <- MCTarget
  MaxOpen = 1
  MaxFd = 6
  MaxInode = 5
  MaxCalls = 2
  MaxDeletes = 1
  Dropped = {"a"}
  MaxCloses = 1
  Early = {"c"}
  LateOpens = TRUE
SYMMETRY MCSymmetry
PROPERTIES DataSpec
