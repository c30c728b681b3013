SPECIFICATION Spec
CONSTANTS
  a = a
  b = b
  c = c
  r = r
  o = o
  Names = {a, b, c}
  Here = r
  Outside = o
  Roots = {c}
  Entries <- MCEntries
  Words = {"x", "y", "new", "partial", "name"}
  Patches <- MCPatches
  Raced <- MCRaced
  ByteLimit = 2
  RowLimit = 1
  MaxForeign = 2
  MaxElevations = 3
  None = None
  Absent = Absent
INVARIANTS
  OperationsTypeOK PatchMeansItsHunks FileAnswersAreTrue HashGuardsHold WritesAreClean
  ElevationIsHonest
SYMMETRY Symmetry
CHECK_DEADLOCK FALSE
