CONSTANTS
  Sessions = {s1, s2}
  Names = {a, b}
  Facts = {x, y}
  Few = 1
  MaxItems = 2
  Threshold = 2
  MaxNew = 1
SPECIFICATION Spec
SYMMETRY Symmetry
CONSTRAINT NotRaced
INVARIANTS
  KeptUnlessRaced
  IndexIsTrue
  LoadMissesNothing
