CONSTANTS
  Kinds = {"cpu", "nginx"}
  Sustain <- MCSustain
  MaxHistory = 7
SPECIFICATION MCSpec
INVARIANTS
  OpensExactlyOnce
  ResolvesExactlyOnce
