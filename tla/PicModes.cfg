CONSTANTS
  N = 2
  Cascade = 1
  MaxRaises = 2
  Features = {"special", "poll", "level", "reinit", "autoeoi", "rotate"}
SPECIFICATION Spec
CONSTRAINT OneIsUnusual
INVARIANTS NothingForgotten TypeOK WiresAgree
PROPERTIES RequestsAreKept
