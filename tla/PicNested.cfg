CONSTANTS
  N = 3
  Cascade = 1
  MaxRaises = 2
  Features = {}
SPECIFICATION Spec
INVARIANTS SlaveIsHeard
PROPERTIES NestsByPriority RequestsAreTaken
