CONSTANTS
  num_channel = 2
  inf_distance = 3
  LinkInts <- AllInts
  DiagonalInts <- AllInts
SPECIFICATION Spec
INVARIANTS
  SolutionCorrect
