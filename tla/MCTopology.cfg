CONSTANTS
  num_channel = 4
  inf_distance = 7
  LinkInts <- LinkOrNone
  DiagonalInts = {0}
SPECIFICATION Spec
INVARIANTS
  TypeOK
  NoWrap
  SolutionIsShortest
