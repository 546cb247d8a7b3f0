SPECIFICATION Spec
CONSTANTS
  None = None
  s1 = s1
  s2 = s2
  Subjects <- MCSubjects
  MaxFacts = 2
  MaxTime = 2
SYMMETRY MCSymmetry
PROPERTIES
  PastAnswersHold
  OnlyClaimsOfThenRewrite
CHECK_DEADLOCK FALSE
