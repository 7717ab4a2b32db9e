CONSTANTS
  r = r
  k1 = k1
  k2 = k2
  Root = r
  Kid = {k1, k2}
  RootCalls <- MCRootCalls
  KidCalls <- MCKidCalls
  Value = {"a", "b"}
  Cancelling = {k1}
  MaxCrashes = 1
  MaxResumes = 1
SPECIFICATION ChildSpec
INVARIANTS
  OneChild
  ResumesNotRestarts
  ResultIsChilds
PROPERTY ParkedEnds
CHECK_DEADLOCK FALSE
