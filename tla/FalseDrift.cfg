SPECIFICATION Spec
CONSTANTS
  Specs <- SameNames
  MaxLeft = 0
INVARIANT SameSliceNoDrift
