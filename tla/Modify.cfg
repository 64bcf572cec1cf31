SPECIFICATION Spec
CONSTANTS
  Specs <- Subsets
  MaxLeft = 3
INVARIANTS ModifyEqualsBuild ResubmitChangesNothing
PROPERTIES KeptElementsStay
CHECK_DEADLOCK FALSE
