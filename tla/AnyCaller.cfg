SPECIFICATION Spec
CONSTANTS
  Callers <- AnyCallers
  MaxWords = 2
  MaxAttach = 2
INVARIANTS OwnersAreUnique FailedCallChangesNothing
PROPERTIES BuildKeepsExisting
