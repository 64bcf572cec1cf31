SPECIFICATION Spec
CONSTANTS
  Goroutines = {t1, t2, t3}
  t1 = t1 t2 = t2 t3 = t3
  Start <- Slice
  Calls <- AllCalls
  MaxCalls = 3
INVARIANTS NamesStayUnique AttachmentsAreWhole LabelsLostOnlyByOverlap VLANsClashOnlyByOverlap
CHECK_DEADLOCK FALSE
SYMMETRY Symmetry
