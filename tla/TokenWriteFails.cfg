SPECIFICATION Spec
CONSTANTS
  Sources = {p}
  Threads = {t1, t2}
  Faults = {"write"}
  Nobody = Nobody
  refreshSkew = 1
  Lifetimes = {0, 1, 3}
  MaxTime = 4
  MaxRefresh = 3
INVARIANTS NothingRejected
