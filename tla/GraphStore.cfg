SPECIFICATION Spec
CONSTANTS
  NodeIDs = {n1, n2, n3}
  NodeClasses = {c1, c2}
  EdgeClasses = {has}
  Data = {d1}
  NoClass = NoClass
  Readers = {r1}
  MaxEdges = 2
SYMMETRY Symmetric
INVARIANTS TypeOK OrderListsNodes NoDanglingEdge
PROPERTIES InsertionOrderIsStable ImplementsContract FailureMeansInterference
