SPECIFICATION Spec
CONSTANTS
  Callers <- Disciplined
  MaxWords = 2
  MaxAttach = 2
INVARIANTS TypeOK OnePeer NoDanglingServicePort LookupsAreUnambiguous DisconnectUndoesConnect
