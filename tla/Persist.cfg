SPECIFICATION Spec
CONSTANTS
  Names = {"vm1", "None"}
  Options <- ProgramOptions
  Statements <- OrchestratorStatements
  LabelSets <- CallersLabels
  MaxStatements = 2
INVARIANTS TypeOK StatementsStay ReloadIsExact DriftIsStated
