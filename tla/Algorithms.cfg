SPECIFICATION Spec
CONSTANTS
  MaxLine = 4
  MaxScopes = 3
  MaxClasses = 4
  MaxFunctions = 4
  MaxDepth = 3
  MaxProcesses = 3
  MaxCandidates = 3
  ExcludedDirs = {"env"}
INVARIANTS
  ScopesExact
  OverridesRespected
  NamesTellFilesApart
  ProcessesBest
  LabelsTellApart
  SelectionEarned
  CompleteEarned
  AnswererCharged
  CallsReachDefinitions
  StraysExplained
  AccessesExact
  ScriptCallsExact
CHECK_DEADLOCK FALSE
