SPECIFICATION ShellSpec
CONSTANTS
  Batch <- MCBatch
  Autoexec = {"one"}
  Typed <- MCTyped
  Variables <- MCVariables
  Programs <- MCPrograms
  Inherited <- MCInherited
  BATCH_DEPTH = 3
  EnvSize = 12
  SETVER_MAX = 2
INVARIANTS
  JobAbandoned
  NothingLeft
  SettingsExact
