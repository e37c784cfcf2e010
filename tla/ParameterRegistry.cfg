SPECIFICATION RegistrySpec
CONSTANTS
  Registries <- ThreeRegistries
  EvalRegistry = "eval"
  LmrRegistry = "lmr"
  Descriptors <- SmallDescriptors
  Schema = 1
  Files <- SomeFiles
  Contempts <- SomeContempts
  MaxContempt = 10
  TableSets <- OneSet
  NoTables = NoTables
INVARIANTS
  ResultsInForce
  FilesInForce
