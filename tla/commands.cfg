SPECIFICATION Spec
CONSTANTS
  Words <- AllWords
  Sources <- OneSource
  ArgLists <- AllArgLists
  Programs <- SomePrograms
  LinkStatuses <- SomeStatuses
  MaxRuns = 2
INVARIANTS TypeOK OnlyAccepted SuccessFresh FailureKeeps
PROPERTIES OptionsRead
