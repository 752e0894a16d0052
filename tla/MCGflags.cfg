\* Three registries and three modules, one of them gflags; a client makes at most eight calls.
CONSTANTS
  Registry <- MCRegistry
  Module <- MCModule
  NameOrder <- MCNameOrder
  Number <- MCNumber
  Importer = "main"
  Programs <- MCPrograms
  Disks <- MCDisks
SPECIFICATION Spec
INVARIANTS
  SearchIsFull
  HelpIsCurrent
  PrefixesAreUnique
  RestIsUntouched
  MultiHoldsWhatWasGiven
  SavedIsRestored
PROPERTIES
  NamesAreSafe
  ListsFollowNames
  Completes
