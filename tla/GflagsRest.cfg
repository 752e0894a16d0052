\* The constants of MCGflags, with one program, for what a comment in __call__ says.
CONSTANTS
  Registry <- MCRegistry
  Module <- MCModule
  NameOrder <- MCNameOrder
  Number <- MCNumber
  Importer = "main"
  Programs <- RestPrograms
  Disks <- RestDisks
SPECIFICATION Spec
INVARIANTS
  RestIsReturned
