\* The constants of MCGflags, for what the docstring of Reset says.
CONSTANTS
  Registry <- MCRegistry
  Module <- MCModule
  NameOrder <- MCNameOrder
  Number <- MCNumber
  Importer = "main"
  Programs <- MCPrograms
  Disks <- MCDisks
SPECIFICATION Spec
INVARIANTS
  ResetRestores
