SPECIFICATION Spec
CONSTANTS
  NamespaceLines = 2
  SmallClass = 2
  NormalTrigger = 1
  TestTrigger = 2
  Path <- MCPath
  Alphabet <- MCAlphabet
  CppHeaders <- MCCppHeaders
  Templates <- MCTemplates
  WorkingDirectory <- MCWorkingDirectory
  Disk <- MCDisk
  Repositories <- MCRepositories
  SvnDirectories <- MCSvnDirectories
  BladeRoots <- MCBladeRoots
  CppVar <- MCCppVar
  RawPatterns <- MCRawPatterns
  Patterns <- MCPatterns
  LanguagePatterns <- MCLanguagePatterns
  Commands <- MCCommands
INVARIANTS
  TypeOK
  CountsAgree
  NolintHolds
  ErrorsAreShown
  NestingIsOfKeptText
  ScopesAreBranches
  IncludesInOrder
  BracketsMatch
  TextIsOpaque
PROPERTIES
  Completes
