CONSTANTS
  AtomNames <- Atoms
  KindNames <- KindWords
  Extensions <- FileExtensions
  Cases <- AllCases
  MaxElements = 2
  Drafts <- AllDrafts
SPECIFICATION Behaviors
PROPERTY SearchSpec
CHECK_DEADLOCK FALSE
