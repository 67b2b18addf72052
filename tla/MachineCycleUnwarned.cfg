CONSTANTS
  AtomNames <- Atoms
  KindNames <- KindWords
  Extensions <- FileExtensions
  Cases <- AllCases
  MaxElements = 2
  Drafts <- AllDrafts
SPECIFICATION Behaviors
INVARIANTS
  MachineCyclesAreWarned
CHECK_DEADLOCK FALSE
