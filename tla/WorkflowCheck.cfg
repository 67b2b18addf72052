CONSTANTS
  AtomNames <- Atoms
  KindNames <- KindWords
  Extensions <- FileExtensions
  Cases <- AllCases
  MaxElements = 2
  Drafts <- AllDrafts
SPECIFICATION Behaviors
INVARIANTS
  BindingsFit
  ReportedCycleIsReal
  GroupsAreCycles
CHECK_DEADLOCK FALSE
