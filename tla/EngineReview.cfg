SPECIFICATION CountedSpec
CONSTANTS
  Nodes <- BesideNodes
  HumanInputs = {"req"}
  Approvals = {"accept"}
  Agents = {"api"}
  MayOmit = {}
  Requires <- BesideRequires
  Accepts <- BesideAccepts
  AdviseFrom <- BesideAdvise
  DependsOn <- BesideDependsOn
  Rank <- BesideRank
  Parallelism = 2
  ConvergenceLimit = 2
  MaxHumanEvents = 5
INVARIANTS OnlyApprovalOpensGate
PROPERTIES OverrulesOnlyNodesAtWork CancelEndsRun ImplementsRunLedger
