SPECIFICATION CountedSpec
CONSTANTS
  Nodes <- ReviewNodes
  HumanInputs = {"req"}
  Approvals = {"review"}
  Agents = {"code"}
  MayOmit = {}
  Requires <- ReviewRequires
  Accepts <- ReviewAccepts
  AdviseFrom <- ReviewAdvise
  DependsOn <- ReviewDependsOn
  Rank <- ReviewRank
  Parallelism = 1
  ConvergenceLimit = 2
  MaxHumanEvents = 4
INVARIANTS NoHumanWaitAtEnd
