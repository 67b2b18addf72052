SPECIFICATION CountedSpec
CONSTANTS
  Nodes <- PairNodes
  HumanInputs = {"req"}
  Approvals = {"review"}
  Agents = {"api"}
  MayOmit = {}
  Requires <- PairRequires
  Accepts <- PairAccepts
  AdviseFrom <- PairAdvise
  DependsOn <- PairDependsOn
  Rank <- PairRank
  Parallelism = 2
  ConvergenceLimit = 2
  MaxHumanEvents = 5
INVARIANTS RejectionIsReworked
