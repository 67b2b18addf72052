SPECIFICATION CountedSpec
CONSTANTS
  Nodes <- LoopNodes
  HumanInputs = {"req"}
  Approvals = {}
  Agents = {"code"}
  MayOmit = {"code", "test"}
  Requires <- LoopRequires
  Accepts <- LoopAccepts
  AdviseFrom <- LoopAdvise
  DependsOn <- LoopDependsOn
  Rank <- LoopRank
  Parallelism = 2
  ConvergenceLimit = 2
  MaxHumanEvents = 3
INVARIANTS SettledMeansFresh NoSpuriousRound AdviceIsUsed
PROPERTIES MachineStopsInTime RunSettles
