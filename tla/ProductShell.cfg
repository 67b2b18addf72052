CONSTANTS
  w1 = w1
  w2 = w2
  t1 = t1
  t2 = t2
  Workflows <- TwoWorkflows
  Texts <- OneText
  Broken = Broken
  First = First
  Foreign = Foreign
  NoWorkflow = NoWorkflow
  MaxActs = 5
SPECIFICATION FairSpec
INVARIANTS
  CurrentIsSelected
PROPERTIES
  TokensGoForward
  OldPageNeverOverwrites
  RunNeverOvertakesText
  NewerTextIsKept
  PressedRunGoesOn
CHECK_DEADLOCK FALSE
