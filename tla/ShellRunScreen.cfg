CONSTANTS
  w1 = w1
  w2 = w2
  t1 = t1
  t2 = t2
  Workflows <- TwoWorkflows
  Texts <- OneText
  Broken = Broken
  First = First
  Foreign = Foreign
  NoWorkflow = NoWorkflow
  MaxActs = 4
SPECIFICATION Spec
PROPERTIES
  RunIsOfTheScreen
CHECK_DEADLOCK FALSE
