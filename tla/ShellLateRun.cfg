CONSTANTS
  w1 = w1
  w2 = w2
  t1 = t1
  t2 = t2
  Workflows <- OneWorkflow
  Texts <- OneText
  Broken = Broken
  First = First
  Foreign = Foreign
  NoWorkflow = NoWorkflow
  MaxActs = 6
SPECIFICATION Spec
PROPERTIES
  LateRunNeverOverwrites
CHECK_DEADLOCK FALSE
