CONSTANTS
  p1 = p1
  p2 = p2
  r1 = r1
  r2 = r2
  m1 = m1
  m2 = m2
  Processes <- TwoProcesses
  RunIds <- OneRun
  Texts <- AllTexts
  Meanings <- AllMeanings
  Meaning <- MeaningOf
  Runnable <- RunnableMeanings
  Models <- OneModel
  NoModel = NoModel
  FirstText = "a"
  MaxVersion = 2
  NoRun = NoRun
SPECIFICATION FairViewSpec
INVARIANTS
  ClosedViewIsComplete
PROPERTIES
  ImplementsRunArchive
  RunsAreClosed
