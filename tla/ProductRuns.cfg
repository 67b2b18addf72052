CONSTANTS
  p1 = p1
  p2 = p2
  r1 = r1
  r2 = r2
  m1 = m1
  m2 = m2
  Processes <- OneProcess
  RunIds <- TwoRuns
  Texts <- AllTexts
  Meanings <- AllMeanings
  Meaning <- MeaningOf
  Runnable <- RunnableMeanings
  Models <- TwoModels
  NoModel = NoModel
  FirstText = "a"
  MaxVersion = 3
SPECIFICATION Spec
SYMMETRY Symmetry
INVARIANTS
  TokenNamesContent
  RunMatchesItsRevision
  ArtifactsAreOnDisk
