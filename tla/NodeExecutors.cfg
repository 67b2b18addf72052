CONSTANTS
  Threshold = 80
  Maximum = 2
  IncludeTests = FALSE
  ExcludeGenerated = TRUE
  Limit = 3
  MaxOutput = 2
  Evidence <- Evidences
  Requests <- TwoRequests
  Asks <- KindsOf
  Typing <- WhatOneTypes
  MaxLines <- EnoughLines
SPECIFICATION FairSpec
INVARIANTS
  StoredRunIsWhole
  VerdictIsEarned
  LonePromptsAreAnsweredAsMeant
PROPERTIES
  KillEndsRun
  CanceledRequestReturns
CHECK_DEADLOCK FALSE
