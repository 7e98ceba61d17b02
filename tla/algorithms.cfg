SPECIFICATION Spec
CONSTANTS
  Vocabulary <- MCVocabulary
  Bound <- MCBound
PROPERTIES
  TextIsCutRightly
  NumbersAreJudged
  DatesAreJudged
  ContextSparesClients
  HiddenComesBack
  SettingsMeanWhatTheySay
  PartsMakeAWhole
  WhatIsWantedIsMasked
  JournalIsClean
CHECK_DEADLOCK FALSE
