\* Two requests, one of them a stream, for one slot and a window of two tokens.
SPECIFICATION FairSpec
CONSTANTS
  Requests = {"r1", "r2"}
  Kind <- TwoKinds
  Asked <- TwoAsked
  Slots = 1
  QuotaLimit = 2
  MaxWindows = 1
  MaxCancels = 2
CHECK_DEADLOCK FALSE
INVARIANTS
  SlotsConserved
  QuotaExact
  GaugeExact
  AnswersComplete
  ShutdownDrains
PROPERTIES
  RequestsEnd
  ShutdownEnds
