SPECIFICATION InputsSpec
CHECK_DEADLOCK FALSE
CONSTANTS
  LatencyMax = 100
  MaxText = 6
  MaxId = 5
  MaxElements = 3
  MaxFrame = 780
  Limits <- MCLimits
  Messages <- MCMessages
  Stores <- MCStores
  StoreBounds = {2380, 4000}
  Common <- MCCommon
  Epochs = {0, 1}
  Batches <- MCBatches
  BoundPaths = {1, 2, 3}
  Requirements <- MCRequirements
  Policies <- MCPolicies
  SampleLimit = 3
  SourceLimit = 2
  MaxTime = 2
  MaxPublished = 2
INVARIANTS
  ReadsWhatWasWritten
  ReadsExactlyTheMeaningful
  DamageIsNoticed
  RetainsTheNewest
  AcceptedInOrder
  BatchIsItsParts
  EligibleIsSupported
  AggregatesAreExact
  RankingIsStrict
  DominatedNeverLeads
PROPERTY
  NothingIsCountedTwice
