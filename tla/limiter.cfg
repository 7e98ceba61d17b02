SPECIFICATION FairSpec
CONSTANTS
  Handlers = {h1, h2, h3, h4}
  Inflight = 2
  HeavyInflight = 1
INVARIANTS
  PlacesMatchHolders
  HeavyLeavesRoom
  OrdinaryTextsGoOn
PROPERTIES
  WaitersGetIn
