\* Two rings, one of them written to, as in a runtime with a single domain.
SPECIFICATION Spec
CONSTANTS
  max_domains = 2
  Writers = {0}
  Size = 8
  Kinds <- MCKinds
  MaxOptions <- MCMaxOptions
  MaxPos = 16
INVARIANTS EventsInReach
PROPERTIES RefinesLossyLog
