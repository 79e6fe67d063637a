SPECIFICATION Spec
CONSTANTS
  Requester = {u1, u2}
  Server = {s1, s2}
  Helper = {h1}
  AlwaysAvailable = {h1}
  Capacity <- OneEach
  Nobody = Nobody
  Preference = {joins_human, joins_nbnc}
  Runtimes = 2
  ReportTrigger = "button"
SYMMETRY MatchSymmetry
INVARIANTS CapacityLedger ExcludedNeverAssigned ClosureReturnsCapacity MatchingInvariant
PROPERTIES ResolvedIsFinal
