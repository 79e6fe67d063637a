SPECIFICATION Spec
CONSTANTS
  Requester = {u1}
  Server = {s1, s2}
  Helper = {}
  AlwaysAvailable = {}
  Capacity <- OneEach
  Nobody = Nobody
  Preference = {joins_human, joins_nbnc}
  Runtimes = 1
  ReportTrigger = "message"
INVARIANTS ReportedIsReplaced
