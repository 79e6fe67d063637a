SPECIFICATION FairSpec
CONSTANTS
  Runtime = {r1}
  NoRuntime = NoRuntime
  UpdateId = {1, 2}
  NoUpdate = NoUpdate
  BatchLimit = 2
  Ignored = {}
  Malformed = {1}
  Poison = {}
  MaxFaults = 0
PROPERTIES EveryUpdateHandled
