SPECIFICATION FairSpec
CONSTANTS
  Runtime = {r1, r2}
  NoRuntime = NoRuntime
  UpdateId = {1, 2, 4}
  NoUpdate = NoUpdate
  BatchLimit = 2
  Ignored = {2}
  Malformed = {}
  Poison = {4}
  MaxFaults = 2
INVARIANTS IngressInvariant EffectsExactlyOnce NoUpdateSkipped RepliesAtMostOnce ReplyLostOnlyByFault
PROPERTIES EveryUpdateHandled ImplementsLog
