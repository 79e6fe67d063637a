SPECIFICATION Spec
CONSTANTS
  root = root
  nevermind = nevermind
  thanks = thanks
  group = group
  follow = follow
  home = home
  connect = connect
  interest = interest
  found = found
  topic = topic
  leave = leave
  doors = doors
  checkin = checkin
  attending = attending
  Flow = {root, nevermind, thanks, group, follow, home, connect, interest, found, topic, leave, doors, checkin, attending}
  NoFlow = NoFlow
  Parent <- MCParent
  Tree <- MCTree
  Mode <- MCMode
  Trigger <- MCTrigger
  Returns <- MCReturns
  Enters <- MCEnters
  Checkpoints <- MCCheckpoints
  System = root
  Home = home
  MaxPending = 2
INVARIANTS ConversationInvariant ReturnTargetOpen NeverStranded ClosedRowsRest
PROPERTIES OnlyOnceConsumed
