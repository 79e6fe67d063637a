SPECIFICATION Spec
CONSTANTS
  root = root
  nevermind = nevermind
  thanks = thanks
  group = group
  follow = follow
  home = home
  connect = connect
  interest = interest
  found = found
  topic = topic
  leave = leave
  doors = doors
  checkin = checkin
  attending = attending
  Flow = {root, home, doors, checkin, attending}
  NoFlow = NoFlow
  Parent <- MCParent
  Tree <- MCTree
  Mode <- MCMode
  Trigger <- MCTrigger
  Returns <- MCReturns
  Enters <- MCEnters
  Checkpoints <- MCCheckpoints
  System = root
  Home = home
  MaxPending = 2
INVARIANTS NoDispatchRaises
