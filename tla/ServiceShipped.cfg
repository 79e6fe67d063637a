SPECIFICATION FairSpec
CONSTANTS
  doors = doors
  thanks = thanks
  end = end
  u1 = u1
  r1 = r1
  r2 = r2
  User = {u1}
  Runtime = {r1}
  Timestamp = {doors, thanks, end}
  NoTimestamp = NoTimestamp
  NoUser = NoUser
  OccursAt <- Schedule
  Audience <- ShippedAudience
  CheckInAt = doors
  DoorsOpen = 1
  DoorsClose = 2
  Ends = 3
  MaxClock = 4
  MaxMishaps = 0
PROPERTIES ServiceCloses
