CONSTANTS
  alice = alice
  bob = bob
  mallory = mallory
  i1 = i1
  i2 = i2
  t1 = t1
  t2 = t2
  NoUser = NoUser
  NoArg = NoArg
  BadProfile = BadProfile
  NoTarget = NoTarget
  NoToken = NoToken
  Users = {alice}
  Allowed = {alice}
  Instances = {i1}
  Tokens = {t1}
  Requests <- MCRequests
  ClockSettings <- NoClockSettings
  TTL = 2
  MaxTime = 2
  MaxEpoch = 0
  Commands = {"stop_instance"}
  Args = {i1}
  Listings <- OneInstance
  Services <- NoServices
  Faults = {}
  MaxUpdates = 2
  MaxChunks = 1
SPECIFICATION BotSpec
INVARIANT InTimeClickCounts
CHECK_DEADLOCK FALSE
