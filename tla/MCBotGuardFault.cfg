CONSTANTS
  alice = alice
  bob = bob
  mallory = mallory
  i1 = i1
  i2 = i2
  t1 = t1
  t2 = t2
  NoUser = NoUser
  NoArg = NoArg
  BadProfile = BadProfile
  NoTarget = NoTarget
  NoToken = NoToken
  Users = {alice, mallory}
  Allowed = {alice}
  Instances = {i1}
  Tokens = {t1}
  Requests <- MCRequests
  ClockSettings <- NoClockSettings
  TTL = 1
  MaxTime = 1
  MaxEpoch = 0
  Commands = {"start_instance"}
  Args = {i1}
  Listings <- OneInstance
  Services <- NoServices
  Faults = {"telegram"}
  MaxUpdates = 1
  MaxChunks = 1
SPECIFICATION BotSpec
INVARIANT AllowlistEnforced
CHECK_DEADLOCK FALSE
