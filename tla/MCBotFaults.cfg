CONSTANTS
  alice = alice
  bob = bob
  mallory = mallory
  i1 = i1
  i2 = i2
  t1 = t1
  t2 = t2
  NoUser = NoUser
  NoArg = NoArg
  BadProfile = BadProfile
  NoTarget = NoTarget
  NoToken = NoToken
  Users = {alice, bob}
  Allowed = {alice, bob}
  Instances = {i1}
  Tokens = {t1, t2}
  Requests <- MCRequests
  ClockSettings <- NoClockSettings
  TTL = 1
  MaxTime = 0
  MaxEpoch = 1
  Commands = {"start_instance", "stop_instance"}
  Args = {i1}
  Listings <- OneInstance
  Services <- NoServices
  Faults = {"telegram", "oci", "disk"}
  MaxUpdates = 3
  MaxChunks = 1
SPECIFICATION BotSpec
INVARIANTS
  ConfirmedOnly
  OneEffectEach
  CancelHolds
  TellsTruth
PROPERTY ImplementsDaemon
SYMMETRY Symmetry
CHECK_DEADLOCK FALSE
