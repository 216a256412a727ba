CONSTANTS
  alice = alice
  bob = bob
  mallory = mallory
  i1 = i1
  i2 = i2
  t1 = t1
  t2 = t2
  NoUser = NoUser
  NoArg = NoArg
  BadProfile = BadProfile
  NoTarget = NoTarget
  NoToken = NoToken
  Users = {alice}
  Allowed = {alice}
  Instances = {i1, i2}
  Tokens = {t1}
  Requests <- MCRequests
  ClockSettings <- NoClockSettings
  TTL = 1
  MaxTime = 0
  MaxEpoch = 0
  Commands = {"status", "instances", "boot_volumes", "instance", "security_list", "public_ip", "quota"}
  Args = {i1, i2, NoArg, BadProfile}
  Listings <- AnyListing
  Services <- TwoServices
  Faults = {"telegram", "oci"}
  MaxUpdates = 2
  MaxChunks = 2
SPECIFICATION BotSpec
INVARIANTS
  OneRecordEach
CHECK_DEADLOCK FALSE
