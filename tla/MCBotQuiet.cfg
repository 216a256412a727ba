CONSTANTS
  alice = alice
  bob = bob
  mallory = mallory
  i1 = i1
  i2 = i2
  t1 = t1
  t2 = t2
  NoUser = NoUser
  NoArg = NoArg
  BadProfile = BadProfile
  NoTarget = NoTarget
  NoToken = NoToken
  Users = {alice, mallory}
  Allowed = {alice}
  Instances = {i1}
  Tokens = {t1, t2}
  Requests <- MCRequests
  ClockSettings <- NoClockSettings
  TTL = 1
  MaxTime = 1
  MaxEpoch = 0
  Commands = {"start_instance", "stop_instance", "reboot_instance", "whoami"}
  Args = {i1, NoArg}
  Listings <- OneInstance
  Services <- NoServices
  Faults = {}
  MaxUpdates = 3
  MaxChunks = 1
SPECIFICATION BotSpec
INVARIANTS
  BotTypeOK
  AllowlistEnforced
  ConfirmedOnly
  OneRecordEach
  EffectsAudited
  NoStaleButtons
SYMMETRY TokenSymmetry
CHECK_DEADLOCK FALSE
