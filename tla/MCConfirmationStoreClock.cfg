\* The same instance, asked whether a token is ever honoured TTL or later in
\* real time, the wall clock being set included.
CONSTANTS
  alice = alice
  bob = bob
  t1 = t1
  t2 = t2
  stop = stop
  reboot = reboot
  NoUser = NoUser
  Users = {alice, bob}
  Tokens = {t1, t2}
  Requests = {stop, reboot}
  TTL = 2
  MaxTime = 3
  MaxEpoch = 1
  ClockSettings = {0, 3}
SPECIFICATION StoreSpec
INVARIANT ValidForTTL
SYMMETRY Symmetry
