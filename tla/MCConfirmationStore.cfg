\* Two users share two tokens over two lifetimes; one restart; the wall clock
\* may be put back to 0 or forward to 3.
CONSTANTS
  alice = alice
  bob = bob
  t1 = t1
  t2 = t2
  stop = stop
  reboot = reboot
  NoUser = NoUser
  Users = {alice, bob}
  Tokens = {t1, t2}
  Requests = {stop, reboot}
  TTL = 2
  MaxTime = 3
  MaxEpoch = 1
  ClockSettings = {0, 3}
SPECIFICATION StoreSpec
INVARIANTS
  TypeOK
  SingleUse
  RedeemedAsIssued
  WithinTTL
  NoRevival
  StillRedeemable
PROPERTY ImplementsGrant
SYMMETRY Symmetry
