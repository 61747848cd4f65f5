SPECIFICATION Spec
CONSTANTS
  r1 = r1  r2 = r2  h1 = h1  h2 = h2  h3 = h3  a1 = a1  a2 = a2  bad = bad
  NoKey = NoKey  NoObject = NoObject
  Keys = {r1, r2}
  Hosts = {h1, h2, h3}
  Addrs = {a1, a2, bad}
  BadAddrs = {bad}
  SpecsOf <- EditedSpecs
  MaxHosts = 2
  AdminEntries <- NothingByHand
  MaxUserOps = 4
  MaxDrift = 0
  MaxFaults = 1
INVARIANTS
  TypeOK WriteUnderFinalizer NoLostWakeup ReadyIsTrue
CHECK_DEADLOCK FALSE
