SPECIFICATION Spec
CONSTANTS
  r1 = r1  r2 = r2  h1 = h1  h2 = h2  h3 = h3  a1 = a1  a2 = a2  bad = bad
  NoKey = NoKey  NoObject = NoObject
  Keys = {r1, r2}
  Hosts = {h1, h2, h3}
  Addrs = {a1, a2, bad}
  BadAddrs = {bad}
  SpecsOf <- RivalSpecs
  MaxHosts = 2
  AdminEntries <- ByHand
  MaxUserOps = 3
  MaxDrift = 1
  MaxFaults = 1
INVARIANTS
  AtMostOneAddress NoOrphan
PROPERTIES
  KeepsCustody
CHECK_DEADLOCK FALSE
