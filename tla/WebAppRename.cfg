SPECIFICATION Spec
CONSTANTS
  r1 = r1  r2 = r2  n1 = n1  n2 = n2  d1 = d1  d2 = d2  dk = dk
  z1 = z1  z2 = z2  zk = zk  u1 = u1  bad = bad  f1 = f1
  NoKey = NoKey  NoObject = NoObject  NoName = NoName
  NDNS = NDNS  Unset = Unset  NoEntry = NoEntry
  Keys = {r1}
  Names = {n1, n2}
  Domains = {d1, d2, dk}
  Zones = {z1, z2, zk}
  ZoneOf <- Zone
  KeenDNSZone = zk
  Upstreams = {u1, bad}
  BadNames = {}
  BadUpstreams = {bad}
  BadZones = {}
  Flags = {f1}
  Prints = {"domain", "upstream", "flags", "level", "auth"}
  SpecsOf <- Renames
  MaxUserOps = 2
  MaxDrift = 0
  MaxFaults = 0
INVARIANTS
  NoEntryLeftBehind
CHECK_DEADLOCK FALSE
