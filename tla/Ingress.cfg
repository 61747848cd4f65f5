SPECIFICATION Spec
CONSTANTS
  i1 = i1  i2 = i2  ns = ns  h = h  g = g  n1 = n1  n2 = n2  zk = zk  z2 = z2
  a1 = a1  a2 = a2  u1 = u1  bad = bad  byHand = byHand
  NoKey = NoKey  NoObject = NoObject  Absent = Absent  Typo = Typo  NoSpec = NoSpec
  Keys = {i1, i2}
  Hosts = {h, g}
  Names = {n1, n2}
  LabelOf <- Label
  ZoneOf <- SubZone
  KeenDNSZone = zk
  BadNames = {}
  BadUpstreams = {bad}
  BadZones = {}
  DefaultUpstream = u1
  DefaultPort = 80
  DefaultScheme = Absent
  DefaultLevel = Absent
  PublishByDefault = TRUE
  Namespaces = {ns}
  NamespaceOf <- SameNamespace
  Addrs = {a1, a2}
  DefaultAddress = Absent
  SpecsOf <- Sharing
  StartsWith <- Started
  ByHand <- HandMade
  MaxUserOps = 1
  MaxFaults = 1
INVARIANTS
  TypeOK ClaimsAreHeld ClaimsAreReleased NothingExposedByTypo PublishedAsAsked
PROPERTIES
  Converges RewritingCeases
CHECK_DEADLOCK FALSE
