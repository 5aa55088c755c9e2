\* Two uplinks on networks of their own; it stops when no change is left.
SPECIFICATION Spec
CHECK_DEADLOCK FALSE
CONSTANTS
  american = american
  american24 = american24
  gwA = gwA
  gwB = gwB
  dnsA = dnsA
  dnsB = dnsB
  dnsC = dnsC
  None = None
  Order <- BothUplinks
  Device = {phy0, phy1, phy2}
  Server = {dnsA, dnsB, dnsC}
  Lease <- TwoNetworks
  MaxChanges = 5
INVARIANTS
  DefaultInStep
  DnsRouted
  Tuned
PROPERTIES
  Converges
