CONSTANTS
  Tunnels = {"t"}
  Plain = {"p"}
  Spellings = {"a", "A.", "ip", "*"}
  IPs = {"ip"}
  Canonical <- MCCanonical
  Invalid = Invalid
  NoName = NoName
  MaxCache = 1
SPECIFICATION FairSpec
CHECK_DEADLOCK FALSE
INVARIANTS CertificateIsVerifiedName PlainExchangesAreSaved
PROPERTIES ServingTunnelsAreClosed SignalEndsProcess
