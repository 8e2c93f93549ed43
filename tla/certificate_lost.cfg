CONSTANTS
  w1 = w1
  w2 = w2
  h1 = h1
  h2 = h2
  Workers = {w1}
  Free = Free
  Nobody = Nobody
  None = None
  Default = Default
  CustomHosts = {h1}
  Kinds = {"RuntimeDomain"}
  TlsEnabled = TRUE
  SlowHandlers = FALSE
  MaxFaults = 0
  MaxBinds = 1
SPECIFICATION FairSpec
PROPERTIES CertificateKept
CHECK_DEADLOCK FALSE
