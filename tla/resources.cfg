CONSTANTS
  w1 = w1
  w2 = w2
  h1 = h1
  h2 = h2
  Workers = {w1, w2}
  Free = Free
  Nobody = Nobody
  None = None
  Default = Default
  CustomHosts = {h1, h2}
  Kinds = {"RuntimeDomain", "BucketDomain", "WebsiteHosting", "CronTrigger", "StorageUser"}
  TlsEnabled = TRUE
  SlowHandlers = FALSE
  MaxFaults = 1
  MaxBinds = 2
SPECIFICATION FairSpec
INVARIANTS TypeOK RoutedAsBound DownWhenDeleted CertificateFirst PublishedIsServed
PROPERTIES ServedInTheEnd RemovedInTheEnd
CHECK_DEADLOCK FALSE
