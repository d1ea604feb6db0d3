CONSTANTS
  Servers = {"db", "web"}
  Tools = {"query", "info"}
  Cursors = {"c1", "c2"}
  Aliases = {"rows", "size", "status"}
  ServerOf <- MCServerOf
  RemoteOf <- MCRemoteOf
  Builtins = {"get_cpu_status"}
  MaxPages = 2
  MaxTools = 2
  Offers <- MCOffers
  PageSize = 1
SPECIFICATION FairSpec
INVARIANTS
  CalledAsAgreed
  CalledOnceAtMost
  OfferedIffAgreed
PROPERTY EverySessionEnds
