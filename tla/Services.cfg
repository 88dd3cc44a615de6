SPECIFICATION ServicesSpec
CONSTANTS
  Anyone = Anyone
  Surfaces <- MCSurfaces
  Limit <- MCLimit
  UserLimit = 2
  Ips = {"a1", "a2"}
  ClientIps = {"a1"}
  Bucket <- MCBucket
  Users = {"u1"}
  Anon = Anyone
  WindowTicks = 2
  MaxHits = 2
  MaxFaults = 1
  Emails = {"e1"}
  Clients = {"c1", "c2"}
  Holder <- MCHolder
  NoOne = Anyone
  LinkTTL = 1
  SessionTTL = 2
  MaxTime = 3
  Validations = {"v1", "v2"}
  Urls <- MCUrls
  HostKind <- MCHostKind
  AddressOf <- MCAddressOf
  Addresses <- MCAddresses
  SafeTTL = 1
  Listed <- MCListed
  MaxBlocked = 1
  Writers = {"w1", "w2"}
  Asks <- MCAsks
  Owners = {"u1"}
  Prefixes = {"p1"}
  NoPrefix = Anyone
  Quota <- MCQuota
  CodeOf <- MCCodeOf
  Aliases = {3}
  Reserved = {}
  Generated = 0
  MaxDrawn = 3
  MaxInactive = 1
  MaxDeletes = 1
  FirstDay <- MCFirstDay
  LastMonth = 3
  MaxRuns = 2
  RawDays = 2
  LinkMonths = 1
  Kinds <- MCKinds
  LastDay = 1
  Ranges <- MCRanges
  Me = "me"
  Others = {"other"}
  TopReferrers = 1
  MaxClicks = 2
  MaxLive = 1
  Views <- MCViews
  Requests = {"r1", "r2"}
  NotFoundTicks = 2
  ErrorTicks = 1
  InactiveTicks = 1
  MaxAge = 3
  MaxLinks = 2
  MaxStashed = 2
  PageSize = 1
  CookieSize = 1
  Claims = {"k1", "k2"}
  People = {"e1", "e2"}
  Nobody = Anyone
INVARIANTS
  BurstBound
  NoKeyStuck
  SessionsEarned
  AuthorityExpires
  AnswersPublic
  BlockedStaysOut
  FlaggedPassesOnlyStale
  QuotaOvershoot
  OneRowPerId
  OnlySquattedConflicts
  AuditOfCommitted
  RolledMeansHome
  CheckedMeansHome
  RetainedStored
  StatsAgree
  EdgeServesAnyone
  ListFaithful
  AnonCodesKept
  ShellTellsTruth
CHECK_DEADLOCK FALSE
