\* Two resources in two domains, an instance with two VNICs, messages of three
\* characters, pages of one.
CONSTANTS
  r1 = r1
  r2 = r2
  v1 = v1
  v2 = v2
  Domains <- MCDomains
  Resources = {r1, r2}
  DomainOf <- MCDomainOf
  Vnics = {v1, v2}
  Primary = {v2}
  NoCache = NoCache
  NoVnic = NoVnic
  Compartment = Compartment
  OciFaults = {"service", "other"}
  Limit = 3
  PageSize = 1
  QUOTA_SERVICES <- MCServices
  Queries <- MCQueries
  Texts <- MCTexts
  NoQuery = NoQuery
  MayRaise = TRUE
SPECIFICATION FairReadingSpec
INVARIANTS
  ReadingTypeOK
  MatchedAsMeant
  RowForEach
  EverythingShown
  NothingLost
  WithinLimit
  NoNeedlessSplit
  NoEmptyMessage
  PrimaryReported
PROPERTIES
  ImplementsService
  EveryCommandEnds
