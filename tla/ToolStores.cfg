SPECIFICATION FairSpec
CONSTANTS
  r1 = r1
  r2 = r2
  def = def
  mine = mine
  s1 = s1
  s2 = s2
  alias = alias
  tool = tool
  core = core
  Requests = {r1, r2}
  Profiles <- MCProfiles
  Default = def
  Pinned = mine
  Spaces = {s1, s2}
  Aliases = {alias}
  Remote = {tool}
  Core = {core}
  Initially <- MCInitially
  Alias <- MCAlias
  Prefix <- MCPrefix
  Preinstalled <- MCPreinstalled
  Asked <- MCAsked
  None = None
  NoFile = NoFile
  Free = Free
  MaxRequests = 3
  MaxFaults = 2
  MaxCrashes = 1
INVARIANTS
  TypeOK
  FailureLeavesFiles
  RemovedMeansDisabled
  ServedFollowsStores
  OnlyFaultsRefuse
PROPERTIES
  RequestsEnd
CHECK_DEADLOCK FALSE
