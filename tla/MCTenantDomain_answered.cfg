SPECIFICATION FairSpec
CONSTANTS
  Orgs = {o1, o2, o3}
  Reqs = {r1}
  Slugs = {"api", "api-x", "long"}
  NewSlugs = {"api", "api-x", "long"}
  Domains = {d1}
  Tokens = {t1}
  None = None
  Subdomains = {"api-x", "api-x-7", "long", "long-123"}
  NewSubdomains = {"api-x", "api-x-7", "long", "long-123"}
  ValidSubdomains <- MCValidSubdomains
  Base <- MCBase
  Suffixed <- MCSuffixed
  MaxAttempts = 2
INVARIANTS
  TypeOK
PROPERTIES
  EveryRequestEnds
