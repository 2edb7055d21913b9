SPECIFICATION Spec
CONSTANTS
  Orgs = {o1, o2}
  Reqs = {r1}
  Slugs = {"api", "api-x"}
  NewSlugs = {"api", "api-x"}
  Domains = {d1, d2}
  Tokens = {t1, t2}
  None = None
  Subdomains = {"api-x", "api-x-7"}
  NewSubdomains = {"api-x", "api-x-7"}
  ValidSubdomains <- MCValidSubdomains
  Base <- MCBase
  Suffixed <- MCSuffixed
  MaxAttempts = 2
PROPERTIES
  LifecycleSpec
