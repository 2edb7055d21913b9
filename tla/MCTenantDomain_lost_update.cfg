SPECIFICATION Spec
CONSTANTS
  Orgs = {o1}
  Reqs = {r1, r2}
  Slugs = {"api"}
  NewSlugs = {"api"}
  Domains = {d1}
  Tokens = {t1}
  None = None
  Subdomains = {"api-x", "api-x-7"}
  NewSubdomains = {"api-x", "api-x-7"}
  ValidSubdomains <- MCValidSubdomains
  Base <- MCBase
  Suffixed <- MCSuffixed
  MaxAttempts = 2
PROPERTIES
  OnlyRemovalDeactivates
