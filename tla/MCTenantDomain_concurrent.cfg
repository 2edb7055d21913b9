SPECIFICATION Spec
CONSTANTS
  Orgs = {o1, o2}
  Reqs = {r1, r2}
  Slugs = {"api", "long"}
  NewSlugs = {}
  Domains = {d1, d2}
  Tokens = {t1, t2}
  None = None
  Subdomains = {"api-x", "api-x-7", "long", "long-123"}
  NewSubdomains = {}
  ValidSubdomains <- MCValidSubdomains
  Base <- MCBase
  Suffixed <- MCSuffixed
  MaxAttempts = 2
SYMMETRY Symmetry
INVARIANTS
  VerifiedWasProved
  DomainColumnsAgree
PROPERTIES
  OnlyOverlapsDeactivate
  OnlyOverlapsLeaveLifecycle
