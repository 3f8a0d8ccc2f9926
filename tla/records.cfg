SPECIFICATION Spec
CONSTANTS
  Processes = {p1, p2, p3}
  Hosts = {h1, h2}
  Deployments = {d1, d2}
  Addresses = {a1, a2}
  Names = {root, ana}
  Root = root
  Settings = {s1, s2}
  None = None
  ForeignKeys = FALSE
  MaxRequests = 5
  MaxCrashes = 1
SYMMETRY Symmetric
INVARIANTS
  TypeOK ChangesAreAudited DeletionsAreAudited AuditIsTrue SomeAdmin
CHECK_DEADLOCK FALSE
