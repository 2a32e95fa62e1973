SPECIFICATION Spec
CONSTANTS
  Requests = {r1, r2, r3, r4}
  Tenants = {ta, tb}
  DefaultTenant = ta
  NoTenant = NoTenant
  Servers <- MCServers
  LimitArg = 2
  Window = 2
  Second = 2
  LastTime = 4
SYMMETRY RequestSymmetry
INVARIANTS
  WindowBound
  RefusedWhenFull
  RetryAfterSuffices
CHECK_DEADLOCK FALSE
