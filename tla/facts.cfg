SPECIFICATION Spec
CONSTANTS
  Users = {u, v}
  Keys = {k}
  Values = {secret}
  Sensitive = {secret}
  Expiries = {0, 2}
  Policies <- MCPolicies
  Clients = {c1, c2}
  Nobody = Nobody
  Absent = Absent
  LastTime = 2
  MaxFaults = 2
SYMMETRY Symmetry
INVARIANTS
  ChangesStand
  ListsAcknowledged
