SPECIFICATION Spec
CONSTANTS
  a1 = a1  a2 = a2  p1 = p1  p2 = p2
  c1 = c1  c2 = c2  c3 = c3
  Accounts = {a1, a2}
  Processes = {p1, p2}
  Calls = {c1, c2, c3}
  NoCall = NoCall
  Workloads <- MCWorkloads
  MaxFaults = 2
  MaxExpiries = 1
INVARIANTS
  CacheMatchesVault
  ServedWasCurrent
  VaultStaysRenewable
  BackoffPaces
PROPERTY CacheMovesForward
CHECK_DEADLOCK FALSE
