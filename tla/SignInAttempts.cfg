SPECIFICATION Spec
CONSTANTS
  Calls = {t1, t2, d1}
  Attempts = {t1, t2}
  NoCall = NoCall
  Ids = {i1, i2}
  Clients = {k1, k2, k3}
  Subjects = {s1, s2}
  NoId = NoId  NoClient = NoClient  NoAccount = NoAccount
  k1 = k1  k2 = k2  k3 = k3  i1 = i1  i2 = i2
  IdOf <- MCIdOf
  MaxFaults = 1
INVARIANTS
  AttemptsAreTrue
PROPERTY RegistrationBinding
CHECK_DEADLOCK FALSE
