SPECIFICATION LiveSpec
CONSTANTS
  None = None
  MaxCodes = 2
  MaxPairs = 2
  k = k
  Client = {k}
  u1 = u1
  u2 = u2
  Uri = {u1, u2}
  AllowedUri = {u1}
  v1 = v1
  v2 = v2
  Challenge = {v1}
  Verifier = {v1, v2}
  CodeTtl = 1
  TokenTtl = 1
  RefreshTtl = 2
  MaxClock = 3
  MaxMishaps = 1
  r1 = r1
  r2 = r2
  Req = {r1, r2}
INVARIANTS TypeOK OneHolder Renewable TokensTraceToLogin
PROPERTIES CredentialsStay ImplementsGrant DeadRowsGo
CHECK_DEADLOCK FALSE
