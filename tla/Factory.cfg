SPECIFICATION FairSpec
CONSTANTS
  Callers = {w1, w2, w3}
  Accounts = {acct}
  Regions = {west}
  Roles = {r1, r2}
  None = None
INVARIANT TypeOK
INVARIANT RightManager
PROPERTY CacheSettles
PROPERTY CallsReturn
