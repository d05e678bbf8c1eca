SPECIFICATION MCSpec
CONSTANTS
  Reqs = {p, q}
  u1 = u1  u2 = u2  s1 = s1  s2 = s2
  Users = {u1, u2}
  Sessions = {s1, s2}
  UserOf <- TwoUsers
  MaxAccess = 2
  RedisEnabled = TRUE
  RedisFaults = {"login", "refresh", "use"}
  DBFaults = {"login", "refresh", "use", "logoutAll"}
  MayExpire = FALSE
  None = None
SYMMETRY Symmetry
INVARIANTS LogoutAllIsFinal RevokedIsErased
PROPERTIES ImplementsRevocableTokens NoCollateral
CHECK_DEADLOCK FALSE
