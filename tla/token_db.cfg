SPECIFICATION Spec
CONSTANTS
  Reqs = {p, q}
  u1 = u1  u2 = u2  s1 = s1  s2 = s2
  Users = {u1, u2}
  Sessions = {s1, s2}
  UserOf <- TwoUsers
  MaxAccess = 2
  RedisEnabled = FALSE
  RedisFaults = {}
  DBFaults = {"logoutAll"}
  MayExpire = FALSE
  None = None
SYMMETRY Symmetry
INVARIANT LogoutIsFinal
CHECK_DEADLOCK FALSE
