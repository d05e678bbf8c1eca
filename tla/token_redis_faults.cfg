SPECIFICATION Spec
CONSTANTS
  Reqs = {p, q}
  u1 = u1  u2 = u2  s1 = s1  s2 = s2
  Users = {u1}
  Sessions = {s1}
  UserOf <- OneSession
  MaxAccess = 1
  RedisEnabled = TRUE
  RedisFaults = {"login", "refresh", "use", "logout", "logoutAll"}
  DBFaults = {"logout"}
  MayExpire = TRUE
  None = None
SYMMETRY Symmetry
INVARIANTS AcceptedWasUsable
PROPERTY NoResurrection
CHECK_DEADLOCK FALSE
