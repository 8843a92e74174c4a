\* Two masters administer each other.
SPECIFICATION AccountsSpec
CONSTANTS
  m1 = m1  m2 = m2  p1 = p1  p2 = p2
  Actors = {m1, m2}
  FirstMasters = {m1, m2}
  Emails = {}
  Passwords = {"a"}
  FirstPassword = "a"
  Callers = {p1, p2}
  Nothing = Nothing
  LockAfter = 2
  MaxRetries = 3
  MaxVersion = 4
  MaxActorVersion = 2
CHECK_DEADLOCK FALSE
INVARIANT MasterRemains
