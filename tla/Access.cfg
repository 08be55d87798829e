SPECIFICATION Spec
CONSTANTS
  u1 = u1
  u2 = u2
  Users = {u1, u2}
  Mail <- MailOf
  Tokens = {t1, t2}
  Links = {k1, k2}
  Logins = {l1}
  Projects = {a}
  Procs = {c1, c2}
  Reqs = {r1, r2}
  NoOne = NoOne
  Unborn = Unborn
  Gone = Gone
  Granted = {"viewer", "admin"}
  MaxVersion = 2
  MaxRequests = 5
SYMMETRY Symmetry
INVARIANTS NoSessionFromBefore DeletedOwnsNothing RevokedStays
CHECK_DEADLOCK FALSE
