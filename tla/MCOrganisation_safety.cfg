SPECIFICATION Spec
CONSTANTS
  s = s
  a = a
  u = u
  v = v
  Dev = Dev
  top = top
  low = low
  spare = spare
  base = base
  r = r
  r2 = r2
  p = p
  q = q
  e = e
  t = t
  b = b
  all = all
  few = few
  NoUser = NoUser
  NoDept = NoDept
  NoRole = NoRole
  NoProject = NoProject
  User = {s, a, u, v}
  Dept = {Dev, top, low, spare}
  Role = {base, r, r2}
  Project = {p, q}
  Asset = {e, t, b}
  List = {all, few}
  Executes = {all}
  KindOf <- Kinds
  FillsTable <- Fill
  Offices <- Four
  Bodies <- Changes
  Offers <- Invitations
  MaxRequests = 2
INVARIANTS TypeOK OwnersCanOwn InvitersStay
PROPERTIES OutsidersConsent PermissionsKept
CHECK_DEADLOCK FALSE
