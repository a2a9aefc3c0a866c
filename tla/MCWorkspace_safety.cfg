SPECIFICATION Spec
CONSTANTS
  admin = admin
  member = member
  guest = guest
  s1 = s1
  s2 = s2
  s3 = s3
  p1 = p1
  p2 = p2
  t1 = t1
  t2 = t2
  e1 = e1
  e2 = e2
  c1 = c1
  c2 = c2
  b1 = b1
  b2 = b2
  d1 = d1
  d2 = d2
  w1 = w1
  w2 = w2
  NoUser = NoUser
  NoProject = NoProject
  NoTable = NoTable
  NoConn = NoConn
  NoEtl = NoEtl
  NoBatch = NoBatch
  User = {admin, member, guest}
  OrgAdmin = {admin}
  EtlUser = {admin}
  Session = {s1, s2, s3}
  Project = {p1, p2}
  Grants <- Given
  Table = {t1, t2}
  Etl = {e1, e2}
  Conn = {c1, c2}
  Batch = {b1, b2}
  Worker = {1, 2}
  MaxJobs = 2
  Reader = {1, 2}
  MaxHeavy = 1
  Board = {d1, d2}
  Widget = {w1, w2}
  StartsWith <- Longer
  Scenes <- Fourteen
  Lists <- Bodies
  MaxPasswords = 1
  MaxRequests = 5
INVARIANTS TypeOK NewPasswordEnds MappedTablesExist LoadedTablesStay TargetsNameBatches NoOrphans ResultsExist CacheFits CreatorsBelong InvitesHaveBoards
PROPERTIES EndedStays
CHECK_DEADLOCK FALSE
