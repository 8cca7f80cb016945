\* A report and a legacy one, both for one room of two accounts; two requests;
\* one of the accounts may be deleted.
CONSTANTS
  a1 = a1  a2 = a2  r1 = r1  r2 = r2  old = old  k1 = k1
  v1 = v1  v2 = v2  v3 = v3  i1 = i1  i2 = i2
  Account = {a1, a2}
  Report = {r1, old}
  Room = {k1}
  Identity = {i1}
  Request = {v1, v2}
  Leaving = {a1}
  RoomOf <- OneRoom
  Legacy = {old}
  NoOwner = NoOwner  NoRoom = NoRoom  NoIdentity = NoIdentity  NoRow = NoRow  NoReport = NoReport
CHECK_DEADLOCK FALSE
SPECIFICATION Spec
SYMMETRY Alike
INVARIANTS TypeOK OneReportPerRoom LinkedIdentityHasReport 
PROPERTIES ActiveReportKept OwnerKept
