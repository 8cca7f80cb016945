\* One account, two addresses, two codes, two requests at once.
CONSTANTS
  a1 = a1  a2 = a2  e1 = e1  e2 = e2  c1 = c1  c2 = c2  c3 = c3  v1 = v1  v2 = v2  v3 = v3
  Account = {a1}
  Email = {e1, e2}
  Challenge = {c1, c2}
  Request = {v1, v2}
  NoAccount = NoAccount  NoEmail = NoEmail  NoRow = NoRow  NoCode = NoCode
  Ttl = 1  Cooldown = 1  Window = 1  MaxIssued = 2  StaleAge = 0  MaxTime = 2
SPECIFICATION Spec
SYMMETRY Alike
INVARIANTS TypeOK OneLiveCode FingerprintWasMailed
PROPERTIES SettledStays AddressIsProved
