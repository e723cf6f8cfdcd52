CONSTANTS
  Addresses = {a1, a2, a3}
  MapFailed = MapFailed
  MaxSegments = 4
  MprotectFails = TRUE
SPECIFICATION Spec
INVARIANTS
  TypeOK FlagIsTrue AllProtectedIsTrue NoLeak
PROPERTIES
  OpensAll
