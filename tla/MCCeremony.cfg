SPECIFICATION CeremonySpec
CONSTANTS
  Members = {1, 2}
  OldMembers = {1}
  Listed <- ListedBy
  Threshold = 2
  OldThreshold = 1
  Phase = 3
  DefaultRetryWindow = 2
  MinBuffer = 1
  BufferPerMember = 1
  BufferSlack = 2
  MaxLate = 3
  MaxFaults = 2
INVARIANTS
  HeardInTime
  KeystoreWhole
  PushNeverWaits
PROPERTIES
  CeremonyEnds
CHECK_DEADLOCK FALSE
