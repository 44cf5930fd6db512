SPECIFICATION Spec
INVARIANT LogTellsTheState CreationRefusedOnlyByRace
PROPERTY LastOwnerLostOnlyToRace
CHECK_DEADLOCK FALSE
CONSTANTS
  Users = {u1, u2}
  Admins = {u2}
  Names = {n1, n2}
  Handlers = {h1, h2}
  MaxKbs = 3
  MaxRequests = 4
