SPECIFICATION Spec
INVARIANT OneExchangePerToken
INVARIANT LogoutEndsLogins
INVARIANT StoredTokenIsUnspent
INVARIANT OthersChangeTheUser
PROPERTY LoggedOutTabStaysOut
CHECK_DEADLOCK FALSE
SYMMETRY Symmetry
CONSTANTS
  Users = {u1, u2}
  Tabs = {t1, t2}
  Requests = {r1, r2}
  MaxPairs = 3
  MaxFaults = 1
  ShortLived = {1}
  None = None
