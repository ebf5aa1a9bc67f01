SPECIFICATION Spec
CONSTANTS
  Clients = {c1, c2, c3}
  Emails <- MCEmails
  Normal <- MCNormal
  Passwords = {"secret"}
  RequestedRoles <- MCRoles
  None = None
  BootstrapEmail = "bob"
  Faults = TRUE
  MaxRequests = 3
SYMMETRY Symmetry
INVARIANTS
  OneAccountPerEmail
  LaterAccountsAreUsers
  RevokedIsRefused
  UsedUp
  FirstStartLeavesAccount
CHECK_DEADLOCK FALSE
