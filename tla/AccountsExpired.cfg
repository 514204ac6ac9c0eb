CONSTANTS
  Passwords = {p}
  Requests = {r1}
  IsAdminEmail = FALSE
  MAX_CODES = 2
  NoUser = NoUser
  NoPassword = NoPassword
SPECIFICATION FairSpec
PROPERTIES
  NewCodeObtainable
