SPECIFICATION PlatformSpec
CONSTANTS
  Requests = {r1, r2}
  Passwords = {p, q}
  IsAdminEmail = TRUE
  MAX_CODES = 2
  NoUser = NoUser
  NoPassword = NoPassword
  Staff = {u, v}
  MAX_FILES = 3
  Recipients = {x, y}
  Sockets = {s1, s2}
  Senders = {w1, w2}
  MAX_NOTIFICATIONS = 2
SYMMETRY Symmetry
INVARIANTS
  TypeOK
  CodesWorkOnce
  ChecksHold
  SubmissionsTypeOK
  FilesAreThere
  StaffIsTold
  NotificationsTypeOK
  MapHoldsLiveSockets
  ConnectedDevicesAreTold
PROPERTIES
  ImplementsAccount
  DeletedAfterItsFile
  VerifiedUnlessOvertaken
