CONSTANTS
  Users = {a}
  TeamIds = {t1}
  Names = {n1}
  Requests = {r1, r2}
  Far = {}
  institution <- MCInstitution
  NoInstitution = NoInstitution
  Absent = Absent
  MAX_TEAM_SIZE = 3
SPECIFICATION Spec
PROPERTIES
  EnrolledTeamsStay
