CONSTANTS
  Users = {a, b}
  TeamIds = {t1, t2}
  Names = {n1, n2}
  Requests = {r1, r2}
  Far = {}
  institution <- MCInstitution
  NoInstitution = NoInstitution
  Absent = Absent
  MAX_TEAM_SIZE = 3
SPECIFICATION Spec
INVARIANTS
  OneTeamPerUser
