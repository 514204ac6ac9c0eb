CONSTANTS
  Users = {a, b, c, d, e}
  TeamIds = {t1, t2}
  Names = {n1, n2}
  Requests = {r1, r2}
  Far = {e}
  institution <- MCInstitution
  NoInstitution = NoInstitution
  Absent = Absent
  MAX_TEAM_SIZE = 3
SPECIFICATION Spec
SYMMETRY Symmetry
INVARIANTS
  TypeOK
  CapacityNearlyRespected
  AtMostTwoTeamsPerUser
PROPERTIES
  CapacityUnlessOvertaken
  OneTeamUnlessOvertaken
  EnrolledStayUnlessOvertaken
