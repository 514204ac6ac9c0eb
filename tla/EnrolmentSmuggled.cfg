CONSTANTS
  Users = {a, b}
  TeamIds = {t}
  Leader = a
  leader <- MCleader
  Individual = {s1, s2, s3}
  Team = {open}
  Pairs = {}
  minTeamMembers <- MCmin
  maxTeamMembers <- MCmax
  Requests = {r1}
  MAX_QUOTA = 3
  Absent = Absent
SPECIFICATION Spec
INVARIANTS
  QuotaRespected
