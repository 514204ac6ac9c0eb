CONSTANTS
  Users = {a, b, c}
  TeamIds = {t}
  Leader = a
  leader <- MCleader
  Individual = {solo}
  Team = {pair, open, wide}
  Pairs = {pair}
  minTeamMembers <- MCmin
  maxTeamMembers <- MCmax
  Requests = {r1, r2}
  MAX_QUOTA = 3
  Absent = Absent
SPECIFICATION Spec
SYMMETRY Symmetry
INVARIANTS
  TypeOK
  ConflictOnlyWhenOvertaken
PROPERTIES
  QuotaUnlessOvertaken
  SizeUnlessOvertaken
