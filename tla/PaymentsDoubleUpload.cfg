CONSTANTS
  Requests = {r1, r2}
  Titles = {NONE, JUARA_1}
  NONE = NONE
  MAX_ATTEMPTS = 2
SPECIFICATION Spec
PROPERTIES
  UploadOnlyWhenAllowed
