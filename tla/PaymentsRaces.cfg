CONSTANTS
  Requests = {r1, r2}
  Titles = {NONE, JUARA_1}
  NONE = NONE
  MAX_ATTEMPTS = 2
SPECIFICATION Spec
SYMMETRY Symmetry
INVARIANTS
  TypeOK
  PendingPaymentIffNoAttempts
  NoticesHaveProof
PROPERTIES
  ImplementsLifecycle
  StatusFollowsUnlessOvertaken
  UploadUnlessOvertaken
  OwnColumnsUnlessOvertaken
