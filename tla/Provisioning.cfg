SPECIFICATION FairSpec
CONSTANTS
  Disturbances = {"power", "revoke", "reset", "clear", "expire", "force", "clock"}
  MaxLate = 1
  MaxId = 9
INVARIANT HeldIsCurrent
PROPERTY ReadyIsVerified
PROPERTY GetsOnline
CHECK_DEADLOCK FALSE
