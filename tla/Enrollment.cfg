SPECIFICATION MCSpec
CONSTANTS
  Absent = Absent
  Devices = {d1}
  Simulated = {d1}
  Handlers = {w1, w2}
  Requests = {"register", "enable", "challenge", "elapse", "enroll", "revoke", "reset",
    "project-reset", "purge-simulated"}
  MaxAttempts = 1
  AllowReprovisioning = FALSE
  Overlap = TRUE
  Faults = TRUE
  MaxSessions = 2
  MaxSerials = 2
  MaxSecrets = 2
SYMMETRY HandlerSymmetry
INVARIANT ProvisionedIsValid
INVARIANT OneOpenChallenge
INVARIANT SerialAccountedFor
INVARIANT CalmCrlComplete
PROPERTY ConsumedIsFinal
CHECK_DEADLOCK FALSE
