SPECIFICATION MCSpec
CONSTANTS
    Ips = {home, office}
    MaxKeys = 8
    MaxCrashes = 2
    MaxForces = 2
    MaxFailures = 1
    Torn = TRUE
    Initial = {"fresh", "installed", "older"}
    None = None
    Broken = Broken
INVARIANT ServedMaterial
INVARIANT IdentitiesWhole
PROPERTY SteadyGetsUp
CHECK_DEADLOCK FALSE
