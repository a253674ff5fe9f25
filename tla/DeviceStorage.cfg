SPECIFICATION FairSpec
CONSTANTS
  None = None
  Partial = Partial
  MaxGen = 2
  Faulty = {"remove", "write", "rename", "nvs"}
INVARIANT MarkerMeansComplete
INVARIANT IdentityOutlivesCredentials
PROPERTY StoresAtomically
PROPERTY StoredBoardRuns
