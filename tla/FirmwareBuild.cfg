SPECIFICATION MCSpec
CONSTANTS
  Nil = Nil
  Stations = {s1, s2}
  Builds <- AllBuilds
  Failures = {"dependencies", "build", "erase", "upload", "save", "kill"}
INVARIANT OwnUploadIsConfigured
PROPERTY RecordedErasesCompiled
