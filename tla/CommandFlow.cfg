SPECIFICATION Spec
CONSTANTS
  c1 = c1
  c2 = c2
  Commands <- MCCommands
  Asks <- MCAsks
  Kinds <- MCKinds
  Inflight = 1
  Window = 1
  LinkLosses = 1
  SessionLosses = 1
INVARIANT RunsAreBounded
INVARIANT SettlesOnLatest
PROPERTY AnswersAreKept
PROPERTY NobodyHangs
CHECK_DEADLOCK FALSE
