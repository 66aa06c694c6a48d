CONSTANTS
  plain = plain
  strict = strict
  heir = heir
  Classes = {plain, strict, heir}
  TestClasses = {plain, heir}
  Phases = {"BEFORE"}
  Sharing <- MCSharing
  Users = {"u1"}
  None = None
  MaxDepth = 3
  MaxScopes = 4
SPECIFICATION Spec
CHECK_DEADLOCK FALSE
INVARIANT RunAsIsRestored
