\* The environment a child is given.
CONSTANTS
  Slots = {s1, s2}
SPECIFICATION ExternalSpec
INVARIANTS
  ChildGetsEnvironment
