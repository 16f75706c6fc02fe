\* A session with concurrent inputs, ends of both kinds and cleanup.
SPECIFICATION Spec
CONSTANTS
  s1 = s1
  Sessions = {s1}
  Calls <- Dialogue
  Cleaners = {w1}
  TTL = 2
  BatchSize = 1
INVARIANTS
  OpenSessionHasKey
  NoOrphanKey
  StepsKept
PROPERTIES
  ImplementsUssdLifecycle
