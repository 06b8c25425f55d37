SPECIFICATION Spec
CONSTANTS
  Threads = {1, 2, 3}
  Handles = {1, 2}
INVARIANTS
  TableSound
PROPERTY OnlyItsOwn
CONSTRAINT MCUndisturbed
