CONSTANTS
  Setters = {s1, s2}
  Readers = {r1}
  Zero = Zero

SPECIFICATION Spec

\* Every setter and reader makes one call.
CHECK_DEADLOCK FALSE

INVARIANT
  GivenIsPublished
