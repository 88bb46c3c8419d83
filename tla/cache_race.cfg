\* Two turns race on the row of one request while it expires and is rewritten.
SPECIFICATION Spec
CONSTANTS
  Workers = {w1, w2}
  Conversations = {k1, k2}
  Queries = {q1}
  Signatures = {s1}
  Answers = {a1, a2}
  Versions = {v1}
  Shared = Shared
  TTL = 1
  None = None
  MaxTurns = 4
  MaxTime = 1
PROPERTIES
  ImplementsReuse
  EveryTurnEnds
\* No turn is left when MaxTurns have been begun.
CHECK_DEADLOCK FALSE
