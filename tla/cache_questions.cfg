\* Two questions, two requests, two conversations and two data versions.
SPECIFICATION Spec
CONSTANTS
  Workers = {w1, w2}
  Conversations = {k1, k2}
  Queries = {q1, q2}
  Signatures = {s1, s2}
  Answers = {a1}
  Versions = {v1, v2}
  Shared = Shared
  TTL = 1
  None = None
  MaxTurns = 3
  MaxTime = 0
PROPERTIES
  ImplementsReuse
  NoShadowing
\* No turn is left when MaxTurns have been begun.
CHECK_DEADLOCK FALSE
