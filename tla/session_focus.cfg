\* What the README promises about the focus.
SPECIFICATION Spec
CONSTANTS
  Requests = {r1, r2}
  Conversations = {c1}
  Entities = {e1}
  Versions = {v1}
  ShortTermMaxTurns = 2
  CompactOldest = 1
  KeepRecent = 1
  None = None
PROPERTIES
  FailureKeepsFocus
\* Every request has ended.
CHECK_DEADLOCK FALSE
