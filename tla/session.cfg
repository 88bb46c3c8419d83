\* Two conversations; turns compete, are cut off and are compacted, and the
\* data change between and within them.
SPECIFICATION Spec
CONSTANTS
  Requests = {r1, r2}
  Conversations = {c1, c2}
  Entities = {e1}
  Versions = {v1, v2}
  ShortTermMaxTurns = 2
  CompactOldest = 1
  KeepRecent = 1
  None = None
INVARIANTS
  TypeOK
  HistoryIsKept
  HeadFollowsReply
  OneDataVersion
  FocusIsInSession
PROPERTIES
  ExplainedTurnKeepsFocus
  EveryRequestEnds
\* Every request has ended.
CHECK_DEADLOCK FALSE
