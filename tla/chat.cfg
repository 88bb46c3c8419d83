\* One tab, two questions, three requests.
SPECIFICATION Spec
CONSTANTS
  Queries = {q1, q2}
  ChatTimeout = 1
  ProxyTimeout = 2
  BrowserTimeout = 3
  MaxSends = 3
INVARIANTS
  TypeOK
  AnswerFollowsItsQuestion
  ChatIsOneConversation
  AnswerIsTheLastTurn
  NothingRunsUnseen
PROPERTIES
  LoadingEnds
\* No request is left after MaxSends.
CHECK_DEADLOCK FALSE
