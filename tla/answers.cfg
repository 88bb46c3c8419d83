\* Three questions in a row, of one conversation or several, on small data.
SPECIFICATION Spec
CONSTANTS
  p1 = p1
  c1 = c1
  c2 = c2
  l1 = l1
  summary = summary
  city = city
  Persons = {p1}
  Companies = {c1, c2}
  Locations = {l1}
  Attributes = {summary, city}
  MaxSigned = 2
  Worlds <- MCWorlds
  Questions <- MCQuestions
INVARIANTS
  RefusedForAReason
  VerifiedCanBeShown
  ShownIsRemembered
  AnswerIsTrue
  SessionIsGrounded
  NobodyWaits
\* No question is left after the last turn.
CHECK_DEADLOCK FALSE
