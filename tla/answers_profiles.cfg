\* A profile of results, and a goal that depends on it.
SPECIFICATION Spec
CONSTANTS
  p1 = p1
  c1 = c1
  c2 = c2
  l1 = l1
  summary = summary
  city = city
  Persons = {p1}
  Companies = {c1, c2}
  Locations = {l1}
  Attributes = {summary, city}
  MaxSigned = 2
  Worlds <- MCWorlds
  Questions <- ProfileChainQuestions
PROPERTY
  DependenciesAreKept
\* No question is left after the last turn.
CHECK_DEADLOCK FALSE
