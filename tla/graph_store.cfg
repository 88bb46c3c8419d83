\* Two conversations save graphs of one id, and of two, between readers.
SPECIFICATION Spec
CONSTANTS
  Conversations = {c1, c2}
  GraphIds = {g1, g2}
  Contents = {x1, x2}
  None = None
INVARIANTS
  TypeOK
  HeadsResolve
  OnlyTheWriterIsPending
PROPERTIES
  GraphIdIsStable
  ImplementsAtomicStore
