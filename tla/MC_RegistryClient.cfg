\* Two callers, two calls each, over a lossy network.  Callers stop after
\* their calls, so a final state with no enabled step is expected.
CONSTANTS
  Callers = {c1, c2}
  Subjects = {s1}
  Texts = {t1, t2}
  Ids <- MC_Ids
  ServerAccepts = {t1, t2}
  ClientParses = {t1}
  MaxCalls = 2
  Lossy = TRUE
  NoText = NoText
  NoVal = NoVal
SPECIFICATION Spec
CHECK_DEADLOCK FALSE
INVARIANTS
  TypeOK
  CacheMatchesServer
PROPERTIES
  ImplementsAbstract
