\* One caller and a reliable network: CreateSchema of a text the registry
\* accepts and avro.Parse here rejects returns an error after registering it.
CONSTANTS
  Callers = {c1}
  Subjects = {s1}
  Texts = {t1, t2}
  Ids <- MC_Ids
  ServerAccepts = {t1, t2}
  ClientParses = {t1}
  MaxCalls = 2
  Lossy = FALSE
  NoText = NoText
  NoVal = NoVal
SPECIFICATION Spec
CHECK_DEADLOCK FALSE
INVARIANTS
  CreateErrMeansNotRegistered
