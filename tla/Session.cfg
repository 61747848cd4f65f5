SPECIFICATION Spec
CONSTANTS
  c1 = c1  c2 = c2  c3 = c3  read = read  ipHost = ipHost  save = save
  Nobody = Nobody
  Callers = {c1, c2, c3}
  Script <- Scripts
  Greeting <- Welcome
  Answers <- Texts
  PromptWindow = 3
INVARIANTS
  TypeOK PromptIsSeen SendsInTurn NoStandoff OneSessionAtATime
PROPERTIES
  KeepsItsPromise EveryCallReturns
CHECK_DEADLOCK FALSE
