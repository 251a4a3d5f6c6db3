\* Two calls share three nodes, each with three attempts: just enough to try them all.
CONSTANTS
  c1 = c1
  c2 = c2
  Callers <- TwoCallers
  N = 3
  MaxRetries = 2
SPECIFICATION FairSpec
INVARIANTS
  TypeOK
  AllNodesTried
  AnswerKept
PROPERTIES
  CallReturns
