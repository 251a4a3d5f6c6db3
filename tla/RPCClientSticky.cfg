\* One caller, three nodes, three attempts.
CONSTANTS
  c1 = c1
  c2 = c2
  Callers <- OneCaller
  N = 3
  MaxRetries = 2
SPECIFICATION Spec
INVARIANT AnswerReturned
