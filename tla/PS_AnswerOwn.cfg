SPECIFICATION Spec
CONSTANTS
  p1 = p1 p2 = p2 t1 = t1 t2 = t2 q1 = q1 q2 = q2 k1 = k1 k2 = k2 c1 = c1 c2 = c2
  Procs = {p1, p2}
  Threads <- MCThreads
  ProcOf <- TwoProcOf
  Queries = {q1, q2}
  Keys = {k1}
  KeyOf <- CutKeyOf
  Conns <- MCConns
  MaxTry = 1
  ValidSeconds = 1
  MaxTime = 2
  None = None
INVARIANT AnswerOwn
