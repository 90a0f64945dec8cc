CONSTANTS
  x = x
  base = base
  r1 = r1
  r2 = r2
  q1 = q1
  q2 = q2
  q3 = q3
  Local = {x, base}
  BaseWord = base
  Remote = {r1, r2}
  Program <- ReadsAndStores
  StoreBurst = 2
  Requestors = {q1}
  ReadsAtOnce = 1
  Accesses <- ReadX
SPECIFICATION Spec
INVARIANT ReqFifoHasRoom
