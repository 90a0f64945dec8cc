CONSTANTS
  x = x
  base = base
  r1 = r1
  r2 = r2
  q1 = q1
  q2 = q2
  q3 = q3
  Local = {x}
  BaseWord = base
  Remote = {r1}
  Program <- ServeProgram
  StoreBurst = 1
  Requestors = {q1, q2, q3}
  ReadsAtOnce = 3
  Accesses <- ReadX
SPECIFICATION Spec
INVARIANT RspFifoHasRoom
