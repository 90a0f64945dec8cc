CONSTANTS
  x = x
  base = base
  r1 = r1
  r2 = r2
  q1 = q1
  q2 = q2
  q3 = q3
  Local = {x, base}
  BaseWord = base
  Remote = {r1}
  Program <- ServeProgram
  StoreBurst = 1
  Requestors = {q1, q2, q3}
  ReadsAtOnce = 2
  Accesses <- ReadWriteBoth
SYMMETRY Readers
SPECIFICATION Spec
INVARIANTS RspFifoHasRoom RepliesRight
