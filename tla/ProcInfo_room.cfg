\* One id whose owner changes, two images, a regular file and a pipe; the pre-cache
\* lives for one tick, _proc_cache for two.
SPECIFICATION Spec
CONSTANTS
  i1 = i1
  i2 = i2
  f1 = f1
  pipe = pipe
  None = None
  Image <- TwoImages
  File <- TwoFiles
  Regular <- OneRegular
  PreTtl = 1
  ProcTtl = 2
  MaxPending = 1
SYMMETRY Symmetry
INVARIANTS
  ProcTypeOK
  Fresh
  CaughtIsTold
  RightFile
