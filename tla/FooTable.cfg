SPECIFICATION Spec
CONSTANTS
  Threads = {t1, t2, t3}
  Objs = {a, b}
  Ids = {1, 30}
  Refs = {r1, r2, r3}
  NHASH = 29
  None = None
INVARIANTS TableSound NoLockCycle
PROPERTY NoResurrection
CHECK_DEADLOCK FALSE
SYMMETRY Symmetry
