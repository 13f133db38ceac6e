SPECIFICATION CoordinatorSpec
CONSTANTS
  w1 = w1  w2 = w2  w3 = w3  f1 = f1  f2 = f2  Nil = Nil
  Process = {w1, w2, w3}
  File = {f1, f2}
SYMMETRY ProcessSymmetry
INVARIANT OneLeader
