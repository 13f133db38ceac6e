SPECIFICATION MCSpec
CONSTANTS
  w1 = w1  w2 = w2  f1 = f1  f2 = f2  Nil = Nil  Nobody = Nobody
  Process = {w1, w2}
  File = {f1, f2}
  Member = {w1, w2}
INVARIANTS OneLeaderByLock LockExclusive
PROPERTIES Agreement LeaderLossLearned
