CONSTANTS
  Waiters = {w1, w2}
  Requesters = {r1, r2}
  MaxResets = 2
SPECIFICATION FairSpec
INVARIANT NoLostWakeup
PROPERTIES AnswersAreCurrent RequestWakesSleepers
