SPECIFICATION WaitingSpec
CONSTANTS
  Threads = {t1, t2}
  Amounts = {1, 2, 3}
  Windows = {0, 2}
  MaxWindow = 4
  Modulus = 8
  Callers = {c1, c2, c3}
  Quota = 3
  Releasers = 2
  Readers = {r1, r2}
  MaxAdds = 3
INVARIANTS NoLostWakeup WindowExact LimiterInv QueueInv
PROPERTIES DisableReleases ImplementsCredit LimiterServes
CHECK_DEADLOCK FALSE
