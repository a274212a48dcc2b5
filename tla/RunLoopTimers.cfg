\* Timers, the loopback buffer, stopping; liveness.
SPECIFICATION FairSpec
CONSTANTS
  Handles = {h1}
  Sentinel = sentinel
  Null = null
  Fds = {f1}
  LoopbackFd = loopback
  NoFd = noFd
  Kinds = {"read"}
  TimerIds = {t1, t2, t3}
  MaxTime = 2
  MaxContext = 1
  DatagramCap = 1
  ExpiredReregistration = FALSE
INVARIANTS TimersSorted TimersFirstComeFirstServed LoopbackFraming
PROPERTIES EarliestFiresWhenDue StopEndsTheRun DueTimersFire
CHECK_DEADLOCK FALSE
