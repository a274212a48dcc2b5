\* File handles, callbacks that change them during a pass, loopback.
SPECIFICATION Spec
CONSTANTS
  Handles = {h1, h2, h3}
  Sentinel = sentinel
  Null = null
  Fds = {f1, f2}
  LoopbackFd = loopback
  NoFd = noFd
  Kinds = {"read"}
  TimerIds = {t1}
  MaxTime = 1
  MaxContext = 0
  DatagramCap = 1
  ExpiredReregistration = TRUE
SYMMETRY Symmetry
INVARIANTS TypeOK RingWhole
PROPERTY KeepsFileHandlePromises
CHECK_DEADLOCK FALSE
