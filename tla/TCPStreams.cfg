\* Two streams, and the listener.
SPECIFICATION Spec
CONSTANTS
  Handles = {h1, h2, h3}
  Fds = {f1, f2, f3}
  NoFd = noFd
  NoHandle = noHandle
  Listener = listenerContext
  maxTCPStreams = 2
SYMMETRY Symmetry
INVARIANTS TypeOK StreamsMatchRegistrations ListenerWaitsWhileThereIsRoom MainTaskBlocksOnlyByMishap
PROPERTY CallbacksFindTheirStream
CHECK_DEADLOCK FALSE
