\* Two threads: init_log_fd loses the race between its peek and call_once.
SPECIFICATION Spec
CONSTANTS
  Thread = {t1, t2}
  Fd = {d1, d2}
  Stderr = Stderr
  NoSink = NoSink
  NoFd = NoFd
INVARIANTS
  OkMeansSink
