CONSTANTS
  g1 = g1
  g2 = g2
  Goroutine = {g1, g2}
  MaxFd = 3
  Calls = {"UnsealRange"}
  Outcomes = {"ok", "err", "panic"}
SPECIFICATION Spec
INVARIANTS AliveUntilReturn
