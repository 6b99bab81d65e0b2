\* Liveness: two goroutines, two FVMs, finalizers queueing behind each other.
SPECIFICATION FairSpec
CONSTANTS
  Goroutine = {g1, g2}
  Fvm = {f1, f2}
  Externs = {x1}
  Kind = {"get"}
  MaxHandle = 2
  NoExterns = NoExterns
  NoFvm = NoFvm
  Nobody = Nobody
PROPERTIES
  DroppedIsReclaimed
