\* Two goroutines, two FVMs: a finalizer, a creation and calls interleave, with every
\* kind of call-back.
SPECIFICATION Spec
CONSTANTS
  Goroutine = {g1, g2}
  Fvm = {f1, f2}
  Externs = {x1, x2}
  Kind = {"has", "get", "put", "put_many", "randomness", "consensus_fault"}
  MaxHandle = 2
  NoExterns = NoExterns
  NoFvm = NoFvm
  Nobody = Nobody
SYMMETRY Symmetry
INVARIANTS
  TypeOK
  NoUseAfterDrop
  CallbackSeesOwnExterns
  RegistryAccounted
  NoBridgePanic
  MutualExclusion
PROPERTIES
  SessionSpec
  PoisonIsForever
