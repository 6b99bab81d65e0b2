\* Two goroutines and one function of each way to treat boxes: moved, cleaned (also when a
\* conversion fails on the way), lost; a response that may be absent, and none at all.
CONSTANTS
  g1 = g1
  g2 = g2
  Goroutine = {g1, g2}
  Addr = {1, 2, 3, 4, 5}
  Calls = {"GenerateSingleVanillaProof", "GenerateWindowPoSt", "VerifyWinningPoSt", "Aggregate", "HashVerify"}
  MaxItems = 2
SPECIFICATION Spec
SYMMETRY Symmetry
INVARIANTS TypeOK OwnedOnce FailureReachesCaller
PROPERTIES OnlyVerifyPoStLeaks
CHECK_DEADLOCK FALSE
