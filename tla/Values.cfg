\* Words of four values, digests of three bytes and keys of two; batches of up to four.
SPECIFICATION Spec
CONSTANTS
  Word = 4
  DIGEST_BYTES = 3
  PUBLIC_KEY_BYTES = 2
  Item = {"a", "b", "z"}
  Bad = {"z"}
  Byte = {"p", "q"}
  CallSet <- MCCalls
INVARIANTS
  AmountsArrive
  RefusedForCause
  BatchesArrive
  LastReplicaWins
PROPERTIES
  Answered
\* A call that has come to its end does nothing more.
CHECK_DEADLOCK FALSE
