\* All calls with up to four blocks; sizes on both sides of every limit.
SPECIFICATION Spec
CONSTANTS
  MAX_BUF_SIZE = 6
  MAX_BLOCK_BATCH = 2
  EST_MAX_CID_LEN = 2
  MAX_LEN = 8
  I32 = 10
  CidLens = {1, 2}
  DataLens = {0, 2, 4, 5, 7, 12, 19, 21}
  MaxBlocks = 4
INVARIANTS
  BatchFits
  GoReadsWhatRustWrote
  BatchesInOrder
  NoSilentLoss
\* A finished call does nothing more.
CHECK_DEADLOCK FALSE
