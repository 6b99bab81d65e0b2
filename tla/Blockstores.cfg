\* Three FVMs of any version are created, run and dropped on one Go store.
SPECIFICATION Spec
CONSTANTS
  Fvm = {f1, f2, f3}
  good = good
  mixed = mixed
  unsupported = unsupported
  b1 = b1
  b2 = b2
  b3 = b3
  Cid = {good, mixed, unsupported}
  Block = {b1, b2, b3}
  NoBlock = NoBlock
  Digest <- MCDigest
  CarV14 <- MCCarV14
  CarV15 <- MCCarV15
INVARIANTS
  TypeOK
  BaseIsHonest
  BundleVisible
  NoForeignFakes
PROPERTIES
  StableReads
