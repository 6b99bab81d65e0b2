--------------------------- MODULE PutManyProofs ---------------------------
(***************************************************************************)
(* For every size of buffer, batch, CID and block, and every number of     *)
(* blocks: a batch keeps to its limits, Go cuts out of it exactly what     *)
(* Rust laid into it, and no block is lost or overtaken, but that a block  *)
(* of 2^32 bytes or more is cut short.                                     *)
(***************************************************************************)
EXTENDS PutMany, SequenceTheorems, WellFoundedInduction, TLAPS

\* The two halves of the batch are empty together: a CID is never empty.
InStep == buf = <<>> <=> lengths = <<>>

\* A block is only appended where MayNotFit was false, or to an empty batch.
RoomToAppend ==
  /\ pc \in {"flush", "append"} => next \in 1 .. Len(blocks)
  /\ pc = "append" => lengths = <<>> \/ ~MayNotFit(blocks[next])

BatchInv == TypeOK /\ InStep /\ RoomToAppend /\ BatchFits

\* What `as i32` makes of a size: itself below 2^31, a negative number up to 2^32,
\* something smaller above.
LEMMA Cast ==
  ASSUME NEW n \in Nat
  PROVE  /\ AsI32(n) \in Int
         /\ n < I32 => AsI32(n) = n
         /\ I32 <= n => AsI32(n) < n
         /\ I32 <= n /\ n < 2 * I32 => AsI32(n) < 0
<1>1. AsI32(n) \in Int
  BY SizeAssumption DEF AsI32
<1>2. n < I32 => AsI32(n) = n
  BY SizeAssumption DEF AsI32
<1>3. I32 <= n => AsI32(n) < n
  BY SizeAssumption DEF AsI32
<1>4. I32 <= n /\ n < 2 * I32 => AsI32(n) < 0
  BY SizeAssumption DEF AsI32
<1> QED BY <1>1, <1>2, <1>3, <1>4

\* The batch starts empty.
LEMMA InitBatch == Init => BatchInv
<1> SUFFICES ASSUME Init PROVE BatchInv
  OBVIOUS
<1>1. Len(blocks) \in Nat
  BY SizeAssumption DEF Init, Calls
<1> QED BY <1>1, SizeAssumption DEF Init, BatchInv, TypeOK, InStep, RoomToAppend, BatchFits

\* The bytes of one part of a block.
LEMMA CellsTyped ==
  ASSUME NEW i \in 1 .. MaxBlocks, NEW part \in {"cid", "data"}, NEW n \in Nat
  PROVE  Cells(i, part, n) \in Seq(Cell) /\ Len(Cells(i, part, n)) = n
BY DEF Cells, Cell

\* A block is well formed, and its CID is not empty.
LEMMA BlockTyped ==
  ASSUME TypeOK, NEW i \in 1 .. Len(blocks)
  PROVE  /\ i \in 1 .. MaxBlocks
         /\ blocks[i].cid \in Nat \ {0} /\ blocks[i].cid <= EST_MAX_CID_LEN
         /\ blocks[i].data \in Nat
<1>1. PICK n \in 0 .. MaxBlocks : blocks \in [1 .. n -> Block]
  BY DEF TypeOK, Calls
<1>2. Len(blocks) = n /\ n \in Nat
  BY <1>1, SizeAssumption
<1>3. blocks[i] \in Block /\ i \in 1 .. MaxBlocks
  BY <1>1, <1>2, SizeAssumption
<1>4. blocks[i].cid \in CidLens /\ blocks[i].data \in DataLens
  BY <1>3 DEF Block
<1>5. blocks[i].cid \in 1 .. EST_MAX_CID_LEN /\ blocks[i].data \in Nat
  BY <1>4, SizeAssumption
<1> QED BY <1>3, <1>5, SizeAssumption

\* Pushing a block keeps the limits, because of the test at the loop's head.
LEMMA PushBlockBatch ==
  ASSUME BatchInv, PushBlock
  PROVE  BatchInv'
<1>1. /\ next \in 1 .. Len(blocks)
      /\ lengths = <<>> \/ ~MayNotFit(blocks[next])
      /\ TypeOK
  BY DEF BatchInv, RoomToAppend, PushBlock
<1> DEFINE c == Cells(next, "cid", blocks[next].cid)
           d == Cells(next, "data", blocks[next].data)
           size == blocks[next].cid + blocks[next].data
<1>2. /\ c \in Seq(Cell) /\ Len(c) = blocks[next].cid
      /\ d \in Seq(Cell) /\ Len(d) = blocks[next].data
  BY <1>1, BlockTyped, CellsTyped
<1>3. size \in Nat \ {0} /\ size <= EST_MAX_CID_LEN + blocks[next].data
  BY <1>1, BlockTyped, SizeAssumption
<1>4. /\ buf \in Seq(Cell) /\ Len(buf) \in Nat
      /\ lengths \in Seq(Int) /\ Len(lengths) \in Nat /\ Len(blocks) \in Nat
  BY <1>1, SizeAssumption DEF TypeOK, Calls
<1>5. buf' = buf \o c \o d /\ lengths' = Append(lengths, AsI32(size))
  BY DEF PushBlock
<1> HIDE DEF c, d, size
<1>6. buf' \in Seq(Cell) /\ Len(buf') = Len(buf) + Len(c) + Len(d)
  <2>1. buf \o c \in Seq(Cell) /\ Len(buf \o c) = Len(buf) + Len(c)
    BY <1>2, <1>4, ConcatProperties
  <2>2. (buf \o c) \o d \in Seq(Cell) /\ Len((buf \o c) \o d) = Len(buf \o c) + Len(d)
    BY <1>2, <2>1, ConcatProperties
  <2> QED BY <1>5, <2>1, <2>2
<1>7. Len(buf') = Len(buf) + size
  BY <1>2, <1>6, <1>1, <1>4, BlockTyped DEF size
<1>8. lengths' \in Seq(Int) /\ Len(lengths') = Len(lengths) + 1
  BY <1>3, <1>4, <1>5, Cast
<1>9. TypeOK'
  BY <1>1, <1>4, <1>6, <1>8 DEF TypeOK, PushBlock
<1>10. InStep'
  <2>1. Len(buf') # 0 /\ Len(lengths') # 0
    BY <1>3, <1>4, <1>7, <1>8
  <2> QED BY <2>1 DEF InStep
<1>11. RoomToAppend'
  BY DEF PushBlock, RoomToAppend
<1>12. BatchFits'
  <2>1. CASE lengths = <<>>
    BY <2>1, <1>8, SizeAssumption DEF BatchFits
  <2>2. CASE ~MayNotFit(blocks[next])
    <3>1. blocks[next].data \in Nat
      BY <1>1, BlockTyped
    <3>2. /\ Len(lengths) < MAX_BLOCK_BATCH
          /\ EST_MAX_CID_LEN + blocks[next].data + Len(buf) <= MAX_BUF_SIZE
      BY <2>2, <3>1, <1>4, SizeAssumption DEF MayNotFit
    <3>3. Len(lengths') <= MAX_BLOCK_BATCH
      BY <3>2, <1>4, <1>8, SizeAssumption
    <3>4. Len(buf') <= MAX_BUF_SIZE
      BY <3>1, <3>2, <1>3, <1>4, <1>7, SizeAssumption
    <3> QED BY <3>3, <3>4 DEF BatchFits
  <2> QED BY <1>1, <2>1, <2>2
<1> QED BY <1>9, <1>10, <1>11, <1>12 DEF BatchInv

\* Every step of put_many_keyed preserves the invariant.
LEMMA StepBatch == BatchInv /\ [Next]_vars => BatchInv'
<1> SUFFICES ASSUME BatchInv, [Next]_vars PROVE BatchInv'
  OBVIOUS
<1> USE DEF BatchInv, TypeOK
<1>1. CASE UNCHANGED vars
  BY <1>1 DEF vars, InStep, RoomToAppend, BatchFits, MayNotFit
<1>2. CASE NextBlock
  <2>1. Len(blocks) \in Nat
    BY SizeAssumption DEF Calls
  <2>2. TypeOK' /\ InStep' /\ BatchFits'
    BY <1>2 DEF NextBlock, InStep, BatchFits
  <2>3. RoomToAppend'
    BY <1>2, <2>1 DEF NextBlock, RoomToAppend, MayNotFit
  <2> QED BY <2>2, <2>3
<1>3. CASE PushBlock
  BY <1>3, PushBlockBatch
<1>4. CASE FlushNothing
  <2>1. TypeOK' /\ InStep' /\ BatchFits'
    BY <1>4 DEF FlushNothing, AfterFlush, InStep, BatchFits
  <2>2. RoomToAppend'
    BY <1>4 DEF FlushNothing, AfterFlush, InStep, RoomToAppend
  <2> QED BY <2>1, <2>2
<1>5. CASE FlushStored \/ FlushFailed
  <2>0. /\ buf' = <<>> /\ lengths' = <<>> /\ UNCHANGED <<blocks, next>>
        /\ pc' = "done" \/ (pc = "flush" /\ pc' = "append")
        /\ res' \in {res, "ok", "err"}
    BY <1>5 DEF FlushStored, FlushFailed, AfterFlush
  <2>1. TypeOK' /\ InStep'
    BY <2>0 DEF InStep
  <2>2. BatchFits'
    BY <2>0, SizeAssumption DEF BatchFits
  <2>3. RoomToAppend'
    BY <2>0 DEF RoomToAppend
  <2> QED BY <2>1, <2>2, <2>3
<1> QED BY <1>1, <1>2, <1>3, <1>4, <1>5 DEF Next

\* Neither the vector of lengths nor the buffer of put_many_keyed outgrows its
\* limit, whatever the sizes, except that one block too large for the buffer
\* travels alone.
THEOREM BatchesAlwaysFit == Spec => []BatchFits
<1>1. BatchInv => BatchFits
  BY DEF BatchInv
<1> QED BY <1>1, InitBatch, StepBatch, PTL DEF Spec

-----------------------------------------------------------------------------
(* Induction, on sets of numbers, and the recursive functions of the model *)

\* A set of numbers has a least one.
LEMMA LeastNat ==
  ASSUME NEW T \in SUBSET Nat, T # {}
  PROVE  \E m \in T : \A k \in T : m <= k
<1> DEFINE R == {ss \in Nat \X Nat : ss[1] < ss[2]}
<1>1. IsWellFoundedOn(R, Nat)
  BY NatLessThanWellFounded DEF OpToRel
<1>2. \E x \in T : \A y \in T : ~(<<y, x>> \in R)
  <2> HIDE DEF R
  <2> QED BY <1>1, WFMin
<1>3. PICK x \in T : \A y \in T : ~(<<y, x>> \in R)
  BY <1>2
<1>4. \A y \in T : ~(y < x)
  BY <1>3
<1> QED BY <1>4

\* A set with 0 and with the successors of its numbers has them all.
LEMMA SetInduction ==
  ASSUME NEW T, 0 \in T, \A n \in Nat : n \in T => n + 1 \in T
  PROVE  \A n \in Nat : n \in T
<1> DEFINE F == {n \in Nat : n \notin T}
<1>1. SUFFICES ASSUME F # {} PROVE FALSE
  OBVIOUS
<1>2. PICK m \in F : \A k \in F : m <= k
  BY <1>1, LeastNat
<1>3. m \in Nat \ {0} /\ m - 1 \in Nat /\ m - 1 \notin F
  BY <1>2
<1>4. m \in T
  BY <1>3
<1> QED BY <1>2, <1>4

\* There is a function that adds the lengths up.
LEMMA AdvancedExists ==
  ASSUME NEW s \in Seq(Nat)
  PROVE  \E f : f = [n \in 0 .. Len(s) |-> IF n = 0 THEN 0 ELSE f[n - 1] + s[n]]
<1> DEFINE Sums(f, m) == f \in [0 .. m -> Nat] /\ f[0] = 0 /\ \A n \in 1 .. m : f[n] = f[n - 1] + s[n]
           T == {m \in Nat : m <= Len(s) => \E f : Sums(f, m)}
<1>0. Len(s) \in Nat /\ \A n \in 1 .. Len(s) : s[n] \in Nat
  OBVIOUS
<1>1. 0 \in T
  <2>1. Sums([n \in 0 .. 0 |-> 0], 0)
    OBVIOUS
  <2> QED BY <2>1
<1>2. ASSUME NEW m \in Nat, m \in T PROVE m + 1 \in T
  <2>1. SUFFICES ASSUME m + 1 <= Len(s) PROVE \E f : Sums(f, m + 1)
    <3> HIDE DEF Sums
    <3> QED OBVIOUS
  <2>2. PICK f : Sums(f, m)
    BY <1>0, <1>2, <2>1
  <2> DEFINE g == [n \in 0 .. m + 1 |-> IF n = m + 1 THEN f[m] + s[m + 1] ELSE f[n]]
  <2>3. f[m] \in Nat /\ s[m + 1] \in Nat
    BY <1>0, <2>1, <2>2
  <2>4. g \in [0 .. m + 1 -> Nat] /\ g[0] = 0
    BY <2>2, <2>3
  <2>5. \A n \in 1 .. m + 1 : g[n] = g[n - 1] + s[n]
    BY <2>2, <2>3
  <2> QED BY <2>4, <2>5
<1>3. Len(s) \in T
  <2> HIDE DEF T
  <2> QED BY <1>0, <1>1, <1>2, SetInduction
<1>4. PICK f : Sums(f, Len(s))
  BY <1>0, <1>3
<1>5. f = [n \in 0 .. Len(s) |-> IF n = 0 THEN 0 ELSE f[n - 1] + s[n]]
  BY <1>0, <1>4
<1> QED BY <1>5

\* The pointer advances length by length.
LEMMA BlockBufSteps ==
  ASSUME NEW s \in Seq(Nat)
  PROVE  /\ BlockBuf(s)[0] = 0
         /\ \A n \in 0 .. Len(s) : BlockBuf(s)[n] \in Nat
         /\ \A n \in 1 .. Len(s) : BlockBuf(s)[n] = BlockBuf(s)[n - 1] + s[n]
<1> DEFINE Eq(f) == f = [n \in 0 .. Len(s) |-> IF n = 0 THEN 0 ELSE f[n - 1] + s[n]]
           b == BlockBuf(s)
           T == {m \in Nat : m <= Len(s) => b[m] \in Nat}
<1>0. Len(s) \in Nat /\ \A n \in 1 .. Len(s) : s[n] \in Nat
  OBVIOUS
<1>1. Eq(b)
  <2>1. \E f : Eq(f)
    BY AdvancedExists
  <2>2. b = CHOOSE f : Eq(f)
    BY DEF BlockBuf
  <2> HIDE DEF Eq, b
  <2> QED BY <2>1, <2>2
<1> HIDE DEF b
<1>2. b[0] = 0 /\ \A n \in 1 .. Len(s) : b[n] = b[n - 1] + s[n]
  BY <1>0, <1>1
<1>3. 0 \in T
  BY <1>2
<1>4. ASSUME NEW m \in Nat, m \in T PROVE m + 1 \in T
  BY <1>0, <1>2, <1>4
<1>5. \A m \in Nat : m \in T
  <2> HIDE DEF T
  <2> QED BY <1>3, <1>4, SetInduction
<1> QED BY <1>0, <1>2, <1>5 DEF b

\* What is appended does not move what is there.
LEMMA BlockBufAppend ==
  ASSUME NEW s \in Seq(Nat), NEW x \in Nat
  PROVE  /\ \A n \in 0 .. Len(s) : BlockBuf(Append(s, x))[n] = BlockBuf(s)[n]
         /\ BlockBuf(Append(s, x))[Len(s) + 1] = BlockBuf(s)[Len(s)] + x
<1> DEFINE t == Append(s, x)
           b == BlockBuf(s)
           d == BlockBuf(t)
           T == {m \in Nat : m <= Len(s) => d[m] = b[m]}
<1>1. /\ t \in Seq(Nat) /\ Len(s) \in Nat /\ Len(t) = Len(s) + 1
      /\ (\A n \in 1 .. Len(s) : t[n] = s[n]) /\ t[Len(s) + 1] = x
  BY AppendProperties
<1>2. /\ b[0] = 0 /\ d[0] = 0
      /\ \A n \in 1 .. Len(s) : b[n] = b[n - 1] + s[n]
      /\ \A n \in 1 .. Len(t) : d[n] = d[n - 1] + t[n]
  BY <1>1, BlockBufSteps
<1> HIDE DEF t, b, d
<1>3. 0 \in T
  BY <1>2
<1>4. ASSUME NEW m \in Nat, m \in T PROVE m + 1 \in T
  <2>1. SUFFICES ASSUME m + 1 <= Len(s) PROVE d[m + 1] = b[m + 1]
    OBVIOUS
  <2>2. m + 1 \in 1 .. Len(s) /\ m + 1 \in 1 .. Len(t) /\ m + 1 - 1 = m /\ d[m] = b[m]
    BY <1>1, <1>4, <2>1
  <2> QED BY <1>1, <1>2, <2>2
<1>5. \A m \in Nat : m \in T
  <2> HIDE DEF T
  <2> QED BY <1>3, <1>4, SetInduction
<1>6. \A n \in 0 .. Len(s) : d[n] = b[n]
  BY <1>1, <1>5
<1>7. d[Len(s) + 1] = b[Len(s)] + x
  <2>1. Len(s) + 1 \in 1 .. Len(t) /\ Len(s) + 1 - 1 = Len(s) /\ Len(s) \in 0 .. Len(s)
    BY <1>1
  <2> QED BY <1>1, <1>2, <1>6, <2>1
<1> QED BY <1>6, <1>7 DEF t, b, d

\* There is a function that puts the sequences together.
LEMMA FlattenExists ==
  ASSUME NEW S, NEW ss \in Seq(Seq(S))
  PROVE  \E f : f = [i \in 1 .. Len(ss) |-> IF i = 1 THEN ss[i] ELSE f[i - 1] \o ss[i]]
<1> DEFINE Eq(f, m) == f = [i \in 1 .. m |-> IF i = 1 THEN ss[i] ELSE f[i - 1] \o ss[i]]
           T == {m \in Nat : \E f : Eq(f, m)}
<1>1. 0 \in T
  <2>1. Eq([i \in 1 .. 0 |-> 0], 0)
    OBVIOUS
  <2> QED BY <2>1
<1>2. ASSUME NEW m \in Nat, m \in T PROVE m + 1 \in T
  <2>1. PICK f : Eq(f, m)
    BY <1>2
  <2> DEFINE g == [i \in 1 .. m + 1 |->
                     IF i = m + 1 THEN IF i = 1 THEN ss[i] ELSE f[m] \o ss[i] ELSE f[i]]
  <2>2. \A i \in 1 .. m + 1 : g[i] = IF i = 1 THEN ss[i] ELSE g[i - 1] \o ss[i]
    <3>1. SUFFICES ASSUME NEW i \in 1 .. m + 1 PROVE g[i] = IF i = 1 THEN ss[i] ELSE g[i - 1] \o ss[i]
      OBVIOUS
    <3>2. CASE i = m + 1
      BY <3>2
    <3>3. CASE i # m + 1
      <4>1. i \in 1 .. m /\ (i # 1 => i - 1 \in 1 .. m) /\ g[i] = f[i] /\ (i # 1 => g[i - 1] = f[i - 1])
        BY <3>3
      <4>2. f[i] = IF i = 1 THEN ss[i] ELSE f[i - 1] \o ss[i]
        BY <2>1, <4>1
      <4> HIDE DEF g
      <4> QED BY <4>1, <4>2
    <3> QED BY <3>2, <3>3
  <2>3. Eq(g, m + 1)
    <3> DEFINE h == [i \in 1 .. m + 1 |-> IF i = 1 THEN ss[i] ELSE g[i - 1] \o ss[i]]
    <3>1. DOMAIN g = 1 .. m + 1 /\ g = [i \in 1 .. m + 1 |-> g[i]]
      OBVIOUS
    <3>2. g = h
      <4> HIDE DEF g
      <4> QED BY <2>2, <3>1
    <3> QED BY <3>2
  <2> QED
    <3> HIDE DEF Eq, g
    <3> QED BY <2>3
<1>3. Len(ss) \in T
  <2> HIDE DEF T
  <2> QED BY <1>1, <1>2, SetInduction
<1> QED BY <1>3

\* A further batch comes after the ones before it.
LEMMA FlattenAppend ==
  ASSUME NEW S, NEW ss \in Seq(Seq(S)), NEW b \in Seq(S)
  PROVE  FlattenSeq(Append(ss, b)) = FlattenSeq(ss) \o b
<1> DEFINE Eq(f, u) == f = [i \in 1 .. Len(u) |-> IF i = 1 THEN u[i] ELSE f[i - 1] \o u[i]]
           t == Append(ss, b)
           f == CHOOSE f : Eq(f, ss)
           g == CHOOSE g : Eq(g, t)
           n == Len(ss)
           T == {m \in Nat : m \in 1 .. n => g[m] = f[m]}
<1>1. /\ t \in Seq(Seq(S)) /\ n \in Nat /\ Len(t) = n + 1
      /\ (\A i \in 1 .. n : t[i] = ss[i]) /\ t[n + 1] = b
  BY AppendProperties
<1>2. Eq(f, ss) /\ Eq(g, t)
  <2>1. (\E h : Eq(h, ss)) /\ \E h : Eq(h, t)
    <3> HIDE DEF t
    <3> QED BY <1>1, FlattenExists
  <2> HIDE DEF Eq, t
  <2> QED BY <2>1
<1>3. /\ FlattenSeq(t) = g[n + 1]
      /\ FlattenSeq(ss) = IF n = 0 THEN ss ELSE f[n]
  <2>1. FlattenSeq(t) = IF Len(t) = 0 THEN t ELSE g[Len(t)]
    BY DEF FlattenSeq
  <2>2. FlattenSeq(ss) = IF Len(ss) = 0 THEN ss ELSE f[Len(ss)]
    BY DEF FlattenSeq
  <2> HIDE DEF f, g, t
  <2> QED BY <1>1, <2>1, <2>2
<1> HIDE DEF f, g, t, n
<1>4. /\ \A i \in 1 .. n : f[i] = IF i = 1 THEN ss[i] ELSE f[i - 1] \o ss[i]
      /\ \A i \in 1 .. n + 1 : g[i] = IF i = 1 THEN t[i] ELSE g[i - 1] \o t[i]
  BY <1>1, <1>2 DEF n
<1>5. 0 \in T
  OBVIOUS
<1>6. ASSUME NEW m \in Nat, m \in T PROVE m + 1 \in T
  <2>1. SUFFICES ASSUME m + 1 \in 1 .. n PROVE g[m + 1] = f[m + 1]
    OBVIOUS
  <2>2. /\ m + 1 \in 1 .. n + 1 /\ t[m + 1] = ss[m + 1] /\ m + 1 - 1 = m
        /\ m + 1 # 1 => g[m] = f[m]
    BY <1>1, <1>6, <2>1
  <2> QED BY <1>4, <2>1, <2>2
<1>7. \A m \in Nat : m \in T
  <2> HIDE DEF T
  <2> QED BY <1>5, <1>6, SetInduction
<1>8. CASE n = 0
  <2>1. ss = <<>> /\ g[n + 1] = b
    BY <1>1, <1>4, <1>8 DEF n
  <2>2. <<>> \o b = b
    BY ConcatEmptySeq
  <2> QED BY <1>3, <1>8, <2>1, <2>2 DEF t
<1>9. CASE n # 0
  <2>1. n \in 1 .. n /\ n + 1 \in 1 .. n + 1 /\ n + 1 # 1 /\ n + 1 - 1 = n
    BY <1>1, <1>9
  <2>2. g[n] = f[n]
    BY <1>1, <1>7, <2>1
  <2>3. PICK k \in 1 .. n + 1 : k = n + 1 /\ k # 1 /\ k - 1 = n
    BY <2>1
  <2>4. g[n + 1] = g[n] \o b
    <3>1. g[k] = g[k - 1] \o t[k]
      BY <1>4, <2>3
    <3> QED BY <1>1, <2>3, <3>1
  <2> QED BY <1>3, <1>9, <2>2, <2>4 DEF t
<1> QED BY <1>8, <1>9

-----------------------------------------------------------------------------
(* What is in the buffer, and what Go makes of it *)

\* The blocks that are not in the batch being filled.
First == next - 1 - Len(lengths)

Written(i) == Cells(i, "cid", blocks[i].cid) \o Cells(i, "data", blocks[i].data)

\* The lengths are the sizes, and they cut the buffer between the last blocks the
\* loop has passed, which lie there one after the other.
Cut ==
  /\ lengths \in Seq(Nat)
  /\ BlockBuf(lengths)[Len(lengths)] = Len(buf)
  /\ \A j \in 1 .. Len(lengths) :
       /\ BlockBuf(lengths)[j] <= Len(buf)
       /\ lengths[j] = Size(First + j)
       /\ Segment(j) = Written(First + j)

\* A block whose size is not an i32 is alone in its batch.
Alone ==
  /\ next - 1 \in 1 .. Len(blocks)
  /\ Size(next - 1) >= I32
  /\ buf = Written(next - 1)
  /\ lengths = <<AsI32(Size(next - 1))>>

Laid == First >= 0 /\ (Cut \/ Alone)

\* The cells of one block.
LEMMA WrittenTyped ==
  ASSUME TypeOK, NEW i \in 1 .. Len(blocks)
  PROVE  Written(i) \in Seq(Cell) /\ Len(Written(i)) = blocks[i].cid + blocks[i].data
<1> DEFINE c == Cells(i, "cid", blocks[i].cid)
           d == Cells(i, "data", blocks[i].data)
<1>1. c \in Seq(Cell) /\ Len(c) = blocks[i].cid /\ d \in Seq(Cell) /\ Len(d) = blocks[i].data
  BY BlockTyped, CellsTyped
<1> HIDE DEF c, d
<1>2. c \o d \in Seq(Cell) /\ Len(c \o d) = Len(c) + Len(d)
  BY <1>1, ConcatProperties
<1> QED BY <1>1, <1>2 DEF Written, c, d

\* A block that is cut out whole is read back: its CID, and behind it its data.
LEMMA ReadsBack ==
  ASSUME TypeOK, NEW i \in 1 .. Len(blocks)
  PROVE  CidFromBytes(Written(i)) # 0 /\ Parse(Written(i)).cid = i /\ Intact(Parse(Written(i)))
<1> DEFINE c == Cells(i, "cid", blocks[i].cid)
           d == Cells(i, "data", blocks[i].data)
           n == blocks[i].cid
           s == Written(i)
<1>1. /\ c \in Seq(Cell) /\ Len(c) = n /\ d \in Seq(Cell) /\ Len(d) = blocks[i].data
      /\ n \in Nat \ {0} /\ blocks[i].data \in Nat
  BY BlockTyped, CellsTyped
<1>2. s = c \o d /\ c[1] = [of |-> i, part |-> "cid"]
  BY <1>1 DEF Written, Cells
<1> HIDE DEF c, d, n, s
<1>3. s \in Seq(Cell) /\ Len(s) = n + Len(d) /\ s[1] = c[1]
  <2>1. 1 \in 1 .. Len(c) + Len(d) /\ 1 <= Len(c)
    BY <1>1
  <2>2. /\ c \o d \in Seq(Cell) /\ Len(c \o d) = Len(c) + Len(d)
        /\ (c \o d)[1] = IF 1 <= Len(c) THEN c[1] ELSE d[1 - Len(c)]
    <3>1. c \in Seq(Cell) /\ d \in Seq(Cell)
      BY <1>1
    <3> QED BY <2>1, <3>1, ConcatProperties
  <2> QED BY <1>1, <1>2, <2>1, <2>2
<1>4. s[1].of = i
  BY <1>2, <1>3
<1>5. SubSeq(s, 1, n) = c
  <2>1. SubSeq(s, 1, n) = SubSeq(c, 1, n)
    BY <1>1, <1>2, SubSeqOfConcat1
  <2> QED BY <1>1, <2>1, SubSeqFull
<1>6. SubSeq(s, n + 1, Len(s)) = d
  <2>1. CASE Len(d) = 0
    <3>1. n + 1 \in Int /\ Len(s) \in Int /\ Len(s) < n + 1
      BY <1>1, <1>3, <2>1
    <3>2. SubSeq(s, n + 1, Len(s)) = <<>> /\ d = <<>>
      BY <1>1, <2>1, <3>1, SubSeqEmpty, EmptySeq
    <3> QED BY <3>2
  <2>2. CASE Len(d) # 0
    <3>1. Len(d) \in Nat \ {0}
      BY <1>1, <2>2
    <3>2. n + 1 \in Len(c) + 1 .. Len(c) + Len(d) /\ Len(s) \in Len(c) + 1 .. Len(c) + Len(d)
      BY <1>1, <1>3, <3>1
    <3>3. SubSeq(s, n + 1, Len(s)) = SubSeq(d, n + 1 - Len(c), Len(s) - Len(c))
      BY <1>1, <1>2, <3>2, SubSeqOfConcat2
    <3>4. n + 1 - Len(c) = 1 /\ Len(s) - Len(c) = Len(d)
      BY <1>1, <1>3, <3>1
    <3>5. SubSeq(d, 1, Len(d)) = d
      BY <1>1, SubSeqFull
    <3> QED BY <3>3, <3>4, <3>5
  <2> QED BY <2>1, <2>2
<1>7. CidFromBytes(s) = n
  <2>1. Len(s) >= n
    BY <1>1, <1>3
  <2>2. s # <<>>
    BY <1>1, <1>3
  <2> QED BY <1>4, <1>5, <2>1, <2>2 DEF CidFromBytes, c, n
<1>8. Parse(s) = [cid |-> i, data |-> d]
  BY <1>4, <1>6, <1>7 DEF Parse
<1> QED BY <1>1, <1>7, <1>8 DEF Intact, d, s

\* A block starts with its CID.
LEMMA WrittenStarts ==
  ASSUME TypeOK, NEW i \in 1 .. Len(blocks)
  PROVE  Written(i)[1].of = i
<1> DEFINE c == Cells(i, "cid", blocks[i].cid)
           d == Cells(i, "data", blocks[i].data)
<1>1. /\ c \in Seq(Cell) /\ Len(c) = blocks[i].cid /\ d \in Seq(Cell) /\ Len(d) = blocks[i].data
      /\ blocks[i].cid \in Nat \ {0} /\ blocks[i].data \in Nat
  BY BlockTyped, CellsTyped
<1>2. c[1] = [of |-> i, part |-> "cid"]
  BY <1>1 DEF Cells
<1> HIDE DEF c, d
<1>3. 1 \in 1 .. Len(c) + Len(d) /\ 1 <= Len(c)
  BY <1>1
<1>4. (c \o d)[1] = c[1]
  <2>1. c \in Seq(Cell) /\ d \in Seq(Cell)
    BY <1>1
  <2>2. (c \o d)[1] = IF 1 <= Len(c) THEN c[1] ELSE d[1 - Len(c)]
    BY <1>3, <2>1, ConcatProperties
  <2> QED BY <1>3, <2>2
<1>5. (c \o d)[1].of = i
  BY <1>2, <1>4
<1>6. Written(i) = c \o d
  BY DEF Written, c, d
<1> QED BY <1>5, <1>6

\* A cut in front of what is appended is the same cut.
LEMMA CutOfFront ==
  ASSUME NEW S, NEW s \in Seq(S), NEW t \in Seq(S), NEW m \in Nat, NEW n \in Nat, n <= Len(s)
  PROVE  SubSeq(s \o t, m + 1, n) = SubSeq(s, m + 1, n)
<1>1. CASE n < m + 1
  BY <1>1, SubSeqEmpty
<1>2. CASE m + 1 <= n
  BY <1>2, SubSeqOfConcat1
<1> QED BY <1>1, <1>2

\* A further block goes behind the others, and its length behind theirs.
LEMMA PushBlockCut ==
  ASSUME BatchInv, First >= 0, Cut, PushBlock, Size(next) < I32
  PROVE  First' >= 0 /\ Cut'
<1> DEFINE L == Len(lengths)
           w == Written(next)
           x == blocks[next].cid + blocks[next].data
           b == BlockBuf(lengths)
           b1 == BlockBuf(lengths')
<1>1. TypeOK /\ next \in 1 .. Len(blocks) /\ L \in Nat /\ Len(buf) \in Nat /\ Len(blocks) \in Nat
      /\ lengths \in Seq(Nat) /\ buf \in Seq(Cell)
  BY SizeAssumption DEF BatchInv, RoomToAppend, PushBlock, TypeOK, Calls, Cut
<1>2. w \in Seq(Cell) /\ Len(w) = x /\ x \in Nat \ {0}
  BY <1>1, WrittenTyped, BlockTyped
<1>3. /\ buf' = buf \o w /\ lengths' = Append(lengths, x)
      /\ next' = next + 1 /\ blocks' = blocks
  <2> DEFINE c == Cells(next, "cid", blocks[next].cid)
             d == Cells(next, "data", blocks[next].data)
  <2>1. c \in Seq(Cell) /\ d \in Seq(Cell)
    BY <1>1, BlockTyped, CellsTyped
  <2>2. /\ buf' = (buf \o c) \o d /\ lengths' = Append(lengths, AsI32(x))
        /\ next' = next + 1 /\ blocks' = blocks /\ w = c \o d
    BY DEF PushBlock, Written
  <2>4. AsI32(x) = x
    BY <1>2, Cast DEF Size
  <2> HIDE DEF c, d, w, x
  <2>3. (buf \o c) \o d = buf \o (c \o d)
    <3>1. buf \in Seq(Cell) /\ c \in Seq(Cell) /\ d \in Seq(Cell)
      BY <1>1, <2>1
    <3> QED BY <3>1, ConcatAssociative
  <2> QED BY <2>2, <2>3, <2>4
<1>4. /\ Len(lengths') = L + 1 /\ lengths' \in Seq(Nat) /\ lengths'[L + 1] = x
      /\ \A j \in 1 .. L : lengths'[j] = lengths[j] /\ lengths[j] \in Nat
  BY <1>1, <1>2, <1>3, AppendProperties
<1>5. Len(buf') = Len(buf) + x
  BY <1>1, <1>2, <1>3, ConcatProperties
<1>6. First' = First /\ First \in Nat /\ First + L + 1 = next
  BY <1>1, <1>3, <1>4 DEF First
<1>7. (\A n \in 0 .. L : b1[n] = b[n]) /\ b1[L + 1] = b[L] + x /\ b[L] = Len(buf)
  BY <1>1, <1>2, <1>3, BlockBufAppend DEF Cut
<1>8. /\ \A n \in 0 .. L : b[n] \in Nat
      /\ \A n \in 1 .. L : b[n] = b[n - 1] + lengths[n]
  BY <1>1, BlockBufSteps
<1> HIDE DEF w, b, b1, x
<1>9. ASSUME NEW j \in 1 .. L + 1
      PROVE  /\ b1[j] <= Len(buf') /\ lengths'[j] = Size(First + j)
             /\ SubSeq(buf', b1[j - 1] + 1, b1[j - 1] + lengths'[j]) = Written(First + j)
  <2>1. CASE j \in 1 .. L
    <3>1. /\ b1[j] = b[j] /\ b1[j - 1] = b[j - 1] /\ b[j - 1] \in Nat /\ b[j] \in Nat
          /\ b[j] = b[j - 1] + lengths[j] /\ lengths'[j] = lengths[j]
      <4>1. j \in 0 .. L /\ j - 1 \in 0 .. L
        BY <1>1, <2>1
      <4> QED BY <1>4, <1>7, <1>8, <2>1, <4>1
    <3>2. b[j] <= Len(buf) /\ lengths[j] = Size(First + j) /\ Segment(j) = Written(First + j)
      BY <2>1 DEF Cut, b
    <3>3. SubSeq(buf', b[j - 1] + 1, b[j]) = SubSeq(buf, b[j - 1] + 1, b[j])
      <4>1. SubSeq(buf \o w, b[j - 1] + 1, b[j]) = SubSeq(buf, b[j - 1] + 1, b[j])
        <5>1. buf \in Seq(Cell) /\ w \in Seq(Cell)
          BY <1>1, <1>2
        <5>2. b[j - 1] \in Nat /\ b[j] \in Nat /\ b[j] <= Len(buf)
          BY <3>1, <3>2
        <5> QED BY <5>1, <5>2, CutOfFront, Zenon
      <4> QED BY <1>3, <4>1
    <3>4. Segment(j) = SubSeq(buf, b[j - 1] + 1, b[j])
      BY <3>1 DEF Segment, b
    <3>5. b1[j] <= Len(buf')
      BY <1>1, <1>2, <1>5, <3>1, <3>2
    <3> QED BY <3>1, <3>2, <3>3, <3>4, <3>5
  <2>2. CASE j = L + 1
    <3>1. b1[j - 1] = Len(buf) /\ b1[j] = Len(buf') /\ lengths'[j] = x /\ First + j = next
      <4>1. j - 1 = L /\ L \in 0 .. L /\ First + j = next
        BY <1>1, <1>6, <2>2
      <4>2. b1[L] = Len(buf)
        BY <1>7, <4>1
      <4> QED BY <1>4, <1>5, <1>7, <2>2, <4>1, <4>2
    <3>2. Len(buf) + 1 \in Len(buf) + 1 .. Len(buf) + Len(w) /\ Len(buf) + x \in Len(buf) + 1 .. Len(buf) + Len(w)
      BY <1>1, <1>2
    <3>3. SubSeq(buf', Len(buf) + 1, Len(buf) + x) = SubSeq(w, Len(buf) + 1 - Len(buf), Len(buf) + x - Len(buf))
      BY <1>1, <1>2, <1>3, <3>2, SubSeqOfConcat2
    <3>4. Len(buf) + 1 - Len(buf) = 1 /\ Len(buf) + x - Len(buf) = Len(w) /\ Len(buf') <= Len(buf')
      BY <1>1, <1>2, <1>5
    <3>5. SubSeq(w, 1, Len(w)) = w
      BY <1>2, SubSeqFull
    <3>6. lengths'[j] = Size(First + j)
      BY <3>1 DEF x, Size
    <3> QED BY <3>1, <3>3, <3>4, <3>5, <3>6 DEF w
  <2> QED BY <1>1, <2>1, <2>2
<1>10. \A i : Written(i)' = Written(i) /\ Size(i)' = Size(i)
  BY <1>3 DEF Written, Size
<1>11. BlockBuf(lengths')[Len(lengths')] = Len(buf')
  BY <1>4, <1>5, <1>7 DEF b1
<1> QED BY <1>4, <1>6, <1>9, <1>10, <1>11 DEF Cut, Segment, b1

\* A block is pushed behind others only where it fits the buffer with them, so one
\* that is not the size of an i32 starts a batch, and ends it.
LEMMA PushBlockLaid ==
  ASSUME BatchInv, Laid, PushBlock
  PROVE  Laid'
<1>1. /\ TypeOK /\ next \in 1 .. Len(blocks) /\ Len(lengths) \in Nat /\ Len(buf) \in Nat
      /\ Len(blocks) \in Nat /\ (lengths = <<>> => buf = <<>>)
      /\ lengths = <<>> \/ ~MayNotFit(blocks[next])
  BY SizeAssumption DEF BatchInv, InStep, RoomToAppend, PushBlock, TypeOK, Calls
<1>2. /\ blocks[next].cid \in Nat \ {0} /\ blocks[next].cid <= EST_MAX_CID_LEN
      /\ blocks[next].data \in Nat /\ Size(next) \in Nat
  BY <1>1, BlockTyped DEF Size
<1>3. CASE lengths # <<>>
  <2>1. EST_MAX_CID_LEN + blocks[next].data + Len(buf) <= MAX_BUF_SIZE
    BY <1>1, <1>2, <1>3, SizeAssumption DEF MayNotFit
  <2>2. Size(next) < I32 /\ Len(buf) < I32
    BY <1>1, <1>2, <2>1, SizeAssumption DEF Size
  <2>3. ~Alone
    <3>1. SUFFICES ASSUME Alone PROVE FALSE
      OBVIOUS
    <3>2. Len(buf) = Size(next - 1) /\ Size(next - 1) >= I32
      BY <1>1, <3>1, WrittenTyped DEF Alone, Size
    <3> QED BY <1>1, <2>2, <3>2, SizeAssumption
  <2> QED BY <2>2, <2>3, PushBlockCut DEF Laid
<1>4. CASE lengths = <<>> /\ Size(next) < I32
  <2>1. ~Alone
    BY <1>4 DEF Alone
  <2> QED BY <1>4, <2>1, PushBlockCut DEF Laid
<1>5. CASE lengths = <<>> /\ ~(Size(next) < I32)
  <2> DEFINE c == Cells(next, "cid", blocks[next].cid)
             d == Cells(next, "data", blocks[next].data)
  <2>1. /\ buf' = (<<>> \o c) \o d /\ lengths' = Append(<<>>, AsI32(Size(next)))
        /\ next' = next + 1 /\ blocks' = blocks /\ Written(next) = c \o d
    BY <1>1, <1>5 DEF PushBlock, Written, Size
  <2>2. c \in Seq(Cell) /\ d \in Seq(Cell)
    BY <1>1, BlockTyped, CellsTyped
  <2> HIDE DEF c, d
  <2>3. <<>> \o c = c
    BY <2>2, ConcatEmptySeq
  <2>4. buf' = Written(next) /\ lengths' = <<AsI32(Size(next))>> /\ next' - 1 = next
    BY <1>1, <2>1, <2>3
  <2>5. \A i : Written(i)' = Written(i) /\ Size(i)' = Size(i) /\ AsI32(i)' = AsI32(i)
    BY <2>1 DEF Written, Size, AsI32
  <2>6. Alone'
    <3>1. Size(next) >= I32 /\ next \in 1 .. Len(blocks')
      BY <1>1, <1>2, <1>5, <2>1, SizeAssumption
    <3> QED BY <2>4, <2>5, <3>1 DEF Alone
  <2>7. First' >= 0
    BY <1>1, <2>4 DEF First
  <2> QED BY <2>6, <2>7 DEF Laid
<1> QED BY <1>3, <1>4, <1>5

\* The blocks of the batch, by the place of their lengths.
LEMMA BatchIds ==
  ASSUME BatchInv, Laid
  PROVE  /\ TypeOK
         /\ First \in Nat /\ First + Len(lengths) = next - 1 /\ next - 1 <= Len(blocks)
         /\ Len(lengths) \in Nat /\ Len(blocks) \in Nat /\ DOMAIN lengths = 1 .. Len(lengths)
         /\ LengthsLen = Len(lengths) /\ LengthsLen <= MAX_LEN
         /\ \A j \in 1 .. Len(lengths) :
              /\ First + j \in 1 .. Len(blocks) /\ Sent(j) = First + j
              /\ Size(First + j) \in Nat
<1>1. TypeOK /\ Len(lengths) \in Nat /\ Len(blocks) \in Nat /\ DOMAIN lengths = 1 .. Len(lengths)
  BY SizeAssumption DEF BatchInv, TypeOK, Calls
<1>2. next \in 1 .. Len(blocks) + 1
  BY <1>1 DEF TypeOK
<1>3. First \in Nat /\ First + Len(lengths) = next - 1 /\ next - 1 <= Len(blocks)
  BY <1>1, <1>2 DEF First, Laid
<1>4. Len(lengths) <= MAX_BLOCK_BATCH
  BY DEF BatchInv, BatchFits
<1>5. LengthsLen = Len(lengths) /\ LengthsLen <= MAX_LEN
  <2>1. Len(lengths) < I32 /\ Len(lengths) <= MAX_LEN
    BY <1>1, <1>4, SizeAssumption
  <2> QED BY <1>1, <2>1, Cast DEF LengthsLen
<1>6. ASSUME NEW j \in 1 .. Len(lengths)
      PROVE  First + j \in 1 .. Len(blocks) /\ Sent(j) = First + j /\ Size(First + j) \in Nat
  <2>1. First + j \in 1 .. Len(blocks)
    BY <1>1, <1>3
  <2>2. Sent(j) = First + j
    BY <1>1, <1>2 DEF Sent, First
  <2>3. Size(First + j) \in Nat
    BY <1>1, <2>1, BlockTyped DEF Size
  <2> QED BY <2>1, <2>2, <2>3
<1> QED BY <1>1, <1>3, <1>5, <1>6

\* What Go makes of a batch of blocks whose sizes are their lengths.
LEMMA CutRead ==
  ASSUME BatchInv, Laid, Cut
  PROVE  /\ Rejected => \E j \in 1 .. Len(lengths) : Size(First + j) > MAX_LEN
         /\ ~Rejected => \A j \in 1 .. Len(lengths) :
              /\ Decoded[j].cid = First + j
              /\ Intact(Decoded[j]) /\ Size(First + j) < 2 * I32
<1>1. /\ TypeOK /\ LengthsLen = Len(lengths) /\ LengthsLen <= MAX_LEN /\ Len(lengths) \in Nat
      /\ \A j \in 1 .. Len(lengths) : First + j \in 1 .. Len(blocks) /\ Size(First + j) \in Nat
  BY BatchIds
<1>2. \A j \in 1 .. Len(lengths) : lengths[j] = Size(First + j) /\ Segment(j) = Written(First + j)
  BY DEF Cut
<1>3. ASSUME NEW j \in 1 .. Len(lengths)
      PROVE  /\ CidFromBytes(Segment(j)) # 0
             /\ Parse(Segment(j)).cid = First + j /\ Intact(Parse(Segment(j)))
  BY <1>1, <1>2, ReadsBack
<1>4. ASSUME Rejected PROVE \E j \in 1 .. Len(lengths) : Size(First + j) > MAX_LEN
  <2>1. ~(LengthsLen > MAX_LEN) /\ ~(LengthsLen < 0)
    BY <1>1, SizeAssumption
  <2>2. PICK j \in 1 .. Len(lengths) :
          lengths[j] > MAX_LEN \/ lengths[j] < 0 \/ CidFromBytes(Segment(j)) = 0
    BY <1>1, <1>4, <2>1 DEF Rejected
  <2>3. lengths[j] = Size(First + j) /\ ~(Size(First + j) < 0)
    BY <1>1, <1>2
  <2> QED BY <1>3, <2>2, <2>3
<1>5. ASSUME ~Rejected, NEW j \in 1 .. Len(lengths)
      PROVE  /\ Decoded[j].cid = First + j
             /\ Intact(Decoded[j]) /\ Size(First + j) < 2 * I32
  <2>1. Decoded[j] = Parse(Segment(j))
    BY <1>1 DEF Decoded
  <2>2. ~(Size(First + j) > MAX_LEN)
    BY <1>1, <1>2, <1>5 DEF Rejected
  <2>3. Size(First + j) < 2 * I32
    BY <1>1, <2>2, SizeAssumption
  <2> QED BY <1>3, <2>1, <2>3
<1> QED BY <1>4, <1>5

\* What Go makes of a block whose length has wrapped: when it accepts the batch, it
\* reads the CID, and fewer bytes of data than there are.
LEMMA AloneRead ==
  ASSUME BatchInv, Laid, Alone
  PROVE  /\ Len(lengths) = 1 /\ Size(First + 1) > MAX_LEN
         /\ ~Rejected => /\ Decoded[1].cid = First + 1
                         /\ ~Intact(Decoded[1]) /\ Size(First + 1) >= 2 * I32
<1> DEFINE i == next - 1
           x == AsI32(Size(i))
           n == blocks[i].cid
           w == Written(i)
           s == Segment(1)
<1>1. /\ TypeOK /\ i \in 1 .. Len(blocks) /\ Size(i) >= I32 /\ buf = w /\ lengths = <<x>>
  BY DEF Alone, BatchInv
<1>2. /\ n \in Nat \ {0} /\ blocks[i].data \in Nat /\ Size(i) = n + blocks[i].data /\ Size(i) \in Nat
      /\ w \in Seq(Cell) /\ Len(w) = Size(i) /\ x \in Int /\ x < Size(i)
      /\ Size(i) < 2 * I32 => x < 0
  <2>1. n \in Nat \ {0} /\ blocks[i].data \in Nat /\ Size(i) = n + blocks[i].data
    BY <1>1, BlockTyped DEF Size
  <2>2. Size(i) \in Nat
    BY <2>1
  <2>3. w \in Seq(Cell) /\ Len(w) = Size(i)
    BY <1>1, WrittenTyped DEF Size
  <2> QED BY <1>1, <2>1, <2>2, <2>3, Cast
<1>3. Len(lengths) = 1 /\ First + 1 = i /\ LengthsLen = 1
  <2>1. Len(lengths) = 1 /\ lengths[1] = x
    BY <1>1
  <2>2. i \in Int /\ next \in Int
    BY <1>1 DEF TypeOK
  <2> QED BY <2>1, <2>2, BatchIds DEF First
<1>4. Size(i) > MAX_LEN
  BY <1>1, <1>2, SizeAssumption
<1> SUFFICES ASSUME ~Rejected
             PROVE  Decoded[1].cid = i /\ ~Intact(Decoded[1]) /\ Size(i) >= 2 * I32
  BY <1>3, <1>4
<1>5. Decoded[1] = Parse(s) /\ lengths[1] = x /\ ~(x < 0) /\ CidFromBytes(s) # 0
  <2>1. 1 \in 1 .. LengthsLen /\ lengths[1] = x
    BY <1>1, <1>3
  <2> QED BY <2>1 DEF Rejected, Decoded
<1>6. w[1].of = i
  BY <1>1, <1>2, WrittenStarts
<1>7. s = SubSeq(w, 1, x)
  <2>1. lengths \in Seq(Nat)
    BY <1>1, <1>2, <1>5
  <2>2. BlockBuf(lengths)[0] = 0
    BY <2>1, BlockBufSteps
  <2>3. s = SubSeq(w, 0 + 1, 0 + x)
    <3>1. BlockBuf(lengths)[1 - 1] = 0
      BY <2>2
    <3> QED BY <1>1, <1>5, <3>1 DEF Segment
  <2> QED BY <1>2, <2>3
<1> HIDE DEF i, x, n, w, s
<1>8. x \in 1 .. Len(w)
  <2>1. CASE x = 0
    <3>1. SubSeq(w, 1, 0) = <<>>
      BY <1>2, SubSeqEmpty
    <3> QED BY <1>5, <1>7, <2>1, <3>1 DEF CidFromBytes
  <2> QED BY <1>2, <1>5, <2>1
<1>9. s \in Seq(Cell) /\ Len(s) = x /\ s[1] = w[1] /\ s # <<>>
  <2>1. 1 \in 1 .. Len(w) /\ x \in 1 .. Len(w)
    BY <1>2, <1>8
  <2>2. /\ SubSeq(w, 1, x) \in Seq(Cell) /\ Len(SubSeq(w, 1, x)) = x
        /\ SubSeq(w, 1, x)[1] = w[1]
    BY <1>2, <2>1
  <2> QED BY <1>7, <1>8, <2>2
<1>10. CidFromBytes(s) = n /\ x >= n
  BY <1>5, <1>6, <1>9 DEF CidFromBytes, n
<1>11. Parse(s).cid = i /\ Parse(s).data = SubSeq(s, n + 1, x)
  BY <1>6, <1>9, <1>10 DEF Parse
<1>12. Len(SubSeq(s, n + 1, x)) = x - n
  BY <1>2, <1>9, <1>10
<1>13. ~Intact(Parse(s))
  <2>1. SUFFICES ASSUME SubSeq(s, n + 1, x) = Cells(i, "data", blocks[i].data) PROVE FALSE
    BY <1>11 DEF Intact
  <2>2. Len(Cells(i, "data", blocks[i].data)) = blocks[i].data
    BY <1>2 DEF Cells
  <2> QED BY <1>2, <1>12, <2>1, <2>2
<1>14. Size(i) >= 2 * I32
  BY <1>2, <1>5, SizeAssumption
<1> QED BY <1>5, <1>11, <1>13, <1>14

\* What Go makes of any batch.
LEMMA BatchRead ==
  ASSUME BatchInv, Laid, lengths # <<>>
  PROVE  /\ Rejected => \E j \in 1 .. Len(lengths) : Size(First + j) > MAX_LEN
         /\ ~Rejected => \A j \in 1 .. Len(lengths) :
              /\ Decoded[j].cid = First + j
              /\ Intact(Decoded[j]) <=> Size(First + j) < 2 * I32
<1>1. CASE Cut
  BY <1>1, CutRead
<1>2. CASE Alone
  <2>1. /\ Len(lengths) = 1 /\ Size(First + 1) > MAX_LEN
        /\ ~Rejected => /\ Decoded[1].cid = First + 1
                        /\ ~Intact(Decoded[1]) /\ Size(First + 1) >= 2 * I32
    BY <1>2, AloneRead
  <2>2. Size(First + 1) \in Nat /\ 2 * I32 \in Nat /\ 1 .. Len(lengths) = {1}
    BY <2>1, BatchIds, SizeAssumption
  <2> QED BY <2>1, <2>2
<1> QED BY <1>1, <1>2 DEF Laid

\* The batches stored are the blocks before the one being filled, until a flush fails,
\* and all but the huge ones are stored whole.
Delivered ==
  /\ taken \in Seq(Seq(Nat))
  /\ BatchesInOrder
  /\ stored \subseteq 1 .. (next - 1)
  /\ res # "err" => /\ stored = {i \in 1 .. First : Size(i) < 2 * I32}
                    /\ FlattenSeq(taken) = [i \in 1 .. First |-> i]
  /\ res # "none" => pc = "done"

DeliveryInv == BatchInv /\ Laid /\ Delivered

\* The batch is empty after a flush, whatever came of it.
LEMMA EmptyLaid == TypeOK /\ lengths = <<>> /\ buf = <<>> => Laid
<1> SUFFICES ASSUME TypeOK, lengths = <<>>, buf = <<>> PROVE Laid
  OBVIOUS
<1>1. BlockBuf(<<>>)[0] = 0
  <2>1. <<>> \in Seq(Nat)
    OBVIOUS
  <2> QED BY <2>1, BlockBufSteps
<1>2. Len(lengths) = 0 /\ Len(buf) = 0 /\ next \in Nat /\ next >= 1
  BY SizeAssumption DEF TypeOK, Calls
<1>3. First >= 0
  BY <1>2 DEF First
<1>4. lengths \in Seq(Nat)
  OBVIOUS
<1> QED BY <1>1, <1>2, <1>3, <1>4 DEF Laid, Cut

\* Nothing is stored at first.
LEMMA InitDelivery == Init => DeliveryInv
<1> SUFFICES ASSUME Init PROVE DeliveryInv
  OBVIOUS
<1>1. BatchInv
  BY InitBatch
<1>2. Laid
  BY <1>1, EmptyLaid DEF BatchInv, Init
<1>3. First = 0 /\ Len(blocks) \in Nat /\ taken = <<>> /\ stored = {} /\ res = "none" /\ pc = "loop"
  <2>1. Len(blocks) \in Nat
    BY SizeAssumption DEF Init, Calls
  <2>2. next = 1 /\ Len(lengths) = 0
    BY DEF Init
  <2>3. First = 0
    BY <2>2 DEF First
  <2> QED BY <2>1, <2>3 DEF Init
<1>4. FlattenSeq(taken) = <<>>
  BY <1>3 DEF FlattenSeq
<1>5. <<>> = [i \in 1 .. 0 |-> i] /\ 1 .. 0 = {} /\ <<>> \in Seq(Seq(Nat)) /\ Len(<<>>) = 0 /\ DOMAIN <<>> = {}
  OBVIOUS
<1>6. BatchesInOrder
  BY <1>3, <1>4, <1>5 DEF BatchesInOrder
<1>7. stored = {i \in 1 .. First : Size(i) < 2 * I32} /\ stored \subseteq 1 .. (next - 1)
  BY <1>3, <1>5
<1> QED BY <1>1, <1>2, <1>3, <1>4, <1>5, <1>6, <1>7 DEF DeliveryInv, Delivered

\* A batch that was stored continues the ones before it.
LEMMA StoredDelivery ==
  ASSUME DeliveryInv, FlushStored
  PROVE  Delivered'
<1> DEFINE L == Len(lengths)
           ids == [j \in 1 .. L |-> First + j]
           before == [i \in 1 .. First |-> i]
           all == [i \in 1 .. next - 1 |-> i]
<1>1. /\ First \in Nat /\ First + L = next - 1 /\ next - 1 <= Len(blocks) /\ L \in Nat
      /\ Len(blocks) \in Nat /\ LengthsLen = L
  BY BatchIds DEF DeliveryInv
<1>0. \A j \in 1 .. L : /\ Decoded[j].cid = First + j
                        /\ Intact(Decoded[j]) <=> Size(First + j) < 2 * I32
  <2>1. BatchInv /\ Laid /\ lengths # <<>> /\ ~Rejected
    BY DEF DeliveryInv, BatchInv, InStep, FlushStored
  <2> QED BY <2>1, BatchRead
<1>2. res = "none" /\ stored = {i \in 1 .. First : Size(i) < 2 * I32} /\ FlattenSeq(taken) = before /\ taken \in Seq(Seq(Nat))
  BY DEF DeliveryInv, Delivered, BatchInv, TypeOK, FlushStored
<1>3. /\ taken' = Append(taken, ids) /\ stored' = stored \cup Whole
      /\ lengths' = <<>> /\ next' = next /\ blocks' = blocks /\ res' # "err"
      /\ res' # "none" => pc' = "done"
  <2>1. [j \in 1 .. LengthsLen |-> Decoded[j].cid] = ids
    BY <1>0, <1>1
  <2>3. res' # "err" /\ (res' # "none" => pc' = "done")
    BY <1>2 DEF FlushStored, AfterFlush
  <2> HIDE DEF ids
  <2> QED BY <2>1, <2>3 DEF FlushStored
<1>4. First' = next - 1
  BY <1>1, <1>3 DEF First
<1>5. ids \in Seq(Nat) /\ Len(ids) = L /\ before \in Seq(Nat) /\ Len(before) = First
      /\ all \in Seq(Nat) /\ Len(all) = next - 1
  BY <1>1
<1>6. taken' \in Seq(Seq(Nat)) /\ FlattenSeq(taken') = before \o ids
  <2> HIDE DEF ids, before
  <2> QED BY <1>2, <1>3, <1>5, FlattenAppend, AppendProperties
<1>7. before \o ids = all
  <2>1. /\ before \o ids \in Seq(Nat) /\ Len(before \o ids) = Len(before) + Len(ids)
        /\ \A i \in 1 .. Len(before) + Len(ids) :
             (before \o ids)[i] = IF i <= Len(before) THEN before[i] ELSE ids[i - Len(before)]
    <3>1. before \in Seq(Nat) /\ ids \in Seq(Nat)
      BY <1>5
    <3> HIDE DEF ids, before
    <3> QED BY <3>1, ConcatProperties
  <2>2. ASSUME NEW i \in 1 .. next - 1 PROVE (before \o ids)[i] = all[i]
    <3>1. i \in 1 .. Len(before) + Len(ids)
      BY <1>1, <1>5
    <3>2. (before \o ids)[i] = IF i <= First THEN before[i] ELSE ids[i - First]
      <4> HIDE DEF ids, before
      <4> QED BY <1>5, <2>1, <3>1
    <3>3. CASE i <= First
      BY <1>1, <3>2, <3>3
    <3>4. CASE ~(i <= First)
      <4>1. i - First \in 1 .. L /\ First + (i - First) = i
        BY <1>1, <3>4
      <4> QED BY <3>2, <3>4, <4>1
    <3> QED BY <3>3, <3>4
  <2>3. Len(before \o ids) = Len(all)
    <3> HIDE DEF ids, before, all
    <3> QED BY <1>1, <1>5, <2>1
  <2> HIDE DEF ids, before, all
  <2> QED BY <1>5, <2>1, <2>2, <2>3, SeqEqual
<1>8. stored' = {i \in 1 .. next - 1 : Size(i) < 2 * I32}
  <2>1. \A i : i \in Whole <=> \E j \in 1 .. L : i = First + j /\ Size(First + j) < 2 * I32
    BY <1>0, <1>1 DEF Whole
  <2>2. ASSUME NEW i
        PROVE  i \in First + 1 .. First + L <=> \E j \in 1 .. L : i = First + j
    <3>1. i \in First + 1 .. First + L => i - First \in 1 .. L /\ i = First + (i - First)
      BY <1>1
    <3>2. \A j \in 1 .. L : First + j \in First + 1 .. First + L
      BY <1>1
    <3> QED BY <3>1, <3>2
  <2>3. Whole = {i \in First + 1 .. First + L : Size(i) < 2 * I32}
    <3> HIDE DEF L
    <3> QED BY <2>1, <2>2
  <2>4. 1 .. next - 1 = (1 .. First) \cup (First + 1 .. First + L)
    BY <1>1
  <2> QED BY <1>2, <1>3, <2>3, <2>4
<1>11. \A i : Size(i)' = Size(i)
  BY <1>3 DEF Size
<1>9. BatchesInOrder'
  <2>1. FlattenSeq(taken') = all /\ Len(all) <= Len(blocks)
    BY <1>1, <1>5, <1>6, <1>7
  <2>2. \A i \in DOMAIN all : all[i] = i
    OBVIOUS
  <2> HIDE DEF all
  <2> QED BY <1>3, <2>1, <2>2 DEF BatchesInOrder
<1>10. FlattenSeq(taken') = [i \in 1 .. next - 1 |-> i]
  BY <1>6, <1>7
<1> QED BY <1>3, <1>4, <1>6, <1>8, <1>9, <1>10, <1>11 DEF Delivered

\* Every step keeps the batch and what was stored in order.
LEMMA StepDelivery == DeliveryInv /\ [Next]_vars => DeliveryInv'
<1> SUFFICES ASSUME DeliveryInv, [Next]_vars PROVE DeliveryInv'
  OBVIOUS
<1>1. BatchInv' /\ BatchInv /\ TypeOK /\ TypeOK' /\ Laid /\ Delivered
  BY StepBatch DEF DeliveryInv, BatchInv
<1>2. ASSUME UNCHANGED <<blocks, next, lengths, buf, taken, stored>>,
             UNCHANGED <<pc, res>> \/ (pc # "done" /\ UNCHANGED res) \/ (pc # "done" /\ pc' = "done" /\ res' = "ok")
      PROVE  DeliveryInv'
  <2>0. res \in {"none", "ok", "err"}
    BY <1>1 DEF TypeOK
  <2>1. Laid' /\ First' = First /\ \A i : Size(i)' = Size(i)
    <3>1. First' = First /\ \A i : Size(i)' = Size(i) /\ Written(i)' = Written(i)
      BY <1>2 DEF First, Size, Written
    <3>2. \A j : Segment(j)' = Segment(j)
      BY <1>2 DEF Segment, BlockBuf
    <3>3. Cut' <=> Cut
      BY <1>2, <3>1, <3>2 DEF Cut, BlockBuf
    <3>4. Alone' <=> Alone
      BY <1>2, <3>1 DEF Alone, AsI32
    <3> QED BY <1>1, <3>1, <3>3, <3>4 DEF Laid
  <2>2. BatchesInOrder' /\ taken' \in Seq(Seq(Nat)) /\ (stored \subseteq 1 .. (next - 1))'
    BY <1>1, <1>2 DEF Delivered, BatchesInOrder
  <2>3. res' # "none" => pc' = "done"
    BY <1>1, <1>2 DEF Delivered
  <2>4. res' # "err" => /\ stored' = {i \in 1 .. First : Size(i) < 2 * I32}
                       /\ FlattenSeq(taken') = [i \in 1 .. First |-> i]
    <3> HAVE res' # "err"
    <3>1. res # "err"
      BY <1>1, <1>2 DEF Delivered
    <3> QED BY <1>1, <1>2, <2>1, <3>1 DEF Delivered
  <2> QED BY <1>1, <2>1, <2>2, <2>3, <2>4 DEF Delivered, DeliveryInv
<1>3. CASE UNCHANGED vars
  <2>1. UNCHANGED <<blocks, next, lengths, buf, taken, stored>> /\ UNCHANGED <<pc, res>>
    BY <1>3 DEF vars
  <2> QED BY <1>2, <2>1
<1>4. CASE NextBlock
  <2>1. UNCHANGED <<blocks, next, lengths, buf, taken, stored>> /\ pc # "done" /\ UNCHANGED res
    BY <1>4 DEF NextBlock
  <2> QED BY <1>2, <2>1
<1>5. CASE FlushNothing
  <2>1. UNCHANGED <<blocks, next, lengths, buf, taken, stored>> /\ pc # "done"
    BY <1>5 DEF FlushNothing
  <2>2. UNCHANGED res \/ (pc' = "done" /\ res' = "ok")
    BY <1>5 DEF FlushNothing, AfterFlush
  <2> QED BY <1>2, <2>1, <2>2
<1>6. CASE PushBlock
  <2>1. Laid'
    BY <1>1, <1>6, PushBlockLaid
  <2>2. /\ Len(lengths') = Len(lengths) + 1 /\ Len(lengths) \in Nat /\ next' = next + 1 /\ next \in Int
        /\ UNCHANGED <<blocks, res, taken, stored>> /\ pc = "append"
    <3>1. lengths \in Seq(Int) /\ AsI32(blocks[next].cid + blocks[next].data) \in Int /\ next \in Int
      <4>1. next \in 1 .. Len(blocks)
        BY <1>1, <1>6 DEF BatchInv, RoomToAppend, PushBlock
      <4>2. next \in Int /\ lengths \in Seq(Int)
        BY <1>1, SizeAssumption DEF TypeOK, Calls
      <4>3. blocks[next].cid \in Nat /\ blocks[next].data \in Nat
        BY <1>1, <4>1, BlockTyped
      <4>4. blocks[next].cid + blocks[next].data \in Nat
        BY <4>3
      <4> QED BY <4>2, <4>4, Cast
    <3> QED BY <1>6, <3>1, AppendProperties DEF PushBlock
  <2>3. First' = First
    BY <2>2 DEF First
  <2>4. res = "none"
    BY <1>1, <2>2 DEF Delivered, TypeOK
  <2>5. BatchesInOrder' /\ taken' \in Seq(Seq(Nat)) /\ res' # "err" /\ res' = "none"
    BY <1>1, <2>2, <2>4 DEF Delivered, BatchesInOrder
  <2>6. (stored \subseteq 1 .. (next - 1))'
    BY <1>1, <2>2 DEF Delivered
  <2>7. \A i : Size(i)' = Size(i)
    BY <2>2 DEF Size
  <2>8. /\ stored' = {i \in 1 .. First : Size(i) < 2 * I32}
        /\ FlattenSeq(taken') = [i \in 1 .. First |-> i]
    BY <1>1, <2>2, <2>4 DEF Delivered
  <2> QED BY <1>1, <2>1, <2>3, <2>5, <2>6, <2>7, <2>8 DEF Delivered, DeliveryInv
<1>7. CASE FlushStored
  <2>1. (TypeOK /\ lengths = <<>> /\ buf = <<>>)'
    BY <1>1, <1>7 DEF FlushStored
  <2>2. Laid'
    BY <2>1, EmptyLaid, PTL
  <2> QED BY <1>1, <1>7, <2>2, StoredDelivery DEF DeliveryInv
<1>8. CASE FlushFailed
  <2>1. (TypeOK /\ lengths = <<>> /\ buf = <<>>)'
    BY <1>1, <1>8 DEF FlushFailed
  <2>2. Laid'
    BY <2>1, EmptyLaid, PTL
  <2>3. res' = "err" /\ pc' = "done" /\ UNCHANGED <<blocks, taken>>
    BY <1>8 DEF FlushFailed
  <2>4. (stored \subseteq 1 .. (next - 1))'
    <3>1. PICK t \in SUBSET (IF Rejected THEN {} ELSE Whole) : stored' = stored \cup t
      BY <1>8 DEF FlushFailed
    <3>2. CASE Rejected
      BY <1>1, <1>8, <3>1, <3>2 DEF Delivered, FlushFailed
    <3>3. CASE ~Rejected
      <4>1. lengths # <<>>
        BY <1>1, <1>8 DEF FlushFailed, BatchInv, InStep
      <4>2. \A j \in 1 .. Len(lengths) : Decoded[j].cid = First + j
        BY <1>1, <3>3, <4>1, BatchRead
      <4>3. LengthsLen = Len(lengths) /\ First \in Nat /\ Len(lengths) \in Nat /\ First + Len(lengths) = next - 1
        BY <1>1, BatchIds
      <4>4. Whole \subseteq 1 .. (next - 1)
        <5>1. \A j \in 1 .. Len(lengths) : First + j \in 1 .. (next - 1)
          BY <4>3
        <5> QED BY <4>2, <4>3, <5>1 DEF Whole
      <4> QED BY <1>1, <1>8, <3>1, <3>3, <4>4 DEF Delivered, FlushFailed
    <3> QED BY <3>2, <3>3
  <2> QED BY <1>1, <2>2, <2>3, <2>4 DEF DeliveryInv, Delivered, BatchesInOrder
<1> QED BY <1>3, <1>4, <1>5, <1>6, <1>7, <1>8 DEF Next

\* The invariant holds for ever.
LEMMA DeliveryInvariant == Spec => []DeliveryInv
BY InitDelivery, StepDelivery, PTL DEF Spec

\* cgo_blockstore_put_many reads every block of a batch it accepts as put_many_keyed wrote
\* it, and turns down only batches with a block longer than MAX_LEN, for all sizes of CIDs,
\* blocks and batches; the one exception, in the formula, is a block of 2^32 bytes or more.
THEOREM EveryBlockReadBack == Spec => []GoReadsWhatRustWrote
<1>1. DeliveryInv => GoReadsWhatRustWrote
  <2> SUFFICES ASSUME DeliveryInv, buf # <<>>
               PROVE  /\ Rejected => \E j \in DOMAIN lengths : Size(Sent(j)) > MAX_LEN
                      /\ ~Rejected => \A j \in DOMAIN lengths :
                           /\ Decoded[j].cid = Sent(j)
                           /\ Intact(Decoded[j]) \/ Size(Sent(j)) >= 2 * I32
    BY DEF GoReadsWhatRustWrote
  <2>1. /\ DOMAIN lengths = 1 .. Len(lengths)
        /\ \A j \in 1 .. Len(lengths) : Sent(j) = First + j /\ Size(First + j) \in Nat
    BY BatchIds DEF DeliveryInv
  <2>2. /\ Rejected => \E j \in 1 .. Len(lengths) : Size(First + j) > MAX_LEN
        /\ ~Rejected => \A j \in 1 .. Len(lengths) :
             /\ Decoded[j].cid = First + j
             /\ Intact(Decoded[j]) <=> Size(First + j) < 2 * I32
    BY BatchRead DEF DeliveryInv, BatchInv, InStep
  <2>3. \A j \in 1 .. Len(lengths) : Size(First + j) < 2 * I32 \/ Size(First + j) >= 2 * I32
    BY <2>1, SizeAssumption
  <2> QED BY <2>1, <2>2, <2>3
<1> QED BY <1>1, DeliveryInvariant, PTL

\* The batches that Go stored are the first blocks of the call, in order, for calls of any
\* number of blocks.
THEOREM BatchesStayInOrder == Spec => []BatchesInOrder
<1>1. DeliveryInv => BatchesInOrder
  BY DEF DeliveryInv, Delivered
<1> QED BY <1>1, DeliveryInvariant, PTL

\* put_many_keyed loses no block without an error, except the data of blocks of 2^32 bytes
\* or more, for calls of any number of blocks.
THEOREM NothingLostSilently == Spec => []NoSilentLoss
<1>1. DeliveryInv => NoSilentLoss
  <2> SUFFICES ASSUME DeliveryInv
               PROVE  /\ stored \subseteq 1 .. (next - 1)
                      /\ buf = <<>> /\ res # "err" =>
                           stored = {i \in 1 .. (next - 1) : Size(i) < 2 * I32}
    BY DEF NoSilentLoss
  <2>1. stored \subseteq 1 .. (next - 1)
    BY DEF DeliveryInv, Delivered
  <2>2. ASSUME buf = <<>>, res # "err" PROVE stored = {i \in 1 .. (next - 1) : Size(i) < 2 * I32}
    <3>1. lengths = <<>> /\ next \in Int
      BY <2>2 DEF DeliveryInv, BatchInv, InStep, TypeOK
    <3>2. First = next - 1
      BY <3>1 DEF First
    <3> QED BY <2>2, <3>2 DEF DeliveryInv, Delivered
  <2> QED BY <2>1, <2>2
<1> QED BY <1>1, DeliveryInvariant, PTL
=============================================================================
