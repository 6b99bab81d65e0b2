---------------------------- MODULE ValuesProofs ----------------------------
(***************************************************************************)
(* What holds of Values for words, items and batches of any size: the      *)
(* amounts and the batches that arrive are the ones that were sent, and a  *)
(* call is refused only for what it was given.                             *)
(***************************************************************************)
EXTENDS Values, SequenceTheorems, WellFoundedInduction, TLAPS

\* Division by the size of a word.
LEMMA DivWord ==
  ASSUME NEW x \in Nat
  PROVE  /\ x \div Word \in Nat /\ x % Word \in 0 .. Word - 1
         /\ x = (x \div Word) * Word + (x % Word)
BY ValuesAssumption

\* splitBigInt and create_fvm_machine: refused, or the same number.
LEMMA SplitExact ==
  ASSUME NEW x \in Int
  PROVE  IF Fits(x) THEN \E w : SplitBigInt(x) = {w} /\ FromWords(w) = x ELSE SplitBigInt(x) = {}
<1>1. CASE x < 0
  BY <1>1 DEF Fits, SplitBigInt
<1>2. CASE x = 0
  <2>1. Bits(x) = <<>>
    BY <1>2, ValuesAssumption DEF Bits
  <2>2. SplitBigInt(x) = {[hi |-> 0, lo |-> 0]} /\ FromWords([hi |-> 0, lo |-> 0]) = 0
    BY <1>2, <2>1, ValuesAssumption DEF SplitBigInt, FromWords
  <2> QED BY <1>2, <2>2, ValuesAssumption DEF Fits
<1>3. CASE x \in 1 .. Word - 1
  <2>1. Bits(x) = <<x>> /\ Fits(x)
    BY <1>3, ValuesAssumption DEF Bits, Fits
  <2>2. SplitBigInt(x) = {[hi |-> 0, lo |-> x]} /\ FromWords([hi |-> 0, lo |-> x]) = x
    BY <1>3, <2>1, ValuesAssumption DEF SplitBigInt, FromWords
  <2> QED BY <2>1, <2>2
<1>4. CASE x \in Word .. Word * Word - 1
  <2> DEFINE w == [hi |-> x \div Word, lo |-> x % Word]
  <2>1. Bits(x) = <<x % Word, x \div Word>> /\ Fits(x)
    BY <1>4, ValuesAssumption DEF Bits, Fits
  <2>2. SplitBigInt(x) = {w}
    BY <1>4, <2>1, ValuesAssumption DEF SplitBigInt
  <2>3. FromWords(w) = x
    BY <1>4, DivWord, ValuesAssumption DEF FromWords
  <2> QED BY <2>1, <2>2, <2>3
<1>5. CASE x >= Word * Word
  <2>1. Len(Bits(x)) = 3 /\ ~Fits(x)
    BY <1>5, ValuesAssumption DEF Bits, Fits
  <2> QED BY <2>1 DEF SplitBigInt
<1> QED BY <1>1, <1>2, <1>3, <1>4, <1>5, ValuesAssumption

\* fvm_machine_execute_message and reformBigInt: a panic, or the same number.
LEMMA ReformExact ==
  ASSUME NEW x \in Int
  PROVE  IF Fits(x) THEN \E w : ToWords(x) = {w} /\ ReformBigInt(w) = x ELSE ToWords(x) = {}
<1>1. CASE Fits(x)
  <2> DEFINE w == [hi |-> x \div Word, lo |-> x % Word]
  <2>1. ToWords(x) = {w}
    BY <1>1 DEF Fits, ToWords
  <2>2. x \in Nat /\ w.hi \in Nat /\ w.lo \in Nat /\ x = w.hi * Word + w.lo /\ w.hi * Word = Word * w.hi
    BY <1>1, DivWord, ValuesAssumption DEF Fits
  <2> HIDE DEF w
  <2>3. ReformBigInt(w) = x
    BY <2>2, ValuesAssumption DEF ReformBigInt, SetBits
  <2> QED BY <1>1, <2>1, <2>3
<1>2. CASE ~Fits(x)
  BY <1>2 DEF Fits, ToWords
<1> QED BY <1>1, <1>2

\* An amount has no batches: its call stays in the stage it is in.
AmountInv ==
  /\ TypeOK
  /\ call.fn \in {"CreateFVM", "ApplyMessage"} => stage = "go"
  /\ AmountsArrive

\* Two amounts are both there, or the call has failed.
LEMMA BothArrive ==
  ASSUME call \in CallSet, CreateFVM \/ ApplyMessage
  PROVE  AmountsArrive'
<1>1. CASE CreateFVM
  <2>1. call.fee \in Int /\ call.supply \in Int /\ call.fn = "CreateFVM" /\ call' = call
    BY <1>1, CallAssumption DEF CreateFVM, Amounts2
  <2>2. /\ IF Fits(call.fee) THEN \E w : SplitBigInt(call.fee) = {w} /\ FromWords(w) = call.fee
           ELSE SplitBigInt(call.fee) = {}
        /\ IF Fits(call.supply) THEN \E w : SplitBigInt(call.supply) = {w} /\ FromWords(w) = call.supply
           ELSE SplitBigInt(call.supply) = {}
    BY <2>1, SplitExact
  <2>3. IF Fits(call.fee) /\ Fits(call.supply) THEN outcome' = "ok" /\ decoded' = <<call.fee, call.supply>>
        ELSE outcome' = "err"
    BY <1>1, <2>2 DEF CreateFVM, Amounts2
  <2> QED BY <2>1, <2>3 DEF AmountsArrive, Fits
<1>2. CASE ApplyMessage
  <2>1. call.penalty \in Int /\ call.tip \in Int /\ call.fn = "ApplyMessage" /\ call' = call
    BY <1>2, CallAssumption DEF ApplyMessage, Amounts2
  <2>2. /\ IF Fits(call.penalty) THEN \E w : ToWords(call.penalty) = {w} /\ ReformBigInt(w) = call.penalty
           ELSE ToWords(call.penalty) = {}
        /\ IF Fits(call.tip) THEN \E w : ToWords(call.tip) = {w} /\ ReformBigInt(w) = call.tip
           ELSE ToWords(call.tip) = {}
    BY <2>1, ReformExact
  <2>3. IF Fits(call.penalty) /\ Fits(call.tip) THEN outcome' = "ok" /\ decoded' = <<call.penalty, call.tip>>
        ELSE outcome' = "err"
    BY <1>2, <2>2 DEF ApplyMessage, Amounts2
  <2> QED BY <2>1, <2>3 DEF AmountsArrive, Fits
<1> QED BY <1>1, <1>2

\* Amounts of one and two words arrive in both directions, and no others do.
THEOREM AmountsExact == Spec => []AmountsArrive
<1>1. Init => AmountInv
  BY DEF Init, AmountInv, TypeOK, AmountsArrive
<1>2. AmountInv /\ [Next]_vars => AmountInv'
  <2>1. SUFFICES ASSUME AmountInv, [Next]_vars PROVE AmountInv'
    OBVIOUS
  <2>2. CASE CreateFVM \/ ApplyMessage
    <3>1. UNCHANGED <<call, stage>>
      BY <2>2 DEF CreateFVM, ApplyMessage, Amounts2
    <3>2. outcome' \in {"ok", "err"}
      BY <2>2 DEF CreateFVM, ApplyMessage, Amounts2
    <3> QED BY <2>1, <2>2, <3>1, <3>2, BothArrive DEF AmountInv, TypeOK
  <2>3. CASE Verify \/ HashVerify \/ Aggregate \/ VerifyAggregateSealProof \/ ReplicaInfoMap
    <3>1. call' = call /\ call.fn \notin {"CreateFVM", "ApplyMessage"}
      BY <2>3 DEF Verify, HashVerify, Aggregate, VerifyAggregateSealProof, ReplicaInfoMap, Goes, Pass, Refuse
    <3>2. stage' \in {"go", "rust"} /\ outcome' \in {"running", "err", "abort"}
      BY <2>1, <2>3 DEF Verify, HashVerify, Aggregate, VerifyAggregateSealProof, ReplicaInfoMap, Goes, Pass,
         Refuse, AmountInv, TypeOK
    <3> QED BY <2>1, <3>1, <3>2 DEF AmountInv, TypeOK, AmountsArrive
  <2>4. CASE TakeBatch \/ Collect \/ Finish \/ \E i \in 1 .. Len(parts) : ConvertPart(i) \/ MergeParts(i)
    <3>1. call' = call /\ stage = "rust"
      BY <2>4 DEF TakeBatch, Collect, Finish, ConvertPart, MergeParts, Converting
    <3>2. stage' = stage /\ outcome' \in {outcome, "ok", "err"}
      BY <2>4 DEF TakeBatch, Collect, Finish, ConvertPart, MergeParts
    <3> QED BY <2>1, <3>1, <3>2 DEF AmountInv, TypeOK, AmountsArrive
  <2>5. CASE UNCHANGED vars
    BY <2>1, <2>5 DEF AmountInv, TypeOK, AmountsArrive, Fits, vars
  <2> QED BY <2>1, <2>2, <2>3, <2>4, <2>5 DEF Next
<1>3. AmountInv => AmountsArrive
  BY DEF AmountInv
<1> QED BY <1>1, <1>2, <1>3, PTL DEF Spec

-----------------------------------------------------------------------------
(* Induction, on sets of numbers, and the recursive functions of the model *)

\* A set of numbers has a least one.
LEMMA LeastNat ==
  ASSUME NEW T \in SUBSET Nat, T # {}
  PROVE  \E m \in T : \A k \in T : m <= k
<1> DEFINE R == {ss \in Nat \X Nat : ss[1] < ss[2]}
<1>1. IsWellFoundedOn(R, Nat)
  BY NatLessThanWellFounded DEF OpToRel
<1>2. PICK x \in T : \A y \in T : ~(<<y, x>> \in R)
  <2> HIDE DEF R
  <2> QED BY <1>1, WFMin
<1>3. \A y \in T : ~(y < x)
  BY <1>2
<1> QED BY <1>3

\* A set with 0 and with the successors of its numbers up to N has them all up to N.
LEMMA InductionTo ==
  ASSUME NEW N \in Nat, NEW T, 0 \in T, \A n \in 1 .. N : n - 1 \in T => n \in T
  PROVE  \A n \in 0 .. N : n \in T
<1> DEFINE F == {n \in 0 .. N : n \notin T}
<1>1. SUFFICES ASSUME F # {} PROVE FALSE
  OBVIOUS
<1>2. PICK m \in F : \A k \in F : m <= k
  <2>1. F \in SUBSET Nat
    OBVIOUS
  <2> HIDE DEF F
  <2> QED BY <1>1, <2>1, LeastNat
<1>3. m \in 1 .. N /\ m - 1 \in 0 .. N /\ m - 1 \notin F
  BY <1>2
<1>4. m \in T
  BY <1>3
<1> QED BY <1>2, <1>4

Iterates(f, a, N, step) == f[0] = a /\ \A n \in 1 .. N : f[n] = step[n][f[n - 1]]

\* A value and a way to go on from each make a function.
LEMMA Recursion ==
  ASSUME NEW S, NEW a \in S, NEW N \in Nat, NEW step \in [1 .. N -> [S -> S]]
  PROVE  \E f \in [0 .. N -> S] : Iterates(f, a, N, step)
<1> DEFINE Good(f, m) == f \in [0 .. m -> S] /\ f[0] = a /\ \A n \in 1 .. m : f[n] = step[n][f[n - 1]]
           T == {m \in 0 .. N : \E f : Good(f, m)}
<1>1. 0 \in T
  <2>1. Good([n \in 0 .. 0 |-> a], 0)
    OBVIOUS
  <2> HIDE DEF Good
  <2> QED BY <2>1
<1>2. ASSUME NEW m \in 1 .. N, m - 1 \in T PROVE m \in T
  <2>1. PICK f : Good(f, m - 1)
    BY <1>2
  <2> DEFINE g == [n \in 0 .. m |-> IF n = m THEN step[m][f[m - 1]] ELSE f[n]]
  <2>2. f[m - 1] \in S /\ step[m][f[m - 1]] \in S
    BY <2>1
  <2>3. g \in [0 .. m -> S] /\ g[0] = a
    BY <2>1, <2>2
  <2>4. \A n \in 1 .. m : g[n] = step[n][g[n - 1]]
    BY <2>1
  <2>5. Good(g, m)
    BY <2>3, <2>4
  <2> QED
    <3> HIDE DEF Good, g
    <3> QED BY <2>5
<1>3. N \in T
  <2>1. \A n \in 0 .. N : n \in T
    <3> HIDE DEF T
    <3> QED BY <1>1, <1>2, InductionTo
  <2> QED BY <2>1
<1> QED BY <1>3 DEF Iterates

\* hash_verify's offset goes on by the size of each message.
LEMMA OffsetSteps ==
  ASSUME NEW s \in Seq(Nat)
  PROVE  /\ Offset(s)[0] = 0
         /\ \A n \in 1 .. Len(s) : Offset(s)[n] = Offset(s)[n - 1] + s[n]
<1> DEFINE Eq(f) == f = [n \in 0 .. Len(s) |-> IF n = 0 THEN 0 ELSE f[n - 1] + s[n]]
           step == [n \in 1 .. Len(s) |-> [x \in Nat |-> x + s[n]]]
<1>0. Len(s) \in Nat /\ \A n \in 1 .. Len(s) : s[n] \in Nat
  OBVIOUS
<1>1. \E f : Eq(f)
  <2>1. step \in [1 .. Len(s) -> [Nat -> Nat]]
    BY <1>0
  <2>2. PICK f \in [0 .. Len(s) -> Nat] : Iterates(f, 0, Len(s), step)
    <3> HIDE DEF step
    <3> QED BY <1>0, <2>1, Recursion
  <2>3. \A n \in 1 .. Len(s) : f[n] = f[n - 1] + s[n]
    <3>1. ASSUME NEW n \in 1 .. Len(s) PROVE f[n] = f[n - 1] + s[n]
      <4>1. f[n - 1] \in Nat /\ f[n] = step[n][f[n - 1]]
        <5>1. n - 1 \in 0 .. Len(s)
          BY <1>0
        <5> HIDE DEF step
        <5> QED BY <2>2, <5>1, Zenon DEF Iterates
      <4>2. step[n] = [x \in Nat |-> x + s[n]]
        OBVIOUS
      <4> HIDE DEF step
      <4> QED BY <4>1, <4>2
    <3> QED BY <3>1
  <2>4. Eq(f)
    BY <2>2, <2>3 DEF Iterates
  <2> QED BY <2>4
<1>2. Offset(s) = CHOOSE f : Eq(f)
  BY DEF Offset
<1>3. Eq(Offset(s))
  <2> HIDE DEF Eq
  <2> QED BY <1>1, <1>2
<1> QED BY <1>0, <1>3

-----------------------------------------------------------------------------
(* Items: every chunk of the bytes is one of the items *)

\* A number of whole items and a rest below one are the quotient and the remainder.
LEMMA DivUnique ==
  ASSUME NEW w \in Nat \ {0}, NEW q \in Nat, NEW r \in 0 .. w - 1
  PROVE  (w * q + r) \div w = q /\ (w * q + r) % w = r
<1> DEFINE x == w * q + r
           d == x \div w
           m == x % w
<1>0. w * q \in Nat /\ x \in Nat
  OBVIOUS
<1>1. d \in Int /\ m \in 0 .. w - 1 /\ x = w * d + m
  <2> HIDE DEF x
  <2> QED BY <1>0
<1>2. x = w * q + r
  OBVIOUS
<1> HIDE DEF x, d, m
<1>3. ~(d > q)
  <2>1. SUFFICES ASSUME d > q PROVE FALSE
    OBVIOUS
  <2>2. PICK e \in Nat : d = q + 1 + e
    <3>1. d - q - 1 \in Nat /\ d = q + 1 + (d - q - 1)
      BY <1>1, <2>1
    <3> QED BY <3>1
  <2>3. w * d = w * q + w + w * e /\ w * e \in Nat /\ w * d \in Int
    BY <2>2
  <2> QED BY <1>0, <1>1, <1>2, <2>3
<1>4. ~(d < q)
  <2>1. SUFFICES ASSUME d < q PROVE FALSE
    OBVIOUS
  <2>2. PICK e \in Nat : q = d + 1 + e
    <3>1. q - d - 1 \in Nat /\ q = d + 1 + (q - d - 1)
      BY <1>1, <2>1
    <3> QED BY <3>1
  <2>3. w * q = w * d + w + w * e /\ w * e \in Nat /\ w * d \in Int
    BY <1>1, <2>2
  <2> QED BY <1>0, <1>1, <1>2, <2>3
<1>5. d = q
  BY <1>1, <1>3, <1>4
<1>6. m = r
  BY <1>0, <1>1, <1>2, <1>5
<1> QED BY <1>5, <1>6 DEF d, m, x

\* Flattened items are so many times the width of one, and never ragged.
LEMMA FlattenLen ==
  ASSUME NEW w \in Nat \ {0}, NEW items \in Seq(Item)
  PROVE  /\ Len(Flatten(items, w)) = w * Len(items) /\ ~Ragged(items, w)
         /\ Len(Flatten(items, w)) \div w = Len(items)
<1>0. Len(items) \in Nat /\ w * Len(items) \in Nat
  OBVIOUS
<1>1. Len(Flatten(items, w)) = w * Len(items)
  BY <1>0 DEF Flatten
<1>2. (w * Len(items) + 0) \div w = Len(items) /\ (w * Len(items) + 0) % w = 0
  <2>1. 0 \in 0 .. w - 1
    OBVIOUS
  <2> QED BY <1>0, <2>1, DivUnique, Zenon
<1>3. w * Len(items) + 0 = w * Len(items)
  BY <1>0
<1> QED BY <1>1, <1>2, <1>3 DEF Ragged

\* verify refuses by length exactly the calls with more keys or more digests.
LEMMA RefusesLengths ==
  ASSUME NEW ds \in Seq(Item), NEW ks \in Seq(Item)
  PROVE  VerifyRefuses(ds, ks) <=> Len(ds) # Len(ks)
BY FlattenLen, ValuesAssumption DEF VerifyRefuses

\* The j-th chunk is the bytes of the j-th item.
LEMMA ChunkIsItem ==
  ASSUME NEW w \in Nat \ {0}, NEW items \in Seq(Item)
  PROVE  /\ Len(Chunks(Flatten(items, w), w)) = Len(items)
         /\ DOMAIN Chunks(Flatten(items, w), w) = 1 .. Len(items)
         /\ \A j \in 1 .. Len(items) : Chunks(Flatten(items, w), w)[j] = Bytes(items[j], w)
<1> DEFINE n == Len(items)
           bytes == Flatten(items, w)
<1>0. n \in Nat /\ w * n \in Nat /\ Len(bytes) = w * n
  BY FlattenLen
<1>1. (w * n + w - 1) \div w = n
  <2>1. w - 1 \in 0 .. w - 1 /\ w * n + (w - 1) = w * n + w - 1
    BY <1>0
  <2>2. (w * n + (w - 1)) \div w = n
    BY <1>0, <2>1, DivUnique
  <2> QED BY <2>1, <2>2
<1>2. ASSUME NEW j \in 1 .. n
      PROVE  SubSeq(bytes, w * (j - 1) + 1, Least(w * j, Len(bytes))) = Bytes(items[j], w)
  <2>1. /\ w * (j - 1) \in Nat /\ w * j = w * (j - 1) + w /\ w * j \in Nat /\ w * j <= w * n
    <3>1. n - j \in Nat /\ w * (n - j) \in Nat /\ w * n = w * j + w * (n - j)
      BY <1>0
    <3>2. j - 1 \in Nat /\ w * (j - 1) \in Nat /\ w * j = w * (j - 1) + w
      BY <1>0
    <3> QED BY <1>0, <3>1, <3>2
  <2>2. Least(w * j, Len(bytes)) = w * j
    BY <1>0, <2>1 DEF Least
  <2>3. SubSeq(bytes, w * (j - 1) + 1, w * j) = [k \in 1 .. w |-> bytes[w * (j - 1) + k]]
    <3>1. PICK a \in Nat : a = w * (j - 1) /\ w * j = a + w /\ a + w <= w * n
      BY <2>1
    <3>2. PICK X : bytes \in Seq(X)
      <4>1. bytes \in Seq({bytes[i] : i \in 1 .. w * n})
        BY <1>0 DEF Flatten
      <4> QED BY <4>1
    <3> HIDE DEF bytes
    <3> QED BY <1>0, <3>1, <3>2
  <2>4. ASSUME NEW k \in 1 .. w PROVE bytes[w * (j - 1) + k] = <<items[j], k>>
    <3>1. w * (j - 1) + k \in 1 .. w * n /\ w * (j - 1) + k - 1 = w * (j - 1) + (k - 1) /\ k - 1 \in 0 .. w - 1
      BY <1>0, <2>1
    <3>2. (w * (j - 1) + (k - 1)) \div w = j - 1 /\ (w * (j - 1) + (k - 1)) % w = k - 1
      <4>1. j - 1 \in Nat /\ k - 1 \in 0 .. w - 1
        BY <1>0, <3>1
      <4> QED BY <4>1, DivUnique, Zenon
    <3>3. j - 1 + 1 = j /\ k - 1 + 1 = k
      BY <1>0
    <3>4. bytes[w * (j - 1) + k] =
            <<items[((w * (j - 1) + k - 1) \div w) + 1], ((w * (j - 1) + k - 1) % w) + 1>>
      BY <3>1 DEF Flatten
    <3> QED BY <3>1, <3>2, <3>3, <3>4
  <2>5. [k \in 1 .. w |-> bytes[w * (j - 1) + k]] = Bytes(items[j], w)
    <3> HIDE DEF bytes
    <3> QED BY <2>4 DEF Bytes
  <2> QED BY <2>2, <2>3, <2>5
<1>3. Chunks(bytes, w) =
        [j \in 1 .. n |-> SubSeq(bytes, w * (j - 1) + 1, Least(w * j, Len(bytes)))]
  <2> HIDE DEF bytes, n
  <2> QED BY <1>0, <1>1 DEF Chunks
<1> QED
  <2> HIDE DEF bytes
  <2> QED BY <1>0, <1>2, <1>3 DEF bytes

\* par_chunks over flattened items: what decodes becomes itself.
LEMMA BytesBatchItems ==
  ASSUME NEW w \in Nat \ {0}, NEW items \in Seq(Item)
  PROVE  BytesBatch(items, w) =
           [j \in 1 .. Len(items) |-> IF items[j] \in Bad THEN {} ELSE {<<items[j]>>}]
<1> DEFINE c == Chunks(Flatten(items, w), w)
<1>1. Len(c) = Len(items) /\ \A j \in 1 .. Len(items) : c[j] = Bytes(items[j], w)
  BY ChunkIsItem
<1>2. BytesBatch(items, w) = [j \in 1 .. Len(c) |-> {<<x>> : x \in Decode(c[j], w)}]
  BY DEF BytesBatch, Batch
<1> HIDE DEF c
<1>3. ASSUME NEW j \in 1 .. Len(items)
      PROVE  {<<x>> : x \in Decode(c[j], w)} = IF items[j] \in Bad THEN {} ELSE {<<items[j]>>}
  <2>1. items[j] \in Item /\ c[j] = Bytes(items[j], w)
    BY <1>1
  <2>2. ASSUME NEW x, NEW y, Bytes(x, w) = Bytes(y, w) PROVE x = y
    <3>1. 1 \in 1 .. w
      OBVIOUS
    <3>2. Bytes(x, w)[1] = <<x, 1>> /\ Bytes(y, w)[1] = <<y, 1>>
      BY <3>1 DEF Bytes
    <3>3. <<x, 1>> = <<y, 1>>
      BY <2>2, <3>2
    <3> QED BY <3>3
  <2>3. Decode(c[j], w) = IF items[j] \in Bad THEN {} ELSE {items[j]}
    BY <2>1, <2>2 DEF Decode
  <2> QED BY <2>3
<1> QED BY <1>1, <1>2, <1>3

-----------------------------------------------------------------------------
(* Messages: hash_verify cuts out what HashVerify put together *)

\* FlattenSeq, message after message.
LEMMA FlattenSteps ==
  ASSUME NEW S, NEW ms \in Seq(Seq(S))
  PROVE  \E g \in [0 .. Len(ms) -> Seq(S)] :
           /\ g[0] = <<>> /\ \A n \in 1 .. Len(ms) : g[n] = g[n - 1] \o ms[n]
           /\ FlattenSeq(ms) = g[Len(ms)]
<1> DEFINE N == Len(ms)
           step == [n \in 1 .. N |-> [x \in Seq(S) |-> x \o ms[n]]]
           Eq(f) == f = [i \in 1 .. N |-> IF i = 1 THEN ms[i] ELSE f[i - 1] \o ms[i]]
           fl == CHOOSE f : Eq(f)
<1>0. N \in Nat /\ (\A n \in 1 .. N : ms[n] \in Seq(S)) /\ <<>> \in Seq(S)
  OBVIOUS
<1>1. PICK g \in [0 .. N -> Seq(S)] : Iterates(g, <<>>, N, step)
  <2>1. step \in [1 .. N -> [Seq(S) -> Seq(S)]]
    <3>1. \A n \in 1 .. N : \A x \in Seq(S) : x \o ms[n] \in Seq(S)
      BY <1>0, ConcatProperties
    <3> QED BY <3>1
  <2> HIDE DEF step, N
  <2> QED BY <1>0, <2>1, Recursion
<1>2. g[0] = <<>> /\ \A n \in 1 .. N : g[n] = g[n - 1] \o ms[n]
  <2>1. ASSUME NEW n \in 1 .. N PROVE g[n] = g[n - 1] \o ms[n]
    <3>1. n - 1 \in 0 .. N
      BY <1>0
    <3>2. g[n - 1] \in Seq(S) /\ g[n] = step[n][g[n - 1]]
      <4> HIDE DEF step, N
      <4> QED BY <1>1, <3>1, Zenon DEF Iterates
    <3>3. step[n] = [x \in Seq(S) |-> x \o ms[n]]
      OBVIOUS
    <3> HIDE DEF step
    <3> QED BY <3>2, <3>3
  <2> QED BY <1>1, <2>1 DEF Iterates
<1> HIDE DEF N, step
<1>3. 1 \in 1 .. N => g[1] = ms[1]
  <2>1. SUFFICES ASSUME 1 \in 1 .. N PROVE g[1] = ms[1]
    OBVIOUS
  <2>2. g[1] = <<>> \o ms[1]
    <3>1. g[1] = g[1 - 1] \o ms[1]
      BY <1>2, <2>1, Zenon
    <3>2. 1 - 1 = 0
      OBVIOUS
    <3> QED BY <1>2, <3>1, <3>2
  <2>3. <<>> \o ms[1] = ms[1]
    BY <1>0, <2>1, ConcatEmptySeq
  <2> QED BY <2>2, <2>3
<1>4. Eq(fl)
  <2> DEFINE h == [i \in 1 .. N |-> g[i]]
  <2>1. Eq(h)
    <3>1. ASSUME NEW i \in 1 .. N PROVE g[i] = IF i = 1 THEN ms[i] ELSE h[i - 1] \o ms[i]
      <4>1. CASE i = 1
        BY <1>3, <4>1
      <4>2. CASE i # 1
        <5>1. i - 1 \in 1 .. N
          BY <1>0, <4>2
        <5>2. h[i - 1] = g[i - 1]
          BY <5>1
        <5> HIDE DEF h
        <5> QED BY <1>2, <4>2, <5>2
      <4> QED BY <4>1, <4>2
    <3> QED BY <3>1
  <2> HIDE DEF h, Eq
  <2> QED BY <2>1
<1>5. \A i \in 1 .. N : fl[i] = IF i = 1 THEN ms[i] ELSE fl[i - 1] \o ms[i]
  <2> HIDE DEF fl
  <2> QED BY <1>4
<1>6. FlattenSeq(ms) = IF N = 0 THEN ms ELSE fl[N]
  BY DEF FlattenSeq, N
<1> HIDE DEF fl, Eq
<1> DEFINE T == {n \in 0 .. N : n # 0 => fl[n] = g[n]}
<1>7. ASSUME NEW n \in 1 .. N, n - 1 \in T PROVE n \in T
  <2>1. CASE n = 1
    BY <1>3, <1>5, <2>1
  <2>2. CASE n # 1
    <3>1. fl[n - 1] = g[n - 1] /\ n \in 0 .. N
      BY <1>0, <1>7, <2>2
    <3>2. fl[n] = fl[n - 1] \o ms[n] /\ g[n] = g[n - 1] \o ms[n]
      BY <1>2, <1>5, <2>2, Zenon
    <3> QED BY <3>1, <3>2
  <2> QED BY <2>1, <2>2
<1>8. \A n \in 0 .. N : n \in T
  <2>1. 0 \in T
    BY <1>0
  <2> HIDE DEF T
  <2> QED BY <1>0, <1>7, <2>1, InductionTo
<1>9. FlattenSeq(ms) = g[N]
  <2>1. N = 0 => ms = <<>>
    BY EmptySeq DEF N
  <2> QED BY <1>0, <1>2, <1>6, <1>8, <2>1
<1> QED BY <1>2, <1>9 DEF N

\* A cut in front of what is appended is the same cut.
LEMMA CutOfFront ==
  ASSUME NEW S, NEW s \in Seq(S), NEW t \in Seq(S), NEW m \in Nat, NEW n \in Nat, n <= Len(s)
  PROVE  SubSeq(s \o t, m + 1, n) = SubSeq(s, m + 1, n)
<1>1. CASE n < m + 1
  BY <1>1, SubSeqEmpty
<1>2. CASE m + 1 <= n
  BY <1>2, SubSeqOfConcat1
<1> QED BY <1>1, <1>2

\* What is appended is cut out whole.
LEMMA CutOfRear ==
  ASSUME NEW S, NEW s \in Seq(S), NEW t \in Seq(S)
  PROVE  SubSeq(s \o t, Len(s) + 1, Len(s) + Len(t)) = t
<1>0. Len(s) \in Nat /\ Len(t) \in Nat
  OBVIOUS
<1>1. CASE Len(t) = 0
  <2>1. Len(s) + Len(t) < Len(s) + 1 /\ t = <<>>
    BY <1>0, <1>1, EmptySeq
  <2> QED BY <1>0, <2>1, SubSeqEmpty
<1>2. CASE Len(t) # 0
  <2>1. Len(s) + 1 \in Len(s) + 1 .. Len(s) + Len(t) /\ Len(s) + Len(t) \in Len(s) + 1 .. Len(s) + Len(t)
    BY <1>0, <1>2
  <2>2. SubSeq(s \o t, Len(s) + 1, Len(s) + Len(t)) = SubSeq(t, Len(s) + 1 - Len(s), Len(s) + Len(t) - Len(s))
    BY <2>1, SubSeqOfConcat2
  <2>3. Len(s) + 1 - Len(s) = 1 /\ Len(s) + Len(t) - Len(s) = Len(t)
    BY <1>0
  <2>4. SubSeq(t, 1, Len(t)) = t
    BY SubSeqFull
  <2> QED BY <2>2, <2>3, <2>4
<1> QED BY <1>1, <1>2

\* hash_verify stays within the bytes, and cuts them into the messages.
LEMMA CutIsInverse ==
  ASSUME NEW S, NEW ms \in Seq(Seq(S))
  PROVE  /\ Cut(FlatMessages(ms), Sizes(ms)) = ms
         /\ \A i \in 1 .. Len(Sizes(ms)) :
              ~(Offset(Sizes(ms))[i - 1] + Sizes(ms)[i] > Len(FlatMessages(ms)))
<1> DEFINE N == Len(ms)
           sz == Sizes(ms)
           off == Offset(sz)
<1>0. N \in Nat /\ \A n \in 1 .. N : ms[n] \in Seq(S) /\ Len(ms[n]) \in Nat
  OBVIOUS
<1>1. sz \in Seq(Nat) /\ Len(sz) = N /\ \A n \in 1 .. N : sz[n] = Len(ms[n])
  BY <1>0 DEF Sizes
<1>2. off[0] = 0 /\ \A n \in 1 .. N : off[n] = off[n - 1] + sz[n]
  <2> HIDE DEF sz
  <2> QED BY <1>1, OffsetSteps
<1>3. PICK g \in [0 .. N -> Seq(S)] :
        /\ g[0] = <<>> /\ \A n \in 1 .. N : g[n] = g[n - 1] \o ms[n]
        /\ FlatMessages(ms) = g[N]
  BY FlattenSteps DEF FlatMessages
<1> HIDE DEF N, sz, off
<1> DEFINE Right(m) == /\ off[m] = Len(g[m])
                       /\ \A i \in 1 .. m : /\ off[i - 1] \in Nat /\ off[i] \in Nat /\ off[i] <= Len(g[m])
                                            /\ SubSeq(g[m], off[i - 1] + 1, off[i]) = ms[i]
           T == {m \in 0 .. N : Right(m)}
<1>4. 0 \in T
  BY <1>0, <1>2, <1>3
<1>5. ASSUME NEW m \in 1 .. N, m - 1 \in T PROVE m \in T
  <2>1. /\ m - 1 \in 0 .. N /\ m \in 0 .. N /\ g[m - 1] \in Seq(S) /\ g[m] = g[m - 1] \o ms[m]
        /\ ms[m] \in Seq(S) /\ Right(m - 1)
    <3>1. m - 1 \in 0 .. N /\ m \in 0 .. N
      BY <1>0
    <3> HIDE DEF Right
    <3> QED BY <1>0, <1>3, <1>5, <3>1
  <2>2. Len(g[m]) = Len(g[m - 1]) + Len(ms[m]) /\ Len(g[m - 1]) \in Nat /\ Len(ms[m]) \in Nat
    <3>1. Len(g[m - 1] \o ms[m]) = Len(g[m - 1]) + Len(ms[m])
      BY <2>1, ConcatProperties
    <3> QED BY <2>1, <3>1
  <2>3. off[m] = Len(g[m]) /\ off[m - 1] = Len(g[m - 1])
    <3>1. off[m - 1] = Len(g[m - 1])
      BY <2>1
    <3>2. off[m] = off[m - 1] + sz[m] /\ sz[m] = Len(ms[m])
      BY <1>1, <1>2, Zenon
    <3> QED BY <2>2, <3>1, <3>2
  <2>4. ASSUME NEW i \in 1 .. m
        PROVE  /\ off[i - 1] \in Nat /\ off[i] \in Nat /\ off[i] <= Len(g[m])
               /\ SubSeq(g[m], off[i - 1] + 1, off[i]) = ms[i]
    <3>1. CASE i = m
      <4>1. SubSeq(g[m - 1] \o ms[m], Len(g[m - 1]) + 1, Len(g[m - 1]) + Len(ms[m])) = ms[m]
        BY <2>1, CutOfRear, Zenon
      <4>2. off[i - 1] \in Nat /\ off[i] \in Nat /\ off[i] <= Len(g[m])
        <5>1. off[i - 1] = Len(g[m - 1]) /\ off[i] = Len(g[m])
          BY <2>3, <3>1
        <5>2. Len(g[m]) \in Nat
          <6>1. g[m] \in Seq(S)
            BY <1>3, <2>1
          <6> QED BY <6>1
        <5>3. \A x \in Nat : x <= x
          OBVIOUS
        <5> QED BY <2>2, <5>1, <5>2, <5>3
      <4> QED BY <2>1, <2>2, <2>3, <3>1, <4>1, <4>2
    <3>2. CASE i # m
      <4>1. i \in 1 .. m - 1
        BY <3>2
      <4>2. /\ off[i - 1] \in Nat /\ off[i] \in Nat /\ off[i] <= Len(g[m - 1])
            /\ SubSeq(g[m - 1], off[i - 1] + 1, off[i]) = ms[i]
        BY <2>1, <4>1, Zenon
      <4>3. SubSeq(g[m - 1] \o ms[m], off[i - 1] + 1, off[i]) = SubSeq(g[m - 1], off[i - 1] + 1, off[i])
        <5>1. g[m - 1] \in Seq(S) /\ ms[m] \in Seq(S)
          BY <2>1
        <5>2. off[i - 1] \in Nat /\ off[i] \in Nat /\ off[i] <= Len(g[m - 1])
          BY <4>2
        <5> QED BY <5>1, <5>2, CutOfFront, Zenon
      <4>4. off[i] <= Len(g[m])
        <5>1. \A x, a, b \in Nat : x <= a => x <= a + b
          OBVIOUS
        <5>2. off[i] <= Len(g[m - 1]) + Len(ms[m])
          BY <2>2, <4>2, <5>1
        <5> QED BY <2>2, <5>2
      <4> QED BY <2>1, <4>2, <4>3, <4>4
    <3> QED BY <3>1, <3>2
  <2> QED BY <2>1, <2>3, <2>4
<1>6. Right(N)
  <2>1. \A m \in 0 .. N : m \in T
    <3> HIDE DEF T
    <3> QED BY <1>0, <1>4, <1>5, InductionTo
  <2> HIDE DEF Right
  <2> QED BY <1>0, <2>1
<1>7. ASSUME NEW i \in 1 .. N
      PROVE  /\ off[i - 1] + sz[i] = off[i] /\ ~(off[i] > Len(g[N]))
             /\ SubSeq(g[N], off[i - 1] + 1, off[i]) = ms[i]
  <2>1. g[N] \in Seq(S)
    BY <1>0, <1>3
  <2>2. Len(g[N]) \in Nat
    BY <2>1
  <2>3. off[i] \in Nat /\ off[i] <= Len(g[N]) /\ SubSeq(g[N], off[i - 1] + 1, off[i]) = ms[i]
    BY <1>6
  <2>4. \A x, y \in Nat : x <= y => ~(x > y)
    OBVIOUS
  <2> QED BY <1>2, <2>2, <2>3, <2>4
<1>8. Cut(g[N], sz) = ms
  <2>1. Cut(g[N], sz) = [i \in 1 .. N |-> SubSeq(g[N], off[i - 1] + 1, off[i - 1] + sz[i])]
    BY <1>1 DEF Cut, off
  <2>2. Cut(g[N], sz) = [i \in 1 .. N |-> ms[i]]
    BY <1>7, <2>1
  <2> QED BY <2>2 DEF N
<1> QED BY <1>1, <1>3, <1>7, <1>8 DEF sz, off

-----------------------------------------------------------------------------
(* Replicas: the map has every sector, with the last of its replicas *)

\* What a map of the first n replicas has to be.
LastOf(rs, n, m) ==
  /\ DOMAIN m = {rs[i][1] : i \in 1 .. n}
  /\ \A i \in 1 .. n : (\A j \in i + 1 .. n : rs[j][1] # rs[i][1]) => m[rs[i][1]] = rs[i][2]

\* One more replica takes the place of the last one of its sector.
LEMMA InsertLast ==
  ASSUME NEW rs \in Seq(Nat \X Item), NEW n \in 1 .. Len(rs), NEW m, LastOf(rs, n - 1, m)
  PROVE  LastOf(rs, n, InsertReplica(m, rs[n]))
<1> DEFINE k == rs[n][1]
           v == rs[n][2]
           d == InsertReplica(m, rs[n])
<1>1. DOMAIN d = {k} \cup DOMAIN m /\ d[k] = v /\ \A x \in DOMAIN m : x # k => d[x] = m[x]
  BY DEF InsertReplica
<1> HIDE DEF d
<1>2. DOMAIN d = {rs[i][1] : i \in 1 .. n}
  <2>1. 1 .. n = (1 .. n - 1) \cup {n}
    OBVIOUS
  <2>2. DOMAIN m = {rs[i][1] : i \in 1 .. n - 1}
    BY DEF LastOf
  <2> QED BY <1>1, <2>1, <2>2
<1>3. ASSUME NEW i \in 1 .. n, \A j \in i + 1 .. n : rs[j][1] # rs[i][1]
      PROVE  d[rs[i][1]] = rs[i][2]
  <2>1. CASE i = n
    BY <1>1, <2>1
  <2>2. CASE i # n
    <3>1. i \in 1 .. n - 1 /\ n \in i + 1 .. n /\ \A j \in i + 1 .. n - 1 : j \in i + 1 .. n
      BY <2>2
    <3>2. rs[i][1] # k /\ \A j \in i + 1 .. n - 1 : rs[j][1] # rs[i][1]
      BY <1>3, <3>1
    <3>3. rs[i][1] \in DOMAIN m /\ m[rs[i][1]] = rs[i][2]
      BY <3>1, <3>2 DEF LastOf
    <3> QED BY <1>1, <3>2, <3>3
  <2> QED BY <2>1, <2>2
<1> QED BY <1>2, <1>3 DEF LastOf, d

\* Every sector given is in the map, with the last replica given for it.
LEMMA MapHasLast ==
  ASSUME NEW rs \in Seq(Nat \X Item)
  PROVE  LastOf(rs, Len(rs), IntoMap(rs))
<1> DEFINE N == Len(rs)
           Maps == UNION {[D -> Item] : D \in SUBSET Nat}
           step == [n \in 1 .. N |-> [m \in Maps |-> InsertReplica(m, rs[n])]]
           Eq(f) == f = [n \in 0 .. N |-> IF n = 0 THEN <<>> ELSE InsertReplica(f[n - 1], rs[n])]
           map == CHOOSE f : Eq(f)
<1>0. N \in Nat /\ \A n \in 1 .. N : rs[n][1] \in Nat /\ rs[n][2] \in Item
  OBVIOUS
<1>1. \E f : Eq(f)
  <2>1. step \in [1 .. N -> [Maps -> Maps]]
    <3>1. ASSUME NEW n \in 1 .. N, NEW m \in Maps PROVE InsertReplica(m, rs[n]) \in Maps
      <4>1. PICK D \in SUBSET Nat : m \in [D -> Item]
        OBVIOUS
      <4>2. InsertReplica(m, rs[n]) \in [D \cup {rs[n][1]} -> Item]
        BY <1>0, <4>1 DEF InsertReplica
      <4>3. D \cup {rs[n][1]} \in SUBSET Nat
        BY <1>0
      <4> QED BY <4>2, <4>3
    <3> HIDE DEF Maps, N
    <3> QED BY <3>1
  <2>2. <<>> \in Maps
    <3>1. <<>> \in [{} -> Item] /\ {} \in SUBSET Nat
      OBVIOUS
    <3> QED BY <3>1
  <2>3. PICK f \in [0 .. N -> Maps] : Iterates(f, <<>>, N, step)
    <3> HIDE DEF step, Maps, N
    <3> QED BY <1>0, <2>1, <2>2, Recursion
  <2>4. ASSUME NEW n \in 1 .. N PROVE f[n] = InsertReplica(f[n - 1], rs[n])
    <3>1. n - 1 \in 0 .. N
      BY <1>0
    <3>2. f[n - 1] \in Maps /\ f[n] = step[n][f[n - 1]]
      <4> HIDE DEF step, Maps, N
      <4> QED BY <2>3, <3>1, Zenon DEF Iterates
    <3>3. step[n] = [m \in Maps |-> InsertReplica(m, rs[n])]
      OBVIOUS
    <3> HIDE DEF step, Maps
    <3> QED BY <3>2, <3>3
  <2>5. f[0] = <<>>
    BY <2>3 DEF Iterates
  <2>6. Eq(f)
    <3>1. ASSUME NEW n \in 0 .. N PROVE f[n] = IF n = 0 THEN <<>> ELSE InsertReplica(f[n - 1], rs[n])
      <4>1. CASE n = 0
        BY <2>5, <4>1
      <4>2. CASE n # 0
        <5>1. n \in 1 .. N
          BY <1>0, <4>2
        <5> QED BY <2>4, <4>2, <5>1
      <4> QED BY <4>1, <4>2
    <3>2. f = [n \in 0 .. N |-> f[n]]
      <4> HIDE DEF Maps, N
      <4> QED OBVIOUS
    <3> HIDE DEF Maps, N
    <3> QED BY <3>1, <3>2
  <2> HIDE DEF Eq
  <2> QED BY <2>6
<1>2. Eq(map)
  <2> HIDE DEF Eq
  <2> QED BY <1>1
<1>3. IntoMap(rs) = map[N]
  BY DEF IntoMap
<1> HIDE DEF map, N
<1> DEFINE T == {n \in 0 .. N : LastOf(rs, n, map[n])}
<1>4. 0 \in T
  BY <1>0, <1>2 DEF LastOf
<1>5. ASSUME NEW n \in 1 .. N, n - 1 \in T PROVE n \in T
  <2>1. LastOf(rs, n - 1, map[n - 1]) /\ n \in 0 .. N /\ n # 0
    BY <1>0, <1>5
  <2>2. map[n] = InsertReplica(map[n - 1], rs[n])
    BY <1>2, <2>1
  <2>3. LastOf(rs, n, InsertReplica(map[n - 1], rs[n]))
    BY <2>1, InsertLast DEF N
  <2> QED BY <2>1, <2>2, <2>3
<1>6. \A n \in 0 .. N : n \in T
  <2> HIDE DEF T
  <2> QED BY <1>0, <1>4, <1>5, InductionTo
<1> QED BY <1>0, <1>3, <1>6 DEF N

-----------------------------------------------------------------------------
(* The threads of the pool: the parts of a batch, whatever was converted and merged *)

\* A batch: how many pieces, which of them fail, and what all of them make together,
\* w elements from a piece.
IsJob(job, w) ==
  /\ job.size \in Nat /\ w \in Nat \ {0}
  /\ (\E S : job.want \in Seq(S)) /\ Len(job.want) = w * job.size

\* What the pieces a + 1 .. b make.
Span(job, w, a, b) ==
  IF \E i \in a + 1 .. b : i \in job.bad THEN {} ELSE {SubSeq(job.want, w * a + 1, w * b)}

Pieces(job, w) == [i \in 1 .. job.size |-> Span(job, w, i - 1, i)]

\* The parts are neighbours, from the first piece to the last, cut at these places, and
\* what is done has not failed.
CutAt(job, w, ps, n, cut, done) ==
  /\ n \in Nat \ {0} /\ cut \in [0 .. n -> 0 .. job.size] /\ done \in [1 .. n -> BOOLEAN]
  /\ ps = [i \in 1 .. n |-> [done |-> done[i], val |-> Span(job, w, cut[i - 1], cut[i])]]
  /\ cut[0] = 0 /\ cut[n] = job.size
  /\ \A i \in 1 .. n : cut[i - 1] <= cut[i] /\ (done[i] => Span(job, w, cut[i - 1], cut[i]) # {})

Parted(job, w, ps) == \E n, cut, done : CutAt(job, w, ps, n, cut, done)

\* acc.extend(current), on what two parts have made.
Extended(A, B) == {a \o b : a \in A, b \in B}

\* Two neighbours that have not failed make what lies between their ends.
LEMMA SpanJoin ==
  ASSUME NEW job, NEW w, IsJob(job, w),
         NEW a \in 0 .. job.size, NEW b \in 0 .. job.size, NEW c \in 0 .. job.size, a <= b, b <= c,
         Span(job, w, a, b) # {}, Span(job, w, b, c) # {}
  PROVE  /\ Extended(Span(job, w, a, b), Span(job, w, b, c)) = Span(job, w, a, c)
         /\ Span(job, w, a, c) # {}
<1> DEFINE want == job.want
<1>0. job.size \in Nat /\ w \in Nat \ {0} /\ Len(want) = w * job.size /\ a \in Nat /\ b \in Nat /\ c \in Nat
  BY DEF IsJob
<1>1. PICK S : want \in Seq(S)
  BY DEF IsJob
<1>2. /\ ~\E i \in a + 1 .. b : i \in job.bad
      /\ ~\E i \in b + 1 .. c : i \in job.bad
      /\ Span(job, w, a, b) = {SubSeq(want, w * a + 1, w * b)}
      /\ Span(job, w, b, c) = {SubSeq(want, w * b + 1, w * c)}
  BY DEF Span
<1>3. ~\E i \in a + 1 .. c : i \in job.bad
  <2>1. \A i \in a + 1 .. c : i \in a + 1 .. b \/ i \in b + 1 .. c
    BY <1>0
  <2> QED BY <1>2, <2>1
<1>4. SubSeq(want, w * a + 1, w * b) \o SubSeq(want, w * b + 1, w * c) = SubSeq(want, w * a + 1, w * c)
  <2>1. /\ w * a \in Nat /\ w * b \in Nat /\ w * c \in Nat
        /\ w * a <= w * b /\ w * b <= w * c /\ w * c <= w * job.size
    <3>1. \A x, y \in Nat : x <= y => w * x \in Nat /\ w * y \in Nat /\ w * x <= w * y
      <4>1. SUFFICES ASSUME NEW x \in Nat, NEW y \in Nat, x <= y
                     PROVE  w * x \in Nat /\ w * y \in Nat /\ w * x <= w * y
        OBVIOUS
      <4>2. PICK e \in Nat : y = x + e
        <5>1. y - x \in Nat /\ y = x + (y - x)
          BY <4>1
        <5> QED BY <5>1
      <4>3. w * y = w * x + w * e /\ w * x \in Nat /\ w * e \in Nat
        BY <1>0, <4>2
      <4> QED BY <4>3
    <3>2. c <= job.size
      BY <1>0
    <3> QED BY <1>0, <3>1, <3>2
  <2>2. PICK x \in Nat, y \in Nat, z \in Nat : x = w * a /\ y = w * b /\ z = w * c
    BY <2>1
  <2>3. x + 1 \in 1 .. Len(want) + 1 /\ y \in x + 1 - 1 .. Len(want) /\ z \in y .. Len(want)
    <3>1. Len(want) \in Nat /\ x <= y /\ y <= z /\ z <= Len(want)
      BY <1>0, <1>1, <2>1, <2>2
    <3> HIDE DEF want
    <3> QED BY <3>1
  <2>4. SubSeq(want, x + 1, y) \o SubSeq(want, y + 1, z) = SubSeq(want, x + 1, z)
    BY <1>1, <2>3, ConcatAdjacentSubSeq
  <2> QED BY <2>2, <2>4
<1>5. Span(job, w, a, c) = {SubSeq(want, w * a + 1, w * c)}
  BY <1>3 DEF Span
<1> DEFINE p == SubSeq(want, w * a + 1, w * b)
           q == SubSeq(want, w * b + 1, w * c)
<1>6. Span(job, w, a, b) = {p} /\ Span(job, w, b, c) = {q} /\ Span(job, w, a, c) = {p \o q}
  BY <1>2, <1>4, <1>5
<1> HIDE DEF p, q
<1>7. Extended(Span(job, w, a, b), Span(job, w, b, c)) = {p \o q}
  BY <1>6 DEF Extended
<1> QED BY <1>6, <1>7

\* TakeBatch: every piece is a part.
LEMMA PartsTaken ==
  ASSUME NEW job, NEW w, IsJob(job, w), job.size # 0
  PROVE  Parted(job, w, [i \in 1 .. job.size |-> [done |-> FALSE, val |-> Pieces(job, w)[i]]])
<1> DEFINE n == job.size
           cut == [i \in 0 .. n |-> i]
           done == [i \in 1 .. n |-> FALSE]
           ps == [i \in 1 .. n |-> [done |-> FALSE, val |-> Pieces(job, w)[i]]]
<1>1. n \in Nat \ {0} /\ cut \in [0 .. n -> 0 .. n] /\ done \in [1 .. n -> BOOLEAN]
  BY DEF IsJob
<1>2. ASSUME NEW i \in 1 .. n
      PROVE  /\ cut[i - 1] = i - 1 /\ cut[i] = i /\ cut[i - 1] <= cut[i] /\ ~done[i]
             /\ Pieces(job, w)[i] = Span(job, w, cut[i - 1], cut[i])
  BY <1>1 DEF Pieces
<1>3. ps = [i \in 1 .. n |-> [done |-> done[i], val |-> Span(job, w, cut[i - 1], cut[i])]]
  <2>1. \A i \in 1 .. n : done[i] = FALSE
    OBVIOUS
  <2> HIDE DEF cut, done, n
  <2> QED BY <1>2, <2>1
<1>4. cut[0] = 0 /\ cut[n] = n
  BY <1>1
<1> HIDE DEF cut, done, ps
<1>5. Parted(job, w, ps)
  <2>1. CutAt(job, w, ps, n, cut, done)
    BY <1>1, <1>2, <1>3, <1>4 DEF CutAt
  <2> HIDE DEF n
  <2> QED BY <2>1 DEF Parted
<1> QED BY <1>5 DEF ps

\* ConvertPart: a part that has not failed is done.
LEMMA PartsConverted ==
  ASSUME NEW job, NEW w, NEW ps, Parted(job, w, ps), NEW k \in 1 .. Len(ps), ps[k].val # {}
  PROVE  Parted(job, w, [ps EXCEPT ![k].done = TRUE]) /\ [ps EXCEPT ![k].done = TRUE] # <<>>
<1>0. PICK n, cut, done : CutAt(job, w, ps, n, cut, done)
  BY DEF Parted
<1>1. /\ n \in Nat \ {0} /\ cut \in [0 .. n -> 0 .. job.size] /\ done \in [1 .. n -> BOOLEAN]
      /\ ps = [i \in 1 .. n |-> [done |-> done[i], val |-> Span(job, w, cut[i - 1], cut[i])]]
      /\ cut[0] = 0 /\ cut[n] = job.size
      /\ \A i \in 1 .. n : cut[i - 1] <= cut[i] /\ (done[i] => Span(job, w, cut[i - 1], cut[i]) # {})
  BY <1>0 DEF CutAt
<1> DEFINE d == [done EXCEPT ![k] = TRUE]
           qs == [ps EXCEPT ![k].done = TRUE]
<1>2. Len(ps) = n /\ k \in 1 .. n
  BY <1>1
<1>3. d \in [1 .. n -> BOOLEAN] /\ \A i \in 1 .. n : d[i] = IF i = k THEN TRUE ELSE done[i]
  BY <1>1, <1>2
<1>4. qs = [i \in 1 .. n |-> [done |-> d[i], val |-> Span(job, w, cut[i - 1], cut[i])]]
  <2>1. DOMAIN qs = 1 .. n
    BY <1>1
  <2>2. ASSUME NEW i \in 1 .. n PROVE qs[i] = [done |-> d[i], val |-> Span(job, w, cut[i - 1], cut[i])]
    BY <1>1, <1>2, <1>3
  <2> QED BY <1>1, <2>1, <2>2
<1>5. Span(job, w, cut[k - 1], cut[k]) # {}
  BY <1>1, <1>2
<1> HIDE DEF d, qs
<1>6. \A i \in 1 .. n : cut[i - 1] <= cut[i] /\ (d[i] => Span(job, w, cut[i - 1], cut[i]) # {})
  BY <1>1, <1>3, <1>5
<1>7. qs # <<>>
  <2>1. DOMAIN qs = 1 .. n /\ 1 \in 1 .. n /\ DOMAIN <<>> = {}
    BY <1>1, <1>4
  <2> QED BY <2>1
<1>8. Parted(job, w, qs)
  <2>1. CutAt(job, w, qs, n, cut, d)
    BY <1>1, <1>3, <1>4, <1>6 DEF CutAt
  <2> QED BY <2>1 DEF Parted
<1> QED BY <1>7, <1>8 DEF qs

\* ConvertPart: a part fails for a piece that does.
LEMMA PartsFailed ==
  ASSUME NEW job, NEW w, NEW ps, Parted(job, w, ps), NEW k \in 1 .. Len(ps), ps[k].val = {}
  PROVE  job.bad # {}
<1>0. PICK n, cut, done : CutAt(job, w, ps, n, cut, done)
  BY DEF Parted
<1>1. ps[k].val = Span(job, w, cut[k - 1], cut[k])
  BY <1>0 DEF CutAt
<1> QED BY <1>1 DEF Span

\* A sequence in which x takes the place of two neighbours, element by element.
OneForTwo(ps, k, x) ==
  [i \in 1 .. Len(ps) - 1 |-> IF i < k THEN ps[i] ELSE IF i = k THEN x ELSE ps[i + 1]]

\* MergeParts puts it in by taking the sequence apart.
LEMMA TwoBecomeOne ==
  ASSUME NEW S, NEW ps \in Seq(S), NEW x \in S, NEW k \in 1 .. Len(ps) - 1
  PROVE  SubSeq(ps, 1, k - 1) \o <<x>> \o SubSeq(ps, k + 2, Len(ps)) = OneForTwo(ps, k, x)
<1> DEFINE n == Len(ps)
           f == SubSeq(ps, 1, k - 1)
           m == <<x>>
           r == SubSeq(ps, k + 2, n)
           a == f \o m
           q == [i \in 1 .. n - 1 |-> IF i < k THEN ps[i] ELSE IF i = k THEN x ELSE ps[i + 1]]
<1>0. n \in Nat /\ k \in Nat /\ k >= 1 /\ k + 1 <= n
  OBVIOUS
<1>1. f \in Seq(S) /\ Len(f) = k - 1 /\ \A i \in 1 .. k - 1 : f[i] = ps[i]
  BY <1>0
<1>2. m \in Seq(S) /\ Len(m) = 1 /\ m[1] = x
  OBVIOUS
<1>3. r \in Seq(S) /\ Len(r) = n - (k + 1) /\ \A i \in 1 .. n - (k + 1) : r[i] = ps[i + k + 1]
  BY <1>0
<1> HIDE DEF f, m, r
<1>4. /\ a \in Seq(S) /\ Len(a) = k
      /\ \A i \in 1 .. k : a[i] = IF i <= k - 1 THEN f[i] ELSE m[i - (k - 1)]
  <2>1. /\ f \o m \in Seq(S) /\ Len(f \o m) = Len(f) + Len(m)
        /\ \A i \in 1 .. Len(f) + Len(m) : (f \o m)[i] = IF i <= Len(f) THEN f[i] ELSE m[i - Len(f)]
    <3>1. f \in Seq(S) /\ m \in Seq(S)
      BY <1>1, <1>2
    <3> QED BY <3>1, ConcatProperties
  <2>2. Len(f) + Len(m) = k
    BY <1>0, <1>1, <1>2
  <2> QED BY <1>1, <2>1, <2>2
<1> HIDE DEF a, n
<1>5. /\ a \o r \in Seq(S) /\ Len(a \o r) = n - 1
      /\ \A i \in 1 .. n - 1 : (a \o r)[i] = IF i <= k THEN a[i] ELSE r[i - k]
  <2>1. /\ a \o r \in Seq(S) /\ Len(a \o r) = Len(a) + Len(r)
        /\ \A i \in 1 .. Len(a) + Len(r) : (a \o r)[i] = IF i <= Len(a) THEN a[i] ELSE r[i - Len(a)]
    <3>1. a \in Seq(S) /\ r \in Seq(S)
      BY <1>3, <1>4
    <3> QED BY <3>1, ConcatProperties
  <2>2. Len(a) + Len(r) = n - 1
    BY <1>0, <1>3, <1>4
  <2> QED BY <1>4, <2>1, <2>2
<1>6. ASSUME NEW i \in 1 .. n - 1
      PROVE  (a \o r)[i] = IF i < k THEN ps[i] ELSE IF i = k THEN x ELSE ps[i + 1]
  <2>1. CASE i < k
    <3>1. i \in 1 .. k /\ i \in 1 .. k - 1 /\ i <= k /\ i <= k - 1
      BY <1>0, <2>1
    <3> QED BY <1>1, <1>4, <1>5, <2>1, <3>1
  <2>2. CASE i = k
    <3>1. k \in 1 .. k /\ k <= k /\ ~(k <= k - 1) /\ k - (k - 1) = 1 /\ ~(k < k)
      BY <1>0
    <3>2. (a \o r)[k] = a[k] /\ a[k] = m[k - (k - 1)]
      BY <1>4, <1>5, <2>2, <3>1
    <3> QED BY <1>2, <2>2, <3>1, <3>2
  <2>3. CASE i > k
    <3>1. i - k \in 1 .. n - (k + 1) /\ (i - k) + k + 1 = i + 1 /\ ~(i <= k) /\ ~(i < k) /\ i # k
      BY <1>0, <2>3
    <3>2. (a \o r)[i] = r[i - k] /\ r[i - k] = ps[(i - k) + k + 1]
      BY <1>3, <1>5, <3>1
    <3> QED BY <3>1, <3>2
  <2>4. i < k \/ i = k \/ i > k
    BY <1>0
  <2> QED BY <2>1, <2>2, <2>3, <2>4
<1>7. a \o r = q
  <2>1. a \o r = [i \in 1 .. n - 1 |-> (a \o r)[i]]
    <3>1. \A t \in Seq(S) : t = [i \in 1 .. Len(t) |-> t[i]]
      OBVIOUS
    <3> QED BY <1>5, <3>1
  <2> QED BY <1>6, <2>1
<1> QED BY <1>7 DEF a, f, m, r, n, q, OneForTwo

\* MergeParts: two neighbours that are done become one that is.
LEMMA PartsMerged ==
  ASSUME NEW job, NEW w, NEW ps, IsJob(job, w), Parted(job, w, ps),
         NEW k \in 1 .. Len(ps), k < Len(ps), ps[k].done, ps[k + 1].done
  PROVE  LET both == [done |-> TRUE, val |-> Extended(ps[k].val, ps[k + 1].val)]
             qs == SubSeq(ps, 1, k - 1) \o <<both>> \o SubSeq(ps, k + 2, Len(ps))
         IN  Parted(job, w, qs) /\ qs # <<>>
<1>0. PICK n, cut, done : CutAt(job, w, ps, n, cut, done)
  BY DEF Parted
<1> DEFINE Part(i) == [done |-> done[i], val |-> Span(job, w, cut[i - 1], cut[i])]
           both == [done |-> TRUE, val |-> Extended(ps[k].val, ps[k + 1].val)]
           qs == SubSeq(ps, 1, k - 1) \o <<both>> \o SubSeq(ps, k + 2, Len(ps))
           cut1 == [i \in 0 .. n - 1 |-> IF i < k THEN cut[i] ELSE cut[i + 1]]
           done1 == [i \in 1 .. n - 1 |-> IF i < k THEN done[i] ELSE IF i = k THEN TRUE ELSE done[i + 1]]
<1>1. /\ n \in Nat \ {0} /\ cut \in [0 .. n -> 0 .. job.size] /\ done \in [1 .. n -> BOOLEAN]
      /\ ps = [i \in 1 .. n |-> Part(i)]
      /\ cut[0] = 0 /\ cut[n] = job.size
      /\ \A i \in 1 .. n : cut[i - 1] <= cut[i] /\ (done[i] => Span(job, w, cut[i - 1], cut[i]) # {})
  BY <1>0 DEF CutAt
<1>2. /\ Len(ps) = n /\ k \in 1 .. n /\ k + 1 \in 1 .. n /\ k \in 1 .. n - 1 /\ n - 1 \in Nat \ {0}
      /\ k - 1 \in 0 .. n /\ k \in 0 .. n /\ k + 1 \in 0 .. n /\ k + 1 - 1 = k
  BY <1>1
<1>3. /\ done[k] /\ done[k + 1]
      /\ ps[k].val = Span(job, w, cut[k - 1], cut[k]) /\ ps[k + 1].val = Span(job, w, cut[k], cut[k + 1])
  BY <1>1, <1>2
<1>4. /\ Extended(ps[k].val, ps[k + 1].val) = Span(job, w, cut[k - 1], cut[k + 1])
      /\ Span(job, w, cut[k - 1], cut[k + 1]) # {}
      /\ cut[k - 1] <= cut[k] /\ cut[k] <= cut[k + 1]
  <2>1. /\ cut[k - 1] \in 0 .. job.size /\ cut[k] \in 0 .. job.size /\ cut[k + 1] \in 0 .. job.size
        /\ cut[k - 1] <= cut[k] /\ cut[k] <= cut[k + 1]
    BY <1>1, <1>2
  <2>2. Span(job, w, cut[k - 1], cut[k]) # {} /\ Span(job, w, cut[k], cut[k + 1]) # {}
    <3>1. \A i \in 1 .. n : done[i] => Span(job, w, cut[i - 1], cut[i]) # {}
      BY <1>1
    <3> QED BY <1>2, <1>3, <3>1
  <2>3. PICK x \in 0 .. job.size, y \in 0 .. job.size, z \in 0 .. job.size :
          x = cut[k - 1] /\ y = cut[k] /\ z = cut[k + 1]
    BY <2>1
  <2>4. /\ Extended(Span(job, w, x, y), Span(job, w, y, z)) = Span(job, w, x, z)
        /\ Span(job, w, x, z) # {}
    <3>1. x <= y /\ y <= z /\ Span(job, w, x, y) # {} /\ Span(job, w, y, z) # {}
      BY <2>1, <2>2, <2>3
    <3> QED BY <3>1, SpanJoin
  <2> QED BY <1>3, <2>1, <2>3, <2>4
<1>5. qs = [i \in 1 .. n - 1 |-> IF i < k THEN ps[i] ELSE IF i = k THEN both ELSE ps[i + 1]]
  <2>1. PICK S : ps \in Seq(S) /\ both \in S
    <3> DEFINE S == {ps[i] : i \in 1 .. n} \cup {both}
    <3>1. n \in Nat /\ ps = [i \in 1 .. n |-> ps[i]]
      BY <1>1
    <3>2. ps \in Seq(S)
      <4> HIDE DEF both, Part
      <4> QED BY <3>1
    <3>3. both \in S
      OBVIOUS
    <3> HIDE DEF S, both, Part
    <3> QED BY <3>2, <3>3
  <2>2. k \in 1 .. Len(ps) - 1
    BY <1>2
  <2> HIDE DEF both, Part
  <2>3. qs = OneForTwo(ps, k, both)
    BY <2>1, <2>2, TwoBecomeOne
  <2> HIDE DEF qs
  <2> QED BY <1>2, <2>3 DEF OneForTwo
<1>6. /\ cut1 \in [0 .. n - 1 -> 0 .. job.size] /\ cut1[0] = 0 /\ cut1[n - 1] = job.size
      /\ \A i \in 0 .. n - 1 : cut1[i] = IF i < k THEN cut[i] ELSE cut[i + 1]
  BY <1>1, <1>2
<1>7. /\ done1 \in [1 .. n - 1 -> BOOLEAN]
      /\ \A i \in 1 .. n - 1 : done1[i] = IF i < k THEN done[i] ELSE IF i = k THEN TRUE ELSE done[i + 1]
  <2>1. \A i \in 1 .. n - 1 : i \in 1 .. n /\ i + 1 \in 1 .. n
    BY <1>1
  <2>2. \A i \in 1 .. n - 1 : (IF i < k THEN done[i] ELSE IF i = k THEN TRUE ELSE done[i + 1]) \in BOOLEAN
    BY <1>1, <2>1, Zenon
  <2> QED BY <2>2, Zenon
<1> HIDE DEF cut1, done1
<1>8. ASSUME NEW i \in 1 .. n - 1
      PROVE  /\ cut1[i - 1] <= cut1[i] /\ (done1[i] => Span(job, w, cut1[i - 1], cut1[i]) # {})
             /\ (IF i < k THEN ps[i] ELSE IF i = k THEN both ELSE ps[i + 1])
                  = [done |-> done1[i], val |-> Span(job, w, cut1[i - 1], cut1[i])]
  <2>0. i - 1 \in 0 .. n - 1 /\ i \in 0 .. n - 1 /\ i \in 1 .. n /\ i + 1 \in 1 .. n /\ i + 1 - 1 = i
    BY <1>2
  <2>1. CASE i < k
    <3>0. i - 1 < k
      BY <1>2, <2>1
    <3>1. cut1[i - 1] = cut[i - 1] /\ cut1[i] = cut[i] /\ done1[i] = done[i]
      BY <1>6, <1>7, <2>0, <2>1, <3>0
    <3>2. /\ ps[i] = [done |-> done[i], val |-> Span(job, w, cut[i - 1], cut[i])]
          /\ cut[i - 1] <= cut[i] /\ (done[i] => Span(job, w, cut[i - 1], cut[i]) # {})
      BY <1>1, <2>0
    <3> HIDE DEF both
    <3> QED BY <2>1, <3>1, <3>2
  <2>2. CASE i = k
    <3>1. k - 1 < k /\ ~(k < k) /\ k - 1 \in 0 .. n - 1 /\ k \in 0 .. n - 1
      BY <1>2
    <3>2. cut1[i - 1] = cut[k - 1] /\ cut1[i] = cut[k + 1] /\ done1[i] = TRUE
      BY <1>6, <1>7, <2>2, <3>1
    <3>3. cut[k - 1] <= cut[k + 1]
      <4>1. cut[k - 1] \in 0 .. job.size /\ cut[k] \in 0 .. job.size /\ cut[k + 1] \in 0 .. job.size
        BY <1>1, <1>2
      <4>2. \A x, y, z \in Int : x <= y /\ y <= z => x <= z
        OBVIOUS
      <4> QED BY <1>4, <4>1, <4>2
    <3>4. both = [done |-> TRUE, val |-> Span(job, w, cut[k - 1], cut[k + 1])]
      BY <1>4
    <3> HIDE DEF both
    <3> QED BY <1>4, <2>2, <3>1, <3>2, <3>3, <3>4
  <2>3. CASE i > k
    <3>1. ~(i < k) /\ i # k /\ ~(i - 1 < k) /\ i - 1 + 1 = i
      BY <1>2, <2>3
    <3>2. cut1[i - 1] = cut[i] /\ cut1[i] = cut[i + 1] /\ done1[i] = done[i + 1]
      BY <1>6, <1>7, <2>0, <3>1
    <3>3. /\ cut[i + 1 - 1] <= cut[i + 1]
          /\ done[i + 1] => Span(job, w, cut[i + 1 - 1], cut[i + 1]) # {}
          /\ ps[i + 1] = [done |-> done[i + 1], val |-> Span(job, w, cut[i + 1 - 1], cut[i + 1])]
      BY <1>1, <2>0
    <3> QED BY <2>0, <3>1, <3>2, <3>3
  <2> QED BY <1>2, <2>1, <2>2, <2>3
<1>9. qs = [i \in 1 .. n - 1 |-> [done |-> done1[i], val |-> Span(job, w, cut1[i - 1], cut1[i])]]
  <2> HIDE DEF qs, both
  <2> QED BY <1>5, <1>8
<1>10. Parted(job, w, qs)
  <2> HIDE DEF qs
  <2>1. CutAt(job, w, qs, n - 1, cut1, done1)
    <3> HIDE DEF both
    <3> QED BY <1>2, <1>6, <1>7, <1>8, <1>9 DEF CutAt
  <2> QED BY <2>1 DEF Parted
<1>11. qs # <<>>
  <2> HIDE DEF qs
  <2>1. DOMAIN qs = 1 .. n - 1 /\ 1 \in 1 .. n - 1 /\ DOMAIN <<>> = {}
    BY <1>2, <1>9
  <2> QED BY <2>1
<1> QED BY <1>10, <1>11

\* Collect: one part that is done is all of it, and nothing has failed.
LEMMA PartsCollected ==
  ASSUME NEW job, NEW w, NEW ps, IsJob(job, w), job.bad \subseteq 1 .. job.size, Parted(job, w, ps),
         Len(ps) = 1, ps[1].done
  PROVE  ps[1].val = {job.want} /\ job.bad = {}
<1>0. PICK n, cut, done : CutAt(job, w, ps, n, cut, done)
  BY DEF Parted
<1>1. n = 1
  BY <1>0 DEF CutAt
<1>2. ps[1].val = Span(job, w, 0, job.size) /\ Span(job, w, 0, job.size) # {}
  <2>1. 1 \in 1 .. 1 /\ 1 - 1 = 0
    OBVIOUS
  <2>2. /\ ps[1] = [done |-> done[1], val |-> Span(job, w, cut[1 - 1], cut[1])]
        /\ done[1] => Span(job, w, cut[1 - 1], cut[1]) # {}
        /\ cut[0] = 0 /\ cut[1] = job.size
    BY <1>0, <1>1, <2>1 DEF CutAt
  <2> QED BY <2>1, <2>2
<1>3. job.size \in Nat /\ w \in Nat \ {0} /\ Len(job.want) = w * job.size
  BY DEF IsJob
<1>4. 0 + 1 = 1 /\ w * 0 + 1 = 1
  BY <1>3
<1>5. Span(job, w, 0, job.size) = {SubSeq(job.want, 1, Len(job.want))} /\ job.bad = {}
  BY <1>2, <1>3, <1>4 DEF Span
<1>6. SubSeq(job.want, 1, Len(job.want)) = job.want
  BY SubSeqFull DEF IsJob
<1> QED BY <1>2, <1>5, <1>6

-----------------------------------------------------------------------------
(* The batches of each call *)

Undecodable(items) == {i \in 1 .. Len(items) : items[i] \in Bad}

Job(items, bad, want) == [size |-> Len(items), bad |-> bad, want |-> want]

ItemsJob(items) == Job(items, Undecodable(items), items)

SealInputs(inputs) == [n \in 1 .. 2 * Len(inputs) |-> <<inputs[((n + 1) \div 2)], 2 - (n % 2)>>]

\* What a call has to convert; hash_verify has cut its messages before.
Jobs(c) ==
  CASE c.fn = "Verify" -> <<ItemsJob(c.digests), ItemsJob(c.keys)>>
    [] c.fn = "HashVerify" -> <<Job(c.messages, {}, c.messages), ItemsJob(c.keys)>>
    [] c.fn = "Aggregate" -> <<ItemsJob(c.signatures)>>
    [] c.fn = "VerifyAggregateSeals" -> <<Job(c.inputs, Undecodable(c.inputs), SealInputs(c.inputs))>>
    [] c.fn = "ReplicaInfoMap" -> <<Job(c.replicas, {}, c.replicas)>>

WidthOf(c) == IF c.fn = "VerifyAggregateSeals" THEN 2 ELSE 1

Converts == BatchCalls \cup {"ReplicaInfoMap"}

\* The arguments of a call, by its function.
LEMMA Arguments ==
  ASSUME NEW c \in CallSet
  PROVE  /\ c.fn = "Verify" => c.sig \in Item /\ c.digests \in Seq(Item) /\ c.keys \in Seq(Item)
         /\ c.fn = "HashVerify" => c.sig \in Item /\ c.messages \in Seq(Seq(Byte)) /\ c.keys \in Seq(Item)
         /\ c.fn = "Aggregate" => c.signatures \in Seq(Item)
         /\ c.fn = "VerifyAggregateSeals" => c.inputs \in Seq(Item)
         /\ c.fn = "ReplicaInfoMap" => c.replicas \in Seq(Nat \X Item)
BY CallAssumption

\* A piece that is one element is that element.
LEMMA OnePiece ==
  ASSUME NEW S, NEW s \in Seq(S), NEW bad, NEW j \in 1 .. Len(s)
  PROVE  Span(Job(s, bad, s), 1, j - 1, j) = IF j \in bad THEN {} ELSE {<<s[j]>>}
<1>1. j - 1 + 1 .. j = {j} /\ 1 * (j - 1) + 1 = j /\ 1 * j = j
  OBVIOUS
<1>2. SubSeq(s, j, j) = <<s[j]>>
  <2>1. SubSeq(s, j, j) = [i \in 1 .. 1 |-> s[i + j - 1]]
    OBVIOUS
  <2>2. 1 + j - 1 = j
    OBVIOUS
  <2> QED BY <2>1, <2>2
<1> QED BY <1>1, <1>2 DEF Span, Job

\* A batch of bytes is a batch of items.
LEMMA ItemPieces ==
  ASSUME NEW items \in Seq(Item), NEW w \in Nat \ {0}
  PROVE  BytesBatch(items, w) = Pieces(ItemsJob(items), 1)
<1>1. BytesBatch(items, w) = [j \in 1 .. Len(items) |-> IF items[j] \in Bad THEN {} ELSE {<<items[j]>>}]
  BY BytesBatchItems
<1>2. ASSUME NEW j \in 1 .. Len(items)
      PROVE  Span(ItemsJob(items), 1, j - 1, j) = IF items[j] \in Bad THEN {} ELSE {<<items[j]>>}
  <2>1. Span(Job(items, Undecodable(items), items), 1, j - 1, j) =
          IF j \in Undecodable(items) THEN {} ELSE {<<items[j]>>}
    BY OnePiece
  <2>2. j \in Undecodable(items) <=> items[j] \in Bad
    BY DEF Undecodable
  <2> QED BY <2>1, <2>2 DEF ItemsJob
<1>3. ItemsJob(items).size = Len(items)
  BY DEF ItemsJob, Job
<1> QED BY <1>1, <1>2, <1>3 DEF Pieces

\* So is a batch of replicas.
LEMMA ReplicaPieces ==
  ASSUME NEW rs \in Seq(Nat \X Item)
  PROVE  Batch(rs, ToReplicaInfo) = Pieces(Job(rs, {}, rs), 1)
<1>1. Batch(rs, ToReplicaInfo) = [j \in 1 .. Len(rs) |-> {<<rs[j]>>}]
  BY DEF Batch, ToReplicaInfo
<1>2. ASSUME NEW j \in 1 .. Len(rs) PROVE Span(Job(rs, {}, rs), 1, j - 1, j) = {<<rs[j]>>}
  BY OnePiece
<1>3. Job(rs, {}, rs).size = Len(rs)
  BY DEF Job
<1> QED BY <1>1, <1>2, <1>3 DEF Pieces

\* An aggregated seal has two elements from an input.
LEMMA SealPieces ==
  ASSUME NEW ins \in Seq(Item)
  PROVE  /\ Batch(ins, ConvertAggregationInputs) = Pieces(Job(ins, Undecodable(ins), SealInputs(ins)), 2)
         /\ SealInputs(ins) \in Seq(Item \X {1, 2}) /\ Len(SealInputs(ins)) = 2 * Len(ins)
<1> DEFINE job == Job(ins, Undecodable(ins), SealInputs(ins))
           want == SealInputs(ins)
<1>0. Len(ins) \in Nat /\ \A j \in 1 .. Len(ins) : ins[j] \in Item
  OBVIOUS
<1>1. want \in Seq(Item \X {1, 2}) /\ Len(want) = 2 * Len(ins)
  <2>1. \A n \in 1 .. 2 * Len(ins) : (n + 1) \div 2 \in 1 .. Len(ins) /\ 2 - (n % 2) \in {1, 2}
    BY <1>0
  <2> QED BY <1>0, <2>1 DEF SealInputs
<1>2. ASSUME NEW j \in 1 .. Len(ins)
      PROVE  Span(job, 2, j - 1, j) = ConvertAggregationInputs(ins[j])
  <2>1. j - 1 + 1 .. j = {j} /\ 2 * (j - 1) + 1 = 2 * j - 1
    BY <1>0
  <2>2. /\ 2 * j - 1 \in 1 .. 2 * Len(ins) /\ 2 * j \in 1 .. 2 * Len(ins)
        /\ (2 * j - 1 + 1) \div 2 = j /\ (2 * j - 1) % 2 = 1 /\ (2 * j + 1) \div 2 = j /\ (2 * j) % 2 = 0
    BY <1>0
  <2>3. want[2 * j - 1] = <<ins[j], 1>> /\ want[2 * j] = <<ins[j], 2>>
    BY <2>2 DEF SealInputs
  <2>4. SubSeq(want, 2 * j - 1, 2 * j) = <<want[2 * j - 1], want[2 * j]>>
    <3> HIDE DEF want
    <3>1. PICK n \in Nat : n = 2 * j - 1 /\ n + 1 = 2 * j /\ n >= 1 /\ n + 1 <= Len(want)
      BY <1>0, <1>1, <2>2
    <3>2. SubSeq(want, n, n + 1) = <<want[n], want[n + 1]>>
      <4>1. SubSeq(want, n, n + 1) = [i \in 1 .. 2 |-> want[i + n - 1]]
        BY <1>1, <3>1
      <4>2. 1 + n - 1 = n /\ 2 + n - 1 = n + 1
        BY <3>1
      <4>3. \A i \in 1 .. 2 : i = 1 \/ i = 2
        OBVIOUS
      <4>4. [i \in 1 .. 2 |-> want[i + n - 1]] = [i \in 1 .. 2 |-> IF i = 1 THEN want[n] ELSE want[n + 1]]
        BY <4>2, <4>3
      <4>5. \A x, y : [i \in 1 .. 2 |-> IF i = 1 THEN x ELSE y] = <<x, y>>
        OBVIOUS
      <4> QED BY <4>1, <4>4, <4>5
    <3> QED BY <3>1, <3>2
  <2>5. Span(job, 2, j - 1, j) = IF ins[j] \in Bad THEN {} ELSE {SubSeq(want, 2 * j - 1, 2 * j)}
    BY <2>1 DEF Span, Job, Undecodable
  <2> QED BY <2>3, <2>4, <2>5 DEF ConvertAggregationInputs
<1>3. job.size = Len(ins)
  BY DEF Job
<1>4. Batch(ins, ConvertAggregationInputs) = [j \in 1 .. Len(ins) |-> ConvertAggregationInputs(ins[j])]
  BY DEF Batch
<1> QED
  <2> HIDE DEF job
  <2> QED BY <1>1, <1>2, <1>3, <1>4 DEF Pieces, job

\* Every batch of a call is one.
LEMMA JobsTyped ==
  ASSUME NEW c \in CallSet, c.fn \in Converts
  PROVE  /\ Len(Jobs(c)) \in Nat
         /\ \A k \in 1 .. Len(Jobs(c)) : /\ IsJob(Jobs(c)[k], WidthOf(c))
                                         /\ Jobs(c)[k].bad \subseteq 1 .. Jobs(c)[k].size
<1>1. ASSUME NEW S, NEW s \in Seq(S), NEW bad
      PROVE  IsJob(Job(s, bad, s), 1)
  BY DEF IsJob, Job
<1>2. ASSUME NEW s \in Seq(Item) PROVE IsJob(ItemsJob(s), 1) /\ ItemsJob(s).bad \subseteq 1 .. ItemsJob(s).size
  BY <1>1 DEF ItemsJob, Undecodable, Job
<1>3. CASE c.fn = "Verify"
  <2>1. Jobs(c) = <<ItemsJob(c.digests), ItemsJob(c.keys)>> /\ WidthOf(c) = 1
    BY <1>3 DEF Jobs, WidthOf
  <2>2. c.digests \in Seq(Item) /\ c.keys \in Seq(Item)
    BY <1>3, Arguments
  <2> QED BY <1>2, <2>1, <2>2
<1>4. CASE c.fn = "HashVerify"
  <2>1. Jobs(c) = <<Job(c.messages, {}, c.messages), ItemsJob(c.keys)>> /\ WidthOf(c) = 1
    BY <1>4 DEF Jobs, WidthOf
  <2>2. c.messages \in Seq(Seq(Byte)) /\ c.keys \in Seq(Item)
    BY <1>4, Arguments
  <2>3. IsJob(Job(c.messages, {}, c.messages), 1) /\ Job(c.messages, {}, c.messages).bad = {}
    BY <1>1, <2>2 DEF Job
  <2> QED BY <1>2, <2>1, <2>2, <2>3
<1>5. CASE c.fn = "Aggregate"
  <2>1. Jobs(c) = <<ItemsJob(c.signatures)>> /\ WidthOf(c) = 1
    BY <1>5 DEF Jobs, WidthOf
  <2>2. c.signatures \in Seq(Item)
    BY <1>5, Arguments
  <2> QED BY <1>2, <2>1, <2>2
<1>6. CASE c.fn = "VerifyAggregateSeals"
  <2>1. Jobs(c) = <<Job(c.inputs, Undecodable(c.inputs), SealInputs(c.inputs))>> /\ WidthOf(c) = 2
    BY <1>6 DEF Jobs, WidthOf
  <2>2. c.inputs \in Seq(Item)
    BY <1>6, Arguments
  <2>3. SealInputs(c.inputs) \in Seq(Item \X {1, 2}) /\ Len(SealInputs(c.inputs)) = 2 * Len(c.inputs)
    BY <2>2, SealPieces
  <2>4. IsJob(Jobs(c)[1], 2) /\ Jobs(c)[1].bad \subseteq 1 .. Jobs(c)[1].size
    BY <2>1, <2>2, <2>3 DEF IsJob, Job, Undecodable
  <2> QED BY <2>1, <2>4
<1>7. CASE c.fn = "ReplicaInfoMap"
  <2>1. Jobs(c) = <<Job(c.replicas, {}, c.replicas)>> /\ WidthOf(c) = 1
    BY <1>7 DEF Jobs, WidthOf
  <2>2. c.replicas \in Seq(Nat \X Item)
    BY <1>7, Arguments
  <2>3. IsJob(Job(c.replicas, {}, c.replicas), 1) /\ Job(c.replicas, {}, c.replicas).bad = {}
    BY <1>1, <2>2 DEF Job
  <2> QED BY <2>1, <2>3
<1> QED BY <1>3, <1>4, <1>5, <1>6, <1>7 DEF Converts, BatchCalls

-----------------------------------------------------------------------------
(* The invariant of a call that converts batches *)

\* What is asked of a call before anything of it is converted.
Accepted(c) ==
  /\ c.fn \in {"Verify", "HashVerify"} => c.sig \notin Bad
  /\ c.fn = "Verify" => Len(c.digests) = Len(c.keys)
  /\ c.fn = "VerifyAggregateSeals" => c.inputs # <<>>

\* The batches after the k-th.
Rest(c, k) == [i \in 1 .. Len(Jobs(c)) - k |-> Pieces(Jobs(c)[k + i], WidthOf(c))]

\* k batches are there whole, and the next is in parts or not yet begun.
At(c, k, whole, rest, ps) ==
  /\ k \in 0 .. Len(Jobs(c))
  /\ whole = [i \in 1 .. k |-> Jobs(c)[i].want]
  /\ \A i \in 1 .. k : Jobs(c)[i].bad = {}
  /\ IF ps = <<>> THEN rest = Rest(c, k)
     ELSE k < Len(Jobs(c)) /\ Parted(Jobs(c)[k + 1], WidthOf(c), ps) /\ rest = Rest(c, k + 1)

\* Everything of the call converts, and there is something to aggregate.
NothingBad(c) ==
  /\ \A i \in 1 .. Len(Jobs(c)) : Jobs(c)[i].bad = {}
  /\ c.fn = "Aggregate" => c.signatures # <<>>

\* A call that has not begun, one under way, and the two ways it can end.
ConvertInv ==
  call.fn \in Converts =>
    /\ stage = "go" => outcome \in {"running", "err"} /\ decoded = <<>> /\ parts = <<>>
    /\ stage = "rust" => Accepted(call)
    /\ stage = "rust" /\ outcome = "running" => \E k : At(call, k, decoded, batches, parts)
    /\ outcome = "ok" =>
         /\ stage = "rust" /\ NothingBad(call)
         /\ decoded = IF call.fn = "ReplicaInfoMap" THEN <<IntoMap(call.replicas)>>
                      ELSE [i \in 1 .. Len(Jobs(call)) |-> Jobs(call)[i].want]
    /\ outcome = "err" => ~Accepted(call) \/ ~NothingBad(call)
    /\ outcome # "abort"

\* One more batch is there.
LEMMA OneMore ==
  ASSUME NEW c \in CallSet, c.fn \in Converts, NEW k \in 0 .. Len(Jobs(c)), k < Len(Jobs(c)),
         NEW whole, whole = [i \in 1 .. k |-> Jobs(c)[i].want], \A i \in 1 .. k : Jobs(c)[i].bad = {},
         Jobs(c)[k + 1].bad = {}
  PROVE  At(c, k + 1, Append(whole, Jobs(c)[k + 1].want), Rest(c, k + 1), <<>>)
<1> DEFINE J == Jobs(c)
           N == Len(J)
           more == [i \in 1 .. k + 1 |-> J[i].want]
<1>0. N \in Nat /\ k \in Nat /\ k + 1 \in 0 .. N
  BY JobsTyped
<1> HIDE DEF J, N
<1>1. Append(whole, J[k + 1].want) = more
  <2>1. whole = [i \in 1 .. k |-> J[i].want]
    BY DEF J
  <2> DEFINE S == {J[i].want : i \in 1 .. k + 1}
  <2>2. whole \in Seq(S) /\ Len(whole) = k /\ J[k + 1].want \in S
    BY <1>0, <2>1
  <2>3. \A i \in 1 .. k : whole[i] = J[i].want
    BY <2>1
  <2> HIDE DEF S
  <2>4. /\ Append(whole, J[k + 1].want) \in Seq(S) /\ Len(Append(whole, J[k + 1].want)) = k + 1
        /\ \A i \in 1 .. k : Append(whole, J[k + 1].want)[i] = whole[i]
        /\ Append(whole, J[k + 1].want)[k + 1] = J[k + 1].want
    BY <2>2, AppendProperties
  <2>5. \A i \in 1 .. k + 1 : i \in 1 .. k \/ i = k + 1
    BY <1>0
  <2>6. \A i \in 1 .. k + 1 : Append(whole, J[k + 1].want)[i] = J[i].want
    BY <2>3, <2>4, <2>5
  <2>7. Append(whole, J[k + 1].want) = [i \in 1 .. k + 1 |-> Append(whole, J[k + 1].want)[i]]
    <3>1. \A t \in Seq(S) : t = [i \in 1 .. Len(t) |-> t[i]]
      OBVIOUS
    <3> QED BY <2>4, <3>1
  <2> QED BY <2>6, <2>7
<1>2. \A i \in 1 .. k + 1 : J[i].bad = {}
  <2>1. \A i \in 1 .. k + 1 : i \in 1 .. k \/ i = k + 1
    BY <1>0
  <2> QED BY <2>1 DEF J
<1> QED BY <1>0, <1>1, <1>2 DEF At, J, N

\* The first of the batches left, and the others.
LEMMA RestSplits ==
  ASSUME NEW c \in CallSet, c.fn \in Converts, NEW k \in 0 .. Len(Jobs(c)), Rest(c, k) # <<>>
  PROVE  /\ k < Len(Jobs(c)) /\ Head(Rest(c, k)) = Pieces(Jobs(c)[k + 1], WidthOf(c))
         /\ Tail(Rest(c, k)) = Rest(c, k + 1)
<1> DEFINE J == Jobs(c)
           N == Len(J)
           w == WidthOf(c)
           R == Rest(c, k)
<1>0. N \in Nat /\ k \in Nat /\ k <= N
  BY JobsTyped
<1>1. R = [i \in 1 .. N - k |-> Pieces(J[k + i], w)]
  BY DEF Rest
<1> HIDE DEF R, J, N, w
<1>2. PICK S : R \in Seq(S) /\ Len(R) = N - k
  <2> DEFINE S == {R[i] : i \in 1 .. N - k}
  <2>1. PICK m \in Nat : m = N - k
    BY <1>0
  <2>2. R = [i \in 1 .. m |-> R[i]]
    BY <1>1, <2>1
  <2>3. R \in Seq(S) /\ Len(R) = m
    BY <2>1, <2>2
  <2> HIDE DEF S
  <2> QED BY <2>1, <2>3
<1>3. k < N
  <2>1. k = N => Len(R) = 0
    BY <1>0, <1>2
  <2> QED BY <1>0, <1>2, <2>1, EmptySeq DEF R
<1>4. Head(R) = Pieces(J[k + 1], w)
  BY <1>0, <1>1, <1>2, <1>3
<1>5. Tail(R) = [i \in 1 .. N - (k + 1) |-> Pieces(J[k + 1 + i], w)]
  <2>1. Tail(R) = [i \in 1 .. Len(R) - 1 |-> R[i + 1]]
    <3>1. R # <<>> /\ Len(R) \in Nat
      BY <1>2 DEF R
    <3>2. Tail(R) \in Seq(S) /\ Len(Tail(R)) = Len(R) - 1 /\ \A i \in 1 .. Len(R) - 1 : Tail(R)[i] = R[i + 1]
      BY <1>2, <3>1, HeadTailProperties
    <3>3. \A t \in Seq(S) : t = [i \in 1 .. Len(t) |-> t[i]]
      OBVIOUS
    <3>4. Tail(R) = [i \in 1 .. Len(R) - 1 |-> Tail(R)[i]]
      BY <3>2, <3>3
    <3> QED BY <3>2, <3>4
  <2>2. Len(R) - 1 = N - (k + 1)
    BY <1>0, <1>2
  <2>3. \A i \in 1 .. N - (k + 1) : i + 1 \in 1 .. N - k /\ k + (i + 1) = k + 1 + i
    BY <1>0
  <2>4. \A i \in 1 .. N - (k + 1) : R[i + 1] = Pieces(J[k + 1 + i], w)
    BY <1>1, <2>3
  <2> QED BY <2>1, <2>2, <2>4
<1> QED BY <1>3, <1>4, <1>5 DEF Rest, R, J, N, w

\* Nothing left: all batches are there.
LEMMA RestEmpty ==
  ASSUME NEW c \in CallSet, c.fn \in Converts, NEW k \in 0 .. Len(Jobs(c)), Rest(c, k) = <<>>
  PROVE  k = Len(Jobs(c))
<1> DEFINE N == Len(Jobs(c))
<1>0. N \in Nat
  BY JobsTyped
<1>1. DOMAIN Rest(c, k) = 1 .. N - k /\ DOMAIN <<>> = {}
  BY DEF Rest
<1>2. ~(k < N)
  <2>1. k < N => 1 \in 1 .. N - k
    BY <1>0
  <2> QED BY <1>1, <2>1
<1> QED BY <1>0, <1>2

\* A call that is under way, wherever in its batches.
LEMMA UnderWay ==
  ASSUME call' = call, stage' = "rust", outcome' = "running", Accepted(call),
         NEW k, At(call, k, decoded', batches', parts')
  PROVE  ConvertInv'
<1>1. \E m : At(call', m, decoded', batches', parts')
  BY Zenon
<1>2. Accepted(call') /\ stage' = "rust" /\ outcome' = "running"
  OBVIOUS
<1> QED BY <1>1, <1>2 DEF ConvertInv

\* A call that was turned down before anything was converted.
LEMMA TurnedDown ==
  ASSUME call' = call, stage' = "go", outcome' = "err", decoded' = <<>>, parts' = <<>>, ~Accepted(call)
  PROVE  ConvertInv'
BY DEF ConvertInv

\* The batches of a call that has one.
LEMMA RestOne ==
  ASSUME NEW c, NEW a, Jobs(c) = <<a>>
  PROVE  Rest(c, 0) = <<Pieces(a, WidthOf(c))>> /\ Len(Jobs(c)) = 1
<1>1. Len(Jobs(c)) = 1 /\ Jobs(c)[1] = a
  OBVIOUS
<1>2. Rest(c, 0) = [i \in 1 .. 1 |-> Pieces(Jobs(c)[0 + i], WidthOf(c))]
  BY <1>1 DEF Rest
<1>3. \A i \in 1 .. 1 : i = 1 /\ 0 + i = 1
  OBVIOUS
<1>4. Rest(c, 0) = [i \in 1 .. 1 |-> Pieces(a, WidthOf(c))]
  BY <1>1, <1>2, <1>3
<1> QED BY <1>1, <1>4

\* The batches of a call that has two, from the first and from the second.
LEMMA RestTwo ==
  ASSUME NEW c, NEW a, NEW b, Jobs(c) = <<a, b>>
  PROVE  /\ Rest(c, 0) = <<Pieces(a, WidthOf(c)), Pieces(b, WidthOf(c))>>
         /\ Rest(c, 1) = <<Pieces(b, WidthOf(c))>> /\ Len(Jobs(c)) = 2
<1> DEFINE w == WidthOf(c)
<1>1. Len(Jobs(c)) = 2 /\ Jobs(c)[1] = a /\ Jobs(c)[2] = b
  OBVIOUS
<1>2. /\ Rest(c, 0) = [i \in 1 .. 2 |-> Pieces(Jobs(c)[0 + i], w)]
      /\ Rest(c, 1) = [i \in 1 .. 1 |-> Pieces(Jobs(c)[1 + i], w)]
  BY <1>1 DEF Rest
<1> HIDE DEF w
<1>3. (\A i \in 1 .. 1 : i = 1 /\ 1 + i = 2) /\ \A i \in 1 .. 2 : (i = 1 \/ i = 2) /\ 0 + i = i
  OBVIOUS
<1>4. /\ Rest(c, 0) = [i \in 1 .. 2 |-> IF i = 1 THEN Pieces(a, w) ELSE Pieces(b, w)]
      /\ Rest(c, 1) = [i \in 1 .. 1 |-> Pieces(b, w)]
  BY <1>1, <1>2, <1>3
<1>5. \A x, y : [i \in 1 .. 2 |-> IF i = 1 THEN x ELSE y] = <<x, y>> /\ [i \in 1 .. 1 |-> y] = <<y>>
  OBVIOUS
<1> QED BY <1>1, <1>4, <1>5 DEF w

\* Nothing is there at first.
LEMMA AtStart ==
  ASSUME NEW c, Len(Jobs(c)) \in Nat
  PROVE  At(c, 0, <<>>, Rest(c, 0), <<>>)
<1>1. 0 \in 0 .. Len(Jobs(c)) /\ 1 .. 0 = {} /\ <<>> = [i \in 1 .. 0 |-> Jobs(c)[i].want]
  OBVIOUS
<1> QED BY <1>1 DEF At

\* Go's part of a call: it is turned down, or its batches are the ones to convert.
LEMMA CallStep ==
  ASSUME call \in CallSet, ConvertInv,
         Verify \/ HashVerify \/ Aggregate \/ VerifyAggregateSealProof \/ ReplicaInfoMap
  PROVE  ConvertInv'
<1>0. /\ call' = call /\ stage = "go" /\ outcome = "running" /\ parts' = parts
      /\ call.fn \in Converts
  BY DEF Verify, HashVerify, Aggregate, VerifyAggregateSealProof, ReplicaInfoMap, Goes, Pass, Refuse,
     Converts, BatchCalls
<1>1. decoded = <<>> /\ parts' = <<>>
  BY <1>0 DEF ConvertInv
<1>2. Len(Jobs(call)) \in Nat
  BY <1>0, JobsTyped
<1>3. ASSUME Verify PROVE ConvertInv'
  <2>1. /\ call.fn = "Verify" /\ call.sig \in Item /\ call.digests \in Seq(Item) /\ call.keys \in Seq(Item)
        /\ WidthOf(call) = 1 /\ Jobs(call) = <<ItemsJob(call.digests), ItemsJob(call.keys)>>
    BY <1>3, Arguments DEF Verify, Goes, WidthOf, Jobs
  <2>2. Accepted(call) <=> ~(call.sig \in Bad \/ VerifyRefuses(call.digests, call.keys))
    BY <2>1, RefusesLengths DEF Accepted
  <2>3. CASE call.sig \in Bad \/ VerifyRefuses(call.digests, call.keys)
    <3>1. outcome' = "err" /\ stage' = stage /\ decoded' = decoded
      BY <1>3, <2>3 DEF Verify, Refuse
    <3> QED BY <1>0, <1>1, <2>2, <2>3, <3>1, TurnedDown
  <2>4. CASE ~(call.sig \in Bad \/ VerifyRefuses(call.digests, call.keys))
    <3>1. /\ outcome' = "running" /\ stage' = "rust" /\ decoded' = <<>>
          /\ batches' = <<BytesBatch(call.digests, DIGEST_BYTES), BytesBatch(call.keys, PUBLIC_KEY_BYTES)>>
      BY <1>0, <1>1, <1>3, <2>4 DEF Verify, Pass
    <3>2. /\ BytesBatch(call.digests, DIGEST_BYTES) = Pieces(ItemsJob(call.digests), 1)
          /\ BytesBatch(call.keys, PUBLIC_KEY_BYTES) = Pieces(ItemsJob(call.keys), 1)
      BY <2>1, ItemPieces, ValuesAssumption
    <3>3. batches' = Rest(call, 0)
      BY <2>1, <3>1, <3>2, RestTwo
    <3>4. At(call, 0, decoded', batches', parts')
      BY <1>1, <1>2, <3>1, <3>3, AtStart
    <3> QED BY <1>0, <2>2, <2>4, <3>1, <3>4, UnderWay
  <2> QED BY <2>3, <2>4
<1>4. ASSUME HashVerify PROVE ConvertInv'
  <2> DEFINE ms == call.messages
  <2>1. /\ call.fn = "HashVerify" /\ call.sig \in Item /\ ms \in Seq(Seq(Byte)) /\ call.keys \in Seq(Item)
        /\ WidthOf(call) = 1 /\ Jobs(call) = <<Job(ms, {}, ms), ItemsJob(call.keys)>>
    BY <1>4, Arguments DEF HashVerify, Goes, WidthOf, Jobs
  <2>2. Accepted(call) <=> call.sig \notin Bad
    BY <2>1 DEF Accepted
  <2>3. CASE call.sig \in Bad
    <3>1. outcome' = "err" /\ stage' = stage /\ decoded' = decoded
      BY <1>4, <2>3 DEF HashVerify, Refuse
    <3> QED BY <1>0, <1>1, <2>2, <2>3, <3>1, TurnedDown
  <2>4. CASE call.sig \notin Bad
    <3>1. /\ Cut(FlatMessages(ms), Sizes(ms)) = ms
          /\ \A i \in 1 .. Len(Sizes(ms)) : ~(Offset(Sizes(ms))[i - 1] + Sizes(ms)[i] > Len(FlatMessages(ms)))
          /\ ~Ragged(call.keys, PUBLIC_KEY_BYTES)
      BY <2>1, CutIsInverse, FlattenLen, ValuesAssumption
    <3>2. /\ outcome' = "running" /\ stage' = "rust" /\ decoded' = <<ms>>
          /\ batches' = <<BytesBatch(call.keys, PUBLIC_KEY_BYTES)>>
      BY <1>0, <1>4, <2>4, <3>1 DEF HashVerify, Pass
    <3>3. BytesBatch(call.keys, PUBLIC_KEY_BYTES) = Pieces(ItemsJob(call.keys), 1)
      BY <2>1, ItemPieces, ValuesAssumption
    <3>4. batches' = Rest(call, 1) /\ Len(Jobs(call)) = 2
      BY <2>1, <3>2, <3>3, RestTwo
    <3>5. Jobs(call)[1].want = ms /\ Jobs(call)[1].bad = {}
      BY <2>1 DEF Job
    <3>6. <<ms>> = [i \in 1 .. 1 |-> Jobs(call)[i].want] /\ \A i \in 1 .. 1 : Jobs(call)[i].bad = {}
      <4>1. \A i \in 1 .. 1 : i = 1
        OBVIOUS
      <4>2. \A y : [i \in 1 .. 1 |-> y] = <<y>>
        OBVIOUS
      <4>3. [i \in 1 .. 1 |-> Jobs(call)[i].want] = [i \in 1 .. 1 |-> ms]
        BY <3>5, <4>1
      <4> QED BY <3>5, <4>1, <4>2, <4>3
    <3>7. At(call, 1, decoded', batches', parts')
      <4>1. 1 \in 0 .. 2
        OBVIOUS
      <4> HIDE DEF ms
      <4> QED BY <1>1, <3>2, <3>4, <3>6, <4>1 DEF At
    <3> QED BY <1>0, <2>2, <2>4, <3>2, <3>7, UnderWay
  <2> QED BY <2>3, <2>4
<1>5. ASSUME NEW a, Jobs(call) = <<a>>, Pass(<<Pieces(a, WidthOf(call))>>), decoded' = decoded, Accepted(call)
      PROVE  ConvertInv'
  <2>1. outcome' = "running" /\ stage' = "rust" /\ decoded' = <<>> /\ batches' = Rest(call, 0)
    BY <1>0, <1>1, <1>5, RestOne DEF Pass
  <2>2. At(call, 0, decoded', batches', parts')
    BY <1>1, <1>2, <2>1, AtStart
  <2> QED BY <1>0, <1>5, <2>1, <2>2, UnderWay
<1>6. ASSUME Aggregate PROVE ConvertInv'
  <2>1. /\ call.fn = "Aggregate" /\ call.signatures \in Seq(Item) /\ WidthOf(call) = 1
        /\ Jobs(call) = <<ItemsJob(call.signatures)>> /\ Accepted(call)
    BY <1>6, Arguments DEF Aggregate, Goes, WidthOf, Jobs, Accepted
  <2>2. BytesBatch(call.signatures, DIGEST_BYTES) = Pieces(ItemsJob(call.signatures), 1)
    BY <2>1, ItemPieces, ValuesAssumption
  <2> QED BY <1>5, <1>6, <2>1, <2>2 DEF Aggregate
<1>7. ASSUME VerifyAggregateSealProof PROVE ConvertInv'
  <2>1. /\ call.fn = "VerifyAggregateSeals" /\ call.inputs \in Seq(Item) /\ WidthOf(call) = 2
        /\ Jobs(call) = <<Job(call.inputs, Undecodable(call.inputs), SealInputs(call.inputs))>>
        /\ Accepted(call) <=> ~NoInfos
    BY <1>7, Arguments DEF VerifyAggregateSealProof, Goes, WidthOf, Jobs, Accepted, NoInfos
  <2>2. Batch(call.inputs, ConvertAggregationInputs) =
          Pieces(Job(call.inputs, Undecodable(call.inputs), SealInputs(call.inputs)), 2)
    BY <2>1, SealPieces
  <2>3. CASE NoInfos
    <3>1. outcome' = "err" /\ stage' = "go" /\ decoded' = <<>> /\ call' = call
      BY <1>0, <1>1, <1>7, <2>3 DEF VerifyAggregateSealProof, Refuse
    <3> QED BY <1>1, <2>1, <2>3, <3>1, TurnedDown
  <2>4. CASE ~NoInfos
    BY <1>5, <1>7, <2>1, <2>2, <2>4 DEF VerifyAggregateSealProof
  <2> QED BY <2>3, <2>4
<1>8. ASSUME ReplicaInfoMap PROVE ConvertInv'
  <2>1. /\ call.fn = "ReplicaInfoMap" /\ call.replicas \in Seq(Nat \X Item) /\ WidthOf(call) = 1
        /\ Jobs(call) = <<Job(call.replicas, {}, call.replicas)>> /\ Accepted(call)
    BY <1>8, Arguments DEF ReplicaInfoMap, Goes, WidthOf, Jobs, Accepted
  <2>2. Batch(call.replicas, ToReplicaInfo) = Pieces(Job(call.replicas, {}, call.replicas), 1)
    BY <2>1, ReplicaPieces
  <2> QED BY <1>5, <1>8, <2>1, <2>2 DEF ReplicaInfoMap
<1> QED BY <1>3, <1>4, <1>6, <1>7, <1>8

\* The pool's part: whatever it takes, converts, merges or collects.
LEMMA PoolStep ==
  ASSUME call \in CallSet, ConvertInv, call.fn \in Converts,
         TakeBatch \/ Collect \/ \E i \in 1 .. Len(parts) : ConvertPart(i) \/ MergeParts(i)
  PROVE  ConvertInv'
<1> DEFINE J == Jobs(call)
           w == WidthOf(call)
<1>0. call' = call /\ stage = "rust" /\ outcome = "running" /\ stage' = "rust"
  BY DEF TakeBatch, Collect, ConvertPart, MergeParts, Converting
<1>1. Accepted(call)
  BY <1>0 DEF ConvertInv
<1>2. PICK k : At(call, k, decoded, batches, parts)
  BY <1>0 DEF ConvertInv
<1>3. /\ k \in 0 .. Len(J) /\ decoded = [i \in 1 .. k |-> J[i].want] /\ \A i \in 1 .. k : J[i].bad = {}
      /\ Len(J) \in Nat
  BY <1>2, JobsTyped DEF At
<1>4. ASSUME k < Len(J)
      PROVE  IsJob(J[k + 1], w) /\ J[k + 1].bad \subseteq 1 .. J[k + 1].size /\ k + 1 \in 1 .. Len(J)
  <2>1. k + 1 \in 1 .. Len(J)
    BY <1>3, <1>4
  <2> QED BY <2>1, JobsTyped
<1>5. parts # <<>> => k < Len(J) /\ Parted(J[k + 1], w, parts) /\ batches = Rest(call, k + 1)
  BY <1>2 DEF At
<1> HIDE DEF J, w
<1>6. ASSUME TakeBatch PROVE ConvertInv'
  <2>1. parts = <<>> /\ batches # <<>> /\ batches = Rest(call, k) /\ outcome' = "running"
    BY <1>0, <1>2, <1>6 DEF TakeBatch, At
  <2>2. k < Len(J) /\ Head(batches) = Pieces(J[k + 1], w) /\ Tail(batches) = Rest(call, k + 1)
    BY <1>3, <2>1, RestSplits DEF J, w
  <2>3. IsJob(J[k + 1], w) /\ J[k + 1].bad \subseteq 1 .. J[k + 1].size
    BY <1>4, <2>2
  <2> DEFINE n == J[k + 1].size
             ps == [i \in 1 .. n |-> [done |-> FALSE, val |-> Pieces(J[k + 1], w)[i]]]
  <2>4. n \in Nat /\ Len(Pieces(J[k + 1], w)) = n /\ (Pieces(J[k + 1], w) = <<>> <=> n = 0)
    <3>1. n \in Nat
      BY <2>3 DEF IsJob
    <3>2. DOMAIN Pieces(J[k + 1], w) = 1 .. n
      BY DEF Pieces
    <3>3. Len(Pieces(J[k + 1], w)) = n
      BY <3>1 DEF Pieces
    <3>4. n = 0 => Pieces(J[k + 1], w) = <<>>
      BY <3>1 DEF Pieces
    <3> QED BY <3>1, <3>3, <3>4
  <2>5. /\ parts' = ps /\ batches' = Rest(call, k + 1)
        /\ decoded' = IF n = 0 THEN Append(decoded, <<>>) ELSE decoded
    <3> HIDE DEF n
    <3> QED BY <1>6, <2>2, <2>4 DEF TakeBatch
  <2>6. CASE n = 0
    <3>1. ps = <<>>
      BY <2>6
    <3>2. J[k + 1].want = <<>> /\ J[k + 1].bad = {}
      <4>1. PICK S : J[k + 1].want \in Seq(S)
        BY <2>3 DEF IsJob
      <4>2. Len(J[k + 1].want) = 0
        BY <2>3, <2>6 DEF IsJob
      <4> QED BY <2>3, <2>6, <4>1, <4>2, EmptySeq
    <3>3. At(call, k + 1, Append(decoded, J[k + 1].want), Rest(call, k + 1), <<>>)
      BY <1>3, <2>2, <3>2, OneMore DEF J
    <3>4. At(call, k + 1, decoded', batches', parts')
      <4> HIDE DEF ps, n
      <4> QED BY <2>5, <2>6, <3>1, <3>2, <3>3
    <3> QED BY <1>0, <1>1, <2>1, <3>4, UnderWay
  <2>7. CASE n # 0
    <3>1. Parted(J[k + 1], w, ps)
      BY <2>3, <2>7, PartsTaken
    <3>2. ps # <<>>
      <4>1. DOMAIN ps = 1 .. n /\ 1 \in 1 .. n /\ DOMAIN <<>> = {}
        BY <2>4, <2>7
      <4> QED BY <4>1
    <3>3. At(call, k, decoded', batches', parts')
      <4> HIDE DEF ps, n
      <4> QED BY <1>3, <2>2, <2>5, <2>7, <3>1, <3>2 DEF At, J, w
    <3> QED BY <1>0, <1>1, <2>1, <3>3, UnderWay
  <2> QED BY <2>6, <2>7
<1>7. ASSUME NEW i \in 1 .. Len(parts), ConvertPart(i) PROVE ConvertInv'
  <2>1. parts # <<>>
    <3>1. Len(<<>>) = 0 /\ 1 .. 0 = {}
      OBVIOUS
    <3> QED BY <1>7, <3>1
  <2>2. k < Len(J) /\ Parted(J[k + 1], w, parts) /\ batches = Rest(call, k + 1)
    BY <1>5, <2>1
  <2>3. CASE parts[i].val = {}
    <3>1. J[k + 1].bad # {} /\ k + 1 \in 1 .. Len(J)
      BY <1>4, <2>2, <2>3, PartsFailed
    <3>2. ~NothingBad(call)
      BY <3>1 DEF NothingBad, J
    <3>3. outcome' = "err"
      BY <1>7, <2>3 DEF ConvertPart
    <3> QED BY <1>0, <1>1, <3>2, <3>3 DEF ConvertInv
  <2>4. CASE parts[i].val # {}
    <3>1. /\ parts' = [parts EXCEPT ![i].done = TRUE] /\ outcome' = "running"
          /\ decoded' = decoded /\ batches' = batches
      BY <1>0, <1>7, <2>4 DEF ConvertPart
    <3>2. Parted(J[k + 1], w, parts') /\ parts' # <<>>
      BY <2>2, <2>4, <3>1, PartsConverted
    <3>3. At(call, k, decoded', batches', parts')
      BY <1>3, <2>2, <3>1, <3>2 DEF At, J, w
    <3> QED BY <1>0, <1>1, <3>1, <3>3, UnderWay
  <2> QED BY <2>3, <2>4
<1>8. ASSUME NEW i \in 1 .. Len(parts), MergeParts(i) PROVE ConvertInv'
  <2>1. parts # <<>>
    <3>1. Len(<<>>) = 0 /\ 1 .. 0 = {}
      OBVIOUS
    <3> QED BY <1>8, <3>1
  <2>2. k < Len(J) /\ Parted(J[k + 1], w, parts) /\ batches = Rest(call, k + 1)
    BY <1>5, <2>1
  <2>3. IsJob(J[k + 1], w)
    BY <1>4, <2>2
  <2>4. /\ i < Len(parts) /\ parts[i].done /\ parts[i + 1].done
        /\ parts' = SubSeq(parts, 1, i - 1)
                      \o <<[done |-> TRUE, val |-> Extended(parts[i].val, parts[i + 1].val)]>>
                      \o SubSeq(parts, i + 2, Len(parts))
        /\ outcome' = "running" /\ decoded' = decoded /\ batches' = batches
    BY <1>0, <1>8 DEF MergeParts, Extended
  <2>5. Parted(J[k + 1], w, parts') /\ parts' # <<>>
    BY <2>2, <2>3, <2>4, PartsMerged
  <2>6. At(call, k, decoded', batches', parts')
    BY <1>3, <2>2, <2>4, <2>5 DEF At, J, w
  <2> QED BY <1>0, <1>1, <2>4, <2>6, UnderWay
<1>9. ASSUME Collect PROVE ConvertInv'
  <2>1. parts # <<>> /\ Len(parts) = 1 /\ parts[1].done
    <3>1. Len(parts) = 1 /\ parts[1].done
      BY <1>9, Zenon DEF Collect
    <3>2. Len(<<>>) = 0
      OBVIOUS
    <3>3. parts # <<>>
      BY <3>1, <3>2
    <3> QED BY <3>1, <3>3
  <2>2. k < Len(J) /\ Parted(J[k + 1], w, parts) /\ batches = Rest(call, k + 1)
    BY <1>5, <2>1
  <2>3. parts[1].val = {J[k + 1].want} /\ J[k + 1].bad = {}
    BY <1>4, <2>1, <2>2, PartsCollected
  <2>4. (CHOOSE v \in parts[1].val : TRUE) = J[k + 1].want
    BY <2>3
  <2>5. /\ decoded' = Append(decoded, J[k + 1].want) /\ parts' = <<>>
        /\ outcome' = "running" /\ batches' = Rest(call, k + 1)
    BY <1>0, <1>9, <2>2, <2>4 DEF Collect
  <2>6. At(call, k + 1, Append(decoded, J[k + 1].want), Rest(call, k + 1), <<>>)
    BY <1>3, <2>2, <2>3, OneMore DEF J
  <2>7. At(call, k + 1, decoded', batches', parts')
    BY <2>5, <2>6
  <2> QED BY <1>0, <1>1, <2>5, <2>7, UnderWay
<1> QED BY <1>6, <1>7, <1>8, <1>9

\* The end: everything is there.
LEMMA FinishStep ==
  ASSUME call \in CallSet, ConvertInv, call.fn \in Converts, Finish
  PROVE  ConvertInv'
<1>0. /\ call' = call /\ stage = "rust" /\ outcome = "running" /\ stage' = "rust"
      /\ outcome' = IF AggregateSigFails THEN "err" ELSE "ok"
  BY DEF Finish, Converting
<1>1. Accepted(call)
  BY <1>0 DEF ConvertInv
<1>2. PICK k : At(call, k, decoded, batches, parts)
  BY <1>0 DEF ConvertInv
<1>3. /\ k \in 0 .. Len(Jobs(call)) /\ decoded = [i \in 1 .. k |-> Jobs(call)[i].want]
      /\ \A i \in 1 .. k : Jobs(call)[i].bad = {}
      /\ Rest(call, k) = <<>>
  BY <1>2 DEF At, Finish
<1>4. k = Len(Jobs(call))
  BY <1>3, RestEmpty
<1>5. NothingBad(call) <=> ~AggregateSigFails
  <2>1. ASSUME call.fn = "Aggregate" PROVE decoded[1] = call.signatures
    <3>1. Jobs(call) = <<ItemsJob(call.signatures)>>
      BY <2>1 DEF Jobs
    <3>2. Len(Jobs(call)) = 1 /\ Jobs(call)[1].want = call.signatures
      BY <3>1 DEF ItemsJob, Job
    <3> QED BY <1>3, <1>4, <3>2
  <2> QED BY <1>3, <1>4, <2>1 DEF NothingBad, AggregateSigFails
<1>6. call.fn = "ReplicaInfoMap" => decoded[1] = call.replicas
  <2>1. SUFFICES ASSUME call.fn = "ReplicaInfoMap" PROVE decoded[1] = call.replicas
    OBVIOUS
  <2>2. Jobs(call) = <<Job(call.replicas, {}, call.replicas)>>
    BY <2>1 DEF Jobs
  <2>3. Len(Jobs(call)) = 1 /\ Jobs(call)[1].want = call.replicas
    BY <2>2 DEF Job
  <2> QED BY <1>3, <1>4, <2>3
<1>7. decoded' = IF call.fn = "ReplicaInfoMap" THEN <<IntoMap(call.replicas)>>
                 ELSE [i \in 1 .. Len(Jobs(call)) |-> Jobs(call)[i].want]
  BY <1>3, <1>4, <1>6 DEF Finish
<1> QED BY <1>0, <1>1, <1>5, <1>7 DEF ConvertInv

\* The invariant holds of every call.
THEOREM ConvertInvariant == Spec => [](TypeOK /\ ConvertInv)
<1>1. Init => TypeOK /\ ConvertInv
  BY DEF Init, TypeOK, ConvertInv
<1>2. TypeOK /\ ConvertInv /\ [Next]_vars => (TypeOK /\ ConvertInv)'
  <2>1. SUFFICES ASSUME TypeOK, ConvertInv, [Next]_vars PROVE TypeOK' /\ ConvertInv'
    OBVIOUS
  <2>2. call \in CallSet
    BY <2>1 DEF TypeOK
  <2>3. CASE CreateFVM \/ ApplyMessage
    <3>1. call' = call /\ stage' = stage /\ outcome' \in {"ok", "err"} /\ call.fn \notin Converts
      BY <2>3 DEF CreateFVM, ApplyMessage, Amounts2, Converts, BatchCalls
    <3> QED BY <2>1, <3>1 DEF TypeOK, ConvertInv
  <2>4. CASE Verify \/ HashVerify \/ Aggregate \/ VerifyAggregateSealProof \/ ReplicaInfoMap
    <3>1. call' = call /\ stage' \in {stage, "rust"} /\ outcome' \in {outcome, "err", "abort"}
      BY <2>4 DEF Verify, HashVerify, Aggregate, VerifyAggregateSealProof, ReplicaInfoMap, Pass, Refuse
    <3> QED BY <2>1, <2>2, <2>4, <3>1, CallStep DEF TypeOK
  <2>5. CASE TakeBatch \/ Collect \/ Finish \/ \E i \in 1 .. Len(parts) : ConvertPart(i) \/ MergeParts(i)
    <3>1. call' = call /\ stage' = stage /\ outcome' \in {outcome, "ok", "err"}
      BY <2>5 DEF TakeBatch, Collect, Finish, ConvertPart, MergeParts
    <3>2. TypeOK'
      BY <2>1, <3>1 DEF TypeOK
    <3>3. ConvertInv'
      <4>1. CASE call.fn \in Converts
        BY <2>1, <2>2, <2>5, <4>1, PoolStep, FinishStep
      <4>2. CASE call.fn \notin Converts
        BY <3>1, <4>2 DEF ConvertInv
      <4> QED BY <4>1, <4>2
    <3> QED BY <3>2, <3>3
  <2>6. CASE UNCHANGED vars
    <3>1. call' = call /\ stage' = stage /\ batches' = batches /\ parts' = parts /\ decoded' = decoded
          /\ outcome' = outcome
      BY <2>6 DEF vars
    <3> QED BY <2>1, <3>1 DEF TypeOK, ConvertInv
  <2> QED BY <2>1, <2>3, <2>4, <2>5, <2>6 DEF Next
<1> QED BY <1>1, <1>2, PTL DEF Spec

\* Whatever the order in which rayon's threads convert and merge, and whatever the
\* widths of a digest and a key, the library gets what the caller gave, in its order.
THEOREM EveryBatchArrives == Spec => []BatchesArrive
<1>1. TypeOK /\ ConvertInv => BatchesArrive
  <2>1. SUFFICES ASSUME TypeOK, ConvertInv, call.fn \in BatchCalls, outcome = "ok" PROVE decoded = Given
    BY DEF BatchesArrive
  <2>2. decoded = [i \in 1 .. Len(Jobs(call)) |-> Jobs(call)[i].want] /\ call.fn # "ReplicaInfoMap"
    BY <2>1 DEF ConvertInv, Converts, BatchCalls
  <2>3. ASSUME NEW a, Jobs(call) = <<a>> PROVE decoded = <<a.want>>
    <3>1. Len(Jobs(call)) = 1 /\ Jobs(call)[1] = a /\ \A i \in 1 .. 1 : i = 1
      BY <2>3
    <3>2. decoded = [i \in 1 .. 1 |-> a.want]
      BY <2>2, <3>1
    <3> QED BY <3>2
  <2>4. ASSUME NEW a, NEW b, Jobs(call) = <<a, b>> PROVE decoded = <<a.want, b.want>>
    <3>1. /\ Len(Jobs(call)) = 2 /\ Jobs(call)[1] = a /\ Jobs(call)[2] = b
          /\ \A i \in 1 .. 2 : i = 1 \/ i = 2
      BY <2>4
    <3>2. decoded = [i \in 1 .. 2 |-> IF i = 1 THEN a.want ELSE b.want]
      BY <2>2, <3>1
    <3> QED BY <3>2
  <2>5. CASE call.fn = "Verify"
    <3>1. Jobs(call) = <<ItemsJob(call.digests), ItemsJob(call.keys)>>
      BY <2>5 DEF Jobs
    <3>2. decoded = <<ItemsJob(call.digests).want, ItemsJob(call.keys).want>>
      BY <2>4, <3>1
    <3> QED BY <2>5, <3>2 DEF Given, ItemsJob, Job
  <2>6. CASE call.fn = "HashVerify"
    <3>1. Jobs(call) = <<Job(call.messages, {}, call.messages), ItemsJob(call.keys)>>
      BY <2>6 DEF Jobs
    <3>2. decoded = <<Job(call.messages, {}, call.messages).want, ItemsJob(call.keys).want>>
      BY <2>4, <3>1
    <3> QED BY <2>6, <3>2 DEF Given, ItemsJob, Job
  <2>7. CASE call.fn = "Aggregate"
    <3>1. decoded = <<ItemsJob(call.signatures).want>>
      BY <2>3, <2>7 DEF Jobs
    <3> QED BY <2>7, <3>1 DEF Given, ItemsJob, Job
  <2>8. CASE call.fn = "VerifyAggregateSeals"
    <3>1. decoded = <<Job(call.inputs, Undecodable(call.inputs), SealInputs(call.inputs)).want>>
      BY <2>3, <2>8 DEF Jobs
    <3>2. decoded = <<SealInputs(call.inputs)>>
      BY <3>1 DEF Job
    <3> QED BY <2>8, <3>2 DEF Given, SealInputs
  <2> QED BY <2>1, <2>5, <2>6, <2>7, <2>8 DEF BatchCalls
<1> QED BY <1>1, ConvertInvariant, PTL

\* A call of the BLS functions and of VerifyAggregateSeals is refused just when something
\* it was given does not decode, verify was given a key too many or too few, or aggregate
\* or VerifyAggregateSeals was given nothing; all else reaches the library, and hash_verify
\* never cuts outside of its bytes.
THEOREM OnlyForCause == Spec => []RefusedForCause
<1>1. TypeOK /\ ConvertInv => RefusedForCause
  <2> DEFINE Cause == \/ Needed \cap Bad # {} \/ GivenNone
                      \/ call.fn = "Verify" /\ Len(call.digests) # Len(call.keys)
  <2>1. SUFFICES ASSUME TypeOK, ConvertInv, call.fn \in BatchCalls, outcome # "running"
                 PROVE  outcome = IF Cause THEN "err" ELSE "ok"
    BY DEF RefusedForCause
  <2>2. call.fn \in Converts /\ outcome \in {"ok", "err"}
    BY <2>1 DEF TypeOK, ConvertInv, Converts
  <2>3. ASSUME NEW items PROVE ItemsJob(items).bad = {} <=> ItemsOf(items) \cap Bad = {}
    BY DEF ItemsJob, Job, Undecodable, ItemsOf
  <2>4. (Accepted(call) /\ NothingBad(call)) <=> ~Cause
    <3>1. ASSUME NEW a, Jobs(call) = <<a>>
          PROVE  NothingBad(call) <=> a.bad = {} /\ (call.fn = "Aggregate" => call.signatures # <<>>)
      <4>1. Len(Jobs(call)) = 1 /\ Jobs(call)[1] = a /\ 1 \in 1 .. 1 /\ \A i \in 1 .. 1 : i = 1
        BY <3>1
      <4> QED BY <4>1 DEF NothingBad
    <3>2. ASSUME NEW a, NEW b, Jobs(call) = <<a, b>>, call.fn # "Aggregate"
          PROVE  NothingBad(call) <=> a.bad = {} /\ b.bad = {}
      <4>1. /\ Len(Jobs(call)) = 2 /\ Jobs(call)[1] = a /\ Jobs(call)[2] = b
            /\ 1 \in 1 .. 2 /\ 2 \in 1 .. 2 /\ \A i \in 1 .. 2 : i = 1 \/ i = 2
        BY <3>2
      <4> QED BY <3>2, <4>1 DEF NothingBad
    <3>3. CASE call.fn = "Verify"
      <4>1. Jobs(call) = <<ItemsJob(call.digests), ItemsJob(call.keys)>>
        BY <3>3 DEF Jobs
      <4>2. NothingBad(call) <=> ItemsOf(call.digests) \cap Bad = {} /\ ItemsOf(call.keys) \cap Bad = {}
        BY <2>3, <3>2, <3>3, <4>1
      <4>3. Accepted(call) <=> call.sig \notin Bad /\ Len(call.digests) = Len(call.keys)
        BY <3>3 DEF Accepted
      <4>4. Needed = {call.sig} \cup ItemsOf(call.digests) \cup ItemsOf(call.keys)
        BY <3>3 DEF Needed
      <4> QED BY <3>3, <4>2, <4>3, <4>4 DEF GivenNone
    <3>4. CASE call.fn = "HashVerify"
      <4>1. Jobs(call) = <<Job(call.messages, {}, call.messages), ItemsJob(call.keys)>>
        BY <3>4 DEF Jobs
      <4>2. Job(call.messages, {}, call.messages).bad = {}
        BY DEF Job
      <4>3. NothingBad(call) <=> ItemsOf(call.keys) \cap Bad = {}
        BY <2>3, <3>2, <3>4, <4>1, <4>2
      <4>4. Accepted(call) <=> call.sig \notin Bad
        BY <3>4 DEF Accepted
      <4>5. Needed = {call.sig} \cup ItemsOf(call.keys)
        BY <3>4 DEF Needed
      <4> QED BY <3>4, <4>3, <4>4, <4>5 DEF GivenNone
    <3>5. CASE call.fn = "Aggregate"
      <4>1. NothingBad(call) <=> ItemsOf(call.signatures) \cap Bad = {} /\ call.signatures # <<>>
        BY <2>3, <3>1, <3>5 DEF Jobs
      <4> QED BY <3>5, <4>1 DEF Accepted, Needed, GivenNone
    <3>6. CASE call.fn = "VerifyAggregateSeals"
      <4>1. Jobs(call) = <<Job(call.inputs, Undecodable(call.inputs), SealInputs(call.inputs))>>
        BY <3>6 DEF Jobs
      <4>2. Job(call.inputs, Undecodable(call.inputs), SealInputs(call.inputs)).bad = ItemsJob(call.inputs).bad
        BY DEF Job, ItemsJob
      <4>3. NothingBad(call) <=> ItemsOf(call.inputs) \cap Bad = {}
        BY <2>3, <3>1, <3>6, <4>1, <4>2
      <4> QED BY <3>6, <4>3 DEF Accepted, Needed, GivenNone
    <3> QED BY <2>1, <3>3, <3>4, <3>5, <3>6 DEF BatchCalls
  <2>5. outcome = "ok" => Accepted(call) /\ NothingBad(call)
    BY <2>2, <2>1 DEF ConvertInv
  <2>6. outcome = "err" => ~(Accepted(call) /\ NothingBad(call))
    BY <2>2, <2>1 DEF ConvertInv
  <2> QED BY <2>2, <2>4, <2>5, <2>6
<1> QED BY <1>1, ConvertInvariant, PTL

\* to_public_replica_info_map and to_private_replica_info_map: every sector of a PoSt
\* is in the map with the last replica given for it, whatever the threads did.
THEOREM LastReplicaKept == Spec => []LastReplicaWins
<1>1. TypeOK /\ ConvertInv => LastReplicaWins
  <2>1. SUFFICES ASSUME TypeOK, ConvertInv, call.fn = "ReplicaInfoMap", outcome = "ok"
                 PROVE  LastOf(call.replicas, Len(call.replicas), decoded[1])
    BY DEF LastReplicaWins, LastOf
  <2>2. decoded = <<IntoMap(call.replicas)>>
    BY <2>1 DEF ConvertInv, Converts
  <2>3. call.replicas \in Seq(Nat \X Item)
    BY <2>1, Arguments DEF TypeOK
  <2>4. LastOf(call.replicas, Len(call.replicas), IntoMap(call.replicas))
    BY <2>3, MapHasLast
  <2> QED BY <2>2, <2>4
<1> QED BY <1>1, ConvertInvariant, PTL
=============================================================================
