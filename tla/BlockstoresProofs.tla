------------------------- MODULE BlockstoresProofs -------------------------
(***************************************************************************)
(* What holds of Blockstores for any number of FVMs, any blocks and any    *)
(* two bundles without a repeated CID.                                     *)
(***************************************************************************)
EXTENDS Blockstores, TLAPS

\* The blocks an FVM has in memory, in whichever store they are.
Held(f) == IF phase[f] = "import" THEN fake[f] ELSE over[f]

\* A block that was put is where the test sent it, and a good one is not in memory too.
WasPut(f, i) ==
  IF IsFake(car[f][i][1], car[f][i][2])
  THEN Held(f)[car[f][i][1]] = car[f][i][2]
  ELSE base[car[f][i][1]] = car[f][i][2] /\ Held(f)[car[f][i][1]] = NoBlock

\* What an FVM holds is a fake block of its bundle, among those it has put.
OwnFakes(f) ==
  \A c \in Cid : Held(f)[c] # NoBlock => \E i \in 1 .. pos[f] : car[f][i] = <<c, Held(f)[c]>>

\* Where the creation of an FVM stands.
Progress(f) ==
  /\ phase[f] \in {"none", "import"} => over[f] = Empty
  /\ phase[f] = "none" => pos[f] = 0 /\ fake[f] = Empty
  /\ phase[f] = "gone" => over[f] = Empty
  /\ phase[f] \in {"overlay", "ready"} => pos[f] = Len(car[f])

FvmInv(f) ==
  /\ Progress(f)
  /\ OwnFakes(f)
  /\ phase[f] \in {"import", "overlay", "ready"} => \A i \in 1 .. pos[f] : WasPut(f, i)

StoreInv == TypeOK /\ BaseIsHonest /\ \A f \in Fvm : FvmInv(f)

\* The bundles are sequences of entries, and so is no bundle.
LEMMA CarType ==
  ASSUME NEW b \in {<<>>, CarV14, CarV15}
  PROVE  b \in Seq(Entry)
<1>1. <<>> \in Seq(Entry)
  OBVIOUS
<1>2. CarV14 \in Seq(Entry) /\ CarV15 \in Seq(Entry)
  BY StoreAssumption
<1> QED BY <1>1, <1>2

\* The i-th entry of a bundle is a CID and a block.
LEMMA EntryType ==
  ASSUME TypeOK, NEW f \in Fvm, NEW i \in 1 .. Len(car[f])
  PROVE  car[f][i][1] \in Cid /\ car[f][i][2] \in Block /\ car[f][i] = <<car[f][i][1], car[f][i][2]>>
<1>1. car[f] \in Seq(Entry)
  BY CarType DEF TypeOK
<1>2. car[f][i] \in Cid \X Block
  BY <1>1 DEF Entry
<1> QED BY <1>2

\* No CID is twice in a bundle.
LEMMA EntryUnique ==
  ASSUME TypeOK, NEW f \in Fvm, NEW i \in 1 .. Len(car[f]), NEW j \in 1 .. Len(car[f]),
         car[f][i][1] = car[f][j][1]
  PROVE  i = j
<1>1. CASE car[f] = <<>>
  BY <1>1
<1>2. CASE car[f] \in {CarV14, CarV15}
  BY <1>2, StoreAssumption
<1> QED BY <1>1, <1>2 DEF TypeOK

\* At first there is nothing in any store.
LEMMA InitStore == Init => StoreInv
BY StoreAssumption
   DEF Init, StoreInv, TypeOK, Store, Empty, BaseIsHonest, FvmInv, Progress, OwnFakes, Held, WasPut

\* Only the Go store grows, with right blocks: the FVMs keep what they have.
LEMMA BaseGrows ==
  ASSUME StoreInv, UNCHANGED <<phase, car, pos, fake, over>>,
         \E c \in Cid : Digest[c] # NoBlock /\ base' = [base EXCEPT ![c] = Digest[c]]
  PROVE  StoreInv'
<1>1. PICK c \in Cid : Digest[c] # NoBlock /\ base' = [base EXCEPT ![c] = Digest[c]]
  OBVIOUS
<1>2. TypeOK'
  BY <1>1, StoreAssumption DEF StoreInv, TypeOK, Store
<1>3. BaseIsHonest'
  BY <1>1 DEF StoreInv, TypeOK, Store, BaseIsHonest
<1>4. \A x \in Cid : base[x] # NoBlock => base'[x] = base[x]
  BY <1>1 DEF StoreInv, TypeOK, Store, BaseIsHonest
<1>5. ASSUME NEW f \in Fvm PROVE FvmInv(f)'
  <2>1. Progress(f)' /\ OwnFakes(f)'
    BY DEF StoreInv, FvmInv, Progress, OwnFakes, Held
  <2>2. ASSUME phase[f] \in {"import", "overlay", "ready"}, NEW i \in 1 .. pos[f] PROVE WasPut(f, i)'
    <3>1. WasPut(f, i) /\ i \in 1 .. Len(car[f])
      BY <2>2 DEF StoreInv, FvmInv, TypeOK
    <3>2. car[f][i][1] \in Cid /\ car[f][i][2] \in Block
      BY <3>1, EntryType DEF StoreInv
    <3> QED BY <3>1, <3>2, <1>4, StoreAssumption DEF WasPut, Held, IsFake
  <2> QED BY <2>1, <2>2 DEF FvmInv
<1> QED BY <1>2, <1>3, <1>5 DEF StoreInv

\* A step of one FVM that leaves the Go store alone leaves the others as they were.
LEMMA OthersUntouched ==
  ASSUME StoreInv, NEW f \in Fvm, NEW g \in Fvm \ {f},
         phase'[g] = phase[g], car'[g] = car[g], pos'[g] = pos[g], fake'[g] = fake[g], over'[g] = over[g],
         \A x \in Cid : base[x] # NoBlock => base'[x] = base[x]
  PROVE  FvmInv(g)'
<1>1. Progress(g)'
  BY DEF StoreInv, FvmInv, Progress
<1>2. OwnFakes(g)'
  <2>1. OwnFakes(g) /\ Held(g)' = Held(g)
    BY DEF StoreInv, FvmInv, Held
  <2> QED BY <2>1 DEF OwnFakes
<1>3. ASSUME phase[g] \in {"import", "overlay", "ready"}, NEW i \in 1 .. pos[g] PROVE WasPut(g, i)'
  <2>1. WasPut(g, i) /\ i \in 1 .. Len(car[g])
    BY <1>3 DEF StoreInv, FvmInv, TypeOK
  <2>2. car[g][i][1] \in Cid /\ car[g][i][2] \in Block
    BY <2>1, EntryType DEF StoreInv
  <2> QED BY <2>1, <2>2, StoreAssumption DEF WasPut, Held, IsFake
<1> QED BY <1>1, <1>2, <1>3 DEF FvmInv

\* The import starts with nothing put.
LEMMA ImportStore ==
  ASSUME StoreInv, NEW f \in Fvm, ImportActors(f)
  PROVE  StoreInv'
<1> USE DEF ImportActors, StoreInv
<1>1. TypeOK'
  <2>1. /\ base' \in Store /\ pos' \in [Fvm -> Nat] /\ fake' \in [Fvm -> Store] /\ over' \in [Fvm -> Store]
        /\ phase' \in [Fvm -> {"none", "import", "overlay", "ready", "gone"}]
        /\ car' \in [Fvm -> {<<>>, CarV14, CarV15}]
    BY DEF TypeOK
  <2>2. pos[f] = 0 /\ car'[f] \in Seq(Entry)
    BY <2>1, CarType DEF FvmInv, Progress
  <2>3. \A g \in Fvm \ {f} : car'[g] = car[g]
    BY DEF TypeOK
  <2> QED BY <2>1, <2>2, <2>3 DEF TypeOK
<1>2. BaseIsHonest'
  BY DEF BaseIsHonest
<1>3. ASSUME NEW g \in Fvm \ {f} PROVE FvmInv(g)'
  BY <1>3, OthersUntouched DEF TypeOK
<1>4. FvmInv(f)'
  <2>1. phase[f] = "none" /\ pos[f] = 0 /\ over[f] = Empty /\ phase'[f] \in {"import", "gone"}
    BY DEF TypeOK, FvmInv, Progress
  <2>2. fake[f] = Empty
    BY <2>1 DEF FvmInv, Progress
  <2> QED BY <2>1, <2>2 DEF FvmInv, Progress, OwnFakes, Held, TypeOK, Empty
<1> QED BY <1>1, <1>2, <1>3, <1>4

\* A put adds the next entry of the bundle and disturbs none of the earlier ones.
LEMMA PutStore ==
  ASSUME StoreInv, NEW f \in Fvm, PutKeyed(f)
  PROVE  StoreInv' /\ \A x \in Cid : base[x] # NoBlock => base'[x] = base[x]
<1> DEFINE n == pos[f] + 1
           c == car[f][n][1]
           b == car[f][n][2]
<1>1. n \in 1 .. Len(car[f]) /\ pos[f] \in Nat /\ Len(car[f]) \in Nat
  <2>1. car[f] \in Seq(Entry)
    BY CarType DEF StoreInv, TypeOK
  <2> QED BY <2>1 DEF PutKeyed, StoreInv, TypeOK
<1>2. c \in Cid /\ b \in Block /\ car[f][n] = <<c, b>>
  BY <1>1, EntryType DEF StoreInv
<1>3. /\ phase[f] = "import" /\ UNCHANGED <<phase, car, over>>
      /\ pos' = [pos EXCEPT ![f] = n]
      /\ \/ ~IsFake(c, b) /\ base' = [base EXCEPT ![c] = b] /\ UNCHANGED fake
         \/ IsFake(c, b) /\ fake' = [fake EXCEPT ![f][c] = b] /\ UNCHANGED base
  BY DEF PutKeyed
<1> HIDE DEF n, c, b
<1>4. TypeOK'
  <2>1. base' \in Store
    BY <1>2, <1>3 DEF StoreInv, TypeOK, Store
  <2>2. [fake[f] EXCEPT ![c] = b] \in Store
    BY <1>2 DEF StoreInv, TypeOK, Store
  <2>3. fake' \in [Fvm -> Store]
    BY <1>3, <2>2 DEF StoreInv, TypeOK
  <2>4. pos' \in [Fvm -> Nat] /\ \A g \in Fvm : pos'[g] \in 0 .. Len(car[g])
    BY <1>1, <1>3 DEF StoreInv, TypeOK
  <2> QED BY <1>3, <2>1, <2>3, <2>4 DEF StoreInv, TypeOK
<1>5. BaseIsHonest' /\ \A x \in Cid : base[x] # NoBlock => base'[x] = base[x]
  BY <1>2, <1>3 DEF StoreInv, TypeOK, Store, BaseIsHonest, IsFake
<1>6. ASSUME NEW g \in Fvm \ {f} PROVE FvmInv(g)'
  BY <1>3, <1>5, <1>6, OthersUntouched DEF StoreInv, TypeOK
<1>7. FvmInv(f)'
  <2>1. /\ Held(f) = fake[f] /\ Held(f)' = fake'[f] /\ car'[f] = car[f]
        /\ pos'[f] = n /\ fake[f] \in Store /\ fake'[f] \in Store
    BY <1>3, <1>4 DEF Held, StoreInv, TypeOK
  <2>2. \A x \in Cid \ {c} : fake'[f][x] = fake[f][x]
    BY <1>3 DEF StoreInv, TypeOK, Store
  <2>3. Progress(f)'
    BY <1>3 DEF StoreInv, FvmInv, Progress, TypeOK
  <2>4. ASSUME NEW i \in 1 .. pos[f] PROVE i \in 1 .. Len(car[f]) /\ car[f][i][1] \in Cid \ {c}
    <3>1. i \in 1 .. Len(car[f]) /\ i # n
      BY <1>1 DEF n, StoreInv, TypeOK
    <3>2. car[f][i][1] # c
      BY <1>1, <3>1, EntryUnique DEF c, StoreInv
    <3> QED BY <3>1, <3>2, EntryType DEF StoreInv
  <2>5. fake[f][c] = NoBlock
    <3>1. SUFFICES ASSUME fake[f][c] # NoBlock PROVE FALSE
      OBVIOUS
    <3>2. PICK i \in 1 .. pos[f] : car[f][i] = <<c, fake[f][c]>>
      BY <1>2, <2>1, <3>1 DEF StoreInv, FvmInv, OwnFakes
    <3> QED BY <2>4, <3>2
  <2>6. OwnFakes(f)'
    <3>1. SUFFICES ASSUME NEW x \in Cid, fake'[f][x] # NoBlock
                   PROVE  \E i \in 1 .. n : car[f][i] = <<x, fake'[f][x]>>
      BY <2>1 DEF OwnFakes
    <3>2. CASE x = c
      <4>1. fake'[f][c] = b
        BY <1>2, <1>3, <2>5, <3>1, <3>2 DEF StoreInv, TypeOK, Store
      <4> QED BY <1>1, <1>2, <3>2, <4>1
    <3>3. CASE x # c
      <4>1. PICK i \in 1 .. pos[f] : car[f][i] = <<x, fake[f][x]>>
        BY <2>1, <2>2, <3>1, <3>3 DEF StoreInv, FvmInv, OwnFakes
      <4>2. i \in 1 .. n
        BY <1>1 DEF n
      <4> QED BY <2>2, <3>3, <4>1, <4>2
    <3> QED BY <3>2, <3>3
  <2>7. ASSUME NEW i \in 1 .. n PROVE WasPut(f, i)'
    <3>1. CASE i = n
      BY <1>2, <1>3, <2>1, <2>5, <3>1 DEF WasPut, IsFake, StoreInv, TypeOK, Store, b, c
    <3>2. CASE i # n
      <4>1. i \in 1 .. pos[f]
        BY <1>1, <3>2 DEF n
      <4>2. WasPut(f, i) /\ car[f][i][1] \in Cid \ {c} /\ car[f][i][2] \in Block
        BY <1>3, <2>4, <4>1, EntryType DEF StoreInv, FvmInv
      <4> QED BY <1>5, <2>1, <2>2, <4>2, StoreAssumption DEF WasPut, IsFake
    <3> QED BY <3>1, <3>2
  <2> QED BY <1>3, <2>1, <2>3, <2>6, <2>7 DEF FvmInv
<1> QED BY <1>4, <1>5, <1>6, <1>7 DEF StoreInv

\* A creation that fails, and a machine that is dropped, leave nothing behind in memory.
LEMMA DiscardStore ==
  ASSUME StoreInv, NEW f \in Fvm, Discard(f)
  PROVE  StoreInv'
<1> USE DEF Discard, StoreInv
<1>1. TypeOK' /\ BaseIsHonest'
  BY DEF TypeOK, BaseIsHonest, Store, Empty
<1>2. ASSUME NEW g \in Fvm \ {f} PROVE FvmInv(g)'
  BY <1>2, OthersUntouched DEF TypeOK
<1>3. FvmInv(f)'
  <2>1. phase'[f] = "gone" /\ over'[f] = Empty
    BY DEF TypeOK
  <2> QED BY <2>1 DEF FvmInv, Progress, OwnFakes, Held, Empty
<1> QED BY <1>1, <1>2, <1>3

\* finish() keeps every block, and so does the constructor of the machine.
LEMMA FinishStore ==
  ASSUME StoreInv, NEW f \in Fvm, Finish(f) \/ NewMachine(f)
  PROVE  StoreInv'
<1> USE DEF Finish, NewMachine, StoreInv
<1>1. TypeOK' /\ BaseIsHonest'
  <2>1. /\ phase' \in [Fvm -> {"none", "import", "overlay", "ready", "gone"}]
        /\ over' \in [Fvm -> Store] /\ UNCHANGED <<base, car, pos>>
    BY DEF TypeOK
  <2>2. Empty \in Store
    BY DEF Empty, Store
  <2>3. fake' \in [Fvm -> Store]
    BY <2>2 DEF TypeOK
  <2> QED BY <2>1, <2>3 DEF TypeOK, BaseIsHonest
<1>2. ASSUME NEW g \in Fvm \ {f} PROVE FvmInv(g)'
  BY <1>2, OthersUntouched DEF TypeOK
<1>3. FvmInv(f)'
  <2>1. /\ Held(f)' = Held(f) /\ car'[f] = car[f] /\ pos'[f] = pos[f] /\ base' = base
        /\ phase[f] \in {"import", "overlay"} /\ phase'[f] \in {"overlay", "ready"}
        /\ pos[f] = Len(car[f])
    BY DEF Held, TypeOK, FvmInv, Progress
  <2>2. \A i : WasPut(f, i) => WasPut(f, i)'
    BY <2>1 DEF WasPut, IsFake
  <2>3. Progress(f)' /\ OwnFakes(f)'
    BY <2>1 DEF FvmInv, Progress, OwnFakes
  <2> QED BY <2>1, <2>2, <2>3 DEF FvmInv
<1> QED BY <1>1, <1>2, <1>3

\* The invariant is inductive.
LEMMA NextStore == StoreInv /\ [Next]_vars => StoreInv'
<1> SUFFICES ASSUME StoreInv, [Next]_vars PROVE StoreInv'
  OBVIOUS
<1>1. CASE NodePut
  BY <1>1, BaseGrows DEF NodePut
<1>2. ASSUME NEW f \in Fvm, Step(f) PROVE StoreInv'
  <2>1. CASE OverlayPut(f)
    BY <2>1, BaseGrows DEF OverlayPut
  <2>2. CASE PutFails(f) \/ DropMachine(f)
    BY <2>2, DiscardStore DEF PutFails, DropMachine
  <2> QED BY <1>2, <2>1, <2>2, ImportStore, PutStore, FinishStore DEF Step
<1>3. CASE UNCHANGED vars
  <2> USE <1>3 DEF vars
  <2>1. TypeOK' /\ BaseIsHonest'
    BY DEF StoreInv, TypeOK, BaseIsHonest
  <2>2. ASSUME NEW f \in Fvm PROVE FvmInv(f)'
    BY DEF StoreInv, FvmInv, Progress, OwnFakes, WasPut, Held, IsFake
  <2> QED BY <2>1, <2>2 DEF StoreInv
<1> QED BY <1>1, <1>2, <1>3 DEF Next

\* The invariant holds for ever.
LEMMA StoreInvariant == Spec => []StoreInv
BY InitStore, NextStore, PTL DEF Spec

\* The stores are maps from CIDs to blocks, and no FVM puts more than its bundle.
THEOREM StoreTypes == Spec => []TypeOK
<1>1. StoreInv => TypeOK
  BY DEF StoreInv
<1> QED BY <1>1, StoreInvariant, PTL

\* FakeBlockstore lets no block with a wrong CID into the Go store.
THEOREM HonestBase == Spec => []BaseIsHonest
<1>1. StoreInv => BaseIsHonest
  BY DEF StoreInv
<1> QED BY <1>1, StoreInvariant, PTL

\* After finish() every block of the bundle is read as it was imported.
THEOREM BundleKept == Spec => []BundleVisible
<1>1. ASSUME StoreInv, NEW f \in Fvm, phase[f] \in {"overlay", "ready"}, NEW i \in 1 .. Len(car[f])
      PROVE  OverlayHas(f, car[f][i][1]) /\ Get(f, car[f][i][1]) = car[f][i][2]
  <2>1. WasPut(f, i) /\ Held(f) = over[f]
    BY <1>1 DEF StoreInv, FvmInv, Progress, Held
  <2>2. car[f][i][2] # NoBlock
    BY <1>1, EntryType, StoreAssumption DEF StoreInv
  <2> QED BY <1>1, <2>1, <2>2 DEF WasPut, OverlayHas, Get, OverlayGet
<1>2. StoreInv => BundleVisible
  BY <1>1 DEF BundleVisible
<1> QED BY <1>2, StoreInvariant, PTL

\* The fake blocks of one FVM are not read by another.
THEOREM FakesAreOwn == Spec => []NoForeignFakes
<1>1. ASSUME StoreInv, NEW f \in Fvm, NEW c \in Cid, Get(f, c) \notin {NoBlock, Digest[c]}
      PROVE  \E i \in 1 .. Len(car[f]) : car[f][i] = <<c, Get(f, c)>>
  <2>1. Get(f, c) = Held(f)[c] /\ Held(f)[c] # NoBlock
    BY <1>1 DEF Get, FakeGet, OverlayGet, Held, StoreInv, BaseIsHonest
  <2>2. PICK i \in 1 .. pos[f] : car[f][i] = <<c, Held(f)[c]>>
    BY <1>1, <2>1 DEF StoreInv, FvmInv, OwnFakes
  <2>3. i \in 1 .. Len(car[f])
    <3>1. car[f] \in Seq(Entry)
      BY <1>1, CarType DEF StoreInv, TypeOK
    <3> QED BY <1>1, <3>1 DEF StoreInv, TypeOK
  <2> QED BY <2>1, <2>2, <2>3
<1>2. StoreInv => NoForeignFakes
  BY <1>1 DEF NoForeignFakes
<1> QED BY <1>2, StoreInvariant, PTL

\* A block, once read, is read again as it was.
THEOREM ReadsAreStable == Spec => StableReads
<1>1. ASSUME StoreInv, StoreInv', [Next]_vars, NEW f \in Fvm, NEW c \in Cid,
             Get(f, c) # NoBlock, phase'[f] \in {"overlay", "ready"}
      PROVE  Get(f, c)' = Get(f, c)
  <2>1. base[c] # NoBlock => base'[c] = base[c]
    <3>1. CASE \E g \in Fvm : PutKeyed(g)
      BY <1>1, <3>1, PutStore
    <3>2. CASE ~\E g \in Fvm : PutKeyed(g)
      BY <1>1, <3>2 DEF Next, Step, NodePut, OverlayPut, ImportActors, PutFails, Finish, NewMachine, DropMachine,
                        Discard, vars, StoreInv, BaseIsHonest, TypeOK, Store
    <3> QED BY <3>1, <3>2
  <2>2. Held(f)' = Held(f)
    <3>1. CASE Finish(f)
      BY <1>1, <3>1 DEF Finish, Held, StoreInv, TypeOK
    <3>2. CASE NewMachine(f) \/ OverlayPut(f) \/ NodePut \/ UNCHANGED vars
      BY <1>1, <3>2 DEF NewMachine, OverlayPut, NodePut, vars, Held, StoreInv, TypeOK
    <3>3. CASE ImportActors(f) \/ PutKeyed(f) \/ PutFails(f) \/ DropMachine(f)
      BY <1>1, <3>3 DEF ImportActors, PutKeyed, PutFails, DropMachine, Discard, StoreInv, TypeOK
    <3>4. ASSUME NEW g \in Fvm \ {f}, Step(g) PROVE Held(f)' = Held(f)
      <4>1. phase'[f] = phase[f] /\ fake'[f] = fake[f] /\ over'[f] = over[f]
        BY <1>1, <3>4 DEF Step, ImportActors, PutKeyed, PutFails, Finish, NewMachine, DropMachine, OverlayPut,
                          Discard, StoreInv, TypeOK
      <4> QED BY <4>1 DEF Held
    <3> QED BY <1>1, <3>1, <3>2, <3>3, <3>4 DEF Next, Step
  <2>3. Get(f, c) = IF Held(f)[c] # NoBlock THEN Held(f)[c] ELSE base[c]
    BY DEF Get, FakeGet, OverlayGet, Held
  <2>4. Get(f, c)' = IF Held(f)'[c] # NoBlock THEN Held(f)'[c] ELSE base'[c]
    BY DEF Get, FakeGet, OverlayGet, Held
  <2> QED BY <1>1, <2>1, <2>2, <2>3, <2>4
<1>2. StoreInv /\ StoreInv' /\ [Next]_vars => [StableStep]_vars
  BY <1>1 DEF StableStep
<1> QED BY <1>2, StoreInvariant, PTL DEF Spec, StableReads
=============================================================================
