---------------------------- MODULE Blockstores ----------------------------
(***************************************************************************)
(* The blockstores in front of the Go store.  While create_fvm_machine     *)
(* imports the bundle of builtin actors (import_actors), an FVM has a      *)
(* FakeBlockstore: a block whose CID is not its digest stays in memory,    *)
(* every other one goes to the Go store.  finish() turns it into an        *)
(* OverlayBlockstore, which only reads the blocks in memory.  Several FVMs *)
(* share the Go store, and the node writes to it as well.                  *)
(***************************************************************************)
EXTENDS Naturals, Sequences

CONSTANTS
  Fvm,
  Cid,
  Block,
  NoBlock,   \* there is no block
  Digest,    \* the block a CID is the digest of; NoBlock if its hash is not supported
  CarV14,    \* the two bundles, sequences of a CID and a block
  CarV15

Entry == Cid \X Block

ASSUME StoreAssumption ==
  /\ NoBlock \notin Block
  /\ Digest \in [Cid -> Block \cup {NoBlock}]
  /\ \A car \in {CarV14, CarV15} :
       /\ car \in Seq(Entry)
       /\ \A i, j \in 1 .. Len(car) : car[i][1] = car[j][1] => i = j

VARIABLES
  base,    \* the Go store
  phase,   \* how far the creation of each FVM is
  car,     \* the bundle it imports
  pos,     \* how many blocks of it were put
  fake,    \* fake_blocks of the FakeBlockstore
  over     \* over of the OverlayBlockstore

vars == <<base, phase, car, pos, fake, over>>

Store == [Cid -> Block \cup {NoBlock}]
Empty == [c \in Cid |-> NoBlock]

TypeOK ==
  /\ base \in Store
  /\ phase \in [Fvm -> {"none", "import", "overlay", "ready", "gone"}]
  /\ car \in [Fvm -> {<<>>, CarV14, CarV15}]
  /\ \A f \in Fvm : pos[f] \in 0 .. Len(car[f])
  /\ pos \in [Fvm -> Nat]
  /\ fake \in [Fvm -> Store]
  /\ over \in [Fvm -> Store]

\* FakeBlockstore::new: nothing in memory.  The Go store starts empty.
Init ==
  /\ base = Empty
  /\ phase = [f \in Fvm |-> "none"]
  /\ car = [f \in Fvm |-> <<>>]
  /\ pos = [f \in Fvm |-> 0]
  /\ fake = [f \in Fvm |-> Empty]
  /\ over = [f \in Fvm |-> Empty]

-----------------------------------------------------------------------------
(* Reads *)

\* A slip: the base is asked first.
FakeGetBaseFirst(f, c) == IF base[c] # NoBlock THEN base[c] ELSE fake[f][c]

FakeGet(f, c) == IF fake[f][c] # NoBlock THEN fake[f][c] ELSE base[c]

OverlayGet(f, c) == IF over[f][c] # NoBlock THEN over[f][c] ELSE base[c]

OverlayHas(f, c) == over[f][c] # NoBlock \/ base[c] # NoBlock

\* What the FVM reads.
Get(f, c) == IF phase[f] = "import" THEN FakeGet(f, c) ELSE OverlayGet(f, c)

-----------------------------------------------------------------------------
(* The creation *)

\* A slip: a creation that failed is taken up where it stopped.
ImportActorsResumes(f) ==
  /\ phase[f] \in {"none", "gone"}
  /\ phase' = [phase EXCEPT ![f] = "import"]
  /\ \E b \in {<<>>, CarV14, CarV15} : car' = [car EXCEPT ![f] = b]
  /\ UNCHANGED <<base, pos, fake, over>>

\* import_actors looks for a bundle: none when a manifest was given or with network
\* version 16, and no FVM at all for the versions it does not know.
ImportActors(f) ==
  /\ phase[f] = "none"
  /\ \/ /\ phase' = [phase EXCEPT ![f] = "import"]
        /\ \E b \in {<<>>, CarV14, CarV15} : car' = [car EXCEPT ![f] = b]
     \/ /\ phase' = [phase EXCEPT ![f] = "gone"]
        /\ UNCHANGED car
  /\ UNCHANGED <<base, pos, fake, over>>

\* FakeBlockstore::put_keyed's test.
IsFake(c, b) == Digest[c] # b

\* A slip: every block of the bundle goes to the Go store.
PutKeyedAllToBase(f) ==
  /\ phase[f] = "import" /\ pos[f] < Len(car[f])
  /\ LET c == car[f][pos[f] + 1][1]
         b == car[f][pos[f] + 1][2]
     IN base' = [base EXCEPT ![c] = b]
  /\ pos' = [pos EXCEPT ![f] = @ + 1]
  /\ UNCHANGED <<phase, car, fake, over>>

\* A slip: a block is not kept in memory when the Go store has one for its CID.
PutKeyedUnlessKnown(f) ==
  /\ phase[f] = "import" /\ pos[f] < Len(car[f])
  /\ LET c == car[f][pos[f] + 1][1]
         b == car[f][pos[f] + 1][2]
     IN  IF ~IsFake(c, b)
         THEN base' = [base EXCEPT ![c] = b] /\ UNCHANGED fake
         ELSE /\ fake' = [fake EXCEPT ![f][c] = IF base[c] = NoBlock THEN b ELSE @]
              /\ UNCHANGED base
  /\ pos' = [pos EXCEPT ![f] = @ + 1]
  /\ UNCHANGED <<phase, car, over>>

\* A slip: the fake blocks are kept in one map for all FVMs.
PutKeyedShared(f) ==
  /\ phase[f] = "import" /\ pos[f] < Len(car[f])
  /\ LET c == car[f][pos[f] + 1][1]
         b == car[f][pos[f] + 1][2]
     IN  IF ~IsFake(c, b)
         THEN base' = [base EXCEPT ![c] = b] /\ UNCHANGED fake
         ELSE fake' = [g \in Fvm |-> [fake[g] EXCEPT ![c] = b]] /\ UNCHANGED base
  /\ pos' = [pos EXCEPT ![f] = @ + 1]
  /\ UNCHANGED <<phase, car, over>>

\* load_car, put_many_keyed: the next block of the bundle is put, one call after another.
PutKeyed(f) ==
  /\ phase[f] = "import" /\ pos[f] < Len(car[f])
  /\ LET c == car[f][pos[f] + 1][1]
         b == car[f][pos[f] + 1][2]
     IN  IF ~IsFake(c, b)
         THEN base' = [base EXCEPT ![c] = b] /\ UNCHANGED fake
         ELSE fake' = [fake EXCEPT ![f][c] = b] /\ UNCHANGED base
  /\ pos' = [pos EXCEPT ![f] = @ + 1]
  /\ UNCHANGED <<phase, car, over>>

\* The blockstore, with what it has in memory, is dropped.
Discard(f) ==
  /\ phase' = [phase EXCEPT ![f] = "gone"]
  /\ fake' = [fake EXCEPT ![f] = Empty]
  /\ over' = [over EXCEPT ![f] = Empty]
  /\ UNCHANGED <<base, car, pos>>

\* Go refuses a block, put_many_keyed returns its error and load_car's unwrap panics.
PutFails(f) ==
  /\ phase[f] = "import" /\ pos[f] < Len(car[f])
  /\ ~IsFake(car[f][pos[f] + 1][1], car[f][pos[f] + 1][2])
  /\ Discard(f)

\* finish(): the blocks in memory become the overlay.
Finish(f) ==
  /\ phase[f] = "import" /\ pos[f] = Len(car[f])
  /\ phase' = [phase EXCEPT ![f] = "overlay"]
  /\ over' = [over EXCEPT ![f] = fake[f]]
  /\ fake' = [fake EXCEPT ![f] = Empty]
  /\ UNCHANGED <<base, car, pos>>

\* DefaultMachine::new reads the state and the actors through the overlay.
NewMachine(f) ==
  /\ phase[f] = "overlay"
  /\ phase' = [phase EXCEPT ![f] = "ready"]
  /\ UNCHANGED <<base, car, pos, fake, over>>

\* It fails; or the machine is dropped.
DropMachine(f) == phase[f] \in {"overlay", "ready"} /\ Discard(f)

\* OverlayBlockstore::put, put_keyed, put_many, put_many_keyed: to the Go store.  The
\* FVM gives a block the CID it has computed from it.
OverlayPut(f) ==
  /\ phase[f] = "ready"
  /\ \E c \in Cid : /\ Digest[c] # NoBlock
                    /\ base' = [base EXCEPT ![c] = Digest[c]]
  /\ UNCHANGED <<phase, car, pos, fake, over>>

\* The node stores a block of its own, under its CID.
NodePut ==
  /\ \E c \in Cid : /\ Digest[c] # NoBlock
                    /\ base' = [base EXCEPT ![c] = Digest[c]]
  /\ UNCHANGED <<phase, car, pos, fake, over>>

Step(f) ==
  \/ ImportActors(f) \/ PutKeyed(f) \/ PutFails(f) \/ Finish(f) \/ NewMachine(f)
  \/ DropMachine(f) \/ OverlayPut(f)

Next == NodePut \/ \E f \in Fvm : Step(f)

Spec == Init /\ [][Next]_vars

-----------------------------------------------------------------------------
(* Properties *)

\* No block with a wrong CID reaches the store that all FVMs and the node share,
\* whatever fails in the middle of an import and whatever runs next to it.
BaseIsHonest == \A c \in Cid : base[c] \in {NoBlock, Digest[c]}

\* From finish() on, an FVM reads every block of its bundle, the fake ones as they
\* were imported although another FVM, or the node, may have stored the right block
\* under the same CID before or since.
BundleVisible ==
  \A f \in Fvm : phase[f] \in {"overlay", "ready"} =>
    \A i \in 1 .. Len(car[f]) :
      OverlayHas(f, car[f][i][1]) /\ Get(f, car[f][i][1]) = car[f][i][2]

\* What an FVM reads that is not the digest's block is from its own bundle: the fake
\* blocks of one FVM are never seen by another, of a different network version.
NoForeignFakes ==
  \A f \in Fvm, c \in Cid :
    Get(f, c) \in {NoBlock, Digest[c]} \/ \E i \in 1 .. Len(car[f]) : car[f][i] = <<c, Get(f, c)>>

\* finish() changes no read, and once an FVM can read a CID it reads the same block
\* for the rest of its life: a message is executed on one and the same state.
StableStep ==
  \A f \in Fvm, c \in Cid :
    /\ Get(f, c) # NoBlock
    /\ phase'[f] \in {"overlay", "ready"}
    => Get(f, c)' = Get(f, c)

StableReads == [][StableStep]_vars
=============================================================================
