# A TLA+ model of the Go/Rust bridge of filecoin-ffi

The repository is a Go library (package `ffi`) over a Rust static library. Go callers
seal sectors, prove and verify them, check BLS signatures and run the Filecoin virtual
machine (FVM); the work is done in Rust crates, and this repository is the bridge: it
converts arguments, moves memory, file descriptors and object references across the C
boundary, lets Rust call back into Go, and brings results, errors and panics home. What
can be wrong in it is ownership, ordering and concurrency, and that is what is modelled.

## The system

| Part | State | Operations | What makes it correct |
|---|---|---|---|
| FVM lifecycle: `fvm.go`, `cgo/fvm.go`, `rust/src/fvm/machine.rs` | the Go object with its finalizer, the boxed machine, its Mutex | `CreateFVM`, `ApplyMessage`, `ApplyImplicitMessage`, `Flush`, the finalizer | no use after drop; one execution at a time; a machine that panicked is never used again; what is unreachable is reclaimed |
| Registry: `cgo/registry.go` | handles to externs, next handle | `Register`, `Unregister`, `Lookup` | a call-back finds its own FVM's externs, as long as it uses them |
| Call-backs: `cgo/blockstore.go`, `cgo/extern.go`, `rust/src/fvm/externs.rs`, `rust/src/fvm/blockstore/cgo.rs` | none of their own | has, get, put, put_many, randomness, consensus faults | the two sides agree on the integer codes |
| Batched writes: `put_many_keyed`, `cgo_blockstore_put_many` | buffer, lengths | append, flush, cut up | batches fit, arrive whole, in order, and no error is hidden |
| Logger: `rust/src/util/api.rs` | a process-wide `Once`, the sink, the caller's descriptor | `init_log`, `init_log_fd` | installed once, before any work; descriptors not lost |
| Proofs API and BLS: `proofs.go`, `distributed.go`, `sector_update.go`, `bls.go`, `cgo/*.go`, `rust/src/proofs/api.rs`, `rust/src/bls/api.rs` | boxes on the Rust heap | some fifty wrappers | every box freed once, by the right side; every failure reported |
| Files of the proofs API | the descriptor table | write pieces, commit to a piece, unseal | only the caller closes its file |
| Fake and overlay blockstores: `rust/src/fvm/blockstore/fake.rs`, `overlay.rs`, `import_actors` | blocks in memory in front of the Go store | import, `finish`, reads and writes | fake blocks are seen by their own FVM and by nobody else, for its whole life |
| Execution traces: `build_lotus_trace` | the position in a list of events, a recursion | one call | the tree is the one the events describe, or none |
| Values on the boundary: token amounts, BLS bytes, aggregation inputs, replica maps | parts that threads convert and merge | split and reform, flatten and cut, convert in parallel | what arrives is what was given |
| Sorted sectors: `types.go` | none | sort, JSON | not modelled |

The parts meet as follows. `CreateFVM` registers the caller's externs and gives the handle
to Rust; the machine keeps nothing but the handle. A message runs on the caller's thread,
under the machine's Mutex, and calls back into Go on the same thread; each call-back looks
the handle up again. The Go collector decides when the finalizer drops the machine and then
the handle. The exported Rust functions that use `catch_panic_response` or its variants first
initialize the logger (`init_log_fd` excepted) and turn panics into errors; the BLS
functions, the accessors of versions, the destructors and `alloc_boxed_slice` do neither.
A response, except BLS's bool and `None`, is a box that Go copies and destroys.

The hard behaviours are: the collector against a call in progress; several goroutines on one
FVM; panics, which cross neither the boundary nor a Mutex unnoticed; failures half way through
a conversion or a series of batches; memory and descriptors that one side frees and the other
has not finished with; first calls that race; work that threads of a pool finish in any order;
lists and runs of bytes that one side writes and the other takes apart. `PROJECT.json` lists
each of them, under `hazards`, at its line.

## Modules

**FvmBridge** (with **FvmSession**, **MCFvmBridge**, **FvmBridgeProofs**). One variable per
piece of state: `registry` and `nextId`; for every Go object its creation stage, captured
handle, externs, `executor` field and the goroutines that refer to it; for every machine
its life, Mutex and poison flag; for every goroutine where it is, the call-back it is in and
its last result. The critical section of a registry operation is one step. A call-back is
three: lookup (`CgoEnter`), use and return code (`CgoReturn`), match in Rust (`RustMatch`),
so that anything may happen between the lookup and the use. The finalizer is two
(`FinalizerDrop`, `FinalizerUnregister`), one FVM at a time, because Go runs all finalizers
on one goroutine. A goroutine may drop its reference in the middle of its own last method
call, which is what the collector's liveness analysis may do: only the deferred `KeepAlive`
(`KeptAlive`) then keeps the object. What the FVM computes is abstracted to any
sequence of call-backs that ends in a result, an error or a panic. The return codes are
tables, one per exported function and one per match arm.

*FvmSession* is what a user is promised: an FVM is opened once, runs one message at a time
while it is open, is not closed under a run, and a run that breaks it is its last.

**PutMany** (**PutManyProofs**). The loop of `put_many_keyed`, `flush_buffered` and the Go
function it calls. A byte is a cell that knows which block, and which part of it, it came
from, so a buffer that is cut wrongly is seen. The sizes cross the boundary as `size as i32` and
`lengths.len() as i32` (`AsI32`), which wrap; a negative length makes the slice of the Go side
panic, which `recover` turns into an error. `FlushFailed` covers a rejected batch
(nothing stored) and a store that fails after any part of the batch; the panics of the match
arms are FvmBridge's subject. Every CID is at most `EST_MAX_CID_LEN` long, the estimate the
code relies on; a longer one only makes the buffer grow, which `BatchFits` would then report.

**LogInit** (**LogInitProofs**). Threads that enter any function that logs, or `init_log_fd`,
the `Once` with its running, complete and poisoned states, and the descriptor as an owned
resource. `again` remembers the descriptors given a second time while they were open.
`foreign` says that the host installed a logger first, which makes the closure panic.

**FfiCall** (**MCFfiCall**, **FfiCallProofs**). One call of the proofs API or of BLS per
goroutine, on a shared heap whose freed addresses are used again, so that a double free hits a
stranger. The body of every C function is in a table, in the order of
`rust/src/proofs/api.rs`, as the sequence of what it does before it answers: paths, JSON,
replicas, the call of the library and so on (`SealBodies`, `WindowPoStBodies`, ...).
`RustStep` is one of these that succeeds, `StepFails` what becomes of one that does not. The
wrappers are grouped by how they treat their arguments and what their value is. The steps of a
call are: early conversions, one step per boxed item, late conversions, the steps of the C
function, the boxed response, its copy, its destruction, the conversion of the copy, the
cleaner. Each may fail where the code can fail; a panic may end a C function inside
`catch_panic_response` at any step. A response with the boxes inside it is one box; BLS's bool
is none, and neither is `None`. A verdict is told apart from a success, so that a panic or an
error that turned into one would be seen. The step `"faulty"` and `Copied` follow the faulty
sectors of a failed window PoSt.

**FileFds** (**FileFdsProofs**). The descriptor table of the process and what each function
does to the number it gets. The two descriptors of `unseal_range`, and of the writing
functions, share their fate and are one in the model. `dropped` is a history variable: the
numbers on which a call ended that the properties exempt, until the last os.File with that
number is gone.

**Blockstores** (**MCBlockstores**, **BlockstoresProofs**). Several FVMs over one Go store. The
import of a bundle is one step per block, so that the imports of two FVMs, their reads and
the node's own writes interleave; it may fail at every block that goes to Go, which panics and
drops the FakeBlockstore with what it has in memory. `Digest` says which block a CID is the
hash of; a CID whose hash is not supported has none, and its blocks are always fake. That the
CIDs of one bundle are distinct is assumed (a CAR file lists a block once). What the FVM and
the node write themselves they write under its right CID.

**Trace** (**MCTrace**, **TraceProofs**). `build_lotus_trace` with its recursion as a stack: a call
is named by its position in the list, and the nodes of the tree are functions of positions. The
list is any sequence of events, not only those the FVM makes: `Init` takes it from `Traces`. The
reference is stated without a stack: the depth after every event says which event closes a
call and which calls are its own (`Closes`, `Children`).

**Values** (**MCValues**, **ValuesProofs**). A behaviour is one call that takes a value apart on
one side and puts it together on the other. Amounts are integers in a number system whose
base is the `Word`, and a conversion that fails has no result. Bytes know which item, and
which place in it, they came from. A batch that rayon converts is a sequence of parts, which
threads convert in any order (`ConvertPart`) and merge with their neighbours in any order
(`MergeParts`), as `collect` and `try_reduce` may; the first failure ends the call. An empty
list is refused where the code refuses it: by Go for `VerifyAggregateSeals` (`NoInfos`), by the
library for `Aggregate` (`AggregateSigFails`).

Operators called *a slip* are bugs the code does not have. They are used by no specification;
`mutants` in `PROJECT.json` says which definition each would replace, and which property
then fails.

## Runs

| Run | Shows | Bounds | States |
|---|---|---|---|
| FvmBridge | `NoUseAfterDrop`, `CallbackSeesOwnExterns`, `RegistryAccounted`, `NoBridgePanic`, `MutualExclusion`, `PoisonIsForever`, and that FvmSession is implemented | 2 goroutines, 2 FVMs, 2 externs, all 6 kinds of call-back, 2 handles | 106 thousand |
| FvmBridgeLive | `DroppedIsReclaimed` | 2 goroutines, 2 FVMs, 1 kind | 47 thousand |
| LogInit | `LoggerBeforeWork`, `NoFdLeak`, `SinkStaysOpen`, `InstalledOnce`, `CallReturns` | 3 threads, 2 descriptors | 15 thousand |
| PutMany | `BatchFits`, `GoReadsWhatRustWrote`, `BatchesInOrder`, `NoSilentLoss` | up to 4 blocks, 2 blocks and 6 bytes per batch, lengths of -10 .. 9 | 909 thousand |
| FfiCall | `OwnedOnce`, `FailureReachesCaller`, `OnlyVerifyPoStLeaks` | 2 goroutines, 5 functions, up to 2 items, 5 addresses | 4.0 million |
| FileFds | `RustHasCallersFile`, `CallerCloses` | 2 goroutines, 3 descriptors, all 5 functions, all outcomes | 4.5 thousand |
| Blockstores | `BaseIsHonest`, `BundleVisible`, `NoForeignFakes`, `StableReads` | 3 FVMs, 3 CIDs, 3 blocks, both bundles | 17 thousand |
| Trace | `TreeMatchesEvents`, `BuiltIffClosed`, `NoInventedSuccess`, `MessageAnswered` | all lists of up to 3 events, 5 of five kinds, 8 of three kinds | 71 thousand |
| Values | `AmountsArrive`, `RefusedForCause`, `BatchesArrive`, `LastReplicaWins`, `Answered` | words of 4 values, batches of up to 4 items, one of three does not decode | 30 thousand |

Why the bounds are enough. In FvmBridge two goroutines are needed for a race and two FVMs for
one to meet the other's handle or finalizer; a handle is never issued twice, so as many
handles as FVMs are all that can be used. In PutMany the sizes lie on both sides of every
limit: blocks that fit exactly, that fit by their real CID but not by the estimate, that are
too large for a batch of their own, that Go rejects, whose length wraps to a negative number,
to zero, or to one that Go accepts; four blocks make three batches. In FfiCall one function is
taken from each way to treat boxes and to end: moved into Rust, cleaned on every path and with
faulty sectors to report, leaked, a response that may be absent, none at all. The other
wrappers differ from these in the steps of their bodies and in whether a cleaner meets failed
conversions, and the theorems hold for all of them. In Blockstores a CID is fake in one bundle
and right in the other, one is right in both, and one has no supported hash; the third FVM may
use neither bundle. In Trace eight events make trees of depth four and of three children, and
leave lists that stop half way. In Values the amounts lie on both sides of every power of the
word up to the third, and four parts can be merged in every order. `TypeOK` is an invariant of
the runs of FvmBridge, LogInit, FfiCall, Blockstores and Trace; those of PutMany, FileFds and
Values are proved, as parts of the inductive invariants. Deadlock is checked except in
PutMany, Trace and Values, where a finished call stops, and in FfiCall, where the boxes that
are leaked fill the heap of the model.

### Where the code and its documentation disagree

Three runs are expected to fail; each quotes in `findings` the line it refutes.

* **LogInitRace**: `init_log_fd` may succeed without making the descriptor the sink, because
  `is_completed` and `call_once` are two steps.
* **FileFdsUnseal**: a failed unsealing closes the caller's two descriptors.
* **FileFdsUndef**: `GeneratePieceCID` returns `cid.Undef` and no error when it fails.

Three disagreements are part of a property that holds, as its only exception.

* `SinkStaysOpen` exempts a descriptor that was given to `init_log_fd` a second time: the File
  made of it is dropped, and with it the active logger's sink. The doc comment says
  "subsequent calls won't have any effect" (`rust/src/util/api.rs:51-52`).
* `OnlyVerifyPoStLeaks` exempts the two functions that verify PoSts: the boxes that
  `toFilPoStProofs` makes (`proofs.go:823`) are destroyed by nobody, on any path, although the
  leak check `valgrind --leak-check=full --show-leak-kinds=definite ./runner` (`Makefile:34`)
  asks for no definite leak. `PoStProof.destroy` (`cgo/types.go:146`) has no caller.
* `CallerCloses` and `RustHasCallersFile` exempt the numbers that an `unseal_range` that failed,
  or a panic inside `generate_piece_commitment`, has closed. Of the latter the doc comment says
  "The caller is responsible for closing the passed in file descriptor"
  (`rust/src/proofs/api.rs:1004`); an error leaves the file alone, a panic drops it before
  `into_raw_fd`. A number that was closed is exempt for whoever holds it, until nobody does;
  the properties show that no other number is ever affected.

Two more things the model makes explicit. A `CreateFVM` that fails in Rust leaves its handle
in the registry; `RegistryAccounted` counts these entries, and shows that there are no others.
And the length of a block wraps (`rust/src/fvm/blockstore/cgo.rs:128`): from 2^31 bytes on Go
rejects the batch, but from 2^32 on it may read a small positive length, store the head of the
block under the CID of the whole, and report success. `GoReadsWhatRustWrote` and `NoSilentLoss`
exempt exactly the blocks of 2^32 bytes or more. `put_keyed` casts the length of its single block
in the same way (`cgo.rs:141`); it has no batch to cut up and is in FvmBridge, without its data.

### Fairness

`DroppedIsReclaimed` assumes that a goroutine inside a call keeps running (weak fairness of
`Progress`; the scheduler is preemptive and Rust code runs on its own thread), that the Go
runtime forces a collection and runs finalizers (weak fairness of the finalizer's two steps;
the collector is forced at least every two minutes), and that an execution makes finitely many
call-backs (strong fairness of `Ends`; the FVM meters gas, and creation reads finitely many
blocks). Nothing is assumed of callers: they need not ever drop a reference, and a goroutine
waiting for the Mutex needs no luck. `CallReturns` assumes only that a thread inside a call
keeps running. `MessageAnswered` and `Answered` assume weak fairness of the whole next-state
relation: the code of a trace is sequential and goes on while it can, and rayon's pool has at
least one thread, which takes some part that is left.

## Proofs

The theorems hold for all values of the constants that satisfy the named assumptions, that is
for any number of goroutines, FVMs, handles, items, addresses, descriptors and sizes. Where a
theorem has a `property` in `PROJECT.json`, a run checks the same formula on a small instance.

*FvmBridgeProofs.* `IndInv` adds to the checked properties: goroutines and FVMs agree on how
far they have come (`FramesMatchStages`), an FVM has one creator (`OneCreator`), the machine
lives exactly from creation to finalization (`MachineMatchesStage`), handles are issued in
order and never twice (`HandlesFresh`), entries have owners (`EntriesOwned`), pending answers
are in Go's table (`AnswerInTable`). `NoUseAfterDrop` is not inductive without them: that a
method's FVM is *ready* has to survive `FinalizerDrop`, which it does because the method's
frame keeps the object alive. One lemma per action; `UseBeforeDrop`, `OwnExterns`,
`RegistryExact`, `OneExecution`, `BridgeNeverPanics` and `TypeCorrect` follow from `IndInv`,
`PoisonLasts` and `ImplementsSession` (the refinement, with the machine's life, the Mutex and the
poison flag as the abstract state) from `IndInv` and the actions. The theorems stop where the
bound `MaxHandle` stops the counter; in the code that is 2^64 creations.

*LogInitProofs.* At most one thread is in the closure, and only while the `Once` is running;
the sink is there exactly when it is complete. For `SinkStaysOpen` the invariant adds that a
call works alone on its descriptor, which is open and not the sink, unless it was given twice
(`SoleUser`).

*PutManyProofs.* For the limits: the test at the head of the loop leaves room for the block
that is appended next, unless the batch is empty (`RoomToAppend`). For the contents,
`DeliveryInv`: the lengths cut the buffer exactly between the blocks the loop has passed since
the last flush (`Cut`), or the batch is one block whose size is no i32 (`Alone`; together
`Laid`), and what is stored is all that came before those, blocks whose length has wrapped
excepted, until a flush fails (`Delivered`). `NoSilentLoss` is not inductive without `Laid`,
because what Go stores is what it cuts out of the buffer and not what Rust meant to send. From
it follow `EveryBlockReadBack`, `BatchesStayInOrder` and `NothingLostSilently`.

*FfiCallProofs.* `CallInv`: what a call holds is in use, disjoint from what every other call
holds, what it will return is determined by what Rust did, and no more steps of the C function
are done than it has, so that a success comes after the last (`SuccessAtTheEnd`).

*FileFdsProofs.* The theorems hold for all functions and all outcomes, panics included. `FdInv`
adds to `CallerCloses` that a goroutine has a number exactly while it is not idle. It survives
`Close` because two goroutines can share a number only if it is exempt, and a number leaves
`dropped` only with the last os.File that has it.

*BlockstoresProofs.* `StoreInv`: the Go store is honest, and of every FVM what it has in memory
is exactly the fake part of what it has imported so far, moved to the overlay by `finish`
(`FvmInv`). `BundleVisible` is not inductive without it, because the honest part of the
bundle is in the shared store and stays there only because everybody's writes are honest.
`ReadsAreStable` follows from the invariant step by step.

*TraceProofs.* `TraceInv`: the stack holds calls that were read (`OpenCalls`). For the tree,
`TreeInv` relates the stack of `build_lotus_trace` to the depth of the events: the calls on
the stack are the ones the events have opened and not closed, outermost first and one per
level (`Nested`); a call taken from it was closed by the event that gave it its receipt
(`Closed`), and is a subcall of the call that encloses it (`Adopted`). The depth is a count
over the events before; it changes by one with every event, which is all the proof needs to
know of it. `TreeOfClosedLists` and `TreeIsRight` follow, and, because one event closes a call
(`OneClosing`), so does `SuccessIsReal`.

*ValuesProofs.* `SplitExact` and `ReformExact` say that a number of up to two words is the same
after the way across and that no other gets there, for every word size; `AmountInv` carries
that through the call. For the batches: the j-th chunk of flattened items is the j-th item for
every width (`ChunkIsItem`), and `hash_verify` cuts the flattened messages into the messages and
stays within them (`CutIsInverse`). `ConvertInv` says how far a call has come: the batches it has
are whole, and the parts of the next one are neighbours that cover it from its first piece to
its last, each with exactly what its pieces make, or nothing if one of them fails (`Parted`).
Converting and merging keep that in any order (`PartsConverted`, `PartsMerged`), and one part
that is done is the whole batch (`PartsCollected`). `EveryBatchArrives`, `OnlyForCause` and
`LastReplicaKept` follow; the last with `MapHasLast`, by induction over the replicas.

*Induction.* Buffers, sums of lengths and maps are recursive functions in the model, and the
library's induction theorems take an operator that the provers cannot instantiate. The proofs
use the least number of a set instead (`LeastNat`, from the theorem `WFMin` on well-founded
relations): a set that has 0 and with every number its successor has them all (`SetInduction`,
`InductionTo`), and `T` is then the set of the numbers for which the claim holds. That the
recursive functions exist is proved in the same way (`AdvancedExists`, `Recursion`).

Only model-checked: liveness (`DroppedIsReclaimed`, `CallReturns`, `MessageAnswered`,
`Answered`), which is out of the prover's reach. Every other property of a passing run is also
a theorem. The inductive invariants of this section were checked by TLC, on the instances of
the runs, before they were proved.

## Not modelled

Cryptography and what the Rust crates compute; the FVM itself. The sorting of sector infos and
their JSON (`types.go`), which is one call of a library each. The tables that take a proof
type to the type of the same name. The accessors of parameters in `rust/src/proofs/api.rs`,
which are pure and which Go does not call. The drivers in `workflows.go`, the tests, and the
build and release scripts. The cut of the network version to 32 bits. `PROJECT.json` gives the
reason for each.

## Plan

1. The composition of Blockstores with the call-backs of FvmBridge: a store that fails in the
   middle of a message, and the poisoned machine over the overlay.
2. An abstract heap that FfiCall implements, and an abstract single map that Blockstores
   implements for every FVM.
3. The proofs of those: the refinement of the abstract heap from `CallInv`, and of the single
   map from `StoreInv`.
