----------------------------- MODULE FvmBridge -----------------------------
(***************************************************************************)
(* The life of an FVM across the Go / Rust boundary.                       *)
(*                                                                         *)
(* fvm.go creates an FVM: it registers the caller's Externs under a fresh  *)
(* handle (cgo/registry.go), asks Rust for a machine that knows only the   *)
(* handle (rust/src/fvm/machine.rs), and attaches a finalizer.  Goroutines *)
(* then apply messages and flush; the machine, under its own Mutex, calls  *)
(* back into Go (cgo/blockstore.go, cgo/extern.go), where the handle is    *)
(* looked up again.  The finalizer, run by the Go collector at a moment    *)
(* nobody chooses, drops the machine and removes the handle.               *)
(***************************************************************************)
EXTENDS Integers

CONSTANTS
  Goroutine,   \* the goroutines that use the library
  Fvm,         \* the FVM objects that can be allocated
  Externs,     \* the Externs values callers pass in FVMOpts
  Kind,        \* the kinds of call-back exercised (a subset of AllKinds)
  MaxHandle,   \* bound on the handles ever issued: 2^64 in the code
  NoExterns,   \* what Go's map returns for a handle that is not registered
  NoFvm,       \* a goroutine that runs no method
  Nobody       \* an unlocked Mutex

AllKinds == {"has", "get", "put", "put_many", "randomness", "consensus_fault"}

ASSUME KindAssumption == Kind \subseteq AllKinds
ASSUME HandleAssumption == MaxHandle \in Nat
ASSUME SentinelAssumption ==
  /\ NoExterns \notin Externs
  /\ NoFvm \notin Fvm
  /\ Nobody \notin Goroutine

Handle == 0 .. MaxHandle - 1

VARIABLES
  \* cgo/registry.go
  registry,    \* handle -> the Externs registered under it
  nextId,      \* the next handle to issue
  \* the Go objects of type FVM, and what their creation captured
  stage,       \* how far creation or finalization of the object has come
  exHandle,    \* the handle captured by the finalizer and by the machine
  opts,        \* the Externs the creator passed in
  executor,    \* is the field f.executor non-nil?
  refs,        \* the goroutines that still hold a reference to the object
  \* the Rust side: InnerFvmMachine and its Mutex
  machine,     \* the boxed machine: none, live or dropped
  lock,        \* who holds the Mutex
  poisoned,    \* did a panic unwind past a guard of the Mutex?
  \* the goroutines
  pc,          \* where the goroutine is
  on,          \* the FVM its current method works on
  cb,          \* the call-back from Rust it is in, if any
  ret          \* how its last call into the library ended

goVars   == <<registry, nextId>>
objVars  == <<stage, exHandle, opts, executor, refs>>
rustVars == <<machine, lock, poisoned>>
vars     == <<goVars, objVars, rustVars, pc, on, cb, ret>>

-----------------------------------------------------------------------------
(* Types *)

Stage == {"none", "creating", "ready", "finalizing", "finalized", "failed"}

MachineState == {"none", "live", "dropped"}

\* The steps of a method of FVM, between its first use of f.executor and the
\* deferred runtime.KeepAlive(f).
MethodPc == {"decoding", "locking", "executing", "returned"}

Pc == {"idle", "creating", "created"} \cup MethodPc

\* The integers the exported cgo functions return: the enum FvmError, and 0, 1.
Code == {"zero", "one", "InvalidHandle", "NotFound", "Io", "InvalidArgument",
         "Panic"}

NoCallback == [kind |-> "none", found |-> NoExterns, code |-> "none"]

Callback == [kind : Kind, found : Externs \cup {NoExterns},
             code : Code \cup {"none"}]

Result == {"none", "ok", "err"}

TypeOK ==
  /\ registry \in [Handle -> Externs \cup {NoExterns}]
  /\ nextId   \in Handle \cup {MaxHandle}
  /\ stage    \in [Fvm -> Stage]
  /\ exHandle \in [Fvm -> Handle \cup {MaxHandle}]
  /\ opts     \in [Fvm -> Externs \cup {NoExterns}]
  /\ executor \in [Fvm -> BOOLEAN]
  /\ refs     \in [Fvm -> SUBSET Goroutine]
  /\ machine  \in [Fvm -> MachineState]
  /\ lock     \in [Fvm -> Goroutine \cup {Nobody}]
  /\ poisoned \in [Fvm -> BOOLEAN]
  /\ pc       \in [Goroutine -> Pc]
  /\ on       \in [Goroutine -> Fvm \cup {NoFvm}]
  /\ cb       \in [Goroutine -> Callback \cup {NoCallback}]
  /\ ret      \in [Goroutine -> Result]

Init ==
  /\ registry = [h \in Handle |-> NoExterns]
  /\ nextId   = 0
  /\ stage    = [f \in Fvm |-> "none"]
  /\ exHandle = [f \in Fvm |-> MaxHandle]
  /\ opts     = [f \in Fvm |-> NoExterns]
  /\ executor = [f \in Fvm |-> FALSE]
  /\ refs     = [f \in Fvm |-> {}]
  /\ machine  = [f \in Fvm |-> "none"]
  /\ lock     = [f \in Fvm |-> Nobody]
  /\ poisoned = [f \in Fvm |-> FALSE]
  /\ pc       = [g \in Goroutine |-> "idle"]
  /\ on       = [g \in Goroutine |-> NoFvm]
  /\ cb       = [g \in Goroutine |-> NoCallback]
  /\ ret      = [g \in Goroutine |-> "none"]

-----------------------------------------------------------------------------
(* The registry.  Each operation is one critical section of mu. *)

Register(x) ==
  /\ nextId < MaxHandle
  /\ registry' = [registry EXCEPT ![nextId] = x]
  /\ nextId' = nextId + 1

Unregister(h) ==
  /\ registry' = [registry EXCEPT ![h] = NoExterns]
  /\ UNCHANGED nextId

\* A slip: whatever the handle, the Externs registered last.
LookupLatest(h) == registry[nextId - 1]

Lookup(h) == registry[h]

-----------------------------------------------------------------------------
(* The two tables of return codes: what the exported Go function returns   *)
(* once it has found Externs, and what the Rust match arms make of it.     *)

HasCodes   == {"zero", "one", "Io", "Panic"}
GetCodes   == {"zero", "NotFound", "Io", "Panic"}
PutCodes   == {"zero", "Io", "Panic"}
PutManyCodes    == {"zero", "InvalidArgument", "Io", "Panic"}
RandomnessCodes == {"zero", "Io", "Panic"}
FaultCodes      == {"zero", "Io", "Panic"}

GoCodes(k) ==
  CASE k = "has"             -> HasCodes
    [] k = "get"             -> GetCodes
    [] k = "put"             -> PutCodes
    [] k = "put_many"        -> PutManyCodes
    [] k = "randomness"      -> RandomnessCodes
    [] k = "consensus_fault" -> FaultCodes

\* The codes a match arm accepts as an answer, and those it panics on; every
\* other code becomes an error of the FVM.
HasAccepts == {"zero", "one", "NotFound"}
HasPanics  == {"InvalidHandle"}

GetAccepts == {"zero", "NotFound"}
GetPanics  == {"one", "InvalidHandle"}

PutAccepts == {"zero"}
PutPanics  == {"one", "InvalidHandle", "NotFound"}

PutManyAccepts == {"zero"}

\* A slip: the arm that panics on unknown answers also takes Go's errors.
PutManyPanicsOnError == {"one", "InvalidHandle", "NotFound", "InvalidArgument"}

PutManyPanics  == {"one", "InvalidHandle", "NotFound"}

ExternAccepts == {"zero"}
ExternPanics  == {"one", "InvalidHandle"}

RustOutcome(k, code) ==
  LET accepts == CASE k = "has" -> HasAccepts
                   [] k = "get" -> GetAccepts
                   [] k = "put" -> PutAccepts
                   [] k = "put_many" -> PutManyAccepts
                   [] OTHER -> ExternAccepts
      panics  == CASE k = "has" -> HasPanics
                   [] k = "get" -> GetPanics
                   [] k = "put" -> PutPanics
                   [] k = "put_many" -> PutManyPanics
                   [] OTHER -> ExternPanics
  IN  IF code \in accepts THEN "ok" ELSE IF code \in panics THEN "panic" ELSE "err"

-----------------------------------------------------------------------------
(* CreateFVM, on the goroutine that called it *)

\* splitBigInt refuses the base fee or the circulating supply.
CreateRejected(g) ==
  /\ pc[g] = "idle"
  /\ ret' = [ret EXCEPT ![g] = "err"]
  /\ UNCHANGED <<goVars, objVars, rustVars, pc, on, cb>>

\* The Externs are registered and create_fvm_machine is entered.
CreateFVM(g, f, x) ==
  /\ pc[g] = "idle"
  /\ stage[f] = "none"
  /\ Register(x)
  /\ stage' = [stage EXCEPT ![f] = "creating"]
  /\ exHandle' = [exHandle EXCEPT ![f] = nextId]
  /\ opts' = [opts EXCEPT ![f] = x]
  /\ pc' = [pc EXCEPT ![g] = "creating"]
  /\ on' = [on EXCEPT ![g] = f]
  /\ ret' = [ret EXCEPT ![g] = "none"]
  /\ UNCHANGED <<executor, refs, rustVars, cb>>

\* create_fvm_machine returns an error, or panics and the panic is caught:
\* bad version or CID, builtin actors or state that will not load.  CreateFVM
\* returns the error; nothing on this path takes the handle back.
CreateFails(g) ==
  /\ pc[g] = "creating" /\ cb[g] = NoCallback
  /\ stage' = [stage EXCEPT ![on[g]] = "failed"]
  /\ pc' = [pc EXCEPT ![g] = "idle"]
  /\ on' = [on EXCEPT ![g] = NoFvm]
  /\ ret' = [ret EXCEPT ![g] = "err"]
  /\ UNCHANGED <<goVars, exHandle, opts, executor, refs, rustVars, cb>>

\* The machine is boxed into the response.
CreateSucceeds(g) ==
  /\ pc[g] = "creating" /\ cb[g] = NoCallback
  /\ machine' = [machine EXCEPT ![on[g]] = "live"]
  /\ pc' = [pc EXCEPT ![g] = "created"]
  /\ UNCHANGED <<goVars, objVars, lock, poisoned, on, cb, ret>>

\* What destroying the response does to the machine it may still point to:
\* resp.value has been set to nil, so nothing.
DestroyCreateResponse(f) == UNCHANGED machine

\* The pointer is taken out of the response, the response destroyed, the FVM
\* allocated and its finalizer set.
TakeExecutor(g) ==
  /\ pc[g] = "created"
  /\ DestroyCreateResponse(on[g])
  /\ executor' = [executor EXCEPT ![on[g]] = TRUE]
  /\ stage' = [stage EXCEPT ![on[g]] = "ready"]
  /\ refs' = [refs EXCEPT ![on[g]] = {g}]
  /\ pc' = [pc EXCEPT ![g] = "idle"]
  /\ on' = [on EXCEPT ![g] = NoFvm]
  /\ UNCHANGED <<goVars, exHandle, opts, lock, poisoned, cb, ret>>

-----------------------------------------------------------------------------
(* Call-backs: Rust calls an exported Go function on the calling thread,   *)
(* while it creates the machine or executes under the Mutex.               *)

InRust(g) == pc[g] \in {"creating", "executing"} /\ cb[g] = NoCallback

\* The Go function is entered and the handle looked up; mu is released again.
CgoEnter(g, k) ==
  /\ InRust(g)
  /\ cb' = [cb EXCEPT ![g] = [kind |-> k, found |-> Lookup(exHandle[on[g]]),
                              code |-> "none"]]
  /\ UNCHANGED <<goVars, objVars, rustVars, pc, on, ret>>

\* The Externs found are used, whatever happened since, and a code returned.
CgoReturn(g) ==
  /\ cb[g] # NoCallback
  /\ cb[g].code = "none"
  /\ \E c \in Code :
       /\ IF cb[g].found = NoExterns THEN c = "InvalidHandle"
                                     ELSE c \in GoCodes(cb[g].kind)
       /\ cb' = [cb EXCEPT ![g].code = c]
  /\ UNCHANGED <<goVars, objVars, rustVars, pc, on, ret>>

\* A panic that starts in a match arm unwinds to catch_panic_response: past the
\* guard of the Mutex when a message executes, past nothing during creation.
Unwind(g) ==
  IF pc[g] = "creating"
    THEN /\ stage' = [stage EXCEPT ![on[g]] = "failed"]
         /\ pc' = [pc EXCEPT ![g] = "idle"]
         /\ on' = [on EXCEPT ![g] = NoFvm]
         /\ UNCHANGED <<lock, poisoned>>
    ELSE /\ poisoned' = [poisoned EXCEPT ![on[g]] = TRUE]
         /\ lock' = [lock EXCEPT ![on[g]] = Nobody]
         /\ pc' = [pc EXCEPT ![g] = "returned"]
         /\ UNCHANGED <<stage, on>>

\* The match on the returned code.  An answer or an error goes back into the
\* FVM, which decides what to do with it.
RustMatch(g) ==
  /\ cb[g] # NoCallback
  /\ cb[g].code # "none"
  /\ cb' = [cb EXCEPT ![g] = NoCallback]
  /\ IF RustOutcome(cb[g].kind, cb[g].code) = "panic"
       THEN Unwind(g) /\ ret' = [ret EXCEPT ![g] = "err"]
       ELSE UNCHANGED <<stage, pc, on, lock, poisoned, ret>>
  /\ UNCHANGED <<goVars, exHandle, opts, executor, refs, machine>>

-----------------------------------------------------------------------------
(* The methods of FVM *)

\* A reference is handed to another goroutine.
Share(g1, g2, f) ==
  /\ g1 \in refs[f] /\ g2 \notin refs[f]
  /\ refs' = [refs EXCEPT ![f] = @ \cup {g2}]
  /\ UNCHANGED <<goVars, stage, exHandle, opts, executor, rustVars, pc, on, cb, ret>>

\* A goroutine's last use of the reference is past.  For a collector that knows
\* liveness this may be inside the method call that was that last use.
DropRef(g, f) ==
  /\ g \in refs[f]
  /\ refs' = [refs EXCEPT ![f] = @ \ {g}]
  /\ UNCHANGED <<goVars, stage, exHandle, opts, executor, rustVars, pc, on, cb, ret>>

StartMethod(g, f, first) ==
  /\ pc[g] = "idle"
  /\ g \in refs[f]
  /\ pc' = [pc EXCEPT ![g] = first]
  /\ on' = [on EXCEPT ![g] = f]
  /\ ret' = [ret EXCEPT ![g] = "none"]
  /\ UNCHANGED <<goVars, objVars, rustVars, cb>>

\* ApplyMessage and ApplyImplicitMessage differ only in the arguments.
ApplyMessage(g, f) == StartMethod(g, f, "decoding")

Flush(g, f) == StartMethod(g, f, "locking")

\* The message is decoded before the Mutex is taken; a bad one is an error.
Decode(g) ==
  /\ pc[g] = "decoding"
  /\ \/ pc' = [pc EXCEPT ![g] = "locking"] /\ UNCHANGED ret
     \/ /\ pc' = [pc EXCEPT ![g] = "returned"]
        /\ ret' = [ret EXCEPT ![g] = "err"]
  /\ UNCHANGED <<goVars, objVars, rustVars, on, cb>>

\* A slip: the guard is taken out of the PoisonError.
LockIgnoresPoison(g) ==
  /\ pc[g] = "locking"
  /\ lock[on[g]] = Nobody
  /\ lock' = [lock EXCEPT ![on[g]] = g]
  /\ pc' = [pc EXCEPT ![g] = "executing"]
  /\ UNCHANGED <<goVars, objVars, machine, poisoned, on, cb, ret>>

\* A slip: the machine is reached without its Mutex.
LockDoesNotWait(g) ==
  /\ pc[g] = "locking"
  /\ lock' = [lock EXCEPT ![on[g]] = g]
  /\ pc' = [pc EXCEPT ![g] = "executing"]
  /\ UNCHANGED <<goVars, objVars, machine, poisoned, on, cb, ret>>

\* A slip: on a poisoned Mutex the default response, which is a success.
LockSwallowsPoison(g) ==
  /\ pc[g] = "locking"
  /\ lock[on[g]] = Nobody
  /\ IF poisoned[on[g]]
       THEN /\ pc' = [pc EXCEPT ![g] = "returned"]
            /\ ret' = [ret EXCEPT ![g] = "ok"]
            /\ UNCHANGED lock
       ELSE /\ lock' = [lock EXCEPT ![on[g]] = g]
            /\ pc' = [pc EXCEPT ![g] = "executing"]
            /\ UNCHANGED ret
  /\ UNCHANGED <<goVars, objVars, machine, poisoned, on, cb>>

\* lock().unwrap(): on a poisoned Mutex the unwrap panics, the guard inside the
\* error releases the Mutex again, and the caught panic is the response.
Lock(g) ==
  /\ pc[g] = "locking"
  /\ lock[on[g]] = Nobody
  /\ IF poisoned[on[g]]
       THEN /\ pc' = [pc EXCEPT ![g] = "returned"]
            /\ ret' = [ret EXCEPT ![g] = "err"]
            /\ UNCHANGED lock
       ELSE /\ lock' = [lock EXCEPT ![on[g]] = g]
            /\ pc' = [pc EXCEPT ![g] = "executing"]
            /\ UNCHANGED ret
  /\ UNCHANGED <<goVars, objVars, machine, poisoned, on, cb>>

\* execute_message or flush returns Ok or Err, and the guard is dropped.
Finish(g, r) ==
  /\ pc[g] = "executing" /\ cb[g] = NoCallback
  /\ lock' = [lock EXCEPT ![on[g]] = Nobody]
  /\ pc' = [pc EXCEPT ![g] = "returned"]
  /\ ret' = [ret EXCEPT ![g] = r]
  /\ UNCHANGED <<goVars, objVars, machine, poisoned, on, cb>>

\* A panic under the guard: inside the FVM, or in the unwraps that squeeze the
\* penalty and the miner tip into a u128.  The Mutex is poisoned.
ExecPanic(g) ==
  /\ pc[g] = "executing" /\ cb[g] = NoCallback
  /\ poisoned' = [poisoned EXCEPT ![on[g]] = TRUE]
  /\ lock' = [lock EXCEPT ![on[g]] = Nobody]
  /\ pc' = [pc EXCEPT ![g] = "returned"]
  /\ ret' = [ret EXCEPT ![g] = "err"]
  /\ UNCHANGED <<goVars, objVars, machine, on, cb>>

\* CheckErr, copy, destroy the response, and the deferred KeepAlive.
Return(g) ==
  /\ pc[g] = "returned"
  /\ pc' = [pc EXCEPT ![g] = "idle"]
  /\ on' = [on EXCEPT ![g] = NoFvm]
  /\ ret' = [ret EXCEPT ![g] = "none"]
  /\ UNCHANGED <<goVars, objVars, rustVars, cb>>
-----------------------------------------------------------------------------
(* The Go collector and the finalizer.  All finalizers of a program run on *)
(* one goroutine, one after another.                                       *)

\* A slip: the methods do not defer runtime.KeepAlive.
NoFrameKeepsAlive(f) == FALSE

\* The frames that still have a deferred runtime.KeepAlive(f) to execute.
KeptAlive(f) == \E g \in Goroutine : on[g] = f /\ pc[g] \in MethodPc

Unreachable(f) == refs[f] = {} /\ ~KeptAlive(f)

\* The first half of the finalizer: f.executor is taken and destroyed.
FinalizerDrop(f) ==
  /\ stage[f] = "ready"
  /\ Unreachable(f)
  /\ \A f2 \in Fvm : stage[f2] # "finalizing"
  /\ executor[f]
  /\ executor' = [executor EXCEPT ![f] = FALSE]
  /\ machine' = [machine EXCEPT ![f] = "dropped"]
  /\ stage' = [stage EXCEPT ![f] = "finalizing"]
  /\ UNCHANGED <<goVars, exHandle, opts, refs, lock, poisoned, pc, on, cb, ret>>

\* A slip: the finalizer forgets the handle.
FinalizerForgetsHandle(f) ==
  /\ stage[f] = "finalizing"
  /\ stage' = [stage EXCEPT ![f] = "finalized"]
  /\ UNCHANGED <<goVars, exHandle, opts, executor, refs, rustVars, pc, on, cb, ret>>

\* A slip: the finalizer overwrites the captured handle with -1.
FinalizerResetsHandle(f) ==
  /\ stage[f] = "finalizing"
  /\ Unregister(exHandle[f])
  /\ exHandle' = [exHandle EXCEPT ![f] = -1]
  /\ stage' = [stage EXCEPT ![f] = "finalized"]
  /\ UNCHANGED <<opts, executor, refs, rustVars, pc, on, cb, ret>>

\* The second half: the handle is given up.
FinalizerUnregister(f) ==
  /\ stage[f] = "finalizing"
  /\ Unregister(exHandle[f])
  /\ stage' = [stage EXCEPT ![f] = "finalized"]
  /\ UNCHANGED <<exHandle, opts, executor, refs, rustVars, pc, on, cb, ret>>

-----------------------------------------------------------------------------
(* The specification *)

\* Steps that belong to a call in progress.
Progress(g) ==
  \/ CreateFails(g)
  \/ CreateSucceeds(g)
  \/ TakeExecutor(g)
  \/ CgoReturn(g)
  \/ RustMatch(g)
  \/ Decode(g)
  \/ Lock(g)
  \/ \E r \in {"ok", "err"} : Finish(g, r)
  \/ ExecPanic(g)
  \/ Return(g)

Next ==
  \/ \E g \in Goroutine :
       \/ CreateRejected(g)
       \/ \E f \in Fvm, x \in Externs : CreateFVM(g, f, x)
       \/ \E k \in Kind : CgoEnter(g, k)
       \/ \E g2 \in Goroutine, f \in Fvm : Share(g, g2, f)
       \/ \E f \in Fvm : DropRef(g, f) \/ ApplyMessage(g, f) \/ Flush(g, f)
       \/ Progress(g)
  \/ \E f \in Fvm : FinalizerDrop(f) \/ FinalizerUnregister(f)

Spec == Init /\ [][Next]_vars

\* A goroutine inside a call keeps running; Go's forced collection (every two
\* minutes) finds what is unreachable and its finalizer is run; and a call makes
\* finitely many call-backs, because the FVM meters gas: a run that could end
\* again and again does end.
Ends(g) ==
  \/ CreateFails(g)
  \/ CreateSucceeds(g)
  \/ \E r \in {"ok", "err"} : Finish(g, r)
  \/ ExecPanic(g)

Fairness ==
  /\ \A g \in Goroutine : WF_vars(Progress(g)) /\ SF_vars(Ends(g))
  /\ \A f \in Fvm : WF_vars(FinalizerDrop(f)) /\ WF_vars(FinalizerUnregister(f))

FairSpec == Spec /\ Fairness

-----------------------------------------------------------------------------
(* Properties *)

\* While a goroutine is inside fvm_machine_execute_message or
\* fvm_machine_flush, the machine behind the reference it passed has not been
\* dropped by the finalizer: what runtime.KeepAlive is there for (fvm.go).
NoUseAfterDrop ==
  \A g \in Goroutine :
    pc[g] \in {"decoding", "locking", "executing"} => machine[on[g]] = "live"

\* A call-back reaches the Externs that the creator of this FVM passed in, never
\* those of another FVM and never none; and between the lookup and the use of
\* what it found, the handle is not taken away (cgo/registry.go).
CallbackSeesOwnExterns ==
  \A g \in Goroutine :
    cb[g] # NoCallback => /\ cb[g].found = opts[on[g]]
                          /\ Lookup(exHandle[on[g]]) = cb[g].found

\* No code that Go can return makes the Rust side of a call-back panic: neither
\* table of codes has an entry the other does not expect, and the panics for an
\* unregistered handle are never reached.
NoBridgePanic ==
  \A g \in Goroutine :
    cb[g] # NoCallback /\ cb[g].code # "none"
      => RustOutcome(cb[g].kind, cb[g].code) # "panic"

\* The FVM objects whose handle the registry still maps.  A failed creation is
\* among them: its handle is never unregistered (fvm.go, CreateFVM).
HoldsHandle(f) == stage[f] \in {"creating", "ready", "finalizing", "failed"}

\* The registry holds exactly one entry per FVM that is being created, in use or
\* half finalized, and one for every creation that failed: no entry is lost or
\* shared, and none outlives a finalized FVM.
RegistryAccounted ==
  /\ \A h \in Handle :
       registry[h] # NoExterns <=> \E f \in Fvm : HoldsHandle(f) /\ exHandle[f] = h
  /\ \A f1, f2 \in Fvm :
       f1 # f2 /\ HoldsHandle(f1) /\ HoldsHandle(f2) => exHandle[f1] # exHandle[f2]

\* One execution at a time per machine: the Mutex names the goroutine that
\* executes on the machine, and frees it on every way out, panics included.
MutualExclusion ==
  \A f \in Fvm, g \in Goroutine : lock[f] = g <=> (pc[g] = "executing" /\ on[g] = f)

PoisonKept ==
  \A f \in Fvm :
    poisoned[f] =>
      /\ poisoned'[f]
      /\ \A g \in Goroutine :
           on[g] = f /\ pc[g] \in {"decoding", "locking"} =>
             /\ pc'[g] # "executing"
             /\ pc'[g] = "returned" => ret'[g] = "err"

\* After a panic under the guard the machine never executes again and is never
\* repaired: a call that has not taken the Mutex yet can only return an error.
PoisonIsForever == [][PoisonKept]_vars

\* An FVM nobody refers to any more is dropped and its handle unregistered: no
\* lock, poisoned or not, and no call in progress keeps it for ever.
DroppedIsReclaimed ==
  \A f \in Fvm :
    (stage[f] = "ready" /\ refs[f] = {})
      ~> (machine[f] = "dropped" /\ registry[exHandle[f]] = NoExterns)

\* How the detailed state looks to a user of an FVM.
LifeOf(m) == CASE m = "none" -> "absent" [] m = "live" -> "open" [] OTHER -> "closed"

Session == INSTANCE FvmSession
  WITH life <- [f \in Fvm |-> LifeOf(machine[f])], runner <- lock, broken <- poisoned

\* The machine, its Mutex and the finalizer together implement the session a
\* user of the FVM sees: one run at a time, none before Open, after Close or
\* after a panic, and no Close under a run.
SessionSpec == Session!Spec
-----------------------------------------------------------------------------
(* The inductive invariant: what makes the properties above inductive.     *)

CreatorPc == {"creating", "created"}

\* Where a goroutine is agrees with how far its FVM has come.
FramesMatchStages ==
  \A g \in Goroutine :
    /\ pc[g] # "idle" => on[g] \in Fvm
    /\ pc[g] \in CreatorPc => stage[on[g]] = "creating"
    /\ pc[g] = "creating" => machine[on[g]] = "none"
    /\ pc[g] = "created" => machine[on[g]] = "live"
    /\ pc[g] \in MethodPc => stage[on[g]] = "ready"
    /\ cb[g] # NoCallback => pc[g] \in {"creating", "executing"}

\* An FVM is created by one goroutine.
OneCreator ==
  \A g1, g2 \in Goroutine :
    pc[g1] \in CreatorPc /\ pc[g2] \in CreatorPc /\ on[g1] = on[g2] => g1 = g2

\* The machine lives exactly as long as its FVM may use it.
MachineMatchesStage ==
  \A f \in Fvm :
    /\ stage[f] \in {"none", "failed"} => machine[f] = "none"
    /\ stage[f] = "ready" => machine[f] = "live" /\ executor[f]
    /\ stage[f] \in {"finalizing", "finalized"} => machine[f] = "dropped"
    /\ refs[f] # {} => stage[f] = "ready"

\* Handles are issued in order and never twice.
HandlesFresh ==
  /\ \A f \in Fvm : stage[f] # "none" => exHandle[f] \in Handle /\ exHandle[f] < nextId
  /\ \A f1, f2 \in Fvm :
       f1 # f2 /\ stage[f1] # "none" /\ stage[f2] # "none" => exHandle[f1] # exHandle[f2]

\* Every entry of the registry has an owner, and the owner's handle is mapped to
\* what its creator passed in.
EntriesOwned ==
  /\ \A f \in Fvm :
       HoldsHandle(f) => opts[f] \in Externs /\ registry[exHandle[f]] = opts[f]
  /\ \A h \in Handle :
       registry[h] # NoExterns => \E f \in Fvm : HoldsHandle(f) /\ exHandle[f] = h

\* A pending answer is one of those the Go function has.
AnswerInTable ==
  \A g \in Goroutine :
    cb[g] # NoCallback /\ cb[g].code # "none" => cb[g].code \in GoCodes(cb[g].kind)

IndInv ==
  /\ TypeOK
  /\ FramesMatchStages
  /\ OneCreator
  /\ MachineMatchesStage
  /\ HandlesFresh
  /\ EntriesOwned
  /\ CallbackSeesOwnExterns
  /\ AnswerInTable
  /\ MutualExclusion
=============================================================================
