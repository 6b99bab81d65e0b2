------------------------------ MODULE FfiCall ------------------------------
(***************************************************************************)
(* A call of the proofs API (proofs.go, distributed.go, sector_update.go)  *)
(* or of BLS (bls.go), and the memory it moves between Go and Rust.  A     *)
(* wrapper converts its arguments, putting some into boxes on the Rust     *)
(* heap, calls the C function, copies the response, which is a box too,    *)
(* and destroys it.                                                        *)
(* Who frees the boxes of the arguments depends on the function: a cleaner *)
(* the wrapper defers, Rust, when it takes them by value, or nobody.       *)
(* Several goroutines call at once and share the heap.                     *)
(***************************************************************************)
EXTENDS Naturals, FiniteSets, Sequences

CONSTANTS
  Goroutine,
  Addr,       \* the addresses of the Rust heap; a bound on what is allocated
  Calls,      \* the functions that are called
  MaxItems    \* bound on the replicas or proofs passed to one call

-----------------------------------------------------------------------------
(***************************************************************************)
(* The C functions behind the API, one table for each group of them, in    *)
(* the order of rust/src/proofs/api.rs, and under the names of their Go    *)
(* wrappers.  A function is the sequence of what it does up to its answer, *)
(* each step on the result of those before it:                             *)
(*   "path"      as_path_buf, which fails on anything but Linux only       *)
(*   "parse"     serde_json::from_slice of the output of an earlier phase  *)
(*   "encode"    serde_json::to_vec of this phase's output                 *)
(*   "inputs"    convert_aggregation_inputs of every input                 *)
(*   "replicas"  to_private_replica_info_map                               *)
(*   "library"   the call of filecoin_proofs_api or of bls_signatures      *)
(*   "faulty"    such a call, whose error may name faulty sectors          *)
(*   "decode"    keys, digests or signatures from their bytes              *)
(*   "lengths"   the comparison of the lengths of two batches              *)
(* and what cannot fail: "format", "devices", "hash", "generate", "sign"   *)
(* and "compare" (verify_sig, verify_messages_sig).                        *)
(***************************************************************************)

PieceBodies == [WriteWithAlignment |-> <<"library">>, WriteWithoutAlignment |-> <<"library">>]

FauxRepBodies == [FauxRep |-> <<"path", "path", "library">>,
                  FauxRep2 |-> <<"path", "path", "library">>]

SealBodies ==
  [SealPreCommitPhase1 |-> <<"path", "path", "path", "library", "encode">>,
   SealPreCommitPhase2 |-> <<"parse", "path", "path", "library">>,
   SealCommitPhase1    |-> <<"path", "path", "library", "encode">>,
   SealCommitPhase2    |-> <<"parse", "library">>,
   AggregateSealProofs |-> <<"library">>]

\* Unseal is UnsealRange of the whole sector.
VerifySealBodies ==
  [VerifyAggregateSeals |-> <<"inputs", "library">>,
   Unseal               |-> <<"path", "library">>,
   UnsealRange          |-> <<"path", "library">>,
   VerifySeal           |-> <<"library">>]

ChallengeBodies == [GenerateWinningPoStSectorChallenge   |-> <<"library">>,
                    GeneratePoStFallbackSectorChallenges |-> <<"library">>]

VanillaBodies == [GenerateSingleVanillaProof |-> <<"path", "path", "library">>]

WinningPoStBodies == [GenerateWinningPoStWithVanilla |-> <<"library">>,
                      GenerateWinningPoSt            |-> <<"replicas", "library">>,
                      VerifyWinningPoSt              |-> <<"library">>]

WindowPoStBodies == [GenerateWindowPoStWithVanilla |-> <<"faulty">>,
                     GenerateWindowPoSt            |-> <<"replicas", "faulty">>,
                     VerifyWindowPoSt              |-> <<"library">>]

PartitionBodies == [MergeWindowPoStPartitionProofs |-> <<"library">>,
                    GetNumPartitionForFallbackPost |-> <<"library">>,
                    GenerateSinglePartitionWindowPoStWithVanilla |-> <<"faulty">>]

UpdateBodies ==
  [EncodeInto |-> <<"path", "path", "path", "path", "path", "library">>,
   DecodeFrom |-> <<"path", "path", "path", "path", "library">>,
   RemoveData |-> <<"path", "path", "path", "path", "path", "library">>,
   GenerateUpdateVanillaProofs |-> <<"path", "path", "path", "path", "library">>]

UpdateProofBodies ==
  [VerifyVanillaProofs            |-> <<"library">>,
   GenerateUpdateProofWithVanilla |-> <<"library">>,
   GenerateUpdateProof            |-> <<"path", "path", "path", "path", "library">>,
   VerifyUpdateProof              |-> <<"library">>]

CommitmentBodies == [GeneratePieceCIDFromFile |-> <<"library">>,
                     GenerateUnsealedCID      |-> <<"library">>,
                     ClearCache               |-> <<"path", "library">>]

\* These two neither start the logger nor catch panics.
VersionBodies == [GetSealVersion |-> <<"format">>, GetPoStVersion |-> <<"format">>]

GpuBodies == [GetGPUDevices |-> <<"devices">>]

\* BLS functions that always return a box,
BlsBodies ==
  [PrivateKeyGenerate |-> <<"generate">>, PrivateKeyGenerateWithSeed |-> <<"generate">>,
   CreateZeroSignature |-> << >>, Hash |-> <<"hash">>]

\* that return None on invalid arguments,
BlsOptionBodies == [Aggregate |-> <<"decode", "library">>,
                    PrivateKeySign |-> <<"decode", "sign">>,
                    PrivateKeyPublicKey |-> <<"decode", "generate">>]

\* and that return a plain bool.  None of them catches panics.
BlsVerifyBodies == [Verify |-> <<"decode", "lengths", "decode", "decode", "compare">>,
                    HashVerify |-> <<"decode", "lengths", "decode", "compare">>]

\* The functions that run inside catch_panic_response or catch_panic_response_raw.
Caught ==
  DOMAIN PieceBodies \cup DOMAIN FauxRepBodies \cup DOMAIN SealBodies
    \cup DOMAIN VerifySealBodies \cup DOMAIN ChallengeBodies \cup DOMAIN VanillaBodies
    \cup DOMAIN WinningPoStBodies \cup DOMAIN WindowPoStBodies \cup DOMAIN PartitionBodies
    \cup DOMAIN UpdateBodies \cup DOMAIN UpdateProofBodies \cup DOMAIN CommitmentBodies
    \cup DOMAIN GpuBodies

BlsVerifyCalls == DOMAIN BlsVerifyBodies

Api == Caught \cup DOMAIN VersionBodies \cup DOMAIN BlsBodies \cup DOMAIN BlsOptionBodies
         \cup BlsVerifyCalls

Body(f) ==
  CASE f \in DOMAIN PieceBodies -> PieceBodies[f]
    [] f \in DOMAIN FauxRepBodies -> FauxRepBodies[f]
    [] f \in DOMAIN SealBodies -> SealBodies[f]
    [] f \in DOMAIN VerifySealBodies -> VerifySealBodies[f]
    [] f \in DOMAIN ChallengeBodies -> ChallengeBodies[f]
    [] f \in DOMAIN VanillaBodies -> VanillaBodies[f]
    [] f \in DOMAIN WinningPoStBodies -> WinningPoStBodies[f]
    [] f \in DOMAIN WindowPoStBodies -> WindowPoStBodies[f]
    [] f \in DOMAIN PartitionBodies -> PartitionBodies[f]
    [] f \in DOMAIN UpdateBodies -> UpdateBodies[f]
    [] f \in DOMAIN UpdateProofBodies -> UpdateProofBodies[f]
    [] f \in DOMAIN CommitmentBodies -> CommitmentBodies[f]
    [] f \in DOMAIN VersionBodies -> VersionBodies[f]
    [] f \in DOMAIN GpuBodies -> GpuBodies[f]
    [] f \in DOMAIN BlsBodies -> BlsBodies[f]
    [] f \in DOMAIN BlsOptionBodies -> BlsOptionBodies[f]
    [] f \in DOMAIN BlsVerifyBodies -> BlsVerifyBodies[f]

\* The functions whose value is a verdict.
Verdicts == BlsVerifyCalls \cup
  {"VerifyAggregateSeals", "VerifySeal", "VerifyWinningPoSt", "VerifyWindowPoSt",
   "VerifyVanillaProofs", "VerifyUpdateProof"}

-----------------------------------------------------------------------------
(* The functions that box some of their arguments, by the conversion they use *)

\* toVanillaProofs: one box for every proof, and a cleaner.
ToVanillaProofs ==
  {"AggregateSealProofs", "GenerateWinningPoStWithVanilla",
   "GenerateWindowPoStWithVanilla", "GenerateSinglePartitionWindowPoStWithVanilla"}

\* toPartitionProofs does the same for partition proofs,
ToPartitionProofs == {"MergeWindowPoStPartitionProofs"}

\* and toUpdateVanillaProofs for the proofs of a sector update.
ToUpdateVanillaProofs == {"VerifyVanillaProofs", "GenerateUpdateProofWithVanilla"}

\* toFilPrivateReplicaInfos: two boxes for every replica.  A replica that cannot
\* be converted ends it.
ToFilPrivateReplicaInfos == {"GenerateWinningPoSt", "GenerateWindowPoSt"}

\* toFilPrivateReplicaInfo converts one replica, which C receives by value.
ToFilPrivateReplicaInfo == {"GenerateSingleVanillaProof"}

\* toFilPoStProofs: a box for every proof.  A proof of an unknown type ends it.
ToFilPoStProofs == {"VerifyWinningPoSt", "VerifyWindowPoSt"}

Boxing == ToVanillaProofs \cup ToPartitionProofs \cup ToUpdateVanillaProofs
            \cup ToFilPrivateReplicaInfos \cup ToFilPrivateReplicaInfo \cup ToFilPoStProofs

\* All others lend Go's memory to Rust.
Lending == Api \ Boxing

ASSUME CallAssumption == Calls \subseteq Api /\ MaxItems \in Nat

VARIABLES
  stage,    \* how far the call of each goroutine is
  fn,       \* the function called last
  left,     \* the items that are still to be converted
  boxes,    \* the boxes the conversion made for the call
  at,       \* the steps of the C function that are done
  resp,     \* the response that was not destroyed yet: a set of at most one box
  outcome,  \* what Rust made of the call
  ret,      \* what the wrapper returned, or is about to
  live      \* the addresses in use

vars == <<stage, fn, left, boxes, at, resp, outcome, ret, live>>

Stage == {"idle", "convert", "box", "rust", "reply", "destroy", "decode", "clean"}

TypeOK ==
  /\ stage \in [Goroutine -> Stage]
  /\ fn \in [Goroutine -> Calls \cup {"none"}]
  /\ left \in [Goroutine -> 0 .. MaxItems]
  /\ boxes \in [Goroutine -> SUBSET Addr]
  /\ at \in [Goroutine -> Nat]
  /\ resp \in [Goroutine -> SUBSET Addr]
  /\ outcome \in [Goroutine -> {"none", "ok", "no", "err", "faults", "panic"}]
  /\ ret \in [Goroutine -> {"none", "ok", "no", "err", "errFaults"}]
  /\ live \subseteq Addr

Init ==
  /\ stage = [g \in Goroutine |-> "idle"]
  /\ fn = [g \in Goroutine |-> "none"]
  /\ left = [g \in Goroutine |-> 0]
  /\ boxes = [g \in Goroutine |-> {}]
  /\ at = [g \in Goroutine |-> 0]
  /\ resp = [g \in Goroutine |-> {}]
  /\ outcome = [g \in Goroutine |-> "none"]
  /\ ret = [g \in Goroutine |-> "none"]
  /\ live = {}

-----------------------------------------------------------------------------
(* The conversion of the arguments *)

\* The number of items the call is made with.
Items(f) == IF f \in Lending THEN {0}
            ELSE IF f \in ToFilPrivateReplicaInfo THEN {1} \cap 0 .. MaxItems
            ELSE 0 .. MaxItems

Call(g) ==
  /\ stage[g] = "idle"
  /\ \E f \in Calls : \E n \in Items(f) :
       /\ fn' = [fn EXCEPT ![g] = f]
       /\ left' = [left EXCEPT ![g] = n]
  /\ stage' = [stage EXCEPT ![g] = "convert"]
  /\ outcome' = [outcome EXCEPT ![g] = "none"]
  /\ ret' = [ret EXCEPT ![g] = "none"]
  /\ at' = [at EXCEPT ![g] = 0]
  /\ UNCHANGED <<boxes, resp, live>>

\* The wrapper returns err before the call of C.
Fail(g, next) ==
  /\ stage' = [stage EXCEPT ![g] = next]
  /\ ret' = [ret EXCEPT ![g] = "err"]
  /\ UNCHANGED <<fn, at, resp, outcome>>

\* Which functions convert something before the first box is made: all but the two
\* that start with their replicas and the three that only lend what they are given.
ConvertsFirst(f) == f \in Caught \cup DOMAIN VersionBodies
  /\ f \notin ToFilPrivateReplicaInfos \cup {"GetGPUDevices", "ClearCache", "SealPreCommitPhase2"}

\* The proof type, the prover, a CID... cannot be converted.
ConvertFails(g) ==
  /\ stage[g] = "convert"
  /\ ConvertsFirst(fn[g])
  /\ Fail(g, "idle")
  /\ left' = [left EXCEPT ![g] = 0]
  /\ UNCHANGED <<boxes, live>>

Convert(g) ==
  /\ stage[g] = "convert"
  /\ stage' = [stage EXCEPT ![g] = "box"]
  /\ UNCHANGED <<fn, left, boxes, at, resp, outcome, ret, live>>

\* What a box is made for: the two paths of a replica, or a proof.
BoxesPerItem(f) ==
  IF f \in ToFilPrivateReplicaInfos \cup ToFilPrivateReplicaInfo THEN 2 ELSE 1

\* The sets of n addresses that alloc_boxed_slice may hand out.
Free(n) == {s \in SUBSET (Addr \ live) : Cardinality(s) = n}

\* The boxes of one more item.  Which free addresses the allocator takes is a
\* function of the addresses in use; freed addresses are used again.
Box(g) ==
  /\ stage[g] = "box" /\ left[g] > 0
  /\ Free(BoxesPerItem(fn[g])) # {}
  /\ LET s == CHOOSE s \in Free(BoxesPerItem(fn[g])) : TRUE
     IN  /\ boxes' = [boxes EXCEPT ![g] = @ \cup s]
         /\ live' = live \cup s
  /\ left' = [left EXCEPT ![g] = @ - 1]
  /\ UNCHANGED <<stage, fn, at, resp, outcome, ret>>

\* A slip: the error path does not call the cleaner.
BoxFailsLeaks(g) ==
  /\ stage[g] = "box" /\ left[g] > 0
  /\ fn[g] \in ToFilPrivateReplicaInfos \cup ToFilPoStProofs
  /\ Fail(g, "idle")
  /\ left' = [left EXCEPT ![g] = 0]
  /\ boxes' = [boxes EXCEPT ![g] = {}]
  /\ UNCHANGED live

\* An item cannot be converted.  toFilPrivateReplicaInfos destroys the boxes of the
\* items before it (makeCleanerPRI), toFilPoStProofs just returns.
BoxFails(g) ==
  /\ stage[g] = "box" /\ left[g] > 0
  /\ fn[g] \in ToFilPrivateReplicaInfos \cup ToFilPoStProofs
  /\ Fail(g, "idle")
  /\ left' = [left EXCEPT ![g] = 0]
  /\ boxes' = [boxes EXCEPT ![g] = {}]
  /\ live' = IF fn[g] \in ToFilPrivateReplicaInfos THEN live \ boxes[g] ELSE live

\* The functions that convert something after their boxes are made.
ConvertsLate == {"AggregateSealProofs"} \cup ToFilPrivateReplicaInfos \cup ToFilPoStProofs

\* The wrapper returns err; a cleaner it has deferred runs.
LateConvertFails(g) ==
  /\ stage[g] = "box" /\ left[g] = 0
  /\ fn[g] \in ConvertsLate
  /\ Fail(g, "clean")
  /\ UNCHANGED <<left, boxes, live>>

\* C is called.
Enter(g) ==
  /\ stage[g] = "box" /\ left[g] = 0
  /\ stage' = [stage EXCEPT ![g] = "rust"]
  /\ UNCHANGED <<fn, left, boxes, at, resp, outcome, ret, live>>

-----------------------------------------------------------------------------
(* Rust *)

\* A slip: the argument is passed by reference.
TakesNothing(f) == FALSE

\* Functions that take their boxed argument by value, and drop it when they end,
\* by a panic too.
TakesArgs(f) == f = "GenerateSingleVanillaProof"

\* The next step of the function succeeds.
RustStep(g) ==
  /\ stage[g] = "rust" /\ at[g] < Len(Body(fn[g]))
  /\ at' = [at EXCEPT ![g] = @ + 1]
  /\ UNCHANGED <<stage, fn, left, boxes, resp, outcome, ret, live>>

Infallible == {"format", "devices", "hash", "generate", "sign", "compare"}

\* What a function makes of a step that fails: `?' or try_ffi! return at once.  A BLS
\* verification that cannot even start is the verdict false.
StepFails(f, step) ==
  IF step \in Infallible THEN {}
  ELSE IF step = "faulty" THEN {"err", "faults"}
  ELSE IF f \in BlsVerifyCalls THEN {"no"} ELSE {"err"}

\* How a function may end when k of its steps are done: the next one fails, or there
\* are no more; and inside catch_panic a panic ends it anywhere.
Outcomes(f, k) ==
  (IF k < Len(Body(f)) THEN StepFails(f, Body(f)[k + 1])
   ELSE {"ok"} \cup (IF f \in Verdicts THEN {"no"} ELSE {}))
  \cup (IF f \in Caught THEN {"panic"} ELSE {})

\* Whether there is a response to destroy: not with a plain bool, and not with None.
HasResponse(f, o) == f \notin BlsVerifyCalls /\ ~(f \in DOMAIN BlsOptionBodies /\ o = "err")

\* A slip: the panic leaves the status of the default response, which is ok.
CatchPanicDefault(o) == IF o = "panic" THEN "ok" ELSE o

\* catch_panic_response: the status of the response, a panic becoming an error
\* with the default value.
CatchPanic(o) == IF o = "panic" THEN "err" ELSE o

\* The function ends, in one way or another, and the response is boxed.
RustReturns(g) ==
  /\ stage[g] = "rust"
  /\ \E o \in Outcomes(fn[g], at[g]) :
       /\ outcome' = [outcome EXCEPT ![g] = o]
       /\ LET kept == IF TakesArgs(fn[g]) THEN live \ boxes[g] ELSE live
              box == IF HasResponse(fn[g], o) THEN {CHOOSE b \in Addr \ kept : TRUE} ELSE {}
          IN  /\ HasResponse(fn[g], o) => Addr \ kept # {}
              /\ resp' = [resp EXCEPT ![g] = box]
              /\ live' = kept \cup box
  /\ stage' = [stage EXCEPT ![g] = "reply"]
  /\ UNCHANGED <<fn, left, boxes, at, ret>>

-----------------------------------------------------------------------------
(* The way back *)

\* A slip: the status is returned for the error.
CopiedVerbatim(f, status) == status

\* CheckErr, and the copy of the value: only GenerateWindowPoSt copies the faulty
\* sectors of a response with an error.  None becomes nil, BLS's only error.
Copied(f, status) ==
  IF status \in {"ok", "no"} THEN status
  ELSE IF f = "GenerateWindowPoSt" /\ status = "faults" THEN "errFaults" ELSE "err"

Reply(g) ==
  /\ stage[g] = "reply"
  /\ ret' = [ret EXCEPT ![g] = Copied(fn[g], CatchPanic(outcome[g]))]
  /\ stage' = [stage EXCEPT ![g] = "destroy"]
  /\ UNCHANGED <<fn, left, boxes, at, resp, outcome, live>>

\* The deferred resp.destroy().
DestroyResponse(g) ==
  /\ stage[g] = "destroy"
  /\ live' = live \ resp[g]
  /\ resp' = [resp EXCEPT ![g] = {}]
  /\ stage' = [stage EXCEPT ![g] = "decode"]
  /\ UNCHANGED <<fn, left, boxes, at, outcome, ret>>

\* The functions that convert the copied value (a CID, PoSt proofs).
ConvertsValue ==
  DOMAIN PieceBodies \cup DOMAIN FauxRepBodies \cup ToPartitionProofs \cup ToFilPrivateReplicaInfos
    \cup (ToVanillaProofs \ {"AggregateSealProofs"})
    \cup {"SealPreCommitPhase2", "EncodeInto", "GeneratePieceCIDFromFile", "GenerateUnsealedCID"}

Decode(g) ==
  /\ stage[g] = "decode"
  /\ \/ UNCHANGED ret
     \/ /\ fn[g] \in ConvertsValue /\ ret[g] = "ok"
        /\ ret' = [ret EXCEPT ![g] = "err"]
  /\ stage' = [stage EXCEPT ![g] = "clean"]
  /\ UNCHANGED <<fn, left, boxes, at, resp, outcome, live>>

\* A slip: a cleaner for the replica that Rust has dropped.
CleansMovedToo(f) == f \notin ToFilPoStProofs

\* The functions that defer a cleaner for their boxes.
Cleans(f) == f \in ToVanillaProofs \cup ToPartitionProofs \cup ToUpdateVanillaProofs
                     \cup ToFilPrivateReplicaInfos

\* The deferred cleaner, if there is one, destroys the boxes (makeCleanerSBU,
\* makeCleanerPRI); the wrapper returns, and its variables are gone.
CleanAndReturn(g) ==
  /\ stage[g] = "clean"
  /\ live' = IF Cleans(fn[g]) THEN live \ boxes[g] ELSE live
  /\ boxes' = [boxes EXCEPT ![g] = {}]
  /\ stage' = [stage EXCEPT ![g] = "idle"]
  /\ left' = [left EXCEPT ![g] = 0]
  /\ UNCHANGED <<fn, at, resp, outcome, ret>>

-----------------------------------------------------------------------------
Step(g) ==
  \/ Call(g) \/ ConvertFails(g) \/ Convert(g) \/ Box(g) \/ BoxFails(g)
  \/ LateConvertFails(g) \/ Enter(g) \/ RustStep(g) \/ RustReturns(g) \/ Reply(g)
  \/ DestroyResponse(g) \/ Decode(g) \/ CleanAndReturn(g)

Next == \E g \in Goroutine : Step(g)

Spec == Init /\ [][Next]_vars

-----------------------------------------------------------------------------
(* Properties *)

\* The boxes that are g's to free, or that Rust may read for g: the arguments,
\* unless Rust has taken and dropped them, and the response.
Held(g) ==
  resp[g] \cup (IF TakesArgs(fn[g]) /\ stage[g] \in {"reply", "destroy", "decode", "clean"}
                THEN {} ELSE boxes[g])

\* No box is freed while it is held, by its own call or, freed twice, by the call
\* that was given its address next; and no box is held by two.  So what Rust reads
\* during a call, and what the wrapper copies from the response, is still there.
OwnedOnce ==
  /\ \A g \in Goroutine : Held(g) \subseteq live
  /\ \A g \in Goroutine : resp[g] \cap boxes[g] # {} => TakesArgs(fn[g])
  /\ \A g, h \in Goroutine : g # h => Held(g) \cap Held(h) = {}

Leaked == live \ UNION {Held(g) : g \in Goroutine}

\* No function loses a box but VerifyWinningPoSt and VerifyWindowPoSt, whatever
\* conversion failed and whatever Rust made of the call: a box that is in use and
\* that nobody holds any more was made by toFilPoStProofs.
LosesOnlyPoStProofs ==
  \A a \in Leaked' \ Leaked : \E g \in Goroutine : a \in Held(g) /\ fn[g] \in ToFilPoStProofs

OnlyVerifyPoStLeaks == [][LosesOnlyPoStProofs]_vars

\* No failure is lost on the way back, and none on the way through the C function: a
\* wrapper reports success, or says that a proof or a signature holds, only when Rust
\* went through all of its steps and said so; a panic is an error and never a verdict,
\* nor is an error of a verification of proofs; and GenerateWindowPoSt returns the
\* faulty sectors Rust found.
FailureReachesCaller ==
  \A g \in Goroutine : stage[g] = "idle" =>
    /\ ret[g] \in {"ok", "no"} => outcome[g] = ret[g]
    /\ ret[g] = "ok" \/ (ret[g] = "no" /\ fn[g] \in Caught) => at[g] = Len(Body(fn[g]))
    /\ fn[g] = "GenerateWindowPoSt" /\ outcome[g] = "faults" => ret[g] = "errFaults"
=============================================================================
