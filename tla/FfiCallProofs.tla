--------------------------- MODULE FfiCallProofs ---------------------------
(***************************************************************************)
(* What holds of FfiCall for any number of goroutines, of addresses and of *)
(* items, and for any choice of functions.                                 *)
(***************************************************************************)
EXTENDS FfiCall, TLAPS

\* The boxes and the response exist only where the wrapper has them in scope.
InScope ==
  \A g \in Goroutine :
    /\ stage[g] \in {"idle", "convert"} => boxes[g] = {}
    /\ stage[g] \notin {"reply", "destroy"} => resp[g] = {}

\* What is known of the result at every stage of the call.
ResultSoFar ==
  \A g \in Goroutine :
    /\ ret[g] \in {"ok", "no"} => outcome[g] = ret[g]
    /\ ret[g] = "ok" \/ (ret[g] = "no" /\ fn[g] \in Caught) => at[g] = Len(Body(fn[g]))
    /\ stage[g] \in {"convert", "box"} => at[g] = 0
    /\ stage[g] \in {"rust", "reply"} => at[g] <= Len(Body(fn[g]))
    /\ stage[g] = "reply" => outcome[g] \in Outcomes(fn[g], at[g])
    /\ stage[g] \in {"convert", "box", "rust"} => outcome[g] = "none"
    /\ stage[g] \in {"destroy", "decode", "clean", "idle"} =>
         (fn[g] = "GenerateWindowPoSt" /\ outcome[g] = "faults" => ret[g] = "errFaults")
    /\ stage[g] \in {"convert", "box", "rust", "reply"} => ret[g] = "none"

\* A call is a call of some function, and one that only lends boxes nothing.
KnownCall ==
  \A g \in Goroutine :
    /\ stage[g] # "idle" => fn[g] \in Calls
    /\ fn[g] \in Lending => left[g] = 0 /\ boxes[g] = {}

CallInv == TypeOK /\ InScope /\ KnownCall /\ OwnedOnce /\ ResultSoFar

\* Every function of the API has a body of some length.
LEMMA BodyLength ==
  ASSUME NEW f \in Api
  PROVE  Len(Body(f)) \in Nat
<1>1. ASSUME f \in DOMAIN PieceBodies PROVE Len(PieceBodies[f]) \in Nat
  BY <1>1 DEF PieceBodies
<1>2. ASSUME f \in DOMAIN FauxRepBodies PROVE Len(FauxRepBodies[f]) \in Nat
  BY <1>2 DEF FauxRepBodies
<1>3. ASSUME f \in DOMAIN SealBodies PROVE Len(SealBodies[f]) \in Nat
  BY <1>3 DEF SealBodies
<1>4. ASSUME f \in DOMAIN VerifySealBodies PROVE Len(VerifySealBodies[f]) \in Nat
  BY <1>4 DEF VerifySealBodies
<1>5. ASSUME f \in DOMAIN ChallengeBodies PROVE Len(ChallengeBodies[f]) \in Nat
  BY <1>5 DEF ChallengeBodies
<1>6. ASSUME f \in DOMAIN VanillaBodies PROVE Len(VanillaBodies[f]) \in Nat
  BY <1>6 DEF VanillaBodies
<1>7. ASSUME f \in DOMAIN WinningPoStBodies PROVE Len(WinningPoStBodies[f]) \in Nat
  BY <1>7 DEF WinningPoStBodies
<1>8. ASSUME f \in DOMAIN WindowPoStBodies PROVE Len(WindowPoStBodies[f]) \in Nat
  BY <1>8 DEF WindowPoStBodies
<1>9. ASSUME f \in DOMAIN PartitionBodies PROVE Len(PartitionBodies[f]) \in Nat
  BY <1>9 DEF PartitionBodies
<1>10. ASSUME f \in DOMAIN UpdateBodies PROVE Len(UpdateBodies[f]) \in Nat
  BY <1>10 DEF UpdateBodies
<1>11. ASSUME f \in DOMAIN UpdateProofBodies PROVE Len(UpdateProofBodies[f]) \in Nat
  BY <1>11 DEF UpdateProofBodies
<1>12. ASSUME f \in DOMAIN CommitmentBodies PROVE Len(CommitmentBodies[f]) \in Nat
  BY <1>12 DEF CommitmentBodies
<1>13. ASSUME f \in DOMAIN VersionBodies PROVE Len(VersionBodies[f]) \in Nat
  BY <1>13 DEF VersionBodies
<1>14. ASSUME f \in DOMAIN GpuBodies PROVE Len(GpuBodies[f]) \in Nat
  BY <1>14 DEF GpuBodies
<1>15. ASSUME f \in DOMAIN BlsBodies PROVE Len(BlsBodies[f]) \in Nat
  BY <1>15 DEF BlsBodies
<1>16. ASSUME f \in DOMAIN BlsOptionBodies PROVE Len(BlsOptionBodies[f]) \in Nat
  BY <1>16 DEF BlsOptionBodies
<1>17. ASSUME f \in DOMAIN BlsVerifyBodies PROVE Len(BlsVerifyBodies[f]) \in Nat
  BY <1>17 DEF BlsVerifyBodies
<1> QED BY <1>1, <1>2, <1>3, <1>4, <1>5, <1>6, <1>7, <1>8, <1>9, <1>10, <1>11, <1>12,
           <1>13, <1>14, <1>15, <1>16, <1>17 DEF Body, Api, Caught, BlsVerifyCalls

\* The verifications of BLS are not inside catch_panic.
LEMMA BlsNotCaught == BlsVerifyCalls \cap Caught = {}
BY DEF Caught, BlsVerifyCalls, PieceBodies, FauxRepBodies, SealBodies, VerifySealBodies,
       ChallengeBodies, VanillaBodies, WinningPoStBodies, WindowPoStBodies, PartitionBodies,
       UpdateBodies, UpdateProofBodies, CommitmentBodies, GpuBodies, BlsVerifyBodies

\* The outcomes of a function are outcomes of the type invariant.
LEMMA OutcomeTypes ==
  ASSUME NEW f, NEW k
  PROVE  Outcomes(f, k) \subseteq {"ok", "no", "err", "faults", "panic"}
BY DEF Outcomes, StepFails

\* A success, or the verdict of a function that catches panics, comes after its last step.
LEMMA SuccessAtTheEnd ==
  ASSUME NEW f \in Api, NEW k \in Nat, k <= Len(Body(f)), NEW o \in Outcomes(f, k),
         o = "ok" \/ (o = "no" /\ f \in Caught)
  PROVE  k = Len(Body(f))
<1>1. o \notin StepFails(f, Body(f)[k + 1])
  BY BlsNotCaught DEF StepFails
<1>2. ~(k < Len(Body(f)))
  BY <1>1 DEF Outcomes
<1> QED BY <1>2, BodyLength

\* No call holds anything before the first one.
LEMMA InitCall == Init => CallInv
BY CallAssumption
   DEF Init, CallInv, TypeOK, Stage, InScope, KnownCall, OwnedOnce, Held,
       ResultSoFar

\* A step that moves no box and leaves to every call what it held.
LEMMA NothingMoved ==
  ASSUME OwnedOnce, UNCHANGED <<boxes, resp, live>>,
         \A h \in Goroutine : Held(h)' = Held(h),
         \A h \in Goroutine : resp[h] # {} => fn'[h] = fn[h]
  PROVE  OwnedOnce' /\ LosesOnlyPoStProofs
<1>1. OwnedOnce'
  <2>1. \A h \in Goroutine : Held(h)' \subseteq live'
    BY DEF OwnedOnce
  <2>2. \A h \in Goroutine : resp'[h] \cap boxes'[h] # {} => TakesArgs(fn'[h])
    BY DEF OwnedOnce
  <2>3. \A h, k \in Goroutine : h # k => Held(h)' \cap Held(k)' = {}
    BY DEF OwnedOnce
  <2> QED BY <2>1, <2>2, <2>3 DEF OwnedOnce
<1>2. {Held(h) : h \in Goroutine}' = {Held(h) : h \in Goroutine}
  OBVIOUS
<1>3. Leaked' = Leaked
  BY <1>2 DEF Leaked
<1> QED BY <1>1, <1>3 DEF LosesOnlyPoStProofs

\* The steps that only move the call along.
QuietStep(g) ==
  \/ Call(g) \/ ConvertFails(g) \/ Convert(g) \/ LateConvertFails(g)
  \/ Enter(g) \/ RustStep(g) \/ Reply(g) \/ Decode(g)

\* They preserve the invariant and lose nothing.
LEMMA Quiet ==
  ASSUME NEW g \in Goroutine, CallInv, QuietStep(g)
  PROVE  CallInv' /\ LosesOnlyPoStProofs
<1> USE DEF CallInv, TypeOK, Stage
<1>1. TypeOK'
  <2> USE CallAssumption DEF Fail
  <2>1. CASE Call(g)
    <3>1. PICK f \in Calls : \E n \in Items(f) :
            fn' = [fn EXCEPT ![g] = f] /\ left' = [left EXCEPT ![g] = n]
      BY <2>1 DEF Call
    <3>2. Items(f) \subseteq 0 .. MaxItems
      BY DEF Items
    <3> QED BY <2>1, <3>1, <3>2 DEF Call
  <2>2. CASE ConvertFails(g) BY <2>2 DEF ConvertFails
  <2>3. CASE Convert(g) BY <2>3 DEF Convert
  <2>5. CASE LateConvertFails(g) BY <2>5 DEF LateConvertFails
  <2>6. CASE Enter(g) BY <2>6 DEF Enter
  <2>4. CASE RustStep(g) BY <2>4 DEF RustStep
  <2>7. CASE Reply(g)
    <3>1. Copied(fn[g], CatchPanic(outcome[g])) \in {"ok", "no", "err", "errFaults"}
      BY DEF Copied
    <3> QED BY <2>7, <3>1 DEF Reply
  <2>8. CASE Decode(g) BY <2>8 DEF Decode
  <2> QED BY <2>1, <2>2, <2>3, <2>4, <2>5, <2>6, <2>7, <2>8 DEF QuietStep
<1>2. /\ UNCHANGED <<boxes, resp, live>>
      /\ stage' = [stage EXCEPT ![g] = stage'[g]]
      /\ fn' = [fn EXCEPT ![g] = fn'[g]]
      /\ stage[g] # "idle" => fn' = fn
  BY DEF QuietStep, Call, ConvertFails, Convert, LateConvertFails, Enter, RustStep, Reply,
         Decode, Fail
<1>3. InScope'
  BY <1>2 DEF InScope, QuietStep, Call, ConvertFails, Convert, LateConvertFails,
              Enter, RustStep, Reply, Decode, Fail
<1>4. Held(g)' = Held(g)
  <2>1. CASE stage[g] \in {"idle", "convert"}
    <3>1. boxes[g] = {} /\ boxes'[g] = {} /\ resp'[g] = resp[g]
      BY <2>1, <1>2 DEF InScope
    <3> QED BY <3>1 DEF Held
  <2>2. CASE stage[g] \notin {"idle", "convert"}
    <3>1. fn' = fn
      BY <1>2, <2>2
    <3>2. TakesArgs(fn[g]) =>
            (stage'[g] \in {"reply", "destroy", "decode", "clean"}
               <=> stage[g] \in {"reply", "destroy", "decode", "clean"})
      BY <2>2 DEF QuietStep, Call, ConvertFails, Convert, LateConvertFails, Enter,
              RustStep, Reply, Decode, Fail, TakesArgs, ConvertsLate, ToFilPrivateReplicaInfos,
              ToFilPoStProofs
    <3> QED BY <3>1, <3>2, <1>2 DEF Held
  <2> QED BY <2>1, <2>2
<1>5. \A h \in Goroutine : Held(h)' = Held(h)
  <2> SUFFICES ASSUME NEW h \in Goroutine, h # g PROVE Held(h)' = Held(h)
    BY <1>4
  <2> QED BY <1>2 DEF Held
<1>6. \A h \in Goroutine : resp[h] # {} => fn'[h] = fn[h]
  BY <1>2 DEF InScope
<1>7. ResultSoFar'
  <2> USE DEF ResultSoFar, Fail
  <2>1. CASE Call(g) BY <2>1 DEF Call
  <2>2. CASE ConvertFails(g) BY <2>2 DEF ConvertFails
  <2>3. CASE Convert(g) BY <2>3 DEF Convert
  <2>5. CASE LateConvertFails(g) BY <2>5 DEF LateConvertFails
  <2>6. CASE Enter(g)
    <3>1. Len(Body(fn[g])) \in Nat
      BY <2>6, BodyLength, CallAssumption DEF Enter, KnownCall
    <3> QED BY <2>6, <3>1 DEF Enter
  <2>4. CASE RustStep(g)
    <3>1. Len(Body(fn[g])) \in Nat
      BY <2>4, BodyLength, CallAssumption DEF RustStep, KnownCall
    <3> QED BY <2>4, <3>1 DEF RustStep
  <2>7. CASE Reply(g)
    <3>1. fn[g] \in Api
      BY <2>7, CallAssumption DEF Reply, KnownCall
    <3>2. outcome[g] = "ok" \/ (outcome[g] = "no" /\ fn[g] \in Caught)
            => at[g] = Len(Body(fn[g]))
      BY <2>7, <3>1, SuccessAtTheEnd DEF Reply
    <3>3. ret'[g] \in {"ok", "no"} => outcome[g] = ret'[g]
      BY <2>7 DEF Reply, Copied, CatchPanic
    <3>4. fn[g] = "GenerateWindowPoSt" /\ outcome[g] = "faults" => ret'[g] = "errFaults"
      BY <2>7 DEF Reply, Copied, CatchPanic
    <3> QED BY <2>7, <3>2, <3>3, <3>4 DEF Reply
  <2>8. CASE Decode(g) BY <2>8 DEF Decode
  <2> QED BY <2>1, <2>2, <2>3, <2>4, <2>5, <2>6, <2>7, <2>8 DEF QuietStep
<1>8. KnownCall'
  <2> USE DEF KnownCall, Fail
  <2>1. CASE Call(g) BY <2>1 DEF Call, Items, InScope
  <2>2. CASE ConvertFails(g) BY <2>2 DEF ConvertFails
  <2>3. CASE Convert(g) BY <2>3 DEF Convert
  <2>5. CASE LateConvertFails(g) BY <2>5 DEF LateConvertFails
  <2>6. CASE Enter(g) BY <2>6 DEF Enter
  <2>4. CASE RustStep(g) BY <2>4 DEF RustStep
  <2>7. CASE Reply(g) BY <2>7 DEF Reply
  <2>8. CASE Decode(g) BY <2>8 DEF Decode
  <2> QED BY <2>1, <2>2, <2>3, <2>4, <2>5, <2>6, <2>7, <2>8 DEF QuietStep
<1> QED BY <1>1, <1>2, <1>3, <1>5, <1>6, <1>7, <1>8, NothingMoved

\* A step of g that changes the boxes of no other call: what has to be shown of g.
LEMMA OnlyOwnBoxes ==
  ASSUME NEW g \in Goroutine, OwnedOnce,
         \A h \in Goroutine : h # g =>
           Held(h)' = Held(h) /\ resp'[h] = resp[h] /\ boxes'[h] = boxes[h] /\ fn'[h] = fn[h],
         Held(g)' \subseteq live',
         resp'[g] \cap boxes'[g] # {} => TakesArgs(fn'[g]),
         live \ Held(g) \subseteq live',
         Held(g)' \cap live \subseteq Held(g),
         live' \ live \subseteq Held(g)',
         fn[g] \in ToFilPoStProofs \/ Held(g) \cap live' \subseteq Held(g)'
  PROVE  OwnedOnce' /\ LosesOnlyPoStProofs
<1>1. \A h \in Goroutine : Held(h)' \subseteq live'
  <2> SUFFICES ASSUME NEW h \in Goroutine, h # g PROVE Held(h)' \subseteq live'
    OBVIOUS
  <2>1. Held(h) \subseteq live /\ Held(h) \cap Held(g) = {}
    BY DEF OwnedOnce
  <2> QED BY <2>1
<1>2. \A h \in Goroutine : resp'[h] \cap boxes'[h] # {} => TakesArgs(fn'[h])
  BY DEF OwnedOnce
<1>3. \A h, k \in Goroutine : h # k => Held(h)' \cap Held(k)' = {}
  <2>1. \A h \in Goroutine : h # g => Held(h)' \cap Held(g)' = {}
    BY DEF OwnedOnce
  <2>2. \A h, k \in Goroutine : h # g /\ k # g /\ h # k => Held(h)' \cap Held(k)' = {}
    BY DEF OwnedOnce
  <2> QED BY <2>1, <2>2
<1>4. OwnedOnce'
  BY <1>1, <1>2, <1>3 DEF OwnedOnce
<1>5. LosesOnlyPoStProofs
  <2> SUFFICES ASSUME NEW a \in Leaked' \ Leaked
               PROVE  \E h \in Goroutine : a \in Held(h) /\ fn[h] \in ToFilPoStProofs
    BY DEF LosesOnlyPoStProofs
  <2>1. a \in live' /\ \A h \in Goroutine : a \notin Held(h)'
    BY DEF Leaked
  <2>2. a \in live
    BY <2>1
  <2>3. \E h \in Goroutine : a \in Held(h)
    BY <2>2 DEF Leaked
  <2>4. a \in Held(g)
    BY <2>1, <2>3
  <2> QED BY <2>1, <2>4
<1> QED BY <1>4, <1>5

\* The allocator hands out what was free.
LEMMA FreshBoxes ==
  ASSUME NEW n, Free(n) # {}
  PROVE  LET s == CHOOSE s \in Free(n) : TRUE IN s \subseteq Addr /\ s \cap live = {}
BY DEF Free

\* A box is made for an item of g.
LEMMA BoxStep ==
  ASSUME NEW g \in Goroutine, CallInv, Box(g)
  PROVE  CallInv' /\ LosesOnlyPoStProofs
<1> DEFINE s == CHOOSE s \in Free(BoxesPerItem(fn[g])) : TRUE
<1>1. s \subseteq Addr /\ s \cap live = {}
  BY FreshBoxes DEF Box
<1>2. /\ boxes' = [boxes EXCEPT ![g] = boxes[g] \cup s]
      /\ live' = live \cup s
      /\ left' = [left EXCEPT ![g] = left[g] - 1]
      /\ stage[g] = "box" /\ left[g] > 0
      /\ UNCHANGED <<stage, fn, at, resp, outcome, ret>>
  BY DEF Box
<1> HIDE DEF s
<1> USE DEF CallInv, TypeOK, Stage
<1>3. TypeOK'
  BY <1>1, <1>2, CallAssumption
<1>4. InScope'
  BY <1>2 DEF InScope
<1>5. ResultSoFar'
  BY <1>2 DEF ResultSoFar
<1>6. Held(g)' = Held(g) \cup s /\ resp[g] = {} /\ Held(g) \subseteq live
  BY <1>2 DEF Held, InScope, OwnedOnce
<1>7. \A h \in Goroutine : h # g =>
        Held(h)' = Held(h) /\ resp'[h] = resp[h] /\ boxes'[h] = boxes[h] /\ fn'[h] = fn[h]
  BY <1>2 DEF Held
<1>8. OwnedOnce' /\ LosesOnlyPoStProofs
  BY <1>1, <1>2, <1>6, <1>7, OnlyOwnBoxes
<1>9. KnownCall'
  BY <1>2 DEF KnownCall
<1> QED BY <1>3, <1>4, <1>5, <1>8, <1>9

\* An item of g cannot be converted.
LEMMA BoxFailsStep ==
  ASSUME NEW g \in Goroutine, CallInv, BoxFails(g)
  PROVE  CallInv' /\ LosesOnlyPoStProofs
<1> USE DEF CallInv, TypeOK, Stage, BoxFails, Fail
<1>1. TypeOK'
  BY CallAssumption
<1>2. InScope'
  BY DEF InScope
<1>3. ResultSoFar'
  BY DEF ResultSoFar
<1>4. Held(g)' = {} /\ Held(g) = boxes[g] /\ boxes[g] \subseteq live /\ resp'[g] = {}
  BY DEF Held, InScope, OwnedOnce
<1>5. \A h \in Goroutine : h # g =>
        Held(h)' = Held(h) /\ resp'[h] = resp[h] /\ boxes'[h] = boxes[h] /\ fn'[h] = fn[h]
  BY DEF Held
<1>6. live \ Held(g) \subseteq live' /\ live' \subseteq live
  BY <1>4
<1>7. fn[g] \in ToFilPoStProofs \/ Held(g) \cap live' = {}
  BY <1>4
<1>8. OwnedOnce' /\ LosesOnlyPoStProofs
  BY <1>4, <1>5, <1>6, <1>7, OnlyOwnBoxes
<1>9. KnownCall'
  BY DEF KnownCall
<1> QED BY <1>1, <1>2, <1>3, <1>8, <1>9

\* Rust drops what it was given by value and boxes its response, if there is one.
LEMMA RustReturnsStep ==
  ASSUME NEW g \in Goroutine, CallInv, RustReturns(g)
  PROVE  CallInv' /\ LosesOnlyPoStProofs
<1> DEFINE kept == IF TakesArgs(fn[g]) THEN live \ boxes[g] ELSE live
<1>1. PICK box \in SUBSET Addr :
        /\ box \cap kept = {}
        /\ resp' = [resp EXCEPT ![g] = box]
        /\ live' = kept \cup box
  <2> DEFINE b(o) == IF HasResponse(fn[g], o) THEN {CHOOSE c \in Addr \ kept : TRUE} ELSE {}
  <2>1. PICK o \in Outcomes(fn[g], at[g]) :
          /\ HasResponse(fn[g], o) => Addr \ kept # {}
          /\ resp' = [resp EXCEPT ![g] = b(o)]
          /\ live' = kept \cup b(o)
    BY DEF RustReturns
  <2>2. b(o) \in SUBSET Addr /\ b(o) \cap kept = {}
    <3>1. CASE HasResponse(fn[g], o)
      <4>1. (CHOOSE c \in Addr \ kept : TRUE) \in Addr \ kept
        BY <2>1, <3>1
      <4> QED BY <3>1, <4>1
    <3>2. CASE ~HasResponse(fn[g], o)
      BY <3>2
    <3> QED BY <3>1, <3>2
  <2> HIDE DEF b
  <2> QED BY <2>1, <2>2
<1>2. /\ stage[g] = "rust" /\ stage' = [stage EXCEPT ![g] = "reply"]
      /\ UNCHANGED <<fn, left, boxes, at, ret>>
  BY DEF RustReturns
<1>2a. PICK o \in Outcomes(fn[g], at[g]) : outcome' = [outcome EXCEPT ![g] = o]
  BY DEF RustReturns
<1>2b. o \in {"ok", "no", "err", "faults", "panic"}
  BY OutcomeTypes
<1>3. kept \subseteq live /\ live \ boxes[g] \subseteq kept
  OBVIOUS
<1>4. TakesArgs(fn[g]) => kept \cap boxes[g] = {}
  OBVIOUS
<1> HIDE DEF kept
<1> USE DEF CallInv, TypeOK, Stage
<1>5. TypeOK'
  BY <1>1, <1>2, <1>3, <1>2a, <1>2b
<1>6. InScope'
  BY <1>1, <1>2 DEF InScope
<1>7. ResultSoFar'
  <2>1. outcome'[g] \in Outcomes(fn'[g], at'[g])
    BY <1>2, <1>2a
  <2>2. ret'[g] = "none" /\ at'[g] <= Len(Body(fn'[g]))
    BY <1>2 DEF ResultSoFar
  <2> QED BY <1>2, <1>2a, <2>1, <2>2 DEF ResultSoFar
<1>8. Held(g) = boxes[g] /\ boxes[g] \subseteq live
  BY <1>2 DEF Held, InScope, OwnedOnce
<1>9. Held(g)' = box \cup (IF TakesArgs(fn[g]) THEN {} ELSE boxes[g])
  BY <1>1, <1>2 DEF Held
<1>10. \A h \in Goroutine : h # g =>
        Held(h)' = Held(h) /\ resp'[h] = resp[h] /\ boxes'[h] = boxes[h] /\ fn'[h] = fn[h]
  BY <1>1, <1>2 DEF Held
<1>13. KnownCall'
  BY <1>2 DEF KnownCall
<1>11. CASE TakesArgs(fn[g])
  <2>1. Held(g)' = box
    BY <1>9, <1>11
  <2>2. Held(g) \cap live' \subseteq Held(g)'
    BY <1>1, <1>4, <1>8, <1>11, <2>1
  <2>3. Held(g)' \cap live \subseteq Held(g)
    BY <1>1, <1>3, <1>8, <2>1
  <2>4. OwnedOnce' /\ LosesOnlyPoStProofs
    BY <1>1, <1>2, <1>3, <1>8, <1>10, <1>11, <2>1, <2>2, <2>3, OnlyOwnBoxes
  <2> QED BY <1>5, <1>6, <1>7, <1>13, <2>4
<1>12. CASE ~TakesArgs(fn[g])
  <2>1. Held(g)' = box \cup boxes[g] /\ kept = live
    BY <1>9, <1>12 DEF kept
  <2>2. resp'[g] \cap boxes'[g] = {}
    BY <1>1, <1>2, <1>8, <2>1
  <2>3. OwnedOnce' /\ LosesOnlyPoStProofs
    BY <1>1, <1>2, <1>8, <1>10, <2>1, <2>2, OnlyOwnBoxes
  <2> QED BY <1>5, <1>6, <1>7, <1>13, <2>3
<1> QED BY <1>11, <1>12

\* The response is destroyed.
LEMMA DestroyResponseStep ==
  ASSUME NEW g \in Goroutine, CallInv, DestroyResponse(g)
  PROVE  CallInv' /\ LosesOnlyPoStProofs
<1> USE DEF CallInv, TypeOK, Stage, DestroyResponse
<1>1. TypeOK'
  OBVIOUS
<1>2. InScope'
  BY DEF InScope
<1>3. ResultSoFar'
  BY DEF ResultSoFar
<1>4. Held(g)' = Held(g) \ resp[g] /\ resp[g] \subseteq Held(g) /\ resp'[g] = {}
  BY DEF Held, OwnedOnce
<1>5. Held(g) \subseteq live
  BY DEF OwnedOnce
<1>6. \A h \in Goroutine : h # g =>
        Held(h)' = Held(h) /\ resp'[h] = resp[h] /\ boxes'[h] = boxes[h] /\ fn'[h] = fn[h]
  BY DEF Held
<1>7. live' = live \ resp[g]
  OBVIOUS
<1>8. OwnedOnce' /\ LosesOnlyPoStProofs
  BY <1>4, <1>5, <1>6, <1>7, OnlyOwnBoxes
<1>9. KnownCall'
  BY DEF KnownCall
<1> QED BY <1>1, <1>2, <1>3, <1>8, <1>9

\* The wrapper returns: its boxes are destroyed, were Rust's, or are PoSt proofs.
LEMMA CleanAndReturnStep ==
  ASSUME NEW g \in Goroutine, CallInv, CleanAndReturn(g)
  PROVE  CallInv' /\ LosesOnlyPoStProofs
<1> USE DEF CallInv, TypeOK, Stage, CleanAndReturn
<1>1. TypeOK'
  BY CallAssumption
<1>2. InScope'
  BY DEF InScope
<1>3. ResultSoFar'
  BY DEF ResultSoFar
<1>4. Held(g)' = {} /\ resp[g] = {} /\ resp'[g] = {}
  BY DEF Held, InScope
<1>5. Held(g) = (IF TakesArgs(fn[g]) THEN {} ELSE boxes[g]) /\ Held(g) \subseteq live
  BY <1>4 DEF Held, OwnedOnce
<1>6. \A h \in Goroutine : h # g =>
        Held(h)' = Held(h) /\ resp'[h] = resp[h] /\ boxes'[h] = boxes[h] /\ fn'[h] = fn[h]
  BY DEF Held
<1>7. TakesArgs(fn[g]) => ~Cleans(fn[g])
  BY DEF TakesArgs, Cleans, ToVanillaProofs, ToPartitionProofs, ToUpdateVanillaProofs,
         ToFilPrivateReplicaInfos
<1>8. live \ Held(g) \subseteq live' /\ live' \subseteq live
  BY <1>5, <1>7
<1>9. fn[g] \in ToFilPoStProofs \/ Held(g) \cap live' = {}
  <2>1. CASE Cleans(fn[g]) BY <1>5, <2>1
  <2>2. CASE TakesArgs(fn[g]) BY <1>5, <2>2
  <2>3. CASE fn[g] \in Lending
    <3>1. boxes[g] = {}
      BY <2>3 DEF KnownCall
    <3> QED BY <1>5, <3>1
  <2>4. fn[g] \in Api
    BY CallAssumption DEF KnownCall
  <2> QED BY <2>1, <2>2, <2>3, <2>4 DEF Lending, Boxing, Cleans, TakesArgs, ToFilPrivateReplicaInfo
<1>10. OwnedOnce' /\ LosesOnlyPoStProofs
  BY <1>4, <1>5, <1>6, <1>8, <1>9, OnlyOwnBoxes
<1>11. KnownCall'
  BY DEF KnownCall
<1> QED BY <1>1, <1>2, <1>3, <1>10, <1>11

\* Every step preserves the invariant and loses no box but one of a PoSt proof.
LEMMA StepCall ==
  ASSUME CallInv, [Next]_vars
  PROVE  CallInv' /\ [LosesOnlyPoStProofs]_vars
<1>1. CASE UNCHANGED vars
  <2>1. CallInv'
    BY <1>1 DEF vars, CallInv, TypeOK, InScope, KnownCall, OwnedOnce, Held, ResultSoFar
  <2> QED BY <1>1, <2>1
<1>2. ASSUME NEW g \in Goroutine, Step(g) PROVE CallInv' /\ LosesOnlyPoStProofs
  BY <1>2, Quiet, BoxStep, BoxFailsStep, RustReturnsStep, DestroyResponseStep,
     CleanAndReturnStep DEF Step, QuietStep
<1> QED BY <1>1, <1>2 DEF Next

\* CallInv is an invariant.
THEOREM CallInvariance == Spec => []CallInv
<1> QED BY InitCall, StepCall, PTL DEF Spec

\* The variables of FfiCall keep their types.
THEOREM CallTypes == Spec => []TypeOK
<1>1. CallInv => TypeOK
  BY DEF CallInv
<1> QED BY <1>1, CallInvariance, PTL

\* No box of a call or of its response is freed while it is held, and none is held
\* twice, for any number of concurrent calls of any functions of the API.
THEOREM BoxesOwnedOnce == Spec => []OwnedOnce
<1>1. CallInv => OwnedOnce
  BY DEF CallInv
<1> QED BY <1>1, CallInvariance, PTL

\* No function but VerifyWinningPoSt and VerifyWindowPoSt ever loses a box.
THEOREM LeaksKnown == Spec => OnlyVerifyPoStLeaks
BY InitCall, StepCall, PTL DEF Spec, OnlyVerifyPoStLeaks

\* Every failure, a panic included, reaches the caller of the wrapper, and the
\* faulty sectors reach the caller of GenerateWindowPoSt.
THEOREM FailuresReported == Spec => []FailureReachesCaller
<1>1. CallInv => FailureReachesCaller
  BY DEF CallInv, ResultSoFar, FailureReachesCaller
<1> QED BY <1>1, CallInvariance, PTL
=============================================================================
