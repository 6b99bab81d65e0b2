-------------------------- MODULE FvmBridgeProofs --------------------------
(***************************************************************************)
(* What holds of FvmBridge for every number of goroutines, FVMs, Externs   *)
(* and handles.  IndInv is inductive (one lemma per action); the safety    *)
(* properties follow from it, and with it every step maps to a step of     *)
(* FvmSession.                                                             *)
(***************************************************************************)
EXTENDS FvmBridge, TLAPS


(* The tables of codes *)

\* No code in Go's table for a kind of call-back is one that the Rust match for
\* that kind panics on.
LEMMA CodeTables ==
  ASSUME NEW k \in AllKinds, NEW c \in GoCodes(k)
  PROVE  RustOutcome(k, c) # "panic"
BY DEF AllKinds, GoCodes, RustOutcome, HasCodes, GetCodes, PutCodes, PutManyCodes,
       RandomnessCodes, FaultCodes, HasAccepts, HasPanics, GetAccepts, GetPanics,
       PutAccepts, PutPanics, PutManyAccepts, PutManyPanics, ExternAccepts, ExternPanics

\* In every state of the invariant the pending answers are harmless.
LEMMA TablesAgree == IndInv => NoBridgePanic
<1> SUFFICES ASSUME IndInv, NEW g \in Goroutine, cb[g] # NoCallback, cb[g].code # "none"
             PROVE  RustOutcome(cb[g].kind, cb[g].code) # "panic"
  BY DEF NoBridgePanic
<1>1. cb[g].kind \in AllKinds
  BY KindAssumption DEF IndInv, TypeOK, Callback
<1>2. cb[g].code \in GoCodes(cb[g].kind)
  BY DEF IndInv, AnswerInTable
<1> QED BY <1>1, <1>2, CodeTables

-----------------------------------------------------------------------------
(* What an action that leaves some variables alone cannot disturb *)

\* The registry and the handles are as they were.
LEMMA HandlesUndisturbed ==
  ASSUME IndInv, UNCHANGED <<registry, nextId, stage, exHandle, opts>>
  PROVE  HandlesFresh' /\ EntriesOwned'
BY DEF IndInv, HandlesFresh, EntriesOwned, HoldsHandle

\* The call-backs are as they were, and so is all they were looked up in.
LEMMA CallbacksUndisturbed ==
  ASSUME IndInv, UNCHANGED <<registry, exHandle, opts, on, cb>>
  PROVE  CallbackSeesOwnExterns' /\ AnswerInTable'
BY DEF IndInv, CallbackSeesOwnExterns, AnswerInTable, Lookup

\* The goroutines are where they were, and so is the Mutex of every machine.
LEMMA FramesUndisturbed ==
  ASSUME IndInv, UNCHANGED <<pc, on, lock>>
  PROVE  OneCreator' /\ MutualExclusion'
BY DEF IndInv, OneCreator, MutualExclusion

-----------------------------------------------------------------------------
(* IndInv is inductive *)

\* Before the first call nothing is registered, locked or running.
LEMMA InitInd == Init => IndInv
<1> SUFFICES ASSUME Init PROVE IndInv
  OBVIOUS
<1> USE SentinelAssumption, HandleAssumption DEF Init
<1>1. TypeOK
  BY DEF TypeOK, Handle, Stage, MachineState, Pc, Result
<1>2. FramesMatchStages /\ OneCreator
  BY DEF FramesMatchStages, OneCreator, CreatorPc, MethodPc
<1>3. MachineMatchesStage /\ HandlesFresh /\ EntriesOwned
  BY DEF MachineMatchesStage, HandlesFresh, EntriesOwned, HoldsHandle
<1>4. CallbackSeesOwnExterns /\ AnswerInTable /\ MutualExclusion
  BY DEF CallbackSeesOwnExterns, AnswerInTable, MutualExclusion
<1> QED BY <1>1, <1>2, <1>3, <1>4 DEF IndInv

\* CreateRejected only reports an error.
LEMMA CreateRejectedInd ==
  ASSUME NEW g \in Goroutine,
         IndInv, CreateRejected(g)
  PROVE  IndInv'
<1> USE DEF IndInv, CreateRejected, goVars, objVars, rustVars
<1>1. TypeOK'
  BY DEF TypeOK, Stage, MachineState, Pc, MethodPc, Result
<1>2. FramesMatchStages'
  BY DEF FramesMatchStages, OneCreator, MachineMatchesStage, TypeOK, CreatorPc, MethodPc
<1>3. MachineMatchesStage'
  BY DEF MachineMatchesStage, FramesMatchStages, TypeOK, CreatorPc, MethodPc
<1>4. HandlesFresh' /\ EntriesOwned'
  BY HandlesUndisturbed
<1>5. CallbackSeesOwnExterns' /\ AnswerInTable'
  BY CallbacksUndisturbed
<1>6. OneCreator' /\ MutualExclusion'
  BY FramesUndisturbed
<1> QED BY <1>1, <1>2, <1>3, <1>4, <1>5, <1>6

\* CreateFVM issues a fresh handle: no goroutine works on f yet, and no FVM
\* has the handle.
LEMMA CreateFVMInd ==
  ASSUME NEW g \in Goroutine, NEW f \in Fvm, NEW x \in Externs,
         IndInv, CreateFVM(g, f, x)
  PROVE  IndInv'
<1> USE SentinelAssumption DEF IndInv, CreateFVM, Register, rustVars
<1>a. \A g2 \in Goroutine : on[g2] = f => pc[g2] = "idle"
  BY DEF FramesMatchStages, TypeOK, Pc, CreatorPc, MethodPc
<1>b. nextId \in Handle
  BY HandleAssumption DEF TypeOK, Handle
<1>1. TypeOK'
  BY <1>b, HandleAssumption DEF TypeOK, Handle, Stage, Pc, Result
<1>2. FramesMatchStages'
  BY <1>a DEF FramesMatchStages, MachineMatchesStage, TypeOK, CreatorPc, MethodPc
<1>3. OneCreator'
  BY <1>a DEF OneCreator, TypeOK, CreatorPc
<1>4. MachineMatchesStage'
  BY DEF MachineMatchesStage, FramesMatchStages, TypeOK, CreatorPc, MethodPc
<1>5. HandlesFresh'
  BY <1>b, HandleAssumption DEF HandlesFresh, TypeOK, Handle
<1>6. EntriesOwned'
  <2>1. ASSUME NEW f2 \in Fvm, HoldsHandle(f2)'
        PROVE (opts[f2] \in Externs /\ registry[exHandle[f2]] = opts[f2])'
    BY <1>b, <2>1, HandleAssumption DEF EntriesOwned, TypeOK, HoldsHandle, Handle, HandlesFresh
  <2>2. ASSUME NEW h \in Handle, registry'[h] # NoExterns
        PROVE \E f2 \in Fvm : (HoldsHandle(f2) /\ exHandle[f2] = h)'
    <3>1. CASE h = nextId
      BY <3>1 DEF HoldsHandle, TypeOK
    <3>2. CASE h # nextId
      <4>1. PICK f2 \in Fvm : HoldsHandle(f2) /\ exHandle[f2] = h
        BY <2>2, <3>2, <1>b DEF EntriesOwned, TypeOK
      <4> QED BY <4>1 DEF HoldsHandle, TypeOK
    <3> QED BY <3>1, <3>2
  <2> QED BY <2>1, <2>2 DEF EntriesOwned
<1>7. CallbackSeesOwnExterns'
  <2> SUFFICES ASSUME NEW g2 \in Goroutine, cb[g2] # NoCallback
               PROVE  (cb[g2].found = opts[on[g2]] /\ Lookup(exHandle[on[g2]]) = cb[g2].found)'
    BY DEF CallbackSeesOwnExterns, NoCallback
  <2>1. g2 # g /\ on[g2] \in Fvm /\ on[g2] # f /\ stage[on[g2]] # "none"
    BY <1>a DEF FramesMatchStages, CreatorPc, MethodPc
  <2>2. exHandle[on[g2]] \in Handle /\ exHandle[on[g2]] < nextId
    BY <2>1 DEF HandlesFresh
  <2> QED BY <1>b, <2>1, <2>2, HandleAssumption DEF CallbackSeesOwnExterns, TypeOK, Lookup, Handle
<1>8. AnswerInTable'
  BY DEF AnswerInTable, TypeOK
<1>9. MutualExclusion'
  BY DEF MutualExclusion, FramesMatchStages, TypeOK, CreatorPc, MethodPc
<1> QED BY <1>1, <1>2, <1>3, <1>4, <1>5, <1>6, <1>7, <1>8, <1>9

\* CreateFails leaves the handle registered and the machine unmade.
LEMMA CreateFailsInd ==
  ASSUME NEW g \in Goroutine,
         IndInv, CreateFails(g)
  PROVE  IndInv'
<1> USE DEF IndInv, CreateFails, goVars, rustVars
<1>1. TypeOK'
  BY DEF TypeOK, Stage, MachineState, Pc, MethodPc, Result
<1>2. FramesMatchStages'
  BY DEF FramesMatchStages, OneCreator, MachineMatchesStage, TypeOK, CreatorPc, MethodPc
<1>3. OneCreator'
  BY DEF OneCreator, FramesMatchStages, TypeOK, CreatorPc, MethodPc
<1>4. MachineMatchesStage'
  BY DEF MachineMatchesStage, FramesMatchStages, TypeOK, CreatorPc, MethodPc
<1>5. HandlesFresh'
  BY DEF HandlesFresh, FramesMatchStages, TypeOK, CreatorPc, MethodPc
<1>6. EntriesOwned'
  BY DEF EntriesOwned, FramesMatchStages, TypeOK, HoldsHandle, CreatorPc, MethodPc
<1>7. CallbackSeesOwnExterns'
  BY DEF CallbackSeesOwnExterns, FramesMatchStages, TypeOK, Lookup, MethodPc, CreatorPc
<1>8. AnswerInTable'
  BY DEF AnswerInTable, TypeOK
<1>9. MutualExclusion'
  BY DEF MutualExclusion, FramesMatchStages, TypeOK, CreatorPc, MethodPc
<1> QED BY <1>1, <1>2, <1>3, <1>4, <1>5, <1>6, <1>7, <1>8, <1>9

\* CreateSucceeds makes the machine of the FVM its goroutine alone creates.
LEMMA CreateSucceedsInd ==
  ASSUME NEW g \in Goroutine,
         IndInv, CreateSucceeds(g)
  PROVE  IndInv'
<1> USE DEF IndInv, CreateSucceeds, goVars, objVars
<1>1. TypeOK'
  BY DEF TypeOK, Stage, MachineState, Pc, MethodPc, Result
<1>2. FramesMatchStages'
  BY DEF FramesMatchStages, OneCreator, MachineMatchesStage, TypeOK, CreatorPc, MethodPc
<1>3. OneCreator'
  BY DEF OneCreator, FramesMatchStages, TypeOK, CreatorPc, MethodPc
<1>4. MachineMatchesStage'
  BY DEF MachineMatchesStage, FramesMatchStages, TypeOK, CreatorPc, MethodPc
<1>5. HandlesFresh' /\ EntriesOwned'
  BY HandlesUndisturbed
<1>6. CallbackSeesOwnExterns' /\ AnswerInTable'
  BY CallbacksUndisturbed
<1>7. MutualExclusion'
  BY DEF MutualExclusion, FramesMatchStages, TypeOK, CreatorPc, MethodPc
<1> QED BY <1>1, <1>2, <1>3, <1>4, <1>5, <1>6, <1>7

\* TakeExecutor hands the machine, still live, to the new FVM.
LEMMA TakeExecutorInd ==
  ASSUME NEW g \in Goroutine,
         IndInv, TakeExecutor(g)
  PROVE  IndInv'
<1> USE DEF IndInv, TakeExecutor, DestroyCreateResponse, goVars
<1>1. TypeOK'
  BY DEF TypeOK, Stage, MachineState, Pc, MethodPc, Result
<1>2. FramesMatchStages'
  BY DEF FramesMatchStages, OneCreator, MachineMatchesStage, TypeOK, CreatorPc, MethodPc
<1>3. OneCreator'
  BY DEF OneCreator, FramesMatchStages, TypeOK, CreatorPc, MethodPc
<1>4. MachineMatchesStage'
  BY DEF MachineMatchesStage, FramesMatchStages, TypeOK, CreatorPc, MethodPc
<1>5. HandlesFresh'
  BY DEF HandlesFresh, FramesMatchStages, TypeOK, CreatorPc, MethodPc
<1>6. EntriesOwned'
  BY DEF EntriesOwned, FramesMatchStages, TypeOK, HoldsHandle, CreatorPc, MethodPc
<1>7. CallbackSeesOwnExterns'
  BY DEF CallbackSeesOwnExterns, FramesMatchStages, TypeOK, Lookup, MethodPc, CreatorPc
<1>8. AnswerInTable'
  BY DEF AnswerInTable, TypeOK
<1>9. MutualExclusion'
  BY DEF MutualExclusion, FramesMatchStages, TypeOK, CreatorPc, MethodPc
<1> QED BY <1>1, <1>2, <1>3, <1>4, <1>5, <1>6, <1>7, <1>8, <1>9

\* CgoEnter looks up the handle of an FVM that holds it.
LEMMA CgoEnterInd ==
  ASSUME NEW g \in Goroutine, NEW k \in Kind,
         IndInv, CgoEnter(g, k)
  PROVE  IndInv'
<1> USE DEF IndInv, CgoEnter, InRust, goVars, objVars, rustVars
<1>a. /\ on[g] \in Fvm /\ HoldsHandle(on[g])
      /\ exHandle[on[g]] \in Handle
      /\ opts[on[g]] \in Externs /\ registry[exHandle[on[g]]] = opts[on[g]]
  BY DEF FramesMatchStages, CreatorPc, MethodPc, HandlesFresh, EntriesOwned, HoldsHandle
<1>1. TypeOK'
  BY <1>a DEF TypeOK, Lookup, Callback
<1>2. FramesMatchStages'
  BY DEF FramesMatchStages, OneCreator, MachineMatchesStage, TypeOK, CreatorPc, MethodPc
<1>3. MachineMatchesStage'
  BY DEF MachineMatchesStage, FramesMatchStages, TypeOK, CreatorPc, MethodPc
<1>4. HandlesFresh' /\ EntriesOwned'
  BY HandlesUndisturbed
<1>5. CallbackSeesOwnExterns'
  BY <1>a DEF CallbackSeesOwnExterns, TypeOK, Lookup
<1>6. AnswerInTable'
  BY DEF AnswerInTable, TypeOK
<1>7. OneCreator' /\ MutualExclusion'
  BY FramesUndisturbed
<1> QED BY <1>1, <1>2, <1>3, <1>4, <1>5, <1>6, <1>7

\* CgoReturn found Externs, so its code is one of the table's.
LEMMA CgoReturnInd ==
  ASSUME NEW g \in Goroutine,
         IndInv, CgoReturn(g)
  PROVE  IndInv'
<1> USE DEF IndInv, goVars, objVars, rustVars
<1>a. PICK c \in Code :
        /\ c \in GoCodes(cb[g].kind)
        /\ cb' = [cb EXCEPT ![g].code = c]
  <2>1. on[g] \in Fvm /\ HoldsHandle(on[g])
    BY DEF CgoReturn, FramesMatchStages, CreatorPc, MethodPc, HoldsHandle
  <2>2. cb[g].found # NoExterns
    BY <2>1, SentinelAssumption DEF CgoReturn, CallbackSeesOwnExterns, EntriesOwned
  <2> QED BY <2>2 DEF CgoReturn
<1>1. TypeOK'
  <2>1. cb[g] \in Callback
    BY DEF CgoReturn, TypeOK
  <2>2. cb' \in [Goroutine -> Callback \cup {NoCallback}]
    BY <1>a, <2>1 DEF TypeOK, Callback
  <2> QED BY <2>2 DEF TypeOK, CgoReturn
<1>2. FramesMatchStages'
  BY <1>a DEF FramesMatchStages, TypeOK, CgoReturn, NoCallback
<1>3. MachineMatchesStage'
  BY DEF MachineMatchesStage, CgoReturn
<1>4. HandlesFresh' /\ EntriesOwned'
  BY HandlesUndisturbed DEF CgoReturn
<1>5. CallbackSeesOwnExterns'
  BY <1>a DEF CallbackSeesOwnExterns, TypeOK, Callback, CgoReturn, NoCallback, Lookup
<1>6. AnswerInTable'
  BY <1>a DEF AnswerInTable, TypeOK, Callback, CgoReturn, NoCallback
<1>7. OneCreator' /\ MutualExclusion'
  BY FramesUndisturbed DEF CgoReturn
<1> QED BY <1>1, <1>2, <1>3, <1>4, <1>5, <1>6, <1>7

\* RustMatch only leaves the call-back: by TablesAgree it does not panic.
LEMMA RustMatchInd ==
  ASSUME NEW g \in Goroutine, IndInv, RustMatch(g)
  PROVE  IndInv'
<1> USE DEF IndInv, goVars
<1>a. /\ cb' = [cb EXCEPT ![g] = NoCallback]
      /\ UNCHANGED <<registry, nextId, stage, exHandle, opts, executor, refs, machine,
                     lock, poisoned, pc, on, ret>>
  BY TablesAgree DEF RustMatch, NoBridgePanic
<1>1. TypeOK' BY <1>a DEF TypeOK
<1>2. FramesMatchStages' /\ AnswerInTable' /\ CallbackSeesOwnExterns'
  BY <1>a DEF FramesMatchStages, AnswerInTable, CallbackSeesOwnExterns, TypeOK, Lookup
<1>3. OneCreator' /\ MachineMatchesStage' /\ HandlesFresh' /\ EntriesOwned' /\ MutualExclusion'
  BY <1>a DEF OneCreator, MachineMatchesStage, HandlesFresh, EntriesOwned, MutualExclusion, HoldsHandle
<1> QED BY <1>1, <1>2, <1>3

\* Share: only the holder of a reference can hand it on.
LEMMA ShareInd ==
  ASSUME NEW g \in Goroutine, NEW g2 \in Goroutine, NEW f \in Fvm,
         IndInv, Share(g, g2, f)
  PROVE  IndInv'
<1> USE DEF IndInv, Share, goVars, rustVars
<1>1. TypeOK'
  BY DEF TypeOK, Stage, MachineState, Pc, MethodPc, Result
<1>2. FramesMatchStages'
  BY DEF FramesMatchStages, OneCreator, MachineMatchesStage, TypeOK, CreatorPc, MethodPc
<1>3. MachineMatchesStage'
  BY DEF MachineMatchesStage, FramesMatchStages, TypeOK, CreatorPc, MethodPc
<1>4. HandlesFresh' /\ EntriesOwned'
  BY HandlesUndisturbed
<1>5. CallbackSeesOwnExterns' /\ AnswerInTable'
  BY CallbacksUndisturbed
<1>6. OneCreator' /\ MutualExclusion'
  BY FramesUndisturbed
<1> QED BY <1>1, <1>2, <1>3, <1>4, <1>5, <1>6

\* DropRef makes no reference.
LEMMA DropRefInd ==
  ASSUME NEW g \in Goroutine, NEW f \in Fvm,
         IndInv, DropRef(g, f)
  PROVE  IndInv'
<1> USE DEF IndInv, DropRef, goVars, rustVars
<1>1. TypeOK'
  BY DEF TypeOK, Stage, MachineState, Pc, MethodPc, Result
<1>2. FramesMatchStages'
  BY DEF FramesMatchStages, OneCreator, MachineMatchesStage, TypeOK, CreatorPc, MethodPc
<1>3. MachineMatchesStage'
  BY DEF MachineMatchesStage, FramesMatchStages, TypeOK, CreatorPc, MethodPc
<1>4. HandlesFresh' /\ EntriesOwned'
  BY HandlesUndisturbed
<1>5. CallbackSeesOwnExterns' /\ AnswerInTable'
  BY CallbacksUndisturbed
<1>6. OneCreator' /\ MutualExclusion'
  BY FramesUndisturbed
<1> QED BY <1>1, <1>2, <1>3, <1>4, <1>5, <1>6

\* A method is started on an FVM that is referred to, hence ready.
LEMMA StartMethodInd ==
  ASSUME NEW g \in Goroutine, NEW f \in Fvm, NEW first \in {"decoding", "locking"},
         IndInv, StartMethod(g, f, first)
  PROVE  IndInv'
<1> USE DEF IndInv, StartMethod, goVars, objVars, rustVars
<1>1. TypeOK'
  BY DEF TypeOK, Stage, MachineState, Pc, MethodPc, Result
<1>2. FramesMatchStages'
  BY DEF FramesMatchStages, OneCreator, MachineMatchesStage, TypeOK, CreatorPc, MethodPc
<1>3. OneCreator'
  BY DEF OneCreator, FramesMatchStages, TypeOK, CreatorPc, MethodPc
<1>4. MachineMatchesStage'
  BY DEF MachineMatchesStage, FramesMatchStages, TypeOK, CreatorPc, MethodPc
<1>5. HandlesFresh' /\ EntriesOwned'
  BY HandlesUndisturbed
<1>6. CallbackSeesOwnExterns'
  BY DEF CallbackSeesOwnExterns, FramesMatchStages, TypeOK, Lookup, MethodPc, CreatorPc
<1>7. AnswerInTable'
  BY DEF AnswerInTable, TypeOK
<1>8. MutualExclusion'
  BY DEF MutualExclusion, FramesMatchStages, TypeOK, CreatorPc, MethodPc
<1> QED BY <1>1, <1>2, <1>3, <1>4, <1>5, <1>6, <1>7, <1>8

\* Decode stays inside the method.
LEMMA DecodeInd ==
  ASSUME NEW g \in Goroutine,
         IndInv, Decode(g)
  PROVE  IndInv'
<1> USE DEF IndInv, Decode, goVars, objVars, rustVars
<1>1. TypeOK'
  BY DEF TypeOK, Pc, MethodPc, Result
<1>2. FramesMatchStages'
  BY DEF FramesMatchStages, OneCreator, MachineMatchesStage, TypeOK, CreatorPc, MethodPc
<1>3. OneCreator'
  BY DEF OneCreator, FramesMatchStages, TypeOK, CreatorPc, MethodPc
<1>4. MachineMatchesStage'
  BY DEF MachineMatchesStage, FramesMatchStages, TypeOK, CreatorPc, MethodPc
<1>5. HandlesFresh' /\ EntriesOwned'
  BY HandlesUndisturbed
<1>6. CallbackSeesOwnExterns' /\ AnswerInTable'
  BY CallbacksUndisturbed
<1>7. MutualExclusion'
  BY DEF MutualExclusion, FramesMatchStages, TypeOK, CreatorPc, MethodPc
<1> QED BY <1>1, <1>2, <1>3, <1>4, <1>5, <1>6, <1>7

\* Lock takes the Mutex when it is free, or leaves it free.
LEMMA LockInd ==
  ASSUME NEW g \in Goroutine,
         IndInv, Lock(g)
  PROVE  IndInv'
<1> USE DEF IndInv, Lock, goVars, objVars
<1>1. TypeOK'
  BY DEF TypeOK, Pc, MethodPc, Result
<1>2. FramesMatchStages'
  BY DEF FramesMatchStages, OneCreator, MachineMatchesStage, TypeOK, CreatorPc, MethodPc
<1>3. OneCreator'
  BY DEF OneCreator, FramesMatchStages, TypeOK, CreatorPc, MethodPc
<1>4. MachineMatchesStage'
  BY DEF MachineMatchesStage, FramesMatchStages, TypeOK, CreatorPc, MethodPc
<1>5. HandlesFresh' /\ EntriesOwned'
  BY HandlesUndisturbed
<1>6. CallbackSeesOwnExterns' /\ AnswerInTable'
  BY CallbacksUndisturbed
<1>7. MutualExclusion'
  BY SentinelAssumption DEF MutualExclusion, FramesMatchStages, TypeOK, CreatorPc, MethodPc
<1> QED BY <1>1, <1>2, <1>3, <1>4, <1>5, <1>6, <1>7

\* Finish releases the Mutex its goroutine holds.
LEMMA FinishInd ==
  ASSUME NEW g \in Goroutine, NEW r \in {"ok", "err"},
         IndInv, Finish(g, r)
  PROVE  IndInv'
<1> USE DEF IndInv, Finish, goVars, objVars
<1>1. TypeOK'
  BY DEF TypeOK, Pc, MethodPc, Result
<1>2. FramesMatchStages'
  BY DEF FramesMatchStages, OneCreator, MachineMatchesStage, TypeOK, CreatorPc, MethodPc
<1>3. OneCreator'
  BY DEF OneCreator, FramesMatchStages, TypeOK, CreatorPc, MethodPc
<1>4. MachineMatchesStage'
  BY DEF MachineMatchesStage, FramesMatchStages, TypeOK, CreatorPc, MethodPc
<1>5. HandlesFresh' /\ EntriesOwned'
  BY HandlesUndisturbed
<1>6. CallbackSeesOwnExterns' /\ AnswerInTable'
  BY CallbacksUndisturbed
<1>7. MutualExclusion'
  BY SentinelAssumption DEF MutualExclusion, FramesMatchStages, TypeOK, CreatorPc, MethodPc
<1> QED BY <1>1, <1>2, <1>3, <1>4, <1>5, <1>6, <1>7

\* ExecPanic releases the Mutex as the guard unwinds.
LEMMA ExecPanicInd ==
  ASSUME NEW g \in Goroutine,
         IndInv, ExecPanic(g)
  PROVE  IndInv'
<1> USE DEF IndInv, ExecPanic, goVars, objVars
<1>1. TypeOK'
  BY DEF TypeOK, Pc, MethodPc, Result
<1>2. FramesMatchStages'
  BY DEF FramesMatchStages, OneCreator, MachineMatchesStage, TypeOK, CreatorPc, MethodPc
<1>3. OneCreator'
  BY DEF OneCreator, FramesMatchStages, TypeOK, CreatorPc, MethodPc
<1>4. MachineMatchesStage'
  BY DEF MachineMatchesStage, FramesMatchStages, TypeOK, CreatorPc, MethodPc
<1>5. HandlesFresh' /\ EntriesOwned'
  BY HandlesUndisturbed
<1>6. CallbackSeesOwnExterns' /\ AnswerInTable'
  BY CallbacksUndisturbed
<1>7. MutualExclusion'
  BY SentinelAssumption DEF MutualExclusion, FramesMatchStages, TypeOK, CreatorPc, MethodPc
<1> QED BY <1>1, <1>2, <1>3, <1>4, <1>5, <1>6, <1>7

\* Return leaves the method.
LEMMA ReturnInd ==
  ASSUME NEW g \in Goroutine,
         IndInv, Return(g)
  PROVE  IndInv'
<1> USE DEF IndInv, Return, goVars, objVars, rustVars
<1>1. TypeOK'
  BY DEF TypeOK, Stage, MachineState, Pc, MethodPc, Result
<1>2. FramesMatchStages'
  BY DEF FramesMatchStages, OneCreator, MachineMatchesStage, TypeOK, CreatorPc, MethodPc
<1>3. OneCreator'
  BY DEF OneCreator, FramesMatchStages, TypeOK, CreatorPc, MethodPc
<1>4. MachineMatchesStage'
  BY DEF MachineMatchesStage, FramesMatchStages, TypeOK, CreatorPc, MethodPc
<1>5. HandlesFresh' /\ EntriesOwned'
  BY HandlesUndisturbed
<1>6. CallbackSeesOwnExterns'
  BY DEF CallbackSeesOwnExterns, FramesMatchStages, TypeOK, Lookup, MethodPc, CreatorPc
<1>7. AnswerInTable'
  BY DEF AnswerInTable, TypeOK
<1>8. MutualExclusion'
  BY DEF MutualExclusion, FramesMatchStages, TypeOK, CreatorPc, MethodPc
<1> QED BY <1>1, <1>2, <1>3, <1>4, <1>5, <1>6, <1>7, <1>8

\* FinalizerDrop drops a machine that no frame works on: this is where
\* KeepAlive is needed.
LEMMA FinalizerDropInd ==
  ASSUME NEW f \in Fvm,
         IndInv, FinalizerDrop(f)
  PROVE  IndInv'
<1> USE DEF IndInv, FinalizerDrop, Unreachable, KeptAlive, goVars
<1>1. TypeOK'
  BY DEF TypeOK, Stage, MachineState, Pc, MethodPc, Result
<1>2. FramesMatchStages'
  BY DEF FramesMatchStages, OneCreator, MachineMatchesStage, TypeOK, CreatorPc, MethodPc
<1>3. MachineMatchesStage'
  BY DEF MachineMatchesStage, FramesMatchStages, TypeOK, CreatorPc, MethodPc
<1>4. HandlesFresh'
  BY DEF HandlesFresh, FramesMatchStages, TypeOK, CreatorPc, MethodPc
<1>5. EntriesOwned'
  BY DEF EntriesOwned, FramesMatchStages, TypeOK, HoldsHandle, CreatorPc, MethodPc
<1>6. CallbackSeesOwnExterns' /\ AnswerInTable'
  BY CallbacksUndisturbed
<1>7. OneCreator' /\ MutualExclusion'
  BY FramesUndisturbed
<1> QED BY <1>1, <1>2, <1>3, <1>4, <1>5, <1>6, <1>7

\* FinalizerUnregister removes an entry that no call-back can be using.
LEMMA FinalizerUnregisterInd ==
  ASSUME NEW f \in Fvm,
         IndInv, FinalizerUnregister(f)
  PROVE  IndInv'
<1> USE DEF IndInv, FinalizerUnregister, Unregister, rustVars
<1>a. exHandle[f] \in Handle /\ stage[f] = "finalizing"
  BY DEF HandlesFresh
<1>1. TypeOK'
  BY <1>a DEF TypeOK, Stage
<1>2. FramesMatchStages'
  BY <1>a DEF FramesMatchStages, TypeOK, CreatorPc, MethodPc
<1>3. MachineMatchesStage'
  BY DEF MachineMatchesStage, FramesMatchStages, TypeOK, CreatorPc, MethodPc
<1>4. HandlesFresh'
  BY DEF HandlesFresh, FramesMatchStages, TypeOK, CreatorPc, MethodPc
<1>5. EntriesOwned'
  <2>1. ASSUME NEW f2 \in Fvm, HoldsHandle(f2)'
        PROVE (opts[f2] \in Externs /\ registry[exHandle[f2]] = opts[f2])'
    BY <1>a, <2>1 DEF EntriesOwned, TypeOK, HoldsHandle, HandlesFresh
  <2>2. ASSUME NEW h \in Handle, registry'[h] # NoExterns
        PROVE \E f2 \in Fvm : (HoldsHandle(f2) /\ exHandle[f2] = h)'
    <3>1. h # exHandle[f] /\ registry[h] # NoExterns
      BY <1>a, <2>2 DEF TypeOK
    <3>2. PICK f2 \in Fvm : HoldsHandle(f2) /\ exHandle[f2] = h
      BY <3>1 DEF EntriesOwned
    <3> QED BY <3>1, <3>2 DEF HoldsHandle, TypeOK
  <2> QED BY <2>1, <2>2 DEF EntriesOwned
<1>6. CallbackSeesOwnExterns'
  <2> SUFFICES ASSUME NEW g2 \in Goroutine, cb[g2] # NoCallback
               PROVE  (cb[g2].found = opts[on[g2]] /\ Lookup(exHandle[on[g2]]) = cb[g2].found)'
    BY DEF CallbackSeesOwnExterns, NoCallback
  <2>1. on[g2] \in Fvm /\ on[g2] # f /\ stage[on[g2]] # "none"
    BY <1>a DEF FramesMatchStages, CreatorPc, MethodPc
  <2>2. exHandle[on[g2]] \in Handle /\ exHandle[on[g2]] # exHandle[f]
    BY <1>a, <2>1 DEF HandlesFresh
  <2> QED BY <1>a, <2>1, <2>2 DEF CallbackSeesOwnExterns, TypeOK, Lookup
<1>7. AnswerInTable'
  BY DEF AnswerInTable, TypeOK
<1>8. OneCreator' /\ MutualExclusion'
  BY FramesUndisturbed
<1> QED BY <1>1, <1>2, <1>3, <1>4, <1>5, <1>6, <1>7, <1>8

-----------------------------------------------------------------------------
(* The theorems *)

\* Every step of a goroutine, the collector or the finalizer preserves it.
LEMMA StepInd == IndInv /\ [Next]_vars => IndInv'
<1> SUFFICES ASSUME IndInv, [Next]_vars PROVE IndInv'
  OBVIOUS
<1>1. CASE UNCHANGED vars
  <2> USE <1>1 DEF vars, goVars, objVars, rustVars
  <2>1. TypeOK' /\ FramesMatchStages' /\ MachineMatchesStage'
    BY DEF IndInv, TypeOK, FramesMatchStages, MachineMatchesStage
  <2> QED BY <2>1, HandlesUndisturbed, CallbacksUndisturbed, FramesUndisturbed DEF IndInv
<1>2. ASSUME NEW g \in Goroutine, Progress(g) PROVE IndInv'
  BY <1>2, CreateFailsInd, CreateSucceedsInd, TakeExecutorInd, CgoReturnInd, RustMatchInd,
     DecodeInd, LockInd, FinishInd, ExecPanicInd, ReturnInd DEF Progress
<1>3. ASSUME NEW g \in Goroutine, NEW f \in Fvm, NEW x \in Externs, CreateFVM(g, f, x)
      PROVE IndInv'
  BY <1>3, CreateFVMInd
<1>4. ASSUME NEW g \in Goroutine, NEW k \in Kind, CgoEnter(g, k) PROVE IndInv'
  BY <1>4, CgoEnterInd
<1>5. ASSUME NEW g \in Goroutine, NEW g2 \in Goroutine, NEW f \in Fvm, Share(g, g2, f)
      PROVE IndInv'
  BY <1>5, ShareInd
<1>6. ASSUME NEW g \in Goroutine, NEW f \in Fvm,
             DropRef(g, f) \/ ApplyMessage(g, f) \/ Flush(g, f)
      PROVE IndInv'
  BY <1>6, DropRefInd, StartMethodInd DEF ApplyMessage, Flush
<1>7. ASSUME NEW f \in Fvm, FinalizerDrop(f) \/ FinalizerUnregister(f) PROVE IndInv'
  BY <1>7, FinalizerDropInd, FinalizerUnregisterInd
<1> QED BY <1>1, <1>2, <1>3, <1>4, <1>5, <1>6, <1>7, CreateRejectedInd DEF Next

\* The inductive invariant holds of every behaviour of the bridge.
THEOREM Invariance == Spec => []IndInv
BY InitInd, StepInd, PTL DEF Spec

\* The types of the bridge's state are kept by every operation of fvm.go,
\* cgo/registry.go and rust/src/fvm/machine.rs.
THEOREM TypeCorrect == Spec => []TypeOK
<1>1. IndInv => TypeOK
  BY DEF IndInv
<1> QED BY <1>1, Invariance, PTL

\* However goroutines, the collector and the finalizer interleave, no machine is
\* dropped while fvm_machine_execute_message or fvm_machine_flush works on it.
THEOREM UseBeforeDrop == Spec => []NoUseAfterDrop
<1>1. IndInv => NoUseAfterDrop
  BY DEF IndInv, NoUseAfterDrop, FramesMatchStages, MachineMatchesStage, MethodPc, CreatorPc
<1> QED BY <1>1, Invariance, PTL

\* A call-back always finds the Externs its own FVM was created with, and they
\* stay registered while it uses them (cgo/registry.go, Lookup).
THEOREM OwnExterns == Spec => []CallbackSeesOwnExterns
<1>1. IndInv => CallbackSeesOwnExterns
  BY DEF IndInv
<1> QED BY <1>1, Invariance, PTL

\* Nothing the Go functions return makes the Rust match arms panic.
THEOREM BridgeNeverPanics == Spec => []NoBridgePanic
BY TablesAgree, Invariance, PTL

\* The registry holds the handles of the FVMs in creation, in use or half
\* finalized and of the failed creations, one each, and nothing else.
THEOREM RegistryExact == Spec => []RegistryAccounted
<1>1. IndInv => RegistryAccounted
  <2> SUFFICES ASSUME IndInv PROVE RegistryAccounted
    OBVIOUS
  <2>1. \A f \in Fvm : HoldsHandle(f) => registry[exHandle[f]] # NoExterns
    BY SentinelAssumption DEF IndInv, EntriesOwned
  <2>2. \A f1, f2 \in Fvm :
          f1 # f2 /\ HoldsHandle(f1) /\ HoldsHandle(f2) => exHandle[f1] # exHandle[f2]
    BY DEF IndInv, HandlesFresh, HoldsHandle
  <2> QED BY <2>1, <2>2 DEF IndInv, EntriesOwned, RegistryAccounted
<1> QED BY <1>1, Invariance, PTL

\* The Mutex of a machine is held by exactly the goroutine that executes on it.
THEOREM OneExecution == Spec => []MutualExclusion
<1>1. IndInv => MutualExclusion
  BY DEF IndInv
<1> QED BY <1>1, Invariance, PTL

\* After a panic no call ever executes on the machine again, and every later one
\* reports an error (the unwrap of lock() in rust/src/fvm/machine.rs).
THEOREM PoisonLasts == Spec => PoisonIsForever
<1>1. IndInv /\ [Next]_vars => [PoisonKept]_vars
  <2> SUFFICES ASSUME IndInv, Next PROVE PoisonKept
    OBVIOUS
  <2> USE DEF goVars, objVars, rustVars
  <2>1. IndInv /\ NoBridgePanic /\ TypeOK
    BY TablesAgree DEF IndInv
  <2>2. ASSUME NEW g \in Goroutine, Progress(g) PROVE PoisonKept
    <3>1. CASE CreateFails(g) \/ CreateSucceeds(g) \/ TakeExecutor(g) \/ CgoReturn(g)
      BY <2>1, <3>1 DEF CreateFails, CreateSucceeds, TakeExecutor, CgoReturn, PoisonKept, TypeOK
    <3>2. CASE RustMatch(g)
      BY <2>1, <3>2 DEF RustMatch, NoBridgePanic, PoisonKept, TypeOK
    <3>3. CASE Decode(g) \/ Return(g)
      BY <2>1, <3>3 DEF Decode, Return, PoisonKept, TypeOK
    <3>4. CASE Lock(g)
      BY <2>1, <3>4 DEF Lock, PoisonKept, TypeOK
    <3>5. CASE ExecPanic(g) \/ \E r \in {"ok", "err"} : Finish(g, r)
      BY <2>1, <3>5 DEF ExecPanic, Finish, PoisonKept, TypeOK
    <3> QED BY <2>2, <3>1, <3>2, <3>3, <3>4, <3>5 DEF Progress
  <2>3. ASSUME NEW g \in Goroutine,
               \/ CreateRejected(g)
               \/ \E f \in Fvm, x \in Externs : CreateFVM(g, f, x)
               \/ \E f \in Fvm : ApplyMessage(g, f) \/ Flush(g, f)
        PROVE PoisonKept
    BY <2>1, <2>3 DEF CreateRejected, CreateFVM, ApplyMessage, Flush, StartMethod,
                      PoisonKept, TypeOK
  <2>4. ASSUME UNCHANGED <<poisoned, pc>> PROVE PoisonKept
    BY <2>4 DEF PoisonKept
  <2>5. ASSUME NEW g \in Goroutine,
               \/ \E k \in Kind : CgoEnter(g, k)
               \/ \E g2 \in Goroutine, f \in Fvm : Share(g, g2, f)
               \/ \E f \in Fvm : DropRef(g, f)
        PROVE PoisonKept
    BY <2>4, <2>5 DEF CgoEnter, Share, DropRef
  <2>6. ASSUME NEW f \in Fvm, FinalizerDrop(f) \/ FinalizerUnregister(f) PROVE PoisonKept
    BY <2>4, <2>6 DEF FinalizerDrop, FinalizerUnregister
  <2> QED BY <2>2, <2>3, <2>5, <2>6 DEF Next
<1> QED BY <1>1, Invariance, PTL DEF Spec, PoisonIsForever

-----------------------------------------------------------------------------
(* The bridge implements the session *)

\* A step that leaves the machines and their Mutexes alone is no step of the session.
LEMMA SessionStutter ==
  ASSUME UNCHANGED rustVars
  PROVE  UNCHANGED Session!sessionVars
BY DEF rustVars, Session!sessionVars, LifeOf

\* The machine, its Mutex and the finalizer implement FvmSession: one run at a
\* time, none before Open, after Close or after a panic, no Close under a run.
THEOREM ImplementsSession == Spec => SessionSpec
<1>1. Init => Session!Init
  BY DEF Init, Session!Init, LifeOf
<1>2. IndInv /\ [Next]_vars => [Session!Next]_(Session!sessionVars)
  <2> SUFFICES ASSUME IndInv, Next, ~ UNCHANGED rustVars
               PROVE  Session!Next
    BY SessionStutter DEF vars
  <2> USE DEF IndInv, TypeOK
  <2>1. ASSUME NEW g \in Goroutine, CreateSucceeds(g) PROVE Session!Next
    <3>1. on[g] \in Fvm /\ machine[on[g]] = "none"
      BY <2>1 DEF CreateSucceeds, FramesMatchStages
    <3>2. [f \in Fvm |-> LifeOf(machine'[f])]
            = [[f \in Fvm |-> LifeOf(machine[f])] EXCEPT ![on[g]] = "open"]
      <4>1. \A f \in Fvm : LifeOf(machine'[f])
                            = IF f = on[g] THEN "open" ELSE LifeOf(machine[f])
        BY <2>1, <3>1 DEF CreateSucceeds, LifeOf
      <4> QED BY <4>1
    <3>3. [f \in Fvm |-> LifeOf(machine[f])][on[g]] = "absent"
      BY <3>1 DEF LifeOf
    <3>4. Session!Open(on[g])
      BY <2>1, <3>2, <3>3 DEF CreateSucceeds, Session!Open
    <3>5. \E f \in Fvm : Session!Open(f)
      BY <3>1, <3>4
    <3> QED BY <3>5 DEF Session!Next
  <2>2. ASSUME NEW g \in Goroutine, Lock(g) PROVE Session!Next
    <3>1. on[g] \in Fvm /\ machine[on[g]] = "live"
      BY <2>2 DEF Lock, FramesMatchStages, MachineMatchesStage, MethodPc
    <3>2. ~poisoned[on[g]]
      BY <2>2 DEF Lock, rustVars
    <3>3. Session!Begin(on[g], g)
      BY <2>2, <3>1, <3>2 DEF Lock, Session!Begin, LifeOf
    <3> QED BY <3>1, <3>3 DEF Session!Next
  <2>3. ASSUME NEW g \in Goroutine, pc[g] = "executing"
        PROVE  on[g] \in Fvm /\ machine[on[g]] = "live" /\ lock[on[g]] # Nobody
    BY <2>3, SentinelAssumption DEF FramesMatchStages, MachineMatchesStage, MutualExclusion, MethodPc
  <2>4. ASSUME NEW g \in Goroutine, NEW r \in {"ok", "err"}, Finish(g, r) PROVE Session!Next
    <3>1. Session!End(on[g])
      BY <2>3, <2>4 DEF Finish, Session!End, LifeOf
    <3> QED BY <2>3, <2>4, <3>1 DEF Finish, Session!Next
  <2>5. ASSUME NEW g \in Goroutine, ExecPanic(g) PROVE Session!Next
    <3>1. Session!Break(on[g])
      BY <2>3, <2>5 DEF ExecPanic, Session!Break, LifeOf
    <3> QED BY <2>3, <2>5, <3>1 DEF ExecPanic, Session!Next
  <2>6. ASSUME NEW f \in Fvm, FinalizerDrop(f) PROVE Session!Next
    <3>1. machine[f] = "live"
      BY <2>6 DEF FinalizerDrop, MachineMatchesStage
    <3>2. lock[f] = Nobody
      BY <2>6 DEF FinalizerDrop, Unreachable, KeptAlive, MutualExclusion, MethodPc
    <3>3. [f2 \in Fvm |-> LifeOf(machine'[f2])]
            = [[f2 \in Fvm |-> LifeOf(machine[f2])] EXCEPT ![f] = "closed"]
      <4>1. \A f2 \in Fvm : LifeOf(machine'[f2])
                             = IF f2 = f THEN "closed" ELSE LifeOf(machine[f2])
        BY <2>6 DEF FinalizerDrop, LifeOf
      <4> QED BY <4>1
    <3>4. [f2 \in Fvm |-> LifeOf(machine[f2])][f] = "open"
      BY <3>1 DEF LifeOf
    <3>5. Session!Close(f)
      BY <2>6, <3>2, <3>3, <3>4 DEF FinalizerDrop, Session!Close
    <3> QED BY <3>5 DEF Session!Next
  <2>7. ASSUME NEW g \in Goroutine, RustMatch(g) PROVE FALSE
    BY <2>7, TablesAgree DEF RustMatch, NoBridgePanic, rustVars
  <2>8. ASSUME NEW g \in Goroutine, Progress(g) PROVE Session!Next
    BY <2>1, <2>2, <2>4, <2>5, <2>7, <2>8
       DEF Progress, CreateFails, TakeExecutor, DestroyCreateResponse, CgoReturn, Decode,
           Return, rustVars
  <2>9. ASSUME NEW g \in Goroutine, NEW f \in Fvm,
               \/ CreateRejected(g)
               \/ \E x \in Externs : CreateFVM(g, f, x)
               \/ \E k \in Kind : CgoEnter(g, k)
               \/ \E g2 \in Goroutine : Share(g, g2, f)
               \/ DropRef(g, f) \/ ApplyMessage(g, f) \/ Flush(g, f)
        PROVE  FALSE
    BY <2>9 DEF CreateRejected, CreateFVM, CgoEnter, Share, DropRef, ApplyMessage, Flush,
                StartMethod, rustVars
  <2>10. ASSUME NEW g \in Goroutine, CreateRejected(g) \/ \E k \in Kind : CgoEnter(g, k)
         PROVE  FALSE
    BY <2>10 DEF CreateRejected, CgoEnter
  <2>11. ASSUME NEW f \in Fvm, FinalizerUnregister(f) PROVE FALSE
    BY <2>11 DEF FinalizerUnregister
  <2> QED BY <2>6, <2>8, <2>9, <2>10, <2>11 DEF Next
<1> QED BY <1>1, <1>2, Invariance, PTL DEF Spec, SessionSpec, Session!Spec

=============================================================================
