--------------------------- MODULE FileFdsProofs ---------------------------
(***************************************************************************)
(* Descriptors and files stay matched, for any number of goroutines and    *)
(* descriptors, whatever is called and however it ends, on every number    *)
(* that no failed unseal_range and no panic in generate_piece_commitment   *)
(* closed under its owner.                                                 *)
(***************************************************************************)
EXTENDS FileFds, TLAPS

\* A goroutine has a file exactly while it is not idle, for a function.
FileWhileActive ==
  \A g \in Goroutine :
    /\ stage[g] = "idle" <=> fd[g] = 0
    /\ stage[g] # "idle" => fn[g] \in Calls

FdInv == TypeOK /\ FileWhileActive /\ CallerCloses

\* Nothing is open at first.
LEMMA InitFd == Init => FdInv
BY CallAssumption DEF Init, FdInv, TypeOK, FileWhileActive, CallerCloses, Fd

\* Every step keeps the files with their owners.
LEMMA StepFd ==
  ASSUME FdInv, [Next]_vars
  PROVE  FdInv'
<1> USE CallAssumption DEF FdInv, TypeOK, Fd
<1>1. CASE UNCHANGED vars
  BY <1>1 DEF vars, FileWhileActive, CallerCloses
<1>2. ASSUME NEW g \in Goroutine, Open(g) PROVE FdInv'
  <2>1. PICK f \in Calls : fn' = [fn EXCEPT ![g] = f]
    BY <1>2 DEF Open
  <2>2. PICK n \in Fd : /\ LowestFree(n)
                        /\ fd' = [fd EXCEPT ![g] = n]
                        /\ table' = [table EXCEPT ![n] = g]
    BY <1>2 DEF Open
  <2>3. stage[g] = "idle" /\ stage' = [stage EXCEPT ![g] = "open"]
        /\ ret' = [ret EXCEPT ![g] = "none"] /\ dropped' = dropped
    BY <1>2 DEF Open
  <2>4. TypeOK' /\ FileWhileActive'
    BY <2>1, <2>2, <2>3 DEF FileWhileActive
  <2>5. CallerCloses'
    BY <2>2, <2>3 DEF CallerCloses, LowestFree
  <2> QED BY <2>4, <2>5
<1>3. ASSUME NEW g \in Goroutine, ConvertFails(g) \/ Enter(g) \/ Again(g) PROVE FdInv'
  <2> USE <1>3 DEF ConvertFails, Enter, Again
  <2>1. TypeOK'
    OBVIOUS
  <2>2. FileWhileActive'
    BY DEF FileWhileActive
  <2>3. CallerCloses'
    BY DEF CallerCloses
  <2> QED BY <2>1, <2>2, <2>3
<1>4. ASSUME NEW g \in Goroutine, RustReturns(g) PROVE FdInv'
  <2>1. fn[g] \in Calls /\ fd[g] \in Fd
    BY <1>4 DEF RustReturns, FileWhileActive
  <2>2. PICK o \in Outcomes :
          /\ ret' = [ret EXCEPT ![g] = IF o = "ok" THEN "ok" ELSE "err"]
          /\ IF Closes(fn[g], o) THEN CloseFd(fd[g]) ELSE UNCHANGED table
          /\ dropped' = IF Exempt(fn[g], o) THEN dropped \cup {fd[g]} ELSE dropped
    BY <1>4 DEF RustReturns
  <2>3. stage' = [stage EXCEPT ![g] = "back"] /\ stage[g] = "rust" /\ UNCHANGED <<fn, fd>>
    BY <1>4 DEF RustReturns
  <2>4. CASE Closes(fn[g], o)
    <3>1. Exempt(fn[g], o)
      BY <2>1, <2>4 DEF Closes, PieceCloses, UnsealCloses, Exempt
    <3>2. table' = [table EXCEPT ![fd[g]] = "free"] /\ dropped' = dropped \cup {fd[g]}
      BY <2>2, <2>4, <3>1 DEF CloseFd
    <3>3. TypeOK' /\ FileWhileActive'
      BY <2>1, <2>2, <2>3, <3>2 DEF FileWhileActive
    <3>4. CallerCloses'
      BY <2>1, <2>3, <3>2 DEF CallerCloses
    <3> QED BY <3>3, <3>4
  <2>5. CASE ~Closes(fn[g], o)
    <3>1. UNCHANGED table /\ dropped \subseteq dropped' /\ dropped' \subseteq Fd
      BY <2>1, <2>2, <2>5
    <3>2. TypeOK' /\ FileWhileActive'
      BY <2>1, <2>2, <2>3, <3>1 DEF FileWhileActive
    <3>3. CallerCloses'
      BY <2>3, <3>1 DEF CallerCloses
    <3> QED BY <3>2, <3>3
  <2> QED BY <2>4, <2>5
<1>5. ASSUME NEW g \in Goroutine, Close(g) PROVE FdInv'
  <2>1. fd[g] \in Fd /\ stage[g] = "back"
    BY <1>5 DEF Close, KeptAlive, FileWhileActive
  <2>2. /\ fd' = [fd EXCEPT ![g] = 0]
        /\ table' = [table EXCEPT ![fd[g]] = "free"]
        /\ stage' = [stage EXCEPT ![g] = "idle"]
        /\ dropped' = {n \in dropped : \E h \in Goroutine \ {g} : fd[h] = n}
        /\ fn' = fn
    BY <1>5, <2>1 DEF Close, CloseFd
  <2>3. ret' \in [Goroutine -> {"none", "ok", "err", "undef"}]
    BY <1>5 DEF Close
  <2>4. TypeOK'
    <3>1. fd' \in [Goroutine -> 0 .. MaxFd] /\ fn' \in [Goroutine -> Calls \cup {"none"}]
      BY <2>2
    <3>2. table' \in [Fd -> Goroutine \cup {"free"}] /\ dropped' \subseteq Fd
      BY <2>1, <2>2
    <3>3. stage' \in [Goroutine -> {"idle", "open", "rust", "back"}]
      BY <2>2
    <3> QED BY <2>3, <3>1, <3>2, <3>3
  <2>5. FileWhileActive'
    BY <2>1, <2>2 DEF FileWhileActive
  <2>6. CallerCloses'
    <3>1. SUFFICES ASSUME NEW h \in Goroutine, fd'[h] # 0, fd'[h] \notin dropped'
                   PROVE  table'[fd'[h]] = h
      BY DEF CallerCloses
    <3>2. h # g /\ fd'[h] = fd[h] /\ fd[h] \in Fd /\ fd[h] \notin dropped
      BY <2>2, <3>1
    <3>3. table[fd[h]] = h
      BY <3>1, <3>2 DEF CallerCloses
    <3>4. fd[h] # fd[g]
      BY <2>1, <3>2, <3>3 DEF CallerCloses
    <3> QED BY <2>1, <2>2, <3>2, <3>3, <3>4
  <2> QED BY <2>4, <2>5, <2>6
<1> QED BY <1>1, <1>2, <1>3, <1>4, <1>5 DEF Next

\* A caller's number means the caller's file until the caller closes it, for every
\* function and every way it may end, panics included, except on the numbers that a
\* failed unseal_range or a panic in generate_piece_commitment closed.
THEOREM CallersClose == Spec => []CallerCloses
<1>1. FdInv => CallerCloses
  BY DEF FdInv
<1> QED BY <1>1, InitFd, StepFd, PTL DEF Spec

\* Rust works on the caller's file for the whole of a call, with the same exception,
\* and never on an os.File that was already closed.
THEOREM RustOnCallersFile == Spec => []RustHasCallersFile
<1>1. FdInv => RustHasCallersFile
  BY DEF FdInv, TypeOK, FileWhileActive, CallerCloses, RustHasCallersFile
<1> QED BY <1>1, InitFd, StepFd, PTL DEF Spec
=============================================================================
