------------------------------ MODULE FileFds ------------------------------
(***************************************************************************)
(* The files of the proofs API.  A Go caller opens a file and a wrapper of *)
(* proofs.go passes its descriptor, a number, to Rust, which makes a File  *)
(* of it: one that is never closed (FileDescriptorRef), or one that closes *)
(* the descriptor when it is dropped, unless into_raw_fd gives the number  *)
(* back first.  The descriptor table is the process's: a number that was   *)
(* closed goes to the next file that is opened, by any goroutine.          *)
(***************************************************************************)
EXTENDS Naturals

CONSTANTS
  Goroutine,
  MaxFd,       \* bound: descriptors 1 .. MaxFd
  Calls,       \* the functions that are called
  Outcomes     \* how Rust may end: "ok", "err", "panic"

Api == {"WriteWithAlignment", "WriteWithoutAlignment", "GeneratePieceCIDFromFile",
        "GeneratePieceCID", "UnsealRange"}

ASSUME CallAssumption ==
  /\ MaxFd \in Nat /\ Calls \subseteq Api /\ Outcomes \subseteq {"ok", "err", "panic"}
  /\ "free" \notin Goroutine

VARIABLES
  stage,    \* idle, open (the file is), rust (in the call), back
  fn,       \* the function the file is opened for
  fd,       \* the number in the os.File of each goroutine, 0 when it has none
  ret,      \* what the function returned: ok, err, or undef (no error and cid.Undef)
  table,    \* the descriptors: whose file each number is, "free" if none
  dropped   \* history: the numbers in use that a call ended on as Exempt says

vars == <<stage, fn, fd, ret, table, dropped>>

Fd == 1 .. MaxFd

TypeOK ==
  /\ stage \in [Goroutine -> {"idle", "open", "rust", "back"}]
  /\ fn \in [Goroutine -> Calls \cup {"none"}]
  /\ fd \in [Goroutine -> 0 .. MaxFd]
  /\ ret \in [Goroutine -> {"none", "ok", "err", "undef"}]
  /\ table \in [Fd -> Goroutine \cup {"free"}]
  /\ dropped \subseteq Fd

Init ==
  /\ stage = [g \in Goroutine |-> "idle"]
  /\ fn = [g \in Goroutine |-> "none"]
  /\ fd = [g \in Goroutine |-> 0]
  /\ ret = [g \in Goroutine |-> "none"]
  /\ table = [n \in Fd |-> "free"]
  /\ dropped = {}

-----------------------------------------------------------------------------
\* open(2) takes the lowest free number.
LowestFree(n) == table[n] = "free" /\ \A m \in Fd : m < n => table[m] # "free"

\* The file is opened, by the caller of the wrapper or by GeneratePieceCID.
Open(g) ==
  /\ stage[g] = "idle"
  /\ \E f \in Calls : fn' = [fn EXCEPT ![g] = f]
  /\ \E n \in Fd :
       /\ LowestFree(n)
       /\ fd' = [fd EXCEPT ![g] = n]
       /\ table' = [table EXCEPT ![n] = g]
  /\ stage' = [stage EXCEPT ![g] = "open"]
  /\ ret' = [ret EXCEPT ![g] = "none"]
  /\ UNCHANGED dropped

\* The wrapper fails before it calls C: the proof type, the prover or the CID
\* cannot be converted.
ConvertFails(g) ==
  /\ stage[g] = "open"
  /\ stage' = [stage EXCEPT ![g] = "back"]
  /\ ret' = [ret EXCEPT ![g] = "err"]
  /\ UNCHANGED <<fn, fd, table, dropped>>

\* The wrapper takes the number (Fd()) and calls C.
Enter(g) ==
  /\ stage[g] = "open"
  /\ stage' = [stage EXCEPT ![g] = "rust"]
  /\ UNCHANGED <<fn, fd, ret, table, dropped>>

\* The caller calls the wrapper with the same file again.
Again(g) ==
  /\ stage[g] = "back"
  /\ fn[g] # "GeneratePieceCID"
  /\ stage' = [stage EXCEPT ![g] = "open"]
  /\ ret' = [ret EXCEPT ![g] = "none"]
  /\ UNCHANGED <<fn, fd, table, dropped>>

\* A slip: the ? on the result comes before into_raw_fd.
PieceClosesOnError(o) == o # "ok"

\* generate_piece_commitment gives the number back when the computation has
\* returned, with an error too, but not when it panics.
PieceCloses(o) == o = "panic"

\* unseal_range gives the numbers back only when the unsealing succeeded: `?`, and
\* the unwrap of the path, drop both files.
UnsealCloses(o) == o # "ok"

\* write_with_alignment and write_without_alignment read and write through a
\* FileDescriptorRef.
Closes(f, o) ==
  CASE f \in {"GeneratePieceCIDFromFile", "GeneratePieceCID"} -> PieceCloses(o)
    [] f = "UnsealRange" -> UnsealCloses(o)
    [] OTHER -> FALSE

\* The calls that do not leave the file to their caller: an unseal_range that
\* fails, and a generate_piece_commitment that panics.  For the history only.
Exempt(f, o) ==
  \/ f = "UnsealRange" /\ o # "ok"
  \/ f \in {"GeneratePieceCIDFromFile", "GeneratePieceCID"} /\ o = "panic"

\* close(2) of the number n.
CloseFd(n) == table' = [table EXCEPT ![n] = "free"]

\* The C function ends, and the wrapper reports its error.  unseal_range has two
\* descriptors, which share their fate; one stands for both.
RustReturns(g) ==
  /\ stage[g] = "rust"
  /\ \E o \in Outcomes :
       /\ ret' = [ret EXCEPT ![g] = IF o = "ok" THEN "ok" ELSE "err"]
       /\ IF Closes(fn[g], o) THEN CloseFd(fd[g]) ELSE UNCHANGED table
       /\ dropped' = IF Exempt(fn[g], o) THEN dropped \cup {fd[g]} ELSE dropped
  /\ stage' = [stage EXCEPT ![g] = "back"]
  /\ UNCHANGED <<fn, fd>>

\* A slip: the wrapper has no runtime.KeepAlive, so the finalizer of the os.File
\* may run as soon as its number was taken.
NothingKeptAlive(g) == FALSE

\* The os.File is in use: runtime.KeepAlive until the wrapper returns.
KeptAlive(g) == stage[g] \in {"open", "rust"}

\* The os.File is closed, by the caller, by GeneratePieceCID or by its finalizer.
\* GeneratePieceCID returns the error of Close and not the one it closes the file
\* after.
Close(g) ==
  /\ fd[g] # 0
  /\ ~KeptAlive(g)
  /\ CloseFd(fd[g])
  /\ fd' = [fd EXCEPT ![g] = 0]
  /\ ret' = IF fn[g] # "GeneratePieceCID" THEN ret
            ELSE [ret EXCEPT ![g] = IF table[fd[g]] = "free" THEN "err"
                                    ELSE IF @ = "err" THEN "undef" ELSE @]
  /\ stage' = [stage EXCEPT ![g] = IF @ = "back" THEN "idle" ELSE @]
  /\ dropped' = {n \in dropped : \E h \in Goroutine \ {g} : fd[h] = n}
  /\ UNCHANGED fn

Next == \E g \in Goroutine :
  Open(g) \/ ConvertFails(g) \/ Enter(g) \/ Again(g) \/ RustReturns(g) \/ Close(g)

Spec == Init /\ [][Next]_vars

-----------------------------------------------------------------------------
(* Properties *)

\* Rust works on the file it was given: while a C function runs, its caller's
\* os.File is open, and the number still means the file of the caller, unless the
\* number is one that a failed unseal_range or a panic closed under its owner.
RustHasCallersFile ==
  \A g \in Goroutine : stage[g] = "rust" =>
    fd[g] # 0 /\ (fd[g] \notin dropped => table[fd[g]] = g)

\* The caller is responsible for closing the file (rust/src/proofs/api.rs says so
\* of generate_piece_commitment): nobody else closes it, so its number means its
\* file until it does.  This holds of every number but those that a failed
\* unseal_range or a panic in generate_piece_commitment closed, until the last
\* os.File with that number is gone: the damage spreads to no other number.
CallerCloses ==
  \A g \in Goroutine : fd[g] # 0 /\ fd[g] \notin dropped => table[fd[g]] = g

\* unseal_range keeps the descriptors alive until it returns.
AliveUntilReturn ==
  \A g \in Goroutine : fn[g] = "UnsealRange" /\ stage[g] = "back" /\ ret[g] # "none"
                          => table[fd[g]] = g

\* GeneratePieceCID produces a piece commitment: it returns one, or an error.
CommitmentOrError == \A g \in Goroutine : ret[g] # "undef"
=============================================================================
