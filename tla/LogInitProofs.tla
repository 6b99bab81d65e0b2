--------------------------- MODULE LogInitProofs ---------------------------
(***************************************************************************)
(* What holds of LogInit for any number of threads and descriptors.        *)
(***************************************************************************)
EXTENDS LogInit, TLAPS

\* Only one thread runs the closure, and only while the Once says so.
OneInstaller ==
  /\ \A t \in Thread : pc[t] = "install" => once = "running"
  /\ \A t1, t2 \in Thread : pc[t1] = "install" /\ pc[t2] = "install" => t1 = t2

SinkMatchesOnce == once = "complete" <=> sink # NoSink

OnceInv == TypeOK /\ OneInstaller /\ SinkMatchesOnce

\* A call works with the descriptor it was given, which is open, not the sink yet and
\* no other call's, unless it was given twice; and what was given is remembered.
SoleUser ==
  /\ sink \in Fd => sink \in given
  /\ \A t \in Thread : pc[t] # "idle" /\ arg[t] \in Fd => arg[t] \in given
  /\ \A t \in Thread : pc[t] # "idle" /\ arg[t] \in Fd \ again =>
       /\ arg[t] \in open /\ sink # arg[t]
       /\ \A u \in Thread : pc[u] # "idle" /\ arg[u] = arg[t] => u = t

FdInv == SoleUser /\ SinkStaysOpen

LogInv == OnceInv /\ LoggerBeforeWork /\ NoFdLeak /\ FdInv

\* At first there is no logger and no descriptor was given away.
LEMMA InitLog == Init => LogInv
BY SinkAssumption DEF Init, LogInv, OnceInv, TypeOK, OneInstaller, SinkMatchesOnce, LoggerBeforeWork, NoFdLeak,
       FdInv, SoleUser, SinkStaysOpen

\* The calls start without touching the Once.
LEMMA StartLog ==
  ASSUME NEW t \in Thread, LogInv, FfiCall(t) \/ \E fd \in Fd : InitLogFd(t, fd)
  PROVE  LogInv'
<1> USE SinkAssumption DEF LogInv, OnceInv, TypeOK
<1>1. CASE FfiCall(t)
  <2> USE <1>1 DEF FfiCall
  <2>1. OnceInv'
    BY DEF OneInstaller, SinkMatchesOnce
  <2>2. LoggerBeforeWork'
    BY DEF LoggerBeforeWork
  <2>3. NoFdLeak'
    BY DEF NoFdLeak
  <2>4. FdInv'
    BY DEF FdInv, SoleUser, SinkStaysOpen
  <2> QED BY <2>1, <2>2, <2>3, <2>4
<1>2. ASSUME NEW fd \in Fd, InitLogFd(t, fd) PROVE LogInv'
  <2> USE <1>2 DEF InitLogFd
  <2>1. OnceInv'
    BY DEF OneInstaller, SinkMatchesOnce
  <2>2. LoggerBeforeWork'
    BY DEF LoggerBeforeWork
  <2>3. NoFdLeak'
    BY DEF NoFdLeak
  <2>4. FdInv'
    BY DEF FdInv, SoleUser, SinkStaysOpen
  <2> QED BY <2>1, <2>2, <2>3, <2>4
<1> QED BY <1>1, <1>2

\* The peek changes nothing but, with a logger in place, closes the File.
LEMMA IsCompletedLog ==
  ASSUME NEW t \in Thread, LogInv, IsCompleted(t)
  PROVE  LogInv'
<1> USE SinkAssumption DEF LogInv, OnceInv, TypeOK, IsCompleted, LeaveClosing
<1>1. OnceInv'
  BY DEF OneInstaller, SinkMatchesOnce
<1>2. LoggerBeforeWork'
  BY DEF LoggerBeforeWork
<1>3. NoFdLeak'
  BY DEF NoFdLeak
<1>4. FdInv'
  BY DEF FdInv, SoleUser, SinkStaysOpen
<1> QED BY <1>1, <1>2, <1>3, <1>4

\* Entering the closure is exclusive; skipping it closes the File.
LEMMA CallOnceLog ==
  ASSUME NEW t \in Thread, LogInv, CallOnce(t)
  PROVE  LogInv'
<1> USE SinkAssumption DEF LogInv, OnceInv, TypeOK, CallOnce, LeaveClosing
<1>1. TypeOK'
  OBVIOUS
<1>2. OneInstaller' /\ SinkMatchesOnce'
  BY DEF OneInstaller, SinkMatchesOnce
<1>3. LoggerBeforeWork'
  BY DEF LoggerBeforeWork, SinkMatchesOnce
<1>4. NoFdLeak'
  BY DEF NoFdLeak
<1>5. FdInv'
  BY DEF FdInv, SoleUser, SinkStaysOpen
<1> QED BY <1>1, <1>2, <1>3, <1>4, <1>5

\* The closure installs the logger while none is installed, or poisons the Once.
LEMMA InstallLog ==
  ASSUME NEW t \in Thread, LogInv, Install(t)
  PROVE  LogInv'
<1> USE SinkAssumption DEF LogInv, OnceInv, TypeOK, Install, LeaveClosing
<1>1. once = "running" /\ sink = NoSink
  BY DEF OneInstaller, SinkMatchesOnce
<1>2. TypeOK'
  OBVIOUS
<1>3. OneInstaller' /\ SinkMatchesOnce'
  BY <1>1 DEF OneInstaller, SinkMatchesOnce
<1>4. LoggerBeforeWork'
  BY <1>1 DEF LoggerBeforeWork
<1>5. NoFdLeak'
  BY <1>1 DEF NoFdLeak
<1>6. FdInv'
  BY <1>1 DEF FdInv, SoleUser, SinkStaysOpen
<1> QED BY <1>2, <1>3, <1>4, <1>5, <1>6

\* Every step of every thread preserves the invariant.
LEMMA StepLog == LogInv /\ [Next]_vars => LogInv'
<1> SUFFICES ASSUME LogInv, [Next]_vars PROVE LogInv'
  OBVIOUS
<1>1. CASE UNCHANGED vars
  BY <1>1 DEF vars, LogInv, OnceInv, TypeOK, OneInstaller, SinkMatchesOnce, LoggerBeforeWork,
              NoFdLeak, FdInv, SoleUser, SinkStaysOpen
<1>2. CASE Next
  BY <1>2, StartLog, IsCompletedLog, CallOnceLog, InstallLog DEF Next, Step
<1> QED BY <1>1, <1>2

\* The inductive invariant holds of every behaviour.
THEOREM LogInvariance == Spec => []LogInv
BY InitLog, StepLog, PTL DEF Spec

\* No exported function starts its own work without the logger, however many
\* threads race for LOG_INIT.
THEOREM WorkAfterLogger == Spec => []LoggerBeforeWork
<1>1. LogInv => LoggerBeforeWork
  BY DEF LogInv
<1> QED BY <1>1, LogInvariance, PTL

\* The variables of LogInit keep their types.
THEOREM LogTypes == Spec => []TypeOK
<1>1. LogInv => TypeOK
  BY DEF LogInv, OnceInv
<1> QED BY <1>1, LogInvariance, PTL

\* The sink of the logger is closed only through a second init_log_fd with it.
THEOREM SinkOpen == Spec => []SinkStaysOpen
<1>1. LogInv => SinkStaysOpen
  BY DEF LogInv, FdInv
<1> QED BY <1>1, LogInvariance, PTL

\* No path of init_log_fd loses the descriptor it was given.
THEOREM FdsAccounted == Spec => []NoFdLeak
<1>1. LogInv => NoFdLeak
  BY DEF LogInv
<1> QED BY <1>1, LogInvariance, PTL

\* The logger is never replaced: who is in the closure is there alone and first.
THEOREM LoggerKept == Spec => InstalledOnce
<1>1. LogInv /\ [Next]_vars => [sink # NoSink => sink' = sink]_vars
  <2> SUFFICES ASSUME LogInv, Next, sink # NoSink PROVE sink' = sink
    OBVIOUS
  <2>1. \A t \in Thread : pc[t] # "install"
    BY DEF LogInv, OnceInv, OneInstaller, SinkMatchesOnce
  <2> QED BY <2>1 DEF Next, Step, FfiCall, InitLogFd, IsCompleted, CallOnce, Install
<1> QED BY <1>1, LogInvariance, PTL DEF Spec, InstalledOnce
=============================================================================
