------------------------------ MODULE LogInit ------------------------------
(***************************************************************************)
(* The initialization of the one logger of the process                     *)
(* (rust/src/util/api.rs).  The exported functions that catch panics run   *)
(* init_log first (rust/src/util/types.rs, catch_panic_response_raw);      *)
(* init_log_fd instead tries to make a caller's file descriptor the sink.  *)
(* Both go through LOG_INIT, a std::sync::Once; init_log_fd also peeks at  *)
(* it beforehand.  BLS and the accessors of versions do not log.           *)
(***************************************************************************)

CONSTANTS
  Thread,    \* the threads that call into the library
  Fd,        \* the file descriptors callers pass to init_log_fd
  Stderr,    \* where fil_logger::init logs to
  NoSink,    \* no logger is installed
  NoFd       \* the call is not init_log_fd

ASSUME SinkAssumption ==
  /\ Stderr \notin Fd /\ NoSink \notin Fd /\ NoFd \notin Fd
  /\ Stderr # NoSink

VARIABLES
  foreign,   \* did the host process install a logger of its own?
  once,      \* LOG_INIT
  sink,      \* where the logger installed by this library writes
  open,      \* the descriptors that are open
  given,     \* the descriptors whose ownership init_log_fd was given
  again,     \* those of them that were given to it more than once
  pc, arg,   \* where a thread is, and the descriptor it passed
  res        \* how its last call got past the logger

vars == <<foreign, once, sink, open, given, again, pc, arg, res>>

TypeOK ==
  /\ foreign \in BOOLEAN
  /\ once \in {"new", "running", "complete", "poisoned"}
  /\ sink \in Fd \cup {Stderr, NoSink}
  /\ open \subseteq Fd
  /\ given \subseteq Fd
  /\ again \subseteq given
  /\ pc  \in [Thread -> {"idle", "peek", "once", "install"}]
  /\ arg \in [Thread -> Fd \cup {NoFd}]
  /\ res \in [Thread -> {"none", "ok", "err"}]

Init ==
  /\ foreign \in BOOLEAN
  /\ once = "new"
  /\ sink = NoSink
  /\ open = Fd
  /\ given = {}
  /\ again = {}
  /\ pc  = [t \in Thread |-> "idle"]
  /\ arg = [t \in Thread |-> NoFd]
  /\ res = [t \in Thread |-> "none"]

-----------------------------------------------------------------------------
\* A function that catches panics, but init_log_fd: catch_panic_response_raw and
\* catch_panic_response_no_default call init_log before they do anything else.
FfiCall(t) ==
  /\ pc[t] = "idle"
  /\ pc' = [pc EXCEPT ![t] = "once"]
  /\ arg' = [arg EXCEPT ![t] = NoFd]
  /\ res' = [res EXCEPT ![t] = "none"]
  /\ UNCHANGED <<foreign, once, sink, open, given, again>>

\* init_log_fd: File::from_raw_fd takes over a descriptor the caller has open.
InitLogFd(t, fd) ==
  /\ pc[t] = "idle"
  /\ fd \in open
  /\ given' = given \cup {fd}
  /\ again' = again \cup (given \cap {fd})
  /\ pc' = [pc EXCEPT ![t] = "peek"]
  /\ arg' = [arg EXCEPT ![t] = fd]
  /\ res' = [res EXCEPT ![t] = "none"]
  /\ UNCHANGED <<foreign, once, sink, open>>

\* The call is over and its File, if it still owns one, is closed.
LeaveClosing(t, r) ==
  /\ pc' = [pc EXCEPT ![t] = "idle"]
  /\ res' = [res EXCEPT ![t] = r]
  /\ open' = open \ {arg[t]}

\* A slip: the File is forgotten, as into_raw_fd would do.
IsCompletedLeaks(t) ==
  /\ pc[t] = "peek"
  /\ IF once = "complete"
       THEN /\ pc' = [pc EXCEPT ![t] = "idle"]
            /\ res' = [res EXCEPT ![t] = "err"]
       ELSE pc' = [pc EXCEPT ![t] = "once"] /\ UNCHANGED res
  /\ UNCHANGED <<foreign, once, sink, open, given, again, arg>>

\* init_log_with_file peeks: with a logger in place it returns None, which
\* drops the File.
IsCompleted(t) ==
  /\ pc[t] = "peek"
  /\ IF once = "complete"
       THEN LeaveClosing(t, "err")
       ELSE pc' = [pc EXCEPT ![t] = "once"] /\ UNCHANGED <<res, open>>
  /\ UNCHANGED <<foreign, once, sink, given, again, arg>>

\* A slip: a flag instead of a Once; the loser of the race does not wait.
CallOnceDoesNotWait(t) ==
  /\ pc[t] = "once"
  /\ IF once = "new"
       THEN /\ once' = "running"
            /\ pc' = [pc EXCEPT ![t] = "install"]
            /\ UNCHANGED <<open, res>>
       ELSE /\ LeaveClosing(t, IF once = "poisoned" THEN "err" ELSE "ok")
            /\ UNCHANGED once
  /\ UNCHANGED <<foreign, sink, given, again, arg>>

\* A slip: call_once_force for a File, whether or not a logger is in place.
CallOnceReplaces(t) ==
  /\ pc[t] = "once"
  /\ once # "running"
  /\ IF once = "new" \/ arg[t] \in Fd
       THEN /\ once' = IF once = "new" THEN "running" ELSE once
            /\ pc' = [pc EXCEPT ![t] = "install"]
            /\ UNCHANGED <<open, res>>
       ELSE /\ LeaveClosing(t, IF once = "poisoned" THEN "err" ELSE "ok")
            /\ UNCHANGED once
  /\ UNCHANGED <<foreign, sink, given, again, arg>>

\* A slip: a poisoned Once is tried again and again.
CallOnceSpins(t) ==
  /\ pc[t] = "once"
  /\ once # "running"
  /\ CASE once = "new" -> /\ once' = "running"
                          /\ pc' = [pc EXCEPT ![t] = "install"]
                          /\ UNCHANGED <<open, res>>
       [] once = "poisoned" -> UNCHANGED <<once, pc, open, res>>
       [] OTHER -> LeaveClosing(t, "ok") /\ UNCHANGED once
  /\ UNCHANGED <<foreign, sink, given, again, arg>>

\* call_once: run the closure, wait while another thread runs its own, skip it
\* when one has run (the closure and the File in it are dropped), or panic when
\* one has panicked (the panic is caught and becomes an error response).
CallOnce(t) ==
  /\ pc[t] = "once"
  /\ once # "running"
  /\ IF once = "new"
       THEN /\ once' = "running"
            /\ pc' = [pc EXCEPT ![t] = "install"]
            /\ UNCHANGED <<open, res>>
       ELSE /\ LeaveClosing(t, IF once = "poisoned" THEN "err" ELSE "ok")
            /\ UNCHANGED once
  /\ UNCHANGED <<foreign, sink, given, again, arg>>

\* A slip: the closure of init_log looks for a File it was not given.
InstallArgAlways(t) ==
  /\ pc[t] = "install"
  /\ IF foreign
       THEN LeaveClosing(t, "err") /\ once' = "poisoned" /\ UNCHANGED sink
       ELSE /\ once' = "complete"
            /\ sink' = arg[t]
            /\ pc' = [pc EXCEPT ![t] = "idle"]
            /\ res' = [res EXCEPT ![t] = "ok"]
            /\ UNCHANGED open
  /\ UNCHANGED <<foreign, given, again, arg>>

\* A slip: the File is dropped after the logger has copied its descriptor.
InstallDropsFile(t) ==
  /\ pc[t] = "install"
  /\ IF foreign
       THEN LeaveClosing(t, "err") /\ once' = "poisoned" /\ UNCHANGED sink
       ELSE /\ once' = "complete"
            /\ sink' = IF arg[t] \in Fd THEN arg[t] ELSE Stderr
            /\ LeaveClosing(t, "ok")
  /\ UNCHANGED <<foreign, given, again, arg>>

\* The closure: fil_logger installs the process-wide logger, which keeps the
\* File, or panics because the process has one, which poisons the Once.
Install(t) ==
  /\ pc[t] = "install"
  /\ IF foreign
       THEN LeaveClosing(t, "err") /\ once' = "poisoned" /\ UNCHANGED sink
       ELSE /\ once' = "complete"
            /\ sink' = IF arg[t] \in Fd THEN arg[t] ELSE Stderr
            /\ pc' = [pc EXCEPT ![t] = "idle"]
            /\ res' = [res EXCEPT ![t] = "ok"]
            /\ UNCHANGED open
  /\ UNCHANGED <<foreign, given, again, arg>>

Step(t) == IsCompleted(t) \/ CallOnce(t) \/ Install(t)

Next ==
  \E t \in Thread :
    \/ FfiCall(t)
    \/ \E fd \in Fd : InitLogFd(t, fd)
    \/ Step(t)

Spec == Init /\ [][Next]_vars

\* A thread inside a call keeps running.
FairSpec == Spec /\ \A t \in Thread : WF_vars(Step(t))

-----------------------------------------------------------------------------
\* The logger is installed at most once and never replaced, however many
\* threads make their first call at the same time (LOG_INIT.call_once).
InstalledOnce == [][sink # NoSink => sink' = sink]_vars

\* No exported function goes on to its own work before the logger is there:
\* one that lost the race for the Once has waited for the winner.
LoggerBeforeWork ==
  \A t \in Thread : res[t] = "ok" => once = "complete" /\ sink # NoSink

\* A descriptor given to init_log_fd is the logger's or has been closed once no
\* call works with it any more: no path of init_log_with_file loses it.
NoFdLeak ==
  \A fd \in given :
    (\A t \in Thread : arg[t] = fd => pc[t] = "idle") => sink = fd \/ fd \notin open

\* No call hangs in the Once, not even behind an installation that panicked.
CallReturns == \A t \in Thread : pc[t] # "idle" ~> pc[t] = "idle"

\* "Returns `None` if there is already an active logger" (init_log_with_file):
\* an init_log_fd that succeeded has made the caller's descriptor the sink.
OkMeansSink ==
  \A t \in Thread : res[t] = "ok" /\ arg[t] \in Fd => sink = arg[t]

\* The descriptor the logger writes to is never closed under it, however the calls
\* interleave, unless a caller gives init_log_fd that very descriptor a second time:
\* then the File made of it is dropped, and the logger's sink with it.
SinkStaysOpen == sink \in Fd => sink \in open \/ sink \in again
=============================================================================
