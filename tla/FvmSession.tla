---------------------------- MODULE FvmSession -----------------------------
(***************************************************************************)
(* What an FVM promises its users, with the handles, the finalizer, the    *)
(* garbage collector and the call-backs left out: it is opened at most     *)
(* once, it runs one message or flush at a time, only while it is open,    *)
(* and nothing is running when it is closed.  A run that breaks the FVM    *)
(* (a panic) is the last one that ever starts.                             *)
(***************************************************************************)

CONSTANTS Goroutine, Fvm, Nobody

VARIABLES
  life,     \* absent, open or closed
  runner,   \* the goroutine whose message the FVM runs, or Nobody
  broken    \* did a run end in a panic?

sessionVars == <<life, runner, broken>>

Init ==
  /\ life = [f \in Fvm |-> "absent"]
  /\ runner = [f \in Fvm |-> Nobody]
  /\ broken = [f \in Fvm |-> FALSE]

Open(f) ==
  /\ life[f] = "absent"
  /\ life' = [life EXCEPT ![f] = "open"]
  /\ UNCHANGED <<runner, broken>>

Begin(f, g) ==
  /\ life[f] = "open" /\ runner[f] = Nobody /\ ~broken[f]
  /\ runner' = [runner EXCEPT ![f] = g]
  /\ UNCHANGED <<life, broken>>

End(f) ==
  /\ life[f] = "open" /\ runner[f] # Nobody
  /\ runner' = [runner EXCEPT ![f] = Nobody]
  /\ UNCHANGED <<life, broken>>

Break(f) ==
  /\ life[f] = "open" /\ runner[f] # Nobody
  /\ runner' = [runner EXCEPT ![f] = Nobody]
  /\ broken' = [broken EXCEPT ![f] = TRUE]
  /\ UNCHANGED life

Close(f) ==
  /\ life[f] = "open" /\ runner[f] = Nobody
  /\ life' = [life EXCEPT ![f] = "closed"]
  /\ UNCHANGED <<runner, broken>>

Next ==
  \E f \in Fvm :
    \/ Open(f)
    \/ \E g \in Goroutine : Begin(f, g)
    \/ End(f)
    \/ Break(f)
    \/ Close(f)

Spec == Init /\ [][Next]_sessionVars
=============================================================================
