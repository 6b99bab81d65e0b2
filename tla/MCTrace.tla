------------------------------ MODULE MCTrace ------------------------------
(***************************************************************************)
(* Trace for TLC: short lists of any events, and longer ones of the events *)
(* that make the tree, in any order, the FVM's or not.                     *)
(***************************************************************************)
EXTENDS Trace

\* Lists of at most n of the events E.
UpTo(E, n) == UNION {[1 .. k -> E] : k \in 0 .. n}

Return0 == [type |-> "Return", arg |-> ""]
Call0 == [type |-> "Call", arg |-> ""]

MCTraces ==
  UpTo(Event, 3)
  \cup UpTo({Call0, Return0, [type |-> "Failure", arg |-> "OK"], [type |-> "Failure", arg |-> "USR"],
             [type |-> "Error", arg |-> "NotFound"]}, 5)
  \cup UpTo({Call0, Return0, [type |-> "Failure", arg |-> "USR"]}, 8)
=============================================================================
