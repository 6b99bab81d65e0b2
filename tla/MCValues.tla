------------------------------ MODULE MCValues ------------------------------
(***************************************************************************)
(* Values for TLC: amounts around the limits of one, two and three words;  *)
(* batches of few items, one of which does not decode; messages of         *)
(* different lengths, empty ones too; replicas with a sector given twice.  *)
(***************************************************************************)
EXTENDS Values

UpTo(S, n) == UNION {[1 .. k -> S] : k \in 0 .. n}

Amounts == {-1, 0, 1, Word - 1, Word, Word + 1, Word * Word - 1, Word * Word, Word * Word * Word + 1}

Messages == UpTo(Byte, 2)

MCCalls ==
  [fn : {"CreateFVM"}, fee : Amounts, supply : Amounts]
  \cup [fn : {"ApplyMessage"}, penalty : Amounts, tip : Amounts]
  \cup [fn : {"Verify"}, sig : Item, digests : UpTo(Item, 2), keys : UpTo(Item, 2)]
  \cup [fn : {"HashVerify"}, sig : Item, messages : UpTo(Messages, 3), keys : UpTo(Item, 1)]
  \cup [fn : {"Aggregate"}, signatures : UpTo(Item, 4)]
  \cup [fn : {"VerifyAggregateSeals"}, inputs : UpTo(Item, 4)]
  \cup [fn : {"ReplicaInfoMap"}, replicas : UpTo({1, 2} \X Item, 3)]
=============================================================================
