------------------------------- MODULE Values -------------------------------
(***************************************************************************)
(* Values that one side takes apart and the other puts together again: the *)
(* token amounts of an FVM, as two words each; the digests, keys,          *)
(* signatures and messages of the BLS functions, as one run of bytes; the  *)
(* inputs of an aggregated seal; the replicas of a PoSt.  The last three   *)
(* are converted by rayon, on several threads at once.  A behaviour is one *)
(* call.                                                                   *)
(***************************************************************************)
EXTENDS Integers, Sequences, SequencesExt

CONSTANTS
  Word,              \* 2^64: the values of one word are 0 .. Word - 1
  DIGEST_BYTES,      \* of a digest or a signature
  PUBLIC_KEY_BYTES,
  Item,              \* digests, keys, signatures, seal inputs
  Bad,               \* those that do not decode
  Byte,              \* what a message is made of
  CallSet            \* the calls made, records with the function and its arguments

ASSUME ValuesAssumption ==
  /\ Word \in Nat \ {0, 1}
  /\ DIGEST_BYTES \in Nat \ {0} /\ PUBLIC_KEY_BYTES \in Nat \ {0}
  /\ Bad \subseteq Item

ASSUME CallAssumption ==
  CallSet \subseteq
    [fn : {"CreateFVM"}, fee : Int, supply : Int]
    \cup [fn : {"ApplyMessage"}, penalty : Int, tip : Int]
    \cup [fn : {"Verify"}, sig : Item, digests : Seq(Item), keys : Seq(Item)]
    \cup [fn : {"HashVerify"}, sig : Item, messages : Seq(Seq(Byte)), keys : Seq(Item)]
    \cup [fn : {"Aggregate"}, signatures : Seq(Item)]
    \cup [fn : {"VerifyAggregateSeals"}, inputs : Seq(Item)]
    \cup [fn : {"ReplicaInfoMap"}, replicas : Seq(Nat \X Item)]

VARIABLES
  call,      \* the function and what its caller gave it
  stage,     \* "go": not yet called; "rust"
  batches,   \* what Rust has still to convert, batch after batch
  parts,     \* the batch being converted: parts of it in their order, done or not
  decoded,   \* the batches converted
  outcome    \* "running"; "ok": the library has what was given, whatever its verdict;
             \* "err": refused, with an error, no signature or false; "abort"

vars == <<call, stage, batches, parts, decoded, outcome>>

TypeOK ==
  /\ call \in CallSet
  /\ stage \in {"go", "rust"}
  /\ outcome \in {"running", "ok", "err", "abort"}

Init ==
  /\ call \in CallSet
  /\ stage = "go"
  /\ batches = <<>> /\ parts = <<>> /\ decoded = <<>>
  /\ outcome = "running"

-----------------------------------------------------------------------------
(* Token amounts *)

\* big.Int's words, least first, without leading zeros (three stand for more).
Bits(x) ==
  CASE x = 0 -> <<>>
    [] x \in 1 .. Word - 1 -> <<x>>
    [] x \in Word .. Word * Word - 1 -> <<x % Word, x \div Word>>
    [] OTHER -> <<x % Word, (x \div Word) % Word, x \div (Word * Word)>>

\* What a conversion makes, as a set of at most one: {} is its error.

\* A slip: an amount of more words is cut.
SplitBigIntCuts(x) ==
  IF x < 0 THEN {}
  ELSE {[hi |-> IF Len(Bits(x)) >= 2 THEN Bits(x)[2] ELSE 0, lo |-> IF x = 0 THEN 0 ELSE Bits(x)[1]]}

\* Go, to Rust.
SplitBigInt(x) ==
  IF x < 0 \/ Len(Bits(x)) > 2 THEN {}
  ELSE {[hi |-> IF Len(Bits(x)) = 2 THEN Bits(x)[2] ELSE 0, lo |-> IF x = 0 THEN 0 ELSE Bits(x)[1]]}

\* create_fvm_machine: (hi << 64) | lo, in a u128.
FromWords(w) == w.hi * Word + w.lo

\* fvm_machine_execute_message, to Go: the unwrap panics if it does not fit a u128.
ToWords(x) ==
  IF x \notin 0 .. Word * Word - 1 THEN {} ELSE {[hi |-> x \div Word, lo |-> x % Word]}

\* big.Int.SetBits.
SetBits(words) == IF Len(words) = 2 THEN words[1] + words[2] * Word ELSE words[1]

ReformBigInt(w) ==
  IF w.hi > 0 THEN SetBits(<<w.lo, w.hi>>) ELSE IF w.lo > 0 THEN SetBits(<<w.lo>>) ELSE 0

\* Two amounts, each refused by itself, come out on the other side.
Amounts2(x, y, apart(_), together(_)) ==
  /\ IF apart(x) = {} \/ apart(y) = {} THEN outcome' = "err" /\ UNCHANGED decoded
     ELSE /\ outcome' = "ok"
          /\ \E v \in apart(x), w \in apart(y) : decoded' = <<together(v), together(w)>>
  /\ UNCHANGED <<call, stage, batches, parts>>

\* CreateFVM: the base fee and the circulating supply.
CreateFVM ==
  /\ outcome = "running" /\ call.fn = "CreateFVM"
  /\ Amounts2(call.fee, call.supply, SplitBigInt, FromWords)

\* ApplyMessage: the penalty and the tip; a panic is an error of the call.
ApplyMessage ==
  /\ outcome = "running" /\ call.fn = "ApplyMessage"
  /\ Amounts2(call.penalty, call.tip, ToWords, ReformBigInt)

-----------------------------------------------------------------------------
(* Bytes *)

\* The byte at place k of an item, and all its bytes.
Bytes(x, width) == [k \in 1 .. width |-> <<x, k>>]

\* Go's loops: item after item.
Flatten(items, width) ==
  [n \in 1 .. width * Len(items) |-> <<items[((n - 1) \div width) + 1], ((n - 1) % width) + 1>>]

Least(a, b) == IF a < b THEN a ELSE b

\* par_chunks.
Chunks(bytes, width) ==
  [j \in 1 .. (Len(bytes) + width - 1) \div width |->
     SubSeq(bytes, width * (j - 1) + 1, Least(width * j, Len(bytes)))]

\* from_bytes, from_compressed: the item, unless they fail.
Decode(chunk, width) == {x \in Item \ Bad : chunk = Bytes(x, width)}

\* Go's HashVerify: the messages one after another, and their sizes.
FlatMessages(messages) == FlattenSeq(messages)
Sizes(messages) == [i \in 1 .. Len(messages) |-> Len(messages[i])]

\* hash_verify's offset after so many messages.
Offset(sizes) ==
  LET offset[n \in 0 .. Len(sizes)] == IF n = 0 THEN 0 ELSE offset[n - 1] + sizes[n]
  IN  offset

\* The messages hash_verify cuts out.
Cut(bytes, sizes) ==
  [i \in 1 .. Len(sizes) |-> SubSeq(bytes, Offset(sizes)[i - 1] + 1, Offset(sizes)[i - 1] + sizes[i])]

\* A batch that rayon converts: what each of its pieces becomes.
Batch(pieces, conv(_)) == [i \in 1 .. Len(pieces) |-> conv(pieces[i])]

BytesBatch(items, width) ==
  LET conv(chunk) == {<<x>> : x \in Decode(chunk, width)}
  IN  Batch(Chunks(Flatten(items, width), width), conv)

\* Bytes that are not a whole number of items.
Ragged(items, width) == Len(Flatten(items, width)) % width # 0

\* verify: the checks before anything is converted.
VerifyRefuses(digests, keys) ==
  \/ Ragged(digests, DIGEST_BYTES) \/ Ragged(keys, PUBLIC_KEY_BYTES)
  \/ Len(Flatten(digests, DIGEST_BYTES)) \div DIGEST_BYTES
       # Len(Flatten(keys, PUBLIC_KEY_BYTES)) \div PUBLIC_KEY_BYTES

\* convert_aggregation_inputs: several vectors from one input, or an error.
ConvertAggregationInputs(x) == IF x \in Bad THEN {} ELSE {<< <<x, 1>>, <<x, 2>> >>}

\* to_public_replica_info_map, to_private_replica_info_map: a sector and its replica.
\* On Linux as_path_buf takes any bytes, so that the latter does not fail either.
ToReplicaInfo(r) == {<<r>>}

Goes(fn) == outcome = "running" /\ stage = "go" /\ call.fn = fn

\* The call returns without converting anything, or has these batches to convert.
Refuse(why) == outcome' = why /\ UNCHANGED <<call, stage, batches, parts, decoded>>
Pass(bs) == stage' = "rust" /\ batches' = bs /\ UNCHANGED <<call, parts, outcome>>

\* verify: a signature that does not decode, then the lengths, then digests, then keys.
Verify ==
  /\ Goes("Verify")
  /\ IF call.sig \in Bad \/ VerifyRefuses(call.digests, call.keys) THEN Refuse("err")
     ELSE /\ Pass(<<BytesBatch(call.digests, DIGEST_BYTES), BytesBatch(call.keys, PUBLIC_KEY_BYTES)>>)
          /\ UNCHANGED decoded

\* hash_verify: a slice outside the bytes is a panic that nothing catches.
HashVerify ==
  LET bytes == FlatMessages(call.messages)
      sizes == Sizes(call.messages)
  IN  /\ Goes("HashVerify")
      /\ IF call.sig \in Bad THEN Refuse("err")
         ELSE IF \E i \in 1 .. Len(sizes) : Offset(sizes)[i - 1] + sizes[i] > Len(bytes) THEN Refuse("abort")
         ELSE IF Ragged(call.keys, PUBLIC_KEY_BYTES) THEN Refuse("err")
         ELSE decoded' = <<Cut(bytes, sizes)>> /\ Pass(<<BytesBatch(call.keys, PUBLIC_KEY_BYTES)>>)

Aggregate ==
  /\ Goes("Aggregate") /\ Pass(<<BytesBatch(call.signatures, DIGEST_BYTES)>>) /\ UNCHANGED decoded

\* "no seal verify infos": Go's VerifyAggregateSeals does not call Rust for none.
NoInfos == call.inputs = <<>>

VerifyAggregateSealProof ==
  /\ Goes("VerifyAggregateSeals")
  /\ IF NoInfos THEN Refuse("err")
     ELSE Pass(<<Batch(call.inputs, ConvertAggregationInputs)>>) /\ UNCHANGED decoded

ReplicaInfoMap ==
  Goes("ReplicaInfoMap") /\ Pass(<<Batch(call.replicas, ToReplicaInfo)>>) /\ UNCHANGED decoded

-----------------------------------------------------------------------------
(* The conversion of a batch by the threads of the pool *)

Converting == outcome = "running" /\ stage = "rust"

\* A slip: the batch without a piece has no result.
TakeBatchNoIdentity ==
  /\ Converting /\ parts = <<>> /\ batches # <<>> /\ Head(batches) # <<>>
  /\ parts' = [i \in 1 .. Len(Head(batches)) |-> [done |-> FALSE, val |-> Head(batches)[i]]]
  /\ batches' = Tail(batches)
  /\ UNCHANGED <<call, stage, decoded, outcome>>

\* The next batch; one without pieces is its own result.
TakeBatch ==
  /\ Converting /\ parts = <<>> /\ batches # <<>>
  /\ parts' = [i \in 1 .. Len(Head(batches)) |-> [done |-> FALSE, val |-> Head(batches)[i]]]
  /\ decoded' = IF Head(batches) = <<>> THEN Append(decoded, <<>>) ELSE decoded
  /\ batches' = Tail(batches)
  /\ UNCHANGED <<call, stage, outcome>>

\* A slip: a piece that does not convert is left out.
ConvertPartSkips(i) ==
  /\ Converting /\ ~parts[i].done
  /\ parts' = [parts EXCEPT ![i] = [done |-> TRUE, val |-> IF @.val = {} THEN {<<>>} ELSE @.val]]
  /\ UNCHANGED <<call, stage, batches, decoded, outcome>>

\* Some thread converts one of the pieces; a failure is the call's.
ConvertPart(i) ==
  /\ Converting /\ ~parts[i].done
  /\ IF parts[i].val = {} THEN outcome' = "err" /\ UNCHANGED parts
     ELSE parts' = [parts EXCEPT ![i].done = TRUE] /\ UNCHANGED outcome
  /\ UNCHANGED <<call, stage, batches, decoded>>

\* A slip: the parts are put together in the order they are ready.
MergePartsSwapped(i) ==
  /\ Converting /\ i < Len(parts) /\ parts[i].done /\ parts[i + 1].done
  /\ LET both == [done |-> TRUE, val |-> {a \o b : a \in parts[i + 1].val, b \in parts[i].val}]
     IN  parts' = SubSeq(parts, 1, i - 1) \o <<both>> \o SubSeq(parts, i + 2, Len(parts))
  /\ UNCHANGED <<call, stage, batches, decoded, outcome>>

\* Two neighbours that are ready become one: acc.extend(current).
MergeParts(i) ==
  /\ Converting /\ i < Len(parts) /\ parts[i].done /\ parts[i + 1].done
  /\ LET both == [done |-> TRUE, val |-> {a \o b : a \in parts[i].val, b \in parts[i + 1].val}]
     IN  parts' = SubSeq(parts, 1, i - 1) \o <<both>> \o SubSeq(parts, i + 2, Len(parts))
  /\ UNCHANGED <<call, stage, batches, decoded, outcome>>

\* All of the batch is one part.
Collect ==
  /\ Converting /\ Len(parts) = 1 /\ parts[1].done
  /\ decoded' = Append(decoded, CHOOSE v \in parts[1].val : TRUE)
  /\ parts' = <<>>
  /\ UNCHANGED <<call, stage, batches, outcome>>

\* A slip: the first replica of a sector stays.
InsertKeeps(map, r) ==
  [s \in DOMAIN map \cup {r[1]} |-> IF s \in DOMAIN map THEN map[s] ELSE r[2]]

\* BTreeMap: a replica takes the place of the one of the same sector.
InsertReplica(map, r) ==
  [s \in DOMAIN map \cup {r[1]} |-> IF s = r[1] THEN r[2] ELSE map[s]]

\* The map collected from the replicas, one after the other.
IntoMap(replicas) ==
  LET map[n \in 0 .. Len(replicas)] ==
        IF n = 0 THEN <<>> ELSE InsertReplica(map[n - 1], replicas[n])
  IN  map[Len(replicas)]

\* The library's aggregate_sig: there is no signature of none.
AggregateSigFails == call.fn = "Aggregate" /\ decoded[1] = <<>>

\* What was converted goes to the library, and aggregate returns None if that fails.
Finish ==
  /\ Converting /\ parts = <<>> /\ batches = <<>>
  /\ outcome' = IF AggregateSigFails THEN "err" ELSE "ok"
  /\ decoded' = IF call.fn = "ReplicaInfoMap" THEN <<IntoMap(decoded[1])>> ELSE decoded
  /\ UNCHANGED <<call, stage, batches, parts>>

Next ==
  \/ CreateFVM \/ ApplyMessage
  \/ Verify \/ HashVerify \/ Aggregate \/ VerifyAggregateSealProof \/ ReplicaInfoMap
  \/ TakeBatch \/ Collect \/ Finish
  \/ \E i \in 1 .. Len(parts) : ConvertPart(i) \/ MergeParts(i)

\* A call goes on, and the pool has a thread that converts.
Spec == Init /\ [][Next]_vars /\ WF_vars(Next)

-----------------------------------------------------------------------------
(* Properties *)

Fits(x) == x \in 0 .. Word * Word - 1

\* An amount of up to two words arrives as it was, at the edges of a word too and each
\* in its own place; any other amount fails the call, in both directions.
AmountsArrive ==
  /\ call.fn = "CreateFVM" /\ outcome # "running" =>
       IF Fits(call.fee) /\ Fits(call.supply) THEN outcome = "ok" /\ decoded = <<call.fee, call.supply>>
       ELSE outcome = "err"
  /\ call.fn = "ApplyMessage" /\ outcome # "running" =>
       IF Fits(call.penalty) /\ Fits(call.tip) THEN outcome = "ok" /\ decoded = <<call.penalty, call.tip>>
       ELSE outcome = "err"

\* What the call gave, batch by batch.
Given ==
  CASE call.fn = "Verify" -> <<call.digests, call.keys>>
    [] call.fn = "HashVerify" -> <<call.messages, call.keys>>
    [] call.fn = "Aggregate" -> <<call.signatures>>
    [] call.fn = "VerifyAggregateSeals" ->
         << [n \in 1 .. 2 * Len(call.inputs) |-> <<call.inputs[((n + 1) \div 2)], 2 - (n % 2)>>] >>

BatchCalls == {"Verify", "HashVerify", "Aggregate", "VerifyAggregateSeals"}

\* Whatever the order in which the threads convert and merge, the library gets what
\* the caller gave, all of it and in its order: a digest meets its own key.
BatchesArrive == call.fn \in BatchCalls /\ outcome = "ok" => decoded = Given

ItemsOf(seq) == {seq[i] : i \in 1 .. Len(seq)}

\* What must decode for the call to go through.
Needed ==
  CASE call.fn = "Verify" -> {call.sig} \cup ItemsOf(call.digests) \cup ItemsOf(call.keys)
    [] call.fn = "HashVerify" -> {call.sig} \cup ItemsOf(call.keys)
    [] call.fn = "Aggregate" -> ItemsOf(call.signatures)
    [] call.fn = "VerifyAggregateSeals" -> ItemsOf(call.inputs)

\* What is refused when there is none of it.
GivenNone ==
  \/ call.fn = "Aggregate" /\ call.signatures = <<>>
  \/ call.fn = "VerifyAggregateSeals" /\ call.inputs = <<>>

\* A call is refused for what it was given and never for the way it was scheduled or
\* flattened, and what must be refused is: one item of many that does not decode, a
\* key too many, nothing to aggregate.  All else reaches the library, whose verdict is
\* its own, and no call that Go makes takes hash_verify outside its bytes.
RefusedForCause ==
  call.fn \in BatchCalls /\ outcome # "running" =>
    outcome = IF \/ Needed \cap Bad # {} \/ GivenNone
                 \/ call.fn = "Verify" /\ Len(call.digests) # Len(call.keys)
              THEN "err" ELSE "ok"

\* Every sector given is in the map of a PoSt, with the last replica given for it.
LastReplicaWins ==
  call.fn = "ReplicaInfoMap" /\ outcome = "ok" =>
    LET rs == call.replicas
    IN  /\ DOMAIN decoded[1] = {rs[i][1] : i \in 1 .. Len(rs)}
        /\ \A i \in 1 .. Len(rs) :
             (\A j \in i + 1 .. Len(rs) : rs[j][1] # rs[i][1]) => decoded[1][rs[i][1]] = rs[i][2]

\* Every call comes to an end.
Answered == <>(outcome # "running")
=============================================================================
