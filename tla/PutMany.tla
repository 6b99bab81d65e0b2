------------------------------ MODULE PutMany ------------------------------
(***************************************************************************)
(* CgoBlockstore::put_many_keyed (rust/src/fvm/blockstore/cgo.rs) writes   *)
(* blocks to the Go blockstore in batches: the CID and the data of every   *)
(* block go into one buffer, the sizes into a vector of lengths, and a     *)
(* batch is flushed when the next block might not fit.  The sizes cross    *)
(* the boundary as 32-bit integers, which wrap.  The Go side               *)
(* (cgo/blockstore.go, cgo_blockstore_put_many) cuts the buffer up again   *)
(* by the lengths.  Bytes are cells that know which block they come from.  *)
(***************************************************************************)
EXTENDS Integers, Sequences, SequencesExt

CONSTANTS
  MAX_BUF_SIZE,      \* bytes buffered in a batch: 4 MiB
  MAX_BLOCK_BATCH,   \* blocks buffered in a batch: 1024
  EST_MAX_CID_LEN,   \* the estimate of the size of a CID: 100
  MAX_LEN,           \* the longest length the Go side accepts: 2^30
  I32,               \* an i32 is in -I32 .. I32 - 1: 2^31
  CidLens,           \* the sizes of CIDs that occur
  DataLens,          \* the sizes of blocks that occur
  MaxBlocks          \* bound on the blocks of one call

ASSUME SizeAssumption ==
  /\ MAX_BUF_SIZE \in Nat /\ MAX_BLOCK_BATCH \in Nat \ {0}
  /\ EST_MAX_CID_LEN \in Nat /\ MAX_LEN \in Nat /\ MaxBlocks \in Nat /\ I32 \in Nat
  /\ MAX_BLOCK_BATCH <= MAX_LEN /\ MAX_BUF_SIZE <= MAX_LEN /\ MAX_LEN < I32
  /\ DataLens \subseteq Nat
  /\ CidLens \subseteq 1 .. EST_MAX_CID_LEN

VARIABLES
  blocks,    \* the blocks of the call: the sizes of their CIDs and data
  next,      \* the block the loop is at
  lengths, buf,   \* the batch being filled
  pc,        \* loop, flush (then append), lastFlush, done
  res,       \* what put_many_keyed returned
  taken,     \* the batches Go's PutMany stored, in order
  stored     \* the blocks that are in the Go blockstore with all of their data

vars == <<blocks, next, lengths, buf, pc, res, taken, stored>>

Block == [cid : CidLens, data : DataLens]

\* The calls: sequences of at most MaxBlocks blocks.
Calls == UNION {[1 .. n -> Block] : n \in 0 .. MaxBlocks}

Cell == [of : 1 .. MaxBlocks, part : {"cid", "data"}]

\* What Go took is the subject of the properties below.
TypeOK ==
  /\ blocks \in Calls
  /\ next \in 1 .. Len(blocks) + 1
  /\ lengths \in Seq(Int)
  /\ buf \in Seq(Cell)
  /\ pc \in {"loop", "flush", "append", "lastFlush", "done"}
  /\ res \in {"none", "ok", "err"}

Init ==
  /\ blocks \in Calls
  /\ next = 1
  /\ lengths = <<>> /\ buf = <<>>
  /\ pc = "loop"
  /\ res = "none"
  /\ taken = <<>>
  /\ stored = {}

-----------------------------------------------------------------------------
(* The Rust side *)

\* A slip: the space for the CID is forgotten.
MayNotFitWithoutCid(b) ==
  \/ Len(lengths) >= MAX_BLOCK_BATCH
  \/ b.data + Len(buf) > MAX_BUF_SIZE

\* The condition for writing the batch out before block b is added.
MayNotFit(b) ==
  \/ Len(lengths) >= MAX_BLOCK_BATCH
  \/ EST_MAX_CID_LEN + b.data + Len(buf) > MAX_BUF_SIZE

\* The head of the loop.
NextBlock ==
  /\ pc = "loop"
  /\ pc' = IF next > Len(blocks) THEN "lastFlush"
           ELSE IF MayNotFit(blocks[next]) THEN "flush" ELSE "append"
  /\ UNCHANGED <<blocks, next, lengths, buf, res, taken, stored>>

Cells(i, part, n) == [j \in 1 .. n |-> [of |-> i, part |-> part]]

\* `n as i32`: the low 32 bits of n, read as a signed number.
AsI32(n) == ((n + I32) % (2 * I32)) - I32

\* A slip: the data is written before the CID.
PushBlockSwapped ==
  /\ pc = "append"
  /\ LET b == blocks[next]
     IN  /\ buf' = buf \o Cells(next, "data", b.data) \o Cells(next, "cid", b.cid)
         /\ lengths' = Append(lengths, AsI32(b.cid + b.data))
  /\ next' = next + 1
  /\ pc' = "loop"
  /\ UNCHANGED <<blocks, res, taken, stored>>

\* The CID and the data are written, and the size of both recorded.
PushBlock ==
  /\ pc = "append"
  /\ LET b == blocks[next]
     IN  /\ buf' = buf \o Cells(next, "cid", b.cid) \o Cells(next, "data", b.data)
         /\ lengths' = Append(lengths, AsI32(b.cid + b.data))
  /\ next' = next + 1
  /\ pc' = "loop"
  /\ UNCHANGED <<blocks, res, taken, stored>>

-----------------------------------------------------------------------------
(* The Go side *)

\* The number of lengths Go is told of: `lengths.len() as i32`.
LengthsLen == AsI32(Len(lengths))

\* How far blockBuf has been advanced after n lengths of s.
BlockBuf(s) ==
  LET advanced[n \in 0 .. Len(s)] == IF n = 0 THEN 0 ELSE advanced[n - 1] + s[n]
  IN  advanced

\* The part of the buffer that belongs to the j-th length.
Segment(j) ==
  LET start == BlockBuf(lengths)[j - 1]
  IN  SubSeq(buf, start + 1, start + lengths[j])

\* cid.CidFromBytes: how many bytes at the head of s make a CID; 0 if none do.
CidFromBytes(s) ==
  IF s = <<>> THEN 0
  ELSE LET i == s[1].of
           n == blocks[i].cid
       IN  IF Len(s) >= n /\ SubSeq(s, 1, n) = Cells(i, "cid", n) THEN n ELSE 0

\* The block cut out of a segment: its CID and the bytes after it.
Parse(s) == [cid |-> s[1].of, data |-> SubSeq(s, CidFromBytes(s) + 1, Len(s))]

\* Go answers with an error before anything is stored: a number too large, one
\* below zero (taking a slice of that length panics, and the panic is recovered),
\* or bytes without a CID.
Rejected ==
  \/ LengthsLen > MAX_LEN \/ LengthsLen < 0
  \/ \E j \in 1 .. LengthsLen :
       lengths[j] > MAX_LEN \/ lengths[j] < 0 \/ CidFromBytes(Segment(j)) = 0

\* The blocks that Go hands to PutMany.
Decoded == [j \in 1 .. LengthsLen |-> Parse(Segment(j))]

\* Is the decoded block the one its CID names, with all of its data?
Intact(d) == d.data = Cells(d.cid, "data", blocks[d.cid].data)

\* The blocks of the batch that Go read with all of their data.
Whole == {Decoded[j].cid : j \in {k \in 1 .. LengthsLen : Intact(Decoded[k])}}

-----------------------------------------------------------------------------
(* flush_buffered, the call into Go included *)

\* Where the caller of flush_buffered goes on when it returned Ok.
AfterFlush ==
  IF pc = "flush" THEN pc' = "append" /\ UNCHANGED res
                  ELSE pc' = "done" /\ res' = "ok"

FlushNothing ==
  /\ pc \in {"flush", "lastFlush"}
  /\ buf = <<>>
  /\ AfterFlush
  /\ UNCHANGED <<blocks, next, lengths, buf, taken, stored>>

\* A slip: the batch is written again after it was stored.
FlushStoredTwice ==
  /\ pc \in {"flush", "lastFlush"}
  /\ buf # <<>>
  /\ ~Rejected
  /\ LET batch == [j \in 1 .. LengthsLen |-> Decoded[j].cid]
     IN  taken' = taken \o <<batch, batch>>
  /\ stored' = stored \cup Whole
  /\ buf' = <<>> /\ lengths' = <<>>
  /\ AfterFlush
  /\ UNCHANGED <<blocks, next>>

\* Go's PutMany stores the whole batch.
FlushStored ==
  /\ pc \in {"flush", "lastFlush"}
  /\ buf # <<>>
  /\ ~Rejected
  /\ taken' = Append(taken, [j \in 1 .. LengthsLen |-> Decoded[j].cid])
  /\ stored' = stored \cup Whole
  /\ buf' = <<>> /\ lengths' = <<>>
  /\ AfterFlush
  /\ UNCHANGED <<blocks, next>>

\* A slip: the result of flush_buffered is not propagated with `?`.
FlushFailedIgnored ==
  /\ pc \in {"flush", "lastFlush"}
  /\ buf # <<>>
  /\ \E s \in SUBSET (IF Rejected THEN {} ELSE Whole) : stored' = stored \cup s
  /\ buf' = <<>> /\ lengths' = <<>>
  /\ AfterFlush
  /\ UNCHANGED <<blocks, next, taken>>

\* The batch is rejected before anything is stored, or PutMany fails after it
\* has stored any part of it.  The error ends put_many_keyed.
FlushFailed ==
  /\ pc \in {"flush", "lastFlush"}
  /\ buf # <<>>
  /\ \E s \in SUBSET (IF Rejected THEN {} ELSE Whole) : stored' = stored \cup s
  /\ buf' = <<>> /\ lengths' = <<>>
  /\ pc' = "done" /\ res' = "err"
  /\ UNCHANGED <<blocks, next, taken>>

Next == NextBlock \/ PushBlock \/ FlushNothing \/ FlushStored \/ FlushFailed

Spec == Init /\ [][Next]_vars

-----------------------------------------------------------------------------
(* Properties *)

\* The batch being filled never outgrows its limits: not the vector of lengths,
\* which is allocated once, and not the buffer, unless one block alone does.
BatchFits ==
  /\ Len(lengths) <= MAX_BLOCK_BATCH
  /\ Len(buf) <= MAX_BUF_SIZE \/ Len(lengths) = 1

Size(i) == blocks[i].cid + blocks[i].data

\* The block that the j-th length of the batch stands for.
Sent(j) == next - 1 - Len(lengths) + j

\* The Go side reads out of a batch what Rust put in, or turns it down for a
\* reason.  Go rejects a batch only when a block of it is longer than MAX_LEN.
\* From a batch it accepts, every block comes out with its own CID and all of
\* its data, except a block of 2^32 bytes or more: its length has wrapped to a
\* small one, and Go reads its CID and the head of its data without an error.
GoReadsWhatRustWrote ==
  pc \in {"flush", "lastFlush"} /\ buf # <<>> =>
    /\ Rejected => \E j \in DOMAIN lengths : Size(Sent(j)) > MAX_LEN
    /\ ~Rejected => \A j \in DOMAIN lengths :
         /\ Decoded[j].cid = Sent(j)
         /\ Intact(Decoded[j]) \/ Size(Sent(j)) >= 2 * I32

\* The batches stored so far, one after the other, are the first blocks of the
\* call, in order, none twice and none left out.
BatchesInOrder ==
  LET flat == FlattenSeq(taken)
  IN  /\ Len(flat) <= Len(blocks)
      /\ \A i \in DOMAIN flat : flat[i] = i

\* No block is lost without an error: only blocks the loop has passed are ever
\* stored, and whenever nothing is waiting in the buffer and no error was
\* returned, those stored with all of their data are every block passed so far
\* that is smaller than 2^32 bytes.  (A failed batch may be stored in part;
\* larger blocks are cut short silently, see GoReadsWhatRustWrote.)
NoSilentLoss ==
  /\ stored \subseteq 1 .. (next - 1)
  /\ buf = <<>> /\ res # "err" => stored = {i \in 1 .. (next - 1) : Size(i) < 2 * I32}
=============================================================================
