---------------------------- MODULE TraceProofs ----------------------------
(***************************************************************************)
(* What holds of Trace for lists of any length.                            *)
(***************************************************************************)
EXTENDS Trace, SequenceTheorems, FiniteSetTheorems, TLAPS

\* What was not read has no receipt, the open calls have been read, and when the outermost returns none is open.
OpenCalls ==
  /\ \A c \in next .. Len(events) : receipt[c] = NoReceipt
  /\ \A k \in 1 .. Len(stack) : stack[k] < next
  /\ result = "ok" => stack = <<>>
  /\ exec_trace = "some" => result = "ok"

TraceInv == TypeOK /\ OpenCalls

\* A Return event makes an exit code, and OK of just the return of an actor.
LEMMA ReceiptOk ==
  ASSUME NEW ev \in Event, ev.type # "Call", ev # [type |-> "Failure", arg |-> "OK"]
  PROVE  ReceiptCode(ev) \in ExitCode /\ (ReceiptCode(ev) = "OK" <=> ev.type = "Return")
BY DEF Event, ReceiptCode, ExitCode, ErrorNumber

\* A sequence without its last element.
LEMMA FrontOfSeq ==
  ASSUME NEW S, NEW s \in Seq(S), s # <<>>
  PROVE  /\ Len(s) \in Nat \ {0} /\ s[Len(s)] \in S
         /\ SubSeq(s, 1, Len(s) - 1) \in Seq(S) /\ Len(SubSeq(s, 1, Len(s) - 1)) = Len(s) - 1
         /\ \A k \in 1 .. Len(s) - 1 : k \in 1 .. Len(s) /\ SubSeq(s, 1, Len(s) - 1)[k] = s[k]
<1>1. Len(s) \in Nat \ {0}
  BY EmptySeq
<1>2. \A i \in 1 .. Len(s) : s[i] \in S
  OBVIOUS
<1>3. 1 \in Int /\ Len(s) - 1 \in Int /\ \A i \in 1 .. Len(s) - 1 : s[i] \in S
  BY <1>1, <1>2
<1>4. /\ SubSeq(s, 1, Len(s) - 1) \in Seq(S)
      /\ Len(SubSeq(s, 1, Len(s) - 1)) = IF 1 <= Len(s) - 1 THEN Len(s) - 1 - 1 + 1 ELSE 0
      /\ \A i \in 1 .. Len(s) - 1 - 1 + 1 : SubSeq(s, 1, Len(s) - 1)[i] = s[1 + i - 1]
  BY <1>3, SubSeqProperties
<1> DEFINE t == SubSeq(s, 1, Len(s) - 1)
           n == Len(s)
<1>5. n \in Nat \ {0} /\ t \in Seq(S) /\ (Len(t) = IF 1 <= n - 1 THEN n - 1 - 1 + 1 ELSE 0)
      /\ \A i \in 1 .. n - 1 - 1 + 1 : t[i] = s[1 + i - 1]
  BY <1>1, <1>4
<1> HIDE DEF t, n
<1>6. t \in Seq(S) /\ Len(t) = n - 1 /\ \A k \in 1 .. n - 1 : k \in 1 .. n /\ t[k] = s[k]
  <2>1. Len(t) = n - 1
    BY <1>5
  <2>2. ASSUME NEW k \in 1 .. n - 1 PROVE k \in 1 .. n /\ t[k] = s[k]
    <3>1. k \in 1 .. n - 1 - 1 + 1 /\ 1 + k - 1 = k /\ k \in 1 .. n
      BY <1>5
    <3> QED BY <1>5, <3>1
  <2> QED BY <1>5, <2>1, <2>2
<1> QED BY <1>1, <1>2, <1>6 DEF t, n

\* Nothing is read at first.
LEMMA InitTrace == Init => TraceInv
BY TraceAssumption DEF Init, TraceInv, TypeOK, OpenCalls, ExitCode

\* A call is opened.
LEMMA CallTrace ==
  ASSUME TraceInv, Call
  PROVE  TraceInv'
<1> USE DEF TraceInv, TypeOK, Call, Reading
<1>1. TypeOK'
  BY DEF ExitCode
<1>2. OpenCalls'
  BY DEF OpenCalls
<1> QED BY <1>1, <1>2

\* The innermost call is closed with the receipt of the event.
LEMMA ReturnTrace ==
  ASSUME TraceInv, Return
  PROVE  TraceInv'
<1> USE DEF TraceInv, Return, Reading
<1>1. /\ Len(stack) \in Nat \ {0} /\ stack[Len(stack)] \in 1 .. Len(events)
      /\ Outer \in Seq(1 .. Len(events)) /\ Len(Outer) = Len(stack) - 1
      /\ \A k \in 1 .. Len(Outer) : k \in 1 .. Len(stack) /\ Outer[k] = stack[k]
  <2>1. stack \in Seq(1 .. Len(events)) /\ stack # <<>>
    BY DEF TypeOK
  <2>2. /\ Len(stack) \in Nat \ {0} /\ stack[Len(stack)] \in 1 .. Len(events)
        /\ Outer \in Seq(1 .. Len(events)) /\ Len(Outer) = Len(stack) - 1
        /\ \A k \in 1 .. Len(stack) - 1 : k \in 1 .. Len(stack) /\ Outer[k] = stack[k]
    BY <2>1, FrontOfSeq DEF Outer
  <2> QED BY <2>2
<1>2. /\ Len(events) \in Nat /\ next \in 1 .. Len(events) /\ events[next] \in Event
      /\ ReceiptCode(events[next]) \in ExitCode
      /\ ReceiptCode(events[next]) = "OK" => events[next].type = "Return"
  BY ReceiptOk DEF TypeOK
<1>3. TypeOK'
  <2>1. subcalls' \in [1 .. Len(events) -> Seq(1 .. Len(events))]
    <3>1. CASE Outer = <<>>
      BY <3>1 DEF TypeOK
    <3>2. CASE Outer # <<>>
      <4>1. Outer[Len(Outer)] \in 1 .. Len(events)
        BY <1>1, <3>2
      <4>2. Append(subcalls[Outer[Len(Outer)]], stack[Len(stack)]) \in Seq(1 .. Len(events))
        BY <1>1, <4>1 DEF TypeOK
      <4> QED BY <3>2, <4>1, <4>2 DEF TypeOK
    <3> QED BY <3>1, <3>2
  <2>2. receipt' \in [1 .. Len(events) -> ExitCode \cup {NoReceipt}]
    BY <1>1, <1>2 DEF TypeOK
  <2> QED BY <1>1, <1>2, <2>1, <2>2 DEF TypeOK
<1>4. OpenCalls'
  <2>1. \A c \in next + 1 .. Len(events) : receipt'[c] = NoReceipt
    BY <1>1, <1>2 DEF OpenCalls, TypeOK
  <2>2. \A k \in 1 .. Len(Outer) : Outer[k] < next + 1
    <3>1. \A k \in 1 .. Len(stack) : stack[k] < next /\ stack[k] \in 1 .. Len(events)
      BY DEF OpenCalls, TypeOK
    <3>2. SUFFICES ASSUME NEW k \in 1 .. Len(Outer) PROVE Outer[k] < next + 1
      OBVIOUS
    <3>3. stack[k] < next /\ stack[k] \in 1 .. Len(events) /\ Outer[k] = stack[k]
      BY <1>1, <3>1
    <3> QED BY <1>2, <3>3
  <2>3. result' = "ok" => Outer = <<>>
    OBVIOUS
  <2>4. exec_trace = "some" => result' = "ok"
    BY DEF OpenCalls
  <2> QED BY <2>1, <2>2, <2>3, <2>4 DEF OpenCalls
<1> QED BY <1>3, <1>4

\* The other steps open and close nothing that is handed out.
LEMMA OtherTrace ==
  ASSUME TraceInv, NotACall \/ FailedWithOk \/ Exhausted \/ Respond \/ UNCHANGED vars
  PROVE  TraceInv'
<1>1. CASE NotACall \/ FailedWithOk \/ Exhausted
  <2>0. <<>> \in Seq(1 .. Len(events))
    OBVIOUS
  <2>1. TypeOK'
    <3>1. next' \in 1 .. Len(events) + 1
      BY <1>1 DEF TraceInv, TypeOK, NotACall, FailedWithOk, Exhausted, Reading
    <3>2. stack' \in Seq(1 .. Len(events))
      BY <1>1, <2>0 DEF TraceInv, TypeOK, NotACall, FailedWithOk, Exhausted
    <3>3. UNCHANGED <<events, receipt, subcalls, exec_trace>> /\ result' = "err"
      BY <1>1 DEF NotACall, FailedWithOk, Exhausted
    <3> QED BY <3>1, <3>2, <3>3 DEF TraceInv, TypeOK
  <2>2. stack' = stack \/ stack' = <<>>
    BY <1>1 DEF NotACall, FailedWithOk, Exhausted
  <2>3. /\ result = "building" /\ result' = "err" /\ UNCHANGED <<events, receipt, exec_trace>>
        /\ next' \in {next, next + 1}
    BY <1>1 DEF NotACall, FailedWithOk, Exhausted, Reading
  <2>4. \A c \in next' .. Len(events) : receipt[c] = NoReceipt
    BY <2>3 DEF TraceInv, OpenCalls, TypeOK
  <2>5. \A k \in 1 .. Len(stack') : stack'[k] < next'
    <3>1. CASE stack' = <<>>
      BY <3>1
    <3>2. CASE stack' = stack
      BY <2>3, <3>2 DEF TraceInv, OpenCalls, TypeOK
    <3> QED BY <2>2, <3>1, <3>2
  <2> QED BY <2>1, <2>3, <2>4, <2>5 DEF TraceInv, OpenCalls
<1>2. CASE Respond \/ UNCHANGED vars
  BY <1>2 DEF TraceInv, TypeOK, OpenCalls, Respond, vars
<1> QED BY <1>1, <1>2

\* The invariant holds for ever.
LEMMA TraceInvariant == Spec => []TraceInv
<1>1. TraceInv /\ [Next]_vars => TraceInv'
  BY CallTrace, ReturnTrace, OtherTrace DEF Next
<1> QED BY <1>1, InitTrace, PTL DEF Spec

\* The positions, receipts and subcalls stay within the list.
THEOREM TraceTypes == Spec => []TypeOK
<1>1. TraceInv => TypeOK
  BY DEF TraceInv
<1> QED BY <1>1, TraceInvariant, PTL

-----------------------------------------------------------------------------
(* The tree *)

\* An event opens a call or closes one.
LEMMA DepthSteps ==
  ASSUME events \in Seq(Event)
  PROVE  /\ Depth(0) = 0
         /\ \A i \in 0 .. Len(events) : Depth(i) \in Int
         /\ \A i \in Calls : Depth(i) = Depth(i - 1) + 1
         /\ \A i \in (1 .. Len(events)) \ Calls : Depth(i) = Depth(i - 1) - 1
<1> DEFINE A(i) == {k \in Calls : k <= i}
           B(i) == (1 .. i) \ Calls
<1>0. Len(events) \in Nat /\ \A k \in Calls : k \in 1 .. Len(events)
  BY DEF Calls
<1>1. ASSUME NEW i \in 0 .. Len(events)
      PROVE  /\ IsFiniteSet(A(i)) /\ Cardinality(A(i)) \in Nat
             /\ IsFiniteSet(B(i)) /\ Cardinality(B(i)) \in Nat
  <2>1. IsFiniteSet(1 .. i)
    BY <1>0, FS_Interval
  <2>2. A(i) \in SUBSET (1 .. i) /\ B(i) \in SUBSET (1 .. i)
    <3>1. \A k \in Calls : k <= i => k \in 1 .. i
      BY <1>0
    <3> QED BY <3>1
  <2> HIDE DEF A, B
  <2>3. IsFiniteSet(A(i)) /\ IsFiniteSet(B(i))
    BY <2>1, <2>2, FS_Subset
  <2> QED BY <2>3, FS_CardinalityType
<1>2. A(0) = {} /\ B(0) = {}
  <2>1. \A k \in Calls : ~(k <= 0)
    BY <1>0
  <2>2. 1 .. 0 = {}
    OBVIOUS
  <2> QED BY <2>1, <2>2
<1>3. ASSUME NEW i \in 1 .. Len(events)
      PROVE  /\ i - 1 \in 0 .. Len(events) /\ i \notin A(i - 1) /\ i \notin B(i - 1)
             /\ i \in Calls => A(i) = A(i - 1) \cup {i} /\ B(i) = B(i - 1)
             /\ i \notin Calls => A(i) = A(i - 1) /\ B(i) = B(i - 1) \cup {i}
  <2>1. i - 1 \in 0 .. Len(events) /\ ~(i <= i - 1) /\ i \notin 1 .. i - 1
    BY <1>0
  <2>2. \A k \in Calls : k <= i <=> k <= i - 1 \/ k = i
    BY <1>0
  <2>3. 1 .. i = (1 .. i - 1) \cup {i}
    BY <1>0
  <2>4. i \in Calls => A(i) = A(i - 1) \cup {i}
    BY <2>2
  <2>5. i \in Calls => B(i) = B(i - 1)
    BY <2>3
  <2>6. i \notin Calls => A(i) = A(i - 1)
    BY <2>2
  <2>7. i \notin Calls => B(i) = B(i - 1) \cup {i}
    BY <2>3
  <2> QED BY <2>1, <2>4, <2>5, <2>6, <2>7
<1>4. \A i \in 0 .. Len(events) : Depth(i) = Cardinality(A(i)) - Cardinality(B(i))
  BY DEF Depth
<1> HIDE DEF A, B
<1>5. Depth(0) = 0
  <2>1. Cardinality(A(0)) = 0 /\ Cardinality(B(0)) = 0
    BY <1>2, FS_EmptySet
  <2> QED BY <1>0, <1>4, <2>1
<1>6. ASSUME NEW i \in Calls PROVE Depth(i) = Depth(i - 1) + 1
  <2>1. i \in 1 .. Len(events) /\ i \in 0 .. Len(events)
    BY <1>0
  <2>2. i - 1 \in 0 .. Len(events) /\ i \notin A(i - 1) /\ A(i) = A(i - 1) \cup {i} /\ B(i) = B(i - 1)
    BY <1>3, <2>1
  <2>3. Cardinality(A(i)) = Cardinality(A(i - 1)) + 1
    BY <1>1, <2>2, FS_AddElement
  <2>4. /\ Depth(i) = Cardinality(A(i)) - Cardinality(B(i))
        /\ Depth(i - 1) = Cardinality(A(i - 1)) - Cardinality(B(i - 1))
    BY <1>4, <2>1, <2>2
  <2>5. Cardinality(A(i - 1)) \in Int /\ Cardinality(B(i - 1)) \in Int
    BY <1>1, <2>2
  <2> QED BY <2>2, <2>3, <2>4, <2>5
<1>7. ASSUME NEW i \in (1 .. Len(events)) \ Calls PROVE Depth(i) = Depth(i - 1) - 1
  <2>1. i \in 0 .. Len(events)
    BY <1>0
  <2>2. i - 1 \in 0 .. Len(events) /\ i \notin B(i - 1) /\ A(i) = A(i - 1) /\ B(i) = B(i - 1) \cup {i}
    BY <1>3
  <2>3. Cardinality(B(i)) = Cardinality(B(i - 1)) + 1
    BY <1>1, <2>2, FS_AddElement
  <2>4. /\ Depth(i) = Cardinality(A(i)) - Cardinality(B(i))
        /\ Depth(i - 1) = Cardinality(A(i - 1)) - Cardinality(B(i - 1))
    BY <1>4, <2>1, <2>2
  <2>5. Cardinality(A(i - 1)) \in Int /\ Cardinality(B(i - 1)) \in Int
    BY <1>1, <2>2
  <2> QED BY <2>2, <2>3, <2>4, <2>5
<1> QED BY <1>1, <1>4, <1>5, <1>6, <1>7

\* The list is not written to.
LEMMA SameList ==
  ASSUME events' = events
  PROVE  /\ Calls' = Calls /\ \A i : Depth(i)' = Depth(i)
         /\ \A c : Children(c)' = Children(c)
         /\ \A c, r : Closes(c, r)' <=> Closes(c, r)
<1>1. Calls' = Calls /\ \A i : Depth(i)' = Depth(i)
  BY DEF Calls, Depth
<1>2. \A c : Children(c)' = Children(c)
  BY <1>1 DEF Children
<1>3. \A c, r : Closes(c, r)' <=> Closes(c, r)
  BY <1>1 DEF Closes
<1> QED BY <1>1, <1>2, <1>3

FailedOk == [type |-> "Failure", arg |-> "OK"]

Open(c) == \E k \in 1 .. Len(stack) : stack[k] = c

\* The stack holds the calls that the events read so far leave open, each at its own
\* depth, below which no event has gone since; the outermost is the first event.
Nested ==
  /\ Len(stack) = Depth(next - 1)
  /\ next > 1 => Len(stack) >= 1 /\ stack[1] = 1
  /\ \A k \in 1 .. Len(stack) :
       /\ stack[k] \in Calls /\ Depth(stack[k]) = k
       /\ \A m \in stack[k] .. next - 1 : Depth(m) >= k

\* The outermost call is closed by the last event read, and not before.
Whole ==
  /\ next >= 3 /\ Depth(next - 1) = 0 /\ 1 \in Calls
  /\ \A m \in 1 .. next - 2 : Depth(m) >= 1

\* The receipt of a call that is not open any more is that of the event that closed it.
Closed ==
  \A c \in Calls : c < next /\ ~Open(c) =>
    \E r \in 1 .. next - 1 : Closes(c, r) /\ receipt[c] = ReceiptCode(events[r])

\* A call has taken those of its calls that are closed, in their order.
Adopted ==
  \A c \in Calls : c < next =>
    /\ {subcalls[c][i] : i \in 1 .. Len(subcalls[c])} = {d \in Children(c) : d < next /\ ~Open(d)}
    /\ \A i, j \in 1 .. Len(subcalls[c]) : i < j => subcalls[c][i] < subcalls[c][j]

\* A call that was not read has no calls yet.
Childless == \A c \in next .. Len(events) : subcalls[c] = <<>>

TreeInv ==
  /\ TraceInv
  /\ BuiltIffClosed
  /\ result = "building" => events # <<>> /\ Nested
  /\ result = "ok" => Whole
  /\ result \in {"building", "ok"} =>
       Closed /\ Adopted /\ Childless /\ \A k \in 1 .. next - 1 : events[k] # FailedOk

\* The open calls from the outermost in, and nothing outside of the outermost.
LEMMA StackOrder ==
  ASSUME TypeOK, Nested, \A k \in 1 .. Len(stack) : stack[k] < next
  PROVE  /\ \A k \in 1 .. Len(stack) : stack[k] \in 1 .. next - 1
         /\ \A j, k \in 1 .. Len(stack) : j < k => stack[j] < stack[k]
         /\ \A m \in 1 .. next - 1 : Depth(m) >= 1
<1>1. Len(stack) \in Nat /\ \A k \in 1 .. Len(stack) : stack[k] \in 1 .. next - 1
  BY DEF TypeOK
<1>2. ASSUME NEW j \in 1 .. Len(stack), NEW k \in 1 .. Len(stack), j < k
      PROVE  stack[j] < stack[k]
  <2>1. SUFFICES ASSUME ~(stack[j] < stack[k]) PROVE FALSE
    OBVIOUS
  <2>2. stack[j] \in stack[k] .. next - 1
    BY <1>1, <2>1
  <2>3. Depth(stack[j]) >= k /\ Depth(stack[j]) = j
    BY <2>2 DEF Nested
  <2> QED BY <1>1, <1>2, <2>3
<1>3. ASSUME NEW m \in 1 .. next - 1 PROVE Depth(m) >= 1
  <2>1. next > 1 /\ next \in Nat
    BY DEF TypeOK
  <2>2. 1 \in 1 .. Len(stack) /\ stack[1] = 1
    BY <1>1, <2>1 DEF Nested
  <2> QED BY <2>1, <2>2 DEF Nested
<1> QED BY <1>1, <1>2, <1>3

\* A call is opened one level further in.
LEMMA CallNested ==
  ASSUME TypeOK, Nested, Call, OpenCalls
  PROVE  Nested'
<1>1. /\ next \in 1 .. Len(events) /\ next \in Calls /\ Len(events) \in Nat /\ next' = next + 1
      /\ events' = events /\ stack' = Append(stack, next)
  BY DEF TypeOK, Call, Reading, Calls
<1>2. Calls' = Calls /\ \A i : Depth(i)' = Depth(i)
  BY <1>1, SameList
<1>3. Len(stack) \in Nat /\ Depth(next) = Len(stack) + 1 /\ Depth(next - 1) = Len(stack)
  BY <1>1, DepthSteps DEF TypeOK, Nested
<1>4. /\ Len(stack') = Len(stack) + 1 /\ stack'[Len(stack) + 1] = next
      /\ \A k \in 1 .. Len(stack) : stack'[k] = stack[k]
  BY <1>1, <1>3, AppendProperties DEF TypeOK
<1>5. ASSUME NEW k \in 1 .. Len(stack) + 1
      PROVE  /\ stack'[k] \in Calls /\ Depth(stack'[k]) = k
             /\ \A m \in stack'[k] .. next : Depth(m) >= k
  <2>1. CASE k = Len(stack) + 1
    BY <1>1, <1>3, <1>4, <2>1
  <2>2. CASE k \in 1 .. Len(stack)
    <3>1. stack'[k] \in Calls /\ Depth(stack'[k]) = k /\ \A m \in stack[k] .. next - 1 : Depth(m) >= k
      BY <1>4, <2>2 DEF Nested
    <3>2. stack[k] \in Int
      BY <2>2 DEF TypeOK
    <3>3. \A m \in stack[k] .. next : m \in stack[k] .. next - 1 \/ m = next
      BY <1>1, <3>2
    <3> QED BY <1>3, <1>4, <2>2, <3>1, <3>3
  <2> QED BY <1>3, <2>1, <2>2
<1>6. Len(stack') >= 1 /\ stack'[1] = 1
  <2>1. CASE next = 1
    <3>1. Len(stack) = 0
      BY <1>3, <2>1, DepthSteps DEF TypeOK
    <3> QED BY <1>4, <2>1, <3>1
  <2>2. CASE next > 1
    BY <1>3, <1>4, <2>2 DEF Nested
  <2> QED BY <1>1, <2>1, <2>2
<1>7. next' - 1 = next
  BY <1>1
<1> QED BY <1>2, <1>3, <1>4, <1>5, <1>6, <1>7 DEF Nested

\* The stack after a Return, and the level it goes back to.
LEMMA ReturnNested ==
  ASSUME TypeOK, Nested, OpenCalls, Return
  PROVE  /\ Len(stack) \in Nat \ {0} /\ Len(Outer) = Len(stack) - 1 /\ stack' = Outer
         /\ \A k \in 1 .. Len(stack) - 1 : Outer[k] = stack[k]
         /\ next \in (1 .. Len(events)) \ Calls /\ next > 1 /\ Depth(next) = Len(stack) - 1
         /\ Outer # <<>> => Nested'
         /\ Outer = <<>> => Whole'
<1>1. /\ Len(stack) \in Nat \ {0} /\ Outer \in Seq(1 .. Len(events)) /\ Len(Outer) = Len(stack) - 1
      /\ \A k \in 1 .. Len(stack) - 1 : Outer[k] = stack[k]
  BY FrontOfSeq DEF TypeOK, Return, Outer
<1>2. /\ next \in (1 .. Len(events)) \ Calls /\ Len(events) \in Nat /\ next' = next + 1
      /\ events' = events /\ stack' = Outer
  BY DEF TypeOK, Return, Reading, Calls
<1>3. next > 1 /\ stack[1] = 1 /\ 1 \in Calls
  <2>1. 1 \in 1 .. Len(stack)
    BY <1>1
  <2>2. stack[1] \in 1 .. Len(events) /\ stack[1] < next
    BY <2>1 DEF OpenCalls, TypeOK
  <2> QED BY <1>1, <1>2, <2>1, <2>2 DEF Nested
<1>4. Depth(next) = Len(stack) - 1 /\ Depth(next - 1) = Len(stack)
  BY <1>1, <1>2, DepthSteps DEF TypeOK, Nested
<1>5. Calls' = Calls /\ (\A i : Depth(i)' = Depth(i)) /\ next' - 1 = next /\ next' - 2 = next - 1
  BY <1>2, SameList
<1>6. ASSUME Outer # <<>> PROVE Nested'
  <2>1. Len(Outer) >= 1 /\ Outer[1] = 1
    BY <1>1, <1>3, <1>6
  <2>2. ASSUME NEW k \in 1 .. Len(Outer)
        PROVE  /\ Outer[k] \in Calls /\ Depth(Outer[k]) = k
               /\ \A m \in Outer[k] .. next : Depth(m) >= k
    <3>1. k \in 1 .. Len(stack) /\ Outer[k] = stack[k] /\ stack[k] \in Int /\ Len(stack) - 1 >= k
      BY <1>1 DEF TypeOK
    <3>2. stack[k] \in Calls /\ Depth(stack[k]) = k /\ \A m \in stack[k] .. next - 1 : Depth(m) >= k
      BY <3>1 DEF Nested
    <3>3. \A m \in stack[k] .. next : m \in stack[k] .. next - 1 \/ m = next
      BY <1>2, <3>1
    <3> QED BY <1>4, <3>1, <3>2, <3>3
  <2> QED BY <1>1, <1>2, <1>4, <1>5, <2>1, <2>2 DEF Nested
<1>7. ASSUME Outer = <<>> PROVE Whole'
  <2>1. Len(stack) = 1
    BY <1>1, <1>7
  <2>2. \A m \in 1 .. next - 1 : Depth(m) >= 1
    BY StackOrder DEF OpenCalls
  <2>3. next + 1 >= 3 /\ Depth(next) = 0
    BY <1>2, <1>3, <1>4, <2>1
  <2> QED BY <1>2, <1>3, <1>5, <2>2, <2>3 DEF Whole
<1> QED BY <1>1, <1>2, <1>3, <1>4, <1>6, <1>7

\* The innermost call is one of the calls of the call around it, and of no other.
LEMMA OneParent ==
  ASSUME TypeOK, Nested, OpenCalls, Len(stack) \in Nat \ {0},
         NEW c \in Calls, c < next
  PROVE  stack[Len(stack)] \in Children(c) <=> Len(stack) >= 2 /\ c = stack[Len(stack) - 1]
<1> DEFINE L == Len(stack)
           t == stack[L]
           p == stack[L - 1]
<1>1. L \in Nat \ {0} /\ c \in 1 .. next - 1 /\ next \in Nat /\ next - 1 <= Len(events) /\ Len(events) \in Nat
  BY DEF Calls, TypeOK
<1>2. t \in Calls /\ Depth(t) = L /\ t \in 1 .. next - 1 /\ \A m \in t .. next - 1 : Depth(m) >= L
  BY <1>1, StackOrder DEF Nested, OpenCalls
<1>3. L >= 2 =>
        /\ p \in Calls /\ Depth(p) = L - 1 /\ p \in 1 .. next - 1 /\ p < t
        /\ \A m \in p .. next - 1 : Depth(m) >= L - 1
  <2> HAVE L >= 2
  <2>1. L - 1 \in 1 .. L /\ L \in 1 .. L /\ L - 1 < L
    BY <1>1
  <2> QED BY <2>1, StackOrder DEF Nested, OpenCalls
<1>4. /\ \A i \in Calls : Depth(i) = Depth(i - 1) + 1
      /\ \A i \in 0 .. Len(events) : Depth(i) \in Int
      /\ \A m \in 1 .. next - 1 : Depth(m) >= 1
  BY DepthSteps, StackOrder DEF TypeOK, OpenCalls
<1>5. t \in Children(c) <=> c < t /\ L = Depth(c) + 1 /\ \A k \in c .. t : Depth(k) >= Depth(c)
  BY <1>2 DEF Children
<1> HIDE DEF L, t, p
<1>6. ASSUME L >= 2, c = p PROVE t \in Children(c)
  BY <1>1, <1>2, <1>3, <1>5, <1>6
<1>7. ASSUME t \in Children(c) PROVE L >= 2 /\ c = p
  <2>1. c < t /\ L = Depth(c) + 1 /\ (\A k \in c .. t : Depth(k) >= Depth(c)) /\ Depth(c) \in Int
    BY <1>1, <1>4, <1>5, <1>7
  <2>2. L >= 2 /\ Depth(c) = L - 1
    BY <1>1, <1>4, <2>1
  <2>3. CASE c < p
    <3>1. Depth(p - 1) = L - 2
      <4>1. p \in Calls /\ Depth(p) = L - 1 /\ p - 1 \in 0 .. Len(events)
        BY <1>1, <1>3, <2>2
      <4>2. Depth(p) = Depth(p - 1) + 1 /\ Depth(p - 1) \in Int
        BY <1>4, <4>1
      <4> QED BY <1>1, <4>1, <4>2
    <3>2. p - 1 \in c .. t
      BY <1>1, <1>2, <1>3, <2>2, <2>3
    <3> QED BY <1>1, <2>1, <2>2, <3>1, <3>2
  <2>4. CASE p < c
    <3>1. Depth(c - 1) = L - 2
      BY <1>1, <1>4, <2>2
    <3>2. c - 1 \in p .. next - 1
      BY <1>1, <1>3, <2>2, <2>4
    <3> QED BY <1>1, <1>3, <2>2, <3>1, <3>2
  <2> QED BY <1>1, <1>3, <2>2, <2>3, <2>4
<1> QED BY <1>6, <1>7 DEF L, t, p

\* The innermost call is the last that the call around it has made.
LEMMA LastChild ==
  ASSUME TypeOK, Nested, OpenCalls, Len(stack) \in Nat, Len(stack) >= 2,
         NEW d \in Children(stack[Len(stack) - 1]), d < next, d # stack[Len(stack)]
  PROVE  d < stack[Len(stack)]
<1> DEFINE L == Len(stack)
           t == stack[L]
           p == stack[L - 1]
<1>0. next \in Nat
  BY DEF TypeOK
<1>1. L \in Nat \ {0, 1} /\ L \in 1 .. L /\ L - 1 \in 1 .. L /\ next \in Nat
  BY <1>0
<1>2. t \in 1 .. next - 1 /\ \A m \in t .. next - 1 : Depth(m) >= L
  BY <1>1, StackOrder DEF Nested, OpenCalls
<1>3. Depth(p) = L - 1
  BY <1>1 DEF Nested
<1>4. d \in Calls /\ Depth(d) = L /\ d \in Int
  BY <1>1, <1>3 DEF Children, Calls
<1>5. Depth(d) = Depth(d - 1) + 1 /\ Depth(d - 1) \in Int
  <2>1. d - 1 \in 0 .. Len(events) /\ Len(events) \in Nat
    BY <1>4 DEF Calls, TypeOK
  <2> QED BY <1>4, <2>1, DepthSteps DEF TypeOK
<1> HIDE DEF L, t, p
<1>6. SUFFICES ASSUME ~(d < t) PROVE FALSE
  BY DEF L, t
<1>7. d - 1 \in t .. next - 1
  BY <1>1, <1>2, <1>4, <1>6 DEF L, t
<1> QED BY <1>1, <1>2, <1>4, <1>5, <1>7

\* Which calls are open after a step.
LEMMA OpenAfter ==
  ASSUME TypeOK, Nested, OpenCalls
  PROVE  /\ Call => \A c : Open(c)' <=> Open(c) \/ c = next
         /\ Return => \A c : Open(c)' <=> Open(c) /\ c # stack[Len(stack)]
<1>1. ASSUME Call, NEW c PROVE Open(c)' <=> Open(c) \/ c = next
  <2>1. stack \in Seq(1 .. Len(events)) /\ Len(stack) \in Nat /\ next \in 1 .. Len(events)
    BY <1>1 DEF TypeOK, Call, Reading
  <2>2. /\ Len(stack') = Len(stack) + 1 /\ stack'[Len(stack) + 1] = next
        /\ \A k \in 1 .. Len(stack) : stack'[k] = stack[k]
    BY <1>1, <2>1, AppendProperties DEF Call
  <2>3. \A k \in 1 .. Len(stack') : k \in 1 .. Len(stack) \/ k = Len(stack) + 1
    BY <2>1, <2>2
  <2>4. ASSUME Open(c)' PROVE Open(c) \/ c = next
    BY <2>2, <2>3, <2>4 DEF Open
  <2>5. ASSUME Open(c) \/ c = next PROVE Open(c)'
    <3>1. Len(stack) + 1 \in 1 .. Len(stack') /\ \A k \in 1 .. Len(stack) : k \in 1 .. Len(stack')
      BY <2>1, <2>2
    <3> QED BY <2>2, <2>5, <3>1 DEF Open
  <2> QED BY <2>4, <2>5
<1>2. ASSUME Return, NEW c PROVE Open(c)' <=> Open(c) /\ c # stack[Len(stack)]
  <2> DEFINE L == Len(stack)
  <2>1. L \in Nat \ {0} /\ Len(stack') = L - 1 /\ \A k \in 1 .. L - 1 : stack'[k] = stack[k]
    BY <1>2, ReturnNested
  <2>2. \A j, k \in 1 .. L : j < k => stack[j] < stack[k]
    BY StackOrder DEF OpenCalls
  <2>3. \A k \in 1 .. L - 1 : k \in 1 .. L /\ stack[k] # stack[L]
    <3>1. \A k \in 1 .. L : stack[k] \in Int
      BY DEF TypeOK
    <3>2. \A k \in 1 .. L - 1 : k \in 1 .. L /\ L \in 1 .. L /\ k < L
      BY <2>1
    <3> QED BY <2>2, <3>1, <3>2
  <2>4. \A k \in 1 .. L : k \in 1 .. L - 1 \/ k = L
    BY <2>1
  <2> QED BY <2>1, <2>3, <2>4 DEF Open
<1> QED BY <1>1, <1>2

\* A call is opened, and nothing is closed.
LEMMA CallTree ==
  ASSUME TreeInv, Call
  PROVE  TreeInv'
<1>1. /\ TypeOK /\ OpenCalls /\ Nested /\ Closed /\ Adopted /\ Childless /\ events # <<>>
      /\ \A k \in 1 .. next - 1 : events[k] # FailedOk
  BY DEF TreeInv, TraceInv, Call, Reading
<1>2. /\ next \in Calls /\ next \in 1 .. Len(events) /\ Len(events) \in Nat /\ next' = next + 1
      /\ events' = events /\ result' = "building" /\ subcalls' = subcalls
  BY <1>1 DEF TypeOK, Call, Reading, Calls
<1>3. TraceInv' /\ Nested' /\ BuiltIffClosed'
  BY <1>1, <1>2, CallTrace, CallNested DEF TreeInv, BuiltIffClosed
<1>4. /\ Calls' = Calls /\ (\A c : Children(c)' = Children(c))
      /\ (\A c, r : Closes(c, r)' <=> Closes(c, r)) /\ \A c : Open(c)' <=> Open(c) \/ c = next
  BY <1>1, <1>2, SameList, OpenAfter
<1>5. \A c \in Calls : c \in 1 .. Len(events) /\ (c < next + 1 <=> c < next \/ c = next)
  BY <1>2 DEF Calls
<1>6. Closed'
  <2>1. SUFFICES ASSUME NEW c \in Calls, c < next + 1, ~Open(c)'
                 PROVE  \E r \in 1 .. next + 1 - 1 : Closes(c, r) /\ receipt'[c] = ReceiptCode(events[r])
    BY <1>2, <1>4 DEF Closed
  <2>2. c < next /\ ~Open(c) /\ c # next
    BY <1>4, <1>5, <2>1
  <2>3. receipt'[c] = receipt[c]
    BY <1>1, <1>5, <2>2 DEF Call, TypeOK
  <2>4. PICK r \in 1 .. next - 1 : Closes(c, r) /\ receipt[c] = ReceiptCode(events[r])
    BY <1>1, <2>2 DEF Closed
  <2>5. r \in 1 .. next + 1 - 1
    BY <1>2
  <2> QED BY <2>3, <2>4, <2>5
<1>7. Adopted'
  <2>1. SUFFICES ASSUME NEW c \in Calls, c < next + 1
                 PROVE  /\ {subcalls[c][i] : i \in 1 .. Len(subcalls[c])}
                             = {d \in Children(c) : d < next + 1 /\ ~Open(d)'}
                        /\ \A i, j \in 1 .. Len(subcalls[c]) : i < j => subcalls[c][i] < subcalls[c][j]
    BY <1>2, <1>4 DEF Adopted
  <2>2. \A d \in Children(c) : d \in Calls /\ c < d /\ d \in Int
    BY <1>2 DEF Children, Calls
  <2>3. CASE c = next
    <3>1. subcalls[c] = <<>>
      BY <1>1, <1>2, <2>3 DEF Childless
    <3>2. \A d \in Children(c) : ~(d < next + 1)
      BY <1>2, <2>2, <2>3
    <3>3. 1 .. Len(subcalls[c]) = {}
      BY <3>1
    <3> QED BY <3>2, <3>3
  <2>4. CASE c < next
    <3>1. {d \in Children(c) : d < next + 1 /\ ~Open(d)'} = {d \in Children(c) : d < next /\ ~Open(d)}
      <4>1. \A d \in Children(c) : d < next + 1 /\ ~Open(d)' <=> d < next /\ ~Open(d)
        BY <1>2, <1>4, <2>2
      <4> QED BY <4>1
    <3> QED BY <1>1, <2>4, <3>1 DEF Adopted
  <2> QED BY <1>5, <2>1, <2>3, <2>4
<1>8. Childless'
  BY <1>1, <1>2 DEF Childless
<1>9. \A k \in 1 .. next : events[k] # FailedOk
  <2>1. events[next] # FailedOk
    BY <1>2 DEF Calls, FailedOk
  <2> QED BY <1>1, <1>2, <2>1
<1>10. next' - 1 = next
  BY <1>2
<1> QED BY <1>1, <1>2, <1>3, <1>6, <1>7, <1>8, <1>9, <1>10 DEF TreeInv

\* The innermost call is closed by the event, and the call around it takes it.
LEMMA ReturnTree ==
  ASSUME TreeInv, Return
  PROVE  TreeInv'
<1> DEFINE L == Len(stack)
           t == stack[L]
<1>1. /\ TypeOK /\ OpenCalls /\ Nested /\ Closed /\ Adopted /\ Childless /\ events # <<>>
      /\ \A k \in 1 .. next - 1 : events[k] # FailedOk
  BY DEF TreeInv, TraceInv, Return, Reading
<1>2. /\ L \in Nat \ {0} /\ Len(Outer) = L - 1 /\ stack' = Outer
      /\ \A k \in 1 .. L - 1 : Outer[k] = stack[k]
      /\ next \in (1 .. Len(events)) \ Calls /\ next > 1 /\ Depth(next) = L - 1
      /\ Outer # <<>> => Nested'
      /\ Outer = <<>> => Whole'
  BY <1>1, ReturnNested
<1>3. /\ Len(events) \in Nat /\ next' = next + 1 /\ next' - 1 = next /\ events' = events
      /\ result' = IF Outer = <<>> THEN "ok" ELSE "building"
  BY <1>1, <1>2 DEF Return
<1>4. /\ Calls' = Calls /\ (\A i : Depth(i)' = Depth(i)) /\ (\A c : Children(c)' = Children(c))
      /\ (\A c, r : Closes(c, r)' <=> Closes(c, r)) /\ \A c : Open(c)' <=> Open(c) /\ c # t
  BY <1>1, <1>3, SameList, OpenAfter
<1>5. \A c \in Calls : c \in 1 .. Len(events) /\ (c < next + 1 <=> c < next)
  BY <1>2, <1>3 DEF Calls
<1>6. /\ t \in Calls /\ t \in 1 .. next - 1 /\ Depth(t) = L /\ Open(t)
      /\ \A m \in t .. next - 1 : Depth(m) >= L
  BY <1>1, <1>2, StackOrder DEF Nested, OpenCalls, Open
<1>7. Closed'
  <2>1. SUFFICES ASSUME NEW c \in Calls, c < next + 1, ~Open(c)'
                 PROVE  \E r \in 1 .. next : Closes(c, r) /\ receipt'[c] = ReceiptCode(events[r])
    BY <1>3, <1>4 DEF Closed
  <2>2. CASE c = t
    <3>1. Closes(c, next)
      BY <1>2, <1>3, <1>6, <2>2 DEF Closes
    <3>2. receipt'[c] = ReceiptCode(events[next])
      BY <1>1, <1>5, <1>6, <2>2 DEF Return, TypeOK
    <3> QED BY <1>2, <3>1, <3>2
  <2>3. CASE c # t
    <3>1. c < next /\ ~Open(c)
      BY <1>4, <1>5, <2>1, <2>3
    <3>2. receipt'[c] = receipt[c]
      BY <1>1, <1>5, <2>3 DEF Return, TypeOK
    <3>3. PICK r \in 1 .. next - 1 : Closes(c, r) /\ receipt[c] = ReceiptCode(events[r])
      BY <1>1, <3>1 DEF Closed
    <3>4. r \in 1 .. next
      BY <1>2
    <3> QED BY <3>2, <3>3, <3>4
  <2> QED BY <2>2, <2>3
<1>8. Adopted'
  <2>1. SUFFICES ASSUME NEW c \in Calls, c < next + 1
                 PROVE  /\ {subcalls'[c][i] : i \in 1 .. Len(subcalls'[c])}
                             = {d \in Children(c) : d < next + 1 /\ ~Open(d)'}
                        /\ \A i, j \in 1 .. Len(subcalls'[c]) : i < j => subcalls'[c][i] < subcalls'[c][j]
    BY <1>3, <1>4 DEF Adopted
  <2> DEFINE old == {d \in Children(c) : d < next /\ ~Open(d)}
             s == subcalls[c]
  <2>2. c < next /\ c \in 1 .. Len(events)
    BY <1>5, <2>1
  <2>3. {s[i] : i \in 1 .. Len(s)} = old /\ \A i, j \in 1 .. Len(s) : i < j => s[i] < s[j]
    BY <1>1, <2>2 DEF Adopted
  <2>4. \A d \in Children(c) : d \in Calls
    BY DEF Children
  <2>5. {d \in Children(c) : d < next + 1 /\ ~Open(d)'} = IF t \in Children(c) THEN old \cup {t} ELSE old
    <3>0. t < next /\ \A d \in Children(c) : d < next + 1 <=> d < next
      BY <1>2, <1>3, <1>5, <1>6, <2>4
    <3> HIDE DEF t
    <3>1. \A d \in Children(c) : d < next + 1 /\ ~Open(d)' <=> (d < next /\ ~Open(d)) \/ d = t
      BY <1>4, <1>6, <3>0
    <3> QED BY <3>1
  <2>6. t \in Children(c) <=> L >= 2 /\ c = stack[L - 1]
    BY <1>1, <1>2, <2>2, OneParent
  <2>7. CASE ~(L >= 2 /\ c = stack[L - 1])
    <3>1. subcalls'[c] = s
      <4>1. CASE Outer = <<>>
        BY <4>1 DEF Return
      <4>2. CASE Outer # <<>>
        <5>1. L >= 2 /\ Outer[Len(Outer)] = stack[L - 1]
          BY <1>2, <4>2
        <5>2. subcalls' = [subcalls EXCEPT ![stack[L - 1]] = Append(@, t)]
          BY <4>2, <5>1 DEF Return
        <5> QED BY <1>1, <2>2, <2>7, <5>1, <5>2 DEF TypeOK
      <4> QED BY <4>1, <4>2
    <3> QED BY <2>3, <2>5, <2>6, <2>7, <3>1
  <2>8. CASE L >= 2 /\ c = stack[L - 1]
    <3>1. Outer # <<>> /\ Outer[Len(Outer)] = c
      BY <1>2, <2>8
    <3>2. subcalls'[c] = Append(s, t) /\ s \in Seq(1 .. Len(events)) /\ t \in 1 .. Len(events)
      BY <1>1, <1>5, <1>6, <2>2, <3>1 DEF Return, TypeOK
    <3> DEFINE u == subcalls'[c]
    <3>3. /\ Len(s) \in Nat /\ Len(u) = Len(s) + 1 /\ u[Len(s) + 1] = t
          /\ \A i \in 1 .. Len(s) : u[i] = s[i]
      BY <3>2, AppendProperties
    <3>4. \A i \in 1 .. Len(s) : s[i] < t
      <4>1. SUFFICES ASSUME NEW i \in 1 .. Len(s) PROVE s[i] < t
        OBVIOUS
      <4>2. s[i] \in old
        BY <2>3
      <4>3. s[i] # t
        BY <1>6, <4>2
      <4> QED BY <1>1, <1>2, <2>8, <4>2, <4>3, LastChild
    <3> HIDE DEF u, s, t, old
    <3>5. 1 .. Len(u) = (1 .. Len(s)) \cup {Len(s) + 1}
      BY <3>3
    <3>6. {u[i] : i \in 1 .. Len(u)} = old \cup {t}
      BY <2>3, <3>3, <3>5
    <3>7. \A i, j \in 1 .. Len(u) : i < j => u[i] < u[j]
      <4>1. SUFFICES ASSUME NEW i \in 1 .. Len(u), NEW j \in 1 .. Len(u), i < j PROVE u[i] < u[j]
        OBVIOUS
      <4>2. i \in 1 .. Len(s) /\ (j \in 1 .. Len(s) \/ j = Len(s) + 1)
        BY <3>3, <4>1
      <4> QED BY <2>3, <3>3, <3>4, <4>1, <4>2
    <3> QED BY <2>5, <2>6, <2>8, <3>6, <3>7 DEF u
  <2> QED BY <2>7, <2>8
<1>9. Childless'
  <2>1. SUFFICES ASSUME NEW c \in next + 1 .. Len(events) PROVE subcalls'[c] = <<>>
    BY <1>3 DEF Childless
  <2>2. subcalls[c] = <<>> /\ c \in 1 .. Len(events) /\ c > next
    BY <1>1, <1>2, <1>3 DEF Childless
  <2>3. CASE Outer = <<>>
    BY <2>2, <2>3 DEF Return
  <2>4. CASE Outer # <<>>
    <3>1. Outer[Len(Outer)] = stack[L - 1] /\ L - 1 \in 1 .. L
      BY <1>2, <2>4
    <3>2. stack[L - 1] < next /\ stack[L - 1] \in Int
      BY <1>1, <3>1 DEF OpenCalls, TypeOK
    <3>3. Outer[Len(Outer)] # c
      BY <1>2, <2>2, <3>1, <3>2
    <3> QED BY <1>1, <2>2, <2>4, <3>3 DEF Return, TypeOK
  <2> QED BY <2>3, <2>4
<1>10. \A k \in 1 .. next : events[k] # FailedOk
  <2>1. events[next] # FailedOk
    BY DEF Return, FailedOk
  <2> QED BY <1>1, <1>2, <2>1
<1>11. BuiltIffClosed'
  <2>1. CASE Outer # <<>>
    BY <1>3, <2>1 DEF BuiltIffClosed
  <2>2. CASE Outer = <<>>
    <3>1. 1 \in Calls /\ Depth(next) = 0 /\ \A m \in 1 .. next - 1 : Depth(m) >= 1
      <4>1. L = 1 /\ stack[1] = 1
        BY <1>1, <1>2, <2>2 DEF Nested
      <4> QED BY <1>1, <1>2, <1>6, <4>1
    <3>2. Depth(1) = 1 /\ events[1].type = "Call"
      BY <1>1, <3>1, DepthSteps DEF TypeOK, Calls
    <3>3. Closes(1, next)
      BY <1>2, <3>1, <3>2 DEF Closes
    <3> QED BY <1>2, <1>3, <1>4, <1>10, <2>2, <3>2, <3>3 DEF BuiltIffClosed, FailedOk
  <2> QED BY <2>1, <2>2
<1>12. TraceInv'
  BY ReturnTrace DEF TreeInv
<1> QED BY <1>1, <1>2, <1>3, <1>7, <1>8, <1>9, <1>10, <1>11, <1>12 DEF TreeInv

\* No event that was read, and none that comes after a failure with OK, closes the first.
LEMMA ErrorTree ==
  ASSUME TreeInv, NotACall \/ FailedWithOk \/ Exhausted
  PROVE  TreeInv'
<1>1. /\ TypeOK /\ OpenCalls /\ Nested /\ events # <<>>
      /\ \A k \in 1 .. next - 1 : events[k] # FailedOk
  BY DEF TreeInv, TraceInv, NotACall, FailedWithOk, Exhausted, Reading
<1>2. /\ events' = events /\ result' = "err" /\ Len(events) \in Nat \ {0} /\ next \in 1 .. Len(events) + 1
      /\ Len(stack) \in Nat
  BY <1>1, EmptySeq DEF TypeOK, NotACall, FailedWithOk, Exhausted
<1>3. \A c, r : Closes(c, r)' <=> Closes(c, r)
  BY <1>2, SameList
<1>4. \A m \in 1 .. next - 1 : Depth(m) >= 1
  BY <1>1, StackOrder DEF OpenCalls
<1>5. ASSUME events[1].type = "Call", NEW r \in 1 .. Len(events), Closes(1, r),
             \A k \in 1 .. r : events[k] # FailedOk
      PROVE  FALSE
  <2>1. Depth(1) = 1 /\ Depth(r) \in Int
    <3>1. 1 \in Calls
      BY <1>2, <1>5 DEF Calls
    <3> QED BY <1>1, <1>2, <3>1, DepthSteps DEF TypeOK
  <2>2. Depth(r) < 1
    BY <1>5, <2>1 DEF Closes
  <2>3. r >= next
    BY <1>2, <1>4, <2>1, <2>2
  <2>4. CASE NotACall
    <3>1. Len(stack) = 0
      BY <2>4 DEF NotACall
    <3>2. next = 1
      BY <1>1, <1>2, <3>1 DEF Nested
    <3> QED BY <1>5, <2>4, <3>2 DEF NotACall
  <2>5. CASE FailedWithOk
    BY <1>2, <1>5, <2>3, <2>5 DEF FailedWithOk, FailedOk
  <2>6. CASE Exhausted
    BY <1>2, <1>5, <2>3, <2>6 DEF Exhausted
  <2> QED BY <2>4, <2>5, <2>6
<1>6. BuiltIffClosed'
  BY <1>2, <1>3, <1>5 DEF BuiltIffClosed, FailedOk
<1>7. TraceInv'
  BY OtherTrace DEF TreeInv
<1> QED BY <1>2, <1>6, <1>7 DEF TreeInv

\* The answer changes nothing of the tree.
LEMMA RespondTree ==
  ASSUME TreeInv, Respond \/ UNCHANGED vars
  PROVE  TreeInv'
<1>1. UNCHANGED <<events, next, stack, receipt, subcalls, result>>
  BY DEF Respond, vars
<1>2. /\ Calls' = Calls /\ (\A i : Depth(i)' = Depth(i)) /\ (\A c : Children(c)' = Children(c))
      /\ \A c, r : Closes(c, r)' <=> Closes(c, r)
  BY <1>1, SameList
<1>3. \A c : Open(c)' <=> Open(c)
  BY <1>1 DEF Open
<1>4. Nested' <=> Nested
  BY <1>1, <1>2 DEF Nested
<1>5. Whole' <=> Whole
  BY <1>1, <1>2 DEF Whole
<1>6. Closed' <=> Closed
  BY <1>1, <1>2, <1>3 DEF Closed
<1>7. Adopted' <=> Adopted
  BY <1>1, <1>2, <1>3 DEF Adopted
<1>8. BuiltIffClosed' <=> BuiltIffClosed
  BY <1>1, <1>2 DEF BuiltIffClosed
<1>9. TraceInv'
  BY OtherTrace DEF TreeInv
<1> QED BY <1>1, <1>4, <1>5, <1>6, <1>7, <1>8, <1>9 DEF TreeInv, Childless

\* Nothing is read at first, and no call is open.
LEMMA InitTree == Init => TreeInv
<1> SUFFICES ASSUME Init PROVE TreeInv
  OBVIOUS
<1>1. /\ events \in Seq(Event) /\ Len(events) \in Nat /\ next = 1 /\ stack = <<>> /\ Len(stack) = 0
      /\ result \in {"none", "building"} /\ (result = "building" => events # <<>>)
      /\ subcalls = [i \in 1 .. Len(events) |-> <<>>]
  BY TraceAssumption DEF Init
<1>2. Depth(0) = 0 /\ \A c \in Calls : ~(c < next)
  BY <1>1, DepthSteps DEF Calls
<1>3. Nested /\ Closed /\ Adopted /\ Childless
  BY <1>1, <1>2 DEF Nested, Closed, Adopted, Childless
<1> QED BY <1>1, <1>3, InitTrace DEF TreeInv, BuiltIffClosed

\* The tree is right as far as it goes, for ever.
LEMMA TreeInvariant == Spec => []TreeInv
<1>1. TreeInv /\ [Next]_vars => TreeInv'
  BY CallTree, ReturnTree, ErrorTree, RespondTree DEF Next
<1> QED BY <1>1, InitTree, PTL DEF Spec

\* build_lotus_trace makes a tree of just those lists whose first event is a call that is
\* closed before any failure with status OK.
THEOREM TreeOfClosedLists == Spec => []BuiltIffClosed
<1>1. TreeInv => BuiltIffClosed
  BY DEF TreeInv
<1> QED BY <1>1, TreeInvariant, PTL

\* The recursion over the shared iterator gives every call its own Return as receipt and
\* exactly the calls it made as subcalls, in their order.
THEOREM TreeIsRight == Spec => []TreeMatchesEvents
<1>1. TreeInv => TreeMatchesEvents
  <2>1. SUFFICES ASSUME TreeInv, result = "ok", NEW c \in Calls, c < next
                 PROVE  /\ \E r \in 1 .. next - 1 : Closes(c, r) /\ receipt[c] = ReceiptCode(events[r])
                        /\ {subcalls[c][i] : i \in 1 .. Len(subcalls[c])} = Children(c)
                        /\ \A i, j \in 1 .. Len(subcalls[c]) : i < j => subcalls[c][i] < subcalls[c][j]
    BY DEF TreeMatchesEvents
  <2>2. Whole /\ Closed /\ Adopted /\ stack = <<>> /\ TypeOK
    BY <2>1 DEF TreeInv, TraceInv, OpenCalls
  <2>3. \A d : ~Open(d)
    BY <2>2 DEF Open
  <2>4. \A d \in Children(c) : d < next
    <3>1. SUFFICES ASSUME NEW d \in Children(c), ~(d < next) PROVE FALSE
      OBVIOUS
    <3>2. /\ next \in Nat /\ Len(events) \in Nat /\ c \in 1 .. next - 1 /\ d \in Int
          /\ \A k \in c .. d : Depth(k) >= Depth(c)
      BY <2>1, <2>2 DEF TypeOK, Calls, Children
    <3>3. c # next - 1
      <4>1. SUFFICES ASSUME c = next - 1 PROVE FALSE
        OBVIOUS
      <4>2. next - 2 \in 1 .. next - 2 /\ c - 1 = next - 2 /\ next - 2 \in 0 .. Len(events)
        BY <2>2, <3>2, <4>1 DEF Whole, TypeOK
      <4>3. Depth(c) = Depth(c - 1) + 1 /\ Depth(c - 1) >= 1 /\ Depth(c) = 0 /\ Depth(c - 1) \in Int
        BY <2>2, <4>1, <4>2, DepthSteps DEF Whole, TypeOK
      <4> QED BY <4>3
    <3>4. Depth(c) >= 1 /\ Depth(next - 1) = 0 /\ next - 1 \in c .. d
      BY <2>2, <3>1, <3>2, <3>3 DEF Whole
    <3>5. Depth(c) \in Int
      BY <2>2, DepthSteps DEF TypeOK, Calls
    <3> QED BY <3>2, <3>4, <3>5
  <2>5. {d \in Children(c) : d < next /\ ~Open(d)} = Children(c)
    BY <2>3, <2>4
  <2> QED BY <2>1, <2>2, <2>3, <2>5 DEF Closed, Adopted
<1> QED BY <1>1, TreeInvariant, PTL

\* A call is closed by one event, which is not a call.
LEMMA OneClosing ==
  ASSUME TypeOK, NEW c \in Calls, NEW r \in 1 .. Len(events), Closes(c, r)
  PROVE  r \notin Calls /\ \A q \in 1 .. Len(events) : Closes(c, q) => q = r
<1>1. Len(events) \in Nat /\ c \in 1 .. Len(events) /\ c < r /\ r \in Int
  BY DEF TypeOK, Calls, Closes
<1>2. /\ \A i \in 0 .. Len(events) : Depth(i) \in Int
      /\ \A i \in Calls : Depth(i) = Depth(i - 1) + 1
  BY DepthSteps DEF TypeOK
<1>3. r \notin Calls
  <2>1. r - 1 \in c .. r - 1 /\ r - 1 \in 0 .. Len(events) /\ c \in 0 .. Len(events) /\ r \in 0 .. Len(events)
    BY <1>1
  <2>2. Depth(r - 1) >= Depth(c) /\ Depth(r) < Depth(c)
    BY <2>1 DEF Closes
  <2> QED BY <1>2, <2>1, <2>2
<1>4. ASSUME NEW q \in 1 .. Len(events), Closes(c, q) PROVE q = r
  <2>0. c < q /\ Depth(q) < Depth(c) /\ Depth(r) < Depth(c)
    BY <1>4 DEF Closes
  <2>1. Depth(c) \in Int /\ Depth(q) \in Int /\ Depth(r) \in Int
    BY <1>1, <1>2
  <2>2. ~(q < r)
    <3>1. SUFFICES ASSUME q < r PROVE FALSE
      OBVIOUS
    <3>2. q \in c .. r - 1
      BY <1>1, <2>0, <3>1
    <3> QED BY <2>0, <2>1, <3>2 DEF Closes
  <2>3. ~(r < q)
    <3>1. SUFFICES ASSUME r < q PROVE FALSE
      OBVIOUS
    <3>2. r \in c .. q - 1
      BY <1>1, <3>1
    <3> QED BY <1>4, <2>0, <2>1, <3>2 DEF Closes
  <2> QED BY <1>1, <2>2, <2>3
<1> QED BY <1>3, <1>4

\* A call of a tree that is handed out reads as successful just when its own closing event
\* is the Return of an actor, for lists of any length.
THEOREM SuccessIsReal == Spec => []NoInventedSuccess
<1>1. TreeInv => NoInventedSuccess
  <2>1. SUFFICES ASSUME TreeInv, exec_trace = "some", NEW c \in Calls, c < next
                 PROVE  receipt[c] = "OK" <=>
                          \E r \in c + 1 .. next - 1 : Closes(c, r) /\ events[r].type = "Return"
    BY DEF NoInventedSuccess
  <2>2. /\ TypeOK /\ stack = <<>> /\ Closed
        /\ \A k \in 1 .. next - 1 : events[k] # FailedOk
    BY <2>1 DEF TreeInv, TraceInv, OpenCalls
  <2>3. /\ next - 1 <= Len(events) /\ next \in Nat /\ Len(events) \in Nat /\ c \in 1 .. Len(events)
        /\ \A k \in 1 .. next - 1 : k \in 1 .. Len(events) /\ events[k] \in Event
    BY <2>2 DEF TypeOK, Calls
  <2>4. PICK r \in 1 .. next - 1 : Closes(c, r) /\ receipt[c] = ReceiptCode(events[r])
    BY <2>1, <2>2 DEF Closed, Open
  <2>5. /\ r \in 1 .. Len(events) /\ r \notin Calls
        /\ \A q \in 1 .. Len(events) : Closes(c, q) => q = r
    BY <2>2, <2>3, <2>4, OneClosing
  <2>6. receipt[c] = "OK" <=> events[r].type = "Return"
    <3>1. events[r] \in Event /\ events[r].type # "Call" /\ events[r] # [type |-> "Failure", arg |-> "OK"]
      BY <2>2, <2>3, <2>5 DEF Calls, FailedOk
    <3> QED BY <2>4, <3>1, ReceiptOk
  <2>7. r \in c + 1 .. next - 1
    BY <2>3, <2>4 DEF Closes
  <2>8. \A q \in c + 1 .. next - 1 : q \in 1 .. Len(events)
    BY <2>3
  <2> QED BY <2>4, <2>5, <2>6, <2>7, <2>8
<1> QED BY <1>1, TreeInvariant, PTL
=============================================================================
