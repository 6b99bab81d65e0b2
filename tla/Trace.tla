------------------------------- MODULE Trace -------------------------------
(***************************************************************************)
(* The execution trace of a message.  The FVM records one flat list of     *)
(* events, a Call and a Return for every send; build_lotus_trace folds it  *)
(* into a tree by recursion over a shared iterator.  The recursion is the  *)
(* stack here, a call is named by the position of its event, and a node of *)
(* the tree is the receipt and the subcalls of such a position.            *)
(***************************************************************************)
EXTENDS Integers, Sequences, FiniteSets

CONSTANT Traces    \* the lists of events to build a tree from

ErrorNumber == {"InsufficientFunds", "NotFound", "IllegalArgument", "IllegalOperation", "LimitExceeded",
                "AssertionFailed", "InvalidHandle", "IllegalCid", "IllegalCodec", "Serialization", "Forbidden"}

\* Exit codes: success, an actor's own failure, and those of the system.
ExitCode == {"OK", "USR", "SYS_INSUFFICIENT_FUNDS", "SYS_INVALID_RECEIVER", "SYS_ASSERTION_FAILED"}

NoReceipt == "none"

\* ExecutionEvent: Call, Return(Ok(Return)), Return(Ok(Failure(code))), Return(Err(number)).
Event == [type : {"Call", "Return"}, arg : {""}] \cup [type : {"Failure"}, arg : ExitCode]
         \cup [type : {"Error"}, arg : ErrorNumber]

ASSUME TraceAssumption == Traces \subseteq Seq(Event)

VARIABLES
  events,      \* apply_ret.exec_trace
  next,        \* position of trace_iter
  stack,       \* the calls that build_lotus_trace is in, outermost first
  receipt,     \* msg_receipt of each call
  subcalls,    \* subcalls of each call
  result,      \* of the outermost build_lotus_trace
  exec_trace   \* of the response to the message

vars == <<events, next, stack, receipt, subcalls, result, exec_trace>>

TypeOK ==
  /\ events \in Seq(Event)
  /\ next \in 1 .. Len(events) + 1
  /\ stack \in Seq(1 .. Len(events))
  /\ receipt \in [1 .. Len(events) -> ExitCode \cup {NoReceipt}]
  /\ subcalls \in [1 .. Len(events) -> Seq(1 .. Len(events))]
  /\ result \in {"none", "building", "ok", "err"}
  /\ exec_trace \in {"pending", "none", "some"}

\* Tracing off leaves the list empty, and nothing is built.
Init ==
  /\ events \in Traces
  /\ next = 1
  /\ stack = <<>>
  /\ receipt = [i \in 1 .. Len(events) |-> NoReceipt]
  /\ subcalls = [i \in 1 .. Len(events) |-> <<>>]
  /\ result = IF events = <<>> THEN "none" ELSE "building"
  /\ exec_trace = "pending"

-----------------------------------------------------------------------------
(* build_lotus_trace *)

\* A slip: the error number is taken for an exit code.
ReceiptCodeRaw(ev) == IF ev.type = "Return" THEN "OK" ELSE ev.arg

\* The receipt that a Return event makes.
ReceiptCode(ev) ==
  CASE ev.type = "Return" -> "OK"
    [] ev.type = "Failure" -> ev.arg
    [] ev.arg = "InsufficientFunds" -> "SYS_INSUFFICIENT_FUNDS"
    [] ev.arg = "NotFound" -> "SYS_INVALID_RECEIVER"
    [] OTHER -> "SYS_ASSERTION_FAILED"

\* The next event, while there is one.
Reading == result = "building" /\ next <= Len(events)

\* A new call, the outermost or a subcall: its receipt is OK until it returns.
Call ==
  /\ Reading /\ events[next].type = "Call"
  /\ stack' = Append(stack, next)
  /\ receipt' = [receipt EXCEPT ![next] = "OK"]
  /\ next' = next + 1
  /\ UNCHANGED <<events, subcalls, result, exec_trace>>

\* The list does not begin with a Call.
NotACall ==
  /\ Reading /\ stack = <<>> /\ events[next].type # "Call"
  /\ result' = "err"
  /\ next' = next + 1
  /\ UNCHANGED <<events, stack, receipt, subcalls, exec_trace>>

\* The calls around the innermost one.
Outer == SubSeq(stack, 1, Len(stack) - 1)

\* A slip: every subcall is a child of the outermost call.
ReturnFlattens ==
  /\ Reading /\ stack # <<>>
  /\ events[next].type # "Call" /\ events[next] # [type |-> "Failure", arg |-> "OK"]
  /\ receipt' = [receipt EXCEPT ![stack[Len(stack)]] = ReceiptCode(events[next])]
  /\ stack' = Outer
  /\ subcalls' = IF Outer = <<>> THEN subcalls
                 ELSE [subcalls EXCEPT ![stack[1]] = Append(@, stack[Len(stack)])]
  /\ result' = IF Outer = <<>> THEN "ok" ELSE "building"
  /\ next' = next + 1
  /\ UNCHANGED <<events, exec_trace>>

\* A slip: a failure with status OK is not refused.
ReturnUnchecked ==
  /\ Reading /\ stack # <<>>
  /\ events[next].type # "Call"
  /\ receipt' = [receipt EXCEPT ![stack[Len(stack)]] = ReceiptCode(events[next])]
  /\ stack' = Outer
  /\ subcalls' = IF Outer = <<>> THEN subcalls
                 ELSE [subcalls EXCEPT ![Outer[Len(Outer)]] = Append(@, stack[Len(stack)])]
  /\ result' = IF Outer = <<>> THEN "ok" ELSE "building"
  /\ next' = next + 1
  /\ UNCHANGED <<events, exec_trace>>

\* The innermost call returns, and its caller, if any, takes it as a subcall and reads on.
Return ==
  /\ Reading /\ stack # <<>>
  /\ events[next].type # "Call" /\ events[next] # [type |-> "Failure", arg |-> "OK"]
  /\ receipt' = [receipt EXCEPT ![stack[Len(stack)]] = ReceiptCode(events[next])]
  /\ stack' = Outer
  /\ subcalls' = IF Outer = <<>> THEN subcalls
                 ELSE [subcalls EXCEPT ![Outer[Len(Outer)]] = Append(@, stack[Len(stack)])]
  /\ result' = IF Outer = <<>> THEN "ok" ELSE "building"
  /\ next' = next + 1
  /\ UNCHANGED <<events, exec_trace>>

\* "actor failed with status OK": the error passes through all the calls.
FailedWithOk ==
  /\ Reading /\ stack # <<>> /\ events[next] = [type |-> "Failure", arg |-> "OK"]
  /\ result' = "err"
  /\ stack' = <<>>
  /\ next' = next + 1
  /\ UNCHANGED <<events, receipt, subcalls, exec_trace>>

\* A slip: the end of the list is waited for.
ExhaustedWaits ==
  /\ result = "building" /\ next > Len(events) /\ stack = <<>>
  /\ result' = "err"
  /\ UNCHANGED <<events, next, stack, receipt, subcalls, exec_trace>>

\* "should have returned on an ExecutionEvent:Return": the list ends inside a call.
Exhausted ==
  /\ result = "building" /\ next > Len(events)
  /\ result' = "err"
  /\ stack' = <<>>
  /\ UNCHANGED <<events, next, receipt, subcalls, exec_trace>>

\* A slip: what was built before the error is handed out.
RespondAnyway ==
  /\ result # "building" /\ exec_trace = "pending"
  /\ exec_trace' \in {"some", "none"}
  /\ UNCHANGED <<events, next, stack, receipt, subcalls, result>>

\* The message is answered all the same: without a trace after an error, and when the
\* tree cannot be encoded.
Respond ==
  /\ result # "building" /\ exec_trace = "pending"
  /\ \/ result = "ok" /\ exec_trace' = "some"
     \/ exec_trace' = "none"
  /\ UNCHANGED <<events, next, stack, receipt, subcalls, result>>

Next == Call \/ NotACall \/ Return \/ FailedWithOk \/ Exhausted \/ Respond

\* The code is sequential: it goes on while it can.
Spec == Init /\ [][Next]_vars /\ WF_vars(Next)

-----------------------------------------------------------------------------
(* What the tree should be, from the list alone *)

Calls == {i \in 1 .. Len(events) : events[i].type = "Call"}

\* Calls open after the i-th event.
Depth(i) == Cardinality({k \in Calls : k <= i}) - Cardinality((1 .. i) \ Calls)

\* Event r closes the call of event c.
Closes(c, r) ==
  /\ c < r /\ Depth(r) < Depth(c)
  /\ \A k \in c .. r - 1 : Depth(k) >= Depth(c)

\* The calls that c makes itself.
Children(c) == {d \in Calls : c < d /\ Depth(d) = Depth(c) + 1 /\ \A k \in c .. d : Depth(k) >= Depth(c)}

-----------------------------------------------------------------------------
(* Properties *)

\* A finished tree has every call's own Return as its receipt, and under every call
\* exactly the calls it made, in their order.
TreeMatchesEvents ==
  result = "ok" =>
    \A c \in Calls : c < next =>
      /\ \E r \in 1 .. next - 1 : Closes(c, r) /\ receipt[c] = ReceiptCode(events[r])
      /\ {subcalls[c][i] : i \in 1 .. Len(subcalls[c])} = Children(c)
      /\ \A i, j \in 1 .. Len(subcalls[c]) : i < j => subcalls[c][i] < subcalls[c][j]

\* A tree comes out just when the first event is a call that is closed before any
\* failure with status OK: never of a list that stops half-way, whatever follows else.
BuiltIffClosed ==
  result \in {"ok", "err"} =>
    (result = "ok" <=>
      /\ events[1].type = "Call"
      /\ \E r \in 1 .. Len(events) :
           Closes(1, r) /\ \A k \in 1 .. r : events[k] # [type |-> "Failure", arg |-> "OK"])

\* A call reads as successful in a tree that is handed out just when the event that
\* closes this call, and no other, is the Return of an actor: the OK that its receipt
\* starts with is never left over, and no error or failure becomes one.
NoInventedSuccess ==
  exec_trace = "some" =>
    \A c \in Calls : c < next =>
      (receipt[c] = "OK" <=> \E r \in c + 1 .. next - 1 : Closes(c, r) /\ events[r].type = "Return")

\* Whatever the list, the message is answered.
MessageAnswered == <>(exec_trace # "pending")
=============================================================================
