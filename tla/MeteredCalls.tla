---------------------------- MODULE MeteredCalls ----------------------------
(***************************************************************************)
(* What the LLM gateway promises the services that call it: a call ends in *)
(* one result or one error; a result adds the usage of one reply to the    *)
(* total, an error and everything that happened on the way add nothing,    *)
(* and the total is set back only between calls.                           *)
(***************************************************************************)
EXTENDS Naturals

CONSTANTS
  Usages,   \* what one reply may have used
  Zero,     \* no usage
  Plus(_, _)

VARIABLES
  call,     \* "idle", "open", "result" or "error"
  total     \* the usage accumulated so far

vars == <<call, total>>

Init == call = "idle" /\ total = Zero

Open == call = "idle" /\ call' \in {"open", "error"} /\ UNCHANGED total

Succeed ==
  /\ call = "open"
  /\ call' = "result"
  /\ \E u \in Usages : total' = Plus(total, u)

Fail == call = "open" /\ call' = "error" /\ UNCHANGED total

Take == call \in {"result", "error"} /\ call' = "idle" /\ UNCHANGED total

Reset == call = "idle" /\ total' = Zero /\ UNCHANGED call

Next == Open \/ Succeed \/ Fail \/ Take \/ Reset

Spec == Init /\ [][Next]_vars
=============================================================================
