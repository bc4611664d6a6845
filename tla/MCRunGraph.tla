----------------------------- MODULE MCRunGraph -----------------------------
(***************************************************************************)
(* Small instances of RunGraph for TLC.                                    *)
(***************************************************************************)
EXTENDS RunGraph

\* two iterations and two tool calls let the loop turn, run out of either
\* budget, and mix both; two and one also fit the recursion limit of thirteen;
\* the last three rows have a budget spent from the start
MCBudgets ==
  {[iterations |-> 2, toolCalls |-> 2, tokens |-> 9],
   [iterations |-> 2, toolCalls |-> 1, tokens |-> 9],
   [iterations |-> 1, toolCalls |-> 1, tokens |-> 9],
   [iterations |-> 0, toolCalls |-> 1, tokens |-> 9],
   [iterations |-> 1, toolCalls |-> -1, tokens |-> 9],
   [iterations |-> 1, toolCalls |-> 1, tokens |-> 0]}

\* one action of each kind the nodes and the router tell apart; refine_query
\* acquires without being counted
MCActions ==
  {"vector_search", "web_search", "tool_call", "clarify", "abstain",
   "no_acquisition_required", "refine_query"}

\* both budgets of two, for the promotion at the iteration limit
TwoByTwo == {[iterations |-> 2, toolCalls |-> 2, tokens |-> 2]}
=============================================================================
