---------------------------- MODULE EvidenceGate ----------------------------
(***************************************************************************)
(* What a query run promises its caller, whatever the planner and the      *)
(* judge say and however many rounds they take: the evidence is judged,    *)
(* the generator speaks at most once and only on a sufficient verdict, and *)
(* the outcome the caller reads is one the last verdict allows.            *)
(*                                                                         *)
(* RunGraph implements this specification.                                 *)
(***************************************************************************)

VARIABLES
  verdict,    \* the judge's last verdict, or "none"
  generated,  \* has the generator produced an answer?
  outcome     \* "open", then what the caller is told

vars == <<verdict, generated, outcome>>

Verdicts == {"none", "sufficient", "insufficient", "conflicting", "clarification", "abstain"}
Outcomes == {"open", "answer", "abstention", "clarification", "conflicting", "failed"}

Init ==
  /\ verdict = "none"
  /\ generated = FALSE
  /\ outcome = "open"

\* a verdict is revised only while it asks for more evidence
Judge ==
  /\ outcome = "open"
  /\ ~generated
  /\ verdict \in {"none", "insufficient", "conflicting"}
  /\ verdict' \in Verdicts \ {"none"}
  /\ UNCHANGED <<generated, outcome>>

Generate ==
  /\ outcome = "open"
  /\ ~generated
  /\ verdict = "sufficient"
  /\ generated' = TRUE
  /\ UNCHANGED <<verdict, outcome>>

\* an answer is what the generator wrote; a conflict or a clarification is what
\* the judge found, the latter also what the controller asked for at once
Conclude ==
  /\ outcome = "open"
  /\ \/ outcome' = "answer" /\ generated
     \/ outcome' = "conflicting" /\ verdict = "conflicting"
     \/ outcome' = "clarification" /\ verdict \in {"none", "clarification"}
     \/ outcome' = "abstention" /\ verdict # "clarification" /\ verdict # "conflicting"
     \/ outcome' = "failed"
  /\ UNCHANGED <<verdict, generated>>

Next == Judge \/ Generate \/ Conclude

Spec == Init /\ [][Next]_vars
=============================================================================
