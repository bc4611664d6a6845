---------------------------- MODULE CreditAccount ----------------------------
(***************************************************************************)
(* What the credit ledger promises: a run is first stored and then charged *)
(* to its owner, at most once and in one step; a balance changes by such a *)
(* charge and in no other way; a stored run can remain unpaid, a run that  *)
(* was never stored is never charged.                                      *)
(***************************************************************************)
EXTENDS Naturals

CONSTANTS
  Account,   \* users
  Request,   \* requests to execute a run
  Owner,     \* the user of each request, in [Request -> Account]
  Columns    \* the columns of client_credits that a charge can go to

VARIABLES
  balance,   \* what each account has spent, per column of client_credits
  fate       \* how far each request has come

vars == <<balance, fate>>

Fates == {"open", "failed", "stored", "charged", "unpaid"}

Init ==
  /\ balance = [a \in Account |-> [c \in Columns |-> 0]]
  /\ fate = [r \in Request |-> "open"]

Moves(r, from, to) == fate[r] = from /\ fate' = [fate EXCEPT ![r] = to]

Fail(r) == Moves(r, "open", "failed") /\ UNCHANGED balance

Store(r) == Moves(r, "open", "stored") /\ UNCHANGED balance

\* some amount, possibly nothing, is added to one column of the owner's row
Charge(r) ==
  /\ Moves(r, "stored", "charged")
  /\ \E c \in Columns :
       LET after == balance'[Owner[r]][c] IN
       /\ after \in Nat /\ after >= balance[Owner[r]][c]
       /\ balance' = [balance EXCEPT ![Owner[r]][c] = after]

Forfeit(r) == Moves(r, "stored", "unpaid") /\ UNCHANGED balance

\* the process dies: every request under way ends where it is
Interrupt ==
  /\ fate' \in [Request -> Fates]
  /\ \A r \in Request : \/ fate'[r] = fate[r]
                        \/ fate[r] = "open" /\ fate'[r] = "failed"
                        \/ fate[r] = "stored" /\ fate'[r] = "unpaid"
  /\ UNCHANGED balance

Next ==
  \/ \E r \in Request : Fail(r) \/ Store(r) \/ Charge(r) \/ Forfeit(r)
  \/ Interrupt

Spec == Init /\ [][Next]_vars
=============================================================================
