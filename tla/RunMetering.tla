---------------------------- MODULE RunMetering ----------------------------
(***************************************************************************)
(* POST /sessions/{id}/runs as its clients run it: several requests at     *)
(* once, each in a database session of its own.  A request authenticates,  *)
(* passes the credit check, executes its graph in a worker thread, commits *)
(* the run, and then charges the cost to the client's credit row in a      *)
(* second transaction.  PostgreSQL runs at READ COMMITTED, so requests     *)
(* meet in three places only: the user's row, which get_current_user       *)
(* updates first of all, the credit row, and the usage that a gateway      *)
(* adapter accumulates in memory.                                          *)
(***************************************************************************)
EXTENDS Integers, FiniteSets, FiniteSetsExt

CONSTANTS
  Account,       \* users, each with at most one row of client_credits
  Request,       \* POST /runs requests
  Owner,         \* the user of each request
  Platform,      \* the gateway adapter that get_llm_provider caches
  KeyModes,      \* the X-Key-Mode and keys a request may carry
  CallCosts,     \* what one LLM call may cost
  MaxRunCost,    \* bound: what the calls of one run cost together
  CreditLimit,   \* credit_limit_usd of a new row
  EnforceCap,    \* settings.enforce_client_credit_cap
  Nobody         \* no request: the row is not locked

ASSUME RequestAssumption ==
  Owner \in [Request -> Account] /\ Platform \notin Request /\ Nobody \notin Request
ASSUME ModeAssumption == KeyModes \subseteq {"default", "byok", "keyless"}
ASSUME CostAssumption ==
  /\ CallCosts \subseteq Nat \ {0}
  /\ MaxRunCost \in Nat
  /\ CreditLimit \in Nat \ {0}
  /\ EnforceCap \in BOOLEAN

VARIABLES
  mode,          \* "default", "byok", or "keyless": byok without an LLM key
  stage,         \* how far the request has come
  userLock,      \* the request whose transaction has updated the user's row
  creditLock,    \* the request that has inserted or locked the credit row
  known,         \* the credit row is committed
  balance,       \* its committed default_spent_usd and byok_spent_usd
  cumulative,    \* cumulative_usage of every gateway adapter
  read,          \* what a request has read and will write back with its own part added
  usage,         \* the usage execute_run took from the adapter
  cost           \* what the calls of a run did cost

vars == <<mode, stage, userLock, creditLock, known, balance, cumulative, read, usage, cost>>
lockVars == <<userLock, creditLock>>
ledgerVars == <<known, balance>>
meterVars == <<cumulative, usage, cost>>

Columns == {"default", "byok"}
Gateways == Request \union {Platform}

\* the first transaction ends with the run's commit, the second with the charge
FirstTransaction == {"admitting", "creating", "starting", "running", "calling",
                     "returned", "failing"}
SecondTransaction == {"recording", "opening", "charging", "forfeiting"}
Final == {"failed", "unpaid", "done"}
Stages == {"arrived"} \union FirstTransaction \union SecondTransaction \union Final

\* mutant: every request uses the cached adapter
SharedGateway(r) == Platform

\* a byok request with an LLM key gets an adapter of its own, any other the
\* platform's; the column depends on the header alone
GatewayOf(r) == IF mode[r] = "byok" THEN r ELSE Platform
Column(r) == IF mode[r] = "default" THEN "default" ELSE "byok"

-----------------------------------------------------------------------------
Init ==
  /\ mode \in [Request -> KeyModes]
  /\ stage = [r \in Request |-> "arrived"]
  /\ userLock = [a \in Account |-> Nobody]
  /\ creditLock = [a \in Account |-> Nobody]
  /\ known \in [Account -> BOOLEAN]
  /\ balance = [a \in Account |-> [c \in Columns |-> 0]]
  /\ cumulative = [g \in Gateways |-> 0]
  /\ read = [r \in Request |-> 0]
  /\ usage = [r \in Request |-> 0]
  /\ cost = [r \in Request |-> 0]

Advance(r, from, to) == stage[r] = from /\ stage' = [stage EXCEPT ![r] = to]

\* mutant: the user is only looked up
AuthenticateReadOnly(r) ==
  /\ Advance(r, "arrived", "admitting")
  /\ UNCHANGED <<mode, lockVars, ledgerVars, read, meterVars>>

\* get_or_create_clerk_user stamps last_seen_at: the update waits for any other
\* transaction that has stamped the same user
Authenticate(r) ==
  /\ Advance(r, "arrived", "admitting")
  /\ userLock[Owner[r]] = Nobody
  /\ userLock' = [userLock EXCEPT ![Owner[r]] = r]
  /\ UNCHANGED <<mode, creditLock, ledgerVars, read, meterVars>>

\* check_budget is skipped for byok requests and where the cap is off; otherwise
\* the committed row, if there is one, decides between going on and 402
CheckBudget(r) ==
  /\ LET a == Owner[r] IN
       IF mode[r] # "default" \/ ~EnforceCap \/ (known[a] /\ balance[a]["default"] < CreditLimit)
       THEN Advance(r, "admitting", "starting")
       ELSE Advance(r, "admitting", IF known[a] THEN "failing" ELSE "creating")
  /\ UNCHANGED <<mode, lockVars, ledgerVars, read, meterVars>>

\* an INSERT of the credit row waits for another insert of it to commit or roll
\* back, and after a commit it violates the primary key
Insert(r, from, to) ==
  /\ ~known[Owner[r]]
  /\ creditLock[Owner[r]] = Nobody
  /\ creditLock' = [creditLock EXCEPT ![Owner[r]] = r]
  /\ Advance(r, from, to)
  /\ UNCHANGED userLock

CreateRow(r) ==
  /\ Insert(r, "creating", "starting")
  /\ UNCHANGED <<mode, ledgerVars, read, meterVars>>

InsertCollides(r) ==
  /\ known[Owner[r]]
  /\ Advance(r, "creating", "failing") \/ Advance(r, "opening", "forfeiting")
  /\ UNCHANGED <<mode, lockVars, ledgerVars, read, meterVars>>

-----------------------------------------------------------------------------
\* execute_run inserts the run and resets the adapter before it invokes the graph
StartRun(r) ==
  /\ Advance(r, "starting", "running")
  /\ cumulative' = [cumulative EXCEPT ![GatewayOf(r)] = 0]
  /\ UNCHANGED <<mode, lockVars, ledgerVars, read, usage, cost>>

\* _calculate_usage replaces the accumulated usage by a sum it builds from it:
\* worker threads can interleave between the two
CallReads(r) ==
  /\ \E c \in CallCosts : cost[r] + c <= MaxRunCost
  /\ Advance(r, "running", "calling")
  /\ read' = [read EXCEPT ![r] = cumulative[GatewayOf(r)]]
  /\ UNCHANGED <<mode, lockVars, ledgerVars, meterVars>>

CallWrites(r) ==
  /\ Advance(r, "calling", "running")
  /\ \E c \in CallCosts :
       /\ cost[r] + c <= MaxRunCost
       /\ cumulative' = [cumulative EXCEPT ![GatewayOf(r)] = read[r] + c]
       /\ cost' = [cost EXCEPT ![r] = @ + c]
  /\ read' = [read EXCEPT ![r] = 0]
  /\ UNCHANGED <<mode, lockVars, ledgerVars, usage>>

\* graph.invoke has returned: the run's usage is what the adapter holds now
TakeUsage(r) ==
  /\ Advance(r, "running", "returned")
  /\ usage' = [usage EXCEPT ![r] = cumulative[GatewayOf(r)]]
  /\ UNCHANGED <<mode, lockVars, ledgerVars, read, cumulative, cost>>

\* r's transaction is over: its locks are gone
Release(lock, r) == [a \in Account |-> IF lock[a] = r THEN Nobody ELSE lock[a]]

\* the first commit: the run with its events and turn, and the credit row if
\* check_budget inserted it
StoreRun(r) ==
  /\ Advance(r, "returned", "recording")
  /\ known' = [a \in Account |-> known[a] \/ creditLock[a] = r]
  /\ userLock' = Release(userLock, r)
  /\ creditLock' = Release(creditLock, r)
  /\ UNCHANGED <<mode, balance, read, meterVars>>

-----------------------------------------------------------------------------
\* mutant: the row is read without FOR UPDATE
RecordUsageUnlocked(r) ==
  LET a == Owner[r] IN
  /\ Advance(r, "recording", IF known[a] THEN "charging" ELSE "opening")
  /\ read' = [read EXCEPT ![r] = balance[a][Column(r)]]
  /\ UNCHANGED <<mode, lockVars, ledgerVars, meterVars>>

\* record_usage selects the row FOR UPDATE, which waits for its lock; a row that
\* is not committed is not seen, and nothing is locked
RecordUsage(r) ==
  LET a == Owner[r] IN
  /\ known[a] => creditLock[a] = Nobody
  /\ creditLock' = IF known[a] THEN [creditLock EXCEPT ![a] = r] ELSE creditLock
  /\ read' = [read EXCEPT ![r] = balance[a][Column(r)]]
  /\ Advance(r, "recording", IF known[a] THEN "charging" ELSE "opening")
  /\ UNCHANGED <<mode, userLock, ledgerVars, meterVars>>

OpenRow(r) ==
  /\ Insert(r, "opening", "charging")
  /\ UNCHANGED <<mode, ledgerVars, read, meterVars>>

\* mutant: the cost is taken off what was spent
ChargeDeducts(r) ==
  /\ Advance(r, "charging", "done")
  /\ balance' = [balance EXCEPT ![Owner[r]][Column(r)] = read[r] - usage[r]]
  /\ known' = [known EXCEPT ![Owner[r]] = TRUE]
  /\ creditLock' = Release(creditLock, r)
  /\ read' = [read EXCEPT ![r] = 0]
  /\ UNCHANGED <<mode, userLock, meterVars>>

\* mutant: the charge is tried again after it was committed
ChargeRetried(r) ==
  /\ Advance(r, "charging", "recording")
  /\ balance' = [balance EXCEPT ![Owner[r]][Column(r)] = read[r] + usage[r]]
  /\ known' = [known EXCEPT ![Owner[r]] = TRUE]
  /\ creditLock' = Release(creditLock, r)
  /\ read' = [read EXCEPT ![r] = 0]
  /\ UNCHANGED <<mode, userLock, meterVars>>

\* the second commit
Charge(r) ==
  /\ Advance(r, "charging", "done")
  /\ balance' = [balance EXCEPT ![Owner[r]][Column(r)] = read[r] + usage[r]]
  /\ known' = [known EXCEPT ![Owner[r]] = TRUE]
  /\ creditLock' = Release(creditLock, r)
  /\ read' = [read EXCEPT ![r] = 0]
  /\ UNCHANGED <<mode, userLock, meterVars>>

-----------------------------------------------------------------------------
\* any other exception: no session, a failed provider or search, the database
Fails(r) ==
  /\ \/ stage[r] \in FirstTransaction \ {"calling", "failing"} /\ stage' = [stage EXCEPT ![r] = "failing"]
     \/ stage[r] \in SecondTransaction \ {"forfeiting"} /\ stage' = [stage EXCEPT ![r] = "forfeiting"]
  /\ UNCHANGED <<mode, lockVars, ledgerVars, read, meterVars>>

\* mutant: the session is not closed
RollbackLeaks(r) ==
  /\ Advance(r, "failing", "failed") \/ Advance(r, "forfeiting", "unpaid")
  /\ UNCHANGED <<mode, lockVars, ledgerVars, read, meterVars>>

\* the response is an error; closing the session rolls its transaction back
Rollback(r) ==
  /\ Advance(r, "failing", "failed") \/ Advance(r, "forfeiting", "unpaid")
  /\ userLock' = Release(userLock, r)
  /\ creditLock' = Release(creditLock, r)
  /\ read' = [read EXCEPT ![r] = 0]
  /\ UNCHANGED <<mode, ledgerVars, meterVars>>

\* the process dies and comes back: transactions under way are rolled back, the
\* adapters start from nothing
Crash ==
  /\ \E r \in Request : stage[r] \in FirstTransaction \union SecondTransaction
  /\ stage' = [r \in Request |-> IF stage[r] \in FirstTransaction THEN "failed"
                                 ELSE IF stage[r] \in SecondTransaction THEN "unpaid"
                                 ELSE stage[r]]
  /\ userLock' = [a \in Account |-> Nobody]
  /\ creditLock' = [a \in Account |-> Nobody]
  /\ cumulative' = [g \in Gateways |-> 0]
  /\ read' = [r \in Request |-> 0]
  /\ UNCHANGED <<mode, ledgerVars, usage, cost>>

Finished ==
  /\ \A r \in Request : stage[r] \in Final
  /\ UNCHANGED vars

Works(r) ==
  \/ Authenticate(r) \/ CheckBudget(r) \/ CreateRow(r) \/ InsertCollides(r)
  \/ StartRun(r) \/ CallReads(r) \/ CallWrites(r) \/ TakeUsage(r) \/ StoreRun(r)
  \/ RecordUsage(r) \/ OpenRow(r) \/ Charge(r) \/ Rollback(r)

Proceed(r) == Works(r) \/ Fails(r)

Next == (\E r \in Request : Proceed(r)) \/ Crash \/ Finished

Spec == Init /\ [][Next]_vars

\* The event loop and the worker threads keep running every request.  No exception
\* is owed to anybody: PostgreSQL has no lock_timeout unless one is set, so that a
\* request that waits for a row waits until the row is released.
FairSpec == Spec /\ \A r \in Request : WF_vars(Works(r))

-----------------------------------------------------------------------------
(***************************************************************************)
(* Properties.                                                             *)
(***************************************************************************)

TypeOK ==
  /\ mode \in [Request -> KeyModes]
  /\ stage \in [Request -> Stages]
  /\ userLock \in [Account -> Request \union {Nobody}]
  /\ creditLock \in [Account -> Request \union {Nobody}]
  /\ known \in [Account -> BOOLEAN]
  /\ balance \in [Account -> [Columns -> Nat]]
  /\ cumulative \in [Gateways -> Nat]
  /\ read \in [Request -> Nat]
  /\ usage \in [Request -> Nat]
  /\ cost \in [Request -> Nat]

\* Until its run is committed a request runs alone among the requests of its
\* user: the update of last_seen_at in get_current_user, written for
\* bookkeeping, keeps the user's row locked while the graph executes.
SerialUntilStored ==
  \A r, s \in Request :
    Owner[r] = Owner[s] /\ stage[r] \in FirstTransaction /\ stage[s] \in FirstTransaction
      => r = s

\* What record_usage has read is what the row holds when it writes the sum back,
\* so no charge made meanwhile is overwritten.
ReadIsCurrent ==
  \A r \in Request : stage[r] = "charging" => read[r] = balance[Owner[r]][Column(r)]

\* Each column of a credit row is the sum of the usage of the requests that were
\* answered, through crashes, failures and concurrent charges.
LedgerExact ==
  \A a \in Account, c \in Columns :
    balance[a][c] =
      MapThenSumSet(LAMBDA r : usage[r],
                    {r \in Request : stage[r] = "done" /\ Owner[r] = a /\ Column(r) = c})

\* The usage of a run on its own adapter is the cost of its own calls, whatever
\* the other requests do meanwhile.
OwnAdapterExact ==
  \A r \in Request :
    mode[r] = "byok" /\ stage[r] \in {"returned", "done", "unpaid"} \union SecondTransaction
      => usage[r] = cost[r]

\* Every request that arrives is answered or fails: no row lock is kept for ever
\* and no two requests wait for each other.
EveryRequestEnds == <>(\A r \in Request : stage[r] \in Final)

(***************************************************************************)
(* The ledger as its users see it: RunMetering implements CreditAccount.   *)
(***************************************************************************)

Fate(r) ==
  CASE stage[r] = "failed" -> "failed"
    [] stage[r] = "done" -> "charged"
    [] stage[r] = "unpaid" -> "unpaid"
    [] stage[r] \in SecondTransaction -> "stored"
    [] OTHER -> "open"

Ledger == INSTANCE CreditAccount WITH fate <- [r \in Request |-> Fate(r)]

\* Runs are stored first, charged at most once and to their owner, and balances
\* change by charges only.
ImplementsAccount == Ledger!Spec

(***************************************************************************)
(* Statements of the repository that the code does not live up to.         *)
(***************************************************************************)

Started(r) == stage[r] \in {"running", "calling", "returned", "done", "unpaid"}
                             \union SecondTransaction

\* REBUILD_SPEC.md:1198, README.md:59: credit checks and usage writes prevent
\* concurrent overspend; a client goes over the limit by its last run at most.
NoConcurrentOverspend ==
  \A a \in Account :
    MapThenSumSet(LAMBDA r : cost[r],
                  {r \in Request : Owner[r] = a /\ mode[r] = "default" /\ Started(r)})
      < CreditLimit + MaxRunCost

\* REBUILD_SPEC.md:798: every completed turn accumulates its exact expenditure.
UsageIsOwn == \A r \in Request : stage[r] = "done" => usage[r] = cost[r]
=============================================================================
