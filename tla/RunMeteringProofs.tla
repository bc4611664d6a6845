------------------------- MODULE RunMeteringProofs -------------------------
(***************************************************************************)
(* Theorems about RunMetering, for any users, requests, costs and limits.  *)
(*                                                                         *)
(* Two row locks carry the argument.  LocksHeld says which stages hold     *)
(* them: the user's row for the whole first transaction, the credit row    *)
(* from the read of record_usage to its commit.  RowsOpened adds that a    *)
(* row nobody has committed is empty, so that an inserted row starts from  *)
(* the value its owner will write.                                         *)
(***************************************************************************)
EXTENDS RunMetering, FiniteSums, TLAPS

LocksHeld ==
  /\ \A r \in Request : stage[r] \in FirstTransaction => userLock[Owner[r]] = r
  /\ \A r \in Request : stage[r] = "charging" => creditLock[Owner[r]] = r

RowsOpened ==
  /\ \A a \in Account : ~known[a] => \A c \in Columns : balance[a][c] = 0
  /\ \A r \in Request : stage[r] = "opening" => read[r] = 0

LedgerInv == TypeOK /\ LocksHeld /\ RowsOpened /\ ReadIsCurrent

MeterTracksCost ==
  \A r \in Request : mode[r] = "byok" =>
    /\ stage[r] \in {"arrived", "admitting", "creating", "starting"} => cost[r] = 0
    /\ stage[r] \in {"running", "calling"} => cumulative[r] = cost[r]
    /\ stage[r] = "calling" => read[r] = cost[r]

MeterInv == TypeOK /\ MeterTracksCost /\ OwnAdapterExact

USE DEF FirstTransaction, SecondTransaction, Final

-----------------------------------------------------------------------------
(***************************************************************************)
(* Types.                                                                  *)
(***************************************************************************)

LEMMA ColumnTyped == \A r \in Request : Column(r) \in Columns
BY DEF Column, Columns

LEMMA GatewayTyped == \A r \in Request : GatewayOf(r) \in Gateways
BY DEF GatewayOf, Gateways

LEMMA ReleaseTyped ==
  ASSUME NEW lock \in [Account -> Request \union {Nobody}], NEW r
  PROVE  Release(lock, r) \in [Account -> Request \union {Nobody}]
BY DEF Release

LEMMA TypeInit == Init => TypeOK
BY RequestAssumption, ModeAssumption, CostAssumption
   DEF Init, TypeOK, Stages, Columns, Gateways

LEMMA TypeNext == TypeOK /\ [Next]_vars => TypeOK'
<1> SUFFICES ASSUME TypeOK, [Next]_vars PROVE TypeOK'
  OBVIOUS
<1> USE RequestAssumption, CostAssumption
<1>1. CASE UNCHANGED vars
  BY <1>1 DEF vars, lockVars, ledgerVars, meterVars, TypeOK
<1>2. CASE Crash
  BY <1>2 DEF Crash, TypeOK, Stages, ledgerVars
<1>3. ASSUME NEW r \in Request, Proceed(r) PROVE TypeOK'
  <2> USE ColumnTyped, GatewayTyped, ReleaseTyped
  <2>1. CASE Authenticate(r)
    BY <2>1 DEF Authenticate, Advance, TypeOK, Stages, ledgerVars, meterVars
  <2>2. CASE CheckBudget(r)
    BY <2>2 DEF CheckBudget, Advance, TypeOK, Stages, lockVars, ledgerVars, meterVars
  <2>3. CASE CreateRow(r)
    BY <2>3 DEF CreateRow, Insert, Advance, TypeOK, Stages, ledgerVars, meterVars
  <2>4. CASE InsertCollides(r)
    BY <2>4 DEF InsertCollides, Advance, TypeOK, Stages, lockVars, ledgerVars, meterVars
  <2>5. CASE StartRun(r)
    BY <2>5 DEF StartRun, Advance, TypeOK, Stages, lockVars, ledgerVars
  <2>6. CASE CallReads(r)
    BY <2>6 DEF CallReads, Advance, TypeOK, Stages, lockVars, ledgerVars, meterVars
  <2>7. CASE CallWrites(r)
    BY <2>7 DEF CallWrites, Advance, TypeOK, Stages, lockVars, ledgerVars
  <2>8. CASE TakeUsage(r)
    BY <2>8 DEF TakeUsage, Advance, TypeOK, Stages, lockVars, ledgerVars
  <2>9. CASE StoreRun(r)
    BY <2>9 DEF StoreRun, Advance, TypeOK, Stages, meterVars
  <2>10. CASE RecordUsage(r)
    BY <2>10 DEF RecordUsage, Advance, TypeOK, Stages, ledgerVars, meterVars
  <2>11. CASE OpenRow(r)
    BY <2>11 DEF OpenRow, Insert, Advance, TypeOK, Stages, ledgerVars, meterVars
  <2>12. CASE Charge(r)
    BY <2>12 DEF Charge, Advance, TypeOK, Stages, meterVars
  <2>13. CASE Fails(r)
    BY <2>13 DEF Fails, TypeOK, Stages, lockVars, ledgerVars, meterVars
  <2>14. CASE Rollback(r)
    BY <2>14 DEF Rollback, Advance, TypeOK, Stages, ledgerVars, meterVars
  <2> QED
    BY <1>3, <2>1, <2>2, <2>3, <2>4, <2>5, <2>6, <2>7, <2>8, <2>9, <2>10, <2>11,
       <2>12, <2>13, <2>14, Zenon DEF Proceed, Works
<1> QED
  BY <1>1, <1>2, <1>3 DEF Next, Finished

\* Every variable keeps its type: costs and balances stay natural numbers, and
\* only requests hold locks.
THEOREM TypeCorrect == Spec => []TypeOK
BY TypeInit, TypeNext, PTL DEF Spec

-----------------------------------------------------------------------------
(***************************************************************************)
(* The row locks and the ledger.                                           *)
(***************************************************************************)

LEMMA LedgerInit == Init => LedgerInv
<1> SUFFICES ASSUME Init PROVE LedgerInv
  OBVIOUS
<1>1. TypeOK
  BY TypeInit
<1>2. LocksHeld /\ ReadIsCurrent
  BY DEF Init, LocksHeld, ReadIsCurrent
<1>3. RowsOpened
  BY DEF Init, RowsOpened
<1> QED
  BY <1>1, <1>2, <1>3 DEF LedgerInv

LEMMA LocksNext == TypeOK /\ LocksHeld /\ [Next]_vars => LocksHeld'
<1> SUFFICES ASSUME TypeOK, LocksHeld, [Next]_vars PROVE LocksHeld'
  OBVIOUS
<1> USE RequestAssumption DEF LocksHeld, TypeOK
<1>1. CASE UNCHANGED vars
  BY <1>1 DEF vars, lockVars
<1>2. CASE Crash
  BY <1>2 DEF Crash
<1>3. ASSUME NEW r \in Request, Proceed(r) PROVE LocksHeld'
  <2>1. CASE Authenticate(r)
    BY <2>1
       DEF Authenticate, Advance, lockVars, ledgerVars, meterVars
  <2>2. CASE CheckBudget(r)
    BY <2>2
       DEF CheckBudget, Advance, lockVars, ledgerVars, meterVars
  <2>3. CASE CreateRow(r)
    BY <2>3
       DEF CreateRow, Insert, Advance, lockVars, ledgerVars, meterVars
  <2>4. CASE InsertCollides(r)
    BY <2>4
       DEF InsertCollides, Advance, lockVars, ledgerVars, meterVars
  <2>5. CASE StartRun(r)
    BY <2>5
       DEF StartRun, Advance, lockVars, ledgerVars, meterVars
  <2>6. CASE CallReads(r)
    BY <2>6
       DEF CallReads, Advance, lockVars, ledgerVars, meterVars
  <2>7. CASE CallWrites(r)
    BY <2>7
       DEF CallWrites, Advance, lockVars, ledgerVars, meterVars
  <2>8. CASE TakeUsage(r)
    BY <2>8
       DEF TakeUsage, Advance, lockVars, ledgerVars, meterVars
  <2>9. CASE StoreRun(r)
    BY <2>9
       DEF StoreRun, Advance, Release, lockVars, ledgerVars, meterVars
  <2>10. CASE RecordUsage(r)
    BY <2>10
       DEF RecordUsage, Advance, lockVars, ledgerVars, meterVars
  <2>11. CASE OpenRow(r)
    BY <2>11
       DEF OpenRow, Insert, Advance, lockVars, ledgerVars, meterVars
  <2>12. CASE Charge(r)
    BY <2>12
       DEF Charge, Advance, Release, lockVars, ledgerVars, meterVars
  <2>13. CASE Fails(r)
    BY <2>13
       DEF Fails, lockVars, ledgerVars, meterVars
  <2>14. CASE Rollback(r)
    BY <2>14
       DEF Rollback, Advance, Release, lockVars, ledgerVars, meterVars
  <2> QED
    BY <1>3, <2>1, <2>2, <2>3, <2>4, <2>5, <2>6, <2>7, <2>8,
       <2>9, <2>10, <2>11, <2>12, <2>13, <2>14, Zenon DEF Proceed, Works
<1> QED
  BY <1>1, <1>2, <1>3 DEF Next, Finished

LEMMA RowsNext == LedgerInv /\ [Next]_vars => RowsOpened'
<1> SUFFICES ASSUME LedgerInv, [Next]_vars PROVE RowsOpened'
  OBVIOUS
<1> USE RequestAssumption, ColumnTyped DEF LedgerInv, RowsOpened, TypeOK
<1>1. CASE UNCHANGED vars
  BY <1>1 DEF vars, ledgerVars
<1>2. CASE Crash
  BY <1>2 DEF Crash, ledgerVars
<1>3. ASSUME NEW r \in Request, Proceed(r) PROVE RowsOpened'
  <2>1. CASE Authenticate(r)
    BY <2>1
       DEF Authenticate, Advance, lockVars, ledgerVars, meterVars
  <2>2. CASE CheckBudget(r)
    BY <2>2
       DEF CheckBudget, Advance, lockVars, ledgerVars, meterVars
  <2>3. CASE CreateRow(r)
    BY <2>3
       DEF CreateRow, Insert, Advance, lockVars, ledgerVars, meterVars
  <2>4. CASE InsertCollides(r)
    BY <2>4
       DEF InsertCollides, Advance, lockVars, ledgerVars, meterVars
  <2>5. CASE StartRun(r)
    BY <2>5
       DEF StartRun, Advance, lockVars, ledgerVars, meterVars
  <2>6. CASE CallReads(r)
    BY <2>6
       DEF CallReads, Advance, lockVars, ledgerVars, meterVars
  <2>7. CASE CallWrites(r)
    BY <2>7
       DEF CallWrites, Advance, lockVars, ledgerVars, meterVars
  <2>8. CASE TakeUsage(r)
    BY <2>8
       DEF TakeUsage, Advance, lockVars, ledgerVars, meterVars
  <2>9. CASE StoreRun(r)
    BY <2>9
       DEF StoreRun, Advance, Release, lockVars, ledgerVars, meterVars
  <2>10. CASE RecordUsage(r)
    BY <2>10
       DEF RecordUsage, Advance, lockVars, ledgerVars, meterVars
  <2>11. CASE OpenRow(r)
    BY <2>11
       DEF OpenRow, Insert, Advance, lockVars, ledgerVars, meterVars
  <2>12. CASE Charge(r)
    BY <2>12
       DEF Charge, Advance, Release, lockVars, ledgerVars, meterVars
  <2>13. CASE Fails(r)
    BY <2>13
       DEF Fails, lockVars, ledgerVars, meterVars
  <2>14. CASE Rollback(r)
    BY <2>14
       DEF Rollback, Advance, Release, lockVars, ledgerVars, meterVars
  <2> QED
    BY <1>3, <2>1, <2>2, <2>3, <2>4, <2>5, <2>6, <2>7, <2>8,
       <2>9, <2>10, <2>11, <2>12, <2>13, <2>14, Zenon DEF Proceed, Works
<1> QED
  BY <1>1, <1>2, <1>3 DEF Next, Finished

LEMMA ReadsNext == LedgerInv /\ [Next]_vars => ReadIsCurrent'
<1> SUFFICES ASSUME LedgerInv, [Next]_vars PROVE ReadIsCurrent'
  OBVIOUS
<1> USE RequestAssumption, ColumnTyped DEF LedgerInv, RowsOpened, LocksHeld, ReadIsCurrent, TypeOK, Column
<1>1. CASE UNCHANGED vars
  BY <1>1 DEF vars, ledgerVars
<1>2. CASE Crash
  BY <1>2 DEF Crash, ledgerVars
<1>3. ASSUME NEW r \in Request, Proceed(r) PROVE ReadIsCurrent'
  <2>1. CASE Authenticate(r)
    BY <2>1
       DEF Authenticate, Advance, lockVars, ledgerVars, meterVars
  <2>2. CASE CheckBudget(r)
    BY <2>2
       DEF CheckBudget, Advance, lockVars, ledgerVars, meterVars
  <2>3. CASE CreateRow(r)
    BY <2>3
       DEF CreateRow, Insert, Advance, lockVars, ledgerVars, meterVars
  <2>4. CASE InsertCollides(r)
    BY <2>4
       DEF InsertCollides, Advance, lockVars, ledgerVars, meterVars
  <2>5. CASE StartRun(r)
    BY <2>5
       DEF StartRun, Advance, lockVars, ledgerVars, meterVars
  <2>6. CASE CallReads(r)
    BY <2>6
       DEF CallReads, Advance, lockVars, ledgerVars, meterVars
  <2>7. CASE CallWrites(r)
    BY <2>7
       DEF CallWrites, Advance, lockVars, ledgerVars, meterVars
  <2>8. CASE TakeUsage(r)
    BY <2>8
       DEF TakeUsage, Advance, lockVars, ledgerVars, meterVars
  <2>9. CASE StoreRun(r)
    BY <2>9
       DEF StoreRun, Advance, Release, lockVars, ledgerVars, meterVars
  <2>10. CASE RecordUsage(r)
    BY <2>10
       DEF RecordUsage, Advance, lockVars, ledgerVars, meterVars
  <2>11. CASE OpenRow(r)
    BY <2>11
       DEF OpenRow, Insert, Advance, lockVars, ledgerVars, meterVars
  <2>12. CASE Charge(r)
    BY <2>12
       DEF Charge, Advance, Release, lockVars, ledgerVars, meterVars
  <2>13. CASE Fails(r)
    BY <2>13
       DEF Fails, lockVars, ledgerVars, meterVars
  <2>14. CASE Rollback(r)
    BY <2>14
       DEF Rollback, Advance, Release, lockVars, ledgerVars, meterVars
  <2> QED
    BY <1>3, <2>1, <2>2, <2>3, <2>4, <2>5, <2>6, <2>7, <2>8,
       <2>9, <2>10, <2>11, <2>12, <2>13, <2>14, Zenon DEF Proceed, Works
<1> QED
  BY <1>1, <1>2, <1>3 DEF Next, Finished

LEMMA LedgerStep == LedgerInv /\ [Next]_vars => LedgerInv'
BY TypeNext, LocksNext, RowsNext, ReadsNext DEF LedgerInv

LEMMA LedgerAlways == Spec => []LedgerInv
BY LedgerInit, LedgerStep, PTL DEF Spec

\* Two requests of one user never execute their graphs at the same time: the
\* user's row is locked from authentication to the commit of the run.
THEOREM RunsAreSerial == Spec => []SerialUntilStored
<1>1. LedgerInv => SerialUntilStored
  <2> SUFFICES ASSUME LedgerInv,
                      NEW r \in Request, NEW s \in Request, Owner[r] = Owner[s],
                      stage[r] \in FirstTransaction, stage[s] \in FirstTransaction
               PROVE  r = s
    BY DEF SerialUntilStored
  <2>1. userLock[Owner[r]] = r /\ userLock[Owner[s]] = s
    BY DEF LedgerInv, LocksHeld
  <2> QED
    BY <2>1
<1> QED
  BY <1>1, LedgerAlways, PTL

\* No charge is lost: between the read of record_usage and its commit the credit
\* row does not change.
THEOREM ReadsAreCurrent == Spec => []ReadIsCurrent
<1>1. LedgerInv => ReadIsCurrent
  BY DEF LedgerInv
<1> QED
  BY <1>1, LedgerAlways, PTL

-----------------------------------------------------------------------------
(***************************************************************************)
(* The adapter of a byok run counts that run alone.                        *)
(***************************************************************************)

LEMMA MeterInit == Init => MeterInv
BY TypeInit DEF Init, MeterInv, MeterTracksCost, OwnAdapterExact

LEMMA MeterNext == MeterInv /\ [Next]_vars => MeterInv'
<1> SUFFICES ASSUME MeterInv, [Next]_vars PROVE MeterTracksCost' /\ OwnAdapterExact'
  BY TypeNext DEF MeterInv
<1> USE RequestAssumption, CostAssumption
    DEF MeterInv, MeterTracksCost, OwnAdapterExact, TypeOK
<1>1. CASE UNCHANGED vars
  BY <1>1 DEF vars, meterVars
<1>2. CASE Crash
  BY <1>2 DEF Crash
<1>3. ASSUME NEW r \in Request, Proceed(r) PROVE MeterTracksCost' /\ OwnAdapterExact'
  <2>1. CASE Authenticate(r)
    BY <2>1
       DEF Authenticate, Advance, lockVars, ledgerVars, meterVars, GatewayOf, Gateways
  <2>2. CASE CheckBudget(r)
    BY <2>2
       DEF CheckBudget, Advance, lockVars, ledgerVars, meterVars, GatewayOf, Gateways
  <2>3. CASE CreateRow(r)
    BY <2>3
       DEF CreateRow, Insert, Advance, lockVars, ledgerVars, meterVars, GatewayOf, Gateways
  <2>4. CASE InsertCollides(r)
    BY <2>4
       DEF InsertCollides, Advance, lockVars, ledgerVars, meterVars, GatewayOf, Gateways
  <2>5. CASE StartRun(r)
    BY <2>5
       DEF StartRun, Advance, lockVars, ledgerVars, meterVars, GatewayOf, Gateways
  <2>6. CASE CallReads(r)
    BY <2>6
       DEF CallReads, Advance, lockVars, ledgerVars, meterVars, GatewayOf, Gateways
  <2>7. CASE CallWrites(r)
    BY <2>7
       DEF CallWrites, Advance, lockVars, ledgerVars, meterVars, GatewayOf, Gateways
  <2>8. CASE TakeUsage(r)
    BY <2>8
       DEF TakeUsage, Advance, lockVars, ledgerVars, meterVars, GatewayOf, Gateways
  <2>9. CASE StoreRun(r)
    BY <2>9
       DEF StoreRun, Advance, Release, lockVars, ledgerVars, meterVars, GatewayOf, Gateways
  <2>10. CASE RecordUsage(r)
    BY <2>10
       DEF RecordUsage, Advance, lockVars, ledgerVars, meterVars, GatewayOf, Gateways
  <2>11. CASE OpenRow(r)
    BY <2>11
       DEF OpenRow, Insert, Advance, lockVars, ledgerVars, meterVars, GatewayOf, Gateways
  <2>12. CASE Charge(r)
    BY <2>12
       DEF Charge, Advance, Release, lockVars, ledgerVars, meterVars, GatewayOf, Gateways
  <2>13. CASE Fails(r)
    BY <2>13
       DEF Fails, lockVars, ledgerVars, meterVars, GatewayOf, Gateways
  <2>14. CASE Rollback(r)
    BY <2>14
       DEF Rollback, Advance, Release, lockVars, ledgerVars, meterVars, GatewayOf, Gateways
  <2> QED
    BY <1>3, <2>1, <2>2, <2>3, <2>4, <2>5, <2>6, <2>7, <2>8,
       <2>9, <2>10, <2>11, <2>12, <2>13, <2>14, Zenon DEF Proceed, Works
<1> QED
  BY <1>1, <1>2, <1>3 DEF Next, Finished

\* Whatever other requests do, the usage of a run on its own adapter is the cost
\* of its own calls.
THEOREM OwnAdaptersAreExact == Spec => []OwnAdapterExact
<1>1. MeterInv => OwnAdapterExact
  BY DEF MeterInv
<1> QED
  BY <1>1, MeterInit, MeterNext, PTL DEF Spec

-----------------------------------------------------------------------------
(***************************************************************************)
(* RunMetering implements CreditAccount.                                   *)
(***************************************************************************)

Fated == [r \in Request |-> Fate(r)]

\* what a request's fate becomes when its stage, and no other, changes
LEMMA OneFateMoves ==
  ASSUME TypeOK, NEW r \in Request, NEW to \in Stages,
         stage' = [stage EXCEPT ![r] = to]
  PROVE  Fated' = [Fated EXCEPT ![r] = Fate(r)']
BY DEF TypeOK, Fated, Fate

LEMMA AccountInit == Init => Ledger!Init
BY DEF Init, Ledger!Init, Fate

LEMMA AccountStep == LedgerInv /\ [Next]_vars => [Ledger!Next]_(Ledger!vars)
<1> SUFFICES ASSUME LedgerInv, [Next]_vars
             PROVE  Ledger!Next \/ (Fated' = Fated /\ balance' = balance)
  BY DEF Ledger!vars, Fated
<1> USE DEF LedgerInv
<1>0. TypeOK
  OBVIOUS
<1>1. CASE UNCHANGED vars
  BY <1>1 DEF vars, ledgerVars, Fated, Fate
<1>2. CASE Crash
  <2>1. \A r \in Request :
          \/ Fate(r)' = Fate(r)
          \/ Fate(r) = "open" /\ Fate(r)' = "failed"
          \/ Fate(r) = "stored" /\ Fate(r)' = "unpaid"
    BY <1>2 DEF Crash, Fate, TypeOK
  <2>2. \A r \in Request : Fate(r)' \in Ledger!Fates
    BY DEF Fate, Ledger!Fates
  <2>3. Ledger!Interrupt
    BY <1>2, <2>1, <2>2 DEF Ledger!Interrupt, Crash, ledgerVars
  <2> QED
    BY <2>3 DEF Ledger!Next
<1>3. ASSUME NEW r \in Request, Proceed(r)
      PROVE  Ledger!Next \/ (Fated' = Fated /\ balance' = balance)
  <2> DEFINE Still == Fated' = Fated /\ balance' = balance
  <2> USE <1>0 DEF TypeOK, Fate, Stages, ledgerVars
  \* inside a transaction nothing shows
  <2>1. CASE Authenticate(r)
    BY <2>1 DEF Authenticate, Advance, Fated
  <2>2. CASE CheckBudget(r)
    BY <2>2 DEF CheckBudget, Advance, Fated
  <2>3. CASE CreateRow(r)
    BY <2>3 DEF CreateRow, Insert, Advance, Fated
  <2>4. CASE InsertCollides(r)
    BY <2>4 DEF InsertCollides, Advance, Fated
  <2>5. CASE StartRun(r)
    BY <2>5 DEF StartRun, Advance, Fated
  <2>6. CASE CallReads(r)
    BY <2>6 DEF CallReads, Advance, Fated
  <2>7. CASE CallWrites(r)
    BY <2>7 DEF CallWrites, Advance, Fated
  <2>8. CASE TakeUsage(r)
    BY <2>8 DEF TakeUsage, Advance, Fated
  <2>9. CASE RecordUsage(r)
    BY <2>9 DEF RecordUsage, Advance, Fated
  <2>10. CASE OpenRow(r)
    BY <2>10 DEF OpenRow, Insert, Advance, Fated
  <2>11. CASE Fails(r)
    BY <2>11 DEF Fails, Fated
  \* the ends of the two transactions do
  <2>12. CASE StoreRun(r)
    <3>1. Fated' = [Fated EXCEPT ![r] = "stored"] /\ Fated[r] = "open" /\ balance' = balance
      BY <2>12, OneFateMoves DEF StoreRun, Advance, Fated
    <3> QED
      BY <3>1 DEF Fated, Ledger!Next, Ledger!Store, Ledger!Moves
  <2>13. CASE Charge(r)
    <3>1. Fated' = [Fated EXCEPT ![r] = "charged"] /\ Fated[r] = "stored"
      BY <2>13, OneFateMoves DEF Charge, Advance, Fated
    <3>2. /\ read[r] = balance[Owner[r]][Column(r)]
          /\ balance' = [balance EXCEPT ![Owner[r]][Column(r)] = read[r] + usage[r]]
      BY <2>13 DEF Charge, Advance, ReadIsCurrent
    <3>3. balance'[Owner[r]][Column(r)] = balance[Owner[r]][Column(r)] + usage[r]
      BY <3>2, RequestAssumption, ColumnTyped
    <3>4. /\ balance'[Owner[r]][Column(r)] \in Nat
          /\ balance'[Owner[r]][Column(r)] >= balance[Owner[r]][Column(r)]
      BY <3>3, RequestAssumption, ColumnTyped
    <3>5. Ledger!Charge(r)
      BY <3>1, <3>2, <3>3, <3>4, ColumnTyped DEF Fated, Ledger!Charge, Ledger!Moves
    <3> QED
      BY <3>5 DEF Ledger!Next
  <2>14. CASE Rollback(r)
    <3>1. balance' = balance /\ r \in Request
      BY <2>14 DEF Rollback
    <3>2. CASE Advance(r, "failing", "failed")
      <4>1. Fated' = [Fated EXCEPT ![r] = "failed"] /\ Fated[r] = "open"
        BY <3>2, OneFateMoves DEF Advance, Fated
      <4> QED
        BY <3>1, <4>1 DEF Fated, Ledger!Next, Ledger!Fail, Ledger!Moves
    <3>3. CASE Advance(r, "forfeiting", "unpaid")
      <4>1. Fated' = [Fated EXCEPT ![r] = "unpaid"] /\ Fated[r] = "stored"
        BY <3>3, OneFateMoves DEF Advance, Fated
      <4> QED
        BY <3>1, <4>1 DEF Fated, Ledger!Next, Ledger!Forfeit, Ledger!Moves
    <3> QED
      BY <2>14, <3>2, <3>3 DEF Rollback
  <2> QED
    BY <1>3, <2>1, <2>2, <2>3, <2>4, <2>5, <2>6, <2>7, <2>8, <2>9, <2>10, <2>11,
       <2>12, <2>13, <2>14, Zenon DEF Proceed, Works
<1> QED
  BY <1>1, <1>2, <1>3 DEF Next, Finished

\* The two transactions with their locks implement the ledger that stores a run
\* and then charges it once, in one step.
THEOREM MeteringImplementsAccount == Spec => ImplementsAccount
<1>1. Spec => []LedgerInv
  BY LedgerAlways
<1> QED
  BY <1>1, AccountInit, AccountStep, PTL DEF Spec, ImplementsAccount, Ledger!Spec

-----------------------------------------------------------------------------
(***************************************************************************)
(* The ledger is the sum of what was charged.                              *)
(***************************************************************************)

Answered == {r \in Request : stage[r] = "done"}
Charged(a, c) == {r \in Answered : Owner[r] = a /\ Column(r) = c}

SumsInv == LedgerInv /\ IsFiniteSet(Answered) /\ LedgerExact

LEMMA LedgerIsTotal ==
  LedgerExact <=> \A a \in Account, c \in Columns : balance[a][c] = Total(usage, Charged(a, c))
<1>1. \A a, c : Charged(a, c)
                 = {r \in Request : stage[r] = "done" /\ Owner[r] = a /\ Column(r) = c}
  BY DEF Charged, Answered
<1> QED
  BY <1>1 DEF LedgerExact, Total

LEMMA LedgerIsTotalNext ==
  LedgerExact' <=> \A a \in Account, c \in Columns : balance'[a][c] = Total(usage', Charged(a, c)')
<1>1. (LedgerExact <=> \A a \in Account, c \in Columns :
                          balance[a][c] = Total(usage, Charged(a, c)))'
  BY LedgerIsTotal, PTL
<1> QED
  BY <1>1

LEMMA SumsInit == Init => SumsInv
<1> SUFFICES ASSUME Init PROVE SumsInv
  OBVIOUS
<1>1. Answered = {} /\ \A a, c : Charged(a, c) = {}
  BY DEF Init, Answered, Charged
<1>2. \A a \in Account, c \in Columns : balance[a][c] = Total(usage, Charged(a, c))
  BY <1>1, TotalOfNone DEF Init
<1> QED
  BY <1>1, <1>2, LedgerInit, LedgerIsTotal, FS_EmptySet DEF SumsInv

\* a step that answers nobody and leaves balances and the usage of the answered
LEMMA SumsStay ==
  ASSUME SumsInv, mode' = mode, balance' = balance, Answered' = Answered,
         \A r \in Answered : usage'[r] = usage[r]
  PROVE  LedgerExact'
<1> SUFFICES ASSUME NEW a \in Account, NEW c \in Columns
             PROVE  balance'[a][c] = Total(usage', Charged(a, c)')
  BY LedgerIsTotalNext
<1>1. Charged(a, c)' = Charged(a, c)
  BY DEF Charged, Column
<1>2. IsFiniteSet(Charged(a, c)) /\ \A r \in Charged(a, c) : usage'[r] = usage[r]
  BY FS_Subset DEF SumsInv, Charged
<1>3. Total(usage', Charged(a, c)) = Total(usage, Charged(a, c))
  BY <1>2, TotalAgrees
<1> QED
  BY <1>1, <1>3, LedgerIsTotal DEF SumsInv

\* the charge of one request
LEMMA SumsGrow ==
  ASSUME SumsInv, NEW r \in Request, Charge(r)
  PROVE  IsFiniteSet(Answered') /\ LedgerExact'
<1> USE DEF SumsInv, LedgerInv, TypeOK
<1>1. Answered' = Answered \union {r} /\ r \notin Answered
  BY DEF Charge, Advance, Answered
<1>2. IsFiniteSet(Answered')
  BY <1>1, FS_AddElement
<1>3. mode' = mode /\ usage' = usage
  BY DEF Charge, meterVars
<1>4. balance' = [balance EXCEPT ![Owner[r]][Column(r)] = balance[Owner[r]][Column(r)] + usage[r]]
  BY DEF Charge, Advance, ReadIsCurrent
<1>5. ASSUME NEW a \in Account, NEW c \in Columns
      PROVE  balance'[a][c] = Total(usage', Charged(a, c)')
  <2>1. IsFiniteSet(Charged(a, c)) /\ r \notin Charged(a, c)
    BY <1>1, FS_Subset DEF Charged
  <2>2. balance[a][c] = Total(usage, Charged(a, c))
    BY LedgerIsTotal
  <2>3. CASE a = Owner[r] /\ c = Column(r)
    <3>1. Charged(a, c)' = Charged(a, c) \union {r}
      BY <1>1, <1>3, <2>3 DEF Charged, Column
    <3>2. Total(usage, Charged(a, c) \union {r}) = Total(usage, Charged(a, c)) + usage[r]
      <4>1. \A s \in Charged(a, c) : usage[s] \in Nat
        BY DEF Charged, Answered
      <4> QED
        BY <2>1, <4>1, TotalOfOneMore
    <3> QED
      BY <1>3, <1>4, <2>2, <2>3, <3>1, <3>2
  <2>4. CASE ~(a = Owner[r] /\ c = Column(r))
    <3>1. Charged(a, c)' = Charged(a, c)
      BY <1>1, <1>3, <2>4 DEF Charged, Column
    <3>2. balance'[a][c] = balance[a][c]
      BY <1>4, <2>4
    <3> QED
      BY <1>3, <2>2, <3>1, <3>2
  <2> QED
    BY <2>3, <2>4
<1> QED
  BY <1>2, <1>5, LedgerIsTotalNext

LEMMA SumsNext == SumsInv /\ [Next]_vars => SumsInv'
<1> SUFFICES ASSUME SumsInv, [Next]_vars PROVE IsFiniteSet(Answered') /\ LedgerExact'
  BY LedgerStep DEF SumsInv
<1> DEFINE Quiet == /\ mode' = mode /\ balance' = balance /\ Answered' = Answered
                    /\ \A r \in Answered : usage'[r] = usage[r]
<1>0. ASSUME Quiet PROVE IsFiniteSet(Answered') /\ LedgerExact'
  BY <1>0, SumsStay DEF SumsInv
<1> SUFFICES ASSUME \A r \in Request : ~Charge(r) PROVE Quiet
  BY <1>0, SumsGrow
<1> USE DEF SumsInv, LedgerInv, TypeOK, Answered
<1>1. CASE UNCHANGED vars
  BY <1>1 DEF vars, meterVars, ledgerVars
<1>2. CASE Crash
  BY <1>2 DEF Crash, ledgerVars
<1>3. ASSUME NEW r \in Request, Proceed(r) PROVE Quiet
  <2> USE DEF Advance, Insert, lockVars, ledgerVars, meterVars
  <2>1. CASE Authenticate(r)
    BY <2>1 DEF Authenticate
  <2>2. CASE CheckBudget(r)
    BY <2>2 DEF CheckBudget
  <2>3. CASE CreateRow(r)
    BY <2>3 DEF CreateRow
  <2>4. CASE InsertCollides(r)
    BY <2>4 DEF InsertCollides
  <2>5. CASE StartRun(r)
    BY <2>5 DEF StartRun
  <2>6. CASE CallReads(r)
    BY <2>6 DEF CallReads
  <2>7. CASE CallWrites(r)
    BY <2>7 DEF CallWrites
  <2>8. CASE TakeUsage(r)
    BY <2>8 DEF TakeUsage
  <2>9. CASE StoreRun(r)
    BY <2>9 DEF StoreRun
  <2>10. CASE RecordUsage(r)
    BY <2>10 DEF RecordUsage
  <2>11. CASE OpenRow(r)
    BY <2>11 DEF OpenRow
  <2>12. CASE Fails(r)
    BY <2>12 DEF Fails
  <2>13. CASE Rollback(r)
    BY <2>13 DEF Rollback
  <2> QED
    BY <1>3, <2>1, <2>2, <2>3, <2>4, <2>5, <2>6, <2>7, <2>8,
       <2>9, <2>10, <2>11, <2>12, <2>13, Zenon DEF Proceed, Works
<1> QED
  BY <1>1, <1>2, <1>3 DEF Next, Finished

\* Every column of every credit row is the sum of the usage of the runs that were
\* answered and charged to it: no charge is lost, repeated, or made for a run
\* whose request failed, however requests interleave, fail or crash.
THEOREM LedgersAreExact == Spec => []LedgerExact
<1>1. SumsInv => LedgerExact
  BY DEF SumsInv
<1> QED
  BY <1>1, SumsInit, SumsNext, PTL DEF Spec

-----------------------------------------------------------------------------
(***************************************************************************)
(* Nobody waits in a circle, and nobody works for ever: what the liveness  *)
(* of requests rests on besides fairness.                                  *)
(***************************************************************************)

\* the request whose transaction r's next statement waits for
WaitsFor(r, s) ==
  LET a == Owner[r] IN
  \/ stage[r] = "arrived" /\ userLock[a] = s
  \/ stage[r] \in {"creating", "opening"} /\ ~known[a] /\ creditLock[a] = s
  \/ stage[r] = "recording" /\ known[a] /\ creditLock[a] = s

UnderWay(r) == stage[r] \in FirstTransaction \union SecondTransaction

\* A lock belongs to a transaction that is open, and whoever waits for a credit
\* row waits for one that waits for nobody.
WaitsEnd ==
  \A r, s \in Request : WaitsFor(r, s) =>
    /\ UnderWay(s)
    /\ stage[r] # "arrived" => \A t \in Request : ~WaitsFor(s, t)

LocksOwned ==
  \A a \in Account :
    /\ userLock[a] # Nobody => stage[userLock[a]] \in FirstTransaction
    /\ creditLock[a] # Nobody =>
         stage[creditLock[a]] \in (FirstTransaction \ {"admitting", "creating"})
                                    \union {"charging", "forfeiting"}

WaitsInv == TypeOK /\ LocksOwned

LEMMA WaitsInit == Init => WaitsInv
BY TypeInit DEF Init, WaitsInv, LocksOwned

LEMMA WaitsNext == WaitsInv /\ [Next]_vars => WaitsInv'
<1> SUFFICES ASSUME WaitsInv, [Next]_vars PROVE LocksOwned'
  BY TypeNext DEF WaitsInv
<1> USE RequestAssumption DEF WaitsInv, LocksOwned, TypeOK
<1>1. CASE UNCHANGED vars
  BY <1>1 DEF vars, lockVars
<1>2. CASE Crash
  BY <1>2 DEF Crash
<1>3. ASSUME NEW r \in Request, Proceed(r) PROVE LocksOwned'
  <2> USE DEF Advance, Insert, Release, lockVars
  <2>1. CASE Authenticate(r)
    BY <2>1 DEF Authenticate
  <2>2. CASE CheckBudget(r)
    BY <2>2 DEF CheckBudget
  <2>3. CASE CreateRow(r)
    BY <2>3 DEF CreateRow
  <2>4. CASE InsertCollides(r)
    BY <2>4 DEF InsertCollides
  <2>5. CASE StartRun(r)
    BY <2>5 DEF StartRun
  <2>6. CASE CallReads(r)
    BY <2>6 DEF CallReads
  <2>7. CASE CallWrites(r)
    BY <2>7 DEF CallWrites
  <2>8. CASE TakeUsage(r)
    BY <2>8 DEF TakeUsage
  <2>9. CASE StoreRun(r)
    BY <2>9 DEF StoreRun
  <2>10. CASE RecordUsage(r)
    BY <2>10 DEF RecordUsage
  <2>11. CASE OpenRow(r)
    BY <2>11 DEF OpenRow
  <2>12. CASE Charge(r)
    BY <2>12 DEF Charge
  <2>13. CASE Fails(r)
    BY <2>13 DEF Fails
  <2>14. CASE Rollback(r)
    BY <2>14 DEF Rollback
  <2> QED
    BY <1>3, <2>1, <2>2, <2>3, <2>4, <2>5, <2>6, <2>7, <2>8,
       <2>9, <2>10, <2>11, <2>12, <2>13, <2>14, Zenon DEF Proceed, Works
<1> QED
  BY <1>1, <1>2, <1>3 DEF Next, Finished

\* No deadlock on the two rows: a request waits only for an open transaction, a
\* request inside its graph or its charge never waits, and a chain of waiting
\* requests is at most two long (for the user's row, then for the credit row).
THEOREM WaitsAreShort == Spec => []WaitsEnd
<1>1. WaitsInv => WaitsEnd
  BY RequestAssumption DEF WaitsInv, WaitsEnd, WaitsFor, UnderWay, LocksOwned, TypeOK
<1> QED
  BY <1>1, WaitsInit, WaitsNext, PTL DEF Spec

\* steps a request can still take by its stage, and by the calls it can still pay
StepsAhead ==
  [arrived |-> 11, admitting |-> 10, creating |-> 9, starting |-> 8, running |-> 7,
   calling |-> 6, returned |-> 5, recording |-> 4, opening |-> 3, charging |-> 2,
   failing |-> 1, forfeiting |-> 1, failed |-> 0, unpaid |-> 0, done |-> 0]
StepsLeft(r) == StepsAhead[stage[r]] + 2 * (MaxRunCost - cost[r])

CostsBounded == \A r \in Request : cost[r] <= MaxRunCost

LEMMA CostsInit == Init => CostsBounded
BY CostAssumption DEF Init, CostsBounded

LEMMA CostsNext == TypeOK /\ CostsBounded /\ [Next]_vars => CostsBounded'
<1> SUFFICES ASSUME TypeOK, CostsBounded, [Next]_vars PROVE CostsBounded'
  OBVIOUS
<1> USE CostAssumption DEF CostsBounded, TypeOK
<1>1. CASE cost' = cost
  BY <1>1
<1>2. ASSUME NEW r \in Request, CallWrites(r) PROVE CostsBounded'
  BY <1>2 DEF CallWrites
<1>3. ASSUME NEW r \in Request, Proceed(r), ~CallWrites(r) PROVE cost' = cost
  BY <1>3 DEF Proceed, Works, Authenticate, CheckBudget, CreateRow, InsertCollides, StartRun, CallReads,
              TakeUsage, StoreRun, RecordUsage, OpenRow, Charge, Fails, Rollback, meterVars
<1> QED
  BY <1>1, <1>2, <1>3 DEF Next, Finished, Crash, vars, meterVars

\* what a step of one request costs it
LEMMA StepCounts ==
  ASSUME TypeOK, CostsBounded, NEW r \in Request, Proceed(r)
  PROVE  /\ StepsLeft(r)' < StepsLeft(r)
         /\ \A s \in Request \ {r} : StepsLeft(s)' = StepsLeft(s)
<1> DEFINE Counts == /\ StepsLeft(r)' < StepsLeft(r)
                     /\ \A s \in Request \ {r} : StepsLeft(s)' = StepsLeft(s)
<1> USE CostAssumption DEF TypeOK, CostsBounded, StepsLeft, StepsAhead, Stages,
                           Advance, Insert, meterVars
<1>1. CASE Authenticate(r)
  BY <1>1 DEF Authenticate
<1>2. CASE CheckBudget(r)
  BY <1>2 DEF CheckBudget
<1>3. CASE CreateRow(r)
  BY <1>3 DEF CreateRow
<1>4. CASE InsertCollides(r)
  BY <1>4 DEF InsertCollides
<1>5. CASE StartRun(r)
  BY <1>5 DEF StartRun
<1>6. CASE CallReads(r)
  BY <1>6 DEF CallReads
<1>7. CASE CallWrites(r)
  BY <1>7 DEF CallWrites
<1>8. CASE TakeUsage(r)
  BY <1>8 DEF TakeUsage
<1>9. CASE StoreRun(r)
  BY <1>9 DEF StoreRun
<1>10. CASE RecordUsage(r)
  BY <1>10 DEF RecordUsage
<1>11. CASE OpenRow(r)
  BY <1>11 DEF OpenRow
<1>12. CASE Charge(r)
  BY <1>12 DEF Charge
<1>13. CASE Fails(r)
  BY <1>13 DEF Fails
<1>14. CASE Rollback(r)
  BY <1>14 DEF Rollback
<1> QED
  BY <1>1, <1>2, <1>3, <1>4, <1>5, <1>6, <1>7, <1>8,
     <1>9, <1>10, <1>11, <1>12, <1>13, <1>14, Zenon DEF Proceed, Works

\* Whatever happens brings some request nearer to its end and none away from it:
\* with n requests nothing can happen more than n * (11 + 2 * MaxRunCost) times,
\* failures, waiting and crashes included.
THEOREM RequestsAdvance ==
  Spec => [][/\ \E r \in Request : StepsLeft(r)' < StepsLeft(r)
             /\ \A r \in Request : StepsLeft(r)' <= StepsLeft(r) /\ StepsLeft(r)' >= 0]_vars
<1> DEFINE Down == /\ \E r \in Request : StepsLeft(r)' < StepsLeft(r)
                   /\ \A r \in Request : StepsLeft(r)' <= StepsLeft(r) /\ StepsLeft(r)' >= 0
<1>1. TypeOK /\ CostsBounded /\ [Next]_vars => [Down]_vars
  <2> SUFFICES ASSUME TypeOK, CostsBounded, Next, vars' # vars PROVE Down
    OBVIOUS
  <2>0. \A r \in Request : StepsLeft(r) \in Int /\ StepsLeft(r)' \in Int /\ StepsLeft(r)' >= 0
    <3>1. TypeOK' /\ CostsBounded'
      BY TypeNext, CostsNext
    <3>2. ASSUME TypeOK, CostsBounded, NEW r \in Request
          PROVE  StepsLeft(r) \in Nat
      BY <3>2, CostAssumption DEF TypeOK, CostsBounded, StepsLeft, StepsAhead, Stages
    <3>3. \A r \in Request : StepsLeft(r) \in Nat /\ StepsLeft(r)' \in Nat
      BY <3>1, CostAssumption DEF TypeOK, CostsBounded, StepsLeft, StepsAhead, Stages
    <3> QED
      BY <3>3
  <2>1. CASE Crash
    <3> USE <2>1 DEF Crash, StepsLeft, meterVars, TypeOK, CostsBounded, StepsAhead, Stages
    <3>1. PICK s \in Request : UnderWay(s)
      BY DEF UnderWay
    <3>2. StepsLeft(s)' < StepsLeft(s)
      BY <3>1, CostAssumption DEF UnderWay
    <3>3. \A r \in Request : StepsLeft(r)' <= StepsLeft(r)
      BY CostAssumption
    <3> QED
      BY <3>2, <3>3, <2>0
  <2>2. ASSUME NEW s \in Request, Proceed(s) PROVE Down
    <3>1. StepsLeft(s)' < StepsLeft(s) /\ \A r \in Request \ {s} : StepsLeft(r)' = StepsLeft(r)
      BY <2>2, StepCounts
    <3> HIDE DEF StepsLeft
    <3> QED
      BY <3>1, <2>0
  <2> QED
    BY <2>1, <2>2 DEF Next, Finished
<1> QED
  BY <1>1, TypeInit, TypeNext, CostsInit, CostsNext, PTL DEF Spec

-----------------------------------------------------------------------------
(***************************************************************************)
(* The adapter that requests share counts exactly as long as those who     *)
(* share it are requests of one user: the lock of the user's row keeps     *)
(* them apart.                                                             *)
(***************************************************************************)

OnPlatform(r) == mode[r] # "byok"
OneUserOnPlatform ==
  \A r, s \in Request : OnPlatform(r) /\ OnPlatform(s) => Owner[r] = Owner[s]

PlatformTracksCost ==
  \A r \in Request : OnPlatform(r) =>
    /\ stage[r] \in {"arrived", "admitting", "creating", "starting"} => cost[r] = 0
    /\ stage[r] \in {"running", "calling"} => cumulative[Platform] = cost[r]
    /\ stage[r] = "calling" => read[r] = cost[r]
    /\ stage[r] \in {"returned", "done", "unpaid"} \union SecondTransaction
         => usage[r] = cost[r]

PlatformInv == OneUserOnPlatform => PlatformTracksCost

LEMMA PlatformInit == Init => PlatformInv
BY DEF Init, PlatformInv, PlatformTracksCost

\* a request that writes the shared adapter is the only one that reads it
LEMMA PlatformIsExclusive ==
  ASSUME LedgerInv, OneUserOnPlatform,
         NEW r \in Request, stage[r] \in FirstTransaction, OnPlatform(r),
         NEW s \in Request, stage[s] \in FirstTransaction, OnPlatform(s)
  PROVE  r = s
<1>1. userLock[Owner[r]] = r /\ userLock[Owner[s]] = s
  BY DEF LedgerInv, LocksHeld
<1> QED
  BY <1>1 DEF OneUserOnPlatform

LEMMA PlatformNext == LedgerInv /\ PlatformInv /\ [Next]_vars => PlatformInv'
<1> SUFFICES ASSUME LedgerInv, PlatformInv, [Next]_vars, OneUserOnPlatform'
             PROVE  PlatformTracksCost'
  BY DEF PlatformInv
<1>a. TypeOK
  BY DEF LedgerInv
<1>b. mode' = mode
  BY DEF Next, Proceed, Works, Authenticate, CheckBudget, CreateRow, InsertCollides, StartRun, CallReads,
         CallWrites, TakeUsage, StoreRun, RecordUsage, OpenRow, Charge, Fails, Rollback,
         Crash, Finished, vars
<1>c. OneUserOnPlatform /\ PlatformTracksCost
  BY <1>b DEF PlatformInv, OneUserOnPlatform, OnPlatform
<1>d. \A r, s \in Request :
        /\ stage[r] \in FirstTransaction /\ OnPlatform(r)
        /\ stage[s] \in FirstTransaction /\ OnPlatform(s)
        => r = s
  BY <1>c, PlatformIsExclusive
<1> USE <1>a, <1>b, <1>c, RequestAssumption, CostAssumption
    DEF TypeOK, OnPlatform, PlatformTracksCost
<1>1. CASE UNCHANGED vars
  BY <1>1 DEF vars, meterVars
<1>2. CASE Crash
  BY <1>2 DEF Crash
<1>3. ASSUME NEW r \in Request, Proceed(r) PROVE PlatformTracksCost'
  <2> USE DEF Advance, Insert, meterVars, GatewayOf, Gateways
  <2>1. CASE Authenticate(r)
    BY <2>1 DEF Authenticate
  <2>2. CASE CheckBudget(r)
    BY <2>2 DEF CheckBudget
  <2>3. CASE CreateRow(r)
    BY <2>3 DEF CreateRow
  <2>4. CASE InsertCollides(r)
    BY <2>4 DEF InsertCollides
  <2>5. CASE StartRun(r)
    BY <2>5, <1>d DEF StartRun
  <2>6. CASE CallReads(r)
    BY <2>6, <1>d DEF CallReads
  <2>7. CASE CallWrites(r)
    BY <2>7, <1>d DEF CallWrites
  <2>8. CASE TakeUsage(r)
    BY <2>8 DEF TakeUsage
  <2>9. CASE StoreRun(r)
    BY <2>9 DEF StoreRun
  <2>10. CASE RecordUsage(r)
    BY <2>10 DEF RecordUsage
  <2>11. CASE OpenRow(r)
    BY <2>11 DEF OpenRow
  <2>12. CASE Charge(r)
    BY <2>12 DEF Charge
  <2>13. CASE Fails(r)
    BY <2>13 DEF Fails
  <2>14. CASE Rollback(r)
    BY <2>14 DEF Rollback
  <2> QED
    BY <1>3, <2>1, <2>2, <2>3, <2>4, <2>5, <2>6, <2>7, <2>8,
       <2>9, <2>10, <2>11, <2>12, <2>13, <2>14, Zenon DEF Proceed, Works
<1> QED
  BY <1>1, <1>2, <1>3 DEF Next, Finished

\* As long as only one user's requests use the platform's adapter, the usage of
\* every answered run is the cost of its own calls: it is two users, not two
\* requests, that the shared adapter mixes up.
THEOREM OneUserIsMeteredExactly == Spec => [](OneUserOnPlatform => UsageIsOwn)
<1>1. PlatformInv /\ MeterInv => (OneUserOnPlatform => UsageIsOwn)
  BY DEF PlatformInv, PlatformTracksCost, OnPlatform, MeterInv, OwnAdapterExact, UsageIsOwn
<1> QED
  BY <1>1, PlatformInit, PlatformNext, LedgerAlways, MeterInit, MeterNext, PTL DEF Spec

-----------------------------------------------------------------------------
(***************************************************************************)
(* The cap.  NoConcurrentOverspend fails because check_budget reads a      *)
(* balance that misses the runs that are stored and not yet charged.       *)
(* Where every charge is committed before the user's next run is admitted, *)
(* and nobody else's run adds to the platform's adapter, the cap holds but *)
(* for the last run.                                                       *)
(***************************************************************************)

Capped(a) == {r \in Request : Owner[r] = a /\ mode[r] = "default"}

ChargedBeforeTheNext ==
  \A a \in Account : \A r, s \in Capped(a) :
    stage[r] \in FirstTransaction => stage[s] \notin SecondTransaction

WithinCap ==
  OneUserOnPlatform /\ EnforceCap =>
    \A a \in Account : balance[a]["default"] < CreditLimit + MaxRunCost

\* past check_budget, and not yet charged or given up
Admitted == {"starting", "running", "calling", "returned", "recording", "opening", "charging"}

CapInv ==
  OneUserOnPlatform /\ EnforceCap => \A a \in Account :
    /\ balance[a]["default"] < CreditLimit + MaxRunCost
    /\ \A r \in Capped(a) : stage[r] \in Admitted => balance[a]["default"] < CreditLimit
    /\ \A r, s \in Capped(a) :
         stage[r] \in SecondTransaction /\ stage[s] \in SecondTransaction => r = s

LEMMA CapInit == Init => CapInv
<1> SUFFICES ASSUME Init PROVE CapInv
  OBVIOUS
<1>1. \A a \in Account : balance[a]["default"] = 0
  BY DEF Init, Columns
<1>2. \A a \in Account : \A r \in Capped(a) : stage[r] = "arrived"
  BY DEF Init, Capped
<1> QED
  BY <1>1, <1>2, CostAssumption DEF CapInv, Admitted

LEMMA CapNext ==
  LedgerInv /\ PlatformInv /\ CostsBounded /\ ChargedBeforeTheNext /\ CapInv /\ [Next]_vars => CapInv'
<1> SUFFICES ASSUME LedgerInv, PlatformInv, CostsBounded, ChargedBeforeTheNext, CapInv,
                    [Next]_vars, OneUserOnPlatform', EnforceCap,
                    NEW a \in Account
             PROVE  /\ balance'[a]["default"] < CreditLimit + MaxRunCost
                    /\ \A r \in Capped(a)' : stage'[r] \in Admitted => balance'[a]["default"] < CreditLimit
                    /\ \A r, s \in Capped(a)' :
                         stage'[r] \in SecondTransaction /\ stage'[s] \in SecondTransaction => r = s
  BY DEF CapInv
<1>a. TypeOK
  BY DEF LedgerInv
<1>b. mode' = mode
  BY DEF Next, Proceed, Works, Authenticate, CheckBudget, CreateRow, InsertCollides, StartRun, CallReads,
         CallWrites, TakeUsage, StoreRun, RecordUsage, OpenRow, Charge, Fails, Rollback,
         Crash, Finished, vars
<1>c. OneUserOnPlatform /\ Capped(a)' = Capped(a)
  BY <1>b DEF OneUserOnPlatform, OnPlatform, Capped
<1>d. /\ balance[a]["default"] < CreditLimit + MaxRunCost
      /\ \A r \in Capped(a) : stage[r] \in Admitted => balance[a]["default"] < CreditLimit
      /\ \A r, s \in Capped(a) :
           stage[r] \in SecondTransaction /\ stage[s] \in SecondTransaction => r = s
  BY <1>c DEF CapInv
<1>e. \A r, s \in Capped(a) : stage[r] \in FirstTransaction => stage[s] \notin SecondTransaction
  BY DEF ChargedBeforeTheNext
<1>f. balance[a]["default"] \in Nat /\ CreditLimit \in Nat /\ CreditLimit > 0 /\ MaxRunCost \in Nat
  BY <1>a, CostAssumption DEF TypeOK, Columns
\* a step without a charge admits only requests it finds below the limit, and brings
\* at most one request into its second transaction
<1>1. ASSUME balance' = balance,
             \A r \in Capped(a) : stage'[r] \in Admitted =>
               stage[r] \in Admitted \/ balance[a]["default"] < CreditLimit,
             \A r \in Capped(a) : stage'[r] \in SecondTransaction =>
               \/ stage[r] \in SecondTransaction
               \/ /\ stage[r] \in FirstTransaction
                  /\ \A s \in Request \ {r} : stage'[s] = stage[s]
      PROVE  /\ balance'[a]["default"] < CreditLimit + MaxRunCost
             /\ \A r \in Capped(a) : stage'[r] \in Admitted => balance'[a]["default"] < CreditLimit
             /\ \A r, s \in Capped(a) :
                  stage'[r] \in SecondTransaction /\ stage'[s] \in SecondTransaction => r = s
  <2>1. ASSUME NEW r \in Capped(a), NEW s \in Capped(a), r # s,
               stage'[r] \in SecondTransaction, stage'[s] \in SecondTransaction
        PROVE  FALSE
    <3>1. r \in Request /\ s \in Request
      BY DEF Capped
    <3>2. CASE stage[r] \in SecondTransaction /\ stage[s] \in SecondTransaction
      BY <2>1, <3>2, <1>d
    <3>3. CASE stage[r] \notin SecondTransaction
      <4>1. stage[r] \in FirstTransaction /\ stage[s] \in SecondTransaction
        BY <1>1, <2>1, <3>1, <3>3
      <4> QED
        BY <4>1, <1>e
    <3>4. CASE stage[s] \notin SecondTransaction
      <4>1. stage[s] \in FirstTransaction /\ stage[r] \in SecondTransaction
        BY <1>1, <2>1, <3>1, <3>4
      <4> QED
        BY <4>1, <1>e
    <3> QED
      BY <3>2, <3>3, <3>4
  <2> QED
    BY <1>1, <1>d, <2>1
<1>2. CASE UNCHANGED vars
  <2>1. balance' = balance /\ stage' = stage
    BY <1>2 DEF vars, ledgerVars
  <2> QED
    BY <1>c, <1>d, <2>1
<1>3. CASE Crash
  <2>1. \A r \in Request : stage'[r] \in Final \union {"arrived"}
    BY <1>3, <1>a DEF Crash, TypeOK, Stages
  <2> QED
    BY <1>1, <1>3, <2>1 DEF Crash, ledgerVars, Admitted, Capped
<1>4. ASSUME NEW r \in Request, Proceed(r)
      PROVE  /\ balance'[a]["default"] < CreditLimit + MaxRunCost
             /\ \A s \in Capped(a) : stage'[s] \in Admitted => balance'[a]["default"] < CreditLimit
             /\ \A t, s \in Capped(a) :
                  stage'[t] \in SecondTransaction /\ stage'[s] \in SecondTransaction => t = s
  <2>0. stage \in [Request -> Stages] /\ (r \in Capped(a) <=> Owner[r] = a /\ mode[r] = "default")
    BY <1>a DEF TypeOK, Capped
  \* a step of r that charges nothing
  <2>1. ASSUME balance' = balance, \E to : stage' = [stage EXCEPT ![r] = to],
               r \in Capped(a) /\ stage'[r] \in Admitted =>
                 stage[r] \in Admitted \/ balance[a]["default"] < CreditLimit,
               stage'[r] \in SecondTransaction =>
                 stage[r] \in FirstTransaction \union SecondTransaction
        PROVE  /\ balance'[a]["default"] < CreditLimit + MaxRunCost
               /\ \A s \in Capped(a) : stage'[s] \in Admitted => balance'[a]["default"] < CreditLimit
               /\ \A t, s \in Capped(a) :
                    stage'[t] \in SecondTransaction /\ stage'[s] \in SecondTransaction => t = s
    <3>1. \A s \in Request \ {r} : stage'[s] = stage[s]
      BY <2>0, <2>1
    <3>2. Capped(a) \subseteq Request
      BY DEF Capped
    <3>3. \A s \in Capped(a) : stage'[s] \in Admitted =>
            stage[s] \in Admitted \/ balance[a]["default"] < CreditLimit
      BY <2>1, <3>1, <3>2
    <3>4. \A s \in Capped(a) : stage'[s] \in SecondTransaction =>
            \/ stage[s] \in SecondTransaction
            \/ /\ stage[s] \in FirstTransaction
               /\ \A t \in Request \ {s} : stage'[t] = stage[t]
      BY <2>1, <3>1, <3>2
    <3> QED
      BY <1>1, <2>1, <3>3, <3>4
  <2>2. CASE CheckBudget(r)
    <3>1. \E to \in {"starting", "failing", "creating"} : stage' = [stage EXCEPT ![r] = to]
      BY <2>2 DEF CheckBudget, Advance
    <3>2. r \in Capped(a) /\ stage'[r] = "starting" => balance[a]["default"] < CreditLimit
      BY <2>0, <2>2 DEF CheckBudget, Advance
    <3>3. stage'[r] \in {"starting", "failing", "creating"} /\ balance' = balance
      BY <2>0, <2>2, <3>1 DEF CheckBudget, ledgerVars
    <3> QED
      BY <2>1, <3>1, <3>2, <3>3 DEF Admitted
  <2>3. CASE CreateRow(r)
    <3>1. /\ stage' = [stage EXCEPT ![r] = "starting"] /\ balance' = balance
          /\ ~known[Owner[r]]
      BY <2>3 DEF CreateRow, Insert, Advance, ledgerVars
    <3>2. r \in Capped(a) => balance[a]["default"] = 0
      BY <2>0, <3>1 DEF LedgerInv, RowsOpened, Columns
    <3>3. stage'[r] = "starting"
      BY <2>0, <3>1
    <3> QED
      BY <2>1, <3>1, <3>2, <3>3, <1>f
  <2>4. CASE \/ Authenticate(r) \/ InsertCollides(r) \/ StartRun(r) \/ CallReads(r) \/ CallWrites(r)
             \/ TakeUsage(r) \/ StoreRun(r) \/ RecordUsage(r) \/ OpenRow(r) \/ Fails(r) \/ Rollback(r)
    <3>1. /\ balance' = balance /\ \E to : stage' = [stage EXCEPT ![r] = to]
          /\ stage'[r] \in Admitted => stage[r] \in Admitted
          /\ stage'[r] \in SecondTransaction =>
                 stage[r] \in FirstTransaction \union SecondTransaction
      BY <2>0, <2>4
         DEF Authenticate, InsertCollides, StartRun, CallReads, CallWrites, TakeUsage, StoreRun,
             RecordUsage, OpenRow, Insert, Fails, Rollback, Advance, ledgerVars, Admitted
    <3> QED
      BY <2>1, <3>1
  <2>5. CASE Charge(r)
    <3>1. /\ stage[r] = "charging" /\ stage' = [stage EXCEPT ![r] = "done"]
          /\ balance' = [balance EXCEPT ![Owner[r]][Column(r)] = read[r] + usage[r]]
      BY <2>5 DEF Charge, Advance
    <3>2. /\ stage'[r] = "done" /\ \A s \in Request \ {r} : stage'[s] = stage[s]
      BY <2>0, <3>1
    <3>3. CASE r \notin Capped(a)
      <4>1. balance'[a]["default"] = balance[a]["default"]
        BY <1>a, <2>0, <3>1, <3>3, RequestAssumption DEF TypeOK, Column, Columns
      <4>2. \A s \in Capped(a) : stage'[s] = stage[s]
        BY <3>2, <3>3 DEF Capped
      <4> QED
        BY <1>d, <4>1, <4>2
    <3>4. CASE r \in Capped(a)
      <4>1. read[r] = balance[a]["default"] /\ balance[a]["default"] < CreditLimit
        BY <1>d, <2>0, <3>1, <3>4 DEF LedgerInv, ReadIsCurrent, Column, Admitted
      <4>2. usage[r] = cost[r] /\ cost[r] <= MaxRunCost /\ cost[r] \in Nat
        BY <1>a, <1>c, <2>0, <3>1, <3>4
           DEF PlatformInv, PlatformTracksCost, OnPlatform, CostsBounded, TypeOK
      <4>3. balance'[a]["default"] = read[r] + usage[r]
        BY <1>a, <2>0, <3>1, <3>4 DEF TypeOK, Column, Columns
      <4>4. \A s \in Capped(a) : stage'[s] \notin Admitted /\ stage'[s] \notin SecondTransaction
        <5> SUFFICES ASSUME NEW s \in Capped(a), s # r
                     PROVE  stage[s] \notin FirstTransaction \union SecondTransaction
          BY <3>2 DEF Capped, Admitted
        <5>1. stage[s] \notin SecondTransaction
          BY <1>d, <3>1, <3>4
        <5>2. stage[s] \notin FirstTransaction
          BY <1>e, <3>1, <3>4
        <5> QED
          BY <5>1, <5>2
      <4> QED
        BY <1>f, <4>1, <4>2, <4>3, <4>4
    <3> QED
      BY <3>3, <3>4
  <2> QED
    BY <1>4, <2>2, <2>3, <2>4, <2>5 DEF Proceed, Works
<1> QED
  BY <1>2, <1>3, <1>4, <1>c DEF Next, Finished

\* A user whose runs are each charged before the next is admitted goes over the limit
\* by the last run at most, failures and crashes included, as long as nobody else's
\* runs are counted by the adapter they use: what README.md:59 says of concurrent
\* requests (and run_metering_overspend refutes) is true of those that are not.
THEOREM SequentialUseIsCapped == Spec /\ []ChargedBeforeTheNext => []WithinCap
<1>1. CapInv => WithinCap
  BY DEF CapInv, WithinCap
<1> QED
  BY <1>1, PlatformInit, PlatformNext, LedgerAlways, CostsInit, CostsNext, TypeInit, TypeNext,
     CapInit, CapNext, PTL DEF Spec
=============================================================================
