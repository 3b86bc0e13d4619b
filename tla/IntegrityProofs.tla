-------------------------- MODULE IntegrityProofs --------------------------
(***************************************************************************)
(* A "critical" verdict of the integrity check is true, whatever fails in  *)
(* the write path and however its steps fall between the reads; and after  *)
(* the sale the check finds every drift.                                   *)
(***************************************************************************)
EXTENDS IntegrityCheck, OrderFlowProofs

USE RequestAssumption, StockAssumption, QueueAssumption
USE DEF vars, redisVars, dbVars, apiVars, workerVars, WGoto, WIdle, checkVars, allVars

\* A SELECT on the master always balances: with at most one order per user,
\* counting orders and counting buyers is the same.
LEMMA RowBalances ==
  ASSUME WriteInvariant
  PROVE  /\ RowNow.remaining = remaining /\ remaining \in Nat
         /\ RowNow.orders = RowNow.buyers
         /\ Stock - RowNow.remaining = RowNow.orders
         /\ RowNow.orders \in Nat
<1> DEFINE buyers == {UserOf[o] : o \in orders}
           buyer == [o \in orders |-> UserOf[o]]
<1>1. /\ orders \subseteq Requests /\ IsFiniteSet(orders) /\ remaining \in Nat
      /\ remaining + Cardinality(orders) = Stock
      /\ \A a, b \in orders : UserOf[a] = UserOf[b] => a = b
  BY RequestAssumption, FS_Subset DEF WriteInvariant, PathInvariant, TypeOK, DBTypeOK,
                                      NeverOversold, OneOrderPerUser
<1>2. buyer \in Bijection(orders, buyers)
  <2>1. buyer \in [orders -> buyers]
    OBVIOUS
  <2>2. \A a, b \in orders : buyer[a] = buyer[b] => a = b
    BY <1>1
  <2>3. \A u \in buyers : \E o \in orders : buyer[o] = u
    OBVIOUS
  <2> QED
    BY <2>1, <2>2, <2>3 DEF Bijection, Injection, Surjection, IsInjective
<1>3. Cardinality(buyers) = Cardinality(orders) /\ Cardinality(orders) \in Nat
  BY <1>1, <1>2, FS_Bijection, FS_CardinalityType DEF ExistsBijection
<1>4. /\ RowNow.remaining = remaining
      /\ RowNow.orders = Cardinality(orders)
      /\ RowNow.buyers = Cardinality(buyers)
  BY DEF RowNow
<1> QED
  BY <1>1, <1>3, <1>4, StockAssumption

-----------------------------------------------------------------------------
\* No step of the write path puts a unit back into the product row.
LEMMA RowOnlyFalls ==
  ASSUME WriteInvariant, [Next]_vars
  PROVE  remaining' \in Int /\ remaining' <= remaining
<1>1. remaining \in Nat
  BY DEF WriteInvariant, PathInvariant, TypeOK, DBTypeOK
<1>2. ASSUME NEW r \in Requests, ApiNext(r) PROVE remaining' = remaining
  BY <1>2 DEF ApiNext, CallGatekeeper, GatekeeperReplyLost, GatekeeperNotRun, GatekeeperResent,
              GatekeeperRunsAgain, CompensateIfReserved, Enqueue, EnqueueFails, VerifyStoredJob,
              ReadJobFails, Compensate, CompensationResent, CompensationFails, Compensating,
              ApiCrash
<1>3. ASSUME NEW w \in Workers, WorkerNext(w) PROVE remaining' \in {remaining, remaining - 1}
  BY <1>3 DEF WorkerNext, WorkerTake, BeginTransaction, BeginFails, UpdateStock, UpdateSoldOut,
     InsertOrder, InsertViolatesUnique, CommitOrder, CommitReplyLost, TransactionFails,
     CompensateOnce, CompensateOnceFails, ThrowToQueue, MarkBought, ReleaseInFlightLock,
     PostCommitFails, ReturnToQueue, WorkerCrash, DecrementRow, CommitOrderRow,
     RollbackTransaction
<1>4. ASSUME NEW u \in Users, TimeNext(u) PROVE remaining' = remaining
  BY <1>4 DEF TimeNext, BackoffEnds, StalledCheck, LockExpires, TrimFinishedJob
<1>5. CASE SeedStock \/ UNCHANGED vars
  BY <1>1, <1>5 DEF SeedStock
<1> QED
  BY <1>1, <1>2, <1>3, <1>4, <1>5 DEF Next, Rest

\* The check never disturbs the write path: what holds of the path holds here.
LEMMA PathUndisturbed == IntegritySpec => Spec
<1>1. IntegrityInit => Init
  BY DEF IntegrityInit
<1>2. [IntegrityNext]_allVars => [Next]_vars
  BY DEF IntegrityNext, allVars
<1> QED
  BY <1>1, <1>2, PTL DEF IntegritySpec, Spec

LEMMA NoCounterTyped == NoCounter \in Counters /\ FALSE \in BOOLEAN
<1>1. 0 \in Int
  OBVIOUS
<1> QED
  BY <1>1, Zenon DEF NoCounter, Counters

\* Once the sale is over only locks time out and finished jobs go.
LEMMA RestStays ==
  ASSUME PathInvariant, seeded, Quiescent, [Next]_vars
  PROVE  seeded' /\ Quiescent' /\ UNCHANGED <<counter, remaining, orders>>
<1> USE DEF Quiescent, IsLive
<1>1. ~SeedStock
  BY DEF SeedStock
<1>2. ASSUME NEW r \in Requests PROVE ~ApiNext(r)
  BY DEF Answers, Pending, ApiNext, CallGatekeeper, GatekeeperReplyLost, GatekeeperNotRun,
         GatekeeperResent, GatekeeperRunsAgain, CompensateIfReserved, Enqueue, EnqueueFails,
         VerifyStoredJob, ReadJobFails, Compensate, CompensationResent, CompensationFails,
         Compensating, ApiCrash
<1>3. ASSUME NEW w \in Workers PROVE ~WorkerNext(w)
  BY DEF WorkerNext, WorkerTake, TakeJob, BeginTransaction, BeginFails, UpdateStock,
     UpdateSoldOut, InsertOrder, InsertViolatesUnique, CommitOrder, CommitReplyLost,
     TransactionFails, CompensateOnce, CompensateOnceFails, ThrowToQueue, MarkBought,
     ReleaseInFlightLock, PostCommitFails, ReturnToQueue, WorkerCrash
<1>4. ASSUME NEW u \in Users, TimeNext(u)
      PROVE  seeded' /\ Quiescent' /\ UNCHANGED <<counter, remaining, orders>>
  <2>1. UNCHANGED <<seeded, counter, dbVars, pc, workerVars>>
    BY <1>4 DEF TimeNext, BackoffEnds, StalledCheck, LockExpires, TrimFinishedJob, LockTimeout
  <2>2. job' = job \/ job' = [job EXCEPT ![u] = NoJob]
    BY <1>4 DEF TimeNext, BackoffEnds, PromoteJob, StalledCheck, RecoverJob, LockExpires,
       TrimFinishedJob, TrimJob
  <2>3. \A x \in Users : ~IsLive(x)'
    BY <2>2 DEF NoJob, PathInvariant, TypeOK, QueueTypeOK
  <2> QED
    BY <2>1, <2>3
<1>5. CASE UNCHANGED vars
  BY <1>5
<1> QED
  BY <1>1, <1>2, <1>3, <1>4, <1>5 DEF Next, Rest

\* What a check has read stays true of the past until the counter is read.
THEOREM CheckInvariantHolds == IntegritySpec => []CheckInvariant
<1> USE DEF CheckInvariant, CheckTypeOK, RowIsPast, Rows
<1>1. IntegrityInit => CheckInvariant
  <2> USE DEF RestIsSeen
  <2>1. NoCounter \in Counters /\ FALSE \in BOOLEAN
    BY NoCounterTyped
  <2>2. NoRow \in Rows
    BY DEF NoRow
  <2> QED
    BY <2>1, <2>2, Zenon DEF IntegrityInit, CheckInit
<1>2. WriteInvariant /\ CheckInvariant /\ [IntegrityNext]_allVars => CheckInvariant'
  <2> SUFFICES ASSUME WriteInvariant, CheckInvariant, [IntegrityNext]_allVars
               PROVE  CheckInvariant'
    OBVIOUS
  <2>1. CASE [Next]_vars /\ UNCHANGED checkVars
    <3>1. remaining \in Int /\ remaining' \in Int /\ remaining' <= remaining
      BY <2>1, RowOnlyFalls DEF WriteInvariant, PathInvariant, TypeOK, DBTypeOK
    <3>2. RestIsSeen'
      BY <2>1, RestStays DEF RestIsSeen, WriteInvariant, RowNow
    <3> QED
      BY <2>1, <3>1, <3>2
  <2>2. CASE QueryProducts /\ UNCHANGED vars
    <3>1. RowNow \in Rows
      BY RowBalances DEF RowNow
    <3>2. RestIsSeen'
      BY <2>2 DEF QueryProducts, RestIsSeen, RowNow, Quiescent, IsLive
    <3> QED
      BY <2>2, <3>1, <3>2, RowBalances DEF QueryProducts
  <2>3. CASE ReadStockCounters /\ UNCHANGED vars
    <3>1. seeded \in BOOLEAN /\ counter \in Int
      BY DEF WriteInvariant, PathInvariant, TypeOK, RedisTypeOK
    <3>2. [known |-> seeded, value |-> counter] \in Counters /\ NoCounter \in Counters
      BY <3>1, NoCounterTyped, Zenon DEF Counters
    <3>3. RestIsSeen'
      BY <2>3 DEF ReadStockCounters, NoCounter, RestIsSeen, RowNow, Quiescent, IsLive
    <3> QED
      BY <2>3, <3>2, <3>3 DEF ReadStockCounters
  <2>4. CASE (StartCheck \/ QueryFails \/ ReadQueueCounts) /\ UNCHANGED vars
    <3>1. (seeded /\ Quiescent) \in BOOLEAN
      BY Zenon
    <3>2. UNCHANGED <<seeded, Quiescent>> /\ (Quiescent => \A u \in Users : ~IsLive(u))
      BY <2>4 DEF Quiescent, IsLive
    <3>3. CASE StartCheck
      <4>1. resting' => seeded /\ Quiescent
        BY <3>3, Zenon DEF StartCheck
      <4> QED
        BY <3>2, <3>3, <4>1 DEF StartCheck, RestIsSeen
    <3>4. CASE QueryFails \/ ReadQueueCounts
      BY <2>4, <3>2, <3>4 DEF QueryFails, ReadQueueCounts, RestIsSeen, RowNow
    <3>5. RestIsSeen'
      BY <2>4, <3>3, <3>4
    <3> QED
      BY <2>4, <3>1, <3>5 DEF StartCheck, QueryFails, ReadQueueCounts
  <2> QED
    BY <2>1, <2>2, <2>3, <2>4 DEF IntegrityNext, CheckSteps
<1> QED
  BY <1>1, <1>2, PathUndisturbed, WriteInvariantHolds, PTL DEF IntegritySpec

\* Whatever fails, and wherever the reads fall: a critical row means that Redis
\* was ahead of the database when the counter was read.
THEOREM CriticalIsNoFalseAlarm == IntegritySpec => CriticalIsTrue
<1>1. WriteInvariant /\ CheckInvariant /\ [IntegrityNext]_allVars =>
        (stage = "mget" /\ stage' = "read" /\ Critical' => counter > remaining)
  <2> SUFFICES ASSUME WriteInvariant, CheckInvariant, [IntegrityNext]_allVars,
                      stage = "mget", stage' = "read", Critical'
               PROVE  counter > remaining
    OBVIOUS
  <2>1. ReadStockCounters
    BY DEF IntegrityNext, CheckSteps, StartCheck, QueryProducts, QueryFails, ReadQueueCounts,
           checkVars, allVars
  <2>2. row' = row /\ Stock \in Nat
    BY <2>1 DEF ReadStockCounters
  <2>3. redis'.known /\ redis'.value > row.remaining
    BY <2>2 DEF Critical, CheckInvariant, RowIsPast
  <2>4. counter > row.remaining
    BY <2>1, <2>3 DEF ReadStockCounters, NoCounter
  <2>5. counter \in Int /\ remaining \in Int
    BY DEF WriteInvariant, PathInvariant, TypeOK, RedisTypeOK, DBTypeOK
  <2> QED
    BY <2>4, <2>5 DEF CheckInvariant, RowIsPast
<1> QED
  BY <1>1, PathUndisturbed, WriteInvariantHolds, CheckInvariantHolds, PTL DEF IntegritySpec,
                                                                              CriticalIsTrue

\* Whatever failed: a check that begins after the sale and gets its reads through
\* names the drift between Redis and the database as it is.
THEOREM EveryDriftIsFound == IntegritySpec => []DriftFound
<1>1. ASSUME WriteInvariant, CheckInvariant PROVE DriftFound
  <2> SUFFICES ASSUME resting, Reported, redis.known, queue # "unknown"
               PROVE  ProductVerdict = IF counter > remaining THEN "critical"
                                       ELSE IF counter < remaining THEN "warn" ELSE "ok"
    BY DEF DriftFound
  <2>1. row = RowNow /\ redis.value = counter /\ queue = "drained"
    BY <1>1 DEF CheckInvariant, CheckTypeOK, RestIsSeen, Reported
  <2>2. counter \in Int /\ remaining \in Nat
    BY <1>1 DEF WriteInvariant, PathInvariant, TypeOK, RedisTypeOK, DBTypeOK
  <2>3. /\ row.remaining = remaining /\ row.orders = row.buyers
        /\ Stock - row.remaining = row.orders /\ row.orders \in Nat
    BY <1>1, <2>1, RowBalances
  <2>4. Critical <=> counter > remaining
    BY <2>1, <2>2, <2>3 DEF Critical
  <2>5. LeakSuspected <=> counter < remaining
    BY <2>1, <2>2, <2>3 DEF LeakSuspected
  <2> QED
    BY <2>2, <2>4, <2>5 DEF ProductVerdict
<1> QED
  BY <1>1, PathUndisturbed, WriteInvariantHolds, CheckInvariantHolds, PTL
=============================================================================
