-------------------------- MODULE OrderFlowProofs --------------------------
(***************************************************************************)
(* What OrderFlow guarantees for every number of requests, users, worker   *)
(* slots, units and attempts, and whatever faults happen.                  *)
(***************************************************************************)
EXTENDS OrderFlowInv, FiniteSetTheorems, TLAPS

USE RequestAssumption, StockAssumption, QueueAssumption
USE DEF vars, redisVars, dbVars, apiVars, workerVars, Goto, WGoto, WIdle, WUser

-----------------------------------------------------------------------------
(* The scripts, the queue operations and the transaction, one by one *)

\* A script keeps the keys well-typed, and a lock goes on proving that the
\* unit of its token was taken: whatever restores a unit drops that lock too.
LEMMA ScriptsAreSafe ==
  ASSUME RedisTypeOK, LockProvesClaim, NEW r \in Requests,
         \/ GatekeeperScript(r) \/ CompensateScript(r)
         \/ CompensateIfReservedScript(r) \/ CompensateOnceScript(r)
         \/ ReleaseLockScript(r)
  PROVE  RedisTypeOK' /\ LockProvesClaim'
<1> USE DEF RedisTypeOK, Restore, CompareAndDelete, GatekeeperScript, CompensateScript,
            CompensateIfReservedScript, CompensateOnceScript, ReservationProved, GuardTaken,
            ReleaseLockScript
<1>1. seeded' \in BOOLEAN
  BY Zenon
<1>2. counter' \in Nat
  BY DEF Verdict
<1>3. lock' \in [Users -> Requests \cup {None}]
  OBVIOUS
<1>4. bought' \subseteq Users /\ guard' \subseteq Requests /\ claims' \subseteq Requests
  OBVIOUS
<1>5. ASSUME NEW u \in Users, lock'[u] # None
      PROVE  lock'[u] \in claims' /\ UserOf[lock'[u]] = u
  <2>1. CASE u = UserOf[r]
    BY <1>5, <2>1 DEF LockProvesClaim
  <2>2. CASE u # UserOf[r]
    <3>1. lock'[u] = lock[u] /\ lock[u] # r
      BY <1>5, <2>2 DEF LockProvesClaim
    <3>2. claims \ {r} \subseteq claims'
      OBVIOUS
    <3> QED
      BY <1>5, <3>1, <3>2 DEF LockProvesClaim
  <2> QED
    BY <2>1, <2>2
<1> QED
  BY <1>1, <1>2, <1>3, <1>4, <1>5 DEF LockProvesClaim

\* Each BullMQ operation leaves every slot a job, filed under its own user.
LEMMA AddIsTyped ==
  ASSUME QueueTypeOK, JobsFiled, NEW r \in Requests, AddJob(r)
  PROVE  QueueTypeOK' /\ JobsFiled'
BY DEF QueueTypeOK, JobsFiled, Job, JobStates, NoJob, AddJob

\* ... as does anything that replaces a job and keeps its token.
LEMMA JobReplaced ==
  ASSUME QueueTypeOK, JobsFiled, NEW u \in Users, NEW new \in Job,
         job' = [job EXCEPT ![u] = new],
         job[u].state # "none", new.token = job[u].token
  PROVE  QueueTypeOK' /\ JobsFiled'
BY DEF QueueTypeOK, JobsFiled

LEMMA WorkerOpsAreTyped ==
  ASSUME QueueTypeOK, JobsFiled, NEW w \in Workers, NEW u \in Users, NEW made \in Nat,
         TakeJob(w, u) \/ CompleteJob(w, u) \/ FailJob(w, u, made)
  PROVE  QueueTypeOK' /\ JobsFiled'
<1>1. job[u] \in Job
  BY DEF QueueTypeOK
<1>2. CASE TakeJob(w, u)
  <2> DEFINE new == [job[u] EXCEPT !.state = "active", !.owner = w]
  <2>1. new \in Job /\ new.token = job[u].token
    BY <1>1 DEF Job, JobStates
  <2>2. job[u].state # "none" /\ job' = [job EXCEPT ![u] = new]
    BY <1>2 DEF TakeJob
  <2> QED
    BY <2>1, <2>2, JobReplaced
<1>3. CASE CompleteJob(w, u) /\ Owns(w, u)
  <2> DEFINE new == [job[u] EXCEPT !.state = "completed", !.owner = None]
  <2>1. new \in Job /\ new.token = job[u].token
    BY <1>1 DEF Job, JobStates
  <2>2. job[u].state # "none" /\ job' = [job EXCEPT ![u] = new]
    BY <1>3 DEF CompleteJob, Owns
  <2> QED
    BY <2>1, <2>2, JobReplaced
<1>4. CASE FailJob(w, u, made) /\ Owns(w, u)
  <2> DEFINE after == StateAfterFailure(made)
             more == made + 1
             new == [job[u] EXCEPT !.state = after, !.made = more, !.owner = None]
  <2>1. after \in JobStates /\ more \in Nat
    BY DEF StateAfterFailure, JobStates
  <2>2. job[u].state # "none" /\ job' = [job EXCEPT ![u] = new]
    BY <1>4 DEF FailJob, Owns
  <2> HIDE DEF after, more
  <2>3. new \in Job /\ new.token = job[u].token
    BY <1>1, <2>1 DEF Job
  <2> QED
    BY <2>2, <2>3, JobReplaced
<1>5. CASE ~Owns(w, u) /\ ~TakeJob(w, u)
  BY <1>5 DEF CompleteJob, FailJob, QueueTypeOK, JobsFiled
<1> QED
  BY <1>2, <1>3, <1>4, <1>5

LEMMA QueueTimeIsTyped ==
  ASSUME QueueTypeOK, JobsFiled, NEW u \in Users,
         PromoteJob(u) \/ RecoverJob(u) \/ TrimJob(u)
  PROVE  QueueTypeOK' /\ JobsFiled'
<1>1. job[u] \in Job
  BY DEF QueueTypeOK
<1>2. CASE PromoteJob(u)
  <2> DEFINE new == [job[u] EXCEPT !.state = "waiting"]
  <2>1. new \in Job /\ new.token = job[u].token
    BY <1>1 DEF Job, JobStates
  <2>2. job[u].state # "none" /\ job' = [job EXCEPT ![u] = new]
    BY <1>2 DEF PromoteJob
  <2> QED
    BY <2>1, <2>2, JobReplaced
<1>3. CASE RecoverJob(u)
  <2> DEFINE after == StateAfterStall(u)
             more == job[u].stalled + 1
             new == [job[u] EXCEPT !.state = after, !.stalled = more, !.owner = None]
  <2>1. after \in JobStates /\ more \in Nat
    BY <1>1 DEF StateAfterStall, JobStates, Job
  <2>2. job[u].state # "none" /\ job' = [job EXCEPT ![u] = new]
    BY <1>3 DEF RecoverJob
  <2> HIDE DEF after, more
  <2>3. new \in Job /\ new.token = job[u].token
    BY <1>1, <2>1 DEF Job
  <2> QED
    BY <2>2, <2>3, JobReplaced
<1>4. CASE TrimJob(u)
  BY <1>4 DEF TrimJob, QueueTypeOK, JobsFiled, Job, JobStates, NoJob
<1> QED
  BY <1>2, <1>3, <1>4

-----------------------------------------------------------------------------
(* The steps of one request, of one worker slot, and of time *)

\* Nothing createOrder does disturbs what the worker and the database keep.
LEMMA ApiStep ==
  ASSUME PathInvariant, NEW r \in Requests, ApiNext(r)
  PROVE  PathInvariant' /\ UNCHANGED <<dbVars, bought>>
<1> USE DEF PathInvariant, TypeOK, ApiNext, CallGatekeeper, GatekeeperReplyLost, GatekeeperNotRun,
            GatekeeperResent, GatekeeperRunsAgain, CompensateIfReserved, Enqueue, EnqueueFails,
            VerifyStoredJob, ReadJobFails, Compensate, CompensationResent, CompensationFails,
            Compensating, ApiCrash
<1>1. RedisTypeOK' /\ LockProvesClaim'
  BY ScriptsAreSafe DEF RedisTypeOK, LockProvesClaim
<1>2. QueueTypeOK' /\ JobsFiled'
  BY AddIsTyped DEF QueueTypeOK, JobsFiled
<1>3. UNCHANGED <<dbVars, wpc, wtok, wmade>>
  OBVIOUS
<1>4. pc' \in [Requests -> {"idle"} \cup Pending \cup Answers]
  BY DEF Pending, Answers, AfterVerdict, AfterCompensation, Verdict
<1>5. bought' = bought
  BY DEF GatekeeperScript, CompensateScript, CompensateIfReservedScript, ReservationProved
<1>6. DBTypeOK' /\ TokensKnown' /\ RowIsLocked' /\ MarksAnOrder'
  BY <1>3 DEF DBTypeOK, TokensKnown, RowIsLocked, MarksAnOrder, Ordered
<1>7. OneOrderPerUser'
  BY <1>3 DEF OneOrderPerUser
<1> QED
  BY <1>1, <1>2, <1>3, <1>4, <1>5, <1>6, <1>7

\* A worker slot changes stock and orders by a whole sale only, and sets no flag
\* without an order.
LEMMA WorkerStep ==
  ASSUME PathInvariant, NEW w \in Workers, WorkerNext(w)
  PROVE  /\ PathInvariant'
         /\ remaining' + Cardinality(orders') = remaining + Cardinality(orders)
         /\ BoughtMeansOrdered => BoughtMeansOrdered'
<1> USE DEF PathInvariant, TypeOK, WorkerNext, WorkerTake, BeginTransaction, BeginFails,
            UpdateStock, UpdateSoldOut, InsertOrder, InsertViolatesUnique, CommitOrder,
            CommitReplyLost, TransactionFails, CompensateOnce, CompensateOnceFails, ThrowToQueue,
            MarkBought, ReleaseInFlightLock, PostCommitFails, ReturnToQueue, WorkerCrash
<1>1. RedisTypeOK' /\ LockProvesClaim'
  <2>1. CASE CompensateOnce(w) \/ ReleaseInFlightLock(w)
    BY <2>1, ScriptsAreSafe DEF TokensKnown
  <2>2. CASE MarkBought(w)
    BY <2>2 DEF RedisTypeOK, LockProvesClaim, MarkBoughtCommand, TokensKnown
  <2>3. CASE UNCHANGED redisVars
    BY <2>3 DEF RedisTypeOK, LockProvesClaim
  <2> QED
    BY <2>1, <2>2, <2>3
<1>2. QueueTypeOK' /\ JobsFiled'
  <2>1. CASE \E u \in Users : WorkerTake(w, u)
    BY <2>1, WorkerOpsAreTyped
  <2>2. CASE ThrowToQueue(w) \/ ReturnToQueue(w)
    BY <2>2, WorkerOpsAreTyped DEF TokensKnown
  <2>3. CASE UNCHANGED job
    BY <2>3 DEF QueueTypeOK, JobsFiled
  <2> QED
    BY <2>1, <2>2, <2>3
<1>3. DBTypeOK'
  BY DEF DBTypeOK, TokensKnown, RowIsLocked, DecrementRow, CommitOrderRow, RollbackTransaction
<1>4. wpc' \in [Workers -> WorkerStates]
  BY DEF WorkerStates, AfterTransientError
<1>5. wtok' \in [Workers -> Requests \cup {None}] /\ TokensKnown'
  <2>1. CASE \E u \in Users : WorkerTake(w, u)
    <3>1. PICK u \in Users : WorkerTake(w, u)
      BY <2>1
    <3>2. job[u].token \in Requests
      BY <3>1 DEF JobsFiled, TakeJob
    <3> QED
      BY <3>1, <3>2 DEF TokensKnown
  <2>2. CASE WIdle(w)
    <3>1. wpc'[w] = "idle" /\ \A v \in Workers : v # w => wpc'[v] = wpc[v] /\ wtok'[v] = wtok[v]
      BY <2>2
    <3> QED
      BY <2>2, <3>1 DEF TokensKnown
  <2>3. CASE UNCHANGED wtok /\ wpc[w] # "idle"
    <3>1. \A v \in Workers : v # w => wpc'[v] = wpc[v]
      OBVIOUS
    <3> QED
      BY <2>3, <3>1 DEF TokensKnown
  <2> QED
    BY <2>1, <2>2, <2>3
<1>6. wmade' \in [Workers -> Nat]
  BY DEF QueueTypeOK, Job
<1>7. pc' \in [Requests -> {"idle"} \cup Pending \cup Answers]
  OBVIOUS
<1>8. RowIsLocked'
  BY DEF RowIsLocked, DBTypeOK, DecrementRow, CommitOrderRow, RollbackTransaction, Ordered,
         TokensKnown, InsertAllowed, AfterTransientError
<1>9. \/ UNCHANGED <<remaining, orders>>
      \/ /\ wpc[w] = "commit" /\ wtok[w] \in Requests /\ ~Ordered(WUser(w))
         /\ remaining' = remaining - 1 /\ orders' = orders \cup {wtok[w]}
  BY DEF DecrementRow, RollbackTransaction, CommitOrderRow, TokensKnown, RowIsLocked
<1>10. \A u \in Users : Ordered(u) => Ordered(u)'
  BY <1>9 DEF Ordered
<1>11. MarksAnOrder'
  <2>1. CASE CommitOrder(w)
    BY <1>9, <1>10, <2>1 DEF MarksAnOrder, Ordered, TokensKnown, CommitOrderRow
  <2>2. ASSUME ~CommitOrder(w), NEW v \in Workers, wpc'[v] = "mark"
        PROVE  wpc[v] = "mark" /\ wtok'[v] = wtok[v]
    BY <2>2 DEF AfterTransientError
  <2> QED
    BY <1>10, <2>1, <2>2 DEF MarksAnOrder, TokensKnown
<1>12. remaining' + Cardinality(orders') = remaining + Cardinality(orders)
  <2>1. IsFiniteSet(orders)
    BY FS_Subset DEF DBTypeOK
  <2>2. CASE UNCHANGED <<remaining, orders>>
    BY <2>2
  <2>3. CASE wtok[w] \notin orders /\ remaining' = remaining - 1 /\ orders' = orders \cup {wtok[w]}
    <3>1. Cardinality(orders') = Cardinality(orders) + 1
      BY <2>1, <2>3, FS_AddElement
    <3>2. remaining \in Nat /\ Cardinality(orders) \in Nat
      BY <2>1, FS_CardinalityType DEF DBTypeOK
    <3> QED
      BY <2>3, <3>1, <3>2
  <2> QED
    BY <1>9, <2>2, <2>3 DEF Ordered
<1>13. OneOrderPerUser'
  BY <1>9 DEF OneOrderPerUser, Ordered
<1>14. BoughtMeansOrdered => BoughtMeansOrdered'
  <2>1. \A u \in bought' : u \in bought \/ (wpc[w] = "mark" /\ u = WUser(w))
    BY DEF CompensateOnceScript, GuardTaken, Restore, ReleaseLockScript, MarkBoughtCommand
  <2> QED
    BY <1>10, <2>1 DEF BoughtMeansOrdered, MarksAnOrder, RedisTypeOK, TokensKnown
<1> QED
  BY <1>1, <1>2, <1>3, <1>4, <1>5, <1>6, <1>7, <1>8, <1>11, <1>12, <1>13, <1>14

\* So a worker slot that sells a unit finds one, and sells it once.
LEMMA WorkerWrites ==
  ASSUME WriteInvariant, NEW w \in Workers, WorkerNext(w)
  PROVE  WriteInvariant'
<1>1. PathInvariant' /\ remaining' \in Nat
  BY WorkerStep DEF WriteInvariant, PathInvariant, TypeOK, DBTypeOK
<1>2. remaining' >= 0
  BY <1>1
<1>3. remaining' + Cardinality(orders') = Stock /\ BoughtMeansOrdered'
  BY WorkerStep DEF WriteInvariant, NeverOversold
<1> QED
  BY <1>1, <1>2, <1>3 DEF WriteInvariant, NeverOversold

LEMMA TimeStep ==
  ASSUME PathInvariant, NEW u \in Users, TimeNext(u)
  PROVE  PathInvariant' /\ UNCHANGED <<dbVars, bought>>
<1> USE DEF PathInvariant, TypeOK, TimeNext, BackoffEnds, StalledCheck, LockExpires,
            TrimFinishedJob
<1>1. RedisTypeOK' /\ LockProvesClaim' /\ bought' = bought
  BY DEF RedisTypeOK, LockProvesClaim, LockTimeout
<1>2. QueueTypeOK' /\ JobsFiled'
  BY QueueTimeIsTyped DEF QueueTypeOK, JobsFiled
<1>3. UNCHANGED <<dbVars, pc, workerVars>>
  OBVIOUS
<1>4. DBTypeOK' /\ TokensKnown' /\ RowIsLocked' /\ MarksAnOrder'
  BY <1>3 DEF DBTypeOK, TokensKnown, RowIsLocked, MarksAnOrder, Ordered
<1>5. OneOrderPerUser'
  BY <1>3 DEF OneOrderPerUser
<1> QED
  BY <1>1, <1>2, <1>3, <1>4, <1>5

\* Nor does seeding the counter, with whatever stock.
LEMMA SeedStep ==
  ASSUME PathInvariant, NEW n \in Nat, SeedScript(n),
         UNCHANGED <<job, dbVars, apiVars, workerVars>>
  PROVE  PathInvariant'
<1> USE DEF PathInvariant, TypeOK, SeedScript
<1>1. RedisTypeOK'
  BY DEF RedisTypeOK
<1>2. QueueTypeOK' /\ JobsFiled' /\ DBTypeOK'
  BY DEF QueueTypeOK, JobsFiled, DBTypeOK
<1>3. TokensKnown' /\ RowIsLocked' /\ MarksAnOrder'
  BY DEF TokensKnown, RowIsLocked, MarksAnOrder, Ordered
<1>4. OneOrderPerUser' /\ LockProvesClaim'
  BY DEF OneOrderPerUser, LockProvesClaim
<1> QED
  BY <1>1, <1>2, <1>3, <1>4

LEMMA PathStutters ==
  ASSUME PathInvariant, UNCHANGED vars
  PROVE  PathInvariant'
BY DEF PathInvariant, TypeOK, RedisTypeOK, QueueTypeOK, DBTypeOK, JobsFiled, TokensKnown,
       RowIsLocked, MarksAnOrder, OneOrderPerUser, LockProvesClaim, Ordered

LEMMA PathBegins == Init => PathInvariant
<1> USE DEF Init, RedisInit, QueueInit, DBInit
<1>1. Init => RedisTypeOK
  <2>1. Init => seeded \in BOOLEAN
    BY Zenon
  <2> QED
    BY <2>1 DEF RedisTypeOK
<1>2. Init => QueueTypeOK /\ DBTypeOK
  BY DEF QueueTypeOK, DBTypeOK, Job, NoJob, JobStates
<1>3. Init => TypeOK
  BY <1>1, <1>2 DEF TypeOK, WorkerStates
<1>4. Init => JobsFiled /\ TokensKnown /\ RowIsLocked /\ MarksAnOrder
  BY DEF JobsFiled, TokensKnown, RowIsLocked, MarksAnOrder, NoJob
<1>5. Init => OneOrderPerUser /\ LockProvesClaim
  BY DEF OneOrderPerUser, LockProvesClaim
<1> QED
  BY <1>3, <1>4, <1>5 DEF PathInvariant

\* Whatever fails: the invariant the theorems below rest on.
THEOREM WriteInvariantHolds == Spec => []WriteInvariant
<1>1. Init => WriteInvariant
  BY PathBegins, FS_EmptySet
     DEF WriteInvariant, NeverOversold, BoughtMeansOrdered, Init, RedisInit, DBInit
<1>2. WriteInvariant /\ [Next]_vars => WriteInvariant'
  <2> SUFFICES ASSUME WriteInvariant, [Next]_vars PROVE WriteInvariant'
    OBVIOUS
  <2> USE DEF WriteInvariant
  <2>1. CASE UNCHANGED <<dbVars, bought>> /\ PathInvariant'
    BY <2>1 DEF NeverOversold, BoughtMeansOrdered, Ordered
  <2>2. CASE SeedStock
    <3>1. remaining \in Nat
      BY DEF PathInvariant, TypeOK, DBTypeOK
    <3>2. PathInvariant'
      BY <2>2, <3>1, SeedStep DEF SeedStock
    <3> QED
      BY <2>1, <2>2, <3>2 DEF SeedStock, SeedScript
  <2>3. ASSUME NEW w \in Workers, WorkerNext(w) PROVE WriteInvariant'
    BY <2>3, WorkerWrites
  <2>4. CASE UNCHANGED vars
    BY <2>1, <2>4, PathStutters
  <2> QED
    BY <2>1, <2>2, <2>3, <2>4, ApiStep, TimeStep DEF Next, Rest
<1> QED
  BY <1>1, <1>2, PTL DEF Spec

\* Whatever fails, the state stays well-typed; in particular no counter goes
\* below zero, in Redis or in the database.
THEOREM TypeCorrectness == Spec => []TypeOK
BY WriteInvariantHolds, PTL DEF WriteInvariant, PathInvariant

\* Whatever fails - crashes, redeliveries, lost replies, a job that runs twice -
\* orders and stock of the database always add up: nothing is oversold.
THEOREM NothingOversold == Spec => []NeverOversold
BY WriteInvariantHolds, PTL DEF WriteInvariant, PathInvariant

\* Whatever fails, a user never has two orders for the product.
THEOREM OneOrderEach == Spec => []OneOrderPerUser
BY WriteInvariantHolds, PTL DEF WriteInvariant, PathInvariant

\* Whatever fails, "already purchased" is answered to buyers only.
THEOREM BoughtIsOrdered == Spec => []BoughtMeansOrdered
BY WriteInvariantHolds, PTL DEF WriteInvariant, PathInvariant

\* Whatever fails, the evidence compensate-if-reserved.lua decides by is sound.
THEOREM LockIsEvidence == Spec => []LockProvesClaim
BY WriteInvariantHolds, PTL DEF WriteInvariant, PathInvariant

\* What the scripts do to locks: take a free one, or drop that of their request.
LEMMA ScriptsDropOwnLocks ==
  ASSUME RedisTypeOK, NEW r \in Requests, NEW u \in Users, lock[u] # None,
         \/ GatekeeperScript(r) \/ CompensateScript(r)
         \/ CompensateIfReservedScript(r) \/ CompensateOnceScript(r) \/ ReleaseLockScript(r)
         \/ UNCHANGED lock
  PROVE  lock'[u] = lock[u] \/ lock[u] = r
BY DEF RedisTypeOK, GatekeeperScript, CompensateScript,
       CompensateIfReservedScript, CompensateOnceScript, ReservationProved, GuardTaken,
       ReleaseLockScript, CompareAndDelete, Verdict

\* Whatever fails, a lock goes by time, or because the request or a worker slot
\* that acts for its holder lets it go: never because somebody else does.
THEOREM LocksAreKept == Spec => OnlyHolderUnlocks
<1>1. WriteInvariant /\ [Next]_vars =>
        [\A u \in Users : LET r == lock[u] IN
           r # None /\ lock'[u] # r =>
             \/ UNCHANGED <<pc, wpc>>
             \/ pc'[r] # pc[r]
             \/ \E w \in Workers : wtok[w] = r /\ wpc'[w] # wpc[w]]_vars
  <2> SUFFICES ASSUME WriteInvariant, Next, NEW u \in Users, lock[u] # None, lock'[u] # lock[u]
               PROVE  \/ UNCHANGED <<pc, wpc>>
                      \/ pc'[lock[u]] # pc[lock[u]]
                      \/ \E w \in Workers : wtok[w] = lock[u] /\ wpc'[w] # wpc[w]
    OBVIOUS
  <2> USE DEF WriteInvariant, PathInvariant, TypeOK
  <2>1. ASSUME NEW r \in Requests, ApiNext(r) PROVE lock[u] = r /\ pc'[r] # pc[r]
    <3> USE <2>1 DEF ApiNext, CallGatekeeper, GatekeeperReplyLost, GatekeeperNotRun,
                     GatekeeperResent, GatekeeperRunsAgain, CompensateIfReserved, Enqueue,
                     EnqueueFails, VerifyStoredJob, ReadJobFails, Compensate, CompensationResent,
                     CompensationFails, Compensating, ApiCrash
    <3>1. lock[u] = r
      BY ScriptsDropOwnLocks
    <3>2. pc'[r] # pc[r]
      BY DEF Goto, AfterVerdict, AfterCompensation, Verdict
    <3> QED
      BY <3>1, <3>2
  <2>2. ASSUME NEW w \in Workers, WorkerNext(w) PROVE wtok[w] = lock[u] /\ wpc'[w] # wpc[w]
    <3>1. CASE CompensateOnce(w) \/ ReleaseInFlightLock(w)
      <4>1. wtok[w] \in Requests
        BY <3>1 DEF TokensKnown, CompensateOnce, ReleaseInFlightLock
      <4> QED
        BY <3>1, <4>1, ScriptsDropOwnLocks DEF CompensateOnce, ReleaseInFlightLock, WGoto
    <3>2. CASE UNCHANGED lock
      BY <3>2
    <3> QED
      BY <2>2, <3>1, <3>2 DEF WorkerNext, WorkerTake, BeginTransaction, BeginFails,
         UpdateStock, UpdateSoldOut, InsertOrder, InsertViolatesUnique, CommitOrder,
         CommitReplyLost, TransactionFails, CompensateOnceFails, ThrowToQueue,
         MarkBought, MarkBoughtCommand, PostCommitFails, ReturnToQueue, WorkerCrash
  <2>3. ASSUME SeedStock \/ (\E v \in Users : TimeNext(v)) PROVE UNCHANGED <<pc, wpc>>
    BY <2>3 DEF TimeNext, BackoffEnds, StalledCheck, LockExpires, TrimFinishedJob, SeedStock
  <2>4. ASSUME UNCHANGED vars PROVE FALSE
    BY <2>4
  <2> QED
    BY <2>1, <2>2, <2>3, <2>4 DEF Next, Rest
<1> QED
  BY <1>1, WriteInvariantHolds, PTL DEF Spec, OnlyHolderUnlocks
=============================================================================
