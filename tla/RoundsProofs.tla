---------------------------- MODULE RoundsProofs ----------------------------
(***************************************************************************)
(* Rounds of sale with scripts that end anywhere and a Redis that loses    *)
(* its data.  Whatever faults the sale meets, the stock of the database is *)
(* never put up for sale twice.  Without an ambiguous fault, and with      *)
(* redis-data lost at rest only, Redis is never ahead and the scripts seed *)
(* as in one step.  A round in which no call fails sells all that its      *)
(* buyers ask for.                                                         *)
(***************************************************************************)
EXTENDS Rounds, ReservationProofs

USE RequestAssumption, StockAssumption, QueueAssumption
USE DEF vars, redisVars, dbVars, apiVars, workerVars, roundVars, allVars, At, Then, WUser

-----------------------------------------------------------------------------
\* Once all requests are answered and the queue is drained, no slot finds a job ...
LEMMA NoWorkerMoves ==
  ASSUME RoundOver, NEW w \in Workers
  PROVE  ~WorkerNext(w)
BY DEF RoundOver, IsLive, WorkerNext, WorkerTake, TakeJob, BeginTransaction, BeginFails,
   UpdateStock, UpdateSoldOut, InsertOrder, InsertViolatesUnique, CommitOrder, CommitReplyLost,
   TransactionFails, CompensateOnce, CompensateOnceFails, ThrowToQueue, MarkBought,
   ReleaseInFlightLock, PostCommitFails, ReturnToQueue, WorkerCrash

\* ... and no step of time makes one.
LEMMA OverStaysOver ==
  ASSUME PathInvariant, RoundOver, NEW u \in Users, TimeNext(u)
  PROVE  RoundOver'
<1> USE DEF RoundOver, IsLive
<1>1. UNCHANGED <<dbVars, pc, workerVars>>
  BY DEF TimeNext, BackoffEnds, StalledCheck, LockExpires, TrimFinishedJob
<1>2. job' = job \/ job' = [job EXCEPT ![u] = NoJob]
  BY DEF TimeNext, BackoffEnds, PromoteJob, StalledCheck, RecoverJob, LockExpires,
     TrimFinishedJob, TrimJob
<1> QED
  BY <1>1, <1>2 DEF NoJob, PathInvariant, TypeOK, QueueTypeOK

\* The sale, in which a reset sees no request arrive.
LEMMA SaleStep ==
  ASSUME RoundsInvariant, SaleNext
  PROVE  RoundsInvariant'
<1> USE DEF RoundsInvariant
<1>1. RoundsTypeOK' /\ UNCHANGED roundVars
  BY DEF RoundsTypeOK, SaleNext
<1>2. ASSUME NEW r \in Requests, ApiNext(r), script.job # "reset" PROVE RoundsInvariant'
  BY <1>1, <1>2, ApiStep DEF ScriptInvariant, UnitsBounded
<1>3. ASSUME NEW w \in Workers, WorkerNext(w) PROVE RoundsInvariant'
  <2>1. script.job # "reset"
    BY <1>3, NoWorkerMoves DEF ScriptInvariant
  <2>2. script.job = "none" \/ script.step # "rows"
    BY <2>1 DEF ScriptInvariant, RoundsTypeOK, Jobs
  <2> QED
    BY <1>1, <1>3, <2>1, <2>2, WorkerStep DEF ScriptInvariant, UnitsBounded
<1>4. ASSUME NEW u \in Users, TimeNext(u) PROVE RoundsInvariant'
  <2>1. RoundOver => RoundOver'
    BY <1>4, OverStaysOver
  <2> QED
    BY <1>1, <1>4, <2>1, TimeStep DEF ScriptInvariant, UnitsBounded
<1> QED
  BY <1>2, <1>3, <1>4 DEF SaleNext

\* What the scripts and a loss of Redis do to the keys leaves the path sound.
LEMMA KeysGo ==
  ASSUME PathInvariant, QueueTypeOK', JobsFiled', seeded' \in BOOLEAN, counter' \in Nat,
         UNCHANGED <<lock, claims>> \/ lock' = [u \in Users |-> None],
         claims' \subseteq claims, bought' \subseteq bought, guard' \subseteq guard,
         UNCHANGED <<dbVars, apiVars, workerVars>>
  PROVE  PathInvariant'
<1> USE DEF PathInvariant, TypeOK
<1>1. RedisTypeOK' /\ LockProvesClaim'
  BY DEF RedisTypeOK, LockProvesClaim
<1>2. DBTypeOK' /\ TokensKnown' /\ RowIsLocked' /\ MarksAnOrder' /\ OneOrderPerUser'
  BY DEF DBTypeOK, TokensKnown, RowIsLocked, MarksAnOrder, OneOrderPerUser, Ordered
<1> QED
  BY <1>1, <1>2

\* Nor does what a reset does to the database while nobody uses it.
LEMMA RowsGo ==
  ASSUME PathInvariant, RoundOver, remaining' \in Nat, orders' \subseteq orders,
         UNCHANGED <<redisVars, job, rowLock, apiVars, workerVars>>
  PROVE  PathInvariant'
<1> USE DEF PathInvariant, TypeOK
<1>1. rowLock = None /\ \A w \in Workers : wpc[w] = "idle"
  BY DEF RoundOver, RowIsLocked, DBTypeOK
<1>2. RedisTypeOK' /\ LockProvesClaim' /\ QueueTypeOK' /\ JobsFiled'
  BY DEF RedisTypeOK, LockProvesClaim, QueueTypeOK, JobsFiled
<1>3. DBTypeOK' /\ TokensKnown' /\ RowIsLocked' /\ MarksAnOrder' /\ OneOrderPerUser'
  BY <1>1 DEF DBTypeOK, TokensKnown, RowIsLocked, MarksAnOrder, OneOrderPerUser
<1> QED
  BY <1>2, <1>3

\* No script puts up for sale what is sold: when it restores the stock there is
\* no order any more, and nobody makes one.
LEMMA ScriptStep ==
  ASSUME RoundsInvariant, ScriptNext
  PROVE  RoundsInvariant'
<1> USE DEF RoundsInvariant
<1>1. /\ QueueTypeOK /\ JobsFiled /\ seeded \in BOOLEAN /\ counter \in Nat /\ remaining \in Nat
      /\ IsFiniteSet(orders) /\ script \in [job : Jobs, step : Steps] /\ read \in Nat
  BY FS_Subset DEF PathInvariant, TypeOK, RedisTypeOK, DBTypeOK, RoundsTypeOK
<1>2. RoundOver => RoundOver'
  BY DEF ScriptNext, StartBoot, StartSeedRedis, StartReset, DeleteOrders, RestoreRows, DeleteStock,
     DeleteBought, DeleteLocks, DeleteGuards, SeedProducts, SelectRemaining, SeedCounters,
     SeedScript, Done, ScriptFails, RoundOver, IsLive
<1>3. CASE StartBoot \/ StartSeedRedis \/ StartReset \/ SeedProducts \/ SelectRemaining \/ ScriptFails
  <2> USE <1>3 DEF StartBoot, StartSeedRedis, StartReset, SeedProducts, SelectRemaining, ScriptFails
  <2>1. PathInvariant' /\ UNCHANGED vars
    BY PathStutters
  <2>2. fresh' \in BOOLEAN /\ calm' \in BOOLEAN
    BY Zenon DEF RoundsTypeOK
  <2>3. RoundsTypeOK'
    BY <1>1, <2>2 DEF RoundsTypeOK, Jobs, Steps, NoScript
  <2>4. ScriptInvariant'
    BY <1>1, <1>2 DEF ScriptInvariant, NoScript
  <2> QED
    BY <2>1, <2>3, <2>4 DEF UnitsBounded
<1>4. CASE DeleteOrders \/ RestoreRows
  <2> USE <1>4 DEF DeleteOrders, RestoreRows
  <2>1. RoundOver /\ script.job = "reset"
    BY <1>1 DEF ScriptInvariant, Jobs
  <2>2. PathInvariant'
    BY <1>1, <2>1, RowsGo
  <2>3. RoundsTypeOK' /\ ScriptInvariant'
    BY <1>1, <1>2, <2>1 DEF RoundsTypeOK, ScriptInvariant, Jobs, Steps
  <2>4. UnitsBounded'
    <3>1. CASE DeleteOrders
      BY <1>1, <3>1, FS_EmptySet, FS_CardinalityType DEF UnitsBounded
    <3>2. CASE RestoreRows
      BY <3>2, FS_EmptySet DEF UnitsBounded, ScriptInvariant
    <3> QED
      BY <3>1, <3>2
  <2> QED
    BY <2>2, <2>3, <2>4
<1>5. CASE DeleteStock \/ DeleteBought \/ DeleteLocks \/ DeleteGuards
  <2> USE <1>5 DEF DeleteStock, DeleteBought, DeleteLocks, DeleteGuards
  <2>1. QueueTypeOK' /\ JobsFiled' /\ UNCHANGED <<dbVars, apiVars, workerVars>>
    BY <1>1 DEF QueueTypeOK, JobsFiled
  <2>2. seeded' \in BOOLEAN
    BY <1>1, Zenon
  <2>3. PathInvariant'
    BY <1>1, <2>1, <2>2, KeysGo
  <2>4. RoundsTypeOK' /\ ScriptInvariant' /\ UnitsBounded'
    BY <1>1, <1>2 DEF RoundsTypeOK, ScriptInvariant, UnitsBounded, Jobs, Steps
  <2> QED
    BY <2>3, <2>4
<1>6. CASE SeedCounters
  <2> USE <1>6 DEF SeedCounters, Done
  <2>1. PathInvariant'
    BY <1>1, SeedStep
  <2>2. before' \subseteq Requests /\ fresh' \in BOOLEAN
    BY DEF RoundsTypeOK
  <2>3. RoundsTypeOK' /\ ScriptInvariant' /\ UnitsBounded'
    BY <1>1, <2>2 DEF RoundsTypeOK, ScriptInvariant, UnitsBounded, Jobs, Steps, NoScript
  <2> QED
    BY <2>1, <2>3
<1> QED
  BY <1>3, <1>4, <1>5, <1>6 DEF ScriptNext

LEMMA LossStep ==
  ASSUME RoundsInvariant, RedisLost
  PROVE  RoundsInvariant'
<1> USE DEF RoundsInvariant, RedisLost
<1>1. QueueTypeOK' /\ JobsFiled'
  BY DEF QueueTypeOK, JobsFiled, Job, JobStates, NoJob
<1>2. PathInvariant'
  BY <1>1, KeysGo
<1>3. calm' \in BOOLEAN
  BY Zenon DEF RoundsTypeOK
<1>4. RoundsTypeOK' /\ ScriptInvariant' /\ UnitsBounded'
  BY <1>3 DEF RoundsTypeOK, ScriptInvariant, UnitsBounded, RoundOver, IsLive, NoJob
<1> QED
  BY <1>2, <1>4

\* Whatever ends halfway, in PostgreSQL or in Redis, round after round.
THEOREM RoundsInvariantHolds == RoundsSpec => []RoundsInvariant
<1>1. RoundsInit => RoundsInvariant
  <2> SUFFICES ASSUME RoundsInit PROVE RoundsInvariant
    OBVIOUS
  <2> USE DEF RoundsInit
  <2>1. fresh \in BOOLEAN /\ calm \in BOOLEAN
    BY Zenon
  <2>2. RoundsTypeOK /\ ScriptInvariant
    BY <2>1 DEF RoundsTypeOK, ScriptInvariant, NoScript, Jobs, Steps
  <2>3. UnitsBounded
    BY FS_EmptySet DEF UnitsBounded, Init, DBInit
  <2> QED
    BY <2>2, <2>3, PathBegins DEF RoundsInvariant
<1>2. RoundsInvariant /\ [RoundsNext]_allVars => RoundsInvariant'
  <2>1. ASSUME RoundsInvariant, UNCHANGED allVars PROVE RoundsInvariant'
    BY <2>1, PathStutters DEF RoundsInvariant, RoundsTypeOK, ScriptInvariant, UnitsBounded,
       RoundOver, IsLive
  <2> QED
    BY <2>1, SaleStep, ScriptStep, LossStep DEF RoundsNext
<1> QED
  BY <1>1, <1>2, PTL DEF RoundsSpec

\* In particular orders and stock never exceed what there is: a script that ended
\* halfway cannot make a later round oversell.
THEOREM UnitsStayBounded == RoundsSpec => []UnitsBounded
BY RoundsInvariantHolds, PTL DEF RoundsInvariant

\* And a user has one order at most, whatever rounds there were.
THEOREM OneOrderPerRound == RoundsSpec => []OneOrderPerUser
BY RoundsInvariantHolds, PTL DEF RoundsInvariant, PathInvariant

-----------------------------------------------------------------------------
(* What is on the shelf and in flight, of one round after the other *)

\* One step moves at most one unit: it takes it from the shelf, puts it back, or
\* sells it, which is the one way to take it from the product row.
FlightMove(r) ==
  \/ /\ UNCHANGED <<seeded, counter, remaining>> /\ InFlight' \subseteq InFlight
  \/ /\ seeded /\ seeded' /\ counter' = counter - 1 /\ UNCHANGED remaining
     /\ InFlight' \subseteq InFlight \cup {r}
  \/ /\ r \in InFlight /\ seeded' /\ counter' = counter + 1 /\ UNCHANGED remaining
     /\ InFlight' \subseteq InFlight \ {r}
  \/ /\ r \in InFlight /\ UNCHANGED <<seeded, counter>> /\ remaining' = remaining - 1
     /\ InFlight' \subseteq InFlight \ {r}

\* The part of ShelfInvariant that such a move has to keep.
Shelved ==
  /\ ~seeded => counter = 0 /\ InFlight = {}
  /\ counter + Cardinality(InFlight) <= remaining

LEMMA FlightIsFinite ==
  ASSUME PathInvariant
  PROVE  /\ IsFiniteSet(InFlight) /\ Cardinality(InFlight) \in Nat
         /\ counter \in Nat /\ remaining \in Nat
<1>1. claims \subseteq Requests /\ counter \in Nat /\ remaining \in Nat
  BY DEF PathInvariant, TypeOK, RedisTypeOK, DBTypeOK
<1>2. InFlight \subseteq Requests
  BY <1>1 DEF InFlight
<1> QED
  BY <1>1, <1>2, FS_Subset, FS_CardinalityType

\* Such a move keeps the sum, and moves nothing while there is no counter.
LEMMA MoveKeepsShelf ==
  ASSUME PathInvariant, PathInvariant', Shelved, NEW r, FlightMove(r)
  PROVE  Shelved' /\ (~seeded' => UNCHANGED <<seeded, remaining>>)
<1>1. /\ IsFiniteSet(InFlight) /\ Cardinality(InFlight) \in Nat
      /\ counter \in Nat /\ remaining \in Nat
  BY FlightIsFinite
<1>2. /\ IsFiniteSet(InFlight') /\ Cardinality(InFlight') \in Nat
      /\ counter' \in Nat /\ remaining' \in Nat
  <2>1. claims' \subseteq Requests /\ counter' \in Nat /\ remaining' \in Nat
    BY DEF PathInvariant, TypeOK, RedisTypeOK, DBTypeOK
  <2>2. InFlight' \subseteq Requests
    BY <2>1 DEF InFlight
  <2> QED
    BY <2>1, <2>2, FS_Subset, FS_CardinalityType
<1>3. InFlight' \subseteq InFlight => Cardinality(InFlight') <= Cardinality(InFlight)
  BY <1>1, FS_Subset
<1>4. InFlight' \subseteq InFlight \cup {r} => Cardinality(InFlight') <= Cardinality(InFlight) + 1
  <2>1. /\ IsFiniteSet(InFlight \cup {r})
        /\ Cardinality(InFlight \cup {r}) \in {Cardinality(InFlight), Cardinality(InFlight) + 1}
    BY <1>1, FS_AddElement
  <2> QED
    BY <1>1, <1>2, <2>1, FS_Subset
<1>5. r \in InFlight /\ InFlight' \subseteq InFlight \ {r} =>
        Cardinality(InFlight') <= Cardinality(InFlight) - 1
  <2> SUFFICES ASSUME r \in InFlight, InFlight' \subseteq InFlight \ {r}
               PROVE  Cardinality(InFlight') <= Cardinality(InFlight) - 1
    OBVIOUS
  <2>1. IsFiniteSet(InFlight \ {r}) /\ Cardinality(InFlight \ {r}) = Cardinality(InFlight) - 1
    BY <1>1, FS_RemoveElement
  <2> QED
    BY <2>1, FS_Subset
<1> QED
  BY <1>1, <1>2, <1>3, <1>4, <1>5 DEF FlightMove, Shelved

\* createOrder moves the unit of its own request.
LEMMA ApiFlight ==
  ASSUME NoAmbiguity, PathInvariant, HoldInvariant, NEW r \in Requests, ApiNext(r)
  PROVE  FlightMove(r)
<1> USE DEF HoldInvariant
<1>1. DBTypeOK /\ pc \in [Requests -> {"idle"} \cup Pending \cup Answers]
      /\ claims \subseteq Requests /\ UNCHANGED <<dbVars, workerVars>>
  BY ApiUnits DEF PathInvariant, TypeOK, RedisTypeOK
<1>2. pc[r] # "idle" => pc[r] \in Pending
  BY DEF Pending, ApiNext, CallGatekeeper, GatekeeperReplyLost, GatekeeperNotRun, GatekeeperResent,
         GatekeeperRunsAgain, CompensateIfReserved, Enqueue, EnqueueFails, VerifyStoredJob,
         ReadJobFails, Compensate, CompensationResent, CompensationFails, Compensating, ApiCrash
<1>3. \A q \in Requests : q # r => pc'[q] = pc[q]
  BY <1>1 DEF Goto, ApiNext, CallGatekeeper, GatekeeperReplyLost, GatekeeperNotRun,
              GatekeeperResent, GatekeeperRunsAgain, CompensateIfReserved, Enqueue, EnqueueFails,
              VerifyStoredJob, ReadJobFails, Compensate, CompensationResent, CompensationFails,
              Compensating, ApiCrash
<1>4. \A q \in Requests : q # r /\ Stored(q)' => Stored(q) /\ (IsLive(UserOf[q])' <=> IsLive(UserOf[q]))
  <2> SUFFICES ASSUME NEW q \in Requests, q # r, Stored(q)'
               PROVE  job'[UserOf[q]] = job[UserOf[q]]
    BY DEF Stored, IsLive
  <2>1. UserOf[q] \in Users /\ job'[UserOf[q]].token = q
    BY DEF Stored
  <2>2. \A u \in Users : job'[u] = job[u] \/ (pc[r] = "reserved" /\ pc'[r] = "verify"
                          /\ u = UserOf[r] /\ job'[u].state = "waiting" /\ job'[u].token = r)
    BY ApiJobs
  <2> QED
    BY <2>1, <2>2
<1>5. claims' \subseteq claims \cup {r}
  BY ApiUnits
<1>6. \A q \in InFlight' : q # r => q \in InFlight
  BY <1>1, <1>3, <1>4, <1>5 DEF InFlight
<1>7. pc[r] # "idle" /\ r \in claims /\ r \notin orders => r \in InFlight
  BY <1>2 DEF InFlight
<1>8. r \in claims => pc[r] # "idle"
  BY DEF ApiHolds
<1>9. CASE UNCHANGED redisVars
  <2>1. InFlight' \subseteq InFlight
    <3>1. r \in InFlight' => r \in claims /\ r \notin orders
      BY <1>1, <1>9 DEF InFlight
    <3>2. \A q \in InFlight' : q \in Requests
      BY <1>1, <1>9 DEF InFlight
    <3> QED
      BY <1>6, <1>7, <1>8, <3>1, <3>2
  <2> QED
    BY <1>1, <1>9, <2>1 DEF FlightMove
<1>10. CASE seeded /\ UNCHANGED seeded /\ counter' = counter - 1
  BY <1>1, <1>6, <1>10 DEF FlightMove
<1>11. CASE /\ pc[r] \in {"unsure", "notEnqueued", "duplicate"} /\ r \in claims
            /\ claims' = claims \ {r} /\ counter' = counter + 1 /\ seeded'
  <2>1. r \in InFlight /\ r \notin InFlight'
    BY <1>7, <1>11 DEF ApiHolds, InFlight
  <2> QED
    BY <1>1, <1>6, <1>11, <2>1 DEF FlightMove
<1> QED
  BY <1>9, <1>10, <1>11, ApiUnits

\* A worker slot moves the unit of its job.
LEMMA WorkerFlight ==
  ASSUME NoAmbiguity, PathInvariant, HoldInvariant, NEW w \in Workers, WorkerNext(w)
  PROVE  FlightMove(wtok[w])
<1> USE DEF HoldInvariant
<1>1. QueueTypeOK /\ claims \subseteq Requests /\ remaining \in Nat /\ IsFiniteSet(orders)
      /\ wmade \in [Workers -> Nat]
  BY FS_Subset DEF PathInvariant, TypeOK, RedisTypeOK, DBTypeOK
<1>2. UNCHANGED pc
  BY DEF WorkerNext, WorkerTake, BeginTransaction, BeginFails, UpdateStock, UpdateSoldOut,
     InsertOrder, InsertViolatesUnique, CommitOrder, CommitReplyLost, TransactionFails,
     CompensateOnce, CompensateOnceFails, ThrowToQueue, MarkBought, ReleaseInFlightLock,
     PostCommitFails, ReturnToQueue, WorkerCrash
<1>3. \A q \in Requests : Stored(q)' <=> Stored(q)
  BY WorkerJobs
<1>4. \A u \in Users : IsLive(u)' => IsLive(u)
  <2>1. CASE UNCHANGED job
    BY <2>1 DEF IsLive
  <2>2. ASSUME NEW x \in Users, WorkerTake(w, x) PROVE \A u \in Users : IsLive(u)' => IsLive(u)
    BY <1>1, <2>2, JobTaken, ZenonT(60) DEF IsLive, WorkerTake, TakeJob
  <2>3. CASE wpc[w] # "idle" /\ (CompleteJob(w, WUser(w)) \/ FailJob(w, WUser(w), wmade[w]))
    <3>1. WUser(w) \in Users /\ Owns(w, WUser(w))
      BY <2>3, WorkerJobs
    <3> QED
      BY <1>1, <2>3, <3>1, JobEnds DEF IsLive, Owns
  <2> QED
    BY <2>1, <2>2, <2>3, WorkerJobs
<1>5. wpc[w] # "idle" /\ Held(wtok[w]) => wtok[w] \in InFlight
  BY WorkerJobs DEF InFlight, Held, IsLive, Owns, Stored
<1>6. remaining' + Cardinality(orders') = remaining + Cardinality(orders)
  BY WorkerStep
<1>7. CASE UNCHANGED <<seeded, counter, claims, orders>>
  <2>1. remaining' = remaining
    BY <1>1, <1>6, <1>7, FS_CardinalityType, WorkerStep DEF PathInvariant, TypeOK, DBTypeOK
  <2> QED
    BY <1>1, <1>2, <1>3, <1>4, <1>7, <2>1 DEF FlightMove, InFlight
<1>8. CASE /\ wpc[w] = "compensate" /\ wtok[w] \in claims
           /\ claims' = claims \ {wtok[w]} /\ counter' = counter + 1
           /\ seeded' /\ UNCHANGED orders
  <2>1. remaining' = remaining
    BY <1>1, <1>6, <1>8, FS_CardinalityType, WorkerStep DEF PathInvariant, TypeOK, DBTypeOK
  <2>2. wtok[w] \in InFlight
    BY <1>5, <1>8 DEF JobHolds
  <2> QED
    BY <1>1, <1>2, <1>3, <1>4, <1>8, <2>1, <2>2 DEF FlightMove, InFlight
<1>9. CASE /\ wpc[w] = "commit" /\ wtok[w] \in claims
           /\ UNCHANGED <<seeded, counter, claims>> /\ orders' = orders \cup {wtok[w]}
  <2>1. Held(wtok[w]) /\ wtok[w] \in InFlight
    BY <1>5, <1>9 DEF JobHolds
  <2>2. Cardinality(orders') = Cardinality(orders) + 1
    BY <1>1, <1>9, <2>1, FS_AddElement DEF Held
  <2>3. remaining' = remaining - 1
    BY <1>1, <1>6, <2>2, FS_CardinalityType, WorkerStep DEF PathInvariant, TypeOK, DBTypeOK
  <2> QED
    BY <1>1, <1>2, <1>3, <1>4, <1>9, <2>1, <2>3 DEF FlightMove, InFlight
<1> QED
  BY <1>7, <1>8, <1>9, WorkerUnits

\* Time moves none.
LEMMA TimeFlight ==
  ASSUME NoAmbiguity, PathInvariant, HoldInvariant, NEW u \in Users, TimeNext(u), NEW r
  PROVE  FlightMove(r)
<1>1. UNCHANGED <<seeded, counter, claims, dbVars, pc, workerVars>>
  BY TimeHolding
<1>2. \A q \in Requests : Stored(q)' /\ IsLive(UserOf[q])' => Stored(q) /\ IsLive(UserOf[q])
  BY TimeJobs DEF Stored, IsLive, HoldInvariant
<1> QED
  BY <1>1, <1>2 DEF FlightMove, InFlight, PathInvariant, TypeOK, RedisTypeOK

-----------------------------------------------------------------------------
\* What is prepared between two rounds finds no unit in flight, and leaves none.
LEMMA OverHolds ==
  ASSUME PathInvariant, HoldInvariant, RoundOver,
         claims' \subseteq claims, orders' \subseteq orders, UNCHANGED <<pc, workerVars>>,
         UNCHANGED job \/ job' = [u \in Users |-> NoJob]
  PROVE  HoldInvariant' /\ InFlight = {} /\ InFlight' = {}
<1> USE DEF RoundOver, IsLive
<1>1. claims \subseteq Requests /\ \A r \in Requests : pc[r] \notin Pending
  BY DEF PathInvariant, TypeOK, RedisTypeOK, Pending, Answers
<1>2. \A u \in Users : job'[u].state \notin {"waiting", "active", "delayed"}
  BY DEF NoJob
<1>3. \A r \in Requests : Stored(r)' => Stored(r)
  BY DEF Stored, NoJob
<1>4. HoldInvariant'
  BY <1>1, <1>2, <1>3 DEF HoldInvariant, ApiHolds, WorkerOwns, JobHolds, Pending
<1>5. InFlight = {} /\ InFlight' = {}
  BY <1>1, <1>2 DEF InFlight
<1> QED
  BY <1>4, <1>5

\* The sale: every step moves one unit at most.
LEMMA SaleKeepsShelf ==
  ASSUME NoAmbiguity, RoundsInvariant, RoundsInvariant', ShelfInvariant, SaleNext
  PROVE  ShelfInvariant'
<1> SUFFICES ASSUME calm PROVE ShelfInvariant'
  BY DEF ShelfInvariant, SaleNext
<1>1. PathInvariant /\ PathInvariant' /\ HoldInvariant /\ Shelved
  BY DEF RoundsInvariant, ShelfInvariant, Shelved
<1>2. HoldInvariant' /\ \E r : FlightMove(r)
  BY <1>1, ApiHolding, ApiFlight, WorkerHolding, WorkerFlight, TimeHolding, TimeFlight DEF SaleNext
<1>3. Shelved' /\ (~seeded' => UNCHANGED <<seeded, remaining>>)
  BY <1>1, <1>2, MoveKeepsShelf
<1> QED
  BY <1>2, <1>3 DEF ShelfInvariant, Shelved, SaleNext

\* The scripts: the reset works on a sale that is over, the seed writes what the
\* row has.
LEMMA ScriptKeepsShelf ==
  ASSUME RoundsInvariant, ShelfInvariant, ScriptNext
  PROVE  ShelfInvariant'
<1>1. UNCHANGED calm
  BY DEF ScriptNext, StartBoot, StartSeedRedis, StartReset, DeleteOrders, RestoreRows, DeleteStock,
     DeleteBought, DeleteLocks, DeleteGuards, SeedProducts, SelectRemaining, SeedCounters, Done,
     ScriptFails
<1> SUFFICES ASSUME calm PROVE ShelfInvariant'
  BY <1>1 DEF ShelfInvariant
<1>2. PathInvariant /\ ScriptInvariant /\ UnitsBounded /\ HoldInvariant
      /\ script \in [job : Jobs, step : Steps] /\ Shelved
      /\ (~seeded /\ At("seed") => read = remaining)
  BY DEF RoundsInvariant, RoundsTypeOK, ShelfInvariant, Shelved
<1>3. counter \in Nat /\ remaining \in Nat /\ IsFiniteSet(orders)
  BY <1>2, FS_Subset DEF PathInvariant, TypeOK, RedisTypeOK, DBTypeOK
<1>4. CASE StartBoot \/ StartSeedRedis \/ StartReset \/ SeedProducts \/ SelectRemaining \/ ScriptFails
  <2> USE <1>4 DEF StartBoot, StartSeedRedis, StartReset, SeedProducts, SelectRemaining, ScriptFails
  <2>1. UNCHANGED <<vars, InFlight>>
    BY DEF InFlight, Stored, IsLive
  <2>2. HoldInvariant'
    BY <1>2, <2>1, HoldStutters
  <2>3. At("seed")' => read' = remaining'
    <3> HIDE <1>4
    <3>1. CASE StartBoot \/ StartSeedRedis \/ StartReset \/ ScriptFails
      <4>1. script' \in {[job |-> "boot", step |-> "products"], [job |-> "seed:redis", step |-> "select"],
             [job |-> "reset", step |-> "orders"], NoScript}
        BY <3>1
      <4> QED
        BY <4>1 DEF NoScript
    <3>2. CASE SeedProducts \/ SelectRemaining
      BY <1>2, <3>2
    <3> QED
      BY <1>4, <3>1, <3>2
  <2> QED
    BY <1>2, <2>1, <2>2, <2>3 DEF ShelfInvariant, Shelved
<1>5. CASE DeleteOrders \/ RestoreRows \/ DeleteStock \/ DeleteBought \/ DeleteLocks \/ DeleteGuards
  <2> USE <1>5 DEF DeleteOrders, RestoreRows, DeleteStock, DeleteBought, DeleteLocks, DeleteGuards
  <2>0. counter' \in {counter, 0} /\ remaining' \in {remaining, Stock}
    OBVIOUS
  <2>1. RoundOver
    BY <1>2 DEF ScriptInvariant, Jobs
  <2>2. HoldInvariant' /\ InFlight' = {} /\ InFlight = {}
    BY <1>2, <2>1, OverHolds
  <2>3. remaining <= Stock
    BY <1>2, <1>3, FS_CardinalityType DEF UnitsBounded
  <2>4. ~seeded' => counter' = 0
    BY <1>2 DEF Shelved
  <2>5. counter <= remaining
    BY <1>2, <1>3, <2>2, FS_EmptySet DEF Shelved
  <2>6. counter' \in Nat /\ counter' <= remaining'
    <3> HIDE <1>5
    <3> QED
      BY <1>3, <2>0, <2>3, <2>5
  <2>7. ~At("seed")'
    BY <1>2
  <2> QED
    BY <2>2, <2>4, <2>5, <2>6, <2>7, FS_EmptySet DEF ShelfInvariant
<1>6. CASE SeedCounters
  <2> USE <1>6 DEF SeedCounters, SeedScript, Done
  <2>1. UNCHANGED <<claims, orders, remaining, job, pc, workerVars, InFlight>>
    BY DEF InFlight, Stored, IsLive
  <2>2. HoldInvariant'
    BY <1>2, <2>1, HoldStutters
  <2>3. seeded' /\ ~At("seed")'
    BY DEF NoScript
  <2>4. counter' + Cardinality(InFlight') <= remaining'
    BY <1>2, <1>3, <2>1, FS_EmptySet DEF Shelved
  <2> QED
    BY <2>2, <2>3, <2>4 DEF ShelfInvariant
<1> QED
  BY <1>4, <1>5, <1>6 DEF ScriptNext

\* Redis comes back empty: after a sale that is what a reset does, too.
LEMMA LossKeepsShelf ==
  ASSUME RoundsInvariant, ShelfInvariant, RedisLost
  PROVE  ShelfInvariant'
<1> USE DEF RedisLost
<1> SUFFICES ASSUME calm' PROVE ShelfInvariant'
  BY DEF ShelfInvariant
<1>1. calm /\ RoundOver /\ ~At("seed")
  BY Zenon
<1>2. PathInvariant /\ HoldInvariant
  BY <1>1 DEF RoundsInvariant, ShelfInvariant
<1>3. HoldInvariant' /\ InFlight' = {}
  BY <1>1, <1>2, OverHolds
<1>4. remaining \in Nat /\ UNCHANGED <<remaining, script>> /\ counter' = 0
  BY <1>2 DEF PathInvariant, TypeOK, DBTypeOK
<1> QED
  BY <1>1, <1>3, <1>4, FS_EmptySet DEF ShelfInvariant

LEMMA ShelfHolds ==
  ASSUME NoAmbiguity
  PROVE  RoundsSpec => []ShelfInvariant
<1>1. RoundsInit => ShelfInvariant
  <2> SUFFICES ASSUME RoundsInit PROVE ShelfInvariant
    OBVIOUS
  <2>1. counter = 0 /\ claims = {} /\ remaining = Stock /\ script.job = "none"
    BY DEF RoundsInit, Init, RedisInit, DBInit, NoScript
  <2>2. InFlight = {}
    BY <2>1 DEF InFlight
  <2> QED
    BY <2>1, <2>2, HoldBegins, FS_EmptySet DEF ShelfInvariant, RoundsInit
<1>2. RoundsInvariant /\ RoundsInvariant' /\ ShelfInvariant /\ [RoundsNext]_allVars => ShelfInvariant'
  <2>1. ASSUME ShelfInvariant, UNCHANGED allVars PROVE ShelfInvariant'
    <3>1. UNCHANGED InFlight
      BY <2>1 DEF InFlight, Stored, IsLive
    <3> QED
      BY <2>1, <3>1, HoldStutters DEF ShelfInvariant
  <2> QED
    BY <2>1, SaleKeepsShelf, ScriptKeepsShelf, LossKeepsShelf DEF RoundsNext
<1> QED
  BY <1>1, <1>2, RoundsInvariantHolds, PTL DEF RoundsSpec

\* While redis-data loses nothing in the middle of a sale: however often app-1
\* starts, and wherever a script ends, Redis never offers more than there is.
THEOREM SeedStaysBehind ==
  ASSUME NoAmbiguity
  PROVE  RoundsSpec => []SeedNeverAhead
<1>1. ASSUME RoundsInvariant, ShelfInvariant PROVE SeedNeverAhead
  <2>1. Cardinality(InFlight) \in Nat /\ counter \in Nat /\ remaining \in Nat
    BY <1>1, FlightIsFinite DEF RoundsInvariant
  <2> QED
    BY <1>1, <2>1 DEF ShelfInvariant, SeedNeverAhead
<1> QED
  BY <1>1, RoundsInvariantHolds, ShelfHolds, PTL

\* Under the same conditions the seed, in the middle of a sale too, is the one
\* step that OrderFlow makes of it.
THEOREM SeedIsOneStep ==
  ASSUME NoAmbiguity
  PROVE  RoundsSpec => SeedAsSpecified
<1>1. RoundsInvariant /\ ShelfInvariant /\ [RoundsNext]_allVars =>
        [calm /\ (SeedProducts \/ SelectRemaining \/ SeedCounters) => [SeedStock]_vars]_allVars
  <2> SUFFICES ASSUME ShelfInvariant, calm, SeedCounters, ~UNCHANGED vars PROVE SeedStock
    BY DEF SeedProducts, SelectRemaining
  <2>1. ~seeded
    BY DEF SeedCounters, SeedScript, Done
  <2>2. read = remaining
    BY <2>1 DEF SeedCounters, ShelfInvariant
  <2> QED
    BY <2>1, <2>2 DEF SeedCounters, SeedStock, Done
<1> QED
  BY <1>1, RoundsInvariantHolds, ShelfHolds, PTL DEF RoundsSpec, SeedAsSpecified
-----------------------------------------------------------------------------
(* A round after a completed reset sells what there is *)

\* Nothing fails that the customer would notice.  (Old jobs may go, and an error
\* after the commit leaves the lock in the place of the bought flag.)
Smooth == Faults \subseteq {"Trim", "PostCommitFails"}

\* How far a reset has come: what it leaves behind it stays done, while it has
\* the system to itself.
ResetProgress == script.job = "reset" =>
  /\ script.step # "orders" => orders = {}
  /\ script.step \notin {"orders", "rows"} => remaining = Stock
  /\ script.step \notin {"orders", "rows", "stock"} => ~seeded
  /\ script.step \notin {"orders", "rows", "stock", "bought"} => bought = {}
  /\ script.step \notin {"orders", "rows", "stock", "bought", "locks"} =>
       lock = [u \in Users |-> None] /\ claims = {}
  /\ script.step \in {"products", "select", "seed"} => guard = {}
  /\ script.step = "seed" => read = Stock

\* What the answers of a round say is so: whoever is accepted, and nobody else,
\* has a unit, and whoever is refused finds none left or has one already.
AnswersAreTrue ==
  /\ claims = {r \in Requests \ before : pc[r] \in {"reserved", "verify", "accepted"}}
  /\ \A r \in before : pc[r] \in Answers
  /\ \A r \in Requests \ before :
       /\ pc[r] \in {"idle", "reserved", "verify", "accepted", "purchased", "inFlight", "soldOut"}
       /\ pc[r] = "verify" => Stored(r)
       /\ pc[r] = "purchased" => Ordered(UserOf[r])
       /\ pc[r] = "inFlight" => \E q \in claims : UserOf[q] = UserOf[r]
       /\ pc[r] = "soldOut" => counter = 0
  /\ \A u \in Users : job[u].state # "none" => job[u].token \in claims
  /\ \A w \in Workers : wpc[w] \notin {"compensate", "throw"}

\* A round after a completed reset is a sale of its own: whatever holds of the
\* write path from its start on holds of the round.
FreshInvariant == fresh =>
  /\ script.job # "reset" /\ seeded
  /\ WriteInvariant /\ ReservationInvariant /\ ExclusionInvariant /\ HeldIsHandled
  /\ AnswersAreTrue

LEMMA SmoothIs ==
  ASSUME Smooth
  PROVE  /\ NoAmbiguity /\ EveryFailureNoticed
         /\ \A f \in Faults : f = "Trim" \/ f = "PostCommitFails"
<1>1. \A f \in Faults : f = "Trim" \/ f = "PostCommitFails"
  BY DEF Smooth
<1>2. NoAmbiguity
  BY <1>1 DEF NoAmbiguity, AmbiguousFaults
<1>3. Faults \cap LeakFaults = {} /\ "LockTtl" \notin Faults
  BY <1>1 DEF LeakFaults
<1> QED
  BY <1>1, <1>2, <1>3 DEF EveryFailureNoticed

\* No step undoes what the reset has done: only finished jobs go while it runs,
\* and a Redis that loses its data loses no more than the reset deletes.
LEMMA ProgressStays ==
  ASSUME Smooth, RoundsInvariant, ResetProgress, [RoundsNext]_allVars
  PROVE  ResetProgress'
<1> USE DEF ResetProgress
<1>1. ScriptInvariant /\ script \in [job : Jobs, step : Steps]
  BY DEF RoundsInvariant, RoundsTypeOK
<1>2. CASE SaleNext
  <2> SUFFICES ASSUME script.job = "reset" PROVE ResetProgress'
    BY <1>2 DEF SaleNext
  <2>1. RoundOver
    BY <1>1 DEF ScriptInvariant
  <2>2. \E u \in Users : TimeNext(u)
    BY <1>2, <2>1, NoWorkerMoves DEF SaleNext
  <2>3. UNCHANGED <<redisVars, dbVars, script, read>>
    BY <1>2, <2>2, SmoothIs DEF SaleNext, TimeNext, BackoffEnds, StalledCheck, LockExpires,
       TrimFinishedJob
  <2> QED
    BY <2>3
<1>3. CASE StartBoot \/ StartSeedRedis \/ StartReset \/ ScriptFails \/ SeedCounters
  <2>1. script' \in {[job |-> "boot", step |-> "products"], [job |-> "seed:redis", step |-> "select"],
             [job |-> "reset", step |-> "orders"], NoScript}
    BY <1>3 DEF StartBoot, StartSeedRedis, StartReset, ScriptFails, SeedCounters, Done
  <2> QED
    BY <2>1 DEF NoScript
<1>4. CASE DeleteOrders
  BY <1>1, <1>4 DEF DeleteOrders
<1>5. CASE RestoreRows
  BY <1>1, <1>5 DEF RestoreRows
<1>6. CASE DeleteStock
  BY <1>1, <1>6 DEF DeleteStock
<1>7. CASE DeleteBought
  BY <1>1, <1>7 DEF DeleteBought
<1>8. CASE DeleteLocks
  BY <1>1, <1>8 DEF DeleteLocks
<1>9. CASE DeleteGuards
  BY <1>1, <1>9 DEF DeleteGuards
<1>10. CASE SeedProducts
  BY <1>1, <1>10 DEF SeedProducts
<1>11. CASE SelectRemaining
  BY <1>1, <1>11 DEF SelectRemaining
<1>12. CASE RedisLost
  BY <1>12 DEF RedisLost
<1>13. CASE UNCHANGED allVars
  BY <1>13
<1> QED
  BY <1>2, <1>3, <1>4, <1>5, <1>6, <1>7, <1>8, <1>9, <1>10, <1>11, <1>12, <1>13
     DEF RoundsNext, ScriptNext

\* The last step of a reset opens a round as Init opens a sale.
LEMMA FreshBegins ==
  ASSUME Smooth, RoundsInvariant, ResetProgress, SeedCounters, script.job = "reset", fresh'
  PROVE  FreshInvariant'
<1> USE DEF SeedCounters, SeedScript, Done
<1>1. /\ PathInvariant /\ RoundOver /\ script.step = "seed"
  BY DEF RoundsInvariant, ScriptInvariant
<1>2. /\ orders = {} /\ claims = {} /\ bought = {} /\ guard = {} /\ remaining = Stock
      /\ ~seeded /\ read = Stock
  BY <1>1 DEF ResetProgress
<1>3. /\ orders' = {} /\ claims' = {} /\ bought' = {} /\ guard' = {} /\ remaining' = Stock
      /\ seeded' /\ counter' = Stock
      /\ UNCHANGED <<job, pc, workerVars>>
      /\ script'.job = "none" /\ before' = {r \in Requests : pc[r] # "idle"}
  BY <1>2 DEF NoScript
<1>4. \A u \in Users : job[u].state = "none"
  OBVIOUS
<1>5. /\ \A r \in Requests : pc[r] \in Answers \cup {"idle"}
      /\ \A w \in Workers : wpc[w] = "idle"
  BY <1>1 DEF RoundOver
<1> HIDE DEF SeedCounters
<1>6. PathInvariant'
  BY <1>1, <1>2, <1>3, SeedStep DEF SeedCounters, Done
<1>7. WriteInvariant'
  BY <1>3, <1>6, FS_EmptySet DEF WriteInvariant, NeverOversold, BoughtMeansOrdered
<1>8. HoldInvariant'
  BY <1>3, <1>4, <1>5 DEF HoldInvariant, ApiHolds, WorkerOwns, JobHolds, Stored, Answers
<1>9. ReservationInvariant'
  BY <1>3, <1>5, <1>8, FS_EmptySet DEF ReservationInvariant, NoUnitReturnedTwice, SoldIsClaimed,
     AdmittedFindsStock, SeedFirst
<1>10. ExclusionInvariant' /\ HeldIsHandled'
  BY <1>3, <1>5 DEF ExclusionInvariant, GuardedIsReturned, ReleaseFollowsMark, LockStays,
     Exclusive, JobStays, HeldIsHandled, Held
<1>11. AnswersAreTrue'
  BY <1>3, <1>4, <1>5 DEF AnswersAreTrue, Answers
<1> QED
  BY <1>3, <1>7, <1>9, <1>10, <1>11 DEF FreshInvariant

\* Without faults createOrder gets its verdict, enqueues and finds its own job.
LEMMA SmoothApi ==
  ASSUME Smooth, AnswersAreTrue, NEW r \in Requests, ApiNext(r)
  PROVE  /\ r \notin before
         /\ CallGatekeeper(r) \/ Enqueue(r) \/ VerifyStoredJob(r)
<1>1. pc[r] \in {"idle"} \cup Pending
  BY DEF Pending, ApiNext, CallGatekeeper, GatekeeperReplyLost, GatekeeperNotRun, GatekeeperResent,
         GatekeeperRunsAgain, CompensateIfReserved, Enqueue, EnqueueFails, VerifyStoredJob,
         ReadJobFails, Compensate, CompensationResent, CompensationFails, Compensating, ApiCrash
<1>2. r \notin before /\ pc[r] \in {"idle", "reserved", "verify"}
  BY <1>1 DEF AnswersAreTrue, Pending, Answers
<1> QED
  BY <1>2, SmoothIs DEF ApiNext, GatekeeperReplyLost, GatekeeperNotRun, GatekeeperResent,
                        GatekeeperRunsAgain, CompensateIfReserved, EnqueueFails, ReadJobFails,
                        Compensate, CompensationResent, CompensationFails, Compensating, ApiCrash

LEMMA ApiAnswers ==
  ASSUME Smooth, seeded, WriteInvariant, ReservationInvariant, ExclusionInvariant,
         AnswersAreTrue, NEW r \in Requests, ApiNext(r), before \subseteq Requests, before' = before
  PROVE  AnswersAreTrue'
<1> USE DEF Goto
<1>1. /\ RedisTypeOK /\ QueueTypeOK /\ LockProvesClaim /\ JobsFiled
      /\ pc \in [Requests -> {"idle"} \cup Pending \cup Answers]
      /\ Exclusive /\ ApiHolds
  BY SmoothIs DEF WriteInvariant, PathInvariant, TypeOK, ExclusionInvariant, LockStays,
     ReservationInvariant, HoldInvariant
<1>2. r \notin before
  BY SmoothApi
<1>3. CASE CallGatekeeper(r)
  <2> USE <1>3 DEF CallGatekeeper
  <2>1. UNCHANGED <<job, dbVars, workerVars>> /\ pc[r] = "idle"
    OBVIOUS
  <2>2. \A q \in Requests : Stored(q)' <=> Stored(q)
    BY <2>1 DEF Stored
  <2>3. \A u \in Users : Ordered(u)' <=> Ordered(u)
    BY <2>1 DEF Ordered
  <2>4. \A q \in Requests : q # r => pc'[q] = pc[q]
    BY <1>1
  <2>5. CASE Verdict(r) = "ALLOWED"
    <3>1. claims' = claims \cup {r} /\ counter > 0 /\ pc'[r] = "reserved"
      BY <1>1, <2>5 DEF GatekeeperScript, Verdict, AfterVerdict, RedisTypeOK
    <3> HIDE <1>3
    <3> QED
      BY <1>2, <2>1, <2>2, <2>3, <2>4, <3>1 DEF AnswersAreTrue
  <2>6. CASE Verdict(r) # "ALLOWED"
    <3>1. UNCHANGED redisVars /\ pc'[r] = AfterVerdict(Verdict(r))
      BY <1>1, <2>6 DEF GatekeeperScript
    <3>2. \/ pc'[r] = "purchased" /\ UserOf[r] \in bought
          \/ pc'[r] = "inFlight" /\ lock[UserOf[r]] # None
          \/ pc'[r] = "soldOut" /\ counter <= 0
      BY <2>6, <3>1 DEF Verdict, AfterVerdict
    <3>3. /\ UserOf[r] \in bought => Ordered(UserOf[r])
          /\ lock[UserOf[r]] # None => \E q \in claims : UserOf[q] = UserOf[r]
          /\ counter <= 0 => counter = 0
      BY <1>1 DEF WriteInvariant, BoughtMeansOrdered, LockProvesClaim, RedisTypeOK
    <3> HIDE <1>3
    <3> QED
      BY <1>2, <2>1, <2>2, <2>3, <2>4, <3>1, <3>2, <3>3 DEF AnswersAreTrue
  <2> QED
    BY <2>5, <2>6
<1>4. CASE Enqueue(r)
  <2> USE <1>4 DEF Enqueue
  <2>1. /\ UNCHANGED <<redisVars, dbVars, workerVars>> /\ pc[r] = "reserved" /\ pc'[r] = "verify"
        /\ \A q \in Requests : q # r => pc'[q] = pc[q]
    BY <1>1
  <2>2. r \in claims /\ UserOf[r] \in Users
    BY <1>2, <2>1 DEF AnswersAreTrue
  <2>3. job[UserOf[r]].state = "none"
    <3> SUFFICES ASSUME job[UserOf[r]].state # "none" PROVE FALSE
      OBVIOUS
    <3>1. job[UserOf[r]].token \in claims /\ UserOf[job[UserOf[r]].token] = UserOf[r]
      BY <1>1, <2>2 DEF AnswersAreTrue, JobsFiled
    <3>2. Stored(r)
      BY <1>1, <2>2, <3>1 DEF Exclusive, Stored
    <3> QED
      BY <1>1, <2>1, <3>2 DEF ApiHolds
  <2>4. /\ job'[UserOf[r]].state = "waiting" /\ job'[UserOf[r]].token = r
        /\ \A u \in Users : u # UserOf[r] => job'[u] = job[u]
    BY <1>1, <2>2, <2>3 DEF AddJob, QueueTypeOK, NoJob
  <2>5. Stored(r)' /\ \A q \in Requests : Stored(q) => Stored(q)'
    BY <2>3, <2>4 DEF Stored
  <2>6. \A u \in Users : Ordered(u)' <=> Ordered(u)
    BY <2>1 DEF Ordered
  <2>7. \A u \in Users : job'[u].state # "none" => job'[u].token \in claims
    BY <2>2, <2>4 DEF AnswersAreTrue
  <2> HIDE <1>4
  <2> QED
    BY <1>2, <2>1, <2>2, <2>5, <2>6, <2>7 DEF AnswersAreTrue
<1>5. CASE VerifyStoredJob(r)
  <2> USE <1>5 DEF VerifyStoredJob
  <2>1. /\ UNCHANGED <<redisVars, job, dbVars, workerVars>> /\ pc[r] = "verify"
        /\ \A q \in Requests : q # r => pc'[q] = pc[q]
    BY <1>1
  <2>2. Stored(r)
    BY <1>2, <2>1 DEF AnswersAreTrue
  <2>3. pc'[r] = "accepted"
    BY <1>1, <2>2 DEF Stored
  <2>4. \A q \in Requests : Stored(q)' <=> Stored(q)
    BY <2>1 DEF Stored
  <2>5. \A u \in Users : Ordered(u)' <=> Ordered(u)
    BY <2>1 DEF Ordered
  <2> HIDE <1>5
  <2> QED
    BY <1>2, <2>1, <2>3, <2>4, <2>5 DEF AnswersAreTrue
<1> QED
  BY <1>3, <1>4, <1>5, SmoothApi

\* The worker sells what it has a job for.
LEMMA WorkerAnswers ==
  ASSUME Smooth, WriteInvariant, ReservationInvariant, AnswersAreTrue,
         NEW w \in Workers, WorkerNext(w), before' = before
  PROVE  AnswersAreTrue'
<1>1. PathInvariant /\ HoldInvariant /\ wpc \in [Workers -> WorkerStates]
  BY DEF WriteInvariant, ReservationInvariant, PathInvariant, TypeOK
<1>2. UNCHANGED pc
  BY DEF WorkerNext, WorkerTake, BeginTransaction, BeginFails, UpdateStock, UpdateSoldOut,
     InsertOrder, InsertViolatesUnique, CommitOrder, CommitReplyLost, TransactionFails,
     CompensateOnce, CompensateOnceFails, ThrowToQueue, MarkBought, ReleaseInFlightLock,
     PostCommitFails, ReturnToQueue, WorkerCrash
<1>3. wpc[w] \notin {"compensate", "throw"}
  BY DEF AnswersAreTrue
<1>4. \A v \in Workers : wpc'[v] \notin {"compensate", "throw"}
  <2>1. wpc' = [wpc EXCEPT ![w] = wpc'[w]] /\ wpc'[w] \notin {"compensate", "throw"}
    BY <1>1, <1>3, SmoothIs DEF WorkerNext, WorkerTake, BeginTransaction, BeginFails, UpdateStock,
       UpdateSoldOut, InsertOrder, InsertViolatesUnique, CommitOrder, CommitReplyLost,
       TransactionFails, CompensateOnce, CompensateOnceFails, ThrowToQueue, MarkBought,
       ReleaseInFlightLock, PostCommitFails, ReturnToQueue, WorkerCrash, WGoto, WIdle
  <2> QED
    BY <1>1, <2>1 DEF AnswersAreTrue
<1>5. UNCHANGED <<counter, claims>> /\ orders \subseteq orders'
  BY <1>1, <1>3, SmoothIs, WorkerUnits
<1>6. /\ \A u \in Users : job'[u].token = job[u].token
      /\ \A u \in Users : job'[u].state = "none" <=> job[u].state = "none"
      /\ \A q \in Requests : Stored(q)' <=> Stored(q)
  BY <1>1, SmoothIs, WorkerJobs DEF HoldInvariant
<1>7. \A u \in Users : Ordered(u) => Ordered(u)'
  BY <1>5 DEF Ordered
<1> QED
  BY <1>2, <1>4, <1>5, <1>6, <1>7 DEF AnswersAreTrue

\* Time takes no job that somebody is about to read.
LEMMA TimeAnswers ==
  ASSUME Smooth, WriteInvariant, ReservationInvariant, AnswersAreTrue,
         NEW u \in Users, TimeNext(u), before' = before
  PROVE  AnswersAreTrue'
<1>1. PathInvariant /\ HoldInvariant
  BY DEF WriteInvariant, ReservationInvariant
<1>2. UNCHANGED <<counter, claims, dbVars, pc, workerVars>>
  BY <1>1, SmoothIs, TimeHolding
<1>3. /\ \A v \in Users : v # u => job'[v] = job[v]
      /\ \/ UNCHANGED job
         \/ /\ job[u].state = "delayed" /\ job'[u].state = "waiting"
            /\ job'[u].token = job[u].token
         \/ /\ job'[u].state = "none"
            /\ \A r \in Requests : pc[r] = "verify" => UserOf[r] # u
  BY <1>1, SmoothIs, TimeJobs DEF HoldInvariant
<1>4. \A q \in Requests : pc[q] = "verify" /\ Stored(q) => Stored(q)'
  BY <1>3 DEF Stored
<1>5. \A v \in Users : job'[v].state # "none" =>
        job[v].state # "none" /\ job'[v].token = job[v].token
  BY <1>3
<1>6. \A v \in Users : Ordered(v)' <=> Ordered(v)
  BY <1>2 DEF Ordered
<1> QED
  BY <1>2, <1>4, <1>5, <1>6 DEF AnswersAreTrue
\* Every step of a round is one that a sale may take from Init on.
LEMMA FreshSale ==
  ASSUME Smooth, RoundsInvariant, FreshInvariant, fresh, SaleNext
  PROVE  FreshInvariant'
<1> DEFINE Sound == seeded /\ WriteInvariant /\ ReservationInvariant /\ ExclusionInvariant
                    /\ HeldIsHandled /\ AnswersAreTrue
<1>1. Sound /\ PathInvariant /\ HoldInvariant /\ NoAmbiguity /\ EveryFailureNoticed
  BY SmoothIs DEF FreshInvariant, WriteInvariant, ReservationInvariant
<1>2. /\ UNCHANGED <<script, before, fresh>> /\ before \subseteq Requests
      /\ script.job # "reset"
  BY DEF SaleNext, FreshInvariant, RoundsInvariant, RoundsTypeOK
<1>3. ASSUME NEW r \in Requests, ApiNext(r) PROVE Sound'
  <2>1. ReservationInvariant' /\ ExclusionInvariant' /\ HeldIsHandled'
    BY <1>1, <1>3, ApiReservations, ApiExcludes, ApiHandles
  <2>2. WriteInvariant'
    BY <1>1, <1>3, ApiStep DEF WriteInvariant, NeverOversold, BoughtMeansOrdered, Ordered
  <2>3. AnswersAreTrue'
    BY <1>1, <1>2, <1>3, ApiAnswers
  <2>4. seeded'
    BY <1>1, <1>3, ApiUnits
  <2> QED
    BY <2>1, <2>2, <2>3, <2>4
<1>4. ASSUME NEW w \in Workers, WorkerNext(w) PROVE Sound'
  <2>1. ReservationInvariant' /\ ExclusionInvariant'
    BY <1>1, <1>4, WorkerReservations, WorkerExcludes
  <2>2. HeldIsHandled'
    BY <1>1, <1>4, <2>1, WorkerHandles DEF ReservationInvariant
  <2>3. WriteInvariant'
    BY <1>1, <1>4, WorkerWrites
  <2>4. AnswersAreTrue'
    BY <1>1, <1>2, <1>4, WorkerAnswers
  <2>5. seeded'
    BY <1>1, <1>4, WorkerUnits
  <2> QED
    BY <2>1, <2>2, <2>3, <2>4, <2>5
<1>5. ASSUME NEW u \in Users, TimeNext(u) PROVE Sound'
  <2>1. ReservationInvariant' /\ ExclusionInvariant' /\ HeldIsHandled' /\ seeded'
    BY <1>1, <1>5, TimeReservations, TimeExcludes, TimeHandles
  <2>2. WriteInvariant'
    BY <1>1, <1>5, TimeStep DEF WriteInvariant, NeverOversold, BoughtMeansOrdered, Ordered
  <2>3. AnswersAreTrue'
    BY <1>1, <1>2, <1>5, TimeAnswers
  <2> QED
    BY <2>1, <2>2, <2>3
<1>6. Sound'
  BY <1>3, <1>4, <1>5 DEF SaleNext
<1> QED
  BY <1>2, <1>6 DEF FreshInvariant

\* Nothing else touches a round: migrate-and-seed finds the counter there.
LEMMA FreshAside ==
  ASSUME FreshInvariant, fresh, UNCHANGED <<vars, before>>, script'.job # "reset"
  PROVE  FreshInvariant'
<1>1. WriteInvariant'
  BY PathStutters DEF FreshInvariant, WriteInvariant, NeverOversold, BoughtMeansOrdered, Ordered
<1>2. ReservationInvariant'
  BY HoldStutters DEF FreshInvariant, ReservationInvariant, NoUnitReturnedTwice, SoldIsClaimed,
     AdmittedFindsStock, SeedFirst
<1>3. ExclusionInvariant'
  BY DEF FreshInvariant, ExclusionInvariant, GuardedIsReturned, ReleaseFollowsMark,
     LockStays, Exclusive, JobStays, Stored
<1>4. HeldIsHandled'
  BY DEF FreshInvariant, HeldIsHandled, Held, Stored, Tried, IsFinalAttempt
<1>5. AnswersAreTrue'
  BY DEF FreshInvariant, AnswersAreTrue, Stored, Ordered
<1>6. seeded'
  BY DEF FreshInvariant
<1> QED
  BY <1>1, <1>2, <1>3, <1>4, <1>5, <1>6 DEF FreshInvariant

LEMMA FreshStays ==
  ASSUME Smooth, RoundsInvariant, ResetProgress, FreshInvariant, [RoundsNext]_allVars
  PROVE  FreshInvariant'
<1> SUFFICES ASSUME fresh' PROVE FreshInvariant'
  BY DEF FreshInvariant
<1>1. CASE SaleNext
  BY <1>1, FreshSale DEF SaleNext
<1>2. CASE SeedCounters /\ script.job = "reset"
  BY <1>2, FreshBegins
<1>3. CASE SeedCounters /\ script.job # "reset"
  <2>1. fresh /\ UNCHANGED before /\ script'.job # "reset"
    BY <1>3 DEF SeedCounters, Done, NoScript
  <2>2. UNCHANGED vars
    BY <1>3, <2>1 DEF SeedCounters, SeedScript, Done, FreshInvariant
  <2> QED
    BY <2>1, <2>2, FreshAside
<1>4. CASE StartBoot \/ StartSeedRedis \/ SeedProducts \/ SelectRemaining \/ ScriptFails
  <2>1. fresh /\ UNCHANGED <<vars, before>>
    BY <1>4 DEF StartBoot, StartSeedRedis, SeedProducts, SelectRemaining, ScriptFails
  <2>2. script'.job # "reset"
    <3>1. CASE StartBoot \/ StartSeedRedis \/ ScriptFails
      <4>1. script' \in {[job |-> "boot", step |-> "products"], [job |-> "seed:redis", step |-> "select"],
             NoScript}
        BY <3>1 DEF StartBoot, StartSeedRedis, ScriptFails
      <4> QED
        BY <4>1 DEF NoScript
    <3>2. CASE SeedProducts \/ SelectRemaining
      BY <2>1, <3>2 DEF SeedProducts, SelectRemaining, FreshInvariant, RoundsInvariant, RoundsTypeOK
    <3> QED
      BY <1>4, <3>1, <3>2
  <2> QED
    BY <2>1, <2>2, FreshAside
<1>5. CASE StartReset \/ RedisLost
  BY <1>5 DEF StartReset, RedisLost
<1>6. CASE DeleteOrders \/ RestoreRows \/ DeleteStock \/ DeleteBought \/ DeleteLocks \/ DeleteGuards
  <2>1. fresh /\ script.job = "reset"
    BY <1>6 DEF DeleteOrders, RestoreRows, DeleteStock, DeleteBought, DeleteLocks, DeleteGuards,
       RoundsInvariant, ScriptInvariant, RoundsTypeOK, Jobs
  <2> QED
    BY <2>1 DEF FreshInvariant
<1>7. CASE UNCHANGED allVars
  <2>1. fresh /\ script'.job # "reset"
    BY <1>7 DEF FreshInvariant
  <2> QED
    BY <1>7, <2>1, FreshAside
<1> QED
  BY <1>1, <1>2, <1>3, <1>4, <1>5, <1>6, <1>7 DEF RoundsNext, ScriptNext

LEMMA FreshHolds ==
  ASSUME Smooth
  PROVE  RoundsSpec => [](ResetProgress /\ FreshInvariant)
<1>1. RoundsInit => ResetProgress /\ FreshInvariant
  BY DEF RoundsInit, NoScript, ResetProgress, FreshInvariant
<1>2. RoundsInvariant /\ ResetProgress /\ FreshInvariant /\ [RoundsNext]_allVars =>
        ResetProgress' /\ FreshInvariant'
  BY ProgressStays, FreshStays
<1> QED
  BY <1>1, <1>2, RoundsInvariantHolds, PTL DEF RoundsSpec

\* Distinct buyers have distinct requests.
LEMMA BuyersCounted ==
  ASSUME NEW S \in SUBSET Requests
  PROVE  LET T == {UserOf[r] : r \in S}
         IN /\ IsFiniteSet(S) /\ IsFiniteSet(T)
            /\ Cardinality(S) \in Nat /\ Cardinality(T) \in Nat
            /\ (\A a, b \in S : UserOf[a] = UserOf[b] => a = b) => Cardinality(T) = Cardinality(S)
<1> DEFINE T == {UserOf[r] : r \in S}
           f == [r \in S |-> UserOf[r]]
<1>1. IsFiniteSet(S)
  BY FS_Subset
<1>2. f \in Surjection(S, T)
  <2>1. f \in [S -> T] /\ \A t \in T : \E r \in S : f[r] = t
    OBVIOUS
  <2> QED
    BY <2>1 DEF Surjection
<1>3. (\A a, b \in S : UserOf[a] = UserOf[b] => a = b) => f \in Injection(S, T)
  <2>1. f \in [S -> T] /\ DOMAIN f = S /\ \A a \in S : f[a] = UserOf[a]
    OBVIOUS
  <2> HIDE DEF f
  <2> QED
    BY <2>1 DEF Injection, IsInjective
<1> HIDE DEF T, f
<1>4. IsFiniteSet(T) /\ (f \in Injection(S, T) => Cardinality(T) = Cardinality(S))
  BY <1>1, <1>2, FS_Surjection
<1> QED
  BY <1>1, <1>3, <1>4, FS_CardinalityType DEF T

\* The thresholds of the load test: the round sells to each buyer, or all there
\* is, answers 202 once for each unit sold and 503 to nobody.  Without faults
\* every claim is sold in the end, as nothing else takes a unit from anybody, and
\* who has none was told the truth.
THEOREM RoundsSellOut ==
  ASSUME Smooth
  PROVE  RoundsSpec => []RoundSellsOut
<1>1. ASSUME RoundsInvariant, FreshInvariant PROVE RoundSellsOut
  <2> SUFFICES ASSUME fresh, RoundOver
               PROVE  LET sold == IF Cardinality(Buyers) < Stock THEN Cardinality(Buyers) ELSE Stock
                      IN Cardinality(orders) = sold /\ Count(202) = sold /\ Count(503) = 0
    BY DEF RoundSellsOut
  <2>1. /\ seeded /\ AnswersAreTrue /\ HeldIsHandled /\ SoldIsClaimed /\ NoUnitReturnedTwice
        /\ RedisTypeOK /\ Exclusive /\ before \subseteq Requests
    BY <1>1, SmoothIs DEF FreshInvariant, ReservationInvariant, ExclusionInvariant, LockStays,
       RoundsInvariant, PathInvariant, TypeOK, RoundsTypeOK
  <2>2. orders = claims
    <3>1. ASSUME NEW r \in Requests PROVE ~Held(r)
      BY <2>1 DEF HeldIsHandled, Tried, RoundOver, Answers, IsLive
    <3> QED
      BY <2>1, <3>1 DEF Held, SoldIsClaimed, RedisTypeOK
  <2>3. \A r \in Made : pc[r] \in {"accepted", "purchased", "inFlight", "soldOut"}
    BY <2>1 DEF Made, AnswersAreTrue, RoundOver, Answers
  <2>4. claims = {r \in Made : pc[r] = "accepted"} /\ Made \subseteq Requests
    BY <2>1, <2>3 DEF Made, AnswersAreTrue
  <2>5. Count(202) = Cardinality(claims)
    <3>1. \A r \in Made : Status(pc[r]) = 202 <=> pc[r] = "accepted"
      BY <2>3 DEF Status
    <3> QED
      BY <2>4, <3>1 DEF Count
  <2>6. Count(503) = 0
    <3>1. \A r \in Made : Status(pc[r]) # 503
      BY <2>3 DEF Status
    <3>2. {r \in Made : Status(pc[r]) = 503} = {}
      BY <3>1
    <3> QED
      BY <3>2, FS_EmptySet DEF Count
  <2> DEFINE owners == {UserOf[r] : r \in claims}
  <2>7. /\ IsFiniteSet(Buyers) /\ Cardinality(Buyers) \in Nat
        /\ Cardinality(claims) \in Nat /\ Cardinality(owners) = Cardinality(claims)
    BY <2>1, <2>4, BuyersCounted DEF Buyers, Exclusive, RedisTypeOK
  <2>8. owners \subseteq Buyers
    BY <2>4 DEF Buyers
  <2>9. counter # 0 => owners = Buyers
    <3> SUFFICES ASSUME counter # 0, NEW r \in Made PROVE UserOf[r] \in owners
      BY <2>8 DEF Buyers
    <3>1. CASE pc[r] = "accepted"
      BY <2>4, <3>1
    <3>2. CASE pc[r] = "purchased"
      BY <2>1, <2>2, <3>2 DEF AnswersAreTrue, Made, Ordered
    <3>3. CASE pc[r] = "inFlight"
      BY <2>1, <3>3 DEF AnswersAreTrue, Made
    <3>4. CASE pc[r] = "soldOut"
      BY <2>1, <3>4 DEF AnswersAreTrue, Made
    <3> QED
      BY <2>3, <3>1, <3>2, <3>3, <3>4
  <2>10. counter \in Nat /\ counter + Cardinality(claims) = Stock
    BY <2>1 DEF NoUnitReturnedTwice, RedisTypeOK
  <2>11. Cardinality(owners) <= Cardinality(Buyers)
    BY <2>7, <2>8, FS_Subset
  <2> HIDE DEF owners
  <2>12. Cardinality(claims) = IF Cardinality(Buyers) < Stock THEN Cardinality(Buyers) ELSE Stock
    <3>1. CASE counter = 0
      BY <2>7, <2>10, <2>11, <3>1
    <3>2. CASE counter # 0
      BY <2>7, <2>9, <2>10, <3>2
    <3> QED
      BY <3>1, <3>2
  <2> QED
    BY <2>2, <2>5, <2>6, <2>12
<1> QED
  BY <1>1, RoundsInvariantHolds, FreshHolds, PTL
=============================================================================
