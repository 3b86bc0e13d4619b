------------------------- MODULE ReservationProofs -------------------------
(***************************************************************************)
(* What OrderFlow guarantees between Redis and PostgreSQL when no fault is *)
(* ambiguous, for every number of requests, users, slots and units.        *)
(***************************************************************************)
EXTENDS OrderFlowProofs

USE RequestAssumption, StockAssumption, QueueAssumption
USE DEF vars, redisVars, dbVars, apiVars, workerVars, Goto, WGoto, WIdle, WUser

-----------------------------------------------------------------------------
(* Reservations add up *)

\* A gatekeeper that is sent again meets the lock of its first run.
LEMMA RunsAgainInVain ==
  ASSUME PathInvariant, ApiHolds, NEW r \in Requests, pc[r] = "resent", GatekeeperScript(r)
  PROVE  /\ UNCHANGED redisVars
         /\ AfterVerdict(Verdict(r)) \in {"inFlight", "purchased", "unavailable"}
<1>1. lock[UserOf[r]] # None
  BY DEF ApiHolds
<1> QED
  BY <1>1 DEF GatekeeperScript, Verdict, AfterVerdict

\* createOrder touches no unit but its own: it takes one while its request has
\* none, and gives it back only while it has it.
LEMMA ApiUnits ==
  ASSUME NoAmbiguity, PathInvariant, HoldInvariant, NEW r \in Requests, ApiNext(r)
  PROVE  /\ UNCHANGED <<dbVars, workerVars>>
         /\ \/ UNCHANGED redisVars
            \/ /\ pc[r] = "idle" /\ seeded /\ claims' = claims \cup {r} /\ UNCHANGED seeded
               /\ pc'[r] \in {"reserved", "unsure", "resent"}
               /\ counter > 0 /\ counter' = counter - 1
            \/ /\ pc[r] \in {"unsure", "notEnqueued", "duplicate"} /\ r \in claims
               /\ claims' = claims \ {r} /\ counter' = counter + 1 /\ seeded'
<1> USE DEF HoldInvariant, ApiNext, CallGatekeeper, GatekeeperReplyLost, GatekeeperNotRun,
            GatekeeperResent, GatekeeperRunsAgain, CompensateIfReserved, Enqueue, EnqueueFails,
            VerifyStoredJob, ReadJobFails, Compensate, CompensationResent, CompensationFails,
            Compensating, ApiCrash
<1>1. RedisTypeOK /\ LockProvesClaim /\ pc \in [Requests -> {"idle"} \cup Pending \cup Answers]
  BY DEF PathInvariant, TypeOK
<1>2. CASE pc[r] = "idle" /\ (CallGatekeeper(r) \/ GatekeeperReplyLost(r) \/ GatekeeperResent(r))
  BY <1>1, <1>2 DEF GatekeeperScript, Verdict, AfterVerdict, RedisTypeOK
<1>3. CASE CompensateIfReserved(r)
  BY <1>1, <1>3 DEF CompensateIfReservedScript, ReservationProved, Restore, LockProvesClaim
<1>4. CASE Compensate(r)
  BY <1>1, <1>4 DEF NoAmbiguity, AmbiguousFaults, CompensateScript, Restore, ApiHolds
<1>5. CASE pc[r] = "resent" /\ (GatekeeperRunsAgain(r) \/ GatekeeperReplyLost(r))
  BY <1>1, <1>5, RunsAgainInVain
<1>6. ~ CompensationResent(r)
  BY DEF NoAmbiguity, AmbiguousFaults
<1> QED
  BY <1>2, <1>3, <1>4, <1>5, <1>6

\* createOrder adds a job for its own request, where there is none.
LEMMA ApiJobs ==
  ASSUME NoAmbiguity, PathInvariant, NEW r \in Requests, ApiNext(r)
  PROVE  /\ \/ UNCHANGED job
            \/ /\ pc[r] = "reserved" /\ pc'[r] = "verify" /\ job[UserOf[r]].state = "none"
               /\ job' = [job EXCEPT ![UserOf[r]] = [NoJob EXCEPT !.state = "waiting", !.token = r]]
         /\ \A u \in Users : job[u].state # "none" => job'[u] = job[u]
         /\ \A u \in Users : job'[u] = job[u] \/ (pc[r] = "reserved" /\ pc'[r] = "verify"
                             /\ u = UserOf[r] /\ job'[u].state = "waiting" /\ job'[u].token = r)
<1> USE DEF ApiNext, CallGatekeeper, GatekeeperReplyLost, GatekeeperNotRun, GatekeeperResent,
            GatekeeperRunsAgain, CompensateIfReserved, Enqueue, EnqueueFails, VerifyStoredJob,
            ReadJobFails, Compensate, CompensationResent, CompensationFails, Compensating, ApiCrash
<1>1. QueueTypeOK /\ pc \in [Requests -> {"idle"} \cup Pending \cup Answers]
  BY DEF PathInvariant, TypeOK
<1>2. \/ UNCHANGED job
      \/ /\ pc[r] = "reserved" /\ pc'[r] = "verify" /\ job[UserOf[r]].state = "none"
         /\ job' = [job EXCEPT ![UserOf[r]] = [NoJob EXCEPT !.state = "waiting", !.token = r]]
  BY <1>1 DEF NoAmbiguity, AmbiguousFaults, AddJob
<1>3. /\ \A u \in Users : job[u].state # "none" => job'[u] = job[u]
      /\ \A u \in Users : job'[u] = job[u] \/ (pc[r] = "reserved" /\ pc'[r] = "verify"
                          /\ u = UserOf[r] /\ job'[u].state = "waiting" /\ job'[u].token = r)
  <2>1. CASE UNCHANGED job
    BY <2>1
  <2>2. CASE ~ UNCHANGED job
    <3> DEFINE new == [NoJob EXCEPT !.state = "waiting", !.token = r]
    <3>1. new.state = "waiting" /\ new.token = r
      BY DEF NoJob
    <3>2. job[UserOf[r]].state = "none" /\ job' = [job EXCEPT ![UserOf[r]] = new]
      BY <1>2, <2>2
    <3>3. pc[r] = "reserved" /\ pc'[r] = "verify"
      BY <1>2, <2>2
    <3> HIDE DEF new
    <3> QED
      BY <1>1, <3>1, <3>2, <3>3 DEF QueueTypeOK
  <2> QED
    BY <2>1, <2>2
<1> QED
  BY <1>2, <1>3

\* A step of createOrder leaves every unit where it is or takes its own along.
LEMMA ApiHolding ==
  ASSUME NoAmbiguity, PathInvariant, HoldInvariant, NEW r \in Requests, ApiNext(r)
  PROVE  HoldInvariant'
<1> USE DEF HoldInvariant, ApiNext, CallGatekeeper, GatekeeperReplyLost, GatekeeperNotRun,
            GatekeeperResent, GatekeeperRunsAgain, CompensateIfReserved, Enqueue, EnqueueFails,
            VerifyStoredJob, ReadJobFails, Compensate, CompensationResent, CompensationFails,
            Compensating, ApiCrash
<1>1. /\ RedisTypeOK /\ QueueTypeOK /\ DBTypeOK /\ LockProvesClaim /\ JobsFiled
      /\ wpc \in [Workers -> WorkerStates] /\ wtok \in [Workers -> Requests \cup {None}]
      /\ pc \in [Requests -> {"idle"} \cup Pending \cup Answers]
      /\ TokensKnown
  BY DEF PathInvariant, TypeOK
<1>2. UNCHANGED <<dbVars, workerVars>>
  OBVIOUS
<1>3. \/ UNCHANGED redisVars
      \/ /\ pc[r] = "idle" /\ seeded /\ claims' = claims \cup {r} /\ UNCHANGED seeded
         /\ pc'[r] \in {"reserved", "unsure", "resent"}
         /\ counter > 0 /\ counter' = counter - 1
      \/ /\ pc[r] \in {"unsure", "notEnqueued", "duplicate"} /\ r \in claims
         /\ claims' = claims \ {r} /\ counter' = counter + 1 /\ seeded'
  BY ApiUnits
<1>4. \A q \in Requests : q # r => (q \in claims' <=> q \in claims) /\ pc'[q] = pc[q]
  BY <1>1, <1>3
<1>5. \/ UNCHANGED job
      \/ /\ pc[r] = "reserved" /\ pc'[r] = "verify" /\ job[UserOf[r]].state = "none"
         /\ job' = [job EXCEPT ![UserOf[r]] = [NoJob EXCEPT !.state = "waiting", !.token = r]]
  BY ApiJobs
<1>6. /\ \A u \in Users : job[u].state # "none" => job'[u] = job[u]
      /\ \A u \in Users : job'[u] = job[u] \/ (pc[r] = "reserved" /\ pc'[r] = "verify"
                          /\ u = UserOf[r] /\ job'[u].state = "waiting" /\ job'[u].token = r)
  BY ApiJobs
<1>7. \A q \in Requests : Stored(q) => (q \in claims' <=> q \in claims)
  BY <1>3 DEF ApiHolds
<1>8. ApiHolds'
  <2> SUFFICES ASSUME NEW q \in Requests
               PROVE  /\ pc'[q] = "idle" => q \notin claims'
                      /\ pc'[q] = "resent" => lock'[UserOf[q]] = q /\ "GatekeeperResent" \in Faults
                      /\ pc'[q] \notin {"notEnqueuedAgain", "duplicateAgain"}
                      /\ pc'[q] \in {"reserved", "notEnqueued", "duplicate"} => q \in claims'
                      /\ Stored(q)' \/ q \in orders' => pc'[q] \in {"verify", "accepted", "dead"}
                      /\ pc'[q] = "verify" =>
                           job'[UserOf[q]].state # "none" /\ (Stored(q)' \/ Held(q)')
    BY DEF ApiHolds
  <2>1. CASE q # r
    <3>1. Stored(q)' <=> Stored(q)
      BY <1>6, <2>1 DEF Stored
    <3>2. pc[q] = "resent" => lock'[UserOf[q]] = q
      <4>1. UNCHANGED lock \/ GatekeeperScript(r) \/ CompensateScript(r) \/ CompensateIfReservedScript(r)
        OBVIOUS
      <4> QED
        BY <1>1, <2>1, <4>1, ScriptsDropOwnLocks DEF ApiHolds
    <3> QED
      BY <1>2, <1>4, <1>6, <2>1, <3>1, <3>2 DEF ApiHolds, Held
  <2>2. CASE q = r
    <3>1. orders' = orders /\ ~(pc[r] # "reserved" /\ Stored(r)' /\ ~Stored(r))
      BY <1>2, <1>6 DEF Stored
    <3>2. CASE \/ CallGatekeeper(r) \/ GatekeeperReplyLost(r) \/ GatekeeperNotRun(r)
               \/ GatekeeperResent(r) \/ GatekeeperRunsAgain(r)
      <4>1. \/ pc'[r] \in {"purchased", "inFlight", "soldOut", "unavailable", "unsure"}
            \/ pc'[r] = "reserved" /\ r \in claims'
            \/ pc'[r] = "resent" /\ lock'[UserOf[r]] = r /\ "GatekeeperResent" \in Faults
        <5>1. CASE pc[r] = "resent"
          BY <1>1, <3>2, <5>1, RunsAgainInVain
        <5>2. CASE pc[r] = "idle"
          BY <1>1, <3>2, <5>2 DEF AfterVerdict, Verdict, GatekeeperScript, RedisTypeOK
        <5> QED
          BY <3>2, <5>1, <5>2
      <4>2. ~Stored(r)' /\ r \notin orders'
        BY <3>1, <3>2 DEF ApiHolds
      <4> QED
        BY <2>2, <4>1, <4>2
    <3>3. CASE Enqueue(r)
      BY <1>1, <1>2, <1>5, <1>6, <2>2, <3>1, <3>3 DEF ApiHolds, Held, Stored, AddJob, QueueTypeOK,
           NoJob
    <3>4. CASE EnqueueFails(r)
      BY <1>1, <1>2, <1>5, <2>2, <3>1, <3>4 DEF ApiHolds, Stored
    <3>5. CASE VerifyStoredJob(r) \/ ReadJobFails(r)
      BY <1>1, <1>2, <2>2, <3>1, <3>5 DEF ApiHolds, Held, Stored
    <3>6. CASE CompensateIfReserved(r) \/ Compensate(r) \/ CompensationFails(r)
      BY <1>1, <1>2, <2>2, <3>1, <3>6 DEF ApiHolds, AfterCompensation
    <3>8. ~ CompensationResent(r)
      BY DEF NoAmbiguity, AmbiguousFaults
    <3>7. CASE ApiCrash(r)
      BY <1>1, <1>2, <2>2, <3>1, <3>7 DEF ApiHolds, Pending
    <3> QED
      BY <3>2, <3>3, <3>4, <3>5, <3>6, <3>7, <3>8
  <2> QED
    BY <2>1, <2>2
<1>9. WorkerOwns'
  <2> HIDE DEF ApiNext, CallGatekeeper, GatekeeperReplyLost, GatekeeperNotRun, GatekeeperResent,
           GatekeeperRunsAgain, CompensateIfReserved, Enqueue, EnqueueFails, VerifyStoredJob,
           ReadJobFails, Compensate, CompensationResent, CompensationFails, Compensating, ApiCrash
  <2>1. \A u \in Users : (job[u].state = "active" \/ job'[u].state = "active") => job'[u] = job[u]
    BY <1>6
  <2>2. \A w \in Workers : wpc[w] # "idle" => UserOf[wtok[w]] \in Users
    BY <1>1 DEF TokensKnown
  <2> QED
    BY <1>2, <2>1, <2>2 DEF WorkerOwns, Owns
<1>10. JobHolds'
  <2>1. ASSUME NEW q \in Requests, Stored(q), Held(q)
        PROVE  Held(q)'
    BY <1>2, <1>7, <2>1 DEF Held
  <2>2. ASSUME NEW u \in Users, job'[u].state \in {"waiting", "delayed"}
        PROVE  Held(job[u].token)'
    BY <1>1, <1>2, <1>3, <1>6, <2>1, <2>2 DEF JobHolds, JobsFiled, Stored, Held, ApiHolds
  <2>3. \A w \in Workers : wpc[w] # "idle" => Stored(wtok[w])
    BY <1>1 DEF WorkerOwns, Owns, Stored, TokensKnown
  <2> QED
    BY <1>1, <1>2, <2>1, <2>2, <2>3 DEF JobHolds, TokensKnown, IsFinalAttempt
<1> QED
  BY <1>8, <1>9, <1>10

\* A step of createOrder keeps the reservations in order.
LEMMA ApiReservations ==
  ASSUME NoAmbiguity, WriteInvariant, ReservationInvariant, NEW r \in Requests, ApiNext(r)
  PROVE  ReservationInvariant'
<1> USE DEF ReservationInvariant, HoldInvariant
<1>1. PathInvariant /\ RedisTypeOK /\ DBTypeOK
  BY DEF WriteInvariant, PathInvariant, TypeOK
<1>2. UNCHANGED <<dbVars, workerVars>>
  BY <1>1, ApiUnits
<1>3. \/ UNCHANGED redisVars
      \/ /\ pc[r] = "idle" /\ seeded /\ claims' = claims \cup {r} /\ UNCHANGED seeded
         /\ pc'[r] \in {"reserved", "unsure", "resent"}
         /\ counter > 0 /\ counter' = counter - 1
      \/ /\ pc[r] \in {"unsure", "notEnqueued", "duplicate"} /\ r \in claims
         /\ claims' = claims \ {r} /\ counter' = counter + 1 /\ seeded'
  BY <1>1, ApiUnits
<1>4. NoUnitReturnedTwice'
  <2>1. IsFiniteSet(claims) /\ Cardinality(claims) \in Nat /\ counter \in Nat
    BY <1>1, FS_Subset, FS_CardinalityType DEF RedisTypeOK
  <2>2. CASE UNCHANGED redisVars
    BY <2>2 DEF NoUnitReturnedTwice
  <2>3. CASE seeded /\ r \notin claims /\ claims' = claims \cup {r} /\ counter' = counter - 1
    <3>1. Cardinality(claims') = Cardinality(claims) + 1
      BY <2>1, <2>3, FS_AddElement
    <3>2. counter + Cardinality(claims) = Stock
      BY <2>3 DEF NoUnitReturnedTwice
    <3>3. counter' + Cardinality(claims') = Stock
      BY <2>1, <2>3, <3>1, <3>2
    <3> QED
      BY <3>3 DEF NoUnitReturnedTwice
  <2>4. CASE seeded /\ r \in claims /\ claims' = claims \ {r} /\ counter' = counter + 1
    <3>1. Cardinality(claims') = Cardinality(claims) - 1
      BY <2>1, <2>4, FS_RemoveElement
    <3>2. counter + Cardinality(claims) = Stock
      BY <2>4 DEF NoUnitReturnedTwice
    <3>3. counter' + Cardinality(claims') = Stock
      BY <2>1, <2>4, <3>1, <3>2
    <3> QED
      BY <3>3 DEF NoUnitReturnedTwice
  <2> QED
    BY <1>3, <2>2, <2>3, <2>4 DEF ApiHolds, SeedFirst
<1>5. SoldIsClaimed'
  BY <1>1, <1>2, <1>3 DEF SoldIsClaimed, ApiHolds
<1>6. AdmittedFindsStock'
  BY <1>2 DEF AdmittedFindsStock
<1>7. SeedFirst'
  BY <1>3 DEF SeedFirst
<1> QED
  BY <1>1, <1>4, <1>5, <1>6, <1>7, ApiHolding

\* A taken job is active, owned, and otherwise as it was; no other job changes.
LEMMA JobTaken ==
  ASSUME QueueTypeOK, NEW w \in Workers, NEW u \in Users, TakeJob(w, u)
  PROVE  /\ \A v \in Users : job'[v].token = job[v].token
         /\ \A v \in Users : job'[v].state = "none" <=> job[v].state = "none"
         /\ \A v \in Users : v # u => job'[v] = job[v]
         /\ job'[u].state = "active" /\ job'[u].owner = w
<1> DEFINE new == [job[u] EXCEPT !.state = "active", !.owner = w]
<1>1. job \in [Users -> Job] /\ job[u] \in Job /\ job[u].state = "waiting"
  BY DEF QueueTypeOK, TakeJob
<1>2. new.token = job[u].token /\ new.state = "active" /\ new.owner = w
  BY <1>1 DEF Job
<1>3. job' = [job EXCEPT ![u] = new]
  BY DEF TakeJob
<1> HIDE DEF new
<1> QED
  BY <1>1, <1>2, <1>3

\* Whatever the handler answers, its job leaves the active state and no other
\* job changes.
LEMMA JobEnds ==
  ASSUME QueueTypeOK, NEW w \in Workers, NEW u \in Users, NEW made \in Nat, Owns(w, u),
         CompleteJob(w, u) \/ FailJob(w, u, made)
  PROVE  /\ \A v \in Users : job'[v].token = job[v].token
         /\ \A v \in Users : job'[v].state = "none" <=> job[v].state = "none"
         /\ \A v \in Users : v # u => job'[v] = job[v]
         /\ CompleteJob(w, u) => job'[u].state = "completed"
         /\ FailJob(w, u, made) => job'[u].state = StateAfterFailure(made)
<1>1. job \in [Users -> Job] /\ job[u] \in Job /\ job[u].state = "active"
  BY DEF QueueTypeOK, Owns
<1> DEFINE OnlyThis(states) == /\ \A v \in Users : job'[v].token = job[v].token
                               /\ \A v \in Users : v # u => job'[v] = job[v]
                               /\ job'[u].state \in states
<1>2. ASSUME CompleteJob(w, u) PROVE OnlyThis({"completed"})
  <2> DEFINE new == [job[u] EXCEPT !.state = "completed", !.owner = None]
  <2>1. new.token = job[u].token /\ new.state = "completed"
    BY <1>1 DEF Job
  <2>2. job' = [job EXCEPT ![u] = new]
    BY <1>2 DEF CompleteJob
  <2> HIDE DEF new
  <2> QED
    BY <1>1, <2>1, <2>2
<1>3. ASSUME FailJob(w, u, made)
      PROVE  OnlyThis({"delayed", "failed"}) /\ job'[u].state = StateAfterFailure(made)
  <2> DEFINE after == StateAfterFailure(made)
             more == made + 1
             new == [job[u] EXCEPT !.state = after, !.made = more, !.owner = None]
  <2>1. after \in {"delayed", "failed"} /\ more \in Nat
    BY DEF StateAfterFailure
  <2>2. job' = [job EXCEPT ![u] = new]
    BY <1>3 DEF FailJob
  <2> HIDE DEF after, more
  <2>3. new.token = job[u].token /\ new.state = after
    BY <1>1, <2>1 DEF Job
  <2> HIDE DEF new
  <2>4. job'[u].state = StateAfterFailure(made)
    BY <1>1, <2>2, <2>3 DEF after
  <2> QED
    BY <1>1, <1>3, <2>1, <2>2, <2>3, <2>4
<1> QED
  BY <1>1, <1>2, <1>3

\* A worker step gives back or sells at most the unit of the job it works on.
LEMMA WorkerUnits ==
  ASSUME NoAmbiguity, PathInvariant, HoldInvariant, NEW w \in Workers, WorkerNext(w)
  PROVE  \/ UNCHANGED <<seeded, counter, claims, orders>>
         \/ /\ wpc[w] = "compensate" /\ wpc'[w] = "throw" /\ wtok[w] \in claims
            /\ claims' = claims \ {wtok[w]} /\ counter' = counter + 1
            /\ seeded' /\ UNCHANGED <<orders, wtok, wmade>>
         \/ /\ wpc[w] = "commit" /\ wpc'[w] = "mark" /\ wtok[w] \in claims
            /\ UNCHANGED <<seeded, counter, claims>> /\ orders' = orders \cup {wtok[w]}
<1> USE DEF HoldInvariant, WorkerNext, WorkerTake, BeginTransaction, BeginFails,
            UpdateStock, UpdateSoldOut, InsertOrder, InsertViolatesUnique, CommitOrder,
            CommitReplyLost, TransactionFails, CompensateOnce, CompensateOnceFails, ThrowToQueue,
            MarkBought, ReleaseInFlightLock, PostCommitFails, ReturnToQueue, WorkerCrash
<1>1. wpc \in [Workers -> WorkerStates] /\ ~CommitReplyLost(w) /\ ~WorkerCrash(w)
  BY DEF PathInvariant, TypeOK, NoAmbiguity, AmbiguousFaults
<1>2. CASE CompensateOnce(w)
  <2>1. wtok[w] \in claims /\ wpc[w] = "compensate" /\ wpc'[w] = "throw"
    BY <1>1, <1>2 DEF JobHolds, Held
  <2>2. CASE UNCHANGED redisVars
    BY <1>2, <2>2
  <2>3. CASE Restore(wtok[w])
    BY <1>2, <2>1, <2>3 DEF Restore
  <2> QED
    BY <1>2, <2>2, <2>3 DEF CompensateOnceScript, GuardTaken
<1>3. CASE CommitOrder(w)
  BY <1>1, <1>3 DEF CommitOrderRow, JobHolds, Held
<1>4. CASE ~CompensateOnce(w) /\ ~CommitOrder(w)
  BY <1>1, <1>4 DEF DecrementRow, RollbackTransaction, MarkBoughtCommand, ReleaseLockScript
<1> QED
  BY <1>2, <1>3, <1>4

\* A busy worker slot owns the stored job of its token; it takes a job, ends its
\* own or changes none.
LEMMA WorkerJobs ==
  ASSUME NoAmbiguity, PathInvariant, WorkerOwns, NEW w \in Workers, WorkerNext(w)
  PROVE  /\ wpc[w] # "idle" => /\ wtok[w] \in Requests /\ WUser(w) \in Users /\ Owns(w, WUser(w))
                               /\ job[WUser(w)].token = wtok[w] /\ Stored(wtok[w])
         /\ \/ UNCHANGED job /\ wpc[w] # "idle" /\ wpc'[w] # "idle" /\ UNCHANGED <<wtok, wmade>>
            \/ \E u \in Users : WorkerTake(w, u)
            \/ /\ wpc[w] \in {"throw", "return", "returnSoldOut"} /\ WIdle(w)
               /\ \/ CompleteJob(w, WUser(w))
                  \/ wpc[w] = "throw" /\ FailJob(w, WUser(w), wmade[w])
         /\ \A u \in Users : job'[u].token = job[u].token
         /\ \A u \in Users : job'[u].state = "none" <=> job[u].state = "none"
         /\ \A q \in Requests : Stored(q)' <=> Stored(q)
<1> USE DEF WorkerNext, WorkerTake, BeginTransaction, BeginFails,
            UpdateStock, UpdateSoldOut, InsertOrder, InsertViolatesUnique, CommitOrder,
            CommitReplyLost, TransactionFails, CompensateOnce, CompensateOnceFails, ThrowToQueue,
            MarkBought, ReleaseInFlightLock, PostCommitFails, ReturnToQueue, WorkerCrash
<1>1. /\ QueueTypeOK /\ TokensKnown /\ wpc \in [Workers -> WorkerStates]
      /\ wtok \in [Workers -> Requests \cup {None}] /\ wmade \in [Workers -> Nat]
  BY DEF PathInvariant, TypeOK
<1>2. ~CommitReplyLost(w) /\ ~WorkerCrash(w)
  BY DEF NoAmbiguity, AmbiguousFaults
<1>3. wpc[w] # "idle" => /\ wtok[w] \in Requests /\ WUser(w) \in Users /\ Owns(w, WUser(w))
                         /\ job[WUser(w)].token = wtok[w] /\ Stored(wtok[w])
  BY <1>1 DEF WorkerOwns, TokensKnown, Owns, Stored
<1>4. \/ UNCHANGED job /\ wpc[w] # "idle" /\ wpc'[w] # "idle" /\ UNCHANGED <<wtok, wmade>>
      \/ \E u \in Users : WorkerTake(w, u)
      \/ /\ wpc[w] \in {"throw", "return", "returnSoldOut"} /\ WIdle(w)
         /\ \/ CompleteJob(w, WUser(w))
            \/ wpc[w] = "throw" /\ FailJob(w, WUser(w), wmade[w])
  BY <1>1, <1>2 DEF AfterTransientError
<1>5. /\ \A u \in Users : job'[u].token = job[u].token
      /\ \A u \in Users : job'[u].state = "none" <=> job[u].state = "none"
  <2>1. CASE \E u \in Users : WorkerTake(w, u)
    BY <2>1, <1>1, JobTaken
  <2>2. CASE wpc[w] # "idle" /\ (CompleteJob(w, WUser(w)) \/ FailJob(w, WUser(w), wmade[w]))
    BY <1>1, <1>3, <2>2, JobEnds
  <2> QED
    BY <1>4, <2>1, <2>2
<1>6. \A q \in Requests : Stored(q)' <=> Stored(q)
  BY <1>5 DEF Stored
<1> QED
  BY <1>3, <1>4, <1>5, <1>6

\* A worker slot takes along the unit of its job, and no other.
LEMMA WorkerHolding ==
  ASSUME NoAmbiguity, PathInvariant, HoldInvariant, NEW w \in Workers, WorkerNext(w)
  PROVE  HoldInvariant'
<1> USE DEF HoldInvariant, WorkerNext, WorkerTake, BeginTransaction, BeginFails,
            UpdateStock, UpdateSoldOut, InsertOrder, InsertViolatesUnique, CommitOrder,
            CommitReplyLost, TransactionFails, CompensateOnce, CompensateOnceFails, ThrowToQueue,
            MarkBought, ReleaseInFlightLock, PostCommitFails, ReturnToQueue, WorkerCrash
<1>1. /\ RedisTypeOK /\ QueueTypeOK /\ DBTypeOK /\ JobsFiled /\ TokensKnown
      /\ wpc \in [Workers -> WorkerStates] /\ wtok \in [Workers -> Requests \cup {None}]
      /\ wmade \in [Workers -> Nat]
  BY DEF PathInvariant, TypeOK
<1>2. /\ UNCHANGED pc
      /\ \A v \in Workers : v # w => wpc'[v] = wpc[v] /\ wtok'[v] = wtok[v] /\ wmade'[v] = wmade[v]
  BY <1>1
<1>3. ~CommitReplyLost(w) /\ ~WorkerCrash(w)
  BY DEF NoAmbiguity, AmbiguousFaults
<1>4. wpc[w] # "idle" => /\ wtok[w] \in Requests /\ WUser(w) \in Users /\ Owns(w, WUser(w))
                         /\ job[WUser(w)].token = wtok[w] /\ Stored(wtok[w])
  BY WorkerJobs
<1>5. \A v \in Workers : v # w /\ wpc[v] # "idle" /\ wpc[w] # "idle" => wtok[v] # wtok[w]
  BY <1>4 DEF WorkerOwns, Owns
<1>6. \/ UNCHANGED <<seeded, counter, claims, orders>>
      \/ /\ wpc[w] = "compensate" /\ wpc'[w] = "throw" /\ wtok[w] \in claims
         /\ claims' = claims \ {wtok[w]} /\ counter' = counter + 1
         /\ seeded' /\ UNCHANGED <<orders, wtok, wmade>>
      \/ /\ wpc[w] = "commit" /\ wpc'[w] = "mark" /\ wtok[w] \in claims
         /\ UNCHANGED <<seeded, counter, claims>> /\ orders' = orders \cup {wtok[w]}
  BY WorkerUnits
<1>7. \A q \in Requests : \/ q = wtok[w] /\ wpc[w] # "idle"
                          \/ (q \in claims' <=> q \in claims) /\ (q \in orders' <=> q \in orders)
  BY <1>6
\* What happens to jobs: nothing, or one is taken, or one ends.
<1>8. \/ UNCHANGED job /\ wpc[w] # "idle" /\ wpc'[w] # "idle" /\ UNCHANGED <<wtok, wmade>>
      \/ \E u \in Users : WorkerTake(w, u)
      \/ /\ wpc[w] \in {"throw", "return", "returnSoldOut"} /\ WIdle(w)
         /\ \/ CompleteJob(w, WUser(w))
            \/ wpc[w] = "throw" /\ FailJob(w, WUser(w), wmade[w])
  BY WorkerJobs
<1>9. /\ \A u \in Users : job'[u].token = job[u].token
      /\ \A u \in Users : job'[u].state = "none" <=> job[u].state = "none"
  BY WorkerJobs
<1>10. \A q \in Requests : Stored(q)' <=> Stored(q)
  BY WorkerJobs
<1>11. ApiHolds'
  <2>1. \A q \in Requests : pc[q] # "verify" /\ q \in claims' => q \in claims
    BY <1>6
  <2>2. wpc[w] # "idle" => pc[wtok[w]] \in {"verify", "accepted", "dead"}
    BY <1>4 DEF ApiHolds
  <2>3. \A q \in Requests : Held(q) /\ ~Stored(q) => Held(q)'
    BY <1>4, <1>7 DEF Held
  <2>4. \A q \in Requests : q \in orders' => q \in orders \/ (q = wtok[w] /\ wpc[w] # "idle")
    BY <1>7
  <2>5. \A q \in Requests : UserOf[q] \in Users
    OBVIOUS
  <2>6. \A q \in Requests : pc[q] = "resent" => lock'[UserOf[q]] = q
    <3>1. \/ UNCHANGED lock
          \/ wpc[w] # "idle" /\ (CompensateOnceScript(wtok[w]) \/ ReleaseLockScript(wtok[w]))
      BY DEF MarkBoughtCommand
    <3> QED
      BY <1>1, <1>4, <2>2, <3>1, ScriptsDropOwnLocks DEF ApiHolds
  <2> QED
    BY <1>2, <1>7, <1>9, <1>10, <2>1, <2>2, <2>3, <2>4, <2>5, <2>6 DEF ApiHolds
<1>12. WorkerOwns'
  <2> HIDE DEF WorkerNext, BeginTransaction, BeginFails, UpdateStock, UpdateSoldOut,
           InsertOrder, InsertViolatesUnique, CommitOrder, CommitReplyLost, TransactionFails,
           CompensateOnce, CompensateOnceFails, ThrowToQueue, MarkBought, ReleaseInFlightLock,
           PostCommitFails, ReturnToQueue, WorkerCrash
  <2>1. CASE UNCHANGED job /\ wpc[w] # "idle" /\ wpc'[w] # "idle" /\ UNCHANGED <<wtok, wmade>>
    <3>1. \A v \in Workers : wpc'[v] = "idle" <=> wpc[v] = "idle"
      BY <1>2, <2>1
    <3> QED
      BY <2>1, <3>1 DEF WorkerOwns, Owns
  <2>2. ASSUME NEW u \in Users, WorkerTake(w, u) PROVE WorkerOwns'
    <3>1. /\ wpc[w] = "idle" /\ wpc'[w] = "begin" /\ wtok'[w] = job[u].token
          /\ job[u].state = "waiting" /\ UserOf[wtok'[w]] = u
      BY <1>1, <2>2 DEF TakeJob, JobsFiled
    <3>2. job'[u].state = "active" /\ job'[u].owner = w /\ job'[u].token = wtok'[w]
          /\ \A v \in Users : v # u => job'[v] = job[v]
      BY <1>1, <2>2, <3>1, JobTaken
    <3>3. \A v \in Workers : v # w /\ wpc'[v] # "idle" => WUser(v) # u /\ WUser(v) \in Users
      BY <1>1, <1>2, <3>1 DEF WorkerOwns, Owns, TokensKnown
    <3>4. \A x \in Users : x # u /\ job[x].state = "active" => job[x].owner # w
      BY <3>1 DEF WorkerOwns
    <3> QED
      BY <1>2, <3>1, <3>2, <3>3, <3>4 DEF WorkerOwns, Owns
  <2>3. CASE wpc[w] # "idle" /\ WIdle(w) /\ (CompleteJob(w, WUser(w)) \/ FailJob(w, WUser(w), wmade[w]))
    <3>1. job'[WUser(w)].state # "active" /\ \A v \in Users : v # WUser(w) => job'[v] = job[v]
      BY <1>1, <1>4, <2>3, JobEnds DEF StateAfterFailure
    <3>2. wpc'[w] = "idle"
      BY <1>1, <2>3
    <3>3. \A v \in Workers : v # w /\ wpc[v] # "idle" => WUser(v) # WUser(w) /\ WUser(v) \in Users
      BY <1>1, <1>4, <2>3 DEF WorkerOwns, Owns, TokensKnown
    <3>4. \A x \in Users : x # WUser(w) /\ job[x].state = "active" => job[x].owner # w
      BY DEF WorkerOwns
    <3> QED
      BY <1>2, <3>1, <3>2, <3>3, <3>4 DEF WorkerOwns, Owns
  <2> QED
    BY <1>8, <2>1, <2>2, <2>3
<1>13. JobHolds'
  <2>1. \A q \in Requests : Held(q) /\ (q # wtok[w] \/ wpc[w] = "idle") => Held(q)'
    BY <1>7 DEF Held
  <2>2. \A q \in Requests : Held(q) /\ UNCHANGED <<claims, orders>> => Held(q)'
    BY DEF Held
  <2>3. ASSUME NEW u \in Users, job'[u].state \in {"waiting", "delayed"}
        PROVE  Held(job[u].token)'
    <3>1. job[u].token \in Requests /\ UserOf[job[u].token] = u /\ job'[u].token = job[u].token
      BY <1>1, <1>9, <2>3 DEF JobsFiled
    <3>2. CASE job[u].state \in {"waiting", "delayed"}
      <4>1. Held(job[u].token) /\ (job[u].token # wtok[w] \/ wpc[w] = "idle")
        BY <1>4, <3>1, <3>2 DEF JobHolds, Owns
      <4> QED
        BY <2>1, <3>1, <4>1
    <3>3. CASE job[u].state \notin {"waiting", "delayed"}
      <4>1. CASE UNCHANGED job
        BY <2>3, <3>3, <4>1
      <4>2. ASSUME NEW x \in Users, WorkerTake(w, x) PROVE FALSE
        <5>1. TakeJob(w, x)
          BY <4>2
        <5>2. job'[x].state = "active" /\ (u # x => job'[u] = job[u])
          BY <1>1, <5>1, JobTaken
        <5> QED
          BY <2>3, <3>3, <5>2
      <4>3. CASE /\ wpc[w] \in {"throw", "return", "returnSoldOut"} /\ WIdle(w)
                 /\ \/ CompleteJob(w, WUser(w))
                    \/ wpc[w] = "throw" /\ FailJob(w, WUser(w), wmade[w])
        <5>1. /\ \A v \in Users : v # WUser(w) => job'[v] = job[v]
              /\ \/ job'[WUser(w)].state = "completed"
                 \/ wpc[w] = "throw" /\ job'[WUser(w)].state = StateAfterFailure(wmade[w])
          BY <1>1, <1>4, <4>3, JobEnds
        <5>2. u = WUser(w) /\ wpc[w] = "throw" /\ StateAfterFailure(wmade[w]) = "delayed"
          BY <2>3, <3>3, <5>1 DEF StateAfterFailure
        <5>3. Held(wtok[w]) /\ job[u].token = wtok[w]
          BY <1>1, <1>4, <5>2 DEF JobHolds, StateAfterFailure, IsFinalAttempt
        <5> QED
          BY <1>6, <2>2, <3>1, <4>3, <5>2, <5>3
      <4> QED
        BY <1>8, <4>1, <4>2, <4>3
    <3> QED
      BY <3>2, <3>3
  <2>4. ASSUME NEW v \in Workers, v # w
        PROVE  /\ wpc'[v] \in {"begin", "update", "insert", "commit", "compensate"} => Held(wtok[v])'
               /\ wpc'[v] = "throw" /\ ~IsFinalAttempt(v)' => Held(wtok[v])'
               /\ wpc'[v] = "compensate" => IsFinalAttempt(v)'
    <3>1. wpc'[v] = wpc[v] /\ wtok'[v] = wtok[v] /\ wmade'[v] = wmade[v]
      BY <1>2, <2>4
    <3>2. wpc[v] # "idle" => wtok[v] \in Requests /\ (wtok[v] # wtok[w] \/ wpc[w] = "idle")
      BY <1>1, <1>5, <2>4 DEF TokensKnown
    <3> QED
      BY <2>1, <3>1, <3>2 DEF JobHolds, IsFinalAttempt
  <2>5. wpc'[w] \in {"begin", "update", "insert", "commit", "compensate"} => Held(wtok[w])'
    <3>1. ASSUME NEW u \in Users, WorkerTake(w, u) PROVE Held(wtok[w])'
      <4>1. job[u].state = "waiting" /\ wtok'[w] = job[u].token /\ wpc[w] = "idle"
        BY <1>1, <3>1 DEF TakeJob
      <4>2. Held(job[u].token) /\ job[u].token \in Requests
        BY <1>1, <4>1 DEF JobHolds, JobsFiled
      <4> QED
        BY <2>1, <4>1, <4>2
    <3>2. ASSUME ~(\E u \in Users : WorkerTake(w, u)),
                 wpc'[w] \in {"begin", "update", "insert", "commit", "compensate"}
          PROVE  /\ wpc[w] \in {"begin", "update", "insert", "commit"}
                 /\ wtok'[w] = wtok[w] /\ UNCHANGED <<claims, orders>>
      BY <1>1, <1>3, <1>6, <3>2
    <3>3. wpc[w] \in {"begin", "update", "insert", "commit"} => Held(wtok[w])
      BY DEF JobHolds
    <3> QED
      BY <1>1, <2>2, <3>1, <3>2, <3>3 DEF TokensKnown
  <2>6. wpc'[w] = "throw" /\ ~IsFinalAttempt(w)' => Held(wtok[w])'
    <3> SUFFICES ASSUME wpc'[w] = "throw", ~IsFinalAttempt(w)' PROVE Held(wtok[w])'
      OBVIOUS
    <3>1. wtok'[w] = wtok[w] /\ wmade'[w] = wmade[w]
          /\ wpc[w] \in {"begin", "update", "insert", "commit", "compensate"}
      BY <1>1, <1>3
    <3>2. wpc[w] # "compensate"
      BY <3>1 DEF JobHolds, IsFinalAttempt
    <3>3. Held(wtok[w]) /\ UNCHANGED <<claims, orders>> /\ wtok[w] \in Requests
      BY <1>1, <1>6, <3>1, <3>2 DEF JobHolds, TokensKnown
    <3> QED
      BY <2>2, <3>1, <3>3
  <2>7. wpc'[w] = "compensate" => IsFinalAttempt(w)'
    BY <1>1, <1>3 DEF AfterTransientError, IsFinalAttempt
  <2> QED
    BY <2>3, <2>4, <2>5, <2>6, <2>7 DEF JobHolds
<1> QED
  BY <1>11, <1>12, <1>13

\* A worker step keeps the reservations in order.
LEMMA WorkerReservations ==
  ASSUME NoAmbiguity, WriteInvariant, ReservationInvariant, NEW w \in Workers, WorkerNext(w)
  PROVE  ReservationInvariant'
<1> USE DEF ReservationInvariant, HoldInvariant, WorkerNext, WorkerTake, BeginTransaction,
            BeginFails, UpdateStock, UpdateSoldOut, InsertOrder, InsertViolatesUnique, CommitOrder,
            CommitReplyLost, TransactionFails, CompensateOnce, CompensateOnceFails, ThrowToQueue,
            MarkBought, ReleaseInFlightLock, PostCommitFails, ReturnToQueue, WorkerCrash
<1>1. /\ PathInvariant /\ RedisTypeOK /\ DBTypeOK /\ NeverOversold
      /\ wpc \in [Workers -> WorkerStates]
  BY DEF WriteInvariant, PathInvariant, TypeOK
<1>2. \A v \in Workers : v # w => wpc'[v] = wpc[v]
  BY <1>1
<1>3. \/ UNCHANGED <<seeded, counter, claims, orders>>
      \/ /\ wpc[w] = "compensate" /\ wpc'[w] = "throw" /\ wtok[w] \in claims
         /\ claims' = claims \ {wtok[w]} /\ counter' = counter + 1
         /\ seeded' /\ UNCHANGED <<orders, wtok, wmade>>
      \/ /\ wpc[w] = "commit" /\ wpc'[w] = "mark" /\ wtok[w] \in claims
         /\ UNCHANGED <<seeded, counter, claims>> /\ orders' = orders \cup {wtok[w]}
  BY <1>1, WorkerUnits
<1>4. NoUnitReturnedTwice'
  <2>1. IsFiniteSet(claims) /\ Cardinality(claims) \in Nat /\ counter \in Nat
    BY <1>1, FS_Subset, FS_CardinalityType DEF RedisTypeOK
  <2>2. CASE UNCHANGED <<seeded, counter, claims>>
    BY <2>2 DEF NoUnitReturnedTwice
  <2>3. CASE seeded /\ wtok[w] \in claims /\ claims' = claims \ {wtok[w]} /\ counter' = counter + 1
    <3>1. Cardinality(claims') = Cardinality(claims) - 1
      BY <2>1, <2>3, FS_RemoveElement
    <3>2. counter + Cardinality(claims) = Stock
      BY <2>3 DEF NoUnitReturnedTwice
    <3>3. counter' + Cardinality(claims') = Stock
      BY <2>1, <2>3, <3>1, <3>2
    <3> QED
      BY <3>3 DEF NoUnitReturnedTwice
  <2> QED
    BY <1>3, <2>2, <2>3 DEF SeedFirst
<1>5. SoldIsClaimed'
  BY <1>3 DEF SoldIsClaimed, JobHolds, Held
<1>6. SeedFirst'
  BY <1>3 DEF SeedFirst
<1>7. AdmittedFindsStock'
  <2> SUFFICES ASSUME UpdateSoldOut(w) PROVE FALSE
    BY <1>1, <1>2 DEF AdmittedFindsStock, AfterTransientError
  <2>1. wtok[w] \in claims /\ wtok[w] \notin orders /\ seeded /\ remaining = 0
    BY <1>1 DEF JobHolds, Held, SeedFirst, DecrementMisses, DBTypeOK
  <2>2. orders \subseteq claims \ {wtok[w]} /\ IsFiniteSet(claims) /\ IsFiniteSet(claims \ {wtok[w]})
    BY <1>1, <2>1, FS_Subset DEF SoldIsClaimed, RedisTypeOK
  <2>3. Cardinality(orders) <= Cardinality(claims \ {wtok[w]})
    BY <2>2, FS_Subset
  <2>4. Cardinality(claims \ {wtok[w]}) = Cardinality(claims) - 1
    BY <2>1, <2>2, FS_RemoveElement
  <2>5. Cardinality(orders) \in Nat /\ Cardinality(claims) \in Nat /\ counter \in Nat
    BY <1>1, <2>2, FS_Subset, FS_CardinalityType DEF RedisTypeOK
  <2>6. Cardinality(orders) = Stock /\ counter + Cardinality(claims) = Stock
    BY <1>1, <2>1, <2>5 DEF NeverOversold, NoUnitReturnedTwice
  <2> QED
    BY <2>3, <2>4, <2>5, <2>6
<1> QED
  BY <1>1, <1>4, <1>5, <1>6, <1>7, WorkerHolding

\* Time retries a job, or drops a finished one that nobody is about to read back.
LEMMA TimeJobs ==
  ASSUME NoAmbiguity, PathInvariant, WorkerOwns, NEW u \in Users, TimeNext(u)
  PROVE  /\ \A v \in Users : v # u => job'[v] = job[v]
         /\ \/ UNCHANGED job
            \/ /\ job[u].state = "delayed" /\ job'[u].state = "waiting"
               /\ job'[u].token = job[u].token
            \/ /\ IsFinished(u) /\ job'[u].state = "none" /\ "Trim" \in Faults
               /\ \A r \in Requests : pc[r] = "verify" => UserOf[r] # u
<1> USE DEF TimeNext
<1>1. QueueTypeOK
  BY DEF PathInvariant, TypeOK
<1>2. ~StalledCheck(u)
  BY <1>1 DEF NoAmbiguity, AmbiguousFaults, StalledCheck, Orphan, WorkerOwns
<1>3. CASE BackoffEnds(u)
  <2> DEFINE new == [job[u] EXCEPT !.state = "waiting"]
  <2>1. job' = [job EXCEPT ![u] = new] /\ job[u].state = "delayed"
    BY <1>3 DEF BackoffEnds, PromoteJob
  <2>2. new.state = "waiting" /\ new.token = job[u].token
    BY <1>1 DEF QueueTypeOK, Job
  <2> HIDE DEF new
  <2> QED
    BY <1>1, <2>1, <2>2 DEF QueueTypeOK
<1>4. CASE LockExpires(u)
  BY <1>4 DEF LockExpires
<1>5. CASE TrimFinishedJob(u)
  <2>1. NoJob.state = "none"
    BY DEF NoJob
  <2> QED
    BY <1>1, <1>5, <2>1 DEF NoAmbiguity, AmbiguousFaults, TrimFinishedJob, TrimJob, QueueTypeOK
<1> QED
  BY <1>2, <1>3, <1>4, <1>5

\* Time takes no unit and no unfinished job.
LEMMA TimeHolding ==
  ASSUME NoAmbiguity, PathInvariant, HoldInvariant, NEW u \in Users, TimeNext(u)
  PROVE  /\ HoldInvariant'
         /\ UNCHANGED <<seeded, counter, claims, dbVars, pc, workerVars>>
<1> USE DEF HoldInvariant, TimeNext
<1>1. /\ QueueTypeOK /\ JobsFiled /\ TokensKnown
      /\ wpc \in [Workers -> WorkerStates] /\ wtok \in [Workers -> Requests \cup {None}]
  BY DEF PathInvariant, TypeOK
<1>2. UNCHANGED <<seeded, counter, claims, dbVars, pc, workerVars>>
  BY DEF BackoffEnds, StalledCheck, LockExpires, TrimFinishedJob, LockTimeout
<1>3. /\ \A v \in Users : v # u => job'[v] = job[v]
      /\ \/ UNCHANGED job
         \/ /\ job[u].state = "delayed" /\ job'[u].state = "waiting"
            /\ job'[u].token = job[u].token
         \/ /\ IsFinished(u) /\ job'[u].state = "none"
            /\ \A r \in Requests : pc[r] = "verify" => UserOf[r] # u
  BY TimeJobs
<1>4. \A q \in Requests : Stored(q)' => Stored(q)
  BY <1>3 DEF Stored
<1>5. \A q \in Requests : Held(q)' <=> Held(q)
  BY <1>2 DEF Held
<1>6. ApiHolds'
  <2>1. \A q \in Requests : pc[q] = "verify" => job'[UserOf[q]] = job[UserOf[q]] \/ UserOf[q] = u
    BY <1>3
  <2>2. \A q \in Requests : pc[q] = "verify" =>
          job'[UserOf[q]].state # "none" /\ (Stored(q)' <=> Stored(q))
    BY <1>3, <2>1 DEF ApiHolds, Stored
  <2>3. \A q \in Requests : pc[q] = "resent" => lock'[UserOf[q]] = q
    <3>1. RedisTypeOK
      BY DEF PathInvariant, TypeOK
    <3>2. \/ UNCHANGED lock
          \/ /\ lock' = [lock EXCEPT ![u] = None]
             /\ \A q \in Requests : pc[q] = "resent" => lock[u] # q
      BY DEF BackoffEnds, StalledCheck, LockExpires, TrimFinishedJob, LockTimeout
    <3> QED
      BY <3>1, <3>2 DEF ApiHolds, RedisTypeOK
  <2> QED
    BY <1>2, <1>4, <1>5, <2>2, <2>3 DEF ApiHolds
<1>7. WorkerOwns'
  <2>1. \A w \in Workers : wpc[w] # "idle" => WUser(w) \in Users /\ job'[WUser(w)] = job[WUser(w)]
    BY <1>1, <1>3 DEF WorkerOwns, Owns, IsFinished, TokensKnown
  <2>2. \A v \in Users : job'[v].state = "active" => job'[v] = job[v]
    BY <1>3
  <2> QED
    BY <1>2, <2>1, <2>2 DEF WorkerOwns, Owns
<1>8. JobHolds'
  <2>1. \A v \in Users : job'[v].state \in {"waiting", "delayed"} =>
          job[v].state \in {"waiting", "delayed"} /\ job'[v].token = job[v].token
    BY <1>3
  <2>2. \A v \in Users : job'[v].state \in {"waiting", "delayed"} => Held(job[v].token)'
    BY <1>1, <1>5, <2>1 DEF JobHolds, JobsFiled
  <2> QED
    BY <1>1, <1>2, <1>5, <2>1, <2>2 DEF JobHolds, Held, TokensKnown, IsFinalAttempt
<1> QED
  BY <1>2, <1>6, <1>7, <1>8

\* So time leaves the reservations in order.
LEMMA TimeReservations ==
  ASSUME NoAmbiguity, WriteInvariant, ReservationInvariant, NEW u \in Users, TimeNext(u)
  PROVE  ReservationInvariant' /\ UNCHANGED <<seeded, counter, claims, orders>>
<1>1. /\ HoldInvariant' /\ UNCHANGED <<seeded, counter, claims, dbVars, pc, workerVars>>
  BY TimeHolding DEF WriteInvariant, ReservationInvariant
<1> QED
  BY <1>1 DEF ReservationInvariant, NoUnitReturnedTwice, SoldIsClaimed, AdmittedFindsStock,
              SeedFirst

\* At the start nothing is held, and a step that touches none of the path keeps what is held.
LEMMA HoldBegins == Init => HoldInvariant
BY DEF Init, RedisInit, QueueInit, DBInit, HoldInvariant, ApiHolds, WorkerOwns, JobHolds, Stored,
       NoJob

LEMMA HoldStutters ==
  ASSUME HoldInvariant, UNCHANGED <<claims, lock, orders, job, pc, workerVars>>
  PROVE  HoldInvariant'
BY DEF HoldInvariant, ApiHolds, WorkerOwns, JobHolds, Owns, Stored, Held, IsFinalAttempt

\* The release step puts on the shelf what the database has: nothing is sold yet.
LEMMA SeedsStock ==
  ASSUME WriteInvariant, ReservationInvariant, SeedStock
  PROVE  /\ ReservationInvariant'
         /\ seeded' /\ counter' = Stock /\ UNCHANGED <<claims, orders>>
<1> USE DEF ReservationInvariant, SeedStock, SeedScript
<1>1. ~seeded /\ claims = {} /\ orders = {} /\ remaining \in Nat
  BY DEF SeedFirst, SoldIsClaimed, WriteInvariant, PathInvariant, TypeOK, DBTypeOK
<1>2. seeded' /\ counter' = Stock /\ UNCHANGED <<claims, orders, job, dbVars, pc, workerVars>>
  BY <1>1, FS_EmptySet DEF WriteInvariant, NeverOversold
<1>3. NoUnitReturnedTwice' /\ SoldIsClaimed' /\ AdmittedFindsStock' /\ SeedFirst'
  BY <1>1, <1>2, FS_EmptySet DEF NoUnitReturnedTwice, SoldIsClaimed, AdmittedFindsStock, SeedFirst
<1>4. HoldInvariant'
  BY HoldStutters
<1> QED
  BY <1>2, <1>3, <1>4

\* As long as no fault is ambiguous, the reservations stay in order.
THEOREM ReservationsInOrder ==
  ASSUME NoAmbiguity
  PROVE  Spec => [](WriteInvariant /\ ReservationInvariant)
<1>1. Init => ReservationInvariant
  BY FS_EmptySet, HoldBegins DEF Init, RedisInit, DBInit, ReservationInvariant,
     NoUnitReturnedTwice, SoldIsClaimed, AdmittedFindsStock, SeedFirst
<1>2. WriteInvariant /\ ReservationInvariant /\ [Next]_vars => ReservationInvariant'
  <2> SUFFICES ASSUME WriteInvariant, ReservationInvariant, [Next]_vars
               PROVE  ReservationInvariant'
    OBVIOUS
  <2>1. CASE UNCHANGED vars
    BY <2>1, HoldStutters DEF ReservationInvariant, NoUnitReturnedTwice, SoldIsClaimed,
       AdmittedFindsStock, SeedFirst
  <2> QED
    BY <2>1, SeedsStock, ApiReservations, WorkerReservations, TimeReservations DEF Next, Rest
<1> QED
  BY <1>1, <1>2, WriteInvariantHolds, PTL DEF Spec

-----------------------------------------------------------------------------
(* What follows, as long as no fault is ambiguous *)

\* None of the four compensation paths ever gives the same unit back twice.
THEOREM UnitsReturnedOnce == ASSUME NoAmbiguity PROVE Spec => []NoUnitReturnedTwice
BY ReservationsInOrder, PTL DEF ReservationInvariant

\* No unit is given back that was sold.
THEOREM SoldStaysClaimed == ASSUME NoAmbiguity PROVE Spec => []SoldIsClaimed
BY ReservationsInOrder, PTL DEF ReservationInvariant

\* The gatekeeper never admits more requests than the database can serve.
THEOREM NeverAhead == ASSUME NoAmbiguity PROVE Spec => []RedisNeverAhead
<1>1. ASSUME WriteInvariant, ReservationInvariant PROVE RedisNeverAhead
  <2>1. /\ orders \subseteq claims /\ IsFiniteSet(claims)
        /\ counter \in Nat /\ remaining \in Nat
    BY <1>1, FS_Subset DEF WriteInvariant, PathInvariant, TypeOK, RedisTypeOK, DBTypeOK,
                           ReservationInvariant, SoldIsClaimed
  <2>2. Cardinality(orders) <= Cardinality(claims)
    BY <2>1, FS_Subset
  <2>3. Cardinality(orders) \in Nat /\ Cardinality(claims) \in Nat
    BY <2>1, FS_Subset, FS_CardinalityType
  <2>4. remaining + Cardinality(orders) = Stock
    BY <1>1 DEF WriteInvariant, NeverOversold
  <2>5. CASE seeded
    <3>1. counter + Cardinality(claims) = Stock
      BY <1>1, <2>5 DEF ReservationInvariant, NoUnitReturnedTwice
    <3> QED
      BY <2>1, <2>2, <2>3, <2>4, <3>1 DEF RedisNeverAhead
  <2>6. CASE ~seeded
    BY <1>1, <2>1, <2>6 DEF ReservationInvariant, SeedFirst, RedisNeverAhead
  <2> QED
    BY <2>5, <2>6
<1> QED
  BY <1>1, ReservationsInOrder, PTL

\* The worker never meets an empty product row: "sold out" is answered before
\* the 202, never after it.
THEOREM AdmissionIsKept == ASSUME NoAmbiguity PROVE Spec => []AdmittedFindsStock
BY ReservationsInOrder, PTL DEF ReservationInvariant

\* A request that was refused never turns into an order later.
THEOREM RefusalIsKept == ASSUME NoAmbiguity PROVE Spec => []RefusedNeverSold
<1>1. ASSUME WriteInvariant, ReservationInvariant PROVE RefusedNeverSold
  BY <1>1 DEF WriteInvariant, PathInvariant, TypeOK, DBTypeOK, ReservationInvariant, HoldInvariant,
              ApiHolds, RefusedNeverSold
<1> QED
  BY <1>1, ReservationsInOrder, PTL

-----------------------------------------------------------------------------
(* The path implements the ledger of units *)

\* Every step of the path reserves, cancels or confirms one unit of the ledger,
\* or none.
LEMMA LedgerStep ==
  ASSUME NoAmbiguity, WriteInvariant, ReservationInvariant, [Next]_vars
  PROVE  [Ledger!Next]_(Ledger!ledgerVars)
<1> USE DEF Ledger!Next, Ledger!ledgerVars, Ledger!Reserve, Ledger!Cancel, Ledger!Confirm,
            ReservationInvariant, HoldInvariant, WriteInvariant
<1>1. ASSUME NEW r \in Requests, ApiNext(r) PROVE [Ledger!Next]_(Ledger!ledgerVars)
  <2>1. UNCHANGED orders
    BY <1>1, ApiUnits
  <2>2. CASE UNCHANGED redisVars
    BY <2>1, <2>2
  <2>3. CASE /\ pc[r] = "idle" /\ seeded /\ claims' = claims \cup {r} /\ UNCHANGED seeded
             /\ counter > 0 /\ counter' = counter - 1
    <3>1. r \notin claims /\ r \notin orders
      BY <2>3 DEF ApiHolds
    <3>2. Ledger!Reserve(r)
      BY <2>1, <2>3, <3>1
    <3> QED
      BY <3>2
  <2>4. CASE /\ pc[r] \in {"unsure", "notEnqueued", "duplicate"} /\ r \in claims
             /\ claims' = claims \ {r} /\ counter' = counter + 1 /\ seeded'
    <3>1. r \notin orders
      BY <2>4 DEF ApiHolds
    <3>2. Ledger!Cancel(r)
      BY <2>1, <2>4, <3>1 DEF SeedFirst
    <3> QED
      BY <3>2
  <2> QED
    BY <1>1, <2>2, <2>3, <2>4, ApiUnits
<1>2. ASSUME NEW w \in Workers, WorkerNext(w) PROVE [Ledger!Next]_(Ledger!ledgerVars)
  <2>1. wpc[w] # "idle" => wtok[w] \in Requests
    BY DEF WriteInvariant, PathInvariant, TokensKnown
  <2>2. CASE UNCHANGED <<seeded, counter, claims, orders>>
    BY <2>2
  <2>3. CASE /\ wpc[w] = "compensate" /\ wtok[w] \in claims
             /\ claims' = claims \ {wtok[w]} /\ counter' = counter + 1
             /\ seeded' /\ UNCHANGED orders
    <3>1. wtok[w] \notin orders
      BY <2>3 DEF JobHolds, Held
    <3>2. Ledger!Cancel(wtok[w])
      BY <2>3, <3>1 DEF SeedFirst
    <3> QED
      BY <2>1, <2>3, <3>2
  <2>4. CASE /\ wpc[w] = "commit" /\ wtok[w] \in claims
             /\ UNCHANGED <<seeded, counter, claims>> /\ orders' = orders \cup {wtok[w]}
    <3>1. wtok[w] \notin orders
      BY <2>4 DEF JobHolds, Held
    <3>2. Ledger!Confirm(wtok[w])
      BY <2>4, <3>1
    <3> QED
      BY <2>1, <2>4, <3>2
  <2> QED
    BY <1>2, <2>2, <2>3, <2>4, WorkerUnits
<1>3. ASSUME NEW u \in Users, TimeNext(u) PROVE [Ledger!Next]_(Ledger!ledgerVars)
  BY <1>3, TimeReservations
<1>4. ASSUME SeedStock PROVE [Ledger!Next]_(Ledger!ledgerVars)
  BY <1>4, SeedsStock DEF SeedStock
<1>5. ASSUME UNCHANGED vars PROVE [Ledger!Next]_(Ledger!ledgerVars)
  BY <1>5
<1> QED
  BY <1>1, <1>2, <1>3, <1>4, <1>5 DEF Next, Rest

\* Gatekeeper, queue, workers and database together are nothing but a ledger
\* of units, each of them on the shelf, held for one request or sold.
THEOREM PathImplementsLedger == ASSUME NoAmbiguity PROVE Spec => LedgerSpec
<1>1. Init => Ledger!Init
  BY DEF Init, RedisInit, DBInit, Ledger!Init
<1>2. WriteInvariant /\ ReservationInvariant /\ [Next]_vars => [Ledger!Next]_(Ledger!ledgerVars)
  BY LedgerStep
<1> QED
  BY <1>1, <1>2, ReservationsInOrder, PTL DEF Spec, LedgerSpec, Ledger!Spec

-----------------------------------------------------------------------------
(* A user with a reservation gets no other *)

\* A script that takes or gives back a unit leaves each user at most one, with
\* the lock or the bought flag to show for it.
LEMMA ScriptsExclude ==
  ASSUME RedisTypeOK, Exclusive, NEW r \in Requests,
         \/ GatekeeperScript(r) \/ CompensateScript(r)
         \/ CompensateIfReservedScript(r) \/ CompensateOnceScript(r)
  PROVE  Exclusive'
<1> USE DEF Exclusive, RedisTypeOK
<1>1. bought' = bought
  BY DEF GatekeeperScript, CompensateScript, CompensateIfReservedScript, ReservationProved,
         CompensateOnceScript, GuardTaken
<1>2. CASE UNCHANGED redisVars
  BY <1>2
<1>3. CASE Verdict(r) = "ALLOWED" /\ GatekeeperScript(r)
  <2>1. /\ claims' = claims \cup {r} /\ lock' = [lock EXCEPT ![UserOf[r]] = r]
        /\ lock[UserOf[r]] = None /\ UserOf[r] \notin bought
    BY <1>3 DEF GatekeeperScript, Verdict
  <2>2. \A a \in claims : UserOf[a] # UserOf[r]
    BY <2>1
  <2> QED
    BY <1>1, <2>1, <2>2
<1>4. CASE claims' = claims \ {r} /\ (lock[UserOf[r]] = r \/ UNCHANGED lock)
           /\ \A u \in Users : u # UserOf[r] => lock'[u] = lock[u]
  BY <1>1, <1>4
<1> QED
  BY <1>2, <1>3, <1>4 DEF GatekeeperScript, CompensateScript, CompensateIfReservedScript,
     ReservationProved, CompensateOnceScript, GuardTaken, Restore, CompareAndDelete

\* A step of createOrder keeps the exclusion.
LEMMA ApiExcludes ==
  ASSUME NoAmbiguity, PathInvariant, HoldInvariant, ExclusionInvariant,
         NEW r \in Requests, ApiNext(r)
  PROVE  ExclusionInvariant'
<1> USE DEF HoldInvariant, ExclusionInvariant, ApiNext, CallGatekeeper, GatekeeperReplyLost,
            GatekeeperNotRun, GatekeeperResent, GatekeeperRunsAgain, CompensateIfReserved, Enqueue,
            EnqueueFails, VerifyStoredJob, ReadJobFails, Compensate, CompensationResent,
            CompensationFails, Compensating, ApiCrash
<1>1. RedisTypeOK /\ DBTypeOK /\ pc \in [Requests -> {"idle"} \cup Pending \cup Answers]
  BY DEF PathInvariant, TypeOK
<1>2. UNCHANGED <<dbVars, workerVars, bought, guard>>
  BY DEF GatekeeperScript, CompensateScript, CompensateIfReservedScript, ReservationProved,
         NoAmbiguity, AmbiguousFaults
<1>3. GuardedIsReturned'
  <2>1. \A q \in claims' : q \in claims \/ (q = r /\ pc[r] = "idle")
    BY ApiUnits
  <2>2. \A q \in Requests : pc'[q] = "idle" => pc[q] = "idle"
    BY <1>1 DEF AfterVerdict, Verdict, AfterCompensation
  <2> QED
    BY <1>1, <1>2, <2>1, <2>2 DEF GuardedIsReturned, RedisTypeOK
<1>4. ReleaseFollowsMark'
  BY <1>2 DEF ReleaseFollowsMark
<1>5. LockStays'
  <2>1. CASE UNCHANGED redisVars
    BY <2>1 DEF LockStays, Exclusive
  <2>2. CASE GatekeeperScript(r) \/ CompensateScript(r) \/ CompensateIfReservedScript(r)
    BY <1>1, <2>2, ScriptsExclude DEF LockStays
  <2> QED
    BY <2>1, <2>2 DEF NoAmbiguity, AmbiguousFaults
<1>6. JobStays'
  <2> HIDE DEF ApiNext, CallGatekeeper, GatekeeperReplyLost, GatekeeperNotRun, GatekeeperResent,
               GatekeeperRunsAgain, CompensateIfReserved, Enqueue, EnqueueFails, VerifyStoredJob,
               ReadJobFails, Compensate, CompensationResent, CompensationFails, Compensating,
               ApiCrash
  <2>1. \A q \in Requests : Stored(q) => Stored(q)'
    <3>1. \A q \in Requests : UserOf[q] \in Users
      OBVIOUS
    <3> QED
      BY <3>1, ApiJobs DEF Stored
  <2> QED
    BY <1>1, <1>2, <2>1 DEF JobStays, DBTypeOK
<1> QED
  BY <1>3, <1>4, <1>5, <1>6

\* A worker drops the lock of an order after the bought flag is set, and any
\* other lock together with its unit.
LEMMA WorkerExcludes ==
  ASSUME NoAmbiguity, PathInvariant, HoldInvariant, ExclusionInvariant,
         NEW w \in Workers, WorkerNext(w)
  PROVE  ExclusionInvariant'
<1> USE DEF HoldInvariant, ExclusionInvariant, WorkerNext, WorkerTake, BeginTransaction, BeginFails,
            UpdateStock, UpdateSoldOut, InsertOrder, InsertViolatesUnique, CommitOrder,
            CommitReplyLost, TransactionFails, CompensateOnce, CompensateOnceFails, ThrowToQueue,
            MarkBought, ReleaseInFlightLock, PostCommitFails, ReturnToQueue, WorkerCrash
<1>1. /\ RedisTypeOK /\ DBTypeOK
      /\ wpc \in [Workers -> WorkerStates] /\ wtok \in [Workers -> Requests \cup {None}]
  BY DEF PathInvariant, TypeOK
<1>2. /\ UNCHANGED pc
      /\ \A v \in Workers : v # w => wpc'[v] = wpc[v] /\ wtok'[v] = wtok[v]
  BY <1>1
<1>3. wpc[w] # "idle" => wtok[w] \in Requests /\ Stored(wtok[w])
  BY WorkerJobs
<1>4. \/ UNCHANGED redisVars
      \/ wpc[w] = "compensate" /\ CompensateOnceScript(wtok[w])
      \/ wpc[w] = "mark" /\ MarkBoughtCommand(WUser(w)) /\ wpc'[w] = "release" /\ UNCHANGED wtok
      \/ wpc[w] = "release" /\ ReleaseLockScript(wtok[w])
  BY <1>1
<1>5. GuardedIsReturned'
  <2>1. claims' \subseteq claims
    BY <1>4 DEF CompensateOnceScript, GuardTaken, Restore, MarkBoughtCommand, ReleaseLockScript
  <2>2. \A q \in guard' : q \in guard \/ (q = wtok[w] /\ wpc[w] # "idle" /\ q \notin claims')
    BY <1>4 DEF CompensateOnceScript, GuardTaken, Restore, MarkBoughtCommand, ReleaseLockScript
  <2>3. wpc[w] # "idle" => pc[wtok[w]] # "idle"
    BY <1>3 DEF ApiHolds
  <2> QED
    BY <1>2, <2>1, <2>2, <2>3 DEF GuardedIsReturned
<1>6. ReleaseFollowsMark'
  <2>1. bought \subseteq bought'
    BY <1>4 DEF CompensateOnceScript, GuardTaken, Restore, MarkBoughtCommand, ReleaseLockScript
  <2>2. wpc'[w] = "release" => WUser(w)' \in bought'
    BY <1>1, <1>4 DEF MarkBoughtCommand, AfterTransientError
  <2> QED
    BY <1>2, <2>1, <2>2 DEF ReleaseFollowsMark
<1>7. LockStays'
  <2>1. CASE UNCHANGED redisVars
    BY <2>1 DEF LockStays, Exclusive
  <2>2. CASE wpc[w] = "compensate" /\ CompensateOnceScript(wtok[w])
    BY <1>1, <1>3, <2>2, ScriptsExclude DEF LockStays
  <2>3. CASE MarkBoughtCommand(WUser(w))
    BY <2>3 DEF LockStays, Exclusive, MarkBoughtCommand
  <2>4. CASE wpc[w] = "release" /\ ReleaseLockScript(wtok[w])
    <3>1. /\ wtok[w] \in Requests /\ UserOf[wtok[w]] \in bought /\ UNCHANGED <<bought, claims>>
          /\ \A u \in Users : u # UserOf[wtok[w]] => lock'[u] = lock[u]
      BY <1>1, <1>3, <2>4 DEF ReleaseFollowsMark, ReleaseLockScript, CompareAndDelete, RedisTypeOK
    <3>2. \A q \in claims : UserOf[q] \in Users
      BY <1>1 DEF RedisTypeOK
    <3> QED
      BY <3>1, <3>2 DEF LockStays, Exclusive
  <2> QED
    BY <1>4, <2>1, <2>2, <2>3, <2>4
<1>8. JobStays'
  <2> HIDE DEF WorkerNext, WorkerTake, BeginTransaction, BeginFails, UpdateStock, UpdateSoldOut,
           InsertOrder, InsertViolatesUnique, CommitOrder, CommitReplyLost, TransactionFails,
           CompensateOnce, CompensateOnceFails, ThrowToQueue, MarkBought, ReleaseInFlightLock,
           PostCommitFails, ReturnToQueue, WorkerCrash
  <2>1. \A q \in orders' : q \in orders \/ (q = wtok[w] /\ wpc[w] # "idle")
    BY WorkerUnits
  <2>2. \A q \in Requests : Stored(q)' <=> Stored(q)
    BY WorkerJobs
  <2> QED
    BY <1>1, <1>3, <2>1, <2>2 DEF JobStays, DBTypeOK
<1> QED
  BY <1>5, <1>6, <1>7, <1>8

\* Time drops no lock and no finished job, unless it is said to.
LEMMA TimeExcludes ==
  ASSUME NoAmbiguity, PathInvariant, HoldInvariant, ExclusionInvariant,
         NEW u \in Users, TimeNext(u)
  PROVE  ExclusionInvariant'
<1> USE DEF ExclusionInvariant
<1>1. UNCHANGED <<bought, guard, claims, dbVars, pc, workerVars>>
  BY DEF TimeNext, BackoffEnds, StalledCheck, LockExpires, TrimFinishedJob, LockTimeout
<1>2. GuardedIsReturned' /\ ReleaseFollowsMark'
  BY <1>1 DEF GuardedIsReturned, ReleaseFollowsMark
<1>3. LockStays'
  <2>1. "LockTtl" \in Faults \/ UNCHANGED lock
    BY DEF TimeNext, BackoffEnds, StalledCheck, LockExpires, TrimFinishedJob
  <2> QED
    BY <1>1, <2>1 DEF LockStays, Exclusive
<1>4. JobStays'
  <2>1. "Trim" \in Faults \/ \A q \in Requests : Stored(q) => Stored(q)'
    BY TimeJobs DEF Stored, HoldInvariant
  <2> QED
    BY <1>1, <2>1 DEF JobStays, PathInvariant, TypeOK, DBTypeOK
<1> QED
  BY <1>2, <1>3, <1>4

\* As long as no fault is ambiguous.
LEMMA ExclusionHolds ==
  ASSUME NoAmbiguity
  PROVE  Spec => []ExclusionInvariant
<1> USE DEF ExclusionInvariant
<1>1. Init => ExclusionInvariant
  BY DEF Init, RedisInit, DBInit, GuardedIsReturned, ReleaseFollowsMark, LockStays, Exclusive,
         JobStays
<1>2. WriteInvariant /\ ReservationInvariant /\ ExclusionInvariant /\ [Next]_vars => ExclusionInvariant'
  <2> SUFFICES ASSUME WriteInvariant, ReservationInvariant, ExclusionInvariant, [Next]_vars
               PROVE  ExclusionInvariant'
    OBVIOUS
  <2>1. PathInvariant /\ HoldInvariant
    BY DEF WriteInvariant, ReservationInvariant
  <2>2. CASE UNCHANGED <<lock, bought, guard, claims, job, orders, pc, workerVars>>
    BY <2>2 DEF GuardedIsReturned, ReleaseFollowsMark, LockStays, Exclusive, JobStays, Stored
  <2>3. CASE SeedStock \/ UNCHANGED vars
    BY <2>2, <2>3 DEF SeedStock, SeedScript
  <2> QED
    BY <2>1, <2>3, ApiExcludes, WorkerExcludes, TimeExcludes DEF Next, Rest
<1> QED
  BY <1>1, <1>2, ReservationsInOrder, PTL DEF Spec

\* While locks outlive their purchase, nobody who has an order is admitted again:
\* the bought flag is set before the lock goes, whatever fails in between.
THEOREM NobodyAdmittedTwice ==
  ASSUME NoAmbiguity, "LockTtl" \notin Faults
  PROVE  Spec => NoAdmissionAfterSale
<1>1. WriteInvariant /\ ReservationInvariant /\ ExclusionInvariant /\ [Next]_vars =>
        [\A r \in Requests : r \in claims' \ claims => ~Ordered(UserOf[r])]_vars
  <2> SUFFICES ASSUME WriteInvariant, ReservationInvariant, ExclusionInvariant, Next,
                      NEW r \in Requests, r \in claims' \ claims
               PROVE  ~Ordered(UserOf[r])
    BY DEF Next
  <2>1. PathInvariant /\ HoldInvariant
    BY DEF WriteInvariant, ReservationInvariant
  <2>2. PICK q \in Requests : ApiNext(q)
    BY <2>1, WorkerUnits, TimeReservations, SeedsStock DEF Next, Rest
  <2>3. Exclusive'
    BY <2>1, <2>2, ApiExcludes DEF ExclusionInvariant, LockStays
  <2>4. orders \subseteq claims /\ claims \subseteq claims'
    BY <2>1, <2>2, ApiUnits DEF ReservationInvariant, SoldIsClaimed
  <2> QED
    BY <2>3, <2>4 DEF Ordered, Exclusive
<1> QED
  BY <1>1, ReservationsInOrder, ExclusionHolds, PTL DEF Spec, NoAdmissionAfterSale

-----------------------------------------------------------------------------
(* No reservation leaks *)

\* Where locks outlive their purchase, or finished jobs stay, a user whose stored
\* job still has its unit has no order: the INSERT will go through.
LEMMA HeldIsUnordered ==
  ASSUME EveryFailureNoticed, PathInvariant, SoldIsClaimed, ExclusionInvariant,
         NEW r \in Requests, Stored(r), Held(r)
  PROVE  ~Ordered(UserOf[r])
<1>1. CASE "LockTtl" \notin Faults
  BY <1>1 DEF ExclusionInvariant, LockStays, Exclusive, SoldIsClaimed, Ordered, Held
<1>2. CASE "Trim" \notin Faults
  BY <1>2 DEF ExclusionInvariant, JobStays, Ordered, Held, Stored, PathInvariant, TypeOK, DBTypeOK
<1> QED
  BY <1>1, <1>2 DEF EveryFailureNoticed

\* Every exit of createOrder that leaves a unit behind gives it back.
LEMMA ApiHandles ==
  ASSUME EveryFailureNoticed, PathInvariant, HoldInvariant, HeldIsHandled,
         NEW r \in Requests, ApiNext(r)
  PROVE  HeldIsHandled'
<1> USE DEF HoldInvariant, EveryFailureNoticed, LeakFaults, ApiNext, CallGatekeeper,
            GatekeeperReplyLost, GatekeeperNotRun, GatekeeperResent, GatekeeperRunsAgain,
            CompensateIfReserved, Enqueue, EnqueueFails, VerifyStoredJob, ReadJobFails, Compensate,
            CompensationResent, CompensationFails, Compensating, ApiCrash
<1>1. /\ RedisTypeOK /\ QueueTypeOK /\ JobsFiled
      /\ pc \in [Requests -> {"idle"} \cup Pending \cup Answers]
  BY DEF PathInvariant, TypeOK
<1>2. UNCHANGED <<dbVars, workerVars>>
  OBVIOUS
<1>3. /\ \A u \in Users : job[u].state # "none" => job'[u] = job[u]
      /\ \A u \in Users : job'[u] = job[u] \/ (pc[r] = "reserved" /\ pc'[r] = "verify"
                          /\ u = UserOf[r] /\ job'[u].state = "waiting" /\ job'[u].token = r)
  BY ApiJobs
<1>4. \A q \in Requests : Tried(q) => Tried(q)'
  BY <1>2, <1>3 DEF Tried, IsFinalAttempt
<1> SUFFICES ASSUME NEW q \in Requests, Held(q)'
             PROVE  \/ pc'[q] = "unsure" /\ lock'[UserOf[q]] = q
                    \/ pc'[q] \in {"reserved", "notEnqueued", "duplicate"}
                    \/ pc'[q] = "verify" /\ ~Stored(q)'
                    \/ Tried(q)'
  BY DEF HeldIsHandled
<1>5. CASE q # r
  <2>1. Held(q) /\ pc'[q] = pc[q]
    BY <1>1, <1>2, <1>5, ApiUnits DEF Held
  <2>2. lock[UserOf[q]] = q => lock'[UserOf[q]] = q
    <3>1. lock[UserOf[q]] = q /\ ~UNCHANGED lock => lock[UserOf[q]] # None /\ lock[UserOf[q]] # r
      BY <1>5
    <3>2. UNCHANGED lock \/ GatekeeperScript(r) \/ CompensateScript(r) \/ CompensateIfReservedScript(r)
      BY DEF NoAmbiguity, AmbiguousFaults
    <3> QED
      BY <1>1, <3>1, <3>2, ScriptsDropOwnLocks
  <2>3. Stored(q)' => Stored(q)
    BY <1>3, <1>5 DEF Stored
  <2> QED
    BY <1>4, <2>1, <2>2, <2>3 DEF HeldIsHandled
<1>6. CASE q = r
  <2>1. r \in claims' /\ r \notin orders /\ (pc[r] # "idle" => r \in claims)
    BY <1>2, <1>6, ApiUnits DEF Held
  <2>2. CASE CallGatekeeper(r) \/ GatekeeperReplyLost(r) \/ GatekeeperNotRun(r)
    BY <1>1, <1>6, <2>1, <2>2 DEF ApiHolds, GatekeeperScript, Verdict, AfterVerdict, RedisTypeOK
  <2>3. CASE CompensateIfReserved(r)
    <3>1. pc[r] = "unsure" /\ ~Stored(r) /\ Held(r)
      BY <2>1, <2>3 DEF ApiHolds, Held
    <3>2. lock[UserOf[r]] = r
      BY <3>1 DEF HeldIsHandled, Tried, Stored
    <3> QED
      BY <2>1, <2>3, <3>2 DEF CompensateIfReservedScript, ReservationProved, Restore
  <2>4. CASE Enqueue(r)
    <3>1. pc'[r] = "verify" /\ ~Stored(r)
      BY <1>1, <2>4 DEF ApiHolds
    <3>2. CASE job[UserOf[r]].state = "none"
      <4>1. job'[UserOf[r]] # job[UserOf[r]] \/ Stored(r)'
        BY <1>1, <2>4, <3>2, ApiJobs DEF AddJob, NoJob, QueueTypeOK, Stored
      <4> QED
        BY <1>3, <1>6, <3>1, <4>1 DEF Tried, Stored
    <3>3. CASE job[UserOf[r]].state # "none"
      BY <1>3, <1>6, <3>1, <3>3 DEF Stored
    <3> QED
      BY <3>2, <3>3
  <2>5. CASE EnqueueFails(r)
    BY <1>1, <1>6, <2>5
  <2>6. CASE VerifyStoredJob(r)
    <3>1. pc[r] = "verify" /\ Held(r) /\ job[UserOf[r]].state # "none"
      BY <2>1, <2>6 DEF ApiHolds, Held
    <3>2. Stored(r) => Tried(r)
      BY <3>1 DEF HeldIsHandled
    <3> QED
      BY <1>1, <1>4, <1>6, <2>6, <3>1, <3>2 DEF Stored
  <2>7. CASE Compensate(r)
    BY <2>1, <2>7 DEF NoAmbiguity, AmbiguousFaults, CompensateScript, Restore
  <2>8. ~ GatekeeperRunsAgain(r)
    BY DEF ApiHolds
  <2>9. ~ CompensationResent(r)
    BY DEF NoAmbiguity, AmbiguousFaults
  <2> QED
    BY <2>2, <2>3, <2>4, <2>5, <2>6, <2>7, <2>8, <2>9
<1> QED
  BY <1>5, <1>6

\* The worker sells the unit of its job, retries, or gives it back at the end.
LEMMA WorkerHandles ==
  ASSUME EveryFailureNoticed, PathInvariant, ReservationInvariant, AdmittedFindsStock',
         ExclusionInvariant, HeldIsHandled,
         NEW w \in Workers, WorkerNext(w)
  PROVE  HeldIsHandled'
<1> USE DEF EveryFailureNoticed, LeakFaults, ReservationInvariant, HoldInvariant, WorkerNext,
            WorkerTake, BeginTransaction, BeginFails, UpdateStock, UpdateSoldOut, InsertOrder,
            InsertViolatesUnique, CommitOrder, CommitReplyLost, TransactionFails, CompensateOnce,
            CompensateOnceFails, ThrowToQueue, MarkBought, ReleaseInFlightLock, PostCommitFails,
            ReturnToQueue, WorkerCrash
<1>1. /\ RedisTypeOK /\ QueueTypeOK /\ JobsFiled /\ DBTypeOK
      /\ wpc \in [Workers -> WorkerStates] /\ wtok \in [Workers -> Requests \cup {None}]
      /\ wmade \in [Workers -> Nat]
  BY DEF PathInvariant, TypeOK
<1>2. /\ UNCHANGED pc
      /\ \A v \in Workers : v # w => wpc'[v] = wpc[v] /\ wtok'[v] = wtok[v] /\ wmade'[v] = wmade[v]
  BY <1>1
<1>3. wpc[w] # "idle" => /\ wtok[w] \in Requests /\ WUser(w) \in Users /\ Owns(w, WUser(w))
                         /\ job[WUser(w)].token = wtok[w] /\ Stored(wtok[w])
  BY WorkerJobs
<1>4. \A q \in Requests : Stored(q)' <=> Stored(q)
  BY WorkerJobs
<1>5. \A q \in Requests : Held(q)' => Held(q)
  BY WorkerUnits DEF Held
<1> SUFFICES ASSUME NEW q \in Requests, Held(q)'
             PROVE  \/ pc'[q] = "unsure" /\ lock'[UserOf[q]] = q
                    \/ pc'[q] \in {"reserved", "notEnqueued", "duplicate"}
                    \/ pc'[q] = "verify" /\ ~Stored(q)'
                    \/ Tried(q)'
  BY DEF HeldIsHandled
<1>6. CASE wpc[w] = "idle" \/ q # wtok[w]
  <2>1. lock[UserOf[q]] = q => lock'[UserOf[q]] = q
    <3>1. \/ UNCHANGED lock
          \/ wpc[w] # "idle" /\ (CompensateOnceScript(wtok[w]) \/ ReleaseLockScript(wtok[w]))
      BY DEF MarkBoughtCommand
    <3> QED
      BY <1>1, <1>3, <1>6, <3>1, ScriptsDropOwnLocks
  <2>2. ASSUME Tried(q) PROVE Tried(q)'
    <3> DEFINE u == UserOf[q]
               v == job[u].owner
    <3>1. Stored(q) /\ u \in Users /\ (wpc[w] # "idle" => u # WUser(w))
      BY <1>3, <1>6, <2>2 DEF Stored, Tried
    <3>2. CASE job'[u] = job[u]
      <4>1. job[u].state = "active" => v \in Workers /\ v # w
        BY <1>3, <3>1 DEF WorkerOwns
      <4> QED
        BY <1>2, <2>2, <3>2, <4>1 DEF Tried, IsFinalAttempt
    <3>3. CASE job'[u] # job[u]
      <4> HIDE DEF WorkerNext, BeginTransaction, BeginFails, UpdateStock, UpdateSoldOut,
               InsertOrder, InsertViolatesUnique, CommitOrder, CommitReplyLost, TransactionFails,
               CompensateOnce, CompensateOnceFails, ThrowToQueue, MarkBought, ReleaseInFlightLock,
               PostCommitFails, ReturnToQueue, WorkerCrash
      <4>1. PICK x \in Users : WorkerTake(w, x)
        BY <1>1, <1>3, <3>1, <3>3, WorkerJobs, JobEnds
      <4>2. /\ job'[x].state = "active" /\ job'[x].owner = w /\ x = u
            /\ job'[u].token = job[u].token /\ wpc'[w] = "begin"
        BY <1>1, <3>3, <4>1, JobTaken
      <4> QED
        BY <3>1, <4>2 DEF Tried, Stored
    <3> QED
      BY <3>2, <3>3
  <2> QED
    BY <1>2, <1>4, <1>5, <2>1, <2>2 DEF HeldIsHandled
<1>7. CASE wpc[w] # "idle" /\ q = wtok[w]
  <2>1. /\ Held(q) /\ Stored(q) /\ job[UserOf[q]].state = "active" /\ job[UserOf[q]].owner = w
        /\ ~Ordered(UserOf[q]) /\ pc[q] \in {"verify", "accepted", "dead"}
    BY <1>3, <1>5, <1>7, HeldIsUnordered DEF Owns, ApiHolds
  <2>2. \/ wpc[w] \in {"begin", "update", "insert", "commit", "compensate"}
        \/ wpc[w] = "throw" /\ ~IsFinalAttempt(w)
    BY <2>1 DEF HeldIsHandled, Tried
  <2>3. CASE ~ThrowToQueue(w)
    <3>1. UNCHANGED job /\ wpc'[w] \notin {"idle", "mark", "release", "return", "returnSoldOut"}
      <4>1. ~CommitOrder(w) /\ ~CommitReplyLost(w) /\ ~WorkerCrash(w)
        BY <1>1, <1>7 DEF CommitOrderRow, Held, NoAmbiguity, AmbiguousFaults
      <4>2. ~UpdateSoldOut(w) /\ ~InsertViolatesUnique(w)
        BY <1>1, <1>7, <2>1 DEF AdmittedFindsStock, InsertAllowed
      <4> QED
        BY <1>1, <2>2, <2>3, <4>1, <4>2 DEF AfterTransientError
    <3>2. wpc'[w] = "throw" => ~IsFinalAttempt(w)'
      BY <1>1, <1>7, <2>1, <2>2, <2>3 DEF AfterTransientError, IsFinalAttempt, GuardTaken,
         CompensateOnceScript, Restore, Held, ExclusionInvariant, GuardedIsReturned
    <3>3. wpc'[w] \in WorkerStates
      BY <1>1 DEF WorkerStates, AfterTransientError
    <3> QED
      BY <2>1, <3>1, <3>2, <3>3 DEF Tried, Stored, WorkerStates
  <2>4. CASE ThrowToQueue(w)
    <3>1. wpc[w] = "throw" /\ ~IsFinalAttempt(w) /\ FailJob(w, WUser(w), wmade[w])
      BY <1>1, <2>2, <2>4
    <3>2. job'[WUser(w)].state = "delayed" /\ job'[WUser(w)].token = q
      BY <1>1, <1>3, <1>7, <3>1, JobEnds DEF StateAfterFailure, IsFinalAttempt
    <3> QED
      BY <1>7, <3>2 DEF Tried
  <2> QED
    BY <2>3, <2>4
<1> QED
  BY <1>6, <1>7

\* Time leaves jobs that will be tried, and locks that a reply is awaited for.
LEMMA TimeHandles ==
  ASSUME EveryFailureNoticed, PathInvariant, HoldInvariant, HeldIsHandled,
         NEW u \in Users, TimeNext(u)
  PROVE  HeldIsHandled'
<1> USE DEF EveryFailureNoticed, LeakFaults
<1>1. UNCHANGED <<claims, dbVars, pc, workerVars>>
  BY TimeHolding
<1>2. \A q \in Requests : Stored(q)' => Stored(q)
  BY TimeJobs DEF Stored, HoldInvariant
<1>3. \A q \in Requests : Tried(q) => Tried(q)'
  BY <1>1, TimeJobs DEF Tried, HoldInvariant, IsFinished, IsFinalAttempt
<1>4. \A q \in Requests : pc[q] = "unsure" /\ lock[UserOf[q]] = q => lock'[UserOf[q]] = q
  BY DEF TimeNext, BackoffEnds, StalledCheck, LockExpires, TrimFinishedJob, LockTimeout,
     PathInvariant, TypeOK, RedisTypeOK
<1> QED
  BY <1>1, <1>2, <1>3, <1>4 DEF HeldIsHandled, Held

\* When every failure is noticed, every unit is with somebody who will sell it or
\* give it back.
LEMMA HeldStaysHandled ==
  ASSUME EveryFailureNoticed
  PROVE  Spec => []HeldIsHandled
<1>1. Init => HeldIsHandled
  BY DEF Init, RedisInit, HeldIsHandled, Held
<1>2. /\ WriteInvariant /\ ReservationInvariant /\ ExclusionInvariant /\ HeldIsHandled
      /\ ReservationInvariant' /\ [Next]_vars
      => HeldIsHandled'
  <2> SUFFICES ASSUME WriteInvariant, ReservationInvariant, ExclusionInvariant, HeldIsHandled,
                      ReservationInvariant', [Next]_vars
               PROVE  HeldIsHandled'
    OBVIOUS
  <2>1. PathInvariant /\ HoldInvariant /\ AdmittedFindsStock'
    BY DEF WriteInvariant, ReservationInvariant
  <2>2. CASE SeedStock \/ UNCHANGED vars
    BY <2>2 DEF SeedStock, SeedScript, HeldIsHandled, Held, Stored, Tried, IsFinalAttempt
  <2> QED
    BY <2>1, <2>2, ApiHandles, WorkerHandles, TimeHandles DEF Next, Rest
<1> QED
  BY <1>1, <1>2, ReservationsInOrder, ExclusionHolds, PTL DEF Spec, EveryFailureNoticed

\* When the sale is over and every failure was one the code notices, counter and
\* database agree: no unit was lost on the way.
THEOREM NothingLeaks ==
  ASSUME EveryFailureNoticed
  PROVE  Spec => []NoLeakAtRest
<1>1. ASSUME WriteInvariant, ReservationInvariant, HeldIsHandled PROVE NoLeakAtRest
  <2> SUFFICES ASSUME seeded, Quiescent PROVE counter = remaining
    BY DEF NoLeakAtRest
  <2>1. /\ claims \subseteq Requests /\ orders \subseteq claims /\ IsFiniteSet(claims)
        /\ counter \in Nat /\ remaining \in Nat
    BY <1>1, FS_Subset DEF WriteInvariant, PathInvariant, TypeOK, RedisTypeOK, DBTypeOK,
       ReservationInvariant, SoldIsClaimed
  <2>2. ASSUME NEW r \in Requests PROVE ~Held(r)
    BY <1>1 DEF HeldIsHandled, Tried, Quiescent, Answers, IsLive
  <2>3. orders = claims /\ Cardinality(claims) \in Nat
    BY <2>1, <2>2, FS_CardinalityType DEF Held
  <2>4. remaining + Cardinality(orders) = Stock /\ counter + Cardinality(claims) = Stock
    BY <1>1 DEF WriteInvariant, NeverOversold, ReservationInvariant, NoUnitReturnedTwice
  <2> QED
    BY <2>1, <2>3, <2>4
<1> QED
  BY <1>1, ReservationsInOrder, HeldStaysHandled, PTL DEF EveryFailureNoticed
=============================================================================
