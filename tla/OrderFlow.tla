----------------------------- MODULE OrderFlow -----------------------------
(***************************************************************************)
(* The write path of the flash sale, for one product: POST /orders runs    *)
(* the gatekeeper on redis-data, enqueues a BullMQ job and answers 202; an *)
(* order worker takes the job, decrements the stock and inserts the order  *)
(* in one PostgreSQL transaction, and marks the purchase in Redis.  Every  *)
(* exit that leaves a reservation without a job has to give it back.       *)
(*                                                                         *)
(* A request is a process (its pc is the await it is at), and so is every  *)
(* worker slot.  Between two steps of one process anything may happen.     *)
(* What may go wrong is named: a fault occurs only if it is in Faults, so  *)
(* a configuration says which faults it tolerates.                         *)
(***************************************************************************)
EXTENDS OrderDB

CONSTANT Faults  \* the faults that may happen, among AllFaults

AllFaults == {
  "GatekeeperReplyLost", \* the script ran, its caller got an error or a timeout
  "GatekeeperNotRun",    \* the caller got an error and the script never ran
  "GatekeeperResent",    \* ioredis reconnected and sent the command again
  "AddNotStored",        \* queue.add threw and stored nothing
  "AddReplyLost",        \* queue.add threw after the job was stored
  "ReadJobFails",        \* queue.getJob threw
  "CompensationNotRun",  \* a compensation script did not run
  "CompensationResent",  \* compensate.lua was sent again on reconnect
  "ApiCrash",            \* an API instance died inside createOrder
  "BeginFails",          \* no connection, or BEGIN failed, in the worker
  "TransactionFails",    \* UPDATE, INSERT or COMMIT failed and was rolled back
  "CommitReplyLost",     \* COMMIT took effect, the worker got an error
  "PostCommitFails",     \* a Redis command after the commit failed
  "WorkerCrash",         \* the worker process died
  "StalledOut",          \* a job loses its worker more often than MaxStalled
  "JobLockLost",         \* a live worker fails to renew the lock of its job
  "LockTtl",             \* the in-flight lock times out
  "LateTtl",             \* ... even before the answer to a lost gatekeeper reply
  "Trim",                \* finished jobs are removed beyond the latest 5000
  "EarlyTrim" }          \* ... even between queue.add and queue.getJob

ASSUME FaultAssumption == Faults \subseteq AllFaults

VARIABLES
  pc,    \* where each request is in createOrder, or its answer
  wpc,   \* where each worker slot is in process()
  wtok,  \* job.data.requestToken of the job a worker slot works on
  wmade  \* job.attemptsMade of that job, as it was when it was taken

apiVars == pc
workerVars == <<wpc, wtok, wmade>>
vars == <<redisVars, job, dbVars, pc, workerVars>>

Answers == {
  "accepted",     \* 202
  "purchased",    \* 409 You already purchased this product
  "inFlight",     \* 429 Order already in progress
  "soldOut",      \* 409 Sold out
  "processed",    \* 409 Order already processed
  "unavailable",  \* 503
  "dead" }        \* the instance died, no answer

\* The awaits of createOrder.
Pending == {"resent", "unsure", "reserved", "verify",
            "notEnqueued", "notEnqueuedAgain", "duplicate", "duplicateAgain"}

WorkerStates == {"idle", "begin", "update", "insert", "commit", "compensate",
                 "throw", "mark", "release", "return", "returnSoldOut"}

TypeOK ==
  /\ RedisTypeOK
  /\ QueueTypeOK
  /\ DBTypeOK
  /\ pc \in [Requests -> {"idle"} \cup Pending \cup Answers]
  /\ wpc \in [Workers -> WorkerStates]
  /\ wtok \in [Workers -> Requests \cup {None}]
  /\ wmade \in [Workers -> Nat]

Init ==
  /\ RedisInit
  /\ QueueInit
  /\ DBInit
  /\ pc = [r \in Requests |-> "idle"]
  /\ wpc = [w \in Workers |-> "idle"]
  /\ wtok = [w \in Workers |-> None]
  /\ wmade = [w \in Workers |-> 0]

Goto(r, where) == pc' = [pc EXCEPT ![r] = where]
WGoto(w, where) == wpc' = [wpc EXCEPT ![w] = where] /\ UNCHANGED <<wtok, wmade>>

\* The worker slot is done with its job.
WIdle(w) ==
  /\ wpc' = [wpc EXCEPT ![w] = "idle"]
  /\ wtok' = [wtok EXCEPT ![w] = None]
  /\ wmade' = [wmade EXCEPT ![w] = 0]

WUser(w) == UserOf[wtok[w]]

-----------------------------------------------------------------------------
(* Tier 1: the gatekeeper *)

\* The release step seeds the counter before the orders can pass.  Until it
\* does no order can change the row, so its SELECT and its SET NX are one step.
SeedStock ==
  /\ ~seeded
  /\ SeedScript(remaining)
  /\ UNCHANGED <<job, dbVars, apiVars, workerVars>>

\* The switch on the verdict.
AfterVerdict(verdict) ==
  CASE verdict = "ALLOWED"               -> "reserved"
    [] verdict = "ALREADY_PURCHASED"     -> "purchased"
    [] verdict = "REQUEST_IN_FLIGHT"     -> "inFlight"
    [] verdict = "SOLD_OUT"              -> "soldOut"
    [] verdict = "STOCK_NOT_INITIALIZED" -> "unavailable"

CallGatekeeper(r) ==
  /\ pc[r] = "idle"
  /\ GatekeeperScript(r)
  /\ Goto(r, AfterVerdict(Verdict(r)))
  /\ UNCHANGED <<job, dbVars, workerVars>>

\* The script ran and its connection dropped: ioredis sends the command again
\* on the next one, and other commands pass in between.  A first run that is
\* not ALLOWED changes nothing, so that CallGatekeeper stands for both.
GatekeeperResent(r) ==
  /\ "GatekeeperResent" \in Faults
  /\ pc[r] = "idle"
  /\ Verdict(r) = "ALLOWED"
  /\ GatekeeperScript(r)
  /\ Goto(r, "resent")
  /\ UNCHANGED <<job, dbVars, workerVars>>

\* The second run answers the caller: it meets the lock of the first.
GatekeeperRunsAgain(r) ==
  /\ pc[r] = "resent"
  /\ GatekeeperScript(r)
  /\ Goto(r, AfterVerdict(Verdict(r)))
  /\ UNCHANGED <<job, dbVars, workerVars>>

GatekeeperReplyLost(r) ==
  /\ "GatekeeperReplyLost" \in Faults
  /\ pc[r] \in {"idle", "resent"}
  /\ GatekeeperScript(r)
  /\ Goto(r, "unsure")
  /\ UNCHANGED <<job, dbVars, workerVars>>

GatekeeperNotRun(r) ==
  /\ "GatekeeperNotRun" \in Faults
  /\ pc[r] \in {"idle", "resent"}
  /\ Goto(r, "unsure")
  /\ UNCHANGED <<redisVars, job, dbVars, workerVars>>

\* catch of the gatekeeper call: give back what the lock proves was taken.
CompensateIfReserved(r) ==
  /\ pc[r] = "unsure"
  /\ CompensateIfReservedScript(r)
  /\ Goto(r, "unavailable")
  /\ UNCHANGED <<job, dbVars, workerVars>>

-----------------------------------------------------------------------------
(* Tier 2: the queue *)

Enqueue(r) ==
  /\ pc[r] = "reserved"
  /\ AddJob(r)
  /\ Goto(r, "verify")
  /\ UNCHANGED <<redisVars, dbVars, workerVars>>

\* Mutation of EnqueueFails: a failed queue.add is answered uncompensated.
EnqueueFailsForGood(r) ==
  /\ pc[r] = "reserved"
  /\ "AddNotStored" \in Faults
  /\ Goto(r, "unavailable")
  /\ UNCHANGED <<redisVars, job, dbVars, workerVars>>

\* catch of queue.add: compensate, 503.  (A missing job, which add() never
\* returns, would be answered in the same way.)
EnqueueFails(r) ==
  /\ pc[r] = "reserved"
  /\ \/ "AddNotStored" \in Faults /\ UNCHANGED job
     \/ "AddReplyLost" \in Faults /\ AddJob(r)
  /\ Goto(r, "notEnqueued")
  /\ UNCHANGED <<redisVars, dbVars, workerVars>>

\* Mutation of VerifyStoredJob: a job already taken passes for another's.
VerifyByState(r) ==
  /\ pc[r] = "verify"
  /\ Goto(r, IF job[UserOf[r]].state \in {"none", "waiting"} THEN "accepted" ELSE "duplicate")
  /\ UNCHANGED <<redisVars, job, dbVars, workerVars>>

\* readStoredJob: only a stored job with another token disproves ours.
VerifyStoredJob(r) ==
  LET stored == job[UserOf[r]]
  IN /\ pc[r] = "verify"
     /\ Goto(r, IF stored.state # "none" /\ stored.token # r THEN "duplicate" ELSE "accepted")
     /\ UNCHANGED <<redisVars, job, dbVars, workerVars>>

\* readStoredJob swallows the error and answers null: accepted, unverified.
ReadJobFails(r) ==
  /\ "ReadJobFails" \in Faults
  /\ pc[r] = "verify"
  /\ Goto(r, "accepted")
  /\ UNCHANGED <<redisVars, job, dbVars, workerVars>>

\* What createOrder throws once it has compensated, or failed to.
AfterCompensation(where) ==
  IF where \in {"duplicate", "duplicateAgain"} THEN "processed" ELSE "unavailable"

\* The awaits of compensate(): its script sent, or sent again on reconnect.
Compensating == {"notEnqueued", "notEnqueuedAgain", "duplicate", "duplicateAgain"}

\* compensate(): a reservation without a job is given back.
Compensate(r) ==
  /\ pc[r] \in Compensating
  /\ CompensateScript(r)
  /\ Goto(r, AfterCompensation(pc[r]))
  /\ UNCHANGED <<job, dbVars, workerVars>>

\* The script ran, its connection dropped and ioredis sends it again, which
\* nothing in the script notices.  Commands of others pass in between.
CompensationResent(r) ==
  /\ "CompensationResent" \in Faults
  /\ pc[r] \in {"notEnqueued", "duplicate"}
  /\ CompensateScript(r)
  /\ Goto(r, IF pc[r] = "duplicate" THEN "duplicateAgain" ELSE "notEnqueuedAgain")
  /\ UNCHANGED <<job, dbVars, workerVars>>

\* compensate() and compensateIfReserved() log a failure and swallow it.
CompensationFails(r) ==
  /\ "CompensationNotRun" \in Faults
  /\ pc[r] \in {"unsure"} \cup Compensating
  /\ Goto(r, AfterCompensation(pc[r]))
  /\ UNCHANGED <<redisVars, job, dbVars, workerVars>>

\* The API instance dies while createOrder awaits.
ApiCrash(r) ==
  /\ "ApiCrash" \in Faults
  /\ pc[r] \in Pending
  /\ Goto(r, "dead")
  /\ UNCHANGED <<redisVars, job, dbVars, workerVars>>

-----------------------------------------------------------------------------
(* Tier 3: the order worker *)

WorkerTake(w, u) ==
  /\ wpc[w] = "idle"
  /\ TakeJob(w, u)
  /\ wpc' = [wpc EXCEPT ![w] = "begin"]
  /\ wtok' = [wtok EXCEPT ![w] = job[u].token]
  /\ wmade' = [wmade EXCEPT ![w] = job[u].made]
  /\ UNCHANGED <<redisVars, dbVars, apiVars>>

BeginTransaction(w) ==
  /\ wpc[w] = "begin"
  /\ WGoto(w, "update")
  /\ UNCHANGED <<redisVars, job, dbVars, apiVars>>

\* connect() and startTransaction() stand before the try: their error leaves
\* process() without passing the catch that compensates.
BeginFails(w) ==
  /\ "BeginFails" \in Faults
  /\ wpc[w] = "begin"
  /\ WGoto(w, "throw")
  /\ UNCHANGED <<redisVars, job, dbVars, apiVars>>

UpdateStock(w) ==
  /\ wpc[w] = "update"
  /\ DecrementRow(w)
  /\ WGoto(w, "insert")
  /\ UNCHANGED <<redisVars, job, apiVars>>

\* No row affected: SoldOutError, caught, not compensated, not retried.
UpdateSoldOut(w) ==
  /\ wpc[w] = "update"
  /\ DecrementMisses
  /\ WGoto(w, "returnSoldOut")
  /\ UNCHANGED <<redisVars, job, dbVars, apiVars>>

InsertOrder(w) ==
  /\ wpc[w] = "insert"
  /\ InsertAllowed(wtok[w])
  /\ WGoto(w, "commit")
  /\ UNCHANGED <<redisVars, job, dbVars, apiVars>>

\* Mutation of InsertViolatesUnique: 23505 passes for a permanent failure.
DuplicateCompensated(w) ==
  /\ wpc[w] = "insert"
  /\ ~InsertAllowed(wtok[w])
  /\ RollbackTransaction(w)
  /\ WGoto(w, "compensate")
  /\ UNCHANGED <<redisVars, job, apiVars>>

\* 23505: rolled back, already confirmed, neither compensated nor retried.
InsertViolatesUnique(w) ==
  /\ wpc[w] = "insert"
  /\ ~InsertAllowed(wtok[w])
  /\ RollbackTransaction(w)
  /\ WGoto(w, "return")
  /\ UNCHANGED <<redisVars, job, apiVars>>

\* Mutation of CommitOrder: the bought flag is not set before the lock goes.
CommitThenRelease(w) ==
  /\ wpc[w] = "commit"
  /\ CommitOrderRow(w, wtok[w])
  /\ WGoto(w, "release")
  /\ UNCHANGED <<redisVars, job, apiVars>>

CommitOrder(w) ==
  /\ wpc[w] = "commit"
  /\ CommitOrderRow(w, wtok[w])
  /\ WGoto(w, "mark")
  /\ UNCHANGED <<redisVars, job, apiVars>>

\* Mutations of IsFinalAttempt: one attempt early, one late.
IsPenultimateAttempt(w) == wmade[w] + 2 >= Attempts
IsPastFinalAttempt(w) == wmade[w] + 1 > Attempts

IsFinalAttempt(w) == wmade[w] + 1 >= Attempts

\* Mutation of AfterTransientError: every attempt compensates.
AlwaysCompensates(w) == "compensate"

\* The catch of a transient error: compensate on the last attempt only.
AfterTransientError(w) == IF IsFinalAttempt(w) THEN "compensate" ELSE "throw"

\* Mutation of TransactionFails: the error is swallowed, the purchase marked.
TransactionErrorSwallowed(w) ==
  /\ "TransactionFails" \in Faults
  /\ wpc[w] \in {"update", "insert", "commit"}
  /\ RollbackTransaction(w)
  /\ WGoto(w, "mark")
  /\ UNCHANGED <<redisVars, job, apiVars>>

TransactionFails(w) ==
  /\ "TransactionFails" \in Faults
  /\ wpc[w] \in {"update", "insert", "commit"}
  /\ RollbackTransaction(w)
  /\ WGoto(w, AfterTransientError(w))
  /\ UNCHANGED <<redisVars, job, apiVars>>

CommitReplyLost(w) ==
  /\ "CommitReplyLost" \in Faults
  /\ wpc[w] = "commit"
  /\ CommitOrderRow(w, wtok[w])
  /\ WGoto(w, AfterTransientError(w))
  /\ UNCHANGED <<redisVars, job, apiVars>>

CompensateOnce(w) ==
  /\ wpc[w] = "compensate"
  /\ CompensateOnceScript(wtok[w])
  /\ WGoto(w, "throw")
  /\ UNCHANGED <<job, dbVars, apiVars>>

\* The error of compensateOnce leaves process() like the one it was for.
CompensateOnceFails(w) ==
  /\ "CompensationNotRun" \in Faults
  /\ wpc[w] = "compensate"
  /\ WGoto(w, "throw")
  /\ UNCHANGED <<redisVars, job, dbVars, apiVars>>

\* process() rejects.
ThrowToQueue(w) ==
  /\ wpc[w] = "throw"
  /\ FailJob(w, WUser(w), wmade[w])
  /\ WIdle(w)
  /\ UNCHANGED <<redisVars, dbVars, apiVars>>

MarkBought(w) ==
  /\ wpc[w] = "mark"
  /\ MarkBoughtCommand(WUser(w))
  /\ WGoto(w, "release")
  /\ UNCHANGED <<job, dbVars, apiVars>>

ReleaseInFlightLock(w) ==
  /\ wpc[w] = "release"
  /\ ReleaseLockScript(wtok[w])
  /\ WGoto(w, "return")
  /\ UNCHANGED <<job, dbVars, apiVars>>

\* An error after the commit is swallowed and ends the side effects.
PostCommitFails(w) ==
  /\ "PostCommitFails" \in Faults
  /\ wpc[w] \in {"mark", "release"}
  /\ WGoto(w, "return")
  /\ UNCHANGED <<redisVars, job, dbVars, apiVars>>

\* process() resolves: confirmed, already confirmed or sold out.
ReturnToQueue(w) ==
  /\ wpc[w] \in {"return", "returnSoldOut"}
  /\ CompleteJob(w, WUser(w))
  /\ WIdle(w)
  /\ UNCHANGED <<redisVars, dbVars, apiVars>>

\* The worker process dies; PostgreSQL rolls its transaction back.  Without
\* the fault StalledOut a job loses its worker at most MaxStalled times.
WorkerCrash(w) ==
  /\ "WorkerCrash" \in Faults
  /\ wpc[w] # "idle"
  /\ job[WUser(w)].stalled < MaxStalled \/ "StalledOut" \in Faults
  /\ RollbackTransaction(w)
  /\ WIdle(w)
  /\ UNCHANGED <<redisVars, job, apiVars>>

-----------------------------------------------------------------------------
(* Time passing in Redis and BullMQ *)

BackoffEnds(u) ==
  /\ PromoteJob(u)
  /\ UNCHANGED <<redisVars, dbVars, apiVars, workerVars>>

\* No worker slot runs the active job any more.
Orphan(u) ==
  /\ job[u].state = "active"
  /\ LET w == job[u].owner IN ~(wpc[w] # "idle" /\ WUser(w) = u)

StalledCheck(u) ==
  /\ \/ Orphan(u)
     \/ /\ "JobLockLost" \in Faults
        /\ job[u].stalled < MaxStalled \/ "StalledOut" \in Faults
  /\ RecoverJob(u)
  /\ UNCHANGED <<redisVars, dbVars, apiVars, workerVars>>

\* ORDER_LOCK_TTL_MS (30 s).  commandTimeout is 1 s, so that a command sent
\* again meets the lock of its first run, and without LateTtl the lock outlives
\* the wait for a gatekeeper reply that does not come.
LockExpires(u) ==
  /\ "LockTtl" \in Faults
  /\ \A r \in Requests : pc[r] = "resent" => lock[u] # r
  /\ "LateTtl" \in Faults \/ \A r \in Requests : pc[r] = "unsure" => lock[u] # r
  /\ LockTimeout(u)
  /\ UNCHANGED <<job, dbVars, apiVars, workerVars>>

\* Without EarlyTrim no job goes while a request is about to read it back.
TrimFinishedJob(u) ==
  /\ "Trim" \in Faults
  /\ "EarlyTrim" \in Faults \/ \A r \in Requests : pc[r] = "verify" => UserOf[r] # u
  /\ TrimJob(u)
  /\ UNCHANGED <<redisVars, dbVars, apiVars, workerVars>>

-----------------------------------------------------------------------------
ApiNext(r) ==
  \/ CallGatekeeper(r) \/ GatekeeperReplyLost(r) \/ GatekeeperNotRun(r)
  \/ GatekeeperResent(r) \/ GatekeeperRunsAgain(r)
  \/ CompensateIfReserved(r)
  \/ Enqueue(r) \/ EnqueueFails(r)
  \/ VerifyStoredJob(r) \/ ReadJobFails(r)
  \/ Compensate(r) \/ CompensationResent(r) \/ CompensationFails(r)
  \/ ApiCrash(r)

WorkerNext(w) ==
  \/ \E u \in Users : WorkerTake(w, u)
  \/ BeginTransaction(w) \/ BeginFails(w)
  \/ UpdateStock(w) \/ UpdateSoldOut(w)
  \/ InsertOrder(w) \/ InsertViolatesUnique(w)
  \/ CommitOrder(w) \/ CommitReplyLost(w) \/ TransactionFails(w)
  \/ CompensateOnce(w) \/ CompensateOnceFails(w) \/ ThrowToQueue(w)
  \/ MarkBought(w) \/ ReleaseInFlightLock(w) \/ PostCommitFails(w) \/ ReturnToQueue(w)
  \/ WorkerCrash(w)

TimeNext(u) == BackoffEnds(u) \/ StalledCheck(u) \/ LockExpires(u) \/ TrimFinishedJob(u)

\* BullMQ failed the job of request r when it lost its worker once too often:
\* no attempt of it runs any more, the one that would compensate included.
StalledOut(r) ==
  LET stored == job[UserOf[r]]
  IN stored.state = "failed" /\ stored.token = r /\ stored.stalled > MaxStalled

\* Every request is answered and every job finished.
Quiescent ==
  /\ \A r \in Requests : pc[r] \in Answers
  /\ \A u \in Users : ~IsLive(u)
  /\ \A w \in Workers : wpc[w] = "idle"

\* The sale is over: nothing more has to happen.
Rest == seeded /\ Quiescent /\ UNCHANGED vars

Next ==
  \/ SeedStock
  \/ \E r \in Requests : ApiNext(r)
  \/ \E w \in Workers : WorkerNext(w)
  \/ \E u \in Users : TimeNext(u)
  \/ Rest

Spec == Init /\ [][Next]_vars

\* Scheduling: once called, createOrder runs on unless its instance dies, a
\* worker slot keeps fetching and running jobs, BullMQ ends a backoff and finds
\* a job whose worker died.  Nothing makes a request arrive, a fault happen, a
\* lock time out or a finished job go.
Fairness ==
  /\ WF_vars(SeedStock)
  /\ \A r \in Requests :
       WF_vars(\/ GatekeeperRunsAgain(r) \/ CompensateIfReserved(r) \/ Enqueue(r)
               \/ VerifyStoredJob(r) \/ Compensate(r))
  /\ \A w \in Workers :
       /\ WF_vars(\E u \in Users : WorkerTake(w, u))
       /\ WF_vars(\/ BeginTransaction(w) \/ UpdateStock(w) \/ UpdateSoldOut(w)
                  \/ InsertOrder(w) \/ InsertViolatesUnique(w) \/ CommitOrder(w)
                  \/ CompensateOnce(w) \/ ThrowToQueue(w)
                  \/ MarkBought(w) \/ ReleaseInFlightLock(w) \/ ReturnToQueue(w))
  /\ \A u \in Users : WF_vars(BackoffEnds(u)) /\ WF_vars(Orphan(u) /\ StalledCheck(u))

FairSpec == Spec /\ Fairness

-----------------------------------------------------------------------------
(* What holds whatever fails *)

\* Every committed order took exactly one unit off the product row, and the row
\* never falls below zero, so that no more are sold than there are: the
\* conditional UPDATE and the INSERT are one transaction (orders.processor.ts),
\* whatever Redis admits by mistake and whatever BullMQ or crashes do.
NeverOversold == remaining >= 0 /\ remaining + Cardinality(orders) = Stock

\* A user has at most one order for the product, however many requests, jobs
\* and redeliveries there were: UNIQUE (user, product) and the 23505 branch.
OneOrderPerUser == \A a, b \in orders : UserOf[a] = UserOf[b] => a = b

\* The gatekeeper answers "already purchased" only to users with an order:
\* markBought runs after a commit the worker knows of.
BoughtMeansOrdered == \A u \in bought : Ordered(u)

\* compensate-if-reserved.lua rests on this: a lock holding a request's token
\* proves that the request's decrement happened and was not given back.
LockProvesClaim == \A u \in Users : lock[u] # None => lock[u] \in claims /\ UserOf[lock[u]] = u

-----------------------------------------------------------------------------
(* What holds unless a fault makes the program believe what is not so *)

AmbiguousFaults == {"AddReplyLost", "CompensationResent", "CommitReplyLost", "WorkerCrash",
                    "JobLockLost", "EarlyTrim"}
NoAmbiguity == Faults \cap AmbiguousFaults = {}

\* Each decrement is given back at most once, and only a decrement is: the
\* four compensation paths of API and worker never restore the same unit twice.
NoUnitReturnedTwice == seeded => counter + Cardinality(claims) = Stock

\* No compensation ever gives back a unit that was sold.
SoldIsClaimed == orders \subseteq claims

\* Redis admits no more buyers than the database has units.
RedisNeverAhead == counter <= remaining

\* Every admitted request whose job reaches the UPDATE finds a unit there:
\* sold out is answered by the gatekeeper and never by the worker.
AdmittedFindsStock == \A w \in Workers : wpc[w] # "returnSoldOut"

\* A request that was answered 409, 429 or 503 never buys anything.
RefusedNeverSold ==
  \A r \in orders : pc[r] \notin {"purchased", "inFlight", "soldOut", "processed", "unavailable"}

\* The path implements the ledger of units.
Ledger == INSTANCE StockLedger WITH
            free <- IF seeded THEN counter ELSE Stock,
            held <- claims \ orders,
            sold <- orders
LedgerSpec == Ledger!Spec

-----------------------------------------------------------------------------
(* What holds while every failure is compensated for *)

\* When all is quiet the counter equals the database: no reservation leaked.
NoLeakAtRest == seeded /\ Quiescent => counter = remaining

\* A user with a committed order is not admitted again: the bought flag is
\* there before the lock goes, in markBought-then-release order.
NoAdmissionAfterSale ==
  [][\A r \in Requests : r \in claims' \ claims => ~Ordered(UserOf[r])]_vars

\* Only its holder, by its request or its job, takes a lock away before it
\* times out: the compare-and-delete of every script.
OnlyHolderUnlocks ==
  [][\A u \in Users : LET r == lock[u] IN
       r # None /\ lock'[u] # r =>
         \/ UNCHANGED <<pc, wpc>>
         \/ pc'[r] # pc[r]
         \/ \E w \in Workers : wtok[w] = r /\ wpc'[w] # wpc[w]]_vars

\* Every reservation is settled sooner or later: sold, or given back, unless
\* BullMQ failed its job for losing its worker once too often.
ReservationsSettle ==
  \A r \in Requests : r \in claims \ orders ~> r \notin claims \ orders \/ StalledOut(r)

\* ... and those jobs are the whole leak: with crashes, timed-out locks and lost
\* marks, the counter at rest lacks exactly the units BullMQ failed without
\* ever running compensateOnce.
OnlyStalledOutLeaks ==
  seeded /\ Quiescent =>
    counter + Cardinality({r \in claims \ orders : StalledOut(r)}) = remaining

\* Every request that arrived is answered, and every stored job finishes.
EverythingEnds ==
  /\ \A r \in Requests : pc[r] # "idle" ~> pc[r] \in Answers
  /\ \A u \in Users : IsLive(u) ~> ~IsLive(u)

-----------------------------------------------------------------------------
(* What the comments of the code say of it *)

\* orders.processor.ts: the worker gives a unit back only when the job really
\* failed for good, never when it was sold.
CompensatesOnlyUnsold ==
  [][\A w \in Workers : CompensateOnce(w) => wtok[w] \notin orders]_vars
=============================================================================
