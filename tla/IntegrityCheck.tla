--------------------------- MODULE IntegrityCheck ---------------------------
(***************************************************************************)
(* IntegrityService.check() beside the running write path.  It compares    *)
(* the database, the Redis counter and the queue, and reads each of them   *)
(* at a moment of its own: the row and its orders in one SQL statement on  *)
(* the master, then the counter, and the queue counts at any time between. *)
(* It changes nothing; the question is what its verdict is worth.  A check *)
(* sees no other check, so one that starts at any moment stands for all.   *)
(***************************************************************************)
EXTENDS OrderFlowInv

CONSTANT ReadFaults  \* reads that may fail, among AllReads

AllReads == {"Row", "Counter", "Queue"}
ASSUME ReadFaultAssumption == ReadFaults \subseteq AllReads

VARIABLES
  stage,   \* how far checkProducts() is
  row,     \* the row and its orders, as the SELECT found them
  redis,   \* the counter, as MGET found it
  queue,   \* what readQueueCounts() found
  resting  \* history: the sale was over when the check began

checkVars == <<stage, row, redis, queue, resting>>
allVars == <<vars, checkVars>>

Rows == [remaining : Int, orders : Nat, buyers : Nat]
Counters == [known : BOOLEAN, value : Int]
NoRow == [remaining |-> 0, orders |-> 0, buyers |-> 0]
NoCounter == [known |-> FALSE, value |-> 0]

CheckTypeOK ==
  /\ stage \in {"idle", "query", "mget", "read"}
  /\ row \in Rows
  /\ redis \in Counters
  /\ queue \in {"pending", "drained", "busy", "unknown"}
  /\ resting \in BOOLEAN

CheckInit ==
  /\ stage = "idle"
  /\ row = NoRow
  /\ redis = NoCounter
  /\ queue = "pending"
  /\ resting = FALSE

-----------------------------------------------------------------------------
\* Promise.all: all reads start together.
StartCheck ==
  /\ stage = "idle"
  /\ stage' = "query"
  /\ resting' = (seeded /\ Quiescent)
  /\ UNCHANGED <<row, redis, queue>>

\* One SELECT with its aggregate: a consistent snapshot of the master.
RowNow == [remaining |-> remaining,
           orders |-> Cardinality(orders),
           buyers |-> Cardinality({UserOf[o] : o \in orders})]

QueryProducts ==
  /\ stage = "query"
  /\ stage' = "mget"
  /\ row' = RowNow
  /\ UNCHANGED <<redis, queue, resting>>

\* checkProducts() rejects, and check() with it: no report.
QueryFails ==
  /\ stage = "query"
  /\ "Row" \in ReadFaults
  /\ stage' = "idle"
  /\ queue' = "pending"
  /\ UNCHANGED <<row, redis, resting>>

\* The counters are read after the rows; a failed MGET reads as no counter.
ReadStockCounters ==
  /\ stage = "mget"
  /\ stage' = "read"
  /\ \/ redis' = [known |-> seeded, value |-> counter]
     \/ "Counter" \in ReadFaults /\ redis' = NoCounter
  /\ UNCHANGED <<row, queue, resting>>

\* Mutation of ReadQueueCounts: finished jobs are counted too.
CountAllJobs ==
  /\ stage # "idle" /\ queue = "pending"
  /\ queue' = IF \E u \in Users : job[u].state # "none" THEN "busy" ELSE "drained"
  /\ UNCHANGED <<stage, row, redis, resting>>

\* waiting + active + delayed; a failed read is not a drained queue.
ReadQueueCounts ==
  /\ stage # "idle" /\ queue = "pending"
  /\ \/ queue' = IF \E u \in Users : IsLive(u) THEN "busy" ELSE "drained"
     \/ "Queue" \in ReadFaults /\ queue' = "unknown"
  /\ UNCHANGED <<stage, row, redis, resting>>

\* Mutation of CheckSteps: the counter is read first and the row afterwards.
CounterFirst ==
  \/ StartCheck
  \/ /\ stage = "query" /\ stage' = "mget"
     /\ redis' = [known |-> seeded, value |-> counter]
     /\ UNCHANGED <<row, queue, resting>>
  \/ /\ stage = "mget" /\ stage' = "read"
     /\ row' = RowNow
     /\ UNCHANGED <<redis, queue, resting>>
  \/ ReadQueueCounts

CheckSteps ==
  StartCheck \/ QueryProducts \/ QueryFails \/ ReadStockCounters \/ ReadQueueCounts

IntegrityInit == Init /\ CheckInit
IntegrityNext ==
  \/ Next /\ UNCHANGED checkVars
  \/ CheckSteps /\ UNCHANGED vars
IntegritySpec == IntegrityInit /\ [][IntegrityNext]_allVars

-----------------------------------------------------------------------------
(* The report *)

Reported == stage = "read" /\ queue # "pending"

\* buildRow(): what it calls critical.
Critical ==
  \/ row.orders > Stock
  \/ row.remaining < 0
  \/ row.orders # row.buyers
  \/ Stock - row.remaining # row.orders
  \/ redis.known /\ redis.value > row.remaining

\* check(): below the database, and no job left to blame it on.
LeakSuspected == redis.known /\ redis.value < row.remaining /\ queue = "drained"

ProductVerdict ==
  CASE Critical -> "critical"
    [] ~Critical /\ (~redis.known \/ LeakSuspected) -> "warn"
    [] OTHER -> "ok"

-----------------------------------------------------------------------------
(* What the report is worth *)

\* Between the SELECT and the MGET: the row that was read balances, and the
\* product row has no more units now than it had then.
RowIsPast ==
  stage = "mget" =>
    /\ row.remaining \in Nat /\ remaining <= row.remaining
    /\ row.orders \in Nat /\ row.orders = row.buyers
    /\ Stock - row.remaining = row.orders

\* A check that began after the sale reads what is still there when it reports.
RestIsSeen ==
  /\ stage = "idle" => queue = "pending"
  /\ resting /\ stage # "idle" =>
       /\ seeded /\ Quiescent
       /\ queue # "busy"
       /\ stage \in {"mget", "read"} => row = RowNow
       /\ stage = "read" /\ redis.known => redis.value = counter

CheckInvariant == CheckTypeOK /\ RowIsPast /\ RestIsSeen

\* "critical" is never a false alarm: whatever the write path does between the
\* reads, and whatever failed before, a row rated critical was rated so because
\* Redis was ahead of the database at the moment its counter was read.
CriticalIsTrue ==
  [][stage = "mget" /\ stage' = "read" /\ Critical' => counter > remaining]_allVars

\* A check made after the sale finds every drift, and names it rightly: leaked
\* units are a warning, units too many are critical, agreement is ok.
DriftFound ==
  resting /\ Reported /\ redis.known /\ queue # "unknown" =>
    ProductVerdict = IF counter > remaining THEN "critical"
                     ELSE IF counter < remaining THEN "warn" ELSE "ok"
=============================================================================
