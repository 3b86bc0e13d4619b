------------------------------- MODULE Rounds -------------------------------
(***************************************************************************)
(* Sales in rounds: the scripts that prepare one beside the write path     *)
(* that runs it.  migrate-and-seed runs whenever app-1 starts, in the      *)
(* middle of a sale too; seed:redis runs when an operator likes; reset     *)
(* takes the system back to the start between two rounds.  None of them    *)
(* has a transaction over PostgreSQL and Redis: each is a sequence of      *)
(* statements and commands, and may end after any of them.  The clients    *)
(* are those of the load test.                                             *)
(*                                                                         *)
(* What the operator is trusted with, and no script checks: reset starts   *)
(* when the round is over, the load waits for its end, and one script runs *)
(* at a time.  The product row is there from the first run of the seed on, *)
(* which is the initial state.                                             *)
(***************************************************************************)
EXTENDS OrderFlowInv

VARIABLES
  script,  \* the script that runs and what it does next
  read,    \* remaining_stock as seedRedisStockWith() selected it
  fresh,   \* history: a reset was completed, with no job kept by BullMQ
  before,  \* history: requests made before that reset
  calm     \* history: redis-data was never lost while something was under way

roundVars == <<script, read, fresh, before, calm>>
allVars == <<vars, roundVars>>

Jobs == {"none", "boot", "seed:redis", "reset"}
Steps == {"orders", "rows", "stock", "bought", "locks", "guards", "products", "select", "seed"}
NoScript == [job |-> "none", step |-> "orders"]

RoundsTypeOK ==
  /\ script \in [job : Jobs, step : Steps]
  /\ read \in Nat
  /\ fresh \in BOOLEAN /\ calm \in BOOLEAN
  /\ before \subseteq Requests

RoundsInit ==
  /\ Init
  /\ script = NoScript
  /\ read = 0
  /\ fresh = FALSE /\ calm = TRUE
  /\ before = {}

\* Every request made is answered, and the queue is drained.
RoundOver ==
  /\ \A r \in Requests : pc[r] \in Answers \cup {"idle"}
  /\ \A u \in Users : ~IsLive(u)
  /\ \A w \in Workers : wpc[w] = "idle"

-----------------------------------------------------------------------------
(* The scripts *)

At(step) == script.job # "none" /\ script.step = step
Then(step) == script' = [script EXCEPT !.step = step]

\* app-1 starts: its entrypoint runs migrate-and-seed before the server.  (Its
\* migrations find nothing to do.)
StartBoot ==
  /\ script.job = "none"
  /\ script' = [job |-> "boot", step |-> "products"]
  /\ UNCHANGED <<vars, read, fresh, before, calm>>

\* seed:redis on its own, which has the product row before it.
StartSeedRedis ==
  /\ script.job = "none"
  /\ script' = [job |-> "seed:redis", step |-> "select"]
  /\ UNCHANGED <<vars, read, fresh, before, calm>>

StartReset ==
  /\ script.job = "none"
  /\ RoundOver
  /\ script' = [job |-> "reset", step |-> "orders"]
  /\ fresh' = FALSE
  /\ UNCHANGED <<vars, read, before, calm>>

\* Mutation of DeleteOrders: the orders of the last round stay.
KeepOrders == At("orders") /\ Then("rows") /\ UNCHANGED <<vars, read, fresh, before, calm>>

\* DELETE FROM orders.
DeleteOrders ==
  /\ At("orders") /\ Then("rows")
  /\ orders' = {}
  /\ UNCHANGED <<redisVars, job, remaining, rowLock, apiVars, workerVars, read, fresh, before, calm>>

\* UPDATE products SET remaining_stock = available_stock, and a line of log.
RestoreRows ==
  /\ At("rows") /\ Then("stock")
  /\ remaining' = Stock
  /\ UNCHANGED <<redisVars, job, orders, rowLock, apiVars, workerVars, read, fresh, before, calm>>

\* SCAN and DEL of each pattern in turn.
DeleteStock ==
  /\ At("stock") /\ Then("bought")
  /\ seeded' = FALSE /\ counter' = 0
  /\ UNCHANGED <<lock, bought, guard, claims, job, dbVars, apiVars, workerVars, read, fresh, before, calm>>

\* Mutation of DeleteBought: the flags, which have no TTL, are left alone.
KeepBought == At("bought") /\ Then("locks") /\ UNCHANGED <<vars, read, fresh, before, calm>>

DeleteBought ==
  /\ At("bought") /\ Then("locks")
  /\ bought' = {}
  /\ UNCHANGED <<seeded, counter, lock, guard, claims, job, dbVars, apiVars, workerVars, read, fresh, before, calm>>

\* The history of units starts again with the locks that prove them.
DeleteLocks ==
  /\ At("locks") /\ Then("guards")
  /\ lock' = [u \in Users |-> None]
  /\ claims' = {}
  /\ UNCHANGED <<seeded, counter, bought, guard, job, dbVars, apiVars, workerVars, read, fresh, before, calm>>

\* (The sale does not read the metrics, whose DEL follows in the code.  To the
\* processes that count it is the DeleteCounters of one that counts nothing.)
DeleteGuards ==
  /\ At("guards") /\ Then("products")
  /\ guard' = {}
  /\ UNCHANGED <<seeded, counter, lock, bought, claims, job, dbVars, apiVars, workerVars, read, fresh, before, calm>>

\* Mutation of SeedProducts: the upsert sets the remaining stock as well.
SeedProductsAnew ==
  /\ At("products") /\ Then("select")
  /\ remaining' = Stock
  /\ UNCHANGED <<redisVars, job, orders, rowLock, apiVars, workerVars, read, fresh, before, calm>>

\* seedProducts(): on a row that exists the upsert leaves remaining_stock alone.
SeedProducts == At("products") /\ Then("select") /\ UNCHANGED <<vars, read, fresh, before, calm>>

\* seedRedisStockWith(): SELECT ...
SelectRemaining ==
  /\ At("select") /\ Then("seed")
  /\ read' = remaining
  /\ UNCHANGED <<vars, fresh, before, calm>>

\* The script is done.
Done ==
  /\ script' = NoScript
  /\ read' = 0
  /\ IF script.job = "reset"
       THEN /\ fresh' = (\A u \in Users : job[u].state = "none")
            /\ before' = {r \in Requests : pc[r] # "idle"}
       ELSE UNCHANGED <<fresh, before>>
  /\ UNCHANGED <<job, dbVars, apiVars, workerVars, calm>>

\* Mutation of SeedCounters: SET without NX.
SetCounters ==
  /\ At("seed")
  /\ seeded' = TRUE /\ counter' = read
  /\ UNCHANGED <<lock, bought, guard, claims>>
  /\ Done

\* ... and SET NX of what was selected then.
SeedCounters == At("seed") /\ SeedScript(read) /\ Done

\* A statement or command fails: the script exits with 1, its work half done.
ScriptFails ==
  /\ script.job # "none"
  /\ script' = NoScript
  /\ read' = 0
  /\ UNCHANGED <<vars, fresh, before, calm>>

ScriptNext ==
  \/ StartBoot \/ StartSeedRedis \/ StartReset
  \/ DeleteOrders \/ RestoreRows \/ DeleteStock \/ DeleteBought \/ DeleteLocks \/ DeleteGuards
  \/ SeedProducts \/ SelectRemaining \/ SeedCounters
  \/ ScriptFails

-----------------------------------------------------------------------------
(* The load and its environment *)

\* redis-data comes back without its data: keys and jobs are gone.
RedisLost ==
  /\ seeded' = FALSE /\ counter' = 0
  /\ lock' = [u \in Users |-> None]
  /\ bought' = {} /\ guard' = {} /\ claims' = {}
  /\ job' = [u \in Users |-> NoJob]
  /\ fresh' = FALSE
  /\ calm' = (calm /\ RoundOver /\ ~At("seed"))
  /\ UNCHANGED <<dbVars, apiVars, workerVars, script, read, before>>

\* placeOrder(): a virtual user has one account, and sends its next request
\* when the last one is answered.
MayPlace(r) ==
  pc[r] = "idle" => \A q \in Requests : UserOf[q] = UserOf[r] => pc[q] \notin Pending

SaleNext ==
  /\ \/ /\ script.job # "reset"
        /\ \E r \in Requests : MayPlace(r) /\ ApiNext(r)
     \/ \E w \in Workers : WorkerNext(w)
     \/ \E u \in Users : TimeNext(u)
  /\ UNCHANGED roundVars

RoundsNext == SaleNext \/ ScriptNext \/ RedisLost

RoundsSpec == RoundsInit /\ [][RoundsNext]_allVars

-----------------------------------------------------------------------------
(* What a round is worth *)

\* The status that answers a request, and how often the round's load saw it.
Status(answer) ==
  CASE answer = "accepted" -> 202
    [] answer \in {"purchased", "soldOut", "processed"} -> 409
    [] answer = "inFlight" -> 429
    [] answer \in {"unavailable", "dead"} -> 503

Made == {r \in Requests \ before : pc[r] # "idle"}
Count(status) == Cardinality({r \in Made : Status(pc[r]) = status})
Buyers == {UserOf[r] : r \in Made}

\* Whatever script ended wherever, and whatever Redis lost: orders and stock of
\* the database never add up to more than there is, so that no later sale can
\* oversell.  It rests on DELETE orders standing before UPDATE products, and on
\* an upsert that keeps remaining_stock.
UnitsBounded == remaining + Cardinality(orders) <= Stock

\* A reset has the system to itself, and restores the stock of no order.
ScriptInvariant ==
  /\ script.job = "boot" => script.step \in {"products", "select", "seed"}
  /\ script.job = "seed:redis" => script.step \in {"select", "seed"}
  /\ script.job = "reset" => RoundOver
  /\ At("rows") => orders = {}

RoundsInvariant == RoundsTypeOK /\ PathInvariant /\ ScriptInvariant /\ UnitsBounded

\* Units that may still be sold or given back: their request is not answered or
\* their job not finished.
InFlight == {r \in claims :
  r \notin orders /\ (pc[r] \in Pending \/ (Stored(r) /\ IsLive(UserOf[r])))}

\* The database has a unit for each one on the shelf and for each in flight, and
\* nothing is in flight while there is no counter: so the stock that seed:redis
\* selected is still the stock of the row when SET NX takes effect.
ShelfInvariant == calm =>
  /\ HoldInvariant
  /\ ~seeded => counter = 0 /\ InFlight = {}
  /\ ~seeded /\ At("seed") => read = remaining
  /\ counter + Cardinality(InFlight) <= remaining

\* As long as redis-data is only lost at rest, no restart of app-1, re-run or
\* failure of a script lets Redis offer more than the database has, even though
\* the value that SET NX writes may have been selected long before.
SeedNeverAhead == calm => counter <= remaining

\* The thresholds of the load test: after a completed reset, with no job left
\* of earlier rounds, the round sells exactly what there is to whoever comes,
\* answers 202 once for each unit and 503 to nobody.
RoundSellsOut ==
  fresh /\ RoundOver =>
    LET sold == IF Cardinality(Buyers) < Stock THEN Cardinality(Buyers) ELSE Stock
    IN Cardinality(orders) = sold /\ Count(202) = sold /\ Count(503) = 0

\* The seed implements the one step that OrderFlow makes of it: in a sale that
\* goes on, with its SELECT and its SET NX far apart, it changes nothing but a
\* counter that is not there, to the stock the row has at that moment.
SeedAsSpecified ==
  [][calm /\ (SeedProducts \/ SelectRemaining \/ SeedCounters) => [SeedStock]_vars]_allVars
=============================================================================
