----------------------------- MODULE RedisData -----------------------------
(***************************************************************************)
(* redis-data, as the order path uses it: the stock counter of one product *)
(* and, for every user, the in-flight lock and the bought flag, with the   *)
(* Lua scripts of src/redis/lua as the only ways to change them.  A script *)
(* is atomic in Redis, so each is one operator on the whole state.         *)
(*                                                                         *)
(* A request is named by its requestToken, a fresh UUID per call, so a     *)
(* member of Requests stands for both.                                     *)
(***************************************************************************)
EXTENDS Integers, FiniteSets

CONSTANTS
  Requests,  \* purchase requests for the product (= their requestTokens)
  Users,     \* users that send them
  UserOf,    \* the user of each request
  None,      \* no request, no worker: an absent key or an empty field
  Stock      \* remaining_stock of the product when the sale opens

ASSUME RequestAssumption ==
  /\ IsFiniteSet(Requests)
  /\ UserOf \in [Requests -> Users]
  /\ None \notin Requests
ASSUME StockAssumption == Stock \in Nat

VARIABLES
  seeded,   \* stock:flash_sale:{product} exists
  counter,  \* its value, 0 while it does not exist
  lock,     \* lock:order:{user}:{product}: the token that holds it, or None
  bought,   \* users with a bought:{product}:{user} flag
  guard,    \* tokens with a compensated:{job}:{token} key
  claims    \* history: requests that were decremented for and not restored

redisVars == <<seeded, counter, lock, bought, guard, claims>>

RedisTypeOK ==
  /\ seeded \in BOOLEAN
  /\ counter \in Nat
  /\ lock \in [Users -> Requests \cup {None}]
  /\ bought \subseteq Users
  /\ guard \subseteq Requests
  /\ claims \subseteq Requests

RedisInit ==
  /\ seeded = FALSE
  /\ counter = 0
  /\ lock = [u \in Users |-> None]
  /\ bought = {}
  /\ guard = {}
  /\ claims = {}

-----------------------------------------------------------------------------
\* seed:redis: SET NX of the remaining stock read from the database.
SeedScript(remainingStock) ==
  /\ IF seeded THEN UNCHANGED <<seeded, counter>>
               ELSE seeded' = TRUE /\ counter' = remainingStock
  /\ UNCHANGED <<lock, bought, guard, claims>>

\* Mutation of Verdict: "sold out" only below zero.
VerdictOffByOne(r) ==
  IF ~seeded                       THEN "STOCK_NOT_INITIALIZED" ELSE
  IF UserOf[r] \in bought          THEN "ALREADY_PURCHASED"     ELSE
  IF lock[UserOf[r]] # None        THEN "REQUEST_IN_FLIGHT"     ELSE
  IF counter < 0                   THEN "SOLD_OUT"              ELSE "ALLOWED"

\* The checks of gatekeeper.lua in their order, named like GatekeeperVerdict.
Verdict(r) ==
  IF ~seeded                       THEN "STOCK_NOT_INITIALIZED" ELSE
  IF UserOf[r] \in bought          THEN "ALREADY_PURCHASED"     ELSE
  IF lock[UserOf[r]] # None        THEN "REQUEST_IN_FLIGHT"     ELSE
  IF counter <= 0                  THEN "SOLD_OUT"              ELSE "ALLOWED"

\* gatekeeper.lua: only the verdict ALLOWED writes, and then both the
\* decrement and the lock.
GatekeeperScript(r) ==
  IF Verdict(r) = "ALLOWED"
    THEN /\ counter' = counter - 1
         /\ lock' = [lock EXCEPT ![UserOf[r]] = r]
         /\ claims' = claims \cup {r}
         /\ UNCHANGED <<seeded, bought, guard>>
    ELSE UNCHANGED redisVars

-----------------------------------------------------------------------------
\* INCR of the stock counter (which creates a missing key) for request r.
Restore(r) ==
  /\ seeded' = TRUE
  /\ counter' = counter + 1
  /\ claims' = claims \ {r}

\* Mutation of CompareAndDelete: DEL without the comparison.
DeleteAnyLock(r) == lock' = [lock EXCEPT ![UserOf[r]] = None]

\* GET lock == token, then DEL: a lock of another request stays.
CompareAndDelete(r) ==
  lock' = IF lock[UserOf[r]] = r THEN [lock EXCEPT ![UserOf[r]] = None] ELSE lock

\* Mutation of CompensateScript: the lock is left to its TTL.
CompensateKeepsLock(r) == Restore(r) /\ UNCHANGED <<lock, bought, guard>>

\* compensate.lua: the increment is unconditional, a second run's too.
CompensateScript(r) ==
  /\ Restore(r)
  /\ CompareAndDelete(r)
  /\ UNCHANGED <<bought, guard>>

\* Mutations of CompensateIfReservedScript: any lock of the user, or no lock at
\* all, passes for a proof.
CompensateOnAnyLock(r) ==
  IF lock[UserOf[r]] # None
    THEN Restore(r) /\ CompareAndDelete(r) /\ UNCHANGED <<bought, guard>>
    ELSE UNCHANGED redisVars
CompensateUnproved(r) == Restore(r) /\ CompareAndDelete(r) /\ UNCHANGED <<bought, guard>>

\* compensate-if-reserved.lua: the lock is the proof that the gatekeeper ran.
ReservationProved(r) == lock[UserOf[r]] = r

CompensateIfReservedScript(r) ==
  IF ReservationProved(r)
    THEN /\ Restore(r)
         /\ lock' = [lock EXCEPT ![UserOf[r]] = None]
         /\ UNCHANGED <<bought, guard>>
    ELSE UNCHANGED redisVars

\* compensate-once.lua: SET NX of the guard decides, then as compensate.lua.
GuardTaken(r) == r \in guard

CompensateOnceScript(r) ==
  IF GuardTaken(r)
    THEN UNCHANGED redisVars
    ELSE /\ guard' = guard \cup {r}
         /\ Restore(r)
         /\ CompareAndDelete(r)
         /\ UNCHANGED bought

\* SET of the bought flag, without a TTL.
MarkBoughtCommand(u) ==
  /\ bought' = bought \cup {u}
  /\ UNCHANGED <<seeded, counter, lock, guard, claims>>

\* release-lock.lua.
ReleaseLockScript(r) ==
  /\ CompareAndDelete(r)
  /\ UNCHANGED <<seeded, counter, bought, guard, claims>>

\* The lock's PX time is up.
LockTimeout(u) ==
  /\ lock[u] # None
  /\ lock' = [lock EXCEPT ![u] = None]
  /\ UNCHANGED <<seeded, counter, bought, guard, claims>>
=============================================================================
