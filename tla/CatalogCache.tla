---------------------------- MODULE CatalogCache ----------------------------
(***************************************************************************)
(* The catalog pages on redis-cache and how RedisService clears them: a    *)
(* committed sale calls invalidateCatalogCache(), which flushes at most    *)
(* once per window in a process (lastCatalogFlushAt, one trailing timer)   *)
(* and at most once per throttle key among all processes.  A flush reads   *)
(* catalog:index, deletes the pages it names and then the index.           *)
(*                                                                         *)
(* The catalog is its version: the number of committed sales.  Sale n      *)
(* stands for the call of invalidateCatalogCache() that follows it, and    *)
(* for the timer and the flush that come of that call.                     *)
(***************************************************************************)
EXTENDS Integers, FiniteSets

CONSTANTS
  Procs,       \* processes that sell
  Pages,       \* the (page, limit) pairs that are asked for
  MaxVersion,  \* bound: sales
  CacheFaults  \* the faults that may happen, among AllCacheFaults

AllCacheFaults == {
  "Skipped",        \* the worker died, or failed, between commit and invalidation
  "ProcessEnds",    \* a worker process ends, with its timer and its flush
  "ThrottleError",  \* the SET NX of the throttle key threw
  "FlushError",     \* a command of the flush threw
  "Evict",          \* allkeys-lru took a key away
  "ReadError",      \* GET of a page threw
  "WriteError",     \* MULTI of a page threw and stored nothing
  "QueryError",     \* the replica did not answer
  "MgetError" }     \* redis-data did not answer

NoOne == "no one"      \* the throttle key does not exist
Expiring == "expiring" \* ... and it was set a window ago
Absent == -1

ASSUME CatalogAssumption ==
  /\ MaxVersion \in Nat
  /\ Pages # {}
  /\ NoOne \notin Procs /\ Expiring \notin Procs
  /\ CacheFaults \subseteq AllCacheFaults

VARIABLES
  master,    \* sales committed on the master
  replica,   \* ... and replayed on the replica
  page,      \* the version of each cached page
  index,     \* catalog:index
  throttle,  \* catalog:flush_throttle, by the process that set it
  window,    \* whether lastCatalogFlushAt of a process is a window ago
  call,      \* what became of the invalidation of each sale
  tried,     \* history: sales committed when a flush was last tried
  flushed    \* history: ... and when the index was last read for one

cacheVars == <<page, index, throttle>>
flushVars == <<window, call, tried, flushed>>
catalogVars == <<master, replica, cacheVars, flushVars>>

Sales == 1..MaxVersion
CallStates == {"none", "due", "timer", "fires", "acquire", "list", "pages", "index", "done"}

CatalogTypeOK ==
  /\ master \in 0..MaxVersion
  /\ replica \in 0..master
  /\ page \in [Pages -> {Absent} \cup 0..MaxVersion]
  /\ index \subseteq Pages
  /\ throttle \in Procs \cup {NoOne, Expiring}
  /\ window \in [Procs -> {"open", "closed"}]
  /\ call \in [Sales -> [at : CallStates, proc : Procs, keys : SUBSET Pages]]
  /\ tried \in 0..master
  /\ flushed \in 0..master

CatalogInit ==
  /\ master = 0 /\ replica = 0
  /\ page = [p \in Pages |-> Absent]
  /\ index = {}
  /\ throttle = NoOne
  /\ window = [c \in Procs |-> "open"]
  /\ call \in [Sales -> [at : {"none"}, proc : Procs, keys : {{}}]]
  /\ tried = 0 /\ flushed = 0

CallGoto(n, where) == call' = [call EXCEPT ![n] = [call[n] EXCEPT !.at = where]]
Wipe(keys) == page' = [p \in Pages |-> IF p \in keys THEN Absent ELSE page[p]]

-----------------------------------------------------------------------------
(* Sales and their invalidation *)

\* process() commits; markBought and the lock release come before the call.
Sell(n) ==
  /\ n = master + 1
  /\ master' = n
  /\ \/ CallGoto(n, "due")
     \/ "Skipped" \in CacheFaults /\ CallGoto(n, "done")
  /\ UNCHANGED <<replica, cacheVars, window, tried, flushed>>

Replay ==
  /\ replica < master
  /\ replica' = replica + 1
  /\ UNCHANGED <<master, cacheVars, flushVars>>

TimerPending(c) == \E m \in Sales : call[m].proc = c /\ call[m].at \in {"timer", "fires"}

\* Mutation of Invalidate: no trailing flush.
InvalidateOnce(n) ==
  LET c == call[n].proc IN
  /\ call[n].at = "due"
  /\ window' = [window EXCEPT ![c] = "closed"]
  /\ CallGoto(n, IF window[c] = "open" THEN "acquire" ELSE "done")
  /\ UNCHANGED <<master, replica, cacheVars, tried, flushed>>

\* Flush now, set the trailing timer, or ride along with the one that is set.
Invalidate(n) ==
  LET c == call[n].proc IN
  /\ call[n].at = "due"
  /\ window' = [window EXCEPT ![c] = "closed"]
  /\ CallGoto(n, CASE window[c] = "open"                      -> "acquire"
                   [] window[c] = "closed" /\ ~TimerPending(c) -> "timer"
                   [] window[c] = "closed" /\ TimerPending(c)  -> "done")
  /\ UNCHANGED <<master, replica, cacheVars, tried, flushed>>

\* A window is over: the timers set in it are due, and the throttle key that
\* the process set, a round trip after it closed the window, soon expires.
WindowOpens(c) ==
  /\ window[c] = "closed"
  /\ window' = [window EXCEPT ![c] = "open"]
  /\ call' = [n \in Sales |->
       IF call[n].proc = c /\ call[n].at = "timer" THEN [call[n] EXCEPT !.at = "fires"]
                                                   ELSE call[n]]
  /\ throttle' = IF throttle = c THEN Expiring ELSE throttle
  /\ UNCHANGED <<master, replica, page, index, tried, flushed>>

TimerFires(n) ==
  /\ call[n].at = "fires"
  /\ window' = [window EXCEPT ![call[n].proc] = "closed"]
  /\ CallGoto(n, "acquire")
  /\ UNCHANGED <<master, replica, cacheVars, tried, flushed>>

\* The process of these sales ends: calls, flushes and the pending timer (which
\* is unref()'d and keeps no process alive) end with it, and the one that takes
\* its place has not flushed yet.
ProcessEnds(c) ==
  /\ "ProcessEnds" \in CacheFaults
  /\ window' = [window EXCEPT ![c] = "open"]
  /\ call' = [n \in Sales |->
       IF call[n].proc = c /\ call[n].at # "none"
         THEN [call[n] EXCEPT !.at = "done", !.keys = {}] ELSE call[n]]
  /\ throttle' = IF throttle = c THEN Expiring ELSE throttle
  /\ UNCHANGED <<master, replica, page, index, tried, flushed>>

ThrottleExpires ==
  /\ throttle = Expiring
  /\ throttle' = NoOne
  /\ UNCHANGED <<master, replica, page, index, flushVars>>

\* SET NX PX; an error lets the flush go ahead.  (An error after the key was
\* set is no other step than having set it.)
TryAcquireFlushThrottle(n) ==
  /\ call[n].at = "acquire"
  /\ tried' = master
  /\ \/ /\ throttle = NoOne /\ CallGoto(n, "list")
        /\ throttle' = IF window[call[n].proc] = "closed" THEN call[n].proc ELSE Expiring
     \/ throttle # NoOne /\ UNCHANGED throttle /\ CallGoto(n, "done")
     \/ "ThrottleError" \in CacheFaults /\ UNCHANGED throttle /\ CallGoto(n, "list")
  /\ UNCHANGED <<master, replica, page, index, window, flushed>>

-----------------------------------------------------------------------------
(* flushCatalogCache() *)

SmembersIndex(n) ==
  /\ call[n].at = "list"
  /\ call' = [call EXCEPT ![n] = [call[n] EXCEPT !.keys = index,
                                     !.at = IF index = {} THEN "index" ELSE "pages"]]
  /\ flushed' = master
  /\ UNCHANGED <<master, replica, cacheVars, window, tried>>

DelPages(n) ==
  /\ call[n].at = "pages"
  /\ Wipe(call[n].keys)
  /\ CallGoto(n, "index")
  /\ UNCHANGED <<master, replica, index, throttle, window, tried, flushed>>

DelIndex(n) ==
  /\ call[n].at = "index"
  /\ index' = {}
  /\ call' = [call EXCEPT ![n] = [call[n] EXCEPT !.at = "done", !.keys = {}]]
  /\ UNCHANGED <<master, replica, page, throttle, window, tried, flushed>>

\* The catch: what is left, the TTL cleans up.
FlushFails(n) ==
  /\ "FlushError" \in CacheFaults
  /\ call[n].at \in {"list", "pages", "index"}
  /\ call' = [call EXCEPT ![n] = [call[n] EXCEPT !.at = "done", !.keys = {}]]
  /\ UNCHANGED <<master, replica, cacheVars, window, tried, flushed>>

-----------------------------------------------------------------------------
(* Time passing in redis-cache *)

\* Mutation of PageExpires: a page without a TTL.
PageStays(p) == FALSE /\ UNCHANGED catalogVars

PageExpires(p) ==
  /\ page[p] # Absent
  /\ Wipe({p})
  /\ UNCHANGED <<master, replica, index, throttle, flushVars>>

\* The index is kept a minute longer than any page it names.
IndexExpires ==
  /\ index # {} /\ \A p \in Pages : page[p] = Absent
  /\ index' = {}
  /\ UNCHANGED <<master, replica, page, throttle, flushVars>>

Evict ==
  /\ "Evict" \in CacheFaults
  /\ \/ index # {} /\ index' = {} /\ UNCHANGED throttle
     \/ throttle # NoOne /\ throttle' = NoOne /\ UNCHANGED index
  /\ UNCHANGED <<master, replica, page, flushVars>>

FlushNext(n) ==
  \/ Sell(n) \/ Invalidate(n) \/ TimerFires(n) \/ TryAcquireFlushThrottle(n)
  \/ SmembersIndex(n) \/ DelPages(n) \/ DelIndex(n) \/ FlushFails(n)

CacheTimeNext ==
  \/ Replay \/ ThrottleExpires \/ IndexExpires \/ Evict
  \/ \E c \in Procs : WindowOpens(c) \/ ProcessEnds(c)
  \/ \E p \in Pages : PageExpires(p)

-----------------------------------------------------------------------------
\* Nothing is due, waiting for a timer or flushing.
FlushQuiet == \A n \in Sales : call[n].at \in {"none", "done"}

\* However the calls of a process that lives fall into its windows, a flush is
\* tried after every sale that gets as far as its call: the trailing timer loses
\* none.  (A flush that meets the throttle key has been tried.)
EverySaleTried == FlushQuiet => tried = master

\* Whoever is to try a flush for the sales since the last one.
SaleInHand ==
  tried < master => \E n \in Sales : call[n].at \in {"due", "timer", "fires", "acquire"}

\* No process ends between a commit and its flush.
CallsSurvive == CacheFaults \cap {"Skipped", "ProcessEnds"} = {}

FlushInvariant == CatalogTypeOK /\ (CallsSurvive => SaleInHand)

\* redis.service.ts: the cache is invalidated after every update of the
\* database, at most a second later.
EverySaleFlushed == FlushQuiet => flushed = master
=============================================================================
