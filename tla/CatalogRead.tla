----------------------------- MODULE CatalogRead -----------------------------
(***************************************************************************)
(* GET /products: the page from redis-cache, or from the replica by one    *)
(* reader for all that miss it in the same process; then the stock         *)
(* counters from redis-data, by one MGET for all that ask at the same      *)
(* time.  A failing cache is a miss, a failing MGET a degraded answer.     *)
(***************************************************************************)
EXTENDS CatalogCache

CONSTANTS
  Readers,   \* clients that ask again and again
  Apis,      \* processes that answer
  ApiOf,     \* the process that answers each reader
  MaxStock   \* bound: changes of the stock counters

ASSUME ReaderAssumption ==
  /\ MaxStock \in Nat
  /\ ApiOf \in [Readers -> Apis]
  /\ "nobody" \notin Readers

Nobody == "nobody"

VARIABLES
  stock,    \* changes of the counters on redis-data
  read,     \* what each reader's request is at
  flight,   \* ProductsService.inFlight, by the reader whose promise it is
  mflight   \* RedisService.stockReadsInFlight, likewise

flightVars == <<flight, mflight>>
readVars == <<read, flightVars>>
allVars == <<catalogVars, stock, readVars>>

Loading == {"query", "write"}
Counting == {"mget", "reply"}
Answered == {"done", "degraded", "error"}

Reads ==
  [at : {"idle", "missed", "joined", "stock", "mjoined"} \cup Loading \cup Counting \cup Answered,
   page : Pages, version : 0..MaxVersion, seen : 0..MaxStock, since : 0..MaxStock]

ReadTypeOK ==
  /\ stock \in 0..MaxStock
  /\ read \in [Readers -> Reads]
  /\ flight \in [Apis -> [Pages -> Readers \cup {Nobody}]]
  /\ mflight \in [Apis -> [Pages -> Readers \cup {Nobody}]]

NoRead == [at |-> "idle", page |-> CHOOSE p \in Pages : TRUE, version |-> 0, seen |-> 0, since |-> 0]

ReadInit ==
  /\ CatalogInit
  /\ stock = 0
  /\ read = [r \in Readers |-> NoRead]
  /\ flight = [a \in Apis |-> [p \in Pages |-> Nobody]]
  /\ mflight = [a \in Apis |-> [p \in Pages |-> Nobody]]

Put(map, r, who) == [map EXCEPT ![ApiOf[r]] = [map[ApiOf[r]] EXCEPT ![read[r].page] = who]]
At(map, r) == map[ApiOf[r]][read[r].page]

ReadGoto(r, where) == read' = [read EXCEPT ![r] = [read[r] EXCEPT !.at = where]]

\* Requests for the same page in the same process, and those of them that wait
\* for the promise of r.
Alike(q, r) == ApiOf[q] = ApiOf[r] /\ read[q].page = read[r].page
Waiting(r, where) == {r} \cup {q \in Readers : read[q].at = where /\ Alike(q, r)}

-----------------------------------------------------------------------------
(* The page *)

\* GET of the page: a hit, a miss, or an error that counts as a miss.
ListProducts(r, p) ==
  /\ read[r].at = "idle"
  /\ \E where \in {IF page[p] = Absent THEN "missed" ELSE "stock"}
                  \cup (IF "ReadError" \in CacheFaults THEN {"missed"} ELSE {}) :
       read' = [read EXCEPT ![r] = [NoRead EXCEPT !.at = where, !.page = p]]
  /\ UNCHANGED <<catalogVars, stock, flightVars>>

\* Mutation of LoadCatalogPage: the promise is not memoized.
LoadAlone(r) ==
  /\ read[r].at = "missed"
  /\ ReadGoto(r, "query") /\ flight' = Put(flight, r, r)
  /\ UNCHANGED <<catalogVars, stock, mflight>>

\* Join the reader that is loading the page in this process, or be it.
LoadCatalogPage(r) ==
  /\ read[r].at = "missed"
  /\ \/ At(flight, r) # Nobody /\ ReadGoto(r, "joined") /\ UNCHANGED flight
     \/ At(flight, r) = Nobody /\ ReadGoto(r, "query") /\ flight' = Put(flight, r, r)
  /\ UNCHANGED <<catalogVars, stock, mflight>>

\* SELECT on the replica.
FetchCatalogPage(r) ==
  /\ read[r].at = "query"
  /\ read' = [read EXCEPT ![r] = [read[r] EXCEPT !.at = "write", !.version = replica]]
  /\ UNCHANGED <<catalogVars, stock, flightVars>>

\* The promise settles: finally, then everybody who awaits it.
SettleFlight(r, where) ==
  /\ flight' = Put(flight, r, Nobody)
  /\ read' = [q \in Readers |-> IF q \in Waiting(r, "joined")
                                  THEN [read[q] EXCEPT !.at = where, !.version = 0]
                                  ELSE read[q]]

\* Mutation of FetchFails: the map keeps a rejected promise.
FetchFailsForEver(r) ==
  /\ "QueryError" \in CacheFaults
  /\ read[r].at = "query"
  /\ ReadGoto(r, "error")
  /\ UNCHANGED <<catalogVars, stock, flightVars>>

FetchFails(r) ==
  /\ "QueryError" \in CacheFaults
  /\ read[r].at = "query"
  /\ SettleFlight(r, "error")
  /\ UNCHANGED <<catalogVars, stock, mflight>>

\* MULTI: SETEX of the page, SADD to the index; an error is ignored.
SetCatalogPage(r) ==
  /\ read[r].at = "write"
  /\ \/ /\ page' = [page EXCEPT ![read[r].page] = read[r].version]
        /\ index' = index \cup {read[r].page}
     \/ "WriteError" \in CacheFaults /\ UNCHANGED <<page, index>>
  /\ SettleFlight(r, "stock")
  /\ UNCHANGED <<master, replica, throttle, flushVars, stock, mflight>>

-----------------------------------------------------------------------------
(* The stock overlay *)

\* Gatekeeper and compensation move the counters.
StockMoves ==
  /\ stock < MaxStock
  /\ stock' = stock + 1
  /\ UNCHANGED <<catalogVars, readVars>>

\* History: what the counters were when the first request of a batch asked.
BatchBegan(r) ==
  LET batch == {q \in Readers : read[q].at \in Counting /\ Alike(q, r)}
  IN IF batch = {} THEN stock ELSE read[CHOOSE q \in batch : TRUE].since

\* Join the MGET that is under way for these keys in this process, or send it.
GetStocks(r) ==
  LET alone == At(mflight, r) = Nobody IN
  /\ read[r].at = "stock"
  /\ read' = [read EXCEPT ![r] = [read[r] EXCEPT !.at = IF alone THEN "mget" ELSE "mjoined",
                                                  !.since = BatchBegan(r)]]
  /\ mflight' = IF alone THEN Put(mflight, r, r) ELSE mflight
  /\ UNCHANGED <<catalogVars, stock, flight>>

\* Redis runs the MGET; its reply is on the way.
MgetRuns(r) ==
  /\ read[r].at = "mget"
  /\ read' = [read EXCEPT ![r] = [read[r] EXCEPT !.at = "reply", !.seen = stock]]
  /\ UNCHANGED <<catalogVars, stock, flightVars>>

\* Mutation of MgetReturns: the settled promise stays in the map.
MgetReturnsKept(r) ==
  /\ \/ read[r].at = "reply"
     \/ read[r].at \in Answered /\ At(mflight, r) = r /\ Waiting(r, "mjoined") # {r}
  /\ read' = [q \in Readers |-> IF q \in Waiting(r, "mjoined")
                                  THEN [read[q] EXCEPT !.at = "done", !.seen = read[r].seen]
                                  ELSE read[q]]
  /\ UNCHANGED <<catalogVars, stock, flightVars>>

MgetReturns(r) ==
  /\ read[r].at = "reply"
  /\ mflight' = Put(mflight, r, Nobody)
  /\ read' = [q \in Readers |-> IF q \in Waiting(r, "mjoined")
                                  THEN [read[q] EXCEPT !.at = "done", !.seen = read[r].seen]
                                  ELSE read[q]]
  /\ UNCHANGED <<catalogVars, stock, flight>>

\* No counters: the remaining stock of the cached page stands in for them.
MgetFails(r) ==
  /\ "MgetError" \in CacheFaults
  /\ read[r].at \in Counting
  /\ mflight' = Put(mflight, r, Nobody)
  /\ read' = [q \in Readers |-> IF q \in Waiting(r, "mjoined")
                                  THEN [read[q] EXCEPT !.at = "degraded", !.seen = 0, !.since = 0]
                                  ELSE read[q]]
  /\ UNCHANGED <<catalogVars, stock, flight>>

\* The controller answers the reader.
Leave(r) ==
  /\ read[r].at \in Answered
  /\ read' = [read EXCEPT ![r] = NoRead]
  /\ UNCHANGED <<catalogVars, stock, flightVars>>

-----------------------------------------------------------------------------
Serve(r) ==
  \/ LoadCatalogPage(r) \/ FetchCatalogPage(r) \/ SetCatalogPage(r)
  \/ GetStocks(r) \/ MgetRuns(r) \/ MgetReturns(r)

ReadNext(r) ==
  \/ \E p \in Pages : ListProducts(r, p)
  \/ Serve(r) \/ FetchFails(r) \/ MgetFails(r) \/ Leave(r)

CatalogNext ==
  \/ (\E n \in Sales : FlushNext(n)) /\ UNCHANGED <<stock, readVars>>
  \/ CacheTimeNext /\ UNCHANGED <<stock, readVars>>
  \/ StockMoves
  \/ \E r \in Readers : ReadNext(r)

CatalogSpec == ReadInit /\ [][CatalogNext]_allVars

\* An awaited promise settles, a replica catches up, a TTL ends.  Nothing makes
\* a reader come, a sale happen or a flush take place.
CatalogFairness ==
  /\ \A r \in Readers : WF_allVars(Serve(r))
  /\ WF_allVars(Replay /\ UNCHANGED <<stock, readVars>>)
  /\ \A p \in Pages : WF_allVars(PageExpires(p) /\ UNCHANGED <<stock, readVars>>)

FairCatalogSpec == CatalogSpec /\ CatalogFairness

-----------------------------------------------------------------------------
\* The maps hold a promise exactly while its reader is under way, so at most
\* one reader of a process loads a page, and nobody waits for a promise that
\* will not settle any more.
FlightsAreLive ==
  \A r \in Readers :
    /\ At(flight, r) = r <=> read[r].at \in Loading
    /\ At(mflight, r) = r <=> read[r].at \in Counting
    /\ read[r].at = "joined" => At(flight, r) # Nobody
    /\ read[r].at = "mjoined" => At(mflight, r) # Nobody

\* Sharing an MGET is not a cache: the stock in an answer is no older than the
\* first request of its batch, and a batch ends with its reply.
StockIsLive ==
  \A r \in Readers : read[r].at = "done" => read[r].seen >= read[r].since

\* A batch has one beginning, and its MGET runs after it.
BatchesAgree ==
  \A r \in Readers :
    /\ read[r].at \in {"mget", "mjoined"} => read[r].since <= stock
    /\ read[r].at = "reply" => read[r].since <= read[r].seen /\ read[r].seen <= stock
    /\ read[r].at \in Counting =>
         \A q \in Waiting(r, "mjoined") : read[q].since = read[r].since

\* A promise in the maps is under the process and the page of its reader.
FlightsAreOwned ==
  \A a \in Apis, p \in Pages, r \in Readers :
    /\ flight[a][p] = r => ApiOf[r] = a /\ read[r].page = p /\ read[r].at \in Loading
    /\ mflight[a][p] = r => ApiOf[r] = a /\ read[r].page = p /\ read[r].at \in Counting

ReadInvariant == ReadTypeOK /\ FlightsAreLive /\ FlightsAreOwned /\ BatchesAgree /\ StockIsLive

\* Every request is answered, whatever fails.
EveryReadAnswered ==
  \A r \in Readers : read[r].at # "idle" ~> read[r].at \in Answered

\* However flush, replica and readers race, and whatever fails: after the last
\* sale, no page stays stale for ever.
PagesBecomeFresh == \A p \in Pages : <>[](page[p] \in {Absent, master})
=============================================================================
