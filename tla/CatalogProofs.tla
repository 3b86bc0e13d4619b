--------------------------- MODULE CatalogProofs ---------------------------
(***************************************************************************)
(* What the catalog cache guarantees for every number of processes, pages, *)
(* sales and readers, whatever fails: shared promises are live, shared     *)
(* counters fresh, and the trailing timer loses no sale.                   *)
(***************************************************************************)
EXTENDS CatalogRead, TLAPS

USE CatalogAssumption, ReaderAssumption
USE DEF cacheVars, flushVars, catalogVars, flightVars, readVars, allVars, Nobody, Absent, Sales,
        CallsSurvive

-----------------------------------------------------------------------------
(* Invalidation *)

Calls == [at : CallStates, proc : Procs, keys : SUBSET Pages]

\* Moving one call keeps the calls well typed and the others where they are.
LEMMA CallMoves ==
  ASSUME call \in [Sales -> Calls], NEW n \in Sales, NEW where \in CallStates, CallGoto(n, where)
  PROVE  /\ call' \in [Sales -> Calls]
         /\ call'[n].at = where
         /\ \A m \in Sales : m # n => call'[m] = call[m]
<1> DEFINE new == [call[n] EXCEPT !.at = where]
<1>1. new \in Calls /\ new.at = where
  BY DEF Calls
<1>2. call' = [call EXCEPT ![n] = new]
  BY DEF CallGoto
<1> QED
  BY <1>1, <1>2

\* A step of a call.
LEMMA FlushStep ==
  ASSUME FlushInvariant, NEW n \in Sales, FlushNext(n)
  PROVE  FlushInvariant'
<1> USE DEF FlushInvariant, CatalogTypeOK, SaleInHand
<1>1. call \in [Sales -> Calls] /\ call[n] \in Calls
  BY DEF Calls
<1>2. CASE Sell(n)
  <2>1. PICK where \in {"due", "done"} :
          CallGoto(n, where) /\ (where = "done" => "Skipped" \in CacheFaults)
    BY <1>2 DEF Sell
  <2>2. call' \in [Sales -> Calls] /\ call'[n].at = where
    BY <1>1, <2>1, CallMoves DEF CallStates
  <2>3. (master' \in 0..MaxVersion) /\ master' = master + 1 /\ UNCHANGED <<replica, cacheVars, window, tried, flushed>>
    BY <1>2 DEF Sell
  <2> QED
    BY <2>1, <2>2, <2>3 DEF Calls
<1>3. CASE Invalidate(n)
  <2>1. PICK where \in {"acquire", "timer", "done"} :
          /\ CallGoto(n, where)
          /\ where = "done" => TimerPending(call[n].proc)
    <3>1. PICK where \in {"acquire", "timer", "done"} :
            /\ where = CASE window[call[n].proc] = "open" -> "acquire"
                         [] window[call[n].proc] = "closed" /\ ~TimerPending(call[n].proc) -> "timer"
                         [] window[call[n].proc] = "closed" /\ TimerPending(call[n].proc) -> "done"
            /\ where = "done" => TimerPending(call[n].proc)
      <4>1. window[call[n].proc] \in {"open", "closed"}
        BY <1>1 DEF Calls
      <4> HIDE DEF FlushInvariant
      <4> QED
        BY <4>1
    <3> QED
      BY <1>3, <3>1 DEF Invalidate
  <2>2. /\ call' \in [Sales -> Calls] /\ call'[n].at = where
        /\ \A m \in Sales : m # n => call'[m] = call[m]
    BY <1>1, <2>1, CallMoves, ZenonT(60) DEF CallStates
  <2>3. window' \in [Procs -> {"open", "closed"}] /\ UNCHANGED <<master, replica, cacheVars, tried, flushed>>
    BY <1>3 DEF Invalidate
  <2>4. SaleInHand => SaleInHand'
    <3>1. CASE where = "done"
      <4>1. PICK m \in Sales : call[m].at \in {"timer", "fires"}
        BY <2>1, <3>1 DEF TimerPending
      <4>2. m # n
        BY <1>3, <4>1 DEF Invalidate
      <4> QED
        BY <2>2, <4>1, <4>2
    <3>2. CASE where # "done"
      BY <2>2, <3>2
    <3> QED
      BY <3>1, <3>2
  <2> QED
    BY <2>2, <2>3, <2>4 DEF Calls
<1>4. CASE TimerFires(n)
  <2>1. call' \in [Sales -> Calls] /\ call'[n].at = "acquire"
    BY <1>1, <1>4, CallMoves DEF TimerFires, CallStates
  <2> QED
    BY <1>4, <2>1 DEF TimerFires, Calls
<1>5. CASE TryAcquireFlushThrottle(n)
  <2>1. call' \in [Sales -> Calls]
    BY <1>1, <1>5, CallMoves DEF TryAcquireFlushThrottle, CallStates
  <2>2. call[n].proc \in Procs
    BY <1>1 DEF Calls
  <2> QED
    BY <1>5, <2>1, <2>2 DEF TryAcquireFlushThrottle, Calls
<1>6. CASE SmembersIndex(n)
  <2> DEFINE new == [call[n] EXCEPT !.keys = index, !.at = IF index = {} THEN "index" ELSE "pages"]
  <2>1. new \in Calls
    BY <1>1 DEF Calls, CallStates
  <2>2. call' = [call EXCEPT ![n] = new] /\ call[n].at = "list"
    BY <1>6 DEF SmembersIndex
  <2>3. call' \in [Sales -> Calls] /\ \A m \in Sales : m # n => call'[m] = call[m]
    BY <1>1, <2>1, <2>2
  <2>4. flushed' = master /\ UNCHANGED <<master, replica, cacheVars, window, tried>>
    BY <1>6 DEF SmembersIndex
  <2>5. SaleInHand => SaleInHand'
    BY <2>2, <2>3, <2>4
  <2> HIDE DEF SaleInHand, new
  <2> QED
    BY <2>3, <2>4, <2>5 DEF Calls
<1>7. CASE DelPages(n)
  <2>1. /\ call' \in [Sales -> Calls] /\ call[n].at = "pages"
        /\ \A m \in Sales : m # n => call'[m] = call[m]
    BY <1>1, <1>7, CallMoves DEF DelPages, CallStates
  <2>2. page' \in [Pages -> {Absent} \cup 0..MaxVersion]
    BY <1>7 DEF DelPages, Wipe
  <2> QED
    BY <1>7, <2>1, <2>2 DEF DelPages, Calls
<1>8. CASE DelIndex(n) \/ FlushFails(n)
  <2> DEFINE new == [call[n] EXCEPT !.at = "done", !.keys = {}]
  <2>1. new \in Calls
    BY <1>1 DEF Calls, CallStates
  <2>2. call' = [call EXCEPT ![n] = new] /\ call[n].at \in {"list", "pages", "index"}
    BY <1>8 DEF DelIndex, FlushFails
  <2>3. call' \in [Sales -> Calls] /\ \A m \in Sales : m # n => call'[m] = call[m]
    BY <1>1, <2>1, <2>2
  <2> QED
    BY <1>8, <2>2, <2>3 DEF DelIndex, FlushFails, Calls
<1> QED
  BY <1>2, <1>3, <1>4, <1>5, <1>6, <1>7, <1>8 DEF FlushNext

\* Time passing in redis-cache, in the replica and in the timers.
LEMMA CacheTimeStep ==
  ASSUME FlushInvariant, CacheTimeNext
  PROVE  FlushInvariant'
<1> USE DEF FlushInvariant, CatalogTypeOK, SaleInHand
<1>1. CASE Replay \/ ThrottleExpires \/ IndexExpires \/ Evict
  <2>1. CASE Replay
    BY <2>1 DEF Replay
  <2>2. CASE ThrottleExpires \/ IndexExpires \/ Evict
    BY <2>2 DEF ThrottleExpires, IndexExpires, Evict
  <2> QED
    BY <1>1, <2>1, <2>2
<1>2. ASSUME NEW c \in Procs, WindowOpens(c) PROVE FlushInvariant'
  <2>1. call \in [Sales -> Calls]
    BY DEF Calls
  <2>2. \A n \in Sales : /\ call'[n] = call[n] \/ call'[n] = [call[n] EXCEPT !.at = "fires"]
                         /\ call'[n] # call[n] => call[n].at = "timer"
    BY <1>2 DEF WindowOpens
  <2>3. call' \in [Sales -> Calls]
    <3>1. DOMAIN call' = Sales /\ call' = [n \in Sales |-> call'[n]]
      BY <1>2 DEF WindowOpens
    <3>2. ASSUME NEW n \in Sales PROVE call'[n] \in Calls
      <4>1. call[n] \in Calls /\ [call[n] EXCEPT !.at = "fires"] \in Calls
        BY <2>1 DEF Calls, CallStates
      <4> QED
        BY <2>2, <4>1
    <3> QED
      BY <3>1, <3>2
  <2>4. SaleInHand => SaleInHand'
    <3>1. ASSUME NEW n \in Sales, call[n].at \in {"due", "timer", "fires", "acquire"}
          PROVE  call'[n].at \in {"due", "timer", "fires", "acquire"}
      <4>1. CASE call'[n] = call[n]
        BY <3>1, <4>1
      <4>2. CASE call'[n] = [call[n] EXCEPT !.at = "fires"]
        BY <2>1, <4>2 DEF Calls
      <4> QED
        BY <2>2, <4>1, <4>2
    <3> QED
      BY <1>2, <3>1 DEF WindowOpens
  <2> QED
    BY <1>2, <2>3, <2>4 DEF WindowOpens, Calls
<1>3. ASSUME NEW p \in Pages, PageExpires(p) PROVE FlushInvariant'
  BY <1>3 DEF PageExpires, Wipe
<1>4. ASSUME NEW c \in Procs, ProcessEnds(c) PROVE FlushInvariant'
  <2> DEFINE ended(n) == [call[n] EXCEPT !.at = "done", !.keys = {}]
  <2>1. /\ call' = [n \in Sales |-> IF call[n].proc = c /\ call[n].at # "none"
                                    THEN ended(n) ELSE call[n]]
        /\ "ProcessEnds" \in CacheFaults
    BY <1>4 DEF ProcessEnds
  <2>2. ASSUME NEW n \in Sales PROVE call[n] \in Calls /\ ended(n) \in Calls
    BY DEF Calls, CallStates
  <2> HIDE DEF ended
  <2>3. call' \in [Sales -> Calls]
    BY <2>1, <2>2
  <2>4. /\ window' \in [Procs -> {"open", "closed"}]
        /\ throttle' \in Procs \cup {NoOne, Expiring}
        /\ UNCHANGED <<master, replica, page, index, tried, flushed>>
    BY <1>4 DEF ProcessEnds
  <2> QED
    BY <2>1, <2>3, <2>4 DEF Calls
<1> QED
  BY <1>1, <1>2, <1>3, <1>4 DEF CacheTimeNext

\* Readers only write pages and name them in the index.
LEMMA ReadersKeepFlushes ==
  ASSUME FlushInvariant, ReadTypeOK, NEW r \in Readers, ReadNext(r)
  PROVE  FlushInvariant'
<1> USE DEF FlushInvariant, CatalogTypeOK, SaleInHand
<1>1. read[r].version \in 0..MaxVersion /\ read[r].page \in Pages
  BY DEF ReadTypeOK, Reads
<1>2. CASE SetCatalogPage(r)
  BY <1>1, <1>2 DEF SetCatalogPage
<1>3. CASE UNCHANGED catalogVars
  BY <1>3
<1> QED
  BY <1>2, <1>3 DEF ReadNext, Serve, ListProducts, LoadCatalogPage, FetchCatalogPage, FetchFails,
     GetStocks, MgetRuns, MgetReturns, MgetFails, Leave

-----------------------------------------------------------------------------
(* Readers *)

Maps == [Apis -> [Pages -> Readers \cup {Nobody}]]

\* What Put changes.
LEMMA PutValue ==
  ASSUME NEW map \in Maps, read \in [Readers -> Reads], NEW r \in Readers,
         NEW who \in Readers \cup {Nobody}
  PROVE  /\ Put(map, r, who) \in Maps
         /\ \A a \in Apis, p \in Pages :
              Put(map, r, who)[a][p] = IF a = ApiOf[r] /\ p = read[r].page THEN who ELSE map[a][p]
<1>1. ApiOf[r] \in Apis /\ read[r].page \in Pages
  BY DEF Reads
<1> DEFINE row == [map[ApiOf[r]] EXCEPT ![read[r].page] = who]
<1>2. /\ row \in [Pages -> Readers \cup {Nobody}]
      /\ \A p \in Pages : row[p] = IF p = read[r].page THEN who ELSE map[ApiOf[r]][p]
  BY <1>1 DEF Maps
<1>3. Put(map, r, who) = [map EXCEPT ![ApiOf[r]] = row]
  BY DEF Put
<1> HIDE DEF row
<1> QED
  BY <1>1, <1>2, <1>3 DEF Maps

\* One reader moves.
LEMMA ReadMoves ==
  ASSUME read \in [Readers -> Reads], NEW r \in Readers, NEW rec \in Reads,
         read' = [read EXCEPT ![r] = rec]
  PROVE  /\ read' \in [Readers -> Reads]
         /\ read'[r] = rec
         /\ \A q \in Readers : q # r => read'[q] = read[q]
OBVIOUS

ReadStates == {"idle", "missed", "joined", "stock", "mjoined"} \cup Loading \cup Counting \cup Answered

\* A reader that holds no promise and awaits none comes, misses, hits or goes.
LEMMA IdleMove ==
  ASSUME ReadInvariant, NEW r \in Readers, NEW rec \in Reads,
         read' = [read EXCEPT ![r] = rec], UNCHANGED <<stock, flightVars>>,
         read[r].at \notin Loading \cup Counting,
         rec.at \in {"idle", "missed", "stock"}
  PROVE  ReadInvariant'
<1>1. ReadTypeOK /\ FlightsAreLive /\ FlightsAreOwned /\ BatchesAgree /\ StockIsLive
  BY DEF ReadInvariant
<1>2. /\ read' \in [Readers -> Reads]
      /\ read'[r] = rec
      /\ \A q \in Readers : q # r => read'[q] = read[q]
  BY <1>1, ReadMoves DEF ReadTypeOK
<1>3. ReadTypeOK'
  BY <1>1, <1>2 DEF ReadTypeOK
<1>4. FlightsAreOwned'
  BY <1>1, <1>2 DEF FlightsAreOwned
<1>5. FlightsAreLive'
  <2>1. ApiOf[r] \in Apis /\ rec.page \in Pages
    BY DEF Reads
  <2>2. flight[ApiOf[r]][rec.page] # r /\ mflight[ApiOf[r]][rec.page] # r
    BY <1>1, <2>1 DEF FlightsAreOwned
  <2> QED
    BY <1>1, <1>2, <2>2 DEF FlightsAreLive, At, Loading, Counting
<1>6. BatchesAgree' /\ StockIsLive'
  BY <1>1, <1>2 DEF BatchesAgree, StockIsLive, Waiting, Alike, Counting
<1> QED
  BY <1>3, <1>4, <1>5, <1>6 DEF ReadInvariant

\* A reader that missed joins the promise for its page, or makes it.
LEMMA LoadStep ==
  ASSUME ReadInvariant, NEW r \in Readers, LoadCatalogPage(r)
  PROVE  ReadInvariant'
<1> DEFINE where == IF At(flight, r) = Nobody THEN "query" ELSE "joined"
           rec == [read[r] EXCEPT !.at = where]
<1>1. ReadTypeOK /\ FlightsAreLive /\ FlightsAreOwned /\ BatchesAgree /\ StockIsLive
  BY DEF ReadInvariant
<1>2. /\ rec \in Reads /\ rec.at = where /\ rec.page = read[r].page
      /\ rec.seen = read[r].seen /\ rec.since = read[r].since
  <2>1. PICK old \in Reads, at \in ReadStates : old = read[r] /\ at = where
    BY <1>1 DEF ReadTypeOK, ReadStates, Loading
  <2>2. rec = [old EXCEPT !.at = at]
    BY <2>1
  <2> HIDE DEF where
  <2>3. rec \in Reads
    BY <2>2 DEF Reads, ReadStates
  <2>4. /\ rec.at = at /\ rec.page = old.page
        /\ rec.seen = old.seen /\ rec.since = old.since
    BY <2>2 DEF Reads
  <2> QED
    BY <2>1, <2>3, <2>4
<1>3. /\ read' = [read EXCEPT ![r] = rec] /\ read[r].at = "missed"
      /\ UNCHANGED <<stock, mflight>>
      /\ flight' = IF At(flight, r) = Nobody THEN Put(flight, r, r) ELSE flight
  BY DEF LoadCatalogPage, ReadGoto
<1> HIDE DEF rec
<1>4. /\ read' \in [Readers -> Reads]
      /\ read'[r] = rec
      /\ \A q \in Readers : q # r => read'[q] = read[q]
  BY <1>1, <1>2, <1>3, ReadMoves DEF ReadTypeOK
<1>5. /\ flight' \in Maps
      /\ \A a \in Apis, p \in Pages :
           flight'[a][p] = IF a = ApiOf[r] /\ p = read[r].page /\ At(flight, r) = Nobody
                             THEN r ELSE flight[a][p]
  BY <1>1, <1>3, PutValue DEF ReadTypeOK, Maps
<1>6. \A q \in Readers : ApiOf[q] \in Apis /\ read[q].page \in Pages /\ read'[q].page = read[q].page
  BY <1>1, <1>2, <1>4 DEF ReadTypeOK, Reads
<1>7. ReadTypeOK'
  BY <1>1, <1>3, <1>4, <1>5 DEF ReadTypeOK, Maps
<1>8. FlightsAreOwned'
  BY <1>1, <1>2, <1>3, <1>4, <1>5 DEF FlightsAreOwned, Loading, Counting
<1>9. FlightsAreLive'
  BY <1>1, <1>2, <1>3, <1>4, <1>5, <1>6 DEF FlightsAreLive, At, Loading, Counting
<1>10. BatchesAgree' /\ StockIsLive'
  BY <1>1, <1>2, <1>3, <1>4 DEF BatchesAgree, StockIsLive, Waiting, Alike, Counting
<1> QED
  BY <1>7, <1>8, <1>9, <1>10 DEF ReadInvariant

\* The promise for a page settles, and all that awaited it go on together.
LEMMA SettleStep ==
  ASSUME ReadInvariant, NEW r \in Readers, NEW where \in {"stock", "error"},
         read[r].at \in Loading, SettleFlight(r, where), UNCHANGED <<stock, mflight>>
  PROVE  ReadInvariant'
<1>1. ReadTypeOK /\ FlightsAreLive /\ FlightsAreOwned /\ BatchesAgree /\ StockIsLive
  BY DEF ReadInvariant
<1>2. /\ flight' \in Maps
      /\ \A a \in Apis, p \in Pages :
           flight'[a][p] = IF a = ApiOf[r] /\ p = read[r].page THEN Nobody ELSE flight[a][p]
  <2>1. flight' = Put(flight, r, Nobody)
    BY DEF SettleFlight
  <2>2. flight \in Maps /\ read \in [Readers -> Reads] /\ Nobody \in Readers \cup {Nobody}
    BY <1>1 DEF ReadTypeOK, Maps
  <2> HIDE DEF Nobody
  <2> QED
    BY <2>1, <2>2, PutValue
<1>3. /\ DOMAIN read' = Readers /\ read' = [q \in Readers |-> read'[q]]
      /\ \A q \in Readers :
           read'[q] = IF q \in Waiting(r, "joined") THEN [read[q] EXCEPT !.at = where, !.version = 0]
                                                   ELSE read[q]
  BY DEF SettleFlight
<1>4. ASSUME NEW q \in Readers
      PROVE  /\ read'[q] \in Reads
             /\ read'[q].at = IF q \in Waiting(r, "joined") THEN where ELSE read[q].at
             /\ read'[q].page = read[q].page
             /\ read'[q].seen = read[q].seen /\ read'[q].since = read[q].since
             /\ ApiOf[q] \in Apis /\ read[q].page \in Pages
  <2>1. read[q] \in Reads
    BY <1>1 DEF ReadTypeOK
  <2>2. /\ where \in {"idle", "missed", "joined", "stock", "mjoined"} \cup Loading \cup Counting \cup Answered
        /\ 0 \in 0..MaxVersion
    BY DEF Answered, CatalogAssumption
  <2> DEFINE rec == [read[q] EXCEPT !.at = where, !.version = 0]
  <2>3. /\ rec \in Reads /\ rec.at = where /\ rec.page = read[q].page
        /\ rec.seen = read[q].seen /\ rec.since = read[q].since
    <3>1. PICK old \in Reads, at \in ReadStates, v \in 0..MaxVersion : old = read[q] /\ at = where /\ v = 0
      BY <2>1, <2>2 DEF ReadStates
    <3>2. rec = [old EXCEPT !.at = at, !.version = v]
      BY <3>1
    <3>3. rec \in Reads
      BY <3>2 DEF Reads, ReadStates
    <3>4. rec.at = at /\ rec.page = old.page /\ rec.seen = old.seen /\ rec.since = old.since
      BY <3>2 DEF Reads
    <3> QED
      BY <3>1, <3>3, <3>4
  <2>4. ApiOf[q] \in Apis /\ read[q].page \in Pages
    BY <2>1 DEF Reads
  <2> HIDE DEF rec
  <2>5. read'[q] = IF q \in Waiting(r, "joined") THEN rec ELSE read[q]
    BY <1>3 DEF rec
  <2> QED
    BY <2>1, <2>3, <2>4, <2>5
<1>5. /\ r \in Waiting(r, "joined")
      /\ \A q \in Waiting(r, "joined") : q = r \/ (read[q].at = "joined" /\ Alike(q, r))
      /\ \A q \in Readers : read[q].at = "joined" /\ Alike(q, r) => q \in Waiting(r, "joined")
  BY DEF Waiting
<1>6. ReadTypeOK'
  BY <1>1, <1>2, <1>3, <1>4, ZenonT(60) DEF ReadTypeOK, Maps
<1>7. FlightsAreOwned'
  <2> SUFFICES ASSUME NEW a \in Apis, NEW p \in Pages, NEW q \in Readers
               PROVE  /\ flight'[a][p] = q => ApiOf[q] = a /\ read'[q].page = p /\ read'[q].at \in Loading
                      /\ mflight'[a][p] = q => ApiOf[q] = a /\ read'[q].page = p /\ read'[q].at \in Counting
    BY DEF FlightsAreOwned
  <2>1. ASSUME flight'[a][p] = q PROVE ApiOf[q] = a /\ read'[q].page = p /\ read'[q].at \in Loading
    <3>1. flight[a][p] = q /\ ~(a = ApiOf[r] /\ p = read[r].page)
      BY <1>2, <2>1
    <3>2. ApiOf[q] = a /\ read[q].page = p /\ read[q].at \in Loading /\ q # r
      BY <1>1, <3>1 DEF FlightsAreOwned
    <3> QED
      BY <1>4, <1>5, <3>2 DEF Loading
  <2>2. ASSUME mflight'[a][p] = q PROVE ApiOf[q] = a /\ read'[q].page = p /\ read'[q].at \in Counting
    <3>1. ApiOf[q] = a /\ read[q].page = p /\ read[q].at \in Counting
      BY <1>1, <2>2 DEF FlightsAreOwned
    <3> QED
      BY <1>4, <1>5, <3>1 DEF Counting, Loading
  <2> QED
    BY <2>1, <2>2
<1>8. FlightsAreLive'
  <2>0. At(flight, r) = r
    BY <1>1 DEF FlightsAreLive
  <2> SUFFICES ASSUME NEW q \in Readers
               PROVE  /\ At(flight, q)' = q <=> read'[q].at \in Loading
                      /\ At(mflight, q)' = q <=> read'[q].at \in Counting
                      /\ read'[q].at = "joined" => At(flight, q)' # Nobody
                      /\ read'[q].at = "mjoined" => At(mflight, q)' # Nobody
    BY DEF FlightsAreLive
  <2>1. /\ At(mflight, q)' = At(mflight, q)
        /\ At(flight, q)' = IF Alike(q, r) THEN Nobody ELSE At(flight, q)
        /\ Alike(q, r) => At(flight, q) = r
    BY <1>2, <1>4, <2>0 DEF At, Alike
  <2>2. /\ At(flight, q) = q <=> read[q].at \in Loading
        /\ At(mflight, q) = q <=> read[q].at \in Counting
        /\ read[q].at = "joined" => At(flight, q) # Nobody
        /\ read[q].at = "mjoined" => At(mflight, q) # Nobody
    BY <1>1 DEF FlightsAreLive
  <2>3. read'[q].at = IF q \in Waiting(r, "joined") THEN where ELSE read[q].at
    BY <1>4
  <2> QED
    BY <1>5, <2>1, <2>2, <2>3 DEF Loading, Counting, Alike
<1>9. BatchesAgree' /\ StockIsLive'
  <2>1. \A q \in Readers : /\ q \in Waiting(r, "joined") => read'[q].at \in {"stock", "error"}
                           /\ q \notin Waiting(r, "joined") => read'[q].at = read[q].at
                           /\ read'[q].page = read[q].page
                           /\ read'[q].seen = read[q].seen /\ read'[q].since = read[q].since
    BY <1>4
  <2> QED
    BY <1>1, <2>1 DEF BatchesAgree, StockIsLive, Waiting, Alike, Counting
<1> QED
  BY <1>6, <1>7, <1>8, <1>9 DEF ReadInvariant

\* A reader asks for the counters: alone, or along with the MGET under way.
LEMMA GetStocksStep ==
  ASSUME ReadInvariant, NEW r \in Readers, GetStocks(r)
  PROVE  ReadInvariant'
<1> DEFINE alone == At(mflight, r) = Nobody
           began == BatchBegan(r)
           rec == [read[r] EXCEPT !.at = IF alone THEN "mget" ELSE "mjoined", !.since = began]
<1>1. ReadTypeOK /\ FlightsAreLive /\ FlightsAreOwned /\ BatchesAgree /\ StockIsLive
  BY DEF ReadInvariant
<1>2. /\ read' = [read EXCEPT ![r] = rec] /\ read[r].at = "stock"
      /\ UNCHANGED <<stock, flight>>
      /\ mflight' = IF alone THEN Put(mflight, r, r) ELSE mflight
  BY DEF GetStocks
<1>3. /\ \A q \in Readers : read[q].at \in Counting /\ Alike(q, r) => At(mflight, r) = q
      /\ ~alone => /\ At(mflight, r) \in Readers
                   /\ read[At(mflight, r)].at \in Counting
                   /\ Alike(At(mflight, r), r)
  <2>1. ApiOf[r] \in Apis /\ read[r].page \in Pages
    BY <1>1 DEF ReadTypeOK, Reads
  <2>2. ASSUME NEW q \in Readers, read[q].at \in Counting, Alike(q, r) PROVE At(mflight, r) = q
    BY <1>1, <2>2 DEF FlightsAreLive, At, Alike
  <2>3. ASSUME ~alone
        PROVE  /\ At(mflight, r) \in Readers
               /\ read[At(mflight, r)].at \in Counting
               /\ Alike(At(mflight, r), r)
    <3>1. At(mflight, r) \in Readers
      BY <1>1, <2>1, <2>3 DEF ReadTypeOK, At
    <3> QED
      BY <1>1, <2>1, <3>1 DEF FlightsAreOwned, At, Alike
  <2> QED
    BY <2>2, <2>3
<1>4. began = IF alone THEN stock ELSE read[At(mflight, r)].since
  <2> DEFINE batch == {q \in Readers : read[q].at \in Counting /\ Alike(q, r)}
  <2>1. CASE alone
    <3>1. batch = {}
      BY <1>3, <2>1
    <3> QED
      BY <2>1, <3>1 DEF BatchBegan
  <2>2. CASE ~alone
    <3>1. batch = {At(mflight, r)}
      BY <1>3, <2>2
    <3>2. began = read[CHOOSE q \in batch : TRUE].since
      BY <3>1 DEF BatchBegan
    <3> QED
      BY <2>2, <3>1, <3>2
  <2> QED
    BY <2>1, <2>2
<1>5. began \in 0..MaxStock /\ began <= stock
  BY <1>1, <1>3, <1>4 DEF ReadTypeOK, Reads, BatchesAgree, Counting
<1>6. /\ rec \in Reads /\ rec.page = read[r].page /\ rec.since = began
      /\ rec.at = IF alone THEN "mget" ELSE "mjoined"
  <2>1. read[r] \in Reads
    BY <1>1 DEF ReadTypeOK
  <2>2. PICK old \in Reads, at \in ReadStates, n \in 0..MaxStock :
          /\ old = read[r] /\ n = began
          /\ at = IF alone THEN "mget" ELSE "mjoined"
    BY <1>5, <2>1 DEF ReadStates, Counting
  <2>3. rec = [old EXCEPT !.at = at, !.since = n]
    BY <2>2
  <2>4. rec \in Reads
    BY <2>3 DEF Reads, ReadStates
  <2>5. rec.at = at /\ rec.page = old.page /\ rec.since = n
    BY <2>3 DEF Reads
  <2> QED
    BY <2>2, <2>4, <2>5
<1> HIDE DEF rec, began
<1>7. /\ read' \in [Readers -> Reads]
      /\ read'[r] = rec
      /\ \A q \in Readers : q # r => read'[q] = read[q]
  BY <1>1, <1>2, <1>6, ReadMoves DEF ReadTypeOK
<1>8. /\ mflight' \in Maps
      /\ \A a \in Apis, p \in Pages :
           mflight'[a][p] = IF a = ApiOf[r] /\ p = read[r].page /\ alone THEN r ELSE mflight[a][p]
  BY <1>1, <1>2, PutValue DEF ReadTypeOK, Maps
<1>9. \A q \in Readers : ApiOf[q] \in Apis /\ read[q].page \in Pages /\ read'[q].page = read[q].page
  BY <1>1, <1>6, <1>7 DEF ReadTypeOK, Reads
<1>10. ReadTypeOK'
  BY <1>1, <1>2, <1>7, <1>8 DEF ReadTypeOK, Maps
<1>11. FlightsAreOwned'
  BY <1>1, <1>2, <1>6, <1>7, <1>8 DEF FlightsAreOwned, Loading, Counting
<1>12. FlightsAreLive'
  BY <1>1, <1>2, <1>6, <1>7, <1>8, <1>9 DEF FlightsAreLive, At, Loading, Counting
<1>13. StockIsLive'
  BY <1>1, <1>6, <1>7 DEF StockIsLive
<1>14. BatchesAgree'
  <2> SUFFICES ASSUME NEW q \in Readers
               PROVE  /\ read'[q].at \in {"mget", "mjoined"} => read'[q].since <= stock
                      /\ read'[q].at = "reply" => read'[q].since <= read'[q].seen /\ read'[q].seen <= stock
                      /\ read'[q].at \in Counting =>
                           \A m \in Waiting(q, "mjoined")' : read'[m].since = read'[q].since
    BY <1>2 DEF BatchesAgree
  <2>1. /\ read'[q].at \in {"mget", "mjoined"} => read'[q].since <= stock
        /\ read'[q].at = "reply" => read'[q].since <= read'[q].seen /\ read'[q].seen <= stock
    BY <1>1, <1>5, <1>6, <1>7 DEF BatchesAgree
  <2>2. ASSUME read'[q].at \in Counting, NEW m \in Readers, m # q, read'[m].at = "mjoined", Alike(m, q)
        PROVE  read'[m].since = read'[q].since
    <3>1. CASE m = r
      <4>1. q # r /\ read[q].at \in Counting /\ Alike(q, r) /\ ~alone
        BY <1>6, <1>7, <2>2, <3>1 DEF Alike
      <4> QED
        BY <1>3, <1>4, <1>6, <1>7, <3>1, <4>1
    <3>2. CASE q = r
      <4>1. alone /\ read[m].at = "mjoined" /\ At(mflight, m) = At(mflight, r)
        BY <1>6, <1>7, <2>2, <3>2 DEF Alike, At, Counting
      <4> QED
        BY <1>1, <4>1 DEF FlightsAreLive
    <3>3. CASE m # r /\ q # r
      BY <1>1, <1>7, <2>2, <3>3 DEF BatchesAgree, Waiting
    <3> QED
      BY <3>1, <3>2, <3>3
  <2>3. \A m \in Waiting(q, "mjoined")' : m = q \/ (m \in Readers /\ read'[m].at = "mjoined" /\ Alike(m, q))
    BY <1>9 DEF Waiting, Alike
  <2> QED
    BY <2>1, <2>2, <2>3
<1> QED
  BY <1>10, <1>11, <1>12, <1>13, <1>14 DEF ReadInvariant

\* Redis runs the MGET.
LEMMA MgetRunsStep ==
  ASSUME ReadInvariant, NEW r \in Readers, MgetRuns(r)
  PROVE  ReadInvariant'
<1> DEFINE rec == [read[r] EXCEPT !.at = "reply", !.seen = stock]
<1>1. ReadTypeOK /\ FlightsAreLive /\ FlightsAreOwned /\ BatchesAgree /\ StockIsLive
  BY DEF ReadInvariant
<1>2. /\ read' = [read EXCEPT ![r] = rec] /\ read[r].at = "mget"
      /\ UNCHANGED <<stock, flightVars>>
  BY DEF MgetRuns
<1>3. /\ rec \in Reads /\ rec.at = "reply" /\ rec.page = read[r].page
      /\ rec.seen = stock /\ rec.since = read[r].since
  <2>1. PICK old \in Reads, n \in 0..MaxStock : old = read[r] /\ n = stock
    BY <1>1 DEF ReadTypeOK
  <2>2. rec = [old EXCEPT !.at = "reply", !.seen = n]
    BY <2>1
  <2>3. rec \in Reads
    BY <2>2 DEF Reads, Counting
  <2>4. rec.at = "reply" /\ rec.page = old.page /\ rec.seen = n /\ rec.since = old.since
    BY <2>2 DEF Reads
  <2> QED
    BY <2>1, <2>3, <2>4
<1> HIDE DEF rec
<1>4. /\ read' \in [Readers -> Reads]
      /\ read'[r] = rec
      /\ \A q \in Readers : q # r => read'[q] = read[q]
  BY <1>1, <1>2, <1>3, ReadMoves DEF ReadTypeOK
<1>5. \A q \in Readers : read'[q].page = read[q].page /\ read'[q].since = read[q].since
  BY <1>3, <1>4
<1>6. ReadTypeOK' /\ FlightsAreOwned'
  BY <1>1, <1>2, <1>3, <1>4 DEF ReadTypeOK, FlightsAreOwned, Loading, Counting
<1>7. FlightsAreLive'
  BY <1>1, <1>2, <1>3, <1>4 DEF FlightsAreLive, At, Loading, Counting
<1>8. StockIsLive'
  BY <1>1, <1>3, <1>4 DEF StockIsLive
<1>9. BatchesAgree'
  <2>1. stock \in Nat /\ \A q \in Readers : read[q].since \in Nat /\ read[q].seen \in Nat
    BY <1>1 DEF ReadTypeOK, Reads
  <2> QED
    BY <1>1, <1>2, <1>3, <1>4, <1>5, <2>1 DEF BatchesAgree, Waiting, Alike, Counting
<1> QED
  BY <1>6, <1>7, <1>8, <1>9 DEF ReadInvariant

\* What the requests of a batch become when its MGET settles.
Settled(old, new, where) ==
  /\ new \in Reads /\ new.at = where /\ new.page = old.page
  /\ where = "done" => new.since <= new.seen

\* A batch settles, and all its requests are answered together.
LEMMA BatchSettles ==
  ASSUME ReadInvariant, NEW r \in Readers, NEW where \in {"done", "degraded"},
         read[r].at \in Counting, mflight' = Put(mflight, r, Nobody), UNCHANGED <<stock, flight>>,
         DOMAIN read' = Readers /\ read' = [q \in Readers |-> read'[q]],
         \A q \in Waiting(r, "mjoined") : Settled(read[q], read'[q], where),
         \A q \in Readers : q \notin Waiting(r, "mjoined") => read'[q] = read[q]
  PROVE  ReadInvariant'
<1>1. ReadTypeOK /\ FlightsAreLive /\ FlightsAreOwned /\ BatchesAgree /\ StockIsLive
  BY DEF ReadInvariant
<1>2. /\ mflight' \in Maps
      /\ \A a \in Apis, p \in Pages :
           mflight'[a][p] = IF a = ApiOf[r] /\ p = read[r].page THEN Nobody ELSE mflight[a][p]
  <2>1. mflight \in Maps /\ read \in [Readers -> Reads] /\ Nobody \in Readers \cup {Nobody}
    BY <1>1 DEF ReadTypeOK, Maps
  <2> HIDE DEF Nobody
  <2> QED
    BY <2>1, PutValue
<1>3. /\ r \in Waiting(r, "mjoined")
      /\ \A q \in Waiting(r, "mjoined") : q = r \/ (read[q].at = "mjoined" /\ Alike(q, r))
      /\ \A q \in Readers : read[q].at = "mjoined" /\ Alike(q, r) => q \in Waiting(r, "mjoined")
  BY DEF Waiting
<1>4. ASSUME NEW q \in Readers
      PROVE  /\ read'[q] \in Reads
             /\ read'[q].page = read[q].page
             /\ q \in Waiting(r, "mjoined") => read'[q].at = where
             /\ q \notin Waiting(r, "mjoined") => read'[q] = read[q]
             /\ ApiOf[q] \in Apis /\ read[q].page \in Pages
  BY <1>1 DEF ReadTypeOK, Settled, Reads
<1>5. ReadTypeOK'
  BY <1>1, <1>2, <1>4 DEF ReadTypeOK, Maps
<1>6. FlightsAreOwned'
  <2> SUFFICES ASSUME NEW a \in Apis, NEW p \in Pages, NEW q \in Readers
               PROVE  /\ flight'[a][p] = q => ApiOf[q] = a /\ read'[q].page = p /\ read'[q].at \in Loading
                      /\ mflight'[a][p] = q => ApiOf[q] = a /\ read'[q].page = p /\ read'[q].at \in Counting
    BY DEF FlightsAreOwned
  <2>1. ASSUME mflight'[a][p] = q PROVE ApiOf[q] = a /\ read'[q].page = p /\ read'[q].at \in Counting
    <3>1. mflight[a][p] = q /\ ~(a = ApiOf[r] /\ p = read[r].page)
      BY <1>2, <2>1
    <3>2. ApiOf[q] = a /\ read[q].page = p /\ read[q].at \in Counting /\ q # r
      BY <1>1, <3>1 DEF FlightsAreOwned
    <3> QED
      BY <1>3, <1>4, <3>2 DEF Counting
  <2>2. ASSUME flight'[a][p] = q PROVE ApiOf[q] = a /\ read'[q].page = p /\ read'[q].at \in Loading
    <3>1. ApiOf[q] = a /\ read[q].page = p /\ read[q].at \in Loading
      BY <1>1, <2>2 DEF FlightsAreOwned
    <3> QED
      BY <1>3, <1>4, <3>1 DEF Counting, Loading
  <2> QED
    BY <2>1, <2>2
<1>7. FlightsAreLive'
  <2>0. At(mflight, r) = r
    BY <1>1 DEF FlightsAreLive
  <2> SUFFICES ASSUME NEW q \in Readers
               PROVE  /\ At(flight, q)' = q <=> read'[q].at \in Loading
                      /\ At(mflight, q)' = q <=> read'[q].at \in Counting
                      /\ read'[q].at = "joined" => At(flight, q)' # Nobody
                      /\ read'[q].at = "mjoined" => At(mflight, q)' # Nobody
    BY DEF FlightsAreLive
  <2>1. /\ At(flight, q)' = At(flight, q)
        /\ At(mflight, q)' = IF Alike(q, r) THEN Nobody ELSE At(mflight, q)
        /\ Alike(q, r) => At(mflight, q) = r
    BY <1>2, <1>4, <2>0 DEF At, Alike
  <2>2. /\ At(flight, q) = q <=> read[q].at \in Loading
        /\ At(mflight, q) = q <=> read[q].at \in Counting
        /\ read[q].at = "joined" => At(flight, q) # Nobody
        /\ read[q].at = "mjoined" => At(mflight, q) # Nobody
    BY <1>1 DEF FlightsAreLive
  <2>3. /\ q \in Waiting(r, "mjoined") => read'[q].at = where
        /\ q \notin Waiting(r, "mjoined") => read'[q].at = read[q].at
    BY <1>4
  <2> QED
    BY <1>3, <2>1, <2>2, <2>3 DEF Loading, Counting, Alike
<1>8. StockIsLive'
  BY <1>1, <1>4 DEF StockIsLive, Settled, Reads
<1>9. BatchesAgree'
  <2>1. \A q \in Readers : read'[q].at \in Counting \cup {"mjoined"} => read'[q] = read[q]
    BY <1>4 DEF Counting
  <2>2. \A q \in Readers : read'[q].page = read[q].page
    BY <1>4
  <2> QED
    BY <1>1, <2>1, <2>2 DEF BatchesAgree, Waiting, Alike, Counting
<1> QED
  BY <1>5, <1>6, <1>7, <1>8, <1>9 DEF ReadInvariant

LEMMA MgetSettles ==
  ASSUME ReadInvariant, NEW r \in Readers, MgetReturns(r) \/ MgetFails(r)
  PROVE  ReadInvariant'
<1>1. ReadTypeOK /\ BatchesAgree
  BY DEF ReadInvariant
<1>2. r \in Waiting(r, "mjoined") /\ Waiting(r, "mjoined") \subseteq Readers
  BY DEF Waiting
<1>3. CASE MgetReturns(r)
  <2>1. /\ read[r].at = "reply" /\ read[r].at \in Counting
        /\ mflight' = Put(mflight, r, Nobody)
        /\ UNCHANGED <<stock, flight>>
    BY <1>3 DEF MgetReturns, Counting
  <2>2. read' = [q \in Readers |-> IF q \in Waiting(r, "mjoined")
                                    THEN [read[q] EXCEPT !.at = "done", !.seen = read[r].seen]
                                    ELSE read[q]]
    BY <1>3 DEF MgetReturns
  <2>3. ASSUME NEW q \in Waiting(r, "mjoined") PROVE Settled(read[q], read'[q], "done")
    <3>1. read[q].since = read[r].since /\ read[r].since <= read[r].seen
      BY <1>1, <2>1, <2>3 DEF BatchesAgree
    <3>2. PICK old \in Reads, n \in 0..MaxStock : old = read[q] /\ n = read[r].seen
      BY <1>1, <1>2 DEF ReadTypeOK, Reads
    <3>3. read'[q] = [old EXCEPT !.at = "done", !.seen = n]
      BY <1>2, <2>2, <3>2
    <3>4. read'[q] \in Reads
      BY <3>3 DEF Reads, Answered
    <3>5. read'[q].at = "done" /\ read'[q].page = old.page /\ read'[q].seen = n /\ read'[q].since = old.since
      BY <3>3 DEF Reads
    <3> QED
      BY <3>1, <3>2, <3>4, <3>5 DEF Settled
  <2>4. /\ DOMAIN read' = Readers /\ read' = [q \in Readers |-> read'[q]]
        /\ \A q \in Readers : q \notin Waiting(r, "mjoined") => read'[q] = read[q]
    BY <2>2
  <2> QED
    BY <2>1, <2>3, <2>4, BatchSettles
<1>4. CASE MgetFails(r)
  <2>1. /\ read[r].at \in Counting
        /\ mflight' = Put(mflight, r, Nobody)
        /\ UNCHANGED <<stock, flight>>
    BY <1>4 DEF MgetFails
  <2>2. read' = [q \in Readers |-> IF q \in Waiting(r, "mjoined")
                                    THEN [read[q] EXCEPT !.at = "degraded", !.seen = 0, !.since = 0]
                                    ELSE read[q]]
    BY <1>4 DEF MgetFails
  <2>3. ASSUME NEW q \in Waiting(r, "mjoined") PROVE Settled(read[q], read'[q], "degraded")
    <3>1. PICK old \in Reads : old = read[q]
      BY <1>1, <1>2 DEF ReadTypeOK
    <3>2. read'[q] = [old EXCEPT !.at = "degraded", !.seen = 0, !.since = 0]
      BY <1>2, <2>2, <3>1
    <3>3. 0 \in 0..MaxStock
      BY DEF ReaderAssumption
    <3>4. read'[q] \in Reads
      BY <3>2, <3>3 DEF Reads, Answered
    <3>5. read'[q].at = "degraded" /\ read'[q].page = old.page
      BY <3>2 DEF Reads
    <3> QED
      BY <3>1, <3>4, <3>5 DEF Settled
  <2>4. /\ DOMAIN read' = Readers /\ read' = [q \in Readers |-> read'[q]]
        /\ \A q \in Readers : q \notin Waiting(r, "mjoined") => read'[q] = read[q]
    BY <2>2
  <2> QED
    BY <2>1, <2>3, <2>4, BatchSettles
<1> QED
  BY <1>3, <1>4

\* The replica answers the reader that loads the page.
LEMMA FetchStep ==
  ASSUME ReadInvariant, CatalogTypeOK, NEW r \in Readers, FetchCatalogPage(r)
  PROVE  ReadInvariant'
<1> DEFINE rec == [read[r] EXCEPT !.at = "write", !.version = replica]
<1>1. ReadTypeOK /\ FlightsAreLive /\ FlightsAreOwned /\ BatchesAgree /\ StockIsLive
  BY DEF ReadInvariant
<1>2. /\ read' = [read EXCEPT ![r] = rec] /\ read[r].at = "query"
      /\ UNCHANGED <<stock, flightVars>>
  BY DEF FetchCatalogPage
<1>3. /\ rec \in Reads /\ rec.at = "write" /\ rec.page = read[r].page
      /\ rec.seen = read[r].seen /\ rec.since = read[r].since
  <2>1. PICK old \in Reads, v \in 0..MaxVersion : old = read[r] /\ v = replica
    BY <1>1 DEF ReadTypeOK, CatalogTypeOK, CatalogAssumption
  <2>2. rec = [old EXCEPT !.at = "write", !.version = v]
    BY <2>1
  <2>3. rec \in Reads
    BY <2>2 DEF Reads, Loading
  <2>4. /\ rec.at = "write" /\ rec.page = old.page
        /\ rec.seen = old.seen /\ rec.since = old.since
    BY <2>2 DEF Reads
  <2> QED
    BY <2>1, <2>3, <2>4
<1> HIDE DEF rec
<1>4. /\ read' \in [Readers -> Reads]
      /\ read'[r] = rec
      /\ \A q \in Readers : q # r => read'[q] = read[q]
  BY <1>1, <1>2, <1>3, ReadMoves DEF ReadTypeOK
<1>5. ReadTypeOK' /\ FlightsAreOwned'
  BY <1>1, <1>2, <1>3, <1>4 DEF ReadTypeOK, FlightsAreOwned, Loading, Counting
<1>6. FlightsAreLive'
  BY <1>1, <1>2, <1>3, <1>4 DEF FlightsAreLive, At, Loading, Counting
<1>7. BatchesAgree' /\ StockIsLive'
  BY <1>1, <1>2, <1>3, <1>4 DEF BatchesAgree, StockIsLive, Waiting, Alike, Counting
<1> QED
  BY <1>5, <1>6, <1>7 DEF ReadInvariant

\* Counters that move leave every answer as fresh as it was.
LEMMA StockStep ==
  ASSUME ReadInvariant, StockMoves
  PROVE  ReadInvariant'
<1>1. /\ stock' = stock + 1 /\ stock < MaxStock
      /\ UNCHANGED <<read, flight, mflight>>
  BY DEF StockMoves
<1>2. \A q \in Readers : read[q].since \in Nat /\ read[q].seen \in Nat
  BY DEF ReadInvariant, ReadTypeOK, Reads
<1> QED
  BY <1>1, <1>2 DEF ReadInvariant, ReadTypeOK, FlightsAreLive, FlightsAreOwned, At,
     BatchesAgree, StockIsLive, Waiting, Alike, ReaderAssumption

\* A step of a reader.
LEMMA ReadStep ==
  ASSUME ReadInvariant, CatalogTypeOK, NEW r \in Readers, ReadNext(r)
  PROVE  ReadInvariant'
<1>1. ReadTypeOK /\ read[r] \in Reads
  BY DEF ReadInvariant, ReadTypeOK
<1>2. NoRead \in Reads /\ NoRead.at = "idle"
  BY DEF NoRead, Reads, CatalogAssumption, ReaderAssumption
<1>3. ASSUME NEW p \in Pages, ListProducts(r, p) PROVE ReadInvariant'
  <2>1. PICK where \in {"missed", "stock"} : read' = [read EXCEPT ![r] = [NoRead EXCEPT !.at = where, !.page = p]]
    BY <1>3 DEF ListProducts
  <2> DEFINE rec == [NoRead EXCEPT !.at = where, !.page = p]
  <2>0. read' = [read EXCEPT ![r] = rec]
    BY <2>1
  <2>2. rec \in Reads /\ rec.at = where
    <3>1. PICK old \in Reads : old = NoRead
      BY <1>2
    <3>2. rec = [old EXCEPT !.at = where, !.page = p]
      BY <3>1
    <3>3. rec \in Reads
      BY <3>2 DEF Reads
    <3> QED
      BY <3>2, <3>3 DEF Reads
  <2> HIDE DEF rec
  <2>3. UNCHANGED <<stock, flightVars>> /\ read[r].at \notin Loading \cup Counting
    BY <1>3 DEF ListProducts, Loading, Counting
  <2> QED
    BY <2>0, <2>2, <2>3, IdleMove
<1>4. CASE Leave(r)
  BY <1>2, <1>4, IdleMove DEF Leave, Answered, Loading, Counting
<1>5. CASE FetchFails(r)
  BY <1>5, SettleStep DEF FetchFails, Loading
<1>6. CASE SetCatalogPage(r)
  BY <1>6, SettleStep DEF SetCatalogPage, Loading
<1> QED
  BY <1>3, <1>4, <1>5, <1>6, LoadStep, FetchStep, GetStocksStep, MgetRunsStep, MgetSettles DEF ReadNext, Serve

-----------------------------------------------------------------------------
\* Whatever fails, the promises, the batches and the flushes stay as they
\* should, for any number of processes, pages, sales and readers.
THEOREM CatalogInvariantHolds == CatalogSpec => []FlushInvariant /\ []ReadInvariant
<1>1. ReadInit => FlushInvariant /\ ReadInvariant
  <2> SUFFICES ASSUME ReadInit PROVE FlushInvariant /\ ReadInvariant
    OBVIOUS
  <2>1. FlushInvariant
    BY DEF ReadInit, CatalogInit, FlushInvariant, CatalogTypeOK, SaleInHand, CallStates, CatalogAssumption
  <2>2. NoRead \in Reads /\ NoRead.at = "idle"
    BY DEF NoRead, Reads, CatalogAssumption, ReaderAssumption
  <2>3. \A r \in Readers : read[r] \in Reads /\ read[r].at = "idle" /\ ApiOf[r] \in Apis /\ read[r].page \in Pages
    BY <2>2 DEF ReadInit, Reads, ReaderAssumption
  <2>4. ReadTypeOK
    <3>1. stock \in 0..MaxStock /\ read \in [Readers -> Reads]
      BY <2>2 DEF ReadInit, ReaderAssumption
    <3>2. flight \in [Apis -> [Pages -> Readers \cup {Nobody}]]
      BY DEF ReadInit
    <3>3. mflight \in [Apis -> [Pages -> Readers \cup {Nobody}]]
      BY DEF ReadInit
    <3> QED
      BY <3>1, <3>2, <3>3 DEF ReadTypeOK
  <2>5. FlightsAreLive /\ FlightsAreOwned
    BY <2>3 DEF ReadInit, FlightsAreLive, FlightsAreOwned, At, Loading, Counting, ReaderAssumption
  <2>6. BatchesAgree /\ StockIsLive
    BY <2>3 DEF BatchesAgree, StockIsLive, Counting
  <2> QED
    BY <2>1, <2>4, <2>5, <2>6 DEF ReadInvariant
<1>2. FlushInvariant /\ ReadInvariant /\ [CatalogNext]_allVars => FlushInvariant' /\ ReadInvariant'
  <2> SUFFICES ASSUME FlushInvariant, ReadInvariant, [CatalogNext]_allVars
               PROVE  FlushInvariant' /\ ReadInvariant'
    OBVIOUS
  <2>1. CatalogTypeOK /\ ReadTypeOK
    BY DEF FlushInvariant, ReadInvariant
  <2>2. ASSUME UNCHANGED <<stock, readVars>> PROVE ReadInvariant'
    BY <2>2 DEF ReadInvariant, ReadTypeOK, FlightsAreLive, FlightsAreOwned, At, BatchesAgree,
       StockIsLive, Waiting, Alike
  <2>3. ASSUME UNCHANGED catalogVars PROVE FlushInvariant'
    BY <2>3 DEF FlushInvariant, CatalogTypeOK, SaleInHand
  <2>4. CASE (\E n \in Sales : FlushNext(n)) /\ UNCHANGED <<stock, readVars>>
    BY <2>2, <2>4, FlushStep
  <2>5. CASE CacheTimeNext /\ UNCHANGED <<stock, readVars>>
    BY <2>2, <2>5, CacheTimeStep
  <2>6. CASE StockMoves
    BY <2>3, <2>6, StockStep DEF StockMoves
  <2>7. CASE \E r \in Readers : ReadNext(r)
    BY <2>1, <2>7, ReadersKeepFlushes, ReadStep
  <2>8. CASE UNCHANGED allVars
    BY <2>2, <2>3, <2>8
  <2> QED
    BY <2>4, <2>5, <2>6, <2>7, <2>8 DEF CatalogNext
<1> QED
  BY <1>1, <1>2, PTL DEF CatalogSpec

\* Unless a worker dies before its call, some call, timer or flush is always in
\* hand for the sales that no flush was tried for, in any number of processes.
THEOREM SalesAreInHand == CatalogSpec => []FlushInvariant
BY CatalogInvariantHolds, PTL

\* loadCatalogPage and getStocks share promises: at most one reader of a process
\* loads a page, and nobody awaits a promise that nobody will settle.
THEOREM PromisesAreLive == CatalogSpec => []FlightsAreLive
<1>1. ReadInvariant => FlightsAreLive
  BY DEF ReadInvariant
<1> QED
  BY <1>1, CatalogInvariantHolds, PTL

\* getStocks: the stock in an answer is no older than the first request that
\* shared its MGET.
THEOREM SharedStockIsLive == CatalogSpec => []StockIsLive
<1>1. ReadInvariant => StockIsLive
  BY DEF ReadInvariant
<1> QED
  BY <1>1, CatalogInvariantHolds, PTL

\* invalidateCatalogCache: unless a worker dies before its call, or its process
\* ends before its timer, a flush is tried after every sale.
THEOREM TrailingTimerLosesNoSale ==
  ASSUME CallsSurvive
  PROVE  CatalogSpec => []EverySaleTried
<1>1. FlushInvariant => EverySaleTried
  BY DEF FlushInvariant, CatalogTypeOK, SaleInHand, EverySaleTried, FlushQuiet
<1> QED
  BY <1>1, CatalogInvariantHolds, PTL
=============================================================================
