---------------------------- MODULE OrderFlowInv ----------------------------
(***************************************************************************)
(* Inductive invariants of OrderFlow: what the proofs need besides the     *)
(* properties themselves.  The first holds whatever fails, the second when *)
(* no fault is ambiguous.                                                  *)
(***************************************************************************)
EXTENDS OrderFlow

\* A job is filed under the user of the request whose token it carries.
JobsFiled == \A u \in Users :
  job[u].state # "none" => job[u].token \in Requests /\ UserOf[job[u].token] = u

\* A busy worker slot has the token of a request.
TokensKnown == \A w \in Workers : wpc[w] # "idle" => wtok[w] \in Requests

\* The worker between its UPDATE and its COMMIT, and it alone, has the product
\* row, with a unit on it, and past its INSERT there is no other order of the user.
RowIsLocked ==
  /\ \A w \in Workers : rowLock = w <=> wpc[w] \in {"insert", "commit"}
  /\ rowLock # None => remaining > 0
  /\ \A w \in Workers : wpc[w] = "commit" => ~Ordered(WUser(w))

\* markBought runs for a committed order only.
MarksAnOrder == \A w \in Workers : wpc[w] = "mark" => Ordered(WUser(w))

\* Of the path alone: it holds whatever the product row and the bought flags
\* were when the round began.
PathInvariant ==
  /\ TypeOK
  /\ JobsFiled
  /\ TokensKnown
  /\ RowIsLocked
  /\ MarksAnOrder
  /\ OneOrderPerUser
  /\ LockProvesClaim

WriteInvariant ==
  /\ PathInvariant
  /\ NeverOversold
  /\ BoughtMeansOrdered

-----------------------------------------------------------------------------
\* The job of request r is in the queue.
Stored(r) == job[UserOf[r]].state # "none" /\ job[UserOf[r]].token = r

\* Request r has a unit in Redis that is neither sold nor given back.
Held(r) == r \in claims /\ r \notin orders

\* Only a request past queue.add has a job or an order, and until it has one
\* its reservation is its own.
ApiHolds == \A r \in Requests :
  /\ pc[r] = "idle" => r \notin claims
  /\ pc[r] = "resent" => lock[UserOf[r]] = r /\ "GatekeeperResent" \in Faults
  /\ pc[r] \notin {"notEnqueuedAgain", "duplicateAgain"}
  /\ pc[r] \in {"reserved", "notEnqueued", "duplicate"} => r \in claims
  /\ Stored(r) \/ r \in orders => pc[r] \in {"verify", "accepted", "dead"}
  /\ pc[r] = "verify" => job[UserOf[r]].state # "none" /\ (Stored(r) \/ Held(r))

\* A busy worker slot owns its job, and an active job has a busy worker slot.
WorkerOwns ==
  /\ \A w \in Workers : wpc[w] # "idle" =>
       /\ Owns(w, WUser(w))
       /\ job[WUser(w)].token = wtok[w]
  /\ \A u \in Users : job[u].state = "active" =>
       /\ job[u].owner \in Workers
       /\ wpc[job[u].owner] # "idle"
       /\ WUser(job[u].owner) = u

\* A job that will be tried, and one being tried, still has its unit, and only
\* its last attempt gives the unit back.
JobHolds ==
  /\ \A u \in Users : job[u].state \in {"waiting", "delayed"} => Held(job[u].token)
  /\ \A w \in Workers :
       wpc[w] \in {"begin", "update", "insert", "commit", "compensate"} => Held(wtok[w])
  /\ \A w \in Workers : wpc[w] = "throw" /\ ~IsFinalAttempt(w) => Held(wtok[w])
  /\ \A w \in Workers : wpc[w] = "compensate" => IsFinalAttempt(w)

\* Of the path alone: it counts no units, and holds in every round of sale.
HoldInvariant == ApiHolds /\ WorkerOwns /\ JobHolds

\* Nothing is reserved before the counter exists.
SeedFirst == ~seeded => counter = 0 /\ claims = {}

ReservationInvariant ==
  /\ NoUnitReturnedTwice
  /\ SoldIsClaimed
  /\ AdmittedFindsStock
  /\ SeedFirst
  /\ HoldInvariant

-----------------------------------------------------------------------------
(* While no lock times out, or no finished job goes *)

\* compensateOnce has its guard only for a unit it gave back.
GuardedIsReturned == \A r \in guard : r \notin claims /\ pc[r] # "idle"

\* The lock goes after the bought flag is set.
ReleaseFollowsMark == \A w \in Workers : wpc[w] = "release" => WUser(w) \in bought

\* The user of a reservation is refused, by the lock or by the bought flag, so
\* that there is only one.
Exclusive ==
  /\ \A r \in claims : lock[UserOf[r]] = r \/ UserOf[r] \in bought
  /\ \A a, b \in claims : UserOf[a] = UserOf[b] => a = b

\* So it is while a lock outlives its purchase.
LockStays == "LockTtl" \notin Faults => Exclusive

\* If finished jobs stay, that of an order does.
JobStays == "Trim" \notin Faults => \A o \in orders : Stored(o)

ExclusionInvariant == GuardedIsReturned /\ ReleaseFollowsMark /\ LockStays /\ JobStays

\* Faults that leave a unit to nobody: an error or a crash that passes no
\* compensation, or one that compensates for what it cannot see.
LeakFaults == {"GatekeeperResent", "CompensationNotRun", "ApiCrash", "BeginFails",
               "LateTtl", "ReadJobFails"}
EveryFailureNoticed ==
  /\ NoAmbiguity
  /\ Faults \cap LeakFaults = {}
  /\ "LockTtl" \notin Faults \/ "Trim" \notin Faults

\* The stored job of request r will be tried, or is being tried, to its end.
Tried(r) ==
  LET stored == job[UserOf[r]]
  IN /\ stored.state # "none" /\ stored.token = r
     /\ \/ stored.state \in {"waiting", "delayed"}
        \/ /\ stored.state = "active"
           /\ \/ wpc[stored.owner] \in {"begin", "update", "insert", "commit", "compensate"}
              \/ wpc[stored.owner] = "throw" /\ ~IsFinalAttempt(stored.owner)

\* Whoever has a unit is on the way to sell it or to give it back.
HeldIsHandled == \A r \in Requests : Held(r) =>
  \/ pc[r] = "unsure" /\ lock[UserOf[r]] = r
  \/ pc[r] \in {"reserved", "notEnqueued", "duplicate"}
  \/ pc[r] = "verify" /\ ~Stored(r)
  \/ Tried(r)
=============================================================================
