----------------------------- MODULE OrderQueue -----------------------------
(***************************************************************************)
(* The BullMQ queue "orders", as src/orders uses it.  A job is named       *)
(* order:{user}:{product}, so with one product there is one slot per user. *)
(* BullMQ itself is a library: what it does is modelled from the options   *)
(* the code passes (jobId, attempts, backoff, removeOnComplete/Fail) and   *)
(* from what its comments and tests rely on.                               *)
(***************************************************************************)
EXTENDS RedisData

CONSTANTS
  Workers,    \* slots of the order worker: processes times WORKER_CONCURRENCY
  Attempts,   \* attempts per job
  MaxStalled  \* times a job may lose its worker before BullMQ fails it

ASSUME QueueAssumption ==
  /\ None \notin Workers
  /\ Attempts \in Nat \ {0}
  /\ MaxStalled \in Nat

VARIABLE job  \* the job slot of each user

JobStates == {"none", "waiting", "active", "delayed", "completed", "failed"}

Job == [state : JobStates, token : Requests \cup {None}, made : Nat,
        stalled : Nat, owner : Workers \cup {None}]

NoJob == [state |-> "none", token |-> None, made |-> 0, stalled |-> 0, owner |-> None]

QueueTypeOK == job \in [Users -> Job]

QueueInit == job = [u \in Users |-> NoJob]

IsLive(u) == job[u].state \in {"waiting", "active", "delayed"}
IsFinished(u) == job[u].state \in {"completed", "failed"}
Owns(w, u) == job[u].state = "active" /\ job[u].owner = w

-----------------------------------------------------------------------------
\* queue.add with a jobId: a job of that name, whatever its state, is kept
\* and the new payload dropped without an error.
AddJob(r) ==
  job' = IF job[UserOf[r]].state = "none"
           THEN [job EXCEPT ![UserOf[r]] = [NoJob EXCEPT !.state = "waiting", !.token = r]]
           ELSE job

\* A free worker slot fetches a waiting job and locks it.
TakeJob(w, u) ==
  /\ job[u].state = "waiting"
  /\ job' = [job EXCEPT ![u] = [job[u] EXCEPT !.state = "active", !.owner = w]]

\* The handler returned.  A worker that lost the job's lock changes nothing.
CompleteJob(w, u) ==
  job' = IF Owns(w, u)
           THEN [job EXCEPT ![u] = [job[u] EXCEPT !.state = "completed", !.owner = None]]
           ELSE job

\* Mutation of StateAfterFailure: one attempt too many.
RetriesOnceMore(made) == IF made < Attempts THEN "delayed" ELSE "failed"

\* Back off and retry, or fail for good.
StateAfterFailure(made) == IF made + 1 < Attempts THEN "delayed" ELSE "failed"

\* The handler threw, on a job that had failed `made` times before.
FailJob(w, u, made) ==
  job' = IF Owns(w, u)
           THEN [job EXCEPT ![u] = [job[u] EXCEPT !.state = StateAfterFailure(made),
                                                  !.made = made + 1,
                                                  !.owner = None]]
           ELSE job

\* The backoff of a delayed job is over.
PromoteJob(u) ==
  /\ job[u].state = "delayed"
  /\ job' = [job EXCEPT ![u] = [job[u] EXCEPT !.state = "waiting"]]

StateAfterStall(u) == IF job[u].stalled < MaxStalled THEN "waiting" ELSE "failed"

\* The stalled-job check finds an active job whose lock was not renewed: it
\* is queued again, or failed without its handler being called.
RecoverJob(u) ==
  /\ job[u].state = "active"
  /\ job' = [job EXCEPT ![u] = [job[u] EXCEPT !.state = StateAfterStall(u),
                                              !.stalled = job[u].stalled + 1,
                                              !.owner = None]]

\* removeOnComplete / removeOnFail: only the latest 5000 finished jobs stay.
TrimJob(u) ==
  /\ IsFinished(u)
  /\ job' = [job EXCEPT ![u] = NoJob]
=============================================================================
