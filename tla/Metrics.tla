------------------------------ MODULE Metrics ------------------------------
(***************************************************************************)
(* MetricsService: every process counts in a buffer of its own, a timer    *)
(* sends the buffer once a second as one pipeline of HINCRBYs, and the sum *)
(* of all processes is a hash on redis-data that any of them may read or   *)
(* delete.  Counting must never wait, so nothing here is locked: a flush,  *)
(* a read and a reset are all interrupted at their await.                  *)
(*                                                                         *)
(* A count is a member of Events, so "counted once" means "found in one    *)
(* place"; one counter name stands for all of them.  A connection delivers *)
(* its commands in order; between processes there is no order at all.      *)
(***************************************************************************)
EXTENDS Integers, Sequences, FiniteSets

CONSTANTS
  Instances,  \* the processes that count
  Events,     \* the occasions on which inc() is called
  Readers,    \* readCounters() calls under way at the same time
  None,       \* no instance, no reader
  Faults,     \* the faults that may happen, among AllFaults
  MaxFaults,  \* bound: how many of them happen
  MaxSent     \* bound: unanswered commands of a process

AllFaults == {
  "ExecRejects",   \* pipeline.exec() throws; Redis ran nothing
  "CommandFails",  \* exec() resolves, with an error in the place of the result
  "SentTwice",     \* a pipeline ran, and ioredis reconnects and sends it again
  "Term",          \* SIGTERM
  "Kill" }         \* SIGKILL

ASSUME MetricsAssumption ==
  /\ IsFiniteSet(Events)
  /\ None \notin Instances \cup Readers
  /\ Faults \subseteq AllFaults
  /\ MaxFaults \in Nat /\ MaxSent \in Nat

VARIABLES
  up,       \* "up", "stopping" between SIGTERM and exit, or "down"
  buffer,   \* the counts of each process that no flush has taken
  sent,     \* commands on the connection of each process, unanswered
  hash,     \* metrics:counters on redis-data
  twice,    \* counts in the hash that were added to it twice
  again,    \* the pipeline of each process that ran and is being sent again
  reader,   \* readCounters() calls
  counted,  \* history: counts made so far
  excused,  \* history: counts made by a stopping process or put back by a flush
  lost,     \* history: counts that are gone, by the reason
  faults    \* how many faults happened

metricsVars == <<up, buffer, sent, hash, twice, again, reader, counted, excused, lost, faults>>

Commands == [op : {"incr", "get", "del"}, batch : SUBSET Events, by : Readers \cup {None}]
Reads == [stage : {"none", "asked", "answered"}, at : Instances \cup {None},
          stored : SUBSET Events, extra : Nat]
NoRead == [stage |-> "none", at |-> None, stored |-> {}, extra |-> 0]
Reasons == {"exited", "failed", "killed or reset"}

MetricsTypeOK ==
  /\ up \in [Instances -> {"up", "stopping", "down"}]
  /\ buffer \in [Instances -> SUBSET Events]
  /\ sent \in [Instances -> Seq(Commands)]
  /\ hash \subseteq Events /\ twice \subseteq hash
  /\ again \in [Instances -> SUBSET Events]
  /\ reader \in [Readers -> Reads]
  /\ counted \subseteq Events /\ excused \subseteq Events
  /\ lost \in [Reasons -> SUBSET Events]
  /\ faults \in Nat

MetricsInit ==
  /\ up = [i \in Instances |-> "up"]
  /\ buffer = [i \in Instances |-> {}]
  /\ sent = [i \in Instances |-> << >>]
  /\ hash = {} /\ twice = {}
  /\ again = [i \in Instances |-> {}]
  /\ reader = [p \in Readers |-> NoRead]
  /\ counted = {} /\ excused = {}
  /\ lost = [c \in Reasons |-> {}]
  /\ faults = 0

Send(i, op, batch, p) ==
  /\ Len(sent[i]) < MaxSent
  /\ sent' = [sent EXCEPT ![i] = Append(@, [op |-> op, batch |-> batch, by |-> p])]
Lose(reason, batch) == lost' = [lost EXCEPT ![reason] = @ \cup batch]
Fault(f) == f \in Faults /\ faults < MaxFaults /\ faults' = faults + 1

\* The oldest unanswered command of a process, if it is of this kind.  A command
\* that is sent again keeps its place before the others.
Next1(i, op) == again[i] = {} /\ sent[i] # << >> /\ Head(sent[i]).op = op
Answer(i) == sent' = [sent EXCEPT ![i] = Tail(@)]

\* Counts on their way: taken from a buffer, not yet in the hash.
OnTheWay(i) ==
  UNION {sent[i][k].batch : k \in {n \in DOMAIN sent[i] : sent[i][n].op = "incr"}}

-----------------------------------------------------------------------------
(* Counting and flushing *)

\* inc(): synchronous, whatever state the process is in while it lives.
Inc(i, e) ==
  /\ up[i] # "down"
  /\ e \notin counted
  /\ counted' = counted \cup {e}
  /\ buffer' = [buffer EXCEPT ![i] = @ \cup {e}]
  /\ excused' = IF up[i] = "stopping" THEN excused \cup {e} ELSE excused
  /\ UNCHANGED <<up, sent, hash, twice, again, reader, lost, faults>>

\* Mutation of TakeBuffer: the buffer is cleared once Redis has answered.
SendBuffer(i) == Send(i, "incr", buffer[i], None) /\ UNCHANGED buffer

\* flush() up to its await.  (With an empty buffer it only renews the
\* heartbeat of the process, which is not modelled.)
TakeBuffer(i) ==
  /\ Send(i, "incr", buffer[i], None)
  /\ buffer' = [buffer EXCEPT ![i] = {}]

\* Mutation of Flush: no flush follows one that failed.
FlushUnlessFailed(i) ==
  /\ up[i] = "up"
  /\ buffer[i] # {} /\ buffer[i] \cap excused = {}
  /\ TakeBuffer(i)
  /\ UNCHANGED <<up, hash, twice, again, reader, counted, excused, lost, faults>>

\* The timer, which does not ask whether the last flush has ended.
Flush(i) ==
  /\ up[i] = "up"
  /\ buffer[i] # {}
  /\ TakeBuffer(i)
  /\ UNCHANGED <<up, hash, twice, again, reader, counted, excused, lost, faults>>

\* Redis runs the pipeline.
Increment(i) ==
  /\ Next1(i, "incr")
  /\ hash' = hash \cup Head(sent[i]).batch
  /\ Answer(i)
  /\ UNCHANGED <<up, buffer, twice, again, reader, counted, excused, lost, faults>>

\* Redis runs the pipeline, but the connection drops before the answer.
IncrementUnanswered(i) ==
  /\ Fault("SentTwice")
  /\ up[i] # "down"
  /\ Next1(i, "incr") /\ Head(sent[i]).batch # {}
  /\ hash' = hash \cup Head(sent[i]).batch
  /\ again' = [again EXCEPT ![i] = Head(sent[i]).batch]
  /\ Answer(i)
  /\ UNCHANGED <<up, buffer, twice, reader, counted, excused, lost>>

\* Redis runs it again: what a reset deleted in the meantime is back, and the
\* rest is counted twice.
IncrementAgain(i) ==
  /\ again[i] # {}
  /\ hash' = hash \cup again[i]
  /\ twice' = twice \cup (again[i] \cap hash)
  /\ lost' = [lost EXCEPT !["killed or reset"] = @ \ again[i]]
  /\ again' = [again EXCEPT ![i] = {}]
  /\ UNCHANGED <<up, buffer, sent, reader, counted, excused, faults>>

\* The catch of flush(): the counts return to the buffer.
PutBack(i) ==
  /\ Fault("ExecRejects")
  /\ up[i] # "down"
  /\ Next1(i, "incr")
  /\ buffer' = [buffer EXCEPT ![i] = @ \cup Head(sent[i]).batch]
  /\ excused' = excused \cup Head(sent[i]).batch
  /\ Answer(i)
  /\ UNCHANGED <<up, hash, twice, again, reader, counted, lost>>

\* Errors inside the result of exec(): flush() does not look at it.
ErrorUnseen(i) ==
  /\ Fault("CommandFails")
  /\ up[i] # "down"
  /\ Next1(i, "incr")
  /\ Lose("failed", Head(sent[i]).batch)
  /\ Answer(i)
  /\ UNCHANGED <<up, buffer, hash, twice, again, reader, counted, excused>>

-----------------------------------------------------------------------------
(* The end of a process *)

\* Mutation of Terminate: the timer is stopped and nothing flushed.
TerminateUnflushed(i) ==
  /\ Fault("Term")
  /\ up[i] = "up"
  /\ up' = [up EXCEPT ![i] = "stopping"]
  /\ UNCHANGED <<buffer, sent, hash, twice, again, reader, counted, excused, lost>>

\* SIGTERM: onModuleDestroy() stops the timer and flushes once more; the HTTP
\* server and the worker are closed after it.
Terminate(i) ==
  /\ Fault("Term")
  /\ up[i] = "up"
  /\ up' = [up EXCEPT ![i] = "stopping"]
  /\ TakeBuffer(i)
  /\ UNCHANGED <<hash, twice, again, reader, counted, excused, lost>>

\* quit() of the Redis clients waits for what was sent.  Then the process ends,
\* and what is still in its buffer is gone.
Exit(i) ==
  /\ up[i] = "stopping"
  /\ sent[i] = << >> /\ again[i] = {}
  /\ \A p \in Readers : reader[p].at # i
  /\ up' = [up EXCEPT ![i] = "down"]
  /\ Lose("exited", buffer[i])
  /\ buffer' = [buffer EXCEPT ![i] = {}]
  /\ UNCHANGED <<sent, hash, twice, again, reader, counted, excused, faults>>

\* Requests that a process had not answered fail when it dies.
Forget(i) ==
  reader' = [p \in Readers |-> IF reader[p].at = i THEN NoRead ELSE reader[p]]

\* SIGKILL.  What was sent may still arrive.
Kill(i) ==
  /\ Fault("Kill")
  /\ up[i] # "down"
  /\ up' = [up EXCEPT ![i] = "down"]
  /\ Lose("killed or reset", buffer[i])
  /\ buffer' = [buffer EXCEPT ![i] = {}]
  /\ Forget(i)
  /\ UNCHANGED <<sent, hash, twice, again, counted, excused>>

ConnectionDrops(i) ==
  /\ up[i] = "down" /\ (sent[i] # << >> \/ again[i] # {})
  /\ Lose("killed or reset", OnTheWay(i))
  /\ sent' = [sent EXCEPT ![i] = << >>]
  /\ again' = [again EXCEPT ![i] = {}]
  /\ UNCHANGED <<up, buffer, hash, twice, reader, counted, excused, faults>>

\* restart: unless-stopped.
Restart(i) ==
  /\ up[i] = "down" /\ sent[i] = << >> /\ again[i] = {}
  /\ up' = [up EXCEPT ![i] = "up"]
  /\ UNCHANGED <<buffer, sent, hash, twice, again, reader, counted, excused, lost, faults>>

-----------------------------------------------------------------------------
(* Reading and resetting *)

\* readCounters() up to its await.
AskCounters(p, i) ==
  /\ up[i] # "down"
  /\ reader[p].stage = "none"
  /\ reader' = [reader EXCEPT ![p] = [NoRead EXCEPT !.stage = "asked", !.at = i]]
  /\ Send(i, "get", {}, p)
  /\ UNCHANGED <<up, buffer, hash, twice, again, counted, excused, lost, faults>>

\* HGETALL.  The answer is on its way while the process goes on counting.
GetAll(i) ==
  /\ Next1(i, "get")
  /\ LET p == Head(sent[i]).by IN
     reader' = IF reader[p].at = i /\ reader[p].stage = "asked"
       THEN [reader EXCEPT ![p] = [reader[p] EXCEPT !.stage = "answered", !.stored = hash,
                                                    !.extra = Cardinality(twice)]]
       ELSE reader
  /\ Answer(i)
  /\ UNCHANGED <<up, buffer, hash, twice, again, counted, excused, lost, faults>>

\* The hash as it was, and the buffer as it is now.
Total(p) == reader[p].extra + Cardinality(reader[p].stored) + Cardinality(buffer[reader[p].at])

\* readCounters() adds them up and returns.
SumUp(p) ==
  /\ reader[p].stage = "answered"
  /\ reader' = [reader EXCEPT ![p] = NoRead]
  /\ UNCHANGED <<up, buffer, sent, hash, twice, again, counted, excused, lost, faults>>

\* Mutation of Clear: the buffer is forgotten.
ClearNothing(i) == UNCHANGED <<buffer, lost>>

Clear(i) == Lose("killed or reset", buffer[i]) /\ buffer' = [buffer EXCEPT ![i] = {}]

\* reset() up to its await: one at a time and not before the first count, as
\* bound.  The command remembers, as history, which counts were made before it.
StartReset(i) ==
  /\ up[i] # "down" /\ counted # {}
  /\ \A j \in Instances : \A k \in DOMAIN sent[j] : sent[j][k].op # "del"
  /\ Clear(i)
  /\ Send(i, "del", counted, None)
  /\ UNCHANGED <<up, hash, twice, again, reader, counted, excused, faults>>

\* DEL: counts that others sent since the reset began go with the rest.
DeleteCounters(i) ==
  /\ Next1(i, "del")
  /\ Lose("killed or reset", hash)
  /\ hash' = {} /\ twice' = {}
  /\ Answer(i)
  /\ UNCHANGED <<up, buffer, again, reader, counted, excused, faults>>

\* HGETALL or DEL fails: the exception filter answers 500.
RequestFails(i) ==
  /\ Fault("CommandFails")
  /\ up[i] # "down"
  /\ Next1(i, "get") \/ Next1(i, "del")
  /\ reader' = [p \in Readers |-> IF Head(sent[i]).by = p THEN NoRead ELSE reader[p]]
  /\ Answer(i)
  /\ UNCHANGED <<up, buffer, hash, twice, again, counted, excused, lost>>

-----------------------------------------------------------------------------
Serve(i) == Increment(i) \/ IncrementAgain(i) \/ GetAll(i) \/ DeleteCounters(i)

MetricsFault(i) ==
  \/ IncrementUnanswered(i) \/ PutBack(i) \/ ErrorUnseen(i)
  \/ RequestFails(i) \/ Kill(i)

InstanceNext(i) ==
  \/ Flush(i) \/ Serve(i) \/ MetricsFault(i)
  \/ Terminate(i) \/ Exit(i) \/ ConnectionDrops(i) \/ Restart(i)
  \/ StartReset(i)
  \/ \E e \in Events : Inc(i, e)

-----------------------------------------------------------------------------
(* What the numbers are worth *)

Buffered == UNION {buffer[i] : i \in Instances}
Lost == UNION {lost[c] : c \in Reasons}

\* Every count is in exactly one place: a buffer, one command on its way, the
\* hash, or lost for a reason.  inc(), overlapping flushes, the put-back of a
\* failed one and resets never count it again nor forget it.
CountedOnce ==
  /\ counted = hash \cup Buffered \cup (UNION {OnTheWay(i) : i \in Instances}) \cup Lost
  /\ hash \cap Buffered = {}
  /\ Lost \cap (hash \cup Buffered) = {}
  /\ \A i \in Instances :
       /\ OnTheWay(i) \cap (hash \cup Buffered \cup Lost) = {}
       /\ \A j \in Instances \ {i} : (buffer[i] \cup OnTheWay(i)) \cap (buffer[j] \cup OnTheWay(j)) = {}
       /\ \A k, m \in DOMAIN sent[i] :
            k # m /\ sent[i][k].op = "incr" /\ sent[i][m].op = "incr" =>
              sent[i][k].batch \cap sent[i][m].batch = {}

\* Hash and buffer are added up at different moments, and still no count is
\* added twice: a reading never overstates what was counted, but for pipelines
\* that the client itself sent twice.
NeverOverstates ==
  \A p \in Readers :
    reader[p].stage = "answered" => Total(p) <= Cardinality(counted) + reader[p].extra

\* The comment on SIGTERM: what was counted before it is not lost, unless the
\* last flush failed.  (Counts made after that flush are.)
TermKeepsCounts == lost["exited"] \subseteq excused

\* When the DEL of a reset returns, nothing that this process had counted before
\* the reset is left anywhere, unless a failed flush put it back; only other
\* processes may still bring counts of the time before.
ResetClearsOwn ==
  [][\A i \in Instances :
       DeleteCounters(i) =>
         Head(sent[i]).batch \cap (hash \cup buffer[i] \cup OnTheWay(i))' \subseteq excused]_metricsVars
=============================================================================
