------------------------------- MODULE Pools -------------------------------
(***************************************************************************)
(* What one process does with its connections: a pool of at most PoolSize  *)
(* to the primary and one to the replica, shared by the worker slots, the  *)
(* readiness probe and the integrity check.  Nobody gives up waiting for a *)
(* connection, and nothing checks that WORKER_CONCURRENCY stays below      *)
(* DB_POOL_SIZE: the waiting has to end because everybody gives back what  *)
(* he was lent, whatever fails.                                            *)
(*                                                                         *)
(* A task is one use of one server.  What a server answers is left out,    *)
(* but for whether it does.                                                *)
(***************************************************************************)
EXTENDS Integers, Sequences, FiniteSets

CONSTANTS
  Slots,      \* worker slots
  Probes,     \* GET health/ready calls under way at the same time
  Checks,     \* IntegrityService.check() calls under way at the same time
  PoolSize,   \* DB_POOL_SIZE
  MaxStuck,   \* bound: connections kept by a BEGIN that failed
  MaxOutages  \* bound: how often a server goes down

Roles == {"master", "slave"}
Servers == Roles \cup {"cache", "data"}

ASSUME PoolAssumption ==
  /\ PoolSize \in 1..100
  /\ MaxStuck \in 0..(PoolSize - 1)
  /\ MaxOutages \in Nat
  /\ IsFiniteSet(Slots) /\ IsFiniteSet(Probes) /\ IsFiniteSet(Checks)
  /\ Slots \cap Probes = {} /\ Slots \cap Checks = {} /\ Probes \cap Checks = {}

Tasks == (Slots \X {"master"}) \cup (Probes \X Servers) \cup (Checks \X Roles)

VARIABLES
  servers,  \* the servers that answer
  task,     \* where every task is; over, how a probe's found its server
  line,     \* the tasks that wait at each pool, in their order
  out,      \* connections of each pool that are lent
  stuck,    \* those of the primary's that nobody will give back
  asked,    \* the readiness calls that are not answered
  met,      \* history: the servers seen up, and down, during such a call
  outages   \* history: how often a server went down

poolVars == <<servers, task, line, out, stuck, asked, met, outages>>

NothingMet == [up |-> {}, down |-> {}]

PoolTypeOK ==
  /\ servers \subseteq Servers
  /\ task \in [Tasks -> {"waiting", "begin", "query", "broken", "redis", "release",
                      "up", "down"}]
  /\ out \in [Roles -> 0..PoolSize]
  /\ stuck \in 0..MaxStuck
  /\ asked \subseteq Probes
  /\ met \in [Probes -> [up : SUBSET Servers, down : SUBSET Servers]]
  /\ outages \in Nat

PoolInit ==
  /\ servers = Servers
  /\ task = [t \in Tasks |-> "up"]
  /\ line = [s \in Roles |-> << >>]
  /\ out = [s \in Roles |-> 0]
  /\ stuck = 0
  /\ asked = {}
  /\ met = [p \in Probes |-> NothingMet]
  /\ outages = 0

Over(t) == task[t] \in {"up", "down"}
GoOn(t, where) == task' = [task EXCEPT ![t] = where]
\* (What becomes of a job is OrderFlow's, of a check IntegrityCheck's matter.)
FoundDown(t) == GoOn(t, IF t[1] \in Probes THEN "down" ELSE "up")

\* Mutation of ServerOf: a probe of the database takes the default mode, slave.
DefaultServerOf(t) == IF t[2] = "master" /\ t[1] \in Probes THEN "slave" ELSE t[2]

\* createQueryRunner(mode), or one of the two Redis clients.
ServerOf(t) == t[2]
Pooled(t) == ServerOf(t) \in Roles
Answers(t) == ServerOf(t) \in servers

-----------------------------------------------------------------------------
(* Borrowing, using and giving back a connection *)

\* These tasks begin: they join the line of their pool, or ask Redis at once.
Start(new) ==
  LET starts == {new[k] : k \in DOMAIN new} IN
  /\ task' = [t \in Tasks |->
       IF t \notin starts THEN task[t] ELSE IF Pooled(t) THEN "waiting" ELSE "query"]
  /\ line' = [s \in Roles |-> line[s] \o SelectSeq(new, LAMBDA t : ServerOf(t) = s)]

\* process() begins with a connection to the primary.
TakeSlot(w) ==
  /\ Over(<<w, "master">>)
  /\ Start(<< <<w, "master">> >>)
  /\ UNCHANGED <<servers, out, stuck, asked, met, outages>>

\* ready(): its four indicators start side by side.
StartProbe(p) ==
  /\ p \notin asked
  /\ Start(<< <<p, "master">>, <<p, "slave">>, <<p, "cache">>, <<p, "data">> >>)
  /\ asked' = asked \cup {p}
  /\ met' = [met EXCEPT ![p] = [up |-> servers, down |-> Servers \ servers]]
  /\ UNCHANGED <<servers, out, stuck, outages>>

\* check(): so do its two that need a connection.
StartCheck(c) ==
  /\ \A s \in Roles : Over(<<c, s>>)
  /\ Start(<< <<c, "master">>, <<c, "slave">> >>)
  /\ UNCHANGED <<servers, out, stuck, asked, met, outages>>

\* The first of a line is served when a connection is free or may be opened.
Served(t) ==
  /\ task[t] = "waiting"
  /\ Head(line[ServerOf(t)]) = t
  /\ out[ServerOf(t)] < PoolSize
  /\ line' = [line EXCEPT ![ServerOf(t)] = Tail(@)]

Connect(t) ==
  /\ Served(t)
  /\ Answers(t)
  /\ out' = [out EXCEPT ![ServerOf(t)] = @ + 1]
  /\ GoOn(t, IF t[1] \in Slots THEN "begin" ELSE "query")
  /\ UNCHANGED <<servers, stuck, asked, met, outages>>

\* The pool cannot open one: connect() rejects, with nothing lent.
ConnectFails(t) ==
  /\ Served(t)
  /\ ~Answers(t)
  /\ FoundDown(t)
  /\ UNCHANGED <<servers, out, stuck, asked, met, outages>>

Begin(t) ==
  /\ task[t] = "begin"
  /\ GoOn(t, "query")
  /\ UNCHANGED <<servers, line, out, stuck, asked, met, outages>>

\* BEGIN fails on a connection that lives: it stands before the try, and nobody
\* releases the runner.
BeginFails(t) ==
  /\ task[t] = "begin"
  /\ stuck < MaxStuck
  /\ stuck' = stuck + 1
  /\ FoundDown(t)
  /\ UNCHANGED <<servers, line, out, asked, met, outages>>

\* Its connection was lost, or Redis leaves it without an answer.
Unanswered(t) == task[t] = "broken" \/ (task[t] = "query" /\ ~Answers(t))

\* The query, or transaction, or ping is answered.  A check still reads the
\* stock counters before it gives its connection back.
Succeed(t) ==
  /\ task[t] = "query"
  /\ Answers(t)
  /\ GoOn(t, IF ~Pooled(t) THEN "up" ELSE IF t \in Checks \X {"master"} THEN "redis" ELSE "release")
  /\ UNCHANGED <<servers, line, out, stuck, asked, met, outages>>

\* Mutation of Fail: a reader of the replica gives its connection back only when
\* its query succeeds.
FailUnreleased(t) ==
  /\ Unanswered(t)
  /\ FoundDown(t)
  /\ out' = IF ServerOf(t) = "master" THEN [out EXCEPT !["master"] = @ - 1] ELSE out
  /\ UNCHANGED <<servers, line, stuck, asked, met, outages>>

\* It is not: the error is kept through the release.  A transaction that failed
\* for good is compensated for before the finally that releases.  (A runner that
\* finds its connection dead while at BEGIN, before the try, releases itself.)
Fail(t) ==
  /\ Unanswered(t)
  /\ IF t[1] \in Slots
       THEN (GoOn(t, "redis") \/ GoOn(t, "release")) /\ UNCHANGED out
       ELSE /\ FoundDown(t)
            /\ out' = IF Pooled(t) THEN [out EXCEPT ![ServerOf(t)] = @ - 1] ELSE out
  /\ UNCHANGED <<servers, line, stuck, asked, met, outages>>

\* redis-data answers, or the command times out: either way the task goes on.
RedisAnswers(t) ==
  /\ task[t] = "redis"
  /\ GoOn(t, "release")
  /\ UNCHANGED <<servers, line, out, stuck, asked, met, outages>>

\* finally.
Release(t) ==
  /\ task[t] = "release"
  /\ out' = [out EXCEPT ![ServerOf(t)] = @ - 1]
  /\ GoOn(t, "up")
  /\ UNCHANGED <<servers, line, stuck, asked, met, outages>>

Verdict(p) == IF \A s \in Servers : task[<<p, s>>] = "up" THEN 200 ELSE 503
Decided(p) == p \in asked /\ \A s \in Servers : Over(<<p, s>>)

\* terminus has all four indicators, and answers.
AnswerProbe(p) ==
  /\ Decided(p)
  /\ asked' = asked \ {p}
  /\ task' = [t \in Tasks |-> IF t[1] = p THEN "up" ELSE task[t]]
  /\ met' = [met EXCEPT ![p] = NothingMet]
  /\ UNCHANGED <<servers, line, out, stuck, outages>>

\* A server goes down, and with it the connections to it that are in use.
GoesDown(s) ==
  /\ s \in servers
  /\ outages < MaxOutages
  /\ outages' = outages + 1
  /\ servers' = servers \ {s}
  /\ task' = [t \in Tasks |->
       IF Pooled(t) /\ ServerOf(t) = s /\ task[t] \in {"begin", "query"} THEN "broken" ELSE task[t]]
  /\ met' = [p \in Probes |-> [met[p] EXCEPT !.down = @ \cup {x \in {s} : p \in asked}]]
  /\ UNCHANGED <<line, out, stuck, asked>>

ComesBack(s) ==
  /\ s \notin servers
  /\ servers' = servers \cup {s}
  /\ met' = [p \in Probes |-> [met[p] EXCEPT !.up = @ \cup {x \in {s} : p \in asked}]]
  /\ UNCHANGED <<task, line, out, stuck, asked, outages>>

-----------------------------------------------------------------------------
Uses(t) ==
  \/ ConnectFails(t) \/ Begin(t)
  \/ Succeed(t) \/ Fail(t) \/ RedisAnswers(t) \/ Release(t)

PoolNext ==
  \/ \E t \in Tasks : Connect(t) \/ Uses(t) \/ BeginFails(t)
  \/ \E w \in Slots : TakeSlot(w)
  \/ \E p \in Probes : StartProbe(p) \/ AnswerProbe(p)
  \/ \E c \in Checks : StartCheck(c)
  \/ \E s \in Servers : GoesDown(s) \/ ComesBack(s)

PoolSpec == PoolInit /\ [][PoolNext]_poolVars

\* What was begun goes on, whatever its outcome.
PoolFairSpec ==
  /\ PoolSpec
  /\ \A t \in Tasks : WF_poolVars(Connect(t) \/ Uses(t))
  /\ \A p \in Probes : WF_poolVars(AnswerProbe(p))

-----------------------------------------------------------------------------
\* Readiness is the truth about all four servers, the primary too, although
\* queries go to the replica by default: 200 only if each of them was up at
\* some moment of the call, 503 only if one was down.
ReadyIsTrue == \A p \in Probes : Decided(p) =>
  /\ Verdict(p) = 200 => met[p].up = Servers
  /\ Verdict(p) = 503 => met[p].down # {}

\* Every connection that is lent is in the hands of a task, or stuck.
Holds(t) == Pooled(t) /\ task[t] \in {"begin", "query", "broken", "redis", "release"}
Holders(s) == {t \in Tasks : ServerOf(t) = s /\ Holds(t)}
LentAccounted ==
  \A s \in Roles : out[s] = Cardinality(Holders(s)) + (IF s = "master" THEN stuck ELSE 0)

PoolInvariant == PoolTypeOK /\ LentAccounted /\ ReadyIsTrue

\* However many worker slots, probes and checks there are for one connection,
\* whatever goes down and comes back: whoever waits for a connection gets one
\* or an error, and every readiness call is answered.
NobodyWaitsForever ==
  /\ \A t \in Tasks : []<>(task[t] # "waiting")
  /\ \A p \in Probes : []<>(p \notin asked)
=============================================================================
