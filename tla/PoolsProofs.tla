---------------------------- MODULE PoolsProofs ----------------------------
(***************************************************************************)
(* The readiness probe tells the truth for every number of probes, worker  *)
(* slots, checks and connections, and however often servers go and come.   *)
(***************************************************************************)
EXTENDS Pools, FiniteSetTheorems, TLAPS

USE PoolAssumption
USE DEF Servers, Roles, ServerOf, Pooled, Answers, poolVars

Stages == {"waiting", "begin", "query", "broken", "redis", "release", "up", "down"}

ProbeTypeOK ==
  /\ servers \subseteq Servers
  /\ task \in [Tasks -> Stages]
  /\ asked \subseteq Probes
  /\ met \in [Probes -> [up : SUBSET Servers, down : SUBSET Servers]]

\* A connection in use is one to a server that is up.
UsedIsUp == \A t \in Tasks : Pooled(t) /\ task[t] \in {"begin", "query"} => ServerOf(t) \in servers

\* A call under way has met every server as it is, and as its task found it.
MetAsFound == \A p \in asked : \A s \in Servers :
  /\ s \in servers => s \in met[p].up
  /\ s \notin servers => s \in met[p].down
  /\ task[<<p, s>>] \in {"release", "up"} => s \in met[p].up
  /\ task[<<p, s>>] \in {"broken", "down"} => s \in met[p].down
  /\ task[<<p, s>>] \notin {"begin", "redis"}

ProbeInvariant == ProbeTypeOK /\ UsedIsUp /\ MetAsFound

LEMMA TasksOfProbes ==
  ASSUME NEW p \in Probes, NEW s \in Servers
  PROVE  <<p, s>> \in Tasks /\ p \notin Slots /\ <<p, s>> \notin Checks \X {"master"}
BY DEF Tasks

\* One task moves on, servers and calls as they are.
LEMMA TaskMoves ==
  ASSUME ProbeInvariant, NEW t \in Tasks, NEW to \in Stages, GoOn(t, to),
         UNCHANGED <<servers, asked, met>>,
         Pooled(t) /\ to \in {"begin", "query"} => ServerOf(t) \in servers,
         t[1] \in asked =>
           /\ to \notin {"begin", "redis"}
           /\ to \in {"release", "up"} => task[t] = "release" \/ ServerOf(t) \in servers
           /\ to \in {"broken", "down"} => task[t] = "broken" \/ ServerOf(t) \notin servers
  PROVE  ProbeInvariant'
<1> USE DEF ProbeInvariant, GoOn
<1>1. ProbeTypeOK' /\ UsedIsUp'
  BY DEF ProbeTypeOK, UsedIsUp
<1>2. ASSUME NEW p \in asked, NEW s \in Servers
      PROVE  /\ task'[<<p, s>>] \in {"release", "up"} => s \in met[p].up
             /\ task'[<<p, s>>] \in {"broken", "down"} => s \in met[p].down
             /\ task'[<<p, s>>] \notin {"begin", "redis"}
  <2>1. <<p, s>> \in Tasks /\ p \in Probes
    BY TasksOfProbes DEF ProbeTypeOK
  <2>2. CASE t = <<p, s>>
    <3>1. t[1] = p /\ t[2] = s /\ task'[t] = to
      BY <2>1, <2>2 DEF ProbeTypeOK
    <3> QED
      BY <2>1, <2>2, <3>1 DEF MetAsFound
  <2>3. CASE t # <<p, s>>
    BY <2>1, <2>3 DEF ProbeTypeOK, MetAsFound
  <2> QED
    BY <2>2, <2>3
<1>3. MetAsFound'
  BY <1>2 DEF MetAsFound
<1> QED
  BY <1>1, <1>3

LEMMA UseStep ==
  ASSUME ProbeInvariant, NEW t \in Tasks, Connect(t) \/ Uses(t) \/ BeginFails(t)
  PROVE  ProbeInvariant'
<1>1. task \in [Tasks -> Stages] /\ asked \subseteq Probes
  BY DEF ProbeInvariant, ProbeTypeOK
<1>2. t[1] \in asked => /\ t[1] \notin Slots /\ t \notin Checks \X {"master"}
                        /\ task[t] \notin {"begin", "redis"}
  <2> SUFFICES ASSUME t[1] \in asked
               PROVE  /\ t[1] \notin Slots /\ t \notin Checks \X {"master"}
                      /\ task[t] \notin {"begin", "redis"}
    OBVIOUS
  <2>1. t[1] \in Probes /\ t[2] \in Servers /\ t = <<t[1], t[2]>>
    BY DEF Tasks, ProbeInvariant, ProbeTypeOK
  <2> QED
    BY <2>1, TasksOfProbes DEF ProbeInvariant, MetAsFound
<1>3. CASE Connect(t)
  BY <1>1, <1>2, <1>3, TaskMoves DEF Connect, Stages
<1>4. CASE ConnectFails(t)
  <2> DEFINE to == IF t[1] \in Probes THEN "down" ELSE "up"
  <2>1. to \in Stages /\ to \notin {"begin", "query", "redis"} /\ (t[1] \in asked => to = "down")
    BY <1>1 DEF Stages
  <2>2. GoOn(t, to) /\ UNCHANGED <<servers, asked, met>> /\ ServerOf(t) \notin servers
    BY <1>4 DEF ConnectFails, FoundDown
  <2> HIDE DEF to
  <2> QED
    BY <2>1, <2>2, TaskMoves
<1>5. CASE Begin(t)
  BY <1>1, <1>2, <1>5, TaskMoves DEF Begin, Stages, ProbeInvariant, UsedIsUp
<1>6. CASE BeginFails(t)
  BY <1>1, <1>2, <1>6, TaskMoves DEF BeginFails, FoundDown, Stages
<1>7. CASE Succeed(t)
  BY <1>1, <1>2, <1>7, TaskMoves DEF Succeed, Stages
<1>8. CASE Fail(t)
  <2>1. task[t] = "broken" \/ ServerOf(t) \notin servers
    BY <1>8 DEF Fail, Unanswered
  <2>2. CASE t[1] \in Slots
    BY <1>1, <1>2, <1>8, <2>1, <2>2, TaskMoves DEF Fail, Stages
  <2>3. CASE t[1] \notin Slots
    <3> DEFINE to == IF t[1] \in Probes THEN "down" ELSE "up"
    <3>1. to \in Stages /\ to \notin {"begin", "query", "redis"} /\ (t[1] \in asked => to = "down")
      BY <1>1 DEF Stages
    <3>2. GoOn(t, to) /\ UNCHANGED <<servers, asked, met>>
      BY <1>8, <2>3 DEF Fail, FoundDown
    <3> HIDE DEF to
    <3> QED
      BY <2>1, <3>1, <3>2, TaskMoves
  <2> QED
    BY <2>2, <2>3
<1>9. CASE RedisAnswers(t)
  BY <1>1, <1>2, <1>9, TaskMoves DEF RedisAnswers, Stages
<1>10. CASE Release(t)
  BY <1>1, <1>2, <1>10, TaskMoves DEF Release, Stages
<1> QED
  BY <1>3, <1>4, <1>5, <1>6, <1>7, <1>8, <1>9, <1>10 DEF Uses

\* These tasks begin.
Begins(new) ==
  task' = [t \in Tasks |-> IF t \notin new THEN task[t] ELSE IF Pooled(t) THEN "waiting" ELSE "query"]

LEMMA SlotBegins ==
  ASSUME NEW w \in Slots, TakeSlot(w)
  PROVE  Begins({<<w, "master">>}) /\ <<w, "master">> \in Tasks
<1> DEFINE new == << <<w, "master">> >>
<1>1. {new[k] : k \in DOMAIN new} = {<<w, "master">>}
  OBVIOUS
<1> QED
  BY <1>1 DEF TakeSlot, Start, Begins, Tasks

LEMMA CheckBegins ==
  ASSUME NEW c \in Checks, StartCheck(c)
  PROVE  Begins({c} \X Roles) /\ {c} \X Roles \subseteq Tasks
<1> DEFINE new == << <<c, "master">>, <<c, "slave">> >>
<1>1. {new[k] : k \in DOMAIN new} = {c} \X Roles
  <2>1. {new[k] : k \in DOMAIN new} = {<<c, "master">>, <<c, "slave">>}
    OBVIOUS
  <2> QED
    BY <2>1
<1> QED
  BY <1>1 DEF StartCheck, Start, Begins, Tasks

LEMMA ProbeBegins ==
  ASSUME NEW p \in Probes, StartProbe(p)
  PROVE  Begins({p} \X Servers) /\ {p} \X Servers \subseteq Tasks
<1> DEFINE new == << <<p, "master">>, <<p, "slave">>, <<p, "cache">>, <<p, "data">> >>
           starts == {new[k] : k \in DOMAIN new}
<1>1. starts = {p} \X Servers
  <2>1. starts = {new[1], new[2], new[3], new[4]}
    <3>1. DOMAIN new = {1, 2, 3, 4}
      OBVIOUS
    <3> QED
      BY <3>1
  <2>2. new[1] = <<p, "master">> /\ new[2] = <<p, "slave">> /\ new[3] = <<p, "cache">> /\ new[4] = <<p, "data">>
    OBVIOUS
  <2> HIDE DEF new, starts
  <2>3. starts = {<<p, "master">>, <<p, "slave">>, <<p, "cache">>, <<p, "data">>}
    BY <2>1, <2>2
  <2> QED
    BY <2>3
<1> QED
  BY <1>1 DEF StartProbe, Start, Begins, Tasks

\* Tasks of others begin, while servers and calls stay as they are.
LEMMA OthersBegin ==
  ASSUME ProbeInvariant, UNCHANGED <<servers, asked, met>>, NEW new \in SUBSET Tasks,
         \A t \in new : t[1] \notin Probes /\ Pooled(t), Begins(new)
  PROVE  ProbeInvariant'
<1> USE DEF ProbeInvariant, Begins
<1>1. ProbeTypeOK' /\ UsedIsUp'
  BY DEF ProbeTypeOK, UsedIsUp, Stages
<1>2. ASSUME NEW p \in asked, NEW s \in Servers PROVE task'[<<p, s>>] = task[<<p, s>>]
  BY TasksOfProbes DEF ProbeTypeOK
<1> QED
  BY <1>1, <1>2 DEF MetAsFound

LEMMA StartStep ==
  ASSUME ProbeInvariant, NEW p \in Probes, StartProbe(p)
  PROVE  ProbeInvariant'
<1> USE DEF ProbeInvariant, StartProbe
<1>2. Begins({p} \X Servers)
  BY ProbeBegins
<1>3. ProbeTypeOK'
  BY <1>2 DEF ProbeTypeOK, Stages, Begins
<1>4. UsedIsUp'
  BY <1>2 DEF Begins, ProbeTypeOK, UsedIsUp
<1>5. ASSUME NEW q \in asked', NEW s \in Servers
      PROVE  /\ s \in servers => s \in met'[q].up
             /\ s \notin servers => s \in met'[q].down
             /\ task'[<<q, s>>] \in {"release", "up"} => s \in met'[q].up
             /\ task'[<<q, s>>] \in {"broken", "down"} => s \in met'[q].down
             /\ task'[<<q, s>>] \notin {"begin", "redis"}
  <2>1. <<q, s>> \in Tasks /\ q \in Probes
    BY TasksOfProbes DEF ProbeTypeOK
  <2>2. CASE q = p
    <3>1. task'[<<q, s>>] \in {"waiting", "query"}
      BY <1>2, <2>1, <2>2 DEF Begins
    <3>2. met'[q] = [up |-> servers, down |-> Servers \ servers]
      BY <2>1, <2>2 DEF ProbeTypeOK
    <3> QED
      BY <3>1, <3>2
  <2>3. CASE q # p
    <3>1. task'[<<q, s>>] = task[<<q, s>>] /\ met'[q] = met[q] /\ q \in asked
      BY <1>2, <2>1, <2>3 DEF ProbeTypeOK, Begins
    <3> QED
      BY <3>1 DEF MetAsFound
  <2> QED
    BY <2>2, <2>3
<1> QED
  BY <1>3, <1>4, <1>5 DEF MetAsFound

\* Servers go and come, and every call under way meets them.
LEMMA ServerStep ==
  ASSUME ProbeInvariant, NEW x \in Servers, GoesDown(x) \/ ComesBack(x)
  PROVE  ProbeInvariant'
<1> USE DEF ProbeInvariant
<1>1. ProbeTypeOK'
  BY DEF ProbeTypeOK, GoesDown, ComesBack, Stages
<1>2. UsedIsUp'
  BY DEF ProbeTypeOK, UsedIsUp, GoesDown, ComesBack
<1>3. ASSUME NEW p \in asked', NEW s \in Servers
      PROVE  /\ s \in servers' => s \in met'[p].up
             /\ s \notin servers' => s \in met'[p].down
             /\ task'[<<p, s>>] \in {"release", "up"} => s \in met'[p].up
             /\ task'[<<p, s>>] \in {"broken", "down"} => s \in met'[p].down
             /\ task'[<<p, s>>] \notin {"begin", "redis"}
  <2>1. <<p, s>> \in Tasks /\ p \in Probes /\ p \in asked
    BY TasksOfProbes DEF ProbeTypeOK, GoesDown, ComesBack
  <2>2. CASE GoesDown(x)
    <3>1. met'[p].up = met[p].up /\ met'[p].down = met[p].down \cup {x}
      BY <2>1, <2>2 DEF GoesDown, ProbeTypeOK
    <3>2. task'[<<p, s>>] = task[<<p, s>>] \/ (task'[<<p, s>>] = "broken" /\ s = x)
      BY <2>1, <2>2 DEF GoesDown, ProbeTypeOK
    <3> QED
      BY <2>1, <2>2, <3>1, <3>2 DEF MetAsFound, GoesDown
  <2>3. CASE ComesBack(x)
    <3>1. met'[p].down = met[p].down /\ met'[p].up = met[p].up \cup {x}
      BY <2>1, <2>3 DEF ComesBack, ProbeTypeOK
    <3> QED
      BY <2>1, <2>3, <3>1 DEF MetAsFound, ComesBack
  <2> QED
    BY <2>2, <2>3
<1> QED
  BY <1>1, <1>2, <1>3 DEF MetAsFound

LEMMA AnswerStep ==
  ASSUME ProbeInvariant, NEW p \in Probes, AnswerProbe(p)
  PROVE  ProbeInvariant'
<1> USE DEF ProbeInvariant, AnswerProbe
<1>1. ProbeTypeOK' /\ UsedIsUp'
  BY DEF ProbeTypeOK, UsedIsUp, Stages, NothingMet
<1>2. ASSUME NEW q \in asked', NEW s \in Servers
      PROVE  q \in asked /\ met'[q] = met[q] /\ task'[<<q, s>>] = task[<<q, s>>]
  BY TasksOfProbes DEF ProbeTypeOK
<1> QED
  BY <1>1, <1>2, SMTT(30) DEF MetAsFound

LEMMA ProbeInvariantHolds == PoolSpec => []ProbeInvariant
<1>1. PoolInit => ProbeInvariant
  BY DEF PoolInit, ProbeInvariant, ProbeTypeOK, UsedIsUp, MetAsFound, Stages, NothingMet
<1>2. ProbeInvariant /\ [PoolNext]_poolVars => ProbeInvariant'
  <2> SUFFICES ASSUME ProbeInvariant, [PoolNext]_poolVars PROVE ProbeInvariant'
    OBVIOUS
  <2>1. ASSUME NEW w \in Slots, TakeSlot(w) PROVE ProbeInvariant'
    <3>1. UNCHANGED <<servers, asked, met>> /\ w \notin Probes
      BY <2>1 DEF TakeSlot
    <3>2. \A t \in {<<w, "master">>} : t[1] \notin Probes /\ Pooled(t)
      BY <3>1
    <3> QED
      BY <2>1, <3>1, <3>2, SlotBegins, OthersBegin
  <2>2. ASSUME NEW c \in Checks, StartCheck(c) PROVE ProbeInvariant'
    <3>1. UNCHANGED <<servers, asked, met>> /\ c \notin Probes
      BY <2>2 DEF StartCheck
    <3> QED
      BY <2>2, <3>1, CheckBegins, OthersBegin, ZenonT(60)
  <2>3. CASE UNCHANGED poolVars
    BY <2>3 DEF ProbeInvariant, ProbeTypeOK, UsedIsUp, MetAsFound
  <2> QED
    BY <2>1, <2>2, <2>3, UseStep, StartStep, ServerStep, AnswerStep DEF PoolNext
<1> QED
  BY <1>1, <1>2, PTL DEF PoolSpec

\* GET health/ready never reports what was not so during its call: 200 means
\* that primary, replica, cache and data were all met up, 503 that one was down.
THEOREM ReadinessIsTrue == PoolSpec => []ReadyIsTrue
<1>1. ProbeInvariant => ReadyIsTrue
  BY DEF ProbeInvariant, ProbeTypeOK, MetAsFound, ReadyIsTrue, Decided, Verdict, Over
<1> QED
  BY <1>1, ProbeInvariantHolds, PTL

-----------------------------------------------------------------------------
(* Connections *)

\* Nothing of a call that is not under way is open.
AskedOnly == \A p \in Probes : p \notin asked => \A s \in Servers : task[<<p, s>>] = "up"

\* Only who asks a pool waits and gives back, and only worker slots, on the
\* primary, begin a transaction.
UsesPool == \A t \in Tasks :
  /\ task[t] \in {"waiting", "begin", "broken", "redis", "release"} => Pooled(t)
  /\ task[t] = "begin" => ServerOf(t) = "master"

LendingTypeOK ==
  /\ out \in [Roles -> 0..PoolSize]
  /\ stuck \in 0..MaxStuck
  /\ outages \in Nat

Lending == AskedOnly /\ UsesPool /\ LendingTypeOK /\ LentAccounted
LendingInvariant == ProbeInvariant /\ Lending

LEMMA TasksFinite == IsFiniteSet(Tasks)
<1>1. IsFiniteSet({"master"}) /\ IsFiniteSet({"slave"}) /\ IsFiniteSet({"cache"}) /\ IsFiniteSet({"data"})
  BY FS_Singleton
<1>2. Roles = {"master"} \cup {"slave"} /\ Servers = (Roles \cup {"cache"}) \cup {"data"}
  OBVIOUS
<1>3. IsFiniteSet(Roles)
  <2>1. IsFiniteSet({"master"} \cup {"slave"})
    BY <1>1, FS_Union
  <2> QED
    BY <2>1, <1>2
<1>4. IsFiniteSet(Roles \cup {"cache"})
  BY <1>1, <1>3, FS_Union
<1>5. IsFiniteSet(Servers)
  <2>1. IsFiniteSet((Roles \cup {"cache"}) \cup {"data"})
    BY <1>1, <1>4, FS_Union
  <2> QED
    BY <2>1, <1>2
<1>6. IsFiniteSet(Slots \X {"master"}) /\ IsFiniteSet(Probes \X Servers) /\ IsFiniteSet(Checks \X Roles)
  BY <1>1, <1>3, <1>5, FS_Product
<1>7. IsFiniteSet((Slots \X {"master"}) \cup (Probes \X Servers))
  BY <1>6, FS_Union
<1> QED
  BY <1>6, <1>7, FS_Union DEF Tasks

LEMMA HoldersFinite ==
  ASSUME NEW s
  PROVE  IsFiniteSet(Holders(s)) /\ Cardinality(Holders(s)) \in Nat
BY TasksFinite, FS_Subset, FS_CardinalityType DEF Holders

\* Whoever holds a connection goes on to hold it, and nobody else gets one.
LEMMA SameHolders ==
  ASSUME LentAccounted, UNCHANGED <<out, stuck>>, \A t \in Tasks : Holds(t)' <=> Holds(t)
  PROVE  LentAccounted'
<1>1. ASSUME NEW s \in Roles PROVE Holders(s)' = Holders(s)
  BY DEF Holders
<1> QED
  BY <1>1 DEF LentAccounted

LEMMA OneLent ==
  ASSUME LentAccounted, out \in [Roles -> Int], stuck \in Nat, NEW t \in Tasks, NEW r \in Roles, ServerOf(t) = r,
         ~Holds(t), Holds(t)', \A x \in Tasks \ {t} : Holds(x)' <=> Holds(x),
         out' = [out EXCEPT ![r] = @ + 1], UNCHANGED stuck
  PROVE  LentAccounted'
<1>1. ASSUME NEW s \in Roles PROVE Holders(s)' = IF s = r THEN Holders(s) \cup {t} ELSE Holders(s)
  BY DEF Holders
<1>2. t \notin Holders(r)
  BY DEF Holders
<1> DEFINE before == Cardinality(Holders(r))
           after == Cardinality(Holders(r) \cup {t})
<1>3. after = before + 1 /\ before \in Nat
  BY <1>2, HoldersFinite, FS_AddElement
<1>4. Cardinality(Holders(r)') = after /\ \A s \in Roles \ {r} : Cardinality(Holders(s)') = Cardinality(Holders(s))
  BY <1>1
<1> HIDE DEF before, after
<1>5. out[r] = before + (IF r = "master" THEN stuck ELSE 0)
  BY DEF LentAccounted, before
<1> QED
  BY <1>3, <1>4, <1>5 DEF LentAccounted

LEMMA OneGivenBack ==
  ASSUME LentAccounted, out \in [Roles -> Int], stuck \in Nat, NEW t \in Tasks, NEW r \in Roles,
         ServerOf(t) = r, Holds(t), ~Holds(t)', \A x \in Tasks \ {t} : Holds(x)' <=> Holds(x),
         \/ out' = [out EXCEPT ![r] = @ - 1] /\ UNCHANGED stuck
         \/ r = "master" /\ UNCHANGED out /\ stuck' = stuck + 1
  PROVE  LentAccounted' /\ out[r] > 0
<1>1. ASSUME NEW s \in Roles PROVE Holders(s)' = IF s = r THEN Holders(s) \ {t} ELSE Holders(s)
  BY DEF Holders
<1>2. t \in Holders(r)
  BY DEF Holders
<1> DEFINE before == Cardinality(Holders(r))
           after == Cardinality(Holders(r) \ {t})
<1>3. after = before - 1 /\ before \in Nat /\ after \in Nat
  <2>1. IsFiniteSet(Holders(r)) /\ before \in Nat
    BY HoldersFinite
  <2>2. IsFiniteSet(Holders(r) \ {t}) /\ after = before - 1
    BY <1>2, <2>1, FS_RemoveElement
  <2> QED
    BY <2>1, <2>2, FS_CardinalityType
<1>4. Cardinality(Holders(r)') = after /\ \A s \in Roles \ {r} : Cardinality(Holders(s)') = Cardinality(Holders(s))
  BY <1>1
<1> HIDE DEF before, after
<1>5. out[r] = before + (IF r = "master" THEN stuck ELSE 0)
  BY DEF LentAccounted, before
<1>6. LentAccounted'
  BY <1>3, <1>4, <1>5 DEF LentAccounted
<1> QED
  BY <1>3, <1>5, <1>6

\* Of a task that moves, whether it held a connection and does now is all.
LEMMA UseLends ==
  ASSUME LendingInvariant, NEW t \in Tasks, Connect(t) \/ Uses(t) \/ BeginFails(t)
  PROVE  LentAccounted' /\ out' \in [Roles -> 0..PoolSize] /\ UsesPool'
<1> USE DEF LendingInvariant, Lending
<1>1. /\ task \in [Tasks -> Stages] /\ out \in [Roles -> 0..PoolSize] /\ stuck \in Nat
      /\ PoolSize \in Nat /\ out \in [Roles -> Int]
  BY DEF LendingTypeOK, ProbeInvariant, ProbeTypeOK
<1>2. ASSUME NEW to, GoOn(t, to)
      PROVE  /\ task'[t] = to /\ \A x \in Tasks \ {t} : Holds(x)' <=> Holds(x)
             /\ /\ to \in {"waiting", "begin", "broken", "redis", "release"} => Pooled(t)
                /\ to = "begin" => ServerOf(t) = "master"
                => UsesPool'
  BY <1>1, <1>2 DEF GoOn, Holds, UsesPool
<1>3. t[1] \in Slots => ServerOf(t) = "master"
  BY DEF Tasks
<1>4. CASE Connect(t)
  <2> DEFINE to == IF t[1] \in Slots THEN "begin" ELSE "query"
  <2>1. task[t] = "waiting" /\ GoOn(t, to) /\ to \in {"begin", "query"} /\ (to = "begin" => t[1] \in Slots)
    BY <1>4 DEF Connect, Served
  <2>2. Pooled(t)
    BY <2>1 DEF UsesPool
  <2>3. ~Holds(t) /\ Holds(t)' /\ UsesPool'
    BY <1>2, <1>3, <2>1, <2>2 DEF Holds
  <2>4. /\ ServerOf(t) \in Roles /\ out[ServerOf(t)] < PoolSize /\ UNCHANGED stuck
        /\ out' = [out EXCEPT ![ServerOf(t)] = @ + 1]
    BY <1>4, <2>2 DEF Connect, Served
  <2>5. LentAccounted'
    BY <1>1, <1>2, <2>1, <2>3, <2>4, OneLent
  <2> QED
    BY <1>1, <2>3, <2>4, <2>5
<1>5. CASE ConnectFails(t)
  <2>1. task[t] = "waiting" /\ \E to \in {"up", "down"} : GoOn(t, to)
    BY <1>5 DEF ConnectFails, Served, FoundDown
  <2>2. UsesPool' /\ \A x \in Tasks : Holds(x)' <=> Holds(x)
    BY <1>2, <2>1 DEF Holds
  <2> QED
    BY <1>1, <1>5, <2>2, SameHolders DEF ConnectFails
<1>6. CASE Begin(t) \/ RedisAnswers(t)
  <2>1. UsesPool' /\ \A x \in Tasks : Holds(x)' <=> Holds(x)
    BY <1>2, <1>6 DEF Holds, Begin, RedisAnswers, UsesPool
  <2> QED
    BY <1>1, <1>6, <2>1, SameHolders DEF Begin, RedisAnswers
<1>7. CASE Succeed(t)
  <2>1. /\ task[t] = "query"
        /\ Pooled(t) => \E to \in {"redis", "release"} : GoOn(t, to)
        /\ ~Pooled(t) => GoOn(t, "up")
    BY <1>7 DEF Succeed
  <2>2. UsesPool' /\ \A x \in Tasks : Holds(x)' <=> Holds(x)
    BY <1>2, <2>1 DEF Holds
  <2> QED
    BY <1>1, <1>7, <2>2, SameHolders DEF Succeed
\* What a task gives back, or leaves stuck, it held.
<1>8. ASSUME Holds(t), NEW to \in {"up", "down"}, GoOn(t, to),
             \/ out' = [out EXCEPT ![ServerOf(t)] = @ - 1] /\ UNCHANGED stuck
             \/ ServerOf(t) = "master" /\ UNCHANGED out /\ stuck' = stuck + 1
      PROVE  LentAccounted' /\ out' \in [Roles -> 0..PoolSize] /\ UsesPool'
  <2>1. ServerOf(t) \in Roles /\ ~Holds(t)' /\ UsesPool'
    BY <1>2, <1>8 DEF Holds
  <2>2. LentAccounted' /\ out[ServerOf(t)] > 0
    BY <1>1, <1>2, <1>8, <2>1, OneGivenBack
  <2> QED
    BY <1>1, <1>8, <2>1, <2>2
<1>9. CASE Release(t)
  BY <1>8, <1>9 DEF Release, Holds, UsesPool
<1>10. CASE BeginFails(t)
  BY <1>8, <1>10 DEF BeginFails, FoundDown, Holds, UsesPool
<1>11. CASE Fail(t)
  <2>1. Pooled(t) => Holds(t)
    BY <1>11 DEF Fail, Unanswered, Holds
  <2>2. CASE t[1] \in Slots
    <3>1. Pooled(t) /\ (\E to \in {"redis", "release"} : GoOn(t, to)) /\ UNCHANGED <<out, stuck>>
      BY <1>3, <1>11, <2>2 DEF Fail
    <3>2. UsesPool' /\ \A x \in Tasks : Holds(x)' <=> Holds(x)
      BY <1>2, <2>1, <3>1 DEF Holds
    <3> QED
      BY <1>1, <3>1, <3>2, SameHolders
  <2>3. CASE t[1] \notin Slots /\ Pooled(t)
    BY <1>8, <1>11, <2>1, <2>3 DEF Fail, FoundDown
  <2>4. CASE t[1] \notin Slots /\ ~Pooled(t)
    <3>1. (\E to \in {"up", "down"} : GoOn(t, to)) /\ UNCHANGED <<out, stuck>>
      BY <1>11, <2>4 DEF Fail, FoundDown
    <3>2. UsesPool' /\ \A x \in Tasks : Holds(x)' <=> Holds(x)
      BY <1>2, <2>4, <3>1 DEF Holds
    <3> QED
      BY <1>1, <3>1, <3>2, SameHolders
  <2> QED
    BY <2>2, <2>3, <2>4
<1> QED
  BY <1>4, <1>5, <1>6, <1>7, <1>9, <1>10, <1>11 DEF Uses

LEMMA UseKeepsLending ==
  ASSUME LendingInvariant, NEW t \in Tasks, Connect(t) \/ Uses(t) \/ BeginFails(t)
  PROVE  Lending'
<1> USE DEF LendingInvariant, Lending
<1>1. task[t] # "up" /\ UNCHANGED <<asked, outages>> /\ \E to : GoOn(t, to)
  BY DEF Connect, Served, Uses, ConnectFails, Begin, BeginFails, Succeed, Fail, FoundDown,
         Unanswered, RedisAnswers, Release
<1>2. stuck' \in 0..MaxStuck
  BY DEF LendingTypeOK, Connect, Uses, ConnectFails, Begin, BeginFails, Succeed, Fail, RedisAnswers, Release
<1>3. AskedOnly'
  BY <1>1, TasksOfProbes, ZenonT(60) DEF AskedOnly, GoOn, ProbeInvariant, ProbeTypeOK
<1>4. LendingTypeOK'
  BY <1>1, <1>2, UseLends DEF LendingTypeOK
<1> QED
  BY <1>3, <1>4, UseLends

\* What begins held nothing, and holds nothing yet.
LEMMA BeginningLends ==
  ASSUME LendingInvariant, NEW new \in SUBSET Tasks, \A t \in new : Over(t), Begins(new),
         UNCHANGED <<out, stuck>>
  PROVE  LentAccounted' /\ UsesPool'
<1>1. \A t \in Tasks : task'[t] = IF t \notin new THEN task[t]
                                 ELSE IF Pooled(t) THEN "waiting" ELSE "query"
  BY DEF Begins
<1>2. \A t \in Tasks : Holds(t)' <=> Holds(t)
  BY <1>1 DEF Holds, Over
<1>3. UsesPool'
  BY <1>1 DEF UsesPool, LendingInvariant, Lending
<1> QED
  BY <1>2, <1>3, SameHolders DEF LendingInvariant, Lending

LEMMA OthersKeepLending ==
  ASSUME LendingInvariant, NEW who,
         (who \in Slots /\ TakeSlot(who)) \/ (who \in Checks /\ StartCheck(who))
  PROVE  Lending'
<1> USE DEF LendingInvariant, Lending
<1>1. PICK new \in SUBSET Tasks : Begins(new) /\ \A t \in new : Over(t) /\ t[1] = who
  <2>1. CASE who \in Slots /\ TakeSlot(who)
    <3>1. \A t \in {<<who, "master">>} : Over(t) /\ t[1] = who
      BY <2>1 DEF TakeSlot
    <3>2. Begins({<<who, "master">>}) /\ {<<who, "master">>} \in SUBSET Tasks
      BY <2>1, SlotBegins
    <3> QED
      BY <3>1, <3>2
  <2>2. CASE who \in Checks /\ StartCheck(who)
    <3>1. \A t \in {who} \X Roles : Over(t) /\ t[1] = who
      <4> SUFFICES ASSUME NEW t \in {who} \X Roles PROVE Over(t) /\ t[1] = who
        OBVIOUS
      <4>1. PICK s \in Roles : t = <<who, s>>
        OBVIOUS
      <4> QED
        BY <2>2, <4>1 DEF StartCheck
    <3>2. Begins({who} \X Roles) /\ {who} \X Roles \in SUBSET Tasks
      BY <2>2, CheckBegins
    <3> QED
      BY <3>1, <3>2
  <2> QED
    BY <2>1, <2>2
<1>2. UNCHANGED <<out, stuck, asked, outages>> /\ who \notin Probes
  BY DEF TakeSlot, StartCheck
<1>3. AskedOnly'
  BY <1>1, <1>2, TasksOfProbes DEF AskedOnly, Begins
<1>4. LentAccounted' /\ UsesPool'
  BY <1>1, <1>2, BeginningLends
<1> QED
  BY <1>2, <1>3, <1>4 DEF LendingTypeOK

LEMMA ProbeKeepsLending ==
  ASSUME LendingInvariant, NEW p \in Probes, StartProbe(p)
  PROVE  Lending'
<1> USE DEF LendingInvariant, Lending
<1>1. Begins({p} \X Servers) /\ {p} \X Servers \subseteq Tasks
  BY ProbeBegins
<1>2. UNCHANGED <<out, stuck, outages>> /\ asked' = asked \cup {p} /\ p \notin asked
  BY DEF StartProbe
<1>3. ASSUME NEW t \in {p} \X Servers PROVE Over(t)
  <2>1. PICK s \in Servers : t = <<p, s>>
    OBVIOUS
  <2> QED
    BY <1>2, <2>1 DEF AskedOnly, Over
<1>4. AskedOnly'
  BY <1>1, <1>2, TasksOfProbes DEF AskedOnly, Begins
<1>5. LentAccounted' /\ UsesPool'
  BY <1>1, <1>2, <1>3, BeginningLends
<1> QED
  BY <1>2, <1>4, <1>5 DEF LendingTypeOK

LEMMA AnswerKeepsLending ==
  ASSUME LendingInvariant, NEW p \in Probes, AnswerProbe(p)
  PROVE  Lending'
<1> USE DEF LendingInvariant, Lending
<1>1. \A t \in Tasks : task'[t] = IF t[1] = p THEN "up" ELSE task[t]
  BY DEF AnswerProbe
<1>2. UNCHANGED <<out, stuck, outages>> /\ asked' = asked \ {p}
  BY DEF AnswerProbe
<1>3. \A t \in Tasks : t[1] = p => Over(t)
  BY DEF Tasks, AnswerProbe, Decided
<1>4. \A t \in Tasks : Holds(t)' <=> Holds(t)
  BY <1>1, <1>3 DEF Holds, Over
<1>5. AskedOnly'
  BY <1>1, <1>2, TasksOfProbes DEF AskedOnly
<1>6. UsesPool'
  BY <1>1 DEF UsesPool
<1> QED
  BY <1>2, <1>4, <1>5, <1>6, SameHolders DEF LendingTypeOK

LEMMA ServerKeepsLending ==
  ASSUME LendingInvariant, NEW s \in Servers, GoesDown(s) \/ ComesBack(s)
  PROVE  Lending'
<1> USE DEF LendingInvariant, Lending
<1>1. task \in [Tasks -> Stages]
  BY DEF ProbeInvariant, ProbeTypeOK
<1>2. \A t \in Tasks : task'[t] = task[t] \/ (Pooled(t) /\ task[t] \in {"begin", "query"} /\ task'[t] = "broken")
  BY <1>1 DEF GoesDown, ComesBack
<1>3. UNCHANGED <<out, stuck, asked>> /\ outages' \in Nat
  BY DEF GoesDown, ComesBack, LendingTypeOK
<1>4. \A t \in Tasks : Holds(t)' <=> Holds(t)
  BY <1>2 DEF Holds
<1>5. AskedOnly'
  <2> SUFFICES ASSUME NEW p \in Probes, p \notin asked, NEW x \in Servers
               PROVE  task'[<<p, x>>] = "up"
    BY <1>3 DEF AskedOnly
  <2>1. <<p, x>> \in Tasks /\ task[<<p, x>>] = "up"
    BY TasksOfProbes DEF AskedOnly
  <2> QED
    BY <1>2, <2>1
<1>6. UsesPool'
  BY <1>2 DEF UsesPool
<1> QED
  BY <1>3, <1>4, <1>5, <1>6, SameHolders DEF LendingTypeOK

LEMMA LendingInvariantHolds == PoolSpec => []LendingInvariant
<1>1. PoolInit => LendingInvariant
  <2> SUFFICES ASSUME PoolInit PROVE LendingInvariant
    OBVIOUS
  <2>1. ProbeInvariant
    BY DEF PoolInit, ProbeInvariant, ProbeTypeOK, UsedIsUp, MetAsFound, Stages, NothingMet
  <2>2. AskedOnly /\ UsesPool /\ LendingTypeOK
    BY TasksOfProbes DEF PoolInit, AskedOnly, UsesPool, LendingTypeOK
  <2>3. ASSUME NEW s \in Roles PROVE Cardinality(Holders(s)) = 0
    <3>1. Holders(s) = {}
      BY DEF PoolInit, Holders, Holds
    <3> QED
      BY <3>1, FS_EmptySet
  <2>4. LentAccounted
    BY <2>3 DEF PoolInit, LentAccounted
  <2> QED
    BY <2>1, <2>2, <2>4 DEF LendingInvariant, Lending
<1>2. LendingInvariant /\ [PoolNext]_poolVars => Lending'
  <2> SUFFICES ASSUME LendingInvariant, [PoolNext]_poolVars PROVE Lending'
    OBVIOUS
  <2>1. ASSUME NEW w \in Slots, TakeSlot(w) PROVE Lending'
    BY <2>1, OthersKeepLending
  <2>2. ASSUME NEW c \in Checks, StartCheck(c) PROVE Lending'
    BY <2>2, OthersKeepLending
  <2>3. CASE UNCHANGED poolVars
    <3>1. \A t \in Tasks : Holds(t)' <=> Holds(t)
      BY <2>3 DEF Holds
    <3> QED
      BY <2>3, <3>1, SameHolders DEF LendingInvariant, Lending, LendingTypeOK, AskedOnly, UsesPool
  <2> QED
    BY <2>1, <2>2, <2>3, UseKeepsLending, ProbeKeepsLending, AnswerKeepsLending, ServerKeepsLending
       DEF PoolNext
<1>3. ProbeInvariant /\ Lending <=> LendingInvariant
  BY DEF LendingInvariant
<1> QED
  BY <1>1, <1>2, <1>3, ProbeInvariantHolds, PTL DEF PoolSpec

\* Whatever fails, each connection of a pool is idle, in the hands of exactly one
\* task, or stuck by a BEGIN that failed: none is lost otherwise, or given back
\* twice.  And the readiness probe tells the truth.
THEOREM PoolInvariantHolds == PoolSpec => []PoolInvariant
<1>1. LendingInvariant => PoolTypeOK /\ LentAccounted
  BY DEF LendingInvariant, Lending, LendingTypeOK, ProbeInvariant, ProbeTypeOK, PoolTypeOK, Stages
<1> QED
  BY <1>1, LendingInvariantHolds, ReadinessIsTrue, PTL DEF PoolInvariant
=============================================================================
