--------------------------- MODULE MetricsProofs ---------------------------
(***************************************************************************)
(* No count is counted twice or forgotten, no reading overstates, SIGTERM  *)
(* loses nothing that its last flush could save, and a reset leaves        *)
(* nothing behind that its own process counted before: for any number of   *)
(* processes, counts, readers and faults.                                  *)
(***************************************************************************)
EXTENDS Observability, FiniteSetTheorems, SequenceTheorems, TLAPS

(* The commands on a connection *)

Batches(s) == UNION {s[k].batch : k \in {n \in DOMAIN s : s[n].op = "incr"}}
Carried(c) == IF c.op = "incr" THEN c.batch ELSE {}
Disjoint(s) == \A k, m \in DOMAIN s :
  k # m /\ s[k].op = "incr" /\ s[m].op = "incr" => s[k].batch \cap s[m].batch = {}

LEMMA InBatches ==
  ASSUME NEW s, NEW e
  PROVE  e \in Batches(s) <=> \E k \in DOMAIN s : s[k].op = "incr" /\ e \in s[k].batch
BY DEF Batches

\* Nothing is carried by an idle connection.
LEMMA IdleConnection ==
  Batches(<< >>) = {} /\ Disjoint(<< >>) /\ << >> \in Seq(Commands)
BY InBatches DEF Disjoint

\* A command more.
LEMMA Sending ==
  ASSUME NEW s \in Seq(Commands), NEW c \in Commands
  PROVE  /\ Append(s, c) \in Seq(Commands)
         /\ Batches(Append(s, c)) = Batches(s) \cup Carried(c)
         /\ Disjoint(s) /\ Carried(c) \cap Batches(s) = {} => Disjoint(Append(s, c))
<1> DEFINE t == Append(s, c)
<1>1. /\ t \in Seq(Commands) /\ Len(t) = Len(s) + 1 /\ t[Len(s) + 1] = c
      /\ \A k \in 1..Len(s) : t[k] = s[k]
      /\ DOMAIN s = 1..Len(s) /\ DOMAIN t = 1..(Len(s) + 1)
  BY AppendProperties
<1> HIDE DEF t
<1>2. ASSUME NEW e PROVE e \in Batches(t) <=> e \in Batches(s) \/ e \in Carried(c)
  <2>1. \A k : k \in DOMAIN t <=> k \in DOMAIN s \/ k = Len(s) + 1
    BY <1>1
  <2> QED
    BY <1>1, <2>1, InBatches DEF Carried
<1>3. ASSUME Disjoint(s), Carried(c) \cap Batches(s) = {} PROVE Disjoint(t)
  <2> SUFFICES ASSUME NEW k \in DOMAIN t, NEW m \in DOMAIN t, k # m,
                      t[k].op = "incr", t[m].op = "incr", NEW e \in t[k].batch, e \in t[m].batch
               PROVE  FALSE
    BY DEF Disjoint
  <2>1. CASE k \in DOMAIN s /\ m \in DOMAIN s
    BY <1>1, <1>3, <2>1 DEF Disjoint
  <2>2. CASE k = Len(s) + 1
    <3>1. m \in DOMAIN s /\ t[m] = s[m] /\ t[k] = c
      BY <1>1, <2>2
    <3> QED
      BY <1>3, <3>1, InBatches DEF Carried
  <2>3. CASE m = Len(s) + 1
    <3>1. k \in DOMAIN s /\ t[k] = s[k] /\ t[m] = c
      BY <1>1, <2>3
    <3> QED
      BY <1>3, <3>1, InBatches DEF Carried
  <2> QED
    BY <1>1, <2>1, <2>2, <2>3
<1> QED
  BY <1>1, <1>2, <1>3 DEF t

\* A command less.
LEMMA Answering ==
  ASSUME NEW s \in Seq(Commands), s # << >>
  PROVE  /\ Tail(s) \in Seq(Commands) /\ Head(s) \in Commands
         /\ Batches(s) = Batches(Tail(s)) \cup Carried(Head(s))
         /\ Disjoint(s) => Disjoint(Tail(s)) /\ Carried(Head(s)) \cap Batches(Tail(s)) = {}
<1> DEFINE t == Tail(s)
<1>1. /\ t \in Seq(Commands) /\ Head(s) \in Commands /\ Head(s) = s[1] /\ Len(s) \in Nat \ {0}
      /\ DOMAIN s = 1..Len(s) /\ DOMAIN t = 1..(Len(s) - 1)
      /\ \A k \in 1..(Len(s) - 1) : t[k] = s[k + 1]
  BY HeadTailProperties
<1> HIDE DEF t
<1>2. \A k \in DOMAIN t : k + 1 \in DOMAIN s /\ k + 1 # 1 /\ t[k] = s[k + 1]
  BY <1>1
<1>3. \A k \in DOMAIN s : k = 1 \/ (k - 1 \in DOMAIN t /\ t[k - 1] = s[k])
  BY <1>1
<1>4. 1 \in DOMAIN s
  BY <1>1
<1>5. ASSUME NEW e PROVE e \in Batches(s) <=> e \in Batches(t) \/ e \in Carried(Head(s))
  <2>1. e \in Batches(s) => e \in Batches(t) \/ e \in Carried(Head(s))
    BY <1>1, <1>3, InBatches, SMTT(30) DEF Carried
  <2>2. e \in Batches(t) => e \in Batches(s)
    BY <1>2, InBatches
  <2>3. e \in Carried(Head(s)) => e \in Batches(s)
    BY <1>1, <1>4, InBatches DEF Carried
  <2> QED
    BY <2>1, <2>2, <2>3
<1>6. ASSUME Disjoint(s) PROVE Disjoint(t) /\ Carried(Head(s)) \cap Batches(t) = {}
  <2>1. Disjoint(t)
    <3> SUFFICES ASSUME NEW k \in DOMAIN t, NEW m \in DOMAIN t, k # m
                 PROVE  k + 1 # m + 1
      BY <1>2, <1>6 DEF Disjoint
    <3> QED
      BY <1>1
  <2>2. ASSUME NEW e \in Batches(t) PROVE e \notin Carried(Head(s))
    BY <1>1, <1>2, <1>4, <1>6, <2>2, InBatches DEF Carried, Disjoint
  <2> QED
    BY <2>1, <2>2
<1> QED
  BY <1>1, <1>5, <1>6 DEF t

-----------------------------------------------------------------------------
(* Where the counts are *)

USE MetricsAssumption

LEMMA OnTheWayIs == \A i : OnTheWay(i) = Batches(sent[i]) /\ OnTheWay(i)' = Batches(sent'[i])
BY DEF OnTheWay, Batches

\* Sending and answering, told by what they do to the counts on their way.
LEMMA SendMoves ==
  ASSUME sent \in [Instances -> Seq(Commands)], NEW i \in Instances,
         NEW op \in {"incr", "get", "del"}, NEW batch \in SUBSET Events,
         NEW p \in Readers \cup {None}, Send(i, op, batch, p)
  PROVE  /\ sent' \in [Instances -> Seq(Commands)]
         /\ OnTheWay(i)' = OnTheWay(i) \cup (IF op = "incr" THEN batch ELSE {})
         /\ \A j \in Instances \ {i} : OnTheWay(j)' = OnTheWay(j)
         /\ (\A j \in Instances : Disjoint(sent[j])) /\ (op = "incr" => batch \cap OnTheWay(i) = {})
              => \A j \in Instances : Disjoint(sent'[j])
<1> DEFINE c == [op |-> op, batch |-> batch, by |-> p]
<1>1. c \in Commands /\ Carried(c) = IF op = "incr" THEN batch ELSE {}
  BY DEF Commands, Carried
<1>2. sent' = [sent EXCEPT ![i] = Append(sent[i], c)]
  BY DEF Send
<1> HIDE DEF c
<1>3. sent[i] \in Seq(Commands)
  OBVIOUS
<1> DEFINE t == Append(sent[i], c)
<1>4. /\ t \in Seq(Commands) /\ Batches(t) = Batches(sent[i]) \cup Carried(c)
      /\ Disjoint(sent[i]) /\ Carried(c) \cap Batches(sent[i]) = {} => Disjoint(t)
  BY <1>1, <1>3, Sending
<1> HIDE DEF t
<1>5. sent' \in [Instances -> Seq(Commands)] /\ sent'[i] = t /\ \A j \in Instances \ {i} : sent'[j] = sent[j]
  BY <1>2, <1>4 DEF t
<1> QED
  BY <1>1, <1>4, <1>5, OnTheWayIs

LEMMA AnswerMoves ==
  ASSUME sent \in [Instances -> Seq(Commands)], NEW i \in Instances, NEW op, Next1(i, op), Answer(i)
  PROVE  /\ sent' \in [Instances -> Seq(Commands)]
         /\ Head(sent[i]) \in Commands /\ Head(sent[i]).op = op
         /\ OnTheWay(i) = OnTheWay(i)' \cup (IF op = "incr" THEN Head(sent[i]).batch ELSE {})
         /\ \A j \in Instances \ {i} : OnTheWay(j)' = OnTheWay(j)
         /\ (\A j \in Instances : Disjoint(sent[j])) =>
              /\ \A j \in Instances : Disjoint(sent'[j])
              /\ op = "incr" => Head(sent[i]).batch \cap OnTheWay(i)' = {}
<1> DEFINE s == sent[i]  t == Tail(s)  c == Head(s)
<1>1. s \in Seq(Commands) /\ s # << >> /\ c.op = op
  BY DEF Next1
<1>2. /\ t \in Seq(Commands) /\ c \in Commands
      /\ Batches(s) = Batches(t) \cup Carried(c)
      /\ Disjoint(s) => Disjoint(t) /\ Carried(c) \cap Batches(t) = {}
  BY <1>1, Answering
<1>3. sent' = [sent EXCEPT ![i] = t]
  BY DEF Answer
<1> HIDE DEF t, c
<1>4. sent' \in [Instances -> Seq(Commands)] /\ sent'[i] = t /\ \A j \in Instances \ {i} : sent'[j] = sent[j]
  BY <1>2, <1>3
<1>5. Carried(c) = IF op = "incr" THEN c.batch ELSE {}
  BY <1>1 DEF Carried
<1> QED
  BY <1>1, <1>2, <1>4, <1>5, OnTheWayIs DEF c

\* CountedOnce, one place at a time.
Located ==
  /\ \A i \in Instances : buffer[i] \cup OnTheWay(i) \subseteq counted
  /\ hash \subseteq counted
  /\ \A c \in Reasons : lost[c] \subseteq counted
  /\ \A e \in counted : \/ e \in hash
                        \/ \E i \in Instances : e \in buffer[i] \/ e \in OnTheWay(i)
                        \/ \E c \in Reasons : e \in lost[c]

HashApart == \A i \in Instances : hash \cap (buffer[i] \cup OnTheWay(i)) = {}
LostApart == \A c \in Reasons :
  /\ lost[c] \cap hash = {}
  /\ \A i \in Instances : lost[c] \cap (buffer[i] \cup OnTheWay(i)) = {}
OwnApart == \A i \in Instances : buffer[i] \cap OnTheWay(i) = {}
OthersApart == \A i, j \in Instances :
  i # j => (buffer[i] \cup OnTheWay(i)) \cap (buffer[j] \cup OnTheWay(j)) = {}
WireApart == \A i \in Instances : Disjoint(sent[i])

Apart == HashApart /\ LostApart /\ OwnApart /\ OthersApart /\ WireApart

\* What a reading found in the hash never returns to a buffer, not even when the
\* hash is deleted.
ReadApart == \A p \in Readers :
  /\ reader[p].stage # "none" => reader[p].at \in Instances
  /\ reader[p].stage = "answered" =>
       /\ reader[p].stored \subseteq counted
       /\ \A i \in Instances : reader[p].stored \cap (buffer[i] \cup OnTheWay(i)) = {}

\* After its last flush a process has nothing in its buffer but what is excused.
StoppingExcused == \A i \in Instances : up[i] = "stopping" => buffer[i] \subseteq excused

MetricsInvariant ==
  /\ MetricsTypeOK /\ Located /\ Apart /\ ReadApart
  /\ StoppingExcused /\ TermKeepsCounts

\* A pipeline that is sent again ran: its counts are in the hash, unless a reset
\* deleted them, and nothing else lost them.
AgainKept == \A i \in Instances :
  /\ again[i] \subseteq hash \cup lost["killed or reset"]
  /\ again[i] \cap (lost["exited"] \cup lost["failed"]) = {}

LEMMA TypeFacts ==
  ASSUME MetricsTypeOK
  PROVE  /\ sent \in [Instances -> Seq(Commands)] /\ buffer \in [Instances -> SUBSET Events]
         /\ lost \in [Reasons -> SUBSET Events]
         /\ hash \subseteq Events /\ twice \subseteq hash
         /\ again \in [Instances -> SUBSET Events]
         /\ counted \subseteq Events /\ excused \subseteq Events /\ faults \in Nat
         /\ {"exited", "failed", "killed or reset"} = Reasons
BY DEF MetricsTypeOK, Reasons

LEMMA FaultCounted ==
  ASSUME faults \in Nat, NEW f, Fault(f)
  PROVE  faults' \in Nat
BY DEF Fault

LEMMA IncStep ==
  ASSUME MetricsInvariant, NEW i \in Instances, NEW e \in Events, Inc(i, e)
  PROVE  MetricsInvariant'
<1> USE DEF MetricsInvariant, Inc
<1>1. /\ buffer' \in [Instances -> SUBSET Events]
      /\ \A j \in Instances : OnTheWay(j)' = OnTheWay(j)
      /\ \A j \in Instances : buffer'[j] = IF j = i THEN buffer[i] \cup {e} ELSE buffer[j]
  BY TypeFacts, OnTheWayIs
<1>2. MetricsTypeOK'
  BY <1>1 DEF MetricsTypeOK
<1>3. Located'
  BY <1>1 DEF Located
<1>4. Apart'
  <2>1. HashApart' /\ OwnApart' /\ WireApart'
    BY <1>1 DEF Apart, Located, HashApart, OwnApart, WireApart
  <2>2. LostApart'
    BY <1>1 DEF Apart, Located, LostApart
  <2>3. OthersApart'
    BY <1>1 DEF Apart, Located, OthersApart
  <2> QED
    BY <2>1, <2>2, <2>3 DEF Apart
<1>5. ReadApart'
  BY <1>1 DEF ReadApart, Located
<1>6. StoppingExcused' /\ TermKeepsCounts'
  BY <1>1 DEF StoppingExcused, TermKeepsCounts
<1> QED
  BY <1>2, <1>3, <1>4, <1>5, <1>6

\* Two processes share no count, as long as neither has one more than before.
LEMMA OthersStayApart ==
  ASSUME OthersApart,
         \A j \in Instances : buffer'[j] \cup OnTheWay(j)' \subseteq buffer[j] \cup OnTheWay(j)
  PROVE  OthersApart'
<1> SUFFICES ASSUME NEW a \in Instances, NEW b \in Instances, a # b
             PROVE  (buffer'[a] \cup OnTheWay(a)') \cap (buffer'[b] \cup OnTheWay(b)') = {}
  BY DEF OthersApart
<1>1. (buffer[a] \cup OnTheWay(a)) \cap (buffer[b] \cup OnTheWay(b)) = {}
  BY DEF OthersApart
<1> QED
  BY <1>1

LEMMA TakeStep ==
  ASSUME MetricsInvariant, NEW i \in Instances, Flush(i) \/ Terminate(i)
  PROVE  MetricsInvariant'
<1> USE DEF MetricsInvariant
<1>1. /\ TakeBuffer(i)
      /\ UNCHANGED <<hash, twice, again, reader, counted, excused, lost>>
      /\ up' \in [Instances -> {"up", "stopping", "down"}] /\ faults' \in Nat
      /\ \A j \in Instances \ {i} : up'[j] = up[j]
  <2>1. CASE Flush(i)
    BY <2>1 DEF Flush, MetricsTypeOK
  <2>2. CASE Terminate(i)
    BY <2>2 DEF Terminate, Fault, MetricsTypeOK
  <2> QED
    BY <2>1, <2>2
<1>2. buffer \in [Instances -> SUBSET Events] /\ buffer' = [buffer EXCEPT ![i] = {}]
  BY <1>1, TypeFacts DEF TakeBuffer
<1>3. /\ buffer' \in [Instances -> SUBSET Events]
      /\ \A j \in Instances : buffer'[j] = IF j = i THEN {} ELSE buffer[j]
  BY <1>2
<1>4. /\ sent' \in [Instances -> Seq(Commands)]
      /\ OnTheWay(i)' = OnTheWay(i) \cup buffer[i]
      /\ \A j \in Instances \ {i} : OnTheWay(j)' = OnTheWay(j)
      /\ \A j \in Instances : Disjoint(sent'[j])
  BY <1>1, <1>2, SendMoves, TypeFacts DEF TakeBuffer, Apart, OwnApart, WireApart
<1>5. MetricsTypeOK'
  BY <1>1, <1>3, <1>4 DEF MetricsTypeOK
<1>6. Located'
  BY <1>1, <1>3, <1>4, ZenonT(60) DEF Located
<1>7. Apart'
  <2>1. HashApart'
    BY <1>1, <1>3, <1>4 DEF Apart, HashApart, OwnApart, OthersApart
  <2>2. OwnApart'
    BY <1>1, <1>3, <1>4 DEF Apart, OwnApart
  <2>3. WireApart'
    BY <1>1, <1>3, <1>4 DEF Apart, WireApart
  <2>4. LostApart'
    <3> SUFFICES ASSUME NEW c \in Reasons
                 PROVE  /\ lost'[c] \cap hash' = {}
                        /\ \A j \in Instances : lost'[c] \cap (buffer'[j] \cup OnTheWay(j)') = {}
      BY DEF LostApart
    <3>1. lost' = lost /\ hash' = hash
      BY <1>1
    <3>2. \A j \in Instances : buffer'[j] \cup OnTheWay(j)' \subseteq buffer[j] \cup OnTheWay(j)
      BY <1>3, <1>4
    <3>3. lost[c] \cap hash = {} /\ \A j \in Instances : lost[c] \cap (buffer[j] \cup OnTheWay(j)) = {}
      BY DEF Apart, LostApart
    <3> QED
      BY <3>1, <3>2, <3>3
  <2>5. OthersApart'
    <3>1. \A j \in Instances : buffer'[j] \cup OnTheWay(j)' \subseteq buffer[j] \cup OnTheWay(j)
      BY <1>3, <1>4
    <3> QED
      BY <3>1, OthersStayApart DEF Apart
  <2> QED
    BY <2>1, <2>2, <2>3, <2>4, <2>5 DEF Apart
<1>8. ReadApart'
  BY <1>1, <1>3, <1>4 DEF ReadApart
<1>9. StoppingExcused' /\ TermKeepsCounts'
  BY <1>1, <1>3 DEF StoppingExcused, TermKeepsCounts
<1> QED
  BY <1>5, <1>6, <1>7, <1>8, <1>9

\* The pipeline at the head of a connection is run: its counts arrive.
LEMMA ArriveStep ==
  ASSUME MetricsInvariant, NEW i \in Instances, Increment(i) \/ IncrementUnanswered(i)
  PROVE  MetricsInvariant'
<1> USE DEF MetricsInvariant
<1> DEFINE B == Head(sent[i]).batch
<1>1. /\ Next1(i, "incr") /\ Answer(i) /\ hash' = hash \cup B /\ twice' = twice
      /\ UNCHANGED <<up, buffer, reader, counted, excused, lost>> /\ faults' \in Nat
      /\ again' \in {again, [again EXCEPT ![i] = B]}
  <2>1. CASE Increment(i)
    BY <2>1 DEF Increment, MetricsTypeOK
  <2>2. CASE IncrementUnanswered(i)
    BY <2>2 DEF IncrementUnanswered, Fault, MetricsTypeOK
  <2> QED
    BY <2>1, <2>2
<1>2. /\ sent' \in [Instances -> Seq(Commands)]
      /\ B \subseteq Events
      /\ OnTheWay(i) = OnTheWay(i)' \cup B /\ B \cap OnTheWay(i)' = {}
      /\ \A j \in Instances \ {i} : OnTheWay(j)' = OnTheWay(j)
      /\ \A j \in Instances : Disjoint(sent'[j])
  BY <1>1, AnswerMoves, TypeFacts DEF Apart, WireApart, Commands
<1> HIDE DEF B
<1>3. MetricsTypeOK'
  BY <1>1, <1>2, TypeFacts DEF MetricsTypeOK
<1>4. Located'
  BY <1>1, <1>2, SMTT(30) DEF Located
<1>5. Apart'
  <2>1. HashApart'
    BY <1>1, <1>2 DEF Apart, HashApart, OwnApart, OthersApart
  <2>2. OwnApart'
    BY <1>1, <1>2 DEF Apart, OwnApart
  <2>3. WireApart'
    BY <1>1, <1>2 DEF Apart, WireApart
  <2>4. LostApart'
    <3> SUFFICES ASSUME NEW c \in Reasons
                 PROVE  /\ lost'[c] \cap hash' = {}
                        /\ \A j \in Instances : lost'[c] \cap (buffer'[j] \cup OnTheWay(j)') = {}
      BY DEF LostApart
    <3> QED
      BY <1>1, <1>2 DEF Apart, LostApart, HashApart, OwnApart, OthersApart
  <2>5. OthersApart'
    <3>1. \A j \in Instances : buffer'[j] \cup OnTheWay(j)' \subseteq buffer[j] \cup OnTheWay(j)
      BY <1>1, <1>2
    <3> QED
      BY <3>1, OthersStayApart DEF Apart
  <2> QED
    BY <2>1, <2>2, <2>3, <2>4, <2>5 DEF Apart
<1>6. ReadApart'
  BY <1>1, <1>2 DEF ReadApart
<1>7. StoppingExcused' /\ TermKeepsCounts'
  BY <1>1 DEF StoppingExcused, TermKeepsCounts
<1> QED
  BY <1>3, <1>4, <1>5, <1>6, <1>7

\* A pipeline that ran once is nowhere but in the hash, or deleted by a reset.
LEMMA AgainApart ==
  ASSUME MetricsInvariant, AgainKept, NEW i \in Instances, NEW j \in Instances
  PROVE  again[i] \cap (buffer[j] \cup OnTheWay(j)) = {}
<1>1. "killed or reset" \in Reasons
  BY DEF Reasons
<1>2. /\ hash \cap (buffer[j] \cup OnTheWay(j)) = {}
      /\ lost["killed or reset"] \cap (buffer[j] \cup OnTheWay(j)) = {}
  BY <1>1 DEF MetricsInvariant, Apart, HashApart, LostApart
<1>3. again[i] \subseteq hash \cup lost["killed or reset"]
  BY DEF AgainKept
<1> QED
  BY <1>2, <1>3

\* It is run again: what a reset had deleted is back in the hash.
LEMMA IncrementAgainStep ==
  ASSUME MetricsInvariant, AgainKept, NEW i \in Instances, IncrementAgain(i)
  PROVE  MetricsInvariant'
<1> USE DEF MetricsInvariant
<1> DEFINE B == again[i]  gone == "killed or reset"
<1>1. /\ hash' = hash \cup B /\ twice' = twice \cup (B \cap hash)
      /\ lost' = [lost EXCEPT ![gone] = lost[gone] \ B]
      /\ again' = [again EXCEPT ![i] = {}]
      /\ UNCHANGED <<up, buffer, sent, reader, counted, excused, faults>>
  BY DEF IncrementAgain
<1>2. /\ gone \in Reasons /\ \A c \in Reasons : c \in {"exited", "failed", gone}
      /\ \A c \in Reasons : lost'[c] = IF c = gone THEN lost[gone] \ B ELSE lost[c]
      /\ lost' \in [Reasons -> SUBSET Events]
  BY <1>1, TypeFacts DEF Reasons
<1>3. /\ B \subseteq Events /\ B \subseteq hash \cup lost[gone]
      /\ B \cap lost["exited"] = {} /\ B \cap lost["failed"] = {}
      /\ \A j \in Instances : B \cap (buffer[j] \cup OnTheWay(j)) = {}
  BY TypeFacts, AgainApart DEF AgainKept
<1> HIDE DEF B, gone
<1>4. \A j \in Instances : OnTheWay(j)' = OnTheWay(j) /\ sent'[j] = sent[j] /\ buffer'[j] = buffer[j]
  BY <1>1, OnTheWayIs
<1>5. MetricsTypeOK'
  BY <1>1, <1>2, <1>3, TypeFacts DEF MetricsTypeOK
<1>6. Located'
  <2>1. hash' \subseteq counted /\ \A c \in Reasons : lost'[c] \subseteq counted
    BY <1>1, <1>2, <1>3 DEF Located
  <2>2. ASSUME NEW e \in counted
        PROVE  \/ e \in hash'
               \/ \E j \in Instances : e \in buffer[j] \/ e \in OnTheWay(j)
               \/ \E c \in Reasons : e \in lost'[c]
    <3>1. CASE e \in B
      BY <1>1, <3>1
    <3>2. CASE e \notin B
      BY <1>1, <1>2, <3>2 DEF Located
    <3> QED
      BY <3>1, <3>2
  <2> QED
    BY <1>1, <1>4, <2>1, <2>2 DEF Located
<1>7. Apart'
  <2>1. HashApart'
    BY <1>1, <1>3, <1>4 DEF Apart, HashApart
  <2>2. OwnApart' /\ WireApart'
    BY <1>4 DEF Apart, OwnApart, WireApart
  <2>3. OthersApart'
    BY <1>4, OthersStayApart DEF Apart
  <2>4. ASSUME NEW c \in Reasons
        PROVE  /\ lost'[c] \cap hash' = {}
               /\ \A j \in Instances : lost'[c] \cap (buffer[j] \cup OnTheWay(j)) = {}
    <3>1. lost[c] \cap hash = {} /\ \A j \in Instances : lost[c] \cap (buffer[j] \cup OnTheWay(j)) = {}
      BY DEF Apart, LostApart
    <3>2. lost'[c] \subseteq lost[c] /\ lost'[c] \cap B = {}
      BY <1>2, <1>3
    <3> QED
      BY <1>1, <3>1, <3>2
  <2>5. LostApart'
    BY <1>4, <2>4 DEF LostApart
  <2> QED
    BY <2>1, <2>2, <2>3, <2>5 DEF Apart
<1>8. ReadApart'
  BY <1>1, <1>4 DEF ReadApart
<1>9. StoppingExcused' /\ TermKeepsCounts'
  <2>1. "exited" \in Reasons /\ lost'["exited"] = lost["exited"]
    BY <1>2, TypeFacts DEF gone
  <2> QED
    BY <1>1, <2>1 DEF StoppingExcused, TermKeepsCounts
<1> QED
  BY <1>5, <1>6, <1>7, <1>8, <1>9

LEMMA PutBackStep ==
  ASSUME MetricsInvariant, NEW i \in Instances, PutBack(i)
  PROVE  MetricsInvariant'
<1> USE DEF MetricsInvariant
<1> DEFINE B == Head(sent[i]).batch
<1>1. /\ Next1(i, "incr") /\ Answer(i)
      /\ buffer' = [buffer EXCEPT ![i] = buffer[i] \cup B] /\ excused' = excused \cup B
      /\ UNCHANGED <<up, hash, twice, again, reader, counted, lost>>
  BY DEF PutBack
<1>2. /\ sent' \in [Instances -> Seq(Commands)]
      /\ B \subseteq Events
      /\ OnTheWay(i) = OnTheWay(i)' \cup B /\ B \cap OnTheWay(i)' = {}
      /\ \A j \in Instances \ {i} : OnTheWay(j)' = OnTheWay(j)
      /\ \A j \in Instances : Disjoint(sent'[j])
  BY <1>1, AnswerMoves, TypeFacts DEF Apart, WireApart, Commands
<1> HIDE DEF B
<1>3. /\ buffer' \in [Instances -> SUBSET Events]
      /\ \A j \in Instances : buffer'[j] = IF j = i THEN buffer[i] \cup B ELSE buffer[j]
  BY <1>1, <1>2, TypeFacts
<1>4. MetricsTypeOK'
  <2>1. faults' \in Nat
    BY FaultCounted, TypeFacts DEF PutBack
  <2> QED
    BY <1>1, <1>2, <1>3, <2>1 DEF MetricsTypeOK
<1>5. Located'
  BY <1>1, <1>2, <1>3 DEF Located
<1>6. Apart'
  <2>1. HashApart'
    BY <1>1, <1>2, <1>3 DEF Apart, HashApart, OwnApart, OthersApart
  <2>2. OwnApart'
    BY <1>1, <1>2, <1>3 DEF Apart, OwnApart
  <2>3. WireApart'
    BY <1>1, <1>2, <1>3 DEF Apart, WireApart
  <2>4. LostApart'
    <3> SUFFICES ASSUME NEW c \in Reasons
                 PROVE  /\ lost'[c] \cap hash' = {}
                        /\ \A j \in Instances : lost'[c] \cap (buffer'[j] \cup OnTheWay(j)') = {}
      BY DEF LostApart
    <3> QED
      BY <1>1, <1>2, <1>3 DEF Apart, LostApart, HashApart, OwnApart, OthersApart
  <2>5. OthersApart'
    <3>1. \A j \in Instances : buffer'[j] \cup OnTheWay(j)' \subseteq buffer[j] \cup OnTheWay(j)
      BY <1>1, <1>2, <1>3
    <3> QED
      BY <3>1, OthersStayApart DEF Apart
  <2> QED
    BY <2>1, <2>2, <2>3, <2>4, <2>5 DEF Apart
<1>7. ReadApart'
  BY <1>1, <1>2, <1>3 DEF ReadApart
<1>8. StoppingExcused' /\ TermKeepsCounts'
  BY <1>1, <1>3 DEF StoppingExcused, TermKeepsCounts
<1> QED
  BY <1>4, <1>5, <1>6, <1>7, <1>8

\* Counts are lost on their way.
LEMMA WireLost ==
  ASSUME MetricsInvariant, NEW i \in Instances, NEW reason \in Reasons,
         NEW B \in SUBSET Events, lost' = [lost EXCEPT ![reason] = lost[reason] \cup B],
         sent' \in [Instances -> Seq(Commands)],
         OnTheWay(i) = OnTheWay(i)' \cup B, B \cap OnTheWay(i)' = {},
         \A j \in Instances \ {i} : OnTheWay(j)' = OnTheWay(j),
         \A j \in Instances : Disjoint(sent'[j]),
         UNCHANGED <<buffer, hash, counted>>
  PROVE  /\ lost' \in [Reasons -> SUBSET Events]
         /\ \A c \in Reasons : lost'[c] = IF c = reason THEN lost[c] \cup B ELSE lost[c]
         /\ Located' /\ Apart'
<1> USE DEF MetricsInvariant
<1>1. \A j \in Instances : OnTheWay(j)' \subseteq OnTheWay(j) /\ OnTheWay(j) \subseteq OnTheWay(j)' \cup B
  OBVIOUS
<1>2. /\ lost' \in [Reasons -> SUBSET Events]
      /\ \A c \in Reasons : lost'[c] = IF c = reason THEN lost[c] \cup B ELSE lost[c]
      /\ B \subseteq lost'[reason] /\ \A c \in Reasons : lost[c] \subseteq lost'[c]
  BY TypeFacts DEF Lose
<1>3. /\ B \subseteq counted /\ B \cap hash = {}
      /\ \A j \in Instances : B \cap (buffer[j] \cup OnTheWay(j)') = {}
  <2>1. B \subseteq OnTheWay(i)
    OBVIOUS
  <2>2. B \subseteq counted /\ B \cap hash = {} /\ B \cap (buffer[i] \cup OnTheWay(i)') = {}
    BY <2>1 DEF Located, Apart, HashApart, OwnApart
  <2>3. ASSUME NEW j \in Instances, j # i PROVE B \cap (buffer[j] \cup OnTheWay(j)') = {}
    BY <1>1, <2>1, <2>3 DEF Apart, OthersApart
  <2> QED
    BY <2>2, <2>3
<1>4. Located'
  <2>1. \A c \in Reasons : lost'[c] \subseteq counted'
    BY <1>1, <1>2, <1>3 DEF Located
  <2>2. /\ \A j \in Instances : buffer'[j] \cup OnTheWay(j)' \subseteq counted'
        /\ hash' \subseteq counted'
    BY <1>1, <1>2, <1>3 DEF Located
  <2>3. ASSUME NEW e \in counted'
        PROVE  \/ e \in hash'
               \/ \E j \in Instances : e \in buffer'[j] \/ e \in OnTheWay(j)'
               \/ \E c \in Reasons : e \in lost'[c]
    <3>1. CASE e \in B
      BY <1>1, <1>2, <1>3, <3>1
    <3>2. CASE e \notin B
      BY <1>1, <1>2, <1>3, <3>2 DEF Located
    <3> QED
      BY <3>1, <3>2
  <2> QED
    BY <2>1, <2>2, <2>3 DEF Located
<1>5. Apart'
  <2>1. HashApart'
    BY <1>1, <1>2, <1>3 DEF Apart, HashApart, OwnApart, OthersApart
  <2>2. OwnApart'
    BY <1>1, <1>2, <1>3 DEF Apart, OwnApart
  <2>3. WireApart'
    BY <1>1, <1>2, <1>3 DEF Apart, WireApart
  <2>4. LostApart'
    <3> SUFFICES ASSUME NEW c \in Reasons
                 PROVE  /\ lost'[c] \cap hash' = {}
                        /\ \A j \in Instances : lost'[c] \cap (buffer'[j] \cup OnTheWay(j)') = {}
      BY DEF LostApart
    <3> QED
      BY <1>1, <1>2, <1>3 DEF Apart, LostApart, HashApart, OwnApart, OthersApart
  <2>5. OthersApart'
    <3>1. \A j \in Instances : buffer'[j] \cup OnTheWay(j)' \subseteq buffer[j] \cup OnTheWay(j)
      BY <1>1, <1>2, <1>3
    <3> QED
      BY <3>1, OthersStayApart DEF Apart
  <2> QED
    BY <2>1, <2>2, <2>3, <2>4, <2>5 DEF Apart
<1> QED
  BY <1>2, <1>4, <1>5

LEMMA ErrorUnseenStep ==
  ASSUME MetricsInvariant, NEW i \in Instances, ErrorUnseen(i)
  PROVE  MetricsInvariant'
<1> USE DEF MetricsInvariant
<1> DEFINE B == Head(sent[i]).batch
<1>1. /\ Next1(i, "incr") /\ Answer(i) /\ lost' = [lost EXCEPT !["failed"] = lost["failed"] \cup B]
      /\ UNCHANGED <<up, buffer, hash, twice, again, reader, counted, excused>>
  BY DEF ErrorUnseen, Lose
<1>2. /\ sent' \in [Instances -> Seq(Commands)]
      /\ B \in SUBSET Events
      /\ OnTheWay(i) = OnTheWay(i)' \cup B /\ B \cap OnTheWay(i)' = {}
      /\ \A j \in Instances \ {i} : OnTheWay(j)' = OnTheWay(j)
      /\ \A j \in Instances : Disjoint(sent'[j])
  BY <1>1, AnswerMoves, TypeFacts DEF Apart, WireApart, Commands
<1> HIDE DEF B
<1>3. "failed" \in Reasons /\ "exited" \in Reasons /\ UNCHANGED <<buffer, hash, counted>>
  BY <1>1, TypeFacts
<1> HIDE DEF MetricsInvariant
<1>4. /\ lost' \in [Reasons -> SUBSET Events] /\ Located' /\ Apart'
      /\ \A c \in Reasons : lost'[c] = IF c = "failed" THEN lost[c] \cup B ELSE lost[c]
  BY <1>1, <1>2, <1>3, WireLost
<1> USE DEF MetricsInvariant
<1>5. MetricsTypeOK'
  <2>1. faults' \in Nat
    BY FaultCounted, TypeFacts DEF ErrorUnseen
  <2> QED
    BY <1>1, <1>2, <1>4, <2>1 DEF MetricsTypeOK
<1>6. ReadApart'
  BY <1>1, <1>2 DEF ReadApart
<1>7. StoppingExcused' /\ TermKeepsCounts'
  BY <1>1, <1>3, <1>4 DEF StoppingExcused, TermKeepsCounts
<1> QED
  BY <1>4, <1>5, <1>6, <1>7

LEMMA ConnectionDropsStep ==
  ASSUME MetricsInvariant, NEW i \in Instances, ConnectionDrops(i)
  PROVE  MetricsInvariant'
<1> USE DEF MetricsInvariant
<1> DEFINE B == OnTheWay(i)
<1>1. /\ lost' = [lost EXCEPT !["killed or reset"] = lost["killed or reset"] \cup B]
      /\ sent' = [sent EXCEPT ![i] = << >>]
      /\ again' = [again EXCEPT ![i] = {}]
      /\ UNCHANGED <<up, buffer, hash, twice, reader, counted, excused, faults>>
  BY DEF ConnectionDrops, Lose
<1>2. /\ sent' \in [Instances -> Seq(Commands)]
      /\ sent'[i] = << >> /\ \A j \in Instances \ {i} : sent'[j] = sent[j]
  BY <1>1, TypeFacts, IdleConnection
<1>3. /\ OnTheWay(i)' = {}
      /\ \A j \in Instances \ {i} : OnTheWay(j)' = OnTheWay(j)
      /\ \A j \in Instances : Disjoint(sent'[j])
  BY <1>2, OnTheWayIs, IdleConnection DEF Apart, WireApart
<1>4. B \in SUBSET Events /\ "killed or reset" \in Reasons /\ "exited" \in Reasons
  BY TypeFacts DEF Located
<1>5. /\ OnTheWay(i) = OnTheWay(i)' \cup B /\ B \cap OnTheWay(i)' = {}
      /\ UNCHANGED <<buffer, hash, counted>>
  BY <1>1, <1>3
<1> HIDE DEF B, MetricsInvariant
<1>6. /\ lost' \in [Reasons -> SUBSET Events] /\ Located' /\ Apart'
      /\ \A c \in Reasons : lost'[c] = IF c = "killed or reset" THEN lost[c] \cup B ELSE lost[c]
  BY <1>1, <1>2, <1>3, <1>4, <1>5, WireLost
<1> USE DEF MetricsInvariant
<1>7. MetricsTypeOK'
  BY <1>1, <1>2, <1>6 DEF MetricsTypeOK
<1>8. ReadApart'
  BY <1>1, <1>3 DEF ReadApart
<1>9. StoppingExcused' /\ TermKeepsCounts'
  BY <1>1, <1>4, <1>6 DEF StoppingExcused, TermKeepsCounts
<1> QED
  BY <1>6, <1>7, <1>8, <1>9

\* Counts leave a buffer, and are lost.
LEMMA BufferLost ==
  ASSUME MetricsInvariant, NEW i \in Instances, NEW reason \in Reasons,
         lost' = [lost EXCEPT ![reason] = lost[reason] \cup buffer[i]],
         buffer' = [buffer EXCEPT ![i] = {}],
         sent' \in [Instances -> Seq(Commands)],
         \A j \in Instances : OnTheWay(j)' = OnTheWay(j) /\ Disjoint(sent'[j]),
         UNCHANGED <<hash, counted>>
  PROVE  /\ buffer' \in [Instances -> SUBSET Events] /\ lost' \in [Reasons -> SUBSET Events]
         /\ \A j \in Instances : buffer'[j] = IF j = i THEN {} ELSE buffer[j]
         /\ \A c \in Reasons : lost'[c] = IF c = reason THEN lost[c] \cup buffer[i] ELSE lost[c]
         /\ Located' /\ Apart'
<1> USE DEF MetricsInvariant
<1> DEFINE B == buffer[i]
<1>1. /\ buffer' \in [Instances -> SUBSET Events] /\ B \subseteq Events
      /\ \A j \in Instances : buffer'[j] = IF j = i THEN {} ELSE buffer[j]
  BY TypeFacts
<1>2. /\ lost' \in [Reasons -> SUBSET Events]
      /\ \A c \in Reasons : lost'[c] = IF c = reason THEN lost[c] \cup B ELSE lost[c]
      /\ B \subseteq lost'[reason] /\ \A c \in Reasons : lost[c] \subseteq lost'[c]
  BY <1>1, TypeFacts DEF Lose
<1>3. \A j \in Instances \ {i} : buffer'[j] = buffer[j]
  BY <1>1
<1>4. Located'
  <2>1. \A c \in Reasons : lost'[c] \subseteq counted'
    BY <1>1, <1>2, <1>3 DEF Located
  <2>2. /\ \A j \in Instances : buffer'[j] \cup OnTheWay(j)' \subseteq counted'
        /\ hash' \subseteq counted'
    BY <1>1, <1>2, <1>3 DEF Located
  <2>3. ASSUME NEW e \in counted'
        PROVE  \/ e \in hash'
               \/ \E j \in Instances : e \in buffer'[j] \/ e \in OnTheWay(j)'
               \/ \E c \in Reasons : e \in lost'[c]
    <3>1. CASE e \in B
      BY <1>1, <1>2, <1>3, <3>1
    <3>2. CASE e \notin B
      BY <1>1, <1>2, <1>3, <3>2 DEF Located
    <3> QED
      BY <3>1, <3>2
  <2> QED
    BY <2>1, <2>2, <2>3 DEF Located
<1>5. Apart'
  <2>1. HashApart'
    BY <1>1, <1>2, <1>3 DEF Apart, HashApart, OwnApart, OthersApart
  <2>2. OwnApart'
    BY <1>1, <1>2, <1>3 DEF Apart, OwnApart
  <2>3. WireApart'
    BY <1>1, <1>2, <1>3 DEF Apart, WireApart
  <2>4. LostApart'
    <3> SUFFICES ASSUME NEW c \in Reasons
                 PROVE  /\ lost'[c] \cap hash' = {}
                        /\ \A j \in Instances : lost'[c] \cap (buffer'[j] \cup OnTheWay(j)') = {}
      BY DEF LostApart
    <3> QED
      BY <1>1, <1>2, <1>3 DEF Apart, LostApart, HashApart, OwnApart, OthersApart
  <2>5. OthersApart'
    <3>1. \A j \in Instances : buffer'[j] \cup OnTheWay(j)' \subseteq buffer[j] \cup OnTheWay(j)
      BY <1>1, <1>2, <1>3
    <3> QED
      BY <3>1, OthersStayApart DEF Apart
  <2> QED
    BY <2>1, <2>2, <2>3, <2>4, <2>5 DEF Apart
<1> QED
  BY <1>1, <1>2, <1>4, <1>5

\* No buffer grows.
LEMMA ReadStill ==
  ASSUME ReadApart, counted' = counted,
         \A j \in Instances : buffer'[j] \subseteq buffer[j] /\ OnTheWay(j)' = OnTheWay(j),
         \A p \in Readers : reader'[p] = reader[p] \/ reader'[p].stage = "none"
  PROVE  ReadApart'
<1> SUFFICES ASSUME NEW p \in Readers, reader'[p].stage # "none"
             PROVE  /\ reader'[p].at \in Instances
                    /\ reader'[p].stage = "answered" =>
                         /\ reader'[p].stored \subseteq counted'
                         /\ \A j \in Instances :
                              reader'[p].stored \cap (buffer'[j] \cup OnTheWay(j)') = {}
  BY DEF ReadApart
<1>1. reader'[p] = reader[p]
  OBVIOUS
<1>2. /\ reader[p].at \in Instances
      /\ reader[p].stage = "answered" => reader[p].stored \subseteq counted
      /\ \A j \in Instances : reader[p].stage = "answered" =>
           reader[p].stored \cap (buffer[j] \cup OnTheWay(j)) = {}
  BY <1>1 DEF ReadApart
<1> QED
  BY <1>1, <1>2

LEMMA ExitStep ==
  ASSUME MetricsInvariant, NEW i \in Instances, Exit(i)
  PROVE  MetricsInvariant'
<1> USE DEF MetricsInvariant
<1>1. /\ lost' = [lost EXCEPT !["exited"] = lost["exited"] \cup buffer[i]]
      /\ buffer' = [buffer EXCEPT ![i] = {}] /\ up' = [up EXCEPT ![i] = "down"]
      /\ UNCHANGED <<sent, hash, twice, again, reader, counted, excused, faults>>
  BY DEF Exit, Lose
<1>2. up[i] = "stopping" /\ buffer[i] \subseteq excused
  BY DEF Exit, StoppingExcused
<1>3. /\ sent' \in [Instances -> Seq(Commands)] /\ "exited" \in Reasons
      /\ \A j \in Instances : OnTheWay(j)' = OnTheWay(j) /\ Disjoint(sent'[j])
      /\ UNCHANGED <<hash, counted>>
  BY <1>1, TypeFacts, OnTheWayIs DEF Apart, WireApart
<1> HIDE DEF MetricsInvariant
<1>4. /\ buffer' \in [Instances -> SUBSET Events] /\ lost' \in [Reasons -> SUBSET Events]
      /\ \A j \in Instances : buffer'[j] = IF j = i THEN {} ELSE buffer[j]
      /\ \A c \in Reasons : lost'[c] = IF c = "exited" THEN lost[c] \cup buffer[i] ELSE lost[c]
      /\ Located' /\ Apart'
  BY <1>1, <1>3, BufferLost
<1> USE DEF MetricsInvariant
<1>5. MetricsTypeOK'
  BY <1>1, <1>3, <1>4 DEF MetricsTypeOK
<1>6. ReadApart'
  BY <1>1, <1>3, <1>4 DEF ReadApart
<1>7. StoppingExcused' /\ TermKeepsCounts'
  BY <1>1, <1>2, <1>3, <1>4 DEF StoppingExcused, TermKeepsCounts, MetricsTypeOK
<1> QED
  BY <1>4, <1>5, <1>6, <1>7

LEMMA KillStep ==
  ASSUME MetricsInvariant, NEW i \in Instances, Kill(i)
  PROVE  MetricsInvariant'
<1> USE DEF MetricsInvariant
<1>1. /\ lost' = [lost EXCEPT !["killed or reset"] = lost["killed or reset"] \cup buffer[i]]
      /\ buffer' = [buffer EXCEPT ![i] = {}] /\ up' = [up EXCEPT ![i] = "down"]
      /\ UNCHANGED <<sent, hash, twice, again, counted, excused>>
      /\ reader' = [p \in Readers |-> IF reader[p].at = i THEN NoRead ELSE reader[p]]
  BY DEF Kill, Lose, Forget
<1>2. /\ sent' \in [Instances -> Seq(Commands)] /\ "killed or reset" \in Reasons /\ "exited" \in Reasons
      /\ \A j \in Instances : OnTheWay(j)' = OnTheWay(j) /\ Disjoint(sent'[j])
      /\ UNCHANGED <<hash, counted>>
  BY <1>1, TypeFacts, OnTheWayIs DEF Apart, WireApart
<1> HIDE DEF MetricsInvariant
<1>3. /\ buffer' \in [Instances -> SUBSET Events] /\ lost' \in [Reasons -> SUBSET Events]
      /\ \A j \in Instances : buffer'[j] = IF j = i THEN {} ELSE buffer[j]
      /\ \A c \in Reasons : lost'[c] = IF c = "killed or reset" THEN lost[c] \cup buffer[i] ELSE lost[c]
      /\ Located' /\ Apart'
  BY <1>1, <1>2, BufferLost
<1> USE DEF MetricsInvariant
<1>4. /\ reader' \in [Readers -> Reads]
      /\ \A p \in Readers : reader'[p] = NoRead \/ reader'[p] = reader[p]
      /\ NoRead.stage = "none"
  BY <1>1 DEF MetricsTypeOK, NoRead, Reads
<1>5. MetricsTypeOK'
  <2>1. faults' \in Nat
    BY FaultCounted, TypeFacts DEF Kill
  <2> QED
    BY <1>1, <1>2, <1>3, <1>4, <2>1 DEF MetricsTypeOK
<1>6. ReadApart'
  <2>1. counted' = counted /\ \A j \in Instances : buffer'[j] \subseteq buffer[j]
    BY <1>2, <1>3
  <2> QED
    BY <1>2, <1>4, <2>1, ReadStill
<1>7. StoppingExcused' /\ TermKeepsCounts'
  BY <1>1, <1>2, <1>3 DEF StoppingExcused, TermKeepsCounts, MetricsTypeOK
<1> QED
  BY <1>3, <1>5, <1>6, <1>7

\* No count moves.
LEMMA NothingMoves ==
  ASSUME MetricsInvariant, UNCHANGED <<buffer, hash, lost, counted>>,
         \A j \in Instances : OnTheWay(j)' = OnTheWay(j) /\ Disjoint(sent'[j])
  PROVE  Located' /\ Apart'
<1>1. Located'
  BY DEF MetricsInvariant, Located
<1>2. HashApart' /\ OwnApart' /\ WireApart'
  BY DEF MetricsInvariant, Apart, HashApart, OwnApart, WireApart
<1>3. LostApart' /\ OthersApart'
  BY DEF MetricsInvariant, Apart, LostApart, OthersApart
<1> QED
  BY <1>1, <1>2, <1>3 DEF Apart

LEMMA RestartStep ==
  ASSUME MetricsInvariant, NEW i \in Instances, Restart(i)
  PROVE  MetricsInvariant'
<1>1. /\ up' = [up EXCEPT ![i] = "up"]
      /\ UNCHANGED <<buffer, sent, hash, twice, again, reader, counted, excused, lost, faults>>
  BY DEF Restart
<1>2. \A j \in Instances : OnTheWay(j)' = OnTheWay(j) /\ Disjoint(sent'[j])
  BY <1>1, OnTheWayIs DEF MetricsInvariant, Apart, WireApart
<1>3. Located' /\ Apart'
  BY <1>1, <1>2, NothingMoves
<1>4. MetricsTypeOK'
  BY <1>1 DEF MetricsInvariant, MetricsTypeOK
<1>5. ReadApart'
  <2>1. reader' = reader /\ counted' = counted /\ buffer' = buffer
    BY <1>1
  <2> QED
    BY <1>2, <2>1 DEF MetricsInvariant, ReadApart
<1>6. StoppingExcused' /\ TermKeepsCounts'
  BY <1>1 DEF MetricsInvariant, StoppingExcused, TermKeepsCounts, MetricsTypeOK
<1> QED
  BY <1>3, <1>4, <1>5, <1>6 DEF MetricsInvariant

\* The steps of readers: no count moves, no process starts or stops.
LEMMA ReaderMoves ==
  ASSUME MetricsInvariant,
         UNCHANGED <<up, buffer, hash, twice, again, lost, counted, excused>>, faults' \in Nat,
         sent' \in [Instances -> Seq(Commands)],
         \A j \in Instances : OnTheWay(j)' = OnTheWay(j) /\ Disjoint(sent'[j]),
         reader' \in [Readers -> Reads],
         \A p \in Readers :
           \/ reader'[p] = reader[p]
           \/ reader'[p].stage = "none"
           \/ reader'[p].stage = "asked" /\ reader'[p].at \in Instances
           \/ reader'[p].stage = "answered" /\ reader'[p].at \in Instances /\ reader'[p].stored = hash
  PROVE  MetricsInvariant'
<1>1. /\ up' = up /\ buffer' = buffer /\ hash' = hash /\ twice' = twice /\ again' = again
      /\ lost' = lost /\ counted' = counted /\ excused' = excused
  OBVIOUS
<1>2. Located' /\ Apart'
  BY NothingMoves
<1>3. MetricsTypeOK'
  BY <1>1 DEF MetricsInvariant, MetricsTypeOK
<1>4. ReadApart'
  <2> SUFFICES ASSUME NEW p \in Readers
               PROVE  /\ reader'[p].stage # "none" => reader'[p].at \in Instances
                      /\ reader'[p].stage = "answered" =>
                           /\ reader'[p].stored \subseteq counted
                           /\ \A i \in Instances : reader'[p].stored \cap (buffer[i] \cup OnTheWay(i)) = {}
    BY <1>1 DEF ReadApart
  <2>1. CASE reader'[p] = reader[p]
    BY <2>1 DEF MetricsInvariant, ReadApart
  <2>2. CASE reader'[p].stage = "none"
    BY <2>2
  <2>3. CASE reader'[p].stage = "asked" /\ reader'[p].at \in Instances
    BY <2>3
  <2>4. CASE reader'[p].stage = "answered" /\ reader'[p].at \in Instances /\ reader'[p].stored = hash
    BY <2>4 DEF MetricsInvariant, Located, Apart, HashApart
  <2> QED
    BY <2>1, <2>2, <2>3, <2>4
<1>5. StoppingExcused' /\ TermKeepsCounts'
  BY <1>1 DEF MetricsInvariant, StoppingExcused, TermKeepsCounts
<1> QED
  BY <1>2, <1>3, <1>4, <1>5 DEF MetricsInvariant

LEMMA NoReadIs == NoRead \in Reads /\ NoRead.stage = "none"
BY DEF NoRead, Reads

LEMMA AskCountersStep ==
  ASSUME MetricsInvariant, NEW p \in Readers, NEW i \in Instances, AskCounters(p, i)
  PROVE  MetricsInvariant'
<1> DEFINE asks == [NoRead EXCEPT !.stage = "asked", !.at = i]
<1>1. asks \in Reads /\ asks.stage = "asked" /\ asks.at = i
  BY DEF NoRead, Reads
<1>2. /\ reader' = [reader EXCEPT ![p] = asks] /\ Send(i, "get", {}, p)
      /\ UNCHANGED <<up, buffer, hash, twice, again, counted, excused, lost, faults>>
  BY DEF AskCounters
<1> HIDE DEF asks
<1>3. /\ reader' \in [Readers -> Reads]
      /\ \A q \in Readers : reader'[q] = IF q = p THEN asks ELSE reader[q]
  BY <1>1, <1>2 DEF MetricsInvariant, MetricsTypeOK
<1>4. /\ sent' \in [Instances -> Seq(Commands)]
      /\ \A j \in Instances : OnTheWay(j)' = OnTheWay(j) /\ Disjoint(sent'[j])
  BY <1>2, SendMoves, TypeFacts DEF MetricsInvariant, Apart, WireApart
<1>5. faults' \in Nat
  BY <1>2, TypeFacts DEF MetricsInvariant
<1> QED
  BY <1>1, <1>2, <1>3, <1>4, <1>5, ReaderMoves

LEMMA SumUpStep ==
  ASSUME MetricsInvariant, NEW p \in Readers, SumUp(p)
  PROVE  MetricsInvariant'
<1>1. /\ reader' = [reader EXCEPT ![p] = NoRead]
      /\ UNCHANGED <<up, buffer, sent, hash, twice, again, counted, excused, lost, faults>>
  BY DEF SumUp
<1>2. /\ reader' \in [Readers -> Reads]
      /\ \A q \in Readers : reader'[q] = IF q = p THEN NoRead ELSE reader[q]
  BY <1>1, NoReadIs DEF MetricsInvariant, MetricsTypeOK
<1>3. /\ sent' \in [Instances -> Seq(Commands)]
      /\ \A j \in Instances : OnTheWay(j)' = OnTheWay(j) /\ Disjoint(sent'[j])
  BY <1>1, TypeFacts, OnTheWayIs DEF MetricsInvariant, Apart, WireApart
<1>4. faults' \in Nat
  BY <1>1, TypeFacts DEF MetricsInvariant
<1> QED
  BY <1>1, <1>2, <1>3, <1>4, NoReadIs, ReaderMoves

\* An answer that brings no count anywhere.
LEMMA SilentAnswer ==
  ASSUME MetricsInvariant, NEW i \in Instances, NEW op \in {"get", "del"}, Next1(i, op), Answer(i)
  PROVE  /\ sent' \in [Instances -> Seq(Commands)]
         /\ \A j \in Instances : OnTheWay(j)' = OnTheWay(j) /\ Disjoint(sent'[j])
<1>1. sent \in [Instances -> Seq(Commands)] /\ \A j \in Instances : Disjoint(sent[j])
  BY TypeFacts DEF MetricsInvariant, Apart, WireApart
<1>2. /\ sent' \in [Instances -> Seq(Commands)]
      /\ OnTheWay(i) = OnTheWay(i)' \cup (IF op = "incr" THEN Head(sent[i]).batch ELSE {})
      /\ \A j \in Instances \ {i} : OnTheWay(j)' = OnTheWay(j)
      /\ \A j \in Instances : Disjoint(sent'[j])
  BY <1>1, AnswerMoves
<1>3. OnTheWay(i) = OnTheWay(i)'
  BY <1>2
<1> QED
  BY <1>2, <1>3

LEMMA GetAllStep ==
  ASSUME MetricsInvariant, NEW i \in Instances, GetAll(i)
  PROVE  MetricsInvariant'
<1> DEFINE p == Head(sent[i]).by
           got == [reader[p] EXCEPT !.stage = "answered", !.stored = hash, !.extra = Cardinality(twice)]
<1>1. /\ Next1(i, "get") /\ Answer(i)
      /\ reader' = IF reader[p].at = i /\ reader[p].stage = "asked"
                     THEN [reader EXCEPT ![p] = got] ELSE reader
      /\ UNCHANGED <<up, buffer, hash, twice, again, counted, excused, lost, faults>>
  BY DEF GetAll
<1>2. /\ sent' \in [Instances -> Seq(Commands)]
      /\ \A j \in Instances : OnTheWay(j)' = OnTheWay(j) /\ Disjoint(sent'[j])
  BY <1>1, SilentAnswer
<1>3. Cardinality(twice) \in Nat /\ hash \in SUBSET Events
  BY TypeFacts, FS_Subset, FS_CardinalityType DEF MetricsInvariant
<1>4. reader \in [Readers -> Reads]
  BY DEF MetricsInvariant, MetricsTypeOK
<1>5. ASSUME p \in Readers, reader[p].at = i
      PROVE  got \in Reads /\ got.stage = "answered" /\ got.at \in Instances /\ got.stored = hash
  BY <1>3, <1>4, <1>5 DEF Reads
<1> HIDE DEF p, got
<1>6. /\ reader' \in [Readers -> Reads]
      /\ \A q \in Readers : reader'[q] = reader[q] \/ (q = p /\ reader[p].at = i /\ reader'[q] = got)
  BY <1>1, <1>4, <1>5
<1>7. faults' \in Nat
  BY <1>1, TypeFacts DEF MetricsInvariant
<1> QED
  BY <1>1, <1>2, <1>5, <1>6, <1>7, ReaderMoves

LEMMA RequestFailsStep ==
  ASSUME MetricsInvariant, NEW i \in Instances, RequestFails(i)
  PROVE  MetricsInvariant'
<1> DEFINE b == Head(sent[i]).by
<1>1. /\ Next1(i, "get") \/ Next1(i, "del")
      /\ Answer(i)
      /\ reader' = [p \in Readers |-> IF b = p THEN NoRead ELSE reader[p]]
      /\ UNCHANGED <<up, buffer, hash, twice, again, counted, excused, lost>>
  BY DEF RequestFails
<1> HIDE DEF b
<1>2. /\ sent' \in [Instances -> Seq(Commands)]
      /\ \A j \in Instances : OnTheWay(j)' = OnTheWay(j) /\ Disjoint(sent'[j])
  BY <1>1, SilentAnswer
<1>3. /\ reader' \in [Readers -> Reads]
      /\ \A q \in Readers : reader'[q] = NoRead \/ reader'[q] = reader[q]
  BY <1>1, NoReadIs DEF MetricsInvariant, MetricsTypeOK
<1>4. faults' \in Nat
  BY FaultCounted, TypeFacts DEF RequestFails, MetricsInvariant
<1> QED
  BY <1>1, <1>2, <1>3, <1>4, NoReadIs, ReaderMoves

LEMMA StartResetStep ==
  ASSUME MetricsInvariant, NEW i \in Instances, StartReset(i)
  PROVE  MetricsInvariant'
<1> USE DEF MetricsInvariant
<1>1. /\ lost' = [lost EXCEPT !["killed or reset"] = lost["killed or reset"] \cup buffer[i]]
      /\ buffer' = [buffer EXCEPT ![i] = {}] /\ Send(i, "del", counted, None)
      /\ UNCHANGED <<up, hash, twice, again, reader, counted, excused, faults>>
  BY DEF StartReset, Clear, Lose
<1>2. /\ sent' \in [Instances -> Seq(Commands)] /\ "killed or reset" \in Reasons /\ "exited" \in Reasons
      /\ \A j \in Instances : OnTheWay(j)' = OnTheWay(j) /\ Disjoint(sent'[j])
      /\ UNCHANGED <<hash, counted>>
  BY <1>1, TypeFacts, SendMoves DEF Apart, WireApart
<1> HIDE DEF MetricsInvariant
<1>3. /\ buffer' \in [Instances -> SUBSET Events] /\ lost' \in [Reasons -> SUBSET Events]
      /\ \A j \in Instances : buffer'[j] = IF j = i THEN {} ELSE buffer[j]
      /\ \A c \in Reasons : lost'[c] = IF c = "killed or reset" THEN lost[c] \cup buffer[i] ELSE lost[c]
      /\ Located' /\ Apart'
  BY <1>1, <1>2, BufferLost
<1> USE DEF MetricsInvariant
<1>4. MetricsTypeOK'
  BY <1>1, <1>2, <1>3 DEF MetricsTypeOK
<1>5. ReadApart'
  <2>1. /\ counted' = counted /\ reader' = reader
        /\ \A j \in Instances : buffer'[j] \subseteq buffer[j]
    BY <1>1, <1>3
  <2> QED
    BY <1>2, <2>1, ReadStill
<1>6. StoppingExcused' /\ TermKeepsCounts'
  BY <1>1, <1>2, <1>3 DEF StoppingExcused, TermKeepsCounts
<1> QED
  BY <1>3, <1>4, <1>5, <1>6

LEMMA DeleteCountersStep ==
  ASSUME MetricsInvariant, NEW i \in Instances, DeleteCounters(i)
  PROVE  MetricsInvariant'
<1>1. /\ Next1(i, "del") /\ Answer(i)
      /\ lost' = [lost EXCEPT !["killed or reset"] = lost["killed or reset"] \cup hash]
      /\ hash' = {} /\ twice' = {}
      /\ UNCHANGED <<up, buffer, again, reader, counted, excused, faults>>
  BY DEF DeleteCounters, Lose
<1>2. /\ sent' \in [Instances -> Seq(Commands)]
      /\ \A j \in Instances : OnTheWay(j)' = OnTheWay(j) /\ Disjoint(sent'[j])
  BY <1>1, SilentAnswer
<1> USE DEF MetricsInvariant
<1>3. /\ lost' \in [Reasons -> SUBSET Events] /\ "killed or reset" \in Reasons /\ "exited" \in Reasons
      /\ \A c \in Reasons : lost'[c] = IF c = "killed or reset" THEN lost[c] \cup hash ELSE lost[c]
      /\ hash \subseteq lost'["killed or reset"] /\ \A c \in Reasons : lost[c] \subseteq lost'[c]
  BY <1>1, TypeFacts
<1>4. Located'
  <2>1. \A c \in Reasons : lost'[c] \subseteq counted'
    BY <1>1, <1>3 DEF Located
  <2>2. /\ \A j \in Instances : buffer'[j] \cup OnTheWay(j)' \subseteq counted'
        /\ hash' \subseteq counted'
    BY <1>1, <1>2 DEF Located
  <2>3. ASSUME NEW e \in counted'
        PROVE  \/ e \in hash'
               \/ \E j \in Instances : e \in buffer'[j] \/ e \in OnTheWay(j)'
               \/ \E c \in Reasons : e \in lost'[c]
    <3>1. CASE e \in hash
      BY <1>3, <3>1
    <3>2. CASE e \notin hash
      <4>1. e \in counted /\ buffer' = buffer
        BY <1>1
      <4>2. CASE \E j \in Instances : e \in buffer[j] \/ e \in OnTheWay(j)
        BY <1>2, <4>1, <4>2
      <4>3. CASE \E c \in Reasons : e \in lost[c]
        BY <1>3, <4>3
      <4> QED
        BY <3>2, <4>1, <4>2, <4>3 DEF Located
    <3> QED
      BY <3>1, <3>2
  <2> QED
    BY <2>1, <2>2, <2>3 DEF Located
<1>5. Apart'
  <2>1. HashApart'
    BY <1>1, <1>2, <1>3 DEF Apart, HashApart, OwnApart, OthersApart
  <2>2. OwnApart'
    BY <1>1, <1>2, <1>3 DEF Apart, OwnApart
  <2>3. WireApart'
    BY <1>1, <1>2, <1>3 DEF Apart, WireApart
  <2>4. LostApart'
    <3>1. hash' = {} /\ \A j \in Instances : buffer'[j] \cup OnTheWay(j)' = buffer[j] \cup OnTheWay(j)
      BY <1>1, <1>2
    <3>2. HashApart /\ LostApart
      BY DEF Apart
    <3>3. ASSUME NEW c \in Reasons, NEW j \in Instances
          PROVE  lost'[c] \cap (buffer[j] \cup OnTheWay(j)) = {}
      BY <1>3, <3>2, <3>3 DEF HashApart, LostApart
    <3> QED
      BY <3>1, <3>3 DEF LostApart
  <2>5. OthersApart'
    <3>1. \A j \in Instances : buffer'[j] \cup OnTheWay(j)' \subseteq buffer[j] \cup OnTheWay(j)
      BY <1>1, <1>2, <1>3
    <3> QED
      BY <3>1, OthersStayApart DEF Apart
  <2> QED
    BY <2>1, <2>2, <2>3, <2>4, <2>5 DEF Apart
<1>6. MetricsTypeOK'
  BY <1>1, <1>2, <1>3 DEF MetricsTypeOK
<1>7. ReadApart'
  BY <1>1, <1>2 DEF ReadApart
<1>8. StoppingExcused' /\ TermKeepsCounts'
  BY <1>1, <1>3 DEF StoppingExcused, TermKeepsCounts
<1> QED
  BY <1>4, <1>5, <1>6, <1>7, <1>8

-----------------------------------------------------------------------------
(* The invariant and what follows from it *)

LEMMA MetricsInitial == MetricsInit => MetricsInvariant
<1> SUFFICES ASSUME MetricsInit PROVE MetricsInvariant
  OBVIOUS
<1>1. \A i \in Instances : OnTheWay(i) = {} /\ Disjoint(sent[i]) /\ buffer[i] = {}
  BY OnTheWayIs, IdleConnection DEF MetricsInit
<1>2. MetricsTypeOK
  BY NoReadIs, IdleConnection DEF MetricsInit, MetricsTypeOK
<1>3. Located /\ Apart
  BY <1>1 DEF MetricsInit, Located, Apart, HashApart, LostApart, OwnApart, OthersApart, WireApart
<1>4. ReadApart /\ StoppingExcused /\ TermKeepsCounts
  BY NoReadIs DEF MetricsInit, ReadApart, StoppingExcused, TermKeepsCounts, Reasons
<1> QED
  BY <1>2, <1>3, <1>4 DEF MetricsInvariant

LEMMA InstanceStep ==
  ASSUME MetricsInvariant, AgainKept, NEW i \in Instances, InstanceNext(i)
  PROVE  MetricsInvariant'
BY IncStep, TakeStep, ArriveStep, IncrementAgainStep, PutBackStep, ErrorUnseenStep, ExitStep, KillStep,
   ConnectionDropsStep, RestartStep, GetAllStep, RequestFailsStep, StartResetStep,
   DeleteCountersStep DEF InstanceNext, Serve, MetricsFault

\* No step loses the counts of a pipeline under way again but a reset.
LEMMA AgainStays ==
  ASSUME AgainKept, \A j \in Instances : again'[j] \subseteq again[j],
         hash \cup lost["killed or reset"] \subseteq hash' \cup lost'["killed or reset"],
         \A j \in Instances : again[j] \cap (lost'["exited"] \cup lost'["failed"]) = {}
  PROVE  AgainKept'
<1> SUFFICES ASSUME NEW j \in Instances
             PROVE  /\ again'[j] \subseteq hash' \cup lost'["killed or reset"]
                    /\ again'[j] \cap (lost'["exited"] \cup lost'["failed"]) = {}
  BY DEF AgainKept
<1>1. again[j] \subseteq hash \cup lost["killed or reset"] /\ again'[j] \subseteq again[j]
  BY DEF AgainKept
<1> QED
  BY <1>1

LEMMA AgainStep ==
  ASSUME MetricsInvariant, AgainKept, NEW i \in Instances, InstanceNext(i)
  PROVE  AgainKept'
<1> DEFINE gone == "killed or reset"
<1>1. /\ gone \in Reasons /\ "exited" \in Reasons /\ "failed" \in Reasons
      /\ again \in [Instances -> SUBSET Events] /\ lost \in [Reasons -> SUBSET Events]
      /\ buffer \in [Instances -> SUBSET Events]
  BY TypeFacts DEF MetricsInvariant
<1>2. \A j \in Instances : again[j] \cap (lost["exited"] \cup lost["failed"]) = {}
  BY DEF AgainKept
<1>3. \A B : B \subseteq OnTheWay(i) \/ B \subseteq buffer[i] =>
        \A j \in Instances : again[j] \cap B = {}
  BY AgainApart
<1>4. ASSUME hash \subseteq hash', lost' = lost, again' = again PROVE AgainKept'
  BY <1>2, <1>4, AgainStays
<1>5. ASSUME NEW B, lost' = [lost EXCEPT ![gone] = @ \cup B], hash \subseteq hash' \cup B,
             \A j \in Instances : again'[j] \subseteq again[j]
      PROVE  AgainKept'
  <2>1. /\ lost'[gone] = lost[gone] \cup B
        /\ lost'["exited"] = lost["exited"] /\ lost'["failed"] = lost["failed"]
    BY <1>1, <1>5
  <2> QED
    BY <1>2, <1>5, <2>1, AgainStays
<1>6. ASSUME NEW B, NEW reason \in {"exited", "failed"}, B \subseteq OnTheWay(i) \/ B \subseteq buffer[i],
             lost' = [lost EXCEPT ![reason] = @ \cup B], hash' = hash, again' = again
      PROVE  AgainKept'
  <2>1. /\ lost'[gone] = lost[gone]
        /\ lost'["exited"] \subseteq lost["exited"] \cup B /\ lost'["failed"] \subseteq lost["failed"] \cup B
    BY <1>1, <1>6
  <2>2. \A j \in Instances : again[j] \cap B = {}
    BY <1>3, <1>6
  <2> QED
    BY <1>2, <1>6, <2>1, <2>2, AgainStays
<1>7. CASE Flush(i) \/ Terminate(i) \/ Increment(i) \/ PutBack(i) \/ Restart(i) \/ GetAll(i)
           \/ RequestFails(i) \/ \E e \in Events : Inc(i, e)
  BY <1>4, <1>7 DEF Flush, Terminate, Increment, PutBack, Restart, GetAll, RequestFails, Inc
<1>8. CASE ErrorUnseen(i)
  <2> DEFINE B == Head(sent[i]).batch
  <2>1. Next1(i, "incr") /\ Answer(i) /\ lost' = [lost EXCEPT !["failed"] = @ \cup B]
        /\ hash' = hash /\ again' = again
    BY <1>8 DEF ErrorUnseen, Lose
  <2>2. B \subseteq OnTheWay(i)
    BY <2>1, AnswerMoves, TypeFacts DEF MetricsInvariant
  <2> HIDE DEF B
  <2> QED
    BY <1>6, <2>1, <2>2
<1>9. CASE Exit(i)
  BY <1>6, <1>9 DEF Exit, Lose
<1>10. CASE Kill(i) \/ StartReset(i)
  BY <1>5, <1>10 DEF Kill, StartReset, Clear, Lose
<1>11. CASE ConnectionDrops(i)
  <2>1. /\ lost' = [lost EXCEPT ![gone] = @ \cup OnTheWay(i)] /\ hash' = hash
        /\ again' = [again EXCEPT ![i] = {}]
    BY <1>11 DEF ConnectionDrops, Lose
  <2>2. \A j \in Instances : again'[j] \subseteq again[j]
    BY <1>1, <2>1
  <2> QED
    BY <1>5, <2>1, <2>2
<1>12. CASE DeleteCounters(i)
  BY <1>5, <1>12 DEF DeleteCounters, Lose
<1>13. CASE IncrementUnanswered(i)
  <2> DEFINE B == Head(sent[i]).batch
  <2>1. /\ Next1(i, "incr") /\ Answer(i) /\ hash' = hash \cup B /\ lost' = lost
        /\ again' = [again EXCEPT ![i] = B]
    BY <1>13 DEF IncrementUnanswered
  <2>2. B \subseteq OnTheWay(i)
    BY <2>1, AnswerMoves, TypeFacts DEF MetricsInvariant
  <2> HIDE DEF B
  <2>3. B \cap (lost["exited"] \cup lost["failed"]) = {}
    BY <1>1, <2>2 DEF MetricsInvariant, Apart, LostApart
  <2>4. \A j \in Instances : again'[j] = IF j = i THEN B ELSE again[j]
    BY <1>1, <2>1
  <2> QED
    BY <2>1, <2>3, <2>4 DEF AgainKept
<1>14. CASE IncrementAgain(i)
  <2>1. /\ hash' = hash \cup again[i] /\ lost' = [lost EXCEPT ![gone] = @ \ again[i]]
        /\ again' = [again EXCEPT ![i] = {}]
    BY <1>14 DEF IncrementAgain
  <2>2. /\ lost'[gone] = lost[gone] \ again[i]
        /\ lost'["exited"] = lost["exited"] /\ lost'["failed"] = lost["failed"]
        /\ \A j \in Instances : again'[j] \subseteq again[j]
    BY <1>1, <2>1
  <2> QED
    BY <1>2, <2>1, <2>2, AgainStays
<1> QED
  BY <1>7, <1>8, <1>9, <1>10, <1>11, <1>12, <1>13, <1>14 DEF InstanceNext, Serve, MetricsFault

LEMMA IdleStep == MetricsInvariant /\ UNCHANGED metricsVars => MetricsInvariant'
<1> SUFFICES ASSUME MetricsInvariant, UNCHANGED metricsVars PROVE MetricsInvariant'
  OBVIOUS
<1>1. /\ up' = up /\ buffer' = buffer /\ sent' = sent /\ hash' = hash /\ twice' = twice /\ again' = again
      /\ reader' = reader /\ counted' = counted /\ excused' = excused /\ lost' = lost /\ faults' = faults
  BY DEF metricsVars
<1>2. /\ sent' \in [Instances -> Seq(Commands)]
      /\ \A j \in Instances : OnTheWay(j)' = OnTheWay(j) /\ Disjoint(sent'[j])
  BY <1>1, TypeFacts, OnTheWayIs DEF MetricsInvariant, Apart, WireApart
<1> QED
  BY <1>1, <1>2, ReaderMoves, TypeFacts DEF MetricsInvariant, MetricsTypeOK

\* The sum of an answered reading.
LEMMA Totals ==
  ASSUME MetricsInvariant, NEW p \in Readers, reader[p].stage = "answered"
  PROVE  Total(p) \in Nat /\ Total(p) <= Cardinality(counted) + reader[p].extra
<1> DEFINE stored == reader[p].stored  mine == buffer[reader[p].at]
<1>1. reader[p].at \in Instances /\ stored \subseteq counted /\ stored \cap mine = {}
  BY DEF MetricsInvariant, ReadApart
<1>2. mine \subseteq counted /\ counted \subseteq Events /\ reader[p].extra \in Nat
  BY <1>1 DEF MetricsInvariant, MetricsTypeOK, Located, Reads
<1>3. IsFiniteSet(counted) /\ IsFiniteSet(stored) /\ IsFiniteSet(mine)
  BY <1>1, <1>2, FS_Subset
<1> DEFINE both == stored \cup mine
<1>4. both \subseteq counted
  BY <1>1, <1>2
<1>5. /\ Cardinality(counted) \in Nat /\ Cardinality(stored) \in Nat /\ Cardinality(mine) \in Nat
      /\ Cardinality(both) <= Cardinality(counted)
  BY <1>3, <1>4, FS_CardinalityType, FS_Subset
<1>6. Cardinality(stored \cap mine) = 0
  BY <1>1, FS_EmptySet
<1>7. Cardinality(both) = Cardinality(stored) + Cardinality(mine) - Cardinality(stored \cap mine)
  BY <1>3, FS_Union
<1>8. Cardinality(both) = Cardinality(stored) + Cardinality(mine)
  BY <1>5, <1>6, <1>7
<1>9. Total(p) = reader[p].extra + Cardinality(stored) + Cardinality(mine)
  BY DEF Total
<1> HIDE DEF both, stored, mine
<1> QED
  BY <1>2, <1>5, <1>8, <1>9

ObsInvariant == MetricsInvariant /\ AgainKept /\ shown \in Nat /\ slow \in Nat \cup {None}

\* The page and the scrapers change no count.
LEMMA ObsStep == ObsInvariant /\ [ObsNext]_obsVars => ObsInvariant'
<1> SUFFICES ASSUME ObsInvariant, [ObsNext]_obsVars PROVE ObsInvariant'
  OBVIOUS
<1> USE DEF ObsInvariant
<1>1. ASSUME NEW i \in Instances, InstanceNext(i) /\ UNCHANGED <<shown, slow>>
      PROVE  ObsInvariant'
  BY <1>1, InstanceStep, AgainStep
<1>2. ASSUME NEW p \in Readers, Tick(p) PROVE ObsInvariant'
  <2>1. PICK i \in Instances : AskCounters(p, i)
    BY <1>2 DEF Tick
  <2>2. MetricsInvariant' /\ AgainKept'
    BY <2>1, AskCountersStep DEF AskCounters, AgainKept
  <2> QED
    BY <1>2, <2>2 DEF Tick
<1>3. ASSUME NEW p \in Readers, Snapshot(p) \/ SnapshotDelayed(p) \/ Scrape(p)
      PROVE  ObsInvariant'
  <2>1. SumUp(p) /\ reader[p].stage = "answered"
    BY <1>3 DEF Snapshot, SnapshotDelayed, Scrape, SumUp
  <2>2. MetricsInvariant' /\ AgainKept' /\ Total(p) \in Nat
    BY <2>1, SumUpStep, Totals DEF SumUp, AgainKept
  <2> QED
    BY <1>3, <2>2 DEF Snapshot, SnapshotDelayed, Scrape
<1>4. CASE Render
  BY <1>4, IdleStep DEF Render, AgainKept, metricsVars
<1>5. CASE UNCHANGED obsVars
  BY <1>5, IdleStep DEF obsVars, AgainKept, metricsVars
<1> QED
  BY <1>1, <1>2, <1>3, <1>4, <1>5 DEF ObsNext

LEMMA ObsInvariantHolds == ObsSpec => []ObsInvariant
<1>1. ObsInit => ObsInvariant
  BY MetricsInitial DEF ObsInit, ObsInvariant, AgainKept, MetricsInit
<1> QED
  BY <1>1, ObsStep, PTL DEF ObsSpec

-----------------------------------------------------------------------------
(* A reset clears what its own process had counted *)

\* A connection delivers in order.  So what a DEL names of the time before it is
\* neither behind it on its connection nor in the buffer of its process, except
\* for what a failed flush put back.
Swept(s, left, except, made) ==
  \A k \in DOMAIN s : s[k].op = "del" =>
    /\ s[k].batch \subseteq made
    /\ s[k].batch \cap left \subseteq except
    /\ \A m \in DOMAIN s : k < m /\ s[m].op = "incr" => s[k].batch \cap s[m].batch \subseteq except

SweptInvariant == \A i \in Instances : Swept(sent[i], buffer[i], excused, counted)

\* A flush moves counts from the buffer to the end of the connection; a reset
\* names any of those made, and leaves none in the buffer.
LEMMA SweptSend ==
  ASSUME NEW s \in Seq(Commands), NEW c \in Commands,
         NEW left, NEW left2, NEW except, NEW made, Swept(s, left, except, made),
         left2 \subseteq left, c.op = "incr" => c.batch \subseteq left,
         c.op = "del" => c.batch \subseteq made /\ left2 = {}
  PROVE  Swept(Append(s, c), left2, except, made)
<1> DEFINE t == Append(s, c)
<1>1. /\ t[Len(s) + 1] = c /\ \A k \in 1..Len(s) : t[k] = s[k]
      /\ DOMAIN s = 1..Len(s) /\ DOMAIN t = 1..(Len(s) + 1) /\ Len(s) \in Nat
  BY AppendProperties
<1> HIDE DEF t
<1> SUFFICES ASSUME NEW k \in DOMAIN t, t[k].op = "del"
             PROVE  /\ t[k].batch \subseteq made /\ t[k].batch \cap left2 \subseteq except
                    /\ \A m \in DOMAIN t : k < m /\ t[m].op = "incr" =>
                         t[k].batch \cap t[m].batch \subseteq except
  BY DEF Swept, t
<1>2. CASE k \in DOMAIN s
  <2>1. t[k] = s[k]
    BY <1>1, <1>2
  <2>2. /\ t[k].batch \subseteq made /\ t[k].batch \cap left \subseteq except
        /\ \A m \in DOMAIN s : k < m /\ s[m].op = "incr" => t[k].batch \cap s[m].batch \subseteq except
    BY <1>2, <2>1 DEF Swept
  <2>3. ASSUME NEW m \in DOMAIN t, k < m, t[m].op = "incr"
        PROVE  t[k].batch \cap t[m].batch \subseteq except
    <3>1. CASE m \in DOMAIN s
      BY <1>1, <2>2, <2>3, <3>1
    <3>2. CASE m = Len(s) + 1
      BY <1>1, <2>2, <2>3, <3>2
    <3> QED
      BY <1>1, <3>1, <3>2
  <2> QED
    BY <2>2, <2>3
<1>3. CASE k = Len(s) + 1
  <2>1. t[k] = c /\ \A m \in DOMAIN t : ~(k < m)
    BY <1>1, <1>3
  <2> QED
    BY <2>1
<1> QED
  BY <1>1, <1>2, <1>3

\* An answer takes the head of the connection away, and may put its counts back.
LEMMA SweptAnswer ==
  ASSUME NEW s \in Seq(Commands), s # << >>,
         NEW left, NEW left2, NEW except, NEW except2, NEW made, Swept(s, left, except, made),
         except \subseteq except2, left2 \subseteq left \cup except2
  PROVE  /\ Swept(Tail(s), left2, except2, made)
         /\ Head(s).op = "del" => Head(s).batch \cap (left \cup Batches(Tail(s))) \subseteq except
<1> DEFINE t == Tail(s)
<1>1. /\ Head(s) = s[1] /\ Len(s) \in Nat \ {0}
      /\ DOMAIN s = 1..Len(s) /\ DOMAIN t = 1..(Len(s) - 1)
      /\ \A k \in 1..(Len(s) - 1) : t[k] = s[k + 1]
  BY HeadTailProperties
<1> HIDE DEF t
<1>2. \A k \in DOMAIN t : k \in Int /\ k + 1 \in DOMAIN s /\ 1 < k + 1 /\ t[k] = s[k + 1]
  BY <1>1
<1>3. 1 \in DOMAIN s
  BY <1>1
<1>4. Swept(t, left2, except2, made)
  <2> SUFFICES ASSUME NEW k \in DOMAIN t, t[k].op = "del"
               PROVE  /\ t[k].batch \subseteq made /\ t[k].batch \cap left2 \subseteq except2
                      /\ \A m \in DOMAIN t : k < m /\ t[m].op = "incr" =>
                           t[k].batch \cap t[m].batch \subseteq except2
    BY DEF Swept
  <2>1. /\ t[k].batch \subseteq made /\ t[k].batch \cap left \subseteq except
        /\ \A m \in DOMAIN s : k + 1 < m /\ s[m].op = "incr" =>
             t[k].batch \cap s[m].batch \subseteq except
    BY <1>2 DEF Swept
  <2>2. ASSUME NEW m \in DOMAIN t, k < m, t[m].op = "incr"
        PROVE  t[k].batch \cap t[m].batch \subseteq except
    <3>1. m + 1 \in DOMAIN s /\ k + 1 < m + 1 /\ t[m] = s[m + 1]
      BY <1>2, <2>2
    <3> QED
      BY <2>1, <2>2, <3>1
  <2> QED
    BY <2>1, <2>2
<1>5. ASSUME Head(s).op = "del" PROVE Head(s).batch \cap (left \cup Batches(t)) \subseteq except
  <2>1. /\ Head(s).batch \cap left \subseteq except
        /\ \A m \in DOMAIN s : 1 < m /\ s[m].op = "incr" =>
             Head(s).batch \cap s[m].batch \subseteq except
    BY <1>1, <1>3, <1>5 DEF Swept
  <2>2. ASSUME NEW e \in Batches(t), e \in Head(s).batch PROVE e \in except
    <3>1. PICK k \in DOMAIN t : t[k].op = "incr" /\ e \in t[k].batch
      BY <2>2, InBatches
    <3> QED
      BY <1>2, <2>1, <2>2, <3>1
  <2> QED
    BY <2>1, <2>2
<1> QED
  BY <1>4, <1>5 DEF t

\* What enters a buffer otherwise is new or excused.
LEMMA SweptStays ==
  ASSUME NEW s, NEW left, NEW left2, NEW except, NEW except2, NEW made, NEW made2,
         Swept(s, left, except, made), except \subseteq except2, made \subseteq made2,
         \A e \in left2 : e \in left \/ e \notin made
  PROVE  Swept(s, left2, except2, made2)
BY DEF Swept

\* A process sends something.
LEMMA SendSweeps ==
  ASSUME MetricsTypeOK, SweptInvariant, NEW i \in Instances,
         NEW op \in {"incr", "get", "del"}, NEW batch \in SUBSET Events, NEW p \in Readers \cup {None},
         Send(i, op, batch, p), UNCHANGED <<excused, counted>>,
         \A j \in Instances : buffer'[j] \subseteq buffer[j],
         op = "incr" => batch \subseteq buffer[i],
         op = "del" => batch \subseteq counted /\ buffer'[i] = {}
  PROVE  SweptInvariant'
<1> DEFINE c == [op |-> op, batch |-> batch, by |-> p]
<1>1. c \in Commands /\ c.op = op /\ c.batch = batch
  BY DEF Commands
<1>2. sent' = [sent EXCEPT ![i] = Append(sent[i], c)]
  BY DEF Send
<1> HIDE DEF c
<1>3. /\ sent'[i] = Append(sent[i], c) /\ sent[i] \in Seq(Commands)
      /\ \A j \in Instances \ {i} : sent'[j] = sent[j]
  BY <1>2, TypeFacts
<1>4. Swept(sent'[i], buffer'[i], excused, counted)
  BY <1>1, <1>3, SweptSend DEF SweptInvariant
<1>5. ASSUME NEW j \in Instances \ {i} PROVE Swept(sent'[j], buffer'[j], excused, counted)
  <2>1. Swept(sent[j], buffer[j], excused, counted)
    BY DEF SweptInvariant
  <2> QED
    BY <1>3, <2>1, SweptStays
<1>6. excused' = excused /\ counted' = counted
  OBVIOUS
<1> QED
  BY <1>4, <1>5, <1>6 DEF SweptInvariant

\* A process has something answered.
LEMMA AnswerSweeps ==
  ASSUME MetricsTypeOK, SweptInvariant, NEW i \in Instances, sent[i] # << >>, Answer(i),
         counted' = counted, excused \subseteq excused',
         buffer'[i] \subseteq buffer[i] \cup excused',
         \A j \in Instances \ {i} : buffer'[j] = buffer[j]
  PROVE  SweptInvariant'
<1>1. /\ sent'[i] = Tail(sent[i]) /\ sent[i] \in Seq(Commands)
      /\ \A j \in Instances \ {i} : sent'[j] = sent[j]
  BY TypeFacts DEF Answer
<1>2. Swept(sent'[i], buffer'[i], excused', counted)
  BY <1>1, SweptAnswer DEF SweptInvariant
<1>3. ASSUME NEW j \in Instances \ {i} PROVE Swept(sent'[j], buffer'[j], excused', counted)
  <2>1. Swept(sent[j], buffer[j], excused, counted)
    BY DEF SweptInvariant
  <2> QED
    BY <1>1, <2>1, SweptStays
<1> QED
  BY <1>2, <1>3 DEF SweptInvariant

\* A connection closes, or nothing is sent or answered.
LEMMA QuietSweeps ==
  ASSUME SweptInvariant, excused \subseteq excused', counted \subseteq counted',
         \A j \in Instances : sent'[j] = sent[j] \/ sent'[j] = << >>,
         \A j \in Instances : \A e \in buffer'[j] : e \in buffer[j] \/ e \notin counted
  PROVE  SweptInvariant'
<1> SUFFICES ASSUME NEW j \in Instances PROVE Swept(sent'[j], buffer'[j], excused', counted')
  BY DEF SweptInvariant
<1>1. CASE sent'[j] = sent[j]
  <2>1. Swept(sent[j], buffer[j], excused, counted)
    BY DEF SweptInvariant
  <2> QED
    BY <1>1, <2>1, SweptStays
<1>2. CASE sent'[j] = << >>
  BY <1>2 DEF Swept
<1> QED
  BY <1>1, <1>2

LEMMA InstanceSweeps ==
  ASSUME MetricsInvariant, SweptInvariant, NEW i \in Instances, InstanceNext(i)
  PROVE  SweptInvariant'
<1>1. MetricsTypeOK /\ sent \in [Instances -> Seq(Commands)] /\ buffer \in [Instances -> SUBSET Events]
      /\ excused \subseteq Events /\ counted \subseteq Events
  BY TypeFacts DEF MetricsInvariant
<1>2. CASE Flush(i) \/ Terminate(i)
  <2>1. /\ Send(i, "incr", buffer[i], None) /\ buffer' = [buffer EXCEPT ![i] = {}]
        /\ UNCHANGED <<excused, counted>>
    BY <1>2 DEF Flush, Terminate, TakeBuffer
  <2>2. \A j \in Instances : buffer'[j] \subseteq buffer[j]
    BY <1>1, <2>1
  <2>3. buffer[i] \in SUBSET Events
    BY <1>1
  <2> QED
    BY <1>1, <2>1, <2>2, <2>3, SendSweeps
<1>3. CASE StartReset(i)
  <2>1. /\ Send(i, "del", counted, None) /\ buffer' = [buffer EXCEPT ![i] = {}]
        /\ UNCHANGED <<excused, counted>>
    BY <1>3 DEF StartReset, Clear
  <2>2. buffer'[i] = {} /\ \A j \in Instances : buffer'[j] \subseteq buffer[j]
    BY <1>1, <2>1
  <2> QED
    BY <1>1, <2>1, <2>2, SendSweeps
<1>4. CASE Increment(i) \/ IncrementUnanswered(i) \/ ErrorUnseen(i) \/ GetAll(i) \/ DeleteCounters(i)
           \/ RequestFails(i)
  <2>1. sent[i] # << >> /\ Answer(i) /\ UNCHANGED <<buffer, excused, counted>>
    BY <1>4 DEF Increment, IncrementUnanswered, ErrorUnseen, GetAll, DeleteCounters, RequestFails, Next1
  <2> QED
    BY <1>1, <2>1, AnswerSweeps
<1>5. CASE PutBack(i)
  <2>1. /\ sent[i] # << >> /\ Answer(i) /\ counted' = counted
        /\ buffer' = [buffer EXCEPT ![i] = @ \cup Head(sent[i]).batch]
        /\ excused' = excused \cup Head(sent[i]).batch
    BY <1>5 DEF PutBack, Next1
  <2>2. /\ buffer'[i] \subseteq buffer[i] \cup excused'
        /\ \A j \in Instances \ {i} : buffer'[j] = buffer[j]
    BY <1>1, <2>1
  <2> QED
    BY <1>1, <2>1, <2>2, AnswerSweeps
<1>6. CASE Exit(i) \/ Kill(i) \/ Restart(i) \/ IncrementAgain(i)
  <2>1. UNCHANGED <<sent, excused, counted>> /\ buffer' \in {buffer, [buffer EXCEPT ![i] = {}]}
    BY <1>6 DEF Exit, Kill, Restart, IncrementAgain
  <2>2. \A j \in Instances : buffer'[j] \subseteq buffer[j]
    BY <1>1, <2>1
  <2> QED
    BY <2>1, <2>2, QuietSweeps
<1>7. CASE ConnectionDrops(i)
  <2>1. sent' = [sent EXCEPT ![i] = << >>] /\ UNCHANGED <<buffer, excused, counted>>
    BY <1>7 DEF ConnectionDrops
  <2>2. \A j \in Instances : sent'[j] = sent[j] \/ sent'[j] = << >>
    BY <1>1, <2>1
  <2> QED
    BY <2>1, <2>2, QuietSweeps
<1>8. ASSUME NEW e \in Events, Inc(i, e) PROVE SweptInvariant'
  <2>1. /\ e \notin counted /\ counted' = counted \cup {e} /\ excused \subseteq excused'
        /\ buffer' = [buffer EXCEPT ![i] = @ \cup {e}] /\ sent' = sent
    BY <1>8 DEF Inc
  <2>2. \A j \in Instances : \A x \in buffer'[j] : x \in buffer[j] \/ x \notin counted
    BY <1>1, <2>1
  <2> QED
    BY <2>1, <2>2, QuietSweeps
<1> QED
  BY <1>2, <1>3, <1>4, <1>5, <1>6, <1>7, <1>8 DEF InstanceNext, Serve, MetricsFault

LEMMA SweptHolds == ObsSpec => []SweptInvariant
<1>1. ObsInit => SweptInvariant
  BY DEF ObsInit, MetricsInit, SweptInvariant, Swept
<1>2. ObsInvariant /\ SweptInvariant /\ [ObsNext]_obsVars => SweptInvariant'
  <2> SUFFICES ASSUME ObsInvariant, SweptInvariant, [ObsNext]_obsVars PROVE SweptInvariant'
    OBVIOUS
  <2>1. ASSUME NEW p \in Readers, Tick(p) PROVE SweptInvariant'
    <3>1. PICK i \in Instances : AskCounters(p, i)
      BY <2>1 DEF Tick
    <3>2. Send(i, "get", {}, p) /\ UNCHANGED <<buffer, excused, counted>>
      BY <3>1 DEF AskCounters
    <3> QED
      BY <3>2, SendSweeps DEF ObsInvariant, MetricsInvariant
  <2>2. ASSUME UNCHANGED <<sent, buffer, excused, counted>> PROVE SweptInvariant'
    BY <2>2, QuietSweeps
  <2> QED
    BY <2>1, <2>2, InstanceSweeps DEF ObsInvariant, ObsNext, Snapshot, SnapshotDelayed, Scrape, SumUp,
       Render, obsVars, metricsVars
<1> QED
  BY <1>1, <1>2, ObsInvariantHolds, PTL DEF ObsSpec

-----------------------------------------------------------------------------
(* What follows *)

LEMMA PlacesAddUp == MetricsInvariant => CountedOnce
<1> SUFFICES ASSUME MetricsInvariant PROVE CountedOnce
  OBVIOUS
<1> DEFINE wires == UNION {OnTheWay(i) : i \in Instances}
           everywhere == hash \cup Buffered \cup wires \cup Lost
<1>1. \A e : e \in wires <=> \E i \in Instances : e \in OnTheWay(i)
  OBVIOUS
<1> HIDE DEF wires
<1>2. ASSUME NEW e PROVE e \in counted <=> e \in everywhere
  <2>1. e \in Buffered <=> \E i \in Instances : e \in buffer[i]
    BY DEF Buffered
  <2>2. e \in Lost <=> \E c \in Reasons : e \in lost[c]
    BY DEF Lost
  <2>3. e \in wires <=> \E i \in Instances : e \in OnTheWay(i)
    BY <1>1
  <2>4. e \in counted <=> \/ e \in hash
                          \/ \E i \in Instances : e \in buffer[i] \/ e \in OnTheWay(i)
                          \/ \E c \in Reasons : e \in lost[c]
    BY DEF MetricsInvariant, Located
  <2>5. (\E i \in Instances : e \in buffer[i] \/ e \in OnTheWay(i)) <=>
          e \in Buffered \/ e \in wires
    BY <2>1, <2>3
  <2>6. e \in everywhere <=> \/ e \in hash \/ e \in Buffered \/ e \in Lost \/ e \in wires
    OBVIOUS
  <2> HIDE DEF everywhere
  <2>7. e \in counted <=> e \in hash \/ e \in Lost \/
          (\E i \in Instances : e \in buffer[i] \/ e \in OnTheWay(i))
    BY <2>2, <2>4
  <2> QED
    BY <2>5, <2>6, <2>7
<1>3. counted = hash \cup Buffered \cup wires \cup Lost
  BY <1>2
<1>4. hash \cap Buffered = {} /\ Lost \cap (hash \cup Buffered) = {}
  <2>1. hash \cap Buffered = {}
    BY DEF MetricsInvariant, Apart, HashApart, Buffered
  <2>2. Lost \cap hash = {} /\ Lost \cap Buffered = {}
    BY DEF MetricsInvariant, Apart, LostApart, Buffered, Lost
  <2> QED
    BY <2>1, <2>2
<1>5. ASSUME NEW i \in Instances
      PROVE  /\ OnTheWay(i) \cap (hash \cup Buffered \cup Lost) = {}
             /\ \A j \in Instances \ {i} : (buffer[i] \cup OnTheWay(i)) \cap (buffer[j] \cup OnTheWay(j)) = {}
             /\ \A k, m \in DOMAIN sent[i] :
                  k # m /\ sent[i][k].op = "incr" /\ sent[i][m].op = "incr" =>
                    sent[i][k].batch \cap sent[i][m].batch = {}
  <2>1. OnTheWay(i) \cap hash = {} /\ OnTheWay(i) \cap Lost = {}
    BY DEF MetricsInvariant, Apart, HashApart, LostApart, Lost
  <2>2. ASSUME NEW j \in Instances PROVE OnTheWay(i) \cap buffer[j] = {}
    <3>1. CASE i = j
      BY <3>1 DEF MetricsInvariant, Apart, OwnApart
    <3>2. CASE i # j
      BY <3>2 DEF MetricsInvariant, Apart, OthersApart
    <3> QED
      BY <3>1, <3>2
  <2>3. OnTheWay(i) \cap Buffered = {}
    BY <2>2 DEF Buffered
  <2>4. \A j \in Instances \ {i} : (buffer[i] \cup OnTheWay(i)) \cap (buffer[j] \cup OnTheWay(j)) = {}
    BY DEF MetricsInvariant, Apart, OthersApart
  <2> QED
    BY <2>1, <2>3, <2>4 DEF MetricsInvariant, Apart, WireApart, Disjoint
<1> QED
  BY <1>3, <1>4, <1>5, Zenon DEF CountedOnce, wires

\* Whatever processes, timers, resets, resends and crashes do to the counts,
\* each is in exactly one place: no sum of metrics:counters and buffers is wrong
\* but for the pipelines that the client repeats.
THEOREM CountsStayOnce == ObsSpec => []CounterInvariant
<1>1. ObsInvariant => CounterInvariant
  BY PlacesAddUp DEF ObsInvariant, MetricsInvariant, CounterInvariant, ObsTypeOK
<1> QED
  BY <1>1, ObsInvariantHolds, PTL

\* readCounters() adds a hash and a buffer of different moments, and never more
\* than was counted.
THEOREM ReadingsNeverOverstate == ObsSpec => []NeverOverstates
<1>1. ObsInvariant => NeverOverstates
  BY Totals DEF ObsInvariant, NeverOverstates
<1> QED
  BY <1>1, ObsInvariantHolds, PTL

\* A process that onModuleDestroy() ends loses no count but what its last flush
\* could not deliver, or came after it.
THEOREM TermKeepsWhatItCan == ObsSpec => []TermKeepsCounts
<1>1. ObsInvariant => TermKeepsCounts
  BY DEF ObsInvariant, MetricsInvariant
<1> QED
  BY <1>1, ObsInvariantHolds, PTL

\* When the DEL of a reset returns, nothing that its process had counted before
\* is left in the hash, in its buffer or on its way, but for what a failed flush
\* put back: the buffer was cleared with the DEL sent, and no pipeline that was
\* sent before it can be behind it.
THEOREM ResetSweepsOwn == ObsSpec => ResetClearsOwn
<1>1. ObsInvariant /\ SweptInvariant /\ [ObsNext]_obsVars =>
        [\A i \in Instances :
           DeleteCounters(i) =>
             Head(sent[i]).batch \cap (hash \cup buffer[i] \cup OnTheWay(i))' \subseteq excused]_metricsVars
  <2> SUFFICES ASSUME ObsInvariant, SweptInvariant, NEW i \in Instances, DeleteCounters(i)
               PROVE  Head(sent[i]).batch \cap (hash \cup buffer[i] \cup OnTheWay(i))' \subseteq excused
    BY Zenon
  <2>1. /\ sent[i] # << >> /\ Head(sent[i]).op = "del" /\ Answer(i) /\ hash' = {} /\ buffer' = buffer
    BY DEF DeleteCounters, Next1
  <2>2. sent[i] \in Seq(Commands) /\ sent'[i] = Tail(sent[i])
    BY <2>1, TypeFacts DEF Answer, ObsInvariant, MetricsInvariant
  <2>3. Swept(sent[i], buffer[i], excused, counted)
    BY DEF SweptInvariant
  <2>4. /\ Swept(Tail(sent[i]), buffer[i], excused, counted)
        /\ Head(sent[i]).batch \cap (buffer[i] \cup Batches(Tail(sent[i]))) \subseteq excused
    BY <2>1, <2>2, <2>3, SweptAnswer
  <2>5. OnTheWay(i)' = Batches(Tail(sent[i]))
    BY <2>2, OnTheWayIs
  <2> QED
    BY <2>1, <2>4, <2>5
<1> QED
  BY <1>1, ObsInvariantHolds, SweptHolds, PTL DEF ObsSpec, ResetClearsOwn
=============================================================================
