--------------------------- MODULE Observability ---------------------------
(***************************************************************************)
(* The counters on their way to the operator: the insights page asks every *)
(* three seconds, through the load balancer, whichever process is up, and  *)
(* does not wait for the answer to its last question.  A scraper asks      *)
(* GET admin/metrics, which is answered from readings of the same kind.    *)
(***************************************************************************)
EXTENDS Metrics

VARIABLES
  shown,  \* the sum the page shows
  slow    \* an answer still on its way, or None (bound: one at a time)

obsVars == <<metricsVars, shown, slow>>

ObsTypeOK == MetricsTypeOK /\ shown \in Nat /\ slow \in Nat \cup {None}

ObsInit == MetricsInit /\ shown = 0 /\ slow = None

-----------------------------------------------------------------------------
\* tick(): the timer of the page.
Tick(p) == \E i \in Instances : AskCounters(p, i) /\ UNCHANGED <<shown, slow>>

\* snapshot() has all its parts and answers; the page draws the answer.
Snapshot(p) == SumUp(p) /\ shown' = Total(p) /\ UNCHANGED slow

\* The same answer, on a slow way: later ones may overtake it.
SnapshotDelayed(p) == SumUp(p) /\ slow = None /\ slow' = Total(p) /\ UNCHANGED shown

\* prometheus() answers with its reading, and the page learns nothing.
Scrape(p) == SumUp(p) /\ UNCHANGED <<shown, slow>>

\* Mutation of Render: the page keeps the larger number.
RenderMaximum ==
  /\ slow # None
  /\ shown' = IF slow > shown THEN slow ELSE shown
  /\ slow' = None
  /\ UNCHANGED metricsVars

\* tick() draws what arrives, whichever question it answers.
Render ==
  /\ slow # None
  /\ shown' = slow
  /\ slow' = None
  /\ UNCHANGED metricsVars

ObsNext ==
  \/ \E i \in Instances : InstanceNext(i) /\ UNCHANGED <<shown, slow>>
  \/ \E p \in Readers : Tick(p) \/ Snapshot(p) \/ SnapshotDelayed(p) \/ Scrape(p)
  \/ Render

ObsSpec == ObsInit /\ [][ObsNext]_obsVars

Runs(A) == A /\ UNCHANGED <<shown, slow>>

\* The timers of processes and page keep firing while they run, what was asked
\* is answered (a reading is the page's again and again: strong fairness, since
\* any of them may be the scraper's), a process that is told to stop does, and
\* the container of a dead one is started again.
ObsFairness ==
  /\ \A i \in Instances :
       /\ WF_obsVars(Runs(Flush(i)))
       /\ WF_obsVars(Runs(Serve(i) \/ ConnectionDrops(i)))
       /\ SF_obsVars(Runs(Exit(i)))
       /\ WF_obsVars(Runs(Restart(i)))
  /\ \A p \in Readers : WF_obsVars(Tick(p)) /\ SF_obsVars(Snapshot(p) \/ SnapshotDelayed(p))
  /\ WF_obsVars(Render)

ObsFairSpec == ObsSpec /\ ObsFairness

-----------------------------------------------------------------------------
CounterInvariant == ObsTypeOK /\ CountedOnce

\* Whatever is counted reaches the shared hash, or is lost for a reason that
\* has a name: no count stays in a buffer.
CountsArrive == \A e \in Events : e \in counted ~> e \in hash \cup Lost

\* The page shows the truth in the end: late and overtaken answers, read at
\* different processes, cannot keep it from the number in the hash.
PageCatchesUp == <>[](shown = Cardinality(hash) + Cardinality(twice))
=============================================================================
