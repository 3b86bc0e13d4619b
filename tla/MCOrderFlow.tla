---------------------------- MODULE MCOrderFlow ----------------------------
(***************************************************************************)
(* OrderFlow for TLC: who sends which request, and the sets of faults the  *)
(* runs tolerate.                                                          *)
(***************************************************************************)
EXTENDS OrderFlowInv, TLC

CONSTANTS r1, r2, r3, u1, u2

\* Two requests of one user compete with each other and with a third.
MCRequests == {r1, r2, r3}
MCUsers == {u1, u2}
MCUserOf == (r1 :> u1) @@ (r2 :> u1) @@ (r3 :> u2)

\* One user that sends two requests.
MCTwice == {r1, r2}
MCOne == {u1}
MCTwiceOf == (r1 :> u1) @@ (r2 :> u1)

\* Two users with one request each.
MCRivals == {r1, r3}
MCRivalsOf == (r1 :> u1) @@ (r3 :> u2)

SlotSymmetry == Permutations(Workers)
\* The two requests of the one user are alike, too.
TwiceSymmetry == Permutations(Workers) \cup Permutations(MCTwice)

\* Every fault that may happen in these leaves Redis and PostgreSQL in no doubt
\* of each other (no job loses its worker, so that none can be stalled out).
NotAmbiguousFaults == AllFaults \ (AmbiguousFaults \cup {"StalledOut"})
\* Every failure of these is noticed and compensated for by the code, and the
\* lock outlives its purchase.
LockKeptFaults == {"GatekeeperReplyLost", "GatekeeperNotRun", "AddNotStored",
                   "TransactionFails", "Trim"}
CrashFaults == {"WorkerCrash", "StalledOut", "LockTtl", "PostCommitFails"}
=============================================================================
