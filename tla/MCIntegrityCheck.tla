-------------------------- MODULE MCIntegrityCheck --------------------------
(***************************************************************************)
(* IntegrityCheck for TLC: two users with one request each.                *)
(***************************************************************************)
EXTENDS IntegrityCheck, TLC

CONSTANTS r1, r2, u1, u2

MCRequests == {r1, r2}
MCUsers == {u1, u2}
MCUserOf == (r1 :> u1) @@ (r2 :> u2)

\* The buyers are alike, and so are the worker slots.
Swap(a, b) == (a :> b) @@ (b :> a)
SaleSymmetry == Permutations(Workers) \cup {Swap(r1, r2) @@ Swap(u1, u2)}

\* Units leak, and units come back twice, so that Redis admits more buyers than
\* there are units and two workers want the last one.
DriftFaults == {"AddNotStored", "CompensationNotRun",
                "CompensationResent", "CommitReplyLost", "TransactionFails",
                "WorkerCrash", "JobLockLost"}
=============================================================================
