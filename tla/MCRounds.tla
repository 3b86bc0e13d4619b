------------------------------ MODULE MCRounds ------------------------------
(***************************************************************************)
(* Rounds for TLC: two users, one of them with a request for each of two   *)
(* rounds.                                                                 *)
(***************************************************************************)
EXTENDS Rounds, TLC

CONSTANTS r1, r2, r3, u1, u2

MCRequests == {r1, r2, r3}
MCUsers == {u1, u2}
MCUserOf == (r1 :> u1) @@ (r2 :> u1) @@ (r3 :> u2)
=============================================================================
