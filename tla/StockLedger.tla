---------------------------- MODULE StockLedger ----------------------------
(***************************************************************************)
(* What the flash sale promises about the units of one product, with no    *)
(* Redis, queue, worker or database in sight: a unit is on the shelf, held *)
(* for one purchase request that is being decided, or sold.  A request     *)
(* takes a unit from the shelf, and then either gives that same unit back, *)
(* once, or buys it, for good.                                             *)
(*                                                                         *)
(* OrderFlow, the detailed specification of the write path, is shown to    *)
(* implement this one as long as no fault makes Redis and PostgreSQL       *)
(* disagree about whether a sale happened.                                 *)
(***************************************************************************)
EXTENDS Naturals, FiniteSets

CONSTANTS
  Requests,  \* purchase requests, one per POST /orders call
  Stock      \* units on the shelf when the sale opens

VARIABLES
  free,  \* units on the shelf
  held,  \* requests that hold a unit and are not decided
  sold   \* requests that bought a unit

ledgerVars == <<free, held, sold>>

LedgerTypeOK ==
  /\ free \in Nat
  /\ held \subseteq Requests
  /\ sold \subseteq Requests

Init ==
  /\ free = Stock
  /\ held = {}
  /\ sold = {}

-----------------------------------------------------------------------------
\* The gatekeeper hands a unit of the shelf to a request.
Reserve(r) ==
  /\ free > 0
  /\ r \notin held \cup sold
  /\ free' = free - 1
  /\ held' = held \cup {r}
  /\ UNCHANGED sold

\* A compensation puts the unit of an undecided request back on the shelf.
Cancel(r) ==
  /\ r \in held
  /\ free' = free + 1
  /\ held' = held \ {r}
  /\ UNCHANGED sold

\* The database commits the order: the unit leaves for good.
Confirm(r) ==
  /\ r \in held
  /\ held' = held \ {r}
  /\ sold' = sold \cup {r}
  /\ UNCHANGED free

Next == \E r \in Requests : Reserve(r) \/ Cancel(r) \/ Confirm(r)

Spec == Init /\ [][Next]_ledgerVars

-----------------------------------------------------------------------------
\* Every unit is in exactly one place: nothing is created, lost or sold twice.
Conserved ==
  /\ held \cap sold = {}
  /\ free + Cardinality(held) + Cardinality(sold) = Stock
=============================================================================
