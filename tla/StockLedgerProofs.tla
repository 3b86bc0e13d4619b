------------------------- MODULE StockLedgerProofs -------------------------
(***************************************************************************)
(* The ledger conserves units, for every finite set of requests and every  *)
(* stock, and so does whatever implements it: see PathImplementsLedger in  *)
(* ReservationProofs.                                                      *)
(***************************************************************************)
EXTENDS StockLedger, FiniteSetTheorems, TLAPS

\* What the proofs need: the state is typed and every unit is in one place.
LedgerInvariant == LedgerTypeOK /\ Conserved

\* One more request in a finite set, or one less, changes its size by one.
LEMMA OneMoreOneLess ==
  ASSUME NEW S, IsFiniteSet(S), NEW e
  PROVE  /\ Cardinality(S) \in Nat
         /\ e \notin S => Cardinality(S \cup {e}) = Cardinality(S) + 1
         /\ e \in S => Cardinality(S \ {e}) = Cardinality(S) - 1
BY FS_CardinalityType, FS_AddElement, FS_RemoveElement

\* Reserving, cancelling and confirming move one unit from one place to
\* another: gatekeeper.lua, the compensation scripts and the COMMIT.
LEMMA UnitsMove ==
  ASSUME IsFiniteSet(Requests), LedgerInvariant, [Next]_ledgerVars
  PROVE  LedgerInvariant'
<1> USE DEF LedgerInvariant, LedgerTypeOK, Conserved
<1>1. IsFiniteSet(held) /\ IsFiniteSet(sold)
  BY FS_Subset
<1>2. ASSUME NEW r \in Requests, Reserve(r) PROVE LedgerInvariant'
  <2>1. Cardinality(held \cup {r}) = Cardinality(held) + 1 /\ Cardinality(held) \in Nat
    BY <1>1, <1>2, OneMoreOneLess DEF Reserve
  <2>2. Cardinality(sold) \in Nat
    BY <1>1, OneMoreOneLess
  <2> QED
    BY <1>2, <2>1, <2>2 DEF Reserve
<1>3. ASSUME NEW r \in Requests, Cancel(r) PROVE LedgerInvariant'
  <2>1. Cardinality(held \ {r}) = Cardinality(held) - 1 /\ Cardinality(held) \in Nat
    BY <1>1, <1>3, OneMoreOneLess DEF Cancel
  <2>2. Cardinality(sold) \in Nat
    BY <1>1, OneMoreOneLess
  <2> QED
    BY <1>3, <2>1, <2>2 DEF Cancel
<1>4. ASSUME NEW r \in Requests, Confirm(r) PROVE LedgerInvariant'
  <2>1. Cardinality(held \ {r}) = Cardinality(held) - 1 /\ Cardinality(held) \in Nat
    BY <1>1, <1>4, OneMoreOneLess DEF Confirm
  <2>2. Cardinality(sold \cup {r}) = Cardinality(sold) + 1 /\ Cardinality(sold) \in Nat
    BY <1>1, <1>4, OneMoreOneLess DEF Confirm
  <2> QED
    BY <1>4, <2>1, <2>2 DEF Confirm
<1>5. CASE UNCHANGED ledgerVars
  BY <1>5 DEF ledgerVars
<1> QED
  BY <1>2, <1>3, <1>4, <1>5 DEF Next

\* Every unit of the stock is on the shelf, held by one request or sold to one,
\* in every reachable state of the ledger.
THEOREM LedgerConserves ==
  ASSUME IsFiniteSet(Requests), Stock \in Nat
  PROVE  Spec => []Conserved
<1>1. Init => LedgerInvariant
  BY FS_EmptySet DEF Init, LedgerInvariant, LedgerTypeOK, Conserved
<1>2. LedgerInvariant /\ [Next]_ledgerVars => LedgerInvariant'
  BY UnitsMove
<1>3. LedgerInvariant => Conserved
  BY DEF LedgerInvariant
<1> QED
  BY <1>1, <1>2, <1>3, PTL DEF Spec
=============================================================================
