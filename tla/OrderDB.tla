------------------------------ MODULE OrderDB ------------------------------
(***************************************************************************)
(* PostgreSQL master, as one order transaction sees it: the product row    *)
(* with its row lock, and the orders table with its UNIQUE (user, product) *)
(* constraint.  An order row is remembered by the request that paid for    *)
(* it; the code stores the user and the product only.                      *)
(***************************************************************************)
EXTENDS OrderQueue

VARIABLES
  remaining,  \* products.remaining_stock, committed
  orders,     \* committed order rows
  rowLock     \* worker whose open transaction updated the product row, or None

dbVars == <<remaining, orders, rowLock>>

DBTypeOK ==
  /\ remaining \in Nat
  /\ orders \subseteq Requests
  /\ rowLock \in Workers \cup {None}

DBInit ==
  /\ remaining = Stock
  /\ orders = {}
  /\ rowLock = None

\* A committed row has the (user, product) of request r.
Ordered(u) == \E o \in orders : UserOf[o] = u

-----------------------------------------------------------------------------
\* Mutation of DecrementRow: no AND remaining_stock > 0.
DecrementAlways(w) ==
  /\ rowLock = None
  /\ rowLock' = w
  /\ UNCHANGED <<remaining, orders>>

\* UPDATE ... SET remaining_stock = remaining_stock - 1 WHERE remaining_stock > 0
\* waits for the row lock and affects the row; others see it at commit.
DecrementRow(w) ==
  /\ rowLock = None
  /\ remaining > 0
  /\ rowLock' = w
  /\ UNCHANGED <<remaining, orders>>

\* The same UPDATE, affecting no row.
DecrementMisses ==
  /\ rowLock = None
  /\ ~(remaining > 0)

\* Mutation of InsertAllowed: no unique constraint.
InsertAnything(r) == TRUE

\* INSERT INTO orders: UNIQUE (user_id, product_id) lets it through.
InsertAllowed(r) == ~Ordered(UserOf[r])

\* COMMIT of the decrement and the order row of request r.
CommitOrderRow(w, r) ==
  /\ rowLock = w
  /\ remaining' = remaining - 1
  /\ orders' = orders \cup {r}
  /\ rowLock' = None

\* Mutation of RollbackTransaction: the connection goes back to the pool with its
\* transaction open.
RollbackForgotten(w) == UNCHANGED dbVars

\* ROLLBACK, by the worker or by the server when the connection is gone.
RollbackTransaction(w) ==
  /\ rowLock' = IF rowLock = w THEN None ELSE rowLock
  /\ UNCHANGED <<remaining, orders>>
=============================================================================
