-------------------------- MODULE RestaurantBalance --------------------------
(***************************************************************************)
(* One row of restaurant_balances and the four statements finance.repo.ts  *)
(* runs on it.  Each is a single UPDATE (or UPSERT) with relative          *)
(* arithmetic, so the row lock makes it atomic: an operator from the row   *)
(* before to the row after.  A row that breaks a CHECK constraint, or      *)
(* leaves the INT range of the columns, aborts the caller's transaction:   *)
(* the actions that use these operators have RowOK of the result as guard. *)
(***************************************************************************)
EXTENDS Integers

\* The largest value of an INT column (2^31 - 1 in PostgreSQL).
CONSTANT IntMax

ASSUME IntMaxAssumption == IntMax \in Nat

\* open: the row exists (it is inserted by the restaurant's first credit).
NoRow == [open |-> FALSE, available |-> 0, pending |-> 0, earned |-> 0]

AtLeastZero(n) == IF n > 0 THEN n ELSE 0

\* INSERT ... ON CONFLICT DO UPDATE
Credit(row, amount) ==
    [row EXCEPT !.open    = TRUE,
                !.pending = @ + amount,
                !.earned  = @ + amount]

\* Drains pending first, then available; an UPDATE of no row does nothing.
Debit(row, amount) ==
    IF row.open
    THEN [row EXCEPT !.pending   = AtLeastZero(@ - amount),
                     !.available = @ - AtLeastZero(amount - row.pending),
                     !.earned    = @ - amount]
    ELSE row

Settle(row, amount, commission) ==
    IF row.open
    THEN [row EXCEPT !.pending   = @ - amount,
                     !.available = @ + (amount - commission)]
    ELSE row

\* The WHERE clause of the conditional decrement, and the decrement.
CanPayOut(row, amount) == row.open /\ row.available >= amount

PayOut(row, amount) == [row EXCEPT !.available = @ - amount]

\* The three CHECK (... >= 0) constraints and the width of the columns.
RowOK(row) ==
    /\ row.available \in 0..IntMax
    /\ row.pending   \in 0..IntMax
    /\ row.earned    \in 0..IntMax

Row == [open: BOOLEAN, available: 0..IntMax, pending: 0..IntMax, earned: 0..IntMax]

=============================================================================
