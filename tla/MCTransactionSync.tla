-------------------------- MODULE MCTransactionSync --------------------------
(***************************************************************************)
(* TransactionSync on two addresses that share a transaction.              *)
(***************************************************************************)
EXTENDS TransactionSync

CONSTANTS alice, bob

Addresses == {alice, bob}

\* Alice has up to five transactions, one of them with Bob, who has two.
Parties == [t \in 1..6 |-> CASE t = 2 -> {alice, bob} [] t = 4 -> {bob} [] OTHER -> {alice}]

\* All, the recent end, and a window in the past.
Filters == {[from |-> 1, to |-> 6], [from |-> 3, to |-> 6], [from |-> 2, to |-> 3]}
=============================================================================
