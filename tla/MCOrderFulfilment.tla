------------------------- MODULE MCOrderFulfilment -------------------------
(* Small instances of OrderFulfilment for TLC.                              *)
EXTENDS OrderFulfilment, TLC

CONSTANTS o1, o2, t1, t2, d1, d2, p1, p2

(* The amounts of the credits.                                              *)
SameAmounts == t1 :> 1 @@ t2 :> 1

(* Every credit is in every window; the memo of t1 names both depositors,   *)
(* that of t2 only the second one.                                          *)
AllPairs == Orders \X Txns
SomePairs == {<<o1, t1>>, <<o2, t1>>, <<o2, t2>>}
NoPairs == {}
NoTxns == [t \in {} |-> 1]

ProcSymmetry == Permutations(Procs)
=============================================================================
