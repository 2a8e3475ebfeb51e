------------------------------ MODULE MCTxAggr ------------------------------
(* TxAggr on small instances.                                              *)
EXTENDS TxAggr

(* No action tells one traffic identifier from another.                    *)
TidSymmetry == Permutations(Tids)
=============================================================================
