------------------------------ MODULE MCTxFeed -------------------------------
(* One transaction with two events, and two subscriptions, so that an      *)
(* older flow overlaps a newer one.                                        *)
EXTENDS TxFeed
==============================================================================
