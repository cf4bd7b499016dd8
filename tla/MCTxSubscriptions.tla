-------------------------- MODULE MCTxSubscriptions --------------------------
(* Two wallets with one feed each; the identifier of the second is not one *)
(* the service understands.                                                *)
EXTENDS TxSubscriptions

CONSTANTS w1, w2, f1, f2, i1, i2

MCWalletOf == [f \in Feeds |-> IF f = f1 THEN w1 ELSE w2]
MCIdOf == [f \in Feeds |-> IF f = f1 THEN i1 ELSE i2]
==============================================================================
