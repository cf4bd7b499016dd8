-------------------------- MODULE MCConnectionStatus -------------------------
(* The links of EmeraldApiAccess, and its periods in ticks of four seconds *)
(* or so: what matters is their order.                                     *)
EXTENDS ConnectionStatus
==============================================================================
