---------------------------- MODULE MCAllowanceFeed ----------------------------
EXTENDS AllowanceFeed

(* One allowance between the wallet's two addresses, and one that a        *)
(* stranger gave to the second.                                            *)
Allowance(owner, spender) == [owner |-> owner, spender |-> spender, token |-> "T"]
MCAllowances == {Allowance("a", "b"), Allowance("o", "b")}
MCGranted == {Allowance("a", "b")}
==============================================================================
