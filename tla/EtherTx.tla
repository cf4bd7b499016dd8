------------------------------- MODULE EtherTx -------------------------------
(***************************************************************************)
(* An Ethereum transaction while it is created: the objects CreateEtherTx, *)
(* CreateErc20Tx and those derived from them, for approvals and for        *)
(* conversions between the coin and its wrapped token, as one record.      *)
(*                                                                         *)
(* from is the sender ("approveBy", "address"), to the receiver            *)
(* ("allowFor"), owner whose tokens are sent on an allowance               *)
(* ("transferFrom"); coins and tokens are the balances the object was last *)
(* given.  price is that of the fee scheme it has (maxGasPrice of EIP-1559,*)
(* gasPrice of a legacy one), spare that of the other.  All but            *)
(* replacements have both the same, and their scheme is left out.          *)
(***************************************************************************)
EXTENDS Integers

CONSTANTS Coin,      \* the coin of the blockchain; any other asset is a token
          Wrapped,   \* the token the coin converts to
          Infinite   \* the amount of an unrestricted allowance

Nobody == "nobody"
Unread == -1         \* a balance the object was not given

DefaultGas(kind, asset) == IF asset = Coin /\ kind # "convert" THEN 1 ELSE 2

NewTx(kind, asset) ==
  [kind |-> kind, asset |-> asset, amount |-> 0, target |-> "manual", from |-> Nobody,
   to |-> Nobody, owner |-> Nobody, gas |-> DefaultGas(kind, asset),
   eip1559 |-> TRUE, price |-> 0, spare |-> 0, coins |-> Unread, tokens |-> Unread, nonce |-> Unread]

MaxGasPrice(tx) == IF tx.eip1559 THEN tx.price ELSE tx.spare

GasFees(tx) == tx.gas * tx.price

Covered(tx, coins, tokens) ==
  IF tx.asset = Coin THEN tx.amount + GasFees(tx) <= coins
                     ELSE tx.amount <= tokens /\ GasFees(tx) <= coins

(* validateTarget(): what is to be sent is all there is.                   *)
IsAll(tx, coins, tokens) ==
  IF tx.asset = Coin THEN tx.amount + GasFees(tx) = coins ELSE tx.amount = tokens

(* validate(): a replacement is not looked at, an approval hardly.         *)
Validates(tx) ==
  CASE tx.kind \in {"cancel", "speedup"} -> TRUE
    [] tx.kind = "approve" -> tx.from # Nobody /\ tx.to # Nobody
    [] OTHER -> /\ tx.amount > 0
                /\ tx.kind = "convert" \/ (tx.from # Nobody /\ tx.to # Nobody)
                /\ Covered(tx, tx.coins, tx.tokens)
                /\ tx.target = "all" => IsAll(tx, tx.coins, tx.tokens)

(* rebalance() returns whether the target could be met ...                 *)
Rebalances(tx) == tx.target = "all" /\ tx.asset = Coin => tx.coins >= GasFees(tx)

(* ... and leaves the amount as it was if not.                             *)
Rebalanced(tx) ==
  CASE tx.target = "infinite" -> [tx EXCEPT !.amount = Infinite]
    [] tx.target = "max" -> [tx EXCEPT !.amount = tx.tokens]
    [] tx.target = "all" /\ tx.asset # Coin -> [tx EXCEPT !.amount = tx.tokens]
    [] tx.target = "all" /\ tx.asset = Coin /\ tx.coins >= GasFees(tx) ->
         [tx EXCEPT !.amount = tx.coins - GasFees(tx)]
    [] OTHER -> tx

(* build(): what the transaction does.  A cancelled one does nothing, but  *)
(* goes where it went; a sped up one is the transfer its class makes.      *)
Method(tx) ==
  CASE tx.kind = "cancel" -> "none"
    [] tx.kind = "approve" -> "approve"
    [] tx.kind = "convert" -> IF tx.asset = Coin THEN "deposit" ELSE "withdraw"
    [] OTHER -> IF tx.asset = Coin THEN "none"
                ELSE IF tx.owner = Nobody THEN "transfer" ELSE "transferFrom"

Call(tx) ==
  [method |-> Method(tx),
   contract |-> IF tx.kind = "convert" THEN Wrapped ELSE tx.asset,
   owner |-> tx.owner, to |-> tx.to,
   amount |-> IF tx.kind = "cancel" THEN 0 ELSE tx.amount]
==============================================================================
