---------------------------- MODULE MCTransactions ----------------------------
(* The pages that create a transaction, on Bitcoin or on Ethereum.  A      *)
(* behaviour opens those of one of the two.                                *)
EXTENDS MCBitcoinCreation, EtherCreation

VARIABLE chain

(* Three entries, of which one was made for a recovery; the token and the  *)
(* wrapped coin; plenty is held, or little.                                *)
MCEntries == <<"mine", "other", "wrong">>
MCTokens == <<"T", "W">>
MCFeeRanges == {[low |-> 5, std |-> 10, high |-> 20]}
Held(coins, t, w, lent) ==
  [coins |-> [e \in ToSet(MCEntries) |-> IF e = "mine" THEN coins ELSE 45],
   tokens |-> [e \in ToSet(MCEntries) |->
                 [a \in ToSet(MCTokens) |-> IF a = "T" THEN (IF e = "other" THEN 3 ELSE t)
                                                       ELSE (IF e = "other" THEN 1 ELSE w)]],
   allowed |-> [e \in ToSet(MCEntries) |->
                 [a \in ToSet(MCTokens) |-> IF e = "mine" /\ a = "T" THEN lent ELSE 0]]]
MCPlenty == Held(35, 2, 4, 5)
MCHoldings == {MCPlenty, Held(20, 0, 4, 1)}
MCEtherOriginals ==
  {[method |-> m, contract |-> IF m = "none" THEN "ETH" ELSE "T", from |-> "mine", to |-> "r",
    owner |-> IF m = "transferFrom" THEN "owner" ELSE "nobody", amount |-> 3, gas |-> 2,
    eip1559 |-> m # "none", price |-> 10, spare |-> 0, nonce |-> 7] :
     m \in {"none", "transferFrom"}}

\* Plenty is held at first, and the fees are fetched by the first page.
TransactionsInit ==
  /\ chain \in {"bitcoin", "ethereum"}
  /\ Init /\ EtherInit
  /\ fees = NoFees /\ holdings = MCPlenty
  /\ chain = "ethereum" => /\ action = CHOOSE a \in Actions : TRUE
                          /\ range = Loading

\* The Ethereum pages come to rest when the bounds are used up.
TransactionsNext ==
  \/ chain = "bitcoin" /\ Next /\ UNCHANGED <<chain, etherVars>>
  \/ chain = "ethereum" /\ (EtherNext \/ UNCHANGED etherVars) /\ UNCHANGED <<chain, vars>>

TransactionsSpec == TransactionsInit /\ [][TransactionsNext]_<<chain, vars, etherVars>>

(* The variables of the pages have their types.                            *)
Types == (chain = "bitcoin" => TypeOK) /\ EtherTypeOK
==============================================================================
