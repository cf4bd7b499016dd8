------------------------------- MODULE MCScreens -------------------------------
(* What the screens of a wallet list: its transactions or its balances.    *)
(* The slices of the store share nothing here, and a behaviour runs one.   *)
EXTENDS MCHistoryScreen, BalanceFeed

VARIABLE part

\* The storage kept the balances of both assets, or of neither.
ScreensInit ==
  /\ part \in {"transactions", "balances"}
  /\ Init /\ BalanceInit
  /\ \A a, b \in Assets : saved[a] = saved[b]
  /\ part = "transactions" => known = {} /\ saved = Blank

ScreensNext ==
  \/ part = "transactions" /\ Next /\ UNCHANGED <<part, balanceVars>>
  \/ part = "balances" /\ BalanceNext /\ UNCHANGED <<part, vars>>

ScreensSpec == ScreensInit /\ [][ScreensNext]_<<part, vars, balanceVars>>

(* The variables of both slices have their types.                          *)
Types == TypeOK /\ BalanceTypeOK
==============================================================================
