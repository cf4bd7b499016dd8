------------------------------ MODULE MCServices ------------------------------
(* The status of the API, or the prices: the two parts whose timers keep   *)
(* the application going.  They share nothing and a behaviour runs one.    *)
EXTENDS MCConnectionStatus, PriceFeed

VARIABLE part

ServicesInit ==
  /\ part \in {"status", "prices"}
  /\ Init /\ PriceInit
  /\ part = "status" => currency = (CHOOSE c \in Currencies : TRUE) /\ cache = NoRates

\* The prices may come to rest: no service calls.
ServicesNext ==
  \/ part = "status" /\ Next /\ UNCHANGED <<part, priceVars>>
  \/ part = "prices" /\ (PriceNext \/ UNCHANGED priceVars) /\ UNCHANGED <<part, vars>>

ServicesSpec ==
  /\ ServicesInit /\ [][ServicesNext]_<<part, vars, priceVars>>
  /\ part = "status" => Fairness
  /\ part = "prices" => PriceFairness

(* The variables of both have their types.                                 *)
Types == TypeOK /\ PriceTypeOK

(* An outage of the API is noticed (OutageNoticed of ConnectionStatus).    *)
OutageIsNoticed == part = "status" => OutageNoticed
==============================================================================
