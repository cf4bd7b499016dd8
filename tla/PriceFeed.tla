------------------------------- MODULE PriceFeed -------------------------------
(***************************************************************************)
(* The exchange rates: PriceService asks for the rates of its assets in    *)
(* one currency, two seconds after either changed and every minute, stores *)
(* an answer and sends it to the screen.  An answer does not say which     *)
(* currency it is in, and is shown whatever was chosen since.              *)
(***************************************************************************)
EXTENDS Integers, Sequences, FiniteSets

CONSTANTS Priceable,   \* assets that may be priced
          Currencies,
          MaxChoices,  \* bound of the model: times the user chooses a currency
          MaxRequests, \* bound of the model: requests and answers under way
          MaxStrays    \* bound of the model: timers that are counted

ASSUME PriceBounds == Priceable # {} /\ MaxChoices \in Nat /\ MaxStrays \in Nat

VARIABLES currency,          \* renderer: the currency chosen
          choices, asked,    \* how often it was, and PRICES_SET_TO under way
          to, from,          \* the service's currency and assets
          timeout, repeater, \* is the timer of each variable pending
          strays,            \* pending timers no variable holds
          requests,          \* requests under way
          putting, telling,  \* answers being stored, and stored but not sent
          cache, shown,      \* the rates in storage and on the screen
          loading            \* the reading of the cache, and what it read

timers == <<timeout, repeater, strays>>
answers == <<requests, putting, telling, cache>>
choice == <<currency, choices, asked>>
priceVars == <<currency, choices, asked, to, from, timeout, repeater, strays, requests, putting,
               telling, cache, shown, loading>>

NoCurrency == "none"
NoRates == [to |-> NoCurrency, from |-> {}]
Unread == [stage |-> "unread", rates |-> NoRates]
Rates == [to : Currencies, from : (SUBSET Priceable) \ {{}}]
Room == Cardinality(requests) + Cardinality(putting) + Cardinality(telling) < MaxRequests
Counted(n) == IF n > MaxStrays THEN MaxStrays ELSE n

(* The services have started; loadSettings() has sent the currency that    *)
(* was kept.  The rates kept may be in another one.                        *)
PriceInit ==
  /\ currency \in Currencies /\ choices = 0 /\ asked = <<currency>>
  /\ to = NoCurrency /\ from = {}
  /\ timeout = TRUE /\ repeater = FALSE /\ strays = 0
  /\ requests = {} /\ putting = {} /\ telling = {}
  /\ cache \in {NoRates} \cup [to : Currencies, from : {Priceable}]
  /\ shown = NoRates /\ loading = Unread

------------------------------------------------------------------------------
(* Mutant of StopStart: the repeater is not cleared.                       *)
StopStartTimeout ==
  /\ timeout' = TRUE
  /\ UNCHANGED <<repeater, strays>>

(* stop() and start(): both timers are cleared, and the first set again.   *)
StopStart ==
  /\ timeout' = TRUE
  /\ repeater' = FALSE
  /\ UNCHANGED strays

(* updateSettings(): the rates are taken off the screen at once, the       *)
(* service is told by a message.                                           *)
Choose(c) ==
  /\ choices < MaxChoices /\ c # currency
  /\ choices' = choices + 1
  /\ currency' = c
  /\ shown' = NoRates
  /\ asked' = Append(asked, c)
  /\ UNCHANGED <<to, from, timers, answers, loading>>

(* PRICES_SET_TO                                                           *)
SetTo ==
  /\ asked # <<>>
  /\ to' = Head(asked)
  /\ asked' = Tail(asked)
  /\ StopStart
  /\ UNCHANGED <<currency, choices, from, answers, shown, loading>>

(* addFrom(): an asset that is priced already changes nothing.             *)
AddFrom(asset) ==
  /\ from' = from \cup {asset}
  /\ IF asset \in from THEN UNCHANGED timers ELSE StopStart
  /\ UNCHANGED <<choice, to, answers, shown, loading>>

(* fetch() as one of the pending timers calls it: setting the repeater     *)
(* loses the timer that it held.                                           *)
Rearm ==
  \/ /\ timeout /\ timeout' = FALSE
     /\ repeater' = TRUE
     /\ strays' = IF repeater THEN Counted(strays + 1) ELSE strays
  \/ /\ repeater /\ UNCHANGED timers
  \/ /\ strays > 0
     /\ repeater' = TRUE
     /\ strays' = IF repeater THEN strays ELSE strays - 1
     /\ UNCHANGED timeout

(* Mutant of Fetch: the next fetch is left to whoever restarts the timers. *)
FetchOnce ==
  /\ Room
  /\ timeout /\ timeout' = FALSE
  /\ requests' = IF from # {} /\ to # NoCurrency
                   THEN requests \cup {[to |-> to, from |-> from]} ELSE requests
  /\ UNCHANGED <<repeater, strays, choice, to, from, putting, telling, cache, shown, loading>>

Fetch ==
  /\ Room
  /\ Rearm
  /\ requests' = IF from # {} /\ to # NoCurrency
                   THEN requests \cup {[to |-> to, from |-> from]} ELSE requests
  /\ UNCHANGED <<choice, to, from, putting, telling, cache, shown, loading>>

Answer(r) ==
  /\ r \in requests
  /\ requests' = requests \ {r}
  /\ putting' = putting \cup {r}
  /\ UNCHANGED <<choice, to, from, timers, telling, cache, shown, loading>>

(* A failure is logged; the next fetch asks again.                         *)
RequestFails(r) ==
  /\ r \in requests
  /\ requests' = requests \ {r}
  /\ UNCHANGED <<choice, to, from, timers, putting, telling, cache, shown, loading>>

Put(r) ==
  /\ r \in putting
  /\ putting' = putting \ {r}
  /\ telling' = telling \cup {r}
  /\ cache' = r
  /\ UNCHANGED <<choice, to, from, timers, requests, shown, loading>>

(* SET_RATES replaces all the rates.                                       *)
Tell(r) ==
  /\ r \in telling
  /\ telling' = telling \ {r}
  /\ shown' = r
  /\ UNCHANGED <<choice, to, from, timers, requests, putting, cache, loading>>

(* The accounts are loaded: the cache is read, ...                         *)
ReadCache ==
  /\ loading = Unread
  /\ loading' = [stage |-> "read", rates |-> cache]
  /\ UNCHANGED <<choice, to, from, timers, answers, shown>>

(* ... and what it held by then shown, whatever has been shown since.      *)
ShowCache ==
  /\ loading.stage = "read"
  /\ loading' = [stage |-> "shown", rates |-> NoRates]
  /\ shown' = IF loading.rates = NoRates THEN shown ELSE loading.rates
  /\ UNCHANGED <<choice, to, from, timers, answers>>

PriceNext ==
  \/ \E c \in Currencies : Choose(c)
  \/ SetTo
  \/ \E asset \in Priceable : AddFrom(asset)
  \/ Fetch
  \/ \E r \in requests : Answer(r) \/ RequestFails(r)
  \/ \E r \in putting : Put(r)
  \/ \E r \in telling : Tell(r)
  \/ ReadCache \/ ShowCache

(* The timers run, messages arrive, a request is answered or fails, and    *)
(* one that is asked again and again is not refused for ever.              *)
PriceFairness ==
  /\ WF_priceVars(SetTo) /\ WF_priceVars(ReadCache) /\ WF_priceVars(ShowCache)
  /\ WF_priceVars(Fetch)
  /\ \A r \in Rates : /\ SF_priceVars(Answer(r))
                      /\ WF_priceVars(Answer(r) \/ RequestFails(r))
                      /\ WF_priceVars(Put(r)) /\ WF_priceVars(Tell(r))

PriceSpec == PriceInit /\ [][PriceNext]_priceVars /\ PriceFairness

------------------------------------------------------------------------------
(* Types; requests name assets that may be priced and known currencies.    *)
PriceTypeOK ==
  /\ currency \in Currencies /\ choices \in 0..MaxChoices /\ asked \in Seq(Currencies)
  /\ to \in Currencies \cup {NoCurrency} /\ from \subseteq Priceable
  /\ timeout \in BOOLEAN /\ repeater \in BOOLEAN /\ strays \in 0..MaxStrays
  /\ requests \subseteq Rates /\ putting \subseteq Rates /\ telling \subseteq Rates
  /\ {cache, shown} \subseteq Rates \cup {NoRates}
  /\ loading \in [stage : {"unread", "read", "shown"}, rates : Rates \cup {NoRates}]

(* However often assets and currencies change while a fetch is due, one    *)
(* timer is pending: requests do not multiply, nor do they end.            *)
OneTimer == (timeout # repeater) /\ strays = 0

(* Once the user has chosen for good and there is something to price, the  *)
(* screen ends up with rates of all assets in the currency chosen, however *)
(* many answers in another one were under way.                             *)
RatesSettle ==
  \A c \in Currencies :
    <>[](currency = c /\ from # {}) => <>[](shown.to = c /\ shown.from = from)
==============================================================================
