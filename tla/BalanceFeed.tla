------------------------------ MODULE BalanceFeed ------------------------------
(***************************************************************************)
(* The balances of one address: BalanceService keeps a list of what was    *)
(* subscribed and one stream for each, opened again by every reconnect.    *)
(* A balance is stored by a thread of its own; once it has landed the      *)
(* asset is priced and the balance sent to the screen through a buffer.    *)
(* The screen starts with what the storage kept.                           *)
(*                                                                         *)
(* The tokens are asked for by TokenService, whose stream names those the  *)
(* address has; the coin by the renderer.                                  *)
(***************************************************************************)
EXTENDS Integers, Sequences, FiniteSets

CONSTANTS Coin,       \* the coin of the blockchain
          Tokens,     \* contracts of tokens
          Kept,       \* what earlier sessions may have stored
          MaxAmount, MaxChanges, MaxFailures, MaxRestarts,
          MaxHeld     \* bound of the model: balances under way at a time

ASSUME BalanceBounds == MaxAmount \in Nat /\ MaxChanges \in Nat

VARIABLES balance, changes,  \* server: the balances, and how often they changed
          known,             \* tokens of the registry
          subscriptions,     \* assets of the service's list
          streams, owes,     \* open streams, and those with news
          saved,             \* storage: the balances
          setting,           \* balances whose storing is under way
          answering,         \* stored balances whose thread has not answered
          buffer,            \* per asset: balances waiting for the screen
          priced,            \* assets PriceService was given
          listed,            \* screen: the balances
          stage, cached,     \* is the storage read, and what of it is not shown yet
          restarts, failures,
          received,          \* history: the last balance received
          doubt              \* history: assets whose last balance may not be the one kept

server == <<balance, changes>>
service == <<known, subscriptions, streams, owes>>
path == <<setting, answering, buffer, priced>>
screen == <<listed, stage, cached>>
counters == <<restarts, failures>>
remembered == <<received, doubt>>
balanceVars == <<balance, changes, known, subscriptions, streams, owes, saved, setting,
                 answering, buffer, priced, listed, stage, cached, restarts, failures, received, doubt>>

Assets == {Coin} \cup Tokens
None == -1
Amounts == 0..MaxAmount
Blank == [a \in Assets |-> None]
InFlight == setting \cup answering
Held == Cardinality(InFlight) + Cardinality(UNION {{a} \X DOMAIN buffer[a] : a \in Assets})

BalanceInit ==
  /\ balance = [a \in Assets |-> 0] /\ changes = 0
  /\ known \in SUBSET Tokens
  /\ subscriptions = {} /\ streams = {} /\ owes = {}
  /\ saved \in [Assets -> {None} \cup Kept]
  /\ setting = {} /\ answering = {} /\ buffer = [a \in Assets |-> <<>>] /\ priced = {}
  /\ listed = Blank /\ stage = "unread" /\ cached = Blank
  /\ restarts = 0 /\ failures = 0
  /\ received = Blank /\ doubt = {}

------------------------------------------------------------------------------
(* subscribeBalance(): a stream starts with the balance as it is.  The     *)
(* stream it replaces is stopped.                                          *)
SubscribeBalances(assets) ==
  /\ streams' = streams \cup assets
  /\ owes' = owes \cup assets

(* createSubscription(), asked for by the renderer for the coin, and asked *)
(* for again ...                                                           *)
SubscribeCoin ==
  /\ subscriptions' = subscriptions \cup {Coin}
  /\ SubscribeBalances({Coin})
  /\ UNCHANGED <<server, known, saved, path, screen, counters, remembered>>

(* ... and by TokenService for every token its stream names, and names     *)
(* again when it was subscribed anew.                                      *)
TokensNamed(tokens) ==
  /\ tokens # {}
  /\ subscriptions' = subscriptions \cup tokens
  /\ SubscribeBalances(tokens)
  /\ UNCHANGED <<server, known, saved, path, screen, counters, remembered>>

(* stop() and start(): every stream is stopped, and one opened for every   *)
(* subscription.                                                           *)
Restart ==
  /\ restarts < MaxRestarts
  /\ restarts' = restarts + 1
  /\ streams' = subscriptions
  /\ owes' = subscriptions

Reconnect ==
  /\ Restart
  /\ UNCHANGED <<server, known, subscriptions, saved, path, screen, failures, remembered>>

(* BALANCE_SET_TOKENS: another registry, and the same.                     *)
SetTokens(tokens) ==
  /\ Restart
  /\ known' = tokens
  /\ UNCHANGED <<server, subscriptions, saved, path, screen, failures, remembered>>

Change(a, v) ==
  /\ changes < MaxChanges /\ v # balance[a]
  /\ changes' = changes + 1
  /\ balance' = [balance EXCEPT ![a] = v]
  /\ owes' = owes \cup ({a} \cap streams)
  /\ UNCHANGED <<known, subscriptions, streams, saved, path, screen, counters, remembered>>

Fails == failures < MaxFailures /\ failures' = failures + 1

(* onError(): it is logged, and the listener stays without a stream.       *)
StreamFails(a) ==
  /\ Fails
  /\ a \in streams
  /\ streams' = streams \ {a} /\ owes' = owes \ {a}
  /\ UNCHANGED <<server, known, subscriptions, saved, path, screen, restarts, remembered>>

(* The handler of createHandler(): the balance is set by a thread.         *)
Receive(a) ==
  LET v == balance[a]
  IN  /\ a \in owes /\ Held < MaxHeld
      /\ owes' = owes \ {a}
      /\ setting' = setting \cup {[asset |-> a, amount |-> v]}
      /\ received' = [received EXCEPT ![a] = v]
      /\ doubt' = IF \E s \in InFlight : s.asset = a THEN doubt \cup {a} ELSE doubt \ {a}
      /\ UNCHANGED <<server, known, subscriptions, streams, saved, answering, buffer,
                     priced, screen, counters>>

Set(s) ==
  /\ s \in setting
  /\ setting' = setting \ {s}
  /\ saved' = [saved EXCEPT ![s.asset] = s.amount]
  /\ answering' = answering \cup {s}
  /\ UNCHANGED <<server, service, buffer, priced, screen, counters, remembered>>

(* The rejection is not caught: the balance is neither stored nor shown.   *)
SetFails(s) ==
  /\ Fails
  /\ s \in setting
  /\ setting' = setting \ {s}
  /\ doubt' = doubt \cup {s.asset}
  /\ UNCHANGED <<server, service, saved, answering, buffer, priced, screen, restarts, received>>

(* sendAsset(): a token the registry does not know is not sent.            *)
Sendable(a) == a = Coin \/ a \in known

(* The answer of a thread: an asset with a balance is priced, and the      *)
(* balance put into the buffer of its kind.                                *)
Send(s) ==
  /\ s \in answering
  /\ answering' = answering \ {s}
  /\ priced' = IF Sendable(s.asset) /\ s.amount > 0 THEN priced \cup {s.asset} ELSE priced
  /\ IF Sendable(s.asset)
       THEN buffer' = [buffer EXCEPT ![s.asset] = Append(@, s.amount)] /\ UNCHANGED doubt
       ELSE doubt' = doubt \cup {s.asset} /\ UNCHANGED buffer
  /\ UNCHANGED <<server, service, saved, setting, screen, counters, received>>

(* SET_BALANCE or SET_TOKEN_BALANCE with a batch: the last one stays.      *)
Flush(a) ==
  /\ buffer[a] # <<>>
  /\ listed' = [listed EXCEPT ![a] = buffer[a][Len(buffer[a])]]
  /\ buffer' = [buffer EXCEPT ![a] = <<>>]
  /\ UNCHANGED <<server, service, saved, setting, answering, priced, stage, cached, counters, remembered>>

(* initBalancesState() asks the storage once, while balances arrive.       *)
ReadCache ==
  /\ stage = "unread"
  /\ stage' = "read"
  /\ cached' = saved
  /\ UNCHANGED <<server, service, saved, path, listed, counters, remembered>>

(* Mutant of InitState: what was read takes the place of what is shown.    *)
InitStateAnyway ==
  /\ stage = "read"
  /\ stage' = "shown"
  /\ cached' = Blank
  /\ listed' = [a \in Assets |-> IF cached[a] # None THEN cached[a] ELSE listed[a]]
  /\ UNCHANGED <<server, service, saved, path, counters, remembered>>

(* onInitState() of the accounts and of the tokens: an asset that is shown *)
(* already stays.                                                          *)
InitState ==
  /\ stage = "read"
  /\ stage' = "shown"
  /\ cached' = Blank
  /\ listed' = [a \in Assets |-> IF listed[a] = None /\ Sendable(a) THEN cached[a] ELSE listed[a]]
  /\ UNCHANGED <<server, service, saved, path, counters, remembered>>

BalanceNext ==
  \/ SubscribeCoin
  \/ \E tokens \in SUBSET Tokens : TokensNamed(tokens) \/ SetTokens(tokens)
  \/ Reconnect
  \/ \E a \in Assets : StreamFails(a) \/ Receive(a) \/ Flush(a)
  \/ \E a \in Assets, v \in Amounts : Change(a, v)
  \/ \E s \in setting : Set(s) \/ SetFails(s)
  \/ \E s \in answering : Send(s)
  \/ ReadCache \/ InitState

BalanceSpec == BalanceInit /\ [][BalanceNext]_balanceVars

------------------------------------------------------------------------------
(* Types; a stream is open only for what was subscribed, and only an open  *)
(* stream has something to say.                                            *)
BalanceTypeOK ==
  /\ balance \in [Assets -> Amounts] /\ changes \in 0..MaxChanges
  /\ known \subseteq Tokens
  /\ subscriptions \subseteq Assets /\ owes \subseteq streams /\ streams \subseteq subscriptions
  /\ saved \in [Assets -> {None} \cup Kept \cup Amounts]
  /\ InFlight \subseteq [asset : Assets, amount : Amounts]
  /\ \A a \in Assets : buffer[a] \in Seq(Amounts)
  /\ priced \subseteq Assets
  /\ {listed, cached} \subseteq [Assets -> {None} \cup Kept \cup Amounts]
  /\ stage \in {"unread", "read", "shown"}
  /\ received \in [Assets -> {None} \cup Amounts] /\ doubt \subseteq Assets

(* Once a balance has come through, the storage and the screen hold the    *)
(* last one received.  The exceptions: it was received while the one       *)
(* before was on its way, its storing failed, or the registry did not know *)
(* the token.  An asset that is shown with a balance received is priced.   *)
BalanceIsReported ==
  \A a \in Assets \ doubt :
    (received[a] # None /\ \A s \in InFlight : s.asset # a)
      => /\ saved[a] = received[a]
         /\ buffer[a] = <<>> => listed[a] = received[a]
         /\ received[a] > 0 => a \in priced
==============================================================================
