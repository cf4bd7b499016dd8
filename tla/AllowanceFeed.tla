----------------------------- MODULE AllowanceFeed -----------------------------
(***************************************************************************)
(* The allowances of one wallet on one blockchain: AllowanceService asks   *)
(* for the allowances of an address and for their changes, stores each on  *)
(* a thread of its own, describes its two addresses and sends it to the    *)
(* screen through a buffer.  Once all are listed it removes what is older  *)
(* than the subscription, from the storage and then from the screen.       *)
(*                                                                         *)
(* The clock ticks at every subscription: what is stamped between the k-th *)
(* and the next has time k.  (The ten milliseconds the code takes off are  *)
(* less than a tick.)  An amount of zero is a revoked allowance.           *)
(***************************************************************************)
EXTENDS Integers, Sequences, SequencesExt, FiniteSets

CONSTANTS Addresses,    \* the wallet's addresses
          FirstAddress, \* the address of its first entry on the blockchain
          Checksummed,  \* addresses the vault gives in mixed case
          Allowances,   \* [owner, spender, token], one of the two a wallet's address
          Granted, Kept, \* allowances at first granted, and stored by an earlier session
          Respelled,     \* spenders the server spelled otherwise in that session
          MaxAmount, MaxOpens, MaxChanges,
          MaxHeld,      \* bound of the model: reports and cached rows under way at a time
          MaxFailures   \* bound of the model: calls and streams that fail

ASSUME OpensAssumption == MaxOpens \in Nat
ASSUME AmountAssumption == MaxAmount \in Nat \ {0}
ASSUME ChangesAssumption == MaxChanges \in Nat

VARIABLES amount, changes, \* server: what is allowed, and how often it changed
          subscriptions,   \* the service's list of addresses
          opens,           \* subscriptions opened so far
          gets,            \* per opening: its getAllowanceAmounts and removal
          lives, current,  \* open streams of changes, and the one an address can cancel
          stored,          \* storage: amount and time, per allowance
          adding,          \* reports whose storing is under way
          describing,      \* reports whose addresses are asked about
          buffer,          \* reports waiting for the screen
          failures,        \* calls and streams that failed
          balances,        \* the balances BalanceService was asked for
          rows, keys,      \* screen: the rows, and the lists that exist
          cached, inits,   \* screen: is the cache read, and what it still owes
          latest,          \* history: last amount received, per address
          doubt,           \* history: what the storage may be wrong about
          clash            \* history: what the screen may be wrong about

server == <<amount, changes>>
service == <<subscriptions, opens, gets, lives, current>>
path == <<adding, describing, buffer, failures, balances>>
screen == <<rows, keys>>
cache == <<cached, inits>>
past == <<latest, doubt, clash>>
vars == <<amount, changes, subscriptions, opens, gets, lives, current, stored, adding,
          describing, buffer, failures, balances, rows, keys, cached, inits, latest, doubt, clash>>

Unknown == -1
None == [amount |-> Unknown, time |-> 0]
NoAddress == "none"
Opens == 1..MaxOpens
Closed == [address |-> NoAddress, listed |-> {}, left |-> {}, stage |-> "closed"]

Watched(a) == {al \in Allowances : a \in {al.owner, al.spender}}
Type(a, al) == IF a = al.owner THEN "allowedFor" ELSE "approvedBy"
Key(a, al) == [address |-> a, type |-> Type(a, al), token |-> al.token]
Reporter(report) == gets[report.opening].address
KeyOf(report) == Key(Reporter(report), report.allowance)
Twice(reports, al) == \E r, s \in reports : r # s /\ r.allowance = al /\ s.allowance = al
InFlight == adding \cup describing \cup ToSet(buffer)
Under(reports, a, al) == {r \in reports : Reporter(r) = a /\ r.allowance = al}

Init ==
  /\ amount = [al \in Allowances |-> IF al \in Granted THEN 1 ELSE 0] /\ changes = 0
  /\ subscriptions = <<>> /\ opens = 0
  /\ gets = [k \in Opens |-> Closed]
  /\ lives = {} /\ current = [a \in Addresses |-> 0]
  /\ stored = [al \in Allowances |-> IF al \in Kept THEN [amount |-> 1, time |-> 0] ELSE None]
  /\ adding = {} /\ describing = {} /\ buffer = <<>> /\ failures = 0 /\ balances = {}
  /\ rows = {} /\ keys = {} /\ cached = FALSE /\ inits = {}
  /\ latest = [a \in Addresses |-> [al \in Watched(a) |-> Unknown]]
  /\ doubt = {} /\ clash = {}

------------------------------------------------------------------------------
(* One more call or stream of the MaxFailures fails.                       *)
Fails == failures < MaxFailures /\ failures' = failures + 1

(* subscribeAllowance() for the addresses of a list, one after the other.  *)
(* A stream of changes that is replaced in the map is not cancelled.       *)
Subscribe(list, others) ==
  LET granted(a) == {al \in Watched(a) : amount[al] > 0}
      report(a, k) == {[opening |-> k, allowance |-> al, amount |-> amount[al]] : al \in granted(a)}
  IN  /\ opens + Len(list) <= MaxOpens
      /\ opens' = opens + Len(list)
      /\ gets' = [k \in Opens |->
           IF k \in (opens + 1)..(opens + Len(list))
             THEN LET a == list[k - opens]
                  IN  [address |-> a, listed |-> granted(a), left |-> report(a, k), stage |-> "listing"]
             ELSE gets[k]]
      /\ lives' = others \cup (opens + 1)..(opens + Len(list))
      /\ current' = [a \in Addresses |->
           IF a \in ToSet(list) THEN opens + CHOOSE i \in DOMAIN list : list[i] = a
                                ELSE current[a]]

(* A list without one of its members, which it has once.                   *)
Without(list, a) ==
  IF a \in ToSet(list) THEN RemoveAt(list, CHOOSE i \in DOMAIN list : list[i] = a) ELSE list

(* createSubscription(): the renderer asks, again perhaps.                 *)
CreateSubscription(a) ==
  /\ subscriptions' = Append(Without(subscriptions, a), a)
  /\ Subscribe(<<a>>, lives)
  /\ UNCHANGED <<server, stored, path, screen, cache, past>>

(* stop() and start(): a reconnect, or ALLOWANCE_SET_TOKENS.               *)
Reconnect ==
  /\ subscriptions # <<>>
  /\ Subscribe(subscriptions, lives \ {current[a] : a \in Addresses})
  /\ UNCHANGED <<server, subscriptions, stored, path, screen, cache, past>>

(* The handler of both streams: the storing of each report is started.     *)
Handle(reports) ==
  LET received(a) == {al \in Watched(a) : Under(reports, a, al) # {}}
      value(a, al) == (CHOOSE r \in Under(reports, a, al) : TRUE).amount
      crossed(a, al) == Under(InFlight, a, al) # {}
      told == {r.allowance : r \in reports}
  IN  /\ Cardinality(InFlight \cup reports) + Cardinality(inits) <= MaxHeld
      /\ adding' = adding \cup reports
      /\ latest' = [a \in Addresses |-> [al \in Watched(a) |->
                      IF al \in received(a) THEN value(a, al) ELSE latest[a][al]]]
      /\ doubt' = (doubt \ told) \cup {al \in told : \/ \E r \in adding : r.allowance = al
                                                    \/ Twice(reports, al)}
      /\ clash' = {c \in clash : c[2] \notin received(c[1])}
                    \cup {c \in Addresses \X Allowances :
                            /\ c[2] \in received(c[1])
                            /\ crossed(c[1], c[2]) \/ Cardinality(Under(reports, c[1], c[2])) > 1}

(* The server allows another amount, and every stream of the two addresses *)
(* reports it.                                                             *)
Change(al, v) ==
  /\ changes < MaxChanges /\ v # amount[al]
  /\ changes' = changes + 1
  /\ amount' = [amount EXCEPT ![al] = v]
  /\ Handle({[opening |-> k, allowance |-> al, amount |-> v] :
               k \in {l \in lives : al \in Watched(gets[l].address)}})
  /\ UNCHANGED <<service, stored, describing, buffer, failures, balances, screen, cache>>

(* The stream of changes breaks: it is not opened again.                   *)
LiveFails(k) ==
  /\ Fails
  /\ k \in lives
  /\ lives' = lives \ {k}
  /\ UNCHANGED <<server, subscriptions, opens, gets, current, stored, adding, describing,
                 buffer, balances, screen, cache, past>>

Listed(k) ==
  /\ gets[k].stage = "listing"
  /\ \E r \in gets[k].left :
       /\ Handle({r})
       /\ gets' = [gets EXCEPT ![k].left = @ \ {r}]
  /\ UNCHANGED <<server, subscriptions, opens, lives, current, stored, describing, buffer,
                 failures, balances, screen, cache>>

(* finally(): with everything listed the removal is started ...            *)
ListingEnds(k) ==
  /\ gets[k].stage = "listing" /\ gets[k].left = {}
  /\ gets' = [gets EXCEPT ![k].stage = "removing"]
  /\ UNCHANGED <<server, subscriptions, opens, lives, current, stored, path, screen, cache, past>>

(* ... and after an error it is not.                                       *)
ListingFails(k) ==
  /\ Fails
  /\ gets[k].stage = "listing"
  /\ gets' = [gets EXCEPT ![k].stage = "done", ![k].left = {}, ![k].listed = {}]
  /\ UNCHANGED <<server, subscriptions, opens, lives, current, stored, adding, describing,
                 buffer, balances, screen, cache, past>>

------------------------------------------------------------------------------
(* Mutant of RemoveStored: what is removed is what is older than the removal.    *)
RemoveByNow(k) ==
  LET gone == {al \in Allowances : stored[al] # None /\ stored[al].time <= opens}
  IN  /\ gets[k].stage = "removing"
      /\ stored' = [al \in Allowances |-> IF al \in gone THEN None ELSE stored[al]]
      /\ gets' = [gets EXCEPT ![k].stage = "telling", ![k].listed = {}]
      /\ doubt' = doubt \cup (gone \ gets[k].listed)
      /\ UNCHANGED <<server, subscriptions, opens, lives, current, path, screen, cache,
                     latest, clash>>

(* The removal thread: all the wallet's allowances on the blockchain older *)
(* than the subscription go, those of its other addresses among them.      *)
RemoveStored(k) ==
  LET gone == {al \in Allowances : stored[al] # None /\ stored[al].time < k}
  IN  /\ gets[k].stage = "removing"
      /\ stored' = [al \in Allowances |-> IF al \in gone THEN None ELSE stored[al]]
      /\ gets' = [gets EXCEPT ![k].stage = "telling", ![k].listed = {}]
      /\ doubt' = doubt \cup (gone \ gets[k].listed)
      /\ UNCHANGED <<server, subscriptions, opens, lives, current, path, screen, cache,
                     latest, clash>>

(* REMOVE_ALLOWANCE: the reducer looks the address up as it is written,    *)
(* and keeps the rows that are older than the subscription.                *)
RemoveRows(k) ==
  LET gone == {r \in rows : r.key.address = gets[k].address /\ r.time >= k}
  IN  /\ gets[k].stage = "telling"
      /\ gets' = [gets EXCEPT ![k].stage = "done"]
      /\ IF gets[k].address \in Checksummed
           THEN UNCHANGED <<rows, clash>>
           ELSE /\ rows' = rows \ gone
                /\ clash' = clash \cup {<<r.key.address, r.allowance>> : r \in gone}
      /\ UNCHANGED <<server, subscriptions, opens, lives, current, stored, path, keys, cache,
                     latest, doubt>>

(* The storing of a report lands: the balance of the owner is subscribed,  *)
(* and both addresses are asked about ...                                  *)
Added(r) ==
  /\ r \in adding
  /\ adding' = adding \ {r}
  /\ stored' = [stored EXCEPT ![r.allowance] = [amount |-> r.amount, time |-> opens]]
  /\ balances' = balances \cup {<<r.allowance.owner, r.allowance.token>>}
  /\ describing' = describing \cup {r}
  /\ UNCHANGED <<server, service, buffer, failures, screen, cache, past>>

(* ... or fails, which nobody is told.                                     *)
AddFails(r) ==
  /\ Fails
  /\ r \in adding
  /\ adding' = adding \ {r}
  /\ doubt' = doubt \cup {r.allowance}
  /\ clash' = clash \cup {<<Reporter(r), r.allowance>>}
  /\ UNCHANGED <<server, service, stored, describing, buffer, balances, screen, cache, latest>>

Described(r) ==
  /\ r \in describing
  /\ describing' = describing \ {r}
  /\ buffer' = Append(buffer, [opening |-> r.opening, allowance |-> r.allowance,
                               amount |-> r.amount, time |-> opens])
  /\ UNCHANGED <<server, service, stored, adding, failures, balances, screen, cache, past>>

DescribeFails(r) ==
  /\ Fails
  /\ r \in describing
  /\ describing' = describing \ {r}
  /\ clash' = clash \cup {<<Reporter(r), r.allowance>>}
  /\ UNCHANGED <<server, service, stored, adding, buffer, balances, screen, cache, latest, doubt>>

Row(key, al, v, time) == [key |-> key, allowance |-> al, amount |-> v, time |-> time]
Replaces(new, old) == old.key = new.key /\ old.allowance.spender = new.allowance.spender

(* One list of the reducer takes a row: it replaces that of its spender.   *)
Set(news) == {r \in rows : \A n \in news : ~Replaces(n, r)} \cup news

(* SET_ALLOWANCE: every list is computed from the state before the batch,  *)
(* so that of several reports for one list only the last one counts.       *)
Flush ==
  LET last == {i \in DOMAIN buffer : \A j \in DOMAIN buffer : j > i => KeyOf(buffer[j]) # KeyOf(buffer[i])}
      news == {Row(KeyOf(buffer[i]), buffer[i].allowance, buffer[i].amount, buffer[i].time) : i \in last}
      lost == {<<Reporter(buffer[i]), buffer[i].allowance>> : i \in DOMAIN buffer \ last}
      pushed == {<<r.key.address, r.allowance>> :
                   r \in {o \in rows : \E n \in news : Replaces(n, o) /\ o.allowance # n.allowance}}
  IN  /\ buffer # <<>>
      /\ buffer' = <<>>
      /\ rows' = Set(news)
      /\ keys' = keys \cup {n.key : n \in news}
      /\ clash' = clash \cup lost \cup pushed
      /\ UNCHANGED <<server, service, stored, adding, describing, failures, balances, cache, latest, doubt>>

------------------------------------------------------------------------------
(* initAllowancesState(), once, and whatever is under way: the stored      *)
(* allowances are read ...                                                 *)
ReadCache ==
  /\ ~cached /\ cached' = TRUE
  /\ inits' = {[allowance |-> al, amount |-> stored[al].amount, time |-> stored[al].time] :
                 al \in {kept \in Allowances : stored[kept] # None}}
  /\ Cardinality(InFlight) + Cardinality(inits') <= MaxHeld
  /\ UNCHANGED <<server, service, stored, path, screen, past>>

InitRow(init) == Row(Key(FirstAddress, init.allowance), init.allowance, init.amount, init.time)

(* Mutant of InitAllowance: a cached row takes the place of a shown one.   *)
InitAllowanceAnyway(init) ==
  /\ init \in inits
  /\ inits' = inits \ {init}
  /\ rows' = Set({InitRow(init)})
  /\ keys' = keys \cup {InitRow(init).key}
  /\ UNCHANGED <<server, service, stored, path, cached, past>>

(* Mutant of InitAllowance: the list of the row is not entered.            *)
InitAllowanceUnlisted(init) ==
  /\ init \in inits
  /\ inits' = inits \ {init}
  /\ rows' = Set({InitRow(init)})
  /\ UNCHANGED <<server, service, stored, path, keys, cached, past>>

(* What an earlier session stored has time 0, and the spelling of then.    *)
SpelledAlike(new, old) ==
  new.allowance.spender \in Respelled => (new.time = 0 <=> old.time = 0)

(* ... and INIT_ALLOWANCE shows each under the wallet's first address      *)
(* unless its spender is shown, spelled the same.  One that is spelled     *)
(* otherwise takes the place of the row, which SET_ALLOWANCE looks up in   *)
(* lower case.  Where the address has a list of the type, but not of the   *)
(* token, the reducer throws.                                              *)
InitAllowance(init) ==
  LET new == InitRow(init)
      key == new.key
      throws == (\E k \in keys : k.address = key.address /\ k.type = key.type) /\ key \notin keys
      pushed == {<<r.key.address, r.allowance>> : r \in {o \in rows : Replaces(new, o)}}
  IN  /\ init \in inits
      /\ inits' = inits \ {init}
      /\ IF throws \/ \E r \in rows : Replaces(new, r) /\ SpelledAlike(new, r)
           THEN UNCHANGED <<screen, clash>>
           ELSE rows' = Set({new}) /\ keys' = keys \cup {key} /\ clash' = clash \cup pushed
      /\ UNCHANGED <<server, service, stored, path, cached, latest, doubt>>

Next ==
  \/ \E a \in Addresses : CreateSubscription(a)
  \/ Reconnect
  \/ \E al \in Allowances, v \in 0..MaxAmount : Change(al, v)
  \/ \E k \in Opens : LiveFails(k) \/ Listed(k) \/ ListingEnds(k) \/ ListingFails(k)
                      \/ RemoveStored(k) \/ RemoveRows(k)
  \/ \E r \in adding : Added(r) \/ AddFails(r)
  \/ \E r \in describing : Described(r) \/ DescribeFails(r)
  \/ Flush
  \/ ReadCache
  \/ \E init \in inits : InitAllowance(init)

Spec == Init /\ [][Next]_vars

------------------------------------------------------------------------------
(* Types, and what the reducer of INIT_ALLOWANCE relies on: a row is in a  *)
(* list that exists.                                                       *)
TypeOK ==
  /\ amount \in [Allowances -> 0..MaxAmount] /\ changes \in 0..MaxChanges
  /\ subscriptions \in Seq(Addresses) /\ opens \in 0..MaxOpens
  /\ \A k \in Opens : gets[k].stage \in {"closed", "listing", "removing", "telling", "done"}
  /\ lives \subseteq Opens /\ current \in [Addresses -> 0..MaxOpens]
  /\ \A al \in Allowances : stored[al].amount \in Unknown..MaxAmount /\ stored[al].time \in 0..MaxOpens
  /\ \A r \in InFlight : r.opening \in 1..opens /\ r.allowance \in Watched(Reporter(r))
  /\ \A r \in rows : r.key \in keys /\ r.time \in 0..opens
  /\ cached \in BOOLEAN /\ \A init \in inits : init.allowance \in Allowances /\ init.time \in 0..opens

(* Once the reports of an allowance have landed, the storage holds the     *)
(* last one.  It is never its own subscription's removal that takes it     *)
(* away again.  What can: two of its reports stored at a time, a failed    *)
(* write, a removal started for another address of the wallet, and one     *)
(* for a listing that left it out.                                         *)
StoredIsReported ==
  \A a \in Addresses : \A al \in Watched(a) \ doubt :
    (latest[a][al] # Unknown /\ ~\E r \in adding : r.allowance = al)
       => \E b \in Addresses : al \in Watched(b) /\ stored[al].amount = latest[b][al]

(* Once the reports of an allowance to an address have reached the screen, *)
(* its row shows the last one, and the balance of its owner is subscribed. *)
(* The exceptions: two of its reports under way at a time, a failed call,  *)
(* a batch with a later report for its list, another owner with the same   *)
(* spender, the removal, and a cached row of the spender that an earlier   *)
(* session spelled otherwise.                                              *)
RowIsReported ==
  \A a \in Addresses : \A al \in Watched(a) :
    (latest[a][al] # Unknown /\ <<a, al>> \notin clash /\ Under(InFlight, a, al) = {})
       => /\ {r.amount : r \in {o \in rows : o.key = Key(a, al) /\ o.allowance = al}}
                = {latest[a][al]}
          /\ <<al.owner, al.token>> \in balances
==============================================================================
