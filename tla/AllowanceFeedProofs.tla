-------------------------- MODULE AllowanceFeedProofs --------------------------
(***************************************************************************)
(* The proofs about the allowances, for any addresses, allowances and      *)
(* bounds.  The storage holds the last allowance reported: what a          *)
(* subscription removes is older than it, and what it has listed and       *)
(* stored is not.  The screen shows it: a report is at one place of its    *)
(* way at a time, and its row gives way to a later one of its list only.   *)
(***************************************************************************)
EXTENDS AllowanceFeed, FiniteSetTheorems, TLAPS

Reports == [opening : Opens, allowance : Allowances, amount : 0..MaxAmount]
Stages == {"closed", "listing", "removing", "telling", "done"}
Subscription == [address : Addresses \cup {NoAddress}, listed : SUBSET Allowances,
                 left : SUBSET Reports, stage : Stages]
(* A report comes from a subscription of one of its two addresses.         *)
Genuine(r) == r.opening <= opens /\ r.allowance \in Watched(Reporter(r))

Types ==
  /\ amount \in [Allowances -> 0..MaxAmount]
  /\ opens \in 0..MaxOpens /\ subscriptions \in Seq(Addresses)
  /\ gets \in [Opens -> Subscription]
  /\ \A k \in Opens : IF k > opens THEN gets[k] = Closed ELSE gets[k].address \in Addresses
  /\ \A k \in Opens : \A r \in gets[k].left : r.opening = k /\ Genuine(r)
  /\ \A k \in Opens : gets[k].stage = "removing" => gets[k].left = {}
  /\ lives \subseteq Opens /\ \A k \in lives : k <= opens
  /\ adding \subseteq Reports /\ \A r \in adding : Genuine(r)
  /\ stored \in [Allowances -> [amount : Unknown..MaxAmount, time : 0..MaxOpens]]
  /\ DOMAIN latest = Addresses /\ \A a \in Addresses : DOMAIN latest[a] = Watched(a)

(* Subscription k has reported al: it was listed, and is not left to be.   *)
Reported(k, al) == al \in gets[k].listed /\ \A r \in gets[k].left : r.allowance # al

Known(al) == \E a \in Addresses : al \in Watched(a) /\ latest[a][al] # Unknown
Held(al) == \E b \in Addresses : al \in Watched(b) /\ stored[al].amount = latest[b][al]
Young(al) == \A k \in Opens : Reported(k, al) => stored[al].time >= k

(* An allowance without doubt: one report of it at most is being stored,   *)
(* the last one; and when none is, it is held and younger than every       *)
(* subscription that has reported it.                                      *)
Alone(al) ==
  /\ \A r \in adding : r.allowance = al => r.amount = latest[Reporter(r)][al]
  /\ \A r, s \in adding : r.allowance = al /\ s.allowance = al => r = s
Landed(al) == \A r \in adding : r.allowance # al
Sound(al) == Alone(al) /\ (Landed(al) => (Known(al) => Held(al)) /\ Young(al))
AllSound == \A al \in Allowances \ doubt : Sound(al)

(* The invariant at first: nothing was reported.                           *)
LEMMA Start == Init => Types /\ AllSound
  <1> SUFFICES ASSUME Init PROVE Types /\ AllSound
    OBVIOUS
  <1>1. /\ amount \in [Allowances -> 0..MaxAmount] /\ opens = 0 /\ subscriptions = <<>>
        /\ gets = [k \in Opens |-> Closed] /\ lives = {} /\ adding = {} /\ doubt = {}
        /\ latest = [a \in Addresses |-> [al \in Watched(a) |-> Unknown]]
    BY AmountAssumption DEF Init
  <1>2. stored \in [Allowances -> [amount : Unknown..MaxAmount, time : 0..MaxOpens]]
    BY OpensAssumption, AmountAssumption DEF Init, None, Unknown
  <1>3. Closed \in Subscription
    BY DEF Closed, Subscription, Stages
  <1>4. \A k \in Opens : k > 0
    BY DEF Opens
  <1>5. Types
    BY <1>1, <1>2, <1>3, <1>4, OpensAssumption DEF Types, Closed
  <1>6. AllSound
    BY <1>1 DEF AllSound, Sound, Alone, Landed, Known, Held, Young, Reported, Closed
  <1> QED BY <1>5, <1>6

-----------------------------------------------------------------------------
(* New subscriptions leave the others as they are, and have everything     *)
(* they list left to report.                                               *)
LEMMA SubscribeFacts ==
  ASSUME Types, NEW list \in Seq(Addresses), NEW others \in SUBSET lives, Subscribe(list, others)
  PROVE  /\ opens' \in 0..MaxOpens /\ opens <= opens'
         /\ gets' \in [Opens -> Subscription]
         /\ \A k \in Opens : k <= opens => gets'[k] = gets[k]
         /\ \A k \in Opens : k > opens /\ k <= opens' =>
              /\ gets'[k].address \in Addresses /\ gets'[k].stage = "listing"
              /\ \A al \in gets'[k].listed : \E r \in gets'[k].left : r.allowance = al
              /\ \A r \in gets'[k].left : r.opening = k /\ r.allowance \in Watched(gets'[k].address)
         /\ \A k \in Opens : k > opens' => gets'[k] = gets[k]
         /\ lives' \subseteq Opens /\ \A k \in lives' : k <= opens'
  <1> DEFINE granted(a) == {al \in Watched(a) : amount[al] > 0}
             report(a, k) == {[opening |-> k, allowance |-> al, amount |-> amount[al]] : al \in granted(a)}
             new(k) == [address |-> list[k - opens], listed |-> granted(list[k - opens]),
                        left |-> report(list[k - opens], k), stage |-> "listing"]
  <1>1. /\ opens + Len(list) <= MaxOpens
        /\ opens' = opens + Len(list)
        /\ gets' = [k \in Opens |-> IF k \in (opens + 1)..(opens + Len(list)) THEN new(k) ELSE gets[k]]
        /\ lives' = others \cup (opens + 1)..(opens + Len(list))
    BY DEF Subscribe
  <1>2. opens \in Nat /\ Len(list) \in Nat /\ Opens \subseteq Int
    BY DEF Types, Opens
  <1>3. opens' \in 0..MaxOpens /\ opens <= opens'
    BY <1>1, <1>2, OpensAssumption
  <1>4. ASSUME NEW k \in Opens, k > opens, k <= opens'
        PROVE  gets'[k] = new(k) /\ list[k - opens] \in Addresses
    <2>1. k \in (opens + 1)..(opens + Len(list)) /\ k - opens \in 1..Len(list)
      BY <1>1, <1>2, <1>4
    <2> QED BY <1>1, <2>1
  <1>5. ASSUME NEW k \in Opens, k <= opens \/ k > opens'
        PROVE  gets'[k] = gets[k]
    BY <1>1, <1>2, <1>5
  <1>6. ASSUME NEW k \in Opens, k > opens, k <= opens'
        PROVE  new(k) \in Subscription
    <2>1. granted(list[k - opens]) \subseteq Allowances
      BY DEF Watched
    <2>2. report(list[k - opens], k) \subseteq Reports
      BY <2>1 DEF Types, Reports
    <2>3. list[k - opens] \in Addresses /\ "listing" \in Stages
      BY <1>4, <1>6 DEF Stages
    <2> QED BY <2>1, <2>2, <2>3 DEF Subscription
  <1>7. gets' \in [Opens -> Subscription]
    <2>1. ASSUME NEW k \in Opens PROVE gets'[k] \in Subscription
      <3>1. CASE k > opens /\ k <= opens'
        BY <1>4, <1>6, <3>1
      <3>2. CASE ~(k > opens /\ k <= opens')
        BY <1>2, <1>3, <1>5, <3>2 DEF Types
      <3> QED BY <3>1, <3>2
    <2> QED BY <1>1, <2>1
  <1>8. ASSUME NEW k \in Opens, k > opens, k <= opens'
        PROVE  /\ gets'[k].address \in Addresses /\ gets'[k].stage = "listing"
               /\ \A al \in gets'[k].listed : \E r \in gets'[k].left : r.allowance = al
               /\ \A r \in gets'[k].left : r.opening = k /\ r.allowance \in Watched(gets'[k].address)
    <2>1. gets'[k] = new(k) /\ list[k - opens] \in Addresses
      BY <1>4, <1>8
    <2>2. ASSUME NEW al \in granted(list[k - opens])
          PROVE  \E r \in report(list[k - opens], k) : r.allowance = al
      <3> DEFINE r == [opening |-> k, allowance |-> al, amount |-> amount[al]]
      <3>1. r \in report(list[k - opens], k) /\ r.allowance = al
        OBVIOUS
      <3> QED BY <3>1
    <2>3. \A r \in report(list[k - opens], k) : r.opening = k /\ r.allowance \in Watched(list[k - opens])
      OBVIOUS
    <2> QED BY <2>1, <2>2, <2>3
  <1>9. lives' \subseteq Opens /\ \A k \in lives' : k <= opens'
    <2>1. ASSUME NEW k \in (opens + 1)..(opens + Len(list)) PROVE k \in Opens /\ k <= opens'
      BY <1>1, <1>2, OpensAssumption DEF Opens
    <2>2. ASSUME NEW k \in others PROVE k \in Opens /\ k <= opens'
      <3>1. k \in Opens /\ k <= opens /\ k \in Int
        BY <1>2 DEF Types
      <3> QED BY <1>2, <1>3, <3>1
    <2> QED BY <1>1, <2>1, <2>2
  <1> QED BY <1>3, <1>5, <1>7, <1>8, <1>9

(* New subscriptions: the storage and what is being stored are as before.  *)
LEMMA SubscribeSound ==
  ASSUME Types, AllSound, NEW list \in Seq(Addresses), NEW others \in SUBSET lives,
         Subscribe(list, others), subscriptions' \in Seq(Addresses),
         UNCHANGED <<amount, stored, adding, latest, doubt>>
  PROVE  Types' /\ AllSound'
  <1>1. /\ opens' \in 0..MaxOpens /\ opens <= opens'
        /\ gets' \in [Opens -> Subscription]
        /\ \A k \in Opens : k <= opens => gets'[k] = gets[k]
        /\ \A k \in Opens : k > opens /\ k <= opens' =>
             /\ gets'[k].address \in Addresses /\ gets'[k].stage = "listing"
             /\ \A al \in gets'[k].listed : \E r \in gets'[k].left : r.allowance = al
             /\ \A r \in gets'[k].left : r.opening = k /\ r.allowance \in Watched(gets'[k].address)
        /\ \A k \in Opens : k > opens' => gets'[k] = gets[k]
        /\ lives' \subseteq Opens /\ \A k \in lives' : k <= opens'
    BY SubscribeFacts
  <1>2. opens \in Nat /\ Opens \subseteq Int
    BY DEF Types, Opens
  <1>3. ASSUME NEW r \in adding
        PROVE  Genuine(r)' /\ Reporter(r)' = Reporter(r)
    <2>1. r.opening \in Opens /\ r.opening <= opens /\ r.allowance \in Watched(Reporter(r))
      BY DEF Types, Genuine, Reports
    <2>2. gets'[r.opening] = gets[r.opening]
      BY <1>1, <2>1
    <2>3. r.opening <= opens'
      <3>1. r.opening \in Int /\ opens \in Int /\ opens' \in Int
        BY <1>1, <1>2, <2>1, OpensAssumption
      <3> QED BY <1>1, <2>1, <3>1
    <2> QED BY <2>1, <2>2, <2>3 DEF Genuine, Reporter
  <1>4. ASSUME NEW k \in Opens
        PROVE  /\ IF k > opens' THEN gets'[k] = Closed ELSE gets'[k].address \in Addresses
               /\ \A r \in gets'[k].left : r.opening = k /\ Genuine(r)'
               /\ gets'[k].stage = "removing" => gets'[k].left = {}
    <2>1. CASE k <= opens
      BY <1>1, <1>2, <2>1 DEF Types, Genuine, Reporter
    <2>2. CASE k > opens /\ k <= opens'
      BY <1>1, <1>2, <2>2 DEF Genuine, Reporter
    <2>3. CASE k > opens'
      <3>1. gets'[k] = Closed
        BY <1>1, <1>2, <2>3 DEF Types
      <3> QED BY <1>2, <2>3, <3>1 DEF Closed
    <2> QED BY <1>1, <1>2, <2>1, <2>2, <2>3
  <1>5. Types'
    BY <1>1, <1>3, <1>4 DEF Types
  <1>6. \A al \in Allowances : \A k \in Opens : Reported(k, al)' => Reported(k, al)
    <2> SUFFICES ASSUME NEW al \in Allowances, NEW k \in Opens, Reported(k, al)'
                 PROVE  Reported(k, al)
      OBVIOUS
    <2>1. ~(k > opens /\ k <= opens')
      BY <1>1 DEF Reported
    <2>2. gets'[k] = gets[k]
      BY <1>1, <1>2, <2>1
    <2> QED BY <2>2 DEF Reported
  <1>7. AllSound'
    BY <1>3, <1>6 DEF AllSound, Sound, Alone, Landed, Known, Held, Young
  <1> QED BY <1>5, <1>7

-----------------------------------------------------------------------------
(* What handling reports does, pointwise.                                  *)
LEMMA HandleFacts ==
  ASSUME NEW reports, Handle(reports)
  PROVE  /\ adding' = adding \cup reports
         /\ DOMAIN latest' = Addresses
         /\ \A a \in Addresses : DOMAIN latest'[a] = Watched(a)
         /\ \A a \in Addresses : \A al \in Watched(a) :
              latest'[a][al] = IF Under(reports, a, al) # {}
                                 THEN (CHOOSE r \in Under(reports, a, al) : TRUE).amount
                                 ELSE latest[a][al]
         /\ \A al : (al \notin doubt' /\ \E r \in reports : r.allowance = al) =>
              ~Twice(reports, al) /\ \A r \in adding : r.allowance # al
         /\ \A al : (al \notin doubt' /\ \A r \in reports : r.allowance # al) => al \notin doubt
  BY DEF Handle

(* Reports that are handled are the last ones: one that is not doubted is  *)
(* the only one of its allowance.                                          *)
LEMMA HandleSound ==
  ASSUME Types, AllSound, NEW reports \in SUBSET Reports, \A r \in reports : Genuine(r),
         Handle(reports), stored' = stored, opens' = opens,
         \A k \in Opens : gets'[k].address = gets[k].address,
         \A k \in Opens, al \in Allowances :
           Reported(k, al)' => Reported(k, al) \/ \E r \in reports : r.allowance = al
  PROVE  /\ adding' \subseteq Reports /\ \A r \in adding' : Genuine(r)'
         /\ DOMAIN latest' = Addresses /\ \A a \in Addresses : DOMAIN latest'[a] = Watched(a)
         /\ AllSound'
  <1>1. /\ adding' = adding \cup reports
        /\ DOMAIN latest' = Addresses
        /\ \A a \in Addresses : DOMAIN latest'[a] = Watched(a)
        /\ \A a \in Addresses : \A al \in Watched(a) :
             latest'[a][al] = IF Under(reports, a, al) # {}
                                THEN (CHOOSE r \in Under(reports, a, al) : TRUE).amount
                                ELSE latest[a][al]
    BY HandleFacts
  <1>2. adding' \subseteq Reports
    BY <1>1 DEF Types
  <1>3. \A r \in adding' : Genuine(r) /\ Genuine(r)' /\ Reporter(r)' = Reporter(r)
    BY <1>1, <1>2 DEF Types, Genuine, Reporter, Reports
  <1>4. \A r \in adding' : Reporter(r) \in Addresses
    <2> SUFFICES ASSUME NEW r \in adding' PROVE Reporter(r) \in Addresses
      OBVIOUS
    <2>1. r.opening \in Opens /\ ~(r.opening > opens)
      BY <1>2, <1>3 DEF Genuine, Reports, Types, Opens
    <2> QED BY <2>1 DEF Types, Reporter
  <1>5. ASSUME NEW al \in Allowances \ doubt', \A r \in reports : r.allowance # al
        PROVE  Sound(al)'
    <2>1. Sound(al)
      BY <1>5, HandleFacts DEF AllSound
    <2>2. \A a \in Addresses : al \in Watched(a) => latest'[a][al] = latest[a][al]
      BY <1>1, <1>5 DEF Under
    <2>3. \A k \in Opens : Reported(k, al)' => Reported(k, al)
      BY <1>5
    <2>4. \A r \in adding' : r.allowance = al =>
            r \in adding /\ Reporter(r)' = Reporter(r)
              /\ latest'[Reporter(r)][al] = latest[Reporter(r)][al]
      BY <1>1, <1>3, <1>4, <1>5, <2>2 DEF Genuine
    <2>5. Alone(al)'
      BY <2>1, <2>4 DEF Sound, Alone
    <2>6. Landed(al)' => Landed(al)
      BY <1>1 DEF Landed
    <2>7. Known(al)' => Known(al)
      BY <2>2 DEF Known, Watched
    <2>8. Held(al) => Held(al)'
      BY <2>2 DEF Held, Watched
    <2>9. Young(al) => Young(al)'
      BY <2>3 DEF Young
    <2> QED BY <2>1, <2>5, <2>6, <2>7, <2>8, <2>9 DEF Sound
  <1>6. ASSUME NEW al \in Allowances \ doubt', NEW r \in reports, r.allowance = al
        PROVE  Sound(al)'
    <2>1. ~Twice(reports, al) /\ \A s \in adding : s.allowance # al
      BY <1>6, HandleFacts
    <2>2. \A s \in adding' : s.allowance = al => s = r
      BY <1>1, <1>6, <2>1 DEF Twice
    <2>3. Under(reports, Reporter(r), al) = {r}
      BY <1>1, <1>6, <2>2 DEF Under
    <2>4. latest'[Reporter(r)][al] = r.amount
      BY <1>1, <1>3, <1>4, <1>6, <2>3 DEF Genuine
    <2>5. Alone(al)'
      BY <1>1, <1>3, <2>2, <2>4 DEF Alone
    <2>6. ~Landed(al)'
      BY <1>1, <1>6 DEF Landed
    <2> QED BY <2>5, <2>6 DEF Sound
  <1>7. AllSound'
    BY <1>5, <1>6 DEF AllSound
  <1> QED BY <1>1, <1>2, <1>3, <1>7
-----------------------------------------------------------------------------
(* One step of a subscription's listing, but for its reports.              *)
LEMMA ListingSound ==
  ASSUME Types, AllSound, NEW k \in Opens,
         UNCHANGED <<amount, opens, subscriptions, lives, stored, adding, latest, doubt>>,
         gets' \in [Opens -> Subscription],
         \A j \in Opens : j # k => gets'[j] = gets[j],
         k <= opens, gets'[k].address = gets[k].address,
         gets'[k].stage = "removing" => gets'[k].left = {},
         \/ gets'[k].listed = gets[k].listed /\ gets'[k].left = gets[k].left
         \/ gets'[k].listed = {} /\ gets'[k].left \subseteq gets[k].left
  PROVE  Types' /\ AllSound'
  <1>1. \A j \in Opens : gets'[j].address = gets[j].address
    OBVIOUS
  <1>2. \A j \in Opens : \A r \in gets'[j].left : r \in gets[j].left
    OBVIOUS
  <1>3. \A r \in Reports : Reporter(r)' = Reporter(r) /\ (Genuine(r) => Genuine(r)')
    BY <1>1 DEF Reporter, Genuine, Reports
  <1>4. \A j \in Opens : gets[j].left \subseteq Reports
    BY DEF Types, Subscription
  <1>5. \A j \in Opens : \A r \in gets'[j].left : r.opening = j /\ Genuine(r)'
    BY <1>2, <1>3, <1>4 DEF Types
  <1>6. \A j \in Opens : IF j > opens' THEN gets'[j] = Closed ELSE gets'[j].address \in Addresses
    BY <1>1 DEF Types, Opens
  <1>7. Types'
    <2>1. adding' \subseteq Reports /\ \A r \in adding' : Genuine(r)'
      BY <1>3 DEF Types
    <2>2. \A j \in Opens : gets'[j].stage = "removing" => gets'[j].left = {}
      BY DEF Types
    <2>3. /\ amount' \in [Allowances -> 0..MaxAmount] /\ opens' \in 0..MaxOpens /\ subscriptions' \in Seq(Addresses)
          /\ lives' \subseteq Opens /\ \A j \in lives' : j <= opens'
          /\ stored' \in [Allowances -> [amount : Unknown..MaxAmount, time : 0..MaxOpens]]
          /\ DOMAIN latest' = Addresses /\ \A a \in Addresses : DOMAIN latest'[a] = Watched(a)
      BY DEF Types
    <2> QED BY <1>5, <1>6, <2>1, <2>2, <2>3 DEF Types
  <1>8. \A j \in Opens, al \in Allowances : Reported(j, al)' => Reported(j, al)
    BY DEF Reported
  <1>9. ASSUME NEW al \in Allowances \ doubt PROVE Sound(al)'
    <2>1. Sound(al)
      BY DEF AllSound
    <2>2. Alone(al)'
      BY <1>3, <2>1 DEF Sound, Alone, Types
    <2> QED BY <1>8, <2>1, <2>2 DEF Sound, Landed, Known, Held, Young
  <1> QED BY <1>7, <1>9 DEF AllSound

(* What has a stage has been opened, and so has what has reported.         *)
LEMMA Started ==
  ASSUME Types, NEW k \in Opens, gets[k].stage # "closed" \/ gets[k].listed # {}
  PROVE  k <= opens
  <1>1. k \in Int /\ opens \in Int
    BY DEF Types, Opens
  <1>2. gets[k] # Closed
    BY DEF Closed
  <1>3. ~(k > opens)
    BY <1>2 DEF Types
  <1> QED BY <1>1, <1>3

(* The removal: what goes without doubt was listed by the subscription and *)
(* is older, so that its report of this very subscription is on its way.   *)
LEMMA RemovalSound ==
  ASSUME Types, AllSound, NEW k \in Opens, RemoveStored(k)
  PROVE  Types' /\ AllSound'
  <1> DEFINE gone == {al \in Allowances : stored[al] # None /\ stored[al].time < k}
  <1>1. /\ gets[k].stage = "removing"
        /\ stored' = [al \in Allowances |-> IF al \in gone THEN None ELSE stored[al]]
        /\ gets' = [gets EXCEPT ![k].stage = "telling", ![k].listed = {}]
        /\ doubt' = doubt \cup (gone \ gets[k].listed)
        /\ UNCHANGED <<amount, opens, subscriptions, lives, adding, latest>>
    BY DEF RemoveStored, server, path
  <1>2. k <= opens
    BY <1>1, Started
  <1>3. /\ gets' \in [Opens -> Subscription]
        /\ \A j \in Opens : gets'[j].address = gets[j].address /\ gets'[j].left = gets[j].left
        /\ \A j \in Opens : j # k => gets'[j] = gets[j]
        /\ gets'[k].listed = {} /\ gets'[k].stage = "telling"
    <2>1. gets[k] \in Subscription /\ DOMAIN gets = Opens
      BY DEF Types
    <2>2. gets' = [gets EXCEPT ![k] = [gets[k] EXCEPT !.stage = "telling", !.listed = {}]]
      BY <1>1, <2>1 DEF Subscription
    <2>3. gets'[k] = [gets[k] EXCEPT !.stage = "telling", !.listed = {}]
      BY <2>1, <2>2
    <2>4. /\ gets'[k].address = gets[k].address /\ gets'[k].left = gets[k].left
          /\ gets'[k].listed = {} /\ gets'[k].stage = "telling"
          /\ gets'[k] \in Subscription
      BY <2>1, <2>3 DEF Subscription, Stages
    <2>5. \A j \in Opens : j # k => gets'[j] = gets[j]
      BY <2>1, <2>2
    <2>6. DOMAIN gets' = Opens /\ gets' = [j \in Opens |-> gets'[j]]
      BY <2>1, <2>2
    <2>7. \A j \in Opens : gets'[j] \in Subscription
      BY <2>4, <2>5 DEF Types
    <2>8. gets' \in [Opens -> Subscription]
      BY <2>6, <2>7
    <2> QED BY <2>4, <2>5, <2>8
  <1>4. stored' \in [Allowances -> [amount : Unknown..MaxAmount, time : 0..MaxOpens]]
    <2>1. None \in [amount : Unknown..MaxAmount, time : 0..MaxOpens]
      BY OpensAssumption, AmountAssumption DEF None, Unknown
    <2> QED BY <1>1, <2>1 DEF Types
  <1>5. \A r \in Reports : Reporter(r)' = Reporter(r) /\ (Genuine(r) => Genuine(r)')
    BY <1>1, <1>3 DEF Reporter, Genuine, Reports
  <1>6. \A j \in Opens : gets[j].left \subseteq Reports
    BY DEF Types, Subscription
  <1>7. \A j \in Opens : \A r \in gets'[j].left : r.opening = j /\ Genuine(r)'
    BY <1>3, <1>5, <1>6 DEF Types
  <1>8. \A j \in Opens : IF j > opens' THEN gets'[j] = Closed ELSE gets'[j].address \in Addresses
    BY <1>1, <1>2, <1>3 DEF Types, Opens
  <1>9. \A j \in Opens : gets'[j].stage = "removing" => gets'[j].left = {}
    BY <1>3 DEF Types
  <1>10. Types'
    <2>1. adding' \subseteq Reports /\ \A r \in adding' : Genuine(r)'
      BY <1>1, <1>5 DEF Types
    <2>2. /\ amount' \in [Allowances -> 0..MaxAmount] /\ opens' \in 0..MaxOpens /\ subscriptions' \in Seq(Addresses)
          /\ lives' \subseteq Opens /\ \A j \in lives' : j <= opens'
          /\ DOMAIN latest' = Addresses /\ \A a \in Addresses : DOMAIN latest'[a] = Watched(a)
      BY <1>1 DEF Types
    <2> QED BY <1>3, <1>4, <1>7, <1>8, <1>9, <2>1, <2>2 DEF Types
  <1>11. \A j \in Opens, al \in Allowances : Reported(j, al)' => Reported(j, al)
    BY <1>3 DEF Reported
  <1>12. ASSUME NEW al \in Allowances \ doubt' PROVE Sound(al)'
    <2>1. Sound(al)
      BY <1>1, <1>12 DEF AllSound
    <2>2. Alone(al)' /\ (Landed(al)' <=> Landed(al)) /\ (Known(al)' <=> Known(al))
      BY <1>1, <1>5, <2>1 DEF Sound, Alone, Landed, Known, Types
    <2>3. CASE al \notin gone
      <3>1. stored'[al] = stored[al]
        BY <1>1, <2>3
      <3> QED BY <1>1, <1>11, <2>1, <2>2, <3>1 DEF Sound, Held, Young
    <2>4. CASE al \in gone
      <3>1. al \in gets[k].listed /\ gets[k].left = {}
        BY <1>1, <1>12, <2>4 DEF Types
      <3>2. Reported(k, al)
        BY <3>1 DEF Reported
      <3>3. ~(stored[al].time >= k)
        BY <2>4 DEF Types, Opens
      <3>4. ~Landed(al)
        BY <2>1, <3>2, <3>3 DEF Sound, Young
      <3> QED BY <2>2, <3>4 DEF Sound
    <2> QED BY <2>3, <2>4
  <1> QED BY <1>10, <1>12 DEF AllSound

(* A report that lands is the last one, and as young as can be.            *)
LEMMA AddedSound ==
  ASSUME Types, AllSound, NEW r \in adding, Added(r)
  PROVE  Types' /\ AllSound'
  <1>1. /\ adding' = adding \ {r}
        /\ stored' = [stored EXCEPT ![r.allowance] = [amount |-> r.amount, time |-> opens]]
        /\ UNCHANGED <<amount, opens, subscriptions, gets, lives, latest, doubt>>
    BY DEF Added, server, service, past
  <1>2. r \in Reports /\ Genuine(r) /\ opens \in 0..MaxOpens
    BY DEF Types
  <1>3. stored' \in [Allowances -> [amount : Unknown..MaxAmount, time : 0..MaxOpens]]
    <2>1. [amount |-> r.amount, time |-> opens] \in [amount : Unknown..MaxAmount, time : 0..MaxOpens]
      BY <1>2, AmountAssumption DEF Reports, Unknown
    <2> QED BY <1>1, <2>1 DEF Types
  <1>4. \A s \in Reports : Reporter(s)' = Reporter(s) /\ (Genuine(s) => Genuine(s)')
    BY <1>1 DEF Reporter, Genuine
  <1>5. Types'
    <2>1. \A k \in Opens : \A s \in gets'[k].left : s.opening = k /\ Genuine(s)'
      BY <1>1, <1>4 DEF Types, Subscription
    <2> QED BY <1>1, <1>3, <1>4, <2>1 DEF Types
  <1>6. ASSUME NEW al \in Allowances \ doubt PROVE Sound(al)'
    <2>1. Sound(al)
      BY <1>6 DEF AllSound
    <2>2. Alone(al)' /\ (Known(al)' <=> Known(al))
      BY <1>1, <1>4, <2>1 DEF Sound, Alone, Known, Types
    <2>3. CASE r.allowance # al
      <3>1. stored'[al] = stored[al] /\ (Landed(al)' => Landed(al))
        BY <1>1, <2>3 DEF Landed, Types
      <3> QED BY <1>1, <2>1, <2>2, <3>1 DEF Sound, Held, Young, Reported
    <2>4. CASE r.allowance = al
      <3>1. stored'[al] = [amount |-> r.amount, time |-> opens]
        BY <1>1, <2>4 DEF Types
      <3>2. r.amount = latest[Reporter(r)][al]
        BY <2>1, <2>4 DEF Sound, Alone
      <3>3. Reporter(r) \in Addresses /\ al \in Watched(Reporter(r))
        BY <1>2, <2>4 DEF Genuine, Types, Reporter, Reports, Opens
      <3>4. Held(al)'
        BY <1>1, <3>1, <3>2, <3>3 DEF Held, Watched
      <3>5. \A k \in Opens : Reported(k, al)' => k <= opens
        BY <1>1, Started DEF Reported
      <3>6. Young(al)'
        BY <3>1, <3>5, <1>2 DEF Young, Opens
      <3> QED BY <2>2, <3>4, <3>6 DEF Sound
    <2> QED BY <2>3, <2>4
  <1> QED BY <1>1, <1>5, <1>6 DEF AllSound

(* A write that fails leaves its allowance in doubt.                       *)
LEMMA AddFailsSound ==
  ASSUME Types, AllSound, NEW r \in adding, AddFails(r)
  PROVE  Types' /\ AllSound'
  <1>1. /\ adding' = adding \ {r} /\ doubt' = doubt \cup {r.allowance}
        /\ UNCHANGED <<amount, opens, subscriptions, gets, lives, latest, stored>>
    BY DEF AddFails, server, service
  <1>2. \A s \in Reports : Reporter(s)' = Reporter(s) /\ (Genuine(s) => Genuine(s)')
    BY <1>1 DEF Reporter, Genuine
  <1>3. Types'
    <2>1. \A k \in Opens : \A s \in gets'[k].left : s.opening = k /\ Genuine(s)'
      BY <1>1, <1>2 DEF Types, Subscription
    <2> QED BY <1>1, <1>2, <2>1 DEF Types
  <1>4. ASSUME NEW al \in Allowances \ doubt' PROVE Sound(al)'
    <2>1. Sound(al) /\ r.allowance # al
      BY <1>1, <1>4 DEF AllSound
    <2>2. Alone(al)'
      BY <1>1, <1>2, <2>1 DEF Sound, Alone, Types
    <2>3. Landed(al)' => Landed(al)
      BY <1>1, <2>1 DEF Landed
    <2> QED BY <1>1, <2>1, <2>2, <2>3 DEF Sound, Known, Held, Young, Reported
  <1> QED BY <1>3, <1>4 DEF AllSound

-----------------------------------------------------------------------------
(* A change of an allowance reaches the handler by every open stream of    *)
(* its two addresses.                                                      *)
LEMMA ChangeSound ==
  ASSUME Types, AllSound, NEW al \in Allowances, NEW v \in 0..MaxAmount, Change(al, v)
  PROVE  Types' /\ AllSound'
  <1> DEFINE reports == {[opening |-> k, allowance |-> al, amount |-> v] :
                           k \in {l \in lives : al \in Watched(gets[l].address)}}
  <1>1. /\ Handle(reports) /\ amount' = [amount EXCEPT ![al] = v]
        /\ UNCHANGED <<opens, subscriptions, gets, lives, stored>>
    BY DEF Change, service
  <1>2. reports \subseteq Reports /\ \A r \in reports : Genuine(r)
    BY DEF Types, Reports, Genuine, Reporter
  <1>3. \A k \in Opens, x \in Allowances : Reported(k, x)' => Reported(k, x)
    BY <1>1 DEF Reported
  <1> HIDE DEF reports
  <1>4. /\ adding' \subseteq Reports /\ \A r \in adding' : Genuine(r)'
        /\ DOMAIN latest' = Addresses /\ \A a \in Addresses : DOMAIN latest'[a] = Watched(a)
        /\ AllSound'
    BY <1>1, <1>2, <1>3, HandleSound
  <1>5. \A k \in Opens : \A r \in gets'[k].left : r.opening = k /\ Genuine(r)'
    BY <1>1 DEF Types, Genuine, Reporter
  <1>6. Types'
    <2>1. /\ amount' \in [Allowances -> 0..MaxAmount] /\ opens' \in 0..MaxOpens /\ subscriptions' \in Seq(Addresses)
          /\ gets' \in [Opens -> Subscription]
          /\ \A k \in Opens : IF k > opens' THEN gets'[k] = Closed ELSE gets'[k].address \in Addresses
          /\ \A k \in Opens : gets'[k].stage = "removing" => gets'[k].left = {}
          /\ lives' \subseteq Opens /\ \A k \in lives' : k <= opens'
          /\ stored' \in [Allowances -> [amount : Unknown..MaxAmount, time : 0..MaxOpens]]
      BY <1>1 DEF Types
    <2> QED BY <1>4, <1>5, <2>1 DEF Types
  <1> QED BY <1>4, <1>6

(* A listed allowance is reported once.                                    *)
LEMMA ListedSound ==
  ASSUME Types, AllSound, NEW k \in Opens, Listed(k)
  PROVE  Types' /\ AllSound'
  <1>1. PICK r \in gets[k].left :
          Handle({r}) /\ gets' = [gets EXCEPT ![k].left = @ \ {r}]
    BY DEF Listed
  <1>2. /\ gets[k].stage = "listing"
        /\ UNCHANGED <<amount, opens, subscriptions, lives, stored>>
    BY DEF Listed, server
  <1>3. r \in Reports /\ Genuine(r)
    BY <1>1 DEF Types, Subscription
  <1>4. /\ gets' \in [Opens -> Subscription]
        /\ \A j \in Opens : /\ gets'[j].address = gets[j].address /\ gets'[j].listed = gets[j].listed
                            /\ gets'[j].stage = gets[j].stage
        /\ \A j \in Opens : j # k => gets'[j] = gets[j]
        /\ gets'[k].left = gets[k].left \ {r}
    <2>1. gets[k] \in Subscription /\ DOMAIN gets = Opens
      BY DEF Types
    <2>2. gets' = [gets EXCEPT ![k] = [gets[k] EXCEPT !.left = gets[k].left \ {r}]]
      BY <1>1, <2>1 DEF Subscription
    <2>3. gets'[k] = [gets[k] EXCEPT !.left = gets[k].left \ {r}]
      BY <2>1, <2>2
    <2>4. /\ gets'[k].address = gets[k].address /\ gets'[k].listed = gets[k].listed
          /\ gets'[k].stage = gets[k].stage /\ gets'[k].left = gets[k].left \ {r}
          /\ gets'[k] \in Subscription
      BY <2>1, <2>3 DEF Subscription
    <2>5. \A j \in Opens : j # k => gets'[j] = gets[j]
      BY <2>1, <2>2
    <2>6. DOMAIN gets' = Opens /\ gets' = [j \in Opens |-> gets'[j]]
      BY <2>1, <2>2
    <2>7. \A j \in Opens : gets'[j] \in Subscription
      BY <2>4, <2>5 DEF Types
    <2>8. gets' \in [Opens -> Subscription]
      BY <2>6, <2>7
    <2> QED BY <2>4, <2>5, <2>8
  <1>5. \A j \in Opens, al \in Allowances :
          Reported(j, al)' => Reported(j, al) \/ \E s \in {r} : s.allowance = al
    <2> SUFFICES ASSUME NEW j \in Opens, NEW al \in Allowances, Reported(j, al)', r.allowance # al
                 PROVE  Reported(j, al)
      OBVIOUS
    <2>1. \A s \in gets[j].left : s \in gets'[j].left \/ s = r
      BY <1>4
    <2> QED BY <1>4, <2>1 DEF Reported
  <1>6. /\ adding' \subseteq Reports /\ \A s \in adding' : Genuine(s)'
        /\ DOMAIN latest' = Addresses /\ \A a \in Addresses : DOMAIN latest'[a] = Watched(a)
        /\ AllSound'
    BY <1>1, <1>2, <1>3, <1>4, <1>5, HandleSound
  <1>7. \A j \in Opens : \A s \in gets'[j].left : s.opening = j /\ Genuine(s)'
    <2> SUFFICES ASSUME NEW j \in Opens, NEW s \in gets'[j].left
                 PROVE  s.opening = j /\ Genuine(s)'
      OBVIOUS
    <2>1. s \in gets[j].left
      BY <1>4
    <2>2. s.opening = j /\ Genuine(s)
      BY <2>1 DEF Types
    <2> QED BY <1>2, <1>4, <2>2 DEF Genuine, Reporter
  <1>8. \A j \in Opens : IF j > opens' THEN gets'[j] = Closed ELSE gets'[j].address \in Addresses
    BY <1>2, <1>4 DEF Types, Closed, Opens
  <1>9. \A j \in Opens : gets'[j].stage = "removing" => gets'[j].left = {}
    BY <1>4 DEF Types
  <1>10. /\ opens' \in 0..MaxOpens /\ subscriptions' \in Seq(Addresses) /\ amount' \in [Allowances -> 0..MaxAmount]
         /\ lives' \subseteq Opens /\ \A j \in lives' : j <= opens'
         /\ stored' \in [Allowances -> [amount : Unknown..MaxAmount, time : 0..MaxOpens]]
    BY <1>2 DEF Types
  <1>11. Types'
    BY <1>4, <1>6, <1>7, <1>8, <1>9, <1>10 DEF Types
  <1> QED BY <1>6, <1>11
-----------------------------------------------------------------------------
(* Steps that open new subscriptions.                                      *)
LEMMA OpeningSound ==
  ASSUME Types, AllSound, (\E a \in Addresses : CreateSubscription(a)) \/ Reconnect
  PROVE  Types' /\ AllSound'
  <1>1. CASE Reconnect
    <2>1. /\ Subscribe(subscriptions, lives \ {current[a] : a \in Addresses})
          /\ UNCHANGED <<amount, subscriptions, stored, adding, latest, doubt>>
      BY <1>1 DEF Reconnect, server, path, past
    <2> QED BY <2>1, SubscribeSound DEF Types
  <1>2. ASSUME NEW a \in Addresses, CreateSubscription(a)
        PROVE  Types' /\ AllSound'
    <2> DEFINE others == Without(subscriptions, a)
    <2>1. /\ subscriptions' = Append(others, a)
          /\ Subscribe(<<a>>, lives)
          /\ UNCHANGED <<amount, stored, adding, latest, doubt>>
      BY <1>2 DEF CreateSubscription, server, path, past
    <2>2. others \in Seq(Addresses)
      <3>1. subscriptions \in Seq(Addresses)
        BY DEF Types
      <3>2. CASE a \in ToSet(subscriptions)
        <4> DEFINE i == CHOOSE j \in DOMAIN subscriptions : subscriptions[j] = a
        <4>1. i \in 1..Len(subscriptions)
          BY <3>1, <3>2 DEF ToSet
        <4>2. others = SubSeq(subscriptions, 1, i - 1) \o SubSeq(subscriptions, i + 1, Len(subscriptions))
          BY <3>2 DEF Without, RemoveAt
        <4> HIDE DEF i, others
        <4> QED BY <3>1, <4>1, <4>2
      <3>3. CASE a \notin ToSet(subscriptions)
        BY <3>1, <3>3 DEF Without
      <3> QED BY <3>2, <3>3
    <2>3. subscriptions' \in Seq(Addresses)
      <3> HIDE DEF others
      <3> QED BY <2>1, <2>2
    <2>4. <<a>> \in Seq(Addresses)
      OBVIOUS
    <2> QED BY <2>1, <2>3, <2>4, SubscribeSound
  <1> QED BY <1>1, <1>2

(* Steps of a listing and the removal of its rows.                         *)
LEMMA ListingSteps ==
  ASSUME Types, AllSound, NEW k \in Opens, ListingEnds(k) \/ ListingFails(k) \/ RemoveRows(k)
  PROVE  Types' /\ AllSound'
  <1> DEFINE old == gets[k]
  <1>1. old \in Subscription /\ DOMAIN gets = Opens
    BY DEF Types
  <1>2. /\ old.stage # "closed"
        /\ UNCHANGED <<amount, opens, subscriptions, lives, stored, adding, latest, doubt>>
    BY DEF ListingEnds, ListingFails, RemoveRows, server, path, past
  <1>3. k <= opens
    BY <1>2, Started
  <1>4. PICK new \in Subscription :
          /\ gets' = [gets EXCEPT ![k] = new]
          /\ new.address = old.address
          /\ new.stage = "removing" => new.left = {}
          /\ \/ new.listed = old.listed /\ new.left = old.left
             \/ new.listed = {} /\ new.left \subseteq old.left
    <2>1. CASE ListingEnds(k)
      <3> DEFINE new == [old EXCEPT !.stage = "removing"]
      <3>1. gets' = [gets EXCEPT ![k] = new] /\ old.left = {}
        BY <1>1, <2>1 DEF ListingEnds, Subscription
      <3>2. /\ new \in Subscription /\ new.address = old.address
            /\ new.listed = old.listed /\ new.left = old.left
        BY <1>1 DEF Subscription, Stages
      <3> QED BY <3>1, <3>2
    <2>2. CASE ListingFails(k)
      <3> DEFINE new == [old EXCEPT !.stage = "done", !.left = {}, !.listed = {}]
      <3>1. gets' = [gets EXCEPT ![k] = new]
        BY <1>1, <2>2 DEF ListingFails, Subscription
      <3>2. /\ new \in Subscription /\ new.address = old.address
            /\ new.listed = {} /\ new.left = {}
        BY <1>1 DEF Subscription, Stages
      <3> QED BY <3>1, <3>2
    <2>3. CASE RemoveRows(k)
      <3> DEFINE new == [old EXCEPT !.stage = "done"]
      <3>1. gets' = [gets EXCEPT ![k] = new]
        BY <1>1, <2>3 DEF RemoveRows, Subscription
      <3>2. /\ new \in Subscription /\ new.address = old.address /\ new.stage = "done"
            /\ new.listed = old.listed /\ new.left = old.left
        BY <1>1 DEF Subscription, Stages
      <3> QED BY <3>1, <3>2
    <2> QED BY <2>1, <2>2, <2>3
  <1>5. gets' \in [Opens -> Subscription] /\ gets'[k] = new /\ \A j \in Opens : j # k => gets'[j] = gets[j]
    BY <1>1, <1>4 DEF Types
  <1> QED BY <1>2, <1>3, <1>4, <1>5, ListingSound

(* Steps that change neither the storage nor what is on its way to it.     *)
LEMMA OtherSteps ==
  ASSUME Types, AllSound, lives' \subseteq lives,
         UNCHANGED <<amount, opens, subscriptions, gets, stored, adding, latest, doubt>>
  PROVE  Types' /\ AllSound'
  <1>1. Types'
    BY DEF Types, Genuine, Reporter
  <1>2. AllSound'
    BY DEF AllSound, Sound, Alone, Landed, Known, Held, Young, Reported, Reporter
  <1> QED BY <1>1, <1>2

(* Every step keeps the invariant.                                         *)
LEMMA StepSound == Types /\ AllSound /\ [Next]_vars => Types' /\ AllSound'
  <1> SUFFICES ASSUME Types, AllSound, [Next]_vars PROVE Types' /\ AllSound'
    OBVIOUS
  <1>1. CASE (\E a \in Addresses : CreateSubscription(a)) \/ Reconnect
    BY <1>1, OpeningSound
  <1>2. ASSUME NEW al \in Allowances, NEW v \in 0..MaxAmount, Change(al, v) PROVE Types' /\ AllSound'
    BY <1>2, ChangeSound
  <1>3. ASSUME NEW k \in Opens, LiveFails(k) PROVE Types' /\ AllSound'
    BY <1>3, OtherSteps DEF LiveFails, server, past
  <1>4. ASSUME NEW k \in Opens, Listed(k) PROVE Types' /\ AllSound'
    BY <1>4, ListedSound
  <1>5. ASSUME NEW k \in Opens, ListingEnds(k) \/ ListingFails(k) \/ RemoveRows(k)
        PROVE  Types' /\ AllSound'
    BY <1>5, ListingSteps
  <1>6. ASSUME NEW k \in Opens, RemoveStored(k) PROVE Types' /\ AllSound'
    BY <1>6, RemovalSound
  <1>7. ASSUME NEW r \in adding, Added(r) PROVE Types' /\ AllSound'
    BY <1>7, AddedSound
  <1>8. ASSUME NEW r \in adding, AddFails(r) PROVE Types' /\ AllSound'
    BY <1>8, AddFailsSound
  <1>9. ASSUME NEW r \in describing, Described(r) \/ DescribeFails(r) PROVE Types' /\ AllSound'
    BY <1>9, OtherSteps DEF Described, DescribeFails, server, service, past
  <1>10. CASE Flush
    BY <1>10, OtherSteps DEF Flush, server, service
  <1>11. CASE ReadCache
    BY <1>11, OtherSteps DEF ReadCache, server, service, path, past
  <1>12. ASSUME NEW init \in inits, InitAllowance(init) PROVE Types' /\ AllSound'
    BY <1>12, OtherSteps DEF InitAllowance, server, service, path, past
  <1>13. CASE UNCHANGED vars
    BY <1>13, OtherSteps DEF vars
  <1> QED BY <1>1, <1>2, <1>3, <1>4, <1>5, <1>6, <1>7, <1>8, <1>9, <1>10, <1>11, <1>12, <1>13 DEF Next

(* In every behaviour: once the reports of an allowance have landed, the   *)
(* storage holds the last one, as AllowanceService means it to, outside    *)
(* the doubts that the model names.                                        *)
THEOREM StoredHoldsTheLast == Spec => []StoredIsReported
  <1>1. Types /\ AllSound => StoredIsReported
    <2> SUFFICES ASSUME AllSound, NEW a \in Addresses, NEW al \in Watched(a) \ doubt,
                        latest[a][al] # Unknown, ~\E r \in adding : r.allowance = al
                 PROVE  \E b \in Addresses : al \in Watched(b) /\ stored[al].amount = latest[b][al]
      BY DEF StoredIsReported
    <2>1. al \in Allowances \ doubt
      BY DEF Watched
    <2>2. Known(al) /\ Landed(al)
      BY DEF Known, Landed
    <2> QED BY <2>1, <2>2 DEF AllSound, Sound, Held
  <1> QED BY <1>1, Start, StepSound, PTL DEF Spec

-----------------------------------------------------------------------------
(* The way of a report to the screen: one that is described or buffered    *)
(* comes from a subscription, and the balance of its owner was asked for.  *)
Asked(r) == <<r.allowance.owner, r.allowance.token>> \in balances
Sent == [opening : Opens, allowance : Allowances, amount : 0..MaxAmount, time : 0..MaxOpens]
OnItsWay ==
  /\ describing \subseteq Reports /\ \A r \in describing : Genuine(r) /\ Asked(r)
  /\ buffer \in Seq(Sent)
  /\ \A i \in DOMAIN buffer : Genuine(buffer[i]) /\ Asked(buffer[i]) /\ buffer[i].time <= opens

(* A report of al to address a is at one place of the way at most, and it  *)
(* is the last one; when it has arrived the rows of al show it.            *)
Places(a, al) == {i \in DOMAIN buffer : Reporter(buffer[i]) = a /\ buffer[i].allowance = al}
Single(S) == \A x, y \in S : x = y
OneReport(a, al) ==
  /\ Single(Under(adding, a, al)) /\ Single(Under(describing, a, al)) /\ Single(Places(a, al))
  /\ Under(adding, a, al) # {} => Under(describing, a, al) = {} /\ Places(a, al) = {}
  /\ Under(describing, a, al) # {} => Places(a, al) = {}
LastReport(a, al) ==
  /\ \A r \in Under(adding, a, al) : r.amount = latest[a][al]
  /\ \A r \in Under(describing, a, al) : r.amount = latest[a][al]
  /\ \A i \in Places(a, al) : buffer[i].amount = latest[a][al]
Arrived(a, al) ==
  Under(adding, a, al) = {} /\ Under(describing, a, al) = {} /\ Places(a, al) = {}
RowsOf(a, al) == {o \in rows : o.key = Key(a, al) /\ o.allowance = al}
Shows(a, al) ==
  /\ RowsOf(a, al) # {} /\ \A o \in RowsOf(a, al) : o.amount = latest[a][al]
  /\ <<al.owner, al.token>> \in balances
RowSound(a, al) ==
  /\ OneReport(a, al) /\ LastReport(a, al)
  /\ Arrived(a, al) /\ latest[a][al] # Unknown => Shows(a, al)
RowsSound ==
  \A a \in Addresses : \A al \in Watched(a) : <<a, al>> \notin clash => RowSound(a, al)

(* What is opened stays with its address.                                  *)
AddressesStay ==
  opens <= opens' /\ \A k \in Opens : k <= opens => gets'[k].address = gets[k].address

(* The way and the rows at first: both are empty.                          *)
LEMMA StartOfRows == Init => OnItsWay /\ RowsSound
  <1> SUFFICES ASSUME Init PROVE OnItsWay /\ RowsSound
    OBVIOUS
  <1>1. /\ adding = {} /\ describing = {} /\ buffer = <<>>
        /\ latest = [a \in Addresses |-> [al \in Watched(a) |-> Unknown]]
    BY DEF Init
  <1>2. buffer \in Seq(Sent) /\ DOMAIN buffer = {}
    BY <1>1
  <1>3. OnItsWay
    BY <1>1, <1>2 DEF OnItsWay
  <1>4. ASSUME NEW a \in Addresses, NEW al \in Watched(a) PROVE RowSound(a, al)
    <2>1. Under(adding, a, al) = {} /\ Under(describing, a, al) = {} /\ Places(a, al) = {}
      BY <1>1, <1>2 DEF Under, Places
    <2>2. latest[a][al] = Unknown
      BY <1>1
    <2> QED BY <2>1, <2>2 DEF RowSound, OneReport, LastReport, Single
  <1> QED BY <1>3, <1>4 DEF RowsSound

(* What is buffered is a report.                                           *)
LEMMA InBuffer ==
  ASSUME Types, OnItsWay, NEW i \in DOMAIN buffer
  PROVE  /\ buffer[i] \in Sent /\ buffer[i].opening \in Opens /\ buffer[i].opening <= opens
         /\ buffer[i].opening \in Int /\ buffer[i].time \in Int /\ buffer[i].time <= opens
         /\ Genuine(buffer[i]) /\ Asked(buffer[i])
         /\ opens \in Int /\ DOMAIN buffer = 1..Len(buffer)
  <1>1. buffer \in Seq(Sent) /\ Genuine(buffer[i]) /\ Asked(buffer[i]) /\ buffer[i].time <= opens
    BY DEF OnItsWay
  <1>2. DOMAIN buffer = 1..Len(buffer) /\ buffer[i] \in Sent
    BY <1>1
  <1>3. buffer[i].opening \in Opens /\ buffer[i].time \in Int
    BY <1>2, OpensAssumption DEF Sent
  <1>4. buffer[i].opening \in Int /\ opens \in Int
    BY <1>3, OpensAssumption DEF Opens, Types
  <1>5. buffer[i].opening <= opens
    BY <1>1 DEF Genuine
  <1> QED BY <1>1, <1>2, <1>3, <1>4, <1>5

(* The address a report is for does not change.                            *)
LEMMA SameReporter ==
  ASSUME Types, opens' \in Int, AddressesStay, NEW r, r.opening \in Opens, Genuine(r)
  PROVE  Reporter(r)' = Reporter(r) /\ Genuine(r)'
  <1>1. r.opening \in Int /\ opens \in Int /\ r.opening <= opens
    BY DEF Genuine, Types, Opens
  <1>2. gets'[r.opening].address = gets[r.opening].address
    BY <1>1 DEF AddressesStay
  <1>3. r.opening <= opens'
    BY <1>1 DEF AddressesStay
  <1> QED BY <1>2, <1>3 DEF Reporter, Genuine

(* ... nor do the sets of reports that are nowhere added or taken away.    *)
LEMMA SameUnder ==
  ASSUME Types, OnItsWay, opens' \in Int, AddressesStay
  PROVE  /\ \A r \in adding \cup describing : Reporter(r)' = Reporter(r) /\ Genuine(r)'
         /\ \A i \in DOMAIN buffer :
              gets'[buffer[i].opening].address = Reporter(buffer[i]) /\ buffer[i].opening <= opens'
  <1>1. \A r \in adding \cup describing : r.opening \in Opens /\ Genuine(r)
    BY DEF Types, OnItsWay, Reports
  <1>2. ASSUME NEW i \in DOMAIN buffer
        PROVE  gets'[buffer[i].opening].address = Reporter(buffer[i]) /\ buffer[i].opening <= opens'
    <2>1. buffer[i].opening \in Opens
      BY InBuffer
    <2>2. buffer[i].opening \in Int /\ opens \in Int /\ buffer[i].opening <= opens
      BY InBuffer
    <2>3. gets'[buffer[i].opening].address = gets[buffer[i].opening].address
      BY <2>1, <2>2 DEF AddressesStay
    <2>4. buffer[i].opening <= opens'
      BY <2>2 DEF AddressesStay
    <2> QED BY <2>3, <2>4 DEF Reporter
  <1>3. \A r \in adding \cup describing : Reporter(r)' = Reporter(r) /\ Genuine(r)'
    BY <1>1, SameReporter
  <1> QED BY <1>2, <1>3

(* An allowance whose reports and rows a step leaves alone stays sound.    *)
LEMMA Elsewhere ==
  ASSUME NEW a, NEW al, RowSound(a, al),
         Under(adding, a, al)' = Under(adding, a, al),
         Under(describing, a, al)' = Under(describing, a, al),
         Places(a, al)' = Places(a, al),
         \A i \in Places(a, al) : buffer'[i].amount = buffer[i].amount,
         latest'[a][al] = latest[a][al],
         Shows(a, al) => RowsOf(a, al)' = RowsOf(a, al), balances \subseteq balances'
  PROVE  RowSound(a, al)'
  <1>1. OneReport(a, al)'
    BY DEF RowSound, OneReport, Single
  <1>2. LastReport(a, al)'
    BY DEF RowSound, LastReport
  <1>3. Arrived(a, al)' <=> Arrived(a, al)
    BY DEF Arrived
  <1>4. Shows(a, al) => Shows(a, al)'
    BY DEF Shows
  <1> QED BY <1>1, <1>2, <1>3, <1>4 DEF RowSound

(* The way of what is described and buffered, when a step adds to neither. *)
LEMMA WayStays ==
  ASSUME Types, OnItsWay, opens' \in Int, AddressesStay,
         describing' \subseteq describing, buffer' = buffer, balances \subseteq balances'
  PROVE  OnItsWay'
  <1>1. /\ \A r \in adding \cup describing : Reporter(r)' = Reporter(r) /\ Genuine(r)'
        /\ \A i \in DOMAIN buffer :
             gets'[buffer[i].opening].address = Reporter(buffer[i]) /\ buffer[i].opening <= opens'
    BY SameUnder
  <1>2. ASSUME NEW i \in DOMAIN buffer'
        PROVE  Genuine(buffer[i])' /\ Asked(buffer[i])' /\ buffer'[i].time <= opens'
    <2>1. i \in DOMAIN buffer /\ buffer' = buffer
      OBVIOUS
    <2>2. Genuine(buffer[i]) /\ Asked(buffer[i]) /\ buffer[i].time <= opens
            /\ buffer[i].time \in Int /\ opens \in Int
      BY <2>1, InBuffer
    <2>3. buffer[i].time <= opens'
      BY <2>2 DEF AddressesStay
    <2> QED BY <1>1, <2>1, <2>2, <2>3 DEF Genuine, Reporter, Asked
  <1>3. \A r \in describing' : Genuine(r)' /\ Asked(r)'
    BY <1>1 DEF OnItsWay, Asked
  <1> QED BY <1>2, <1>3 DEF OnItsWay

(* Steps on neither the way nor the screen.                                *)
LEMMA AsideKeepsRows ==
  ASSUME Types, OnItsWay, RowsSound, opens' \in Int, AddressesStay,
         UNCHANGED <<adding, describing, buffer, balances, rows, latest, clash>>
  PROVE  OnItsWay' /\ RowsSound'
  <1>1. /\ \A r \in adding \cup describing : Reporter(r)' = Reporter(r) /\ Genuine(r)'
        /\ \A i \in DOMAIN buffer :
             gets'[buffer[i].opening].address = Reporter(buffer[i]) /\ buffer[i].opening <= opens'
    BY SameUnder
  <1>2. OnItsWay'
    BY WayStays
  <1>3. ASSUME NEW a \in Addresses, NEW al \in Watched(a), <<a, al>> \notin clash'
        PROVE  RowSound(a, al)'
    <2>1. Under(adding, a, al)' = Under(adding, a, al)
      BY <1>1 DEF Under
    <2>2. Under(describing, a, al)' = Under(describing, a, al)
      BY <1>1 DEF Under
    <2>3. Places(a, al)' = Places(a, al)
      BY <1>1 DEF Places, Reporter
    <2>4. RowsOf(a, al)' = RowsOf(a, al)
      BY DEF RowsOf
    <2>5. RowSound(a, al)
      BY <1>3 DEF RowsSound
    <2> QED BY <2>1, <2>2, <2>3, <2>4, <2>5, Elsewhere
  <1> QED BY <1>2, <1>3 DEF RowsSound

(* A finite set without two members has one at most.                       *)
LEMMA AtMostOne ==
  ASSUME NEW S, IsFiniteSet(S), ~(Cardinality(S) > 1)
  PROVE  Single(S)
  <1> SUFFICES ASSUME NEW x \in S, NEW y \in S, x # y PROVE FALSE
    BY DEF Single
  <1>1. IsFiniteSet({x}) /\ Cardinality({x}) = 1
    BY FS_Singleton
  <1>2. IsFiniteSet({x} \cup {y}) /\ Cardinality({x} \cup {y}) = Cardinality({x}) + 1
    BY <1>1, FS_AddElement
  <1>3. {x} \cup {y} \subseteq S
    OBVIOUS
  <1>4. Cardinality({x} \cup {y}) <= Cardinality(S) /\ Cardinality(S) \in Nat
    BY <1>3, FS_Subset, FS_CardinalityType
  <1> QED BY <1>1, <1>2, <1>4

(* What handling reports leaves without a clash: reports that cross none.  *)
LEMMA HandleClash ==
  ASSUME NEW reports, Handle(reports), NEW a \in Addresses, NEW al \in Watched(a),
         <<a, al>> \notin clash'
  PROVE  IF Under(reports, a, al) = {}
           THEN <<a, al>> \notin clash
           ELSE Under(InFlight, a, al) = {} /\ ~(Cardinality(Under(reports, a, al)) > 1)
  <1>1. al \in Allowances
    BY DEF Watched
  <1> DEFINE received(b) == {x \in Watched(b) : Under(reports, b, x) # {}}
             crossed(b, x) == Under(InFlight, b, x) # {}
  <1>2. clash' = {c \in clash : c[2] \notin received(c[1])}
                    \cup {c \in Addresses \X Allowances :
                            /\ c[2] \in received(c[1])
                            /\ crossed(c[1], c[2]) \/ Cardinality(Under(reports, c[1], c[2])) > 1}
    BY DEF Handle
  <1>3. <<a, al>> \in Addresses \X Allowances
    BY <1>1
  <1>4. CASE Under(reports, a, al) = {}
    <2>1. al \notin received(a)
      BY <1>4
    <2> QED BY <1>2, <1>4, <2>1
  <1>5. CASE Under(reports, a, al) # {}
    <2>1. al \in received(a)
      BY <1>5
    <2>2. ~(crossed(a, al) \/ Cardinality(Under(reports, a, al)) > 1)
      BY <1>2, <1>3, <2>1
    <2> QED BY <1>5, <2>2
  <1> QED BY <1>4, <1>5

(* Reports that are handled begin their way alone, or clash.               *)
LEMMA HandleKeepsRows ==
  ASSUME Types, OnItsWay, RowsSound, opens' \in Int, AddressesStay,
         NEW reports \in SUBSET Reports, IsFiniteSet(reports), \A r \in reports : Genuine(r),
         Handle(reports), UNCHANGED <<describing, buffer, balances, rows>>
  PROVE  RowsSound'
  <1>1. /\ \A r \in adding \cup describing : Reporter(r)' = Reporter(r)
        /\ \A i \in DOMAIN buffer : gets'[buffer[i].opening].address = Reporter(buffer[i])
    BY SameUnder
  <1>2. \A r \in reports : Reporter(r)' = Reporter(r)
    BY SameReporter DEF Reports
  <1>3. /\ adding' = adding \cup reports
        /\ \A a \in Addresses : \A al \in Watched(a) :
             latest'[a][al] = IF Under(reports, a, al) # {}
                                THEN (CHOOSE r \in Under(reports, a, al) : TRUE).amount
                                ELSE latest[a][al]
    BY HandleFacts
  <1> SUFFICES ASSUME NEW a \in Addresses, NEW al \in Watched(a), <<a, al>> \notin clash'
               PROVE  RowSound(a, al)'
    BY DEF RowsSound
  <1>4. Under(describing, a, al)' = Under(describing, a, al)
    BY <1>1 DEF Under
  <1>5. Places(a, al)' = Places(a, al)
    BY <1>1 DEF Places, Reporter
  <1>6. Under(adding, a, al)' = Under(adding, a, al) \cup Under(reports, a, al)
    BY <1>1, <1>2, <1>3 DEF Under
  <1>7. CASE Under(reports, a, al) = {}
    <2>1. <<a, al>> \notin clash
      BY <1>7, HandleClash
    <2>2. RowSound(a, al)
      BY <2>1 DEF RowsSound
    <2>3. latest'[a][al] = latest[a][al] /\ Under(adding, a, al)' = Under(adding, a, al)
      BY <1>3, <1>6, <1>7
    <2>4. RowsOf(a, al)' = RowsOf(a, al)
      BY DEF RowsOf
    <2> QED BY <1>4, <1>5, <2>2, <2>3, <2>4, Elsewhere
  <1>8. CASE Under(reports, a, al) # {}
    <2>1. Under(InFlight, a, al) = {} /\ ~(Cardinality(Under(reports, a, al)) > 1)
      BY <1>8, HandleClash
    <2>2. Under(adding, a, al) = {} /\ Under(describing, a, al) = {} /\ Places(a, al) = {}
      BY <2>1 DEF InFlight, Under, Places, ToSet
    <2>3. IsFiniteSet(Under(reports, a, al))
      BY FS_Subset DEF Under
    <2>4. Single(Under(reports, a, al))
      BY <2>1, <2>3, AtMostOne
    <2>5. PICK r : Under(reports, a, al) = {r}
      BY <1>8, <2>4 DEF Single
    <2>6. latest'[a][al] = r.amount
      BY <1>3, <2>5
    <2>7. Under(adding, a, al)' = {r} /\ Under(describing, a, al)' = {} /\ Places(a, al)' = {}
      BY <1>4, <1>5, <1>6, <2>2, <2>5
    <2>8. OneReport(a, al)'
      BY <2>7 DEF OneReport, Single
    <2>9. LastReport(a, al)' /\ ~Arrived(a, al)'
      BY <2>6, <2>7 DEF LastReport, Arrived
    <2> QED BY <2>8, <2>9 DEF RowSound
  <1> QED BY <1>7, <1>8


-----------------------------------------------------------------------------
(* A step that leaves the subscriptions' addresses as they are.            *)
LEMMA ServiceStays ==
  ASSUME Types, UNCHANGED service
  PROVE  opens' \in Int /\ AddressesStay
  BY OpensAssumption DEF Types, service, AddressesStay

(* A report whose storing or describing fails clashes, the others do not.  *)
LEMMA FailureKeepsRows ==
  ASSUME Types, OnItsWay, RowsSound, NEW r,
         \/ r \in adding /\ AddFails(r)
         \/ r \in describing /\ DescribeFails(r)
  PROVE  OnItsWay' /\ RowsSound'
  <1>1. /\ UNCHANGED <<gets, opens, buffer, balances, rows, latest>>
        /\ clash' = clash \cup {<<Reporter(r), r.allowance>>}
        /\ UNCHANGED service
    BY DEF AddFails, DescribeFails, service, screen
  <1>2. /\ adding' \subseteq adding /\ \A s \in adding \ adding' : s = r
        /\ describing' \subseteq describing /\ \A s \in describing \ describing' : s = r
    BY DEF AddFails, DescribeFails
  <1>3. OnItsWay'
    BY <1>1, <1>2, WayStays, ServiceStays
  <1>4. ASSUME NEW a \in Addresses, NEW al \in Watched(a), <<a, al>> \notin clash'
        PROVE  RowSound(a, al)'
    <2>1. RowSound(a, al) /\ <<a, al>> # <<Reporter(r), r.allowance>>
      BY <1>1, <1>4 DEF RowsSound
    <2>2. Under(adding, a, al)' = Under(adding, a, al)
      BY <1>1, <1>2, <2>1 DEF Under, Reporter
    <2>3. Under(describing, a, al)' = Under(describing, a, al)
      BY <1>1, <1>2, <2>1 DEF Under, Reporter
    <2>4. Places(a, al)' = Places(a, al) /\ RowsOf(a, al)' = RowsOf(a, al)
      BY <1>1 DEF Places, Reporter, RowsOf
    <2> QED BY <1>1, <2>1, <2>2, <2>3, <2>4, Elsewhere
  <1> QED BY <1>3, <1>4 DEF RowsSound

(* The removal of rows: those that go clash, the others stay.              *)
LEMMA RemoveRowsKeepsRows ==
  ASSUME Types, OnItsWay, RowsSound, opens' \in Int, AddressesStay, NEW k \in Opens, RemoveRows(k)
  PROVE  OnItsWay' /\ RowsSound'
  <1> DEFINE gone == {r \in rows : r.key.address = gets[k].address /\ r.time >= k}
  <1>1. /\ UNCHANGED <<adding, describing, buffer, balances, latest>>
        /\ \/ UNCHANGED <<rows, clash>>
           \/ /\ rows' = rows \ gone
              /\ clash' = clash \cup {<<r.key.address, r.allowance>> : r \in gone}
    BY DEF RemoveRows, path
  <1>2. CASE UNCHANGED <<rows, clash>>
    BY <1>1, <1>2, AsideKeepsRows
  <1>3. CASE /\ rows' = rows \ gone
             /\ clash' = clash \cup {<<r.key.address, r.allowance>> : r \in gone}
    <2>1. OnItsWay'
      BY <1>1, WayStays
    <2>2. /\ \A r \in adding \cup describing : Reporter(r)' = Reporter(r)
          /\ \A i \in DOMAIN buffer : gets'[buffer[i].opening].address = Reporter(buffer[i])
      BY SameUnder
    <2>3. ASSUME NEW a \in Addresses, NEW al \in Watched(a), <<a, al>> \notin clash'
          PROVE  RowSound(a, al)'
      <3>1. RowSound(a, al)
        BY <1>3, <2>3 DEF RowsSound
      <3>2. \A r \in gone : <<a, al>> # <<r.key.address, r.allowance>>
        BY <1>3, <2>3
      <3>3. RowsOf(a, al)' = RowsOf(a, al)
        <4> HIDE DEF gone
        <4> QED BY <1>3, <3>2 DEF RowsOf, Key
      <3>4. Under(adding, a, al)' = Under(adding, a, al)
        BY <1>1, <2>2 DEF Under
      <3>5. Under(describing, a, al)' = Under(describing, a, al)
        BY <1>1, <2>2 DEF Under
      <3>6. Places(a, al)' = Places(a, al)
        BY <1>1, <2>2 DEF Places, Reporter
      <3> QED BY <1>1, <3>1, <3>3, <3>4, <3>5, <3>6, Elsewhere
    <2> QED BY <2>1, <2>3 DEF RowsSound
  <1> QED BY <1>1, <1>2, <1>3

(* A report that has landed goes on to be described.                       *)
LEMMA AddedKeepsRows ==
  ASSUME Types, OnItsWay, RowsSound, NEW r \in adding, Added(r)
  PROVE  OnItsWay' /\ RowsSound'
  <1>1. /\ adding' = adding \ {r} /\ describing' = describing \cup {r}
        /\ balances' = balances \cup {<<r.allowance.owner, r.allowance.token>>}
        /\ UNCHANGED <<gets, opens, buffer, rows, latest, clash>>
        /\ UNCHANGED service
    BY DEF Added, service, screen, past
  <1>2. r \in Reports /\ Genuine(r)
    BY DEF Types
  <1>3. OnItsWay'
    <2>1. \A s \in describing' : Genuine(s)' /\ Asked(s)'
      BY <1>1, <1>2 DEF OnItsWay, Genuine, Reporter, Asked
    <2>2. \A i \in DOMAIN buffer' :
            Genuine(buffer[i])' /\ Asked(buffer[i])' /\ buffer'[i].time <= opens'
      BY <1>1 DEF OnItsWay, Genuine, Reporter, Asked
    <2>3. describing' \subseteq Reports /\ buffer' \in Seq(Sent)
      BY <1>1, <1>2 DEF OnItsWay
    <2> QED BY <2>1, <2>2, <2>3 DEF OnItsWay
  <1>4. ASSUME NEW a \in Addresses, NEW al \in Watched(a), <<a, al>> \notin clash'
        PROVE  RowSound(a, al)'
    <2>1. RowSound(a, al)
      BY <1>1, <1>4 DEF RowsSound
    <2>2. Places(a, al)' = Places(a, al) /\ RowsOf(a, al)' = RowsOf(a, al)
      BY <1>1 DEF Places, Reporter, RowsOf
    <2>3. CASE r \notin Under(adding, a, al)
      <3>1. Under(adding, a, al)' = Under(adding, a, al)
        BY <1>1, <2>3 DEF Under, Reporter
      <3>2. Under(describing, a, al)' = Under(describing, a, al)
        BY <1>1, <2>3 DEF Under, Reporter
      <3> QED BY <1>1, <2>1, <2>2, <3>1, <3>2, Elsewhere
    <2>4. CASE r \in Under(adding, a, al)
      <3>1. /\ Under(adding, a, al) = {r} /\ Under(describing, a, al) = {} /\ Places(a, al) = {}
            /\ r.amount = latest[a][al]
        BY <2>1, <2>4 DEF RowSound, OneReport, LastReport, Single
      <3>2. Under(adding, a, al)' = {}
        BY <1>1, <3>1 DEF Under, Reporter
      <3>3. Under(describing, a, al)' = {r}
        BY <1>1, <2>4, <3>1 DEF Under, Reporter
      <3>4. OneReport(a, al)' /\ LastReport(a, al)' /\ ~Arrived(a, al)'
        BY <1>1, <2>2, <3>1, <3>2, <3>3 DEF OneReport, LastReport, Arrived, Single
      <3> QED BY <3>4 DEF RowSound
    <2> QED BY <2>3, <2>4
  <1> QED BY <1>3, <1>4 DEF RowsSound

(* A report that is described waits in the buffer.                         *)
LEMMA DescribedKeepsRows ==
  ASSUME Types, OnItsWay, RowsSound, NEW r \in describing, Described(r)
  PROVE  OnItsWay' /\ RowsSound'
  <1> DEFINE e == [opening |-> r.opening, allowance |-> r.allowance,
                   amount |-> r.amount, time |-> opens]
             n == Len(buffer) + 1
  <1>1. /\ describing' = describing \ {r} /\ buffer' = Append(buffer, e)
        /\ UNCHANGED <<gets, opens, adding, balances, rows, latest, clash>>
    BY DEF Described, service, screen, past
  <1>2. r \in Reports /\ Genuine(r) /\ Asked(r)
    BY DEF OnItsWay
  <1>3. /\ e \in Sent /\ e.opening = r.opening /\ e.allowance = r.allowance
        /\ e.amount = r.amount /\ e.time = opens
    BY <1>2 DEF Types, Reports, Sent
  <1> HIDE DEF e
  <1>4. /\ buffer \in Seq(Sent) /\ buffer' \in Seq(Sent) /\ Len(buffer) \in Nat
        /\ DOMAIN buffer = 1..Len(buffer) /\ n \in DOMAIN buffer'
        /\ buffer'[n] = e
        /\ \A i \in DOMAIN buffer : buffer'[i] = buffer[i] /\ i # n /\ i \in DOMAIN buffer'
        /\ \A i \in DOMAIN buffer' : i \in DOMAIN buffer \/ i = n
    BY <1>1, <1>3 DEF OnItsWay
  <1> HIDE DEF n
  <1>5. opens \in Int
    BY OpensAssumption DEF Types
  <1>6. OnItsWay'
    <2>1. \A s \in describing' : Genuine(s)' /\ Asked(s)'
      BY <1>1 DEF OnItsWay, Genuine, Reporter, Asked
    <2>2. ASSUME NEW i \in DOMAIN buffer'
          PROVE  Genuine(buffer[i])' /\ Asked(buffer[i])' /\ buffer'[i].time <= opens'
      <3>1. CASE i \in DOMAIN buffer
        BY <1>1, <1>4, <3>1 DEF OnItsWay, Genuine, Reporter, Asked
      <3>2. CASE i = n
        <4>1. buffer'[i] = e /\ gets' = gets /\ opens' = opens /\ balances' = balances
          BY <1>1, <1>4, <3>2
        <4>2. Genuine(buffer[i])' /\ Asked(buffer[i])'
          BY <1>2, <1>3, <4>1 DEF Genuine, Reporter, Asked
        <4> QED BY <1>3, <1>5, <4>1, <4>2
      <3> QED BY <1>4, <3>1, <3>2
    <2>3. describing' \subseteq Reports
      BY <1>1 DEF OnItsWay
    <2> QED BY <1>4, <2>1, <2>2, <2>3 DEF OnItsWay
  <1>7. ASSUME NEW a \in Addresses, NEW al \in Watched(a), <<a, al>> \notin clash'
        PROVE  RowSound(a, al)'
    <2>1. RowSound(a, al)
      BY <1>1, <1>7 DEF RowsSound
    <2>2. Under(adding, a, al)' = Under(adding, a, al) /\ RowsOf(a, al)' = RowsOf(a, al)
      BY <1>1 DEF Under, Reporter, RowsOf
    <2>3. \A i \in DOMAIN buffer : i \in Places(a, al)' <=> i \in Places(a, al)
      <3> SUFFICES ASSUME NEW i \in DOMAIN buffer
                   PROVE  i \in Places(a, al)' <=> i \in Places(a, al)
        OBVIOUS
      <3>1. buffer'[i] = buffer[i] /\ i \in DOMAIN buffer' /\ gets' = gets
        BY <1>1, <1>4
      <3> QED BY <3>1 DEF Places, Reporter
    <2>4. n \in Places(a, al)' <=> r \in Under(describing, a, al)
      <3>1. buffer'[n] = e /\ n \in DOMAIN buffer' /\ gets' = gets
        BY <1>1, <1>4
      <3>2. n \in Places(a, al)' <=> Reporter(r) = a /\ r.allowance = al
        BY <1>3, <3>1 DEF Places, Reporter
      <3> QED BY <3>2 DEF Under
    <2>5. Places(a, al) \subseteq DOMAIN buffer /\ Places(a, al)' \subseteq DOMAIN buffer \cup {n}
      BY <1>4 DEF Places
    <2>6. CASE r \notin Under(describing, a, al)
      <3>1. Places(a, al)' = Places(a, al)
        BY <2>3, <2>4, <2>5, <2>6
      <3>2. Under(describing, a, al)' = Under(describing, a, al)
        BY <1>1, <2>6 DEF Under, Reporter
      <3>3. \A i \in Places(a, al) : buffer'[i].amount = buffer[i].amount
        BY <1>4, <2>5
      <3> QED BY <1>1, <2>1, <2>2, <3>1, <3>2, <3>3, Elsewhere
    <2>7. CASE r \in Under(describing, a, al)
      <3>1. /\ Under(describing, a, al) = {r} /\ Under(adding, a, al) = {} /\ Places(a, al) = {}
            /\ r.amount = latest[a][al]
        BY <2>1, <2>7 DEF RowSound, OneReport, LastReport, Single
      <3>2. Under(describing, a, al)' = {}
        BY <1>1, <3>1 DEF Under, Reporter
      <3>3. Places(a, al)' = {n}
        BY <2>3, <2>4, <2>5, <2>7, <3>1
      <3>4. buffer'[n].amount = latest'[a][al]
        BY <1>1, <1>3, <1>4, <3>1
      <3>5. OneReport(a, al)' /\ LastReport(a, al)' /\ ~Arrived(a, al)'
        BY <2>2, <3>1, <3>2, <3>3, <3>4 DEF OneReport, LastReport, Arrived, Single
      <3> QED BY <3>5 DEF RowSound
    <2> QED BY <2>6, <2>7
  <1> QED BY <1>6, <1>7 DEF RowsSound

(* The batch reaches the screen: the row of a report that arrives is the   *)
(* only one of its allowance, and a row that stays was not in its way.     *)
LEMMA FlushKeepsRows ==
  ASSUME Types, OnItsWay, RowsSound, Flush
  PROVE  OnItsWay' /\ RowsSound'
  <1> DEFINE last == {i \in DOMAIN buffer :
                        \A j \in DOMAIN buffer : j > i => KeyOf(buffer[j]) # KeyOf(buffer[i])}
             row(i) == Row(KeyOf(buffer[i]), buffer[i].allowance, buffer[i].amount, buffer[i].time)
             news == {row(i) : i \in last}
             lost == {<<Reporter(buffer[i]), buffer[i].allowance>> : i \in DOMAIN buffer \ last}
             pushed == {<<r.key.address, r.allowance>> :
                          r \in {o \in rows : \E n \in news : Replaces(n, o) /\ o.allowance # n.allowance}}
  <1>1. /\ buffer' = <<>> /\ rows' = Set(news)
        /\ clash' = clash \cup lost \cup pushed
        /\ UNCHANGED <<adding, describing, gets, opens, balances, latest>>
        /\ UNCHANGED service
    BY DEF Flush, service, server
  <1>2. buffer' \in Seq(Sent) /\ DOMAIN buffer' = {}
    BY <1>1
  <1>3. OnItsWay'
    <2>1. \A r \in describing' : Genuine(r)' /\ Asked(r)'
      BY <1>1 DEF OnItsWay, Genuine, Reporter, Asked
    <2> QED BY <1>1, <1>2, <2>1 DEF OnItsWay
  <1>4. last \subseteq DOMAIN buffer
    OBVIOUS
  <1>5. \A i \in DOMAIN buffer : i \notin last => <<Reporter(buffer[i]), buffer[i].allowance>> \in lost
    OBVIOUS
  <1>6. \A o \in rows, n \in news :
          Replaces(n, o) /\ o.allowance # n.allowance => <<o.key.address, o.allowance>> \in pushed
    OBVIOUS
  <1>7. /\ \A n \in news : \E i \in last : n = row(i)
        /\ \A i \in last : row(i) \in news
    OBVIOUS
  <1>8. \A i : /\ row(i).key = Key(Reporter(buffer[i]), buffer[i].allowance)
               /\ row(i).allowance = buffer[i].allowance /\ row(i).amount = buffer[i].amount
    BY DEF Row, KeyOf
  <1> HIDE DEF last, row, news, lost, pushed
  <1>9. ASSUME NEW a \in Addresses, NEW al \in Watched(a), <<a, al>> \notin clash'
        PROVE  RowSound(a, al)'
    <2>1. /\ RowSound(a, al)
          /\ <<a, al>> \notin lost /\ <<a, al>> \notin pushed
      BY <1>1, <1>9 DEF RowsSound
    <2>2. Under(adding, a, al)' = Under(adding, a, al)
      BY <1>1 DEF Under, Reporter
    <2>3. Under(describing, a, al)' = Under(describing, a, al)
      BY <1>1 DEF Under, Reporter
    <2>4. Places(a, al)' = {}
      BY <1>2 DEF Places
    <2>5. Places(a, al) \subseteq last
      BY <1>5, <2>1 DEF Places
    <2>6. ASSUME NEW n \in news, n.key = Key(a, al), n.allowance = al
          PROVE  \E i \in Places(a, al) : n = row(i)
      <3>1. PICK i \in last : n = row(i)
        BY <1>7
      <3>2. Key(Reporter(buffer[i]), buffer[i].allowance) = Key(a, al) /\ buffer[i].allowance = al
        BY <1>8, <2>6, <3>1
      <3>3. Reporter(buffer[i]) = a
        BY <3>2 DEF Key
      <3> QED BY <1>4, <3>1, <3>2, <3>3 DEF Places
    <2>7. \A o : o \in rows' <=> o \in news \/ (o \in rows /\ \A n \in news : ~Replaces(n, o))
      BY <1>1 DEF Set
    <2>8. CASE Places(a, al) = {}
      <3>1. \A n \in news : ~(n.key = Key(a, al) /\ n.allowance = al)
        BY <2>6, <2>8
      <3>2. ASSUME NEW o \in rows, o.key = Key(a, al), o.allowance = al, NEW n \in news
            PROVE  ~Replaces(n, o)
        <4> SUFFICES ASSUME Replaces(n, o) PROVE FALSE
          OBVIOUS
        <4>1. n.key = Key(a, al) /\ o.key.address = a
          BY <3>2 DEF Replaces, Key
        <4>2. n.allowance # al
          BY <3>1, <4>1
        <4> QED BY <1>6, <2>1, <3>2, <4>1, <4>2
      <3>3. RowsOf(a, al)' = RowsOf(a, al)
        BY <2>7, <3>1, <3>2 DEF RowsOf
      <3> QED BY <1>1, <2>1, <2>2, <2>3, <2>4, <2>8, <3>3, Elsewhere
    <2>9. CASE Places(a, al) # {}
      <3>1. PICK i : Places(a, al) = {i} /\ buffer[i].amount = latest[a][al]
        BY <2>1, <2>9 DEF RowSound, OneReport, LastReport, Single
      <3>2. i \in DOMAIN buffer /\ Reporter(buffer[i]) = a /\ buffer[i].allowance = al
        BY <3>1 DEF Places
      <3>3. /\ row(i) \in news /\ row(i).key = Key(a, al)
            /\ row(i).allowance = al /\ row(i).amount = latest[a][al]
        BY <1>7, <1>8, <2>5, <3>1, <3>2
      <3>4. row(i) \in RowsOf(a, al)'
        BY <2>7, <3>3 DEF RowsOf
      <3>5. ASSUME NEW o \in RowsOf(a, al)' PROVE o = row(i)
        <4>1. o \in rows' /\ o.key = Key(a, al) /\ o.allowance = al
          BY DEF RowsOf
        <4>2. CASE o \in news
          BY <2>6, <3>1, <4>1, <4>2
        <4>3. CASE o \notin news
          <5>1. ~Replaces(row(i), o)
            BY <2>7, <3>3, <4>1, <4>3
          <5> QED BY <3>3, <4>1, <5>1 DEF Replaces
        <4> QED BY <4>2, <4>3
      <3>6. <<al.owner, al.token>> \in balances
        BY <3>2, InBuffer DEF Asked
      <3>7. Shows(a, al)'
        BY <1>1, <3>3, <3>4, <3>5, <3>6 DEF Shows
      <3>8. Under(adding, a, al) = {} /\ Under(describing, a, al) = {}
        BY <2>1, <2>9 DEF RowSound, OneReport
      <3>9. OneReport(a, al)' /\ LastReport(a, al)'
        BY <2>2, <2>3, <2>4, <3>8 DEF OneReport, LastReport, Single
      <3> QED BY <3>7, <3>9 DEF RowSound
    <2> QED BY <2>8, <2>9
  <1> QED BY <1>3, <1>9 DEF RowsSound

(* A cached allowance is shown where none of its spender is, or it takes   *)
(* the place of one that is spelled otherwise: the row of any other report *)
(* stays the only one.                                                     *)
LEMMA InitKeepsRows ==
  ASSUME Types, OnItsWay, RowsSound, NEW init \in inits, InitAllowance(init)
  PROVE  OnItsWay' /\ RowsSound'
  <1> DEFINE new == InitRow(init)
             pushed == {<<r.key.address, r.allowance>> : r \in {o \in rows : Replaces(new, o)}}
  <1>1. /\ UNCHANGED <<adding, describing, buffer, balances, gets, opens, latest>>
        /\ UNCHANGED service
        /\ UNCHANGED <<rows, clash>> \/ (rows' = Set({new}) /\ clash' = clash \cup pushed)
    BY DEF InitAllowance, service, path, screen
  <1>2. OnItsWay'
    BY <1>1, WayStays, ServiceStays
  <1>3. \A o \in rows : Replaces(new, o) => <<o.key.address, o.allowance>> \in pushed
    OBVIOUS
  <1> HIDE DEF new, pushed
  <1>4. ASSUME NEW a \in Addresses, NEW al \in Watched(a), <<a, al>> \notin clash'
        PROVE  RowSound(a, al)'
    <2>1. RowSound(a, al)
      BY <1>1, <1>4 DEF RowsSound
    <2>2. Under(adding, a, al)' = Under(adding, a, al)
      BY <1>1 DEF Under, Reporter
    <2>3. Under(describing, a, al)' = Under(describing, a, al)
      BY <1>1 DEF Under, Reporter
    <2>4. Places(a, al)' = Places(a, al)
      BY <1>1 DEF Places, Reporter
    <2>5. ASSUME Shows(a, al) PROVE RowsOf(a, al)' = RowsOf(a, al)
      <3>1. PICK o \in rows : o.key = Key(a, al) /\ o.allowance = al
        BY <2>5 DEF Shows, RowsOf
      <3>2. CASE rows' = rows
        BY <3>2 DEF RowsOf
      <3>3. CASE rows' = Set({new}) /\ clash' = clash \cup pushed
        <4>1. \A r \in rows : r.key = Key(a, al) /\ r.allowance = al => ~Replaces(new, r)
          BY <1>3, <1>4, <3>3 DEF Key
        <4>2. ~(new.key = Key(a, al) /\ new.allowance = al)
          BY <3>1, <4>1 DEF Replaces
        <4>3. \A r : r \in rows' <=> r = new \/ (r \in rows /\ ~Replaces(new, r))
          BY <3>3 DEF Set
        <4> QED BY <4>1, <4>2, <4>3 DEF RowsOf
      <3> QED BY <1>1, <3>2, <3>3
    <2> QED BY <1>1, <2>1, <2>2, <2>3, <2>4, <2>5, Elsewhere
  <1> QED BY <1>2, <1>4 DEF RowsSound

(* No step changes the address of what is opened.                          *)
LEMMA StepKeepsAddresses ==
  ASSUME Types, [Next]_vars
  PROVE  AddressesStay
  <1>1. gets \in [Opens -> Subscription] /\ opens \in Int
    BY OpensAssumption DEF Types
  <1>2. ASSUME NEW list \in Seq(Addresses), NEW others \in SUBSET lives, Subscribe(list, others)
        PROVE  AddressesStay
    BY <1>2, SubscribeFacts DEF AddressesStay
  <1>3. ASSUME NEW a \in Addresses, CreateSubscription(a) PROVE AddressesStay
    <2>1. Subscribe(<<a>>, lives) /\ <<a>> \in Seq(Addresses)
      BY <1>3 DEF CreateSubscription
    <2> QED BY <1>2, <2>1
  <1>4. CASE Reconnect
    <2>1. Subscribe(subscriptions, lives \ {current[a] : a \in Addresses})
      BY <1>4 DEF Reconnect
    <2> QED BY <1>2, <2>1 DEF Types
  <1>5. ASSUME UNCHANGED <<opens, gets>> PROVE AddressesStay
    BY <1>1, <1>5 DEF AddressesStay
  <1>6. ASSUME NEW k \in Opens, gets' = [gets EXCEPT ![k] = gets'[k]],
               gets'[k].address = gets[k].address, opens' = opens
        PROVE  AddressesStay
    BY <1>1, <1>6 DEF AddressesStay
  <1>7. ASSUME NEW k \in Opens, Listed(k) PROVE AddressesStay
    <2>1. PICK r : gets' = [gets EXCEPT ![k].left = @ \ {r}]
      BY <1>7 DEF Listed
    <2>2. opens' = opens
      BY <1>7 DEF Listed
    <2> QED BY <1>1, <2>1, <2>2 DEF AddressesStay, Subscription
  <1>8. ASSUME NEW k \in Opens,
               ListingEnds(k) \/ ListingFails(k) \/ RemoveStored(k) \/ RemoveRows(k)
        PROVE  AddressesStay
    <2>1. gets[k] \in Subscription
      BY <1>1
    <2>2. CASE ListingEnds(k)
      BY <1>1, <2>1, <2>2 DEF ListingEnds, AddressesStay, Subscription
    <2>3. CASE ListingFails(k)
      BY <1>1, <2>1, <2>3 DEF ListingFails, AddressesStay, Subscription
    <2>4. CASE RemoveStored(k)
      BY <1>1, <2>1, <2>4 DEF RemoveStored, AddressesStay, Subscription
    <2>5. CASE RemoveRows(k)
      BY <1>1, <2>1, <2>5 DEF RemoveRows, AddressesStay, Subscription
    <2> QED BY <1>8, <2>2, <2>3, <2>4, <2>5
  <1>9. ASSUME NEW al \in Allowances, NEW v \in 0..MaxAmount, Change(al, v) PROVE AddressesStay
    BY <1>5, <1>9 DEF Change, service
  <1>10. ASSUME NEW k \in Opens, LiveFails(k) PROVE AddressesStay
    BY <1>5, <1>10 DEF LiveFails
  <1>11. ASSUME NEW r, Added(r) \/ AddFails(r) \/ Described(r) \/ DescribeFails(r)
         PROVE  AddressesStay
    BY <1>5, <1>11 DEF Added, AddFails, Described, DescribeFails, service
  <1>12. CASE Flush \/ ReadCache
    BY <1>5, <1>12 DEF Flush, ReadCache, service
  <1>13. ASSUME NEW init \in inits, InitAllowance(init) PROVE AddressesStay
    BY <1>5, <1>13 DEF InitAllowance, service
  <1>14. CASE UNCHANGED vars
    BY <1>5, <1>14 DEF vars
  <1> QED BY <1>3, <1>4, <1>7, <1>8, <1>9, <1>10, <1>11, <1>12, <1>13, <1>14 DEF Next

(* Handling reports, whatever they are of.                                 *)
LEMMA HandlingKeepsRows ==
  ASSUME Types, OnItsWay, RowsSound, opens' \in Int, AddressesStay,
         (\E k \in Opens : Listed(k)) \/ \E al \in Allowances, v \in 0..MaxAmount : Change(al, v)
  PROVE  OnItsWay' /\ RowsSound'
  <1>1. ASSUME NEW k \in Opens, Listed(k) PROVE OnItsWay' /\ RowsSound'
    <2>1. PICK r \in gets[k].left : Handle({r})
      BY <1>1 DEF Listed
    <2>2. UNCHANGED <<describing, buffer, balances, rows>>
      BY <1>1 DEF Listed, screen
    <2>3. r \in Reports /\ Genuine(r)
      BY DEF Types, Subscription
    <2>4. IsFiniteSet({r})
      BY FS_Singleton
    <2>5. RowsSound'
      BY <2>1, <2>2, <2>3, <2>4, HandleKeepsRows
    <2> QED BY <2>2, <2>5, WayStays
  <1>2. ASSUME NEW al \in Allowances, NEW v \in 0..MaxAmount, Change(al, v)
        PROVE  OnItsWay' /\ RowsSound'
    <2> DEFINE heard == {l \in lives : al \in Watched(gets[l].address)}
               report(k) == [opening |-> k, allowance |-> al, amount |-> v]
               reports == {report(k) : k \in heard}
    <2>1. Handle(reports) /\ UNCHANGED <<describing, buffer, balances, rows>>
      BY <1>2 DEF Change, screen
    <2>2. reports \subseteq Reports /\ \A r \in reports : Genuine(r)
      BY DEF Types, Reports, Genuine, Reporter
    <2>3. IsFiniteSet(heard)
      <3>1. IsFiniteSet(Opens)
        BY FS_Interval, OpensAssumption DEF Opens
      <3>2. heard \subseteq Opens
        BY DEF Types
      <3> QED BY <3>1, <3>2, FS_Subset
    <2>4. IsFiniteSet(reports)
      <3> HIDE DEF heard
      <3>1. [k \in heard |-> report(k)] \in Surjection(heard, reports)
        BY DEF Surjection
      <3> QED BY <2>3, <3>1, FS_Surjection
    <2> HIDE DEF reports
    <2>5. RowsSound'
      BY <2>1, <2>2, <2>4, HandleKeepsRows
    <2> QED BY <2>1, <2>5, WayStays
  <1> QED BY <1>1, <1>2

(* Every step keeps what is on its way and what is shown.                  *)
LEMMA StepKeepsRows ==
  Types /\ AllSound /\ OnItsWay /\ RowsSound /\ [Next]_vars => OnItsWay' /\ RowsSound'
  <1> SUFFICES ASSUME Types, AllSound, OnItsWay, RowsSound, [Next]_vars
               PROVE  OnItsWay' /\ RowsSound'
    OBVIOUS
  <1> USE StepKeepsAddresses
  <1>1. opens' \in Int
    BY StepSound, OpensAssumption DEF Types
  <1> DEFINE Aside == UNCHANGED <<adding, describing, buffer, balances, rows, latest, clash>>
  <1>2. Aside => OnItsWay' /\ RowsSound'
    BY <1>1, AsideKeepsRows
  <1>3. ASSUME NEW a \in Addresses, CreateSubscription(a) PROVE OnItsWay' /\ RowsSound'
    BY <1>2, <1>3 DEF CreateSubscription, path, screen, past
  <1>4. CASE Reconnect
    BY <1>2, <1>4 DEF Reconnect, path, screen, past
  <1>5. ASSUME NEW k \in Opens, LiveFails(k) PROVE OnItsWay' /\ RowsSound'
    BY <1>2, <1>5 DEF LiveFails, screen, past
  <1>6. ASSUME NEW k \in Opens, ListingEnds(k) PROVE OnItsWay' /\ RowsSound'
    BY <1>2, <1>6 DEF ListingEnds, path, screen, past
  <1>7. ASSUME NEW k \in Opens, ListingFails(k) PROVE OnItsWay' /\ RowsSound'
    BY <1>2, <1>7 DEF ListingFails, screen, past
  <1>8. ASSUME NEW k \in Opens, RemoveStored(k) PROVE OnItsWay' /\ RowsSound'
    BY <1>2, <1>8 DEF RemoveStored, path, screen
  <1>9. ASSUME NEW k \in Opens, RemoveRows(k) PROVE OnItsWay' /\ RowsSound'
    BY <1>1, <1>9, RemoveRowsKeepsRows
  <1>10. CASE (\E k \in Opens : Listed(k)) \/ \E al \in Allowances, v \in 0..MaxAmount : Change(al, v)
    BY <1>1, <1>10, HandlingKeepsRows
  <1>11. ASSUME NEW r \in adding, Added(r) PROVE OnItsWay' /\ RowsSound'
    BY <1>11, AddedKeepsRows
  <1>12. ASSUME NEW r \in adding, AddFails(r) PROVE OnItsWay' /\ RowsSound'
    BY <1>12, FailureKeepsRows
  <1>13. ASSUME NEW r \in describing, Described(r) PROVE OnItsWay' /\ RowsSound'
    BY <1>13, DescribedKeepsRows
  <1>14. ASSUME NEW r \in describing, DescribeFails(r) PROVE OnItsWay' /\ RowsSound'
    BY <1>14, FailureKeepsRows
  <1>15. CASE Flush
    BY <1>15, FlushKeepsRows
  <1>16. CASE ReadCache
    BY <1>2, <1>16 DEF ReadCache, path, screen, past
  <1>17. ASSUME NEW init \in inits, InitAllowance(init) PROVE OnItsWay' /\ RowsSound'
    BY <1>17, InitKeepsRows
  <1>18. CASE UNCHANGED vars
    BY <1>2, <1>18 DEF vars
  <1> QED BY <1>3, <1>4, <1>5, <1>6, <1>7, <1>8, <1>9, <1>10, <1>11, <1>12, <1>13,
             <1>14, <1>15, <1>16, <1>17, <1>18 DEF Next

(* In every behaviour: once the reports of an allowance to an address have *)
(* reached the screen, its row shows the last one and the balance of its   *)
(* owner was asked for, as AllowanceService and the reducer mean them to,  *)
(* outside the clashes that the model names.                               *)
THEOREM RowShowsTheLast == Spec => []RowIsReported
  <1>1. Types /\ AllSound /\ OnItsWay /\ RowsSound => RowIsReported
    <2> SUFFICES ASSUME RowsSound, NEW a \in Addresses, NEW al \in Watched(a),
                        latest[a][al] # Unknown, <<a, al>> \notin clash,
                        Under(InFlight, a, al) = {}
                 PROVE  /\ {r.amount : r \in {o \in rows : o.key = Key(a, al) /\ o.allowance = al}}
                             = {latest[a][al]}
                        /\ <<al.owner, al.token>> \in balances
      BY DEF RowIsReported
    <2>1. Arrived(a, al)
      BY DEF Arrived, InFlight, Under, Places, ToSet
    <2>2. Shows(a, al)
      BY <2>1 DEF RowsSound, RowSound
    <2> QED BY <2>2 DEF Shows, RowsOf
  <1> QED BY <1>1, Start, StartOfRows, StepSound, StepKeepsRows, PTL DEF Spec

-----------------------------------------------------------------------------
(* The types that the argument above does not need.                        *)
ScreenTypes ==
  /\ changes \in 0..MaxChanges /\ current \in [Addresses -> 0..MaxOpens]
  /\ cached \in BOOLEAN /\ \A al \in Allowances : stored[al].time \in 0..opens
  /\ \A init \in inits : init.allowance \in Allowances /\ init.time \in 0..opens
  /\ \A r \in rows : r.key \in keys /\ r.time \in 0..opens

(* New subscriptions are within the bound of the model.                    *)
LEMMA SubscribeTypes ==
  ASSUME Types, NEW list \in Seq(Addresses), NEW others, Subscribe(list, others),
         current \in [Addresses -> 0..MaxOpens]
  PROVE  current' \in [Addresses -> 0..MaxOpens]
  <1> DEFINE place(a) == CHOOSE j \in DOMAIN list : list[j] = a
  <1>1. /\ opens + Len(list) <= MaxOpens
        /\ current' = [a \in Addresses |->
             IF a \in ToSet(list) THEN opens + place(a) ELSE current[a]]
    BY DEF Subscribe
  <1>2. opens \in 0..MaxOpens /\ Len(list) \in Nat /\ DOMAIN list = 1..Len(list)
    BY DEF Types
  <1>3. \A a \in ToSet(list) : place(a) \in DOMAIN list
    BY DEF ToSet
  <1> HIDE DEF place
  <1>4. ASSUME NEW a \in ToSet(list) PROVE opens + place(a) \in 0..MaxOpens
    <2>1. place(a) \in 1..Len(list)
      BY <1>2, <1>3
    <2> QED BY <1>1, <1>2, <2>1, OpensAssumption
  <1> QED BY <1>1, <1>4

(* A row is always of a list that exists, whichever reducer brings it.     *)
LEMMA ScreenSteps ==
  ASSUME Types, OnItsWay, ScreenTypes,
         \/ Flush \/ ReadCache
         \/ \E init \in inits : InitAllowance(init)
         \/ \E k \in Opens : RemoveRows(k)
  PROVE  ScreenTypes'
  <1>1. opens \in 0..MaxOpens /\ opens \in Int
    BY OpensAssumption DEF Types
  <1>2. CASE Flush
    <2> DEFINE last == {i \in DOMAIN buffer :
                          \A j \in DOMAIN buffer : j > i => KeyOf(buffer[j]) # KeyOf(buffer[i])}
               row(i) == Row(KeyOf(buffer[i]), buffer[i].allowance, buffer[i].amount, buffer[i].time)
               news == {row(i) : i \in last}
    <2>1. /\ rows' = Set(news) /\ keys' = keys \cup {n.key : n \in news}
          /\ UNCHANGED <<changes, current, opens, stored, cached, inits>>
      BY <1>2 DEF Flush, server, service, cache
    <2>2. ASSUME NEW n \in news PROVE n.time \in 0..opens
      <3>1. PICK i \in DOMAIN buffer : n.time = buffer[i].time
        BY DEF Row
      <3>2. buffer[i].time \in 0..MaxOpens /\ buffer[i].time <= opens
        BY InBuffer DEF Sent
      <3> QED BY <1>1, <3>1, <3>2
    <2> HIDE DEF news
    <2>3. ASSUME NEW r \in rows' PROVE r.key \in keys' /\ r.time \in 0..opens'
      <3>1. r \in news \/ r \in rows
        BY <2>1 DEF Set
      <3> QED BY <2>1, <2>2, <3>1 DEF ScreenTypes
    <2> QED BY <2>1, <2>3 DEF ScreenTypes
  <1>3. CASE ReadCache
    BY <1>3 DEF ReadCache, server, service, screen, ScreenTypes
  <1>4. ASSUME NEW init \in inits, InitAllowance(init) PROVE ScreenTypes'
    <2> DEFINE new == InitRow(init)
    <2>1. /\ UNCHANGED <<changes, current, opens, stored, cached>>
          /\ inits' \subseteq inits
      BY <1>4 DEF InitAllowance, server, service
    <2>2. \/ UNCHANGED <<rows, keys>>
          \/ rows' = Set({new}) /\ keys' = keys \cup {new.key}
      <3> HIDE DEF new
      <3> QED BY <1>4 DEF InitAllowance, screen, new
    <2>3. new.time \in 0..opens
      BY DEF InitRow, Row, ScreenTypes
    <2> HIDE DEF new
    <2>4. \A r \in Set({new}) : r \in rows \/ r = new
      BY DEF Set
    <2> QED BY <2>1, <2>2, <2>3, <2>4 DEF ScreenTypes
  <1>5. ASSUME NEW k \in Opens, RemoveRows(k) PROVE ScreenTypes'
    <2>1. /\ UNCHANGED <<changes, current, opens, stored, cached, inits, keys>>
          /\ rows' \subseteq rows
      BY <1>5 DEF RemoveRows, server, cache
    <2> QED BY <2>1 DEF ScreenTypes
  <1> QED BY <1>2, <1>3, <1>4, <1>5

(* Every step keeps the rest of the types.                                 *)
LEMMA StepKeepsScreenTypes ==
  Types /\ AllSound /\ OnItsWay /\ ScreenTypes /\ [Next]_vars => ScreenTypes'
  <1> SUFFICES ASSUME Types, AllSound, OnItsWay, ScreenTypes, [Next]_vars PROVE ScreenTypes'
    OBVIOUS
  <1>1. opens \in Int /\ opens' \in Int /\ opens <= opens'
    BY StepSound, StepKeepsAddresses, OpensAssumption DEF Types, AddressesStay
  <1>2. ASSUME UNCHANGED <<changes, cached, inits, rows, keys>>,
               current' \in [Addresses -> 0..MaxOpens],
               \A al \in Allowances : stored'[al].time \in 0..opens
        PROVE  ScreenTypes'
    <2>1. \A t : t \in 0..opens => t \in 0..opens'
      BY <1>1
    <2> QED BY <1>2, <2>1 DEF ScreenTypes
  <1> DEFINE Other == UNCHANGED <<changes, current, stored, cached, inits, rows, keys>>
  <1>3. Other => ScreenTypes'
    BY <1>2 DEF ScreenTypes
  <1>4. ASSUME NEW a \in Addresses, CreateSubscription(a) PROVE ScreenTypes'
    <2>1. Subscribe(<<a>>, lives) /\ <<a>> \in Seq(Addresses)
      BY <1>4 DEF CreateSubscription
    <2>2. current' \in [Addresses -> 0..MaxOpens]
      BY <2>1, SubscribeTypes DEF ScreenTypes
    <2> QED BY <1>2, <1>4, <2>2 DEF CreateSubscription, server, screen, cache, ScreenTypes
  <1>5. CASE Reconnect
    <2>1. Subscribe(subscriptions, lives \ {current[a] : a \in Addresses})
      BY <1>5 DEF Reconnect
    <2>2. current' \in [Addresses -> 0..MaxOpens]
      BY <2>1, SubscribeTypes DEF ScreenTypes, Types
    <2> QED BY <1>2, <1>5, <2>2 DEF Reconnect, server, screen, cache, ScreenTypes
  <1>6. ASSUME NEW al \in Allowances, NEW v \in 0..MaxAmount, Change(al, v) PROVE ScreenTypes'
    <2>1. changes < MaxChanges /\ changes' = changes + 1
      BY <1>6 DEF Change
    <2>2. changes' \in 0..MaxChanges
      BY <2>1, ChangesAssumption DEF ScreenTypes
    <2>3. UNCHANGED <<opens, current, stored, cached, inits, rows, keys>>
      BY <1>6 DEF Change, service, screen, cache
    <2> QED BY <2>2, <2>3 DEF ScreenTypes
  <1>7. ASSUME NEW k \in Opens,
               LiveFails(k) \/ Listed(k) \/ ListingEnds(k) \/ ListingFails(k) \/ RemoveStored(k)
        PROVE  ScreenTypes'
    <2>1. CASE RemoveStored(k)
      <3>1. /\ UNCHANGED <<changes, current, cached, inits, rows, keys>>
            /\ \A al \in Allowances : stored'[al] = None \/ stored'[al] = stored[al]
        BY <2>1 DEF RemoveStored, server, screen, cache
      <3>2. None.time \in 0..opens
        BY <1>1, OpensAssumption DEF None, Types
      <3> QED BY <1>2, <3>1, <3>2 DEF ScreenTypes
    <2>2. CASE LiveFails(k) \/ Listed(k) \/ ListingEnds(k) \/ ListingFails(k)
      BY <1>3, <2>2 DEF LiveFails, Listed, ListingEnds, ListingFails, server, screen, cache
    <2> QED BY <1>7, <2>1, <2>2
  <1>8. ASSUME NEW r, Added(r) \/ AddFails(r) \/ Described(r) \/ DescribeFails(r)
        PROVE  ScreenTypes'
    <2>1. CASE Added(r)
      <3>1. /\ UNCHANGED <<changes, current, cached, inits, rows, keys>>
            /\ \A al \in Allowances : stored'[al].time = opens \/ stored'[al] = stored[al]
        BY <2>1 DEF Added, server, service, screen, cache, Types
      <3>2. opens \in 0..opens
        BY OpensAssumption DEF Types
      <3> QED BY <1>2, <3>1, <3>2 DEF ScreenTypes
    <2>2. CASE AddFails(r) \/ Described(r) \/ DescribeFails(r)
      BY <1>3, <2>2 DEF AddFails, Described, DescribeFails, server, service, screen, cache
    <2> QED BY <1>8, <2>1, <2>2
  <1>9. CASE \/ Flush \/ ReadCache
             \/ \E init \in inits : InitAllowance(init)
             \/ \E k \in Opens : RemoveRows(k)
    BY <1>9, ScreenSteps
  <1>10. CASE UNCHANGED vars
    BY <1>3, <1>10 DEF vars
  <1> QED BY <1>4, <1>5, <1>6, <1>7, <1>8, <1>9, <1>10 DEF Next

(* Types: amounts and times stay within their bounds, every report under   *)
(* way is of a subscription that was opened, and every row is of a list    *)
(* the reducer of INIT_ALLOWANCE knows.                                    *)
THEOREM AllowanceTypes == Spec => []TypeOK
  <1>1. Init => ScreenTypes
    <2> SUFFICES ASSUME Init PROVE ScreenTypes
      OBVIOUS
    <2>1. /\ changes = 0 /\ current = [a \in Addresses |-> 0] /\ rows = {} /\ inits = {}
          /\ cached \in BOOLEAN /\ opens = 0 /\ \A al \in Allowances : stored[al].time = 0
      BY DEF Init, None
    <2> QED BY <2>1, OpensAssumption, ChangesAssumption DEF ScreenTypes
  <1>2. Types /\ OnItsWay /\ ScreenTypes => TypeOK
    <2> SUFFICES ASSUME Types, OnItsWay, ScreenTypes PROVE TypeOK
      OBVIOUS
    <2>1. \A k \in Opens : gets[k].stage \in {"closed", "listing", "removing", "telling", "done"}
      BY DEF Types, Subscription, Stages
    <2>2. \A al \in Allowances :
            stored[al].amount \in Unknown..MaxAmount /\ stored[al].time \in 0..MaxOpens
      BY DEF Types
    <2>3. ASSUME NEW r \in InFlight
          PROVE  r.opening \in 1..opens /\ r.allowance \in Watched(Reporter(r))
      <3>1. CASE r \in adding \cup describing
        <4>1. r \in Reports /\ Genuine(r)
          BY <3>1 DEF Types, OnItsWay
        <4> QED BY <4>1, OpensAssumption DEF Genuine, Reports, Opens, Types
      <3>2. CASE r \in ToSet(buffer)
        <4>1. PICK i \in DOMAIN buffer : r = buffer[i]
          BY <3>2 DEF ToSet
        <4>2. r.opening \in Opens /\ r.opening <= opens /\ Genuine(r) /\ opens \in Int
          BY <4>1, InBuffer
        <4> QED BY <4>2 DEF Genuine, Opens
      <3> QED BY <3>1, <3>2 DEF InFlight
    <2> QED BY <2>1, <2>2, <2>3 DEF TypeOK, Types, ScreenTypes
  <1> QED BY <1>1, <1>2, Start, StartOfRows, StepSound, StepKeepsRows, StepKeepsScreenTypes,
             PTL DEF Spec
===============================================================================
