------------------------ MODULE TxSubscriptionsProofs ------------------------
(***************************************************************************)
(* For any wallets, feeds and identifiers, and any number of reconnects:   *)
(* restarting subscriptions never multiplies them, and stop() misses a     *)
(* stream only where the identifier was subscribed more than once.         *)
(***************************************************************************)
EXTENDS TxSubscriptions, TLAPS

Inv == TypeOK /\ RestartsDoNotMultiply /\ StrayNeedsOverlap

(* The conservation law, feed by feed.                                     *)
Bounded(f) == Lineages(f) + querying[WalletOf[f]] + listing <= starts + asked[f]

Excused(f) ==
  stray[f] > 0 =>
    \/ starts + asked[f] > 1
    \/ \E g \in Feeds \ {f} : IdOf[g] = IdOf[f]

(* Every counter of a feed is a number, so that a bound on their sum is a  *)
(* bound on each of them.                                                  *)
LEMMA CounterTypes ==
  ASSUME TypeOK, NEW f \in Feeds
  PROVE  /\ reading[f] \in Nat /\ stray[f] \in Nat /\ cancelled[f] \in Nat
         /\ timers[f] \in Nat /\ asked[f] \in Nat /\ starts \in Nat
         /\ listing \in Nat /\ querying[WalletOf[f]] \in Nat
         /\ WalletOf[f] \in Wallets /\ IdOf[f] \in Ids /\ f # NoFeed
  BY FeedAssumption DEF TypeOK

(* No feed is subscribed at first.                                         *)
LEMMA InitInv == Init => Inv
<1> SUFFICES ASSUME Init
             PROVE  Inv
  OBVIOUS
<1>1. TypeOK
  BY DEF Init, TypeOK, Zero
<1>2. ASSUME NEW f \in Feeds
      PROVE  Bounded(f) /\ Excused(f)
  BY <1>2, FeedAssumption DEF Init, Zero, Bounded, Lineages, Filed, Excused
<1> QED
  BY <1>1, <1>2
  DEF Inv, RestartsDoNotMultiply, StrayNeedsOverlap, Bounded, Excused

(* Every step keeps the counters of the feeds numbers.                     *)
LEMMA NextType == TypeOK /\ [Next]_vars => TypeOK'
<1> SUFFICES ASSUME TypeOK, [Next]_vars
             PROVE  TypeOK'
  OBVIOUS
<1> USE FeedAssumption DEF TypeOK
<1>1. CASE Launch
  BY <1>1 DEF Launch, BeginListing
<1>2. CASE Reconnect
  BY <1>2 DEF Reconnect, BeginListing, CancelFiled
<1>3. CASE Stop
  <2>1. /\ cancelled' \in [Feeds -> Nat]
        /\ filed' \in [Ids -> Feeds \cup {NoFeed}]
    BY <1>3 DEF Stop, CancelFiled
  <2> QED
    BY <1>3, <2>1 DEF Stop
<1>4. CASE WalletsListed
  BY <1>4 DEF WalletsListed
<1>5. CASE WalletsNotListed
  BY <1>5 DEF WalletsNotListed
<1>6. ASSUME NEW w \in Wallets, WalletQueried(w) \/ WalletNotQueried(w)
      PROVE  TypeOK'
  BY <1>6 DEF WalletQueried, WalletNotQueried, Subscribed
<1>7. ASSUME NEW f \in Feeds, AskSubscribe(f)
      PROVE  TypeOK'
  BY <1>7 DEF AskSubscribe, Subscribed
<1>8. ASSUME NEW f \in Feeds, CursorRead(f)
      PROVE  TypeOK'
  BY <1>8 DEF CursorRead
<1>9. ASSUME NEW f \in Feeds, CursorNotRead(f)
      PROVE  TypeOK'
  BY <1>9 DEF CursorNotRead
<1>10. ASSUME NEW f \in Feeds, StreamEnds(f)
       PROVE  TypeOK'
  BY <1>10 DEF StreamEnds
<1>11. ASSUME NEW f \in Feeds, CancelledEnds(f)
       PROVE  TypeOK'
  BY <1>11 DEF CancelledEnds
<1>12. ASSUME NEW f \in Feeds, TimerFires(f)
       PROVE  TypeOK'
  BY <1>12 DEF TimerFires, Subscribed
<1>13. CASE UNCHANGED vars
  BY <1>13 DEF vars
<1> QED
  BY <1>1, <1>2, <1>3, <1>4, <1>5, <1>6, <1>7, <1>8, <1>9, <1>10, <1>11,
     <1>12, <1>13
  DEF Next

(* A step keeps the law of one feed f, whichever feed g it is a step of.   *)
LEMMA NextBounded ==
  ASSUME TypeOK, TypeOK', [Next]_vars, NEW f \in Feeds, Bounded(f)
  PROVE  Bounded(f)'
<1> USE CounterTypes DEF Bounded, Lineages, Filed
<1>1. CASE Launch
  BY <1>1 DEF Launch, BeginListing
<1>2. CASE Reconnect
  <2>1. /\ cancelled'[f] = cancelled[f] + (IF Filed(f) THEN 1 ELSE 0)
        /\ filed'[IdOf[f]] = NoFeed
    BY <1>2 DEF Reconnect, CancelFiled
  <2> QED
    BY <1>2, <2>1 DEF Reconnect, BeginListing
<1>3. CASE Stop
  <2>1. /\ cancelled'[f] = cancelled[f] + (IF Filed(f) THEN 1 ELSE 0)
        /\ filed'[IdOf[f]] = NoFeed
    BY <1>3 DEF Stop, CancelFiled
  <2> QED
    BY <1>3, <2>1 DEF Stop
<1>4. CASE WalletsListed
  BY <1>4 DEF WalletsListed
<1>5. CASE WalletsNotListed
  BY <1>5 DEF WalletsNotListed
<1>6. ASSUME NEW w \in Wallets, WalletQueried(w)
      PROVE  Bounded(f)'
  <2>1. CASE WalletOf[f] = w
    <3>1. querying'[w] = querying[w] - 1
      BY <1>6 DEF WalletQueried, TypeOK
    <3>2. reading'[f] <= reading[f] + 1 /\ reading'[f] \in Nat
      BY <1>6 DEF WalletQueried, Subscribed, TypeOK
    <3> QED
      BY <1>6, <2>1, <3>1, <3>2 DEF WalletQueried
  <2>2. CASE WalletOf[f] # w
    <3>1. querying'[WalletOf[f]] = querying[WalletOf[f]]
      BY <1>6, <2>2 DEF WalletQueried, TypeOK
    <3>2. reading'[f] = reading[f]
      BY <1>6, <2>2 DEF WalletQueried, Subscribed
    <3> QED
      BY <1>6, <3>1, <3>2 DEF WalletQueried
  <2> QED
    BY <2>1, <2>2
<1>7. ASSUME NEW w \in Wallets, WalletNotQueried(w)
      PROVE  Bounded(f)'
  <2>1. querying'[WalletOf[f]] <= querying[WalletOf[f]] /\ querying'[WalletOf[f]] \in Nat
    BY <1>7 DEF WalletNotQueried, TypeOK
  <2> QED
    BY <1>7, <2>1 DEF WalletNotQueried
<1>8. ASSUME NEW g \in Feeds, AskSubscribe(g)
      PROVE  Bounded(f)'
  <2>1. CASE g = f
    <3>1. asked'[f] = asked[f] + 1 /\ reading'[f] <= reading[f] + 1
      BY <1>8, <2>1 DEF AskSubscribe, Subscribed, TypeOK
    <3>2. reading'[f] \in Nat
      BY DEF TypeOK
    <3> QED
      BY <1>8, <3>1, <3>2 DEF AskSubscribe
  <2>2. CASE g # f
    <3>1. asked'[f] = asked[f] /\ reading'[f] = reading[f]
      BY <1>8, <2>2 DEF AskSubscribe, Subscribed, TypeOK
    <3> QED
      BY <1>8, <3>1 DEF AskSubscribe
  <2> QED
    BY <2>1, <2>2
<1>9. ASSUME NEW g \in Feeds, CursorRead(g)
      PROVE  Bounded(f)'
  <2> DEFINE replaced == {h \in Feeds : Filed(h) /\ IdOf[h] = IdOf[g]}
  <2>1. stray'[f] = stray[f] + (IF f \in replaced THEN 1 ELSE 0)
    BY <1>9 DEF CursorRead
  <2>2. CASE g = f
    <3>1. reading'[f] = reading[f] - 1 /\ filed'[IdOf[f]] = f
      BY <1>9, <2>2 DEF CursorRead, TypeOK
    <3> QED
      BY <1>9, <2>1, <2>2, <3>1 DEF CursorRead
  <2>3. CASE g # f
    <3>1. reading'[f] = reading[f]
      BY <1>9, <2>3 DEF CursorRead, TypeOK
    <3>2. CASE IdOf[g] = IdOf[f]
      <4>1. filed'[IdOf[f]] = g
        BY <1>9, <3>2 DEF CursorRead, TypeOK
      <4> QED
        BY <1>9, <2>1, <2>3, <3>1, <3>2, <4>1 DEF CursorRead
    <3>3. CASE IdOf[g] # IdOf[f]
      <4>1. filed'[IdOf[f]] = filed[IdOf[f]]
        BY <1>9, <3>3 DEF CursorRead, TypeOK
      <4> QED
        BY <1>9, <2>1, <3>1, <3>3, <4>1 DEF CursorRead
    <3> QED
      BY <3>2, <3>3
  <2> QED
    BY <2>2, <2>3
<1>10. ASSUME NEW g \in Feeds, CursorNotRead(g)
       PROVE  Bounded(f)'
  <2>1. reading'[f] <= reading[f] /\ reading'[f] \in Nat
    BY <1>10 DEF CursorNotRead, TypeOK
  <2> QED
    BY <1>10, <2>1 DEF CursorNotRead
<1>11. ASSUME NEW g \in Feeds, StreamEnds(g)
       PROVE  Bounded(f)'
  <2>1. CASE g = f
    <3>1. timers'[f] = timers[f] + 1
      BY <1>11, <2>1 DEF StreamEnds, TypeOK
    <3>2. \/ Filed(f) /\ filed'[IdOf[f]] = NoFeed /\ stray' = stray
          \/ stray'[f] = stray[f] - 1 /\ filed' = filed
      BY <1>11, <2>1 DEF StreamEnds, TypeOK
    <3> QED
      BY <1>11, <3>1, <3>2 DEF StreamEnds
  <2>2. CASE g # f
    <3>1. timers'[f] = timers[f] /\ stray'[f] = stray[f]
      BY <1>11, <2>2 DEF StreamEnds, TypeOK
    <3>2. filed'[IdOf[f]] = f <=> filed[IdOf[f]] = f
      BY <1>11, <2>2 DEF StreamEnds, TypeOK
    <3> QED
      BY <1>11, <3>1, <3>2 DEF StreamEnds
  <2> QED
    BY <2>1, <2>2
<1>12. ASSUME NEW g \in Feeds, CancelledEnds(g)
       PROVE  Bounded(f)'
  <2>1. cancelled'[f] + timers'[f] <= cancelled[f] + timers[f]
    BY <1>12 DEF CancelledEnds, TypeOK
  <2>2. cancelled'[f] \in Nat /\ timers'[f] \in Nat
    BY DEF TypeOK
  <2> QED
    BY <1>12, <2>1, <2>2 DEF CancelledEnds
<1>13. ASSUME NEW g \in Feeds, TimerFires(g)
       PROVE  Bounded(f)'
  <2>1. reading'[f] + timers'[f] <= reading[f] + timers[f]
    BY <1>13 DEF TimerFires, Subscribed, TypeOK
  <2>2. reading'[f] \in Nat /\ timers'[f] \in Nat
    BY DEF TypeOK
  <2> QED
    BY <1>13, <2>1, <2>2 DEF TimerFires
<1>14. CASE UNCHANGED vars
  BY <1>14 DEF vars
<1> QED
  BY <1>1, <1>2, <1>3, <1>4, <1>5, <1>6, <1>7, <1>8, <1>9, <1>10, <1>11,
     <1>12, <1>13, <1>14
  DEF Next

(* Only a cursor read for the identifier of f makes a stray stream of f:   *)
(* another feed's, or a second one of f itself, which the law counts.      *)
LEMMA NextExcused ==
  ASSUME TypeOK, TypeOK', [Next]_vars, NEW f \in Feeds, Bounded(f), Excused(f)
  PROVE  Excused(f)'
<1>1. \/ Launch \/ Reconnect \/ Stop \/ WalletsListed \/ WalletsNotListed
      \/ \E w \in Wallets : WalletQueried(w) \/ WalletNotQueried(w)
      \/ \E g \in Feeds : CursorNotRead(g) \/ CancelledEnds(g) \/ TimerFires(g)
      \/ UNCHANGED vars
      \/ \E g \in Feeds : AskSubscribe(g) \/ StreamEnds(g)
      \/ \E g \in Feeds : CursorRead(g)
  BY DEF Next
<1>2. /\ starts \in Nat /\ asked[f] \in Nat /\ starts' \in Nat /\ asked'[f] \in Nat
      /\ stray[f] \in Nat /\ stray'[f] \in Nat
  BY DEF TypeOK
<1>3. ASSUME stray'[f] <= stray[f], starts' >= starts, asked'[f] >= asked[f]
      PROVE  Excused(f)'
  BY <1>2, <1>3 DEF Excused
<1>4. CASE Launch \/ Reconnect
  BY <1>2, <1>3, <1>4 DEF Launch, Reconnect, BeginListing
<1>5. CASE \/ Stop \/ WalletsListed \/ WalletsNotListed
           \/ \E w \in Wallets : WalletQueried(w) \/ WalletNotQueried(w)
  <2>1. starts' = starts /\ asked' = asked /\ stray' = stray
    BY <1>5
    DEF Stop, WalletsListed, WalletsNotListed, WalletQueried, WalletNotQueried
  <2> QED
    BY <1>2, <1>3, <2>1
<1>6. CASE \/ \E g \in Feeds : CursorNotRead(g) \/ CancelledEnds(g) \/ TimerFires(g)
           \/ UNCHANGED vars
  <2>1. starts' = starts /\ asked' = asked /\ stray' = stray
    BY <1>6 DEF CursorNotRead, CancelledEnds, TimerFires, vars
  <2> QED
    BY <1>2, <1>3, <2>1
<1>7. ASSUME NEW g \in Feeds, AskSubscribe(g)
      PROVE  Excused(f)'
  <2>1. starts' = starts /\ stray' = stray /\ asked'[f] >= asked[f]
    BY <1>7 DEF AskSubscribe, TypeOK
  <2> QED
    BY <1>2, <1>3, <2>1
<1>8. ASSUME NEW g \in Feeds, StreamEnds(g)
      PROVE  Excused(f)'
  <2>1. starts' = starts /\ asked' = asked /\ stray'[f] <= stray[f]
    BY <1>8 DEF StreamEnds, TypeOK
  <2> QED
    BY <1>2, <1>3, <2>1
<1>9. ASSUME NEW g \in Feeds, CursorRead(g)
      PROVE  Excused(f)'
  <2>1. starts' = starts /\ asked' = asked
    BY <1>9 DEF CursorRead
  <2>2. CASE g = f /\ Filed(f)
    <3>1. starts + asked[f] > 1
      BY <1>9, <2>2, CounterTypes DEF CursorRead, Bounded, Lineages
    <3> QED
      BY <1>2, <2>1, <3>1 DEF Excused
  <2>3. CASE g # f /\ IdOf[g] = IdOf[f]
    BY <2>3 DEF Excused
  <2>4. CASE ~(g = f /\ Filed(f)) /\ ~(g # f /\ IdOf[g] = IdOf[f])
    <3>1. stray'[f] = stray[f]
      BY <1>2, <1>9, <2>4 DEF CursorRead
    <3> QED
      BY <1>2, <1>3, <2>1, <3>1
  <2> QED
    BY <2>2, <2>3, <2>4
<1> QED
  BY <1>1, <1>4, <1>5, <1>6, <1>7, <1>8, <1>9

(* Every step keeps the bound on the subscriptions.                        *)
LEMMA NextInv == Inv /\ [Next]_vars => Inv'
<1> SUFFICES ASSUME Inv, [Next]_vars
             PROVE  Inv'
  OBVIOUS
<1>1. TypeOK /\ TypeOK'
  BY NextType DEF Inv
<1>2. \A f \in Feeds : Bounded(f) /\ Excused(f)
  BY DEF Inv, RestartsDoNotMultiply, StrayNeedsOverlap, Bounded, Excused
<1>3. \A f \in Feeds : Bounded(f)' /\ Excused(f)'
  BY <1>1, <1>2, NextBounded, NextExcused
<1> QED
  BY <1>1, <1>3
  DEF Inv, RestartsDoNotMultiply, StrayNeedsOverlap, Bounded, Excused

(* Restarted subscriptions never multiply, for any number of reconnects.   *)
THEOREM RestartsBounded == Spec => []RestartsDoNotMultiply
<1>1. Spec => []Inv
  BY InitInv, NextInv, PTL DEF Spec
<1> QED
  BY <1>1, PTL DEF Inv

(* A stream out of the reach of stop() needs an overlapping subscription.  *)
THEOREM StrayExplained == Spec => []StrayNeedsOverlap
<1>1. Spec => []Inv
  BY InitInv, NextInv, PTL DEF Spec
<1> QED
  BY <1>1, PTL DEF Inv

(* The feeds' counters are numbers: nothing is cancelled that does not run.*)
THEOREM SubscriptionTypes == Spec => []TypeOK
<1>1. Spec => []Inv
  BY InitInv, NextInv, PTL DEF Spec
<1> QED
  BY <1>1, PTL DEF Inv
==============================================================================
