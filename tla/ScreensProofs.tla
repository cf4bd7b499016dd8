---------------------------- MODULE ScreensProofs ----------------------------
(***************************************************************************)
(* What the screens of a wallet list, for every set of wallets and assets, *)
(* page size and bound.                                                    *)
(*                                                                         *)
(* The history: the loading mark of the list is taken off, the open wallet *)
(* is the one shown, wallets are not mixed and no page is lost.  A load    *)
(* that was alone from its beginning is the only one under way and is the  *)
(* open wallet's; without overlap every load is such a load, and its page  *)
(* goes on where the rows end.                                             *)
(*                                                                         *)
(* The balances: the last one received of an asset ends up in the storage  *)
(* and on the screen.  Of both, the types.                                 *)
(***************************************************************************)
EXTENDS MCScreens, FiniteSetTheorems, TLAPS

(* A call of loadTransactions() that is under way.                         *)
IsLoad(x) ==
  /\ x = [wallet |-> x.wallet, scroll |-> x.scroll, alone |-> x.alone, stage |-> x.stage,
          from |-> x.from, page |-> x.page, next |-> x.next]
  /\ x.wallet \in Wallets /\ x.scroll \in BOOLEAN /\ x.alone \in BOOLEAN

ScreenTypes ==
  /\ open \in Wallets \cup {NoWallet}
  /\ loading \in BOOLEAN /\ overlap \in BOOLEAN /\ refused \in BOOLEAN
  /\ loads = [l \in Slots |-> loads[l]]
  /\ \A l \in Slots : loads[l] = Free \/ IsLoad(loads[l])

AloneIsOpen == \A l \in Busy : loads[l].alone => Busy = {l} /\ loads[l].wallet = open

AloneWithoutOverlap == ~overlap => \A l \in Busy : loads[l].alone

(* The inductive invariant.                                                *)
Inv == ScreenTypes /\ AloneIsOpen /\ AloneWithoutOverlap /\ LoadingEnds /\ OpenWalletShown

(* What is under way is not an empty slot, and the other way round.        *)
LEMMA Loads ==
  ASSUME ScreenTypes
  PROVE  /\ \A l \in Slots : l \in Busy <=> IsLoad(loads[l])
         /\ Busy \subseteq Slots
<1>1. \A x : IsLoad(x) => x # Free
  BY ScreenBounds DEF IsLoad, Free
<1> QED
  BY <1>1 DEF ScreenTypes, Busy

(* The screen opens with nothing shown and nothing under way.              *)
LEMMA InitInv == Init => Inv
<1> SUFFICES ASSUME Init
             PROVE  Inv
  OBVIOUS
<1>1. Busy = {}
  BY DEF Init, Busy
<1>2. ScreenTypes
  BY DEF Init, ScreenTypes
<1> QED
  BY <1>1, <1>2 DEF Inv, Init, AloneIsOpen, AloneWithoutOverlap, LoadingEnds, OpenWalletShown

(* A load begins in a free slot, beside those that were under way.         *)
LEMMA Begun ==
  ASSUME ScreenTypes, NEW w \in Wallets, NEW scroll \in BOOLEAN, NEW others,
         others = [l \in Slots |-> others[l]],
         \A l \in Slots : IF l \in Busy THEN IsLoad(others[l]) ELSE others[l] = Free,
         BeginLoad(w, scroll, others)
  PROVE  \E l \in Slots :
           /\ l \notin Busy
           /\ IsLoad(loads'[l]) /\ loads'[l].wallet = w /\ loads'[l].scroll = scroll
           /\ loads'[l].alone = (Busy = {})
           /\ loads' = [x \in Slots |-> loads'[x]]
           /\ \A x \in Slots : x # l => loads'[x] = others[x]
<1>1. \A x : IsLoad(x) => x # Free
  BY ScreenBounds DEF IsLoad, Free
<1>2. PICK l \in Slots : \E from :
        /\ others[l] = Free
        /\ loads' = [others EXCEPT ![l] =
             [wallet |-> w, scroll |-> scroll, alone |-> Busy = {}, stage |-> "query",
              from |-> from, page |-> <<>>, next |-> Undefined]]
  BY DEF BeginLoad
<1>3. PICK from :
        /\ others[l] = Free
        /\ loads' = [others EXCEPT ![l] =
             [wallet |-> w, scroll |-> scroll, alone |-> Busy = {}, stage |-> "query",
              from |-> from, page |-> <<>>, next |-> Undefined]]
  BY <1>2
<1>4. l \notin Busy
  BY <1>1, <1>3
<1>5. /\ loads'[l] = [wallet |-> w, scroll |-> scroll, alone |-> Busy = {}, stage |-> "query",
                      from |-> from, page |-> <<>>, next |-> Undefined]
      /\ loads' = [x \in Slots |-> loads'[x]]
      /\ \A x \in Slots : x # l => loads'[x] = others[x]
  BY <1>3
<1>6. (Busy = {}) \in BOOLEAN
  OBVIOUS
<1>7. /\ IsLoad(loads'[l]) /\ loads'[l].wallet = w /\ loads'[l].scroll = scroll
      /\ loads'[l].alone = (Busy = {})
  BY <1>5, <1>6 DEF IsLoad
<1> QED
  BY <1>4, <1>5, <1>7

(* What Open and Scroll leave of the loads under way: none is alone.       *)
LEMMA CrowdedLoads ==
  ASSUME ScreenTypes
  PROVE  /\ Crowded = [l \in Slots |-> Crowded[l]] /\ Orphaned = [l \in Slots |-> Orphaned[l]]
         /\ \A l \in Slots : IF l \in Busy THEN IsLoad(Crowded[l]) ELSE Crowded[l] = Free
         /\ \A l \in Slots : IF l \in Busy THEN IsLoad(Orphaned[l]) ELSE Orphaned[l] = Free
         /\ \A l \in Busy : ~Crowded[l].alone /\ ~Orphaned[l].alone
<1>1. ASSUME NEW l \in Busy
      PROVE  /\ IsLoad(Crowded[l]) /\ ~Crowded[l].alone
             /\ IsLoad(Orphaned[l]) /\ ~Orphaned[l].alone
  <2>1. l \in Slots /\ IsLoad(loads[l])
    BY Loads
  <2>2. Crowded[l] = [loads[l] EXCEPT !.alone = FALSE]
    BY <2>1 DEF Crowded
  <2>3. IsLoad(Crowded[l]) /\ ~Crowded[l].alone
    BY <2>1, <2>2 DEF IsLoad
  <2>4. Orphaned[l] = [Crowded[l] EXCEPT !.scroll = FALSE]
    BY <2>1 DEF Orphaned
  <2>5. IsLoad(Orphaned[l]) /\ ~Orphaned[l].alone
    BY <2>3, <2>4 DEF IsLoad
  <2> QED
    BY <2>3, <2>5
<1>2. \A l \in Slots : l \notin Busy => Crowded[l] = Free /\ Orphaned[l] = Free
  BY DEF Crowded, Orphaned
<1>3. Crowded = [l \in Slots |-> Crowded[l]] /\ Orphaned = [l \in Slots |-> Orphaned[l]]
  BY DEF Crowded, Orphaned
<1> QED
  BY <1>1, <1>2, <1>3

(* A load that begins, for the wallet that is open from now on.            *)
LEMMA BeginKeepsInv ==
  ASSUME Inv, NEW w \in Wallets, NEW scroll \in BOOLEAN, NEW others,
         others = [l \in Slots |-> others[l]],
         \A l \in Slots : IF l \in Busy THEN IsLoad(others[l]) ELSE others[l] = Free,
         \A l \in Busy : ~others[l].alone,
         BeginLoad(w, scroll, others), open' = w, NoteOverlap,
         loading' \in BOOLEAN, loading' => scroll, refused' \in BOOLEAN
  PROVE  Inv'
<1>1. ScreenTypes
  BY DEF Inv
<1>2. PICK l \in Slots :
        /\ l \notin Busy
        /\ IsLoad(loads'[l]) /\ loads'[l].wallet = w /\ loads'[l].scroll = scroll
        /\ loads'[l].alone = (Busy = {})
        /\ loads' = [x \in Slots |-> loads'[x]]
        /\ \A x \in Slots : x # l => loads'[x] = others[x]
  BY <1>1, Begun
<1>3. /\ overlap' = (overlap \/ Busy # {})
      /\ overlap' \in BOOLEAN
  BY <1>1 DEF NoteOverlap, ScreenTypes
<1>4. ScreenTypes'
  <2>1. \A x \in Slots : loads'[x] = Free \/ IsLoad(loads'[x])
    BY <1>2
  <2> QED
    BY <1>2, <1>3, <2>1 DEF ScreenTypes
<1>5. Busy' = Busy \cup {l}
  <2>1. \A x : IsLoad(x) => x # Free
    BY ScreenBounds DEF IsLoad, Free
  <2>2. \A x \in Slots : loads'[x] # Free <=> loads[x] # Free \/ x = l
    BY <1>2, <2>1 DEF Busy
  <2> QED
    BY <2>2 DEF Busy
<1>6. \A x \in Busy : x \in Slots /\ x # l /\ ~loads'[x].alone
  BY <1>2 DEF Busy
<1>7. AloneIsOpen'
  BY <1>2, <1>5, <1>6 DEF AloneIsOpen
<1>8. AloneWithoutOverlap'
  BY <1>2, <1>3, <1>5 DEF AloneWithoutOverlap
<1>9. LoadingEnds'
  BY <1>2, <1>5 DEF LoadingEnds
<1>10. OpenWalletShown'
  BY <1>5 DEF OpenWalletShown
<1> QED
  BY <1>4, <1>7, <1>8, <1>9, <1>10 DEF Inv

(* Opening a wallet: it is shown already, or a load of it begins.          *)
LEMMA OpenKeepsInv ==
  ASSUME Inv, NEW w \in Wallets, Open(w)
  PROVE  Inv'
<1>1. ScreenTypes
  BY DEF Inv
<1>2. open' = w /\ loading' = FALSE /\ refused' = FALSE /\ NoteOverlap /\ walletId' = walletId
  BY DEF Open, slice
<1>3. CASE ~Satisfied(w, TRUE)
  <2>1. BeginLoad(w, FALSE, Orphaned)
    BY <1>3 DEF Open
  <2> QED
    BY <1>1, <1>2, <2>1, CrowdedLoads, BeginKeepsInv
<1>4. CASE Satisfied(w, TRUE)
  <2>1. loads' = Orphaned /\ walletId = w
    BY <1>4 DEF Open, Satisfied
  <2>2. /\ overlap' = (overlap \/ Busy # {})
        /\ overlap' \in BOOLEAN
    BY <1>1, <1>2 DEF NoteOverlap, ScreenTypes
  <2>3. ScreenTypes'
    <3>1. loads' = [l \in Slots |-> loads'[l]]
      BY <1>1, <2>1, CrowdedLoads
    <3>2. \A l \in Slots : loads'[l] = Free \/ IsLoad(loads'[l])
      BY <1>1, <2>1, CrowdedLoads
    <3> QED
      BY <1>2, <2>2, <3>1, <3>2 DEF ScreenTypes
  <2>4. Busy' \subseteq Busy
    BY <1>1, <2>1, CrowdedLoads DEF Busy
  <2>5. \A l \in Busy' : ~loads'[l].alone
    BY <1>1, <2>1, <2>4, CrowdedLoads
  <2>6. AloneIsOpen' /\ AloneWithoutOverlap'
    BY <2>2, <2>4, <2>5 DEF AloneIsOpen, AloneWithoutOverlap
  <2>7. LoadingEnds' /\ OpenWalletShown'
    BY <1>2, <2>1 DEF LoadingEnds, OpenWalletShown
  <2> QED
    BY <2>3, <2>6, <2>7 DEF Inv
<1> QED
  BY <1>3, <1>4

(* A scroll asks for the next page of the open wallet and waits for it.    *)
LEMMA ScrollKeepsInv ==
  ASSUME Inv, Scroll
  PROVE  Inv'
<1>1. ScreenTypes /\ open \in Wallets
  BY DEF Inv, ScreenTypes, Scroll
<1>2. /\ open' = open /\ loading' = TRUE /\ refused' = refused /\ NoteOverlap
      /\ BeginLoad(open, TRUE, Crowded)
  BY DEF Scroll
<1>3. PICK w \in Wallets : w = open
  BY <1>1
<1>4. BeginLoad(w, TRUE, Crowded) /\ open' = w /\ refused' \in BOOLEAN
  BY <1>1, <1>2, <1>3 DEF ScreenTypes
<1> QED
  BY <1>1, <1>2, <1>4, CrowdedLoads, BeginKeepsInv

(* The storage answers: the load stays under way.                          *)
LEMMA ReadKeepsInv ==
  ASSUME Inv, NEW l \in Slots, Read(l)
  PROVE  Inv'
<1>1. ScreenTypes /\ l \in Busy /\ IsLoad(loads[l])
  BY Loads DEF Inv, Read
<1>2. /\ open' = open /\ loading' = loading /\ walletId' = walletId
      /\ overlap' = overlap /\ refused' = refused
  BY DEF Read, slice, past
<1>3. PICK page, next :
        loads' = [loads EXCEPT ![l] =
          [loads[l] EXCEPT !.stage = "read", !.page = page, !.next = next]]
  BY DEF Read
<1>4. [loads[l] EXCEPT !.stage = "read", !.page = page, !.next = next]
        = [wallet |-> loads[l].wallet, scroll |-> loads[l].scroll, alone |-> loads[l].alone,
           stage |-> "read", from |-> loads[l].from, page |-> page, next |-> next]
  <2>1. PICK w, scroll, alone, at, from, old, after :
          loads[l] = [wallet |-> w, scroll |-> scroll, alone |-> alone, stage |-> at,
                      from |-> from, page |-> old, next |-> after]
    BY <1>1 DEF IsLoad
  <2>2. PICK asked : asked = [wallet |-> w, scroll |-> scroll, alone |-> alone,
                              stage |-> "read", from |-> from, page |-> old,
                              next |-> after]
    OBVIOUS
  <2>3. PICK paged : paged = [wallet |-> w, scroll |-> scroll, alone |-> alone,
                              stage |-> "read", from |-> from, page |-> page,
                              next |-> after]
    OBVIOUS
  <2>4. [loads[l] EXCEPT !.stage = "read"] = asked
    BY <2>1, <2>2
  <2>5. [asked EXCEPT !.page = page] = paged
    BY <2>2, <2>3
  <2>6. [paged EXCEPT !.next = next]
          = [wallet |-> w, scroll |-> scroll, alone |-> alone, stage |-> "read",
             from |-> from, page |-> page, next |-> next]
    BY <2>3
  <2>7. [loads[l] EXCEPT !.stage = "read", !.page = page, !.next = next]
          = [[[loads[l] EXCEPT !.stage = "read"] EXCEPT !.page = page] EXCEPT !.next = next]
    OBVIOUS
  <2>8. /\ loads[l].wallet = w /\ loads[l].scroll = scroll
        /\ loads[l].alone = alone /\ loads[l].from = from
    BY <2>1
  <2> QED
    BY <2>4, <2>5, <2>6, <2>7, <2>8
<1>5. /\ loads' = [x \in Slots |-> loads'[x]]
      /\ loads'[l] = [wallet |-> loads[l].wallet, scroll |-> loads[l].scroll,
                      alone |-> loads[l].alone, stage |-> "read", from |-> loads[l].from,
                      page |-> page, next |-> next]
      /\ \A x \in Slots : x # l => loads'[x] = loads[x]
  BY <1>1, <1>3, <1>4 DEF ScreenTypes
<1>6. /\ IsLoad(loads'[l]) /\ loads'[l].wallet = loads[l].wallet
      /\ loads'[l].scroll = loads[l].scroll /\ loads'[l].alone = loads[l].alone
  BY <1>1, <1>5 DEF IsLoad
<1>7. ScreenTypes'
  <2>1. \A x \in Slots : loads'[x] = Free \/ IsLoad(loads'[x])
    BY <1>1, <1>5, <1>6 DEF ScreenTypes
  <2> QED
    BY <1>1, <1>2, <1>5, <2>1 DEF ScreenTypes
<1>8. Busy' = Busy
  <2>1. \A x : IsLoad(x) => x # Free
    BY ScreenBounds DEF IsLoad, Free
  <2> QED
    BY <1>1, <1>5, <1>6, <2>1 DEF Busy
<1>9. \A x \in Busy : /\ loads'[x].wallet = loads[x].wallet
                      /\ loads'[x].scroll = loads[x].scroll
                      /\ loads'[x].alone = loads[x].alone
  BY <1>5, <1>6 DEF Busy
<1> QED
  BY <1>2, <1>7, <1>8, <1>9
     DEF Inv, AloneIsOpen, AloneWithoutOverlap, LoadingEnds, OpenWalletShown

(* A load is over: its slot is free and the others are what they were.     *)
LEMMA Freed ==
  ASSUME ScreenTypes, NEW l \in Slots, loads' = [loads EXCEPT ![l] = Free]
  PROVE  /\ loads' = [x \in Slots |-> loads'[x]]
         /\ \A x \in Slots : loads'[x] = Free \/ IsLoad(loads'[x])
         /\ Busy' = Busy \ {l}
         /\ \A x \in Busy' : loads'[x] = loads[x]
  BY DEF ScreenTypes, Busy

(* A load that fails is over, and remembered as refused.                   *)
LEMMA LoadFailsKeepsInv ==
  ASSUME Inv, NEW l \in Slots, LoadFails(l)
  PROVE  Inv'
<1>1. ScreenTypes /\ l \in Busy
  BY DEF Inv, LoadFails
<1>2. /\ open' = open /\ loading' = loading /\ overlap' = overlap /\ refused' = TRUE
  BY DEF LoadFails
<1>3. /\ loads' = [x \in Slots |-> loads'[x]]
      /\ \A x \in Slots : loads'[x] = Free \/ IsLoad(loads'[x])
      /\ Busy' = Busy \ {l}
      /\ \A x \in Busy' : loads'[x] = loads[x]
  BY <1>1, Freed DEF LoadFails
<1>4. ScreenTypes'
  BY <1>1, <1>2, <1>3 DEF ScreenTypes
<1>5. AloneIsOpen' /\ AloneWithoutOverlap'
  BY <1>1, <1>2, <1>3 DEF Inv, AloneIsOpen, AloneWithoutOverlap
<1>6. LoadingEnds' /\ OpenWalletShown'
  BY <1>2 DEF LoadingEnds, OpenWalletShown
<1> QED
  BY <1>4, <1>5, <1>6 DEF Inv

(* A page is shown: the mark of the scroll that asked for it is taken off, *)
(* and a load that was alone was the open wallet's.                        *)
LEMMA LoadedKeepsInv ==
  ASSUME Inv, NEW l \in Slots, Loaded(l)
  PROVE  Inv'
<1>1. ScreenTypes /\ l \in Busy /\ IsLoad(loads[l])
  BY Loads DEF Inv, Loaded
<1>2. /\ open' = open /\ refused' = refused /\ walletId' = loads[l].wallet
      /\ loading' = (loading /\ ~loads[l].scroll)
      /\ overlap' = (overlap /\ ~(loads[l].alone /\ walletId # loads[l].wallet))
  BY DEF Loaded, Load
<1>3. /\ loads' = [x \in Slots |-> loads'[x]]
      /\ \A x \in Slots : loads'[x] = Free \/ IsLoad(loads'[x])
      /\ Busy' = Busy \ {l}
      /\ \A x \in Busy' : loads'[x] = loads[x]
  BY <1>1, Freed DEF Loaded
<1>4. ScreenTypes'
  <2>1. loading' \in BOOLEAN /\ overlap' \in BOOLEAN
    BY <1>2
  <2> QED
    BY <1>1, <1>2, <1>3, <2>1 DEF ScreenTypes
<1>5. ~overlap' => loads[l].alone
  BY <1>1, <1>2 DEF Inv, AloneWithoutOverlap
<1>6. loads[l].alone => Busy = {l} /\ loads[l].wallet = open
  BY <1>1 DEF Inv, AloneIsOpen
<1>7. AloneIsOpen'
  BY <1>1, <1>2, <1>3 DEF Inv, AloneIsOpen
<1>8. AloneWithoutOverlap'
  BY <1>3, <1>5, <1>6 DEF AloneWithoutOverlap
<1>9. LoadingEnds'
  BY <1>2, <1>3 DEF Inv, LoadingEnds
<1>10. OpenWalletShown'
  BY <1>2, <1>5, <1>6 DEF OpenWalletShown
<1> QED
  BY <1>4, <1>7, <1>8, <1>9, <1>10 DEF Inv

(* Storing and announcing touch no load, and every step is one of these.   *)
LEMMA NextKeepsInv == Inv /\ [Next]_vars => Inv'
<1> SUFFICES ASSUME Inv, [Next]_vars
             PROVE  Inv'
  OBVIOUS
<1>1. ASSUME NEW w \in Wallets, Open(w)
      PROVE  Inv'
  BY <1>1, OpenKeepsInv
<1>2. CASE Scroll
  BY <1>2, ScrollKeepsInv
<1>3. ASSUME NEW l \in Slots, Read(l) \/ Loaded(l) \/ LoadFails(l)
      PROVE  Inv'
  BY <1>3, ReadKeepsInv, LoadedKeepsInv, LoadFailsKeepsInv
<1>4. CASE (\E w \in Wallets : Store(w)) \/ (\E tx \in Txs : Announce(tx)) \/ UNCHANGED vars
  <2>1. /\ open' = open /\ loading' = loading /\ walletId' = walletId /\ loads' = loads
        /\ overlap' = overlap /\ refused' = refused
    BY <1>4 DEF Store, Announce, vars, slice, past
  <2>2. Busy' = Busy
    BY <2>1 DEF Busy
  <2> QED
    BY <2>1, <2>2
       DEF Inv, ScreenTypes, AloneIsOpen, AloneWithoutOverlap, LoadingEnds, OpenWalletShown
<1> QED
  BY <1>1, <1>2, <1>3, <1>4 DEF Next

(* For every set of wallets and number of loads: the list's loading mark,  *)
(* which stops it from scrolling, is on only while the load it waits for   *)
(* is under way, or after a load that failed.                              *)
THEOREM MarkIsTakenOff == Spec => []LoadingEnds
<1>1. Init => Inv
  BY InitInv
<1>2. Inv /\ [Next]_vars => Inv'
  BY NextKeepsInv
<1>3. Inv => LoadingEnds
  BY DEF Inv
<1> QED
  BY <1>1, <1>2, <1>3, PTL DEF Spec

(* For every set of wallets and number of loads: the history slice is the  *)
(* open wallet's once all loads are over, if they came one at a time and   *)
(* none failed.                                                            *)
THEOREM OpenWalletIsShown == Spec => []OpenWalletShown
<1>1. Init => Inv
  BY InitInv
<1>2. Inv /\ [Next]_vars => Inv'
  BY NextKeepsInv
<1>3. Inv => OpenWalletShown
  BY DEF Inv
<1> QED
  BY <1>1, <1>2, <1>3, PTL DEF Spec

------------------------------------------------------------------------------
(* The places of the rows in the order of sort() are a permutation.        *)
LEMMA PlacesPermute ==
  ASSUME NEW s \in Seq(Txs)
  PROVE  LET D == DOMAIN s
             place == [i \in D |-> Place(s, i)]
         IN  /\ place \in Bijection(D, D)
             /\ \A i, j \in D : Precedes(s, i, j) => place[i] < place[j]
  <1> DEFINE D == DOMAIN s
             Before(i) == {j \in D : Precedes(s, j, i)}
             place == [i \in D |-> Place(s, i)]
  <1>1. D = 1..Len(s) /\ Len(s) \in Nat
    OBVIOUS
  <1>2. IsFiniteSet(D) /\ Cardinality(D) = Len(s)
    BY <1>1, FS_Interval
  <1>3. \A i \in D : s[i][2] \in Int
    BY DEF Txs
  <1>4. \A i \in D : IsFiniteSet(Before(i)) /\ Cardinality(Before(i)) \in Nat
    <2> SUFFICES ASSUME NEW i \in D
                 PROVE  IsFiniteSet(Before(i)) /\ Cardinality(Before(i)) \in Nat
      OBVIOUS
    <2>1. Before(i) \in SUBSET D
      OBVIOUS
    <2> HIDE DEF Before, D
    <2> QED BY <1>2, <2>1, FS_Subset, FS_CardinalityType
  <1>5. \A i, j, k \in D : Precedes(s, i, j) /\ Precedes(s, j, k) => Precedes(s, i, k)
    BY <1>1, <1>3 DEF Precedes
  <1>6. \A i \in D : ~Precedes(s, i, i)
    BY <1>1, <1>3 DEF Precedes
  <1>7. \A i, j \in D : i # j => Precedes(s, i, j) \/ Precedes(s, j, i)
    BY <1>1, <1>3 DEF Precedes
  <1>8. ASSUME NEW i \in D, NEW j \in D, Precedes(s, i, j)
        PROVE  place[i] < place[j]
    <2>1. Before(i) \in SUBSET Before(j) /\ i \in Before(j) /\ i \notin Before(i)
      BY <1>5, <1>6, <1>8
    <2>2. place[i] = 1 + Cardinality(Before(i)) /\ place[j] = 1 + Cardinality(Before(j))
      BY DEF Place
    <2>3. Cardinality(Before(i)) \in Nat /\ Cardinality(Before(j)) \in Nat /\ IsFiniteSet(Before(j))
      BY <1>4
    <2> HIDE DEF Before, place, D
    <2>4. Before(i) # Before(j)
      BY <2>1
    <2>5. Cardinality(Before(i)) < Cardinality(Before(j))
      BY <2>1, <2>3, <2>4, FS_Subset
    <2> QED BY <2>2, <2>3, <2>5
  <1>9. place \in [D -> D]
    <2> SUFFICES ASSUME NEW i \in D PROVE Place(s, i) \in D
      OBVIOUS
    <2>1. Before(i) \in SUBSET (D \ {i})
      BY <1>6
    <2>2. Place(s, i) = 1 + Cardinality(Before(i))
      BY DEF Place
    <2>3. Cardinality(Before(i)) \in Nat
      BY <1>4
    <2> HIDE DEF Before
    <2>4. IsFiniteSet(D \ {i}) /\ Cardinality(D \ {i}) = Len(s) - 1
      BY <1>2, FS_RemoveElement
    <2>5. Cardinality(Before(i)) <= Len(s) - 1
      BY <2>1, <2>4, FS_Subset
    <2> QED BY <1>1, <2>2, <2>3, <2>5
  <1>10. \A i, j \in D : place[i] = place[j] => i = j
    <2> SUFFICES ASSUME NEW i \in D, NEW j \in D, i # j PROVE place[i] # place[j]
      OBVIOUS
    <2>1. place[i] \in Int /\ place[j] \in Int
      BY <1>1, <1>9
    <2>2. place[i] < place[j] \/ place[j] < place[i]
      BY <1>7, <1>8
    <2> HIDE DEF place
    <2> QED BY <2>1, <2>2
  <1> HIDE DEF place, D
  <1>11. place \in Injection(D, D)
    BY <1>9, <1>10 DEF Injection, IsInjective
  <1>12. place \in Surjection(D, D)
    BY <1>2, <1>11, FS_Injection
  <1>13. place \in Bijection(D, D)
    BY <1>11, <1>12 DEF Bijection
  <1> QED BY <1>8, <1>13 DEF place, D

(* sort() returns the rows in another order, the newest first.             *)
LEMMA SortedRows ==
  ASSUME NEW s \in Seq(Txs)
  PROVE  /\ Sorted(s) \in Seq(Txs)
         /\ \E f \in [DOMAIN s -> DOMAIN s] :
              /\ \A i, j \in DOMAIN s : f[i] = f[j] => i = j
              /\ \A i \in DOMAIN s : \E n \in DOMAIN s : f[n] = i
              /\ Sorted(s) = [n \in DOMAIN s |-> s[f[n]]]
              /\ \A m, n \in DOMAIN s : m < n => s[f[m]][2] >= s[f[n]][2]
  <1> DEFINE D == DOMAIN s
             place == [i \in D |-> Place(s, i)]
             f == [n \in D |-> CHOOSE i \in D : Place(s, i) = n]
  <1>1. /\ place \in Bijection(D, D)
        /\ \A i, j \in D : Precedes(s, i, j) => place[i] < place[j]
    BY PlacesPermute
  <1>2. \A n \in D : f[n] \in D /\ place[f[n]] = n
    <2> SUFFICES ASSUME NEW n \in D PROVE f[n] \in D /\ place[f[n]] = n
      OBVIOUS
    <2>1. \E i \in D : place[i] = n
      BY <1>1 DEF Bijection, Surjection
    <2>2. \E i \in D : Place(s, i) = n
      BY <2>1
    <2> QED BY <2>2
  <1>3. \A i \in D : f[place[i]] = i
    <2> SUFFICES ASSUME NEW i \in D PROVE f[place[i]] = i
      OBVIOUS
    <2>1. place[i] \in D
      BY <1>1 DEF Bijection, Injection
    <2>2. place[f[place[i]]] = place[i] /\ f[place[i]] \in D
      BY <1>2, <2>1
    <2> HIDE DEF place, f
    <2> QED BY <1>1, <2>2 DEF Bijection, Injection, IsInjective
  <1>4. Sorted(s) = [n \in D |-> s[f[n]]]
    BY DEF Sorted
  <1>5. ASSUME NEW m \in D, NEW n \in D, m < n
        PROVE  s[f[m]][2] >= s[f[n]][2]
    <2>1. f[m] \in D /\ f[n] \in D /\ place[f[m]] = m /\ place[f[n]] = n
      BY <1>2
    <2>2. s[f[m]][2] \in Int /\ s[f[n]][2] \in Int
      BY <2>1 DEF Txs
    <2>3. Precedes(s, f[n], f[m]) => n < m
      BY <1>1, <2>1
    <2> HIDE DEF f, place
    <2> QED BY <1>5, <2>2, <2>3 DEF Precedes
  <1>6. f \in [D -> D]
    BY <1>2
  <1>7. D = 1..Len(s) /\ Len(s) \in Nat
    OBVIOUS
  <1>8. \A i \in D : place[i] \in D
    BY <1>1 DEF Bijection, Injection
  <1> HIDE DEF f, place
  <1>9. Sorted(s) \in Seq(Txs)
    BY <1>4, <1>6, <1>7
  <1> HIDE DEF D
  <1>10. \A i, j \in D : f[i] = f[j] => i = j
    BY <1>2
  <1>11. \A i \in D : \E n \in D : f[n] = i
    BY <1>3, <1>8
  <1> QED BY <1>4, <1>5, <1>6, <1>9, <1>10, <1>11 DEF D

(* The cursor as the lowest number its rows reach.                         *)
Lowest(c) == IF c \in {Null, Undefined} THEN 1 ELSE c

(* The page a load has read goes on below the cursor it was asked for:     *)
(* newest first, and complete down to the cursor after it.                 *)
IsPage(x) ==
  /\ x.page \in Seq(Txs) /\ x.next \in {Null} \cup 1..MaxTxs
  /\ \A i \in DOMAIN x.page : x.page[i][1] = x.wallet /\ x.page[i][2] >= x.next
  /\ \A i, j \in DOMAIN x.page : i < j => x.page[i][2] > x.page[j][2]
  /\ x.from # Undefined =>
       /\ x.next < x.from
       /\ \A i \in DOMAIN x.page : x.page[i][2] < x.from
       /\ \A n \in Lowest(x.next)..(x.from - 1) : <<x.wallet, n>> \in ToSet(x.page)

HistoryTypes ==
  /\ stored \in [Wallets -> 0..MaxTxs]
  /\ untold \subseteq Txs /\ missed \subseteq Txs /\ early \subseteq Txs
  /\ walletId \in Wallets \cup {NoWallet}
  /\ cursor \in {Undefined, Null} \cup 1..MaxTxs
  /\ walletId # NoWallet => cursor # Undefined
  /\ rows \in Seq(Txs)

PagesRead ==
  \A l \in Busy :
    /\ loads[l].stage \in Stages
    /\ loads[l].from \in {Undefined} \cup 1..MaxTxs
    /\ loads[l].stage = "query" => loads[l].page = <<>>
    /\ loads[l].stage = "read" => IsPage(loads[l])

(* A load that is alone goes on where the rows of its wallet end, or starts *)
(* from the newest transaction of another wallet; what its first page has  *)
(* not is yet to be announced, or missed.                                  *)
GoesOn ==
  \A l \in Busy : loads[l].alone =>
    /\ loads[l].from = IF loads[l].wallet = walletId THEN cursor ELSE Undefined
    /\ (loads[l].wallet # walletId /\ loads[l].stage = "read") =>
         \A n \in Lowest(loads[l].next)..stored[loads[l].wallet] :
           <<loads[l].wallet, n>> \in ToSet(loads[l].page) \cup untold \cup missed

Clean == ~overlap /\ walletId # NoWallet
RowsCover ==
  Clean => \A n \in Oldest..stored[walletId] :
             <<walletId, n>> \in ToSet(rows) \cup untold \cup missed
RowsOrdered ==
  Clean => \A i, j \in DOMAIN rows :
             (i < j /\ rows[i] \notin early /\ rows[j] \notin early) => rows[i][2] > rows[j][2]
RowsReach ==
  Clean => \A i \in DOMAIN rows : rows[i] \notin early => rows[i][2] >= cursor

HistoryInv ==
  HistoryTypes /\ PagesRead /\ WalletsNotMixed /\ GoesOn /\ RowsCover /\ RowsOrdered /\ RowsReach

(* A page the storage gives.                                               *)
LEMMA PageGiven ==
  ASSUME HistoryTypes, NEW w \in Wallets, NEW from \in {Undefined} \cup 1..MaxTxs
  PROVE  LET p == Page(w, from)
             c == After(w, from)
         IN  /\ p \in Seq(Txs) /\ c \in {Null} \cup 1..MaxTxs /\ c <= Top(w, from)
             /\ \A i \in DOMAIN p : p[i][1] = w /\ p[i][2] >= c /\ p[i][2] <= Top(w, from)
             /\ \A i, j \in DOMAIN p : i < j => p[i][2] > p[j][2]
             /\ \A n \in Lowest(c)..Top(w, from) : <<w, n>> \in ToSet(p)
             /\ Top(w, from) = IF from = Undefined THEN stored[w] ELSE from - 1
  <1> DEFINE p == Page(w, from)
             c == After(w, from)
             t == Top(w, from)
             b == Bottom(w, from)
  <1>1. MaxTxs \in Nat /\ Limit \in Nat /\ Limit >= 1
    BY ScreenBounds
  <1>2. stored[w] \in 0..MaxTxs
    BY DEF HistoryTypes
  <1>3. t \in 0..MaxTxs /\ t = IF from = Undefined THEN stored[w] ELSE from - 1
    BY <1>1, <1>2 DEF Top
  <1>4. b \in Nat /\ b >= 1 /\ b <= t + 1 /\ (t >= 1 => b <= t)
    BY <1>1, <1>3 DEF Bottom
  <1>5. c = IF b > 1 THEN b ELSE 0
    BY DEF After, Null
  <1>6. p = [i \in 1..(t - b + 1) |-> <<w, t - i + 1>>]
    BY DEF Page
  <1> HIDE DEF p, c, t, b
  <1>7. t - b + 1 \in Nat
    BY <1>3, <1>4
  <1>8. \A i \in 1..(t - b + 1) : t - i + 1 \in 1..MaxTxs /\ t - i + 1 >= b /\ t - i + 1 <= t
    BY <1>1, <1>3, <1>4
  <1>9. DOMAIN p = 1..(t - b + 1) /\ \A i \in DOMAIN p : p[i] = <<w, t - i + 1>>
    BY <1>6
  <1>10. p \in Seq(Txs)
    <2>1. \A i \in 1..(t - b + 1) : <<w, t - i + 1>> \in Txs
      BY <1>8 DEF Txs
    <2> QED BY <1>6, <1>7, <2>1
  <1>11. c \in {Null} \cup 1..MaxTxs /\ c <= t
    BY <1>1, <1>3, <1>4, <1>5 DEF Null
  <1>12. ASSUME NEW i \in DOMAIN p
         PROVE  p[i][1] = w /\ p[i][2] >= c /\ p[i][2] <= t
    <2>1. p[i][1] = w /\ p[i][2] = t - i + 1 /\ i \in 1..(t - b + 1)
      BY <1>9
    <2>2. c \in Int /\ c <= b
      BY <1>4, <1>5
    <2> QED BY <1>3, <1>4, <2>1, <2>2
  <1>13. ASSUME NEW i \in DOMAIN p, NEW j \in DOMAIN p, i < j
        PROVE  p[i][2] > p[j][2]
    <2>1. p[i][2] = t - i + 1 /\ p[j][2] = t - j + 1 /\ i \in Int /\ j \in Int
      BY <1>9
    <2> QED BY <1>3, <1>13, <2>1
  <1>14. ASSUME NEW n \in Lowest(c)..t
         PROVE  <<w, n>> \in ToSet(p)
    <2>1. n >= b /\ n <= t /\ n \in Int
      BY <1>3, <1>4, <1>5 DEF Lowest, Null, Undefined
    <2>2. t - n + 1 \in DOMAIN p /\ p[t - n + 1] = <<w, n>>
      <3>1. t - n + 1 \in 1..(t - b + 1) /\ t - (t - n + 1) + 1 = n
        BY <1>3, <1>4, <2>1
      <3> QED BY <1>9, <3>1
    <2> QED BY <2>2 DEF ToSet
  <1> QED BY <1>3, <1>10, <1>11, <1>12, <1>13, <1>14 DEF p, c, t, b

(* Two loads that differ in their marks at most.                           *)
Alike(x, y) ==
  /\ x.wallet = y.wallet /\ x.stage = y.stage /\ x.from = y.from
  /\ x.page = y.page /\ x.next = y.next

(* What Open and Scroll leave of the loads under way: all but the marks.   *)
LEMMA CrowdedAlike ==
  ASSUME ScreenTypes, NEW l \in Busy
  PROVE  Alike(Crowded[l], loads[l]) /\ Alike(Orphaned[l], loads[l])
  <1>1. l \in Slots /\ IsLoad(loads[l])
    BY Loads
  <1>2. Crowded[l] = [loads[l] EXCEPT !.alone = FALSE]
    BY <1>1 DEF Crowded
  <1>3. Orphaned[l] = [Crowded[l] EXCEPT !.scroll = FALSE]
    BY <1>1 DEF Orphaned
  <1>4. Alike(Crowded[l], loads[l]) /\ IsLoad(Crowded[l])
    BY <1>1, <1>2 DEF IsLoad, Alike
  <1>5. Alike(Orphaned[l], Crowded[l])
    BY <1>3, <1>4 DEF IsLoad, Alike
  <1> QED BY <1>4, <1>5 DEF Alike

(* Loads that differ in their marks have read the same.                    *)
LEMMA AlikePages ==
  ASSUME NEW x, NEW y, Alike(x, y), IsPage(y)
  PROVE  IsPage(x)
  BY DEF Alike, IsPage

(* The rows are what they were, and no overlap was forgotten.              *)
LEMMA RowsStay ==
  ASSUME HistoryInv, overlap' \/ ~overlap,
         UNCHANGED <<stored, untold, walletId, cursor, rows, missed, early>>
  PROVE  HistoryTypes' /\ WalletsNotMixed' /\ RowsCover' /\ RowsOrdered' /\ RowsReach'
  BY DEF HistoryInv, HistoryTypes, WalletsNotMixed, RowsCover, RowsOrdered, RowsReach, Clean, Oldest

(* A load begins: it goes on where the rows of its wallet end.             *)
LEMMA BeginKeepsHistory ==
  ASSUME ScreenTypes, HistoryInv, NEW w \in Wallets, NEW scroll \in BOOLEAN, NEW others,
         others = [l \in Slots |-> others[l]],
         \A l \in Slots : IF l \in Busy THEN Alike(others[l], loads[l]) /\ ~others[l].alone
                                        ELSE others[l] = Free,
         BeginLoad(w, scroll, others), w = walletId => cursor # Null, NoteOverlap,
         UNCHANGED <<stored, untold, walletId, cursor, rows, missed, early>>
  PROVE  HistoryInv'
  <1> DEFINE from == IF w = walletId THEN cursor ELSE Undefined
             new == [wallet |-> w, scroll |-> scroll, alone |-> Busy = {}, stage |-> "query",
                     from |-> from, page |-> <<>>, next |-> Undefined]
  <1>1. PICK l \in Slots : loads' = [others EXCEPT ![l] = new]
    BY DEF BeginLoad
  <1>2. loads'[l] = new /\ \A x \in Slots : x # l => loads'[x] = others[x]
    BY <1>1
  <1>3. from \in {Undefined} \cup 1..MaxTxs
    BY DEF HistoryInv, HistoryTypes
  <1>4. \A x \in Busy' : x = l \/ (x \in Busy /\ Alike(loads'[x], loads[x]) /\ ~loads'[x].alone)
    BY <1>2 DEF Busy
  <1>5. overlap' \/ ~overlap
    BY DEF NoteOverlap
  <1>6. PagesRead'
    <2> SUFFICES ASSUME NEW x \in Busy'
                 PROVE  /\ loads'[x].stage \in Stages
                        /\ loads'[x].from \in {Undefined} \cup 1..MaxTxs
                        /\ loads'[x].stage = "query" => loads'[x].page = <<>>
                        /\ loads'[x].stage = "read" => IsPage(loads'[x])
      BY DEF PagesRead, IsPage, Lowest
    <2>1. CASE x = l
      BY <1>2, <1>3, <2>1 DEF Stages
    <2>2. CASE x # l
      <3>1. x \in Busy /\ Alike(loads'[x], loads[x])
        BY <1>4, <2>2
      <3>2. loads[x].stage = "read" => IsPage(loads[x])
        BY <3>1 DEF HistoryInv, PagesRead
      <3>3. loads'[x].stage = "read" => IsPage(loads'[x])
        BY <3>1, <3>2, AlikePages DEF Alike
      <3> QED BY <3>1, <3>3 DEF HistoryInv, PagesRead, Alike
    <2> QED BY <2>1, <2>2
  <1>7. GoesOn'
    BY <1>2, <1>4 DEF GoesOn
  <1> QED BY <1>5, <1>6, <1>7, RowsStay DEF HistoryInv

(* Opening a wallet changes no row.                                        *)
LEMMA OpenKeepsHistory ==
  ASSUME ScreenTypes, HistoryInv, NEW w \in Wallets, Open(w)
  PROVE  HistoryInv'
  <1>1. /\ UNCHANGED <<stored, untold, walletId, cursor, rows, missed, early>>
        /\ NoteOverlap
    BY DEF Open, storage, slice
  <1>2. CASE ~Satisfied(w, TRUE)
    <2>1. BeginLoad(w, FALSE, Orphaned) /\ w # walletId
      BY <1>2 DEF Open, Satisfied
    <2>2. \A l \in Slots : IF l \in Busy THEN Alike(Orphaned[l], loads[l]) /\ ~Orphaned[l].alone
                                         ELSE Orphaned[l] = Free
      BY CrowdedAlike, CrowdedLoads
    <2>3. Orphaned = [l \in Slots |-> Orphaned[l]]
      BY CrowdedLoads
    <2> QED BY <1>1, <2>1, <2>2, <2>3, BeginKeepsHistory
  <1>3. CASE Satisfied(w, TRUE)
    <2>1. loads' = Orphaned
      BY <1>3 DEF Open
    <2>2. \A x \in Busy' : x \in Busy /\ Alike(loads'[x], loads[x]) /\ ~loads'[x].alone
      BY <2>1, CrowdedAlike, CrowdedLoads DEF Busy
    <2>3. PagesRead'
      <3> SUFFICES ASSUME NEW x \in Busy'
                   PROVE  /\ loads'[x].stage \in Stages
                          /\ loads'[x].from \in {Undefined} \cup 1..MaxTxs
                          /\ loads'[x].stage = "query" => loads'[x].page = <<>>
                          /\ loads'[x].stage = "read" => IsPage(loads'[x])
        BY DEF PagesRead, IsPage, Lowest
      <3>1. x \in Busy /\ Alike(loads'[x], loads[x])
        BY <2>2
      <3>2. loads[x].stage = "read" => IsPage(loads[x])
        BY <3>1 DEF HistoryInv, PagesRead
      <3>3. loads'[x].stage = "read" => IsPage(loads'[x])
        BY <3>1, <3>2, AlikePages DEF Alike
      <3> QED BY <3>1, <3>3 DEF HistoryInv, PagesRead, Alike
    <2>4. GoesOn'
      BY <2>2 DEF GoesOn
    <2>5. overlap' \/ ~overlap
      BY <1>1 DEF NoteOverlap
    <2> QED BY <1>1, <2>3, <2>4, <2>5, RowsStay DEF HistoryInv
  <1> QED BY <1>2, <1>3

(* Scrolling asks for the page below the rows.                             *)
LEMMA ScrollKeepsHistory ==
  ASSUME ScreenTypes, HistoryInv, Scroll
  PROVE  HistoryInv'
  <1>1. PICK w \in Wallets : w = open
    BY DEF Scroll, ScreenTypes
  <1>2. /\ BeginLoad(w, TRUE, Crowded) /\ NoteOverlap /\ cursor # Null
        /\ UNCHANGED <<stored, untold, walletId, cursor, rows, missed, early>>
    BY <1>1 DEF Scroll, storage, slice
  <1>3. \A l \in Slots : IF l \in Busy THEN Alike(Crowded[l], loads[l]) /\ ~Crowded[l].alone
                                       ELSE Crowded[l] = Free
    BY CrowdedAlike, CrowdedLoads
  <1>4. Crowded = [l \in Slots |-> Crowded[l]]
    BY CrowdedLoads
  <1> QED BY <1>2, <1>3, <1>4, BeginKeepsHistory

(* A page is read: of another wallet, it has all there is.                 *)
LEMMA ReadKeepsHistory ==
  ASSUME ScreenTypes, HistoryInv, NEW l \in Slots, Read(l)
  PROVE  HistoryInv'
  <1> DEFINE load == loads[l]
  <1>1. /\ l \in Busy /\ IsLoad(load) /\ load.wallet \in Wallets
        /\ load.from \in {Undefined} \cup 1..MaxTxs
    <2>1. l \in Busy
      BY DEF Read
    <2> QED BY <2>1, Loads DEF HistoryInv, PagesRead, IsLoad
  <1>2. /\ loads' = [loads EXCEPT ![l] = [load EXCEPT !.stage = "read",
                                             !.page = Page(load.wallet, load.from),
                                             !.next = After(load.wallet, load.from)]]
        /\ UNCHANGED <<stored, untold, walletId, cursor, rows, missed, early, overlap>>
    BY DEF Read, storage, slice, past
  <1>3. /\ loads'[l].wallet = load.wallet /\ loads'[l].from = load.from
        /\ loads'[l].alone = load.alone /\ loads'[l].stage = "read"
        /\ loads'[l].page = Page(load.wallet, load.from)
        /\ loads'[l].next = After(load.wallet, load.from)
        /\ \A x \in Slots : x # l => loads'[x] = loads[x]
    BY <1>1, <1>2 DEF IsLoad, ScreenTypes
  <1>4. Busy' \subseteq Busy
    BY <1>1, <1>3 DEF Busy
  <1>5. LET p == loads'[l].page
            c == loads'[l].next
        IN  /\ p \in Seq(Txs) /\ c \in {Null} \cup 1..MaxTxs
            /\ c <= Top(load.wallet, load.from)
            /\ \A i \in DOMAIN p : /\ p[i][1] = load.wallet /\ p[i][2] >= c
                                   /\ p[i][2] <= Top(load.wallet, load.from)
            /\ \A i, j \in DOMAIN p : i < j => p[i][2] > p[j][2]
            /\ \A n \in Lowest(c)..Top(load.wallet, load.from) :
                 <<load.wallet, n>> \in ToSet(p)
            /\ Top(load.wallet, load.from)
                 = IF load.from = Undefined THEN stored[load.wallet] ELSE load.from - 1
    BY <1>1, <1>3, PageGiven DEF HistoryInv
  <1> HIDE DEF load
  <1>6. IsPage(loads'[l])
    <2>1. load.from # Undefined =>
            \A i \in DOMAIN loads'[l].page : loads'[l].page[i][2] < load.from
      <3> SUFFICES ASSUME load.from # Undefined, NEW i \in DOMAIN loads'[l].page
                   PROVE  loads'[l].page[i][2] < load.from
        OBVIOUS
      <3>1. loads'[l].page[i][2] <= load.from - 1 /\ loads'[l].page[i] \in Txs
        BY <1>5
      <3> QED BY <1>1, <3>1 DEF Txs
    <2>2. load.from # Undefined => loads'[l].next < load.from
      BY <1>1, <1>5, ScreenBounds DEF Null
    <2> QED BY <1>3, <1>5, <2>1, <2>2 DEF IsPage
  <1>7. PagesRead'
    <2> SUFFICES ASSUME NEW x \in Busy'
                 PROVE  /\ loads'[x].stage \in Stages
                        /\ loads'[x].from \in {Undefined} \cup 1..MaxTxs
                        /\ loads'[x].stage = "query" => loads'[x].page = <<>>
                        /\ loads'[x].stage = "read" => IsPage(loads'[x])
      BY DEF PagesRead, IsPage, Lowest
    <2>1. CASE x = l
      BY <1>1, <1>3, <1>6, <2>1 DEF Stages
    <2>2. CASE x # l
      BY <1>3, <1>4, <2>2 DEF HistoryInv, PagesRead, Busy
    <2> QED BY <2>1, <2>2
  <1>8. GoesOn'
    <2> SUFFICES ASSUME NEW x \in Busy', loads'[x].alone
                 PROVE  /\ loads'[x].from = IF loads'[x].wallet = walletId THEN cursor ELSE Undefined
                        /\ (loads'[x].wallet # walletId /\ loads'[x].stage = "read") =>
                             \A n \in Lowest(loads'[x].next)..stored[loads'[x].wallet] :
                               <<loads'[x].wallet, n>> \in ToSet(loads'[x].page) \cup untold \cup missed
      BY <1>2 DEF GoesOn, Lowest
    <2>1. CASE x = l
      <3>1. load.from = IF load.wallet = walletId THEN cursor ELSE Undefined
        BY <1>1, <1>3, <2>1 DEF HistoryInv, GoesOn, load
      <3> QED BY <1>3, <1>5, <2>1, <3>1
    <2>2. CASE x # l
      BY <1>3, <1>4, <2>2 DEF HistoryInv, GoesOn, Busy
    <2> QED BY <2>1, <2>2
  <1> QED BY <1>2, <1>7, <1>8, RowsStay DEF HistoryInv

(* A load that fails leaves the rows and the other loads.                  *)
LEMMA FailsKeepsHistory ==
  ASSUME ScreenTypes, HistoryInv, NEW l \in Slots, LoadFails(l)
  PROVE  HistoryInv'
  <1>1. UNCHANGED <<stored, untold, walletId, cursor, rows, missed, early, overlap>>
    BY DEF LoadFails, storage, slice
  <1>2. Busy' \subseteq Busy /\ \A x \in Busy' : loads'[x] = loads[x]
    BY Freed DEF LoadFails
  <1>3. PagesRead' /\ GoesOn'
    BY <1>1, <1>2 DEF HistoryInv, PagesRead, GoesOn, IsPage, Lowest
  <1> QED BY <1>1, <1>3, RowsStay DEF HistoryInv

(* The page of an overlapping load leaves the rows to be loaded anew.      *)
LEMMA LoadedKeepsHistory ==
  ASSUME Inv, HistoryInv, NEW l \in Slots, Loaded(l)
  PROVE  HistoryInv'
  <1> DEFINE load == loads[l]
             w == loads[l].wallet
             page == loads[l].page
             next == loads[l].next
             from == loads[l].from
  <1>1. l \in Busy /\ IsLoad(load) /\ w \in Wallets /\ w # NoWallet /\ load.stage = "read"
    <2>1. l \in Busy /\ load.stage = "read"
      BY DEF Loaded
    <2> QED BY <2>1, Loads, ScreenBounds DEF Inv, IsLoad
  <1>2. /\ IsPage(load) /\ from \in {Undefined} \cup 1..MaxTxs
        /\ page \in Seq(Txs) /\ next \in {Null} \cup 1..MaxTxs
        /\ \A i \in DOMAIN page : page[i][1] = w /\ page[i][2] >= next
        /\ \A i, j \in DOMAIN page : i < j => page[i][2] > page[j][2]
    BY <1>1 DEF HistoryInv, PagesRead, IsPage
  <1>3. /\ rows' = IF walletId = w THEN rows \o page ELSE page
        /\ walletId' = w /\ cursor' = next
        /\ missed' = missed \ ToSet(page)
        /\ early' = IF walletId = w THEN early ELSE {}
        /\ overlap' = (overlap /\ ~(load.alone /\ walletId # w))
        /\ UNCHANGED <<stored, untold>>
    BY DEF Loaded, Load, storage
  <1>4. Busy' = Busy \ {l} /\ \A x \in Busy' : loads'[x] = loads[x]
    BY Freed DEF Loaded, Inv
  <1>t. /\ rows \in Seq(Txs) /\ stored \in [Wallets -> 0..MaxTxs] /\ MaxTxs \in Nat
        /\ missed \subseteq Txs /\ early \subseteq Txs
    BY ScreenBounds DEF HistoryInv, HistoryTypes
  <1>5. PagesRead'
    BY <1>4 DEF HistoryInv, PagesRead, IsPage, Lowest
  <1>6. GoesOn'
    <2>1. \A x \in Busy' : ~loads'[x].alone
      BY <1>1, <1>4 DEF Inv, AloneIsOpen
    <2> QED BY <2>1 DEF GoesOn
  <1> HIDE DEF load, w, page, next, from
  <1>7. HistoryTypes'
    <2>1. rows' \in Seq(Txs)
      BY <1>2, <1>3, <1>t
    <2>2. cursor' \in {Undefined, Null} \cup 1..MaxTxs /\ cursor' # Undefined
      BY <1>2, <1>3, <1>t DEF Undefined, Null
    <2> QED BY <1>1, <1>3, <1>t, <2>1, <2>2 DEF HistoryInv, HistoryTypes
  <1>8. WalletsNotMixed'
    <2> SUFFICES ASSUME NEW i \in DOMAIN rows' PROVE rows'[i][1] = w
      BY <1>3 DEF WalletsNotMixed
    <2>1. CASE walletId = w
      <3>1. rows' = rows \o page
        BY <1>3, <2>1
      <3>2. CASE i \in DOMAIN rows
        <4>1. rows'[i] = rows[i]
          BY <1>2, <1>t, <3>1, <3>2
        <4> QED BY <2>1, <3>2, <4>1 DEF HistoryInv, WalletsNotMixed
      <3>3. CASE i \notin DOMAIN rows
        <4>1. rows'[i] = page[i - Len(rows)] /\ i - Len(rows) \in DOMAIN page
          BY <1>2, <1>t, <3>1, <3>3
        <4> QED BY <1>2, <4>1
      <3> QED BY <3>2, <3>3
    <2>2. CASE walletId # w
      BY <1>2, <1>3, <2>2
    <2> QED BY <2>1, <2>2
  <1>9. RowsCover' /\ RowsOrdered' /\ RowsReach'
    <2> SUFFICES ASSUME ~overlap' PROVE RowsCover' /\ RowsOrdered' /\ RowsReach'
      BY DEF RowsCover, RowsOrdered, RowsReach, Clean
    <2>1. load.alone
      BY <1>1, <1>3 DEF Inv, AloneWithoutOverlap, load
    <2>2. from = IF w = walletId THEN cursor ELSE Undefined
      BY <1>1, <2>1 DEF HistoryInv, GoesOn, load, w, from
    <2>3. Oldest' = Lowest(next)
      BY <1>3 DEF Oldest, Lowest
    <2>4. CASE walletId # w
      <3>1. rows' = page /\ early' = {} /\ missed' = missed \ ToSet(page)
        BY <1>3, <2>4
      <3>2. \A n \in Lowest(next)..stored[w] : <<w, n>> \in ToSet(page) \cup untold \cup missed
        BY <1>1, <2>1, <2>4 DEF HistoryInv, GoesOn, load, w, page, next
      <3>3. RowsCover'
        BY <1>3, <2>3, <3>1, <3>2 DEF RowsCover
      <3> QED BY <1>2, <1>3, <3>1, <3>3 DEF RowsOrdered, RowsReach
    <2>5. CASE walletId = w
      <3>1. rows' = rows \o page /\ early' = early /\ ~overlap /\ Clean
        BY <1>1, <1>3, <2>5 DEF Clean
      <3>2. from = cursor /\ cursor \in 1..MaxTxs /\ Oldest = cursor
        <4>1. cursor # Undefined
          BY <1>1, <2>5 DEF HistoryInv, HistoryTypes
        <4>2. cursor \in 1..MaxTxs
          BY <1>2, <2>2, <2>5, <4>1
        <4> QED BY <1>t, <2>2, <2>5, <4>2 DEF Oldest, Null, Undefined
      <3>3. /\ next < cursor
            /\ \A i \in DOMAIN page : page[i][2] < cursor
            /\ \A n \in Lowest(next)..(cursor - 1) : <<w, n>> \in ToSet(page)
        <4>1. from # Undefined
          BY <1>t, <3>2 DEF Undefined
        <4> QED BY <1>2, <3>2, <4>1 DEF IsPage, load, w, page, next, from
      <3>4. ToSet(rows \o page) = ToSet(rows) \cup ToSet(page)
        <4>1. \A i \in DOMAIN rows : i \in DOMAIN (rows \o page) /\ (rows \o page)[i] = rows[i]
          BY <1>2, <1>t
        <4>2. \A i \in DOMAIN page : /\ i + Len(rows) \in DOMAIN (rows \o page)
                                      /\ (rows \o page)[i + Len(rows)] = page[i]
          BY <1>2, <1>t
        <4>3. \A i \in DOMAIN (rows \o page) :
                \/ i \in DOMAIN rows /\ (rows \o page)[i] = rows[i]
                \/ i - Len(rows) \in DOMAIN page /\ (rows \o page)[i] = page[i - Len(rows)]
          BY <1>2, <1>t
        <4> QED BY <4>1, <4>2, <4>3 DEF ToSet
      <3>5. RowsCover'
        <4> SUFFICES ASSUME NEW n \in Lowest(next)..stored[w]
                     PROVE  <<w, n>> \in ToSet(rows') \cup untold \cup missed'
          BY <1>3, <2>3 DEF RowsCover
        <4>1. n \in Int /\ n >= Lowest(next) /\ n <= stored[w]
          BY <1>1, <1>2, <1>t DEF Lowest, Null, Undefined
        <4>2. CASE n < cursor
          BY <1>t, <3>1, <3>2, <3>3, <3>4, <4>1, <4>2 DEF Lowest
        <4>3. CASE n >= cursor
          <5>1. n \in Oldest..stored[walletId]
            BY <1>1, <1>t, <2>5, <3>2, <4>1, <4>3
          <5>2. <<walletId, n>> \in ToSet(rows) \cup untold \cup missed
            BY <3>1, <5>1 DEF HistoryInv, RowsCover
          <5> QED BY <1>3, <2>5, <3>1, <3>4, <5>2
        <4> QED BY <1>t, <3>2, <4>1, <4>2, <4>3
      <3>6. ASSUME NEW i \in DOMAIN rows'
            PROVE  \/ /\ i \in DOMAIN rows /\ rows'[i] = rows[i]
                      /\ rows'[i] \notin early => rows'[i][2] >= cursor
                   \/ /\ i - Len(rows) \in DOMAIN page /\ rows'[i] = page[i - Len(rows)]
                      /\ rows'[i][2] < cursor
        <4>1. CASE i \in DOMAIN rows
          <5>1. rows'[i] = rows[i]
            BY <1>2, <1>t, <3>1, <4>1
          <5> QED BY <3>1, <4>1, <5>1 DEF HistoryInv, RowsReach
        <4>2. CASE i \notin DOMAIN rows
          <5>1. rows'[i] = page[i - Len(rows)] /\ i - Len(rows) \in DOMAIN page
            BY <1>2, <1>t, <3>1, <4>2
          <5> QED BY <3>3, <5>1
        <4> QED BY <4>1, <4>2
      <3>7. \A i \in DOMAIN rows' : rows'[i][2] \in Int
        <4>1. rows' \in Seq(Txs)
          BY <1>7 DEF HistoryTypes
        <4> QED BY <4>1 DEF Txs
      <3>8. cursor \in Int /\ next \in Int /\ next < cursor
        BY <1>2, <1>t, <3>2, <3>3 DEF Null
      <3>9. RowsReach'
        <4> SUFFICES ASSUME NEW i \in DOMAIN rows', rows'[i] \notin early
                     PROVE  rows'[i][2] >= next
          BY <1>3, <3>1 DEF RowsReach
        <4> QED BY <1>2, <3>6, <3>7, <3>8
      <3>10. RowsOrdered'
        <4> SUFFICES ASSUME NEW i \in DOMAIN rows', NEW j \in DOMAIN rows', i < j,
                            rows'[i] \notin early, rows'[j] \notin early
                     PROVE  rows'[i][2] > rows'[j][2]
          BY <3>1 DEF RowsOrdered
        <4>1. CASE i \in DOMAIN rows /\ j \in DOMAIN rows
          <5>1. rows'[i] = rows[i] /\ rows'[j] = rows[j]
            BY <1>2, <1>t, <3>1, <4>1
          <5> QED BY <3>1, <4>1, <5>1 DEF HistoryInv, RowsOrdered
        <4>2. CASE i \in DOMAIN rows /\ j \notin DOMAIN rows
          <5>1. rows'[i][2] >= cursor /\ rows'[j][2] < cursor
            <6>1. rows'[i] = rows[i]
              BY <1>2, <1>t, <3>1, <4>2
            <6>2. rows[i][2] >= cursor
              BY <3>1, <4>2, <6>1 DEF HistoryInv, RowsReach
            <6> QED BY <3>6, <4>2, <6>1, <6>2
          <5> QED BY <3>7, <3>8, <5>1
        <4>3. CASE i \notin DOMAIN rows
          <5>1. /\ i - Len(rows) \in DOMAIN page /\ rows'[i] = page[i - Len(rows)]
                /\ j - Len(rows) \in DOMAIN page /\ rows'[j] = page[j - Len(rows)]
                /\ i - Len(rows) < j - Len(rows)
            BY <1>2, <1>t, <3>1, <4>3
          <5> QED BY <1>2, <5>1
        <4> QED BY <4>1, <4>2, <4>3
      <3> QED BY <3>5, <3>9, <3>10
    <2> QED BY <2>4, <2>5
  <1> QED BY <1>5, <1>6, <1>7, <1>8, <1>9 DEF HistoryInv

(* What is stored is to be announced.                                      *)
LEMMA StoreKeepsHistory ==
  ASSUME ScreenTypes, HistoryInv, NEW w \in Wallets, Store(w)
  PROVE  HistoryInv'
  <1>1. /\ stored[w] < MaxTxs
        /\ stored' = [stored EXCEPT ![w] = @ + 1]
        /\ untold' = untold \cup {<<w, stored[w] + 1>>}
        /\ UNCHANGED <<walletId, cursor, rows, loads, overlap, missed, early>>
    BY DEF Store, slice, past
  <1>2. Busy' = Busy
    BY <1>1 DEF Busy
  <1>3. stored \in [Wallets -> 0..MaxTxs] /\ MaxTxs \in Nat
    BY ScreenBounds DEF HistoryInv, HistoryTypes
  <1>4. HistoryTypes'
    <2>1. <<w, stored[w] + 1>> \in Txs /\ stored[w] + 1 \in 0..MaxTxs
      BY <1>1, <1>3 DEF Txs
    <2>2. stored' \in [Wallets -> 0..MaxTxs]
      BY <1>1, <1>3, <2>1
    <2> QED BY <1>1, <2>1, <2>2 DEF HistoryInv, HistoryTypes
  <1>5. ASSUME NEW v \in Wallets, NEW c, c \in Nat, NEW n \in c..stored'[v]
        PROVE  n \in c..stored[v] \/ <<v, n>> \in untold'
    <2>1. stored'[v] = IF v = w THEN stored[w] + 1 ELSE stored[v]
      BY <1>1, <1>3
    <2> QED BY <1>1, <1>3, <1>5, <2>1
  <1>6. RowsCover'
    <2> SUFFICES ASSUME Clean, NEW n \in Oldest..stored'[walletId]
                 PROVE  <<walletId, n>> \in ToSet(rows) \cup untold' \cup missed
      BY <1>1 DEF RowsCover, Clean, Oldest
    <2>1. walletId \in Wallets /\ Oldest \in Nat
      BY <1>3 DEF Clean, HistoryInv, HistoryTypes, Oldest, Null, Undefined
    <2>2. n \in Oldest..stored[walletId] \/ <<walletId, n>> \in untold'
      BY <1>5, <2>1
    <2> QED BY <1>1, <2>2 DEF HistoryInv, RowsCover
  <1>7. GoesOn'
    <2> SUFFICES ASSUME NEW l \in Busy, loads[l].alone
                 PROVE  /\ loads[l].from = IF loads[l].wallet = walletId THEN cursor ELSE Undefined
                        /\ (loads[l].wallet # walletId /\ loads[l].stage = "read") =>
                             \A n \in Lowest(loads[l].next)..stored'[loads[l].wallet] :
                               <<loads[l].wallet, n>> \in ToSet(loads[l].page) \cup untold' \cup missed
      BY <1>1, <1>2 DEF GoesOn, Lowest
    <2>1. loads[l].from = IF loads[l].wallet = walletId THEN cursor ELSE Undefined
      BY DEF HistoryInv, GoesOn
    <2>2. ASSUME loads[l].wallet # walletId, loads[l].stage = "read",
                 NEW n \in Lowest(loads[l].next)..stored'[loads[l].wallet]
          PROVE  <<loads[l].wallet, n>> \in ToSet(loads[l].page) \cup untold' \cup missed
      <3>1. loads[l].next \in {Null} \cup 1..MaxTxs
        BY <2>2 DEF HistoryInv, PagesRead, IsPage
      <3>2. Lowest(loads[l].next) \in Nat
        BY <1>3, <3>1 DEF Lowest, Null
      <3>3. loads[l].wallet \in Wallets
        BY Loads DEF IsLoad
      <3>4. \/ n \in Lowest(loads[l].next)..stored[loads[l].wallet]
            \/ <<loads[l].wallet, n>> \in untold'
        BY <1>5, <2>2, <3>2, <3>3
      <3>5. \A m \in Lowest(loads[l].next)..stored[loads[l].wallet] :
              <<loads[l].wallet, m>> \in ToSet(loads[l].page) \cup untold \cup missed
        BY <2>2 DEF HistoryInv, GoesOn
      <3> QED BY <1>1, <3>4, <3>5
    <2> QED BY <2>1, <2>2
  <1>8. PagesRead' /\ WalletsNotMixed' /\ RowsOrdered' /\ RowsReach'
    BY <1>1, <1>2 DEF HistoryInv, PagesRead, WalletsNotMixed, RowsOrdered, RowsReach, Clean, IsPage, Lowest
  <1> QED BY <1>4, <1>6, <1>7, <1>8 DEF HistoryInv

(* The rows with a transaction among them, sorted.                         *)
LEMMA InsertedRows ==
  ASSUME HistoryInv, NEW tx \in Txs, tx[1] = walletId
  PROVE  /\ Inserted(tx) \in Seq(Txs)
         /\ ToSet(Inserted(tx)) = ToSet(rows) \cup {tx}
         /\ Clean =>
              \A i, j \in DOMAIN Inserted(tx) :
                (i < j /\ {Inserted(tx)[i], Inserted(tx)[j]} \cap early = {})
                  => Inserted(tx)[i][2] > Inserted(tx)[j][2]
  <1> DEFINE s == IF tx \in ToSet(rows) THEN rows ELSE Append(rows, tx)
             D == DOMAIN s
  <1>1. rows \in Seq(Txs)
    BY DEF HistoryInv, HistoryTypes
  <1>2. s \in Seq(Txs)
    BY <1>1
  <1>3. ToSet(s) = ToSet(rows) \cup {tx}
    <2>1. CASE tx \in ToSet(rows)
      BY <2>1
    <2>2. CASE tx \notin ToSet(rows)
      <3>1. s = Append(rows, tx)
        BY <2>2
      <3>2. /\ DOMAIN s = DOMAIN rows \cup {Len(rows) + 1}
            /\ \A i \in DOMAIN rows : s[i] = rows[i]
            /\ s[Len(rows) + 1] = tx
        BY <1>1, <3>1
      <3> QED BY <3>2 DEF ToSet
    <2> QED BY <2>1, <2>2
  <1>4. Inserted(tx) = Sorted(s)
    BY DEF Inserted
  <1> HIDE DEF s
  <1>5. /\ Sorted(s) \in Seq(Txs)
        /\ \E f \in [D -> D] :
             /\ \A i, j \in D : f[i] = f[j] => i = j
             /\ \A i \in D : \E n \in D : f[n] = i
             /\ Sorted(s) = [n \in D |-> s[f[n]]]
             /\ \A m, n \in D : m < n => s[f[m]][2] >= s[f[n]][2]
    BY <1>2, SortedRows
  <1>6. PICK f \in [D -> D] :
          /\ \A i, j \in D : f[i] = f[j] => i = j
          /\ \A i \in D : \E n \in D : f[n] = i
          /\ Sorted(s) = [n \in D |-> s[f[n]]]
          /\ \A m, n \in D : m < n => s[f[m]][2] >= s[f[n]][2]
    BY <1>5
  <1>7. ASSUME Clean, NEW a \in D, NEW b \in D, a < b, s[a] \notin early, s[b] \notin early
        PROVE  s[a][2] # s[b][2]
    <2>1. D = 1..Len(s) /\ \A i \in D : s[i] \in Txs
      BY <1>2
    <2>2. CASE tx \in ToSet(rows)
      <3>1. rows[a][2] > rows[b][2]
        BY <1>7, <2>2 DEF HistoryInv, RowsOrdered, s
      <3>2. rows[a][2] \in Int /\ rows[b][2] \in Int
        BY <1>1, <1>7, <2>2 DEF Txs, s
      <3> QED BY <2>2, <3>1, <3>2 DEF s
    <2>3. CASE tx \notin ToSet(rows)
      <3>1. s = Append(rows, tx) /\ D = 1..(Len(rows) + 1) /\ Len(rows) \in Nat
        BY <1>1, <2>3 DEF s
      <3>2. a \in DOMAIN rows /\ s[a] = rows[a] /\ s[a] \in Txs
        BY <1>1, <1>7, <2>1, <3>1
      <3>3. CASE b \in DOMAIN rows
        <4>1. s[b] = rows[b] /\ rows[b] \in Txs
          BY <1>1, <3>1, <3>3
        <4>2. rows[a][2] > rows[b][2]
          BY <1>7, <3>2, <3>3, <4>1 DEF HistoryInv, RowsOrdered
        <4>3. rows[a][2] \in Int /\ rows[b][2] \in Int
          BY <3>2, <4>1 DEF Txs
        <4> QED BY <3>2, <4>1, <4>2, <4>3
      <3>4. CASE b \notin DOMAIN rows
        <4>1. s[b] = tx
          BY <1>1, <1>7, <3>1, <3>4
        <4>2. s[a][1] = walletId /\ s[a] # tx
          BY <2>3, <3>2 DEF HistoryInv, WalletsNotMixed, ToSet
        <4> QED BY <3>2, <4>1, <4>2 DEF Txs
      <3> QED BY <3>3, <3>4
    <2> QED BY <2>2, <2>3
  <1>8. \A i \in D : s[i] \in Txs
    BY <1>2
  <1>9. D \subseteq Int
    BY <1>2
  <1> HIDE DEF D
  <1>10. ToSet(Sorted(s)) = ToSet(s)
    BY <1>6 DEF ToSet, D
  <1>11. ASSUME Clean, NEW i \in D, NEW j \in D, i < j, s[f[i]] \notin early, s[f[j]] \notin early
         PROVE  s[f[i]][2] > s[f[j]][2]
    <2>1. f[i] \in D /\ f[j] \in D /\ i # j
      BY <1>6, <1>9, <1>11
    <2>2. f[i] # f[j]
      BY <1>6, <2>1
    <2>0. f[i] \in Int /\ f[j] \in Int
      BY <1>9, <2>1
    <2>3. f[i] < f[j] \/ f[j] < f[i]
      BY <2>0, <2>2
    <2>4. s[f[i]][2] # s[f[j]][2]
      BY <1>7, <1>11, <2>1, <2>3
    <2>5. s[f[i]][2] >= s[f[j]][2]
      BY <1>6, <1>11
    <2>6. s[f[i]][2] \in Int /\ s[f[j]][2] \in Int
      BY <1>8, <2>1 DEF Txs
    <2> QED BY <2>4, <2>5, <2>6
  <1>12. /\ DOMAIN Sorted(s) = D /\ \A n \in D : Sorted(s)[n] = s[f[n]]
    BY <1>6
  <1>13. ASSUME Clean, NEW i \in DOMAIN Sorted(s), NEW j \in DOMAIN Sorted(s), i < j,
                {Sorted(s)[i], Sorted(s)[j]} \cap early = {}
         PROVE  Sorted(s)[i][2] > Sorted(s)[j][2]
    <2>1. s[f[i]] = Sorted(s)[i] /\ s[f[j]] = Sorted(s)[j] /\ i \in D /\ j \in D
      BY <1>12, <1>13
    <2>2. s[f[i]] \notin early /\ s[f[j]] \notin early
      BY <1>13, <2>1
    <2> QED BY <1>11, <1>13, <2>1, <2>2
  <1> QED BY <1>3, <1>4, <1>5, <1>10, <1>13

(* What is announced is a row, or was passed over by a page on its way.    *)
LEMMA AnnounceKeepsHistory ==
  ASSUME HistoryInv, NEW tx \in Txs, Announce(tx)
  PROVE  HistoryInv'
  <1>1. /\ untold' = untold \ {tx}
        /\ rows' = IF walletId = tx[1] THEN Inserted(tx) ELSE rows
        /\ missed' = IF walletId # tx[1] /\ \E l \in Busy : PassedOver(tx, loads[l])
                       THEN missed \cup {tx} ELSE missed
        /\ early' = IF walletId = tx[1] /\ cursor # Null /\ tx[2] < cursor
                      THEN early \cup {tx} ELSE early
        /\ UNCHANGED <<stored, walletId, cursor, loads, overlap>>
    BY DEF Announce
  <1>2. Busy' = Busy
    BY <1>1 DEF Busy
  <1>3. rows \in Seq(Txs) /\ tx = <<tx[1], tx[2]>> /\ tx[2] \in Nat
    BY DEF HistoryInv, HistoryTypes, Txs
  <1>4. walletId = tx[1] =>
          /\ rows' \in Seq(Txs)
          /\ ToSet(rows') = ToSet(rows) \cup {tx}
          /\ Clean => \A i, j \in DOMAIN rows' :
                        (i < j /\ {rows'[i], rows'[j]} \cap early = {}) => rows'[i][2] > rows'[j][2]
    BY <1>1, InsertedRows
  <1>5. HistoryTypes'
    BY <1>1, <1>3, <1>4 DEF HistoryInv, HistoryTypes
  <1>6. PagesRead'
    BY <1>1, <1>2 DEF HistoryInv, PagesRead, IsPage, Lowest
  <1>7. ASSUME NEW i \in DOMAIN rows'
        PROVE  rows'[i] \in ToSet(rows) \/ (walletId = tx[1] /\ rows'[i] = tx)
    <2>1. rows'[i] \in ToSet(rows')
      BY DEF ToSet
    <2> QED BY <1>1, <1>4, <2>1
  <1>8. WalletsNotMixed'
    BY <1>1, <1>7 DEF HistoryInv, WalletsNotMixed, ToSet
  <1>9. GoesOn'
    <2> SUFFICES ASSUME NEW l \in Busy, loads[l].alone
                 PROVE  /\ loads[l].from = IF loads[l].wallet = walletId THEN cursor ELSE Undefined
                        /\ (loads[l].wallet # walletId /\ loads[l].stage = "read") =>
                             \A n \in Lowest(loads[l].next)..stored[loads[l].wallet] :
                               <<loads[l].wallet, n>>
                                 \in ToSet(loads[l].page) \cup untold' \cup missed'
      BY <1>1, <1>2 DEF GoesOn, Lowest
    <2>1. loads[l].from = IF loads[l].wallet = walletId THEN cursor ELSE Undefined
      BY DEF HistoryInv, GoesOn
    <2>2. ASSUME loads[l].wallet # walletId, loads[l].stage = "read",
                 NEW n \in Lowest(loads[l].next)..stored[loads[l].wallet]
          PROVE  <<loads[l].wallet, n>> \in ToSet(loads[l].page) \cup untold' \cup missed'
      <3>1. <<loads[l].wallet, n>> \in ToSet(loads[l].page) \cup untold \cup missed
        BY <2>2 DEF HistoryInv, GoesOn
      <3>2. CASE <<loads[l].wallet, n>> = tx /\ tx \notin ToSet(loads[l].page)
        <4>1. tx[1] = loads[l].wallet
          BY <3>2
        <4>2. PassedOver(tx, loads[l])
          BY <2>2, <3>2, <4>1 DEF PassedOver
        <4>3. tx \in missed'
          BY <1>1, <2>2, <4>1, <4>2
        <4> QED BY <3>2, <4>3
      <3> QED BY <1>1, <3>1, <3>2
    <2> QED BY <2>1, <2>2
  <1>10. RowsCover'
    <2> SUFFICES ASSUME Clean, NEW n \in Oldest..stored[walletId]
                 PROVE  <<walletId, n>> \in ToSet(rows') \cup untold' \cup missed'
      BY <1>1 DEF RowsCover, Clean, Oldest
    <2>1. <<walletId, n>> \in ToSet(rows) \cup untold \cup missed
      BY DEF HistoryInv, RowsCover
    <2>2. CASE walletId = tx[1]
      BY <1>1, <1>4, <2>1, <2>2
    <2>3. CASE walletId # tx[1]
      <3>1. <<walletId, n>> # tx
        BY <2>3
      <3> QED BY <1>1, <2>1, <2>3, <3>1
    <2> QED BY <2>2, <2>3
  <1>11. RowsReach'
    <2> SUFFICES ASSUME Clean, NEW i \in DOMAIN rows', rows'[i] \notin early'
                 PROVE  rows'[i][2] >= cursor
      BY <1>1 DEF RowsReach, Clean
    <2>1. CASE rows'[i] \in ToSet(rows)
      BY <1>1, <2>1 DEF HistoryInv, RowsReach, ToSet
    <2>2. CASE walletId = tx[1] /\ rows'[i] = tx
      <3>1. ~(cursor # Null /\ tx[2] < cursor)
        BY <1>1, <2>2
      <3>2. cursor \in Int
        BY ScreenBounds DEF HistoryInv, HistoryTypes, Undefined, Null
      <3> QED BY <1>3, <2>2, <3>1, <3>2 DEF Null
    <2> QED BY <1>7, <2>1, <2>2
  <1>12. RowsOrdered'
    <2> SUFFICES ASSUME Clean, NEW i \in DOMAIN rows', NEW j \in DOMAIN rows', i < j,
                        rows'[i] \notin early', rows'[j] \notin early'
                 PROVE  rows'[i][2] > rows'[j][2]
      BY <1>1 DEF RowsOrdered, Clean
    <2>1. rows'[i] \notin early /\ rows'[j] \notin early
      BY <1>1
    <2>2. CASE walletId = tx[1]
      BY <1>4, <2>1, <2>2
    <2>3. CASE walletId # tx[1]
      BY <1>1, <2>1, <2>3 DEF HistoryInv, RowsOrdered
    <2> QED BY <2>2, <2>3
  <1> QED BY <1>5, <1>6, <1>8, <1>9, <1>10, <1>11, <1>12 DEF HistoryInv

(* The screen opens without rows.                                          *)
LEMMA InitHistory == Init => HistoryInv
  <1> SUFFICES ASSUME Init PROVE HistoryInv
    OBVIOUS
  <1>1. Busy = {}
    BY DEF Init, Busy
  <1>2. HistoryTypes
    <2>1. stored \in [Wallets -> 0..MaxTxs]
      BY ScreenBounds DEF Init
    <2> QED BY <2>1 DEF Init, HistoryTypes
  <1> QED
    BY <1>1, <1>2
       DEF HistoryInv, PagesRead, GoesOn, WalletsNotMixed, RowsCover, RowsOrdered, RowsReach,
           Clean, Init

(* Every step keeps what is said of the loads and of the rows.             *)
LEMMA NextKeepsHistory == Inv /\ HistoryInv /\ [Next]_vars => HistoryInv'
  <1> SUFFICES ASSUME Inv, HistoryInv, [Next]_vars PROVE HistoryInv'
    OBVIOUS
  <1>1. ScreenTypes
    BY DEF Inv
  <1>2. ASSUME NEW w \in Wallets, Open(w) \/ Store(w) PROVE HistoryInv'
    BY <1>1, <1>2, OpenKeepsHistory, StoreKeepsHistory
  <1>3. CASE Scroll
    BY <1>1, <1>3, ScrollKeepsHistory
  <1>4. ASSUME NEW l \in Slots, Read(l) \/ Loaded(l) \/ LoadFails(l) PROVE HistoryInv'
    BY <1>1, <1>4, ReadKeepsHistory, LoadedKeepsHistory, FailsKeepsHistory
  <1>5. ASSUME NEW tx \in Txs, Announce(tx) PROVE HistoryInv'
    BY <1>5, AnnounceKeepsHistory
  <1>6. CASE UNCHANGED vars
    <2>1. UNCHANGED <<stored, untold, walletId, cursor, rows, loads, overlap, missed, early>>
      BY <1>6 DEF vars
    <2>2. Busy' = Busy
      BY <2>1 DEF Busy
    <2>3. PagesRead' /\ GoesOn'
      BY <2>1, <2>2 DEF HistoryInv, PagesRead, GoesOn, IsPage, Lowest
    <2> QED BY <2>1, <2>3, RowsStay DEF HistoryInv
  <1> QED BY <1>2, <1>3, <1>4, <1>5, <1>6 DEF Next

(* Both invariants hold in every state of the screen.                      *)
LEMMA HistoryInvariance == Spec => [](Inv /\ HistoryInv)
  <1>1. Init => Inv /\ HistoryInv
    BY InitInv, InitHistory
  <1>2. Inv /\ HistoryInv /\ [Next]_vars => (Inv /\ HistoryInv)'
    BY NextKeepsInv, NextKeepsHistory
  <1> QED BY <1>1, <1>2, PTL DEF Spec

(* For every set of wallets, page size and number of loads: rows of two    *)
(* wallets are never in the slice together, whichever loads overtake each  *)
(* other and whatever is announced meanwhile.                              *)
THEOREM WalletsStayApart == Spec => []WalletsNotMixed
  <1>1. Inv /\ HistoryInv => WalletsNotMixed
    BY DEF HistoryInv
  <1> QED BY <1>1, HistoryInvariance, PTL

(* For every set of wallets, page size and number of loads: a history that *)
(* was loaded one page at a time has every stored transaction down to the  *)
(* last page, once and newest first, but for those yet to be announced,    *)
(* lost between query and dispatch, or announced before their page.        *)
THEOREM NothingIsLost == Spec => []HistoryComplete
  <1>1. Inv /\ HistoryInv => HistoryComplete
    BY DEF HistoryInv, RowsCover, RowsOrdered, Clean, HistoryComplete
  <1> QED BY <1>1, HistoryInvariance, PTL

------------------------------------------------------------------------------
(* The balances.                                                           *)
Values == {0} \cup Amounts
Numbers == {None} \cup Kept \cup Values
Reports == [asset : Assets, amount : Values]

(* What the argument needs of the types.                                   *)
ValueTypes ==
  /\ balance \in [Assets -> Values]
  /\ setting \subseteq Reports /\ answering \subseteq Reports
  /\ buffer \in [Assets -> Seq(Values)]
  /\ saved \in [Assets -> Numbers] /\ cached \in [Assets -> Numbers]
  /\ listed \in [Assets -> Numbers]
  /\ received \in [Assets -> {None} \cup Values]

Idle(a) == \A s \in InFlight : s.asset # a

(* The balance of an asset without doubt is the only one of it under way,  *)
(* is stored when its thread has answered, and is the last of the buffer   *)
(* or on the screen when nothing is under way.                             *)
Alone(a) ==
  /\ \A s \in InFlight : s.asset = a => s.amount = received[a]
  /\ \A s \in setting : \A t \in answering : s.asset = a => t.asset # a
Landed(a) == \A t \in answering : t.asset = a => saved[a] = received[a]
Arrived(a) ==
  /\ saved[a] = received[a]
  /\ buffer[a] = <<>> => listed[a] = received[a]
  /\ buffer[a] # <<>> => buffer[a][Len(buffer[a])] = received[a]
  /\ received[a] > 0 => a \in priced

Carried(a) == Alone(a) /\ Landed(a) /\ (Idle(a) => Arrived(a))
CarriedAll == \A a \in Assets \ doubt : received[a] # None => Carried(a)

(* What the steps of the server and of the streams leave alone.            *)
pathway == <<saved, setting, answering, buffer, priced, listed, cached, received, doubt>>

(* The types hold at first.                                                *)
LEMMA TypesStart == BalanceInit => ValueTypes
  BY DEF BalanceInit, ValueTypes, Blank, Numbers, Values

(* Every step keeps the types.                                             *)
LEMMA TypesKept ==
  ASSUME ValueTypes, [BalanceNext]_balanceVars
  PROVE  ValueTypes'
  <1> USE DEF ValueTypes
  <1>1. ASSUME pathway' = pathway, balance' = balance PROVE ValueTypes'
    BY <1>1 DEF pathway
  <1>2. CASE SubscribeCoin
    BY <1>1, <1>2 DEF SubscribeCoin, pathway, server, path, screen, remembered
  <1>3. ASSUME NEW tokens \in SUBSET Tokens, TokensNamed(tokens) \/ SetTokens(tokens)
        PROVE  ValueTypes'
    BY <1>1, <1>3 DEF TokensNamed, SetTokens, pathway, server, path, screen, remembered
  <1>4. CASE Reconnect
    BY <1>1, <1>4 DEF Reconnect, pathway, server, path, screen, remembered
  <1>5. ASSUME NEW a \in Assets, StreamFails(a) PROVE ValueTypes'
    BY <1>1, <1>5 DEF StreamFails, pathway, server, path, screen, remembered
  <1>6. ASSUME NEW a \in Assets, Receive(a) PROVE ValueTypes'
    BY <1>6 DEF Receive, Reports, server, screen
  <1>7. ASSUME NEW a \in Assets, Flush(a) PROVE ValueTypes'
    <2>1. buffer[a][Len(buffer[a])] \in Numbers
      BY <1>7 DEF Flush, Numbers
    <2> QED BY <1>7, <2>1 DEF Flush, server, remembered
  <1>8. ASSUME NEW a \in Assets, NEW v \in Amounts, Change(a, v) PROVE ValueTypes'
    BY <1>8 DEF Change, Values, path, screen, remembered
  <1>9. ASSUME NEW s \in setting, Set(s) PROVE ValueTypes'
    BY <1>9 DEF Set, Reports, Numbers, server, screen, remembered
  <1>10. ASSUME NEW s \in setting, SetFails(s) PROVE ValueTypes'
    BY <1>10 DEF SetFails, server, screen
  <1>11. ASSUME NEW s \in answering, Send(s) PROVE ValueTypes'
    <2>1. s.asset \in Assets /\ s.amount \in Values
      BY DEF Reports
    <2>2. Append(buffer[s.asset], s.amount) \in Seq(Values)
      BY <2>1
    <2>3. buffer' \in [Assets -> Seq(Values)]
      BY <1>11, <2>1, <2>2 DEF Send
    <2> QED BY <1>11, <2>3 DEF Send, server, screen
  <1>12. CASE ReadCache
    BY <1>12 DEF ReadCache, server, path, remembered
  <1>13. CASE InitState
    BY <1>13 DEF InitState, Blank, Numbers, server, path, remembered
  <1>14. CASE UNCHANGED balanceVars
    BY <1>1, <1>14 DEF balanceVars, pathway
  <1> QED
    BY <1>2, <1>3, <1>4, <1>5, <1>6, <1>7, <1>8, <1>9, <1>10, <1>11, <1>12, <1>13, <1>14 DEF BalanceNext

(* A balance that is received while none of its asset is under way is      *)
(* alone there, and one that overtakes another is doubted.                 *)
LEMMA ReceiveCarries ==
  ASSUME ValueTypes, CarriedAll, NEW b \in Assets, Receive(b)
  PROVE  CarriedAll'
  <1> SUFFICES ASSUME NEW a \in Assets, a \notin doubt', received'[a] # None
               PROVE  Carried(a)'
    BY DEF CarriedAll
  <1> DEFINE new == [asset |-> b, amount |-> balance[b]]
  <1>1. /\ setting' = setting \cup {new} /\ answering' = answering
        /\ received' = [received EXCEPT ![b] = balance[b]]
        /\ UNCHANGED <<saved, buffer, listed, priced>>
    BY DEF Receive, screen
  <1>2. CASE a = b
    <2>1. \A s \in InFlight : s.asset # b
      BY <1>2 DEF Receive
    <2>2. received'[b] = balance[b]
      BY <1>1 DEF ValueTypes
    <2>3. Alone(b)'
      BY <1>1, <2>1, <2>2 DEF Alone, InFlight
    <2>4. Landed(b)'
      BY <1>1, <2>1 DEF Landed, InFlight
    <2>5. ~Idle(b)'
      <3>1. new \in InFlight' /\ new.asset = b
        BY <1>1 DEF InFlight
      <3> QED BY <3>1 DEF Idle
    <2> QED BY <1>2, <2>3, <2>4, <2>5 DEF Carried
  <1>3. CASE a # b
    <2>1. a \notin doubt /\ received'[a] = received[a]
      BY <1>1, <1>3 DEF Receive, ValueTypes
    <2>2. Carried(a)
      BY <2>1 DEF CarriedAll
    <2> QED BY <1>1, <1>3, <2>1, <2>2 DEF Carried, Alone, Landed, Idle, Arrived, InFlight
  <1> QED BY <1>2, <1>3

(* The thread that stores the only balance under way stores the last one.  *)
LEMMA SetCarries ==
  ASSUME ValueTypes, CarriedAll, NEW s \in setting, Set(s)
  PROVE  CarriedAll'
  <1> SUFFICES ASSUME NEW a \in Assets, a \notin doubt, received[a] # None
               PROVE  Carried(a)'
    BY DEF CarriedAll, Set, remembered
  <1>1. Carried(a)
    BY DEF CarriedAll
  <1>2. /\ setting' = setting \ {s} /\ answering' = answering \cup {s}
        /\ saved' = [saved EXCEPT ![s.asset] = s.amount]
        /\ UNCHANGED <<buffer, listed, priced, received>>
    BY DEF Set, screen, remembered
  <1>3. s \in Reports /\ setting \subseteq Reports
    BY DEF ValueTypes
  <1>4. CASE s.asset = a
    <2>1. s.amount = received[a]
      BY <1>1, <1>4 DEF Carried, Alone, InFlight
    <2>2. saved'[a] = received[a]
      BY <1>2, <1>4, <2>1 DEF ValueTypes
    <2>3. \A t \in setting : t.asset = a => t = s
      BY <1>1, <1>3, <1>4, <2>1 DEF Carried, Alone, InFlight, Reports
    <2>4. Alone(a)'
      BY <1>1, <1>2, <2>1, <2>3 DEF Carried, Alone, InFlight
    <2>5. Landed(a)'
      BY <1>2, <2>2 DEF Landed
    <2>6. ~Idle(a)'
      BY <1>2, <1>4 DEF Idle, InFlight
    <2> QED BY <2>4, <2>5, <2>6 DEF Carried
  <1>5. CASE s.asset # a
    <2>1. saved'[a] = saved[a]
      BY <1>2, <1>5 DEF ValueTypes
    <2> QED BY <1>1, <1>2, <1>5, <2>1 DEF Carried, Alone, Landed, Idle, Arrived, InFlight
  <1> QED BY <1>4, <1>5

(* An asset whose storing failed is doubted, the others are as before.     *)
LEMMA SetFailsCarries ==
  ASSUME CarriedAll, NEW s \in setting, SetFails(s)
  PROVE  CarriedAll'
  <1> SUFFICES ASSUME NEW a \in Assets, a \notin doubt', received[a] # None
               PROVE  Carried(a)'
    BY DEF CarriedAll, SetFails
  <1>1. /\ setting' = setting \ {s} /\ answering' = answering /\ a \notin doubt /\ a # s.asset
        /\ UNCHANGED <<saved, buffer, listed, priced, received>>
    BY DEF SetFails, screen
  <1>2. Carried(a)
    BY <1>1 DEF CarriedAll
  <1> QED BY <1>1, <1>2 DEF Carried, Alone, Landed, Idle, Arrived, InFlight

(* What is sent is the last one: it is priced and the last of its buffer,  *)
(* or, when the registry does not know the token, doubted.                 *)
LEMMA SendCarries ==
  ASSUME ValueTypes, CarriedAll, NEW s \in answering, Send(s)
  PROVE  CarriedAll'
  <1> SUFFICES ASSUME NEW a \in Assets, a \notin doubt', received[a] # None
               PROVE  Carried(a)'
    BY DEF CarriedAll, Send
  <1>1. /\ setting' = setting /\ answering' = answering \ {s} /\ a \notin doubt
        /\ UNCHANGED <<saved, listed, received>> /\ priced \subseteq priced'
    BY DEF Send, screen
  <1>2. Carried(a)
    BY <1>1 DEF CarriedAll
  <1>3. s.asset \in Assets /\ s.amount \in Values
    BY DEF ValueTypes, Reports
  <1>4. Alone(a)' /\ Landed(a)'
    BY <1>1, <1>2 DEF Carried, Alone, Landed, InFlight
  <1>5. CASE s.asset = a
    <2>1. Sendable(a) /\ buffer' = [buffer EXCEPT ![a] = Append(@, s.amount)]
      BY <1>5 DEF Send
    <2>2. s.amount = received[a] /\ saved[a] = received[a]
      BY <1>2, <1>5 DEF Carried, Alone, Landed, InFlight
    <2>3. buffer'[a] = Append(buffer[a], s.amount) /\ buffer[a] \in Seq(Values)
      BY <1>3, <1>5, <2>1 DEF ValueTypes
    <2>4. buffer'[a] # <<>> /\ buffer'[a][Len(buffer'[a])] = s.amount
      BY <1>3, <2>3
    <2>5. received[a] > 0 => a \in priced'
      BY <1>5, <2>1, <2>2 DEF Send
    <2>6. Arrived(a)'
      BY <1>1, <2>2, <2>4, <2>5 DEF Arrived
    <2> QED BY <1>4, <2>6 DEF Carried
  <1>6. CASE s.asset # a
    <2>1. buffer'[a] = buffer[a]
      BY <1>3, <1>6 DEF Send, ValueTypes
    <2>2. Idle(a)' => Idle(a)
      BY <1>1, <1>6 DEF Idle, InFlight
    <2> QED BY <1>1, <1>2, <1>4, <2>1, <2>2 DEF Carried, Arrived
  <1> QED BY <1>5, <1>6

(* A batch leaves its last balance on the screen.                          *)
LEMMA FlushCarries ==
  ASSUME ValueTypes, CarriedAll, NEW b \in Assets, Flush(b)
  PROVE  CarriedAll'
  <1> SUFFICES ASSUME NEW a \in Assets, a \notin doubt, received[a] # None
               PROVE  Carried(a)'
    BY DEF CarriedAll, Flush, remembered
  <1>1. Carried(a)
    BY DEF CarriedAll
  <1>2. /\ listed' = [listed EXCEPT ![b] = buffer[b][Len(buffer[b])]] /\ buffer[b] # <<>>
        /\ buffer' = [buffer EXCEPT ![b] = <<>>]
        /\ UNCHANGED <<saved, setting, answering, priced, received>>
    BY DEF Flush, remembered
  <1>3. Alone(a)' /\ Landed(a)' /\ (Idle(a)' => Arrived(a))
    BY <1>1, <1>2 DEF Carried, Alone, Landed, Idle, InFlight
  <1>4. CASE a = b
    <2>1. buffer'[a] = <<>> /\ listed'[a] = buffer[a][Len(buffer[a])]
      BY <1>2, <1>4 DEF ValueTypes
    <2> QED BY <1>2, <1>3, <1>4, <2>1 DEF Carried, Arrived
  <1>5. CASE a # b
    <2>1. buffer'[a] = buffer[a] /\ listed'[a] = listed[a]
      BY <1>2, <1>5 DEF ValueTypes
    <2> QED BY <1>2, <1>3, <2>1 DEF Carried, Arrived
  <1> QED BY <1>4, <1>5

(* What is read from the storage takes no row that is shown.               *)
LEMMA InitStateCarries ==
  ASSUME ValueTypes, CarriedAll, InitState
  PROVE  CarriedAll'
  <1> SUFFICES ASSUME NEW a \in Assets, a \notin doubt, received[a] # None
               PROVE  Carried(a)'
    BY DEF CarriedAll, InitState, remembered
  <1>1. Carried(a)
    BY DEF CarriedAll
  <1>2. UNCHANGED <<saved, setting, answering, buffer, priced, received>>
    BY DEF InitState, path, remembered
  <1>3. listed[a] # None => listed'[a] = listed[a]
    BY DEF InitState
  <1> QED BY <1>1, <1>2, <1>3 DEF Carried, Alone, Landed, Idle, Arrived, InFlight

(* Every step keeps what has been received on its way.                     *)
LEMMA StepCarries ==
  ASSUME ValueTypes, CarriedAll, [BalanceNext]_balanceVars
  PROVE  CarriedAll'
  <1>1. ASSUME saved' = saved, setting' = setting, answering' = answering, buffer' = buffer,
               priced' = priced, listed' = listed, received' = received, doubt' = doubt
        PROVE  CarriedAll'
    BY <1>1 DEF CarriedAll, Carried, Alone, Landed, Idle, Arrived, InFlight
  <1>2. CASE SubscribeCoin
    BY <1>1, <1>2 DEF SubscribeCoin, path, screen, remembered
  <1>3. ASSUME NEW tokens \in SUBSET Tokens, TokensNamed(tokens) \/ SetTokens(tokens)
        PROVE  CarriedAll'
    BY <1>1, <1>3 DEF TokensNamed, SetTokens, path, screen, remembered
  <1>4. CASE Reconnect
    BY <1>1, <1>4 DEF Reconnect, path, screen, remembered
  <1>5. ASSUME NEW a \in Assets, StreamFails(a) PROVE CarriedAll'
    BY <1>1, <1>5 DEF StreamFails, path, screen, remembered
  <1>6. ASSUME NEW a \in Assets, NEW v \in Amounts, Change(a, v) PROVE CarriedAll'
    BY <1>1, <1>6 DEF Change, path, screen, remembered
  <1>7. CASE ReadCache
    BY <1>1, <1>7 DEF ReadCache, path, remembered
  <1>8. CASE UNCHANGED balanceVars
    BY <1>1, <1>8 DEF balanceVars
  <1> QED
    BY <1>2, <1>3, <1>4, <1>5, <1>6, <1>7, <1>8, ReceiveCarries, SetCarries, SetFailsCarries,
       SendCarries, FlushCarries, InitStateCarries DEF BalanceNext

(* BalanceService: the last balance received of an asset ends up in the    *)
(* storage and on the screen, and is priced, but for the named exceptions. *)
THEOREM BalanceArrives == BalanceSpec => []BalanceIsReported
  <1>1. BalanceInit => ValueTypes /\ CarriedAll
    BY TypesStart DEF BalanceInit, CarriedAll, Blank
  <1>2. ValueTypes /\ CarriedAll /\ [BalanceNext]_balanceVars => (ValueTypes /\ CarriedAll)'
    BY TypesKept, StepCarries
  <1>3. ValueTypes /\ CarriedAll => BalanceIsReported
    BY DEF CarriedAll, Carried, Idle, Arrived, BalanceIsReported
  <1> QED BY <1>1, <1>2, <1>3, PTL DEF BalanceSpec

------------------------------------------------------------------------------
(* The types of both slices.  An amount is the server's, and a stream is   *)
(* open only for what was subscribed.                                      *)
StreamTypes ==
  /\ balance \in [Assets -> Amounts] /\ changes \in 0..MaxChanges
  /\ known \subseteq Tokens
  /\ subscriptions \subseteq Assets /\ owes \subseteq streams /\ streams \subseteq subscriptions
  /\ priced \subseteq Assets /\ doubt \subseteq Assets
  /\ stage \in {"unread", "read", "shown"}

(* Zero is an amount.                                                      *)
LEMMA ValuesAreAmounts == Values = Amounts
  BY BalanceBounds DEF Values, Amounts

(* A balance under way is a report of an asset.                            *)
LEMMA Reporting ==
  ASSUME ValueTypes, NEW s \in setting \cup answering
  PROVE  s.asset \in Assets
  BY DEF ValueTypes, Reports

(* The streams are of nothing else at first ...                            *)
LEMMA StreamTypesStart == BalanceInit => StreamTypes
  BY BalanceBounds DEF BalanceInit, StreamTypes, Amounts

(* ... nor after a step: of the tokens, those the stream names; of the     *)
(* subscriptions, all when the services start again.                       *)
LEMMA StreamTypesKept ==
  ASSUME ValueTypes, StreamTypes, [BalanceNext]_balanceVars
  PROVE  StreamTypes'
  <1>1. /\ balance \in [Assets -> Amounts] /\ changes \in 0..MaxChanges
        /\ known \subseteq Tokens
        /\ subscriptions \subseteq Assets /\ owes \subseteq streams /\ streams \subseteq subscriptions
        /\ priced \subseteq Assets /\ doubt \subseteq Assets
        /\ stage \in {"unread", "read", "shown"}
    BY DEF StreamTypes
  <1>2. CASE SubscribeCoin
    BY <1>1, <1>2 DEF SubscribeCoin, SubscribeBalances, StreamTypes, Assets, server, path, screen, remembered
  <1>3. ASSUME NEW tokens \in SUBSET Tokens, TokensNamed(tokens) PROVE StreamTypes'
    BY <1>1, <1>3 DEF TokensNamed, SubscribeBalances, StreamTypes, Assets, server, path, screen, remembered
  <1>4. ASSUME NEW tokens \in SUBSET Tokens, SetTokens(tokens) PROVE StreamTypes'
    BY <1>1, <1>4 DEF SetTokens, Restart, StreamTypes, server, path, screen, remembered
  <1>5. CASE Reconnect
    BY <1>1, <1>5 DEF Reconnect, Restart, StreamTypes, server, path, screen, remembered
  <1>6. ASSUME NEW a \in Assets, StreamFails(a) PROVE StreamTypes'
    BY <1>1, <1>6 DEF StreamFails, StreamTypes, server, path, screen, remembered
  <1>7. ASSUME NEW a \in Assets, Receive(a) PROVE StreamTypes'
    <2>1. owes' = owes \ {a} /\ (doubt' = doubt \cup {a} \/ doubt' = doubt \ {a})
      BY <1>7 DEF Receive
    <2>2. UNCHANGED <<balance, changes, known, subscriptions, streams, priced, stage>>
      BY <1>7 DEF Receive, server, screen
    <2> QED BY <1>1, <2>1, <2>2 DEF StreamTypes
  <1>8. ASSUME NEW a \in Assets, Flush(a) PROVE StreamTypes'
    BY <1>1, <1>8 DEF Flush, StreamTypes, server, service, remembered
  <1>9. ASSUME NEW a \in Assets, NEW v \in Amounts, Change(a, v) PROVE StreamTypes'
    <2>1. changes' \in 0..MaxChanges
      BY <1>1, <1>9, BalanceBounds DEF Change
    <2>2. balance' \in [Assets -> Amounts]
      BY <1>1, <1>9 DEF Change
    <2>3. owes' \subseteq streams
      BY <1>1, <1>9 DEF Change
    <2>4. UNCHANGED <<known, subscriptions, streams, priced, doubt, stage>>
      BY <1>9 DEF Change, path, screen, remembered
    <2> QED BY <1>1, <2>1, <2>2, <2>3, <2>4 DEF StreamTypes
  <1>10. ASSUME NEW s \in setting, Set(s) \/ SetFails(s) PROVE StreamTypes'
    <2>1. doubt' \subseteq doubt \cup {s.asset} /\ s.asset \in Assets
      BY <1>10, Reporting DEF Set, SetFails, remembered
    <2>2. UNCHANGED <<balance, changes, known, subscriptions, streams, owes, priced, stage>>
      BY <1>10 DEF Set, SetFails, server, service, screen
    <2> QED BY <1>1, <2>1, <2>2 DEF StreamTypes
  <1>11. ASSUME NEW s \in answering, Send(s) PROVE StreamTypes'
    <2>1. /\ doubt' \subseteq doubt \cup {s.asset} /\ s.asset \in Assets
          /\ priced' \subseteq priced \cup {s.asset}
      BY <1>11, Reporting DEF Send
    <2>2. UNCHANGED <<balance, changes, known, subscriptions, streams, owes, stage>>
      BY <1>11 DEF Send, server, service, screen
    <2> QED BY <1>1, <2>1, <2>2 DEF StreamTypes
  <1>12. CASE ReadCache \/ InitState
    BY <1>1, <1>12 DEF ReadCache, InitState, StreamTypes, server, service, path, remembered
  <1>13. CASE UNCHANGED balanceVars
    BY <1>1, <1>13 DEF balanceVars, StreamTypes
  <1> QED
    BY <1>2, <1>3, <1>4, <1>5, <1>6, <1>7, <1>8, <1>9, <1>10, <1>11, <1>12, <1>13 DEF BalanceNext

(* The parts of the argument about the balances give their types ...       *)
LEMMA BalanceTypes == ValueTypes /\ StreamTypes => BalanceTypeOK
  <1> SUFFICES ASSUME ValueTypes, StreamTypes PROVE BalanceTypeOK
    OBVIOUS
  <1>1. /\ balance \in [Assets -> Amounts]
        /\ setting \subseteq [asset : Assets, amount : Amounts]
        /\ answering \subseteq [asset : Assets, amount : Amounts]
        /\ buffer \in [Assets -> Seq(Amounts)]
        /\ received \in [Assets -> {None} \cup Amounts]
    BY ValuesAreAmounts DEF ValueTypes, Reports
  <1>2. {saved, cached, listed} \subseteq [Assets -> {None} \cup Kept \cup Amounts]
    BY ValuesAreAmounts DEF ValueTypes, Numbers
  <1> QED BY <1>1, <1>2 DEF BalanceTypeOK, StreamTypes, InFlight

(* ... and of the history its own: a page is read, or empty.               *)
LEMMA HistoryIsTyped == Inv /\ HistoryInv => TypeOK
  <1> SUFFICES ASSUME Inv, HistoryInv PROVE TypeOK
    OBVIOUS
  <1>1. ASSUME NEW l \in Busy
        PROVE  loads[l].wallet \in Wallets /\ loads[l].stage \in Stages /\ loads[l].page \in Seq(Txs)
    <2>1. IsLoad(loads[l])
      BY Loads DEF Inv
    <2>2. /\ loads[l].stage \in Stages
          /\ loads[l].stage = "query" => loads[l].page = <<>>
          /\ loads[l].stage = "read" => IsPage(loads[l])
      BY DEF HistoryInv, PagesRead
    <2>3. CASE loads[l].stage = "query"
      <3>1. loads[l].wallet \in Wallets
        BY <2>1 DEF IsLoad
      <3>2. <<>> \in Seq(Txs) /\ loads[l].page = <<>>
        BY <2>2, <2>3
      <3> QED BY <2>2, <3>1, <3>2
    <2>4. CASE loads[l].stage = "read"
      <3>1. loads[l].wallet \in Wallets
        BY <2>1 DEF IsLoad
      <3>2. loads[l].page \in Seq(Txs)
        BY <2>2, <2>4 DEF IsPage
      <3> QED BY <2>2, <3>1, <3>2
    <2> QED BY <2>2, <2>3, <2>4 DEF Stages
  <1>2. cursor \in Undefined..MaxTxs
    BY ScreenBounds DEF HistoryInv, HistoryTypes, Undefined, Null
  <1> QED BY <1>1, <1>2 DEF TypeOK, HistoryInv, HistoryTypes, Inv, ScreenTypes

(* For every set of wallets and of assets and every bound, the variables   *)
(* of the history and of the balances keep their types; a stream is open   *)
(* only for what was subscribed, and owes a balance only while it is open. *)
THEOREM ScreensTypes == ScreensSpec => []Types
  <1> DEFINE All == Inv /\ HistoryInv /\ ValueTypes /\ StreamTypes
  <1>1. ScreensInit => All
    BY InitInv, InitHistory, TypesStart, StreamTypesStart DEF ScreensInit
  <1>2. All /\ [ScreensNext]_<<part, vars, balanceVars>> => All'
    <2> SUFFICES ASSUME All, [ScreensNext]_<<part, vars, balanceVars>> PROVE All'
      OBVIOUS
    <2>1. [Next]_vars /\ [BalanceNext]_balanceVars
      BY DEF ScreensNext
    <2> QED BY <2>1, NextKeepsInv, NextKeepsHistory, TypesKept, StreamTypesKept
  <1>3. All => Types
    BY BalanceTypes, HistoryIsTyped DEF Types
  <1> QED BY <1>1, <1>2, <1>3, PTL DEF ScreensSpec
==============================================================================
