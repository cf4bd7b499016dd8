---------------------------- MODULE HistoryScreen ----------------------------
(***************************************************************************)
(* The transaction history in the renderer: opening a wallet and scrolling *)
(* its list load pages from the storage, asynchronously, into the one      *)
(* history slice of the store, while the services announce transactions    *)
(* they have stored (module TxFeed).                                       *)
(*                                                                         *)
(* A transaction is a pair of its wallet and a number; newer ones have     *)
(* greater numbers and come first.  The storage gives a page of at most    *)
(* Limit transactions older than the cursor, and the next cursor: the last *)
(* one of the page, or Null when there are no more.                        *)
(***************************************************************************)
EXTENDS Integers, Sequences, FiniteSets, SequencesExt

CONSTANTS Wallets, NoWallet,
          Limit,      \* limit of loadTransactions()
          MaxTxs,     \* bound of the model: transactions of a wallet
          MaxLoads    \* bound of the model: loads under way at a time

ASSUME ScreenBounds ==
  /\ NoWallet \notin Wallets
  /\ Limit \in Nat \ {0} /\ MaxTxs \in Nat /\ MaxLoads \in Nat \ {0}

VARIABLES stored,    \* storage: how many transactions, per wallet
          untold,    \* stored transactions not announced yet
          open,      \* the wallet WalletDetails shows
          loading,   \* local state of the list: a scroll waits for its page
          walletId,  \* history.walletId
          cursor,    \* history.cursor
          rows,      \* history.transactions
          loads,     \* calls of loadTransactions() under way
          overlap,   \* history: a load was overlapped since the last clean one
          missed,    \* history: transactions announced between query and dispatch
          early,     \* history: transactions announced before their page was read
          refused    \* history: a load failed since a wallet was opened

storage == <<stored, untold>>
slice == <<walletId, cursor, rows>>
vars == <<stored, untold, open, loading, walletId, cursor, rows, loads, overlap, missed, early,
          refused>>
past == <<overlap, missed, early, refused>>

Undefined == -1    \* no cursor yet: from the newest transaction
Null == 0          \* no more pages
Slots == 1..MaxLoads
Free == [wallet |-> NoWallet]
Stages == {"query", "read"}

Busy == {l \in Slots : loads[l] # Free}
Txs == Wallets \X (1..MaxTxs)

(* One page of a wallet, newest first, and the cursor after it.            *)
Top(w, from) == IF from = Undefined THEN stored[w] ELSE from - 1
Bottom(w, from) == IF Top(w, from) > Limit THEN Top(w, from) - Limit + 1 ELSE 1
Page(w, from) ==
  [i \in 1..(Top(w, from) - Bottom(w, from) + 1) |-> <<w, Top(w, from) - i + 1>>]
After(w, from) == IF Bottom(w, from) > 1 THEN Bottom(w, from) ELSE Null

Init ==
  /\ stored = [w \in Wallets |-> 0]
  /\ untold = {}
  /\ open = NoWallet
  /\ loading = FALSE
  /\ walletId = NoWallet
  /\ cursor = Undefined
  /\ rows = <<>>
  /\ loads = [l \in Slots |-> Free]
  /\ overlap = FALSE
  /\ missed = {}
  /\ early = {}
  /\ refused = FALSE

(* Mutant of Satisfied: nothing is loaded for a wallet without pages left, *)
(* whichever wallet is asked for.                                          *)
SatisfiedByAny(w, initial) == initial /\ cursor = Null

(* loadTransactions() up to its first await: nothing to do for a wallet    *)
(* that is loaded already, or has no more pages; a scroll remembers the    *)
(* list it came from.                                                      *)
Satisfied(w, initial) == w = walletId /\ (initial \/ cursor = Null)

(* Mutant of BeginLoad: the cursor is used for a wallet it is not of.      *)
BeginLoadForeignCursor(w, scroll, others) ==
  \E l \in Slots :
    /\ others[l] = Free
    /\ \A i \in 1..(l - 1) : others[i] # Free
    /\ loads' = [others EXCEPT ![l] =
                   [wallet |-> w, scroll |-> scroll, alone |-> Busy = {}, stage |-> "query",
                    from |-> IF cursor = Null THEN Undefined ELSE cursor,
                    page |-> <<>>, next |-> Undefined]]

BeginLoad(w, scroll, others) ==
  \E l \in Slots :
    /\ others[l] = Free
    /\ \A i \in 1..(l - 1) : others[i] # Free
    /\ loads' = [others EXCEPT ![l] =
                   [wallet |-> w, scroll |-> scroll, alone |-> Busy = {}, stage |-> "query",
                    from |-> IF w = walletId THEN cursor ELSE Undefined,
                    page |-> <<>>, next |-> Undefined]]

(* Whatever begins while loads are under way leaves none of them alone.    *)
Crowded == [l \in Slots |-> IF l \in Busy THEN [loads[l] EXCEPT !.alone = FALSE] ELSE Free]
NoteOverlap == overlap' = (overlap \/ Busy # {})

(* The lists before a remount are gone, with their loading state.          *)
Orphaned ==
  [l \in Slots |-> IF l \in Busy THEN [Crowded[l] EXCEPT !.scroll = FALSE] ELSE Free]

(* WalletDetails shows another wallet, or the same one again.              *)
Open(w) ==
  /\ open' = w
  /\ loading' = FALSE
  /\ IF Satisfied(w, TRUE)
       THEN loads' = Orphaned
       ELSE BeginLoad(w, FALSE, Orphaned)
  /\ NoteOverlap
  /\ refused' = FALSE
  /\ UNCHANGED <<storage, slice, missed, early>>

(* The list is scrolled to its end.  It shows the rows of the slice,       *)
(* whichever wallet they are of, and an empty list cannot be scrolled.     *)
Scroll ==
  /\ open # NoWallet
  /\ rows # <<>>
  /\ ~loading
  /\ cursor # Null
  /\ loading' = TRUE
  /\ BeginLoad(open, TRUE, Crowded)
  /\ NoteOverlap
  /\ UNCHANGED <<storage, open, slice, missed, early, refused>>

(* The storage answers the query.  (The metadata is read from here on.)    *)
Read(l) ==
  /\ l \in Busy
  /\ loads[l].stage = "query"
  /\ LET load == loads[l]
     IN  loads' = [loads EXCEPT ![l] =
                     [load EXCEPT !.stage = "read",
                                  !.page = Page(load.wallet, load.from),
                                  !.next = After(load.wallet, load.from)]]
  /\ UNCHANGED <<storage, open, loading, slice, past>>

(* The query or the reading of the metadata fails: the load is over, and   *)
(* whoever waits for it is not told.                                       *)
LoadFails(l) ==
  /\ l \in Busy
  /\ loads' = [loads EXCEPT ![l] = Free]
  /\ refused' = TRUE
  /\ UNCHANGED <<storage, open, loading, slice, overlap, missed, early>>

(* Mutant of Load: a page is always appended.                              *)
LoadAppended(load) ==
  /\ rows' = rows \o load.page
  /\ walletId' = load.wallet
  /\ cursor' = load.next

Load(load) ==
  /\ rows' = IF walletId = load.wallet THEN rows \o load.page ELSE load.page
  /\ walletId' = load.wallet
  /\ cursor' = load.next

(* Mutant of Loaded: the loading mark is not taken off.                    *)
LoadedUnnoticed(l) ==
  /\ l \in Busy
  /\ loads[l].stage = "read"
  /\ Load(loads[l])
  /\ loads' = [loads EXCEPT ![l] = Free]
  /\ missed' = missed \ ToSet(loads[l].page)
  /\ early' = IF walletId = loads[l].wallet THEN early ELSE {}
  /\ UNCHANGED <<storage, open, loading, overlap, refused>>

(* Mutant of Loaded: the load is not over once its page is shown.          *)
LoadedKept(l) ==
  /\ l \in Busy
  /\ loads[l].stage = "read"
  /\ Load(loads[l])
  /\ loads' = [loads EXCEPT ![l].stage = "done"]
  /\ loading' = (loading /\ ~loads[l].scroll)
  /\ missed' = missed \ ToSet(loads[l].page)
  /\ early' = IF walletId = loads[l].wallet THEN early ELSE {}
  /\ UNCHANGED <<storage, open, overlap, refused>>

Loaded(l) ==
  LET load == loads[l]
  IN  /\ l \in Busy
      /\ load.stage = "read"
      /\ Load(load)
      /\ loads' = [loads EXCEPT ![l] = Free]
      /\ loading' = (loading /\ ~load.scroll)
      /\ missed' = missed \ ToSet(load.page)
      /\ early' = IF walletId = load.wallet THEN early ELSE {}
      /\ overlap' = (overlap /\ ~(load.alone /\ walletId # load.wallet))
      /\ UNCHANGED <<storage, open, refused>>

(* The rows in the order sort() gives them, newest first: a row comes      *)
(* after those that precede it.                                            *)
Precedes(s, i, j) == s[i][2] > s[j][2] \/ (s[i][2] = s[j][2] /\ i < j)
Place(s, i) == 1 + Cardinality({j \in DOMAIN s : Precedes(s, j, i)})
Sorted(s) == [n \in DOMAIN s |-> s[CHOOSE i \in DOMAIN s : Place(s, i) = n]]

(* A service stores a transaction ...                                      *)
Store(w) ==
  /\ stored[w] < MaxTxs
  /\ stored' = [stored EXCEPT ![w] = @ + 1]
  /\ untold' = untold \cup {<<w, stored[w] + 1>>}
  /\ UNCHANGED <<open, loading, slice, loads, past>>

(* ... and announces it, UPDATE_STORED_TX: rows of the wallet are sorted   *)
(* again with it among them, a slice of another wallet ignores it.         *)
Inserted(tx) == Sorted(IF tx \in ToSet(rows) THEN rows ELSE Append(rows, tx))

PassedOver(tx, load) ==
  load.wallet = tx[1] /\ load.stage = "read" /\ tx \notin ToSet(load.page)

Announce(tx) ==
  /\ tx \in untold
  /\ untold' = untold \ {tx}
  /\ rows' = IF walletId = tx[1] THEN Inserted(tx) ELSE rows
  /\ missed' = IF walletId # tx[1] /\ \E l \in Busy : PassedOver(tx, loads[l])
                 THEN missed \cup {tx} ELSE missed
  /\ early' = IF walletId = tx[1] /\ cursor # Null /\ tx[2] < cursor
                THEN early \cup {tx} ELSE early
  /\ UNCHANGED <<stored, open, loading, walletId, cursor, loads, overlap, refused>>

Next ==
  \/ \E w \in Wallets : Open(w) \/ Store(w)
  \/ Scroll
  \/ \E l \in Slots : Read(l) \/ Loaded(l) \/ LoadFails(l)
  \/ \E tx \in Txs : Announce(tx)

Spec == Init /\ [][Next]_vars

------------------------------------------------------------------------------
TypeOK ==
  /\ stored \in [Wallets -> 0..MaxTxs]
  /\ untold \subseteq Txs
  /\ open \in Wallets \cup {NoWallet}
  /\ loading \in BOOLEAN
  /\ walletId \in Wallets \cup {NoWallet}
  /\ cursor \in Undefined..MaxTxs
  /\ rows \in Seq(Txs)
  /\ \A l \in Busy : /\ loads[l].wallet \in Wallets /\ loads[l].stage \in Stages
                     /\ loads[l].page \in Seq(Txs)
  /\ overlap \in BOOLEAN /\ missed \subseteq Txs /\ early \subseteq Txs /\ refused \in BOOLEAN

(* Transactions of two wallets are never shown together, whichever loads   *)
(* overtake each other.                                                    *)
WalletsNotMixed == \A i \in DOMAIN rows : rows[i][1] = walletId

(* The loading mark of the list is only left on by a load that failed:     *)
(* otherwise the load it waits for is under way, and scrolling goes on.    *)
LoadingEnds == loading => refused \/ \E l \in Busy : loads[l].scroll

(* When loads came one at a time and did not fail, the history is the open *)
(* wallet's.                                                               *)
OpenWalletShown ==
  (Busy = {} /\ open # NoWallet /\ ~overlap /\ ~refused) => walletId = open

(* ... and shows every transaction down to the last page read, once each   *)
(* and newest first.  The exceptions are the ones the code has: it is yet  *)
(* to be announced, its announcement came between the query of a first     *)
(* page and its dispatch (and is lost), or an old transaction is announced *)
(* before its page is read (and is shown twice then).                      *)
Oldest == IF cursor \in {Null, Undefined} THEN 1 ELSE cursor
HistoryComplete ==
  (Busy = {} /\ walletId # NoWallet /\ ~overlap) =>
    /\ \A n \in Oldest..stored[walletId] :
         <<walletId, n>> \in ToSet(rows) \cup untold \cup missed
    /\ \A i, j \in DOMAIN rows :
         (i < j /\ {rows[i], rows[j]} \cap early = {}) => rows[i][2] > rows[j][2]

(* "There are no transactions." is what the list says when it has no rows. *)
EmptyListIsTrue ==
  (Busy = {} /\ open # NoWallet /\ rows = <<>> /\ ~overlap /\ ~refused) =>
    \A n \in 1..stored[open] : <<open, n>> \in untold
==============================================================================
