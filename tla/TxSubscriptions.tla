--------------------------- MODULE TxSubscriptions ---------------------------
(***************************************************************************)
(* The subscriptions of TransactionService: start() lists the wallets, and *)
(* per wallet forgets what was only submitted and subscribes each feed.  A *)
(* feed is one identifier of one entry: an Ethereum address or a Bitcoin   *)
(* xpub.  Subscribing reads the stored cursor first, opens a stream, and   *)
(* files it under the identifier; a stream that ends subscribes its feed   *)
(* again after a pause.  stop() cancels what is filed.                     *)
(*                                                                         *)
(* Streams have no names here: a stream is filed (it is what subscribers   *)
(* holds for the identifier), stray (open, but another one was filed in    *)
(* its place) or cancelled (its finally callback may still come).          *)
(***************************************************************************)
EXTENDS Integers, FiniteSets

CONSTANTS Wallets,    \* wallets of the vault
          Feeds,      \* pairs of an entry and one of its identifiers
          Ids,        \* identifiers: addresses and xpubs
          WalletOf,   \* the wallet of a feed
          IdOf,       \* the identifier of a feed
          Malformed,  \* feeds whose identifier is no valid address
          NoFeed,     \* nothing open is filed under an identifier
          MaxStarts,  \* bound of the model: calls of start()
          MaxAsked    \* bound of the model: TXS_SUBSCRIBE calls for a feed

ASSUME FeedAssumption ==
  /\ WalletOf \in [Feeds -> Wallets]
  /\ IdOf \in [Feeds -> Ids]
  /\ Malformed \subseteq Feeds
  /\ NoFeed \notin Feeds
ASSUME BoundAssumption == MaxStarts \in Nat /\ MaxAsked \in Nat

VARIABLES running,   \* start() was called and stop() was not since
          starts,    \* calls of start() so far
          asked,     \* calls of TXS_SUBSCRIBE so far, per feed
          listing,   \* start() calls waiting for listWallets()
          querying,  \* per wallet: waiting for the query of submitted txs
          reading,   \* per feed: subscribe() calls waiting for getCursor()
          filed,     \* per identifier: the feed of the open filed stream
          stray,     \* per feed: open streams that are not filed any more
          cancelled, \* per feed: cancelled streams not heard of since
          timers,    \* per feed: pending restart timers
          failed     \* history: feeds a local storage failure cut off

vars == <<running, starts, asked, listing, querying, reading, filed, stray,
          cancelled, timers, failed>>

Zero == [f \in Feeds |-> 0]

Filed(f) == filed[IdOf[f]] = f
Open(f) == Filed(f) \/ stray[f] > 0

(* subscribe(): a malformed identifier is logged and dropped.              *)
Subscribed(fs) ==
  [f \in Feeds |-> reading[f] + IF f \in fs \ Malformed THEN 1 ELSE 0]

(* stop(): every filed stream is cancelled and the file emptied.           *)
CancelFiled ==
  /\ cancelled' = [f \in Feeds |-> cancelled[f] + IF Filed(f) THEN 1 ELSE 0]
  /\ filed' = [i \in Ids |-> NoFeed]

(* start(): the wallets are asked for.                                     *)
BeginListing ==
  /\ starts < MaxStarts
  /\ starts' = starts + 1
  /\ listing' = listing + 1
  /\ running' = TRUE

Init ==
  /\ running = FALSE
  /\ starts = 0
  /\ asked = Zero
  /\ listing = 0
  /\ querying = [w \in Wallets |-> 0]
  /\ reading = Zero
  /\ filed = [i \in Ids |-> NoFeed]
  /\ stray = Zero
  /\ cancelled = Zero
  /\ timers = Zero
  /\ failed = {}

Launch ==
  /\ starts = 0
  /\ BeginListing
  /\ UNCHANGED <<asked, querying, reading, filed, stray, cancelled, timers, failed>>

(* reconnect() and TXS_SET_TOKENS: stop(), then start().                   *)
Reconnect ==
  /\ running
  /\ CancelFiled
  /\ BeginListing
  /\ UNCHANGED <<asked, querying, reading, stray, timers, failed>>

Stop ==
  /\ running
  /\ running' = FALSE
  /\ CancelFiled
  /\ UNCHANGED <<starts, asked, listing, querying, reading, stray, timers, failed>>

(* TXS_SUBSCRIBE from the renderer, for a new entry: not tied to start().  *)
AskSubscribe(f) ==
  /\ starts > 0
  /\ asked[f] < MaxAsked
  /\ asked' = [asked EXCEPT ![f] = @ + 1]
  /\ reading' = Subscribed({f})
  /\ UNCHANGED <<running, starts, listing, querying, filed, stray, cancelled, timers, failed>>

(* listWallets() resolves, and every wallet starts its query, or rejects,  *)
(* and nobody handles the rejection.                                       *)
WalletsListed ==
  /\ listing > 0
  /\ listing' = listing - 1
  /\ querying' = [w \in Wallets |-> querying[w] + 1]
  /\ UNCHANGED <<running, starts, asked, reading, filed, stray, cancelled, timers, failed>>

WalletsNotListed ==
  /\ listing > 0
  /\ listing' = listing - 1
  /\ failed' = Feeds
  /\ UNCHANGED <<running, starts, asked, querying, reading, filed, stray, cancelled, timers>>

(* The query for submitted transactions resolves: their removal is started *)
(* and the feeds of the wallet are subscribed without waiting for it.      *)
WalletQueried(w) ==
  /\ querying[w] > 0
  /\ querying' = [querying EXCEPT ![w] = @ - 1]
  /\ reading' = Subscribed({f \in Feeds : WalletOf[f] = w})
  /\ UNCHANGED <<running, starts, asked, listing, filed, stray, cancelled, timers, failed>>

(* It rejects: the error is logged and no feed of the wallet subscribed.   *)
WalletNotQueried(w) ==
  /\ querying[w] > 0
  /\ querying' = [querying EXCEPT ![w] = @ - 1]
  /\ failed' = failed \cup {f \in Feeds : WalletOf[f] = w}
  /\ UNCHANGED <<running, starts, asked, listing, reading, filed, stray, cancelled, timers>>

(* getCursor() resolves: a stream is opened and filed in place of whatever *)
(* was filed for the identifier, which is not cancelled.                   *)
CursorRead(f) ==
  LET replaced == {g \in Feeds : Filed(g) /\ IdOf[g] = IdOf[f]}
  IN  /\ reading[f] > 0
      /\ reading' = [reading EXCEPT ![f] = @ - 1]
      /\ stray' = [g \in Feeds |-> stray[g] + IF g \in replaced THEN 1 ELSE 0]
      /\ filed' = [filed EXCEPT ![IdOf[f]] = f]
      /\ UNCHANGED <<running, starts, asked, listing, querying, cancelled, timers, failed>>

(* It rejects: the error is logged and the feed is not tried again.        *)
CursorNotRead(f) ==
  /\ reading[f] > 0
  /\ reading' = [reading EXCEPT ![f] = @ - 1]
  /\ failed' = failed \cup {f}
  /\ UNCHANGED <<running, starts, asked, listing, querying, filed, stray, cancelled, timers>>

(* Mutants of StreamEnds: any stream may end, open or not; onError() and   *)
(* finally() both restart; neither does.                                   *)
StreamEndsUnopened(f) ==
  /\ stray' = [stray EXCEPT ![f] = @ - 1]
  /\ timers' = [timers EXCEPT ![f] = @ + 1]
  /\ UNCHANGED <<running, starts, asked, listing, querying, reading, filed, cancelled, failed>>

StreamEndsTwice(f) ==
  /\ Filed(f)
  /\ filed' = [filed EXCEPT ![IdOf[f]] = NoFeed]
  /\ timers' = [timers EXCEPT ![f] = @ + 2]
  /\ UNCHANGED <<running, starts, asked, listing, querying, reading, stray, cancelled, failed>>

StreamEndsForGood(f) ==
  /\ Filed(f)
  /\ filed' = [filed EXCEPT ![IdOf[f]] = NoFeed]
  /\ UNCHANGED <<running, starts, asked, listing, querying, reading, stray,
                 cancelled, timers, failed>>

(* finally(): an open stream of the feed is over, for whatever reason, and *)
(* the restart timer set, whether or not the service still runs.           *)
StreamEnds(f) ==
  /\ \/ /\ Filed(f)
        /\ filed' = [filed EXCEPT ![IdOf[f]] = NoFeed]
        /\ UNCHANGED stray
     \/ /\ stray[f] > 0
        /\ stray' = [stray EXCEPT ![f] = @ - 1]
        /\ UNCHANGED filed
  /\ timers' = [timers EXCEPT ![f] = @ + 1]
  /\ UNCHANGED <<running, starts, asked, listing, querying, reading, cancelled, failed>>

(* A cancelled stream calls its finally as well, or is never heard of: the *)
(* client library decides.                                                 *)
CancelledEnds(f) ==
  /\ cancelled[f] > 0
  /\ cancelled' = [cancelled EXCEPT ![f] = @ - 1]
  /\ timers' \in {timers, [timers EXCEPT ![f] = @ + 1]}
  /\ UNCHANGED <<running, starts, asked, listing, querying, reading, filed, stray, failed>>

(* Mutant of TimerFires: setInterval in place of setTimeout.               *)
TimerRepeats(f) ==
  /\ timers[f] > 0
  /\ reading' = Subscribed({f})
  /\ UNCHANGED <<running, starts, asked, listing, querying, filed, stray,
                 cancelled, timers, failed>>

(* The pause of restartTimeout seconds is over: subscribe() again.         *)
TimerFires(f) ==
  /\ timers[f] > 0
  /\ timers' = [timers EXCEPT ![f] = @ - 1]
  /\ reading' = Subscribed({f})
  /\ UNCHANGED <<running, starts, asked, listing, querying, filed, stray, cancelled, failed>>

Next ==
  \/ Launch
  \/ Reconnect
  \/ Stop
  \/ WalletsListed
  \/ WalletsNotListed
  \/ \E w \in Wallets : WalletQueried(w) \/ WalletNotQueried(w)
  \/ \E f \in Feeds : \/ AskSubscribe(f)
                      \/ CursorRead(f)
                      \/ CursorNotRead(f)
                      \/ StreamEnds(f)
                      \/ CancelledEnds(f)
                      \/ TimerFires(f)

Spec == Init /\ [][Next]_vars

(* Promises settle, one way or the other, and timers fire.  Nothing else   *)
(* is owed: streams end, the API reconnects, and the user acts at will.    *)
Fairness ==
  /\ WF_vars(WalletsListed \/ WalletsNotListed)
  /\ \A w \in Wallets : WF_vars(WalletQueried(w) \/ WalletNotQueried(w))
  /\ \A f \in Feeds : /\ WF_vars(CursorRead(f) \/ CursorNotRead(f))
                      /\ WF_vars(TimerFires(f))

FairSpec == Spec /\ Fairness

------------------------------------------------------------------------------
TypeOK ==
  /\ running \in BOOLEAN
  /\ starts \in Nat
  /\ asked \in [Feeds -> Nat]
  /\ listing \in Nat
  /\ querying \in [Wallets -> Nat]
  /\ reading \in [Feeds -> Nat]
  /\ filed \in [Ids -> Feeds \cup {NoFeed}]
  /\ stray \in [Feeds -> Nat]
  /\ cancelled \in [Feeds -> Nat]
  /\ timers \in [Feeds -> Nat]
  /\ failed \subseteq Feeds

(* The live threads of work of a feed: each is a cursor being read, a      *)
(* stream or a restart timer, and goes round those stages for good.        *)
Lineages(f) ==
  reading[f] + stray[f] + (IF Filed(f) THEN 1 ELSE 0) + cancelled[f] + timers[f]

(* Restarting never multiplies the work: however streams end, time out,    *)
(* are cancelled and reconnected, a feed has no more live threads than     *)
(* start() and TXS_SUBSCRIBE were called for it.  Were a stream's end to   *)
(* subscribe twice, every outage would double the traffic.                 *)
RestartsDoNotMultiply ==
  \A f \in Feeds :
    Lineages(f) + querying[WalletOf[f]] + listing <= starts + asked[f]

(* A stream that stop() cannot reach exists only where the identifier was  *)
(* subscribed more than once: by a second start(), by TXS_SUBSCRIBE, or by *)
(* another feed with the same identifier.                                  *)
StrayNeedsOverlap ==
  \A f \in Feeds :
    stray[f] > 0 =>
      \/ starts + asked[f] > 1
      \/ \E g \in Feeds \ {f} : IdOf[g] = IdOf[f]

(* Every feed of a running service has an open stream again after any      *)
(* outage, unless reading the local storage failed for it.                 *)
FeedRecovers ==
  \A f \in Feeds \ Malformed :
    (running /\ ~Open(f)) ~> (Open(f) \/ f \in failed \/ ~running)
==============================================================================
