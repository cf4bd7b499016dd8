# Emerald Wallet in TLA+

A verification development kept beside the sources of Emerald Wallet
(`src/packages/...`). Paths below are relative to `src/packages`.

Emerald Wallet is an Electron application. Its **main process** runs *services*
that follow blockchains through a remote gRPC API, and a native addon
(`persistent-state`) that stores what they learn, every call on a thread of its
own. Its **renderer** shows a Redux store (`store`, `react-app`), which is told of
news by `STORE_DISPATCH` messages and asks the main process over IPC. There is no
lock and no transaction anywhere: the program's correctness is in the order of
callbacks, timers, threads and messages. That is what is modelled here.

## Inventory

| component | state | operations | hard behaviours | what makes it correct |
|---|---|---|---|---|
| `BufferedHandler` (`services/src/services/BuffereHandler.ts`) | buffer, last flush, closed | push, flush, close, timer | four flushing paths race; late timers | nothing lost, doubled or overtaken; bounded; delivered in time |
| `TransactionService`, subscriptions | filed streams per identifier, pending timers, cursor reads | start, stop, reconnect, subscribe, stream end | overlapping restarts, cancelled streams, shared identifiers, storage failures | work does not multiply; a feed recovers; what `stop()` cannot reach is explained |
| `TransactionService`, events | buffer per subscription, batches in progress, cursor | receive, flush, process, submit, set cursor, tell | storage threads in any order, failures, crash, cursor reset, two flows | the cursor passes nothing unnoticed; screen and storage agree |
| Transaction history of the renderer (`store/src/txhistory`, `react-app` list) | slice (wallet, cursor, rows), loading mark | open, scroll, load, announce | loads answer in any order, announcements between | one wallet's rows, complete, once each, in order |
| API status and reconnect loop (`services/src/emerald-client/ApiAccess.ts`, `electron-app/src/createServices.ts`) | link states, `connectedAt`, status, timers, loop | report, ping, check, reconnect | flapping status, late timers, silent outages | one loop; no false alarm; outages noticed |
| `AllowanceService` + allowances slice and storage (`services/src/services/AllowanceService.ts`, `store/src/allowances`, `persistent-state/native/src/allowances.rs`) | subscriptions, streams, stored allowances with their time, buffer, rows by address, type, token and spender | subscribe, reconnect, list, change, add, describe, tell, remove old, read the cache | every report is stored by a thread and described by two requests of its own; removal by age races additions, for all addresses of the wallet at once | storage and screen hold the last amount reported |
| `BalanceService`, `BalanceListener`, `TokenService` + accounts and tokens slices | subscriptions, streams, registry, buffer per asset, stored and shown balances | subscribe, reconnect, set tokens, store, send, read the cache | store and tell reorder, failed streams, the cache read while balances arrive | storage and screen hold the last balance received |
| `PriceService`, `PriceListener` + settings slice | currency and assets, two timers, requests, stored and shown rates | set currency, add asset, fetch, store, tell | restart while a request is out; answers in another currency | one timer; the rates settle in the chosen currency |
| `BlockchainStatusService`, `ConnectionStatusService` | a subscription each | pass on | none of their own | - |
| JSON-RPC `Batch`, `GrpcTransport` | calls with their promises | add, resolve, reject | partial and duplicate answers | every call settles once |
| Transaction creation (`core/src/transaction/workflow`) | a transaction being edited | setters, rebalance, validate, build, remake from the stash | setters in any order, arithmetic at limits, another asset, sender or owner | inputs = amount + change + fee; valid means payable |
| Stash of the renderer (`store/src/txstash`) and its pages | stage, transaction, choices, fees | prepare, edit, estimate, restore, sign, leave | answers that come late and find another page | what is signed is what was shown |
| Other slices, address book, IPC, vault, lifecycle, screens | - | forwards and stores | order of readiness, reload and quit | see `PROJECT.json` |

How they interact: the API access reports a status, the reconnect loop restarts all
services; a service opens streams, stores what it receives and sends the renderer
`STORE_DISPATCH`; the renderer asks a service to subscribe and reads pages from the
storage over IPC; allowances subscribe balances, and balances the prices of their assets. The hazards, each at its line and with the properties that watch
it, are listed in `PROJECT.json` under `hazards`.

## Modules

| module | models | runs |
|---|---|---|
| `OrderedDelivery` | abstract: what a buffering consumer promises | refined by `BufferedHandler` |
| `BufferedHandler` | the buffer every service hands its stream to | `buffer`, `buffer_late` |
| `TxSubscriptions` | which streams exist, are filed, cancelled or waiting to restart | `subscriptions` |
| `AcknowledgedFeed` | abstract: what the transaction service promises of one feed of the server | refined by `TxFeed` |
| `TxFeed` | the events of one feed, from the server through storage to the rows | `feed`, `feed_live` |
| `HistoryScreen` | loading and announcing in the renderer's history | `history`, `history_empty` |
| `ConnectionStatus` | status, pings, checks and the reconnect loop | `connection` |
| `BitcoinTx` | operators: the three classes of Bitcoin transactions, their setters, the orders outputs are taken in, `rebalance`, `validate`, `dump`, `fromPlain` | used by `BitcoinCreation` |
| `BitcoinCreation` | the Bitcoin pages that transfer, cancel and speed up, over the stash | `bitcoin`, `bitcoin_speedup` |
| `EtherTx` | operators: the classes of Ethereum transactions as one record, `rebalance`, `validate` | used by `EtherCreation` |
| `EtherCreation` | the Ethereum pages (transfer, approve, convert, recover, cancel, speed up) opened one after the other over one stash | `bitcoin`, `ether_broadcast` |
| `AllowanceFeed` | the allowances of a wallet on a blockchain, from the server through storage to the rows | `allowances` |
| `BalanceFeed` | the balances of an address, likewise | `history` |
| `PriceFeed` | the exchange rates: timers, requests, storage, screen | `connection` |
| `BufferedHandlerProofs`, `TxSubscriptionsProofs`, `TxFeedProofs`, `AllowanceFeedProofs`, `BitcoinCreationProofs`, `EtherCreationProofs` | the theorems of a module (`EtherCreationProofs` also those of the union `MCTransactions`) | - |
| `ServicesProofs`, `ScreensProofs` | the theorems of `ConnectionStatus` and `PriceFeed`, and of `HistoryScreen` and `BalanceFeed` | - |
| `MC*` | a module made finite for TLC | - |
| `MCServices`, `MCScreens`, `MCTransactions` | two small instances under one run: `part` (or `chain`) says which of the two a behaviour runs | `connection`, `history`, `bitcoin` |

The last three put side by side what shares nothing. They are a union of
behaviours, not a composition: the properties of each part are those of the part alone.

`TxSubscriptions` and `TxFeed` cut the transaction service in two. The first keeps
all wallets, feeds and identifiers and forgets what a stream carries; the second
keeps one feed and what its streams carry, and counts subscriptions instead of
filing them. `TxFeed` takes the buffer's two outcomes (full or in time) as one step
`Flush`; that the step comes is what `BufferedHandler` is about. `HistoryScreen`
takes the storage as a counter of transactions per wallet; how they get there is
`TxFeed`'s. `AllowanceFeed` and `BalanceFeed` take the buffer likewise, and a
reconnect of `ConnectionStatus` as a step that may come at any time; what `AllowanceFeed`
asks of the balances (`balances`) is the coin or token that `BalanceFeed` is subscribed to.

## How state and actions correspond to the code

**`BufferedHandler`**: `buffer`, `closed` and `age` (now - `lastFlush`) are the fields of
the class, `timer` the pending `setTimeout` of `startTimer`. `OnData`, `Flush`, `Close` and
`Fire` are the methods and the callback; `Tick` is time. `received` and `delivered` are
histories.

**`TxSubscriptions`**: `filed` is the `subscribers` map, whose entry is overwritten
without being cancelled; `stray` counts the streams it lost that way, `cancelled` those cancelled whose end is
not yet heard of, `timers` the pending restarts (which no `stop()` clears),
`listing`, `querying` and `reading` the awaits of `start()` and `subscribe()` (wallets of the
vault, balances, cursor). One action per continuation: the list of wallets arrives or not,
a wallet is answered or not, a cursor is read or not, a stream ends, a timer fires.

**`TxFeed`**: the server's events are numbered, and the number is the cursor. Per
subscription there are what the history flow owes (`hist`), where the live flow
stands (`live`) and the shared `buffer`. A batch of `processTransaction` is an
element of `jobs`; each of its places moves through the storage thread (`Submit`, `ReadBack`),
the cursor's (`SetCursor`) and `Tell`. Removals are counters, for each is
a thread that nothing waits for. `saved`, `taken`, `excused` and `clash` are histories: an
event leaves `excused` when a subscription asks for it again, a transaction `taken` when a
later event stores it with no removal on its way. To
`AcknowledgedFeed` an addition is on its way (`OnTheirWay`) while it waits in a buffer, in a submission to come or in
what a history flow owes: the flow's taking it, the flush and the end of a batch are stutters, a submission saves
or gives up, a crash gives up all, and the weekly reset acknowledges nothing at all (0).

**`HistoryScreen`**: `slice` is `state.history`, `loads` the thunks that wait for the storage,
`loading` the local state of the list; `stored` and `untold` are the storage and the
announcements on their way.

**`ConnectionStatus`**: `offline` is the age of `connectedAt`, `check` and `ping` the
two timers, `waiting` the unanswered ping, `loops` the timers of `untilReconnect`: a
sequence, for nothing in the code says there is one.

**`BitcoinTx` / `BitcoinCreation`**: a transaction is a record of the class's fields, a setter
(`SetAmount`, `SetTo`, ...) an operator that ends in `Rebalance`, as the code's do. Sorting is stable,
so `Queues` is the set of the arrangements a stable sort may return: one, or any for the random
order. `plain` is the stash, `screen` the object the component made of it; each edit sets one field,
dumps, and restores, as the handlers do. `Filled` and `Amounted` are what the three `fromPlain` share.

**`EtherTx` / `EtherCreation`**: `stash` is the slice, `fees` its part that a reset
keeps. `Screen` is the object that `SetupTransaction` and `TxBuilder` make of the stash,
the entries and the balances on every render: `Fresh`, `MergedFee`, `Merged`, `Converted`, `Retokened`
are the branches of `TxBuilder`. `price` is that of the scheme in use, `spare` that of the other: the slider sets both,
the EIP-1559 switch exchanges them. An edit stores the screen with one setter applied (`Store`) and
asks for the gas. What is under way outlives its page: `estimates` in the order asked,
`restoring` a replacement's two requests, `signing` what the vault works on; their answers act on
the stash they find, as the thunks do.

**`AllowanceFeed`**: an opening `k` is one call of `subscribeAllowance`: `gets[k]` its list and the
removal that follows, `lives` the streams of changes, `current` those the map can still
cancel. A report is in `adding` (the storage thread), `describing` (two lookups of addresses) and
`buffer`. The clock is the number of openings, which is what the removal compares: a report
stored after opening `k` is not older than `k`. `rows` and `keys` are the slice, `inits` what of
the cache is still to be dispatched: it is read at any time, also while reports are stored and described,
and its rows keep the time they were stored at. `Respelled` are the spenders that an earlier session stored
in another spelling, which `INIT_ALLOWANCE` compares exactly (`reducer.ts:104`) and `SET_ALLOWANCE` does not.

**`BalanceFeed`**: `subscriptions` is the service's list, `streams` the listeners that live, `owes` those
with news, `setting` and `answering` the two halves of a storage call, `buffer` per asset the two
buffers of the service, `cached` what was read of the storage and not shown yet.

**`PriceFeed`**: `loading` is what was read of the cache at launch, until it is shown; `timeout` and `repeater` are the two fields that hold a timer; `strays` counts the
timers that are pending but in neither field, which no `stop()` could clear.
`from` and `to` are the assets and the currency, `asked` the messages under way.

`PROJECT.json` (`map`) names the lines of every definition.

## What the runs show

| run | shows | bounds, and why they are enough |
|---|---|---|
| `buffer` | nothing lost, doubled or overtaken; batches below the limit; delivered in time; refines `OrderedDelivery` | limit 3, time 3, 5 values: the buffer fills, is flushed by time, by its owner and by closing, and fills again |
| `buffer_late` (violation) | a timer called late never flushes by time again | one late callback is enough |
| `subscriptions` | live threads bounded by requests; a feed recovers; a stream `stop()` cannot reach needs an identifier subscribed twice | two wallets, two starts, one request each: restart and request overlap. One identifier is malformed. Wallets that share an identifier are covered by the theorems |
| `feed` | what the cursor has passed is in the storage, on its way, taken back by the server or lost in a way that is named; refines `AcknowledgedFeed`; screen and storage agree | one transaction with two events (mempool, confirmed or removed), two subscriptions, two batches of two, two events held, failures, one reset, one crash: batches of an old and a new flow overtake each other on every thread. A second transaction adds interleavings of rows and threads that do not meet |
| `feed_live` | every published transaction is stored in the end | as above without overlap, reset or crash |
| `connection` | one reconnect loop; no false alarm; restarts go on; outages noticed. Prices: one timer; rates settle | three links; periods in the order of the code's (check and pause below the ping, ping below `PERIOD_OK`, that below `PERIOD_ISSUES`), a timer one tick late and an answer one tick later. Two assets, two currencies, one change of currency, two requests or answers under way: an answer in the old currency overtakes one in the new; `MaxStrays` of one is the first violation of `OneTimer` |
| `history` | wallets not mixed; loading ends; the open wallet is shown, complete and in order. Balances: storage and screen hold the last one received | two wallets, two transactions, pages of one, two loads: a load overtaken by one of another wallet, and a scroll. A coin and a token, one change, one failure, one restart, two balances under way (one stored while the other is sent, or both of one asset), caches full and empty |
| `history_empty` (violation) | an announcement between query and dispatch is lost and the list says there are none | as above |
| `bitcoin` | what is signed adds up, pays its price, spends no needless input; replacements conflict and pay more | three outputs of different worth, five amounts (none, just below one output, with and without room for a second output of change, two outputs, nearly all), two fee ranges, three original fees: changes below and above dust, selections in all orders, insufficient funds, originals whose size is judged rightly and wrongly |
| (`bitcoin`, Ethereum) | what is signed is what is shown and can be paid; a replacement pays a tenth more and takes the nonce of the transaction the page was opened for; the gas is that of the very call | three entries (one made for a recovery), a token and the wrapped coin, holdings plentiful or short, lent or not; two pages and four steps (pages, edits, moves of a balance): enough for an answer to the first page to find the second after an edit |
| `bitcoin_speedup` (violation) | the price chosen for a speed-up is not paid | as above |
| `ether_broadcast` (violation) | a signature that arrives after its page was left takes the next page to BROADCAST without a signed transaction | as `bitcoin` |
| `allowances` | storage and screen hold the last amount reported of each allowance; owners' balances are subscribed | an allowance between the wallet's two addresses, one from a stranger; two openings, one change, one failure, two reports and cached rows under way, a spender that was respelled: a removal started for one address while a report of the other lands, both addresses reporting one allowance, a cached row and a fresh one |

The four violations are entries of `findings`, each with the line that says otherwise.

The properties name their exceptions. Each is a history variable set by the one step of the
code that makes the exception, so what the properties say is that there is no other.

- `NoSilentGap` says that a transaction the cursor has passed is in the storage now. Its exceptions: `excused`, an event
  whose submission or history flow failed, or that died with the application, until a subscription asks for it
  again; `taken`, a transaction that a removal took away behind the cursor: the purge of a start
  (`TransactionService.ts:117-124`), or the removal for an earlier event, whose thread the submission overtook (`:227-233`).
- `feed`, `history`: `clash`, `missed`, `early`, `overlap`, `refused`. Those of `ScreenAgrees`: a removal
  meets an update of the same transaction (threads land in any order), a call fails, a
  batch names a transaction twice.
- `allowances`: `doubt` (the storage may be wrong) is set when two reports of an allowance are stored
  at a time, a write fails, or a removal takes what its listing left out: the removal of one
  address goes for the whole wallet (`allowances.rs:120`). `clash` (the screen may be wrong): two
  reports on their way together, a failed call, a batch with a later report for the same list
  (`reducer.ts:47`), another owner with the same spender, the removal, which keeps the older
  rows (`reducer.ts:133`), and a cached row of a spender spelled otherwise, which takes the place of a
  reported one (`reducer.ts:104`). Each next report of the allowance clears its marks.
- `BalanceIsReported`: `doubt` is set when a balance arrives while another of its asset is on its way, when storing fails,
  or when the registry does not know the token; the next balance clears it.
- `ReplacementPaysMore`: the size of the original was not judged rightly at the default price, or its fee
  was so small that rounding eats the tenth (`Judged`), or the replacement has fewer inputs than the
  original; see the deviations below.
- Ethereum: `moved` (a balance changed after it was read), `misread` (`TxBuilder.ts:239-243` reads the entry's own
  balance for an allowance's), `strayed` (the answer to another page was taken), `guess` (the gas is not
  the answer to the last edit); `KeepsPrice` (of `ReplacementRaises`: the scheme is the original's, and a legacy price was not
  chosen on the panel, whose range starts too low for it; see the deviations below).

## Fairness, and why the code justifies it

- Timers and promises: an armed `setTimeout` is called back and an `await` settles, so
  continuations and timers are weakly fair (`Fire`, `TimerFires`, `CursorRead \/ CursorNotRead`,
  `Tick` ...). Where a call may fail, fairness is on the disjunction, never on success.
- Storage threads: a thread that was spawned runs (`Submit \/ SubmitFails`, `SetCursor`, `Remove`).
- Streams: a stream delivers what it has (`ReceiveHistory`, `ReceiveLive`); that it stays open is never
  assumed.
- The application is started once (`opens = 0 /\ StartService`). Reconnects, stops, user input,
  resets, crashes and stream ends have no fairness.
- `PriceFeed`: the timers, messages, storage calls and the cache are weakly fair. Strong fairness is on the answer
  of a request (`SF_vars(Answer(r))`): one that is asked every minute is answered some day; a single request
  may fail. Choices and new assets have no fairness: `RatesSettle` speaks of a currency and
  assets that stay.
- `AllowanceFeed`, `BalanceFeed`, `EtherCreation`: safety only.
- `ConnectionStatus`: time goes on and timers fire at most `MaxLate` late. That a ping is
  answered is not assumed: an answer later than `Latency` makes the state `suspect`, and
  the status may then be anything the code makes of it.

## Proofs

All theorems hold for every value of the constants that meets the named assumptions. The
assumptions say that bounds are numbers, that prices and amounts are natural, that an output
is offered once, and that names differ; only the two margins of `ConnectionStatus` are more.

- `BufferedHandlerProofs`. `BufferSafety`, `BufferBounded`, `BufferTypes`, `BufferImplementsDelivery`. The
  invariant is typing, the limit and `received = delivered \o buffer`; every step is a delivery, an
  acceptance or a stutter of `OrderedDelivery`.
- `TxSubscriptionsProofs`. `RestartsBounded`, `StrayExplained`, `SubscriptionTypes`, for all wallets, feeds
  and identifiers, shared ones included. The threads of a feed are a sum in which each step moves
  one unit from a stage to the next; only a start or a request adds to it. The invariant ties
  the awaits of a wallet to the requests of its feeds.
- `TxFeedProofs`. `CursorIsSafe`, `NoGapGoesUnnoticed`. `NoSilentGap` is not inductive: the cursor jumps to an
  event of any batch, so all that may become the cursor must have nothing behind it
  either. The invariant (`NothingBehind`) says that of every mark: the
  cursor, the end of what a history flow was asked for, what a live flow has delivered,
  and each event in buffers and batches. A subscription asks from the cursor on, so
  its mark is covered when it opens; steps that do not give up an event keep it
  accounted for (`Kept`), and `KeptCovers` carries the marks over. That what was stored still is takes a second
  invariant (`TakenInv`): it is in the storage with no removal on its way, or was taken back by the server, or is marked as
  taken (`Safe`), which each removal that begins and each submission keeps true. Assumed is only that the bounds are
  numbers (`FeedBounds`).
- `TxFeedProofs`, the promise. `FeedKeepsPromise`: `KeepsPromise`, every step of the feed is a step of `AcknowledgedFeed` or a
  stutter. Beside the invariant above (a live flow takes an event when all before it are covered) it takes that batches
  submit additions only and that what was given up was published (`Honest`). `NoSilentGap` says where an addition
  is; the refinement says that it left only by being stored or given up, and what may set the cursor.
  `PromiseMissesNothing`: the abstract steps alone leave no gap before the cursor, for what is taken is taken without
  leaving out what came before (`NoneBefore`).
- `TxFeedProofs`, the screen. `ScreenShowsStored`: `ScreenAgrees`, which speaks of the moment when all calls have
  landed; the invariant (`ScreenInv`) speaks of every other. A transaction no exception was made of is in at
  most one place of a batch (`Single`), or leaving, never both (`Leaving`); what a batch has read of it is not
  newer than what is stored (`Coming`), nor is its row (`RowFits`); and unless the row is the stored version,
  a batch is still to bring it (`Shows`).
- `TxFeedProofs`, the types. `FeedIsTyped`: `TypeOK`. Beside both invariants above it takes one for the bounds
  (`Bounded`). That the versions a batch read are a sequence rests on a choice, of the order of its places:
  every finite set of places can be put in order (`InOrder`), by induction on the bound of the set.
- `ScreensProofs`, the history. `MarkIsTakenOff`, `OpenWalletIsShown`. A wallet opened while loads are under way
  is shown by whichever load ends last, so the invariant singles out the loads that began
  when no other was under way: such a load is the only one, and the open wallet's
  (`AloneIsOpen`), and as long as nothing overlapped every load is one (`AloneWithoutOverlap`).
  `WalletsStayApart` and `NothingIsLost` need what a load has read: its page is the storage's at
  the time (`PagesRead`), it goes on where the rows of its wallet end (`GoesOn`), and the rows reach down
  to the cursor without a gap but for what is named (`RowsCover`, `RowsReach`). Assumed is `ScreenBounds`.
- `ScreensProofs`, the balances. `BalanceArrives`: `BalanceIsReported`. The invariant (`Carried`) follows the last balance of an
  asset without doubt through its stages: alone among the calls under way, stored when its thread has
  answered, the last of its buffer or on the screen. The cache cannot undo it: `InitState` leaves an
  asset that is shown alone. `ScreensTypes` is the types of both slices (`StreamTypes` for the streams, from
  `BalanceBounds`).
- `ServicesProofs`, the connection. `LoopIsSingle`, `NoFalseAlarm`, `RestartsGoOn`. The loop is single because its own
  timer sees a recovered status before the status can fall again: `LoopMargin` (pause
  and lateness less than the time to DISCONNECTED). `NoFalseAlarm` needs `PingMargin`
  (a ping is sent, late, and answered before `PERIOD_OK` is over). The code's periods meet
  both: `PingMargin` leaves 1.5 of 20 seconds for the lateness of the timer and the answer
  (`ApiAccess.ts:32-34`), `LoopMargin` 55 of 60 for the lateness of the loop
  (`createServices.ts:29`).
- `ServicesProofs`, the prices. `TimersDoNotMultiply`: `OneTimer`. Inductive as it stands; the provers
  need it as a choice of two states (`Pending`). `ServicesTypes` is the types of both parts (`PriceBounds`).
- `AllowanceFeedProofs`. `StoredHoldsTheLast`: `StoredIsReported` for all addresses, allowances, amounts and bounds.
  The property says nothing of a removal that is still to come, so the invariant does: an allowance
  without doubt has at most one report being stored, and that is the last (`Alone`); when none is,
  the storage holds the last one, and it is younger than every subscription that reported it
  (`Young`). A subscription that removes has nothing left to report, so what it listed was
  reported: either it is on its way, or stored and young enough to stay (`RemovalSound`). Assumed is
  that the number of openings is bounded by a number (`OpensAssumption`).
- `AllowanceFeedProofs`, the screen. `RowShowsTheLast`: `RowIsReported`. A batch of reports is described one by one and shown at
  once, and what its rows are depends on what comes before and after in it. So the invariant follows the reports of an
  allowance without a clash: one at most is between the server and the rows (`OneReport`), it is the last
  (`LastReport`), and when none is, each row of its key shows it (`Shows`). A removal spares the rows that are not older
  than its own subscription. `AllowanceTypes` is the types, from `AmountAssumption` and `ChangesAssumption`, too.
- `EtherCreationProofs`. `SignedCanBePaid`, `ReplacementsRaise`, `GasOfItsCall`, of `EtherInvariant`. The balances a page
  computed with are in the stash (`BalancesFit`), whose owner is one that lends to the entry (`OwnersLend`);
  the object is of the page's kind (`KindOfPage`), a restored one of the page's own original (`RestoresPage`) and, when
  the fees have come, priced above it (`ReplacesOriginal`): with EIP-1559 the maximal gas price and the range offered are a tenth more,
  of a legacy original the price is as long as its two prices differ (`PaysEnough`), which they do not once one was chosen. What may be signed was final when it
  was created, and nothing edits it afterwards (`FinalSigned`). The gas is that of the last call asked for,
  or that answer is still under way (`GasComes`). Assumed are `PriceAssumption` and `NamesAssumption`.
  `EtherTypes` is the types, with `AmountsAssumption`: an amount that is all of a balance is a number because the
  balance is of a known asset and of an entry that may send (`Counted`, `PageTypes`), and a page on which none
  may send throws (`SetupTransaction.tsx:172-174`). With `BitcoinTypes` it gives the types of the union
  (`TransactionTypes`), whose behaviours are those of both (`BothKinds`). `OwnAnswersAreSigned` bounds what the run
  `ether_broadcast` shows: while no signature for a page that was left is under way, an open page comes to BROADCAST
  only by the vault's answer (`BroadcastIsAnswered`), with the signed transaction, and it is the one on the page.
- `BitcoinCreationProofs`. `BitcoinTypes`, `SignedAddsUp`, `SignedPaysItsPrice`, `SpendsNoMore`, `SignedAtStandard`,
  `ReplacementsConflict`, `ReplacementsPayMore`, of `BitcoinInvariant`, for every wallet and all inputs (`WalletAssumption`, `InputAssumption`). What is
  signed is never what was edited but an object made anew from the stash, so the invariant says of
  the object on the screen that it shows the stash (`ScreenMirrors`) and is *settled*: chosen anew, the same
  inputs and change come out, for some order of the outputs (a speed-up, for the default price; that is
  why `PaysItsPrice` leaves it out). From this follows what is signed: the selection is the shortest start that covers
  (`ChosenByHand`, `ChosenWhole`), the change leaves the fee of its outputs (`KeepsFees`), and a valid object made anew is valid
  though its inputs came in another order (`ValidAgain`). That the fee of a modification is raised
  to a floor does not break the sum because the floor was payable when the replacement was made
  (`Affordable`), and a replacement conflicts because it takes the outputs as offered, those of
  the original first (`Replaces`). The sums are over sequences of any length: what `SumOf` is, that
  more outputs are worth more (`TotalOfMore`) and that all orders are worth the same (`OffersAreWorth`) is proved by
  induction on sets of naturals (`Counting`), which the provers can instantiate.
  `ReplacementsPayMore` adds two floors that no step undercuts (`RaisedInv`): a price, a tenth above what the fee
  came to at its size, and a fee, above what was paid or all there is (`Outbids`). Whatever order the outputs are
  taken in, as many inputs at that price cost more, because cost grows with price and size (`FeeRises`,
  `RaisedByATenth`); and where there is no change, what is kept is at least that (`Outbidding`).

Only model-checked: liveness (`DeliveredInTime`, `FeedRecovers`, `EventuallySaved`, `OutageIsNoticed`, `RatesSettle`), because
the prover does not reason about fairness and `ENABLED`.

## What is not modelled

- Inside the modelled parts. `TxFeed`: one purge at a time, `MaxHeld` events in memory; the
  server gives cursors to confirmed transactions only; storage calls land in any
  order, and fail only where the model says (submit, cursor, remove); the last subscription of the model does not end;
  the history query and the live subscription (`TransactionService.ts:188,200`), which are called in one turn, are
  answered as of one moment, so that no event is published between the two.
  `xpubpos.setCurrentAddressAt` and the reading of metadata are left out. `HistoryScreen`: the FEE
  filter of `loadTransactions`, `SET_LAST_TX_ID` and `UPDATE_TX_TOKENS`, and counting of missing rows
  that nothing reads. `BitcoinCreation`: sequence numbers, the index of the change
  address, an entry without a change address; undefined amounts are zero. `ConnectionStatus`: `close()` and the making of the clients.
  `EtherCreation`: the scheme and the two prices of what is not a replacement, which are always set together; the priority
  price; a gas limit typed by hand, which the page does not
  pass on (`SettingsPanel.tsx:227-230`); the nonce the vault is given. `AllowanceFeed`: what an
  allowance has available, its expiry in the storage (which has one entry for an allowance, however it is spelled), one wallet and one blockchain. `BalanceFeed`: unspent
  outputs and addresses of an xpub. `PriceFeed`: what a rate is, and the stop of the services at quit.
- Deviations that the models contain, or that were met while reading, without a run of their own: the log line of a failed history flow says
  it is restarted, and it is not until the next reconnect (`TransactionService.ts:191-194`); a start removes every transaction
  that is only submitted and subscribes after the cursor, which confirmed ones may have carried past it
  (`TransactionService.ts:117-124`), and a removal overtaken by the submission of a later event takes what that one stored
  (`:227-233`), so both are missing until the server names the transaction again (`taken`); `REMOVE_ALLOWANCE` keeps the rows older than the
  subscription (`allowances/reducer.ts:133`) and looks up the address as written (`:118`); a late
  signature may be taken by the next page that signs; a recovery page opened for an entry that may not
  receive falls back to the first that may (`SetupTransaction.tsx:149-184`); approvals and conversions changed to another
  asset may keep a price of zero (`TxBuilder.ts:150-166`); an owner left over from the sender before is merged with
  the stash's (`TxBuilder.ts:241`) and its balance read for the new sender's, which takes seven steps and was found when its
  absence could not be proved (`misread`); a replacement of a Bitcoin transaction may pay as much as the original or
  less, because its price is the original's fee at the size the transaction has at the default price
  (`bitcoin/restore/restore.ts:216,242`), which may be larger than what was paid for (`Judged`); a replacement of a legacy
  Ethereum transaction (any on Ethereum Classic) pays less than the original when a lower price is chosen: its `maxGasPrice` is zero and never
  undefined (`CreateEtherTx.ts:107`, `CreateErc20Tx.ts:135`), so the fallback of `ethereum/restore.ts:112` does not apply, the
  range of its slider starts at the network's low price, and the price chosen becomes its `gasPrice`
  (`SettingsPanel.tsx:373-378`); and the EIP-1559 switch (`:367-371`) gives a replacement the price of the other scheme, zero for
  a legacy original (`KeepsPrice` in `ReplacementRaises`); a page for an approval or a conversion throws
  once no entry holds coins to pay it with (`SetupTransaction.tsx:172-174`); an approval that is sped up is restored as a transfer to its
  spender (`ethereum/restore.ts:47-56`); a rejected request leaves a page preparing (Bitcoin: `restore.ts:286`); at quit the storage is
  closed before the services stop (`desktop/src/main/index.ts:163`).
- The parts with status `not_modelled` in `PROJECT.json`, with the reason: planned (below), external
  (the vault, the merge rules of `emerald-wallet-state`), or presentation.

## Plan

In the order of what matters to the user, and of what the code makes hard:

1. `RpcBatch` (`services/src/jsonrpc`): every call of a batch settles once, with partial and duplicate answers.
2. The broadcast of a signed transaction (`store/src/transaction/actions.ts`) after `EtherCreation` and `BitcoinCreation`.
3. `Lifecycle`: readiness, reload and quit, with services that still store.
4. Account sagas, HD path preview and the address book, as far as they hold protocol.

An abstract specification worth stating: a transaction page as "signed = what was last edited" (refined by
`BitcoinCreation` and `EtherCreation`). A module gets one run of its safety and, where
it matters, its liveness; small modules that share an instance share a run.

Theorems next: the settling of calls in `RpcBatch`.
