------------------------------- MODULE TxFeed --------------------------------
(***************************************************************************)
(* How the transactions of one feed reach the disk and the screen: the two *)
(* flows a subscription opens (getTransactions for what came after the     *)
(* cursor, subscribeTransactions for what is new), the buffer they share,  *)
(* the handler of TransactionService that turns a batch into calls of the  *)
(* local storage, and the history the renderer shows.                      *)
(*                                                                         *)
(* Every storage call runs on a thread of its own, so calls land in any    *)
(* order, and one in flight is lost when the application dies.  The server *)
(* numbers the events of the feed; the cursor of an event is its number.   *)
(***************************************************************************)
EXTENDS Integers, Sequences, FiniteSets

CONSTANTS Txs,        \* transaction ids
          CanFail,    \* may a storage call fail?
          MaxLog,     \* bound of the model: events of the feed
          MaxOpens,   \* bound of the model: subscriptions opened
          MaxJobs,    \* bound of the model: batches processed at a time
          MaxBatch,   \* bound of the model: events of a batch
          MaxHeld,    \* bound of the model: events in memory at a time
          MaxResets,  \* bound of the model: weekly cursor resets
          MaxCrashes  \* bound of the model: deaths of the application

ASSUME FeedBounds ==
  /\ CanFail \in BOOLEAN
  /\ MaxLog \in Nat /\ MaxOpens \in Nat \ {0} /\ MaxJobs \in Nat \ {0}
  /\ MaxBatch \in Nat \ {0} /\ MaxHeld \in Nat \ {0} /\ MaxResets \in Nat /\ MaxCrashes \in Nat

VARIABLES log,       \* server: the events of the feed
          cursor,    \* storage: the cursor of the feed, 0 when empty
          store,     \* storage: the transactions
          opens,     \* subscriptions opened so far
          hist,      \* per subscription: what its history flow still owes
          live,      \* per subscription: next event of its live flow
          buffer,    \* per subscription: events waiting in its buffer
          restarts,  \* pending restart timers of ended live flows
          jobs,      \* batches being processed, by place in the batch
          removing,  \* pending removals from storage, per transaction
          purge,     \* removal of submitted transactions at start
          rows,      \* renderer: versions of the rows, per transaction
          shown,     \* renderer: is the wallet of the feed loaded?
          resets, crashes,
          saved,     \* history: events whose transaction was stored once
          taken,     \* history: transactions a removal may take, or took, away (NoSilentGap)
          excused,   \* history: events given up by a failure or a crash, not asked for since
          clash      \* history: transactions whose rows may be wrong (ScreenAgrees)

storage == <<cursor, store>>
flows == <<opens, hist, live, restarts>>
screen == <<rows, shown>>
counters == <<resets, crashes>>
past == <<saved, taken, excused, clash>>
vars == <<log, cursor, store, opens, hist, live, buffer, restarts, jobs,
          removing, purge, rows, shown, resets, crashes, saved, taken, excused, clash>>

Kinds == {"mempool", "confirmed", "removed"}
Events == 1..MaxLog
Opens == 1..MaxOpens
Jobs == 1..MaxJobs
Closed == 0
Stages == {"submit", "read", "cursor", "done", "failed"}

Added(n) == log[n].kind # "removed"
HasCursor(n) == log[n].kind = "confirmed"
Absent == [version |-> 0, submitted |-> FALSE]
Idle == <<>>    \* a batch without places
NoPurge == [left |-> {}, told |-> {}]

HistEvents(k) == hist[k].next..hist[k].last
Buffered == UNION {{buffer[k][i] : i \in 1..Len(buffer[k])} : k \in Opens}
Tx(n) == log[n].tx
At(j, stage) == {i \in DOMAIN jobs[j] : jobs[j][i].stage = stage}
InHandler == UNION {{jobs[j][i].event : i \in At(j, "submit")} : j \in Jobs}
TxsOf(j) == {Tx(jobs[j][i].event) : i \in DOMAIN jobs[j]}
Touched == UNION {TxsOf(j) : j \in Jobs}

(* The server has removed the transaction of event n after it; and what a  *)
(* removal of transactions takes of the others.                            *)
TakenBack(n) == \E m \in (n + 1)..Len(log) : Tx(m) = Tx(n) /\ ~Added(m)
Hit(txs) == {Tx(n) : n \in {s \in saved : Tx(s) \in txs /\ ~TakenBack(s)}}
Leaves(t) == removing[t] > 0 \/ t \in purge.left

Init ==
  /\ log = <<>>
  /\ cursor = 0
  /\ store = [t \in Txs |-> Absent]
  /\ opens = 0
  /\ hist = [k \in Opens |-> [next |-> 1, last |-> 0]]
  /\ live = [k \in Opens |-> Closed]
  /\ buffer = [k \in Opens |-> <<>>]
  /\ restarts = 0
  /\ jobs = [j \in Jobs |-> Idle]
  /\ removing = [t \in Txs |-> 0]
  /\ purge = NoPurge
  /\ rows = [t \in Txs |-> <<>>]
  /\ shown = FALSE
  /\ resets = 0 /\ crashes = 0
  /\ saved = {} /\ taken = {} /\ excused = {} /\ clash = {}

------------------------------------------------------------------------------
(* The server: a transaction shows up in the mempool or in a block, or is  *)
(* replaced or reorganised away (also one from before the feed was read).  *)
Publish(t, kind) ==
  /\ Len(log) < MaxLog
  /\ log' = Append(log, [tx |-> t, kind |-> kind])
  /\ UNCHANGED <<storage, flows, buffer, jobs, removing, purge, screen, counters, past>>

(* Mutant of OpenFlows: the event after the cursor is taken for known.     *)
OpenFlowsPastCursor(others) ==
  LET k == opens + 1
  IN  /\ opens < MaxOpens
      /\ opens' = k
      /\ hist' = [hist EXCEPT ![k] = [next |-> cursor + 2, last |-> Len(log)]]
      /\ live' = [others EXCEPT ![k] = Len(log) + 1]
      /\ excused' = excused \ (cursor + 1)..Len(log)

(* subscribe() once the cursor is read: the history flow owes what came    *)
(* after the cursor, the live flow starts with the next event.  (The two   *)
(* calls are made in one turn; that the server answers them as of one      *)
(* moment is an assumption.)  What is asked for is not given up any more.  *)
OpenFlows(others) ==
  LET k == opens + 1
  IN  /\ opens < MaxOpens
      /\ opens' = k
      /\ hist' = [hist EXCEPT ![k] = [next |-> cursor + 1, last |-> Len(log)]]
      /\ live' = [others EXCEPT ![k] = Len(log) + 1]
      /\ excused' = excused \ (cursor + 1)..Len(log)

(* start(), at launch and on every reconnect: what is only submitted is    *)
(* queried and its removal begun, and the feed subscribed without waiting. *)
(* The live flow of the last subscription is cancelled by the reconnect.   *)
(* One purge at a time is a bound of the model.                            *)
StartService ==
  LET stale == {t \in Txs : store[t].submitted}
  IN  /\ purge = NoPurge
      /\ purge' = [left |-> stale, told |-> stale]
      /\ OpenFlows(IF opens > 0 THEN [live EXCEPT ![opens] = Closed] ELSE live)
      /\ taken' = taken \cup Hit(stale)
      /\ clash' = clash \cup (stale \cap Touched)
      /\ UNCHANGED <<log, storage, restarts, buffer, jobs, removing, screen, counters, saved>>

(* setTimeout of an ended live flow: subscribe() again.                    *)
Resubscribe ==
  /\ restarts > 0
  /\ restarts' = restarts - 1
  /\ OpenFlows(live)
  /\ UNCHANGED <<log, storage, buffer, jobs, removing, purge, screen, counters,
                 saved, taken, clash>>

(* A start more than a week after the last one also sets the cursor to ''. *)
(* (Where none is set the call changes nothing, and is not counted.)       *)
ResetCursor ==
  /\ opens > 0
  /\ resets < MaxResets
  /\ cursor # 0
  /\ resets' = resets + 1
  /\ cursor' = 0
  /\ UNCHANGED <<log, store, flows, buffer, jobs, removing, purge, screen, crashes, past>>

(* The model holds MaxHeld events in buffers and batches at a time.        *)
Held == UNION {{<<"buffer", k, i>> : i \in DOMAIN buffer[k]} : k \in Opens}
        \cup UNION {{<<"batch", j, i>> : i \in DOMAIN jobs[j]} : j \in Jobs}

(* onData() of either flow pushes the event into the buffer they share.    *)
Receive(k, n) ==
  /\ Len(buffer[k]) < MaxBatch /\ Cardinality(Held) < MaxHeld
  /\ buffer' = [buffer EXCEPT ![k] = Append(@, n)]
  /\ UNCHANGED <<log, storage, opens, restarts, jobs, removing, purge, screen, counters, past>>

ReceiveHistory(k) ==
  /\ hist[k].next <= hist[k].last
  /\ hist' = [hist EXCEPT ![k].next = @ + 1]
  /\ UNCHANGED live
  /\ Receive(k, hist[k].next)

ReceiveLive(k) ==
  /\ live[k] # Closed
  /\ live[k] <= Len(log)
  /\ live' = [live EXCEPT ![k] = @ + 1]
  /\ UNCHANGED hist
  /\ Receive(k, live[k])

(* processTransaction() up to its first await: the removals are started    *)
(* and the rows removed at once, the submissions started.                  *)
Process(batch) ==
  LET added == {i \in DOMAIN batch : Added(batch[i])}
      times(t, places) == Cardinality({i \in places : Tx(batch[i]) = t})
      gone == {t \in Txs : times(t, DOMAIN batch \ added) > 0}
      come == {t \in Txs : times(t, added) > 0}
  IN  /\ removing' = [t \in Txs |-> removing[t] + times(t, DOMAIN batch \ added)]
      /\ rows' = [t \in Txs |-> IF t \in gone THEN <<>> ELSE rows[t]]
      /\ taken' = taken \cup Hit(gone)
      /\ clash' = clash \cup (gone \cap (come \cup Touched))
                       \cup {t \in come : \/ removing[t] > 0
                                          \/ t \in purge.told
                                          \/ times(t, added) > 1}
      /\ IF added = {}
           THEN UNCHANGED jobs
           ELSE \E j \in Jobs :
                  /\ jobs[j] = Idle
                  /\ \A i \in 1..(j - 1) : jobs[i] # Idle
                  /\ jobs' = [jobs EXCEPT ![j] =
                       [i \in added |->
                          [event |-> batch[i], stage |-> "submit", version |-> 0]]]

FlushBuffer(k) ==
  /\ buffer' = [buffer EXCEPT ![k] = <<>>]
  /\ IF buffer[k] = <<>>
       THEN UNCHANGED <<jobs, removing, rows, taken, clash>>
       ELSE Process(buffer[k])

(* The buffer is full or its time is up (module BufferedHandler).          *)
Flush(k) ==
  /\ buffer[k] # <<>>
  /\ FlushBuffer(k)
  /\ UNCHANGED <<log, storage, flows, purge, shown, counters, saved, excused>>

(* onError() of getTransactions: the error is logged, the buffer flushed;  *)
(* what the flow still owed is given up.                                   *)
HistoryFails(k) ==
  /\ HistEvents(k) # {}
  /\ excused' = excused \cup HistEvents(k)
  /\ hist' = [hist EXCEPT ![k].next = hist[k].last + 1]
  /\ FlushBuffer(k)
  /\ UNCHANGED <<log, storage, opens, live, restarts, purge, shown, counters, saved>>

(* Mutant of LiveEnds: no restart timer is set.                            *)
LiveEndsForGood(k) ==
  /\ live[k] # Closed
  /\ opens + restarts < MaxOpens
  /\ live' = [live EXCEPT ![k] = Closed]
  /\ FlushBuffer(k)
  /\ UNCHANGED <<log, storage, opens, hist, restarts, purge, shown, counters,
                 saved, excused>>

(* finally() of subscribeTransactions: the restart timer and a flush.  The *)
(* last subscription of the model does not end.                            *)
LiveEnds(k) ==
  /\ live[k] # Closed
  /\ opens + restarts < MaxOpens
  /\ live' = [live EXCEPT ![k] = Closed]
  /\ restarts' = restarts + 1
  /\ FlushBuffer(k)
  /\ UNCHANGED <<log, storage, opens, hist, purge, shown, counters, saved, excused>>

------------------------------------------------------------------------------
(* The submit thread: the transaction is merged into the storage, which    *)
(* counts its version.  A transaction known as confirmed may stay so.      *)
Submit(j, i) ==
  LET n == jobs[j][i].event
      old == store[Tx(n)]
      pending == log[n].kind = "mempool"
  IN  /\ i \in At(j, "submit")
      /\ \E s \in {pending} \cup IF old = Absent THEN {} ELSE {pending /\ old.submitted} :
           store' = [store EXCEPT ![Tx(n)] = [version |-> old.version + 1, submitted |-> s]]
      /\ jobs' = [jobs EXCEPT ![j][i].stage = "read"]
      /\ saved' = saved \cup {n}
      /\ taken' = CASE ~Leaves(Tx(n)) -> taken \ {Tx(n)}
                    [] Leaves(Tx(n)) /\ TakenBack(n) -> taken
                    [] OTHER -> taken \cup {Tx(n)}
      /\ UNCHANGED <<log, cursor, flows, buffer, removing, purge, screen, counters,
                     excused, clash>>

(* ... and reads it back, which fails when it was removed in between.      *)
ReadBack(j, i) ==
  LET n == jobs[j][i].event
      v == store[Tx(n)].version
      next == IF v = 0 THEN "failed" ELSE IF HasCursor(n) THEN "cursor" ELSE "done"
  IN  /\ i \in At(j, "read")
      /\ jobs' = [jobs EXCEPT ![j][i].stage = next, ![j][i].version = v]
      /\ UNCHANGED <<log, storage, flows, buffer, removing, purge, screen, counters, past>>

(* Mutant of SubmitFails: the failure is swallowed and the cursor set.     *)
SubmitFailsUnnoticed(j, i) ==
  /\ CanFail
  /\ i \in At(j, "submit")
  /\ jobs' = [jobs EXCEPT ![j][i].stage = IF HasCursor(jobs[j][i].event) THEN "cursor"
                                                                        ELSE "done"]
  /\ excused' = excused \cup {jobs[j][i].event}
  /\ UNCHANGED <<log, storage, flows, buffer, removing, purge, screen, counters,
                 saved, taken, clash>>

SubmitFails(j, i) ==
  /\ CanFail
  /\ i \in At(j, "submit")
  /\ jobs' = [jobs EXCEPT ![j][i].stage = "failed"]
  /\ excused' = excused \cup {jobs[j][i].event}
  /\ UNCHANGED <<log, storage, flows, buffer, removing, purge, screen, counters,
                 saved, taken, clash>>

(* The cursor of a stored event is stored; a failure is only logged.       *)
SetCursor(j, i) ==
  /\ i \in At(j, "cursor")
  /\ jobs' = [jobs EXCEPT ![j][i].stage = "done"]
  /\ \/ cursor' = jobs[j][i].event
     \/ CanFail /\ UNCHANGED cursor
  /\ UNCHANGED <<log, store, flows, buffer, removing, purge, screen, counters, past>>

(* Mutant of Updated: the versions are not compared.                       *)
UpdatedBlindly(shownVersions, updates) ==
  IF updates = <<>> THEN shownVersions
  ELSE IF shownVersions = <<>> THEN updates
  ELSE [r \in DOMAIN shownVersions |-> updates[1]]

(* UPDATE_STORED_TX in the reducer: a row takes the first update of its    *)
(* transaction unless it shows a newer version already; a transaction      *)
(* without a row gets one per update.                                      *)
Updated(shownVersions, updates) ==
  IF updates = <<>> THEN shownVersions
  ELSE IF shownVersions = <<>> THEN updates
  ELSE [r \in DOMAIN shownVersions |->
          IF shownVersions[r] > updates[1] THEN shownVersions[r] ELSE updates[1]]

(* The versions a batch read of a transaction, in the order of the batch.  *)
Versions(batch, t) ==
  LET places == {i \in DOMAIN batch : Tx(batch[i].event) = t}
      ranks == 1..Cardinality(places)
      order == CHOOSE o \in [ranks -> places] : \A r, s \in ranks : r < s => o[r] < o[s]
  IN  [r \in ranks |-> batch[order[r]].version]

(* The whole batch is merged and its metadata read: the renderer is told,  *)
(* and ignores it when it shows another wallet.                            *)
Tell(j) ==
  /\ jobs[j] # Idle
  /\ At(j, "done") = DOMAIN jobs[j]
  /\ rows' = IF shown
               THEN [t \in Txs |-> Updated(rows[t], Versions(jobs[j], t))]
               ELSE rows
  /\ jobs' = [jobs EXCEPT ![j] = Idle]
  /\ UNCHANGED <<log, storage, flows, buffer, removing, purge, shown, counters, past>>

(* One submission of the batch failed: the renderer is told of none.  (The *)
(* calls still under way go on; the model waits for them.)                 *)
GiveUp(j) ==
  /\ At(j, "failed") # {}
  /\ At(j, "done") \cup At(j, "failed") = DOMAIN jobs[j]
  /\ jobs' = [jobs EXCEPT ![j] = Idle]
  /\ clash' = clash \cup TxsOf(j)
  /\ UNCHANGED <<log, storage, flows, buffer, removing, purge, screen, counters,
                 saved, taken, excused>>

(* Mutant of Remove: a removal that was never begun lands.                 *)
RemoveUnasked(t) ==
  /\ removing' = [removing EXCEPT ![t] = @ - 1]
  /\ store' = [store EXCEPT ![t] = Absent]
  /\ UNCHANGED <<log, cursor, flows, buffer, jobs, purge, screen, counters, past>>

(* A remove thread of processTransaction lands, or fails and is logged.    *)
Remove(t) ==
  /\ removing[t] > 0
  /\ removing' = [removing EXCEPT ![t] = @ - 1]
  /\ \/ store' = [store EXCEPT ![t] = Absent] /\ UNCHANGED clash
     \/ CanFail /\ clash' = clash \cup {t} /\ UNCHANGED store
  /\ UNCHANGED <<log, cursor, flows, buffer, jobs, purge, screen, counters,
                 saved, taken, excused>>

(* A removal begun by start() lands; after the last the rows go too.       *)
Purge(t) ==
  /\ t \in purge.left
  /\ purge' = [purge EXCEPT !.left = @ \ {t}]
  /\ store' = [store EXCEPT ![t] = Absent]
  /\ UNCHANGED <<log, cursor, flows, buffer, jobs, removing, screen, counters, past>>

TellPurged ==
  /\ purge # NoPurge
  /\ purge.left = {}
  /\ purge' = NoPurge
  /\ rows' = [t \in Txs |-> IF t \in purge.told THEN <<>> ELSE rows[t]]
  /\ UNCHANGED <<log, storage, flows, buffer, jobs, removing, shown, counters, past>>

(* The renderer loads the wallet from the storage in one step (a removal   *)
(* on its way has already told the screen, which will not hear of it again)*)
ShowWallet ==
  /\ ~shown
  /\ shown' = TRUE
  /\ rows' = [t \in Txs |-> IF store[t] = Absent THEN <<>> ELSE <<store[t].version>>]
  /\ clash' = clash \cup {t \in Txs : removing[t] > 0}
  /\ UNCHANGED <<log, storage, flows, buffer, jobs, removing, purge, counters,
                 saved, taken, excused>>

(* The application dies: what is in memory is gone, storage stays.         *)
Crash ==
  /\ crashes < MaxCrashes
  /\ opens \in 1..(MaxOpens - 1)
  /\ crashes' = crashes + 1
  /\ excused' = excused \cup Buffered \cup InHandler \cup UNION {HistEvents(k) : k \in Opens}
  /\ hist' = [k \in Opens |-> [next |-> 1, last |-> 0]]
  /\ live' = [k \in Opens |-> Closed]
  /\ buffer' = [k \in Opens |-> <<>>]
  /\ restarts' = 0
  /\ jobs' = [j \in Jobs |-> Idle]
  /\ removing' = [t \in Txs |-> 0]
  /\ purge' = NoPurge
  /\ rows' = [t \in Txs |-> <<>>]
  /\ shown' = FALSE
  /\ taken' = {t \in taken : store[t] = Absent} /\ clash' = {}
  /\ UNCHANGED <<log, storage, opens, resets, saved>>

Next ==
  \/ \E t \in Txs, kind \in Kinds : Publish(t, kind)
  \/ StartService \/ Resubscribe \/ ResetCursor
  \/ \E k \in Opens : \/ ReceiveHistory(k) \/ ReceiveLive(k) \/ Flush(k)
                      \/ HistoryFails(k) \/ LiveEnds(k)
  \/ \E j \in Jobs, i \in 1..MaxBatch : \/ Submit(j, i) \/ ReadBack(j, i)
                                        \/ SubmitFails(j, i) \/ SetCursor(j, i)
  \/ \E j \in Jobs : Tell(j) \/ GiveUp(j)
  \/ \E t \in Txs : Remove(t) \/ Purge(t)
  \/ TellPurged \/ ShowWallet \/ Crash

Spec == Init /\ [][Next]_vars

(* Flows deliver what they have, buffers are flushed in time, threads run, *)
(* timers fire and a launched application starts its services.             *)
Fairness ==
  /\ WF_vars(opens = 0 /\ StartService)
  /\ WF_vars(Resubscribe)
  /\ \A k \in Opens : /\ WF_vars(ReceiveHistory(k))
                      /\ WF_vars(ReceiveLive(k))
                      /\ WF_vars(Flush(k))
  /\ \A j \in Jobs, i \in 1..MaxBatch :
       /\ WF_vars(Submit(j, i) \/ SubmitFails(j, i))
       /\ WF_vars(ReadBack(j, i))
       /\ WF_vars(SetCursor(j, i))
  /\ \A j \in Jobs : WF_vars(Tell(j) \/ GiveUp(j))
  /\ \A t \in Txs : WF_vars(Remove(t)) /\ WF_vars(Purge(t))
  /\ WF_vars(TellPurged)

FairSpec == Spec /\ Fairness

------------------------------------------------------------------------------
TypeOK ==
  /\ log \in Seq([tx : Txs, kind : Kinds])
  /\ cursor \in 0..MaxLog
  /\ store \in [Txs -> [version : Nat, submitted : BOOLEAN]]
  /\ opens \in 0..MaxOpens
  /\ hist \in [Opens -> [next : Nat, last : Nat]]
  /\ live \in [Opens -> Nat]
  /\ buffer \in [Opens -> Seq(Events)]
  /\ restarts \in Nat
  /\ \A j \in Jobs :
       jobs[j] \in [DOMAIN jobs[j] -> [event : Events, stage : Stages, version : Nat]]
  /\ removing \in [Txs -> Nat]
  /\ purge \in [left : SUBSET Txs, told : SUBSET Txs]
  /\ rows \in [Txs -> Seq(Nat)]
  /\ shown \in BOOLEAN
  /\ saved \subseteq Events /\ taken \subseteq Txs /\ excused \subseteq Events /\ clash \subseteq Txs

(* The stored cursor never names an event whose transaction was not stored *)
(* first: asking the server for what came after it is safe for that event. *)
CursorNamesSaved == cursor > 0 => cursor \in saved

(* Nothing falls into a gap unnoticed.  Whatever the order in which the    *)
(* two flows deliver and the storage threads land, the transaction of an   *)
(* event the cursor has passed is in the storage, or still on its way in   *)
(* memory, or the server has taken it back since.  The exceptions are the  *)
(* ones the code has.  Its submission or its history flow failed, or the   *)
(* application died with it in memory, and no subscription has asked for   *)
(* it since.  Or it was taken away behind the cursor: by the purge at a    *)
(* start, or by a removal for an earlier event that was begun, or landed,  *)
(* after it was stored.                                                    *)
NoSilentGap ==
  \A n \in 1..cursor :
    Added(n) => \/ n \in saved /\ store[Tx(n)] # Absent
                \/ n \in excused \cup Buffered \cup InHandler
                \/ \E k \in Opens : n \in HistEvents(k)
                \/ TakenBack(n) \/ Tx(n) \in taken

Quiet ==
  /\ \A j \in Jobs : jobs[j] = Idle
  /\ \A t \in Txs : removing[t] = 0
  /\ purge = NoPurge

(* When all calls have landed the screen shows each stored transaction     *)
(* once, at the version the storage holds.  The exceptions are the ones    *)
(* the code has: a removal ran into an update of the same transaction (or  *)
(* into the loading of the wallet), a call failed, or one batch named the  *)
(* transaction twice, which gives it two rows or the older version.        *)
ScreenAgrees ==
  (Quiet /\ shown) =>
    \A t \in Txs \ clash :
      rows[t] = IF store[t] = Absent THEN <<>> ELSE <<store[t].version>>

(* Every transaction the server has published for the feed is stored, if   *)
(* nothing fails: streams may end and restart and the service reconnect.   *)
EventuallySaved ==
  \A n \in Events :
    (n \in DOMAIN log /\ Added(n)) ~> (n \in saved \cup excused)

(* The feed keeps the promise of AcknowledgedFeed: an event that adds a    *)
(* transaction is on its way while it waits in a buffer, in a submission   *)
(* to come or in what a history flow owes.                                 *)
Additions == {n \in 1..Len(log) : Added(n)}
OnTheirWay ==
  Additions \cap (Buffered \cup InHandler \cup UNION {HistEvents(k) : k \in Opens})

Promise == INSTANCE AcknowledgedFeed
             WITH last <- Len(log), added <- Additions, carried <- OnTheirWay,
                  lost <- Additions \cap excused

(* Additions are taken in order, leave memory only saved or given up, and  *)
(* the cursor is only ever set to a saved one (or reset): step by step,    *)
(* through duplicates of overlapping flows, failures and deaths.           *)
KeepsPromise == Promise!Spec
==============================================================================
