---------------------------- MODULE TxFeedProofs -----------------------------
(***************************************************************************)
(* For every set of transactions and every bound: the cursor of a feed     *)
(* never names an event that was not stored, and passes none unnoticed.    *)
(*                                                                         *)
(* An event the cursor has passed is one of two kinds.  It was stored,     *)
(* given up or is still on its way (Accounted), and no step but a failure  *)
(* or a crash, which give it up, takes it off its way (Kept).  That the    *)
(* cursor can only be set past accounted events needs the same of          *)
(* everything that may become a cursor: of the events in buffers and       *)
(* batches, of what the history flow ends with and of what the live flow   *)
(* has delivered.                                                          *)
(* That what was stored still is rests on the removals: what one of them   *)
(* takes was taken back by the server, or is marked as taken (TakenInv).   *)
(*                                                                         *)
(* Then the screen, which shows what is stored, and the types; and last    *)
(* that every step of the feed keeps the promise of AcknowledgedFeed.      *)
(***************************************************************************)
EXTENDS TxFeed, FiniteSetTheorems, WellFoundedInduction, TLAPS

(* The server's numbers of events, and a place of a batch.                 *)
Numbers == Nat \ {0}
IsItem(x) ==
  /\ x = [event |-> x.event, stage |-> x.stage, version |-> x.version]
  /\ x.event \in Numbers

(* The ways in which an event is accounted for: in a buffer, in a storage  *)
(* call to come, or owed by a history flow; else it was stored or given up.*)
Waits(n) == \E k \in Opens : \E i \in 1..Len(buffer[k]) : buffer[k][i] = n
Submitting(n) ==
  \E j \in Jobs : \E i \in DOMAIN jobs[j] :
    jobs[j][i].stage = "submit" /\ jobs[j][i].event = n
Owed(n) == \E k \in Opens : hist[k].next <= n /\ n <= hist[k].last

Accounted(n) == n \in saved \/ n \in excused \/ Waits(n) \/ Submitting(n) \/ Owed(n)

(* Every addition up to mark m is accounted for.                           *)
Covered(m) == \A n \in 1..m : Added(n) => Accounted(n)

FeedTypes ==
  /\ log \in Seq([tx : Txs, kind : Kinds])
  /\ cursor \in 0..Len(log)
  /\ opens \in 0..MaxOpens
  /\ hist \in [Opens -> [next : Numbers, last : Nat]]
  /\ live \in [Opens -> Nat]
  /\ buffer \in [Opens -> Seq(Numbers)]
  /\ jobs = [j \in Jobs |-> jobs[j]]
  /\ \A j \in Jobs : jobs[j] = [i \in DOMAIN jobs[j] |-> jobs[j][i]]
  /\ \A j \in Jobs : \A i \in DOMAIN jobs[j] : IsItem(jobs[j][i])

(* Everything in the model is about events that were published, and a      *)
(* subscription that is still to be opened owes nothing.                   *)
Published ==
  /\ \A k \in Opens : hist[k].last <= Len(log) /\ live[k] <= Len(log) + 1
  /\ \A k \in Opens : k > opens => hist[k].next > hist[k].last
  /\ \A k \in Opens : \A i \in 1..Len(buffer[k]) : buffer[k][i] <= Len(log)
  /\ \A j \in Jobs : \A i \in DOMAIN jobs[j] : jobs[j][i].event <= Len(log)

(* Only what was stored is read back or made the cursor.                   *)
Stored ==
  \A j \in Jobs : \A i \in DOMAIN jobs[j] :
    jobs[j][i].stage \in {"read", "cursor"} => jobs[j][i].event \in saved

(* All that is, or may become, the cursor is a mark with nothing behind it.*)
NothingBehind ==
  /\ Covered(cursor)
  /\ \A k \in Opens : Covered(hist[k].last) /\ Covered(live[k] - 1)
  /\ \A k \in Opens : \A i \in 1..Len(buffer[k]) : Covered(buffer[k][i])
  /\ \A j \in Jobs : \A i \in DOMAIN jobs[j] : Covered(jobs[j][i].event)

(* The inductive invariant.                                                *)
Inv == FeedTypes /\ Published /\ Stored /\ CursorNamesSaved /\ NothingBehind

(* A step that keeps events accounted keeps what was covered covered.      *)
Kept == \A n \in 1..Len(log) : Added(n) /\ Accounted(n) => Accounted(n)'

(* What FeedTypes says of each part, in the form the steps below use.      *)
Shapes ==
  /\ Len(log) \in Nat /\ cursor \in Nat
  /\ \A k \in Opens : hist[k].next \in Numbers /\ hist[k].last \in Nat /\ live[k] \in Nat
  /\ \A k \in Opens : Len(buffer[k]) \in Nat
  /\ \A k \in Opens : \A i \in 1..Len(buffer[k]) : buffer[k][i] \in Numbers
  /\ \A j \in Jobs : \A i \in DOMAIN jobs[j] : jobs[j][i].event \in Numbers

(* The typing of the variables gives the typing of their parts.            *)
LEMMA Typing == FeedTypes => Shapes
<1> SUFFICES ASSUME FeedTypes
             PROVE  Shapes
  OBVIOUS
<1>1. \A k \in Opens : hist[k].next \in Numbers /\ hist[k].last \in Nat /\ live[k] \in Nat
  BY DEF FeedTypes
<1>2. \A k \in Opens : Len(buffer[k]) \in Nat
  BY DEF FeedTypes
<1>3. \A k \in Opens : \A i \in 1..Len(buffer[k]) : buffer[k][i] \in Numbers
  BY DEF FeedTypes
<1>4. \A j \in Jobs : \A i \in DOMAIN jobs[j] : jobs[j][i].event \in Numbers
  BY DEF FeedTypes, IsItem
<1> QED
  BY <1>1, <1>2, <1>3, <1>4 DEF FeedTypes, Shapes

(* What was covered stays so in a step that keeps events accounted for.    *)
LEMMA KeptCovers ==
  ASSUME Shapes, log' = log, Kept
  PROVE  \A m \in Int : m <= Len(log) /\ Covered(m) => Covered(m)'
  BY DEF Kept, Covered, Added, Shapes

(* Nothing was published and nothing is under way at first.                *)
LEMMA InitInv == Init => Inv
<1> SUFFICES ASSUME Init
             PROVE  Inv
  OBVIOUS
<1>1. log = <<>> /\ Len(log) = 0 /\ log \in Seq([tx : Txs, kind : Kinds])
  BY DEF Init
<1>2. \A k \in Opens : buffer[k] = <<>> /\ Len(buffer[k]) = 0 /\ buffer[k] \in Seq(Numbers)
  BY DEF Init
<1>3. \A j \in Jobs : jobs[j] = <<>> /\ DOMAIN jobs[j] = {} /\ jobs[j] = [i \in {} |-> jobs[j][i]]
  BY DEF Init, Idle
<1>4. jobs = [j \in Jobs |-> jobs[j]]
  BY DEF Init
<1>5. buffer \in [Opens -> Seq(Numbers)]
  BY <1>2 DEF Init
<1>6. FeedTypes
  <2>1. \A j \in Jobs : /\ jobs[j] = [i \in DOMAIN jobs[j] |-> jobs[j][i]]
                       /\ \A i \in DOMAIN jobs[j] : IsItem(jobs[j][i])
    BY <1>3
  <2>2. hist \in [Opens -> [next : Numbers, last : Nat]] /\ live \in [Opens -> Nat]
    BY DEF Init, Numbers, Closed
  <2> QED
    BY <1>1, <1>4, <1>5, <2>1, <2>2, FeedBounds DEF Init, FeedTypes
<1>7. Published /\ Stored /\ CursorNamesSaved
  BY <1>1, <1>2, <1>3 DEF Init, Published, Stored, CursorNamesSaved, Closed, Opens
<1>8. NothingBehind
  BY <1>1, <1>2, <1>3 DEF Init, NothingBehind, Covered, Closed, Opens
<1> QED
  BY <1>6, <1>7, <1>8 DEF Inv

(* A new event is behind no mark; the others are what they were.           *)
LEMMA PublishKeepsInv ==
  ASSUME Inv, NEW t \in Txs, NEW kind \in Kinds, Publish(t, kind)
  PROVE  Inv'
<1>1. FeedTypes /\ Shapes
  BY Typing DEF Inv
<1>2. /\ log' \in Seq([tx : Txs, kind : Kinds])
      /\ Len(log') = Len(log) + 1
      /\ \A n \in 1..Len(log) : log'[n] = log[n]
  BY <1>1 DEF Publish, FeedTypes
<1>3. /\ store' = store /\ cursor' = cursor /\ opens' = opens /\ hist' = hist /\ live' = live
      /\ buffer' = buffer /\ jobs' = jobs /\ saved' = saved /\ excused' = excused
  BY DEF Publish, storage, flows, past
<1>4. FeedTypes'
  BY <1>1, <1>2, <1>3 DEF FeedTypes
<1>5. Published'
  BY <1>1, <1>2, <1>3 DEF Inv, Shapes, Published, Numbers
<1>6. Stored' /\ CursorNamesSaved'
  BY <1>3 DEF Inv, Stored, CursorNamesSaved
<1>7. \A n : Accounted(n)' <=> Accounted(n)
  BY <1>3 DEF Accounted, Waits, Submitting, Owed
<1>8. \A m \in Int : m <= Len(log) /\ Covered(m) => Covered(m)'
  BY <1>1, <1>2, <1>7 DEF Covered, Added, Shapes
<1>9. NothingBehind'
  <2>1. Covered(cursor)'
    BY <1>1, <1>3, <1>8 DEF Inv, NothingBehind, FeedTypes
  <2>2. \A k \in Opens : Covered(hist[k].last)' /\ Covered(live[k] - 1)'
    BY <1>1, <1>3, <1>8 DEF Inv, NothingBehind, Published, Shapes
  <2>3. \A k \in Opens : \A i \in 1..Len(buffer'[k]) : Covered(buffer[k][i])'
    BY <1>1, <1>3, <1>8 DEF Inv, NothingBehind, Published, Shapes, Numbers
  <2>4. \A j \in Jobs : \A i \in DOMAIN jobs'[j] : Covered(jobs[j][i].event)'
    BY <1>1, <1>3, <1>8 DEF Inv, NothingBehind, Published, Shapes, Numbers
  <2> QED
    BY <2>1, <2>2, <2>3, <2>4 DEF NothingBehind
<1> QED
  BY <1>4, <1>5, <1>6, <1>9 DEF Inv

(* Steps that touch neither the feed nor what was stored of it.            *)
LEMMA AsideKeepsInv ==
  ASSUME Inv, UNCHANGED <<log, cursor, opens, hist, live, buffer, jobs, saved, excused>>
  PROVE  Inv'
<1>1. /\ log' = log /\ cursor' = cursor /\ opens' = opens /\ hist' = hist /\ live' = live
      /\ buffer' = buffer /\ jobs' = jobs /\ saved' = saved /\ excused' = excused
  OBVIOUS
<1>2. FeedTypes' /\ Published' /\ Stored' /\ CursorNamesSaved'
  BY <1>1 DEF Inv, FeedTypes, Published, Stored, CursorNamesSaved
<1>3. \A n : Accounted(n)' <=> Accounted(n)
  BY <1>1 DEF Accounted, Waits, Submitting, Owed
<1>4. \A m : Covered(m)' <=> Covered(m)
  BY <1>1, <1>3 DEF Covered, Added
<1>5. NothingBehind'
  BY <1>1, <1>4 DEF Inv, NothingBehind
<1> QED
  BY <1>2, <1>5 DEF Inv

(* A new subscription asks for all that came after the cursor, so that all *)
(* that was published is accounted for when its live flow begins.          *)
LEMMA OpenFlowsKeepsInv ==
  ASSUME Inv, NEW others \in [Opens -> Nat], \A k \in Opens : others[k] \in {live[k], Closed},
         OpenFlows(others), UNCHANGED <<log, cursor, buffer, jobs, saved>>
  PROVE  Inv'
<1> DEFINE new == opens + 1
<1>1. FeedTypes /\ Shapes
  BY Typing DEF Inv
<1>2. /\ log' = log /\ cursor' = cursor /\ buffer' = buffer /\ jobs' = jobs
      /\ saved' = saved /\ excused' = excused \ (cursor + 1)..Len(log)
  BY DEF OpenFlows
<1>3. new \in Opens /\ opens' = new /\ opens' \in 0..MaxOpens /\ opens \in Nat
  BY <1>1, FeedBounds DEF OpenFlows, Opens, FeedTypes
<1>4. /\ hist' \in [Opens -> [next : Numbers, last : Nat]]
      /\ hist'[new].next = cursor + 1 /\ hist'[new].last = Len(log)
      /\ \A k \in Opens : k # new => hist'[k] = hist[k]
  BY <1>1, <1>3 DEF OpenFlows, FeedTypes, Shapes, Numbers
<1>5. /\ live' \in [Opens -> Nat]
      /\ live'[new] = Len(log) + 1
      /\ \A k \in Opens : k # new => live'[k] \in {live[k], Closed}
  BY <1>1, <1>3 DEF OpenFlows, Shapes
<1>6. FeedTypes'
  BY <1>1, <1>2, <1>3, <1>4, <1>5 DEF FeedTypes
<1>7. Published' /\ Stored' /\ CursorNamesSaved'
  <2>1. ASSUME NEW k \in Opens
        PROVE  hist'[k].last <= Len(log') /\ live'[k] <= Len(log') + 1
    <3>1. Len(log) \in Nat /\ live[k] \in Nat
      BY <1>1 DEF Shapes
    <3>2. hist[k].last <= Len(log) /\ live[k] <= Len(log) + 1
      BY DEF Inv, Published
    <3>3. hist'[k].last <= Len(log')
      BY <3>1, <3>2, <1>2, <1>4
    <3>4. live'[k] <= Len(log') + 1
      <4>1. live'[k] \in {live[k], 0, Len(log) + 1}
        BY <1>5 DEF Closed
      <4> QED
        BY <3>1, <3>2, <4>1, <1>2
    <3> QED
      BY <3>3, <3>4
  <2>2. ASSUME NEW k \in Opens, k > opens'
        PROVE  hist'[k].next > hist'[k].last
    <3>1. k > opens /\ k # new
      BY <2>2, <1>3 DEF Opens
    <3> QED
      BY <3>1, <1>4 DEF Inv, Published
  <2> QED
    BY <1>2, <2>1, <2>2 DEF Inv, Published, Stored, CursorNamesSaved
<1>8. Kept
  <2>1. ASSUME NEW n \in 1..Len(log), Owed(n)
        PROVE  Owed(n)'
    <3>1. PICK k \in Opens : hist[k].next <= n /\ n <= hist[k].last
      BY <2>1 DEF Owed
    <3>2. k # new
      BY <3>1, <1>1, <1>3 DEF Inv, Published, Shapes, Numbers
    <3> QED
      BY <3>1, <3>2, <1>4 DEF Owed
  <2>2. ASSUME NEW n \in 1..Len(log), n \in excused
        PROVE  n \in excused' \/ Owed(n)'
    <3>1. CASE n \in (cursor + 1)..Len(log)
      BY <3>1, <1>3, <1>4 DEF Owed
    <3> QED
      BY <2>2, <3>1, <1>2
  <2>3. \A n : (Waits(n)' <=> Waits(n)) /\ (Submitting(n)' <=> Submitting(n))
    BY <1>2 DEF Waits, Submitting
  <2> QED
    BY <1>2, <2>1, <2>2, <2>3 DEF Kept, Accounted
<1>9. \A m \in Int : m <= Len(log) /\ Covered(m) => Covered(m)'
  BY <1>1, <1>2, <1>8, KeptCovers
<1>10. Covered(Len(log))'
  <2> SUFFICES ASSUME NEW n \in 1..Len(log), Added(n)
               PROVE  Accounted(n)'
    BY <1>2 DEF Covered, Added
  <2>1. CASE n <= cursor
    BY <2>1, <1>1, <1>8 DEF Inv, NothingBehind, Covered, Kept, Shapes
  <2>2. CASE n > cursor
    <3>1. Owed(n)'
      BY <2>2, <1>1, <1>3, <1>4 DEF Owed, Shapes
    <3> QED
      BY <3>1 DEF Accounted
  <2> QED
    BY <2>1, <2>2, <1>1 DEF Shapes
<1>11. NothingBehind'
  <2>1. Covered(cursor)'
    BY <1>1, <1>2, <1>9 DEF Inv, NothingBehind, FeedTypes
  <2>2. \A k \in Opens : Covered(hist[k].last)'
    <3> SUFFICES ASSUME NEW k \in Opens
                 PROVE  Covered(hist[k].last)'
      OBVIOUS
    <3>1. CASE k = new
      BY <3>1, <1>2, <1>4, <1>10
    <3>2. CASE k # new
      BY <3>2, <1>1, <1>4, <1>9 DEF Inv, NothingBehind, Published, Shapes
    <3> QED
      BY <3>1, <3>2
  <2>3. \A k \in Opens : Covered(live[k] - 1)'
    <3> SUFFICES ASSUME NEW k \in Opens
                 PROVE  Covered(live[k] - 1)'
      OBVIOUS
    <3>1. CASE k = new
      BY <3>1, <1>1, <1>2, <1>5, <1>10 DEF Shapes
    <3>2. CASE live'[k] = live[k]
      BY <3>2, <1>1, <1>9 DEF Inv, NothingBehind, Published, Shapes
    <3>3. CASE live'[k] = Closed
      BY <3>3 DEF Covered, Closed
    <3> QED
      BY <3>1, <3>2, <3>3, <1>5
  <2>4. \A k \in Opens : \A i \in 1..Len(buffer'[k]) : Covered(buffer[k][i])'
    BY <1>1, <1>2, <1>9 DEF Inv, NothingBehind, Published, Shapes, Numbers
  <2>5. \A j \in Jobs : \A i \in DOMAIN jobs'[j] : Covered(jobs[j][i].event)'
    BY <1>1, <1>2, <1>9 DEF Inv, NothingBehind, Published, Shapes, Numbers
  <2> QED
    BY <2>1, <2>2, <2>3, <2>4, <2>5 DEF NothingBehind
<1> QED
  BY <1>6, <1>7, <1>11 DEF Inv

(* The two callers of OpenFlows: start() and the restart timer.            *)
LEMMA StartKeepsInv ==
  ASSUME Inv, StartService \/ Resubscribe
  PROVE  Inv'
<1>1. live \in [Opens -> Nat]
  BY DEF Inv, FeedTypes
<1>2. CASE StartService
  <2> DEFINE others == IF opens > 0 THEN [live EXCEPT ![opens] = Closed] ELSE live
  <2>1. others \in [Opens -> Nat] /\ \A k \in Opens : others[k] \in {live[k], Closed}
    BY <1>1 DEF Closed
  <2>2. OpenFlows(others) /\ UNCHANGED <<log, cursor, buffer, jobs, saved>>
    BY <1>2 DEF StartService, storage
  <2> HIDE DEF others
  <2> QED
    BY <2>1, <2>2, OpenFlowsKeepsInv
<1>3. CASE Resubscribe
  <2>1. OpenFlows(live) /\ UNCHANGED <<log, cursor, buffer, jobs, saved>>
    BY <1>3 DEF Resubscribe, storage
  <2> QED
    BY <1>1, <2>1, OpenFlowsKeepsInv
<1> QED
  BY <1>2, <1>3

(* The weekly reset only takes back what the cursor has passed.            *)
LEMMA ResetKeepsInv ==
  ASSUME Inv, ResetCursor
  PROVE  Inv'
<1>1. /\ log' = log /\ opens' = opens /\ hist' = hist /\ live' = live /\ buffer' = buffer
      /\ jobs' = jobs /\ saved' = saved /\ excused' = excused /\ cursor' = 0
  BY DEF ResetCursor, flows, past
<1>2. FeedTypes' /\ Published' /\ Stored' /\ CursorNamesSaved'
  BY <1>1 DEF Inv, FeedTypes, Published, Stored, CursorNamesSaved
<1>3. \A n : Accounted(n)' <=> Accounted(n)
  BY <1>1 DEF Accounted, Waits, Submitting, Owed
<1>4. \A m : Covered(m)' <=> Covered(m)
  BY <1>1, <1>3 DEF Covered, Added
<1>5. Covered(0)
  BY DEF Covered
<1>6. NothingBehind'
  BY <1>1, <1>4, <1>5 DEF Inv, NothingBehind
<1> QED
  BY <1>2, <1>6 DEF Inv

(* What an event that joins a buffer changes of what waits there.          *)
LEMMA Joined ==
  ASSUME FeedTypes, NEW k \in Opens, NEW n \in Numbers, Receive(k, n)
  PROVE  /\ buffer' \in [Opens -> Seq(Numbers)]
         /\ \A x : Waits(x)' <=> Waits(x) \/ x = n
         /\ \A l \in Opens : \A i \in 1..Len(buffer'[l]) :
              \/ buffer'[l][i] = n
              \/ i \in 1..Len(buffer[l]) /\ buffer'[l][i] = buffer[l][i]
<1>1. buffer \in [Opens -> Seq(Numbers)] /\ buffer' = [buffer EXCEPT ![k] = Append(@, n)]
  BY DEF FeedTypes, Receive
<1>2. /\ buffer'[k] = Append(buffer[k], n) /\ buffer[k] \in Seq(Numbers)
      /\ \A l \in Opens : l # k => buffer'[l] = buffer[l]
  BY <1>1
<1>3. buffer' \in [Opens -> Seq(Numbers)]
  BY <1>1
<1>4. /\ Len(buffer'[k]) = Len(buffer[k]) + 1 /\ Len(buffer[k]) \in Nat
      /\ buffer'[k][Len(buffer[k]) + 1] = n
      /\ \A i \in 1..Len(buffer[k]) : buffer'[k][i] = buffer[k][i]
  BY <1>2
<1>5. \A l \in Opens : \A i \in 1..Len(buffer'[l]) :
        \/ buffer'[l][i] = n
        \/ i \in 1..Len(buffer[l]) /\ buffer'[l][i] = buffer[l][i]
  BY <1>2, <1>4
<1>6. ASSUME NEW x
      PROVE  Waits(x)' <=> Waits(x) \/ x = n
  <2>1. Waits(x)' => Waits(x) \/ x = n
    BY <1>5 DEF Waits
  <2>2. Waits(x) => Waits(x)'
    BY <1>2, <1>4 DEF Waits
  <2>3. Waits(n)'
    BY <1>4 DEF Waits
  <2> QED
    BY <2>1, <2>2, <2>3
<1> QED
  BY <1>3, <1>5, <1>6

(* An event that a flow delivers is covered by what the flow began with:   *)
(* a history flow was asked for it, a live flow for all that follow.       *)
LEMMA ReceiveHistoryKeepsInv ==
  ASSUME Inv, NEW k \in Opens, ReceiveHistory(k)
  PROVE  Inv'
<1>1. FeedTypes /\ Shapes
  BY Typing DEF Inv
<1> PICK n \in Nat : n = hist[k].next
  BY <1>1 DEF Shapes, Numbers
<1>2. /\ log' = log /\ cursor' = cursor /\ opens' = opens /\ live' = live
      /\ jobs' = jobs /\ saved' = saved /\ excused' = excused
  BY DEF ReceiveHistory, Receive, storage, past
<1>3. /\ n \in Numbers /\ n <= hist[k].last /\ n <= Len(log)
      /\ hist' = [hist EXCEPT ![k].next = @ + 1] /\ Receive(k, n)
  BY <1>1 DEF ReceiveHistory, Inv, Published, Shapes, Numbers
<1>4. /\ hist' \in [Opens -> [next : Numbers, last : Nat]]
      /\ hist'[k].next = n + 1
      /\ \A l \in Opens : hist'[l].last = hist[l].last
      /\ \A l \in Opens : l # k => hist'[l] = hist[l]
  BY <1>1, <1>3 DEF FeedTypes, Shapes, Numbers
<1>5. /\ buffer' \in [Opens -> Seq(Numbers)]
      /\ \A x : Waits(x)' <=> Waits(x) \/ x = n
      /\ \A l \in Opens : \A i \in 1..Len(buffer'[l]) :
           \/ buffer'[l][i] = n
           \/ i \in 1..Len(buffer[l]) /\ buffer'[l][i] = buffer[l][i]
  BY <1>1, <1>3, Joined
<1>6. FeedTypes'
  BY <1>1, <1>2, <1>4, <1>5 DEF FeedTypes
<1>7. Published' /\ Stored' /\ CursorNamesSaved'
  <2>1. \A l \in Opens : \A i \in 1..Len(buffer'[l]) : buffer'[l][i] <= Len(log')
    BY <1>2, <1>3, <1>5 DEF Inv, Published
  <2>2. \A l \in Opens : l > opens' => hist'[l].next > hist'[l].last
    BY <1>1, <1>2, <1>3, <1>4 DEF Inv, Published, Shapes, Numbers
  <2>3. \A l \in Opens : hist'[l].last <= Len(log') /\ live'[l] <= Len(log') + 1
    BY <1>2, <1>4 DEF Inv, Published
  <2> QED
    BY <1>2, <2>1, <2>2, <2>3 DEF Inv, Published, Stored, CursorNamesSaved
<1>8. Kept
  <2>1. ASSUME NEW x \in 1..Len(log), Owed(x)
        PROVE  Owed(x)' \/ x = n
    <3>1. PICK l \in Opens : hist[l].next <= x /\ x <= hist[l].last
      BY <2>1 DEF Owed
    <3>2. CASE l = k
      BY <3>1, <3>2, <1>1, <1>3, <1>4 DEF Owed, Shapes, Numbers
    <3>3. CASE l # k
      BY <3>1, <3>3, <1>4 DEF Owed
    <3> QED
      BY <3>2, <3>3
  <2>2. \A x : Submitting(x)' <=> Submitting(x)
    BY <1>2 DEF Submitting
  <2> QED
    BY <1>2, <1>5, <2>1, <2>2 DEF Kept, Accounted
<1>9. \A m \in Int : m <= Len(log) /\ Covered(m) => Covered(m)'
  BY <1>1, <1>2, <1>8, KeptCovers
<1>10. Covered(n)
  BY <1>1, <1>3 DEF Inv, NothingBehind, Covered, Shapes, Numbers
<1>11. NothingBehind'
  <2>1. Covered(cursor)'
    BY <1>1, <1>2, <1>9 DEF Inv, NothingBehind, FeedTypes
  <2>2. \A l \in Opens : Covered(hist[l].last)' /\ Covered(live[l] - 1)'
    <3> SUFFICES ASSUME NEW l \in Opens
                 PROVE  Covered(hist[l].last)' /\ Covered(live[l] - 1)'
      OBVIOUS
    <3>1. Covered(hist[l].last) /\ Covered(live[l] - 1)
      BY <1>1 DEF Inv, NothingBehind
    <3>2. /\ hist[l].last \in Int /\ hist[l].last <= Len(log)
          /\ live[l] - 1 \in Int /\ live[l] - 1 <= Len(log)
      BY <1>1 DEF Inv, Published, Shapes
    <3>3. Covered(hist[l].last)' /\ hist'[l].last = hist[l].last
      BY <3>1, <3>2, <1>4, <1>9
    <3>4. Covered(live[l] - 1)' /\ live'[l] = live[l]
      BY <3>1, <3>2, <1>2, <1>9
    <3> QED
      BY <3>3, <3>4
  <2>3. \A l \in Opens : \A i \in 1..Len(buffer'[l]) : Covered(buffer[l][i])'
    <3> SUFFICES ASSUME NEW l \in Opens, NEW i \in 1..Len(buffer'[l])
                 PROVE  Covered(buffer[l][i])'
      OBVIOUS
    <3>1. CASE buffer'[l][i] = n
      BY <3>1, <1>3, <1>9, <1>10 DEF Numbers
    <3>2. CASE i \in 1..Len(buffer[l]) /\ buffer'[l][i] = buffer[l][i]
      BY <3>2, <1>1, <1>9 DEF Inv, NothingBehind, Published, Shapes, Numbers
    <3> QED
      BY <3>1, <3>2, <1>5
  <2>4. \A j \in Jobs : \A i \in DOMAIN jobs'[j] : Covered(jobs[j][i].event)'
    BY <1>1, <1>2, <1>9 DEF Inv, NothingBehind, Published, Shapes, Numbers
  <2> QED
    BY <2>1, <2>2, <2>3, <2>4 DEF NothingBehind
<1> QED
  BY <1>6, <1>7, <1>11 DEF Inv

(* The live flow delivers the event after the last it delivered, or after  *)
(* the last that was published when it began: all before it are accounted. *)
LEMMA ReceiveLiveKeepsInv ==
  ASSUME Inv, NEW k \in Opens, ReceiveLive(k)
  PROVE  Inv'
<1>1. FeedTypes /\ Shapes
  BY Typing DEF Inv
<1> PICK n \in Nat : n = live[k]
  BY <1>1 DEF Shapes, Numbers
<1>2. /\ log' = log /\ cursor' = cursor /\ opens' = opens /\ hist' = hist
      /\ jobs' = jobs /\ saved' = saved /\ excused' = excused
  BY DEF ReceiveLive, Receive, storage, past
<1>3. /\ n \in Numbers /\ n <= Len(log)
      /\ live' = [live EXCEPT ![k] = @ + 1] /\ Receive(k, n)
  BY <1>1 DEF ReceiveLive, Shapes, Numbers, Closed
<1>4. /\ live' \in [Opens -> Nat]
      /\ live'[k] = n + 1
      /\ \A l \in Opens : l # k => live'[l] = live[l]
  BY <1>1, <1>3 DEF FeedTypes
<1>5. /\ buffer' \in [Opens -> Seq(Numbers)]
      /\ \A x : Waits(x)' <=> Waits(x) \/ x = n
      /\ \A l \in Opens : \A i \in 1..Len(buffer'[l]) :
           \/ buffer'[l][i] = n
           \/ i \in 1..Len(buffer[l]) /\ buffer'[l][i] = buffer[l][i]
  BY <1>1, <1>3, Joined
<1>6. FeedTypes'
  BY <1>1, <1>2, <1>4, <1>5 DEF FeedTypes
<1>7. Published' /\ Stored' /\ CursorNamesSaved'
  <2>1. \A l \in Opens : \A i \in 1..Len(buffer'[l]) : buffer'[l][i] <= Len(log')
    BY <1>2, <1>3, <1>5 DEF Inv, Published
  <2>2. \A l \in Opens : hist'[l].last <= Len(log') /\ live'[l] <= Len(log') + 1
    BY <1>1, <1>2, <1>3, <1>4 DEF Inv, Published, Shapes
  <2> QED
    BY <1>2, <2>1, <2>2 DEF Inv, Published, Stored, CursorNamesSaved
<1>8. Kept
  <2>1. \A x : (Owed(x)' <=> Owed(x)) /\ (Submitting(x)' <=> Submitting(x))
    BY <1>2 DEF Owed, Submitting
  <2> QED
    BY <1>2, <1>5, <2>1 DEF Kept, Accounted
<1>9. \A m \in Int : m <= Len(log) /\ Covered(m) => Covered(m)'
  BY <1>1, <1>2, <1>8, KeptCovers
<1>10. Covered(n)'
  <2>1. Covered(n - 1)'
    BY <1>1, <1>3, <1>9 DEF Inv, NothingBehind, Shapes, Numbers
  <2>2. Accounted(n)'
    BY <1>5 DEF Accounted
  <2>3. \A x \in 1..n : x \in 1..(n - 1) \/ x = n
    BY <1>3 DEF Numbers
  <2> QED
    BY <2>1, <2>2, <2>3 DEF Covered
<1>11. NothingBehind'
  <2>1. Covered(cursor)'
    BY <1>1, <1>2, <1>9 DEF Inv, NothingBehind, FeedTypes
  <2>2. \A l \in Opens : Covered(hist[l].last)'
    BY <1>1, <1>2, <1>9 DEF Inv, NothingBehind, Published, Shapes
  <2>3. \A l \in Opens : Covered(live[l] - 1)'
    <3> SUFFICES ASSUME NEW l \in Opens
                 PROVE  Covered(live[l] - 1)'
      OBVIOUS
    <3>1. CASE l = k
      <4>1. live'[l] - 1 = n
        BY <3>1, <1>3, <1>4 DEF Numbers
      <4> QED
        BY <4>1, <1>10
    <3>2. CASE l # k
      BY <3>2, <1>1, <1>4, <1>9 DEF Inv, NothingBehind, Published, Shapes
    <3> QED
      BY <3>1, <3>2
  <2>4. \A l \in Opens : \A i \in 1..Len(buffer'[l]) : Covered(buffer[l][i])'
    <3> SUFFICES ASSUME NEW l \in Opens, NEW i \in 1..Len(buffer'[l])
                 PROVE  Covered(buffer[l][i])'
      OBVIOUS
    <3>1. CASE buffer'[l][i] = n
      BY <3>1, <1>10
    <3>2. CASE i \in 1..Len(buffer[l]) /\ buffer'[l][i] = buffer[l][i]
      BY <3>2, <1>1, <1>9 DEF Inv, NothingBehind, Published, Shapes, Numbers
    <3> QED
      BY <3>1, <3>2, <1>5
  <2>5. \A j \in Jobs : \A i \in DOMAIN jobs'[j] : Covered(jobs[j][i].event)'
    BY <1>1, <1>2, <1>9 DEF Inv, NothingBehind, Published, Shapes, Numbers
  <2> QED
    BY <2>1, <2>2, <2>3, <2>4, <2>5 DEF NothingBehind
<1> QED
  BY <1>6, <1>7, <1>11 DEF Inv

(* One submission of a batch at another stage, with another version.       *)
Moved(j, i, s, v) ==
  [jobs EXCEPT ![j] = [jobs[j] EXCEPT ![i] =
    [event |-> jobs[j][i].event, stage |-> s, version |-> v]]]

(* A step of the handler moves one submission on.  It leaves the stage     *)
(* "submit" stored or given up, and only a stored one sets the cursor.     *)
LEMMA HandlerKeepsInv ==
  ASSUME Inv, NEW j \in Jobs, NEW i \in DOMAIN jobs[j],
         NEW s, s # "submit", NEW v,
         jobs' = Moved(j, i, s, v),
         UNCHANGED <<log, opens, hist, live, buffer>>,
         saved \subseteq saved', excused \subseteq excused',
         jobs[j][i].stage = "submit" => jobs[j][i].event \in saved' \cup excused',
         s \in {"read", "cursor"} => jobs[j][i].event \in saved',
         \/ cursor' = cursor
         \/ cursor' = jobs[j][i].event /\ jobs[j][i].stage = "cursor"
  PROVE  Inv'
<1>1. FeedTypes /\ Shapes
  BY Typing DEF Inv
<1>2. log' = log /\ opens' = opens /\ hist' = hist /\ live' = live /\ buffer' = buffer
  OBVIOUS
<1>3. /\ jobs' = [x \in Jobs |-> jobs'[x]]
      /\ jobs'[j] = [jobs[j] EXCEPT ![i] =
                       [event |-> jobs[j][i].event, stage |-> s, version |-> v]]
      /\ \A x \in Jobs : x # j => jobs'[x] = jobs[x]
  BY <1>1 DEF FeedTypes, Moved
<1>4. /\ \A x \in Jobs : DOMAIN jobs'[x] = DOMAIN jobs[x]
      /\ \A x \in Jobs : \A y \in DOMAIN jobs[x] : jobs'[x][y].event = jobs[x][y].event
      /\ \A x \in Jobs : \A y \in DOMAIN jobs[x] :
           \/ x = j /\ y = i /\ jobs'[x][y].stage = s
           \/ (x # j \/ y # i) /\ jobs'[x][y].stage = jobs[x][y].stage
  BY <1>1, <1>3 DEF FeedTypes, Moved
<1>5. \A x \in Jobs : /\ jobs'[x] = [y \in DOMAIN jobs'[x] |-> jobs'[x][y]]
                     /\ \A y \in DOMAIN jobs'[x] : IsItem(jobs'[x][y])
  <2>1. IsItem([event |-> jobs[j][i].event, stage |-> s, version |-> v])
    BY <1>1 DEF Shapes, IsItem
  <2>2. \A y \in DOMAIN jobs[j] : IsItem(jobs'[j][y])
    BY <1>1, <1>3, <2>1 DEF FeedTypes
  <2>3. jobs'[j] = [y \in DOMAIN jobs'[j] |-> jobs'[j][y]]
    BY <1>3
  <2> QED
    BY <1>1, <1>3, <1>4, <2>2, <2>3 DEF FeedTypes
<1>6. cursor' \in 0..Len(log)
  BY <1>1 DEF FeedTypes, Shapes, Numbers, Inv, Published
<1>7. FeedTypes'
  BY <1>1, <1>2, <1>3, <1>5, <1>6 DEF FeedTypes
<1>8. Published'
  BY <1>2, <1>4 DEF Inv, Published
<1>9. Stored'
  BY <1>4 DEF Inv, Stored
<1>10. CursorNamesSaved'
  BY DEF Inv, Stored, CursorNamesSaved
<1>11. Kept
  <2>1. ASSUME NEW n, Submitting(n)
        PROVE  Accounted(n)'
    <3>1. PICK x \in Jobs : \E y \in DOMAIN jobs[x] :
                 jobs[x][y].stage = "submit" /\ jobs[x][y].event = n
      BY <2>1 DEF Submitting
    <3>2. PICK y \in DOMAIN jobs[x] : jobs[x][y].stage = "submit" /\ jobs[x][y].event = n
      BY <3>1
    <3>3. CASE x = j /\ y = i
      BY <3>2, <3>3 DEF Accounted
    <3>4. CASE x # j \/ y # i
      <4>1. y \in DOMAIN jobs'[x] /\ jobs'[x][y].stage = "submit" /\ jobs'[x][y].event = n
        BY <3>2, <3>4, <1>4
      <4> QED
        BY <4>1 DEF Accounted, Submitting
    <3> QED
      BY <3>3, <3>4
  <2>2. \A n : (Waits(n)' <=> Waits(n)) /\ (Owed(n)' <=> Owed(n))
    BY <1>2 DEF Waits, Owed
  <2> QED
    BY <2>1, <2>2 DEF Kept, Accounted
<1>12. \A m \in Int : m <= Len(log) /\ Covered(m) => Covered(m)'
  BY <1>1, <1>2, <1>11, KeptCovers
<1>13. NothingBehind'
  <2>1. Covered(cursor)'
    <3>1. PICK c \in Nat : c = cursor'
      BY <1>6, <1>1 DEF Shapes
    <3>2. c <= Len(log) /\ Covered(c)
      BY <3>1, <1>1, <1>6 DEF Inv, NothingBehind, Shapes
    <3>3. Covered(c)'
      BY <3>2, <1>12
    <3> QED
      BY <3>1, <3>3
  <2>2. \A l \in Opens : Covered(hist[l].last)' /\ Covered(live[l] - 1)'
    BY <1>1, <1>2, <1>12 DEF Inv, NothingBehind, Published, Shapes
  <2>3. \A l \in Opens : \A y \in 1..Len(buffer'[l]) : Covered(buffer[l][y])'
    BY <1>1, <1>2, <1>12 DEF Inv, NothingBehind, Published, Shapes, Numbers
  <2>4. \A x \in Jobs : \A y \in DOMAIN jobs'[x] : Covered(jobs[x][y].event)'
    BY <1>1, <1>4, <1>12 DEF Inv, NothingBehind, Published, Shapes, Numbers
  <2> QED
    BY <2>1, <2>2, <2>3, <2>4 DEF NothingBehind
<1> QED
  BY <1>7, <1>8, <1>9, <1>10, <1>13 DEF Inv

(* ... as the steps of the handler write it.                              *)
Restaged(j, i, s) == [jobs EXCEPT ![j][i].stage = s]
Reread(j, i, s, v) == [jobs EXCEPT ![j][i].stage = s, ![j][i].version = v]

(* The form in which the handler's steps change the stage and the version. *)
LEMMA Moving ==
  ASSUME FeedTypes, NEW j \in Jobs, NEW i \in DOMAIN jobs[j], NEW s, NEW v
  PROVE  /\ Restaged(j, i, s) = Moved(j, i, s, jobs[j][i].version)
         /\ Reread(j, i, s, v) = Moved(j, i, s, v)
<1> DEFINE item == jobs[j][i]
<1>1. item = [event |-> item.event, stage |-> item.stage, version |-> item.version]
  BY DEF FeedTypes, IsItem
<1>2. [item EXCEPT !.stage = s] = [event |-> item.event, stage |-> s, version |-> item.version]
  BY <1>1
<1>3. Restaged(j, i, s) = Moved(j, i, s, item.version)
  BY <1>2 DEF Moved, Restaged
<1> DEFINE staged == Moved(j, i, s, item.version)
<1>4. staged[j][i] = [event |-> item.event, stage |-> s, version |-> item.version]
  BY DEF FeedTypes, Moved
<1>5. [staged[j][i] EXCEPT !.version = v] = [event |-> item.event, stage |-> s, version |-> v]
  BY <1>4
<1>6. Reread(j, i, s, v)
        = [staged EXCEPT ![j] = [staged[j] EXCEPT ![i] = [staged[j][i] EXCEPT !.version = v]]]
  BY <1>3 DEF Reread, Restaged
<1>7. [staged EXCEPT ![j] = [staged[j] EXCEPT ![i] =
        [event |-> item.event, stage |-> s, version |-> v]]] = Moved(j, i, s, v)
  BY DEF FeedTypes, Moved
<1> QED
  BY <1>3, <1>5, <1>6, <1>7

(* The four steps of a submission are steps of that kind.                  *)
LEMMA HandlerStepsKeepInv ==
  ASSUME Inv, NEW j \in Jobs, NEW i \in 1..MaxBatch,
         Submit(j, i) \/ ReadBack(j, i) \/ SubmitFails(j, i) \/ SetCursor(j, i)
  PROVE  Inv'
<1> DEFINE item == jobs[j][i]
<1>1. FeedTypes /\ Shapes
  BY Typing DEF Inv
<1>2. i \in DOMAIN jobs[j]
  BY DEF Submit, ReadBack, SubmitFails, SetCursor, At
<1>5. \A s : Restaged(j, i, s) = Moved(j, i, s, item.version)
  BY <1>1, <1>2, Moving
<1>6. \A s, v : Reread(j, i, s, v) = Moved(j, i, s, v)
  BY <1>1, <1>2, Moving
<1>7. UNCHANGED <<log, opens, hist, live, buffer>>
  BY DEF Submit, ReadBack, SubmitFails, SetCursor, flows
<1>8. CASE Submit(j, i)
  <2>1. jobs' = Moved(j, i, "read", item.version)
    BY <1>5, <1>8 DEF Submit, Restaged
  <2>2. /\ saved' = saved \cup {item.event} /\ excused' = excused /\ cursor' = cursor
    BY <1>8 DEF Submit
  <2> QED
    BY <1>2, <1>7, <2>1, <2>2, HandlerKeepsInv
<1>9. CASE SubmitFails(j, i)
  <2>1. jobs' = Moved(j, i, "failed", item.version)
    BY <1>5, <1>9 DEF SubmitFails, Restaged
  <2>2. /\ excused' = excused \cup {item.event} /\ saved' = saved /\ cursor' = cursor
    BY <1>9 DEF SubmitFails, storage
  <2>3. saved \subseteq saved' /\ excused \subseteq excused' /\ item.event \in excused'
    BY <2>2
  <2>4. "failed" # "submit" /\ "failed" \notin {"read", "cursor"}
    OBVIOUS
  <2> QED
    BY <1>2, <1>7, <2>1, <2>2, <2>3, <2>4, HandlerKeepsInv
<1>10. CASE SetCursor(j, i)
  <2>1. jobs' = Moved(j, i, "done", item.version) /\ item.stage = "cursor"
    BY <1>5, <1>10 DEF SetCursor, At, Restaged
  <2>2. /\ saved' = saved /\ excused' = excused
        /\ cursor' = cursor \/ cursor' = item.event
    BY <1>10 DEF SetCursor, past
  <2>3. saved \subseteq saved' /\ excused \subseteq excused'
    BY <2>2
  <2>4. "done" # "submit" /\ "done" \notin {"read", "cursor"} /\ item.stage # "submit"
    BY <2>1
  <2> QED
    BY <1>2, <1>7, <2>1, <2>2, <2>3, <2>4, HandlerKeepsInv
<1>11. CASE ReadBack(j, i)
  <2> DEFINE n == item.event
             v == store[Tx(n)].version
             next == IF v = 0 THEN "failed" ELSE IF HasCursor(n) THEN "cursor" ELSE "done"
  <2>1. jobs' = Reread(j, i, next, v) /\ item.stage = "read"
    BY <1>11 DEF ReadBack, At, Reread
  <2>2. saved' = saved /\ excused' = excused /\ cursor' = cursor
    BY <1>11 DEF ReadBack, past, storage
  <2>3. item.event \in saved
    BY <1>2, <2>1 DEF Inv, Stored
  <2>4. next # "submit"
    OBVIOUS
  <2> HIDE DEF next, v
  <2>5. jobs' = Moved(j, i, next, v)
    <3>1. Reread(j, i, next, v) = Moved(j, i, next, v)
      BY <1>6
    <3> QED
      BY <2>1, <3>1
  <2>6. saved \subseteq saved' /\ excused \subseteq excused'
    BY <2>2
  <2> QED
    BY <1>2, <1>7, <2>1, <2>2, <2>3, <2>4, <2>5, <2>6, HandlerKeepsInv
<1> QED
  BY <1>8, <1>9, <1>10, <1>11

(* A batch is put away when none of its submissions is under way.          *)
LEMMA FinishedKeepsInv ==
  ASSUME Inv, NEW j \in Jobs, \A i \in DOMAIN jobs[j] : jobs[j][i].stage # "submit",
         jobs' = [jobs EXCEPT ![j] = Idle],
         UNCHANGED <<log, cursor, opens, hist, live, buffer, saved, excused>>
  PROVE  Inv'
<1>1. FeedTypes /\ Shapes
  BY Typing DEF Inv
<1>2. /\ log' = log /\ cursor' = cursor /\ opens' = opens /\ hist' = hist /\ live' = live
      /\ buffer' = buffer /\ saved' = saved /\ excused' = excused
  OBVIOUS
<1>3. /\ jobs' = [x \in Jobs |-> jobs'[x]]
      /\ jobs'[j] = Idle /\ DOMAIN jobs'[j] = {} /\ Idle = [y \in DOMAIN Idle |-> Idle[y]]
      /\ \A x \in Jobs : x # j => jobs'[x] = jobs[x]
  BY <1>1 DEF FeedTypes, Idle
<1>4. \A x \in Jobs : \A y \in DOMAIN jobs'[x] : x # j /\ jobs'[x] = jobs[x]
  BY <1>3
<1>5. FeedTypes'
  <2>1. \A x \in Jobs : jobs'[x] = [y \in DOMAIN jobs'[x] |-> jobs'[x][y]]
    BY <1>1, <1>3 DEF FeedTypes
  <2>2. \A x \in Jobs : \A y \in DOMAIN jobs'[x] : IsItem(jobs'[x][y])
    BY <1>1, <1>4 DEF FeedTypes
  <2> QED
    BY <1>1, <1>2, <1>3, <2>1, <2>2 DEF FeedTypes
<1>6. Published' /\ Stored' /\ CursorNamesSaved'
  BY <1>2, <1>4 DEF Inv, Published, Stored, CursorNamesSaved
<1>7. Kept
  <2>1. ASSUME NEW n, Submitting(n)
        PROVE  Submitting(n)'
    <3>1. PICK x \in Jobs : \E y \in DOMAIN jobs[x] :
                 jobs[x][y].stage = "submit" /\ jobs[x][y].event = n
      BY <2>1 DEF Submitting
    <3>2. x # j /\ jobs'[x] = jobs[x]
      BY <3>1, <1>3
    <3> QED
      BY <3>1, <3>2 DEF Submitting
  <2>2. \A n : (Waits(n)' <=> Waits(n)) /\ (Owed(n)' <=> Owed(n))
    BY <1>2 DEF Waits, Owed
  <2> QED
    BY <1>2, <2>1, <2>2 DEF Kept, Accounted
<1>8. \A m \in Int : m <= Len(log) /\ Covered(m) => Covered(m)'
  BY <1>1, <1>2, <1>7, KeptCovers
<1>9. NothingBehind'
  <2>1. Covered(cursor)'
    BY <1>1, <1>2, <1>8 DEF Inv, NothingBehind, FeedTypes
  <2>2. \A l \in Opens : Covered(hist[l].last)' /\ Covered(live[l] - 1)'
    BY <1>1, <1>2, <1>8 DEF Inv, NothingBehind, Published, Shapes
  <2>3. \A l \in Opens : \A i \in 1..Len(buffer'[l]) : Covered(buffer[l][i])'
    BY <1>1, <1>2, <1>8 DEF Inv, NothingBehind, Published, Shapes, Numbers
  <2>4. \A x \in Jobs : \A y \in DOMAIN jobs'[x] : Covered(jobs[x][y].event)'
    BY <1>1, <1>4, <1>8 DEF Inv, NothingBehind, Published, Shapes, Numbers
  <2> QED
    BY <2>1, <2>2, <2>3, <2>4 DEF NothingBehind
<1> QED
  BY <1>5, <1>6, <1>9 DEF Inv

(* A batch ends told or given up, with no submission left.                 *)
LEMMA EndOfBatchKeepsInv ==
  ASSUME Inv, NEW j \in Jobs, Tell(j) \/ GiveUp(j)
  PROVE  Inv'
<1>1. \A i \in DOMAIN jobs[j] : jobs[j][i].stage # "submit"
  BY DEF Tell, GiveUp, At
<1>2. /\ jobs' = [jobs EXCEPT ![j] = Idle]
      /\ UNCHANGED <<log, cursor, opens, hist, live, buffer, saved, excused>>
  BY DEF Tell, GiveUp, storage, flows, past
<1> QED
  BY <1>1, <1>2, FinishedKeepsInv

(* The application dies: all that was on its way is given up.              *)
LEMMA CrashKeepsInv ==
  ASSUME Inv, Crash
  PROVE  Inv'
<1>1. FeedTypes /\ Shapes
  BY Typing DEF Inv
<1>2. log' = log /\ cursor' = cursor /\ opens' = opens /\ saved' = saved
  BY DEF Crash, storage
<1>3. /\ hist' = [k \in Opens |-> [next |-> 1, last |-> 0]]
      /\ live' = [k \in Opens |-> 0]
      /\ buffer' = [k \in Opens |-> <<>>]
      /\ jobs' = [j \in Jobs |-> <<>>]
      /\ excused' = excused \cup Buffered \cup InHandler \cup UNION {HistEvents(k) : k \in Opens}
  BY DEF Crash, Closed, Idle
<1>4. /\ \A k \in Opens : /\ hist'[k] = [next |-> 1, last |-> 0] /\ live'[k] = 0
                           /\ buffer'[k] = <<>> /\ Len(buffer'[k]) = 0
      /\ \A j \in Jobs : jobs'[j] = <<>> /\ DOMAIN jobs'[j] = {}
  BY <1>3
<1>5. FeedTypes'
  <2>1. \A j \in Jobs : /\ jobs'[j] = [i \in DOMAIN jobs'[j] |-> jobs'[j][i]]
                       /\ \A i \in DOMAIN jobs'[j] : IsItem(jobs'[j][i])
    BY <1>4
  <2>2. /\ hist' \in [Opens -> [next : Numbers, last : Nat]] /\ live' \in [Opens -> Nat]
        /\ buffer' \in [Opens -> Seq(Numbers)] /\ jobs' = [j \in Jobs |-> jobs'[j]]
    BY <1>3 DEF Numbers
  <2> QED
    BY <1>1, <1>2, <2>1, <2>2 DEF FeedTypes
<1>6. Published' /\ Stored' /\ CursorNamesSaved'
  BY <1>1, <1>2, <1>4 DEF Inv, Published, Stored, CursorNamesSaved, Shapes
<1>7. Kept
  <2>1. ASSUME NEW n \in 1..Len(log), Accounted(n)
        PROVE  n \in saved' \/ n \in excused'
    <3>1. CASE n \in saved \/ n \in excused
      BY <3>1, <1>2, <1>3
    <3>2. CASE Waits(n)
      BY <3>2, <1>3 DEF Waits, Buffered
    <3>3. CASE Submitting(n)
      BY <3>3, <1>3 DEF Submitting, InHandler, At
    <3>4. CASE Owed(n)
      BY <3>4, <1>1, <1>3 DEF Owed, HistEvents, Shapes, Numbers
    <3> QED
      BY <2>1, <3>1, <3>2, <3>3, <3>4 DEF Accounted
  <2> QED
    BY <2>1 DEF Kept, Accounted
<1>8. \A m \in Int : m <= Len(log) /\ Covered(m) => Covered(m)'
  BY <1>1, <1>2, <1>7, KeptCovers
<1>9. NothingBehind'
  <2>1. Covered(cursor)'
    BY <1>1, <1>2, <1>8 DEF Inv, NothingBehind, FeedTypes
  <2>2. \A l \in Opens : Covered(hist[l].last)' /\ Covered(live[l] - 1)'
    BY <1>4 DEF Covered
  <2> QED
    BY <1>4, <2>1, <2>2 DEF NothingBehind
<1> QED
  BY <1>5, <1>6, <1>9 DEF Inv

(* A flushed buffer: what it holds is submitted, unless it was removed.    *)
LEMMA ProcessSubmits ==
  ASSUME FeedTypes, NEW batch \in Seq(Numbers), Process(batch)
  PROVE  /\ jobs' = [x \in Jobs |-> jobs'[x]]
         /\ \A x \in Jobs : jobs'[x] = [y \in DOMAIN jobs'[x] |-> jobs'[x][y]]
         /\ \A x \in Jobs : \A y \in DOMAIN jobs'[x] :
              \/ y \in DOMAIN jobs[x] /\ jobs'[x][y] = jobs[x][y]
              \/ /\ jobs'[x][y] = [event |-> jobs'[x][y].event, stage |-> "submit", version |-> 0]
                 /\ \E i \in 1..Len(batch) : jobs'[x][y].event = batch[i]
         /\ \A n : Submitting(n) => Submitting(n)'
         /\ \A i \in 1..Len(batch) : Added(batch[i]) => Submitting(batch[i])'
<1> DEFINE added == {i \in DOMAIN batch : Added(batch[i])}
           new == [i \in added |-> [event |-> batch[i], stage |-> "submit", version |-> 0]]
<1>1. DOMAIN batch = 1..Len(batch)
  OBVIOUS
<1>2. CASE added = {}
  <2>1. jobs' = jobs
    BY <1>2 DEF Process
  <2>2. \A n : Submitting(n) => Submitting(n)'
    BY <2>1 DEF Submitting
  <2> QED
    BY <1>1, <1>2, <2>1, <2>2 DEF FeedTypes
<1>3. CASE added # {}
  <2>1. PICK j \in Jobs : jobs[j] = Idle /\ jobs' = [jobs EXCEPT ![j] = new]
    BY <1>3 DEF Process
  <2>2. /\ jobs' = [x \in Jobs |-> jobs'[x]] /\ jobs'[j] = new
        /\ \A x \in Jobs : x # j => jobs'[x] = jobs[x]
    BY <2>1 DEF FeedTypes
  <2>3. \A y \in DOMAIN jobs'[j] :
          /\ y \in added /\ y \in 1..Len(batch)
          /\ jobs'[j][y] = [event |-> batch[y], stage |-> "submit", version |-> 0]
    BY <1>1, <2>2
  <2>4. \A x \in Jobs : jobs'[x] = [y \in DOMAIN jobs'[x] |-> jobs'[x][y]]
    BY <2>2 DEF FeedTypes
  <2>5. \A x \in Jobs : \A y \in DOMAIN jobs'[x] :
          \/ y \in DOMAIN jobs[x] /\ jobs'[x][y] = jobs[x][y]
          \/ /\ jobs'[x][y] = [event |-> jobs'[x][y].event, stage |-> "submit", version |-> 0]
             /\ \E i \in 1..Len(batch) : jobs'[x][y].event = batch[i]
    BY <2>2, <2>3
  <2>6. ASSUME NEW n, Submitting(n)
        PROVE  Submitting(n)'
    <3>1. PICK x \in Jobs : \E y \in DOMAIN jobs[x] :
                 jobs[x][y].stage = "submit" /\ jobs[x][y].event = n
      BY <2>6 DEF Submitting
    <3>2. DOMAIN Idle = {}
      BY DEF Idle
    <3>3. x # j /\ jobs'[x] = jobs[x]
      BY <3>1, <3>2, <2>1, <2>2
    <3> QED
      BY <3>1, <3>3 DEF Submitting
  <2>7. ASSUME NEW i \in 1..Len(batch), Added(batch[i])
        PROVE  \E x \in Jobs : \E y \in DOMAIN jobs'[x] :
                 jobs'[x][y].stage = "submit" /\ jobs'[x][y].event = batch[i]
    <3>1. i \in DOMAIN jobs'[j]
      BY <1>1, <2>2, <2>7
    <3>2. jobs'[j][i] = [event |-> batch[i], stage |-> "submit", version |-> 0]
      BY <2>3, <3>1
    <3>3. jobs'[j][i].stage = "submit" /\ jobs'[j][i].event = batch[i]
      BY <3>2
    <3> QED
      BY <3>1, <3>3
  <2>8. \A i \in 1..Len(batch) : Added(batch[i]) => Submitting(batch[i])'
    BY <2>7 DEF Submitting
  <2> QED
    BY <2>2, <2>4, <2>5, <2>6, <2>8
<1> QED
  BY <1>2, <1>3

(* A flush of a buffer, with what its cause does to the flows: a history   *)
(* flow that ends gives up what it owed, a live flow may end.              *)
LEMMA FlushKeepsInv ==
  ASSUME Inv, NEW k \in Opens, FlushBuffer(k),
         UNCHANGED <<log, cursor, opens, saved>>, excused \subseteq excused',
         hist' \in [Opens -> [next : Numbers, last : Nat]],
         \A l \in Opens : hist'[l].last = hist[l].last /\ hist'[l].next >= hist[l].next,
         \A n \in 1..Len(log) : Owed(n) => Owed(n)' \/ n \in excused',
         live' \in [Opens -> Nat],
         \A l \in Opens : live'[l] \in {live[l], Closed}
  PROVE  Inv'
<1>1. FeedTypes /\ Shapes
  BY Typing DEF Inv
<1>2. log' = log /\ cursor' = cursor /\ opens' = opens /\ saved' = saved
  OBVIOUS
<1>3. /\ buffer' = [buffer EXCEPT ![k] = <<>>]
      /\ buffer' \in [Opens -> Seq(Numbers)] /\ buffer[k] \in Seq(Numbers)
      /\ buffer'[k] = <<>> /\ Len(buffer'[k]) = 0
      /\ \A l \in Opens : l # k => buffer'[l] = buffer[l]
  BY <1>1 DEF FlushBuffer, FeedTypes
<1> PICK batch \in Seq(Numbers) : batch = buffer[k]
  BY <1>3
<1>4. /\ jobs' = [x \in Jobs |-> jobs'[x]]
      /\ \A x \in Jobs : jobs'[x] = [y \in DOMAIN jobs'[x] |-> jobs'[x][y]]
      /\ \A x \in Jobs : \A y \in DOMAIN jobs'[x] :
           \/ y \in DOMAIN jobs[x] /\ jobs'[x][y] = jobs[x][y]
           \/ /\ jobs'[x][y] = [event |-> jobs'[x][y].event, stage |-> "submit", version |-> 0]
              /\ \E i \in 1..Len(batch) : jobs'[x][y].event = batch[i]
      /\ \A n : Submitting(n) => Submitting(n)'
      /\ \A i \in 1..Len(batch) : Added(batch[i]) => Submitting(batch[i])'
  <2>1. CASE buffer[k] = <<>>
    <3>1. jobs' = jobs /\ Len(buffer[k]) = 0
      BY <2>1 DEF FlushBuffer
    <3>2. \A n : Submitting(n) => Submitting(n)'
      BY <3>1 DEF Submitting
    <3> QED
      BY <1>1, <3>1, <3>2 DEF FeedTypes
  <2>2. CASE buffer[k] # <<>>
    <3>1. Process(batch)
      BY <2>2 DEF FlushBuffer
    <3> QED
      BY <1>1, <3>1, ProcessSubmits
  <2> QED
    BY <2>1, <2>2
<1>5. \A x \in Jobs : \A y \in DOMAIN jobs'[x] :
        /\ IsItem(jobs'[x][y])
        /\ jobs'[x][y].event <= Len(log)
        /\ Covered(jobs'[x][y].event)
        /\ jobs'[x][y].stage \in {"read", "cursor"} => jobs'[x][y].event \in saved
  <2> SUFFICES ASSUME NEW x \in Jobs, NEW y \in DOMAIN jobs'[x]
               PROVE  /\ IsItem(jobs'[x][y])
                      /\ jobs'[x][y].event <= Len(log)
                      /\ Covered(jobs'[x][y].event)
                      /\ jobs'[x][y].stage \in {"read", "cursor"} => jobs'[x][y].event \in saved
    OBVIOUS
  <2>1. CASE y \in DOMAIN jobs[x] /\ jobs'[x][y] = jobs[x][y]
    BY <2>1, <1>1 DEF FeedTypes, Inv, Published, NothingBehind, Stored
  <2>2. CASE /\ jobs'[x][y] = [event |-> jobs'[x][y].event, stage |-> "submit", version |-> 0]
             /\ \E i \in 1..Len(batch) : jobs'[x][y].event = batch[i]
    <3>1. PICK i \in 1..Len(batch) : jobs'[x][y].event = batch[i]
      BY <2>2
    <3>2. /\ jobs'[x][y].event \in Numbers /\ jobs'[x][y].event <= Len(log)
          /\ Covered(jobs'[x][y].event)
      BY <3>1, <1>1 DEF Inv, Published, NothingBehind, Shapes
    <3>3. /\ jobs'[x][y].stage = "submit" /\ jobs'[x][y].version = 0
      BY <2>2
    <3>4. IsItem(jobs'[x][y])
      BY <2>2, <3>2, <3>3 DEF IsItem
    <3> QED
      BY <3>2, <3>3, <3>4
  <2> QED
    BY <2>1, <2>2, <1>4
<1>6. FeedTypes'
  BY <1>1, <1>2, <1>3, <1>4, <1>5 DEF FeedTypes
<1>7. Published' /\ Stored' /\ CursorNamesSaved'
  <2>1. ASSUME NEW l \in Opens
        PROVE  /\ hist'[l].last <= Len(log') /\ live'[l] <= Len(log') + 1
               /\ l > opens' => hist'[l].next > hist'[l].last
    <3>1. /\ hist'[l].last = hist[l].last /\ hist'[l].next >= hist[l].next
          /\ live'[l] = live[l] \/ live'[l] = 0
      BY DEF Closed
    <3>2. hist'[l].next \in Nat /\ hist[l].next \in Nat /\ hist[l].last \in Nat
      BY <1>1 DEF Shapes, Numbers
    <3>3. /\ hist[l].last <= Len(log) /\ live[l] <= Len(log) + 1
          /\ l > opens => hist[l].next > hist[l].last
      BY DEF Inv, Published
    <3>4. hist'[l].last <= Len(log') /\ live'[l] <= Len(log') + 1
      BY <1>1, <1>2, <3>1, <3>3 DEF Shapes
    <3>5. l > opens' => hist'[l].next > hist'[l].last
      BY <1>2, <3>1, <3>2, <3>3
    <3> QED
      BY <3>4, <3>5
  <2>3. \A l \in Opens : \A i \in 1..Len(buffer'[l]) : buffer'[l][i] <= Len(log')
    BY <1>2, <1>3 DEF Inv, Published
  <2>4. Published'
    BY <1>2, <1>5, <2>1, <2>3 DEF Published
  <2> QED
    BY <1>2, <1>5, <2>4 DEF Inv, Stored, CursorNamesSaved
<1>8. Kept
  <2>1. ASSUME NEW n, Added(n), Waits(n)
        PROVE  Waits(n)' \/ Submitting(n)'
    <3>1. PICK l \in Opens : \E i \in 1..Len(buffer[l]) : buffer[l][i] = n
      BY <2>1 DEF Waits
    <3>2. CASE l = k
      <4>1. PICK i \in 1..Len(batch) : batch[i] = n
        BY <3>1, <3>2
      <4> QED
        BY <2>1, <4>1, <1>4
    <3>3. CASE l # k
      BY <3>1, <3>3, <1>3 DEF Waits
    <3> QED
      BY <3>2, <3>3
  <2> QED
    BY <1>2, <1>4, <2>1 DEF Kept, Accounted
<1>9. \A m \in Int : m <= Len(log) /\ Covered(m) => Covered(m)'
  BY <1>1, <1>2, <1>8, KeptCovers
<1>10. NothingBehind'
  <2>1. Covered(cursor)'
    BY <1>1, <1>2, <1>9 DEF Inv, NothingBehind, FeedTypes
  <2>2. \A l \in Opens : Covered(hist[l].last)'
    BY <1>1, <1>2, <1>9 DEF Inv, NothingBehind, Published, Shapes
  <2>3. \A l \in Opens : Covered(live[l] - 1)'
    <3> SUFFICES ASSUME NEW l \in Opens
                 PROVE  Covered(live[l] - 1)'
      OBVIOUS
    <3>1. CASE live'[l] = live[l]
      BY <3>1, <1>1, <1>9 DEF Inv, NothingBehind, Published, Shapes
    <3>2. CASE live'[l] = Closed
      BY <3>2 DEF Covered, Closed
    <3> QED
      BY <3>1, <3>2
  <2>4. \A l \in Opens : \A i \in 1..Len(buffer'[l]) : Covered(buffer[l][i])'
    BY <1>1, <1>3, <1>9 DEF Inv, NothingBehind, Published, Shapes, Numbers
  <2>5. \A x \in Jobs : \A y \in DOMAIN jobs'[x] : Covered(jobs[x][y].event)'
    <3> SUFFICES ASSUME NEW x \in Jobs, NEW y \in DOMAIN jobs'[x]
                 PROVE  Covered(jobs[x][y].event)'
      OBVIOUS
    <3>1. IsItem(jobs'[x][y])
      BY <1>5
    <3>2. PICK m \in Int : m = jobs'[x][y].event
      BY <3>1 DEF IsItem, Numbers
    <3>3. m <= Len(log) /\ Covered(m)
      BY <1>5, <3>2
    <3> QED
      BY <1>9, <3>2, <3>3
  <2> QED
    BY <2>1, <2>2, <2>3, <2>4, <2>5 DEF NothingBehind
<1> QED
  BY <1>6, <1>7, <1>10 DEF Inv

(* A flush for time or size, at the end of a flow, or after its error.     *)
LEMMA FlushesKeepInv ==
  ASSUME Inv, NEW k \in Opens, Flush(k) \/ HistoryFails(k) \/ LiveEnds(k)
  PROVE  Inv'
<1>1. FeedTypes /\ Shapes
  BY Typing DEF Inv
<1>2. hist \in [Opens -> [next : Numbers, last : Nat]] /\ live \in [Opens -> Nat]
  BY <1>1 DEF FeedTypes
<1>3. FlushBuffer(k) /\ UNCHANGED <<log, cursor, opens, saved>>
  BY DEF Flush, HistoryFails, LiveEnds, storage, flows
<1>4. CASE Flush(k) \/ LiveEnds(k)
  <2>1. hist' = hist /\ excused' = excused
    BY <1>4 DEF Flush, LiveEnds, flows
  <2>2. live' = live \/ live' = [live EXCEPT ![k] = Closed]
    BY <1>4 DEF Flush, LiveEnds, flows
  <2>3. live' \in [Opens -> Nat] /\ \A l \in Opens : live'[l] \in {live[l], Closed}
    BY <1>2, <2>2 DEF Closed
  <2>4. \A n : Owed(n) => Owed(n)'
    BY <2>1 DEF Owed
  <2>5. \A l \in Opens : hist'[l].last = hist[l].last /\ hist'[l].next >= hist[l].next
    BY <1>1, <2>1 DEF Shapes, Numbers
  <2> QED
    BY <1>2, <1>3, <2>1, <2>3, <2>4, <2>5, FlushKeepsInv
<1>5. CASE HistoryFails(k)
  <2>1. /\ excused' = excused \cup HistEvents(k) /\ live' = live
        /\ hist' = [hist EXCEPT ![k].next = hist[k].last + 1]
        /\ hist[k].next <= hist[k].last
    BY <1>1, <1>5 DEF HistoryFails, HistEvents, Shapes, Numbers
  <2>2. /\ hist' \in [Opens -> [next : Numbers, last : Nat]]
        /\ \A l \in Opens : hist'[l].last = hist[l].last /\ hist'[l].next >= hist[l].next
        /\ \A l \in Opens : l # k => hist'[l] = hist[l]
    BY <1>1, <1>2, <2>1 DEF Shapes, Numbers
  <2>3. ASSUME NEW n \in 1..Len(log), Owed(n)
        PROVE  Owed(n)' \/ n \in excused'
    <3>1. PICK l \in Opens : hist[l].next <= n /\ n <= hist[l].last
      BY <2>3 DEF Owed
    <3>2. CASE l = k
      BY <3>1, <3>2, <1>1, <2>1 DEF HistEvents, Shapes, Numbers
    <3>3. CASE l # k
      BY <3>1, <3>3, <2>2 DEF Owed
    <3> QED
      BY <3>2, <3>3
  <2>4. \A l \in Opens : live'[l] \in {live[l], Closed}
    BY <2>1
  <2> QED
    BY <1>2, <1>3, <2>1, <2>2, <2>3, <2>4, FlushKeepsInv
<1> QED
  BY <1>4, <1>5

(* Every step of the feed preserves the inductive invariant.               *)
LEMMA NextKeepsInv == Inv /\ [Next]_vars => Inv'
<1> SUFFICES ASSUME Inv, [Next]_vars
             PROVE  Inv'
  OBVIOUS
<1>1. ASSUME NEW t \in Txs, NEW kind \in Kinds, Publish(t, kind)
      PROVE  Inv'
  BY <1>1, PublishKeepsInv
<1>2. CASE StartService \/ Resubscribe
  BY <1>2, StartKeepsInv
<1>3. CASE ResetCursor
  BY <1>3, ResetKeepsInv
<1>4. ASSUME NEW k \in Opens, ReceiveHistory(k)
      PROVE  Inv'
  BY <1>4, ReceiveHistoryKeepsInv
<1>5. ASSUME NEW k \in Opens, ReceiveLive(k)
      PROVE  Inv'
  BY <1>5, ReceiveLiveKeepsInv
<1>6. ASSUME NEW k \in Opens, Flush(k) \/ HistoryFails(k) \/ LiveEnds(k)
      PROVE  Inv'
  BY <1>6, FlushesKeepInv
<1>7. ASSUME NEW j \in Jobs, NEW i \in 1..MaxBatch,
             Submit(j, i) \/ ReadBack(j, i) \/ SubmitFails(j, i) \/ SetCursor(j, i)
      PROVE  Inv'
  BY <1>7, HandlerStepsKeepInv
<1>8. ASSUME NEW j \in Jobs, Tell(j) \/ GiveUp(j)
      PROVE  Inv'
  BY <1>8, EndOfBatchKeepsInv
<1>9. ASSUME NEW t \in Txs, Remove(t) \/ Purge(t)
      PROVE  Inv'
  <2>1. UNCHANGED <<log, cursor, opens, hist, live, buffer, jobs, saved, excused>>
    BY <1>9 DEF Remove, Purge, flows, past
  <2> QED
    BY <2>1, AsideKeepsInv
<1>10. CASE TellPurged \/ ShowWallet \/ UNCHANGED vars
  <2>1. UNCHANGED <<log, cursor, opens, hist, live, buffer, jobs, saved, excused>>
    BY <1>10 DEF TellPurged, ShowWallet, vars, storage, flows, past
  <2> QED
    BY <2>1, AsideKeepsInv
<1>11. CASE Crash
  BY <1>11, CrashKeepsInv
<1> QED
  BY <1>1, <1>2, <1>3, <1>4, <1>5, <1>6, <1>7, <1>8, <1>9, <1>10, <1>11 DEF Next

(* For every set of transactions and every bound, whatever the order in    *)
(* which storage threads land, fail or die: processTransaction stores the  *)
(* cursor of an event only after its transaction was stored.               *)
THEOREM CursorIsSafe == Spec => []CursorNamesSaved
<1>1. Init => Inv
  BY InitInv
<1>2. Inv /\ [Next]_vars => Inv'
  BY NextKeepsInv
<1>3. Inv => CursorNamesSaved
  BY DEF Inv
<1> QED
  BY <1>1, <1>2, <1>3, PTL DEF Spec

-----------------------------------------------------------------------------
(* What the screen shows.  A transaction that no exception was made of is  *)
(* on its way in at most one place of a batch, or leaving, never both      *)
(* (Single, Leaving); what a batch read of it is not newer than what is    *)
(* stored (Coming), nor is its row (RowFits); and unless the row is the    *)
(* stored version, some batch is still to bring it (Shows).                *)

(* The places of a batch that name transaction t.                          *)
Of(j, t) == {i \in DOMAIN jobs[j] : Tx(jobs[j][i].event) = t}
Touches(t) == \E j \in Jobs : Of(j, t) # {}
Expected(t) == IF store[t] = Absent THEN <<>> ELSE <<store[t].version>>

(* A submission that will bring the stored version to the screen.          *)
Carries(x, t) ==
  \/ x.stage = "read"
  \/ x.stage \in {"cursor", "done"} /\ x.version = store[t].version

Single(t) == \A j \in Jobs : \A h, i \in Of(j, t) : h = i

Leaving(t) ==
  /\ removing[t] > 0 => ~Touches(t) /\ rows[t] = <<>>
  /\ t \in purge.told => ~Touches(t) /\ (t \notin purge.left => store[t] = Absent)

Coming(t) ==
  \A j \in Jobs : \A i \in Of(j, t) :
    /\ jobs[j][i].stage = "read" => store[t].version > 0
    /\ jobs[j][i].stage \in {"cursor", "done"} => jobs[j][i].version \in 1..store[t].version

RowFits(t) ==
  \/ rows[t] = <<>>
  \/ shown /\ (t \in purge.told \/ \E v \in 1..store[t].version : rows[t] = <<v>>)

Shows(t) ==
  (removing[t] = 0 /\ t \notin purge.told /\ shown) =>
    rows[t] = Expected(t) \/ \E j \in Jobs : \E i \in Of(j, t) : Carries(jobs[j][i], t)

Tidy(t) == Single(t) /\ Leaving(t) /\ Coming(t) /\ RowFits(t) /\ Shows(t)

ScreenTypes ==
  /\ store \in [Txs -> [version : Nat, submitted : BOOLEAN]]
  /\ \A t \in Txs : store[t].version = 0 => store[t] = Absent
  /\ removing \in [Txs -> Nat]
  /\ purge \in [left : SUBSET Txs, told : SUBSET Txs] /\ purge.left \subseteq purge.told

ScreenInv == ScreenTypes /\ \A t \in Txs \ clash : Tidy(t)

(* The batches name t in the same places, at the same stages.              *)
SamePlaces(t) ==
  \A j \in Jobs : Of(j, t)' = Of(j, t) /\ \A i \in Of(j, t) : jobs'[j][i] = jobs[j][i]

(* A step that concerns other transactions.                                *)
LEMMA Untouched ==
  ASSUME NEW t \in Txs, Tidy(t), SamePlaces(t), store'[t] = store[t], removing'[t] = removing[t],
         t \in purge'.told <=> t \in purge.told, t \in purge'.left <=> t \in purge.left,
         rows'[t] = rows[t], shown' = shown
  PROVE  Tidy(t)'
<1>1. Touches(t)' <=> Touches(t)
  BY DEF Touches, SamePlaces
<1>2. Single(t)' /\ Coming(t)'
  BY DEF Tidy, Single, Coming, SamePlaces
<1>3. Leaving(t)' /\ RowFits(t)'
  BY <1>1 DEF Tidy, Leaving, RowFits
<1>4. \A j \in Jobs : \A i \in Of(j, t) : Carries(jobs[j][i], t) => Carries(jobs[j][i], t)'
  BY DEF Carries, SamePlaces
<1>5. Expected(t)' = Expected(t)
  BY DEF Expected
<1>6. Shows(t)'
  BY <1>4, <1>5 DEF Tidy, Shows, SamePlaces
<1> QED
  BY <1>2, <1>3, <1>6 DEF Tidy

(* Batches that stay as they are name a transaction where they did.        *)
LEMMA SameJobs ==
  ASSUME jobs' = jobs, log' = log, NEW t
  PROVE  SamePlaces(t)
  BY DEF SamePlaces, Of, Tx

(* A step with nothing but the feed in it.                                 *)
LEMMA AsideKeepsScreen ==
  ASSUME ScreenInv, UNCHANGED <<log, store, removing, purge, rows, shown, jobs>>, clash \subseteq clash'
  PROVE  ScreenInv'
<1>1. ScreenTypes'
  BY DEF ScreenInv, ScreenTypes
<1>2. ASSUME NEW t \in Txs \ clash'
      PROVE  Tidy(t)'
  <2>1. Tidy(t) /\ SamePlaces(t)
    BY SameJobs DEF ScreenInv
  <2> QED
    BY <2>1, Untouched
<1> QED
  BY <1>1, <1>2 DEF ScreenInv

(* A new event says nothing of the events before it.                       *)
LEMMA PublishKeepsScreen ==
  ASSUME Inv, ScreenInv, NEW u \in Txs, NEW kind \in Kinds, Publish(u, kind)
  PROVE  ScreenInv'
<1>1. UNCHANGED <<store, removing, purge, rows, shown, jobs, clash>>
  BY DEF Publish, storage, screen, past
<1>2. \A n \in 1..Len(log) : log'[n] = log[n]
  BY DEF Publish, Inv, FeedTypes
<1>3. \A j \in Jobs : \A i \in DOMAIN jobs[j] : Tx(jobs[j][i].event)' = Tx(jobs[j][i].event)
  BY <1>1, <1>2, Typing DEF Inv, Published, Shapes, Numbers, Tx
<1>4. \A t : SamePlaces(t)
  BY <1>1, <1>3 DEF SamePlaces, Of
<1>5. ScreenTypes'
  BY <1>1 DEF ScreenInv, ScreenTypes
<1>6. ASSUME NEW t \in Txs \ clash'
      PROVE  Tidy(t)'
  BY <1>1, <1>4, Untouched DEF ScreenInv
<1> QED
  BY <1>5, <1>6 DEF ScreenInv

(* start(): what is only submitted leaves, unless a batch has news of it.  *)
LEMMA StartKeepsScreen ==
  ASSUME ScreenInv, StartService
  PROVE  ScreenInv'
<1> DEFINE stale == {t \in Txs : store[t].submitted}
<1>1. /\ UNCHANGED <<log, store, removing, rows, shown, jobs>>
      /\ purge = NoPurge /\ purge' = [left |-> stale, told |-> stale]
      /\ clash' = clash \cup (stale \cap Touched)
  BY DEF StartService, storage, screen
<1>2. purge'.left = stale /\ purge'.told = stale /\ purge.told = {} /\ purge.left = {}
  BY <1>1 DEF NoPurge
<1>3. ScreenTypes'
  BY <1>1, <1>2 DEF ScreenInv, ScreenTypes
<1>4. ASSUME NEW t \in Txs \ clash'
      PROVE  Tidy(t)'
  <2>1. Tidy(t) /\ SamePlaces(t)
    BY <1>1, SameJobs DEF ScreenInv
  <2>2. CASE t \notin stale
    BY <2>1, <2>2, <1>1, <1>2, Untouched
  <2>3. CASE t \in stale
    <3>1. t \notin Touched
      BY <2>3, <1>1
    <3>2. ~Touches(t)
      BY <3>1 DEF Touched, TxsOf, Touches, Of
    <3>3. ~Touches(t)' /\ Single(t)' /\ Coming(t)'
      BY <3>2, <2>1 DEF Touches, SamePlaces, Single, Coming
    <3>4. Leaving(t)' /\ Shows(t)' /\ RowFits(t)'
      BY <3>3, <2>1, <2>3, <1>1, <1>2 DEF Tidy, Leaving, Shows, RowFits
    <3> QED
      BY <3>3, <3>4 DEF Tidy
  <2> QED
    BY <2>2, <2>3
<1> QED
  BY <1>3, <1>4 DEF ScreenInv

(* A wallet is shown as the storage has it.                                *)
LEMMA ShowKeepsScreen ==
  ASSUME ScreenInv, ShowWallet
  PROVE  ScreenInv'
<1>1. /\ UNCHANGED <<log, store, removing, purge, jobs>>
      /\ shown' = TRUE
      /\ rows' = [t \in Txs |-> IF store[t] = Absent THEN <<>> ELSE <<store[t].version>>]
      /\ clash' = clash \cup {t \in Txs : removing[t] > 0}
  BY DEF ShowWallet, storage
<1>2. ScreenTypes'
  BY <1>1 DEF ScreenInv, ScreenTypes
<1>3. ASSUME NEW t \in Txs \ clash'
      PROVE  Tidy(t)'
  <2>1. Tidy(t) /\ SamePlaces(t) /\ ~(removing[t] > 0)
    BY <1>1, SameJobs DEF ScreenInv
  <2>2. Single(t)' /\ Coming(t)' /\ (Touches(t)' <=> Touches(t))
    BY <1>1, <2>1 DEF Tidy, Single, Coming, Touches, SamePlaces
  <2>3. Leaving(t)'
    BY <1>1, <2>1, <2>2 DEF Tidy, Leaving
  <2>4. rows'[t] = Expected(t) /\ Expected(t)' = Expected(t)
    BY <1>1 DEF Expected
  <2>5. store[t] # Absent => store[t].version \in 1..store[t].version
    BY DEF ScreenInv, ScreenTypes
  <2>6. RowFits(t)'
    BY <1>1, <2>4, <2>5 DEF RowFits, Expected
  <2>7. Shows(t)'
    BY <2>4 DEF Shows
  <2> QED
    BY <2>2, <2>3, <2>6, <2>7 DEF Tidy
<1> QED
  BY <1>2, <1>3 DEF ScreenInv

(* The removals land, and the screen hears of those of start().            *)
LEMMA RemovalsKeepScreen ==
  ASSUME ScreenInv, NEW u \in Txs, Remove(u) \/ Purge(u)
  PROVE  ScreenInv'
<1>1. UNCHANGED <<log, rows, shown, jobs>> /\ clash \subseteq clash'
  BY DEF Remove, Purge, screen, past
<1>2. \A t \in Txs : t # u =>
        /\ store'[t] = store[t] /\ removing'[t] = removing[t]
        /\ t \in purge'.told <=> t \in purge.told
        /\ t \in purge'.left <=> t \in purge.left
  BY DEF Remove, Purge, ScreenInv, ScreenTypes
<1>3. ScreenTypes'
  <2>1. removing' \in [Txs -> Nat]
    BY DEF Remove, Purge, ScreenInv, ScreenTypes
  <2>2. /\ store' \in [Txs -> [version : Nat, submitted : BOOLEAN]]
        /\ \A t \in Txs : store'[t].version = 0 => store'[t] = Absent
    <3>1. store' = store \/ store' = [store EXCEPT ![u] = Absent]
      BY DEF Remove, Purge
    <3>2. Absent \in [version : Nat, submitted : BOOLEAN]
      BY DEF Absent
    <3> QED
      BY <3>1, <3>2 DEF ScreenInv, ScreenTypes
  <2>3. purge' \in [left : SUBSET Txs, told : SUBSET Txs] /\ purge'.left \subseteq purge'.told
    BY DEF Remove, Purge, ScreenInv, ScreenTypes
  <2> QED
    BY <2>1, <2>2, <2>3 DEF ScreenTypes
<1>4. ASSUME NEW t \in Txs \ clash'
      PROVE  Tidy(t)'
  <2>1. Tidy(t) /\ SamePlaces(t)
    BY <1>1, SameJobs DEF ScreenInv
  <2>2. CASE t # u
    BY <2>1, <2>2, <1>1, <1>2, Untouched
  <2>3. CASE t = u
    <3>1. ~Touches(t) /\ store'[t] = Absent
      BY <2>1, <2>3, <1>4 DEF Remove, Purge, Tidy, Leaving, ScreenInv, ScreenTypes
    <3>2. ~Touches(t)' /\ Single(t)' /\ Coming(t)'
      BY <3>1, <2>1 DEF Touches, SamePlaces, Single, Coming
    <3>3. Leaving(t)'
      BY <3>1, <3>2, <2>1, <2>3, <1>1 DEF Tidy, Leaving, Remove, Purge, ScreenInv, ScreenTypes
    <3>4. rows'[t] = <<>> \/ t \in purge'.told
      BY <2>1, <2>3, <1>1 DEF Tidy, Leaving, Remove, Purge, ScreenInv, ScreenTypes
    <3>5. RowFits(t)' /\ Shows(t)'
      BY <3>1, <3>4, <2>1, <1>1 DEF Tidy, RowFits, Shows, Expected
    <3> QED
      BY <3>2, <3>3, <3>5 DEF Tidy
  <2> QED
    BY <2>2, <2>3
<1> QED
  BY <1>3, <1>4 DEF ScreenInv

(* What start() removed leaves the screen when it has left the storage.    *)
LEMMA PurgedKeepsScreen ==
  ASSUME ScreenInv, TellPurged
  PROVE  ScreenInv'
<1>1. /\ UNCHANGED <<log, store, removing, shown, jobs, clash>>
      /\ purge.left = {} /\ purge' = NoPurge
      /\ rows' = [t \in Txs |-> IF t \in purge.told THEN <<>> ELSE rows[t]]
  BY DEF TellPurged, storage, past
<1>2. purge'.left = {} /\ purge'.told = {}
  BY <1>1 DEF NoPurge
<1>3. ScreenTypes'
  BY <1>1, <1>2 DEF ScreenInv, ScreenTypes, NoPurge
<1>4. ASSUME NEW t \in Txs \ clash'
      PROVE  Tidy(t)'
  <2>1. Tidy(t) /\ SamePlaces(t)
    BY <1>1, SameJobs DEF ScreenInv
  <2>2. CASE t \notin purge.told
    BY <2>1, <2>2, <1>1, <1>2, Untouched
  <2>3. CASE t \in purge.told
    <3>1. ~Touches(t) /\ store[t] = Absent /\ rows'[t] = <<>>
      BY <2>1, <2>3, <1>1 DEF Tidy, Leaving
    <3>2. ~Touches(t)' /\ Single(t)' /\ Coming(t)'
      BY <3>1, <2>1 DEF Touches, SamePlaces, Single, Coming
    <3>3. Leaving(t)' /\ RowFits(t)' /\ Shows(t)'
      BY <3>1, <3>2, <1>1, <1>2 DEF Leaving, RowFits, Shows, Expected
    <3> QED
      BY <3>2, <3>3 DEF Tidy
  <2> QED
    BY <2>2, <2>3
<1> QED
  BY <1>3, <1>4 DEF ScreenInv

(* The versions a batch read of a transaction that it names once, or not.  *)
LEMMA VersionsOfOne ==
  ASSUME NEW batch, NEW t
  PROVE  LET places == {i \in DOMAIN batch : Tx(batch[i].event) = t}
         IN  /\ places = {} => Versions(batch, t) = <<>>
             /\ \A p : places = {p} => Versions(batch, t) = <<batch[p].version>>
<1> DEFINE places == {i \in DOMAIN batch : Tx(batch[i].event) = t}
           ranks == 1..Cardinality(places)
           Ordered(o) == \A r, s \in ranks : r < s => o[r] < o[s]
           order == CHOOSE o \in [ranks -> places] : Ordered(o)
<1>1. Versions(batch, t) = [r \in ranks |-> batch[order[r]].version]
  BY DEF Versions
<1>2. ASSUME places = {}
      PROVE  Versions(batch, t) = <<>>
  <2>1. ranks = {}
    BY <1>2, FS_EmptySet
  <2> HIDE DEF ranks, order
  <2> QED
    BY <1>1, <2>1
<1>3. ASSUME NEW p, places = {p}
      PROVE  Versions(batch, t) = <<batch[p].version>>
  <2>1. ranks = 1..1
    BY <1>3, FS_Singleton
  <2>2. [r \in ranks |-> p] \in [ranks -> places] /\ Ordered([r \in ranks |-> p])
    BY <1>3, <2>1
  <2> HIDE DEF places, ranks, Ordered
  <2>3. order \in [ranks -> places]
    BY <2>2
  <2>4. order[1] = p
    BY <2>1, <2>3, <1>3
  <2> HIDE DEF order
  <2>5. [r \in 1..1 |-> batch[order[r]].version] = [r \in 1..1 |-> batch[p].version]
    BY <2>4
  <2>6. [r \in 1..1 |-> batch[p].version] = <<batch[p].version>>
    OBVIOUS
  <2> QED
    BY <1>1, <2>1, <2>5, <2>6
<1> QED
  BY <1>2, <1>3

(* A row takes the newer of its version and the one that was read.         *)
LEMMA UpdatedOne ==
  ASSUME NEW r \in Nat, NEW v \in Nat
  PROVE  /\ Updated(<<>>, <<v>>) = <<v>>
         /\ Updated(<<r>>, <<v>>) = <<IF r > v THEN r ELSE v>>
<1>1. <<v>> # <<>> /\ <<r>> # <<>> /\ <<v>>[1] = v /\ DOMAIN <<r>> = 1..1 /\ <<r>>[1] = r
  OBVIOUS
<1>2. Updated(<<r>>, <<v>>) = [x \in 1..1 |-> IF <<r>>[x] > v THEN <<r>>[x] ELSE v]
  BY <1>1 DEF Updated
<1>3. [x \in 1..1 |-> IF <<r>>[x] > v THEN <<r>>[x] ELSE v] = [x \in 1..1 |-> IF r > v THEN r ELSE v]
  BY <1>1
<1>4. \A e : [x \in 1..1 |-> e] = <<e>>
  OBVIOUS
<1> QED
  BY <1>1, <1>2, <1>3, <1>4 DEF Updated

(* The places of jobs of which one submission moves on.                    *)
LEMMA MovedPlaces ==
  ASSUME FeedTypes, log' = log, NEW j \in Jobs, NEW i \in DOMAIN jobs[j], NEW s, NEW v,
         jobs' = Moved(j, i, s, v)
  PROVE  /\ \A t : \A x \in Jobs : Of(x, t)' = Of(x, t)
         /\ jobs'[j][i] = [event |-> jobs[j][i].event, stage |-> s, version |-> v]
         /\ \A x \in Jobs : \A y \in DOMAIN jobs[x] : x # j \/ y # i => jobs'[x][y] = jobs[x][y]
<1>1. /\ jobs'[j] = [jobs[j] EXCEPT ![i] =
                       [event |-> jobs[j][i].event, stage |-> s, version |-> v]]
      /\ \A x \in Jobs : x # j => jobs'[x] = jobs[x]
  BY DEF FeedTypes, Moved
<1>2. /\ jobs'[j][i] = [event |-> jobs[j][i].event, stage |-> s, version |-> v]
      /\ \A x \in Jobs : DOMAIN jobs'[x] = DOMAIN jobs[x]
      /\ \A x \in Jobs : \A y \in DOMAIN jobs[x] : x # j \/ y # i => jobs'[x][y] = jobs[x][y]
  BY <1>1
<1>3. jobs'[j][i].event = jobs[j][i].event
  BY <1>2
<1>4. \A x \in Jobs : \A y \in DOMAIN jobs[x] : jobs'[x][y].event = jobs[x][y].event
  BY <1>2, <1>3
<1>5. \A t : \A x \in Jobs : Of(x, t)' = Of(x, t)
  BY <1>2, <1>4 DEF Of, Tx
<1> QED
  BY <1>2, <1>5

(* A submission that moves on concerns its own transaction only.           *)
LEMMA MovedKeepsOthers ==
  ASSUME FeedTypes, log' = log, NEW j \in Jobs, NEW i \in DOMAIN jobs[j], NEW s, NEW v,
         jobs' = Moved(j, i, s, v), NEW t \in Txs, Tidy(t), t # Tx(jobs[j][i].event),
         store'[t] = store[t], UNCHANGED <<removing, purge, rows, shown>>
  PROVE  Tidy(t)'
<1>1. i \notin Of(j, t)
  BY DEF Of
<1>2. /\ \A x \in Jobs : Of(x, t)' = Of(x, t)
      /\ \A x \in Jobs : \A y \in DOMAIN jobs[x] : x # j \/ y # i => jobs'[x][y] = jobs[x][y]
  BY MovedPlaces
<1>3. \A x \in Jobs : Of(x, t) \subseteq DOMAIN jobs[x]
  BY DEF Of
<1>4. SamePlaces(t)
  BY <1>1, <1>2, <1>3 DEF SamePlaces
<1> QED
  BY <1>4, Untouched

(* What the four steps of a submission have in common.                     *)
LEMMA MovedKeepsOwn ==
  ASSUME FeedTypes, log' = log, NEW j \in Jobs, NEW i \in DOMAIN jobs[j], NEW s, NEW v,
         jobs' = Moved(j, i, s, v), NEW t \in Txs, Tidy(t), t = Tx(jobs[j][i].event),
         UNCHANGED <<removing, purge, rows, shown>>,
         store[t].version \in Nat, store'[t].version \in Nat,
         store'[t].version >= store[t].version,
         s = "read" => store'[t].version > 0,
         s \in {"cursor", "done"} => v \in 1..store'[t].version,
         \/ s = "read" \/ (s \in {"cursor", "done"} /\ v = store'[t].version)
         \/ store'[t] = store[t] /\ (Carries(jobs[j][i], t) => s \in {"cursor", "done"} /\ v = store[t].version)
  PROVE  Tidy(t)'
<1>1. /\ \A x \in Jobs : Of(x, t)' = Of(x, t)
      /\ jobs'[j][i] = [event |-> jobs[j][i].event, stage |-> s, version |-> v]
      /\ \A x \in Jobs : \A y \in DOMAIN jobs[x] : x # j \/ y # i => jobs'[x][y] = jobs[x][y]
  BY MovedPlaces
<1>2. jobs'[j][i].stage = s /\ jobs'[j][i].version = v
  BY <1>1
<1>3. i \in Of(j, t)
  BY DEF Of
<1>4. removing' = removing /\ purge' = purge /\ rows' = rows /\ shown' = shown
  OBVIOUS
<1>5. Touches(t) /\ Touches(t)'
  BY <1>1, <1>3 DEF Touches
<1>6. ~(removing[t] > 0) /\ t \notin purge.told
  BY <1>5 DEF Tidy, Leaving
<1>7. Single(t)' /\ Leaving(t)'
  BY <1>1, <1>4, <1>6 DEF Tidy, Single, Leaving
<1>8. Coming(t)'
  <2> SUFFICES ASSUME NEW x \in Jobs, NEW y \in Of(x, t)
               PROVE  /\ jobs'[x][y].stage = "read" => store'[t].version > 0
                      /\ jobs'[x][y].stage \in {"cursor", "done"} => jobs'[x][y].version \in 1..store'[t].version
    BY <1>1 DEF Coming
  <2>1. CASE x = j /\ y = i
    BY <2>1, <1>2
  <2>2. CASE x # j \/ y # i
    <3>1. jobs'[x][y] = jobs[x][y]
      BY <2>2, <1>1 DEF Of
    <3>2. /\ jobs[x][y].stage = "read" => store[t].version > 0
          /\ jobs[x][y].stage \in {"cursor", "done"} => jobs[x][y].version \in 1..store[t].version
      BY DEF Tidy, Coming
    <3> QED
      BY <3>1, <3>2
  <2> QED
    BY <2>1, <2>2
<1>9. RowFits(t)'
  <2>1. /\ rows' = rows /\ shown' = shown /\ purge' = purge
        /\ store[t].version \in Nat /\ store'[t].version \in Nat
        /\ store'[t].version >= store[t].version
    OBVIOUS
  <2>2. \A w \in 1..store[t].version : w \in 1..store'[t].version
    BY <2>1
  <2>3. CASE rows[t] = <<>>
    BY <2>1, <2>3 DEF RowFits
  <2>4. CASE shown /\ t \in purge.told
    BY <2>1, <2>4 DEF RowFits
  <2>5. CASE shown /\ \E w \in 1..store[t].version : rows[t] = <<w>>
    <3>1. PICK w \in 1..store[t].version : rows[t] = <<w>>
      BY <2>5
    <3>2. w \in 1..store'[t].version
      BY <2>2
    <3> QED
      BY <2>1, <2>5, <3>1, <3>2 DEF RowFits
  <2> QED
    BY <2>3, <2>4, <2>5 DEF Tidy, RowFits
<1>10. Shows(t)'
  <2>1. CASE s = "read" \/ (s \in {"cursor", "done"} /\ v = store'[t].version)
    <3>1. Carries(jobs[j][i], t)'
      BY <2>1, <1>2 DEF Carries
    <3> QED
      BY <3>1, <1>1, <1>3 DEF Shows
  <2>2. CASE store'[t] = store[t] /\ (Carries(jobs[j][i], t) => s \in {"cursor", "done"} /\ v = store[t].version)
    <3>1. Expected(t)' = Expected(t)
      BY <2>2 DEF Expected
    <3>2. ASSUME NEW x \in Jobs, NEW y \in Of(x, t), Carries(jobs[x][y], t)
          PROVE  Carries(jobs[x][y], t)'
      <4>1. CASE x = j /\ y = i
        BY <4>1, <3>2, <2>2, <1>2 DEF Carries
      <4>2. CASE x # j \/ y # i
        <5>1. jobs'[x][y] = jobs[x][y]
          BY <4>2, <1>1 DEF Of
        <5> QED
          BY <5>1, <3>2, <2>2 DEF Carries
      <4> QED
        BY <4>1, <4>2
    <3> QED
      BY <3>1, <3>2, <1>1, <1>4 DEF Tidy, Shows
  <2> QED
    BY <2>1, <2>2
<1> QED
  BY <1>7, <1>8, <1>9, <1>10 DEF Tidy

(* What a sequence of something holds.                                     *)
LEMMA InSequence ==
  ASSUME NEW T, NEW q \in Seq(T), NEW m \in 1..Len(q)
  PROVE  q[m] \in T
  OBVIOUS

(* A submission brings a newer version, and will read it back.             *)
LEMMA SubmitKeepsScreen ==
  ASSUME Inv, ScreenInv, NEW j \in Jobs, NEW i \in DOMAIN jobs[j], Submit(j, i)
  PROVE  ScreenInv'
<1> DEFINE n == jobs[j][i].event
           u == Tx(n)
<1>1. FeedTypes
  BY DEF Inv
<1>2. /\ UNCHANGED <<log, removing, purge, rows, shown, clash>>
      /\ jobs' = Moved(j, i, "read", jobs[j][i].version)
  <2>1. jobs' = Restaged(j, i, "read")
    BY DEF Submit, Restaged
  <2>2. UNCHANGED <<log, removing, purge, rows, shown, clash>>
    BY DEF Submit, screen
  <2> QED
    BY <1>1, <2>1, <2>2, Moving
<1>3. PICK s \in BOOLEAN : store' = [store EXCEPT ![u] = [version |-> store[u].version + 1, submitted |-> s]]
  <2>1. \A old \in [version : Nat, submitted : BOOLEAN] : \A p \in BOOLEAN : (p /\ old.submitted) \in BOOLEAN
    OBVIOUS
  <2> QED
    BY <2>1 DEF Submit
<1>4. ScreenTypes'
  <2>1. \A t \in Txs : /\ t = u => store'[t] = [version |-> store[u].version + 1, submitted |-> s]
                       /\ t # u => store'[t] = store[t]
    BY <1>3 DEF ScreenInv, ScreenTypes
  <2>2. u \in Txs
    <3>1. n \in 1..Len(log)
      <4>1. Shapes
        BY <1>1, Typing
      <4> QED
        BY <4>1 DEF Inv, Published, Shapes, Numbers
    <3>2. log \in Seq([tx : Txs, kind : Kinds])
      BY <1>1 DEF FeedTypes
    <3> HIDE DEF n
    <3>3. log[n] \in [tx : Txs, kind : Kinds]
      BY <3>1, <3>2, InSequence
    <3> QED
      BY <3>3 DEF Tx
  <2>3. store' \in [Txs -> [version : Nat, submitted : BOOLEAN]]
    BY <1>3, <2>2 DEF ScreenInv, ScreenTypes
  <2>4. \A t \in Txs : store'[t].version = 0 => store'[t] = Absent
    BY <2>1 DEF ScreenInv, ScreenTypes
  <2> QED
    BY <1>2, <2>3, <2>4 DEF ScreenInv, ScreenTypes
<1>5. ASSUME NEW t \in Txs \ clash'
      PROVE  Tidy(t)'
  <2>1. Tidy(t) /\ store[t].version \in Nat
    BY <1>2 DEF ScreenInv, ScreenTypes
  <2>2. CASE t # u
    <3>1. store'[t] = store[t]
      BY <2>2, <1>3 DEF ScreenInv, ScreenTypes
    <3> QED
      BY <2>1, <2>2, <3>1, <1>1, <1>2, MovedKeepsOthers
  <2>3. CASE t = u
    <3>1. store'[t].version = store[t].version + 1
      BY <2>3, <1>3 DEF ScreenInv, ScreenTypes
    <3>2. store'[t].version \in Nat /\ store'[t].version > 0 /\ store'[t].version >= store[t].version
      BY <2>1, <3>1
    <3>3. "read" \notin {"cursor", "done"}
      OBVIOUS
    <3> QED
      BY <2>1, <2>3, <3>2, <3>3, <1>1, <1>2, MovedKeepsOwn
  <2> QED
    BY <2>2, <2>3
<1> QED
  BY <1>4, <1>5 DEF ScreenInv

(* What was read back stays the version to show until it is shown.         *)
LEMMA HandlerKeepsScreen ==
  ASSUME Inv, ScreenInv, NEW j \in Jobs, NEW i \in 1..MaxBatch,
         ReadBack(j, i) \/ SubmitFails(j, i) \/ SetCursor(j, i)
  PROVE  ScreenInv'
<1> DEFINE item == jobs[j][i]
           u == Tx(item.event)
<1>1. FeedTypes /\ i \in DOMAIN jobs[j]
  BY DEF Inv, ReadBack, SubmitFails, SetCursor, At
<1>2. UNCHANGED <<log, store, removing, purge, rows, shown, clash>>
  BY DEF ReadBack, SubmitFails, SetCursor, storage, screen, past
<1>3. ScreenTypes'
  BY <1>2 DEF ScreenInv, ScreenTypes
<1>4. i \in Of(j, u)
  BY <1>1 DEF Of
<1>5. ASSUME NEW t \in Txs \ clash'
      PROVE  Tidy(t)'
  <2>1. /\ Tidy(t) /\ store[t].version \in Nat /\ store'[t] = store[t]
        /\ store'[t].version >= store[t].version
    BY <1>2 DEF ScreenInv, ScreenTypes
  <2>2. ASSUME t = u
        PROVE  /\ item.stage = "read" => store[t].version > 0
               /\ item.stage \in {"cursor", "done"} => item.version \in 1..store[t].version
    BY <2>1, <2>2, <1>4 DEF Tidy, Coming
  <2>3. CASE ReadBack(j, i)
    <3> DEFINE v == store[u].version
               next == IF v = 0 THEN "failed" ELSE IF HasCursor(item.event) THEN "cursor" ELSE "done"
    <3>1. jobs' = Moved(j, i, next, v) /\ item.stage = "read"
      <4>1. jobs' = Reread(j, i, next, v) /\ item.stage = "read"
        BY <2>3 DEF ReadBack, At, Reread
      <4> HIDE DEF next, v
      <4> QED
        BY <4>1, <1>1, Moving
    <3>2. t = u => next \in {"cursor", "done"} /\ v = store'[t].version /\ v \in 1..v
      BY <2>1, <2>2, <3>1
    <3> HIDE DEF next, v
    <3>3. CASE t # u
      BY <2>1, <3>1, <3>3, <1>1, <1>2, MovedKeepsOthers
    <3>4. CASE t = u
      BY <2>1, <3>1, <3>2, <3>4, <1>1, <1>2, MovedKeepsOwn
    <3> QED
      BY <3>3, <3>4
  <2>4. CASE SubmitFails(j, i)
    <3>1. jobs' = Moved(j, i, "failed", item.version) /\ item.stage = "submit"
      BY <2>4, <1>1, Moving DEF SubmitFails, At, Restaged
    <3>2. ~Carries(item, t) /\ "failed" # "read" /\ "failed" \notin {"cursor", "done"}
      BY <3>1 DEF Carries
    <3>3. CASE t # u
      BY <2>1, <3>1, <3>3, <1>1, <1>2, MovedKeepsOthers
    <3>4. CASE t = u
      BY <2>1, <3>1, <3>2, <3>4, <1>1, <1>2, MovedKeepsOwn
    <3> QED
      BY <3>3, <3>4
  <2>5. CASE SetCursor(j, i)
    <3>1. jobs' = Moved(j, i, "done", item.version) /\ item.stage = "cursor"
      BY <2>5, <1>1, Moving DEF SetCursor, At, Restaged
    <3>2. /\ Carries(item, t) => item.version = store[t].version
          /\ "done" # "read" /\ "done" \in {"cursor", "done"}
      BY <3>1 DEF Carries
    <3>3. CASE t # u
      BY <2>1, <3>1, <3>3, <1>1, <1>2, MovedKeepsOthers
    <3>4. CASE t = u
      BY <2>1, <2>2, <3>1, <3>2, <3>4, <1>1, <1>2, MovedKeepsOwn
    <3> QED
      BY <3>3, <3>4
  <2> QED
    BY <2>3, <2>4, <2>5
<1> QED
  BY <1>3, <1>5 DEF ScreenInv

(* How often a batch names something.                                      *)
LEMMA Counting ==
  ASSUME NEW n \in Nat, NEW S, S \subseteq 1..n
  PROVE  /\ Cardinality(S) \in Nat
         /\ Cardinality(S) > 0 <=> S # {}
         /\ ~(Cardinality(S) > 1) => \A x, y \in S : x = y
<1>1. IsFiniteSet(S)
  <2>1. IsFiniteSet(1..n)
    BY FS_Interval
  <2> QED
    BY <2>1, FS_Subset
<1>2. Cardinality(S) \in Nat /\ (Cardinality(S) = 0 <=> S = {})
  BY <1>1, FS_CardinalityType, FS_EmptySet
<1>3. ASSUME NEW x \in S, NEW y \in S, x # y
      PROVE  Cardinality(S) > 1
  <2>1. IsFiniteSet(S \ {x}) /\ Cardinality(S \ {x}) = Cardinality(S) - 1
    BY <1>1, FS_RemoveElement
  <2>2. Cardinality(S \ {x}) \in Nat /\ Cardinality(S \ {x}) # 0
    BY <2>1, <1>3, FS_CardinalityType, FS_EmptySet
  <2> QED
    BY <2>1, <2>2, <1>2
<1>4. ~(Cardinality(S) > 1) => \A x, y \in S : x = y
  BY <1>3
<1>5. Cardinality(S) > 0 <=> S # {}
  <2>1. PICK c \in Nat : c = Cardinality(S)
    BY <1>2
  <2>2. c > 0 <=> c # 0
    OBVIOUS
  <2> QED
    BY <2>1, <2>2, <1>2
<1> QED
  BY <1>2, <1>4, <1>5

(* A batch names a transaction to come, or one that is gone.               *)
Comes(batch, t) == {i \in 1..Len(batch) : Added(batch[i]) /\ Tx(batch[i]) = t}
Goes(batch, t) == {i \in 1..Len(batch) : ~Added(batch[i]) /\ Tx(batch[i]) = t}

(* What a batch does to a transaction whose rows it does not make wrong.   *)
LEMMA ProcessParts ==
  ASSUME ScreenTypes, NEW batch \in Seq(Numbers), Process(batch)
  PROVE  /\ clash \subseteq clash' /\ removing' \in [Txs -> Nat]
         /\ \A t \in Txs \ clash' :
              /\ Goes(batch, t) # {} =>
                   /\ Comes(batch, t) = {} /\ t \notin Touched
                   /\ removing'[t] > 0 /\ rows'[t] = <<>>
              /\ Goes(batch, t) = {} => removing'[t] = removing[t] /\ rows'[t] = rows[t]
              /\ Comes(batch, t) # {} =>
                   /\ removing[t] = 0 /\ t \notin purge.told
                   /\ \A x, y \in Comes(batch, t) : x = y
<1> DEFINE added == {i \in DOMAIN batch : Added(batch[i])}
           times(t, places) == Cardinality({i \in places : Tx(batch[i]) = t})
           gone == {t \in Txs : times(t, DOMAIN batch \ added) > 0}
           come == {t \in Txs : times(t, added) > 0}
<1>1. /\ removing' = [t \in Txs |-> removing[t] + times(t, DOMAIN batch \ added)]
      /\ rows' = [t \in Txs |-> IF t \in gone THEN <<>> ELSE rows[t]]
      /\ clash' = clash \cup (gone \cap (come \cup Touched))
                       \cup {t \in come : \/ removing[t] > 0
                                          \/ t \in purge.told
                                          \/ times(t, added) > 1}
  BY DEF Process
<1>2. DOMAIN batch = 1..Len(batch) /\ Len(batch) \in Nat
  OBVIOUS
<1>3. ASSUME NEW t \in Txs
      PROVE  /\ times(t, added) = Cardinality(Comes(batch, t))
             /\ times(t, DOMAIN batch \ added) = Cardinality(Goes(batch, t))
  <2>1. {i \in added : Tx(batch[i]) = t} = Comes(batch, t)
    BY <1>2 DEF Comes
  <2>2. {i \in DOMAIN batch \ added : Tx(batch[i]) = t} = Goes(batch, t)
    BY <1>2 DEF Goes
  <2> QED
    BY <2>1, <2>2
<1>4. ASSUME NEW t \in Txs
      PROVE  /\ Cardinality(Goes(batch, t)) \in Nat
             /\ Cardinality(Goes(batch, t)) > 0 <=> Goes(batch, t) # {}
             /\ Cardinality(Comes(batch, t)) > 0 <=> Comes(batch, t) # {}
             /\ ~(Cardinality(Comes(batch, t)) > 1) => \A x, y \in Comes(batch, t) : x = y
  <2>1. Comes(batch, t) \subseteq 1..Len(batch) /\ Goes(batch, t) \subseteq 1..Len(batch)
    BY DEF Comes, Goes
  <2> QED
    BY <2>1, <1>2, Counting
<1>5. /\ \A t \in Txs : removing'[t] = removing[t] + Cardinality(Goes(batch, t))
      /\ \A t \in Txs : rows'[t] = IF Goes(batch, t) # {} THEN <<>> ELSE rows[t]
      /\ \A t \in Txs : t \in gone <=> Goes(batch, t) # {}
      /\ \A t \in Txs : t \in come <=> Comes(batch, t) # {}
  BY <1>1, <1>3, <1>4
<1>6. removing' \in [Txs -> Nat]
  <2>1. ASSUME NEW t \in Txs
        PROVE  removing[t] + times(t, DOMAIN batch \ added) \in Nat
    <3>1. removing[t] \in Nat /\ times(t, DOMAIN batch \ added) \in Nat
      BY <1>3, <1>4 DEF ScreenTypes
    <3> HIDE DEF times
    <3> QED
      BY <3>1
  <2> HIDE DEF times
  <2> QED
    BY <1>1, <2>1
<1>7. ASSUME NEW t \in Txs \ clash'
      PROVE  /\ t \in gone => t \notin come /\ t \notin Touched
             /\ t \in come => ~(removing[t] > 0) /\ t \notin purge.told /\ ~(times(t, added) > 1)
  <2> HIDE DEF gone, come, times
  <2> QED
    BY <1>1, <1>7
<1>8. clash \subseteq clash'
  <2> HIDE DEF gone, come, times, added
  <2> QED
    BY <1>1
<1> HIDE DEF gone, come, times, added
<1>9. ASSUME NEW t \in Txs \ clash'
      PROVE  /\ Goes(batch, t) # {} =>
                  /\ Comes(batch, t) = {} /\ t \notin Touched
                  /\ removing'[t] > 0 /\ rows'[t] = <<>>
             /\ Goes(batch, t) = {} => removing'[t] = removing[t] /\ rows'[t] = rows[t]
             /\ Comes(batch, t) # {} =>
                  /\ removing[t] = 0 /\ t \notin purge.told
                  /\ \A x, y \in Comes(batch, t) : x = y
  <2>1. removing[t] \in Nat
    BY DEF ScreenTypes
  <2>2. /\ t \in gone => t \notin come /\ t \notin Touched
        /\ t \in come => ~(removing[t] > 0) /\ t \notin purge.told /\ ~(times(t, added) > 1)
    BY <1>7
  <2>3. Goes(batch, t) # {} =>
                  /\ Comes(batch, t) = {} /\ t \notin Touched
                  /\ removing'[t] > 0 /\ rows'[t] = <<>>
    BY <2>1, <2>2, <1>4, <1>5
  <2>4. Goes(batch, t) = {} => Cardinality(Goes(batch, t)) = 0
    BY FS_EmptySet
  <2>5. Goes(batch, t) = {} => removing'[t] = removing[t] /\ rows'[t] = rows[t]
    <3>1. removing'[t] = removing[t] + Cardinality(Goes(batch, t))
      BY <1>5
    <3>2. rows'[t] = IF Goes(batch, t) # {} THEN <<>> ELSE rows[t]
      BY <1>5
    <3> QED
      BY <2>1, <2>4, <3>1, <3>2
  <2>6. Comes(batch, t) # {} =>
                  /\ removing[t] = 0 /\ t \notin purge.told
                  /\ \A x, y \in Comes(batch, t) : x = y
    BY <2>1, <2>2, <1>3, <1>4, <1>5
  <2> QED
    BY <2>3, <2>5, <2>6
<1> QED
  BY <1>6, <1>8, <1>9

(* Where the batch is put, and what it has of a transaction.               *)
LEMMA ProcessPlaces ==
  ASSUME FeedTypes, log' = log, NEW batch \in Seq(Numbers), Process(batch)
  PROVE  \/ (\A t : Comes(batch, t) = {}) /\ jobs' = jobs
         \/ \E j \in Jobs :
              /\ jobs[j] = Idle
              /\ \A x \in Jobs : x # j => jobs'[x] = jobs[x]
              /\ \A t : Of(j, t)' = Comes(batch, t)
              /\ \A i \in DOMAIN jobs'[j] : jobs'[j][i].stage = "submit"
<1> DEFINE added == {i \in DOMAIN batch : Added(batch[i])}
           new == [i \in added |-> [event |-> batch[i], stage |-> "submit", version |-> 0]]
<1>1. DOMAIN batch = 1..Len(batch)
  OBVIOUS
<1>2. CASE added = {}
  BY <1>1, <1>2 DEF Process, Comes
<1>3. CASE added # {}
  <2>1. PICK j \in Jobs : jobs[j] = Idle /\ jobs' = [jobs EXCEPT ![j] = new]
    BY <1>3 DEF Process
  <2>2. jobs'[j] = new /\ \A x \in Jobs : x # j => jobs'[x] = jobs[x]
    BY <2>1 DEF FeedTypes
  <2>3. /\ DOMAIN jobs'[j] = added
        /\ \A i \in added : jobs'[j][i].stage = "submit" /\ jobs'[j][i].event = batch[i]
    BY <2>2
  <2>4. \A t : Of(j, t)' = Comes(batch, t)
    BY <2>3, <1>1 DEF Of, Comes, Tx
  <2> QED
    BY <2>1, <2>2, <2>3, <2>4
<1> QED
  BY <1>2, <1>3

(* A batch removes the rows of what is gone, and announces what came.      *)
LEMMA ProcessKeepsScreen ==
  ASSUME FeedTypes, ScreenInv, NEW batch \in Seq(Numbers), Process(batch),
         UNCHANGED <<log, store, purge, shown>>
  PROVE  ScreenInv'
<1>1. /\ clash \subseteq clash' /\ removing' \in [Txs -> Nat]
      /\ \A t \in Txs \ clash' :
           /\ Goes(batch, t) # {} =>
                /\ Comes(batch, t) = {} /\ t \notin Touched
                /\ removing'[t] > 0 /\ rows'[t] = <<>>
           /\ Goes(batch, t) = {} => removing'[t] = removing[t] /\ rows'[t] = rows[t]
           /\ Comes(batch, t) # {} =>
                /\ removing[t] = 0 /\ t \notin purge.told
                /\ \A x, y \in Comes(batch, t) : x = y
  BY ProcessParts DEF ScreenInv
<1>2. \/ (\A t : Comes(batch, t) = {}) /\ jobs' = jobs
      \/ \E j \in Jobs :
           /\ jobs[j] = Idle
           /\ \A x \in Jobs : x # j => jobs'[x] = jobs[x]
           /\ \A t : Of(j, t)' = Comes(batch, t)
           /\ \A i \in DOMAIN jobs'[j] : jobs'[j][i].stage = "submit"
  BY ProcessPlaces
<1>3. ScreenTypes'
  BY <1>1 DEF ScreenInv, ScreenTypes
<1>4. ASSUME NEW t \in Txs \ clash'
      PROVE  Tidy(t)'
  <2>1. Tidy(t) /\ log' = log /\ store' = store /\ purge' = purge /\ shown' = shown
    BY <1>1 DEF ScreenInv
  <2>2. CASE Comes(batch, t) = {}
    <3>1. SamePlaces(t)
      <4>1. CASE jobs' = jobs
        BY <4>1, <2>1, SameJobs
      <4>2. CASE jobs' # jobs
        <5>1. PICK j \in Jobs : /\ jobs[j] = Idle
                                /\ \A x \in Jobs : x # j => jobs'[x] = jobs[x]
                                /\ Of(j, t)' = {}
          BY <1>2, <2>2, <4>2
        <5>2. Of(j, t) = {}
          BY <5>1 DEF Of, Idle
        <5>3. \A x \in Jobs : x # j => Of(x, t)' = Of(x, t)
          BY <5>1, <2>1 DEF Of, Tx
        <5> QED
          BY <5>1, <5>2, <5>3 DEF SamePlaces
      <4> QED
        BY <4>1, <4>2
    <3>2. CASE Goes(batch, t) = {}
      BY <3>1, <3>2, <2>1, <1>1, Untouched
    <3>3. CASE Goes(batch, t) # {}
      <4>1. ~Touches(t) /\ removing'[t] > 0 /\ rows'[t] = <<>>
        BY <3>3, <1>1 DEF Touched, TxsOf, Touches, Of
      <4>2. ~Touches(t)' /\ Single(t)' /\ Coming(t)'
        BY <4>1, <3>1 DEF Touches, SamePlaces, Single, Coming
      <4>3. removing'[t] # 0
        BY <4>1, <1>1
      <4> QED
        BY <4>1, <4>2, <4>3, <2>1 DEF Tidy, Leaving, RowFits, Shows
    <3> QED
      BY <3>2, <3>3
  <2>3. CASE Comes(batch, t) # {}
    <3>1. PICK j \in Jobs : /\ jobs[j] = Idle
                            /\ \A x \in Jobs : x # j => jobs'[x] = jobs[x]
                            /\ Of(j, t)' = Comes(batch, t)
                            /\ \A i \in DOMAIN jobs'[j] : jobs'[j][i].stage = "submit"
      BY <1>2, <2>3
    <3>2. Of(j, t) = {} /\ Of(j, t)' \subseteq DOMAIN jobs'[j]
      BY <3>1 DEF Of, Idle
    <3>3. \A x \in Jobs : x # j => Of(x, t)' = Of(x, t)
      BY <3>1, <2>1 DEF Of, Tx
    <3>4. /\ removing[t] = 0 /\ removing'[t] = 0 /\ rows'[t] = rows[t] /\ t \notin purge.told
          /\ \A x, y \in Comes(batch, t) : x = y
      BY <2>3, <1>1
    <3>5. Single(t)'
      BY <3>1, <3>3, <3>4, <2>1 DEF Tidy, Single
    <3>6. Coming(t)'
      BY <3>1, <3>2, <3>3, <2>1 DEF Tidy, Coming
    <3>7. Leaving(t)' /\ RowFits(t)'
      BY <3>4, <2>1 DEF Tidy, Leaving, RowFits
    <3>8. Shows(t)'
      <4>1. Expected(t)' = Expected(t)
        BY <2>1 DEF Expected
      <4>2. ASSUME NEW x \in Jobs, NEW y \in Of(x, t), Carries(jobs[x][y], t)
            PROVE  y \in Of(x, t)' /\ Carries(jobs[x][y], t)'
        <5>1. x # j
          BY <3>2
        <5> QED
          BY <5>1, <4>2, <3>1, <3>3, <2>1 DEF Carries
      <4> QED
        BY <4>1, <4>2, <3>4, <2>1 DEF Tidy, Shows
    <3> QED
      BY <3>5, <3>6, <3>7, <3>8 DEF Tidy
  <2> QED
    BY <2>2, <2>3
<1> QED
  BY <1>3, <1>4 DEF ScreenInv

(* A flush for time or size, at the end of a flow, or after its error.     *)
LEMMA FlushesKeepScreen ==
  ASSUME Inv, ScreenInv, NEW k \in Opens, Flush(k) \/ HistoryFails(k) \/ LiveEnds(k)
  PROVE  ScreenInv'
<1>1. FlushBuffer(k) /\ UNCHANGED <<log, store, purge, shown>>
  BY DEF Flush, HistoryFails, LiveEnds, storage
<1>2. CASE buffer[k] = <<>>
  <2>1. UNCHANGED <<log, store, removing, purge, rows, shown, jobs>> /\ clash' = clash
    BY <1>1, <1>2 DEF FlushBuffer
  <2> QED
    BY <2>1, AsideKeepsScreen
<1>3. CASE buffer[k] # <<>>
  <2>1. FeedTypes /\ buffer[k] \in Seq(Numbers)
    BY DEF Inv, FeedTypes
  <2>2. Process(buffer[k])
    BY <1>1, <1>3 DEF FlushBuffer
  <2>3. PICK batch \in Seq(Numbers) : batch = buffer[k]
    BY <2>1
  <2>4. Process(batch)
    BY <2>2, <2>3
  <2> QED
    BY <1>1, <2>1, <2>4, ProcessKeepsScreen
<1> QED
  BY <1>2, <1>3

(* What is left of the other batches when one is put away.                 *)
LEMMA PutAway ==
  ASSUME FeedTypes, log' = log, NEW j \in Jobs, jobs' = [jobs EXCEPT ![j] = Idle]
  PROVE  /\ \A t : Of(j, t)' = {}
         /\ \A x \in Jobs : x # j => jobs'[x] = jobs[x]
         /\ \A t : \A x \in Jobs : x # j => Of(x, t)' = Of(x, t)
         /\ \A t : Of(j, t) = {} => SamePlaces(t)
<1>1. jobs'[j] = Idle /\ \A x \in Jobs : x # j => jobs'[x] = jobs[x]
  BY DEF FeedTypes
<1>2. \A t : Of(j, t)' = {}
  BY <1>1 DEF Of, Idle
<1>3. \A t : \A x \in Jobs : x # j => Of(x, t)' = Of(x, t)
  BY <1>1 DEF Of, Tx
<1>4. \A t : Of(j, t) = {} => SamePlaces(t)
  BY <1>1, <1>2, <1>3 DEF SamePlaces
<1> QED
  BY <1>1, <1>2, <1>3, <1>4

(* A batch that failed makes the rows of its transactions doubtful.        *)
LEMMA GiveUpKeepsScreen ==
  ASSUME Inv, ScreenInv, NEW j \in Jobs, GiveUp(j)
  PROVE  ScreenInv'
<1>1. /\ UNCHANGED <<log, store, removing, purge, rows, shown>>
      /\ jobs' = [jobs EXCEPT ![j] = Idle] /\ clash' = clash \cup TxsOf(j)
  BY DEF GiveUp, storage, screen
<1>2. ScreenTypes'
  BY <1>1 DEF ScreenInv, ScreenTypes
<1>3. ASSUME NEW t \in Txs \ clash'
      PROVE  Tidy(t)'
  <2>1. Of(j, t) = {}
    BY <1>1 DEF Of, TxsOf
  <2>2. SamePlaces(t)
    BY <2>1, <1>1, PutAway DEF Inv
  <2> QED
    BY <2>2, <1>1, Untouched DEF ScreenInv
<1> QED
  BY <1>2, <1>3 DEF ScreenInv

(* The rows of a batch that was merged take the versions it read: the      *)
(* stored one if it was the batch's to bring, and never an older one.      *)
LEMMA TellKeepsScreen ==
  ASSUME Inv, ScreenInv, NEW j \in Jobs, Tell(j)
  PROVE  ScreenInv'
<1>1. /\ UNCHANGED <<log, store, removing, purge, shown, clash>>
      /\ jobs' = [jobs EXCEPT ![j] = Idle]
      /\ \A i \in DOMAIN jobs[j] : jobs[j][i].stage = "done"
  BY DEF Tell, storage, past, At
<1>2. \A t \in Txs : rows'[t] = IF shown THEN Updated(rows[t], Versions(jobs[j], t)) ELSE rows[t]
  BY DEF Tell
<1>3. FeedTypes
  BY DEF Inv
<1>4. ScreenTypes'
  BY <1>1 DEF ScreenInv, ScreenTypes
<1>5. ASSUME NEW t \in Txs \ clash'
      PROVE  Tidy(t)'
  <2>1. Tidy(t) /\ store[t].version \in Nat
    BY <1>1 DEF ScreenInv, ScreenTypes
  <2>2. /\ Of(j, t)' = {} /\ \A x \in Jobs : x # j => jobs'[x] = jobs[x]
        /\ \A x \in Jobs : x # j => Of(x, t)' = Of(x, t)
        /\ Of(j, t) = {} => SamePlaces(t)
    BY <1>1, <1>3, PutAway
  <2>3. CASE Of(j, t) = {}
    <3>1. Versions(jobs[j], t) = <<>>
      BY <2>3, VersionsOfOne DEF Of
    <3>2. rows'[t] = rows[t]
      BY <3>1, <1>2 DEF Updated
    <3> QED
      BY <3>2, <2>1, <2>2, <2>3, <1>1, Untouched
  <2>4. CASE Of(j, t) # {}
    <3>1. PICK p : p \in Of(j, t)
      BY <2>4
    <3>2. Of(j, t) = {p}
      BY <3>1, <2>1 DEF Tidy, Single
    <3>3. /\ jobs[j][p].stage = "done"
          /\ jobs[j][p].version \in 1..store[t].version
      BY <3>1, <2>1, <1>1 DEF Tidy, Coming, Of
    <3> PICK w \in 1..store[t].version : w = jobs[j][p].version
      BY <3>3
    <3> PICK V \in Nat : V = store[t].version
      BY <2>1
    <3>4. Versions(jobs[j], t) = <<w>> /\ w \in Nat
      BY <3>2, VersionsOfOne DEF Of
    <3>5. ~(removing[t] > 0) /\ t \notin purge.told
      BY <3>1, <2>1 DEF Tidy, Leaving, Touches
    <3>6. Expected(t) = <<V>> /\ Expected(t)' = <<V>>
      <4>1. store[t] # Absent
        BY DEF Absent
      <4> QED
        BY <4>1, <1>1 DEF Expected
    <3>7. rows[t] = <<>> \/ (shown /\ \E v \in 1..V : rows[t] = <<v>>)
      BY <3>5, <2>1 DEF Tidy, RowFits
    <3>8. shown => \/ rows'[t] = <<w>> /\ rows[t] = <<>>
                   \/ \E r \in 1..V : rows[t] = <<r>> /\ rows'[t] = <<IF r > w THEN r ELSE w>>
      <4>1. ASSUME shown, rows[t] = <<>>
            PROVE  rows'[t] = <<w>>
        BY <4>1, <3>4, <1>2, UpdatedOne
      <4>2. ASSUME NEW r \in 1..V, shown, rows[t] = <<r>>
            PROVE  rows'[t] = <<IF r > w THEN r ELSE w>>
        <5>1. rows'[t] = Updated(<<r>>, <<w>>)
          BY <4>2, <3>4, <1>2
        <5>2. Updated(<<r>>, <<w>>) = <<IF r > w THEN r ELSE w>>
          <6>1. r \in Nat /\ w \in Nat
            BY <3>4
          <6> QED
            BY <6>1, UpdatedOne
        <5> QED
          BY <5>1, <5>2
      <4> QED
        BY <4>1, <4>2, <3>7
    <3>9. Single(t)' /\ Coming(t)' /\ Leaving(t)'
      BY <2>1, <2>2, <3>5, <1>1 DEF Tidy, Single, Coming, Leaving
    <3>10. RowFits(t)'
      <4>1. CASE shown
        <5>1. \E v \in 1..V : rows'[t] = <<v>>
          BY <4>1, <3>8
        <5> QED
          BY <5>1, <4>1, <1>1 DEF RowFits
      <4>2. CASE ~shown
        BY <4>2, <3>7, <1>2 DEF RowFits
      <4> QED
        BY <4>1, <4>2
    <3>11. Shows(t)'
      <4> SUFFICES ASSUME shown
                   PROVE  rows'[t] = <<V>> \/ \E x \in Jobs : \E y \in Of(x, t)' : Carries(jobs[x][y], t)'
        BY <3>6, <1>1 DEF Shows
      <4>1. rows[t] = <<V>> \/ \E x \in Jobs : \E y \in Of(x, t) : Carries(jobs[x][y], t)
        <5>1. removing[t] = 0
          BY <3>5 DEF ScreenInv, ScreenTypes
        <5> QED
          BY <5>1, <3>5, <3>6, <2>1 DEF Tidy, Shows
      <4>2. CASE rows[t] = <<V>>
        <5>1. \A r : <<r>> = <<V>> => r = V
          OBVIOUS
        <5>2. rows'[t] = <<IF V > w THEN V ELSE w>>
          BY <4>2, <5>1, <3>8
        <5>3. (IF V > w THEN V ELSE w) = V
          OBVIOUS
        <5> QED
          BY <5>2, <5>3
      <4>3. ASSUME NEW x \in Jobs, NEW y \in Of(x, t), Carries(jobs[x][y], t)
            PROVE  rows'[t] = <<V>> \/ (x # j /\ y \in Of(x, t)' /\ Carries(jobs[x][y], t)')
        <5>1. CASE x = j
          <6>1. w = V
            BY <5>1, <4>3, <3>2, <3>3 DEF Carries
          <6>2. \A r \in 1..V : (IF r > w THEN r ELSE w) = V
            BY <6>1
          <6> QED
            BY <6>1, <6>2, <3>8
        <5>2. CASE x # j
          BY <5>2, <4>3, <2>2, <1>1 DEF Carries
        <5> QED
          BY <5>1, <5>2
      <4> QED
        BY <4>1, <4>2, <4>3
    <3> QED
      BY <3>9, <3>10, <3>11 DEF Tidy
  <2> QED
    BY <2>3, <2>4
<1> QED
  BY <1>4, <1>5 DEF ScreenInv

(* The application dies, and its screen with it.                           *)
LEMMA CrashKeepsScreen ==
  ASSUME ScreenInv, Crash
  PROVE  ScreenInv'
<1>1. /\ jobs' = [j \in Jobs |-> Idle] /\ removing' = [t \in Txs |-> 0] /\ purge' = NoPurge
      /\ rows' = [t \in Txs |-> <<>>] /\ shown' = FALSE /\ store' = store
  BY DEF Crash, storage
<1>2. \A t : \A j \in Jobs : Of(j, t)' = {}
  BY <1>1 DEF Of, Idle
<1>3. ScreenTypes'
  BY <1>1 DEF ScreenInv, ScreenTypes, NoPurge
<1>4. ASSUME NEW t \in Txs
      PROVE  Tidy(t)'
  <2>1. ~Touches(t)' /\ Single(t)' /\ Coming(t)'
    BY <1>2 DEF Touches, Single, Coming
  <2>2. Leaving(t)' /\ RowFits(t)' /\ Shows(t)'
    BY <1>1, <2>1 DEF Leaving, RowFits, Shows, NoPurge
  <2> QED
    BY <2>1, <2>2 DEF Tidy
<1> QED
  BY <1>3, <1>4 DEF ScreenInv

(* Nothing is stored, shown or on its way at first.                        *)
LEMMA InitKeepsScreen == Init => ScreenInv
<1> SUFFICES ASSUME Init
             PROVE  ScreenInv
  OBVIOUS
<1>1. Absent \in [version : Nat, submitted : BOOLEAN]
  BY DEF Absent
<1>2. store \in [Txs -> [version : Nat, submitted : BOOLEAN]] /\ \A t \in Txs : store[t] = Absent
  BY <1>1 DEF Init
<1>3. \A t : \A j \in Jobs : Of(j, t) = {}
  BY DEF Init, Of, Idle
<1>4. ScreenTypes
  BY <1>2 DEF Init, ScreenTypes, NoPurge
<1>5. ASSUME NEW t \in Txs
      PROVE  Tidy(t)
  <2>1. ~Touches(t) /\ Single(t) /\ Coming(t)
    BY <1>3 DEF Touches, Single, Coming
  <2> QED
    BY <2>1 DEF Init, Tidy, Leaving, RowFits, Shows, NoPurge
<1> QED
  BY <1>4, <1>5 DEF ScreenInv

(* Every step of the feed keeps every transaction without clash tidy.      *)
LEMMA NextKeepsScreen == Inv /\ ScreenInv /\ [Next]_vars => ScreenInv'
<1> SUFFICES ASSUME Inv, ScreenInv, [Next]_vars
             PROVE  ScreenInv'
  OBVIOUS
<1>1. ASSUME NEW t \in Txs, NEW kind \in Kinds, Publish(t, kind)
      PROVE  ScreenInv'
  BY <1>1, PublishKeepsScreen
<1>2. CASE StartService
  BY <1>2, StartKeepsScreen
<1>3. CASE Resubscribe \/ ResetCursor \/ UNCHANGED vars
  <2>1. UNCHANGED <<log, store, removing, purge, rows, shown, jobs>> /\ clash' = clash
    BY <1>3 DEF Resubscribe, ResetCursor, vars, storage, screen, past
  <2> QED
    BY <2>1, AsideKeepsScreen
<1>4. ASSUME NEW k \in Opens, ReceiveHistory(k) \/ ReceiveLive(k)
      PROVE  ScreenInv'
  <2>1. UNCHANGED <<log, store, removing, purge, rows, shown, jobs>> /\ clash' = clash
    BY <1>4 DEF ReceiveHistory, ReceiveLive, Receive, storage, screen, past
  <2> QED
    BY <2>1, AsideKeepsScreen
<1>5. ASSUME NEW k \in Opens, Flush(k) \/ HistoryFails(k) \/ LiveEnds(k)
      PROVE  ScreenInv'
  BY <1>5, FlushesKeepScreen
<1>6. ASSUME NEW j \in Jobs, NEW i \in 1..MaxBatch, Submit(j, i)
      PROVE  ScreenInv'
  <2>1. i \in DOMAIN jobs[j]
    BY <1>6 DEF Submit, At
  <2> QED
    BY <1>6, <2>1, SubmitKeepsScreen
<1>7. ASSUME NEW j \in Jobs, NEW i \in 1..MaxBatch,
             ReadBack(j, i) \/ SubmitFails(j, i) \/ SetCursor(j, i)
      PROVE  ScreenInv'
  BY <1>7, HandlerKeepsScreen
<1>8. ASSUME NEW j \in Jobs, Tell(j) \/ GiveUp(j)
      PROVE  ScreenInv'
  BY <1>8, TellKeepsScreen, GiveUpKeepsScreen
<1>9. ASSUME NEW t \in Txs, Remove(t) \/ Purge(t)
      PROVE  ScreenInv'
  BY <1>9, RemovalsKeepScreen
<1>10. CASE TellPurged
  BY <1>10, PurgedKeepsScreen
<1>11. CASE ShowWallet
  BY <1>11, ShowKeepsScreen
<1>12. CASE Crash
  BY <1>12, CrashKeepsScreen
<1> QED
  BY <1>1, <1>2, <1>3, <1>4, <1>5, <1>6, <1>7, <1>8, <1>9, <1>10, <1>11, <1>12 DEF Next

(* For every set of transactions and every bound, when all calls have      *)
(* landed the screen shows each stored transaction once, at the version    *)
(* the storage holds, but for those whose removal met an update, whose     *)
(* call failed, or that a batch named twice.                               *)
THEOREM ScreenShowsStored == Spec => []ScreenAgrees
<1>1. Init => Inv /\ ScreenInv
  BY InitInv, InitKeepsScreen
<1>2. Inv /\ ScreenInv /\ [Next]_vars => Inv' /\ ScreenInv'
  BY NextKeepsInv, NextKeepsScreen
<1>3. ScreenInv => ScreenAgrees
  <2> SUFFICES ASSUME ScreenInv, Quiet, shown, NEW t \in Txs \ clash
               PROVE  rows[t] = Expected(t)
    BY DEF ScreenAgrees, Expected
  <2>1. \A j \in Jobs : Of(j, t) = {}
    BY DEF Quiet, Of, Idle
  <2>2. removing[t] = 0 /\ t \notin purge.told
    BY DEF Quiet, NoPurge
  <2>3. Shows(t)
    BY DEF ScreenInv, Tidy
  <2> QED
    BY <2>1, <2>2, <2>3 DEF Shows
<1> QED
  BY <1>1, <1>2, <1>3, PTL DEF Spec

-----------------------------------------------------------------------------
(* What of the events that were stored the storage still holds.            *)
Safe(n) ==
  TakenBack(n) \/ Tx(n) \in taken \/ (store[Tx(n)] # Absent /\ ~Leaves(Tx(n)))
TakenInv ==
  /\ saved \subseteq 1..Len(log) /\ taken \subseteq Txs
  /\ \A n \in saved : Safe(n)

(* What was published is of a transaction.                                 *)
LEMMA OfTransaction ==
  ASSUME FeedTypes, NEW n \in 1..Len(log)
  PROVE  Tx(n) \in Txs
<1>1. log[n] \in [tx : Txs, kind : Kinds]
  BY InSequence DEF FeedTypes
<1> QED
  BY <1>1 DEF Tx

(* What is done to removals without noting it is done to none.             *)
LEMMA SafeStays ==
  ASSUME log' = log, NEW n, Safe(n), taken \subseteq taken', store'[Tx(n)] = store[Tx(n)],
         Leaves(Tx(n))' => Leaves(Tx(n)) \/ TakenBack(n) \/ Tx(n) \in taken'
  PROVE  Safe(n)'
<1>1. Tx(n)' = Tx(n) /\ (TakenBack(n)' <=> TakenBack(n))
  BY DEF Tx, TakenBack, Added
<1> QED
  BY <1>1 DEF Safe, Leaves

(* Steps that touch neither the storage nor the removals.                  *)
LEMMA AsideIsSafe ==
  ASSUME TakenInv, UNCHANGED <<log, store, removing, saved, taken>>, purge'.left \subseteq purge.left
  PROVE  TakenInv'
<1>1. ASSUME NEW n \in saved PROVE Safe(n)'
  <2>1. Leaves(Tx(n))' => Leaves(Tx(n))
    BY DEF Leaves, Tx
  <2> QED
    BY <2>1, SafeStays DEF TakenInv
<1> QED
  BY <1>1 DEF TakenInv

(* A new event may take those before it back.                              *)
LEMMA PublishIsSafe ==
  ASSUME FeedTypes, TakenInv, NEW t \in Txs, NEW kind \in Kinds, Publish(t, kind)
  PROVE  TakenInv'
<1>1. /\ log' = Append(log, [tx |-> t, kind |-> kind]) /\ Len(log) \in Nat
      /\ UNCHANGED <<store, removing, purge, saved, taken>>
  BY DEF Publish, storage, past, FeedTypes
<1>2. Len(log') = Len(log) + 1 /\ \A n \in 1..Len(log) : log'[n] = log[n]
  BY <1>1 DEF FeedTypes
<1>3. ASSUME NEW n \in saved PROVE Safe(n)'
  <2>1. n \in 1..Len(log) /\ Safe(n) /\ log'[n] = log[n]
    BY <1>2 DEF TakenInv
  <2>2. Tx(n)' = Tx(n)
    BY <2>1 DEF Tx
  <2>3. ASSUME TakenBack(n) PROVE TakenBack(n)'
    <3>1. PICK m \in (n + 1)..Len(log) : Tx(m) = Tx(n) /\ ~Added(m)
      BY <2>3 DEF TakenBack
    <3>2. m \in 1..Len(log) /\ m \in (n + 1)..Len(log')
      BY <1>1, <1>2, <2>1, <3>1
    <3>3. log'[m] = log[m]
      BY <1>2, <3>2
    <3>4. Tx(m)' = Tx(n)' /\ ~Added(m)'
      BY <2>2, <3>1, <3>3 DEF Tx, Added
    <3> QED
      BY <3>2, <3>4 DEF TakenBack
  <2> QED
    BY <1>1, <2>1, <2>2, <2>3 DEF Safe, Leaves
<1>4. saved' \subseteq 1..Len(log')
  BY <1>1, <1>2 DEF TakenInv
<1> QED
  BY <1>1, <1>3, <1>4 DEF TakenInv

(* What a removal of transactions takes away unasked is noted.             *)
LEMMA HitIsNoted ==
  ASSUME NEW txs, NEW n \in saved, Tx(n) \in txs, ~TakenBack(n), taken' = taken \cup Hit(txs)
  PROVE  Tx(n) \in taken'
  BY DEF Hit

(* A start begins to remove what is only submitted.                        *)
LEMMA StartIsSafe ==
  ASSUME FeedTypes, TakenInv, StartService
  PROVE  TakenInv'
<1> DEFINE stale == {t \in Txs : store[t].submitted}
<1>1. /\ UNCHANGED <<log, store, removing, saved>> /\ purge' = [left |-> stale, told |-> stale]
      /\ taken' = taken \cup Hit(stale)
  BY DEF StartService, storage
<1>2. purge'.left = stale
  BY <1>1
<1> HIDE DEF stale
<1>3. ASSUME NEW n \in saved PROVE Safe(n)'
  <2>1. Leaves(Tx(n))' => Leaves(Tx(n)) \/ Tx(n) \in stale
    BY <1>1, <1>2 DEF Leaves, Tx
  <2>2. Leaves(Tx(n))' => Leaves(Tx(n)) \/ TakenBack(n) \/ Tx(n) \in taken'
    BY <1>1, <2>1, HitIsNoted
  <2> QED
    BY <1>1, <2>2, SafeStays DEF TakenInv
<1>4. taken' \subseteq Txs
  BY <1>1, OfTransaction DEF TakenInv, Hit
<1> QED
  BY <1>1, <1>3, <1>4 DEF TakenInv

(* A batch begins to remove what its removals name.                        *)
LEMMA ProcessIsSafe ==
  ASSUME FeedTypes, ScreenTypes, TakenInv, NEW batch \in Seq(Numbers), Process(batch),
         UNCHANGED <<log, store, purge, saved>>
  PROVE  TakenInv'
<1> DEFINE added == {i \in DOMAIN batch : Added(batch[i])}
           times(t, places) == Cardinality({i \in places : Tx(batch[i]) = t})
           gone == {t \in Txs : times(t, DOMAIN batch \ added) > 0}
<1>1. /\ removing' = [t \in Txs |-> removing[t] + times(t, DOMAIN batch \ added)]
      /\ taken' = taken \cup Hit(gone)
  BY DEF Process
<1>2. \A t \in Txs : removing[t] \in Nat
  BY DEF ScreenTypes
<1>3. ASSUME NEW t \in Txs PROVE times(t, DOMAIN batch \ added) \in Nat
  <2>1. {i \in DOMAIN batch \ added : Tx(batch[i]) = t} = Goes(batch, t)
    BY DEF Goes
  <2>2. Goes(batch, t) \subseteq 1..Len(batch) /\ Len(batch) \in Nat
    BY DEF Goes
  <2> QED
    BY <2>1, <2>2, Counting
<1>4. \A t \in Txs : removing'[t] > 0 => removing[t] > 0 \/ t \in gone
  <2> SUFFICES ASSUME NEW t \in Txs, removing'[t] > 0, t \notin gone
               PROVE  removing[t] > 0
    OBVIOUS
  <2>1. times(t, DOMAIN batch \ added) \in Nat /\ ~(times(t, DOMAIN batch \ added) > 0)
    BY <1>3
  <2>2. removing'[t] = removing[t] + times(t, DOMAIN batch \ added)
    BY <1>1
  <2> HIDE DEF times
  <2> QED
    BY <1>2, <2>1, <2>2
<1> HIDE DEF gone
<1>5. ASSUME NEW n \in saved PROVE Safe(n)'
  <2>1. Tx(n) \in Txs
    BY OfTransaction DEF TakenInv
  <2>2. Leaves(Tx(n))' => Leaves(Tx(n)) \/ Tx(n) \in gone
    <3>1. Leaves(Tx(n))' => removing'[Tx(n)] > 0 \/ Tx(n) \in purge.left
      BY DEF Leaves, Tx
    <3> QED
      BY <1>4, <2>1, <3>1 DEF Leaves
  <2>3. Leaves(Tx(n))' => Leaves(Tx(n)) \/ TakenBack(n) \/ Tx(n) \in taken'
    BY <1>1, <2>2, HitIsNoted
  <2> QED
    BY <1>1, <2>3, SafeStays DEF TakenInv
<1>6. taken' \subseteq Txs
  BY <1>1, OfTransaction DEF TakenInv, Hit
<1> QED
  BY <1>5, <1>6 DEF TakenInv

(* A submission while no removal is pending stores the transaction.        *)
LEMMA SubmitIsSafe ==
  ASSUME FeedTypes, Published, ScreenTypes, TakenInv, NEW j \in Jobs, NEW i \in DOMAIN jobs[j],
         Submit(j, i)
  PROVE  TakenInv'
<1> DEFINE n == jobs[j][i].event
           u == Tx(n)
<1>1. /\ UNCHANGED <<log, removing, purge>> /\ saved' = saved \cup {n}
      /\ taken' = CASE ~Leaves(u) -> taken \ {u}
                    [] Leaves(u) /\ TakenBack(n) -> taken
                    [] OTHER -> taken \cup {u}
  BY DEF Submit
<1>2. PICK s : store' = [store EXCEPT ![u] = [version |-> store[u].version + 1, submitted |-> s]]
  BY DEF Submit
<1>3. n \in 1..Len(log) /\ u \in Txs
  <2>1. Shapes
    BY Typing
  <2>2. n \in 1..Len(log)
    BY <2>1 DEF Published, Shapes, Numbers
  <2> QED
    BY <2>2, OfTransaction
<1>4. store'[u] # Absent /\ \A t \in Txs : t # u => store'[t] = store[t]
  BY <1>2, <1>3 DEF ScreenTypes, Absent
<1> HIDE DEF n
<1>5. ASSUME NEW m \in saved' PROVE Safe(m)'
  <2>1. m \in 1..Len(log) /\ Tx(m) \in Txs
    BY <1>1, <1>3, OfTransaction DEF TakenInv
  <2>2. Tx(m)' = Tx(m) /\ (TakenBack(m)' <=> TakenBack(m)) /\ \A t : Leaves(t)' <=> Leaves(t)
    BY <1>1 DEF Tx, TakenBack, Added, Leaves
  <2>3. SUFFICES TakenBack(m) \/ Tx(m) \in taken' \/ (store'[Tx(m)] # Absent /\ ~Leaves(Tx(m)))
    BY <2>2 DEF Safe
  <2>4. CASE Tx(m) # u
    <3>1. m \in saved /\ Safe(m)
      BY <1>1, <2>4 DEF TakenInv
    <3>2. Tx(m) \in taken => Tx(m) \in taken'
      BY <1>1, <2>4
    <3> QED
      BY <1>4, <2>1, <2>4, <3>1, <3>2 DEF Safe
  <2>5. CASE Tx(m) = u /\ ~Leaves(u)
    BY <1>4, <2>5
  <2>6. CASE Tx(m) = u /\ Leaves(u) /\ m = n
    BY <1>1, <2>6
  <2>7. CASE Tx(m) = u /\ Leaves(u) /\ m # n
    <3>1. Safe(m)
      BY <1>1, <2>7 DEF TakenInv
    <3>2. taken \subseteq taken'
      BY <1>1, <2>7
    <3> QED
      BY <2>7, <3>1, <3>2 DEF Safe
  <2> QED
    BY <2>4, <2>5, <2>6, <2>7
<1>6. saved' \subseteq 1..Len(log') /\ taken' \subseteq Txs
  BY <1>1, <1>3 DEF TakenInv
<1> QED
  BY <1>5, <1>6 DEF TakenInv

(* A removal lands on what was leaving; a death forgets the removals.      *)
LEMMA RemovalIsSafe ==
  ASSUME FeedTypes, ScreenTypes, TakenInv, (\E t \in Txs : Remove(t) \/ Purge(t)) \/ Crash
  PROVE  TakenInv'
<1>1. ASSUME NEW t \in Txs, Remove(t) \/ Purge(t) PROVE TakenInv'
  <2>1. /\ UNCHANGED <<log, saved, taken>> /\ Leaves(t)
        /\ \A x \in Txs : x # t => store'[x] = store[x] /\ (Leaves(x)' => Leaves(x))
        /\ store'[t] = store[t] \/ store'[t] = Absent
        /\ Leaves(t)' => Leaves(t)
    BY <1>1 DEF Remove, Purge, past, Leaves, ScreenTypes
  <2>2. ASSUME NEW n \in saved PROVE Safe(n)'
    <3>1. Safe(n) /\ Tx(n) \in Txs
      BY OfTransaction DEF TakenInv
    <3>2. Tx(n)' = Tx(n) /\ (TakenBack(n)' <=> TakenBack(n))
      BY <2>1 DEF Tx, TakenBack, Added
    <3>3. SUFFICES ASSUME ~TakenBack(n), Tx(n) \notin taken
                   PROVE  store'[Tx(n)] # Absent /\ ~(Leaves(Tx(n))')
      BY <2>1, <3>2 DEF Safe, Leaves
    <3>4. store[Tx(n)] # Absent /\ ~Leaves(Tx(n))
      BY <3>1, <3>3 DEF Safe
    <3>5. \A x \in Txs : x # t => (Leaves(x)' => Leaves(x))
      BY <2>1
    <3>6. Leaves(Tx(n))' => Leaves(Tx(n))
      BY <2>1, <3>1, <3>2, <3>4, <3>5 DEF Leaves
    <3> QED
      BY <2>1, <3>1, <3>4, <3>6
  <2> QED
    BY <2>1, <2>2 DEF TakenInv
<1>2. CASE Crash
  <2>1. /\ UNCHANGED <<log, store, saved>> /\ taken' = {t \in taken : store[t] = Absent}
        /\ removing' = [t \in Txs |-> 0] /\ purge' = NoPurge
    BY <1>2 DEF Crash, storage
  <2>2. \A t \in Txs : ~(Leaves(t)')
    BY <2>1 DEF Leaves, NoPurge
  <2>3. ASSUME NEW n \in saved PROVE Safe(n)'
    <3>1. Safe(n) /\ Tx(n) \in Txs
      BY OfTransaction DEF TakenInv
    <3>2. Tx(n)' = Tx(n) /\ (TakenBack(n)' <=> TakenBack(n))
      BY <2>1 DEF Tx, TakenBack, Added
    <3>3. ~(removing'[Tx(n)] > 0) /\ Tx(n) \notin purge'.left
      BY <2>1, <3>1 DEF NoPurge
    <3> QED
      BY <2>1, <3>1, <3>2, <3>3 DEF Safe, Leaves
  <2> QED
    BY <2>1, <2>3 DEF TakenInv
<1> QED
  BY <1>1, <1>2

(* Every step of the feed.                                                 *)
LEMMA NextIsSafe == Inv /\ ScreenInv /\ TakenInv /\ [Next]_vars => TakenInv'
<1> SUFFICES ASSUME Inv, ScreenInv, TakenInv, [Next]_vars
             PROVE  TakenInv'
  OBVIOUS
<1>1. FeedTypes /\ Published /\ ScreenTypes
  BY DEF Inv, ScreenInv
<1>2. ASSUME NEW t \in Txs, NEW kind \in Kinds, Publish(t, kind)
      PROVE  TakenInv'
  BY <1>1, <1>2, PublishIsSafe
<1>3. CASE StartService
  BY <1>1, <1>3, StartIsSafe
<1>4. CASE Resubscribe \/ ResetCursor \/ ShowWallet \/ UNCHANGED vars
  <2>1. UNCHANGED <<log, store, removing, purge, saved, taken>>
    BY <1>4 DEF Resubscribe, ResetCursor, ShowWallet, vars, storage, past
  <2> QED
    BY <2>1, AsideIsSafe
<1>5. ASSUME NEW k \in Opens, ReceiveHistory(k) \/ ReceiveLive(k)
      PROVE  TakenInv'
  <2>1. UNCHANGED <<log, store, removing, purge, saved, taken>>
    BY <1>5 DEF ReceiveHistory, ReceiveLive, Receive, storage, past
  <2> QED
    BY <2>1, AsideIsSafe
<1>6. ASSUME NEW k \in Opens, Flush(k) \/ HistoryFails(k) \/ LiveEnds(k)
      PROVE  TakenInv'
  <2>1. FlushBuffer(k) /\ UNCHANGED <<log, store, purge, saved>>
    BY <1>6 DEF Flush, HistoryFails, LiveEnds, storage
  <2>2. CASE buffer[k] = <<>>
    <3>1. UNCHANGED <<removing, taken>>
      BY <2>1, <2>2 DEF FlushBuffer
    <3> QED
      BY <2>1, <3>1, AsideIsSafe
  <2>3. CASE buffer[k] # <<>>
    <3>1. PICK batch \in Seq(Numbers) : batch = buffer[k]
      BY <1>1 DEF FeedTypes
    <3>2. Process(batch)
      BY <2>1, <2>3, <3>1 DEF FlushBuffer
    <3> QED
      BY <1>1, <2>1, <3>2, ProcessIsSafe
  <2> QED
    BY <2>2, <2>3
<1>7. ASSUME NEW j \in Jobs, NEW i \in 1..MaxBatch, Submit(j, i)
      PROVE  TakenInv'
  <2>1. i \in DOMAIN jobs[j]
    BY <1>7 DEF Submit, At
  <2> QED
    BY <1>1, <1>7, <2>1, SubmitIsSafe
<1>8. ASSUME NEW j \in Jobs, NEW i \in 1..MaxBatch,
             ReadBack(j, i) \/ SubmitFails(j, i) \/ SetCursor(j, i)
      PROVE  TakenInv'
  <2>1. UNCHANGED <<log, store, removing, purge, saved, taken>>
    BY <1>8 DEF ReadBack, SubmitFails, SetCursor, storage, past
  <2> QED
    BY <2>1, AsideIsSafe
<1>9. ASSUME NEW j \in Jobs, Tell(j) \/ GiveUp(j)
      PROVE  TakenInv'
  <2>1. UNCHANGED <<log, store, removing, purge, saved, taken>>
    BY <1>9 DEF Tell, GiveUp, storage, past
  <2> QED
    BY <2>1, AsideIsSafe
<1>10. CASE (\E t \in Txs : Remove(t) \/ Purge(t)) \/ Crash
  BY <1>1, <1>10, RemovalIsSafe
<1>11. CASE TellPurged
  <2>1. UNCHANGED <<log, store, removing, saved, taken>> /\ purge' = NoPurge
    BY <1>11 DEF TellPurged, storage, past
  <2> QED
    BY <2>1, AsideIsSafe DEF NoPurge
<1> QED
  BY <1>2, <1>3, <1>4, <1>5, <1>6, <1>7, <1>8, <1>9, <1>10, <1>11 DEF Next

(* For every set of transactions and every bound: the transaction of an    *)
(* event that the stored cursor has passed is in the storage, on its way,  *)
(* or taken back by the server; but for what was given up by a failure or  *)
(* a death and not asked for since, and what the purge of a start, or a    *)
(* removal for an earlier event, took away behind the cursor.  subscribe() *)
(* asks for what came after the cursor only, so nobody would notice any    *)
(* other.                                                                  *)
THEOREM NoGapGoesUnnoticed == Spec => []NoSilentGap
<1>1. Init => Inv /\ ScreenInv /\ TakenInv
  <2>1. Init => TakenInv
    BY DEF Init, TakenInv
  <2> QED
    BY <2>1, InitInv, InitKeepsScreen
<1>2. Inv /\ ScreenInv /\ TakenInv /\ [Next]_vars => Inv' /\ ScreenInv' /\ TakenInv'
  BY NextKeepsInv, NextKeepsScreen, NextIsSafe
<1>3. Inv /\ TakenInv => NoSilentGap
  <2> SUFFICES ASSUME Inv, TakenInv, NEW n \in 1..cursor, Added(n)
               PROVE  \/ n \in saved /\ store[Tx(n)] # Absent
                      \/ n \in excused \cup Buffered \cup InHandler
                      \/ \E k \in Opens : n \in HistEvents(k)
                      \/ TakenBack(n) \/ Tx(n) \in taken
    BY DEF NoSilentGap
  <2>1. Shapes
    BY Typing DEF Inv
  <2>2. Accounted(n)
    BY DEF Inv, NothingBehind, Covered
  <2>3. CASE Waits(n)
    BY <2>3 DEF Waits, Buffered
  <2>4. CASE Submitting(n)
    BY <2>4 DEF Submitting, InHandler, At
  <2>5. CASE Owed(n)
    BY <2>5, <2>1 DEF Owed, HistEvents, Shapes, Numbers
  <2>6. CASE n \in saved
    BY <2>6 DEF TakenInv, Safe
  <2> QED
    BY <2>2, <2>3, <2>4, <2>5, <2>6 DEF Accounted
<1> QED
  BY <1>1, <1>2, <1>3, PTL DEF Spec

-----------------------------------------------------------------------------
(* The bounds of the rest: batches are no longer than a buffer, stages are *)
(* those of the handler, and histories are of what was published.          *)
Bounded ==
  /\ Len(log) <= MaxLog /\ restarts \in Nat
  /\ \A k \in Opens : Len(buffer[k]) <= MaxBatch
  /\ \A j \in Jobs : DOMAIN jobs[j] \subseteq 1..MaxBatch
  /\ \A j \in Jobs : \A i \in DOMAIN jobs[j] :
       jobs[j][i].stage \in Stages /\ jobs[j][i].version \in Nat
  /\ rows \in [Txs -> Seq(Nat)] /\ shown \in BOOLEAN
  /\ saved \subseteq Events /\ excused \subseteq Events /\ clash \subseteq Txs

(* A set of naturals that is not empty has a least member.                 *)
LEMMA LeastOne ==
  ASSUME NEW T, T \subseteq Nat, T # {}
  PROVE  \E m \in T : \A n \in T : m <= n
<1> DEFINE R == {pair \in Nat \X Nat : pair[1] < pair[2]}
<1>1. IsWellFoundedOn(R, Nat)
  BY NatLessThanWellFounded DEF OpToRel
<1> HIDE DEF R
<1>2. PICK m \in T : \A n \in T : <<n, m>> \notin R
  BY <1>1, WFMin
<1>3. \A n \in T : ~(n < m)
  <2> SUFFICES ASSUME NEW n \in T, n < m
               PROVE  FALSE
    OBVIOUS
  <2>1. <<n, m>> \in R
    BY DEF R
  <2> QED
    BY <2>1, <1>2
<1> QED
  BY <1>3

(* The places of a batch can be put in order.                              *)
Ordering(S, o) ==
  /\ o \in [1..Cardinality(S) -> S]
  /\ \A r, s \in 1..Cardinality(S) : r < s => o[r] < o[s]

(* A set without its greatest member is put in order, and that one last.   *)
LEMMA OneMoreInOrder ==
  ASSUME NEW S, IsFiniteSet(S), S \subseteq Int, NEW m \in S, \A x \in S : x <= m,
         NEW p, Ordering(S \ {m}, p)
  PROVE  \E o : Ordering(S, o)
<1> DEFINE T == S \ {m}
<1>1. IsFiniteSet(T) /\ Cardinality(T) = Cardinality(S) - 1 /\ Cardinality(S) \in Nat
  BY FS_RemoveElement, FS_CardinalityType
<1> PICK c \in Nat : c = Cardinality(T)
  BY <1>1, FS_CardinalityType
<1>2. p \in [1..c -> T] /\ \A r, s \in 1..c : r < s => p[r] < p[s]
  BY DEF Ordering
<1>3. Cardinality(S) = c + 1
  BY <1>1
<1> DEFINE o == [r \in 1..(c + 1) |-> IF r = c + 1 THEN m ELSE p[r]]
<1>4. \A r \in 1..(c + 1) : o[r] \in S /\ (r # c + 1 => r \in 1..c /\ o[r] = p[r])
  BY <1>2
<1>5. o \in [1..(c + 1) -> S]
  BY <1>4
<1>6. ASSUME NEW r \in 1..(c + 1), NEW s \in 1..(c + 1), r < s
      PROVE  o[r] < o[s]
  <2>1. r # c + 1 /\ r \in 1..c
    BY <1>6
  <2>2. o[r] = p[r] /\ p[r] \in T
    BY <1>2, <1>4, <2>1
  <2>3. CASE s = c + 1
    <3>1. o[s] = m /\ p[r] <= m /\ p[r] # m /\ p[r] \in Int /\ m \in Int
      BY <2>1, <2>3, <2>2
    <3> QED
      BY <2>2, <3>1
  <2>4. CASE s # c + 1
    BY <1>2, <1>4, <1>6, <2>1, <2>4, <2>2
  <2> QED
    BY <2>3, <2>4
<1> HIDE DEF o
<1>7. Ordering(S, o)
  BY <1>3, <1>5, <1>6 DEF Ordering
<1> QED
  BY <1>7

(* The least bound for which it failed would be the bound of a set whose   *)
(* rest is put in order.                                                   *)
LEMMA InOrder ==
  ASSUME NEW m \in Nat, NEW S \in SUBSET (1..m)
  PROVE  \E o : Ordering(S, o)
<1> DEFINE Fails(n) == \E A \in SUBSET (1..n) : \A o : ~Ordering(A, o)
           F == {n \in Nat : Fails(n)}
<1>1. ASSUME F # {}
      PROVE  FALSE
  <2>1. PICK n \in F : \A x \in F : n <= x
    BY <1>1, LeastOne
  <2>2. n \in Nat /\ IsFiniteSet(1..n)
    <3>1. n \in Nat
      BY <2>1
    <3> QED
      BY <3>1, FS_Interval
  <2>3. PICK A \in SUBSET (1..n) : \A o : ~Ordering(A, o)
    BY <2>1
  <2>4. IsFiniteSet(A)
    BY <2>2, FS_Subset
  <2>5. CASE n \notin A
    <3>1. n # 0
      <4> SUFFICES ASSUME n = 0
                   PROVE  FALSE
        OBVIOUS
      <4>1. A = {}
        BY <2>2
      <4>2. Cardinality(A) = 0
        BY <4>1, FS_EmptySet
      <4>3. Ordering(A, [r \in 1..0 |-> 0])
        BY <4>1, <4>2 DEF Ordering
      <4> QED
        BY <2>3, <4>3
    <3>2. n - 1 \in Nat /\ A \in SUBSET (1..(n - 1))
      BY <2>2, <2>5, <3>1
    <3>3. n - 1 \in F
      BY <2>3, <3>2
    <3>4. n <= n - 1
      BY <2>1, <3>3
    <3> QED
      BY <2>2, <3>4
  <2>6. CASE n \in A
    <3>1. n - 1 \in Nat /\ A \ {n} \in SUBSET (1..(n - 1))
      BY <2>2, <2>6
    <3>2. n - 1 \notin F
      <4> SUFFICES ASSUME n - 1 \in F
                   PROVE  FALSE
        OBVIOUS
      <4>1. n <= n - 1
        BY <2>1
      <4> QED
        BY <2>2, <4>1
    <3>3. PICK p : Ordering(A \ {n}, p)
      BY <3>1, <3>2
    <3>4. A \subseteq Int /\ \A x \in A : x <= n
      BY <2>2, <2>3
    <3>5. \E o : Ordering(A, o)
      BY <2>4, <2>6, <3>3, <3>4, OneMoreInOrder
    <3> QED
      BY <2>3, <3>5
  <2> QED
    BY <2>5, <2>6
<1> QED
  BY <1>1

(* What a batch read of a transaction is a sequence of versions.           *)
LEMMA VersionsAreVersions ==
  ASSUME NEW batch, DOMAIN batch \subseteq 1..MaxBatch,
         \A i \in DOMAIN batch : batch[i].version \in Nat, NEW t
  PROVE  Versions(batch, t) \in Seq(Nat)
<1> DEFINE places == {i \in DOMAIN batch : Tx(batch[i].event) = t}
           ranks == 1..Cardinality(places)
           order == CHOOSE o \in [ranks -> places] : \A r, s \in ranks : r < s => o[r] < o[s]
<1>1. MaxBatch \in Nat
  BY FeedBounds
<1>2. IsFiniteSet(places)
  <2>1. places \subseteq 1..MaxBatch
    OBVIOUS
  <2>2. IsFiniteSet(1..MaxBatch)
    BY <1>1, FS_Interval
  <2> HIDE DEF places
  <2> QED
    BY <2>1, <2>2, FS_Subset
<1>3. Cardinality(places) \in Nat
  BY <1>2, FS_CardinalityType
<1>4. PICK o : Ordering(places, o)
  BY <1>1, InOrder
<1>5. order \in [ranks -> places]
  BY <1>4 DEF Ordering
<1>6. Versions(batch, t) = [r \in ranks |-> batch[order[r]].version]
  BY DEF Versions
<1> HIDE DEF order
<1>7. \A r \in ranks : order[r] \in DOMAIN batch
  BY <1>5
<1>8. [r \in ranks |-> batch[order[r]].version] \in [1..Cardinality(places) -> Nat]
  BY <1>7
<1> HIDE DEF places
<1> QED
  BY <1>3, <1>6, <1>8

(* A row stays a row of versions.                                          *)
LEMMA UpdatedIsRows ==
  ASSUME NEW old \in Seq(Nat), NEW updates \in Seq(Nat)
  PROVE  Updated(old, updates) \in Seq(Nat)
<1>1. CASE updates # <<>> /\ old # <<>>
  <2>1. updates[1] \in Nat
    BY <1>1
  <2>2. DOMAIN old = 1..Len(old) /\ Len(old) \in Nat /\ \A r \in 1..Len(old) : old[r] \in Nat
    OBVIOUS
  <2>3. Updated(old, updates)
          = [r \in 1..Len(old) |-> IF old[r] > updates[1] THEN old[r] ELSE updates[1]]
    BY <1>1, <2>2 DEF Updated
  <2>4. \A r \in 1..Len(old) : (IF old[r] > updates[1] THEN old[r] ELSE updates[1]) \in Nat
    BY <2>1, <2>2
  <2> QED
    BY <2>2, <2>3, <2>4
<1> QED
  BY <1>1 DEF Updated

(* An event of a batch names a transaction of the feed.                    *)
LEMMA EventsName ==
  ASSUME Inv, NEW j \in Jobs, NEW i \in DOMAIN jobs[j]
  PROVE  Tx(jobs[j][i].event) \in Txs
<1> DEFINE n == jobs[j][i].event
<1>1. /\ n \in Numbers /\ n <= Len(log) /\ Len(log) \in Nat
  BY Typing DEF Inv, Published, Shapes
<1>2. n \in 1..Len(log)
  BY <1>1 DEF Numbers
<1>3. \A m \in 1..Len(log) : log[m].tx \in Txs
  <2> DEFINE Event == [tx : Txs, kind : Kinds]
  <2>1. log \in Seq(Event)
    BY DEF Inv, FeedTypes
  <2>2. \A e \in Event : e.tx \in Txs
    OBVIOUS
  <2> HIDE DEF Event
  <2>3. \A m \in 1..Len(log) : log[m] \in Event
    BY <2>1
  <2> QED
    BY <2>2, <2>3
<1> QED
  BY <1>2, <1>3 DEF Tx

(* At first nothing is bounded by much.                                    *)
LEMMA InitBounded == Init => Bounded
<1> SUFFICES ASSUME Init
             PROVE  Bounded
  OBVIOUS
<1>1. /\ Len(log) = 0 /\ restarts = 0 /\ shown = FALSE
      /\ saved = {} /\ excused = {} /\ clash = {}
  BY DEF Init
<1>2. \A k \in Opens : Len(buffer[k]) = 0
  BY DEF Init
<1>3. \A j \in Jobs : DOMAIN jobs[j] = {}
  BY DEF Init, Idle
<1>4. rows \in [Txs -> Seq(Nat)]
  <2>1. rows = [t \in Txs |-> <<>>] /\ <<>> \in Seq(Nat)
    BY DEF Init
  <2> QED
    BY <2>1
<1>5. Len(log) <= MaxLog /\ \A k \in Opens : Len(buffer[k]) <= MaxBatch
  BY <1>1, <1>2, FeedBounds
<1>6. /\ \A j \in Jobs : DOMAIN jobs[j] \subseteq 1..MaxBatch
      /\ \A j \in Jobs : \A i \in DOMAIN jobs[j] :
           jobs[j][i].stage \in Stages /\ jobs[j][i].version \in Nat
  BY <1>3
<1> QED
  BY <1>1, <1>4, <1>5, <1>6 DEF Bounded

(* Steps on the feed, the storage and the flows.                           *)
LEMMA FlowsKeepBounds ==
  ASSUME Inv, Bounded,
         \/ \E t \in Txs, kind \in Kinds : Publish(t, kind)
         \/ StartService \/ Resubscribe \/ ResetCursor
         \/ \E t \in Txs : Remove(t) \/ Purge(t)
         \/ UNCHANGED vars
  PROVE  Bounded'
<1>1. CASE \E t \in Txs, kind \in Kinds : Publish(t, kind)
  <2>1. /\ Len(log) < MaxLog /\ UNCHANGED <<restarts, buffer, jobs, rows, shown, saved, excused, clash>>
        /\ \E x : log' = Append(log, x)
    BY <1>1 DEF Publish, flows, screen, past
  <2>2. Len(log') <= MaxLog
    BY <2>1, FeedBounds DEF Inv, FeedTypes
  <2> QED
    BY <2>1, <2>2 DEF Bounded
<1>2. CASE StartService
  <2>1. /\ UNCHANGED <<log, restarts, buffer, jobs, rows, shown, saved>>
        /\ clash' \subseteq clash \cup Txs /\ excused' \subseteq excused
    BY <1>2 DEF StartService, OpenFlows, screen
  <2> QED
    BY <2>1 DEF Bounded
<1>3. CASE Resubscribe
  <2>1. /\ UNCHANGED <<log, buffer, jobs, rows, shown, saved, clash>>
        /\ restarts > 0 /\ restarts' = restarts - 1 /\ excused' \subseteq excused
    BY <1>3 DEF Resubscribe, OpenFlows, screen
  <2> QED
    BY <2>1 DEF Bounded
<1>4. CASE ResetCursor \/ UNCHANGED vars
  <2>1. UNCHANGED <<log, restarts, buffer, jobs, rows, shown, saved, excused, clash>>
    BY <1>4 DEF ResetCursor, vars, flows, screen, past
  <2> QED
    BY <2>1 DEF Bounded
<1>5. ASSUME NEW t \in Txs, Remove(t) \/ Purge(t)
      PROVE  Bounded'
  <2>1. /\ UNCHANGED <<log, restarts, buffer, jobs, rows, shown, saved, excused>>
        /\ clash' \subseteq clash \cup {t}
    BY <1>5 DEF Remove, Purge, flows, screen, past
  <2> QED
    BY <2>1 DEF Bounded
<1> QED
  BY <1>1, <1>2, <1>3, <1>4, <1>5

(* A buffer that takes an event is not full.                               *)
LEMMA ReceiveKeepsBounds ==
  ASSUME Inv, Bounded, NEW k \in Opens, ReceiveHistory(k) \/ ReceiveLive(k)
  PROVE  Bounded'
<1>1. /\ UNCHANGED <<log, restarts, jobs, rows, shown, saved, excused, clash>>
      /\ Len(buffer[k]) < MaxBatch
      /\ \E x : buffer' = [buffer EXCEPT ![k] = Append(@, x)]
  BY DEF ReceiveHistory, ReceiveLive, Receive, screen, past
<1>2. /\ \A l \in Opens : l # k => buffer'[l] = buffer[l]
      /\ buffer[k] \in Seq(Numbers)
      /\ \E x : buffer'[k] = Append(buffer[k], x)
  BY <1>1 DEF Inv, FeedTypes
<1>3. Len(buffer'[k]) = Len(buffer[k]) + 1 /\ Len(buffer[k]) \in Nat
  BY <1>2
<1>4. \A l \in Opens : Len(buffer'[l]) <= MaxBatch
  BY <1>1, <1>2, <1>3, FeedBounds DEF Bounded
<1> QED
  BY <1>1, <1>4 DEF Bounded

(* A batch is no longer than the buffer, and begins with submissions.      *)
LEMMA ProcessKeepsBounds ==
  ASSUME FeedTypes, Bounded, NEW batch \in Seq(Numbers), Len(batch) <= MaxBatch, Process(batch)
  PROVE  /\ \A j \in Jobs : DOMAIN jobs'[j] \subseteq 1..MaxBatch
         /\ \A j \in Jobs : \A i \in DOMAIN jobs'[j] :
              jobs'[j][i].stage \in Stages /\ jobs'[j][i].version \in Nat
         /\ rows' \in [Txs -> Seq(Nat)] /\ clash' \subseteq Txs
<1> DEFINE added == {i \in DOMAIN batch : Added(batch[i])}
           new == [i \in added |-> [event |-> batch[i], stage |-> "submit", version |-> 0]]
<1>1. added \subseteq 1..MaxBatch
  BY FeedBounds
<1>2. jobs' = jobs \/ \E j \in Jobs : jobs' = [jobs EXCEPT ![j] = new]
  BY DEF Process
<1>3. \A i \in added : new[i].stage \in Stages /\ new[i].version \in Nat
  BY DEF Stages
<1>4. DOMAIN new = added
  OBVIOUS
<1> HIDE DEF new, added
<1>5. \A j \in Jobs : jobs'[j] = jobs[j] \/ jobs'[j] = new
  BY <1>2 DEF FeedTypes
<1>8. rows' \in [Txs -> Seq(Nat)]
  <2>1. PICK gone : rows' = [t \in Txs |-> IF t \in gone THEN <<>> ELSE rows[t]]
    BY DEF Process
  <2>2. \A t \in Txs : (IF t \in gone THEN <<>> ELSE rows[t]) \in Seq(Nat)
    BY DEF Bounded
  <2> QED
    BY <2>1, <2>2
<1>9. clash' \subseteq clash \cup Txs
  BY DEF Process
<1> QED
  BY <1>1, <1>3, <1>4, <1>5, <1>8, <1>9 DEF Bounded

(* A flush, with or without the end of a flow.                             *)
LEMMA FlushesKeepBounds ==
  ASSUME Inv, Bounded, NEW k \in Opens, Flush(k) \/ HistoryFails(k) \/ LiveEnds(k)
  PROVE  Bounded'
<1>1. FeedTypes /\ Shapes
  BY Typing DEF Inv
<1>2. FlushBuffer(k) /\ UNCHANGED <<log, shown, saved>>
  BY DEF Flush, HistoryFails, LiveEnds
<1>3. restarts' \in Nat
  BY DEF Flush, HistoryFails, LiveEnds, flows, Bounded
<1>4. excused' \subseteq Events
  <2>1. excused' \subseteq excused \cup HistEvents(k)
    BY DEF Flush, HistoryFails, LiveEnds
  <2>2. HistEvents(k) \subseteq Events
    <3>1. /\ hist[k].next \in Numbers /\ hist[k].last \in Nat /\ hist[k].last <= Len(log)
          /\ Len(log) \in Nat /\ Len(log) <= MaxLog
      BY <1>1 DEF Shapes, Inv, Published, Bounded
    <3> QED
      BY <3>1, FeedBounds DEF HistEvents, Events, Numbers
  <2> QED
    BY <2>1, <2>2 DEF Bounded
<1>5. /\ \A j \in Jobs : DOMAIN jobs'[j] \subseteq 1..MaxBatch
      /\ \A j \in Jobs : \A i \in DOMAIN jobs'[j] :
           jobs'[j][i].stage \in Stages /\ jobs'[j][i].version \in Nat
      /\ rows' \in [Txs -> Seq(Nat)] /\ clash' \subseteq Txs
  <2>1. CASE buffer[k] = <<>>
    BY <1>2, <2>1 DEF FlushBuffer, Bounded
  <2>2. CASE buffer[k] # <<>>
    <3>1. Process(buffer[k]) /\ buffer[k] \in Seq(Numbers) /\ Len(buffer[k]) <= MaxBatch
      BY <1>1, <1>2, <2>2 DEF FlushBuffer, FeedTypes, Bounded
    <3> QED
      BY <1>1, <3>1, ProcessKeepsBounds
  <2> QED
    BY <2>1, <2>2
<1>6. \A l \in Opens : Len(buffer'[l]) <= MaxBatch
  <2>1. buffer' = [buffer EXCEPT ![k] = <<>>]
    BY <1>2 DEF FlushBuffer
  <2>2. \A l \in Opens : buffer'[l] = buffer[l] \/ Len(buffer'[l]) = 0
    BY <1>1, <2>1 DEF FeedTypes
  <2> QED
    BY <2>2, FeedBounds DEF Bounded
<1> QED
  BY <1>2, <1>3, <1>4, <1>5, <1>6 DEF Bounded

(* A submission that moves on is still a submission.                       *)
LEMMA MovedKeepsBounds ==
  ASSUME Inv, Bounded, NEW j \in Jobs, NEW i \in DOMAIN jobs[j], NEW s \in Stages, NEW v \in Nat,
         jobs' = Moved(j, i, s, v),
         UNCHANGED <<log, restarts, buffer, rows, shown, clash>>,
         saved' \subseteq saved \cup {jobs[j][i].event},
         excused' \subseteq excused \cup {jobs[j][i].event}
  PROVE  Bounded'
<1>1. FeedTypes /\ Shapes
  BY Typing DEF Inv
<1>2. jobs[j][i].event \in Events
  <2>1. /\ jobs[j][i].event \in Numbers /\ jobs[j][i].event <= Len(log)
        /\ Len(log) \in Nat /\ Len(log) <= MaxLog
    BY <1>1 DEF Shapes, Inv, Published, Bounded
  <2> QED
    BY <2>1, FeedBounds DEF Events, Numbers
<1> DEFINE item == [event |-> jobs[j][i].event, stage |-> s, version |-> v]
<1>3. /\ jobs'[j] = [jobs[j] EXCEPT ![i] = item]
      /\ \A x \in Jobs : x # j => jobs'[x] = jobs[x]
  BY <1>1 DEF FeedTypes, Moved
<1>4. \A x \in Jobs : DOMAIN jobs'[x] = DOMAIN jobs[x]
  BY <1>3
<1>5. \A y \in DOMAIN jobs[j] : jobs'[j][y] = jobs[j][y] \/ jobs'[j][y] = item
  BY <1>3
<1>6. item.stage \in Stages /\ item.version \in Nat
  OBVIOUS
<1> HIDE DEF item
<1>7. \A x \in Jobs : \A y \in DOMAIN jobs'[x] :
        jobs'[x][y].stage \in Stages /\ jobs'[x][y].version \in Nat
  <2> SUFFICES ASSUME NEW x \in Jobs, NEW y \in DOMAIN jobs'[x]
               PROVE  jobs'[x][y].stage \in Stages /\ jobs'[x][y].version \in Nat
    OBVIOUS
  <2>1. y \in DOMAIN jobs[x]
    BY <1>4
  <2>2. CASE jobs'[x][y] = jobs[x][y]
    BY <2>1, <2>2 DEF Bounded
  <2>3. CASE jobs'[x][y] = item
    BY <1>6, <2>3
  <2>4. CASE x # j
    BY <1>3, <2>2, <2>4
  <2>5. CASE x = j
    BY <1>5, <2>1, <2>2, <2>3, <2>5
  <2> QED
    BY <2>4, <2>5
<1>8. \A x \in Jobs : DOMAIN jobs'[x] \subseteq 1..MaxBatch
  BY <1>4 DEF Bounded
<1>9. saved' \subseteq Events /\ excused' \subseteq Events
  BY <1>2 DEF Bounded
<1> QED
  BY <1>7, <1>8, <1>9 DEF Bounded

(* The steps of the handler.                                               *)
LEMMA HandlerKeepsBounds ==
  ASSUME Inv, ScreenInv, Bounded, NEW j \in Jobs, NEW i \in 1..MaxBatch,
         Submit(j, i) \/ ReadBack(j, i) \/ SubmitFails(j, i) \/ SetCursor(j, i)
  PROVE  Bounded'
<1>1. FeedTypes
  BY DEF Inv
<1>2. i \in DOMAIN jobs[j]
  BY DEF Submit, ReadBack, SubmitFails, SetCursor, At
<1>3. UNCHANGED <<log, restarts, buffer, rows, shown, clash>>
  BY DEF Submit, ReadBack, SubmitFails, SetCursor, flows, screen, past
<1>4. /\ saved' \subseteq saved \cup {jobs[j][i].event}
      /\ excused' \subseteq excused \cup {jobs[j][i].event}
  BY DEF Submit, ReadBack, SubmitFails, SetCursor, past
<1>5. jobs[j][i].version \in Nat
  BY <1>2 DEF Bounded
<1>6. \E s \in Stages : \E v \in Nat : jobs' = Moved(j, i, s, v)
  <2>1. CASE ReadBack(j, i)
    <3> DEFINE n == jobs[j][i].event
               v == store[Tx(n)].version
               next == IF v = 0 THEN "failed" ELSE IF HasCursor(n) THEN "cursor" ELSE "done"
    <3>1. jobs' = Reread(j, i, next, v)
      BY <2>1 DEF ReadBack, Reread
    <3>2. next \in Stages
      BY DEF Stages
    <3>3. v \in Nat
      <4>2. Tx(n) \in Txs
        BY <1>2, EventsName
      <4>3. store[Tx(n)].version \in Nat
        BY <4>2 DEF ScreenInv, ScreenTypes
      <4> QED
        BY <4>3
    <3> HIDE DEF next, v
    <3>4. jobs' = Moved(j, i, next, v)
      BY <1>1, <1>2, <3>1, Moving
    <3> QED
      BY <3>2, <3>3, <3>4
  <2>2. CASE Submit(j, i) \/ SubmitFails(j, i) \/ SetCursor(j, i)
    <3>1. \E s \in Stages : jobs' = Restaged(j, i, s)
      BY <2>2 DEF Submit, SubmitFails, SetCursor, Stages, Restaged
    <3> QED
      BY <1>1, <1>2, <1>5, <3>1, Moving
  <2> QED
    BY <2>1, <2>2
<1> QED
  BY <1>2, <1>3, <1>4, <1>6, MovedKeepsBounds

(* The end of a batch: rows take the versions it read.                     *)
LEMMA EndOfBatchKeepsBounds ==
  ASSUME Inv, Bounded, NEW j \in Jobs, Tell(j) \/ GiveUp(j)
  PROVE  Bounded'
<1>1. FeedTypes
  BY DEF Inv
<1>2. /\ jobs' = [jobs EXCEPT ![j] = Idle]
      /\ UNCHANGED <<log, restarts, buffer, shown, saved, excused>>
  BY DEF Tell, GiveUp, flows, screen, past
<1>3. /\ \A x \in Jobs : DOMAIN jobs'[x] \subseteq 1..MaxBatch
      /\ \A x \in Jobs : \A i \in DOMAIN jobs'[x] :
           jobs'[x][i].stage \in Stages /\ jobs'[x][i].version \in Nat
  <2>1. \A x \in Jobs : jobs'[x] = jobs[x] \/ DOMAIN jobs'[x] = {}
    BY <1>1, <1>2 DEF FeedTypes, Idle
  <2> QED
    BY <2>1 DEF Bounded
<1>4. rows' \in [Txs -> Seq(Nat)]
  <2>1. CASE Tell(j)
    <3>1. rows' = rows \/ rows' = [t \in Txs |-> Updated(rows[t], Versions(jobs[j], t))]
      BY <2>1 DEF Tell
    <3>2. ASSUME NEW t \in Txs
          PROVE  Updated(rows[t], Versions(jobs[j], t)) \in Seq(Nat)
      <4>1. Versions(jobs[j], t) \in Seq(Nat)
        BY VersionsAreVersions DEF Bounded
      <4>2. rows[t] \in Seq(Nat)
        BY DEF Bounded
      <4> QED
        BY <4>1, <4>2, UpdatedIsRows
    <3> QED
      BY <3>1, <3>2 DEF Bounded
  <2>2. CASE GiveUp(j)
    BY <2>2 DEF GiveUp, screen, Bounded
  <2> QED
    BY <2>1, <2>2
<1>5. clash' \subseteq Txs
  <2>1. TxsOf(j) \subseteq Txs
    BY EventsName DEF TxsOf
  <2>2. clash' \subseteq clash \cup TxsOf(j)
    BY DEF Tell, GiveUp, past
  <2> QED
    BY <2>1, <2>2 DEF Bounded
<1> QED
  BY <1>2, <1>3, <1>4, <1>5 DEF Bounded

(* The rows removed at start, and the wallet loaded.                       *)
LEMMA ScreenKeepsBounds ==
  ASSUME ScreenInv, Bounded, TellPurged \/ ShowWallet
  PROVE  Bounded'
<1>1. UNCHANGED <<log, restarts, buffer, jobs, saved, excused>>
  BY DEF TellPurged, ShowWallet, flows, past
<1>2. shown' \in BOOLEAN /\ clash' \subseteq Txs
  BY DEF TellPurged, ShowWallet, past, Bounded
<1>3. rows' \in [Txs -> Seq(Nat)]
  <2>1. CASE TellPurged
    <3>1. PICK gone : rows' = [t \in Txs |-> IF t \in gone THEN <<>> ELSE rows[t]]
      BY <2>1 DEF TellPurged
    <3>2. \A t \in Txs : (IF t \in gone THEN <<>> ELSE rows[t]) \in Seq(Nat)
      BY DEF Bounded
    <3> QED
      BY <3>1, <3>2
  <2>2. CASE ShowWallet
    <3>1. \A t \in Txs : store[t].version \in Nat
      BY DEF ScreenInv, ScreenTypes
    <3>2. \A t \in Txs : (IF store[t] = Absent THEN <<>> ELSE <<store[t].version>>) \in Seq(Nat)
      BY <3>1
    <3>3. rows' = [t \in Txs |-> IF store[t] = Absent THEN <<>> ELSE <<store[t].version>>]
      BY <2>2 DEF ShowWallet
    <3> QED
      BY <3>2, <3>3
  <2> QED
    BY <2>1, <2>2
<1> QED
  BY <1>1, <1>2, <1>3 DEF Bounded

(* What a crash gives up had been published.                               *)
LEMMA CrashKeepsBounds ==
  ASSUME Inv, Bounded, Crash
  PROVE  Bounded'
<1>1. Shapes
  BY Typing DEF Inv
<1>2. Len(log) \in Nat /\ Len(log) <= MaxLog /\ MaxLog \in Nat
  BY <1>1, FeedBounds DEF Shapes, Bounded
<1>3. \A n \in Numbers : n <= Len(log) => n \in Events
  BY <1>2 DEF Numbers, Events
<1>4. Buffered \subseteq Events
  BY <1>1, <1>3 DEF Buffered, Shapes, Inv, Published
<1>5. InHandler \subseteq Events
  BY <1>1, <1>3 DEF InHandler, At, Shapes, Inv, Published
<1>6. ASSUME NEW k \in Opens
      PROVE  HistEvents(k) \subseteq Events
  <2>1. /\ hist[k].next \in Numbers /\ hist[k].last \in Nat /\ hist[k].last <= Len(log)
    BY <1>1 DEF Shapes, Inv, Published
  <2> QED
    BY <1>2, <2>1 DEF HistEvents, Events, Numbers
<1>7. excused' \subseteq Events
  <2>1. excused' = excused \cup Buffered \cup InHandler \cup UNION {HistEvents(k) : k \in Opens}
    BY DEF Crash
  <2> QED
    BY <1>4, <1>5, <1>6, <2>1 DEF Bounded
<1>8. \A k \in Opens : Len(buffer'[k]) <= MaxBatch
  <2>1. \A k \in Opens : Len(buffer'[k]) = 0
    BY DEF Crash
  <2> QED
    BY <2>1, FeedBounds
<1>9. \A j \in Jobs : DOMAIN jobs'[j] = {}
  BY DEF Crash, Idle
<1>10. rows' \in [Txs -> Seq(Nat)]
  <2>1. rows' = [t \in Txs |-> <<>>] /\ <<>> \in Seq(Nat)
    BY DEF Crash
  <2> QED
    BY <2>1
<1>11. log' = log /\ restarts' = 0 /\ shown' = FALSE /\ saved' = saved /\ clash' = {}
  BY DEF Crash
<1>12. /\ \A j \in Jobs : DOMAIN jobs'[j] \subseteq 1..MaxBatch
       /\ \A j \in Jobs : \A i \in DOMAIN jobs'[j] :
            jobs'[j][i].stage \in Stages /\ jobs'[j][i].version \in Nat
  BY <1>9
<1>13. saved' \subseteq Events /\ Len(log') <= MaxLog /\ restarts' \in Nat
  BY <1>11 DEF Bounded
<1> QED
  BY <1>7, <1>8, <1>10, <1>11, <1>12, <1>13 DEF Bounded

(* Every step keeps the bounds.                                            *)
LEMMA NextKeepsBounds == Inv /\ ScreenInv /\ Bounded /\ [Next]_vars => Bounded'
<1> SUFFICES ASSUME Inv, ScreenInv, Bounded, [Next]_vars
             PROVE  Bounded'
  OBVIOUS
<1>1. CASE \/ \E t \in Txs, kind \in Kinds : Publish(t, kind)
           \/ StartService \/ Resubscribe \/ ResetCursor
           \/ \E t \in Txs : Remove(t) \/ Purge(t)
           \/ UNCHANGED vars
  BY <1>1, FlowsKeepBounds
<1>2. ASSUME NEW k \in Opens, ReceiveHistory(k) \/ ReceiveLive(k)
      PROVE  Bounded'
  BY <1>2, ReceiveKeepsBounds
<1>3. ASSUME NEW k \in Opens, Flush(k) \/ HistoryFails(k) \/ LiveEnds(k)
      PROVE  Bounded'
  BY <1>3, FlushesKeepBounds
<1>4. ASSUME NEW j \in Jobs, NEW i \in 1..MaxBatch,
             Submit(j, i) \/ ReadBack(j, i) \/ SubmitFails(j, i) \/ SetCursor(j, i)
      PROVE  Bounded'
  BY <1>4, HandlerKeepsBounds
<1>5. ASSUME NEW j \in Jobs, Tell(j) \/ GiveUp(j)
      PROVE  Bounded'
  BY <1>5, EndOfBatchKeepsBounds
<1>6. CASE TellPurged \/ ShowWallet
  BY <1>6, ScreenKeepsBounds
<1>7. CASE Crash
  BY <1>7, CrashKeepsBounds
<1> QED
  BY <1>1, <1>2, <1>3, <1>4, <1>5, <1>6, <1>7 DEF Next

(* What was published is an event of the feed.                             *)
LEMMA BoundedTypes == Inv /\ ScreenInv /\ TakenInv /\ Bounded => TypeOK
<1> SUFFICES ASSUME Inv, ScreenInv, TakenInv, Bounded
             PROVE  TypeOK
  OBVIOUS
<1>1. FeedTypes /\ Shapes
  BY Typing DEF Inv
<1>2. Len(log) \in Nat /\ Len(log) <= MaxLog /\ MaxLog \in Nat
  BY <1>1, FeedBounds DEF Shapes, Bounded
<1>3. \A n \in Numbers : n <= Len(log) => n \in Events
  BY <1>2 DEF Numbers, Events
<1>4. cursor \in 0..MaxLog
  BY <1>1, <1>2 DEF FeedTypes
<1>5. hist \in [Opens -> [next : Nat, last : Nat]]
  <2>1. [next : Numbers, last : Nat] \subseteq [next : Nat, last : Nat]
    BY DEF Numbers
  <2> QED
    BY <1>1, <2>1 DEF FeedTypes
<1>6. buffer \in [Opens -> Seq(Events)]
  <2>1. ASSUME NEW k \in Opens
        PROVE  buffer[k] \in Seq(Events)
    <3>1. buffer[k] \in Seq(Numbers)
      BY <1>1 DEF FeedTypes
    <3>2. \A i \in 1..Len(buffer[k]) : buffer[k][i] \in Events
      BY <1>1, <1>3 DEF Shapes, Inv, Published
    <3> QED
      BY <3>1, <3>2
  <2>2. buffer = [k \in Opens |-> buffer[k]]
    BY <1>1 DEF FeedTypes
  <2> QED
    BY <2>1, <2>2
<1>7. ASSUME NEW j \in Jobs
      PROVE  jobs[j] \in [DOMAIN jobs[j] -> [event : Events, stage : Stages, version : Nat]]
  <2>1. ASSUME NEW i \in DOMAIN jobs[j]
        PROVE  jobs[j][i] \in [event : Events, stage : Stages, version : Nat]
    <3>1. jobs[j][i].event \in Events
      BY <1>1, <1>3 DEF Shapes, Inv, Published
    <3>2. jobs[j][i].stage \in Stages /\ jobs[j][i].version \in Nat
      BY DEF Bounded
    <3>3. IsItem(jobs[j][i])
      BY <1>1 DEF FeedTypes
    <3> QED
      BY <3>1, <3>2, <3>3 DEF IsItem
  <2>2. jobs[j] = [i \in DOMAIN jobs[j] |-> jobs[j][i]]
    BY <1>1 DEF FeedTypes
  <2> QED
    BY <2>1, <2>2
<1>8. /\ log \in Seq([tx : Txs, kind : Kinds])
      /\ opens \in 0..MaxOpens /\ live \in [Opens -> Nat]
  BY <1>1 DEF FeedTypes
<1>9. /\ store \in [Txs -> [version : Nat, submitted : BOOLEAN]]
      /\ removing \in [Txs -> Nat]
      /\ purge \in [left : SUBSET Txs, told : SUBSET Txs]
  BY DEF ScreenInv, ScreenTypes
<1>10. /\ restarts \in Nat /\ rows \in [Txs -> Seq(Nat)] /\ shown \in BOOLEAN
       /\ saved \subseteq Events /\ excused \subseteq Events /\ clash \subseteq Txs
       /\ taken \subseteq Txs
  BY DEF Bounded, TakenInv
<1> QED
  BY <1>4, <1>5, <1>6, <1>7, <1>8, <1>9, <1>10 DEF TypeOK

(* For every set of transactions and every bound, the variables keep their *)
(* types: every event held, stored or given up was published, every number *)
(* a row shows is a version, and no count falls below zero.                *)
THEOREM FeedIsTyped == Spec => []TypeOK
<1>1. Init => Inv /\ ScreenInv /\ TakenInv /\ Bounded
  <2>1. Init => TakenInv
    BY DEF Init, TakenInv
  <2> QED
    BY <2>1, InitInv, InitKeepsScreen, InitBounded
<1>2. /\ Inv /\ ScreenInv /\ TakenInv /\ Bounded
      /\ [Next]_vars
      => Inv' /\ ScreenInv' /\ TakenInv' /\ Bounded'
  BY NextKeepsInv, NextKeepsScreen, NextIsSafe, NextKeepsBounds
<1> QED
  BY <1>1, <1>2, BoundedTypes, PTL DEF Spec
------------------------------------------------------------------------------
(* Events are carried where they wait, are submitted or are still owed.    *)
Moves(n) == Waits(n) \/ Submitting(n) \/ Owed(n)

(* Batches submit additions only, and what was given up was published.     *)
Honest ==
  /\ \A j \in Jobs : \A i \in DOMAIN jobs[j] : Added(jobs[j][i].event)
  /\ excused \subseteq 1..Len(log)

(* A step of the promise, or none.                                         *)
Steps == [Promise!Next]_(Promise!fvars)

(* The set of the refinement, in terms of the three ways.                  *)
LEMMA WaysAre ==
  ASSUME Shapes, NEW n \in Additions
  PROVE  n \in OnTheirWay <=> Moves(n)
<1>1. n \in 1..Len(log) /\ n \in Nat
  BY DEF Additions, Shapes
<1>2. n \in Buffered <=> Waits(n)
  BY DEF Buffered, Waits
<1>3. n \in InHandler <=> Submitting(n)
  BY DEF InHandler, Submitting, At
<1>4. n \in UNION {HistEvents(k) : k \in Opens} <=> Owed(n)
  <2>1. \A k \in Opens : n \in HistEvents(k) <=> hist[k].next <= n /\ n <= hist[k].last
    BY <1>1 DEF Shapes, HistEvents, Numbers
  <2> QED
    BY <2>1 DEF Owed
<1> QED
  BY <1>2, <1>3, <1>4 DEF OnTheirWay, Moves

(* ... and in the next state.                                              *)
LEMMA NextWaysAre ==
  ASSUME Shapes', NEW n \in Additions'
  PROVE  n \in OnTheirWay' <=> Moves(n)'
<1>1. n \in 1..Len(log') /\ n \in Nat
  BY DEF Additions, Shapes
<1>2. n \in Buffered' <=> Waits(n)'
  BY DEF Buffered, Waits
<1>3. n \in InHandler' <=> Submitting(n)'
  BY DEF InHandler, Submitting, At
<1>4. n \in UNION {HistEvents(k)' : k \in Opens} <=> Owed(n)'
  <2>1. \A k \in Opens : n \in HistEvents(k)' <=> hist'[k].next <= n /\ n <= hist'[k].last
    BY <1>1 DEF Shapes, HistEvents, Numbers
  <2> QED
    BY <2>1 DEF Owed
<1> QED
  BY <1>2, <1>3, <1>4 DEF OnTheirWay, Moves

(* A step after which nothing was published: what is carried can be told   *)
(* event by event.                                                         *)
LEMMA Carrying ==
  ASSUME Shapes, Shapes', log' = log
  PROVE  /\ Additions' = Additions
         /\ OnTheirWay = {n \in Additions : Moves(n)}
         /\ OnTheirWay' = {n \in Additions : Moves(n)'}
<1>1. Additions' = Additions
  BY DEF Additions, Added
<1>2. OnTheirWay \subseteq Additions /\ OnTheirWay' \subseteq Additions'
  BY DEF OnTheirWay
<1> QED
  BY <1>1, <1>2, WaysAre, NextWaysAre

(* A step that moves events from one way to another is none of the promise.*)
LEMMA SameWays ==
  ASSUME Shapes, Shapes', UNCHANGED <<log, cursor, saved, excused>>,
         \A n \in Additions : Moves(n)' <=> Moves(n)
  PROVE  Steps
<1>1. Additions' = Additions /\ OnTheirWay' = OnTheirWay
  BY Carrying
<1> QED
  BY <1>1 DEF Steps, Promise!fvars

(* A step that takes additions, with all that came before them accounted.  *)
LEMMA Taking ==
  ASSUME Shapes, Shapes', UNCHANGED <<log, cursor, saved>>, NEW some \in SUBSET Additions,
         excused' = excused \/ \A n \in Additions : n \in excused' <=> n \in excused /\ n \notin some,
         \A n \in Additions : Moves(n)' <=> Moves(n) \/ n \in some,
         \A n \in some : \A m \in Additions : m < n => Accounted(m)'
  PROVE  Steps
<1>1. /\ Additions' = Additions
      /\ OnTheirWay' = {n \in Additions : Moves(n)'} /\ OnTheirWay = {n \in Additions : Moves(n)}
  BY Carrying
<1>2. OnTheirWay' = OnTheirWay \cup some
  BY <1>1
<1>3. Promise!Take(some)
  <2>1. \A n \in some, m \in Additions : m < n => m \in (Promise!Accounted)'
    <3> SUFFICES ASSUME NEW n \in some, NEW m \in Additions, m < n
                 PROVE  m \in OnTheirWay' \cup saved' \cup (Additions' \cap excused')
      BY DEF Promise!Accounted
    <3>1. Accounted(m)'
      OBVIOUS
    <3>2. m \in saved' \/ m \in excused' \/ Moves(m)'
      BY <3>1 DEF Accounted, Moves
    <3> QED
      BY <3>2, <1>1
  <2>2. (Additions \cap excused)' \in {Additions \cap excused, (Additions \cap excused) \ some}
    <3>1. CASE excused' = excused
      BY <3>1, <1>1
    <3>2. CASE \A n \in Additions : n \in excused' <=> n \in excused /\ n \notin some
      BY <3>2, <1>1
    <3> QED
      BY <3>1, <3>2
  <2> QED
    BY <1>1, <1>2, <2>1, <2>2 DEF Promise!Take
<1> QED
  BY <1>3 DEF Steps, Promise!Next

(* A step that gives additions up which were carried.                      *)
LEMMA GivingUp ==
  ASSUME Shapes, Shapes', UNCHANGED <<log, cursor, saved>>, NEW some \in SUBSET OnTheirWay,
         \A n \in Additions : n \in excused' <=> n \in excused \/ n \in some,
         \A n \in Additions : Moves(n)' => Moves(n),
         \A n \in Additions : Moves(n) => Moves(n)' \/ n \in some
  PROVE  Steps
<1>1. /\ Additions' = Additions
      /\ OnTheirWay' = {n \in Additions : Moves(n)'} /\ OnTheirWay = {n \in Additions : Moves(n)}
  BY Carrying
<1>2. /\ Additions' \cap excused' = (Additions \cap excused) \cup some
      /\ OnTheirWay \ some \subseteq OnTheirWay' /\ OnTheirWay' \subseteq OnTheirWay
  BY <1>1
<1>3. Promise!GiveUp(some)
  BY <1>1, <1>2 DEF Promise!GiveUp
<1> QED
  BY <1>3 DEF Steps, Promise!Next

(* The shapes of both states of a step.                                    *)
LEMMA BothShaped ==
  ASSUME Inv, Inv'
  PROVE  FeedTypes /\ Shapes /\ Shapes'
<1>1. FeedTypes' => Shapes'
  BY Typing, PTL
<1> QED
  BY <1>1, Typing DEF Inv

(* What was published stays an addition or not, and where it is.           *)
LEMMA PublishKeepsPromise ==
  ASSUME Inv, Inv', Honest, NEW t \in Txs, NEW kind \in Kinds, Publish(t, kind)
  PROVE  Honest' /\ Steps
<1>1. FeedTypes /\ Shapes /\ Shapes'
  BY BothShaped
<1>2. /\ Len(log') = Len(log) + 1 /\ Len(log) \in Nat
      /\ \A n \in 1..Len(log) : log'[n] = log[n]
  BY <1>1 DEF Publish, FeedTypes, Shapes
<1>3. /\ cursor' = cursor /\ hist' = hist /\ buffer' = buffer /\ jobs' = jobs
      /\ saved' = saved /\ excused' = excused
  BY DEF Publish, storage, flows, past
<1>4. \A n \in 1..Len(log) : Added(n)' <=> Added(n)
  BY <1>2 DEF Added
<1>5. Honest'
  <2>1. \A j \in Jobs : \A i \in DOMAIN jobs'[j] : Added(jobs[j][i].event)'
    BY <1>1, <1>2, <1>3, <1>4 DEF Honest, Inv, Published, Shapes, Numbers
  <2> QED
    BY <2>1, <1>2, <1>3 DEF Honest
<1>6. Additions' \in {Additions, Additions \cup {Len(log) + 1}}
  <2>1. \A n \in 1..Len(log') : n \in 1..Len(log) \/ n = Len(log) + 1
    BY <1>2
  <2>2. 1..Len(log) \subseteq 1..Len(log') /\ Len(log) + 1 \in 1..Len(log')
    BY <1>2
  <2>3. CASE Added(Len(log) + 1)'
    BY <2>1, <2>2, <2>3, <1>4 DEF Additions
  <2>4. CASE ~Added(Len(log) + 1)'
    BY <2>1, <2>2, <2>4, <1>4 DEF Additions
  <2> QED
    BY <2>3, <2>4
<1>7. Len(log) + 1 \notin excused /\ Len(log) + 1 \notin Additions
  BY <1>2 DEF Honest, Additions
<1>8. Additions' \cap excused' = Additions \cap excused
  BY <1>3, <1>6, <1>7
<1>9. OnTheirWay' = OnTheirWay
  <2>1. \A n : Moves(n)' <=> Moves(n)
    BY <1>3 DEF Moves, Waits, Submitting, Owed
  <2>2. ~Moves(Len(log) + 1)
    <3>1. ~Waits(Len(log) + 1) /\ ~Submitting(Len(log) + 1)
      BY <1>1, <1>2 DEF Waits, Submitting, Inv, Published, Shapes, Numbers
    <3>2. ~Owed(Len(log) + 1)
      BY <1>1, <1>2 DEF Owed, Inv, Published, Shapes, Numbers
    <3> QED
      BY <3>1, <3>2 DEF Moves
  <2>3. OnTheirWay \subseteq Additions /\ OnTheirWay' \subseteq Additions'
    BY DEF OnTheirWay
  <2>4. \A n \in Additions : n \in OnTheirWay <=> Moves(n)
    BY <1>1, WaysAre
  <2>5. \A n \in Additions' : n \in OnTheirWay' <=> Moves(n)'
    BY <1>1, NextWaysAre
  <2> QED
    BY <1>6, <2>1, <2>2, <2>3, <2>4, <2>5
<1>10. Promise!Publish
  BY <1>2, <1>3, <1>6, <1>8, <1>9 DEF Promise!Publish
<1> QED
  BY <1>5, <1>10 DEF Steps, Promise!Next

(* Batches that stay as they are submit what they did.                     *)
LEMMA StaysHonest ==
  ASSUME Honest, log' = log, jobs' = jobs, excused' \subseteq excused
  PROVE  Honest'
  BY DEF Honest, Added

(* A new subscription takes all that came after the cursor.                *)
LEMMA OpenFlowsKeepsPromise ==
  ASSUME Inv, Inv', Honest, NEW others, OpenFlows(others),
         UNCHANGED <<log, cursor, buffer, jobs, saved>>
  PROVE  Honest' /\ Steps
<1> DEFINE new == opens + 1
           some == {n \in Additions : cursor < n}
<1>1. FeedTypes /\ Shapes /\ Shapes'
  BY BothShaped
<1>2. new \in Opens /\ opens \in Nat
  BY <1>1, FeedBounds DEF OpenFlows, Opens, FeedTypes
<1>3. /\ hist'[new].next = cursor + 1 /\ hist'[new].last = Len(log)
      /\ \A k \in Opens : k # new => hist'[k] = hist[k]
  BY <1>1, <1>2 DEF OpenFlows, FeedTypes
<1>4. \A n \in Additions : n \in Nat /\ n <= Len(log)
  BY <1>1 DEF Additions, Shapes
<1>5. \A n \in Additions : Owed(n)' <=> Owed(n) \/ cursor < n
  <2> SUFFICES ASSUME NEW n \in Additions
               PROVE  Owed(n)' <=> Owed(n) \/ cursor < n
    OBVIOUS
  <2>1. n \in Nat /\ n <= Len(log) /\ cursor \in Nat
    BY <1>1, <1>4 DEF Shapes
  <2>2. hist'[new].next <= n /\ n <= hist'[new].last <=> cursor < n
    BY <1>3, <2>1
  <2>3. ~(hist[new].next <= n /\ n <= hist[new].last)
    BY <1>1, <1>2, <2>1 DEF Inv, Published, Shapes, Numbers
  <2> QED
    BY <1>2, <1>3, <2>2, <2>3 DEF Owed
<1>6. \A n \in Additions : Moves(n)' <=> Moves(n) \/ n \in some
  <2>1. \A n : (Waits(n)' <=> Waits(n)) /\ (Submitting(n)' <=> Submitting(n))
    BY DEF Waits, Submitting
  <2> QED
    BY <1>5, <2>1 DEF Moves
<1>7. \A m \in Additions : Accounted(m)'
  <2> SUFFICES ASSUME NEW m \in Additions
               PROVE  Accounted(m)'
    OBVIOUS
  <2>1. CASE cursor < m
    BY <2>1, <1>5 DEF Accounted
  <2>2. CASE ~(cursor < m)
    <3>1. m \in 1..cursor /\ Added(m)
      BY <2>2, <1>1, <1>4 DEF Additions, Shapes
    <3>2. Accounted(m)
      BY <3>1 DEF Inv, NothingBehind, Covered
    <3>3. m \in excused => m \in excused'
      BY <2>2, <1>1, <1>4 DEF OpenFlows, Shapes
    <3>4. Moves(m) => Moves(m)'
      BY <1>6
    <3> QED
      BY <3>2, <3>3, <3>4 DEF Accounted, Moves
  <2> QED
    BY <2>1, <2>2
<1>8. /\ some \in SUBSET Additions /\ excused' \subseteq excused
      /\ \A n \in Additions : n \in excused' <=> n \in excused /\ n \notin some
  <2>1. excused' = excused \ (cursor + 1)..Len(log)
    BY DEF OpenFlows
  <2>2. \A n \in Additions : n \in (cursor + 1)..Len(log) <=> cursor < n
    BY <1>1, <1>4 DEF Shapes
  <2> QED
    BY <2>1, <2>2
<1> HIDE DEF some
<1>9. Steps
  BY <1>1, <1>6, <1>7, <1>8, Taking
<1> QED
  BY <1>8, <1>9, StaysHonest

(* start() and the restart timer open flows; the weekly reset forgets.     *)
LEMMA StartKeepsPromise ==
  ASSUME Inv, Inv', Honest, StartService \/ Resubscribe \/ ResetCursor
  PROVE  Honest' /\ Steps
<1>1. CASE StartService
  BY <1>1, OpenFlowsKeepsPromise DEF StartService, storage
<1>2. CASE Resubscribe
  BY <1>2, OpenFlowsKeepsPromise DEF Resubscribe, storage
<1>3. CASE ResetCursor
  <2>1. /\ log' = log /\ hist' = hist /\ buffer' = buffer /\ jobs' = jobs
        /\ saved' = saved /\ excused' = excused /\ cursor' = 0
    BY <1>3 DEF ResetCursor, flows, past
  <2>2. /\ Additions' = Additions /\ Buffered' = Buffered /\ InHandler' = InHandler
        /\ \A k : HistEvents(k)' = HistEvents(k)
    BY <2>1 DEF Additions, Added, Buffered, InHandler, At, HistEvents
  <2>3. OnTheirWay' = OnTheirWay
    BY <2>2 DEF OnTheirWay
  <2>4. Promise!Acknowledge(0)
    BY <2>1, <2>2, <2>3 DEF Promise!Acknowledge
  <2>5. Steps
    BY <2>4 DEF Steps, Promise!Next
  <2> QED
    BY <2>1, <2>5, StaysHonest
<1> QED
  BY <1>1, <1>2, <1>3

(* What the history flow owed waits instead.                               *)
LEMMA HistoryKeepsPromise ==
  ASSUME Inv, Inv', Honest, NEW k \in Opens, ReceiveHistory(k)
  PROVE  Honest' /\ Steps
<1>1. FeedTypes /\ Shapes /\ Shapes'
  BY BothShaped
<1> PICK n \in Nat : n = hist[k].next
  BY <1>1 DEF Shapes, Numbers
<1>2. /\ log' = log /\ cursor' = cursor /\ jobs' = jobs /\ saved' = saved /\ excused' = excused
  BY DEF ReceiveHistory, Receive, storage, past
<1>3. /\ n \in Numbers /\ n <= hist[k].last
      /\ hist' = [hist EXCEPT ![k].next = @ + 1] /\ Receive(k, n)
  BY <1>1 DEF ReceiveHistory, Shapes, Numbers
<1>4. /\ hist'[k].next = n + 1 /\ hist'[k].last = hist[k].last
      /\ \A l \in Opens : l # k => hist'[l] = hist[l]
  BY <1>1, <1>3 DEF FeedTypes, Shapes, Numbers
<1>5. \A x : Waits(x)' <=> Waits(x) \/ x = n
  BY <1>1, <1>3, Joined
<1>6. \A x \in Additions : Owed(x) <=> Owed(x)' \/ x = n
  <2> SUFFICES ASSUME NEW x \in Additions
               PROVE  Owed(x) <=> Owed(x)' \/ x = n
    OBVIOUS
  <2>1. x \in Nat
    BY <1>1 DEF Additions, Shapes
  <2>2. hist[k].next <= x /\ x <= hist[k].last
          <=> (hist'[k].next <= x /\ x <= hist'[k].last) \/ x = n
    BY <1>1, <1>3, <1>4, <2>1 DEF Shapes, Numbers
  <2> QED
    BY <1>4, <2>2 DEF Owed
<1>7. \A x \in Additions : Moves(x)' <=> Moves(x)
  <2>1. \A x : Submitting(x)' <=> Submitting(x)
    BY <1>2 DEF Submitting
  <2> QED
    BY <1>5, <1>6, <2>1 DEF Moves
<1>8. Steps
  BY <1>1, <1>2, <1>7, SameWays
<1> QED
  BY <1>2, <1>8, StaysHonest

(* The live flow takes the event after the last it took.                   *)
LEMMA LiveKeepsPromise ==
  ASSUME Inv, Inv', Honest, NEW k \in Opens, ReceiveLive(k)
  PROVE  Honest' /\ Steps
<1>1. FeedTypes /\ Shapes /\ Shapes'
  BY BothShaped
<1> PICK n \in Nat : n = live[k]
  BY <1>1 DEF Shapes
<1>2. /\ log' = log /\ cursor' = cursor /\ hist' = hist
      /\ jobs' = jobs /\ saved' = saved /\ excused' = excused
  BY DEF ReceiveLive, Receive, storage, past
<1>3. n \in Numbers /\ n <= Len(log) /\ Receive(k, n)
  BY DEF ReceiveLive, Numbers, Closed
<1>4. \A x : Waits(x)' <=> Waits(x) \/ x = n
  BY <1>1, <1>3, Joined
<1>5. \A x \in Additions : Moves(x)' <=> Moves(x) \/ x \in {n} \cap Additions
  <2>1. \A x : (Submitting(x)' <=> Submitting(x)) /\ (Owed(x)' <=> Owed(x))
    BY <1>2 DEF Submitting, Owed
  <2> QED
    BY <1>4, <2>1 DEF Moves
<1>6. \A x \in {n} \cap Additions : \A m \in Additions : m < x => Accounted(m)'
  <2> SUFFICES ASSUME NEW m \in Additions, m < n
               PROVE  Accounted(m)'
    OBVIOUS
  <2>1. m \in 1..(n - 1) /\ Added(m)
    BY <1>1, <1>3 DEF Additions, Shapes, Numbers
  <2>2. Covered(n - 1)
    BY DEF Inv, NothingBehind
  <2>3. Accounted(m)
    BY <2>1, <2>2 DEF Covered
  <2> QED
    BY <2>3, <1>2, <1>5 DEF Accounted, Moves
<1>7. {n} \cap Additions \in SUBSET Additions
  OBVIOUS
<1>8. Steps
  BY <1>1, <1>2, <1>5, <1>6, <1>7, Taking
<1> QED
  BY <1>2, <1>8, StaysHonest

(* What a flushed batch submits waited in it, and adds a transaction.      *)
LEMMA ProcessIsHonest ==
  ASSUME FeedTypes, NEW batch \in Seq(Numbers), Process(batch)
  PROVE  \A x \in Jobs : \A y \in DOMAIN jobs'[x] :
           \/ y \in DOMAIN jobs[x] /\ jobs'[x][y] = jobs[x][y]
           \/ Added(jobs'[x][y].event) /\ \E i \in 1..Len(batch) : jobs'[x][y].event = batch[i]
<1> DEFINE added == {i \in DOMAIN batch : Added(batch[i])}
           new == [i \in added |-> [event |-> batch[i], stage |-> "submit", version |-> 0]]
<1>1. DOMAIN batch = 1..Len(batch)
  OBVIOUS
<1>2. CASE added = {}
  BY <1>2 DEF Process
<1>3. CASE added # {}
  <2>1. PICK j \in Jobs : jobs[j] = Idle /\ jobs' = [jobs EXCEPT ![j] = new]
    BY <1>3 DEF Process
  <2>2. jobs'[j] = new /\ \A x \in Jobs : x # j => jobs'[x] = jobs[x]
    BY <2>1 DEF FeedTypes
  <2>3. \A y \in DOMAIN jobs'[j] : /\ y \in 1..Len(batch) /\ Added(batch[y])
                                   /\ jobs'[j][y].event = batch[y]
    BY <1>1, <2>2
  <2> QED
    BY <2>2, <2>3
<1> QED
  BY <1>2, <1>3

(* A flush moves the additions that waited to their submissions.           *)
LEMMA FlushMoves ==
  ASSUME Inv, Honest, NEW k \in Opens, FlushBuffer(k), log' = log
  PROVE  /\ \A n \in Additions : Waits(n)' \/ Submitting(n)' <=> Waits(n) \/ Submitting(n)
         /\ \A x \in Jobs : \A y \in DOMAIN jobs'[x] : Added(jobs'[x][y].event)
<1>1. FeedTypes /\ Shapes
  BY Typing DEF Inv
<1>2. /\ buffer[k] \in Seq(Numbers) /\ buffer'[k] = <<>> /\ Len(buffer'[k]) = 0
      /\ \A l \in Opens : l # k => buffer'[l] = buffer[l]
  BY <1>1 DEF FlushBuffer, FeedTypes
<1> PICK batch \in Seq(Numbers) : batch = buffer[k]
  BY <1>2
<1>3. /\ \A x \in Jobs : \A y \in DOMAIN jobs'[x] :
           \/ y \in DOMAIN jobs[x] /\ jobs'[x][y] = jobs[x][y]
           \/ Added(jobs'[x][y].event) /\ \E i \in 1..Len(batch) : jobs'[x][y].event = batch[i]
      /\ \A n : Submitting(n) => Submitting(n)'
      /\ \A i \in 1..Len(batch) : Added(batch[i]) => Submitting(batch[i])'
  <2>1. CASE batch = <<>>
    <3>1. jobs' = jobs /\ Len(batch) = 0
      BY <2>1 DEF FlushBuffer
    <3> QED
      BY <3>1 DEF Submitting
  <2>2. CASE batch # <<>>
    <3>1. Process(batch)
      BY <2>2 DEF FlushBuffer
    <3> QED
      BY <1>1, <3>1, ProcessSubmits, ProcessIsHonest
  <2> QED
    BY <2>1, <2>2
<1>4. ASSUME NEW n \in Additions, Waits(n)
      PROVE  Waits(n)' \/ Submitting(n)'
  <2>1. PICK l \in Opens : \E i \in 1..Len(buffer[l]) : buffer[l][i] = n
    BY <1>4 DEF Waits
  <2>2. CASE l = k
    BY <2>1, <2>2, <1>3 DEF Additions
  <2>3. CASE l # k
    BY <2>1, <2>3, <1>2 DEF Waits
  <2> QED
    BY <2>2, <2>3
<1>5. ASSUME NEW n, Waits(n)'
      PROVE  Waits(n)
  BY <1>2, <1>5 DEF Waits
<1>6. ASSUME NEW n, Submitting(n)'
      PROVE  Waits(n) \/ Submitting(n)
  <2>1. PICK x \in Jobs : \E y \in DOMAIN jobs'[x] :
               jobs'[x][y].stage = "submit" /\ jobs'[x][y].event = n
    BY <1>6 DEF Submitting
  <2>2. PICK y \in DOMAIN jobs'[x] : jobs'[x][y].stage = "submit" /\ jobs'[x][y].event = n
    BY <2>1
  <2>3. CASE y \in DOMAIN jobs[x] /\ jobs'[x][y] = jobs[x][y]
    BY <2>2, <2>3 DEF Submitting
  <2>4. CASE \E i \in 1..Len(batch) : jobs'[x][y].event = batch[i]
    BY <2>2, <2>4 DEF Waits
  <2> QED
    BY <2>3, <2>4, <1>3
<1>7. \A x \in Jobs : \A y \in DOMAIN jobs'[x] : Added(jobs'[x][y].event)
  BY <1>3 DEF Honest
<1> QED
  BY <1>3, <1>4, <1>5, <1>6, <1>7

(* A flush is no step of the promise; a history flow that fails gives up   *)
(* what it still owed.                                                     *)
LEMMA FlushesKeepPromise ==
  ASSUME Inv, Inv', Honest, NEW k \in Opens, Flush(k) \/ HistoryFails(k) \/ LiveEnds(k)
  PROVE  Honest' /\ Steps
<1>1. FeedTypes /\ Shapes /\ Shapes'
  BY BothShaped
<1>2. FlushBuffer(k) /\ UNCHANGED <<log, cursor, saved>>
  BY DEF Flush, HistoryFails, LiveEnds, storage, flows
<1>3. /\ \A n \in Additions : Waits(n)' \/ Submitting(n)' <=> Waits(n) \/ Submitting(n)
      /\ \A x \in Jobs : \A y \in DOMAIN jobs'[x] : Added(jobs'[x][y].event)
  BY <1>2, FlushMoves
<1>4. \A n : Added(n)' <=> Added(n)
  BY <1>2 DEF Added
<1>5. CASE Flush(k) \/ LiveEnds(k)
  <2>1. hist' = hist /\ excused' = excused
    BY <1>5 DEF Flush, LiveEnds, flows
  <2>2. \A n \in Additions : Moves(n)' <=> Moves(n)
    BY <1>3, <2>1 DEF Moves, Owed
  <2>3. Steps
    BY <1>1, <1>2, <2>1, <2>2, SameWays
  <2> QED
    BY <1>2, <1>3, <1>4, <2>1, <2>3 DEF Honest
<1>6. CASE HistoryFails(k)
  <2> DEFINE some == HistEvents(k) \cap Additions
  <2>1. /\ excused' = excused \cup HistEvents(k)
        /\ hist' = [hist EXCEPT ![k].next = hist[k].last + 1]
    BY <1>6 DEF HistoryFails
  <2>2. /\ hist'[k].next = hist[k].last + 1 /\ hist'[k].last = hist[k].last
        /\ \A l \in Opens : l # k => hist'[l] = hist[l]
    BY <1>1, <2>1 DEF FeedTypes
  <2>3. \A n \in Additions : n \in HistEvents(k) <=> hist[k].next <= n /\ n <= hist[k].last
    BY <1>1 DEF Additions, HistEvents, Shapes, Numbers
  <2>4. \A n \in Additions : Owed(n)' => Owed(n)
    <3> SUFFICES ASSUME NEW n \in Additions, Owed(n)'
                 PROVE  Owed(n)
      OBVIOUS
    <3>1. PICK l \in Opens : hist'[l].next <= n /\ n <= hist'[l].last
      BY DEF Owed
    <3>2. l # k
      BY <1>1, <2>2, <3>1 DEF Additions, Shapes
    <3> QED
      BY <2>2, <3>1, <3>2 DEF Owed
  <2>5. \A n \in Additions : Owed(n) => Owed(n)' \/ n \in some
    BY <2>2, <2>3 DEF Owed
  <2>6. some \in SUBSET OnTheirWay
    BY DEF OnTheirWay
  <2>7. \A n \in Additions : n \in excused' <=> n \in excused \/ n \in some
    BY <2>1
  <2> HIDE DEF some
  <2>8. /\ \A n \in Additions : Moves(n)' => Moves(n)
        /\ \A n \in Additions : Moves(n) => Moves(n)' \/ n \in some
    BY <1>3, <2>4, <2>5 DEF Moves
  <2>9. Steps
    BY <1>1, <1>2, <2>6, <2>7, <2>8, GivingUp
  <2>10. excused' \subseteq 1..Len(log')
    <3>1. HistEvents(k) \subseteq 1..Len(log)
      BY <1>1 DEF HistEvents, Inv, Published, Shapes, Numbers
    <3> QED
      BY <1>2, <2>1, <3>1 DEF Honest
  <2> QED
    BY <1>3, <1>4, <2>9, <2>10 DEF Honest
<1> QED
  BY <1>5, <1>6

(* A submission that moves on, from "submit" or from another stage.        *)
LEMMA MovedMoves ==
  ASSUME FeedTypes, Honest, NEW j \in Jobs, NEW i \in DOMAIN jobs[j], NEW s, s # "submit", NEW v,
         jobs' = Moved(j, i, s, v), log' = log
  PROVE  /\ \A x \in Jobs : \A y \in DOMAIN jobs'[x] : Added(jobs'[x][y].event)
         /\ \A n : Submitting(n)' => Submitting(n)
         /\ \A n : Submitting(n) => \/ Submitting(n)'
                                    \/ n = jobs[j][i].event /\ jobs[j][i].stage = "submit"
<1>1. /\ jobs'[j] = [jobs[j] EXCEPT ![i] =
                       [event |-> jobs[j][i].event, stage |-> s, version |-> v]]
      /\ \A x \in Jobs : x # j => jobs'[x] = jobs[x]
  BY DEF FeedTypes, Moved
<1>2. /\ jobs'[j][i].event = jobs[j][i].event /\ jobs'[j][i].stage = s
      /\ \A x \in Jobs : DOMAIN jobs'[x] = DOMAIN jobs[x]
      /\ \A x \in Jobs : \A y \in DOMAIN jobs[x] : x # j \/ y # i => jobs'[x][y] = jobs[x][y]
  BY <1>1
<1>3. \A x \in Jobs : \A y \in DOMAIN jobs'[x] : Added(jobs'[x][y].event)
  BY <1>2 DEF Honest, Added
<1>4. \A n : Submitting(n)' => Submitting(n)
  BY <1>2 DEF Submitting
<1>5. ASSUME NEW n, Submitting(n), ~(n = jobs[j][i].event /\ jobs[j][i].stage = "submit")
      PROVE  Submitting(n)'
  <2>1. PICK x \in Jobs : \E y \in DOMAIN jobs[x] :
               jobs[x][y].stage = "submit" /\ jobs[x][y].event = n
    BY <1>5 DEF Submitting
  <2>2. PICK y \in DOMAIN jobs[x] : jobs[x][y].stage = "submit" /\ jobs[x][y].event = n
    BY <2>1
  <2>3. x # j \/ y # i
    BY <2>2, <1>5
  <2> QED
    BY <2>2, <2>3, <1>2 DEF Submitting
<1> QED
  BY <1>3, <1>4, <1>5

(* A submission saves its event or gives it up; once saved it may be       *)
(* acknowledged.                                                           *)
LEMMA HandlerKeepsPromise ==
  ASSUME Inv, Inv', Honest, NEW j \in Jobs, NEW i \in 1..MaxBatch,
         Submit(j, i) \/ ReadBack(j, i) \/ SubmitFails(j, i) \/ SetCursor(j, i)
  PROVE  Honest' /\ Steps
<1> DEFINE item == jobs[j][i]
           n == item.event
<1>1. FeedTypes /\ Shapes /\ Shapes'
  BY BothShaped
<1>2. i \in DOMAIN jobs[j]
  BY DEF Submit, ReadBack, SubmitFails, SetCursor, At
<1>3. UNCHANGED <<log, hist, buffer>>
  BY DEF Submit, ReadBack, SubmitFails, SetCursor, flows
<1>4. n \in Additions
  BY <1>1, <1>2 DEF Honest, Additions, Inv, Published, Shapes, Numbers
<1>5. \A x : (Waits(x)' <=> Waits(x)) /\ (Owed(x)' <=> Owed(x))
  BY <1>3 DEF Waits, Owed
<1>6. /\ \A s : Restaged(j, i, s) = Moved(j, i, s, item.version)
      /\ \A s, v : Reread(j, i, s, v) = Moved(j, i, s, v)
  BY <1>1, <1>2, Moving
<1>7. n \in 1..Len(log)
  BY <1>4 DEF Additions
<1>8. \A x : Added(x)' <=> Added(x)
  BY <1>3 DEF Added
<1>9. CASE Submit(j, i)
  <2>1. jobs' = Moved(j, i, "read", item.version) /\ item.stage = "submit"
    BY <1>6, <1>9 DEF Submit, Restaged, At
  <2>2. saved' = saved \cup {n} /\ excused' = excused /\ cursor' = cursor
    BY <1>9 DEF Submit
  <2>3. /\ \A x \in Jobs : \A y \in DOMAIN jobs'[x] : Added(jobs'[x][y].event)
        /\ \A x : Submitting(x)' => Submitting(x)
        /\ \A x : Submitting(x) => Submitting(x)' \/ x = n
    BY <1>1, <1>2, <1>3, <2>1, MovedMoves
  <2>4. /\ \A x : Moves(x)' => Moves(x)
        /\ \A x : Moves(x) => Moves(x)' \/ x = n
        /\ Moves(n)
    BY <1>2, <1>5, <2>1, <2>3 DEF Moves, Submitting
  <2>5. /\ Additions' = Additions
        /\ OnTheirWay = {x \in Additions : Moves(x)} /\ OnTheirWay' = {x \in Additions : Moves(x)'}
    BY <1>1, <1>3, Carrying
  <2>6. n \in OnTheirWay /\ OnTheirWay' \in {OnTheirWay, OnTheirWay \ {n}}
    <3>1. CASE Moves(n)'
      BY <1>4, <2>4, <2>5, <3>1
    <3>2. CASE ~Moves(n)'
      BY <1>4, <2>4, <2>5, <3>2
    <3> QED
      BY <1>4, <2>4, <2>5, <3>1, <3>2
  <2>7. Promise!Save(n)
    BY <1>3, <2>2, <2>5, <2>6 DEF Promise!Save
  <2>8. Steps
    BY <2>6, <2>7 DEF Steps, Promise!Next
  <2> QED
    BY <1>3, <1>8, <2>2, <2>3, <2>8 DEF Honest
<1>10. CASE SubmitFails(j, i)
  <2>1. jobs' = Moved(j, i, "failed", item.version) /\ item.stage = "submit"
    BY <1>6, <1>10 DEF SubmitFails, Restaged, At
  <2>2. excused' = excused \cup {n} /\ saved' = saved /\ cursor' = cursor
    BY <1>10 DEF SubmitFails, storage
  <2>3. /\ \A x \in Jobs : \A y \in DOMAIN jobs'[x] : Added(jobs'[x][y].event)
        /\ \A x : Submitting(x)' => Submitting(x)
        /\ \A x : Submitting(x) => Submitting(x)' \/ x = n
    BY <1>1, <1>2, <1>3, <2>1, MovedMoves
  <2>4. /\ \A x : Moves(x)' => Moves(x)
        /\ \A x : Moves(x) => Moves(x)' \/ x \in {n}
        /\ Moves(n)
    BY <1>2, <1>5, <2>1, <2>3 DEF Moves, Submitting
  <2>5. {n} \in SUBSET OnTheirWay
    BY <1>1, <1>4, <2>4, WaysAre
  <2>6. \A x : x \in excused' <=> x \in excused \/ x \in {n}
    BY <2>2
  <2>7. Steps
    BY <1>1, <1>3, <2>2, <2>4, <2>5, <2>6, GivingUp
  <2> QED
    BY <1>3, <1>7, <1>8, <2>2, <2>3, <2>7 DEF Honest
<1>11. CASE ReadBack(j, i)
  <2> DEFINE v == store[Tx(n)].version
             next == IF v = 0 THEN "failed" ELSE IF HasCursor(n) THEN "cursor" ELSE "done"
  <2>1. jobs' = Reread(j, i, next, v) /\ item.stage = "read"
    BY <1>11 DEF ReadBack, At, Reread
  <2>2. saved' = saved /\ excused' = excused /\ cursor' = cursor
    BY <1>11 DEF ReadBack, past, storage
  <2>3. next # "submit"
    OBVIOUS
  <2> HIDE DEF next, v
  <2>4. jobs' = Moved(j, i, next, v)
    BY <1>6, <2>1
  <2>5. /\ \A x \in Jobs : \A y \in DOMAIN jobs'[x] : Added(jobs'[x][y].event)
        /\ \A x : Submitting(x)' <=> Submitting(x)
    <3>1. /\ \A x \in Jobs : \A y \in DOMAIN jobs'[x] : Added(jobs'[x][y].event)
          /\ \A x : Submitting(x)' => Submitting(x)
          /\ \A x : Submitting(x) => Submitting(x)' \/ (x = n /\ item.stage = "submit")
      BY <1>1, <1>2, <1>3, <2>3, <2>4, MovedMoves
    <3> QED
      BY <2>1, <3>1
  <2>6. \A x \in Additions : Moves(x)' <=> Moves(x)
    BY <1>5, <2>5 DEF Moves
  <2>7. Steps
    BY <1>1, <1>3, <2>2, <2>6, SameWays
  <2> QED
    BY <1>3, <1>8, <2>2, <2>5, <2>7 DEF Honest
<1>12. CASE SetCursor(j, i)
  <2>1. jobs' = Moved(j, i, "done", item.version) /\ item.stage = "cursor"
    BY <1>6, <1>12 DEF SetCursor, At, Restaged
  <2>2. saved' = saved /\ excused' = excused /\ (cursor' = cursor \/ cursor' = n)
    BY <1>12 DEF SetCursor, past
  <2>3. /\ \A x \in Jobs : \A y \in DOMAIN jobs'[x] : Added(jobs'[x][y].event)
        /\ \A x : Submitting(x)' <=> Submitting(x)
    BY <1>1, <1>2, <1>3, <2>1, MovedMoves
  <2>4. \A x \in Additions : Moves(x)' <=> Moves(x)
    BY <1>5, <2>3 DEF Moves
  <2>5. Steps
    <3>1. CASE cursor' = cursor
      BY <1>1, <1>3, <2>2, <2>4, <3>1, SameWays
    <3>2. CASE cursor' = n
      <4>1. n \in saved
        BY <1>2, <2>1 DEF Inv, Stored
      <4>2. Additions' = Additions /\ OnTheirWay' = OnTheirWay
        BY <1>1, <1>3, <2>4, Carrying
      <4>3. Promise!Acknowledge(n)
        BY <1>3, <2>2, <3>2, <4>2 DEF Promise!Acknowledge
      <4> QED
        BY <4>1, <4>3 DEF Steps, Promise!Next
    <3> QED
      BY <2>2, <3>1, <3>2
  <2> QED
    BY <1>3, <1>8, <2>2, <2>3, <2>5 DEF Honest
<1> QED
  BY <1>9, <1>10, <1>11, <1>12

(* A batch that ends, told or given up, has no submission left.            *)
LEMMA EndOfBatchKeepsPromise ==
  ASSUME Inv, Inv', Honest, NEW j \in Jobs, Tell(j) \/ GiveUp(j)
  PROVE  Honest' /\ Steps
<1>1. FeedTypes /\ Shapes /\ Shapes'
  BY BothShaped
<1>2. \A i \in DOMAIN jobs[j] : jobs[j][i].stage # "submit"
  BY DEF Tell, GiveUp, At
<1>3. /\ jobs' = [jobs EXCEPT ![j] = Idle]
      /\ UNCHANGED <<log, cursor, hist, buffer, saved, excused>>
  BY DEF Tell, GiveUp, storage, flows, past
<1>4. /\ jobs'[j] = Idle /\ DOMAIN Idle = {}
      /\ \A x \in Jobs : x # j => jobs'[x] = jobs[x]
  BY <1>1, <1>3 DEF FeedTypes, Idle
<1>5. \A n : Submitting(n)' <=> Submitting(n)
  BY <1>2, <1>4 DEF Submitting
<1>6. \A n \in Additions : Moves(n)' <=> Moves(n)
  BY <1>3, <1>5 DEF Moves, Waits, Owed
<1>7. Steps
  BY <1>1, <1>3, <1>6, SameWays
<1>8. \A n : Added(n)' <=> Added(n)
  BY <1>3 DEF Added
<1> QED
  BY <1>3, <1>4, <1>7, <1>8 DEF Honest

(* The application dies, and gives up all it carried.                      *)
LEMMA CrashKeepsPromise ==
  ASSUME Inv, Inv', Honest, Crash
  PROVE  Honest' /\ Steps
<1>1. FeedTypes /\ Shapes /\ Shapes'
  BY BothShaped
<1>2. /\ UNCHANGED <<log, cursor, saved>>
      /\ excused' = excused \cup Buffered \cup InHandler \cup UNION {HistEvents(k) : k \in Opens}
      /\ hist' = [k \in Opens |-> [next |-> 1, last |-> 0]]
      /\ buffer' = [k \in Opens |-> <<>>] /\ jobs' = [j \in Jobs |-> Idle]
  BY DEF Crash, storage
<1>3. /\ \A k \in Opens : Len(buffer'[k]) = 0 /\ hist'[k].next = 1 /\ hist'[k].last = 0
      /\ \A j \in Jobs : DOMAIN jobs'[j] = {}
  BY <1>2 DEF Idle
<1>4. \A n \in Additions : ~Moves(n)'
  BY <1>1, <1>3 DEF Moves, Waits, Submitting, Owed, Additions, Shapes
<1>5. \A n \in Additions : n \in excused' <=> n \in excused \/ n \in OnTheirWay
  BY <1>2 DEF OnTheirWay
<1>6. OnTheirWay \in SUBSET OnTheirWay /\ \A n \in Additions : Moves(n) => n \in OnTheirWay
  BY <1>1, WaysAre
<1>7. Steps
  BY <1>1, <1>2, <1>4, <1>5, <1>6, GivingUp
<1>8. excused' \subseteq 1..Len(log')
  <2>1. Buffered \subseteq 1..Len(log)
    BY <1>1 DEF Buffered, Inv, Published, Shapes, Numbers
  <2>2. InHandler \subseteq 1..Len(log)
    BY <1>1 DEF InHandler, At, Inv, Published, Shapes, Numbers
  <2>3. UNION {HistEvents(k) : k \in Opens} \subseteq 1..Len(log)
    BY <1>1 DEF HistEvents, Inv, Published, Shapes, Numbers
  <2> QED
    BY <1>2, <2>1, <2>2, <2>3 DEF Honest
<1> QED
  BY <1>3, <1>7, <1>8 DEF Honest

(* Every step of the feed is a step of the promise, or none.               *)
LEMMA NextKeepsPromise == Inv /\ Inv' /\ Honest /\ [Next]_vars => Honest' /\ Steps
<1> SUFFICES ASSUME Inv, Inv', Honest, [Next]_vars
             PROVE  Honest' /\ Steps
  OBVIOUS
<1>1. ASSUME NEW t \in Txs, NEW kind \in Kinds, Publish(t, kind)
      PROVE  Honest' /\ Steps
  BY <1>1, PublishKeepsPromise
<1>2. CASE StartService \/ Resubscribe \/ ResetCursor
  BY <1>2, StartKeepsPromise
<1>3. ASSUME NEW k \in Opens, ReceiveHistory(k) \/ ReceiveLive(k)
      PROVE  Honest' /\ Steps
  BY <1>3, HistoryKeepsPromise, LiveKeepsPromise
<1>4. ASSUME NEW k \in Opens, Flush(k) \/ HistoryFails(k) \/ LiveEnds(k)
      PROVE  Honest' /\ Steps
  BY <1>4, FlushesKeepPromise
<1>5. ASSUME NEW j \in Jobs, NEW i \in 1..MaxBatch,
             Submit(j, i) \/ ReadBack(j, i) \/ SubmitFails(j, i) \/ SetCursor(j, i)
      PROVE  Honest' /\ Steps
  BY <1>5, HandlerKeepsPromise
<1>6. ASSUME NEW j \in Jobs, Tell(j) \/ GiveUp(j)
      PROVE  Honest' /\ Steps
  BY <1>6, EndOfBatchKeepsPromise
<1>7. ASSUME UNCHANGED <<log, cursor, hist, buffer, jobs, saved, excused>>
      PROVE  Honest' /\ Steps
  <2>1. Shapes /\ Shapes'
    BY BothShaped
  <2>2. \A n \in Additions : Moves(n)' <=> Moves(n)
    BY <1>7 DEF Moves, Waits, Submitting, Owed
  <2> QED
    BY <1>7, <2>1, <2>2, SameWays, StaysHonest
<1>8. ASSUME NEW t \in Txs, Remove(t) \/ Purge(t)
      PROVE  Honest' /\ Steps
  BY <1>7, <1>8 DEF Remove, Purge, flows, past
<1>9. CASE TellPurged \/ ShowWallet \/ UNCHANGED vars
  BY <1>7, <1>9 DEF TellPurged, ShowWallet, vars, storage, flows, past
<1>10. CASE Crash
  BY <1>10, CrashKeepsPromise
<1> QED
  BY <1>1, <1>2, <1>3, <1>4, <1>5, <1>6, <1>8, <1>9, <1>10 DEF Next

(* For every set of transactions and every bound, the feed implements      *)
(* AcknowledgedFeed.  Its flows take what adds a transaction without       *)
(* leaving anything out; it leaves buffers, batches and flows only stored  *)
(* or given up, whatever fails or dies; and the cursor is only ever set to *)
(* a stored event, or reset.                                               *)
THEOREM FeedKeepsPromise == Spec => KeepsPromise
<1>1. Init => Inv /\ Honest /\ Promise!Init
  <2> SUFFICES ASSUME Init
               PROVE  Honest /\ Promise!Init
    BY InitInv
  <2>1. /\ log = <<>> /\ Len(log) = 0 /\ cursor = 0 /\ saved = {} /\ excused = {}
        /\ \A j \in Jobs : DOMAIN jobs[j] = {}
    BY DEF Init, Idle
  <2>2. Additions = {}
    BY <2>1 DEF Additions
  <2> QED
    BY <2>1, <2>2 DEF Honest, OnTheirWay, Promise!Init
<1>2. Inv /\ Honest /\ [Next]_vars => Inv' /\ Honest' /\ Steps
  BY NextKeepsInv, NextKeepsPromise
<1> QED
  BY <1>1, <1>2, PTL DEF Spec, KeepsPromise, Promise!Spec, Steps

(* What the steps of the promise keep: all that was taken is accounted for *)
(* and was taken without leaving an addition out.                          *)
NoneBefore(n) == \A m \in Additions : m < n => m \in Promise!Accounted
PromiseInv ==
  /\ Additions \subseteq 1..Len(log) /\ Len(log) \in Nat
  /\ OnTheirWay \subseteq Additions /\ saved \subseteq Additions
  /\ \A n \in Promise!Accounted : n \in Additions /\ NoneBefore(n)
  /\ cursor \in saved \cup {0}

(* The steps of the promise by themselves preserve it.                     *)
LEMMA StepsKeepOrder == PromiseInv /\ Steps => PromiseInv'
<1> SUFFICES ASSUME PromiseInv, Steps
             PROVE  PromiseInv'
  OBVIOUS
<1> USE DEF Promise!Accounted
<1>1. ASSUME UNCHANGED <<Len(log), Additions, cursor>>, saved' \subseteq Additions,
             OnTheirWay' \subseteq Additions, saved \subseteq saved',
             Promise!Accounted \subseteq (Promise!Accounted)',
             (Promise!Accounted)' \subseteq Additions,
             \A n \in (Promise!Accounted)' \ Promise!Accounted : NoneBefore(n)'
      PROVE  PromiseInv'
  <2>1. \A n \in (Promise!Accounted)' : n \in Additions' /\ NoneBefore(n)'
    BY <1>1 DEF PromiseInv, NoneBefore
  <2> QED
    BY <1>1, <2>1 DEF PromiseInv
<1>2. CASE Promise!Publish
  <2>1. /\ Len(log)' = Len(log) + 1 /\ Additions' \in {Additions, Additions \cup {Len(log) + 1}}
        /\ OnTheirWay' = OnTheirWay /\ saved' = saved /\ cursor' = cursor
        /\ Additions' \cap excused' = Additions \cap excused
    BY <1>2 DEF Promise!Publish
  <2>2. (Promise!Accounted)' = Promise!Accounted
    BY <2>1
  <2>3. \A n \in Additions : n \in 1..Len(log) /\ ~(Len(log) + 1 < n)
    BY DEF PromiseInv
  <2>4. ASSUME NEW n \in Promise!Accounted
        PROVE  n \in Additions' /\ NoneBefore(n)'
    <3>1. n \in Additions /\ NoneBefore(n)
      BY <2>4 DEF PromiseInv
    <3> QED
      BY <2>1, <2>2, <2>3, <3>1 DEF NoneBefore
  <2>5. Additions' \subseteq 1..(Len(log) + 1) /\ Len(log) + 1 \in Nat
    BY <2>1 DEF PromiseInv
  <2> QED
    BY <2>1, <2>2, <2>4, <2>5 DEF PromiseInv
<1>3. ASSUME NEW n \in saved \cup {0}, Promise!Acknowledge(n)
      PROVE  PromiseInv'
  <2>1. /\ Len(log)' = Len(log) /\ Additions' = Additions /\ OnTheirWay' = OnTheirWay
        /\ saved' = saved /\ cursor' = n /\ Additions' \cap excused' = Additions \cap excused
    BY <1>3 DEF Promise!Acknowledge
  <2>2. (Promise!Accounted)' = Promise!Accounted
    BY <2>1
  <2> QED
    BY <2>1, <2>2 DEF PromiseInv, NoneBefore
<1>4. ASSUME NEW n \in OnTheirWay, Promise!Save(n)
      PROVE  PromiseInv'
  <2>1. /\ UNCHANGED <<Len(log), Additions, cursor>> /\ saved' = saved \cup {n}
        /\ OnTheirWay' \in {OnTheirWay, OnTheirWay \ {n}}
        /\ Additions' \cap excused' = Additions \cap excused
    BY <1>4 DEF Promise!Save
  <2>2. (Promise!Accounted)' = Promise!Accounted
    BY <1>4, <2>1
  <2>3. Promise!Accounted \subseteq Additions
    BY DEF PromiseInv
  <2> QED
    BY <1>1, <1>4, <2>1, <2>2, <2>3 DEF PromiseInv
<1>5. ASSUME NEW some \in SUBSET Additions, Promise!Take(some)
      PROVE  PromiseInv'
  <2>1. /\ UNCHANGED <<Len(log), Additions, cursor>> /\ saved' = saved
        /\ Additions' \cap excused' \in {Additions \cap excused, (Additions \cap excused) \ some}
        /\ OnTheirWay' = OnTheirWay \cup some
        /\ \A n \in some, m \in Additions : m < n => m \in (Promise!Accounted)'
    BY <1>5 DEF Promise!Take
  <2>2. (Promise!Accounted)' = Promise!Accounted \cup some
    BY <2>1
  <2>3. Promise!Accounted \subseteq Additions /\ OnTheirWay' \subseteq Additions
    BY <1>5, <2>1 DEF PromiseInv
  <2>4. \A n \in some : NoneBefore(n)'
    BY <2>1 DEF NoneBefore
  <2> QED
    BY <1>1, <1>5, <2>1, <2>2, <2>3, <2>4 DEF PromiseInv
<1>6. ASSUME NEW some \in SUBSET OnTheirWay, Promise!GiveUp(some)
      PROVE  PromiseInv'
  <2>1. /\ UNCHANGED <<Len(log), Additions, cursor>> /\ saved' = saved
        /\ Additions' \cap excused' = (Additions \cap excused) \cup some
        /\ OnTheirWay \ some \subseteq OnTheirWay' /\ OnTheirWay' \subseteq OnTheirWay
    BY <1>6 DEF Promise!GiveUp
  <2>2. (Promise!Accounted)' = Promise!Accounted
    BY <1>6, <2>1
  <2>3. Promise!Accounted \subseteq Additions
    BY DEF PromiseInv
  <2> QED
    BY <1>1, <2>1, <2>2, <2>3 DEF PromiseInv
<1>7. CASE UNCHANGED Promise!fvars
  <2>1. /\ Len(log)' = Len(log) /\ Additions' = Additions /\ OnTheirWay' = OnTheirWay
        /\ saved' = saved /\ cursor' = cursor /\ Additions' \cap excused' = Additions \cap excused
    BY <1>7 DEF Promise!fvars
  <2>2. (Promise!Accounted)' = Promise!Accounted
    BY <2>1
  <2> QED
    BY <2>1, <2>2 DEF PromiseInv, NoneBefore
<1> QED
  BY <1>2, <1>3, <1>4, <1>5, <1>6, <1>7 DEF Steps, Promise!Next

(* The promise is enough by itself: its steps alone, whatever the feed     *)
(* does to make them, leave no addition behind the cursor out of account.  *)
THEOREM PromiseMissesNothing == Promise!Spec => []Promise!NothingMissed
<1>1. Promise!Init => PromiseInv
  <2> SUFFICES ASSUME Promise!Init
               PROVE  PromiseInv
    OBVIOUS
  <2>1. /\ Len(log) = 0 /\ Additions = {} /\ OnTheirWay = {} /\ saved = {}
        /\ Additions \cap excused = {} /\ cursor = 0
    BY DEF Promise!Init
  <2> QED
    BY <2>1 DEF PromiseInv, Promise!Accounted
<1>2. PromiseInv /\ Steps => PromiseInv'
  BY StepsKeepOrder
<1>3. PromiseInv => Promise!NothingMissed
  <2> SUFFICES ASSUME PromiseInv, NEW n \in Additions, n <= cursor
               PROVE  n \in Promise!Accounted
    BY DEF Promise!NothingMissed
  <2>1. n \in 1..Len(log) /\ Len(log) \in Nat
    BY DEF PromiseInv
  <2>2. cursor \in saved
    BY <2>1 DEF PromiseInv
  <2>3. cursor \in Promise!Accounted
    BY <2>2 DEF Promise!Accounted
  <2>4. NoneBefore(cursor) /\ cursor \in 1..Len(log)
    BY <2>3 DEF PromiseInv
  <2> QED
    BY <2>1, <2>3, <2>4 DEF NoneBefore
<1> QED
  BY <1>1, <1>2, <1>3, PTL DEF Promise!Spec, Steps
==============================================================================
