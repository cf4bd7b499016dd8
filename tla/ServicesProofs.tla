---------------------------- MODULE ServicesProofs ----------------------------
(***************************************************************************)
(* The two parts whose timers keep the application going.                  *)
(*                                                                         *)
(* The status of the connection never gives a false alarm, one reconnect   *)
(* loop runs at a time, and it keeps restarting the services while         *)
(* disconnected: for all periods in the order the code's constants have    *)
(* (PingMargin and LoopMargin of ConnectionStatus).  The invariants are    *)
(* inductive only with the clocks related to each other: the time since    *)
(* the last good report plus what a loop's timer has left never exceeds    *)
(* its pause, so a loop left over from the last outage has run out long    *)
(* before the next one is noticed.                                         *)
(*                                                                         *)
(* Exactly one timer of the price service is pending, for any assets,      *)
(* currencies and bounds.                                                  *)
(***************************************************************************)
EXTENDS MCServices, TLAPS

Clocks ==
  /\ up \in SUBSET Links
  /\ offline \in 0..PeriodIssues
  /\ status \in Statuses
  /\ check \in Int
  /\ ping \in Int /\ -MaxLate <= ping /\ ping <= PeriodPing
  /\ waiting \in Int /\ waiting >= None
  /\ since \in Nat
  /\ suspect \in BOOLEAN

(* At most one loop, whose timer is due within the pause.                  *)
Loop ==
  /\ loops = <<>> \/ \E r \in Int : loops = <<r>> /\ -MaxLate <= r /\ r <= Pause
  /\ status = "DISCONNECTED" =>
       /\ loops # <<>>
       /\ since + loops[1] <= Pause
       /\ offline = PeriodIssues
  /\ (status # "DISCONNECTED" /\ loops # <<>>) => offline + loops[1] <= Pause

(* How old the last good report may be while nothing is suspect.           *)
Fresh ==
  ~suspect =>
    /\ up = Links
    /\ status = "CONNECTED"
    /\ waiting = None => offline + ping <= PeriodPing
    /\ waiting # None => waiting >= 0 /\ offline <= PeriodPing + MaxLate + waiting
    /\ waiting > Latency => offline = 0

IInv == Clocks /\ Loop /\ Fresh

(* The status at an age is DISCONNECTED just from PeriodIssues on, and     *)
(* CONNECTED just below PeriodOk.                                          *)
LEMMA StatusAtCases ==
  ASSUME NEW p \in 0..PeriodIssues
  PROVE  /\ StatusAt(p) \in Statuses
         /\ StatusAt(p) = "DISCONNECTED" <=> p = PeriodIssues
         /\ p < PeriodOk => StatusAt(p) = "CONNECTED"
  <1>1. CASE p < PeriodOk
    BY <1>1, PeriodAssumption DEF StatusAt, Statuses
  <1>2. CASE p >= PeriodOk /\ p < PeriodIssues
    BY <1>2, PeriodAssumption DEF StatusAt, Statuses
  <1>3. CASE p >= PeriodIssues
    BY <1>3, PeriodAssumption DEF StatusAt, Statuses
  <1> QED BY <1>1, <1>2, <1>3, PeriodAssumption

(* Times that have passed are not negative when added.                     *)
LEMMA SumOfNats ==
  ASSUME NEW a \in Nat, NEW b \in Nat, NEW c \in Int, c >= 0
  PROVE  0 <= a + b + c
  OBVIOUS

(* verifyOffline() keeps the loop in order and does not disturb a          *)
(* connection that is not suspect.                                         *)
LEMMA VerifyOfflineLoop ==
  ASSUME IInv, VerifyOffline
  PROVE  /\ status' \in Statuses
         /\ offline' = offline
         /\ since' \in Nat
         /\ Loop'
         /\ ~suspect => status' = "CONNECTED"
  <1> DEFINE new == StatusAt(offline)
  <1>1. /\ status' = new
        /\ offline' = offline
        /\ IF new = "DISCONNECTED" /\ status # new
             THEN loops' = Append(loops, Pause) /\ since' = 0
             ELSE loops' = loops /\ since' = since
    BY DEF VerifyOffline, SetStatus, ReconnectServices
  <1>2. /\ new \in Statuses
        /\ new = "DISCONNECTED" <=> offline = PeriodIssues
        /\ offline < PeriodOk => new = "CONNECTED"
    BY StatusAtCases DEF IInv, Clocks
  <1> HIDE DEF new
  <1>3. ~suspect => offline < PeriodOk
    <2> SUFFICES ASSUME ~suspect PROVE offline < PeriodOk
      OBVIOUS
    <2>1. CASE waiting = None
      BY <2>1, PingMargin, PeriodAssumption DEF IInv, Fresh, Clocks
    <2>2. CASE waiting # None /\ waiting <= Latency
      BY <2>2, PingMargin, PeriodAssumption DEF IInv, Fresh, Clocks
    <2>3. CASE waiting # None /\ waiting > Latency
      BY <2>3, PingMargin, PeriodAssumption DEF IInv, Fresh, Clocks
    <2> QED BY <2>1, <2>2, <2>3, PeriodAssumption DEF IInv, Clocks
  <1>4. since' \in Nat
    BY <1>1 DEF IInv, Clocks
  <1>5. Loop'
    <2>1. CASE new = "DISCONNECTED" /\ status # new
      <3>1. loops = <<>>
        BY <2>1, <1>2, LoopMargin, PeriodAssumption DEF IInv, Loop, Clocks
      <3>2. loops' = <<Pause>> /\ since' = 0
        BY <2>1, <3>1, <1>1
      <3> QED
        BY <2>1, <3>2, <1>1, <1>2, PeriodAssumption DEF Loop
    <2>2. CASE ~(new = "DISCONNECTED" /\ status # new)
      <3>1. loops' = loops /\ since' = since
        BY <2>2, <1>1
      <3>2. status = "DISCONNECTED" => new = "DISCONNECTED"
        BY <1>2 DEF IInv, Loop
      <3> QED
        BY <2>2, <3>1, <3>2, <1>1, <1>2 DEF IInv, Loop
    <2> QED BY <2>1, <2>2
  <1> QED BY <1>1, <1>2, <1>3, <1>4, <1>5

(* verifyConnection() preserves the invariant, given the clocks it leaves  *)
(* alone.                                                                  *)
LEMMA VerifyConnectionInv ==
  ASSUME IInv, VerifyConnection, up' \in SUBSET Links, check' = check, ping' = ping,
         waiting' \in {waiting, None}
  PROVE  IInv'
  <1>1. CASE up' = Links
    <2>1. /\ offline' = 0 /\ suspect' = FALSE /\ status' = "CONNECTED"
          /\ loops' = loops /\ since' = since
      BY <1>1 DEF VerifyConnection, SetStatus
    <2>2. Clocks'
      <3>1. waiting' \in Int /\ waiting' >= None
        BY DEF IInv, Clocks, None
      <3>2. offline' \in 0..PeriodIssues
        BY <2>1, PeriodAssumption
      <3> QED BY <2>1, <3>1, <3>2 DEF IInv, Clocks, Statuses
    <2>3. Loop'
      BY <2>1, PeriodAssumption DEF IInv, Loop
    <2>4. Fresh'
      <3>1. waiting' \in Int /\ (waiting' = None \/ waiting' >= 0)
        BY <2>2 DEF Clocks, None
      <3>2. ping' \in Int /\ ping' <= PeriodPing
        BY <2>2 DEF Clocks
      <3>3. waiting' = None => offline' + ping' <= PeriodPing
        BY <2>1, <3>2
      <3>4. waiting' # None => waiting' >= 0 /\ offline' <= PeriodPing + MaxLate + waiting'
        <4> SUFFICES ASSUME waiting' # None
                     PROVE  waiting' >= 0 /\ offline' <= PeriodPing + MaxLate + waiting'
          OBVIOUS
        <4>1. waiting' \in Int /\ waiting' >= 0
          BY <3>1
        <4>2. PeriodPing \in Nat /\ MaxLate \in Nat
          BY PeriodAssumption
        <4>3. 0 <= PeriodPing + MaxLate + waiting'
          BY <4>1, <4>2, SumOfNats
        <4> QED BY <2>1, <4>1, <4>3
      <3> QED BY <1>1, <2>1, <3>3, <3>4 DEF Fresh
    <2> QED BY <2>2, <2>3, <2>4 DEF IInv
  <1>2. CASE up' # Links
    <2>1. VerifyOffline /\ suspect' = TRUE
      BY <1>2 DEF VerifyConnection
    <2>2. Clocks' /\ Loop'
      BY <2>1, VerifyOfflineLoop DEF IInv, Clocks, None
    <2> QED BY <2>1, <2>2 DEF IInv, Fresh
  <1> QED BY <1>1, <1>2

(* The loop starts in order.                                               *)
LEMMA InitInv == Init => IInv
  BY PeriodAssumption DEF Init, IInv, Clocks, Loop, Fresh, Statuses, SinceCap, None

(* Reports, timers and the reconnect loop keep the invariant.              *)
LEMMA NextInv == IInv /\ [Next]_vars => IInv'
  <1> SUFFICES ASSUME IInv, [Next]_vars PROVE IInv'
    OBVIOUS
  <1>1. ASSUME NEW link \in Links, NEW good \in BOOLEAN, Report(link, good)
        PROVE  IInv'
    <2>1. up' \in SUBSET Links
      BY <1>1 DEF Report, IInv, Clocks
    <2> QED BY <1>1, <2>1, VerifyConnectionInv DEF Report
  <1>2. ASSUME NEW good \in BOOLEAN, PingEnds(good)
        PROVE  IInv'
    <2>1. up' \in SUBSET Links
      BY <1>2, LinkAssumption DEF PingEnds, IInv, Clocks
    <2> QED BY <1>2, <2>1, VerifyConnectionInv DEF PingEnds
  <1>3. CASE Ping
    <2>1. Clocks' /\ Loop'
      <3>1. Clocks'
        BY <1>3, PeriodAssumption DEF Ping, IInv, Clocks, None
      <3>2. Loop'
        BY <1>3 DEF Ping, IInv, Loop
      <3> QED BY <3>1, <3>2
    <2>2. Fresh'
      BY <1>3, PeriodAssumption DEF Ping, IInv, Clocks, Fresh, None
    <2> QED BY <2>1, <2>2 DEF IInv
  <1>4. CASE PeriodicCheck
    <2>1. /\ VerifyOffline
          /\ check' = PeriodCheck
          /\ UNCHANGED <<up, ping, waiting, suspect>>
      BY <1>4 DEF PeriodicCheck
    <2>2. /\ status' \in Statuses /\ offline' = offline /\ since' \in Nat /\ Loop'
          /\ ~suspect => status' = "CONNECTED"
      BY <2>1, VerifyOfflineLoop
    <2>3. Clocks'
      BY <2>1, <2>2, PeriodAssumption DEF IInv, Clocks
    <2>4. Fresh'
      BY <2>1, <2>2 DEF IInv, Fresh
    <2> QED BY <2>2, <2>3, <2>4 DEF IInv
  <1>5. ASSUME NEW i \in DOMAIN loops, UntilReconnect(i)
        PROVE  IInv'
    <2>1. PICK r \in Int : loops = <<r>> /\ -MaxLate <= r /\ r <= Pause
      BY <1>5 DEF IInv, Loop
    <2>2. i = 1
      BY <2>1
    <2>3. SubSeq(loops, 1, i - 1) \o SubSeq(loops, i + 1, Len(loops)) = <<>>
      BY <2>1, <2>2
    <2>4. /\ loops' = IF status = "DISCONNECTED" THEN <<Pause>> ELSE <<>>
          /\ since' = 0
          /\ UNCHANGED <<up, offline, status, check, ping, waiting, suspect>>
      <3> DEFINE others == SubSeq(loops, 1, i - 1) \o SubSeq(loops, i + 1, Len(loops))
      <3>1. loops' = IF status = "DISCONNECTED" THEN Append(others, Pause) ELSE others
        BY <1>5 DEF UntilReconnect
      <3>2. others = <<>>
        BY <2>3
      <3>3. Append(<<>>, Pause) = <<Pause>>
        OBVIOUS
      <3> HIDE DEF others
      <3> QED BY <1>5, <3>1, <3>2, <3>3 DEF UntilReconnect, ReconnectServices
    <2>5. Clocks' /\ Fresh'
      BY <2>4 DEF IInv, Clocks, Fresh
    <2>6. Loop'
      BY <2>4, PeriodAssumption DEF IInv, Loop
    <2> QED BY <2>5, <2>6 DEF IInv
  <1>6. CASE Tick
    <2>1. /\ ping > -MaxLate
          /\ \A i \in DOMAIN loops : loops[i] > -MaxLate
          /\ check' = check - 1 /\ ping' = ping - 1
          /\ loops' = [i \in DOMAIN loops |-> loops[i] - 1]
          /\ offline' = (IF offline < PeriodIssues THEN offline + 1 ELSE offline)
          /\ since' = (IF since < SinceCap THEN since + 1 ELSE since)
          /\ waiting' = (IF waiting = None THEN None
                         ELSE IF waiting < Latency + 1 THEN waiting + 1 ELSE waiting)
          /\ suspect' = (suspect \/ waiting' > Latency)
          /\ up' = up /\ status' = status
      BY <1>6 DEF Tick, Capped
    <2>2. since' \in Nat /\ since' <= since + 1
      BY <2>1, PeriodAssumption DEF IInv, Clocks, SinceCap
    <2>3. offline' \in 0..PeriodIssues /\ offline' <= offline + 1 /\ offline' >= offline
      BY <2>1, PeriodAssumption DEF IInv, Clocks
    <2>4. Clocks'
      <3>1. suspect' \in BOOLEAN
        BY <2>1 DEF IInv, Clocks
      <3>2. waiting' \in Int
        BY <2>1, PeriodAssumption DEF IInv, Clocks, None
      <3> QED BY <2>1, <2>2, <2>3, <3>1, <3>2, PeriodAssumption DEF IInv, Clocks
    <2>5. Loop'
      <3>1. CASE loops = <<>>
        BY <3>1, <2>1, <2>2, <2>3 DEF IInv, Loop
      <3>2. CASE loops # <<>>
        <4>1. PICK r \in Int : loops = <<r>> /\ -MaxLate <= r /\ r <= Pause
          BY <3>2 DEF IInv, Loop
        <4>2. r > -MaxLate /\ loops' = <<r - 1>>
          BY <2>1, <4>1
        <4>3. status = "DISCONNECTED" => since' + (r - 1) <= Pause /\ offline' = PeriodIssues
          BY <2>1, <2>2, <4>1, PeriodAssumption DEF IInv, Loop, Clocks
        <4>4. status # "DISCONNECTED" => offline' + (r - 1) <= Pause
          BY <2>1, <2>3, <3>2, <4>1, PeriodAssumption DEF IInv, Loop, Clocks
        <4>5. -MaxLate <= r - 1 /\ r - 1 <= Pause /\ r - 1 \in Int
          BY <4>1, <4>2, PeriodAssumption
        <4> QED BY <2>1, <4>2, <4>3, <4>4, <4>5 DEF Loop
      <3> QED BY <3>1, <3>2
    <2>6. Fresh'
      <3> SUFFICES ASSUME ~suspect'
                   PROVE  /\ up' = Links
                          /\ status' = "CONNECTED"
                          /\ waiting' = None => offline' + ping' <= PeriodPing
                          /\ waiting' # None => /\ waiting' >= 0
                                                /\ offline' <= PeriodPing + MaxLate + waiting'
                          /\ waiting' > Latency => offline' = 0
        BY DEF Fresh
      <3>1. ~suspect /\ ~(waiting' > Latency)
        BY <2>1
      <3>2. CASE waiting = None
        BY <3>1, <3>2, <2>1, <2>3, PeriodAssumption DEF IInv, Fresh, Clocks, None
      <3>3. CASE waiting # None
        BY <3>1, <3>3, <2>1, <2>3, PeriodAssumption DEF IInv, Fresh, Clocks, None
      <3> QED BY <3>2, <3>3
    <2> QED BY <2>4, <2>5, <2>6 DEF IInv
  <1>7. CASE UNCHANGED vars
    BY <1>7 DEF vars, IInv, Clocks, Loop, Fresh
  <1> QED BY <1>1, <1>2, <1>3, <1>4, <1>5, <1>6, <1>7 DEF Next

(* The invariant of the connection holds in every state.                   *)
LEMMA Invariance == Spec => []IInv
  <1>1. Init => IInv
    BY InitInv
  <1>2. IInv /\ [Next]_vars => IInv'
    BY NextInv
  <1> QED BY <1>1, <1>2, PTL DEF Spec

(* However reports, timers and outages interleave, there is never more     *)
(* than one reconnect loop.                                                *)
THEOREM LoopIsSingle == Spec => []OneReconnectLoop
  <1>1. IInv => OneReconnectLoop
    BY DEF IInv, Loop, OneReconnectLoop
  <1> QED BY <1>1, Invariance, PTL

(* While pings are answered in time and no client reports its link as bad, *)
(* the status of the connection is CONNECTED.                              *)
THEOREM NoFalseAlarm == Spec => []HealthyIsConnected
  <1>1. IInv => HealthyIsConnected
    BY DEF IInv, Fresh, HealthyIsConnected
  <1> QED BY <1>1, Invariance, PTL

(* While the status is DISCONNECTED, the services were last restarted no   *)
(* longer ago than the pause of the loop and the lateness of its timer.    *)
THEOREM RestartsGoOn == Spec => []RestartedWhileDisconnected
  <1>1. IInv => RestartedWhileDisconnected
    BY PeriodAssumption DEF IInv, Loop, Clocks, RestartedWhileDisconnected
  <1> QED BY <1>1, Invariance, PTL

------------------------------------------------------------------------------
(* OneTimer as the provers take it best: which timer, and no other.        *)
Pending ==
  /\ strays = 0
  /\ (timeout = TRUE /\ repeater = FALSE) \/ (timeout = FALSE /\ repeater = TRUE)

(* stop() clears whichever timer is pending, start() sets one.             *)
LEMMA StopStartKeepsOne ==
  ASSUME Pending, StopStart
  PROVE  Pending'
  BY DEF Pending, StopStart

(* A fetch that a timer calls leaves the repeater, and it alone.           *)
LEMMA RearmKeepsOne ==
  ASSUME Pending, Rearm
  PROVE  Pending'
  <1>1. CASE timeout /\ timeout' = FALSE /\ repeater' = TRUE
               /\ strays' = IF repeater THEN Counted(strays + 1) ELSE strays
    <2>1. repeater = FALSE
      BY <1>1 DEF Pending
    <2>2. strays' = 0
      BY <1>1, <2>1 DEF Pending
    <2> QED BY <1>1, <2>2 DEF Pending
  <1>2. CASE repeater /\ UNCHANGED timers
    BY <1>2 DEF Pending, timers
  <1>3. ~(strays > 0)
    BY DEF Pending
  <1> QED BY <1>1, <1>2, <1>3 DEF Rearm

(* One step of the service keeps exactly one timer pending.                *)
LEMMA StepKeepsOne ==
  ASSUME Pending, [PriceNext]_priceVars
  PROVE  Pending'
  <1> DEFINE Still == UNCHANGED timers
  <1>0. ASSUME Still PROVE Pending'
    BY <1>0 DEF Pending, timers
  <1>1. ASSUME NEW c \in Currencies, Choose(c) PROVE Still
    BY <1>1 DEF Choose
  <1>2. CASE SetTo
    BY <1>2, StopStartKeepsOne DEF SetTo
  <1>3. ASSUME NEW asset \in Priceable, AddFrom(asset) PROVE Pending'
    <2>1. CASE asset \in from
      BY <1>0, <1>3, <2>1 DEF AddFrom
    <2>2. CASE asset \notin from
      BY <1>3, <2>2, StopStartKeepsOne DEF AddFrom
    <2> QED BY <2>1, <2>2
  <1>4. CASE Fetch
    BY <1>4, RearmKeepsOne DEF Fetch
  <1>5. ASSUME NEW r \in requests, Answer(r) \/ RequestFails(r) PROVE Still
    BY <1>5 DEF Answer, RequestFails
  <1>6. ASSUME NEW r \in putting, Put(r) PROVE Still
    BY <1>6 DEF Put
  <1>7. ASSUME NEW r \in telling, Tell(r) PROVE Still
    BY <1>7 DEF Tell
  <1>8. CASE ReadCache \/ ShowCache
    BY <1>0, <1>8 DEF ReadCache, ShowCache
  <1>9. CASE UNCHANGED priceVars
    BY <1>9 DEF priceVars, Pending
  <1> QED
    BY <1>0, <1>1, <1>2, <1>3, <1>4, <1>5, <1>6, <1>7, <1>8, <1>9 DEF PriceNext

(* PriceService: one timer is pending in every state, whatever assets and  *)
(* currencies are set while a fetch is due or under way.                   *)
THEOREM TimersDoNotMultiply == PriceSpec => []OneTimer
  <1>1. PriceInit => Pending
    BY DEF PriceInit, Pending
  <1>2. Pending /\ [PriceNext]_priceVars => Pending'
    BY StepKeepsOne
  <1>3. Pending => OneTimer
    BY DEF Pending, OneTimer
  <1> QED BY <1>1, <1>2, <1>3, PTL DEF PriceSpec

------------------------------------------------------------------------------
(* What TypeOK says of the clocks and Clocks does not.                     *)
Ranges ==
  /\ check \in -MaxLate..PeriodCheck
  /\ waiting <= Latency + 1
  /\ since <= SinceCap

(* setStatus() restarts the services or leaves the time since then alone.  *)
LEMMA VerifiedSince ==
  ASSUME VerifyConnection \/ VerifyOffline
  PROVE  since' \in {since, 0}
  BY DEF VerifyConnection, VerifyOffline, SetStatus, ReconnectServices

(* Every clock keeps to its range.                                         *)
LEMMA RangesKept == IInv /\ Ranges /\ [Next]_vars => Ranges'
  <1> SUFFICES ASSUME IInv, Ranges, [Next]_vars PROVE Ranges'
    OBVIOUS
  <1>0. /\ PeriodCheck \in Nat /\ MaxLate \in Nat /\ Latency \in Nat /\ SinceCap \in Nat
        /\ check \in Int /\ waiting \in Int /\ since \in Nat
    BY PeriodAssumption DEF IInv, Clocks, SinceCap
  <1>1. ASSUME NEW link \in Links, NEW good \in BOOLEAN, Report(link, good)
        PROVE  Ranges'
    BY <1>0, <1>1, VerifiedSince DEF Report, Ranges
  <1>2. ASSUME NEW good \in BOOLEAN, PingEnds(good)
        PROVE  Ranges'
    BY <1>0, <1>2, VerifiedSince DEF PingEnds, Ranges, None
  <1>3. CASE Ping
    BY <1>0, <1>3 DEF Ping, Ranges
  <1>4. CASE PeriodicCheck
    BY <1>0, <1>4, VerifiedSince DEF PeriodicCheck, Ranges
  <1>5. ASSUME NEW i \in DOMAIN loops, UntilReconnect(i)
        PROVE  Ranges'
    BY <1>0, <1>5 DEF UntilReconnect, ReconnectServices, Ranges
  <1>6. CASE Tick
    <2>1. /\ check > -MaxLate /\ check' = check - 1
          /\ since' = IF since < SinceCap THEN since + 1 ELSE since
          /\ waiting' = IF waiting = None THEN None
                        ELSE IF waiting < Latency + 1 THEN waiting + 1 ELSE waiting
      BY <1>6 DEF Tick, Capped
    <2>2. check' \in -MaxLate..PeriodCheck
      BY <1>0, <2>1 DEF Ranges
    <2>3. since' <= SinceCap
      BY <1>0, <2>1 DEF Ranges
    <2>4. waiting' <= Latency + 1
      BY <1>0, <2>1 DEF Ranges, None
    <2> QED BY <2>2, <2>3, <2>4 DEF Ranges
  <1>7. CASE UNCHANGED vars
    BY <1>7 DEF vars, Ranges
  <1> QED BY <1>1, <1>2, <1>3, <1>4, <1>5, <1>6, <1>7 DEF Next

(* The clocks of the status have their types.                              *)
LEMMA StatusTypes == IInv /\ Ranges => TypeOK
  <1> SUFFICES ASSUME IInv, Ranges PROVE TypeOK
    OBVIOUS
  <1>1. loops \in Seq(-MaxLate..Pause)
    <2>1. CASE loops = <<>>
      BY <2>1
    <2>2. CASE \E r \in Int : loops = <<r>> /\ -MaxLate <= r /\ r <= Pause
      <3>1. PICK r \in -MaxLate..Pause : loops = <<r>>
        BY <2>2, PeriodAssumption
      <3> QED BY <3>1
    <2> QED BY <2>1, <2>2 DEF IInv, Loop
  <1>2. waiting \in None..(Latency + 1) /\ since \in 0..SinceCap
    BY PeriodAssumption DEF IInv, Clocks, Ranges, None, SinceCap
  <1>3. ping \in -MaxLate..PeriodPing
    BY PeriodAssumption DEF IInv, Clocks
  <1> QED BY <1>1, <1>2, <1>3 DEF IInv, Clocks, Ranges, TypeOK

(* The types of the prices: a fetch names what there is to price.          *)
LEMMA PriceTypesKept ==
  ASSUME PriceTypeOK, Pending, [PriceNext]_priceVars
  PROVE  PriceTypeOK'
  <1> USE DEF PriceTypeOK
  <1>0. Pending'
    BY StepKeepsOne
  <1>t. timeout' \in BOOLEAN /\ repeater' \in BOOLEAN /\ strays' \in 0..MaxStrays
    BY <1>0, PriceBounds DEF Pending
  <1>1. ASSUME NEW c \in Currencies, Choose(c) PROVE PriceTypeOK'
    BY <1>t, <1>1, PriceBounds DEF Choose, answers, timers
  <1>2. CASE SetTo
    <2>1. to' \in Currencies /\ asked' \in Seq(Currencies)
      BY <1>2 DEF SetTo
    <2> QED BY <1>t, <1>2, <2>1 DEF SetTo, answers
  <1>3. ASSUME NEW asset \in Priceable, AddFrom(asset) PROVE PriceTypeOK'
    BY <1>t, <1>3 DEF AddFrom, choice, answers
  <1>4. CASE Fetch
    <2>1. requests' \subseteq Rates
      <3>1. CASE from # {} /\ to # NoCurrency
        BY <1>4, <3>1 DEF Fetch, Rates
      <3>2. CASE ~(from # {} /\ to # NoCurrency)
        BY <1>4, <3>2 DEF Fetch
      <3> QED BY <3>1, <3>2
    <2> QED BY <1>t, <1>4, <2>1 DEF Fetch, choice
  <1>5. ASSUME NEW r \in requests, Answer(r) \/ RequestFails(r) PROVE PriceTypeOK'
    BY <1>t, <1>5 DEF Answer, RequestFails, choice
  <1>6. ASSUME NEW r \in putting, Put(r) PROVE PriceTypeOK'
    BY <1>t, <1>6 DEF Put, choice
  <1>7. ASSUME NEW r \in telling, Tell(r) PROVE PriceTypeOK'
    BY <1>t, <1>7 DEF Tell, choice
  <1>8. CASE ReadCache \/ ShowCache
    BY <1>t, <1>8 DEF ReadCache, ShowCache, choice, answers
  <1>9. CASE UNCHANGED priceVars
    BY <1>t, <1>9 DEF priceVars
  <1> QED BY <1>1, <1>2, <1>3, <1>4, <1>5, <1>6, <1>7, <1>8, <1>9 DEF PriceNext

(* The services start with what is kept of an earlier session.             *)
LEMMA PriceTypesStart == PriceInit => PriceTypeOK
  <1> SUFFICES ASSUME PriceInit PROVE PriceTypeOK
    OBVIOUS
  <1>1. asked \in Seq(Currencies)
    BY DEF PriceInit
  <1>2. cache \in Rates \cup {NoRates}
    BY PriceBounds DEF PriceInit, Rates
  <1>3. {cache, shown} \subseteq Rates \cup {NoRates}
    BY <1>2 DEF PriceInit
  <1>4. choices \in 0..MaxChoices /\ strays \in 0..MaxStrays
    BY PriceBounds DEF PriceInit
  <1>5. timeout \in BOOLEAN /\ repeater \in BOOLEAN
    BY DEF PriceInit
  <1>6. loading \in [stage : {"unread", "read", "shown"}, rates : Rates \cup {NoRates}]
    BY DEF PriceInit, Unread
  <1> QED BY <1>1, <1>3, <1>4, <1>5, <1>6 DEF PriceInit, PriceTypeOK

(* Both parts keep their types in every behaviour, whichever runs.         *)
THEOREM ServicesTypes == ServicesSpec => []Types
  <1> DEFINE All == IInv /\ Ranges /\ Pending /\ PriceTypeOK
  <1>1. ServicesInit => All
    <2>1. Init => Ranges
      BY PeriodAssumption DEF Init, Ranges, SinceCap
    <2>2. PriceInit => Pending
      BY DEF PriceInit, Pending
    <2> QED BY <2>1, <2>2, InitInv, PriceTypesStart DEF ServicesInit
  <1>2. All /\ [ServicesNext]_<<part, vars, priceVars>> => All'
    <2>1. [ServicesNext]_<<part, vars, priceVars>> => [Next]_vars /\ [PriceNext]_priceVars
      BY DEF ServicesNext
    <2> QED BY <2>1, NextInv, RangesKept, StepKeepsOne, PriceTypesKept
  <1>3. All => Types
    BY StatusTypes DEF Types
  <1> QED BY <1>1, <1>2, <1>3, PTL DEF ServicesSpec
==============================================================================
