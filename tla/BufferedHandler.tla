--------------------------- MODULE BufferedHandler ---------------------------
(***************************************************************************)
(* BufferedHandler of packages/services: values pushed by a stream are     *)
(* collected in a buffer and handed to a handler as one batch, when the    *)
(* buffer is full, when its owner asks for it, and from a timer that       *)
(* re-arms itself.                                                         *)
(*                                                                         *)
(* Time is the age of the buffer: the milliseconds since the last flush,   *)
(* Date.now() - lastFlush.  The code only asks whether the age is at most  *)
(* the limit, so an age past the limit is kept as LimitTime + 1.  The timer*)
(* of Node.js calls back no earlier than asked for; when Late is TRUE a    *)
(* busy event loop may call back any time after that.                      *)
(***************************************************************************)
EXTENDS Integers, Sequences

CONSTANTS Items,      \* the values a stream may carry
          LimitSize,  \* limitSize of the code
          LimitTime,  \* limitTimeMs of the code, in ticks
          Late,       \* may a due timer be called back late?
          MaxReceived \* bound of the model: values a stream delivers

ASSUME LimitSizeAssumption == LimitSize \in Nat \ {0}
ASSUME LimitTimeAssumption == LimitTime \in Nat \ {0}
ASSUME LateAssumption == Late \in BOOLEAN
ASSUME MaxReceivedAssumption == MaxReceived \in Nat

VARIABLES buffer,    \* values not handed over yet
          closed,    \* close() was called
          age,       \* time since the last flush
          timer,     \* time until the pending callback is due, or NoTimer
          received,  \* history: every value accepted
          delivered  \* history: every value handed to the handler

vars == <<buffer, closed, age, timer, received, delivered>>

NoTimer == -1

(* Mutant of Delay: the timer is armed one unit too late.                  *)
DelayTooLong(a) == LimitTime - a + 1

(* setTimeout raises a delay below one millisecond to one.                 *)
Delay(a) == IF LimitTime - a >= 1 THEN LimitTime - a ELSE 1

(* Mutant of FlushAll: the buffer is handed over and kept.                 *)
FlushAllKeeping(held) ==
  /\ delivered' = delivered \o held
  /\ buffer' = held
  /\ age' = 0

(* flush(): an empty buffer is not handed over, but the age starts again.  *)
FlushAll(held) ==
  /\ delivered' = delivered \o held
  /\ buffer' = <<>>
  /\ age' = 0

Init ==
  /\ buffer = <<>>
  /\ closed = FALSE
  /\ age = 0
  /\ timer = NoTimer
  /\ received = <<>>
  /\ delivered = <<>>

(* start(): every owner calls it once, right after the construction.       *)
Start ==
  /\ timer = NoTimer
  /\ ~closed
  /\ timer' = Delay(age)
  /\ UNCHANGED <<buffer, closed, age, received, delivered>>

(* Mutants of OnData: the limit is only noticed when it is exceeded; a     *)
(* full buffer is flushed instead of the push.                             *)
OnDataPastLimit(x) ==
  LET pushed == Append(buffer, x)
  IN  /\ Len(received) < MaxReceived
      /\ received' = Append(received, x)
      /\ IF Len(pushed) > LimitSize
           THEN FlushAll(pushed)
           ELSE buffer' = pushed /\ UNCHANGED <<age, delivered>>
      /\ UNCHANGED <<closed, timer>>

OnDataFlushedFirst(x) ==
  LET pushed == Append(buffer, x)
  IN  /\ Len(received) < MaxReceived
      /\ received' = Append(received, x)
      /\ IF Len(pushed) >= LimitSize
           THEN FlushAll(buffer)
           ELSE buffer' = pushed /\ UNCHANGED <<age, delivered>>
      /\ UNCHANGED <<closed, timer>>

(* onData(): a push into a buffer that becomes full flushes it.            *)
OnData(x) ==
  LET pushed == Append(buffer, x)
  IN  /\ Len(received) < MaxReceived
      /\ received' = Append(received, x)
      /\ IF Len(pushed) >= LimitSize
           THEN FlushAll(pushed)
           ELSE /\ buffer' = pushed
                /\ UNCHANGED <<age, delivered>>
      /\ UNCHANGED <<closed, timer>>

(* flush(): called by the owner when a stream fails or ends.               *)
Flush ==
  /\ FlushAll(buffer)
  /\ UNCHANGED <<closed, timer, received>>

Close ==
  /\ FlushAll(buffer)
  /\ closed' = TRUE
  /\ UNCHANGED <<timer, received>>

(* Mutant of Fire: a buffer exactly as old as the limit is not flushed.    *)
FireBelowLimit ==
  /\ timer = 0
  /\ IF age < LimitTime
       THEN FlushAll(buffer)
       ELSE UNCHANGED <<buffer, age, delivered>>
  /\ timer' = IF closed THEN NoTimer ELSE Delay(age')
  /\ UNCHANGED <<closed, received>>

(* The timer callback flushes when the age is within the limit, and arms   *)
(* the timer again unless the handler is closed.                           *)
Fire ==
  /\ timer = 0
  /\ IF age <= LimitTime
       THEN FlushAll(buffer)
       ELSE UNCHANGED <<buffer, age, delivered>>
  /\ timer' = IF closed THEN NoTimer ELSE Delay(age')
  /\ UNCHANGED <<closed, received>>

(* One unit of time passes.  An event loop that is never late calls a due  *)
(* timer back before the clock moves on.                                   *)
Tick ==
  /\ timer # NoTimer
  /\ timer > 0 \/ Late
  /\ timer' = IF timer > 0 THEN timer - 1 ELSE timer
  /\ age' = IF age <= LimitTime THEN age + 1 ELSE age
  /\ UNCHANGED <<buffer, closed, received, delivered>>

Next ==
  \/ Start
  \/ \E x \in Items : OnData(x)
  \/ Flush
  \/ Close
  \/ Fire
  \/ Tick

(* The clock runs and the event loop gets to a due timer in the end; the   *)
(* stream and the owner owe nothing.                                       *)
Fairness == WF_vars(Tick) /\ WF_vars(Fire) /\ WF_vars(Start)

Spec == Init /\ [][Next]_vars

FairSpec == Spec /\ Fairness

------------------------------------------------------------------------------
TypeOK ==
  /\ buffer \in Seq(Items)
  /\ closed \in BOOLEAN
  /\ age \in 0..(LimitTime + 1)
  /\ timer \in {NoTimer} \cup 0..LimitTime
  /\ received \in Seq(Items)
  /\ delivered \in Seq(Items)

(* No value is lost, handed over twice or overtaken, whichever of the four *)
(* flushing paths (full, owner, close, timer) races with a push.           *)
NothingLostOrReordered == received = delivered \o buffer

(* The buffer never reaches its limit between two calls: a batch holds at  *)
(* most LimitSize values, however long the timer stays away.               *)
BufferBelowLimit == Len(buffer) < LimitSize

(* The handler implements the delivery promise (OrderedDelivery).          *)
Delivery == INSTANCE OrderedDelivery WITH Limit <- LimitSize

ImplementsDelivery == Delivery!Spec

(* "flushes it to the handler when ... a certain time has passed": a value *)
(* in the buffer leaves it, whatever the stream and the owner do next,     *)
(* unless the handler is closed.                                           *)
DeliveredInTime == (buffer # <<>> /\ ~closed) ~> (buffer = <<>> \/ closed)
==============================================================================
