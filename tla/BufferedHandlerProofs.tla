------------------------ MODULE BufferedHandlerProofs ------------------------
(***************************************************************************)
(* For every buffer limit, time limit, set of values and lateness of the   *)
(* timers: the buffer is well typed, loses and reorders nothing, stays     *)
(* below its limit, and implements the delivery promise.                   *)
(***************************************************************************)
EXTENDS BufferedHandler, SequenceTheorems, TLAPS

(* The strengthening is the conjunction: that a step keeps the concatenation *)
(* needs the sequences typed, and the bound needs a non-zero limit.          *)
Inv == TypeOK /\ NothingLostOrReordered /\ BufferBelowLimit

(* Handing the whole buffer over keeps the history of values complete.     *)
LEMMA FlushKeepsInv ==
  ASSUME NEW held \in Seq(Items),
         delivered \in Seq(Items),
         received' = delivered \o held,
         received' \in Seq(Items),
         FlushAll(held)
  PROVE  /\ buffer' \in Seq(Items)
         /\ age' \in 0..(LimitTime + 1)
         /\ delivered' \in Seq(Items)
         /\ NothingLostOrReordered'
         /\ BufferBelowLimit'
<1>1. buffer' = <<>> /\ age' = 0 /\ delivered' = delivered \o held
  BY DEF FlushAll
<1>2. delivered' \in Seq(Items)
  BY <1>1
<1>3. NothingLostOrReordered'
  BY <1>1, <1>2 DEF NothingLostOrReordered
<1>4. BufferBelowLimit'
  BY <1>1, LimitSizeAssumption DEF BufferBelowLimit
<1> QED
  BY <1>1, <1>2, <1>3, <1>4, LimitTimeAssumption

(* The delay asked of setTimeout is a positive time of at most the limit.  *)
LEMMA DelayType ==
  ASSUME NEW a \in 0..(LimitTime + 1)
  PROVE  Delay(a) \in 1..LimitTime
  BY LimitTimeAssumption DEF Delay

(* The buffer starts empty, with nothing received or delivered.            *)
LEMMA InitInv == Init => Inv
<1> SUFFICES ASSUME Init
             PROVE  Inv
  OBVIOUS
<1>1. /\ <<>> \in Seq(Items)
      /\ Len(<<>>) = 0
      /\ <<>> \o <<>> = <<>>
  BY EmptySeq, ConcatEmptySeq
<1>2. TypeOK
  <2>1. age \in 0..(LimitTime + 1) /\ timer \in {NoTimer} \cup 0..LimitTime
    BY LimitTimeAssumption DEF Init
  <2>2. /\ buffer \in Seq(Items)
        /\ received \in Seq(Items)
        /\ delivered \in Seq(Items)
    BY <1>1, Zenon DEF Init
  <2> QED
    BY <2>1, <2>2 DEF Init, TypeOK
<1>3. NothingLostOrReordered
  BY <1>1 DEF Init, NothingLostOrReordered
<1>4. BufferBelowLimit
  BY <1>1, LimitSizeAssumption DEF Init, BufferBelowLimit
<1> QED
  BY <1>2, <1>3, <1>4 DEF Inv

(* Items, the timer and a flush keep the invariant, one by one.            *)
LEMMA NextInv == Inv /\ [Next]_vars => Inv'
<1> SUFFICES ASSUME Inv, [Next]_vars
             PROVE  Inv'
  OBVIOUS
<1> USE DEF Inv
<1>1. CASE Start
  BY <1>1, DelayType
  DEF Start, TypeOK, NothingLostOrReordered, BufferBelowLimit
<1>2. ASSUME NEW x \in Items, OnData(x)
      PROVE  Inv'
  <2> DEFINE pushed == Append(buffer, x)
  <2>1. /\ pushed \in Seq(Items)
        /\ received' \in Seq(Items)
        /\ closed' \in BOOLEAN
        /\ timer' \in {NoTimer} \cup 0..LimitTime
    BY <1>2 DEF OnData, TypeOK
  <2>2. received' = delivered \o pushed
    <3>1. received' = Append(delivered \o buffer, x)
      BY <1>2 DEF OnData, NothingLostOrReordered
    <3>2. delivered \in Seq(Items) /\ buffer \in Seq(Items)
      BY DEF TypeOK
    <3>3. Append(delivered \o buffer, x) = delivered \o Append(buffer, x)
      BY <1>2, <3>2
    <3> QED
      BY <1>2, <3>1, <3>2, <3>3
  <2>3. CASE Len(pushed) >= LimitSize
    <3>1. FlushAll(pushed)
      BY <1>2, <2>3 DEF OnData
    <3> QED
      BY <2>1, <2>2, <3>1, FlushKeepsInv DEF TypeOK
  <2>4. CASE ~(Len(pushed) >= LimitSize)
    <3>1. buffer' = pushed /\ UNCHANGED <<age, delivered>>
      BY <1>2, <2>4 DEF OnData
    <3>2. Len(pushed) < LimitSize
      BY <2>1, <2>4, LimitSizeAssumption
    <3> QED
      BY <2>1, <2>2, <3>1, <3>2
      DEF TypeOK, NothingLostOrReordered, BufferBelowLimit
  <2> QED
    BY <2>3, <2>4
<1>3. CASE Flush
  BY <1>3, FlushKeepsInv DEF Flush, TypeOK, NothingLostOrReordered
<1>4. CASE Close
  BY <1>4, FlushKeepsInv DEF Close, TypeOK, NothingLostOrReordered
<1>5. CASE Fire
  <2>1. /\ buffer' \in Seq(Items)
        /\ age' \in 0..(LimitTime + 1)
        /\ delivered' \in Seq(Items)
        /\ NothingLostOrReordered'
        /\ BufferBelowLimit'
    <3>1. CASE age <= LimitTime
      BY <1>5, <3>1, FlushKeepsInv DEF Fire, TypeOK, NothingLostOrReordered
    <3>2. CASE ~(age <= LimitTime)
      BY <1>5, <3>2 DEF Fire, TypeOK, NothingLostOrReordered, BufferBelowLimit
    <3> QED
      BY <3>1, <3>2
  <2>2. timer' \in {NoTimer} \cup 0..LimitTime
    BY <1>5, <2>1, DelayType DEF Fire
  <2> QED
    BY <1>5, <2>1, <2>2 DEF Fire, TypeOK
<1>6. CASE Tick
  BY <1>6, LimitTimeAssumption
  DEF Tick, TypeOK, NothingLostOrReordered, BufferBelowLimit, NoTimer
<1>7. CASE UNCHANGED vars
  BY <1>7 DEF vars, TypeOK, NothingLostOrReordered, BufferBelowLimit
<1> QED
  BY <1>1, <1>2, <1>3, <1>4, <1>5, <1>6, <1>7 DEF Next

(* Nothing a stream delivered is lost, repeated or reordered on its way to *)
(* the handler, at any limits and with timers as late as one likes.        *)
THEOREM BufferSafety == Spec => []NothingLostOrReordered
<1>1. Spec => []Inv
  BY InitInv, NextInv, PTL DEF Spec
<1> QED
  BY <1>1, PTL DEF Inv

(* The buffer is never left full: batches hold at most LimitSize values.   *)
THEOREM BufferBounded == Spec => []BufferBelowLimit
<1>1. Spec => []Inv
  BY InitInv, NextInv, PTL DEF Spec
<1> QED
  BY <1>1, PTL DEF Inv

(* The buffer, its age and what was handed over keep their types.          *)
THEOREM BufferTypes == Spec => []TypeOK
<1>1. Spec => []Inv
  BY InitInv, NextInv, PTL DEF Spec
<1> QED
  BY <1>1, PTL DEF Inv

(* Every step of the buffer is a step of the delivery promise, or none.    *)
LEMMA StepSimulation == Inv /\ [Next]_vars => [Delivery!Next]_(Delivery!dvars)
<1> SUFFICES ASSUME Inv, [Next]_vars
             PROVE  [Delivery!Next]_(Delivery!dvars)
  OBVIOUS
<1> USE DEF Inv
<1>1. CASE Start
  BY <1>1 DEF Start, Delivery!dvars
<1>2. ASSUME NEW x \in Items, OnData(x)
      PROVE  Delivery!Next
  <2> DEFINE pushed == Append(buffer, x)
  <2>1. /\ received' = Append(received, x)
        /\ received' = delivered \o pushed
        /\ pushed \in Seq(Items)
    <3>1. received' = Append(received, x) /\ received = delivered \o buffer
      BY <1>2 DEF OnData, NothingLostOrReordered
    <3>2. delivered \in Seq(Items) /\ buffer \in Seq(Items)
      BY DEF TypeOK
    <3>3. Append(delivered \o buffer, x) = delivered \o Append(buffer, x)
      BY <1>2, <3>2
    <3> QED
      BY <1>2, <3>1, <3>2, <3>3
  <2>2. Len(received') = Len(delivered) + Len(pushed)
    BY <2>1 DEF TypeOK
  <2>3. Delivery!Accept(x)
    <3>1. CASE Len(pushed) >= LimitSize
      BY <1>2, <2>1, <3>1 DEF OnData, FlushAll, Delivery!Accept
    <3>2. CASE ~(Len(pushed) >= LimitSize)
      <4>1. UNCHANGED delivered
        BY <1>2, <3>2 DEF OnData
      <4>2. Len(received') - Len(delivered) < LimitSize
        <5>1. Len(pushed) \in Nat /\ Len(delivered) \in Nat
          BY <2>1 DEF TypeOK
        <5> QED
          BY <5>1, <2>2, <3>2, LimitSizeAssumption
      <4> QED
        BY <2>1, <4>1, <4>2 DEF Delivery!Accept
    <3> QED
      BY <3>1, <3>2
  <2> QED
    BY <2>3 DEF Delivery!Next
<1>3. CASE Flush
  BY <1>3 DEF Flush, FlushAll, NothingLostOrReordered, Delivery!Next, Delivery!Deliver
<1>4. CASE Close
  BY <1>4 DEF Close, FlushAll, NothingLostOrReordered, Delivery!Next, Delivery!Deliver
<1>5. CASE Fire
  BY <1>5
  DEF Fire, FlushAll, NothingLostOrReordered, Delivery!Next, Delivery!Deliver, Delivery!dvars
<1>6. CASE Tick
  BY <1>6 DEF Tick, Delivery!dvars
<1>7. CASE UNCHANGED vars
  BY <1>7 DEF vars, Delivery!dvars
<1> QED
  BY <1>1, <1>2, <1>3, <1>4, <1>5, <1>6, <1>7 DEF Next

(* BufferedHandler implements OrderedDelivery.                             *)
THEOREM BufferImplementsDelivery == Spec => ImplementsDelivery
<1>1. Init => Delivery!Init
  BY DEF Init, Delivery!Init
<1>2. Spec => []Inv
  BY InitInv, NextInv, PTL DEF Spec
<1> QED
  BY <1>1, <1>2, StepSimulation, PTL DEF Spec, ImplementsDelivery, Delivery!Spec
==============================================================================
