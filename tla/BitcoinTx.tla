------------------------------ MODULE BitcoinTx ------------------------------
(***************************************************************************)
(* The classes CreateBitcoinTx, CreateBitcoinCancelTx and                  *)
(* CreateBitcoinSpeedUpTx: a Bitcoin transaction being edited.  An object  *)
(* is a record, a setter an operator that returns the changed record, and  *)
(* the plain form a transaction is kept in between two screens is what     *)
(* Dump makes of it.  Amounts are satoshi; an unspent output is an         *)
(* identifier with a value.  An undefined amount, change or originalFees   *)
(* behaves as zero everywhere and is zero here.                            *)
(***************************************************************************)
EXTENDS Integers, Sequences, FiniteSets, SequencesExt

CONSTANT Value       \* Value[u]: the satoshi of the unspent output u

NoAddress == "none"
DefaultPrice == 1024                    \* DEFAULT_VKB_FEE, satoshi per KB
Orders == {"oldest", "newest", "random", "largest", "smallest"}

Larger(a, b) == IF a > b THEN a ELSE b

\* The sum of a sequence of numbers, and the worth of a sequence of outputs.
SumOf(amounts) ==
    LET upto[n \in 0 .. Len(amounts)] == IF n = 0 THEN 0 ELSE upto[n - 1] + amounts[n]
    IN upto[Len(amounts)]

Total(from) == SumOf([i \in DOMAIN from |-> Value[from[i]]])

\* The fee of the average metric: a quarter of the weight is the size in bytes.
Weight(inputs, outputs) == 22 + 240 * inputs + 20 + 260 * outputs
FeeAt(price, inputs, outputs) == (price * Weight(inputs, outputs)) \div 4096

New(kind, hasChange, utxo) ==
    [kind |-> kind, hasChange |-> hasChange, utxo |-> utxo, from |-> <<>>,
     amount |-> 0, change |-> 0, target |-> "manual", to |-> NoAddress,
     price |-> DefaultPrice, order |-> "oldest", originalFees |-> 0]

EstimateFeesFor(tx, inputs, outputs) ==
    Larger(tx.originalFees, FeeAt(tx.price, inputs, outputs))

\* Mutant of Fees: what stays in the wallet is taken for a fee.
FeesWithChange(tx) ==
    Larger(tx.originalFees, Larger(0, Total(tx.from) - tx.amount))

Fees(tx) ==
    Larger(tx.originalFees, Larger(0, Total(tx.from) - tx.change - tx.amount))

\* The amounts of the outputs.  A cancellation has one, of its own wallet.
Outputs(tx) ==
    IF tx.kind = "cancel" THEN <<tx.change + tx.amount>>
    ELSE (IF tx.to # NoAddress THEN <<tx.amount>> ELSE <<>>)
         \o (IF tx.hasChange /\ tx.change > 0 THEN <<tx.change>> ELSE <<>>)

GetFees(tx) == FeeAt(tx.price, Len(tx.from), Len(Outputs(tx)))

EstimateVkbPrice(tx, fee) ==
    (fee * 4096) \div Weight(Len(tx.from), Len(Outputs(tx)))

-----------------------------------------------------------------------------
(* The orders in which the unspent outputs may be taken.  Sorting is       *)
(* stable, and sorting by a random comparison may give any order.          *)
Shuffles(utxo) == SetToSeqs(ToSet(utxo))
Place(utxo, u) == CHOOSE i \in DOMAIN utxo : utxo[i] = u

Sorted(utxo, rank) ==
    {q \in Shuffles(utxo) : \A i, j \in DOMAIN q : i < j =>
        \/ rank[q[i]] < rank[q[j]]
        \/ rank[q[i]] = rank[q[j]] /\ Place(utxo, q[i]) < Place(utxo, q[j])}

Queues(order, utxo) ==
    CASE order = "oldest"   -> {utxo}
      [] order = "newest"   -> {Reverse(utxo)}
      [] order = "largest"  -> Sorted(utxo, [u \in ToSet(utxo) |-> -Value[u]])
      [] order = "smallest" -> Sorted(utxo, Value)
      [] order = "random"   -> Shuffles(utxo)

\* Mutant of Selected: an output for the change is paid for in any case.
SelectedForChange(tx, queue, receivers) ==
    LET covers(n) ==
            n > 0 /\ Total(SubSeq(queue, 1, n)) - EstimateFeesFor(tx, n, receivers + 1)
                     >= tx.amount
        least == CHOOSE n \in 0 .. Len(queue) :
                    /\ covers(n) \/ n = Len(queue)
                    /\ \A k \in 0 .. n - 1 : ~covers(k)
    IN SubSeq(queue, 1, least)

\* The shortest start of the queue that covers the amount and its own fee.
Selected(tx, queue, receivers) ==
    LET covers(n) ==
            n > 0 /\ Total(SubSeq(queue, 1, n)) - EstimateFeesFor(tx, n, receivers)
                     >= tx.amount
        least == CHOOSE n \in 0 .. Len(queue) :
                    /\ covers(n) \/ n = Len(queue)
                    /\ \A k \in 0 .. n - 1 : ~covers(k)
    IN SubSeq(queue, 1, least)

\* Mutant of ChangeOf: the output of the change is not paid for.
ChangeOfUnpaid(tx, from, receivers) ==
    LET fees == IF from = <<>> THEN 0 ELSE EstimateFeesFor(tx, Len(from), receivers)
    IN IF tx.hasChange THEN Larger(0, Total(from) - tx.amount - fees) ELSE 0

\* What is left after the amount and the fee of one output more.
ChangeOf(tx, from, receivers) ==
    LET fees == IF from = <<>> THEN 0 ELSE EstimateFeesFor(tx, Len(from), receivers)
    IN IF tx.hasChange /\ tx.amount + fees < Total(from)
       THEN Larger(0, Total(from) - tx.amount
                      - EstimateFeesFor(tx, Len(from), receivers + 1))
       ELSE 0

\* An amount of zero returns early, and leaves the change as it was.
Rebalance(tx, queue) ==
    LET receivers == IF tx.to = NoAddress THEN 0 ELSE 1
        from == Selected(tx, queue, receivers)
    IN CASE tx.target = "manual" /\ tx.amount = 0 -> [tx EXCEPT !.from = <<>>]
         [] tx.target = "manual" /\ tx.amount # 0 ->
              [tx EXCEPT !.from = from, !.change = ChangeOf(tx, from, receivers)]
         [] tx.target = "all" ->
              [tx EXCEPT !.from = tx.utxo, !.change = 0,
                         !.amount = Larger(0, Total(tx.utxo)
                             - EstimateFeesFor(tx, Len(tx.utxo), receivers))]

-----------------------------------------------------------------------------
(* The setters, each of which rebalances.                                  *)
SetAmount(tx, queue, amount) ==
    Rebalance([tx EXCEPT !.amount = amount, !.target = "manual"], queue)
SetTarget(tx, queue, target) == Rebalance([tx EXCEPT !.target = target], queue)
SetTo(tx, queue, to) == Rebalance([tx EXCEPT !.to = to], queue)
SetFeePrice(tx, queue, price) == Rebalance([tx EXCEPT !.price = price], queue)
SetOrder(tx, queue, order) == Rebalance([tx EXCEPT !.order = order], queue)

(* A transaction in its plain form, and the objects it may be restored to: *)
(* one, unless the order is random.                                        *)
Dump(tx) ==
    [kind |-> tx.kind, amount |-> tx.amount, target |-> tx.target, to |-> tx.to,
     price |-> tx.price, order |-> tx.order, utxo |-> tx.utxo,
     originalFees |-> IF tx.kind = "transfer" THEN Fees(tx) ELSE tx.originalFees]

\* What all three kinds set of the plain form: the amount, the receiver.
Filled(tx, plain) ==
    SetTo(SetTarget(tx, plain.utxo, plain.target), plain.utxo, plain.to)

\* Mutant of TransferFromPlain: the price is forgotten.
TransferFromPlainUnpriced(plain, hasChange) ==
    LET amounted == SetAmount(New("transfer", hasChange, plain.utxo), plain.utxo, plain.amount)
        filled == [Filled(amounted, plain) EXCEPT !.order = plain.order]
    IN {Rebalance(filled, queue) : queue \in Queues(plain.order, plain.utxo)}

TransferFromPlain(plain, hasChange) ==
    LET amounted == SetAmount(New("transfer", hasChange, plain.utxo), plain.utxo, plain.amount)
        filled == [Filled(amounted, plain) EXCEPT !.price = plain.price, !.order = plain.order]
    IN {Rebalance(filled, queue) : queue \in Queues(plain.order, plain.utxo)}

\* The object of a modification keeps the order "oldest".
Amounted(kind, plain) ==
    SetAmount(New(kind, TRUE, plain.utxo), plain.utxo, plain.amount)

\* Mutant of CancelFromPlain: the outputs are taken in the order asked for.
CancelFromPlainOrdered(plain) ==
    LET priced == SetFeePrice(Amounted("cancel", plain), plain.utxo, plain.price)
        filled == Filled([priced EXCEPT !.originalFees = plain.originalFees], plain)
    IN SetOrder(filled, CHOOSE q \in Queues(plain.order, plain.utxo) : TRUE, plain.order)

CancelFromPlain(plain) ==
    LET priced == SetFeePrice(Amounted("cancel", plain), plain.utxo, plain.price)
    IN Filled([priced EXCEPT !.originalFees = plain.originalFees], plain)

\* The price comes last, and nothing is rebalanced to it.
SpeedUpFromPlain(plain) ==
    LET raised == [Amounted("speedup", plain) EXCEPT !.originalFees = plain.originalFees]
    IN [Filled(raised, plain) EXCEPT !.price = plain.price]

FromPlain(plain, hasChange) ==
    CASE plain.kind = "transfer" -> TransferFromPlain(plain, hasChange)
      [] plain.kind = "cancel"   -> {CancelFromPlain(plain)}
      [] plain.kind = "speedup"  -> {SpeedUpFromPlain(plain)}

-----------------------------------------------------------------------------
(* What the screen asks for before a transaction can be created, and what  *)
(* is handed to the vault to be signed.                                    *)
ValidTarget(tx) ==
    tx.target = "all" => Total(tx.from) - GetFees(tx) = tx.amount

Valid(tx) ==
    /\ tx.hasChange
    /\ tx.amount # 0
    /\ tx.from # <<>>
    /\ tx.to # NoAddress
    /\ Total(tx.from) >= tx.amount
    /\ ValidTarget(tx)

Build(tx) == [inputs |-> tx.from, outputs |-> Outputs(tx), fee |-> Fees(tx)]
=============================================================================
