--------------------------- MODULE BitcoinCreation ---------------------------
(***************************************************************************)
(* The pages that create a Bitcoin transaction: a transfer, or the         *)
(* cancellation or speed-up of one that waits.  The stash of the store     *)
(* keeps the plain transaction, and every change of the store makes the    *)
(* object on the screen anew from it.  An edit sets one field of that      *)
(* object and stores its plain form again.                                 *)
(***************************************************************************)
EXTENDS BitcoinTx

CONSTANTS Actions,       \* what pages are opened for: transfer, cancel, speedup
          Wallet,        \* the unspent outputs of the entry, the oldest first
          Amounts,       \* amounts that may be typed
          Ranges,        \* fee ranges [min, std, max] the API may answer with
          OriginalFees   \* fees paid by a transaction that is modified

ASSUME WalletAssumption ==
    /\ Value \in [ToSet(Wallet) -> Nat \ {0}]
    /\ Wallet \in Seq(ToSet(Wallet)) /\ IsInjective(Wallet)

ASSUME InputAssumption ==
    /\ Actions \subseteq {"transfer", "cancel", "speedup"}
    /\ Amounts \subseteq Nat /\ OriginalFees \subseteq Nat
    /\ Ranges \subseteq [min : Nat, std : Nat, max : Nat]

VARIABLES action,      \* what the page was opened for
          stage,       \* "preparing", "setup", "sign", "broadcast"
          range,       \* the fee range of the store
          refetched,   \* the fees this page asked for were answered
          useStdFee,   \* the switch of the fee settings
          plain,       \* stash: the transaction
          screen,      \* the object on the screen
          signed,      \* the object handed to the vault
          original,    \* the transaction that is modified
          outdated     \* history: the range changed after the last edit of the fee

vars == <<action, stage, range, refetched, useStdFee, plain, screen, signed,
          original, outdated>>

None == [none |-> TRUE]
Receiver == "receiver"
Addresses == {Receiver, NoAddress}
Loading == [min |-> 0, std |-> 0, max |-> 0]    \* what getFee answers until then

\* What the vault of the entry holds is offered whole until a first edit.
InitTx(r, hasChange) ==
    SetFeePrice(New("transfer", hasChange, Wallet), Wallet, r.std)

\* The objects a change of the store may leave on the screen.
Screens(p, r, hasChange) ==
    IF p = None THEN {InitTx(r, hasChange)} ELSE FromPlain(p, hasChange)

-----------------------------------------------------------------------------
(* A transaction that is cancelled or sped up, and the page made for it.   *)
(* Its inputs come first among the unspent outputs; its price is estimated *)
(* from what it paid, raised by a tenth and by the range, and only then is *)
(* it made the transaction that replaces it.                               *)
Originals ==
    {o \in [inputs : SUBSET ToSet(Wallet), amount : Amounts \ {0}, fee : OriginalFees] :
        \E q \in SetToSeqs(o.inputs) : Total(q) >= o.amount + o.fee}

Restored(o) ==
    {SetTo(SetAmount(New("transfer", TRUE, utxo), utxo, o.amount), utxo, Receiver) :
        utxo \in Sorted(Wallet, [u \in ToSet(Wallet) |-> IF u \in o.inputs THEN 0 ELSE 1])}

\* The restored transaction at the price it paid, read from the stash again.
Repriced(tx, fee) ==
    FromPlain(Dump(SetFeePrice(tx, tx.utxo, EstimateVkbPrice(tx, fee))), TRUE)

\* Mutant of MinFee: the price is not raised.
MinFeeSame(price, r) == Larger(r.min, price)
MinFee(price, r) == Larger(r.min, (price * 11) \div 10)
MaxFee(price, r) == Larger(r.max, (price * 15) \div 10)

Replacement(kind, tx, price) ==
    FromPlain([Dump(SetFeePrice(tx, tx.utxo, price)) EXCEPT !.kind = kind], TRUE)

-----------------------------------------------------------------------------
Init ==
    /\ action \in Actions
    /\ stage = IF action = "transfer" THEN "setup" ELSE "preparing"
    /\ range \in Ranges \cup {Loading}
    /\ refetched = FALSE /\ useStdFee = TRUE /\ outdated = FALSE
    /\ plain = None /\ signed = None /\ original = None
    /\ screen = InitTx(range, TRUE)

\* The fees come late, or are fetched again because they are too old.
FeeArrives ==
    /\ action = "transfer" /\ stage = "setup" /\ ~refetched
    /\ refetched' = TRUE
    /\ range' \in Ranges
    /\ outdated' = (outdated \/ (plain # None /\ range' # range))
    /\ screen' \in Screens(plain, range', TRUE)
    /\ UNCHANGED <<action, stage, useStdFee, plain, signed, original>>

\* Both the fees and the transaction were read (restoreBitcoinTx).
Restore ==
    /\ stage = "preparing"
    /\ stage' = "setup"
    /\ original' \in Originals
    /\ \E r \in Ranges, found \in Restored(original') :
          \E tx \in Repriced(found, original'.fee) :
          \E min \in {MinFee(tx.price, r)} :
          \E replacement \in Replacement(action, tx, min) :
             /\ plain' = Dump(replacement)
             /\ range' = [min |-> min, std |-> min, max |-> MaxFee(min, r)]
    /\ screen' \in FromPlain(plain', TRUE)
    /\ UNCHANGED <<action, refetched, useStdFee, signed, outdated>>

\* The transaction, its inputs or its receiver were not found: the page is an
\* empty transfer without an address for the change.
NotRestored ==
    /\ stage = "preparing"
    /\ stage' = "setup"
    /\ range' \in Ranges
    /\ screen' = InitTx(range', FALSE)
    /\ UNCHANGED <<action, refetched, useStdFee, plain, signed, original, outdated>>

-----------------------------------------------------------------------------
Editable == stage = "setup"
\* A page for a modification has no fields for the receiver and the amount.
IsTransfer == screen.kind = "transfer"

Edit(tx) ==
    /\ plain' = Dump(tx)
    /\ screen' \in FromPlain(plain', screen.hasChange)
    /\ UNCHANGED <<action, stage, range, refetched, signed, original>>

EnterTo ==
    /\ Editable /\ IsTransfer
    /\ \E to \in Addresses, queue \in Queues(screen.order, screen.utxo) :
          Edit(SetTo(screen, queue, to))
    /\ UNCHANGED <<useStdFee, outdated>>

EnterAmount ==
    /\ Editable /\ IsTransfer
    /\ \E amount \in Amounts, queue \in Queues(screen.order, screen.utxo) :
          Edit(SetAmount(SetTarget(screen, queue, "manual"), queue, amount))
    /\ UNCHANGED <<useStdFee, outdated>>

SendAll ==
    /\ Editable /\ IsTransfer /\ range # Loading
    /\ Edit(SetTarget(screen, screen.utxo, "all"))
    /\ UNCHANGED <<useStdFee, outdated>>

ChooseOrder ==
    /\ Editable
    /\ \E order \in Orders :
          \E queue \in Queues(order, screen.utxo) :
             Edit(SetOrder(screen, queue, order))
    /\ UNCHANGED <<useStdFee, outdated>>

SlideFee ==
    /\ Editable /\ ~useStdFee
    /\ \E price \in {range.min, range.max},
          queue \in Queues(screen.order, screen.utxo) :
             Edit(SetFeePrice(screen, queue, price))
    /\ UNCHANGED <<useStdFee, outdated>>

CustomFee ==
    /\ Editable /\ range # Loading /\ useStdFee
    /\ useStdFee' = FALSE
    /\ UNCHANGED <<action, stage, range, refetched, plain, screen, signed, original,
                   outdated>>

StandardFee ==
    /\ Editable /\ ~useStdFee
    /\ useStdFee' = TRUE
    /\ \E queue \in Queues(screen.order, screen.utxo) :
          Edit(SetFeePrice(screen, queue, range.std))
    /\ outdated' = FALSE

-----------------------------------------------------------------------------
\* Mutant of Create: what is on the screen is not validated.
CreateUnchecked ==
    /\ stage = "setup" /\ range # Loading
    /\ stage' = "sign"
    /\ plain' = Dump(screen)
    /\ screen' \in FromPlain(plain', screen.hasChange)
    /\ UNCHANGED <<action, range, refetched, useStdFee, signed, original, outdated>>

\* "Create Transaction": what was edited becomes what is to be signed.
Create ==
    /\ stage = "setup" /\ range # Loading /\ Valid(screen)
    /\ stage' = "sign"
    /\ plain' = Dump(screen)
    /\ screen' \in FromPlain(plain', screen.hasChange)
    /\ UNCHANGED <<action, range, refetched, useStdFee, signed, original, outdated>>

Sign ==
    /\ stage = "sign"
    /\ stage' = "broadcast"
    /\ signed' = screen
    /\ screen' \in FromPlain(plain, screen.hasChange)
    /\ UNCHANGED <<action, range, refetched, useStdFee, plain, original, outdated>>

\* Any change of the store makes the object anew.
Rerender ==
    /\ stage # "preparing"
    /\ screen' \in Screens(plain, range, screen.hasChange)
    /\ UNCHANGED <<action, stage, range, refetched, useStdFee, plain, signed, original,
                   outdated>>

Next == FeeArrives \/ Restore \/ NotRestored \/ EnterTo \/ EnterAmount \/ SendAll
        \/ ChooseOrder \/ SlideFee \/ CustomFee \/ StandardFee \/ Create \/ Sign
        \/ Rerender

Spec == Init /\ [][Next]_vars

-----------------------------------------------------------------------------
(* Types: plain amounts are naturals, a selection is taken once and from   *)
(* the offered outputs, and what was signed was valid.                     *)
TypeOK ==
    /\ stage \in {"preparing", "setup", "sign", "broadcast"}
    /\ useStdFee \in BOOLEAN
    /\ screen.change \in Nat /\ screen.amount \in Nat /\ screen.price \in Nat
    /\ ToSet(screen.from) \subseteq ToSet(Wallet) /\ IsInjective(screen.from)
    /\ signed # None => Valid(signed)

Paid(tx) == Total(tx.from) - SumOf(Outputs(tx))
Exhausted(tx) == Len(tx.from) = Len(tx.utxo)

(* What is handed to the vault adds up: the inputs are the outputs and the *)
(* fee it names, although the fee of a modification is raised to a minimum *)
(* after the change was set (CreateBitcoinModifyTx.ts:9).                  *)
SignedBalances ==
    signed # None => Paid(signed) = Build(signed).fee

(* What is signed pays the price on the screen for its own size, unless    *)
(* all outputs are spent already (validate() lets that pass).  A speed-up  *)
(* does not (SpeedUpPaysItsPrice).                                         *)
CoversPrice(tx) ==
    \/ Paid(tx) >= GetFees(tx)
    \/ Exhausted(tx) /\ tx.change = 0

PaysItsPrice ==
    (signed # None /\ action # "speedup") => CoversPrice(signed)

(* "Speed Up Transaction": the price chosen for it is what it pays, too.   *)
SpeedUpPaysItsPrice ==
    (signed # None /\ action = "speedup") => CoversPrice(signed)

(* No input is spent needlessly: without the last one, the amount and the  *)
(* fee would not be covered.                                               *)
NoNeedlessInput ==
    (signed # None /\ action # "speedup" /\ signed.target = "manual") =>
        LET but == SubSeq(signed.from, 1, Len(signed.from) - 1)
        IN Total(but) - EstimateFeesFor(signed, Len(but), 1) < signed.amount

(* While the switch says so, the standard fee of the range is paid, unless *)
(* the range changed after an edit.                                        *)
StandardUnlessOutdated ==
    (signed # None /\ action = "transfer" /\ useStdFee /\ ~outdated) =>
        signed.price = range.std

(* A replacement spends an output of what it replaces, in whatever order   *)
(* the page was asked to take them: otherwise both could be paid.          *)
ReplacementConflicts ==
    (signed # None /\ action # "transfer") =>
        ToSet(signed.from) \cap original.inputs # {}

\* The size of what is modified was judged rightly: at the default price it
\* takes the inputs and the outputs that it has.  And its fee is no pittance:
\* the tenth it is raised by is more than the divisions round away.
Judged(o) ==
    \A tx \in Restored(o) :
        LET inputs == Cardinality(o.inputs)
            change == Total(SubSeq(tx.utxo, 1, inputs)) > o.amount + o.fee
            outputs == IF change THEN 2 ELSE 1
        IN /\ Len(tx.from) = inputs
           /\ Len(Outputs(tx)) = outputs
           /\ 200 * (o.fee - 10) >= Weight(inputs, outputs)

(* A replacement pays more than what it replaces, unless all is spent.     *)
(* Its price is what the fee of the original comes to at the size it has   *)
(* at the default price (restore.ts:216,242).  Where that is another size, *)
(* or where fewer inputs do at the new price, it may pay no more, or less; *)
(* and so may it for a fee of a few satoshi, a tenth of which is lost when *)
(* the price is rounded down (a relayed transaction pays ten times more).  *)
ReplacementPaysMore ==
    (signed # None /\ action # "transfer" /\ Judged(original)
        /\ Len(signed.from) >= Cardinality(original.inputs)) =>
        Paid(signed) > original.fee \/ Exhausted(signed)
=============================================================================
