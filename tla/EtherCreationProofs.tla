------------------------- MODULE EtherCreationProofs -------------------------
(***************************************************************************)
(* What the vault is given to sign on the pages of an Ethereum transaction *)
(* for all entries, tokens, holdings, fees and bounds: it is what the page *)
(* shows and can be paid for, a replacement is of the transaction the page *)
(* was opened for and pays more, and the gas of a transfer is its own.     *)
(* The last part is of types: every amount computed is a number, because   *)
(* it is read from the balances of an entry that may send.                 *)
(***************************************************************************)
EXTENDS MCTransactions, BitcoinCreationProofs

Money == {"transfer", "convert", "recovery"}
Replacing == {"cancel", "speedup"}

TxFields == {"kind", "asset", "amount", "target", "from", "to", "owner", "gas",
             "eip1559", "price", "spare", "coins", "tokens", "nonce"}
IsTx(x) == x = [f \in TxFields |-> x[f]] /\ x.kind \in Kinds
StashFields == {"stage", "preparing", "entry", "owner", "asset", "tx", "own", "signed"}
IsStash(x) ==
  /\ x = [f \in StashFields |-> x[f]]
  /\ x.stage \in {"setup", "sign", "broadcast"} /\ x.preparing \in BOOLEAN
  /\ x.tx = NoTx \/ IsTx(x.tx)
Doubts == [guess : BOOLEAN, moved : BOOLEAN, misread : BOOLEAN, strayed : BOOLEAN]

IsList(list) == list \in Seq({list[i] : i \in DOMAIN list})

PageShapes ==
  /\ page \in Pages \cup {Closed} /\ opened \in Nat /\ (page # Closed => opened > 0)
  /\ IsStash(stash) /\ fees \in FeeRanges \cup {NoFees}
  /\ IsList(estimates) /\ doubt \in Doubts

(* An owner lends tokens, never coins, and nothing for a conversion.       *)
Lends(tx) ==
  /\ tx.kind = "transfer" /\ tx.asset = Coin => tx.owner = Nobody
  /\ tx.kind = "convert" => tx.owner = Nobody
OwnersLend == stash.tx # NoTx => Lends(stash.tx)

(* The page that is open, of which no answer was taken by another.         *)
Here == page # Closed /\ ~doubt.strayed

(* What is restored is what the page is for.                               *)
RestoreFields == {"page", "of", "found", "fee"}
RestoresPage ==
  \A r \in restoring :
    /\ r = [f \in RestoreFields |-> r[f]]
    /\ r.page \in 1..opened /\ r.of \in Pages /\ r.of.purpose \in Replacing
    /\ \A q \in restoring : q.page = r.page => q = r
    /\ page # Closed /\ r.page = opened => r.of = page /\ (~doubt.strayed => stash.preparing)

(* A page makes what it is for, or a transfer.                             *)
KindOfPage ==
  (Here /\ stash.tx # NoTx /\ stash.tx.kind # "transfer") => stash.tx.kind = page.purpose

(* The balances an object was given are those of its sender and owner.     *)
Fits(tx) ==
  /\ tx.coins = Own(tx.from, Coin)
  /\ tx.asset # Coin => tx.tokens = Balance(tx.from, tx.asset, tx.owner)
BalancesFit ==
  (/\ Here /\ stash.stage = "setup" /\ stash.tx # NoTx
   /\ stash.tx.kind \in Money /\ ~doubt.moved /\ ~doubt.misread) =>
     /\ Fits(stash.tx)
     /\ stash.tx.kind = "convert" => stash.tx.from = Entry

(* A price that is at least a tenth more, rounded down.  With EIP-1559 it  *)
(* is paid whatever is chosen; a legacy transaction pays it as long as its *)
(* two prices differ, which they do not once one was chosen.               *)
Enough(price) == 10 * (price + 1) > 11 * page.original.price
LegacyPrice(tx) == IF tx.eip1559 THEN tx.spare ELSE tx.price
PaysEnough(tx) ==
  IF page.original.eip1559 THEN Enough(MaxGasPrice(tx))
  ELSE LegacyPrice(tx) # MaxGasPrice(tx) => Enough(LegacyPrice(tx))
PricedAs(tx, o) == tx.price = o.price /\ tx.spare = o.spare /\ tx.eip1559 = o.eip1559
OffersEnough ==
  page.original.eip1559 => \A p \in {stash.own.low, stash.own.std, stash.own.high} : Enough(p)
IsOriginal(tx) ==
  /\ page.original \in EtherOriginals
  /\ tx.from = page.original.from /\ tx.nonce = page.original.nonce
ReplacesOriginal ==
  (Here /\ stash.stage = "setup" /\ stash.tx # NoTx /\ stash.tx.kind \in Replacing) =>
    /\ IsOriginal(stash.tx)
    /\ IF stash.preparing THEN PricedAs(stash.tx, page.original)
       ELSE PaysEnough(stash.tx) /\ OffersEnough

(* The last estimate asked for is that of the stash, or it has arrived.    *)
ScreenKept == stash.tx.asset = Asset /\ (Asset # Coin => stash.tx.owner = stash.owner)
Answers(call, tx) == call.method = Method(tx) /\ call.to = tx.to
GasComes ==
  (stash.stage = "setup" /\ ~doubt.guess) =>
    /\ stash.tx # NoTx
    /\ stash.tx.kind = "transfer" =>
         /\ ScreenKept
         /\ IF estimates = <<>> THEN stash.tx.gas = GasOf(Call(stash.tx))
            ELSE Answers(estimates[Len(estimates)], stash.tx)

(* What may be signed.                                                     *)
Payable(tx) ==
  (tx.kind \in Money /\ ~doubt.moved /\ ~doubt.misread /\ ~doubt.strayed) =>
    LET tokens == Balance(tx.from, tx.asset, tx.owner)
    IN /\ Covered(tx, Own(tx.from, Coin), tokens)
       /\ tx.target = "all" => IsAll(tx, Own(tx.from, Coin), tokens)
Raises(tx) == (~doubt.strayed /\ tx.kind \in Replacing) => IsOriginal(tx) /\ PaysEnough(tx)
Final(tx) == Payable(tx) /\ Raises(tx)
FinalSigned ==
  /\ stash.stage = "sign" => page # Closed /\ stash.tx # NoTx /\ Final(stash.tx)
  /\ \A s \in signing :
       /\ s.page \in 1..opened
       /\ page # Closed /\ s.page = opened =>
            s.tx = stash.tx /\ stash.stage # "setup" /\ stash.tx # NoTx /\ Final(stash.tx)
  /\ SignedHere => /\ stash.signed.tx = stash.tx /\ stash.stage # "setup"
                   /\ stash.tx # NoTx /\ Final(stash.tx)
  /\ stash.signed # NoTx => stash.stage # "setup" /\ stash.signed.page \in 1..opened

EtherInv ==
  /\ PageShapes /\ OwnersLend /\ RestoresPage /\ KindOfPage /\ BalancesFit /\ ReplacesOriginal
  /\ GasComes /\ GasIsItsOwn /\ FinalSigned

-----------------------------------------------------------------------------
(* The entry in use depends on the page, the choice and the balances.      *)
LEMMA EntryStays ==
  ASSUME UNCHANGED holdings, page' = page, stash'.entry = stash.entry
  PROVE  Entry' = Entry
  <1>1. \A p : Senders(p)' = Senders(p)
    BY DEF Senders, Own
  <1> QED BY <1>1 DEF Entry, EntryFor

(* The asset in use, too, and on the owner and the asset chosen.           *)
LEMMA AssetStays ==
  ASSUME UNCHANGED holdings, page' = page, stash'.entry = stash.entry,
         stash'.owner = stash.owner, stash'.asset = stash.asset
  PROVE  Entry' = Entry /\ Asset' = Asset
  <1>2. Entry' = Entry
    BY EntryStays
  <1>3. \A e, a, o : Balance(e, a, o)' = Balance(e, a, o)
    BY DEF Balance, Own
  <1>4. Offered' = Offered
    BY <1>2, <1>3 DEF Offered
  <1> QED BY <1>2, <1>4 DEF Asset

(* A new object is a transaction.                                          *)
LEMMA NewIsTx ==
  ASSUME NEW kind \in Kinds, NEW asset
  PROVE  IsTx(NewTx(kind, asset)) /\ NewTx(kind, asset).kind = kind
  BY DEF IsTx, TxFields, NewTx

(* The stash without a transaction is told from one with it.               *)
LEMMA NoTxIsNone == ~IsTx(NoTx)
  BY DEF IsTx, TxFields, NoTx, Kinds

(* A transaction that was paid for otherwise: the amount and the target    *)
(* may differ, and the price.                                              *)
Same(x, y) ==
  /\ x.kind = y.kind /\ x.asset = y.asset /\ x.from = y.from /\ x.to = y.to
  /\ x.owner = y.owner /\ x.gas = y.gas /\ x.coins = y.coins /\ x.tokens = y.tokens
  /\ x.nonce = y.nonce

(* Computing the amount changes only the amount and the target.            *)
LEMMA RebalancedSame ==
  ASSUME NEW x, IsTx(x)
  PROVE  /\ IsTx(Rebalanced(x)) /\ Same(Rebalanced(x), x)
         /\ IsTx(AllOrNothing(x)) /\ Same(AllOrNothing(x), x)
  <1>1. ASSUME NEW v PROVE IsTx([x EXCEPT !.amount = v]) /\ Same([x EXCEPT !.amount = v], x)
    <2>1. IsTx([x EXCEPT !.amount = v])
      BY DEF IsTx, TxFields
    <2>2. Same([x EXCEPT !.amount = v], x)
      BY DEF IsTx, TxFields, Same
    <2> QED BY <2>1, <2>2
  <1>2. IsTx(Rebalanced(x)) /\ Same(Rebalanced(x), x)
    <2>1. Rebalanced(x) = x \/ \E v : Rebalanced(x) = [x EXCEPT !.amount = v]
      BY DEF Rebalanced
    <2>2. Same(x, x)
      BY DEF Same
    <2> QED BY <1>1, <2>1, <2>2
  <1> DEFINE y == [x EXCEPT !.target = "manual", !.amount = 0]
  <1>3. IsTx(y)
    BY DEF IsTx, TxFields
  <1>4. Same(y, x)
    BY DEF IsTx, TxFields, Same
  <1> QED BY <1>2, <1>3, <1>4 DEF AllOrNothing

(* Filling the fee in changes nothing but the price and the amount.        *)
LEMMA MergedFeeSame ==
  ASSUME NEW x, IsTx(x)
  PROVE  IsTx(MergedFee(x)) /\ Same(MergedFee(x), x)
  <1> DEFINE y == [x EXCEPT !.price = fees.std, !.spare = fees.std]
  <1>1. IsTx(y) /\ Same(y, x) /\ Same(x, x)
    <2>1. IsTx(y)
      BY DEF IsTx, TxFields
    <2> QED BY <2>1 DEF IsTx, TxFields, Same
  <1>2. IsTx(Rebalanced(y)) /\ Same(Rebalanced(y), y)
    BY <1>1, RebalancedSame
  <1>3. MergedFee(x) = x \/ MergedFee(x) = Rebalanced(y)
    BY DEF MergedFee, Priced
  <1> QED BY <1>1, <1>2, <1>3 DEF Same

(* The balances are read, and nothing else changes.                        *)
LEMMA HoldingReads ==
  ASSUME NEW x, IsTx(x), NEW e, NEW asset, NEW owner
  PROVE  LET y == Holding(x, e, asset, owner)
         IN /\ IsTx(y)
            /\ y.kind = x.kind /\ y.asset = x.asset /\ y.from = x.from /\ y.to = x.to
            /\ y.owner = x.owner /\ y.gas = x.gas /\ y.nonce = x.nonce /\ PricedAs(y, x)
            /\ y.coins = Own(e, Coin)
            /\ asset # Coin => y.tokens = Balance(e, asset, owner)
  <1> DEFINE c == Own(e, Coin)
             t == IF asset = Coin THEN x.tokens ELSE Balance(e, asset, owner)
             y == [x EXCEPT !.coins = c, !.tokens = t]
  <1>1. Holding(x, e, asset, owner) = y
    BY DEF Holding
  <1> HIDE DEF c, t
  <1>2. IsTx(y)
    BY DEF IsTx, TxFields
  <1>3. /\ y.kind = x.kind /\ y.asset = x.asset /\ y.from = x.from /\ y.to = x.to
        /\ y.owner = x.owner /\ y.gas = x.gas /\ y.nonce = x.nonce /\ PricedAs(y, x)
        /\ y.coins = c /\ y.tokens = t
    BY DEF IsTx, TxFields, PricedAs
  <1> QED BY <1>1, <1>2, <1>3 DEF c, t

-----------------------------------------------------------------------------
(* The object on the screen, made from one of the stash.                   *)
LEMMA FreshFits ==
  /\ IsTx(Fresh) /\ Fresh.kind = "transfer" /\ Fresh.asset = Asset /\ Fits(Fresh)
  /\ Fresh.owner = IF Asset = Coin THEN Nobody ELSE stash.owner
  <1> DEFINE owner == IF Asset = Coin THEN Nobody ELSE stash.owner
             new == NewTx("transfer", Asset)
             x == [new EXCEPT !.from = Entry, !.owner = owner, !.price = fees.std, !.spare = fees.std]
  <1>1. IsTx(new) /\ new.kind = "transfer" /\ new.asset = Asset
    BY DEF NewTx, IsTx, TxFields, Kinds
  <1>3. IsTx(x) /\ x.kind = "transfer" /\ x.asset = Asset /\ x.from = Entry /\ x.owner = owner
    <2> HIDE DEF new, owner
    <2>1. IsTx(x)
      BY <1>1 DEF IsTx, TxFields
    <2> QED BY <1>1, <2>1 DEF IsTx, TxFields
  <1>2. Fresh = Holding(x, Entry, Asset, owner)
    BY DEF Fresh
  <1> HIDE DEF x
  <1> QED BY <1>2, <1>3, HoldingReads DEF Fits

(* Another sender or owner: the balances are read for the two.             *)
LEMMA MergedFits ==
  ASSUME NEW x, IsTx(x), x.kind = "transfer", x.asset = Asset, x.asset = Coin => x.owner = Nobody
  PROVE  /\ IsTx(Merged(x)) /\ Merged(x).kind = x.kind /\ Merged(x).asset = x.asset
         /\ Merged(x).to = x.to /\ Merged(x).gas = x.gas
         /\ Merged(x).owner = IF Asset = Coin THEN Nobody ELSE stash.owner
         /\ Fits(x) => Fits(Merged(x))
  <1> DEFINE owner == IF x.asset = Coin THEN Nobody ELSE stash.owner
             y == [x EXCEPT !.from = Entry, !.owner = owner]
             new == Holding(y, Entry, Asset, owner)
  <1>1. CASE x.from = Entry /\ x.owner = stash.owner
    BY <1>1 DEF Merged
  <1>2. CASE ~(x.from = Entry /\ x.owner = stash.owner)
    <2>1. /\ IsTx(y) /\ y.kind = x.kind /\ y.asset = x.asset /\ y.to = x.to /\ y.gas = x.gas
          /\ y.from = Entry /\ y.owner = owner
      BY DEF IsTx, TxFields
    <2> HIDE DEF y
    <2>2. /\ IsTx(new) /\ new.kind = x.kind /\ new.asset = x.asset /\ new.to = x.to
          /\ new.gas = x.gas /\ new.from = Entry /\ new.owner = owner
          /\ new.coins = Own(Entry, Coin)
          /\ Asset # Coin => new.tokens = Balance(Entry, Asset, owner)
      BY <2>1, HoldingReads
    <2>6. Fits(new)
      BY <2>2 DEF Fits
    <2>3. Merged(x) = new \/ Merged(x) = AllOrNothing(new)
      BY <1>2 DEF Merged, y
    <2> HIDE DEF new
    <2>4. IsTx(AllOrNothing(new)) /\ Same(AllOrNothing(new), new)
      BY <2>2, RebalancedSame
    <2>5. Fits(AllOrNothing(new))
      BY <2>4, <2>6 DEF Fits, Same
    <2> QED BY <2>2, <2>3, <2>4, <2>5, <2>6 DEF Same
  <1> QED BY <1>1, <1>2

(* Another asset: the balance read is the entry's own.                     *)
LEMMA ConvertedFits ==
  ASSUME NEW x, IsTx(x)
  PROVE  /\ IsTx(Converted(x)) /\ Converted(x).kind = x.kind /\ Converted(x).asset = Asset
         /\ Asset = Coin => Converted(x).owner = Nobody
         /\ Converted(x).owner = Nobody => Fits(Converted(x))
  <1> DEFINE owner == IF Asset = Coin THEN Nobody
                      ELSE IF x.owner # Nobody THEN x.owner ELSE stash.owner
             made == Remade(x)
             held == Holding(made, Entry, Asset, Nobody)
             new == [held EXCEPT !.owner = owner]
             manual == [new EXCEPT !.amount = x.amount]
             all == [new EXCEPT !.target = "all"]
  <1>1. IsTx(made) /\ made.kind = x.kind /\ made.asset = Asset /\ made.from = Entry
    BY DEF IsTx, TxFields, Remade, Priced, NewTx
  <1>2. /\ IsTx(held) /\ held.kind = x.kind /\ held.asset = Asset /\ held.from = Entry
        /\ held.coins = Own(Entry, Coin)
        /\ Asset # Coin => held.tokens = Balance(Entry, Asset, Nobody)
    <2> HIDE DEF made
    <2> QED BY <1>1, HoldingReads
  <1>3. Converted(x) = manual \/ Converted(x) = AllOrNothing(all)
    BY DEF Converted
  <1>4. Asset = Coin => owner = Nobody
    OBVIOUS
  <1> HIDE DEF held, owner
  <1>5. /\ IsTx(new) /\ new.kind = x.kind /\ new.asset = Asset /\ new.from = Entry
        /\ new.coins = held.coins /\ new.tokens = held.tokens /\ new.owner = owner
    BY <1>2 DEF IsTx, TxFields
  <1> HIDE DEF new
  <1>6. IsTx(manual) /\ Same(manual, new) /\ IsTx(all) /\ Same(all, new)
    BY <1>5 DEF IsTx, TxFields, Same
  <1> HIDE DEF manual, all
  <1>7. IsTx(AllOrNothing(all)) /\ Same(AllOrNothing(all), all)
    BY <1>6, RebalancedSame
  <1>8. IsTx(Converted(x)) /\ Same(Converted(x), new)
    BY <1>3, <1>6, <1>7 DEF Same
  <1> HIDE DEF Same
  <1>9. ASSUME owner = Nobody PROVE Fits(Converted(x))
    BY <1>2, <1>5, <1>8, <1>9 DEF Fits, Same
  <1> QED BY <1>4, <1>5, <1>8, <1>9 DEF Same

(* Another asset of a recovery: the balance read is the sender's.          *)
LEMMA RecoveryFits ==
  ASSUME NEW x, IsTx(x)
  PROVE  /\ IsTx(RecoveryConverted(x)) /\ RecoveryConverted(x).kind = x.kind
         /\ Fits(RecoveryConverted(x))
  <1> DEFINE made == Remade(x)
             held == Holding(made, Entry, Asset, Nobody)
             all == [held EXCEPT !.target = "all"]
  <1>1. /\ IsTx(made) /\ made.kind = x.kind /\ made.asset = Asset /\ made.from = Entry
        /\ made.owner = Nobody
    BY DEF IsTx, TxFields, Remade, Priced, NewTx
  <1>2. /\ IsTx(held) /\ held.kind = x.kind /\ held.asset = Asset /\ held.from = Entry
        /\ held.owner = Nobody /\ held.coins = Own(Entry, Coin)
        /\ Asset # Coin => held.tokens = Balance(Entry, Asset, Nobody)
    <2> HIDE DEF made
    <2> QED BY <1>1, HoldingReads
  <1>3. RecoveryConverted(x) = Rebalanced(all)
    BY DEF RecoveryConverted
  <1> HIDE DEF held
  <1>4. IsTx(all) /\ Same(all, held)
    BY <1>2 DEF IsTx, TxFields, Same
  <1> HIDE DEF all
  <1>5. IsTx(Rebalanced(all)) /\ Same(Rebalanced(all), all)
    BY <1>4, RebalancedSame
  <1> QED BY <1>2, <1>3, <1>4, <1>5 DEF Fits, Same

(* Another token: a conversion by the entry fits its balances still.       *)
LEMMA RetokenedFits ==
  ASSUME NEW x, IsTx(x)
  PROVE  /\ IsTx(Retokened(x)) /\ Retokened(x).kind = x.kind
         /\ Retokened(x).owner = x.owner /\ Retokened(x).from = x.from
         /\ x.kind = "convert" /\ x.owner = Nobody /\ x.from = Entry => Fits(Retokened(x))
  <1> DEFINE asset == IF x.kind = "approve" /\ Asset = Coin THEN Head(Tokens) ELSE Asset
             token == IF asset = Coin THEN Wrapped ELSE asset
             y == [x EXCEPT !.asset = asset]
             held == Holding(y, Entry, token, Nobody)
  <1>1. x.kind = "convert" => asset = Asset
    OBVIOUS
  <1>2. Retokened(x) = Rebalanced(held)
    BY DEF Retokened
  <1>3. asset # Coin => token = asset
    OBVIOUS
  <1> HIDE DEF asset, token
  <1>4. /\ IsTx(y) /\ y.kind = x.kind /\ y.asset = asset /\ y.from = x.from /\ y.owner = x.owner
    BY DEF IsTx, TxFields
  <1>5. /\ IsTx(held) /\ held.kind = x.kind /\ held.asset = asset /\ held.from = x.from
        /\ held.owner = x.owner /\ held.coins = Own(Entry, Coin)
        /\ asset # Coin => held.tokens = Balance(Entry, asset, Nobody)
    <2> HIDE DEF y
    <2>1. token # Coin => held.tokens = Balance(Entry, token, Nobody)
      BY <1>4, HoldingReads
    <2> QED BY <1>3, <1>4, <2>1, HoldingReads
  <1> HIDE DEF held
  <1>6. IsTx(Rebalanced(held)) /\ Same(Rebalanced(held), held)
    BY <1>5, RebalancedSame
  <1> QED BY <1>2, <1>5, <1>6 DEF Fits, Same

(* The object on the screen.                                               *)
LEMMA ScreenFacts ==
  ASSUME PageShapes, OwnersLend
  PROVE  /\ IsTx(Screen) /\ Lends(Screen)
         /\ Screen.kind = IF stash.tx = NoTx THEN "transfer" ELSE stash.tx.kind
         /\ Screen.kind = "transfer" => Screen.asset = Asset
         /\ Screen.kind \in Replacing => Screen = stash.tx
  <1>1. CASE stash.tx = NoTx
    <2>1. Screen = Fresh
      BY <1>1 DEF Screen, NoTx
    <2> QED BY <1>1, <2>1, FreshFits DEF Lends, Replacing
  <1>2. CASE stash.tx # NoTx
    <2> DEFINE x == stash.tx
    <2>1. IsTx(x) /\ Lends(x)
      BY <1>2 DEF PageShapes, IsStash, OwnersLend
    <2>2. IsTx(MergedFee(x)) /\ Same(MergedFee(x), x)
      BY <2>1, MergedFeeSame
    <2>3. CASE x.kind = "transfer" /\ Asset # x.asset
      <3>1. Screen = Converted(x)
        BY <1>2, <2>3 DEF Screen
      <3> QED BY <1>2, <2>1, <2>3, <3>1, ConvertedFits DEF Lends, Replacing
    <2>4. CASE x.kind = "transfer" /\ Asset = x.asset
      <3>1. Screen = Merged(MergedFee(x))
        BY <1>2, <2>4 DEF Screen
      <3>2. /\ MergedFee(x).kind = "transfer" /\ MergedFee(x).asset = Asset
            /\ MergedFee(x).asset = Coin => MergedFee(x).owner = Nobody
        BY <2>1, <2>2, <2>4 DEF Same, Lends
      <3> QED BY <1>2, <2>2, <2>4, <3>1, <3>2, MergedFits DEF Lends, Replacing
    <2>5. CASE x.kind \in {"approve", "convert"}
      <3>1. Screen = Retokened(x) \/ Screen = MergedFee(x)
        BY <1>2, <2>5 DEF Screen
      <3> QED BY <1>2, <2>1, <2>2, <2>5, <3>1, RetokenedFits DEF Lends, Replacing, Same
    <2>6. CASE x.kind = "recovery"
      <3>1. Screen = RecoveryConverted(x) \/ Screen = MergedFee(x)
        BY <1>2, <2>6 DEF Screen
      <3> QED BY <1>2, <2>1, <2>2, <2>6, <3>1, RecoveryFits DEF Lends, Replacing, Same
    <2>7. CASE x.kind \in Replacing
      <3>1. Screen = x
        BY <1>2, <2>7 DEF Screen, Replacing
      <3> QED BY <1>2, <2>1, <2>7, <3>1 DEF Replacing
    <2> QED BY <2>1, <2>3, <2>4, <2>5, <2>6, <2>7 DEF IsTx, Kinds, Replacing
  <1> QED BY <1>1, <1>2

(* Its balances are those of its sender and owner, if they were so before. *)
LEMMA ScreenBalanced ==
  ASSUME PageShapes, OwnersLend, ~Misread,
         stash.tx # NoTx /\ stash.tx.kind \in Money =>
           Fits(stash.tx) /\ (stash.tx.kind = "convert" => stash.tx.from = Entry)
  PROVE  Screen.kind \in Money =>
           Fits(Screen) /\ (Screen.kind = "convert" => Screen.from = Entry)
  <1>1. CASE stash.tx = NoTx
    <2>1. Screen = Fresh
      BY <1>1 DEF Screen, NoTx
    <2> QED BY <2>1, FreshFits
  <1>2. CASE stash.tx # NoTx
    <2> DEFINE x == stash.tx
    <2>1. IsTx(x) /\ Lends(x)
      BY <1>2 DEF PageShapes, IsStash, OwnersLend
    <2>2. IsTx(MergedFee(x)) /\ Same(MergedFee(x), x)
      BY <2>1, MergedFeeSame
    <2>0. Fits(x) => Fits(MergedFee(x))
      BY <2>2 DEF Fits, Same
    <2>3. CASE x.kind = "transfer" /\ Asset # x.asset
      <3>1. Screen = Converted(x)
        BY <1>2, <2>3 DEF Screen
      <3>2. Screen.owner = Nobody
        BY <2>3 DEF Misread
      <3> QED BY <2>1, <2>3, <3>1, <3>2, ConvertedFits
    <2>4. CASE x.kind = "transfer" /\ Asset = x.asset
      <3>1. Screen = Merged(MergedFee(x))
        BY <1>2, <2>4 DEF Screen
      <3>2. /\ MergedFee(x).kind = "transfer" /\ MergedFee(x).asset = Asset
            /\ MergedFee(x).asset = Coin => MergedFee(x).owner = Nobody
        BY <2>1, <2>2, <2>4 DEF Same, Lends
      <3>3. Fits(MergedFee(x))
        BY <1>2, <2>0, <2>4 DEF Money
      <3> QED BY <2>2, <3>1, <3>2, <3>3, MergedFits
    <2>5. CASE x.kind = "convert"
      <3>1. Screen = Retokened(x) \/ Screen = MergedFee(x)
        BY <1>2, <2>5 DEF Screen
      <3>2. Fits(x) /\ x.from = Entry
        BY <1>2, <2>5 DEF Money
      <3>3. x.owner = Nobody
        BY <2>1, <2>5 DEF Lends
      <3>4. MergedFee(x).from = x.from
        BY <2>2 DEF Same
      <3> QED BY <2>0, <2>1, <2>5, <3>1, <3>2, <3>3, <3>4, RetokenedFits
    <2>6. CASE x.kind = "recovery"
      <3>1. Screen = RecoveryConverted(x) \/ Screen = MergedFee(x)
        BY <1>2, <2>6 DEF Screen
      <3>2. Fits(x)
        BY <1>2, <2>6 DEF Money
      <3>3. MergedFee(x).kind = "recovery"
        BY <2>2, <2>6 DEF Same
      <3> QED BY <2>0, <2>1, <2>6, <3>1, <3>2, <3>3, RecoveryFits
    <2>7. CASE x.kind \notin Money
      <3>1. Screen.kind = x.kind
        BY <1>2, ScreenFacts
      <3> QED BY <2>7, <3>1
    <2> QED BY <2>3, <2>4, <2>5, <2>6, <2>7 DEF Money
  <1> QED BY <1>1, <1>2

(* A transfer whose asset and owner stay keeps its call and its gas.       *)
LEMMA ScreenCall ==
  ASSUME PageShapes, OwnersLend, stash.tx # NoTx, stash.tx.kind = "transfer", ScreenKept
  PROVE  /\ Screen.gas = stash.tx.gas /\ Screen.to = stash.tx.to
         /\ Method(Screen) = Method(stash.tx)
  <1> DEFINE x == stash.tx
  <1>1. IsTx(x) /\ Lends(x)
    BY DEF PageShapes, IsStash, OwnersLend
  <1>2. IsTx(MergedFee(x)) /\ Same(MergedFee(x), x)
    BY <1>1, MergedFeeSame
  <1>3. Screen = Merged(MergedFee(x))
    BY DEF Screen, ScreenKept
  <1>4. /\ MergedFee(x).kind = "transfer" /\ MergedFee(x).asset = Asset
        /\ MergedFee(x).asset = Coin => MergedFee(x).owner = Nobody
    BY <1>1, <1>2 DEF Same, Lends, ScreenKept
  <1>5. /\ Screen.kind = x.kind /\ Screen.asset = x.asset /\ Screen.to = x.to
        /\ Screen.gas = x.gas /\ Screen.owner = IF Asset = Coin THEN Nobody ELSE stash.owner
    BY <1>2, <1>3, <1>4, MergedFits DEF Same, ScreenKept
  <1>6. Screen.owner = x.owner
    BY <1>1, <1>5 DEF ScreenKept, Lends
  <1> QED BY <1>5, <1>6 DEF Method

(* What a page, or another entry, starts with.                             *)
LEMMA PreparedFits ==
  ASSUME NEW purpose \in {"approve", "convert", "recovery"}, NEW e
  PROVE  LET x == PreparedTx(purpose, e)
         IN IsTx(x) /\ x.kind = purpose /\ x.from = e /\ x.owner = Nobody
            /\ (purpose \in Money => Fits(x))
  <1>1. CASE purpose = "approve"
    <2> DEFINE new == NewTx("approve", Head(Tokens))
               y == [new EXCEPT !.from = e, !.target = Kept("approve")]
               held == Holding(y, e, Head(Tokens), Nobody)
    <2>1. IsTx(new) /\ new.kind = "approve" /\ new.owner = Nobody
      BY DEF IsTx, TxFields, NewTx, Kinds
    <2>2. PreparedTx(purpose, e) = Rebalanced(held)
      BY <1>1 DEF PreparedTx, PreparedApprove
    <2> HIDE DEF new
    <2>3. IsTx(y) /\ y.kind = "approve" /\ y.owner = Nobody /\ y.from = e
      BY <2>1 DEF IsTx, TxFields
    <2> HIDE DEF y
    <2>4. IsTx(held) /\ held.kind = "approve" /\ held.owner = Nobody /\ held.from = e
      BY <2>3, HoldingReads
    <2> HIDE DEF held
    <2> QED BY <1>1, <2>2, <2>4, RebalancedSame DEF Same, Money
  <1>2. CASE purpose = "convert"
    <2> DEFINE new == NewTx("convert", Coin)
               y == [new EXCEPT !.from = e, !.target = Kept("convert")]
               held == Holding(y, e, Wrapped, Nobody)
    <2>1. IsTx(new) /\ new.kind = "convert" /\ new.owner = Nobody /\ new.asset = Coin
      BY DEF IsTx, TxFields, NewTx, Kinds
    <2>2. PreparedTx(purpose, e) = held
      BY <1>2 DEF PreparedTx, PreparedConvert
    <2> HIDE DEF new
    <2>3. IsTx(y) /\ y.kind = "convert" /\ y.owner = Nobody /\ y.from = e /\ y.asset = Coin
      BY <2>1 DEF IsTx, TxFields
    <2> HIDE DEF y
    <2>4. /\ IsTx(held) /\ held.kind = "convert" /\ held.owner = Nobody /\ held.from = e
          /\ held.asset = Coin /\ held.coins = Own(e, Coin)
      BY <2>3, HoldingReads
    <2> QED BY <1>2, <2>2, <2>4 DEF Fits
  <1>3. CASE purpose = "recovery"
    <2> DEFINE some == {t \in ToSet(Tokens) : Own(e, t) > 0}
               asset == IF some = {} THEN Coin ELSE First(Tokens, some)
               new == NewTx("recovery", asset)
               to == First(Entries, Senders("recovery"))
               y == [new EXCEPT !.from = e, !.target = "all", !.to = to]
               held == Holding(y, e, asset, Nobody)
    <2>2. PreparedTx(purpose, e) = Rebalanced(held)
      BY <1>3 DEF PreparedTx, PreparedRecovery
    <2> HIDE DEF asset, to
    <2>1. IsTx(new) /\ new.kind = "recovery" /\ new.owner = Nobody /\ new.asset = asset
      BY DEF IsTx, TxFields, NewTx, Kinds
    <2> HIDE DEF new
    <2>3. IsTx(y) /\ y.kind = "recovery" /\ y.owner = Nobody /\ y.from = e /\ y.asset = asset
      BY <2>1 DEF IsTx, TxFields
    <2> HIDE DEF y
    <2>4. /\ IsTx(held) /\ held.kind = "recovery" /\ held.owner = Nobody /\ held.from = e
          /\ held.asset = asset /\ held.coins = Own(e, Coin)
          /\ asset # Coin => held.tokens = Balance(e, asset, Nobody)
      BY <2>3, HoldingReads
    <2> HIDE DEF held
    <2>5. IsTx(Rebalanced(held)) /\ Same(Rebalanced(held), held)
      BY <2>4, RebalancedSame
    <2> QED BY <1>3, <2>2, <2>4, <2>5 DEF Fits, Same
  <1> QED BY <1>1, <1>2, <1>3

(* A replacement is what waits, in its place.                              *)
LEMMA RestoredIsOriginal ==
  ASSUME NEW purpose \in Replacing, NEW o
  PROVE  LET x == RestoredTx(purpose, o)
         IN IsTx(x) /\ x.kind = purpose /\ x.from = o.from
            /\ x.nonce = o.nonce /\ PricedAs(x, o)
  BY DEF RestoredTx, NewTx, IsTx, TxFields, Kinds, Replacing, PricedAs

(* Lists: one more at the end, or one less.                                *)
LEMMA Appended ==
  ASSUME NEW list, NEW x, IsList(list)
  PROVE  /\ IsList(Append(list, x)) /\ Append(list, x) # <<>>
         /\ Append(list, x)[Len(Append(list, x))] = x
  <1> DEFINE S == {list[i] : i \in DOMAIN list}
             T == S \cup {x}
             more == Append(list, x)
  <1>1. list \in Seq(S) /\ list \in Seq(T) /\ Len(list) \in Nat
    BY DEF IsList
  <1> HIDE DEF S
  <1>2. /\ more \in Seq(T) /\ Len(more) = Len(list) + 1 /\ more[Len(list) + 1] = x
        /\ DOMAIN more = 1..Len(more)
    BY <1>1
  <1> HIDE DEF T, more
  <1>3. more \in Seq({more[i] : i \in DOMAIN more})
    BY <1>2
  <1>4. more # <<>>
    BY <1>1, <1>2
  <1> QED BY <1>2, <1>3, <1>4 DEF IsList, more

(* ... or one less: the last stays the last.                               *)
LEMMA Removed ==
  ASSUME NEW list, IsList(list), NEW i \in DOMAIN list
  PROVE  /\ IsList(RemoveAt(list, i))
         /\ i < Len(list) => RemoveAt(list, i) # <<>> /\
                             RemoveAt(list, i)[Len(RemoveAt(list, i))] = list[Len(list)]
         /\ i = 1 /\ Len(list) = 1 => RemoveAt(list, i) = <<>>
         /\ Len(list) \in Nat /\ i \in 1..Len(list)
  <1> DEFINE S == {list[j] : j \in DOMAIN list}
             less == RemoveAt(list, i)
  <1>1. list \in Seq(S) /\ Len(list) \in Nat /\ DOMAIN list = 1..Len(list)
    BY DEF IsList
  <1> HIDE DEF S
  <1>2. i \in 1..Len(list)
    BY <1>1
  <1> DEFINE head == SubSeq(list, 1, i - 1)
             tail == SubSeq(list, i + 1, Len(list))
  <1>3. /\ head \in Seq(S) /\ Len(head) = i - 1
        /\ tail \in Seq(S) /\ Len(tail) = Len(list) - i
    <2>1. \A j \in 1..(i - 1) : list[j] \in S
      BY <1>1, <1>2
    <2>2. \A j \in (i + 1)..Len(list) : list[j] \in S
      BY <1>1, <1>2
    <2>3. head \in Seq(S) /\ Len(head) = IF 1 <= i - 1 THEN (i - 1) - 1 + 1 ELSE 0
      BY <1>1, <1>2, <2>1, SubSeqProperties
    <2>4. tail \in Seq(S) /\ Len(tail) = IF i + 1 <= Len(list) THEN Len(list) - (i + 1) + 1 ELSE 0
      BY <1>1, <1>2, <2>2, SubSeqProperties
    <2> QED BY <1>1, <1>2, <2>3, <2>4
  <1>4. less = head \o tail
    BY DEF RemoveAt
  <1>9. ASSUME i < Len(list) PROVE tail[Len(list) - i] = list[Len(list)]
    BY <1>1, <1>2, <1>9
  <1> HIDE DEF head, tail, less
  <1>5. less \in Seq(S) /\ Len(less) = Len(list) - 1 /\ DOMAIN less = 1..Len(less)
    <2>1. less \in Seq(S) /\ Len(less) = Len(head) + Len(tail)
      BY <1>3, <1>4, ConcatProperties
    <2>2. DOMAIN less = 1..Len(less)
      BY <2>1
    <2> QED BY <1>1, <1>2, <1>3, <2>1, <2>2
  <1>6. ASSUME i < Len(list) PROVE less # <<>> /\ less[Len(less)] = list[Len(list)]
    <2> DEFINE j == Len(list) - i
    <2>3. /\ j \in Nat /\ j > 0 /\ Len(tail) = j /\ Len(head) \in Nat
          /\ Len(head) + j = Len(list) - 1
      <3>1. i \in Int /\ Len(list) \in Int /\ 1 <= i
        BY <1>1, <1>2
      <3> HIDE DEF j
      <3>2. j = Len(list) - i
        BY DEF j
      <3> QED BY <1>3, <1>6, <3>1, <3>2
    <2> HIDE DEF j
    <2>4. \A k \in 1..(Len(head) + Len(tail)) :
            less[k] = IF k <= Len(head) THEN head[k] ELSE tail[k - Len(head)]
      BY <1>3, <1>4, ConcatProperties
    <2>5. less[Len(head) + j] = tail[j]
      BY <2>3, <2>4
    <2>1. less[Len(list) - 1] = tail[Len(list) - i]
      BY <2>3, <2>5 DEF j
    <2>2. less # <<>>
      BY <1>1, <1>2, <1>5, <1>6
    <2> QED BY <1>5, <1>6, <1>9, <2>1, <2>2
  <1>7. Len(list) = 1 => less = <<>>
    BY <1>5
  <1>8. less \in Seq({less[j] : j \in DOMAIN less})
    BY <1>5
  <1> QED BY <1>1, <1>2, <1>6, <1>7, <1>8 DEF IsList, less

-----------------------------------------------------------------------------
(* What steps have in common.  No doubt is taken back on a page.           *)
DoubtStays ==
  /\ doubt.moved => doubt'.moved
  /\ doubt.misread => doubt'.misread
  /\ doubt.strayed => doubt'.strayed
Unmoved == holdings' = holdings \/ doubt'.moved

(* What may be signed may still be, while the page stays.                  *)
LEMMA FinalStays ==
  ASSUME page' = page, DoubtStays, Unmoved
  PROVE  \A x : Final(x) => Final(x)'
  <1> SUFFICES ASSUME NEW x, Final(x) PROVE Final(x)'
    OBVIOUS
  <1>1. Payable(x)'
    <2>1. CASE holdings' = holdings
      <3>1. \A e, a, o : Own(e, a)' = Own(e, a) /\ Balance(e, a, o)' = Balance(e, a, o)
        BY <2>1 DEF Own, Balance
      <3> QED BY <3>1 DEF Final, Payable, DoubtStays
    <2>2. CASE doubt'.moved
      BY <2>2 DEF Payable
    <2> QED BY <2>1, <2>2 DEF Unmoved
  <1>2. Raises(x)'
    BY DEF Final, Raises, IsOriginal, PaysEnough, LegacyPrice, MaxGasPrice, Enough, DoubtStays
  <1> QED BY <1>1, <1>2 DEF Final

(* What is signed stays final while stage and transaction stay.            *)
LEMMA FinalRests ==
  ASSUME FinalSigned, page' = page, opened' = opened, signing' \subseteq signing,
         stash'.stage = stash.stage, stash'.signed = stash.signed,
         stash.stage = "setup" \/ stash'.tx = stash.tx, DoubtStays, Unmoved
  PROVE  FinalSigned'
  <1>1. \A x : Final(x) => Final(x)'
    BY FinalStays
  <1>2. SignedHere' => SignedHere
    BY DEF SignedHere
  <1> QED BY <1>1, <1>2 DEF FinalSigned

(* The stash and the page stay as they are.                                *)
LEMMA StashRests ==
  ASSUME EtherInv, UNCHANGED <<page, stash, opened>>, DoubtStays, Unmoved
  PROVE  OwnersLend' /\ KindOfPage' /\ BalancesFit' /\ ReplacesOriginal'
  <1>1. OwnersLend' /\ KindOfPage' /\ ReplacesOriginal'
    BY DEF EtherInv, OwnersLend, Lends, KindOfPage, ReplacesOriginal, Here, IsOriginal, DoubtStays,
           PaysEnough, OffersEnough, LegacyPrice, MaxGasPrice, PricedAs, Enough
  <1>2. BalancesFit'
    <2>1. CASE holdings' = holdings
      <3>1. \A e, a, o : Own(e, a)' = Own(e, a) /\ Balance(e, a, o)' = Balance(e, a, o)
        BY <2>1 DEF Own, Balance
      <3>2. Entry' = Entry
        BY <2>1, EntryStays
      <3> QED BY <3>1, <3>2 DEF EtherInv, BalancesFit, Fits, Here, DoubtStays
    <2>2. CASE doubt'.moved
      BY <2>2 DEF BalancesFit
    <2> QED BY <2>1, <2>2 DEF Unmoved
  <1> QED BY <1>1, <1>2

(* ... and so does what is asked for.                                      *)
LEMMA GasRests ==
  ASSUME EtherInv, UNCHANGED <<page, stash, estimates>>, doubt.guess => doubt'.guess,
         holdings' = holdings \/ doubt'.guess \/ stash.stage # "setup"
  PROVE  GasComes' /\ GasIsItsOwn'
  <1>1. GasIsItsOwn'
    BY DEF EtherInv, GasIsItsOwn
  <1>2. CASE stash.stage = "setup" /\ ~doubt'.guess
    <2>1. Asset' = Asset
      BY <1>2, AssetStays
    <2>2. GasComes
      BY DEF EtherInv
    <2> QED BY <1>1, <1>2, <2>1, <2>2 DEF GasComes, ScreenKept, Answers
  <1>3. CASE ~(stash.stage = "setup" /\ ~doubt'.guess)
    BY <1>1, <1>3 DEF GasComes
  <1> QED BY <1>2, <1>3

(* Fees arrive, or a request is rejected: nothing on the page changes.     *)
LEMMA FeesArriveKeep == EtherInv /\ FeesArrive => EtherInv'
  <1> SUFFICES ASSUME EtherInv, FeesArrive PROVE EtherInv'
    OBVIOUS
  <1>1. /\ fees' \in FeeRanges /\ restoring' = {[r EXCEPT !.fee = TRUE] : r \in restoring}
        /\ UNCHANGED <<page, stash, estimates, signing, holdings, opened, doubt>>
    BY DEF FeesArrive
  <1>2. DoubtStays /\ Unmoved
    BY <1>1 DEF DoubtStays, Unmoved
  <1>3. PageShapes'
    BY <1>1 DEF EtherInv, PageShapes
  <1>4. RestoresPage'
    <2>1. RestoresPage
      BY DEF EtherInv
    <2> DEFINE told(r) == [r EXCEPT !.fee = TRUE]
    <2>2. \A r \in restoring :
            /\ told(r) = [f \in RestoreFields |-> told(r)[f]]
            /\ told(r).page = r.page /\ told(r).of = r.of
      BY <2>1 DEF RestoresPage, RestoreFields
    <2>3. \A r, q \in restoring : told(r).page = told(q).page => told(r) = told(q)
      BY <2>1, <2>2 DEF RestoresPage
    <2>4. restoring' = {told(r) : r \in restoring}
      BY <1>1
    <2> HIDE DEF told
    <2> QED BY <1>1, <2>1, <2>2, <2>3, <2>4 DEF RestoresPage
  <1> QED BY <1>1, <1>2, <1>3, <1>4, StashRests, GasRests, FinalRests DEF EtherInv

(* A transaction to replace that cannot be read is given up.               *)
LEMMA RestoreFailsKeeps ==
  ASSUME NEW r \in restoring, EtherInv, RestoreFails(r)
  PROVE  EtherInv'
  <1>1. /\ restoring' = restoring \ {r}
        /\ UNCHANGED <<page, stash, fees, estimates, signing, holdings, opened, doubt>>
    BY DEF RestoreFails
  <1>2. DoubtStays /\ Unmoved
    BY <1>1 DEF DoubtStays, Unmoved
  <1>3. PageShapes' /\ RestoresPage'
    BY <1>1 DEF EtherInv, PageShapes, RestoresPage
  <1> QED BY <1>1, <1>2, <1>3, StashRests, GasRests, FinalRests DEF EtherInv

(* An estimate fails: the gas is a guess if it was the last.               *)
LEMMA EstimateFailsKeeps == EtherInv /\ EstimateFails => EtherInv'
  <1> SUFFICES ASSUME EtherInv, EstimateFails PROVE EtherInv'
    OBVIOUS
  <1>1. PICK i \in DOMAIN estimates :
          /\ estimates' = RemoveAt(estimates, i)
          /\ doubt' = [doubt EXCEPT !.guess = @ \/ (stash.stage = "setup" /\ i = Len(estimates))]
          /\ UNCHANGED <<page, stash, fees, restoring, signing, holdings, opened>>
    BY DEF EstimateFails
  <1>2. /\ doubt' \in Doubts /\ DoubtStays /\ Unmoved /\ doubt'.strayed = doubt.strayed
        /\ doubt'.guess = (doubt.guess \/ (stash.stage = "setup" /\ i = Len(estimates)))
    BY <1>1 DEF EtherInv, PageShapes, Doubts, DoubtStays, Unmoved
  <1>3. /\ IsList(estimates') /\ Len(estimates) \in Nat /\ i \in 1..Len(estimates)
        /\ i < Len(estimates) => /\ estimates' # <<>>
                                 /\ estimates'[Len(estimates')] = estimates[Len(estimates)]
    BY <1>1, Removed DEF EtherInv, PageShapes
  <1>4. PageShapes' /\ RestoresPage'
    BY <1>1, <1>2, <1>3 DEF EtherInv, PageShapes, RestoresPage
  <1>5. GasIsItsOwn'
    BY <1>1, <1>2 DEF EtherInv, GasIsItsOwn
  <1>6. GasComes'
    <2> SUFFICES ASSUME stash.stage = "setup", ~doubt'.guess
                 PROVE  GasComes'
      BY <1>1 DEF GasComes
    <2>4. ~doubt.guess /\ i # Len(estimates)
      BY <1>2
    <2>2. i < Len(estimates)
      BY <1>3, <2>4
    <2>5. estimates # <<>>
      BY <1>3
    <2>1. /\ stash.tx # NoTx
          /\ stash.tx.kind = "transfer" => ScreenKept /\ Answers(estimates[Len(estimates)], stash.tx)
      BY <2>4, <2>5 DEF EtherInv, GasComes
    <2>3. Asset' = Asset
      BY <1>1, AssetStays
    <2> QED BY <1>1, <1>3, <2>1, <2>2, <2>3 DEF GasComes, ScreenKept, Answers
  <1> QED BY <1>1, <1>2, <1>4, <1>5, <1>6, StashRests, FinalRests DEF EtherInv

(* A balance that moves is a doubt.                                        *)
LEMMA BalanceMovesKeeps == EtherInv /\ BalanceMoves => EtherInv'
  <1> SUFFICES ASSUME EtherInv, BalanceMoves PROVE EtherInv'
    OBVIOUS
  <1>1. /\ doubt' = [doubt EXCEPT !.moved = TRUE, !.guess = @ \/ stash.stage = "setup"]
        /\ UNCHANGED <<page, stash, fees, estimates, restoring, signing, opened>>
    BY DEF BalanceMoves
  <1>2. /\ doubt' \in Doubts /\ DoubtStays /\ Unmoved /\ doubt'.strayed = doubt.strayed
        /\ doubt'.guess = (doubt.guess \/ stash.stage = "setup")
    BY <1>1 DEF EtherInv, PageShapes, Doubts, DoubtStays, Unmoved
  <1>3. PageShapes' /\ RestoresPage'
    BY <1>1, <1>2 DEF EtherInv, PageShapes, RestoresPage
  <1>4. GasComes' /\ GasIsItsOwn'
    BY <1>1, <1>2, GasRests
  <1> QED BY <1>1, <1>2, <1>3, <1>4, StashRests, FinalRests DEF EtherInv

-----------------------------------------------------------------------------
(* Signing: what is given to the vault is final.                           *)
LEMMA StartSignKeeps == EtherInv /\ StartSign => EtherInv'
  <1> SUFFICES ASSUME EtherInv, StartSign PROVE EtherInv'
    OBVIOUS
  <1> DEFINE s == [page |-> opened, entry |-> stash.entry, tx |-> stash.tx]
  <1>1. /\ page # Closed /\ stash.stage = "sign" /\ signing' = signing \cup {s}
        /\ UNCHANGED <<page, stash, fees, estimates, restoring, holdings, opened, doubt>>
    BY DEF StartSign
  <1>2. DoubtStays /\ Unmoved
    BY <1>1 DEF DoubtStays, Unmoved
  <1>3. PageShapes' /\ RestoresPage'
    BY <1>1 DEF EtherInv, PageShapes, RestoresPage
  <1>4. FinalSigned'
    <2>1. FinalSigned
      BY DEF EtherInv
    <2>2. \A x : Final(x) => Final(x)'
      BY <1>1, <1>2, FinalStays
    <2>3. SignedHere' = SignedHere
      BY <1>1 DEF SignedHere
    <2>4. opened \in 1..opened
      <3>1. opened \in Nat
        BY DEF EtherInv, PageShapes
      <3>2. opened # 0
        BY <1>1 DEF EtherInv, PageShapes
      <3> QED BY <3>1, <3>2
    <2> QED BY <1>1, <2>1, <2>2, <2>3, <2>4 DEF FinalSigned
  <1> QED BY <1>1, <1>2, <1>3, <1>4, StashRests, GasRests DEF EtherInv

(* The vault may refuse: nothing was signed.                               *)
LEMMA SignFailsKeeps == EtherInv /\ SignFails => EtherInv'
  <1> SUFFICES ASSUME EtherInv, SignFails PROVE EtherInv'
    OBVIOUS
  <1>1. /\ signing' \subseteq signing
        /\ UNCHANGED <<page, stash, fees, estimates, restoring, holdings, opened, doubt>>
    BY DEF SignFails
  <1>2. DoubtStays /\ Unmoved
    BY <1>1 DEF DoubtStays, Unmoved
  <1>3. PageShapes' /\ RestoresPage'
    BY <1>1 DEF EtherInv, PageShapes, RestoresPage
  <1> QED BY <1>1, <1>2, <1>3, StashRests, GasRests, FinalRests DEF EtherInv

(* A signature that arrives is of this page, or it ends another.           *)
LEMMA SignArrivesKeeps == EtherInv /\ SignArrives => EtherInv'
  <1> SUFFICES ASSUME EtherInv, SignArrives PROVE EtherInv'
    OBVIOUS
  <1>1. PICK s \in signing :
          /\ signing' = signing \ {s}
          /\ stash' = [stash EXCEPT !.signed = IF stash.stage = "sign" THEN s ELSE @,
                                    !.stage = "broadcast"]
          /\ UNCHANGED <<page, fees, estimates, restoring, holdings, opened, doubt>>
    BY DEF SignArrives
  <1>2. /\ IsStash(stash') /\ stash'.stage = "broadcast" /\ stash'.tx = stash.tx
        /\ stash'.preparing = stash.preparing
        /\ stash'.signed = IF stash.stage = "sign" THEN s ELSE stash.signed
    BY <1>1 DEF EtherInv, PageShapes, IsStash, StashFields
  <1>3. PageShapes' /\ RestoresPage'
    BY <1>1, <1>2 DEF EtherInv, PageShapes, RestoresPage
  <1>4. OwnersLend' /\ KindOfPage'
    BY <1>1, <1>2 DEF EtherInv, OwnersLend, Lends, KindOfPage, Here
  <1>5. BalancesFit' /\ ReplacesOriginal' /\ GasComes' /\ GasIsItsOwn'
    BY <1>2 DEF BalancesFit, ReplacesOriginal, GasComes, GasIsItsOwn
  <1>6. FinalSigned'
    <2>1. FinalSigned
      BY DEF EtherInv
    <2>2. \A x : Final(x) => Final(x)'
      BY <1>1, FinalStays DEF DoubtStays, Unmoved
    <2>3. \A t \in signing' : t \in signing
      BY <1>1
    <2>4. CASE stash.stage = "sign"
      BY <1>1, <1>2, <2>1, <2>2, <2>3, <2>4 DEF FinalSigned, SignedHere
    <2>5. CASE stash.stage # "sign"
      <3>1. SignedHere' = SignedHere
        BY <1>1, <1>2, <2>5 DEF SignedHere
      <3> QED BY <1>1, <1>2, <2>1, <2>2, <2>3, <2>5, <3>1 DEF FinalSigned
    <2> QED BY <2>4, <2>5
  <1> QED BY <1>3, <1>4, <1>5, <1>6 DEF EtherInv

(* A page that is left takes nothing with it.                              *)
LEMMA LeaveKeeps == EtherInv /\ Leave => EtherInv'
  <1> SUFFICES ASSUME EtherInv, Leave PROVE EtherInv'
    OBVIOUS
  <1>1. /\ page' = Closed /\ stash' = Blank /\ doubt' = NoDoubt
        /\ UNCHANGED <<fees, estimates, restoring, signing, opened>>
    BY DEF Leave
  <1>2. /\ IsStash(Blank) /\ Blank.stage = "setup" /\ Blank.tx = NoTx /\ Blank.signed = NoTx
    BY DEF Blank, IsStash, StashFields
  <1>3. NoDoubt \in Doubts /\ NoDoubt.guess = TRUE
    BY DEF NoDoubt, Doubts
  <1>4. PageShapes' /\ RestoresPage'
    BY <1>1, <1>2, <1>3 DEF EtherInv, PageShapes, RestoresPage
  <1>5. OwnersLend' /\ KindOfPage' /\ BalancesFit' /\ ReplacesOriginal' /\ GasComes' /\ GasIsItsOwn'
    BY <1>1, <1>2, <1>3
    DEF OwnersLend, KindOfPage, BalancesFit, ReplacesOriginal, GasComes, GasIsItsOwn, Here
  <1>6. FinalSigned'
    BY <1>1, <1>2 DEF EtherInv, FinalSigned, SignedHere
  <1> QED BY <1>4, <1>5, <1>6 DEF EtherInv

(* "Create Transaction": what the screen shows is final.                   *)
LEMMA ScreenIsPayable ==
  ASSUME EtherInv, page # Closed, stash.stage = "setup", Validates(Screen), Screen.kind \in Money,
         ~doubt.moved, ~doubt.misread, ~Misread, ~doubt.strayed
  PROVE  /\ Fits(Screen)
         /\ Covered(Screen, Own(Screen.from, Coin), Balance(Screen.from, Screen.asset, Screen.owner))
         /\ Screen.target = "all" =>
              IsAll(Screen, Own(Screen.from, Coin), Balance(Screen.from, Screen.asset, Screen.owner))
  <1> DEFINE x == Screen
  <1>1. Fits(x)
    BY ScreenBalanced DEF EtherInv, BalancesFit, Here
  <1>2. Covered(x, x.coins, x.tokens) /\ (x.target = "all" => IsAll(x, x.coins, x.tokens))
    <2>1. x.kind \notin {"cancel", "speedup"} /\ x.kind # "approve"
      BY DEF Money
    <2> HIDE DEF x
    <2> QED BY <2>1 DEF Validates, x
  <1> HIDE DEF x
  <1>3. CASE x.asset = Coin
    BY <1>1, <1>2, <1>3 DEF Fits, Covered, IsAll, x
  <1>4. CASE x.asset # Coin
    BY <1>1, <1>2, <1>4 DEF Fits, x
  <1> QED BY <1>1, <1>3, <1>4 DEF x

(* ... and is what the stash holds when signing starts.                    *)
LEMMA CreateTxKeeps == EtherInv /\ CreateTx => EtherInv'
  <1> SUFFICES ASSUME EtherInv, CreateTx PROVE EtherInv'
    OBVIOUS
  <1>1. /\ page # Closed /\ stash.stage = "setup" /\ ~stash.preparing /\ Validates(Screen)
        /\ stash' = [stash EXCEPT !.stage = "sign", !.entry = Entry, !.owner = Nobody, !.tx = Screen]
        /\ estimates' = Asked(Screen)
        /\ doubt' = [doubt EXCEPT !.guess = @ \/ estimates # <<>>, !.misread = @ \/ Misread]
        /\ UNCHANGED <<page, fees, restoring, signing, holdings, opened>>
    BY DEF CreateTx, Editing
  <1>2. /\ doubt' \in Doubts /\ doubt'.strayed = doubt.strayed /\ doubt'.moved = doubt.moved
        /\ doubt'.guess = (doubt.guess \/ estimates # <<>>)
        /\ doubt'.misread = (doubt.misread \/ Misread)
    BY <1>1 DEF EtherInv, PageShapes, Doubts, Misread
  <1>3. /\ IsTx(Screen) /\ Lends(Screen)
        /\ Screen.kind = IF stash.tx = NoTx THEN "transfer" ELSE stash.tx.kind
        /\ Screen.kind \in Replacing => Screen = stash.tx
    BY ScreenFacts DEF EtherInv
  <1>4. /\ IsStash(stash') /\ stash'.stage = "sign" /\ stash'.tx = Screen
        /\ stash'.preparing = stash.preparing /\ stash'.signed = stash.signed
    BY <1>1, <1>3 DEF EtherInv, PageShapes, IsStash, StashFields
  <1>5. IsList(estimates')
    BY <1>1, Appended DEF EtherInv, PageShapes, Asked
  <1>6. PageShapes' /\ RestoresPage'
    BY <1>1, <1>2, <1>4, <1>5 DEF EtherInv, PageShapes, RestoresPage
  <1>7. OwnersLend' /\ KindOfPage'
    BY <1>1, <1>2, <1>3, <1>4 DEF EtherInv, OwnersLend, Lends, KindOfPage, Here
  <1>8. BalancesFit' /\ ReplacesOriginal' /\ GasComes'
    BY <1>4 DEF BalancesFit, ReplacesOriginal, GasComes
  <1>9. GasIsItsOwn'
    <2> SUFFICES ASSUME Screen.kind = "transfer", ~doubt'.guess
                 PROVE  Screen.gas = GasOf(Call(Screen))
      BY <1>4 DEF GasIsItsOwn
    <2>1. /\ stash.tx # NoTx /\ stash.tx.kind = "transfer" /\ ScreenKept
          /\ stash.tx.gas = GasOf(Call(stash.tx))
      BY <1>1, <1>2, <1>3 DEF EtherInv, GasComes
    <2>2. /\ Screen.gas = stash.tx.gas /\ Screen.to = stash.tx.to
          /\ Method(Screen) = Method(stash.tx)
      BY <2>1, ScreenCall DEF EtherInv
    <2> QED BY <2>1, <2>2 DEF GasOf, Call
  <1>10. Payable(stash.tx)'
    <2>1. \A e, a, o : Own(e, a)' = Own(e, a) /\ Balance(e, a, o)' = Balance(e, a, o)
      BY <1>1 DEF Own, Balance
    <2>2. (Screen.kind \in Money /\ ~doubt'.moved /\ ~doubt'.misread /\ ~doubt'.strayed) =>
             /\ Covered(Screen, Own(Screen.from, Coin),
                        Balance(Screen.from, Screen.asset, Screen.owner))
             /\ Screen.target = "all" =>
                  IsAll(Screen, Own(Screen.from, Coin),
                        Balance(Screen.from, Screen.asset, Screen.owner))
      BY <1>1, <1>2, ScreenIsPayable
    <2> QED BY <1>4, <2>1, <2>2 DEF Payable
  <1>11. Raises(stash.tx)'
    <2> SUFFICES ASSUME ~doubt'.strayed, Screen.kind \in Replacing
                 PROVE  IsOriginal(stash.tx)' /\ PaysEnough(stash.tx)'
      BY <1>4 DEF Raises
    <2>1. /\ Screen = stash.tx /\ stash.tx # NoTx
          /\ IsOriginal(stash.tx) /\ PaysEnough(stash.tx)
      BY <1>1, <1>2, <1>3 DEF EtherInv, ReplacesOriginal, Here, Replacing
    <2> QED BY <1>1, <1>4, <2>1 DEF IsOriginal, PaysEnough, LegacyPrice, MaxGasPrice, Enough
  <1>12. FinalSigned'
    <2>1. SignedHere' = SignedHere
      BY <1>1, <1>4 DEF SignedHere
    <2>2. stash'.tx # NoTx
      BY <1>3, <1>4, NoTxIsNone
    <2>3. FinalSigned
      BY DEF EtherInv
    <2>4. Final(stash.tx)'
      BY <1>10, <1>11 DEF Final
    <2> QED BY <1>1, <1>4, <2>1, <2>2, <2>3, <2>4 DEF FinalSigned
  <1> QED BY <1>6, <1>7, <1>8, <1>9, <1>12 DEF EtherInv

-----------------------------------------------------------------------------
(* The gas arrives: with the last estimate it is that of the call.         *)
LEMMA EstimateArrivesKeeps == EtherInv /\ EstimateArrives => EtherInv'
  <1> SUFFICES ASSUME EtherInv, EstimateArrives PROVE EtherInv'
    OBVIOUS
  <1>1. PICK i \in DOMAIN estimates :
          /\ estimates' = RemoveAt(estimates, i)
          /\ IF stash.stage = "setup" /\ stash.tx # NoTx
             THEN /\ stash' = [stash EXCEPT !.tx.gas = GasOf(estimates[i])]
                  /\ doubt' = [doubt EXCEPT !.guess = @ \/ i > 1]
             ELSE UNCHANGED <<stash, doubt>>
          /\ UNCHANGED <<page, fees, restoring, signing, holdings, opened>>
    BY DEF EstimateArrives
  <1>2. /\ IsList(estimates') /\ Len(estimates) \in Nat /\ i \in 1..Len(estimates)
        /\ i < Len(estimates) => /\ estimates' # <<>>
                                 /\ estimates'[Len(estimates')] = estimates[Len(estimates)]
        /\ i = 1 /\ Len(estimates) = 1 => estimates' = <<>>
    BY <1>1, Removed DEF EtherInv, PageShapes
  <1>3. CASE ~(stash.stage = "setup" /\ stash.tx # NoTx)
    <2>1. UNCHANGED <<page, stash, fees, restoring, signing, holdings, opened, doubt>>
      BY <1>1, <1>3
    <2>2. DoubtStays /\ Unmoved
      BY <2>1 DEF DoubtStays, Unmoved
    <2>3. PageShapes' /\ RestoresPage'
      BY <1>2, <2>1 DEF EtherInv, PageShapes, RestoresPage
    <2>4. GasComes' /\ GasIsItsOwn'
      BY <1>3, <2>1 DEF EtherInv, GasComes, GasIsItsOwn
    <2> QED BY <2>1, <2>2, <2>3, <2>4, StashRests, FinalRests DEF EtherInv
  <1>4. CASE stash.stage = "setup" /\ stash.tx # NoTx
    <2> DEFINE x == stash.tx
               y == [x EXCEPT !.gas = GasOf(estimates[i])]
    <2>1. stash' = [stash EXCEPT !.tx = y] /\ doubt' = [doubt EXCEPT !.guess = @ \/ i > 1]
      BY <1>1, <1>4 DEF EtherInv, PageShapes, IsStash, StashFields
    <2>2. IsTx(x)
      BY <1>4 DEF EtherInv, PageShapes, IsStash
    <2>3. /\ IsTx(y) /\ y.kind = x.kind /\ y.asset = x.asset /\ y.from = x.from
          /\ y.to = x.to /\ y.owner = x.owner /\ y.coins = x.coins /\ y.tokens = x.tokens
          /\ y.nonce = x.nonce /\ PricedAs(y, x) /\ y.gas = GasOf(estimates[i])
      BY <2>2 DEF IsTx, TxFields, PricedAs
    <2> HIDE DEF y
    <2>4. /\ IsStash(stash') /\ stash'.tx = y /\ stash'.stage = "setup"
          /\ stash'.preparing = stash.preparing /\ stash'.own = stash.own
          /\ stash'.entry = stash.entry /\ stash'.owner = stash.owner
          /\ stash'.asset = stash.asset /\ stash'.signed = stash.signed
      BY <1>4, <2>1, <2>3 DEF EtherInv, PageShapes, IsStash, StashFields
    <2>5. /\ doubt' \in Doubts /\ doubt'.strayed = doubt.strayed /\ doubt'.moved = doubt.moved
          /\ doubt'.misread = doubt.misread /\ doubt'.guess = (doubt.guess \/ i > 1)
          /\ DoubtStays /\ Unmoved
      BY <1>1, <2>1 DEF EtherInv, PageShapes, Doubts, DoubtStays, Unmoved
    <2>6. PageShapes' /\ RestoresPage'
      BY <1>1, <1>2, <2>4, <2>5 DEF EtherInv, PageShapes, RestoresPage
    <2>7. OwnersLend' /\ KindOfPage'
      BY <1>1, <1>4, <2>3, <2>4, <2>5 DEF EtherInv, OwnersLend, Lends, KindOfPage, Here
    <2>8. \A e, a, o : Own(e, a)' = Own(e, a) /\ Balance(e, a, o)' = Balance(e, a, o)
      BY <1>1 DEF Own, Balance
    <2>9. Entry' = Entry /\ Asset' = Asset
      BY <1>1, <2>4, AssetStays
    <2>10. BalancesFit'
      BY <1>1, <1>4, <2>3, <2>4, <2>5, <2>8, <2>9 DEF EtherInv, BalancesFit, Fits, Here
    <2>11. ReplacesOriginal'
      BY <1>1, <1>4, <2>3, <2>4, <2>5 
         DEF EtherInv, ReplacesOriginal, IsOriginal, Here,
             PaysEnough, OffersEnough, LegacyPrice, MaxGasPrice, PricedAs, Enough
    <2>12. GasIsItsOwn'
      BY <2>4 DEF GasIsItsOwn
    <2>13. GasComes'
      <3> SUFFICES ASSUME ~doubt'.guess, x.kind = "transfer"
                   PROVE  /\ y.asset = Asset' /\ (Asset' # Coin => y.owner = stash'.owner)
                          /\ IF estimates' = <<>> THEN y.gas = GasOf(Call(y))
                             ELSE Answers(estimates'[Len(estimates')], y)
        BY <1>4, <2>3, <2>4, NoTxIsNone DEF GasComes, ScreenKept
      <3>1. ~doubt.guess /\ i = 1
        <4>1. ~doubt.guess /\ ~(i > 1)
          BY <2>5
        <4> QED BY <1>2, <4>1
      <3>2. estimates # <<>>
        BY <1>2
      <3>3. ScreenKept /\ Answers(estimates[Len(estimates)], x)
        BY <1>4, <3>1, <3>2 DEF EtherInv, GasComes
      <3>4. Answers(estimates[Len(estimates)], y) /\ Method(y) = Method(x)
        BY <2>3, <3>3 DEF Answers, Method
      <3>5. CASE Len(estimates) = 1
        <4>1. estimates' = <<>> /\ y.gas = GasOf(estimates[Len(estimates)])
          BY <1>2, <2>3, <3>1, <3>5
        <4>2. GasOf(estimates[Len(estimates)]) = GasOf(Call(y))
          BY <3>4 DEF GasOf, Call, Answers
        <4> QED BY <2>3, <2>4, <2>9, <3>3, <4>1, <4>2 DEF ScreenKept
      <3>6. CASE Len(estimates) # 1
        <4>1. i < Len(estimates)
          BY <1>2, <3>1, <3>6
        <4> QED BY <1>2, <2>3, <2>4, <2>9, <3>3, <3>4, <4>1 DEF ScreenKept
      <3> QED BY <3>5, <3>6
    <2>14. FinalSigned'
      BY <1>1, <1>4, <2>4, <2>5, FinalRests DEF EtherInv
    <2> QED BY <2>6, <2>7, <2>10, <2>11, <2>12, <2>13, <2>14 DEF EtherInv
  <1> QED BY <1>3, <1>4

(* A page that is open for a replacement has an original.                  *)
LEMMA PageHasOriginal ==
  /\ \A p \in Pages : p.purpose \in Replacing => p.original \in EtherOriginals
  /\ \A p \in Pages : p.purpose \in Kinds
  BY DEF Pages, Replacing, Kinds

(* What is to be replaced is written into the stash, of whatever page.     *)
LEMMA RestoreArrivesKeeps ==
  ASSUME NEW r \in restoring, EtherInv, RestoreArrives(r)
  PROVE  EtherInv'
  <1> DEFINE f == [r EXCEPT !.found = TRUE]
  <1>1. /\ restoring' = (restoring \ {r}) \cup {f}
        /\ UNCHANGED <<page, fees, estimates, signing, holdings, opened>>
    BY DEF RestoreArrives
  <1>2. f = [g \in RestoreFields |-> f[g]] /\ f.page = r.page /\ f.of = r.of
    BY DEF EtherInv, RestoresPage, RestoreFields
  <1> HIDE DEF f
  <1>3. ASSUME stash'.preparing = stash.preparing, ~doubt'.strayed => ~doubt.strayed
        PROVE  RestoresPage'
    BY <1>1, <1>2, <1>3 DEF EtherInv, RestoresPage
  <1>4. CASE UNCHANGED <<stash, doubt>>
    <2>1. DoubtStays /\ Unmoved /\ PageShapes'
      BY <1>1, <1>4 DEF DoubtStays, Unmoved, EtherInv, PageShapes
    <2> QED BY <1>1, <1>3, <1>4, <2>1, StashRests, GasRests, FinalRests DEF EtherInv
  <1>5. CASE /\ stash.stage = "setup"
             /\ stash' = [stash EXCEPT !.tx = RestoredTx(r.of.purpose, r.of.original)]
             /\ doubt' = Stray(r.page)
    <2> DEFINE y == RestoredTx(r.of.purpose, r.of.original)
    <2>1. r.of \in Pages /\ r.of.purpose \in Replacing
      BY DEF EtherInv, RestoresPage
    <2>2. /\ IsTx(y) /\ y.kind = r.of.purpose /\ y.from = r.of.original.from
          /\ y.nonce = r.of.original.nonce /\ PricedAs(y, r.of.original)
      BY <2>1, RestoredIsOriginal
    <2>9. stash' = [stash EXCEPT !.tx = y]
      BY <1>5
    <2> HIDE DEF y
    <2>3. /\ IsStash(stash') /\ stash'.tx = y /\ stash'.stage = "setup"
          /\ stash'.preparing = stash.preparing /\ stash'.signed = stash.signed
      BY <1>5, <2>2, <2>9 DEF EtherInv, PageShapes, IsStash, StashFields
    <2>4. /\ doubt' \in Doubts /\ doubt'.guess = doubt.guess /\ doubt'.moved = doubt.moved
          /\ doubt'.misread = doubt.misread
          /\ doubt'.strayed = (doubt.strayed \/ page = Closed \/ r.page # opened)
      BY <1>5 DEF EtherInv, PageShapes, Doubts, Stray
    <2>5. DoubtStays /\ Unmoved
      BY <1>1, <2>4 DEF DoubtStays, Unmoved
    <2>6. PageShapes' /\ RestoresPage'
      BY <1>1, <1>3, <2>3, <2>4 DEF EtherInv, PageShapes
    <2>7. Here' => r.of = page /\ stash.preparing
      BY <1>1, <2>4 DEF Here, EtherInv, RestoresPage
    <2>8. OwnersLend' /\ KindOfPage'
      BY <1>1, <2>1, <2>2, <2>3, <2>7 DEF OwnersLend, Lends, KindOfPage, Replacing
    <2>10. BalancesFit' /\ GasIsItsOwn'
      BY <2>1, <2>2, <2>3 DEF BalancesFit, Money, Replacing, GasIsItsOwn
    <2>11. ReplacesOriginal'
      <3> SUFFICES ASSUME Here'
                   PROVE  IsOriginal(stash.tx)' /\ stash'.preparing /\ PricedAs(stash.tx, page.original)'
        BY <1>1, <2>3 DEF ReplacesOriginal
      <3>1. page.original \in EtherOriginals
        BY <2>1, <2>7, PageHasOriginal
      <3> QED BY <1>1, <2>2, <2>3, <2>7, <3>1 DEF IsOriginal, PricedAs
    <2>12. GasComes'
      BY <2>1, <2>2, <2>3, NoTxIsNone DEF GasComes, Replacing
    <2>13. FinalSigned'
      BY <1>1, <1>5, <2>3, <2>5, FinalRests DEF EtherInv
    <2> QED BY <2>6, <2>8, <2>10, <2>11, <2>12, <2>13 DEF EtherInv
  <1> QED BY <1>4, <1>5 DEF RestoreArrives

(* A tenth more, and half as much again, are enough.                       *)
LEMMA RaisedIsMore ==
  ASSUME NEW price \in Nat
  PROVE  /\ Raised(price) \in Int /\ (price * 15) \div 10 \in Int
         /\ 10 * (Raised(price) + 1) > 11 * price
         /\ 10 * ((price * 15) \div 10 + 1) > 11 * price
  BY DEF Raised

(* The greater of two is enough if the second is.                          *)
LEMMA GreaterIsMore ==
  ASSUME NEW a \in Int, NEW b \in Int, NEW bound \in Int, 10 * (b + 1) > bound
  PROVE  10 * (Greater(a, b) + 1) > bound
  BY DEF Greater

(* The fee of a replacement is computed: its page is ready.                *)
LEMMA RestoreEndsKeeps ==
  ASSUME NEW r \in restoring, EtherInv, RestoreEnds(r)
  PROVE  EtherInv'
  <1> DEFINE x == stash.tx
             low == Greater(fees.low, Raised(MaxGasPrice(x)))
             high == Greater(fees.high, (MaxGasPrice(x) * 15) \div 10)
             own == [low |-> low, std |-> low, high |-> high]
             price == IF stash.stage = "setup" THEN Raised(x.price) ELSE x.price
             spare == IF stash.stage = "setup" THEN Raised(x.spare) ELSE x.spare
             y == [x EXCEPT !.price = price, !.spare = spare]
  <1>1. /\ restoring' = restoring \ {r} /\ doubt' = Stray(r.page)
        /\ UNCHANGED <<page, fees, estimates, signing, holdings, opened>>
    BY DEF RestoreEnds
  <1>2. stash' = IF x = NoTx THEN [stash EXCEPT !.preparing = FALSE]
                 ELSE [stash EXCEPT !.preparing = FALSE, !.tx = y, !.own = own]
    BY DEF RestoreEnds, EtherInv, PageShapes, IsStash, StashFields
  <1>3. /\ doubt' \in Doubts /\ doubt'.guess = doubt.guess /\ doubt'.moved = doubt.moved
        /\ doubt'.misread = doubt.misread
        /\ doubt'.strayed = (doubt.strayed \/ page = Closed \/ r.page # opened)
    BY <1>1 DEF EtherInv, PageShapes, Doubts, Stray
  <1>4. DoubtStays /\ Unmoved
    BY <1>1, <1>3 DEF DoubtStays, Unmoved
  <1>5. Here' => page # Closed /\ r.page = opened /\ stash.preparing /\ ~doubt.strayed
    BY <1>1, <1>3 DEF Here, EtherInv, RestoresPage
  <1>6. RestoresPage'
    <2>1. ASSUME NEW q \in restoring', page # Closed, q.page = opened, ~doubt'.strayed
          PROVE  FALSE
      <3>1. q \in restoring /\ q # r
        BY <1>1, <2>1
      <3>2. q.page = r.page
        BY <1>3, <2>1
      <3> QED BY <3>1, <3>2 DEF EtherInv, RestoresPage
    <2> QED BY <1>1, <2>1 DEF EtherInv, RestoresPage
  <1>7. CASE x = NoTx
    <2>1. stash' = [stash EXCEPT !.preparing = FALSE]
      BY <1>2, <1>7
    <2>2. /\ IsStash(stash') /\ stash'.tx = NoTx /\ stash'.stage = stash.stage
          /\ stash'.signed = stash.signed
      BY <1>7, <2>1 DEF EtherInv, PageShapes, IsStash, StashFields
    <2>3. PageShapes'
      BY <1>1, <1>3, <2>2 DEF EtherInv, PageShapes
    <2>4. OwnersLend' /\ KindOfPage' /\ BalancesFit' /\ ReplacesOriginal'
      BY <2>2 DEF OwnersLend, KindOfPage, BalancesFit, ReplacesOriginal
    <2>5. GasComes' /\ GasIsItsOwn'
      <3>1. GasComes'
        BY <1>3, <1>7, <2>2 DEF EtherInv, GasComes
      <3>2. GasIsItsOwn'
        BY <1>7, <2>2 DEF EtherInv, FinalSigned, GasIsItsOwn
      <3> QED BY <3>1, <3>2
    <2>6. FinalSigned'
      BY <1>1, <1>4, <1>7, <2>2, FinalRests DEF EtherInv
    <2> QED BY <1>6, <2>3, <2>4, <2>5, <2>6 DEF EtherInv
  <1>8. CASE x # NoTx
    <2>1. stash' = [stash EXCEPT !.preparing = FALSE, !.tx = y, !.own = own]
      BY <1>2, <1>8
    <2>2. IsTx(x)
      BY <1>8 DEF EtherInv, PageShapes, IsStash
    <2>20. stash.stage # "setup" => price = x.price /\ spare = x.spare
      OBVIOUS
    <2>21. stash.stage = "setup" => price = Raised(x.price) /\ spare = Raised(x.spare)
      OBVIOUS
    <2> HIDE DEF price, spare, low, high
    <2>3. /\ IsTx(y) /\ y.kind = x.kind /\ y.asset = x.asset /\ y.from = x.from
          /\ y.to = x.to /\ y.owner = x.owner /\ y.coins = x.coins /\ y.tokens = x.tokens
          /\ y.nonce = x.nonce /\ y.gas = x.gas /\ y.price = price /\ y.spare = spare
          /\ y.eip1559 = x.eip1559
      BY <2>2 DEF IsTx, TxFields
    <2>4. stash.stage # "setup" => y = x
      BY <2>2, <2>20 DEF IsTx, TxFields
    <2> HIDE DEF y
    <2>5. own.low = low /\ own.std = low /\ own.high = high
      OBVIOUS
    <2> HIDE DEF own
    <2>6. /\ IsStash(stash') /\ stash'.tx = y /\ stash'.stage = stash.stage
          /\ stash'.preparing = FALSE /\ stash'.own = own
          /\ stash'.entry = stash.entry /\ stash'.owner = stash.owner
          /\ stash'.asset = stash.asset /\ stash'.signed = stash.signed
      BY <2>1, <2>3 DEF EtherInv, PageShapes, IsStash, StashFields
    <2>7. PageShapes'
      BY <1>1, <1>3, <2>6 DEF EtherInv, PageShapes
    <2>8. OwnersLend'
      BY <1>8, <2>3, <2>6 DEF EtherInv, OwnersLend, Lends
    <2>9. KindOfPage'
      BY <1>1, <1>3, <1>8, <2>3, <2>6 DEF EtherInv, KindOfPage, Here
    <2>10. \A e, a, o : Own(e, a)' = Own(e, a) /\ Balance(e, a, o)' = Balance(e, a, o)
      BY <1>1 DEF Own, Balance
    <2>11. Entry' = Entry /\ Asset' = Asset
      BY <1>1, <2>6, AssetStays
    <2>12. BalancesFit'
      BY <1>1, <1>3, <1>8, <2>3, <2>6, <2>10, <2>11 DEF EtherInv, BalancesFit, Fits, Here
    <2>13. Method(y) = Method(x) /\ GasOf(Call(y)) = GasOf(Call(x))
      BY <2>3 DEF Method, GasOf, Call
    <2>14. GasIsItsOwn'
      BY <1>1, <1>3, <2>4, <2>6 DEF EtherInv, GasIsItsOwn
    <2>15. GasComes'
      <3>1. GasComes
        BY DEF EtherInv
      <3> QED BY <1>1, <1>3, <2>3, <2>6, <2>11, <2>13, <3>1, NoTxIsNone
              DEF GasComes, ScreenKept, Answers
    <2>16. ReplacesOriginal'
      <3> DEFINE o == page.original
                 p == o.price
      <3> SUFFICES ASSUME Here', stash.stage = "setup", x.kind \in Replacing
                   PROVE  /\ IsOriginal(stash.tx)' /\ 10 * (price + 1) > 11 * p
                          /\ o.eip1559 => 10 * (low + 1) > 11 * p /\ 10 * (high + 1) > 11 * p
        <4>1. Here' /\ stash.stage = "setup" /\ x.kind \in Replacing => x.eip1559 = o.eip1559
          BY <1>5, <1>8 DEF EtherInv, ReplacesOriginal, Here, PricedAs
        <4>2. page' = page /\ stash'.tx = y /\ stash'.preparing = FALSE /\ stash'.own = own
          BY <1>1, <2>6
        <4>3. /\ Here' /\ stash.stage = "setup" /\ x.kind \in Replacing => y.eip1559 = o.eip1559
              /\ y.price = price
          BY <2>3, <4>1
        <4>4. IsOriginal(stash.tx)' /\ PaysEnough(stash.tx)' /\ OffersEnough' => ReplacesOriginal'
          BY <4>2 DEF ReplacesOriginal
        <4>5. y.eip1559 = o.eip1559 /\ 10 * (price + 1) > 11 * p => PaysEnough(stash.tx)'
          BY <4>2, <4>3 DEF PaysEnough, LegacyPrice, MaxGasPrice, Enough
        <4>6. (o.eip1559 => 10 * (low + 1) > 11 * p /\ 10 * (high + 1) > 11 * p) => OffersEnough'
          BY <2>5, <4>2 DEF OffersEnough, Enough
        <4>7. ReplacesOriginal' \/ (Here' /\ stash.stage = "setup" /\ x.kind \in Replacing)
          BY <2>3, <2>6, <4>2 DEF ReplacesOriginal
        <4> QED BY <4>3, <4>4, <4>5, <4>6, <4>7
      <3>1. IsOriginal(x) /\ PricedAs(x, o)
        BY <1>5, <1>8 DEF EtherInv, ReplacesOriginal, Here
      <3>2. IsOriginal(stash.tx)'
        BY <1>1, <2>3, <2>6, <3>1 DEF IsOriginal
      <3>3. p \in Nat
        BY <3>1, PriceAssumption DEF IsOriginal
      <3>4. fees.low \in Int /\ fees.high \in Int
        BY PriceAssumption DEF EtherInv, PageShapes, NoFees
      <3>5. x.price = p /\ (o.eip1559 => MaxGasPrice(x) = p)
        BY <3>1 DEF PricedAs, MaxGasPrice
      <3> HIDE DEF p, o
      <3>6. 10 * (price + 1) > 11 * p
        BY <2>21, <3>3, <3>5, RaisedIsMore
      <3>7. ASSUME o.eip1559 PROVE 10 * (low + 1) > 11 * p
        <4> DEFINE b == Raised(p)
        <4>1. b \in Int /\ 10 * (b + 1) > 11 * p /\ 11 * p \in Int
          BY <3>3, RaisedIsMore
        <4>2. low = Greater(fees.low, b)
          BY <3>5, <3>7 DEF low
        <4> HIDE DEF b
        <4> QED BY <3>4, <4>1, <4>2, GreaterIsMore
      <3>8. ASSUME o.eip1559 PROVE 10 * (high + 1) > 11 * p
        <4> DEFINE b == (p * 15) \div 10
        <4>1. b \in Int /\ 10 * (b + 1) > 11 * p /\ 11 * p \in Int
          BY <3>3, RaisedIsMore
        <4>2. high = Greater(fees.high, b)
          BY <3>5, <3>8 DEF high
        <4> HIDE DEF b
        <4> QED BY <3>4, <4>1, <4>2, GreaterIsMore
      <3> QED BY <3>2, <3>6, <3>7, <3>8
    <2>17. FinalSigned'
      BY <1>1, <1>4, <2>4, <2>6, FinalRests DEF EtherInv
    <2> QED BY <1>6, <2>7, <2>8, <2>9, <2>12, <2>14, <2>15, <2>16, <2>17 DEF EtherInv
  <1> QED BY <1>7, <1>8

-----------------------------------------------------------------------------
(* An edit makes another transaction of the object on the screen.          *)
Edited(tx) ==
  /\ IsTx(tx)
  /\ tx.kind = Screen.kind /\ tx.asset = Screen.asset /\ tx.from = Screen.from
  /\ tx.owner = Screen.owner /\ tx.coins = Screen.coins /\ tx.tokens = Screen.tokens
  /\ tx.nonce = Screen.nonce
  /\ Here /\ tx.kind \in Replacing => PaysEnough(tx)

(* Storing an edit keeps the invariant: the balances stay those read.      *)
LEMMA StoreKeeps ==
  ASSUME NEW tx, EtherInv, Store(tx), Edited(tx)
  PROVE  EtherInv'
  <1>1. /\ page # Closed /\ stash.stage = "setup" /\ ~stash.preparing
        /\ stash' = [stash EXCEPT !.tx = tx] /\ estimates' = Asked(tx)
        /\ doubt' = [doubt EXCEPT !.guess = ~Asks(tx) \/ Outlived(tx), !.misread = @ \/ Misread]
        /\ UNCHANGED <<page, fees, restoring, signing, holdings, opened>>
    BY DEF Store, MayEdit, Editing
  <1>2. /\ doubt' \in Doubts /\ doubt'.strayed = doubt.strayed /\ doubt'.moved = doubt.moved
        /\ doubt'.guess = (~Asks(tx) \/ Outlived(tx))
        /\ doubt'.misread = (doubt.misread \/ Misread)
    <2>1. (~Asks(tx) \/ Outlived(tx)) \in BOOLEAN /\ Misread \in BOOLEAN
      BY DEF Asks, Outlived, Misread
    <2> QED BY <1>1, <2>1 DEF EtherInv, PageShapes, Doubts
  <1>3. DoubtStays /\ Unmoved
    BY <1>1, <1>2 DEF DoubtStays, Unmoved
  <1>4. /\ IsStash(stash') /\ stash'.stage = "setup" /\ stash'.tx = tx
        /\ stash'.preparing = stash.preparing /\ stash'.own = stash.own
        /\ stash'.entry = stash.entry /\ stash'.owner = stash.owner
        /\ stash'.asset = stash.asset /\ stash'.signed = stash.signed
    BY <1>1 DEF EtherInv, PageShapes, IsStash, StashFields, Edited
  <1>5. IsList(estimates')
    BY <1>1, Appended DEF EtherInv, PageShapes, Asked
  <1>6. PageShapes' /\ RestoresPage'
    BY <1>1, <1>2, <1>4, <1>5 DEF EtherInv, PageShapes, RestoresPage
  <1>7. /\ Lends(Screen) /\ (Screen.kind = "transfer" => Screen.asset = Asset)
        /\ Screen.kind = IF stash.tx = NoTx THEN "transfer" ELSE stash.tx.kind
        /\ Screen.kind \in Replacing => Screen = stash.tx
    BY ScreenFacts DEF EtherInv
  <1>8. tx # NoTx
    BY NoTxIsNone DEF Edited
  <1>9. OwnersLend'
    BY <1>4, <1>7 DEF OwnersLend, Lends, Edited
  <1>10. KindOfPage'
    BY <1>1, <1>2, <1>4, <1>7 DEF EtherInv, KindOfPage, Here, Edited
  <1>11. Entry' = Entry /\ Asset' = Asset
    BY <1>1, <1>4, AssetStays
  <1>12. BalancesFit'
    <2> SUFFICES ASSUME Here', tx.kind \in Money, ~doubt'.moved, ~doubt'.misread
                 PROVE  Fits(stash.tx)' /\ (tx.kind = "convert" => tx.from = Entry')
      BY <1>4 DEF BalancesFit
    <2>1. Fits(Screen) /\ (Screen.kind = "convert" => Screen.from = Entry)
      BY <1>1, <1>2, ScreenBalanced DEF EtherInv, BalancesFit, Here, Edited
    <2>2. Fits(tx)
      BY <2>1 DEF Fits, Edited
    <2>3. \A e, a, o : Own(e, a)' = Own(e, a) /\ Balance(e, a, o)' = Balance(e, a, o)
      BY <1>1 DEF Own, Balance
    <2>4. Fits(stash.tx)'
      BY <1>4, <2>2, <2>3 DEF Fits
    <2> QED BY <1>11, <2>1, <2>4 DEF Edited
  <1>13. ReplacesOriginal'
    <2> SUFFICES ASSUME Here, tx.kind \in Replacing
                 PROVE  ReplacesOriginal'
      BY <1>1, <1>2, <1>4 DEF ReplacesOriginal, Here
    <2>1. /\ IsOriginal(stash.tx) /\ stash.tx = Screen
          /\ OffersEnough
      BY <1>1, <1>7 DEF EtherInv, ReplacesOriginal, Edited, Replacing
    <2>2. PaysEnough(tx)
      BY DEF Edited
    <2>3. IsOriginal(stash.tx)'
      BY <1>1, <1>4, <2>1 DEF IsOriginal, Edited
    <2> QED BY <1>1, <1>4, <2>1, <2>2, <2>3
            DEF ReplacesOriginal, PaysEnough, OffersEnough, LegacyPrice, MaxGasPrice, Enough
  <1>14. GasIsItsOwn'
    BY <1>4 DEF GasIsItsOwn
  <1>15. GasComes'
    <2> SUFFICES ASSUME ~doubt'.guess
                 PROVE  GasComes'
      BY DEF GasComes
    <2>1. Asks(tx) /\ ~Outlived(tx)
      BY <1>2
    <2>2. /\ estimates' # <<>> /\ estimates'[Len(estimates')] = Call(tx)
      BY <1>1, <2>1, Appended DEF EtherInv, PageShapes, Asked
    <2>3. Answers(Call(tx), tx)
      BY DEF Answers, Call
    <2>4. tx.kind = "transfer" => tx.asset = Asset /\ (Asset # Coin => tx.owner = stash.owner)
      BY <1>7, <2>1 DEF Edited, Outlived
    <2>5. ASSUME tx.kind = "transfer" PROVE ScreenKept' /\ Answers(estimates[Len(estimates)], stash.tx)'
      BY <1>4, <1>11, <2>2, <2>3, <2>4, <2>5 DEF ScreenKept, Answers
    <2> QED BY <1>4, <1>8, <2>2, <2>5 DEF GasComes
  <1>16. FinalSigned'
    BY <1>1, <1>3, <1>4, FinalRests DEF EtherInv
  <1> QED BY <1>6, <1>9, <1>10, <1>12, <1>13, <1>14, <1>15, <1>16 DEF EtherInv

(* What the fields of the page make is an edit.                            *)
LEMMA FieldsAreEdits ==
  ASSUME EtherInv, Screen.kind \notin Replacing
  PROVE  /\ \A v : Edited([Screen EXCEPT !.to = v])
         /\ \A v, w : Edited([Screen EXCEPT !.target = v, !.amount = w])
         /\ \A v : Edited(Rebalanced([Screen EXCEPT !.target = v]))
  <1> DEFINE x == Screen
  <1>1. IsTx(x)
    BY ScreenFacts DEF EtherInv
  <1> HIDE DEF x
  <1>2. ASSUME NEW v PROVE Edited([x EXCEPT !.to = v])
    BY <1>1 DEF Edited, IsTx, TxFields, x
  <1>3. ASSUME NEW v, NEW w PROVE Edited([x EXCEPT !.target = v, !.amount = w])
    BY <1>1 DEF Edited, IsTx, TxFields, x
  <1>4. ASSUME NEW v PROVE Edited(Rebalanced([x EXCEPT !.target = v]))
    <2> DEFINE y == [x EXCEPT !.target = v]
    <2>1. IsTx(y) /\ Same(y, x)
      BY <1>1 DEF IsTx, TxFields, Same
    <2> HIDE DEF y
    <2>2. IsTx(Rebalanced(y)) /\ Same(Rebalanced(y), y)
      BY <2>1, RebalancedSame
    <2>3. Edited(Rebalanced(y))
      BY <2>1, <2>2 DEF Edited, Same, x
    <2> QED BY <2>3 DEF y
  <1> QED BY <1>2, <1>3, <1>4 DEF x

(* Each field of the page stores an edit.                                  *)
LEMMA EditsKeep ==
  EtherInv /\ (EnterRecipient \/ EnterSum \/ SendMax \/ ApproveAll \/ SetPrice \/ SwitchScheme) => EtherInv'
  <1> SUFFICES ASSUME EtherInv, EnterRecipient \/ EnterSum \/ SendMax \/ ApproveAll \/ SetPrice \/ SwitchScheme
               PROVE  EtherInv'
    OBVIOUS
  <1>1. CASE EnterRecipient
    <2>1. \E to : Store([Screen EXCEPT !.to = to]) /\ Screen.kind \notin Replacing
      BY <1>1 DEF EnterRecipient, Replacing
    <2> QED BY <2>1, StoreKeeps, FieldsAreEdits
  <1>2. CASE EnterSum
    <2>1. \E sum : Store([Screen EXCEPT !.target = "manual", !.amount = sum]) /\ Screen.kind \notin Replacing
      BY <1>2 DEF EnterSum, Replacing
    <2> QED BY <2>1, StoreKeeps, FieldsAreEdits
  <1>3. CASE SendMax \/ ApproveAll
    <2>1. \E target : Store(Rebalanced([Screen EXCEPT !.target = target])) /\ Screen.kind \notin Replacing
      BY <1>3 DEF SendMax, ApproveAll, Replacing
    <2> QED BY <2>1, StoreKeeps, FieldsAreEdits
  <1> DEFINE x == Screen
  <1>4. /\ IsTx(x) /\ (x.kind \in Replacing => x = stash.tx)
        /\ x.kind = IF stash.tx = NoTx THEN "transfer" ELSE stash.tx.kind
    BY ScreenFacts DEF EtherInv
  <1>5. ASSUME Here, x.kind \in Replacing, MayEdit PROVE PaysEnough(x) /\ OffersEnough
    BY <1>4, <1>5 DEF EtherInv, ReplacesOriginal, Replacing, MayEdit, Editing
  <1>6. CASE SetPrice
    <2>1. PICK price \in {PriceRange.low, PriceRange.std, PriceRange.high} :
            MayEdit /\ Store(Priced(x, price))
      BY <1>6 DEF SetPrice
    <2>2. ASSUME Here, x.kind \in Replacing, page.original.eip1559 PROVE Enough(price)
      BY <1>5, <2>1, <2>2 DEF PriceRange, IsReplacement, Replacing, OffersEnough
    <2>3. Edited(Priced(x, price))
      <3> HIDE DEF x
      <3> DEFINE y == Priced(x, price)
      <3>1. /\ IsTx(y) /\ y.kind = x.kind /\ y.asset = x.asset /\ y.from = x.from
            /\ y.owner = x.owner /\ y.coins = x.coins /\ y.tokens = x.tokens
            /\ y.nonce = x.nonce /\ y.price = price /\ y.spare = price
        BY <1>4 DEF Priced, IsTx, TxFields
      <3> HIDE DEF y
      <3>2. LegacyPrice(y) = price /\ MaxGasPrice(y) = price
        BY <3>1 DEF LegacyPrice, MaxGasPrice
      <3>3. Edited(y)
        BY <2>2, <3>1, <3>2 DEF Edited, PaysEnough, x
      <3> QED BY <3>3 DEF y
    <2> QED BY <2>1, <2>3, StoreKeeps
  <1>7. CASE SwitchScheme
    <2> DEFINE y == Switched(x)
    <2>1. MayEdit /\ (Store(y) \/ Store(x))
      BY <1>7 DEF SwitchScheme
    <2>2. Edited(x)
      BY <1>4, <1>5, <2>1 DEF Edited
    <2>3. Edited(y)
      <3> HIDE DEF x
      <3>1. /\ IsTx(y) /\ y.kind = x.kind /\ y.asset = x.asset /\ y.from = x.from
            /\ y.owner = x.owner /\ y.coins = x.coins /\ y.tokens = x.tokens
            /\ y.nonce = x.nonce /\ y.price = x.spare /\ y.spare = x.price
            /\ y.eip1559 = ~x.eip1559
        BY <1>4 DEF Switched, IsTx, TxFields
      <3> HIDE DEF y
      <3>2. LegacyPrice(y) = LegacyPrice(x) /\ MaxGasPrice(y) = MaxGasPrice(x)
        BY <3>1 DEF LegacyPrice, MaxGasPrice
      <3>3. PaysEnough(x) => PaysEnough(y)
        BY <3>2 DEF PaysEnough
      <3>4. Edited(y)
        BY <1>5, <2>1, <3>1, <3>3 DEF Edited, x
      <3> QED BY <3>4
    <2> HIDE DEF x, y
    <2> QED BY <2>1, <2>2, <2>3, StoreKeeps
  <1> QED BY <1>1, <1>2, <1>3, <1>6, <1>7

-----------------------------------------------------------------------------
(* Another asset: the object in the stash stays, the gas is a guess.       *)
LEMMA ChooseAssetKeeps == EtherInv /\ ChooseAsset => EtherInv'
  <1> SUFFICES ASSUME EtherInv, ChooseAsset PROVE EtherInv'
    OBVIOUS
  <1>1. PICK asset : stash' = [stash EXCEPT !.asset = asset]
    BY DEF ChooseAsset
  <1>2. /\ page # Closed /\ stash.stage = "setup" /\ estimates' = Asked(stash.tx)
        /\ doubt' = [doubt EXCEPT !.guess = TRUE]
        /\ UNCHANGED <<page, fees, restoring, signing, holdings, opened>>
    BY DEF ChooseAsset, MayEdit, Editing
  <1>3. /\ doubt' \in Doubts /\ doubt'.strayed = doubt.strayed /\ doubt'.moved = doubt.moved
        /\ doubt'.misread = doubt.misread /\ doubt'.guess = TRUE
    BY <1>2 DEF EtherInv, PageShapes, Doubts
  <1>4. /\ IsStash(stash') /\ stash'.stage = stash.stage /\ stash'.tx = stash.tx
        /\ stash'.preparing = stash.preparing /\ stash'.own = stash.own
        /\ stash'.entry = stash.entry /\ stash'.signed = stash.signed
    BY <1>1 DEF EtherInv, PageShapes, IsStash, StashFields
  <1>5. IsList(estimates')
    BY <1>2, Appended DEF EtherInv, PageShapes, Asked
  <1>6. PageShapes' /\ RestoresPage'
    BY <1>2, <1>3, <1>4, <1>5 DEF EtherInv, PageShapes, RestoresPage
  <1>7. OwnersLend' /\ KindOfPage' /\ ReplacesOriginal'
    BY <1>2, <1>3, <1>4
    DEF EtherInv, OwnersLend, Lends, KindOfPage, ReplacesOriginal, Here, IsOriginal,
        PaysEnough, OffersEnough, LegacyPrice, MaxGasPrice, PricedAs, Enough
  <1>8. BalancesFit'
    <2>1. Entry' = Entry
      BY <1>2, <1>4, EntryStays
    <2>2. \A e, a, o : Own(e, a)' = Own(e, a) /\ Balance(e, a, o)' = Balance(e, a, o)
      BY <1>2 DEF Own, Balance
    <2> QED BY <1>2, <1>3, <1>4, <2>1, <2>2 DEF EtherInv, BalancesFit, Fits, Here
  <1>9. GasComes' /\ GasIsItsOwn'
    BY <1>3 DEF GasComes, GasIsItsOwn
  <1>10. FinalSigned'
    BY <1>2, <1>3, <1>4, FinalRests DEF EtherInv, DoubtStays, Unmoved
  <1> QED BY <1>6, <1>7, <1>8, <1>9, <1>10 DEF EtherInv

(* What a page is prepared with: what was there, or what the page makes.   *)
LEMMA PreparedIs ==
  ASSUME PageShapes, NEW purpose \in Kinds, NEW e
  PROVE  LET s == Prepared(purpose, e)
         IN /\ IsStash(s) /\ s.stage = stash.stage /\ s.signed = stash.signed
            /\ s.entry = stash.entry /\ s.owner = stash.owner /\ s.own = stash.own
            /\ s.preparing = (stash.preparing /\ purpose \in Replacing)
            /\ IF purpose \in Replacing \cup {"transfer"} THEN s.tx = stash.tx
               ELSE /\ IsTx(s.tx) /\ s.tx.kind = purpose /\ s.tx.from = e
                    /\ s.tx.owner = Nobody /\ (purpose \in Money => Fits(s.tx))
            /\ purpose \in Replacing => s = stash
  <1>1. CASE purpose \in Replacing
    BY <1>1 DEF Prepared, Replacing, PageShapes, IsStash
  <1>2. CASE purpose = "transfer"
    <2>1. Prepared(purpose, e) = [stash EXCEPT !.preparing = FALSE]
      BY <1>2 DEF Prepared
    <2> QED BY <1>2, <2>1 DEF PageShapes, IsStash, StashFields, Replacing
  <1>3. CASE purpose \in {"approve", "convert", "recovery"}
    <2> DEFINE x == PreparedTx(purpose, e)
    <2>1. /\ IsTx(x) /\ x.kind = purpose /\ x.from = e /\ x.owner = Nobody
          /\ purpose \in Money => Fits(x)
      BY <1>3, PreparedFits
    <2>2. Prepared(purpose, e) = [stash EXCEPT !.preparing = FALSE, !.tx = x, !.asset = x.asset]
      BY <1>3 DEF Prepared
    <2> HIDE DEF x
    <2> QED BY <1>3, <2>1, <2>2 DEF PageShapes, IsStash, StashFields, Replacing
  <1> QED BY <1>1, <1>2, <1>3 DEF Kinds, Replacing

(* Another entry: the page is prepared anew.                               *)
LEMMA ChooseEntryKeeps == EtherInv /\ ChooseEntry => EtherInv'
  <1> SUFFICES ASSUME EtherInv, ChooseEntry PROVE EtherInv'
    OBVIOUS
  <1>1. /\ page # Closed /\ stash.stage = "setup" /\ ~stash.preparing
        /\ doubt' = [doubt EXCEPT !.guess = TRUE]
        /\ UNCHANGED <<page, fees, restoring, signing, holdings, opened>>
    BY DEF ChooseEntry, MayEdit, Editing
  <1>2. PICK e \in Senders(page.purpose) : \E owner \in Lenders(e) :
          LET chosen == [stash EXCEPT !.entry = e, !.owner = owner]
              ready == Prepared(page.purpose, e)
          IN IF e = Entry
             THEN stash' = chosen /\ UNCHANGED estimates
             ELSE stash' = [ready EXCEPT !.entry = e, !.owner = owner] /\ estimates' = Asked(ready.tx)
    BY DEF ChooseEntry
  <1>3. PICK owner \in Lenders(e) :
          LET chosen == [stash EXCEPT !.entry = e, !.owner = owner]
              ready == Prepared(page.purpose, e)
          IN IF e = Entry
             THEN stash' = chosen /\ UNCHANGED estimates
             ELSE stash' = [ready EXCEPT !.entry = e, !.owner = owner] /\ estimates' = Asked(ready.tx)
    BY <1>2
  <1>4. /\ doubt' \in Doubts /\ doubt'.strayed = doubt.strayed /\ doubt'.moved = doubt.moved
        /\ doubt'.misread = doubt.misread /\ doubt'.guess = TRUE
    BY <1>1 DEF EtherInv, PageShapes, Doubts
  <1> DEFINE ready == IF e = Entry THEN stash ELSE Prepared(page.purpose, e)
             new == e # Entry /\ page.purpose \notin Replacing \cup {"transfer"}
  <1>5. page \in Pages /\ page.purpose \in Kinds
    BY <1>1, PageHasOriginal DEF EtherInv, PageShapes
  <1>6. /\ IsStash(ready) /\ ready.stage = stash.stage /\ ready.signed = stash.signed
        /\ ready.own = stash.own /\ ready.preparing = FALSE
        /\ ~new => ready.tx = stash.tx
        /\ new => /\ IsTx(ready.tx) /\ ready.tx.kind = page.purpose /\ ready.tx.from = e
                  /\ ready.tx.owner = Nobody /\ (page.purpose \in Money => Fits(ready.tx))
    <2>1. CASE e = Entry
      BY <1>1, <2>1 DEF EtherInv, PageShapes, IsStash
    <2>2. CASE e # Entry
      BY <1>1, <1>5, <2>2, PreparedIs DEF EtherInv
    <2> QED BY <2>1, <2>2
  <1>7. /\ stash' = [ready EXCEPT !.entry = e, !.owner = owner]
        /\ estimates' = estimates \/ estimates' = Asked(ready.tx)
    BY <1>3
  <1>8. new => page.purpose \notin Replacing
    OBVIOUS
  <1> HIDE DEF ready, new
  <1>9. /\ IsStash(stash') /\ stash'.tx = ready.tx /\ stash'.stage = "setup"
        /\ stash'.signed = stash.signed /\ stash'.own = stash.own
        /\ stash'.preparing = FALSE /\ stash'.entry = e
    BY <1>1, <1>6, <1>7 DEF IsStash, StashFields
  <1>10. IsList(estimates')
    BY <1>7, Appended DEF EtherInv, PageShapes, Asked
  <1>11. PageShapes' /\ RestoresPage'
    BY <1>1, <1>4, <1>9, <1>10 DEF EtherInv, PageShapes, RestoresPage
  <1>12. OwnersLend' /\ KindOfPage'
    <2>1. CASE new
      BY <1>1, <1>4, <1>6, <1>9, <2>1 DEF OwnersLend, Lends, KindOfPage
    <2>2. CASE ~new
      BY <1>1, <1>4, <1>6, <1>9, <2>2 DEF EtherInv, OwnersLend, Lends, KindOfPage, Here
    <2> QED BY <2>1, <2>2
  <1>13. Entry' = e
    <2>1. e # Nobody
      BY NamesAssumption DEF Senders
    <2> QED BY <1>1, <1>9, <2>1 DEF Entry, EntryFor
  <1>14. BalancesFit'
    <2>1. \A d, a, o : Own(d, a)' = Own(d, a) /\ Balance(d, a, o)' = Balance(d, a, o)
      BY <1>1 DEF Own, Balance
    <2> SUFFICES ASSUME Here, ready.tx # NoTx, ready.tx.kind \in Money,
                        ~doubt.moved, ~doubt.misread
                 PROVE  Fits(ready.tx) /\ (ready.tx.kind = "convert" => ready.tx.from = e)
      BY <1>1, <1>4, <1>9, <1>13, <2>1 DEF BalancesFit, Fits, Here
    <2>2. CASE new
      BY <1>6, <2>2
    <2>3. CASE ~new
      <3>1. Fits(stash.tx) /\ (stash.tx.kind = "convert" => stash.tx.from = Entry)
        BY <1>1, <1>6, <2>3 DEF EtherInv, BalancesFit
      <3>2. stash.tx.kind = "transfer" \/ stash.tx.kind = page.purpose
        BY <1>6, <2>3 DEF EtherInv, KindOfPage
      <3>3. e = Entry \/ page.purpose # "convert"
        BY <2>3 DEF new, Replacing
      <3> QED BY <1>6, <2>3, <3>1, <3>2, <3>3
    <2> QED BY <2>2, <2>3
  <1>15. ReplacesOriginal'
    <2>1. CASE new
      BY <1>6, <1>8, <1>9, <2>1 DEF ReplacesOriginal
    <2>2. CASE ~new
      BY <1>1, <1>4, <1>6, <1>9, <2>2 DEF EtherInv, ReplacesOriginal, Here, IsOriginal,
        PaysEnough, OffersEnough, LegacyPrice, MaxGasPrice, PricedAs, Enough
    <2> QED BY <2>1, <2>2
  <1>16. GasComes' /\ GasIsItsOwn'
    BY <1>4 DEF GasComes, GasIsItsOwn
  <1>17. FinalSigned'
    BY <1>1, <1>4, <1>9, FinalRests DEF EtherInv, DoubtStays, Unmoved
  <1> QED BY <1>11, <1>12, <1>14, <1>15, <1>16, <1>17 DEF EtherInv

-----------------------------------------------------------------------------
(* A page opens: what the stash holds is its own, or an answer strayed.    *)
LEMMA OpenKeeps ==
  ASSUME NEW p \in Pages, EtherInv, Open(p)
  PROVE  EtherInv'
  <1>1. /\ page = Closed /\ page' = p /\ opened' = opened + 1
        /\ doubt' = [NoDoubt EXCEPT !.strayed = stash # Blank]
        /\ UNCHANGED <<fees, signing, holdings>>
    BY DEF Open
  <1>2. /\ doubt' \in Doubts /\ doubt'.guess = TRUE /\ doubt'.strayed = (stash # Blank)
    BY <1>1 DEF NoDoubt, Doubts
  <1>3. p.purpose \in Kinds /\ (p.purpose \in Replacing => p.original \in EtherOriginals)
    BY PageHasOriginal
  <1>4. opened \in Nat /\ opened' \in Nat /\ opened' > 0 /\ 1..opened \subseteq 1..opened'
        /\ opened' \notin 1..opened /\ opened' \in 1..opened'
    BY <1>1 DEF EtherInv, PageShapes
  <1>5. Here' => stash = Blank
    BY <1>1, <1>2 DEF Here
  <1>6. /\ Blank.stage = "setup" /\ Blank.tx = NoTx /\ Blank.signed = NoTx
        /\ Blank.preparing = TRUE /\ Blank.entry = Nobody
    BY DEF Blank
  <1>7. GasComes' /\ GasIsItsOwn'
    BY <1>2 DEF GasComes, GasIsItsOwn
  <1>8. page' # Closed
    BY <1>3, <1>1 DEF Closed, Kinds
  <1>9. CASE stash.stage # "setup"
    <2>1. UNCHANGED <<stash, estimates, restoring>>
      BY <1>9 DEF Open
    <2>2. ~Here'
      BY <1>5, <1>6, <1>9
    <2>3. PageShapes'
      BY <1>1, <1>2, <1>4, <2>1 DEF EtherInv, PageShapes
    <2>4. OwnersLend'
      BY <2>1 DEF EtherInv, OwnersLend, Lends
    <2>5. RestoresPage'
      <3>1. RestoresPage
        BY DEF EtherInv
      <3> QED BY <1>4, <2>1, <3>1 DEF RestoresPage
    <2>6. KindOfPage' /\ BalancesFit' /\ ReplacesOriginal'
      BY <2>2 DEF KindOfPage, BalancesFit, ReplacesOriginal
    <2>7. FinalSigned'
      <3>1. FinalSigned
        BY DEF EtherInv
      <3>2. ~SignedHere'
        BY <1>4, <2>1, <3>1 DEF SignedHere, FinalSigned
      <3> QED BY <1>1, <1>4, <2>1, <3>1, <3>2 DEF FinalSigned
    <2> QED BY <1>7, <2>3, <2>4, <2>5, <2>6, <2>7 DEF EtherInv
  <1>10. CASE stash.stage = "setup"
    <2> DEFINE e == EntryFor(p)
               s == Prepared(p.purpose, e)
               r == [page |-> opened', of |-> p, found |-> FALSE, fee |-> ~feeAsked']
               made == p.purpose \notin Replacing \cup {"transfer"}
    <2>1. /\ stash' = s /\ estimates' = Asked(stash'.tx)
          /\ restoring' = restoring \cup IF p.purpose \in Replacing THEN {r} ELSE {}
      BY <1>10 DEF Open, Replacing
    <2>2. /\ IsStash(s) /\ s.stage = "setup" /\ s.signed = stash.signed
          /\ s.entry = stash.entry /\ s.owner = stash.owner
          /\ p.purpose \in Replacing => s = stash
          /\ ~made => s.tx = stash.tx
          /\ made => /\ IsTx(s.tx) /\ s.tx.kind = p.purpose /\ s.tx.from = e
                     /\ s.tx.owner = Nobody /\ (p.purpose \in Money => Fits(s.tx))
      BY <1>3, <1>10, PreparedIs DEF EtherInv
    <2> HIDE DEF s, e
    <2>3. IsList(estimates')
      BY <2>1, Appended DEF EtherInv, PageShapes, Asked
    <2>4. PageShapes'
      BY <1>1, <1>2, <1>4, <2>1, <2>2, <2>3 DEF EtherInv, PageShapes
    <2>5. OwnersLend'
      <3>1. CASE made
        BY <2>1, <2>2, <3>1 DEF OwnersLend, Lends
      <3>2. CASE ~made
        BY <2>1, <2>2, <3>2 DEF EtherInv, OwnersLend, Lends
      <3> QED BY <3>1, <3>2
    <2>6. RestoresPage'
      <3>1. RestoresPage
        BY DEF EtherInv
      <3>2. ASSUME NEW q \in restoring
            PROVE  /\ q \in restoring' /\ q = [f \in RestoreFields |-> q[f]]
                   /\ q.page \in 1..opened /\ q.of \in Pages /\ q.of.purpose \in Replacing
                   /\ \A q2 \in restoring : q2.page = q.page => q2 = q
                   /\ q.page # opened'
        BY <1>4, <2>1, <3>1 DEF RestoresPage
      <3>3. r = [f \in RestoreFields |-> r[f]] /\ r.page = opened' /\ r.of = p
        BY DEF RestoreFields
      <3> HIDE DEF r
      <3>4. CASE p.purpose \in Replacing
        <4>1. restoring' = restoring \cup {r} /\ stash' = stash
          BY <2>1, <2>2, <3>4
        <4>2. ~doubt'.strayed => stash'.preparing
          BY <1>2, <1>6, <4>1
        <4> QED BY <1>1, <1>4, <3>2, <3>3, <3>4, <4>1, <4>2 DEF RestoresPage
      <3>5. CASE p.purpose \notin Replacing
        <4>1. restoring' = restoring
          BY <2>1, <3>5
        <4> QED BY <1>4, <3>2, <4>1 DEF RestoresPage
      <3> QED BY <3>4, <3>5
    <2>7. Here' /\ stash'.tx # NoTx => made
      BY <1>5, <1>6, <2>1, <2>2
    <2>8. KindOfPage' /\ ReplacesOriginal'
      BY <1>1, <2>1, <2>2, <2>7 DEF KindOfPage, ReplacesOriginal
    <2>9. BalancesFit'
      <3> SUFFICES ASSUME Here', made, s.tx.kind \in Money
                   PROVE  Fits(stash.tx)' /\ (s.tx.kind = "convert" => s.tx.from = Entry')
        BY <2>1, <2>7 DEF BalancesFit
      <3>1. \A d, a, o : Own(d, a)' = Own(d, a) /\ Balance(d, a, o)' = Balance(d, a, o)
        BY <1>1 DEF Own, Balance
      <3>2. Fits(stash.tx)'
        BY <2>1, <2>2, <3>1 DEF Fits
      <3>3. Entry' = e
        <4>1. \A q : Senders(q)' = Senders(q)
          BY <1>1 DEF Senders, Own
        <4> QED BY <1>1, <2>1, <2>2, <4>1 DEF Entry, EntryFor, e
      <3> QED BY <2>2, <3>2, <3>3
    <2>10. FinalSigned'
      <3>1. FinalSigned
        BY DEF EtherInv
      <3>2. ~SignedHere'
        BY <1>4, <2>1, <2>2, <3>1 DEF SignedHere, FinalSigned
      <3>3. stash.signed = NoTx
        BY <1>10, <3>1 DEF FinalSigned
      <3> QED BY <1>1, <1>4, <2>1, <2>2, <3>1, <3>2, <3>3 DEF FinalSigned
    <2> QED BY <1>7, <2>4, <2>5, <2>6, <2>8, <2>9, <2>10 DEF EtherInv
  <1> QED BY <1>9, <1>10

-----------------------------------------------------------------------------
(* No page is open at first, and the stash is blank.                       *)
LEMMA EtherInitKeeps == EtherInit => EtherInv
  <1> SUFFICES ASSUME EtherInit PROVE EtherInv
    OBVIOUS
  <1>1. /\ page = Closed /\ stash = Blank /\ fees \in FeeRanges \cup {NoFees}
        /\ estimates = <<>> /\ restoring = {} /\ signing = {} /\ opened = 0 /\ doubt = NoDoubt
    BY DEF EtherInit
  <1>2. /\ IsStash(Blank) /\ Blank.stage = "setup" /\ Blank.tx = NoTx /\ Blank.signed = NoTx
    BY DEF Blank, IsStash, StashFields
  <1>3. NoDoubt \in Doubts /\ NoDoubt.guess = TRUE
    BY DEF NoDoubt, Doubts
  <1>4. IsList(<<>>)
    BY DEF IsList
  <1>5. PageShapes /\ RestoresPage
    BY <1>1, <1>2, <1>3, <1>4 DEF PageShapes, RestoresPage
  <1>6. OwnersLend /\ KindOfPage /\ BalancesFit /\ ReplacesOriginal /\ GasComes /\ GasIsItsOwn
    BY <1>1, <1>2, <1>3
    DEF OwnersLend, KindOfPage, BalancesFit, ReplacesOriginal, GasComes, GasIsItsOwn, Here
  <1>7. FinalSigned
    BY <1>1, <1>2 DEF FinalSigned, SignedHere
  <1> QED BY <1>5, <1>6, <1>7 DEF EtherInv

(* Every step keeps the invariant.                                         *)
LEMMA EtherNextKeeps == EtherInv /\ [EtherNext]_etherVars => EtherInv'
  <1> SUFFICES ASSUME EtherInv, [EtherNext]_etherVars PROVE EtherInv'
    OBVIOUS
  <1>1. CASE \E p \in Pages : Open(p)
    BY <1>1, OpenKeeps
  <1>2. CASE FeesArrive
    BY <1>2, FeesArriveKeep
  <1>3. CASE \E r \in restoring : RestoreArrives(r) \/ RestoreEnds(r) \/ RestoreFails(r)
    BY <1>3, RestoreArrivesKeeps, RestoreEndsKeeps, RestoreFailsKeeps
  <1>4. CASE EnterRecipient \/ EnterSum \/ SendMax \/ ApproveAll \/ SetPrice \/ SwitchScheme
    BY <1>4, EditsKeep
  <1>5. CASE ChooseAsset \/ ChooseEntry
    BY <1>5, ChooseAssetKeeps, ChooseEntryKeeps
  <1>6. CASE EstimateArrives \/ EstimateFails \/ BalanceMoves
    BY <1>6, EstimateArrivesKeeps, EstimateFailsKeeps, BalanceMovesKeeps
  <1>7. CASE CreateTx \/ StartSign \/ SignArrives \/ SignFails \/ Leave
    BY <1>7, CreateTxKeeps, StartSignKeeps, SignArrivesKeeps, SignFailsKeeps, LeaveKeeps
  <1>8. CASE UNCHANGED etherVars
    <2>1. UNCHANGED <<page, stash, fees, estimates, restoring, signing, holdings, opened, doubt>>
      BY <1>8 DEF etherVars
    <2>2. DoubtStays /\ Unmoved
      BY <2>1 DEF DoubtStays, Unmoved
    <2>3. PageShapes' /\ RestoresPage'
      BY <2>1 DEF EtherInv, PageShapes, RestoresPage
    <2> QED BY <2>1, <2>2, <2>3, StashRests, GasRests, FinalRests DEF EtherInv
  <1> QED BY <1>1, <1>2, <1>3, <1>4, <1>5, <1>6, <1>7, <1>8 DEF EtherNext

(* The invariant of the pages: each part is needed for another.            *)
THEOREM EtherInvariant == EtherSpec => []EtherInv
  <1>1. EtherInit => EtherInv
    BY EtherInitKeeps
  <1>2. EtherInv /\ [EtherNext]_etherVars => EtherInv'
    BY EtherNextKeeps
  <1> QED BY <1>1, <1>2, PTL DEF EtherSpec

(* What the vault signed is what the page shows, and can be paid for from  *)
(* what its sender, or the owner who lent it, holds.                       *)
THEOREM SignedCanBePaid == EtherSpec => []SignedIsSound
  <1>1. EtherInv => SignedIsSound
    BY DEF EtherInv, FinalSigned, SignedIsSound, Final, Payable, Money
  <1> QED BY <1>1, EtherInvariant, PTL

(* A replacement is of the transaction the page was opened for, in its     *)
(* place, and pays at least a tenth more.                                  *)
THEOREM ReplacementsRaise == EtherSpec => []ReplacementRaises
  <1>1. EtherInv => ReplacementRaises
    BY NamesAssumption
    DEF EtherInv, FinalSigned, ReplacementRaises, Final, Raises, Replacing, IsOriginal, KeepsPrice,
        PaysEnough, LegacyPrice, MaxGasPrice, Enough
  <1> QED BY <1>1, EtherInvariant, PTL

(* The gas of a transfer that is to be signed was estimated for that call. *)
THEOREM GasOfItsCall == EtherSpec => []GasIsItsOwn
  <1>1. EtherInv => GasIsItsOwn
    BY DEF EtherInv
  <1> QED BY <1>1, EtherInvariant, PTL

-----------------------------------------------------------------------------
(* Types of the amounts.  A balance is of an entry and an asset that are   *)
(* known, so an amount that is all of it is a number.                      *)
Known == ToSet(Tokens) \cup {Coin}

(* The numbers of an object; what its kind says of the tokens registered.  *)
Counted(x) ==
  /\ x.amount \in Nat /\ x.price \in Nat /\ x.spare \in Nat /\ x.gas \in Nat
  /\ x.coins \in Int
  /\ x.kind = "approve" => Tokens # <<>> /\ x.tokens \in Nat
  /\ x.kind = "convert" => Wrapped \in ToSet(Tokens)
  /\ x.kind \notin Replacing /\ x.asset # Coin => x.tokens \in Nat
  /\ x.target = "max" => x.kind = "approve"
  /\ x.kind \in Replacing => x.target = "manual"

PageTypes ==
  /\ holdings \in Holdings
  /\ stash.entry \in ToSet(Entries) \cup {Nobody} /\ stash.asset \in Known \cup {Nobody}
  /\ {stash.own.low, stash.own.std, stash.own.high} \subseteq Nat
  /\ stash.tx # NoTx => Counted(stash.tx)
  /\ \A s \in signing : s.tx # NoTx

(* The first of a list that is in S is in S, if one is.                    *)
LEMMA FirstIsIn ==
  ASSUME NEW X, NEW list \in Seq(X), NEW S, NEW i \in DOMAIN list, list[i] \in S
  PROVE  First(list, S) \in X \cap S
  <1> DEFINE T == {j \in DOMAIN list : list[j] \in S}
  <1>1. T \subseteq Nat /\ T # {}
    OBVIOUS
  <1>2. PICK m \in T : \A j \in T : m <= j
    BY <1>1, Least
  <1>3. m \in DOMAIN list /\ list[m] \in S /\ \A j \in DOMAIN list : list[j] \in S => m <= j
    BY <1>2
  <1> DEFINE c == CHOOSE k \in DOMAIN list :
                    list[k] \in S /\ \A j \in DOMAIN list : list[j] \in S => k <= j
  <1>4. c \in DOMAIN list /\ list[c] \in S
    BY <1>3
  <1>5. First(list, S) = list[c]
    BY DEF First
  <1> HIDE DEF c
  <1> QED BY <1>4, <1>5

(* What is held, or lent, is a number.                                     *)
LEMMA BalanceIsNumber ==
  ASSUME holdings \in Holdings, NEW e \in ToSet(Entries), NEW a \in Known, NEW owner
  PROVE  Own(e, a) \in Nat /\ Own(e, Coin) \in Nat /\ Balance(e, a, owner) \in Nat
  <1>1. /\ holdings.coins \in [ToSet(Entries) -> Nat]
        /\ holdings.tokens \in [ToSet(Entries) -> [ToSet(Tokens) -> Nat]]
        /\ holdings.allowed \in [ToSet(Entries) -> [ToSet(Tokens) -> Nat]]
    BY AmountsAssumption
  <1> QED BY <1>1 DEF Own, Balance, Known

(* The entry in use is one of the wallet, if one may send.                 *)
LEMMA EntryIsKnown ==
  ASSUME stash.entry \in ToSet(Entries) \cup {Nobody}, NEW p, Senders(p.purpose) # {}
  PROVE  EntryFor(p) \in ToSet(Entries)
  <1>1. Senders(p.purpose) \subseteq ToSet(Entries)
    BY DEF Senders
  <1>2. PICK e \in Senders(p.purpose) : TRUE
    OBVIOUS
  <1>3. PICK i \in DOMAIN Entries : Entries[i] = e
    BY <1>1, <1>2 DEF ToSet
  <1>4. First(Entries, Senders(p.purpose)) \in ToSet(Entries)
    BY <1>3, FirstIsIn, AmountsAssumption
  <1> QED BY <1>1, <1>4 DEF EntryFor

(* The asset in use is the coin or a registered token.                     *)
LEMMA AssetIsKnown ==
  ASSUME stash.asset \in Known \cup {Nobody}
  PROVE  Asset \in Known /\ Offered \subseteq Known
  <1>1. Offered \subseteq Known
    BY DEF Offered, Known
  <1> DEFINE asset == IF stash.asset = Nobody THEN Coin ELSE stash.asset
             list == <<Coin>> \o Tokens
  <1>2. asset \in Known
    BY DEF Known
  <1>3. CASE Offered = {} \/ asset \in Offered
    BY <1>1, <1>2, <1>3 DEF Asset
  <1>4. CASE ~(Offered = {} \/ asset \in Offered)
    <2>1. list \in Seq(Known)
      <3>1. Tokens \in Seq(Known) /\ <<Coin>> \in Seq(Known)
        BY AmountsAssumption DEF Known
      <3> QED BY <3>1
    <2>2. PICK t \in Offered : t \in Known
      BY <1>1, <1>4
    <2>3. \E i \in DOMAIN list : list[i] = t
      <3>1. CASE t = Coin
        <4>1. Len(list) = 1 + Len(Tokens) /\ list[1] = Coin /\ Len(Tokens) \in Nat
          BY AmountsAssumption
        <4>2. 1 \in DOMAIN list
          BY <2>1, <4>1
        <4> QED BY <3>1, <4>1, <4>2
      <3>2. CASE t \in ToSet(Tokens)
        <4>1. PICK i \in DOMAIN Tokens : Tokens[i] = t
          BY <3>2 DEF ToSet
        <4>2. /\ Len(list) = 1 + Len(Tokens) /\ i \in 1..Len(Tokens) /\ Len(Tokens) \in Nat
              /\ list[i + 1] = Tokens[i]
          BY <4>1, AmountsAssumption
        <4>3. i + 1 \in DOMAIN list
          BY <2>1, <4>2
        <4> QED BY <4>1, <4>2, <4>3
      <3> QED BY <2>2, <3>1, <3>2 DEF Known
    <2> HIDE DEF list
    <2>4. First(list, Offered) \in Known
      BY <2>1, <2>2, <2>3, FirstIsIn
    <2>5. Asset = First(list, Offered)
      BY <1>4, Zenon DEF Asset, list
    <2> QED BY <1>1, <2>4, <2>5
  <1> QED BY <1>1, <1>3, <1>4

(* Computing the amount leaves a number.                                   *)
LEMMA RebalancedCounted ==
  ASSUME NEW x, IsTx(x), Counted(x)
  PROVE  Counted(Rebalanced(x)) /\ Counted(AllOrNothing(x))
  <1>1. ASSUME NEW v \in Nat PROVE Counted([x EXCEPT !.amount = v])
    BY DEF IsTx, TxFields, Counted
  <1>2. Counted(Rebalanced(x))
    <2>1. CASE x.target = "infinite"
      BY <1>1, <2>1, AmountsAssumption DEF Rebalanced
    <2>2. CASE x.target = "max"
      <3>1. x.tokens \in Nat /\ Rebalanced(x) = [x EXCEPT !.amount = x.tokens]
        BY <2>2 DEF Rebalanced, Counted
      <3> QED BY <1>1, <3>1
    <2>3. CASE x.target = "all" /\ x.asset # Coin
      <3>1. x.tokens \in Nat /\ Rebalanced(x) = [x EXCEPT !.amount = x.tokens]
        BY <2>3 DEF Rebalanced, Counted, Replacing
      <3> QED BY <1>1, <3>1
    <2>4. CASE x.target = "all" /\ x.asset = Coin /\ x.coins >= GasFees(x)
      <3>1. GasFees(x) \in Nat
        BY DEF GasFees, Counted
      <3>2. x.coins - GasFees(x) \in Nat
        BY <2>4, <3>1 DEF Counted
      <3>3. Rebalanced(x) = [x EXCEPT !.amount = x.coins - GasFees(x)]
        BY <2>4 DEF Rebalanced
      <3> QED BY <1>1, <3>2, <3>3
    <2>5. CASE /\ x.target \notin {"infinite", "max"}
               /\ x.target # "all" \/ (x.asset = Coin /\ ~(x.coins >= GasFees(x)))
      BY <2>5 DEF Rebalanced
    <2> QED BY <2>1, <2>2, <2>3, <2>4, <2>5
  <1>3. Counted([x EXCEPT !.target = "manual", !.amount = 0])
    BY DEF IsTx, TxFields, Counted
  <1> QED BY <1>2, <1>3 DEF AllOrNothing

(* Reading the balances of an asset that is the object's, or a token's.    *)
Readable(x, asset) ==
  /\ x.amount \in Nat /\ x.price \in Nat /\ x.spare \in Nat /\ x.gas \in Nat
  /\ x.kind \notin Replacing
  /\ x.kind = "approve" => Tokens # <<>> /\ asset # Coin
  /\ x.kind = "convert" => Wrapped \in ToSet(Tokens)
  /\ x.target = "max" => x.kind = "approve"
  /\ asset \in Known /\ (asset = Coin => x.asset = Coin)

LEMMA HoldingCounted ==
  ASSUME holdings \in Holdings, NEW e \in ToSet(Entries), NEW owner,
         NEW asset, NEW x, IsTx(x), Readable(x, asset)
  PROVE  Counted(Holding(x, e, asset, owner))
  <1> DEFINE c == Own(e, Coin)
             t == IF asset = Coin THEN x.tokens ELSE Balance(e, asset, owner)
             y == [x EXCEPT !.coins = c, !.tokens = t]
  <1>1. c \in Nat /\ (asset # Coin => t \in Nat)
    BY BalanceIsNumber DEF Readable
  <1>2. Holding(x, e, asset, owner) = y
    BY DEF Holding
  <1> HIDE DEF c, t
  <1>3. /\ y.kind = x.kind /\ y.asset = x.asset /\ y.price = x.price
        /\ y.spare = x.spare /\ y.gas = x.gas
        /\ y.amount = x.amount /\ y.target = x.target /\ y.coins = c /\ y.tokens = t
    BY DEF IsTx, TxFields
  <1> HIDE DEF y
  <1> QED BY <1>1, <1>2, <1>3 DEF Counted, Readable

(* A new object has no balances yet.                                       *)
LEMMA NewIsReadable ==
  ASSUME NEW kind \in Kinds \ Replacing, NEW asset \in Known,
         kind = "approve" => Tokens # <<>> /\ asset # Coin,
         kind = "convert" => Wrapped \in ToSet(Tokens)
  PROVE  Readable(NewTx(kind, asset), asset) /\ NewTx(kind, asset).asset = asset
         /\ NewTx(kind, asset).kind = kind /\ NewTx(kind, asset).target = "manual"
  BY DEF Readable, NewTx, DefaultGas

(* What is read may be edited.                                             *)
LEMMA CountedReads ==
  ASSUME NEW x, Counted(x), x.kind \notin Replacing, x.asset \in Known,
         x.asset = Coin => x.kind # "approve"
  PROVE  Readable(x, x.asset)
  BY DEF Counted, Readable

(* The object on the screen is counted when the stash is.                  *)
LEMMA ScreenCounted ==
  ASSUME PageShapes, PageTypes, Senders(page.purpose) # {}
  PROVE  Counted(Screen)
  <1>1. /\ Entry \in ToSet(Entries) /\ Asset \in Known /\ holdings \in Holdings
        /\ Coin \notin ToSet(Tokens)
    BY EntryIsKnown, AssetIsKnown, AmountsAssumption DEF PageTypes, Entry
  <1>2. fees.low \in Nat /\ fees.std \in Nat /\ fees.high \in Nat
    BY PriceAssumption DEF PageShapes, NoFees
  <1>3. CASE stash.tx = NoTx
    <2> DEFINE owner == IF Asset = Coin THEN Nobody ELSE stash.owner
               new == NewTx("transfer", Asset)
               x == [new EXCEPT !.from = Entry, !.owner = owner, !.price = fees.std, !.spare = fees.std]
    <2>1. "transfer" \in Kinds \ Replacing
      BY DEF Kinds, Replacing
    <2>2. IsTx(new) /\ Readable(new, Asset) /\ new.asset = Asset
      BY <1>1, <2>1, NewIsReadable, NewIsTx
    <2>3. Screen = Holding(x, Entry, Asset, owner)
      BY <1>3 DEF Screen, Fresh, NoTx
    <2> HIDE DEF new, owner
    <2>4. IsTx(x) /\ Readable(x, Asset)
      BY <1>2, <2>2 DEF IsTx, TxFields, Readable
    <2> HIDE DEF x
    <2> QED BY <1>1, <2>3, <2>4, HoldingCounted
  <1>4. CASE stash.tx # NoTx
    <2> DEFINE x == stash.tx
               y == [x EXCEPT !.price = fees.std, !.spare = fees.std]
    <2>1. IsTx(x) /\ Counted(x)
      BY <1>4 DEF PageShapes, IsStash, PageTypes
    <2>2. x.kind \in Kinds
      BY <2>1 DEF IsTx
    <2> HIDE DEF x
    <2>3. IsTx(y) /\ Counted(y)
      BY <1>2, <2>1 DEF IsTx, TxFields, Counted
    <2>4. MergedFee(x) = x \/ MergedFee(x) = Rebalanced(y)
      BY DEF MergedFee, Priced
    <2> HIDE DEF y
    <2>5. IsTx(MergedFee(x)) /\ Same(MergedFee(x), x) /\ Counted(MergedFee(x))
      BY <2>1, <2>3, <2>4, MergedFeeSame, RebalancedCounted
    <2>6. ASSUME x.kind = "transfer", Asset = x.asset PROVE Counted(Merged(MergedFee(x)))
      <3> DEFINE m == MergedFee(x)
                 owner == IF m.asset = Coin THEN Nobody ELSE stash.owner
                 z == [m EXCEPT !.from = Entry, !.owner = owner]
                 new == Holding(z, Entry, Asset, owner)
      <3>1. m.kind = "transfer" /\ m.asset = Asset /\ IsTx(m) /\ Counted(m)
        BY <2>5, <2>6 DEF Same
      <3>2. Merged(m) \in {m, new, AllOrNothing(new)}
        BY DEF Merged
      <3> HIDE DEF m, owner
      <3>3. IsTx(z) /\ Readable(z, Asset)
        <4>1. Readable(m, Asset)
          BY <1>1, <3>1, CountedReads DEF Replacing
        <4> QED BY <3>1, <4>1 DEF IsTx, TxFields, Readable
      <3> HIDE DEF z
      <3>4. IsTx(new) /\ Counted(new)
        BY <1>1, <3>3, HoldingReads, HoldingCounted
      <3> HIDE DEF new
      <3>5. Counted(AllOrNothing(new))
        BY <3>4, RebalancedCounted
      <3>6. Counted(Merged(m))
        BY <3>1, <3>2, <3>4, <3>5
      <3> QED BY <3>6 DEF m
    <2>7. ASSUME x.kind \in {"transfer", "recovery"}
          PROVE  LET held == Holding(Remade(x), Entry, Asset, Nobody)
                 IN IsTx(held) /\ Counted(held) /\ held.kind = x.kind
      <3> DEFINE new == NewTx(x.kind, Asset)
                 price == IF x.price > 0 THEN x.price ELSE fees.std
                 v == [new EXCEPT !.from = Entry, !.to = x.to]
                 z == Priced(v, price)
      <3>1. IsTx(new) /\ Readable(new, Asset) /\ new.asset = Asset /\ new.kind = x.kind
        BY <1>1, <2>2, <2>7, NewIsReadable, NewIsTx DEF Replacing
      <3>2. price \in Nat
        BY <1>2, <2>1 DEF Counted
      <3>3. Remade(x) = z
        BY DEF Remade
      <3> HIDE DEF new, price
      <3>5. IsTx(v) /\ Readable(v, Asset) /\ v.kind = x.kind
        BY <3>1 DEF IsTx, TxFields, Readable
      <3> HIDE DEF v
      <3>4. IsTx(z) /\ Readable(z, Asset) /\ z.kind = x.kind
        BY <3>2, <3>5 DEF Priced, IsTx, TxFields, Readable
      <3> HIDE DEF z
      <3> QED BY <1>1, <3>3, <3>4, HoldingReads, HoldingCounted
    <2>8. ASSUME x.kind = "transfer" PROVE Counted(Converted(x))
      <3> DEFINE held == Holding(Remade(x), Entry, Asset, Nobody)
                 owner == IF Asset = Coin THEN Nobody
                          ELSE IF x.owner # Nobody THEN x.owner ELSE stash.owner
                 new == [held EXCEPT !.owner = owner]
                 manual == [new EXCEPT !.amount = x.amount]
                 all == [new EXCEPT !.target = "all"]
      <3>1. IsTx(held) /\ Counted(held) /\ held.kind = x.kind
        BY <2>7, <2>8
      <3>2. Converted(x) = manual \/ Converted(x) = AllOrNothing(all)
        BY DEF Converted
      <3> HIDE DEF held, owner
      <3>3. IsTx(new) /\ Counted(new) /\ new.kind = "transfer"
        BY <2>8, <3>1 DEF IsTx, TxFields, Counted
      <3> HIDE DEF new
      <3>4. Counted(manual)
        BY <2>1, <3>3 DEF IsTx, TxFields, Counted
      <3>5. IsTx(all) /\ Counted(all)
        BY <3>3 DEF IsTx, TxFields, Counted, Replacing
      <3> HIDE DEF manual, all
      <3> QED BY <3>2, <3>4, <3>5, RebalancedCounted
    <2>9. ASSUME x.kind = "recovery" PROVE Counted(RecoveryConverted(x))
      <3> DEFINE held == Holding(Remade(x), Entry, Asset, Nobody)
                 all == [held EXCEPT !.target = "all"]
      <3>1. IsTx(held) /\ Counted(held) /\ held.kind = x.kind
        BY <2>7, <2>9
      <3>2. RecoveryConverted(x) = Rebalanced(all)
        BY DEF RecoveryConverted
      <3> HIDE DEF held
      <3>3. IsTx(all) /\ Counted(all)
        BY <2>9, <3>1 DEF IsTx, TxFields, Counted, Replacing
      <3> HIDE DEF all
      <3> QED BY <3>2, <3>3, RebalancedCounted
    <2>10. ASSUME x.kind \in {"approve", "convert"} PROVE Counted(Retokened(x))
      <3> DEFINE asset == IF x.kind = "approve" /\ Asset = Coin THEN Head(Tokens) ELSE Asset
                 token == IF asset = Coin THEN Wrapped ELSE asset
                 z == [x EXCEPT !.asset = asset]
                 held == Holding(z, Entry, token, Nobody)
      <3>1. x.kind = "approve" => Head(Tokens) \in ToSet(Tokens)
        <4> SUFFICES ASSUME x.kind = "approve" PROVE Head(Tokens) \in ToSet(Tokens)
          OBVIOUS
        <4>1. Tokens # <<>>
          BY <2>1 DEF Counted
        <4> QED BY <4>1, AmountsAssumption
      <3>2. token \in ToSet(Tokens) /\ token # Coin
        BY <1>1, <2>1, <2>10, <3>1 DEF Known, Counted
      <3>3. Retokened(x) = Rebalanced(held)
        BY DEF Retokened
      <3> HIDE DEF asset, token
      <3>4. IsTx(z) /\ Readable(z, token)
        BY <1>1, <2>1, <2>10, <3>2 DEF IsTx, TxFields, Counted, Readable, Replacing, Known
      <3> HIDE DEF z
      <3>5. IsTx(held) /\ Counted(held)
        BY <1>1, <3>4, HoldingReads, HoldingCounted
      <3> HIDE DEF held
      <3> QED BY <3>3, <3>5, RebalancedCounted
    <2>11. Screen = (CASE x.kind = "transfer" -> IF Asset # x.asset THEN Converted(x)
                                                 ELSE Merged(MergedFee(x))
                      [] x.kind \in {"approve", "convert"} ->
                           IF Asset # x.asset THEN Retokened(x) ELSE MergedFee(x)
                      [] x.kind = "recovery" ->
                           IF Asset # x.asset THEN RecoveryConverted(x) ELSE MergedFee(x)
                      [] x.kind \in Replacing -> x)
      BY <1>4, <2>2 DEF Screen, x, Kinds, Replacing
    <2>12. x.kind \in {"transfer", "approve", "convert", "recovery"} \cup Replacing
      BY <2>2 DEF Kinds, Replacing
    <2> QED BY <2>1, <2>5, <2>6, <2>8, <2>9, <2>10, <2>11, <2>12 DEF Replacing
  <1> QED BY <1>3, <1>4

(* What a page is prepared with is counted.                                *)
LEMMA PreparedCounted ==
  ASSUME PageTypes, NEW purpose \in {"approve", "convert", "recovery"},
         NEW e \in ToSet(Entries), Senders(purpose) # {}
  PROVE  Counted(PreparedTx(purpose, e)) /\ PreparedTx(purpose, e).asset \in Known
  <1>1. holdings \in Holdings /\ Coin \notin ToSet(Tokens) /\ ToSet(Tokens) \subseteq Known /\ Coin \in Known
    BY AmountsAssumption DEF PageTypes, Known
  <1>2. purpose \in Kinds \ Replacing
    BY DEF Kinds, Replacing
  <1>3. \A kind \in {"approve", "convert"} : Kept(kind) = "max" => kind = "approve"
    BY DEF Kept, PageTypes, Counted, NoTx
  <1>4. CASE purpose = "approve"
    <2> DEFINE token == Head(Tokens)
               new == NewTx("approve", token)
               y == [new EXCEPT !.from = e, !.target = Kept("approve")]
               held == Holding(y, e, token, Nobody)
    <2>1. Tokens # <<>>
      BY <1>4 DEF Senders
    <2>2. token \in ToSet(Tokens)
      BY <2>1, AmountsAssumption
    <2>3. PreparedTx(purpose, e) = Rebalanced(held)
      BY <1>4 DEF PreparedTx, PreparedApprove
    <2> HIDE DEF token
    <2>4. token \in Known /\ token # Coin
      BY <1>1, <2>2
    <2>5. IsTx(new) /\ Readable(new, token) /\ new.asset = token /\ new.kind = "approve"
      BY <1>2, <1>4, <2>1, <2>4, NewIsReadable, NewIsTx
    <2> HIDE DEF new
    <2>6. IsTx(y) /\ Readable(y, token) /\ y.asset = token
      BY <2>5 DEF IsTx, TxFields, Readable
    <2> HIDE DEF y
    <2>7. IsTx(held) /\ Counted(held) /\ held.asset = token
      BY <1>1, <2>6, HoldingReads, HoldingCounted
    <2> HIDE DEF held
    <2> QED BY <2>3, <2>4, <2>7, RebalancedSame, RebalancedCounted DEF Same
  <1>5. CASE purpose = "convert"
    <2> DEFINE new == NewTx("convert", Coin)
               y == [new EXCEPT !.from = e, !.target = Kept("convert")]
               held == Holding(y, e, Wrapped, Nobody)
    <2>1. Wrapped \in ToSet(Tokens)
      BY <1>5 DEF Senders
    <2>2. PreparedTx(purpose, e) = held
      BY <1>5 DEF PreparedTx, PreparedConvert
    <2>3. IsTx(new) /\ Readable(new, Coin) /\ new.asset = Coin /\ new.kind = "convert"
      BY <1>1, <1>2, <1>5, <2>1, NewIsReadable, NewIsTx
    <2> HIDE DEF new
    <2>4. IsTx(y) /\ Readable(y, Wrapped) /\ y.asset = Coin
      BY <1>1, <1>3, <2>1, <2>3 DEF IsTx, TxFields, Readable
    <2> HIDE DEF y
    <2>5. IsTx(held) /\ Counted(held) /\ held.asset = Coin
      BY <1>1, <2>4, HoldingReads, HoldingCounted
    <2> HIDE DEF held
    <2> QED BY <1>1, <2>2, <2>5
  <1>6. CASE purpose = "recovery"
    <2> DEFINE some == {t \in ToSet(Tokens) : Own(e, t) > 0}
               asset == IF some = {} THEN Coin ELSE First(Tokens, some)
               new == NewTx("recovery", asset)
               to == First(Entries, Senders("recovery"))
               y == [new EXCEPT !.from = e, !.target = "all", !.to = to]
               held == Holding(y, e, asset, Nobody)
    <2>1. PreparedTx(purpose, e) = Rebalanced(held)
      BY <1>6 DEF PreparedTx, PreparedRecovery
    <2>2. asset \in Known
      <3>1. CASE some = {}
        BY <1>1, <3>1
      <3>2. CASE some # {}
        <4>1. PICK t \in ToSet(Tokens) : t \in some
          BY <3>2
        <4>2. PICK i \in DOMAIN Tokens : Tokens[i] = t
          BY <4>1 DEF ToSet
        <4> HIDE DEF some
        <4>3. First(Tokens, some) \in ToSet(Tokens)
          BY <4>1, <4>2, FirstIsIn, AmountsAssumption
        <4> QED BY <1>1, <3>2, <4>3
      <3> QED BY <3>1, <3>2
    <2> HIDE DEF asset, to
    <2>3. IsTx(new) /\ Readable(new, asset) /\ new.asset = asset /\ new.kind = "recovery"
      BY <1>2, <1>6, <2>2, NewIsReadable, NewIsTx
    <2> HIDE DEF new
    <2>4. IsTx(y) /\ Readable(y, asset) /\ y.asset = asset
      BY <2>3 DEF IsTx, TxFields, Readable
    <2> HIDE DEF y
    <2>5. IsTx(held) /\ Counted(held) /\ held.asset = asset
      BY <1>1, <2>2, <2>4, HoldingReads, HoldingCounted
    <2> HIDE DEF held
    <2> QED BY <2>1, <2>2, <2>5, RebalancedSame, RebalancedCounted DEF Same
  <1> QED BY <1>4, <1>5, <1>6

(* A page prepared with e, for a purpose that some entry may send for.     *)
LEMMA PreparedTypes ==
  ASSUME PageShapes, PageTypes, NEW purpose \in Kinds, NEW e \in ToSet(Entries),
         Senders(purpose) # {}
  PROVE  LET s == Prepared(purpose, e)
         IN /\ s.entry = stash.entry /\ s.own = stash.own /\ s.asset \in Known \cup {Nobody}
            /\ s.tx # NoTx => Counted(s.tx)
            /\ IsStash(s)
  <1>1. CASE purpose \in {"cancel", "speedup"}
    BY <1>1 DEF Prepared, PageTypes, PageShapes
  <1>2. CASE purpose = "transfer"
    <2>1. Prepared(purpose, e) = [stash EXCEPT !.preparing = FALSE]
      BY <1>2 DEF Prepared
    <2> QED BY <2>1 DEF PageTypes, PageShapes, IsStash, StashFields
  <1>3. CASE purpose \in {"approve", "convert", "recovery"}
    <2> DEFINE x == PreparedTx(purpose, e)
    <2>1. Counted(x) /\ x.asset \in Known /\ IsTx(x)
      BY <1>3, PreparedCounted, PreparedFits
    <2>2. Prepared(purpose, e) = [stash EXCEPT !.preparing = FALSE, !.tx = x, !.asset = x.asset]
      BY <1>3 DEF Prepared
    <2> HIDE DEF x
    <2> QED BY <2>1, <2>2 DEF PageTypes, PageShapes, IsStash, StashFields
  <1> QED BY <1>1, <1>2, <1>3 DEF Kinds

(* Only the stash, what is signed and the balances have these types.       *)
LEMMA TypesRest ==
  ASSUME PageTypes, UNCHANGED <<stash, signing, holdings>>
  PROVE  PageTypes'
  BY DEF PageTypes, Counted

(* An edit that is counted.                                                *)
LEMMA StoreTypes ==
  ASSUME NEW tx, PageShapes, PageTypes, Store(tx), Counted(tx)
  PROVE  PageTypes'
  <1>1. stash' = [stash EXCEPT !.tx = tx] /\ UNCHANGED <<signing, holdings>>
    BY DEF Store
  <1>2. /\ stash'.tx = tx /\ stash'.own = stash.own /\ stash'.entry = stash.entry
        /\ stash'.asset = stash.asset
    BY <1>1 DEF PageShapes, IsStash, StashFields
  <1> QED BY <1>1, <1>2 DEF PageTypes, Counted

(* Every edit of a field is.                                               *)
LEMMA EditsTyped ==
  PageShapes /\ OwnersLend /\ PageTypes
    /\ (EnterRecipient \/ EnterSum \/ SendMax \/ ApproveAll \/ SetPrice \/ SwitchScheme) => PageTypes'
  <1> SUFFICES ASSUME PageShapes, OwnersLend, PageTypes,
                      EnterRecipient \/ EnterSum \/ SendMax \/ ApproveAll \/ SetPrice \/ SwitchScheme
               PROVE  PageTypes'
    OBVIOUS
  <1> DEFINE x == Screen
  <1>1. Senders(page.purpose) # {}
    BY DEF EnterRecipient, EnterSum, SendMax, ApproveAll, SetPrice, SwitchScheme, MayEdit, Editing
  <1>2. IsTx(x) /\ Counted(x)
    BY <1>1, ScreenFacts, ScreenCounted
  <1>3. ASSUME NEW v PROVE Counted([x EXCEPT !.to = v])
    <2> HIDE DEF x
    <2> QED BY <1>2 DEF IsTx, TxFields, Counted
  <1>4. ASSUME NEW v \in Nat, x.kind \notin Replacing
        PROVE  Counted([x EXCEPT !.target = "manual", !.amount = v])
    <2> HIDE DEF x
    <2> QED BY <1>2, <1>4 DEF IsTx, TxFields, Counted
  <1>5. ASSUME NEW target, x.kind \notin Replacing, target = "max" => x.kind = "approve"
        PROVE  Counted(Rebalanced([x EXCEPT !.target = target]))
    <2> DEFINE y == [x EXCEPT !.target = target]
    <2> HIDE DEF x
    <2>1. IsTx(y) /\ Counted(y)
      BY <1>2, <1>5 DEF IsTx, TxFields, Counted
    <2> HIDE DEF y
    <2>2. Counted(Rebalanced(y))
      BY <2>1, RebalancedCounted
    <2> QED BY <2>2 DEF y
  <1>6. ASSUME NEW v \in Nat PROVE Counted(Priced(x, v))
    <2> HIDE DEF x
    <2> QED BY <1>2 DEF Priced, IsTx, TxFields, Counted
  <1>7. CASE EnterRecipient
    <2>1. PICK to : Store([x EXCEPT !.to = to])
      BY <1>7 DEF EnterRecipient
    <2> QED BY <1>3, <2>1, StoreTypes
  <1>8. CASE EnterSum
    <2>1. PICK sum \in Sums : Store([x EXCEPT !.target = "manual", !.amount = sum])
                              /\ x.kind \notin Replacing
      BY <1>8 DEF EnterSum, Replacing
    <2>2. sum \in Nat
      BY AmountsAssumption
    <2> QED BY <1>4, <2>1, <2>2, StoreTypes
  <1>9. CASE SendMax \/ ApproveAll
    <2>1. PICK target : /\ Store(Rebalanced([x EXCEPT !.target = target]))
                        /\ x.kind \notin Replacing /\ (target = "max" => x.kind = "approve")
      BY <1>9 DEF SendMax, ApproveAll, Replacing
    <2> QED BY <1>5, <2>1, StoreTypes
  <1>10. CASE SetPrice
    <2>1. PICK price \in {PriceRange.low, PriceRange.std, PriceRange.high} : Store(Priced(x, price))
      BY <1>10 DEF SetPrice
    <2>2. {fees.low, fees.std, fees.high} \subseteq Nat
      BY PriceAssumption DEF PageShapes, NoFees
    <2>3. price \in Nat
      BY <2>1, <2>2 DEF PageTypes, PriceRange
    <2> QED BY <1>6, <2>1, <2>3, StoreTypes
  <1>11. CASE SwitchScheme
    <2> DEFINE y == Switched(x)
    <2>1. Store(y) \/ Store(x)
      BY <1>11 DEF SwitchScheme
    <2> HIDE DEF x
    <2>2. Counted(y)
      BY <1>2 DEF Switched, IsTx, TxFields, Counted
    <2> HIDE DEF y
    <2> QED BY <1>2, <2>1, <2>2, StoreTypes
  <1> QED BY <1>7, <1>8, <1>9, <1>10, <1>11

(* A transaction to replace, as it is read and with its price raised.      *)
LEMMA RestoreTypes ==
  ASSUME NEW r \in restoring, EtherInv, PageTypes,
         RestoreArrives(r) \/ RestoreEnds(r) \/ RestoreFails(r)
  PROVE  PageTypes'
  <1>1. UNCHANGED <<signing, holdings>>
    BY DEF RestoreArrives, RestoreEnds, RestoreFails
  <1>2. PageShapes /\ RestoresPage
    BY DEF EtherInv
  <1>3. CASE stash' = stash
    BY <1>1, <1>3, TypesRest
  <1>4. CASE RestoreArrives(r) /\ stash' # stash
    <2> DEFINE o == r.of.original
               x == RestoredTx(r.of.purpose, o)
    <2>1. r.of \in Pages /\ r.of.purpose \in Replacing
      BY <1>2 DEF RestoresPage
    <2>2. o \in EtherOriginals
      BY <2>1, PageHasOriginal
    <2>3. o.amount \in Nat /\ o.gas \in Nat /\ o.price \in Nat /\ o.spare \in Nat
      BY <2>2, AmountsAssumption, PriceAssumption
    <2>4. Counted(x)
      <3> HIDE DEF o
      <3> QED BY <2>1, <2>3 DEF RestoredTx, NewTx, Unread, Counted, Replacing
    <2>5. stash' = [stash EXCEPT !.tx = x]
      BY <1>4 DEF RestoreArrives
    <2> HIDE DEF x
    <2>6. /\ stash'.tx = x /\ stash'.own = stash.own /\ stash'.entry = stash.entry
          /\ stash'.asset = stash.asset
      BY <1>2, <2>5 DEF PageShapes, IsStash, StashFields
    <2> QED BY <1>1, <2>4, <2>6 DEF PageTypes, Counted
  <1>5. CASE RestoreEnds(r)
    <2> DEFINE x == stash.tx
               top == MaxGasPrice(x)
               low == Greater(fees.low, Raised(top))
               high == Greater(fees.high, (top * 15) \div 10)
               own == [low |-> low, std |-> low, high |-> high]
               price == IF stash.stage = "setup" THEN Raised(x.price) ELSE x.price
               spare == IF stash.stage = "setup" THEN Raised(x.spare) ELSE x.spare
               y == [x EXCEPT !.price = price, !.spare = spare]
    <2>1. CASE x = NoTx
      <3>1. stash' = [stash EXCEPT !.preparing = FALSE]
        BY <1>5, <2>1 DEF RestoreEnds
      <3>2. /\ stash'.tx = stash.tx /\ stash'.own = stash.own /\ stash'.entry = stash.entry
            /\ stash'.asset = stash.asset
        BY <1>2, <3>1 DEF PageShapes, IsStash, StashFields
      <3> QED BY <1>1, <2>1, <3>2 DEF PageTypes
    <2>2. CASE x # NoTx
      <3>1. IsTx(x) /\ Counted(x)
        BY <1>2, <2>2 DEF PageShapes, IsStash, PageTypes
      <3>2. /\ x.price \in Nat /\ x.spare \in Nat /\ top \in Nat
            /\ fees.low \in Nat /\ fees.high \in Nat
        BY <1>2, <3>1, PriceAssumption DEF PageShapes, NoFees, Counted, MaxGasPrice
      <3> HIDE DEF top
      <3>3. /\ Raised(x.price) \in Nat /\ Raised(x.spare) \in Nat
            /\ Raised(top) \in Nat /\ (top * 15) \div 10 \in Nat
        BY <3>2 DEF Raised
      <3>4. low \in Nat /\ high \in Nat /\ price \in Nat /\ spare \in Nat
        BY <3>2, <3>3 DEF Greater
      <3>5. stash' = [stash EXCEPT !.preparing = FALSE, !.tx.price = price, !.tx.spare = spare,
                                   !.own = own]
        BY <1>5, <2>2 DEF RestoreEnds, top
      <3> HIDE DEF x, low, high, price, spare
      <3>6. Counted(y)
        BY <3>1, <3>4 DEF IsTx, TxFields, Counted
      <3>7. /\ stash'.tx = y /\ stash'.own = own /\ stash'.entry = stash.entry
            /\ stash'.asset = stash.asset
        BY <1>2, <3>5 DEF PageShapes, IsStash, StashFields, x
      <3>8. {own.low, own.std, own.high} \subseteq Nat
        BY <3>4
      <3> HIDE DEF y, own
      <3> QED BY <1>1, <3>6, <3>7, <3>8 DEF PageTypes, Counted
    <2> QED BY <2>1, <2>2
  <1>6. RestoreFails(r) => stash' = stash
    BY DEF RestoreFails
  <1> QED BY <1>3, <1>4, <1>5, <1>6

(* A page opens, or another entry or asset is chosen.                      *)
LEMMA ChoicesTyped ==
  ASSUME EtherInv, PageTypes, (\E p \in Pages : Open(p)) \/ ChooseAsset \/ ChooseEntry
  PROVE  PageTypes'
  <1>1. UNCHANGED <<signing, holdings>> /\ PageShapes
    BY DEF Open, ChooseAsset, ChooseEntry, EtherInv
  <1>2. CASE \E p \in Pages : Open(p)
    <2>1. PICK p \in Pages : Open(p)
      BY <1>2
    <2>2. CASE stash.stage # "setup"
      <3>1. stash' = stash
        BY <2>1, <2>2 DEF Open
      <3> QED BY <1>1, <3>1, TypesRest
    <2>3. CASE stash.stage = "setup"
      <3> DEFINE s == Prepared(p.purpose, EntryFor(p))
      <3>1. stash' = s /\ Senders(p.purpose) # {}
        BY <2>1, <2>3 DEF Open
      <3>2. EntryFor(p) \in ToSet(Entries)
        BY <3>1, EntryIsKnown DEF PageTypes
      <3>3. /\ s.entry = stash.entry /\ s.own = stash.own /\ s.asset \in Known \cup {Nobody}
            /\ s.tx # NoTx => Counted(s.tx)
        BY <1>1, <3>1, <3>2, PageHasOriginal, PreparedTypes
      <3> HIDE DEF s
      <3> QED BY <1>1, <3>1, <3>3 DEF PageTypes, Counted
    <2> QED BY <2>2, <2>3
  <1>3. CASE ChooseAsset
    <2>1. Senders(page.purpose) # {}
      BY <1>3 DEF ChooseAsset, MayEdit, Editing
    <2>2. PICK asset \in IF Screen.kind = "convert" THEN {Coin, Wrapped} ELSE Offered :
                 stash' = [stash EXCEPT !.asset = asset]
      BY <1>3 DEF ChooseAsset
    <2>3. Counted(Screen) /\ Offered \subseteq Known
      BY <1>1, <2>1, ScreenCounted, AssetIsKnown DEF PageTypes
    <2>4. asset \in Known
      BY <2>2, <2>3 DEF Counted, Known
    <2>5. /\ stash'.tx = stash.tx /\ stash'.own = stash.own /\ stash'.entry = stash.entry
          /\ stash'.asset = asset
      BY <1>1, <2>2 DEF PageShapes, IsStash, StashFields
    <2> QED BY <1>1, <2>4, <2>5 DEF PageTypes, Counted
  <1>4. CASE ChooseEntry
    <2>1. Senders(page.purpose) # {} /\ page # Closed
      BY <1>4 DEF ChooseEntry, MayEdit, Editing
    <2>2. PICK e \in Senders(page.purpose) : \E owner :
            \/ stash' = [stash EXCEPT !.entry = e, !.owner = owner]
            \/ stash' = [Prepared(page.purpose, e) EXCEPT !.entry = e, !.owner = owner]
      BY <1>4 DEF ChooseEntry
    <2>0. PICK owner :
            \/ stash' = [stash EXCEPT !.entry = e, !.owner = owner]
            \/ stash' = [Prepared(page.purpose, e) EXCEPT !.entry = e, !.owner = owner]
      BY <2>2
    <2>3. e \in ToSet(Entries)
      BY DEF Senders
    <2>4. page.purpose \in Kinds
      BY <1>1, <2>1, PageHasOriginal DEF PageShapes
    <2> DEFINE s == Prepared(page.purpose, e)
    <2>5. /\ s.own = stash.own /\ s.asset \in Known \cup {Nobody}
          /\ s.tx # NoTx => Counted(s.tx)
          /\ IsStash(s)
      BY <1>1, <2>1, <2>3, <2>4, PreparedTypes
    <2> HIDE DEF s
    <2>6. CASE stash' = [stash EXCEPT !.entry = e, !.owner = owner]
      <3>1. /\ stash'.tx = stash.tx /\ stash'.own = stash.own /\ stash'.entry = e
            /\ stash'.asset = stash.asset
        BY <1>1, <2>6 DEF PageShapes, IsStash, StashFields
      <3> QED BY <1>1, <2>3, <3>1 DEF PageTypes, Counted
    <2>7. CASE stash' = [s EXCEPT !.entry = e, !.owner = owner]
      <3>1. stash'.tx = s.tx /\ stash'.own = s.own /\ stash'.entry = e /\ stash'.asset = s.asset
        BY <2>5, <2>7 DEF IsStash, StashFields
      <3> QED BY <1>1, <2>3, <2>5, <3>1 DEF PageTypes, Counted
    <2> QED BY <2>0, <2>6, <2>7 DEF s
  <1> QED BY <1>2, <1>3, <1>4

(* An estimate, a signature, another balance; the page is left.            *)
LEMMA AnswersTyped ==
  ASSUME EtherInv, PageTypes,
         \/ FeesArrive \/ EstimateArrives \/ EstimateFails \/ BalanceMoves
         \/ StartSign \/ SignArrives \/ SignFails \/ Leave
  PROVE  PageTypes'
  <1>1. PageShapes
    BY DEF EtherInv
  <1>2. CASE FeesArrive \/ EstimateFails
    BY <1>2, TypesRest DEF FeesArrive, EstimateFails
  <1>3. CASE EstimateArrives
    <2>1. UNCHANGED <<signing, holdings>>
      BY <1>3 DEF EstimateArrives
    <2>2. CASE stash' = stash
      BY <2>1, <2>2, TypesRest
    <2>3. CASE stash' # stash
      <3>1. stash.tx # NoTx /\ \E i \in DOMAIN estimates :
               stash' = [stash EXCEPT !.tx.gas = GasOf(estimates[i])]
        BY <1>3, <2>3 DEF EstimateArrives
      <3>2. PICK gas \in Nat : stash' = [stash EXCEPT !.tx.gas = gas]
        <4>1. \A call : GasOf(call) \in Nat
          BY DEF GasOf
        <4> QED BY <3>1, <4>1
      <3> DEFINE x == stash.tx
                 y == [x EXCEPT !.gas = gas]
      <3>3. IsTx(x) /\ Counted(x)
        BY <1>1, <3>1 DEF PageShapes, IsStash, PageTypes
      <3>4. /\ stash'.tx = y /\ stash'.own = stash.own /\ stash'.entry = stash.entry
            /\ stash'.asset = stash.asset
        BY <1>1, <3>2 DEF PageShapes, IsStash, StashFields
      <3> HIDE DEF x
      <3>5. Counted(y)
        BY <3>3 DEF IsTx, TxFields, Counted
      <3> HIDE DEF y
      <3> QED BY <2>1, <3>4, <3>5 DEF PageTypes, Counted
    <2> QED BY <2>2, <2>3
  <1>4. CASE BalanceMoves
    <2>1. UNCHANGED <<stash, signing>> /\ holdings' \in Holdings
      BY <1>4 DEF BalanceMoves
    <2> QED BY <2>1 DEF PageTypes, Counted
  <1>5. CASE StartSign
    <2>1. UNCHANGED <<stash, holdings>> /\ stash.stage = "sign"
          /\ signing' = signing \cup {[page |-> opened, entry |-> stash.entry, tx |-> stash.tx]}
      BY <1>5 DEF StartSign
    <2>2. stash.tx # NoTx
      BY <2>1 DEF EtherInv, FinalSigned
    <2> QED BY <2>1, <2>2 DEF PageTypes, Counted
  <1>6. CASE SignFails
    <2>1. UNCHANGED <<stash, holdings>> /\ signing' \subseteq signing
      BY <1>6 DEF SignFails
    <2> QED BY <2>1 DEF PageTypes, Counted
  <1>7. CASE SignArrives
    <2>1. PICK s : /\ holdings' = holdings /\ signing' \subseteq signing
                   /\ stash' = [stash EXCEPT !.signed = IF stash.stage = "sign" THEN s ELSE @,
                                             !.stage = "broadcast"]
      BY <1>7 DEF SignArrives
    <2>2. /\ stash'.tx = stash.tx /\ stash'.own = stash.own /\ stash'.entry = stash.entry
          /\ stash'.asset = stash.asset
      BY <1>1, <2>1 DEF PageShapes, IsStash, StashFields
    <2> QED BY <2>1, <2>2 DEF PageTypes, Counted
  <1>8. CASE Leave
    <2>1. UNCHANGED <<signing, holdings>> /\ stash' = Blank
      BY <1>8 DEF Leave
    <2>2. /\ Blank.tx = NoTx /\ Blank.entry = Nobody /\ Blank.asset = Nobody
          /\ Blank.own.low = 0 /\ Blank.own.std = 0 /\ Blank.own.high = 0
      BY DEF Blank, NoFees
    <2> QED BY <2>1, <2>2 DEF PageTypes
  <1> QED BY <1>2, <1>3, <1>4, <1>5, <1>6, <1>7, <1>8

(* "Create Transaction" stores the object on the screen.                   *)
LEMMA CreateTyped == EtherInv /\ PageTypes /\ CreateTx => PageTypes'
  <1> SUFFICES ASSUME EtherInv, PageTypes, CreateTx PROVE PageTypes'
    OBVIOUS
  <1>1. PageShapes /\ Senders(page.purpose) # {}
    BY DEF EtherInv, CreateTx, Editing
  <1>2. stash' = [stash EXCEPT !.stage = "sign", !.entry = Entry, !.owner = Nobody, !.tx = Screen]
        /\ UNCHANGED <<signing, holdings>>
    BY DEF CreateTx
  <1>3. Counted(Screen) /\ Entry \in ToSet(Entries)
    BY <1>1, ScreenCounted, EntryIsKnown DEF Entry, PageTypes
  <1>4. /\ stash'.tx = Screen /\ stash'.own = stash.own /\ stash'.entry = Entry
        /\ stash'.asset = stash.asset
    BY <1>1, <1>2 DEF PageShapes, IsStash, StashFields
  <1> QED BY <1>2, <1>3, <1>4 DEF PageTypes, Counted

(* The pages keep their types, in every state.                             *)
LEMMA PageTyped == EtherSpec => [](EtherInv /\ PageTypes)
  <1>1. EtherInit => PageTypes
    <2>1. /\ Blank.tx = NoTx /\ Blank.entry = Nobody /\ Blank.asset = Nobody
          /\ Blank.own.low = 0 /\ Blank.own.std = 0 /\ Blank.own.high = 0
      BY DEF Blank, NoFees
    <2> QED BY <2>1 DEF EtherInit, PageTypes
  <1>2. EtherInv /\ PageTypes /\ [EtherNext]_etherVars => PageTypes'
    <2> SUFFICES ASSUME EtherInv, PageTypes, [EtherNext]_etherVars PROVE PageTypes'
      OBVIOUS
    <2>1. CASE \E r \in restoring : RestoreArrives(r) \/ RestoreEnds(r) \/ RestoreFails(r)
      BY <2>1, RestoreTypes
    <2>2. CASE (\E p \in Pages : Open(p)) \/ ChooseAsset \/ ChooseEntry
      BY <2>2, ChoicesTyped
    <2>3. CASE EnterRecipient \/ EnterSum \/ SendMax \/ ApproveAll \/ SetPrice \/ SwitchScheme
      BY <2>3, EditsTyped DEF EtherInv
    <2>4. CASE CreateTx
      BY <2>4, CreateTyped
    <2>5. CASE \/ FeesArrive \/ EstimateArrives \/ EstimateFails \/ BalanceMoves
               \/ StartSign \/ SignArrives \/ SignFails \/ Leave
      BY <2>5, AnswersTyped
    <2>6. CASE UNCHANGED etherVars
      BY <2>6, TypesRest DEF etherVars
    <2> QED BY <2>1, <2>2, <2>3, <2>4, <2>5, <2>6 DEF EtherNext
  <1> QED BY <1>1, <1>2, EtherInvariant, PTL DEF EtherSpec

(* The variables of the Ethereum pages have their types: every amount that *)
(* is computed, from balances, fees or what is replaced, is a number.      *)
THEOREM EtherTypes == EtherSpec => []EtherTypeOK
  <1>1. EtherInv /\ PageTypes => EtherTypeOK
    BY DEF EtherInv, PageShapes, IsStash, IsTx, FinalSigned, PageTypes, Counted, EtherTypeOK
  <1> QED BY <1>1, PageTyped, PTL

(* The pages of both kinds are those of the one and of the other: while a  *)
(* page of the one is open, those of the other rest.                       *)
LEMMA BothKinds == TransactionsSpec => Spec /\ EtherSpec
  <1>1. TransactionsInit => Init /\ EtherInit
    BY DEF TransactionsInit
  <1>2. [TransactionsNext]_<<chain, vars, etherVars>> => [Next]_vars /\ [EtherNext]_etherVars
    BY DEF TransactionsNext
  <1> QED BY <1>1, <1>2, PTL DEF TransactionsSpec, Spec, EtherSpec

(* The variables of the pages that create a transaction have their types.  *)
THEOREM TransactionTypes == TransactionsSpec => []Types
  <1>1. TypeOK /\ EtherTypeOK => Types
    BY DEF Types
  <1> QED BY <1>1, BothKinds, BitcoinTypes, EtherTypes, PTL

(* A page that goes to BROADCAST while it is open, and while the vault has *)
(* nothing of a page that was left, shows the transaction the vault just   *)
(* signed: what run ether_broadcast shows takes an answer to another page. *)
OwnAnswerIsSigned ==
  [][(/\ page # Closed /\ page' # Closed
      /\ stash.stage # "broadcast" /\ stash'.stage = "broadcast"
      /\ \A s \in signing : s.page = opened)
     => stash'.signed \in signing /\ stash'.signed.tx = stash'.tx]_etherVars

(* What edits, answers and requests make of the stash leaves its stage.    *)
LEMMA StageStays ==
  ASSUME IsStash(stash)
  PROVE  /\ \A v : [stash EXCEPT !.tx = v].stage = stash.stage
         /\ \A v : [stash EXCEPT !.asset = v].stage = stash.stage
         /\ \A v, w : [stash EXCEPT !.entry = v, !.owner = w].stage = stash.stage
         /\ \A v : [stash EXCEPT !.preparing = v].stage = stash.stage
         /\ \A u, v, w : [stash EXCEPT !.preparing = FALSE, !.tx.price = v, !.tx.spare = u, !.own = w].stage = stash.stage
         /\ \A v : [stash EXCEPT !.tx.gas = v].stage = stash.stage
         /\ \A p, e, v, w : [Prepared(p, e) EXCEPT !.entry = v, !.owner = w].stage = stash.stage
  <1>1. \A p, e : /\ Prepared(p, e) = [f \in StashFields |-> Prepared(p, e)[f]]
                 /\ Prepared(p, e).stage = stash.stage
    <2> SUFFICES ASSUME NEW p, NEW e
                 PROVE  /\ Prepared(p, e) = [f \in StashFields |-> Prepared(p, e)[f]]
                        /\ Prepared(p, e).stage = stash.stage
      OBVIOUS
    <2> DEFINE x == PreparedTx(p, e)
    <2>1. Prepared(p, e) \in {stash, [stash EXCEPT !.preparing = FALSE],
                             [stash EXCEPT !.preparing = FALSE, !.tx = x, !.asset = x.asset]}
      BY DEF Prepared
    <2> HIDE DEF x
    <2> QED BY <2>1 DEF IsStash, StashFields
  <1>2. \A p, e, v, w : [Prepared(p, e) EXCEPT !.entry = v, !.owner = w].stage = stash.stage
    BY <1>1 DEF StashFields
  <1> QED BY <1>2 DEF IsStash, StashFields

(* Only the answer of the vault takes an open page to BROADCAST.           *)
LEMMA BroadcastIsAnswered ==
  ASSUME EtherInv, EtherNext, page # Closed, page' # Closed,
         stash.stage # "broadcast", stash'.stage = "broadcast"
  PROVE  SignArrives
  <1>1. ~(\E p \in Pages : Open(p))
    BY DEF Open
  <1>2. /\ ~FeesArrive /\ ~EstimateFails /\ ~BalanceMoves /\ ~StartSign /\ ~SignFails /\ ~Leave
        /\ \A r : ~RestoreFails(r)
    BY DEF FeesArrive, EstimateFails, BalanceMoves, StartSign, SignFails, Leave, RestoreFails
  <1> DEFINE Stays == stash'.stage = stash.stage
  <1>3. IsStash(stash)
    BY DEF EtherInv, PageShapes
  <1>4. ASSUME NEW r, RestoreArrives(r) PROVE Stays
    BY <1>3, <1>4, StageStays DEF RestoreArrives
  <1>5. ASSUME NEW r, RestoreEnds(r) PROVE Stays
    BY <1>3, <1>5 DEF RestoreEnds, IsStash, StashFields
  <1>6. ASSUME NEW tx, Store(tx) PROVE Stays
    BY <1>3, <1>6, StageStays DEF Store
  <1>7. ASSUME EnterRecipient \/ EnterSum \/ SendMax \/ ApproveAll \/ SetPrice \/ SwitchScheme PROVE Stays
    BY <1>6, <1>7 DEF EnterRecipient, EnterSum, SendMax, ApproveAll, SetPrice, SwitchScheme
  <1>8. ASSUME ChooseAsset PROVE Stays
    BY <1>3, <1>8, StageStays DEF ChooseAsset
  <1>9. ASSUME ChooseEntry PROVE Stays
    <2>1. PICK e, owner :
            \/ stash' = [stash EXCEPT !.entry = e, !.owner = owner]
            \/ stash' = [Prepared(page.purpose, e) EXCEPT !.entry = e, !.owner = owner]
      BY <1>9 DEF ChooseEntry
    <2>2. CASE stash' = [stash EXCEPT !.entry = e, !.owner = owner]
      BY <1>3, <2>2 DEF IsStash, StashFields
    <2>3. CASE stash' = [Prepared(page.purpose, e) EXCEPT !.entry = e, !.owner = owner]
      BY <1>3, <2>3, StageStays
    <2> QED BY <2>1, <2>2, <2>3
  <1>10. ASSUME EstimateArrives PROVE Stays
    BY <1>3, <1>10, StageStays DEF EstimateArrives
  <1>11. ~CreateTx
    <2> SUFFICES ASSUME CreateTx PROVE FALSE
      OBVIOUS
    <2>1. stash'.stage = "sign"
      BY <1>3 DEF CreateTx, IsStash, StashFields
    <2> QED BY <2>1
  <1> QED
    BY <1>1, <1>2, <1>4, <1>5, <1>7, <1>8, <1>9, <1>10, <1>11 DEF EtherNext

(* For all entries, tokens, amounts and bounds: unless the vault still     *)
(* signs for a page that was left, an open page comes to BROADCAST with a  *)
(* transaction that was signed, and it is the one that the page shows.     *)
THEOREM OwnAnswersAreSigned == EtherSpec => OwnAnswerIsSigned
  <1> DEFINE Answered ==
        (/\ page # Closed /\ page' # Closed
         /\ stash.stage # "broadcast" /\ stash'.stage = "broadcast"
         /\ \A s \in signing : s.page = opened)
        => stash'.signed \in signing /\ stash'.signed.tx = stash'.tx
  <1>1. EtherInv /\ [EtherNext]_etherVars => [Answered]_etherVars
    <2> SUFFICES ASSUME EtherInv, EtherNext, page # Closed, page' # Closed,
                        stash.stage # "broadcast", stash'.stage = "broadcast",
                        \A s \in signing : s.page = opened
                 PROVE  stash'.signed \in signing /\ stash'.signed.tx = stash'.tx
      OBVIOUS
    <2>1. SignArrives
      BY BroadcastIsAnswered
    <2>2. PICK s \in signing :
            stash' = [stash EXCEPT !.signed = IF stash.stage = "sign" THEN s ELSE @,
                                   !.stage = "broadcast"]
      BY <2>1 DEF SignArrives
    <2>3. s.tx = stash.tx /\ stash.stage # "setup"
      BY DEF EtherInv, FinalSigned
    <2>4. IsStash(stash) /\ stash.stage = "sign"
      BY <2>3 DEF EtherInv, PageShapes, IsStash, StashFields
    <2>5. stash'.signed = s /\ stash'.tx = stash.tx
      BY <2>2, <2>4 DEF IsStash, StashFields
    <2> QED BY <2>3, <2>5
  <1> QED BY <1>1, EtherInvariant, PTL DEF EtherSpec, OwnAnswerIsSigned

=============================================================================
