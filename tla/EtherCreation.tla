---------------------------- MODULE EtherCreation ----------------------------
(***************************************************************************)
(* The pages that create an Ethereum transaction: a transfer, an approval, *)
(* a conversion, a recovery from a wrong address, or the cancellation or   *)
(* speed-up of one that waits.  The stash keeps the plain transaction and  *)
(* the choices; TxBuilder makes the object on the screen from them and     *)
(* from the balances whenever the store changes.  The fees, the gas, the   *)
(* transaction that is replaced and the signature are asked for, and what  *)
(* comes late finds the stash as it is then, of whatever page.             *)
(***************************************************************************)
EXTENDS EtherTx, SequencesExt

CONSTANTS Purposes,     \* what pages are opened for
          Entries,      \* the entries of the wallet, on one blockchain
          Disabled,     \* entries made for a recovery: they receive nothing
          Tokens,       \* the registered tokens, in their order
          Recipients, Contracts,  \* addresses to send to, those with code among them
          Sums,         \* amounts that may be typed
          FeeRanges,    \* fee ranges [low, std, high] that may be fetched
          Holdings,     \* what may be held: [coins, tokens, allowed], by entry
          EtherOriginals, \* transactions to replace, as the API returns them: a legacy
                          \* one has no price of the other scheme (spare 0)
          MaxPages,     \* bound of the pages opened
          MaxSteps      \* bound of the pages opened, edits and changes of a balance

VARIABLES page,       \* CreateTransaction: purpose, entry, what it replaces
          stash,      \* the transaction stash
          fees,       \* stash: fees of the blockchain, kept by a reset
          feeAsked,   \* the fees are being fetched
          estimates,  \* calls whose gas is being estimated, the oldest first
          restoring,  \* transactions to replace that are being read
          signing,    \* what the vault was given to sign
          holdings,   \* balances and allowances of the store
          opened,     \* the number of the page
          steps,      \* counted against MaxSteps
          doubt       \* history, of this page: see NoDoubt

etherVars == <<page, stash, fees, feeAsked, estimates, restoring, signing, holdings,
               opened, steps, doubt>>

NoTx == [kind |-> "none"]
Closed == [purpose |-> "none"]
Missing == [method |-> "missing"]
NoFees == [low |-> 0, std |-> 0, high |-> 0]
Blank == [stage |-> "setup", preparing |-> TRUE, entry |-> Nobody, owner |-> Nobody,
          asset |-> Nobody, tx |-> NoTx, own |-> NoFees, signed |-> NoTx]

\* guess: the gas is not the answer to the last edit, or that was of the owner
\* before.  moved: a balance changed on the way.  misread: a balance was read for
\* the wrong owner.  strayed: the answer to another page was taken.
NoDoubt == [guess |-> TRUE, moved |-> FALSE, misread |-> FALSE, strayed |-> FALSE]

\* Prices are not negative, an entry is somebody, an original is something.
ASSUME PriceAssumption ==
  /\ \A range \in FeeRanges : {range.low, range.std, range.high} \subseteq Nat
  /\ \A original \in EtherOriginals : {original.price, original.spare} \subseteq Nat
ASSUME NamesAssumption == Nobody \notin ToSet(Entries) /\ Missing \notin EtherOriginals

\* Amounts are not negative, and the coin is not a token.
ASSUME AmountsAssumption ==
  /\ Sums \cup {Infinite} \subseteq Nat
  /\ \A held \in Holdings :
       /\ held.coins \in [ToSet(Entries) -> Nat]
       /\ {held.tokens, held.allowed} \subseteq [ToSet(Entries) -> [ToSet(Tokens) -> Nat]]
  /\ \A original \in EtherOriginals : original.amount \in Nat /\ original.gas \in Nat
  /\ Entries \in Seq(ToSet(Entries)) /\ Tokens \in Seq(ToSet(Tokens)) /\ Coin \notin ToSet(Tokens)

-----------------------------------------------------------------------------
(* What SetupTransaction makes of the stash.                               *)
First(list, S) ==
  list[CHOOSE i \in DOMAIN list :
         list[i] \in S /\ \A j \in DOMAIN list : list[j] \in S => i <= j]

Own(e, asset) == IF asset = Coin THEN holdings.coins[e] ELSE holdings.tokens[e][asset]
Balance(e, asset, owner) ==
  IF asset = Coin \/ owner = Nobody THEN Own(e, asset) ELSE holdings.allowed[e][asset]

Senders(purpose) ==
  {e \in ToSet(Entries) \ Disabled :
     /\ purpose = "approve" => Tokens # <<>>
     /\ purpose = "convert" => Wrapped \in ToSet(Tokens)
     /\ purpose \in {"approve", "convert"} => Own(e, Coin) > 0}

EntryFor(p) ==
  IF stash.entry # Nobody THEN stash.entry
  ELSE IF p.entry \in Senders(p.purpose) THEN p.entry
  ELSE First(Entries, Senders(p.purpose))
Entry == EntryFor(page)

Offered == (IF page.purpose # "approve" /\ stash.owner = Nobody THEN {Coin} ELSE {})
           \cup {t \in ToSet(Tokens) : Balance(Entry, t, stash.owner) > 0}

Asset ==
  LET asset == IF stash.asset = Nobody THEN Coin ELSE stash.asset
  IN IF Offered = {} \/ asset \in Offered THEN asset ELSE First(<<Coin>> \o Tokens, Offered)

\* The balances of an object for asset: the coins, and the tokens if it is one.
Holding(tx, e, asset, owner) ==
  [tx EXCEPT !.coins = Own(e, Coin),
             !.tokens = IF asset = Coin THEN tx.tokens ELSE Balance(e, asset, owner)]

-----------------------------------------------------------------------------
(* TxBuilder: the object on the screen.                                    *)
Fresh ==
  LET owner == IF Asset = Coin THEN Nobody ELSE stash.owner
  IN Holding([NewTx("transfer", Asset) EXCEPT !.from = Entry, !.owner = owner,
                                            !.price = fees.std, !.spare = fees.std],
             Entry, Asset, owner)

Priced(tx, price) == [tx EXCEPT !.price = price, !.spare = price]
MergedFee(tx) == IF tx.price = 0 THEN Rebalanced(Priced(tx, fees.std)) ELSE tx

AllOrNothing(tx) ==
  IF Rebalances(tx) THEN Rebalanced(tx) ELSE [tx EXCEPT !.target = "manual", !.amount = 0]

\* Mutant of Merged: the new sender's balances are not read.
MergedStale(tx) == [tx EXCEPT !.from = Entry, !.owner = IF tx.asset = Coin THEN Nobody ELSE stash.owner]

\* Another sender, or another owner of the tokens.
Merged(tx) ==
  IF tx.from = Entry /\ tx.owner = stash.owner THEN tx
  ELSE LET owner == IF tx.asset = Coin THEN Nobody ELSE stash.owner
           new == Holding([tx EXCEPT !.from = Entry, !.owner = owner], Entry, Asset, owner)
       IN IF tx.target = "all" THEN AllOrNothing(new) ELSE new

\* The object for another asset.  The price stays; the gas is the default.
Remade(tx) ==
  Priced([NewTx(tx.kind, Asset) EXCEPT !.from = Entry, !.to = tx.to],
         IF tx.price > 0 THEN tx.price ELSE fees.std)

\* The owner is set after the balance was read: it is the entry's own.
Converted(tx) ==
  LET owner == IF Asset = Coin THEN Nobody
               ELSE IF tx.owner # Nobody THEN tx.owner ELSE stash.owner
      new == [Holding(Remade(tx), Entry, Asset, Nobody) EXCEPT !.owner = owner]
  IN IF tx.target = "manual" THEN [new EXCEPT !.amount = tx.amount]
                             ELSE AllOrNothing([new EXCEPT !.target = "all"])

RecoveryConverted(tx) ==
  Rebalanced([Holding(Remade(tx), Entry, Asset, Nobody) EXCEPT !.target = "all"])

\* setToken() of an approval or a conversion: the fee is not merged.
Retokened(tx) ==
  LET asset == IF tx.kind = "approve" /\ Asset = Coin THEN Head(Tokens) ELSE Asset
      token == IF asset = Coin THEN Wrapped ELSE asset
  IN Rebalanced(Holding([tx EXCEPT !.asset = asset], Entry, token, Nobody))

Screen ==
  LET tx == stash.tx
      other == tx # NoTx /\ Asset # tx.asset
  IN CASE tx = NoTx -> Fresh
       [] tx.kind = "transfer" -> IF other THEN Converted(tx) ELSE Merged(MergedFee(tx))
       [] tx.kind \in {"approve", "convert"} -> IF other THEN Retokened(tx) ELSE MergedFee(tx)
       [] tx.kind = "recovery" -> IF other THEN RecoveryConverted(tx) ELSE MergedFee(tx)
       [] OTHER -> tx

-----------------------------------------------------------------------------
(* The gas of a call is estimated by the node, for transfers and (except   *)
(* of coins) replacements that have a receiver.                            *)
GasOf(call) ==
  (CASE call.method = "none" -> 1 [] call.method = "transfer" -> 2 [] OTHER -> 3)
  + (IF call.to \in Contracts THEN 1 ELSE 0)

Asks(tx) ==
  /\ tx # NoTx
  /\ tx.kind \in {"transfer", "speedup"} \/ (tx.kind = "cancel" /\ tx.asset # Coin)
  /\ tx.to # Nobody

\* Mutant of Asked: one call is estimated at a time.
AskedOnce(tx) == IF Asks(tx) /\ estimates = <<>> THEN Append(estimates, Call(tx)) ELSE estimates
Asked(tx) == IF Asks(tx) THEN Append(estimates, Call(tx)) ELSE estimates

-----------------------------------------------------------------------------
(* prepareTransaction(): what a page, or another entry, starts with.       *)
Kept(kind) == IF stash.tx.kind = kind THEN stash.tx.target ELSE "manual"

PreparedApprove(e) ==
  Rebalanced(Holding([NewTx("approve", Head(Tokens)) EXCEPT !.from = e, !.target = Kept("approve")],
                    e, Head(Tokens), Nobody))

PreparedConvert(e) ==
  Holding([NewTx("convert", Coin) EXCEPT !.from = e, !.target = Kept("convert")], e, Wrapped, Nobody)

PreparedRecovery(e) ==
  LET held == {t \in ToSet(Tokens) : Own(e, t) > 0}
      asset == IF held = {} THEN Coin ELSE First(Tokens, held)
  IN Rebalanced(Holding([NewTx("recovery", asset) EXCEPT
                          !.from = e, !.target = "all", !.to = First(Entries, Senders("recovery"))],
                       e, asset, Nobody))

PreparedTx(purpose, e) ==
  CASE purpose = "approve" -> PreparedApprove(e)
    [] purpose = "convert" -> PreparedConvert(e)
    [] purpose = "recovery" -> PreparedRecovery(e)
    [] OTHER -> stash.tx

\* A replacement is prepared when it was read.
Prepared(purpose, e) ==
  CASE purpose \in {"cancel", "speedup"} -> stash
    [] purpose = "transfer" -> [stash EXCEPT !.preparing = FALSE]
    [] OTHER -> [stash EXCEPT !.preparing = FALSE, !.tx = PreparedTx(purpose, e),
                              !.asset = PreparedTx(purpose, e).asset]

\* Fees that are there may be too old.
AskFees == \E old \in BOOLEAN : feeAsked' = (feeAsked \/ fees = NoFees \/ old)

Steps == steps < MaxSteps /\ steps' = steps + 1

EtherInit ==
  /\ page = Closed /\ stash = Blank
  /\ fees \in FeeRanges \cup {NoFees} /\ feeAsked = FALSE
  /\ estimates = <<>> /\ restoring = {} /\ signing = {}
  /\ holdings \in Holdings
  /\ opened = 0 /\ steps = 0 /\ doubt = NoDoubt

\* The stash is not reset when a page opens.  A recovery needs coins for its fee.
\* A page to edit on throws when no entry may send.
Open(p) ==
  /\ page = Closed /\ opened < MaxPages /\ Steps
  /\ stash.stage = "setup" => Senders(p.purpose) # {}
  /\ p.purpose = "recovery" => Own(p.entry, Coin) > 0 /\ Own(EntryFor(p), Coin) > 0
  /\ page' = p /\ opened' = opened + 1
  /\ doubt' = [NoDoubt EXCEPT !.strayed = stash # Blank]
  /\ IF stash.stage = "setup"
     THEN /\ stash' = Prepared(p.purpose, EntryFor(p))
          /\ estimates' = Asked(stash'.tx)
          /\ AskFees
          /\ restoring' = restoring \cup
               IF p.purpose \in {"cancel", "speedup"}
               THEN {[page |-> opened', of |-> p, found |-> FALSE, fee |-> ~feeAsked']} ELSE {}
     ELSE UNCHANGED <<stash, estimates, feeAsked, restoring>>
  /\ UNCHANGED <<fees, signing, holdings>>

FeesArrive ==
  /\ feeAsked /\ feeAsked' = FALSE
  /\ fees' \in FeeRanges
  /\ restoring' = {[r EXCEPT !.fee = TRUE] : r \in restoring}
  /\ UNCHANGED <<page, stash, estimates, signing, holdings, opened, steps, doubt>>

-----------------------------------------------------------------------------
(* A transaction to replace: an approval is restored as the transfer of    *)
(* its amount to the spender.                                              *)
RestoredTx(purpose, o) ==
  [NewTx(purpose, o.contract) EXCEPT
     !.amount = o.amount, !.from = o.from, !.to = o.to, !.owner = o.owner,
     !.gas = o.gas, !.eip1559 = o.eip1559, !.price = o.price, !.spare = o.spare,
     !.nonce = o.nonce]

Stray(n) == [doubt EXCEPT !.strayed = @ \/ page = Closed \/ n # opened]

\* The API may not know it any more.
RestoreArrives(r) ==
  /\ ~r.found
  /\ restoring' = (restoring \ {r}) \cup {[r EXCEPT !.found = TRUE]}
  /\ \/ /\ stash.stage = "setup"
        /\ stash' = [stash EXCEPT !.tx = RestoredTx(r.of.purpose, r.of.original)]
        /\ doubt' = Stray(r.page)
     \/ UNCHANGED <<stash, doubt>>
  /\ UNCHANGED <<page, fees, feeAsked, estimates, signing, holdings, opened, steps>>

Greater(a, b) == IF a > b THEN a ELSE b

\* Mutant of Raised: the price stays.
RaisedNot(price) == price
Raised(price) == (price * 11) \div 10

\* recalculateFee(), of whatever the stash holds then.  The range is that of the
\* maximal gas price, which is zero, and never missing, for a legacy transaction.
RestoreEnds(r) ==
  /\ r.found /\ r.fee
  /\ restoring' = restoring \ {r}
  /\ LET tx == stash.tx
         low == Greater(fees.low, Raised(MaxGasPrice(tx)))
         ready == [stash EXCEPT !.preparing = FALSE]
     IN IF tx = NoTx THEN stash' = ready
        ELSE stash' = [ready EXCEPT
               !.tx.price = IF stash.stage = "setup" THEN Raised(@) ELSE @,
               !.tx.spare = IF stash.stage = "setup" THEN Raised(@) ELSE @,
               !.own = [low |-> low, std |-> low,
                        high |-> Greater(fees.high, (MaxGasPrice(tx) * 15) \div 10)]]
  /\ doubt' = Stray(r.page)
  /\ UNCHANGED <<page, fees, feeAsked, estimates, signing, holdings, opened, steps>>

\* A request was rejected: the page keeps preparing.
RestoreFails(r) ==
  /\ restoring' = restoring \ {r}
  /\ UNCHANGED <<page, stash, fees, feeAsked, estimates, signing, holdings, opened, steps,
                 doubt>>

-----------------------------------------------------------------------------
Editing ==
  /\ page # Closed /\ stash.stage = "setup" /\ ~stash.preparing
  /\ Senders(page.purpose) # {}
MayEdit == Editing /\ Steps

\* The balance of a conversion to a token on an allowance is the entry's own.
\* The allowance may be one that was chosen before.
Misread == stash.tx.kind = "transfer" /\ Asset # stash.tx.asset /\ Screen.owner # Nobody

\* With an owner chosen before, the object that follows is another.
Outlived(tx) == tx.asset # Coin /\ tx.owner # stash.owner

\* setTransaction(), and the estimate that follows it.
Store(tx) ==
  /\ MayEdit
  /\ stash' = [stash EXCEPT !.tx = tx]
  /\ estimates' = Asked(tx)
  /\ doubt' = [doubt EXCEPT !.guess = ~Asks(tx) \/ Outlived(tx), !.misread = @ \/ Misread]
  /\ UNCHANGED <<page, fees, feeAsked, restoring, signing, holdings, opened>>

EnterRecipient ==
  \/ /\ MayEdit /\ Screen.kind \in {"transfer", "approve"}
     /\ \E to \in Recipients : Store([Screen EXCEPT !.to = to])
  \/ /\ MayEdit /\ Screen.kind = "recovery"
     /\ \E to \in Senders("recovery") : Store([Screen EXCEPT !.to = to])

EnterSum ==
  /\ MayEdit /\ Screen.kind \in {"transfer", "approve", "convert"}
  /\ \E sum \in Sums : Store([Screen EXCEPT !.target = "manual", !.amount = sum])

\* The "Max" button.
SendMax ==
  /\ MayEdit /\ Screen.kind \in {"transfer", "convert"} /\ fees # NoFees
  /\ Store(Rebalanced([Screen EXCEPT !.target = "all"]))

ApproveAll ==
  /\ MayEdit /\ Screen.kind = "approve"
  /\ \E target \in {"max", "infinite"} : Store(Rebalanced([Screen EXCEPT !.target = target]))

\* The range of the panel, which is disabled without one.
IsReplacement(tx) == tx.kind \in {"cancel", "speedup"}
PriceRange == IF IsReplacement(Screen) THEN stash.own ELSE fees

\* The prices of both schemes are set.  What is to be sent is not computed again.
SetPrice ==
  /\ MayEdit /\ PriceRange # NoFees
  /\ \E price \in {PriceRange.low, PriceRange.std, PriceRange.high} : Store(Priced(Screen, price))

\* "Use EIP-1559": the price is that of the other scheme.
Switched(tx) == [tx EXCEPT !.eip1559 = ~@, !.price = tx.spare, !.spare = tx.price]
SwitchScheme ==
  /\ MayEdit /\ PriceRange # NoFees
  /\ Store(IF IsReplacement(Screen) THEN Switched(Screen) ELSE Screen)

\* The estimate is of the transaction as it was.
ChooseAsset ==
  /\ MayEdit /\ Screen.kind \in {"transfer", "approve", "convert", "recovery"}
  /\ Screen.kind = "convert" => fees # NoFees
  /\ \E asset \in IF Screen.kind = "convert" THEN {Coin, Wrapped} ELSE Offered :
        stash' = [stash EXCEPT !.asset = asset]
  /\ estimates' = Asked(stash.tx)
  /\ doubt' = [doubt EXCEPT !.guess = TRUE]
  /\ UNCHANGED <<page, fees, feeAsked, restoring, signing, holdings, opened>>

\* Tokens of an owner who allowed it may be chosen with the entry.
Lenders(e) == {Nobody} \cup
  IF Screen.kind = "transfer" /\ \E t \in ToSet(Tokens) : holdings.allowed[e][t] > 0
  THEN {"owner"} ELSE {}

ChooseEntry ==
  /\ MayEdit /\ Screen.kind \in {"transfer", "approve", "convert"}
  /\ \E e \in Senders(page.purpose) : \E owner \in Lenders(e) :
       LET chosen == [stash EXCEPT !.entry = e, !.owner = owner]
           ready == Prepared(page.purpose, e)
       IN IF e = Entry
          THEN stash' = chosen /\ UNCHANGED <<estimates, feeAsked>>
          ELSE /\ stash' = [ready EXCEPT !.entry = e, !.owner = owner]
               /\ estimates' = Asked(ready.tx)
               /\ AskFees
  /\ doubt' = [doubt EXCEPT !.guess = TRUE]
  /\ UNCHANGED <<page, fees, restoring, signing, holdings, opened>>

\* The gas is set on what the stash holds; an older estimate may come after.
EstimateArrives ==
  \E i \in DOMAIN estimates :
    /\ estimates' = RemoveAt(estimates, i)
    /\ IF stash.stage = "setup" /\ stash.tx # NoTx
       THEN /\ stash' = [stash EXCEPT !.tx.gas = GasOf(estimates[i])]
            /\ doubt' = [doubt EXCEPT !.guess = @ \/ i > 1]
       ELSE UNCHANGED <<stash, doubt>>
    /\ UNCHANGED <<page, fees, feeAsked, restoring, signing, holdings, opened, steps>>

EstimateFails ==
  \E i \in DOMAIN estimates :
    /\ estimates' = RemoveAt(estimates, i)
    /\ doubt' = [doubt EXCEPT !.guess = @ \/ (stash.stage = "setup" /\ i = Len(estimates))]
    /\ UNCHANGED <<page, stash, fees, feeAsked, restoring, signing, holdings, opened, steps>>

BalanceMoves ==
  /\ Steps
  /\ holdings' \in Holdings \ {holdings}
  /\ doubt' = [doubt EXCEPT !.moved = TRUE, !.guess = @ \/ stash.stage = "setup"]
  /\ UNCHANGED <<page, stash, fees, feeAsked, estimates, restoring, signing, opened>>

-----------------------------------------------------------------------------
\* "Create Transaction": the entry signs, whoever owns the tokens.
CreateTx ==
  /\ Editing /\ fees # NoFees /\ Validates(Screen)
  /\ stash' = [stash EXCEPT !.stage = "sign", !.entry = Entry, !.owner = Nobody, !.tx = Screen]
  /\ estimates' = Asked(Screen)
  /\ doubt' = [doubt EXCEPT !.guess = @ \/ estimates # <<>>, !.misread = @ \/ Misread]
  /\ UNCHANGED <<page, fees, feeAsked, restoring, signing, holdings, opened, steps>>

\* The nonce is asked for and the vault, maybe a device, signs.
StartSign ==
  /\ page # Closed /\ stash.stage = "sign"
  /\ \A s \in signing : s.page # opened
  /\ signing' = signing \cup {[page |-> opened, entry |-> stash.entry, tx |-> stash.tx]}
  /\ UNCHANGED <<page, stash, fees, feeAsked, estimates, restoring, holdings, opened, steps,
                 doubt>>

\* setSigned() is for SIGN alone, setStage() only goes forward.
SignArrives ==
  \E s \in signing :
    /\ s.entry = s.tx.from
    /\ signing' = signing \ {s}
    /\ stash' = [stash EXCEPT !.signed = IF stash.stage = "sign" THEN s ELSE @,
                              !.stage = "broadcast"]
    /\ UNCHANGED <<page, fees, feeAsked, estimates, restoring, holdings, opened, steps,
                   doubt>>

SignFails ==
  \E s \in signing :
    /\ signing' = signing \ {s}
    /\ UNCHANGED <<page, stash, fees, feeAsked, estimates, restoring, holdings, opened, steps,
                   doubt>>

Leave ==
  /\ page # Closed
  /\ page' = Closed /\ stash' = Blank /\ doubt' = NoDoubt
  /\ UNCHANGED <<fees, feeAsked, estimates, restoring, signing, holdings, opened, steps>>

\* An approval and a conversion are opened without an entry.
Pages ==
  {[purpose |-> p, entry |-> e, original |-> Missing] :
     p \in Purposes \cap {"transfer"}, e \in ToSet(Entries) \ Disabled}
  \cup {[purpose |-> p, entry |-> Nobody, original |-> Missing] :
          p \in Purposes \cap {"approve", "convert"}}
  \cup {[purpose |-> p, entry |-> e, original |-> Missing] :
          p \in Purposes \cap {"recovery"}, e \in Disabled}
  \cup {[purpose |-> p, entry |-> o.from, original |-> o] :
          p \in Purposes \cap {"cancel", "speedup"}, o \in EtherOriginals}

EtherNext ==
  \/ \E p \in Pages : Open(p)
  \/ FeesArrive
  \/ \E r \in restoring : RestoreArrives(r) \/ RestoreEnds(r) \/ RestoreFails(r)
  \/ EnterRecipient \/ EnterSum \/ SendMax \/ ApproveAll \/ SetPrice \/ SwitchScheme
  \/ ChooseAsset \/ ChooseEntry
  \/ EstimateArrives \/ EstimateFails \/ BalanceMoves
  \/ CreateTx \/ StartSign \/ SignArrives \/ SignFails \/ Leave

EtherSpec == EtherInit /\ [][EtherNext]_etherVars

-----------------------------------------------------------------------------
(* Types: the stash and what is under way are as the code keeps them.      *)
Kinds == {"transfer", "approve", "convert", "recovery", "cancel", "speedup"}
EtherTypeOK ==
  /\ stash.stage \in {"setup", "sign", "broadcast"} /\ stash.preparing \in BOOLEAN
  /\ stash.tx # NoTx =>
       /\ stash.tx.kind \in Kinds
       /\ stash.tx.amount \in Nat /\ stash.tx.gas \in Nat
       /\ {stash.tx.price, stash.tx.spare} \subseteq Nat
  /\ fees \in FeeRanges \cup {NoFees}
  /\ \A s \in signing : s.page \in 1 .. opened /\ s.tx # NoTx

\* A price that was chosen is that of both schemes.
KeepsPrice(tx) == tx.eip1559 = page.original.eip1559 /\ (tx.eip1559 \/ tx.price # tx.spare)

SignedHere == page # Closed /\ stash.signed # NoTx /\ stash.signed.page = opened

(* What the vault signed is what the page shows, and can be paid for from  *)
(* what the sender, or the owner who lent it, holds: "all" leaves nothing. *)
(* Unless a balance moved, was read for another owner (TxBuilder.ts:241),  *)
(* or the answer to another page was taken.                                *)
SignedIsSound ==
  SignedHere =>
    LET tx == stash.signed.tx
        tokens == Balance(tx.from, tx.asset, tx.owner)
    IN /\ tx = stash.tx
       /\ (tx.kind \in {"transfer", "convert", "recovery"}
           /\ ~doubt.moved /\ ~doubt.misread /\ ~doubt.strayed)
          => /\ Covered(tx, Own(tx.from, Coin), tokens)
             /\ tx.target = "all" => IsAll(tx, Own(tx.from, Coin), tokens)

(* A replacement is of the transaction the page was opened for, in its     *)
(* place.  It pays at least a tenth more (rounded down) for its gas: with  *)
(* EIP-1559 whatever is chosen on the way; a legacy one only as the page   *)
(* prepared it, since its slider starts at the network's low price         *)
(* (restore.ts:112); and neither does with the scheme of the other.        *)
ReplacementRaises ==
  (SignedHere /\ ~doubt.strayed /\ stash.signed.tx.kind \in {"cancel", "speedup"}) =>
    /\ page.original # Missing
    /\ stash.signed.tx.from = page.original.from
    /\ stash.signed.tx.nonce = page.original.nonce
    /\ KeepsPrice(stash.signed.tx) => 10 * (stash.signed.tx.price + 1) > 11 * page.original.price

(* The gas of a transfer is what the node estimated for that very call,    *)
(* unless the estimate is late, failed or was overtaken, the asset or the  *)
(* entry was the last choice, or the owner of the tokens was left over.    *)
GasIsItsOwn ==
  (page # Closed /\ stash.stage = "sign" /\ stash.tx.kind = "transfer" /\ ~doubt.guess) =>
    stash.tx.gas = GasOf(Call(stash.tx))

(* "Signed transaction not provided!" (BroadcastTransaction.tsx): a page   *)
(* that is to broadcast has a signed transaction.                          *)
BroadcastIsSigned ==
  (page # Closed /\ stash.stage = "broadcast") => stash.signed # NoTx
=============================================================================
