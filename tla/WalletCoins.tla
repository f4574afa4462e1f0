----------------------------- MODULE WalletCoins -----------------------------
(***************************************************************************)
(* extension/lib/wallet.js, with runes.js, swap.js, runebid.js and verge.js    *)
(* beside it: which coins the browser wallet takes for what it is asked to do, *)
(* and what becomes of the inscription and of the runes on them.               *)
(*                                                                             *)
(* The wallet reads its coins off the network, traces the inscription on each  *)
(* of them itself and asks an indexer for the runes; the indexer has read      *)
(* blocks, the network has newer transactions.  Values are in bytes of relay   *)
(* fee, 200 atomic units each.                                                 *)
(***************************************************************************)
EXTENDS Integers, Sequences, SequencesExt, FiniteSets, FiniteSetsExt, TLC, Absent

CONSTANTS
  Wallets, Tokens,       \* two wallets; runes
  Purses,                \* what they may begin with
  Amounts,               \* plain payments
  Price, MintPrice, MarketFee,
  MaxHeld, MaxMints, MaxCalls

ASSUME PurseAssumption == {Price, MintPrice, MarketFee, MaxHeld, MaxMints, MaxCalls} \subseteq Nat

VARIABLES
  purse,                 \* the chain and the mempool: unspent outputs
  outputs,               \* how many outputs there were: their names
  known,               \* the outputs in blocks that the indexer has read
  offers,                \* bids that were handed out, signed but for the seller's inputs
  task,                  \* what an operation waits with between two of its transactions
  last,                  \* history: the last transaction, what it was for and what became of it
  calls

purseVars == <<purse, outputs, known, offers, task, last, calls>>

Dust == 500                                        \* DUST_UNITS, POSTAGE_UNITS, PAD
FixedFee == 10000                                  \* 2_000_000, an etching's and a rune bid's
Now == 1
NoRunes == [t \in Tokens |-> 0]
Coin == [value : Nat, to : Wallets \cup {"else"}, item : Nat \cup {None},
         runes : [Tokens -> Nat], time : {0, Now}]

-----------------------------------------------------------------------------
(* Transactions.                                                            *)

Out(to, value) == [to |-> to, value |-> value]
Note == Out("note", 0)                             \* an OP_RETURN
Tx(ins, outs, time) == [ins |-> ins, outs |-> outs, time |-> time, edict |-> None, mint |-> None]
Edict(token, amount, output) == [token |-> token, amount |-> amount, output |-> output]

Total(values) == FoldLeft(+, 0, values)
ValueOf(cs) == Total([k \in DOMAIN cs |-> purse[cs[k]].value])
Outgoing(outs) == Total([k \in DOMAIN outs |-> outs[k].value])
Paid(tx) == ValueOf(tx.ins) - Outgoing(tx.outs)    \* its fee

\* The inscribed unit goes where its place in the inputs is in the outputs.
ItemAt(tx) ==
  LET k == CHOOSE k \in DOMAIN tx.ins : purse[tx.ins[k]].item # None
  IN ValueOf(SubSeq(tx.ins, 1, k - 1)) + purse[tx.ins[k]].item
ItemIn(tx, k) ==
  IF \A i \in DOMAIN tx.ins : purse[tx.ins[i]].item = None THEN None
  ELSE LET at == ItemAt(tx) - Outgoing(SubSeq(tx.outs, 1, k - 1))
       IN IF at >= 0 /\ at < tx.outs[k].value THEN at ELSE None

\* Runes go by the edict, and what it leaves to the first output that can hold any.
CanHold(tx) == {k \in DOMAIN tx.outs : tx.outs[k].to # "note" /\ tx.outs[k].value >= Dust}
Pooled(tx, t) ==
  Total([k \in DOMAIN tx.ins |-> purse[tx.ins[k]].runes[t]])
    + (IF tx.mint = t /\ Paid(tx) >= MintPrice THEN 1 ELSE 0)
Moved(tx, t) ==
  IF tx.edict # None /\ tx.edict.token = t /\ tx.edict.output \in CanHold(tx)
    THEN Min({tx.edict.amount, Pooled(tx, t)}) ELSE 0
Credited(tx, k, t) ==
  (IF tx.edict # None /\ tx.edict.output = k THEN Moved(tx, t) ELSE 0)
    + (IF CanHold(tx) # {} /\ k = Min(CanHold(tx)) THEN Pooled(tx, t) - Moved(tx, t) ELSE 0)

Fresh(tx) == {k \in DOMAIN tx.outs : tx.outs[k].to # "note"}
After(tx) ==
  [c \in (DOMAIN purse \ Range(tx.ins)) \cup {outputs + k : k \in Fresh(tx)} |->
     IF c \in DOMAIN purse THEN purse[c]
     ELSE LET k == c - outputs IN
       [value |-> tx.outs[k].value, to |-> tx.outs[k].to, item |-> ItemIn(tx, k),
        runes |-> [t \in Tokens |-> Credited(tx, k, t)], time |-> tx.time]]

\* What the node asks of a transaction: unspent coins none of which is younger than it, outputs that
\* are not dust, and a fee for every thousand bytes that were begun.
Begun(bytes) == 1000 * ((bytes + 999) \div 1000)
Bytes(ins, outs) == 14 + 149 * ins + 34 * outs
Unspent(tx) == Range(tx.ins) \subseteq DOMAIN purse
Dusty(tx) == \E k \in Fresh(tx) : tx.outs[k].value < Dust
Accepted(tx) ==
  /\ Unspent(tx) /\ ~Dusty(tx)
  /\ Paid(tx) >= Begun(Bytes(Len(tx.ins), Len(tx.outs)))
  /\ \A c \in Range(tx.ins) : purse[c].time <= tx.time

-----------------------------------------------------------------------------
(* What the wallet sees: coins it could not trace, and whether the indexer     *)
(* proved its answer.  A coin the answer does not name is taken to hold none.  *)

Own(w) == {c \in DOMAIN purse : purse[c].to = w}
View(w) == [lost : {{}} \cup {{c} : c \in Own(w)}, proven : BOOLEAN]
Traced(c, view) == c \notin view.lost /\ purse[c].item = None     \* inscription === null
Shown(c) == IF c \in known THEN purse[c].runes ELSE NoRunes

\* (mutant: runes are not looked at)
UninscribedForPayment(w, view) == {c \in Own(w) : Traced(c, view)}
SpendableForPayment(w, view) == {c \in Own(w) : Traced(c, view) /\ view.proven /\ Shown(c) = NoRunes}

Sorted(S, Before(_, _)) ==
  [k \in 1 .. Cardinality(S) |-> CHOOSE c \in S : Cardinality({d \in S : Before(d, c)}) = k - 1]
Listed(S) == Sorted(S, <)
Biggest(S) == Sorted(S, LAMBDA a, b : purse[a].value > purse[b].value
                                              \/ (purse[a].value = purse[b].value /\ a < b))
Smallest(S) == Sorted(S, LAMBDA a, b : purse[a].value < purse[b].value
                                              \/ (purse[a].value = purse[b].value /\ a < b))
Fullest(S, t) == Sorted(S, LAMBDA a, b : Shown(a)[t] > Shown(b)[t]
                                              \/ (Shown(a)[t] = Shown(b)[t] /\ a < b))

\* The shortest beginning that is enough, or all of them.
Picked(cs, Enough(_)) ==
  LET ks == {k \in 0 .. Len(cs) : Enough(SubSeq(cs, 1, k))}
  IN IF ks = {} THEN cs ELSE SubSeq(cs, 1, Min(ks))
ShownOn(cs, t) == Total([k \in DOMAIN cs |-> Shown(cs[k])[t]])

Change(w, value) == IF value >= Dust THEN <<Out(w, value)>> ELSE <<>>
Rest(w, value) == IF value > 0 THEN <<Out(w, value)>> ELSE <<>>
Newest(cs) == Max({purse[cs[k]].time : k \in DOMAIN cs})          \* _spendTime

-----------------------------------------------------------------------------
(* Handing a transaction to the network: what it is for, who was asked to part *)
(* with what, and whether the indexer was behind on a coin that it spends.     *)

Deed(by, who) ==
  [by |-> by, who |-> who, buyer |-> None, token |-> None, amount |-> 0, item |-> None,
   blind |-> FALSE, guessed |-> FALSE, result |-> "waiting"]
Blind(cs) ==
  \E k \in DOMAIN cs :
    cs[k] \in DOMAIN purse /\ purse[cs[k]].runes # NoRunes /\ cs[k] \notin known

Answer(tx) ==
  IF Accepted(tx) THEN "accepted"
  ELSE IF ~Unspent(tx) THEN "stale" ELSE IF Dusty(tx) THEN "dust" ELSE "refused"

Asks == calls < MaxCalls /\ calls' = calls + 1     \* the owner asks the wallet for something
Broadcast(tx, deed) ==
  /\ IF Accepted(tx) THEN purse' = After(tx) /\ outputs' = outputs + Len(tx.outs)
                     ELSE UNCHANGED <<purse, outputs>>
  /\ last' = [deed EXCEPT !.blind = @ \/ Blind(tx.ins), !.result = Answer(tx)]
  /\ UNCHANGED known

PlainFee(ins) == Max({1000, 14 + 148 * ins + 2 * 34})

Send(w, v, amount, view) ==
  LET ins == Picked(Biggest(SpendableForPayment(w, view)),
                   LAMBDA cs : cs # <<>> /\ ValueOf(cs) >= amount + PlainFee(Len(cs)))
      change == ValueOf(ins) - amount - PlainFee(Len(ins))
  IN /\ change >= 0
     /\ Asks
     /\ Broadcast(Tx(ins, <<Out(v, amount)>> \o Change(w, change), Newest(ins)), Deed("send", w))
     /\ UNCHANGED <<offers, task>>

TransferInscription(w, v, c, view) ==
  LET funders == Listed({d \in Own(w) \ {c} : Traced(d, view)})
      chosen == Picked(funders, LAMBDA cs : ValueOf(cs) >= PlainFee(1 + Len(cs)) + Dust)
      change == ValueOf(chosen) - PlainFee(1 + Len(chosen))
  IN /\ c \notin view.lost /\ purse[c].item # None
     /\ change >= 0
     /\ Asks
     /\ Broadcast(Tx(<<c>> \o chosen, <<Out(v, purse[c].value)>> \o Change(w, change),
                     Newest(<<c>> \o chosen)),
                  [Deed("transfer", w) EXCEPT !.item = c])
     /\ UNCHANGED <<offers, task>>

SendRune(w, v, t, amount, view) ==
  LET holders == Fullest({c \in Own(w) : Shown(c)[t] > 0}, t)
      carriers == Picked(holders, LAMBDA cs : ShownOn(cs, t) >= amount)
      topUp == Picked(Listed(SpendableForPayment(w, view)),
                     LAMBDA cs : ValueOf(carriers) + ValueOf(cs) >= 3 * Dust)
      ins == carriers \o topUp
      change == ValueOf(ins) - 3 * Dust
  IN /\ view.proven /\ ShownOn(holders, t) >= amount
     /\ change >= Dust
     /\ Asks
     /\ Broadcast([Tx(ins, <<Note, Out(v, Dust), Out(w, change)>>, Now)
                     EXCEPT !.edict = Edict(t, amount, 2)],
                  [Deed("send rune", w) EXCEPT !.token = t, !.amount = amount])
     /\ UNCHANGED <<offers, task>>

\* The outputs that an etching asks for, in order, and the change after them.
FundEtch(w, view) ==
  LET owed == <<Out("else", 2 * Dust), Out("else", Dust)>>
      need == Outgoing(owed) + FixedFee
      ins == Picked(Biggest(SpendableForPayment(w, view)), LAMBDA cs : ValueOf(cs) >= need + Dust)
  IN /\ ValueOf(ins) >= need
     /\ Asks
     /\ Broadcast(Tx(ins, owed \o Change(w, ValueOf(ins) - need), Now), Deed("fund etch", w))
     /\ UNCHANGED <<offers, task>>

-----------------------------------------------------------------------------
(* Mints, one transaction each, built on the change of the one before.         *)

MintFee == Max({MintPrice, 1000})

MintOn(w, t, ins, left) ==
  LET change == ValueOf(ins) - Dust - MintFee
      tx == [Tx(ins, <<Out(w, Dust), Note>> \o Change(w, change), Now) EXCEPT !.mint = t]
  IN /\ Broadcast(tx, [Deed("mint", w) EXCEPT !.token = t])
     /\ task' = IF Accepted(tx) /\ change >= Dust /\ left > 1
                  THEN [at |-> "mint", who |-> w, token |-> t, left |-> left - 1, coin |-> outputs + 3]
                  ELSE None
     /\ UNCHANGED offers

MintRune(w, t, times, view) ==
  LET need == (Dust + MintFee) * times
      ins == Picked(Biggest(SpendableForPayment(w, view)), LAMBDA cs : ValueOf(cs) >= need + Dust)
  IN task = None /\ Asks /\ ValueOf(ins) >= need /\ MintOn(w, t, ins, times)

\* Another operation may have spent the change meanwhile; what was minted until then is reported.
NextMint ==
  /\ task # None /\ task.at = "mint"
  /\ IF task.coin \in DOMAIN purse /\ purse[task.coin].value >= Dust + MintFee
       THEN MintOn(task.who, task.token, <<task.coin>>, task.left)
       ELSE task' = None /\ UNCHANGED <<purse, outputs, known, offers, last>>
  /\ UNCHANGED calls

-----------------------------------------------------------------------------
(* Swaps.  The item's coin goes in third, after two pads, and a fresh coin with  *)
(* nothing before the item comes out second.  The coins the buyer brings are      *)
(* looked at for inscriptions only.                                              *)

\* (mutant: the relay's least, however many coins there are)
LeastSwapFee(ins) == 1000
SwapFee(ins) == Max({1000, Begun(Bytes(ins, 5))})

\* With three coins or more the two smallest are the pads; else one transaction, sent at once,
\* makes two of them.  What the coins hold is what it was when they were read.
EnsurePads(swap, sorted) ==
  LET w == swap.who
      Covers(cs) == ValueOf(cs) >= Price + SwapFee(3 + Len(cs))
      pads == SubSeq(sorted, 1, 2)
      funds == Picked(Biggest(Range(sorted) \ Range(pads)), Covers)
      change == ValueOf(sorted) - 2 * Dust - Max({1000, 14 + 148 * Len(sorted) + 3 * 34})
      split == Tx(sorted, <<Out(w, Dust), Out(w, Dust), Out(w, change)>>, Newest(sorted))
  IN IF Len(sorted) >= 3 /\ ValueOf(pads) >= Dust /\ Covers(funds)
     THEN /\ task' = swap @@ [pads |-> pads, padded |-> ValueOf(pads),
                             funds |-> funds, funded |-> ValueOf(funds)]
          /\ UNCHANGED <<purse, outputs, known, last>>
     ELSE /\ change >= Price
          /\ Broadcast(split, Deed("split", w))
          /\ task' = IF ~Accepted(split) THEN None
                     ELSE swap @@ [pads |-> <<outputs + 1, outputs + 2>>, padded |-> 2 * Dust,
                                   funds |-> <<outputs + 3>>, funded |-> change]

\* buyListing takes the offset from the order book and spends coins older than the variant;
\* placeBid asks an indexer, and takes 0 when it has no answer.
PrepareSwap(by, w, v, c, time, offset, view) ==
  LET sorted == Smallest({d \in Own(w) : Traced(d, view) /\ purse[d].time <= time})
  IN /\ task = None /\ Asks /\ purse[c].item # None
     /\ purse[c].time <= time /\ (by = "bid" => time = Now)
     /\ offset \in {purse[c].item, 0}
     /\ ValueOf(sorted) >= Price
     /\ EnsurePads([at |-> "swap", by |-> by, who |-> w, with |-> v, carrier |-> c, time |-> time,
                    worth |-> purse[c].value, offset |-> offset, guessed |-> offset # purse[c].item],
                   sorted)
     /\ UNCHANGED offers

Offer(tx, deed, carriers) == [tx |-> tx, deed |-> deed, carriers |-> carriers]

\* completeListing is broadcast, buildBid handed to the book.  Short of coin, it throws: the split
\* has been sent by then.
FinishSwap ==
  /\ task # None /\ task.at = "swap"
  /\ LET k == task
         change == k.worth - k.offset + k.funded - Dust - Price - SwapFee(3 + Len(k.funds))
         tx == Tx(k.pads \o <<k.carrier>> \o k.funds,
                  <<Out(k.who, k.padded + k.offset), Out(k.who, Dust), Out(k.with, Price - MarketFee)>>
                    \o Rest("else", MarketFee) \o Rest(k.who, change), k.time)
         deed == [Deed(k.by, k.with) EXCEPT !.buyer = k.who, !.item = k.carrier, !.guessed = k.guessed]
     IN \/ /\ k.worth - k.offset >= Dust /\ change >= 0
           /\ \/ /\ k.by = "buy" /\ Broadcast(tx, deed) /\ UNCHANGED offers
              \/ /\ k.by = "bid" /\ offers' = offers \cup {Offer(tx, deed, <<k.carrier>>)}
                 /\ UNCHANGED <<purse, outputs, known, last>>
        \/ /\ k.worth - k.offset < Dust \/ change < 0
           /\ UNCHANGED <<purse, outputs, known, offers, last>>
  /\ task' = None /\ UNCHANGED calls

AcceptBid(o) ==
  /\ o \in offers /\ o.deed.by = "bid"
  /\ Range(o.carriers) \subseteq Own(o.deed.who)
  /\ Broadcast(o.tx, o.deed) /\ offers' = offers \ {o}
  /\ UNCHANGED <<task, calls>>

-----------------------------------------------------------------------------
(* Runes against coins: the bidder names coins of the seller and gives back    *)
(* all that is on them but the amount.                                         *)

ChangeFirst(v, w, carriers) == <<Note, Out(v, ValueOf(carriers)), Out(w, Dust)>>
TakeAt(outs, w) == CHOOSE k \in DOMAIN outs : outs[k].to = w

PlaceRuneBid(w, v, t, n, view) ==
  LET carriers == Picked(Fullest({c \in Own(v) : Shown(c)[t] > 0}, t),
                        LAMBDA cs : ShownOn(cs, t) >= n)
      need == Price + Dust + FixedFee
      funds == Picked(Biggest(SpendableForPayment(w, view)), LAMBDA cs : ValueOf(cs) >= need)
      layout == ChangeFirst(v, w, carriers)
      outs == layout \o <<Out(v, Price - MarketFee)>> \o Rest("else", MarketFee)
                \o Rest(w, ValueOf(funds) - need)
      tx == [Tx(carriers \o funds, outs, Now) EXCEPT !.edict = Edict(t, n, TakeAt(layout, w))]
  IN /\ Asks /\ ShownOn(carriers, t) >= n /\ ValueOf(funds) >= need
     /\ offers' = offers \cup
          {Offer(tx, [Deed("fill", v) EXCEPT !.buyer = w, !.token = t, !.amount = n, !.blind = Blind(funds)],
                 carriers)}
     /\ UNCHANGED <<purse, outputs, known, task, last>>

\* Looked at again as the seller signs.
FillBid(o, view) ==
  /\ o \in offers /\ o.deed.by = "fill"
  /\ view.proven /\ Range(o.carriers) \subseteq Own(o.deed.who)
  /\ ShownOn(o.carriers, o.deed.token) >= o.deed.amount
  /\ Broadcast(o.tx, o.deed) /\ offers' = offers \ {o}
  /\ UNCHANGED <<task, calls>>

-----------------------------------------------------------------------------
\* A block takes what there is, and the indexer reads it.
ReadBlock ==
  /\ known # DOMAIN purse /\ known' = DOMAIN purse
  /\ UNCHANGED <<purse, outputs, offers, task, last, calls>>

PurseInit ==
  /\ purse \in Purses
  /\ outputs = Max(DOMAIN purse)
  /\ known = DOMAIN purse /\ offers = {} /\ task = None
  /\ last = Deed("none", None) /\ calls = 0

PurseNext ==
  \/ \E w \in Wallets : \E v \in Wallets \ {w}, view \in View(w) :
       \/ \E amount \in Amounts : Send(w, v, amount, view)
       \/ \E c \in Own(w) : TransferInscription(w, v, c, view)
       \/ \E t \in Tokens, n \in 1 .. MaxHeld : SendRune(w, v, t, n, view) \/ PlaceRuneBid(w, v, t, n, view)
       \/ \E c \in Own(v), by \in {"buy", "bid"}, time \in {0, Now} :
            \E offset \in {0, purse[c].item} : PrepareSwap(by, w, v, c, time, offset, view)
  \/ \E w \in Wallets : \E view \in View(w) :
       FundEtch(w, view) \/ \E t \in Tokens : MintRune(w, t, MaxMints, view)
  \/ \E o \in offers : AcceptBid(o) \/ \E view \in View(o.deed.who) : FillBid(o, view)
  \/ NextMint \/ FinishSwap \/ ReadBlock
PurseSpec == PurseInit /\ [][PurseNext]_purseVars

PurseTypeOK ==
  /\ DOMAIN purse \subseteq 1 .. outputs /\ Range(purse) \subseteq Coin
  /\ known \subseteq 1 .. outputs
  /\ last.result \in {"waiting", "accepted", "refused", "dust", "stale"}
  /\ calls \in 0 .. MaxCalls

-----------------------------------------------------------------------------
(* Properties.                                                              *)

Held(coins, w, t) ==
  MapThenSumSet(LAMBDA c : coins[c].runes[t], {c \in DOMAIN coins : coins[c].to = w})
Asked(w, t, deed) ==
  IF deed.who # w THEN 0
  ELSE (IF deed.token = t THEN deed.amount ELSE 0)
         + (IF deed.item \in DOMAIN purse THEN purse[deed.item].runes[t] ELSE 0)

\* "the cost of being wrong is asymmetric ... a spent inscription or token is gone for good"
\* (runes.js:268-270): whatever is sent, minted, bought, sold or split, and in whatever order, a
\* wallet keeps its inscription unless it was asked for it, and its runes but for the ones it was
\* asked for and the ones on the inscription's coin.  Not so for a payment with a coin the indexer
\* has not read, nor for sendRune and transferInscription.
Trusting == last'.blind /\ last'.by \in {"send", "fund etch", "fill"}
TokensKept ==
  []PurseTypeOK /\
  [][purse' # purse =>
       /\ last'.by \notin {"send rune", "transfer"} /\ ~Trusting
            => \A w \in Wallets, t \in Tokens : Held(purse', w, t) >= Held(purse, w, t) - Asked(w, t, last')
       /\ \A c \in DOMAIN purse :
            purse[c].item # None /\ c # last'.item /\ last'.by # "send rune"
              => \E d \in DOMAIN purse' : purse'[d].to = purse[c].to /\ purse'[d].item # None]_purseVars

\* A trade that the wallets put together goes through and does what it says: the node does not
\* refuse it for its fee or its times; the buyer of an inscription gets it at the start of a coin of
\* its own, if the offset was the true one; the buyer of runes gets the amount; a mint that was paid
\* for mints.
Settled(deed, coins) ==
  /\ deed.result # "refused"
  /\ deed.by \in {"buy", "bid"} /\ deed.result = "accepted" /\ ~deed.guessed
       => \E c \in DOMAIN coins :
            coins[c].to = deed.buyer /\ coins[c].item = 0 /\ coins[c].value = Dust
  /\ deed.by = "fill" /\ deed.result = "accepted"
       => Held(coins, deed.buyer, deed.token) >= deed.amount
  /\ deed.by = "mint" /\ deed.result = "accepted"
       => Held(coins, deed.who, deed.token) = Held(purse, deed.who, deed.token) + 1
TradesSettle == [][last' # last \/ purse' # purse => Settled(last', purse')]_purseVars

\* Both: the wallet keeps what it was not asked for, and its trades go through.
PurseRight == TokensKept /\ TradesSettle

-----------------------------------------------------------------------------
(* What comments say, and the code does not do.                             *)

\* "output 2 is the change carrier that keeps whatever was not sent" (wallet.js:1324): a part of
\* one's runes leaves one the rest.
RestComesHome ==
  [][purse' # purse /\ last'.by = "send rune" /\ ~last'.blind
       => Held(purse', last'.who, last'.token) >= Held(purse, last'.who, last'.token) - last'.amount]_purseVars
=============================================================================
