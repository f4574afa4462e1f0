----------------------------- MODULE Settlement -----------------------------
(***************************************************************************)
(* src/swap.js: the sale of an inscribed coin in one transaction that neither  *)
(* side can change.  A seller signs, for each slot and each of several times,  *)
(* "this coin goes where the output beside it pays me"; or a buyer signs the   *)
(* whole and the seller agrees.  Inputs and outputs are counted from 1: the    *)
(* first seller's slot is 3.                                                   *)
(***************************************************************************)
EXTENDS Integers, Sequences, SequencesExt, FiniteSets, FiniteSetsExt, Absent, Totals

CONSTANTS
  Traders, House,      \* House is paid the market's fee
  Stalls,              \* what the chain may begin with: coins by number
  Asking, CutOf,       \* prices; CutOf[p]: feeFor
  Schedule,            \* buildListingSchedule's offsets
  MaxSweep,            \* MAX_SWEEP
  LastTick, MaxTrades

\* Prices and fees are counts, fees are asked of the prices asked; the chain begins with coins of the traders;
\* the house trades with nobody, and no coin's place is called None.
ASSUME SettlementAssumption ==
  /\ LastTick \in Nat /\ Schedule \subseteq Nat /\ Asking \subseteq Nat
  /\ \A price \in Asking : CutOf[price] \in Nat
  /\ Stalls \subseteq
       Seq([value : Nat, to : Traders, item : Nat \cup {None}, time : {0}]) \ {<<>>}
  /\ House \notin Traders /\ None \notin Int

VARIABLES
  stall,               \* the chain: unspent outputs
  made,                \* how many outputs there were: their names
  clock,
  signed,              \* the book: carrier -> its listing
  offered,             \* bids, signed but for the carrier's input
  trade,               \* history: the last transaction that was broadcast
  trades

settlementVars == <<stall, made, clock, signed, offered, trade, trades>>

SellerSlot == 3
Slots == SellerSlot .. SellerSlot + MaxSweep - 1
Postage == 1
MinerFee == 1
NoTrade == [kind |-> "none"]

-----------------------------------------------------------------------------
(* The chain.  What a signature covers is in it: the slot, the time and the one *)
(* output (SINGLE, ANYONECANPAY); a buyer's covers everything and needs no     *)
(* record.                                                                     *)

Output(to, value) == [to |-> to, value |-> value]
ValueIn(cs) == AddUp([k \in DOMAIN cs |-> stall[cs[k]].value])
ValueOut(outs) == AddUp([k \in DOMAIN outs |-> outs[k].value])
Plain(t) == {c \in DOMAIN stall : stall[c].to = t /\ stall[c].item = None}
Carrying == {c \in DOMAIN stall : stall[c].item # None}
Newest(cs) == Max({0} \cup {stall[c].time : c \in cs})

\* The inscribed units of the inputs, by where they are in all that goes in; first in, first out.
Inscribed(tx) ==
  {ValueIn(SubSeq(tx.ins, 1, k - 1)) + stall[tx.ins[k]].item :
     k \in {k \in DOMAIN tx.ins : stall[tx.ins[k]].item # None}}
ItemOf(tx, k) ==
  LET before == ValueOut(SubSeq(tx.outs, 1, k - 1))
      within == {p - before : p \in {p \in Inscribed(tx) : p >= before /\ p < before + tx.outs[k].value}}
  IN IF within = {} THEN None ELSE Min(within)
Moved(tx) ==
  [c \in (DOMAIN stall \ Range(tx.ins)) \cup {made + k : k \in DOMAIN tx.outs} |->
     IF c \in DOMAIN stall THEN stall[c]
     ELSE [value |-> tx.outs[c - made].value, to |-> tx.outs[c - made].to,
           item |-> ItemOf(tx, c - made), time |-> tx.time]]

Holds(sig, tx) ==
  /\ sig.at \in DOMAIN tx.ins /\ tx.ins[sig.at] = sig.carrier
  /\ sig.at \in DOMAIN tx.outs /\ tx.outs[sig.at] = sig.pays
  /\ sig.time = tx.time

\* Rules R1 and R2 of the marketplace's spec, and what any node asks.
Unspent(tx) == Range(tx.ins) \subseteq DOMAIN stall
NodeTakes(tx, sigs) ==
  /\ Unspent(tx) /\ Cardinality(Range(tx.ins)) = Len(tx.ins)
  /\ \A s \in sigs : Holds(s, tx)
  /\ \A c \in Range(tx.ins) : stall[c].time <= tx.time
  /\ tx.time <= clock
  /\ ValueOut(tx.outs) <= ValueIn(tx.ins)

Send(tx, sigs, deed) ==
  /\ IF NodeTakes(tx, sigs) THEN stall' = Moved(tx) /\ made' = made + Len(tx.outs)
                            ELSE UNCHANGED <<stall, made>>
  /\ trade' = [kind |-> deed.kind, buyer |-> deed.buyer, sold |-> deed.sold, guessed |-> deed.guessed,
               stale |-> ~Unspent(tx), accepted |-> NodeTakes(tx, sigs)]
  /\ trades < MaxTrades /\ trades' = trades + 1

-----------------------------------------------------------------------------
(* Listings.                                                                *)

Net(price) == price - CutOf[price]                 \* what the seller signs for

ListingTemplate(c, price, to, time, at) ==
  [carrier |-> c, at |-> at, time |-> time, pays |-> Output(to, Net(price))]

\* buildListingSchedule, and addListing, which looks at every variant against its own slot and time.
VerifyListingVariant(l, v) == v = ListingTemplate(l.carrier, l.price, l.to, v.time, v.at)
List(c, price) ==
  LET to == stall[c].to
      l == [carrier |-> c, worth |-> stall[c].value, price |-> price, to |-> to, offset |-> stall[c].item,
            variants |-> {ListingTemplate(c, price, to, clock + d, at) : d \in Schedule, at \in Slots}]
  IN /\ Net(price) > 0
     /\ \A v \in l.variants : VerifyListingVariant(l, v)
     /\ signed' = [k \in DOMAIN signed \cup {c} |-> IF k = c THEN l ELSE signed[k]]
     /\ UNCHANGED <<stall, made, clock, offered, trade, trades>>

\* (mutant: a variant may be older than the coins that pay)
UsableWhenever(l, newest, at) == {v \in l.variants : v.time <= clock /\ v.at = at}
Usable(l, newest, at) == {v \in l.variants : v.time <= clock /\ v.time >= newest /\ v.at = at}
PickVariant(l, newest, at) ==
  LET usable == Usable(l, newest, at)
  IN IF usable = {} THEN None ELSE CHOOSE v \in usable : \A w \in usable : w.time <= v.time

\* What the buyer brings: two pads, and a coin that pays.
Brings(t) ==
  {b \in [pads : {<<c, d>> : c \in Plain(t), d \in Plain(t)}, funds : {<<c>> : c \in Plain(t)}] :
     b.pads[1] < b.pads[2] /\ b.funds[1] \notin Range(b.pads)}
Brought(b) == Range(b.pads) \cup Range(b.funds)

Fee(price) == IF CutOf[price] > 0 THEN <<Output(House, CutOf[price])>> ELSE <<>>
ChangeTo(buyer, value) == IF value > 0 THEN <<Output(buyer, value)>> ELSE <<>>

\* The layout that listings and bids share, None where the code throws.
\* (mutant: the units before the inscribed one are forgotten)
LayoutAtNought(l, padTotal, fundsTotal, buyer) ==
  LET change == l.worth + fundsTotal - Postage - l.price - MinerFee IN
    IF l.worth - l.offset < Postage \/ change < 0 THEN None
    ELSE <<Output(buyer, padTotal), Output(buyer, Postage), Output(l.to, Net(l.price))>>
           \o Fee(l.price) \o ChangeTo(buyer, change)
Layout(l, padTotal, fundsTotal, buyer) ==
  LET change == l.worth - l.offset + fundsTotal - Postage - l.price - MinerFee IN
    IF l.worth - l.offset < Postage \/ change < 0 THEN None
    ELSE <<Output(buyer, padTotal + l.offset), Output(buyer, Postage), Output(l.to, Net(l.price))>>
           \o Fee(l.price) \o ChangeTo(buyer, change)
SwapInputs(b, carriers) == b.pads \o carriers \o b.funds

\* handleMarketVariant, with the coins whose age the node told it, and completeListing.
Buy(t, c, b, told) ==
  LET l == signed[c]
      v == PickVariant(l, Newest(told), SellerSlot)
      outs == Layout(l, ValueIn(b.pads), ValueIn(b.funds), t) IN
    /\ v # None /\ outs # None
    /\ Send([ins |-> SwapInputs(b, <<c>>), outs |-> outs, time |-> v.time], {v},
            [kind |-> "buy", buyer |-> t, sold |-> <<l>>, guessed |-> told # Brought(b)])
    /\ UNCHANGED <<clock, signed, offered>>

\* completeSweep, for listings that were each picked for the slot they get.
SweepOuts(ls, b, buyer) ==
  LET total(f(_)) == AddUp([k \in DOMAIN ls |-> f(ls[k])])
      offsets == total(LAMBDA l : l.offset)
      fees == FlattenSeq([k \in DOMAIN ls |-> Fee(ls[k].price)])
      fixed == <<Output(buyer, ValueIn(b.pads) + offsets), Output(buyer, Postage)>>
                 \o [k \in DOMAIN ls |-> Output(ls[k].to, Net(ls[k].price))]
                 \o [k \in 1 .. Len(ls) - 1 |-> Output(buyer, Postage)] \o fees
      change == ValueIn(b.pads) + total(LAMBDA l : l.worth) + ValueIn(b.funds) - ValueOut(fixed) - MinerFee
  IN IF change < 0 \/ \E k \in DOMAIN ls : ls[k].worth - ls[k].offset < Postage THEN None
     ELSE fixed \o ChangeTo(buyer, change)
Sweep(t, cs, b) ==
  LET ls == [k \in DOMAIN cs |-> signed[cs[k]]]
      vs == [k \in DOMAIN cs |-> PickVariant(ls[k], Newest(Brought(b)), SellerSlot + k - 1)]
      outs == SweepOuts(ls, b, t) IN
    /\ Len(cs) <= MaxSweep /\ \A k \in DOMAIN vs : vs[k] # None
    /\ outs # None
    /\ Send([ins |-> SwapInputs(b, cs), outs |-> outs, time |-> vs[1].time], Range(vs),
            [kind |-> "sweep", buyer |-> t, sold |-> ls, guessed |-> FALSE])
    /\ UNCHANGED <<clock, signed, offered>>

-----------------------------------------------------------------------------
(* Bids.                                                                    *)

BuildBid(t, c, price, b) ==
  LET l == [carrier |-> c, worth |-> stall[c].value, price |-> price, to |-> stall[c].to,
            offset |-> stall[c].item]
      outs == Layout(l, ValueIn(b.pads), ValueIn(b.funds), t) IN
    /\ Net(price) > 0 /\ outs # None
    /\ offered' = offered \cup
         {[tx |-> [ins |-> SwapInputs(b, <<c>>), outs |-> outs, time |-> clock], buyer |-> t, sold |-> l]}
    /\ UNCHANGED <<stall, made, clock, signed, trade, trades>>

\* The carrier's holder signs what the buyer has signed.
AcceptBid(o) ==
  /\ o \in offered /\ o.sold.carrier \in DOMAIN stall /\ stall[o.sold.carrier].to = o.sold.to
  /\ Send(o.tx, {}, [kind |-> "bid", buyer |-> o.buyer, sold |-> <<o.sold>>, guessed |-> FALSE])
  /\ offered' = offered \ {o}
  /\ UNCHANGED <<clock, signed>>

-----------------------------------------------------------------------------
\* A payment of a trader to itself: of a carrier, which withdraws its listings, or of plain coins.
Respend(c) ==
  /\ stall[c].to # House
  /\ Send([ins |-> <<c>>, outs |-> <<Output(stall[c].to, stall[c].value)>>, time |-> clock], {},
          [kind |-> "respend", buyer |-> stall[c].to, sold |-> <<>>, guessed |-> FALSE])
  /\ UNCHANGED <<clock, signed, offered>>

Tick ==
  /\ clock < LastTick /\ clock' = clock + 1
  /\ UNCHANGED <<stall, made, signed, offered, trade, trades>>

SettlementInit ==
  /\ stall \in Stalls /\ made = Max(DOMAIN stall) /\ clock = 0
  /\ signed = <<>> /\ offered = {}
  /\ trade = NoTrade /\ trades = 0

SettlementNext ==
  \/ \E c \in Carrying, price \in Asking : List(c, price)
  \/ \E t \in Traders : \E b \in Brings(t) :
       \/ \E c \in DOMAIN signed : \E told \in {Brought(b), {}} :
            signed[c].to # t /\ Buy(t, c, b, told)
       \/ \E c, d \in DOMAIN signed : c # d /\ t \notin {signed[c].to, signed[d].to} /\ Sweep(t, <<c, d>>, b)
       \/ \E c \in Carrying, price \in Asking : stall[c].to # t /\ BuildBid(t, c, price, b)
  \/ \E o \in offered : AcceptBid(o)
  \/ \E c \in DOMAIN stall : Respend(c)
  \/ Tick
SettlementSpec == SettlementInit /\ [][SettlementNext]_settlementVars

SettlementTypeOK ==
  /\ DOMAIN stall \subseteq 1 .. made /\ clock \in 0 .. LastTick
  /\ \A c \in DOMAIN stall : stall[c].value \in Nat /\ stall[c].to \in Traders \cup {House}
  /\ \A c \in DOMAIN signed : signed[c].carrier = c

-----------------------------------------------------------------------------
(* Properties.                                                              *)

Worth(coins, t) ==
  MapThenSumSet(LAMBDA c : coins[c].value, {c \in DOMAIN coins : coins[c].to = t /\ coins[c].item = None})
Delivered(l, coins) ==
  \E c \in DOMAIN coins \ DOMAIN stall :
    coins[c].to = trade'.buyer /\ coins[c].item = 0 /\ coins[c].value = Postage

\* "Settlement is atomic: the same transaction pays the seller and delivers the carrier" (swap.js:8):
\* a sale by listing or bid, put together after whatever moves and re-listings, is refused only when one of
\* its coins is spent (or its variant was picked without the age of a coin); it pays the seller
\* what was signed, gives the buyer the inscription at the start of a fresh coin of one postage, and
\* costs the buyer the price and the miner's fee but for what the carrier is worth beside.
SaleSettles ==
  [][trades' # trades /\ trade'.kind \in {"buy", "bid"} =>
       LET l == trade'.sold[1] IN
         /\ trade'.accepted \/ trade'.stale \/ trade'.guessed
         /\ trade'.accepted =>
              /\ Delivered(l, stall')
              /\ Worth(stall', l.to) = Worth(stall, l.to) + Net(l.price)
                                        + (IF l.to = House THEN CutOf[l.price] ELSE 0)
              /\ Worth(stall', trade'.buyer) - Worth(stall, trade'.buyer)
                   = l.worth - Postage - l.price - MinerFee]_settlementVars

\* Both: the chain holds what it should, and every sale settles.
SettlementRight == []SettlementTypeOK /\ SaleSettles

-----------------------------------------------------------------------------
(* What comments say, and the code does not do.                             *)

\* The buyer "receives one carrier per purchase after the sellers" (swap.js:233): a sweep delivers
\* all that it bought.
SweepDelivers ==
  [][trades' # trades /\ trade'.kind = "sweep" /\ trade'.accepted =>
       \A k \in DOMAIN trade'.sold :
         Cardinality({c \in DOMAIN stall' \ DOMAIN stall :
                        stall'[c].to = trade'.buyer /\ stall'[c].item = 0}) = Len(trade'.sold)]_settlementVars

\* "a signature made for slot 2 is worthless at slot 3 and would only be discovered at broadcast, after
\* fees" (swap.js:236): a sweep that was put together goes through.
SweepGoesThrough ==
  [][trades' # trades /\ trade'.kind = "sweep" => trade'.accepted \/ trade'.stale]_settlementVars
=============================================================================
