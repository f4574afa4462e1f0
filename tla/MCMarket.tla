------------------------------ MODULE MCMarket ------------------------------
(***************************************************************************)
(* Instances, for TLC, of what is given away, collected and traded: Promo,     *)
(* Inscriptions, Launchpad, OrderBook, RuneBook, Settlement; and of what a wallet finds *)
(* on a coin for itself, Tracer.  They share no state, so a behaviour picks a desk and moves *)
(* what is on it; the rest stands still.                                       *)
(***************************************************************************)
EXTENDS OrderBook, RuneBook, Inscriptions, Launchpad, Promo, Settlement, Tracer, TLC

CONSTANTS frog, seller, buyer, r1, r2, alice, c1, c2, operator, minter, ann, ben, bob, house, ip1, Desks
VARIABLE desk

-----------------------------------------------------------------------------
(* OrderBook: its listings and its bids share the chain and nothing else.      *)
(* Bids need one move of the carrier, listings two; one outpoint is listed     *)
(* twice.  The node fails listings only: to a bid it is like a spent coin.  One *)
(* user may raise a bid, the other may not.                                    *)

Listings ==
  /\ ChainNext \/ ListingNext
  /\ \A o \in Outpoint : published'[o] <= (IF o[2] = 1 THEN 2 ELSE IF o[2] = 2 THEN 1 ELSE 0)
Bids ==
  /\ BidNext \/ (ChainNext /\ \A i \in Items : Len(trail'[i]) <= 2)
  /\ \A r \in Requests :
       request'[r].doing = "bid" /\ request'[r].bid.buyer = seller => request'[r].bid.price = 1
  /\ UNCHANGED faults

(* RuneBook: its orders and its bids share the file and nothing else.          *)

MCCarriers == [s \in Sellers |-> {c1, c2}]
RuneBids == RuneChainNext \/ RuneBidNext

-----------------------------------------------------------------------------
(* Inscriptions: offsets need coins of several units and no addresses; the     *)
(* drop needs addresses and actions and little else.                           *)

MCFunds == <<1, 2>>
MCRank == (operator :> 1 @@ minter :> 2)
MCMaxTimes == [inscribe |-> 1, alpha |-> 2, etch |-> 1, coin |-> 2]

Inputs(n) == UNION {[1 .. k -> DOMAIN coins] : k \in 1 .. n}     \* in any order
Offsets ==
  \E ins \in Inputs(IF txs = 0 THEN 1 ELSE 2), values \in UNION {[1 .. k -> 0 .. 2] : k \in 0 .. 2},
     reveals \in BOOLEAN, claims \in {<<>>} \cup {<<i>> : i \in Ids} :
    /\ (txs = 0 => reveals) /\ (txs = 2 => ~reveals)
    /\ reveals \/ claims = <<>>
    /\ Apply(ins, [k \in DOMAIN values |-> [value |-> values[k], to |-> NoAddress]],
             reveals, claims, FALSE, 0, height)

\* What a transaction does: reveal, claim the root, etch.
Deeds == [plain |-> <<FALSE, FALSE, FALSE>>, reveal |-> <<TRUE, FALSE, FALSE>>,
          alpha |-> <<TRUE, TRUE, FALSE>>, etch |-> <<TRUE, FALSE, TRUE>>]
Payees == {<<minter>>, <<operator>>, <<minter, operator>>, <<operator, minter>>}
Drops ==
  \E ins \in Inputs(1), to \in Payees, values \in {<<1>>, <<2>>, <<1, 1>>},
     deed \in DOMAIN Deeds, minted \in 0 .. 1 :
    /\ Len(to) = Len(values)
    /\ IF txs = 0 THEN deed = "reveal" ELSE values # <<2>>
    /\ Apply(ins, [k \in 1 .. Len(to) |-> [value |-> values[k], to |-> to[k]]],
             Deeds[deed][1], IF Deeds[deed][2] THEN <<AlphaRoot>> ELSE <<>>, Deeds[deed][3],
             minted, height + 1)

-----------------------------------------------------------------------------
(* Launchpad: two submissions and their review; or one collection and its sale.*)

Offer(opens, allow, per) ==
  [price |-> 1, opens |-> opens, closes |-> 2, allowlist |-> allow, perWallet |-> per]
MCOffers == {Offer(0, 0, 1), Offer(0, 1, 2)}
Curating == (Curation \/ Refresh \/ DayPasses) /\ (deaths' = 0 \/ today' = 0)    \* a death or a midnight
Selling ==
  \/ SaleNext \/ Refresh \/ DayPasses
  \/ /\ Curation /\ DOMAIN drafts' \subseteq {1} /\ DOMAIN shelves' \subseteq {1} /\ deaths' = 0
     /\ \A i \in DOMAIN drafts' : drafts'[i].brand = 0 /\ drafts'[i].status # "rejected"

-----------------------------------------------------------------------------
(* Promo: jobs are alike, they ask in order; two, if there is a restart.     *)

Gifts ==
  /\ PromoNext /\ \A j, k \in Jobs : j < k /\ who'[k] # None => who'[j] # None
  /\ restarts' > 0 => who'[Max(Jobs)] = None

-----------------------------------------------------------------------------
(* Settlement: one purse sells two carriers, one has a carrier that is worth more than its     *)
(* postage; one bid at a time, and coins are moved before the sale.            *)

Coin(value, to, item, time) == [value |-> value, to |-> to, item |-> item, time |-> time]
MCStalls ==
  {<<Coin(3, ann, 1, 0), Coin(1, ann, 0, 0), Coin(1, ben, None, 0), Coin(1, ben, None, 0), Coin(5, ben, None, 0)>>,
   <<Coin(2, ann, 0, 0), Coin(1, ann, None, 0), Coin(1, ann, None, 0), Coin(4, ann, None, 0),
     Coin(1, ben, None, 0), Coin(1, ben, None, 0), Coin(4, ben, None, 0)>>}
MCCut == (1 :> 0 @@ 2 :> 1)
Swaps ==
  /\ SettlementNext /\ Cardinality(offered') <= 1
  /\ trades' # trades /\ trade'.kind = "respend" => trades = 0

-----------------------------------------------------------------------------
(* Tracer.                                                                  *)

\* What the tracer may meet: two coinbases, of which one older than the era; a reveal on some of their units,
\* alone or behind others; a transaction that moves them on in some order, and reveals on the way or not.
MCTx(ins, outs, marked, level) == [ins |-> ins, outs |-> outs, reveals |-> marked, height |-> level]
MCLedgers ==
  LET first == MCTx(<<>>, <<2>>, FALSE, 2)
      second == MCTx(<<>>, <<2, 1>>, FALSE, 3)
      moves == {<<MCTx(<<<<1, 1>>>>, <<1, 1>>, TRUE, 3), MCTx(<<<<2, 1>>, <<3, 1>>>>, <<1, 2>>, TRUE, 4)>>,
                <<MCTx(<<<<2, 2>>, <<1, 1>>>>, <<1, 1>>, TRUE, 3), MCTx(<<<<3, 2>>, <<3, 1>>>>, <<0, 2>>, FALSE, 4)>>}
  IN {<<first, second>> \o move : move \in moves}

-----------------------------------------------------------------------------
MCInit ==
  /\ desk \in Desks
  /\ OrderBookInit /\ trail = [i \in Items |-> <<seller>>]      \* users are alike
  /\ RuneBookInit /\ InscriptionsInit /\ LaunchpadInit /\ PromoInit /\ SettlementInit
  /\ TracerInit /\ (desk # "trace" => ledger = CHOOSE l \in Ledgers : TRUE)

BookMoves ==
  /\ (desk = "listings" /\ Listings) \/ (desk = "bids" /\ Bids)
  /\ UNCHANGED <<runeVars, inscriptionVars, launchpadVars, promoVars, settlementVars, tracerVars>>
RuneBookMoves ==
  /\ (desk = "rune orders" /\ OrderNext) \/ (desk = "rune bids" /\ RuneBids)
  /\ UNCHANGED <<bookVars, inscriptionVars, launchpadVars, promoVars, settlementVars, tracerVars>>
ChainMoves ==
  /\ (desk = "offsets" /\ Offsets) \/ (desk = "drop" /\ Drops)
  /\ UNCHANGED <<bookVars, runeVars, launchpadVars, promoVars, settlementVars, tracerVars>>
LaunchpadMoves ==
  /\ (desk = "curation" /\ Curating) \/ (desk = "sale" /\ Selling)
  /\ UNCHANGED <<bookVars, runeVars, inscriptionVars, promoVars, settlementVars, tracerVars>>
PromoMoves ==
  /\ desk = "promo" /\ Gifts
  /\ UNCHANGED <<bookVars, runeVars, inscriptionVars, launchpadVars, settlementVars, tracerVars>>
SwapMoves ==
  /\ desk = "swaps" /\ Swaps
  /\ UNCHANGED <<bookVars, runeVars, inscriptionVars, launchpadVars, promoVars, tracerVars>>
Traces ==
  /\ desk = "trace" /\ TracerNext
  /\ UNCHANGED <<bookVars, runeVars, inscriptionVars, launchpadVars, promoVars, settlementVars>>

MCNext ==
  /\ BookMoves \/ RuneBookMoves \/ ChainMoves \/ LaunchpadMoves \/ PromoMoves \/ SwapMoves \/ Traces
  /\ UNCHANGED desk
MCSpec == MCInit /\ [][MCNext]_<<bookVars, runeVars, inscriptionVars, launchpadVars, promoVars, settlementVars,
                           tracerVars, desk>>

Alike == Permutations(Requests) \cup Permutations({c1, c2})
=============================================================================
