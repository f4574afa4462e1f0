------------------------------ MODULE OrderBook ------------------------------
(***************************************************************************)
(* src/orderbook.js: signed listings of inscriptions and signed bids on them,  *)
(* over a chain it reads through src/server.js and an index that lags.  Every  *)
(* request waits for the node, and other requests run meanwhile.               *)
(*                                                                             *)
(* An outpoint <<i, n>> is the n-th output inscription i has been on.  The     *)
(* n-th listing of an outpoint is at price n: a listing is known by its price. *)
(***************************************************************************)
EXTENDS Naturals, Sequences, SequencesExt, FiniteSets, Absent

CONSTANTS
  Items, Users,
  Requests,      \* how many requests are open at a time
  MaxMoves,      \* outpoints an inscription is on
  MaxRelists,    \* listings of one outpoint
  BidPrices,
  MaxListings,   \* MAX_LISTINGS
  MaxBids,       \* MAX_BIDS_PER_CARRIER
  MaxSales,      \* MAX_SALES
  MaxFaults      \* calls to the node that fail

ASSUME BookAssumption ==
  /\ {MaxMoves, MaxRelists, MaxListings, MaxBids, MaxSales, MaxFaults} \subseteq Nat
  /\ MaxMoves > 0 /\ MaxSales > 0
  /\ BidPrices \subseteq Nat

VARIABLES
  trail,      \* the chain: who held inscription i, one user for each outpoint
  broke,      \* the chain: users whose funding coin is spent
  traded,     \* the chain: listings that a buyer completed
  seen,       \* the index: how much of trail[i] it has processed
  listings, bids, sales,
  published,  \* how often an outpoint has been listed
  request,    \* what each open request waits with
  misjudged,  \* outpoints the node failed to answer for
  faults

chain == <<trail, broke, traded>>
book  == <<listings, bids, sales, published>>
bookVars  == <<chain, seen, book, request, misjudged, faults>>

Outpoint == Items \X (1 .. MaxMoves)
Listing == [price : 1 .. MaxRelists, lapsed : BOOLEAN, pendingSale : BOOLEAN]
Bid == [buyer : Users, price : BidPrices]
ASSUME NoListingIsNone == None \notin Listing
Sale == [carrier : Outpoint, price : 1 .. MaxRelists, buyer : Users]

Spent(o) == o[2] < Len(trail[o[1]])
Exists(o) == o[2] <= Len(trail[o[1]])
Owner(o) == trail[o[1]][o[2]]

\* inscriptionOwner: where the index puts an inscription, and with whom.
Location(i) == <<i, seen[i]>>
IndexedOwner(i) == trail[i][seen[i]]

Idle == [doing |-> "nothing"]
Request ==
  {Idle}
    \cup [doing : {"list"}, at : Outpoint]
    \cup [doing : {"prune"}, at : Outpoint, copy : Listing]
    \cup [doing : {"bid"}, at : Outpoint, bid : Bid]
    \cup [doing : {"bids"}, at : Outpoint, list : BoundedSeq(Bid, MaxBids),
          kept : BoundedSeq(Bid, MaxBids), next : 0 .. MaxBids]

OrderBookTypeOK ==
  /\ trail \in [Items -> BoundedSeq(Users, MaxMoves) \ {<<>>}]
  /\ broke \subseteq Users
  /\ traded \subseteq Outpoint \X (1 .. MaxRelists)
  /\ \A i \in Items : seen[i] \in 1 .. Len(trail[i])
  /\ listings \in [Outpoint -> Listing \cup {None}]
  /\ \A o \in Outpoint : bids[o] \in BoundedSeq(Bid, MaxBids)
  /\ sales \in BoundedSeq(Sale, MaxSales)
  /\ published \in [Outpoint -> 0 .. MaxRelists]
  /\ request \in [Requests -> Request]
  /\ misjudged \subseteq Outpoint
  /\ faults \in 0 .. MaxFaults

OrderBookInit ==
  /\ trail \in [Items -> {<<u>> : u \in Users}]
  /\ broke = {} /\ traded = {}
  /\ seen = [i \in Items |-> 1]
  /\ listings = [o \in Outpoint |-> None]
  /\ bids = [o \in Outpoint |-> <<>>]
  /\ sales = <<>>
  /\ published = [o \in Outpoint |-> 0]
  /\ request = [r \in Requests |-> Idle]
  /\ misjudged = {} /\ faults = 0

-----------------------------------------------------------------------------
(* The chain and the index.                                                 *)

\* A holder hands the inscription on, to anybody and for whatever reason.
Move(i, u) ==
  /\ Len(trail[i]) < MaxMoves
  /\ trail' = [trail EXCEPT ![i] = Append(@, u)]
  /\ UNCHANGED <<broke, traded, seen, book, request, misjudged, faults>>

\* A buyer completes a listing.  Once served it is good for as long as its carrier is unspent,
\* whether or not the book still has it.
Trade(i, u) ==
  LET o == <<i, Len(trail[i])>> IN
    /\ Len(trail[i]) < MaxMoves /\ published[o] > 0 /\ u # Owner(o)
    /\ trail' = [trail EXCEPT ![i] = Append(@, u)]
    /\ \E n \in 1 .. published[o] : traded' = traded \cup {<<o, n>>}
    /\ UNCHANGED <<broke, seen, book, request, misjudged, faults>>

SpendCoin(u) ==
  /\ broke' = broke \cup {u}
  /\ UNCHANGED <<trail, traded, seen, book, request, misjudged, faults>>

\* The periodic sync: the index processes a block that moves the inscription.
Sync(i) ==
  /\ seen[i] < Len(trail[i])
  /\ seen' = [seen EXCEPT ![i] = @ + 1]
  /\ UNCHANGED <<chain, book, request, misjudged, faults>>

\* The clock passes expiresAt.
Lapse(o) ==
  /\ listings[o] # None
  /\ listings' = [listings EXCEPT ![o].lapsed = TRUE]
  /\ UNCHANGED <<chain, seen, bids, sales, published, request, misjudged, faults>>

\* outpointSpent: gettxout, and a call that fails reads as spent (isUnspent catches everything).
AnswersSpent(o) ==
  \/ Spent(o) /\ UNCHANGED <<misjudged, faults>>
  \/ /\ ~Spent(o) /\ faults < MaxFaults
     /\ faults' = faults + 1
     /\ misjudged' = misjudged \cup {o}
AnswersUnspent(o) == ~Spent(o) /\ UNCHANGED <<misjudged, faults>>
CoinSpent(u) ==
  \/ u \in broke /\ UNCHANGED faults
  \/ u \notin broke /\ faults < MaxFaults /\ faults' = faults + 1
CoinUnspent(u) == u \notin broke /\ UNCHANGED faults

\* carrierInfo: what the node says of the output, and then what the index has on it.
NodeHas(o) == Exists(o) /\ ~Spent(o)
IndexHas(o) == Location(o[1]) = o

Wait(r, what) == request' = [request EXCEPT ![r] = what]
Done(r) == Wait(r, Idle)

-----------------------------------------------------------------------------
(* Listings.                                                                *)

\* addListing asks for the carrier; when the node's answer is here, the listing replaces any older.
AddListing(r, o) ==
  /\ request[r] = Idle /\ published[o] < MaxRelists /\ NodeHas(o)
  /\ Wait(r, [doing |-> "list", at |-> o])
  /\ UNCHANGED <<chain, seen, book, misjudged, faults>>

Full == Cardinality({o \in Outpoint : listings[o] # None}) >= MaxListings
StoreListing(r) ==
  /\ request[r].doing = "list"
  /\ LET o == request[r].at
         n == published[o] + 1 IN
       IF n <= MaxRelists /\ IndexHas(o) /\ (Full => listings[o] # None)
       THEN /\ listings' = [listings EXCEPT ![o] =
                              [price |-> n, lapsed |-> FALSE, pendingSale |-> FALSE]]
            /\ published' = [published EXCEPT ![o] = n]
       ELSE UNCHANGED <<listings, published>>
  /\ Done(r)
  /\ UNCHANGED <<chain, seen, bids, sales, misjudged, faults>>

\* _pruneListing, as listings() and stats() call it on each key.
Prune(r, o) ==
  /\ request[r] = Idle /\ listings[o] # None
  /\ IF listings[o].lapsed
     THEN listings' = [listings EXCEPT ![o] = None] /\ UNCHANGED request
     ELSE Wait(r, [doing |-> "prune", at |-> o, copy |-> listings[o]]) /\ UNCHANGED listings
  /\ UNCHANGED <<chain, seen, bids, sales, published, misjudged, faults>>

\* _recordSaleIfMoved.
VerdictEager(o) == IF IndexedOwner(o[1]) = Owner(o) THEN "cancel" ELSE "sale"  \* (mutant)
Verdict(o) ==
  IF Location(o[1]) = o THEN "pending"
  ELSE IF IndexedOwner(o[1]) = Owner(o) THEN "cancel" ELSE "sale"

LastOf(s, n) == IF Len(s) > n THEN SubSeq(s, Len(s) - n + 1, Len(s)) ELSE s

\* Everything after the answer runs without another wait for the node.  The mark goes on the
\* listing that was read, which may no longer be the one in the book; the deletion is by key.
PruneSpent(r) ==
  /\ request[r].doing = "prune"
  /\ LET o == request[r].at
         l == request[r].copy IN
       /\ AnswersSpent(o)
       /\ CASE Verdict(o) = "pending" ->
                 /\ listings' = IF listings[o] # None /\ listings[o].price = l.price
                                THEN [listings EXCEPT ![o].pendingSale = TRUE] ELSE listings
                 /\ UNCHANGED sales
            [] Verdict(o) = "cancel" ->
                 listings' = [listings EXCEPT ![o] = None] /\ UNCHANGED sales
            [] OTHER ->
                 /\ listings' = [listings EXCEPT ![o] = None]
                 /\ sales' = LastOf(Append(sales, [carrier |-> o, price |-> l.price,
                                                   buyer |-> IndexedOwner(o[1])]), MaxSales)
  /\ Done(r)
  /\ UNCHANGED <<chain, seen, bids, published>>

PruneUnspent(r) ==
  /\ request[r].doing = "prune" /\ AnswersUnspent(request[r].at)
  /\ Done(r)
  /\ UNCHANGED <<chain, seen, book>>

-----------------------------------------------------------------------------
(* Bids.                                                                    *)

AddBid(r, o, b) ==
  /\ request[r] = Idle /\ NodeHas(o) /\ IndexHas(o)
  /\ Wait(r, [doing |-> "bid", at |-> o, bid |-> b])
  /\ UNCHANGED <<chain, seen, book, misjudged, faults>>

\* filter: what is left of a list, in its order.
Filter(list, keep) ==
  LET left[n \in 0 .. Len(list)] ==
        IF n = 0 THEN <<>> ELSE IF n \in keep THEN Append(left[n - 1], list[n]) ELSE left[n - 1]
  IN left[Len(list)]

\* One bid of a buyer on a carrier, the best price first.
Others(list, b) == Filter(list, {k \in 1 .. Len(list) : list[k].buyer # b.buyer})
Appended(list, b) == Append(Others(list, b), b)                                \* (mutant: no sort)
Added(list, b) ==
  LET rest == Others(list, b) IN
    Filter(rest, {k \in 1 .. Len(rest) : rest[k].price >= b.price}) \o <<b>>
      \o Filter(rest, {k \in 1 .. Len(rest) : rest[k].price < b.price})

StoreBid(r) ==
  /\ request[r].doing = "bid"
  /\ LET o == request[r].at
         b == request[r].bid IN
       \/ /\ CoinUnspent(b.buyer)
          /\ bids' = IF Len(bids[o]) < MaxBids THEN [bids EXCEPT ![o] = Added(@, b)] ELSE bids
       \/ CoinSpent(b.buyer) /\ UNCHANGED bids
  /\ Done(r)
  /\ UNCHANGED <<chain, seen, listings, sales, published, misjudged>>

\* _pruneBids: first the carrier,
BidsFor(r, o) ==
  /\ request[r] = Idle /\ bids[o] # <<>>
  /\ Wait(r, [doing |-> "bids", at |-> o, list |-> bids[o], kept |-> <<>>, next |-> 0])
  /\ UNCHANGED <<chain, seen, book, misjudged, faults>>

BidsCarrier(r) ==
  /\ request[r].doing = "bids" /\ request[r].next = 0
  /\ LET o == request[r].at IN
       \/ AnswersSpent(o) /\ bids' = [bids EXCEPT ![o] = <<>>] /\ Done(r)
       \/ AnswersUnspent(o) /\ Wait(r, [request[r] EXCEPT !.next = 1]) /\ UNCHANGED bids
  /\ UNCHANGED <<chain, seen, listings, sales, published>>

Kept(bs, q, kept) == IF Len(kept) # Len(q.list) THEN [bs EXCEPT ![q.at] = kept] ELSE bs

\* then the coin of each bid, in the list as it was; what is left is written over the list as it is.
BidsCoin(r) ==
  /\ request[r].doing = "bids" /\ request[r].next > 0
  /\ LET q == request[r]
         b == q.list[q.next] IN
       \E kept \in {q.kept, Append(q.kept, b)} :
         /\ IF kept = q.kept THEN CoinSpent(b.buyer) ELSE CoinUnspent(b.buyer)
         /\ IF q.next < Len(q.list)
            THEN Wait(r, [q EXCEPT !.next = @ + 1, !.kept = kept]) /\ UNCHANGED bids
            ELSE bids' = Kept(bids, q, kept) /\ Done(r)
  /\ UNCHANGED <<chain, seen, listings, sales, published, misjudged>>

-----------------------------------------------------------------------------
ChainNext ==
  \/ \E i \in Items, u \in Users : Move(i, u) \/ Trade(i, u)
  \/ \E i \in Items : Sync(i)
ListingNext ==
  \/ \E o \in Outpoint : Lapse(o)
  \/ \E r \in Requests, o \in Outpoint : AddListing(r, o) \/ Prune(r, o)
  \/ \E r \in Requests : StoreListing(r) \/ PruneSpent(r) \/ PruneUnspent(r)
BidNext ==
  \/ \E u \in Users : SpendCoin(u)
  \/ \E r \in Requests, o \in Outpoint, b \in Bid : AddBid(r, o, b)
  \/ \E r \in Requests, o \in Outpoint : BidsFor(r, o)
  \/ \E r \in Requests : StoreBid(r) \/ BidsCarrier(r) \/ BidsCoin(r)
OrderBookNext == ChainNext \/ ListingNext \/ BidNext
OrderBookSpec == OrderBookInit /\ [][OrderBookNext]_bookVars

-----------------------------------------------------------------------------
(* Properties.                                                              *)

\* "deleting the listing then would lose the sale forever" (orderbook.js:160): a listing whose
\* trade is on the chain leaves the book only with a record of a sale of its carrier, unless it
\* had expired or the index already has the inscription back with its seller.
SaleKept ==
  [][\A o \in Outpoint :
       (listings[o] # None /\ listings'[o] = None /\ \E n \in 1 .. MaxRelists : <<o, n>> \in traded)
         => \/ listings[o].lapsed
            \/ IndexedOwner(o[1]) = Owner(o) /\ seen[o[1]] > o[2]
            \/ \E k \in 1 .. Len(sales') : sales'[k].carrier = o]_bookVars

\* What the log calls a sale: the carrier was spent, and the buyer named held the inscription later
\* and is not the seller.  A cancel, or an index behind the chain, is never taken for one.
SalesLeftTheSeller ==
  \A k \in 1 .. Len(sales) :
    LET s == sales[k] IN
      /\ Spent(s.carrier) /\ s.buyer # Owner(s.carrier)
      /\ \E n \in s.carrier[2] + 1 .. Len(trail[s.carrier[1]]) : trail[s.carrier[1]][n] = s.buyer

\* "pendingSale: carrier already spent, awaiting the indexer" (orderbook.js:147): a listing is
\* hidden from buyers only if its carrier is spent, or the node once failed to answer for it.
HiddenIsSpent ==
  \A o \in Outpoint :
    listings[o] # None /\ listings[o].pendingSale => Spent(o) \/ o \in misjudged

\* Offers on a carrier stay best first, one for each buyer, no more than the book holds, whatever
\* prunes write back.
BidsInOrder ==
  \A o \in Outpoint :
    /\ Len(bids[o]) <= MaxBids
    /\ \A k, m \in 1 .. Len(bids[o]) : k < m =>
         bids[o][k].price >= bids[o][m].price /\ bids[o][k].buyer # bids[o][m].buyer

\* What the book tells a reader - sold, hidden, the best offer - is so, however requests interleave
\* and the index lags (orderbook.js:151-201, 362-383).
BookTellsTruth == OrderBookTypeOK /\ SalesLeftTheSeller /\ HiddenIsSpent /\ BidsInOrder

-----------------------------------------------------------------------------
(* What comments say, and the code does not do.                             *)

\* "What actually traded" (orderbook.js:259): the log has an entry for a trade, and one only.
LogIsTrades ==
  /\ \A k \in 1 .. Len(sales) : \E n \in 1 .. MaxRelists : <<sales[k].carrier, n>> \in traded
  /\ \A k, m \in 1 .. Len(sales) : sales[k].carrier = sales[m].carrier => k = m
=============================================================================
