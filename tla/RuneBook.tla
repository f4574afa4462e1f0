------------------------------ MODULE RuneBook ------------------------------
(***************************************************************************)
(* src/runes/book.js: standing orders of rune sellers, and signed bids on      *)
(* their carriers.  A bid is filed under one seller in an array that requests  *)
(* read, change in place and replace while others still read it.               *)
(*                                                                             *)
(* The terms of an order or a bid are a number: only whether they are the      *)
(* same matters.                                                               *)
(***************************************************************************)
EXTENDS Naturals, Sequences, SequencesExt, FiniteSets, Absent

CONSTANTS
  Sellers, Buyers,
  Carriers,      \* Carriers[s]: the outpoints with runes at the script of seller s
  Nonces, Terms,
  Readers,      \* how many requests are open at a time
  MaxOrders,     \* MAX_ORDERS
  MaxRuneBids,       \* MAX_BIDS_PER_SELLER
  MaxFills,      \* MAX_FILLS
  Supply         \* order.sell: the units of an order

ASSUME RuneBookAssumption ==
  /\ MaxOrders \in Nat /\ MaxRuneBids \in Nat /\ MaxFills \in Nat /\ Supply \in Nat
  /\ DOMAIN Carriers = Sellers

VARIABLES
  spent,      \* the chain: carriers and buyers' coins that are spent
  orders, sold, fills,
  lapsed,     \* orders whose expiresAt has passed
  runeBids,       \* seller -> the array in the book
  reader     \* what each open request waits with

runeChain == <<spent>>
orderVars == <<orders, sold, fills, lapsed>>
bidVars == <<runeBids, reader>>
runeVars == <<runeChain, orderVars, bidVars>>

OrderKey == Sellers \X Nonces
Fill == [key : OrderKey, amount : Nat]
RuneBid == [buyer : Buyers, seller : Sellers,
        carriers : SUBSET UNION {Carriers[s] : s \in Sellers}, terms : Terms]
ASSUME NoArrayIsNone == \A n \in 0 .. MaxRuneBids : None \notin [1 .. n -> RuneBid]
Aimed(b) == b.carriers # {} /\ b.carriers \subseteq Carriers[b.seller]

\* A read of the bids: the array it walks, None while that is the one in the book; the place it
\* is at and the bid it took from there; the bids it found alive.
RuneIdle == [doing |-> "nothing"]
RuneRequest ==
  {RuneIdle} \cup [doing : {"put"}, bid : RuneBid]
    \cup [doing : {"read"}, seller : Sellers, array : Seq(RuneBid) \cup {None},
          next : Nat, bid : RuneBid, live : Seq(RuneBid)]

RuneBookTypeOK ==
  /\ spent \subseteq UNION {Carriers[s] : s \in Sellers} \cup Buyers
  /\ orders \in [OrderKey -> Terms \cup {None}]
  /\ sold \in [OrderKey -> Nat]
  /\ fills \in Seq(Fill)
  /\ lapsed \subseteq OrderKey
  /\ runeBids \in [Sellers -> Seq(RuneBid)]
  /\ reader \in [Readers -> RuneRequest]

RuneBookInit ==
  /\ spent = {}
  /\ orders = [k \in OrderKey |-> None] /\ sold = [k \in OrderKey |-> 0]
  /\ fills = <<>> /\ lapsed = {}
  /\ runeBids = [s \in Sellers |-> <<>>]
  /\ reader = [r \in Readers |-> RuneIdle]

\* Someone spends a carrier, or the coins a buyer funds all their bids with.
Spend(x) ==
  /\ x \notin spent /\ spent' = spent \cup {x}
  /\ UNCHANGED <<orderVars, bidVars>>

-----------------------------------------------------------------------------
(* Standing orders: nothing here waits.                                     *)

Standing == {k \in OrderKey : orders[k] # None}

\* putOrder: new terms on the nonce of an order replace it.
PutOrder(k, t) ==
  /\ orders[k] # None \/ Cardinality(Standing) < MaxOrders
  /\ orders' = [orders EXCEPT ![k] = t] /\ lapsed' = lapsed \ {k}
  /\ UNCHANGED <<runeChain, sold, fills, bidVars>>

CancelOrder(k) ==
  /\ orders[k] # None
  /\ orders' = [orders EXCEPT ![k] = None]
  /\ UNCHANGED <<runeChain, sold, fills, lapsed, bidVars>>

Expire(k) ==
  /\ orders[k] # None /\ k \notin lapsed
  /\ lapsed' = lapsed \cup {k}
  /\ UNCHANGED <<runeChain, orders, sold, fills, bidVars>>

\* orders(), which depth() goes through: what it notices expired it drops.
Remaining(k) == IF sold[k] >= Supply THEN 0 ELSE Supply - sold[k]
Served == {k \in Standing \ lapsed : Remaining(k) > 0}
ListOrders ==
  /\ orders' = [k \in OrderKey |-> IF k \in lapsed THEN None ELSE orders[k]]
  /\ UNCHANGED <<runeChain, sold, fills, lapsed, bidVars>>

First(s, n) == IF Len(s) > n THEN SubSeq(s, 1, n) ELSE s
RecordFill(k, amount) ==
  /\ sold' = [sold EXCEPT ![k] = @ + amount]
  /\ fills' = First(<<[key |-> k, amount |-> amount]>> \o fills, MaxFills)
  /\ UNCHANGED <<runeChain, orders, lapsed, bidVars>>

-----------------------------------------------------------------------------
(* Bids.                                                                    *)

Dead(b) == b.carriers \cap spent # {} \/ b.buyer \in spent

\* putBid: each carrier is asked about,
PutBid(r, b) ==
  /\ reader[r] = RuneIdle /\ Aimed(b) /\ b.carriers \cap spent = {}
  /\ reader' = [reader EXCEPT ![r] = [doing |-> "put", bid |-> b]]
  /\ UNCHANGED <<runeChain, orderVars, runeBids>>

\* and once the answers are here the array of the seller is looked up and changed in place.
SameOffer(b, c) == b.buyer = c.buyer /\ b.carriers = c.carriers
PlacesBefore(list, b) == {k \in 1 .. Len(list) - 1 : SameOffer(list[k], b)}  \* (mutant: last missed)
Places(list, b) == {k \in 1 .. Len(list) : SameOffer(list[k], b)}
Filed(list, b) ==
  IF Places(list, b) # {}
  THEN [k \in 1 .. Len(list) |-> IF SameOffer(list[k], b) THEN b ELSE list[k]]
  ELSE Append(list, b)

Room(list) == Len(list) < MaxRuneBids

StoreRuneBid(r) ==
  /\ reader[r].doing = "put"
  /\ LET b == reader[r].bid
         list == runeBids[b.seller] IN
       IF Room(list)
       THEN runeBids' = [runeBids EXCEPT ![b.seller] = Filed(list, b)]
       ELSE UNCHANGED runeBids
  /\ reader' = [reader EXCEPT ![r] = RuneIdle]
  /\ UNCHANGED <<runeChain, orderVars>>

\* bidsFor takes up the first bid of the array.  With none it has nothing to wait for.
RuneBidsFor(r, s) ==
  /\ reader[r] = RuneIdle /\ runeBids[s] # <<>>
  /\ reader' = [reader EXCEPT ![r] =
       [doing |-> "read", seller |-> s, array |-> None, next |-> 1, bid |-> runeBids[s][1],
        live |-> <<>>]]
  /\ UNCHANGED <<runeChain, orderVars, runeBids>>

Array(q) == IF q.array = None THEN runeBids[q.seller] ELSE q.array

\* Others that walk the array of this seller keep the one they had.
Detached(q, s) ==
  IF q.doing = "read" THEN IF q.seller = s /\ q.array = None THEN [q EXCEPT !.array = runeBids[s]] ELSE q
                      ELSE q

\* The node's answer for the bid in hand (a call that fails reads as spent).  The next bid is taken
\* from the array as it is by now; after the last, the live ones replace the array, if some died.
Judged(q, dead) == IF dead THEN q.live ELSE Append(q.live, q.bid)
KeepLive(q, live) == Len(live) # Len(Array(q))
Answer(r, dead) ==
  /\ reader[r].doing = "read"
  /\ LET q == reader[r]
         live == Judged(q, dead) IN
       /\ Dead(q.bid) => dead
       /\ IF q.next < Len(Array(q))
          THEN /\ reader' = [reader EXCEPT ![r] =
                    [q EXCEPT !.next = @ + 1, !.bid = Array(q)[q.next + 1], !.live = live]]
               /\ UNCHANGED runeBids
          ELSE IF KeepLive(q, live)
          THEN /\ runeBids' = [runeBids EXCEPT ![q.seller] = live]
               /\ reader' = [o \in Readers |->
                    IF o = r THEN RuneIdle ELSE Detached(reader[o], q.seller)]
          ELSE reader' = [reader EXCEPT ![r] = RuneIdle] /\ UNCHANGED runeBids
  /\ UNCHANGED <<runeChain, orderVars>>

-----------------------------------------------------------------------------
RuneChainNext ==
  \E x \in UNION {Carriers[s] : s \in Sellers} \cup Buyers : Spend(x)
OrderNext ==
  \/ \E k \in OrderKey : Expire(k) \/ CancelOrder(k)
  \/ \E k \in OrderKey, t \in Terms : PutOrder(k, t)
  \/ \E k \in OrderKey, n \in 1 .. Supply : sold[k] <= Supply /\ RecordFill(k, n)
  \/ ListOrders
RuneBidNext ==
  \/ \E r \in Readers, b \in RuneBid : PutBid(r, b)
  \/ \E r \in Readers : StoreRuneBid(r)
  \/ \E r \in Readers, s \in Sellers : RuneBidsFor(r, s)
  \/ \E r \in Readers, dead \in BOOLEAN : Answer(r, dead)
RuneBookNext == RuneChainNext \/ OrderNext \/ RuneBidNext
RuneBookSpec == RuneBookInit /\ [][RuneBookNext]_runeVars

-----------------------------------------------------------------------------
(* Properties.                                                              *)

\* "only one could ever confirm, so keeping both would only show the seller a choice that does not
\* exist" (book.js:117): one offer of a buyer for the same carriers, in the book and in what a
\* reader will write back, however the reads and puts interleave.
OneOffer ==
  \A s \in Sellers : \A k, m \in 1 .. Len(runeBids[s]) :
    SameOffer(runeBids[s][k], runeBids[s][m]) => k = m

\* The book never holds more bids of a seller than it may, nor one filed under another's script.
BookBounded ==
  \A s \in Sellers :
    /\ Len(runeBids[s]) <= MaxRuneBids
    /\ \A k \in 1 .. Len(runeBids[s]) : runeBids[s][k].seller = s

\* Both, for what reads and puts that overlap leave in the book (book.js:103-146).
BidsSound == RuneBookTypeOK /\ OneOffer /\ BookBounded

-----------------------------------------------------------------------------
(* What comments say, and the code does not do.                             *)

\* "A buyer who bids twice on the same carriers is replacing their own offer" (book.js:117): what
\* was replaced stays so, that is, a step that files no bid puts none in the book.
ReadsOnlyDrop ==
  [][(\A r \in Readers : reader[r].doing = "put" => reader'[r] = reader[r])
       => \A s \in Sellers : Range(runeBids'[s]) \subseteq Range(runeBids[s])]_runeVars
=============================================================================
