---------------------------- MODULE MarketProofs ----------------------------
(***************************************************************************)
(* Theorems about the two order books, the sale in one transaction, the promo  *)
(* campaign and the launchpad,                                                 *)
(* for every set of users, requests, carriers, terms and offers, every job and *)
(* claimant, every limit and cap, and every number of failures and restarts.   *)
(***************************************************************************)
EXTENDS OrderBook, RuneBook, Promo, Launchpad, Settlement, DataInduction, SequenceTheorems, TLAPS

\* An array of bids as the book means it: one offer of a buyer for the same carriers, all of them
\* filed under their seller, and no more than there may be.
Apart(list) == \A k, m \in 1 .. Len(list) : SameOffer(list[k], list[m]) => k = m
Under(list, s) == \A k \in 1 .. Len(list) : list[k].seller = s
Proper(list, s) == list \in Seq(RuneBid) /\ Len(list) <= MaxRuneBids /\ Apart(list) /\ Under(list, s)

\* A read walks its array: the bid in hand is an offer that was at its place, and each it found alive
\* was at an earlier one.  What a put does meanwhile to an offer leaves it the same offer.
Walks(q, array) ==
  /\ Proper(array, q.seller) /\ Proper(q.live, q.seller)
  /\ q.next \in 1 .. Len(array) /\ q.bid.seller = q.seller /\ SameOffer(q.bid, array[q.next])
  /\ Len(q.live) < q.next
  /\ \A k \in 1 .. Len(q.live) : \E p \in 1 .. q.next - 1 : SameOffer(q.live[k], array[p])

ArraysProper == \A s \in Sellers : Proper(runeBids[s], s)
ReadsWalk == \A r \in Readers : reader[r].doing = "read" => Walks(reader[r], Array(reader[r]))
RuneBookInv == RuneBookTypeOK /\ ArraysProper /\ ReadsWalk

PutRequest  == [doing : {"put"}, bid : RuneBid]
ReadRequest == [doing : {"read"}, seller : Sellers, array : Seq(RuneBid) \cup {None},
         next : Nat, bid : RuneBid, live : Seq(RuneBid)]

-----------------------------------------------------------------------------
\* A request is idle, a put or a read.
LEMMA RuneRequests ==
  ASSUME NEW q \in RuneRequest
  PROVE  /\ q = RuneIdle <=> q.doing = "nothing"
         /\ q.doing = "put" => q \in PutRequest
         /\ q.doing = "read" => q \in ReadRequest
  BY DEF RuneRequest, RuneIdle, PutRequest, ReadRequest

\* The other way about: every put and every read is a request the book may have.
LEMMA RuneRequestsAre == RuneIdle \in RuneRequest /\ PutRequest \subseteq RuneRequest /\ ReadRequest \subseteq RuneRequest
  BY DEF RuneRequest, PutRequest, ReadRequest

\* What a put makes of an array: the same offers at the same places, and at most one more.
LEMMA FiledProper ==
  ASSUME NEW s \in Sellers, NEW list, Proper(list, s), NEW b \in RuneBid, b.seller = s, Room(list)
  PROVE  /\ Proper(Filed(list, b), s) /\ Len(list) <= Len(Filed(list, b))
         /\ \A k \in 1 .. Len(list) : SameOffer(list[k], Filed(list, b)[k])
<1>0. list \in Seq(RuneBid) /\ Len(list) \in Nat /\ Apart(list) /\ Under(list, s) /\ Len(list) < MaxRuneBids
      /\ \A k \in 1 .. Len(list) : list[k] \in RuneBid
  BY DEF Proper, Room
<1>1. CASE Places(list, b) # {}
  <2> DEFINE new == [k \in 1 .. Len(list) |-> IF SameOffer(list[k], b) THEN b ELSE list[k]]
  <2>1. Filed(list, b) = new
    BY <1>1 DEF Filed
  <2>2. new \in Seq(RuneBid) /\ Len(new) = Len(list)
    BY <1>0
  <2>3. \A k \in 1 .. Len(list) : SameOffer(list[k], new[k]) /\ new[k].seller = s
    BY <1>0 DEF SameOffer, Under
  <2> HIDE DEF new
  <2>4. Apart(new)
    <3> SUFFICES ASSUME NEW k \in 1 .. Len(list), NEW m \in 1 .. Len(list), SameOffer(new[k], new[m]) PROVE k = m
      BY <2>2 DEF Apart
    <3>1. SameOffer(list[k], list[m])
      BY <2>3 DEF SameOffer
    <3> QED BY <1>0, <3>1 DEF Apart
  <2> QED BY <1>0, <2>1, <2>2, <2>3, <2>4 DEF Proper, Under
<1>2. CASE Places(list, b) = {}
  <2> DEFINE new == Append(list, b)
  <2>1. Filed(list, b) = new
    BY <1>2 DEF Filed
  <2>2. /\ new \in Seq(RuneBid) /\ Len(new) = Len(list) + 1 /\ new[Len(list) + 1] = b
        /\ \A k \in 1 .. Len(list) : new[k] = list[k]
    BY <1>0
  <2> HIDE DEF new
  <2>3. \A k \in 1 .. Len(list) : ~SameOffer(list[k], b)
    BY <1>2 DEF Places
  <2>4. Apart(new)
    <3> SUFFICES ASSUME NEW k \in 1 .. Len(new), NEW m \in 1 .. Len(new), SameOffer(new[k], new[m]) PROVE k = m
      BY DEF Apart
    <3>1. CASE k \in 1 .. Len(list) /\ m \in 1 .. Len(list)
      BY <1>0, <2>2, <3>1 DEF Apart
    <3>2. CASE k \notin 1 .. Len(list) /\ m \in 1 .. Len(list)
      BY <1>0, <2>2, <2>3, <3>2 DEF SameOffer
    <3>3. CASE k \in 1 .. Len(list) /\ m \notin 1 .. Len(list)
      BY <1>0, <2>2, <2>3, <3>3 DEF SameOffer
    <3>4. CASE k \notin 1 .. Len(list) /\ m \notin 1 .. Len(list)
      BY <1>0, <2>2, <3>4
    <3> QED BY <3>1, <3>2, <3>3, <3>4
  <2>5. Under(new, s)
    BY <1>0, <2>2 DEF Under
  <2>6. \A k \in 1 .. Len(list) : SameOffer(list[k], new[k])
    BY <2>2 DEF SameOffer
  <2>7. Len(new) <= MaxRuneBids
    BY <1>0, <2>2, RuneBookAssumption
  <2> QED BY <1>0, <2>1, <2>2, <2>4, <2>5, <2>6, <2>7 DEF Proper
<1> QED BY <1>1, <1>2

\* A read that walks an array walks one that a put has made of it.
LEMMA WalksOn ==
  ASSUME NEW q, NEW list, NEW new, Walks(q, list), Proper(new, q.seller), Len(list) <= Len(new),
         \A k \in 1 .. Len(list) : SameOffer(list[k], new[k])
  PROVE  Walks(q, new)
<1>1. Len(list) \in Nat /\ Len(new) \in Nat
  BY DEF Walks, Proper
<1>2. q.next \in 1 .. Len(list) /\ q.next \in 1 .. Len(new) /\ \A p \in 1 .. q.next - 1 : p \in 1 .. Len(list)
  BY <1>1 DEF Walks
<1>3. SameOffer(q.bid, new[q.next])
  BY <1>2 DEF Walks, SameOffer
<1>4. \A k \in 1 .. Len(q.live) : \E p \in 1 .. q.next - 1 : SameOffer(q.live[k], new[p])
  BY <1>2 DEF Walks, SameOffer
<1> QED BY <1>2, <1>3, <1>4 DEF Walks

\* The bids a read has found alive, with the one in hand or without it.
LEMMA JudgedProper ==
  ASSUME NEW q \in ReadRequest, NEW array, Walks(q, array), NEW dead \in BOOLEAN
  PROVE  /\ Proper(Judged(q, dead), q.seller) /\ Len(Judged(q, dead)) <= q.next
         /\ \A k \in 1 .. Len(Judged(q, dead)) :
              \E p \in 1 .. q.next : SameOffer(Judged(q, dead)[k], array[p])
<1>0. /\ q.next \in Nat /\ q.bid \in RuneBid /\ q.live \in Seq(RuneBid) /\ Len(q.live) \in Nat
      /\ array \in Seq(RuneBid) /\ Len(array) \in Nat /\ q.next \in 1 .. Len(array) /\ Len(array) <= MaxRuneBids
      /\ Apart(array) /\ Apart(q.live) /\ Under(q.live, q.seller) /\ q.bid.seller = q.seller /\ Len(q.live) < q.next
      /\ SameOffer(q.bid, array[q.next]) /\ Proper(q.live, q.seller)
  BY DEF ReadRequest, Walks, Proper
<1>1. \A k \in 1 .. Len(q.live) : \E p \in 1 .. q.next - 1 : SameOffer(q.live[k], array[p])
  BY DEF Walks
<1>2. CASE dead
  <2>1. Judged(q, dead) = q.live
    BY <1>2 DEF Judged
  <2>2. Len(q.live) <= q.next
    BY <1>0
  <2>3. \A p \in 1 .. q.next - 1 : p \in 1 .. q.next
    BY <1>0
  <2> QED BY <1>0, <1>1, <2>1, <2>2, <2>3, Zenon
<1>3. CASE ~dead
  <2> DEFINE alive == Append(q.live, q.bid)
  <2>1. Judged(q, dead) = alive
    BY <1>3 DEF Judged
  <2>2. /\ alive \in Seq(RuneBid) /\ Len(alive) = Len(q.live) + 1 /\ alive[Len(q.live) + 1] = q.bid
        /\ \A k \in 1 .. Len(q.live) : alive[k] = q.live[k]
    BY <1>0
  <2> HIDE DEF alive
  <2>3. \A k \in 1 .. Len(q.live) : ~SameOffer(q.live[k], q.bid)
    <3> SUFFICES ASSUME NEW k \in 1 .. Len(q.live), SameOffer(q.live[k], q.bid) PROVE FALSE
      OBVIOUS
    <3>1. PICK p \in 1 .. q.next - 1 : SameOffer(q.live[k], array[p])
      BY <1>1
    <3>2. SameOffer(array[p], array[q.next])
      BY <1>0, <3>1 DEF SameOffer
    <3> QED BY <1>0, <3>1, <3>2 DEF Apart
  <2>4. Apart(alive)
    <3> SUFFICES ASSUME NEW k \in 1 .. Len(alive), NEW m \in 1 .. Len(alive), SameOffer(alive[k], alive[m]) PROVE k = m
      BY DEF Apart
    <3>1. CASE k \in 1 .. Len(q.live) /\ m \in 1 .. Len(q.live)
      BY <1>0, <2>2, <3>1 DEF Apart
    <3>2. CASE k \notin 1 .. Len(q.live) /\ m \in 1 .. Len(q.live)
      BY <1>0, <2>2, <2>3, <3>2 DEF SameOffer
    <3>3. CASE k \in 1 .. Len(q.live) /\ m \notin 1 .. Len(q.live)
      BY <1>0, <2>2, <2>3, <3>3 DEF SameOffer
    <3>4. CASE k \notin 1 .. Len(q.live) /\ m \notin 1 .. Len(q.live)
      BY <1>0, <2>2, <3>4
    <3> QED BY <3>1, <3>2, <3>3, <3>4
  <2>5. Under(alive, q.seller)
    BY <1>0, <2>2 DEF Under
  <2>6. \A k \in 1 .. Len(alive) : \E p \in 1 .. q.next : SameOffer(alive[k], array[p])
    <3> SUFFICES ASSUME NEW k \in 1 .. Len(alive) PROVE \E p \in 1 .. q.next : SameOffer(alive[k], array[p])
      OBVIOUS
    <3>1. CASE k \in 1 .. Len(q.live)
      <4>1. PICK p \in 1 .. q.next - 1 : SameOffer(q.live[k], array[p])
        BY <1>1, <3>1
      <4>2. p \in 1 .. q.next
        BY <1>0, <4>1
      <4>3. SameOffer(alive[k], array[p])
        BY <2>2, <3>1, <4>1
      <4> QED BY <4>2, <4>3
    <3>2. CASE k \notin 1 .. Len(q.live)
      BY <1>0, <2>2, <3>2
    <3> QED BY <3>1, <3>2
  <2>7. Len(alive) <= q.next /\ Len(alive) <= MaxRuneBids
    BY <1>0, <2>2, RuneBookAssumption
  <2> QED BY <2>1, <2>2, <2>4, <2>5, <2>6, <2>7 DEF Proper
<1> QED BY <1>2, <1>3

\* A walk goes on to the next place of its array.
LEMMA WalksNext ==
  ASSUME NEW q \in ReadRequest, NEW array, Walks(q, array), NEW dead \in BOOLEAN, q.next < Len(array), NEW r,
         r = [q EXCEPT !.next = @ + 1, !.bid = array[q.next + 1], !.live = Judged(q, dead)]
  PROVE  r \in ReadRequest /\ r.seller = q.seller /\ r.array = q.array /\ Walks(r, array)
<1>0. /\ q.next \in Nat /\ array \in Seq(RuneBid) /\ Len(array) \in Nat /\ q.next \in 1 .. Len(array)
      /\ Under(array, q.seller) /\ Proper(array, q.seller)
  BY DEF ReadRequest, Walks, Proper
<1>1. Proper(Judged(q, dead), q.seller) /\ Len(Judged(q, dead)) <= q.next
      /\ \A k \in 1 .. Len(Judged(q, dead)) : \E p \in 1 .. q.next : SameOffer(Judged(q, dead)[k], array[p])
  BY JudgedProper
<1>2. Judged(q, dead) \in Seq(RuneBid)
  BY <1>1 DEF Proper
<1>3. q.next + 1 \in 1 .. Len(array) /\ array[q.next + 1] \in RuneBid /\ array[q.next + 1].seller = q.seller
  BY <1>0 DEF Under
<1>4. r \in ReadRequest /\ r.seller = q.seller /\ r.array = q.array /\ r.next = q.next + 1
      /\ r.bid = array[q.next + 1] /\ r.live = Judged(q, dead)
  <2> DEFINE b == array[q.next + 1]
             alive == Judged(q, dead)
             n == q.next + 1
  <2>1. n \in Nat /\ b \in RuneBid /\ alive \in Seq(RuneBid)
    BY <1>0, <1>2, <1>3
  <2> HIDE DEF b, alive, n
  <2>2. r = [q EXCEPT !.next = n, !.bid = b, !.live = alive]
    BY DEF b, alive, n
  <2>3. r \in ReadRequest /\ r.seller = q.seller /\ r.array = q.array /\ r.next = n /\ r.bid = b /\ r.live = alive
    BY <2>1, <2>2 DEF ReadRequest
  <2> QED BY <2>3 DEF b, alive, n
<1>5. Len(Judged(q, dead)) < r.next
  <2>1. Len(Judged(q, dead)) \in Nat
    BY <1>2
  <2> QED BY <1>0, <1>1, <1>4, <2>1
<1>6. 1 .. r.next - 1 = 1 .. q.next
  BY <1>0, <1>4
<1> QED BY <1>0, <1>1, <1>3, <1>4, <1>5, <1>6 DEF Walks, SameOffer

\* The orders and the fills keep their types.
LEMMA OrdersStep ==
  RuneBookInv /\ [RuneBookNext]_runeVars =>
    /\ spent' \subseteq UNION {Carriers[s] : s \in Sellers} \cup Buyers
    /\ orders' \in [OrderKey -> Terms \cup {None}] /\ sold' \in [OrderKey -> Nat]
    /\ fills' \in Seq(Fill) /\ lapsed' \subseteq OrderKey
<1> SUFFICES ASSUME RuneBookInv, [RuneBookNext]_runeVars
             PROVE  /\ spent' \subseteq UNION {Carriers[s] : s \in Sellers} \cup Buyers
                    /\ orders' \in [OrderKey -> Terms \cup {None}] /\ sold' \in [OrderKey -> Nat]
                    /\ fills' \in Seq(Fill) /\ lapsed' \subseteq OrderKey
  OBVIOUS
<1>0. RuneBookTypeOK
  BY DEF RuneBookInv
<1>1. spent' \subseteq UNION {Carriers[s] : s \in Sellers} \cup Buyers
  BY <1>0 DEF RuneBookTypeOK, RuneBookNext, RuneChainNext, OrderNext, RuneBidNext, Spend, Expire, CancelOrder,
     PutOrder, RecordFill, ListOrders, PutBid, StoreRuneBid, RuneBidsFor, Answer, runeVars, runeChain
<1>2. orders' \in [OrderKey -> Terms \cup {None}]
  BY <1>0 DEF RuneBookTypeOK, RuneBookNext, RuneChainNext, OrderNext, RuneBidNext, Spend, Expire, CancelOrder,
     PutOrder, RecordFill, ListOrders, PutBid, StoreRuneBid, RuneBidsFor, Answer, runeVars, orderVars
<1>3. lapsed' \subseteq OrderKey
  BY <1>0 DEF RuneBookTypeOK, RuneBookNext, RuneChainNext, OrderNext, RuneBidNext, Spend, Expire, CancelOrder,
     PutOrder, RecordFill, ListOrders, PutBid, StoreRuneBid, RuneBidsFor, Answer, runeVars, orderVars
<1>4. ASSUME NEW k \in OrderKey, NEW n \in 1 .. Supply, RecordFill(k, n)
      PROVE  sold' \in [OrderKey -> Nat] /\ fills' \in Seq(Fill)
  <2>1. n \in Nat
    BY RuneBookAssumption
  <2>2. sold' \in [OrderKey -> Nat]
    BY <1>0, <1>4, <2>1 DEF RuneBookTypeOK, RecordFill
  <2>3. <<[key |-> k, amount |-> n]>> \in Seq(Fill)
    BY <2>1 DEF Fill
  <2> DEFINE all == <<[key |-> k, amount |-> n]>> \o fills
  <2>4. all \in Seq(Fill) /\ fills' = First(all, MaxFills)
    BY <1>0, <1>4, <2>3 DEF RuneBookTypeOK, RecordFill
  <2> HIDE DEF all
  <2>5. First(all, MaxFills) \in Seq(Fill)
    BY <2>4, RuneBookAssumption DEF First
  <2> QED BY <2>2, <2>4, <2>5
<1>5. ASSUME ~ \E k \in OrderKey, n \in 1 .. Supply : RecordFill(k, n) PROVE UNCHANGED <<sold, fills>>
  BY <1>5 DEF RuneBookNext, RuneChainNext, OrderNext, RuneBidNext, Spend, Expire, CancelOrder,
     PutOrder, ListOrders, PutBid, StoreRuneBid, RuneBidsFor, Answer, runeVars, orderVars
<1> QED BY <1>0, <1>1, <1>2, <1>3, <1>4, <1>5 DEF RuneBookTypeOK

\* The arrays stay proper and the reads go on walking theirs.
LEMMA BidsStep ==
  RuneBookInv /\ [RuneBookNext]_runeVars =>
    /\ runeBids' \in [Sellers -> Seq(RuneBid)] /\ reader' \in [Readers -> RuneRequest]
    /\ ArraysProper' /\ ReadsWalk'
<1> DEFINE Bids == /\ runeBids \in [Sellers -> Seq(RuneBid)] /\ reader \in [Readers -> RuneRequest]
                   /\ ArraysProper /\ ReadsWalk
<1> SUFFICES ASSUME Bids, [RuneBookNext]_runeVars PROVE Bids'
  BY DEF RuneBookInv, RuneBookTypeOK
<1>0. /\ \A s \in Sellers : Proper(runeBids[s], s)
      /\ \A o \in Readers : reader[o] \in RuneRequest
      /\ \A o \in Readers : reader[o].doing = "read" => reader[o] \in ReadRequest /\ Walks(reader[o], Array(reader[o]))
      /\ \A o \in Readers : reader[o].doing = "put" => reader[o] \in PutRequest
  BY RuneRequests DEF ArraysProper, ReadsWalk
<1>a. \A q : Array(q)' = IF q'.array = None THEN runeBids'[q'.seller] ELSE q'.array
  BY DEF Array
<1>1. ASSUME UNCHANGED bidVars PROVE Bids'
  BY <1>1 DEF bidVars, ArraysProper, ReadsWalk, Array
<1>2. ASSUME runeBids' = runeBids, NEW r \in Readers, NEW q \in RuneRequest, reader' = [reader EXCEPT ![r] = q],
             q.doing = "read" => Walks(q, Array(q))
      PROVE  Bids'
  BY <1>0, <1>2 DEF ArraysProper, ReadsWalk, Array
<1>3. ASSUME NEW r \in Readers, NEW b \in RuneBid, PutBid(r, b) PROVE Bids'
  <2> DEFINE q == [doing |-> "put", bid |-> b]
  <2>1. q \in RuneRequest /\ q.doing # "read"
    BY DEF RuneRequest
  <2> HIDE DEF q
  <2>2. runeBids' = runeBids /\ reader' = [reader EXCEPT ![r] = q]
    BY <1>3 DEF PutBid, q
  <2> QED BY <1>2, <2>1, <2>2
<1>4. ASSUME NEW r \in Readers, NEW s \in Sellers, RuneBidsFor(r, s) PROVE Bids'
  <2> DEFINE q == [doing |-> "read", seller |-> s, array |-> None, next |-> 1, bid |-> runeBids[s][1],
                   live |-> <<>>]
  <2>1. runeBids[s] \in Seq(RuneBid) /\ Len(runeBids[s]) \in Nat /\ Len(runeBids[s]) >= 1
        /\ runeBids[s][1] \in RuneBid /\ runeBids[s][1].seller = s /\ Proper(runeBids[s], s)
    BY <1>0, <1>4 DEF Proper, Under, RuneBidsFor
  <2>2. <<>> \in Seq(RuneBid) /\ Len(<<>>) = 0
    OBVIOUS
  <2>3. q \in RuneRequest /\ Array(q) = runeBids[s]
    BY <2>1, <2>2 DEF RuneRequest, Array
  <2>4. Proper(<<>>, s)
    BY <2>2, RuneBookAssumption DEF Proper, Apart, Under
  <2>5. Walks(q, runeBids[s])
    BY <2>1, <2>2, <2>4 DEF Walks, SameOffer
  <2> HIDE DEF q
  <2>6. runeBids' = runeBids /\ reader' = [reader EXCEPT ![r] = q]
    BY <1>4 DEF RuneBidsFor, q
  <2> QED BY <1>2, <2>3, <2>5, <2>6
<1>5. ASSUME NEW r \in Readers, StoreRuneBid(r) PROVE Bids'
  <2> DEFINE b == reader[r].bid
             list == runeBids[b.seller]
  <2>1. b \in RuneBid /\ b.seller \in Sellers /\ Proper(list, b.seller) /\ list \in Seq(RuneBid)
    BY <1>0, <1>5 DEF StoreRuneBid, PutRequest, RuneBid
  <2>2. RuneIdle \in RuneRequest /\ RuneIdle.doing # "read"
    BY RuneRequestsAre DEF RuneIdle
  <2>3. reader' = [reader EXCEPT ![r] = RuneIdle]
    BY <1>5 DEF StoreRuneBid
  <2>4. CASE ~Room(list)
    <3>1. runeBids' = runeBids
      BY <1>5, <2>4 DEF StoreRuneBid
    <3> QED BY <1>2, <2>2, <2>3, <3>1
  <2>5. CASE Room(list)
    <3> DEFINE new == Filed(list, b)
    <3>1. runeBids' = [runeBids EXCEPT ![b.seller] = new]
      BY <1>5, <2>5 DEF StoreRuneBid
    <3>2. /\ Proper(new, b.seller) /\ Len(list) <= Len(new)
          /\ \A k \in 1 .. Len(list) : SameOffer(list[k], new[k])
      BY <2>1, <2>5, FiledProper
    <3>3. new \in Seq(RuneBid)
      BY <3>2 DEF Proper
    <3> HIDE DEF new
    <3>4. runeBids' \in [Sellers -> Seq(RuneBid)] /\ ArraysProper'
      BY <1>0, <2>1, <3>1, <3>2, <3>3 DEF ArraysProper
    <3>5. ASSUME NEW o \in Readers, reader'[o].doing = "read" PROVE Walks(reader'[o], Array(reader[o])')
      <4>1. o # r /\ reader'[o] = reader[o] /\ reader[o] \in ReadRequest /\ Walks(reader[o], Array(reader[o]))
        BY <1>0, <2>2, <2>3, <3>5
      <4>2. CASE reader[o].array = None /\ reader[o].seller = b.seller
        <5>1. Array(reader[o]) = list /\ Array(reader[o])' = new
          BY <2>1, <3>1, <4>1, <4>2 DEF Array
        <5> QED BY <3>2, <4>1, <4>2, <5>1, WalksOn
      <4>3. CASE ~(reader[o].array = None /\ reader[o].seller = b.seller)
        <5>1. Array(reader[o])' = Array(reader[o])
          BY <2>1, <3>1, <4>1, <4>3 DEF Array, ReadRequest
        <5> QED BY <4>1, <5>1
      <4> QED BY <4>2, <4>3
    <3> QED BY <2>2, <2>3, <3>4, <3>5 DEF ReadsWalk
  <2> QED BY <2>4, <2>5
<1>6. ASSUME NEW r \in Readers, NEW dead \in BOOLEAN, Answer(r, dead) PROVE Bids'
  <2> DEFINE q == reader[r]
             array == Array(q)
             alive == Judged(q, dead)
  <2>1. q \in ReadRequest /\ Walks(q, array) /\ q.seller \in Sellers
    BY <1>0, <1>6 DEF Answer, ReadRequest
  <2>2. Proper(alive, q.seller) /\ alive \in Seq(RuneBid)
    BY <2>1, JudgedProper DEF Proper
  <2>3. RuneIdle \in RuneRequest /\ RuneIdle.doing # "read"
    BY RuneRequestsAre DEF RuneIdle
  <2>4. CASE q.next < Len(array)
    <3> DEFINE n == [q EXCEPT !.next = @ + 1, !.bid = array[q.next + 1], !.live = alive]
    <3>1. n \in ReadRequest /\ n.seller = q.seller /\ n.array = q.array /\ Walks(n, array)
      BY <2>1, <2>4, WalksNext
    <3>2. reader' = [reader EXCEPT ![r] = n] /\ runeBids' = runeBids
      BY <1>6, <2>4 DEF Answer
    <3> HIDE DEF n
    <3>3. n \in RuneRequest /\ Array(n) = array
      BY <3>1, RuneRequestsAre DEF Array
    <3> QED BY <1>2, <3>1, <3>2, <3>3
  <2>5. CASE ~(q.next < Len(array)) /\ ~KeepLive(q, alive)
    <3>1. reader' = [reader EXCEPT ![r] = RuneIdle] /\ runeBids' = runeBids
      BY <1>6, <2>5 DEF Answer
    <3> QED BY <1>2, <2>3, <3>1
  <2>6. CASE ~(q.next < Len(array)) /\ KeepLive(q, alive)
    <3>1. /\ runeBids' = [runeBids EXCEPT ![q.seller] = alive]
          /\ reader' = [o \in Readers |-> IF o = r THEN RuneIdle ELSE Detached(reader[o], q.seller)]
      BY <1>6, <2>6 DEF Answer
    <3> HIDE DEF alive
    <3>2. runeBids' \in [Sellers -> Seq(RuneBid)] /\ ArraysProper'
      BY <1>0, <2>1, <2>2, <3>1 DEF ArraysProper
    <3>3. ASSUME NEW o \in Readers
          PROVE  /\ reader'[o] \in RuneRequest
                 /\ reader'[o].doing = "read" => Walks(reader'[o], Array(reader[o])')
      <4>1. CASE o = r
        BY <2>3, <3>1, <4>1
      <4>2. CASE o # r /\ reader[o].doing # "read"
        BY <1>0, <3>1, <4>2 DEF Detached
      <4>3. CASE o # r /\ reader[o].doing = "read" /\ reader[o].seller = q.seller /\ reader[o].array = None
        <5> DEFINE old == runeBids[q.seller]
        <5>1. reader[o] \in ReadRequest /\ Walks(reader[o], old)
          BY <1>0, <4>3 DEF Array
        <5>2. old \in Seq(RuneBid) /\ old # None
          <6>1. old \in Seq(RuneBid) /\ Len(old) \in Nat /\ Len(old) <= MaxRuneBids
            BY <1>0, <2>1 DEF Proper
          <6>2. Len(old) \in 0 .. MaxRuneBids /\ old \in [1 .. Len(old) -> RuneBid]
            BY <6>1, RuneBookAssumption
          <6> QED BY <6>1, <6>2, NoArrayIsNone
        <5> HIDE DEF old
        <5>3. reader'[o] = [reader[o] EXCEPT !.array = old]
          BY <3>1, <4>3 DEF Detached, old
        <5>4. /\ reader'[o] \in ReadRequest /\ reader'[o].array = old /\ reader'[o].seller = reader[o].seller
              /\ reader'[o].next = reader[o].next /\ reader'[o].bid = reader[o].bid
              /\ reader'[o].live = reader[o].live
          BY <5>1, <5>2, <5>3 DEF ReadRequest
        <5>5. Array(reader[o])' = old
          BY <5>2, <5>4 DEF Array
        <5> QED BY <5>1, <5>4, <5>5, RuneRequestsAre DEF Walks
      <4>4. CASE o # r /\ reader[o].doing = "read" /\ ~(reader[o].seller = q.seller /\ reader[o].array = None)
        <5>1. reader'[o] = reader[o] /\ reader[o] \in ReadRequest
          BY <1>0, <3>1, <4>4 DEF Detached
        <5>2. Array(reader[o])' = Array(reader[o])
          BY <2>1, <3>1, <4>4, <5>1 DEF Array, ReadRequest
        <5> QED BY <1>0, <4>4, <5>1, <5>2
      <4> QED BY <4>1, <4>2, <4>3, <4>4
    <3> QED BY <3>1, <3>2, <3>3 DEF ReadsWalk
  <2> QED BY <2>4, <2>5, <2>6
<1>7. ASSUME RuneChainNext \/ OrderNext PROVE UNCHANGED bidVars
  BY <1>7 DEF RuneChainNext, OrderNext, Spend, Expire, CancelOrder, PutOrder, RecordFill, ListOrders
<1> QED BY <1>1, <1>3, <1>4, <1>5, <1>6, <1>7 DEF RuneBookNext, RuneBidNext, runeVars

\* The inductive invariant of the rune book: every array is proper, and every read walks one that is.
THEOREM RuneBookInvariant == RuneBookSpec => []RuneBookInv
<1>1. RuneBookInit => RuneBookInv
  <2> SUFFICES ASSUME RuneBookInit PROVE RuneBookInv
    OBVIOUS
  <2>1. <<>> \in Seq(RuneBid) /\ <<>> \in Seq(Fill) /\ Len(<<>>) = 0
    OBVIOUS
  <2>2. RuneBookTypeOK
    BY <2>1, RuneRequestsAre DEF RuneBookInit, RuneBookTypeOK
  <2>3. ArraysProper
    BY <2>1, RuneBookAssumption DEF RuneBookInit, ArraysProper, Proper, Apart, Under
  <2>4. ReadsWalk
    BY DEF RuneBookInit, ReadsWalk, RuneIdle
  <2> QED BY <2>2, <2>3, <2>4 DEF RuneBookInv
<1>2. RuneBookInv /\ [RuneBookNext]_runeVars => RuneBookInv'
  BY OrdersStep, BidsStep DEF RuneBookInv, RuneBookTypeOK
<1> QED BY <1>1, <1>2, PTL DEF RuneBookSpec

\* book.js, putBid and bidsFor: however reads and puts of a seller's array interleave, a buyer has one
\* offer for the same carriers, filed under its seller, and there are no more than there may be.
THEOREM RuneBidsCorrect == RuneBookSpec => []BidsSound
<1>1. RuneBookInv => BidsSound
  BY DEF RuneBookInv, ArraysProper, Proper, Apart, Under, BidsSound, OneOffer, BookBounded
<1> QED BY <1>1, RuneBookInvariant, PTL

-----------------------------------------------------------------------------
(* The order book of inscriptions.                                          *)

\* Offers as a seller sees them: the best first, one for each buyer.
InOrder(list) ==
  \A k, m \in 1 .. Len(list) : k < m => list[k].price >= list[m].price /\ list[k].buyer # list[m].buyer
OffersIn(list) == list \in Seq(Bid) /\ Len(list) <= MaxBids /\ InOrder(list)

\* An outpoint is listed only after the index had the inscription there.
ListedKnown ==
  \A o \in Outpoint : /\ listings[o] # None => published[o] > 0
                      /\ published[o] > 0 => seen[o[1]] >= o[2]
PrunesKnown == \A r \in Requests : request[r].doing = "prune" => published[request[r].at] > 0

\* A read of the bids has kept some of those it went through, in their order.
Keeps(q) ==
  /\ OffersIn(q.list) /\ OffersIn(q.kept) /\ q.next \in 0 .. Len(q.list) /\ Len(q.list) > 0
  /\ Len(q.kept) <= q.next /\ (q.next > 0 => Len(q.kept) < q.next)
  /\ \A k \in 1 .. Len(q.kept), p \in 1 .. Len(q.list) : p >= q.next =>
       q.kept[k].price >= q.list[p].price /\ q.kept[k].buyer # q.list[p].buyer
ReadsKeep == \A r \in Requests : request[r].doing = "bids" => Keeps(request[r])

OffersInOrder == bids \in [Outpoint -> Seq(Bid)] /\ \A o \in Outpoint : OffersIn(bids[o])
OrderBookInv ==
  /\ OrderBookTypeOK /\ seen \in [Items -> Nat] /\ OffersInOrder
  /\ ListedKnown /\ PrunesKnown /\ ReadsKeep /\ SalesLeftTheSeller /\ HiddenIsSpent

-----------------------------------------------------------------------------
\* The limits and the prices are numbers.
LEMMA BookNumbers ==
  /\ MaxMoves \in Nat /\ MaxMoves > 0 /\ MaxRelists \in Nat /\ MaxListings \in Nat /\ MaxBids \in Nat
  /\ MaxSales \in Nat /\ MaxSales > 0 /\ MaxFaults \in Nat
  /\ \A b \in Bid : b.price \in Nat
  BY BookAssumption DEF Bid

\* A bounded sequence is a sequence, and no longer than the bound.
LEMMA Bounded ==
  ASSUME NEW S, NEW n \in Nat, NEW s
  PROVE  s \in BoundedSeq(S, n) <=> s \in Seq(S) /\ Len(s) <= n
<1>1. ASSUME s \in BoundedSeq(S, n) PROVE s \in Seq(S) /\ Len(s) <= n
  <2>1. PICK m \in 0 .. n : s \in [1 .. m -> S]
    BY <1>1 DEF BoundedSeq, SeqOf
  <2> QED BY <2>1
<1>2. ASSUME s \in Seq(S), Len(s) <= n PROVE s \in BoundedSeq(S, n)
  <2>1. Len(s) \in 0 .. n /\ s \in [1 .. Len(s) -> S]
    BY <1>2
  <2> QED BY <2>1 DEF BoundedSeq, SeqOf
<1> QED BY <1>1, <1>2

\* The function that filters a list is what it says.
LEMMA FilterSteps ==
  ASSUME NEW S, NEW list \in Seq(S), NEW keep
  PROVE  \E left \in [0 .. Len(list) -> Seq(S)] :
           /\ Filter(list, keep) = left[Len(list)] /\ left[0] = <<>>
           /\ \A n \in 1 .. Len(list) :
                left[n] = IF n \in keep THEN Append(left[n - 1], list[n]) ELSE left[n - 1]
<1> DEFINE V == Seq(S)
           first == <<>>
           last == Len(list)
           step == [n \in 1 .. last |-> [v \in V |-> IF n \in keep THEN Append(v, list[n]) ELSE v]]
           D(f, n) == IF n = 0 THEN <<>> ELSE IF n \in keep THEN Append(f[n - 1], list[n]) ELSE f[n - 1]
           left == CHOOSE f : f = [n \in 0 .. Len(list) |-> D(f, n)]
<1>1. last \in Nat /\ first \in V /\ step \in [1 .. last -> [V -> V]]
  OBVIOUS
<1>2. \A n \in 1 .. last : \A v \in V : step[n][v] = IF n \in keep THEN Append(v, list[n]) ELSE v
  OBVIOUS
<1>3. PICK f : Stepwise(f, last, V, first, step)
  <2> HIDE DEF V, first, last, step
  <2> QED BY <1>1, StepwiseExists
<1>12. f \in [0 .. last -> V] /\ f[0] = first /\ \A n \in 1 .. last : f[n] = step[n][f[n - 1]]
  <2> HIDE DEF V, first, last, step
  <2> QED BY <1>3 DEF Stepwise
<1>4. \A n \in 0 .. last : f[n] = D(f, n)
  <2> SUFFICES ASSUME NEW n \in 0 .. last PROVE f[n] = D(f, n)
    OBVIOUS
  <2>2. CASE n = 0
    BY <1>12, <2>2
  <2>3. CASE n # 0
    <3>1. n \in 1 .. last /\ n - 1 \in 0 .. last
      BY <1>1, <2>3
    <3>2. f[n - 1] \in V
      BY <1>12, <3>1
    <3>3. f[n] = step[n][f[n - 1]]
      <4> HIDE DEF step, V, last, first
      <4> QED BY <1>12, <3>1
    <3>4. step[n][f[n - 1]] = IF n \in keep THEN Append(f[n - 1], list[n]) ELSE f[n - 1]
      <4> HIDE DEF step, V, last
      <4> QED BY <1>2, <3>1, <3>2
    <3> QED BY <2>3, <3>3, <3>4
  <2> QED BY <2>2, <2>3
<1>5. left = [n \in 0 .. Len(list) |-> D(left, n)]
  <2>1. f = [n \in 0 .. Len(list) |-> D(f, n)]
    <3> HIDE DEF V, step, D
    <3> QED BY <1>12, <1>4
  <2> QED BY <2>1
<1>6. Filter(list, keep) = left[Len(list)]
  BY DEF Filter
<1> HIDE DEF left
<1>7. \A n \in 0 .. last : left[n] = D(left, n)
  <2> HIDE DEF D
  <2> QED BY <1>5
<1>8. left[0] = <<>>
  BY <1>1, <1>7
<1>9. \A n \in 1 .. last : left[n] = IF n \in keep THEN Append(left[n - 1], list[n]) ELSE left[n - 1]
  BY <1>1, <1>7
<1>10. \A n \in 0 .. last : left[n] \in V
  <2> DEFINE T == {n \in 0 .. last : left[n] \in V}
  <2>1. 0 \in T
    <3>1. 0 \in 0 .. last /\ left[0] \in V
      <4> HIDE DEF last, V
      <4> QED BY <1>1, <1>8 DEF first
    <3> HIDE DEF last, V
    <3> QED BY <3>1
  <2>2. ASSUME NEW n \in 0 .. last - 1, n \in T PROVE n + 1 \in T
    <3>1. n + 1 \in 1 .. last /\ n + 1 \in 0 .. last /\ list[n + 1] \in S /\ (n + 1) - 1 = n
      BY <1>1
    <3>2. left[n + 1] = IF n + 1 \in keep THEN Append(left[n], list[n + 1]) ELSE left[n]
      <4> HIDE DEF last
      <4> QED BY <1>9, <3>1
    <3>3. left[n] \in V
      BY <2>2
    <3>4. left[n + 1] \in V
      BY <3>1, <3>2, <3>3
    <3> HIDE DEF last, V
    <3> QED BY <3>1, <3>4
  <2> HIDE DEF T
  <2>3. 0 .. last \subseteq T
    <3> HIDE DEF last
    <3> QED BY <1>1, <2>1, <2>2, UpTo
  <2> QED BY <2>3 DEF T
<1>11. left \in [0 .. last -> V]
  <2>1. DOMAIN left = 0 .. last /\ left = [n \in DOMAIN left |-> left[n]]
    <3> HIDE DEF D
    <3> QED BY <1>5
  <2> HIDE DEF V, last
  <2> QED BY <1>10, <2>1
<1> QED BY <1>6, <1>8, <1>9, <1>11

\* A place in a list that is not its last is one of the list before.
LEMMA NotLast ==
  ASSUME NEW n \in Nat, NEW k \in 1 .. n + 1, k # n + 1
  PROVE  k \in 1 .. n
OBVIOUS

\* What a filter leaves stood in the list, in the same order and where it was to be kept.
LEMMA Filtered ==
  ASSUME NEW S, NEW list \in Seq(S), NEW keep
  PROVE  /\ Filter(list, keep) \in Seq(S)
         /\ \E from \in [1 .. Len(Filter(list, keep)) -> 1 .. Len(list)] :
              /\ \A k \in 1 .. Len(Filter(list, keep)) : Filter(list, keep)[k] = list[from[k]] /\ from[k] \in keep
              /\ \A k, m \in 1 .. Len(Filter(list, keep)) : k < m => from[k] < from[m]
<1>1. PICK left \in [0 .. Len(list) -> Seq(S)] :
         /\ Filter(list, keep) = left[Len(list)] /\ left[0] = <<>>
         /\ \A n \in 1 .. Len(list) :
              left[n] = IF n \in keep THEN Append(left[n - 1], list[n]) ELSE left[n - 1]
  BY FilterSteps
<1>0. Len(list) \in Nat
  OBVIOUS
<1> DEFINE Comes(from, s, n) ==
             /\ from \in [1 .. Len(s) -> 1 .. n]
             /\ \A k \in 1 .. Len(s) : s[k] = list[from[k]] /\ from[k] \in keep
             /\ \A k, m \in 1 .. Len(s) : k < m => from[k] < from[m]
           T == {n \in 0 .. Len(list) : \E from : Comes(from, left[n], n)}
<1>2. 0 \in T
  <2>1. Len(left[0]) = 0
    BY <1>1
  <2>2. Comes([k \in {} |-> 0], left[0], 0)
    BY <2>1
  <2> HIDE DEF Comes
  <2> QED BY <1>0, <2>2
<1>3. ASSUME NEW n \in 0 .. Len(list) - 1, n \in T PROVE n + 1 \in T
  <2>1. PICK from : Comes(from, left[n], n)
    BY <1>3
  <2> DEFINE s == left[n]
             t == left[n + 1]
  <2>2. s \in Seq(S) /\ Len(s) \in Nat /\ n + 1 \in 0 .. Len(list) /\ list[n + 1] \in S
    BY <1>0, <1>1
  <2>3. t = IF n + 1 \in keep THEN Append(s, list[n + 1]) ELSE s
    <3>1. n + 1 \in 1 .. Len(list) /\ (n + 1) - 1 = n
      BY <1>0
    <3> QED BY <1>1, <3>1
  <2>0. Comes(from, s, n)
    BY <2>1
  <2> HIDE DEF s, t
  <2>4. CASE n + 1 \notin keep
    <3>1. Comes(from, t, n + 1)
      BY <2>0, <2>2, <2>3, <2>4
    <3> HIDE DEF Comes
    <3> QED BY <2>2, <3>1 DEF t
  <2>5. CASE n + 1 \in keep
    <3> DEFINE onto == [k \in 1 .. Len(s) + 1 |-> IF k = Len(s) + 1 THEN n + 1 ELSE from[k]]
    <3>1. /\ Len(t) = Len(s) + 1 /\ t[Len(s) + 1] = list[n + 1]
          /\ \A k \in 1 .. Len(s) : t[k] = s[k]
      BY <2>2, <2>3, <2>5
    <3>2. onto \in [1 .. Len(t) -> 1 .. n + 1]
      BY <2>0, <2>2, <3>1
    <3>3. /\ onto[Len(s) + 1] = n + 1
          /\ \A k \in 1 .. Len(s) : onto[k] = from[k] /\ from[k] \in 1 .. n
      <4> HIDE DEF s
      <4> QED BY <2>0, <2>2
    <3> HIDE DEF onto
    <3>4. \A k \in 1 .. Len(t) : t[k] = list[onto[k]] /\ onto[k] \in keep
      <4> SUFFICES ASSUME NEW k \in 1 .. Len(t) PROVE t[k] = list[onto[k]] /\ onto[k] \in keep
        OBVIOUS
      <4>1. CASE k = Len(s) + 1
        BY <2>5, <3>1, <3>3, <4>1
      <4>2. CASE k # Len(s) + 1
        <5>1. k \in 1 .. Len(s)
          BY <2>2, <3>1, <4>2
        <5> QED BY <2>0, <3>1, <3>3, <5>1
      <4> QED BY <4>1, <4>2
    <3>5. \A k, m \in 1 .. Len(t) : k < m => onto[k] < onto[m]
      <4> SUFFICES ASSUME NEW k \in 1 .. Len(t), NEW m \in 1 .. Len(t), k < m PROVE onto[k] < onto[m]
        OBVIOUS
      <4>1. k \in 1 .. Len(s) /\ onto[k] = from[k] /\ from[k] \in 1 .. n
        <5>1. k \in 1 .. Len(s)
          BY <2>2, <3>1
        <5> QED BY <3>3, <5>1
      <4>2. CASE m = Len(s) + 1
        BY <3>3, <4>1, <4>2
      <4>3. CASE m # Len(s) + 1
        <5>1. m \in 1 .. Len(s)
          BY <2>2, <3>1, <4>3, NotLast
        <5> QED BY <2>0, <3>3, <4>1, <5>1
      <4> QED BY <4>2, <4>3
    <3>6. Comes(onto, t, n + 1)
      BY <3>2, <3>4, <3>5
    <3> HIDE DEF Comes
    <3> QED BY <2>2, <3>6 DEF t
  <2> QED BY <2>4, <2>5
<1> HIDE DEF T
<1>4. 0 .. Len(list) \subseteq T
  BY <1>0, <1>2, <1>3, UpTo
<1>5. Len(list) \in T
  BY <1>0, <1>4
<1>6. \E from : Comes(from, left[Len(list)], Len(list))
  BY <1>5 DEF T
<1> DEFINE kept == Filter(list, keep)
<1>7. \E from : Comes(from, kept, Len(list))
  <2> HIDE DEF Comes
  <2> QED BY <1>1, <1>6
<1>8. kept \in Seq(S)
  BY <1>0, <1>1
<1> HIDE DEF kept
<1>9. /\ kept \in Seq(S)
      /\ \E from \in [1 .. Len(kept) -> 1 .. Len(list)] :
           /\ \A k \in 1 .. Len(kept) : kept[k] = list[from[k]] /\ from[k] \in keep
           /\ \A k, m \in 1 .. Len(kept) : k < m => from[k] < from[m]
  BY <1>7, <1>8
<1> QED BY <1>9 DEF kept

\* Two filters that keep nothing in common leave no more than there was.
LEMMA FilteredApart ==
  ASSUME NEW S, NEW list \in Seq(S), NEW keep, NEW rest, keep \cap rest = {}
  PROVE  Len(Filter(list, keep)) + Len(Filter(list, rest)) <= Len(list)
<1>1. PICK left \in [0 .. Len(list) -> Seq(S)] :
         /\ Filter(list, keep) = left[Len(list)] /\ left[0] = <<>>
         /\ \A n \in 1 .. Len(list) :
              left[n] = IF n \in keep THEN Append(left[n - 1], list[n]) ELSE left[n - 1]
  BY FilterSteps
<1>2. PICK more \in [0 .. Len(list) -> Seq(S)] :
         /\ Filter(list, rest) = more[Len(list)] /\ more[0] = <<>>
         /\ \A n \in 1 .. Len(list) :
              more[n] = IF n \in rest THEN Append(more[n - 1], list[n]) ELSE more[n - 1]
  BY FilterSteps
<1>0. Len(list) \in Nat
  OBVIOUS
<1> DEFINE T == {n \in 0 .. Len(list) : Len(left[n]) + Len(more[n]) <= n}
<1>3. 0 \in T
  BY <1>0, <1>1, <1>2
<1>4. ASSUME NEW n \in 0 .. Len(list) - 1, n \in T PROVE n + 1 \in T
  <2>1. n + 1 \in 1 .. Len(list) /\ n + 1 \in 0 .. Len(list) /\ (n + 1) - 1 = n /\ n \in 0 .. Len(list)
        /\ list[n + 1] \in S
    BY <1>0
  <2>2. /\ left[n] \in Seq(S) /\ more[n] \in Seq(S)
        /\ left[n + 1] = IF n + 1 \in keep THEN Append(left[n], list[n + 1]) ELSE left[n]
        /\ more[n + 1] = IF n + 1 \in rest THEN Append(more[n], list[n + 1]) ELSE more[n]
    BY <1>1, <1>2, <2>1
  <2>3. /\ Len(left[n]) \in Nat /\ Len(more[n]) \in Nat
        /\ Len(left[n + 1]) = IF n + 1 \in keep THEN Len(left[n]) + 1 ELSE Len(left[n])
        /\ Len(more[n + 1]) = IF n + 1 \in rest THEN Len(more[n]) + 1 ELSE Len(more[n])
    BY <2>1, <2>2
  <2>4. Len(left[n]) + Len(more[n]) <= n /\ ~(n + 1 \in keep /\ n + 1 \in rest)
    BY <1>4
  <2>5. Len(left[n + 1]) + Len(more[n + 1]) <= n + 1
    <3>1. CASE n + 1 \in keep
      <4>1. n + 1 \notin rest
        BY <2>4, <3>1
      <4> QED BY <2>1, <2>3, <2>4, <3>1, <4>1
    <3>2. CASE n + 1 \notin keep
      <4>1. CASE n + 1 \in rest
        BY <2>1, <2>3, <2>4, <3>2, <4>1
      <4>2. CASE n + 1 \notin rest
        BY <2>1, <2>3, <2>4, <3>2, <4>2
      <4> QED BY <4>1, <4>2
    <3> QED BY <3>1, <3>2
  <2> QED BY <2>1, <2>5
<1> HIDE DEF T
<1>5. 0 .. Len(list) \subseteq T
  BY <1>0, <1>3, <1>4, UpTo
<1>6. Len(list) \in T
  BY <1>0, <1>5
<1> QED BY <1>1, <1>2, <1>6 DEF T

\* A filter of offers that are in order leaves offers in order, each of them one that was there.
LEMMA FilteredInOrder ==
  ASSUME NEW list \in Seq(Bid), InOrder(list), NEW keep
  PROVE  /\ Filter(list, keep) \in Seq(Bid) /\ InOrder(Filter(list, keep))
         /\ \A k \in 1 .. Len(Filter(list, keep)) :
              \E n \in 1 .. Len(list) : n \in keep /\ Filter(list, keep)[k] = list[n]
<1> DEFINE part == Filter(list, keep)
<1>1. part \in Seq(Bid)
  BY Filtered
<1>2. PICK from \in [1 .. Len(part) -> 1 .. Len(list)] :
        /\ \A k \in 1 .. Len(part) : part[k] = list[from[k]] /\ from[k] \in keep
        /\ \A k, m \in 1 .. Len(part) : k < m => from[k] < from[m]
  BY Filtered
<1> HIDE DEF part
<1>3. \A k \in 1 .. Len(part) : from[k] \in 1 .. Len(list)
  BY <1>2
<1>4. InOrder(part)
  BY <1>2, <1>3 DEF InOrder
<1>5. \A k \in 1 .. Len(part) : \E n \in 1 .. Len(list) : n \in keep /\ part[k] = list[n]
  BY <1>2, <1>3
<1> QED BY <1>1, <1>4, <1>5 DEF part

\* addBid: an offer is put in its place, and replaces what its buyer offered before.
LEMMA AddedOffers ==
  ASSUME NEW list, OffersIn(list), Len(list) < MaxBids, NEW b \in Bid
  PROVE  OffersIn(Added(list, b))
<1> DEFINE others == {k \in 1 .. Len(list) : list[k].buyer # b.buyer}
           rest == Others(list, b)
           above == {k \in 1 .. Len(rest) : rest[k].price >= b.price}
           below == {k \in 1 .. Len(rest) : rest[k].price < b.price}
           high == Filter(rest, above)
           low == Filter(rest, below)
           new == high \o <<b>> \o low
<1>0. list \in Seq(Bid) /\ InOrder(list) /\ Len(list) \in Nat /\ MaxBids \in Nat /\ b.price \in Nat
  BY BookNumbers DEF OffersIn
<1>1. /\ rest \in Seq(Bid) /\ InOrder(rest) /\ Len(rest) <= Len(list)
      /\ \A k \in 1 .. Len(rest) : rest[k].buyer # b.buyer
  <2>1. rest = Filter(list, others)
    BY DEF Others
  <2> HIDE DEF rest, others
  <2>2. /\ rest \in Seq(Bid) /\ InOrder(rest)
        /\ \A k \in 1 .. Len(rest) : \E n \in 1 .. Len(list) : n \in others /\ rest[k] = list[n]
    BY <1>0, <2>1, FilteredInOrder
  <2>3. Len(rest) + Len(Filter(list, {})) <= Len(list)
    BY <1>0, <2>1, FilteredApart
  <2>4. Len(Filter(list, {})) \in Nat /\ Len(rest) \in Nat
    BY <1>0, <2>2, FilteredInOrder
  <2>5. Len(rest) <= Len(list)
    BY <1>0, <2>3, <2>4
  <2>6. \A k \in 1 .. Len(rest) : rest[k].buyer # b.buyer
    BY <2>2 DEF others
  <2> QED BY <2>2, <2>5, <2>6
<1>2. Added(list, b) = new
  BY DEF Added
<1> HIDE DEF rest
<1>3. /\ high \in Seq(Bid) /\ InOrder(high)
      /\ \A k \in 1 .. Len(high) : \E n \in 1 .. Len(rest) : n \in above /\ high[k] = rest[n]
  <2> HIDE DEF above
  <2> QED BY <1>1, FilteredInOrder
<1>4. /\ low \in Seq(Bid) /\ InOrder(low)
      /\ \A k \in 1 .. Len(low) : \E n \in 1 .. Len(rest) : n \in below /\ low[k] = rest[n]
  <2> HIDE DEF below
  <2> QED BY <1>1, FilteredInOrder
<1>5. Len(high) + Len(low) <= Len(rest)
  <2>1. above \cap below = {}
    <3> SUFFICES ASSUME NEW k \in above, k \in below PROVE FALSE
      OBVIOUS
    <3>1. rest[k] \in Bid /\ rest[k].price >= b.price /\ rest[k].price < b.price
      BY <1>1
    <3> QED BY <1>0, <3>1, BookNumbers
  <2> HIDE DEF above, below
  <2> QED BY <1>1, <2>1, FilteredApart
<1> HIDE DEF high, low
<1>6. \A k \in 1 .. Len(high) : high[k] \in Bid /\ high[k].price >= b.price /\ high[k].buyer # b.buyer
  BY <1>1, <1>3
<1>7. \A k \in 1 .. Len(low) : low[k] \in Bid /\ low[k].price < b.price /\ low[k].buyer # b.buyer
  BY <1>1, <1>4
<1>8. \A k \in 1 .. Len(high), m \in 1 .. Len(low) : high[k].buyer # low[m].buyer
  <2> SUFFICES ASSUME NEW k \in 1 .. Len(high), NEW m \in 1 .. Len(low) PROVE high[k].buyer # low[m].buyer
    OBVIOUS
  <2>1. PICK n \in 1 .. Len(rest) : high[k] = rest[n]
    BY <1>3
  <2>2. PICK p \in 1 .. Len(rest) : low[m] = rest[p]
    BY <1>4
  <2>3. n # p
    <3>1. high[k].price >= b.price /\ low[m].price < b.price /\ high[k].price \in Nat /\ low[m].price \in Nat
      BY <1>6, <1>7, BookNumbers
    <3>2. high[k] # low[m]
      BY <1>0, <3>1
    <3> QED BY <2>1, <2>2, <3>2
  <2>4. n < p \/ p < n
    BY <1>1, <2>3
  <2> QED BY <1>1, <2>1, <2>2, <2>4 DEF InOrder
<1>9. /\ new \in Seq(Bid) /\ Len(new) = Len(high) + 1 + Len(low)
      /\ \A k \in 1 .. Len(high) : new[k] = high[k]
      /\ new[Len(high) + 1] = b
      /\ \A k \in Len(high) + 2 .. Len(new) : new[k] = low[k - Len(high) - 1]
  BY <1>3, <1>4
<1>10. Len(high) \in Nat /\ Len(low) \in Nat /\ Len(rest) \in Nat
  BY <1>1, <1>3, <1>4
<1> HIDE DEF new
<1>11. InOrder(new)
  <2> SUFFICES ASSUME NEW k \in 1 .. Len(new), NEW m \in 1 .. Len(new), k < m
               PROVE  new[k].price >= new[m].price /\ new[k].buyer # new[m].buyer
    BY DEF InOrder
  <2>1. CASE m \in 1 .. Len(high)
    <3>1. k \in 1 .. Len(high)
      BY <1>10, <2>1
    <3> QED BY <1>3, <1>9, <2>1, <3>1 DEF InOrder
  <2>2. CASE m = Len(high) + 1
    <3>1. k \in 1 .. Len(high)
      BY <1>10, <2>2
    <3> QED BY <1>6, <1>9, <2>2, <3>1
  <2>3. CASE m \in Len(high) + 2 .. Len(new)
    <3> DEFINE j == m - Len(high) - 1
    <3>1. j \in 1 .. Len(low) /\ new[m] = low[j]
      BY <1>9, <1>10, <2>3
    <3>2. low[j].price < b.price /\ low[j].buyer # b.buyer /\ low[j].price \in Nat
      BY <1>7, <3>1, BookNumbers
    <3>3. CASE k \in 1 .. Len(high)
      <4>1. /\ high[k].price >= b.price /\ high[k].price \in Nat /\ new[k] = high[k]
            /\ high[k].buyer # low[j].buyer
        BY <1>6, <1>8, <1>9, <3>1, <3>3, BookNumbers
      <4> HIDE DEF j
      <4> QED BY <1>0, <3>1, <3>2, <4>1
    <3>4. CASE k = Len(high) + 1
      <4> HIDE DEF j
      <4> QED BY <1>0, <1>9, <3>1, <3>2, <3>4
    <3>5. CASE k \in Len(high) + 2 .. Len(new)
      <4>1. k - Len(high) - 1 \in 1 .. Len(low) /\ new[k] = low[k - Len(high) - 1] /\ k - Len(high) - 1 < j
        BY <1>9, <1>10, <2>3, <3>5
      <4> HIDE DEF j
      <4> QED BY <1>4, <3>1, <4>1 DEF InOrder
    <3> QED BY <1>10, <3>3, <3>4, <3>5
  <2> QED BY <1>9, <1>10, <2>1, <2>2, <2>3
<1>12. Len(new) <= MaxBids
  BY <1>0, <1>1, <1>5, <1>9, <1>10
<1> QED BY <1>2, <1>9, <1>11, <1>12 DEF OffersIn

-----------------------------------------------------------------------------
ToList  == [doing : {"list"}, at : Outpoint]
ToPrune == [doing : {"prune"}, at : Outpoint, copy : Listing]
ToBid   == [doing : {"bid"}, at : Outpoint, bid : Bid]
ToRead  == [doing : {"bids"}, at : Outpoint, list : BoundedSeq(Bid, MaxBids),
            kept : BoundedSeq(Bid, MaxBids), next : 0 .. MaxBids]

\* What an open request of the book is.
LEMMA BookRequests ==
  ASSUME NEW q \in Request
  PROVE  /\ q.doing = "list" => q \in ToList
         /\ q.doing = "prune" => q \in ToPrune
         /\ q.doing = "bid" => q \in ToBid
         /\ q.doing = "bids" => q \in ToRead
  BY DEF Request, Idle, ToList, ToPrune, ToBid, ToRead

\* Each kind of question is a question the book may be asked.
LEMMA BookRequestsAre ==
  /\ Idle \in Request /\ ToList \subseteq Request /\ ToPrune \subseteq Request
  /\ ToBid \subseteq Request /\ ToRead \subseteq Request
  BY DEF Request, ToList, ToPrune, ToBid, ToRead

\* Where an open request is, whatever it does.
LEMMA BookRequestAt ==
  ASSUME NEW q \in Request, q.doing \in {"list", "prune", "bid", "bids"}
  PROVE  q.at \in Outpoint
<1>1. q \in ToList \/ q \in ToPrune \/ q \in ToBid \/ q \in ToRead
  BY BookRequests
<1> QED BY <1>1 DEF ToList, ToPrune, ToBid, ToRead

\* The chain only grows, and the index only catches up with it.
Grown ==
  \A i \in Items :
    /\ trail'[i] \in Seq(Users) /\ Len(trail'[i]) \in 1 .. MaxMoves /\ Len(trail[i]) <= Len(trail'[i])
    /\ \A n \in 1 .. Len(trail[i]) : trail'[i][n] = trail[i][n]
    /\ seen'[i] \in Nat /\ seen[i] <= seen'[i] /\ seen'[i] <= Len(trail'[i])
WorldOK ==
  /\ trail \in [Items -> Seq(Users)] /\ seen \in [Items -> Nat]
  /\ \A i \in Items : Len(trail[i]) \in 1 .. MaxMoves /\ seen[i] \in 1 .. Len(trail[i])
  /\ broke \subseteq Users /\ traded \subseteq Outpoint \X (1 .. MaxRelists)
  /\ misjudged \subseteq Outpoint /\ faults \in 0 .. MaxFaults

\* The types of the book, with its sequences as sequences.
LEMMA BookTypes ==
  OrderBookTypeOK /\ seen \in [Items -> Nat] <=>
    /\ WorldOK
    /\ listings \in [Outpoint -> Listing \cup {None}]
    /\ \A o \in Outpoint : bids[o] \in Seq(Bid) /\ Len(bids[o]) <= MaxBids
    /\ sales \in Seq(Sale) /\ Len(sales) <= MaxSales
    /\ published \in [Outpoint -> 0 .. MaxRelists]
    /\ request \in [Requests -> Request]
<1>1. \A i \in Items : trail[i] \in BoundedSeq(Users, MaxMoves) <=> trail[i] \in Seq(Users) /\ Len(trail[i]) <= MaxMoves
  BY Bounded, BookNumbers
<1>2. \A o \in Outpoint : bids[o] \in BoundedSeq(Bid, MaxBids) <=> bids[o] \in Seq(Bid) /\ Len(bids[o]) <= MaxBids
  BY Bounded, BookNumbers
<1>3. sales \in BoundedSeq(Sale, MaxSales) <=> sales \in Seq(Sale) /\ Len(sales) <= MaxSales
  BY Bounded, BookNumbers
<1>4. \A t \in Seq(Users) : t # <<>> <=> Len(t) # 0
  OBVIOUS
<1>5. ASSUME NEW i \in Items
      PROVE  trail[i] \in BoundedSeq(Users, MaxMoves) \ {<<>>}
               <=> trail[i] \in Seq(Users) /\ Len(trail[i]) \in 1 .. MaxMoves
  <2>1. trail[i] \in Seq(Users) => (Len(trail[i]) \in 1 .. MaxMoves <=> Len(trail[i]) # 0 /\ Len(trail[i]) <= MaxMoves)
    BY BookNumbers
  <2> QED BY <1>1, <1>4, <2>1
<1>6. trail \in [Items -> BoundedSeq(Users, MaxMoves) \ {<<>>}]
        <=> trail \in [Items -> Seq(Users)] /\ \A i \in Items : Len(trail[i]) \in 1 .. MaxMoves
  <2>1. ASSUME trail \in [Items -> BoundedSeq(Users, MaxMoves) \ {<<>>}]
        PROVE  trail \in [Items -> Seq(Users)] /\ \A i \in Items : Len(trail[i]) \in 1 .. MaxMoves
    <3>1. \A i \in Items : trail[i] \in BoundedSeq(Users, MaxMoves) \ {<<>>}
      BY <2>1
    <3>2. trail = [i \in Items |-> trail[i]]
      BY <2>1
    <3> QED BY <1>5, <3>1, <3>2
  <2>2. ASSUME trail \in [Items -> Seq(Users)], \A i \in Items : Len(trail[i]) \in 1 .. MaxMoves
        PROVE  trail \in [Items -> BoundedSeq(Users, MaxMoves) \ {<<>>}]
    <3>1. \A i \in Items : trail[i] \in BoundedSeq(Users, MaxMoves) \ {<<>>}
      BY <1>5, <2>2
    <3>2. trail = [i \in Items |-> trail[i]]
      BY <2>2
    <3> QED BY <3>1, <3>2
  <2> QED BY <2>1, <2>2
<1> QED BY <1>2, <1>3, <1>6 DEF OrderBookTypeOK, WorldOK

\* A step adds to the chain and to what the index has seen, and takes nothing back.
LEMMA WorldStep ==
  ASSUME WorldOK, request \in [Requests -> Request], published \in [Outpoint -> 0 .. MaxRelists],
         [OrderBookNext]_bookVars
  PROVE  WorldOK' /\ Grown /\ misjudged \subseteq misjudged'
<1>0. /\ trail \in [Items -> Seq(Users)] /\ seen \in [Items -> Nat]
      /\ \A i \in Items : trail[i] \in Seq(Users) /\ Len(trail[i]) \in Nat
                          /\ Len(trail[i]) \in 1 .. MaxMoves /\ seen[i] \in 1 .. Len(trail[i])
  BY DEF WorldOK
<1>1. ASSUME NEW i \in Items, NEW u \in Users, Len(trail[i]) < MaxMoves,
             trail' = [trail EXCEPT ![i] = Append(@, u)], seen' = seen
      PROVE  /\ Grown /\ trail' \in [Items -> Seq(Users)]
             /\ \A j \in Items : Len(trail'[j]) \in 1 .. MaxMoves /\ seen'[j] \in 1 .. Len(trail'[j])
  <2> DEFINE t == Append(trail[i], u)
  <2>1. /\ t \in Seq(Users) /\ Len(t) = Len(trail[i]) + 1
        /\ \A n \in 1 .. Len(trail[i]) : t[n] = trail[i][n]
    BY <1>0, <1>1
  <2>2. trail' = [trail EXCEPT ![i] = t]
    BY <1>1
  <2> HIDE DEF t
  <2>3. Len(t) \in 1 .. MaxMoves /\ Len(trail[i]) <= Len(t)
    BY <1>0, <1>1, <2>1, BookNumbers
  <2>4. trail'[i] = t /\ \A j \in Items : j # i => trail'[j] = trail[j]
    BY <1>0, <2>2
  <2>5. trail' \in [Items -> Seq(Users)]
    BY <1>0, <2>1, <2>2
  <2>6. ASSUME NEW j \in Items
        PROVE  /\ trail'[j] \in Seq(Users) /\ Len(trail'[j]) \in 1 .. MaxMoves /\ Len(trail[j]) <= Len(trail'[j])
               /\ \A n \in 1 .. Len(trail[j]) : trail'[j][n] = trail[j][n]
               /\ seen'[j] \in Nat /\ seen[j] <= seen'[j] /\ seen'[j] <= Len(trail'[j]) /\ seen'[j] \in 1 .. Len(trail'[j])
    <3>1. CASE j = i
      BY <1>0, <1>1, <2>1, <2>3, <2>4, <3>1
    <3>2. CASE j # i
      BY <1>0, <1>1, <2>4, <3>2
    <3> QED BY <3>1, <3>2
  <2> QED BY <2>5, <2>6 DEF Grown
<1>2. ASSUME UNCHANGED <<trail, seen>>
      PROVE  /\ Grown /\ trail' \in [Items -> Seq(Users)]
             /\ \A j \in Items : Len(trail'[j]) \in 1 .. MaxMoves /\ seen'[j] \in 1 .. Len(trail'[j])
  BY <1>0, <1>2 DEF Grown
<1>3. ASSUME NEW i \in Items, NEW u \in Users, Move(i, u) PROVE WorldOK' /\ Grown /\ misjudged \subseteq misjudged'
  <2>1. trail' = [trail EXCEPT ![i] = Append(@, u)] /\ UNCHANGED <<broke, traded, seen, misjudged, faults>>
        /\ Len(trail[i]) < MaxMoves
    BY <1>3 DEF Move
  <2>2. /\ Grown /\ trail' \in [Items -> Seq(Users)]
        /\ \A j \in Items : Len(trail'[j]) \in 1 .. MaxMoves /\ seen'[j] \in 1 .. Len(trail'[j])
    BY <1>1, <2>1
  <2> QED BY <2>1, <2>2 DEF WorldOK
<1>4. ASSUME NEW i \in Items, NEW u \in Users, Trade(i, u) PROVE WorldOK' /\ Grown /\ misjudged \subseteq misjudged'
  <2> DEFINE o == <<i, Len(trail[i])>>
  <2>1. /\ trail' = [trail EXCEPT ![i] = Append(@, u)] /\ UNCHANGED <<broke, seen, misjudged, faults>>
        /\ Len(trail[i]) < MaxMoves /\ \E n \in 1 .. published[o] : traded' = traded \cup {<<o, n>>}
    BY <1>4 DEF Trade
  <2>2. /\ Grown /\ trail' \in [Items -> Seq(Users)]
        /\ \A j \in Items : Len(trail'[j]) \in 1 .. MaxMoves /\ seen'[j] \in 1 .. Len(trail'[j])
    BY <1>1, <2>1
  <2>3. o \in Outpoint
    BY <1>0 DEF Outpoint
  <2>4. traded' \subseteq Outpoint \X (1 .. MaxRelists)
    <3>1. PICK n \in 1 .. published[o] : traded' = traded \cup {<<o, n>>}
      BY <2>1
    <3>2. published[o] \in 0 .. MaxRelists
      BY <2>3
    <3>3. n \in 1 .. MaxRelists
      BY <3>1, <3>2, BookNumbers
    <3> HIDE DEF o
    <3> QED BY <2>3, <3>1, <3>3 DEF WorldOK
  <2> QED BY <2>1, <2>2, <2>4 DEF WorldOK
<1>5. ASSUME NEW i \in Items, Sync(i) PROVE WorldOK' /\ Grown /\ misjudged \subseteq misjudged'
  <2>1. seen[i] < Len(trail[i]) /\ seen' = [seen EXCEPT ![i] = @ + 1]
        /\ UNCHANGED <<trail, broke, traded, misjudged, faults>>
    BY <1>5 DEF Sync, chain
  <2>2. seen'[i] = seen[i] + 1 /\ \A j \in Items : j # i => seen'[j] = seen[j]
    BY <1>0, <2>1
  <2>3. seen' \in [Items -> Nat] /\ \A j \in Items : seen'[j] \in 1 .. Len(trail[j]) /\ seen[j] <= seen'[j]
    BY <1>0, <2>1, <2>2
  <2> QED BY <1>0, <2>1, <2>3 DEF WorldOK, Grown
<1>6. ASSUME UNCHANGED <<trail, seen, traded>>, misjudged \subseteq misjudged',
             broke' \subseteq Users, misjudged' \subseteq Outpoint, faults' \in 0 .. MaxFaults
      PROVE  WorldOK' /\ Grown /\ misjudged \subseteq misjudged'
  BY <1>2, <1>6 DEF WorldOK
<1>7. ASSUME NEW u \in Users, SpendCoin(u) PROVE WorldOK' /\ Grown /\ misjudged \subseteq misjudged'
  BY <1>6, <1>7 DEF SpendCoin, WorldOK
<1>8. ASSUME NEW o \in Outpoint, AnswersSpent(o) \/ AnswersUnspent(o)
      PROVE  misjudged \subseteq misjudged' /\ misjudged' \subseteq Outpoint /\ faults' \in 0 .. MaxFaults
  BY <1>8, BookNumbers DEF AnswersSpent, AnswersUnspent, WorldOK
<1>9. ASSUME NEW r \in Requests, StoreListing(r) \/ PruneSpent(r) \/ PruneUnspent(r) \/ StoreBid(r)
                                 \/ BidsCarrier(r) \/ BidsCoin(r)
      PROVE  WorldOK' /\ Grown /\ misjudged \subseteq misjudged'
  <2>1. request[r].at \in Outpoint
    BY <1>9, BookRequestAt DEF StoreListing, PruneSpent, PruneUnspent, StoreBid, BidsCarrier, BidsCoin
  <2>2. UNCHANGED <<trail, seen, traded, broke>>
    BY <1>9 DEF StoreListing, PruneSpent, PruneUnspent, StoreBid, BidsCarrier, BidsCoin, chain
  <2>3. CASE PruneSpent(r) \/ PruneUnspent(r) \/ BidsCarrier(r)
    <3>1. AnswersSpent(request[r].at) \/ AnswersUnspent(request[r].at)
      BY <2>3 DEF PruneSpent, PruneUnspent, BidsCarrier
    <3> QED BY <1>6, <1>8, <2>1, <2>2, <3>1 DEF WorldOK
  <2>4. CASE StoreListing(r)
    BY <1>6, <2>2, <2>4 DEF StoreListing, WorldOK
  <2>5. CASE StoreBid(r) \/ BidsCoin(r)
    <3>1. misjudged' = misjudged /\ (faults' = faults \/ (faults < MaxFaults /\ faults' = faults + 1))
      <4>1. CASE StoreBid(r)
        BY <4>1 DEF StoreBid, CoinUnspent, CoinSpent
      <4>2. CASE BidsCoin(r)
        <5>1. misjudged' = misjudged /\ \E u : CoinSpent(u) \/ CoinUnspent(u)
          BY <4>2, Zenon DEF BidsCoin
        <5> QED BY <5>1 DEF CoinUnspent, CoinSpent
      <4> QED BY <2>5, <4>1, <4>2
    <3>2. faults' \in 0 .. MaxFaults
      BY <3>1, BookNumbers DEF WorldOK
    <3> QED BY <1>6, <2>2, <3>1, <3>2 DEF WorldOK
  <2> QED BY <1>9, <2>3, <2>4, <2>5
<1>10. ASSUME NEW r \in Requests, NEW o \in Outpoint, AddListing(r, o) \/ Prune(r, o) \/ BidsFor(r, o)
       PROVE  WorldOK' /\ Grown /\ misjudged \subseteq misjudged'
  BY <1>6, <1>10 DEF AddListing, Prune, BidsFor, chain, WorldOK
<1>11. ASSUME NEW r \in Requests, NEW o \in Outpoint, NEW b \in Bid, AddBid(r, o, b)
       PROVE  WorldOK' /\ Grown /\ misjudged \subseteq misjudged'
  BY <1>6, <1>11 DEF AddBid, chain, WorldOK
<1>12. ASSUME NEW o \in Outpoint, Lapse(o) PROVE WorldOK' /\ Grown /\ misjudged \subseteq misjudged'
  BY <1>6, <1>12 DEF Lapse, chain, WorldOK
<1>13. CASE UNCHANGED bookVars
  BY <1>6, <1>13 DEF bookVars, chain, WorldOK
<1> QED BY <1>3, <1>4, <1>5, <1>7, <1>9, <1>10, <1>11, <1>12, <1>13
        DEF OrderBookNext, ChainNext, ListingNext, BidNext

-----------------------------------------------------------------------------
\* What the book says of listings and sales; what the open requests hold; what it has of bids.
ListPart == /\ listings \in [Outpoint -> Listing \cup {None}] /\ published \in [Outpoint -> 0 .. MaxRelists]
            /\ sales \in Seq(Sale) /\ Len(sales) <= MaxSales
            /\ ListedKnown /\ SalesLeftTheSeller /\ HiddenIsSpent
AskPart == request \in [Requests -> Request] /\ PrunesKnown /\ ReadsKeep

\* What the book keeps, in the three parts the steps disturb one at a time.
LEMMA BookParts == OrderBookInv <=> WorldOK /\ ListPart /\ AskPart /\ OffersInOrder
<1>1. OffersInOrder => \A o \in Outpoint : bids[o] \in Seq(Bid) /\ Len(bids[o]) <= MaxBids
  BY DEF OffersInOrder, OffersIn
<1>2. WorldOK => seen \in [Items -> Nat]
  BY DEF WorldOK
<1> QED BY <1>1, <1>2, BookTypes DEF OrderBookInv, ListPart, AskPart

\* An outpoint is of an item, and the number of it is one.
LEMMA OutpointIs ==
  ASSUME NEW o \in Outpoint
  PROVE  o = <<o[1], o[2]>> /\ o[1] \in Items /\ o[2] \in Nat /\ o[2] >= 1
  BY BookNumbers DEF Outpoint

\* The end of a sequence is made of what is in it, and holds its last if it holds any.
LEMMA LastOfIs ==
  ASSUME NEW S, NEW s \in Seq(S), NEW n \in Nat
  PROVE  /\ LastOf(s, n) \in Seq(S) /\ Len(LastOf(s, n)) <= n
         /\ \A k \in 1 .. Len(LastOf(s, n)) : \E m \in 1 .. Len(s) : LastOf(s, n)[k] = s[m]
         /\ (n > 0 /\ Len(s) > 0) =>
              /\ Len(LastOf(s, n)) > 0
              /\ LastOf(s, n)[Len(LastOf(s, n))] = s[Len(s)]
<1>0. Len(s) \in Nat
  OBVIOUS
<1>1. CASE Len(s) > n
  <2> DEFINE t == SubSeq(s, Len(s) - n + 1, Len(s))
  <2>1. LastOf(s, n) = t
    BY <1>1 DEF LastOf
  <2>2. /\ t \in Seq(S) /\ Len(t) = n
        /\ \A k \in 1 .. n : t[k] = s[Len(s) - n + k] /\ Len(s) - n + k \in 1 .. Len(s)
    BY <1>0, <1>1
  <2> HIDE DEF t
  <2>3. n > 0 => t[n] = s[Len(s)]
    <3>1. ASSUME n > 0 PROVE t[n] = s[Len(s)]
      <4>1. n \in 1 .. n /\ Len(s) - n + n = Len(s)
        BY <1>0, <3>1
      <4> QED BY <2>2, <4>1
    <3> QED BY <3>1
  <2>4. \A k \in 1 .. n : \E m \in 1 .. Len(s) : t[k] = s[m]
    BY <2>2
  <2>5. t \in Seq(S) /\ Len(t) = n /\ Len(s) > 0
    BY <1>0, <1>1, <2>2
  <2> QED BY <2>1, <2>3, <2>4, <2>5
<1>2. CASE ~(Len(s) > n)
  <2>1. LastOf(s, n) = s
    BY <1>2 DEF LastOf
  <2> QED BY <1>0, <1>2, <2>1
<1> QED BY <1>1, <1>2

\* What is true of a sale stays so.
TrueSale(s) == /\ Spent(s.carrier) /\ s.buyer # Owner(s.carrier)
               /\ \E n \in s.carrier[2] + 1 .. Len(trail[s.carrier[1]]) : trail[s.carrier[1]][n] = s.buyer
TrueLater(s) ==
  /\ s.carrier[2] < Len(trail'[s.carrier[1]]) /\ s.buyer # trail'[s.carrier[1]][s.carrier[2]]
  /\ \E n \in s.carrier[2] + 1 .. Len(trail'[s.carrier[1]]) : trail'[s.carrier[1]][n] = s.buyer

\* A sale that is on the trail stays on it while the trail only grows.
LEMMA SaleStays ==
  ASSUME WorldOK, Grown, NEW s \in Sale, TrueSale(s)
  PROVE  TrueLater(s)
<1> DEFINE o == s.carrier
           i == o[1]
<1>1. o \in Outpoint /\ i \in Items /\ o[2] \in Nat /\ o[2] >= 1
  BY OutpointIs DEF Sale
<1>2. o[2] < Len(trail[i]) /\ s.buyer # trail[i][o[2]]
  BY DEF TrueSale, Spent, Owner
<1>3. PICK n \in o[2] + 1 .. Len(trail[i]) : trail[i][n] = s.buyer
  BY DEF TrueSale
<1>4. /\ Len(trail[i]) \in Nat /\ Len(trail'[i]) \in Nat /\ Len(trail[i]) <= Len(trail'[i])
      /\ \A m \in 1 .. Len(trail[i]) : trail'[i][m] = trail[i][m]
  <2> HIDE DEF o, i
  <2>1. trail[i] \in Seq(Users) /\ trail'[i] \in Seq(Users)
    BY <1>1 DEF Grown, WorldOK
  <2>2. Len(trail[i]) <= Len(trail'[i]) /\ \A m \in 1 .. Len(trail[i]) : trail'[i][m] = trail[i][m]
    BY <1>1 DEF Grown
  <2> QED BY <2>1, <2>2
<1> HIDE DEF o, i
<1>5. o[2] \in 1 .. Len(trail[i]) /\ n \in 1 .. Len(trail[i]) /\ n \in o[2] + 1 .. Len(trail'[i])
  BY <1>1, <1>2, <1>3, <1>4
<1>6. trail'[i][o[2]] = trail[i][o[2]] /\ trail'[i][n] = s.buyer
  BY <1>3, <1>4, <1>5
<1>7. o[2] < Len(trail'[i]) /\ s.buyer # trail'[i][o[2]]
  BY <1>1, <1>2, <1>4, <1>6
<1> QED BY <1>5, <1>6, <1>7 DEF TrueLater, o, i

\* What is spent stays so, and what the index has been past it stays past.
LEMMA SpentStays ==
  ASSUME WorldOK, Grown, NEW o \in Outpoint
  PROVE  (Spent(o) => Spent(o)') /\ (seen[o[1]] >= o[2] => seen'[o[1]] >= o[2])
<1>1. /\ o[1] \in Items /\ o[2] \in Nat /\ Len(trail[o[1]]) \in Nat /\ Len(trail'[o[1]]) \in Nat
      /\ seen[o[1]] \in Nat /\ seen'[o[1]] \in Nat
      /\ Len(trail[o[1]]) <= Len(trail'[o[1]]) /\ seen[o[1]] <= seen'[o[1]]
  BY OutpointIs DEF Grown, WorldOK
<1> QED BY <1>1 DEF Spent

\* The listings and sales, when a step adds none: a listing that is hidden was or is rightly so.
LEMMA ListingsStay ==
  ASSUME WorldOK, Grown, ListPart, misjudged \subseteq misjudged',
         published' = published, listings' \in [Outpoint -> Listing \cup {None}],
         \A o \in Outpoint : listings'[o] # None => listings[o] # None,
         \A o \in Outpoint : listings'[o] # None /\ listings'[o].pendingSale =>
                               listings[o].pendingSale \/ Spent(o)' \/ o \in misjudged',
         sales' \in Seq(Sale), Len(sales') <= MaxSales,
         \A k \in 1 .. Len(sales') : TrueLater(sales'[k]) \/ \E m \in 1 .. Len(sales) : sales'[k] = sales[m]
  PROVE  ListPart'
<1>1. ListedKnown'
  BY SpentStays DEF ListPart, ListedKnown
<1>2. HiddenIsSpent'
  BY SpentStays DEF ListPart, HiddenIsSpent
<1>3. SalesLeftTheSeller'
  <2>1. ASSUME NEW k \in 1 .. Len(sales') PROVE TrueLater(sales'[k])
    <3>1. ASSUME NEW m \in 1 .. Len(sales), sales'[k] = sales[m] PROVE TrueLater(sales'[k])
      <4>1. sales[m] \in Sale /\ TrueSale(sales[m])
        BY DEF ListPart, SalesLeftTheSeller, TrueSale
      <4>2. TrueLater(sales[m])
        BY <4>1, SaleStays
      <4> QED BY <3>1, <4>2
    <3> QED BY <3>1
  <2> QED BY <2>1 DEF SalesLeftTheSeller, TrueLater, Spent, Owner
<1> QED BY <1>1, <1>2, <1>3 DEF ListPart

\* A step that leaves listings and sales alone leaves what is said of them true.
LEMMA ListingsKept ==
  ASSUME WorldOK, Grown, ListPart, misjudged \subseteq misjudged', UNCHANGED <<listings, sales, published>>
  PROVE  ListPart'
<1>1. /\ published' = published /\ listings' \in [Outpoint -> Listing \cup {None}]
      /\ sales' \in Seq(Sale) /\ Len(sales') <= MaxSales
  BY DEF ListPart
<1>2. /\ \A o \in Outpoint : listings'[o] # None => listings[o] # None
      /\ \A o \in Outpoint : listings'[o] # None /\ listings'[o].pendingSale =>
                               listings[o].pendingSale \/ Spent(o)' \/ o \in misjudged'
      /\ \A k \in 1 .. Len(sales') : TrueLater(sales'[k]) \/ \E m \in 1 .. Len(sales) : sales'[k] = sales[m]
  OBVIOUS
<1> QED BY <1>1, <1>2, ListingsStay

\* The steps on listings keep what the book says of listings and sales true.
LEMMA ListingsStep ==
  ASSUME WorldOK, WorldOK', Grown, ListPart, AskPart, misjudged \subseteq misjudged', ListingNext
  PROVE  ListPart'
<1>0. /\ listings \in [Outpoint -> Listing \cup {None}] /\ published \in [Outpoint -> 0 .. MaxRelists]
      /\ sales \in Seq(Sale) /\ Len(sales) <= MaxSales /\ ListedKnown /\ HiddenIsSpent
      /\ request \in [Requests -> Request]
  BY DEF ListPart, AskPart
<1>1. \A k \in 1 .. Len(sales) : TrueLater(sales[k]) \/ \E m \in 1 .. Len(sales) : sales[k] = sales[m]
  OBVIOUS
<1>2. ASSUME NEW o \in Outpoint, Lapse(o) PROVE ListPart'
  <2>1. listings[o] \in Listing /\ listings' = [listings EXCEPT ![o].lapsed = TRUE] /\ UNCHANGED <<sales, published>>
    BY <1>0, <1>2 DEF Lapse
  <2> DEFINE l == [listings[o] EXCEPT !.lapsed = TRUE]
  <2>2. l \in Listing /\ l.pendingSale = listings[o].pendingSale /\ listings' = [listings EXCEPT ![o] = l]
    BY <2>1 DEF Listing
  <2> HIDE DEF l
  <2>3. /\ listings' \in [Outpoint -> Listing \cup {None}]
        /\ \A p \in Outpoint : listings'[p] # None => listings[p] # None
        /\ \A p \in Outpoint : listings'[p] # None /\ listings'[p].pendingSale => listings[p].pendingSale
    BY <1>0, <1>2, <2>2 DEF Lapse
  <2> QED BY <1>0, <1>1, <2>1, <2>3, ListingsStay
<1>3. ASSUME NEW r \in Requests, NEW o \in Outpoint, AddListing(r, o) PROVE ListPart'
  BY <1>3, ListingsKept DEF AddListing, book
<1>4. ASSUME NEW r \in Requests, NEW o \in Outpoint, Prune(r, o) PROVE ListPart'
  <2>1. /\ listings' \in [Outpoint -> Listing \cup {None}]
        /\ \A p \in Outpoint : listings'[p] # None => listings'[p] = listings[p]
        /\ UNCHANGED <<sales, published>>
    BY <1>0, <1>4 DEF Prune
  <2> QED BY <1>0, <1>1, <2>1, ListingsStay
<1>5. ASSUME NEW r \in Requests, PruneUnspent(r) PROVE ListPart'
  BY <1>5, ListingsKept DEF PruneUnspent, book
<1>6. ASSUME NEW r \in Requests, StoreListing(r) PROVE ListPart'
  <2> DEFINE o == request[r].at
             n == published[o] + 1
             l == [price |-> n, lapsed |-> FALSE, pendingSale |-> FALSE]
  <2>1. o \in Outpoint
    BY <1>0, <1>6, BookRequestAt DEF StoreListing
  <2>2. UNCHANGED <<trail, seen, sales>>
    BY <1>6 DEF StoreListing, chain
  <2>3. CASE UNCHANGED <<listings, published>>
    BY <2>2, <2>3, ListingsKept
  <2>4. CASE ~UNCHANGED <<listings, published>>
    <3>1. /\ listings' = [listings EXCEPT ![o] = l] /\ published' = [published EXCEPT ![o] = n]
          /\ n <= MaxRelists /\ Location(o[1]) = o
      BY <1>6, <2>4 DEF StoreListing, IndexHas
    <3>2. n \in 1 .. MaxRelists /\ l \in Listing /\ ~l.pendingSale
      <4>1. published[o] \in 0 .. MaxRelists
        BY <1>0, <2>1
      <4>2. n \in 1 .. MaxRelists
        BY <3>1, <4>1, BookNumbers
      <4> HIDE DEF o, n
      <4> QED BY <4>2 DEF Listing
    <3>3. seen[o[1]] = o[2]
      BY <2>1, <3>1, OutpointIs DEF Location
    <3> HIDE DEF o, n, l
    <3>4. /\ listings' \in [Outpoint -> Listing \cup {None}] /\ published' \in [Outpoint -> 0 .. MaxRelists]
          /\ \A p \in Outpoint : p # o => listings'[p] = listings[p] /\ published'[p] = published[p]
          /\ listings'[o] = l /\ published'[o] = n
      BY <1>0, <2>1, <3>1, <3>2, BookNumbers
    <3>5. ListedKnown'
      <4> SUFFICES ASSUME NEW p \in Outpoint
                   PROVE  /\ listings'[p] # None => published'[p] > 0
                          /\ published'[p] > 0 => seen'[p[1]] >= p[2]
        BY DEF ListedKnown
      <4>1. CASE p = o
        <5>1. published'[p] = n /\ n > 0
          BY <3>2, <3>4, <4>1, BookNumbers
        <5>2. seen'[p[1]] >= p[2]
          BY <2>1, <2>2, <3>3, <4>1, OutpointIs
        <5> QED BY <5>1, <5>2
      <4>2. CASE p # o
        BY <1>0, <2>2, <3>4, <4>2 DEF ListedKnown
      <4> QED BY <4>1, <4>2
    <3>6. HiddenIsSpent'
      <4> SUFFICES ASSUME NEW p \in Outpoint, listings'[p] # None, listings'[p].pendingSale
                   PROVE  Spent(p)' \/ p \in misjudged'
        BY DEF HiddenIsSpent
      <4>1. p # o
        BY <3>2, <3>4
      <4> QED BY <1>0, <3>4, <4>1, SpentStays DEF HiddenIsSpent
    <3>7. SalesLeftTheSeller'
      BY <2>2 DEF ListPart, SalesLeftTheSeller, Spent, Owner
    <3> QED BY <1>0, <2>2, <3>4, <3>5, <3>6, <3>7 DEF ListPart
  <2> QED BY <2>3, <2>4
<1>7. ASSUME NEW r \in Requests, PruneSpent(r) PROVE ListPart'
  <2>1. request[r].at \in Outpoint /\ request[r].copy \in Listing
    BY <1>0, <1>7, BookRequests DEF PruneSpent, ToPrune
  <2>7. PICK o \in Outpoint : o = request[r].at
    BY <2>1
  <2>8. PICK l \in Listing : l = request[r].copy
    BY <2>1
  <2> DEFINE s == [carrier |-> o, price |-> l.price, buyer |-> IndexedOwner(o[1])]
  <2>2. /\ AnswersSpent(o) /\ UNCHANGED <<trail, seen, published>>
        /\ request[r].doing = "prune"
    BY <1>7, <2>7 DEF PruneSpent, chain
  <2>3. Spent(o)' \/ o \in misjudged'
    BY <2>2, SpentStays DEF AnswersSpent
  <2>4. CASE Verdict(o) = "pending"
    <3>1. /\ listings' = IF listings[o] # None /\ listings[o].price = l.price
                         THEN [listings EXCEPT ![o].pendingSale = TRUE] ELSE listings
          /\ sales' = sales
      BY <1>7, <2>4, <2>7, <2>8 DEF PruneSpent
    <3> DEFINE m == [listings[o] EXCEPT !.pendingSale = TRUE]
    <3>2. CASE listings' = listings
      BY <2>2, <3>1, <3>2, ListingsKept
    <3>3. CASE listings' # listings
      <4>1. listings[o] # None /\ listings' = [listings EXCEPT ![o] = m]
        BY <3>1, <3>3
      <4>2. m \in Listing
        BY <1>0, <2>1, <4>1 DEF Listing
      <4> HIDE DEF m
      <4>3. /\ listings' \in [Outpoint -> Listing \cup {None}]
            /\ \A p \in Outpoint : listings'[p] # None => listings[p] # None
            /\ \A p \in Outpoint : p # o => listings'[p] = listings[p]
        BY <1>0, <2>1, <4>1, <4>2
      <4>4. \A p \in Outpoint : listings'[p] # None /\ listings'[p].pendingSale =>
                                  listings[p].pendingSale \/ Spent(p)' \/ p \in misjudged'
        BY <2>3, <4>3
      <4> QED BY <1>0, <1>1, <2>2, <3>1, <4>3, <4>4, ListingsStay
    <3> QED BY <3>2, <3>3
  <2>5. CASE Verdict(o) = "cancel"
    <3>1. listings' = [listings EXCEPT ![o] = None] /\ sales' = sales
      BY <1>7, <2>5, <2>7, <2>8 DEF PruneSpent
    <3>2. /\ listings' \in [Outpoint -> Listing \cup {None}]
          /\ \A p \in Outpoint : listings'[p] # None => listings'[p] = listings[p]
      BY <1>0, <2>1, <3>1
    <3> QED BY <1>0, <1>1, <2>2, <3>1, <3>2, ListingsStay
  <2>6. CASE Verdict(o) \notin {"pending", "cancel"}
    <3>1. listings' = [listings EXCEPT ![o] = None] /\ sales' = LastOf(Append(sales, s), MaxSales)
      BY <1>7, <2>6, <2>7, <2>8 DEF PruneSpent
    <3>2. Location(o[1]) # o /\ IndexedOwner(o[1]) # Owner(o)
      BY <2>6 DEF Verdict
    <3>3. published[o] > 0
      BY <2>2, <2>7 DEF AskPart, PrunesKnown
    <3>4. /\ o[1] \in Items /\ o[2] \in Nat /\ o[2] >= 1 /\ seen[o[1]] >= o[2] /\ seen[o[1]] # o[2]
          /\ trail[o[1]] \in Seq(Users) /\ seen[o[1]] \in 1 .. Len(trail[o[1]]) /\ Len(trail[o[1]]) \in Nat
      BY <1>0, <2>1, <3>2, <3>3, OutpointIs DEF ListedKnown, Location, WorldOK
    <3>5. s \in Sale
      <4>1. IndexedOwner(o[1]) \in Users /\ l.price \in 1 .. MaxRelists
        BY <2>1, <3>4 DEF IndexedOwner, Listing
      <4> QED BY <2>1, <4>1 DEF Sale
    <3>6. TrueLater(s)
      <4>1. /\ o[2] < Len(trail[o[1]]) /\ seen[o[1]] \in o[2] + 1 .. Len(trail[o[1]])
            /\ trail[o[1]][seen[o[1]]] # trail[o[1]][o[2]]
        BY <3>2, <3>4 DEF IndexedOwner, Owner
      <4> QED BY <2>2, <4>1 DEF TrueLater, IndexedOwner
    <3> HIDE DEF s
    <3>7. /\ listings' \in [Outpoint -> Listing \cup {None}]
          /\ \A p \in Outpoint : listings'[p] # None => listings'[p] = listings[p]
      BY <1>0, <2>1, <3>1
    <3> DEFINE log == Append(sales, s)
    <3>8. /\ log \in Seq(Sale)
          /\ \A k \in 1 .. Len(log) : log[k] = s \/ \E m \in 1 .. Len(sales) : log[k] = sales[m]
      <4>1. /\ log \in Seq(Sale) /\ Len(log) = Len(sales) + 1 /\ log[Len(sales) + 1] = s /\ Len(sales) \in Nat
            /\ \A k \in 1 .. Len(sales) : log[k] = sales[k]
        BY <1>0, <3>5
      <4> HIDE DEF log
      <4>2. ASSUME NEW k \in 1 .. Len(log), k # Len(sales) + 1 PROVE k \in 1 .. Len(sales)
        BY <4>1, <4>2, NotLast
      <4> QED BY <4>1, <4>2
    <3> HIDE DEF log
    <3>9. /\ sales' \in Seq(Sale) /\ Len(sales') <= MaxSales
          /\ \A k \in 1 .. Len(sales') : \E m \in 1 .. Len(log) : sales'[k] = log[m]
      BY <3>1, <3>8, LastOfIs, BookNumbers DEF log
    <3>10. \A k \in 1 .. Len(sales') : TrueLater(sales'[k]) \/ \E m \in 1 .. Len(sales) : sales'[k] = sales[m]
      BY <3>6, <3>8, <3>9
    <3> QED BY <1>0, <2>2, <3>7, <3>9, <3>10, ListingsStay
  <2> QED BY <2>4, <2>5, <2>6
<1> QED BY <1>2, <1>3, <1>4, <1>5, <1>6, <1>7 DEF ListingNext

-----------------------------------------------------------------------------
\* A request that waits with something of its own leaves what the others wait with as it was.
LEMMA Asked ==
  ASSUME AskPart, NEW r \in Requests, NEW what \in Request, Wait(r, what),
         what.doing = "prune" => published'[what.at] > 0, what.doing = "bids" => Keeps(what),
         \A o \in Outpoint : published[o] > 0 => published'[o] > 0
  PROVE  AskPart'
<1>1. /\ request' \in [Requests -> Request] /\ request'[r] = what
      /\ \A q \in Requests : q # r => request'[q] = request[q]
  BY DEF AskPart, Wait
<1>2. PrunesKnown'
  <2> SUFFICES ASSUME NEW q \in Requests, request'[q].doing = "prune" PROVE published'[request'[q].at] > 0
    BY DEF PrunesKnown
  <2>1. CASE q = r
    BY <1>1, <2>1
  <2>2. CASE q # r
    <3>1. request'[q] = request[q] /\ request[q] \in Request /\ request[q].doing = "prune"
      BY <1>1, <2>2 DEF AskPart
    <3>2. request[q].at \in Outpoint /\ published[request[q].at] > 0
      BY <3>1, BookRequestAt DEF AskPart, PrunesKnown
    <3> QED BY <3>1, <3>2
  <2> QED BY <2>1, <2>2
<1>3. ReadsKeep'
  <2> SUFFICES ASSUME NEW q \in Requests, request'[q].doing = "bids" PROVE Keeps(request'[q])
    BY DEF ReadsKeep, Keeps, OffersIn, InOrder
  <2> QED BY <1>1 DEF AskPart, ReadsKeep
<1> QED BY <1>1, <1>2, <1>3 DEF AskPart

\* A request that ends, or that asks for something that is not a prune or a read.
LEMMA AskedPlain ==
  ASSUME AskPart, NEW r \in Requests, NEW what \in Request, what.doing \in {"nothing", "list", "bid"},
         Wait(r, what), \A o \in Outpoint : published[o] > 0 => published'[o] > 0
  PROVE  AskPart'
<1>1. what.doing # "prune" /\ what.doing # "bids"
  OBVIOUS
<1> QED BY <1>1, Asked

\* A step that opens and ends no request and lists nothing.
LEMMA AsksKept ==
  ASSUME AskPart, request' = request, published' = published PROVE AskPart'
  BY DEF AskPart, PrunesKnown, ReadsKeep, Keeps, OffersIn, InOrder

\* The steps on listings, and what the open requests hold.
LEMMA ListingAsks ==
  ASSUME ListPart, AskPart, ListingNext PROVE AskPart'
<1>0. /\ listings \in [Outpoint -> Listing \cup {None}] /\ published \in [Outpoint -> 0 .. MaxRelists]
      /\ request \in [Requests -> Request] /\ ListedKnown
  BY DEF ListPart, AskPart
<1>1. Idle \in Request /\ Idle.doing = "nothing"
  BY BookRequestsAre DEF Idle
<1>2. ASSUME NEW o \in Outpoint, Lapse(o) PROVE AskPart'
  <2>1. request' = request /\ published' = published
    BY <1>2 DEF Lapse
  <2> QED BY <2>1, AsksKept
<1>3. ASSUME NEW r \in Requests, NEW o \in Outpoint, AddListing(r, o) PROVE AskPart'
  <2> DEFINE what == [doing |-> "list", at |-> o]
  <2>1. what \in Request /\ what.doing = "list"
    BY BookRequestsAre DEF ToList
  <2>2. Wait(r, what) /\ published' = published
    BY <1>3 DEF AddListing, book
  <2> HIDE DEF what
  <2> QED BY <2>1, <2>2, AskedPlain
<1>4. ASSUME NEW r \in Requests, NEW o \in Outpoint, Prune(r, o) PROVE AskPart'
  <2>1. CASE request' = request
    <3>1. published' = published
      BY <1>4 DEF Prune
    <3> QED BY <2>1, <3>1, AsksKept
  <2>2. CASE request' # request
    <3> DEFINE what == [doing |-> "prune", at |-> o, copy |-> listings[o]]
    <3>1. listings[o] \in Listing /\ published[o] > 0
      BY <1>0, <1>4 DEF Prune, ListedKnown
    <3>2. what \in Request /\ what.doing = "prune" /\ what.at = o
      <4>1. what \in ToPrune
        BY <3>1 DEF ToPrune
      <4> QED BY <4>1, BookRequestsAre
    <3>3. Wait(r, what) /\ published' = published
      BY <1>4, <2>2 DEF Prune
    <3> HIDE DEF what
    <3>4. what.doing # "bids"
      BY <3>2
    <3> QED BY <3>1, <3>2, <3>3, <3>4, Asked
  <2> QED BY <2>1, <2>2
<1>5. ASSUME NEW r \in Requests, StoreListing(r) PROVE AskPart'
  <2>1. Wait(r, Idle)
    BY <1>5 DEF StoreListing, Done
  <2>2. request[r].at \in Outpoint
    BY <1>0, <1>5, BookRequestAt DEF StoreListing
  <2>3. ASSUME NEW o \in Outpoint, published[o] > 0 PROVE published'[o] > 0
    <3>1. published' = published \/ published' = [published EXCEPT ![request[r].at] = published[request[r].at] + 1]
      BY <1>5 DEF StoreListing
    <3>2. published[request[r].at] + 1 > 0
      BY <1>0, <2>2, BookNumbers
    <3> QED BY <1>0, <2>2, <2>3, <3>1, <3>2
  <2> QED BY <1>1, <2>1, <2>3, AskedPlain
<1>6. ASSUME NEW r \in Requests, PruneSpent(r) \/ PruneUnspent(r) PROVE AskPart'
  <2>1. Wait(r, Idle) /\ published' = published
    BY <1>6 DEF PruneSpent, PruneUnspent, Done, book
  <2> QED BY <1>1, <2>1, AskedPlain
<1> QED BY <1>2, <1>3, <1>4, <1>5, <1>6 DEF ListingNext

\* One more offer that a read has kept.
LEMMA KeepsMore ==
  ASSUME NEW q, Keeps(q), q.next > 0, NEW kept \in {q.kept, Append(q.kept, q.list[q.next])}
  PROVE  /\ OffersIn(kept) /\ Len(kept) <= q.next
         /\ \A k \in 1 .. Len(kept), p \in 1 .. Len(q.list) : p > q.next =>
              kept[k].price >= q.list[p].price /\ kept[k].buyer # q.list[p].buyer
<1> DEFINE b == q.list[q.next]
           n == q.next
<1>0. /\ q.list \in Seq(Bid) /\ Len(q.list) \in Nat /\ Len(q.list) <= MaxBids /\ InOrder(q.list)
      /\ q.kept \in Seq(Bid) /\ Len(q.kept) \in Nat /\ InOrder(q.kept)
      /\ n \in 1 .. Len(q.list) /\ Len(q.kept) < n /\ b \in Bid /\ MaxBids \in Nat
  BY BookNumbers DEF Keeps, OffersIn
<1>1. \A k \in 1 .. Len(q.kept), p \in 1 .. Len(q.list) : p >= n =>
        q.kept[k].price >= q.list[p].price /\ q.kept[k].buyer # q.list[p].buyer
  BY DEF Keeps
<1>2. CASE kept = q.kept
  <2>1. \A p \in 1 .. Len(q.list) : p > n => p >= n
    BY <1>0
  <2>2. Len(q.kept) <= MaxBids
    BY <1>0
  <2>3. Len(q.kept) <= n
    BY <1>0
  <2> QED BY <1>0, <1>1, <1>2, <2>1, <2>2, <2>3 DEF OffersIn
<1>3. CASE kept = Append(q.kept, b)
  <2>1. /\ kept \in Seq(Bid) /\ Len(kept) = Len(q.kept) + 1 /\ kept[Len(q.kept) + 1] = b
        /\ \A k \in 1 .. Len(q.kept) : kept[k] = q.kept[k]
    BY <1>0, <1>3
  <2>2. ASSUME NEW k \in 1 .. Len(kept), k # Len(q.kept) + 1 PROVE k \in 1 .. Len(q.kept)
    BY <1>0, <2>1, <2>2, NotLast
  <2>3. \A k \in 1 .. Len(q.kept) : q.kept[k].price >= b.price /\ q.kept[k].buyer # b.buyer
    <3>1. n >= n
      BY <1>0
    <3> QED BY <1>0, <1>1, <3>1
  <2>4. \A p \in 1 .. Len(q.list) : p > n => b.price >= q.list[p].price /\ b.buyer # q.list[p].buyer
    BY <1>0 DEF InOrder
  <2>5. \A p \in 1 .. Len(q.list) : p > n => p >= n
    BY <1>0
  <2>6. Len(kept) <= MaxBids /\ Len(kept) <= n
    BY <1>0, <2>1
  <2> HIDE DEF b, n
  <2>7. InOrder(kept)
    <3> SUFFICES ASSUME NEW k \in 1 .. Len(kept), NEW m \in 1 .. Len(kept), k < m
                 PROVE  kept[k].price >= kept[m].price /\ kept[k].buyer # kept[m].buyer
      BY DEF InOrder
    <3>1. k # Len(q.kept) + 1
      BY <1>0, <2>1
    <3>2. k \in 1 .. Len(q.kept)
      BY <2>2, <3>1
    <3>3. CASE m = Len(q.kept) + 1
      BY <2>1, <2>3, <3>2, <3>3
    <3>4. CASE m # Len(q.kept) + 1
      <4>1. m \in 1 .. Len(q.kept)
        BY <2>2, <3>4
      <4> QED BY <1>0, <2>1, <3>2, <4>1 DEF InOrder
    <3> QED BY <3>3, <3>4
  <2>8. ASSUME NEW k \in 1 .. Len(kept), NEW p \in 1 .. Len(q.list), p > n
        PROVE  kept[k].price >= q.list[p].price /\ kept[k].buyer # q.list[p].buyer
    <3>1. CASE k = Len(q.kept) + 1
      BY <2>1, <2>4, <2>8, <3>1
    <3>2. CASE k # Len(q.kept) + 1
      <4>1. k \in 1 .. Len(q.kept)
        BY <2>2, <3>2
      <4> QED BY <1>1, <2>1, <2>5, <2>8, <4>1
    <3> QED BY <3>1, <3>2
  <2> QED BY <2>1, <2>6, <2>7, <2>8 DEF OffersIn, n
<1> QED BY <1>2, <1>3

\* The steps on bids, a step of each request: the offers on every carrier stay in order.
LEMMA BookBidsStep ==
  ASSUME AskPart, OffersInOrder, BidNext PROVE AskPart' /\ OffersInOrder'
<1>0. /\ request \in [Requests -> Request] /\ bids \in [Outpoint -> Seq(Bid)] /\ MaxBids \in Nat
      /\ \A o \in Outpoint : bids[o] \in Seq(Bid) /\ Len(bids[o]) \in Nat /\ OffersIn(bids[o])
  BY BookNumbers DEF AskPart, OffersInOrder
<1>1. Idle \in Request /\ Idle.doing = "nothing"
  BY BookRequestsAre DEF Idle
<1>2. published' = published => \A o \in Outpoint : published[o] > 0 => published'[o] > 0
  OBVIOUS
<1>3. ASSUME NEW o \in Outpoint, NEW new, OffersIn(new), bids' = [bids EXCEPT ![o] = new] PROVE OffersInOrder'
  <2>1. bids' \in [Outpoint -> Seq(Bid)]
    BY <1>0, <1>3 DEF OffersIn
  <2>2. \A p \in Outpoint : OffersIn(bids'[p])
    BY <1>0, <1>3
  <2> QED BY <2>1, <2>2 DEF OffersInOrder, OffersIn, InOrder
<1>4. ASSUME bids' = bids PROVE OffersInOrder'
  BY <1>4 DEF OffersInOrder, OffersIn, InOrder
<1>5. ASSUME NEW u \in Users, SpendCoin(u) PROVE AskPart' /\ OffersInOrder'
  BY <1>4, <1>5, AsksKept DEF SpendCoin, book
<1>6. ASSUME NEW r \in Requests, NEW o \in Outpoint, NEW b \in Bid, AddBid(r, o, b) PROVE AskPart' /\ OffersInOrder'
  <2> DEFINE what == [doing |-> "bid", at |-> o, bid |-> b]
  <2>1. what \in Request /\ what.doing = "bid"
    BY BookRequestsAre DEF ToBid
  <2>2. Wait(r, what) /\ published' = published /\ bids' = bids
    BY <1>6 DEF AddBid, book
  <2> HIDE DEF what
  <2> QED BY <1>2, <1>4, <2>1, <2>2, AskedPlain
<1>7. ASSUME NEW r \in Requests, NEW o \in Outpoint, BidsFor(r, o) PROVE AskPart' /\ OffersInOrder'
  <2> DEFINE what == [doing |-> "bids", at |-> o, list |-> bids[o], kept |-> <<>>, next |-> 0]
  <2>1. bids[o] # <<>> /\ Wait(r, what) /\ published' = published /\ bids' = bids
    BY <1>7 DEF BidsFor, book
  <2>2. /\ bids[o] \in BoundedSeq(Bid, MaxBids) /\ <<>> \in BoundedSeq(Bid, MaxBids)
        /\ Len(bids[o]) > 0 /\ 0 \in 0 .. MaxBids
    <3>1. Len(bids[o]) <= MaxBids /\ <<>> \in Seq(Bid) /\ Len(<<>>) <= MaxBids
      BY <1>0 DEF OffersIn
    <3>2. Len(bids[o]) > 0
      BY <1>0, <2>1
    <3>3. bids[o] \in BoundedSeq(Bid, MaxBids)
      BY <1>0, <3>1, Bounded
    <3>4. <<>> \in BoundedSeq(Bid, MaxBids)
      BY <1>0, <3>1, Bounded
    <3>5. 0 \in 0 .. MaxBids
      BY <1>0
    <3> QED BY <3>2, <3>3, <3>4, <3>5
  <2>3. what \in ToRead
    BY <2>2 DEF ToRead
  <2>4. Keeps(what)
    <3>1. OffersIn(<<>>) /\ Len(<<>>) = 0
      BY <1>0 DEF OffersIn, InOrder
    <3>2. what.list = bids[o] /\ what.kept = <<>> /\ what.next = 0
      OBVIOUS
    <3> HIDE DEF what
    <3> QED BY <1>0, <2>2, <3>1, <3>2 DEF Keeps
  <2>5. what.doing # "prune"
    OBVIOUS
  <2> HIDE DEF what
  <2>6. what \in Request
    BY <2>3, BookRequestsAre
  <2> QED BY <1>2, <1>4, <2>1, <2>4, <2>5, <2>6, Asked
<1>8. ASSUME NEW r \in Requests, StoreBid(r) PROVE AskPart' /\ OffersInOrder'
  <2> DEFINE o == request[r].at
             b == request[r].bid
  <2>1. o \in Outpoint /\ b \in Bid
    BY <1>0, <1>8, BookRequests DEF StoreBid, ToBid
  <2>2. Wait(r, Idle) /\ published' = published
    BY <1>8 DEF StoreBid, Done
  <2>3. AskPart'
    BY <1>1, <1>2, <2>2, AskedPlain
  <2>4. bids' = bids \/ (Len(bids[o]) < MaxBids /\ bids' = [bids EXCEPT ![o] = Added(bids[o], b)])
    BY <1>8 DEF StoreBid
  <2>5. CASE bids' = bids
    BY <1>4, <2>3, <2>5
  <2>6. CASE Len(bids[o]) < MaxBids /\ bids' = [bids EXCEPT ![o] = Added(bids[o], b)]
    <3>1. OffersIn(Added(bids[o], b))
      BY <1>0, <2>1, <2>6, AddedOffers
    <3> QED BY <1>3, <2>1, <2>3, <2>6, <3>1
  <2> QED BY <2>4, <2>5, <2>6
<1>9. ASSUME NEW r \in Requests, BidsCarrier(r) PROVE AskPart' /\ OffersInOrder'
  <2> DEFINE q == request[r]
             on == [q EXCEPT !.next = 1]
  <2>1. q \in ToRead /\ q.at \in Outpoint /\ Keeps(q) /\ q.next = 0 /\ published' = published
    BY <1>0, <1>9, BookRequests DEF BidsCarrier, ToRead, AskPart, ReadsKeep
  <2>2. CASE bids' = [bids EXCEPT ![q.at] = <<>>] /\ Wait(r, Idle)
    <3>1. OffersIn(<<>>)
      <4>1. <<>> \in Seq(Bid) /\ Len(<<>>) = 0
        OBVIOUS
      <4> QED BY <1>0, <4>1 DEF OffersIn, InOrder
    <3>2. OffersInOrder'
      BY <1>3, <2>1, <2>2, <3>1
    <3> QED BY <1>1, <1>2, <2>1, <2>2, <3>2, AskedPlain
  <2>3. CASE bids' = bids /\ Wait(r, on)
    <3>1. /\ on \in ToRead /\ on.next = 1 /\ on.list = q.list /\ on.kept = q.kept /\ on.doing = "bids"
      <4>1. 1 \in 0 .. MaxBids
        <5>1. Len(q.list) \in Nat /\ Len(q.list) > 0 /\ Len(q.list) <= MaxBids
          BY <2>1 DEF Keeps, OffersIn
        <5> QED BY <1>0, <5>1
      <4> QED BY <2>1, <4>1 DEF ToRead
    <3>2. Keeps(on)
      <4> HIDE DEF q, on
      <4>1. Len(q.list) \in Nat /\ Len(q.kept) = 0 /\ 1 \in 1 .. Len(q.list)
        BY <2>1 DEF Keeps, OffersIn
      <4> QED BY <2>1, <3>1, <4>1 DEF Keeps
    <3> HIDE DEF on
    <3>3. on \in Request /\ on.doing # "prune"
      BY <3>1, BookRequestsAre
    <3> QED BY <1>2, <1>4, <2>1, <2>3, <3>2, <3>3, Asked
  <2> QED BY <1>9, <2>2, <2>3 DEF BidsCarrier, Done
<1>10. ASSUME NEW r \in Requests, BidsCoin(r) PROVE AskPart' /\ OffersInOrder'
  <2> DEFINE q == request[r]
  <2>1. q \in ToRead /\ q.at \in Outpoint /\ Keeps(q) /\ q.next > 0 /\ published' = published
    BY <1>0, <1>10, BookRequests DEF BidsCoin, ToRead, AskPart, ReadsKeep
  <2>2. PICK kept \in {q.kept, Append(q.kept, q.list[q.next])} :
          IF q.next < Len(q.list)
          THEN Wait(r, [q EXCEPT !.next = @ + 1, !.kept = kept]) /\ bids' = bids
          ELSE bids' = Kept(bids, q, kept) /\ Wait(r, Idle)
    BY <1>10 DEF BidsCoin, Done
  <2>3. /\ OffersIn(kept) /\ Len(kept) <= q.next
        /\ \A k \in 1 .. Len(kept), p \in 1 .. Len(q.list) : p > q.next =>
             kept[k].price >= q.list[p].price /\ kept[k].buyer # q.list[p].buyer
    <3> HIDE DEF q
    <3> QED BY <2>1, KeepsMore
  <2>4. CASE q.next < Len(q.list)
    <3> DEFINE on == [q EXCEPT !.next = q.next + 1, !.kept = kept]
    <3>1. Wait(r, on) /\ bids' = bids
      BY <2>2, <2>4
    <3>2. /\ Len(q.list) \in Nat /\ q.next \in Nat /\ Len(kept) \in Nat /\ kept \in BoundedSeq(Bid, MaxBids)
          /\ q.next + 1 \in 0 .. MaxBids /\ q.next + 1 \in 0 .. Len(q.list)
      <4>1. Len(q.list) \in Nat /\ q.next \in Nat /\ Len(q.list) <= MaxBids
        BY <2>1 DEF Keeps, OffersIn
      <4>2. Len(kept) \in Nat /\ kept \in BoundedSeq(Bid, MaxBids)
        BY <1>0, <2>3, Bounded DEF OffersIn
      <4> HIDE DEF q
      <4> QED BY <1>0, <2>4, <4>1, <4>2
    <3>3. /\ on \in ToRead /\ on.next = q.next + 1 /\ on.list = q.list /\ on.kept = kept /\ on.doing = "bids"
      BY <2>1, <3>2 DEF ToRead
    <3> HIDE DEF on, q
    <3>4. Keeps(on)
      <4>1. \A p \in 1 .. Len(q.list) : p >= q.next + 1 => p > q.next
        BY <3>2
      <4>2. Len(kept) < q.next + 1 /\ Len(kept) <= q.next + 1
        BY <2>3, <3>2
      <4> QED BY <2>1, <2>3, <3>2, <3>3, <4>1, <4>2 DEF Keeps
    <3>5. on \in Request /\ on.doing # "prune"
      BY <3>3, BookRequestsAre
    <3> QED BY <1>2, <1>4, <2>1, <3>1, <3>4, <3>5, Asked
  <2>5. CASE ~(q.next < Len(q.list))
    <3>1. bids' = Kept(bids, q, kept) /\ Wait(r, Idle)
      BY <2>2, <2>5
    <3>2. AskPart'
      BY <1>1, <1>2, <2>1, <3>1, AskedPlain
    <3>3. bids' = bids \/ bids' = [bids EXCEPT ![q.at] = kept]
      BY <3>1 DEF Kept
    <3> QED BY <1>3, <1>4, <2>1, <2>3, <3>2, <3>3
  <2> QED BY <2>4, <2>5
<1> QED BY <1>5, <1>6, <1>7, <1>8, <1>9, <1>10 DEF BidNext

\* The inductive invariant of the order book: the index has been where anything is listed, a request
\* that prunes is at an outpoint that was listed, and one that reads bids keeps them in their order.
THEOREM OrderBookInvariant == OrderBookSpec => []OrderBookInv
<1> DEFINE Parts == WorldOK /\ ListPart /\ AskPart /\ OffersInOrder
<1>1. OrderBookInit => Parts
  <2> SUFFICES ASSUME OrderBookInit PROVE Parts
    OBVIOUS
  <2>1. \A u \in Users : <<u>> \in Seq(Users) /\ Len(<<u>>) = 1
    OBVIOUS
  <2>2. \A i \in Items : \E u \in Users : trail[i] = <<u>>
    BY DEF OrderBookInit
  <2>3. /\ trail = [i \in Items |-> trail[i]] /\ \A i \in Items : trail[i] \in Seq(Users) /\ Len(trail[i]) = 1
    BY <2>1, <2>2 DEF OrderBookInit
  <2>4. trail \in [Items -> Seq(Users)]
    BY <2>3
  <2>5. seen \in [Items -> Nat] /\ \A i \in Items : seen[i] = 1
    BY DEF OrderBookInit
  <2>6. WorldOK
    <3>1. 1 \in 1 .. MaxMoves /\ 1 \in 1 .. 1 /\ 0 \in 0 .. MaxFaults
      BY BookNumbers
    <3>2. \A i \in Items : Len(trail[i]) \in 1 .. MaxMoves /\ seen[i] \in 1 .. Len(trail[i])
      BY <2>3, <2>5, <3>1
    <3> QED BY <2>4, <2>5, <3>1, <3>2 DEF OrderBookInit, WorldOK
  <2>7. <<>> \in Seq(Sale) /\ <<>> \in Seq(Bid) /\ Len(<<>>) = 0
    OBVIOUS
  <2>8. ListPart
    BY <2>7, BookNumbers DEF OrderBookInit, ListPart, ListedKnown, SalesLeftTheSeller, HiddenIsSpent
  <2>9. AskPart
    BY BookRequestsAre DEF OrderBookInit, AskPart, PrunesKnown, ReadsKeep, Idle
  <2>10. OffersInOrder
    BY <2>7, BookNumbers DEF OrderBookInit, OffersInOrder, OffersIn, InOrder
  <2> QED BY <2>6, <2>8, <2>9, <2>10
<1>2. Parts /\ [OrderBookNext]_bookVars => Parts'
  <2> SUFFICES ASSUME WorldOK, ListPart, AskPart, OffersInOrder, [OrderBookNext]_bookVars
               PROVE  WorldOK' /\ ListPart' /\ AskPart' /\ OffersInOrder'
    OBVIOUS
  <2>1. WorldOK' /\ Grown /\ misjudged \subseteq misjudged'
    BY WorldStep DEF ListPart, AskPart
  <2>2. CASE ListingNext
    <3>1. bids' = bids
      BY <2>2 DEF ListingNext, Lapse, AddListing, Prune, StoreListing, PruneSpent, PruneUnspent, book
    <3>2. OffersInOrder'
      BY <3>1 DEF OffersInOrder, OffersIn, InOrder
    <3> QED BY <2>1, <2>2, <3>2, ListingsStep, ListingAsks
  <2>3. CASE BidNext
    <3>1. UNCHANGED <<listings, sales, published>>
      BY <2>3 DEF BidNext, SpendCoin, AddBid, BidsFor, StoreBid, BidsCarrier, BidsCoin, book
    <3> QED BY <2>1, <2>3, <3>1, ListingsKept, BookBidsStep
  <2>4. CASE ChainNext \/ UNCHANGED bookVars
    <3>1. UNCHANGED <<book, request>>
      BY <2>4 DEF ChainNext, Move, Trade, Sync, bookVars
    <3>2. UNCHANGED <<listings, sales, published>> /\ bids' = bids /\ request' = request
      BY <3>1 DEF book
    <3>3. OffersInOrder'
      BY <3>2 DEF OffersInOrder, OffersIn, InOrder
    <3> QED BY <2>1, <3>2, <3>3, ListingsKept, AsksKept
  <2> QED BY <2>2, <2>3, <2>4 DEF OrderBookNext
<1> QED BY <1>1, <1>2, BookParts, PTL DEF OrderBookSpec

\* orderbook.js, what listings(), bids() and the activity log say: a sale left its seller and went to
\* the one named, what is hidden is spent, offers stand best first, one for each buyer.
THEOREM BookCorrect == OrderBookSpec => []BookTellsTruth
<1>1. OrderBookInv => BookTellsTruth
  BY DEF OrderBookInv, OffersInOrder, OffersIn, InOrder, BookTellsTruth, BidsInOrder
<1> QED BY <1>1, OrderBookInvariant, PTL

\* "deleting the listing then would lose the sale forever": a listing leaves the book for a sale, for a
\* cancel the index has seen, or because it had expired.
THEOREM SalesKept == OrderBookSpec => SaleKept
<1>1. OrderBookInv /\ [OrderBookNext]_bookVars =>
        \A o \in Outpoint :
          (listings[o] # None /\ listings'[o] = None /\ \E n \in 1 .. MaxRelists : <<o, n>> \in traded)
            => \/ listings[o].lapsed
               \/ IndexedOwner(o[1]) = Owner(o) /\ seen[o[1]] > o[2]
               \/ \E k \in 1 .. Len(sales') : sales'[k].carrier = o
  <2> SUFFICES ASSUME OrderBookInv, [OrderBookNext]_bookVars, NEW o \in Outpoint,
                      listings[o] # None, listings'[o] = None, ~listings[o].lapsed
               PROVE  \/ IndexedOwner(o[1]) = Owner(o) /\ seen[o[1]] > o[2]
                      \/ \E k \in 1 .. Len(sales') : sales'[k].carrier = o
    OBVIOUS
  <2>0. WorldOK /\ ListPart /\ AskPart /\ listings \in [Outpoint -> Listing \cup {None}]
        /\ request \in [Requests -> Request]
    BY BookParts DEF ListPart, AskPart
  <2>1. listings[o] \in Listing /\ ~(listings' = listings)
    BY <2>0
  <2>2. ASSUME NEW p \in Outpoint, NEW l \in Listing, listings' = [listings EXCEPT ![p] = l] PROVE FALSE
    BY <2>0, <2>2, NoListingIsNone
  <2>3. ASSUME NEW p \in Outpoint, listings[p] # None, NEW f \in {"lapsed", "pendingSale"},
               listings' = [listings EXCEPT ![p] = [listings[p] EXCEPT ![f] = TRUE]]
        PROVE  FALSE
    <3>1. [listings[p] EXCEPT ![f] = TRUE] \in Listing
      BY <2>0, <2>3 DEF Listing
    <3> QED BY <2>2, <2>3, <3>1
  <2>4. ~ \E p \in Outpoint : Lapse(p)
    BY <2>3 DEF Lapse
  <2>5. ~ \E r \in Requests, p \in Outpoint : Prune(r, p)
    BY <2>0, <2>1 DEF Prune
  <2>6. ~ \E r \in Requests : StoreListing(r)
    <3> SUFFICES ASSUME NEW r \in Requests, StoreListing(r) PROVE FALSE
      OBVIOUS
    <3> DEFINE p == request[r].at
               n == published[p] + 1
               l == [price |-> n, lapsed |-> FALSE, pendingSale |-> FALSE]
    <3>1. n <= MaxRelists /\ listings' = [listings EXCEPT ![p] = l]
      BY <2>1 DEF StoreListing
    <3>2. p \in Outpoint
      BY <2>0, BookRequestAt DEF StoreListing
    <3>3. published[p] \in 0 .. MaxRelists
      BY <2>0, <3>2 DEF ListPart
    <3>4. n \in 1 .. MaxRelists
      BY <3>1, <3>3, BookNumbers
    <3> HIDE DEF n, p
    <3>5. l \in Listing
      BY <3>4 DEF Listing
    <3> HIDE DEF l
    <3> QED BY <2>2, <3>1, <3>2, <3>5
  <2>7. PICK r \in Requests : PruneSpent(r)
    BY <2>1, <2>4, <2>5, <2>6
    DEF OrderBookNext, ChainNext, ListingNext, BidNext, Move, Trade, Sync, AddListing, PruneUnspent,
        SpendCoin, AddBid, BidsFor, StoreBid, BidsCarrier, BidsCoin, book, bookVars
  <2>8. PICK p \in Outpoint : p = request[r].at
    BY <2>0, <2>7, BookRequestAt DEF PruneSpent
  <2>9. published[p] > 0 /\ seen[p[1]] >= p[2] /\ seen[p[1]] \in Nat /\ p[2] \in Nat /\ p = <<p[1], p[2]>>
    BY <2>0, <2>7, <2>8, OutpointIs DEF PruneSpent, AskPart, PrunesKnown, ListPart, ListedKnown, WorldOK
  <2>10. Verdict(p) # "pending"
    BY <2>1, <2>3, <2>7, <2>8 DEF PruneSpent
  <2>11. p = o /\ Location(p[1]) # p /\ seen[p[1]] > p[2]
    <3>1. listings' = [listings EXCEPT ![p] = None]
      BY <2>7, <2>8, <2>10 DEF PruneSpent
    <3>2. Location(p[1]) # p
      BY <2>10 DEF Verdict
    <3> QED BY <2>0, <2>9, <3>1, <3>2 DEF Location
  <2>12. CASE Verdict(p) = "cancel"
    BY <2>11, <2>12 DEF Verdict
  <2>13. CASE Verdict(p) # "cancel"
    <3> DEFINE s == [carrier |-> p, price |-> request[r].copy.price, buyer |-> IndexedOwner(p[1])]
               log == Append(sales, s)
    <3>1. sales' = LastOf(log, MaxSales)
      BY <2>7, <2>8, <2>10, <2>13 DEF PruneSpent
    <3> DEFINE S == Sale \cup {s}
    <3>2. log \in Seq(S) /\ Len(log) > 0 /\ log[Len(log)] = s /\ s.carrier = p
      BY <2>0 DEF ListPart
    <3> HIDE DEF log, s, S
    <3>3. sales' \in Seq(S) /\ Len(sales') > 0 /\ sales'[Len(sales')] = s
      BY <3>1, <3>2, LastOfIs, BookNumbers
    <3>4. Len(sales') \in 1 .. Len(sales')
      BY <3>3
    <3> QED BY <2>11, <3>2, <3>3, <3>4
  <2> QED BY <2>12, <2>13
<1> QED BY <1>1, OrderBookInvariant, PTL DEF OrderBookSpec, SaleKept

-----------------------------------------------------------------------------
(* The promo campaign.                                                      *)


\* A job nobody asked for has nothing and is not looked at; while its handler runs it holds a slot and has no gift, and the
\* reaper leaves it alone; the flag is on a gift, and a gift has been seen by its deposit.
Unasked(j)  ==
  who[j] = None =>
    claim[j] = "none" /\ handler[j] = NoHandler /\ j \notin gifts /\ (reaper # None => reaper[1] # j)
Handled(j)  ==
  handler[j] # NoHandler =>
    claim[j] = "held" /\ ~flagged[j] /\ j \notin gifts /\ (reaper # None => reaper[1] # j)
Flags(j)    == flagged[j] => j \in gifts
Deposits(j) == j \in gifts => deposit[j] # "empty"
JobsInOrder == \A j \in Jobs : Unasked(j) /\ Handled(j) /\ Flags(j) /\ Deposits(j)

\* Slots stay within the limit and the caps; a gift has its slot; the purse's coin counts the gifts.
WithinCaps(S) ==
  /\ Cardinality(S) <= Limit
  /\ \A w \in Claimants \X Ips :
       /\ Cardinality({j \in S : who[j][1] = w[1]}) <= MaxPerAddr
       /\ Cardinality({j \in S : who[j][2] = w[2]}) <= MaxPerIp
SlotsWithinLimit == WithinCaps(LiveJobs)
GiftsHaveSlots == ~misled => gifts \subseteq LiveJobs
PurseCounts == purse = Cardinality(gifts)

PromoInv ==
  /\ PromoTypeOK /\ JobsInOrder /\ SlotsWithinLimit /\ GiftsHaveSlots /\ PurseCounts
  /\ NoSlotWithoutGift

-----------------------------------------------------------------------------
\* Sets of jobs are finite, and a part of a set within the caps is within them.
LEMMA PartWithinCaps ==
  ASSUME NEW S \in SUBSET Jobs, NEW T \in SUBSET S, WithinCaps(S)
  PROVE  WithinCaps(T)
<1>1. \A A, B : A \subseteq B /\ B \subseteq Jobs => Cardinality(A) <= Cardinality(B)
              /\ Cardinality(A) \in Nat /\ Cardinality(B) \in Nat
  <2> SUFFICES ASSUME NEW A, NEW B, A \subseteq B, B \subseteq Jobs
               PROVE  Cardinality(A) <= Cardinality(B) /\ Cardinality(A) \in Nat /\ Cardinality(B) \in Nat
    OBVIOUS
  <2>1. IsFiniteSet(B)
    BY PromoAssumption, FS_Subset
  <2>2. IsFiniteSet(A) /\ Cardinality(A) <= Cardinality(B)
    BY <2>1, FS_Subset
  <2> QED BY <2>1, <2>2, FS_CardinalityType
<1> DEFINE Addr(X, w) == {j \in X : who[j][1] = w[1]}
           Ip(X, w)   == {j \in X : who[j][2] = w[2]}
<1>2. \A w \in Claimants \X Ips :
        /\ Addr(T, w) \subseteq Addr(S, w) /\ Ip(T, w) \subseteq Ip(S, w)
        /\ Addr(S, w) \subseteq Jobs /\ Ip(S, w) \subseteq Jobs
  OBVIOUS
<1>3. /\ Cardinality(S) <= Limit
      /\ \A w \in Claimants \X Ips : Cardinality(Addr(S, w)) <= MaxPerAddr /\ Cardinality(Ip(S, w)) <= MaxPerIp
  BY DEF WithinCaps
<1>4. Limit \in Nat /\ MaxPerAddr \in Nat /\ MaxPerIp \in Nat
  BY PromoAssumption
<1> HIDE DEF Addr, Ip
<1>5. /\ Cardinality(T) <= Limit
      /\ \A w \in Claimants \X Ips : Cardinality(Addr(T, w)) <= MaxPerAddr /\ Cardinality(Ip(T, w)) <= MaxPerIp
  <2>1. Cardinality(T) <= Limit
    BY <1>1, <1>3, <1>4
  <2>2. ASSUME NEW w \in Claimants \X Ips
        PROVE  Cardinality(Addr(T, w)) <= MaxPerAddr /\ Cardinality(Ip(T, w)) <= MaxPerIp
    BY <1>1, <1>2, <1>3, <1>4
  <2> QED BY <2>1, <2>2
<1> QED BY <1>5 DEF WithinCaps, Addr, Ip

\* Every variable keeps its type.  The purse's coin is one of the jobs': each gift is to another job.
LEMMA PromoTypeStep == PromoInv /\ [PromoNext]_promoVars => PromoTypeOK' /\ PurseCounts'
<1> SUFFICES ASSUME PromoInv, [PromoNext]_promoVars PROVE PromoTypeOK' /\ PurseCounts'
  OBVIOUS
<1>0. PromoTypeOK /\ PurseCounts /\ JobsInOrder
  BY DEF PromoInv
<1>1. failures' \in 0 .. MaxPromoFaults /\ restarts' \in 0 .. MaxPromoCrashes
  BY <1>0, PromoAssumption DEF PromoTypeOK, PromoNext, Ask, Look, Fund, PaysItself, Drive, Commit, Reveal, Reap,
     ReapAnswer, Restart, promoVars, Well, Refused, AnswerLost, Failure
<1>2. misled' \in BOOLEAN
  BY <1>0 DEF PromoTypeOK, PromoNext, Ask, Look, Fund, PaysItself, Drive, Commit, Reveal, Reap,
     ReapAnswer, Restart, promoVars, Well, Refused, AnswerLost
<1>3. IsFiniteSet(gifts) /\ Cardinality(gifts) \in Nat /\ Cardinality(Jobs) \in Nat
  BY <1>0, PromoAssumption, FS_Subset, FS_CardinalityType DEF PromoTypeOK
<1>4. /\ gifts' \subseteq Jobs /\ purse' = Cardinality(gifts')
  <2>1. ASSUME UNCHANGED <<gifts, purse>> PROVE gifts' \subseteq Jobs /\ purse' = Cardinality(gifts')
    BY <1>0, <2>1 DEF PromoTypeOK, PurseCounts
  <2>2. ASSUME NEW j \in Jobs, Fund(j) PROVE gifts' \subseteq Jobs /\ purse' = Cardinality(gifts')
    <3>1. j \notin gifts
      BY <1>0, <2>2 DEF Fund, JobsInOrder, Handled, NoHandler
    <3>2. Cardinality(gifts \cup {j}) = Cardinality(gifts) + 1
      BY <1>3, <3>1, FS_AddElement
    <3> QED BY <1>0, <2>1, <2>2, <3>2 DEF Fund, PromoTypeOK, PurseCounts, node
  <2> QED BY <2>1, <2>2 DEF PromoNext, Ask, Look, PaysItself, Drive, Commit, Reveal, Reap, ReapAnswer, Restart,
                            promoVars, node
<1>5. purse' \in 0 .. Cardinality(Jobs)
  <2>1. IsFiniteSet(gifts') /\ Cardinality(gifts') <= Cardinality(Jobs)
    BY <1>4, PromoAssumption, FS_Subset
  <2> QED BY <1>3, <1>4, <2>1, FS_CardinalityType
<1>6. /\ who' \in [Jobs -> (Claimants \X Ips) \cup {None}]
      /\ flagged' \in [Jobs -> BOOLEAN]
  <2>1. who' \in [Jobs -> (Claimants \X Ips) \cup {None}]
    BY <1>0 DEF PromoTypeOK, PromoNext, Ask, Look, Fund, PaysItself, Drive, Commit, Reveal, Reap,
       ReapAnswer, Restart, promoVars
  <2>2. flagged' \in [Jobs -> BOOLEAN]
    BY <1>0 DEF PromoTypeOK, PromoNext, Ask, Look, Fund, PaysItself, Drive, Commit, Reveal, Reap,
       ReapAnswer, Restart, promoVars, files
  <2> QED BY <2>1, <2>2
<1>7. /\ claim' \in [Jobs -> {"none", "held", "confirmed"}]
      /\ state' \in [Jobs -> {"open", "committed", "done"}]
      /\ deposit' \in [Jobs -> {"empty", "paid", "spent"}]
      /\ driver' \in [Jobs -> {"none", "commit", "reveal"}]
  <2> USE <1>0 DEF PromoTypeOK
  <2>1. claim' \in [Jobs -> {"none", "held", "confirmed"}]
    BY DEF PromoNext, Ask, Look, Fund, PaysItself, Drive, Commit, Reveal, Reap, ConfirmOf,
       ReapAnswer, Restart, promoVars, slots, Release, FundingFails
  <2>2. state' \in [Jobs -> {"open", "committed", "done"}]
    BY DEF PromoNext, Ask, Look, Fund, PaysItself, Drive, Commit, Reveal, Reap,
       ReapAnswer, Restart, promoVars, files
  <2>3. deposit' \in [Jobs -> {"empty", "paid", "spent"}]
    BY DEF PromoNext, Ask, Look, Fund, PaysItself, Drive, Commit, Reveal, Reap,
       ReapAnswer, Restart, promoVars, node
  <2>4. driver' \in [Jobs -> {"none", "commit", "reveal"}]
    BY DEF PromoNext, Ask, Look, Fund, PaysItself, Drive, Commit, Reveal, Reap,
       ReapAnswer, Restart, promoVars
  <2> QED BY <2>1, <2>2, <2>3, <2>4
<1>8. handler' \in [Jobs -> Handler]
  <2>1. NoHandler \in Handler /\ [at |-> "looking"] \in Handler /\ [at |-> "funding", coin |-> purse] \in Handler
    BY <1>0 DEF Handler, PromoTypeOK
  <2> QED BY <1>0, <2>1 DEF PromoTypeOK, PromoNext, Ask, Look, Fund, PaysItself, Drive, Commit, Reveal, Reap,
             ReapAnswer, Restart, promoVars
<1>9. reaper' \in {None} \cup (Jobs \X {"open", "committed"})
  BY <1>0 DEF PromoTypeOK, PromoNext, Ask, Look, Fund, PaysItself, Drive, Commit, Reveal, Reap,
     ReapAnswer, Restart, promoVars
<1> QED BY <1>1, <1>2, <1>4, <1>5, <1>6, <1>7, <1>8, <1>9 DEF PromoTypeOK, PurseCounts

\* Every action keeps the jobs in order.
LEMMA JobsStep == PromoInv /\ [PromoNext]_promoVars => JobsInOrder'
<1> SUFFICES ASSUME PromoInv, [PromoNext]_promoVars, NEW k \in Jobs
             PROVE  Unasked(k)' /\ Handled(k)' /\ Flags(k)' /\ Deposits(k)'
  BY DEF JobsInOrder
<1>0. PromoTypeOK /\ Unasked(k) /\ Handled(k) /\ Flags(k) /\ Deposits(k)
  BY DEF PromoInv, JobsInOrder
<1> USE <1>0 DEF PromoTypeOK
<1>1. ASSUME UNCHANGED promoVars PROVE Unasked(k)' /\ Handled(k)' /\ Flags(k)' /\ Deposits(k)'
  BY <1>1 DEF promoVars, slots, files, node, Unasked, Handled, Flags, Deposits
<1>2. ASSUME Restart PROVE Unasked(k)' /\ Handled(k)' /\ Flags(k)' /\ Deposits(k)'
  BY <1>2 DEF Restart, files, node, Unasked, Handled, Flags, Deposits
<1>3. ASSUME ReapAnswer PROVE Unasked(k)' /\ Handled(k)' /\ Flags(k)' /\ Deposits(k)'
  BY <1>3 DEF ReapAnswer, Release, files, node, Unasked, Handled, Flags, Deposits
<1>4. ASSUME NEW j \in Jobs, PaysItself(j) \/ Drive(j) \/ Commit(j)
      PROVE  Unasked(k)' /\ Handled(k)' /\ Flags(k)' /\ Deposits(k)'
  BY <1>4 DEF PaysItself, Drive, Commit, files, node, Unasked, Handled, Flags, Deposits
<1>5. ASSUME NEW j \in Jobs, Reap(j) PROVE Unasked(k)' /\ Handled(k)' /\ Flags(k)' /\ Deposits(k)'
  BY <1>5 DEF Reap, files, node, Unasked, Handled, Flags, Deposits
<1>6. ASSUME NEW j \in Jobs, Reveal(j) PROVE Unasked(k)' /\ Handled(k)' /\ Flags(k)' /\ Deposits(k)'
  BY <1>6 DEF Reveal, ConfirmOf, files, node, Unasked, Handled, Flags, Deposits
<1>7. ASSUME NEW j \in Jobs, Look(j) PROVE Unasked(k)' /\ Handled(k)' /\ Flags(k)' /\ Deposits(k)'
  BY <1>7 DEF Look, FundingFails, Release, NoHandler, files, node, Unasked, Handled, Flags, Deposits
<1>8. ASSUME NEW j \in Jobs, Fund(j) PROVE Unasked(k)' /\ Handled(k)' /\ Flags(k)' /\ Deposits(k)'
  BY <1>8 DEF Fund, FundingFails, Release, NoHandler, files, node, Unasked, Handled, Flags, Deposits
<1>9. ASSUME NEW j \in Jobs, NEW w \in Claimants \X Ips, Ask(j, w)
      PROVE  Unasked(k)' /\ Handled(k)' /\ Flags(k)' /\ Deposits(k)'
  <2>1. CASE k = j
    <3>1. who'[k] # None
      BY <1>9, <2>1, PromoAssumption DEF Ask
    <3>2. k \notin gifts /\ ~flagged[k] /\ claim[k] = "none" /\ (reaper # None => reaper[1] # k)
      BY <1>9, <2>1 DEF Ask, Unasked, Flags
    <3>3. handler'[k] # NoHandler => claim'[k] = "held"
      BY <1>9, <2>1 DEF Ask, Unasked
    <3>4. reaper' = reaper /\ gifts' = gifts /\ flagged' = flagged
      BY <1>9 DEF Ask, files, node
    <3> QED BY <3>1, <3>2, <3>3, <3>4 DEF Unasked, Handled, Flags, Deposits
  <2>2. CASE k # j
    BY <1>9, <2>2 DEF Ask, files, node, Unasked, Handled, Flags, Deposits
  <2> QED BY <2>1, <2>2
<1> QED BY <1>1, <1>2, <1>3, <1>4, <1>5, <1>6, <1>7, <1>8, <1>9 DEF PromoNext

\* A slot is taken in the step that counts them; every other step leaves as many or fewer.
LEMMA SlotsStep == PromoInv /\ [PromoNext]_promoVars => SlotsWithinLimit'
<1> SUFFICES ASSUME PromoInv, [PromoNext]_promoVars PROVE SlotsWithinLimit'
  OBVIOUS
<1>0. PromoTypeOK /\ JobsInOrder /\ WithinCaps(LiveJobs) /\ LiveJobs \subseteq Jobs
  BY DEF PromoInv, SlotsWithinLimit, LiveJobs
<1>1. ASSUME who' = who, LiveJobs' \subseteq LiveJobs PROVE SlotsWithinLimit'
  <2>1. WithinCaps(LiveJobs')
    BY <1>0, <1>1, PartWithinCaps
  <2> QED BY <1>1, <2>1 DEF SlotsWithinLimit, WithinCaps
<1>2. ASSUME NEW j \in Jobs, NEW w \in Claimants \X Ips, Ask(j, w), Eligible(w) PROVE SlotsWithinLimit'
  <2> DEFINE Addr(v) == {k \in LiveJobs : who[k][1] = v[1]}
             Ip(v)   == {k \in LiveJobs : who[k][2] = v[2]}
  <2>1. j \notin LiveJobs /\ LiveJobs' = LiveJobs \cup {j}
    BY <1>0, <1>2 DEF Ask, JobsInOrder, Unasked, LiveJobs, Live, PromoTypeOK
  <2>2. who'[j] = w /\ \A k \in LiveJobs : who'[k] = who[k]
    BY <1>0, <1>2, <2>1 DEF Ask, PromoTypeOK
  <2>3. \A S \in SUBSET Jobs : /\ IsFiniteSet(S) /\ Cardinality(S) \in Nat
                               /\ Cardinality(S \cup {j}) <= Cardinality(S) + 1
    <3> SUFFICES ASSUME NEW S \in SUBSET Jobs
                 PROVE  /\ IsFiniteSet(S) /\ Cardinality(S) \in Nat
                        /\ Cardinality(S \cup {j}) <= Cardinality(S) + 1
      OBVIOUS
    <3>1. IsFiniteSet(S)
      BY PromoAssumption, FS_Subset
    <3>2. Cardinality(S) \in Nat
      BY <3>1, FS_CardinalityType
    <3>3. Cardinality(S \cup {j}) = IF j \in S THEN Cardinality(S) ELSE Cardinality(S) + 1
      BY <3>1, FS_AddElement
    <3> QED BY <3>1, <3>2, <3>3
  <2>4. Limit \in Nat /\ MaxPerAddr \in Nat /\ MaxPerIp \in Nat
    BY PromoAssumption
  <2>5. Cardinality(LiveJobs') <= Limit
    BY <1>0, <1>2, <2>1, <2>3, <2>4 DEF Eligible
  <2>6. ASSUME NEW v \in Claimants \X Ips
        PROVE  /\ Cardinality({k \in LiveJobs' : who'[k][1] = v[1]}) <= MaxPerAddr
               /\ Cardinality({k \in LiveJobs' : who'[k][2] = v[2]}) <= MaxPerIp
    <3>1. /\ {k \in LiveJobs' : who'[k][1] = v[1]} = IF v[1] = w[1] THEN Addr(v) \cup {j} ELSE Addr(v)
          /\ {k \in LiveJobs' : who'[k][2] = v[2]} = IF v[2] = w[2] THEN Ip(v) \cup {j} ELSE Ip(v)
      BY <2>1, <2>2
    <3>2. Cardinality(Addr(v)) <= MaxPerAddr /\ Cardinality(Ip(v)) <= MaxPerIp
      BY <1>0 DEF WithinCaps
    <3>3. /\ v[1] = w[1] => Cardinality(Addr(v)) < MaxPerAddr
          /\ v[2] = w[2] => Cardinality(Ip(v)) < MaxPerIp
      BY <1>2 DEF Eligible, PerAddr, PerIp
    <3>4. Addr(v) \subseteq Jobs /\ Ip(v) \subseteq Jobs
      BY <1>0
    <3> HIDE DEF Addr, Ip
    <3>5. Cardinality({k \in LiveJobs' : who'[k][1] = v[1]}) <= MaxPerAddr
      <4>1. CASE v[1] = w[1]
        BY <2>3, <2>4, <3>1, <3>3, <3>4, <4>1
      <4>2. CASE v[1] # w[1]
        BY <3>1, <3>2, <4>2
      <4> QED BY <4>1, <4>2
    <3>6. Cardinality({k \in LiveJobs' : who'[k][2] = v[2]}) <= MaxPerIp
      <4>1. CASE v[2] = w[2]
        BY <2>3, <2>4, <3>1, <3>3, <3>4, <4>1
      <4>2. CASE v[2] # w[2]
        BY <3>1, <3>2, <4>2
      <4> QED BY <4>1, <4>2
    <3> QED BY <3>5, <3>6
  <2> QED BY <2>5, <2>6 DEF SlotsWithinLimit, WithinCaps
<1>3. ASSUME NEW j \in Jobs, NEW w \in Claimants \X Ips, Ask(j, w), ~Eligible(w) PROVE SlotsWithinLimit'
  <2>1. LiveJobs' = LiveJobs /\ \A k \in LiveJobs : who'[k] = who[k]
    BY <1>0, <1>3 DEF Ask, JobsInOrder, Unasked, LiveJobs, Live, PromoTypeOK
  <2>2. \A v \in Claimants \X Ips :
          /\ {k \in LiveJobs' : who'[k][1] = v[1]} = {k \in LiveJobs : who[k][1] = v[1]}
          /\ {k \in LiveJobs' : who'[k][2] = v[2]} = {k \in LiveJobs : who[k][2] = v[2]}
    BY <2>1
  <2> QED BY <1>0, <2>1, <2>2 DEF SlotsWithinLimit, WithinCaps
<1>4. ASSUME \/ \E j \in Jobs : Look(j) \/ Fund(j) \/ PaysItself(j) \/ Drive(j) \/ Commit(j) \/ Reveal(j) \/ Reap(j)
             \/ ReapAnswer \/ Restart \/ UNCHANGED promoVars
      PROVE  who' = who /\ LiveJobs' \subseteq LiveJobs
  <2>1. who' = who
    BY <1>4 DEF Look, Fund, PaysItself, Drive, Commit, Reveal, Reap, ReapAnswer, Restart, promoVars
  <2>2. \A k \in Jobs : claim'[k] = claim[k] \/ claim'[k] = "none" \/ (claim[k] # "none" /\ claim'[k] = "confirmed")
    BY <1>0, <1>4 DEF Look, Fund, PaysItself, Drive, Commit, Reveal, ConfirmOf, Reap, ReapAnswer, Restart, promoVars,
       slots, FundingFails, Release, PromoTypeOK
  <2>3. \A k \in Jobs : claim[k] \in {"none", "held", "confirmed"}
    BY <1>0 DEF PromoTypeOK
  <2> QED BY <2>1, <2>2, <2>3 DEF LiveJobs, Live
<1> QED BY <1>1, <1>2, <1>3, <1>4 DEF PromoNext

\* A slot with a gift is given back only by a reaper that an answer or a driver has misled; a slot
\* without one goes when its handler does.
LEMMA GiftsStep == PromoInv /\ [PromoNext]_promoVars => GiftsHaveSlots' /\ NoSlotWithoutGift'
<1> SUFFICES ASSUME PromoInv, [PromoNext]_promoVars PROVE GiftsHaveSlots' /\ NoSlotWithoutGift'
  OBVIOUS
<1> SUFFICES ASSUME NEW k \in Jobs
             PROVE  /\ ~misled' /\ k \in gifts' => Live(k)'
                    /\ restarts' = 0 /\ Live(k)' => k \in gifts' \/ handler'[k] # NoHandler
  <2>1. PromoTypeOK'
    BY PromoTypeStep
  <2> QED BY <2>1 DEF GiftsHaveSlots, NoSlotWithoutGift, LiveJobs, Live, PromoTypeOK
<1>0. /\ PromoTypeOK /\ Unasked(k) /\ Handled(k) /\ Flags(k) /\ Deposits(k)
      /\ ~misled /\ k \in gifts => Live(k)
      /\ restarts = 0 /\ Live(k) => k \in gifts \/ handler[k] # NoHandler
  BY DEF PromoInv, JobsInOrder, GiftsHaveSlots, NoSlotWithoutGift, LiveJobs
<1> USE <1>0 DEF PromoTypeOK, Live
<1> DEFINE Goal == /\ ~misled' /\ k \in gifts' => Live(k)'
                   /\ restarts' = 0 /\ Live(k)' => k \in gifts' \/ handler'[k] # NoHandler
<1>1. ASSUME UNCHANGED promoVars PROVE Goal
  BY <1>1 DEF promoVars, slots, node
<1>2. ASSUME Restart PROVE Goal
  BY <1>2, PromoAssumption DEF Restart, node
<1>3. ASSUME ReapAnswer PROVE Goal
  BY <1>3 DEF ReapAnswer, Release, Unpaid, node, Flags, Deposits, Handled
<1>4. ASSUME NEW j \in Jobs, PaysItself(j) \/ Drive(j) \/ Commit(j) \/ Reap(j) PROVE Goal
  BY <1>4 DEF PaysItself, Drive, Commit, Reap, node, Well, Refused
<1>5. ASSUME NEW j \in Jobs, Reveal(j) PROVE Goal
  BY <1>5 DEF Reveal, ConfirmOf, node, Well, Refused
<1>6. ASSUME NEW j \in Jobs, Look(j) PROVE Goal
  BY <1>6 DEF Look, FundingFails, Release, NoHandler, node, Well, Refused, Handled
<1>7. ASSUME NEW j \in Jobs, Fund(j) PROVE Goal
  BY <1>7 DEF Fund, FundingFails, Release, NoHandler, node, Well, Refused, AnswerLost, Handled
<1>8. ASSUME NEW j \in Jobs, NEW w \in Claimants \X Ips, Ask(j, w) PROVE Goal
  BY <1>8 DEF Ask, NoHandler, node, Unasked
<1> QED BY <1>1, <1>2, <1>3, <1>4, <1>5, <1>6, <1>7, <1>8 DEF PromoNext

\* The campaign starts with no slot and no gift.
LEMMA PromoStart == PromoInit => PromoInv
<1> SUFFICES ASSUME PromoInit PROVE PromoInv
  OBVIOUS
<1>1. Cardinality({}) = 0 /\ Cardinality(Jobs) \in Nat /\ Limit \in Nat /\ MaxPerAddr \in Nat /\ MaxPerIp \in Nat
      /\ MaxPromoFaults \in Nat /\ MaxPromoCrashes \in Nat
  BY PromoAssumption, FS_EmptySet, FS_CardinalityType
<1>2. LiveJobs = {}
  BY DEF PromoInit, LiveJobs, Live
<1>3. PromoTypeOK
  <2>1. purse \in 0 .. Cardinality(Jobs) /\ failures \in 0 .. MaxPromoFaults /\ restarts \in 0 .. MaxPromoCrashes
    BY <1>1 DEF PromoInit
  <2> QED BY <2>1 DEF PromoInit, PromoTypeOK, Handler
<1>4. JobsInOrder
  BY DEF PromoInit, JobsInOrder, Unasked, Handled, Flags, Deposits
<1>5. SlotsWithinLimit
  <2>1. \A w : {j \in {} : who[j][1] = w[1]} = {} /\ {j \in {} : who[j][2] = w[2]} = {}
    OBVIOUS
  <2> QED BY <1>1, <1>2, <2>1 DEF SlotsWithinLimit, WithinCaps
<1>6. GiftsHaveSlots /\ PurseCounts /\ NoSlotWithoutGift
  BY <1>1, <1>2 DEF PromoInit, GiftsHaveSlots, PurseCounts, NoSlotWithoutGift
<1> QED BY <1>3, <1>4, <1>5, <1>6 DEF PromoInv

\* The inductive invariant of the campaign: slots within the limit, every gift in a slot, every slot
\* with a gift or a handler that is getting it.
THEOREM PromoInvariant == PromoSpec => []PromoInv
<1>1. PromoInv /\ [PromoNext]_promoVars => PromoInv'
  BY PromoTypeStep, JobsStep, SlotsStep, GiftsStep DEF PromoInv
<1> QED BY PromoStart, <1>1, PTL DEF PromoSpec

\* promo.js and its callers: the operator's wallet pays for no more mints than the limit and the caps
\* allow, and keeps no slot it did not pay for, whatever requests, failures and restarts come between.
THEOREM GiftsCorrect == PromoSpec => []SlotsSound
<1>1. PromoInv => SlotsSound
  <2> SUFFICES ASSUME PromoInv PROVE SlotsSound
    OBVIOUS
  <2>1. ASSUME ~misled PROVE WithinCaps(gifts)
    <3>1. gifts \subseteq LiveJobs /\ LiveJobs \subseteq Jobs /\ WithinCaps(LiveJobs)
      BY <2>1 DEF PromoInv, GiftsHaveSlots, SlotsWithinLimit, LiveJobs
    <3> QED BY <3>1, PartWithinCaps
  <2> QED BY <2>1 DEF PromoInv, SlotsSound, GiftsWithinLimit, WithinCaps
<1> QED BY <1>1, PromoInvariant, PTL

-----------------------------------------------------------------------------
(* The launchpad.                                                           *)

Files == {{}, {"manifest"}, {"manifest", "designs"}, {"manifest", "designs", "metadata"}}
Shelf == [of : Nat, images : Nat, files : Files, items : Seq(Nat)]
QuoteStates == {"open", "released", "minted", "minted late"}
Quote == [slug : Slugs, number : Nat, to : Minters, state : QuoteStates]
Agreed(d, e) == d.items = e.items /\ d.offer = e.offer /\ d.by = e.by

\* A submission is a draft until it is finalized; from then on what was finalized is never changed or dropped.
DraftsRight ==
  /\ drafts \in [DOMAIN drafts -> Draft] /\ DOMAIN drafts \subseteq 1 .. MaxSubmissions
  /\ sent \in [DOMAIN sent -> Draft] /\ DOMAIN sent \subseteq DOMAIN drafts
  /\ \A i \in DOMAIN drafts : drafts[i].status = "draft" <=> i \notin DOMAIN sent
  /\ \A i \in DOMAIN sent : Agreed(drafts[i], sent[i])
  /\ \A i \in DOMAIN drafts : Len(drafts[i].items) <= MaxItems
  /\ usage = None \/ usage \in Nat
\* The tool writes what was finalized, to the shelf of it.
ToolRight ==
  tool # None =>
    /\ tool.id \in DOMAIN sent /\ tool.slug \in DOMAIN shelves
    /\ tool.d \in Draft /\ Agreed(tool.d, sent[tool.id]) /\ shelves[tool.slug].of = tool.id
\* A shelf is of one submission, and once whole holds its items.
ShelvesRight ==
  /\ shelves \in [DOMAIN shelves -> Shelf] /\ DOMAIN shelves \subseteq Slugs /\ IsFiniteSet(DOMAIN shelves)
  /\ \A s \in DOMAIN shelves :
       /\ shelves[s].of \in DOMAIN sent
       /\ Whole(s) => shelves[s].items = sent[shelves[s].of].items
\* Unless a tool died, a submission has one shelf: the one being written, or that of an approved one.
OneShelf ==
  deaths = 0 =>
    /\ \A s, t \in DOMAIN shelves : shelves[s].of = shelves[t].of => s = t
    /\ \A s \in DOMAIN shelves :
         drafts[shelves[s].of].status = "approved" \/ (tool # None /\ tool.id = shelves[s].of)
\* What is loaded is the shelf, with the manifest of its submission.
LiveRight ==
  /\ DOMAIN live \subseteq DOMAIN shelves /\ DOMAIN live \subseteq DOMAIN taken
  /\ \A s \in DOMAIN live :
       /\ live[s].of = shelves[s].of /\ live[s].items = sent[shelves[s].of].items
       /\ live[s].offer = sent[shelves[s].of].offer /\ live[s].pays = sent[shelves[s].of].by
SalesTyped ==
  /\ taken = [s \in DOMAIN taken |-> taken[s]] /\ DOMAIN taken \subseteq DOMAIN shelves
  /\ \A s \in DOMAIN taken : IsFiniteSet(DOMAIN taken[s])
  /\ quotes \in Seq(Quote) /\ Len(quotes) <= MaxQuotes
  /\ \A q \in DOMAIN quotes : quotes[q].slug \in DOMAIN taken
\* Until somebody pays late, an open quote has its number, and an address no more than the limit.
NoneLate == \A q \in DOMAIN quotes : quotes[q].state # "minted late"
Reserved(q) ==
  LET t == taken[quotes[q].slug]  n == quotes[q].number
  IN n \in DOMAIN t /\ t[n].job = q /\ t[n].to = quotes[q].to
Most(s) == sent[shelves[s].of].offer.perWallet
Within(s, to) == Most(s) > 0 => Cardinality(HeldBy(s, to)) <= Most(s)
Limited ==
  NoneLate =>
    /\ \A q \in DOMAIN quotes : quotes[q].state = "open" => Reserved(q)
    /\ \A s \in DOMAIN taken, to \in Minters : Within(s, to)
Counts == today \in 0 .. MaxDays /\ deaths \in 0 .. MaxDeaths
LaunchpadInv ==
  /\ DraftsRight /\ ToolRight /\ ShelvesRight /\ OneShelf /\ LiveRight
  /\ SalesTyped /\ Limited /\ Counts

\* What is on the disk adds up to a number.
LEMMA DiskNumber ==
  ASSUME DraftsRight, ShelvesRight
  PROVE  OnDisk(drafts, shelves) \in Nat /\ Counted \in Nat
<1> DEFINE wd == [i \in DOMAIN drafts |-> IF drafts[i].wiped THEN 0 ELSE Images(drafts[i])]
           ws == [s \in DOMAIN shelves |-> shelves[s].images]
           LeftD(h, s) == IF s = {} THEN 0
                          ELSE (IF drafts[Chosen(s)].wiped THEN 0 ELSE Images(drafts[Chosen(s)])) + h[s \ {Chosen(s)}]
           LeftS(h, s) == IF s = {} THEN 0 ELSE shelves[Chosen(s)].images + h[s \ {Chosen(s)}]
           ld == CHOOSE h : h = [s \in SUBSET DOMAIN drafts |-> LeftD(h, s)]
           ls == CHOOSE h : h = [s \in SUBSET DOMAIN shelves |-> LeftS(h, s)]
<1>0. IsFiniteSet(DOMAIN shelves)
  BY DEF ShelvesRight
<1>1. OnDisk(drafts, shelves) = ld[DOMAIN drafts] + ls[DOMAIN shelves]
  BY DEF OnDisk, MapThenSumSet, MapThenFoldSet, Chosen
<1>2. IsFiniteSet(DOMAIN drafts)
  <2>1. IsFiniteSet(1 .. MaxSubmissions)
    BY LaunchpadAssumption, FS_Interval
  <2> QED BY <2>1, FS_Subset DEF DraftsRight
<1>3. \A i \in DOMAIN drafts : wd[i] \in Nat
  <2> SUFFICES ASSUME NEW i \in DOMAIN drafts PROVE wd[i] \in Nat
    OBVIOUS
  <2>1. drafts[i].items \in Seq(Nat) /\ drafts[i].brand \in 0 .. 1
    BY DEF DraftsRight, Draft
  <2>2. Images(drafts[i]) \in Nat
    BY <2>1 DEF Images
  <2> QED BY <2>2
<1>4. \A s \in DOMAIN shelves : ws[s] \in Nat
  BY DEF ShelvesRight, Shelf
<1>5. \A T : \A s \in SUBSET T : s # {} => Chosen(s) \in T
  BY DEF Chosen
<1>6. \A h : (h = [s \in SUBSET DOMAIN drafts |-> LeftD(h, s)]) <=> Fixed(h, wd, DOMAIN drafts)
  <2> SUFFICES ASSUME NEW h
               PROVE  (h = [s \in SUBSET DOMAIN drafts |-> LeftD(h, s)]) <=> Fixed(h, wd, DOMAIN drafts)
    OBVIOUS
  <2>1. \A s \in SUBSET DOMAIN drafts :
          LeftD(h, s) = IF s = {} THEN 0 ELSE wd[Chosen(s)] + h[s \ {Chosen(s)}]
    BY <1>5
  <2> HIDE DEF LeftD, wd
  <2> QED BY <2>1 DEF Fixed
<1>7. \A h : (h = [s \in SUBSET DOMAIN shelves |-> LeftS(h, s)]) <=> Fixed(h, ws, DOMAIN shelves)
  <2> SUFFICES ASSUME NEW h
               PROVE  (h = [s \in SUBSET DOMAIN shelves |-> LeftS(h, s)]) <=> Fixed(h, ws, DOMAIN shelves)
    OBVIOUS
  <2>1. \A s \in SUBSET DOMAIN shelves :
          LeftS(h, s) = IF s = {} THEN 0 ELSE ws[Chosen(s)] + h[s \ {Chosen(s)}]
    BY <1>5
  <2> HIDE DEF LeftS, ws
  <2> QED BY <2>1 DEF Fixed
<1> HIDE DEF wd, ws
<1>8. ld[DOMAIN drafts] \in Nat
  <2>1. \E h : Fixed(h, wd, DOMAIN drafts)
    BY <1>2, <1>3, SumFixed
  <2>2. \E h : h = [s \in SUBSET DOMAIN drafts |-> LeftD(h, s)]
    <3> HIDE DEF LeftD
    <3> QED BY <1>6, <2>1
  <2>3. ld = [s \in SUBSET DOMAIN drafts |-> LeftD(ld, s)]
    <3> HIDE DEF LeftD
    <3> QED BY <2>2
  <2> HIDE DEF ld, LeftD
  <2>4. Fixed(ld, wd, DOMAIN drafts)
    BY <1>6, <2>3
  <2> QED BY <1>2, <1>3, <2>4, SumFixed
<1>9. ls[DOMAIN shelves] \in Nat
  <2>1. \E h : Fixed(h, ws, DOMAIN shelves)
    BY <1>0, <1>4, SumFixed
  <2>2. \E h : h = [s \in SUBSET DOMAIN shelves |-> LeftS(h, s)]
    <3> HIDE DEF LeftS
    <3> QED BY <1>7, <2>1
  <2>3. ls = [s \in SUBSET DOMAIN shelves |-> LeftS(ls, s)]
    <3> HIDE DEF LeftS
    <3> QED BY <2>2
  <2> HIDE DEF ls, LeftS
  <2>4. Fixed(ls, ws, DOMAIN shelves)
    BY <1>7, <2>3
  <2> QED BY <1>0, <1>4, <2>4, SumFixed
<1> HIDE DEF ld, ls
<1> QED BY <1>1, <1>8, <1>9 DEF Counted, DraftsRight

\* The lesser and the greater of two numbers.
LEMMA LeastOfTwo ==
  ASSUME NEW a \in Int, NEW b \in Int
  PROVE  /\ Min({a, b}) \in {a, b} /\ Min({a, b}) <= a /\ Min({a, b}) <= b
         /\ Max({a, b}) \in {a, b} /\ Max({a, b}) >= a /\ Max({a, b}) >= b
<1>1. \E x \in {a, b} : \A y \in {a, b} : x <= y
  BY Zenon, SMT
<1>2. \E x \in {a, b} : \A y \in {a, b} : x >= y
  OBVIOUS
<1> QED BY <1>1, <1>2 DEF Min, Max

\* The smallest of some numbers is one of them.
LEMMA MinIsOne ==
  ASSUME NEW T \in SUBSET Nat, T # {}
  PROVE  Min(T) \in T
<1>1. \E n \in T : \A m \in T : n <= m
  BY Least
<1> QED BY <1>1 DEF Min

\* What a request of a creator does: to drafts that are not finalized, and to the count of images.
Drafts ==
  /\ UNCHANGED <<shelves, live, tool, quotes, taken, today, deaths, sent>>
  /\ drafts' \in [DOMAIN drafts' -> Draft] /\ DOMAIN drafts' \subseteq 1 .. MaxSubmissions
  /\ \A i \in DOMAIN sent : i \in DOMAIN drafts' /\ drafts'[i] = drafts[i]
  /\ \A i \in DOMAIN drafts' : i \notin DOMAIN sent => drafts'[i].status = "draft"
  /\ \A i \in DOMAIN drafts' : Len(drafts'[i].items) <= MaxItems
  /\ usage' = None \/ usage' \in Nat
\* What the creators' requests do to the folders.
LEMMA DraftKinds ==
  ASSUME LaunchpadInv,
         \/ \E c \in Creators, o \in Offers : CreateDraft(c, o)
         \/ \E i \in Submissions, n \in 1 .. 2 : AddItems(i, [k \in 1 .. n |-> Len(drafts[i].items) + k])
         \/ \E i \in Submissions : SetBrandImage(i)
  PROVE  Drafts
<1>0. /\ DraftsRight /\ drafts \in [DOMAIN drafts -> Draft] /\ DOMAIN drafts \subseteq 1 .. MaxSubmissions
      /\ DOMAIN sent \subseteq DOMAIN drafts /\ Counted \in Nat /\ MaxSubmissions \in Nat
      /\ \A i \in DOMAIN drafts : drafts[i].status = "draft" <=> i \notin DOMAIN sent
      /\ \A i \in DOMAIN sent : drafts[i].status # "draft"
      /\ \A i \in DOMAIN drafts : Len(drafts[i].items) <= MaxItems
      /\ Submissions = DOMAIN drafts /\ (usage = None \/ usage \in Nat)
  BY DiskNumber, LaunchpadAssumption DEF LaunchpadInv, DraftsRight, Submissions
<1>1. ASSUME NEW c \in Creators, NEW o \in Offers, CreateDraft(c, o) PROVE Drafts
  <2> DEFINE gone == Abandoned \cup (IF QueueFull THEN {} ELSE Empty(c))
             unused == (1 .. MaxSubmissions) \ (DOMAIN sent \cup (Submissions \ gone))
             id == Min(unused)
             new == [status |-> "draft", by |-> c, offer |-> o, items |-> <<>>, brand |-> 0,
                     made |-> today, finalized |-> None, wiped |-> FALSE]
  <2>1. gone \subseteq DOMAIN drafts /\ \A i \in gone : i \notin DOMAIN sent
    BY <1>0 DEF Abandoned, Empty, Of
  <2>2. id \in unused /\ id \in 1 .. MaxSubmissions /\ id \notin DOMAIN sent
    <3>1. unused # {}
      BY <1>1 DEF CreateDraft
    <3>2. unused \in SUBSET Nat
      BY <1>0
    <3> HIDE DEF unused
    <3>3. id \in unused
      BY <3>1, <3>2, MinIsOne
    <3> QED BY <3>3 DEF unused
  <2>3. new \in Draft
    <3>1. today \in Nat
      BY LaunchpadAssumption DEF LaunchpadInv, Counts
    <3>2. <<>> \in Seq(Nat) /\ 0 \in 0 .. 1
      OBVIOUS
    <3> QED BY <3>1, <3>2 DEF Draft
  <2>4. UNCHANGED <<shelves, live, tool, quotes, taken, today, deaths, sent>>
    BY <1>1 DEF CreateDraft
  <2>5. usage' = None \/ usage' \in Nat
    BY <1>0, <1>1 DEF CreateDraft
  <2>6. drafts' \in {[i \in DOMAIN drafts \ gone |-> drafts[i]],
                     [i \in (DOMAIN drafts \ gone) \cup {id} |-> IF i # id THEN drafts[i] ELSE new]}
    BY <1>0, <1>1 DEF CreateDraft, Without
  <2> HIDE DEF gone, unused, id, new
  <2>7. CASE drafts' = [i \in DOMAIN drafts \ gone |-> drafts[i]]
    BY <1>0, <2>1, <2>4, <2>5, <2>7 DEF Drafts
  <2>8. CASE drafts' = [i \in (DOMAIN drafts \ gone) \cup {id} |-> IF i # id THEN drafts[i] ELSE new]
    <3>1. new.status = "draft" /\ Len(new.items) <= MaxItems
      BY LaunchpadAssumption DEF new
    <3> QED BY <1>0, <2>1, <2>2, <2>3, <2>4, <2>5, <2>8, <3>1 DEF Drafts
  <2> QED BY <2>6, <2>7, <2>8
<1>2. ASSUME NEW i \in Submissions, NEW d \in Draft, d.status = "draft", Len(d.items) <= MaxItems, Unfinished(i),
             drafts' = [drafts EXCEPT ![i] = d], usage' \in Nat,
             UNCHANGED <<shelves, live, tool, quotes, taken, today, deaths, sent>>
      PROVE  Drafts
  <2>1. i \in DOMAIN drafts /\ i \notin DOMAIN sent
    BY <1>0, <1>2 DEF Unfinished
  <2>2. DOMAIN drafts' = DOMAIN drafts /\ drafts' \in [DOMAIN drafts -> Draft] /\ drafts'[i] = d
        /\ \A k \in DOMAIN drafts \ {i} : drafts'[k] = drafts[k]
    BY <1>0, <1>2, <2>1
  <2> QED BY <1>0, <1>2, <2>1, <2>2 DEF Drafts
<1>3. ASSUME NEW i \in Submissions, NEW n \in 1 .. 2,
             AddItems(i, [k \in 1 .. n |-> Len(drafts[i].items) + k])
      PROVE  Drafts
  <2> DEFINE pictures == [k \in 1 .. n |-> Len(drafts[i].items) + k]
             added == Min({Len(pictures), RoomFor(i)})
             items == drafts[i].items \o SubSeq(pictures, 1, added)
             d == [drafts[i] EXCEPT !.items = items]
  <2>0. drafts[i] \in Draft /\ drafts[i].items \in Seq(Nat)
    BY <1>0 DEF Draft
  <2>1. pictures \in Seq(Nat) /\ Len(pictures) = n
    BY <2>0
  <2>2. RoomFor(i) \in Int /\ RoomFor(i) <= MaxItems - Len(drafts[i].items)
    <3>1. MaxItems \in Nat /\ Budget \in Nat
      BY LaunchpadAssumption
    <3>2. Budget - Counted \in Int /\ MaxItems - Len(drafts[i].items) \in Int
      BY <1>0, <2>0, <3>1
    <3> DEFINE left == Budget - Counted
               places == MaxItems - Len(drafts[i].items)
               room == Max({left, 0})
               both == Min({places, room})
    <3>3. left \in Int /\ places \in Int
      BY <3>2
    <3>4. RoomFor(i) = both
      BY DEF RoomFor
    <3> HIDE DEF left, places
    <3>5. room \in {left, 0}
      BY <3>3, LeastOfTwo
    <3>6. room \in Int
      BY <3>3, <3>5
    <3> HIDE DEF room
    <3>7. both \in {places, room}
      BY <3>3, <3>6, LeastOfTwo
    <3>8. both <= places
      BY <3>3, <3>6, LeastOfTwo
    <3>9. RoomFor(i) \in Int /\ RoomFor(i) <= places
      BY <3>3, <3>4, <3>6, <3>7, <3>8
    <3> QED BY <3>9 DEF places
  <2>3. added \in 1 .. n /\ added <= RoomFor(i)
    <3>1. added > 0
      BY <1>3 DEF AddItems
    <3> DEFINE m == Len(pictures)
               room == RoomFor(i)
    <3>2. m \in Int /\ room \in Int /\ m = n /\ added = Min({m, room})
      BY <2>1, <2>2
    <3> HIDE DEF pictures, m, room, added
    <3>3. added \in {m, room} /\ added <= m /\ added <= room
      BY <3>2, LeastOfTwo
    <3>4. added \in 1 .. n
      BY <3>1, <3>2, <3>3
    <3> QED BY <3>3, <3>4 DEF room
  <2>4. drafts' = [drafts EXCEPT ![i] = d] /\ usage' = Counted + added /\ Unfinished(i)
        /\ UNCHANGED <<shelves, live, tool, quotes, taken, today, deaths, sent>>
    BY <1>0, <1>3 DEF AddItems
  <2> HIDE DEF added, pictures
  <2>5. items \in Seq(Nat) /\ Len(items) <= MaxItems
    <3>1. SubSeq(pictures, 1, added) \in Seq(Nat) /\ Len(SubSeq(pictures, 1, added)) = added
      BY <2>1, <2>3
    <3>2. items \in Seq(Nat) /\ Len(items) = Len(drafts[i].items) + added
      BY <2>0, <3>1
    <3>3. Len(drafts[i].items) \in Nat /\ MaxItems \in Nat
      BY <2>0, LaunchpadAssumption
    <3> HIDE DEF items
    <3> QED BY <2>2, <2>3, <3>2, <3>3
  <2> HIDE DEF items
  <2>6. d \in Draft /\ d.status = "draft" /\ Len(d.items) <= MaxItems
    BY <2>0, <2>4, <2>5 DEF Draft, Unfinished
  <2>7. usage' \in Nat
    BY <1>0, <2>3, <2>4
  <2> HIDE DEF d
  <2> QED BY <1>2, <2>4, <2>6, <2>7
<1>4. ASSUME NEW i \in Submissions, SetBrandImage(i) PROVE Drafts
  <2> DEFINE d == [drafts[i] EXCEPT !.brand = 1]
  <2>1. drafts[i] \in Draft
    BY <1>0
  <2>2. drafts' = [drafts EXCEPT ![i] = d] /\ usage' = Counted + 1 /\ Unfinished(i)
        /\ UNCHANGED <<shelves, live, tool, quotes, taken, today, deaths, sent>>
    BY <1>0, <1>4 DEF SetBrandImage
  <2>3. d \in Draft /\ d.status = "draft" /\ d.items = drafts[i].items
    BY <2>1, <2>2 DEF Draft, Unfinished
  <2>5. Len(d.items) <= MaxItems
    BY <1>0, <2>3
  <2>4. usage' \in Nat
    BY <1>0, <2>2
  <2> HIDE DEF d
  <2> QED BY <1>2, <2>2, <2>3, <2>4, <2>5
<1> QED BY <1>1, <1>3, <1>4

\* How many files the tool has written, in their order.
LEMMA FilesCount ==
  /\ Cardinality({}) = 0 /\ Cardinality({"manifest"}) = 1 /\ Cardinality({"manifest", "designs"}) = 2
  /\ Cardinality({"manifest", "designs", "metadata"}) = 3
<1>1. Cardinality({}) = 0 /\ IsFiniteSet({})
  BY FS_EmptySet
<1>2. Cardinality({"manifest"}) = 1 /\ IsFiniteSet({"manifest"})
  BY FS_Singleton
<1>3. /\ IsFiniteSet({"manifest"} \cup {"designs"})
      /\ Cardinality({"manifest"} \cup {"designs"}) = 2
  BY <1>2, FS_AddElement
<1>4. Cardinality({"manifest", "designs"} \cup {"metadata"}) = 3
  <2>1. {"manifest"} \cup {"designs"} = {"manifest", "designs"}
    OBVIOUS
  <2> QED BY <1>3, <2>1, FS_AddElement
<1>5. /\ {"manifest"} \cup {"designs"} = {"manifest", "designs"}
      /\ {"manifest", "designs"} \cup {"metadata"} = {"manifest", "designs", "metadata"}
  OBVIOUS
<1> QED BY <1>1, <1>2, <1>3, <1>4, <1>5

\* Submissions: what a step does to those that are finalized.
LEMMA DraftsStep == LaunchpadInv /\ [LaunchpadNext]_launchpadVars => DraftsRight'
<1> SUFFICES ASSUME LaunchpadInv, [LaunchpadNext]_launchpadVars PROVE DraftsRight'
  OBVIOUS
<1>0. /\ DraftsRight /\ drafts \in [DOMAIN drafts -> Draft] /\ DOMAIN drafts \subseteq 1 .. MaxSubmissions
      /\ sent \in [DOMAIN sent -> Draft] /\ DOMAIN sent \subseteq DOMAIN drafts
      /\ \A i \in DOMAIN drafts : drafts[i].status = "draft" <=> i \notin DOMAIN sent
      /\ \A i \in DOMAIN sent : Agreed(drafts[i], sent[i])
      /\ \A i \in DOMAIN drafts : Len(drafts[i].items) <= MaxItems
      /\ (usage = None \/ usage \in Nat) /\ Submissions = DOMAIN drafts /\ today \in Nat
  BY LaunchpadAssumption DEF LaunchpadInv, DraftsRight, Submissions, Counts
<1>1. CASE Drafts
  BY <1>0, <1>1 DEF Drafts, DraftsRight
<1>2. ASSUME NEW i \in DOMAIN sent, NEW d \in Draft, d.status # "draft", Agreed(d, sent[i]),
             drafts' = [drafts EXCEPT ![i] = d], UNCHANGED <<sent, usage>>
      PROVE  DraftsRight'
  <2>1. DOMAIN drafts' = DOMAIN drafts /\ drafts' \in [DOMAIN drafts -> Draft] /\ drafts'[i] = d
        /\ \A k \in DOMAIN drafts \ {i} : drafts'[k] = drafts[k]
    BY <1>0, <1>2
  <2>2. Len(d.items) <= MaxItems
    <3>1. d.items = drafts[i].items
      BY <1>0, <1>2 DEF Agreed
    <3> QED BY <1>0, <3>1
  <2> QED BY <1>0, <1>2, <2>1, <2>2 DEF DraftsRight
<1>3. ASSUME NEW i \in Submissions, Finalize(i) PROVE DraftsRight'
  <2> DEFINE d == [drafts[i] EXCEPT !.status = "pending", !.finalized = today]
  <2>1. d \in Draft /\ d.status = "pending" /\ d.items = drafts[i].items
        /\ drafts[i].status = "draft" /\ usage' = usage
        /\ drafts' = [drafts EXCEPT ![i] = d]
    BY <1>0, <1>3 DEF Finalize, Draft
  <2> HIDE DEF d
  <2>2. DOMAIN drafts' = DOMAIN drafts /\ drafts' \in [DOMAIN drafts -> Draft] /\ drafts'[i] = d
        /\ \A k \in DOMAIN drafts \ {i} : drafts'[k] = drafts[k]
    BY <1>0, <2>1
  <2>3. sent' = [k \in DOMAIN sent \cup {i} |-> IF k = i THEN d ELSE sent[k]]
    BY <1>3, <2>2 DEF Finalize
  <2>4. sent' \in [DOMAIN sent' -> Draft] /\ DOMAIN sent' = DOMAIN sent \cup {i} /\ sent'[i] = d
        /\ \A k \in DOMAIN sent : k # i => sent'[k] = sent[k]
    BY <1>0, <2>1, <2>3
  <2>5. \A k \in DOMAIN sent' : Agreed(drafts'[k], sent'[k])
    BY <1>0, <2>2, <2>4 DEF Agreed
  <2>6. \A k \in DOMAIN drafts' : Len(drafts'[k].items) <= MaxItems
    BY <1>0, <2>1, <2>2
  <2> QED BY <1>0, <2>1, <2>2, <2>4, <2>5, <2>6 DEF DraftsRight
<1>4. ASSUME NEW i \in Submissions, Reject(i) PROVE DraftsRight'
  <2> DEFINE d == [drafts[i] EXCEPT !.status = "rejected", !.wiped = TRUE]
  <2>1. d \in Draft /\ d.status # "draft" /\ i \in DOMAIN sent /\ Agreed(d, sent[i])
    BY <1>0, <1>4 DEF Reject, Of, Draft, Agreed
  <2>2. drafts' = [drafts EXCEPT ![i] = d] /\ UNCHANGED <<sent, usage>>
    BY <1>0, <1>4 DEF Reject
  <2> HIDE DEF d
  <2> QED BY <1>2, <2>1, <2>2
<1>5. CASE ApproveEnds
  <2> DEFINE i == tool.id
             d == [tool.d EXCEPT !.status = "approved"]
  <2>1. i \in DOMAIN sent /\ tool.d \in Draft /\ Agreed(tool.d, sent[i])
    BY <1>5 DEF ApproveEnds, LaunchpadInv, ToolRight
  <2>2. d \in Draft /\ d.status # "draft" /\ Agreed(d, sent[i])
    BY <2>1 DEF Draft, Agreed
  <2>3. drafts' = [drafts EXCEPT ![i] = d] /\ UNCHANGED <<sent, usage>>
    BY <1>5 DEF ApproveEnds
  <2> HIDE DEF i, d
  <2> QED BY <1>2, <2>1, <2>2, <2>3
<1>6. ASSUME UNCHANGED <<drafts, sent>>, usage' \in {usage, None} PROVE DraftsRight'
  BY <1>0, <1>6 DEF DraftsRight
<1>7. CASE \/ \E i \in Submissions, s \in Slugs : ApproveBegins(i, s)
           \/ ApproveWrites \/ ToolDies \/ ServerRestarts \/ SaleNext \/ Refresh \/ DayPasses
           \/ UNCHANGED launchpadVars
  BY <1>6, <1>7 DEF ApproveBegins, ApproveWrites, ToolDies, ServerRestarts, SaleNext, Mint, ReapQuote,
                    Deliver, Refresh, DayPasses, launchpadVars
<1>8. CASE \/ \E c \in Creators, o \in Offers : CreateDraft(c, o)
           \/ \E i \in Submissions, n \in 1 .. 2 : AddItems(i, [k \in 1 .. n |-> Len(drafts[i].items) + k])
           \/ \E i \in Submissions : SetBrandImage(i)
  BY <1>1, <1>8, DraftKinds
<1> QED BY <1>3, <1>4, <1>5, <1>7, <1>8 DEF LaunchpadNext, Curation

\* What was finalized stays as it was, whoever acts.
LEMMA SentStays ==
  ASSUME LaunchpadInv, [LaunchpadNext]_launchpadVars
  PROVE  \A i \in DOMAIN sent : i \in DOMAIN sent' /\ sent'[i] = sent[i]
<1>0. /\ Submissions = DOMAIN drafts
      /\ \A i \in DOMAIN drafts : drafts[i].status = "draft" <=> i \notin DOMAIN sent
  BY DEF LaunchpadInv, DraftsRight, Submissions
<1>1. ASSUME NEW i \in Submissions, Finalize(i)
      PROVE  \A k \in DOMAIN sent : k \in DOMAIN sent' /\ sent'[k] = sent[k]
  BY <1>0, <1>1 DEF Finalize
<1>2. (\E i \in Submissions : Finalize(i)) \/ sent' = sent
  BY DEF LaunchpadNext, Curation, CreateDraft, AddItems, SetBrandImage, Reject, ApproveBegins, ApproveWrites,
         ApproveEnds, ToolDies, ServerRestarts, SaleNext, Mint, ReapQuote, Deliver, Refresh, DayPasses,
         launchpadVars
<1> QED BY <1>1, <1>2

\* Shelves: what the tool writes is what was finalized, and a shelf stays that of its submission.
LEMMA ShelvesStep ==
  ASSUME LaunchpadInv, [LaunchpadNext]_launchpadVars
  PROVE  /\ ShelvesRight'
         /\ \A s \in DOMAIN shelves : s \in DOMAIN shelves' /\ shelves'[s].of = shelves[s].of
<1> DEFINE Stay == \A s \in DOMAIN shelves : s \in DOMAIN shelves' /\ shelves'[s].of = shelves[s].of
<1> SUFFICES ShelvesRight' /\ Stay
  OBVIOUS
<1>0. /\ shelves \in [DOMAIN shelves -> Shelf] /\ DOMAIN shelves \subseteq Slugs /\ IsFiniteSet(DOMAIN shelves)
      /\ \A s \in DOMAIN shelves :
           /\ shelves[s].of \in DOMAIN sent
           /\ Whole(s) => shelves[s].items = sent[shelves[s].of].items
      /\ DOMAIN sent \subseteq DOMAIN drafts /\ DOMAIN drafts \subseteq 1 .. MaxSubmissions /\ MaxSubmissions \in Nat
      /\ \A i \in DOMAIN sent : i \in DOMAIN sent' /\ sent'[i] = sent[i]
      /\ Submissions = DOMAIN drafts
      /\ \A i \in DOMAIN drafts : drafts[i].status = "draft" <=> i \notin DOMAIN sent
  BY SentStays, LaunchpadAssumption DEF LaunchpadInv, ShelvesRight, DraftsRight, Submissions
<1>1. CASE UNCHANGED shelves
  BY <1>0, <1>1 DEF ShelvesRight, Whole
<1>2. ASSUME NEW i \in Submissions, NEW s \in Slugs, ApproveBegins(i, s) PROVE ShelvesRight' /\ Stay
  <2> DEFINE new == [of |-> i, images |-> 0, files |-> {}, items |-> <<>>]
  <2>1. i \in DOMAIN sent /\ i \in Nat /\ s \notin DOMAIN shelves
        /\ shelves' = [k \in DOMAIN shelves \cup {s} |-> IF k = s THEN new ELSE shelves[k]]
    <3>1. drafts[i].status = "pending" /\ i \in DOMAIN drafts
      BY <1>2 DEF ApproveBegins, Of, Submissions
    <3>2. i \in DOMAIN sent /\ i \in Nat
      BY <1>0, <3>1
    <3> QED BY <1>2, <3>2 DEF ApproveBegins
  <2>2. new \in Shelf /\ new.of = i /\ new.files = {}
    <3>1. <<>> \in Seq(Nat)
      OBVIOUS
    <3> QED BY <2>1, <3>1 DEF Shelf, Files
  <2> HIDE DEF new
  <2>3. DOMAIN shelves' = DOMAIN shelves \cup {s} /\ shelves' \in [DOMAIN shelves' -> Shelf] /\ shelves'[s] = new
        /\ \A k \in DOMAIN shelves : shelves'[k] = shelves[k]
    BY <1>0, <2>1, <2>2
  <2>4. IsFiniteSet(DOMAIN shelves')
    BY <1>0, <2>3, FS_AddElement
  <2>5. new.files # {"manifest", "designs", "metadata"}
    BY <2>2
  <2>6. \A k \in DOMAIN shelves' :
          /\ shelves'[k].of \in DOMAIN sent'
          /\ shelves'[k].files = {"manifest", "designs", "metadata"}
               => shelves'[k].items = sent'[shelves'[k].of].items
    <3> SUFFICES ASSUME NEW k \in DOMAIN shelves'
                 PROVE  /\ shelves'[k].of \in DOMAIN sent'
                        /\ shelves'[k].files = {"manifest", "designs", "metadata"}
                             => shelves'[k].items = sent'[shelves'[k].of].items
      OBVIOUS
    <3>1. CASE k = s
      BY <1>0, <2>1, <2>2, <2>3, <2>5, <3>1
    <3>2. CASE k \in DOMAIN shelves
      <4>1. shelves'[k] = shelves[k]
        BY <2>3, <3>2
      <4> QED BY <1>0, <3>2, <4>1 DEF Whole
    <3> QED BY <2>3, <3>1, <3>2
  <2>7. ShelvesRight'
    BY <1>0, <1>2, <2>3, <2>4, <2>6 DEF ShelvesRight, Whole
  <2> QED BY <2>3, <2>7
<1>3. CASE ApproveWrites
  <2> DEFINE s == tool.slug
             shelf == shelves[s]
             folders == shelf.files \cup {Order[Cardinality(shelf.files) + 1]}
             pictured == [shelf EXCEPT !.images = Images(tool.d)]
             written == [shelf EXCEPT !.files = folders, !.items = IF Cardinality(shelf.files) = 2 THEN tool.d.items ELSE @]
  <2>1. /\ tool # None /\ s \in DOMAIN shelves /\ tool.d \in Draft /\ tool.id \in DOMAIN sent
        /\ tool.d.items = sent[shelf.of].items /\ shelf \in Shelf
    BY <1>0, <1>3 DEF ApproveWrites, LaunchpadInv, ToolRight, Agreed
  <2>2. shelves' = [shelves EXCEPT ![s] = IF shelf.images = 0 THEN pictured ELSE written]
        /\ Cardinality(shelf.files) < 3
    BY <1>3 DEF ApproveWrites, Order
  <2>3. pictured \in Shelf /\ pictured.files = shelf.files /\ pictured.items = shelf.items /\ pictured.of = shelf.of
    <3>1. tool.d.items \in Seq(Nat) /\ tool.d.brand \in 0 .. 1
      BY <2>1 DEF Draft
    <3>2. Images(tool.d) \in Nat
      BY <3>1 DEF Images
    <3> QED BY <2>1, <3>2 DEF Shelf
  <2>4. /\ shelf.files \in {{}, {"manifest"}, {"manifest", "designs"}}
        /\ folders \in Files /\ (folders = {"manifest", "designs", "metadata"} => Cardinality(shelf.files) = 2)
    <3>0. shelf.files \in Files
      BY <2>1 DEF Shelf
    <3>1. CASE shelf.files = {}
      <4>1. folders = {"manifest"}
        BY <3>1, FilesCount DEF Order
      <4> QED BY <3>1, <4>1 DEF Files
    <3>2. CASE shelf.files = {"manifest"}
      <4>1. folders = {"manifest", "designs"}
        BY <3>2, FilesCount DEF Order
      <4> QED BY <3>2, <4>1 DEF Files
    <3>3. CASE shelf.files = {"manifest", "designs"}
      <4>1. folders = {"manifest", "designs", "metadata"}
        BY <3>3, FilesCount DEF Order
      <4> QED BY <3>3, <4>1, FilesCount DEF Files
    <3>4. shelf.files # {"manifest", "designs", "metadata"}
      <4> SUFFICES ASSUME shelf.files = {"manifest", "designs", "metadata"} PROVE FALSE
        OBVIOUS
      <4> DEFINE n == Cardinality(shelf.files)
      <4>1. n < 3
        BY <2>2
      <4>2. n = 3
        BY FilesCount, Zenon
      <4> HIDE DEF n
      <4> QED BY <4>1, <4>2
    <3> QED BY <3>0, <3>1, <3>2, <3>3, <3>4 DEF Files
  <2>5. written \in Shelf /\ written.files = folders /\ written.of = shelf.of
        /\ (Cardinality(shelf.files) = 2 => written.items = tool.d.items)
    <3>1. tool.d.items \in Seq(Nat)
      BY <2>1 DEF Draft
    <3> HIDE DEF folders, shelf
    <3> QED BY <2>1, <2>4, <3>1 DEF Shelf
  <2>6. PICK next \in {pictured, written} : shelves' = [shelves EXCEPT ![s] = next]
    BY <2>2
  <2>7. next \in Shelf /\ next.of = shelf.of
        /\ (next.files = {"manifest", "designs", "metadata"} => next.items = sent[shelf.of].items)
    <3>1. CASE next = pictured
      <4>1. shelf.files # {"manifest", "designs", "metadata"}
        BY <2>4
      <4> HIDE DEF pictured, written, shelf
      <4> QED BY <2>3, <3>1, <4>1
    <3>2. CASE next = written
      <4> HIDE DEF pictured, written, shelf, folders
      <4> QED BY <2>1, <2>4, <2>5, <3>2
    <3> QED BY <2>6, <3>1, <3>2
  <2> HIDE DEF s, pictured, written, folders
  <2>8. DOMAIN shelves' = DOMAIN shelves /\ shelves' \in [DOMAIN shelves -> Shelf] /\ shelves'[s] = next
        /\ \A k \in DOMAIN shelves \ {s} : shelves'[k] = shelves[k]
    BY <1>0, <2>1, <2>6, <2>7
  <2> QED BY <1>0, <2>1, <2>7, <2>8 DEF ShelvesRight, Whole
<1>4. \/ UNCHANGED shelves \/ ApproveWrites
      \/ \E i \in Submissions, s \in Slugs : ApproveBegins(i, s)
  BY DEF LaunchpadNext, Curation, CreateDraft, AddItems, SetBrandImage, Finalize, Reject,
         ApproveEnds, ToolDies, ServerRestarts, SaleNext, Mint, ReapQuote, Deliver, Refresh, DayPasses,
         launchpadVars
<1> QED BY <1>1, <1>2, <1>3, <1>4

\* The tool: it works on a copy of what was finalized.
LEMMA ToolStep == LaunchpadInv /\ [LaunchpadNext]_launchpadVars => ToolRight'
<1> SUFFICES ASSUME LaunchpadInv, [LaunchpadNext]_launchpadVars PROVE ToolRight'
  OBVIOUS
<1>0. /\ \A i \in DOMAIN sent : i \in DOMAIN sent' /\ sent'[i] = sent[i]
      /\ \A s \in DOMAIN shelves : s \in DOMAIN shelves' /\ shelves'[s].of = shelves[s].of
      /\ ToolRight /\ drafts \in [DOMAIN drafts -> Draft] /\ Submissions = DOMAIN drafts
      /\ \A i \in DOMAIN drafts : drafts[i].status = "draft" <=> i \notin DOMAIN sent
      /\ \A i \in DOMAIN sent : Agreed(drafts[i], sent[i])
  BY SentStays, ShelvesStep DEF LaunchpadInv, DraftsRight, Submissions
<1>1. CASE UNCHANGED tool
  BY <1>0, <1>1 DEF ToolRight
<1>2. CASE tool' = None
  BY <1>2 DEF ToolRight
<1>3. ASSUME NEW i \in Submissions, NEW s \in Slugs, ApproveBegins(i, s) PROVE ToolRight'
  <2>1. i \in DOMAIN sent /\ drafts[i] \in Draft /\ Agreed(drafts[i], sent[i]) /\ sent' = sent
    BY <1>0, <1>3 DEF ApproveBegins, Of
  <2>2. tool'.id = i /\ tool'.slug = s /\ tool'.d = drafts[i]
    BY <1>3 DEF ApproveBegins
  <2>3. s \in DOMAIN shelves' /\ shelves'[s].of = i
    BY <1>3 DEF ApproveBegins
  <2> QED BY <2>1, <2>2, <2>3 DEF ToolRight
<1>4. \/ UNCHANGED tool \/ tool' = None
      \/ \E i \in Submissions, s \in Slugs : ApproveBegins(i, s)
  BY DEF LaunchpadNext, Curation, CreateDraft, AddItems, SetBrandImage, Finalize, Reject, ApproveWrites,
         ApproveEnds, ToolDies, ServerRestarts, SaleNext, Mint, ReapQuote, Deliver, Refresh, DayPasses,
         launchpadVars
<1> QED BY <1>1, <1>2, <1>3, <1>4

\* One submission is on one shelf.
LEMMA OneShelfStep == LaunchpadInv /\ [LaunchpadNext]_launchpadVars => OneShelf' /\ Counts'
<1> SUFFICES ASSUME LaunchpadInv, [LaunchpadNext]_launchpadVars PROVE OneShelf' /\ Counts'
  OBVIOUS
<1>0. /\ ToolRight /\ OneShelf /\ Counts /\ drafts \in [DOMAIN drafts -> Draft] /\ Submissions = DOMAIN drafts
      /\ \A i \in DOMAIN drafts : drafts[i].status = "draft" <=> i \notin DOMAIN sent
      /\ DOMAIN sent \subseteq DOMAIN drafts /\ DOMAIN drafts \subseteq Nat
      /\ \A s \in DOMAIN shelves : shelves[s].of \in DOMAIN sent
      /\ \A s \in DOMAIN shelves : s \in DOMAIN shelves' /\ shelves'[s].of = shelves[s].of
      /\ MaxDays \in Nat /\ MaxDeaths \in Nat
  BY ShelvesStep, LaunchpadAssumption DEF LaunchpadInv, DraftsRight, ShelvesRight, Submissions
<1>1. Counts'
  <2>1. today' = today \/ (today < MaxDays /\ today' = today + 1)
    BY DEF LaunchpadNext, Curation, CreateDraft, AddItems, SetBrandImage, Finalize, Reject, ApproveBegins,
           ApproveWrites, ApproveEnds, ToolDies, ServerRestarts, SaleNext, Mint, ReapQuote, Deliver, Refresh,
           DayPasses, launchpadVars
  <2>2. deaths' = deaths \/ (deaths < MaxDeaths /\ deaths' = deaths + 1)
    BY DEF LaunchpadNext, Curation, CreateDraft, AddItems, SetBrandImage, Finalize, Reject, ApproveBegins,
           ApproveWrites, ApproveEnds, ToolDies, ServerRestarts, SaleNext, Mint, ReapQuote, Deliver, Refresh,
           DayPasses, launchpadVars
  <2> QED BY <1>0, <2>1, <2>2 DEF Counts
<1> SUFFICES OneShelf'
  BY <1>1
<1>2. CASE deaths' # 0
  BY <1>2 DEF OneShelf
<1>3. ASSUME UNCHANGED <<tool, deaths>>, DOMAIN shelves' = DOMAIN shelves,
             \A i \in DOMAIN sent : drafts[i].status = "approved" => drafts'[i].status = "approved"
      PROVE  OneShelf'
  BY <1>0, <1>3 DEF OneShelf
<1>4. CASE Drafts
  BY <1>0, <1>3, <1>4 DEF Drafts
<1>5. ASSUME NEW i \in Submissions, Finalize(i) \/ Reject(i) PROVE OneShelf'
  <2>1. drafts[i].status # "approved" /\ (\A k \in DOMAIN drafts \ {i} : drafts'[k] = drafts[k])
        /\ UNCHANGED <<tool, deaths, shelves>>
    BY <1>0, <1>5 DEF Finalize, Reject, Of
  <2> QED BY <1>0, <1>3, <2>1
<1>6. ASSUME NEW i \in Submissions, NEW s \in Slugs, ApproveBegins(i, s), deaths = 0 PROVE OneShelf'
  <2>1. tool = None /\ drafts[i].status = "pending" /\ UNCHANGED <<drafts, deaths>> /\ tool'.id = i
        /\ DOMAIN shelves' = DOMAIN shelves \cup {s} /\ shelves'[s].of = i /\ s \notin DOMAIN shelves
    BY <1>6 DEF ApproveBegins, Of
  <2>2. tool' # None
    <3>1. tool' \in Approval
      BY <1>0, <1>6 DEF ApproveBegins, Of, Approval
    <3> QED BY <3>1, NoApprovalIsNone
  <2>3. \A k \in DOMAIN shelves : drafts[shelves[k].of].status = "approved" /\ shelves[k].of # i
    BY <1>0, <1>6, <2>1 DEF OneShelf
  <2>4. \A j, k \in DOMAIN shelves : shelves[j].of = shelves[k].of => j = k
    BY <1>0, <1>6 DEF OneShelf
  <2>5. \A j, k \in DOMAIN shelves' : shelves'[j].of = shelves'[k].of => j = k
    BY <1>0, <2>1, <2>3, <2>4
  <2>6. \A k \in DOMAIN shelves' : drafts'[shelves'[k].of].status = "approved" \/ tool'.id = shelves'[k].of
    BY <1>0, <2>1, <2>3
  <2> QED BY <2>2, <2>5, <2>6 DEF OneShelf
<1>7. CASE ApproveEnds
  <2>1. tool # None /\ UNCHANGED <<shelves, deaths>> /\ tool.id \in DOMAIN sent
    BY <1>0, <1>7 DEF ApproveEnds, ToolRight
  <2>2. drafts' = [drafts EXCEPT ![tool.id] = [tool.d EXCEPT !.status = "approved"]] /\ tool.d \in Draft
    BY <1>0, <1>7, <2>1 DEF ApproveEnds, ToolRight
  <2>3. drafts'[tool.id].status = "approved" /\ \A k \in DOMAIN drafts \ {tool.id} : drafts'[k] = drafts[k]
    BY <1>0, <2>1, <2>2 DEF Draft
  <2> SUFFICES ASSUME deaths = 0
               PROVE  /\ \A j, k \in DOMAIN shelves : shelves[j].of = shelves[k].of => j = k
                      /\ \A k \in DOMAIN shelves : drafts'[shelves[k].of].status = "approved"
    BY <2>1 DEF OneShelf
  <2>4. \A k \in DOMAIN shelves : drafts[shelves[k].of].status = "approved" \/ tool.id = shelves[k].of
    BY <1>0 DEF OneShelf
  <2>5. ASSUME NEW k \in DOMAIN shelves PROVE drafts'[shelves[k].of].status = "approved"
    <3>1. shelves[k].of \in DOMAIN drafts
      BY <1>0
    <3> QED BY <2>3, <2>4, <3>1
  <2> QED BY <1>0, <2>5 DEF OneShelf
<1>8. ASSUME UNCHANGED <<drafts, tool, deaths>>, DOMAIN shelves' = DOMAIN shelves PROVE OneShelf'
  BY <1>3, <1>8
<1>9. CASE ApproveWrites \/ SaleNext \/ Refresh \/ DayPasses \/ UNCHANGED launchpadVars
  BY <1>8, <1>9 DEF ApproveWrites, SaleNext, Mint, ReapQuote, Deliver, Refresh, DayPasses, launchpadVars
<1>10. CASE ToolDies \/ ServerRestarts
  BY <1>0, <1>2, <1>10 DEF ToolDies, ServerRestarts, Counts
<1>11. CASE \/ \E c \in Creators, o \in Offers : CreateDraft(c, o)
            \/ \E i \in Submissions, n \in 1 .. 2 : AddItems(i, [k \in 1 .. n |-> Len(drafts[i].items) + k])
            \/ \E i \in Submissions : SetBrandImage(i)
  BY <1>4, <1>11, DraftKinds
<1>12. ASSUME NEW i \in Submissions, NEW s \in Slugs, ApproveBegins(i, s) PROVE OneShelf'
  BY <1>2, <1>6, <1>12 DEF ApproveBegins
<1> QED BY <1>1, <1>5, <1>7, <1>9, <1>10, <1>11, <1>12 DEF LaunchpadNext, Curation

\* What is loaded is what was finalized.
LEMMA LiveStep == LaunchpadInv /\ [LaunchpadNext]_launchpadVars => LiveRight'
<1> SUFFICES ASSUME LaunchpadInv, [LaunchpadNext]_launchpadVars PROVE LiveRight'
  OBVIOUS
<1>0. /\ \A i \in DOMAIN sent : i \in DOMAIN sent' /\ sent'[i] = sent[i]
      /\ \A s \in DOMAIN shelves : s \in DOMAIN shelves' /\ shelves'[s].of = shelves[s].of
      /\ \A s \in DOMAIN shelves :
           /\ shelves[s].of \in DOMAIN sent
           /\ Whole(s) => shelves[s].items = sent[shelves[s].of].items
      /\ \A i \in DOMAIN sent : Agreed(drafts[i], sent[i])
      /\ LiveRight
  BY SentStays, ShelvesStep DEF LaunchpadInv, DraftsRight, ShelvesRight
<1>1. ASSUME UNCHANGED live, DOMAIN taken' = DOMAIN taken PROVE LiveRight'
  BY <1>0, <1>1 DEF LiveRight
<1>2. CASE ServerRestarts
  <2>1. DOMAIN live' = {}
    BY <1>2 DEF ServerRestarts
  <2> QED BY <2>1 DEF LiveRight
<1>3. CASE Refresh
  <2> DEFINE now == {s \in DOMAIN shelves \ DOMAIN live : Whole(s)}
             Loaded(s) == [of |-> shelves[s].of, offer |-> Manifest(s).offer, pays |-> Manifest(s).by,
                           items |-> shelves[s].items]
  <2>1. live' = [s \in DOMAIN live \cup now |-> IF s \in now THEN Loaded(s) ELSE live[s]]
        /\ taken' = [s \in DOMAIN taken \cup now |-> IF s \in DOMAIN taken THEN taken[s] ELSE <<>>]
        /\ UNCHANGED <<shelves, sent>>
    BY <1>3 DEF Refresh
  <2>2. \A s \in now :
          /\ Loaded(s).of = shelves[s].of /\ Loaded(s).items = sent[shelves[s].of].items
          /\ Loaded(s).offer = sent[shelves[s].of].offer /\ Loaded(s).pays = sent[shelves[s].of].by
    BY <1>0 DEF Manifest, Agreed
  <2>3. now \subseteq DOMAIN shelves
    OBVIOUS
  <2> HIDE DEF now, Loaded
  <2>4. DOMAIN live' = DOMAIN live \cup now /\ DOMAIN taken' = DOMAIN taken \cup now
        /\ \A s \in DOMAIN live' : live'[s] = IF s \in now THEN Loaded(s) ELSE live[s]
    BY <2>1
  <2>5. \A s \in DOMAIN live' :
          /\ live'[s].of = shelves[s].of /\ live'[s].items = sent[shelves[s].of].items
          /\ live'[s].offer = sent[shelves[s].of].offer /\ live'[s].pays = sent[shelves[s].of].by
    BY <1>0, <2>2, <2>4 DEF LiveRight
  <2> QED BY <1>0, <2>1, <2>3, <2>4, <2>5 DEF LiveRight
<1>5. CASE SaleNext
  <2>1. ASSUME NEW s \in DOMAIN live, NEW to \in Minters, Mint(s, to) PROVE LiveRight'
    <3>1. DOMAIN taken' = DOMAIN taken /\ UNCHANGED live
      BY <2>1 DEF Mint, Put
    <3> QED BY <1>1, <3>1
  <2>2. ASSUME NEW q \in DOMAIN quotes, ReapQuote(q) \/ Deliver(q) PROVE LiveRight'
    <3>1. DOMAIN taken' = DOMAIN taken /\ UNCHANGED live
      BY <2>2 DEF ReapQuote, Deliver, Put
    <3> QED BY <1>1, <3>1
  <2> QED BY <1>5, <2>1, <2>2 DEF SaleNext
<1>6. UNCHANGED <<live, taken>> \/ ServerRestarts \/ Refresh \/ SaleNext
  BY DEF LaunchpadNext, Curation, CreateDraft, AddItems, SetBrandImage, Finalize, Reject, ApproveBegins,
         ApproveWrites, ApproveEnds, ToolDies, DayPasses, launchpadVars
<1> QED BY <1>1, <1>2, <1>3, <1>5, <1>6

\* What the sales do to the numbers of a collection: nothing, one more, one fewer, or one delivered.
Nothing == UNCHANGED <<quotes, taken>>
NewQuote(s, to) ==
  LET n == Min(Unclaimed(s)) IN
    /\ s \in DOMAIN live /\ to \in Minters /\ n \in Nat /\ n \notin DOMAIN taken[s] /\ Len(quotes) < MaxQuotes
    /\ quotes' = Append(quotes, [slug |-> s, number |-> n, to |-> to, state |-> "open"])
    /\ taken' = Put(s, n, [job |-> Len(quotes) + 1, to |-> to, minted |-> FALSE])
    /\ live[s].offer.perWallet > 0 => Cardinality(HeldBy(s, to)) < live[s].offer.perWallet
\* The kinds of step of the sale itself.
LEMMA SaleKinds ==
  ASSUME LaunchpadInv, [LaunchpadNext]_launchpadVars
  PROVE  \/ Nothing \/ Refresh
         \/ \E s \in DOMAIN live, to \in Minters : NewQuote(s, to)
         \/ \E q \in DOMAIN quotes : ReapQuote(q) \/ Deliver(q)
<1>1. ASSUME NEW s \in DOMAIN live, NEW to \in Minters, Mint(s, to) PROVE NewQuote(s, to)
  <2>1. Unclaimed(s) \in SUBSET Nat /\ Unclaimed(s) # {}
    <3>1. Unclaimed(s) # {}
      BY <1>1 DEF Mint
    <3>2. live[s].items \in Seq(Nat)
      <4>1. s \in DOMAIN shelves /\ live[s].items = sent[shelves[s].of].items /\ shelves[s].of \in DOMAIN sent
        BY DEF LaunchpadInv, LiveRight, ShelvesRight
      <4>2. sent[shelves[s].of] \in Draft
        BY <4>1 DEF LaunchpadInv, DraftsRight
      <4> QED BY <4>1, <4>2 DEF Draft
    <3>3. Unclaimed(s) \in SUBSET Nat
      BY <3>2 DEF Unclaimed
    <3> QED BY <3>1, <3>3
  <2>2. Min(Unclaimed(s)) \in Unclaimed(s)
    BY <2>1, MinIsOne
  <2>3. Min(Unclaimed(s)) \in Nat /\ Min(Unclaimed(s)) \notin DOMAIN taken[s]
    BY <2>1, <2>2 DEF Unclaimed
  <2> QED BY <1>1, <2>3 DEF Mint, NewQuote, Gate
<1>2. \/ Nothing \/ Refresh \/ SaleNext
  BY DEF LaunchpadNext, Curation, CreateDraft, AddItems, SetBrandImage, Finalize, Reject, ApproveBegins,
         ApproveWrites, ApproveEnds, ToolDies, ServerRestarts, DayPasses, launchpadVars, Nothing
<1> QED BY <1>1, <1>2 DEF SaleNext

\* A sequence with one element replaced.
LEMMA ReplaceOne ==
  ASSUME NEW S, NEW f \in Seq(S), NEW q \in DOMAIN f, NEW x \in S, NEW g, g = [f EXCEPT ![q] = x]
  PROVE  /\ f[q] \in S /\ g \in Seq(S) /\ Len(g) = Len(f) /\ DOMAIN g = DOMAIN f /\ g[q] = x
         /\ \A k \in DOMAIN f \ {q} : g[k] = f[k]
<1>1. Len(f) \in Nat /\ f \in [1 .. Len(f) -> S] /\ DOMAIN f = 1 .. Len(f)
  OBVIOUS
<1>2. g \in [1 .. Len(f) -> S] /\ g[q] = x /\ \A k \in DOMAIN f \ {q} : g[k] = f[k]
  BY <1>1
<1> QED BY <1>1, <1>2

\* A quote that moved on is of the same number, by the same address.
QuoteAt(f, q, stage) == [f[q] EXCEPT !.state = stage]
\* A quote that moves to another state leaves the other quotes alone.
LEMMA QuoteChanged ==
  ASSUME NEW f \in Seq(Quote), NEW q \in DOMAIN f, NEW stage \in QuoteStates,
         NEW g, g = [f EXCEPT ![q] = QuoteAt(f, q, stage)]
  PROVE  /\ g \in Seq(Quote) /\ Len(g) = Len(f) /\ DOMAIN g = DOMAIN f
         /\ g[q].state = stage /\ \A k \in DOMAIN f \ {q} : g[k] = f[k]
         /\ \A k \in DOMAIN f : g[k].slug = f[k].slug /\ g[k].number = f[k].number /\ g[k].to = f[k].to
<1>1. f \in [1 .. Len(f) -> Quote] /\ DOMAIN f = 1 .. Len(f)
  OBVIOUS
<1>2. f[q] \in Quote
  BY <1>1
<1>3. /\ QuoteAt(f, q, stage) \in Quote /\ QuoteAt(f, q, stage).state = stage
      /\ QuoteAt(f, q, stage).slug = f[q].slug /\ QuoteAt(f, q, stage).number = f[q].number
      /\ QuoteAt(f, q, stage).to = f[q].to
  BY <1>2 DEF Quote, QuoteAt
<1>4. /\ g \in Seq(Quote) /\ Len(g) = Len(f) /\ DOMAIN g = DOMAIN f
      /\ g[q] = QuoteAt(f, q, stage) /\ \A k \in DOMAIN f \ {q} : g[k] = f[k]
  BY <1>3, ReplaceOne
<1> QED BY <1>3, <1>4

\* Quotes and numbers: every job has a collection, and a collection few numbers taken.
LEMMA SalesStep == LaunchpadInv /\ [LaunchpadNext]_launchpadVars => SalesTyped'
<1> SUFFICES ASSUME LaunchpadInv, [LaunchpadNext]_launchpadVars PROVE SalesTyped'
  OBVIOUS
<1>0. /\ taken = [s \in DOMAIN taken |-> taken[s]] /\ DOMAIN taken \subseteq DOMAIN shelves
      /\ \A s \in DOMAIN taken : IsFiniteSet(DOMAIN taken[s])
      /\ quotes \in Seq(Quote) /\ Len(quotes) <= MaxQuotes
      /\ \A q \in DOMAIN quotes : quotes[q].slug \in DOMAIN taken
      /\ DOMAIN shelves \subseteq DOMAIN shelves' /\ DOMAIN live \subseteq DOMAIN taken
      /\ DOMAIN shelves \subseteq Slugs /\ MaxQuotes \in Nat
  BY ShelvesStep, LaunchpadAssumption DEF LaunchpadInv, SalesTyped, LiveRight, ShelvesRight
<1>1. CASE Nothing
  BY <1>0, <1>1 DEF Nothing, SalesTyped
<1>2. CASE Refresh
  <2> DEFINE now == {s \in DOMAIN shelves \ DOMAIN live : Whole(s)}
  <2>1. taken' = [s \in DOMAIN taken \cup now |-> IF s \in DOMAIN taken THEN taken[s] ELSE <<>>]
        /\ quotes' = quotes
    BY <1>2 DEF Refresh
  <2>2. now \subseteq DOMAIN shelves
    OBVIOUS
  <2> HIDE DEF now
  <2>3. /\ DOMAIN taken' = DOMAIN taken \cup now /\ taken' = [s \in DOMAIN taken' |-> taken'[s]]
        /\ \A s \in DOMAIN taken' : taken'[s] = IF s \in DOMAIN taken THEN taken[s] ELSE <<>>
    BY <2>1
  <2>4. IsFiniteSet(DOMAIN <<>>)
    <3>1. DOMAIN <<>> = {}
      OBVIOUS
    <3> QED BY <3>1, FS_EmptySet
  <2>5. \A s \in DOMAIN taken' : IsFiniteSet(DOMAIN taken'[s])
    BY <1>0, <2>3, <2>4
  <2> QED BY <1>0, <2>1, <2>2, <2>3, <2>5 DEF SalesTyped
<1>3. ASSUME NEW s \in DOMAIN taken, NEW n, NEW x, taken' = Put(s, n, x)
      PROVE  /\ DOMAIN taken' = DOMAIN taken /\ taken' = [k \in DOMAIN taken' |-> taken'[k]]
             /\ \A k \in DOMAIN taken' : IsFiniteSet(DOMAIN taken'[k])
  <2> DEFINE with == [k \in DOMAIN taken[s] \cup {n} |-> IF k = n THEN x ELSE taken[s][k]]
  <2>1. taken' = [taken EXCEPT ![s] = with] /\ DOMAIN with = DOMAIN taken[s] \cup {n}
    BY <1>3 DEF Put
  <2>2. IsFiniteSet(DOMAIN with)
    BY <1>0, <2>1, FS_AddElement
  <2> HIDE DEF with
  <2> QED BY <1>0, <2>1, <2>2
<1>4. ASSUME NEW s \in DOMAIN live, NEW to \in Minters, NewQuote(s, to) PROVE SalesTyped'
  <2> DEFINE quote == [slug |-> s, number |-> Min(Unclaimed(s)), to |-> to, state |-> "open"]
  <2>1. quotes' = Append(quotes, quote) /\ quote \in Quote /\ quote.slug = s /\ Len(quotes) < MaxQuotes
    <3>1. s \in Slugs
      BY <1>0
    <3> QED BY <1>4, <3>1 DEF NewQuote, Quote, QuoteStates
  <2> HIDE DEF quote
  <2>2. quotes' \in Seq(Quote) /\ Len(quotes') <= MaxQuotes
    BY <1>0, <2>1
  <2>3. \A q \in DOMAIN quotes' : quotes'[q].slug \in DOMAIN taken
    BY <1>0, <2>1
  <2>4. \E n, x : taken' = Put(s, n, x)
    BY <1>4 DEF NewQuote
  <2> QED BY <1>0, <1>3, <2>2, <2>3, <2>4 DEF SalesTyped
<1>5. ASSUME NEW q \in DOMAIN quotes, NEW stage \in QuoteStates,
             quotes' = [quotes EXCEPT ![q] = QuoteAt(quotes, q, stage)]
      PROVE  quotes' \in Seq(Quote) /\ Len(quotes') = Len(quotes) /\ DOMAIN quotes' = DOMAIN quotes
             /\ \A k \in DOMAIN quotes : quotes'[k].slug = quotes[k].slug
  <2>1. quotes \in Seq(Quote)
    BY DEF LaunchpadInv, SalesTyped
  <2>2. quotes' = [quotes EXCEPT ![q] = QuoteAt(quotes, q, stage)]
    BY <1>5
  <2> QED BY <1>5, <2>1, <2>2, QuoteChanged
<1>6. ASSUME NEW q \in DOMAIN quotes, Deliver(q) PROVE SalesTyped'
  <2>1. \E stage \in QuoteStates : quotes' = [quotes EXCEPT ![q] = QuoteAt(quotes, q, stage)]
    BY <1>6 DEF Deliver, QuoteAt, QuoteStates
  <2>2. \E n, x : taken' = Put(quotes[q].slug, n, x)
    BY <1>6 DEF Deliver
  <2>3. quotes[q].slug \in DOMAIN taken
    BY <1>0
  <2>4. /\ DOMAIN taken' = DOMAIN taken /\ taken' = [k \in DOMAIN taken' |-> taken'[k]]
        /\ \A k \in DOMAIN taken' : IsFiniteSet(DOMAIN taken'[k])
    BY <1>3, <2>2, <2>3
  <2>5. quotes' \in Seq(Quote) /\ Len(quotes') = Len(quotes) /\ DOMAIN quotes' = DOMAIN quotes
        /\ \A k \in DOMAIN quotes : quotes'[k].slug = quotes[k].slug
    BY <1>5, <2>1
  <2> QED BY <1>0, <2>4, <2>5 DEF SalesTyped
<1>7. ASSUME NEW q \in DOMAIN quotes, ReapQuote(q) PROVE SalesTyped'
  <2> DEFINE s == quotes[q].slug
             left == [k \in DOMAIN taken[s] \ {quotes[q].number} |-> taken[s][k]]
  <2>1. taken' = [taken EXCEPT ![s] = left] /\ quotes' = [quotes EXCEPT ![q] = QuoteAt(quotes, q, "released")]
        /\ s \in DOMAIN taken /\ "released" \in QuoteStates
    BY <1>0, <1>7 DEF ReapQuote, QuoteAt, QuoteStates
  <2>2. IsFiniteSet(DOMAIN left)
    BY <1>0, <2>1, FS_Subset
  <2> HIDE DEF left, s
  <2>3. DOMAIN taken' = DOMAIN taken /\ taken' = [k \in DOMAIN taken' |-> taken'[k]]
        /\ \A k \in DOMAIN taken' : IsFiniteSet(DOMAIN taken'[k])
    BY <1>0, <2>1, <2>2
  <2> QED BY <1>0, <1>5, <2>1, <2>3 DEF SalesTyped
<1> QED BY <1>1, <1>2, <1>4, <1>6, <1>7, SaleKinds

\* The limit: a reservation is one more only below it, a delivery takes the number that was reserved.
LEMMA LimitedStep == LaunchpadInv /\ [LaunchpadNext]_launchpadVars => Limited'
<1> SUFFICES ASSUME LaunchpadInv, [LaunchpadNext]_launchpadVars, NoneLate'
             PROVE  /\ \A q \in DOMAIN quotes' : quotes'[q].state = "open" => Reserved(q)'
                    /\ \A s \in DOMAIN taken', to \in Minters : Within(s, to)'
  BY DEF Limited
<1> DEFINE KeptOf == \A q \in DOMAIN quotes' : quotes'[q].state = "open" => Reserved(q)'
           BoundedOf == \A s \in DOMAIN taken', to \in Minters : Within(s, to)'
<1> SUFFICES KeptOf /\ BoundedOf
  OBVIOUS
<1>0. /\ DOMAIN taken \subseteq DOMAIN shelves /\ DOMAIN live \subseteq DOMAIN taken
      /\ \A s \in DOMAIN taken : IsFiniteSet(DOMAIN taken[s])
      /\ \A q \in DOMAIN quotes : quotes[q].slug \in DOMAIN taken
      /\ \A s \in DOMAIN live : live[s].offer = sent[shelves[s].of].offer
  BY DEF LaunchpadInv, SalesTyped, LiveRight
<1>1. quotes \in Seq(Quote)
  BY DEF LaunchpadInv, SalesTyped
<1>2. \A s \in DOMAIN shelves : Most(s) \in Nat /\ Most(s)' = Most(s)
  <2> SUFFICES ASSUME NEW s \in DOMAIN shelves PROVE Most(s) \in Nat /\ Most(s)' = Most(s)
    OBVIOUS
  <2>1. shelves[s].of \in DOMAIN sent /\ shelves'[s].of = shelves[s].of
    BY ShelvesStep DEF LaunchpadInv, ShelvesRight
  <2>2. sent'[shelves[s].of] = sent[shelves[s].of]
    BY <2>1, SentStays
  <2>3. sent[shelves[s].of] \in Draft
    BY <2>1 DEF LaunchpadInv, DraftsRight
  <2>4. sent[shelves[s].of].offer \in Offers
    BY <2>3 DEF Draft
  <2> QED BY <2>1, <2>2, <2>4, LaunchpadAssumption DEF Most
<1>3. \A s \in DOMAIN taken, to \in Minters : IsFiniteSet(HeldBy(s, to)) /\ Cardinality(HeldBy(s, to)) \in Nat
  <2> SUFFICES ASSUME NEW s \in DOMAIN taken, NEW to \in Minters
               PROVE  IsFiniteSet(HeldBy(s, to)) /\ Cardinality(HeldBy(s, to)) \in Nat
    OBVIOUS
  <2>1. HeldBy(s, to) \subseteq DOMAIN taken[s]
    BY DEF HeldBy
  <2>2. IsFiniteSet(HeldBy(s, to))
    BY <1>0, <2>1, FS_Subset
  <2> QED BY <2>2, FS_CardinalityType
<1>4. ASSUME NEW s \in DOMAIN taken, NEW to \in Minters, Within(s, to),
             HeldBy(s, to)' \subseteq HeldBy(s, to)
      PROVE  Within(s, to)'
  <2> DEFINE most == Most(s)
             held == HeldBy(s, to)
             after == HeldBy(s, to)'
  <2>1. IsFiniteSet(held) /\ Cardinality(held) \in Nat /\ most \in Nat /\ Most(s)' = most
    BY <1>0, <1>2, <1>3
  <2>2. Cardinality(after) <= Cardinality(held)
    BY <1>4, <2>1, FS_Subset
  <2>3. IsFiniteSet(after) /\ Cardinality(after) \in Nat
    BY <1>4, <2>1, FS_Subset, FS_CardinalityType
  <2>4. most > 0 => Cardinality(held) <= most
    BY <1>4 DEF Within
  <2> HIDE DEF most, held, after
  <2>5. most > 0 => Cardinality(after) <= most
    BY <2>1, <2>2, <2>3, <2>4
  <2> QED BY <2>1, <2>5 DEF Within, after
<1>5. ASSUME NEW s \in DOMAIN taken', s \notin DOMAIN taken, NEW to \in Minters, Refresh PROVE Within(s, to)'
  <2>1. taken'[s] = <<>> /\ s \in DOMAIN shelves
    BY <1>0, <1>5 DEF Refresh
  <2>2. HeldBy(s, to)' = {}
    BY <2>1 DEF HeldBy
  <2>3. Cardinality(HeldBy(s, to)') = 0
    BY <2>2, FS_EmptySet
  <2>4. Most(s)' \in Nat
    BY <1>2, <2>1
  <2> QED BY <2>3, <2>4 DEF Within
<1>6. ASSUME NoneLate
      PROVE  /\ \A q \in DOMAIN quotes : quotes[q].state = "open" => Reserved(q)
             /\ \A s \in DOMAIN taken, to \in Minters : Within(s, to)
  BY <1>6 DEF LaunchpadInv, Limited
<1>7. CASE Nothing
  <2>1. NoneLate
    BY <1>7 DEF Nothing, NoneLate
  <2>2. KeptOf
    BY <1>6, <1>7, <2>1 DEF Nothing, Reserved
  <2>3. \A s \in DOMAIN taken', to \in Minters : s \in DOMAIN taken /\ HeldBy(s, to)' = HeldBy(s, to)
    BY <1>7 DEF Nothing, HeldBy
  <2> QED BY <1>4, <1>6, <2>1, <2>2, <2>3
<1>8. CASE Refresh
  <2>1. /\ quotes' = quotes /\ \A s \in DOMAIN taken : s \in DOMAIN taken' /\ taken'[s] = taken[s]
    BY <1>8 DEF Refresh
  <2>2. NoneLate
    BY <2>1 DEF NoneLate
  <2>3. KeptOf
    BY <1>0, <1>6, <2>1, <2>2 DEF Reserved
  <2>4. \A s \in DOMAIN taken, to \in Minters : HeldBy(s, to)' = HeldBy(s, to)
    BY <2>1 DEF HeldBy
  <2>5. \A s \in DOMAIN taken, to \in Minters : Within(s, to)'
    BY <1>4, <1>6, <2>2, <2>4
  <2> QED BY <1>5, <1>8, <2>3, <2>5
<1>9. ASSUME NEW s \in DOMAIN live, NEW to \in Minters, NewQuote(s, to) PROVE KeptOf /\ BoundedOf
  <2> DEFINE n == Min(Unclaimed(s))
             x == [job |-> Len(quotes) + 1, to |-> to, minted |-> FALSE]
             quote == [slug |-> s, number |-> n, to |-> to, state |-> "open"]
  <2>1. /\ s \in DOMAIN taken /\ n \notin DOMAIN taken[s] /\ n \in Nat
        /\ quotes' = Append(quotes, quote) /\ taken' = Put(s, n, x)
        /\ Most(s) > 0 => Cardinality(HeldBy(s, to)) < Most(s)
    BY <1>0, <1>9 DEF NewQuote, Most
  <2>2. x.job = Len(quotes) + 1 /\ x.to = to /\ quote.slug = s /\ quote.number = n /\ quote.to = to
    OBVIOUS
  <2> HIDE DEF n, x, quote
  <2>3. /\ DOMAIN quotes' = DOMAIN quotes \cup {Len(quotes) + 1} /\ quotes'[Len(quotes) + 1] = quote
        /\ \A q \in DOMAIN quotes : quotes'[q] = quotes[q]
    BY <1>1, <2>1
  <2>4. /\ DOMAIN taken' = DOMAIN taken /\ DOMAIN taken'[s] = DOMAIN taken[s] \cup {n} /\ taken'[s][n] = x
        /\ \A k \in DOMAIN taken[s] : taken'[s][k] = taken[s][k]
        /\ \A k \in DOMAIN taken \ {s} : taken'[k] = taken[k]
    BY <2>1 DEF Put
  <2>5. NoneLate
    BY <2>3 DEF NoneLate
  <2>6. KeptOf
    <3>1. ASSUME NEW q \in DOMAIN quotes, quotes[q].state = "open" PROVE Reserved(q)'
      <4>1. Reserved(q) /\ quotes'[q] = quotes[q] /\ quotes[q].slug \in DOMAIN taken
        BY <1>0, <1>6, <2>3, <2>5, <3>1
      <4>2. CASE quotes[q].slug = s
        BY <2>4, <4>1, <4>2 DEF Reserved
      <4>3. CASE quotes[q].slug # s
        BY <2>4, <4>1, <4>3 DEF Reserved
      <4> QED BY <4>2, <4>3
    <3>2. ASSUME NEW q, q = Len(quotes) + 1 PROVE Reserved(q)'
      BY <2>1, <2>2, <2>3, <2>4, <3>2 DEF Reserved
    <3> QED BY <2>3, <3>1, <3>2
  <2>7. Within(s, to)'
    <3> DEFINE most == Most(s)
               held == HeldBy(s, to)
               size == Cardinality(held)
    <3>1. HeldBy(s, to)' = held \cup {n}
      BY <2>2, <2>4 DEF HeldBy
    <3>2. n \notin held
      BY <2>1 DEF HeldBy
    <3>3. IsFiniteSet(held) /\ size \in Nat /\ most \in Nat /\ Most(s)' = most
      BY <1>0, <1>2, <1>3, <2>1
    <3>4. Cardinality(held \cup {n}) = size + 1
      BY <3>2, <3>3, FS_AddElement
    <3>5. most > 0 => size < most
      BY <2>1
    <3> DEFINE more == Cardinality(held \cup {n})
    <3>6. Cardinality(HeldBy(s, to)') = more /\ more = size + 1
      BY <3>1, <3>4
    <3> HIDE DEF most, held, size, more
    <3>7. most > 0 => more <= most
      BY <3>3, <3>5, <3>6
    <3> QED BY <3>3, <3>6, <3>7 DEF Within
  <2>8. ASSUME NEW k \in DOMAIN taken, NEW by \in Minters, k # s \/ by # to PROVE Within(k, by)'
    <3>1. HeldBy(k, by)' \subseteq HeldBy(k, by)
      <4>1. CASE k # s
        BY <2>4, <4>1 DEF HeldBy
      <4>2. CASE k = s
        BY <2>2, <2>4, <2>8, <4>2 DEF HeldBy
      <4> QED BY <4>1, <4>2
    <3> QED BY <1>4, <1>6, <2>5, <3>1
  <2> QED BY <2>4, <2>6, <2>7, <2>8
<1>10. ASSUME NEW q \in DOMAIN quotes, ReapQuote(q) PROVE KeptOf /\ BoundedOf
  <2> DEFINE s == quotes[q].slug
             n == quotes[q].number
  <2>0. /\ s \in DOMAIN taken /\ n \in DOMAIN taken[s] /\ taken[s][n].job = q /\ quotes[q].state = "open"
        /\ quotes' = [quotes EXCEPT ![q] = QuoteAt(quotes, q, "released")] /\ "released" \in QuoteStates
        /\ taken' = [taken EXCEPT ![s] = [k \in DOMAIN @ \ {n} |-> @[k]]]
    BY <1>0, <1>10 DEF ReapQuote, QuoteAt, QuoteStates
  <2>1. /\ DOMAIN quotes' = DOMAIN quotes /\ quotes'[q].state = "released"
        /\ \A k \in DOMAIN quotes \ {q} : quotes'[k] = quotes[k]
    BY <1>1, <2>0, QuoteChanged
  <2>2. NoneLate
    BY <2>0, <2>1 DEF NoneLate
  <2>3. /\ DOMAIN taken' = DOMAIN taken /\ DOMAIN taken'[s] = DOMAIN taken[s] \ {n}
        /\ \A k \in DOMAIN taken[s] \ {n} : taken'[s][k] = taken[s][k]
        /\ \A k \in DOMAIN taken \ {s} : taken'[k] = taken[k]
    BY <2>0
  <2>4. KeptOf
    <3> SUFFICES ASSUME NEW k \in DOMAIN quotes', quotes'[k].state = "open" PROVE Reserved(k)'
      OBVIOUS
    <3>1. k \in DOMAIN quotes \ {q} /\ quotes'[k] = quotes[k]
      BY <2>1
    <3>2. Reserved(k) /\ quotes[k].slug \in DOMAIN taken
      BY <1>0, <1>6, <2>2, <3>1
    <3> HIDE DEF s, n
    <3>3. CASE quotes[k].slug = s
      BY <2>0, <2>3, <3>1, <3>2, <3>3 DEF Reserved
    <3>4. CASE quotes[k].slug # s
      BY <2>3, <3>1, <3>2, <3>4 DEF Reserved
    <3> QED BY <3>3, <3>4
  <2>5. \A k \in DOMAIN taken, to \in Minters : HeldBy(k, to)' \subseteq HeldBy(k, to)
    <3> HIDE DEF s, n
    <3> QED BY <2>3 DEF HeldBy
  <2> QED BY <1>4, <1>6, <2>2, <2>3, <2>4, <2>5
<1>11. ASSUME NEW q \in DOMAIN quotes, Deliver(q) PROVE KeptOf /\ BoundedOf
  <2> DEFINE s == quotes[q].slug
             n == quotes[q].number
             x == [job |-> q, to |-> quotes[q].to, minted |-> TRUE]
             stage == IF quotes[q].state = "open" THEN "minted" ELSE "minted late"
  <2>0. /\ s \in DOMAIN taken /\ taken' = Put(s, n, x) /\ x.job = q /\ x.to = quotes[q].to
        /\ quotes' = [quotes EXCEPT ![q] = QuoteAt(quotes, q, stage)]
    BY <1>0, <1>11 DEF Deliver, QuoteAt
  <2>01. stage \in QuoteStates /\ stage # "open"
    BY DEF QuoteStates
  <2> HIDE DEF x, stage
  <2>1. /\ DOMAIN quotes' = DOMAIN quotes /\ quotes'[q].state = stage
        /\ \A k \in DOMAIN quotes \ {q} : quotes'[k] = quotes[k]
    BY <1>1, <2>0, <2>01, QuoteChanged
  <2>2. quotes[q].state = "open"
    <3>1. stage # "minted late"
      BY <2>1 DEF NoneLate
    <3> QED BY <3>1 DEF stage
  <2>3. NoneLate
    BY <2>1, <2>2 DEF NoneLate
  <2>4. Reserved(q) /\ n \in DOMAIN taken[s] /\ taken[s][n].to = quotes[q].to /\ taken[s][n].job = q
    BY <1>6, <2>2, <2>3 DEF Reserved
  <2>5. /\ DOMAIN taken' = DOMAIN taken /\ DOMAIN taken'[s] = DOMAIN taken[s] /\ taken'[s][n] = x
        /\ \A k \in DOMAIN taken[s] \ {n} : taken'[s][k] = taken[s][k]
        /\ \A k \in DOMAIN taken \ {s} : taken'[k] = taken[k]
    BY <2>0, <2>4 DEF Put
  <2>6. KeptOf
    <3> SUFFICES ASSUME NEW k \in DOMAIN quotes', quotes'[k].state = "open" PROVE Reserved(k)'
      OBVIOUS
    <3>1. k \in DOMAIN quotes \ {q} /\ quotes'[k] = quotes[k]
      BY <2>01, <2>1
    <3>2. Reserved(k) /\ quotes[k].slug \in DOMAIN taken
      BY <1>0, <1>6, <2>3, <3>1
    <3> HIDE DEF s, n
    <3>3. CASE quotes[k].slug = s
      BY <2>4, <2>5, <3>1, <3>2, <3>3 DEF Reserved
    <3>4. CASE quotes[k].slug # s
      BY <2>5, <3>1, <3>2, <3>4 DEF Reserved
    <3> QED BY <3>3, <3>4
  <2>7. \A k \in DOMAIN taken, to \in Minters : HeldBy(k, to)' \subseteq HeldBy(k, to)
    <3> HIDE DEF s, n
    <3> QED BY <2>0, <2>4, <2>5 DEF HeldBy
  <2> QED BY <1>4, <1>6, <2>3, <2>5, <2>6, <2>7
<1> HIDE DEF KeptOf, BoundedOf
<1> QED BY <1>7, <1>8, <1>9, <1>10, <1>11, SaleKinds

\* Every conjunct of the invariant, from the first state on.
THEOREM SaleInvariant == LaunchpadSpec => []LaunchpadInv
<1>1. LaunchpadInit => LaunchpadInv
  <2> SUFFICES ASSUME LaunchpadInit PROVE LaunchpadInv
    OBVIOUS
  <2>1. DOMAIN <<>> = {} /\ <<>> \in Seq(Quote) /\ Len(<<>>) = 0
    OBVIOUS
  <2>2. IsFiniteSet(DOMAIN shelves)
    BY <2>1, FS_EmptySet DEF LaunchpadInit
  <2>3. DraftsRight /\ ToolRight
    BY <2>1 DEF LaunchpadInit, DraftsRight, ToolRight
  <2>4. ShelvesRight /\ OneShelf /\ LiveRight
    BY <2>1, <2>2 DEF LaunchpadInit, ShelvesRight, OneShelf, LiveRight
  <2>5. SalesTyped
    BY <2>1, LaunchpadAssumption DEF LaunchpadInit, SalesTyped
  <2>6. Limited
    BY <2>1 DEF LaunchpadInit, Limited
  <2>7. Counts
    BY LaunchpadAssumption DEF LaunchpadInit, Counts
  <2> QED BY <2>3, <2>4, <2>5, <2>6, <2>7 DEF LaunchpadInv
<1>2. LaunchpadInv /\ [LaunchpadNext]_launchpadVars => LaunchpadInv'
  BY DraftsStep, ToolStep, ShelvesStep, OneShelfStep, LiveStep, SalesStep, LimitedStep DEF LaunchpadInv
<1> QED BY <1>1, <1>2, PTL DEF LaunchpadSpec

\* A collection sells what was agreed, and to nobody more than was agreed.
THEOREM SaleCorrect == LaunchpadSpec => []SaleSound
<1>1. LaunchpadInv => SaleSound
  <2> SUFFICES ASSUME LaunchpadInv PROVE SaleSound
    OBVIOUS
  <2>0. /\ DraftsRight /\ ToolRight /\ ShelvesRight /\ OneShelf /\ LiveRight /\ SalesTyped /\ Limited /\ Counts
    BY DEF LaunchpadInv
  <2>1. LaunchpadTypeOK
    <3>1. \A i \in Submissions : drafts[i] \in Draft /\ Len(drafts[i].items) <= MaxItems
      BY <2>0 DEF DraftsRight, Submissions
    <3>2. tool = None \/ tool.id \in 1 .. MaxSubmissions
      BY <2>0 DEF ToolRight, DraftsRight
    <3>3. DOMAIN shelves \subseteq Slugs /\ DOMAIN live \subseteq DOMAIN shelves /\ DOMAIN live \subseteq DOMAIN taken
      BY <2>0 DEF ShelvesRight, LiveRight
    <3>4. Submissions \subseteq 1 .. MaxSubmissions /\ (usage = None \/ usage \in Nat)
      BY <2>0 DEF DraftsRight, Submissions
    <3>5. Len(quotes) <= MaxQuotes /\ today \in 0 .. MaxDays /\ deaths \in 0 .. MaxDeaths
      BY <2>0 DEF SalesTyped, Counts
    <3> QED BY <3>1, <3>2, <3>3, <3>4, <3>5 DEF LaunchpadTypeOK
  <2>2. LiveAsFinalized
    BY <2>0 DEF LiveRight, OneShelf, LiveAsFinalized
  <2>3. WalletLimitKept
    <3> SUFFICES ASSUME NEW s \in DOMAIN live, NEW to \in Minters, live[s].offer.perWallet > 0, NoneLate
                 PROVE  Cardinality(HeldBy(s, to)) <= live[s].offer.perWallet
      BY DEF WalletLimitKept, NoneLate
    <3>1. Within(s, to)
      BY <2>0 DEF Limited, LiveRight
    <3>2. live[s].offer.perWallet = Most(s)
      BY <2>0 DEF LiveRight, Most
    <3> QED BY <3>1, <3>2 DEF Within
  <2> QED BY <2>1, <2>2, <2>3 DEF SaleSound
<1> QED BY <1>1, SaleInvariant, PTL

-----------------------------------------------------------------------------
(* The sale in one transaction.                                             *)

\* A sum of numbers is a number; short ones are spelled out.
LEMMA SumSpelled ==
  ASSUME NEW s \in Seq(Nat)
  PROVE  /\ AddUp(s) \in Nat
         /\ Len(s) = 0 => AddUp(s) = 0
         /\ Len(s) = 1 => AddUp(s) = s[1]
         /\ Len(s) = 2 => AddUp(s) = s[1] + s[2]
         /\ Len(s) = 3 => AddUp(s) = s[1] + s[2] + s[3]
         /\ Len(s) = 4 => AddUp(s) = s[1] + s[2] + s[3] + s[4]
         /\ Len(s) = 5 => AddUp(s) = s[1] + s[2] + s[3] + s[4] + s[5]
<1>1. PICK up : SumsTo(up, s) /\ AddUp(s) = up[Len(s)]
  BY SumSteps
<1>2. Len(s) \in Nat /\ \A n \in 1 .. Len(s) : s[n] \in Nat
  OBVIOUS
<1>3. up[0] = 0 /\ \A n \in 1 .. Len(s) : up[n] = up[n - 1] + s[n]
  BY <1>1 DEF SumsTo
<1>4. \A n \in 0 .. Len(s) : up[n] \in Nat
  BY <1>1 DEF SumsTo
<1>5. Len(s) >= 1 => up[1] = s[1]
  BY <1>2, <1>3
<1>6. Len(s) >= 2 => up[2] = up[1] + s[2]
  BY <1>2, <1>3
<1>7. Len(s) >= 3 => up[3] = up[2] + s[3]
  BY <1>2, <1>3
<1>8. Len(s) >= 4 => up[4] = up[3] + s[4]
  BY <1>2, <1>3
<1>9. Len(s) >= 5 => up[5] = up[4] + s[5]
  BY <1>2, <1>3
<1>10. AddUp(s) \in Nat
  BY <1>1, <1>2, <1>4
<1>11. Len(s) = 0 => AddUp(s) = 0
  BY <1>1, <1>3
<1>12. Len(s) = 1 => AddUp(s) = s[1]
  BY <1>1, <1>5
<1>13. Len(s) = 2 => AddUp(s) = s[1] + s[2]
  BY <1>1, <1>5, <1>6
<1>14. Len(s) = 3 => AddUp(s) = s[1] + s[2] + s[3]
  BY <1>1, <1>5, <1>6, <1>7
<1>15. Len(s) = 4 => AddUp(s) = s[1] + s[2] + s[3] + s[4]
  BY <1>1, <1>5, <1>6, <1>7, <1>8
<1>16. Len(s) = 5 => AddUp(s) = s[1] + s[2] + s[3] + s[4] + s[5]
  BY <1>1, <1>5, <1>6, <1>7, <1>8, <1>9
<1> QED BY <1>10, <1>11, <1>12, <1>13, <1>14, <1>15, <1>16

\* Who holds coins, the coins, and what a transaction pays out.
Folk == Traders \cup {House}
Coinage == [value : Nat, to : Folk, item : Nat \cup {None}, time : Nat]
Payment == [to : Folk, value : Nat]
Drawn(tx) ==
  /\ tx.ins \in Seq(DOMAIN stall) /\ tx.outs \in Seq(Payment)
  /\ tx.time \in Nat /\ tx.time <= clock

\* The chain holds coins, named in the order they came, and none from the future.
ChainSound ==
  /\ made \in Nat /\ clock \in 0 .. LastTick
  /\ stall \in [DOMAIN stall -> Coinage] /\ DOMAIN stall \subseteq 1 .. made
  /\ \A c \in DOMAIN stall : stall[c].time <= clock

\* The values of payments are numbers.
LEMMA PaymentsAre ==
  ASSUME NEW outs \in Seq(Payment)
  PROVE  /\ [k \in DOMAIN outs |-> outs[k].value] \in Seq(Nat)
         /\ Len([k \in DOMAIN outs |-> outs[k].value]) = Len(outs)
         /\ ValueOut(outs) \in Nat
<1> DEFINE v == [k \in DOMAIN outs |-> outs[k].value]
<1>1. DOMAIN outs = 1 .. Len(outs) /\ Len(outs) \in Nat
  OBVIOUS
<1>2. \A k \in 1 .. Len(outs) : outs[k].value \in Nat
  <2>1. \A k \in 1 .. Len(outs) : outs[k] \in Payment
    OBVIOUS
  <2> QED BY <2>1 DEF Payment
<1>3. v \in [1 .. Len(outs) -> Nat]
  BY <1>1, <1>2
<1>4. v \in Seq(Nat) /\ Len(v) = Len(outs)
  <2> HIDE DEF v
  <2> QED BY <1>1, <1>3, IsASeq, LenProperties
<1> QED BY <1>4, SumSpelled DEF ValueOut

\* So are those of coins.
LEMMA ValuesAre ==
  ASSUME ChainSound, NEW cs \in Seq(DOMAIN stall)
  PROVE  /\ [k \in DOMAIN cs |-> stall[cs[k]].value] \in Seq(Nat)
         /\ Len([k \in DOMAIN cs |-> stall[cs[k]].value]) = Len(cs)
         /\ ValueIn(cs) \in Nat
<1> DEFINE v == [k \in DOMAIN cs |-> stall[cs[k]].value]
<1>1. DOMAIN cs = 1 .. Len(cs) /\ Len(cs) \in Nat
  OBVIOUS
<1>2. \A k \in 1 .. Len(cs) : stall[cs[k]].value \in Nat
  <2>1. \A c \in DOMAIN stall : stall[c].value \in Nat
    BY DEF ChainSound, Coinage
  <2>2. \A k \in 1 .. Len(cs) : cs[k] \in DOMAIN stall
    OBVIOUS
  <2> QED BY <2>1, <2>2
<1>3. v \in [1 .. Len(cs) -> Nat]
  BY <1>1, <1>2
<1>4. v \in Seq(Nat) /\ Len(v) = Len(cs)
  <2> HIDE DEF v
  <2> QED BY <1>1, <1>3, IsASeq, LenProperties
<1> QED BY <1>4, SumSpelled DEF ValueIn

\* Inscribed units are at numbers.
LEMMA InscribedAre ==
  ASSUME ChainSound, NEW tx, Drawn(tx)
  PROVE  Inscribed(tx) \subseteq Nat
<1> SUFFICES ASSUME NEW k \in DOMAIN tx.ins, stall[tx.ins[k]].item # None
             PROVE  ValueIn(SubSeq(tx.ins, 1, k - 1)) + stall[tx.ins[k]].item \in Nat
  BY DEF Inscribed
<1>1. tx.ins \in Seq(DOMAIN stall) /\ tx.ins[k] \in DOMAIN stall /\ k \in 1 .. Len(tx.ins) /\ Len(tx.ins) \in Nat
  BY DEF Drawn
<1>2. stall[tx.ins[k]].item \in Nat
  BY <1>1 DEF ChainSound, Coinage
<1>3. SubSeq(tx.ins, 1, k - 1) \in Seq(DOMAIN stall)
  BY <1>1
<1>4. ValueIn(SubSeq(tx.ins, 1, k - 1)) \in Nat
  BY <1>3, ValuesAre
<1> QED BY <1>2, <1>4

\* An inscription is in an output at a number, if it is.
LEMMA ItemIs ==
  ASSUME ChainSound, NEW tx, Drawn(tx), NEW k \in DOMAIN tx.outs
  PROVE  ItemOf(tx, k) \in Nat \cup {None}
<1> DEFINE before == ValueOut(SubSeq(tx.outs, 1, k - 1))
           within == {p - before : p \in {p \in Inscribed(tx) : p >= before /\ p < before + tx.outs[k].value}}
<1>1. before \in Nat
  <2>1. SubSeq(tx.outs, 1, k - 1) \in Seq(Payment)
    BY DEF Drawn
  <2> QED BY <2>1, PaymentsAre
<1> HIDE DEF before
<1>2. within \subseteq Nat
  BY <1>1, InscribedAre
<1>3. ItemOf(tx, k) = IF within = {} THEN None ELSE Min(within)
  BY DEF ItemOf, before
<1> HIDE DEF within
<1>4. within # {} => Min(within) \in within
  <2> SUFFICES ASSUME within # {} PROVE Min(within) \in within
    OBVIOUS
  <2>1. PICK n \in within : \A m \in within : n <= m
    BY <1>2, Least
  <2> QED BY <2>1 DEF Min
<1> QED BY <1>2, <1>3, <1>4

\* A transaction leaves coins: the old ones as they were, and new ones with new names.
LEMMA MovedRight ==
  ASSUME ChainSound, NEW tx, Drawn(tx)
  PROVE  /\ DOMAIN Moved(tx) = (DOMAIN stall \ Range(tx.ins)) \cup {made + k : k \in DOMAIN tx.outs}
         /\ DOMAIN Moved(tx) \subseteq 1 .. made + Len(tx.outs) /\ Len(tx.outs) \in Nat
         /\ Moved(tx) \in [DOMAIN Moved(tx) -> Coinage]
         /\ \A c \in DOMAIN stall \ Range(tx.ins) : Moved(tx)[c] = stall[c]
         /\ \A k \in DOMAIN tx.outs :
              /\ made + k \notin DOMAIN stall
              /\ Moved(tx)[made + k] = [value |-> tx.outs[k].value, to |-> tx.outs[k].to,
                                        item |-> ItemOf(tx, k), time |-> tx.time]
         /\ \A c \in DOMAIN Moved(tx) : Moved(tx)[c].time <= clock
<1> DEFINE D == (DOMAIN stall \ Range(tx.ins)) \cup {made + k : k \in DOMAIN tx.outs}
           new(k) == [value |-> tx.outs[k].value, to |-> tx.outs[k].to, item |-> ItemOf(tx, k), time |-> tx.time]
           M == Moved(tx)
<1>0. /\ made \in Nat /\ DOMAIN stall \subseteq 1 .. made /\ tx.outs \in Seq(Payment)
      /\ DOMAIN tx.outs = 1 .. Len(tx.outs) /\ Len(tx.outs) \in Nat
  BY DEF ChainSound, Drawn
<1>1. M = [c \in D |-> IF c \in DOMAIN stall THEN stall[c] ELSE new(c - made)]
  BY DEF Moved
<1>2. \A k \in DOMAIN tx.outs : made + k \notin DOMAIN stall /\ (made + k) - made = k /\ made + k \in D
                                /\ made + k \in 1 .. made + Len(tx.outs)
  BY <1>0
<1>3. \A k \in DOMAIN tx.outs : new(k) \in Coinage /\ new(k).time <= clock
  <2> SUFFICES ASSUME NEW k \in DOMAIN tx.outs PROVE new(k) \in Coinage /\ new(k).time <= clock
    OBVIOUS
  <2>1. tx.outs[k].value \in Nat /\ tx.outs[k].to \in Folk
    <3>1. tx.outs[k] \in Payment
      BY <1>0
    <3> QED BY <3>1 DEF Payment
  <2>2. ItemOf(tx, k) \in Nat \cup {None}
    BY ItemIs
  <2> HIDE DEF Folk
  <2> QED BY <2>1, <2>2 DEF Drawn, Coinage
<1>4. D \subseteq 1 .. made + Len(tx.outs)
  BY <1>0, <1>2
<1> HIDE DEF new
<1>5. \A c \in DOMAIN stall \ Range(tx.ins) : M[c] = stall[c]
  BY <1>1
<1>6. \A k \in DOMAIN tx.outs : M[made + k] = new(k)
  <2> SUFFICES ASSUME NEW k \in DOMAIN tx.outs PROVE M[made + k] = new(k)
    OBVIOUS
  <2> DEFINE c == made + k
  <2>1. c \in D /\ c \notin DOMAIN stall /\ c - made = k
    BY <1>2
  <2> HIDE DEF c, D
  <2>2. M[c] = new(c - made)
    BY <1>1, <2>1
  <2> QED BY <2>1, <2>2 DEF c
<1>7. DOMAIN M = D
  BY <1>1
<1>8. ASSUME NEW c \in D PROVE M[c] \in Coinage /\ M[c].time <= clock
  <2>1. CASE c \in DOMAIN stall \ Range(tx.ins)
    BY <1>5, <2>1 DEF ChainSound
  <2>2. CASE c \in {made + k : k \in DOMAIN tx.outs}
    BY <1>3, <1>6, <2>2
  <2> QED BY <2>1, <2>2
<1>9. M \in [D -> Coinage]
  <2> HIDE DEF D
  <2>1. M = [c \in D |-> M[c]]
    BY <1>1
  <2> HIDE DEF M
  <2> QED BY <1>8, <2>1
<1> HIDE DEF M, D
<1> QED BY <1>0, <1>2, <1>4, <1>5, <1>6, <1>7, <1>8, <1>9 DEF M, D, new

\* What a listing or a bid says is sold, and for what.
Deal(l) ==
  /\ l.worth \in Nat /\ l.offset \in Nat /\ l.to \in Folk
  /\ l.price \in Asking /\ Net(l.price) > 0

\* At most one more at the end of a list.
LEMMA AddsOne ==
  ASSUME NEW S, NEW s \in Seq(S), NEW t \in Seq(S), Len(t) <= 1
  PROVE  /\ s \o t \in Seq(S) /\ Len(s \o t) = Len(s) + Len(t)
         /\ \A k \in 1 .. Len(s) : (s \o t)[k] = s[k]
         /\ Len(t) = 1 => (s \o t)[Len(s \o t)] = t[1]
OBVIOUS

LaidOut(outs, l, pads, funds, buyer) ==
  LET cut == CutOf[l.price]
      change == l.worth - l.offset + funds - Postage - l.price - MinerFee
  IN /\ cut \in Nat /\ change \in Nat /\ Net(l.price) \in Nat
     /\ outs \in Seq(Payment)
     /\ Len(outs) = 3 + (IF cut > 0 THEN 1 ELSE 0) + (IF change > 0 THEN 1 ELSE 0)
     /\ outs[1] = Output(buyer, pads + l.offset) /\ outs[2] = Output(buyer, Postage)
     /\ outs[3] = Output(l.to, Net(l.price))
     /\ cut > 0 => outs[4] = Output(House, cut)
     /\ change > 0 => outs[Len(outs)] = Output(buyer, change)
     /\ ValueOut(outs) = pads + l.worth + funds - MinerFee
\* The layout, output by output.
LEMMA LayoutIs ==
  ASSUME NEW l, Deal(l), NEW pads \in Nat, NEW funds \in Nat, NEW buyer \in Traders,
         Layout(l, pads, funds, buyer) # None
  PROVE  LaidOut(Layout(l, pads, funds, buyer), l, pads, funds, buyer)
<1> DEFINE outs == Layout(l, pads, funds, buyer)
           cut == CutOf[l.price]
           change == l.worth - l.offset + funds - Postage - l.price - MinerFee
           a == Output(buyer, pads + l.offset)
           b == Output(buyer, Postage)
           c == Output(l.to, Net(l.price))
           d == Output(House, cut)
           e == Output(buyer, change)
<1>1. /\ cut \in Nat /\ change \in Nat /\ Net(l.price) \in Nat /\ Net(l.price) = l.price - cut
      /\ l.worth \in Nat /\ l.offset \in Nat /\ l.price \in Nat /\ Postage = 1 /\ MinerFee = 1
  <2>1. l.worth \in Nat /\ l.offset \in Nat /\ l.price \in Asking /\ Net(l.price) > 0
    BY DEF Deal
  <2>2. cut \in Nat /\ l.price \in Nat
    BY <2>1, SettlementAssumption
  <2>3. ~(l.worth - l.offset < Postage \/ change < 0)
    BY DEF Layout
  <2>4. Postage = 1 /\ MinerFee = 1 /\ Net(l.price) = l.price - cut
    BY DEF Postage, MinerFee, Net
  <2>5. l.worth - l.offset + funds - 1 - l.price - 1 \in Int
    BY <2>1, <2>2
  <2>6. change \in Nat
    <3>1. change = l.worth - l.offset + funds - 1 - l.price - 1
      BY <2>4
    <3> HIDE DEF change
    <3> QED BY <2>3, <2>5, <3>1
  <2> HIDE DEF change, cut
  <2> QED BY <2>1, <2>2, <2>4, <2>6
<1>2. outs = <<a, b, c>> \o Fee(l.price) \o ChangeTo(buyer, change)
  BY DEF Layout
<1>3. Fee(l.price) = IF cut > 0 THEN <<d>> ELSE <<>>
  BY DEF Fee
<1>4. ChangeTo(buyer, change) = IF change > 0 THEN <<e>> ELSE <<>>
  BY DEF ChangeTo
<1>5. /\ a.value = pads + l.offset /\ b.value = Postage /\ c.value = Net(l.price)
      /\ d.value = cut /\ e.value = change
      /\ a \in Payment /\ b \in Payment /\ c \in Payment /\ d \in Payment /\ e \in Payment
  <2>1. buyer \in Folk /\ House \in Folk /\ l.to \in Folk
    BY DEF Folk, Deal
  <2>2. pads + l.offset \in Nat /\ Postage \in Nat
    BY <1>1
  <2> HIDE DEF Folk, cut, change
  <2> QED BY <1>1, <2>1, <2>2 DEF Output, Payment
<1>6. change = l.worth - l.offset + funds - 1 - l.price - 1
  BY <1>1
<1> HIDE DEF outs, a, b, c, d, e, cut, change, Payment
<1>7. ASSUME NEW s \in Seq(Payment) PROVE
        /\ ValueOut(s) = AddUp([k \in DOMAIN s |-> s[k].value]) /\ DOMAIN s = 1 .. Len(s) /\ Len(s) \in Nat
        /\ Len(s) = 3 => ValueOut(s) = s[1].value + s[2].value + s[3].value
        /\ Len(s) = 4 => ValueOut(s) = s[1].value + s[2].value + s[3].value + s[4].value
        /\ Len(s) = 5 => ValueOut(s) = s[1].value + s[2].value + s[3].value + s[4].value + s[5].value
  <2> DEFINE v == [k \in DOMAIN s |-> s[k].value]
  <2>1. v \in Seq(Nat) /\ Len(v) = Len(s) /\ ValueOut(s) = AddUp(v) /\ DOMAIN s = 1 .. Len(s) /\ Len(s) \in Nat
    BY PaymentsAre DEF ValueOut
  <2>2. \A k \in 1 .. Len(s) : v[k] = s[k].value
    BY <2>1
  <2> HIDE DEF v
  <2>3. Len(s) = 3 => AddUp(v) = v[1] + v[2] + v[3]
    BY <2>1, SumSpelled
  <2>4. Len(s) = 4 => AddUp(v) = v[1] + v[2] + v[3] + v[4]
    BY <2>1, SumSpelled
  <2>5. Len(s) = 5 => AddUp(v) = v[1] + v[2] + v[3] + v[4] + v[5]
    BY <2>1, SumSpelled
  <2> QED BY <2>1, <2>2, <2>3, <2>4, <2>5 DEF v
<1> DEFINE o == <<a, b, c>>
           F == Fee(l.price)
           G == ChangeTo(buyer, change)
<1>8. o \in Seq(Payment) /\ Len(o) = 3 /\ o[1] = a /\ o[2] = b /\ o[3] = c
  BY <1>5
<1>9. F \in Seq(Payment) /\ Len(F) = (IF cut > 0 THEN 1 ELSE 0) /\ (cut > 0 => F[1] = d) /\ Len(F) <= 1
  BY <1>3, <1>5
<1>10. G \in Seq(Payment) /\ Len(G) = (IF change > 0 THEN 1 ELSE 0) /\ (change > 0 => G[1] = e) /\ Len(G) <= 1
  BY <1>4, <1>5
<1> HIDE DEF o, F, G
<1> DEFINE r == o \o F
<1>11. /\ r \in Seq(Payment) /\ Len(r) = 3 + Len(F) /\ r[1] = a /\ r[2] = b /\ r[3] = c
       /\ cut > 0 => r[4] = d
  <2>0. /\ r \in Seq(Payment) /\ Len(r) = Len(o) + Len(F) /\ \A k \in 1 .. Len(o) : r[k] = o[k]
        /\ Len(F) = 1 => r[Len(r)] = F[1]
    BY <1>8, <1>9, AddsOne
  <2> HIDE DEF r
  <2>1. /\ r \in Seq(Payment) /\ Len(r) = 3 + Len(F) /\ \A k \in 1 .. 3 : r[k] = o[k]
        /\ Len(F) = 1 => r[Len(r)] = F[1]
    BY <1>8, <2>0
  <2>2. r[1] = o[1] /\ r[2] = o[2] /\ r[3] = o[3]
    BY <2>1
  <2>3. cut > 0 => Len(F) = 1 /\ Len(r) = 4
    BY <1>9, <2>1
  <2> QED BY <1>8, <1>9, <2>1, <2>2, <2>3
<1> HIDE DEF r
<1>12. /\ outs \in Seq(Payment) /\ Len(outs) = 3 + Len(F) + Len(G) /\ outs[1] = a /\ outs[2] = b /\ outs[3] = c
       /\ cut > 0 => outs[4] = d
       /\ change > 0 => outs[Len(outs)] = e
  <2>1. outs = r \o G
    BY <1>2 DEF r, o, F, G
  <2>2. /\ outs \in Seq(Payment) /\ Len(outs) = Len(r) + Len(G) /\ \A k \in 1 .. Len(r) : outs[k] = r[k]
        /\ Len(G) = 1 => outs[Len(outs)] = G[1]
    BY <1>10, <1>11, <2>1, AddsOne
  <2>3. outs[1] = r[1] /\ outs[2] = r[2] /\ outs[3] = r[3]
    BY <1>9, <1>11, <2>2
  <2>4. cut > 0 => outs[4] = r[4]
    BY <1>9, <1>11, <2>2
  <2> QED BY <1>10, <1>11, <2>2, <2>3, <2>4
<1>13. ValueOut(outs) = pads + l.worth + funds - 1
  <2>1. CASE cut > 0 /\ change > 0
    <3>1. Len(outs) = 5 /\ outs[4] = d /\ outs[5] = e
      BY <1>9, <1>10, <1>12, <2>1
    <3>2. ValueOut(outs) = a.value + b.value + c.value + d.value + e.value
      BY <1>7, <1>12, <3>1
    <3> QED BY <1>1, <1>5, <1>6, <3>2
  <2>2. CASE cut > 0 /\ ~(change > 0)
    <3>1. Len(outs) = 4 /\ outs[4] = d /\ change = 0
      BY <1>1, <1>9, <1>10, <1>12, <2>2
    <3>2. ValueOut(outs) = a.value + b.value + c.value + d.value
      BY <1>7, <1>12, <3>1
    <3> QED BY <1>1, <1>5, <1>6, <3>1, <3>2
  <2>3. CASE ~(cut > 0) /\ change > 0
    <3>1. Len(outs) = 4 /\ outs[4] = e /\ cut = 0
      BY <1>1, <1>9, <1>10, <1>12, <2>3
    <3>2. ValueOut(outs) = a.value + b.value + c.value + e.value
      BY <1>7, <1>12, <3>1
    <3> QED BY <1>1, <1>5, <1>6, <3>1, <3>2
  <2>4. CASE ~(cut > 0) /\ ~(change > 0)
    <3>1. Len(outs) = 3 /\ change = 0 /\ cut = 0
      BY <1>1, <1>9, <1>10, <1>12, <2>4
    <3>2. ValueOut(outs) = a.value + b.value + c.value
      BY <1>7, <1>12, <3>1
    <3> QED BY <1>1, <1>5, <1>6, <3>1, <3>2
  <2> QED BY <2>1, <2>2, <2>3, <2>4
<1>14. Len(outs) = 3 + (IF cut > 0 THEN 1 ELSE 0) + (IF change > 0 THEN 1 ELSE 0)
  BY <1>9, <1>10, <1>12
<1>15. ValueOut(outs) = pads + l.worth + funds - MinerFee
  BY <1>1, <1>13
<1> QED BY <1>1, <1>12, <1>14, <1>15 DEF LaidOut, outs, a, b, c, d, e, cut, change

\* What a buyer brings, and what is sold, on the chain now.
Purse(t, p, q, f) ==
  /\ {p, q, f} \subseteq DOMAIN stall /\ p # q /\ f # p /\ f # q
  /\ \A c \in {p, q, f} : stall[c].to = t /\ stall[c].item = None
Carries(l) ==
  /\ l.carrier \in DOMAIN stall /\ stall[l.carrier].value = l.worth
  /\ stall[l.carrier].to = l.to /\ stall[l.carrier].item = l.offset
Swap(tx, l, t, p, q, f) ==
  /\ t \in Traders /\ Purse(t, p, q, f) /\ Deal(l) /\ Carries(l) /\ l.to # t
  /\ tx.ins = <<p, q, l.carrier, f>>
  /\ tx.outs = Layout(l, stall[p].value + stall[q].value, stall[f].value, t) /\ tx.outs # None
  /\ tx.time \in Nat /\ tx.time <= clock

\* The coins of a swap are four, and their numbers add up.
LEMMA SwapDrawn ==
  ASSUME ChainSound, NEW tx, NEW l, NEW t, NEW p, NEW q, NEW f, Swap(tx, l, t, p, q, f)
  PROVE  /\ Drawn(tx) /\ Range(tx.ins) = {p, q, l.carrier, f} /\ l.carrier \notin {p, q, f}
         /\ \A c \in {p, q, f} : stall[c].value \in Nat
         /\ Cardinality(Range(tx.ins)) = Len(tx.ins)
         /\ Inscribed(tx) = {stall[p].value + stall[q].value + l.offset}
         /\ ValueOut(tx.outs) <= ValueIn(tx.ins)
<1> DEFINE c == l.carrier
           pv == stall[p].value
           qv == stall[q].value
           fv == stall[f].value
           ins == <<p, q, c, f>>
<1>1. tx.ins = ins /\ tx.outs = Layout(l, pv + qv, fv, t) /\ tx.outs # None /\ tx.time \in Nat /\ tx.time <= clock
      /\ {p, q, f} \subseteq DOMAIN stall /\ c \in DOMAIN stall /\ Deal(l) /\ t \in Traders
  BY DEF Swap, Purse, Carries
<1>2. /\ pv \in Nat /\ qv \in Nat /\ fv \in Nat /\ stall[c].value = l.worth /\ l.worth \in Nat
      /\ stall[c].item = l.offset /\ l.offset \in Nat
  <2>1. \A x \in DOMAIN stall : stall[x].value \in Nat
    BY DEF ChainSound, Coinage
  <2> QED BY <1>1, <2>1 DEF Swap, Carries, Deal
<1>3. None \notin Nat
  BY SettlementAssumption
<1>4. stall[p].item = None /\ stall[q].item = None /\ stall[f].item = None
  BY DEF Swap, Purse
<1>5. c \notin {p, q, f} /\ p # q /\ f # p /\ f # q
  BY <1>2, <1>3, <1>4 DEF Swap, Purse
<1>6. ins \in Seq(DOMAIN stall) /\ Len(ins) = 4 /\ DOMAIN ins = 1 .. 4
      /\ ins[1] = p /\ ins[2] = q /\ ins[3] = c /\ ins[4] = f
  <2> HIDE DEF c
  <2> QED BY <1>1
<1>7. pv + qv \in Nat /\ pv + qv + fv \in Nat
  BY <1>2
<1> DEFINE pads == pv + qv
<1>8. Drawn(tx) /\ ValueOut(tx.outs) = pads + l.worth + fv - MinerFee
  <2> HIDE DEF pads, fv
  <2>1. pads \in Nat /\ fv \in Nat
    BY <1>2, <1>7 DEF pads, fv
  <2>2. tx.outs = Layout(l, pads, fv, t)
    BY <1>1 DEF pads, fv
  <2>3. tx.outs \in Seq(Payment) /\ ValueOut(tx.outs) = pads + l.worth + fv - MinerFee
    BY <1>1, <2>1, <2>2, LayoutIs DEF LaidOut
  <2> HIDE DEF ins
  <2> QED BY <1>1, <1>6, <2>3 DEF Drawn
<1>9. Range(ins) = {p, q, c, f}
  <2>1. Range(ins) = {ins[k] : k \in 1 .. 4}
    BY <1>6 DEF Range
  <2> HIDE DEF ins, c
  <2> QED BY <1>6, <2>1
<1>10. Cardinality({p, q, c, f}) = 4
  <2> HIDE DEF c
  <2>1. Cardinality({p}) = 1 /\ IsFiniteSet({p})
    BY FS_Singleton
  <2>2. Cardinality({p} \cup {q}) = 2 /\ IsFiniteSet({p} \cup {q})
    BY <1>5, <2>1, FS_AddElement
  <2>3. Cardinality({p} \cup {q} \cup {c}) = 3 /\ IsFiniteSet({p} \cup {q} \cup {c})
    BY <1>5, <2>2, FS_AddElement
  <2>4. Cardinality({p} \cup {q} \cup {c} \cup {f}) = 4
    BY <1>5, <2>3, FS_AddElement
  <2>5. {p} \cup {q} \cup {c} \cup {f} = {p, q, c, f}
    OBVIOUS
  <2> QED BY <2>4, <2>5
<1>11. ValueIn(ins) = pv + qv + l.worth + fv
  <2> DEFINE v == [k \in DOMAIN ins |-> stall[ins[k]].value]
  <2>1. v \in Seq(Nat) /\ Len(v) = 4 /\ ValueIn(ins) = AddUp(v)
    BY <1>6, ValuesAre DEF ValueIn
  <2>2. v[1] = pv /\ v[2] = qv /\ v[3] = l.worth /\ v[4] = fv
    <3> HIDE DEF ins, c
    <3> QED BY <1>2, <1>6 DEF c
  <2> HIDE DEF v
  <2>3. AddUp(v) = v[1] + v[2] + v[3] + v[4]
    BY <2>1, SumSpelled
  <2> QED BY <2>1, <2>2, <2>3
<1>12. ValueOut(tx.outs) <= ValueIn(tx.ins)
  <2> HIDE DEF pv, qv, fv, ins, c
  <2> QED BY <1>1, <1>2, <1>8, <1>11 DEF MinerFee
<1>13. Inscribed(tx) = {pads + l.offset}
  <2>1. {k \in DOMAIN ins : stall[ins[k]].item # None} = {3}
    <3> HIDE DEF ins, c
    <3>1. \A k \in 1 .. 4 : k = 1 \/ k = 2 \/ k = 3 \/ k = 4
      OBVIOUS
    <3>2. stall[c].item # None
      BY <1>2, <1>3 DEF c
    <3> QED BY <1>4, <1>6, <3>1, <3>2
  <2>2. SubSeq(ins, 1, 3 - 1) = <<p, q>>
    <3> DEFINE r == SubSeq(ins, 1, 2)
    <3>1. Len(r) = 2 /\ r[1] = p /\ r[2] = q /\ r \in Seq(DOMAIN stall)
      <4> HIDE DEF ins
      <4> QED BY <1>6
    <3>2. r = <<r[1], r[2]>>
      <4> HIDE DEF r
      <4> QED BY <3>1
    <3> QED BY <3>1, <3>2
  <2>3. ValueIn(<<p, q>>) = pads
    <3> DEFINE w == <<p, q>>
               v == [k \in DOMAIN w |-> stall[w[k]].value]
    <3>1. w \in Seq(DOMAIN stall) /\ Len(w) = 2 /\ DOMAIN w = 1 .. 2 /\ w[1] = p /\ w[2] = q
      BY <1>1
    <3>2. v \in Seq(Nat) /\ Len(v) = 2 /\ ValueIn(w) = AddUp(v)
      BY <3>1, ValuesAre DEF ValueIn
    <3>3. v[1] = pv /\ v[2] = qv
      <4> HIDE DEF w
      <4> QED BY <3>1
    <3> HIDE DEF v
    <3>4. AddUp(v) = v[1] + v[2]
      BY <3>2, SumSpelled
    <3> QED BY <3>2, <3>3, <3>4
  <2>4. Inscribed(tx) = {ValueIn(SubSeq(ins, 1, k - 1)) + stall[ins[k]].item : k \in {3}}
    BY <1>1, <2>1 DEF Inscribed
  <2> HIDE DEF ins, pads, c
  <2> QED BY <1>2, <1>6, <2>2, <2>3, <2>4 DEF c
<1> QED BY <1>1, <1>2, <1>5, <1>6, <1>8, <1>9, <1>10, <1>12, <1>13

\* What a few payments come to, and that the first two are part of it.
LEMMA PaymentsSpelled ==
  ASSUME NEW s \in Seq(Payment)
  PROVE  /\ Len(s) = 0 => ValueOut(s) = 0
         /\ Len(s) = 1 => ValueOut(s) = s[1].value
         /\ Len(s) \in 2 .. 5 => ValueOut(s) >= s[1].value + s[2].value
<1> DEFINE v == [k \in DOMAIN s |-> s[k].value]
<1>1. v \in Seq(Nat) /\ Len(v) = Len(s) /\ ValueOut(s) = AddUp(v) /\ DOMAIN s = 1 .. Len(s) /\ Len(s) \in Nat
  BY PaymentsAre DEF ValueOut
<1>2. \A k \in 1 .. Len(s) : v[k] = s[k].value
  BY <1>1
<1> HIDE DEF v
<1>3. \A k \in 1 .. Len(s) : v[k] \in Nat
  BY <1>1
<1>4. Len(s) = 0 => AddUp(v) = 0
  BY <1>1, SumSpelled
<1>5. Len(s) = 1 => AddUp(v) = v[1]
  BY <1>1, SumSpelled
<1>6. Len(s) = 2 => AddUp(v) = v[1] + v[2]
  BY <1>1, SumSpelled
<1>7. Len(s) = 3 => AddUp(v) >= v[1] + v[2]
  <2>1. Len(s) = 3 => AddUp(v) = v[1] + v[2] + v[3]
    BY <1>1, SumSpelled
  <2> QED BY <1>1, <1>3, <2>1
<1>8. Len(s) = 4 => AddUp(v) >= v[1] + v[2]
  <2>1. Len(s) = 4 => AddUp(v) = v[1] + v[2] + v[3] + v[4]
    BY <1>1, SumSpelled
  <2> QED BY <1>1, <1>3, <2>1
<1>9. Len(s) = 5 => AddUp(v) >= v[1] + v[2]
  <2>1. Len(s) = 5 => AddUp(v) = v[1] + v[2] + v[3] + v[4] + v[5]
    BY <1>1, SumSpelled
  <2> QED BY <1>1, <1>3, <2>1
<1>10. Len(s) >= 1 => v[1] = s[1].value /\ v[1] \in Nat
  BY <1>1, <1>2, <1>3
<1>11. Len(s) >= 2 => v[2] = s[2].value /\ v[2] \in Nat
  BY <1>1, <1>2, <1>3
<1>12. Len(s) \in 2 .. 5 => Len(s) = 2 \/ Len(s) = 3 \/ Len(s) = 4 \/ Len(s) = 5
  OBVIOUS
<1>13. Len(s) \in 2 .. 5 => AddUp(v) >= v[1] + v[2]
  <2>1. Len(s) = 2 => AddUp(v) >= v[1] + v[2]
    BY <1>6, <1>10, <1>11
  <2> QED BY <1>7, <1>8, <1>9, <1>12, <2>1
<1> QED BY <1>1, <1>4, <1>5, <1>10, <1>11, <1>13

\* In a swap, the inscribed unit is the first of the second output, and no other output has one.
LEMMA SwapItems ==
  ASSUME ChainSound, NEW tx, NEW l, NEW t, NEW p, NEW q, NEW f, Swap(tx, l, t, p, q, f)
  PROVE  /\ ItemOf(tx, 2) = 0
         /\ \A k \in DOMAIN tx.outs \ {2} : ItemOf(tx, k) = None
<1> DEFINE outs == tx.outs
           pads == stall[p].value + stall[q].value
           pos == pads + l.offset
           before(k) == ValueOut(SubSeq(outs, 1, k - 1))
           within(k) == {i - before(k) : i \in {i \in Inscribed(tx) : i >= before(k) /\ i < before(k) + outs[k].value}}
<1>1. /\ Inscribed(tx) = {pos} /\ Drawn(tx) /\ outs \in Seq(Payment)
      /\ stall[p].value \in Nat /\ stall[q].value \in Nat /\ stall[f].value \in Nat
  BY SwapDrawn DEF Drawn
<1>2. Deal(l) /\ t \in Traders /\ outs = Layout(l, pads, stall[f].value, t) /\ outs # None /\ l.offset \in Nat
  BY DEF Swap, Deal
<1>3. pads \in Nat /\ pos \in Nat
  BY <1>1, <1>2
<1> HIDE DEF pads
<1>4. /\ outs[1] = Output(t, pos) /\ outs[2] = Output(t, Postage) /\ Len(outs) \in 3 .. 5
  <2> HIDE DEF outs
  <2> DEFINE fv == stall[f].value
  <2>1. fv \in Nat
    BY <1>1
  <2>2. outs = Layout(l, pads, fv, t) /\ Layout(l, pads, fv, t) # None
    BY <1>2
  <2> HIDE DEF fv
  <2> DEFINE change == l.worth - l.offset + fv - Postage - l.price - MinerFee
  <2>3. Len(outs) = 3 + (IF CutOf[l.price] > 0 THEN 1 ELSE 0) + (IF change > 0 THEN 1 ELSE 0)
        /\ outs[1] = Output(t, pos) /\ outs[2] = Output(t, Postage)
    <3>1. LaidOut(outs, l, pads, fv, t)
      BY <1>2, <1>3, <2>1, <2>2, LayoutIs
    <3> QED BY <3>1 DEF LaidOut
  <2> HIDE DEF change
  <2> QED BY <2>3
<1>5. outs[1].value = pos /\ outs[2].value = 1 /\ Postage = 1
  BY <1>4 DEF Output, Postage
<1>6. ASSUME NEW k \in 1 .. Len(outs)
      PROVE  /\ SubSeq(outs, 1, k - 1) \in Seq(Payment) /\ Len(SubSeq(outs, 1, k - 1)) = k - 1
             /\ k > 1 => SubSeq(outs, 1, k - 1)[1] = outs[1]
             /\ k > 2 => SubSeq(outs, 1, k - 1)[2] = outs[2]
  <2> HIDE DEF outs
  <2>1. k - 1 \in 0 .. Len(outs)
    BY <1>4
  <2> QED BY <1>1, <1>4, <2>1
<1>7. before(1) = 0 /\ before(2) = pos /\ (\A k \in 3 .. Len(outs) : before(k) >= pos + 1 /\ before(k) \in Nat)
  <2> HIDE DEF outs, pos
  <2>1. before(1) = 0
    <3>1. SubSeq(outs, 1, 1 - 1) \in Seq(Payment) /\ Len(SubSeq(outs, 1, 1 - 1)) = 0
      BY <1>4, <1>6
    <3> QED BY <3>1, PaymentsSpelled
  <2>2. before(2) = pos
    <3>1. /\ SubSeq(outs, 1, 2 - 1) \in Seq(Payment) /\ Len(SubSeq(outs, 1, 2 - 1)) = 1
          /\ SubSeq(outs, 1, 2 - 1)[1] = outs[1]
      BY <1>4, <1>6
    <3> QED BY <1>5, <3>1, PaymentsSpelled
  <2>3. ASSUME NEW k \in 3 .. Len(outs) PROVE before(k) >= pos + 1 /\ before(k) \in Nat
    <3> DEFINE r == SubSeq(outs, 1, k - 1)
    <3>1. r \in Seq(Payment) /\ Len(r) = k - 1 /\ r[1] = outs[1] /\ r[2] = outs[2]
      BY <1>4, <1>6
    <3>2. Len(r) \in 2 .. 5
      BY <1>4, <3>1
    <3> HIDE DEF r
    <3>3. ValueOut(r) >= r[1].value + r[2].value /\ ValueOut(r) \in Nat
      BY <3>1, <3>2, PaymentsSpelled, PaymentsAre
    <3> QED BY <1>5, <3>1, <3>3 DEF r
  <2> QED BY <2>1, <2>2, <2>3
<1>8. \A k : ItemOf(tx, k) = IF within(k) = {} THEN None ELSE Min(within(k))
  BY DEF ItemOf
<1>9. \A k : within(k) = {i - before(k) : i \in {i \in {pos} : i >= before(k) /\ i < before(k) + outs[k].value}}
  BY <1>1
<1>10. DOMAIN outs = 1 .. Len(outs)
  BY <1>1
<1> HIDE DEF before, pos, outs, within
<1>11. within(2) = {0}
  <2>1. within(2) = {i - pos : i \in {i \in {pos} : i >= pos /\ i < pos + 1}}
    BY <1>5, <1>7, <1>9
  <2> QED BY <1>3, <2>1
<1>12. Min({0}) = 0
  BY DEF Min
<1>13. within(1) = {}
  <2>1. within(1) = {i - 0 : i \in {i \in {pos} : i >= 0 /\ i < 0 + pos}}
    BY <1>5, <1>7, <1>9
  <2> QED BY <1>3, <2>1
<1>14. ASSUME NEW k \in 3 .. Len(outs) PROVE within(k) = {}
  <2>1. before(k) >= pos + 1 /\ before(k) \in Nat
    BY <1>7
  <2>2. ~(pos >= before(k))
    BY <1>3, <2>1
  <2> QED BY <1>9, <2>2
<1>15. \A k \in DOMAIN outs \ {2} : k = 1 \/ k \in 3 .. Len(outs)
  BY <1>4, <1>10
<1>16. ItemOf(tx, 2) = 0
  BY <1>8, <1>11, <1>12
<1>17. \A k \in DOMAIN outs \ {2} : ItemOf(tx, k) = None
  BY <1>8, <1>13, <1>14, <1>15
<1> QED BY <1>16, <1>17 DEF outs

PlainOf(coins, t) == {c \in DOMAIN coins : coins[c].to = t /\ coins[c].item = None}
\* What a trader's plain coins are worth is a sum.
LEMMA WorthIs ==
  ASSUME NEW coins, NEW t, IsFiniteSet(DOMAIN coins), \A c \in DOMAIN coins : coins[c].value \in Nat
  PROVE  Worth(coins, t) = SumOver([c \in DOMAIN coins |-> coins[c].value], PlainOf(coins, t))
<1> DEFINE w == [c \in DOMAIN coins |-> coins[c].value]
           R == PlainOf(coins, t)
           D(f, s) == IF s = {} THEN 0 ELSE coins[Chosen(s)].value + f[s \ {Chosen(s)}]
           left == CHOOSE f : f = [s \in SUBSET R |-> D(f, s)]
<1>1. IsFiniteSet(R) /\ R \subseteq DOMAIN coins /\ \A x \in R : w[x] \in Nat /\ w[x] = coins[x].value
  <2>1. R \in SUBSET DOMAIN coins
    BY DEF PlainOf
  <2> QED BY <2>1, FS_Subset
<1>2. Worth(coins, t) = MapThenSumSet(LAMBDA c : coins[c].value, R)
  BY DEF Worth, PlainOf
<1> HIDE DEF R, w
<1>3. Worth(coins, t) = left[R]
  BY <1>2 DEF MapThenSumSet, MapThenFoldSet, Chosen
<1>4. \A s \in SUBSET R : s # {} => Chosen(s) \in R /\ w[Chosen(s)] = coins[Chosen(s)].value
  BY <1>1 DEF Chosen
<1>5. \A f : Fixed(f, w, R) <=> f = [s \in SUBSET R |-> D(f, s)]
  <2> SUFFICES ASSUME NEW f PROVE Fixed(f, w, R) <=> f = [s \in SUBSET R |-> D(f, s)]
    OBVIOUS
  <2>1. [s \in SUBSET R |-> IF s = {} THEN 0 ELSE w[Chosen(s)] + f[s \ {Chosen(s)}]] = [s \in SUBSET R |-> D(f, s)]
    BY <1>4
  <2> HIDE DEF D
  <2> QED BY <2>1, Zenon DEF Fixed
<1> HIDE DEF D
<1>6. PICK g : Fixed(g, w, R)
  BY <1>1, SumFixed
<1>7. Fixed(left, w, R)
  <2>1. left = [s \in SUBSET R |-> D(left, s)]
    BY <1>5, <1>6
  <2> HIDE DEF left
  <2> QED BY <1>5, <2>1
<1> HIDE DEF left
<1>8. left[R] = SumOver(w, R)
  BY <1>1, <1>7, SumFixed
<1> QED BY <1>3, <1>8 DEF w, R

\* What a transaction does to a trader's plain coins: less what goes in, more what comes out.
LEMMA WorthMoves ==
  ASSUME ChainSound, NEW tx, Drawn(tx), NEW t
  PROVE  LET w == [c \in DOMAIN stall |-> stall[c].value]
             v == [k \in DOMAIN tx.outs |-> tx.outs[k].value]
             wentIn == PlainOf(stall, t) \cap Range(tx.ins)
             got == {k \in DOMAIN tx.outs : tx.outs[k].to = t /\ ItemOf(tx, k) = None}
         IN /\ Worth(Moved(tx), t) + SumOver(w, wentIn) = Worth(stall, t) + SumOver(v, got)
            /\ Worth(stall, t) \in Nat /\ Worth(Moved(tx), t) \in Nat
<1> DEFINE w == [c \in DOMAIN stall |-> stall[c].value]
           v == [k \in DOMAIN tx.outs |-> tx.outs[k].value]
           wentIn == PlainOf(stall, t) \cap Range(tx.ins)
           got == {k \in DOMAIN tx.outs : tx.outs[k].to = t /\ ItemOf(tx, k) = None}
           M == Moved(tx)
           u == [c \in DOMAIN M |-> M[c].value]
           kept == PlainOf(stall, t) \ Range(tx.ins)
           new == {made + k : k \in got}
<1>1. /\ made \in Nat /\ DOMAIN stall \subseteq 1 .. made /\ tx.outs \in Seq(Payment)
      /\ DOMAIN tx.outs = 1 .. Len(tx.outs) /\ Len(tx.outs) \in Nat
  BY DEF ChainSound, Drawn
<1>2. /\ DOMAIN M = (DOMAIN stall \ Range(tx.ins)) \cup {made + k : k \in DOMAIN tx.outs}
      /\ DOMAIN M \subseteq 1 .. made + Len(tx.outs)
      /\ M \in [DOMAIN M -> Coinage]
      /\ \A c \in DOMAIN stall \ Range(tx.ins) : M[c] = stall[c]
      /\ \A k \in DOMAIN tx.outs :
           /\ made + k \notin DOMAIN stall
           /\ M[made + k] = [value |-> tx.outs[k].value, to |-> tx.outs[k].to,
                             item |-> ItemOf(tx, k), time |-> tx.time]
  BY MovedRight
<1> HIDE DEF M
<1>0. ASSUME NEW k \in DOMAIN tx.outs
      PROVE  /\ made + k \in DOMAIN M /\ made + k \notin DOMAIN stall /\ M[made + k].value = tx.outs[k].value
             /\ M[made + k].to = tx.outs[k].to /\ M[made + k].item = ItemOf(tx, k)
  <2> DEFINE x == made + k
  <2>1. /\ x \in DOMAIN M /\ x \notin DOMAIN stall
        /\ M[x] = [value |-> tx.outs[k].value, to |-> tx.outs[k].to, item |-> ItemOf(tx, k), time |-> tx.time]
    BY <1>2
  <2> HIDE DEF x
  <2> QED BY <2>1 DEF x
<1>3. /\ \A c \in DOMAIN stall : stall[c].value \in Nat
      /\ \A c \in DOMAIN M : M[c].value \in Nat
      /\ \A k \in DOMAIN tx.outs : tx.outs[k].value \in Nat
  <2>1. \A c \in DOMAIN stall : stall[c] \in Coinage
    BY DEF ChainSound
  <2>2. \A k \in DOMAIN tx.outs : tx.outs[k] \in Payment
    BY <1>1
  <2>3. \A c \in DOMAIN M : M[c] \in Coinage
    BY <1>2
  <2> QED BY <2>1, <2>2, <2>3 DEF Coinage, Payment
<1>4. IsFiniteSet(DOMAIN stall) /\ IsFiniteSet(DOMAIN M) /\ IsFiniteSet(DOMAIN tx.outs)
  <2>1. made + Len(tx.outs) \in Nat /\ Len(tx.outs) \in Nat
    BY <1>1
  <2>2. \A n \in Nat : IsFiniteSet(1 .. n)
    BY FS_Interval
  <2> QED BY <1>1, <1>2, <2>1, <2>2, FS_Subset
<1>5. Worth(stall, t) = SumOver(w, PlainOf(stall, t)) /\ Worth(M, t) = SumOver(u, PlainOf(M, t))
  BY <1>3, <1>4, WorthIs
<1>6. /\ \A c \in DOMAIN stall : w[c] = stall[c].value
      /\ \A c \in DOMAIN M : u[c] = M[c].value
      /\ \A k \in DOMAIN tx.outs : v[k] = tx.outs[k].value
  OBVIOUS
<1>7. /\ PlainOf(stall, t) \subseteq DOMAIN stall /\ PlainOf(M, t) \subseteq DOMAIN M
      /\ wentIn \cup kept = PlainOf(stall, t) /\ wentIn \cap kept = {}
  BY DEF PlainOf
<1>8. IsFiniteSet(wentIn) /\ IsFiniteSet(kept) /\ IsFiniteSet(got) /\ IsFiniteSet(PlainOf(M, t))
      /\ IsFiniteSet(PlainOf(stall, t))
  <2>1. wentIn \subseteq DOMAIN stall /\ kept \subseteq DOMAIN stall /\ got \subseteq DOMAIN tx.outs
    BY <1>7
  <2> QED BY <1>4, <1>7, <2>1, FS_Subset
<1>9. PlainOf(M, t) = kept \cup new /\ kept \cap new = {}
  <2>1. ASSUME NEW c \in DOMAIN stall \ Range(tx.ins) PROVE c \in PlainOf(M, t) <=> c \in kept
    BY <1>2 DEF PlainOf
  <2>2. ASSUME NEW k \in DOMAIN tx.outs PROVE made + k \in PlainOf(M, t) <=> k \in got
    <3> DEFINE x == made + k
    <3>1. /\ x \in DOMAIN M /\ M[x].to = tx.outs[k].to /\ M[x].item = ItemOf(tx, k)
      BY <1>0
    <3> HIDE DEF x
    <3>2. x \in PlainOf(M, t) <=> k \in got
      BY <3>1 DEF PlainOf
    <3> QED BY <3>2 DEF x
  <2>3. \A k \in got : k \in DOMAIN tx.outs
    OBVIOUS
  <2>4. kept \subseteq DOMAIN stall \ Range(tx.ins)
    BY <1>7
  <2>5. new \subseteq {made + k : k \in DOMAIN tx.outs}
    BY <2>3
  <2>6. \A c \in new : \E k \in got : c = made + k
    OBVIOUS
  <2>7. \A k \in got : made + k \in new
    OBVIOUS
  <2>8. \A k \in DOMAIN tx.outs : made + k \notin DOMAIN stall
    BY <1>0
  <2>9. ASSUME NEW c \in PlainOf(M, t) PROVE c \in kept \/ c \in new
    <3>1. c \in DOMAIN M
      BY <1>7
    <3>2. CASE c \in DOMAIN stall \ Range(tx.ins)
      BY <2>1, <3>2
    <3>3. CASE c \in {made + k : k \in DOMAIN tx.outs}
      <4>1. PICK k \in DOMAIN tx.outs : c = made + k
        BY <3>3
      <4> HIDE DEF got, new
      <4> QED BY <2>2, <2>7, <4>1
    <3> QED BY <1>2, <3>1, <3>2, <3>3
  <2>10. \A c \in kept : c \in PlainOf(M, t)
    BY <2>1, <2>4
  <2>11. \A c \in new : c \in PlainOf(M, t) /\ c \notin kept
    <3> SUFFICES ASSUME NEW k \in got PROVE made + k \in PlainOf(M, t) /\ made + k \notin kept
      OBVIOUS
    <3>1. k \in DOMAIN tx.outs
      BY <2>3
    <3> HIDE DEF got, new, kept
    <3> QED BY <2>2, <2>4, <2>8, <3>1
  <2> HIDE DEF kept, got, new
  <2> QED BY <2>9, <2>10, <2>11
<1>10. IsFiniteSet(new) /\ kept \subseteq DOMAIN M /\ new \subseteq DOMAIN M
  <2>1. new \subseteq PlainOf(M, t) /\ kept \subseteq PlainOf(M, t)
    BY <1>9
  <2> QED BY <1>7, <1>8, <2>1, FS_Subset
<1> DEFINE h == [k \in got |-> made + k]
<1>11. SumOver(v, got) = SumOver(u, new)
  <2>1. h \in [got -> new] /\ \A k \in got : h[k] = made + k
    OBVIOUS
  <2>2. \A k, m \in got : h[k] = h[m] => k = m
    <3>1. \A k \in got : k \in Nat
      BY <1>1
    <3> HIDE DEF got
    <3> QED BY <1>1, <2>1, <3>1
  <2>3. \A z \in new : \E k \in got : h[k] = z
    BY <2>1
  <2>4. \A k \in got : v[k] \in Nat /\ u[h[k]] = v[k]
    <3> SUFFICES ASSUME NEW k \in got PROVE v[k] \in Nat /\ u[made + k] = v[k]
      BY <2>1
    <3>1. k \in DOMAIN tx.outs /\ made + k \in DOMAIN M
      BY <1>0
    <3>2. M[made + k].value = tx.outs[k].value
      BY <1>0, <3>1
    <3> HIDE DEF u, v, got
    <3> QED BY <1>3, <1>6, <3>1, <3>2
  <2> HIDE DEF h, u, v, got, new
  <2> QED BY <1>8, <1>10, <2>1, <2>2, <2>3, <2>4, SumAlike
<1>12. SumOver(w, kept) = SumOver(u, kept)
  <2>1. \A c \in kept : c \in DOMAIN stall /\ c \in DOMAIN M /\ M[c] = stall[c]
    <3>1. \A c \in kept : c \in DOMAIN stall \ Range(tx.ins)
      BY <1>7
    <3> QED BY <1>2, <1>10, <3>1
  <2>2. \A c \in kept : w[c] \in Nat /\ u[c] = w[c]
    <3> HIDE DEF w, u, kept
    <3> QED BY <1>3, <1>6, <2>1
  <2> HIDE DEF w, u, kept
  <2> QED BY <1>8, <2>2, SumSame
<1>13. /\ \A c \in wentIn \cup kept : w[c] \in Nat
       /\ \A c \in kept \cup new : u[c] \in Nat
  <2>1. wentIn \cup kept \subseteq DOMAIN stall /\ kept \cup new \subseteq DOMAIN M
    BY <1>7, <1>10
  <2> HIDE DEF w, u, kept, wentIn, new
  <2> QED BY <1>3, <1>6, <2>1
<1>14. \A k \in got : v[k] \in Nat
  BY <1>3
<1> HIDE DEF w, u, v, kept, wentIn, new, got, h
<1>15. SumOver(w, wentIn \cup kept) = SumOver(w, wentIn) + SumOver(w, kept)
  BY <1>7, <1>8, <1>13, SumApart
<1>16. SumOver(u, kept \cup new) = SumOver(u, kept) + SumOver(u, new)
  BY <1>8, <1>9, <1>10, <1>13, SumApart
<1>17. SumOver(w, wentIn) \in Nat /\ SumOver(w, kept) \in Nat /\ SumOver(v, got) \in Nat
  BY <1>8, <1>13, <1>14, SumNumber
<1>18. Worth(stall, t) = SumOver(w, wentIn) + SumOver(w, kept)
  BY <1>5, <1>7, <1>15
<1>19. Worth(M, t) = SumOver(w, kept) + SumOver(v, got)
  BY <1>5, <1>9, <1>11, <1>12, <1>16
<1> QED BY <1>17, <1>18, <1>19 DEF w, v, wentIn, got, M

\* The outputs of a swap, whom they pay and where they are.
LEMMA SwapOuts ==
  ASSUME ChainSound, NEW tx, NEW l, NEW t, NEW p, NEW q, NEW f, Swap(tx, l, t, p, q, f)
  PROVE  LET outs == tx.outs
             cut == CutOf[l.price]
             change == l.worth - l.offset + stall[f].value - Postage - l.price - MinerFee
             n == Len(outs)
         IN /\ cut \in Nat /\ change \in Nat /\ Net(l.price) \in Nat /\ n \in 3 .. 5 /\ DOMAIN outs = 1 .. n
            /\ \A k \in 1 .. n : \/ k = 1 \/ k = 2 \/ k = 3
                                 \/ k = 4 /\ cut > 0 /\ outs[k].to = House /\ outs[k].value = cut
                                 \/ k = n /\ k > 3 /\ change > 0 /\ outs[k].to = t /\ outs[k].value = change
            /\ outs[1].to = t /\ outs[1].value = stall[p].value + stall[q].value + l.offset
            /\ outs[2].to = t /\ outs[2].value = Postage
            /\ outs[3].to = l.to /\ outs[3].value = Net(l.price)
            /\ cut > 0 => 4 \in 1 .. n /\ outs[4].to = House /\ outs[4].value = cut
            /\ change > 0 => n > 3 /\ outs[n].to = t /\ outs[n].value = change
<1> DEFINE outs == tx.outs
           pads == stall[p].value + stall[q].value
           fv == stall[f].value
           cut == CutOf[l.price]
           change == l.worth - l.offset + fv - Postage - l.price - MinerFee
<1>1. /\ Drawn(tx) /\ outs \in Seq(Payment)
      /\ stall[p].value \in Nat /\ stall[q].value \in Nat /\ fv \in Nat
  BY SwapDrawn DEF Drawn
<1>2. Deal(l) /\ t \in Traders /\ outs = Layout(l, pads, fv, t) /\ Layout(l, pads, fv, t) # None
  BY DEF Swap
<1>3. pads \in Nat
  BY <1>1
<1> HIDE DEF pads, fv, outs
<1> HIDE DEF cut, change
<1>4. /\ cut \in Nat /\ change \in Nat /\ Net(l.price) \in Nat
      /\ Len(outs) = 3 + (IF cut > 0 THEN 1 ELSE 0) + (IF change > 0 THEN 1 ELSE 0)
      /\ outs[1] = Output(t, pads + l.offset) /\ outs[2] = Output(t, Postage)
      /\ outs[3] = Output(l.to, Net(l.price))
      /\ cut > 0 => outs[4] = Output(House, cut)
      /\ change > 0 => outs[Len(outs)] = Output(t, change)
  <2>1. LaidOut(outs, l, pads, fv, t)
    BY <1>1, <1>2, <1>3, LayoutIs
  <2> QED BY <2>1 DEF LaidOut, cut, change
<1>5. /\ outs[1].to = t /\ outs[1].value = pads + l.offset
      /\ outs[2].to = t /\ outs[2].value = Postage
      /\ outs[3].to = l.to /\ outs[3].value = Net(l.price)
      /\ cut > 0 => outs[4].to = House /\ outs[4].value = cut
      /\ change > 0 => outs[Len(outs)].to = t /\ outs[Len(outs)].value = change
  BY <1>4 DEF Output
<1>6. Len(outs) \in 3 .. 5 /\ DOMAIN outs = 1 .. Len(outs) /\ (cut > 0 => 4 \in 1 .. Len(outs))
      /\ (change > 0 => Len(outs) > 3)
  BY <1>1, <1>4
<1>7. ASSUME NEW k \in 1 .. Len(outs)
      PROVE  \/ k = 1 \/ k = 2 \/ k = 3
             \/ k = 4 /\ cut > 0 /\ outs[k].to = House /\ outs[k].value = cut
             \/ k = Len(outs) /\ k > 3 /\ change > 0 /\ outs[k].to = t /\ outs[k].value = change
  <2>1. k = 1 \/ k = 2 \/ k = 3 \/ k = 4 \/ k = 5
    BY <1>6
  <2>2. CASE k = 4
    <3>1. cut > 0 \/ change > 0
      BY <1>4, <2>2
    <3>2. CASE cut > 0
      BY <1>5, <2>2, <3>2
    <3>3. CASE ~(cut > 0)
      <4>1. change > 0 /\ k = Len(outs)
        BY <1>4, <2>2, <3>1, <3>3
      <4>2. outs[k].to = t /\ outs[k].value = change
        BY <1>5, <4>1
      <4> QED BY <2>2, <4>1, <4>2
    <3> QED BY <3>2, <3>3
  <2>3. CASE k = 5
    <3>1. change > 0 /\ k = Len(outs)
      BY <1>4, <2>3
    <3>2. outs[k].to = t /\ outs[k].value = change
      BY <1>5, <3>1
    <3> QED BY <2>3, <3>1, <3>2
  <2> QED BY <2>1, <2>2, <2>3
<1> QED BY <1>4, <1>5, <1>6, <1>7 DEF pads, fv, outs, cut, change

\* What the buyer ends up with, as arithmetic.
LEMMA Balance ==
  ASSUME NEW after \in Nat, NEW before \in Nat, NEW pv \in Nat, NEW qv \in Nat, NEW fv \in Nat, NEW offset \in Nat,
         NEW worth \in Nat, NEW price \in Nat, NEW change \in Nat,
         after + (pv + qv + fv) = before + (pv + qv + offset + change),
         change = worth - offset + fv - 1 - price - 1
  PROVE  after - before = worth - 1 - price - 1
OBVIOUS

\* What a payment of a transaction is as a coin.
LEMMA NewCoin ==
  ASSUME ChainSound, NEW tx, Drawn(tx), NEW k \in DOMAIN tx.outs, NEW x, x = made + k
  PROVE  /\ x \in DOMAIN Moved(tx) \ DOMAIN stall
         /\ Moved(tx)[x].value = tx.outs[k].value /\ Moved(tx)[x].to = tx.outs[k].to
         /\ Moved(tx)[x].item = ItemOf(tx, k)
<1> DEFINE M == Moved(tx)
<1>1. /\ x \in DOMAIN M /\ x \notin DOMAIN stall
      /\ M[x] = [value |-> tx.outs[k].value, to |-> tx.outs[k].to, item |-> ItemOf(tx, k), time |-> tx.time]
  <2>1. made + k \in DOMAIN M
    BY MovedRight
  <2>2. /\ made + k \notin DOMAIN stall
        /\ M[made + k] = [value |-> tx.outs[k].value, to |-> tx.outs[k].to, item |-> ItemOf(tx, k),
                          time |-> tx.time]
    BY MovedRight
  <2> HIDE DEF M
  <2> QED BY <2>1, <2>2
<1> HIDE DEF M
<1> QED BY <1>1 DEF M

\* A swap that is made costs the buyer and pays the seller what was agreed, and delivers.
LEMMA SwapPays ==
  ASSUME ChainSound, NEW tx, NEW l, NEW t, NEW p, NEW q, NEW f, Swap(tx, l, t, p, q, f)
  PROVE  /\ Worth(Moved(tx), l.to) = Worth(stall, l.to) + Net(l.price)
                                       + (IF l.to = House THEN CutOf[l.price] ELSE 0)
         /\ Worth(Moved(tx), t) - Worth(stall, t) = l.worth - Postage - l.price - MinerFee
         /\ \E c \in DOMAIN Moved(tx) \ DOMAIN stall :
              Moved(tx)[c].to = t /\ Moved(tx)[c].item = 0 /\ Moved(tx)[c].value = Postage
<1> DEFINE outs == tx.outs
           pv == stall[p].value
           qv == stall[q].value
           fv == stall[f].value
           cut == CutOf[l.price]
           change == l.worth - l.offset + fv - Postage - l.price - MinerFee
           n == Len(outs)
           w == [c \in DOMAIN stall |-> stall[c].value]
           v == [k \in DOMAIN outs |-> outs[k].value]
           wentIn(x) == PlainOf(stall, x) \cap Range(tx.ins)
           got(x) == {k \in DOMAIN outs : outs[k].to = x /\ ItemOf(tx, k) = None}
<1>1. /\ Drawn(tx) /\ Range(tx.ins) = {p, q, l.carrier, f} /\ l.carrier \notin {p, q, f}
      /\ pv \in Nat /\ qv \in Nat /\ fv \in Nat
  BY SwapDrawn
<1>2. /\ {p, q, f} \subseteq DOMAIN stall /\ p # q /\ f # p /\ f # q
      /\ \A c \in {p, q, f} : stall[c].to = t /\ stall[c].item = None
      /\ stall[l.carrier].item = l.offset /\ l.to # t /\ l.offset \in Nat /\ t \in Traders
      /\ l.worth \in Nat /\ l.price \in Nat /\ Net(l.price) = l.price - cut
  BY SettlementAssumption DEF Swap, Purse, Carries, Deal, Net
<1>3. None \notin Nat /\ House # t
  BY <1>2, SettlementAssumption
<1>4. ItemOf(tx, 2) = 0 /\ \A k \in DOMAIN outs \ {2} : ItemOf(tx, k) = None
  BY SwapItems
<1>5. /\ cut \in Nat /\ change \in Nat /\ Net(l.price) \in Nat /\ n \in 3 .. 5 /\ DOMAIN outs = 1 .. n
      /\ \A k \in 1 .. n : \/ k = 1 \/ k = 2 \/ k = 3
                           \/ k = 4 /\ cut > 0 /\ outs[k].to = House /\ outs[k].value = cut
                           \/ k = n /\ k > 3 /\ change > 0 /\ outs[k].to = t /\ outs[k].value = change
      /\ outs[1].to = t /\ outs[1].value = pv + qv + l.offset
      /\ outs[2].to = t /\ outs[2].value = Postage
      /\ outs[3].to = l.to /\ outs[3].value = Net(l.price)
      /\ cut > 0 => 4 \in 1 .. n /\ outs[4].to = House /\ outs[4].value = cut
      /\ change > 0 => n > 3 /\ outs[n].to = t /\ outs[n].value = change
  BY SwapOuts
<1>6. ASSUME NEW x
      PROVE  /\ Worth(Moved(tx), x) + SumOver(w, wentIn(x)) = Worth(stall, x) + SumOver(v, got(x))
             /\ Worth(stall, x) \in Nat /\ Worth(Moved(tx), x) \in Nat
  BY <1>1, WorthMoves
<1>7. /\ \A k \in 1 .. n : v[k] = outs[k].value
      /\ w[p] = pv /\ w[q] = qv /\ w[f] = fv
  BY <1>2, <1>5
<1>8. change = l.worth - l.offset + fv - 1 - l.price - 1 /\ Postage = 1 /\ MinerFee = 1
  BY DEF Postage, MinerFee
<1>9. wentIn(t) = {p, q, f}
  <2>1. l.carrier \notin PlainOf(stall, t)
    BY <1>2, <1>3 DEF PlainOf
  <2>2. {p, q, f} \subseteq PlainOf(stall, t)
    BY <1>2 DEF PlainOf
  <2> QED BY <1>1, <2>1, <2>2
<1>10. wentIn(l.to) = {}
  <2>1. l.carrier \notin PlainOf(stall, l.to)
    BY <1>2, <1>3 DEF PlainOf
  <2>2. \A c \in {p, q, f} : c \notin PlainOf(stall, l.to)
    BY <1>2 DEF PlainOf
  <2> QED BY <1>1, <2>1, <2>2
<1> HIDE DEF outs, w, v, wentIn, cut, change, pv, qv, fv, n
<1>11. \A k \in 1 .. n : k \in got(t) <=> k = 1 \/ (k = n /\ change > 0)
  <2> SUFFICES ASSUME NEW k \in 1 .. n PROVE k \in got(t) <=> k = 1 \/ (k = n /\ change > 0)
    OBVIOUS
  <2>1. k \in got(t) <=> outs[k].to = t /\ k # 2
    <3>1. CASE k = 2
      <4>1. ItemOf(tx, k) = 0
        BY <1>4, <3>1
      <4> QED BY <1>3, <3>1, <4>1
    <3>2. CASE k # 2
      BY <1>4, <1>5, <3>2
    <3> QED BY <3>1, <3>2
  <2> HIDE DEF got
  <2>2. outs[k].to = t => k = 1 \/ k = 2 \/ (k = n /\ change > 0)
    BY <1>2, <1>3, <1>5
  <2>3. k = 1 \/ (k = n /\ change > 0) => outs[k].to = t /\ k # 2
    BY <1>5
  <2> QED BY <1>5, <2>1, <2>2, <2>3
<1>12. \A k \in 1 .. n : k \in got(l.to) <=> k = 3 \/ (k = 4 /\ cut > 0 /\ l.to = House)
  <2> SUFFICES ASSUME NEW k \in 1 .. n PROVE k \in got(l.to) <=> k = 3 \/ (k = 4 /\ cut > 0 /\ l.to = House)
    OBVIOUS
  <2>1. k \in got(l.to) <=> outs[k].to = l.to /\ k # 2
    <3>1. CASE k = 2
      <4>1. ItemOf(tx, k) = 0
        BY <1>4, <3>1
      <4> QED BY <1>3, <3>1, <4>1
    <3>2. CASE k # 2
      BY <1>4, <1>5, <3>2
    <3> QED BY <3>1, <3>2
  <2> HIDE DEF got
  <2>2. outs[k].to = l.to => k = 3 \/ (k = 4 /\ cut > 0 /\ l.to = House)
    BY <1>2, <1>3, <1>5
  <2>3. k = 3 \/ (k = 4 /\ cut > 0 /\ l.to = House) => outs[k].to = l.to /\ k # 2
    BY <1>5
  <2> QED BY <2>1, <2>2, <2>3
<1>13. got(t) \subseteq 1 .. n /\ got(l.to) \subseteq 1 .. n
  BY <1>5
<1> HIDE DEF got
<1>14. SumOver(v, got(t)) = pv + qv + l.offset + change
  <2>0. v[1] = pv + qv + l.offset /\ v[1] \in Nat /\ 1 \in 1 .. n
    BY <1>1, <1>2, <1>5, <1>7
  <2>1. CASE change > 0
    <3>1. n > 3 /\ n \in 1 .. n /\ v[n] = change /\ 1 # n
      BY <1>5, <1>7, <2>1
    <3>2. got(t) = {1, n}
      BY <1>11, <1>13, <2>0, <2>1, <3>1
    <3>3. SumOver(v, {1, n}) = v[1] + v[n]
      <4>1. change \in Nat
        BY <1>5
      <4> QED BY <2>0, <3>1, <4>1, SumOfTwo
    <3> QED BY <2>0, <3>1, <3>2, <3>3
  <2>2. CASE ~(change > 0)
    <3>1. change = 0
      BY <1>5, <2>2
    <3>2. got(t) = {1}
      BY <1>11, <1>13, <2>0, <2>2
    <3>3. SumOver(v, {1}) = v[1]
      BY <2>0, SumOfOne
    <3> QED BY <1>1, <1>2, <2>0, <3>1, <3>2, <3>3
  <2> QED BY <2>1, <2>2
<1>15. SumOver(v, got(l.to)) = Net(l.price) + (IF l.to = House THEN cut ELSE 0)
  <2>0. v[3] = Net(l.price) /\ v[3] \in Nat /\ 3 \in 1 .. n
    BY <1>5, <1>7
  <2>1. CASE cut > 0 /\ l.to = House
    <3>1. 4 \in 1 .. n /\ v[4] = cut
      BY <1>5, <1>7, <2>1
    <3>2. got(l.to) = {3, 4}
      BY <1>12, <1>13, <2>0, <2>1, <3>1
    <3>3. SumOver(v, {3, 4}) = v[3] + v[4]
      <4>1. v[4] \in Nat /\ v[3] \in Nat /\ 3 # 4
        BY <1>5, <2>0, <3>1
      <4> HIDE DEF v
      <4> QED BY <4>1, SumOfTwo
    <3> QED BY <2>0, <2>1, <3>1, <3>2, <3>3
  <2>2. CASE ~(cut > 0 /\ l.to = House)
    <3>1. l.to = House => cut = 0
      BY <1>5, <2>2
    <3>2. got(l.to) = {3}
      BY <1>12, <1>13, <2>0, <2>2
    <3>3. SumOver(v, {3}) = v[3]
      BY <2>0, SumOfOne
    <3> QED BY <1>5, <2>0, <3>1, <3>2, <3>3
  <2> QED BY <2>1, <2>2
<1>16. SumOver(w, wentIn(t)) = pv + qv + fv
  <2>1. /\ p # q /\ p # f /\ q # f /\ w[p] \in Nat /\ w[q] \in Nat /\ w[f] \in Nat
    BY <1>1, <1>2, <1>7
  <2>2. SumOver(w, {p, q, f}) = w[p] + w[q] + w[f]
    <3>1. SumOver(w, {q, f}) = w[q] + w[f] /\ IsFiniteSet({q, f})
      BY <2>1, SumOfTwo
    <3>2. {p, q, f} = {q, f} \cup {p} /\ {p, q, f} \ {p} = {q, f}
      BY <2>1
    <3>3. IsFiniteSet({p, q, f})
      BY <3>1, <3>2, FS_AddElement
    <3> DEFINE S == {p, q, f}
    <3>4. p \in S /\ \A c \in S : w[c] \in Nat
      BY <2>1
    <3> HIDE DEF S
    <3>5. SumOver(w, S) = w[p] + SumOver(w, S \ {p})
      BY <3>3, <3>4, SumTake DEF S
    <3>6. SumOver(w, S) = w[p] + SumOver(w, {q, f})
      BY <3>2, <3>5, Zenon DEF S
    <3>7. SumOver(w, S) = w[p] + w[q] + w[f]
      BY <2>1, <3>1, <3>6
    <3> QED BY <3>7, Zenon DEF S
  <2> QED BY <1>7, <1>9, <2>2
<1>17. SumOver(w, wentIn(l.to)) = 0
  BY <1>10, FS_EmptySet, SumNumber
<1>18. Worth(Moved(tx), l.to) = Worth(stall, l.to) + Net(l.price) + (IF l.to = House THEN cut ELSE 0)
  <2>1. Worth(Moved(tx), l.to) + 0 = Worth(stall, l.to) + (Net(l.price) + (IF l.to = House THEN cut ELSE 0))
    BY <1>6, <1>15, <1>17
  <2> QED BY <1>5, <1>6, <2>1
<1>19. Worth(Moved(tx), t) - Worth(stall, t) = l.worth - Postage - l.price - MinerFee
  <2>1. Worth(Moved(tx), t) + (pv + qv + fv) = Worth(stall, t) + (pv + qv + l.offset + change)
    BY <1>6, <1>14, <1>16
  <2>2. Worth(Moved(tx), t) \in Nat /\ Worth(stall, t) \in Nat
    BY <1>6
  <2>3. change \in Nat
    BY <1>5
  <2> QED BY <1>1, <1>2, <1>8, <2>1, <2>2, <2>3, Balance
<1>20. \E c \in DOMAIN Moved(tx) \ DOMAIN stall :
              Moved(tx)[c].to = t /\ Moved(tx)[c].item = 0 /\ Moved(tx)[c].value = Postage
  <2> DEFINE c == made + 2
             M == Moved(tx)
  <2>1. 2 \in DOMAIN tx.outs
    BY <1>5 DEF outs
  <2>2. /\ c \in DOMAIN M \ DOMAIN stall /\ M[c].value = tx.outs[2].value /\ M[c].to = tx.outs[2].to
        /\ M[c].item = ItemOf(tx, 2)
    BY <1>1, <2>1, NewCoin
  <2> HIDE DEF c, M
  <2>3. M[c].to = t /\ M[c].item = 0 /\ M[c].value = Postage
    BY <1>4, <1>5, <2>2 DEF outs
  <2> QED BY <2>2, <2>3 DEF M
<1> QED BY <1>18, <1>19, <1>20 DEF cut

\* What goes in, in order.
LEMMA FourIn ==
  ASSUME NEW p, NEW q, NEW c, NEW f
  PROVE  <<p, q>> \o <<c>> \o <<f>> = <<p, q, c, f>>
<1> DEFINE S == {p, q, c, f}
           r == <<p, q>> \o <<c>>
           s == r \o <<f>>
<1>1. <<p, q>> \in Seq(S) /\ <<c>> \in Seq(S) /\ <<f>> \in Seq(S)
  OBVIOUS
<1> HIDE DEF S
<1>2. r \in Seq(S) /\ Len(r) = 3 /\ r[1] = p /\ r[2] = q /\ r[3] = c
  BY <1>1
<1> HIDE DEF r
<1>3. s \in Seq(S) /\ Len(s) = 4 /\ s[1] = p /\ s[2] = q /\ s[3] = c /\ s[4] = f
  <2> DEFINE e == <<f>>
  <2>2. e \in Seq(S) /\ Len(e) = 1 /\ e[1] = f
    BY <1>1
  <2> HIDE DEF e
  <2>3. /\ r \o e \in Seq(S) /\ Len(r \o e) = Len(r) + Len(e) /\ \A k \in 1 .. Len(r) : (r \o e)[k] = r[k]
        /\ (r \o e)[Len(r \o e)] = e[1]
    <3>1. Len(e) <= 1
      BY <2>2
    <3>2. r \in Seq(S)
      BY <1>2
    <3> QED BY <2>2, <3>1, <3>2, AddsOne
  <2>4. s = r \o e
    BY DEF e
  <2> HIDE DEF s
  <2> QED BY <1>2, <2>2, <2>3, <2>4
<1> HIDE DEF s
<1>4. s = <<s[1], s[2], s[3], s[4]>>
  BY <1>3
<1> QED BY <1>3, <1>4 DEF s, r

\* What the pads and the coin that pays are worth.
LEMMA FewIn ==
  ASSUME ChainSound, NEW p \in DOMAIN stall, NEW q \in DOMAIN stall
  PROVE  /\ ValueIn(<<p, q>>) = stall[p].value + stall[q].value
         /\ ValueIn(<<p>>) = stall[p].value
<1>0. stall[p].value \in Nat /\ stall[q].value \in Nat
  BY DEF ChainSound, Coinage
<1>1. ValueIn(<<p, q>>) = stall[p].value + stall[q].value
  <2> DEFINE w == <<p, q>>
             v == [k \in DOMAIN w |-> stall[w[k]].value]
  <2>1. w \in Seq(DOMAIN stall) /\ Len(w) = 2 /\ DOMAIN w = 1 .. 2 /\ w[1] = p /\ w[2] = q
    OBVIOUS
  <2>2. v \in Seq(Nat) /\ Len(v) = 2 /\ ValueIn(w) = AddUp(v)
    BY <2>1, ValuesAre DEF ValueIn
  <2>3. v[1] = stall[p].value /\ v[2] = stall[q].value
    <3> HIDE DEF w
    <3> QED BY <2>1
  <2> HIDE DEF v
  <2>4. AddUp(v) = v[1] + v[2]
    BY <2>2, SumSpelled
  <2> QED BY <2>2, <2>3, <2>4
<1>2. ValueIn(<<p>>) = stall[p].value
  <2> DEFINE w == <<p>>
             v == [k \in DOMAIN w |-> stall[w[k]].value]
  <2>1. w \in Seq(DOMAIN stall) /\ Len(w) = 1 /\ DOMAIN w = 1 .. 1 /\ w[1] = p
    OBVIOUS
  <2>2. v \in Seq(Nat) /\ Len(v) = 1 /\ ValueIn(w) = AddUp(v)
    BY <2>1, ValuesAre DEF ValueIn
  <2>3. v[1] = stall[p].value
    <3> HIDE DEF w
    <3> QED BY <2>1
  <2> HIDE DEF v
  <2>4. AddUp(v) = v[1]
    BY <2>2, SumSpelled
  <2> QED BY <2>2, <2>3, <2>4
<1> QED BY <1>1, <1>2

\* What a buyer brings is three coins.
LEMMA BringsPurse ==
  ASSUME ChainSound, NEW t \in Traders, NEW b \in Brings(t)
  PROVE  \E p, q, f : /\ Purse(t, p, q, f) /\ b.pads = <<p, q>> /\ b.funds = <<f>>
                      /\ Brought(b) = {p, q, f}
                      /\ ValueIn(b.pads) = stall[p].value + stall[q].value /\ ValueIn(b.funds) = stall[f].value
<1>1. /\ b.pads \in {<<c, d>> : c \in Plain(t), d \in Plain(t)} /\ b.funds \in {<<c>> : c \in Plain(t)}
      /\ b.pads[1] < b.pads[2] /\ b.funds[1] \notin Range(b.pads)
  BY DEF Brings
<1>2. PICK p \in Plain(t), q \in Plain(t) : b.pads = <<p, q>>
  BY <1>1
<1>3. PICK f \in Plain(t) : b.funds = <<f>>
  BY <1>1
<1>4. p \in DOMAIN stall /\ q \in DOMAIN stall /\ f \in DOMAIN stall
  BY DEF Plain
<1>5. p < q /\ f \notin Range(<<p, q>>)
  BY <1>1, <1>2, <1>3
<1>6. Range(<<p, q>>) = {p, q} /\ Range(<<f>>) = {f}
  BY DEF Range
<1>7. p # q /\ f # p /\ f # q
  <2>1. DOMAIN stall \subseteq Int
    BY DEF ChainSound
  <2> QED BY <1>4, <1>5, <1>6, <2>1
<1>8. Purse(t, p, q, f)
  BY <1>4, <1>7 DEF Purse, Plain
<1>9. Brought(b) = {p, q, f}
  BY <1>2, <1>3, <1>6 DEF Brought
<1>10. ValueIn(b.pads) = stall[p].value + stall[q].value /\ ValueIn(b.funds) = stall[f].value
  BY <1>2, <1>3, <1>4, FewIn
<1> QED BY <1>2, <1>3, <1>8, <1>9, <1>10

\* The newest of some coins, and the variant that is picked.
LEMMA NewestIs ==
  ASSUME ChainSound, NEW cs, cs \subseteq DOMAIN stall
  PROVE  Newest(cs) \in Nat /\ \A c \in cs : stall[c].time <= Newest(cs)
<1> DEFINE T == {0} \cup {stall[c].time : c \in cs}
<1>1. clock \in Nat /\ \A c \in cs : stall[c].time \in Nat /\ stall[c].time <= clock
  <2>1. LastTick \in Nat
    BY SettlementAssumption
  <2>2. \A c \in DOMAIN stall : stall[c].time \in Nat
    BY DEF ChainSound, Coinage
  <2> QED BY <2>1, <2>2 DEF ChainSound
<1>2. T \in SUBSET (0 .. clock) /\ T # {}
  BY <1>1
<1>3. Max(T) \in T /\ \A m \in T : Max(T) >= m
  <2> HIDE DEF T
  <2> QED BY <1>1, <1>2, Greatest
<1>4. Newest(cs) = Max(T)
  BY DEF Newest
<1>5. \A c \in cs : stall[c].time \in T
  OBVIOUS
<1> HIDE DEF T
<1> QED BY <1>1, <1>2, <1>3, <1>4, <1>5

\* The variant that is picked is one the book may use now.
LEMMA PickedUsable ==
  ASSUME ChainSound, NEW l, \A v \in l.variants : v.time \in Nat, NEW newest, NEW at,
         PickVariant(l, newest, at) # None
  PROVE  LET v == PickVariant(l, newest, at) IN
           v \in l.variants /\ v.time <= clock /\ v.time >= newest /\ v.at = at /\ v.time \in Nat
<1> DEFINE U == Usable(l, newest, at)
           T == {v.time : v \in U}
<1>1. U # {} /\ PickVariant(l, newest, at) = CHOOSE v \in U : \A w \in U : w.time <= v.time
  BY DEF PickVariant
<1>2. \A v \in U : v \in l.variants /\ v.time <= clock /\ v.time >= newest /\ v.at = at /\ v.time \in Nat
  BY DEF Usable
<1>3. clock \in Nat
  BY SettlementAssumption DEF ChainSound
<1> HIDE DEF U
<1>4. T \in SUBSET (0 .. clock) /\ T # {}
  BY <1>1, <1>2, <1>3
<1>5. Max(T) \in T /\ \A m \in T : Max(T) >= m
  <2> HIDE DEF T
  <2> QED BY <1>3, <1>4, Greatest
<1>6. PICK v \in U : Max(T) = v.time
  BY <1>5
<1>7. \A w \in U : w.time <= v.time
  <2>1. \A w \in U : w.time \in T
    OBVIOUS
  <2>2. T \subseteq Nat
    BY <1>2
  <2> HIDE DEF T
  <2> QED BY <1>2, <1>5, <1>6, <2>1, <2>2
<1>8. PickVariant(l, newest, at) \in U
  BY <1>1, <1>7
<1> QED BY <1>2, <1>8

\* A transaction that moves coins as a swap does, with the signatures it has, is taken.
LEMMA SwapTaken ==
  ASSUME ChainSound, NEW tx, NEW l, NEW t, NEW p, NEW q, NEW f, Swap(tx, l, t, p, q, f), NEW sigs,
         \A s \in sigs : s.at = SellerSlot /\ s.carrier = l.carrier /\ s.time = tx.time
                         /\ s.pays = Output(l.to, Net(l.price)),
         \A c \in {p, q, f, l.carrier} : stall[c].time <= tx.time
  PROVE  NodeTakes(tx, sigs)
<1>1. /\ Drawn(tx) /\ Range(tx.ins) = {p, q, l.carrier, f} /\ l.carrier \notin {p, q, f}
      /\ Cardinality(Range(tx.ins)) = Len(tx.ins) /\ ValueOut(tx.outs) <= ValueIn(tx.ins)
  BY SwapDrawn
<1>2. Unspent(tx)
  BY <1>1 DEF Swap, Purse, Carries, Unspent
<1>3. tx.ins = <<p, q, l.carrier, f>> /\ tx.time <= clock
  BY DEF Swap
<1>4. 3 \in DOMAIN tx.ins /\ tx.ins[3] = l.carrier
  BY <1>3
<1>5. 3 \in DOMAIN tx.outs /\ tx.outs[3] = Output(l.to, Net(l.price))
  <2> DEFINE pads == stall[p].value + stall[q].value
             fv == stall[f].value
  <2>1. /\ stall[p].value \in Nat /\ stall[q].value \in Nat /\ fv \in Nat
    BY SwapDrawn
  <2>2. /\ Deal(l) /\ t \in Traders /\ tx.outs = Layout(l, pads, fv, t) /\ Layout(l, pads, fv, t) # None
    BY DEF Swap
  <2>3. pads \in Nat
    BY <2>1
  <2> HIDE DEF pads, fv
  <2>4. LaidOut(tx.outs, l, pads, fv, t)
    BY <2>1, <2>2, <2>3, LayoutIs
  <2>5. tx.outs[3] = Output(l.to, Net(l.price)) /\ tx.outs \in Seq(Payment)
    BY <2>4 DEF LaidOut
  <2>6. 3 \in DOMAIN tx.outs
    BY SwapOuts
  <2> QED BY <2>5, <2>6
<1>6. \A s \in sigs : Holds(s, tx)
  BY <1>4, <1>5 DEF Holds, SellerSlot
<1>7. \A c \in Range(tx.ins) : stall[c].time <= tx.time
  BY <1>1
<1> QED BY <1>1, <1>2, <1>3, <1>6, <1>7 DEF NodeTakes

\* Time goes on, names are not used again, and a coin that is still there is as it was.
Onward ==
  /\ made <= made' /\ made' \in Nat /\ clock <= clock' /\ clock' \in Int
  /\ \A c \in 1 .. made : c \in DOMAIN stall' => c \in DOMAIN stall /\ stall'[c] = stall[c]

\* What is broadcast keeps the chain sound, if it is a transaction when the node takes it.
LEMMA Sent ==
  ASSUME ChainSound, NEW tx, NEW sigs, NEW deed, clock' = clock, Send(tx, sigs, deed),
         NodeTakes(tx, sigs) => Drawn(tx)
  PROVE  /\ ChainSound' /\ Onward
         /\ trade'.kind = deed.kind /\ trade'.buyer = deed.buyer /\ trade'.sold = deed.sold
         /\ trade'.guessed = deed.guessed /\ (trade'.stale <=> ~Unspent(tx))
         /\ trade'.accepted <=> NodeTakes(tx, sigs)
         /\ NodeTakes(tx, sigs) => stall' = Moved(tx)
<1>1. /\ trade'.kind = deed.kind /\ trade'.buyer = deed.buyer /\ trade'.sold = deed.sold
      /\ trade'.guessed = deed.guessed /\ (trade'.stale <=> ~Unspent(tx))
      /\ trade'.accepted <=> NodeTakes(tx, sigs)
  <2> DEFINE stale == ~Unspent(tx)
             ok == NodeTakes(tx, sigs)
  <2>1. trade' = [kind |-> deed.kind, buyer |-> deed.buyer, sold |-> deed.sold, guessed |-> deed.guessed,
                  stale |-> stale, accepted |-> ok]
    BY DEF Send
  <2> HIDE DEF stale, ok
  <2>2. trade'.stale = stale /\ trade'.accepted = ok
    BY <2>1, Zenon
  <2> QED BY <2>1, <2>2, Zenon DEF stale, ok
<1>2. CASE NodeTakes(tx, sigs)
  <2>1. stall' = Moved(tx) /\ made' = made + Len(tx.outs) /\ Drawn(tx)
    BY <1>2 DEF Send
  <2> DEFINE M == Moved(tx)
  <2>2. /\ DOMAIN M = (DOMAIN stall \ Range(tx.ins)) \cup {made + k : k \in DOMAIN tx.outs}
        /\ DOMAIN M \subseteq 1 .. made + Len(tx.outs) /\ Len(tx.outs) \in Nat
        /\ M \in [DOMAIN M -> Coinage]
        /\ \A c \in DOMAIN stall \ Range(tx.ins) : M[c] = stall[c]
        /\ \A c \in DOMAIN M : M[c].time <= clock
    BY <2>1, MovedRight
  <2>3. made \in Nat /\ clock \in 0 .. LastTick /\ DOMAIN tx.outs = 1 .. Len(tx.outs)
    BY <2>1 DEF ChainSound, Drawn
  <2>4. clock <= clock'
    BY <2>3, SettlementAssumption
  <2> HIDE DEF M
  <2>5. made' \in Nat /\ made <= made'
    BY <2>1, <2>2, <2>3
  <2>6. ASSUME NEW c \in 1 .. made, c \in DOMAIN M PROVE c \in DOMAIN stall /\ M[c] = stall[c]
    <3>1. \A k \in DOMAIN tx.outs : c # made + k
      BY <2>2, <2>3
    <3>2. c \in DOMAIN stall \ Range(tx.ins)
      BY <2>2, <2>6, <3>1
    <3> QED BY <2>2, <3>2
  <2>7. stall' = M
    BY <2>1 DEF M
  <2>8. Onward
    BY <2>3, <2>4, <2>5, <2>6, <2>7 DEF Onward
  <2>9. ChainSound'
    <3>1. made' \in Nat /\ clock' \in 0 .. LastTick
      BY <2>3, <2>5
    <3>2. stall' \in [DOMAIN stall' -> Coinage] /\ DOMAIN stall' \subseteq 1 .. made'
      BY <2>1, <2>2, <2>7
    <3>3. \A c \in DOMAIN stall' : stall'[c].time <= clock'
      BY <2>2, <2>7
    <3> QED BY <3>1, <3>2, <3>3 DEF ChainSound, Coinage, Folk
  <2> QED BY <1>1, <2>1, <2>8, <2>9
<1>3. CASE ~NodeTakes(tx, sigs)
  <2>1. stall' = stall /\ made' = made
    BY <1>3 DEF Send
  <2>2. made \in Nat /\ clock \in Int
    BY DEF ChainSound
  <2>3. Onward
    BY <2>1, <2>2 DEF Onward
  <2>4. ChainSound'
    BY <2>1 DEF ChainSound
  <2> QED BY <1>1, <1>3, <2>3, <2>4
<1> QED BY <1>2, <1>3

\* A listing that was made of a coin: what it says of it is so while the coin is unspent, its variants
\* pay the seller and are no older than the coin.
ListingRight(c, l) ==
  /\ c \in 1 .. made /\ l.carrier = c /\ Deal(l)
  /\ \A v \in l.variants : v.carrier = c /\ v.pays = Output(l.to, Net(l.price)) /\ v.time \in Nat
  /\ c \in DOMAIN stall => Carries(l) /\ \A v \in l.variants : stall[c].time <= v.time
ListingsRight == \A c \in DOMAIN signed : ListingRight(c, signed[c])

\* A bid that was made: while none of its coins is spent, it is the swap that its buyer signed.
OfferRight(o) ==
  \E p, q, f :
    /\ {p, q, f, o.sold.carrier} \subseteq 1 .. made /\ o.tx.ins = <<p, q, o.sold.carrier, f>>
    /\ {p, q, f, o.sold.carrier} \subseteq DOMAIN stall =>
         /\ Swap(o.tx, o.sold, o.buyer, p, q, f)
         /\ \A c \in {p, q, f, o.sold.carrier} : stall[c].time <= o.tx.time
OffersRight == \A o \in offered : OfferRight(o)

SettlementInv == ChainSound /\ ListingsRight /\ OffersRight

\* They stay so.
LEMMA ListingStays ==
  ASSUME ChainSound, Onward, NEW c, NEW l, ListingRight(c, l)
  PROVE  ListingRight(c, l)'
<1>1. made \in Nat /\ made' \in Nat /\ made <= made'
  BY DEF ChainSound, Onward
<1>2. c \in 1 .. made /\ c \in 1 .. made'
  BY <1>1 DEF ListingRight
<1>3. c \in DOMAIN stall' => c \in DOMAIN stall /\ stall'[c] = stall[c]
  BY <1>2 DEF Onward
<1>4. c \in DOMAIN stall' => Carries(l)' /\ \A v \in l.variants : stall'[c].time <= v.time
  BY <1>3 DEF ListingRight, Carries
<1> QED BY <1>2, <1>4 DEF ListingRight, Deal

\* A bid stays right: while all of its coins are unspent, they are as they were.
LEMMA OfferStays ==
  ASSUME ChainSound, Onward, NEW o, OfferRight(o)
  PROVE  OfferRight(o)'
<1>1. made \in Nat /\ made' \in Nat /\ made <= made' /\ clock \in Int /\ clock <= clock'
  BY DEF ChainSound, Onward
<1>2. PICK p, q, f :
        /\ {p, q, f, o.sold.carrier} \subseteq 1 .. made /\ o.tx.ins = <<p, q, o.sold.carrier, f>>
        /\ {p, q, f, o.sold.carrier} \subseteq DOMAIN stall =>
             /\ Swap(o.tx, o.sold, o.buyer, p, q, f)
             /\ \A c \in {p, q, f, o.sold.carrier} : stall[c].time <= o.tx.time
  BY DEF OfferRight
<1>3. {p, q, f, o.sold.carrier} \subseteq 1 .. made'
  BY <1>1, <1>2
<1>4. ASSUME {p, q, f, o.sold.carrier} \subseteq DOMAIN stall'
      PROVE  /\ Swap(o.tx, o.sold, o.buyer, p, q, f)'
             /\ \A c \in {p, q, f, o.sold.carrier} : stall'[c].time <= o.tx.time
  <2>1. \A c \in {p, q, f, o.sold.carrier} : c \in DOMAIN stall /\ stall'[c] = stall[c]
    BY <1>2, <1>4 DEF Onward
  <2>2. /\ Swap(o.tx, o.sold, o.buyer, p, q, f)
        /\ \A c \in {p, q, f, o.sold.carrier} : stall[c].time <= o.tx.time
    BY <1>2, <2>1
  <2>3. o.tx.time <= clock'
    <3>1. o.tx.time \in Nat /\ o.tx.time <= clock /\ clock' \in Int
      BY <2>2 DEF Swap, Onward
    <3> QED BY <1>1, <3>1
  <2>4. Purse(o.buyer, p, q, f)' /\ Carries(o.sold)'
    BY <1>4, <2>1, <2>2 DEF Swap, Purse, Carries
  <2>5. o.tx.outs = Layout(o.sold, stall'[p].value + stall'[q].value, stall'[f].value, o.buyer)
    BY <2>1, <2>2 DEF Swap
  <2>6. Swap(o.tx, o.sold, o.buyer, p, q, f)'
    BY <2>2, <2>3, <2>4, <2>5 DEF Swap, Deal
  <2> QED BY <2>1, <2>2, <2>6
<1> QED BY <1>2, <1>3, <1>4 DEF OfferRight

\* What SaleSettles asks of a step.
SaleStep ==
  trade'.kind \in {"buy", "bid"} =>
    LET l == trade'.sold[1] IN
      /\ trade'.accepted \/ trade'.stale \/ trade'.guessed
      /\ trade'.accepted =>
           /\ Delivered(l, stall')
           /\ Worth(stall', l.to) = Worth(stall, l.to) + Net(l.price)
                                     + (IF l.to = House THEN CutOf[l.price] ELSE 0)
           /\ Worth(stall', trade'.buyer) - Worth(stall, trade'.buyer)
                = l.worth - Postage - l.price - MinerFee

\* Where nothing is broadcast the chain stands still.
LEMMA Still ==
  ASSUME ChainSound, UNCHANGED <<stall, made>>, clock' \in clock .. LastTick
  PROVE  ChainSound' /\ Onward
<1>1. LastTick \in Nat /\ clock \in Nat /\ made \in Nat /\ clock' \in 0 .. LastTick /\ clock <= clock'
  BY SettlementAssumption DEF ChainSound
<1>2. \A c \in DOMAIN stall : stall[c].time \in Nat /\ stall[c].time <= clock
  BY DEF ChainSound, Coinage
<1>3. \A c \in DOMAIN stall' : stall'[c].time <= clock'
  BY <1>1, <1>2
<1>4. ChainSound'
  BY <1>1, <1>3 DEF ChainSound, Coinage, Folk
<1>5. Onward
  BY <1>1 DEF Onward
<1> QED BY <1>4, <1>5

\* What the book and the bids hold already stays right, whatever the step was.
LEMMA OthersStay ==
  ASSUME SettlementInv, Onward
  PROVE  /\ signed' = signed => ListingsRight'
         /\ \A o \in offered : OfferRight(o)'
         /\ \A c \in DOMAIN signed : \A l : l = signed[c] => ListingRight(c, l)'
<1>1. \A o \in offered : OfferRight(o)'
  BY OfferStays DEF SettlementInv, OffersRight
<1>2. ASSUME NEW c \in DOMAIN signed PROVE \A l : l = signed[c] => ListingRight(c, l)'
  BY ListingStays DEF SettlementInv, ListingsRight
<1>3. signed' = signed => ListingsRight'
  BY <1>2 DEF ListingsRight
<1> QED BY <1>1, <1>2, <1>3

\* A coin that carries an inscription, as what is to be sold.
LEMMA DealOf ==
  ASSUME ChainSound, NEW c \in Carrying, NEW price \in Asking, Net(price) > 0, NEW l,
         l.worth = stall[c].value, l.price = price, l.to = stall[c].to, l.offset = stall[c].item, l.carrier = c
  PROVE  Deal(l) /\ Carries(l) /\ c \in 1 .. made /\ c \in DOMAIN stall
<1>1. c \in DOMAIN stall /\ stall[c].item # None
  BY DEF Carrying
<1>2. c \in 1 .. made /\ stall[c] \in Coinage
  BY <1>1 DEF ChainSound
<1>3. stall[c].value \in Nat /\ stall[c].to \in Folk /\ stall[c].item \in Nat
  BY <1>1, <1>2 DEF Coinage
<1> QED BY <1>1, <1>2, <1>3 DEF Deal, Carries

\* A new listing is right, and moves nothing.
LEMMA ListStep ==
  ASSUME SettlementInv, NEW c \in Carrying, NEW price \in Asking, List(c, price)
  PROVE  SettlementInv' /\ trades' = trades
<1> DEFINE to == stall[c].to
           variants == {ListingTemplate(c, price, to, clock + d, at) : d \in Schedule, at \in Slots}
           l == [carrier |-> c, worth |-> stall[c].value, price |-> price, to |-> to, offset |-> stall[c].item,
                 variants |-> variants]
<1>1. /\ Net(price) > 0
      /\ signed' = [k \in DOMAIN signed \cup {c} |-> IF k = c THEN l ELSE signed[k]]
      /\ UNCHANGED <<stall, made, clock, offered, trade, trades>>
  BY DEF List
<1>2. ChainSound /\ ListingsRight /\ OffersRight
  BY DEF SettlementInv
<1>3. clock' \in clock .. LastTick /\ clock \in Nat
  BY <1>1, <1>2, SettlementAssumption DEF ChainSound
<1>4. ChainSound' /\ Onward
  BY <1>1, <1>2, <1>3, Still
<1>5. ListingRight(c, l)
  <2>1. Deal(l) /\ Carries(l) /\ c \in 1 .. made /\ c \in DOMAIN stall
    <3> HIDE DEF variants
    <3>1. l.worth = stall[c].value /\ l.price = price /\ l.to = stall[c].to /\ l.offset = stall[c].item /\ l.carrier = c
      OBVIOUS
    <3> HIDE DEF l
    <3> QED BY <1>1, <1>2, <3>1, DealOf
  <2>2. stall[c].time \in Nat /\ stall[c].time <= clock
    BY <1>2, <2>1 DEF ChainSound, Coinage
  <2>3. ASSUME NEW v \in variants
        PROVE  /\ v.carrier = c /\ v.pays = Output(to, Net(price)) /\ v.time \in Nat
               /\ stall[c].time <= v.time
    <3>1. PICK d \in Schedule, at \in Slots : v = ListingTemplate(c, price, to, clock + d, at)
      OBVIOUS
    <3>2. v.carrier = c /\ v.pays = Output(to, Net(price)) /\ v.time = clock + d
      BY <3>1 DEF ListingTemplate
    <3>3. d \in Nat
      BY SettlementAssumption
    <3> QED BY <1>3, <2>2, <3>2, <3>3
  <2> HIDE DEF variants
  <2>4. l.variants = variants /\ l.carrier = c /\ l.to = to /\ l.price = price
    OBVIOUS
  <2> HIDE DEF l
  <2> QED BY <2>1, <2>3, <2>4 DEF ListingRight
<1> HIDE DEF l
<1>7. ListingsRight'
  <2>1. \A k \in DOMAIN signed : \A m : m = signed[k] => ListingRight(k, m)'
    BY <1>4, OthersStay
  <2>2. ASSUME NEW k \in DOMAIN signed' PROVE \A m : m = signed'[k] => ListingRight(k, m)'
    <3> SUFFICES ASSUME NEW m, m = signed'[k] PROVE ListingRight(k, m)'
      OBVIOUS
    <3>1. CASE k = c
      <4>1. m = l
        BY <1>1, <3>1
      <4>2. \A n : n = l => ListingRight(c, n)'
        BY <1>2, <1>4, <1>5, ListingStays
      <4> QED BY <3>1, <4>1, <4>2
    <3>2. CASE k # c
      <4>1. m = signed[k] /\ k \in DOMAIN signed
        BY <1>1, <3>2
      <4> QED BY <2>1, <4>1
    <3> QED BY <3>1, <3>2
  <2> QED BY <2>2 DEF ListingsRight
<1>8. OffersRight'
  BY <1>1, <1>4, OthersStay DEF OffersRight
<1> QED BY <1>1, <1>4, <1>7, <1>8 DEF SettlementInv

\* A swap that is broadcast, whatever became of its coins: it is taken if they are unspent and its variant
\* was not guessed, and if it is taken it settles.
LEMMA SaleMakes ==
  ASSUME ChainSound, clock' = clock, NEW tx, NEW l, NEW t, NEW p, NEW q, NEW f, NEW sigs, NEW deed,
         Send(tx, sigs, deed), tx.ins = <<p, q, l.carrier, f>>, deed.buyer = t, deed.sold = <<l>>,
         {p, q, f, l.carrier} \subseteq DOMAIN stall => Swap(tx, l, t, p, q, f),
         {p, q, f, l.carrier} \subseteq DOMAIN stall => NodeTakes(tx, sigs) \/ deed.guessed
  PROVE  ChainSound' /\ Onward /\ SaleStep
<1>1. Range(tx.ins) = {p, q, f, l.carrier}
  <2> DEFINE ins == <<p, q, l.carrier, f>>
  <2>1. DOMAIN ins = 1 .. 4 /\ ins[1] = p /\ ins[2] = q /\ ins[3] = l.carrier /\ ins[4] = f
    OBVIOUS
  <2>2. Range(ins) = {ins[k] : k \in 1 .. 4}
    BY <2>1 DEF Range
  <2> HIDE DEF ins
  <2>3. Range(ins) = {p, q, f, l.carrier}
    BY <2>1, <2>2
  <2> QED BY <2>3 DEF ins
<1>2. Unspent(tx) <=> {p, q, f, l.carrier} \subseteq DOMAIN stall
  BY <1>1 DEF Unspent
<1>3. NodeTakes(tx, sigs) => Unspent(tx) /\ Swap(tx, l, t, p, q, f)
  BY <1>2 DEF NodeTakes
<1>4. NodeTakes(tx, sigs) => Drawn(tx)
  BY <1>3, SwapDrawn
<1>5. /\ ChainSound' /\ Onward
      /\ trade'.buyer = t /\ trade'.sold = <<l>>
      /\ trade'.guessed = deed.guessed /\ (trade'.stale <=> ~Unspent(tx))
      /\ trade'.accepted <=> NodeTakes(tx, sigs)
      /\ NodeTakes(tx, sigs) => stall' = Moved(tx)
  BY <1>4, Sent
<1>6. trade'.sold[1] = l
  BY <1>5
<1>7. trade'.accepted \/ trade'.stale \/ trade'.guessed
  <2>1. NodeTakes(tx, sigs) \/ ~Unspent(tx) \/ deed.guessed
    BY <1>2
  <2> QED BY <1>5, <2>1, Zenon
<1>8. ASSUME trade'.accepted
      PROVE  /\ Delivered(l, stall')
             /\ Worth(stall', l.to) = Worth(stall, l.to) + Net(l.price)
                                       + (IF l.to = House THEN CutOf[l.price] ELSE 0)
             /\ Worth(stall', t) - Worth(stall, t) = l.worth - Postage - l.price - MinerFee
  <2>1. stall' = Moved(tx) /\ Swap(tx, l, t, p, q, f)
    BY <1>3, <1>5, <1>8, Zenon
  <2> DEFINE M == Moved(tx)
  <2>2. /\ Worth(M, l.to) = Worth(stall, l.to) + Net(l.price) + (IF l.to = House THEN CutOf[l.price] ELSE 0)
        /\ Worth(M, t) - Worth(stall, t) = l.worth - Postage - l.price - MinerFee
        /\ \E c \in DOMAIN M \ DOMAIN stall : M[c].to = t /\ M[c].item = 0 /\ M[c].value = Postage
    BY <2>1, SwapPays
  <2> HIDE DEF M
  <2>3. stall' = M
    BY <2>1 DEF M
  <2>4. Delivered(l, M)
    BY <1>5, <2>2 DEF Delivered
  <2> QED BY <2>2, <2>3, <2>4
<1>9. SaleStep
  BY <1>5, <1>6, <1>7, <1>8, Zenon DEF SaleStep
<1> QED BY <1>5, <1>9

\* A purchase settles.
LEMMA BuyStep ==
  ASSUME SettlementInv, NEW t \in Traders, NEW b \in Brings(t), NEW c \in DOMAIN signed,
         NEW told \in {Brought(b), {}}, signed[c].to # t, Buy(t, c, b, told)
  PROVE  SettlementInv' /\ SaleStep
<1> DEFINE l == signed[c]
           v == PickVariant(l, Newest(told), SellerSlot)
           outs == Layout(l, ValueIn(b.pads), ValueIn(b.funds), t)
           tx == [ins |-> SwapInputs(b, <<c>>), outs |-> outs, time |-> v.time]
           deed == [kind |-> "buy", buyer |-> t, sold |-> <<l>>, guessed |-> told # Brought(b)]
<1>1. /\ v # None /\ outs # None /\ Send(tx, {v}, deed)
      /\ UNCHANGED <<clock, signed, offered>>
  BY DEF Buy
<1>2. ChainSound /\ ListingRight(c, l) /\ OffersRight
  BY DEF SettlementInv, ListingsRight
<1>3. PICK p, q, f : /\ Purse(t, p, q, f) /\ b.pads = <<p, q>> /\ b.funds = <<f>>
                     /\ Brought(b) = {p, q, f}
                     /\ ValueIn(b.pads) = stall[p].value + stall[q].value
                     /\ ValueIn(b.funds) = stall[f].value
  BY <1>2, BringsPurse
<1>4. /\ v \in l.variants /\ v.time <= clock /\ v.time >= Newest(told) /\ v.at = SellerSlot /\ v.time \in Nat
      /\ v.carrier = c /\ v.pays = Output(l.to, Net(l.price)) /\ l.carrier = c /\ Deal(l)
  <2> HIDE DEF l
  <2>1. /\ v \in l.variants /\ v.time <= clock /\ v.time >= Newest(told) /\ v.at = SellerSlot /\ v.time \in Nat
    <3>1. \A w \in l.variants : w.time \in Nat
      BY <1>2 DEF ListingRight
    <3> QED BY <1>1, <1>2, <3>1, PickedUsable
  <2> HIDE DEF v
  <2> QED BY <1>2, <2>1 DEF ListingRight
<1> HIDE DEF v, outs
<1>5. tx.ins = <<p, q, l.carrier, f>>
  BY <1>3, <1>4, FourIn DEF SwapInputs
<1>6. tx.outs = outs /\ tx.time = v.time /\ deed.buyer = t /\ deed.sold = <<l>>
  OBVIOUS
<1>7. deed.guessed <=> told # Brought(b)
  <2> DEFINE g == told # Brought(b)
  <2> HIDE DEF g
  <2>1. deed.guessed = g
    BY Zenon DEF g
  <2> QED BY <2>1, Zenon DEF g
<1> HIDE DEF tx, deed
<1>8. ASSUME {p, q, f, l.carrier} \subseteq DOMAIN stall PROVE Swap(tx, l, t, p, q, f)
  <2>1. Carries(l)
    BY <1>2, <1>4, <1>8 DEF ListingRight
  <2>2. outs = Layout(l, stall[p].value + stall[q].value, stall[f].value, t)
    BY <1>3 DEF outs
  <2> HIDE DEF l
  <2> QED BY <1>1, <1>3, <1>4, <1>5, <1>6, <2>1, <2>2 DEF Swap, l
<1>9. ASSUME {p, q, f, l.carrier} \subseteq DOMAIN stall, told = Brought(b) PROVE NodeTakes(tx, {v})
  <2>1. Swap(tx, l, t, p, q, f)
    BY <1>8, <1>9
  <2>2. stall[c].time <= v.time
    BY <1>2, <1>4, <1>9 DEF ListingRight
  <2>3. Newest(told) \in Nat /\ \A x \in {p, q, f} : stall[x].time <= Newest(told)
    BY <1>2, <1>3, <1>9, NewestIs
  <2>4. \A x \in {p, q, f} : stall[x].time \in Nat
    BY <1>2, <1>9 DEF ChainSound, Coinage
  <2>5. \A x \in {p, q, f, l.carrier} : stall[x].time <= tx.time
    <3>1. \A x \in {p, q, f} : stall[x].time <= v.time
      BY <1>4, <2>3, <2>4
    <3> QED BY <1>4, <1>6, <2>2, <3>1
  <2>6. \A s \in {v} : s.at = SellerSlot /\ s.carrier = l.carrier /\ s.time = tx.time
                       /\ s.pays = Output(l.to, Net(l.price))
    BY <1>4, <1>6
  <2> HIDE DEF l
  <2> QED BY <1>2, <2>1, <2>5, <2>6, SwapTaken
<1>10. ChainSound' /\ Onward /\ SaleStep
  <2>1. /\ {p, q, f, l.carrier} \subseteq DOMAIN stall => Swap(tx, l, t, p, q, f)
        /\ {p, q, f, l.carrier} \subseteq DOMAIN stall => NodeTakes(tx, {v}) \/ deed.guessed
    BY <1>7, <1>8, <1>9, Zenon
  <2> HIDE DEF l
  <2> QED BY <1>1, <1>2, <1>5, <1>6, <2>1, SaleMakes
<1>11. ListingsRight' /\ OffersRight'
  BY <1>1, <1>10, OthersStay DEF OffersRight
<1> QED BY <1>10, <1>11 DEF SettlementInv

\* A new bid is right, and moves nothing.
LEMMA BidStep ==
  ASSUME SettlementInv, NEW t \in Traders, NEW b \in Brings(t), NEW c \in Carrying, NEW price \in Asking,
         stall[c].to # t, BuildBid(t, c, price, b)
  PROVE  SettlementInv' /\ trades' = trades
<1> DEFINE l == [carrier |-> c, worth |-> stall[c].value, price |-> price, to |-> stall[c].to,
                 offset |-> stall[c].item]
           outs == Layout(l, ValueIn(b.pads), ValueIn(b.funds), t)
           tx == [ins |-> SwapInputs(b, <<c>>), outs |-> outs, time |-> clock]
           o == [tx |-> tx, buyer |-> t, sold |-> l]
<1>1. /\ Net(price) > 0 /\ outs # None /\ offered' = offered \cup {o}
      /\ UNCHANGED <<stall, made, clock, signed, trade, trades>>
  BY DEF BuildBid
<1>2. ChainSound /\ ListingsRight /\ OffersRight
  BY DEF SettlementInv
<1>3. PICK p, q, f : /\ Purse(t, p, q, f) /\ b.pads = <<p, q>> /\ b.funds = <<f>>
                     /\ Brought(b) = {p, q, f}
                     /\ ValueIn(b.pads) = stall[p].value + stall[q].value
                     /\ ValueIn(b.funds) = stall[f].value
  BY <1>2, BringsPurse
<1>4. clock \in Nat /\ clock' \in clock .. LastTick
  BY <1>1, <1>2, SettlementAssumption DEF ChainSound
<1>5. ChainSound' /\ Onward
  BY <1>1, <1>2, <1>4, Still
<1>6. l.worth = stall[c].value /\ l.price = price /\ l.to = stall[c].to /\ l.offset = stall[c].item /\ l.carrier = c
  OBVIOUS
<1> HIDE DEF l, outs
<1>7. Deal(l) /\ Carries(l) /\ c \in 1 .. made /\ c \in DOMAIN stall
  BY <1>1, <1>2, <1>6, DealOf
<1>8. tx.ins = <<p, q, l.carrier, f>> /\ tx.outs = outs /\ tx.time = clock
  BY <1>3, <1>6, FourIn DEF SwapInputs
<1> HIDE DEF tx
<1>9. Swap(tx, l, t, p, q, f)
  <2>1. outs = Layout(l, stall[p].value + stall[q].value, stall[f].value, t)
    BY <1>3 DEF outs
  <2> QED BY <1>1, <1>3, <1>4, <1>6, <1>7, <1>8, <2>1 DEF Swap
<1>10. o.tx = tx /\ o.buyer = t /\ o.sold = l
  OBVIOUS
<1> HIDE DEF o
<1>11. OfferRight(o)
  <2>1. {p, q, f, o.sold.carrier} \subseteq DOMAIN stall
    BY <1>3, <1>6, <1>7, <1>10 DEF Purse
  <2>2. {p, q, f, o.sold.carrier} \subseteq 1 .. made
    BY <1>2, <2>1 DEF ChainSound
  <2>3. \A x \in {p, q, f, o.sold.carrier} : stall[x].time <= o.tx.time
    BY <1>2, <1>8, <1>10, <2>1 DEF ChainSound
  <2> QED BY <1>8, <1>9, <1>10, <2>1, <2>2, <2>3 DEF OfferRight
<1>12. \A x : x = o => OfferRight(x)'
  BY <1>2, <1>5, <1>11, OfferStays
<1>13. ListingsRight' /\ \A x \in offered : OfferRight(x)'
  BY <1>1, <1>5, OthersStay
<1>14. OffersRight'
  BY <1>1, <1>12, <1>13 DEF OffersRight
<1> QED BY <1>1, <1>5, <1>13, <1>14 DEF SettlementInv

\* An accepted bid settles.
LEMMA AcceptStep ==
  ASSUME SettlementInv, NEW o \in offered, AcceptBid(o)
  PROVE  SettlementInv' /\ SaleStep
<1> DEFINE deed == [kind |-> "bid", buyer |-> o.buyer, sold |-> <<o.sold>>, guessed |-> FALSE]
<1>1. Send(o.tx, {}, deed) /\ offered' = offered \ {o} /\ UNCHANGED <<clock, signed>>
  BY DEF AcceptBid
<1>2. ChainSound /\ OfferRight(o)
  BY DEF SettlementInv, OffersRight
<1>3. PICK p, q, f :
        /\ {p, q, f, o.sold.carrier} \subseteq 1 .. made /\ o.tx.ins = <<p, q, o.sold.carrier, f>>
        /\ {p, q, f, o.sold.carrier} \subseteq DOMAIN stall =>
             /\ Swap(o.tx, o.sold, o.buyer, p, q, f)
             /\ \A c \in {p, q, f, o.sold.carrier} : stall[c].time <= o.tx.time
  BY <1>2 DEF OfferRight
<1>4. ASSUME {p, q, f, o.sold.carrier} \subseteq DOMAIN stall PROVE NodeTakes(o.tx, {})
  BY <1>2, <1>3, <1>4, SwapTaken
<1>5. deed.buyer = o.buyer /\ deed.sold = <<o.sold>>
  OBVIOUS
<1> HIDE DEF deed
<1>6. ChainSound' /\ Onward /\ SaleStep
  BY <1>1, <1>2, <1>3, <1>4, <1>5, SaleMakes
<1>7. ListingsRight' /\ \A x \in offered : OfferRight(x)'
  BY <1>1, <1>6, OthersStay
<1>8. OffersRight'
  BY <1>1, <1>7 DEF OffersRight
<1> QED BY <1>6, <1>7, <1>8 DEF SettlementInv

\* A payment to oneself is no sale, and keeps the chain sound.
LEMMA RespendStep ==
  ASSUME SettlementInv, NEW c \in DOMAIN stall, Respend(c)
  PROVE  SettlementInv' /\ SaleStep
<1> DEFINE outs == <<Output(stall[c].to, stall[c].value)>>
           tx == [ins |-> <<c>>, outs |-> outs, time |-> clock]
           deed == [kind |-> "respend", buyer |-> stall[c].to, sold |-> <<>>, guessed |-> FALSE]
<1>1. Send(tx, {}, deed) /\ UNCHANGED <<clock, signed, offered>>
  BY DEF Respend
<1>2. ChainSound
  BY DEF SettlementInv
<1>3. Drawn(tx)
  <2>1. stall[c].to \in Folk /\ stall[c].value \in Nat
    BY <1>2 DEF ChainSound, Coinage
  <2>2. Output(stall[c].to, stall[c].value) \in Payment
    <3> HIDE DEF Folk
    <3> QED BY <2>1 DEF Output, Payment
  <2>3. outs \in Seq(Payment) /\ <<c>> \in Seq(DOMAIN stall)
    BY <2>2
  <2>4. clock \in Nat
    BY <1>2, SettlementAssumption DEF ChainSound
  <2> HIDE DEF outs
  <2> QED BY <2>3, <2>4 DEF Drawn
<1>4. deed.kind = "respend"
  OBVIOUS
<1> HIDE DEF tx, deed
<1>5. ChainSound' /\ Onward /\ trade'.kind = deed.kind
  BY <1>1, <1>2, <1>3, Sent
<1>6. ListingsRight' /\ OffersRight'
  BY <1>1, <1>5, OthersStay DEF OffersRight
<1>7. SaleStep
  BY <1>4, <1>5 DEF SaleStep
<1> QED BY <1>5, <1>6, <1>7 DEF SettlementInv

\* Two lists in a row.
LEMMA FlatTwo ==
  ASSUME NEW S, NEW s, DOMAIN s = 1 .. 2, Len(s) = 2, s[1] \in Seq(S), s[2] \in Seq(S)
  PROVE  FlattenSeq(s) \in Seq(S)
<1> DEFINE D(f) == [i \in 1 .. Len(s) |-> IF i = 1 THEN s[i] ELSE f[i - 1] \o s[i]]
           flat == CHOOSE f : f = D(f)
           g == [i \in 1 .. 2 |-> IF i = 1 THEN s[1] ELSE s[1] \o s[2]]
<1>1. FlattenSeq(s) = flat[2]
  BY DEF FlattenSeq
<1>2. g = D(g)
  OBVIOUS
<1> HIDE DEF D, g
<1>3. flat = D(flat)
  BY <1>2
<1> HIDE DEF flat
<1>4. flat[1] = s[1] /\ flat[2] = flat[1] \o s[2]
  <2>1. \A i \in 1 .. 2 : flat[i] = IF i = 1 THEN s[i] ELSE flat[i - 1] \o s[i]
    BY <1>3 DEF D
  <2> QED BY <2>1
<1> QED BY <1>1, <1>4

\* A function on the first numbers is a list.
LEMMA ListOf ==
  ASSUME NEW n \in Nat, NEW S, NEW s \in [1 .. n -> S]
  PROVE  s \in Seq(S)
OBVIOUS

\* What a sweep pays out is payments.
LEMMA SweepPays ==
  ASSUME ChainSound, NEW b, ValueIn(b.pads) \in Nat, ValueIn(b.funds) \in Nat, NEW t \in Traders,
         NEW ls, DOMAIN ls = 1 .. 2, Len(ls) = 2, Deal(ls[1]), Deal(ls[2]), SweepOuts(ls, b, t) # None
  PROVE  SweepOuts(ls, b, t) \in Seq(Payment)
<1> DEFINE offsets == AddUp([k \in DOMAIN ls |-> ls[k].offset])
           worths == AddUp([k \in DOMAIN ls |-> ls[k].worth])
           each == [k \in DOMAIN ls |-> Fee(ls[k].price)]
           fees == FlattenSeq(each)
           pads == <<Output(t, ValueIn(b.pads) + offsets), Output(t, Postage)>>
           sellers == [k \in DOMAIN ls |-> Output(ls[k].to, Net(ls[k].price))]
           carriers == [k \in 1 .. Len(ls) - 1 |-> Output(t, Postage)]
           fixed == pads \o sellers \o carriers \o fees
           change == ValueIn(b.pads) + worths + ValueIn(b.funds) - ValueOut(fixed) - MinerFee
<1>1. SweepOuts(ls, b, t) = fixed \o ChangeTo(t, change)
  BY DEF SweepOuts
<1>2. \A k \in 1 .. 2 : /\ ls[k].worth \in Nat /\ ls[k].offset \in Nat /\ ls[k].to \in Folk
                        /\ ls[k].price \in Asking /\ Net(ls[k].price) > 0
  <2>1. \A k \in 1 .. 2 : k = 1 \/ k = 2
    OBVIOUS
  <2> QED BY <2>1 DEF Deal
<1>3. offsets \in Nat /\ worths \in Nat
  <2>1. [k \in DOMAIN ls |-> ls[k].offset] \in Seq(Nat) /\ [k \in DOMAIN ls |-> ls[k].worth] \in Seq(Nat)
    BY <1>2, IsASeq
  <2> QED BY <2>1, SumSpelled
<1>4. \A to \in Folk, n \in Nat : Output(to, n) \in Payment
  <2> HIDE DEF Folk
  <2> QED BY DEF Output, Payment
<1>5. t \in Folk /\ House \in Folk /\ Postage \in Nat
  BY DEF Folk, Postage
<1>6. \A k \in 1 .. 2 : Net(ls[k].price) \in Nat /\ CutOf[ls[k].price] \in Nat
  <2> SUFFICES ASSUME NEW k \in 1 .. 2 PROVE Net(ls[k].price) \in Nat /\ CutOf[ls[k].price] \in Nat
    OBVIOUS
  <2> DEFINE price == ls[k].price
  <2>1. price \in Asking /\ Net(price) > 0
    BY <1>2
  <2> HIDE DEF price
  <2>2. price \in Nat /\ CutOf[price] \in Nat
    BY <2>1, SettlementAssumption
  <2>3. Net(price) \in Nat
    BY <2>1, <2>2 DEF Net
  <2> QED BY <2>2, <2>3 DEF price
<1> HIDE DEF offsets, worths, Folk, Payment
<1>7. pads \in Seq(Payment)
  <2>1. ValueIn(b.pads) + offsets \in Nat
    BY <1>3
  <2>2. Output(t, ValueIn(b.pads) + offsets) \in Payment /\ Output(t, Postage) \in Payment
    BY <1>4, <1>5, <2>1
  <2> QED BY <2>2
<1>8. sellers \in Seq(Payment)
  <2>1. \A k \in 1 .. 2 : Output(ls[k].to, Net(ls[k].price)) \in Payment
    BY <1>2, <1>4, <1>6
  <2>2. sellers \in [1 .. 2 -> Payment]
    BY <2>1
  <2> HIDE DEF sellers
  <2> QED BY <2>2, ListOf
<1>9. carriers \in Seq(Payment)
  <2>1. carriers \in [1 .. 1 -> Payment]
    BY <1>4, <1>5
  <2> HIDE DEF carriers
  <2> QED BY <2>1, ListOf
<1>10. fees \in Seq(Payment)
  <2>1. \A k \in 1 .. 2 : Fee(ls[k].price) \in Seq(Payment)
    <3> SUFFICES ASSUME NEW k \in 1 .. 2 PROVE Fee(ls[k].price) \in Seq(Payment)
      OBVIOUS
    <3>1. Output(House, CutOf[ls[k].price]) \in Payment
      BY <1>4, <1>5, <1>6
    <3> QED BY <3>1 DEF Fee
  <2>2. DOMAIN each = 1 .. 2 /\ each[1] \in Seq(Payment) /\ each[2] \in Seq(Payment)
    BY <2>1
  <2>3. Len(each) = 2
    BY LenProperties, <2>2
  <2> HIDE DEF each
  <2> QED BY <2>2, <2>3, FlatTwo
<1> HIDE DEF pads, sellers, carriers, fees
<1>11. fixed \in Seq(Payment)
  BY <1>7, <1>8, <1>9, <1>10
<1> HIDE DEF fixed
<1>12. ValueOut(fixed) \in Nat
  BY <1>11, PaymentsAre
<1>13. change \in Int
  BY <1>3, <1>12 DEF MinerFee
<1> HIDE DEF change
<1>14. ChangeTo(t, change) \in Seq(Payment)
  <2>1. change > 0 => Output(t, change) \in Payment
    BY <1>4, <1>5, <1>13
  <2> QED BY <2>1 DEF ChangeTo
<1> QED BY <1>1, <1>11, <1>14

\* A sweep is put together out of payments, and keeps the chain sound.
LEMMA SweepStep ==
  ASSUME SettlementInv, NEW t \in Traders, NEW b \in Brings(t), NEW c \in DOMAIN signed, NEW d \in DOMAIN signed,
         Sweep(t, <<c, d>>, b)
  PROVE  SettlementInv' /\ SaleStep
<1> DEFINE cs == <<c, d>>
           ls == [k \in DOMAIN cs |-> signed[cs[k]]]
           vs == [k \in DOMAIN cs |-> PickVariant(ls[k], Newest(Brought(b)), SellerSlot + k - 1)]
           outs == SweepOuts(ls, b, t)
           tx == [ins |-> SwapInputs(b, cs), outs |-> outs, time |-> vs[1].time]
           deed == [kind |-> "sweep", buyer |-> t, sold |-> ls, guessed |-> FALSE]
<1>1. /\ \A k \in DOMAIN vs : vs[k] # None
      /\ outs # None /\ Send(tx, Range(vs), deed)
      /\ UNCHANGED <<clock, signed, offered>>
  BY DEF Sweep
<1>2. ChainSound /\ ListingRight(c, signed[c]) /\ ListingRight(d, signed[d])
  BY DEF SettlementInv, ListingsRight
<1>3. PICK p, q, f : /\ Purse(t, p, q, f) /\ b.pads = <<p, q>> /\ b.funds = <<f>>
                     /\ Brought(b) = {p, q, f}
                     /\ ValueIn(b.pads) = stall[p].value + stall[q].value
                     /\ ValueIn(b.funds) = stall[f].value
  BY <1>2, BringsPurse
<1>4. {p, q, f} \subseteq DOMAIN stall /\ ValueIn(b.pads) \in Nat /\ ValueIn(b.funds) \in Nat
  <2>1. \A x \in DOMAIN stall : stall[x].value \in Nat
    BY <1>2 DEF ChainSound, Coinage
  <2> QED BY <1>3, <2>1 DEF Purse
<1>5. DOMAIN cs = 1 .. 2 /\ cs[1] = c /\ cs[2] = d
  OBVIOUS
<1>6. DOMAIN ls = 1 .. 2 /\ ls[1] = signed[c] /\ ls[2] = signed[d] /\ Len(ls) = 2
  <2>1. DOMAIN ls = 1 .. 2 /\ ls[1] = signed[c] /\ ls[2] = signed[d]
    BY <1>5
  <2> HIDE DEF ls
  <2> QED BY <2>1, LenProperties
<1>7. vs[1].time \in Nat /\ vs[1].time <= clock
  <2> DEFINE l == signed[c]
             newest == Newest(Brought(b))
             v == PickVariant(l, newest, SellerSlot + 1 - 1)
  <2>1. 1 \in DOMAIN vs /\ vs[1] = v
    BY <1>5, <1>6
  <2>2. v # None
    BY <1>1, <2>1
  <2>3. \A w \in l.variants : w.time \in Nat
    BY <1>2 DEF ListingRight
  <2> HIDE DEF l, newest, vs
  <2>4. v.time \in Nat /\ v.time <= clock
    BY <1>2, <2>2, <2>3, PickedUsable
  <2> QED BY <2>1, <2>4
<1>8. outs \in Seq(Payment)
  <2>1. Deal(ls[1]) /\ Deal(ls[2])
    BY <1>2, <1>6 DEF ListingRight
  <2> HIDE DEF ls
  <2> QED BY <1>1, <1>2, <1>4, <1>6, <2>1, SweepPays
<1>9. SwapInputs(b, cs) \in Seq(1 .. made)
  <2>1. {p, q, f, c, d} \subseteq 1 .. made
    BY <1>2, <1>4 DEF ChainSound, ListingRight
  <2>2. <<p, q>> \in Seq(1 .. made) /\ <<f>> \in Seq(1 .. made) /\ cs \in Seq(1 .. made)
    BY <2>1
  <2> HIDE DEF cs
  <2> QED BY <1>3, <2>2 DEF SwapInputs
<1>10. tx.ins = SwapInputs(b, cs) /\ tx.outs = outs /\ tx.time = vs[1].time /\ deed.kind = "sweep"
  OBVIOUS
<1> HIDE DEF tx, deed, outs, vs, cs
<1>11. NodeTakes(tx, Range(vs)) => Drawn(tx)
  <2> SUFFICES ASSUME NodeTakes(tx, Range(vs)) PROVE Drawn(tx)
    OBVIOUS
  <2>1. Range(tx.ins) \subseteq DOMAIN stall
    BY DEF NodeTakes, Unspent
  <2>2. tx.ins \in Seq(1 .. made)
    BY <1>9, <1>10
  <2>3. \A k \in 1 .. Len(tx.ins) : tx.ins[k] \in DOMAIN stall
    BY <2>1, <2>2 DEF Range
  <2>4. tx.ins \in Seq(DOMAIN stall)
    BY <2>2, <2>3
  <2> QED BY <1>7, <1>8, <1>10, <2>4 DEF Drawn
<1>12. ChainSound' /\ Onward /\ trade'.kind = deed.kind
  BY <1>1, <1>2, <1>11, Sent
<1>13. ListingsRight' /\ OffersRight'
  BY <1>1, <1>12, OthersStay DEF OffersRight
<1>14. SaleStep
  BY <1>10, <1>12 DEF SaleStep
<1> QED BY <1>12, <1>13, <1>14 DEF SettlementInv

\* Time passes.
LEMMA TickStep ==
  ASSUME SettlementInv, \/ Tick
                        \/ UNCHANGED settlementVars
  PROVE  SettlementInv' /\ trades' = trades
<1>1. ChainSound
  BY DEF SettlementInv
<1>2. clock' \in clock .. LastTick /\ UNCHANGED <<stall, made, signed, offered, trades>>
  <2>1. clock \in 0 .. LastTick /\ LastTick \in Nat
    BY <1>1, SettlementAssumption DEF ChainSound
  <2> QED BY <2>1 DEF Tick, settlementVars
<1>3. ChainSound' /\ Onward
  BY <1>1, <1>2, Still
<1>4. ListingsRight' /\ OffersRight'
  BY <1>2, <1>3, OthersStay DEF OffersRight
<1> QED BY <1>2, <1>3, <1>4 DEF SettlementInv

\* The chain begins with coins of the traders.
LEMMA SettlementStart == SettlementInit => SettlementInv
<1> SUFFICES ASSUME SettlementInit PROVE SettlementInv
  OBVIOUS
<1>1. /\ stall \in Stalls /\ made = Max(DOMAIN stall) /\ clock = 0 /\ signed = <<>> /\ offered = {}
  BY DEF SettlementInit
<1> DEFINE Opening == [value : Nat, to : Traders, item : Nat \cup {None}, time : {0}]
<1>2. stall \in Seq(Opening) /\ stall # <<>> /\ LastTick \in Nat
  BY <1>1, SettlementAssumption
<1>3. \A x \in Opening : x \in Coinage /\ x.time = 0
  BY DEF Coinage, Folk
<1> HIDE DEF Opening
<1>4. DOMAIN stall = 1 .. Len(stall) /\ Len(stall) \in Nat /\ Len(stall) # 0
  BY <1>2
<1>5. made = Len(stall)
  <2> DEFINE n == Len(stall)
             s == DOMAIN stall
  <2>1. n \in Nat /\ s \in SUBSET (0 .. n) /\ n \in s /\ \A m \in s : m <= n
    BY <1>4
  <2> HIDE DEF s, n
  <2>2. Max(s) \in s /\ \A m \in s : Max(s) >= m
    BY <2>1, Greatest
  <2> DEFINE most == Max(s)
  <2> HIDE DEF most
  <2>3. most \in s /\ \A m \in s : most >= m
    BY <2>2 DEF most
  <2>4. most = n
    BY <2>1, <2>3
  <2> QED BY <1>1, <2>4 DEF s, n, most
<1>6. \A c \in DOMAIN stall : stall[c] \in Coinage /\ stall[c].time = 0
  <2>1. \A c \in 1 .. Len(stall) : stall[c] \in Opening
    BY <1>2
  <2> QED BY <1>3, <1>4, <2>1
<1>7. stall \in [DOMAIN stall -> Coinage]
  <2>1. stall = [c \in DOMAIN stall |-> stall[c]]
    BY <1>2
  <2> QED BY <1>6, <2>1
<1>8. ChainSound
  BY <1>1, <1>2, <1>4, <1>5, <1>6, <1>7 DEF ChainSound
<1> QED BY <1>1, <1>8 DEF SettlementInv, ListingsRight, OffersRight

\* Every step keeps what is so, and settles if it is a sale.
LEMMA SettlementSteps ==
  ASSUME SettlementInv, [SettlementNext]_settlementVars
  PROVE  SettlementInv' /\ (trades' # trades => SaleStep)
<1>1. CASE \E c \in Carrying, price \in Asking : List(c, price)
  BY <1>1, ListStep
<1>2. CASE \E t \in Traders : \E b \in Brings(t) : \E c \in DOMAIN signed : \E told \in {Brought(b), {}} :
             signed[c].to # t /\ Buy(t, c, b, told)
  BY <1>2, BuyStep
<1>3. CASE \E t \in Traders : \E b \in Brings(t) :
             \E c, d \in DOMAIN signed : c # d /\ t \notin {signed[c].to, signed[d].to} /\ Sweep(t, <<c, d>>, b)
  BY <1>3, SweepStep
<1>4. CASE \E t \in Traders : \E b \in Brings(t) :
             \E c \in Carrying, price \in Asking : stall[c].to # t /\ BuildBid(t, c, price, b)
  BY <1>4, BidStep
<1>5. CASE \E o \in offered : AcceptBid(o)
  BY <1>5, AcceptStep
<1>6. CASE \E c \in DOMAIN stall : Respend(c)
  BY <1>6, RespendStep
<1>7. CASE Tick \/ UNCHANGED settlementVars
  BY <1>7, TickStep
<1> QED BY <1>1, <1>2, <1>3, <1>4, <1>5, <1>6, <1>7 DEF SettlementNext

\* The type invariant is part of it.
LEMMA SettlementTyped == SettlementInv => SettlementTypeOK
  BY DEF SettlementInv, ChainSound, Coinage, Folk, ListingsRight, ListingRight, SettlementTypeOK

\* For every chain to begin with, every price, fee and schedule: the chain holds coins with names that are
\* not used twice, and what the book and the bids say of a coin is so for as long as nobody has spent it
\* (swap.js: addListing, buildBid).
THEOREM SettlementInvariant == SettlementSpec => []SettlementInv
<1>1. SettlementInv /\ [SettlementNext]_settlementVars => SettlementInv'
  BY SettlementSteps
<1> QED BY <1>1, SettlementStart, PTL DEF SettlementSpec

\* "Settlement is atomic: the same transaction pays the seller and delivers the carrier" (swap.js:8): a sale
\* by listing or bid is refused only over a spent coin or a guessed variant, and one that is accepted pays
\* what was signed, delivers the inscription in a coin of one postage and costs the buyer no more.
THEOREM SettlementCorrect == SettlementSpec => SettlementRight
<1>1. SettlementInv /\ [SettlementNext]_settlementVars
        => [trades' # trades /\ trade'.kind \in {"buy", "bid"} =>
       LET l == trade'.sold[1] IN
         /\ trade'.accepted \/ trade'.stale \/ trade'.guessed
         /\ trade'.accepted =>
              /\ Delivered(l, stall')
              /\ Worth(stall', l.to) = Worth(stall, l.to) + Net(l.price)
                                        + (IF l.to = House THEN CutOf[l.price] ELSE 0)
              /\ Worth(stall', trade'.buyer) - Worth(stall, trade'.buyer)
                   = l.worth - Postage - l.price - MinerFee]_settlementVars
  BY SettlementSteps, Zenon DEF SaleStep
<1> QED BY <1>1, SettlementInvariant, SettlementTyped, PTL DEF SettlementSpec, SaleSettles, SettlementRight
=============================================================================
