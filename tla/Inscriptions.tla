----------------------------- MODULE Inscriptions -----------------------------
(***************************************************************************)
(* src/indexer.js: where inscriptions are, read off the transactions in order, *)
(* and what src/indexservice.js reads off the same transactions for the        *)
(* community drop: the tip of the Alpha collection and the ledger of           *)
(* src/airdrop.js.                                                             *)
(*                                                                             *)
(* The chain keeps the very units each output holds, first in first out.  The  *)
(* index has values and offsets only, and has to arrive at the same place.     *)
(***************************************************************************)
EXTENDS Integers, Sequences, SequencesExt, FiniteSets, FiniteSetsExt, Totals

CONSTANTS
  Addresses,
  Rank,          \* their order as strings: a number each
  NoAddress,     \* an output without one
  Funds,         \* what the first coins hold, a sequence of values
  MaxTxs,
  MaxOuts,       \* outputs of a transaction
  AlphaRoot,     \* alphaParent: the number of the transaction that reveals the root
  MaxTimes       \* MaxTimes[k]: how often an action counts

ASSUME InscriptionsAssumption ==
  /\ Funds \in Seq(Nat) /\ Len(Funds) <= MaxOuts
  /\ MaxTxs \in Nat /\ MaxOuts \in Nat /\ AlphaRoot \in Nat
  /\ Rank \in [Addresses -> Nat] /\ \A a, b \in Addresses : Rank[a] = Rank[b] => a = b
  /\ NoAddress \notin Addresses
  /\ MaxTimes \in [{"inscribe", "alpha", "etch", "coin"} -> Nat]

VARIABLES
  coins,         \* the chain: unspent outpoint -> the units in it and who holds them
  unit,          \* the chain: the unit each inscription was put on
  beside,        \* the chain: those whose units went into the transaction that revealed it
  txs,           \* how many transactions there were: their ids
  height,
  inscriptions,  \* Indexer.inscriptions: id -> record.  The id of a reveal is its transaction
  locations,     \* Indexer.locations: outpoint -> inscriptions and their offsets
  alphaTip,      \* IndexService.alphaTip: the outpoint, address and value, or NoTip
  actors,        \* ActionLedger.actors: address -> action -> heights
  history        \* every action performed, in order

index == <<inscriptions, locations>>
drop  == <<alphaTip, actors, history>>
inscriptionVars  == <<coins, unit, beside, txs, height, index, drop>>

Actions == DOMAIN MaxTimes
TxOut == (0 .. MaxTxs) \X (1 .. MaxOuts)
Burned == <<0, 0>>           \* no outpoint: they count from 1
NoTip == [outpoint |-> "none"]
Ids == DOMAIN inscriptions

Total == AddUp(Funds)
UnitsBefore(k) == AddUp(SubSeq(Funds, 1, k - 1))

InscriptionsTypeOK ==
  /\ DOMAIN coins \subseteq TxOut
  /\ \A o \in DOMAIN coins :
       Range(coins[o].units) \subseteq 1 .. Total /\ coins[o].to \in Addresses \cup {NoAddress}
  /\ txs \in 0 .. MaxTxs /\ height \in 0 .. MaxTxs
  /\ Ids \subseteq 1 .. MaxTxs /\ DOMAIN unit = Ids /\ DOMAIN beside = Ids
  /\ \A i \in Ids :
       /\ inscriptions[i].number \in 0 .. MaxTxs - 1
       /\ inscriptions[i].location \in TxOut \cup {Burned}
       /\ inscriptions[i].owner \in Addresses \cup {NoAddress}
       /\ Range(inscriptions[i].parents) \cup Range(inscriptions[i].children) \subseteq 1 .. MaxTxs
  /\ DOMAIN locations \subseteq TxOut
  /\ alphaTip = NoTip \/ alphaTip.outpoint \in TxOut
  /\ \A a \in DOMAIN actors : \A k \in Actions : Len(actors[a][k]) \in 0 .. MaxTimes[k]

InscriptionsInit ==
  /\ coins = [o \in {<<0, k>> : k \in 1 .. Len(Funds)} |->
                [units |-> [n \in 1 .. Funds[o[2]] |-> UnitsBefore(o[2]) + n], to |-> NoAddress]]
  /\ unit = <<>> /\ beside = <<>>
  /\ txs = 0 /\ height = 0
  /\ inscriptions = <<>> /\ locations = <<>>
  /\ alphaTip = NoTip /\ actors = <<>> /\ history = <<>>

-----------------------------------------------------------------------------
(* The transaction, as the chain has it.                                    *)

\* ins: outpoints; outs: [value, to]; claims: the parents an envelope names, in order.
Value(o) == Len(coins[o].units)
Spends(ins) ==
  /\ \A k, n \in DOMAIN ins : ins[k] = ins[n] => k = n
  /\ Range(ins) \subseteq DOMAIN coins
Values(outs) == [k \in 1 .. Len(outs) |-> outs[k].value]
Pays(ins, outs) == AddUp(Values(outs)) <= AddUp([k \in 1 .. Len(ins) |-> Value(ins[k])])
Start(outs, k) == AddUp(SubSeq(Values(outs), 1, k - 1))

Units(ins) ==
  LET upTo[k \in 0 .. Len(ins)] == IF k = 0 THEN <<>> ELSE upTo[k - 1] \o coins[ins[k]].units
  IN upTo[Len(ins)]
MoveCoins(t, ins, outs) ==
  LET in == Units(ins)
      made == {<<t, k>> : k \in 1 .. Len(outs)} IN
    coins' = [o \in (DOMAIN coins \ Range(ins)) \cup made |->
                IF o \in made
                THEN [units |-> SubSeq(in, Start(outs, o[2]) + 1,
                                       Start(outs, o[2]) + outs[o[2]].value),
                      to |-> outs[o[2]].to]
                ELSE coins[o]]

-----------------------------------------------------------------------------
(* Indexer.processTx.                                                       *)

\* 1) What the inputs carry, with offsets counted through all of them.
Here(o) == IF o \in DOMAIN locations THEN locations[o] ELSE <<>>
OffsetAlone(ins, k) == 0                                \* (mutant: the earlier inputs not counted)
OffsetOfInput(ins, k) == AddUp([n \in 1 .. k - 1 |-> Value(ins[n])])
Carried(ins) ==
  UNION {{[id |-> m.id, at |-> OffsetOfInput(ins, k) + m.offset] : m \in Range(Here(ins[k]))}
           : k \in 1 .. Len(ins)}
InputIds(ins) == {m.id : m \in Carried(ins)}

\* 2) A reveal makes a record; a parent counts if it is among those carried.
Among(claims, ids) == {k \in DOMAIN claims : claims[k] \in ids}     \* by their places
FirstOf(claims, ks) == IF ks = {} THEN 0 ELSE claims[Min(ks)]
Verified(ins, claims) == Among(claims, InputIds(ins))
Record(ins, claims) ==
  [number |-> Cardinality(Ids), parents |-> claims, parent |-> FirstOf(claims, Verified(ins, claims)),
   children |-> <<>>, location |-> Burned, owner |-> NoAddress]
Times(p, ins, claims) == Cardinality({k \in Verified(ins, claims) : claims[k] = p})
WithReveal(t, ins, reveals, claims) ==
  IF ~reveals THEN inscriptions
  ELSE [i \in Ids \cup {t} |->
          IF i = t THEN Record(ins, claims)
          ELSE [inscriptions[i] EXCEPT !.children = @ \o [k \in 1 .. Times(i, ins, claims) |-> t]]]

\* 3) Every one of them to the output its offset falls in, or to the miner: by offset, then number.
AssignToOutput(at, outs) ==
  {k \in 1 .. Len(outs) : Start(outs, k) <= at /\ at < Start(outs, k) + outs[k].value}
Moving(t, ins, reveals) == Carried(ins) \cup (IF reveals THEN {[id |-> t, at |-> 0]} ELSE {})
Place(m, outs) ==
  IF AssignToOutput(m.at, outs) = {} THEN 0 ELSE Min(AssignToOutput(m.at, outs))

InOrder(ms, records) ==
  LET before(m, n) ==
        m.at < n.at \/ (m.at = n.at /\ records[m.id].number <= records[n.id].number)
  IN CHOOSE s \in [1 .. Cardinality(ms) -> ms] :
       \A k, n \in DOMAIN s : k < n => s[k] # s[n] /\ before(s[k], s[n])

Assign(t, ins, outs, reveals, records) ==
  LET moving == Moving(t, ins, reveals)
      at(i) == CHOOSE m \in moving : m.id = i
      put == [k \in 1 .. Len(outs) |-> InOrder({m \in moving : Place(m, outs) = k}, records)]
      filled == {k \in 1 .. Len(outs) : put[k] # <<>>} IN
    /\ inscriptions' = [i \in DOMAIN records |->
         IF ~\E m \in moving : m.id = i THEN records[i]
         ELSE LET k == Place(at(i), outs) IN
                [records[i] EXCEPT !.location = IF k = 0 THEN Burned ELSE <<t, k>>,
                                   !.owner = IF k = 0 THEN NoAddress ELSE outs[k].to]]
    /\ locations' = [o \in (DOMAIN locations \ Range(ins)) \cup {<<t, k>> : k \in filled} |->
         IF o[1] = t
         THEN [n \in 1 .. Len(put[o[2]]) |->
                 [id |-> put[o[2]][n].id, offset |-> put[o[2]][n].at - Start(outs, o[2])]]
         ELSE locations[o]]

-----------------------------------------------------------------------------
(* The drop: ActionLedger, noteActions, followAlphaTip.                     *)

NoHeights == [k \in Actions |-> <<>>]
Heights(a) == IF a \in DOMAIN actors THEN actors[a] ELSE NoHeights

\* record keeps the first occurrences, up to the maximum.
Recorded(s, k, h) == IF Len(s) < MaxTimes[k] THEN Append(s, h) ELSE s

\* What a transaction earns: its address and its action, for the reveal and for the coin minted.
Earned(t, h, ins, took, minted, outs) ==
  LET rec == inscriptions'[t]
      kind == IF took THEN "etch"
              ELSE IF AlphaRoot \in Range(rec.parents) /\ alphaTip # NoTip
                      /\ alphaTip.outpoint \in Range(ins)
              THEN "alpha" ELSE "inscribe" IN
    (IF t \in DOMAIN inscriptions' /\ rec.owner # NoAddress
     THEN <<[who |-> rec.owner, did |-> kind, at |-> h, tx |-> t]>> ELSE <<>>)
    \o (IF minted # 0 /\ outs[minted].to # NoAddress
        THEN <<[who |-> outs[minted].to, did |-> "coin", at |-> h, tx |-> t]>> ELSE <<>>)
NoteActions(t, h, ins, took, minted, outs) ==
  LET earned == Earned(t, h, ins, took, minted, outs)
      did(a, k) == \E e \in Range(earned) : e.who = a /\ e.did = k IN
    /\ actors' = [a \in DOMAIN actors \cup {e.who : e \in Range(earned)} |->
         [k \in Actions |-> IF did(a, k) THEN Recorded(Heights(a)[k], k, h) ELSE Heights(a)[k]]]
    /\ history' = history \o earned

Same(out, tip) == out.to = tip.address /\ out.value = tip.value
Successors(outs) == {k \in 1 .. Len(outs) : Same(outs[k], alphaTip)}
FollowAlphaTip(t, ins, outs) ==
  alphaTip' =
    IF alphaTip = NoTip
    THEN IF t # AlphaRoot \/ t \notin DOMAIN inscriptions' THEN NoTip
         ELSE LET o == inscriptions'[t].location IN
                IF o = Burned THEN NoTip
                ELSE [outpoint |-> o, address |-> outs[o[2]].to, value |-> outs[o[2]].value]
    ELSE IF alphaTip.outpoint \notin Range(ins) THEN alphaTip
    ELSE IF Successors(outs) = {} THEN NoTip
    ELSE [alphaTip EXCEPT !.outpoint = <<t, Max(Successors(outs))>>]

-----------------------------------------------------------------------------
\* applyBlock, one transaction: which output the rune index credits, if it accepted a mint, and
\* whether it accepted an etching, come from there.
Apply(ins, outs, reveals, claims, took, minted, h) ==
  LET t == txs + 1 IN
    /\ txs < MaxTxs /\ Spends(ins) /\ Pays(ins, outs)
    /\ took => reveals
    /\ h \in {height, height + 1}
    /\ txs' = t /\ height' = h
    /\ MoveCoins(t, ins, outs)
    /\ unit' = IF reveals THEN [i \in Ids \cup {t} |->
                                  IF i = t THEN Head(Append(Units(ins), 0)) ELSE unit[i]]
                          ELSE unit
    /\ beside' = IF reveals THEN [i \in Ids \cup {t} |->
                                    IF i = t THEN {p \in Ids : unit[p] \in Range(Units(ins))}
                                    ELSE beside[i]]
                            ELSE beside
    /\ Assign(t, ins, outs, reveals, WithReveal(t, ins, reveals, claims))
    /\ NoteActions(t, h, ins, took, minted, outs)
    /\ FollowAlphaTip(t, ins, outs)

\* Any transaction: it may reveal an inscription that claims whatever it likes, in any block.
Outputs == UNION {[1 .. n -> [value : Nat, to : Addresses \cup {NoAddress}]] : n \in 0 .. MaxOuts}
InscriptionsNext ==
  \E ins \in Seq(DOMAIN coins), outs \in Outputs, claims \in Seq(1 .. MaxTxs), reveals, took \in BOOLEAN :
    \E minted \in 0 .. Len(outs), h \in height .. height + 1 : Apply(ins, outs, reveals, claims, took, minted, h)
InscriptionsSpec == InscriptionsInit /\ [][InscriptionsNext]_inscriptionVars

-----------------------------------------------------------------------------
(* Reading the ledger: at, sharesOf, allocate.                              *)

Count(s, asOf) == Cardinality({n \in DOMAIN s : s[n] <= asOf})
Shares(a, asOf) == MapThenSumSet(LAMBDA k : Count(Heights(a)[k], asOf), Actions)
Roll(asOf) == {a \in DOMAIN actors : Shares(a, asOf) > 0}

\* Floors first; what they leave goes one unit each to the largest remainders, ties by address.
Allocate(asOf, supply) ==
  LET roll == Roll(asOf)
      total == MapThenSumSet(LAMBDA a : Shares(a, asOf), roll)
      exact(a) == supply * Shares(a, asOf)
      left == supply - MapThenSumSet(LAMBDA a : exact(a) \div total, roll)
      ahead(a) == {b \in roll : \/ exact(b) % total > exact(a) % total
                                \/ /\ exact(b) % total = exact(a) % total
                                   /\ Rank[b] < Rank[a]} IN
    [a \in roll |-> exact(a) \div total + (IF Cardinality(ahead(a)) < left THEN 1 ELSE 0)]

-----------------------------------------------------------------------------
(* Properties.                                                              *)

\* The index puts every inscription on the output that holds the unit it was put on, at that unit's
\* offset, and calls it burned exactly when that unit was paid to a miner, through any spends.
WhereItsUnitIs ==
  \A i \in Ids :
    LET on == {o \in DOMAIN coins : unit[i] \in Range(coins[o].units)} IN
      IF on = {} THEN inscriptions[i].location = Burned
      ELSE \A o \in on :
             /\ inscriptions[i].location = o /\ inscriptions[i].owner = coins[o].to
             /\ \E m \in Range(Here(o)) : m.id = i /\ coins[o].units[m.offset + 1] = unit[i]

\* locations and records are two views of one thing: each located inscription is at one outpoint,
\* once, in the order of offsets, and nothing is kept for an outpoint that is spent.
LocationsAgree ==
  /\ DOMAIN locations \subseteq DOMAIN coins
  /\ \A o \in DOMAIN locations :
       /\ {m.id : m \in Range(locations[o])} = {i \in Ids : inscriptions[i].location = o}
       /\ Len(locations[o]) = Cardinality({i \in Ids : inscriptions[i].location = o})
       /\ \A k, n \in 1 .. Len(locations[o]) : k < n => locations[o][k].offset <= locations[o][n].offset

\* "An Alpha is a reveal that claims the root AND spends the tip" (indexservice.js:99): the tip is
\* an unspent coin of the address and the value the root came to, so nobody else could have moved it.
TipIsTheCarrier ==
  alphaTip # NoTip =>
    /\ alphaTip.outpoint \in DOMAIN coins
    /\ coins[alphaTip.outpoint].to = alphaTip.address /\ Value(alphaTip.outpoint) = alphaTip.value

\* "The cap keeps the FIRST occurrences ... that is what makes a snapshot answerable"
\* (airdrop.js:70): for any snapshot height, also one chosen later, the capped ledger gives what
\* counting everything up to it would.
SnapshotAnswerable ==
  \A asOf \in 0 .. height, a \in Addresses, k \in Actions :
    Count(Heights(a)[k], asOf)
      = Min({MaxTimes[k],
             Cardinality({n \in DOMAIN history :
                            history[n].who = a /\ history[n].did = k /\ history[n].at <= asOf})})

\* "The parts are guaranteed to sum to exactly supply" (airdrop.js:165), and nobody is more than one
\* unit from the exact share.
AllOfItAllocated ==
  \A supply \in {1, 5} :
    Roll(height) # {} =>
      LET part == Allocate(height, supply)
          total == MapThenSumSet(LAMBDA a : Shares(a, height), Roll(height)) IN
        /\ MapThenSumSet(LAMBDA a : part[a], Roll(height)) = supply
        /\ \A a \in Roll(height) :
             LET off == part[a] * total - supply * Shares(a, height) IN off < total /\ -off < total

\* "A tag-3 parent claim is verified only if the claimed parent is among these" (indexer.js:108): a
\* parent is the first one claimed whose unit went into the reveal, and it lists the child.
ParentsWereSpent ==
  \A i \in Ids :
    LET rec == inscriptions[i]
        true == Among(rec.parents, beside[i]) IN
      /\ rec.parent = FirstOf(rec.parents, true)
      /\ \A p \in Ids : i \in Range(inscriptions[p].children) <=> \E k \in true : rec.parents[k] = p

\* What the index says of an inscription - its place, its holder, its parent - and of the tip the
\* drop follows is what the units on the chain say (indexer.js:96-172, indexservice.js:228-254); and
\* a snapshot of the drop can be taken from it of any height at any time, and gives all of the supply
\* away (airdrop.js:77-189).
IndexSound ==
  /\ InscriptionsTypeOK
  /\ WhereItsUnitIs /\ LocationsAgree /\ ParentsWereSpent /\ TipIsTheCarrier
  /\ SnapshotAnswerable /\ AllOfItAllocated

-----------------------------------------------------------------------------
(* What comments say, and the code does not do.                             *)

\* "so a single transaction can never earn two shares" (airdrop.js:25).
OneActionPerTx == \A k, n \in 1 .. Len(history) : history[k].tx = history[n].tx => k = n
=============================================================================
