----------------------------- MODULE RuneProofs ------------------------------
(***************************************************************************)
(* Proofs about the runes.  RuneState: names, terms and entitlements hold for  *)
(* any set of transactions mined in any order, at any height, with any         *)
(* maturity, and so do the sums: what the outputs hold and what the entries of *)
(* a list took.  A sum over a set is treated by DataInduction, and each edict  *)
(* of a message as a step that moves units and makes none.  RuneConformance:   *)
(* the journal refines the indexer, step by step.                              *)
(***************************************************************************)
EXTENDS RuneConformance, DataInduction, TLAPS

\* Supplies whose sums are exact.
SmallSupplies ==
  \A tx \in Transactions : tx.etching # None => tx.etching.supply < Exact

\* The counter the code compares is what was handed out, while sums are exact.
CountersExact ==
  \A r \in DOMAIN runes :
    /\ runes[r].supply < Exact
    /\ runes[r].terms = None => runes[r].mintCount = 0 /\ runes[r].minted = 0
    /\ runes[r].terms # None => runes[r].minted = runes[r].mintCount * runes[r].terms.amount
    /\ runes[r].premine + runes[r].minted <= runes[r].supply

NamesInv == RegistryOK /\ NamesOneToOne
GateInv  == RegistryOK /\ WithinEntitlement
TermsInv == RegistryOK /\ WithinCap /\ CountersExact

-----------------------------------------------------------------------------
\* Addition of doubles is addition where the sum is exact, and a sum that rounds
\* is never below 2^53.
LEMMA PlusExact ==
  ASSUME NEW a \in Nat, NEW b \in Nat
  PROVE  /\ Plus(a, b) \in Nat
         /\ a + b <= Exact => Plus(a, b) = a + b
         /\ Plus(a, b) < Exact => Plus(a, b) = a + b
         /\ Plus(a, b) = a + b \/ Plus(a, b) >= Exact
<1>. DEFINE s == a + b
<1>1. Exact \in Nat /\ Exact > 2 /\ s \in Nat
  BY TransactionAssumption
<1>2. CASE s <= Exact \/ s % 2 = 0
  <2>1. Plus(a, b) = s BY <1>2 DEF Plus
  <2> QED BY <2>1, <1>1
<1>3. CASE s > Exact /\ s % 2 # 0
  <2>1. Plus(a, b) = IF s % 4 = 1 THEN s - 1 ELSE s + 1
    BY <1>3, <1>1 DEF Plus
  <2> HIDE DEF s
  <2>2. Plus(a, b) \in {s - 1, s + 1}
    BY <2>1
  <2>3. Plus(a, b) \in Nat /\ Plus(a, b) >= Exact
    BY <2>2, <1>1, <1>3
  <2> QED BY <2>3, <1>1, <1>3 DEF s
<1> QED BY <1>1, <1>2, <1>3

-----------------------------------------------------------------------------
\* What one transaction does to the registry: its etching and its proof are typed.
LEMMA Typed ==
  ASSUME NEW tx \in Transactions
  PROVE  /\ tx.etching # None => tx.etching \in Etching
         /\ tx.proof # None => tx.proof \in Leaf
  BY TransactionAssumption DEF Transaction

\* The runes known once the etching of the transaction has been looked at.
LEMMA Known ==
  ASSUME RegistryOK, NEW tx \in Transactions, NEW pos \in Positions
  PROVE  /\ DOMAIN RunesAfterEtching(tx, pos) = IF Etches(tx, pos) THEN DOMAIN runes \cup {pos} ELSE DOMAIN runes
         /\ Etches(tx, pos) => pos \notin DOMAIN runes /\ RunesAfterEtching(tx, pos)[pos] = Registered(tx.etching)
         /\ \A r \in DOMAIN runes : RunesAfterEtching(tx, pos)[r] = runes[r]
         /\ \A r \in DOMAIN RunesAfterEtching(tx, pos) : RunesAfterEtching(tx, pos)[r] \in Rune
<1>1. CASE Etches(tx, pos)
  <2>1. tx.etching \in Etching
    BY <1>1, Typed DEF Etches
  <2>2. Registered(tx.etching) \in Rune
    BY <2>1 DEF Registered, Rune, Etching
  <2> QED BY <1>1, <2>2 DEF RunesAfterEtching, Etches, NameFree, RegistryOK
<1>2. CASE ~Etches(tx, pos)
  BY <1>2 DEF RunesAfterEtching, RegistryOK
<1> QED BY <1>1, <1>2

WithCounters(rune, m, c) == [rune EXCEPT !.minted = m, !.mintCount = c]

\* Writing the two counters of a rune leaves the rest of it alone.
LEMMA CountersOnly ==
  ASSUME NEW rune \in Rune, NEW m \in Nat, NEW c \in Nat
  PROVE  /\ WithCounters(rune, m, c) \in Rune
         /\ WithCounters(rune, m, c).ticker = rune.ticker
         /\ WithCounters(rune, m, c).terms = rune.terms
         /\ WithCounters(rune, m, c).gate = rune.gate
         /\ WithCounters(rune, m, c).supply = rune.supply
         /\ WithCounters(rune, m, c).premine = rune.premine
         /\ WithCounters(rune, m, c).mintCount = c
         /\ WithCounters(rune, m, c).minted = m
  BY DEF Rune, WithCounters

\* What a mint leaves of a rune, and what it counts (indexer.js:314-315).
LEMMA MintCounts ==
  ASSUME NEW rune \in Rune, rune.terms # None
  PROVE  /\ Minted(rune) \in Rune
         /\ Minted(rune).ticker = rune.ticker /\ Minted(rune).terms = rune.terms
         /\ Minted(rune).gate = rune.gate /\ Minted(rune).supply = rune.supply
         /\ Minted(rune).premine = rune.premine
         /\ Minted(rune).mintCount = rune.mintCount + 1
         /\ Minted(rune).minted = Plus(rune.minted, rune.terms.amount)
<1>. DEFINE n == Plus(rune.minted, rune.terms.amount)
<1>1. rune.terms.amount \in Nat /\ rune.minted \in Nat /\ rune.mintCount \in Nat
  BY DEF Rune, Terms
<1>2. n \in Nat
  BY <1>1, PlusExact
<1>3. Minted(rune) = WithCounters(rune, n, rune.mintCount + 1)
  BY DEF Minted, Rune, WithCounters
<1>. DEFINE c == rune.mintCount + 1
<1>4. c \in Nat
  BY <1>1
<1> HIDE DEF n, c
<1>. DEFINE new == WithCounters(rune, n, c)
<1>5. /\ new \in Rune
      /\ new.ticker = rune.ticker /\ new.terms = rune.terms
      /\ new.gate = rune.gate /\ new.supply = rune.supply
      /\ new.premine = rune.premine /\ new.mintCount = c /\ new.minted = n
  BY <1>2, <1>4, CountersOnly
<1> HIDE DEF new
<1>6. Minted(rune) = new
  BY <1>3 DEF new, c
<1> QED BY <1>5, <1>6 DEF n, c

\* A mint the supply allows adds exactly its amount, while supplies are exact.
LEMMA MintExact ==
  ASSUME NEW x \in Rune, x.terms # None, x.supply < Exact, x.premine + x.minted <= x.supply,
         ~OverSupply(x)
  PROVE  /\ Plus(x.minted, x.terms.amount) = x.minted + x.terms.amount
         /\ x.premine + x.minted + x.terms.amount <= x.supply
<1>1. x.terms.amount \in Nat /\ x.minted \in Nat /\ x.premine \in Nat /\ x.supply \in Nat
  BY DEF Rune, Terms
<1>2. Plus(x.premine, x.minted) = x.premine + x.minted
  <2>1. x.premine + x.minted <= Exact
    BY <1>1, TransactionAssumption
  <2> QED BY <1>1, <2>1, PlusExact
<1>3. x.premine + x.minted \in Nat
  BY <1>1
<1>4. Plus(x.premine + x.minted, x.terms.amount) \in Nat
  BY <1>1, <1>3, PlusExact
<1>5. Plus(x.premine + x.minted, x.terms.amount) <= x.supply
  BY <1>1, <1>2, <1>4 DEF OverSupply
<1>6. Plus(x.premine + x.minted, x.terms.amount) < Exact
  BY <1>1, <1>4, <1>5, TransactionAssumption
<1>7. x.premine + x.minted + x.terms.amount <= x.supply
  BY <1>1, <1>3, <1>5, <1>6, PlusExact
<1>8. x.minted + x.terms.amount <= Exact
  BY <1>1, <1>7, TransactionAssumption
<1> QED BY <1>1, <1>7, <1>8, PlusExact

\* Of the runes known after the etching, those that are minted change.
LEMMA AfterTx ==
  ASSUME RegistryOK, NEW tx \in Transactions, NEW pos \in Positions,
         NEW ins \in SUBSET Carrying, ApplyTx(tx, pos, ins)
  PROVE  LET known == RunesAfterEtching(tx, pos) IN
         /\ DOMAIN runes' = DOMAIN known
         /\ \A r \in DOMAIN known :
              /\ runes'[r] = IF Mints(tx, pos, r, known) THEN Minted(known[r]) ELSE known[r]
              /\ known[r] \in Rune
              /\ Mints(tx, pos, r, known) => known[r].terms # None
  BY Known DEF ApplyTx, Mints

-----------------------------------------------------------------------------
\* The empty state a scan starts from (indexer.js:30-39) has all three invariants.
THEOREM InitGood == Init => NamesInv /\ GateInv /\ TermsInv
  BY DEF Init, NamesInv, GateInv, TermsInv, RegistryOK, NamesOneToOne, WithinEntitlement,
         WithinCap, CountersExact, Empty

\* Registry: an etching adds a well-formed rune, a mint keeps the one it counts.
LEMMA RegistryStep ==
  ASSUME RegistryOK, [Next]_vars PROVE RegistryOK'
<1>1. CASE Next
  <2>1. PICK tx \in Transactions, pos \in Positions, ins \in SUBSET Carrying :
          ApplyTx(tx, pos, ins)
    BY <1>1 DEF Next
  <2>. DEFINE known == RunesAfterEtching(tx, pos)
  <2>2. /\ DOMAIN known = IF Etches(tx, pos) THEN DOMAIN runes \cup {pos} ELSE DOMAIN runes
        /\ \A r \in DOMAIN known : known[r] \in Rune
    BY Known
  <2>3. DOMAIN runes' = DOMAIN known /\ DOMAIN runes \subseteq DOMAIN known
    BY <2>1, <2>2, AfterTx
  <2>4. \A r \in DOMAIN runes' : runes'[r] \in Rune
    BY <2>1, <2>3, AfterTx, MintCounts
  <2>5. DOMAIN runes' \subseteq Positions
    BY <2>2, <2>3 DEF RegistryOK
  <2>6. /\ DOMAIN tickers' \subseteq Tickers
        /\ \A t \in DOMAIN tickers' : tickers'[t] \in DOMAIN runes'
    <3>1. CASE Etches(tx, pos)
      <4>1. tx.etching.ticker \in Tickers
        BY <3>1, Typed DEF Etches, Etching
      <4>2. tickers' = [t \in DOMAIN tickers \cup {tx.etching.ticker} |->
                          IF t = tx.etching.ticker THEN pos ELSE tickers[t]]
        BY <2>1, <3>1 DEF ApplyTx
      <4>3. pos \in DOMAIN runes'
        BY <3>1, <2>2, <2>3
      <4> QED BY <4>1, <4>2, <4>3, <2>3 DEF RegistryOK
    <3>2. CASE ~Etches(tx, pos)
      BY <2>1, <3>2, <2>3 DEF ApplyTx, RegistryOK
    <3> QED BY <3>1, <3>2
  <2>7. /\ DOMAIN allowlistMinted' \subseteq (DOMAIN runes') \X Leaf
        /\ \A k \in DOMAIN allowlistMinted' : allowlistMinted'[k] \in Nat
    <3>. DEFINE taken == {<<r, tx.proof>> : r \in {q \in DOMAIN known :
                            Mints(tx, pos, q, known) /\ known[q].gate # {}}}
    <3>1. allowlistMinted' = [k \in DOMAIN allowlistMinted \cup taken |->
            IF k \in taken THEN Plus(Used(k[1], k[2]), known[k[1]].terms.amount)
                           ELSE allowlistMinted[k]]
      BY <2>1 DEF ApplyTx
    <3>2. taken \subseteq (DOMAIN runes') \X Leaf
      BY <2>3, Typed DEF Mints, GateOpens
    <3>3. \A k \in taken : Plus(Used(k[1], k[2]), known[k[1]].terms.amount) \in Nat
      <4>. SUFFICES ASSUME NEW q \in DOMAIN known, Mints(tx, pos, q, known)
                    PROVE  Plus(Used(q, tx.proof), known[q].terms.amount) \in Nat
        OBVIOUS
      <4>1. known[q].terms.amount \in Nat
        BY <2>2 DEF Mints, Rune, Terms
      <4>2. Used(q, tx.proof) \in Nat
        BY DEF Used, RegistryOK
      <4> QED BY <4>1, <4>2, PlusExact
    <3> HIDE DEF taken
    <3> QED BY <3>1, <3>2, <3>3, <2>3 DEF RegistryOK
  <2>8. at' \in Positions
    BY <2>1 DEF ApplyTx
  <2> QED BY <2>4, <2>5, <2>6, <2>7, <2>8 DEF RegistryOK
<1>2. CASE UNCHANGED vars
  BY <1>2 DEF vars, state, RegistryOK
<1> QED BY <1>1, <1>2

\* Names: only an etching adds one, and only a free one.
LEMMA NamesStep ==
  ASSUME NamesInv, [Next]_vars PROVE NamesOneToOne'
<1>0. RegistryOK
  BY DEF NamesInv
<1>1. CASE Next
  <2>1. PICK tx \in Transactions, pos \in Positions, ins \in SUBSET Carrying :
          ApplyTx(tx, pos, ins)
    BY <1>1 DEF Next
  <2>. DEFINE known == RunesAfterEtching(tx, pos)
  <2>2. /\ DOMAIN known = IF Etches(tx, pos) THEN DOMAIN runes \cup {pos} ELSE DOMAIN runes
        /\ Etches(tx, pos) => pos \notin DOMAIN runes /\ known[pos] = Registered(tx.etching)
        /\ \A r \in DOMAIN runes : known[r] = runes[r]
    BY <1>0, Known
  <2>3. /\ DOMAIN runes' = DOMAIN known
        /\ \A r \in DOMAIN known : runes'[r].ticker = known[r].ticker
    BY <2>1, <1>0, AfterTx, MintCounts
  <2> HIDE DEF known
  <2>4. CASE Etches(tx, pos)
    <3>1. /\ tickers' = [t \in DOMAIN tickers \cup {tx.etching.ticker} |->
                           IF t = tx.etching.ticker THEN pos ELSE tickers[t]]
          /\ tx.etching.ticker \notin DOMAIN tickers
      BY <2>1, <2>4 DEF ApplyTx, Etches, NameFree
    <3>2. known[pos].ticker = tx.etching.ticker
      BY <2>2, <2>4 DEF Registered
    <3> QED BY <2>2, <2>3, <2>4, <3>1, <3>2 DEF NamesInv, RegistryOK, NamesOneToOne
  <2>5. CASE ~Etches(tx, pos)
    <3>1. tickers' = tickers
      BY <2>1, <2>5 DEF ApplyTx
    <3> QED BY <2>2, <2>3, <2>5, <3>1 DEF NamesInv, RegistryOK, NamesOneToOne
  <2> QED BY <2>4, <2>5
<1>2. CASE UNCHANGED vars
  BY <1>2 DEF vars, state, NamesInv, NamesOneToOne
<1> QED BY <1>1, <1>2

\* Entitlements: an entry is added to only by a mint its gate let through.
LEMMA GateStep ==
  ASSUME GateInv, [Next]_vars PROVE WithinEntitlement'
<1>0. RegistryOK
  BY DEF GateInv
<1>1. CASE Next
  <2>1. PICK tx \in Transactions, pos \in Positions, ins \in SUBSET Carrying :
          ApplyTx(tx, pos, ins)
    BY <1>1 DEF Next
  <2>. DEFINE known == RunesAfterEtching(tx, pos)
              taken == {<<r, tx.proof>> : r \in {q \in DOMAIN known :
                          Mints(tx, pos, q, known) /\ known[q].gate # {}}}
  <2>2. /\ DOMAIN runes \subseteq DOMAIN known
        /\ \A r \in DOMAIN runes : known[r] = runes[r]
    <3>1. /\ DOMAIN known = IF Etches(tx, pos) THEN DOMAIN runes \cup {pos} ELSE DOMAIN runes
          /\ Etches(tx, pos) => pos \notin DOMAIN runes /\ known[pos] = Registered(tx.etching)
          /\ \A r \in DOMAIN runes : known[r] = runes[r]
      BY <1>0, Known
    <3> QED BY <3>1
  <2>3. /\ DOMAIN runes' = DOMAIN known
        /\ \A r \in DOMAIN known : runes'[r].gate = known[r].gate
    BY <2>1, <1>0, AfterTx, MintCounts
  <2>4. allowlistMinted' = [k \in DOMAIN allowlistMinted \cup taken |->
          IF k \in taken THEN Plus(Used(k[1], k[2]), known[k[1]].terms.amount)
                         ELSE allowlistMinted[k]]
    BY <2>1 DEF ApplyTx
  <2>5. ASSUME NEW k \in taken
        PROVE  /\ k[1] \in DOMAIN known /\ known[k[1]].gate # {} /\ k[2] \in known[k[1]].gate
               /\ Plus(Used(k[1], k[2]), known[k[1]].terms.amount) <= k[2][2]
    BY DEF Mints, GateOpens
  <2>6. \A k \in DOMAIN allowlistMinted : k[1] \in DOMAIN runes
    BY DEF GateInv, RegistryOK
  <2> HIDE DEF taken, known
  <2> QED BY <2>2, <2>3, <2>4, <2>5, <2>6 DEF GateInv, WithinEntitlement
<1>2. CASE UNCHANGED vars
  BY <1>2 DEF vars, state, GateInv, WithinEntitlement
<1> QED BY <1>1, <1>2

\* Terms: a mint passes the cap and the supply it was compared with.
LEMMA TermsStep ==
  ASSUME SmallSupplies, TermsInv, [Next]_vars PROVE (WithinCap /\ CountersExact)'
<1>0. RegistryOK
  BY DEF TermsInv
<1>1. CASE Next
  <2>1. PICK tx \in Transactions, pos \in Positions, ins \in SUBSET Carrying :
          ApplyTx(tx, pos, ins)
    BY <1>1 DEF Next
  <2>. DEFINE known == RunesAfterEtching(tx, pos)
  <2>2. /\ DOMAIN known = IF Etches(tx, pos) THEN DOMAIN runes \cup {pos} ELSE DOMAIN runes
        /\ Etches(tx, pos) => pos \notin DOMAIN runes /\ known[pos] = Registered(tx.etching)
        /\ \A r \in DOMAIN runes : known[r] = runes[r]
    BY <1>0, Known
  <2>. DEFINE Good(x) ==
                /\ x.terms # None /\ x.terms.cap # None => x.mintCount <= x.terms.cap
                /\ x.supply < Exact
                /\ x.terms = None => x.mintCount = 0 /\ x.minted = 0
                /\ x.terms # None => x.minted = x.mintCount * x.terms.amount
                /\ x.premine + x.minted <= x.supply
  <2>3. ASSUME Etches(tx, pos) PROVE Good(known[pos])
    <3>1. known[pos] = Registered(tx.etching) /\ tx.etching.supply < Exact
      BY <2>2, <2>3 DEF SmallSupplies, Etches
    <3>2. /\ tx.etching.premine <= tx.etching.supply /\ tx.etching.premine \in Nat
          /\ tx.etching.terms # None =>
               tx.etching.terms.amount \in Nat
               /\ (tx.etching.terms.cap # None => tx.etching.terms.cap \in Nat)
      BY <2>3, Typed DEF Etches, Legal, Etching, Terms
    <3>3. 0 = 0 * tx.etching.terms.amount \/ tx.etching.terms = None
      BY <3>2
    <3> QED BY <3>1, <3>2, <3>3 DEF Registered
  <2>4. \A r \in DOMAIN runes : Good(runes[r])
    BY DEF TermsInv, WithinCap, CountersExact
  <2>5. \A r \in DOMAIN known : Good(known[r])
    BY <2>2, <2>3, <2>4
  <2>6. /\ DOMAIN runes' = DOMAIN known
        /\ \A r \in DOMAIN known :
             /\ runes'[r] = IF Mints(tx, pos, r, known) THEN Minted(known[r]) ELSE known[r]
             /\ known[r] \in Rune
             /\ Mints(tx, pos, r, known) => known[r].terms # None
    BY <1>0, <2>1, AfterTx
  <2>7. ASSUME NEW r \in DOMAIN known, Mints(tx, pos, r, known)
        PROVE  Good(Minted(known[r]))
    <3>. DEFINE x == known[r]
    <3>1. x \in Rune /\ x.terms # None /\ Good(x)
      BY <2>5, <2>6, <2>7
    <3>2. /\ x.terms.amount \in Nat /\ x.minted \in Nat /\ x.premine \in Nat
          /\ x.supply \in Nat /\ x.mintCount \in Nat
          /\ x.terms.cap # None => x.terms.cap \in Nat
      BY <3>1 DEF Rune, Terms
    <3>3. ~CapReached(x) /\ ~OverSupply(x)
      BY <2>7 DEF Mints
    <3> HIDE DEF x
    <3>4. x.terms.cap # None => x.mintCount < x.terms.cap
      BY <3>2, <3>3 DEF CapReached
    <3>5. /\ Plus(x.minted, x.terms.amount) = x.minted + x.terms.amount
          /\ x.premine + x.minted + x.terms.amount <= x.supply
      BY <3>1, <3>3, MintExact
    <3>7. x.minted + x.terms.amount = (x.mintCount + 1) * x.terms.amount
      BY <3>1, <3>2
    <3>8. /\ Minted(x).terms = x.terms /\ Minted(x).supply = x.supply
          /\ Minted(x).premine = x.premine /\ Minted(x).mintCount = x.mintCount + 1
          /\ Minted(x).minted = x.minted + x.terms.amount
      BY <3>1, <3>5, MintCounts
    <3>9. Good(Minted(x))
      BY <3>1, <3>2, <3>4, <3>5, <3>7, <3>8
    <3> QED BY <3>9 DEF x
  <2>8. \A r \in DOMAIN runes' : Good(runes'[r])
    BY <2>5, <2>6, <2>7
  <2> QED BY <2>8 DEF WithinCap, CountersExact
<1>2. CASE UNCHANGED vars
  BY <1>2 DEF vars, state, TermsInv, WithinCap, CountersExact
<1> QED BY <1>1, <1>2

-----------------------------------------------------------------------------
\* The registry of runes, names and entitlements is always well formed.
THEOREM RegistryCorrect == Spec => []RegistryOK
<1>1. Init => RegistryOK
  BY InitGood DEF NamesInv
<1>2. RegistryOK /\ [Next]_vars => RegistryOK'
  BY RegistryStep
<1> QED BY <1>1, <1>2, PTL DEF Spec

\* A ticker names one rune and a rune has one ticker (indexer.js:152-163), whatever
\* is etched, when, and by how many at once.
THEOREM NamesUnique == Spec => []NamesOneToOne
<1>1. Init => NamesInv
  BY InitGood
<1>2. NamesInv /\ [Next]_vars => NamesInv'
  BY RegistryStep, NamesStep DEF NamesInv
<1>3. NamesInv => NamesOneToOne
  BY DEF NamesInv
<1> QED BY <1>1, <1>2, <1>3, PTL DEF Spec

\* No entry of an allowlist takes more than its leaf allows (indexer.js:306-316).
THEOREM EntitlementsKept == Spec => []WithinEntitlement
<1>1. Init => GateInv
  BY InitGood
<1>2. GateInv /\ [Next]_vars => GateInv'
  BY RegistryStep, GateStep DEF GateInv
<1>3. GateInv => WithinEntitlement
  BY DEF GateInv
<1> QED BY <1>1, <1>2, <1>3, PTL DEF Spec

\* No rune is minted past its cap or its supply (indexer.js:302-303), provided no
\* supply etched reaches 2^53: without that the code does hand out more.
THEOREM SupplyKept == SmallSupplies => (Spec => []TermsKept)
<1>. SUFFICES ASSUME SmallSupplies PROVE Spec => []TermsKept
  OBVIOUS
<1>1. Init => TermsInv
  BY InitGood
<1>2. TermsInv /\ [Next]_vars => TermsInv'
  BY RegistryStep, TermsStep DEF TermsInv
<1>3. TermsInv => TermsKept
  <2>. SUFFICES ASSUME TermsInv PROVE WithinCap /\ WithinSupply
    BY DEF TermsKept
  <2>1. \A r \in DOMAIN runes : runes[r].premine \in Nat
    BY DEF TermsInv, RegistryOK, Rune
  <2>2. \A r \in DOMAIN runes : HandedOut(runes[r]) = runes[r].premine + runes[r].minted
    BY <2>1 DEF TermsInv, CountersExact, HandedOut
  <2> QED BY <2>2 DEF TermsInv, CountersExact, WithinSupply
<1> QED BY <1>1, <1>2, <1>3, PTL DEF Spec

-----------------------------------------------------------------------------
(* What the balances add up to.                                             *)

\* What an output of tx got of a rune, and how a total of each rune has been split.
Paid(tx, moves, r) == [v \in Eligible(tx) |-> moves.given[<<v, r>>]]
Moves(tx) == [left : [Positions -> Nat], given : [Eligible(tx) \X Positions -> Nat]]
Splits(tx, moves, total) ==
  /\ moves \in Moves(tx)
  /\ \A r \in Positions : moves.left[r] + SumOver(Paid(tx, moves, r), Eligible(tx)) = total[r]

\* A transaction has finitely many outputs.
LEMMA FewOutputs ==
  ASSUME NEW tx \in Transactions
  PROVE  IsFiniteSet(Eligible(tx)) /\ Eligible(tx) \subseteq Nat
<1>1. tx.outputs \in Seq(Output)
  BY TransactionAssumption DEF Transaction
<1>2. Len(tx.outputs) \in Nat
  BY <1>1
<1>3. Eligible(tx) \subseteq 0 .. Len(tx.outputs) - 1
  BY DEF Eligible
<1>4. IsFiniteSet(0 .. Len(tx.outputs) - 1)
  BY <1>2, FS_Interval
<1> QED BY <1>3, <1>4, FS_Subset

\* A transaction that says "edicts" has a sequence of them.
LEMMA EdictsTyped ==
  ASSUME NEW tx \in Transactions, Says(tx, "edicts")
  PROVE  MessageOf(tx).edicts \in Seq(Edict)
<1>1. tx.outputs \in Seq(Output)
  BY TransactionAssumption DEF Transaction
<1>2. PICK i \in DOMAIN tx.outputs : Speaks(tx, i) /\ tx.outputs[i].message.type = "edicts"
  BY DEF Says
<1> DEFINE j == CHOOSE k \in DOMAIN tx.outputs : Speaks(tx, k)
<1>3. j \in DOMAIN tx.outputs /\ Speaks(tx, j)
  BY <1>2
<1>4. MessageOf(tx) = tx.outputs[j].message
  BY DEF MessageOf
<1> HIDE DEF j
<1>5. i \in Nat /\ j \in Nat /\ i >= 1 /\ j >= 1
  BY <1>1, <1>2, <1>3
<1>6. i = j
  <2>1. ~(i < j) /\ ~(j < i)
    BY <1>2, <1>3, <1>5 DEF Speaks
  <2> QED BY <1>5, <2>1
<1>7. tx.outputs[i] \in Output /\ tx.outputs[i].message # None
  BY <1>1, <1>2 DEF Speaks
<1>8. tx.outputs[i].message \in Message
  BY <1>7 DEF Output
<1>9. tx.outputs[i].message \in Transfer
  BY <1>2, <1>8 DEF Message, Mint, Transfer, Checkpoint
<1> QED BY <1>4, <1>6, <1>9 DEF Transfer

\* Writing one place of a table leaves the others.
LEMMA OnePlace ==
  ASSUME NEW A, NEW B, NEW f \in [A \X B -> Nat], NEW a \in A, NEW b \in B, NEW m
  PROVE  \A x \in A, y \in B :
           [f EXCEPT ![<<a, b>>] = m][<<x, y>>] = IF x = a /\ y = b THEN m ELSE f[<<x, y>>]
  OBVIOUS

\* An edict moves what it takes from what is left to an output: no unit is made or lost.
LEMMA ObeyedSplits ==
  ASSUME NEW tx \in Transactions, NEW pos, NEW moves, NEW total, Splits(tx, moves, total), NEW e \in Edict
  PROVE  Splits(tx, Obeyed(tx, pos, moves, e), total)
<1> DEFINE outs == Eligible(tx)
           after == Obeyed(tx, pos, moves, e)
           n == Moved(e, moves.left[e.ref])
<1>0. IsFiniteSet(outs)
  BY FewOutputs
<1>1. moves \in Moves(tx) /\ moves.left \in [Positions -> Nat] /\ moves.given \in [outs \X Positions -> Nat]
  BY DEF Splits, Moves
<1>2. CASE after = moves
  BY <1>2
<1>3. CASE after # moves
  <2>1. /\ e.ref \in Positions /\ e.output \in outs
        /\ after = [left |-> [moves.left EXCEPT ![e.ref] = @ - n],
                    given |-> [moves.given EXCEPT ![<<e.output, e.ref>>] = @ + n]]
    BY <1>3 DEF Obeyed
  <2>2. n \in Nat /\ n <= moves.left[e.ref] /\ moves.left[e.ref] \in Nat
    BY <1>1, <2>1 DEF Moved, Edict
  <2> DEFINE ref == e.ref
             out == e.output
  <2> HIDE DEF n, after
  <2>3. /\ after.left = [moves.left EXCEPT ![ref] = moves.left[ref] - n]
        /\ after.given = [moves.given EXCEPT ![<<out, ref>>] = moves.given[<<out, ref>>] + n]
        /\ after = [left |-> after.left, given |-> after.given]
    BY <2>1
  <2> HIDE DEF ref, out
  <2>4. ref \in Positions /\ out \in outs /\ moves.left[ref] \in Nat /\ n <= moves.left[ref]
    BY <2>1, <2>2 DEF ref, out
  <2>5. after.left \in [Positions -> Nat] /\ after.given \in [outs \X Positions -> Nat]
    <3>1. moves.left[ref] - n \in Nat
      BY <2>2, <2>4
    <3>2. moves.given[<<out, ref>>] + n \in Nat
      BY <1>1, <2>2, <2>4
    <3> QED BY <1>1, <2>3, <3>1, <3>2
  <2>8. \A x \in outs, r \in Positions :
          after.given[<<x, r>>] = IF x = out /\ r = ref THEN moves.given[<<out, ref>>] + n
                                  ELSE moves.given[<<x, r>>]
    BY <1>1, <2>3, <2>4, OnePlace
  <2>6. after \in Moves(tx)
    BY <2>3, <2>5 DEF Moves
  <2>7. ASSUME NEW r \in Positions
        PROVE  after.left[r] + SumOver(Paid(tx, after, r), outs) = total[r]
    <3> DEFINE w == Paid(tx, moves, r)
               v == Paid(tx, after, r)
    <3>1. \A x \in outs : w[x] = moves.given[<<x, r>>] /\ v[x] = after.given[<<x, r>>]
      BY DEF Paid
    <3>2. \A x \in outs : w[x] \in Nat /\ v[x] \in Nat
      BY <1>1, <2>5, <3>1
    <3>3. moves.left[r] + SumOver(w, outs) = total[r]
      BY DEF Splits
    <3>4. SumOver(w, outs) \in Nat /\ SumOver(v, outs) \in Nat /\ moves.left[r] \in Nat
      BY <1>0, <1>1, <3>2, SumNumber
    <3> HIDE DEF w, v, outs
    <3>5. CASE r = ref
      <4>1. \A x \in outs \ {out} : v[x] = w[x]
        BY <2>8, <3>1, <3>5
      <4>2. v[out] = w[out] + n
        BY <2>4, <2>8, <3>1, <3>5
      <4>3. SumOver(v, outs) + w[out] = SumOver(w, outs) + v[out]
        BY <1>0, <2>4, <3>2, <4>1, SumChange
      <4>4. after.left[r] = moves.left[r] - n
        BY <1>1, <2>3, <2>4, <3>5
      <4>5. w[out] \in Nat
        BY <2>4, <3>2
      <4> QED BY <2>2, <3>3, <3>4, <4>2, <4>3, <4>4, <4>5 DEF w, v
    <3>6. CASE r # ref
      <4>1. \A x \in outs : v[x] = w[x]
        BY <2>8, <3>1, <3>6
      <4>2. SumOver(v, outs) = SumOver(w, outs)
        BY <1>0, <3>2, <4>1, SumSame
      <4>3. after.left[r] = moves.left[r]
        BY <1>1, <2>3, <2>4, <3>6
      <4> QED BY <3>3, <4>2, <4>3 DEF w, v
    <3> QED BY <3>5, <3>6
  <2> QED BY <2>6, <2>7 DEF Splits, after
<1> QED BY <1>2, <1>3

\* What is pooled of each rune, before any edict and after the first ones: what iter has for a set of
\* them is what obeying them in their order leads to.
PooledOf(tx, pos, ins) == [r \in Positions |-> Held(ins, r) + Issued(tx, pos, r)]
Unmoved(tx, pos, ins) ==
  [left |-> PooledOf(tx, pos, ins), given |-> [k \in Eligible(tx) \X Positions |-> 0]]
Iterates(iter, tx, pos, ins) ==
  LET edicts == MessageOf(tx).edicts IN
    /\ AfterEdicts(tx, pos, ins) = iter[DOMAIN edicts] /\ iter[{}] = Unmoved(tx, pos, ins)
    /\ \A s \in SUBSET DOMAIN edicts :
         /\ Splits(tx, iter[s], PooledOf(tx, pos, ins))
         /\ s # {} => iter[s] = Obeyed(tx, pos, iter[s \ {Max(s)}], edicts[Max(s)])

\* What the edicts leave and give, one by one, is what the inputs held and what was issued.
LEMMA EdictSteps ==
  ASSUME NEW tx \in Transactions, NEW pos \in Positions, NEW ins,
         \A r \in Positions : Held(ins, r) + Issued(tx, pos, r) \in Nat
  PROVE  /\ Splits(tx, Unmoved(tx, pos, ins), PooledOf(tx, pos, ins))
         /\ Says(tx, "edicts") => \E iter : Iterates(iter, tx, pos, ins)
<1> DEFINE total == PooledOf(tx, pos, ins)
           start == Unmoved(tx, pos, ins)
<1>1. Splits(tx, start, total)
  <2>1. start \in Moves(tx)
    <3>1. total \in [Positions -> Nat]
      BY DEF PooledOf
    <3>2. [k \in Eligible(tx) \X Positions |-> 0] \in [Eligible(tx) \X Positions -> Nat]
      OBVIOUS
    <3>3. start = [left |-> total, given |-> [k \in Eligible(tx) \X Positions |-> 0]]
      BY DEF Unmoved
    <3> HIDE DEF total, start
    <3> QED BY <3>1, <3>2, <3>3 DEF Moves
  <2>2. ASSUME NEW r \in Positions
        PROVE  start.left[r] + SumOver(Paid(tx, start, r), Eligible(tx)) = total[r]
    <3>1. \A v \in Eligible(tx) : Paid(tx, start, r)[v] = 0
      BY DEF Paid, Unmoved
    <3>2. IsFiniteSet(Eligible(tx))
      BY FewOutputs
    <3>3. SumOver(Paid(tx, start, r), Eligible(tx)) = 0
      <4> HIDE DEF start
      <4> QED BY <3>1, <3>2, SumZero
    <3>4. start.left[r] = total[r] /\ total[r] \in Nat
      BY DEF Unmoved, PooledOf
    <3> QED BY <3>3, <3>4
  <2> QED BY <2>1, <2>2 DEF Splits
<1>2. ASSUME Says(tx, "edicts") PROVE \E iter : Iterates(iter, tx, pos, ins)
  <2> DEFINE edicts == MessageOf(tx).edicts
             D == DOMAIN edicts
             G(f, s) == IF s = {} THEN start ELSE Obeyed(tx, pos, f[s \ {Max(s)}], edicts[Max(s)])
             iter == CHOOSE f : f = [s \in SUBSET D |-> G(f, s)]
             V == {m \in Moves(tx) : Splits(tx, m, total)}
             pick == [s \in SUBSET D |-> Max(s)]
             step == [i \in D |-> [m \in V |-> Obeyed(tx, pos, m, edicts[i])]]
  <2>1. edicts \in Seq(Edict)
    BY <1>2, EdictsTyped
  <2>2. AfterEdicts(tx, pos, ins) = iter[D]
    BY <1>2 DEF AfterEdicts, FoldLeft, MapThenFoldSet, Unmoved, PooledOf
  <2> HIDE DEF total, start, edicts
  <2>3. D \in SUBSET (0 .. Len(edicts)) /\ IsFiniteSet(D) /\ Len(edicts) \in Nat
    <3>1. D = 1 .. Len(edicts) /\ Len(edicts) \in Nat
      BY <2>1
    <3> QED BY <3>1, FS_Interval
  <2> HIDE DEF D
  <2>4. \A s \in SUBSET D : s # {} => Max(s) \in s /\ pick[s] = Max(s)
    BY <2>3, Greatest
  <2>5. start \in V
    BY <1>1 DEF Splits
  <2>6. \A i \in D, m \in V : Obeyed(tx, pos, m, edicts[i]) \in V
    <3> SUFFICES ASSUME NEW i \in D, NEW m \in V PROVE Obeyed(tx, pos, m, edicts[i]) \in V
      OBVIOUS
    <3>1. edicts[i] \in Edict
      BY <2>1 DEF D
    <3>2. Splits(tx, m, total)
      OBVIOUS
    <3>3. Splits(tx, Obeyed(tx, pos, m, edicts[i]), total)
      BY <3>1, <3>2, ObeyedSplits
    <3> QED BY <3>3 DEF Splits
  <2> HIDE DEF V
  <2>7. step \in [D -> [V -> V]]
    BY <2>6
  <2>8. PICK f : FoldsSet(f, D, V, start, pick, step)
    <3>1. \A s \in SUBSET D : s # {} => pick[s] \in s
      BY <2>4
    <3> HIDE DEF pick, step
    <3> QED BY <2>3, <2>5, <2>7, <3>1, FoldExists
  <2>9. f \in [SUBSET D -> V] /\ f[{}] = start
        /\ \A s \in SUBSET D : s # {} => f[s] = step[pick[s]][f[s \ {pick[s]}]]
    <3> HIDE DEF pick, step
    <3> QED BY <2>8 DEF FoldsSet
  <2>10. ASSUME NEW s \in SUBSET D PROVE f[s] = G(f, s)
    <3>1. CASE s = {}
      BY <2>9, <3>1
    <3>2. CASE s # {}
      <4>1. Max(s) \in D /\ s \ {Max(s)} \in SUBSET D /\ pick[s] = Max(s)
        BY <2>4, <3>2
      <4> HIDE DEF pick
      <4>2. f[s \ {Max(s)}] \in V
        BY <2>9, <4>1
      <4>3. f[s] = step[Max(s)][f[s \ {Max(s)}]]
        <5> HIDE DEF step
        <5> QED BY <2>9, <3>2, <4>1
      <4>4. step[Max(s)][f[s \ {Max(s)}]] = Obeyed(tx, pos, f[s \ {Max(s)}], edicts[Max(s)])
        BY <4>1, <4>2
      <4> HIDE DEF step
      <4> QED BY <3>2, <4>3, <4>4
    <3> QED BY <3>1, <3>2
  <2>11. iter = [s \in SUBSET D |-> G(iter, s)]
    <3>1. f = [s \in SUBSET D |-> G(f, s)]
      <4> HIDE DEF G, step, pick
      <4> QED BY <2>9, <2>10
    <3> HIDE DEF G
    <3> QED BY <3>1
  <2> HIDE DEF iter
  <2>12. \A s \in SUBSET D : iter[s] = G(iter, s)
    <3> HIDE DEF G
    <3> QED BY <2>11
  <2>13. iter[{}] \in V
    BY <2>5, <2>12
  <2>14. ASSUME NEW s \in SUBSET D, s # {}, iter[s \ {Max(s)}] \in V PROVE iter[s] \in V
    <3>1. Max(s) \in D
      BY <2>4, <2>14
    <3>2. iter[s] = Obeyed(tx, pos, iter[s \ {Max(s)}], edicts[Max(s)])
      BY <2>12, <2>14
    <3> QED BY <2>6, <2>14, <3>1, <3>2
  <2>15. ASSUME NEW s \in SUBSET D PROVE iter[s] \in V
    <3> DEFINE U == {q \in SUBSET s : iter[q] \in V}
    <3>1. {} \in U
      BY <2>13
    <3>2. ASSUME NEW q \in SUBSET s, q # {}, \A x \in q : q \ {x} \in U PROVE q \in U
      <4>1. Max(q) \in q /\ q \in SUBSET D
        BY <2>4, <3>2
      <4>2. iter[q \ {Max(q)}] \in V
        BY <3>2, <4>1
      <4>3. iter[q] \in V
        BY <2>14, <3>2, <4>1, <4>2
      <4> QED BY <4>3
    <3>3. IsFiniteSet(s)
      BY <2>3, FS_Subset
    <3>4. s \in U
      <4> HIDE DEF U
      <4> QED BY <3>1, <3>2, <3>3, SmallerSet
    <3> QED BY <3>4
  <2>16. Iterates(iter, tx, pos, ins)
    <3>1. \A s \in SUBSET D : Splits(tx, iter[s], total)
      BY <2>15 DEF V
    <3>2. /\ iter[{}] = start
          /\ \A s \in SUBSET D : s # {} => iter[s] = Obeyed(tx, pos, iter[s \ {Max(s)}], edicts[Max(s)])
      BY <2>12
    <3> QED BY <2>2, <3>1, <3>2 DEF Iterates, D, edicts, total, start
  <2> QED BY <2>16
<1> QED BY <1>1, <1>2

\* What the edicts leave and give, together, is what the inputs held and what was issued.
LEMMA EdictsSplit ==
  ASSUME NEW tx \in Transactions, NEW pos \in Positions, NEW ins,
         \A r \in Positions : Held(ins, r) + Issued(tx, pos, r) \in Nat
  PROVE  Splits(tx, AfterEdicts(tx, pos, ins), PooledOf(tx, pos, ins))
<1>1. CASE ~Says(tx, "edicts")
  <2>1. AfterEdicts(tx, pos, ins) = Unmoved(tx, pos, ins)
    BY <1>1 DEF AfterEdicts, Unmoved, PooledOf
  <2> QED BY <2>1, EdictSteps
<1>2. CASE Says(tx, "edicts")
  <2>1. PICK iter : Iterates(iter, tx, pos, ins)
    BY <1>2, EdictSteps
  <2> QED BY <2>1 DEF Iterates
<1> QED BY <1>1, <1>2

\* What the balances are: of each rune finitely many, made by transactions already applied.
Of(r) == {k \in DOMAIN balances : k[2] = r}
BalancesOK ==
  /\ DOMAIN balances \subseteq Outpoint \X (DOMAIN runes)
  /\ \A k \in DOMAIN balances :
       /\ balances[k] \in Nat \ {0} /\ k[1][1] \in Positions
       /\ at # None /\ (k[1][1] = at \/ Precedes(k[1][1], at))
  /\ \A r \in Positions : IsFiniteSet(Of(r))
  /\ burned \in [Positions -> Nat]
  /\ \A r \in Positions \ DOMAIN runes : burned[r] = 0

\* What outpoints hold of a rune is a sum of balances.
LEMMA HeldIs ==
  ASSUME NEW ops, NEW r
  PROVE  Held(ops, r) = SumOver(balances, {k \in DOMAIN balances : k[1] \in ops /\ k[2] = r})
BY DEF Held, SumOver, MapThenSumSet, MapThenFoldSet

\* What is outstanding of a rune is all that is held of it, before a step and after it.
LEMMA OutstandingIs ==
  ASSUME NEW r
  PROVE  /\ Outstanding(r) = SumOver(balances, Of(r))
         /\ Outstanding(r)' = SumOver(balances', {k \in DOMAIN balances' : k[2] = r})
<1> DEFINE ops == {k[1] : k \in DOMAIN balances}
           later == {k[1] : k \in DOMAIN balances'}
<1>1. {k \in DOMAIN balances : k[1] \in ops /\ k[2] = r} = Of(r)
  BY DEF Of
<1>2. {k \in DOMAIN balances' : k[1] \in later /\ k[2] = r} = {k \in DOMAIN balances' : k[2] = r}
  OBVIOUS
<1>3. Outstanding(r) = SumOver(balances, {k \in DOMAIN balances : k[1] \in ops /\ k[2] = r})
  BY HeldIs DEF Outstanding
<1>4. Outstanding(r)' = SumOver(balances', {k \in DOMAIN balances' : k[1] \in later /\ k[2] = r})
  BY DEF Outstanding, Held, SumOver, MapThenSumSet, MapThenFoldSet
<1> QED BY <1>1, <1>2, <1>3, <1>4

\* What is outstanding is what is spent and what is not.
LEMMA HeldPart ==
  ASSUME BalancesOK, NEW r \in Positions, NEW ins
  PROVE  LET kept == {k \in Of(r) : k[1] \notin ins} IN
         /\ IsFiniteSet(kept) /\ SumOver(balances, kept) \in Nat /\ Held(ins, r) \in Nat
         /\ Outstanding(r) = SumOver(balances, kept) + Held(ins, r) /\ Outstanding(r) \in Nat
         /\ r \notin DOMAIN runes => kept = {} /\ Held(ins, r) = 0
<1> DEFINE kept == {k \in Of(r) : k[1] \notin ins}
           spent == {k \in DOMAIN balances : k[1] \in ins /\ k[2] = r}
<1>1. IsFiniteSet(kept) /\ IsFiniteSet(spent) /\ kept \cap spent = {} /\ kept \cup spent = Of(r)
  <2>1. IsFiniteSet(Of(r))
    BY DEF BalancesOK
  <2>2. kept \in SUBSET Of(r) /\ spent \in SUBSET Of(r) /\ kept \cap spent = {} /\ kept \cup spent = Of(r)
    BY DEF Of
  <2> QED BY <2>1, <2>2, FS_Subset
<1>2. \A k \in kept \cup spent : balances[k] \in Nat
  BY DEF BalancesOK, Of
<1>3. Outstanding(r) = SumOver(balances, kept \cup spent)
  BY <1>1, OutstandingIs
<1>4. Held(ins, r) = SumOver(balances, spent)
  BY HeldIs
<1>5. r \notin DOMAIN runes => kept = {} /\ spent = {}
  BY DEF BalancesOK, Of
<1> HIDE DEF kept, spent
<1>6. SumOver(balances, kept \cup spent) = SumOver(balances, kept) + SumOver(balances, spent)
  BY <1>1, <1>2, SumApart
<1>7. SumOver(balances, kept) \in Nat /\ SumOver(balances, spent) \in Nat
  BY <1>1, <1>2, SumNumber
<1>8. spent = {} => SumOver(balances, spent) = 0
  BY <1>1, <1>2, SumNumber
<1> QED BY <1>1, <1>3, <1>4, <1>5, <1>6, <1>7, <1>8 DEF kept

\* What a transaction issues is an amount, and only of a rune that is known.
LEMMA IssuedIs ==
  ASSUME RegistryOK, NEW tx \in Transactions, NEW pos \in Positions, NEW r \in Positions
  PROVE  /\ Issued(tx, pos, r) \in Nat
         /\ r \notin DOMAIN RunesAfterEtching(tx, pos) => Issued(tx, pos, r) = 0
<1> DEFINE known == RunesAfterEtching(tx, pos)
           a == IF Etches(tx, pos) /\ r = pos THEN tx.etching.premine ELSE 0
           b == IF Mints(tx, pos, r, known) THEN known[r].terms.amount ELSE 0
<1>1. a \in Nat /\ (a # 0 => r \in DOMAIN known)
  <2>1. Etches(tx, pos) => tx.etching.premine \in Nat
    BY Typed DEF Etches, Etching
  <2>2. Etches(tx, pos) => pos \in DOMAIN known
    BY Known
  <2> QED BY <2>1, <2>2
<1>2. b \in Nat /\ (b # 0 => r \in DOMAIN known)
  <2>1. Mints(tx, pos, r, known) => r \in DOMAIN known /\ known[r].terms # None
    BY DEF Mints
  <2>2. \A q \in DOMAIN known : known[q] \in Rune
    BY Known
  <2> HIDE DEF known
  <2>3. Mints(tx, pos, r, known) => known[r].terms.amount \in Nat
    BY <2>1, <2>2 DEF Rune, Terms
  <2> QED BY <2>1, <2>3
<1>3. Issued(tx, pos, r) = a + b
  BY DEF Issued
<1> HIDE DEF a, b
<1> QED BY <1>1, <1>2, <1>3

\* What the outputs of a transaction receive of a rune is what was pooled of it, if there is one.
LEMMA ReceivedAll ==
  ASSUME NEW tx \in Transactions, NEW total, NEW moves, Splits(tx, moves, total), NEW r \in Positions
  PROVE  LET got == [v \in Eligible(tx) |-> Received(tx, moves, v, r)] IN
         /\ \A v \in Eligible(tx) : got[v] \in Nat
         /\ Eligible(tx) # {} => SumOver(got, Eligible(tx)) = total[r]
<1> DEFINE outs == Eligible(tx)
           got == [v \in outs |-> Received(tx, moves, v, r)]
           paid == Paid(tx, moves, r)
           left == moves.left[r]
<1>1. IsFiniteSet(outs) /\ outs \in SUBSET Nat
  BY FewOutputs
<1>2. left \in Nat /\ moves.given \in [outs \X Positions -> Nat]
  BY DEF Splits, Moves
<1>3. left + SumOver(paid, outs) = total[r]
  BY DEF Splits
<1>8. \A v \in outs : paid[v] = moves.given[<<v, r>>]
  BY DEF Paid
<1>4. \A v \in outs : paid[v] \in Nat
  BY <1>2, <1>8
<1>9. left \in Nat
  BY <1>2
<1>5. ASSUME NEW v \in outs
      PROVE  got[v] = IF \A w \in outs : v <= w THEN paid[v] + left ELSE paid[v]
  <2>1. got[v] = paid[v] + (IF Fallback(tx, v) /\ Credits(left) THEN left ELSE 0)
    BY <1>8 DEF Received
  <2>2. Fallback(tx, v) <=> \A w \in outs : v <= w
    BY DEF Fallback
  <2>3. Credits(left) <=> left # 0
    BY <1>2 DEF Credits
  <2>4. paid[v] \in Nat /\ v \in outs
    BY <1>4
  <2> HIDE DEF got, paid, left, outs
  <2>5. CASE left = 0
    BY <1>9, <2>1, <2>4, <2>5
  <2>6. CASE left # 0
    BY <1>9, <2>1, <2>2, <2>3, <2>4, <2>6
  <2> QED BY <2>5, <2>6
<1> HIDE DEF outs, got, paid, left
<1>6. \A v \in outs : got[v] \in Nat
  <2> SUFFICES ASSUME NEW v \in outs PROVE got[v] \in Nat
    OBVIOUS
  <2>1. paid[v] \in Nat /\ paid[v] + left \in Nat
    BY <1>4, <1>9
  <2>2. got[v] = paid[v] + left \/ got[v] = paid[v]
    BY <1>5
  <2> QED BY <2>1, <2>2
<1>7. ASSUME outs # {} PROVE SumOver(got, outs) = total[r]
  <2>1. PICK first \in outs : \A w \in outs : first <= w
    BY <1>1, <1>7, Least
  <2>2. \A v \in outs \ {first} : got[v] = paid[v]
    <3> SUFFICES ASSUME NEW v \in outs \ {first} PROVE got[v] = paid[v]
      OBVIOUS
    <3>1. ~(v <= first)
      BY <1>1, <2>1
    <3>2. ~(\A w \in outs : v <= w)
      BY <2>1, <3>1
    <3> QED BY <1>5, <3>2
  <2>3. got[first] = paid[first] + left
    BY <1>5, <2>1
  <2>4. SumOver(got, outs) + paid[first] = SumOver(paid, outs) + got[first]
    <3>1. \A v \in outs : paid[v] \in Nat /\ got[v] \in Nat
      BY <1>4, <1>6
    <3>2. IsFiniteSet(outs) /\ first \in outs
      BY <1>1
    <3> QED BY <2>2, <3>1, <3>2, SumChange
  <2>5. SumOver(got, outs) \in Nat /\ SumOver(paid, outs) \in Nat /\ paid[first] \in Nat
    BY <1>1, <1>4, <1>6, SumNumber
  <2> QED BY <1>2, <1>3, <2>3, <2>4, <2>5
<1> QED BY <1>6, <1>7 DEF outs, got

\* The chain goes one way.
LEMMA OneWay ==
  ASSUME NEW p \in Positions, NEW q \in Positions, NEW o \in Positions, Precedes(p, q)
  PROVE  p # q /\ (Precedes(q, o) => Precedes(p, o))
<1>1. p \in Ref /\ q \in Ref /\ o \in Ref
  BY TransactionAssumption
<1>2. /\ p[1] \in Nat /\ p[2] \in Nat /\ q[1] \in Nat /\ q[2] \in Nat /\ o[1] \in Nat /\ o[2] \in Nat
  BY <1>1 DEF Ref
<1> QED BY <1>2 DEF Precedes

\* What one output gets of one rune.
Gets(tx, pos, ins, r, v) == Received(tx, AfterEdicts(tx, pos, ins), v, r)

\* After a transaction there is what was not spent, and on its outputs what they received.
LEMMA BalancesAfter ==
  ASSUME RegistryOK, BalancesOK, NEW tx \in Transactions, NEW pos \in Positions,
         NEW ins \in SUBSET Carrying, ApplyTx(tx, pos, ins),
         NEW r \in Positions, r \in DOMAIN RunesAfterEtching(tx, pos)
  PROVE  LET kept == {k \in Of(r) : k[1] \notin ins}
             got  == {v \in Eligible(tx) : Gets(tx, pos, ins, r, v) > 0}
         IN /\ {k \in DOMAIN balances' : k[2] = r} = kept \cup {<<<<pos, v>>, r>> : v \in got}
            /\ \A k \in kept : k[1][1] # pos /\ balances'[k] = balances[k]
            /\ \A v \in got : balances'[<<<<pos, v>>, r>>] = Gets(tx, pos, ins, r, v)
<1> DEFINE known == RunesAfterEtching(tx, pos)
           held == {k \in DOMAIN balances : k[1] \notin ins}
           new == {<<<<pos, v>>, q>> : v \in Eligible(tx), q \in DOMAIN known}
           credited == {n \in new : Credits(Gets(tx, pos, ins, n[2], n[1][2]))}
           kept == {k \in Of(r) : k[1] \notin ins}
           got == {v \in Eligible(tx) : Gets(tx, pos, ins, r, v) > 0}
<1>1. balances' = [k \in held \cup credited |->
                     IF k \in held THEN balances[k] ELSE Gets(tx, pos, ins, k[2], k[1][2])]
  BY DEF ApplyTx, Transfers, Gets
<1>2. ASSUME NEW k \in held PROVE k[1][1] # pos
  <2>1. k[1][1] \in Positions /\ at # None /\ (k[1][1] = at \/ Precedes(k[1][1], at))
    BY DEF BalancesOK
  <2>2. at \in Positions /\ Precedes(at, pos)
    BY <2>1 DEF RegistryOK, ApplyTx
  <2> QED BY <2>1, <2>2, OneWay
<1>3. \A v \in Eligible(tx) : <<<<pos, v>>, r>> \in credited <=> v \in got
  <2> SUFFICES ASSUME NEW v \in Eligible(tx) PROVE <<<<pos, v>>, r>> \in credited <=> v \in got
    OBVIOUS
  <2> DEFINE n == <<<<pos, v>>, r>>
  <2>1. n \in new /\ n[2] = r /\ n[1][2] = v
    OBVIOUS
  <2>2. n \in credited <=> Credits(Gets(tx, pos, ins, r, v))
    <3> HIDE DEF n, new
    <3> QED BY <2>1
  <2> QED BY <2>2 DEF Credits
<1>4. \A n \in credited : n[2] = r => \E v \in got : n = <<<<pos, v>>, r>>
  <2> SUFFICES ASSUME NEW n \in credited, n[2] = r PROVE \E v \in got : n = <<<<pos, v>>, r>>
    OBVIOUS
  <2>1. PICK v \in Eligible(tx), q \in DOMAIN known : n = <<<<pos, v>>, q>>
    OBVIOUS
  <2>2. n = <<<<pos, v>>, r>> /\ n \in credited
    BY <2>1
  <2>3. v \in got
    <3> HIDE DEF credited, got
    <3> QED BY <1>3, <2>2
  <2> QED BY <2>2, <2>3
<1>5. \A v \in got : v \in Eligible(tx) /\ <<<<pos, v>>, r>> \in credited
  BY <1>3
<1>6. \A k : k \in kept <=> k \in held /\ k[2] = r
  BY DEF Of
<1>7. \A v : <<<<pos, v>>, r>> \notin held
  BY <1>2
<1> HIDE DEF held, credited, kept, got
<1>8. \A k : k \in DOMAIN balances' <=> k \in held \/ k \in credited
  BY <1>1
<1>9. {k \in DOMAIN balances' : k[2] = r} = kept \cup {<<<<pos, v>>, r>> : v \in got}
  <2>1. ASSUME NEW k \in DOMAIN balances', k[2] = r
        PROVE  k \in kept \cup {<<<<pos, v>>, r>> : v \in got}
    BY <1>4, <1>6, <1>8, <2>1
  <2>2. ASSUME NEW k \in kept PROVE k \in DOMAIN balances' /\ k[2] = r
    BY <1>6, <1>8
  <2>3. ASSUME NEW v \in got PROVE <<<<pos, v>>, r>> \in DOMAIN balances' /\ <<<<pos, v>>, r>>[2] = r
    BY <1>5, <1>8
  <2> QED BY <2>1, <2>2, <2>3
<1>10. \A k \in kept : k[1][1] # pos /\ balances'[k] = balances[k]
  BY <1>1, <1>2, <1>6
<1>11. ASSUME NEW v \in got PROVE balances'[<<<<pos, v>>, r>>] = Gets(tx, pos, ins, r, v)
  <2> DEFINE n == <<<<pos, v>>, r>>
  <2>1. n \in credited /\ n \notin held /\ n[2] = r /\ n[1][2] = v
    BY <1>5, <1>7
  <2> HIDE DEF n
  <2>2. balances'[n] = Gets(tx, pos, ins, n[2], n[1][2])
    BY <1>1, <2>1
  <2> QED BY <2>1, <2>2 DEF n
<1> QED BY <1>9, <1>10, <1>11 DEF kept, got

\* The amounts that move in a transaction are numbers, and all of what is pooled is split.
LEMMA Pooled ==
  ASSUME RegistryOK, BalancesOK, NEW tx \in Transactions, NEW pos \in Positions,
         NEW ins, NEW r \in Positions
  PROVE  /\ \A v \in Eligible(tx) : Gets(tx, pos, ins, r, v) \in Nat
         /\ Eligible(tx) # {} =>
              SumOver([v \in Eligible(tx) |-> Gets(tx, pos, ins, r, v)], Eligible(tx))
                = Held(ins, r) + Issued(tx, pos, r)
<1> DEFINE total == PooledOf(tx, pos, ins)
           moves == AfterEdicts(tx, pos, ins)
           got == [v \in Eligible(tx) |-> Received(tx, moves, v, r)]
<1>1. \A q \in Positions : Held(ins, q) + Issued(tx, pos, q) \in Nat
  <2> SUFFICES ASSUME NEW q \in Positions PROVE Held(ins, q) + Issued(tx, pos, q) \in Nat
    OBVIOUS
  <2>1. Held(ins, q) \in Nat
    BY HeldPart
  <2>2. Issued(tx, pos, q) \in Nat
    BY IssuedIs
  <2> QED BY <2>1, <2>2
<1>2. Splits(tx, moves, total)
  BY <1>1, EdictsSplit
<1>3. total[r] = Held(ins, r) + Issued(tx, pos, r)
  BY DEF PooledOf
<1>4. \A v \in Eligible(tx) : got[v] = Gets(tx, pos, ins, r, v)
  BY DEF Gets
<1>5. got = [v \in Eligible(tx) |-> Gets(tx, pos, ins, r, v)]
  BY DEF Gets
<1> HIDE DEF total, moves
<1>6. /\ \A v \in Eligible(tx) : got[v] \in Nat
      /\ Eligible(tx) # {} => SumOver(got, Eligible(tx)) = total[r]
  BY <1>2, ReceivedAll
<1> HIDE DEF got
<1> QED BY <1>3, <1>4, <1>5, <1>6

\* What is outstanding of a known rune once the transaction is applied.
LEMMA OutstandingAfter ==
  ASSUME RegistryOK, BalancesOK, NEW tx \in Transactions, NEW pos \in Positions,
         NEW ins \in SUBSET Carrying, ApplyTx(tx, pos, ins),
         NEW r \in Positions, r \in DOMAIN RunesAfterEtching(tx, pos)
  PROVE  /\ IsFiniteSet({k \in DOMAIN balances' : k[2] = r})
         /\ Outstanding(r)' + burned'[r] = Outstanding(r) + burned[r] + Issued(tx, pos, r)
<1> DEFINE outs == Eligible(tx)
           kept == {k \in Of(r) : k[1] \notin ins}
           got == {v \in outs : Gets(tx, pos, ins, r, v) > 0}
           key == [v \in got |-> <<<<pos, v>>, r>>]
           credits == {<<<<pos, v>>, r>> : v \in got}
           w == [v \in outs |-> Gets(tx, pos, ins, r, v)]
<1>1. /\ {k \in DOMAIN balances' : k[2] = r} = kept \cup credits
      /\ \A k \in kept : k[1][1] # pos /\ balances'[k] = balances[k]
      /\ \A v \in got : balances'[<<<<pos, v>>, r>>] = Gets(tx, pos, ins, r, v)
  BY BalancesAfter
<1>2. /\ IsFiniteSet(kept) /\ SumOver(balances, kept) \in Nat /\ Held(ins, r) \in Nat
      /\ Outstanding(r) = SumOver(balances, kept) + Held(ins, r)
  BY HeldPart
<1>3. /\ \A v \in outs : w[v] \in Nat /\ w[v] = Gets(tx, pos, ins, r, v)
      /\ outs # {} => SumOver(w, outs) = Held(ins, r) + Issued(tx, pos, r)
  BY Pooled
<1>4. IsFiniteSet(outs) /\ IsFiniteSet(got) /\ IsFiniteSet(outs \ got)
  BY FewOutputs, FS_Subset
<1>5. /\ key \in [got -> credits] /\ \A x, y \in got : key[x] = key[y] => x = y
      /\ \A z \in credits : \E x \in got : key[x] = z
  OBVIOUS
<1>6. IsFiniteSet(credits)
  <2> HIDE DEF credits, key, got
  <2>1. key \in Surjection(got, credits)
    BY <1>5, Zenon DEF Surjection
  <2> QED BY <1>4, <2>1, FS_Surjection
<1>7. \A v \in got : w[v] \in Nat /\ balances'[key[v]] = w[v] /\ w[v] > 0 /\ v \in outs
  BY <1>1, <1>3
<1>8. \A k \in credits : balances'[k] \in Nat
  <2> SUFFICES ASSUME NEW k \in credits PROVE balances'[k] \in Nat
    OBVIOUS
  <2>1. PICK v \in got : key[v] = k
    BY <1>5
  <2> HIDE DEF key, credits, got, w
  <2> QED BY <1>7, <2>1
<1>9. \A k \in kept : balances[k] \in Nat
  BY DEF BalancesOK, Of
<1>10. kept \cap credits = {}
  BY <1>1
<1>11. \A v \in outs \ got : w[v] = 0
  BY <1>3
<1>12. got \cap (outs \ got) = {} /\ outs = got \cup (outs \ got)
  OBVIOUS
<1>13. burned'[r] = burned[r] + IF outs = {} THEN Held(ins, r) + Issued(tx, pos, r) ELSE 0
  BY DEF ApplyTx
<1>14. burned[r] \in Nat /\ Issued(tx, pos, r) \in Nat
  BY IssuedIs DEF BalancesOK
<1> HIDE DEF outs, kept, got, key, credits, w
<1>15. SumOver(balances', kept) = SumOver(balances, kept)
  BY <1>1, <1>2, <1>9, SumSame
<1>16. SumOver(w, got) = SumOver(balances', credits)
  BY <1>4, <1>5, <1>6, <1>7, SumAlike
<1>17. SumOver(w, outs) = SumOver(w, got)
  <2>1. SumOver(w, outs \ got) = 0
    BY <1>4, <1>11, SumZero
  <2>2. \A v \in got \cup (outs \ got) : w[v] \in Nat
    BY <1>3, <1>12
  <2>3. SumOver(w, got \cup (outs \ got)) = SumOver(w, got) + SumOver(w, outs \ got)
    BY <1>4, <1>12, <2>2, SumApart
  <2>4. SumOver(w, got) \in Nat
    BY <1>4, <1>7, SumNumber
  <2> QED BY <1>12, <2>1, <2>3, <2>4
<1>18. /\ IsFiniteSet(kept \cup credits)
       /\ SumOver(balances', kept \cup credits)
            = SumOver(balances', kept) + SumOver(balances', credits)
  <2>1. \A k \in kept \cup credits : balances'[k] \in Nat
    BY <1>1, <1>8, <1>9
  <2> QED BY <1>2, <1>6, <1>10, <2>1, SumApart
<1>19. Outstanding(r)' = SumOver(balances, kept) + SumOver(w, outs)
  <2>1. Outstanding(r)' = SumOver(balances', kept \cup credits)
    BY <1>1, OutstandingIs
  <2> QED BY <1>15, <1>16, <1>17, <1>18, <2>1
<1>20. outs = {} => SumOver(w, outs) = 0
  BY <1>3, <1>4, SumNumber
<1>21. IsFiniteSet({k \in DOMAIN balances' : k[2] = r})
  BY <1>1, <1>18
<1>22. CASE outs = {}
  <2>1. burned'[r] = burned[r] + (Held(ins, r) + Issued(tx, pos, r))
    BY <1>13, <1>22
  <2>2. Outstanding(r)' = SumOver(balances, kept)
    BY <1>2, <1>19, <1>20, <1>22
  <2> QED BY <1>2, <1>14, <1>21, <2>1, <2>2
<1>23. CASE outs # {}
  <2>1. burned'[r] = burned[r]
    BY <1>13, <1>14, <1>23
  <2>2. Outstanding(r)' = SumOver(balances, kept) + (Held(ins, r) + Issued(tx, pos, r))
    BY <1>3, <1>19, <1>23
  <2> QED BY <1>2, <1>14, <1>21, <2>1, <2>2
<1> QED BY <1>22, <1>23

\* A transaction leaves the balances well formed.
LEMMA BalancesStep ==
  ASSUME RegistryOK, BalancesOK, NEW tx \in Transactions, NEW pos \in Positions,
         NEW ins \in SUBSET Carrying, ApplyTx(tx, pos, ins)
  PROVE  BalancesOK'
<1> DEFINE known == RunesAfterEtching(tx, pos)
<1>1. /\ DOMAIN runes' = DOMAIN known /\ DOMAIN runes \subseteq DOMAIN known
      /\ DOMAIN known \subseteq Positions
  <2>1. DOMAIN runes' = DOMAIN known
    BY AfterTx
  <2>2. DOMAIN known = IF Etches(tx, pos) THEN DOMAIN runes \cup {pos} ELSE DOMAIN runes
    BY Known
  <2>3. DOMAIN runes \subseteq Positions
    BY DEF RegistryOK
  <2> QED BY <2>1, <2>2, <2>3
<1>2. at' = pos /\ pos # None /\ pos \in Ref
  BY TransactionAssumption DEF ApplyTx
<1>3. ASSUME NEW k \in DOMAIN balances'
      PROVE  k \in DOMAIN balances \/ \E v \in Eligible(tx), r \in DOMAIN known : k = <<<<pos, v>>, r>>
  BY DEF ApplyTx, Transfers
<1>4. ASSUME NEW k \in DOMAIN balances'
      PROVE  /\ k \in Outpoint \X (DOMAIN runes') /\ k[1][1] \in Positions
             /\ k[1][1] = at' \/ Precedes(k[1][1], at')
  <2>1. CASE k \in DOMAIN balances
    <3>1. /\ k \in Outpoint \X (DOMAIN runes) /\ k[1][1] \in Positions
          /\ at # None /\ (k[1][1] = at \/ Precedes(k[1][1], at))
      BY <2>1 DEF BalancesOK
    <3>2. at \in Positions /\ Precedes(at, pos)
      BY <3>1 DEF RegistryOK, ApplyTx
    <3>3. Precedes(k[1][1], pos)
      BY <3>1, <3>2, OneWay
    <3>4. k \in Outpoint \X (DOMAIN runes')
      BY <1>1, <3>1
    <3> QED BY <1>2, <3>1, <3>3, <3>4
  <2>2. CASE k \notin DOMAIN balances
    <3>1. PICK v \in Eligible(tx), r \in DOMAIN known : k = <<<<pos, v>>, r>>
      BY <1>3, <2>2
    <3>2. v \in Nat
      BY FewOutputs
    <3>3. <<pos, v>> \in Outpoint
      BY <1>2, <3>2 DEF Outpoint
    <3>4. k[1][1] = pos /\ k \in Outpoint \X (DOMAIN runes')
      BY <1>1, <3>1, <3>3
    <3> QED BY <1>2, <3>4
  <2> QED BY <2>1, <2>2
<1>5. ASSUME NEW k \in DOMAIN balances' PROVE balances'[k] \in Nat \ {0}
  <2> DEFINE r == k[2]
             kept == {j \in Of(r) : j[1] \notin ins}
             got == {v \in Eligible(tx) : Gets(tx, pos, ins, r, v) > 0}
  <2>1. r \in DOMAIN known /\ r \in Positions
    BY <1>1, <1>4
  <2>2. /\ {j \in DOMAIN balances' : j[2] = r} = kept \cup {<<<<pos, v>>, r>> : v \in got}
        /\ \A j \in kept : j[1][1] # pos /\ balances'[j] = balances[j]
        /\ \A v \in got : balances'[<<<<pos, v>>, r>>] = Gets(tx, pos, ins, r, v)
    <3> HIDE DEF r
    <3> QED BY <2>1, BalancesAfter
  <2>3. \A v \in Eligible(tx) : Gets(tx, pos, ins, r, v) \in Nat
    <3> HIDE DEF r
    <3> QED BY <2>1, Pooled
  <2>4. \A j \in kept : balances[j] \in Nat \ {0}
    BY DEF Of, BalancesOK
  <2>5. \A v \in got : Gets(tx, pos, ins, r, v) \in Nat \ {0}
    BY <2>3
  <2>6. k \in kept \cup {<<<<pos, v>>, r>> : v \in got}
    <3>1. k \in {j \in DOMAIN balances' : j[2] = r}
      OBVIOUS
    <3> HIDE DEF kept, got, r
    <3> QED BY <2>2, <3>1
  <2> HIDE DEF kept, got, r
  <2>7. CASE k \in kept
    BY <2>2, <2>4, <2>7
  <2>8. CASE k \notin kept
    <3>1. PICK v \in got : k = <<<<pos, v>>, r>>
      BY <2>6, <2>8
    <3> QED BY <2>2, <2>5, <3>1
  <2> QED BY <2>7, <2>8
<1>6. ASSUME NEW r \in Positions
      PROVE  /\ IsFiniteSet({k \in DOMAIN balances' : k[2] = r}) /\ burned'[r] \in Nat
             /\ r \notin DOMAIN runes' => burned'[r] = 0
  <2>1. /\ Held(ins, r) \in Nat /\ Issued(tx, pos, r) \in Nat /\ burned[r] \in Nat
        /\ r \notin DOMAIN runes' => Held(ins, r) = 0 /\ Issued(tx, pos, r) = 0 /\ burned[r] = 0
    <3>1. Held(ins, r) \in Nat /\ (r \notin DOMAIN runes => Held(ins, r) = 0)
      BY HeldPart
    <3>2. Issued(tx, pos, r) \in Nat /\ (r \notin DOMAIN known => Issued(tx, pos, r) = 0)
      BY IssuedIs
    <3>3. burned[r] \in Nat /\ (r \notin DOMAIN runes => burned[r] = 0)
      BY DEF BalancesOK
    <3> QED BY <1>1, <3>1, <3>2, <3>3
  <2>2. burned'[r] = burned[r] + IF Eligible(tx) = {} THEN Held(ins, r) + Issued(tx, pos, r) ELSE 0
    BY DEF ApplyTx
  <2>3. burned'[r] \in Nat /\ (r \notin DOMAIN runes' => burned'[r] = 0)
    BY <2>1, <2>2
  <2>4. CASE r \in DOMAIN known
    BY <2>3, <2>4, OutstandingAfter
  <2>5. CASE r \notin DOMAIN known
    <3>1. {k \in DOMAIN balances' : k[2] = r} = {}
      BY <1>1, <1>4, <2>5
    <3> QED BY <2>3, <3>1, FS_EmptySet
  <2> QED BY <2>4, <2>5
<1>7. burned' \in [Positions -> Nat]
  <2>1. burned' = [r \in Positions |-> burned'[r]]
    BY DEF ApplyTx
  <2> QED BY <1>6, <2>1
<1>8. at' # None
  BY <1>2
<1>9. DOMAIN balances' \subseteq Outpoint \X (DOMAIN runes')
  BY <1>4
<1>10. \A k \in DOMAIN balances' :
         /\ balances'[k] \in Nat \ {0} /\ k[1][1] \in Positions
         /\ at' # None /\ (k[1][1] = at' \/ Precedes(k[1][1], at'))
  BY <1>4, <1>5, <1>8
<1>11. \A r \in Positions : IsFiniteSet({k \in DOMAIN balances' : k[2] = r})
  BY <1>6
<1>12. \A r \in Positions \ DOMAIN runes' : burned'[r] = 0
  BY <1>6
<1> QED BY <1>7, <1>9, <1>10, <1>11, <1>12 DEF BalancesOK, Of

TypeInv == RegistryOK /\ BalancesOK

\* The balances, the registry and the counters are of their types, whatever is mined.
LEMMA TypeStep ==
  ASSUME TypeInv, [Next]_vars
  PROVE  TypeInv'
<1>1. CASE Next
  <2>1. PICK tx \in Transactions, pos \in Positions, ins \in SUBSET Carrying : ApplyTx(tx, pos, ins)
    BY <1>1 DEF Next
  <2> QED BY <2>1, BalancesStep, RegistryStep DEF TypeInv
<1>2. CASE UNCHANGED vars
  <2>1. /\ runes' = runes /\ balances' = balances /\ burned' = burned /\ at' = at
    BY <1>2 DEF vars, state
  <2>2. BalancesOK'
    BY <2>1 DEF TypeInv, BalancesOK, Of
  <2> QED BY <1>2, <2>2, RegistryStep DEF TypeInv
<1> QED BY <1>1, <1>2

\* What a state machine that has applied nothing holds.
LEMMA TypeInit ==
  ASSUME Init
  PROVE  TypeInv /\ Conserved
<1>1. RegistryOK
  BY InitGood DEF NamesInv
<1>2. DOMAIN balances = {} /\ DOMAIN runes = {} /\ burned = [r \in Positions |-> 0]
  BY DEF Init, Empty
<1>3. \A r \in Positions : Of(r) = {}
  BY <1>2 DEF Of
<1>4. BalancesOK
  BY <1>2, <1>3, FS_EmptySet DEF BalancesOK
<1> QED BY <1>1, <1>2, <1>4 DEF TypeInv, Conserved

\* The state of the machine is always well formed: in particular no balance is zero or
\* negative, and every one is of a rune that exists, at an output already mined.
THEOREM StateTyped == Spec => []TypeOK
<1>1. Init => TypeInv
  BY TypeInit
<1>2. TypeInv /\ [Next]_vars => TypeInv'
  BY TypeStep
<1>3. TypeInv => TypeOK
  BY DEF TypeInv, TypeOK, BalancesOK
<1> QED BY <1>1, <1>2, <1>3, PTL DEF Spec

\* A transaction conserves the units of every rune: of one etched before as of one it etches.
LEMMA ConservedTx ==
  ASSUME SmallSupplies, TypeInv, TermsInv, Conserved, NEW tx \in Transactions, NEW pos \in Positions,
         NEW ins \in SUBSET Carrying, ApplyTx(tx, pos, ins)
  PROVE  Conserved'
<1> DEFINE known == RunesAfterEtching(tx, pos)
<1>1. /\ DOMAIN runes' = DOMAIN known
      /\ \A r \in DOMAIN known :
           /\ runes'[r] = IF Mints(tx, pos, r, known) THEN Minted(known[r]) ELSE known[r]
           /\ known[r] \in Rune
           /\ Mints(tx, pos, r, known) => known[r].terms # None
  BY AfterTx DEF TypeInv
<1>2. /\ DOMAIN known = IF Etches(tx, pos) THEN DOMAIN runes \cup {pos} ELSE DOMAIN runes
      /\ Etches(tx, pos) => pos \notin DOMAIN runes /\ known[pos] = Registered(tx.etching)
      /\ \A r \in DOMAIN runes : known[r] = runes[r]
  BY Known DEF TypeInv
<1>3. DOMAIN runes \subseteq Positions
  BY DEF TypeInv, RegistryOK
<1>4. ASSUME NEW r \in DOMAIN known
      PROVE  Outstanding(r)' + burned'[r] = runes'[r].premine + runes'[r].minted
  <2> DEFINE x == known[r]
             etched == IF Etches(tx, pos) /\ r = pos THEN tx.etching.premine ELSE 0
             minted == IF Mints(tx, pos, r, known) THEN x.terms.amount ELSE 0
  <2>1. r \in Positions
    BY <1>2, <1>3
  <2>2. Outstanding(r)' + burned'[r] = Outstanding(r) + burned[r] + Issued(tx, pos, r)
    BY <2>1, OutstandingAfter DEF TypeInv
  <2>3. Issued(tx, pos, r) = etched + minted
    BY DEF Issued
  <2>4. Outstanding(r) \in Nat /\ burned[r] \in Nat
    <3>1. Outstanding(r) \in Nat
      <4>1. BalancesOK
        BY DEF TypeInv
      <4> QED BY <2>1, <4>1, HeldPart
    <3> QED BY <2>1, <3>1 DEF TypeInv, BalancesOK
  <2>5. /\ Outstanding(r) + burned[r] + etched = x.premine + x.minted /\ etched \in Nat
        /\ x.supply < Exact /\ x.premine + x.minted <= x.supply
    <3>1. CASE r \in DOMAIN runes
      <4>1. etched = 0 /\ x = runes[r]
        BY <1>2, <3>1
      <4>2. Outstanding(r) + burned[r] = runes[r].premine + runes[r].minted
        BY <3>1 DEF Conserved
      <4>3. runes[r].supply < Exact /\ runes[r].premine + runes[r].minted <= runes[r].supply
        BY <3>1 DEF TermsInv, CountersExact
      <4> HIDE DEF etched, x
      <4> QED BY <2>4, <4>1, <4>2, <4>3
    <3>2. CASE r \notin DOMAIN runes
      <4>1. Etches(tx, pos) /\ r = pos /\ x = Registered(tx.etching)
        BY <1>2, <3>2
      <4>2. Of(r) = {}
        BY <3>2 DEF Of, TypeInv, BalancesOK
      <4>3. Outstanding(r) = 0
        <5>1. SumOver(balances, {}) = 0
          BY FS_EmptySet, SumNumber
        <5> QED BY <4>2, <5>1, OutstandingIs
      <4>4. burned[r] = 0
        BY <2>1, <3>2 DEF TypeInv, BalancesOK
      <4>5. tx.etching # None /\ Legal(tx.etching) /\ tx.etching \in Etching
        BY <4>1, Typed DEF Etches
      <4>6. tx.etching.premine \in Nat /\ tx.etching.premine <= tx.etching.supply
            /\ tx.etching.supply < Exact
        BY <4>5 DEF Etching, Legal, SmallSupplies
      <4>7. etched = tx.etching.premine
        BY <4>1
      <4>8. x.premine = tx.etching.premine /\ x.minted = 0 /\ x.supply = tx.etching.supply
        BY <4>1 DEF Registered
      <4> HIDE DEF etched, x
      <4> QED BY <4>3, <4>4, <4>6, <4>7, <4>8
    <3> QED BY <3>1, <3>2
  <2>6. /\ x \in Rune /\ runes'[r] = IF Mints(tx, pos, r, known) THEN Minted(x) ELSE x
        /\ Mints(tx, pos, r, known) => x.terms # None
    BY <1>1
  <2>7. Mints(tx, pos, r, known) => ~OverSupply(x)
    BY DEF Mints
  <2>8. minted = IF Mints(tx, pos, r, known) THEN x.terms.amount ELSE 0
    OBVIOUS
  <2>9. x.premine \in Nat /\ x.minted \in Nat
    <3> HIDE DEF x
    <3> QED BY <2>6 DEF Rune
  <2> HIDE DEF x, etched, minted, known
  <2>10. CASE Mints(tx, pos, r, known)
    <3>1. /\ x.terms # None /\ ~OverSupply(x) /\ minted = x.terms.amount /\ runes'[r] = Minted(x)
      BY <2>6, <2>7, <2>8, <2>10
    <3>2. Plus(x.minted, x.terms.amount) = x.minted + x.terms.amount
      BY <2>5, <2>6, <3>1, MintExact
    <3>3. runes'[r].premine = x.premine /\ runes'[r].minted = x.minted + x.terms.amount
      BY <2>6, <3>1, <3>2, MintCounts
    <3>4. x.terms.amount \in Nat
      BY <2>6, <3>1 DEF Rune, Terms
    <3>5. minted \in Nat
      BY <3>1, <3>4
    <3>6. Outstanding(r)' + burned'[r] = x.premine + x.minted + minted
      <4> SUFFICES ASSUME NEW held, NEW gone, NEW fresh, held = Outstanding(r), gone = burned[r],
                          fresh = Issued(tx, pos, r)
                   PROVE  held + gone + fresh = x.premine + x.minted + minted
        BY <2>2
      <4>1. held \in Nat /\ gone \in Nat /\ fresh = etched + minted /\ etched \in Nat
            /\ held + gone + etched = x.premine + x.minted
        BY <2>3, <2>4, <2>5
      <4> QED BY <2>9, <3>5, <4>1
    <3> QED BY <2>9, <3>1, <3>3, <3>5, <3>6
  <2>11. CASE ~Mints(tx, pos, r, known)
    <3>1. minted = 0 /\ runes'[r] = x
      BY <2>6, <2>8, <2>11
    <3> QED BY <2>2, <2>3, <2>4, <2>5, <2>9, <3>1
  <2> QED BY <2>10, <2>11
<1> QED BY <1>1, <1>4 DEF Conserved

\* No unit is made or lost on the way, through any order of etchings, mints, edicts, invalid messages
\* and plain sends (indexer.js:11-13), provided no supply etched reaches 2^53.
THEOREM UnitsConserved == SmallSupplies => (Spec => []Conserved)
<1> SUFFICES ASSUME SmallSupplies PROVE Spec => []Conserved
  OBVIOUS
<1> DEFINE Inv == TypeInv /\ TermsInv /\ Conserved
<1>1. Init => Inv
  BY InitGood, TypeInit
<1>2. Inv /\ [Next]_vars => Inv'
  <2> SUFFICES ASSUME Inv, [Next]_vars PROVE Inv'
    OBVIOUS
  <2>1. TypeInv'
    BY TypeStep
  <2>2. TermsInv'
    BY RegistryStep, TermsStep DEF TermsInv
  <2>3. CASE Next
    <3>1. PICK tx \in Transactions, pos \in Positions, ins \in SUBSET Carrying : ApplyTx(tx, pos, ins)
      BY <2>3 DEF Next
    <3>2. Conserved'
      BY <3>1, ConservedTx
    <3> QED BY <2>1, <2>2, <3>2
  <2>4. CASE UNCHANGED vars
    <3>1. runes' = runes /\ balances' = balances /\ burned' = burned
      BY <2>4 DEF vars, state
    <3>2. \A r \in DOMAIN runes : Outstanding(r)' = Outstanding(r)
      BY <3>1, OutstandingIs DEF Of
    <3>3. Conserved'
      BY <3>1, <3>2 DEF Conserved
    <3> QED BY <2>1, <2>2, <3>3
  <2> QED BY <2>3, <2>4
<1>3. Inv => Conserved
  OBVIOUS
<1> QED BY <1>1, <1>2, <1>3, PTL DEF Spec

-----------------------------------------------------------------------------
(* What the entries of an allowlist have taken, together.                   *)

TakenFrom(r) == {k \in DOMAIN allowlistMinted : k[1] = r}
TakenExact ==
  \A r \in DOMAIN runes :
    /\ IsFiniteSet(TakenFrom(r))
    /\ runes[r].gate # {} => runes[r].minted = SumOver(allowlistMinted, TakenFrom(r))

\* A mint of a gated rune is charged to the entry that proved itself, and to no other.
LEMMA TakenAfter ==
  ASSUME SmallSupplies, TermsInv, GateInv, TakenExact, NEW tx \in Transactions, NEW pos \in Positions,
         NEW ins \in SUBSET Carrying, ApplyTx(tx, pos, ins)
  PROVE  TakenExact'
<1> DEFINE known == RunesAfterEtching(tx, pos)
           charged == {<<r, tx.proof>> : r \in {q \in DOMAIN known :
                         Mints(tx, pos, q, known) /\ known[q].gate # {}}}
           later(r) == {k \in DOMAIN allowlistMinted' : k[1] = r}
<1>0. RegistryOK
  BY DEF TermsInv
<1>1. /\ DOMAIN runes' = DOMAIN known
      /\ \A r \in DOMAIN known :
           /\ runes'[r] = IF Mints(tx, pos, r, known) THEN Minted(known[r]) ELSE known[r]
           /\ known[r] \in Rune
           /\ Mints(tx, pos, r, known) => known[r].terms # None
  BY <1>0, AfterTx
<1>2. /\ DOMAIN known = IF Etches(tx, pos) THEN DOMAIN runes \cup {pos} ELSE DOMAIN runes
      /\ Etches(tx, pos) => pos \notin DOMAIN runes /\ known[pos] = Registered(tx.etching)
      /\ \A r \in DOMAIN runes : known[r] = runes[r]
  BY <1>0, Known
<1>3. allowlistMinted' = [k \in DOMAIN allowlistMinted \cup charged |->
        IF k \in charged THEN Plus(Used(k[1], k[2]), known[k[1]].terms.amount)
                         ELSE allowlistMinted[k]]
  BY DEF ApplyTx
<1>4. \A k \in DOMAIN allowlistMinted : allowlistMinted[k] \in Nat /\ k[1] \in DOMAIN runes
                                        /\ k = <<k[1], k[2]>>
  BY <1>0 DEF RegistryOK
<1>5. ASSUME NEW r \in DOMAIN known
      PROVE  /\ IsFiniteSet(later(r))
             /\ runes'[r].gate # {} => runes'[r].minted = SumOver(allowlistMinted', later(r))
  <2> DEFINE x == known[r]
             old == TakenFrom(r)
             a == <<r, tx.proof>>
  <2>1. /\ IsFiniteSet(old) /\ (x.gate # {} => x.minted = SumOver(allowlistMinted, old))
        /\ x.supply < Exact /\ x.premine + x.minted <= x.supply
    <3>1. CASE r \in DOMAIN runes
      BY <1>2, <3>1 DEF TakenExact, TermsInv, CountersExact
    <3>2. CASE r \notin DOMAIN runes
      <4>1. old = {}
        BY <1>4, <3>2 DEF TakenFrom
      <4>2. SumOver(allowlistMinted, {}) = 0 /\ IsFiniteSet({})
        BY FS_EmptySet, SumNumber
      <4>3. Etches(tx, pos) /\ x = Registered(tx.etching)
        BY <1>2, <3>2
      <4>4. tx.etching # None /\ Legal(tx.etching) /\ tx.etching \in Etching
        BY <4>3, Typed DEF Etches
      <4>5. /\ tx.etching.premine \in Nat /\ tx.etching.premine <= tx.etching.supply
            /\ tx.etching.supply < Exact
        BY <4>4 DEF Etching, Legal, SmallSupplies
      <4>6. x.premine = tx.etching.premine /\ x.minted = 0 /\ x.supply = tx.etching.supply
        BY <4>3 DEF Registered
      <4> HIDE DEF x, old
      <4> QED BY <4>1, <4>2, <4>5, <4>6
    <3> QED BY <3>1, <3>2
  <2>2. /\ x \in Rune /\ runes'[r] = IF Mints(tx, pos, r, known) THEN Minted(x) ELSE x
        /\ Mints(tx, pos, r, known) => x.terms # None
    BY <1>1
  <2>3. \A k \in old : allowlistMinted[k] \in Nat /\ k = <<k[1], k[2]>> /\ k[1] = r
    BY <1>4 DEF TakenFrom
  <2>4. CASE Mints(tx, pos, r, known) /\ x.gate # {}
    <3> DEFINE now == allowlistMinted'[a]
    <3>1. a \in charged /\ a[1] = r /\ a[2] = tx.proof
      BY <2>4
    <3>2. \A k \in charged : k[1] = r => k = a
      OBVIOUS
    <3>3. later(r) = old \cup {a}
      <4> HIDE DEF charged, a
      <4> QED BY <1>3, <3>1, <3>2 DEF TakenFrom
    <3>4. \A k \in old \ {a} : allowlistMinted'[k] = allowlistMinted[k]
      <4> HIDE DEF charged, a
      <4> QED BY <1>3, <2>3, <3>2 DEF TakenFrom
    <3>5. now = Plus(Used(r, tx.proof), x.terms.amount)
      <4> HIDE DEF charged, a, known
      <4> QED BY <1>3, <3>1
    <3>6. Used(r, tx.proof) = IF a \in old THEN allowlistMinted[a] ELSE 0
      <4>1. a \in old <=> a \in DOMAIN allowlistMinted
        BY DEF TakenFrom
      <4> QED BY <4>1 DEF Used
    <3> HIDE DEF a, old, known, charged, x
    <3>7. /\ x.terms.amount \in Nat /\ x.premine \in Nat /\ x.minted \in Nat
          /\ runes'[r].minted = x.minted + x.terms.amount /\ x.minted + x.terms.amount < Exact
      <4>1. x.terms # None /\ ~OverSupply(x) /\ runes'[r] = Minted(x)
        BY <2>2, <2>4 DEF Mints, x
      <4>2. /\ Plus(x.minted, x.terms.amount) = x.minted + x.terms.amount
            /\ x.premine + x.minted + x.terms.amount <= x.supply
        BY <2>1, <2>2, <4>1, MintExact
      <4>3. runes'[r].minted = x.minted + x.terms.amount
        BY <2>2, <4>1, <4>2, MintCounts
      <4>4. /\ x.terms.amount \in Nat /\ x.premine \in Nat /\ x.minted \in Nat /\ x.supply \in Nat
        BY <2>2, <4>1 DEF Rune, Terms
      <4> QED BY <2>1, <4>2, <4>3, <4>4, TransactionAssumption
    <3>8. x.minted = SumOver(allowlistMinted, old)
      BY <2>1, <2>4
    <3> DEFINE rest == old \ {a}
               used == Used(r, tx.proof)
    <3>9. /\ used \in Nat /\ IsFiniteSet(rest) /\ SumOver(allowlistMinted, rest) \in Nat
          /\ used + SumOver(allowlistMinted, rest) = x.minted
      <4>1. IsFiniteSet(rest)
        BY <2>1, FS_Subset
      <4>2. SumOver(allowlistMinted, rest) \in Nat
        BY <2>3, <4>1, SumNumber
      <4>3. CASE a \in old
        <5>1. SumOver(allowlistMinted, old) = allowlistMinted[a] + SumOver(allowlistMinted, rest)
          <6>1. \A k \in old : allowlistMinted[k] \in Nat
            BY <2>3
          <6> QED BY <2>1, <4>3, <6>1, SumTake
        <5>2. allowlistMinted[a] \in Nat
          BY <2>3, <4>3
        <5> QED BY <3>6, <3>8, <4>1, <4>2, <4>3, <5>1, <5>2
      <4>4. CASE a \notin old
        <5>1. rest = old
          BY <4>4
        <5> QED BY <3>6, <3>7, <3>8, <4>1, <4>2, <4>4, <5>1
      <4> QED BY <4>3, <4>4
    <3> HIDE DEF now, rest, used
    <3>10. now = used + x.terms.amount
      <4>1. used + x.terms.amount <= Exact
        BY <3>7, <3>9, TransactionAssumption
      <4> QED BY <3>5, <3>7, <3>9, <4>1, PlusExact DEF used
    <3>11. IsFiniteSet(old \cup {a}) /\ (old \cup {a}) \ {a} = rest
      BY <2>1, FS_AddElement DEF rest
    <3>12. SumOver(allowlistMinted', rest) = SumOver(allowlistMinted, rest)
      <4>1. \A k \in rest : allowlistMinted[k] \in Nat /\ allowlistMinted'[k] = allowlistMinted[k]
        BY <2>3, <3>4 DEF rest
      <4> QED BY <3>9, <4>1, SumSame
    <3>13. SumOver(allowlistMinted', old \cup {a}) = now + SumOver(allowlistMinted', rest)
      <4>1. \A k \in old \cup {a} : allowlistMinted'[k] \in Nat
        BY <2>3, <3>4, <3>7, <3>9, <3>10 DEF now
      <4>2. SumOver(allowlistMinted', old \cup {a})
              = allowlistMinted'[a] + SumOver(allowlistMinted', (old \cup {a}) \ {a})
        BY <3>11, <4>1, SumTake
      <4> QED BY <3>11, <4>2 DEF now
    <3>14. SumOver(allowlistMinted', old \cup {a}) = runes'[r].minted
      BY <3>7, <3>9, <3>10, <3>12, <3>13
    <3> QED BY <3>3, <3>11, <3>14
  <2>5. CASE ~(Mints(tx, pos, r, known) /\ x.gate # {})
    <3>1. \A k \in charged : k[1] # r
      BY <2>5
    <3>2. later(r) = old /\ \A k \in old : allowlistMinted'[k] = allowlistMinted[k]
      <4> HIDE DEF charged
      <4> QED BY <1>3, <2>3, <3>1 DEF TakenFrom
    <3>3. runes'[r].gate = x.gate /\ (x.gate # {} => runes'[r].minted = x.minted)
      <4> HIDE DEF x, known
      <4>1. CASE Mints(tx, pos, r, known)
        BY <2>2, <2>5, <4>1, MintCounts
      <4>2. CASE ~Mints(tx, pos, r, known)
        BY <2>2, <4>2
      <4> QED BY <4>1, <4>2
    <3> HIDE DEF x, old
    <3>4. SumOver(allowlistMinted', old) = SumOver(allowlistMinted, old)
      <4>1. \A k \in old : allowlistMinted[k] \in Nat /\ allowlistMinted'[k] = allowlistMinted[k]
        BY <2>3, <3>2
      <4> QED BY <2>1, <4>1, SumSame
    <3> QED BY <2>1, <3>2, <3>3, <3>4
  <2> QED BY <2>4, <2>5
<1> QED BY <1>1, <1>5 DEF TakenExact, TakenFrom

\* A proof is an entitlement, not a door (indexer.js:306-316): no entry takes more than its leaf says,
\* and what a gated rune minted was taken by the entries of its list, unit for unit.
THEOREM ListsExact == SmallSupplies => (Spec => []Entitled)
<1> SUFFICES ASSUME SmallSupplies PROVE Spec => []Entitled
  OBVIOUS
<1> DEFINE Inv == GateInv /\ TermsInv /\ TakenExact
<1>1. Init => Inv
  <2>1. Init => TakenExact
    BY DEF Init, Empty, TakenExact
  <2> QED BY <2>1, InitGood
<1>2. Inv /\ [Next]_vars => Inv'
  <2> SUFFICES ASSUME Inv, [Next]_vars PROVE Inv'
    OBVIOUS
  <2>1. GateInv' /\ TermsInv'
    BY RegistryStep, GateStep, TermsStep DEF GateInv, TermsInv
  <2>2. CASE Next
    <3>1. PICK tx \in Transactions, pos \in Positions, ins \in SUBSET Carrying : ApplyTx(tx, pos, ins)
      BY <2>2 DEF Next
    <3>2. TakenExact'
      BY <3>1, TakenAfter
    <3> QED BY <2>1, <3>2
  <2>3. CASE UNCHANGED vars
    <3>1. runes' = runes /\ allowlistMinted' = allowlistMinted
      BY <2>3 DEF vars, state
    <3>2. TakenExact'
      BY <3>1 DEF TakenExact, TakenFrom
    <3> QED BY <2>1, <3>2
  <2> QED BY <2>2, <2>3
<1>3. Inv => Entitled
  BY DEF GateInv, TakenExact, Entitled, TakenFrom, SumOver
<1> QED BY <1>1, <1>2, <1>3, PTL DEF Spec

(***************************************************************************)
(* The two implementations of the rune protocol compute the same state from    *)
(* the same transactions, whatever these are: the journal is a refinement of   *)
(* the indexer, and the proof maps each step of the one to the same of the     *)
(* other, edict by edict and credit by credit.                                 *)
(***************************************************************************)


\* What the journal knows of a rune is what the indexer knows of it.
Same(def, iss, rune) ==
  /\ def.ticker = rune.ticker /\ def.supply = rune.supply /\ def.premine = rune.premine
  /\ def.terms = rune.terms /\ def.gate = rune.gate
  /\ iss.minted = rune.minted /\ iss.mintCount = rune.mintCount

IsMap(f) == f = [k \in DOMAIN f |-> f[k]]
AgreeInv ==
  /\ records = balances /\ tickerOwner = tickers /\ gateUsed = allowlistMinted
  /\ DOMAIN definitions = DOMAIN runes /\ DOMAIN issued = DOMAIN runes
  /\ \A r \in DOMAIN runes : Same(definitions[r], issued[r], runes[r])
  /\ IsFiniteSet(DOMAIN runes) /\ IsMap(balances) /\ IsMap(allowlistMinted)

-----------------------------------------------------------------------------
(* The registry and the mints.                                              *)

\* validDefinition and normaliseEtching let the same etchings through.
LEMMA SameEtchings ==
  ASSUME RegistryOK, AgreeInv, NEW tx \in Transactions, NEW pos \in Positions
  PROVE  Defines(tx, pos) <=> Etches(tx, pos)
<1>1. CASE tx.etching = None
  BY <1>1 DEF Defines, Etches
<1>2. CASE tx.etching # None
  <2> DEFINE e == tx.etching
  <2>1. e \in Etching
    BY <1>2, Typed
  <2>2. ValidDefinition(e) <=> Legal(e)
    <3> HIDE DEF e
    <3>1. CASE e.terms = None
      BY <3>1 DEF ValidDefinition, Legal
    <3>2. CASE e.terms # None
      <4>1. e.terms \in Terms
        BY <2>1, <3>2 DEF Etching
      <4>2. /\ e.terms.amount \in Nat /\ (e.terms.open # None => e.terms.open \in Nat)
            /\ (e.terms.close # None => e.terms.close \in Nat)
        BY <4>1 DEF Terms
      <4>3. ValidTerms(e.terms) <=> LegalTerms(e.terms)
        BY <4>2 DEF ValidTerms, LegalTerms
      <4> QED BY <3>2, <4>3 DEF ValidDefinition, Legal
    <3> QED BY <3>1, <3>2
  <2>3. ~TickerTaken(tx) /\ pos \notin DOMAIN definitions <=> NameFree(tx, pos)
    BY DEF TickerTaken, NameFree, AgreeInv
  <2> QED BY <1>2, <2>2, <2>3 DEF Defines, Etches
<1> QED BY <1>1, <1>2

\* Once the etching of the transaction has been looked at, both know the same runes.
LEMMA SameKnown ==
  ASSUME RegistryOK, AgreeInv, NEW tx \in Transactions, NEW pos \in Positions
  PROVE  LET known == RunesAfterEtching(tx, pos) IN
         /\ DOMAIN DefinitionsNow(tx, pos) = DOMAIN known /\ DOMAIN IssuedNow(tx, pos) = DOMAIN known
         /\ \A r \in DOMAIN known : Same(DefinitionsNow(tx, pos)[r], IssuedNow(tx, pos)[r], known[r])
<1>1. Defines(tx, pos) <=> Etches(tx, pos)
  BY SameEtchings
<1>2. CASE Etches(tx, pos)
  <2>1. /\ DefinitionsNow(tx, pos) = With(definitions, pos, tx.etching)
        /\ IssuedNow(tx, pos) = With(issued, pos, [minted |-> 0, mintCount |-> 0])
    BY <1>1, <1>2 DEF DefinitionsNow, IssuedNow
  <2>2. /\ DOMAIN RunesAfterEtching(tx, pos) = DOMAIN runes \cup {pos}
        /\ RunesAfterEtching(tx, pos)[pos] = Registered(tx.etching) /\ pos \notin DOMAIN runes
        /\ \A r \in DOMAIN runes : RunesAfterEtching(tx, pos)[r] = runes[r]
    BY <1>2, Known
  <2>3. Same(tx.etching, [minted |-> 0, mintCount |-> 0], Registered(tx.etching))
    BY DEF Same, Registered
  <2> QED BY <2>1, <2>2, <2>3 DEF AgreeInv, With
<1>3. CASE ~Etches(tx, pos)
  <2>1. RunesAfterEtching(tx, pos) = runes
    BY <1>3 DEF RunesAfterEtching
  <2>2. DefinitionsNow(tx, pos) = definitions /\ IssuedNow(tx, pos) = issued
    BY <1>1, <1>3 DEF DefinitionsNow, IssuedNow
  <2> QED BY <2>1, <2>2 DEF AgreeInv
<1> QED BY <1>2, <1>3

\* Both mint the same.
LEMMA SameMints ==
  ASSUME RegistryOK, AgreeInv, NEW tx \in Transactions, NEW pos \in Positions, NEW r
  PROVE  r \in MintedRefs(tx, pos) <=> Mints(tx, pos, r, RunesAfterEtching(tx, pos))
<1> DEFINE known == RunesAfterEtching(tx, pos)
           def == DefinitionsNow(tx, pos)[r]
           iss == IssuedNow(tx, pos)[r]
           rune == known[r]
<1>1. DOMAIN DefinitionsNow(tx, pos) = DOMAIN known
  BY SameKnown
<1>2. r \in MintedRefs(tx, pos) <=>
        Says(tx, "mint") /\ r = MessageOf(tx).ref /\ r \in DOMAIN known /\ MintOK(tx, pos, r)
  BY <1>1 DEF MintedRefs
<1>3. ASSUME r \in DOMAIN known
      PROVE  MintOK(tx, pos, r) <=>
               /\ rune.terms # None /\ Open(rune.terms, pos[1])
               /\ ~CapReached(rune) /\ ~OverSupply(rune) /\ FeePaid(tx, rune.terms)
               /\ rune.gate # {} => GateOpens(tx, r, rune)
  <2>1. Same(def, iss, rune) /\ rune \in Rune
    BY <1>3, SameKnown, Known
  <2>2. CASE rune.terms = None
    BY <2>1, <2>2 DEF MintOK, Same
  <2>3. CASE rune.terms # None
    <3> DEFINE t == rune.terms
    <3>1. t \in Terms /\ rune.mintCount \in Nat
      BY <2>1, <2>3 DEF Rune
    <3>2. MintOK(tx, pos, r) <=>
            /\ def.terms # None /\ WithinWindow(def.terms, pos[1])
            /\ def.terms.cap = None \/ iss.mintCount < def.terms.cap
            /\ Plus(Plus(def.premine, iss.minted), def.terms.amount) <= def.supply
            /\ FeeCovers(tx, def.terms)
            /\ def.gate = {} \/ AllowlistGate(tx, r, def)
      BY DEF MintOK
    <3>3. AllowlistGate(tx, r, def) <=> GateOpens(tx, r, rune)
      BY <2>1 DEF AllowlistGate, GateOpens, Taken, Used, AgreeInv, Same
    <3> HIDE DEF def, iss, rune
    <3>4. WithinWindow(t, pos[1]) <=> Open(t, pos[1])
      BY DEF WithinWindow, Open
    <3>5. t.cap = None \/ rune.mintCount < t.cap <=> ~CapReached(rune)
      <4>1. t.cap # None => t.cap \in Nat
        BY <3>1 DEF Terms
      <4> QED BY <3>1, <4>1 DEF CapReached
    <3>6. FeeCovers(tx, t) <=> FeePaid(tx, t)
      <4>1. t.price \in Nat
        BY <3>1 DEF Terms
      <4> HIDE DEF t
      <4> QED BY <4>1 DEF FeeCovers, FeePaid
    <3>7. /\ rune.premine \in Nat /\ rune.minted \in Nat /\ rune.supply \in Nat /\ t.amount \in Nat
      BY <2>1, <3>1 DEF Rune, Terms
    <3>8. Plus(Plus(rune.premine, rune.minted), t.amount) <= rune.supply <=> ~OverSupply(rune)
      <4>1. Plus(rune.premine, rune.minted) \in Nat
        BY <3>7, PlusExact
      <4>2. Plus(Plus(rune.premine, rune.minted), t.amount) \in Nat
        BY <3>7, <4>1, PlusExact
      <4> QED BY <3>7, <4>2 DEF OverSupply
    <3> QED BY <2>1, <2>3, <3>2, <3>3, <3>4, <3>5, <3>6, <3>8 DEF Same
  <2> QED BY <2>2, <2>3
<1> QED BY <1>2, <1>3 DEF Mints

\* After a transaction the registries, the counters and the lists are the same again.
LEMMA RegistryAgrees ==
  ASSUME RegistryOK, AgreeInv, NEW tx \in Transactions, NEW pos \in Positions,
         NEW ins \in SUBSET Carrying, ApplyTx(tx, pos, ins), JournalApply(tx, pos, ins)
  PROVE  /\ tickerOwner' = tickers' /\ gateUsed' = allowlistMinted' /\ IsMap(allowlistMinted')
         /\ DOMAIN definitions' = DOMAIN runes' /\ DOMAIN issued' = DOMAIN runes'
         /\ \A r \in DOMAIN runes' : Same(definitions'[r], issued'[r], runes'[r])
         /\ IsFiniteSet(DOMAIN runes')
<1> DEFINE known == RunesAfterEtching(tx, pos)
           defs == DefinitionsNow(tx, pos)
           iss == IssuedNow(tx, pos)
           ref == MessageOf(tx).ref
<1>1. /\ DOMAIN defs = DOMAIN known /\ DOMAIN iss = DOMAIN known
      /\ \A r \in DOMAIN known : Same(defs[r], iss[r], known[r])
  BY SameKnown
<1>2. \A r : r \in MintedRefs(tx, pos) <=> Mints(tx, pos, r, known)
  BY SameMints
<1>3. Defines(tx, pos) <=> Etches(tx, pos)
  BY SameEtchings
<1>4. /\ DOMAIN runes' = DOMAIN known
      /\ \A r \in DOMAIN known :
           /\ runes'[r] = IF Mints(tx, pos, r, known) THEN Minted(known[r]) ELSE known[r]
           /\ known[r] \in Rune
           /\ Mints(tx, pos, r, known) => known[r].terms # None
  BY AfterTx
<1>5. tickerOwner' = tickers'
  BY <1>3 DEF JournalApply, ApplyTx, With, AgreeInv
<1>6. definitions' = defs
  BY DEF JournalApply
<1>7. issued' = [r \in DOMAIN defs |->
         IF r \in MintedRefs(tx, pos)
         THEN [minted |-> Plus(iss[r].minted, defs[r].terms.amount), mintCount |-> iss[r].mintCount + 1]
         ELSE iss[r]]
  BY DEF JournalApply
<1>8. ASSUME NEW r \in DOMAIN known PROVE Same(definitions'[r], issued'[r], runes'[r])
  <2> DEFINE rune == known[r]
  <2>1. Same(defs[r], iss[r], rune) /\ rune \in Rune
    BY <1>1, <1>4
  <2>2. CASE Mints(tx, pos, r, known)
    <3>1. issued'[r] = [minted |-> Plus(iss[r].minted, defs[r].terms.amount),
                        mintCount |-> iss[r].mintCount + 1]
      <4> HIDE DEF defs, iss, known
      <4> QED BY <1>1, <1>2, <1>7, <2>2
    <3>2. runes'[r] = Minted(rune) /\ rune.terms # None
      BY <1>4, <2>2
    <3> HIDE DEF rune, defs, iss, known
    <3>3. /\ Minted(rune).ticker = rune.ticker /\ Minted(rune).terms = rune.terms
          /\ Minted(rune).gate = rune.gate /\ Minted(rune).supply = rune.supply
          /\ Minted(rune).premine = rune.premine
          /\ Minted(rune).mintCount = rune.mintCount + 1
          /\ Minted(rune).minted = Plus(rune.minted, rune.terms.amount)
      BY <2>1, <3>2, MintCounts
    <3> QED BY <1>6, <2>1, <3>1, <3>2, <3>3 DEF Same
  <2>3. CASE ~Mints(tx, pos, r, known)
    <3>1. issued'[r] = iss[r]
      <4> HIDE DEF defs, iss, known
      <4> QED BY <1>1, <1>2, <1>7, <2>3
    <3>2. runes'[r] = rune
      BY <1>4, <2>3
    <3> HIDE DEF rune, defs, iss, known
    <3> QED BY <1>6, <2>1, <3>1, <3>2
  <2> QED BY <2>2, <2>3
<1>9. gateUsed' = allowlistMinted' /\ IsMap(allowlistMinted')
  <2> DEFINE charged == {<<r, tx.proof>> : r \in {q \in DOMAIN known :
                           Mints(tx, pos, q, known) /\ known[q].gate # {}}}
  <2>1. allowlistMinted' = [k \in DOMAIN allowlistMinted \cup charged |->
          IF k \in charged THEN Plus(Used(k[1], k[2]), known[k[1]].terms.amount)
                           ELSE allowlistMinted[k]]
    BY DEF ApplyTx
  <2>2. gateUsed' = IF \E r \in MintedRefs(tx, pos) : defs[r].gate # {}
                    THEN With(gateUsed, <<ref, tx.proof>>,
                              Plus(Taken(ref, tx.proof), defs[ref].terms.amount))
                    ELSE gateUsed
    BY DEF JournalApply
  <2>3. \A r : Mints(tx, pos, r, known) => r = ref /\ r \in DOMAIN known
    BY DEF Mints
  <2>4. gateUsed = allowlistMinted /\ IsMap(allowlistMinted)
    BY DEF AgreeInv
  <2>5. IsMap(allowlistMinted')
    <3> HIDE DEF charged, known
    <3> QED BY <2>1 DEF IsMap
  <2>6. CASE \E r \in MintedRefs(tx, pos) : defs[r].gate # {}
    <3>1. Mints(tx, pos, ref, known) /\ ref \in DOMAIN known /\ known[ref].gate # {}
      BY <1>1, <1>2, <2>3, <2>6 DEF Same
    <3>2. charged = {<<ref, tx.proof>>}
      BY <2>3, <3>1
    <3>3. Plus(Taken(ref, tx.proof), defs[ref].terms.amount)
            = Plus(Used(ref, tx.proof), known[ref].terms.amount)
      BY <1>1, <2>4, <3>1 DEF Taken, Used, Same
    <3> DEFINE a == <<ref, tx.proof>>
               amount == Plus(Used(ref, tx.proof), known[ref].terms.amount)
    <3>4. a[1] = ref /\ a[2] = tx.proof
      OBVIOUS
    <3>5. Plus(Used(a[1], a[2]), known[a[1]].terms.amount) = amount
      OBVIOUS
    <3>6. gateUsed' = With(allowlistMinted, a, amount)
      BY <2>2, <2>4, <2>6, <3>3
    <3>7. allowlistMinted' = [k \in DOMAIN allowlistMinted \cup {a} |->
            IF k \in {a} THEN Plus(Used(k[1], k[2]), known[k[1]].terms.amount)
                         ELSE allowlistMinted[k]]
      BY <2>1, <3>2
    <3> HIDE DEF a, known, amount
    <3>8. allowlistMinted' = [k \in DOMAIN allowlistMinted \cup {a} |->
            IF k = a THEN amount ELSE allowlistMinted[k]]
      BY <3>5, <3>7
    <3> QED BY <2>5, <3>6, <3>8 DEF With
  <2>7. CASE ~(\E r \in MintedRefs(tx, pos) : defs[r].gate # {})
    <3>1. charged = {}
      BY <1>1, <1>2, <2>7 DEF Same
    <3>2. gateUsed' = allowlistMinted
      BY <2>2, <2>4, <2>7
    <3>3. allowlistMinted' = [k \in DOMAIN allowlistMinted |-> allowlistMinted[k]]
      <4> HIDE DEF charged, known
      <4> QED BY <2>1, <3>1
    <3> QED BY <2>4, <2>5, <3>2, <3>3 DEF IsMap
  <2> QED BY <2>6, <2>7
<1>10. IsFiniteSet(DOMAIN runes')
  <2>1. IsFiniteSet(DOMAIN runes)
    BY DEF AgreeInv
  <2>2. DOMAIN known = DOMAIN runes \cup {pos} \/ DOMAIN known = DOMAIN runes
    BY Known
  <2> QED BY <1>4, <2>1, <2>2, FS_AddElement
<1>11. DOMAIN issued' = DOMAIN defs
  BY <1>7
<1> QED BY <1>1, <1>4, <1>5, <1>6, <1>8, <1>9, <1>10, <1>11

-----------------------------------------------------------------------------
(* The journal.                                                             *)

\* The balances in mid-transaction: `kept` is there still, and of the keys the transaction may make
\* those are there that the table gives something.
KeysOf(pos, E, K) == {<<<<pos, v>>, r>> : v \in E, r \in K}
Fresh(tx, pos) == KeysOf(pos, Eligible(tx), DOMAIN RunesAfterEtching(tx, pos))
Given(table, k) == table[<<k[1][2], k[2]>>]
Book(kept, fresh, table) ==
  [k \in kept \cup {n \in fresh : Given(table, n) > 0} |->
     IF k \in kept THEN balances[k] ELSE Given(table, k)]

Pairs(T, E, K) == \A v \in E, r \in K : <<v, r>> \in T
Adding(table, v, r, n) == [table EXCEPT ![<<v, r>>] = table[<<v, r>>] + n]

\* Noting an amount under a key of the transaction writes it into the table.
LEMMA NoteBook ==
  ASSUME NEW kept, NEW pos, NEW E, NEW K, kept \cap KeysOf(pos, E, K) = {},
         NEW T, Pairs(T, E, K), NEW a \in [T -> Nat], NEW v \in E, NEW r \in K, NEW d \in Nat
  PROVE  Note(Book(kept, KeysOf(pos, E, K), a), <<pos, v>>, r, d)
           = Book(kept, KeysOf(pos, E, K), Adding(a, v, r, d))
<1> DEFINE fresh == KeysOf(pos, E, K)
           key == <<<<pos, v>>, r>>
           b == Adding(a, v, r, d)
           old == a[<<v, r>>]
           recs == Book(kept, fresh, a)
           sum == (IF key \in DOMAIN recs THEN recs[key] ELSE 0) + d
<1>0. \A w \in E, q \in K : a[<<w, q>>] \in Nat
  BY DEF Pairs
<1>1. key \in fresh /\ key \notin kept /\ old \in Nat /\ Given(a, key) = old
  BY <1>0 DEF Given, KeysOf
<1>2. ASSUME NEW n \in fresh
      PROVE  Given(a, n) \in Nat /\ Given(b, n) = IF n = key THEN old + d ELSE Given(a, n)
  <2>1. PICK w \in E, q \in K : n = <<<<pos, w>>, q>>
    BY DEF KeysOf
  <2>2. Given(a, n) = a[<<w, q>>] /\ Given(b, n) = b[<<w, q>>]
    BY <2>1 DEF Given
  <2>3. b[<<w, q>>] = IF w = v /\ q = r THEN old + d ELSE a[<<w, q>>]
    <3>1. <<w, q>> \in T /\ <<v, r>> \in T
      BY DEF Pairs
    <3>2. b = [a EXCEPT ![<<v, r>>] = old + d]
      BY DEF Adding
    <3> HIDE DEF b, old
    <3> QED BY <3>1, <3>2
  <2>4. n = key <=> w = v /\ q = r
    BY <2>1
  <2>5. a[<<w, q>>] \in Nat
    BY <1>0
  <2> HIDE DEF b, key, old
  <2> QED BY <2>2, <2>3, <2>4, <2>5
<1>3. /\ DOMAIN recs = kept \cup {n \in fresh : Given(a, n) > 0}
      /\ \A k \in DOMAIN recs : recs[k] = IF k \in kept THEN balances[k] ELSE Given(a, k)
  BY DEF Book
<1>4. sum = old + d
  <2> HIDE DEF recs, key, old
  <2>1. CASE old > 0
    BY <1>1, <1>3, <2>1
  <2>2. CASE old = 0
    BY <1>1, <1>3, <2>2
  <2> QED BY <1>1, <2>1, <2>2
<1>5. Note(recs, <<pos, v>>, r, d) =
        IF sum = 0 THEN [k \in DOMAIN recs \ {key} |-> recs[k]]
        ELSE [k \in DOMAIN recs \cup {key} |-> IF k = key THEN sum ELSE recs[k]]
  BY DEF Note
<1>6. Book(kept, fresh, b) = [k \in kept \cup {n \in fresh : Given(b, n) > 0} |->
                                 IF k \in kept THEN balances[k] ELSE Given(b, k)]
  BY DEF Book
<1> HIDE DEF recs, key, old, sum, b, fresh
<1>7. CASE sum = 0
  <2>1. old = 0 /\ d = 0
    BY <1>1, <1>4, <1>7
  <2>2. DOMAIN recs \ {key} = kept \cup {n \in fresh : Given(b, n) > 0}
    BY <1>1, <1>2, <1>3, <2>1
  <2>3. \A k \in DOMAIN recs \ {key} : recs[k] = IF k \in kept THEN balances[k] ELSE Given(b, k)
    BY <1>2, <1>3
  <2> QED BY <1>5, <1>6, <1>7, <2>2, <2>3 DEF recs, b, fresh
<1>8. CASE sum # 0
  <2>1. old + d > 0
    BY <1>1, <1>4, <1>8
  <2>2. DOMAIN recs \cup {key} = kept \cup {n \in fresh : Given(b, n) > 0}
    BY <1>1, <1>2, <1>3, <2>1
  <2>3. \A k \in DOMAIN recs \cup {key} :
          (IF k = key THEN sum ELSE recs[k]) = IF k \in kept THEN balances[k] ELSE Given(b, k)
    BY <1>1, <1>2, <1>3, <1>4
  <2> QED BY <1>5, <1>6, <1>8, <2>2, <2>3 DEF recs, b, fresh
<1> QED BY <1>7, <1>8 DEF recs, b, fresh

\* Noting what was spent, with a minus sign, leaves what was not.
LEMMA Drained ==
  ASSUME IsMap(balances), NEW drained \in SUBSET DOMAIN balances, IsFiniteSet(drained),
         \A k \in DOMAIN balances : balances[k] \in Nat \ {0} /\ k = <<k[1], k[2]>>
  PROVE  FoldSet(LAMBDA k, recs : Note(recs, k[1], k[2], -balances[k]), balances, drained)
           = [k \in DOMAIN balances \ drained |-> balances[k]]
<1> DEFINE x(s) == CHOOSE k \in s : TRUE
           G(f, s) == IF s = {} THEN balances
                      ELSE Note(f[s \ {x(s)}], x(s)[1], x(s)[2], -balances[x(s)])
           iter == CHOOSE f : f = [s \in SUBSET drained |-> G(f, s)]
           rest == [s \in SUBSET drained |-> [k \in DOMAIN balances \ s |-> balances[k]]]
<1>1. FoldSet(LAMBDA k, recs : Note(recs, k[1], k[2], -balances[k]), balances, drained) = iter[drained]
  BY DEF FoldSet, MapThenFoldSet
<1>2. \A s \in SUBSET drained : s # {} => x(s) \in s
  OBVIOUS
<1> HIDE DEF x
<1>3. ASSUME NEW s \in SUBSET drained, s # {}, NEW recs, recs = rest[s \ {x(s)}]
      PROVE  Note(recs, x(s)[1], x(s)[2], -balances[x(s)]) = rest[s]
  <2> DEFINE a == x(s)
             sum == (IF a \in DOMAIN recs THEN recs[a] ELSE 0) + (-balances[a])
  <2>1. a \in s /\ a \in DOMAIN balances /\ a = <<a[1], a[2]>> /\ balances[a] \in Nat
    BY <1>2, <1>3
  <2>2. recs = [k \in DOMAIN balances \ (s \ {a}) |-> balances[k]]
    BY <1>3
  <2>3. rest[s] = [k \in DOMAIN balances \ s |-> balances[k]]
    OBVIOUS
  <2> HIDE DEF a, rest
  <2>4. sum = 0
    BY <2>1, <2>2
  <2>5. Note(recs, a[1], a[2], -balances[a]) = [k \in DOMAIN recs \ {a} |-> recs[k]]
    BY <2>1, <2>4 DEF Note
  <2>6. DOMAIN recs \ {a} = DOMAIN balances \ s
    BY <2>1, <2>2
  <2> QED BY <2>2, <2>3, <2>5, <2>6 DEF a
<1>4. rest[{}] = balances
  BY DEF IsMap
<1>5. \A s \in SUBSET drained : s \ {x(s)} \in SUBSET drained
  OBVIOUS
<1>6. iter = [s \in SUBSET drained |-> G(iter, s)]
  <2>1. \A s \in SUBSET drained : rest[s] = G(rest, s)
    <3> HIDE DEF rest
    <3> QED BY <1>3, <1>4
  <2>2. rest = [s \in SUBSET drained |-> G(rest, s)]
    <3> HIDE DEF G
    <3> QED BY <2>1
  <2> HIDE DEF G, rest
  <2> QED BY <2>2
<1> DEFINE T == {s \in SUBSET drained : iter[s] = rest[s]}
<1> HIDE DEF iter
<1>7. \A s \in SUBSET drained : iter[s] = G(iter, s)
  <2> HIDE DEF G
  <2> QED BY <1>6
<1>8. {} \in T
  <2> HIDE DEF rest
  <2>1. iter[{}] = rest[{}]
    BY <1>4, <1>7
  <2> QED BY <2>1
<1>9. ASSUME NEW s \in SUBSET drained, s # {}, \A k \in s : s \ {k} \in T PROVE s \in T
  <2>1. iter[s \ {x(s)}] = rest[s \ {x(s)}]
    BY <1>2, <1>9
  <2>2. iter[s] = Note(iter[s \ {x(s)}], x(s)[1], x(s)[2], -balances[x(s)])
    BY <1>7, <1>9
  <2> HIDE DEF rest
  <2>3. iter[s] = rest[s]
    BY <1>3, <1>9, <2>1, <2>2
  <2> QED BY <2>3
<1>10. drained \in T
  <2> HIDE DEF T
  <2> QED BY <1>8, <1>9, SmallerSet
<1> QED BY <1>1, <1>10

\* What the journal has where the indexer has `moves`.
Journalled(tx, pos, kept, moves) ==
  [pool |-> [r \in DOMAIN RunesAfterEtching(tx, pos) |-> moves.left[r]],
   recs |-> Book(kept, Fresh(tx, pos), moves.given)]

\* The smaller of two numbers.
LEMMA MinOfTwo ==
  ASSUME NEW a \in Nat, NEW b \in Nat
  PROVE  Min({a, b}) = IF a > b THEN b ELSE a
<1>1. CASE a > b
  <2>1. b \in {a, b} /\ \A y \in {a, b} : b <= y
    BY <1>1
  <2>2. \A x \in {a, b} : (\A y \in {a, b} : x <= y) => x = b
    BY <1>1
  <2> QED BY <1>1, <2>1, <2>2 DEF Min
<1>2. CASE ~(a > b)
  <2>1. a \in {a, b} /\ \A y \in {a, b} : a <= y
    BY <1>2
  <2>2. \A x \in {a, b} : (\A y \in {a, b} : x <= y) => x = a
    BY <1>2
  <2> QED BY <1>2, <2>1, <2>2 DEF Min
<1> QED BY <1>1, <1>2

\* Both obey an edict alike: what is pooled moves, or the edict is ignored.
LEMMA ObeyAgrees ==
  ASSUME RegistryOK, NEW tx \in Transactions, NEW pos \in Positions,
         NEW kept, kept \cap Fresh(tx, pos) = {}, NEW moves \in Moves(tx),
         \A r \in Positions \ DOMAIN RunesAfterEtching(tx, pos) : moves.left[r] = 0,
         NEW e \in Edict
  PROVE  Obey(tx, pos, Journalled(tx, pos, kept, moves), e)
           = Journalled(tx, pos, kept, Obeyed(tx, pos, moves, e))
<1> DEFINE known == RunesAfterEtching(tx, pos)
           K == DOMAIN known
           w == Journalled(tx, pos, kept, moves)
           ref == e.ref
           out == e.output
           have == IF ref \in DOMAIN w.pool THEN w.pool[ref] ELSE 0
           move == IF e.amount = 0 THEN have ELSE Min({e.amount, have})
           n == Moved(e, moves.left[ref])
<1>1. /\ K \subseteq Positions /\ pos \in Ref /\ ref \in Ref /\ out \in Nat /\ e.amount \in Nat
      /\ Maturity \in Nat
  <2>1. K = DOMAIN runes \cup {pos} \/ K = DOMAIN runes
    BY Known
  <2>2. DOMAIN runes \subseteq Positions
    BY DEF RegistryOK
  <2> HIDE DEF K
  <2> QED BY <2>1, <2>2, TransactionAssumption DEF Edict
<1>2. moves.left \in [Positions -> Nat] /\ moves.given \in [Eligible(tx) \X Positions -> Nat]
  BY DEF Moves
<1>3. /\ w.pool = [r \in K |-> moves.left[r]]
      /\ w.recs = Book(kept, Fresh(tx, pos), moves.given)
  BY DEF Journalled
<1>4. have = IF ref \in K THEN moves.left[ref] ELSE 0
  <2> HIDE DEF w, K
  <2> QED BY <1>3
<1>5. Obey(tx, pos, w, e) =
        IF have <= 0 \/ out \notin Eligible(tx) \/ pos[1] - ref[1] < Maturity THEN w
        ELSE [pool |-> [w.pool EXCEPT ![ref] = have - move],
              recs |-> Note(w.recs, <<pos, out>>, ref, move)]
  BY DEF Obey
<1> DEFINE moving == /\ ref \in Positions /\ moves.left[ref] > 0
                     /\ out \in Eligible(tx) /\ Mature(ref, pos[1])
<1>6. Obeyed(tx, pos, moves, e) =
        IF moving THEN [left |-> [moves.left EXCEPT ![ref] = moves.left[ref] - n],
                        given |-> [moves.given EXCEPT ![<<out, ref>>] = moves.given[<<out, ref>>] + n]]
        ELSE moves
  BY DEF Obeyed
<1>7. Mature(ref, pos[1]) <=> ~(pos[1] - ref[1] < Maturity)
  <2>1. ref[1] \in Nat /\ pos[1] \in Nat
    BY <1>1 DEF Ref
  <2> HIDE DEF ref
  <2> QED BY <1>1, <2>1 DEF Mature
<1>8. have \in Nat /\ (have > 0 <=> ref \in Positions /\ moves.left[ref] > 0)
      /\ (have > 0 => ref \in K /\ have = moves.left[ref])
  <2> HIDE DEF have, K, ref
  <2>1. CASE ref \in K
    BY <1>1, <1>2, <1>4, <2>1
  <2>2. CASE ref \notin K /\ ref \in Positions
    <3>1. moves.left[ref] = 0
      BY <2>2 DEF K
    <3> QED BY <1>4, <2>2, <3>1
  <2>3. CASE ref \notin Positions
    BY <1>1, <1>4, <2>3
  <2> QED BY <2>1, <2>2, <2>3
<1>9. moving <=> ~(have <= 0 \/ out \notin Eligible(tx) \/ pos[1] - ref[1] < Maturity)
  <2>1. have > 0 <=> ~(have <= 0)
    BY <1>8
  <2> HIDE DEF have, ref, out
  <2> QED BY <1>7, <1>8, <2>1
<1> HIDE DEF have, w, moving
<1>10. CASE ~moving
  BY <1>5, <1>6, <1>9, <1>10 DEF w
<1>11. CASE moving
  <2> DEFINE after == Obeyed(tx, pos, moves, e)
  <2>1. /\ after.left = [moves.left EXCEPT ![ref] = moves.left[ref] - n]
        /\ after.given = [moves.given EXCEPT ![<<out, ref>>] = moves.given[<<out, ref>>] + n]
    BY <1>6, <1>11
  <2>2. have > 0 /\ have = moves.left[ref] /\ ref \in K /\ out \in Eligible(tx) /\ ref \in Positions
    BY <1>8, <1>11 DEF moving
  <2>3. move = n
    <3>1. Min({e.amount, have}) = IF e.amount > have THEN have ELSE e.amount
      <4> HIDE DEF move, n
      <4> QED BY <1>1, <1>8, MinOfTwo
    <3> QED BY <2>2, <3>1 DEF Moved
  <2>4. n \in Nat
    <3> HIDE DEF move, ref
    <3> QED BY <1>1, <1>8, <2>2 DEF Moved
  <2>5. Obey(tx, pos, w, e) = [pool |-> [w.pool EXCEPT ![ref] = have - move],
                                recs |-> Note(w.recs, <<pos, out>>, ref, move)]
    BY <1>5, <1>9, <1>11
  <2> HIDE DEF after, move, n, ref, out
  <2>6. [w.pool EXCEPT ![ref] = have - move] = [r \in K |-> after.left[r]]
    <3> HIDE DEF K
    <3> QED BY <1>1, <1>2, <1>3, <2>1, <2>2, <2>3
  <2>7. Note(w.recs, <<pos, out>>, ref, move) = Book(kept, Fresh(tx, pos), after.given)
    <3>1. Fresh(tx, pos) = KeysOf(pos, Eligible(tx), K)
      BY DEF Fresh
    <3> DEFINE E == Eligible(tx)
               fresh == Fresh(tx, pos)
               a == moves.given
    <3> HIDE DEF K
    <3>2. /\ fresh = KeysOf(pos, E, K) /\ kept \cap fresh = {}
          /\ a \in [E \X Positions -> Nat] /\ out \in E /\ ref \in K /\ K \subseteq Positions
      BY <1>1, <1>2, <2>2, <3>1
    <3>3. w.recs = Book(kept, fresh, a)
      BY <1>3
    <3>4. after.given = Adding(a, out, ref, n)
      BY <2>1 DEF Adding
    <3> HIDE DEF E, fresh, a
    <3>5. Note(Book(kept, KeysOf(pos, E, K), a), <<pos, out>>, ref, n)
            = Book(kept, KeysOf(pos, E, K), Adding(a, out, ref, n))
      <4> DEFINE T == E \X Positions
      <4>1. /\ kept \cap KeysOf(pos, E, K) = {} /\ a \in [T -> Nat]
            /\ Pairs(T, E, K) /\ out \in E /\ ref \in K
        BY <3>2 DEF Pairs
      <4> HIDE DEF T
      <4> QED BY <2>4, <4>1, NoteBook
    <3> QED BY <2>3, <3>2, <3>3, <3>4, <3>5 DEF fresh
  <2>8. Journalled(tx, pos, kept, after)
          = [pool |-> [r \in K |-> after.left[r]], recs |-> Book(kept, Fresh(tx, pos), after.given)]
    BY DEF Journalled
  <2> QED BY <2>5, <2>6, <2>7, <2>8 DEF w, after
<1> QED BY <1>10, <1>11

\* What was spent is not of the outputs of the transaction, nor is what was kept.
LEMMA OldKeys ==
  ASSUME RegistryOK, BalancesOK, NEW tx \in Transactions, NEW pos \in Positions,
         at # None => Precedes(at, pos)
  PROVE  DOMAIN balances \cap Fresh(tx, pos) = {}
<1> SUFFICES ASSUME NEW k \in DOMAIN balances, k \in Fresh(tx, pos) PROVE FALSE
  OBVIOUS
<1>1. k[1][1] = pos
  BY DEF Fresh, KeysOf
<1>2. k[1][1] \in Positions /\ at # None /\ (k[1][1] = at \/ Precedes(k[1][1], at))
  BY DEF BalancesOK
<1>3. at \in Positions /\ Precedes(at, pos)
  BY <1>2 DEF RegistryOK
<1> QED BY <1>1, <1>2, <1>3, OneWay

\* The finitely many balances there are.
LEMMA FewBalances ==
  ASSUME RegistryOK, BalancesOK, AgreeInv
  PROVE  IsFiniteSet(DOMAIN balances)
<1> DEFINE runesOf == [r \in DOMAIN runes |-> Of(r)]
           sets == {runesOf[r] : r \in DOMAIN runes}
<1>1. IsFiniteSet(DOMAIN runes) /\ DOMAIN runes \subseteq Positions
  BY DEF AgreeInv, RegistryOK
<1>2. runesOf \in Surjection(DOMAIN runes, sets)
  BY DEF Surjection
<1>3. IsFiniteSet(sets)
  <2> HIDE DEF runesOf, sets
  <2> QED BY <1>1, <1>2, FS_Surjection
<1>4. \A s \in sets : IsFiniteSet(s)
  BY <1>1 DEF BalancesOK
<1>5. IsFiniteSet(UNION sets)
  <2> HIDE DEF sets
  <2> QED BY <1>3, <1>4, FS_UNION
<1>6. DOMAIN balances \subseteq UNION sets
  <2> SUFFICES ASSUME NEW k \in DOMAIN balances PROVE k \in UNION sets
    OBVIOUS
  <2>1. k[2] \in DOMAIN runes
    BY DEF BalancesOK
  <2>2. k \in runesOf[k[2]]
    BY <2>1 DEF Of
  <2> QED BY <2>1, <2>2
<1> QED BY <1>5, <1>6, FS_Subset

KeptOf(ins) == {k \in DOMAIN balances : k[1] \notin ins}

\* Before the edicts: the journal has noted what was spent, and pooled what the indexer pooled.
LEMMA StartAgrees ==
  ASSUME RegistryOK, BalancesOK, AgreeInv, NEW tx \in Transactions, NEW pos \in Positions,
         NEW ins, at # None => Precedes(at, pos)
  PROVE  LET drained == {k \in DOMAIN records : k[1] \in ins}
             defs == DefinitionsNow(tx, pos)
         IN Journalled(tx, pos, KeptOf(ins), Unmoved(tx, pos, ins)) =
              [pool |-> [r \in DOMAIN defs |->
                 MapThenSumSet(LAMBDA k : records[k], {k \in drained : k[2] = r})
                   + (IF Defines(tx, pos) /\ r = pos THEN defs[r].premine ELSE 0)
                   + (IF r \in MintedRefs(tx, pos) THEN defs[r].terms.amount ELSE 0)],
               recs |-> FoldSet(LAMBDA k, recs : Note(recs, k[1], k[2], -records[k]), records, drained)]
<1> DEFINE known == RunesAfterEtching(tx, pos)
           defs == DefinitionsNow(tx, pos)
           drained == {k \in DOMAIN records : k[1] \in ins}
           spent(r) == MapThenSumSet(LAMBDA k : records[k], {k \in drained : k[2] = r})
           etched(r) == IF Defines(tx, pos) /\ r = pos THEN defs[r].premine ELSE 0
           minted(r) == IF r \in MintedRefs(tx, pos) THEN defs[r].terms.amount ELSE 0
           out == FoldSet(LAMBDA k, recs : Note(recs, k[1], k[2], -records[k]), records, drained)
           zeros == [k \in Eligible(tx) \X Positions |-> 0]
<1>1. /\ DOMAIN defs = DOMAIN known /\ DOMAIN known \subseteq Positions
      /\ \A r \in DOMAIN known : Same(defs[r], IssuedNow(tx, pos)[r], known[r]) /\ known[r] \in Rune
      /\ Etches(tx, pos) => known[pos] = Registered(tx.etching)
  <2>1. /\ DOMAIN known = IF Etches(tx, pos) THEN DOMAIN runes \cup {pos} ELSE DOMAIN runes
        /\ Etches(tx, pos) => known[pos] = Registered(tx.etching)
        /\ \A r \in DOMAIN known : known[r] \in Rune
    BY Known
  <2>2. /\ DOMAIN defs = DOMAIN known
        /\ \A r \in DOMAIN known : Same(defs[r], IssuedNow(tx, pos)[r], known[r])
    BY SameKnown
  <2>3. DOMAIN runes \subseteq Positions
    BY DEF RegistryOK
  <2> HIDE DEF known, defs
  <2> QED BY <2>1, <2>2, <2>3
<1>2. records = balances /\ IsMap(balances)
  BY DEF AgreeInv
<1>3. out = [k \in DOMAIN balances \ drained |-> balances[k]]
  <2>1. /\ drained \in SUBSET DOMAIN balances /\ IsFiniteSet(drained)
        /\ \A k \in DOMAIN balances : balances[k] \in Nat \ {0} /\ k = <<k[1], k[2]>>
    <3>1. drained \in SUBSET DOMAIN balances
      BY <1>2
    <3>2. \A k \in DOMAIN balances : balances[k] \in Nat \ {0} /\ k = <<k[1], k[2]>>
      BY DEF BalancesOK
    <3> QED BY <3>1, <3>2, FewBalances, FS_Subset
  <2>2. out = FoldSet(LAMBDA k, recs : Note(recs, k[1], k[2], -balances[k]), balances, drained)
    BY <1>2
  <2> HIDE DEF out, drained
  <2> QED BY <1>2, <2>1, <2>2, Drained
<1>4. out = Book(KeptOf(ins), Fresh(tx, pos), zeros)
  <2>1. \A n \in Fresh(tx, pos) : Given(zeros, n) = 0
    <3> SUFFICES ASSUME NEW n \in Fresh(tx, pos) PROVE Given(zeros, n) = 0
      OBVIOUS
    <3>1. PICK v \in Eligible(tx), r \in DOMAIN known : n = <<<<pos, v>>, r>>
      BY DEF Fresh, KeysOf
    <3>2. r \in Positions
      BY <1>1
    <3> QED BY <3>1, <3>2 DEF Given
  <2>2. DOMAIN balances \ drained = KeptOf(ins)
    BY <1>2 DEF KeptOf
  <2> HIDE DEF zeros, out, drained
  <2>3. KeptOf(ins) \cup {n \in Fresh(tx, pos) : Given(zeros, n) > 0} = KeptOf(ins)
    BY <2>1
  <2> QED BY <1>3, <2>2, <2>3 DEF Book
<1>5. ASSUME NEW r \in DOMAIN known
      PROVE  PooledOf(tx, pos, ins)[r] = spent(r) + etched(r) + minted(r)
  <2>1. spent(r) = Held(ins, r)
    <3>1. {k \in drained : k[2] = r} = {k \in DOMAIN balances : k[1] \in ins /\ k[2] = r}
      BY <1>2
    <3> QED BY <1>2, <3>1 DEF Held
  <2>2. etched(r) = IF Etches(tx, pos) /\ r = pos THEN tx.etching.premine ELSE 0
    <3>1. Defines(tx, pos) <=> Etches(tx, pos)
      BY SameEtchings
    <3>2. Etches(tx, pos) /\ r = pos => defs[r].premine = tx.etching.premine
      BY <1>1 DEF Same, Registered
    <3> QED BY <3>1, <3>2
  <2>3. minted(r) = IF Mints(tx, pos, r, known) THEN known[r].terms.amount ELSE 0
    <3>1. r \in MintedRefs(tx, pos) <=> Mints(tx, pos, r, known)
      BY SameMints
    <3>2. defs[r].terms = known[r].terms
      BY <1>1 DEF Same
    <3> QED BY <3>1, <3>2
  <2>4. Held(ins, r) \in Nat
    BY <1>1, HeldPart
  <2>5. etched(r) \in Nat /\ minted(r) \in Nat
    <3>1. Etches(tx, pos) => tx.etching.premine \in Nat
      BY Typed DEF Etches, Etching
    <3>2. Mints(tx, pos, r, known) => known[r].terms.amount \in Nat
      BY <1>1 DEF Rune, Terms, Mints
    <3> HIDE DEF etched, minted
    <3> QED BY <2>2, <2>3, <3>1, <3>2
  <2>6. Issued(tx, pos, r) = etched(r) + minted(r)
    <3> HIDE DEF etched, minted
    <3> QED BY <2>2, <2>3 DEF Issued
  <2>7. PooledOf(tx, pos, ins)[r] = Held(ins, r) + Issued(tx, pos, r)
    BY <1>1 DEF PooledOf
  <2> HIDE DEF spent, etched, minted
  <2> QED BY <2>1, <2>4, <2>5, <2>6, <2>7
<1>6. /\ Unmoved(tx, pos, ins).left = PooledOf(tx, pos, ins)
      /\ Unmoved(tx, pos, ins).given = zeros
  BY DEF Unmoved
<1>7. Journalled(tx, pos, KeptOf(ins), Unmoved(tx, pos, ins))
        = [pool |-> [r \in DOMAIN known |-> PooledOf(tx, pos, ins)[r]],
           recs |-> Book(KeptOf(ins), Fresh(tx, pos), zeros)]
  BY <1>6 DEF Journalled
<1>8. [r \in DOMAIN known |-> PooledOf(tx, pos, ins)[r]]
        = [r \in DOMAIN defs |-> spent(r) + etched(r) + minted(r)]
  <2> HIDE DEF spent, etched, minted, known, defs
  <2> QED BY <1>1, <1>5
<1> QED BY <1>4, <1>7, <1>8

\* Nothing is left of a rune nobody knows.
LEMMA UnknownEmpty ==
  ASSUME RegistryOK, BalancesOK, NEW tx \in Transactions, NEW pos \in Positions, NEW ins,
         NEW moves, Splits(tx, moves, PooledOf(tx, pos, ins))
  PROVE  \A r \in Positions \ DOMAIN RunesAfterEtching(tx, pos) : moves.left[r] = 0
<1> SUFFICES ASSUME NEW r \in Positions \ DOMAIN RunesAfterEtching(tx, pos)
             PROVE  moves.left[r] = 0
  OBVIOUS
<1>1. Issued(tx, pos, r) = 0
  BY IssuedIs
<1>2. Held(ins, r) = 0
  <2>1. r \notin DOMAIN runes
    BY Known
  <2> QED BY <2>1, HeldPart
<1>3. PooledOf(tx, pos, ins)[r] = 0
  BY <1>1, <1>2 DEF PooledOf
<1>4. moves.left[r] + SumOver(Paid(tx, moves, r), Eligible(tx)) = 0
  BY <1>3 DEF Splits
<1>5. moves.left \in [Positions -> Nat] /\ moves.given \in [Eligible(tx) \X Positions -> Nat]
  BY DEF Splits, Moves
<1>6. \A v \in Eligible(tx) : Paid(tx, moves, r)[v] \in Nat
  BY <1>5 DEF Paid
<1>7. SumOver(Paid(tx, moves, r), Eligible(tx)) \in Nat
  BY <1>6, FewOutputs, SumNumber
<1>8. moves.left[r] \in Nat
  BY <1>5
<1> QED BY <1>4, <1>7, <1>8

\* The amounts pooled are numbers.
LEMMA PoolTyped ==
  ASSUME RegistryOK, BalancesOK, NEW tx \in Transactions, NEW pos \in Positions, NEW ins
  PROVE  \A r \in Positions : Held(ins, r) + Issued(tx, pos, r) \in Nat
<1> SUFFICES ASSUME NEW r \in Positions PROVE Held(ins, r) + Issued(tx, pos, r) \in Nat
  OBVIOUS
<1>1. Held(ins, r) \in Nat
  BY HeldPart
<1>2. Issued(tx, pos, r) \in Nat
  BY IssuedIs
<1> QED BY <1>1, <1>2

\* After the edicts the journal has what the indexer has.
LEMMA EdictsAgree ==
  ASSUME RegistryOK, BalancesOK, NEW tx \in Transactions, NEW pos \in Positions, NEW ins,
         at # None => Precedes(at, pos), Says(tx, "edicts")
  PROVE  FoldLeft(LAMBDA w, e : Obey(tx, pos, w, e),
                  Journalled(tx, pos, KeptOf(ins), Unmoved(tx, pos, ins)), MessageOf(tx).edicts)
           = Journalled(tx, pos, KeptOf(ins), AfterEdicts(tx, pos, ins))
<1> DEFINE edicts == MessageOf(tx).edicts
           D == DOMAIN edicts
           total == PooledOf(tx, pos, ins)
           start == Unmoved(tx, pos, ins)
           W(m) == Journalled(tx, pos, KeptOf(ins), m)
           G(f, s) == IF s = {} THEN W(start) ELSE Obey(tx, pos, f[s \ {Max(s)}], edicts[Max(s)])
           iter == CHOOSE f : f = [s \in SUBSET D |-> G(f, s)]
<1>1. PICK steps : Iterates(steps, tx, pos, ins)
  <2>1. \A r \in Positions : Held(ins, r) + Issued(tx, pos, r) \in Nat
    BY PoolTyped
  <2> QED BY <2>1, EdictSteps
<1>2. /\ AfterEdicts(tx, pos, ins) = steps[D] /\ steps[{}] = start
      /\ \A s \in SUBSET D :
           /\ Splits(tx, steps[s], total)
           /\ s # {} => steps[s] = Obeyed(tx, pos, steps[s \ {Max(s)}], edicts[Max(s)])
  BY <1>1 DEF Iterates
<1>3. FoldLeft(LAMBDA w, e : Obey(tx, pos, w, e), W(start), edicts) = iter[D]
  BY DEF FoldLeft, MapThenFoldSet
<1>4. edicts \in Seq(Edict)
  BY EdictsTyped
<1> HIDE DEF edicts
<1>5. D \in SUBSET (0 .. Len(edicts)) /\ IsFiniteSet(D) /\ Len(edicts) \in Nat
  <2>1. D = 1 .. Len(edicts) /\ Len(edicts) \in Nat
    BY <1>4
  <2> QED BY <2>1, FS_Interval
<1>6. \A s \in SUBSET D : s # {} => Max(s) \in s /\ edicts[Max(s)] \in Edict
  <2> SUFFICES ASSUME NEW s \in SUBSET D, s # {} PROVE Max(s) \in s /\ edicts[Max(s)] \in Edict
    OBVIOUS
  <2>1. Max(s) \in s
    <3> HIDE DEF D
    <3> QED BY <1>5, Greatest
  <2> QED BY <1>4, <2>1
<1>7. KeptOf(ins) \cap Fresh(tx, pos) = {}
  BY OldKeys DEF KeptOf
<1> HIDE DEF D, total, start
<1> DEFINE witness == [s \in SUBSET D |-> W(steps[s])]
<1>8. ASSUME NEW s \in SUBSET D, s # {}
      PROVE  Obey(tx, pos, W(steps[s \ {Max(s)}]), edicts[Max(s)]) = W(steps[s])
  <2> DEFINE m == steps[s \ {Max(s)}]
  <2>1. s \ {Max(s)} \in SUBSET D
    OBVIOUS
  <2>2. Splits(tx, m, total) /\ steps[s] = Obeyed(tx, pos, m, edicts[Max(s)])
    BY <1>2, <1>8, <2>1
  <2> HIDE DEF m, W
  <2>3. m \in Moves(tx)
    BY <2>2 DEF Splits
  <2>4. \A r \in Positions \ DOMAIN RunesAfterEtching(tx, pos) : m.left[r] = 0
    BY <2>2, UnknownEmpty DEF total
  <2>5. edicts[Max(s)] \in Edict
    BY <1>6, <1>8
  <2>6. Obey(tx, pos, Journalled(tx, pos, KeptOf(ins), m), edicts[Max(s)])
          = Journalled(tx, pos, KeptOf(ins), Obeyed(tx, pos, m, edicts[Max(s)]))
    BY <1>7, <2>3, <2>4, <2>5, ObeyAgrees
  <2> QED BY <2>2, <2>6 DEF W, m
<1> HIDE DEF W
<1>9. iter = [s \in SUBSET D |-> G(iter, s)]
  <2>1. \A s \in SUBSET D : witness[s] = G(witness, s)
    <3> SUFFICES ASSUME NEW s \in SUBSET D PROVE witness[s] = G(witness, s)
      OBVIOUS
    <3>1. witness[s] = W(steps[s]) /\ witness[s \ {Max(s)}] = W(steps[s \ {Max(s)}])
      OBVIOUS
    <3> HIDE DEF witness
    <3>2. CASE s = {}
      BY <1>2, <3>1, <3>2
    <3>3. CASE s # {}
      BY <1>8, <3>1, <3>3
    <3> QED BY <3>2, <3>3
  <2>2. witness = [s \in SUBSET D |-> G(witness, s)]
    <3> HIDE DEF G
    <3> QED BY <2>1
  <2> HIDE DEF G, witness
  <2> QED BY <2>2
<1> HIDE DEF iter, witness
<1>10. \A s \in SUBSET D : iter[s] = G(iter, s)
  <2> HIDE DEF G
  <2> QED BY <1>9
<1> DEFINE T == {s \in SUBSET D : iter[s] = W(steps[s])}
<1>11. {} \in T
  <2>1. iter[{}] = W(steps[{}])
    BY <1>2, <1>10
  <2> QED BY <2>1
<1>12. ASSUME NEW s \in SUBSET D, s # {}, \A x \in s : s \ {x} \in T PROVE s \in T
  <2>1. iter[s \ {Max(s)}] = W(steps[s \ {Max(s)}])
    BY <1>6, <1>12
  <2>2. iter[s] = Obey(tx, pos, iter[s \ {Max(s)}], edicts[Max(s)])
    BY <1>10, <1>12
  <2>3. iter[s] = W(steps[s])
    BY <1>8, <1>12, <2>1, <2>2
  <2> QED BY <2>3
<1>13. D \in T
  <2> HIDE DEF T
  <2> QED BY <1>5, <1>11, <1>12, SmallerSet
<1>14. iter[D] = W(AfterEdicts(tx, pos, ins))
  BY <1>2, <1>13
<1> QED BY <1>3, <1>14 DEF W, edicts, start

\* The table once the runes in s have been credited to the output `first`.
Credited(tx, moves, first, s) ==
  [k \in Eligible(tx) \X Positions |->
     moves.given[k] + IF k[1] = first /\ k[2] \in s THEN moves.left[k[2]] ELSE 0]

\* The journal's last loop: what is pooled still, noted under the first output.
Rested(pos, first, pool, recs, K) ==
  FoldSet(LAMBDA r, rs : Note(rs, <<pos, first>>, r, pool[r]), recs, K)

\* The rest, rune by rune, goes to the first output that can hold it.
LEMMA RestAgrees ==
  ASSUME RegistryOK, AgreeInv, NEW tx \in Transactions, NEW pos \in Positions,
         NEW kept, kept \cap Fresh(tx, pos) = {}, NEW moves \in Moves(tx), NEW first \in Eligible(tx),
         NEW pool, pool = [r \in DOMAIN RunesAfterEtching(tx, pos) |-> moves.left[r]]
  PROVE  LET K == DOMAIN RunesAfterEtching(tx, pos) IN
         Rested(pos, first, pool, Book(kept, Fresh(tx, pos), moves.given), K)
           = Book(kept, Fresh(tx, pos), Credited(tx, moves, first, K))
<1> DEFINE K == DOMAIN RunesAfterEtching(tx, pos)
           fresh == Fresh(tx, pos)
           E == Eligible(tx)
           x(s) == CHOOSE r \in s : TRUE
           B(table) == Book(kept, fresh, table)
           C(s) == Credited(tx, moves, first, s)
           G(f, s) == IF s = {} THEN B(moves.given)
                      ELSE Note(f[s \ {x(s)}], <<pos, first>>, x(s), pool[x(s)])
           iter == CHOOSE f : f = [s \in SUBSET K |-> G(f, s)]
           witness == [s \in SUBSET K |-> B(C(s))]
           T == E \X Positions
<1>1. Rested(pos, first, pool, B(moves.given), K) = iter[K]
  BY DEF Rested, FoldSet, MapThenFoldSet
<1>2. \A s \in SUBSET K : s # {} => x(s) \in s
  OBVIOUS
<1> HIDE DEF x
<1>3. /\ K \subseteq Positions /\ IsFiniteSet(K) /\ fresh = KeysOf(pos, E, K) /\ Pairs(T, E, K)
      /\ moves.left \in [Positions -> Nat] /\ moves.given \in [T -> Nat]
  <2>1. K = DOMAIN runes \cup {pos} \/ K = DOMAIN runes
    BY Known
  <2>2. DOMAIN runes \subseteq Positions /\ IsFiniteSet(DOMAIN runes)
    BY DEF RegistryOK, AgreeInv
  <2>3. fresh = KeysOf(pos, E, K)
    BY DEF Fresh
  <2>4. moves.left \in [Positions -> Nat] /\ moves.given \in [T -> Nat]
    BY DEF Moves
  <2> HIDE DEF K, fresh
  <2>5. K \subseteq Positions /\ IsFiniteSet(K)
    BY <2>1, <2>2, FS_AddElement
  <2>6. Pairs(T, E, K)
    BY <2>5 DEF Pairs
  <2> HIDE DEF T
  <2> QED BY <2>3, <2>4, <2>5, <2>6
<1>4. C({}) = moves.given
  <2>1. \A k \in T : C({})[k] = moves.given[k]
    BY <1>3 DEF Credited
  <2>2. C({}) = [k \in T |-> C({})[k]]
    BY DEF Credited
  <2> HIDE DEF C, T
  <2> QED BY <1>3, <2>1, <2>2
<1>5. ASSUME NEW s \in SUBSET K, s # {}
      PROVE  Note(B(C(s \ {x(s)})), <<pos, first>>, x(s), pool[x(s)]) = B(C(s))
  <2> DEFINE r == x(s)
             a == C(s \ {r})
             d == moves.left[r]
  <2>1. r \in K /\ r \in s /\ r \in Positions /\ d \in Nat /\ pool[r] = d
    BY <1>2, <1>3, <1>5
  <2> HIDE DEF r
  <2>2. ASSUME NEW q \in SUBSET K PROVE C(q) \in [T -> Nat]
    <3>1. \A k \in T : k[1] \in E /\ k[2] \in Positions /\ moves.given[k] \in Nat
      BY <1>3
    <3>2. \A k \in T : moves.left[k[2]] \in Nat
      BY <1>3, <3>1
    <3>3. C(q) = [k \in T |-> moves.given[k] + IF k[1] = first /\ k[2] \in q THEN moves.left[k[2]] ELSE 0]
      BY DEF Credited
    <3> HIDE DEF C, T
    <3> QED BY <3>1, <3>2, <3>3
  <2>3. a \in [T -> Nat] /\ C(s) \in [T -> Nat]
    <3>1. s \ {r} \in SUBSET K
      OBVIOUS
    <3> HIDE DEF C, T
    <3> QED BY <2>2, <3>1
  <2>4. Note(B(a), <<pos, first>>, r, d) = B(Adding(a, first, r, d))
    <3>1. kept \cap KeysOf(pos, E, K) = {} /\ Pairs(T, E, K) /\ first \in E
      BY <1>3
    <3> HIDE DEF a, d, T, E, K, fresh
    <3>2. Note(Book(kept, KeysOf(pos, E, K), a), <<pos, first>>, r, d)
            = Book(kept, KeysOf(pos, E, K), Adding(a, first, r, d))
      BY <2>1, <2>3, <3>1, NoteBook
    <3> QED BY <1>3, <3>2
  <2>5. Adding(a, first, r, d) = C(s)
    <3>1. ASSUME NEW k \in T PROVE Adding(a, first, r, d)[k] = C(s)[k]
      <4>1. k[1] \in E /\ k[2] \in Positions /\ moves.given[k] \in Nat /\ moves.left[k[2]] \in Nat
            /\ k = <<k[1], k[2]>>
        BY <1>3
      <4>2. /\ a[k] = moves.given[k] + (IF k[1] = first /\ k[2] \in s \ {r} THEN moves.left[k[2]] ELSE 0)
            /\ C(s)[k] = moves.given[k] + (IF k[1] = first /\ k[2] \in s THEN moves.left[k[2]] ELSE 0)
        BY DEF Credited
      <4>3. <<first, r>> \in T
        BY <2>1
      <4>4. Adding(a, first, r, d)[k] = IF k = <<first, r>> THEN a[<<first, r>>] + d ELSE a[k]
        <5> HIDE DEF a, d, T
        <5> QED BY <2>3, <4>3 DEF Adding
      <4>5. CASE k = <<first, r>>
        <5>1. k[1] = first /\ k[2] = r
          BY <4>5
        <5>2. a[k] = moves.given[k] /\ C(s)[k] = moves.given[k] + moves.left[r]
          <6> HIDE DEF a, C
          <6> QED BY <2>1, <4>1, <4>2, <5>1
        <5> HIDE DEF a, C
        <5> QED BY <4>4, <4>5, <5>2
      <4>6. CASE k # <<first, r>>
        <5>1. ~(k[1] = first /\ k[2] = r)
          BY <4>1, <4>6
        <5> HIDE DEF a, C, T
        <5> QED BY <4>2, <4>4, <4>6, <5>1
      <4> QED BY <4>5, <4>6
    <3>2. Adding(a, first, r, d) = [k \in T |-> Adding(a, first, r, d)[k]]
      <4> HIDE DEF a, d, T
      <4> QED BY <2>3 DEF Adding
    <3>3. C(s) = [k \in T |-> C(s)[k]]
      <4> HIDE DEF C, T
      <4> QED BY <2>3
    <3> HIDE DEF a, C, T, d
    <3> QED BY <3>1, <3>2, <3>3
  <2> QED BY <2>1, <2>4, <2>5 DEF r
<1>6. \A s \in SUBSET K : s \ {x(s)} \in SUBSET K
  OBVIOUS
<1> HIDE DEF B, C
<1>7. iter = [s \in SUBSET K |-> G(iter, s)]
  <2>1. \A s \in SUBSET K : witness[s] = G(witness, s)
    <3> SUFFICES ASSUME NEW s \in SUBSET K PROVE witness[s] = G(witness, s)
      OBVIOUS
    <3>1. witness[s] = B(C(s)) /\ witness[s \ {x(s)}] = B(C(s \ {x(s)}))
      OBVIOUS
    <3> HIDE DEF witness, K
    <3>2. CASE s = {}
      BY <1>4, <3>1, <3>2
    <3>3. CASE s # {}
      BY <1>5, <3>1, <3>3
    <3> QED BY <3>2, <3>3
  <2>2. witness = [s \in SUBSET K |-> G(witness, s)]
    <3> HIDE DEF G, K
    <3> QED BY <2>1
  <2> HIDE DEF G, witness, K
  <2> QED BY <2>2
<1> HIDE DEF iter, witness, K
<1>8. \A s \in SUBSET K : iter[s] = G(iter, s)
  <2> HIDE DEF G
  <2> QED BY <1>7
<1> DEFINE U == {s \in SUBSET K : iter[s] = B(C(s))}
<1>9. {} \in U
  <2>1. iter[{}] = B(C({}))
    BY <1>4, <1>8
  <2> QED BY <2>1
<1>10. ASSUME NEW s \in SUBSET K, s # {}, \A r \in s : s \ {r} \in U PROVE s \in U
  <2>1. iter[s \ {x(s)}] = B(C(s \ {x(s)}))
    BY <1>2, <1>10
  <2>2. iter[s] = Note(iter[s \ {x(s)}], <<pos, first>>, x(s), pool[x(s)])
    BY <1>8, <1>10
  <2>3. iter[s] = B(C(s))
    BY <1>5, <1>10, <2>1, <2>2
  <2> QED BY <2>3
<1>11. K \in U
  <2> HIDE DEF U
  <2> QED BY <1>3, <1>9, <1>10, SmallerSet
<1> QED BY <1>1, <1>11 DEF K, B, C

\* What the journal has noted at the end of a transaction is what the indexer holds.
LEMMA RecordsAgree ==
  ASSUME RegistryOK, BalancesOK, AgreeInv, NEW tx \in Transactions, NEW pos \in Positions,
         NEW ins \in SUBSET Carrying, ApplyTx(tx, pos, ins), JournalApply(tx, pos, ins)
  PROVE  records' = balances' /\ IsMap(balances')
<1> DEFINE known == RunesAfterEtching(tx, pos)
           K == DOMAIN known
           E == Eligible(tx)
           kept == KeptOf(ins)
           fresh == Fresh(tx, pos)
           moves == AfterEdicts(tx, pos, ins)
           defs == DefinitionsNow(tx, pos)
           drained == {k \in DOMAIN records : k[1] \in ins}
           start == [pool |-> [r \in DOMAIN defs |->
                 MapThenSumSet(LAMBDA k : records[k], {k \in drained : k[2] = r})
                   + (IF Defines(tx, pos) /\ r = pos THEN defs[r].premine ELSE 0)
                   + (IF r \in MintedRefs(tx, pos) THEN defs[r].terms.amount ELSE 0)],
               recs |-> FoldSet(LAMBDA k, recs : Note(recs, k[1], k[2], -records[k]), records, drained)]
           moved == IF Says(tx, "edicts")
               THEN FoldLeft(LAMBDA w, e : Obey(tx, pos, w, e), start, MessageOf(tx).edicts)
               ELSE start
           first == Min(E)
<1>1. at # None => Precedes(at, pos)
  BY DEF ApplyTx
<1>2. kept \cap fresh = {}
  BY <1>1, OldKeys DEF KeptOf
<1>3. moves \in Moves(tx)
  <2>1. \A r \in Positions : Held(ins, r) + Issued(tx, pos, r) \in Nat
    BY PoolTyped
  <2> QED BY <2>1, EdictsSplit DEF Splits
<1>4. start = Journalled(tx, pos, kept, Unmoved(tx, pos, ins))
  BY <1>1, StartAgrees
<1>5. moved = Journalled(tx, pos, kept, moves)
  <2>1. CASE Says(tx, "edicts")
    <3>1. moved = FoldLeft(LAMBDA w, e : Obey(tx, pos, w, e), start, MessageOf(tx).edicts)
      BY <2>1
    <3> HIDE DEF start
    <3>2. FoldLeft(LAMBDA w, e : Obey(tx, pos, w, e), start, MessageOf(tx).edicts)
            = FoldLeft(LAMBDA w, e : Obey(tx, pos, w, e),
                       Journalled(tx, pos, KeptOf(ins), Unmoved(tx, pos, ins)), MessageOf(tx).edicts)
      BY <1>4
    <3> QED BY <1>1, <2>1, <3>1, <3>2, EdictsAgree
  <2>2. CASE ~Says(tx, "edicts")
    <3>1. AfterEdicts(tx, pos, ins) = Unmoved(tx, pos, ins)
      BY <2>2 DEF AfterEdicts, Unmoved, PooledOf
    <3> QED BY <1>4, <2>2, <3>1
  <2> QED BY <2>1, <2>2
<1>6. records' = IF E = {} THEN moved.recs
                 ELSE Rested(pos, first, moved.pool, moved.recs, DOMAIN moved.pool)
  BY DEF JournalApply, Rested
<1>7. moved.recs = Book(kept, fresh, moves.given) /\ moved.pool = [r \in K |-> moves.left[r]]
  <2> HIDE DEF moved
  <2> QED BY <1>5 DEF Journalled
<1> HIDE DEF moved, start, defs, drained
<1>8. balances' = [k \in kept \cup {n \in fresh : Credits(Received(tx, moves, n[1][2], n[2]))} |->
                     IF k \in kept THEN balances[k] ELSE Received(tx, moves, k[1][2], k[2])]
  <2>1. Transfers(tx, pos, ins)
    BY DEF ApplyTx
  <2> QED BY <2>1 DEF Transfers, KeptOf, Fresh, KeysOf
<1>9. IsMap(balances')
  <2> HIDE DEF kept, fresh, moves
  <2> QED BY <1>8 DEF IsMap
<1>10. CASE E = {}
  <2>1. fresh = {}
    BY <1>10 DEF Fresh, KeysOf
  <2>2. records' = Book(kept, fresh, moves.given)
    BY <1>6, <1>7, <1>10
  <2>3. balances' = [k \in kept |-> balances[k]]
    <3> HIDE DEF kept, fresh, moves
    <3> QED BY <1>8, <2>1
  <2>4. Book(kept, fresh, moves.given) = [k \in kept |-> balances[k]]
    <3> HIDE DEF kept, fresh, moves
    <3> QED BY <2>1 DEF Book
  <2> QED BY <1>9, <2>2, <2>3, <2>4
<1>11. CASE E # {}
  <2>1. first \in E /\ \A v \in E : first <= v /\ v \in Nat
    <3>1. E \subseteq Nat
      BY FewOutputs
    <3> HIDE DEF E
    <3>2. \E x \in E : \A y \in E : x <= y
      BY <1>11, <3>1, Least
    <3> QED BY <3>1, <3>2 DEF Min
  <2> DEFINE paid == Credited(tx, moves, first, K)
  <2>2. records' = Book(kept, fresh, paid)
    <3>1. records' = Rested(pos, first, moved.pool, moved.recs, DOMAIN moved.pool)
      BY <1>6, <1>11
    <3>2. Rested(pos, first, moved.pool, Book(kept, fresh, moves.given), K) = Book(kept, fresh, paid)
      <4> HIDE DEF moves, kept, first
      <4> QED BY <1>2, <1>3, <1>7, <2>1, RestAgrees
    <3>3. DOMAIN moved.pool = K /\ moved.recs = Book(kept, fresh, moves.given)
      BY <1>7
    <3> QED BY <3>1, <3>2, <3>3
  <2>3. ASSUME NEW v \in E, NEW r \in K
        PROVE  LET n == <<<<pos, v>>, r>> IN
               /\ Received(tx, moves, n[1][2], n[2]) = Given(paid, n)
               /\ Credits(Received(tx, moves, n[1][2], n[2])) <=> Given(paid, n) > 0
    <3>1. K \subseteq Positions
      <4>1. K = DOMAIN runes \cup {pos} \/ K = DOMAIN runes
        BY Known
      <4> QED BY <4>1 DEF RegistryOK
    <3>2. moves.left[r] \in Nat /\ moves.given[<<v, r>>] \in Nat
      BY <1>3, <3>1 DEF Moves
    <3>3. Fallback(tx, v) <=> v = first
      BY <2>1 DEF Fallback
    <3>4. paid[<<v, r>>] = moves.given[<<v, r>>] + (IF v = first /\ r \in K THEN moves.left[r] ELSE 0)
      BY <3>1 DEF Credited
    <3>5. Received(tx, moves, v, r) = paid[<<v, r>>]
      <4> HIDE DEF paid, moves, first
      <4> QED BY <3>2, <3>3, <3>4 DEF Received, Credits
    <3>6. Given(paid, <<<<pos, v>>, r>>) = paid[<<v, r>>]
      BY DEF Given
    <3> HIDE DEF paid, moves
    <3> QED BY <3>5, <3>6 DEF Credits
  <2> DEFINE got(n) == Received(tx, moves, n[1][2], n[2])
  <2>4. \A n \in fresh : got(n) = Given(paid, n) /\ (Credits(got(n)) <=> Given(paid, n) > 0)
    <3> SUFFICES ASSUME NEW n \in fresh
                 PROVE  got(n) = Given(paid, n) /\ (Credits(got(n)) <=> Given(paid, n) > 0)
      OBVIOUS
    <3>1. PICK v \in E, r \in K : n = <<<<pos, v>>, r>>
      BY DEF Fresh, KeysOf
    <3> HIDE DEF paid, moves
    <3> QED BY <2>3, <3>1
  <2>5. balances' = [k \in kept \cup {n \in fresh : Given(paid, n) > 0} |->
                       IF k \in kept THEN balances[k] ELSE Given(paid, k)]
    <3>1. balances' = [k \in kept \cup {n \in fresh : Credits(got(n))} |->
                         IF k \in kept THEN balances[k] ELSE got(k)]
      BY <1>8
    <3> HIDE DEF kept, fresh, paid, moves, got
    <3> QED BY <2>4, <3>1
  <2> QED BY <1>9, <2>2, <2>5 DEF Book
<1> QED BY <1>10, <1>11

-----------------------------------------------------------------------------
(* The two of them together.                                                *)

\* Both begin with nothing.
LEMMA AgreeInit ==
  ASSUME BothInit
  PROVE  TypeInv /\ AgreeInv
<1>1. TypeInv
  BY TypeInit DEF BothInit
<1>2. Empty = <<>>
  <2>1. DOMAIN Empty = {} /\ DOMAIN <<>> = {}
    BY DEF Empty
  <2> QED BY <2>1 DEF Empty
<1>3. /\ records = balances /\ tickerOwner = tickers /\ gateUsed = allowlistMinted
      /\ definitions = runes /\ issued = runes
  BY <1>2 DEF BothInit, JournalInit, Init
<1>4. DOMAIN runes = {} /\ balances = [x \in {} |-> 0] /\ allowlistMinted = [x \in {} |-> 0]
  BY DEF BothInit, Init, Empty
<1>5. IsMap(balances) /\ IsMap(allowlistMinted)
  BY <1>4 DEF IsMap
<1>6. IsFiniteSet(DOMAIN runes)
  BY <1>4, FS_EmptySet
<1> QED BY <1>1, <1>3, <1>4, <1>5, <1>6 DEF AgreeInv

\* And neither moves away from the other.
LEMMA AgreeStep ==
  ASSUME TypeInv, AgreeInv, [BothNext]_<<vars, journal>>
  PROVE  TypeInv' /\ AgreeInv'
<1>1. CASE BothNext
  <2>1. PICK tx \in Transactions, pos \in Positions, ins \in SUBSET Carrying :
          ApplyTx(tx, pos, ins) /\ JournalApply(tx, pos, ins)
    BY <1>1 DEF BothNext
  <2>2. RegistryOK /\ BalancesOK
    BY DEF TypeInv
  <2>3. TypeInv'
    <3>1. Next
      BY <2>1 DEF Next
    <3> QED BY <3>1, TypeStep
  <2>4. records' = balances' /\ IsMap(balances')
    BY <2>1, <2>2, RecordsAgree
  <2>5. /\ tickerOwner' = tickers' /\ gateUsed' = allowlistMinted' /\ IsMap(allowlistMinted')
        /\ DOMAIN definitions' = DOMAIN runes' /\ DOMAIN issued' = DOMAIN runes'
        /\ \A r \in DOMAIN runes' : Same(definitions'[r], issued'[r], runes'[r])
        /\ IsFiniteSet(DOMAIN runes')
    BY <2>1, <2>2, RegistryAgrees
  <2> QED BY <2>3, <2>4, <2>5 DEF AgreeInv, Same, IsMap
<1>2. CASE UNCHANGED <<vars, journal>>
  <2>1. TypeInv'
    BY <1>2, TypeStep
  <2>2. UNCHANGED <<runes, tickers, balances, allowlistMinted, records, definitions, tickerOwner,
                    issued, gateUsed>>
    BY <1>2 DEF vars, state, journal
  <2>3. AgreeInv'
    BY <2>2 DEF AgreeInv, Same, IsMap
  <2> QED BY <2>1, <2>3
<1> QED BY <1>1, <1>2

\* Fed the same chain, the indexer and the journal that checks it hold the same balances, the same
\* registry, counters and allowlist entries, at every height (test/runes-conformance.test.js:39):
\* whatever the transactions are, also where the doubles of the two round.
THEOREM ImplementationsAgree == BothSpec => []BothAgree
<1>1. BothInit => TypeInv /\ AgreeInv
  BY AgreeInit
<1>2. TypeInv /\ AgreeInv /\ [BothNext]_<<vars, journal>> => TypeInv' /\ AgreeInv'
  BY AgreeStep
<1>3. AgreeInv => BothAgree
  BY DEF AgreeInv, BothAgree, Same
<1> QED BY <1>1, <1>2, <1>3, PTL DEF BothSpec
=============================================================================
