----------------------------- MODULE RuneJournal -----------------------------
(***************************************************************************)
(* src/runes/verify.js: the second implementation of the rune rules, "built to *)
(* fail differently": a journal of deltas, added up only when asked.  It is    *)
(* here so that the two can be run on the same chain and compared.             *)
(***************************************************************************)
EXTENDS RuneTransactions, Integers, SequencesExt, FiniteSetsExt

VARIABLES
  records,       \* Journal.records, of which only sums are ever read: the sum per
                 \* <<outpoint, reference>>, the zero ones dropped
  definitions, tickerOwner,
  issued,        \* reference -> minted, mintCount
  gateUsed       \* <<reference, leaf>> -> units

journal == <<records, definitions, tickerOwner, issued, gateUsed>>

JournalInit ==
  /\ records = <<>>
  /\ definitions = <<>> /\ tickerOwner = <<>> /\ issued = <<>> /\ gateUsed = <<>>

\* record(), and what balances() adds up of it: one more delta under a key.
Note(recs, o, r, delta) ==
  LET key == <<o, r>>
      sum == (IF key \in DOMAIN recs THEN recs[key] ELSE 0) + delta IN
    IF sum = 0 THEN [k \in DOMAIN recs \ {key} |-> recs[k]]
    ELSE [k \in DOMAIN recs \cup {key} |-> IF k = key THEN sum ELSE recs[k]]

-----------------------------------------------------------------------------
\* validTerms, validDefinition, lockedEnough.
ValidTerms(t) == t.amount >= 1 /\ (t.open = None \/ t.close = None \/ t.close >= t.open)
ValidDefinition(e) == e.premine <= e.supply /\ (e.terms = None \/ ValidTerms(e.terms))
TickerTaken(tx) == tx.etching.ticker \in DOMAIN tickerOwner
Defines(tx, pos) ==
  /\ tx.etching # None /\ pos[1] >= Activation
  /\ ValidDefinition(tx.etching) /\ tx.locked
  /\ ~TickerTaken(tx) /\ pos \notin DOMAIN definitions

With(f, k, v) == [x \in DOMAIN f \cup {k} |-> IF x = k THEN v ELSE f[x]]
DefinitionsNow(tx, pos) ==
  IF Defines(tx, pos) THEN With(definitions, pos, tx.etching) ELSE definitions
IssuedNow(tx, pos) ==
  IF Defines(tx, pos) THEN With(issued, pos, [minted |-> 0, mintCount |-> 0]) ELSE issued

\* allowlistGate: what the entry has taken, where it may take as much again.
Taken(r, leaf) == IF <<r, leaf>> \in DOMAIN gateUsed THEN gateUsed[<<r, leaf>>] ELSE 0
AllowlistGate(tx, r, def) ==
  tx.proof # None /\ tx.proof \in def.gate
    /\ Plus(Taken(r, tx.proof), def.terms.amount) <= tx.proof[2]

FeeCovers(tx, t) == t.price = 0 \/ (tx.fee # None /\ tx.fee >= t.price)

\* (c) the rune this transaction mints one portion of, if it does.
WindowOpenEnded(t, height) == t.open = None \/ height >= t.open     \* (mutant: never closes)
WithinWindow(t, height) ==
  (t.open = None \/ height >= t.open) /\ (t.close = None \/ height <= t.close)
MintOK(tx, pos, r) ==
  LET def == DefinitionsNow(tx, pos)[r]
      iss == IssuedNow(tx, pos)[r]
      t == def.terms IN
    /\ t # None
    /\ WithinWindow(t, pos[1])
    /\ t.cap = None \/ iss.mintCount < t.cap
    /\ Plus(Plus(def.premine, iss.minted), t.amount) <= def.supply
    /\ FeeCovers(tx, t)
    /\ def.gate = {} \/ AllowlistGate(tx, r, def)
MintedRefs(tx, pos) ==
  IF Says(tx, "mint")
  THEN {r \in {MessageOf(tx).ref} \cap DOMAIN DefinitionsNow(tx, pos) : MintOK(tx, pos, r)}
  ELSE {}

-----------------------------------------------------------------------------
\* (e) one edict: what is pooled of its rune moves, and the journal says so.
Obey(tx, pos, w, e) ==
  LET have == IF e.ref \in DOMAIN w.pool THEN w.pool[e.ref] ELSE 0
      move == IF e.amount = 0 THEN have ELSE Min({e.amount, have}) IN
    IF have <= 0 \/ e.output \notin Eligible(tx) \/ pos[1] - e.ref[1] < Maturity THEN w
    ELSE [pool |-> [w.pool EXCEPT ![e.ref] = have - move],
          recs |-> Note(w.recs, <<pos, e.output>>, e.ref, move)]

\* apply().
JournalApply(tx, pos, ins) ==
  LET now == records
      drained == {k \in DOMAIN now : k[1] \in ins}
      defs == DefinitionsNow(tx, pos)
      minted == MintedRefs(tx, pos)
      out == FoldSet(LAMBDA k, recs : Note(recs, k[1], k[2], -now[k]), records, drained)
      pool == [r \in DOMAIN defs |->
                 MapThenSumSet(LAMBDA k : now[k], {k \in drained : k[2] = r})
                   + (IF Defines(tx, pos) /\ r = pos THEN defs[r].premine ELSE 0)
                   + (IF r \in minted THEN defs[r].terms.amount ELSE 0)]
      start == [pool |-> pool, recs |-> out]
      moved == IF Says(tx, "edicts")
               THEN FoldLeft(LAMBDA w, e : Obey(tx, pos, w, e), start, MessageOf(tx).edicts)
               ELSE start
      rest(r, recs) == Note(recs, <<pos, Min(Eligible(tx))>>, r, moved.pool[r]) IN
    /\ records' = IF Eligible(tx) = {} THEN moved.recs
                  ELSE FoldSet(rest, moved.recs, DOMAIN moved.pool)
    /\ definitions' = defs
    /\ tickerOwner' = IF Defines(tx, pos) THEN With(tickerOwner, tx.etching.ticker, pos)
                                          ELSE tickerOwner
    /\ issued' = [r \in DOMAIN defs |->
         IF r \in minted
         THEN [minted |-> Plus(IssuedNow(tx, pos)[r].minted, defs[r].terms.amount),
               mintCount |-> IssuedNow(tx, pos)[r].mintCount + 1]
         ELSE IssuedNow(tx, pos)[r]]
    /\ gateUsed' =
         IF \E r \in minted : defs[r].gate # {}
         THEN LET r == MessageOf(tx).ref IN
                With(gateUsed, <<r, tx.proof>>, Plus(Taken(r, tx.proof), defs[r].terms.amount))
         ELSE gateUsed
=============================================================================
