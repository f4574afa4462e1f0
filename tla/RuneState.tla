------------------------------ MODULE RuneState ------------------------------
(***************************************************************************)
(* src/runes/indexer.js: the state machine of the rune protocol.  It is fed   *)
(* the transactions of the chain in order, one applyTx each: pool what the     *)
(* inputs held, register an etching, run a mint, run the edicts, and let the   *)
(* rest fall to the first output that can hold it.                             *)
(***************************************************************************)
EXTENDS RuneTransactions, SequencesExt

VARIABLES
  runes,            \* reference -> what was etched, and what was minted since
  tickers,          \* ticker -> reference
  balances,         \* <<outpoint, reference>> -> amount, where there is any
  allowlistMinted,  \* <<reference, leaf>> -> units the entry has taken
  at,               \* position of the last transaction applied
  burned            \* history: units of each rune in transactions with no place for them

state == <<runes, tickers, balances, allowlistMinted>>
vars  == <<state, at, burned>>

Outpoint == Ref \X Nat
Rune == [ticker : Tickers, supply : Nat, premine : Nat, terms : Terms \cup {None},
         gate : SUBSET Leaf, minted : Nat, mintCount : Nat]

RegistryOK ==
  /\ DOMAIN runes \subseteq Positions /\ \A r \in DOMAIN runes : runes[r] \in Rune
  /\ DOMAIN tickers \subseteq Tickers
  /\ \A t \in DOMAIN tickers : tickers[t] \in DOMAIN runes
  /\ DOMAIN allowlistMinted \subseteq (DOMAIN runes) \X Leaf
  /\ \A k \in DOMAIN allowlistMinted : allowlistMinted[k] \in Nat
  /\ at \in Positions \cup {None}

TypeOK ==
  /\ RegistryOK
  /\ DOMAIN balances \subseteq Outpoint \X (DOMAIN runes)
  /\ \A k \in DOMAIN balances : balances[k] \in Nat \ {0} /\ k[1][1] \in Positions
  /\ burned \in [Positions -> Nat]

Empty == [x \in {} |-> 0]
Init ==
  /\ runes = Empty /\ tickers = Empty /\ balances = Empty /\ allowlistMinted = Empty
  /\ at = None
  /\ burned = [r \in Positions |-> 0]

-----------------------------------------------------------------------------
(* Etching.                                                                 *)

\* normaliseTerms and normaliseEtching: what makes an etching a rune at all.
LegalTerms(t) ==
  /\ t.amount > 0
  /\ t.open # None /\ t.close # None => t.open <= t.close
Legal(e) == e.premine <= e.supply /\ (e.terms # None => LegalTerms(e.terms))

Registered(e) ==
  [ticker |-> e.ticker, supply |-> e.supply, premine |-> e.premine, terms |-> e.terms,
   gate |-> e.gate, minted |-> 0, mintCount |-> 0]

\* First come: the name and the reference are free, and the price is locked.
NotEtched(tx, pos) == pos \notin DOMAIN runes            \* (mutant: the name not looked up)
NameFree(tx, pos) == tx.etching.ticker \notin DOMAIN tickers /\ pos \notin DOMAIN runes
Etches(tx, pos) ==
  /\ tx.etching # None /\ pos[1] >= Activation
  /\ Legal(tx.etching) /\ tx.locked
  /\ NameFree(tx, pos)

RunesAfterEtching(tx, pos) ==
  IF Etches(tx, pos) THEN [r \in DOMAIN runes \cup {pos} |->
                             IF r = pos THEN Registered(tx.etching) ELSE runes[r]]
                     ELSE runes

-----------------------------------------------------------------------------
(* Minting.                                                                 *)

\* The terms of the etching, at this height.
Open(t, height) ==
  /\ t.open # None => height >= t.open
  /\ t.close # None => height <= t.close
CapPassed(rune) == rune.terms.cap # None /\ rune.mintCount > rune.terms.cap  \* (mutant)
CapReached(rune) == rune.terms.cap # None /\ rune.mintCount >= rune.terms.cap
OverSupply(rune) == Plus(Plus(rune.premine, rune.minted), rune.terms.amount) > rune.supply
FeePaid(tx, t) == t.price > 0 => tx.fee # None /\ tx.fee >= t.price

\* What an entry has taken.
Used(ref, leaf) ==
  IF <<ref, leaf>> \in DOMAIN allowlistMinted THEN allowlistMinted[<<ref, leaf>>] ELSE 0
ProofHolds(tx, ref, rune) == tx.proof # None /\ tx.proof \in rune.gate  \* (mutant: a door only)
GateOpens(tx, ref, rune) ==
  /\ tx.proof # None /\ tx.proof \in rune.gate
  /\ Plus(Used(ref, tx.proof), rune.terms.amount) <= tx.proof[2]

Mints(tx, pos, ref, known) ==
  /\ Says(tx, "mint") /\ ref = MessageOf(tx).ref
  /\ ref \in DOMAIN known /\ known[ref].terms # None
  /\ Open(known[ref].terms, pos[1])
  /\ ~CapReached(known[ref]) /\ ~OverSupply(known[ref])
  /\ FeePaid(tx, known[ref].terms)
  /\ known[ref].gate # {} => GateOpens(tx, ref, known[ref])

Minted(rune) == [rune EXCEPT !.minted = Plus(@, rune.terms.amount), !.mintCount = @ + 1]

\* What this transaction brings into being of the rune `ref`.
Issued(tx, pos, ref) ==
  LET known == RunesAfterEtching(tx, pos) IN
    (IF Etches(tx, pos) /\ ref = pos THEN tx.etching.premine ELSE 0)
      + (IF Mints(tx, pos, ref, known) THEN known[ref].terms.amount ELSE 0)

-----------------------------------------------------------------------------
(* Moving.                                                                  *)

\* Units of the rune `ref` that the outpoints in `ops` hold.
Held(ops, ref) ==
  MapThenSumSet(LAMBDA k : balances[k], {k \in DOMAIN balances : k[1] \in ops /\ k[2] = ref})

Mature(ref, height) == height >= ref[1] + Maturity

\* One edict: `left` is what is pooled still, `given` what each output has got.
Asked(e, available) == e.amount                          \* (mutant: more than there is)
Moved(e, available) ==
  IF e.amount = 0 \/ e.amount > available THEN available ELSE e.amount
Obeyed(tx, pos, moves, e) ==
  IF /\ e.ref \in Positions /\ moves.left[e.ref] > 0
     /\ e.output \in Eligible(tx)
     /\ Mature(e.ref, pos[1])
  THEN LET n == Moved(e, moves.left[e.ref]) IN
         [left |-> [moves.left EXCEPT ![e.ref] = @ - n],
          given |-> [moves.given EXCEPT ![<<e.output, e.ref>>] = @ + n]]
  ELSE moves

AfterEdicts(tx, pos, ins) ==
  LET start == [left |-> [r \in Positions |-> Held(ins, r) + Issued(tx, pos, r)],
                given |-> [k \in Eligible(tx) \X Positions |-> 0]]
  IN IF Says(tx, "edicts")
     THEN FoldLeft(LAMBDA moves, e : Obeyed(tx, pos, moves, e), start, MessageOf(tx).edicts)
     ELSE start

\* The rest goes to the first eligible output, or nowhere.
Fallback(tx, v) == v \in Eligible(tx) /\ \A w \in Eligible(tx) : v <= w
AnyAmount(n) == n >= 0                                   \* (mutant: zeroes credited)
Credits(n) == n > 0
Received(tx, moves, v, ref) ==
  moves.given[<<v, ref>>]
    + (IF Fallback(tx, v) /\ Credits(moves.left[ref]) THEN moves.left[ref] ELSE 0)

Transfers(tx, pos, ins) ==
  LET moves == AfterEdicts(tx, pos, ins)
      kept  == {k \in DOMAIN balances : k[1] \notin ins}
      new   == {<<<<pos, v>>, r>> : v \in Eligible(tx),
                                    r \in DOMAIN RunesAfterEtching(tx, pos)}
      paid(k) == Received(tx, moves, k[1][2], k[2])
  IN balances' = [k \in kept \cup {n \in new : Credits(paid(n))} |->
                    IF k \in kept THEN balances[k] ELSE paid(k)]

-----------------------------------------------------------------------------
\* applyTx.
ApplyTx(tx, pos, ins) ==
  LET known == RunesAfterEtching(tx, pos) IN
    /\ at # None => Precedes(at, pos)
    /\ at' = pos
    /\ runes' = [r \in DOMAIN known |->
                   IF Mints(tx, pos, r, known) THEN Minted(known[r]) ELSE known[r]]
    /\ tickers' = IF Etches(tx, pos)
                  THEN [t \in DOMAIN tickers \cup {tx.etching.ticker} |->
                          IF t = tx.etching.ticker THEN pos ELSE tickers[t]]
                  ELSE tickers
    /\ allowlistMinted' =
         LET taken == {<<r, tx.proof>> : r \in {q \in DOMAIN known :
                         Mints(tx, pos, q, known) /\ known[q].gate # {}}}
         IN [k \in DOMAIN allowlistMinted \cup taken |->
               IF k \in taken THEN Plus(Used(k[1], k[2]), known[k[1]].terms.amount)
                              ELSE allowlistMinted[k]]
    /\ Transfers(tx, pos, ins)
    /\ burned' = [r \in Positions |->
         burned[r] + IF Eligible(tx) = {} THEN Held(ins, r) + Issued(tx, pos, r) ELSE 0]

\* The outpoints that carry something: spending another changes nothing here.
Carrying == {k[1] : k \in DOMAIN balances}

Next ==
  \E tx \in Transactions, pos \in Positions, ins \in SUBSET Carrying : ApplyTx(tx, pos, ins)

Spec == Init /\ [][Next]_vars

-----------------------------------------------------------------------------
(* What the protocol keeps.                                                 *)

Outstanding(ref) == Held({k[1] : k \in DOMAIN balances}, ref)

\* No unit is made or lost on the way: what the outputs hold, with what went into
\* transactions that had no output for it, is exactly what was etched and minted,
\* through any order of edicts, invalid messages and plain sends (indexer.js:11-13).
Conserved ==
  \A r \in DOMAIN runes :
    Outstanding(r) + burned[r] = runes[r].premine + runes[r].minted

\* An open mint ends by its own terms: never more mints than its cap, and never
\* more units, premine included, than the supply etched.  The bound is on what was
\* really handed out, count times amount, not on the counter the code compares
\* (indexer.js:302-303).
WithinCap ==
  \A r \in DOMAIN runes :
    runes[r].terms # None /\ runes[r].terms.cap # None => runes[r].mintCount <= runes[r].terms.cap
HandedOut(rune) ==
  rune.premine + IF rune.terms = None THEN 0 ELSE rune.mintCount * rune.terms.amount
\* spec/RUNES-SPEC-v0.md:90, on the supply: "total that may ever exist".
WithinSupply == \A r \in DOMAIN runes : HandedOut(runes[r]) <= runes[r].supply
TermsKept == WithinCap /\ WithinSupply

\* A name means one rune for ever, and a rune has one name: the two maps agree
\* although they are written apart and both are looked up before an etching counts.
NamesOneToOne ==
  /\ \A t \in DOMAIN tickers : runes[tickers[t]].ticker = t
  /\ \A r \in DOMAIN runes : runes[r].ticker \in DOMAIN tickers /\ tickers[runes[r].ticker] = r

\* A proof is an entitlement, not a door: an entry never takes more than its leaf
\* says, and whatever a gated rune minted was taken by entries of its own list.
WithinEntitlement ==
  \A k \in DOMAIN allowlistMinted :
    /\ runes[k[1]].gate # {} /\ k[2] \in runes[k[1]].gate
    /\ allowlistMinted[k] <= k[2][2]
Entitled ==
  /\ WithinEntitlement
  /\ \A r \in DOMAIN runes : runes[r].gate # {} =>
       runes[r].minted = MapThenSumSet(LAMBDA k : allowlistMinted[k],
                           {k \in DOMAIN allowlistMinted : k[1] = r})

-----------------------------------------------------------------------------
(* What the specification document says, and the code does not do.           *)

\* spec/RUNES-SPEC-v0.md:303: "A message is ignored in full (never partially applied)
\* if: ... an output index is out of range".  Ignored in full, it would leave
\* everything to the first eligible output.
OutOfRange(tx) ==
  Says(tx, "edicts") /\ \E i \in DOMAIN MessageOf(tx).edicts :
    MessageOf(tx).edicts[i].output >= Len(tx.outputs)
MessageWholeOrIgnored ==
  [][\A tx \in Transactions, pos \in Positions, ins \in SUBSET Carrying :
       ApplyTx(tx, pos, ins) /\ OutOfRange(tx) =>
         \A k \in DOMAIN balances' : k[1][1] = pos => Fallback(tx, k[1][2])]_vars
=============================================================================
