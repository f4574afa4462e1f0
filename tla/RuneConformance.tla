--------------------------- MODULE RuneConformance ---------------------------
(***************************************************************************)
(* The two implementations of the rune protocol side by side: the indexer     *)
(* (RuneState) and the journal that is to check it (RuneJournal), fed the      *)
(* same transactions of the same chain.                                        *)
(***************************************************************************)
EXTENDS RuneState, RuneJournal

\* One transaction, applied by both to what each has.
BothInit == Init /\ JournalInit
BothNext ==
  \E tx \in Transactions, pos \in Positions, ins \in SUBSET Carrying :
    ApplyTx(tx, pos, ins) /\ JournalApply(tx, pos, ins)
BothSpec == BothInit /\ [][BothNext]_<<vars, journal>>

\* "Both implementations, over the same history, must commit to the same root"
\* (test/runes-conformance.test.js:39), which covers balances and registry: at every
\* height they agree on them, and on what mints and allowlist entries have used up.
BothAgree ==
  /\ records = balances
  /\ DOMAIN definitions = DOMAIN runes /\ tickerOwner = tickers
  /\ \A r \in DOMAIN runes :
       /\ definitions[r].ticker = runes[r].ticker /\ definitions[r].supply = runes[r].supply
       /\ issued[r].minted = runes[r].minted /\ issued[r].mintCount = runes[r].mintCount
  /\ gateUsed = allowlistMinted
=============================================================================
