----------------------------- MODULE MCRuneState -----------------------------
(***************************************************************************)
(* Instances for TLC of the two implementations on the same transactions.     *)
(***************************************************************************)
EXTENDS RuneConformance

CONSTANTS frog, toad, alice, bob, none

A == <<1, 0>>
B == <<1, 1>>

Coin == [kind |-> "coin", message |-> None]
Dust == [kind |-> "dust", message |-> None]
Data == [kind |-> "opreturn", message |-> None]
Says1(m) == [kind |-> "opreturn", message |-> m]

Plain(outputs) ==
  [etching |-> None, locked |-> FALSE, outputs |-> outputs, fee |-> None, proof |-> None]
Etch(e, locked, outputs) == [Plain(outputs) EXCEPT !.etching = e, !.locked = locked]

OpenMint == [amount |-> 1, cap |-> 2, open |-> None, close |-> None, price |-> 0]
Priced   == [amount |-> 1, cap |-> None, open |-> 1, close |-> 3, price |-> 1]
Rune1(t, supply, premine, terms, gate) ==
  [ticker |-> t, supply |-> supply, premine |-> premine, terms |-> terms, gate |-> gate]

Frog    == Rune1(frog, 9, 3, OpenMint, {})
Frog2   == Rune1(frog, 2, 2, None, {})
Toad    == Rune1(toad, 2, 0, Priced, {<<alice, 2>>, <<bob, 1>>})
Illegal == Rune1(toad, 1, 2, None, {})

MintOf(r) == [type |-> "mint", ref |-> r]
Move(r, n, v) == [ref |-> r, amount |-> n, output |-> v]
Moves == {Move(A, 0, 1), Move(A, 1, 2), Move(A, 4, 1), Move(A, 1, 0), Move(B, 1, 2), Move(A, 1, 5)}
Edicts(s) == [type |-> "edicts", edicts |-> s]

Etchings ==
  {Etch(e, TRUE, <<Coin>>) : e \in {Frog, Frog2, Toad, Illegal}}
    \cup {Etch(Frog, FALSE, <<Coin>>), Etch(Frog, TRUE, <<Coin, Says1(MintOf(A))>>)}
Mints1 ==
  {[Plain(<<Says1(MintOf(r)), Coin>>) EXCEPT !.fee = f, !.proof = p] :
     r \in {A, B}, f \in {None, 1}, p \in {None, <<alice, 2>>, <<alice, 3>>, <<bob, 1>>}}
    \cup {Plain(<<Says1(MintOf(A))>>),
          Plain(<<Says1([type |-> "checkpoint"]), Says1(MintOf(A)), Coin>>)}
Transfers1 ==
  {Plain(<<Says1(Edicts(<<m>>)), Coin, Coin>>) : m \in Moves}
    \cup {Plain(<<Says1(Edicts(<<m, n>>)), Coin, Coin>>) : m \in Moves, n \in Moves}
    \cup {Plain(<<Says1(Edicts(<<m>>)), Dust>>) : m \in Moves}
    \cup {Plain(<<Data, Says1(Edicts(<<m>>)), Coin>>) : m \in Moves}

MCPositions == {<<0, 0>>, A, B, <<3, 0>>, <<3, 1>>, <<4, 0>>}
MCTransactions ==
  Etchings \cup Mints1 \cup Transfers1 \cup {Plain(<<Coin>>), Plain(<<Dust, Coin>>), Plain(<<Data>>)}

\* A supply of 2^53 units, all but one of them premined.
Large == Rune1(frog, Exact, Exact - 1, [OpenMint EXCEPT !.cap = None], {})
LargeTransactions == {Etch(Large, TRUE, <<Coin>>), Plain(<<Says1(MintOf(A)), Coin>>)}
=============================================================================
