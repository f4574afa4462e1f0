-------------------------- MODULE RuneTransactions --------------------------
(***************************************************************************)
(* What the rune protocol sees of a transaction of the chain: the etching in  *)
(* its inscription if it has one, the outputs and the message in one of them, *)
(* the fee and the allowlist proof its caller resolved.  Decoding (codec.js,  *)
(* scanner.js) is abstracted: a payload is the message it decodes to, or none. *)
(* A txid is the position the transaction has in the chain.                   *)
(***************************************************************************)
EXTENDS Naturals, Sequences

CONSTANTS
  Tickers,       \* legal names
  Owners,        \* the script keys an allowlist names
  Transactions,  \* the transactions that may be mined, but for their inputs
  Positions,     \* bound: where in the chain they may be mined
  Activation,    \* activationHeight
  Maturity,      \* etchMaturity
  Exact,         \* 2^53: every integer up to here is a double, and not every one above
  None

\* The reference of a rune, and a position of the chain: height and index.
Ref == Nat \X Nat
Precedes(p, q) == p[1] < q[1] \/ (p[1] = q[1] /\ p[2] < q[2])

\* An entry of an allowlist: who, and how much in all.  The merkle root of an
\* etching commits to a set of them; without one (the empty set) all may mint.
Leaf == Owners \X (Nat \ {0})
Terms == [amount : Nat, cap : Nat \cup {None}, open : Nat \cup {None},
          close : Nat \cup {None}, price : Nat]
Etching == [ticker : Tickers, supply : Nat, premine : Nat,
            terms : Terms \cup {None}, gate : SUBSET Leaf]

Edict == [ref : Ref, amount : Nat, output : Nat]
Mint == [type : {"mint"}, ref : Ref]
Transfer == [type : {"edicts"}, edicts : Seq(Edict)]
Checkpoint == [type : {"checkpoint"}]      \* moves nothing, but is the message
Message == Mint \cup Transfer \cup Checkpoint

\* An output that may hold runes, one below the dust limit, an OP_RETURN.
Output == [kind : {"coin", "dust", "opreturn"}, message : Message \cup {None}]

Transaction ==
  [etching : Etching \cup {None},
   locked : BOOLEAN,               \* its ticker's price is locked in this transaction
   outputs : Seq(Output),
   fee : Nat \cup {None},          \* None: the inputs could not be valued
   proof : Leaf \cup {None}]       \* the entry proven, whose key signs an input

ASSUME TransactionAssumption ==
  /\ Transactions \subseteq Transaction
  /\ Positions \subseteq Ref
  /\ Activation \in Nat /\ Maturity \in Nat /\ Exact \in Nat /\ Exact > 2
  /\ None \notin Positions /\ None \notin Etching /\ None \notin Terms
  /\ None \notin Nat /\ None \notin Leaf

\* Addition of doubles: above 2^53 only the even numbers are there, and a tie goes
\* to the multiple of 4.  (Bound: sums stay below 2^54.)
Plus(a, b) ==
  LET s == a + b IN
    IF s <= Exact \/ s % 2 = 0 THEN s ELSE IF s % 4 = 1 THEN s - 1 ELSE s + 1

\* The first output, in order, whose payload decodes.
Speaks(tx, i) ==
  /\ i \in DOMAIN tx.outputs /\ tx.outputs[i].message # None
  /\ \A k \in 1..(i - 1) : tx.outputs[k].message = None
Says(tx, type) ==
  \E i \in DOMAIN tx.outputs : Speaks(tx, i) /\ tx.outputs[i].message.type = type
MessageOf(tx) == tx.outputs[CHOOSE i \in DOMAIN tx.outputs : Speaks(tx, i)].message

\* Outputs are numbered from 0.
Eligible(tx) == {v \in 0..(Len(tx.outputs) - 1) : tx.outputs[v + 1].kind = "coin"}
=============================================================================
