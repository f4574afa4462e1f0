------------------------------- MODULE Chains -------------------------------
(***************************************************************************)
(* Blocks and chains, for the modules that follow one.  A block hash commits *)
(* to every block before it, so a block is identified with its history: the  *)
(* sequence of labels from the first block indexed up to itself.  A node's   *)
(* chain is such a sequence, and the block at a height is a prefix of it.    *)
(***************************************************************************)
EXTENDS Integers, Sequences

CONSTANT Label      \* what tells two blocks with the same parent apart

Block == Seq(Label)

\* getBlockHash(h), and the block with that hash.
BlockAt(chain, h) == SubSeq(chain, 1, h)
\* previousblockhash.
ParentOf(b) == SubSeq(b, 1, Len(b) - 1)

\* Each of the blocks read builds on the one read before it.
Linked(blocks) == \A i \in 2..Len(blocks) : ParentOf(blocks[i]) = blocks[i - 1]

\* The blocks read so far are, at this moment, the start of the node's chain:
\* the last one is the node's block at that height (and they are linked).
Agrees(blocks, chain) ==
  blocks # <<>> =>
    /\ Len(blocks) <= Len(chain)
    /\ blocks[Len(blocks)] = BlockAt(chain, Len(blocks))

\* s is what t was, or t itself.
StartOf(s, t) == Len(s) <= Len(t) /\ \A i \in 1..Len(s) : s[i] = t[i]
=============================================================================
