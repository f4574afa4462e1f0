---------------------------- MODULE ChainFollower ----------------------------
(***************************************************************************)
(* What an index of the chain promises, whatever the node's chain does: the  *)
(* blocks it has counted grow only by the block the node has next, on top of  *)
(* the last one counted, and shrink only by forgetting the latest of them.    *)
(***************************************************************************)
EXTENDS Chains

VARIABLES
  node,      \* the node's best chain
  counted    \* the blocks the index has counted, oldest first

Init == node \in Block /\ counted = <<>>

Move == node' \in Block /\ UNCHANGED counted

Read ==
  LET h == Len(counted) + 1 IN
    /\ h <= Len(node)
    /\ counted # <<>> => ParentOf(BlockAt(node, h)) = counted[h - 1]
    /\ counted' = Append(counted, BlockAt(node, h))
    /\ UNCHANGED node

Rewind == StartOf(counted', counted) /\ counted' \in Seq(Block) /\ UNCHANGED node

Next == Move \/ Read \/ Rewind
Spec == Init /\ [][Next]_<<node, counted>>
=============================================================================
