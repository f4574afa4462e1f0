---------------------------- MODULE IndexService ----------------------------
(***************************************************************************)
(* src/indexservice.js and src/reorg.js: one scan that follows the node's    *)
(* chain block by block, keeps the hashes it counted (the trail) and a few   *)
(* full copies of its state (the snapshots), and when the chain reorganises  *)
(* rewinds to a snapshot; with the recovery of syncIndex in src/server.js,   *)
(* which starts again from the first block when no snapshot will do.         *)
(*                                                                         *)
(* The two state machines the scan feeds are functions of the blocks they    *)
(* were fed, so their state is modelled as that sequence of blocks: `ledger`.*)
(* The scan gives up the thread at every call to the node, and the node's    *)
(* chain may have moved at every answer.  One action is one answer.          *)
(***************************************************************************)
EXTENDS Chains

CONSTANTS
  From,         \* first height indexed
  TrailDepth,   \* TRAIL_DEPTH
  Interval,     \* SNAPSHOT_INTERVAL
  Kept,         \* SNAPSHOTS_KEPT
  MaxRepairs,   \* MAX_REPAIRS
  MaxHeight,    \* bound: blocks from From on, on the node's chain
  MaxMoves,     \* bound: reorganisations of the node's chain
  MaxFaults,    \* bound: node calls that fail
  MaxRestarts   \* bound: restarts of the server

ASSUME IndexAssumption ==
  /\ From \in Nat /\ TrailDepth \in Nat /\ Interval \in Nat \ {0} /\ Kept \in Nat \ {0}
  /\ MaxRepairs \in Nat /\ MaxHeight \in Nat /\ MaxMoves \in Nat /\ MaxFaults \in Nat
  /\ MaxRestarts \in Nat

VARIABLES
  node,        \* the node's best chain, from From on
  ledger,      \* the blocks fed to the state machines, oldest first
  trail,       \* the trail: the hash counted, by height
  snapshots,   \* copies of the state, oldest first
  reorgs,      \* the counter reorgsRepaired of the status endpoint
  pc,          \* which answer sync() is waiting for
  height,      \* the height it asked about
  tip,         \* the block count it was told
  attempt,     \* repairs made in this sync
  synced,      \* the last sync returned normally
  agreed,      \* history: while it ran, the ledger was once the node's chain
  repaired,    \* history: repairs made since the server started
  moves, faults, restarts

index  == <<ledger, trail, snapshots, reorgs, repaired>>
scan   == <<pc, height, tip, attempt, synced>>
bounds == <<moves, faults, restarts>>
vars   == <<node, index, scan, agreed, bounds>>

\* Heights count from 1, the block at From.
Top == Len(ledger)
NoTrail == [h \in {} |-> <<>>]
Hash == UNION {[1..n -> Label] : n \in 0..MaxHeight}
Trails == UNION {[D -> Hash] : D \in SUBSET (1..MaxHeight)}
Copy == [ledger : Seq(Hash), trail : Trails, reorgs : Nat]

TypeOK ==
  /\ node \in Hash
  /\ ledger \in Seq(Hash) /\ Top <= MaxHeight
  /\ trail \in Trails
  /\ snapshots \in Seq(Copy) /\ Len(snapshots) <= Kept
  /\ reorgs \in Nat /\ repaired \in Nat
  /\ pc \in {"idle", "tip", "count", "fetch", "fork"}
  /\ height \in 0..MaxHeight /\ tip \in 0..MaxHeight /\ attempt \in 0..MaxRepairs
  /\ synced \in BOOLEAN /\ agreed \in BOOLEAN
  /\ moves \in 0..MaxMoves /\ faults \in 0..MaxFaults /\ restarts \in 0..MaxRestarts

Init ==
  /\ node = <<>>
  /\ ledger = <<>> /\ trail = NoTrail /\ snapshots = <<>> /\ reorgs = 0 /\ repaired = 0
  /\ pc = "idle" /\ height = 0 /\ tip = 0 /\ attempt = 0 /\ synced = FALSE
  /\ agreed = FALSE
  /\ moves = 0 /\ faults = 0 /\ restarts = 0

-----------------------------------------------------------------------------
(* The node.                                                                *)

NodeExtends ==
  /\ Len(node) < MaxHeight
  /\ \E l \in Label : node' = Append(node, l)
  /\ UNCHANGED <<index, scan, bounds>>

\* Blocks are replaced: the chain becomes longer, shorter or neither.
NodeReorgs ==
  /\ moves < MaxMoves
  /\ node' \in Hash
  /\ ~StartOf(node, node')
  /\ moves' = moves + 1
  /\ UNCHANGED <<index, scan, faults, restarts>>

\* The node does not answer: busy, restarting, timed out.
NodeSilent == faults < MaxFaults /\ faults' = faults + 1

-----------------------------------------------------------------------------
(* The trail and the snapshots.                                             *)

\* BlockTrail.record.
Record(t, h, b) ==
  [k \in {i \in DOMAIN t \cup {h} : i >= h - TrailDepth} |-> IF k = h THEN b ELSE t[k]]

\* BlockTrail.continues.
ContinuesAnything(h, b) == h <= Len(node)            \* (mutant: the hashes not compared)
Continues(h, b) == h - 1 \in DOMAIN trail => ParentOf(b) = trail[h - 1]

\* The node still has the block the trail holds at h.
HasSomeBlock(h) == h <= Len(node)                    \* (mutant: heights compared only)
SameBlock(h) == h <= Len(node) /\ BlockAt(node, h) = trail[h]

\* snapshot(): push a copy, drop the oldest when there are too many.
KeepAll(copies) == copies                            \* (mutant: SNAPSHOTS_KEPT ignored)
Keep(copies) == IF Len(copies) > Kept THEN Tail(copies) ELSE copies

\* applyBlock, as far as the scan is concerned.
Apply(b) ==
  /\ ledger' = Append(ledger, b)
  /\ trail' = Record(trail, Top + 1, b)
  /\ snapshots' = IF (From + Top) % Interval = 0
                  THEN Keep(Append(snapshots, [ledger |-> ledger', trail |-> trail',
                                               reorgs |-> reorgs]))
                  ELSE snapshots
  /\ UNCHANGED <<reorgs, repaired>>

\* The snapshots repair() may rewind to, and the one it takes: the last pushed.
Within(fork) == {i \in DOMAIN snapshots : Len(snapshots[i].ledger) <= fork}
PickedFirst(i, fork) == i \in Within(fork) /\ \A k \in Within(fork) : i <= k  \* (mutant: no reverse)
Picked(i, fork) == i \in Within(fork) /\ \A k \in Within(fork) : k <= i

\* (mutant: the trail not rewound with the state)
RestoreState(snap) == ledger' = snap.ledger /\ UNCHANGED trail

\* restore(snap.state): the counter in the copy, unless that is still 0.
Restore(snap) ==
  /\ ledger' = snap.ledger
  /\ trail' = snap.trail
CountRepair(snap) ==
  /\ reorgs' = (IF snap.reorgs = 0 THEN reorgs ELSE snap.reorgs) + 1
  /\ repaired' = repaired + 1

\* (mutant: the error logged, the index left as it is)
RebuildNothing == UNCHANGED <<ledger, trail>>

\* syncIndex, on ReorgTooDeep: restore the state of a new service.  The counter
\* and the snapshots of the old one stay.
Rebuild ==
  /\ ledger' = <<>>
  /\ trail' = NoTrail

-----------------------------------------------------------------------------
(* sync(): single-flight, so there is one scan and no other writer.          *)

\* The loop over the heights up to `tip` goes on, or the sync is over.
NextHeight(h, t) ==
  IF h <= t THEN pc' = "fetch" /\ height' = h /\ UNCHANGED synced
            ELSE pc' = "idle" /\ synced' = TRUE /\ UNCHANGED height

\* sync() throws: the caller's timer will call it again.
Throw == pc' = "idle" /\ UNCHANGED <<height, synced>>

SyncStart ==
  /\ pc = "idle"
  /\ pc' = "tip" /\ attempt' = 0 /\ synced' = FALSE
  /\ UNCHANGED <<node, index, height, tip, bounds>>

\* tipMoved: with nothing counted there is nothing to ask.  A call that fails
\* counts as a move.
CheckTip ==
  /\ pc = "tip"
  /\ \/ /\ ledger # <<>> => SameBlock(Top)
        /\ pc' = "count"
        /\ UNCHANGED <<height, faults>>
     \/ /\ ledger # <<>>
        /\ \/ ~SameBlock(Top) /\ UNCHANGED faults
           \/ NodeSilent
        /\ pc' = "fork" /\ height' = Top
  /\ UNCHANGED <<node, index, tip, attempt, synced, moves, restarts>>

GetCount ==
  /\ pc = "count"
  /\ \/ /\ tip' = Len(node)
        /\ NextHeight(Top + 1, tip')
        /\ UNCHANGED faults
     \/ NodeSilent /\ Throw /\ UNCHANGED tip
  /\ UNCHANGED <<node, index, attempt, moves, restarts>>

\* fetchDecodedBlock answers with the block the node had at `height` when it
\* was asked for the hash: it is applied, or it does not fit what was counted.
FetchBlock ==
  LET b == BlockAt(node, height) IN
    /\ pc = "fetch"
    /\ \/ /\ height <= Len(node) /\ Continues(height, b)
          /\ Apply(b)
          /\ NextHeight(height + 1, tip)
          /\ UNCHANGED faults
       \/ /\ height <= Len(node) /\ ~Continues(height, b)
          /\ pc' = "fork" /\ height' = height - 1
          /\ UNCHANGED <<index, faults, synced>>
       \/ /\ \/ height > Len(node) /\ UNCHANGED faults
             \/ NodeSilent
          /\ Throw
          /\ UNCHANGED index
    /\ UNCHANGED <<node, tip, attempt, moves, restarts>>

\* findFork, one height: the trail has no gaps, so a height it lacks is below
\* its oldest, and the fork is deeper than it can see.
NotFound ==
  /\ pc = "fork"
  /\ height \in DOMAIN trail /\ height <= Len(node) /\ ~SameBlock(height)
  /\ height' = height - 1
  /\ UNCHANGED <<node, index, pc, tip, attempt, synced, bounds>>

\* The last block both agree on is found: rewind, and go round again, unless
\* this was one repair too many.
Repair ==
  /\ pc = "fork"
  /\ height \in DOMAIN trail /\ SameBlock(height)
  /\ \E i \in DOMAIN snapshots :
       /\ Picked(i, height)
       /\ CountRepair(snapshots[i])
       /\ \/ /\ attempt < MaxRepairs
             /\ Restore(snapshots[i])
             /\ pc' = "tip" /\ attempt' = attempt + 1
          \/ /\ attempt = MaxRepairs
             /\ Rebuild
             /\ pc' = "idle" /\ UNCHANGED attempt
  /\ UNCHANGED <<node, snapshots, height, tip, synced, bounds>>

\* It cannot be found, or no snapshot is as old: ReorgTooDeep.
TooDeep ==
  /\ pc = "fork"
  /\ \/ height \notin DOMAIN trail /\ UNCHANGED faults
     \/ height \in DOMAIN trail /\ height > Len(node) /\ UNCHANGED faults
     \/ height \in DOMAIN trail /\ SameBlock(height) /\ Within(height) = {} /\ UNCHANGED faults
     \/ height \in DOMAIN trail /\ NodeSilent
  /\ Rebuild /\ Throw
  /\ UNCHANGED <<node, snapshots, reorgs, repaired, tip, attempt, moves, restarts>>

\* The process ends and a new one starts: nothing is persisted.
Restart ==
  /\ restarts < MaxRestarts /\ restarts' = restarts + 1
  /\ ledger' = <<>> /\ trail' = NoTrail /\ snapshots' = <<>> /\ reorgs' = 0 /\ repaired' = 0
  /\ pc' = "idle" /\ height' = 0 /\ tip' = 0 /\ attempt' = 0 /\ synced' = FALSE
  /\ UNCHANGED <<node, moves, faults>>

-----------------------------------------------------------------------------
Sync == SyncStart \/ CheckTip \/ GetCount \/ FetchBlock \/ NotFound \/ Repair \/ TooDeep

\* The history variable: reset when a sync starts, set whenever the ledger is
\* the start of the node's chain while it runs, cleared when the ledger changes.
Watch ==
  agreed' = IF pc = "idle"
            THEN IF pc' = "idle" THEN agreed ELSE Agrees(ledger', node')
            ELSE Agrees(ledger', node') \/ (agreed /\ ledger' = ledger)

Next == (NodeExtends \/ NodeReorgs \/ Sync \/ Restart) /\ Watch

\* A timer calls sync() every 30 seconds and every call to the node is answered,
\* or fails.  The node need not move.
Spec == Init /\ [][Next]_vars
FairSpec == Spec /\ WF_vars(Sync /\ Watch)

-----------------------------------------------------------------------------
(* What the index keeps.                                                    *)

\* The state is never a mixture of two forks: each block counted builds on the
\* one before it, and the trail holds the hashes of the last of exactly these
\* blocks, after any number of reorganisations, rewinds and rebuilds.
OneChain ==
  /\ Linked(ledger)
  /\ DOMAIN trail = {h \in 1..Top : h >= Top - TrailDepth}
  /\ \A h \in DOMAIN trail : trail[h] = ledger[h]

\* Whatever fork findFork may find, the snapshot repair() takes is a state this
\* very index went through on its way to where it stands, though copies made on
\* chains long abandoned are still in the list.
RewindsOnItsOwnChain ==
  \A fork \in DOMAIN trail, i \in DOMAIN snapshots :
    Picked(i, fork) => StartOf(snapshots[i].ledger, ledger)

\* When sync() returns, there was a moment while it ran at which the ledger was
\* exactly the node's chain up to the height it reached, also when the node
\* answered the tip, the count and each block from different chains.
FreshAnswer == synced => agreed

\* The index only ever counts the next block on top of the last, or forgets the
\* latest of those it counted.
Follower == INSTANCE ChainFollower WITH counted <- ledger
FollowsTheChain == Follower!Spec

\* Once the node's chain settles, the index ends at its tip, however deep the
\* reorganisations were and whatever the snapshots hold.
Converges == <>[](Top = Len(node) /\ Agrees(ledger, node))

-----------------------------------------------------------------------------
(* What comments say, and the code does not do.                             *)

\* reorg.js:18-19, on TRAIL_DEPTH: "How far back we keep hashes, and therefore the
\* deepest reorg that can be repaired without a full rebuild": a sync that finds a
\* block it still shares with the node within the trail does not start again.
RepairedWithinTrail ==
  [][pc = "fork" /\ ledger' = <<>> =>
       \A h \in DOMAIN trail : ~(h <= Len(node) /\ BlockAt(node, h) = trail[h])]_vars

\* indexservice.js:114, on `reorgs`: "how many were repaired, for the status endpoint".
ReorgsCounted == reorgs = repaired
=============================================================================
