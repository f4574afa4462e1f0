------------------------------ MODULE ParentTip ------------------------------
(***************************************************************************)
(* src/server.js, resolveParentTip and withParentLock: every reveal of the     *)
(* collection spends the one output that carries its root and makes the next.  *)
(* The reveals are chained in the mempool; what is on disk, what the node has  *)
(* and what the index knows drift apart.                                       *)
(*                                                                             *)
(* The carrier's outputs are numbered: reveal n spends one and makes output n. *)
(***************************************************************************)
EXTENDS Naturals, FiniteSets

CONSTANTS
  Mints,         \* drivers of parented mints, each until one is revealed
  ChainLimit,    \* unconfirmed reveals the node takes on top of each other
  MaxReveals, MaxFaults, MaxDrops, MaxCrashes

ASSUME TipAssumption == {ChainLimit, MaxReveals, MaxFaults, MaxDrops, MaxCrashes} \subseteq Nat

VARIABLES
  spends,        \* the node: for each reveal made, the output it spends
  alive,         \* the node: reveals in the mempool or in a block; 0 is the root's own
  mined,         \* the node: reveals in a block
  indexed,       \* the index: the output the root is on, by the blocks it has processed
  saved,         \* parent-tip.json: an output, or 0 before any: the root's
  holder,        \* parentLock: the mint whose turn it is
  stage,         \* what each mint is at
  tip,           \* the tip each mint holds
  faults, drops, crashes

tipChain == <<spends, alive, mined, indexed>>
tipVars  == <<tipChain, saved, holder, stage, tip, faults, drops, crashes>>

Output == 0 .. MaxReveals
Free == "free"
ASSUME NoMintIsFree == Free \notin Mints
Stage == {"waiting", "asksSaved", "asksIndex", "asksNode", "sending", "revealed"}

TipTypeOK ==
  /\ DOMAIN spends = 1 .. Cardinality(DOMAIN spends) /\ Cardinality(DOMAIN spends) <= MaxReveals
  /\ \A n \in DOMAIN spends : spends[n] \in 0 .. n - 1
  /\ alive \subseteq {0} \cup DOMAIN spends /\ mined \subseteq alive
  /\ indexed \in mined /\ saved \in Output
  /\ holder \in Mints \cup {Free}
  /\ stage \in [Mints -> Stage] /\ tip \in [Mints -> Output]
  /\ faults \in 0 .. MaxFaults /\ drops \in 0 .. MaxDrops /\ crashes \in 0 .. MaxCrashes

TipInit ==
  /\ spends = <<>> /\ alive = {0} /\ mined = {0} /\ indexed = 0 /\ saved = 0
  /\ holder = Free
  /\ stage = [m \in Mints |-> "waiting"] /\ tip = [m \in Mints |-> 0]
  /\ faults = 0 /\ drops = 0 /\ crashes = 0

\* An output is there and no transaction the node knows spends it.
Made(o) == o \in alive
Taken(o) == \E n \in alive \ {0} : spends[n] = o
IsUnspent(o) == Made(o) /\ ~Taken(o)

Fault == faults < MaxFaults /\ faults' = faults + 1
Fine == UNCHANGED faults
Go(m, s) == stage' = [stage EXCEPT ![m] = s]
Unlock == holder' = Free
LockFree(m) == TRUE                                       \* (mutant: nobody waits)
Lock(m) == holder = Free

-----------------------------------------------------------------------------
(* The node and the index.                                                  *)

Mine(n) ==
  /\ n \in alive \ mined /\ spends[n] \in mined
  /\ mined' = mined \cup {n}
  /\ UNCHANGED <<spends, alive, indexed, saved, holder, stage, tip, faults, drops, crashes>>

\* A reveal leaves the mempool, and all that were built on it with it.
Descendants(n) ==
  LET on[k \in Output] == k = n \/ (k > n /\ k \in DOMAIN spends /\ on[spends[k]])
  IN {k \in DOMAIN spends : on[k]}
Drop(n) ==
  /\ drops < MaxDrops /\ drops' = drops + 1
  /\ n \in alive \ mined /\ alive' = alive \ Descendants(n)
  /\ UNCHANGED <<spends, mined, indexed, saved, holder, stage, tip, faults, crashes>>

\* (mutant: the mempool is indexed too)
LastSent == CHOOSE n \in alive : \A k \in alive \ {0} : spends[k] # n
LastMined == CHOOSE n \in mined : \A k \in mined \ {0} : spends[k] # n

\* The promise chain of the lock and every driver are gone; the file stays.
TipCrash ==
  /\ crashes < MaxCrashes /\ crashes' = crashes + 1
  /\ holder' = Free
  /\ stage' = [m \in Mints |-> IF stage[m] = "revealed" THEN "revealed" ELSE "waiting"]
  /\ UNCHANGED <<tipChain, saved, tip, faults, drops>>

-----------------------------------------------------------------------------
(* A mint, from withParentLock on.                                          *)

Take(m) ==
  /\ stage[m] = "waiting" /\ Lock(m)
  /\ holder' = m /\ Go(m, "asksSaved") /\ tip' = [tip EXCEPT ![m] = saved]
  /\ UNCHANGED <<tipChain, saved, faults, drops, crashes>>

\* The mint is lost for its buyer (MintPipeline); the driver goes on to the next one.
KeepsLock(m) == Go(m, "waiting") /\ UNCHANGED holder      \* (mutant: the lock is not given up)
GivesUp(m) == Go(m, "waiting") /\ Unlock

\* gettxout on the saved tip; a call that fails reads as spent.
AskSaved(m) ==
  /\ stage[m] = "asksSaved"
  /\ \/ IsUnspent(tip[m]) /\ Fine /\ Go(m, "sending")
     \/ (IsUnspent(tip[m]) => Fault) /\ (~IsUnspent(tip[m]) => Fine) /\ Go(m, "asksIndex")
  /\ UNCHANGED <<tipChain, saved, holder, tip, drops, crashes>>

\* syncIndex, which may throw: the index goes through every block there is.
SyncIndex(m) ==
  /\ stage[m] = "asksIndex"
  /\ \/ /\ Fine /\ indexed' = LastMined
        /\ Go(m, "asksNode") /\ UNCHANGED holder
     \/ Fault /\ GivesUp(m) /\ UNCHANGED indexed
  /\ UNCHANGED <<spends, alive, mined, saved, tip, drops, crashes>>

\* The index's location of the root, if the node has it unspent; a call that fails reads as spent.
NodeHasIndexed(m) == IsUnspent(indexed)
AskIndexed(m) ==
  /\ stage[m] = "asksNode"
  /\ \/ /\ NodeHasIndexed(m) /\ Fine
        /\ saved' = indexed /\ tip' = [tip EXCEPT ![m] = indexed]
        /\ Go(m, "sending") /\ UNCHANGED holder
     \/ /\ (~NodeHasIndexed(m) /\ Fine) \/ Fault
        /\ GivesUp(m) /\ UNCHANGED <<saved, tip>>
  /\ UNCHANGED <<tipChain, drops, crashes>>

\* The reveal is sent; the file is written only once the node has accepted it.
New == Cardinality(DOMAIN spends) + 1
Accepts(o) == IsUnspent(o) /\ Cardinality(alive \ mined) < ChainLimit
SendReveal(m) ==
  /\ stage[m] = "sending"
  /\ \/ /\ Accepts(tip[m]) /\ New <= MaxReveals
        /\ spends' = [n \in 1 .. New |-> IF n = New THEN tip[m] ELSE spends[n]]
        /\ alive' = alive \cup {New}
        /\ \/ Fine /\ saved' = New /\ Go(m, "revealed") /\ Unlock
           \/ Fault /\ GivesUp(m) /\ UNCHANGED saved
     \/ /\ (~Accepts(tip[m]) /\ Fine) \/ Fault
        /\ GivesUp(m) /\ UNCHANGED <<spends, alive, saved>>
  /\ UNCHANGED <<mined, indexed, tip, drops, crashes>>

-----------------------------------------------------------------------------
Step(m) == AskSaved(m) \/ SyncIndex(m) \/ AskIndexed(m) \/ SendReveal(m)
TipNext ==
  \/ \E n \in 1 .. MaxReveals : Mine(n) \/ Drop(n)
  \/ TipCrash
  \/ \E m \in Mints : Take(m) \/ Step(m)
TipSpec == TipInit /\ [][TipNext]_tipVars

\* Blocks come; the node answers; the promise chain of the lock is first come, first served.
TipFairSpec ==
  /\ TipSpec
  /\ \A n \in 1 .. MaxReveals : WF_tipVars(Mine(n))
  /\ \A m \in Mints : WF_tipVars(Step(m)) /\ SF_tipVars(Take(m))

-----------------------------------------------------------------------------
(* Properties.                                                              *)

\* "concurrent mints can't both spend it" (server.js:923): a tip that is about to be spent is still
\* unspent, unless the node dropped a reveal under it.
SendsOnLiveTip ==
  drops = 0 => \A m \in Mints : stage[m] = "sending" => IsUnspent(tip[m])

\* "healing after a dropped/reorged reveal" (server.js:890): the saved tip goes back only when the
\* reveal that made it is gone from the node, never because a call failed or the index was behind.
TipNeverStepsBack == saved' < saved => saved \notin alive

\* No step builds a reveal on a tip that is not the collection's, or forgets one that is.
TipSound == []TipTypeOK /\ [][SendsOnLiveTip' /\ TipNeverStepsBack]_tipVars

\* The collection goes on: whatever answers are lost, reveals dropped and drivers killed, the tip is
\* found again once blocks come, and each driver gets a reveal accepted.
CollectionGoesOn == \A m \in Mints : <>(stage[m] = "revealed")
=============================================================================
