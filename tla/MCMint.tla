------------------------------- MODULE MCMint -------------------------------
(***************************************************************************)
(* Instances, for TLC, of what a mint and an etching need besides              *)
(* MintPipeline: EtchJob, ParentTip, and the browser wallet that pays for them, *)
(* WalletCoins, WalletKeys and Line.  They share nothing but the node, so a        *)
(* behaviour picks a desk and moves what is on it.                             *)
(***************************************************************************)
EXTENDS EtchJob, ParentTip, WalletCoins, WalletKeys, Line

CONSTANTS p1, p2, m1, m2, ann, ben, frog, a1, a2, h1, h2, s1, Desks
VARIABLE desk

\* What the two wallets begin with: an inscription and runes to lose; runes spread over coins; many
\* small coins.
MCCoin(value, to, item, runes, time) ==
  [value |-> value, to |-> to, item |-> item, runes |-> [t \in Tokens |-> runes], time |-> time]
MCPurses ==
  {<<MCCoin(24000, ann, None, 0, 0), MCCoin(1500, ann, 0, 0, 0), MCCoin(1500, ann, None, 2, 0),
     MCCoin(500, ann, None, 0, 0), MCCoin(500, ann, None, 0, 1), MCCoin(24000, ben, None, 0, 0)>>,
   <<MCCoin(24000, ann, None, 0, 0), MCCoin(1500, ann, None, 1, 0), MCCoin(500, ann, None, 1, 1),
     MCCoin(6000, ben, None, 0, 0), MCCoin(3500, ben, 500, 0, 0), MCCoin(3000, ben, None, 1, 0)>>,
   <<MCCoin(1500, ann, 0, 0, 0), MCCoin(20000, ann, None, 0, 1)>>
     \o [k \in 1 .. 6 |-> MCCoin(1500, ben, None, 0, 0)]}

MCVars == <<etchVars, tipVars, purseVars, keysVars, lineVars, desk>>
Etch(step) == desk = "etch" /\ step /\ UNCHANGED <<tipVars, purseVars, keysVars, lineVars, desk>>
Tip(step) == desk = "tip" /\ step /\ UNCHANGED <<etchVars, purseVars, keysVars, lineVars, desk>>
Purse == desk = "purse" /\ PurseNext /\ UNCHANGED <<etchVars, tipVars, keysVars, lineVars, desk>>
Keys == desk = "keys" /\ KeysNext /\ UNCHANGED <<etchVars, tipVars, purseVars, lineVars, desk>>
Net == desk = "net" /\ LineNext /\ UNCHANGED <<etchVars, tipVars, purseVars, keysVars, desk>>

\* Whoever stands still has one beginning.
MCInit ==
  /\ desk \in Desks
  /\ EtchInit /\ TipInit /\ PurseInit /\ KeysInit /\ LineInit
  /\ desk # "purse" => purse = CHOOSE p \in Purses : TRUE
  /\ desk # "keys" => ~session /\ vault = CHOOSE r \in Ring : Cardinality(r.accounts) = 1
MCNext == Etch(EtchNext) \/ Tip(TipNext) \/ Purse \/ Keys \/ Net

\* The fairness of EtchFairSpec and of TipFairSpec, each on its desk.
MCSpec ==
  /\ MCInit /\ [][MCNext]_MCVars
  /\ \A r \in Requests : WF_MCVars(Etch(EtchStep(r)))
  /\ SF_MCVars(Etch(\E r \in Requests : Poll(r)))
  /\ SF_MCVars(Etch("self" \in splits /\ \E r \in Requests : Funded(r)))
  /\ \A n \in 1 .. MaxReveals : WF_MCVars(Tip(Mine(n)))
  /\ \A m \in Mints : WF_MCVars(Tip(Step(m))) /\ SF_MCVars(Tip(Take(m)))

\* CollectionGoesOn, where the tip moves.
MCGoesOn == desk = "tip" => CollectionGoesOn
=============================================================================
