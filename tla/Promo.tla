-------------------------------- MODULE Promo --------------------------------
(***************************************************************************)
(* src/promo.js and the places of src/server.js that use it: the first Limit   *)
(* mints are paid by the operator.  handleMint holds a slot, funds the deposit *)
(* from the promo wallet and flags the job; the driver confirms the slot, the  *)
(* reaper releases it.                                                         *)
(***************************************************************************)
EXTENDS Naturals, FiniteSets, Absent

CONSTANTS
  Jobs,
  Claimants, Ips,
  Limit, MaxPerAddr, MaxPerIp,
  MaxPromoFaults, MaxPromoCrashes

ASSUME PromoAssumption ==
  /\ IsFiniteSet(Jobs) /\ None \notin Claimants \X Ips
  /\ {Limit, MaxPerAddr, MaxPerIp, MaxPromoFaults, MaxPromoCrashes} \subseteq Nat

VARIABLES
  who,         \* address and IP of the one who asked for a job, None while there is no job
  claim,       \* promo.json: what is recorded of the slot of a job
  flagged,     \* job files: job.promo
  state,       \* job files: "open", "committed" (splitTxid is saved) or "done"
  deposit,     \* the node: what a deposit address has seen
  gifts,       \* the node: deposits paid from the promo wallet
  purse,       \* the node: the promo wallet's coin.  Each gift spends it and makes the next
  handler,     \* handleMint of each job: what it waits with
  driver,      \* drivePayout of each job
  reaper,      \* the job the reaper waits with and the copy it has, or None
  failures, restarts,
  misled       \* history: an answer was lost, or the reaper judged by a copy a driver overtook

slots == <<claim>>
files == <<flagged, state>>
node  == <<deposit, gifts, purse>>
promoVars == <<who, slots, files, node, handler, driver, reaper, failures, restarts, misled>>

Live(j) == claim[j] \in {"held", "confirmed"}
LiveJobs == {j \in Jobs : Live(j)}

NoHandler == [at |-> "none"]
Handler == {NoHandler, [at |-> "looking"]} \cup [at : {"funding"}, coin : 0 .. Cardinality(Jobs)]

PromoTypeOK ==
  /\ who \in [Jobs -> (Claimants \X Ips) \cup {None}]
  /\ claim \in [Jobs -> {"none", "held", "confirmed"}]
  /\ flagged \in [Jobs -> BOOLEAN] /\ state \in [Jobs -> {"open", "committed", "done"}]
  /\ deposit \in [Jobs -> {"empty", "paid", "spent"}]
  /\ gifts \subseteq Jobs /\ purse \in 0 .. Cardinality(Jobs)
  /\ handler \in [Jobs -> Handler]
  /\ driver \in [Jobs -> {"none", "commit", "reveal"}]
  /\ reaper \in {None} \cup (Jobs \X {"open", "committed"})
  /\ failures \in 0 .. MaxPromoFaults /\ restarts \in 0 .. MaxPromoCrashes
  /\ misled \in BOOLEAN

PromoInit ==
  /\ who = [j \in Jobs |-> None] /\ claim = [j \in Jobs |-> "none"]
  /\ flagged = [j \in Jobs |-> FALSE] /\ state = [j \in Jobs |-> "open"]
  /\ deposit = [j \in Jobs |-> "empty"] /\ gifts = {} /\ purse = 0
  /\ handler = [j \in Jobs |-> NoHandler] /\ driver = [j \in Jobs |-> "none"]
  /\ reaper = None /\ failures = 0 /\ restarts = 0 /\ misled = FALSE

Failure == failures < MaxPromoFaults /\ failures' = failures + 1
Well == UNCHANGED <<failures, misled>>
Refused == Failure /\ UNCHANGED misled
AnswerLost == Failure /\ misled' = TRUE

-----------------------------------------------------------------------------
(* handleMint.                                                              *)

\* eligible, which hold looks at again in the same breath.
PerAddr(a) == Cardinality({j \in LiveJobs : who[j][1] = a})
PerIp(i) == Cardinality({j \in LiveJobs : who[j][2] = i})
Eligible(w) ==
  /\ Cardinality(LiveJobs) < Limit
  /\ PerAddr(w[1]) < MaxPerAddr /\ PerIp(w[2]) < MaxPerIp

\* createPaymentJob is done; an eligible job takes a slot and goes to look for the wallet's coins.
Ask(j, w) ==
  /\ who[j] = None
  /\ who' = [who EXCEPT ![j] = w]
  /\ IF Eligible(w)
     THEN claim' = [claim EXCEPT ![j] = "held"] /\ handler' = [handler EXCEPT ![j] = [at |-> "looking"]]
     ELSE UNCHANGED <<claim, handler>>
  /\ UNCHANGED <<files, node, driver, reaper, failures, restarts, misled>>

Release(j) == claim' = [claim EXCEPT ![j] = "none"]
KeepSlot(j) == UNCHANGED claim                                 \* (mutant: not given back)
FundingFails(j) == Release(j)

\* listunspent of the promo wallet: handlers that look at the same time find the same coin.
Look(j) ==
  /\ handler[j].at = "looking"
  /\ \/ Well /\ handler' = [handler EXCEPT ![j] = [at |-> "funding", coin |-> purse]] /\ UNCHANGED claim
     \/ Refused /\ handler' = [handler EXCEPT ![j] = NoHandler] /\ FundingFails(j)
  /\ UNCHANGED <<who, files, node, driver, reaper, restarts>>

\* The gift; then job.promo is saved, in the step that gets the answer.
Fund(j) ==
  /\ handler[j].at = "funding"
  /\ \/ /\ handler[j].coin = purse
        /\ purse' = purse + 1 /\ gifts' = gifts \cup {j}
        /\ deposit' = [deposit EXCEPT ![j] = "paid"]
        /\ \/ Well /\ flagged' = [flagged EXCEPT ![j] = TRUE] /\ UNCHANGED claim
           \/ AnswerLost /\ FundingFails(j) /\ UNCHANGED flagged
     \/ /\ (handler[j].coin # purse /\ Well) \/ Refused
        /\ FundingFails(j) /\ UNCHANGED <<node, flagged>>
  /\ handler' = [handler EXCEPT ![j] = NoHandler]
  /\ UNCHANGED <<who, state, driver, reaper, restarts>>

-----------------------------------------------------------------------------
(* The minter, the driver, the reaper, a restart.                           *)

PaysItself(j) ==
  /\ who[j] # None /\ handler[j] = NoHandler /\ deposit[j] = "empty"
  /\ deposit' = [deposit EXCEPT ![j] = "paid"]
  /\ UNCHANGED <<who, claim, files, gifts, purse, handler, driver, reaper, failures, restarts, misled>>

Drive(j) ==
  /\ driver[j] = "none" /\ handler[j] = NoHandler /\ state[j] = "open" /\ deposit[j] = "paid"
  /\ driver' = [driver EXCEPT ![j] = "commit"]
  /\ UNCHANGED <<who, claim, files, node, handler, reaper, failures, restarts, misled>>

\* The commit takes the deposit.
Commit(j) ==
  /\ driver[j] = "commit"
  /\ \/ /\ deposit[j] = "paid" /\ deposit' = [deposit EXCEPT ![j] = "spent"]
        /\ Well /\ driver' = [driver EXCEPT ![j] = "reveal"]
     \/ Refused /\ driver' = [driver EXCEPT ![j] = "none"] /\ UNCHANGED deposit
  /\ UNCHANGED <<who, claim, files, gifts, purse, handler, reaper, restarts>>

\* The reveal: the job is done and its slot confirmed, or its file says how far it got.
ConfirmOf(j) == IF claim[j] = "none" THEN "none" ELSE "confirmed"
Reveal(j) ==
  /\ driver[j] = "reveal"
  /\ \/ /\ Well /\ state' = [state EXCEPT ![j] = "done"]
        /\ claim' = IF flagged[j] THEN [claim EXCEPT ![j] = ConfirmOf(j)] ELSE claim
     \/ Refused /\ state' = [state EXCEPT ![j] = "committed"] /\ UNCHANGED claim
  /\ driver' = [driver EXCEPT ![j] = "none"]
  /\ UNCHANGED <<who, flagged, node, handler, reaper, restarts>>

\* The reaper comes to an old reservation nobody is driving and asks for its deposit.
Reap(j) ==
  /\ reaper = None /\ who[j] # None /\ handler[j] = NoHandler
  /\ state[j] # "done" /\ driver[j] = "none"
  /\ reaper' = <<j, state[j]>>
  /\ UNCHANGED <<who, claim, files, node, handler, driver, failures, restarts, misled>>

Unpaid(c) == deposit[c[1]] # "paid" /\ c[2] # "committed"
ReapAnswer ==
  /\ reaper # None
  /\ LET j == reaper[1] IN
       /\ IF Unpaid(reaper) /\ flagged[j] THEN Release(j) ELSE UNCHANGED claim
       /\ misled' = (misled \/ (deposit[j] = "spent" /\ reaper[2] = "open"))
  /\ reaper' = None
  /\ UNCHANGED <<who, files, node, handler, driver, failures, restarts>>

Restart ==
  /\ restarts < MaxPromoCrashes /\ restarts' = restarts + 1
  /\ handler' = [j \in Jobs |-> NoHandler] /\ driver' = [j \in Jobs |-> "none"] /\ reaper' = None
  /\ UNCHANGED <<who, claim, files, node, failures, misled>>

PromoNext ==
  \/ \E j \in Jobs, w \in Claimants \X Ips : Ask(j, w)
  \/ \E j \in Jobs : Look(j) \/ Fund(j) \/ PaysItself(j)
  \/ \E j \in Jobs : Drive(j) \/ Commit(j) \/ Reveal(j) \/ Reap(j)
  \/ ReapAnswer \/ Restart
PromoSpec == PromoInit /\ [][PromoNext]_promoVars

-----------------------------------------------------------------------------
(* Properties.                                                              *)

\* "the first N Alpha Verginals mints are funded by the operator" (promo.js:3): the wallet pays for
\* no more than the limit, nor more than the caps for an address or an IP, unless an answer was lost
\* or the reaper judged by an old copy.
GiftsWithinLimit ==
  ~misled =>
    /\ Cardinality(gifts) <= Limit
    /\ \A w \in Claimants \X Ips :
         /\ Cardinality({j \in gifts : who[j][1] = w[1]}) <= MaxPerAddr
         /\ Cardinality({j \in gifts : who[j][2] = w[2]}) <= MaxPerIp

\* A slot nobody got a gift for is free again: "if its funding fails ... the slot returns to the
\* pool" (promo.js:13), unless the server stopped in between.
NoSlotWithoutGift ==
  restarts = 0 => \A j \in LiveJobs : j \in gifts \/ handler[j] # NoHandler

\* Slots and gifts: never more gifts than slots, never a slot kept for nothing.
SlotsSound == PromoTypeOK /\ GiftsWithinLimit /\ NoSlotWithoutGift
=============================================================================
