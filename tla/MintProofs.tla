----------------------------- MODULE MintProofs -----------------------------
(***************************************************************************)
(* Theorems about EtchJob and ParentTip, for every set of requests and mints,  *)
(* and every number of reveals, failed calls, dropped transactions and crashes; *)
(* about WalletKeys, for every set of accounts, sites and messages at a time,   *)
(* and every number of messages and suspensions; about Line, for every number  *)
(* of servers, callers and calls; and about Tracer, for every set of ledgers   *)
(* and of walks at a time, every number of outputs a walk may visit, of blocks *)
(* and of coins asked about.                                                   *)
(***************************************************************************)
EXTENDS EtchJob, ParentTip, WalletKeys, Line, Tracer, DataInduction, TLAPS

-----------------------------------------------------------------------------
(* The etch job.                                                            *)

\* What a copy of the job file claims is so, on a chain with these splits, reveals, blocks and releases;
\* none claims a reveal without the split it spent.
Claims(j, split, revealed, onChain, released) ==
  /\ j.split # None => j.split \in split
  /\ j.reveal # None => j.reveal \in revealed /\ j.split # None
  /\ j.runeRef => j.reveal \in onChain
  /\ j.release => released # {}
True(j) == Claims(j, splits, reveals, etchMined, releases)

\* A handler holds a copy that is as old as its request, and acts on what it saw in it.
HeldTrue ==
  \A r \in Requests : request[r] # Idle =>
    LET j == request[r].job IN
      /\ True(j)
      /\ request[r].at \in {"unspent", "split", "reveal"} => j.reveal = None
      /\ request[r].at = "reveal" => j.split # None
      /\ request[r].at \in {"confirm", "commit", "release"} => j.reveal # None

\* Polls that drive have noticed each other, or there is one; and none is about to split once a split
\* has taken the deposit.
OneDrives == ~clashed => \A r, o \in Requests : Drives(r) /\ Drives(o) => r = o
SplitOnce ==
  etchDeposit = "spent" /\ ~lost /\ ~clashed => \A r \in Requests : request[r].at # "split"

EtchInv == EtchTypeOK /\ True(disk) /\ HeldTrue /\ NoLeakedDrive /\ OneDrives /\ SplitOnce /\ SplitRemembered

-----------------------------------------------------------------------------
\* A request is idle, or it has a stage and a whole copy of the file.
LEMMA Requested ==
  ASSUME EtchTypeOK, NEW r \in Requests
  PROVE  /\ request[r] = Idle <=> request[r].at = "idle"
         /\ request[r] # Idle => request[r].at \in EtchStage /\ request[r].job \in Job
  BY DEF EtchTypeOK, Request, Idle, EtchStage

\* What the handlers' assignments do to a copy.
LEMMA Edits ==
  ASSUME NEW j \in Job, NEW w \in Way, NEW status \in {"funding", "broadcast", "confirmed", "error"}
  PROVE  /\ [j EXCEPT !.split = w, !.status = status] \in Job
         /\ [j EXCEPT !.reveal = w, !.status = status] \in Job
         /\ [j EXCEPT !.runeRef = TRUE, !.status = status] \in Job
         /\ [j EXCEPT !.release = TRUE] \in Job
         /\ [j EXCEPT !.status = status] \in Job
  BY EtchAssumption DEF Job, Way

\* The chain only grows: what a copy claims stays so however old it gets.
LEMMA TrueStays ==
  [EtchNext]_etchVars => \A j \in Job : True(j) => Claims(j, splits', reveals', etchMined', releases')
<1> SUFFICES ASSUME [EtchNext]_etchVars, NEW j \in Job, True(j)
             PROVE  Claims(j, splits', reveals', etchMined', releases')
  OBVIOUS
<1>1. splits \subseteq splits' /\ reveals \subseteq reveals' /\ etchMined \subseteq etchMined'
      /\ releases \subseteq releases'
  BY DEF EtchNext, EtchStep, Pay, SelfSplit, MineEtch, EtchCrash, Poll, Confirm, DriveEtch, SendSplit,
         SendEtchReveal, Funded, CheckFunded, ReleaseEtch, SendCommit, SendRelease, etchVars, etchChain
<1> QED BY <1>1 DEF True, Claims

\* Writing to a copy what has just been done, or that something failed, leaves its claims true.
LEMMA Claimed ==
  ASSUME NEW j \in Job, NEW w \in Way, NEW status \in {"funding", "broadcast", "confirmed", "error"},
         NEW split, NEW revealed, NEW onChain, None \notin onChain, NEW released,
         Claims(j, split, revealed, onChain, released)
  PROVE  /\ Claims([j EXCEPT !.status = status], split, revealed, onChain, released)
         /\ w \in split => Claims([j EXCEPT !.split = w, !.status = status], split, revealed, onChain, released)
         /\ w \in revealed /\ j.split # None /\ j.reveal = None =>
              Claims([j EXCEPT !.reveal = w, !.status = status], split, revealed, onChain, released)
         /\ j.reveal \in onChain =>
              Claims([j EXCEPT !.runeRef = TRUE, !.status = status], split, revealed, onChain, released)
         /\ released # {} => Claims([j EXCEPT !.release = TRUE], split, revealed, onChain, released)
  BY EtchAssumption DEF Claims, Job, Way

\* What a handler leaves itself to wait with is a request again.
LEMMA PollWaits ==
  ASSUME EtchTypeOK, NEW r \in Requests
  PROVE  /\ Idle \in Request
         /\ Reply(r) => request' \in [Requests -> Request]
         /\ \A at \in EtchStage, j \in Job : Wait(r, at, j) => request' \in [Requests -> Request]
<1>1. Idle \in Request
  BY DEF Request
<1>2. \A at \in EtchStage, j \in Job : [at |-> at, job |-> j] \in Request
  BY DEF Request
<1> QED BY <1>1, <1>2 DEF EtchTypeOK, Reply, Wait

-----------------------------------------------------------------------------
\* Every variable keeps its type.
LEMMA TypeStep == EtchInv /\ [EtchNext]_etchVars => EtchTypeOK'
<1> SUFFICES ASSUME EtchInv, [EtchNext]_etchVars PROVE EtchTypeOK'
  OBVIOUS
<1>0. EtchTypeOK /\ \A at \in {"confirm", "unspent", "split", "reveal", "funded", "commit", "release"} :
                      at \in EtchStage
  BY DEF EtchInv, EtchStage
<1>1. etchFaults' \in 0 .. MaxEtchFaults /\ etchCrashes' \in 0 .. MaxEtchCrashes
  <2> USE <1>0, EtchAssumption DEF EtchTypeOK, etchChain, etchHistory, Works, Refuses, Lost, EtchFault
  <2>1. ASSUME NEW r \in Requests, EtchStep(r)
        PROVE  /\ UNCHANGED etchFaults \/ EtchFault
               /\ UNCHANGED etchCrashes
    BY <2>1 DEF EtchStep, Confirm, DriveEtch, SendSplit, SendEtchReveal, CheckFunded, SendCommit, SendRelease
  <2>2. ASSUME NEW r \in Requests, Poll(r) \/ Funded(r) \/ ReleaseEtch(r)
        PROVE  UNCHANGED <<etchFaults, etchCrashes>>
    BY <2>2 DEF Poll, Funded, ReleaseEtch
  <2>3. ASSUME Pay \/ SelfSplit \/ \E w \in Way : MineEtch(w) PROVE UNCHANGED <<etchFaults, etchCrashes>>
    BY <2>3 DEF Pay, SelfSplit, MineEtch
  <2> QED BY <2>1, <2>2, <2>3 DEF EtchNext, EtchCrash, etchVars
<1>2. driving' \in BOOLEAN /\ lost' \in BOOLEAN /\ clashed' \in BOOLEAN
  <2>1. driving' \in BOOLEAN
    BY <1>0 DEF EtchTypeOK, EtchNext, EtchStep, Pay, SelfSplit, MineEtch, EtchCrash, Poll, Confirm, DriveEtch,
         SendSplit, SendEtchReveal, Funded, CheckFunded, ReleaseEtch, SendCommit, SendRelease, etchVars, Errs, Leave
  <2>2. lost' \in BOOLEAN
    BY <1>0 DEF EtchTypeOK, EtchNext, EtchStep, Pay, SelfSplit, MineEtch, EtchCrash, Poll, Confirm, DriveEtch,
         SendSplit, SendEtchReveal, Funded, CheckFunded, ReleaseEtch, SendCommit, SendRelease, etchVars,
         etchHistory, Works, Refuses, Lost
  <2>3. clashed' \in BOOLEAN
    BY <1>0 DEF EtchTypeOK, EtchNext, EtchStep, Pay, SelfSplit, MineEtch, EtchCrash, Poll, Confirm, DriveEtch,
         SendSplit, SendEtchReveal, Funded, CheckFunded, ReleaseEtch, SendCommit, SendRelease, etchVars,
         etchHistory
  <2> QED BY <2>1, <2>2, <2>3
<1> DEFINE Chain == /\ etchDeposit \in {"empty", "paid", "spent"}
                    /\ splits \subseteq Way /\ reveals \subseteq Way /\ etchMined \subseteq Way
                    /\ commits \subseteq Way /\ releases \subseteq Way
           Files == disk \in Job /\ request \in [Requests -> Request]
<1>3. Chain' /\ Files'
  <2> USE <1>0, EtchAssumption DEF EtchTypeOK, etchChain
  <2>1. ASSUME Pay \/ SelfSplit PROVE Chain' /\ Files'
    BY <2>1 DEF Pay, SelfSplit, Way
  <2>2. ASSUME NEW w \in Way, MineEtch(w) PROVE Chain' /\ Files'
    BY <2>2 DEF MineEtch
  <2>3. ASSUME EtchCrash PROVE Chain' /\ Files'
    BY <2>3 DEF EtchCrash, Request
  <2>4. ASSUME NEW r \in Requests, Poll(r) \/ Funded(r) \/ ReleaseEtch(r) PROVE Chain' /\ Files'
    BY <2>4, PollWaits DEF Poll, Funded, ReleaseEtch
  <2>5. ASSUME NEW r \in Requests, EtchStep(r) PROVE Chain' /\ Files'
    <3> DEFINE j == request[r].job
    <3>0. j \in Job /\ request[r] # Idle
      BY <2>5, Requested DEF EtchStep, Confirm, DriveEtch, SendSplit, SendEtchReveal, CheckFunded,
                             SendCommit, SendRelease
    <3>1. CASE Confirm(r) \/ CheckFunded(r)
      BY <3>0, <3>1, PollWaits, Edits DEF Confirm, CheckFunded, Way
    <3>2. CASE DriveEtch(r)
      BY <3>0, <3>2, PollWaits DEF DriveEtch
    <3>3. CASE SendSplit(r)
      BY <3>0, <3>3, PollWaits, Edits DEF SendSplit, Errs, Leave, Way
    <3>4. CASE SendEtchReveal(r)
      <4>1. j.split \in Way => [j EXCEPT !.reveal = j.split, !.status = "broadcast"] \in Job
        BY <3>0, Edits
      <4>2. [j EXCEPT !.status = "error"] \in Job
        BY <3>0, Edits DEF Way
      <4>3. request' \in [Requests -> Request]
        BY <3>4, PollWaits DEF SendEtchReveal, Errs, Leave
      <4>4. disk' \in Job
        <5>1. CASE j.split \in splits
          BY <3>4, <4>1, <4>2, <5>1 DEF SendEtchReveal, Errs
        <5>2. CASE j.split \notin splits
          BY <3>4, <4>2, <5>2 DEF SendEtchReveal, Errs
        <5> QED BY <5>1, <5>2
      <4> QED BY <3>4, <4>3, <4>4 DEF SendEtchReveal
    <3>5. CASE SendCommit(r)
      BY <3>0, <3>5, PollWaits DEF SendCommit
    <3>6. CASE SendRelease(r)
      <4>1. j.split \in Way
        BY <3>0, <3>6 DEF SendRelease, EtchInv, HeldTrue, True, Claims
      <4> QED BY <3>0, <3>6, <4>1, PollWaits, Edits DEF SendRelease
    <3> QED BY <2>5, <3>1, <3>2, <3>3, <3>4, <3>5, <3>6 DEF EtchStep
  <2>6. CASE UNCHANGED etchVars
    BY <2>6 DEF etchVars
  <2> QED BY <2>1, <2>2, <2>3, <2>4, <2>5, <2>6 DEF EtchNext
<1> QED BY <1>1, <1>2, <1>3 DEF EtchTypeOK
-----------------------------------------------------------------------------
\* What is written back is true, although it may be older than the file it replaces.
LEMMA TruthStep == EtchInv /\ [EtchNext]_etchVars => True(disk)' /\ HeldTrue'
<1> SUFFICES ASSUME EtchInv, [EtchNext]_etchVars PROVE True(disk)' /\ HeldTrue'
  OBVIOUS
<1> DEFINE Later(j) == Claims(j, splits', reveals', etchMined', releases')
           Fits(at, j) == /\ at \in {"unspent", "split", "reveal"} => j.reveal = None
                          /\ at = "reveal" => j.split # None
                          /\ at \in {"confirm", "commit", "release"} => j.reveal # None
<1>0. EtchTypeOK /\ EtchTypeOK' /\ True(disk) /\ disk \in Job /\ request \in [Requests -> Request]
  BY TypeStep DEF EtchInv, EtchTypeOK
<1>1. /\ \A j \in Job : True(j) => Later(j)
      /\ True(disk)' <=> Later(disk')
      /\ Later(disk)
  BY <1>0, TrueStays DEF True
<1>2. \A r \in Requests : request[r] # Idle =>
        request[r].job \in Job /\ Later(request[r].job) /\ Fits(request[r].at, request[r].job)
  BY <1>0, <1>1, Requested DEF EtchInv, HeldTrue
<1>3. HeldTrue' <=> \A r \in Requests : request'[r] # Idle =>
                       Later(request'[r].job) /\ Fits(request'[r].at, request'[r].job)
  BY DEF HeldTrue, True
<1>w. None \notin etchMined' /\ \A at \in {"confirm", "unspent", "split", "reveal", "funded", "commit", "release"} :
                                   at \in EtchStage
  BY <1>0, EtchAssumption DEF EtchTypeOK, Way, EtchStage
<1> HIDE DEF Later, Fits
<1>4. ASSUME UNCHANGED <<disk, request>> PROVE Later(disk') /\ HeldTrue'
  BY <1>1, <1>2, <1>3, <1>4
<1>5. ASSUME EtchCrash PROVE Later(disk') /\ HeldTrue'
  BY <1>1, <1>3, <1>5 DEF EtchCrash
<1>r. ASSUME NEW r \in Requests, Reply(r) PROVE HeldTrue'
  BY <1>0, <1>2, <1>3, <1>r DEF Reply
<1>t. ASSUME NEW r \in Requests, NEW at, NEW k, Wait(r, at, k), Later(k), Fits(at, k) PROVE HeldTrue'
  BY <1>0, <1>2, <1>3, <1>t DEF Wait
<1>6. ASSUME NEW r \in Requests, Poll(r) \/ Funded(r) \/ ReleaseEtch(r) PROVE Later(disk') /\ HeldTrue'
  <2>1. disk' = disk
    BY <1>6 DEF Poll, Funded, ReleaseEtch
  <2>2. \E at \in EtchStage : Wait(r, at, disk) /\ Fits(at, disk)
    BY <1>w, <1>6 DEF Poll, Funded, ReleaseEtch, Fits
  <2> QED BY <1>1, <1>t, <2>1, <2>2
<1>7. ASSUME NEW r \in Requests, EtchStep(r) PROVE Later(disk') /\ HeldTrue'
  <2> DEFINE j == request[r].job
  <2>0. request[r] # Idle
    BY <1>0, <1>7, Requested DEF EtchStep, Confirm, DriveEtch, SendSplit, SendEtchReveal, CheckFunded,
                                 SendCommit, SendRelease
  <2>1. j \in Job /\ Later(j) /\ Fits(request[r].at, j)
    BY <1>2, <2>0
  <2>2. Later([j EXCEPT !.status = "error"])
    BY <1>w, <2>1, Claimed DEF Later, Way
  <2>3. CASE Confirm(r)
    <3>1. j.reveal \in etchMined' => Later([j EXCEPT !.runeRef = TRUE, !.status = "confirmed"])
      BY <1>w, <2>1, Claimed DEF Later, Way
    <3> QED BY <1>1, <1>r, <2>3, <3>1 DEF Confirm, etchChain
  <2>4. CASE CheckFunded(r)
    <3>1. "self" \in splits' => Later([j EXCEPT !.split = "self", !.status = "funding"])
      BY <1>w, <2>1, Claimed DEF Later, Way
    <3> QED BY <1>1, <1>r, <2>4, <3>1 DEF CheckFunded, SplitFound, etchChain
  <2>5. CASE DriveEtch(r)
    <3>1. Fits("split", j) /\ (j.split # None => Fits("reveal", j))
      BY <2>1, <2>5 DEF DriveEtch, Fits
    <3> QED BY <1>1, <1>r, <1>t, <2>1, <2>5, <3>1 DEF DriveEtch
  <2>6. CASE SendSplit(r)
    <3> DEFINE k == [j EXCEPT !.split = "own", !.status = "funding"]
    <3>1. "own" \in splits' => Later(k)
      BY <1>w, <2>1, Claimed DEF Later, Way
    <3>2. Fits("reveal", k)
      BY <2>1, <2>6, EtchAssumption DEF SendSplit, Fits, Job
    <3> HIDE DEF k
    <3>3. \/ "own" \in splits' /\ disk' = k /\ Wait(r, "reveal", k)
          \/ disk' = [j EXCEPT !.status = "error"] /\ Reply(r)
      BY <2>6 DEF SendSplit, Errs, Leave, k
    <3> QED BY <1>r, <1>t, <2>2, <3>1, <3>2, <3>3
  <2>7. CASE SendEtchReveal(r)
    <3> DEFINE k == [j EXCEPT !.reveal = j.split, !.status = "broadcast"]
    <3>1. j.split \in Way /\ j.split \in reveals' => Later(k)
      BY <1>w, <2>1, <2>7, Claimed DEF SendEtchReveal, Later, Fits, Way
    <3>2. j.split \in splits => j.split \in Way
      BY <1>0 DEF EtchTypeOK
    <3> HIDE DEF k
    <3>3. \/ j.split \in splits /\ j.split \in reveals' /\ disk' = k /\ Reply(r)
          \/ disk' = [j EXCEPT !.status = "error"] /\ Reply(r)
      BY <2>7 DEF SendEtchReveal, Errs, Leave, k
    <3> QED BY <1>r, <2>2, <3>1, <3>2, <3>3
  <2>8. CASE SendCommit(r)
    <3>1. Fits("release", j)
      BY <2>1, <2>8 DEF SendCommit, Fits
    <3> QED BY <1>1, <1>r, <1>t, <2>1, <2>8, <3>1 DEF SendCommit
  <2>9. CASE SendRelease(r)
    <3>1. releases' # {} => Later([j EXCEPT !.release = TRUE])
      BY <1>w, <2>1, Claimed DEF Later, Way
    <3> QED BY <1>1, <1>r, <2>9, <3>1 DEF SendRelease
  <2> QED BY <1>7, <2>3, <2>4, <2>5, <2>6, <2>7, <2>8, <2>9 DEF EtchStep
<1> QED BY <1>1, <1>4, <1>5, <1>6, <1>7 DEF EtchNext, Pay, SelfSplit, MineEtch, etchVars

-----------------------------------------------------------------------------
\* One poll drives, or the polls have noticed each other; and what drives leaves the job free.
LEMMA DriveStep == EtchInv /\ [EtchNext]_etchVars => NoLeakedDrive' /\ OneDrives'
<1> SUFFICES ASSUME EtchInv, [EtchNext]_etchVars PROVE NoLeakedDrive' /\ OneDrives'
  OBVIOUS
<1>0. EtchTypeOK /\ NoLeakedDrive /\ OneDrives /\ request \in [Requests -> Request]
      /\ clashed \in BOOLEAN /\ driving \in BOOLEAN
  BY DEF EtchInv, EtchTypeOK
<1> DEFINE D(r) == request[r].at \in {"split", "reveal"}
           E(r) == request'[r].at \in {"split", "reveal"}
<1>d. /\ NoLeakedDrive <=> (driving => \E r \in Requests : D(r))
      /\ NoLeakedDrive' <=> (driving' => \E r \in Requests : E(r))
      /\ OneDrives <=> (~clashed => \A r, o \in Requests : D(r) /\ D(o) => r = o)
      /\ OneDrives' <=> (~clashed' => \A r, o \in Requests : E(r) /\ E(o) => r = o)
  BY DEF NoLeakedDrive, OneDrives, Drives
<1>1. ASSUME UNCHANGED <<driving, request, clashed>> PROVE NoLeakedDrive' /\ OneDrives'
  BY <1>0, <1>d, <1>1
<1>2. ASSUME EtchCrash PROVE NoLeakedDrive' /\ OneDrives'
  <2>1. driving' = FALSE /\ \A r \in Requests : ~E(r)
    BY <1>2 DEF EtchCrash, Idle
  <2> HIDE DEF E
  <2> QED BY <1>d, <2>1
<1>3. ASSUME NEW r \in Requests, Poll(r) \/ Funded(r) \/ ReleaseEtch(r) \/ EtchStep(r)
      PROVE  NoLeakedDrive' /\ OneDrives'
  <2>1. \A o \in Requests \ {r} : E(o) <=> D(o)
    BY <1>0, <1>3 DEF Poll, Funded, ReleaseEtch, EtchStep, Confirm, DriveEtch, SendSplit, SendEtchReveal,
         CheckFunded, SendCommit, SendRelease, Errs, Leave, Reply, Wait
  <2>2. CASE Poll(r) \/ Funded(r) \/ ReleaseEtch(r) \/ Confirm(r) \/ CheckFunded(r) \/ SendCommit(r) \/ SendRelease(r)
    <3>1. driving' = driving /\ clashed' = clashed
      BY <2>2 DEF Poll, Funded, ReleaseEtch, Confirm, CheckFunded, SendCommit, SendRelease, etchHistory
    <3>2. ~D(r) /\ ~E(r)
      BY <1>0, <2>2 DEF Poll, Funded, ReleaseEtch, Confirm, CheckFunded, SendCommit, SendRelease, Reply, Wait, Idle
    <3> HIDE DEF D, E
    <3> QED BY <1>0, <1>d, <2>1, <3>1, <3>2
  <2>3. CASE DriveEtch(r)
    <3>1. ~D(r)
      BY <2>3 DEF DriveEtch
    <3>2. CASE IsPaid(request[r].job)
      <4>1. E(r)
        BY <1>0, <2>3, <3>2 DEF DriveEtch, Wait
      <4>2. clashed' = (clashed \/ \E o \in Requests \ {r} : D(o))
        BY <2>3, <3>2 DEF DriveEtch, Drives
      <4> HIDE DEF D, E
      <4> QED BY <1>0, <1>d, <2>1, <3>1, <4>1, <4>2
    <3>3. CASE ~IsPaid(request[r].job)
      <4>1. ~E(r) /\ driving' = driving /\ clashed' = clashed
        BY <1>0, <2>3, <3>3 DEF DriveEtch, Reply, Idle
      <4> HIDE DEF D, E
      <4> QED BY <1>0, <1>d, <2>1, <3>1, <4>1
    <3> QED BY <3>2, <3>3
  <2>4. CASE SendSplit(r) \/ SendEtchReveal(r)
    <3>1. D(r) /\ clashed' = clashed
      BY <2>4 DEF SendSplit, SendEtchReveal
    <3>2. E(r) \/ driving' = FALSE
      BY <1>0, <2>4 DEF SendSplit, SendEtchReveal, Errs, Leave, Wait
    <3> HIDE DEF D, E
    <3> QED BY <1>0, <1>d, <2>1, <3>1, <3>2
  <2> QED BY <1>3, <2>2, <2>3, <2>4 DEF EtchStep
<1> QED BY <1>1, <1>2, <1>3 DEF EtchNext, Pay, SelfSplit, MineEtch, etchVars, etchHistory

\* The split that takes the deposit is written down in the same step, or the answer was lost; and
\* none writes a copy without a split over it, for that one would have to be about to split.
LEMMA SplitStep == EtchInv /\ [EtchNext]_etchVars => SplitOnce' /\ SplitRemembered'
<1> SUFFICES ASSUME EtchInv, [EtchNext]_etchVars, etchDeposit' = "spent", ~lost', ~clashed'
             PROVE  /\ \A o \in Requests : request'[o].at # "split"
                    /\ disk'.split # None
  BY DEF SplitOnce, SplitRemembered
<1>0. EtchTypeOK /\ HeldTrue /\ OneDrives /\ SplitOnce /\ SplitRemembered /\ request \in [Requests -> Request]
      /\ disk \in Job
  BY DEF EtchInv, EtchTypeOK
<1>1. ~lost /\ ~clashed
  <2>1. ASSUME NEW r \in Requests, EtchStep(r) PROVE ~lost /\ ~clashed
    <3>1. lost' = lost \/ lost'
      BY <2>1 DEF EtchStep, Confirm, DriveEtch, SendSplit, SendEtchReveal, CheckFunded, SendCommit, SendRelease,
                  etchHistory, Works, Refuses, Lost
    <3>2. clashed => clashed'
      BY <2>1 DEF EtchStep, Confirm, DriveEtch, SendSplit, SendEtchReveal, CheckFunded, SendCommit, SendRelease,
                  etchHistory
    <3> QED BY <3>1, <3>2
  <2>2. ASSUME NEW r \in Requests, Poll(r) \/ Funded(r) \/ ReleaseEtch(r) PROVE ~lost /\ ~clashed
    BY <2>2 DEF Poll, Funded, ReleaseEtch, etchHistory
  <2>3. ASSUME Pay \/ SelfSplit \/ EtchCrash \/ \E w \in Way : MineEtch(w) PROVE ~lost /\ ~clashed
    BY <2>3 DEF Pay, SelfSplit, EtchCrash, MineEtch, etchHistory
  <2> QED BY <2>1, <2>2, <2>3 DEF EtchNext, etchVars, etchHistory
<1>2. ASSUME UNCHANGED <<etchDeposit, disk, request>> PROVE disk'.split # None /\ \A o \in Requests : request'[o].at # "split"
  BY <1>0, <1>1, <1>2 DEF SplitOnce, SplitRemembered
<1>3. ASSUME SelfSplit \/ (\E w \in Way : MineEtch(w)) PROVE UNCHANGED <<etchDeposit, disk, request>>
  BY <1>3 DEF SelfSplit, MineEtch
<1>4. ASSUME EtchCrash PROVE disk'.split # None /\ \A o \in Requests : request'[o].at # "split"
  BY <1>0, <1>1, <1>4 DEF EtchCrash, SplitRemembered, etchChain, Idle
<1>5. ASSUME NEW r \in Requests, Poll(r) \/ Funded(r) \/ ReleaseEtch(r) \/ EtchStep(r)
      PROVE  disk'.split # None /\ \A o \in Requests : request'[o].at # "split"
  <2> DEFINE j == request[r].job
  <2>1. \A o \in Requests \ {r} : request'[o] = request[o]
    BY <1>0, <1>5 DEF Poll, Funded, ReleaseEtch, EtchStep, Confirm, DriveEtch, SendSplit, SendEtchReveal,
         CheckFunded, SendCommit, SendRelease, Errs, Leave, Reply, Wait
  <2>2. ASSUME etchDeposit = "spent" PROVE disk.split # None /\ \A o \in Requests : request[o].at # "split"
    BY <1>0, <1>1, <2>2 DEF SplitOnce, SplitRemembered
  <2>3. CASE Poll(r) \/ Funded(r) \/ ReleaseEtch(r)
    <3>1. etchDeposit' = etchDeposit /\ disk' = disk /\ request'[r].at # "split"
      BY <1>0, <2>3 DEF Poll, Funded, ReleaseEtch, etchChain, Wait
    <3> QED BY <2>1, <2>2, <3>1
  <2>4. CASE EtchStep(r)
    <3>0. request[r] # Idle /\ j \in Job
      BY <1>0, <2>4, Requested DEF EtchStep, Confirm, DriveEtch, SendSplit, SendEtchReveal, CheckFunded,
                                   SendCommit, SendRelease
    <3>1. request[r].at \in {"reveal", "confirm", "commit", "release"} => j.split # None
      BY <1>0, <3>0 DEF HeldTrue, True, Claims
    <3>2. CASE Confirm(r)
      <4>1. etchDeposit' = etchDeposit /\ request'[r].at # "split"
            /\ (disk' = disk \/ disk' = [j EXCEPT !.runeRef = TRUE, !.status = "confirmed"])
        BY <1>0, <3>2 DEF Confirm, Reply, Idle, etchChain
      <4>2. [j EXCEPT !.runeRef = TRUE, !.status = "confirmed"].split = j.split
        BY <3>0 DEF Job
      <4> QED BY <2>1, <2>2, <3>1, <3>2, <4>1, <4>2 DEF Confirm
    <3>3. CASE CheckFunded(r)
      <4>1. etchDeposit' = etchDeposit /\ request'[r].at # "split"
            /\ (disk' = disk \/ disk' = [j EXCEPT !.split = "self", !.status = "funding"])
        BY <1>0, <3>3 DEF CheckFunded, Reply, Idle, etchChain
      <4>2. [j EXCEPT !.split = "self", !.status = "funding"].split # None
        BY <3>0, EtchAssumption DEF Job
      <4> QED BY <2>1, <2>2, <4>1, <4>2
    <3>4. CASE DriveEtch(r)
      <4>1. etchDeposit' = etchDeposit /\ disk' = disk
        BY <3>4 DEF DriveEtch, etchChain
      <4>2. request'[r].at # "split"
        BY <1>0, <3>4, <4>1 DEF DriveEtch, IsPaid, Wait, Reply, Idle
      <4> QED BY <2>1, <2>2, <4>1, <4>2
    <3>5. CASE SendSplit(r)
      <4>1. etchDeposit = "paid" /\ disk' = [j EXCEPT !.split = "own", !.status = "funding"]
            /\ Wait(r, "reveal", [j EXCEPT !.split = "own", !.status = "funding"])
        BY <2>2, <3>5 DEF SendSplit, Lost
      <4>2. disk'.split # None
        BY <3>0, <4>1, EtchAssumption DEF Job
      <4>3. request'[r].at # "split"
        BY <1>0, <4>1 DEF Wait
      <4>4. \A o \in Requests \ {r} : request[o].at # "split"
        BY <1>0, <1>1, <3>5 DEF SendSplit, OneDrives, Drives
      <4> QED BY <2>1, <4>2, <4>3, <4>4
    <3>6. CASE SendEtchReveal(r)
      <4>1. etchDeposit' = etchDeposit /\ request'[r] = Idle
        BY <1>0, <3>6 DEF SendEtchReveal, Errs, Leave, Reply
      <4>2. disk'.split = j.split
        <5>1. \/ disk' = [j EXCEPT !.status = "error"]
              \/ disk' = [j EXCEPT !.reveal = j.split, !.status = "broadcast"]
          BY <3>6 DEF SendEtchReveal, Errs
        <5> QED BY <3>0, <5>1 DEF Job
      <4> QED BY <2>1, <2>2, <3>1, <3>6, <4>1, <4>2 DEF SendEtchReveal, Idle
    <3>7. CASE SendCommit(r)
      <4>1. etchDeposit' = etchDeposit /\ disk' = disk /\ request'[r].at # "split"
        BY <1>0, <3>7 DEF SendCommit, Reply, Wait, Idle
      <4> QED BY <2>1, <2>2, <4>1
    <3>8. CASE SendRelease(r)
      <4>1. etchDeposit' = etchDeposit /\ request'[r].at # "split"
            /\ (disk' = disk \/ disk' = [j EXCEPT !.release = TRUE])
        BY <1>0, <3>8 DEF SendRelease, Reply, Idle
      <4>2. [j EXCEPT !.release = TRUE].split = j.split
        BY <3>0 DEF Job
      <4> QED BY <2>1, <2>2, <3>1, <3>8, <4>1, <4>2 DEF SendRelease
    <3> QED BY <2>4, <3>2, <3>3, <3>4, <3>5, <3>6, <3>7, <3>8 DEF EtchStep
  <2> QED BY <1>5, <2>3, <2>4
<1>6. ~Pay
  BY DEF Pay
<1> QED BY <1>2, <1>3, <1>4, <1>5, <1>6 DEF EtchNext, etchVars, etchChain

\* The job starts unpaid, with an empty file and no handler.
LEMMA EtchStart == EtchInit => EtchInv
<1> SUFFICES ASSUME EtchInit PROVE EtchInv
  OBVIOUS
<1>1. EtchTypeOK
  <2>1. etchFaults \in 0 .. MaxEtchFaults /\ etchCrashes \in 0 .. MaxEtchCrashes
    BY EtchAssumption DEF EtchInit
  <2>2. disk \in Job
    BY DEF EtchInit, NewJob, Job
  <2>3. request \in [Requests -> Request]
    BY DEF EtchInit, Request
  <2> QED BY <2>1, <2>2, <2>3 DEF EtchInit, EtchTypeOK
<1>2. True(disk)
  BY DEF EtchInit, NewJob, True, Claims
<1>3. \A r \in Requests : request[r] = Idle
  BY DEF EtchInit
<1>4. HeldTrue
  BY <1>3 DEF HeldTrue
<1>5. NoLeakedDrive /\ SplitOnce /\ SplitRemembered
  BY DEF EtchInit, NoLeakedDrive, SplitOnce, SplitRemembered
<1>6. OneDrives
  BY <1>3 DEF OneDrives, Drives, Idle
<1> QED BY <1>1, <1>2, <1>4, <1>5, <1>6 DEF EtchInv

\* The inductive invariant of an etching: the file and every copy of it are true, one poll drives or
\* the polls clashed, and the split that took the deposit is known.
THEOREM EtchInvariant == EtchSpec => []EtchInv
<1>1. EtchInv /\ [EtchNext]_etchVars => EtchInv'
  BY TypeStep, TruthStep, DriveStep, SplitStep DEF EtchInv
<1> QED BY EtchStart, <1>1, PTL DEF EtchSpec

\* handleRuneEtchStatus, driveEtch and the release: a job file can be trusted and a poll can go on
\* from it, whatever handlers, crashes and faults of the node come between.
THEOREM JobCorrect == EtchSpec => []JobSound
<1>1. EtchInv => JobSound
  BY DEF EtchInv, JobSound, True, Claims, FileTellsTruth
<1> QED BY <1>1, EtchInvariant, PTL

-----------------------------------------------------------------------------
(* The parent's tip.                                                        *)

\* Reveals that the node has are chained: each spends the last before it, and blocks hold the first of them.
Linked ==
  /\ Cardinality(DOMAIN spends) \in Nat /\ 0 \in alive /\ 0 \in mined
  /\ \A n \in alive \ {0} : spends[n] \in alive /\ \A k \in alive : ~(spends[n] < k /\ k < n)
  /\ \A n \in mined \ {0} : spends[n] \in mined
\* Who is at work on a reveal has the lock.
OneHolds ==
  \A m \in Mints : stage[m] \in {"asksSaved", "asksIndex", "asksNode", "sending"} => holder = m
TipInv == TipTypeOK /\ Linked /\ OneHolds /\ SendsOnLiveTip

\* What the node has are outputs, and each but the root spends one before it.
LEMMA Outputs ==
  ASSUME TipTypeOK, Linked
  PROVE  /\ MaxReveals \in Nat /\ alive \in SUBSET Nat /\ alive \in SUBSET Output /\ mined \in SUBSET alive
         /\ Cardinality(DOMAIN spends) \in 0 .. MaxReveals /\ DOMAIN spends = 1 .. Cardinality(DOMAIN spends)
         /\ \A n \in DOMAIN spends : spends[n] \in Nat /\ spends[n] < n
         /\ alive \ {0} \in SUBSET (DOMAIN spends)
<1> DEFINE D == Cardinality(DOMAIN spends)
<1>1. MaxReveals \in Nat
  BY TipAssumption
<1>2. D \in Nat /\ D <= MaxReveals /\ DOMAIN spends = 1 .. D
  BY DEF TipTypeOK, Linked
<1>3. /\ \A n \in DOMAIN spends : spends[n] \in 0 .. n - 1
      /\ alive \subseteq {0} \cup DOMAIN spends /\ mined \subseteq alive
  BY DEF TipTypeOK
<1> HIDE DEF D
<1>4. \A n \in DOMAIN spends : n \in Nat /\ n <= MaxReveals
  BY <1>1, <1>2
<1>5. \A n \in DOMAIN spends : spends[n] \in Nat /\ spends[n] < n
  BY <1>3, <1>4
<1>6. alive \in SUBSET Nat /\ alive \in SUBSET Output
  BY <1>1, <1>3, <1>4 DEF Output
<1> QED BY <1>1, <1>2, <1>3, <1>5, <1>6 DEF D

\* The output that is unspent is the last one made.
LEMMA UnspentIsLast ==
  ASSUME TipTypeOK, Linked, NEW o, IsUnspent(o)
  PROVE  o \in alive /\ \A k \in alive : k <= o
<1>1. o \in alive /\ alive \in SUBSET Nat /\ \A n \in alive \ {0} : spends[n] # o /\ spends[n] \in Nat /\ spends[n] < n
  BY Outputs DEF IsUnspent, Made, Taken
<1>2. SUFFICES ASSUME {k \in alive : k > o} # {} PROVE FALSE
  BY <1>1
<1>3. PICK n \in {k \in alive : k > o} : \A m \in {k \in alive : k > o} : n <= m
  <2>1. {k \in alive : k > o} \in SUBSET Nat
    BY <1>1
  <2> QED BY <1>2, <2>1, Least
<1>4. n \in alive \ {0} /\ n > o /\ n \in Nat /\ o \in Nat
  BY <1>1, <1>3
<1>5. spends[n] \in alive /\ ~(spends[n] < o)
  BY <1>1, <1>4 DEF Linked
<1>6. spends[n] > o
  BY <1>1, <1>4, <1>5
<1> QED BY <1>1, <1>3, <1>4, <1>5, <1>6

\* What goes with a reveal: the reveal, what spends it, and nothing made before it.
LEMMA DescendantsAre ==
  ASSUME TipTypeOK, Linked, NEW n \in alive \ {0}
  PROVE  /\ n \in Descendants(n) /\ \A k \in Descendants(n) : k >= n /\ (k # n => spends[k] \in Descendants(n))
         /\ \A k \in DOMAIN spends : k > n /\ spends[k] \in Descendants(n) => k \in Descendants(n)
<1> DEFINE Built(D) == n \in D /\ \A k \in DOMAIN spends : k > n /\ spends[k] \in D => k \in D
           All == {D \in SUBSET Output : Built(D)}
           Least0 == {k \in Output : \A D \in All : k \in D}
           Right(f) == f = [k \in Output |-> k = n \/ (k > n /\ k \in DOMAIN spends /\ f[spends[k]])]
           on == [k \in Output |-> k \in Least0]
<1>0. /\ n \in Nat /\ n \in Output /\ n \in DOMAIN spends /\ Output \in SUBSET Nat
      /\ \A k \in DOMAIN spends : spends[k] \in Output /\ k \in Output /\ spends[k] \in Nat /\ spends[k] < k
  <2>1. DOMAIN spends \in SUBSET Output /\ Output \in SUBSET Nat
    BY Outputs DEF Output
  <2>2. \A k \in DOMAIN spends : spends[k] \in Output
    BY Outputs, <2>1 DEF Output
  <2> QED BY Outputs, <2>1, <2>2
<1>1. Least0 \in All
  <2>1. Output \in All
    BY <1>0
  <2> QED BY <1>0, <2>1
<1>2. ASSUME NEW k \in Output, k \in Least0, k # n
      PROVE  k > n /\ k \in DOMAIN spends /\ spends[k] \in Least0
  <2> SUFFICES ASSUME ~(k > n /\ k \in DOMAIN spends /\ spends[k] \in Least0) PROVE FALSE
    OBVIOUS
  <2>1. Least0 \ {k} \in All
    <3>1. Least0 \in SUBSET Output /\ Built(Least0)
      BY <1>1
    <3> HIDE DEF Least0
    <3>2. Built(Least0 \ {k})
      BY <1>2, <3>1
    <3> QED BY <3>1, <3>2
  <2> HIDE DEF All
  <2> QED BY <1>2, <2>1
<1>3. Right(on)
  <2>1. \A k \in Output : (k \in Least0) <=> (k = n \/ (k > n /\ k \in DOMAIN spends /\ on[spends[k]]))
    <3>1. Built(Least0)
      BY <1>1
    <3> HIDE DEF Least0
    <3> QED BY <1>0, <1>2, <3>1
  <2> HIDE DEF Least0
  <2> QED BY <2>1
<1>4. PICK f : Right(f) /\ Descendants(n) = {k \in DOMAIN spends : f[k]}
  <2> DEFINE g == CHOOSE f : Right(f)
  <2>1. Right(g)
    <3> HIDE DEF on, Right
    <3> QED BY <1>3
  <2>2. Descendants(n) = {k \in DOMAIN spends : g[k]}
    BY DEF Descendants
  <2> HIDE DEF g
  <2> QED BY <2>1, <2>2
<1>5. \A k \in DOMAIN spends : f[k] <=> (k = n \/ (k > n /\ f[spends[k]]))
  BY <1>0, <1>4
<1> HIDE DEF Right
<1>6. Descendants(n) = {k \in DOMAIN spends : f[k]}
  BY <1>4
<1>7. \A k \in DOMAIN spends : k > n /\ f[k] => spends[k] \in DOMAIN spends
  <2> SUFFICES ASSUME NEW k \in DOMAIN spends, k > n, f[k] PROVE spends[k] \in DOMAIN spends
    OBVIOUS
  <2>1. f[spends[k]]
    BY <1>0, <1>5
  <2> QED BY <1>0, <1>4, <1>5, <2>1 DEF Right
<1>8. Descendants(n) \in SUBSET (DOMAIN spends) /\ n \in Descendants(n)
  BY <1>0, <1>5, <1>6
<1>9. ASSUME NEW k \in Descendants(n) PROVE k >= n /\ (k # n => spends[k] \in Descendants(n))
  <2>1. k \in DOMAIN spends /\ f[k]
    BY <1>6
  <2>2. k = n \/ (k > n /\ f[spends[k]])
    BY <1>5, <2>1
  <2>3. k > n => spends[k] \in DOMAIN spends
    BY <1>7, <2>1
  <2>4. k # n => spends[k] \in Descendants(n)
    BY <1>6, <2>2, <2>3
  <2>5. k = n \/ k > n
    BY <2>2
  <2>6. k \in Nat /\ n \in Nat
    BY <1>0, <2>1
  <2> QED BY <2>4, <2>5, <2>6
<1>10. ASSUME NEW k \in DOMAIN spends, k > n, spends[k] \in Descendants(n) PROVE k \in Descendants(n)
  BY <1>5, <1>6, <1>10
<1> QED BY <1>8, <1>9, <1>10

\* The first of a chain that has no last is not there: what is in a block is not among what was built on
\* something that is not.
LEMMA MinedStay ==
  ASSUME TipTypeOK, Linked, NEW n \in alive \ mined
  PROVE  mined \cap Descendants(n) = {}
<1> SUFFICES ASSUME mined \cap Descendants(n) # {} PROVE FALSE
  OBVIOUS
<1>1. mined \in SUBSET Nat /\ n \in alive \ {0} /\ 0 \in mined
  BY Outputs DEF Linked
<1>2. PICK k \in mined \cap Descendants(n) : \A m \in mined \cap Descendants(n) : k <= m
  <2>1. mined \cap Descendants(n) \in SUBSET Nat
    BY <1>1
  <2> QED BY <2>1, Least
<1>3. k \in alive \ {0} /\ spends[k] \in Nat /\ spends[k] < k /\ k \in Nat
  <2>1. k >= n /\ n \in Nat /\ n # 0
    BY <1>1, <1>2, DescendantsAre, Outputs
  <2>2. k \in alive \ {0}
    BY <1>1, <1>2, <2>1, Outputs
  <2> QED BY <2>2, Outputs
<1>4. spends[k] \in mined \cap Descendants(n)
  BY <1>1, <1>2, <1>3, DescendantsAre DEF Linked
<1> QED BY <1>1, <1>2, <1>3, <1>4

\* The last reveal in a block is one.
LEMMA LastMinedIs == ASSUME TipTypeOK, Linked PROVE LastMined \in mined
<1>1. \E n \in mined : \A k \in mined \ {0} : spends[k] # n
  <2>1. mined \in SUBSET (0 .. MaxReveals) /\ mined # {} /\ MaxReveals \in Nat
    BY Outputs DEF Linked, Output
  <2>2. Max(mined) \in mined /\ \A k \in mined : Max(mined) >= k
    BY <2>1, Greatest
  <2>3. \A k \in mined \ {0} : spends[k] \in Nat /\ spends[k] < k /\ k \in Nat
    BY <2>1, Outputs
  <2> DEFINE latest == Max(mined)
  <2> HIDE DEF latest
  <2>4. latest \in mined /\ \A k \in mined : latest >= k
    BY <2>2 DEF latest
  <2>5. \A k \in mined \ {0} : spends[k] # latest
    BY <2>1, <2>3, <2>4
  <2> QED BY <2>4, <2>5
<1> QED BY <1>1 DEF LastMined

\* The node: reveals are mined in the order of the chain, dropped with all that is built on them, and made on the
\* last; outputs stay what they are.
LEMMA TipTypeStep == TipInv /\ [TipNext]_tipVars => TipTypeOK' /\ Linked'
<1> SUFFICES ASSUME TipInv, [TipNext]_tipVars PROVE TipTypeOK' /\ Linked'
  OBVIOUS
<1>0. TipTypeOK /\ Linked
  BY DEF TipInv
<1>1. /\ DOMAIN spends = 1 .. Cardinality(DOMAIN spends) /\ Cardinality(DOMAIN spends) <= MaxReveals
      /\ \A n \in DOMAIN spends : spends[n] \in 0 .. n - 1
      /\ alive \subseteq {0} \cup DOMAIN spends /\ mined \subseteq alive
      /\ indexed \in mined /\ saved \in Output
      /\ holder \in Mints \cup {Free}
      /\ stage \in [Mints -> Stage] /\ tip \in [Mints -> Output]
      /\ faults \in 0 .. MaxFaults /\ drops \in 0 .. MaxDrops /\ crashes \in 0 .. MaxCrashes
  BY <1>0 DEF TipTypeOK
<1>2. /\ MaxFaults \in Nat /\ MaxDrops \in Nat /\ MaxCrashes \in Nat
      /\ (Fault \/ Fine) => faults' \in 0 .. MaxFaults
  BY <1>1, TipAssumption DEF Fault, Fine
<1>3. \A m \in Mints, s \in Stage : Go(m, s) => stage' \in [Mints -> Stage]
  BY <1>1 DEF Go
<1>4. {"waiting", "asksSaved", "asksIndex", "asksNode", "sending", "revealed"} \subseteq Stage
  BY DEF Stage
<1>5. ASSUME NEW n \in 1 .. MaxReveals, Mine(n) PROVE TipTypeOK' /\ Linked'
  <2>1. TipTypeOK'
    BY <1>1, <1>5 DEF Mine, TipTypeOK
  <2>2. Linked'
    BY <1>0, <1>5 DEF Mine, Linked
  <2> QED BY <2>1, <2>2
<1>6. ASSUME NEW n \in 1 .. MaxReveals, Drop(n) PROVE TipTypeOK' /\ Linked'
  <2>1. n \in alive \ mined /\ alive' = alive \ Descendants(n)
        /\ UNCHANGED <<spends, mined, indexed, saved, holder, stage, tip, faults, crashes>>
    BY <1>6 DEF Drop
  <2>2. mined \subseteq alive' /\ n \in alive \ {0}
    BY <1>0, <1>1, <2>1, MinedStay DEF Linked
  <2>3. drops' \in 0 .. MaxDrops
    BY <1>1, <1>2, <1>6 DEF Drop
  <2>4. TipTypeOK'
    BY <1>1, <2>1, <2>2, <2>3 DEF TipTypeOK
  <2>5. ASSUME NEW k \in alive' \ {0} PROVE spends[k] \in alive'
    <3>1. k \in DOMAIN spends /\ k \in Nat /\ spends[k] \in Nat /\ spends[k] < k /\ spends[k] \in alive /\ n \in Nat
      BY <1>0, <2>1, <2>2, Outputs DEF Linked
    <3>2. ASSUME spends[k] \in Descendants(n) PROVE FALSE
      <4>1. spends[k] >= n
        BY <1>0, <2>2, <3>2, DescendantsAre
      <4>2. k \in Descendants(n)
        BY <1>0, <2>2, <3>1, <3>2, <4>1, DescendantsAre
      <4> QED BY <2>1, <4>2
    <3> QED BY <2>1, <3>1, <3>2
  <2>6. Linked'
    BY <1>0, <2>1, <2>2, <2>5 DEF Linked
  <2> QED BY <2>4, <2>6
<1>7. CASE TipCrash
  <2>1. stage' \in [Mints -> Stage] /\ crashes' \in 0 .. MaxCrashes /\ holder' = Free
    BY <1>1, <1>2, <1>4, <1>7 DEF TipCrash
  <2>2. UNCHANGED <<spends, alive, mined, indexed, saved, tip, faults, drops>>
    BY <1>7 DEF TipCrash, tipChain
  <2> QED BY <1>0, <1>1, <2>1, <2>2 DEF TipTypeOK, Linked
<1>8. ASSUME NEW m \in Mints, Take(m) PROVE TipTypeOK' /\ Linked'
  <2>1. UNCHANGED <<spends, alive, mined, indexed, saved, faults, drops, crashes>> /\ holder' = m
    BY <1>8 DEF Take, tipChain
  <2>2. stage' \in [Mints -> Stage] /\ tip' \in [Mints -> Output]
    BY <1>1, <1>3, <1>4, <1>8 DEF Take
  <2> QED BY <1>0, <1>1, <2>1, <2>2 DEF TipTypeOK, Linked
<1>9. ASSUME NEW m \in Mints, AskSaved(m) PROVE TipTypeOK' /\ Linked'
  <2>1. UNCHANGED <<spends, alive, mined, indexed, saved, holder, tip, drops, crashes>>
    BY <1>9 DEF AskSaved, tipChain
  <2>2. stage' \in [Mints -> Stage] /\ faults' \in 0 .. MaxFaults
    BY <1>2, <1>3, <1>4, <1>9 DEF AskSaved
  <2> QED BY <1>0, <1>1, <2>1, <2>2 DEF TipTypeOK, Linked
<1>10. ASSUME NEW m \in Mints, SyncIndex(m) PROVE TipTypeOK' /\ Linked'
  <2>1. UNCHANGED <<spends, alive, mined, saved, tip, drops, crashes>>
    BY <1>10 DEF SyncIndex
  <2>2. /\ stage' \in [Mints -> Stage] /\ faults' \in 0 .. MaxFaults
        /\ holder' \in Mints \cup {Free}
    BY <1>1, <1>2, <1>3, <1>4, <1>10 DEF SyncIndex, GivesUp, Unlock
  <2>3. indexed' \in mined
    BY <1>0, <1>1, <1>10, LastMinedIs DEF SyncIndex
  <2> QED BY <1>0, <1>1, <2>1, <2>2, <2>3 DEF TipTypeOK, Linked
<1>11. ASSUME NEW m \in Mints, AskIndexed(m) PROVE TipTypeOK' /\ Linked'
  <2>0. indexed \in Output
    BY <1>0, <1>1, Outputs
  <2>1. UNCHANGED <<spends, alive, mined, indexed, drops, crashes>>
    BY <1>11 DEF AskIndexed, tipChain
  <2>2. /\ stage' \in [Mints -> Stage] /\ faults' \in 0 .. MaxFaults
        /\ holder' \in Mints \cup {Free}
    BY <1>1, <1>2, <1>3, <1>4, <1>11 DEF AskIndexed, GivesUp, Unlock
  <2>3. saved' \in Output /\ tip' \in [Mints -> Output]
    BY <1>1, <1>11, <2>0 DEF AskIndexed
  <2> QED BY <1>0, <1>1, <2>1, <2>2, <2>3 DEF TipTypeOK, Linked
<1>12. ASSUME NEW m \in Mints, SendReveal(m) PROVE TipTypeOK' /\ Linked'
  <2> DEFINE D == Cardinality(DOMAIN spends)
  <2>0. D \in Nat /\ DOMAIN spends = 1 .. D /\ D <= MaxReveals /\ New = D + 1
        /\ alive \subseteq 0 .. D /\ MaxReveals \in Nat /\ New \in Nat
    <3>1. D \in Nat /\ DOMAIN spends = 1 .. D /\ D <= MaxReveals /\ MaxReveals \in Nat
      BY <1>0, <1>1, Outputs
    <3>2. New = D + 1
      BY DEF New
    <3> HIDE DEF D
    <3>3. alive \subseteq 0 .. D
      BY <1>1, <3>1
    <3> QED BY <3>1, <3>2, <3>3
  <2> HIDE DEF D
  <2>1. UNCHANGED <<mined, indexed, tip, drops, crashes>>
    BY <1>12 DEF SendReveal
  <2>2. stage' \in [Mints -> Stage] /\ faults' \in 0 .. MaxFaults
        /\ holder' \in Mints \cup {Free}
    BY <1>1, <1>2, <1>3, <1>4, <1>12 DEF SendReveal, GivesUp, Unlock
  <2>3. CASE UNCHANGED <<spends, alive, saved>>
    BY <1>0, <1>1, <2>1, <2>2, <2>3 DEF TipTypeOK, Linked
  <2>4. CASE /\ Accepts(tip[m]) /\ New <= MaxReveals
             /\ spends' = [n \in 1 .. New |-> IF n = New THEN tip[m] ELSE spends[n]]
             /\ alive' = alive \cup {New} /\ saved' \in {saved, New}
    <3>0. alive' = alive \cup {New}
      BY <2>4
    <3>1. tip[m] \in alive /\ \A k \in alive : k <= tip[m]
      BY <1>0, <2>4, UnspentIsLast DEF Accepts
    <3>2. DOMAIN spends' = 1 .. New /\ New \in Nat /\ spends'[New] = tip[m]
          /\ \A n \in DOMAIN spends : n < New /\ spends'[n] = spends[n]
      BY <2>0, <2>4
    <3>3. Cardinality(DOMAIN spends') = New
      <4>1. Cardinality(1 .. New) = New
        BY <2>0, FS_Interval
      <4> QED BY <3>2, <4>1
    <3>4. \A n \in DOMAIN spends' : spends'[n] \in 0 .. n - 1
      <4>1. tip[m] \in 0 .. New - 1
        <5>1. tip[m] \in 0 .. D
          BY <2>0, <3>1
        <5> QED BY <2>0, <5>1
      <4>2. \A n \in DOMAIN spends' : n = New \/ n \in DOMAIN spends
        BY <2>0, <3>2
      <4> QED BY <1>1, <3>2, <4>1, <4>2
    <3>5. saved' \in Output
      BY <1>1, <2>0, <2>4 DEF Output
    <3>6. alive' \subseteq {0} \cup DOMAIN spends' /\ mined' \subseteq alive' /\ indexed' \in mined'
      <4>1. 0 .. D \subseteq {0} \cup 1 .. New /\ New \in 1 .. New
        BY <2>0
      <4> QED BY <1>1, <2>0, <2>1, <2>4, <3>2, <4>1
    <3>7. TipTypeOK'
      BY <1>1, <2>1, <2>2, <2>4, <3>2, <3>3, <3>4, <3>5, <3>6 DEF TipTypeOK
    <3>8. ASSUME NEW n \in alive' \ {0}
          PROVE  spends'[n] \in alive' /\ \A k \in alive' : ~(spends'[n] < k /\ k < n)
      <4>0. \A k \in alive : k \in Nat /\ k < New
        BY <2>0
      <4>1. CASE n = New
        <5>1. spends'[n] = tip[m] /\ tip[m] \in alive' /\ \A k \in alive : ~(tip[m] < k)
          <6>1. spends'[n] = tip[m] /\ tip[m] \in alive'
            BY <3>0, <3>1, <3>2, <4>1
          <6>2. \A k \in alive : ~(tip[m] < k)
            BY <3>1, <4>0
          <6> QED BY <6>1, <6>2
        <5>2. ~(New < New)
          BY <2>0
        <5> QED BY <3>0, <4>1, <5>1, <5>2
      <4>2. CASE n # New
        <5>1. n \in alive \ {0} /\ n \in DOMAIN spends /\ spends'[n] = spends[n] /\ n < New /\ n \in Nat
          BY <1>0, <2>0, <2>4, <3>2, <4>0, <4>2, Outputs
        <5>2. spends[n] \in alive /\ \A k \in alive : ~(spends[n] < k /\ k < n)
          BY <1>0, <5>1 DEF Linked
        <5>3. ~(New < n)
          BY <2>0, <5>1
        <5> QED BY <3>0, <5>1, <5>2, <5>3
      <4> QED BY <4>1, <4>2
    <3>9. \A n \in mined' \ {0} : spends'[n] \in mined'
      BY <1>0, <2>1, <3>2, Outputs DEF Linked
    <3>10. Linked'
      BY <1>0, <2>1, <2>4, <3>2, <3>3, <3>8, <3>9 DEF Linked
    <3> QED BY <3>7, <3>10
  <2>5. (UNCHANGED <<spends, alive, saved>>)
          \/ /\ Accepts(tip[m]) /\ New <= MaxReveals
             /\ spends' = [n \in 1 .. New |-> IF n = New THEN tip[m] ELSE spends[n]]
             /\ alive' = alive \cup {New} /\ saved' \in {saved, New}
    BY <1>12 DEF SendReveal
  <2> QED BY <2>3, <2>4, <2>5
<1>13. CASE UNCHANGED tipVars
  BY <1>0, <1>1, <1>13 DEF tipVars, tipChain, TipTypeOK, Linked
<1> QED BY <1>5, <1>6, <1>7, <1>8, <1>9, <1>10, <1>11, <1>12, <1>13 DEF TipNext, Step

\* One mint at a time has the lock, and nobody else makes a reveal under it.
LEMMA TurnStep == TipInv /\ [TipNext]_tipVars => OneHolds' /\ SendsOnLiveTip'
<1> SUFFICES ASSUME TipInv, [TipNext]_tipVars PROVE OneHolds' /\ SendsOnLiveTip'
  OBVIOUS
<1>0. /\ OneHolds /\ SendsOnLiveTip /\ stage \in [Mints -> Stage] /\ tip \in [Mints -> Output]
      /\ Free \notin Mints /\ drops \in Nat
  BY NoMintIsFree, TipAssumption DEF TipInv, TipTypeOK
<1>1. ASSUME UNCHANGED <<spends, alive, stage, tip, holder>>, drops' = drops PROVE OneHolds' /\ SendsOnLiveTip'
  BY <1>0, <1>1 DEF OneHolds, SendsOnLiveTip, IsUnspent, Made, Taken
<1>2. ASSUME NEW n \in 1 .. MaxReveals, Mine(n) PROVE OneHolds' /\ SendsOnLiveTip'
  BY <1>1, <1>2 DEF Mine
<1>3. ASSUME NEW n \in 1 .. MaxReveals, Drop(n) PROVE OneHolds' /\ SendsOnLiveTip'
  <2>1. drops' # 0
    BY <1>0, <1>3 DEF Drop
  <2> QED BY <1>0, <1>3, <2>1 DEF Drop, OneHolds, SendsOnLiveTip
<1>4. CASE TipCrash
  <2>1. \A m \in Mints : stage'[m] \in {"waiting", "revealed"}
    BY <1>4 DEF TipCrash
  <2> QED BY <2>1 DEF OneHolds, SendsOnLiveTip
<1>5. ASSUME NEW m \in Mints, Take(m) PROVE OneHolds' /\ SendsOnLiveTip'
  <2>1. holder = Free /\ holder' = m /\ stage' = [stage EXCEPT ![m] = "asksSaved"]
    BY <1>5 DEF Take, Lock, Go
  <2>2. \A k \in Mints : stage[k] \notin {"asksSaved", "asksIndex", "asksNode", "sending"}
    BY <1>0, <2>1 DEF OneHolds
  <2>3. \A k \in Mints \ {m} : stage'[k] = stage[k]
    BY <1>0, <2>1
  <2>4. stage'[m] = "asksSaved"
    BY <1>0, <2>1
  <2> QED BY <2>1, <2>2, <2>3, <2>4 DEF OneHolds, SendsOnLiveTip
<1>6. ASSUME NEW m \in Mints, Step(m) PROVE OneHolds' /\ SendsOnLiveTip'
  <2>1. holder = m /\ \A k \in Mints \ {m} : stage[k] \notin {"asksSaved", "asksIndex", "asksNode", "sending"}
    <3>1. stage[m] \in {"asksSaved", "asksIndex", "asksNode", "sending"}
      BY <1>6 DEF Step, AskSaved, SyncIndex, AskIndexed, SendReveal
    <3> QED BY <1>0, <3>1 DEF OneHolds
  <2>2. PICK s \in Stage : Go(m, s) /\ (holder' = holder \/ s \in {"waiting", "revealed"})
    BY <1>6 DEF Step, AskSaved, SyncIndex, AskIndexed, SendReveal, GivesUp, Stage
  <2>3. stage'[m] = s /\ \A k \in Mints \ {m} : stage'[k] = stage[k]
    BY <1>0, <2>2 DEF Go
  <2>4. OneHolds'
    BY <2>1, <2>2, <2>3 DEF OneHolds
  <2>5. ASSUME drops' = 0, stage'[m] = "sending" PROVE IsUnspent(tip[m])'
    <3>1. CASE AskSaved(m)
      <4>1. IsUnspent(tip[m]) /\ UNCHANGED <<spends, alive, tip>>
        BY <1>0, <2>5, <3>1 DEF AskSaved, Go, tipChain
      <4> QED BY <4>1 DEF IsUnspent, Made, Taken
    <3>2. CASE SyncIndex(m)
      BY <1>0, <2>5, <3>2 DEF SyncIndex, Go, GivesUp
    <3>3. CASE AskIndexed(m)
      <4>1. IsUnspent(indexed) /\ UNCHANGED <<spends, alive>> /\ tip' = [tip EXCEPT ![m] = indexed]
        BY <1>0, <2>5, <3>3 DEF AskIndexed, NodeHasIndexed, Go, GivesUp, tipChain
      <4>2. tip'[m] = indexed
        BY <1>0, <4>1
      <4> QED BY <4>1, <4>2 DEF IsUnspent, Made, Taken
    <3>4. CASE SendReveal(m)
      BY <1>0, <2>5, <3>4 DEF SendReveal, Go, GivesUp
    <3> QED BY <1>6, <3>1, <3>2, <3>3, <3>4 DEF Step
  <2> QED BY <2>1, <2>3, <2>4, <2>5 DEF SendsOnLiveTip
<1>7. CASE UNCHANGED tipVars
  BY <1>1, <1>7 DEF tipVars, tipChain
<1> QED BY <1>2, <1>3, <1>4, <1>5, <1>6, <1>7 DEF TipNext

\* The saved tip goes back only when what made it is gone: what the index says replaces it only if the node has
\* that unspent, which is then the last reveal there is.
LEMMA SavedStep == TipInv /\ [TipNext]_tipVars => (saved' # saved => TipNeverStepsBack)
<1> SUFFICES ASSUME TipInv, [TipNext]_tipVars, saved' < saved, saved \in alive, saved' # saved PROVE FALSE
  BY DEF TipNeverStepsBack
<1>0. TipTypeOK /\ Linked
  BY DEF TipInv
<1>1. saved \in Nat /\ indexed \in Nat /\ New \in Nat /\ New > saved
  <2>1. New = Cardinality(DOMAIN spends) + 1
    BY DEF New
  <2> DEFINE D == Cardinality(DOMAIN spends)
  <2>2. D \in Nat /\ DOMAIN spends = 1 .. D /\ alive \subseteq {0} \cup DOMAIN spends /\ indexed \in alive
    BY <1>0, Outputs DEF TipTypeOK
  <2>4. New = D + 1
    BY <2>1
  <2> HIDE DEF D
  <2>3. saved \in 0 .. D /\ indexed \in 0 .. D
    BY <2>2
  <2> QED BY <2>2, <2>3, <2>4
<1>2. PICK m \in Mints : SendReveal(m) \/ AskIndexed(m)
  BY DEF TipNext, Step, Mine, Drop, TipCrash, Take, AskSaved, SyncIndex, tipVars
<1>3. CASE SendReveal(m)
  <2>1. saved' = New \/ saved' = saved
    BY <1>3 DEF SendReveal
  <2> QED BY <1>1, <2>1
<1>4. CASE AskIndexed(m)
  <2>1. IsUnspent(indexed) /\ saved' = indexed
    BY <1>4 DEF AskIndexed, NodeHasIndexed
  <2>2. saved <= indexed
    BY <1>0, <2>1, UnspentIsLast
  <2> QED BY <1>1, <2>1, <2>2
<1> QED BY <1>2, <1>3, <1>4

\* The root is where it was made; nobody has begun.
LEMMA TipStart == TipInit => TipInv
<1> SUFFICES ASSUME TipInit PROVE TipInv
  OBVIOUS
<1>1. DOMAIN spends = {} /\ Cardinality(DOMAIN spends) = 0
  BY FS_EmptySet DEF TipInit
<1>2. TipTypeOK
  BY <1>1, TipAssumption DEF TipInit, TipTypeOK, Output, Stage
<1>3. Linked /\ OneHolds /\ SendsOnLiveTip
  BY <1>1 DEF TipInit, Linked, OneHolds, SendsOnLiveTip
<1> QED BY <1>2, <1>3 DEF TipInv

\* THEOREM: the whole inductive invariant of the parent's tip (server.js, resolveParentTip): the reveals the node
\* has are one chain, whoever makes the next has the lock, and its tip is the end of the chain.
THEOREM TipInvariant == TipSpec => []TipInv
<1>1. TipInit => TipInv
  BY TipStart
<1>2. TipInv /\ [TipNext]_tipVars => TipInv'
  BY TipTypeStep, TurnStep DEF TipInv
<1> QED BY <1>1, <1>2, PTL DEF TipSpec

\* THEOREM: no step builds a reveal on a tip that is not the collection's, or forgets one that is, for every number
\* of mints, reveals, blocks, dropped transactions, failed calls and crashes.
THEOREM TipCorrect == TipSpec => TipSound
<1>1. TipInv => TipTypeOK
  BY DEF TipInv
<1>2. TipInv /\ [TipNext]_tipVars => [SendsOnLiveTip' /\ TipNeverStepsBack]_tipVars
  <2> SUFFICES ASSUME TipInv, [TipNext]_tipVars PROVE SendsOnLiveTip' /\ TipNeverStepsBack
    OBVIOUS
  <2>1. saved \in Nat
    BY TipAssumption DEF TipInv, TipTypeOK, Output
  <2>2. saved' = saved => TipNeverStepsBack
    BY <2>1 DEF TipNeverStepsBack
  <2> QED BY <2>2, TurnStep, SavedStep
<1> QED BY <1>1, <1>2, TipInvariant, PTL DEF TipSpec, TipSound

-----------------------------------------------------------------------------
(* The browser wallet: its keys, and the line to the servers.               *)

\* What a handler, or the waking worker, can be waiting with: one shape for each await it may stand at.
Standing ==
  {Nothing} \cup [at : {"get"}] \cup [at : {"ensure"}, message : Message]
    \cup [at : {"secrets"}, right : BOOLEAN, remember : BOOLEAN] \cup [at : {"activate"}]
    \cup [at : {"derive"}, account : Accounts, remember : BOOLEAN]
    \cup [at : {"push"}, account : Accounts]
    \cup [at : {"check", "asking", "origins", "silent"}, do : {"connect", "disconnect"} \cup Moves, site : Sites]
    \cup [at : {"write"}, origins : SUBSET Sites]

\* The types of the keys, of who waits for what, and of what sites are connected.
KeysTyped ==
  /\ vault \in Ring /\ keyring \in Ring \cup {None}
  /\ secrets \in SUBSET Accounts /\ priv \in Accounts \cup {None}
  /\ pass \in BOOLEAN /\ session \in BOOLEAN /\ locked \in BOOLEAN
  /\ overtaken \in BOOLEAN /\ crossed \in BOOLEAN
  /\ jobs \in [Everyone -> Standing]
SitesTyped == origins \in SUBSET Sites /\ pending \in SUBSET Handlers

\* j has read the secrets and not yet set, or dropped, the key it derives from them.
Busy(j) == jobs[j].at \in AfterKey

\* Accounts in memory are those of the vault; a key, a passphrase or a handler past the read of the
\* secrets is never there without them.
RingLoaded ==
  /\ keyring # None => keyring = vault
  /\ priv # None \/ pass => keyring # None
  /\ \A j \in Everyone : jobs[j].at \in AfterKey \cup Adds => keyring # None

\* A worker that wakes into a session unlocks before any handler touches a key: until it has, handlers
\* have not begun or wait for it.
WakesFirst ==
  /\ jobs["wake"].at \in {"nothing", "get", "secrets", "derive"}
  /\ jobs["wake"].at = "secrets" => jobs["wake"].right
  /\ Busy("wake") => priv = None /\ session
  /\ session /\ priv = None =>
       \A h \in Handlers : jobs[h].at \in {"nothing", "ensure"}
                           /\ (jobs[h].at = "ensure" => jobs["wake"].at # "nothing")

\* Unless two unlocks or switches crossed, one handler at a time is between the secrets and the key, the
\* account it derives is the active one, and with nobody there the key is the active account's.
OneByOne ==
  ~crossed =>
    /\ \A j \in Everyone : Busy(j) => \A o \in Everyone \ {j} : ~Busy(o)
    /\ \A j \in Everyone :
         /\ jobs[j].at = "secrets" => secrets = {}
         /\ jobs[j].at = "derive" => jobs[j].account = keyring.active
    /\ Quiet /\ priv # None /\ keyring.accounts \subseteq secrets => priv = keyring.active

\* After a lock that no handler under way overtook nothing is left in memory, and nobody under way will
\* bring it back.
StaysLocked ==
  locked /\ ~overtaken =>
    /\ priv = None /\ secrets = {} /\ ~pass /\ ~session
    /\ \A h \in Handlers : /\ jobs[h].at \notin {"activate", "derive", "push"}
                           /\ jobs[h].at = "secrets" => ~jobs[h].right

\* The inductive invariant.
KeysInv == KeysTyped /\ SitesTyped /\ RingLoaded /\ WakesFirst /\ OneByOne /\ StaysLocked

-----------------------------------------------------------------------------
\* What each stage of a handler waits with.
LEMMA JobsAre ==
  ASSUME NEW q \in Standing
  PROVE  /\ q.at \in {"nothing", "get", "ensure", "secrets", "activate", "derive", "push", "check",
                      "asking", "origins", "silent", "write"}
         /\ q.at = "nothing" => q = Nothing
         /\ q.at = "ensure" => q.message \in Message
         /\ q.at = "secrets" => q.right \in BOOLEAN /\ q.remember \in BOOLEAN
         /\ q.at = "derive" => q.account \in Accounts /\ q.remember \in BOOLEAN
         /\ q.at = "push" => q.account \in Accounts
         /\ q.at \in {"check", "asking", "origins", "silent"} =>
              q \in [at : {"check", "asking", "origins", "silent"}, do : {"connect", "disconnect"} \cup Moves, site : Sites]
         /\ q.at = "write" => q.origins \in SUBSET Sites
  BY DEF Standing, Nothing

\* The kinds of step there are, told by what they do to the keys: a handler goes on and leaves them, an
\* unlock begins, the ring is saved, the secrets are decrypted, the active account is read, its key
\* is set, everything is locked, or a handler waits for the worker to wake.
KeepsKeys == UNCHANGED <<vault, keyring, secrets, pass, priv, session, locked, overtaken, crossed>>
Reachable == ~(session /\ priv = None)
Talks(j, job) ==
  /\ j \in Everyone /\ job \in Standing /\ Goes(j, job) /\ KeepsKeys
  /\ job.at \notin AfterKey \cup {"ensure"} /\ (job.at = "push" => pass /\ keyring # None)
  /\ j = "wake" => job = Nothing
  /\ Reachable /\ (Busy(j) /\ ~crossed => keyring.active \notin secrets)
Unlocks(j, right) ==
  /\ j \in Everyone /\ right \in BOOLEAN
  /\ \E remember \in BOOLEAN : UnlockRing(j, [at |-> "secrets", right |-> right, remember |-> remember])
  /\ UNCHANGED <<session, overtaken>>
  /\ IF j = "wake" THEN right /\ session /\ priv = None /\ locked' = locked
     ELSE Reachable /\ locked' = (locked /\ ~right)
SavesRing(j) ==
  /\ j \in Handlers /\ keyring # None /\ (\E ring \in Ring : Saves(j, ring))
  /\ secrets' \in SUBSET Accounts /\ UNCHANGED <<pass, priv, session, locked, overtaken>>
  /\ Reachable /\ ~(locked /\ ~overtaken)
Decrypts(j) ==
  /\ j \in Everyone /\ jobs[j].at = "secrets" /\ jobs[j].right
  /\ secrets' = keyring.accounts /\ pass' = TRUE
  /\ Goes(j, [at |-> "derive", account |-> keyring.active, remember |-> jobs[j].remember])
  /\ UNCHANGED <<vault, keyring, priv, session, locked, overtaken, crossed>>
Activates(j) ==
  /\ j \in Everyone /\ jobs[j].at = "activate"
  /\ Goes(j, [at |-> "derive", account |-> keyring.active, remember |-> FALSE])
  /\ KeepsKeys
Derives(j) ==
  /\ j \in Everyone /\ Derived(j)
Locks(j) == j \in Handlers /\ LockWallet(j) /\ Reachable
Waits(j) ==
  /\ j \in Handlers /\ priv = None /\ jobs[j] = Nothing
  /\ \E m \in Message :
       jobs' = [jobs EXCEPT ![j] = [at |-> "ensure", message |-> m],
                            !["wake"] = IF @ = Nothing THEN [at |-> "get"] ELSE @]
  /\ KeepsKeys
Kinds ==
  \E j \in Everyone :
    \/ \E job \in Standing : Talks(j, job)
    \/ \E right \in BOOLEAN : Unlocks(j, right)
    \/ SavesRing(j) \/ Decrypts(j) \/ Activates(j) \/ Derives(j) \/ Locks(j) \/ Waits(j)

\* A handler that begins takes one of these steps.
LEMMA BeginKind ==
  ASSUME KeysInv, NEW j \in Handlers, Reachable, NEW m \in Message, Begin(j, m), ~Busy(j)
  PROVE  Kinds
<1>1. CASE m.do = "look" /\ Ends(j) /\ Same /\ UNCHANGED <<session, pending, locked, overtaken>>
  <2>1. Talks(j, Nothing)
    BY <1>1 DEF Talks, Ends, Same, KeepsKeys, Nothing, Standing, AfterKey, Everyone
  <2> QED BY <2>1 DEF Kinds, Everyone, Standing
<1>2. CASE m.do = "lock" /\ LockWallet(j) /\ UNCHANGED pending
  BY <1>2 DEF Kinds, Locks, Everyone
<1>3. CASE /\ m.do \in {"unlock", "mistype"}
           /\ UnlockRing(j, [at |-> "secrets", right |-> m.do = "unlock", remember |-> TRUE])
           /\ locked' = (locked /\ m.do = "mistype") /\ UNCHANGED <<session, pending, overtaken>>
  <2> DEFINE right == m.do = "unlock"
  <2>1. j # "wake"
    BY KeysAssumption
  <2>2. right \in BOOLEAN /\ (m.do = "mistype" <=> ~right)
    BY <1>3
  <2>3. locked' = (locked /\ ~right)
    BY <1>3, <2>2
  <2>4. UnlockRing(j, [at |-> "secrets", right |-> right, remember |-> TRUE])
    BY <1>3
  <2>5. UNCHANGED <<session, overtaken>>
    BY <1>3
  <2> HIDE DEF right
  <2>6. \E remember \in BOOLEAN :
          UnlockRing(j, [at |-> "secrets", right |-> right, remember |-> remember])
    BY <2>4, Zenon
  <2>7. Unlocks(j, right)
    BY <2>1, <2>2, <2>3, <2>5, <2>6, Zenon DEF Unlocks, Everyone
  <2> QED BY <2>2, <2>7 DEF Kinds, Everyone
<1>4. CASE /\ \/ m.do = "select" /\ SelectAccount(j, m.account)
              \/ m.do = "remove" /\ RemoveAccount(j, m.account)
              \/ m.do = "add" /\ AddAccount(j, m.account)
           /\ UNCHANGED <<session, pending, locked, overtaken>>
  <2>0. m.do \in {"select", "remove", "add"} => m.account \in Accounts
    BY DEF Message, Moves
  <2>1. keyring \in Ring /\ keyring.accounts \in SUBSET Accounts /\ keyring.active \in keyring.accounts
        /\ keyring = [accounts |-> keyring.accounts, active |-> keyring.active]
        /\ keyring # None /\ pass /\ secrets \in SUBSET Accounts
    <3>1. keyring # None /\ pass
      BY <1>4 DEF SelectAccount, RemoveAccount, AddAccount, Open
    <3>2. keyring \in Ring /\ secrets \in SUBSET Accounts
      BY <3>1 DEF KeysInv, KeysTyped
    <3> QED BY <3>1, <3>2 DEF Ring
  <2>2. ~(locked /\ ~overtaken)
    BY <2>1 DEF KeysInv, StaysLocked
  <2>3. CASE m.do = "select" /\ SelectAccount(j, m.account)
    <3>1. [keyring EXCEPT !.active = m.account] \in Ring
      BY <2>0, <2>1, <2>3 DEF SelectAccount, Ring
    <3>2. SavesRing(j)
      BY <1>4, <2>1, <2>2, <2>3, <3>1 DEF SavesRing, SelectAccount
    <3> QED BY <3>2 DEF Kinds, Everyone
  <2>4. CASE m.do = "remove" /\ RemoveAccount(j, m.account)
    <3> DEFINE left == keyring.accounts \ {m.account}
               other == IF keyring.active = m.account THEN CHOOSE b \in left : TRUE ELSE keyring.active
    <3>1. left # {}
      <4>1. Cardinality(keyring.accounts) > 1
        BY <2>4 DEF RemoveAccount
      <4> SUFFICES ASSUME left = {} PROVE FALSE
        OBVIOUS
      <4>2. keyring.accounts = {} \/ keyring.accounts = {m.account}
        BY DEF left
      <4>3. Cardinality({}) = 0 /\ Cardinality({m.account}) = 1
        BY FS_EmptySet, FS_Singleton
      <4> QED BY <4>1, <4>2, <4>3
    <3>2. [accounts |-> left, active |-> other] \in Ring
      <4>1. other \in left /\ left \in SUBSET Accounts
        BY <2>1, <3>1
      <4> HIDE DEF left, other
      <4> QED BY <4>1 DEF Ring
    <3>3. SavesRing(j)
      BY <1>4, <2>1, <2>2, <2>4, <3>2 DEF SavesRing, RemoveAccount
    <3> QED BY <3>3 DEF Kinds, Everyone
  <2>5. CASE m.do = "add" /\ AddAccount(j, m.account)
    <3> DEFINE job == [at |-> "push", account |-> m.account]
    <3>1. job \in Standing /\ job.at = "push"
      BY <2>0, <2>5 DEF Standing
    <3>2. Talks(j, job)
      BY <1>4, <2>1, <2>5, <3>1, KeysAssumption DEF Talks, AddAccount, KeepsKeys, AfterKey, Everyone
    <3> QED BY <3>1, <3>2 DEF Kinds, Everyone
  <2> QED BY <1>4, <2>3, <2>4, <2>5
<1>5. CASE /\ m.do \in {"connect"} \cup Moves
           /\ Goes(j, [at |-> IF m.do = "connect" THEN "asking" ELSE "check", do |-> m.do, site |-> m.site])
           /\ pending' = IF m.do = "connect" THEN pending \cup {j} ELSE pending
           /\ Same /\ UNCHANGED <<session, locked, overtaken>>
  <2> DEFINE job == [at |-> IF m.do = "connect" THEN "asking" ELSE "check", do |-> m.do, site |-> m.site]
  <2>1. job \in Standing /\ job.at \in {"asking", "check"}
    <3>1. m.site \in Sites
      BY <1>5 DEF Message, Moves
    <3> QED BY <1>5, <3>1 DEF Standing
  <2>2. Goes(j, job) /\ KeepsKeys
    BY <1>5 DEF Same, KeepsKeys
  <2> HIDE DEF job
  <2>3. Talks(j, job)
    BY <2>1, <2>2, KeysAssumption DEF Talks, AfterKey, Everyone
  <2> QED BY <2>1, <2>3 DEF Kinds, Everyone
<1>6. CASE /\ m.do = "disconnect" /\ Goes(j, [at |-> "origins", do |-> m.do, site |-> m.site])
           /\ Same /\ UNCHANGED <<session, pending, locked, overtaken>>
  <2> DEFINE job == [at |-> "origins", do |-> m.do, site |-> m.site]
  <2>1. job \in Standing /\ job.at = "origins"
    <3>1. m.site \in Sites
      BY <1>6 DEF Message, Moves
    <3> QED BY <1>6, <3>1 DEF Standing
  <2>2. Goes(j, job) /\ KeepsKeys
    BY <1>6 DEF Same, KeepsKeys
  <2> HIDE DEF job
  <2>3. Talks(j, job)
    BY <2>1, <2>2, KeysAssumption DEF Talks, AfterKey, Everyone
  <2> QED BY <2>1, <2>3 DEF Kinds, Everyone
<1> QED BY <1>1, <1>2, <1>3, <1>4, <1>5, <1>6 DEF Begin

\* And so does every other step of the wallet.
LEMMA StepKinds ==
  ASSUME KeysInv, KeysNext
  PROVE  Kinds \/ Suspend
<1> USE DEF Everyone
<1>0. /\ jobs \in [Everyone -> Standing]
      /\ \A h \in Handlers : jobs[h].at \notin {"nothing", "ensure"} => Reachable
      /\ \A j \in Everyone : jobs[j].at \in AfterKey \cup Adds =>
           /\ keyring \in Ring /\ keyring.active \in keyring.accounts
           /\ keyring # None /\ keyring.accounts \in SUBSET Accounts
           /\ keyring.active \in Accounts
  BY DEF KeysInv, KeysTyped, WakesFirst, RingLoaded, Ring, Reachable
<1>1. ASSUME NEW j \in Handlers, NEW m \in Message, Arrive(j, m) PROVE Kinds
  <2>1. jobs[j] = Nothing
    BY <1>1 DEF Arrive
  <2>2. CASE priv # None /\ Begin(j, m)
    <3>1. Reachable /\ ~Busy(j)
      BY <2>1, <2>2 DEF Reachable, Busy, Nothing, AfterKey
    <3> QED BY <2>2, <3>1, BeginKind
  <2>3. CASE ~(priv # None /\ Begin(j, m))
    <3>1. Waits(j)
      BY <1>1, <2>1, <2>3 DEF Arrive, Waits, Same, KeepsKeys
    <3> QED BY <3>1 DEF Kinds
  <2> QED BY <2>2, <2>3
<1>2. ASSUME NEW j \in Handlers, Resume(j) PROVE Kinds
  <2>1. jobs[j].at = "ensure" /\ jobs["wake"] = Nothing /\ Begin(j, jobs[j].message)
    BY <1>2 DEF Resume, Awake
  <2>2. jobs[j].message \in Message
    BY <1>0, <2>1, JobsAre
  <2>3. Reachable /\ ~Busy(j)
    BY <2>1 DEF KeysInv, WakesFirst, Reachable, Busy, AfterKey, Nothing
  <2> QED BY <2>1, <2>2, <2>3, BeginKind
<1>3. ASSUME NEW j \in Handlers, Push(j) PROVE Kinds
  <2> DEFINE a == jobs[j].account
             ring == [accounts |-> keyring.accounts \cup {a}, active |-> a]
  <2>1. jobs[j].at = "push" /\ a \in Accounts /\ keyring # None /\ Reachable
    BY <1>0, <1>3, JobsAre DEF Push, Adds
  <2>2. ring \in Ring /\ secrets \cup {a} \in SUBSET Accounts
    BY <1>0, <2>1 DEF Ring, Adds, KeysInv, KeysTyped
  <2>3. Saves(j, ring) /\ secrets' = secrets \cup {a} /\ UNCHANGED <<pass, priv, session, locked, overtaken>>
    BY <1>3 DEF Push
  <2>4. ~(locked /\ ~overtaken)
    BY <2>1 DEF KeysInv, StaysLocked
  <2> HIDE DEF ring, a
  <2>5. SavesRing(j)
    BY <2>1, <2>2, <2>3, <2>4 DEF SavesRing
  <2> QED BY <2>5 DEF Kinds
<1>4. ASSUME NEW j \in Handlers, Checked(j) \/ Decide(j) \/ ReadOrigins(j) \/ WriteOrigins(j)
      PROVE  Kinds
  <2>1. jobs[j].at \in {"check", "asking", "origins", "write"} /\ KeepsKeys
    BY <1>4 DEF Checked, Decide, ReadOrigins, WriteOrigins, Same, KeepsKeys
  <2>2. Reachable /\ ~Busy(j) /\ j # "wake"
    BY <1>0, <2>1, KeysAssumption DEF Busy, AfterKey
  <2>3. PICK job \in Standing : Goes(j, job) /\ job.at \in {"nothing", "asking", "origins", "silent", "write"}
    <3>0. Nothing \in Standing /\ Nothing.at = "nothing"
      BY DEF Standing, Nothing
    <3>1. CASE Checked(j)
      <4>1. jobs[j].at = "check"
        BY <3>1 DEF Checked
      <4>2. [jobs[j] EXCEPT !.at = "asking"] \in Standing /\ [jobs[j] EXCEPT !.at = "asking"].at = "asking"
        BY <1>0, <4>1, JobsAre DEF Standing
      <4> QED BY <3>0, <3>1, <4>2 DEF Checked, Ends
    <3>2. CASE Decide(j)
      <4>1. jobs[j].at = "asking"
        BY <3>2 DEF Decide
      <4>2. \A at \in {"origins", "silent"} :
              [jobs[j] EXCEPT !.at = at] \in Standing /\ [jobs[j] EXCEPT !.at = at].at = at
        BY <1>0, <4>1, JobsAre DEF Standing
      <4> QED BY <3>0, <3>2, <4>2 DEF Decide, Ends
    <3>3. CASE ReadOrigins(j)
      <4> DEFINE o == IF jobs[j].do = "connect" THEN origins \cup {jobs[j].site} ELSE origins \ {jobs[j].site}
                 job == [at |-> "write", origins |-> o]
      <4>1. jobs[j].site \in Sites
        BY <1>0, <3>3, JobsAre DEF ReadOrigins
      <4>2. o \in SUBSET Sites
        BY <4>1 DEF KeysInv, SitesTyped
      <4>3. Goes(j, job)
        BY <3>3 DEF ReadOrigins
      <4> HIDE DEF o
      <4>4. job \in Standing /\ job.at = "write"
        BY <4>2 DEF Standing
      <4> QED BY <4>3, <4>4
    <3>4. CASE WriteOrigins(j)
      BY <3>0, <3>4 DEF WriteOrigins, Ends
    <3> QED BY <1>4, <3>1, <3>2, <3>3, <3>4
  <2>4. Talks(j, job)
    BY <2>1, <2>2, <2>3 DEF Talks, AfterKey
  <2> QED BY <2>4 DEF Kinds
<1>5. ASSUME NEW j \in Everyone, Decrypted(j) PROVE Kinds
  <2>1. jobs[j].at = "secrets" /\ UNCHANGED <<vault, keyring, priv, session, locked, overtaken, crossed>>
    BY <1>5 DEF Decrypted, keysHistory
  <2>2. CASE jobs[j].right
    <3>1. Decrypts(j)
      BY <1>5, <2>1, <2>2 DEF Decrypted, Decrypts
    <3> QED BY <3>1 DEF Kinds
  <2>3. CASE ~jobs[j].right
    <3>1. j \in Handlers /\ j # "wake"
      BY <2>1, <2>3, KeysAssumption DEF KeysInv, WakesFirst
    <3>2. Goes(j, Nothing) /\ KeepsKeys
      BY <1>5, <2>1, <2>3 DEF Decrypted, Ends, KeepsKeys
    <3>3. ~crossed => keyring.active \notin secrets
      BY <2>1 DEF KeysInv, OneByOne
    <3>4. Nothing \in Standing /\ Nothing.at = "nothing"
      BY DEF Standing, Nothing
    <3>5. Reachable
      BY <1>0, <2>1, <3>1
    <3>6. Talks(j, Nothing)
      BY <3>1, <3>2, <3>3, <3>4, <3>5 DEF Talks, AfterKey
    <3> QED BY <3>4, <3>6 DEF Kinds
  <2> QED BY <2>2, <2>3
<1>6. ASSUME NEW j \in Everyone, Activate(j) PROVE Kinds
  <2>1. jobs[j].at = "activate" /\ KeepsKeys
    BY <1>6 DEF Activate, KeepsKeys, keysHistory
  <2>2. j \in Handlers /\ j # "wake" /\ Reachable
    BY <1>0, <2>1, KeysAssumption DEF KeysInv, WakesFirst
  <2>3. CASE keyring.active \in secrets
    <3>1. Activates(j)
      BY <1>6, <2>1, <2>3 DEF Activate, Activates
    <3> QED BY <3>1 DEF Kinds
  <2>4. CASE keyring.active \notin secrets
    <3>1. Nothing \in Standing /\ Nothing.at = "nothing" /\ Goes(j, Nothing)
      BY <1>6, <2>4 DEF Activate, Ends, Standing, Nothing
    <3>2. Talks(j, Nothing)
      BY <2>1, <2>2, <2>4, <3>1 DEF Talks, AfterKey
    <3> QED BY <3>1, <3>2 DEF Kinds
  <2> QED BY <2>3, <2>4
<1>7. ASSUME NEW j \in Everyone, Derived(j) PROVE Kinds
  BY <1>7 DEF Kinds, Derives
<1>8. ASSUME Wake PROVE Kinds
  <2>1. jobs["wake"].at = "get" /\ UNCHANGED <<session, origins, pending, locked, overtaken>>
    BY <1>8 DEF Wake
  <2>2. CASE session /\ priv = None
    <3>1. UnlockRing("wake", [at |-> "secrets", right |-> TRUE, remember |-> FALSE])
      BY <1>8, <2>2 DEF Wake
    <3>2. \E remember \in BOOLEAN : UnlockRing("wake", [at |-> "secrets", right |-> TRUE, remember |-> remember])
      BY <3>1, Zenon
    <3>3. Unlocks("wake", TRUE)
      BY <2>1, <2>2, <3>2, Zenon DEF Unlocks
    <3> QED BY <3>3 DEF Kinds
  <2>3. CASE ~(session /\ priv = None)
    <3>1. Ends("wake") /\ Same
      BY <1>8, <2>3 DEF Wake
    <3>2. Nothing \in Standing /\ Nothing.at = "nothing" /\ Goes("wake", Nothing) /\ KeepsKeys
      BY <2>1, <3>1 DEF Ends, Same, KeepsKeys, Standing, Nothing
    <3>3. Talks("wake", Nothing)
      BY <2>1, <2>3, <3>2 DEF Talks, AfterKey, Reachable, Busy
    <3> QED BY <3>2, <3>3 DEF Kinds
  <2> QED BY <2>2, <2>3
<1> QED BY <1>1, <1>2, <1>3, <1>4, <1>5, <1>6, <1>7, <1>8 DEF KeysNext

\* A step of one handler changes what that handler waits with, and nothing of the others.
LEMMA OneGoes ==
  ASSUME KeysTyped, NEW j \in Everyone, NEW job \in Standing, Goes(j, job)
  PROVE  /\ jobs' \in [Everyone -> Standing] /\ jobs'[j] = job
         /\ \A o \in Everyone \ {j} : jobs'[o] = jobs[o]
  BY DEF Goes, KeysTyped

\* Who waits for the session wakes the worker, and nobody else changes.
LEMMA OneWaits ==
  ASSUME KeysTyped, NEW j, Waits(j)
  PROVE  /\ jobs' \in [Everyone -> Standing] /\ j \in Handlers /\ j # "wake"
         /\ jobs[j].at = "nothing" /\ jobs'[j].at = "ensure"
         /\ jobs["wake"].at = "nothing" => jobs'["wake"].at = "get"
         /\ jobs["wake"].at # "nothing" => jobs'["wake"] = jobs["wake"]
         /\ \A o \in Everyone \ {j, "wake"} : jobs'[o] = jobs[o]
<1> USE DEF Everyone
<1>1. PICK m \in Message :
        jobs' = [jobs EXCEPT ![j] = [at |-> "ensure", message |-> m],
                             !["wake"] = IF @ = Nothing THEN [at |-> "get"] ELSE @]
  BY DEF Waits
<1>2. j \in Handlers /\ j # "wake" /\ jobs[j] = Nothing /\ jobs \in [Everyone -> Standing]
  BY KeysAssumption DEF Waits, KeysTyped
<1>3. [at |-> "ensure", message |-> m] \in Standing /\ [at |-> "get"] \in Standing /\ Nothing.at = "nothing"
  BY DEF Standing, Nothing
<1>4. jobs["wake"].at = "nothing" <=> jobs["wake"] = Nothing
  BY <1>2, <1>3, JobsAre
<1> QED BY <1>1, <1>2, <1>3, <1>4

\* What is decrypted, saved and derived is of its type.
LEMMA KeysTypedStep ==
  ASSUME KeysInv, Kinds \/ Suspend \/ UNCHANGED keysVars
  PROVE  KeysTyped'
<1> USE DEF Everyone
<1>0. KeysTyped
  BY DEF KeysInv
<1>1. /\ vault \in Ring /\ keyring \in Ring \cup {None} /\ jobs \in [Everyone -> Standing]
      /\ secrets \in SUBSET Accounts /\ priv \in Accounts \cup {None}
      /\ pass \in BOOLEAN /\ session \in BOOLEAN /\ locked \in BOOLEAN
      /\ overtaken \in BOOLEAN /\ crossed \in BOOLEAN
  BY <1>0 DEF KeysTyped
<1>2. ASSUME NEW j \in Everyone, NEW job \in Standing, Talks(j, job) PROVE KeysTyped'
  <2>1. jobs' \in [Everyone -> Standing]
    BY <1>0, <1>2, OneGoes DEF Talks
  <2> QED BY <1>1, <1>2, <2>1 DEF KeysTyped, Talks, KeepsKeys
<1>3. ASSUME NEW j \in Everyone, NEW right \in BOOLEAN, Unlocks(j, right) PROVE KeysTyped'
  <2>1. PICK remember \in BOOLEAN : UnlockRing(j, [at |-> "secrets", right |-> right, remember |-> remember])
    BY <1>3 DEF Unlocks
  <2>2. [at |-> "secrets", right |-> right, remember |-> remember] \in Standing
    BY DEF Standing
  <2>3. jobs' \in [Everyone -> Standing]
    BY <1>0, <2>1, <2>2, OneGoes DEF UnlockRing
  <2>4. crossed' \in BOOLEAN
    BY <2>1 DEF UnlockRing
  <2>5. locked' \in BOOLEAN
    BY <1>1, <1>3 DEF Unlocks
  <2> QED BY <1>1, <1>3, <2>1, <2>3, <2>4, <2>5 DEF KeysTyped, Unlocks, UnlockRing
<1>4. ASSUME NEW j \in Everyone, SavesRing(j) PROVE KeysTyped'
  <2>1. PICK ring \in Ring : Saves(j, ring)
    BY <1>4 DEF SavesRing
  <2>2. [at |-> "activate"] \in Standing
    BY DEF Standing
  <2>3. jobs' \in [Everyone -> Standing]
    BY <1>0, <2>1, <2>2, OneGoes DEF Saves
  <2>4. crossed' \in BOOLEAN
    BY <2>1 DEF Saves
  <2> QED BY <1>1, <1>4, <2>1, <2>3, <2>4 DEF KeysTyped, SavesRing, Saves
<1>5. ASSUME NEW j \in Everyone, jobs[j].at \in AfterKey
      PROVE  /\ keyring \in Ring /\ keyring.accounts \in SUBSET Accounts /\ keyring.active \in Accounts
             /\ \A remember \in BOOLEAN : [at |-> "derive", account |-> keyring.active, remember |-> remember] \in Standing
  BY <1>1, <1>5 DEF KeysInv, RingLoaded, Ring, Standing
<1>6. ASSUME NEW j \in Everyone, Decrypts(j) PROVE KeysTyped'
  <2>1. jobs[j].at \in AfterKey /\ jobs[j].remember \in BOOLEAN
    BY <1>1, <1>6, JobsAre DEF Decrypts, AfterKey
  <2>2. jobs' \in [Everyone -> Standing]
    BY <1>0, <1>5, <1>6, <2>1, OneGoes DEF Decrypts
  <2> QED BY <1>1, <1>5, <1>6, <2>1, <2>2 DEF KeysTyped, Decrypts
<1>7. ASSUME NEW j \in Everyone, Activates(j) PROVE KeysTyped'
  <2>1. jobs[j].at \in AfterKey
    BY <1>7 DEF Activates, AfterKey
  <2>2. jobs' \in [Everyone -> Standing]
    BY <1>0, <1>5, <1>7, <2>1, OneGoes DEF Activates
  <2> QED BY <1>1, <1>7, <2>2 DEF KeysTyped, Activates, KeepsKeys
<1>8. Nothing \in Standing
  BY DEF Standing
<1>9. ASSUME NEW j \in Everyone, Derives(j) PROVE KeysTyped'
  <2>1. jobs[j].account \in Accounts /\ jobs[j].remember \in BOOLEAN
    BY <1>1, <1>9, JobsAre DEF Derives, Derived
  <2>2. jobs' \in [Everyone -> Standing]
    BY <1>0, <1>8, <1>9, OneGoes DEF Derives, Derived, Ends
  <2>3. session' \in BOOLEAN
    BY <1>9 DEF Derives, Derived
  <2> QED BY <1>1, <1>9, <2>1, <2>2, <2>3 DEF KeysTyped, Derives, Derived, keysHistory
<1>10. ASSUME NEW j \in Everyone, Locks(j) PROVE KeysTyped'
  <2>1. jobs' \in [Everyone -> Standing]
    BY <1>0, <1>8, <1>10, OneGoes DEF Locks, LockWallet, Ends
  <2>2. overtaken' \in BOOLEAN
    BY <1>10 DEF Locks, LockWallet
  <2> QED BY <1>1, <1>10, <2>1, <2>2 DEF KeysTyped, Locks, LockWallet
<1>11. ASSUME NEW j \in Everyone, Waits(j) PROVE KeysTyped'
  <2>1. jobs' \in [Everyone -> Standing]
    BY <1>0, <1>11, OneWaits
  <2> QED BY <1>1, <1>11, <2>1 DEF KeysTyped, Waits, KeepsKeys
<1>12. CASE Suspend
  <2>1. jobs' \in [Everyone -> Standing]
    BY <1>8, <1>12 DEF Suspend
  <2> QED BY <1>1, <1>12, <2>1 DEF KeysTyped, Suspend
<1>13. CASE UNCHANGED keysVars
  BY <1>1, <1>13 DEF KeysTyped, keysVars, keysHistory
<1> QED BY <1>2, <1>3, <1>4, <1>6, <1>7, <1>9, <1>10, <1>11, <1>12, <1>13 DEF Kinds

\* The lists of sites and of requests.
LEMMA SitesStep ==
  ASSUME KeysTyped, SitesTyped, [KeysNext]_keysVars
  PROVE  SitesTyped'
<1> USE DEF Everyone
<1>1. ASSUME NEW j \in Handlers, NEW m \in Message, Begin(j, m) PROVE pending' \in SUBSET Handlers
  BY <1>1 DEF Begin, SitesTyped
<1>2. ASSUME NEW j \in Handlers, NEW m \in Message, Arrive(j, m) PROVE SitesTyped'
  BY <1>1, <1>2 DEF Arrive, SitesTyped
<1>3. ASSUME NEW j \in Handlers, Resume(j) PROVE SitesTyped'
  <2>1. jobs[j].message \in Message
    BY <1>3, JobsAre DEF Resume, KeysTyped
  <2> QED BY <1>1, <1>3, <2>1 DEF Resume, SitesTyped
<1>4. ASSUME NEW j \in Handlers, WriteOrigins(j) PROVE SitesTyped'
  <2>1. jobs[j].origins \in SUBSET Sites
    BY <1>4, JobsAre DEF WriteOrigins, KeysTyped
  <2> QED BY <1>4, <2>1 DEF WriteOrigins, SitesTyped
<1>5. ASSUME NEW j \in Handlers, Push(j) \/ Checked(j) \/ Decide(j) \/ ReadOrigins(j) PROVE SitesTyped'
  BY <1>5 DEF Push, Checked, Decide, ReadOrigins, SitesTyped
<1>6. ASSUME NEW j \in Everyone, Decrypted(j) \/ Activate(j) \/ Derived(j) PROVE SitesTyped'
  BY <1>6 DEF Decrypted, Activate, Derived, SitesTyped
<1>7. CASE Wake \/ Suspend
  BY <1>7 DEF Wake, Suspend, SitesTyped
<1>8. CASE UNCHANGED keysVars
  BY <1>8 DEF keysVars, SitesTyped
<1> QED BY <1>2, <1>3, <1>4, <1>5, <1>6, <1>7, <1>8 DEF KeysNext

\* What each kind of step does to what handlers wait with, told by stages.
Stages(j, at) == jobs'[j].at = at /\ \A o \in Everyone \ {j} : jobs'[o] = jobs[o]
\* Where each kind of step leaves the handler.
LEMMA StagesAfter ==
  ASSUME KeysTyped, NEW j \in Everyone
  PROVE  /\ \A job \in Standing : Talks(j, job) => Stages(j, job.at)
         /\ \A right \in BOOLEAN : Unlocks(j, right) => Stages(j, "secrets") /\ jobs'[j].right = right
         /\ SavesRing(j) => Stages(j, "activate")
         /\ (Decrypts(j) \/ Activates(j)) /\ keyring.active \in Accounts =>
              Stages(j, "derive") /\ jobs'[j].account = keyring.active
         /\ Derives(j) \/ Locks(j) => Stages(j, "nothing")
<1>1. ASSUME NEW job \in Standing, Talks(j, job) PROVE Stages(j, job.at)
  BY <1>1, OneGoes DEF Talks, Stages
<1>2. ASSUME NEW right \in BOOLEAN, Unlocks(j, right) PROVE Stages(j, "secrets") /\ jobs'[j].right = right
  <2>1. PICK remember \in BOOLEAN : UnlockRing(j, [at |-> "secrets", right |-> right, remember |-> remember])
    BY <1>2 DEF Unlocks
  <2>2. [at |-> "secrets", right |-> right, remember |-> remember] \in Standing
    BY DEF Standing
  <2> QED BY <2>1, <2>2, OneGoes DEF UnlockRing, Stages
<1>3. ASSUME SavesRing(j) PROVE Stages(j, "activate")
  <2>1. [at |-> "activate"] \in Standing
    BY DEF Standing
  <2> QED BY <1>3, <2>1, OneGoes DEF SavesRing, Saves, Stages
<1>4. ASSUME Decrypts(j) \/ Activates(j), keyring.active \in Accounts
      PROVE  Stages(j, "derive") /\ jobs'[j].account = keyring.active
  <2>1. \A remember \in BOOLEAN : [at |-> "derive", account |-> keyring.active, remember |-> remember] \in Standing
    BY <1>4 DEF Standing
  <2>2. jobs[j].at = "secrets" => jobs[j].remember \in BOOLEAN
    BY JobsAre DEF KeysTyped
  <2>3. \E remember \in BOOLEAN :
          Goes(j, [at |-> "derive", account |-> keyring.active, remember |-> remember])
    BY <1>4, <2>2 DEF Decrypts, Activates
  <2> QED BY <2>1, <2>3, OneGoes DEF Stages
<1>5. ASSUME Derives(j) \/ Locks(j) PROVE Stages(j, "nothing")
  <2>1. Nothing \in Standing /\ Nothing.at = "nothing"
    BY DEF Standing, Nothing
  <2> QED BY <1>5, <2>1, OneGoes DEF Derives, Derived, Locks, LockWallet, Ends, Stages
<1> QED BY <1>1, <1>2, <1>3, <1>4, <1>5

\* The active account of a keyring that is loaded is one of its accounts.
LEMMA ActiveIsOne ==
  ASSUME KeysInv, keyring # None
  PROVE  keyring \in Ring /\ keyring.active \in keyring.accounts /\ keyring.active \in Accounts
  BY DEF KeysInv, KeysTyped, Ring

\* The keyring in memory is the one in the vault, whoever is after a key.
LEMMA RingStep ==
  ASSUME KeysInv, Kinds \/ Suspend \/ UNCHANGED keysVars
  PROVE  RingLoaded'
<1> USE DEF Everyone
<1>0. KeysTyped /\ RingLoaded /\ vault # None
  BY NoRingIsNone DEF KeysInv, KeysTyped
<1>1. ASSUME NEW j \in Everyone, NEW job \in Standing, Talks(j, job) PROVE RingLoaded'
  <2>1. Stages(j, job.at)
    BY <1>0, <1>1, StagesAfter
  <2> QED BY <1>0, <1>1, <2>1 DEF RingLoaded, Talks, KeepsKeys, Stages, Adds
<1>2. ASSUME NEW j \in Everyone, NEW right \in BOOLEAN, Unlocks(j, right) PROVE RingLoaded'
  <2>1. keyring' = vault /\ vault' = vault
    BY <1>0, <1>2 DEF Unlocks, UnlockRing, RingLoaded
  <2> QED BY <1>0, <2>1 DEF RingLoaded
<1>3. ASSUME NEW j \in Everyone, SavesRing(j) PROVE RingLoaded'
  <2>1. keyring' = vault' /\ keyring' # None
    BY <1>3, NoRingIsNone DEF SavesRing, Saves
  <2> QED BY <2>1 DEF RingLoaded
<1>4. ASSUME NEW j \in Everyone, Decrypts(j) \/ Activates(j) PROVE RingLoaded'
  <2>1. keyring # None
    BY <1>0, <1>4 DEF Decrypts, Activates, RingLoaded, AfterKey
  <2>2. keyring' = keyring /\ vault' = vault
    BY <1>4 DEF Decrypts, Activates, KeepsKeys
  <2> QED BY <1>0, <2>1, <2>2 DEF RingLoaded
<1>5. ASSUME NEW j \in Everyone, Derives(j) PROVE RingLoaded'
  <2>1. keyring # None
    BY <1>0, <1>5 DEF Derives, Derived, RingLoaded, AfterKey
  <2>2. keyring' = keyring /\ vault' = vault
    BY <1>5 DEF Derives, Derived
  <2> QED BY <1>0, <2>1, <2>2 DEF RingLoaded
<1>6. ASSUME NEW j \in Everyone, Locks(j) PROVE RingLoaded'
  <2>1. Stages(j, "nothing")
    BY <1>0, <1>6, StagesAfter
  <2> QED BY <1>0, <1>6, <2>1 DEF RingLoaded, Locks, LockWallet, Stages, AfterKey, Adds
<1>7. ASSUME NEW j \in Everyone, Waits(j) PROVE RingLoaded'
  <2>1. \A o \in Everyone : jobs'[o].at \in AfterKey \cup Adds => jobs'[o] = jobs[o]
    BY <1>0, <1>7, OneWaits DEF AfterKey, Adds
  <2> QED BY <1>0, <1>7, <2>1 DEF RingLoaded, Waits, KeepsKeys
<1>8. CASE Suspend
  BY <1>8 DEF Suspend, RingLoaded, Nothing, AfterKey, Adds
<1>9. CASE UNCHANGED keysVars
  BY <1>0, <1>9 DEF RingLoaded, keysVars
<1> QED BY <1>1, <1>2, <1>3, <1>4, <1>5, <1>6, <1>7, <1>8, <1>9 DEF Kinds

\* The worker wakes before anybody acts: nobody is after a key while a session is to be taken up.
LEMMA WakesStep ==
  ASSUME KeysInv, Kinds \/ Suspend \/ UNCHANGED keysVars
  PROVE  WakesFirst'
<1> USE DEF Everyone
<1>0. KeysTyped /\ WakesFirst /\ RingLoaded /\ "wake" \notin Handlers /\ None \notin Accounts
  BY KeysAssumption DEF KeysInv
<1>1. ASSUME NEW j \in Everyone, NEW job \in Standing, Talks(j, job) PROVE WakesFirst'
  <2>1. Stages(j, job.at)
    BY <1>0, <1>1, StagesAfter
  <2>2. j = "wake" => jobs'["wake"].at = "nothing"
    BY <1>1, <2>1 DEF Talks, Stages, Nothing
  <2>3. session' = session /\ priv' = priv /\ Reachable
    BY <1>1 DEF Talks, KeepsKeys
  <2>4. j # "wake" => jobs'["wake"] = jobs["wake"]
    BY <2>1 DEF Stages
  <2> QED BY <1>0, <2>2, <2>3, <2>4 DEF WakesFirst, Busy, Reachable, AfterKey
<1>2. ASSUME NEW j \in Everyone, NEW right \in BOOLEAN, Unlocks(j, right) PROVE WakesFirst'
  <2>1. Stages(j, "secrets") /\ jobs'[j].right = right /\ session' = session /\ priv' = priv
    BY <1>0, <1>2, StagesAfter DEF Unlocks, UnlockRing
  <2>2. CASE j = "wake"
    <3>1. right /\ session /\ priv = None
      BY <1>2, <2>2 DEF Unlocks
    <3>2. \A h \in Handlers : jobs'[h] = jobs[h]
      BY <1>0, <2>1, <2>2 DEF Stages
    <3> QED BY <1>0, <2>1, <2>2, <3>1, <3>2 DEF WakesFirst, Busy, AfterKey, Stages
  <2>3. CASE j # "wake"
    <3>1. Reachable /\ jobs'["wake"] = jobs["wake"]
      BY <1>2, <2>1, <2>3 DEF Unlocks, Stages
    <3> QED BY <1>0, <2>1, <3>1 DEF WakesFirst, Busy, Reachable
  <2> QED BY <2>2, <2>3
<1>3. ASSUME NEW j \in Everyone, SavesRing(j) PROVE WakesFirst'
  <2>1. Stages(j, "activate") /\ session' = session /\ priv' = priv /\ Reachable /\ j # "wake"
    BY <1>0, <1>3, StagesAfter DEF SavesRing
  <2>2. jobs'["wake"] = jobs["wake"]
    BY <2>1 DEF Stages
  <2> QED BY <1>0, <2>1, <2>2 DEF WakesFirst, Busy, Reachable
<1>4. ASSUME NEW j \in Everyone, Decrypts(j) \/ Activates(j) PROVE WakesFirst'
  <2>0. keyring # None
    BY <1>0, <1>4 DEF Decrypts, Activates, RingLoaded, AfterKey
  <2>1. Stages(j, "derive") /\ session' = session /\ priv' = priv
    BY <1>0, <1>4, <2>0, ActiveIsOne, StagesAfter DEF Decrypts, Activates, KeepsKeys
  <2>2. CASE j = "wake"
    <3>1. session /\ priv = None
      BY <1>0, <1>4, <2>2 DEF WakesFirst, Decrypts, Activates, Busy, AfterKey
    <3>2. \A h \in Handlers : jobs'[h] = jobs[h]
      BY <1>0, <2>1, <2>2 DEF Stages
    <3> QED BY <1>0, <2>1, <2>2, <3>1, <3>2 DEF WakesFirst, Stages
  <2>3. CASE j # "wake"
    <3>1. Reachable
      BY <1>0, <1>4, <2>3 DEF WakesFirst, Decrypts, Activates, Reachable
    <3>2. jobs'["wake"] = jobs["wake"]
      BY <2>1, <2>3 DEF Stages
    <3> QED BY <1>0, <2>1, <3>1, <3>2 DEF WakesFirst, Busy, Reachable
  <2> QED BY <2>2, <2>3
<1>5. ASSUME NEW j \in Everyone, Derives(j) PROVE WakesFirst'
  <2>1. Stages(j, "nothing") /\ priv' # None
    <3>1. jobs[j].account \in Accounts
      BY <1>0, <1>5, JobsAre DEF Derives, Derived, KeysTyped
    <3> QED BY <1>0, <1>5, <3>1, StagesAfter DEF Derives, Derived
  <2>2. ~(jobs'["wake"].at \in AfterKey)
    <3>1. CASE j = "wake"
      BY <2>1, <3>1 DEF Stages, AfterKey
    <3>2. CASE j # "wake"
      <4>1. ~(session /\ priv = None)
        BY <1>0, <1>5, <3>2 DEF WakesFirst, Derives, Derived
      <4> QED BY <1>0, <2>1, <3>2, <4>1 DEF WakesFirst, Stages, Busy
    <3> QED BY <3>1, <3>2
  <2> QED BY <1>0, <2>1, <2>2 DEF WakesFirst, Busy, Stages, AfterKey
<1>6. ASSUME NEW j \in Everyone, Locks(j) PROVE WakesFirst'
  <2>1. Stages(j, "nothing") /\ j # "wake" /\ ~session' /\ Reachable
    BY <1>0, <1>6, StagesAfter DEF Locks, LockWallet
  <2>2. ~Busy("wake") /\ jobs'["wake"] = jobs["wake"]
    BY <1>0, <2>1 DEF WakesFirst, Stages, Reachable
  <2> QED BY <1>0, <2>1, <2>2 DEF WakesFirst, Busy
<1>7. ASSUME NEW j \in Everyone, Waits(j) PROVE WakesFirst'
  <2>1. session' = session /\ priv' = priv
    BY <1>7 DEF Waits, KeepsKeys
  <2>2. \A h \in Handlers : jobs'[h] = jobs[h] \/ jobs'[h].at = "ensure"
    BY <1>0, <1>7, OneWaits
  <2>3. jobs'["wake"] = jobs["wake"] \/ jobs'["wake"].at = "get"
    BY <1>0, <1>7, OneWaits
  <2>4. jobs'["wake"].at # "nothing"
    BY <1>0, <1>7, OneWaits
  <2> QED BY <1>0, <2>1, <2>2, <2>3, <2>4 DEF WakesFirst, Busy, AfterKey
<1>8. CASE Suspend
  BY <1>8 DEF Suspend, WakesFirst, Nothing, Busy, AfterKey
<1>9. CASE UNCHANGED keysVars
  BY <1>0, <1>9 DEF WakesFirst, keysVars, Busy
<1> QED BY <1>1, <1>2, <1>3, <1>4, <1>5, <1>6, <1>7, <1>8, <1>9 DEF Kinds

\* One at a time: who is after a key is alone, and what it derives is the active account's.
LEMMA OneByOneStep ==
  ASSUME KeysInv, Kinds \/ Suspend \/ UNCHANGED keysVars
  PROVE  OneByOne'
<1> USE DEF Everyone
<1>0. KeysTyped /\ OneByOne /\ RingLoaded
  BY DEF KeysInv
<1>a. ASSUME NEW j \in Everyone, crossed' = (crossed \/ Others(j) # {}), ~crossed'
      PROVE  ~crossed /\ \A o \in Everyone \ {j} : ~Busy(o)
  BY <1>a DEF Others, Busy
<1>b. ASSUME NEW j \in Everyone, Busy(j), ~crossed PROVE \A o \in Everyone \ {j} : ~Busy(o)
  BY <1>0, <1>b DEF OneByOne
<1>c. ASSUME NEW j \in Everyone, NEW at \in AfterKey, Stages(j, at), \A o \in Everyone \ {j} : ~Busy(o),
             at = "secrets" => secrets' = {}, at = "derive" => jobs'[j].account = keyring'.active
      PROVE  OneByOne'
  <2>1. jobs'[j].at = at /\ \A o \in Everyone \ {j} : jobs'[o].at \notin AfterKey
    BY <1>c DEF Stages, Busy
  <2> QED BY <1>c, <2>1 DEF OneByOne, Busy, Quiet, AfterKey
<1>d. ASSUME NEW j \in Everyone, NEW at \in {"nothing", "get", "ensure", "push", "check", "asking",
                                             "origins", "silent", "write"},
             Stages(j, at), crossed' = crossed, keyring' = keyring, secrets' \in {secrets, {}},
             Quiet' /\ ~crossed /\ priv' # None /\ keyring.accounts \subseteq secrets' => priv' = keyring.active
      PROVE  OneByOne'
  <2>1. at \notin AfterKey /\ jobs'[j].at = at /\ \A o \in Everyone \ {j} : jobs'[o] = jobs[o]
    BY <1>d DEF Stages, AfterKey
  <2> QED BY <1>0, <1>d, <2>1 DEF OneByOne, Busy, AfterKey
<1>1. ASSUME NEW j \in Everyone, NEW job \in Standing, Talks(j, job) PROVE OneByOne'
  <2>1. Stages(j, job.at)
    BY <1>0, <1>1, StagesAfter
  <2>2. /\ job.at \in {"nothing", "get", "ensure", "push", "check", "asking", "origins", "silent", "write"}
        /\ crossed' = crossed /\ keyring' = keyring /\ secrets' = secrets /\ priv' = priv
    BY <1>1, JobsAre DEF Talks, KeepsKeys, AfterKey
  <2>3. ASSUME Quiet', ~crossed, priv # None, keyring.accounts \subseteq secrets PROVE priv = keyring.active
    <3>1. keyring.active \in secrets
      BY <1>0, <2>3, ActiveIsOne DEF RingLoaded
    <3>2. ~Busy(j)
      BY <1>1, <2>3, <3>1 DEF Talks
    <3>3. Quiet
      BY <2>1, <2>3, <3>2 DEF Quiet, Stages, Busy
    <3> QED BY <1>0, <2>3, <3>3 DEF OneByOne
  <2> QED BY <1>d, <2>1, <2>2, <2>3
<1>2. ASSUME NEW j \in Everyone, NEW right \in BOOLEAN, Unlocks(j, right) PROVE OneByOne'
  <2>1. Stages(j, "secrets") /\ secrets' = {} /\ crossed' = (crossed \/ Others(j) # {})
    BY <1>0, <1>2, StagesAfter DEF Unlocks, UnlockRing
  <2> SUFFICES ASSUME ~crossed' PROVE OneByOne'
    BY DEF OneByOne
  <2> QED BY <1>a, <1>c, <2>1 DEF AfterKey
<1>3. ASSUME NEW j \in Everyone, SavesRing(j) PROVE OneByOne'
  <2>1. Stages(j, "activate") /\ crossed' = (crossed \/ Others(j) # {})
    BY <1>0, <1>3, StagesAfter DEF SavesRing, Saves
  <2> SUFFICES ASSUME ~crossed' PROVE OneByOne'
    BY DEF OneByOne
  <2> QED BY <1>a, <1>c, <2>1 DEF AfterKey
<1>4. ASSUME NEW j \in Everyone, Decrypts(j) \/ Activates(j) PROVE OneByOne'
  <2>0. keyring # None /\ Busy(j)
    BY <1>0, <1>4 DEF Decrypts, Activates, RingLoaded, AfterKey, Busy
  <2>1. Stages(j, "derive") /\ jobs'[j].account = keyring.active
    BY <1>0, <1>4, <2>0, ActiveIsOne, StagesAfter
  <2>2. keyring' = keyring /\ crossed' = crossed
    BY <1>4 DEF Decrypts, Activates, KeepsKeys
  <2> SUFFICES ASSUME ~crossed' PROVE OneByOne'
    BY DEF OneByOne
  <2> QED BY <1>b, <1>c, <2>0, <2>1, <2>2 DEF AfterKey
<1>5. ASSUME NEW j \in Everyone, Derives(j) PROVE OneByOne'
  <2>1. Stages(j, "nothing") /\ crossed' = crossed /\ keyring' = keyring /\ secrets' = secrets
    BY <1>0, <1>5, StagesAfter DEF Derives, Derived, keysHistory
  <2>2. ~crossed => priv' = keyring.active
    BY <1>0, <1>5 DEF OneByOne, Derives, Derived
  <2> QED BY <1>d, <2>1, <2>2
<1>6. ASSUME NEW j \in Everyone, Locks(j) PROVE OneByOne'
  <2>1. Stages(j, "nothing") /\ crossed' = crossed /\ keyring' = keyring /\ secrets' = {} /\ priv' = None
    BY <1>0, <1>6, StagesAfter DEF Locks, LockWallet
  <2> QED BY <1>d, <2>1
<1>7. ASSUME NEW j \in Everyone, Waits(j) PROVE OneByOne'
  <2>1. crossed' = crossed /\ keyring' = keyring /\ secrets' = secrets /\ priv' = priv
    BY <1>7 DEF Waits, KeepsKeys
  <2>2. \A o \in Everyone : /\ jobs'[o].at \in AfterKey <=> jobs[o].at \in AfterKey
                            /\ jobs'[o].at \in AfterKey => jobs'[o] = jobs[o]
    <3>1. jobs[j].at = "nothing"
      BY <1>7 DEF Waits, Nothing
    <3> QED BY <1>0, <1>7, <3>1, OneWaits DEF AfterKey
  <2> QED BY <1>0, <2>1, <2>2 DEF OneByOne, Busy, Quiet, AfterKey
<1>8. CASE Suspend
  BY <1>8 DEF Suspend, OneByOne, Busy, Quiet, Nothing, AfterKey
<1>9. CASE UNCHANGED keysVars
  BY <1>0, <1>9 DEF OneByOne, keysVars, keysHistory, Busy, Quiet
<1> QED BY <1>1, <1>2, <1>3, <1>4, <1>5, <1>6, <1>7, <1>8, <1>9 DEF Kinds

\* A wallet that was locked has nothing, and nobody in it who could give it a key.
LEMMA LockedStep ==
  ASSUME KeysInv, Kinds \/ Suspend \/ UNCHANGED keysVars
  PROVE  StaysLocked'
<1> USE DEF Everyone
<1>0. KeysTyped /\ StaysLocked /\ WakesFirst /\ "wake" \notin Handlers
  BY KeysAssumption DEF KeysInv
<1>1. ASSUME NEW j \in Everyone, NEW job \in Standing, Talks(j, job) PROVE StaysLocked'
  <2>1. Stages(j, job.at)
    BY <1>0, <1>1, StagesAfter
  <2>2. job.at \notin AfterKey /\ (job.at = "push" => pass) /\ KeepsKeys
    BY <1>1 DEF Talks
  <2> QED BY <1>0, <2>1, <2>2 DEF StaysLocked, KeepsKeys, Stages, AfterKey
<1>2. ASSUME NEW j \in Everyone, NEW right \in BOOLEAN, Unlocks(j, right) PROVE StaysLocked'
  <2>1. Stages(j, "secrets") /\ jobs'[j].right = right
    BY <1>0, <1>2, StagesAfter
  <2>2. secrets' = {} /\ UNCHANGED <<pass, priv, session, overtaken>>
    BY <1>2 DEF Unlocks, UnlockRing
  <2>3. CASE j = "wake"
    <3>1. session /\ locked' = locked
      BY <1>2, <2>3 DEF Unlocks
    <3> QED BY <1>0, <2>2, <3>1 DEF StaysLocked
  <2>4. CASE j # "wake"
    <3>1. locked' = (locked /\ ~right)
      BY <1>2, <2>4 DEF Unlocks
    <3> QED BY <1>0, <2>1, <2>2, <3>1 DEF StaysLocked, Stages
  <2> QED BY <2>3, <2>4
<1>3. ASSUME NEW j \in Everyone, SavesRing(j) PROVE StaysLocked'
  BY <1>3 DEF SavesRing, StaysLocked
<1>4. ASSUME NEW j \in Everyone, Decrypts(j) \/ Activates(j) \/ Derives(j) PROVE StaysLocked'
  <2>1. locked' = locked /\ overtaken' = overtaken
    BY <1>4 DEF Decrypts, Activates, Derives, Derived, KeepsKeys, keysHistory
  <2>2. ~(locked /\ ~overtaken)
    <3>1. CASE j = "wake"
      <4>1. session
        BY <1>0, <1>4, <3>1 DEF WakesFirst, Decrypts, Activates, Derives, Derived, Busy, AfterKey
      <4> QED BY <1>0, <4>1 DEF StaysLocked
    <3>2. CASE j # "wake"
      BY <1>0, <1>4, <3>2 DEF StaysLocked, Decrypts, Activates, Derives, Derived
    <3> QED BY <3>1, <3>2
  <2> QED BY <2>1, <2>2 DEF StaysLocked
<1>5. ASSUME NEW j \in Everyone, Locks(j) PROVE StaysLocked'
  <2>1. Stages(j, "nothing") /\ priv' = None /\ secrets' = {} /\ pass' = FALSE /\ session' = FALSE
    BY <1>0, <1>5, StagesAfter DEF Locks, LockWallet
  <2>2. ~overtaken' => \A o \in Handlers \ {j} : jobs[o].at \notin AfterKey \cup Adds
    BY <1>5 DEF Locks, LockWallet
  <2> QED BY <2>1, <2>2 DEF StaysLocked, Stages, AfterKey, Adds
<1>6. ASSUME NEW j \in Everyone, Waits(j) PROVE StaysLocked'
  <2>1. \A h \in Handlers : jobs'[h] = jobs[h] \/ jobs'[h].at = "ensure"
    BY <1>0, <1>6, OneWaits
  <2> QED BY <1>0, <1>6, <2>1 DEF StaysLocked, Waits, KeepsKeys
<1>7. CASE Suspend
  BY <1>0, <1>7 DEF Suspend, StaysLocked, Nothing
<1>8. CASE UNCHANGED keysVars
  BY <1>0, <1>8 DEF StaysLocked, keysVars, keysHistory
<1> QED BY <1>1, <1>2, <1>3, <1>4, <1>5, <1>6, <1>7, <1>8 DEF Kinds

\* A worker that starts: the keyring is in the vault, and the session may be there from before.
LEMMA KeysStart == KeysInit => KeysInv
<1> SUFFICES ASSUME KeysInit PROVE KeysInv
  OBVIOUS
<1> USE DEF Everyone
<1>1. Nothing \in Standing /\ Nothing.at = "nothing"
  BY DEF Standing, Nothing
<1>2. KeysTyped
  BY <1>1 DEF KeysInit, KeysTyped
<1>3. SitesTyped
  BY DEF KeysInit, SitesTyped
<1>4. jobs \in [Everyone -> Standing] /\ \A j \in Everyone : jobs[j].at = "nothing"
  BY <1>1, <1>2 DEF KeysInit, KeysTyped
<1>5. RingLoaded
  BY <1>4 DEF KeysInit, RingLoaded, AfterKey, Adds
<1>6. WakesFirst /\ OneByOne /\ StaysLocked
  BY <1>4 DEF KeysInit, WakesFirst, OneByOne, StaysLocked, Busy, Quiet, AfterKey
<1> QED BY <1>2, <1>3, <1>5, <1>6 DEF KeysInv

\* THEOREM: the whole inductive invariant of the wallet's worker (background.js, wallet.js): it wakes
\* before anybody acts, who is after a key alone gets the active account's, and a locked wallet has nobody
\* in it who could give it a key.
THEOREM KeysInvariant == KeysSpec => []KeysInv
<1>1. KeysInit => KeysInv
  BY KeysStart
<1>2. KeysInv /\ [KeysNext]_keysVars => KeysInv'
  <2> SUFFICES ASSUME KeysInv, [KeysNext]_keysVars PROVE KeysInv'
    OBVIOUS
  <2>1. Kinds \/ Suspend \/ UNCHANGED keysVars
    BY StepKinds
  <2>2. SitesTyped'
    BY SitesStep DEF KeysInv
  <2> QED BY <2>1, <2>2, KeysTypedStep, RingStep, WakesStep, OneByOneStep, LockedStep DEF KeysInv
<1> QED BY <1>1, <1>2, PTL DEF KeysSpec

\* THEOREM: the wallet has the key its owner wants it to have, or none: locked is locked, and the key is
\* the active account's, for every number of accounts, sites and messages at a time.
THEOREM KeysCorrect == KeysSpec => []KeysSound
<1>1. KeysInv => KeysSound
  <2> SUFFICES ASSUME KeysInv PROVE KeysSound
    OBVIOUS
  <2>1. KeysTypeOK
    BY DEF KeysInv, KeysTyped, SitesTyped, KeysTypeOK
  <2>2. LockedIsLocked
    BY DEF KeysInv, StaysLocked, LockedIsLocked
  <2>3. KeyOfActive
    BY DEF KeysInv, OneByOne, RingLoaded, KeyOfActive
  <2> QED BY <2>1, <2>2, <2>3 DEF KeysSound
<1> QED BY <1>1, KeysInvariant, PTL

-----------------------------------------------------------------------------
(* The line: no call is left that nothing will settle.                      *)

\* A client that its handlers may be given: its sockets are there, and its ids are used up.
Formed(l) ==
  /\ l \in Client
  /\ l.ws # None => l.ws \in DOMAIN l.sockets
  /\ l.connecting # None => l.connecting.socket \in DOMAIN l.sockets
  /\ \A id \in l.pending : id <= l.lastId
\* An attempt waits for its socket to open, or greets on the open one that is in use.
Attempting(l) ==
  l.connecting # None =>
    LET a == l.connecting IN
      \/ l.sockets[a.socket].state = "connecting" /\ a.greeting = None
      \/ l.sockets[a.socket].state = "open" /\ l.ws = a.socket /\ a.greeting \in l.pending
\* Where callers are.
CallersTyped(c) == c \in [Callers -> [at : {"idle", "connecting", "sent", "answered", "failed"}, id : Nat]]
\* Each caller has an id of its own that is pending, and is nobody's greeting.
OwnIds(l, c) ==
  \A x \in Callers :
    /\ c[x].at = "sent" =>
         /\ c[x].id \in l.pending
         /\ l.connecting # None => l.connecting.greeting # c[x].id
         /\ \A y \in Callers \ {x} : c[y] # c[x]
    /\ c[x].at = "connecting" => l.connecting # None
LineInv == Formed(line) /\ Attempting(line) /\ CallersTyped(calling) /\ OwnIds(line, calling)

\* A sequence with one element replaced.
LEMMA ReplaceOne ==
  ASSUME NEW S, NEW f \in Seq(S), NEW q \in DOMAIN f, NEW x \in S, NEW g, g = [f EXCEPT ![q] = x]
  PROVE  /\ f[q] \in S /\ g \in Seq(S) /\ Len(g) = Len(f) /\ DOMAIN g = DOMAIN f /\ g[q] = x
         /\ \A k \in DOMAIN f \ {q} : g[k] = f[k]
<1>1. Len(f) \in Nat /\ f \in [1 .. Len(f) -> S] /\ DOMAIN f = 1 .. Len(f)
  OBVIOUS
<1>2. g \in [1 .. Len(f) -> S] /\ g[q] = x /\ \A k \in DOMAIN f \ {q} : g[k] = f[k]
  BY <1>1
<1> QED BY <1>1, <1>2

\* What a handler leaves of a client that it only dropped, sent on, or had a socket of change state.
SameBut(l, m) ==
  m.connecting = l.connecting /\ m.called = l.called /\ DOMAIN m.sockets = DOMAIN l.sockets

\* close: the socket in use is on its way out.
LEMMA DroppedFine ==
  ASSUME NEW l, Formed(l)
  PROVE  /\ Formed(Dropped(l)) /\ SameBut(l, Dropped(l))
         /\ Dropped(l).pending = l.pending /\ Dropped(l).lastId = l.lastId
<1>1. CASE l.ws = None
  BY <1>1 DEF Dropped, SameBut
<1>2. CASE l.ws # None
  <2> DEFINE k == l.ws
             was == l.sockets[k]
             after == IF was.state = "open" THEN [state |-> "closing", asked |-> {}] ELSE was
             sockets == [l.sockets EXCEPT ![k] = after]
  <2>1. l \in Client /\ k \in DOMAIN l.sockets /\ l.sockets \in Seq(Socket)
    BY <1>2 DEF Formed, Client
  <2>2. was \in Socket
    BY <2>1, ReplaceOne
  <2>3. after \in Socket
    BY <2>2 DEF Socket
  <2>4. Dropped(l) = [l EXCEPT !.ws = None, !.sockets = sockets]
    BY <1>2, <2>1 DEF Dropped, Client
  <2> HIDE DEF after
  <2>5. sockets \in Seq(Socket) /\ DOMAIN sockets = DOMAIN l.sockets
    BY <2>1, <2>3, ReplaceOne
  <2> HIDE DEF sockets
  <2>6. /\ Dropped(l) \in Client /\ Dropped(l).ws = None /\ Dropped(l).sockets = sockets
        /\ Dropped(l).connecting = l.connecting /\ Dropped(l).called = l.called
        /\ Dropped(l).pending = l.pending /\ Dropped(l).lastId = l.lastId
    BY <2>1, <2>4, <2>5 DEF Client
  <2> QED BY <2>1, <2>5, <2>6 DEF Formed, SameBut
<1> QED BY <1>1, <1>2

\* _open: a new socket, on which nothing is sent yet.
LEMMA TriedFine ==
  ASSUME NEW l, Formed(l), NEW n \in 1 .. Servers, NEW failed \in SUBSET (1 .. Servers)
  PROVE  /\ Formed(Tried(l, n, failed)) /\ Attempting(Tried(l, n, failed))
         /\ Tried(l, n, failed).connecting # None /\ Tried(l, n, failed).connecting.greeting = None
         /\ Tried(l, n, failed).pending = l.pending
<1> DEFINE new == [state |-> "connecting", asked |-> {}]
           attempt == [server |-> n, socket |-> Len(l.sockets) + 1, greeting |-> None, failed |-> failed]
           sockets == Append(l.sockets, new)
           t == Tried(l, n, failed)
<1>1. l \in Client /\ l.sockets \in Seq(Socket)
  BY DEF Formed, Client
<1>2. new \in Socket /\ new.state = "connecting"
  BY DEF Socket
<1>3. attempt \in Attempt /\ attempt.socket = Len(l.sockets) + 1 /\ attempt.greeting = None
  BY <1>1 DEF Attempt
<1> HIDE DEF new
<1>4. sockets \in Seq(Socket) /\ DOMAIN sockets = DOMAIN l.sockets \cup {Len(l.sockets) + 1}
      /\ sockets[Len(l.sockets) + 1] = new
  BY <1>1, <1>2
<1>5. t = [l EXCEPT !.sockets = sockets, !.connecting = attempt]
  BY DEF Tried, new
<1> HIDE DEF sockets, attempt
<1>6. t \in Client /\ t.sockets = sockets /\ t.connecting = attempt /\ t.ws = l.ws /\ t.pending = l.pending
      /\ t.lastId = l.lastId
  BY <1>1, <1>3, <1>4, <1>5 DEF Client
<1> HIDE DEF t
<1>7. attempt # None
  BY <1>3, NoAttemptIsNone
<1>8. Formed(t)
  BY <1>3, <1>4, <1>6 DEF Formed
<1>9. Attempting(t)
  BY <1>2, <1>3, <1>4, <1>6 DEF Attempting
<1> QED BY <1>3, <1>6, <1>7, <1>8, <1>9 DEF t

\* _rpc: the ids that follow, asked on the socket in use.
LEMMA SentFine ==
  ASSUME NEW l, Formed(l), NEW n \in Nat, l.ws # None
  PROVE  /\ Formed(SentNow(l, n)) /\ SameBut(l, SentNow(l, n)) /\ SentNow(l, n).ws = l.ws
         /\ SentNow(l, n).lastId = l.lastId + n
         /\ SentNow(l, n).pending = l.pending \cup (l.lastId + 1 .. l.lastId + n)
         /\ \A k \in DOMAIN l.sockets : SentNow(l, n).sockets[k].state = l.sockets[k].state
<1> DEFINE ids == l.lastId + 1 .. l.lastId + n
           k == l.ws
           was == l.sockets[k]
           after == [was EXCEPT !.asked = @ \cup ids]
           sockets == [l.sockets EXCEPT ![k] = after]
           t == SentNow(l, n)
<1>1. l \in Client /\ k \in DOMAIN l.sockets /\ l.sockets \in Seq(Socket) /\ l.lastId \in Nat /\ l.pending \subseteq Nat
  BY DEF Formed, Client
<1>2. was \in Socket
  BY <1>1, ReplaceOne
<1>3. ids \subseteq Nat /\ \A id \in ids : id <= l.lastId + n
  BY <1>1
<1>4. after \in Socket /\ after.state = was.state
  BY <1>2, <1>3 DEF Socket
<1>5. t = [l EXCEPT !.lastId = l.lastId + n, !.pending = l.pending \cup ids, !.sockets = sockets]
  BY <1>1 DEF SentNow, Client
<1> HIDE DEF after, ids
<1>6. /\ sockets \in Seq(Socket) /\ DOMAIN sockets = DOMAIN l.sockets /\ sockets[k] = after
      /\ \A j \in DOMAIN l.sockets \ {k} : sockets[j] = l.sockets[j]
  BY <1>1, <1>4, ReplaceOne
<1> HIDE DEF sockets
<1>7. l.lastId + n \in Nat /\ l.pending \cup ids \in SUBSET Nat
  <2>1. l.lastId + n \in Nat
    BY <1>1
  <2>2. l.pending \cup ids \in SUBSET Nat
    BY <1>1, <1>3
  <2> QED BY <2>1, <2>2
<1>8. /\ t \in Client /\ t.sockets = sockets /\ t.ws = l.ws /\ t.connecting = l.connecting /\ t.called = l.called
      /\ t.lastId = l.lastId + n /\ t.pending = l.pending \cup ids
  BY <1>1, <1>5, <1>6, <1>7 DEF Client
<1> HIDE DEF t
<1>9. \A j \in DOMAIN l.sockets : t.sockets[j].state = l.sockets[j].state
  BY <1>4, <1>6, <1>8
<1>10. \A id \in t.pending : id <= t.lastId
  <2>1. \A id \in l.pending : id \in Nat /\ id <= l.lastId
    BY <1>1 DEF Formed
  <2> DEFINE last == l.lastId
  <2>2. last \in Nat /\ (\A id \in l.pending : id \in Nat /\ id <= last) /\ \A id \in ids : id <= last + n
    BY <1>1, <1>3, <2>1
  <2>3. t.lastId = last + n
    BY <1>8
  <2> HIDE DEF last
  <2>4. \A id \in l.pending : id <= last + n
    BY <2>2
  <2> QED BY <1>8, <2>2, <2>3, <2>4
<1>11. Formed(t)
  BY <1>1, <1>6, <1>8, <1>10 DEF Formed
<1>12. SameBut(l, t)
  BY <1>6, <1>8 DEF SameBut
<1> QED BY <1>8, <1>9, <1>11, <1>12 DEF t, ids

\* A socket that changes its state.
LEMMA BecomesFine ==
  ASSUME Formed(line), NEW k \in DOMAIN line.sockets, NEW state \in {"connecting", "open", "closing", "closed"}
  PROVE  /\ Formed(Becomes(k, state)) /\ SameBut(line, Becomes(k, state))
         /\ Becomes(k, state).ws = line.ws /\ Becomes(k, state).lastId = line.lastId
         /\ Becomes(k, state).pending = line.pending
         /\ Becomes(k, state).sockets[k].state = state
         /\ \A j \in DOMAIN line.sockets \ {k} : Becomes(k, state).sockets[j] = line.sockets[j]
<1> DEFINE was == line.sockets[k]
           after == [state |-> state, asked |-> IF state = "open" THEN was.asked ELSE {}]
           sockets == [line.sockets EXCEPT ![k] = after]
           t == Becomes(k, state)
<1>1. line \in Client /\ line.sockets \in Seq(Socket)
  BY DEF Formed, Client
<1>2. was \in Socket
  <2> DEFINE f == line.sockets
  <2>1. f \in Seq(Socket) /\ k \in DOMAIN f
    BY <1>1
  <2> HIDE DEF f
  <2>2. f[k] \in Socket
    BY <2>1, ReplaceOne
  <2> QED BY <2>2 DEF f
<1>3. after \in Socket /\ after.state = state
  BY <1>2 DEF Socket
<1>4. t = [line EXCEPT !.sockets = sockets]
  BY <1>1 DEF Becomes, Client
<1> HIDE DEF after
<1>5. /\ sockets \in Seq(Socket) /\ DOMAIN sockets = DOMAIN line.sockets /\ sockets[k] = after
      /\ \A j \in DOMAIN line.sockets \ {k} : sockets[j] = line.sockets[j]
  BY <1>1, <1>3, ReplaceOne
<1> HIDE DEF sockets
<1>6. /\ t \in Client /\ t.sockets = sockets /\ t.ws = line.ws /\ t.connecting = line.connecting
      /\ t.called = line.called /\ t.lastId = line.lastId /\ t.pending = line.pending
  BY <1>1, <1>4, <1>5 DEF Client
<1> HIDE DEF t
<1>7. Formed(t) /\ SameBut(line, t)
  BY <1>5, <1>6 DEF Formed, SameBut
<1> QED BY <1>3, <1>5, <1>6, <1>7 DEF t

\* Callers that come to something are idle again; the rest stay where they are.
LEMMA ComesTo ==
  ASSUME CallersTyped(calling), NEW who \in SUBSET Callers, NEW how \in {"failed", "answered"}
  PROVE  /\ CallersTyped(Comes(who, how))
         /\ \A x \in Callers : x \in who => Comes(who, how)[x].at = how
         /\ \A x \in Callers \ who : Comes(who, how)[x] = calling[x]
<1> DEFINE came == [at |-> how, id |-> 0]
<1>1. came \in [at : {"idle", "connecting", "sent", "answered", "failed"}, id : Nat] /\ came.at = how
  OBVIOUS
<1>2. Comes(who, how) = [x \in Callers |-> IF x \in who THEN came ELSE calling[x]]
  BY DEF Comes
<1> HIDE DEF came
<1> QED BY <1>1, <1>2 DEF CallersTyped

\* A connection that fails: the next server is tried, or all that waited are told.
LEMMA NextServerRight ==
  ASSUME LineInv, NEW l, Formed(l), l.connecting = line.connecting, l.connecting # None,
         NEW who \in SUBSET Callers, NEW itself \in BOOLEAN,
         \A x \in Callers \ who : calling[x].at = "sent" => calling[x].id \in l.pending,
         NextServer(l, who, itself)
  PROVE  LineInv'
<1> DEFINE n == l.connecting.server
           failed == l.connecting.failed \cup IF itself THEN {n} ELSE {}
           d == Dropped(l)
<1>0. CallersTyped(calling) /\ OwnIds(line, calling)
  BY DEF LineInv
<1>1. n \in 1 .. Servers /\ failed \in SUBSET (1 .. Servers) /\ Servers \in Nat
  <2>1. l.connecting \in Attempt
    BY DEF Formed, Client
  <2> QED BY <2>1, LineAssumption DEF Attempt
<1>2. Formed(d) /\ d.pending = l.pending
  BY DroppedFine
<1>3. CASE n < Servers
  <2> DEFINE t == Tried(d, n + 1, failed)
             c == Comes(who, "failed")
  <2>1. line' = t /\ calling' = c
    BY <1>3 DEF NextServer, Settles
  <2>2. n + 1 \in 1 .. Servers
    BY <1>1, <1>3
  <2>3. Formed(t) /\ Attempting(t) /\ t.connecting # None /\ t.connecting.greeting = None /\ t.pending = l.pending
    <3> HIDE DEF failed, d, n
    <3> QED BY <1>1, <1>2, <2>2, TriedFine
  <2>4. /\ CallersTyped(c) /\ \A x \in who : c[x].at = "failed"
        /\ \A x \in Callers \ who : c[x] = calling[x]
    BY <1>0, ComesTo
  <2> HIDE DEF t, c
  <2>5. ASSUME NEW x \in Callers, c[x].at = "sent"
        PROVE  /\ c[x].id \in t.pending /\ t.connecting.greeting # c[x].id
               /\ \A y \in Callers \ {x} : c[y] # c[x]
    <3>1. x \notin who /\ c[x] = calling[x]
      BY <2>4, <2>5
    <3>2. calling[x].id \in Nat
      BY <1>0 DEF CallersTyped
    <3>3. c[x].id \in t.pending /\ t.connecting.greeting # c[x].id
      BY <2>3, <2>5, <3>1, <3>2, NoAttemptIsNone
    <3>4. ASSUME NEW y \in Callers \ {x} PROVE c[y] # c[x]
      <4>1. CASE y \in who
        BY <2>4, <2>5, <4>1
      <4>2. CASE y \notin who
        BY <1>0, <2>4, <2>5, <3>1, <4>2 DEF OwnIds
      <4> QED BY <4>1, <4>2
    <3> QED BY <3>3, <3>4
  <2>6. OwnIds(t, c)
    BY <2>3, <2>5 DEF OwnIds
  <2> QED BY <2>1, <2>3, <2>4, <2>6 DEF LineInv
<1>4. CASE ~(n < Servers)
  <2> DEFINE t == [d EXCEPT !.connecting = None, !.gaveUpOn = (1 .. Servers) \ failed]
             c == Comes(who \cup Waiting, "failed")
  <2>1. line' = t /\ calling' = c
    BY <1>4 DEF NextServer, Settles
  <2>2. t \in Client /\ t.ws = d.ws /\ t.sockets = d.sockets /\ t.pending = l.pending /\ t.lastId = d.lastId
        /\ t.connecting = None
    BY <1>2 DEF Formed, Client
  <2>3. Formed(t) /\ Attempting(t)
    BY <1>2, <2>2 DEF Formed, Attempting
  <2>4. /\ CallersTyped(c) /\ \A x \in who \cup Waiting : c[x].at = "failed"
        /\ \A x \in Callers \ (who \cup Waiting) : c[x] = calling[x]
    BY <1>0, ComesTo DEF Waiting
  <2> HIDE DEF t, c
  <2>5. ASSUME NEW x \in Callers, c[x].at = "sent"
        PROVE  c[x].id \in t.pending /\ \A y \in Callers \ {x} : c[y] # c[x]
    <3>1. x \notin who \cup Waiting /\ c[x] = calling[x]
      BY <2>4, <2>5
    <3>2. c[x].id \in t.pending
      BY <2>2, <2>5, <3>1
    <3>3. ASSUME NEW y \in Callers \ {x} PROVE c[y] # c[x]
      <4>1. CASE y \in who \cup Waiting
        BY <2>4, <2>5, <4>1
      <4>2. CASE y \notin who \cup Waiting
        BY <1>0, <2>4, <2>5, <3>1, <4>2 DEF OwnIds
      <4> QED BY <4>1, <4>2
    <3> QED BY <3>2, <3>3
  <2>6. ASSUME NEW x \in Callers PROVE c[x].at # "connecting"
    BY <2>4 DEF Waiting
  <2>7. OwnIds(t, c)
    BY <2>2, <2>5, <2>6 DEF OwnIds
  <2> QED BY <2>1, <2>3, <2>4, <2>7 DEF LineInv
<1> QED BY <1>3, <1>4

\* Requests that fail: their callers are told, and a greeting among them takes its server with it.
LEMMA FailRight ==
  ASSUME LineInv, NEW l, Formed(l), l.connecting = line.connecting, NEW ids, NEW itself \in BOOLEAN,
         \A id \in line.pending : id \in ids \/ id \in l.pending,
         ~(Greeting # None /\ Greeting \in ids) => Attempting(l),
         Fail(l, ids, itself)
  PROVE  LineInv'
<1>0. CallersTyped(calling) /\ OwnIds(line, calling)
  BY DEF LineInv
<1>1. Who(ids) \in SUBSET Callers /\ \A x \in Callers \ Who(ids) : calling[x].at = "sent" => calling[x].id \in l.pending
  BY <1>0 DEF Who, OwnIds
<1>2. CASE Greeting # None /\ Greeting \in ids
  <2>1. NextServer(l, Who(ids), itself)
    BY <1>2 DEF Fail
  <2>2. l.connecting # None
    BY <1>2 DEF Greeting
  <2> QED BY <1>1, <2>1, <2>2, NextServerRight
<1>3. CASE ~(Greeting # None /\ Greeting \in ids)
  <2> DEFINE c == Comes(Who(ids), "failed")
  <2>1. line' = l /\ calling' = c
    BY <1>3 DEF Fail, Settles
  <2>2. /\ CallersTyped(c) /\ \A x \in Who(ids) : c[x].at = "failed"
        /\ \A x \in Callers \ Who(ids) : c[x] = calling[x]
    BY <1>0, <1>1, ComesTo
  <2> HIDE DEF c
  <2>3. OwnIds(l, c)
    <3> SUFFICES ASSUME NEW x \in Callers
                 PROVE  /\ c[x].at = "sent" =>
                             /\ c[x].id \in l.pending
                             /\ l.connecting # None => l.connecting.greeting # c[x].id
                             /\ \A y \in Callers \ {x} : c[y] # c[x]
                        /\ c[x].at = "connecting" => l.connecting # None
      BY DEF OwnIds
    <3>1. CASE x \in Who(ids)
      BY <2>2, <3>1
    <3>2. CASE x \notin Who(ids)
      <4>1. c[x] = calling[x]
        BY <2>2, <3>2
      <4>2. ASSUME c[x].at = "sent", NEW y \in Callers \ {x} PROVE c[y] # c[x]
        <5>1. CASE y \in Who(ids)
          BY <2>2, <4>2, <5>1
        <5>2. CASE y \notin Who(ids)
          BY <1>0, <2>2, <4>1, <4>2, <5>2 DEF OwnIds
        <5> QED BY <5>1, <5>2
      <4> QED BY <1>0, <1>1, <3>2, <4>1, <4>2 DEF OwnIds
    <3> QED BY <3>1, <3>2
  <2> QED BY <1>3, <2>1, <2>2, <2>3 DEF LineInv
<1> QED BY <1>2, <1>3

\* connect and _rpc: who calls waits on the socket there is, or for one.
LEMMA CallRight ==
  ASSUME LineInv, NEW c \in Callers, Call(c)
  PROVE  LineInv'
<1> DEFINE l == [line EXCEPT !.called = @ + 1]
<1>0. /\ Formed(line) /\ Attempting(line) /\ CallersTyped(calling) /\ OwnIds(line, calling)
      /\ line \in Client /\ line.lastId \in Nat /\ line.called \in 0 .. MaxCalled /\ MaxCalled \in Nat
      /\ Servers \in Nat \ {0} /\ line.called < MaxCalled
  BY LineAssumption DEF LineInv, Formed, Client, Call
<1>1. /\ l \in Client /\ l.ws = line.ws /\ l.pending = line.pending /\ l.lastId = line.lastId
      /\ l.connecting = line.connecting /\ l.sockets = line.sockets
  <2>1. line.called + 1 \in 0 .. MaxCalled
    BY <1>0
  <2> QED BY <1>0, <2>1 DEF Client
<1>2. Formed(l) /\ Attempting(l)
  BY <1>0, <1>1 DEF Formed, Attempting
<1>3. CASE Connected /\ Settles(SentNow(l, 1), [calling EXCEPT ![c] = [at |-> "sent", id |-> line.lastId + 1]])
  <2> DEFINE t == SentNow(l, 1)
             last == line.lastId
             sent == [at |-> "sent", id |-> last + 1]
             d == [calling EXCEPT ![c] = sent]
  <2>1. line' = t /\ calling' = d
    BY <1>3 DEF Settles
  <2>2. /\ Formed(t) /\ t.connecting = l.connecting /\ t.ws = l.ws
        /\ t.pending = l.pending \cup (last + 1 .. last + 1)
        /\ \A k \in DOMAIN l.sockets : t.sockets[k].state = l.sockets[k].state
    <3>1. l.ws # None /\ 1 \in Nat
      BY <1>1, <1>3 DEF Connected
    <3> HIDE DEF l
    <3>2. /\ Formed(t) /\ SameBut(l, t) /\ t.ws = l.ws /\ t.pending = l.pending \cup (l.lastId + 1 .. l.lastId + 1)
          /\ \A k \in DOMAIN l.sockets : t.sockets[k].state = l.sockets[k].state
      BY <1>2, <3>1, SentFine
    <3> QED BY <1>1, <3>2 DEF SameBut
  <2>3. sent \in [at : {"idle", "connecting", "sent", "answered", "failed"}, id : Nat] /\ sent.at = "sent" /\ sent.id = last + 1
    BY <1>0
  <2> HIDE DEF t, sent
  <2>4. CallersTyped(d) /\ d[c] = sent /\ \A x \in Callers \ {c} : d[x] = calling[x]
    BY <1>0, <2>3 DEF CallersTyped
  <2>5. last + 1 \in t.pending /\ l.pending \subseteq t.pending
    BY <1>0, <2>2
  <2>6. Attempting(t)
    BY <1>2, <2>2, <2>5 DEF Attempting, Formed
  <2>7. \A id \in line.pending : id # last + 1
    <3>1. \A id \in line.pending : id \in Nat /\ id <= last
      BY <1>0 DEF Formed, Client
    <3>2. last \in Nat
      BY <1>0
    <3> HIDE DEF last
    <3> QED BY <3>1, <3>2
  <2>8. line.connecting # None => line.connecting.greeting # last + 1
    <3>1. last + 1 \in Nat
      BY <1>0
    <3> HIDE DEF last
    <3> QED BY <1>0, <2>7, <3>1, NoAttemptIsNone DEF Attempting
  <2> HIDE DEF d, last
  <2>9. ASSUME NEW x \in Callers, d[x].at = "sent", NEW y \in Callers \ {x} PROVE d[y] # d[x]
    <3>1. CASE x = c
      <4>1. y # c /\ d[y] = calling[y]
        BY <2>4, <3>1
      <4>2. ASSUME d[y] = d[x] PROVE FALSE
        <5>1. calling[y].at = "sent" /\ calling[y].id = last + 1
          BY <2>3, <2>4, <3>1, <4>1, <4>2
        <5> QED BY <1>0, <2>7, <5>1 DEF OwnIds
      <4> QED BY <4>2
    <3>2. CASE x # c /\ y = c
      <4>1. d[x] = calling[x] /\ calling[x].id \in line.pending
        BY <1>0, <2>4, <2>9, <3>2 DEF OwnIds
      <4> QED BY <2>3, <2>4, <2>7, <3>2, <4>1
    <3>3. CASE x # c /\ y # c
      BY <1>0, <2>4, <2>9, <3>3 DEF OwnIds
    <3> QED BY <3>1, <3>2, <3>3
  <2>10. OwnIds(t, d)
    BY <1>0, <1>1, <2>2, <2>3, <2>4, <2>5, <2>8, <2>9 DEF OwnIds
  <2> QED BY <2>1, <2>2, <2>4, <2>6, <2>10 DEF LineInv
<1>4. CASE Settles(IF line.connecting = None THEN Tried(l, 1, {}) ELSE l,
                   [calling EXCEPT ![c] = [at |-> "connecting", id |-> 0]])
  <2> DEFINE t == IF line.connecting = None THEN Tried(l, 1, {}) ELSE l
             waiting == [at |-> "connecting", id |-> 0]
             d == [calling EXCEPT ![c] = waiting]
  <2>1. line' = t /\ calling' = d
    BY <1>4 DEF Settles
  <2>2. waiting \in [at : {"idle", "connecting", "sent", "answered", "failed"}, id : Nat] /\ waiting.at = "connecting"
    OBVIOUS
  <2> HIDE DEF waiting
  <2>3. CallersTyped(d) /\ d[c] = waiting /\ \A x \in Callers \ {c} : d[x] = calling[x]
    BY <1>0, <2>2 DEF CallersTyped
  <2>4. /\ Formed(t) /\ Attempting(t) /\ t.connecting # None /\ t.pending = line.pending
        /\ (t.connecting = line.connecting \/ t.connecting.greeting = None)
    <3>1. CASE line.connecting = None
      <4>1. 1 \in 1 .. Servers /\ {} \in SUBSET (1 .. Servers)
        BY <1>0
      <4>2. t = Tried(l, 1, {})
        BY <3>1
      <4> HIDE DEF t, l
      <4> QED BY <1>1, <1>2, <4>1, <4>2, TriedFine
    <3>2. CASE line.connecting # None
      <4>1. t = l
        BY <3>2
      <4> QED BY <1>1, <1>2, <3>2, <4>1
    <3> QED BY <3>1, <3>2
  <2> HIDE DEF t, d
  <2>5. ASSUME NEW x \in Callers, d[x].at = "sent"
        PROVE  /\ d[x].id \in t.pending /\ t.connecting.greeting # d[x].id
               /\ \A y \in Callers \ {x} : d[y] # d[x]
    <3>1. x # c /\ d[x] = calling[x] /\ calling[x].id \in line.pending
      BY <1>0, <2>2, <2>3, <2>5 DEF OwnIds
    <3>2. calling[x].id # None
      BY <1>0, <3>1, NoAttemptIsNone DEF Client
    <3>3. t.connecting.greeting # d[x].id
      BY <1>0, <2>4, <2>5, <3>1, <3>2 DEF OwnIds
    <3>4. ASSUME NEW y \in Callers \ {x} PROVE d[y] # d[x]
      <4>1. CASE y = c
        BY <2>2, <2>3, <2>5, <4>1
      <4>2. CASE y # c
        BY <1>0, <2>3, <2>5, <3>1, <4>2 DEF OwnIds
      <4> QED BY <4>1, <4>2
    <3> QED BY <2>4, <3>1, <3>3, <3>4
  <2>6. OwnIds(t, d)
    BY <2>4, <2>5 DEF OwnIds
  <2> QED BY <2>1, <2>3, <2>4, <2>6 DEF LineInv
<1> QED BY <1>3, <1>4 DEF Call

\* onopen: the greeting has an id of its own.
LEMMA OpensRight ==
  ASSUME LineInv, Opens
  PROVE  LineInv'
<1> DEFINE k == line.connecting.socket
           last == line.lastId
           a == Becomes(k, "open")
           b == [a EXCEPT !.ws = k]
           s == SentNow(b, 1)
           t == [s EXCEPT !.connecting.greeting = last + 1]
<1>0. /\ Formed(line) /\ Attempting(line) /\ CallersTyped(calling) /\ OwnIds(line, calling)
      /\ last \in Nat /\ line.connecting # None /\ k \in DOMAIN line.sockets /\ line.connecting \in Attempt
      /\ k \in Nat
  BY DEF LineInv, Formed, Client, Opens, Attempt
<1>1. line' = t /\ calling' = calling
  BY DEF Opens, Settles
<1>2. /\ Formed(a) /\ a.connecting = line.connecting /\ a.lastId = last /\ a.pending = line.pending
      /\ a.sockets[k].state = "open" /\ DOMAIN a.sockets = DOMAIN line.sockets
  BY <1>0, BecomesFine DEF SameBut
<1> HIDE DEF a
<1>3. /\ b \in Client /\ b.connecting = line.connecting /\ b.lastId = last /\ b.pending = line.pending
      /\ b.sockets = a.sockets /\ b.ws = k
  BY <1>0, <1>2 DEF Formed, Client
<1> HIDE DEF b
<1>4. Formed(b) /\ b.ws # None
  BY <1>0, <1>2, <1>3, NoAttemptIsNone DEF Formed
<1>5. /\ Formed(s) /\ s.connecting = line.connecting /\ s.lastId = last + 1 /\ s.ws = k
      /\ s.pending = line.pending \cup (last + 1 .. last + 1) /\ s.sockets[k].state = "open"
      /\ DOMAIN s.sockets = DOMAIN line.sockets
  <2>1. /\ Formed(s) /\ SameBut(b, s) /\ s.ws = b.ws /\ s.lastId = b.lastId + 1
        /\ s.pending = b.pending \cup (b.lastId + 1 .. b.lastId + 1)
        /\ \A j \in DOMAIN b.sockets : s.sockets[j].state = b.sockets[j].state
    <3>1. 1 \in Nat
      OBVIOUS
    <3> QED BY <1>4, <3>1, SentFine
  <2> HIDE DEF s, last
  <2> QED BY <1>0, <1>2, <1>3, <2>1 DEF SameBut
<1> HIDE DEF s
<1>6. /\ t \in Client /\ t.connecting \in Attempt /\ t.connecting.greeting = last + 1 /\ t.connecting.socket = k
      /\ t.ws = k /\ t.pending = s.pending /\ t.sockets = s.sockets /\ t.lastId = s.lastId
  <2> DEFINE next == [line.connecting EXCEPT !.greeting = last + 1]
  <2>1. next \in Attempt /\ next.greeting = last + 1 /\ next.socket = k
    BY <1>0 DEF Attempt
  <2>2. t = [s EXCEPT !.connecting = next]
    BY <1>5 DEF Formed, Client
  <2> HIDE DEF next, t
  <2> QED BY <1>5, <2>1, <2>2 DEF Formed, Client
<1> HIDE DEF t
<1>7. last + 1 \in t.pending /\ line.pending \subseteq t.pending
  BY <1>0, <1>5, <1>6
<1>8. Formed(t) /\ Attempting(t)
  BY <1>0, <1>5, <1>6, <1>7 DEF Formed, Attempting
<1>9. \A id \in line.pending : id # last + 1
  <2>1. \A id \in line.pending : id \in Nat /\ id <= last
    BY <1>0 DEF Formed, Client
  <2> HIDE DEF last
  <2> QED BY <1>0, <2>1
<1>10. t.connecting # None
  BY <1>6, NoAttemptIsNone
<1> HIDE DEF last
<1>11. OwnIds(t, calling)
  BY <1>0, <1>6, <1>7, <1>9, <1>10 DEF OwnIds
<1> QED BY <1>0, <1>1, <1>8, <1>11 DEF LineInv

\* onerror, or no event within the time.
LEMMA CannotOpenRight ==
  ASSUME LineInv, CannotOpen
  PROVE  LineInv'
<1> DEFINE k == line.connecting.socket
           l == Becomes(k, "closed")
<1>1. Formed(line) /\ OwnIds(line, calling) /\ line.connecting # None /\ k \in DOMAIN line.sockets
  BY DEF LineInv, Formed, CannotOpen
<1>2. Formed(l) /\ l.connecting = line.connecting /\ l.pending = line.pending
  BY <1>1, BecomesFine DEF SameBut
<1>3. NextServer(l, {}, TRUE)
  BY DEF CannotOpen
<1>4. \A x \in Callers : calling[x].at = "sent" => calling[x].id \in l.pending
  BY <1>1, <1>2 DEF OwnIds
<1> HIDE DEF l
<1> QED BY <1>1, <1>2, <1>3, <1>4, NextServerRight

\* The timer of a request.
LEMMA TimesOutRight ==
  ASSUME LineInv, NEW id \in line.pending, TimesOut(id)
  PROVE  LineInv'
<1> DEFINE l == [line EXCEPT !.pending = @ \ {id}]
<1>1. Formed(line) /\ Attempting(line) /\ line \in Client
  BY DEF LineInv, Formed
<1>2. /\ l \in Client /\ l.ws = line.ws /\ l.connecting = line.connecting /\ l.sockets = line.sockets
      /\ l.lastId = line.lastId /\ l.pending = line.pending \ {id}
  BY <1>1 DEF Client
<1>3. Fail(l, {id}, TRUE)
  BY DEF TimesOut
<1> HIDE DEF l
<1>4. Formed(l)
  BY <1>1, <1>2 DEF Formed
<1>5. ~(Greeting # None /\ Greeting \in {id}) => Attempting(l)
  <2>1. ASSUME ~(Greeting # None /\ Greeting \in {id}), l.connecting # None,
               line.connecting.greeting \in line.pending
        PROVE  line.connecting.greeting \in l.pending
    <3>1. Greeting = line.connecting.greeting /\ Greeting # None
      BY <1>1, <1>2, <2>1, NoAttemptIsNone DEF Greeting, Client
    <3> QED BY <1>2, <2>1, <3>1
  <2> QED BY <1>1, <1>2, <2>1 DEF Attempting
<1> QED BY <1>2, <1>3, <1>4, <1>5, FailRight

\* onclose: all that was pending is told; a connection that is still to open is another socket's.
LEMMA ClosesRight ==
  ASSUME LineInv, NEW k \in DOMAIN line.sockets, Closes(k)
  PROVE  LineInv'
<1> DEFINE a == Becomes(k, "closed")
           l == [a EXCEPT !.pending = {}, !.ws = None]
           itself == line.connecting # None /\ line.connecting.socket = k
<1>1. Formed(line) /\ Attempting(line) /\ line \in Client
  BY DEF LineInv, Formed
<1>2. Fail(l, line.pending, itself)
  BY DEF Closes, Told
<1>3. line.sockets[k].state # "connecting"
  BY DEF Closes
<1>4. /\ Formed(a) /\ a.connecting = line.connecting /\ DOMAIN a.sockets = DOMAIN line.sockets
      /\ \A j \in DOMAIN line.sockets \ {k} : a.sockets[j] = line.sockets[j]
  BY <1>1, BecomesFine DEF SameBut
<1> HIDE DEF a
<1>5. /\ l \in Client /\ l.ws = None /\ l.connecting = line.connecting /\ l.sockets = a.sockets /\ l.pending = {}
  BY <1>4 DEF Formed, Client
<1> HIDE DEF l
<1>6. Formed(l)
  BY <1>4, <1>5 DEF Formed
<1>7. ~(Greeting # None /\ Greeting \in line.pending) => Attempting(l)
  <2> SUFFICES ASSUME ~(Greeting # None /\ Greeting \in line.pending), line.connecting # None
               PROVE  /\ l.sockets[line.connecting.socket].state = "connecting" /\ line.connecting.greeting = None
    BY <1>5 DEF Attempting
  <2>1. line.connecting.greeting \notin line.pending
    <3>1. Greeting = line.connecting.greeting
      BY DEF Greeting
    <3> QED BY <1>1, <3>1, NoAttemptIsNone DEF Client
  <2>2. line.sockets[line.connecting.socket].state = "connecting" /\ line.connecting.greeting = None
        /\ line.connecting.socket \in DOMAIN line.sockets
    BY <1>1, <2>1 DEF Attempting, Formed
  <2>3. line.connecting.socket # k
    BY <1>3, <2>2
  <2> QED BY <1>4, <1>5, <2>2, <2>3
<1>8. itself \in BOOLEAN
  OBVIOUS
<1> HIDE DEF itself
<1> QED BY <1>2, <1>5, <1>6, <1>7, <1>8, FailRight

\* onmessage: an answer to nobody, to a caller, or to the greeting, and then all that waited have sent.
LEMMA OnMessageRight ==
  ASSUME LineInv, NEW k \in DOMAIN line.sockets, NEW id \in line.sockets[k].asked, NEW good \in BOOLEAN,
         OnMessage(k, id, good)
  PROVE  LineInv'
<1> DEFINE l == [line EXCEPT !.sockets[k].asked = @ \ {id}, !.pending = @ \ {id}]
           place == CHOOSE f \in [Waiting -> 1 .. Cardinality(Waiting)] : IsInjective(f)
<1>0. /\ Formed(line) /\ Attempting(line) /\ CallersTyped(calling) /\ OwnIds(line, calling)
      /\ line \in Client /\ line.lastId \in Nat /\ line.sockets \in Seq(Socket) /\ line.pending \subseteq Nat
  BY DEF LineInv, Formed, Client
<1>1. /\ Formed(l) /\ l.ws = line.ws /\ l.connecting = line.connecting /\ l.lastId = line.lastId
      /\ l.pending = line.pending \ {id} /\ DOMAIN l.sockets = DOMAIN line.sockets
      /\ \A j \in DOMAIN line.sockets : l.sockets[j].state = line.sockets[j].state
  <2> DEFINE f == line.sockets
             was == f[k]
             after == [was EXCEPT !.asked = @ \ {id}]
             sockets == [f EXCEPT ![k] = after]
  <2>1. f \in Seq(Socket) /\ k \in DOMAIN f
    BY <1>0
  <2>2. l = [line EXCEPT !.sockets = sockets, !.pending = line.pending \ {id}]
    BY <1>0 DEF Client
  <2> HIDE DEF f
  <2>3. was \in Socket
    BY <2>1, ReplaceOne
  <2>4. after \in Socket /\ after.state = was.state
    BY <2>3 DEF Socket
  <2> HIDE DEF after
  <2>5. /\ sockets \in Seq(Socket) /\ DOMAIN sockets = DOMAIN f /\ sockets[k] = after
        /\ \A j \in DOMAIN f \ {k} : sockets[j] = f[j]
    BY <2>1, <2>4, ReplaceOne
  <2> HIDE DEF sockets, l
  <2>6. /\ l \in Client /\ l.ws = line.ws /\ l.connecting = line.connecting /\ l.lastId = line.lastId
        /\ l.pending = line.pending \ {id} /\ l.sockets = sockets
    BY <1>0, <2>2, <2>5 DEF Client
  <2>7. \A j \in DOMAIN f : sockets[j].state = f[j].state
    BY <2>4, <2>5
  <2> QED BY <1>0, <2>5, <2>6, <2>7 DEF Formed, f
<1>2. \/ id \notin line.pending /\ Settles(l, calling)
      \/ id \in line.pending /\ ~good /\ Fail(l, {id}, TRUE)
      \/ /\ id \in line.pending /\ good /\ id = Greeting
         /\ Settles(SentNow([l EXCEPT !.connecting = None], Cardinality(Waiting)),
                    [x \in Callers |-> IF x \in Waiting THEN [at |-> "sent", id |-> line.lastId + place[x]]
                                       ELSE calling[x]])
      \/ /\ id \in line.pending /\ good /\ id # Greeting
         /\ Settles(l, Comes(Who({id}), "answered"))
  BY DEF OnMessage
<1> HIDE DEF l
<1>3. ASSUME id # Greeting \/ id \notin line.pending PROVE Attempting(l)
  <2> SUFFICES ASSUME line.connecting # None PROVE Attempting(l)
    BY <1>1 DEF Attempting
  <2>1. Greeting = line.connecting.greeting
    BY DEF Greeting
  <2>2. line.connecting.greeting \in line.pending => line.connecting.greeting \in l.pending
    BY <1>1, <1>3, <2>1
  <2>3. line.connecting.socket \in DOMAIN line.sockets
    BY <1>0 DEF Formed
  <2> QED BY <1>0, <1>1, <2>2, <2>3 DEF Attempting
<1>4. CASE id \notin line.pending /\ Settles(l, calling)
  <2>1. l.pending = line.pending
    BY <1>1, <1>4
  <2> QED BY <1>0, <1>1, <1>3, <1>4, <2>1 DEF LineInv, OwnIds, Settles
<1>5. CASE Fail(l, {id}, TRUE)
  <2>1. ~(Greeting # None /\ Greeting \in {id}) => Attempting(l)
    <3>1. CASE id \in line.pending
      <4>1. id # None
        BY <1>0, <3>1, NoAttemptIsNone
      <4> QED BY <1>3, <4>1
    <3>2. CASE id \notin line.pending
      BY <1>3, <3>2
    <3> QED BY <3>1, <3>2
  <2> QED BY <1>1, <1>5, <2>1, FailRight
<1>6. CASE id \in line.pending /\ id # Greeting /\ Settles(l, Comes(Who({id}), "answered"))
  <2> DEFINE c == Comes(Who({id}), "answered")
  <2>1. line' = l /\ calling' = c
    BY <1>6 DEF Settles
  <2>2. /\ CallersTyped(c) /\ \A x \in Who({id}) : c[x].at = "answered"
        /\ \A x \in Callers \ Who({id}) : c[x] = calling[x]
    BY <1>0, ComesTo DEF Who
  <2> HIDE DEF c
  <2>3. ASSUME NEW x \in Callers, c[x].at = "sent"
        PROVE  /\ x \notin Who({id}) /\ c[x] = calling[x] /\ c[x].id \in l.pending
               /\ \A y \in Callers \ {x} : c[y] # c[x]
    <3>1. x \notin Who({id}) /\ c[x] = calling[x]
      BY <2>2, <2>3
    <3>2. calling[x].id \in line.pending /\ calling[x].id # id
      BY <1>0, <2>3, <3>1 DEF Who, OwnIds
    <3>3. ASSUME NEW y \in Callers \ {x} PROVE c[y] # c[x]
      <4>1. CASE y \in Who({id})
        BY <2>2, <2>3, <4>1
      <4>2. CASE y \notin Who({id})
        BY <1>0, <2>2, <2>3, <3>1, <4>2 DEF OwnIds
      <4> QED BY <4>1, <4>2
    <3> QED BY <1>1, <3>1, <3>2, <3>3
  <2>4. ASSUME NEW x \in Callers, c[x].at = "connecting" PROVE l.connecting # None
    <3>1. x \notin Who({id}) /\ c[x] = calling[x]
      BY <2>2, <2>4
    <3> QED BY <1>0, <1>1, <2>4, <3>1 DEF OwnIds
  <2>5. OwnIds(l, c)
    BY <1>0, <1>1, <2>3, <2>4 DEF OwnIds
  <2> QED BY <1>1, <1>3, <1>6, <2>1, <2>2, <2>5 DEF LineInv
<1>7. CASE /\ id \in line.pending /\ id = Greeting
           /\ Settles(SentNow([l EXCEPT !.connecting = None], Cardinality(Waiting)),
                      [x \in Callers |-> IF x \in Waiting THEN [at |-> "sent", id |-> line.lastId + place[x]]
                                         ELSE calling[x]])
  <2> DEFINE n == Cardinality(Waiting)
             m == [l EXCEPT !.connecting = None]
             t == SentNow(m, n)
             last == line.lastId
             c == [x \in Callers |-> IF x \in Waiting THEN [at |-> "sent", id |-> last + place[x]] ELSE calling[x]]
  <2>1. line' = t /\ calling' = c
    BY <1>7 DEF Settles
  <2>2. line.connecting # None /\ line.connecting.greeting = id /\ line.ws # None
    <3>1. id # None
      BY <1>0, <1>7, NoAttemptIsNone
    <3>2. line.connecting # None /\ line.connecting.greeting = id
      BY <1>7, <3>1 DEF Greeting
    <3>3. line.ws = line.connecting.socket /\ line.connecting.socket \in DOMAIN line.sockets
      BY <1>0, <3>1, <3>2 DEF Attempting, Formed
    <3>4. line.connecting.socket \in Nat
      BY <1>0, <3>3
    <3> QED BY <3>2, <3>3, <3>4, NoAttemptIsNone
  <2>3. /\ m \in Client /\ m.ws = line.ws /\ m.connecting = None /\ m.lastId = last
        /\ m.pending = line.pending \ {id} /\ m.sockets = l.sockets
    BY <1>1 DEF Formed, Client
  <2> HIDE DEF m
  <2>4. Formed(m)
    BY <1>1, <2>3 DEF Formed
  <2>5. /\ n \in Nat /\ place \in [Waiting -> 1 .. n] /\ IsInjective(place)
    <3>1. IsFiniteSet(Waiting)
      BY LineAssumption, FS_Subset DEF Waiting
    <3>2. n \in Nat /\ ExistsBijection(1 .. n, Waiting)
      BY <3>1, FS_CardinalityType
    <3>3. \E f \in [Waiting -> 1 .. n] : IsInjective(f)
      <4>1. PICK g : g \in Bijection(1 .. n, Waiting)
        BY <3>2 DEF ExistsBijection
      <4>2. /\ g \in [1 .. n -> Waiting] /\ \A x \in Waiting : \E i \in 1 .. n : g[i] = x
        BY <4>1 DEF Bijection, Surjection, Injection
      <4> DEFINE f == [x \in Waiting |-> CHOOSE i \in 1 .. n : g[i] = x]
      <4>3. \A x \in Waiting : f[x] \in 1 .. n /\ g[f[x]] = x
        BY <4>2
      <4>4. f \in [Waiting -> 1 .. n] /\ IsInjective(f)
        <5> HIDE DEF n
        <5>1. f \in [Waiting -> 1 .. n]
          BY <4>3
        <5>2. DOMAIN f = Waiting
          OBVIOUS
        <5> HIDE DEF f
        <5> QED BY <4>3, <5>1, <5>2 DEF IsInjective
      <4> QED BY <4>4
    <3> QED BY <3>2, <3>3
  <2> HIDE DEF place, n
  <2>6. /\ Formed(t) /\ t.connecting = None /\ t.pending = (line.pending \ {id}) \cup (last + 1 .. last + n)
    <3>1. m.ws # None
      BY <2>2, <2>3
    <3>2. Formed(t) /\ SameBut(m, t) /\ t.pending = m.pending \cup (m.lastId + 1 .. m.lastId + n)
      BY <2>4, <2>5, <3>1, SentFine
    <3> HIDE DEF t, last
    <3> QED BY <2>3, <3>2 DEF SameBut
  <2> HIDE DEF t
  <2>7. Attempting(t)
    BY <2>6 DEF Attempting
  <2>8. \A x \in Waiting : last + place[x] \in last + 1 .. last + n /\ last + place[x] \in Nat
    <3> SUFFICES ASSUME NEW x \in Waiting
                 PROVE  last + place[x] \in last + 1 .. last + n /\ last + place[x] \in Nat
      OBVIOUS
    <3>1. place[x] \in 1 .. n /\ last \in Nat /\ n \in Nat
      BY <1>0, <2>5
    <3> DEFINE p == place[x]
    <3> HIDE DEF p, last
    <3>2. p \in 1 .. n
      BY <3>1 DEF p
    <3>3. last + p \in last + 1 .. last + n /\ last + p \in Nat
      BY <3>1, <3>2
    <3> QED BY <3>3 DEF p
  <2>9. /\ \A x \in Waiting : c[x].at = "sent" /\ c[x].id = last + place[x]
        /\ \A x \in Callers \ Waiting : c[x] = calling[x]
    BY DEF Waiting
  <2>10. CallersTyped(c)
    <3> DEFINE now(x) == [at |-> "sent", id |-> last + place[x]]
    <3>1. \A x \in Waiting : now(x) \in [at : {"idle", "connecting", "sent", "answered", "failed"}, id : Nat]
      BY <2>8
    <3>2. c = [x \in Callers |-> IF x \in Waiting THEN now(x) ELSE calling[x]]
      OBVIOUS
    <3> HIDE DEF now, c
    <3> QED BY <1>0, <3>1, <3>2 DEF CallersTyped
  <2>11. \A x \in Waiting, j \in line.pending : last + place[x] # j
    <3> SUFFICES ASSUME NEW x \in Waiting, NEW j \in line.pending PROVE last + place[x] # j
      OBVIOUS
    <3> DEFINE p == place[x]
    <3>1. p \in 1 .. n /\ last \in Nat /\ n \in Nat /\ j \in Nat /\ j <= last
      BY <1>0, <2>5 DEF Formed
    <3> HIDE DEF p, last
    <3>2. last + p # j
      BY <3>1
    <3> QED BY <3>2 DEF p
  <2>12. \A x, y \in Waiting : last + place[x] = last + place[y] => x = y
    <3> SUFFICES ASSUME NEW x \in Waiting, NEW y \in Waiting, last + place[x] = last + place[y] PROVE x = y
      OBVIOUS
    <3> DEFINE p == place[x]
               r == place[y]
    <3>1. p \in 1 .. n /\ r \in 1 .. n /\ last \in Nat
      BY <1>0, <2>5
    <3>2. last + p = last + r
      OBVIOUS
    <3> HIDE DEF p, r, last
    <3>3. p = r
      BY <2>5, <3>1, <3>2
    <3> QED BY <2>5, <3>3 DEF IsInjective, p, r
  <2> HIDE DEF c, last
  <2>13. ASSUME NEW x \in Callers, c[x].at = "sent"
         PROVE  c[x].id \in t.pending /\ \A y \in Callers \ {x} : c[y] # c[x]
    <3>1. CASE x \in Waiting
      <4>1. c[x].id \in t.pending
        BY <2>6, <2>8, <2>9, <3>1
      <4>2. ASSUME NEW y \in Callers \ {x}, c[y] = c[x] PROVE FALSE
        <5>1. CASE y \in Waiting
          BY <2>9, <2>12, <3>1, <4>2, <5>1
        <5>2. CASE y \notin Waiting
          <6>1. calling[y].at = "sent" /\ calling[y].id = last + place[x]
            BY <2>9, <3>1, <4>2, <5>2
          <6> QED BY <1>0, <2>11, <3>1, <6>1 DEF OwnIds
        <5> QED BY <5>1, <5>2
      <4> QED BY <4>1, <4>2
    <3>2. CASE x \notin Waiting
      <4>1. c[x] = calling[x] /\ calling[x].at = "sent"
        BY <2>9, <2>13, <3>2
      <4>2. calling[x].id \in line.pending /\ calling[x].id # id
        BY <1>0, <2>2, <4>1 DEF OwnIds
      <4>3. ASSUME NEW y \in Callers \ {x}, c[y] = c[x] PROVE FALSE
        <5>1. CASE y \in Waiting
          BY <2>9, <2>11, <4>1, <4>2, <4>3, <5>1
        <5>2. CASE y \notin Waiting
          BY <1>0, <2>9, <4>1, <4>3, <5>2 DEF OwnIds
        <5> QED BY <5>1, <5>2
      <4> QED BY <2>6, <4>1, <4>2, <4>3
    <3> QED BY <3>1, <3>2
  <2>14. ASSUME NEW x \in Callers PROVE c[x].at # "connecting"
    BY <2>9 DEF Waiting
  <2>15. OwnIds(t, c)
    BY <2>6, <2>13, <2>14 DEF OwnIds
  <2> QED BY <2>1, <2>6, <2>7, <2>10, <2>15 DEF LineInv
<1> QED BY <1>2, <1>4, <1>5, <1>6, <1>7

\* Each event keeps what the handlers rely on.
THEOREM LineInvariant == LineSpec => []LineInv
<1>1. LineInit => LineInv
  <2> SUFFICES ASSUME LineInit PROVE LineInv
    OBVIOUS
  <2>1. line \in Client /\ line.ws = None /\ line.connecting = None /\ line.pending = {}
    <3>1. <<>> \in Seq(Socket) /\ {} \in SUBSET Nat /\ {} \in SUBSET (1 .. Servers) /\ 0 \in 0 .. MaxCalled
      BY LineAssumption
    <3> QED BY <3>1 DEF LineInit, Client
  <2>2. CallersTyped(calling) /\ OwnIds(line, calling)
    BY <2>1 DEF LineInit, CallersTyped, OwnIds
  <2> QED BY <2>1, <2>2 DEF LineInv, Formed, Attempting
<1>2. LineInv /\ [LineNext]_lineVars => LineInv'
  <2> SUFFICES ASSUME LineInv, [LineNext]_lineVars PROVE LineInv'
    OBVIOUS
  <2>1. CASE UNCHANGED lineVars
    <3>1. line' = line /\ calling' = calling
      BY <2>1 DEF lineVars
    <3> QED BY <3>1 DEF LineInv
  <2>2. CASE LineNext
    BY <2>2, CallRight, OpensRight, CannotOpenRight, TimesOutRight, ClosesRight, OnMessageRight DEF LineNext
  <2> QED BY <2>1, <2>2
<1> QED BY <1>1, <1>2, PTL DEF LineSpec

\* Whatever servers do, whoever waits for an answer or a connection will be told.
THEOREM LineCorrect == LineSpec => []LineSound
<1>1. LineInv => LineSound
  <2> SUFFICES ASSUME LineInv PROVE LineSound
    OBVIOUS
  <2>0. Formed(line) /\ Attempting(line) /\ CallersTyped(calling) /\ OwnIds(line, calling)
    BY DEF LineInv
  <2>1. LineTypeOK
    BY <2>0 DEF LineTypeOK, Formed, CallersTyped
  <2>2. SomebodyIsWaitedFor
    BY <2>0 DEF Attempting, OwnIds, SomebodyIsWaitedFor, Greeting
  <2> QED BY <2>1, <2>2 DEF LineSound
<1> QED BY <1>1, LineInvariant, PTL
-----------------------------------------------------------------------------
(* What a coin carries.                                                     *)

\* What was found in an output is there; and it is all there is, if it is said to be.
Right(l, o, r) ==
  /\ DOMAIN r = {"inscriptions", "complete"} /\ r.complete \in BOOLEAN
  /\ r.inscriptions \subseteq Really(l, o)
  /\ r.complete => Really(l, o) \subseteq r.inscriptions

\* An output a walk is in the middle of: what its units passed so far brought is found, and nothing else;
\* its own reveal is found first.
Frames(l) ==
  [coin : CoinsMade(l), stage : {"door", "reading", "inputs"}, next : Nat, passed : Nat,
   found : SUBSET [id : Nat, offset : Nat], complete : BOOLEAN]
FrameRight(l, f) ==
  /\ f \in Frames(l) /\ OutValue(l, f.coin) > 0
  /\ f.next \in 1 .. Len(l[f.coin[1]].ins) + 1
  /\ f.passed = Before(l, f.coin[1], f.next)
  /\ f.stage # "inputs" => f.next = 1 /\ f.found = {} /\ f.complete
  /\ f.found \subseteq Really(l, f.coin)
  /\ f.stage = "inputs" =>
       \A m \in Really(l, f.coin) :
         m.id = f.coin[1] \/ (f.complete /\ OutStart(l, f.coin) + m.offset < f.passed) => m \in f.found

\* Each output is entered from the loop over the inputs of the one below.
Chained(l, stack) ==
  \A k \in 1 .. Len(stack) - 1 :
    /\ stack[k].stage = "inputs" /\ stack[k].next \in DOMAIN l[stack[k].coin[1]].ins
    /\ stack[k + 1].coin = l[stack[k].coin[1]].ins[stack[k].next]
StackRight(l, stack) ==
  /\ stack \in Seq(Frames(l)) /\ Len(stack) > 0
  /\ \A k \in 1 .. Len(stack) : FrameRight(l, stack[k])
  /\ Chained(l, stack)
WalkRight(l, q) ==
  /\ DOMAIN q = {"budget", "memo", "stack", "awaits"}
  /\ \A o \in DOMAIN q.memo : Right(l, o, q.memo[o])
  /\ StackRight(l, q.stack)
WalksRight(l, walks) == DOMAIN walks = Walkers /\ \A w \in Walkers : walks[w] # None => WalkRight(l, walks[w])

\* The heights that are known, the results and the verdicts that are kept, and the last answer.
HeightsRight(l, heights) ==
  \A t \in DOMAIN heights : heights[t] # None /\ heights[t] < Era => ~(l[t].height >= Era)
VerdictRight(l, o, v) == v.all \subseteq Really(l, o) /\ (v.status = "clean" => Really(l, o) = {})
TracerRight(l, c) ==
  /\ DOMAIN c = {"heights", "tip", "kept", "outputs", "verdicts"}
  /\ HeightsRight(l, c.heights) /\ HeightsRight(l, c.kept)
  /\ \A o \in DOMAIN c.outputs : Right(l, o, c.outputs[o])
  /\ \A o \in DOMAIN c.verdicts : VerdictRight(l, o, c.verdicts[o])
AnswerRight(l, a) == a # None => VerdictRight(l, a.coin, a.verdict)

TracerInv ==
  /\ LedgerOK(ledger) /\ misdated \in BOOLEAN
  /\ ~misdated => TracerRight(ledger, tracer) /\ WalksRight(ledger, walk) /\ AnswerRight(ledger, said)

-----------------------------------------------------------------------------
(* The ledger and its units.                                                *)

\* What a ledger's fields are.
LEMMA LedgerShape ==
  ASSUME NEW l, LedgerOK(l)
  PROVE  /\ DOMAIN l = 1 .. Len(l) /\ Len(l) \in Nat
         /\ \A t \in DOMAIN l :
              /\ t \in Nat \ {0} /\ l[t].outs \in Seq(Nat) /\ l[t].ins \in Seq(Nat \X Nat)
              /\ l[t].reveals \in BOOLEAN /\ l[t].height \in Nat
              /\ DOMAIN l[t].outs = 1 .. Len(l[t].outs) /\ DOMAIN l[t].ins = 1 .. Len(l[t].ins)
              /\ Len(l[t].ins) \in Nat /\ Len(l[t].outs) \in Nat
<1>1. l \in Seq([ins : Seq(Nat \X Nat), outs : Seq(Nat), reveals : BOOLEAN, height : Nat])
  BY Zenon DEF LedgerOK
<1>2. DOMAIN l = 1 .. Len(l) /\ Len(l) \in Nat
  BY <1>1
<1>3. \A t \in DOMAIN l : l[t] \in [ins : Seq(Nat \X Nat), outs : Seq(Nat), reveals : BOOLEAN, height : Nat]
  <2> DEFINE R == [ins : Seq(Nat \X Nat), outs : Seq(Nat), reveals : BOOLEAN, height : Nat]
  <2>1. l \in Seq(R)
    BY <1>1
  <2> HIDE DEF R
  <2>2. \A t \in DOMAIN l : l[t] \in R
    BY <2>1
  <2> QED BY <2>2 DEF R
<1>4. \A t \in DOMAIN l : /\ l[t].outs \in Seq(Nat) /\ l[t].ins \in Seq(Nat \X Nat)
                          /\ l[t].reveals \in BOOLEAN /\ l[t].height \in Nat
  BY <1>3
<1>5. \A s \in Seq(Nat) : DOMAIN s = 1 .. Len(s) /\ Len(s) \in Nat
  OBVIOUS
<1>6. \A s \in Seq(Nat \X Nat) : DOMAIN s = 1 .. Len(s) /\ Len(s) \in Nat
  OBVIOUS
<1>7. \A t \in DOMAIN l : t \in Nat \ {0}
  BY <1>2
<1> QED BY <1>2, <1>4, <1>5, <1>6, <1>7

\* An output is one of its transaction's, and lies within what that puts out.
LEMMA CoinShape ==
  ASSUME NEW l, LedgerOK(l), NEW o \in CoinsMade(l)
  PROVE  /\ o = <<o[1], o[2]>> /\ o[1] \in DOMAIN l /\ o[2] \in 1 .. Len(l[o[1]].outs)
         /\ OutValue(l, o) \in Nat /\ OutStart(l, o) \in Nat /\ OutEnd(l, o) \in Nat
         /\ OutEnd(l, o) = OutStart(l, o) + OutValue(l, o) /\ OutEnd(l, o) <= AddUp(l[o[1]].outs)
<1>1. o = <<o[1], o[2]>> /\ o[1] \in DOMAIN l /\ o[2] \in DOMAIN l[o[1]].outs
  BY DEF CoinsMade
<1> DEFINE s == l[o[1]].outs
           k == o[2]
<1>2. s \in Seq(Nat) /\ k \in 1 .. Len(s)
  BY <1>1, LedgerShape
<1>3. OutValue(l, o) = s[k] /\ OutStart(l, o) = AddUp(SubSeq(s, 1, k - 1)) /\ OutEnd(l, o) = OutStart(l, o) + OutValue(l, o)
  BY DEF OutValue, OutStart, OutEnd
<1> HIDE DEF s, k
<1>4. k - 1 \in 0 .. Len(s) /\ k \in 0 .. Len(s) /\ s[k] \in Nat
  BY <1>2
<1>5. /\ AddUp(SubSeq(s, 1, k - 1)) \in Nat /\ AddUp(SubSeq(s, 1, k)) <= AddUp(s)
      /\ AddUp(SubSeq(s, 1, k)) = AddUp(SubSeq(s, 1, k - 1)) + s[k]
  BY <1>2, <1>4, SumsBefore
<1>6. OutValue(l, o) \in Nat /\ OutStart(l, o) \in Nat /\ OutEnd(l, o) \in Nat /\ OutEnd(l, o) <= AddUp(s)
  BY <1>3, <1>4, <1>5
<1> QED BY <1>1, <1>2, <1>3, <1>6 DEF s, k

\* What an input spends was made before; nothing else spends it.
LEMMA InputShape ==
  ASSUME NEW l, LedgerOK(l), NEW t \in DOMAIN l, NEW k \in DOMAIN l[t].ins
  PROVE  /\ l[t].ins[k] \in CoinsMade(l) /\ l[t].ins[k][1] \in DOMAIN l /\ l[t].ins[k][1] < t
         /\ k \in 1 .. Len(l[t].ins) /\ l[t].ins # <<>>
         /\ \A s \in DOMAIN l : \A m \in DOMAIN l[s].ins : l[t].ins[k] = l[s].ins[m] => t = s /\ k = m
<1>1. l[t].ins[k] \in CoinsMade(l) /\ l[t].ins[k][1] < t
  BY Zenon DEF LedgerOK
<1>2. \A s \in DOMAIN l : \A m \in DOMAIN l[s].ins : l[t].ins[k] = l[s].ins[m] => t = s /\ k = m
  BY Zenon DEF LedgerOK
<1>3. l[t].ins[k][1] \in DOMAIN l
  BY <1>1, CoinShape
<1>4. l[t].ins \in Seq(Nat \X Nat)
  BY LedgerShape
<1> DEFINE s == l[t].ins
<1>5. k \in 1 .. Len(s) /\ s # <<>>
  <2>1. s \in Seq(Nat \X Nat) /\ k \in DOMAIN s
    BY <1>4
  <2> HIDE DEF s
  <2> QED BY <2>1
<1> QED BY <1>1, <1>2, <1>3, <1>5

\* What goes in, one input after the other.
LEMMA WhatGoesIn ==
  ASSUME NEW l, LedgerOK(l), NEW t \in DOMAIN l
  PROVE  /\ InValues(l, t) \in Seq(Nat) /\ Len(InValues(l, t)) = Len(l[t].ins)
         /\ \A k \in 1 .. Len(l[t].ins) : InValues(l, t)[k] = OutValue(l, l[t].ins[k])
         /\ Before(l, t, 1) = 0
         /\ \A k \in 1 .. Len(l[t].ins) + 1 : Before(l, t, k) \in Nat
         /\ \A k \in 1 .. Len(l[t].ins) : Before(l, t, k + 1) = Before(l, t, k) + OutValue(l, l[t].ins[k])
         /\ Before(l, t, Len(l[t].ins) + 1) = AddUp(InValues(l, t))
<1> DEFINE b == InValues(l, t)
           n == Len(l[t].ins)
           P(k) == AddUp(SubSeq(b, 1, k))
<1>1. DOMAIN l[t].ins = 1 .. n /\ n \in Nat
  BY LedgerShape
<1>2. \A k \in 1 .. n : OutValue(l, l[t].ins[k]) \in Nat
  BY <1>1, InputShape, CoinShape
<1>3. b = [k \in 1 .. n |-> OutValue(l, l[t].ins[k])]
  BY <1>1 DEF InValues
<1> HIDE DEF n
<1>4. b \in Seq(Nat) /\ Len(b) = n /\ \A k \in 1 .. n : b[k] = OutValue(l, l[t].ins[k])
  <2> HIDE DEF b
  <2> QED BY <1>1, <1>2, <1>3
<1> HIDE DEF b
<1>5. /\ P(0) = 0 /\ P(n) = AddUp(b)
      /\ \A k \in 0 .. n : P(k) \in Nat
      /\ \A k \in 1 .. n : P(k) = P(k - 1) + b[k]
  BY <1>4, SumsBefore
<1>6. \A k : Before(l, t, k) = P(k - 1)
  BY DEF Before, b
<1> HIDE DEF P
<1>7. 1 - 1 = 0 /\ (n + 1) - 1 = n /\ \A k \in 1 .. n : (k + 1) - 1 = k /\ k - 1 \in 0 .. n
  BY <1>1
<1>8. \A k \in 1 .. n + 1 : k - 1 \in 0 .. n
  BY <1>1
<1>9. /\ Before(l, t, 1) = 0 /\ Before(l, t, n + 1) = AddUp(b)
      /\ \A k \in 1 .. n + 1 : Before(l, t, k) \in Nat
      /\ \A k \in 1 .. n : Before(l, t, k + 1) = Before(l, t, k) + OutValue(l, l[t].ins[k])
  <2>1. Before(l, t, 1) = 0 /\ Before(l, t, n + 1) = AddUp(b)
    BY <1>5, <1>6, <1>7
  <2>2. \A k \in 1 .. n + 1 : Before(l, t, k) \in Nat
    BY <1>5, <1>6, <1>8
  <2>3. ASSUME NEW k \in 1 .. n PROVE Before(l, t, k + 1) = Before(l, t, k) + OutValue(l, l[t].ins[k])
    <3>1. Before(l, t, k + 1) = P(k) /\ Before(l, t, k) = P(k - 1)
      BY <1>6, <1>7
    <3>2. P(k) = P(k - 1) + b[k] /\ b[k] = OutValue(l, l[t].ins[k])
      BY <1>4, <1>5
    <3> QED BY <3>1, <3>2
  <2> QED BY <2>1, <2>2, <2>3
<1> QED BY <1>4, <1>9 DEF b, n

\* A place among what goes in is in one input, at one place.
LEMMA GoesInOnce ==
  ASSUME NEW l, LedgerOK(l), NEW t \in DOMAIN l, NEW k \in DOMAIN l[t].ins, NEW m \in DOMAIN l[t].ins,
         NEW i \in Nat, NEW j \in Nat, i < OutValue(l, l[t].ins[k]), j < OutValue(l, l[t].ins[m]),
         Before(l, t, k) + i = Before(l, t, m) + j
  PROVE  k = m /\ i = j
<1> DEFINE b == InValues(l, t)
<1>3. k \in 1 .. Len(l[t].ins) /\ m \in 1 .. Len(l[t].ins)
  BY InputShape
<1>1. b \in Seq(Nat) /\ k \in 1 .. Len(b) /\ m \in 1 .. Len(b) /\ i < b[k] /\ j < b[m]
  BY <1>3, WhatGoesIn
<1>2. AddUp(SubSeq(b, 1, k - 1)) + i = AddUp(SubSeq(b, 1, m - 1)) + j
  BY DEF Before
<1> HIDE DEF b
<1> QED BY <1>1, <1>2, PlaceOnce

\* And of two outputs of a transaction no place is the same.
LEMMA GoesOutOnce ==
  ASSUME NEW l, LedgerOK(l), NEW o \in CoinsMade(l), NEW p \in CoinsMade(l), o[1] = p[1],
         NEW i \in Nat, NEW j \in Nat, i < OutValue(l, o), j < OutValue(l, p), OutStart(l, o) + i = OutStart(l, p) + j
  PROVE  o = p /\ i = j
<1> DEFINE s == l[o[1]].outs
<1>1. s \in Seq(Nat) /\ o[2] \in 1 .. Len(s) /\ p[2] \in 1 .. Len(s)
  BY CoinShape, LedgerShape
<1>2. i < s[o[2]] /\ j < s[p[2]] /\ AddUp(SubSeq(s, 1, o[2] - 1)) + i = AddUp(SubSeq(s, 1, p[2] - 1)) + j
  BY DEF OutValue, OutStart
<1> HIDE DEF s
<1>3. o[2] = p[2] /\ i = j
  BY <1>1, <1>2, PlaceOnce
<1>4. o = <<o[1], o[2]>> /\ p = <<p[1], p[2]>>
  BY CoinShape
<1> QED BY <1>3, <1>4

\* Which units are in t, if u says it of the transactions before it.
Units(l, u, t) ==
  [g \in Nat |->
     IF Within(l, t, g) = {} THEN <<t, g>>
     ELSE LET k == CHOOSE k \in Within(l, t, g) : TRUE
              o == l[t].ins[k]
          IN u[o[1]][OutStart(l, o) + (g - Before(l, t, k))]]

\* The definition of the units says what it should.
LEMMA UnitsDefined ==
  ASSUME NEW l, LedgerOK(l)
  PROVE  /\ UnitsOf(l) \in [DOMAIN l -> [Nat -> Nat \X Nat]]
         /\ \A t \in DOMAIN l : UnitsOf(l)[t] = Units(l, UnitsOf(l), t)
<1> DEFINE V == [DOMAIN l -> [Nat -> Nat \X Nat]]
           last == Len(l)
           first == [t \in DOMAIN l |-> [g \in Nat |-> <<t, g>>]]
           step == [n \in 1 .. last |-> [v \in V |-> [v EXCEPT ![n] = Units(l, v, n)]]]
<1>0. DOMAIN l = 1 .. last /\ last \in Nat /\ \A t \in DOMAIN l : t \in Nat
  BY LedgerShape
<1>1. ASSUME NEW t \in DOMAIN l, NEW g \in Nat, Within(l, t, g) # {}
      PROVE  LET k == CHOOSE k \in Within(l, t, g) : TRUE
                 o == l[t].ins[k]
             IN /\ k \in DOMAIN l[t].ins /\ o[1] \in DOMAIN l /\ o[1] < t
                /\ OutStart(l, o) + (g - Before(l, t, k)) \in Nat
  <2> DEFINE k == CHOOSE k \in Within(l, t, g) : TRUE
             o == l[t].ins[k]
  <2>1. k \in Within(l, t, g)
    BY <1>1
  <2> HIDE DEF k
  <2>2. k \in DOMAIN l[t].ins /\ Before(l, t, k) <= g
    BY <2>1 DEF Within
  <2>3. o \in CoinsMade(l) /\ o[1] \in DOMAIN l /\ o[1] < t /\ k \in 1 .. Len(l[t].ins)
    BY <2>2, InputShape
  <2> HIDE DEF o
  <2>4. OutStart(l, o) \in Nat
    BY <2>3, CoinShape
  <2>6. k \in 1 .. Len(l[t].ins) + 1
    BY <2>3, LedgerShape
  <2>5. Before(l, t, k) \in Nat
    BY <2>6, WhatGoesIn
  <2>7. OutStart(l, o) + (g - Before(l, t, k)) \in Nat
    BY <2>2, <2>4, <2>5
  <2> QED BY <2>2, <2>3, <2>7 DEF k, o
<1>2. ASSUME NEW v \in V, NEW t \in DOMAIN l PROVE Units(l, v, t) \in [Nat -> Nat \X Nat]
  <2>1. \A s \in DOMAIN l : v[s] \in [Nat -> Nat \X Nat]
    OBVIOUS
  <2> SUFFICES ASSUME NEW g \in Nat
               PROVE  (IF Within(l, t, g) = {} THEN <<t, g>>
                       ELSE LET k == CHOOSE k \in Within(l, t, g) : TRUE
                                o == l[t].ins[k]
                            IN v[o[1]][OutStart(l, o) + (g - Before(l, t, k))]) \in Nat \X Nat
    BY DEF Units
  <2>2. CASE Within(l, t, g) = {}
    BY <1>0, <2>2
  <2>3. CASE Within(l, t, g) # {}
    <3> DEFINE k == CHOOSE k \in Within(l, t, g) : TRUE
               o == l[t].ins[k]
               h == OutStart(l, o) + (g - Before(l, t, k))
    <3>1. o[1] \in DOMAIN l /\ h \in Nat
      BY <1>1, <2>3
    <3> HIDE DEF h, o
    <3>2. v[o[1]][h] \in Nat \X Nat
      BY <2>1, <3>1
    <3> QED BY <2>3, <3>2 DEF h, o
  <2> QED BY <2>2, <2>3
<1>3. ASSUME NEW v, NEW u, NEW t \in DOMAIN l, \A s \in DOMAIN l : s < t => v[s] = u[s]
      PROVE  Units(l, v, t) = Units(l, u, t)
  <2> SUFFICES ASSUME NEW g \in Nat, Within(l, t, g) # {}
               PROVE  LET k == CHOOSE k \in Within(l, t, g) : TRUE
                          o == l[t].ins[k]
                      IN v[o[1]] = u[o[1]]
    BY DEF Units
  <2> DEFINE k == CHOOSE k \in Within(l, t, g) : TRUE
             o == l[t].ins[k]
  <2>1. o[1] \in DOMAIN l /\ o[1] < t
    BY <1>1
  <2> HIDE DEF o
  <2>2. v[o[1]] = u[o[1]]
    BY <1>3, <2>1
  <2> QED BY <2>2 DEF o
<1> DEFINE left == CHOOSE f : f = [t \in DOMAIN l |-> Units(l, f, t)]
<1>4. UnitsOf(l) = left
  BY DEF UnitsOf, Units
<1>5. step \in [1 .. last -> [V -> V]] /\ first \in V
  <2>1. first \in V
    BY <1>0
  <2>2. ASSUME NEW n \in 1 .. last, NEW v \in V PROVE [v EXCEPT ![n] = Units(l, v, n)] \in V
    BY <1>0, <1>2
  <2> HIDE DEF V, last, first
  <2> QED BY <2>1, <2>2
<1>6. PICK f : Stepwise(f, last, V, first, step)
  <2> HIDE DEF V, last, first, step
  <2> QED BY <1>0, <1>5, StepwiseExists
<1>7. f \in [0 .. last -> V] /\ \A n \in 1 .. last : f[n] = [f[n - 1] EXCEPT ![n] = Units(l, f[n - 1], n)]
  <2>1. f \in [0 .. last -> V] /\ \A n \in 1 .. last : f[n] = step[n][f[n - 1]]
    <3> HIDE DEF V, last, first, step
    <3> QED BY <1>6 DEF Stepwise
  <2>2. \A n \in 1 .. last : n - 1 \in 0 .. last
    BY <1>0
  <2>3. \A n \in 1 .. last : f[n - 1] \in V
    <3> HIDE DEF V, step
    <3> QED BY <2>1, <2>2
  <2>4. \A n \in 1 .. last : \A v \in V : step[n][v] = [v EXCEPT ![n] = Units(l, v, n)]
    <3> HIDE DEF V
    <3> QED OBVIOUS
  <2> HIDE DEF V, step
  <2> QED BY <2>1, <2>3, <2>4
<1> DEFINE T == {n \in 0 .. last : \A t \in 1 .. n : f[n][t] = f[t][t]}
<1>8. 0 .. last \subseteq T
  <2>1. 0 \in T
    BY <1>0
  <2>2. ASSUME NEW n \in 0 .. last - 1, n \in T PROVE n + 1 \in T
    <3>1. n + 1 \in 1 .. last /\ (n + 1) - 1 = n /\ n \in 0 .. last /\ n + 1 \in 0 .. last
      BY <1>0
    <3>2. f[n + 1] = [f[n] EXCEPT ![n + 1] = Units(l, f[n], n + 1)] /\ DOMAIN f[n] = 1 .. last
      BY <1>0, <1>7, <3>1
    <3>3. ASSUME NEW t \in 1 .. n + 1 PROVE f[n + 1][t] = f[t][t]
      <4>1. CASE t = n + 1
        BY <4>1
      <4>2. CASE t # n + 1
        <5>1. t \in 1 .. n /\ t \in 1 .. last
          BY <1>0, <4>2
        <5>2. f[n][t] = f[t][t]
          BY <2>2, <5>1
        <5> QED BY <3>2, <4>2, <5>1, <5>2
      <4> QED BY <4>1, <4>2
    <3> QED BY <3>1, <3>3
  <2> HIDE DEF T, last
  <2> QED BY <1>0, <2>1, <2>2, UpTo
<1> DEFINE u == f[last]
<1>9. u \in V
  <2>1. last \in 0 .. last
    BY <1>0
  <2> HIDE DEF V
  <2> QED BY <1>7, <2>1
<1>10. ASSUME NEW t \in DOMAIN l PROVE u[t] = Units(l, u, t)
  <2>1. t \in 1 .. last /\ t - 1 \in 0 .. last /\ last \in 0 .. last /\ t \in Nat
    BY <1>0
  <2>2. u[t] = f[t][t]
    <3>1. last \in T
      BY <1>8, <2>1
    <3> QED BY <2>1, <3>1
  <2>3. f[t] = [f[t - 1] EXCEPT ![t] = Units(l, f[t - 1], t)] /\ DOMAIN f[t - 1] = 1 .. last
    BY <1>0, <1>7, <2>1
  <2>4. f[t][t] = Units(l, f[t - 1], t)
    BY <2>1, <2>3
  <2>5. \A s \in DOMAIN l : s < t => f[t - 1][s] = u[s]
    <3> SUFFICES ASSUME NEW s \in DOMAIN l, s < t PROVE f[t - 1][s] = u[s]
      OBVIOUS
    <3>1. s \in 1 .. t - 1 /\ s \in 1 .. last
      BY <1>0, <2>1
    <3>2. last \in T /\ t - 1 \in T
      BY <1>8, <2>1
    <3>3. f[last][s] = f[s][s] /\ f[t - 1][s] = f[s][s]
      BY <3>1, <3>2
    <3> QED BY <3>3
  <2>6. Units(l, f[t - 1], t) = Units(l, u, t)
    <3> HIDE DEF u
    <3> QED BY <1>3, <2>5
  <2> QED BY <2>2, <2>4, <2>6
<1> HIDE DEF u
<1>11. u = [t \in DOMAIN l |-> Units(l, u, t)]
  BY <1>9, <1>10
<1>12. left = [t \in DOMAIN l |-> Units(l, left, t)]
  BY <1>11
<1> HIDE DEF left
<1>13. \A t \in DOMAIN l : left[t] = Units(l, left, t)
  BY <1>12
<1> DEFINE S == {n \in 0 .. last : \A t \in 1 .. n : left[t] = u[t]}
<1>14. 0 .. last \subseteq S
  <2>1. 0 \in S
    BY <1>0
  <2>2. ASSUME NEW n \in 0 .. last - 1, n \in S PROVE n + 1 \in S
    <3>1. n + 1 \in DOMAIN l /\ n + 1 \in 0 .. last /\ n \in Nat
      BY <1>0
    <3>2. \A t \in DOMAIN l : t < n + 1 => left[t] = u[t]
      <4>1. \A t \in DOMAIN l : t < n + 1 => t \in 1 .. n
        BY <1>0, <3>1
      <4> QED BY <2>2, <4>1
    <3>3. Units(l, left, n + 1) = Units(l, u, n + 1)
      BY <1>3, <3>1, <3>2
    <3>4. left[n + 1] = u[n + 1]
      BY <1>10, <1>13, <3>1, <3>3
    <3>5. \A t \in 1 .. n + 1 : t = n + 1 \/ t \in 1 .. n
      BY <3>1
    <3> QED BY <2>2, <3>1, <3>4, <3>5
  <2> HIDE DEF S, last
  <2> QED BY <1>0, <2>1, <2>2, UpTo
<1>15. \A t \in DOMAIN l : left[t] = u[t]
  <2>1. last \in S
    BY <1>0, <1>14
  <2> QED BY <1>0, <2>1
<1>16. left = u
  <2>1. DOMAIN u = DOMAIN l
    BY <1>9
  <2>2. u = [t \in DOMAIN l |-> u[t]] /\ left = [t \in DOMAIN l |-> left[t]]
    BY <1>11, <1>12
  <2> QED BY <1>15, <2>2
<1> QED BY <1>4, <1>9, <1>13, <1>16

\* A unit that came in is what it was in the output that the input spends.
LEMMA UnitFromInput ==
  ASSUME NEW l, LedgerOK(l), NEW t \in DOMAIN l, NEW k \in DOMAIN l[t].ins,
         NEW j \in Nat, j < OutValue(l, l[t].ins[k])
  PROVE  /\ UnitsOf(l)[t][Before(l, t, k) + j] = UnitsOf(l)[l[t].ins[k][1]][OutStart(l, l[t].ins[k]) + j]
         /\ Before(l, t, k) + j \in Nat
<1> DEFINE g == Before(l, t, k) + j
           m == CHOOSE n \in Within(l, t, g) : TRUE
           p == l[t].ins[k]
<1>1. k \in 1 .. Len(l[t].ins) /\ p \in CoinsMade(l)
  BY InputShape
<1>2. Before(l, t, k) \in Nat /\ Before(l, t, k + 1) = Before(l, t, k) + OutValue(l, p) /\ OutValue(l, p) \in Nat
  <2>1. k \in 1 .. Len(l[t].ins) + 1
    BY <1>1, LedgerShape
  <2> QED BY <1>1, <2>1, WhatGoesIn, CoinShape
<1>3. g \in Nat /\ k \in Within(l, t, g)
  BY <1>2 DEF Within
<1>4. m \in Within(l, t, g)
  BY <1>3
<1>5. m = k
  <2>1. m \in DOMAIN l[t].ins /\ Before(l, t, m) <= g /\ g < Before(l, t, m + 1)
    BY <1>4 DEF Within
  <2> HIDE DEF m
  <2>2. m \in 1 .. Len(l[t].ins) /\ l[t].ins[m] \in CoinsMade(l)
    BY <2>1, InputShape
  <2>3. m \in 1 .. Len(l[t].ins) + 1
    BY <2>2, LedgerShape
  <2>4. Before(l, t, m) \in Nat /\ Before(l, t, m + 1) = Before(l, t, m) + OutValue(l, l[t].ins[m])
        /\ OutValue(l, l[t].ins[m]) \in Nat
    BY <2>2, <2>3, WhatGoesIn, CoinShape
  <2> DEFINE i == g - Before(l, t, m)
  <2>5. i \in Nat /\ i < OutValue(l, l[t].ins[m]) /\ Before(l, t, m) + i = Before(l, t, k) + j
    BY <1>2, <1>3, <2>1, <2>4
  <2> HIDE DEF i
  <2> QED BY <2>1, <2>5, GoesInOnce
<1>6. UnitsOf(l)[t] = Units(l, UnitsOf(l), t)
  BY UnitsDefined
<1> DEFINE u == UnitsOf(l)
<1> HIDE DEF u, g
<1>7. u[t][g] = u[l[t].ins[m][1]][OutStart(l, l[t].ins[m]) + (g - Before(l, t, m))]
  BY <1>3, <1>6 DEF Units, u
<1> HIDE DEF m
<1>8. u[t][g] = u[p[1]][OutStart(l, p) + (g - Before(l, t, k))]
  BY <1>5, <1>7
<1>9. g - Before(l, t, k) = j
  BY <1>2 DEF g
<1> QED BY <1>3, <1>8, <1>9 DEF u, g

\* One that did not is new.
LEMMA UnitNew ==
  ASSUME NEW l, LedgerOK(l), NEW t \in DOMAIN l, NEW g \in Nat, AddUp(InValues(l, t)) <= g
  PROVE  UnitsOf(l)[t][g] = <<t, g>>
<1>1. Within(l, t, g) = {}
  <2> SUFFICES ASSUME NEW k \in DOMAIN l[t].ins, g < Before(l, t, k + 1) PROVE FALSE
    BY DEF Within
  <2> DEFINE b == InValues(l, t)
  <2>1. k \in 1 .. Len(b) /\ b \in Seq(Nat) /\ AddUp(b) <= g
    BY InputShape, WhatGoesIn
  <2>2. g < AddUp(SubSeq(b, 1, k))
    <3>1. (k + 1) - 1 = k
      BY <2>1
    <3> QED BY <3>1 DEF Before
  <2> HIDE DEF b
  <2>3. k \in 0 .. Len(b)
    BY <2>1
  <2>4. AddUp(SubSeq(b, 1, k)) \in Nat /\ AddUp(SubSeq(b, 1, k)) <= AddUp(b) /\ AddUp(b) \in Nat
    BY <2>1, <2>3, SumsBefore
  <2> QED BY <2>1, <2>2, <2>4
<1>2. UnitsOf(l)[t] = Units(l, UnitsOf(l), t)
  BY UnitsDefined
<1> QED BY <1>1, <1>2 DEF Units

\* Each of the units that came in came in by some input.
LEMMA UnitCameIn ==
  ASSUME NEW l, LedgerOK(l), NEW t \in DOMAIN l, NEW g \in Nat, g < AddUp(InValues(l, t))
  PROVE  \E k \in DOMAIN l[t].ins, j \in Nat : j < OutValue(l, l[t].ins[k]) /\ g = Before(l, t, k) + j
<1> DEFINE b == InValues(l, t)
<1>1. b \in Seq(Nat) /\ Len(b) = Len(l[t].ins)
  BY WhatGoesIn
<1>2. PICK k \in 1 .. Len(b) : AddUp(SubSeq(b, 1, k - 1)) <= g /\ g < AddUp(SubSeq(b, 1, k))
  BY <1>1, PlaceSome
<1>3. k \in 1 .. Len(l[t].ins) /\ k \in DOMAIN l[t].ins /\ k \in 1 .. Len(l[t].ins) + 1 /\ (k + 1) - 1 = k
  BY <1>1, <1>2, LedgerShape
<1>4. Before(l, t, k) <= g /\ g < Before(l, t, k + 1)
  BY <1>2, <1>3 DEF Before
<1>5. Before(l, t, k) \in Nat /\ Before(l, t, k + 1) = Before(l, t, k) + OutValue(l, l[t].ins[k])
      /\ OutValue(l, l[t].ins[k]) \in Nat
  BY <1>3, WhatGoesIn, InputShape, CoinShape
<1> DEFINE j == g - Before(l, t, k)
<1>6. j \in Nat /\ j < OutValue(l, l[t].ins[k]) /\ g = Before(l, t, k) + j
  BY <1>4, <1>5
<1> HIDE DEF j
<1> QED BY <1>3, <1>6

\* A unit was minted by then.
LEMMA UnitsOld ==
  ASSUME NEW l, LedgerOK(l)
  PROVE  \A t \in DOMAIN l : \A g \in Nat : UnitsOf(l)[t][g] \in Nat \X Nat /\ UnitsOf(l)[t][g][1] <= t
<1> DEFINE u == UnitsOf(l)
           last == Len(l)
           T == {n \in 0 .. last : \A t \in 1 .. n : \A g \in Nat : u[t][g][1] <= t}
<1>1. DOMAIN l = 1 .. last /\ last \in Nat
  BY LedgerShape
<1>2. \A t \in DOMAIN l : \A g \in Nat : u[t][g] \in Nat \X Nat
  <2>1. u \in [DOMAIN l -> [Nat -> Nat \X Nat]]
    BY UnitsDefined
  <2> HIDE DEF u
  <2> QED BY <2>1
<1>3. 0 \in T
  BY <1>1
<1>4. ASSUME NEW n \in 0 .. last - 1, n \in T PROVE n + 1 \in T
  <2>1. n + 1 \in DOMAIN l /\ n + 1 \in 0 .. last /\ n \in Nat
    BY <1>1
  <2>2. ASSUME NEW g \in Nat PROVE u[n + 1][g][1] <= n + 1
    <3>1. AddUp(InValues(l, n + 1)) \in Nat
      BY <2>1, WhatGoesIn, SumsBefore
    <3>2. CASE AddUp(InValues(l, n + 1)) <= g
      <4>1. u[n + 1][g] = <<n + 1, g>>
        BY <2>1, <3>2, UnitNew
      <4> QED BY <2>1, <4>1
    <3>3. CASE g < AddUp(InValues(l, n + 1))
      <4>1. PICK k \in DOMAIN l[n + 1].ins, j \in Nat :
              j < OutValue(l, l[n + 1].ins[k]) /\ g = Before(l, n + 1, k) + j
        BY <2>1, <3>3, UnitCameIn
      <4> DEFINE p == l[n + 1].ins[k]
                 h == OutStart(l, p) + j
      <4>2. u[n + 1][g] = u[p[1]][h]
        BY <2>1, <4>1, UnitFromInput
      <4>3. p \in CoinsMade(l) /\ p[1] \in DOMAIN l /\ p[1] < n + 1
        BY <2>1, InputShape
      <4>4. h \in Nat
        <5>1. OutStart(l, p) \in Nat
          BY <4>3, CoinShape
        <5> HIDE DEF p
        <5> QED BY <5>1
      <4> HIDE DEF p, h, u
      <4>5. p[1] \in 1 .. n /\ p[1] \in Nat
        BY <1>1, <2>1, <4>3
      <4>6. u[p[1]][h][1] <= p[1] /\ u[p[1]][h][1] \in Nat
        BY <1>2, <1>4, <4>3, <4>4, <4>5
      <4> QED BY <2>1, <4>2, <4>3, <4>5, <4>6
    <3> QED BY <3>1, <3>2, <3>3
  <2>3. \A t \in 1 .. n + 1 : t = n + 1 \/ t \in 1 .. n
    BY <2>1
  <2> HIDE DEF u
  <2> QED BY <1>4, <2>1, <2>2, <2>3
<1>5. 0 .. last \subseteq T
  <2> HIDE DEF T, last
  <2> QED BY <1>1, <1>3, <1>4, UpTo
<1>6. last \in T
  BY <1>1, <1>5
<1> HIDE DEF u
<1> QED BY <1>1, <1>2, <1>6 DEF u

\* The outputs that the first n transactions made and did not spend; no unit is in two of them, or twice in one.
Unspent(l, n) ==
  {o \in CoinsMade(l) : o[1] <= n /\ \A t \in DOMAIN l : \A k \in DOMAIN l[t].ins : t <= n => l[t].ins[k] # o}
Separate(l, n) ==
  \A o, p \in Unspent(l, n) : \A i, j \in Nat :
    (i < OutValue(l, o) /\ j < OutValue(l, p) /\ UnitsOf(l)[o[1]][OutStart(l, o) + i] = UnitsOf(l)[p[1]][OutStart(l, p) + j])
      => (o = p /\ i = j)

\* What an input spends is unspent until then.
LEMMA InputFree ==
  ASSUME NEW l, LedgerOK(l), NEW t \in DOMAIN l, NEW k \in DOMAIN l[t].ins,
         NEW n \in Nat, l[t].ins[k][1] <= n, n < t
  PROVE  l[t].ins[k] \in Unspent(l, n)
<1>1. \A s \in DOMAIN l : \A m \in DOMAIN l[s].ins : l[t].ins[k] = l[s].ins[m] => t = s /\ k = m
  BY InputShape
<1>2. l[t].ins[k] \in CoinsMade(l) /\ t \in Nat
  BY InputShape, LedgerShape
<1>3. ASSUME NEW s \in DOMAIN l, NEW m \in DOMAIN l[s].ins, s <= n PROVE l[s].ins[m] # l[t].ins[k]
  BY <1>1, <1>2, <1>3, LedgerShape
<1> QED BY <1>2, <1>3 DEF Unspent

\* The unit at place g of t comes from place j of its input k; from some place of some input.
From(l, t, g, k, j) ==
  /\ j < OutValue(l, l[t].ins[k]) /\ g = Before(l, t, k) + j
  /\ UnitsOf(l)[t][g] = UnitsOf(l)[l[t].ins[k][1]][OutStart(l, l[t].ins[k]) + j]
CameIn(l, t, g) == \E k \in DOMAIN l[t].ins, j \in Nat : From(l, t, g, k, j)

\* A unit of an output of t: minted there, or of an input.
LEMMA UnitOfOutput ==
  ASSUME NEW l, LedgerOK(l), NEW o \in CoinsMade(l), NEW i \in Nat, i < OutValue(l, o),
         NEW t, t = o[1], NEW g, g = OutStart(l, o) + i
  PROVE  /\ g \in Nat /\ g < AddUp(l[t].outs) /\ AddUp(l[t].outs) \in Nat /\ AddUp(InValues(l, t)) \in Nat
         /\ \/ UnitsOf(l)[t][g] = <<t, g>> /\ AddUp(InValues(l, t)) = 0 /\ l[t].ins = <<>>
            \/ g < AddUp(InValues(l, t)) /\ l[t].ins # <<>> /\ CameIn(l, t, g)
<1> DEFINE out == AddUp(l[t].outs)
           in == AddUp(InValues(l, t))
<1>1. t \in DOMAIN l /\ OutStart(l, o) \in Nat /\ OutValue(l, o) \in Nat /\ OutStart(l, o) + OutValue(l, o) <= out
  BY CoinShape
<1>2. out \in Nat /\ in \in Nat
  BY <1>1, LedgerShape, WhatGoesIn, SumsBefore
<1>3. g \in Nat /\ g < out
  <2> HIDE DEF out
  <2> QED BY <1>1, <1>2
<1>4. CASE l[t].ins = <<>>
  <2>1. Len(l[t].ins) + 1 = 1
    BY <1>4
  <2>2. in = 0
    BY <1>1, <2>1, WhatGoesIn
  <2>3. UnitsOf(l)[t][g] = <<t, g>>
    <3>1. in <= g
      BY <1>3, <2>2
    <3> QED BY <1>1, <1>3, <3>1, UnitNew
  <2> HIDE DEF in, out
  <2>4. g \in Nat /\ g < out /\ out \in Nat /\ in \in Nat /\ UnitsOf(l)[t][g] = <<t, g>> /\ in = 0
    BY <1>2, <1>3, <2>2, <2>3
  <2> QED BY <1>4, <2>4 DEF in, out
<1>5. CASE l[t].ins # <<>>
  <2>1. out <= in
    BY <1>1, <1>5, Zenon DEF LedgerOK
  <2>2. g < in
    <3> HIDE DEF in, out
    <3> QED BY <1>2, <1>3, <2>1
  <2>3. PICK k \in DOMAIN l[t].ins, j \in Nat : j < OutValue(l, l[t].ins[k]) /\ g = Before(l, t, k) + j
    <3> QED BY <1>1, <1>3, <2>2, UnitCameIn
  <2>4. UnitsOf(l)[t][g] = UnitsOf(l)[l[t].ins[k][1]][OutStart(l, l[t].ins[k]) + j]
    BY <1>1, <2>3, UnitFromInput
  <2> HIDE DEF in, out
  <2>5. g \in Nat /\ g < out /\ out \in Nat /\ in \in Nat /\ g < in
    BY <1>2, <1>3, <2>2
  <2>6. CameIn(l, t, g)
    BY <2>3, <2>4 DEF CameIn, From
  <2> QED BY <1>5, <2>5, <2>6 DEF in, out
<1> QED BY <1>4, <1>5

\* No unit is ever in two places.
LEMMA UnitsSeparate ==
  ASSUME NEW l, LedgerOK(l)
  PROVE  \A n \in 0 .. Len(l) : Separate(l, n)
<1> DEFINE u == UnitsOf(l)
           last == Len(l)
           T == {n \in 0 .. last : Separate(l, n)}
<1>1. DOMAIN l = 1 .. last /\ last \in Nat
  BY LedgerShape
<1>2. 0 \in T
  <2>1. \A o \in Unspent(l, 0) : FALSE
    <3> SUFFICES ASSUME NEW o \in Unspent(l, 0) PROVE FALSE
      OBVIOUS
    <3>1. o[1] \in DOMAIN l /\ o[1] <= 0
      BY CoinShape DEF Unspent
    <3> QED BY <1>1, <3>1
  <2> QED BY <1>1, <2>1 DEF Separate
<1>3. ASSUME NEW n \in 0 .. last - 1, n \in T PROVE n + 1 \in T
  <2> DEFINE t == n + 1
             In(k) == l[t].ins[k]
  <2>1. t \in DOMAIN l /\ t \in 0 .. last /\ n \in Nat /\ t \in Nat /\ n < t
    BY <1>1
  <2>2. ASSUME NEW o \in Unspent(l, t), o[1] # t PROVE o \in Unspent(l, n) /\ \A k \in DOMAIN l[t].ins : In(k) # o
    <3>1. o \in CoinsMade(l) /\ o[1] <= t /\ \A s \in DOMAIN l : \A k \in DOMAIN l[s].ins : s <= t => l[s].ins[k] # o
      BY DEF Unspent
    <3>2. o[1] \in Nat
      BY <3>1, CoinShape, LedgerShape
    <3>3. o[1] <= n /\ \A s \in DOMAIN l : s <= n => s <= t
      BY <1>1, <2>1, <2>2, <3>1, <3>2
    <3>4. t <= t
      BY <2>1
    <3> QED BY <2>1, <3>1, <3>3, <3>4 DEF Unspent
  <2>3. ASSUME NEW k \in DOMAIN l[t].ins PROVE In(k) \in Unspent(l, n)
    <3>1. l[t].ins[k][1] < t /\ l[t].ins[k][1] \in DOMAIN l
      BY <2>1, InputShape
    <3>2. l[t].ins[k][1] <= n
      BY <1>1, <2>1, <3>1
    <3> QED BY <2>1, <3>2, InputFree
  <2>4. Separate(l, n)
    BY <1>3
  <2>5. ASSUME NEW o \in Unspent(l, t), NEW p \in Unspent(l, t), NEW i \in Nat, NEW j \in Nat,
               i < OutValue(l, o), j < OutValue(l, p), u[o[1]][OutStart(l, o) + i] = u[p[1]][OutStart(l, p) + j],
               o[1] = t, p[1] # t
        PROVE  FALSE
    <3>1. o \in CoinsMade(l) /\ p \in CoinsMade(l)
      BY DEF Unspent
    <3>2. p \in Unspent(l, n) /\ \A k \in DOMAIN l[t].ins : In(k) # p
      BY <2>2, <2>5
    <3> DEFINE g == OutStart(l, o) + i
               h == OutStart(l, p) + j
    <3>3. u[t][g] = <<t, g>> \/ CameIn(l, t, g)
      <4>1. t = o[1] /\ g = OutStart(l, o) + i /\ i < OutValue(l, o)
        BY <2>5
      <4> HIDE DEF g, t
      <4> QED BY <3>1, <4>1, UnitOfOutput
    <3>4. h \in Nat /\ p[1] \in DOMAIN l /\ p[1] <= n /\ p[1] \in Nat
      <4>1. p[1] \in DOMAIN l /\ p[1] <= n /\ OutStart(l, p) \in Nat
        BY <3>1, <3>2, CoinShape DEF Unspent
      <4> QED BY <1>1, <4>1
    <3>5. u[p[1]][h][1] <= p[1] /\ u[p[1]][h] \in Nat \X Nat
      <4> HIDE DEF h
      <4> QED BY <3>4, UnitsOld
    <3>6. u[t][g] = u[p[1]][h]
      BY <2>5
    <3>7. CASE u[t][g] = <<t, g>>
      <4> HIDE DEF g, h, u
      <4>1. u[p[1]][h][1] = t
        BY <3>6, <3>7
      <4> QED BY <2>1, <3>4, <3>5, <4>1
    <3>8. CASE CameIn(l, t, g)
      <4>1. PICK k \in DOMAIN l[t].ins, m \in Nat :
                 /\ m < OutValue(l, l[t].ins[k]) /\ u[t][g] = u[l[t].ins[k][1]][OutStart(l, l[t].ins[k]) + m]
        BY <3>8 DEF CameIn, From
      <4>2. In(k) \in Unspent(l, n) /\ In(k) # p
        BY <2>3, <3>2
      <4>3. u[In(k)[1]][OutStart(l, In(k)) + m] = u[p[1]][OutStart(l, p) + j] /\ m < OutValue(l, In(k))
        BY <3>6, <4>1
      <4> HIDE DEF In, g, h, u, t
      <4> QED BY <2>4, <2>5, <3>2, <4>2, <4>3 DEF Separate, u
    <3> QED BY <3>3, <3>7, <3>8
  <2>6. ASSUME NEW o \in Unspent(l, t), NEW p \in Unspent(l, t), NEW i \in Nat, NEW j \in Nat,
               i < OutValue(l, o), j < OutValue(l, p), u[o[1]][OutStart(l, o) + i] = u[p[1]][OutStart(l, p) + j],
               o[1] = t, p[1] = t
        PROVE  o = p /\ i = j
    <3>1. o \in CoinsMade(l) /\ p \in CoinsMade(l)
      BY DEF Unspent
    <3> DEFINE g == OutStart(l, o) + i
               h == OutStart(l, p) + j
    <3>2. g \in Nat /\ h \in Nat /\ u[t][g] = u[t][h]
      BY <2>5, <2>6, <3>1, UnitOfOutput
    <3>3. \/ u[t][g] = <<t, g>> /\ l[t].ins = <<>>
          \/ l[t].ins # <<>> /\ CameIn(l, t, g)
      <4>1. t = o[1] /\ g = OutStart(l, o) + i /\ i < OutValue(l, o)
        BY <2>6
      <4> HIDE DEF g, h, t
      <4>2. \/ UnitsOf(l)[t][g] = <<t, g>> /\ AddUp(InValues(l, t)) = 0 /\ l[t].ins = <<>>
            \/ g < AddUp(InValues(l, t)) /\ l[t].ins # <<>> /\ CameIn(l, t, g)
        BY <2>6, <3>1, <4>1, UnitOfOutput, ZenonT(60)
      <4> QED BY <4>2
    <3>4. \/ u[t][h] = <<t, h>> /\ l[t].ins = <<>>
          \/ l[t].ins # <<>> /\ CameIn(l, t, h)
      <4>1. t = p[1] /\ h = OutStart(l, p) + j /\ j < OutValue(l, p)
        BY <2>6
      <4> HIDE DEF g, h, t
      <4>2. \/ UnitsOf(l)[t][h] = <<t, h>> /\ AddUp(InValues(l, t)) = 0 /\ l[t].ins = <<>>
            \/ h < AddUp(InValues(l, t)) /\ l[t].ins # <<>> /\ CameIn(l, t, h)
        BY <2>6, <3>1, <4>1, UnitOfOutput, ZenonT(60)
      <4> QED BY <4>2
    <3>5. g = h
      <4>1. CASE l[t].ins = <<>>
        <5>1. u[t][g] = <<t, g>> /\ u[t][h] = <<t, h>>
          BY <3>3, <3>4, <4>1
        <5>2. <<t, g>> = <<t, h>>
          BY <3>2, <5>1
        <5> HIDE DEF g, h
        <5> QED BY <5>2
      <4>2. CASE l[t].ins # <<>>
        <5>1. PICK k \in DOMAIN l[t].ins, m \in Nat :
                  /\ m < OutValue(l, l[t].ins[k]) /\ g = Before(l, t, k) + m
                  /\ u[t][g] = u[l[t].ins[k][1]][OutStart(l, l[t].ins[k]) + m]
          BY <3>3, <4>2 DEF CameIn, From
        <5>2. PICK e \in DOMAIN l[t].ins, d \in Nat :
                  /\ d < OutValue(l, l[t].ins[e]) /\ h = Before(l, t, e) + d
                  /\ u[t][h] = u[l[t].ins[e][1]][OutStart(l, l[t].ins[e]) + d]
          BY <3>4, <4>2 DEF CameIn, From
        <5>3. In(k) \in Unspent(l, n) /\ In(e) \in Unspent(l, n)
          BY <2>3
        <5>4. u[In(k)[1]][OutStart(l, In(k)) + m] = u[In(e)[1]][OutStart(l, In(e)) + d]
              /\ m < OutValue(l, In(k)) /\ d < OutValue(l, In(e))
          BY <3>2, <5>1, <5>2
        <5>5. In(k) = In(e) /\ m = d
          <6> HIDE DEF In
          <6> QED BY <2>4, <5>3, <5>4 DEF Separate
        <5>6. k = e
          BY <2>1, <5>5, InputShape
        <5> QED BY <5>1, <5>2, <5>5, <5>6
      <4> QED BY <4>1, <4>2
    <3> QED BY <2>6, <3>1, <3>5, GoesOutOnce
  <2>7. ASSUME NEW o \in Unspent(l, t), NEW p \in Unspent(l, t), NEW i \in Nat, NEW j \in Nat,
               i < OutValue(l, o), j < OutValue(l, p), u[o[1]][OutStart(l, o) + i] = u[p[1]][OutStart(l, p) + j]
        PROVE  o = p /\ i = j
    <3>1. CASE o[1] = t /\ p[1] = t
      BY <2>6, <2>7, <3>1
    <3>2. CASE o[1] = t /\ p[1] # t
      BY <2>5, <2>7, <3>2
    <3>3. CASE o[1] # t /\ p[1] = t
      BY <2>5, <2>7, <3>3
    <3>4. CASE o[1] # t /\ p[1] # t
      <4>1. o \in Unspent(l, n) /\ p \in Unspent(l, n)
        BY <2>2, <3>4
      <4> QED BY <2>4, <2>7, <4>1 DEF Separate
    <3> QED BY <3>1, <3>2, <3>3, <3>4
  <2> HIDE DEF t
  <2>8. Separate(l, t)
    <3> SUFFICES ASSUME NEW o \in Unspent(l, t), NEW p \in Unspent(l, t), NEW i \in Nat, NEW j \in Nat,
                        i < OutValue(l, o), j < OutValue(l, p),
                        UnitsOf(l)[o[1]][OutStart(l, o) + i] = UnitsOf(l)[p[1]][OutStart(l, p) + j]
                 PROVE  o = p /\ i = j
      BY DEF Separate
    <3> QED BY <2>7
  <2> QED BY <2>1, <2>8 DEF t
<1>4. 0 .. last \subseteq T
  <2> HIDE DEF T, last
  <2> QED BY <1>1, <1>2, <1>3, UpTo
<1> QED BY <1>4

\* The unit an inscription was revealed on was not, till then, in an output that is spent later.
LEMMA RevealedBefore ==
  ASSUME NEW l, LedgerOK(l), NEW t \in DOMAIN l, NEW k \in DOMAIN l[t].ins, NEW m \in DOMAIN l, m < t,
         NEW j \in Nat, j < OutValue(l, l[t].ins[k]),
         UnitsOf(l)[m][0] = UnitsOf(l)[l[t].ins[k][1]][OutStart(l, l[t].ins[k]) + j]
  PROVE  m <= l[t].ins[k][1]
<1> DEFINE p == l[t].ins[k]
           u == UnitsOf(l)
<1>1. p \in CoinsMade(l) /\ p[1] \in DOMAIN l /\ OutStart(l, p) \in Nat
  BY InputShape, CoinShape
<1>2. DOMAIN l = 1 .. Len(l) /\ Len(l) \in Nat /\ p[1] \in Nat /\ m \in Nat
  BY <1>1, LedgerShape
<1> SUFFICES ASSUME p[1] < m PROVE FALSE
  BY <1>2
<1>3. m - 1 \in 0 .. Len(l) /\ m - 1 \in Nat /\ p[1] <= m - 1 /\ m - 1 < t /\ t \in Nat
  BY <1>2, LedgerShape
<1>4. p \in Unspent(l, m - 1)
  BY <1>3, InputFree
<1>5. AddUp(InValues(l, m)) \in Nat
  BY WhatGoesIn, SumsBefore
<1>6. CASE AddUp(InValues(l, m)) <= 0
  <2>1. u[m][0] = <<m, 0>>
    BY <1>6, UnitNew
  <2> DEFINE h == OutStart(l, p) + j
  <2>2. h \in Nat
    <3> HIDE DEF p
    <3> QED BY <1>1
  <2>3. u[m][0] = u[p[1]][h]
    OBVIOUS
  <2> HIDE DEF h
  <2>4. u[p[1]][h][1] <= p[1]
    BY <1>1, <2>2, UnitsOld
  <2> HIDE DEF u, p
  <2>5. u[p[1]][h][1] = m
    BY <2>1, <2>3
  <2> QED BY <1>2, <2>4, <2>5
<1>7. CASE 0 < AddUp(InValues(l, m))
  <2>1. PICK e \in DOMAIN l[m].ins, d \in Nat : d < OutValue(l, l[m].ins[e]) /\ 0 = Before(l, m, e) + d
    BY <1>7, UnitCameIn
  <2> DEFINE q == l[m].ins[e]
  <2>2. u[m][0] = u[q[1]][OutStart(l, q) + d]
    BY <2>1, UnitFromInput
  <2>3. q[1] < m /\ q[1] \in DOMAIN l
    BY InputShape
  <2>4. q[1] <= m - 1 /\ m - 1 < m
    BY <1>2, <2>3
  <2>5. q \in Unspent(l, m - 1)
    BY <1>3, <2>4, InputFree
  <2>6. Separate(l, m - 1)
    BY <1>3, UnitsSeparate
  <2>7. u[q[1]][OutStart(l, q) + d] = u[p[1]][OutStart(l, p) + j] /\ d < OutValue(l, q) /\ j < OutValue(l, p)
    BY <2>1, <2>2
  <2>8. q = p
    <3> HIDE DEF q, p
    <3> QED BY <1>4, <2>5, <2>6, <2>7 DEF Separate
  <2>9. m = t
    BY <2>8, InputShape
  <2> QED BY <1>2, <2>9
<1> QED BY <1>5, <1>6, <1>7

\* A mark that is there: by its fields, and which marks are.
LEMMA ReallyMarks ==
  ASSUME NEW l, LedgerOK(l), NEW o \in CoinsMade(l)
  PROVE  /\ \A m \in Really(l, o) :
              /\ m = [id |-> m.id, offset |-> m.offset] /\ m.id \in DOMAIN l /\ m.id \in Nat /\ m.id <= o[1]
              /\ l[m.id].reveals /\ m.offset \in Nat /\ m.offset < OutValue(l, o)
              /\ UnitsOf(l)[m.id][0] = UnitsOf(l)[o[1]][OutStart(l, o) + m.offset]
         /\ \A t \in DOMAIN l, d \in Nat :
              t <= o[1] /\ l[t].reveals /\ d < OutValue(l, o) /\ UnitsOf(l)[t][0] = UnitsOf(l)[o[1]][OutStart(l, o) + d]
              => [id |-> t, offset |-> d] \in Really(l, o)
<1>1. DOMAIN l = 1 .. Len(l) /\ Len(l) \in Nat /\ o[1] \in DOMAIN l /\ OutValue(l, o) \in Nat
  BY LedgerShape, CoinShape
<1>2. ASSUME NEW m \in Really(l, o)
      PROVE  /\ m = [id |-> m.id, offset |-> m.offset] /\ m.id \in DOMAIN l /\ m.id \in Nat /\ m.id <= o[1]
             /\ l[m.id].reveals /\ m.offset \in Nat /\ m.offset < OutValue(l, o)
             /\ UnitsOf(l)[m.id][0] = UnitsOf(l)[o[1]][OutStart(l, o) + m.offset]
  <2>1. /\ m \in [id : {t \in 1 .. o[1] : l[t].reveals}, offset : 0 .. OutValue(l, o) - 1]
        /\ UnitsOf(l)[m.id][0] = UnitsOf(l)[o[1]][OutStart(l, o) + m.offset]
    BY DEF Really
  <2>2. m.id \in 1 .. o[1] /\ l[m.id].reveals /\ m.offset \in 0 .. OutValue(l, o) - 1
        /\ m = [id |-> m.id, offset |-> m.offset]
    BY <2>1
  <2> QED BY <1>1, <2>1, <2>2
<1>3. ASSUME NEW t \in DOMAIN l, NEW d \in Nat, t <= o[1], l[t].reveals, d < OutValue(l, o),
             UnitsOf(l)[t][0] = UnitsOf(l)[o[1]][OutStart(l, o) + d]
      PROVE  [id |-> t, offset |-> d] \in Really(l, o)
  <2>1. t \in {s \in 1 .. o[1] : l[s].reveals} /\ d \in 0 .. OutValue(l, o) - 1
    BY <1>1, <1>3
  <2> QED BY <1>3, <2>1 DEF Really
<1> QED BY <1>2, <1>3

\* The first unit of a transaction is at its first place only.
LEMMA FirstUnit ==
  ASSUME NEW l, LedgerOK(l), NEW o \in CoinsMade(l), NEW i \in Nat, i < OutValue(l, o),
         UnitsOf(l)[o[1]][0] = UnitsOf(l)[o[1]][OutStart(l, o) + i]
  PROVE  OutStart(l, o) + i = 0
<1> DEFINE t == o[1]
           g == OutStart(l, o) + i
           u == UnitsOf(l)
<1>1. t \in DOMAIN l /\ t \in Nat /\ t - 1 \in Nat /\ t - 1 \in 0 .. Len(l) /\ t - 1 < t
  BY CoinShape, LedgerShape
<1>2. t = o[1] /\ g = OutStart(l, o) + i /\ u[t][0] = u[t][g] /\ u = UnitsOf(l)
  OBVIOUS
<1>3. /\ g \in Nat /\ AddUp(InValues(l, t)) \in Nat
      /\ \/ u[t][g] = <<t, g>> /\ AddUp(InValues(l, t)) = 0
         \/ g < AddUp(InValues(l, t)) /\ CameIn(l, t, g)
  <2> HIDE DEF t, g
  <2>1. /\ g \in Nat /\ AddUp(InValues(l, t)) \in Nat
        /\ \/ UnitsOf(l)[t][g] = <<t, g>> /\ AddUp(InValues(l, t)) = 0 /\ l[t].ins = <<>>
           \/ g < AddUp(InValues(l, t)) /\ l[t].ins # <<>> /\ CameIn(l, t, g)
    BY <1>2, UnitOfOutput, ZenonT(60)
  <2> QED BY <2>1
<1> HIDE DEF t, g, u
<1>4. CASE u[t][g] = <<t, g>> /\ AddUp(InValues(l, t)) = 0
  <2>1. 0 \in Nat /\ AddUp(InValues(l, t)) <= 0
    BY <1>4
  <2>2. u[t][0] = <<t, 0>>
    BY <1>1, <1>2, <2>1, UnitNew
  <2> QED BY <1>2, <1>4, <2>2
<1>5. CASE g < AddUp(InValues(l, t)) /\ CameIn(l, t, g)
  <2> DEFINE In(k) == l[t].ins[k]
  <2>1. PICK k \in DOMAIN l[t].ins, j \in Nat :
             j < OutValue(l, In(k)) /\ g = Before(l, t, k) + j /\ u[t][g] = u[In(k)[1]][OutStart(l, In(k)) + j]
    BY <1>2, <1>5 DEF CameIn, From
  <2>2. 0 \in Nat /\ 0 < AddUp(InValues(l, t))
    BY <1>3, <1>5
  <2>3. PICK e \in DOMAIN l[t].ins, d \in Nat : d < OutValue(l, In(e)) /\ 0 = Before(l, t, e) + d
    BY <1>1, <2>2, UnitCameIn
  <2>4. u[t][0] = u[In(e)[1]][OutStart(l, In(e)) + d]
    BY <1>1, <1>2, <2>3, UnitFromInput
  <2>5. ASSUME NEW n \in DOMAIN l[t].ins PROVE In(n) \in Unspent(l, t - 1)
    <3>1. In(n)[1] < t /\ In(n)[1] \in Nat
      BY <1>1, InputShape, LedgerShape
    <3>2. In(n)[1] <= t - 1
      <4> HIDE DEF In
      <4> QED BY <1>1, <3>1
    <3> QED BY <1>1, <3>2, InputFree
  <2>6. Separate(l, t - 1)
    BY <1>1, UnitsSeparate
  <2>7. In(k) = In(e) /\ j = d
    <3>1. In(k) \in Unspent(l, t - 1) /\ In(e) \in Unspent(l, t - 1)
      BY <2>5
    <3>2. u[In(k)[1]][OutStart(l, In(k)) + j] = u[In(e)[1]][OutStart(l, In(e)) + d]
      BY <1>2, <2>1, <2>4
    <3> HIDE DEF In
    <3> QED BY <1>2, <2>1, <2>3, <2>6, <3>1, <3>2 DEF Separate
  <2>8. k = e
    BY <1>1, <2>7, InputShape
  <2> QED BY <1>2, <2>1, <2>3, <2>7, <2>8
<1> QED BY <1>2, <1>3, <1>4, <1>5 DEF g

\* What an older transaction revealed came in by an input.
LEMMA OlderCameIn ==
  ASSUME NEW l, LedgerOK(l), NEW o \in CoinsMade(l), NEW m \in Really(l, o), m.id # o[1]
  PROVE  OutStart(l, o) + m.offset < AddUp(InValues(l, o[1]))
<1> DEFINE t == o[1]
           i == m.offset
           s == m.id
           g == OutStart(l, o) + i
           u == UnitsOf(l)
<1>1. /\ s \in DOMAIN l /\ s \in Nat /\ s <= t /\ i \in Nat /\ i < OutValue(l, o) /\ u[s][0] = u[t][g] /\ s # t
      /\ t \in DOMAIN l /\ t \in Nat
  BY ReallyMarks, CoinShape, LedgerShape
<1>2. t = o[1] /\ g = OutStart(l, o) + i /\ u = UnitsOf(l)
  OBVIOUS
<1> HIDE DEF t, i, s, g, u
<1>3. \/ UnitsOf(l)[t][g] = <<t, g>> /\ AddUp(InValues(l, t)) = 0 /\ l[t].ins = <<>>
      \/ g < AddUp(InValues(l, t)) /\ l[t].ins # <<>> /\ CameIn(l, t, g)
  BY <1>1, <1>2, UnitOfOutput, ZenonT(60)
<1>4. u[s][0][1] <= s
  BY <1>1, <1>2, UnitsOld
<1>5. ~(u[t][g] = <<t, g>>)
  <2> SUFFICES ASSUME u[t][g] = <<t, g>> PROVE FALSE
    OBVIOUS
  <2>1. u[s][0][1] = t
    BY <1>1
  <2> QED BY <1>1, <1>4, <2>1
<1>6. g < AddUp(InValues(l, t))
  BY <1>2, <1>3, <1>5
<1> QED BY <1>6 DEF g, t, i

\* A mark goes with the unit it is on, from an output that is spent to the one its unit goes to.
LEMMA MarkMoves ==
  ASSUME NEW l, LedgerOK(l), NEW o \in CoinsMade(l), NEW k \in DOMAIN l[o[1]].ins,
         NEW d \in Nat, d < OutValue(l, o), NEW j \in Nat, j < OutValue(l, l[o[1]].ins[k]),
         OutStart(l, o) + d = Before(l, o[1], k) + j, NEW s, s # o[1]
  PROVE  [id |-> s, offset |-> d] \in Really(l, o) <=> [id |-> s, offset |-> j] \in Really(l, l[o[1]].ins[k])
<1> DEFINE t == o[1]
           p == l[t].ins[k]
           u == UnitsOf(l)
           md == [id |-> s, offset |-> d]
           mj == [id |-> s, offset |-> j]
<1>1. t \in DOMAIN l /\ t \in Nat /\ p \in CoinsMade(l) /\ p[1] \in DOMAIN l /\ p[1] < t /\ p[1] \in Nat
  <2>1. t \in DOMAIN l /\ t \in Nat
    BY CoinShape, LedgerShape
  <2>2. p \in CoinsMade(l) /\ p[1] \in DOMAIN l /\ p[1] < t
    BY <2>1, InputShape
  <2> HIDE DEF p
  <2> QED BY <2>1, <2>2, LedgerShape
<1>2. u[t][OutStart(l, o) + d] = u[p[1]][OutStart(l, p) + j]
  BY <1>1, UnitFromInput
<1>3. md.id = s /\ md.offset = d /\ mj.id = s /\ mj.offset = j
  OBVIOUS
<1>4. ASSUME md \in Really(l, o) PROVE mj \in Really(l, p)
  <2>1. s \in DOMAIN l /\ s \in Nat /\ s <= t /\ l[s].reveals /\ u[s][0] = u[t][OutStart(l, o) + d]
    <3> HIDE DEF md
    <3> QED BY <1>3, <1>4, ReallyMarks
  <2>2. s < t
    BY <1>1, <2>1
  <2>3. u[s][0] = u[p[1]][OutStart(l, p) + j]
    BY <1>2, <2>1
  <2>4. s <= p[1]
    BY <1>1, <2>1, <2>2, <2>3, RevealedBefore
  <2> HIDE DEF p, u
  <2> QED BY <1>1, <2>1, <2>3, <2>4, ReallyMarks DEF u, p
<1>5. ASSUME mj \in Really(l, p) PROVE md \in Really(l, o)
  <2>1. s \in DOMAIN l /\ s \in Nat /\ s <= p[1] /\ l[s].reveals /\ u[s][0] = u[p[1]][OutStart(l, p) + j]
    <3> HIDE DEF mj, p
    <3> QED BY <1>1, <1>3, <1>5, ReallyMarks DEF u
  <2>2. s <= t
    BY <1>1, <2>1
  <2>3. u[s][0] = u[t][OutStart(l, o) + d]
    BY <1>2, <2>1
  <2> QED BY <1>1, <2>1, <2>2, <2>3, ReallyMarks
<1> QED BY <1>4, <1>5

\* What a transaction reveals is at its first place.
LEMMA OwnMark ==
  ASSUME NEW l, LedgerOK(l), NEW o \in CoinsMade(l), OutValue(l, o) > 0
  PROVE  /\ \A m \in Really(l, o) :
              m.id = o[1] => l[o[1]].reveals /\ OutStart(l, o) = 0 /\ m = [id |-> o[1], offset |-> 0]
         /\ l[o[1]].reveals /\ OutStart(l, o) = 0 => [id |-> o[1], offset |-> 0] \in Really(l, o)
<1>1. o[1] \in DOMAIN l /\ o[1] \in Nat /\ OutStart(l, o) \in Nat /\ OutValue(l, o) \in Nat
  BY CoinShape, LedgerShape
<1>2. ASSUME NEW m \in Really(l, o), m.id = o[1]
      PROVE  l[o[1]].reveals /\ OutStart(l, o) = 0 /\ m = [id |-> o[1], offset |-> 0]
  <2>1. /\ m = [id |-> m.id, offset |-> m.offset] /\ l[o[1]].reveals /\ m.offset \in Nat /\ m.offset < OutValue(l, o)
        /\ UnitsOf(l)[o[1]][0] = UnitsOf(l)[o[1]][OutStart(l, o) + m.offset]
    BY <1>2, ReallyMarks
  <2>2. OutStart(l, o) + m.offset = 0
    BY <2>1, FirstUnit
  <2>3. OutStart(l, o) = 0 /\ m.offset = 0
    BY <1>1, <2>1, <2>2
  <2> QED BY <1>2, <2>1, <2>3
<1>3. ASSUME l[o[1]].reveals, OutStart(l, o) = 0 PROVE [id |-> o[1], offset |-> 0] \in Really(l, o)
  <2>1. OutStart(l, o) + 0 = 0 /\ 0 < OutValue(l, o) /\ o[1] <= o[1] /\ 0 \in Nat
    BY <1>1, <1>3
  <2> QED BY <1>1, <1>3, <2>1, ReallyMarks
<1> QED BY <1>2, <1>3

\* Below the era nothing is inscribed.
LEMMA BelowTheEra ==
  ASSUME NEW l, LedgerOK(l), NEW o \in CoinsMade(l), ~(l[o[1]].height >= Era)
  PROVE  Really(l, o) = {}
<1> SUFFICES ASSUME NEW m \in Really(l, o) PROVE FALSE
  OBVIOUS
<1>1. m.id \in DOMAIN l /\ l[m.id].reveals /\ m.id <= o[1] /\ o[1] \in DOMAIN l
  BY ReallyMarks, CoinShape
<1>2. m.id \in 1 .. o[1]
  BY <1>1, LedgerShape
<1>3. l[m.id].height >= Era /\ l[m.id].height <= l[o[1]].height
  BY <1>1, <1>2, Zenon DEF LedgerOK
<1>4. l[m.id].height \in Nat /\ l[o[1]].height \in Nat /\ Era \in Nat
  BY <1>1, LedgerShape, TracerAssumption
<1> QED BY <1>3, <1>4

-----------------------------------------------------------------------------
(* One step of a walk.                                                      *)

\* The marks of an output are marks.
LEMMA MarksAreMarks ==
  ASSUME NEW l, LedgerOK(l), NEW o \in CoinsMade(l)
  PROVE  Really(l, o) \subseteq [id : Nat, offset : Nat]
<1> SUFFICES ASSUME NEW m \in Really(l, o) PROVE m \in [id : Nat, offset : Nat]
  OBVIOUS
<1>1. m = [id |-> m.id, offset |-> m.offset] /\ m.id \in Nat /\ m.offset \in Nat
  BY ReallyMarks
<1>2. [id |-> m.id, offset |-> m.offset] \in [id : Nat, offset : Nat]
  BY <1>1
<1> QED BY <1>1, <1>2

\* A frame at its next input, and in its next stage.
Moved(f, n, p, found, c) == [f EXCEPT !.next = n, !.passed = p, !.found = found, !.complete = c]
Staged(f, s, found) == [f EXCEPT !.stage = s, !.found = found]

\* Their fields.
LEMMA FrameFields ==
  ASSUME NEW l, NEW f \in Frames(l)
  PROVE  /\ f.coin \in CoinsMade(l) /\ f.stage \in {"door", "reading", "inputs"} /\ f.next \in Nat /\ f.passed \in Nat
         /\ f.found \in SUBSET [id : Nat, offset : Nat] /\ f.complete \in BOOLEAN
<1> DEFINE C == CoinsMade(l)
           M == SUBSET [id : Nat, offset : Nat]
<1>1. f \in [coin : C, stage : {"door", "reading", "inputs"}, next : Nat, passed : Nat, found : M, complete : BOOLEAN]
  BY DEF Frames
<1> HIDE DEF C, M
<1>2. /\ f.coin \in C /\ f.stage \in {"door", "reading", "inputs"} /\ f.next \in Nat /\ f.passed \in Nat
      /\ f.found \in M /\ f.complete \in BOOLEAN
  BY <1>1
<1> QED BY <1>2 DEF C, M

LEMMA FrameMoved ==
  ASSUME NEW l, NEW f \in Frames(l), NEW n \in Nat, NEW p \in Nat, NEW found \in SUBSET [id : Nat, offset : Nat],
         NEW c \in BOOLEAN, NEW g, g = Moved(f, n, p, found, c)
  PROVE  /\ g \in Frames(l) /\ g.coin = f.coin /\ g.stage = f.stage /\ g.next = n /\ g.passed = p
         /\ g.found = found /\ g.complete = c
<1> DEFINE C == CoinsMade(l)
           M == SUBSET [id : Nat, offset : Nat]
<1>1. f \in [coin : C, stage : {"door", "reading", "inputs"}, next : Nat, passed : Nat, found : M, complete : BOOLEAN]
      /\ found \in M
  BY DEF Frames
<1> HIDE DEF C, M
<1>2. /\ g \in [coin : C, stage : {"door", "reading", "inputs"}, next : Nat, passed : Nat, found : M, complete : BOOLEAN]
      /\ g.coin = f.coin /\ g.stage = f.stage /\ g.next = n /\ g.passed = p /\ g.found = found /\ g.complete = c
  BY <1>1 DEF Moved
<1> QED BY <1>2 DEF C, M, Frames

LEMMA FrameStaged ==
  ASSUME NEW l, NEW f \in Frames(l), NEW s \in {"door", "reading", "inputs"},
         NEW found \in SUBSET [id : Nat, offset : Nat], NEW g, g = Staged(f, s, found)
  PROVE  /\ g \in Frames(l) /\ g.coin = f.coin /\ g.stage = s /\ g.next = f.next /\ g.passed = f.passed
         /\ g.found = found /\ g.complete = f.complete
<1> DEFINE C == CoinsMade(l)
           M == SUBSET [id : Nat, offset : Nat]
<1>1. f \in [coin : C, stage : {"door", "reading", "inputs"}, next : Nat, passed : Nat, found : M, complete : BOOLEAN]
      /\ found \in M
  BY DEF Frames
<1> HIDE DEF C, M
<1>2. /\ g \in [coin : C, stage : {"door", "reading", "inputs"}, next : Nat, passed : Nat, found : M, complete : BOOLEAN]
      /\ g.coin = f.coin /\ g.stage = s /\ g.next = f.next /\ g.passed = f.passed /\ g.found = found
      /\ g.complete = f.complete
  BY <1>1 DEF Staged
<1> QED BY <1>2 DEF C, M, Frames

\* The input that a frame is at.
LEMMA InputOfFrame ==
  ASSUME LedgerOK(ledger), NEW f, FrameRight(ledger, f), f.next \in DOMAIN ledger[f.coin[1]].ins
  PROVE  /\ Input(f) \in CoinsMade(ledger) /\ OutValue(ledger, Input(f)) \in Nat
         /\ f.next + 1 \in 1 .. Len(ledger[f.coin[1]].ins) + 1
         /\ Before(ledger, f.coin[1], f.next + 1) = f.passed + OutValue(ledger, Input(f))
         /\ f.passed + OutValue(ledger, Input(f)) \in Nat
         /\ OutStart(ledger, f.coin) \in Nat /\ OutEnd(ledger, f.coin) \in Nat
         /\ OutEnd(ledger, f.coin) = OutStart(ledger, f.coin) + OutValue(ledger, f.coin)
<1>1. f \in Frames(ledger) /\ f.passed = Before(ledger, f.coin[1], f.next)
  BY DEF FrameRight
<1>2. f.coin \in CoinsMade(ledger) /\ f.passed \in Nat /\ f.next \in Nat
  BY <1>1, FrameFields
<1> DEFINE t == f.coin[1]
           k == f.next
<1>3. t \in DOMAIN ledger /\ Len(ledger[t].ins) \in Nat
  BY <1>2, CoinShape, LedgerShape
<1>4. /\ k \in 1 .. Len(ledger[t].ins) /\ ledger[t].ins[k] \in CoinsMade(ledger)
  BY <1>3, InputShape
<1>5. OutValue(ledger, ledger[t].ins[k]) \in Nat
  BY <1>4, CoinShape
<1>6. Before(ledger, t, k + 1) = Before(ledger, t, k) + OutValue(ledger, ledger[t].ins[k])
  BY <1>3, <1>4, WhatGoesIn
<1>7. OutStart(ledger, f.coin) \in Nat /\ OutEnd(ledger, f.coin) \in Nat
      /\ OutEnd(ledger, f.coin) = OutStart(ledger, f.coin) + OutValue(ledger, f.coin)
  BY <1>2, CoinShape
<1>8. k + 1 \in 1 .. Len(ledger[t].ins) + 1
  <2> HIDE DEF t, k
  <2> QED BY <1>3, <1>4
<1>9. Input(f) = ledger[t].ins[k]
  BY DEF Input
<1>10. Before(ledger, t, k + 1) = f.passed + OutValue(ledger, Input(f)) /\ f.passed + OutValue(ledger, Input(f)) \in Nat
  <2>1. Before(ledger, t, k) = f.passed
    BY <1>1
  <2> HIDE DEF t, k
  <2> QED BY <1>2, <1>5, <1>6, <1>9, <2>1
<1> QED BY <1>4, <1>5, <1>7, <1>8, <1>9, <1>10

\* What an input carried over is there.
LEMMA CarriedIsThere ==
  ASSUME LedgerOK(ledger), NEW f, FrameRight(ledger, f), f.next \in DOMAIN ledger[f.coin[1]].ins,
         NEW r, Right(ledger, Input(f), r)
  PROVE  Inherited(f, r.inscriptions) \subseteq Really(ledger, f.coin)
<1> DEFINE t == f.coin[1]
           p == Input(f)
           passed == f.passed
           start == OutStart(ledger, f.coin)
<1>1. /\ f.coin \in CoinsMade(ledger) /\ passed \in Nat /\ passed = Before(ledger, t, f.next)
  <2>1. f \in Frames(ledger) /\ f.passed = Before(ledger, t, f.next)
    BY DEF FrameRight
  <2> QED BY <2>1, FrameFields
<1>2. /\ p \in CoinsMade(ledger) /\ OutValue(ledger, p) \in Nat /\ start \in Nat /\ OutEnd(ledger, f.coin) \in Nat
      /\ OutEnd(ledger, f.coin) = start + OutValue(ledger, f.coin) /\ OutValue(ledger, f.coin) \in Nat
  BY <1>1, InputOfFrame, CoinShape
<1>3. p = ledger[t].ins[f.next]
  BY DEF Input
<1>4. t \in DOMAIN ledger /\ t \in Nat /\ p[1] < t /\ p[1] \in Nat
  <2>1. t \in DOMAIN ledger /\ t \in Nat
    BY <1>1, CoinShape, LedgerShape
  <2>2. ledger[t].ins[f.next][1] < t /\ ledger[t].ins[f.next][1] \in DOMAIN ledger
    BY <2>1, InputShape
  <2> HIDE DEF p
  <2> QED BY <1>3, <2>1, <2>2, LedgerShape
<1> SUFFICES ASSUME NEW x \in r.inscriptions, x.offset + passed \in Overlap(f)
             PROVE  [x EXCEPT !.offset = @ + passed - start] \in Really(ledger, f.coin)
  BY DEF Inherited
<1>5. x \in Really(ledger, p)
  BY DEF Right
<1>6. /\ x = [id |-> x.id, offset |-> x.offset] /\ x.id <= p[1] /\ x.id \in Nat /\ x.offset \in Nat
      /\ x.offset < OutValue(ledger, p)
  BY <1>2, <1>5, ReallyMarks
<1> DEFINE d == x.offset + passed - start
<1>7. x.offset + passed >= start /\ x.offset + passed < start + OutValue(ledger, f.coin)
  <2>1. x.offset + passed \in start .. OutEnd(ledger, f.coin) - 1
    BY DEF Overlap
  <2> HIDE DEF start, passed
  <2> QED BY <1>1, <1>2, <1>6, <2>1
<1>8. d \in Nat /\ d < OutValue(ledger, f.coin) /\ start + d = passed + x.offset
  <2> HIDE DEF start, passed
  <2> QED BY <1>1, <1>2, <1>6, <1>7
<1>9. [x EXCEPT !.offset = @ + passed - start] = [id |-> x.id, offset |-> d]
  <2> HIDE DEF start, passed
  <2> QED BY <1>6
<1>10. x.id # t
  <2> HIDE DEF t, p
  <2> QED BY <1>4, <1>6
<1>11. [id |-> x.id, offset |-> x.offset] \in Really(ledger, ledger[t].ins[f.next])
  BY <1>3, <1>5, <1>6
<1>12. start + d = Before(ledger, t, f.next) + x.offset
  BY <1>1, <1>8
<1> HIDE DEF d
<1>13. [id |-> x.id, offset |-> d] \in Really(ledger, f.coin)
  <2>1. x.offset < OutValue(ledger, ledger[t].ins[f.next])
    BY <1>3, <1>6
  <2> QED BY <1>1, <1>6, <1>8, <1>10, <1>11, <1>12, <2>1, MarkMoves
<1> QED BY <1>9, <1>13

\* A mark whose unit came in by the input a frame is at is carried over, if all that is there was found.
LEMMA AllIsCarried ==
  ASSUME LedgerOK(ledger), NEW f, FrameRight(ledger, f), f.next \in DOMAIN ledger[f.coin[1]].ins,
         NEW m \in Really(ledger, f.coin), m.id # f.coin[1],
         ~(OutStart(ledger, f.coin) + m.offset < f.passed),
         OutStart(ledger, f.coin) + m.offset < f.passed + OutValue(ledger, Input(f))
  PROVE  /\ OutStart(ledger, f.coin) + m.offset \in Overlap(f)
         /\ \A found : Really(ledger, Input(f)) \subseteq found => m \in Inherited(f, found)
<1> DEFINE t == f.coin[1]
           p == Input(f)
           passed == f.passed
           start == OutStart(ledger, f.coin)
           j == start + m.offset - passed
<1>1. /\ f.coin \in CoinsMade(ledger) /\ passed \in Nat /\ passed = Before(ledger, t, f.next)
  <2>1. f \in Frames(ledger) /\ f.passed = Before(ledger, t, f.next)
    BY DEF FrameRight
  <2> QED BY <2>1, FrameFields
<1>2. /\ OutValue(ledger, p) \in Nat /\ start \in Nat /\ OutEnd(ledger, f.coin) = start + OutValue(ledger, f.coin)
      /\ OutValue(ledger, f.coin) \in Nat
  BY <1>1, InputOfFrame, CoinShape
<1>3. p = ledger[t].ins[f.next]
  BY DEF Input
<1>4. m = [id |-> m.id, offset |-> m.offset] /\ m.offset \in Nat /\ m.offset < OutValue(ledger, f.coin)
  BY <1>1, ReallyMarks
<1>5. start + m.offset >= passed /\ start + m.offset < passed + OutValue(ledger, p)
  <2>1. ~(start + m.offset < passed) /\ start + m.offset < passed + OutValue(ledger, p)
    OBVIOUS
  <2> HIDE DEF start, passed, p
  <2> QED BY <1>1, <1>2, <1>4, <2>1
<1>6. j \in Nat /\ j < OutValue(ledger, p) /\ start + m.offset = passed + j /\ j + passed = start + m.offset
      /\ j + passed - start = m.offset
  <2> HIDE DEF start, passed, p
  <2> QED BY <1>1, <1>2, <1>4, <1>5
<1>7. start + m.offset \in Overlap(f)
  <2>1. start + m.offset \in passed .. passed + OutValue(ledger, p) - 1
    <3> HIDE DEF start, passed, p
    <3> QED BY <1>1, <1>2, <1>4, <1>5
  <2>2. start + m.offset \in start .. OutEnd(ledger, f.coin) - 1
    <3> HIDE DEF start, passed, p
    <3> QED BY <1>1, <1>2, <1>4
  <2> QED BY <2>1, <2>2 DEF Overlap
<1> DEFINE x == [id |-> m.id, offset |-> j]
<1> HIDE DEF j
<1>8. x \in Really(ledger, p)
  <2>1. j < OutValue(ledger, ledger[t].ins[f.next]) /\ start + m.offset = Before(ledger, t, f.next) + j
    BY <1>1, <1>3, <1>6
  <2>2. [id |-> m.id, offset |-> j] \in Really(ledger, ledger[t].ins[f.next])
    BY <1>1, <1>4, <1>6, <2>1, MarkMoves
  <2> QED BY <1>3, <2>2
<1>9. ASSUME NEW found, Really(ledger, p) \subseteq found PROVE m \in Inherited(f, found)
  <2>1. x \in found /\ x.offset + passed \in Overlap(f)
    BY <1>6, <1>7, <1>8, <1>9
  <2>2. m = [x EXCEPT !.offset = @ + passed - start]
    <3> HIDE DEF start, passed
    <3> QED BY <1>4, <1>6
  <2> HIDE DEF x
  <2> QED BY <2>1, <2>2 DEF Inherited
<1> QED BY <1>7, <1>9

\* A frame after the input it is at; what it has found by then, if that is all, is all of what it passed.
Advanced(f, found, c) == Moved(f, f.next + 1, f.passed + OutValue(ledger, Input(f)), found, c)
AllTaken(f, found, c) ==
  \A m \in Really(ledger, f.coin) :
    c /\ m.id # f.coin[1] /\ OutStart(ledger, f.coin) + m.offset \in Overlap(f)
    /\ ~(OutStart(ledger, f.coin) + m.offset < f.passed) => m \in found

\* A frame whose stage is the inputs keeps what it has found of what it passed.
LEMMA AfterInput ==
  ASSUME LedgerOK(ledger), NEW f, FrameRight(ledger, f), f.stage = "inputs", f.next \in DOMAIN ledger[f.coin[1]].ins,
         NEW found, NEW c \in BOOLEAN, f.found \subseteq found, found \subseteq Really(ledger, f.coin), c => f.complete,
         AllTaken(f, found, c)
  PROVE  /\ FrameRight(ledger, Advanced(f, found, c)) /\ Advanced(f, found, c).coin = f.coin
         /\ Advanced(f, found, c).stage = "inputs"
<1>1. /\ f \in Frames(ledger) /\ OutValue(ledger, f.coin) > 0
      /\ \A m \in Really(ledger, f.coin) :
           m.id = f.coin[1] \/ (f.complete /\ OutStart(ledger, f.coin) + m.offset < f.passed) => m \in f.found
  BY DEF FrameRight
<1> DEFINE n == f.next + 1
           p == f.passed + OutValue(ledger, Input(f))
<1>2. /\ n \in 1 .. Len(ledger[f.coin[1]].ins) + 1 /\ n \in Nat /\ p \in Nat /\ p = Before(ledger, f.coin[1], n)
  <2>1. /\ f.next + 1 \in 1 .. Len(ledger[f.coin[1]].ins) + 1
        /\ Before(ledger, f.coin[1], f.next + 1) = f.passed + OutValue(ledger, Input(f))
        /\ f.passed + OutValue(ledger, Input(f)) \in Nat
    BY InputOfFrame
  <2>2. f.next \in Nat
    BY <1>1, FrameFields
  <2> QED BY <2>1, <2>2
<1>3. f.coin \in CoinsMade(ledger)
  BY <1>1, FrameFields
<1>4. found \in SUBSET [id : Nat, offset : Nat]
  BY <1>3, MarksAreMarks
<1> DEFINE g == Advanced(f, found, c)
<1>5. g = Moved(f, n, p, found, c)
  BY DEF Advanced
<1> HIDE DEF n, p, g
<1>6. /\ g \in Frames(ledger) /\ g.coin = f.coin /\ g.stage = f.stage /\ g.next = n /\ g.passed = p
      /\ g.found = found /\ g.complete = c
  BY <1>1, <1>2, <1>4, <1>5, FrameMoved
<1>7. ASSUME NEW m \in Really(ledger, f.coin), m.id = f.coin[1] \/ (c /\ OutStart(ledger, f.coin) + m.offset < p)
      PROVE  m \in found
  <2>1. CASE m.id = f.coin[1] \/ (c /\ OutStart(ledger, f.coin) + m.offset < f.passed)
    <3>1. m \in f.found
      BY <1>1, <2>1
    <3> QED BY <3>1
  <2>2. CASE c /\ m.id # f.coin[1] /\ ~(OutStart(ledger, f.coin) + m.offset < f.passed)
    <3>1. OutStart(ledger, f.coin) + m.offset < f.passed + OutValue(ledger, Input(f))
      BY <1>7, <2>2 DEF p
    <3>2. OutStart(ledger, f.coin) + m.offset \in Overlap(f)
      BY <2>2, <3>1, AllIsCarried
    <3> QED BY <2>2, <3>2 DEF AllTaken
  <2> QED BY <1>7, <2>1, <2>2
<1>8. FrameRight(ledger, g)
  BY <1>1, <1>2, <1>6, <1>7 DEF FrameRight
<1> QED BY <1>6, <1>8 DEF g

\* An input that shares nothing with the output is passed.
LEMMA PastRight ==
  ASSUME LedgerOK(ledger), NEW f, FrameRight(ledger, f), f.stage = "inputs", f.next \in DOMAIN ledger[f.coin[1]].ins,
         Overlap(f) = {}
  PROVE  FrameRight(ledger, Past(f)) /\ Past(f).coin = f.coin /\ Past(f).stage = "inputs"
<1>1. f \in Frames(ledger) /\ f.found \subseteq Really(ledger, f.coin)
  BY DEF FrameRight
<1>2. f.complete \in BOOLEAN
  BY <1>1, FrameFields
<1> DEFINE n == f.next + 1
           p == f.passed + OutValue(ledger, Input(f))
<1>3. Past(f) = [f EXCEPT !.next = n, !.passed = p]
  BY DEF Past
<1>4. [f EXCEPT !.next = n, !.passed = p] = [f EXCEPT !.next = n, !.passed = p, !.found = f.found, !.complete = f.complete]
  <2> DEFINE C == CoinsMade(ledger)
             M == SUBSET [id : Nat, offset : Nat]
  <2>1. f \in [coin : C, stage : {"door", "reading", "inputs"}, next : Nat, passed : Nat, found : M, complete : BOOLEAN]
    BY <1>1 DEF Frames
  <2> HIDE DEF C, M, n, p
  <2> QED BY <2>1
<1>5. Past(f) = Advanced(f, f.found, f.complete)
  BY <1>3, <1>4 DEF Moved, Advanced
<1>6. AllTaken(f, f.found, f.complete) /\ f.found \subseteq f.found /\ (f.complete => f.complete)
  BY DEF AllTaken
<1> HIDE DEF n, p
<1> QED BY <1>1, <1>2, <1>5, <1>6, AfterInput

\* What was found in an input is joined to what its output has.
LEMMA JoinRight ==
  ASSUME LedgerOK(ledger), NEW f, FrameRight(ledger, f), f.stage = "inputs", f.next \in DOMAIN ledger[f.coin[1]].ins,
         NEW r, Right(ledger, Input(f), r)
  PROVE  FrameRight(ledger, Joined(f, r)) /\ Joined(f, r).coin = f.coin /\ Joined(f, r).stage = "inputs"
<1>1. f \in Frames(ledger) /\ f.found \subseteq Really(ledger, f.coin)
  BY DEF FrameRight
<1>2. f.complete \in BOOLEAN /\ r.complete \in BOOLEAN
  BY <1>1, FrameFields DEF Right
<1> DEFINE n == f.next + 1
           p == f.passed + OutValue(ledger, Input(f))
           found == f.found \cup Inherited(f, r.inscriptions)
           c == f.complete /\ r.complete
<1>3. Past(f) = [f EXCEPT !.next = n, !.passed = p]
  BY DEF Past
<1>4. Joined(f, r) = [f EXCEPT !.next = n, !.passed = p, !.found = found, !.complete = c]
  <2> DEFINE C == CoinsMade(ledger)
             M == SUBSET [id : Nat, offset : Nat]
             q == [f EXCEPT !.next = n, !.passed = p]
  <2>1. f \in [coin : C, stage : {"door", "reading", "inputs"}, next : Nat, passed : Nat, found : M, complete : BOOLEAN]
    BY <1>1 DEF Frames
  <2>2. Joined(f, r) = [q EXCEPT !.found = q.found \cup Inherited(f, r.inscriptions), !.complete = q.complete /\ r.complete]
    BY <1>3 DEF Joined
  <2> HIDE DEF C, M, n, p
  <2>3. q.found = f.found /\ q.complete = f.complete
    BY <2>1
  <2>4. Joined(f, r) = [q EXCEPT !.found = found, !.complete = c]
    BY <2>2, <2>3
  <2> HIDE DEF found, c
  <2> QED BY <2>1, <2>4
<1>5. c \in BOOLEAN /\ (c => f.complete) /\ (c => r.complete)
  OBVIOUS
<1>6. Inherited(f, r.inscriptions) \subseteq Really(ledger, f.coin)
  BY CarriedIsThere
<1>7. f.found \subseteq found /\ found \subseteq Really(ledger, f.coin)
  BY <1>1, <1>6
<1> DEFINE start == OutStart(ledger, f.coin)
<1>8. ASSUME NEW m \in Really(ledger, f.coin), c, m.id # f.coin[1], start + m.offset \in Overlap(f),
             ~(start + m.offset < f.passed)
      PROVE  m \in found
  <2>1. start + m.offset < f.passed + OutValue(ledger, Input(f))
    <3>1. start + m.offset \in f.passed .. f.passed + OutValue(ledger, Input(f)) - 1
      BY <1>8 DEF Overlap
    <3>2. f.passed \in Nat /\ OutValue(ledger, Input(f)) \in Nat
      BY <1>1, FrameFields, InputOfFrame
    <3> HIDE DEF start
    <3> QED BY <3>1, <3>2
  <2>2. Really(ledger, Input(f)) \subseteq r.inscriptions
    BY <1>5, <1>8 DEF Right
  <2>3. m \in Inherited(f, r.inscriptions)
    BY <1>8, <2>1, <2>2, AllIsCarried
  <2> QED BY <2>3
<1> HIDE DEF found, c
<1>9. Joined(f, r) = Advanced(f, found, c)
  BY <1>4 DEF Moved, Advanced
<1>10. AllTaken(f, found, c)
  BY <1>8 DEF AllTaken
<1> QED BY <1>5, <1>7, <1>9, <1>10, AfterInput

\* When there is no more that an output takes from, what was found is what is there.
LEMMA FinishRight ==
  ASSUME LedgerOK(ledger), NEW f, FrameRight(ledger, f), f.stage = "inputs", ~More(f)
  PROVE  Right(ledger, f.coin, [inscriptions |-> f.found, complete |-> f.complete])
<1>1. /\ f \in Frames(ledger) /\ f.found \subseteq Really(ledger, f.coin)
      /\ f.next \in 1 .. Len(ledger[f.coin[1]].ins) + 1 /\ f.passed = Before(ledger, f.coin[1], f.next)
      /\ \A m \in Really(ledger, f.coin) :
           m.id = f.coin[1] \/ (f.complete /\ OutStart(ledger, f.coin) + m.offset < f.passed) => m \in f.found
  BY DEF FrameRight
<1>2. f.coin \in CoinsMade(ledger) /\ f.complete \in BOOLEAN /\ f.passed \in Nat
  BY <1>1, FrameFields
<1> DEFINE t == f.coin[1]
           start == OutStart(ledger, f.coin)
<1>3. t \in DOMAIN ledger /\ start \in Nat /\ OutValue(ledger, f.coin) \in Nat
      /\ OutEnd(ledger, f.coin) = start + OutValue(ledger, f.coin)
  BY <1>2, CoinShape
<1>4. DOMAIN ledger[t].ins = 1 .. Len(ledger[t].ins) /\ Len(ledger[t].ins) \in Nat
  BY <1>3, LedgerShape
<1>5. f.passed >= OutEnd(ledger, f.coin) \/ f.passed = AddUp(InValues(ledger, t))
  <2>1. f.next \notin DOMAIN ledger[t].ins \/ ~(f.passed < OutEnd(ledger, f.coin))
    BY DEF More
  <2>2. CASE f.next \notin DOMAIN ledger[t].ins
    <3>1. f.next = Len(ledger[t].ins) + 1
      <4> HIDE DEF t
      <4> QED BY <1>1, <1>4, <2>2 DEF t
    <3> QED BY <1>1, <1>3, <3>1, WhatGoesIn
  <2>3. CASE ~(f.passed < OutEnd(ledger, f.coin))
    BY <1>2, <1>3, <2>3
  <2> QED BY <2>1, <2>2, <2>3
<1>6. ASSUME f.complete, NEW m \in Really(ledger, f.coin) PROVE m \in f.found
  <2>1. CASE m.id = t
    BY <1>1, <2>1
  <2>2. CASE m.id # t
    <3>1. start + m.offset < AddUp(InValues(ledger, t))
      BY <1>2, <2>2, OlderCameIn
    <3>2. m.offset \in Nat /\ m.offset < OutValue(ledger, f.coin)
      BY <1>2, ReallyMarks
    <3>3. start + m.offset < f.passed
      <4>1. CASE f.passed >= OutEnd(ledger, f.coin)
        <5> HIDE DEF start
        <5> QED BY <1>2, <1>3, <3>2, <4>1
      <4>2. CASE f.passed = AddUp(InValues(ledger, t))
        BY <3>1, <4>2
      <4> QED BY <1>5, <4>1, <4>2
    <3> QED BY <1>1, <1>6, <3>3
  <2> QED BY <2>1, <2>2
<1> DEFINE r == [inscriptions |-> f.found, complete |-> f.complete]
<1>7. DOMAIN r = {"inscriptions", "complete"} /\ r.inscriptions = f.found /\ r.complete = f.complete
  OBVIOUS
<1> HIDE DEF r
<1>8. r.complete => Really(ledger, f.coin) \subseteq r.inscriptions
  BY <1>6, <1>7
<1>9. Right(ledger, f.coin, r)
  BY <1>1, <1>2, <1>7, <1>8 DEF Right
<1> QED BY <1>9 DEF r

\* What was found when a branch was cut is there; a branch that was not looked at, and an output from before
\* the era, hold nothing that is said to be there.
LEMMA CutRight ==
  ASSUME LedgerOK(ledger), NEW f, FrameRight(ledger, f)
  PROVE  /\ Right(ledger, f.coin, Cut(f.found)) /\ Right(ledger, f.coin, Bare(FALSE))
         /\ Really(ledger, f.coin) = {} => Right(ledger, f.coin, Bare(TRUE))
<1>1. f.found \subseteq Really(ledger, f.coin)
  BY DEF FrameRight
<1>2. ASSUME NEW found, found \subseteq Really(ledger, f.coin), NEW c \in BOOLEAN, c => Really(ledger, f.coin) \subseteq found
      PROVE  Right(ledger, f.coin, [inscriptions |-> found, complete |-> c])
  <2> DEFINE r == [inscriptions |-> found, complete |-> c]
  <2>1. DOMAIN r = {"inscriptions", "complete"} /\ r.inscriptions = found /\ r.complete = c
    OBVIOUS
  <2> HIDE DEF r
  <2>2. Right(ledger, f.coin, r)
    BY <1>2, <2>1 DEF Right
  <2> QED BY <2>2 DEF r
<1>3. Right(ledger, f.coin, Cut(f.found))
  <2>1. Right(ledger, f.coin, [inscriptions |-> f.found, complete |-> FALSE])
    BY <1>1, <1>2, Zenon
  <2> QED BY <2>1 DEF Cut
<1>4. Right(ledger, f.coin, Bare(FALSE))
  <2>1. Right(ledger, f.coin, [inscriptions |-> {}, complete |-> FALSE])
    BY <1>2, Zenon
  <2> QED BY <2>1 DEF Bare
<1>5. ASSUME Really(ledger, f.coin) = {} PROVE Right(ledger, f.coin, Bare(TRUE))
  <2>1. Right(ledger, f.coin, [inscriptions |-> {}, complete |-> TRUE])
    BY <1>2, <1>5, Zenon
  <2> QED BY <2>1 DEF Bare
<1> QED BY <1>3, <1>4, <1>5

\* An output that is entered; one whose transaction is asked for; and one whose transaction is there.
LEMMA DoorRight ==
  ASSUME LedgerOK(ledger), NEW o \in CoinsMade(ledger), OutValue(ledger, o) > 0
  PROVE  FrameRight(ledger, Door(o)) /\ Door(o).coin = o
<1> DEFINE C == CoinsMade(ledger)
           M == SUBSET [id : Nat, offset : Nat]
           f == [coin |-> o, stage |-> "door", next |-> 1, passed |-> 0, found |-> {}, complete |-> TRUE]
<1>1. f = Door(o) /\ {} \in M /\ o \in C
  BY DEF Door
<1>2. o[1] \in DOMAIN ledger
  BY CoinShape
<1>3. Before(ledger, o[1], 1) = 0 /\ 1 \in 1 .. Len(ledger[o[1]].ins) + 1
  BY <1>2, WhatGoesIn, LedgerShape
<1> HIDE DEF C, M
<1>4. /\ f \in [coin : C, stage : {"door", "reading", "inputs"}, next : Nat, passed : Nat, found : M, complete : BOOLEAN]
      /\ f.coin = o /\ f.stage = "door" /\ f.next = 1 /\ f.passed = 0 /\ f.found = {} /\ f.complete
  BY <1>1
<1> HIDE DEF f
<1>5. f \in Frames(ledger)
  BY <1>4 DEF Frames, C, M
<1>6. FrameRight(ledger, f)
  BY <1>3, <1>4, <1>5 DEF FrameRight
<1> QED BY <1>1, <1>4, <1>6

LEMMA ReadingRight ==
  ASSUME LedgerOK(ledger), NEW f, FrameRight(ledger, f), f.stage = "door", NEW g, g = [f EXCEPT !.stage = "reading"]
  PROVE  FrameRight(ledger, g) /\ g.coin = f.coin
<1>1. f \in Frames(ledger) /\ f.found = {}
  BY DEF FrameRight
<1>2. f.found \in SUBSET [id : Nat, offset : Nat]
  BY <1>1, FrameFields
<1>3. g = Staged(f, "reading", f.found)
  <2>2. Staged(f, "reading", f.found) = [f EXCEPT !.stage = "reading", !.found = f.found]
    BY DEF Staged
  <2> DEFINE C == CoinsMade(ledger)
             M == SUBSET [id : Nat, offset : Nat]
  <2>1. f \in [coin : C, stage : {"door", "reading", "inputs"}, next : Nat, passed : Nat, found : M, complete : BOOLEAN]
    BY <1>1 DEF Frames
  <2> HIDE DEF C, M
  <2>3. g = [f EXCEPT !.stage = "reading", !.found = f.found]
    BY <2>1
  <2> QED BY <2>2, <2>3
<1>4. "reading" \in {"door", "reading", "inputs"}
  OBVIOUS
<1>5. /\ g \in Frames(ledger) /\ g.coin = f.coin /\ g.stage = "reading" /\ g.next = f.next /\ g.passed = f.passed
      /\ g.found = f.found /\ g.complete = f.complete
  BY <1>1, <1>2, <1>3, <1>4, FrameStaged
<1> QED BY <1>5 DEF FrameRight

LEMMA InputsRight ==
  ASSUME LedgerOK(ledger), NEW f, FrameRight(ledger, f), f.stage = "reading", NEW own,
         own = IF ledger[f.coin[1]].reveals /\ OutStart(ledger, f.coin) = 0 THEN {[id |-> f.coin[1], offset |-> 0]} ELSE {},
         NEW g, g = Staged(f, "inputs", own)
  PROVE  FrameRight(ledger, g) /\ g.coin = f.coin
<1>1. /\ f \in Frames(ledger) /\ OutValue(ledger, f.coin) > 0 /\ f.next = 1
      /\ f.passed = Before(ledger, f.coin[1], f.next) /\ f.next \in 1 .. Len(ledger[f.coin[1]].ins) + 1
  BY DEF FrameRight
<1>2. f.coin \in CoinsMade(ledger) /\ f.coin[1] \in DOMAIN ledger /\ OutStart(ledger, f.coin) \in Nat
  BY <1>1, FrameFields, CoinShape
<1>3. f.passed = 0
  BY <1>1, <1>2, WhatGoesIn
<1>4. own \subseteq Really(ledger, f.coin)
  BY <1>1, <1>2, OwnMark
<1>5. \A m \in Really(ledger, f.coin) : m.id = f.coin[1] => m \in own
  BY <1>1, <1>2, OwnMark
<1>6. \A m \in Really(ledger, f.coin) : ~(OutStart(ledger, f.coin) + m.offset < f.passed)
  <2> SUFFICES ASSUME NEW m \in Really(ledger, f.coin) PROVE ~(OutStart(ledger, f.coin) + m.offset < f.passed)
    OBVIOUS
  <2>1. m.offset \in Nat
    BY <1>2, ReallyMarks
  <2> QED BY <1>2, <1>3, <2>1
<1>7. own \in SUBSET [id : Nat, offset : Nat] /\ "inputs" \in {"door", "reading", "inputs"}
  BY <1>2, <1>4, MarksAreMarks
<1>8. /\ g \in Frames(ledger) /\ g.coin = f.coin /\ g.stage = "inputs" /\ g.next = f.next /\ g.passed = f.passed
      /\ g.found = own /\ g.complete = f.complete
  BY <1>1, <1>7, FrameStaged
<1>9. \A m \in Really(ledger, g.coin) :
        m.id = g.coin[1] \/ (g.complete /\ OutStart(ledger, g.coin) + m.offset < g.passed) => m \in g.found
  BY <1>5, <1>6, <1>8
<1>10. /\ OutValue(ledger, g.coin) > 0 /\ g.next \in 1 .. Len(ledger[g.coin[1]].ins) + 1
       /\ g.passed = Before(ledger, g.coin[1], g.next) /\ g.found \subseteq Really(ledger, g.coin)
  BY <1>1, <1>4, <1>8
<1>11. g \in Frames(ledger) /\ g.coin = f.coin /\ g.stage = "inputs"
  BY <1>8
<1> QED BY <1>9, <1>10, <1>11, Zenon DEF FrameRight

-----------------------------------------------------------------------------
(* The stack of a walk, and what a result does.                             *)

\* The frame on top is replaced.
LEMMA TopReplaced ==
  ASSUME NEW l, NEW st, StackRight(l, st), NEW g, FrameRight(l, g), g.coin = st[Len(st)].coin
  PROVE  StackRight(l, [st EXCEPT ![Len(st)] = g])
<1> DEFINE F == Frames(l)
           n == Len(st)
           new == [st EXCEPT ![n] = g]
<1>1. st \in Seq(F) /\ n \in Nat \ {0} /\ \A k \in 1 .. n : FrameRight(l, st[k])
  BY DEF StackRight
<1>2. g \in F
  BY Zenon DEF FrameRight
<1> HIDE DEF F
<1>3. /\ new \in Seq(F) /\ Len(new) = n /\ new[n] = g
      /\ \A k \in 1 .. n : k # n => new[k] = st[k]
  BY <1>1, <1>2
<1>4. \A k \in 1 .. n : FrameRight(l, new[k]) /\ new[k].coin = st[k].coin
  <2> SUFFICES ASSUME NEW k \in 1 .. n PROVE FrameRight(l, new[k]) /\ new[k].coin = st[k].coin
    OBVIOUS
  <2> HIDE DEF new
  <2>1. CASE k = n
    <3>1. new[k] = g /\ g.coin = st[k].coin
      BY <1>3, <2>1
    <3> QED BY <3>1
  <2>2. CASE k # n
    BY <1>1, <1>3, <2>2
  <2> QED BY <2>1, <2>2
<1> HIDE DEF new
<1>5. Chained(l, new)
  <2> SUFFICES ASSUME NEW k \in 1 .. n - 1
               PROVE  /\ new[k].stage = "inputs" /\ new[k].next \in DOMAIN l[new[k].coin[1]].ins
                      /\ new[k + 1].coin = l[new[k].coin[1]].ins[new[k].next]
    BY <1>3 DEF Chained
  <2>1. k \in 1 .. n /\ k + 1 \in 1 .. n /\ k # n
    BY <1>1
  <2>2. /\ st[k].stage = "inputs" /\ st[k].next \in DOMAIN l[st[k].coin[1]].ins
        /\ st[k + 1].coin = l[st[k].coin[1]].ins[st[k].next]
    BY DEF StackRight, Chained
  <2>3. new[k] = st[k] /\ new[k + 1].coin = st[k + 1].coin
    BY <1>3, <1>4, <2>1
  <2> QED BY <2>2, <2>3
<1> QED BY <1>1, <1>3, <1>4, <1>5 DEF StackRight, new, F

\* An output is entered from the one on top.
LEMMA StackDeeper ==
  ASSUME NEW l, NEW st, StackRight(l, st), NEW g, FrameRight(l, g), st[Len(st)].stage = "inputs",
         st[Len(st)].next \in DOMAIN l[st[Len(st)].coin[1]].ins,
         g.coin = l[st[Len(st)].coin[1]].ins[st[Len(st)].next]
  PROVE  StackRight(l, Append(st, g))
<1> DEFINE F == Frames(l)
           n == Len(st)
           new == Append(st, g)
<1>1. st \in Seq(F) /\ n \in Nat \ {0} /\ \A k \in 1 .. n : FrameRight(l, st[k])
  BY DEF StackRight
<1>2. g \in F
  BY Zenon DEF FrameRight
<1> HIDE DEF F
<1>3. new \in Seq(F) /\ Len(new) = n + 1 /\ new[n + 1] = g /\ \A k \in 1 .. n : new[k] = st[k]
  BY <1>1, <1>2
<1> HIDE DEF new
<1>4. \A k \in 1 .. n + 1 : FrameRight(l, new[k])
  <2>1. \A k \in 1 .. n + 1 : k = n + 1 \/ k \in 1 .. n
    BY <1>1
  <2> QED BY <1>1, <1>3, <2>1
<1>5. Chained(l, new)
  <2> SUFFICES ASSUME NEW k \in 1 .. n
               PROVE  /\ new[k].stage = "inputs" /\ new[k].next \in DOMAIN l[new[k].coin[1]].ins
                      /\ new[k + 1].coin = l[new[k].coin[1]].ins[new[k].next]
    <3>1. (n + 1) - 1 = n
      BY <1>1
    <3> QED BY <1>3, <3>1 DEF Chained
  <2>1. CASE k = n
    <3>1. new[k] = st[Len(st)] /\ new[k + 1] = g
      BY <1>3, <2>1
    <3> QED BY <3>1
  <2>2. CASE k # n
    <3>1. k \in 1 .. Len(st) - 1 /\ k + 1 \in 1 .. n
      BY <1>1, <2>2
    <3>2. /\ st[k].stage = "inputs" /\ st[k].next \in DOMAIN l[st[k].coin[1]].ins
          /\ st[k + 1].coin = l[st[k].coin[1]].ins[st[k].next]
      BY <3>1 DEF StackRight, Chained
    <3>3. new[k] = st[k] /\ new[k + 1] = st[k + 1]
      BY <1>3, <3>1
    <3> QED BY <3>2, <3>3
  <2> QED BY <2>1, <2>2
<1>6. Len(new) > 0
  BY <1>1, <1>3
<1> QED BY <1>3, <1>4, <1>5, <1>6 DEF StackRight, new, F

\* The one on top is left, for the one below.
LEMMA StackShorter ==
  ASSUME NEW l, NEW st, StackRight(l, st), NEW n \in Nat, n > 0, n = Len(st) - 1, NEW g, FrameRight(l, g),
         g.coin = st[n].coin
  PROVE  StackRight(l, [k \in 1 .. n |-> IF k = n THEN g ELSE st[k]])
<1> DEFINE F == Frames(l)
           new == [k \in 1 .. n |-> IF k = n THEN g ELSE st[k]]
<1>1. st \in Seq(F) /\ Len(st) = n + 1 /\ \A k \in 1 .. Len(st) : FrameRight(l, st[k])
  BY DEF StackRight
<1>2. g \in F
  BY Zenon DEF FrameRight
<1> HIDE DEF F
<1>3. new \in Seq(F) /\ Len(new) = n /\ new[n] = g /\ \A k \in 1 .. n : k # n => new[k] = st[k]
  <2>1. \A k \in 1 .. n : st[k] \in F
    BY <1>1
  <2> QED BY <1>1, <1>2, <2>1
<1> HIDE DEF new
<1>4. \A k \in 1 .. n : FrameRight(l, new[k]) /\ new[k].coin = st[k].coin
  <2> SUFFICES ASSUME NEW k \in 1 .. n PROVE FrameRight(l, new[k]) /\ new[k].coin = st[k].coin
    OBVIOUS
  <2>1. CASE k = n
    <3>1. new[k] = g /\ g.coin = st[k].coin
      BY <1>3, <2>1
    <3> QED BY <3>1
  <2>2. CASE k # n
    <3>1. k \in 1 .. Len(st)
      BY <1>1
    <3>2. new[k] = st[k]
      BY <1>3, <2>2
    <3> QED BY <1>1, <3>1, <3>2, Zenon
  <2> QED BY <2>1, <2>2
<1>5. Chained(l, new)
  <2> SUFFICES ASSUME NEW k \in 1 .. n - 1
               PROVE  /\ new[k].stage = "inputs" /\ new[k].next \in DOMAIN l[new[k].coin[1]].ins
                      /\ new[k + 1].coin = l[new[k].coin[1]].ins[new[k].next]
    BY <1>3 DEF Chained
  <2>1. k \in 1 .. n /\ k + 1 \in 1 .. n /\ k # n /\ k \in 1 .. Len(st) - 1
    BY <1>1
  <2>2. /\ st[k].stage = "inputs" /\ st[k].next \in DOMAIN l[st[k].coin[1]].ins
        /\ st[k + 1].coin = l[st[k].coin[1]].ins[st[k].next]
    BY <2>1 DEF StackRight, Chained
  <2>3. new[k] = st[k] /\ new[k + 1].coin = st[k + 1].coin
    BY <1>3, <1>4, <2>1
  <2> QED BY <2>2, <2>3
<1> QED BY <1>3, <1>4, <1>5 DEF StackRight, new, F

\* A result of an output that is right for it is right for the answer.
LEMMA VerdictOfRight ==
  ASSUME NEW l, NEW o, NEW r, Right(l, o, r)
  PROVE  VerdictRight(l, o, ResultOf(r))
<1>1. /\ r.complete \in BOOLEAN /\ r.inscriptions \subseteq Really(l, o)
      /\ r.complete => Really(l, o) \subseteq r.inscriptions
  BY DEF Right
<1>2. CASE r.inscriptions # {}
  <2>1. ResultOf(r) = [status |-> "inscribed", all |-> r.inscriptions]
    BY <1>2 DEF ResultOf
  <2> QED BY <1>1, <2>1 DEF VerdictRight
<1>3. CASE r.inscriptions = {} /\ r.complete
  <2>1. ResultOf(r) = [status |-> "clean", all |-> {}]
    BY <1>3 DEF ResultOf
  <2>2. Really(l, o) = {}
    BY <1>1, <1>3
  <2> QED BY <2>1, <2>2 DEF VerdictRight
<1>4. CASE r.inscriptions = {} /\ ~r.complete
  <2>1. ResultOf(r) = [status |-> "unknown", all |-> {}]
    BY <1>4 DEF ResultOf
  <2>2. ResultOf(r).status # "clean" /\ ResultOf(r).all = {}
    BY <2>1
  <2> QED BY <2>2 DEF VerdictRight
<1> QED BY <1>1, <1>2, <1>3, <1>4

\* What is right stays right when something right is noted.
LEMMA RightNoted ==
  ASSUME NEW l, NEW f, \A y \in DOMAIN f : Right(l, y, f[y]), NEW x, NEW v, Right(l, x, v)
  PROVE  \A y \in DOMAIN Noted(f, x, v) : Right(l, y, Noted(f, x, v)[y])
<1> DEFINE N == Noted(f, x, v)
<1>1. N[x] = v /\ \A y \in DOMAIN N : y # x => y \in DOMAIN f /\ N[y] = f[y]
  BY Zenon DEF Noted
<1> HIDE DEF N
<1> SUFFICES ASSUME NEW y \in DOMAIN N PROVE Right(l, y, N[y])
  BY DEF N
<1>2. CASE y = x
  BY <1>1, <1>2
<1>3. CASE y # x
  BY <1>1, <1>3
<1> QED BY <1>2, <1>3

LEMMA VerdictNoted ==
  ASSUME NEW l, NEW f, \A y \in DOMAIN f : VerdictRight(l, y, f[y]), NEW x, NEW v, VerdictRight(l, x, v)
  PROVE  \A y \in DOMAIN Noted(f, x, v) : VerdictRight(l, y, Noted(f, x, v)[y])
<1> DEFINE N == Noted(f, x, v)
<1>1. N[x] = v /\ \A y \in DOMAIN N : y # x => y \in DOMAIN f /\ N[y] = f[y]
  BY Zenon DEF Noted
<1> HIDE DEF N
<1> SUFFICES ASSUME NEW y \in DOMAIN N PROVE VerdictRight(l, y, N[y])
  BY DEF N
<1>2. CASE y = x
  BY <1>1, <1>2
<1>3. CASE y # x
  BY <1>1, <1>3
<1> QED BY <1>2, <1>3

LEMMA HeightNoted ==
  ASSUME NEW l, NEW f, HeightsRight(l, f), NEW x, NEW v, v # None /\ v < Era => ~(l[x].height >= Era)
  PROVE  HeightsRight(l, Noted(f, x, v))
<1> DEFINE N == Noted(f, x, v)
<1>1. N[x] = v /\ \A y \in DOMAIN N : y # x => y \in DOMAIN f /\ N[y] = f[y]
  BY Zenon DEF Noted
<1> HIDE DEF N
<1>2. ASSUME NEW y \in DOMAIN N PROVE N[y] # None /\ N[y] < Era => ~(l[y].height >= Era)
  <2>1. CASE y = x
    BY <1>1, <2>1
  <2>2. CASE y # x
    BY <1>1, <2>2 DEF HeightsRight
  <2> QED BY <2>1, <2>2
<1>3. HeightsRight(l, N)
  BY <1>2 DEF HeightsRight
<1> QED BY <1>3 DEF N

\* _detectOutput returns what is right: the walk goes on from it, or what is said is right.
LEMMA ReturnRight ==
  ASSUME LedgerOK(ledger), WalksRight(ledger, walk), AnswerRight(ledger, said), NEW w \in Walkers,
         NEW q, WalkRight(ledger, q), NEW r, Right(ledger, q.stack[Len(q.stack)].coin, r),
         NEW c, TracerRight(ledger, c), Return(w, q, r, c)
  PROVE  TracerRight(ledger, tracer') /\ WalksRight(ledger, walk') /\ AnswerRight(ledger, said')
<1> DEFINE n == Len(q.stack) - 1
           st == q.stack
<1>1. /\ DOMAIN q = {"budget", "memo", "stack", "awaits"} /\ StackRight(ledger, st)
      /\ \A o \in DOMAIN q.memo : Right(ledger, o, q.memo[o])
  BY DEF WalkRight
<1>2. /\ st \in Seq(Frames(ledger)) /\ Len(st) > 0 /\ (\A k \in 1 .. Len(st) : FrameRight(ledger, st[k]))
      /\ Chained(ledger, st)
  BY <1>1 DEF StackRight
<1>3. Len(st) \in Nat /\ n \in Nat
  <2> HIDE DEF st
  <2>1. Len(st) \in Nat
    BY <1>2
  <2> QED BY <1>2, <2>1 DEF st
<1>4. DOMAIN walk = Walkers /\ \A x \in Walkers : walk[x] # None => WalkRight(ledger, walk[x])
  BY DEF WalksRight
<1>5. CASE n > 0
  <2> DEFINE new == [k \in 1 .. n |-> IF k = n THEN Joined(st[n], r) ELSE st[k]]
             p == [q EXCEPT !.stack = new]
  <2>1. walk' = [walk EXCEPT ![w] = p] /\ tracer' = c /\ said' = said
    BY <1>5, Zenon DEF Return
  <2>2. n \in 1 .. Len(st) - 1 /\ n \in 1 .. Len(st) /\ n + 1 = Len(st)
    <3> HIDE DEF st
    <3> QED BY <1>3, <1>5 DEF st
  <2>3. /\ st[n].stage = "inputs" /\ st[n].next \in DOMAIN ledger[st[n].coin[1]].ins
        /\ st[Len(st)].coin = Input(st[n])
    BY <1>2, <2>2 DEF Chained, Input
  <2>4. FrameRight(ledger, st[n])
    BY <1>2, <2>2
  <2>5. Right(ledger, Input(st[n]), r)
    BY <2>3
  <2>6. FrameRight(ledger, Joined(st[n], r)) /\ Joined(st[n], r).coin = st[n].coin
    <3> HIDE DEF st
    <3> QED BY <2>3, <2>4, <2>5, JoinRight
  <2>7. StackRight(ledger, new)
    <3>1. StackRight(ledger, st) /\ n = Len(st) - 1
      BY <1>1
    <3> HIDE DEF st, n
    <3> QED BY <1>3, <1>5, <2>6, <3>1, StackShorter
  <2> HIDE DEF new
  <2>8. DOMAIN p = DOMAIN q /\ p.stack = new /\ p.memo = q.memo
    BY <1>1
  <2> HIDE DEF p
  <2>9. WalkRight(ledger, p)
    BY <1>1, <2>7, <2>8 DEF WalkRight
  <2>10. WalksRight(ledger, walk')
    BY <1>4, <2>1, <2>9 DEF WalksRight
  <2> QED BY <2>1, <2>10
<1>6. CASE ~(n > 0)
  <2> DEFINE o == st[1].coin
             v == ResultOf(r)
  <2>1. /\ walk' = [walk EXCEPT ![w] = None] /\ said' = [coin |-> o, verdict |-> v]
        /\ tracer' = IF v.status = "unknown" THEN c ELSE [c EXCEPT !.verdicts = Noted(@, o, v)]
    BY <1>6, Zenon DEF Return
  <2>2. Len(st) = 1
    <3>1. Len(st) \in Nat /\ Len(st) > 0 /\ ~(Len(st) - 1 > 0)
      BY <1>2, <1>3, <1>6
    <3> DEFINE z == Len(st)
    <3>2. z \in Nat /\ z > 0 /\ ~(z - 1 > 0)
      BY <3>1
    <3> HIDE DEF z
    <3>3. z = 1
      BY <3>2
    <3> QED BY <3>3 DEF z
  <2>3. VerdictRight(ledger, o, v)
    BY <2>2, VerdictOfRight
  <2> HIDE DEF v, o
  <2>4. AnswerRight(ledger, said')
    <3>1. said'.coin = o /\ said'.verdict = v
      BY <2>1
    <3> QED BY <2>3, <3>1 DEF AnswerRight
  <2>5. WalksRight(ledger, walk')
    BY <1>4, <2>1 DEF WalksRight
  <2>6. TracerRight(ledger, tracer')
    <3>1. CASE v.status = "unknown"
      BY <2>1, <3>1
    <3>2. CASE v.status # "unknown"
      <4> DEFINE N == Noted(c.verdicts, o, v)
      <4>1. /\ DOMAIN c = {"heights", "tip", "kept", "outputs", "verdicts"}
            /\ HeightsRight(ledger, c.heights) /\ HeightsRight(ledger, c.kept)
            /\ \A x \in DOMAIN c.outputs : Right(ledger, x, c.outputs[x])
            /\ \A x \in DOMAIN c.verdicts : VerdictRight(ledger, x, c.verdicts[x])
        BY DEF TracerRight
      <4>2. \A x \in DOMAIN N : VerdictRight(ledger, x, N[x])
        BY <2>3, <4>1, VerdictNoted
      <4> HIDE DEF N
      <4>3. /\ DOMAIN tracer' = DOMAIN c /\ tracer'.verdicts = N /\ tracer'.heights = c.heights
            /\ tracer'.kept = c.kept /\ tracer'.outputs = c.outputs
        BY <2>1, <3>2, <4>1 DEF N
      <4> QED BY <4>1, <4>2, <4>3 DEF TracerRight
    <3> QED BY <3>1, <3>2
  <2> QED BY <2>4, <2>5, <2>6
<1> QED BY <1>5, <1>6

\* And so at its end, whatever is kept of it.
LEMMA CloseRight ==
  ASSUME LedgerOK(ledger), TracerRight(ledger, tracer), WalksRight(ledger, walk), AnswerRight(ledger, said),
         NEW w \in Walkers, walk[w] # None, NEW r, Right(ledger, Frame(w).coin, r), Close(w, r)
  PROVE  TracerRight(ledger, tracer') /\ WalksRight(ledger, walk') /\ AnswerRight(ledger, said')
<1> DEFINE o == Frame(w).coin
           q == [walk[w] EXCEPT !.awaits = None, !.memo = Noted(@, o, r)]
           c == IF r.complete THEN [tracer EXCEPT !.outputs = Noted(@, o, r)] ELSE tracer
<1>1. Return(w, q, r, c)
  BY DEF Close
<1>2. /\ DOMAIN walk[w] = {"budget", "memo", "stack", "awaits"} /\ StackRight(ledger, walk[w].stack)
      /\ \A x \in DOMAIN walk[w].memo : Right(ledger, x, walk[w].memo[x])
  BY DEF WalksRight, WalkRight
<1>3. o = walk[w].stack[Len(walk[w].stack)].coin
  BY DEF Frame
<1> HIDE DEF o
<1>4. Right(ledger, o, r)
  BY DEF o
<1>5. WalkRight(ledger, q) /\ q.stack = walk[w].stack
  <2> DEFINE N == Noted(walk[w].memo, o, r)
  <2>1. \A x \in DOMAIN N : Right(ledger, x, N[x])
    BY <1>2, <1>4, RightNoted
  <2> HIDE DEF N
  <2>2. DOMAIN q = DOMAIN walk[w] /\ q.memo = N /\ q.stack = walk[w].stack
    BY <1>2 DEF N
  <2> HIDE DEF q
  <2> QED BY <1>2, <2>1, <2>2 DEF WalkRight
<1>6. TracerRight(ledger, c)
  <2>1. CASE ~r.complete
    BY <2>1
  <2>2. CASE r.complete
    <3> DEFINE N == Noted(tracer.outputs, o, r)
    <3>1. /\ DOMAIN tracer = {"heights", "tip", "kept", "outputs", "verdicts"}
          /\ HeightsRight(ledger, tracer.heights) /\ HeightsRight(ledger, tracer.kept)
          /\ \A x \in DOMAIN tracer.outputs : Right(ledger, x, tracer.outputs[x])
          /\ \A x \in DOMAIN tracer.verdicts : VerdictRight(ledger, x, tracer.verdicts[x])
      BY DEF TracerRight
    <3>2. \A x \in DOMAIN N : Right(ledger, x, N[x])
      BY <1>4, <3>1, RightNoted
    <3> HIDE DEF N
    <3>3. /\ DOMAIN c = DOMAIN tracer /\ c.outputs = N /\ c.heights = tracer.heights
          /\ c.kept = tracer.kept /\ c.verdicts = tracer.verdicts
      BY <2>2, <3>1 DEF N
    <3> HIDE DEF c
    <3> QED BY <3>1, <3>2, <3>3 DEF TracerRight
  <2> QED BY <2>1, <2>2
<1>7. Right(ledger, q.stack[Len(q.stack)].coin, r)
  <2> HIDE DEF q
  <2> QED BY <1>3, <1>4, <1>5
<1> HIDE DEF q, c
<1> QED BY <1>1, <1>5, <1>6, <1>7, ReturnRight

-----------------------------------------------------------------------------
(* The steps.                                                               *)

\* The walk that moves, and the output it is in the middle of.
LEMMA OnTop ==
  ASSUME WalksRight(ledger, walk), NEW w \in Walkers, walk[w] # None
  PROVE  /\ WalkRight(ledger, walk[w]) /\ FrameRight(ledger, Frame(w))
         /\ Frame(w) = walk[w].stack[Len(walk[w].stack)] /\ StackRight(ledger, walk[w].stack)
<1>1. WalkRight(ledger, walk[w])
  BY DEF WalksRight
<1> DEFINE st == walk[w].stack
<1>2. StackRight(ledger, st)
  BY <1>1 DEF WalkRight
<1>3. Len(st) \in 1 .. Len(st)
  <2>1. st \in Seq(Frames(ledger)) /\ Len(st) > 0
    BY <1>2 DEF StackRight
  <2> HIDE DEF st
  <2> QED BY <2>1
<1>4. FrameRight(ledger, st[Len(st)])
  BY <1>2, <1>3 DEF StackRight
<1> QED BY <1>1, <1>2, <1>4 DEF Frame

\* A walk whose output on top moves on is right, and the others with it.
LEMMA OntoRight ==
  ASSUME WalksRight(ledger, walk), NEW w \in Walkers, walk[w] # None, NEW q, DOMAIN q = DOMAIN walk[w],
         q.memo = walk[w].memo, q.stack = walk[w].stack, NEW g, FrameRight(ledger, g), g.coin = Frame(w).coin
  PROVE  WalksRight(ledger, [walk EXCEPT ![w] = Onto(q, g)])
<1>1. /\ DOMAIN q = {"budget", "memo", "stack", "awaits"} /\ StackRight(ledger, q.stack)
      /\ \A x \in DOMAIN q.memo : Right(ledger, x, q.memo[x])
  BY OnTop DEF WalkRight
<1> DEFINE new == [q.stack EXCEPT ![Len(q.stack)] = g]
           p == Onto(q, g)
<1>2. StackRight(ledger, new)
  <2>1. g.coin = q.stack[Len(q.stack)].coin
    BY OnTop
  <2> QED BY <1>1, <2>1, TopReplaced
<1>3. DOMAIN p = DOMAIN q /\ p.stack = new /\ p.memo = q.memo
  <2>1. p = [q EXCEPT !.stack[Len(q.stack)] = g]
    BY DEF Onto
  <2>2. p = [q EXCEPT !.stack = new]
    BY <2>1
  <2> HIDE DEF new, p
  <2> QED BY <1>1, <2>2
<1> HIDE DEF new, p
<1>4. WalkRight(ledger, p)
  BY <1>1, <1>2, <1>3 DEF WalkRight
<1> QED BY <1>4 DEF WalksRight, p

LEMMA OneWalk ==
  ASSUME WalksRight(ledger, walk), NEW w \in Walkers, NEW q, q # None => WalkRight(ledger, q)
  PROVE  WalksRight(ledger, [walk EXCEPT ![w] = q])
BY DEF WalksRight

LEMMA DetectRight ==
  ASSUME LedgerOK(ledger), TracerRight(ledger, tracer), WalksRight(ledger, walk), AnswerRight(ledger, said),
         NEW w \in Walkers, NEW o \in CoinsMade(ledger), OutValue(ledger, o) > 0, Detect(w, o)
  PROVE  TracerRight(ledger, tracer') /\ WalksRight(ledger, walk') /\ AnswerRight(ledger, said')
<1>1. tracer' = tracer
  BY DEF Detect
<1>2. CASE o \in DOMAIN tracer.verdicts
  <2>1. said' = [coin |-> o, verdict |-> tracer.verdicts[o]] /\ walk' = walk
    BY <1>2 DEF Detect
  <2>2. said'.coin = o /\ said'.verdict = tracer.verdicts[o]
    BY <2>1
  <2>3. VerdictRight(ledger, o, tracer.verdicts[o])
    BY <1>2 DEF TracerRight
  <2> QED BY <1>1, <2>1, <2>2, <2>3 DEF AnswerRight
<1>3. CASE o \notin DOMAIN tracer.verdicts
  <2>1. said' = said /\ walk' = [walk EXCEPT ![w] = Walk(o)]
    BY <1>3 DEF Detect
  <2>2. FrameRight(ledger, Door(o)) /\ Door(o).coin = o
    BY DoorRight
  <2> DEFINE st == <<Door(o)>>
             q == [budget |-> MaxNodes, memo |-> <<>>, stack |-> st, awaits |-> None]
  <2>3. StackRight(ledger, st)
    <3> DEFINE d == Door(o)
    <3>1. d \in Frames(ledger) /\ FrameRight(ledger, d)
      BY <2>2 DEF FrameRight
    <3> HIDE DEF d
    <3>2. <<d>> \in Seq(Frames(ledger)) /\ Len(<<d>>) = 1 /\ <<d>>[1] = d
      BY <3>1
    <3>3. StackRight(ledger, <<d>>)
      BY <3>1, <3>2 DEF StackRight, Chained
    <3> QED BY <3>3 DEF d
  <2> HIDE DEF st
  <2>4. DOMAIN q = {"budget", "memo", "stack", "awaits"} /\ q.stack = st /\ DOMAIN q.memo = {}
    OBVIOUS
  <2>5. Walk(o) = q
    BY DEF Walk, st
  <2> HIDE DEF q
  <2>6. WalkRight(ledger, q)
    BY <2>3, <2>4 DEF WalkRight
  <2>7. WalksRight(ledger, walk')
    BY <2>1, <2>5, <2>6, OneWalk
  <2> QED BY <1>1, <2>1, <2>7
<1> QED BY <1>2, <1>3

LEMMA EnterRight ==
  ASSUME LedgerOK(ledger), TracerRight(ledger, tracer), WalksRight(ledger, walk), AnswerRight(ledger, said),
         NEW w \in Walkers, Enter(w)
  PROVE  TracerRight(ledger, tracer') /\ WalksRight(ledger, walk') /\ AnswerRight(ledger, said')
<1> DEFINE o == Frame(w).coin
           q == walk[w]
           counted == [q EXCEPT !.budget = @ - 1]
<1>1. walk[w] # None /\ Frame(w).stage = "door"
  BY DEF Enter, At
<1>2. /\ WalkRight(ledger, q) /\ FrameRight(ledger, Frame(w)) /\ o = q.stack[Len(q.stack)].coin
  BY <1>1, OnTop
<1>3. /\ DOMAIN q = {"budget", "memo", "stack", "awaits"} /\ StackRight(ledger, q.stack)
      /\ \A x \in DOMAIN q.memo : Right(ledger, x, q.memo[x])
  BY <1>2 DEF WalkRight
<1>4. CASE o \in DOMAIN q.memo
  <2>1. Return(w, q, q.memo[o], tracer)
    BY <1>4 DEF Enter
  <2>2. Right(ledger, q.stack[Len(q.stack)].coin, q.memo[o])
    BY <1>2, <1>3, <1>4
  <2> HIDE DEF q, o
  <2> QED BY <1>2, <2>1, <2>2, ReturnRight
<1>5. CASE o \notin DOMAIN q.memo /\ o \in DOMAIN tracer.outputs
  <2> DEFINE r == tracer.outputs[o]
             p == [q EXCEPT !.memo = Noted(@, o, r)]
             N == Noted(q.memo, o, r)
  <2>1. Return(w, p, r, tracer)
    BY <1>5 DEF Enter
  <2>2. Right(ledger, o, r)
    BY <1>5 DEF TracerRight
  <2> HIDE DEF r
  <2>3. \A x \in DOMAIN N : Right(ledger, x, N[x])
    <3> HIDE DEF q, o
    <3> QED BY <1>3, <2>2, RightNoted
  <2>4. DOMAIN p = DOMAIN q /\ p.stack = q.stack /\ p.memo = N
    <3> HIDE DEF q, o
    <3> QED BY <1>3
  <2> HIDE DEF N, p
  <2>5. WalkRight(ledger, p)
    BY <1>3, <2>3, <2>4 DEF WalkRight
  <2>6. Right(ledger, p.stack[Len(p.stack)].coin, r)
    BY <1>2, <2>2, <2>4
  <2> QED BY <2>1, <2>5, <2>6, ReturnRight
<1>6. CASE o \notin DOMAIN q.memo /\ o \notin DOMAIN tracer.outputs
  <2>1. DOMAIN counted = DOMAIN q /\ counted.stack = q.stack /\ counted.memo = q.memo
    <3> HIDE DEF q
    <3> QED BY <1>3
  <2>2. CASE q.budget <= 0
    <3>1. Return(w, counted, Bare(FALSE), tracer)
      BY <1>6, <2>2 DEF Enter
    <3> HIDE DEF counted
    <3>2. WalkRight(ledger, counted)
      BY <1>3, <2>1 DEF WalkRight
    <3>3. Right(ledger, counted.stack[Len(counted.stack)].coin, Bare(FALSE))
      BY <1>2, <2>1, CutRight
    <3> QED BY <3>1, <3>2, <3>3, ReturnRight
  <2>3. CASE ~(q.budget <= 0)
    <3> DEFINE g == [Frame(w) EXCEPT !.stage = "reading"]
    <3>1. walk' = [walk EXCEPT ![w] = Onto(counted, g)] /\ tracer' = tracer /\ said' = said
      BY <1>6, <2>3 DEF Enter
    <3>2. FrameRight(ledger, g) /\ g.coin = Frame(w).coin
      BY <1>1, <1>2, ReadingRight
    <3> HIDE DEF counted, g
    <3>3. WalksRight(ledger, [walk EXCEPT ![w] = Onto(counted, g)])
      BY <1>1, <2>1, <3>2, OntoRight
    <3> QED BY <3>1, <3>3
  <2> QED BY <2>2, <2>3
<1> QED BY <1>4, <1>5, <1>6

LEMMA RecallRight ==
  ASSUME LedgerOK(ledger), TracerRight(ledger, tracer), WalksRight(ledger, walk), AnswerRight(ledger, said),
         NEW w \in Walkers, Recall(w)
  PROVE  TracerRight(ledger, tracer') /\ WalksRight(ledger, walk') /\ AnswerRight(ledger, said')
<1>1. PICK t \in DOMAIN tracer.kept : tracer' = [tracer EXCEPT !.heights = Noted(@, t, tracer.kept[t])]
  BY DEF Recall
<1>2. walk' = walk /\ said' = said
  BY DEF Recall
<1> DEFINE N == Noted(tracer.heights, t, tracer.kept[t])
<1>3. /\ DOMAIN tracer = {"heights", "tip", "kept", "outputs", "verdicts"}
      /\ HeightsRight(ledger, tracer.heights) /\ HeightsRight(ledger, tracer.kept)
      /\ \A x \in DOMAIN tracer.outputs : Right(ledger, x, tracer.outputs[x])
      /\ \A x \in DOMAIN tracer.verdicts : VerdictRight(ledger, x, tracer.verdicts[x])
  BY DEF TracerRight
<1>4. HeightsRight(ledger, N)
  <2>1. tracer.kept[t] # None /\ tracer.kept[t] < Era => ~(ledger[t].height >= Era)
    BY <1>1, <1>3 DEF HeightsRight
  <2> QED BY <1>3, <2>1, HeightNoted
<1> HIDE DEF N
<1>5. /\ DOMAIN tracer' = DOMAIN tracer /\ tracer'.heights = N /\ tracer'.kept = tracer.kept
      /\ tracer'.outputs = tracer.outputs /\ tracer'.verdicts = tracer.verdicts
  BY <1>1, <1>3 DEF N
<1>6. TracerRight(ledger, tracer')
  BY <1>3, <1>4, <1>5 DEF TracerRight
<1> QED BY <1>2, <1>6

\* A walk that asks, or is answered, is where it was.
LEMMA AwaitRight ==
  ASSUME WalksRight(ledger, walk), NEW w \in Walkers, walk[w] # None, NEW a
  PROVE  WalksRight(ledger, [walk EXCEPT ![w].awaits = a])
<1> DEFINE q == [walk[w] EXCEPT !.awaits = a]
<1>1. /\ DOMAIN walk[w] = {"budget", "memo", "stack", "awaits"} /\ StackRight(ledger, walk[w].stack)
      /\ \A x \in DOMAIN walk[w].memo : Right(ledger, x, walk[w].memo[x])
  BY OnTop DEF WalkRight
<1>2. DOMAIN q = DOMAIN walk[w] /\ q.memo = walk[w].memo /\ q.stack = walk[w].stack
  BY <1>1
<1>3. [walk EXCEPT ![w].awaits = a] = [walk EXCEPT ![w] = q]
  OBVIOUS
<1> HIDE DEF q
<1>4. WalkRight(ledger, q)
  BY <1>1, <1>2 DEF WalkRight
<1> QED BY <1>3, <1>4, OneWalk

LEMMA GetFailsRight ==
  ASSUME LedgerOK(ledger), TracerRight(ledger, tracer), WalksRight(ledger, walk), AnswerRight(ledger, said),
         NEW w \in Walkers, GetFails(w)
  PROVE  TracerRight(ledger, tracer') /\ WalksRight(ledger, walk') /\ AnswerRight(ledger, said')
<1>1. walk[w] # None
  BY DEF GetFails, InFlight
<1>2. /\ WalkRight(ledger, walk[w]) /\ FrameRight(ledger, Frame(w))
      /\ Frame(w) = walk[w].stack[Len(walk[w].stack)]
  BY <1>1, OnTop
<1>3. Right(ledger, Frame(w).coin, Cut(Frame(w).found)) /\ Right(ledger, Frame(w).coin, Bare(FALSE))
  BY <1>2, CutRight
<1>4. CASE Frame(w).stage = "reading"
  <2> DEFINE q == [walk[w] EXCEPT !.awaits = None]
  <2>1. Return(w, q, Bare(FALSE), tracer)
    BY <1>4 DEF GetFails
  <2>2. /\ DOMAIN walk[w] = {"budget", "memo", "stack", "awaits"} /\ StackRight(ledger, walk[w].stack)
        /\ \A x \in DOMAIN walk[w].memo : Right(ledger, x, walk[w].memo[x])
    BY <1>2 DEF WalkRight
  <2>3. DOMAIN q = DOMAIN walk[w] /\ q.memo = walk[w].memo /\ q.stack = walk[w].stack
    BY <2>2
  <2> HIDE DEF q
  <2>4. WalkRight(ledger, q)
    BY <2>2, <2>3 DEF WalkRight
  <2>5. Right(ledger, q.stack[Len(q.stack)].coin, Bare(FALSE))
    BY <1>2, <1>3, <2>3
  <2> QED BY <2>1, <2>4, <2>5, ReturnRight
<1>5. CASE Frame(w).stage # "reading"
  <2>1. Close(w, Cut(Frame(w).found))
    BY <1>5 DEF GetFails
  <2> QED BY <1>1, <1>3, <2>1, CloseRight
<1> QED BY <1>4, <1>5

\* What the code takes for a height is below the era only if the transaction's is, or it was given one it
\* does not have.
LEMMA DatedRight ==
  ASSUME TracerRight(ledger, tracer), NEW t, NEW n, NEW told, Dated(t, n, told), ~misdated'
  PROVE  TracerRight(ledger, tracer')
<1> DEFINE height == told - n + 1
           H == Noted(tracer.heights, t, height)
           K == Noted(tracer.kept, t, height)
<1>1. /\ DOMAIN tracer = {"heights", "tip", "kept", "outputs", "verdicts"}
      /\ HeightsRight(ledger, tracer.heights) /\ HeightsRight(ledger, tracer.kept)
      /\ \A x \in DOMAIN tracer.outputs : Right(ledger, x, tracer.outputs[x])
      /\ \A x \in DOMAIN tracer.verdicts : VerdictRight(ledger, x, tracer.verdicts[x])
  BY DEF TracerRight
<1>2. /\ tracer' = [tracer EXCEPT !.tip = told, !.heights = H, !.kept = K]
      /\ misdated' = (misdated \/ (height < Era /\ ledger[t].height >= Era))
  BY DEF Dated
<1>3. ~(height < Era /\ ledger[t].height >= Era)
  BY <1>2
<1> HIDE DEF height
<1>4. HeightsRight(ledger, H) /\ HeightsRight(ledger, K)
  BY <1>1, <1>3, HeightNoted
<1> HIDE DEF H, K
<1>5. /\ DOMAIN tracer' = DOMAIN tracer /\ tracer'.heights = H /\ tracer'.kept = K
      /\ tracer'.outputs = tracer.outputs /\ tracer'.verdicts = tracer.verdicts
  BY <1>1, <1>2
<1> QED BY <1>1, <1>4, <1>5 DEF TracerRight

LEMMA GotRight ==
  ASSUME LedgerOK(ledger), TracerRight(ledger, tracer), WalksRight(ledger, walk), AnswerRight(ledger, said),
         NEW w \in Walkers, Got(w), ~misdated'
  PROVE  TracerRight(ledger, tracer') /\ WalksRight(ledger, walk') /\ AnswerRight(ledger, said')
<1> DEFINE t == walk[w].awaits.tx
           n == Confirmations(t)
<1>1. walk[w] # None /\ said' = said /\ \E a : walk' = [walk EXCEPT ![w].awaits = a]
  BY Zenon DEF Got, InFlight
<1>2. WalksRight(ledger, walk')
  BY <1>1, AwaitRight
<1>3. \/ tracer' = [tracer EXCEPT !.heights = Noted(tracer.heights, t, None)]
      \/ Dated(t, n, tracer.tip)
      \/ tracer' = tracer
  BY Zenon DEF Got
<1>4. CASE tracer' = [tracer EXCEPT !.heights = Noted(tracer.heights, t, None)]
  <2> DEFINE N == Noted(tracer.heights, t, None)
  <2>1. /\ DOMAIN tracer = {"heights", "tip", "kept", "outputs", "verdicts"}
        /\ HeightsRight(ledger, tracer.heights) /\ HeightsRight(ledger, tracer.kept)
        /\ \A x \in DOMAIN tracer.outputs : Right(ledger, x, tracer.outputs[x])
        /\ \A x \in DOMAIN tracer.verdicts : VerdictRight(ledger, x, tracer.verdicts[x])
    BY DEF TracerRight
  <2>2. tracer' = [tracer EXCEPT !.heights = N]
    BY <1>4
  <2> HIDE DEF t
  <2>3. HeightsRight(ledger, N)
    BY <2>1, HeightNoted
  <2> HIDE DEF N
  <2>4. /\ DOMAIN tracer' = DOMAIN tracer /\ tracer'.heights = N /\ tracer'.kept = tracer.kept
        /\ tracer'.outputs = tracer.outputs /\ tracer'.verdicts = tracer.verdicts
    BY <2>1, <2>2
  <2>5. TracerRight(ledger, tracer')
    BY <2>1, <2>3, <2>4 DEF TracerRight
  <2> QED BY <1>1, <1>2, <2>5
<1>5. CASE Dated(t, n, tracer.tip)
  <2> HIDE DEF t, n
  <2>1. TracerRight(ledger, tracer')
    BY <1>5, DatedRight
  <2> QED BY <1>1, <1>2, <2>1
<1>6. CASE tracer' = tracer
  BY <1>1, <1>2, <1>6
<1> QED BY <1>3, <1>4, <1>5, <1>6

LEMMA GotTipRight ==
  ASSUME LedgerOK(ledger), TracerRight(ledger, tracer), WalksRight(ledger, walk), AnswerRight(ledger, said),
         NEW w \in Walkers, GotTip(w), ~misdated'
  PROVE  TracerRight(ledger, tracer') /\ WalksRight(ledger, walk') /\ AnswerRight(ledger, said')
<1> DEFINE t == walk[w].awaits.tx
           n == walk[w].awaits.confirmations
<1>1. walk[w] # None /\ said' = said /\ walk' = [walk EXCEPT ![w].awaits = None]
  BY Zenon DEF GotTip
<1>2. WalksRight(ledger, walk')
  BY <1>1, AwaitRight
<1>3. PICK told : Dated(t, n, told)
  BY Zenon DEF GotTip
<1> HIDE DEF t, n
<1>4. TracerRight(ledger, tracer')
  BY <1>3, DatedRight
<1> QED BY <1>1, <1>2, <1>4

LEMMA ReadRight ==
  ASSUME LedgerOK(ledger), TracerRight(ledger, tracer), WalksRight(ledger, walk), AnswerRight(ledger, said),
         NEW w \in Walkers, Read(w)
  PROVE  TracerRight(ledger, tracer') /\ WalksRight(ledger, walk') /\ AnswerRight(ledger, said')
<1> DEFINE o == Frame(w).coin
           own == IF ledger[o[1]].reveals /\ OutStart(ledger, o) = 0 THEN {[id |-> o[1], offset |-> 0]} ELSE {}
<1>1. walk[w] # None /\ Frame(w).stage = "reading" /\ o[1] \in DOMAIN tracer.heights
  BY DEF Read, At
<1>2. /\ WalkRight(ledger, walk[w]) /\ FrameRight(ledger, Frame(w))
      /\ Frame(w) = walk[w].stack[Len(walk[w].stack)]
  BY <1>1, OnTop
<1>3. CASE tracer.heights[o[1]] # None /\ tracer.heights[o[1]] < Era
  <2>1. Return(w, walk[w], Bare(TRUE), tracer)
    BY <1>3 DEF Read
  <2>2. ~(ledger[o[1]].height >= Era)
    BY <1>1, <1>3 DEF TracerRight, HeightsRight
  <2>3. o \in CoinsMade(ledger)
    <3>1. Frame(w) \in Frames(ledger)
      BY <1>2 DEF FrameRight
    <3> QED BY <3>1, FrameFields
  <2>4. Really(ledger, o) = {}
    BY <2>2, <2>3, BelowTheEra
  <2>5. Right(ledger, walk[w].stack[Len(walk[w].stack)].coin, Bare(TRUE))
    BY <1>2, <2>4, CutRight
  <2> QED BY <1>2, <2>1, <2>5, ReturnRight
<1>4. CASE ~(tracer.heights[o[1]] # None /\ tracer.heights[o[1]] < Era)
  <2> DEFINE g == [Frame(w) EXCEPT !.stage = "inputs", !.found = own]
  <2>1. walk' = [walk EXCEPT ![w] = Onto(walk[w], g)] /\ tracer' = tracer /\ said' = said
    BY <1>4, Zenon DEF Read
  <2>2. g = Staged(Frame(w), "inputs", own)
    BY DEF Staged
  <2> DEFINE f == Frame(w)
  <2>3. FrameRight(ledger, g) /\ g.coin = f.coin
    <3>1. own = IF ledger[f.coin[1]].reveals /\ OutStart(ledger, f.coin) = 0 THEN {[id |-> f.coin[1], offset |-> 0]} ELSE {}
      OBVIOUS
    <3> HIDE DEF own, g
    <3>2. FrameRight(ledger, f) /\ f.stage = "reading" /\ g = Staged(f, "inputs", own)
      BY <1>1, <1>2, <2>2
    <3> HIDE DEF f
    <3> QED BY <3>1, <3>2, InputsRight
  <2> HIDE DEF own, g
  <2>4. WalksRight(ledger, [walk EXCEPT ![w] = Onto(walk[w], g)])
    BY <1>1, <2>3, OntoRight
  <2>5. WalksRight(ledger, walk')
    BY <2>1, <2>4
  <2> QED BY <2>1, <2>5
<1> QED BY <1>3, <1>4

LEMMA DescendRight ==
  ASSUME LedgerOK(ledger), TracerRight(ledger, tracer), WalksRight(ledger, walk), AnswerRight(ledger, said),
         NEW w \in Walkers, Descend(w)
  PROVE  TracerRight(ledger, tracer') /\ WalksRight(ledger, walk') /\ AnswerRight(ledger, said')
<1> DEFINE f == Frame(w)
<1>1. /\ walk[w] # None /\ f.stage = "inputs" /\ f.next \in DOMAIN ledger[f.coin[1]].ins
      /\ tracer' = tracer /\ said' = said
  BY DEF Descend, At, More
<1>2. /\ WalkRight(ledger, walk[w]) /\ FrameRight(ledger, f) /\ f = walk[w].stack[Len(walk[w].stack)]
      /\ StackRight(ledger, walk[w].stack)
  BY <1>1, OnTop
<1>3. CASE Overlap(f) = {}
  <2>1. walk' = [walk EXCEPT ![w] = Onto(walk[w], Past(f))]
    BY <1>3, Zenon DEF Descend
  <2>2. FrameRight(ledger, Past(f)) /\ Past(f).coin = f.coin
    <3> HIDE DEF f
    <3> QED BY <1>1, <1>2, <1>3, PastRight
  <2>3. WalksRight(ledger, [walk EXCEPT ![w] = Onto(walk[w], Past(f))])
    BY <1>1, <2>2, OntoRight
  <2>4. WalksRight(ledger, walk')
    BY <2>1, <2>3
  <2> QED BY <1>1, <2>4
<1>4. CASE Overlap(f) # {}
  <2> DEFINE o == Input(f)
             q == [walk[w] EXCEPT !.stack = Append(walk[w].stack, Door(o))]
  <2>1. walk' = [walk EXCEPT ![w] = q]
    <3>1. walk' = [walk EXCEPT ![w] = IF Overlap(f) = {} THEN Onto(walk[w], Past(f)) ELSE q]
      BY DEF Descend
    <3> HIDE DEF q, f
    <3> QED BY <1>4, <3>1
  <2>2. /\ o \in CoinsMade(ledger) /\ OutValue(ledger, o) \in Nat /\ o = ledger[f.coin[1]].ins[f.next]
    <3>1. o = ledger[f.coin[1]].ins[f.next]
      BY DEF Input
    <3>2. FrameRight(ledger, f) /\ f.next \in DOMAIN ledger[f.coin[1]].ins
      BY <1>1, <1>2
    <3> HIDE DEF f
    <3>3. Input(f) \in CoinsMade(ledger) /\ OutValue(ledger, Input(f)) \in Nat
      BY <3>2, InputOfFrame
    <3> QED BY <3>1, <3>3
  <2>3. OutValue(ledger, o) > 0
    <3>1. f.passed \in Nat
      <4>1. f \in Frames(ledger)
        BY <1>2 DEF FrameRight
      <4> QED BY <4>1, FrameFields
    <3>2. PICK g : g \in f.passed .. f.passed + OutValue(ledger, o) - 1
      BY <1>4 DEF Overlap
    <3> HIDE DEF f, o
    <3> QED BY <2>2, <3>1, <3>2
  <2>4. FrameRight(ledger, Door(o)) /\ Door(o).coin = o
    BY <2>2, <2>3, DoorRight
  <2>5. StackRight(ledger, Append(walk[w].stack, Door(o)))
    <3> DEFINE st == walk[w].stack
               d == Door(o)
    <3>1. StackRight(ledger, st) /\ st[Len(st)] = f /\ FrameRight(ledger, d)
      BY <1>2, <2>4
    <3>2. d.coin = ledger[f.coin[1]].ins[f.next]
      BY <2>2, <2>4
    <3> HIDE DEF st, d, f, o
    <3>3. /\ st[Len(st)].stage = "inputs" /\ st[Len(st)].next \in DOMAIN ledger[st[Len(st)].coin[1]].ins
          /\ d.coin = ledger[st[Len(st)].coin[1]].ins[st[Len(st)].next]
      BY <1>1, <3>1, <3>2
    <3>4. StackRight(ledger, Append(st, d))
      BY <3>1, <3>3, StackDeeper
    <3> QED BY <3>4 DEF st, d
  <2> HIDE DEF o
  <2>6. /\ DOMAIN walk[w] = {"budget", "memo", "stack", "awaits"}
        /\ \A x \in DOMAIN walk[w].memo : Right(ledger, x, walk[w].memo[x])
    BY <1>2 DEF WalkRight
  <2>7. DOMAIN q = DOMAIN walk[w] /\ q.memo = walk[w].memo /\ q.stack = Append(walk[w].stack, Door(o))
    BY <2>6
  <2> HIDE DEF q
  <2>8. WalkRight(ledger, q)
    BY <2>5, <2>6, <2>7 DEF WalkRight
  <2>9. WalksRight(ledger, walk')
    BY <2>1, <2>8, OneWalk
  <2> QED BY <1>1, <2>9
<1> QED BY <1>3, <1>4

LEMMA FinishedRight ==
  ASSUME LedgerOK(ledger), TracerRight(ledger, tracer), WalksRight(ledger, walk), AnswerRight(ledger, said),
         NEW w \in Walkers, Finish(w)
  PROVE  TracerRight(ledger, tracer') /\ WalksRight(ledger, walk') /\ AnswerRight(ledger, said')
<1> DEFINE r == [inscriptions |-> Frame(w).found, complete |-> Frame(w).complete]
<1>1. walk[w] # None /\ Frame(w).stage = "inputs" /\ ~More(Frame(w)) /\ Close(w, r)
  BY DEF Finish, At
<1>2. FrameRight(ledger, Frame(w))
  BY <1>1, OnTop
<1>3. Right(ledger, Frame(w).coin, r)
  BY <1>1, <1>2, FinishRight
<1> HIDE DEF r
<1> QED BY <1>1, <1>3, CloseRight

LEMMA WorkerEndsRight ==
  ASSUME TracerRight(ledger, tracer), AnswerRight(ledger, said), WorkerEnds
  PROVE  TracerRight(ledger, tracer') /\ WalksRight(ledger, walk') /\ AnswerRight(ledger, said')
<1>1. /\ tracer' = [tracer EXCEPT !.heights = <<>>, !.tip = None] /\ walk' = [w \in Walkers |-> None] /\ said' = said
  BY DEF WorkerEnds
<1>2. /\ DOMAIN tracer = {"heights", "tip", "kept", "outputs", "verdicts"}
      /\ HeightsRight(ledger, tracer.heights) /\ HeightsRight(ledger, tracer.kept)
      /\ \A x \in DOMAIN tracer.outputs : Right(ledger, x, tracer.outputs[x])
      /\ \A x \in DOMAIN tracer.verdicts : VerdictRight(ledger, x, tracer.verdicts[x])
  BY DEF TracerRight
<1>3. /\ DOMAIN tracer' = DOMAIN tracer /\ tracer'.heights = <<>> /\ tracer'.kept = tracer.kept
      /\ tracer'.outputs = tracer.outputs /\ tracer'.verdicts = tracer.verdicts
  BY <1>1, <1>2
<1>4. HeightsRight(ledger, <<>>)
  BY DEF HeightsRight
<1>5. TracerRight(ledger, tracer')
  BY <1>2, <1>3, <1>4 DEF TracerRight
<1>6. WalksRight(ledger, walk')
  BY <1>1 DEF WalksRight
<1> QED BY <1>1, <1>5, <1>6

LEMMA TracerInvInit == TracerInit => TracerInv
<1> SUFFICES ASSUME TracerInit PROVE TracerInv
  OBVIOUS
<1>1. /\ ledger \in Ledgers /\ said = None /\ misdated = FALSE /\ walk = [w \in Walkers |-> None]
      /\ tracer = [heights |-> <<>>, tip |-> None, kept |-> <<>>, outputs |-> <<>>, verdicts |-> <<>>]
  BY DEF TracerInit
<1>2. LedgerOK(ledger)
  BY <1>1, TracerAssumption
<1>3. /\ DOMAIN tracer = {"heights", "tip", "kept", "outputs", "verdicts"}
      /\ DOMAIN tracer.heights = {} /\ DOMAIN tracer.kept = {} /\ DOMAIN tracer.outputs = {} /\ DOMAIN tracer.verdicts = {}
  BY <1>1
<1>4. TracerRight(ledger, tracer)
  BY <1>3 DEF TracerRight, HeightsRight
<1>5. WalksRight(ledger, walk) /\ AnswerRight(ledger, said)
  BY <1>1 DEF WalksRight, AnswerRight
<1> QED BY <1>1, <1>2, <1>4, <1>5 DEF TracerInv

LEMMA TracerInvNext == TracerInv /\ [TracerNext]_tracerVars => TracerInv'
<1> SUFFICES ASSUME TracerInv, [TracerNext]_tracerVars PROVE TracerInv'
  OBVIOUS
<1>1. LedgerOK(ledger) /\ misdated \in BOOLEAN
      /\ (~misdated => TracerRight(ledger, tracer) /\ WalksRight(ledger, walk) /\ AnswerRight(ledger, said))
  BY DEF TracerInv
<1>2. ASSUME NEW w \in Walkers, Got(w) \/ GotTip(w)
      PROVE  ledger' = ledger /\ misdated' \in BOOLEAN /\ (~misdated' => ~misdated)
  <2>1. ledger' = ledger
    BY <1>2, Zenon DEF Got, GotTip
  <2>2. misdated' = misdated \/ \E t, n, told : Dated(t, n, told)
    BY <1>2, Zenon DEF Got, GotTip
  <2>3. ASSUME NEW t, NEW n, NEW told, Dated(t, n, told) PROVE misdated' \in BOOLEAN /\ (~misdated' => ~misdated)
    BY <1>1, <2>3, Zenon DEF Dated
  <2> QED BY <1>1, <2>1, <2>2, <2>3
<1>3. ASSUME ~(\E w \in Walkers : Got(w) \/ GotTip(w)) PROVE ledger' = ledger /\ misdated' = misdated
  BY <1>3, Zenon DEF TracerNext, tracerVars, Detect, Enter, Recall, GetTransaction, GetFails, Read, Descend, Finish, WorkerEnds,
     Mined
<1>4. ledger' = ledger /\ misdated' \in BOOLEAN /\ (~misdated' => ~misdated)
  BY <1>1, <1>2, <1>3
<1> SUFFICES ASSUME ~misdated'
             PROVE  TracerRight(ledger, tracer') /\ WalksRight(ledger, walk') /\ AnswerRight(ledger, said')
  BY <1>1, <1>4 DEF TracerInv
<1>5. TracerRight(ledger, tracer) /\ WalksRight(ledger, walk) /\ AnswerRight(ledger, said)
  BY <1>1, <1>4
<1>6. ASSUME NEW w \in Walkers, NEW o \in CoinsMade(ledger), OutValue(ledger, o) > 0, Detect(w, o)
      PROVE  TracerRight(ledger, tracer') /\ WalksRight(ledger, walk') /\ AnswerRight(ledger, said')
  BY <1>1, <1>5, <1>6, DetectRight
<1>7. ASSUME NEW w \in Walkers, Enter(w)
      PROVE  TracerRight(ledger, tracer') /\ WalksRight(ledger, walk') /\ AnswerRight(ledger, said')
  BY <1>1, <1>5, <1>7, EnterRight
<1>8. ASSUME NEW w \in Walkers, Recall(w)
      PROVE  TracerRight(ledger, tracer') /\ WalksRight(ledger, walk') /\ AnswerRight(ledger, said')
  BY <1>1, <1>5, <1>8, RecallRight
<1>9. ASSUME NEW w \in Walkers, GetTransaction(w)
      PROVE  TracerRight(ledger, tracer') /\ WalksRight(ledger, walk') /\ AnswerRight(ledger, said')
  <2>1. tracer' = tracer /\ said' = said
    BY <1>9 DEF GetTransaction
  <2>2. PICK a : walk[w] # None /\ walk' = [walk EXCEPT ![w].awaits = a]
    BY <1>9, Zenon DEF GetTransaction, Needs, At
  <2>3. WalksRight(ledger, walk')
    BY <1>5, <2>2, AwaitRight
  <2> QED BY <1>5, <2>1, <2>3
<1>10. ASSUME NEW w \in Walkers, GetFails(w)
       PROVE  TracerRight(ledger, tracer') /\ WalksRight(ledger, walk') /\ AnswerRight(ledger, said')
  BY <1>1, <1>5, <1>10, GetFailsRight
<1>11. ASSUME NEW w \in Walkers, Got(w)
       PROVE  TracerRight(ledger, tracer') /\ WalksRight(ledger, walk') /\ AnswerRight(ledger, said')
  BY <1>1, <1>5, <1>11, GotRight
<1>12. ASSUME NEW w \in Walkers, GotTip(w)
       PROVE  TracerRight(ledger, tracer') /\ WalksRight(ledger, walk') /\ AnswerRight(ledger, said')
  BY <1>1, <1>5, <1>12, GotTipRight
<1>13. ASSUME NEW w \in Walkers, Read(w)
       PROVE  TracerRight(ledger, tracer') /\ WalksRight(ledger, walk') /\ AnswerRight(ledger, said')
  BY <1>1, <1>5, <1>13, ReadRight
<1>14. ASSUME NEW w \in Walkers, Descend(w)
       PROVE  TracerRight(ledger, tracer') /\ WalksRight(ledger, walk') /\ AnswerRight(ledger, said')
  BY <1>1, <1>5, <1>14, DescendRight
<1>15. ASSUME NEW w \in Walkers, Finish(w)
       PROVE  TracerRight(ledger, tracer') /\ WalksRight(ledger, walk') /\ AnswerRight(ledger, said')
  BY <1>1, <1>5, <1>15, FinishedRight
<1>16. CASE WorkerEnds
  BY <1>5, <1>16, WorkerEndsRight
<1>17. CASE Mined \/ UNCHANGED tracerVars
  BY <1>5, <1>17 DEF Mined, tracerVars
<1> QED BY <1>6, <1>7, <1>8, <1>9, <1>10, <1>11, <1>12, <1>13, <1>14, <1>15, <1>16, <1>17, Zenon DEF TracerNext

\* What is known, what every walk has found so far and what was said last are right, so long as no
\* transaction was given a height below the era that it does not have (inscriptions.js:226-345).
THEOREM TracerInvariant == TracerSpec => []TracerInv
BY TracerInvInit, TracerInvNext, PTL DEF TracerSpec

\* Whatever was fetched before, kept, lost on the way or cut short, by whomever, a coin called clean carries
\* nothing and what a coin is said to carry is there, at its offset, so long as no transaction was given a
\* height below the era that it does not have (inscriptions.js:252-345).
THEOREM TracerCorrect == TracerSpec => []TracedRight
<1>1. TracerInv => TracedRight
  BY DEF TracerInv, TracedRight, AnswerRight, VerdictRight, SaidRight
<1> QED BY <1>1, TracerInvariant, PTL
=============================================================================
