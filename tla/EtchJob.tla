------------------------------- MODULE EtchJob -------------------------------
(***************************************************************************)
(* src/server.js, driveEtch and the handlers around it, with                   *)
(* src/runes/etchjob.js: one etching that is paid for, split, revealed, and    *)
(* may get a release inscribed.  Every handler loads the job file, waits for   *)
(* the node, and writes back the copy it has.                                  *)
(*                                                                             *)
(* The etcher pays the deposit address, which the server splits ("own"), or    *)
(* broadcasts the split from a wallet ("self").                                *)
(***************************************************************************)
EXTENDS Naturals, FiniteSets, Absent

CONSTANTS
  Requests,      \* handlers that run at a time
  Ways,          \* how this etcher may pay: a subset of {"own", "self"}
  MaxEtchCrashes, MaxEtchFaults

ASSUME EtchAssumption ==
  /\ None \notin {"own", "self"} /\ Ways \subseteq {"own", "self"}
  /\ MaxEtchCrashes \in Nat /\ MaxEtchFaults \in Nat

VARIABLES
  etchDeposit,            \* the chain: what the deposit address holds for this etching
  splits, reveals,    \* the chain: splits, and splits whose outputs a reveal spent
  etchMined,              \* the chain: reveals in a block
  commits, releases,  \* the chain: splits whose last output went into a release commit, a release
  disk,               \* the job file
  driving,            \* etchDriving: whether this job is in it
  request,            \* what each handler waits with
  etchFaults, etchCrashes,
  lost,               \* history: an answer of the node was lost
  clashed             \* history: two polls drove the job at a time

etchChain   == <<etchDeposit, splits, reveals, etchMined, commits, releases>>
etchHistory == <<etchFaults, etchCrashes, lost, clashed>>
etchVars    == <<etchChain, disk, driving, request, etchHistory>>

Way == {"own", "self"}
Job == [status : {"awaiting_payment", "funding", "broadcast", "confirmed", "error"},
        split : Way \cup {None}, reveal : Way \cup {None},
        runeRef : BOOLEAN, release : BOOLEAN]
NewJob == [status |-> "awaiting_payment", split |-> None, reveal |-> None,
           runeRef |-> FALSE, release |-> FALSE]

Idle == [at |-> "idle"]
EtchStage == {"confirm", "unspent", "split", "reveal", "funded", "commit", "release"}
Request == {Idle} \cup [at : EtchStage, job : Job]

EtchTypeOK ==
  /\ etchDeposit \in {"empty", "paid", "spent"}
  /\ splits \subseteq Way /\ reveals \subseteq Way /\ etchMined \subseteq Way
  /\ commits \subseteq Way /\ releases \subseteq Way
  /\ disk \in Job /\ driving \in BOOLEAN
  /\ request \in [Requests -> Request]
  /\ etchFaults \in 0 .. MaxEtchFaults /\ etchCrashes \in 0 .. MaxEtchCrashes
  /\ lost \in BOOLEAN /\ clashed \in BOOLEAN

EtchInit ==
  /\ etchDeposit = "empty" /\ splits = {} /\ reveals = {} /\ etchMined = {}
  /\ commits = {} /\ releases = {}
  /\ disk = NewJob /\ driving = FALSE
  /\ request = [r \in Requests |-> Idle]
  /\ etchFaults = 0 /\ etchCrashes = 0 /\ lost = FALSE /\ clashed = FALSE

Drives(r) == request[r].at \in {"split", "reveal"}
Reply(r) == request' = [request EXCEPT ![r] = Idle]
Wait(r, stage, job) == request' = [request EXCEPT ![r] = [at |-> stage, job |-> job]]

\* A call to the node: it does its work, it refuses, or the answer to work done is lost.
EtchFault == etchFaults < MaxEtchFaults /\ etchFaults' = etchFaults + 1
Works   == UNCHANGED <<etchFaults, lost>>
Refuses == EtchFault /\ UNCHANGED lost
Lost    == EtchFault /\ lost' = TRUE

-----------------------------------------------------------------------------
(* The etcher, the miners, the process.                                     *)

Pay ==
  /\ "own" \in Ways /\ etchDeposit = "empty" /\ etchDeposit' = "paid"
  /\ UNCHANGED <<splits, reveals, etchMined, commits, releases, disk, driving, request, etchHistory>>

SelfSplit ==
  /\ "self" \in Ways \ splits /\ splits' = splits \cup {"self"}
  /\ UNCHANGED <<etchDeposit, reveals, etchMined, commits, releases, disk, driving, request, etchHistory>>

MineEtch(w) ==
  /\ w \in reveals \ etchMined /\ etchMined' = etchMined \cup {w}
  /\ UNCHANGED <<etchDeposit, splits, reveals, commits, releases, disk, driving, request, etchHistory>>

EtchCrash ==
  /\ etchCrashes < MaxEtchCrashes /\ etchCrashes' = etchCrashes + 1
  /\ request' = [r \in Requests |-> Idle] /\ driving' = FALSE
  /\ UNCHANGED <<etchChain, disk, etchFaults, lost, clashed>>

-----------------------------------------------------------------------------
(* handleRuneEtchStatus: the poll.                                          *)

Poll(r) ==
  /\ request[r] = Idle
  /\ \/ disk.reveal # None /\ Wait(r, "confirm", disk)
     \/ disk.reveal = None /\ ~driving /\ Wait(r, "unspent", disk)
  /\ UNCHANGED <<etchChain, disk, driving, etchHistory>>

\* The reveal is out: is it in a block?
Confirm(r) ==
  /\ request[r].at = "confirm"
  /\ LET j == request[r].job IN
       IF j.reveal \in etchMined
       THEN disk' = [j EXCEPT !.runeRef = TRUE, !.status = "confirmed"]
       ELSE UNCHANGED disk
  /\ Reply(r)
  /\ UNCHANGED <<etchChain, driving, etchHistory>>

\* listunspent has answered.  isPaid asks the balance only until there is a split; etchDriving is
\* not looked at again.
PaidByBalance(j) == etchDeposit = "paid"                     \* (mutant: asked after the split too)
IsPaid(j) == j.split # None \/ etchDeposit = "paid"
DriveEtch(r) ==
  /\ request[r].at = "unspent"
  /\ LET j == request[r].job IN
       IF IsPaid(j)
       THEN /\ Wait(r, IF j.split = None THEN "split" ELSE "reveal", j)
            /\ driving' = TRUE
            /\ clashed' = (clashed \/ \E o \in Requests \ {r} : Drives(o))
       ELSE Reply(r) /\ UNCHANGED <<driving, clashed>>
  /\ UNCHANGED <<etchChain, disk, etchFaults, etchCrashes, lost>>

\* The catch and the finally of the poll.
LeaveDriving(r) == Reply(r) /\ UNCHANGED driving           \* (mutant: no finally)
Leave(r) == Reply(r) /\ driving' = FALSE
Errs(r, j) == disk' = [j EXCEPT !.status = "error"] /\ Leave(r)

\* driveEtch, first half: the deposit into the commit outputs, the price and the release holder.
SendSplit(r) ==
  /\ request[r].at = "split"
  /\ LET j == request[r].job IN
       \/ /\ etchDeposit = "paid"
          /\ etchDeposit' = "spent" /\ splits' = splits \cup {"own"}
          /\ LET k == [j EXCEPT !.split = "own", !.status = "funding"] IN
               \/ Works /\ disk' = k /\ Wait(r, "reveal", k) /\ UNCHANGED driving
               \/ Lost /\ Errs(r, j)
       \/ /\ (etchDeposit = "spent" /\ Works) \/ Refuses
          /\ Errs(r, j) /\ UNCHANGED <<etchDeposit, splits>>
  /\ UNCHANGED <<reveals, etchMined, commits, releases, etchCrashes, clashed>>

\* Second half: the reveal, which pays the ticker price into the lock.
SendEtchReveal(r) ==
  /\ request[r].at = "reveal"
  /\ LET j == request[r].job IN
       \/ /\ j.split \in splits \ reveals
          /\ reveals' = reveals \cup {j.split}
          /\ \/ /\ Works
                /\ disk' = [j EXCEPT !.reveal = j.split, !.status = "broadcast"]
                /\ Leave(r)
             \/ Lost /\ Errs(r, j)
       \/ /\ (j.split \in reveals /\ Works) \/ Refuses
          /\ Errs(r, j) /\ UNCHANGED reveals
  /\ UNCHANGED <<etchDeposit, splits, etchMined, commits, releases, etchCrashes, clashed>>

-----------------------------------------------------------------------------
(* handleRuneEtchFunded: a wallet says that it broadcast the split.         *)

Funded(r) ==
  /\ request[r] = Idle /\ "self" \in Ways /\ disk.split = None
  /\ Wait(r, "funded", disk)
  /\ UNCHANGED <<etchChain, disk, driving, etchHistory>>

\* The transaction is read from the node and every output compared.
SplitFound(r) == "self" \in splits
CheckFunded(r) ==
  /\ request[r].at = "funded"
  /\ IF SplitFound(r)
     THEN disk' = [request[r].job EXCEPT !.split = "self", !.status = "funding"]
     ELSE UNCHANGED disk
  /\ Reply(r)
  /\ UNCHANGED <<etchChain, driving, etchHistory>>

-----------------------------------------------------------------------------
(* handleRuneEtchRelease: inscribe the release the etcher signed.           *)

ReleaseEtch(r) ==
  /\ request[r] = Idle /\ disk.reveal # None /\ ~disk.release
  /\ Wait(r, "commit", disk)
  /\ UNCHANGED <<etchChain, disk, driving, etchHistory>>

\* The commit spends the output the split set aside, and nothing is saved until the reveal is out.
SendCommit(r) ==
  /\ request[r].at = "commit"
  /\ LET j == request[r].job IN
       \/ /\ j.split \in splits \ commits
          /\ commits' = commits \cup {j.split}
          /\ \/ Works /\ Wait(r, "release", j)
             \/ Lost /\ Reply(r)
       \/ /\ (j.split \in commits /\ Works) \/ Refuses
          /\ Reply(r) /\ UNCHANGED commits
  /\ UNCHANGED <<etchDeposit, splits, reveals, etchMined, releases, disk, driving, etchCrashes, clashed>>

SendRelease(r) ==
  /\ request[r].at = "release"
  /\ LET j == request[r].job IN
       \/ /\ releases' = releases \cup {j.split}
          /\ \/ Works /\ disk' = [j EXCEPT !.release = TRUE]
             \/ Lost /\ UNCHANGED disk
       \/ Refuses /\ UNCHANGED <<releases, disk>>
  /\ Reply(r)
  /\ UNCHANGED <<etchDeposit, splits, reveals, etchMined, commits, driving, etchCrashes, clashed>>

-----------------------------------------------------------------------------
EtchStep(r) ==
  \/ Confirm(r) \/ DriveEtch(r) \/ SendSplit(r) \/ SendEtchReveal(r)
  \/ CheckFunded(r) \/ SendCommit(r) \/ SendRelease(r)
EtchNext ==
  \/ Pay \/ SelfSplit \/ EtchCrash
  \/ \E w \in Way : MineEtch(w)
  \/ \E r \in Requests : Poll(r) \/ Funded(r) \/ ReleaseEtch(r) \/ EtchStep(r)
EtchSpec == EtchInit /\ [][EtchNext]_etchVars

\* The node answers; the page of the etcher stays open: it polls, and a wallet that broadcast the
\* split says so.  Both strongly: only this model's bound on open handlers could keep them waiting.
EtchFairSpec ==
  /\ EtchSpec
  /\ \A r \in Requests : WF_etchVars(EtchStep(r))
  /\ SF_etchVars(\E r \in Requests : Poll(r))
  /\ SF_etchVars("self" \in splits /\ \E r \in Requests : Funded(r))

-----------------------------------------------------------------------------
(* Properties.                                                              *)

\* What the job file names is on the chain: the split, the reveal of that split or of an earlier one,
\* the block, the release.  The status page and the release check take it from there.
FileTellsTruth ==
  /\ disk.split # None => disk.split \in splits
  /\ disk.reveal # None => disk.reveal \in reveals
  /\ disk.runeRef => disk.reveal \in etchMined
  /\ disk.release => releases # {}

\* A job is in etchDriving only while a poll drives it: else no poll could ever drive it again.
NoLeakedDrive == driving => \E r \in Requests : Drives(r)

\* "Idempotent on both halves" (server.js:2512): once the deposit is spent the file knows the split,
\* unless an answer was lost or two polls drove the job at a time.
SplitRemembered == etchDeposit = "spent" /\ ~lost /\ ~clashed => disk.split # None

\* A file can be trusted, and a poll can go on from it.
JobSound == EtchTypeOK /\ FileTellsTruth /\ NoLeakedDrive /\ SplitRemembered

\* "an etching that is paid, confirmed, and one call short of existing" (etchjob.js:149-150) does not
\* stay one: paid, it gets on the chain while the page is open, unless an answer was lost or two
\* polls drove it at a time.
PaidIsEtched ==
  [](~lost /\ ~clashed) => ((etchDeposit = "paid" \/ "self" \in splits) ~> (reveals # {}))

-----------------------------------------------------------------------------
(* What comments say, and the code does not do.                             *)

\* "AFTER the split it can only be true, because the split is itself the proof" (etchjob.js:144): a
\* file that names a split goes on naming one.
NeverForgotten == [][disk.split # None => disk'.split # None]_etchVars
=============================================================================
