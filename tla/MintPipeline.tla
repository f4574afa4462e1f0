---------------------------- MODULE MintPipeline ----------------------------
(***************************************************************************)
(* The payment jobs of src/server.js and the collection-number ledger of    *)
(* src/mint.js: a buyer asks for a payment request (a JOB, one file on      *)
(* disk), pays its deposit address, and somebody drives the job: broadcast  *)
(* the commit that spends the deposit, broadcast the reveal that inscribes, *)
(* record both.  Three kinds of driver do it, each an async function that   *)
(* gives up the thread at every `await` and keeps its own copy of the file: *)
(*                                                                         *)
(*   a poll     GET /api/job/:id, handleJob, any number at once             *)
(*   the reaper reapMintReservations, a timer, for collection mints         *)
(*   the sweep  driveAbandonedJobs, a timer, for plain inscriptions         *)
(*                                                                         *)
(* One action is what runs between two awaits.  The configuration modelled  *)
(* is one collection, no promo campaign and no local guard module (both are *)
(* off in the open tree).  A deposit is paid at most once and in full.      *)
(***************************************************************************)
EXTENDS Naturals, FiniteSets

CONSTANTS
  MintJobs,     \* ids of the jobs that mint a number of the collection
  PlainJobs,    \* ids of the jobs that inscribe something of the buyer's own
  Supply,       \* size of the collection: numbers are 1..Supply, drawn in order
  Polls,        \* the poll requests that may be in flight together
  Reaper, Sweep,  \* the two background drivers
  MaxAttempts,  \* MAX_DRIVE_ATTEMPTS
  SweepLimit,   \* jobs one sweep hands back (`limit`)
  MaxCrashes,   \* bound: process crashes in a behaviour
  MaxFaults,    \* bound: node calls that fail, or whose answer is lost
  None

Jobs == MintJobs \cup PlainJobs
Numbers == 1..Supply
Drivers == Polls \cup {Reaper, Sweep}

ASSUME PipelineAssumption ==
  /\ MintJobs \cap PlainJobs = {}
  /\ Supply \in Nat /\ MaxAttempts \in Nat /\ SweepLimit \in Nat \ {0}
  /\ MaxCrashes \in Nat /\ MaxFaults \in Nat
  /\ Reaper # Sweep /\ Reaper \notin Polls /\ Sweep \notin Polls
  /\ None \notin Jobs /\ None \notin Numbers

VARIABLES
  \* ---- on disk ----
  disk,        \* [Jobs -> job file, or None]
  number,      \* [Jobs -> job.mint.number, or None]: set once, the same in every copy
  reserved,    \* [Numbers -> the job that holds the reservation, or None]
  minted,      \* [Numbers -> the job recorded as having minted it, or None]
  aged,        \* numbers whose reservation is older than MINT_RESERVE_TTL_MS
  \* ---- the chain, as the node sees it ----
  deposit,     \* [Jobs -> "empty" | "funded" | "spent"]; spent by the commit only
  revealed,    \* jobs whose reveal transaction the node has accepted
  \* ---- in the process: lost in a crash ----
  opening,     \* mint requests between reserve() and saveJob()
  processing,  \* the `processing` set
  actor,       \* [Drivers -> where each driver stands, its job and its copy]
  reapTodo,    \* stale reservations the reaper has still to look at
  reapPaid,    \* copies of the paid jobs it has found in this cycle
  sweepTodo,   \* copies of the jobs the sweep has still to drive
  \* ---- bookkeeping of the model ----
  quoted,      \* jobs whose payment request was shown to a buyer
  crashes, faults

durable  == <<disk, number, reserved, minted, aged>>
chain    == <<deposit, revealed>>
volatile == <<opening, processing, actor, reapTodo, reapPaid, sweepTodo>>
bounds   == <<crashes, faults>>
vars     == <<durable, chain, volatile, quoted, bounds>>

JobFile == [status : {"awaiting", "error", "done"},
            split : BOOLEAN, reveal : BOOLEAN, attempts : 0..MaxAttempts]
Copy    == [id : Jobs, file : JobFile]
NewFile == [status |-> "awaiting", split |-> FALSE, reveal |-> FALSE, attempts |-> 0]

\* The assignments the drivers make to their copy.
Marked(f, s) == [f EXCEPT !.status = s]
Counted(f)   == [f EXCEPT !.attempts = @ + 1]
WithBothTxids(f) == [f EXCEPT !.split = TRUE, !.reveal = TRUE]  \* (mutant: when built)
WithSplit(f)  == [f EXCEPT !.split = TRUE]
WithReveal(f) == [f EXCEPT !.reveal = TRUE]

Idle == [pc |-> "idle", job |-> None, file |-> None]
Actor == [pc : {"idle", "look", "list", "pick", "ask", "commit", "reveal", "finish"},
          job : Jobs \cup {None}, file : JobFile \cup {None}]

Committed(j) == deposit[j] = "spent"
Driving(d)   == actor[d].pc \in {"commit", "reveal", "finish"}
Holding(d)   == actor[d].pc = "ask" \/ Driving(d)     \* has a job and a copy of its file
At(pc, j, f) == [pc |-> pc, job |-> j, file |-> f]
Resting(pc)  == At(pc, None, None)

TypeOK ==
  /\ disk \in [Jobs -> JobFile \cup {None}]
  /\ number \in [Jobs -> Numbers \cup {None}]
  /\ reserved \in [Numbers -> MintJobs \cup {None}]
  /\ minted \in [Numbers -> MintJobs \cup {None}]
  /\ aged \subseteq Numbers
  /\ deposit \in [Jobs -> {"empty", "funded", "spent"}]
  /\ revealed \subseteq Jobs
  /\ opening \subseteq MintJobs
  /\ processing \subseteq Jobs
  /\ actor \in [Drivers -> Actor]
  /\ \A d \in Drivers : Holding(d) => actor[d].job \in Jobs /\ actor[d].file \in JobFile
  /\ reapTodo \subseteq Numbers \X MintJobs
  /\ reapPaid \subseteq Copy
  /\ sweepTodo \subseteq Copy
  /\ quoted \subseteq Jobs
  /\ crashes \in 0..MaxCrashes
  /\ faults \in 0..MaxFaults

Init ==
  /\ disk = [j \in Jobs |-> None]
  /\ number = [j \in Jobs |-> None]
  /\ reserved = [n \in Numbers |-> None]
  /\ minted = [n \in Numbers |-> None]
  /\ aged = {}
  /\ deposit = [j \in Jobs |-> "empty"]
  /\ revealed = {}
  /\ opening = {} /\ processing = {} /\ quoted = {}
  /\ actor = [d \in Drivers |-> Idle]
  /\ reapTodo = {} /\ reapPaid = {} /\ sweepTodo = {}
  /\ crashes = 0 /\ faults = 0

-----------------------------------------------------------------------------
(* mint.js: the number ledger.  Each call saves the state file atomically.   *)

FreeOfReservations == {n \in Numbers : reserved[n] = None}  \* (mutant: minted forgotten)
Free == {n \in Numbers : reserved[n] = None /\ minted[n] = None}

\* release(number): by number alone, whoever holds it now.
Release(n) ==
  /\ reserved' = [reserved EXCEPT ![n] = None]
  /\ aged' = aged \ {n}

\* confirmMinted(number, ...): clears the reservation and overwrites the mint.
ConfirmMinted(j) ==
  LET n == number[j] IN
    /\ reserved' = [reserved EXCEPT ![n] = None]
    /\ aged' = aged \ {n}
    /\ minted' = [minted EXCEPT ![n] = j]

-----------------------------------------------------------------------------
(* Asking for a payment request.                                            *)

\* POST /api/mint up to its first await: reserve the next number in order.
MintReserve(j) ==
  /\ number[j] = None                        \* ids are random: never asked for twice
  /\ \E n \in Free :
       /\ \A m \in Free : n <= m
       /\ reserved' = [reserved EXCEPT ![n] = j]
       /\ number' = [number EXCEPT ![j] = n]
  /\ opening' = opening \cup {j}
  /\ UNCHANGED <<disk, minted, aged, chain, processing, actor,
                 reapTodo, reapPaid, sweepTodo, quoted, bounds>>

\* ... importaddress has answered: the job is saved and its address shown.
MintQuote(j) ==
  /\ j \in opening
  /\ disk' = [disk EXCEPT ![j] = NewFile]
  /\ opening' = opening \ {j}
  /\ quoted' = quoted \cup {j}
  /\ UNCHANGED <<number, reserved, minted, aged, chain, processing, actor,
                 reapTodo, reapPaid, sweepTodo, bounds>>

\* ... or the job could not be built: roll the reservation back.
MintFails(j) ==
  /\ j \in opening /\ faults < MaxFaults
  /\ Release(number[j])
  /\ opening' = opening \ {j}
  /\ faults' = faults + 1
  /\ UNCHANGED <<disk, number, minted, chain, processing, actor,
                 reapTodo, reapPaid, sweepTodo, quoted, crashes>>

\* POST /api/quote: nothing is shared before the job file is written.
PlainQuote(j) ==
  /\ j \notin quoted
  /\ disk' = [disk EXCEPT ![j] = NewFile]
  /\ quoted' = quoted \cup {j}
  /\ UNCHANGED <<number, reserved, minted, aged, chain, volatile, bounds>>

\* The buyer, who was shown the address once the file existed, pays when they
\* like: also after the reservation was released or the file cleaned up.
Pay(j) ==
  /\ j \in quoted /\ deposit[j] = "empty"
  /\ deposit' = [deposit EXCEPT ![j] = "funded"]
  /\ UNCHANGED <<durable, revealed, volatile, quoted, bounds>>

\* Half an hour passes over a reservation; no request takes that long to open.
Age(n) ==
  /\ reserved[n] # None /\ n \notin aged /\ reserved[n] \notin opening
  /\ aged' = aged \cup {n}
  /\ UNCHANGED <<disk, number, reserved, minted, chain, volatile, quoted, bounds>>

-----------------------------------------------------------------------------
(* drivePayout: the steps every driver takes once it holds a paid job.       *)

\* What a driver does when its job is over: the reaper drives one job a cycle,
\* the sweep goes on with the next, a poll answers its request.
LeaveOpen(d) == IF d = Sweep THEN Resting("pick") ELSE Idle  \* (mutant: never back to idle)
Leave(d) == IF d = Sweep /\ sweepTodo # {} THEN Resting("pick") ELSE Idle

\* (mutant: the finally block lost)
AbandonLocked(d, f) ==
  /\ disk' = IF d = Sweep THEN disk ELSE [disk EXCEPT ![actor[d].job] = Marked(f, "error")]
  /\ actor' = [actor EXCEPT ![d] = Leave(d)]
  /\ UNCHANGED processing

\* The catch and finally blocks.  A poll and the reaper write the failure into
\* the job file, from their own copy; the sweep leaves the file as it is.
Abandon(d, f) ==
  LET j == actor[d].job IN
    /\ disk' = IF d = Sweep THEN disk
               ELSE [disk EXCEPT ![j] = Marked(f, "error")]
    /\ processing' = processing \ {j}
    /\ actor' = [actor EXCEPT ![d] = Leave(d)]

\* The node accepts the commit, which spends the deposit.
SendCommit(d) ==
  LET j == actor[d].job IN
    /\ actor[d].pc = "commit" /\ deposit[j] = "funded"
    /\ deposit' = [deposit EXCEPT ![j] = "spent"]
    /\ actor' = [actor EXCEPT ![d] = At("reveal", j, WithSplit(@.file))]
    /\ UNCHANGED <<durable, revealed, opening, processing, reapTodo, reapPaid,
                   sweepTodo, quoted, bounds>>

\* The node refuses it (somebody spent the deposit already) or cannot be
\* reached, or accepts it and the answer is lost: the same exception.
CommitFails(d) ==
  LET j == actor[d].job IN
    /\ actor[d].pc = "commit"
    /\ \/ deposit[j] # "funded" /\ UNCHANGED <<deposit, faults>>
       \/ /\ deposit[j] = "funded" /\ faults < MaxFaults
          /\ faults' = faults + 1
          /\ deposit' \in {deposit, [deposit EXCEPT ![j] = "spent"]}
    /\ Abandon(d, actor[d].file)
    /\ UNCHANGED <<number, reserved, minted, aged, revealed, opening, reapTodo,
                   reapPaid, sweepTodo, quoted, crashes>>

\* The node accepts the reveal of the commit this driver broadcast.
SendReveal(d) ==
  LET j == actor[d].job IN
    /\ actor[d].pc = "reveal"
    /\ revealed' = revealed \cup {j}
    /\ actor' = [actor EXCEPT ![d] = At("finish", j, WithReveal(@.file))]
    /\ UNCHANGED <<durable, deposit, opening, processing, reapTodo, reapPaid,
                   sweepTodo, quoted, bounds>>

\* No parent tip, a mempool chain too long, a busy node, or a lost answer.
RevealFails(d) ==
  LET j == actor[d].job IN
    /\ actor[d].pc = "reveal" /\ faults < MaxFaults
    /\ faults' = faults + 1
    /\ revealed' \in {revealed, revealed \cup {j}}
    /\ Abandon(d, actor[d].file)
    /\ UNCHANGED <<number, reserved, minted, aged, deposit, opening, reapTodo,
                   reapPaid, sweepTodo, quoted, crashes>>

\* status 'done', saveJob, confirmMinted, the finally block: one turn.
Finish(d) ==
  LET j == actor[d].job IN
    /\ actor[d].pc = "finish"
    /\ disk' = [disk EXCEPT ![j] = Marked(actor[d].file, "done")]
    /\ IF j \in MintJobs THEN ConfirmMinted(j) ELSE UNCHANGED <<reserved, aged, minted>>
    /\ processing' = processing \ {j}
    /\ actor' = [actor EXCEPT ![d] = Leave(d)]
    /\ UNCHANGED <<number, chain, opening, reapTodo, reapPaid, sweepTodo, quoted, bounds>>

Drive(d) == SendCommit(d) \/ CommitFails(d) \/ SendReveal(d) \/ RevealFails(d) \/ Finish(d)

-----------------------------------------------------------------------------
(* handleJob: a poll.                                                       *)

\* Load the file, look at `processing`, then await listunspent.
PollStart(p, j) ==
  /\ actor[p] = Idle
  /\ disk[j] # None /\ disk[j].status = "awaiting" /\ j \notin processing
  /\ actor' = [actor EXCEPT ![p] = At("ask", j, disk[j])]
  /\ UNCHANGED <<durable, chain, opening, processing, reapTodo, reapPaid,
                 sweepTodo, quoted, bounds>>

\* listunspent has answered: paid in full, so drive the copy loaded before.
PollPaid(p) ==
  /\ actor[p].pc = "ask" /\ deposit[actor[p].job] = "funded"
  /\ processing' = processing \cup {actor[p].job}
  /\ actor' = [actor EXCEPT ![p] = At("commit", @.job, @.file)]
  /\ UNCHANGED <<durable, chain, opening, reapTodo, reapPaid, sweepTodo, quoted, bounds>>

\* Not paid, or the node did not answer: the request ends there.
PollUnpaid(p) ==
  /\ actor[p].pc = "ask"
  /\ \/ deposit[actor[p].job] # "funded" /\ UNCHANGED faults
     \/ deposit[actor[p].job] = "funded" /\ faults < MaxFaults /\ faults' = faults + 1
  /\ actor' = [actor EXCEPT ![p] = Idle]
  /\ UNCHANGED <<durable, chain, opening, processing, reapTodo, reapPaid,
                 sweepTodo, quoted, crashes>>

-----------------------------------------------------------------------------
(* reapMintReservations.                                                    *)

\* staleReservations: the list is taken once, at the start of the cycle.
ReapStart ==
  /\ actor[Reaper] = Idle /\ aged # {}
  /\ reapTodo' = {<<n, reserved[n]>> : n \in aged}
  /\ actor' = [actor EXCEPT ![Reaper] = Resting("look")]
  /\ UNCHANGED <<durable, chain, opening, processing, reapPaid, sweepTodo, quoted, bounds>>

\* The next entry in key order: loadJob, then the checks before the await.
ReapLook ==
  /\ actor[Reaper].pc = "look"
  /\ \E n \in Numbers, j \in MintJobs :
       /\ <<n, j>> \in reapTodo
       /\ \A e \in reapTodo : n <= e[1]
       /\ reapTodo' = reapTodo \ {<<n, j>>}
       /\ \/ /\ disk[j] = None                       \* the job file is gone
             /\ Release(n)
             /\ UNCHANGED actor
          \/ /\ disk[j] # None
             /\ disk[j].status = "done" \/ j \in processing
             /\ UNCHANGED <<reserved, aged, actor>>
          \/ /\ disk[j] # None
             /\ disk[j].status # "done" /\ j \notin processing
             /\ actor' = [actor EXCEPT ![Reaper] = At("ask", j, disk[j])]
             /\ UNCHANGED <<reserved, aged>>
  /\ UNCHANGED <<disk, number, minted, chain, opening, processing, reapPaid,
                 sweepTodo, quoted, bounds>>

\* The verdict on a job that has no deposit to drive: the copy loaded before the
\* await says whether its commit was broadcast.
CommitUnseen(j, f) == ~f.split                         \* (mutant: the deposit ignored)
TrulyUnpaid(j, f) == deposit[j] # "funded" /\ ~f.split

\* listunspent has answered; the verdict reads the copy loaded before it.
ReapAnswer ==
  LET j == actor[Reaper].job
      f == actor[Reaper].file
  IN
    /\ actor[Reaper].pc = "ask"
    /\ \/ /\ deposit[j] = "funded"
          /\ reapPaid' = IF f.attempts < MaxAttempts
                         THEN reapPaid \cup {[id |-> j, file |-> f]} ELSE reapPaid
          /\ UNCHANGED <<reserved, aged, faults>>
       \/ /\ deposit[j] # "funded" /\ f.split         \* stuck after its commit
          /\ UNCHANGED <<reserved, aged, reapPaid, faults>>
       \/ /\ TrulyUnpaid(j, f)
          /\ Release(number[j])
          /\ UNCHANGED <<reapPaid, faults>>
       \/ /\ faults < MaxFaults                       \* no answer: next cycle
          /\ faults' = faults + 1
          /\ UNCHANGED <<reserved, aged, reapPaid>>
    /\ actor' = [actor EXCEPT ![Reaper] = Resting("look")]
    /\ UNCHANGED <<disk, number, minted, chain, opening, processing, reapTodo,
                   sweepTodo, quoted, crashes>>

\* The list is done: drive the least-tried paid job, if there is one.
ReapDrive ==
  /\ actor[Reaper].pc = "look" /\ reapTodo = {}
  /\ \/ /\ reapPaid = {}
        /\ actor' = [actor EXCEPT ![Reaper] = Idle]
        /\ UNCHANGED processing
     \/ \E c \in reapPaid :
        /\ \A x \in reapPaid : c.file.attempts <= x.file.attempts
        /\ processing' = processing \cup {c.id}
        /\ actor' = [actor EXCEPT ![Reaper] = At("commit", c.id, Counted(c.file))]
  /\ reapPaid' = {}
  /\ UNCHANGED <<durable, chain, opening, reapTodo, sweepTodo, quoted, bounds>>

-----------------------------------------------------------------------------
(* driveAbandonedJobs, with the selection of src/jobsweep.js.                *)

\* (mutant: MAX_DRIVE_ATTEMPTS not consulted)
AbandonedUncapped(j) ==
  /\ j \in PlainJobs /\ j \notin processing
  /\ disk[j] # None
  /\ disk[j].status = "awaiting" /\ ~disk[j].split /\ ~disk[j].reveal

\* pickAbandoned's rules, save the money: what one sweep asks the node about.
Abandoned(j) ==
  /\ j \in PlainJobs /\ j \notin processing
  /\ disk[j] # None
  /\ disk[j].status = "awaiting" /\ ~disk[j].split /\ ~disk[j].reveal
  /\ disk[j].attempts < MaxAttempts

\* Every job file is read before the first await.
SweepStart ==
  /\ actor[Sweep] = Idle
  /\ \E j \in Jobs : Abandoned(j)
  /\ sweepTodo' = {[id |-> j, file |-> disk[j]] : j \in {i \in Jobs : Abandoned(i)}}
  /\ actor' = [actor EXCEPT ![Sweep] = Resting("list")]
  /\ UNCHANGED <<durable, chain, opening, processing, reapTodo, reapPaid, quoted, bounds>>

\* The deposits are known: at most SweepLimit of the paid, least-tried first.
SweepList ==
  LET ready == {c \in sweepTodo : deposit[c.id] = "funded" /\ c.id \notin processing} IN
    /\ actor[Sweep].pc = "list"
    /\ \/ /\ sweepTodo' \in SUBSET ready
          /\ \/ sweepTodo' = ready /\ Cardinality(ready) <= SweepLimit
             \/ Cardinality(ready) > SweepLimit /\ Cardinality(sweepTodo') = SweepLimit
          /\ \A c \in sweepTodo', x \in ready \ sweepTodo' : c.file.attempts <= x.file.attempts
          /\ UNCHANGED faults
       \/ /\ faults < MaxFaults                       \* could not read deposits
          /\ faults' = faults + 1
          /\ sweepTodo' = {}
    /\ actor' = [actor EXCEPT ![Sweep] = IF sweepTodo' = {} THEN Idle ELSE Resting("pick")]
    /\ UNCHANGED <<durable, chain, opening, processing, reapTodo, reapPaid, quoted, crashes>>

\* The attempt is counted on disk before it is made, from the copy.
SweepPick(c) ==
  LET f == Counted(c.file) IN
    /\ actor[Sweep].pc = "pick" /\ c \in sweepTodo
    /\ \A x \in sweepTodo : c.file.attempts <= x.file.attempts
    /\ sweepTodo' = sweepTodo \ {c}
    /\ disk' = [disk EXCEPT ![c.id] = f]
    /\ processing' = processing \cup {c.id}
    /\ actor' = [actor EXCEPT ![Sweep] = At("commit", c.id, f)]
    /\ UNCHANGED <<number, reserved, minted, aged, chain, opening, reapTodo, reapPaid,
                   quoted, bounds>>

-----------------------------------------------------------------------------
(* cleanupJobs, and the crash of the process.                               *)

\* A finished file goes after a week, an unfinished one after thirty days.  The
\* reaper has had thousands of cycles by then, so a reservation that is still
\* held is one it keeps: delivered but unconfirmed, past its commit, or paid and
\* out of attempts.  A job that holds none may be paid or driven up to the end.
KeptByReaper(j) ==
  \/ disk[j].status = "done" \/ disk[j].split
  \/ deposit[j] = "funded" /\ disk[j].attempts = MaxAttempts

Cleanup(j) ==
  /\ disk[j] # None
  /\ \A n \in Numbers : reserved[n] = j => n \in aged /\ KeptByReaper(j)
  /\ disk' = [disk EXCEPT ![j] = None]
  /\ UNCHANGED <<number, reserved, minted, aged, chain, volatile, quoted, bounds>>

Restart ==
  /\ crashes < MaxCrashes /\ crashes' = crashes + 1
  /\ opening' = {} /\ processing' = {}
  /\ actor' = [d \in Drivers |-> Idle]
  /\ reapTodo' = {} /\ reapPaid' = {} /\ sweepTodo' = {}
  /\ UNCHANGED <<chain, quoted, faults>>

Crash == Restart /\ UNCHANGED durable

\* saveJob rewrites the file in place: a crash inside it leaves a file that
\* loadJob cannot parse.  One after it leaves the mint unconfirmed.
CrashInSave(d) ==
  LET j == actor[d].job IN
    /\ Driving(d) /\ (d = Sweep => actor[d].pc = "finish")
    /\ Restart
    /\ \/ disk' = [disk EXCEPT ![j] = None]
       \/ /\ actor[d].pc = "finish"
          /\ disk' = [disk EXCEPT ![j] = Marked(actor[d].file, "done")]
    /\ UNCHANGED <<number, reserved, minted, aged>>

\* The same crash while the sweep counts an attempt.
CrashInPick(c) ==
  /\ actor[Sweep].pc = "pick" /\ c \in sweepTodo
  /\ Restart
  /\ disk' = [disk EXCEPT ![c.id] = None]
  /\ UNCHANGED <<number, reserved, minted, aged>>

-----------------------------------------------------------------------------
Reap    == ReapStart \/ ReapLook \/ ReapAnswer \/ ReapDrive \/ Drive(Reaper)
SweepUp == SweepStart \/ SweepList \/ (\E c \in sweepTodo : SweepPick(c)) \/ Drive(Sweep)
Answer(p) == PollPaid(p) \/ PollUnpaid(p) \/ Drive(p)

Next ==
  \/ \E j \in MintJobs : MintReserve(j) \/ MintQuote(j) \/ MintFails(j)
  \/ \E j \in PlainJobs : PlainQuote(j)
  \/ \E j \in Jobs : Pay(j)
  \/ \E n \in Numbers : Age(n)
  \/ \E p \in Polls, j \in Jobs : PollStart(p, j)
  \/ \E p \in Polls : Answer(p)
  \/ Reap
  \/ SweepUp
  \/ \E j \in Jobs : Cleanup(j)
  \/ Crash
  \/ \E d \in Drivers : CrashInSave(d)
  \/ \E c \in sweepTodo : CrashInPick(c)

\* A request once made is answered (every RPC has a timeout), the two timers
\* keep firing, and half an hour passes.  Nobody has to poll, pay or crash.
Fairness ==
  /\ \A p \in Polls : WF_vars(Answer(p))
  /\ WF_vars(Reap) /\ WF_vars(SweepUp)
  /\ \A n \in Numbers : WF_vars(Age(n))

Spec == Init /\ [][Next]_vars
FairSpec == Spec /\ Fairness
-----------------------------------------------------------------------------
(* What the pipeline keeps, however its drivers interleave.                  *)

\* A job file and the mint ledger never claim more than the chain holds: a
\* recorded commit or reveal was accepted by the node, a job reported done is
\* inscribed, a number recorded as minted is the one its job inscribed.  Every
\* save writes a copy that may be older than the file (server.js:3558-3615).
DiskTellsTruth ==
  /\ \A j \in Jobs : disk[j] # None =>
       /\ disk[j].split => Committed(j)
       /\ disk[j].reveal => j \in revealed
       /\ disk[j].status = "done" => j \in revealed
  /\ \A n \in Numbers : minted[n] # None => minted[n] \in revealed /\ number[minted[n]] = n

\* No number is counted twice by remaining(), which subtracts the minted and the
\* reserved from the supply, and a reservation belongs to the one job that was
\* given that number, although release and confirmMinted go by number alone.
LedgerSound ==
  \A n \in Numbers : reserved[n] # None => minted[n] = None /\ number[reserved[n]] = n

\* A job marked as being processed has a driver that will unmark it: no lost
\* finally block leaves a paid job answering "funding" for ever.
NoLeakedLock == \A j \in processing : \E d \in Drivers : Driving(d) /\ actor[d].job = j

\* While its deposit sits unspent and its job file exists, a paid job's number is
\* never returned to the pool, however late the reaper's answer arrives.
FundedNumberNeverFreed ==
  [][\A n \in Numbers :
       reserved[n] # None /\ reserved'[n] = None /\ minted'[n] = minted[n] =>
         deposit[reserved[n]] # "funded" \/ disk[reserved[n]] = None]_vars

\* A deposit paid for a plain inscription whose buyer closed the tab does not sit
\* for ever: the job is committed, or tried as often as it may be, or marked
\* failed in front of a watching buyer, or its file is gone (server.js:3392-3453).
AbandonedArePickedUp ==
  \A j \in PlainJobs :
    deposit[j] = "funded" ~>
      \/ Committed(j)
      \/ disk[j] = None
      \/ disk[j].status = "error" \/ disk[j].attempts = MaxAttempts

\* The same for a paid mint that still holds its number: the reaper takes one job
\* a cycle, so a job that keeps failing must not starve the ones behind it.
PaidMintsAreDriven ==
  \A j \in MintJobs :
    deposit[j] = "funded" ~>
      \/ Committed(j)
      \/ disk[j] = None \/ disk[j].attempts = MaxAttempts
      \/ \A n \in Numbers : reserved[n] # j

-----------------------------------------------------------------------------
(* What comments and tests of the repository say, and the code does not do.  *)

\* server.js:3532, on `processing`: "Per-job processing mutex so concurrent polls
\* don't double-broadcast the commit/reveal": one driver at a time for a job.
OneDriverPerJob ==
  \A d, e \in Drivers : Driving(d) /\ Driving(e) /\ actor[d].job = actor[e].job => d = e

\* test/reaper.test.js:47: "a paid job whose commit already spent the deposit is
\* NEVER released".
CommittedNumberNeverFreed ==
  [][\A n \in Numbers :
       reserved[n] # None /\ reserved'[n] = None /\ minted'[n] = minted[n] =>
         ~Committed(reserved[n])]_vars

\* server.js:3617, on confirmMinted: "lock the number in as permanently minted now
\* that the reveal is broadcast (it can never be assigned again)".
NumberInscribedOnce ==
  \A i, j \in revealed \cap MintJobs : number[i] = number[j] => i = j

=============================================================================
