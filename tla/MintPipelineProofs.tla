------------------------- MODULE MintPipelineProofs -------------------------
(***************************************************************************)
(* Theorems about MintPipeline, for every number of jobs, polls, numbers,    *)
(* attempts, crashes and faults.                                            *)
(***************************************************************************)
EXTENDS MintPipeline, TLAPS

\* What makes the invariants inductive.  A driver's copy of a job file is older
\* than the file, but no older truth stops being one: the chain only grows.
Truth(j, f) ==
  /\ f.split => Committed(j)
  /\ f.reveal => j \in revealed
  /\ f.status = "done" => j \in revealed

FilesTrue == \A j \in Jobs : disk[j] # None => Truth(j, disk[j])
CopiesTrue ==
  \A d \in Drivers : Holding(d) =>
    /\ Truth(actor[d].job, actor[d].file)
    /\ actor[d].pc = "finish" => actor[d].job \in revealed
BatchesTrue ==
  \A c \in reapPaid \cup sweepTodo : Truth(c.id, c.file) /\ c.file.attempts < MaxAttempts
MintsTrue ==
  \A n \in Numbers : minted[n] # None => minted[n] \in revealed /\ number[minted[n]] = n
AgedHeld == \A n \in aged : reserved[n] # None /\ reserved[n] \notin opening

\* A reservation that somebody means to release is still the one they looked at,
\* or its number has been minted meanwhile (by a buyer who paid late).
StillOwn(n, j) == number[j] = n /\ (reserved[n] = j \/ minted[n] # None)
EntriesOwn ==
  \A n \in Numbers, j \in MintJobs :
    <<n, j>> \in reapTodo => StillOwn(n, j) /\ j \notin opening
AskedOwn ==
  actor[Reaper].pc = "ask" =>
    /\ actor[Reaper].job \in MintJobs \ opening
    /\ number[actor[Reaper].job] \in Numbers
    /\ StillOwn(number[actor[Reaper].job], actor[Reaper].job)
    /\ <<number[actor[Reaper].job], actor[Reaper].job>> \notin reapTodo
OpeningOwn ==
  \A j \in opening : number[j] \in Numbers /\ StillOwn(number[j], j) /\ j \notin quoted
QuotedNumbered == \A j \in MintJobs \cap (quoted \cup opening) : number[j] # None
UnquotedUnpaid == \A j \in Jobs \ quoted : deposit[j] = "empty"

Truths   == FilesTrue /\ CopiesTrue /\ BatchesTrue
Ledger   == MintsTrue /\ LedgerSound /\ AgedHeld
Releases == EntriesOwn /\ AskedOwn /\ OpeningOwn /\ QuotedNumbered /\ UnquotedUnpaid
IInv     == TypeOK /\ Truths /\ Ledger /\ Releases /\ NoLeakedLock

-----------------------------------------------------------------------------
\* The sets of the module, so that the proofs below need not open them.
LEMMA Sorts ==
  /\ MintJobs \subseteq Jobs /\ PlainJobs \subseteq Jobs /\ MintJobs \cap PlainJobs = {}
  /\ None \notin Jobs /\ None \notin MintJobs /\ None \notin Numbers
  /\ Polls \subseteq Drivers /\ Reaper \in Drivers /\ Sweep \in Drivers
  /\ Reaper # Sweep /\ Reaper \notin Polls /\ Sweep \notin Polls
  /\ \A n \in Numbers : n \in Nat
  /\ MaxAttempts \in Nat /\ MaxCrashes \in Nat /\ MaxFaults \in Nat
  BY PipelineAssumption DEF Jobs, Numbers, Drivers

\* A new job file claims no transaction.
LEMMA FirstFile == NewFile \in JobFile /\ ~NewFile.split /\ ~NewFile.reveal /\ NewFile.status # "done"
  BY PipelineAssumption DEF NewFile, JobFile

-----------------------------------------------------------------------------
\* What the drivers' assignments do to a job file.
LEMMA FileEdits ==
  ASSUME NEW f \in JobFile
  PROVE  /\ \A s \in {"awaiting", "error", "done"} :
              /\ Marked(f, s) \in JobFile /\ Marked(f, s).status = s
              /\ Marked(f, s).split = f.split /\ Marked(f, s).reveal = f.reveal
         /\ WithSplit(f) \in JobFile /\ WithSplit(f).split
         /\ WithSplit(f).status = f.status /\ WithSplit(f).reveal = f.reveal
         /\ WithReveal(f) \in JobFile /\ WithReveal(f).reveal
         /\ WithReveal(f).status = f.status /\ WithReveal(f).split = f.split
  BY DEF JobFile, Marked, WithSplit, WithReveal

\* Counting an attempt changes the counter only, and keeps it within its limit.
LEMMA CountedFile ==
  ASSUME NEW f \in JobFile, f.attempts < MaxAttempts
  PROVE  /\ Counted(f) \in JobFile
         /\ Counted(f).status = f.status
         /\ Counted(f).split = f.split /\ Counted(f).reveal = f.reveal
  BY PipelineAssumption DEF JobFile, Counted

-----------------------------------------------------------------------------
\* Every variable keeps its type: in particular an attempt counter never passes
\* MAX_DRIVE_ATTEMPTS, and every driver that holds a job holds a whole file.
LEMMA TypeStep == IInv /\ [Next]_vars => TypeOK'
<1> SUFFICES ASSUME IInv, [Next]_vars PROVE TypeOK'
  OBVIOUS
<1> USE Sorts DEF IInv, TypeOK, Actor, Holding, Driving, durable, chain, volatile, bounds
<1>1. ASSUME NEW j \in MintJobs, MintReserve(j) PROVE TypeOK'
  BY <1>1 DEF MintReserve, Free
<1>2. ASSUME NEW j \in MintJobs, MintQuote(j) PROVE TypeOK'
  BY <1>2, FirstFile DEF MintQuote
<1>3. ASSUME NEW j \in MintJobs, MintFails(j) PROVE TypeOK'
  BY <1>3 DEF MintFails, Release, Releases, OpeningOwn
<1>4. ASSUME NEW j \in PlainJobs, PlainQuote(j) PROVE TypeOK'
  BY <1>4, FirstFile DEF PlainQuote
<1>5. ASSUME NEW j \in Jobs, Pay(j) PROVE TypeOK'
  BY <1>5 DEF Pay
<1>6. ASSUME NEW n \in Numbers, Age(n) PROVE TypeOK'
  BY <1>6 DEF Age
<1>7. ASSUME NEW p \in Polls, NEW j \in Jobs, PollStart(p, j) PROVE TypeOK'
  BY <1>7 DEF PollStart, Idle, At
<1>8. ASSUME NEW p \in Polls, PollPaid(p) PROVE TypeOK'
  BY <1>8 DEF PollPaid, At
<1>9. ASSUME NEW p \in Polls, PollUnpaid(p) PROVE TypeOK'
  BY <1>9 DEF PollUnpaid, Idle
<1>10. ASSUME ReapStart PROVE TypeOK'
  <2>1. reapTodo' \subseteq Numbers \X MintJobs
    BY <1>10 DEF ReapStart, Ledger, AgedHeld
  <2> QED BY <1>10, <2>1 DEF ReapStart, Resting, At, Idle
<1>11. ASSUME ReapLook PROVE TypeOK'
  BY <1>11 DEF ReapLook, Release, At
<1>12. ASSUME ReapAnswer PROVE TypeOK'
  BY <1>12 DEF ReapAnswer, TrulyUnpaid, Release, Resting, At, Copy
<1>13. ASSUME ReapDrive PROVE TypeOK'
  BY <1>13, CountedFile DEF ReapDrive, Idle, At, Copy, Truths, BatchesTrue
<1>14. ASSUME SweepStart PROVE TypeOK'
  BY <1>14 DEF SweepStart, Abandoned, Resting, At, Copy, Idle
<1>15. ASSUME SweepList PROVE TypeOK'
  BY <1>15 DEF SweepList, Resting, At, Idle
<1>16. ASSUME NEW c \in sweepTodo, SweepPick(c) PROVE TypeOK'
  BY <1>16, CountedFile DEF SweepPick, At, Copy, Truths, BatchesTrue
<1>17. ASSUME NEW d \in Drivers, SendCommit(d) PROVE TypeOK'
  BY <1>17, FileEdits DEF SendCommit, At
<1>18. ASSUME NEW d \in Drivers, CommitFails(d) PROVE TypeOK'
  BY <1>18, FileEdits DEF CommitFails, Abandon, Leave, Resting, At, Idle
<1>19. ASSUME NEW d \in Drivers, SendReveal(d) PROVE TypeOK'
  BY <1>19, FileEdits DEF SendReveal, At
<1>20. ASSUME NEW d \in Drivers, RevealFails(d) PROVE TypeOK'
  BY <1>20, FileEdits DEF RevealFails, Abandon, Leave, Resting, At, Idle
<1>21. ASSUME NEW d \in Drivers, Finish(d) PROVE TypeOK'
  BY <1>21, FileEdits DEF Finish, ConfirmMinted, Leave, Resting, At, Idle
<1>22. ASSUME NEW j \in Jobs, Cleanup(j) PROVE TypeOK'
  BY <1>22 DEF Cleanup
<1>23. ASSUME Crash PROVE TypeOK'
  BY <1>23 DEF Crash, Restart, Idle
<1>24. ASSUME NEW d \in Drivers, CrashInSave(d) PROVE TypeOK'
  BY <1>24, FileEdits DEF CrashInSave, Restart, Idle
<1>25. ASSUME NEW c \in sweepTodo, CrashInPick(c) PROVE TypeOK'
  BY <1>25 DEF CrashInPick, Restart, Idle, Copy
<1>26. CASE UNCHANGED vars
  BY <1>26 DEF vars
<1> QED BY <1>1, <1>2, <1>3, <1>4, <1>5, <1>6, <1>7, <1>8, <1>9, <1>10, <1>11, <1>12, <1>13,
           <1>14, <1>15, <1>16, <1>17, <1>18, <1>19, <1>20, <1>21, <1>22, <1>23, <1>24, <1>25,
           <1>26
        DEF Next, Answer, Reap, SweepUp, Drive

-----------------------------------------------------------------------------
\* The chain only grows, a job keeps its number, and a minted number stays so.
LEMMA Monotone ==
  ASSUME TypeOK, [Next]_vars
  PROVE  /\ revealed \subseteq revealed'
         /\ \A j \in Jobs : Committed(j) => Committed(j)'
         /\ \A j \in Jobs : number[j] # None => number'[j] = number[j]
         /\ \A n \in Numbers : minted[n] # None => minted'[n] # None
<1> USE Sorts DEF TypeOK, Committed
<1>1. ASSUME NEW j \in MintJobs, MintReserve(j) \/ MintQuote(j) \/ MintFails(j)
      PROVE  UNCHANGED <<chain, minted>> /\ \A i \in Jobs : number[i] # None => number'[i] = number[i]
  BY <1>1 DEF MintReserve, MintQuote, MintFails, chain
<1>2. ASSUME NEW d \in Drivers, Drive(d) PROVE UNCHANGED number
  BY <1>2 DEF Drive, SendCommit, CommitFails, SendReveal, RevealFails, Finish, durable
<1>3. ASSUME NEW d \in Drivers, Drive(d) PROVE revealed \subseteq revealed'
  BY <1>3 DEF Drive, SendCommit, CommitFails, SendReveal, RevealFails, Finish, chain
<1>4. ASSUME NEW d \in Drivers, Drive(d) PROVE \A j \in Jobs : Committed(j) => Committed(j)'
  BY <1>4 DEF Drive, SendCommit, CommitFails, SendReveal, RevealFails, Finish, chain
<1>5. ASSUME NEW d \in Drivers, Drive(d)
      PROVE  \A n \in Numbers : minted[n] # None => minted'[n] # None
  BY <1>5 DEF Drive, SendCommit, CommitFails, SendReveal, RevealFails, Finish,
              ConfirmMinted, durable, Holding
<1>6. ASSUME NEW j \in Jobs, Pay(j)
      PROVE  UNCHANGED <<number, minted, revealed>> /\ \A i \in Jobs : Committed(i) => Committed(i)'
  BY <1>6 DEF Pay, durable
<1>7. \/ \E j \in MintJobs : MintReserve(j) \/ MintQuote(j) \/ MintFails(j)
      \/ \E d \in Drivers : Drive(d)
      \/ \E j \in Jobs : Pay(j)
      \/ UNCHANGED <<number, minted, chain>>
  BY DEF Next, Answer, Reap, SweepUp, PlainQuote, Age, PollStart, PollPaid, PollUnpaid,
         ReapStart, ReapLook, ReapAnswer, ReapDrive, SweepStart, SweepList, SweepPick,
         Cleanup, Crash, CrashInSave, CrashInPick, Restart, vars, durable
<1> QED BY <1>1, <1>2, <1>3, <1>4, <1>5, <1>6, <1>7 DEF chain

-----------------------------------------------------------------------------
\* A true claim about a job stays true, so a copy does not become false with age.
LEMMA TruthStays ==
  ASSUME TypeOK, [Next]_vars
  PROVE  \A j \in Jobs, f \in JobFile : Truth(j, f) => Truth(j, f)'
  BY Monotone DEF Truth

\* No save writes a file that claims more than the chain holds, although the
\* copy it writes may be older than the file it replaces.
LEMMA TruthsStep == IInv /\ [Next]_vars => Truths'
<1> SUFFICES ASSUME IInv, [Next]_vars PROVE Truths'
  OBVIOUS
<1> USE Sorts DEF IInv, Truths, FilesTrue, CopiesTrue, BatchesTrue, Truth, TypeOK, Holding, Driving,
               Copy, durable, chain, volatile, bounds
<1>0. \A j \in Jobs, f \in JobFile : Truth(j, f) => Truth(j, f)'
  BY TruthStays
<1> USE <1>0
<1>1. ASSUME NEW j \in MintJobs, MintReserve(j) PROVE Truths'
  BY <1>1 DEF MintReserve, Free
<1>2. ASSUME NEW j \in MintJobs, MintQuote(j) PROVE Truths'
  BY <1>2, FirstFile DEF MintQuote
<1>3. ASSUME NEW j \in MintJobs, MintFails(j) PROVE Truths'
  BY <1>3 DEF MintFails, Release
<1>4. ASSUME NEW j \in PlainJobs, PlainQuote(j) PROVE Truths'
  BY <1>4, FirstFile DEF PlainQuote
<1>5. ASSUME NEW j \in Jobs, Pay(j) PROVE Truths'
  BY <1>5 DEF Pay
<1>6. ASSUME NEW n \in Numbers, Age(n) PROVE Truths'
  BY <1>6 DEF Age
<1>7. ASSUME NEW p \in Polls, NEW j \in Jobs, PollStart(p, j) PROVE Truths'
  BY <1>7 DEF PollStart, Idle, At
<1>8. ASSUME NEW p \in Polls, PollPaid(p) PROVE Truths'
  BY <1>8 DEF PollPaid, At
<1>9. ASSUME NEW p \in Polls, PollUnpaid(p) PROVE Truths'
  BY <1>9 DEF PollUnpaid, Idle
<1>10. ASSUME ReapStart PROVE Truths'
  BY <1>10 DEF ReapStart, Resting, At, Idle
<1>11. ASSUME ReapLook PROVE Truths'
  BY <1>11 DEF ReapLook, Release, At
<1>12. ASSUME ReapAnswer PROVE Truths'
  BY <1>12 DEF ReapAnswer, TrulyUnpaid, Release, Resting, At
<1>13. ASSUME ReapDrive PROVE Truths'
  BY <1>13, CountedFile DEF ReapDrive, Idle, At
<1>14. ASSUME SweepStart PROVE Truths'
  BY <1>14 DEF SweepStart, Abandoned, Resting, At
<1>15. ASSUME SweepList PROVE Truths'
  BY <1>15 DEF SweepList, Resting, At, Idle
<1>16. ASSUME NEW c \in sweepTodo, SweepPick(c) PROVE Truths'
  BY <1>16, CountedFile DEF SweepPick, At
<1>17. ASSUME NEW d \in Drivers, SendCommit(d) PROVE Truths'
  BY <1>17, FileEdits DEF Committed, SendCommit, At
<1>18. ASSUME NEW d \in Drivers, CommitFails(d) PROVE Truths'
  BY <1>18, FileEdits DEF CommitFails, Abandon, Leave, Resting, At, Idle
<1>19. ASSUME NEW d \in Drivers, SendReveal(d) PROVE Truths'
  BY <1>19, FileEdits DEF SendReveal, At
<1>20. ASSUME NEW d \in Drivers, RevealFails(d) PROVE Truths'
  BY <1>20, FileEdits DEF RevealFails, Abandon, Leave, Resting, At, Idle
<1>21. ASSUME NEW d \in Drivers, Finish(d) PROVE Truths'
  BY <1>21, FileEdits DEF Finish, ConfirmMinted, Leave, Resting, At, Idle
<1>22. ASSUME NEW j \in Jobs, Cleanup(j) PROVE Truths'
  BY <1>22 DEF Cleanup
<1>23. ASSUME Crash PROVE Truths'
  BY <1>23 DEF Crash, Restart, Idle
<1>24. ASSUME NEW d \in Drivers, CrashInSave(d) PROVE Truths'
  BY <1>24, FileEdits DEF CrashInSave, Restart, Idle
<1>25. ASSUME NEW c \in sweepTodo, CrashInPick(c) PROVE Truths'
  BY <1>25 DEF CrashInPick, Restart, Idle
<1>26. CASE UNCHANGED vars
  BY <1>26 DEF vars
<1> QED BY <1>1, <1>2, <1>3, <1>4, <1>5, <1>6, <1>7, <1>8, <1>9, <1>10, <1>11, <1>12, <1>13,
           <1>14, <1>15, <1>16, <1>17, <1>18, <1>19, <1>20, <1>21, <1>22, <1>23, <1>24, <1>25,
           <1>26
        DEF Next, Answer, Reap, SweepUp, Drive

-----------------------------------------------------------------------------
\* The number ledger: the six steps that touch it, and all the others.
LEMMA LedgerStep == IInv /\ [Next]_vars => Ledger'
<1> SUFFICES ASSUME IInv, [Next]_vars PROVE Ledger'
  OBVIOUS
<1> USE Sorts DEF IInv, Ledger, MintsTrue, LedgerSound, AgedHeld, TypeOK
<1>0. revealed \subseteq revealed'
  BY Monotone
<1>1. ASSUME NEW j \in MintJobs, MintReserve(j) PROVE Ledger'
  <2>1. \A n \in Numbers : reserved[n] # None => reserved[n] # j /\ reserved'[n] = reserved[n]
    BY <1>1 DEF MintReserve, Free
  <2>2. MintsTrue'
    BY <1>1 DEF MintReserve, Free, chain
  <2>3. LedgerSound'
    BY <1>1 DEF MintReserve, Free
  <2>4. AgedHeld'
    BY <1>1, <2>1 DEF MintReserve, Free
  <2> QED BY <2>2, <2>3, <2>4
<1>2. ASSUME NEW j \in MintJobs, MintFails(j) PROVE Ledger'
  BY <1>0, <1>2 DEF MintFails, Release
<1>3. ASSUME NEW n \in Numbers, Age(n) PROVE Ledger'
  BY <1>0, <1>3 DEF Age, volatile
<1>4. ASSUME ReapLook PROVE Ledger'
  BY <1>0, <1>4 DEF ReapLook, Release
<1>5. ASSUME ReapAnswer PROVE Ledger'
  BY <1>0, <1>5 DEF ReapAnswer, TrulyUnpaid, Release
<1>6. ASSUME NEW d \in Drivers, Finish(d) PROVE Ledger'
  BY <1>0, <1>6 DEF Finish, ConfirmMinted, Truths, CopiesTrue, Holding, Driving
<1>7. CASE UNCHANGED <<number, reserved, minted, aged>> /\ opening' \subseteq opening
  BY <1>0, <1>7
<1>8. \/ \E j \in MintJobs : MintReserve(j) \/ MintFails(j)
      \/ \E n \in Numbers : Age(n)
      \/ ReapLook \/ ReapAnswer
      \/ \E d \in Drivers : Finish(d)
      \/ UNCHANGED <<number, reserved, minted, aged>> /\ opening' \subseteq opening
  BY DEF Next, Answer, Reap, SweepUp, Drive, MintQuote, PlainQuote, Pay, PollStart, PollPaid,
         PollUnpaid, ReapStart, ReapDrive, SweepStart, SweepList, SweepPick, SendCommit,
         CommitFails, SendReveal, RevealFails, Cleanup, Crash, CrashInSave, CrashInPick,
         Restart, vars, durable, volatile
<1> QED BY <1>1, <1>2, <1>3, <1>4, <1>5, <1>6, <1>7, <1>8

\* A job marked as being processed keeps a driver, or loses its mark.
LEMMA LockStep == IInv /\ [Next]_vars => NoLeakedLock'
<1> SUFFICES ASSUME IInv, [Next]_vars PROVE NoLeakedLock'
  OBVIOUS
<1> USE Sorts DEF IInv, NoLeakedLock, TypeOK, Actor, Driving
<1>1. ASSUME NEW p \in Polls, NEW j \in Jobs, PollStart(p, j) PROVE NoLeakedLock'
  BY <1>1 DEF PollStart, At, Idle
<1>2. ASSUME NEW p \in Polls, PollPaid(p) PROVE NoLeakedLock'
  BY <1>2 DEF PollPaid, At
<1>3. ASSUME NEW p \in Polls, PollUnpaid(p) PROVE NoLeakedLock'
  BY <1>3 DEF PollUnpaid, Idle
<1>4. ASSUME ReapStart PROVE NoLeakedLock'
  BY <1>4 DEF ReapStart, At, Resting, Idle
<1>13. ASSUME ReapLook PROVE NoLeakedLock'
  BY <1>13 DEF ReapLook, At
<1>14. ASSUME ReapAnswer PROVE NoLeakedLock'
  BY <1>14 DEF ReapAnswer, At, Resting
<1>5. ASSUME ReapDrive PROVE NoLeakedLock'
  BY <1>5 DEF ReapDrive, At, Idle, Copy
<1>6. ASSUME SweepStart \/ SweepList PROVE NoLeakedLock'
  BY <1>6 DEF SweepStart, SweepList, At, Resting, Idle
<1>7. ASSUME NEW c \in sweepTodo, SweepPick(c) PROVE NoLeakedLock'
  BY <1>7 DEF SweepPick, At, Copy
<1>8. ASSUME NEW d \in Drivers, SendCommit(d) \/ SendReveal(d) PROVE NoLeakedLock'
  BY <1>8 DEF SendCommit, SendReveal, At
<1>9. ASSUME NEW d \in Drivers, CommitFails(d) \/ RevealFails(d) \/ Finish(d) PROVE NoLeakedLock'
  BY <1>9 DEF CommitFails, RevealFails, Finish, Abandon
<1>10. ASSUME Restart PROVE NoLeakedLock'
  BY <1>10 DEF Restart
<1>11. CASE UNCHANGED <<processing, actor>>
  BY <1>11
<1>12. \/ \E j \in MintJobs : MintReserve(j) \/ MintQuote(j) \/ MintFails(j)
       \/ \E j \in PlainJobs : PlainQuote(j)
       \/ \E j \in Jobs : Pay(j) \/ Cleanup(j)
       \/ (\E n \in Numbers : Age(n))
       \/ UNCHANGED vars
       => UNCHANGED <<processing, actor>>
  BY DEF MintReserve, MintQuote, MintFails, PlainQuote, Pay, Age, Cleanup, vars, volatile
<1> QED BY <1>1, <1>2, <1>3, <1>4, <1>5, <1>6, <1>7, <1>8, <1>9, <1>10, <1>11, <1>12, <1>13, <1>14
        DEF Next, Answer, Reap, SweepUp, Drive, Crash, CrashInSave, CrashInPick

-----------------------------------------------------------------------------
\* What is about to be released is still the releaser's: a reservation made
\* between a driver's read and its release would have needed the number free.
LEMMA ReleasesStep == IInv /\ [Next]_vars => Releases'
<1> SUFFICES ASSUME IInv, [Next]_vars PROVE Releases'
  OBVIOUS
<1> USE Sorts DEF IInv, Releases, EntriesOwn, AskedOwn, OpeningOwn, QuotedNumbered, UnquotedUnpaid, StillOwn,
               Ledger, MintsTrue, LedgerSound, AgedHeld, TypeOK
<1>1. ASSUME NEW j \in MintJobs, MintReserve(j) PROVE Releases'
  BY <1>1 DEF MintReserve, Free, chain
<1>2. ASSUME NEW j \in MintJobs, MintQuote(j) PROVE Releases'
  BY <1>2 DEF MintQuote, chain
<1>3. ASSUME NEW j \in MintJobs, MintFails(j) PROVE Releases'
  BY <1>3 DEF MintFails, Release, chain
<1>4. ASSUME NEW j \in PlainJobs, PlainQuote(j) PROVE Releases'
  BY <1>4 DEF PlainQuote, durable, chain, volatile
<1>5. ASSUME NEW j \in Jobs, Pay(j) PROVE Releases'
  BY <1>5 DEF Pay, durable, volatile
<1>6. ASSUME NEW n \in Numbers, Age(n) PROVE Releases'
  BY <1>6 DEF Age, chain, volatile
<1>7. ASSUME NEW p \in Polls, NEW j \in Jobs, PollStart(p, j) PROVE Releases'
  BY <1>7 DEF PollStart, durable, chain
<1>8. ASSUME NEW p \in Polls, PollPaid(p) \/ PollUnpaid(p) PROVE Releases'
  BY <1>8 DEF PollPaid, PollUnpaid, durable, chain
<1>9. ASSUME ReapStart PROVE Releases'
  BY <1>9 DEF ReapStart, At, Resting, durable, chain
<1>10. ASSUME ReapLook PROVE Releases'
  BY <1>10 DEF ReapLook, Release, At, chain
<1>11. ASSUME ReapAnswer PROVE Releases'
  BY <1>11 DEF ReapAnswer, TrulyUnpaid, Release, At, Resting, chain
<1>12. ASSUME ReapDrive PROVE Releases'
  BY <1>12 DEF ReapDrive, At, Idle, durable, chain
<1>13. ASSUME SweepStart \/ SweepList \/ \E c \in sweepTodo : SweepPick(c) PROVE Releases'
  BY <1>13 DEF SweepStart, SweepList, SweepPick, durable, chain
<1>14. ASSUME NEW d \in Drivers, SendCommit(d) PROVE Releases'
  BY <1>14 DEF SendCommit, At, durable
<1>15. ASSUME NEW d \in Drivers, CommitFails(d) PROVE Releases'
  BY <1>15 DEF CommitFails, Abandon, Leave, Resting, At, Idle
<1>16. ASSUME NEW d \in Drivers, SendReveal(d) PROVE Releases'
  BY <1>16 DEF SendReveal, At, durable
<1>17. ASSUME NEW d \in Drivers, RevealFails(d) PROVE Releases'
  BY <1>17 DEF RevealFails, Abandon, Leave, Resting, At, Idle
<1>18. ASSUME NEW d \in Drivers, Finish(d) PROVE Releases'
  BY <1>18 DEF Finish, ConfirmMinted, Leave, Resting, At, Idle, chain
<1>19. ASSUME NEW j \in Jobs, Cleanup(j) PROVE Releases'
  BY <1>19 DEF Cleanup, chain, volatile
<1>20. ASSUME Restart, UNCHANGED <<number, reserved, minted, aged>> PROVE Releases'
  BY <1>20 DEF Restart, Idle, chain
<1>21. CASE UNCHANGED vars
  BY <1>21 DEF vars, durable, chain, volatile
<1> QED BY <1>1, <1>2, <1>3, <1>4, <1>5, <1>6, <1>7, <1>8, <1>9, <1>10, <1>11, <1>12, <1>13,
           <1>14, <1>15, <1>16, <1>17, <1>18, <1>19, <1>20, <1>21
        DEF Next, Answer, Reap, SweepUp, Drive, Crash, CrashInSave, CrashInPick, durable

-----------------------------------------------------------------------------
\* Before the first request there is nothing on disk, and the invariant holds.
LEMMA Start == Init => IInv
  BY Sorts DEF Init, IInv, TypeOK, Truths, FilesTrue, CopiesTrue, BatchesTrue, Ledger, MintsTrue,
     LedgerSound, AgedHeld, Releases, EntriesOwn, AskedOwn, OpeningOwn, QuotedNumbered, UnquotedUnpaid,
     NoLeakedLock, Holding, Driving, Idle, Actor

\* The inductive invariant holds for any jobs, drivers, supply and limits: whatever
\* polls, reaper, sweep, buyers, cleanups and crashes do, each file and each copy of
\* one claims only what the node has accepted (server.js:3532-3631, mint.js:200-258).
THEOREM Inductive == Spec => []IInv
<1>1. IInv /\ [Next]_vars => IInv'
  BY TypeStep, TruthsStep, LedgerStep, ReleasesStep, LockStep DEF IInv
<1> QED BY Start, <1>1, PTL DEF Spec

\* Every variable keeps its type: in particular no attempt counter passes
\* MAX_DRIVE_ATTEMPTS (server.js:3280), whichever copy of the file it was in.
THEOREM TypeCorrect == Spec => []TypeOK
  BY Inductive, PTL DEF IInv

\* No job file and no entry of the mint ledger claims more than the chain holds,
\* for any number of drivers saving stale copies over one another.
THEOREM Truthful == Spec => []DiskTellsTruth
<1>1. IInv => DiskTellsTruth
  BY DEF IInv, Truths, FilesTrue, Truth, Ledger, MintsTrue, DiskTellsTruth
<1> QED BY Inductive, <1>1, PTL

\* A number is never both minted and reserved, and is only ever reserved by the
\* job that was given it, although mint.js releases and confirms by number.
THEOREM LedgerCorrect == Spec => []LedgerSound
<1>1. IInv => LedgerSound
  BY DEF IInv, Ledger
<1> QED BY Inductive, <1>1, PTL

\* Whatever fails and whoever crashes, a job in `processing` has a driver.
THEOREM LockFreed == Spec => []NoLeakedLock
<1>1. IInv => NoLeakedLock
  BY DEF IInv
<1> QED BY Inductive, <1>1, PTL

\* The number of a paid, uncommitted job that still has its file stays reserved,
\* through every late answer, stale copy and crash.
THEOREM FundedKept == Spec => FundedNumberNeverFreed
<1> DEFINE Kept == \A n \in Numbers :
       reserved[n] # None /\ reserved'[n] = None /\ minted'[n] = minted[n] =>
         deposit[reserved[n]] # "funded" \/ disk[reserved[n]] = None
<1>1. IInv /\ [Next]_vars => Kept
  <2> SUFFICES ASSUME IInv, [Next]_vars, NEW n \in Numbers, reserved[n] # None,
                      reserved'[n] = None, minted'[n] = minted[n]
               PROVE  deposit[reserved[n]] # "funded" \/ disk[reserved[n]] = None
    OBVIOUS
  <2> USE Sorts DEF IInv, TypeOK
  <2>1. ASSUME NEW j \in MintJobs, MintReserve(j) PROVE FALSE
    BY <2>1 DEF MintReserve, Free
  <2>2. ASSUME NEW j \in MintJobs, MintFails(j) PROVE deposit[reserved[n]] = "empty"
    BY <2>2 DEF MintFails, Release, Releases, OpeningOwn, StillOwn, UnquotedUnpaid,
                Ledger, LedgerSound
  <2>3. CASE ReapLook
    BY <2>3 DEF ReapLook, Release, Releases, EntriesOwn, StillOwn, Ledger, LedgerSound
  <2>4. ASSUME ReapAnswer PROVE deposit[reserved[n]] # "funded"
    BY <2>4 DEF ReapAnswer, TrulyUnpaid, Release, Releases, AskedOwn, StillOwn, Ledger, LedgerSound
  <2>5. ASSUME NEW d \in Drivers, Finish(d) PROVE FALSE
    BY <2>5 DEF Finish, ConfirmMinted, Holding, Driving, Ledger, LedgerSound
  <2>6. \/ \E j \in MintJobs : MintReserve(j) \/ MintFails(j)
        \/ ReapLook \/ ReapAnswer
        \/ \E d \in Drivers : Finish(d)
        \/ UNCHANGED reserved
    BY DEF Next, Answer, Reap, SweepUp, Drive, MintQuote, PlainQuote, Pay, Age, PollStart,
           PollPaid, PollUnpaid, ReapStart, ReapDrive, SweepStart, SweepList, SweepPick,
           SendCommit, CommitFails, SendReveal, RevealFails, Cleanup, Crash, CrashInSave,
           CrashInPick, Restart, vars, durable
  <2> QED BY <2>1, <2>2, <2>3, <2>4, <2>5, <2>6
<1>2. Kept => [Kept]_vars
  OBVIOUS
<1> QED BY Inductive, <1>1, <1>2, PTL DEF Spec, FundedNumberNeverFreed
=============================================================================
