------------------------------- MODULE Nursery -------------------------------
(***************************************************************************)
(* src/lifecycle.js: growing up.  Growth is settled lazily, day by day, when   *)
(* somebody next looks; a player comes and goes as they like.                  *)
(***************************************************************************)
EXTENDS Integers, Sequences, FiniteSetsExt, SequencesExt, Absent

CONSTANTS
  ToAdult, GrowthPerDay, ActsPerDay, Passive, Gestation,
  LastDay      \* of the run

\* What a day gives by itself is within what a day may give.
ASSUME NurseryAssumption ==
  /\ {ToAdult, GrowthPerDay, ActsPerDay, Passive, Gestation, LastDay} \subseteq Nat
  /\ Passive <= GrowthPerDay /\ None \notin Nat

VARIABLES
  juvenile,    \* [growth, attention, fight, accrued: the last day settled]
  ledger,      \* j.spent: day -> [growth, attention, fight]
  date

nurseryVars == <<juvenile, ledger, date>>
Kinds == {"attention", "fight"}
Born == date >= Gestation
Adult(j) == j.growth >= ToAdult
Total(l, kind) == MapThenSumSet(LAMBDA d : l[d][kind], DOMAIN l)

NurseryTypeOK ==
  /\ \A f \in {"growth", "attention", "fight"} :
       juvenile[f] \in Nat /\ \A d \in 0 .. LastDay : ledger[d][f] \in Nat
  /\ juvenile.accrued \in {None} \cup 0 .. LastDay /\ date \in 0 .. LastDay

NurseryInit ==
  /\ juvenile = [growth |-> 0, attention |-> 0, fight |-> 0, accrued |-> None]
  /\ ledger = [d \in 0 .. LastDay |-> [growth |-> 0, attention |-> 0, fight |-> 0]]
  /\ date = 0

-----------------------------------------------------------------------------
\* What a day still has room for.
Gain(j, l, d, most) == Max({0, Min({most, GrowthPerDay - l[d].growth, ToAdult - j.growth})})
Grow(s, d, most) ==
  LET gain == Gain(s.j, s.l, d, most) IN
    [j |-> [s.j EXCEPT !.growth = @ + gain], l |-> [s.l EXCEPT ![d].growth = @ + gain]]

\* accrue: from the day after the last one settled, or the day of birth, through today.
BirthdaySkipped(j) == IF j.accrued = None THEN Gestation + 1 ELSE j.accrued + 1
                                                        \* (mutant: the first day gives nothing)
FirstUnsettled(j) == IF j.accrued = None THEN Gestation ELSE j.accrued + 1
Accrued(j, l) ==
  LET days == [i \in 1 .. date - FirstUnsettled(j) + 1 |-> FirstUnsettled(j) + i - 1]
      after == FoldLeft(LAMBDA s, d : Grow(s, d, Passive), [j |-> j, l |-> l], days) IN
    IF ~Born \/ Adult(j) THEN [j |-> j, l |-> l]
    ELSE [after EXCEPT !.j.accrued = date]

\* status, and every route that draws the stable.
LookIn ==
  LET s == Accrued(juvenile, ledger) IN
    juvenile' = s.j /\ ledger' = s.l /\ UNCHANGED date

\* attend and recordFight: settled first; beyond the day's budget nothing counts.  An attention is
\* spent even on a day that has no room for growth.
InBudget(s, kind) == s.l[date][kind] < ActsPerDay
Act(kind) ==
  LET s == Accrued(juvenile, ledger)
      t == Grow(s, date, 1) IN
    /\ IF Born /\ ~Adult(s.j) /\ InBudget(s, kind)
       THEN /\ juvenile' = [t.j EXCEPT ![kind] = @ + 1]
            /\ ledger' = [t.l EXCEPT ![date][kind] = @ + 1]
       ELSE juvenile' = s.j /\ ledger' = s.l
    /\ UNCHANGED date

Tomorrow == date < LastDay /\ date' = date + 1 /\ UNCHANGED <<juvenile, ledger>>

NurseryNext == LookIn \/ (\E kind \in Kinds : Act(kind)) \/ Tomorrow
NurserySpec == NurseryInit /\ [][NurseryNext]_nurseryVars

-----------------------------------------------------------------------------
(* Properties.                                                              *)

\* "Absence never subtracts. Presence adds." (lifecycle.js:6): whoever looks, and whenever they last
\* did, a juvenile has grown by what every day since its birth gives by itself, or is adult; what was
\* done with it adds to that and never past the day's cap, which attentions and fights share.
AbsenceCostsNothing ==
  LET s == Accrued(juvenile, ledger) IN
    /\ NurseryTypeOK
    /\ Born => s.j.growth >= Min({ToAdult, Passive * (date - Gestation + 1)})
    /\ s.j.growth <= ToAdult
    /\ s.j.growth = Total(s.l, "growth")
    /\ \A d \in DOMAIN s.l :
         /\ s.l[d].growth <= GrowthPerDay
         /\ s.l[d].growth <= Passive + s.l[d].attention + s.l[d].fight
         /\ \A kind \in Kinds : s.l[d][kind] <= ActsPerDay
    /\ \A kind \in Kinds : s.j[kind] = Total(s.l, kind)
=============================================================================
