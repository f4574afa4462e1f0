------------------------------- MODULE Stable -------------------------------
(***************************************************************************)
(* Adventure Mode's stable for one player: src/stable.js behind                *)
(* src/adventure.js, with src/fertility.js.  Opening a pairing and resolving   *)
(* one read both parents off the chain first, over awaits; what is written is  *)
(* written in one step.  Other requests, a sale of an Alpha, and the end of    *)
(* the process come in between.                                                *)
(***************************************************************************)
EXTENDS Integers, Sequences, FiniteSets, Absent

CONSTANTS
  Mares, Sires,    \* Alphas by sex
  Visits,          \* requests under way at a time
  FreeBreeds, LivingSlots, Rest,
  MaxPairings, MaxMoves, StableDays, StableDeaths

Alphas == Mares \cup Sires
\* The bounds are numbers, and a parent's id is an Alpha's or a descendant's number, never both.
ASSUME StableAssumption ==
  /\ {FreeBreeds, Rest, MaxPairings, MaxMoves, StableDays} \subseteq Nat
  /\ Alphas \cap Nat = {} /\ None \notin Alphas

VARIABLES
  alphas,      \* the chain: [held, moves, since] of each Alpha
  herd,        \* creatures: id -> [female, mother, father, released]
  pending,     \* commitments: id -> [mother, father, free, refs]
  bred,        \* free breeds spent
  visits,      \* request -> what it does and has read, or None
  day,
  stableDeaths,
  opened,      \* history: pairings opened so far, and how many of them were free
  births       \* history: [pairing, mother, father, had] of every birth

stableVars == <<alphas, herd, pending, bred, visits, day, stableDeaths, opened, births>>
outside == <<alphas, day, stableDeaths>>

Set(f, k, v) == [x \in DOMAIN f \cup {k} |-> IF x = k THEN v ELSE f[x]]
Drop(f, k) == [x \in DOMAIN f \ {k} |-> f[x]]
Living == {c \in DOMAIN herd : ~herd[c].released}
\* A parent is named by its outpoint, that is an Alpha and how often it has moved, or by its id.
Outpoint(a) == [alpha |-> a, at |-> alphas[a].moves]
Descendant(c) == [alpha |-> None, at |-> c]
Id(ref) == IF ref.alpha = None THEN ref.at ELSE ref.alpha
Female(ref) == IF ref.alpha = None THEN herd[ref.at].female ELSE ref.alpha \in Mares
HeldNow == {a \in Alphas : alphas[a].held}

ParentRef == [alpha : Alphas \cup {None}, at : Nat]
Visit == [kind : {"open", "resolve"}, pairing : Nat \cup {None}, mother : ParentRef, father : ParentRef,
          at : {"mother", "father", "store"}, since : SUBSET Int, had : SUBSET Alphas]

StableTypeOK ==
  /\ \A a \in Alphas : alphas[a].moves \in 0 .. MaxMoves /\ alphas[a].since \in -Rest .. StableDays
  /\ DOMAIN herd \cup DOMAIN pending \subseteq 1 .. MaxPairings
  /\ bred \in 0 .. FreeBreeds /\ day \in 0 .. StableDays
  /\ visits \in [Visits -> Visit \cup {None}]

StableInit ==
  /\ alphas = [a \in Alphas |-> [held |-> TRUE, moves |-> 0, since |-> -Rest]]
  /\ herd = <<>> /\ pending = <<>> /\ bred = 0
  /\ visits = [v \in Visits |-> None]
  /\ day = 0 /\ stableDeaths = 0
  /\ opened = [all |-> 0, free |-> 0] /\ births = <<>>

-----------------------------------------------------------------------------
(* The chain.                                                               *)

\* A transfer ends the outpoint; the Alpha rests from the day it last moved.
Moves(a, heldThen) ==
  /\ alphas[a].moves < MaxMoves
  /\ alphas' = [alphas EXCEPT ![a] = [held |-> heldThen, moves |-> @.moves + 1, since |-> day]]
  /\ visits' = [v \in Visits |->
       IF visits[v] = None \/ ~heldThen THEN visits[v] ELSE [visits[v] EXCEPT !.had = @ \cup {a}]]
  /\ UNCHANGED <<herd, pending, bred, day, stableDeaths, opened, births>>
NextDay ==
  /\ day < StableDays /\ day' = day + 1
  /\ UNCHANGED <<alphas, herd, pending, bred, visits, stableDeaths, opened, births>>

-----------------------------------------------------------------------------
(* Requests.                                                                *)

Begin(v, kind, pairing, mother, father) ==
  /\ visits[v] = None /\ mother # father
  /\ visits' = [visits EXCEPT ![v] =
       [kind |-> kind, pairing |-> pairing, mother |-> mother, father |-> father, at |-> "mother",
        since |-> {}, had |-> HeldNow]]
  /\ UNCHANGED <<herd, pending, bred, opened, births>> /\ UNCHANGED outside
AskOpen(v, mother, father) == Begin(v, "open", None, mother, father)
\* resolvePairing looks for the commitment before it reads the parents it was for.
AskResolve(v, p) ==
  /\ p \in DOMAIN pending /\ pending[p].refs
  /\ Begin(v, "resolve", p, pending[p].mother, pending[p].father)

\* parent: an Alpha by its outpoint, unspent and held; a descendant by its id, in the stable.
Readable(ref) ==
  IF ref.alpha = None THEN ref.at \in Living
  ELSE alphas[ref.alpha].held /\ alphas[ref.alpha].moves = ref.at
ReadParent(v) ==
  /\ visits[v] # None /\ visits[v].at \in {"mother", "father"}
  /\ LET q == visits[v]
         ref == IF q.at = "mother" THEN q.mother ELSE q.father
         read == IF ref.alpha = None THEN {} ELSE {alphas[ref.alpha].since} IN
       visits' = [visits EXCEPT ![v] =
         IF ~Readable(ref) THEN None
         ELSE [q EXCEPT !.at = IF q.at = "mother" THEN "father" ELSE "store", !.since = @ \cup read]]
  /\ UNCHANGED <<herd, pending, bred, opened, births>> /\ UNCHANGED outside

\* preview: rest, slots and sexes; the opening is exempt from the rest.
FreeForAll == TRUE                                      \* (mutant: never used up)
FreeLeft == bred < FreeBreeds
Rested(q) == \A since \in q.since : day - since >= Rest
Blocked(q) ==
  \/ ~FreeLeft /\ ~Rested(q)
  \/ Cardinality(Living) >= LivingSlots
  \/ ~Female(q.mother) \/ Female(q.father)

\* openPairing: saved once without the parents' outpoints, then with them.  Killed in between, the
\* commitment stays on disk without them.
Spent(free) == IF free THEN bred + 1 ELSE bred
Open(v, killed) ==
  /\ visits[v] # None /\ visits[v].kind = "open" /\ visits[v].at = "store"
  /\ opened.all < MaxPairings
  /\ LET q == visits[v]  id == opened.all + 1 IN
       IF Blocked(q)
       THEN ~killed /\ UNCHANGED <<pending, bred, opened>>
       ELSE /\ pending' = Set(pending, id, [mother |-> q.mother, father |-> q.father,
                                            free |-> FreeLeft, refs |-> ~killed])
            /\ bred' = Spent(FreeLeft)
            /\ opened' = [all |-> id, free |-> opened.free + IF FreeLeft THEN 1 ELSE 0]
  /\ IF killed THEN stableDeaths < StableDeaths /\ stableDeaths' = stableDeaths + 1
               ELSE UNCHANGED stableDeaths
  /\ visits' = [w \in Visits |-> IF killed \/ w = v THEN None ELSE visits[w]]
  /\ UNCHANGED <<alphas, herd, day, births>>

\* stable.resolvePairing looks again; the roll may say that the pairing did not take.
SeenBefore(q) == TRUE                                   \* (mutant: the first look is enough)
StillPending(q) == q.pairing \in DOMAIN pending
ResolvePairing(v, conceived, female) ==
  /\ visits[v] # None /\ visits[v].kind = "resolve" /\ visits[v].at = "store"
  /\ LET q == visits[v]  id == q.pairing IN
       IF ~StillPending(q) THEN UNCHANGED <<pending, herd, births>>
       ELSE /\ pending' = Drop(pending, id)
            /\ herd' = IF ~conceived THEN herd
                       ELSE Set(herd, id, [female |-> female, mother |-> Id(q.mother),
                                           father |-> Id(q.father), released |-> FALSE])
            /\ births' = IF ~conceived THEN births
                         ELSE Append(births, [pairing |-> id, mother |-> Id(q.mother),
                                              father |-> Id(q.father), had |-> q.had])
  /\ visits' = [visits EXCEPT ![v] = None]
  /\ UNCHANGED <<bred, opened>> /\ UNCHANGED outside

Release(c) ==
  /\ c \in Living
  /\ herd' = [herd EXCEPT ![c].released = TRUE]
  /\ UNCHANGED <<pending, bred, visits, opened, births>> /\ UNCHANGED outside

Killed ==
  /\ stableDeaths < StableDeaths /\ stableDeaths' = stableDeaths + 1
  /\ visits' = [v \in Visits |-> None]
  /\ UNCHANGED <<alphas, herd, pending, bred, day, opened, births>>

-----------------------------------------------------------------------------
Parents == {Outpoint(a) : a \in Alphas} \cup {Descendant(c) : c \in Living}
StableNext ==
  \/ \E a \in Alphas, held \in BOOLEAN : Moves(a, held)
  \/ NextDay \/ Killed
  \/ \E v \in Visits :
       \/ \E mother, father \in Parents : AskOpen(v, mother, father)
       \/ \E p \in DOMAIN pending : AskResolve(v, p)
       \/ ReadParent(v)
       \/ \E killed \in BOOLEAN : Open(v, killed)
       \/ \E conceived, female \in BOOLEAN : ResolvePairing(v, conceived, female)
  \/ \E c \in DOMAIN herd : Release(c)
StableSpec == StableInit /\ [][StableNext]_stableVars

-----------------------------------------------------------------------------
(* Properties.                                                              *)

\* A commitment gives one descendant at most, however often and however late it is resolved, and a
\* descendant of the parents it was committed to: nobody can "fish for a better descendant"
\* (adventure.js:249).
BornOnce ==
  /\ \A i, j \in DOMAIN births : births[i].pairing = births[j].pairing => i = j
  /\ \A i \in DOMAIN births : births[i].pairing \notin DOMAIN pending

\* "a player who sold an Alpha between committing and revealing does not get to breed with it"
\* (adventure.js:259): both were theirs at some moment of the request that resolved.
HeldWhenBred ==
  \A i \in DOMAIN births : {births[i].mother, births[i].father} \cap Alphas \subseteq births[i].had

\* "The waiver is spent when a pairing OPENS, not when it takes, so opening several at once cannot
\* multiply it" (stable.js:49).
OpeningBounded == opened.free <= FreeBreeds

\* A pairing is paid once, gives once, and to the holder of both (stable.js:223-295,
\* adventure.js:240-287).
PairingsSound == StableTypeOK /\ BornOnce /\ HeldWhenBred /\ OpeningBounded

-----------------------------------------------------------------------------
(* What comments say, and the code does not do.                             *)

\* "a player can keep only a limited number of descendants alive at once" (stable.js:21): the slots
\* are counted when a pairing opens, and not those that are already open.
SlotsKept == Cardinality(Living) <= LivingSlots
=============================================================================
