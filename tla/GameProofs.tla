----------------------------- MODULE GameProofs -----------------------------
(***************************************************************************)
(* Theorems about the games: the pairings of Adventure Mode's stable, the      *)
(* Arena's tournaments, how the stable's young grow up, the duel, the fight,   *)
(* and the vivarium.                                                        *)
(***************************************************************************)
EXTENDS Arena, Stable, Nursery, Duel, Fight, Vivarium, DataInduction, SequenceTheorems

(***************************************************************************)
(* The stable.                                                              *)
(***************************************************************************)

\* The chain's and the requests' types.
ChainTyped ==
  /\ alphas \in [Alphas -> [held : BOOLEAN, moves : 0 .. MaxMoves, since : -Rest .. StableDays]]
  /\ day \in 0 .. StableDays
RequestsTyped == visits \in [Visits -> Visit \cup {None}]
\* Descendants and commitments come from pairings that were opened, and a commitment has its parents.
Opened(p) == p \in 1 .. opened.all
StableTyped ==
  /\ opened \in [all : 0 .. MaxPairings, free : Nat]
  /\ \A c \in DOMAIN herd : Opened(c)
  /\ \A p \in DOMAIN pending : Opened(p) /\ {pending[p].mother, pending[p].father} \subseteq ParentRef
\* What the openings for free have cost is what the counter says, and it stops at the allowance.
WaiverCounted == bred = opened.free /\ bred \in 0 .. FreeBreeds
\* A birth is of a pairing that was opened, is gone from the commitments, and gives no other.
BirthsTyped ==
  births \in Seq([pairing : Nat, mother : Alphas \cup Nat, father : Alphas \cup Nat, had : SUBSET Alphas])
PairingGone == BornOnce /\ \A i \in DOMAIN births : Opened(births[i].pairing)
\* A request has had all that is held now, and each Alpha it has read.
HadRead(q) ==
  /\ HeldNow \subseteq q.had
  /\ q.at # "mother" => {q.mother.alpha} \cap Alphas \subseteq q.had
  /\ q.at = "store" => {q.father.alpha} \cap Alphas \subseteq q.had
RequestsHad == \A v \in Visits : visits[v] # None => HadRead(visits[v])
StableInv ==
  /\ ChainTyped /\ RequestsTyped /\ StableTyped /\ WaiverCounted /\ BirthsTyped
  /\ PairingGone /\ RequestsHad /\ HeldWhenBred

\* An empty stable satisfies the invariant.
LEMMA StableBegins == StableInit => StableInv
<1> SUFFICES ASSUME StableInit PROVE StableInv
  OBVIOUS
<1>0. /\ FreeBreeds \in Nat /\ Rest \in Nat /\ MaxPairings \in Nat /\ MaxMoves \in Nat /\ StableDays \in Nat
  BY StableAssumption
<1>1. DOMAIN births = {} /\ DOMAIN herd = {} /\ DOMAIN pending = {}
  BY DEF StableInit
<1>2. ChainTyped
  BY <1>0 DEF StableInit, ChainTyped
<1>3. RequestsTyped /\ RequestsHad
  BY DEF StableInit, RequestsTyped, RequestsHad
<1>4. StableTyped /\ WaiverCounted
  BY <1>0, <1>1 DEF StableInit, StableTyped, WaiverCounted
<1>5. BirthsTyped
  BY DEF StableInit, BirthsTyped
<1>6. PairingGone /\ HeldWhenBred
  BY <1>1 DEF PairingGone, BornOnce, HeldWhenBred
<1> QED BY <1>2, <1>3, <1>4, <1>5, <1>6 DEF StableInv

\* What a request is once it is under way.
LEMMA VisitTyped ==
  ASSUME RequestsTyped, NEW v \in Visits, visits[v] # None
  PROVE  visits[v] \in Visit
BY DEF RequestsTyped

\* Steps that open and resolve nothing leave the books of the stable as they are.
Books == <<herd, pending, bred, opened, births>>
\* Steps that leave herd, pairings and births alone keep what is said of those alone.
LEMMA BooksStand ==
  ASSUME StableInv, UNCHANGED Books
  PROVE  (StableTyped /\ WaiverCounted /\ BirthsTyped /\ PairingGone /\ HeldWhenBred)'
BY DEF Books, StableInv, StableTyped, Opened, WaiverCounted, BirthsTyped, PairingGone, BornOnce, HeldWhenBred

\* An Alpha changing hands on the chain keeps the invariant: a request remembers what was true when it read.
LEMMA MovesKeep ==
  ASSUME StableInv, NEW a \in Alphas, NEW held \in BOOLEAN, Moves(a, held)
  PROVE  StableInv'
<1> USE DEF StableInv
<1>0. MaxMoves \in Nat /\ Rest \in Nat /\ StableDays \in Nat
  BY StableAssumption
<1>1. ChainTyped'
  <2>1. alphas[a] \in [held : BOOLEAN, moves : 0 .. MaxMoves, since : -Rest .. StableDays]
    BY DEF ChainTyped
  <2>2. alphas[a].moves + 1 \in 0 .. MaxMoves /\ day \in -Rest .. StableDays
    BY <1>0, <2>1 DEF Moves, ChainTyped
  <2>3. [held |-> held, moves |-> alphas[a].moves + 1, since |-> day]
          \in [held : BOOLEAN, moves : 0 .. MaxMoves, since : -Rest .. StableDays]
    BY <2>2
  <2>4. alphas' = [alphas EXCEPT ![a] = [held |-> held, moves |-> alphas[a].moves + 1, since |-> day]]
    BY DEF Moves
  <2> QED BY <2>3, <2>4 DEF Moves, ChainTyped
<1>2. HeldNow' \subseteq HeldNow \cup (IF held THEN {a} ELSE {})
  BY DEF HeldNow, Moves, ChainTyped
<1>3. ASSUME NEW v \in Visits
      PROVE  visits'[v] \in Visit \cup {None} /\ (visits'[v] # None => HadRead(visits[v])')
  <2>1. CASE visits[v] = None
    BY <2>1 DEF Moves
  <2>2. CASE visits[v] # None
    <3>1. visits[v] \in Visit /\ HadRead(visits[v])
      BY <2>2, VisitTyped DEF RequestsHad
    <3>2. CASE ~held
      BY <3>1, <3>2, <1>2 DEF Moves, HadRead
    <3>3. CASE held
      <4> DEFINE q == visits[v]
      <4>1. visits'[v] = [q EXCEPT !.had = @ \cup {a}]
        BY <2>2, <3>3 DEF Moves
      <4>2. [q EXCEPT !.had = @ \cup {a}] \in Visit
        BY <3>1 DEF Visit
      <4>3. ASSUME NEW r, r = [q EXCEPT !.had = @ \cup {a}]
            PROVE  r.had = q.had \cup {a} /\ r.at = q.at /\ r.mother = q.mother /\ r.father = q.father
        BY <3>1, <4>3 DEF Visit
      <4>4. HadRead(visits[v])'
        BY <3>1, <4>1, <4>3, <1>2 DEF HadRead
      <4> QED BY <4>1, <4>2, <4>4
    <3> QED BY <3>2, <3>3
  <2> QED BY <2>1, <2>2
<1>4. RequestsTyped'
  BY <1>3 DEF RequestsTyped, Moves
<1>5. RequestsHad'
  BY <1>3 DEF RequestsHad
<1> QED BY <1>1, <1>4, <1>5, BooksStand DEF Moves, Books

\* A new day, or a restart that forgets the requests under way.
LEMMA IdleKeeps ==
  ASSUME StableInv, NextDay \/ Killed
  PROVE  StableInv'
<1> USE DEF StableInv
<1>0. StableDays \in Nat
  BY StableAssumption
<1>1. ChainTyped'
  BY <1>0 DEF NextDay, Killed, ChainTyped
<1>2. HeldNow' = HeldNow
  BY DEF HeldNow, NextDay, Killed
<1>3. CASE NextDay
  BY <1>1, <1>2, <1>3, BooksStand DEF NextDay, Books, RequestsTyped, RequestsHad, HadRead
<1>4. CASE Killed
  <2>1. RequestsTyped' /\ RequestsHad'
    BY <1>4 DEF Killed, RequestsTyped, RequestsHad
  <2> QED BY <1>1, <1>4, <2>1, BooksStand DEF Killed, Books
<1> QED BY <1>3, <1>4

\* One request goes on, the chain and the others do not.
LEMMA VisitGoesOn ==
  ASSUME StableInv, NEW v \in Visits, NEW q \in Visit \cup {None}, q # None => HadRead(q),
         visits' = [visits EXCEPT ![v] = q], UNCHANGED alphas
  PROVE  RequestsTyped' /\ RequestsHad'
<1> USE DEF StableInv
<1>1. HeldNow' = HeldNow
  BY DEF HeldNow
<1>2. RequestsTyped'
  BY DEF RequestsTyped
<1>3. ASSUME NEW w \in Visits, visits'[w] # None PROVE HadRead(visits[w])'
  BY <1>1, <1>3 DEF RequestsHad, RequestsTyped, HadRead
<1> QED BY <1>2, <1>3 DEF RequestsHad

\* A request begins: it has had everything that is held at this moment.
LEMMA BeginKeeps ==
  ASSUME StableInv, NEW v \in Visits, NEW kind \in {"open", "resolve"}, NEW p \in Nat \cup {None},
         NEW mother \in ParentRef, NEW father \in ParentRef, Begin(v, kind, p, mother, father)
  PROVE  StableInv'
<1> DEFINE q == [kind |-> kind, pairing |-> p, mother |-> mother, father |-> father, at |-> "mother",
                 since |-> {}, had |-> HeldNow]
<1>1. q \in Visit
  BY DEF Visit, HeldNow
<1>2. HadRead(q)
  BY DEF HadRead
<1>3. visits' = [visits EXCEPT ![v] = q]
  BY DEF Begin
<1>4. RequestsTyped' /\ RequestsHad'
  <2> HIDE DEF q
  <2> QED BY <1>1, <1>2, <1>3, VisitGoesOn DEF Begin, outside
<1> QED BY <1>4, BooksStand DEF Begin, outside, Books, StableInv, ChainTyped

\* A request to open a pairing begins.
LEMMA AskOpenKeeps ==
  ASSUME StableInv, NEW v \in Visits, NEW mother \in Parents, NEW father \in Parents,
         AskOpen(v, mother, father)
  PROVE  StableInv'
<1>1. ASSUME NEW ref \in Parents PROVE ref \in ParentRef
  <2>1. CASE \E a \in Alphas : ref = Outpoint(a)
    BY <2>1, StableAssumption DEF Outpoint, ParentRef, StableInv, ChainTyped
  <2>2. CASE \E c \in Living : ref = Descendant(c)
    BY <2>2 DEF Descendant, ParentRef, Living, StableInv, StableTyped, Opened
  <2> QED BY <2>1, <2>2 DEF Parents
<1> QED BY <1>1, BeginKeeps DEF AskOpen

\* A request to resolve a pairing begins, with the parents the pairing names.
LEMMA AskResolveKeeps ==
  ASSUME StableInv, NEW v \in Visits, NEW p, AskResolve(v, p)
  PROVE  StableInv'
<1>1. p \in DOMAIN pending
  BY DEF AskResolve
<1>2. p \in Nat /\ pending[p].mother \in ParentRef /\ pending[p].father \in ParentRef
  BY <1>1 DEF StableInv, StableTyped, Opened
<1> QED BY <1>2, BeginKeeps DEF AskResolve

\* A request reads the owner of one of its parents over an await.
LEMMA ReadParentKeeps ==
  ASSUME StableInv, NEW v \in Visits, ReadParent(v)
  PROVE  StableInv'
<1> DEFINE q == visits[v]
           ref == IF q.at = "mother" THEN q.mother ELSE q.father
           read == IF ref.alpha = None THEN {} ELSE {alphas[ref.alpha].since}
           next == [q EXCEPT !.at = IF q.at = "mother" THEN "father" ELSE "store", !.since = @ \cup read]
           then == IF ~Readable(ref) THEN None ELSE next
<1>1. q \in Visit /\ HadRead(q) /\ q.at \in {"mother", "father"}
  BY VisitTyped DEF ReadParent, StableInv, RequestsHad
<1>2. visits' = [visits EXCEPT ![v] = then]
  BY DEF ReadParent
<1>3. ref \in ParentRef
  BY <1>1 DEF Visit
<1>4. then \in Visit \cup {None} /\ (then # None => HadRead(then))
  <2>1. CASE ~Readable(ref)
    BY <2>1
  <2>2. CASE Readable(ref)
    <3>1. read \in SUBSET Int
      BY <1>3, StableAssumption DEF ParentRef, StableInv, ChainTyped
    <3>2. {ref.alpha} \cap Alphas \subseteq HeldNow
      BY <2>2, StableAssumption DEF Readable, HeldNow
    <3> HIDE DEF ref, read
    <3>3. next \in Visit
      BY <1>1, <3>1 DEF Visit
    <3>4. /\ next.had = q.had /\ next.mother = q.mother /\ next.father = q.father
          /\ next.at = IF q.at = "mother" THEN "father" ELSE "store"
      BY <1>1 DEF Visit
    <3>5. HadRead(next)
      <4> HIDE DEF next, q
      <4>1. HeldNow \subseteq next.had
        BY <1>1, <3>4 DEF HadRead
      <4>2. {next.mother.alpha} \cap Alphas \subseteq next.had
        BY <1>1, <3>2, <3>4, <4>1 DEF HadRead, ref
      <4>3. next.at = "store" => {next.father.alpha} \cap Alphas \subseteq next.had
        BY <1>1, <3>2, <3>4, <4>1 DEF HadRead, ref
      <4> QED BY <4>1, <4>2, <4>3 DEF HadRead
    <3> QED BY <2>2, <3>3, <3>5
  <2> QED BY <2>1, <2>2
<1>5. RequestsTyped' /\ RequestsHad'
  <2> HIDE DEF then
  <2> QED BY <1>2, <1>4, VisitGoesOn DEF ReadParent, outside
<1> QED BY <1>5, BooksStand DEF ReadParent, outside, Books, StableInv, ChainTyped

\* A pairing is opened, with the free one of the waiver or without.
LEMMA OpenKeeps ==
  ASSUME StableInv, NEW v \in Visits, NEW killed \in BOOLEAN, Open(v, killed)
  PROVE  StableInv'
<1> USE DEF StableInv
<1> DEFINE q == visits[v]
           id == opened.all + 1
<1>0. FreeBreeds \in Nat /\ MaxPairings \in Nat
  BY StableAssumption
<1>1. q \in Visit /\ q.mother \in ParentRef /\ q.father \in ParentRef
  <2>1. q \in Visit
    BY VisitTyped DEF Open
  <2> QED BY <2>1 DEF Visit
<1>2. ChainTyped'
  BY DEF Open, ChainTyped
<1>3. RequestsTyped' /\ RequestsHad'
  <2>1. \A w \in Visits : visits'[w] \in {None, visits[w]}
    BY DEF Open
  <2>2. visits' = [w \in Visits |-> visits'[w]]
    BY DEF Open
  <2>3. HeldNow' = HeldNow
    BY DEF Open, HeldNow
  <2>4. RequestsTyped'
    BY <2>1, <2>2 DEF RequestsTyped
  <2>5. RequestsHad'
    BY <2>1, <2>3 DEF RequestsHad, HadRead
  <2> QED BY <2>4, <2>5
<1>4. UNCHANGED <<herd, births>>
  BY DEF Open
<1>5. CASE Blocked(q)
  <2>1. UNCHANGED <<pending, bred, opened>>
    BY <1>5 DEF Open
  <2> QED BY <1>2, <1>3, <1>4, <2>1, BooksStand DEF Books
<1>6. CASE ~Blocked(q)
  <2>1. /\ pending' = Set(pending, id, [mother |-> q.mother, father |-> q.father,
                                         free |-> FreeLeft, refs |-> ~killed])
        /\ bred' = Spent(FreeLeft)
        /\ opened' = [all |-> id, free |-> opened.free + IF FreeLeft THEN 1 ELSE 0]
    BY <1>6 DEF Open
  <2>2. opened.all \in Nat /\ opened.free \in Nat /\ id \in 1 .. MaxPairings /\ id \notin DOMAIN pending
    BY <1>0 DEF Open, StableTyped, Opened
  <2>3. opened'.all = id /\ opened'.free = opened.free + IF FreeLeft THEN 1 ELSE 0
    BY <2>1
  <2>4. opened' \in [all : 0 .. MaxPairings, free : Nat]
    BY <2>1, <2>2
  <2>5. \A p : Opened(p) => Opened(p)'
    BY <2>2, <2>3 DEF Opened
  <2>6. /\ DOMAIN pending' = DOMAIN pending \cup {id}
        /\ \A p \in DOMAIN pending : p # id => pending'[p] = pending[p]
        /\ pending'[id].mother = q.mother /\ pending'[id].father = q.father
    BY <2>1 DEF Set
  <2>7. StableTyped'
    <3>1. \A p : p = id => Opened(p)'
      BY <2>2, <2>3 DEF Opened
    <3>2. ASSUME NEW p \in DOMAIN pending'
          PROVE  Opened(p)' /\ {pending'[p].mother, pending'[p].father} \subseteq ParentRef
      <4>1. CASE p = id
        BY <4>1, <3>1, <2>6, <1>1
      <4>2. CASE p # id
        <5>1. p \in DOMAIN pending /\ pending'[p] = pending[p]
          BY <3>2, <4>2, <2>6
        <5> QED BY <5>1, <2>5 DEF StableTyped
      <4> QED BY <4>1, <4>2
    <3>3. \A c \in DOMAIN herd' : Opened(c)'
      BY <1>4, <2>5 DEF StableTyped
    <3> QED BY <2>4, <3>2, <3>3 DEF StableTyped
  <2>8. WaiverCounted'
    BY <1>0, <2>1, <2>2, <2>3 DEF WaiverCounted, Spent, FreeLeft
  <2>9. BirthsTyped' /\ HeldWhenBred'
    BY <1>4 DEF BirthsTyped, HeldWhenBred
  <2>10. PairingGone'
    <3>1. \A i \in DOMAIN births : Opened(births[i].pairing) /\ births[i].pairing # id
      BY <2>2 DEF PairingGone, Opened
    <3> QED BY <1>4, <2>5, <2>6, <3>1 DEF PairingGone, BornOnce
  <2> QED BY <1>2, <1>3, <2>7, <2>8, <2>9, <2>10
<1> QED BY <1>5, <1>6

\* A pairing is resolved: it is gone, and a young may be born of it.
LEMMA ResolvePairingKeeps ==
  ASSUME StableInv, NEW v \in Visits, NEW conceived \in BOOLEAN, NEW female \in BOOLEAN,
         ResolvePairing(v, conceived, female)
  PROVE  StableInv'
<1> USE DEF StableInv
<1> DEFINE q == visits[v]
           id == q.pairing
           birth == [pairing |-> id, mother |-> Id(q.mother), father |-> Id(q.father), had |-> q.had]
<1>1. q \in Visit /\ HadRead(q) /\ q.at = "store"
  BY VisitTyped DEF ResolvePairing, RequestsHad
<1>2. ChainTyped'
  BY DEF ResolvePairing, outside, ChainTyped
<1>3. RequestsTyped' /\ RequestsHad'
  BY VisitGoesOn DEF ResolvePairing, outside
<1>4. UNCHANGED <<bred, opened>>
  BY DEF ResolvePairing
<1>5. CASE ~StillPending(q)
  <2>1. UNCHANGED Books
    BY <1>5 DEF ResolvePairing, Books
  <2> QED BY <1>2, <1>3, <2>1, BooksStand
<1>6. CASE StillPending(q)
  <2>1. /\ pending' = Drop(pending, id)
        /\ herd' = IF ~conceived THEN herd
                   ELSE Set(herd, id, [female |-> female, mother |-> Id(q.mother),
                                       father |-> Id(q.father), released |-> FALSE])
        /\ births' = IF ~conceived THEN births ELSE Append(births, birth)
    BY <1>6 DEF ResolvePairing
  <2>2. id \in DOMAIN pending /\ Opened(id) /\ id \in Nat
    BY <1>6 DEF StillPending, StableTyped, Opened
  <2>3. DOMAIN pending' = DOMAIN pending \ {id} /\ \A p \in DOMAIN pending' : pending'[p] = pending[p]
    BY <2>1 DEF Drop
  <2>4. DOMAIN herd' \subseteq DOMAIN herd \cup {id}
    BY <2>1 DEF Set
  <2>5. StableTyped' /\ WaiverCounted'
    BY <1>4, <2>2, <2>3, <2>4 DEF StableTyped, Opened, WaiverCounted
  <2>6. CASE ~conceived
    <3>1. births' = births
      BY <2>1, <2>6
    <3> QED BY <1>2, <1>3, <1>4, <2>3, <2>5, <3>1 DEF BirthsTyped, HeldWhenBred, PairingGone, BornOnce, Opened
  <2>7. CASE conceived
    <3>1. Id(q.mother) \in Alphas \cup Nat /\ Id(q.father) \in Alphas \cup Nat
      BY <1>1 DEF Visit, ParentRef, Id
    <3>2. birth \in [pairing : Nat, mother : Alphas \cup Nat, father : Alphas \cup Nat, had : SUBSET Alphas]
      BY <1>1, <2>2, <3>1 DEF Visit
    <3>3. births' = Append(births, birth)
      BY <2>1, <2>7
    <3>4. BirthsTyped'
      BY <3>2, <3>3 DEF BirthsTyped
    <3>5. /\ Len(births) \in Nat /\ Len(births') = Len(births) + 1 /\ births'[Len(births) + 1] = birth
          /\ DOMAIN births = 1 .. Len(births) /\ DOMAIN births' = 1 .. Len(births) + 1
          /\ \A i \in DOMAIN births : births'[i] = births[i]
      <4> HIDE DEF birth
      <4> QED BY <3>2, <3>3 DEF BirthsTyped
    <3>6. {Id(q.mother), Id(q.father)} \cap Alphas \subseteq q.had
      <4>1. ASSUME NEW ref \in ParentRef, {ref.alpha} \cap Alphas \subseteq q.had
            PROVE  {Id(ref)} \cap Alphas \subseteq q.had
        BY <4>1, StableAssumption DEF ParentRef, Id
      <4> QED BY <1>1, <4>1 DEF Visit, HadRead
    <3>7. /\ birth.pairing = id /\ birth.had = q.had
          /\ birth.mother = Id(q.mother) /\ birth.father = Id(q.father)
      OBVIOUS
    <3> HIDE DEF birth
    <3>8. HeldWhenBred'
      <4>1. ASSUME NEW i \in DOMAIN births'
            PROVE  {births'[i].mother, births'[i].father} \cap Alphas \subseteq births'[i].had
        <5>1. CASE i \in DOMAIN births
          BY <5>1, <3>5 DEF HeldWhenBred
        <5>2. CASE i = Len(births) + 1
          BY <5>2, <3>5, <3>6, <3>7
        <5> QED BY <3>5, <5>1, <5>2
      <4> QED BY <4>1 DEF HeldWhenBred
    <3>9. \A i \in DOMAIN births : births[i].pairing # id
      BY <2>2 DEF PairingGone, BornOnce
    <3>10. PairingGone'
      <4>1. ASSUME NEW i \in DOMAIN births'
            PROVE  births'[i].pairing \in 1 .. opened'.all /\ births'[i].pairing \notin DOMAIN pending'
        <5>1. CASE i \in DOMAIN births
          BY <5>1, <1>4, <2>3, <3>5 DEF PairingGone, BornOnce, Opened
        <5>2. CASE i = Len(births) + 1
          BY <5>2, <1>4, <2>2, <2>3, <3>5, <3>7 DEF Opened
        <5> QED BY <3>5, <5>1, <5>2
      <4>2. ASSUME NEW i \in DOMAIN births', NEW j \in DOMAIN births', births'[i].pairing = births'[j].pairing
            PROVE  i = j
        <5>1. i \in DOMAIN births \cup {Len(births) + 1} /\ j \in DOMAIN births \cup {Len(births) + 1}
          BY <3>5
        <5> QED BY <5>1, <4>2, <3>5, <3>7, <3>9 DEF PairingGone, BornOnce
      <4> QED BY <4>1, <4>2 DEF PairingGone, BornOnce, Opened
    <3> QED BY <1>2, <1>3, <2>5, <3>4, <3>8, <3>10
  <2> QED BY <2>6, <2>7
<1> QED BY <1>5, <1>6

\* A young is released.
LEMMA ReleaseKeeps ==
  ASSUME StableInv, NEW c, Release(c)
  PROVE  StableInv'
<1> USE DEF StableInv
<1>1. DOMAIN herd' = DOMAIN herd
  BY DEF Release
<1>2. HeldNow' = HeldNow
  BY DEF Release, outside, HeldNow
<1> QED BY <1>1, <1>2 DEF Release, outside, ChainTyped, RequestsTyped, RequestsHad, HadRead, StableTyped, Opened,
             WaiverCounted, BirthsTyped, PairingGone, BornOnce, HeldWhenBred

\* Every step of the stable keeps the invariant.
LEMMA StableSteps == StableInv /\ [StableNext]_stableVars => StableInv'
<1> SUFFICES ASSUME StableInv, [StableNext]_stableVars PROVE StableInv'
  OBVIOUS
<1>1. CASE \E a \in Alphas, held \in BOOLEAN : Moves(a, held)
  BY <1>1, MovesKeep
<1>2. CASE NextDay \/ Killed
  BY <1>2, IdleKeeps
<1>3. ASSUME NEW v \in Visits, NEW mother \in Parents, NEW father \in Parents, AskOpen(v, mother, father)
      PROVE  StableInv'
  BY <1>3, AskOpenKeeps
<1>4. ASSUME NEW v \in Visits, NEW p \in DOMAIN pending, AskResolve(v, p) PROVE StableInv'
  BY <1>4, AskResolveKeeps
<1>5. ASSUME NEW v \in Visits, ReadParent(v) PROVE StableInv'
  BY <1>5, ReadParentKeeps
<1>6. ASSUME NEW v \in Visits, NEW killed \in BOOLEAN, Open(v, killed) PROVE StableInv'
  BY <1>6, OpenKeeps
<1>7. ASSUME NEW v \in Visits, NEW conceived \in BOOLEAN, NEW female \in BOOLEAN,
             ResolvePairing(v, conceived, female)
      PROVE  StableInv'
  BY <1>7, ResolvePairingKeeps
<1>8. ASSUME NEW c \in DOMAIN herd, Release(c) PROVE StableInv'
  BY <1>8, ReleaseKeeps
<1>9. CASE UNCHANGED stableVars
  <2>1. UNCHANGED Books /\ UNCHANGED outside /\ UNCHANGED visits
    BY <1>9 DEF stableVars, Books, outside
  <2>2. HeldNow' = HeldNow
    BY <2>1 DEF outside, HeldNow
  <2>3. ChainTyped' /\ RequestsTyped' /\ RequestsHad'
    BY <2>1, <2>2 DEF outside, StableInv, ChainTyped, RequestsTyped, RequestsHad, HadRead
  <2> QED BY <2>1, <2>3, BooksStand DEF StableInv
<1> QED BY <1>1, <1>2, <1>3, <1>4, <1>5, <1>6, <1>7, <1>8, <1>9 DEF StableNext

\* The inductive invariant holds for every number of Alphas, requests, pairings, moves, days and deaths.
THEOREM StableInvariant == StableSpec => []StableInv
BY StableBegins, StableSteps, PTL DEF StableSpec

\* The invariant says what the property says.
LEMMA StableInvSays == StableInv => PairingsSound
<1> SUFFICES ASSUME StableInv PROVE PairingsSound
  OBVIOUS
<1> USE DEF StableInv
<1>0. FreeBreeds \in Nat /\ MaxPairings \in Nat
  BY StableAssumption
<1>1. \A a \in Alphas : alphas[a].moves \in 0 .. MaxMoves /\ alphas[a].since \in -Rest .. StableDays
  BY DEF ChainTyped
<1>2. DOMAIN herd \cup DOMAIN pending \subseteq 1 .. MaxPairings
  BY <1>0 DEF StableTyped, Opened
<1>3. StableTypeOK
  BY <1>1, <1>2 DEF StableTypeOK, ChainTyped, RequestsTyped, WaiverCounted
<1>4. OpeningBounded
  BY <1>0 DEF OpeningBounded, WaiverCounted
<1> QED BY <1>3, <1>4 DEF PairingsSound, PairingGone

\* THEOREM: however requests, sales and deaths fall, a pairing is paid once, gives one descendant at most, and
\* of parents its holder had in the request that resolved it (stable.js:223-295, adventure.js:240-287).
THEOREM PairingsCorrect == StableSpec => []PairingsSound
BY StableInvariant, StableInvSays, PTL

(***************************************************************************)
(* The Arena's bracket, one field of players at a time.                     *)
(***************************************************************************)

MatchUp == [p1 : Players, p2 : Players, l1 : Loadouts \cup {None}, l2 : Loadouts \cup {None},
            winner : Players \cup {None}, beacon : Nat \cup {None}]
\* Who plays in a round, and who has lost there.
Playing(ms) == UNION {{ms[i].p1, ms[i].p2} : i \in DOMAIN ms}
Losers(ms) == {p \in Players : \E i \in DOMAIN ms : ~Pending(ms[i]) /\ Loser(ms[i]) = p}
\* Nobody plays twice in a round.
Apart(ms) ==
  \A i, j \in DOMAIN ms :
    /\ ms[i].p1 # ms[j].p2
    /\ i # j => ms[i].p1 # ms[j].p1 /\ ms[i].p2 # ms[j].p2
Played(ms) == \A i \in DOMAIN ms : ms[i].winner \in {ms[i].p1, ms[i].p2}
Unplayed(ms) == \A i \in DOMAIN ms : Pending(ms[i])
OneToOne(s) == \A i, j \in DOMAIN s : s[i] = s[j] => i = j

\* Who plays in the matches.
LEMMA WhoPlays ==
  ASSUME NEW ms, NEW p
  PROVE  p \in Playing(ms) <=> \E i \in DOMAIN ms : p = ms[i].p1 \/ p = ms[i].p2
BY DEF Playing

\* A round laid out for a field has everybody of the field in it, once.
LEMMA LaidOut ==
  ASSUME NEW r, NEW k \in Nat, NEW field \in Seq(Players), Len(field) = 2 * k, OneToOne(field)
  PROVE  LET round == Layout(r, field) IN
           /\ round.field = 2 * k /\ round.matches \in Seq(MatchUp) /\ Len(round.matches) = k
           /\ Playing(round.matches) = ToSet(field) /\ Apart(round.matches) /\ Unplayed(round.matches)
<1> DEFINE ms == Layout(r, field).matches
           meet(i) == [p1 |-> field[2 * i - 1], p2 |-> field[2 * i], l1 |-> None, l2 |-> None,
                       winner |-> None, beacon |-> None]
<1>1. Layout(r, field).field = 2 * k /\ ms = [i \in 1 .. k |-> meet(i)]
  BY DEF Layout
<1>2. \A i \in 1 .. k : 2 * i - 1 \in DOMAIN field /\ 2 * i \in DOMAIN field
  OBVIOUS
<1>3. \A i \in 1 .. k : meet(i) \in MatchUp
  BY <1>2 DEF MatchUp
<1>4. ms \in Seq(MatchUp) /\ Len(ms) = k /\ DOMAIN ms = 1 .. k
  <2> HIDE DEF meet
  <2> SUFFICES ASSUME NEW f, f = [i \in 1 .. k |-> meet(i)]
               PROVE  f \in Seq(MatchUp) /\ Len(f) = k /\ DOMAIN f = 1 .. k
    BY <1>1
  <2> QED BY <1>3
<1>5. \A i \in 1 .. k : ms[i].p1 = field[2 * i - 1] /\ ms[i].p2 = field[2 * i] /\ ms[i].winner = None
  BY <1>1
<1> HIDE DEF ms
<1>6. Unplayed(ms)
  BY <1>4, <1>5 DEF Unplayed, Pending
<1>7. Apart(ms)
  <2> HIDE DEF meet
  <2> SUFFICES ASSUME NEW i \in 1 .. k, NEW j \in 1 .. k
               PROVE  ms[i].p1 # ms[j].p2 /\ (i # j => ms[i].p1 # ms[j].p1 /\ ms[i].p2 # ms[j].p2)
    BY <1>4, Zenon DEF Apart
  <2>1. \A m, n \in DOMAIN field : field[m] = field[n] => m = n
    BY Zenon DEF OneToOne
  <2>2. 2 * i - 1 # 2 * j /\ (i # j => 2 * i - 1 # 2 * j - 1 /\ 2 * i # 2 * j)
    OBVIOUS
  <2>3. field[2 * i - 1] # field[2 * j] /\ (i # j => field[2 * i - 1] # field[2 * j - 1] /\ field[2 * i] # field[2 * j])
    BY <1>2, <2>1, <2>2
  <2> QED BY <1>5, <2>3
<1>8. Playing(ms) = ToSet(field)
  <2>1. ASSUME NEW p \in Playing(ms) PROVE p \in ToSet(field)
    <3>1. PICK i \in DOMAIN ms : p = ms[i].p1 \/ p = ms[i].p2
      BY WhoPlays
    <3> QED BY <3>1, <1>2, <1>4, <1>5 DEF ToSet
  <2>2. ASSUME NEW j \in DOMAIN field PROVE field[j] \in Playing(ms)
    <3>1. PICK i \in 1 .. k : j = 2 * i - 1 \/ j = 2 * i
      <4>1. j \in 1 .. 2 * k
        OBVIOUS
      <4>2. (j + 1) \div 2 \in 1 .. k /\ (j = 2 * ((j + 1) \div 2) - 1 \/ j = 2 * ((j + 1) \div 2))
        BY <4>1
      <4> QED BY <4>2
    <3>2. i \in DOMAIN ms /\ (field[j] = ms[i].p1 \/ field[j] = ms[i].p2)
      BY <3>1, <1>4, <1>5
    <3> QED BY <3>2, WhoPlays
  <2> QED BY <2>1, <2>2 DEF ToSet
<1> QED BY <1>1, <1>4, <1>6, <1>7, <1>8 DEF ms

Ends(ms, win, b, over) == over = [i \in DOMAIN ms |-> [ms[i] EXCEPT !.winner = win[i], !.beacon = b]]
\* A round that is decided splits who played in it into its winners, one of each match, and its losers.
LEMMA RoundSplits ==
  ASSUME NEW ms \in Seq(MatchUp), Apart(ms), NEW win \in [DOMAIN ms -> Players], NEW b \in Nat,
         \A i \in DOMAIN ms : win[i] \in {ms[i].p1, ms[i].p2},
         NEW over, Ends(ms, win, b, over)
  PROVE  /\ over \in Seq(MatchUp) /\ Len(over) = Len(ms) /\ Played(over) /\ Apart(over)
         /\ Playing(over) = Playing(ms)
         /\ {LoserOf(over[i]) : i \in DOMAIN over} = Losers(over)
         /\ win \in Seq(Players) /\ Len(win) = Len(ms) /\ OneToOne(win)
         /\ Losers(over) = Playing(ms) \ ToSet(win) /\ ToSet(win) \subseteq Playing(ms)
<1>0. DOMAIN ms = 1 .. Len(ms) /\ Len(ms) \in Nat /\ \A i \in DOMAIN ms : ms[i] \in MatchUp
  OBVIOUS
<1>1. ASSUME NEW i \in DOMAIN ms
      PROVE  /\ over[i] \in MatchUp
             /\ over[i].p1 = ms[i].p1 /\ over[i].p2 = ms[i].p2 /\ over[i].winner = win[i]
             /\ over[i].p1 \in Players /\ over[i].p2 \in Players
  BY <1>0 DEF MatchUp, Ends
<1>2. DOMAIN over = DOMAIN ms /\ over = [i \in DOMAIN ms |-> over[i]]
  BY DEF Ends
<1>3. over \in Seq(MatchUp) /\ Len(over) = Len(ms)
  <2>1. over = [i \in 1 .. Len(ms) |-> over[i]] /\ \A i \in 1 .. Len(ms) : over[i] \in MatchUp
    BY <1>0, <1>1, <1>2
  <2> QED BY <2>1, <1>0
<1>4. win \in Seq(Players) /\ Len(win) = Len(ms) /\ DOMAIN win = DOMAIN ms
  BY <1>0
<1>5. Played(over)
  BY <1>1, <1>2 DEF Played
<1>6. Apart(over)
  BY <1>1, <1>2 DEF Apart
<1>7. Playing(over) = Playing(ms)
  BY <1>1, <1>2 DEF Playing
<1>8. OneToOne(win)
  BY <1>4 DEF OneToOne, Apart
<1>9. \A i \in DOMAIN ms : ~Pending(over[i]) /\ {over[i].p1, over[i].p2} = {win[i], Loser(over[i])}
                           /\ Loser(over[i]) # win[i] /\ Loser(over[i]) \in Players
  BY <1>1, PlayersAssumption DEF Pending, Loser, Apart
<1>10. Losers(over) = {Loser(over[i]) : i \in DOMAIN over}
  BY <1>2, <1>9 DEF Losers
<1>11. {LoserOf(over[i]) : i \in DOMAIN over} = {Loser(over[i]) : i \in DOMAIN over}
  BY DEF LoserOf
<1>12. ToSet(win) \subseteq Playing(ms)
  BY <1>4 DEF ToSet, Playing
<1>13. ASSUME NEW i \in DOMAIN ms, NEW j \in DOMAIN ms PROVE Loser(over[i]) # win[j]
  BY <1>1, <1>9 DEF Apart, Loser
<1>14. Losers(over) = Playing(ms) \ ToSet(win)
  <2>1. ASSUME NEW i \in DOMAIN ms PROVE Loser(over[i]) \in Playing(ms) \ ToSet(win)
    <3>1. Loser(over[i]) \in {ms[i].p1, ms[i].p2}
      BY <1>1, <1>9
    <3> QED BY <3>1, <1>4, <1>13 DEF Playing, ToSet
  <2>2. ASSUME NEW p \in Playing(ms), p \notin ToSet(win) PROVE \E i \in DOMAIN ms : p = Loser(over[i])
    <3>1. PICK i \in DOMAIN ms : p \in {ms[i].p1, ms[i].p2}
      BY DEF Playing
    <3>2. win[i] \in ToSet(win)
      BY <1>4 DEF ToSet
    <3>3. p \in {over[i].p1, over[i].p2} /\ p # win[i]
      BY <2>2, <3>1, <3>2, <1>1
    <3>4. p = Loser(over[i])
      BY <3>3, <1>9
    <3> QED BY <3>4
  <2> QED BY <1>2, <1>10, <2>1, <2>2
<1> QED BY <1>3, <1>4, <1>5, <1>6, <1>7, <1>8, <1>10, <1>11, <1>12, <1>14

-----------------------------------------------------------------------------
(* The tournament.                                                          *)

Round == [field : Nat, matches : Seq(MatchUp)]
Statuses == {"registering", "running", "ended"}
Exits == UNION {[S -> Nat] : S \in SUBSET Players}
Cup == [status : Statuses, entrants : Seq(Players), rounds : Seq(Round), out : Exits,
        champion : Players \cup {None}]
CupTyped == cup \in Cup
OthersTyped ==
  /\ orders \in Seq([kind : {"start", "resolve"}, beacon : Nat]) /\ tip \in 0 .. MaxHeight
  /\ trophies \in [Places -> BOOLEAN] /\ DOMAIN queries \subseteq Players
\* Every entrant has entered once, and there is a place for each.
Entered ==
  /\ IsFiniteSet(Entrants) /\ Cardinality(Entrants) = Len(cup.entrants) /\ Len(cup.entrants) <= Size
Latest == Len(cup.rounds)
Phases ==
  /\ cup.status = "registering" <=> Latest = 0
  /\ Latest > 0 => Len(cup.entrants) = Size
  /\ cup.status = "ended" <=> cup.champion # None
  /\ cup.status = "ended" => Len(LastRound.matches) = 1
\* Rounds halve; all are decided but the one that is being played.
RoundsRight ==
  \A r \in 1 .. Latest :
    LET ms == cup.rounds[r].matches IN
      /\ Len(ms) \in {1, 2, 4, 8, 16} /\ cup.rounds[r].field = 2 * Len(ms)
      /\ Apart(ms) /\ Playing(ms) \subseteq Entrants
      /\ IF r < Latest \/ cup.status = "ended" THEN Played(ms) ELSE Unplayed(ms)
\* Who plays in a round was not out before it, and who lost in it is out as of it.
Standing ==
  /\ DOMAIN cup.out \subseteq Entrants
  /\ \A p \in DOMAIN cup.out :
       cup.out[p] \in 1 .. Latest /\ (cup.status = "running" => cup.out[p] < Latest)
  /\ \A r \in 1 .. Latest :
       /\ Playing(cup.rounds[r].matches) = {p \in Entrants : p \notin DOMAIN cup.out \/ cup.out[p] >= r}
       /\ Losers(cup.rounds[r].matches) = {p \in DOMAIN cup.out : cup.out[p] = r}
  /\ cup.status = "ended" => Entrants \ DOMAIN cup.out = {cup.champion}
BadgesRight ==
  /\ badges = [p \in Players |-> badges[p]]
  /\ \A p \in Players :
       /\ "finalist" \in badges[p] <=>
            \E r \in 1 .. Latest : cup.rounds[r].field = 2 /\ p \in Playing(cup.rounds[r].matches)
       /\ "champion" \in badges[p] <=> p = cup.champion
       /\ "runner_up" \in badges[p] => cup.status = "ended" /\ p \in DOMAIN cup.out /\ cup.out[p] = Latest
Bracket == CupTyped /\ Entered /\ Phases /\ RoundsRight /\ Standing /\ BadgesRight
ArenaInv == OthersTyped /\ Bracket

\* The parts of a tournament, and what a step that changes some of them leaves.
LEMMA CupParts ==
  ASSUME NEW c \in Cup
  PROVE  /\ c.status \in Statuses /\ c.entrants \in Seq(Players) /\ c.rounds \in Seq(Round)
         /\ c.out \in Exits /\ c.champion \in Players \cup {None}
         /\ DOMAIN c = {"status", "entrants", "rounds", "out", "champion"}
         /\ c = [status |-> c.status, entrants |-> c.entrants, rounds |-> c.rounds, out |-> c.out,
                 champion |-> c.champion]
BY DEF Cup
\* A cup with other entrants is a cup.
LEMMA NewEntrants ==
  ASSUME NEW c \in Cup, NEW es \in Seq(Players)
  PROVE  [c EXCEPT !.entrants = es] \in Cup
<1>1. [c EXCEPT !.entrants = es] = [status |-> c.status, entrants |-> es, rounds |-> c.rounds, out |-> c.out,
                                    champion |-> c.champion]
  BY DEF Cup
<1> QED BY <1>1, CupParts DEF Cup
\* What a record of who went out, and when, is.
LEMMA ExitsTyped ==
  /\ \A S \in SUBSET Players : \A f \in [S -> Nat] : f \in Exits
  /\ \A x \in Exits : DOMAIN x \subseteq Players /\ \A p \in DOMAIN x : x[p] \in Nat
BY DEF Exits
\* What a round of a bracket is made of.
LEMMA RoundParts ==
  ASSUME NEW rs \in Seq(Round), NEW r \in 1 .. Len(rs)
  PROVE  /\ rs[r] \in Round /\ rs[r].field \in Nat /\ rs[r].matches \in Seq(MatchUp)
         /\ DOMAIN rs[r].matches = 1 .. Len(rs[r].matches) /\ Len(rs[r].matches) \in Nat
         /\ \A i \in DOMAIN rs[r].matches : rs[r].matches[i] \in MatchUp
<1>1. rs[r] \in Round
  OBVIOUS
<1>2. rs[r].field \in Nat /\ rs[r].matches \in Seq(MatchUp)
  BY <1>1 DEF Round
<1> QED BY <1>1, <1>2
\* The field and the rounds, typed.
LEMMA EntrantsTyped ==
  ASSUME CupTyped
  PROVE  Entrants \subseteq Players /\ Latest \in Nat /\ DOMAIN cup.rounds = 1 .. Latest
<1>1. cup.entrants \in Seq(Players) /\ cup.rounds \in Seq(Round)
  BY CupParts DEF CupTyped
<1> QED BY <1>1 DEF Entrants, ToSet, Latest

\* A tournament that nobody has joined satisfies the invariant.
LEMMA ArenaBegins == ArenaInit => ArenaInv
<1> SUFFICES ASSUME ArenaInit PROVE ArenaInv
  OBVIOUS
<1>0. /\ cup = [status |-> "registering", entrants |-> <<>>, rounds |-> <<>>, out |-> <<>>, champion |-> None]
      /\ badges = [p \in Players |-> {}]
  BY DEF ArenaInit
<1>1. /\ cup.status = "registering" /\ cup.entrants = <<>> /\ cup.rounds = <<>> /\ cup.out = <<>>
      /\ cup.champion = None
  BY <1>0
<1>2. Latest = 0 /\ Len(cup.entrants) = 0 /\ DOMAIN cup.out = {} /\ Entrants = {}
  BY <1>1 DEF Latest, Entrants, ToSet
<1>3. CupTyped
  <2>1. <<>> \in Exits
    <3>1. <<>> \in [{} -> Nat]
      OBVIOUS
    <3> QED BY <3>1, ExitsTyped
  <2>2. "registering" \in Statuses
    BY DEF Statuses
  <2> QED BY <1>0, <2>1, <2>2 DEF CupTyped, Cup
<1>4. OthersTyped
  BY PlayersAssumption DEF ArenaInit, OthersTyped, Places
<1>5. Entered
  BY <1>2, FS_EmptySet, SizeAssumption DEF Entered
<1>6. Phases
  BY <1>1, <1>2 DEF Phases
<1>7. RoundsRight /\ Standing
  BY <1>1, <1>2 DEF RoundsRight, Standing
<1>8. BadgesRight
  BY <1>0, <1>1, <1>2, PlayersAssumption DEF BadgesRight
<1> QED BY <1>3, <1>4, <1>5, <1>6, <1>7, <1>8 DEF ArenaInv, Bracket

\* Steps that touch neither the cup nor the badges.
LEMMA BracketStands ==
  ASSUME Bracket, UNCHANGED <<cup, badges>>
  PROVE  Bracket'
BY DEF Bracket, CupTyped, Entered, Entrants, Phases, Latest, LastRound, RoundsRight, Standing, BadgesRight

\* Orders, owners and beacons keep their types in every step.
LEMMA OthersGoOn ==
  ASSUME OthersTyped, [ArenaNext]_arenaVars
  PROVE  OthersTyped'
<1>0. MaxHeight \in Nat
  BY PlayersAssumption
<1> DEFINE Asked == [kind : {"start", "resolve"}, beacon : Nat]
<1>1. \A k \in DOMAIN orders : RemoveAt(orders, k) \in Seq(Asked)
  <2> SUFFICES ASSUME NEW k \in 1 .. Len(orders) PROVE RemoveAt(orders, k) \in Seq(Asked)
    BY DEF OthersTyped
  <2> HIDE DEF Asked
  <2>1. orders \in Seq(Asked)
    BY DEF OthersTyped, Asked
  <2>2. SubSeq(orders, 1, k - 1) \in Seq(Asked) /\ SubSeq(orders, k + 1, Len(orders)) \in Seq(Asked)
    BY <2>1
  <2> QED BY <2>2 DEF RemoveAt
<1>2. ASSUME NEW kind \in {"start", "resolve"} PROVE Append(orders, [kind |-> kind, beacon |-> tip]) \in Seq(Asked)
  <2>1. tip \in Nat
    BY <1>0 DEF OthersTyped
  <2>2. [kind |-> kind, beacon |-> tip] \in Asked
    BY <2>1
  <2>3. orders \in Seq(Asked)
    BY DEF OthersTyped
  <2> HIDE DEF Asked
  <2> QED BY <2>2, <2>3
<1>3. orders' \in Seq(Asked)
  <2>1. CASE UNCHANGED orders
    BY <2>1 DEF OthersTyped
  <2>2. CASE \E kind \in {"start", "resolve"} : Order(kind)
    BY <2>2, <1>2 DEF Order
  <2>3. CASE \E k \in DOMAIN orders : Done(k)
    BY <2>3, <1>1 DEF Done
  <2> QED
    BY <2>1, <2>2, <2>3 DEF ArenaNext, Play, Operate, BlockComes, AskOwner, Join, Submit, Start, Resolve, SetTrophy,
       MintTrophy, MintAgain, arenaVars
<1>4. tip' \in 0 .. MaxHeight
  <2>1. tip' = tip \/ (tip < MaxHeight /\ tip' = tip + 1)
    BY DEF ArenaNext, Play, Operate, BlockComes, AskOwner, Join, Submit, Start, Resolve, SetTrophy,
       MintTrophy, MintAgain, Order, arenaVars, storeless
  <2> QED BY <1>0, <2>1 DEF OthersTyped
<1>5. trophies' \in [Places -> BOOLEAN]
  BY DEF OthersTyped, ArenaNext, Play, Operate, BlockComes, AskOwner, Join, Submit, Start, Resolve, SetTrophy,
     MintTrophy, MintAgain, Order, arenaVars
<1>6. DOMAIN queries' \subseteq Players
  BY DEF OthersTyped, ArenaNext, Play, Operate, BlockComes, AskOwner, Answered, Join, Submit, Start, Resolve, SetTrophy,
     MintTrophy, MintAgain, Order, arenaVars, storeless
<1> QED BY <1>3, <1>4, <1>5, <1>6 DEF OthersTyped

\* A player joins.
LEMMA JoinKeeps ==
  ASSUME Bracket, NEW p \in Players, Join(p)
  PROVE  Bracket'
<1> USE DEF Bracket
<1>1. CASE ~(cup.status = "registering" /\ HasRoom /\ p \notin Entrants)
  BY <1>1, BracketStands DEF Join
<1>2. CASE cup.status = "registering" /\ HasRoom /\ p \notin Entrants
  <2>1. cup' = [cup EXCEPT !.entrants = Append(cup.entrants, p)]
    BY <1>2 DEF Join
  <2>2. badges' = [badges EXCEPT ![p] = @ \cup {"tournament_debut"}]
    BY <1>2 DEF Join
  <2>3. cup \in Cup /\ cup.entrants \in Seq(Players)
    BY CupParts DEF CupTyped
  <2>4. /\ cup'.status = cup.status /\ cup'.entrants = Append(cup.entrants, p) /\ cup'.rounds = cup.rounds
        /\ cup'.out = cup.out /\ cup'.champion = cup.champion
    BY <2>1, <2>3, CupParts
  <2>5. CupTyped'
    <3>1. Append(cup.entrants, p) \in Seq(Players)
      BY <2>3
    <3> QED BY <2>1, <2>3, <3>1, NewEntrants DEF CupTyped
  <2>6. Entrants' = Entrants \cup {p} /\ Len(cup'.entrants) = Len(cup.entrants) + 1
    <3>1. \A s \in Seq(Players) : ToSet(Append(s, p)) = ToSet(s) \cup {p} /\ Len(Append(s, p)) = Len(s) + 1
      <4> SUFFICES ASSUME NEW s \in Seq(Players)
                   PROVE  ToSet(Append(s, p)) = ToSet(s) \cup {p} /\ Len(Append(s, p)) = Len(s) + 1
        OBVIOUS
      <4> DEFINE t == Append(s, p)
      <4>1. /\ DOMAIN s = 1 .. Len(s) /\ DOMAIN t = 1 .. Len(s) + 1 /\ Len(t) = Len(s) + 1 /\ Len(s) \in Nat
            /\ t[Len(s) + 1] = p /\ \A i \in DOMAIN s : t[i] = s[i]
        OBVIOUS
      <4> HIDE DEF t
      <4>2. ToSet(t) = ToSet(s) \cup {p}
        <5>1. \A x \in ToSet(t) : x \in ToSet(s) \cup {p}
          BY <4>1 DEF ToSet
        <5>2. \A x \in ToSet(s) : x \in ToSet(t)
          BY <4>1 DEF ToSet
        <5>3. p \in ToSet(t)
          BY <4>1 DEF ToSet
        <5> QED BY <5>1, <5>2, <5>3
      <4> QED BY <4>1, <4>2 DEF t
    <3> QED BY <2>3, <2>4, <3>1 DEF Entrants
  <2>7. Entered'
    BY <1>2, <2>3, <2>6, FS_AddElement, SizeAssumption DEF Entered, HasRoom
  <2>8. Latest = 0 /\ Latest' = 0 /\ DOMAIN cup.out = {} /\ cup.champion = None
    BY <1>2, <2>4 DEF Phases, Standing, Latest
  <2>9. Phases' /\ RoundsRight' /\ Standing'
    BY <1>2, <2>4, <2>8 DEF Phases, RoundsRight, Standing
  <2>10. BadgesRight'
    <3>1. badges' = [q \in Players |-> badges'[q]]
      BY <2>2 DEF BadgesRight
    <3>2. \A q \in Players : badges'[q] = badges[q] \/ badges'[q] = badges[q] \cup {"tournament_debut"}
      BY <2>2 DEF BadgesRight
    <3>3. \A q \in Players : \A b \in {"finalist", "champion", "runner_up"} : b \in badges'[q] <=> b \in badges[q]
      BY <3>2
    <3> QED BY <2>4, <2>8, <3>1, <3>3 DEF BadgesRight
  <2> QED BY <2>5, <2>7, <2>9, <2>10
<1> QED BY <1>1, <1>2

\* What the invariant says of one round.
LEMMA RoundSays ==
  ASSUME RoundsRight, NEW r \in 1 .. Latest
  PROVE  /\ Len(cup.rounds[r].matches) \in {1, 2, 4, 8, 16}
         /\ cup.rounds[r].field = 2 * Len(cup.rounds[r].matches)
         /\ Apart(cup.rounds[r].matches) /\ Playing(cup.rounds[r].matches) \subseteq Entrants
         /\ r < Latest \/ cup.status = "ended" => Played(cup.rounds[r].matches)
         /\ ~(r < Latest \/ cup.status = "ended") => Unplayed(cup.rounds[r].matches)
BY DEF RoundsRight

\* Loadouts change nothing of who plays whom and who has won.
LEMMA SameBracket ==
  ASSUME Bracket, cup' \in Cup, UNCHANGED badges,
         cup'.status = cup.status, cup'.entrants = cup.entrants, cup'.out = cup.out,
         cup'.champion = cup.champion, Len(cup'.rounds) = Len(cup.rounds),
         \A r \in 1 .. Latest :
           LET ms == cup.rounds[r].matches  after == cup'.rounds[r].matches IN
             /\ cup'.rounds[r].field = cup.rounds[r].field /\ Len(after) = Len(ms)
             /\ \A i \in 1 .. Len(ms) :
                  after[i].p1 = ms[i].p1 /\ after[i].p2 = ms[i].p2 /\ after[i].winner = ms[i].winner
  PROVE  Bracket'
<1> USE DEF Bracket
<1>1. cup.rounds \in Seq(Round) /\ cup'.rounds \in Seq(Round)
  BY CupParts DEF CupTyped
<1>2. ASSUME NEW r \in 1 .. Latest
      PROVE  LET ms == cup.rounds[r].matches  after == cup'.rounds[r].matches IN
               /\ DOMAIN after = DOMAIN ms
               /\ Playing(after) = Playing(ms) /\ Losers(after) = Losers(ms)
               /\ (Apart(ms) => Apart(after)) /\ (Played(ms) => Played(after)) /\ (Unplayed(ms) => Unplayed(after))
  <2> DEFINE ms == cup.rounds[r].matches
             after == cup'.rounds[r].matches
  <2>1. DOMAIN ms = 1 .. Len(ms)
    BY <1>1, RoundParts DEF Latest
  <2>2. DOMAIN after = 1 .. Len(after)
    <3>1. r \in 1 .. Len(cup'.rounds)
      BY DEF Latest
    <3> QED BY <1>1, <3>1, RoundParts
  <2>3. DOMAIN after = DOMAIN ms
        /\ \A i \in DOMAIN ms : after[i].p1 = ms[i].p1 /\ after[i].p2 = ms[i].p2 /\ after[i].winner = ms[i].winner
    BY <2>1, <2>2
  <2> HIDE DEF ms, after
  <2>4. Playing(after) = Playing(ms)
    BY <2>3 DEF Playing
  <2>5. \A i \in DOMAIN ms : (Pending(after[i]) <=> Pending(ms[i])) /\ Loser(after[i]) = Loser(ms[i])
    BY <2>3 DEF Pending, Loser
  <2>6. Losers(after) = Losers(ms)
    BY <2>3, <2>5 DEF Losers
  <2>7. Apart(ms) => Apart(after)
    BY <2>3 DEF Apart
  <2>8. (Played(ms) => Played(after)) /\ (Unplayed(ms) => Unplayed(after))
    BY <2>3, <2>5 DEF Played, Unplayed
  <2> QED BY <2>3, <2>4, <2>6, <2>7, <2>8 DEF ms, after
<1>3. Latest' = Latest /\ Entrants' = Entrants
  BY DEF Latest, Entrants
<1>4. CupTyped' /\ Entered'
  BY <1>3 DEF CupTyped, Entered
<1>5. Phases'
  <2>1. cup.status = "ended" => Latest \in 1 .. Latest
    BY <1>1 DEF Phases, Latest
  <2> QED BY <1>3, <2>1 DEF Phases, LastRound, Latest
<1>6. RoundsRight'
  BY <1>2, <1>3 DEF RoundsRight
<1>7. Standing'
  BY <1>2, <1>3 DEF Standing
<1>8. BadgesRight'
  BY <1>2, <1>3 DEF BadgesRight
<1> QED BY <1>4, <1>5, <1>6, <1>7, <1>8

\* The last round with other matches, everything else as it was.
LEMMA LastRoundSet ==
  ASSUME NEW c \in Cup, NEW r \in 1 .. Len(c.rounds), NEW ms \in Seq(MatchUp),
         NEW rs, rs = [c.rounds EXCEPT ![r].matches = ms]
  PROVE  /\ rs \in Seq(Round) /\ Len(rs) = Len(c.rounds)
         /\ rs[r].matches = ms /\ rs[r].field = c.rounds[r].field
         /\ \A x \in 1 .. Len(c.rounds) : x # r => rs[x] = c.rounds[x]
<1>1. c.rounds \in Seq(Round) /\ Len(c.rounds) \in Nat /\ DOMAIN c.rounds = 1 .. Len(c.rounds)
  BY CupParts
<1>2. c.rounds[r] \in Round
  BY <1>1
<1> DEFINE new == [c.rounds[r] EXCEPT !.matches = ms]
<1>3. new \in Round /\ new.matches = ms /\ new.field = c.rounds[r].field
  BY <1>2 DEF Round
<1>4. rs = [c.rounds EXCEPT ![r] = new]
  OBVIOUS
<1> HIDE DEF new
<1>5. rs \in Seq(Round) /\ Len(rs) = Len(c.rounds)
  BY <1>1, <1>3, <1>4
<1> QED BY <1>1, <1>3, <1>4, <1>5

\* A player locks a loadout for the round.
LEMMA SubmitKeeps ==
  ASSUME Bracket, NEW p \in Players, NEW l \in Loadouts, Submit(p, l)
  PROVE  Bracket'
<1> DEFINE r == Len(cup.rounds)
           ms == LastRound.matches
<1>1. PICK i \in MatchOf(p) :
        cup' = [cup EXCEPT !.rounds[r].matches[i] =
                  IF ms[i].p1 = p THEN [ms[i] EXCEPT !.l1 = l] ELSE [ms[i] EXCEPT !.l2 = l]]
  BY DEF Submit
<1>2. cup \in Cup /\ cup.rounds \in Seq(Round) /\ cup.status = "running"
  BY CupParts DEF Bracket, CupTyped, Submit
<1>3. r \in 1 .. r
  BY <1>2 DEF Bracket, Phases, Latest
<1>4. ms = cup.rounds[r].matches /\ ms \in Seq(MatchUp) /\ i \in 1 .. Len(ms) /\ ms[i] \in MatchUp
  <2>1. ms = cup.rounds[r].matches /\ i \in DOMAIN ms
    BY DEF LastRound, MatchOf
  <2> QED BY <1>2, <1>3, <2>1, RoundParts
<1> DEFINE m == IF ms[i].p1 = p THEN [ms[i] EXCEPT !.l1 = l] ELSE [ms[i] EXCEPT !.l2 = l]
           after == [ms EXCEPT ![i] = m]
           rs == [cup.rounds EXCEPT ![r].matches = after]
<1>5. m \in MatchUp /\ m.p1 = ms[i].p1 /\ m.p2 = ms[i].p2 /\ m.winner = ms[i].winner
  BY <1>4 DEF MatchUp
<1>6. cup' = [cup EXCEPT !.rounds = rs]
  BY <1>1, <1>4
<1>7. after \in Seq(MatchUp) /\ Len(after) = Len(ms) /\ after[i] = m
      /\ \A j \in 1 .. Len(ms) : j # i => after[j] = ms[j]
  <2> HIDE DEF m, ms
  <2> QED BY <1>4, <1>5
<1>8. \A j \in 1 .. Len(ms) : after[j].p1 = ms[j].p1 /\ after[j].p2 = ms[j].p2 /\ after[j].winner = ms[j].winner
  <2> HIDE DEF m, ms, after
  <2> QED BY <1>5, <1>7
<1> HIDE DEF after
<1>75. rs = [cup.rounds EXCEPT ![r].matches = after] /\ after \in Seq(MatchUp)
  BY <1>7 DEF after
<1> HIDE DEF rs, m
<1>9. /\ rs \in Seq(Round) /\ Len(rs) = r /\ rs[r].matches = after /\ rs[r].field = cup.rounds[r].field
      /\ \A x \in 1 .. r : x # r => rs[x] = cup.rounds[x]
  BY <1>2, <1>3, <1>75, LastRoundSet
<1>10. /\ cup' \in Cup /\ cup'.status = cup.status /\ cup'.entrants = cup.entrants /\ cup'.out = cup.out
       /\ cup'.champion = cup.champion /\ cup'.rounds = rs
  BY <1>2, <1>6, <1>9, CupParts DEF Cup
<1>11. \A x \in 1 .. Latest :
         LET old == cup.rounds[x].matches  new == cup'.rounds[x].matches IN
           /\ cup'.rounds[x].field = cup.rounds[x].field /\ Len(new) = Len(old)
           /\ \A j \in 1 .. Len(old) :
                new[j].p1 = old[j].p1 /\ new[j].p2 = old[j].p2 /\ new[j].winner = old[j].winner
  <2> SUFFICES ASSUME NEW x \in 1 .. Latest
               PROVE  LET old == cup.rounds[x].matches  new == rs[x].matches IN
                        /\ rs[x].field = cup.rounds[x].field /\ Len(new) = Len(old)
                        /\ \A j \in 1 .. Len(old) :
                             new[j].p1 = old[j].p1 /\ new[j].p2 = old[j].p2 /\ new[j].winner = old[j].winner
    BY <1>10
  <2>1. CASE x = r
    BY <2>1, <1>4, <1>7, <1>8, <1>9
  <2>2. CASE x # r
    BY <2>2, <1>9 DEF Latest
  <2> QED BY <2>1, <2>2
<1>12. UNCHANGED badges
  BY DEF Submit
<1> QED BY <1>9, <1>10, <1>11, <1>12, SameBracket

-----------------------------------------------------------------------------
(* Rounds begin and end.                                                    *)

\* Which badge a field of this size gives: only the last round makes finalists.
LEMMA FieldBadges ==
  ASSUME NEW n
  PROVE  (FieldBadge(n) = "finalist" <=> n = 2) /\ FieldBadge(n) # "champion" /\ FieldBadge(n) # "runner_up"
BY DEF FieldBadge
\* What reaching a round adds to the badges.
LEMMA ReachedSays ==
  ASSUME NEW bs, NEW field, NEW k, Len(field) = k
  PROVE  /\ Reached(bs, field) = [p \in Players |-> Reached(bs, field)[p]]
         /\ \A p \in Players :
              /\ "finalist" \in Reached(bs, field)[p] <=> "finalist" \in bs[p] \/ (k = 2 /\ p \in ToSet(field))
              /\ \A b \in {"champion", "runner_up"} : b \in Reached(bs, field)[p] <=> b \in bs[p]
<1>1. Reached(bs, field) = [p \in Players |-> Reached(bs, field)[p]]
  BY DEF Reached
<1>2. \A p \in Players : Reached(bs, field)[p] = IF p \in ToSet(field) THEN bs[p] \cup {FieldBadge(k)} ELSE bs[p]
  BY DEF Reached
<1> QED BY <1>1, <1>2, FieldBadges

\* The shuffle has everybody in it, once: it is onto the entrants, and there are as many of them.
LEMMA Shuffled ==
  ASSUME CupTyped, Entered, Len(cup.entrants) = Size, NEW field \in Shuffles
  PROVE  field \in Seq(Players) /\ Len(field) = Size /\ OneToOne(field) /\ ToSet(field) = Entrants
<1>0. Size \in Nat
  BY SizeAssumption
<1>1. field \in [1 .. Size -> Entrants] /\ ToSet(field) = Entrants /\ Entrants \subseteq Players
  BY EntrantsTyped DEF Shuffles
<1>2. field \in Seq(Players) /\ Len(field) = Size
  BY <1>0, <1>1
<1>3. field \in Surjection(1 .. Size, Entrants)
  BY <1>1 DEF Surjection, ToSet
<1>4. Cardinality(1 .. Size) = Cardinality(Entrants) /\ IsFiniteSet(1 .. Size)
  BY <1>0, FS_Interval DEF Entered
<1>5. field \in Injection(1 .. Size, Entrants)
  BY <1>3, <1>4, FS_SurjSameCardinalityImpliesInj DEF Entered
<1>6. OneToOne(field)
  BY <1>1, <1>5 DEF Injection, IsInjective, OneToOne
<1> QED BY <1>1, <1>2, <1>6

\* The tournament starts: the first round is laid out.
LEMMA StartKeeps ==
  ASSUME Bracket, NEW k, Start(k)
  PROVE  Bracket'
<1> USE DEF Bracket
<1>1. CASE ~(cup.status = "registering" /\ Len(cup.entrants) = Size)
  BY <1>1, BracketStands DEF Start
<1>2. CASE cup.status = "registering" /\ Len(cup.entrants) = Size
  <2>1. PICK field \in Shuffles :
          /\ cup' = [cup EXCEPT !.status = "running", !.rounds = <<Layout(1, field)>>]
          /\ badges' = Reached(badges, field)
    BY <1>2 DEF Start
  <2>2. field \in Seq(Players) /\ Len(field) = Size /\ OneToOne(field) /\ ToSet(field) = Entrants
    BY <1>2, Shuffled
  <2>3. PICK half \in {2, 4, 8, 16} : Size = 2 * half
    BY SizeAssumption
  <2> DEFINE round == Layout(1, field)
             ms == round.matches
  <2>4. /\ round.field = 2 * half /\ ms \in Seq(MatchUp) /\ Len(ms) = half
        /\ Playing(ms) = Entrants /\ Apart(ms) /\ Unplayed(ms)
    BY <2>2, <2>3, LaidOut
  <2>5. round \in Round
    <3>1. round = [field |-> round.field, matches |-> round.matches]
      BY DEF Layout
    <3> HIDE DEF round
    <3> QED BY <3>1, <2>3, <2>4 DEF Round
  <2>6. cup \in Cup
    BY DEF CupTyped
  <2> HIDE DEF round
  <2>7. cup' = [cup EXCEPT !.status = "running", !.rounds = <<round>>]
    BY <2>1 DEF round
  <2>8. /\ cup'.status = "running" /\ cup'.entrants = cup.entrants /\ cup'.rounds = <<round>>
        /\ cup'.out = cup.out /\ cup'.champion = cup.champion
    BY <2>6, <2>7, CupParts
  <2>9. CupTyped'
    <3>1. <<round>> \in Seq(Round) /\ "running" \in Statuses
      BY <2>5 DEF Statuses
    <3>2. cup' = [status |-> "running", entrants |-> cup.entrants, rounds |-> <<round>>, out |-> cup.out,
                  champion |-> cup.champion]
      BY <2>6, <2>7 DEF Cup
    <3> QED BY <2>6, <3>1, <3>2, CupParts DEF CupTyped, Cup
  <2>10. Entrants' = Entrants /\ Latest' = 1 /\ cup'.rounds[1] = round /\ LastRound' = round
    BY <2>8 DEF Entrants, Latest, LastRound
  <2>11. Latest = 0 /\ DOMAIN cup.out = {} /\ cup.champion = None
    BY <1>2 DEF Phases, Standing
  <2>12. Entered'
    BY <2>8, <2>10 DEF Entered
  <2>13. Phases'
    BY <1>2, <2>8, <2>10, <2>11 DEF Phases
  <2>14. RoundsRight'
    <3> DEFINE S == {1, 2, 4, 8, 16}
    <3>1. /\ Len(ms) \in S /\ round.field = 2 * Len(ms) /\ Apart(ms) /\ Playing(ms) \subseteq Entrants /\ Unplayed(ms)
      BY <2>3, <2>4
    <3> HIDE DEF S
    <3>2. \A r \in 1 .. 1 : r = 1 /\ ~(r < 1)
      OBVIOUS
    <3> SUFFICES \A r \in 1 .. 1 :
                   LET these == cup'.rounds[r].matches IN
                     /\ Len(these) \in S /\ cup'.rounds[r].field = 2 * Len(these)
                     /\ Apart(these) /\ Playing(these) \subseteq Entrants
                     /\ IF r < 1 \/ cup'.status = "ended" THEN Played(these) ELSE Unplayed(these)
      BY <2>10 DEF RoundsRight, S
    <3> QED BY <2>8, <2>10, <3>1, <3>2
  <2>15. Standing'
    <3>1. Losers(ms) = {}
      BY <2>4 DEF Losers, Unplayed
    <3> QED BY <2>4, <2>8, <2>10, <2>11, <3>1 DEF Standing
  <2>16. BadgesRight'
    <3>1. ~(Size = 2)
      BY SizeAssumption
    <3>2. /\ badges' = [p \in Players |-> badges'[p]]
          /\ \A p \in Players :
               \A b \in {"finalist", "champion", "runner_up"} : b \in badges'[p] <=> b \in badges[p]
      BY <2>1, <2>2, <3>1, ReachedSays
    <3>3. \A p \in Players : "finalist" \notin badges[p] /\ "champion" \notin badges[p] /\ "runner_up" \notin badges[p]
      BY <2>11, <1>2, PlayersAssumption DEF BadgesRight
    <3>4. round.field # 2
      BY <2>3, <2>4
    <3> QED BY <2>8, <2>10, <2>11, <3>2, <3>3, <3>4, PlayersAssumption DEF BadgesRight
  <2> QED BY <2>9, <2>12, <2>13, <2>14, <2>15, <2>16
<1> QED BY <1>1, <1>2

\* The round that is resolved: who wins stays, who loses is out as of it.
Outcome(over, exits, rs, win, b) ==
  LET ms == LastRound.matches
      beaten == {LoserOf(over[i]) : i \in DOMAIN over} IN
    /\ win \in [DOMAIN ms -> Players] /\ b \in Nat /\ \A i \in DOMAIN ms : win[i] \in CanWin(ms[i])
    /\ Ends(ms, win, b, over)
    /\ exits = [p \in DOMAIN cup.out \cup beaten |-> IF p \in beaten THEN Latest ELSE cup.out[p]]
    /\ rs = [cup.rounds EXCEPT ![Latest].matches = over]
\* What resolving the latest round leaves of the bracket, whatever comes after it.
LEMMA Resolved ==
  ASSUME Bracket, cup.status = "running", NEW over, NEW exits, NEW rs, NEW win, NEW b,
         Outcome(over, exits, rs, win, b)
  PROVE  /\ Latest \in 1 .. Latest /\ Latest \in Nat
         /\ rs \in Seq(Round) /\ Len(rs) = Latest /\ exits \in Exits
         /\ DOMAIN exits \subseteq Entrants /\ \A p \in DOMAIN exits : exits[p] \in 1 .. Latest
         /\ \A r \in 1 .. Latest :
              /\ Len(rs[r].matches) \in {1, 2, 4, 8, 16} /\ rs[r].field = 2 * Len(rs[r].matches)
              /\ rs[r].field = cup.rounds[r].field
              /\ Apart(rs[r].matches) /\ Played(rs[r].matches)
              /\ Playing(rs[r].matches) = Playing(cup.rounds[r].matches)
              /\ Playing(rs[r].matches) = {p \in Entrants : p \notin DOMAIN exits \/ exits[p] >= r}
              /\ Losers(rs[r].matches) = {p \in DOMAIN exits : exits[p] = r}
         /\ rs[Latest].matches = over /\ Len(over) = Len(LastRound.matches)
         /\ win \in Seq(Players) /\ Len(win) = Len(over) /\ OneToOne(win)
         /\ ToSet(win) = Entrants \ DOMAIN exits
<1> USE DEF Bracket
<1> DEFINE ms == LastRound.matches
           beaten == {LoserOf(over[i]) : i \in DOMAIN over}
<1>0. cup \in Cup /\ cup.rounds \in Seq(Round) /\ cup.out \in Exits
  BY CupParts DEF CupTyped
<1>1. Latest \in Nat /\ Latest \in 1 .. Latest
  BY <1>0, EntrantsTyped DEF Phases
<1>2. ms = cup.rounds[Latest].matches /\ ms \in Seq(MatchUp) /\ Apart(ms) /\ Unplayed(ms)
      /\ Len(ms) \in {1, 2, 4, 8, 16} /\ cup.rounds[Latest].field = 2 * Len(ms)
  <2>1. ms = cup.rounds[Latest].matches
    BY DEF LastRound, Latest
  <2>2. ms \in Seq(MatchUp)
    BY <1>0, <1>1, <2>1, RoundParts DEF Latest
  <2>3. ~(Latest < Latest)
    BY <1>1
  <2> HIDE DEF ms
  <2> QED BY <1>1, <2>1, <2>2, <2>3, RoundSays
<1>3. \A i \in DOMAIN ms : win[i] \in {ms[i].p1, ms[i].p2}
  BY DEF Outcome, CanWin
<1>4. /\ over \in Seq(MatchUp) /\ Len(over) = Len(ms) /\ Played(over) /\ Apart(over)
      /\ Playing(over) = Playing(ms) /\ beaten = Losers(over)
      /\ win \in Seq(Players) /\ Len(win) = Len(ms) /\ OneToOne(win)
      /\ Losers(over) = Playing(ms) \ ToSet(win) /\ ToSet(win) \subseteq Playing(ms)
  <2> HIDE DEF ms
  <2>1. /\ win \in [DOMAIN ms -> Players] /\ b \in Nat
        /\ Ends(ms, win, b, over)
    BY DEF Outcome, ms
  <2>2. ms \in Seq(MatchUp) /\ Apart(ms)
    BY <1>2
  <2> USE DEF beaten
  <2> QED BY <1>3, <2>1, <2>2, RoundSplits
<1>5. exits = [p \in DOMAIN cup.out \cup beaten |-> IF p \in beaten THEN Latest ELSE cup.out[p]]
  BY DEF Outcome
<1>6. /\ rs \in Seq(Round) /\ Len(rs) = Latest /\ rs[Latest].matches = over
      /\ rs[Latest].field = cup.rounds[Latest].field /\ \A x \in 1 .. Latest : x # Latest => rs[x] = cup.rounds[x]
  <2>1. rs = [cup.rounds EXCEPT ![Latest].matches = over]
    BY DEF Outcome
  <2>2. Latest \in 1 .. Len(cup.rounds) /\ Latest = Len(cup.rounds)
    BY <1>1 DEF Latest
  <2>3. over \in Seq(MatchUp)
    BY <1>4
  <2> QED BY <1>0, <2>1, <2>2, <2>3, LastRoundSet
<1> HIDE DEF ms, beaten
<1>7. Playing(ms) = Entrants \ DOMAIN cup.out
  BY <1>1, <1>2 DEF Standing
<1>8. /\ beaten \subseteq Entrants \ DOMAIN cup.out /\ DOMAIN exits = DOMAIN cup.out \cup beaten
      /\ \A p \in DOMAIN exits : exits[p] = IF p \in beaten THEN Latest ELSE cup.out[p]
  BY <1>4, <1>5, <1>7
<1>9. ToSet(win) = Entrants \ DOMAIN exits
  BY <1>4, <1>7, <1>8
<1>10. DOMAIN exits \subseteq Entrants /\ \A p \in DOMAIN exits : exits[p] \in 1 .. Latest
  BY <1>1, <1>8 DEF Standing
<1>11. exits \in Exits
  <2>1. DOMAIN exits \in SUBSET Players /\ exits \in [DOMAIN exits -> Nat]
    <3>1. exits = [p \in DOMAIN exits |-> exits[p]]
      BY <1>5
    <3>2. \A p \in DOMAIN exits : exits[p] \in Nat
      BY <1>1, <1>10
    <3> QED BY <1>10, <3>1, <3>2, EntrantsTyped
  <2> QED BY <2>1, ExitsTyped
<1>12. ASSUME NEW r \in 1 .. Latest
       PROVE  /\ Len(rs[r].matches) \in {1, 2, 4, 8, 16} /\ rs[r].field = 2 * Len(rs[r].matches)
              /\ rs[r].field = cup.rounds[r].field
              /\ Apart(rs[r].matches) /\ Played(rs[r].matches)
              /\ Playing(rs[r].matches) = Playing(cup.rounds[r].matches)
  <2>1. CASE r = Latest
    BY <2>1, <1>2, <1>4, <1>6
  <2>2. CASE r # Latest
    <3>1. rs[r] = cup.rounds[r] /\ r < Latest
      BY <2>2, <1>6, <1>1
    <3> QED BY <3>1, RoundSays
  <2> QED BY <2>1, <2>2
<1>13. ASSUME NEW r \in 1 .. Latest
       PROVE  Playing(rs[r].matches) = {p \in Entrants : p \notin DOMAIN exits \/ exits[p] >= r}
  <2>1. Playing(rs[r].matches) = {p \in Entrants : p \notin DOMAIN cup.out \/ cup.out[p] >= r}
    BY <1>12 DEF Standing
  <2>2. ASSUME NEW p \in Entrants
        PROVE  (p \notin DOMAIN cup.out \/ cup.out[p] >= r) <=> (p \notin DOMAIN exits \/ exits[p] >= r)
    <3>1. CASE p \in beaten
      BY <3>1, <1>1, <1>8
    <3>2. CASE p \notin beaten
      BY <3>2, <1>8
    <3> QED BY <3>1, <3>2
  <2> QED BY <2>1, <2>2
<1>14. ASSUME NEW r \in 1 .. Latest
       PROVE  Losers(rs[r].matches) = {p \in DOMAIN exits : exits[p] = r}
  <2>1. CASE r = Latest
    <3>1. Losers(rs[r].matches) = beaten
      BY <2>1, <1>4, <1>6
    <3>2. \A p \in DOMAIN cup.out : cup.out[p] < Latest /\ cup.out[p] # Latest
      BY <1>1 DEF Standing
    <3> QED BY <2>1, <3>1, <3>2, <1>8
  <2>2. CASE r # Latest
    <3>1. Losers(rs[r].matches) = {p \in DOMAIN cup.out : cup.out[p] = r}
      BY <2>2, <1>6 DEF Standing
    <3> QED BY <2>2, <3>1, <1>8
  <2> QED BY <2>1, <2>2
<1> QED BY <1>1, <1>4, <1>6, <1>9, <1>10, <1>11, <1>12, <1>13, <1>14 DEF ms

\* One winner.
LEMMA OnlyOne ==
  ASSUME NEW win \in Seq(Players), Len(win) = 1
  PROVE  win[1] \in Players /\ ToSet(win) = {win[1]}
<1>1. DOMAIN win = 1 .. 1 /\ win[1] \in Players
  OBVIOUS
<1> QED BY <1>1 DEF ToSet

\* One match.
LEMMA OnlyMatch ==
  ASSUME NEW ms \in Seq(MatchUp), Len(ms) = 1
  PROVE  DOMAIN ms = {1} /\ ms[1] \in MatchUp
<1>1. DOMAIN ms = 1 .. 1 /\ ms[1] \in MatchUp
  OBVIOUS
<1> QED BY <1>1

\* The final crowns its winner; a round before it lays out the next one.
Crowns(over, exits, rs, win) ==
  /\ cup' = [[cup EXCEPT !.rounds = rs, !.out = exits] EXCEPT !.status = "ended", !.champion = win[1]]
  /\ badges' = [badges EXCEPT ![win[1]] = @ \cup {"champion"}, ![Loser(over[1])] = @ \cup {"runner_up"}]
\* The final is resolved: the cup has its champion.
LEMMA FinalKeeps ==
  ASSUME Bracket, cup.status = "running", NEW over, NEW exits, NEW rs, NEW win, NEW b,
         Outcome(over, exits, rs, win, b), Len(LastRound.matches) = 1,
         Crowns(over, exits, rs, win)
  PROVE  Bracket'
<1> USE DEF Bracket
<1>1. /\ Latest \in 1 .. Latest /\ Latest \in Nat
      /\ rs \in Seq(Round) /\ Len(rs) = Latest /\ exits \in Exits
      /\ DOMAIN exits \subseteq Entrants /\ \A p \in DOMAIN exits : exits[p] \in 1 .. Latest
      /\ rs[Latest].matches = over /\ Len(over) = 1
      /\ win \in Seq(Players) /\ Len(win) = 1 /\ ToSet(win) = Entrants \ DOMAIN exits
  BY Resolved
<1>2. cup \in Cup
  BY DEF CupTyped
<1>3. win[1] \in Players /\ ToSet(win) = {win[1]}
  BY <1>1, OnlyOne
<1>4. /\ cup'.status = "ended" /\ cup'.entrants = cup.entrants /\ cup'.rounds = rs
      /\ cup'.out = exits /\ cup'.champion = win[1]
  BY <1>2, CupParts DEF Crowns
<1>5. CupTyped'
  <2>1. "ended" \in Statuses
    BY DEF Statuses
  <2>2. cup' = [status |-> "ended", entrants |-> cup.entrants, rounds |-> rs, out |-> exits, champion |-> win[1]]
    BY <1>2 DEF Cup, Crowns
  <2> QED BY <1>1, <1>2, <1>3, <2>1, <2>2, CupParts DEF CupTyped, Cup
<1>6. Entrants' = Entrants /\ Latest' = Latest /\ LastRound' = rs[Latest]
  BY <1>1, <1>4 DEF Entrants, Latest, LastRound
<1>7. Entered'
  BY <1>4, <1>6 DEF Entered
<1>8. Phases'
  BY <1>1, <1>3, <1>4, <1>6, PlayersAssumption DEF Phases
<1>9. RoundsRight'
  <2>1. \A r \in 1 .. Latest :
          /\ Len(rs[r].matches) \in {1, 2, 4, 8, 16} /\ rs[r].field = 2 * Len(rs[r].matches)
          /\ Apart(rs[r].matches) /\ Played(rs[r].matches) /\ Playing(rs[r].matches) \subseteq Entrants
    <3>1. \A r \in 1 .. Latest : Playing(rs[r].matches) = Playing(cup.rounds[r].matches)
      BY Resolved
    <3>2. \A r \in 1 .. Latest : Playing(cup.rounds[r].matches) \subseteq Entrants
      BY RoundSays
    <3> SUFFICES ASSUME NEW r \in 1 .. Latest
                 PROVE  /\ Len(rs[r].matches) \in {1, 2, 4, 8, 16} /\ rs[r].field = 2 * Len(rs[r].matches)
                        /\ Apart(rs[r].matches) /\ Played(rs[r].matches)
                        /\ Playing(rs[r].matches) \subseteq Entrants
      OBVIOUS
    <3>3. /\ Len(rs[r].matches) \in {1, 2, 4, 8, 16} /\ rs[r].field = 2 * Len(rs[r].matches)
          /\ Apart(rs[r].matches) /\ Played(rs[r].matches)
      BY Resolved
    <3> QED BY <3>1, <3>2, <3>3
  <2> QED BY <1>4, <1>6, <2>1 DEF RoundsRight
<1>10. Standing'
  <2>1. \A r \in 1 .. Latest :
          /\ Playing(rs[r].matches) = {p \in Entrants : p \notin DOMAIN exits \/ exits[p] >= r}
          /\ Losers(rs[r].matches) = {p \in DOMAIN exits : exits[p] = r}
    BY Resolved
  <2> QED BY <1>1, <1>3, <1>4, <1>6, <2>1 DEF Standing
<1>11. BadgesRight'
  <2>1. /\ Loser(over[1]) \in DOMAIN exits /\ exits[Loser(over[1])] = Latest /\ Loser(over[1]) \in Players
    <3>1. Losers(over) = {p \in DOMAIN exits : exits[p] = Latest}
      BY <1>1, Resolved
    <3>2. over \in Seq(MatchUp) /\ DOMAIN over = {1} /\ over[1] \in MatchUp /\ Played(over)
      <4>1. over \in Seq(MatchUp) /\ DOMAIN over = {1} /\ over[1] \in MatchUp
        BY <1>1, RoundParts, OnlyMatch
      <4>2. Played(over)
        BY <1>1, Resolved
      <4> QED BY <4>1, <4>2
    <3>3. over[1] \in MatchUp /\ over[1].winner \in {over[1].p1, over[1].p2}
      <4>1. 1 \in DOMAIN over
        BY <3>2
      <4>2. over[1].winner \in {over[1].p1, over[1].p2}
        BY <3>2, <4>1 DEF Played
      <4> QED BY <3>2, <4>2
    <3>4. Loser(over[1]) \in Losers(over)
      BY <3>2, <3>3, PlayersAssumption DEF Losers, Loser, Pending, MatchUp
    <3> QED BY <3>1, <3>4 DEF Losers
  <2>2. badges' = [p \in Players |-> badges'[p]]
    BY DEF BadgesRight, Crowns
  <2>3. win[1] # Loser(over[1])
    BY <1>1, <1>3, <2>1
  <2>4. \A p \in Players :
          badges'[p] = IF p = win[1] THEN badges[p] \cup {"champion"}
                       ELSE IF p = Loser(over[1]) THEN badges[p] \cup {"runner_up"} ELSE badges[p]
    BY <1>3, <2>1, <2>3 DEF BadgesRight, Crowns
  <2>5. \A p \in Players : "champion" \notin badges[p] /\ "runner_up" \notin badges[p]
    BY PlayersAssumption DEF BadgesRight, Phases
  <2>6. \A p \in Players :
          /\ "finalist" \in badges'[p] <=> "finalist" \in badges[p]
          /\ "champion" \in badges'[p] <=> p = win[1]
          /\ "runner_up" \in badges'[p] => p = Loser(over[1])
    <3> SUFFICES ASSUME NEW p \in Players
                 PROVE  /\ "finalist" \in badges'[p] <=> "finalist" \in badges[p]
                        /\ "champion" \in badges'[p] <=> p = win[1]
                        /\ "runner_up" \in badges'[p] => p = Loser(over[1])
      OBVIOUS
    <3>1. CASE p = win[1]
      <4>1. badges'[p] = badges[p] \cup {"champion"} /\ "runner_up" \notin badges[p]
        BY <2>4, <2>5, <3>1
      <4>2. "champion" \in badges'[p] /\ "runner_up" \notin badges'[p]
            /\ ("finalist" \in badges'[p] <=> "finalist" \in badges[p])
        BY <4>1
      <4> QED BY <3>1, <4>2
    <3>2. CASE p # win[1] /\ p = Loser(over[1])
      <4>1. badges'[p] = badges[p] \cup {"runner_up"} /\ "champion" \notin badges[p]
        BY <2>4, <2>5, <3>2
      <4>2. "champion" \notin badges'[p] /\ ("finalist" \in badges'[p] <=> "finalist" \in badges[p])
        BY <4>1
      <4> QED BY <3>2, <4>2
    <3>3. CASE p # win[1] /\ p # Loser(over[1])
      BY <2>3, <2>4, <2>5, <3>3
    <3> QED BY <3>1, <3>2, <3>3
  <2>7. \A r \in 1 .. Latest : rs[r].field = cup.rounds[r].field
                             /\ Playing(rs[r].matches) = Playing(cup.rounds[r].matches)
    BY Resolved
  <2> QED BY <1>4, <1>6, <2>1, <2>2, <2>6, <2>7 DEF BadgesRight
<1> QED BY <1>5, <1>7, <1>8, <1>9, <1>10, <1>11

GoesOn(exits, rs, win) ==
  /\ cup' = [[cup EXCEPT !.rounds = rs, !.out = exits] EXCEPT !.rounds = Append(@, Layout(Latest + 1, win))]
  /\ badges' = Reached(badges, win)
\* A round before the final is resolved: its winners meet in the next.
LEMMA NextRoundKeeps ==
  ASSUME Bracket, cup.status = "running", NEW over, NEW exits, NEW rs, NEW win, NEW b,
         Outcome(over, exits, rs, win, b), Len(LastRound.matches) # 1,
         GoesOn(exits, rs, win)
  PROVE  Bracket'
<1> USE DEF Bracket
<1>1. /\ Latest \in 1 .. Latest /\ Latest \in Nat
      /\ rs \in Seq(Round) /\ Len(rs) = Latest /\ exits \in Exits
      /\ DOMAIN exits \subseteq Entrants /\ \A p \in DOMAIN exits : exits[p] \in 1 .. Latest
      /\ rs[Latest].matches = over /\ Len(over) = Len(LastRound.matches)
      /\ win \in Seq(Players) /\ Len(win) = Len(over) /\ OneToOne(win) /\ ToSet(win) = Entrants \ DOMAIN exits
  BY Resolved
<1>2. cup \in Cup
  BY DEF CupTyped
<1>3. PICK half \in {1, 2, 4, 8} : Len(win) = 2 * half
  <2>1. Len(rs[Latest].matches) \in {1, 2, 4, 8, 16}
    BY <1>1, Resolved
  <2> QED BY <1>1, <2>1
<1> DEFINE round == Layout(Latest + 1, win)
           ms == round.matches
           all == Append(rs, round)
<1>4. /\ round.field = 2 * half /\ ms \in Seq(MatchUp) /\ Len(ms) = half
      /\ Playing(ms) = ToSet(win) /\ Apart(ms) /\ Unplayed(ms)
  BY <1>1, <1>3, LaidOut
<1>5. round \in Round
  <2>1. round = [field |-> round.field, matches |-> round.matches]
    BY DEF Layout
  <2> HIDE DEF round
  <2> QED BY <2>1, <1>3, <1>4 DEF Round
<1> HIDE DEF round
<1>6. /\ all \in Seq(Round) /\ Len(all) = Latest + 1 /\ all[Latest + 1] = round
      /\ \A r \in 1 .. Latest : all[r] = rs[r]
  BY <1>1, <1>5
<1>7. cup' = [[cup EXCEPT !.rounds = rs, !.out = exits] EXCEPT !.rounds = all]
  BY <1>2, CupParts DEF round, GoesOn
<1> HIDE DEF all
<1>8. /\ cup'.status = "running" /\ cup'.entrants = cup.entrants /\ cup'.rounds = all
      /\ cup'.out = exits /\ cup'.champion = cup.champion
  BY <1>2, <1>7, CupParts
<1>9. CupTyped'
  <2>1. cup' = [status |-> cup.status, entrants |-> cup.entrants, rounds |-> all, out |-> exits,
                champion |-> cup.champion]
    BY <1>2, <1>7 DEF Cup
  <2> QED BY <1>1, <1>2, <1>6, <2>1, CupParts DEF CupTyped, Cup
<1>10. Entrants' = Entrants /\ Latest' = Latest + 1
  BY <1>6, <1>8 DEF Entrants, Latest
<1>11. Entered' /\ Phases'
  BY <1>1, <1>8, <1>10 DEF Entered, Phases
<1>12. RoundsRight'
  <2>1. \A r \in 1 .. Latest :
          /\ Len(rs[r].matches) \in {1, 2, 4, 8, 16} /\ rs[r].field = 2 * Len(rs[r].matches)
          /\ Apart(rs[r].matches) /\ Played(rs[r].matches) /\ Playing(rs[r].matches) \subseteq Entrants
    <3>1. \A r \in 1 .. Latest : Playing(rs[r].matches) = Playing(cup.rounds[r].matches)
      BY Resolved
    <3>2. \A r \in 1 .. Latest : Playing(cup.rounds[r].matches) \subseteq Entrants
      BY RoundSays
    <3> SUFFICES ASSUME NEW r \in 1 .. Latest
                 PROVE  /\ Len(rs[r].matches) \in {1, 2, 4, 8, 16} /\ rs[r].field = 2 * Len(rs[r].matches)
                        /\ Apart(rs[r].matches) /\ Played(rs[r].matches)
                        /\ Playing(rs[r].matches) \subseteq Entrants
      OBVIOUS
    <3>3. /\ Len(rs[r].matches) \in {1, 2, 4, 8, 16} /\ rs[r].field = 2 * Len(rs[r].matches)
          /\ Apart(rs[r].matches) /\ Played(rs[r].matches)
      BY Resolved
    <3> QED BY <3>1, <3>2, <3>3
  <2>2. ASSUME NEW r \in 1 .. Latest + 1
        PROVE  /\ Len(all[r].matches) \in {1, 2, 4, 8, 16} /\ all[r].field = 2 * Len(all[r].matches)
               /\ Apart(all[r].matches) /\ Playing(all[r].matches) \subseteq Entrants
               /\ IF r < Latest + 1 THEN Played(all[r].matches) ELSE Unplayed(all[r].matches)
    <3>1. CASE r = Latest + 1
      <4>1. all[r] = round /\ ~(r < Latest + 1)
        BY <3>1, <1>1, <1>6
      <4>2. Len(ms) \in {1, 2, 4, 8, 16} /\ round.field = 2 * Len(ms) /\ Playing(ms) \subseteq Entrants
        BY <1>1, <1>3, <1>4
      <4> QED BY <4>1, <4>2, <1>4
    <3>2. CASE r # Latest + 1
      <4>1. r \in 1 .. Latest /\ r < Latest + 1
        BY <3>2, <1>1
      <4> QED BY <4>1, <2>1, <1>6
    <3> QED BY <3>1, <3>2
  <2> QED BY <1>8, <1>10, <2>2 DEF RoundsRight
<1>13. Standing'
  <2>1. \A r \in 1 .. Latest :
          /\ Playing(rs[r].matches) = {p \in Entrants : p \notin DOMAIN exits \/ exits[p] >= r}
          /\ Losers(rs[r].matches) = {p \in DOMAIN exits : exits[p] = r}
    BY Resolved
  <2>2. \A p \in DOMAIN exits : exits[p] \in 1 .. Latest + 1 /\ exits[p] < Latest + 1
    BY <1>1
  <2>3. Losers(ms) = {}
    BY <1>4 DEF Losers, Unplayed
  <2>4. ASSUME NEW r \in 1 .. Latest + 1
        PROVE  /\ Playing(all[r].matches) = {p \in Entrants : p \notin DOMAIN exits \/ exits[p] >= r}
               /\ Losers(all[r].matches) = {p \in DOMAIN exits : exits[p] = r}
    <3>1. CASE r = Latest + 1
      <4>1. all[r].matches = ms
        BY <3>1, <1>6
      <4>2. \A p \in DOMAIN exits : ~(exits[p] >= r) /\ exits[p] # r
        BY <3>1, <1>1
      <4>3. Playing(ms) = Entrants \ DOMAIN exits
        BY <1>1, <1>4
      <4> HIDE DEF ms
      <4> QED BY <4>1, <4>2, <4>3, <2>3
    <3>2. CASE r # Latest + 1
      <4>1. r \in 1 .. Latest
        BY <3>2, <1>1
      <4> QED BY <4>1, <2>1, <1>6
    <3> QED BY <3>1, <3>2
  <2> QED BY <1>1, <1>8, <1>10, <2>2, <2>4 DEF Standing
<1>14. BadgesRight'
  <2>1. /\ badges' = [p \in Players |-> badges'[p]]
        /\ \A p \in Players :
             /\ "finalist" \in badges'[p] <=> "finalist" \in badges[p] \/ (2 * half = 2 /\ p \in ToSet(win))
             /\ \A x \in {"champion", "runner_up"} : x \in badges'[p] <=> x \in badges[p]
    BY <1>3, ReachedSays DEF GoesOn
  <2>2. \A r \in 1 .. Latest : rs[r].field = cup.rounds[r].field
                             /\ Playing(rs[r].matches) = Playing(cup.rounds[r].matches)
    BY Resolved
  <2>3. ASSUME NEW p
        PROVE  (\E r \in 1 .. Latest + 1 : all[r].field = 2 /\ p \in Playing(all[r].matches))
                 <=> \/ \E r \in 1 .. Latest : cup.rounds[r].field = 2 /\ p \in Playing(cup.rounds[r].matches)
                     \/ 2 * half = 2 /\ p \in ToSet(win)
    <3>1. \A r \in 1 .. Latest + 1 : r = Latest + 1 \/ r \in 1 .. Latest
      BY <1>1
    <3>2. Latest + 1 \in 1 .. Latest + 1 /\ 1 .. Latest \subseteq 1 .. Latest + 1
      BY <1>1
    <3> QED BY <3>1, <3>2, <1>4, <1>6, <2>2
  <2>4. \A p \in Players : "runner_up" \notin badges[p]
    BY DEF BadgesRight
  <2> QED BY <1>8, <1>10, <2>1, <2>3, <2>4 DEF BadgesRight
<1> QED BY <1>9, <1>11, <1>12, <1>13, <1>14

\* An order to resolve is carried out, whatever the bracket was when it was given.
LEMMA ResolveKeeps ==
  ASSUME ArenaInv, NEW k \in DOMAIN orders, Resolve(k)
  PROVE  Bracket'
<1> USE DEF ArenaInv
<1>1. CASE cup.status # "running"
  BY <1>1, BracketStands DEF Resolve
<1>2. CASE cup.status = "running"
  <2> DEFINE ms == LastRound.matches
             b == orders[k].beacon
             over(win) == [i \in DOMAIN ms |-> [ms[i] EXCEPT !.winner = win[i], !.beacon = b]]
             beaten(win) == {LoserOf(over(win)[i]) : i \in DOMAIN over(win)}
             exits(win) == [p \in DOMAIN cup.out \cup beaten(win) |-> IF p \in beaten(win) THEN Latest ELSE cup.out[p]]
             rs(win) == [cup.rounds EXCEPT ![Latest].matches = over(win)]
             rest(win) == [cup EXCEPT !.rounds = rs(win), !.out = exits(win)]
  <2>1. PICK win \in [DOMAIN ms -> Players] :
          /\ \A i \in DOMAIN ms : win[i] \in CanWin(ms[i])
          /\ IF Len(ms) = 1
             THEN /\ cup' = [rest(win) EXCEPT !.status = "ended", !.champion = win[1]]
                  /\ badges' = [badges EXCEPT ![win[1]] = @ \cup {"champion"},
                                              ![Loser(over(win)[1])] = @ \cup {"runner_up"}]
             ELSE /\ cup' = [rest(win) EXCEPT !.rounds = Append(@, Layout(Latest + 1, win))]
                  /\ badges' = Reached(badges, win)
    BY <1>2 DEF Resolve, Latest
  <2>2. b \in Nat
    <3>1. orders[k] \in [kind : {"start", "resolve"}, beacon : Nat]
      <4> DEFINE Asked == [kind : {"start", "resolve"}, beacon : Nat]
      <4>1. orders \in Seq(Asked)
        BY DEF OthersTyped
      <4> HIDE DEF Asked
      <4>2. orders[k] \in Asked
        BY <4>1
      <4> QED BY <4>2 DEF Asked
    <3> QED BY <3>1
  <2>3. Outcome(over(win), exits(win), rs(win), win, b)
    BY <2>1, <2>2 DEF Outcome, Ends
  <2>4. CASE Len(ms) = 1
    BY <1>2, <2>1, <2>3, <2>4, FinalKeeps DEF Crowns
  <2>5. CASE Len(ms) # 1
    BY <1>2, <2>1, <2>3, <2>5, NextRoundKeeps DEF GoesOn
  <2> QED BY <2>4, <2>5
<1> QED BY <1>1, <1>2

\* Every step of the Arena keeps the invariant.
LEMMA ArenaSteps == ArenaInv /\ [ArenaNext]_arenaVars => ArenaInv'
<1> SUFFICES ASSUME ArenaInv, [ArenaNext]_arenaVars PROVE ArenaInv'
  OBVIOUS
<1>0. OthersTyped /\ Bracket
  BY DEF ArenaInv
<1>1. OthersTyped'
  BY <1>0, OthersGoOn
<1>2. ASSUME NEW p \in Players, Join(p) PROVE Bracket'
  BY <1>0, <1>2, JoinKeeps
<1>3. ASSUME NEW p \in Players, NEW l \in Loadouts, Submit(p, l) PROVE Bracket'
  BY <1>0, <1>3, SubmitKeeps
<1>4. ASSUME NEW k \in DOMAIN orders, Start(k) PROVE Bracket'
  BY <1>0, <1>4, StartKeeps
<1>5. ASSUME NEW k \in DOMAIN orders, Resolve(k) PROVE Bracket'
  BY <1>5, ResolveKeeps
<1>6. ASSUME UNCHANGED <<cup, badges>> PROVE Bracket'
  BY <1>0, <1>6, BracketStands
<1>7. \/ \E p \in Players : Join(p)
      \/ \E p \in Players, l \in Loadouts : Submit(p, l)
      \/ \E k \in DOMAIN orders : Start(k) \/ Resolve(k)
      \/ UNCHANGED <<cup, badges>>
  BY DEF ArenaNext, Play, Operate, BlockComes, AskOwner, Order, SetTrophy, MintTrophy, MintAgain, arenaVars
<1> QED BY <1>1, <1>2, <1>3, <1>4, <1>5, <1>6, <1>7 DEF ArenaInv

\* THEOREM: the inductive invariant of a tournament (gamestore.js), for every number of players and orders.
THEOREM ArenaInvariant == ArenaSpec => []ArenaInv
BY ArenaBegins, ArenaSteps, PTL DEF ArenaSpec

\* The invariant says what the property says.
LEMMA ArenaInvSays == ArenaInv => CupSound
<1> SUFFICES ASSUME ArenaInv PROVE CupSound
  OBVIOUS
<1> USE DEF ArenaInv, Bracket
<1>1. cup \in Cup /\ cup.rounds \in Seq(Round) /\ cup.status \in Statuses /\ cup.champion \in Players \cup {None}
  BY CupParts DEF CupTyped
<1>2. DOMAIN cup.rounds = 1 .. Latest /\ Latest \in Nat /\ Entrants \subseteq Players
  BY EntrantsTyped
<1>3. \A r \in DOMAIN cup.rounds : InRound(r) = Playing(cup.rounds[r].matches)
  BY DEF InRound, Playing
<1>4. \A r \in DOMAIN cup.rounds : \A i \in DOMAIN cup.rounds[r].matches : cup.rounds[r].matches[i] \in MatchUp
  BY <1>1, <1>2, RoundParts DEF Latest
<1>5. \A p \in Players : Lost(p) = {r \in 1 .. Latest : p \in Losers(cup.rounds[r].matches)}
  BY <1>2 DEF Lost, Losers
<1>6. \A p \in Players : Lost(p) = {r \in 1 .. Latest : p \in DOMAIN cup.out /\ cup.out[p] = r}
  BY <1>5 DEF Standing
<1>7. \A p \in Players : Lost(p) = IF p \in DOMAIN cup.out THEN {cup.out[p]} ELSE {}
  BY <1>6 DEF Standing
<1>8. ArenaTypeOK
  <2>1. \A r \in DOMAIN cup.rounds : \A i \in DOMAIN cup.rounds[r].matches :
          LET m == cup.rounds[r].matches[i] IN
            /\ {m.p1, m.p2} \subseteq Entrants /\ m.winner \in {None, m.p1, m.p2}
            /\ {m.l1, m.l2} \subseteq Loadouts \cup {None}
    <3> SUFFICES ASSUME NEW r \in 1 .. Latest, NEW i \in DOMAIN cup.rounds[r].matches
                 PROVE  LET m == cup.rounds[r].matches[i] IN
                          /\ {m.p1, m.p2} \subseteq Entrants /\ m.winner \in {None, m.p1, m.p2}
                          /\ {m.l1, m.l2} \subseteq Loadouts \cup {None}
      BY <1>2
    <3> DEFINE ms == cup.rounds[r].matches
    <3>1. ms[i].p1 \in Playing(ms) /\ ms[i].p2 \in Playing(ms)
      BY WhoPlays
    <3>2. Playing(ms) \subseteq Entrants /\ (Played(ms) \/ Unplayed(ms))
      BY DEF RoundsRight
    <3>3. ms[i].l1 \in Loadouts \cup {None} /\ ms[i].l2 \in Loadouts \cup {None}
      BY <1>2, <1>4 DEF MatchUp
    <3>4. ms[i].winner \in {None, ms[i].p1, ms[i].p2}
      BY <3>2 DEF Played, Unplayed, Pending
    <3> QED BY <3>1, <3>2, <3>3, <3>4
  <2>2. cup.champion \in Entrants \cup {None}
    BY <1>1 DEF Phases, Standing
  <2> QED BY <1>1, <1>2, <2>1, <2>2 DEF ArenaTypeOK, OthersTyped, Entered, Standing, Statuses
<1>9. BracketSound
  <2>1. cup.rounds # <<>> => Latest > 0
    BY <1>1, <1>2 DEF Latest
  <2>2. cup.rounds # <<>> => Cardinality(Entrants) = Size
    BY <2>1 DEF Phases, Entered
  <2>3. \A p \in Entrants : Lost(p) = IF p \in DOMAIN cup.out THEN {cup.out[p]} ELSE {}
    BY <1>2, <1>7
  <2>4. \A r \in DOMAIN cup.rounds :
          InRound(r) = {p \in Entrants : p \notin DOMAIN cup.out \/ cup.out[p] >= r}
    BY <1>2, <1>3 DEF Standing
  <2>5. (cup.status = "ended" <=> cup.champion # None)
        /\ (cup.champion # None => Entrants \ DOMAIN cup.out = {cup.champion})
    BY DEF Phases, Standing
  <2> QED BY <2>2, <2>3, <2>4, <2>5 DEF BracketSound
<1>10. BadgesEarned
  BY <1>2, <1>3, <1>7 DEF BadgesEarned, BadgesRight, Latest
<1> QED BY <1>8, <1>9, <1>10 DEF CupSound

\* THEOREM: whatever the order of joins, loadouts and operator requests, and however large the tournament, the
\* bracket is of single elimination and its badges are earned (gamestore.js:339-456).
THEOREM CupCorrect == ArenaSpec => []CupSound
BY ArenaInvariant, ArenaInvSays, PTL

(***************************************************************************)
(* Growing up: what is settled lazily is what the days gave.                *)
(***************************************************************************)

\* The days of the run, the fields of a day, and the juvenile's counters of them.
Days == 0 .. LastDay
Fields == {"growth", "attention", "fight"}
Entry == [growth : Nat, attention : Nat, fight : Nat]
Juvenile == [growth : Nat, attention : Nat, fight : Nat, accrued : {None} \cup Nat]
Ledger == [Days -> Entry]
\* One column of the ledger.
Column(l, f) == [d \in Days |-> l[d][f]]
\* The counters are the totals, and no day is past its caps, which attentions and fights share.
SumsUp(j, l) == \A f \in Fields : j[f] = Total(l, f)
InBounds(l) ==
  \A d \in Days : /\ l[d].growth <= GrowthPerDay
                  /\ l[d].growth <= Passive + l[d].attention + l[d].fight
                  /\ \A kind \in Kinds : l[d][kind] <= ActsPerDay
\* What the days before n give by themselves.
Floor(j, n) == j.growth >= ToAdult \/ j.growth >= Passive * (n - Gestation)
\* The days from n on have given nothing.
Untouched(l, n) == \A d \in Days : d >= n => l[d].growth = 0
\* A juvenile settled up to n, that is, with every day before n.
Good(j, l, n) ==
  /\ j \in Juvenile /\ l \in Ledger /\ SumsUp(j, l) /\ j.growth <= ToAdult
  /\ InBounds(l) /\ Floor(j, n) /\ Untouched(l, n)
NurseryInv ==
  /\ date \in Days
  /\ juvenile.accrued = None \/ juvenile.accrued \in Gestation .. date
  /\ Good(juvenile, ledger, FirstUnsettled(juvenile))

\* The constants are numbers, none of them what stands for nothing.
LEMMA BoundsTyped ==
  /\ ToAdult \in Nat /\ GrowthPerDay \in Nat /\ ActsPerDay \in Nat /\ Passive \in Nat /\ Gestation \in Nat
  /\ LastDay \in Nat /\ Passive <= GrowthPerDay /\ None \notin Nat
BY NurseryAssumption

\* For the provers, which take a product for unknown where other arithmetic is near.
LEMMA TimesTyped == \A a, b \in Nat : a * b \in Nat
OBVIOUS

\* There are as many days as the run has.
LEMMA DaysFinite == IsFiniteSet(Days)
BY BoundsTyped, FS_Interval DEF Days

\* The total of a column is the sum of its entries.
LEMMA TotalIsSum ==
  ASSUME NEW l \in Ledger, NEW f \in Fields
  PROVE  /\ Total(l, f) = SumOver(Column(l, f), Days)
         /\ \A d \in Days : Column(l, f)[d] = l[d][f] /\ Column(l, f)[d] \in Nat
<1> DEFINE w == Column(l, f)
           D(h, s) == IF s = {} THEN 0 ELSE l[Chosen(s)][f] + h[s \ {Chosen(s)}]
           left == CHOOSE h : h = [s \in SUBSET Days |-> D(h, s)]
<1>1. \A d \in Days : w[d] = l[d][f] /\ w[d] \in Nat
  BY DEF Ledger, Entry, Fields, Column
<1>2. Total(l, f) = left[Days]
  <2>1. DOMAIN l = Days
    BY DEF Ledger
  <2> QED BY <2>1 DEF Total, MapThenSumSet, MapThenFoldSet, Chosen
<1> HIDE DEF w
<1>3. PICK g : Sums(g, w, Days)
  BY <1>1, DaysFinite, SumAdds
<1>4. /\ g \in [SUBSET Days -> Nat] /\ Summing(g, w, Days)
      /\ \A s \in SUBSET Days : SumOver(w, s) = g[s]
  BY <1>3 DEF Sums
<1>5. \A s \in SUBSET Days : s # {} => Chosen(s) \in Days
  BY DEF Chosen
<1>6. \A s \in SUBSET Days : g[s] = D(g, s)
  BY <1>1, <1>4, <1>5 DEF Summing
<1>7. g = [s \in SUBSET Days |-> D(g, s)]
  <2> HIDE DEF D
  <2> QED BY <1>4, <1>6
<1>8. left = [s \in SUBSET Days |-> D(left, s)]
  <2> HIDE DEF D
  <2> QED BY <1>7
<1> HIDE DEF left
<1>9. Summing(left, w, Days)
  <2>1. \A s \in SUBSET Days : left[s] = D(left, s)
    <3> HIDE DEF D
    <3> QED BY <1>8
  <2> QED BY <1>1, <1>5, <2>1 DEF Summing
<1>10. g[Days] = left[Days]
  BY <1>4, <1>9, DaysFinite, AddsOnce
<1> QED BY <1>1, <1>2, <1>4, <1>10 DEF w

\* A total changes by what one day's entry changes by.
LEMMA TotalChange ==
  ASSUME NEW l \in Ledger, NEW m \in Ledger, NEW f \in Fields, NEW d \in Days,
         \A e \in Days \ {d} : m[e][f] = l[e][f]
  PROVE  Total(m, f) = Total(l, f) + (m[d][f] - l[d][f]) /\ Total(l, f) \in Nat /\ Total(m, f) \in Nat
<1> DEFINE w == Column(l, f)
           v == Column(m, f)
<1>1. /\ Total(l, f) = SumOver(w, Days) /\ Total(m, f) = SumOver(v, Days)
      /\ \A e \in Days : w[e] = l[e][f] /\ w[e] \in Nat /\ v[e] = m[e][f] /\ v[e] \in Nat
  BY TotalIsSum
<1> HIDE DEF w, v
<1>2. SumOver(v, Days) + w[d] = SumOver(w, Days) + v[d]
  <2>1. \A e \in Days \ {d} : v[e] = w[e]
    BY <1>1
  <2>2. \A e \in Days : w[e] \in Nat /\ v[e] \in Nat
    BY <1>1
  <2> QED BY <2>1, <2>2, DaysFinite, SumChange
<1>3. SumOver(v, Days) \in Nat /\ SumOver(w, Days) \in Nat
  BY <1>1, DaysFinite, SumNumber
<1> QED BY <1>1, <1>2, <1>3

\* A gain is within what is asked, what the day still has room for and what is missing to adulthood;
\* where the day has room, it is all that is asked or all that is missing.
LEMMA GainBounds ==
  ASSUME NEW j \in Juvenile, NEW l \in Ledger, NEW d \in Days, NEW most \in Nat,
         j.growth <= ToAdult, l[d].growth <= GrowthPerDay
  PROVE  /\ Gain(j, l, d, most) \in Nat /\ Gain(j, l, d, most) <= most
         /\ l[d].growth + Gain(j, l, d, most) <= GrowthPerDay
         /\ j.growth + Gain(j, l, d, most) <= ToAdult
         /\ l[d].growth + most <= GrowthPerDay =>
              Gain(j, l, d, most) = most \/ j.growth + Gain(j, l, d, most) = ToAdult
<1> DEFINE a == GrowthPerDay - l[d].growth
           b == ToAdult - j.growth
           least == Min({most, a, b})
           gain == Max({0, least})
<1>1. a \in Nat /\ b \in Nat /\ j.growth \in Nat /\ l[d].growth \in Nat
  BY BoundsTyped DEF Juvenile, Ledger, Entry
<1>2. least \in {most, a, b} /\ least <= most /\ least <= a /\ least <= b
  <2> HIDE DEF a, b
  <2>1. \E x \in {most, a, b} : \A y \in {most, a, b} : x <= y
    <3>1. CASE most <= a /\ most <= b
      BY <1>1, <3>1
    <3>2. CASE a <= most /\ a <= b
      BY <1>1, <3>2
    <3>3. CASE b <= most /\ b <= a
      BY <1>1, <3>3
    <3> QED BY <1>1, <3>1, <3>2, <3>3
  <2> QED BY <2>1 DEF Min
<1>3. gain = least
  <2> HIDE DEF least
  <2>1. least \in Nat
    BY <1>1, <1>2
  <2>2. \E x \in {0, least} : \A y \in {0, least} : x >= y
    BY <2>1
  <2>3. gain \in {0, least} /\ gain >= 0 /\ gain >= least
    BY <2>2 DEF Max
  <2> QED BY <2>1, <2>3
<1>4. Gain(j, l, d, most) = least
  BY <1>3 DEF Gain
<1> HIDE DEF least, gain
<1> QED BY <1>1, <1>2, <1>4, BoundsTyped

\* Growing keeps the types.
LEMMA GrowTyped ==
  ASSUME NEW j \in Juvenile, NEW l \in Ledger, NEW d \in Days, NEW gain \in Nat
  PROVE  /\ [j EXCEPT !.growth = @ + gain] \in Juvenile
         /\ [l EXCEPT ![d].growth = @ + gain] \in Ledger
BY DEF Juvenile, Ledger, Entry

\* An entry of the ledger changed, and the total with it.
LEMMA Counted ==
  ASSUME NEW j \in Juvenile, NEW l \in Ledger, SumsUp(j, l), NEW d \in Days, NEW field \in Fields,
         NEW gain \in Nat
  PROVE  /\ [j EXCEPT ![field] = @ + gain] \in Juvenile
         /\ [l EXCEPT ![d][field] = @ + gain] \in Ledger
         /\ SumsUp([j EXCEPT ![field] = @ + gain], [l EXCEPT ![d][field] = @ + gain])
<1> DEFINE k == [j EXCEPT ![field] = @ + gain]
           m == [l EXCEPT ![d][field] = @ + gain]
<1>1. k \in Juvenile /\ m \in Ledger
  BY DEF Juvenile, Ledger, Entry, Fields
<1>2. SumsUp(k, m)
  <2> SUFFICES ASSUME NEW f \in Fields PROVE k[f] = Total(m, f)
    BY DEF SumsUp
  <2>1. j[f] = Total(l, f) /\ j[f] \in Nat /\ l[d][f] \in Nat
    BY DEF SumsUp, Juvenile, Ledger, Entry, Fields
  <2>2. \A e \in Days \ {d} : m[e][f] = l[e][f]
    BY DEF Ledger
  <2>3. m[d][f] = IF f = field THEN l[d][f] + gain ELSE l[d][f]
    BY DEF Ledger, Entry, Fields
  <2>4. k[f] = IF f = field THEN j[f] + gain ELSE j[f]
    BY DEF Juvenile, Fields
  <2> HIDE DEF k, m
  <2>5. Total(m, f) = Total(l, f) + (m[d][f] - l[d][f])
    BY <1>1, <2>2, TotalChange
  <2> QED BY <2>1, <2>3, <2>4, <2>5
<1> QED BY <1>1, <1>2

\* A day settled: what it gives by itself, unless the juvenile is adult by then.
LEMMA DaySettles ==
  ASSUME NEW j, NEW l, NEW n \in Days, n >= Gestation, Good(j, l, n), NEW s, s = [j |-> j, l |-> l]
  PROVE  Good(Grow(s, n, Passive).j, Grow(s, n, Passive).l, n + 1)
<1> DEFINE gain == Gain(j, l, n, Passive)
           k == [j EXCEPT !.growth = @ + gain]
           m == [l EXCEPT ![n].growth = @ + gain]
<1>1. Grow(s, n, Passive).j = k /\ Grow(s, n, Passive).l = m
  BY DEF Grow
<1>2. j \in Juvenile /\ l \in Ledger /\ SumsUp(j, l) /\ l[n].growth = 0 /\ j.growth <= ToAdult /\ n \in Nat
  BY DEF Good, Untouched, Days
<1>3. /\ gain \in Nat /\ gain <= Passive /\ gain <= GrowthPerDay /\ j.growth + gain <= ToAdult
      /\ gain = Passive \/ j.growth + gain = ToAdult
  BY <1>2, BoundsTyped, GainBounds
<1> HIDE DEF gain
<1>4. k \in Juvenile /\ m \in Ledger /\ SumsUp(k, m)
  BY <1>2, <1>3, Counted DEF Fields
<1>5. k.growth = j.growth + gain /\ j.growth \in Nat
  BY <1>2 DEF Juvenile
<1>6. /\ \A d \in Days : \A kind \in Kinds : m[d][kind] = l[d][kind] /\ l[d][kind] \in Nat
      /\ \A d \in Days \ {n} : m[d] = l[d]
      /\ m[n].growth = gain
  BY <1>2, <1>3 DEF Ledger, Entry, Kinds
<1> HIDE DEF k, m
<1>7. InBounds(m)
  <2> SUFFICES ASSUME NEW d \in Days
               PROVE  /\ m[d].growth <= GrowthPerDay
                      /\ m[d].growth <= Passive + m[d].attention + m[d].fight
                      /\ \A kind \in Kinds : m[d][kind] <= ActsPerDay
    BY DEF InBounds
  <2>1. /\ l[d].growth <= GrowthPerDay
        /\ l[d].growth <= Passive + l[d].attention + l[d].fight
        /\ \A kind \in Kinds : l[d][kind] <= ActsPerDay
    BY DEF Good, InBounds
  <2>2. /\ m[d].attention = l[d].attention /\ m[d].fight = l[d].fight
        /\ l[d].attention \in Nat /\ l[d].fight \in Nat
    BY <1>6 DEF Kinds
  <2>3. CASE d = n
    BY <1>3, <1>6, <2>1, <2>2, <2>3, BoundsTyped
  <2>4. CASE d # n
    BY <1>6, <2>1, <2>4
  <2> QED BY <2>3, <2>4
<1>8. Floor(k, n + 1)
  <2>1. Floor(j, n)
    BY DEF Good
  <2>2. Passive * ((n + 1) - Gestation) = Passive * (n - Gestation) + Passive
    BY <1>2, BoundsTyped
  <2>3. Passive * (n - Gestation) \in Nat
    BY <1>2, BoundsTyped
  <2> HIDE DEF Floor
  <2> DEFINE before == Passive * (n - Gestation)
             after == Passive * ((n + 1) - Gestation)
  <2>4. after = before + Passive /\ before \in Nat
    BY <2>2, <2>3
  <2>5. j.growth >= ToAdult \/ j.growth >= before
    BY <2>1 DEF Floor
  <2> HIDE DEF before, after
  <2>6. k.growth >= ToAdult \/ k.growth >= after
    BY <1>3, <1>5, <2>4, <2>5, BoundsTyped
  <2> QED BY <2>6 DEF Floor, after
<1>9. Untouched(m, n + 1)
  BY <1>2, <1>6 DEF Good, Untouched, Days
<1>10. k.growth <= ToAdult
  BY <1>3, <1>5
<1> QED BY <1>1, <1>4, <1>7, <1>8, <1>9, <1>10 DEF Good

State == [j : Juvenile, l : Ledger]
\* The days to settle, and the juvenile and its ledger with those of s settled.
Settles(steps, j, l, first, m) ==
  /\ steps \in [SUBSET (1 .. m) -> State] /\ steps[{}] = [j |-> j, l |-> l]
  /\ \A s \in SUBSET (1 .. m) : s # {} =>
       steps[s] = Grow(steps[s \ {Max(s)}], first + Max(s) - 1, Passive)

\* Growing keeps the types: the gain is a number whatever is there.
LEMMA StateGrows ==
  ASSUME NEW s \in State, NEW d \in Days
  PROVE  Grow(s, d, Passive) \in State
<1> DEFINE a == GrowthPerDay - s.l[d].growth
           b == ToAdult - s.j.growth
           least == Min({Passive, a, b})
           gain == Max({0, least})
<1>1. s.j \in Juvenile /\ s.l \in Ledger
  BY DEF State
<1>2. a \in Int /\ b \in Int
  BY <1>1, BoundsTyped DEF Juvenile, Ledger, Entry
<1>3. least \in Int
  <2> HIDE DEF a, b
  <2>1. \E x \in {Passive, a, b} : \A y \in {Passive, a, b} : x <= y
    <3>1. CASE Passive <= a /\ Passive <= b
      BY <1>2, <3>1, BoundsTyped
    <3>2. CASE a <= Passive /\ a <= b
      BY <1>2, <3>2, BoundsTyped
    <3>3. CASE b <= Passive /\ b <= a
      BY <1>2, <3>3, BoundsTyped
    <3> QED BY <1>2, <3>1, <3>2, <3>3, BoundsTyped
  <2>2. least \in {Passive, a, b}
    BY <2>1 DEF Min
  <2> QED BY <1>2, <2>2, BoundsTyped
<1>4. gain \in Nat
  <2> HIDE DEF least
  <2>1. \E x \in {0, least} : \A y \in {0, least} : x >= y
    BY <1>3
  <2>2. gain \in {0, least} /\ gain >= 0
    BY <2>1 DEF Max
  <2> QED BY <1>3, <2>2
<1>5. Grow(s, d, Passive) = [j |-> [s.j EXCEPT !.growth = @ + gain], l |-> [s.l EXCEPT ![d].growth = @ + gain]]
  BY DEF Grow, Gain
<1> HIDE DEF gain
<1> QED BY <1>1, <1>4, <1>5, GrowTyped DEF State

\* The days are settled one after the other: what the fold returns is reached in such steps.
LEMMA DaysSettle ==
  ASSUME NEW j \in Juvenile, NEW l \in Ledger, NEW first \in Nat, NEW m \in Nat, first + m - 1 <= LastDay
  PROVE  \E steps : /\ Settles(steps, j, l, first, m)
                    /\ FoldLeft(LAMBDA s, d : Grow(s, d, Passive), [j |-> j, l |-> l],
                                [i \in 1 .. m |-> first + i - 1]) = steps[1 .. m]
<1> DEFINE D == 1 .. m
           days == [i \in D |-> first + i - 1]
           base == [j |-> j, l |-> l]
           pick == [s \in SUBSET D |-> Max(s)]
           step == [i \in D |-> [s \in State |-> Grow(s, first + i - 1, Passive)]]
           G(f, s) == IF s = {} THEN base ELSE Grow(f[s \ {Max(s)}], days[Max(s)], Passive)
           iter == CHOOSE f : f = [s \in SUBSET D |-> G(f, s)]
<1>1. IsFiniteSet(D) /\ D \in SUBSET (0 .. m)
  BY FS_Interval
<1>2. \A s \in SUBSET D : s # {} => Max(s) \in s
  <2> SUFFICES ASSUME NEW s \in SUBSET D, s # {} PROVE Max(s) \in s
    OBVIOUS
  <2>1. s \in SUBSET (0 .. m)
    OBVIOUS
  <2> QED BY <2>1, Greatest
<1>3. \A i \in D : first + i - 1 \in Days
  BY BoundsTyped DEF Days
<1>4. base \in State
  BY DEF State
<1>5. step \in [D -> [State -> State]]
  <2>1. \A i \in D, s \in State : Grow(s, first + i - 1, Passive) \in State
    BY <1>3, StateGrows
  <2> QED BY <2>1
<1>6. PICK steps : FoldsSet(steps, D, State, base, pick, step)
  <2>1. \A s \in SUBSET D : s # {} => pick[s] \in s
    BY <1>2
  <2> HIDE DEF D, base, pick, step
  <2> QED BY <1>1, <1>4, <1>5, <2>1, FoldExists
<1>7. steps \in [SUBSET D -> State] /\ steps[{}] = base
  BY <1>6 DEF FoldsSet
<1>8. ASSUME NEW s \in SUBSET D, s # {} PROVE steps[s] = Grow(steps[s \ {Max(s)}], first + Max(s) - 1, Passive)
  <2>1. pick[s] = Max(s) /\ Max(s) \in D /\ s \ {Max(s)} \in SUBSET D
    BY <1>2, <1>8
  <2>2. steps[s] = step[pick[s]][steps[s \ {pick[s]}]]
    <3> HIDE DEF D, base, pick, step
    <3> QED BY <1>6, <1>8 DEF FoldsSet
  <2> HIDE DEF pick, D, base
  <2>3. steps[s \ {Max(s)}] \in State
    BY <1>7, <2>1
  <2>4. \A i \in D, t \in State : step[i][t] = Grow(t, first + i - 1, Passive)
    OBVIOUS
  <2> HIDE DEF step
  <2> QED BY <2>1, <2>2, <2>3, <2>4
<1>9. Settles(steps, j, l, first, m)
  BY <1>7, <1>8 DEF Settles
<1>10. FoldLeft(LAMBDA s, d : Grow(s, d, Passive), base, days) = iter[D]
  BY DEF FoldLeft, MapThenFoldSet
<1>11. \A s \in SUBSET D : steps[s] = G(steps, s)
  <2> SUFFICES ASSUME NEW s \in SUBSET D PROVE steps[s] = G(steps, s)
    OBVIOUS
  <2>1. CASE s = {}
    BY <1>7, <2>1
  <2>2. CASE s # {}
    <3>1. days[Max(s)] = first + Max(s) - 1
      BY <1>2, <2>2
    <3> HIDE DEF days, base, D
    <3> QED BY <1>8, <2>2, <3>1
  <2> QED BY <2>1, <2>2
<1>12. steps = [s \in SUBSET D |-> G(steps, s)]
  <2> HIDE DEF G
  <2> QED BY <1>7, <1>11
<1>13. iter = [s \in SUBSET D |-> G(iter, s)]
  <2> HIDE DEF G
  <2> QED BY <1>12
<1> HIDE DEF iter
<1>14. \A s \in SUBSET D : iter[s] = G(iter, s)
  <2> HIDE DEF G
  <2> QED BY <1>13
<1> DEFINE T == {s \in SUBSET D : iter[s] = steps[s]}
<1>15. {} \in T
  BY <1>7, <1>14
<1>16. ASSUME NEW s \in SUBSET D, s # {}, \A x \in s : s \ {x} \in T PROVE s \in T
  <2>1. iter[s \ {Max(s)}] = steps[s \ {Max(s)}]
    BY <1>2, <1>16
  <2>2. iter[s] = G(iter, s) /\ steps[s] = G(steps, s)
    BY <1>11, <1>14
  <2> HIDE DEF days, base, D
  <2> QED BY <1>16, <2>1, <2>2
<1>17. D \in T
  <2> HIDE DEF T
  <2> QED BY <1>1, <1>15, <1>16, SmallerSet
<1>18. iter[D] = steps[D]
  BY <1>17
<1> QED BY <1>9, <1>10, <1>18

\* Settled through today, a juvenile is right, and it is settled or adult.
LEMMA AccruedGood ==
  ASSUME NurseryInv, Born
  PROVE  LET s == Accrued(juvenile, ledger) IN
           /\ Good(s.j, s.l, FirstUnsettled(s.j))
           /\ Adult(s.j) \/ FirstUnsettled(s.j) = date + 1
           /\ s.j.accrued = None \/ s.j.accrued \in Gestation .. date
           /\ Adult(juvenile) => s = [j |-> juvenile, l |-> ledger]
<1> DEFINE j == juvenile
           l == ledger
           first == FirstUnsettled(j)
           m == date - first + 1
           base == [j |-> j, l |-> l]
           after == FoldLeft(LAMBDA s, d : Grow(s, d, Passive), base, [i \in 1 .. m |-> first + i - 1])
<1>1. /\ j \in Juvenile /\ l \in Ledger /\ Good(j, l, first) /\ date \in Nat /\ date >= Gestation /\ date <= LastDay
      /\ j.accrued = None \/ j.accrued \in Gestation .. date
  BY BoundsTyped DEF NurseryInv, Good, Born, Days
<1>2. first \in Nat /\ m \in Nat /\ first >= Gestation /\ first + m = date + 1
  BY <1>1, BoundsTyped DEF FirstUnsettled
<1>3. Accrued(j, l) = IF Adult(j) THEN base ELSE [after EXCEPT !.j.accrued = date]
  BY DEF Accrued
<1>4. CASE Adult(j)
  <2>1. Accrued(j, l) = base
    BY <1>3, <1>4
  <2>2. Accrued(j, l).j = j /\ Accrued(j, l).l = l
    BY <2>1
  <2> QED BY <1>1, <1>4, <2>1, <2>2
<1>5. CASE ~Adult(j)
  <2>1. PICK steps : Settles(steps, j, l, first, m) /\ after = steps[1 .. m]
    <3> HIDE DEF j, l, first, m
    <3>1. first + m - 1 <= LastDay
      BY <1>1, <1>2, BoundsTyped
    <3> QED BY <1>1, <1>2, <3>1, DaysSettle
  <2> HIDE DEF after, first, m
  <2> DEFINE Fine(t, n) == t \in State /\ Good(t.j, t.l, n) /\ t.j.accrued = j.accrued
             T == {i \in 0 .. m : Fine(steps[1 .. i], first + i)}
  <2>2. 0 \in T
    <3>1. 1 .. 0 = {} /\ first + 0 = first
      BY <1>2
    <3>2. steps[{}] = base /\ base.j = j /\ base.l = l /\ base \in State
      BY <1>1, <2>1 DEF Settles, State
    <3>3. Fine(steps[1 .. 0], first + 0)
      BY <1>1, <3>1, <3>2
    <3> HIDE DEF Fine
    <3> QED BY <1>2, <3>3
  <2>3. ASSUME NEW i \in 0 .. m - 1, i \in T PROVE i + 1 \in T
    <3> DEFINE t == steps[1 .. i]
               n == first + i
    <3>1. Fine(t, n)
      BY <2>3
    <3>2. /\ 1 .. i + 1 \in SUBSET (1 .. m) /\ (1 .. i + 1) \ {i + 1} = 1 .. i /\ 1 .. i + 1 # {}
          /\ i \in Nat /\ n \in Nat
      BY <1>2
    <3>3. Max(1 .. i + 1) = i + 1
      <4>1. 1 .. i + 1 \in SUBSET (0 .. i + 1) /\ i + 1 \in Nat /\ i + 1 \in 1 .. i + 1
        BY <3>2
      <4>2. Max(1 .. i + 1) \in 1 .. i + 1 /\ Max(1 .. i + 1) >= i + 1
        BY <3>2, <4>1, Greatest
      <4> QED BY <3>2, <4>2
    <3>4. steps[1 .. i + 1] = Grow(t, n, Passive)
      <4>1. steps[1 .. i + 1] = Grow(steps[(1 .. i + 1) \ {i + 1}], first + (i + 1) - 1, Passive)
        BY <2>1, <3>2, <3>3 DEF Settles
      <4>2. first + (i + 1) - 1 = n
        BY <1>2, <3>2
      <4> QED BY <3>2, <4>1, <4>2
    <3>5. t = [j |-> t.j, l |-> t.l] /\ t.j \in Juvenile /\ t.l \in Ledger
      BY <3>1 DEF State
    <3>6. n \in Days /\ n >= Gestation
      BY <1>1, <1>2, <3>2, BoundsTyped DEF Days
    <3> HIDE DEF t, n, Fine
    <3>7. Good(t.j, t.l, n) /\ t \in State /\ t.j.accrued = j.accrued
      BY <3>1 DEF Fine
    <3>8. Good(Grow(t, n, Passive).j, Grow(t, n, Passive).l, n + 1)
      BY <3>5, <3>6, <3>7, DaySettles
    <3>9. Grow(t, n, Passive) \in State
      BY <3>6, <3>7, StateGrows
    <3>10. Grow(t, n, Passive).j.accrued = t.j.accrued
      BY <3>5 DEF Grow, Juvenile
    <3>11. Fine(steps[1 .. i + 1], n + 1)
      BY <3>4, <3>7, <3>8, <3>9, <3>10 DEF Fine
    <3>12. n + 1 = first + (i + 1)
      BY <1>2, <3>2 DEF n
    <3> QED BY <3>2, <3>11, <3>12
  <2>4. m \in T
    <3> HIDE DEF T
    <3>1. 0 .. m \subseteq T
      BY <1>2, <2>2, <2>3, UpTo
    <3> QED BY <1>2, <3>1
  <2>5. after \in State /\ Good(after.j, after.l, date + 1)
    BY <1>2, <2>1, <2>4
  <2> DEFINE k == [after.j EXCEPT !.accrued = date]
  <2>6. Accrued(j, l).j = k /\ Accrued(j, l).l = after.l
    <3>1. Accrued(j, l) = [after EXCEPT !.j.accrued = date]
      BY <1>3, <1>5
    <3> QED BY <2>5, <3>1 DEF State
  <2>7. /\ k \in Juvenile /\ k.accrued = date /\ k.growth = after.j.growth
        /\ \A f \in Fields : k[f] = after.j[f]
    BY <1>1, <2>5 DEF State, Juvenile, Fields
  <2>8. FirstUnsettled(k) = date + 1
    <3>1. date # None
      BY <1>1, BoundsTyped
    <3> QED BY <2>7, <3>1 DEF FirstUnsettled
  <2> HIDE DEF k
  <2>9. Good(k, after.l, date + 1)
    BY <2>5, <2>7 DEF Good, SumsUp, Floor
  <2> QED BY <1>1, <1>5, <2>6, <2>7, <2>8, <2>9
<1> QED BY <1>4, <1>5

\* Looked at at any time, the juvenile is right.
LEMMA JuvenileShown ==
  ASSUME NurseryInv
  PROVE  AbsenceCostsNothing
<1> DEFINE s == Accrued(juvenile, ledger)
<1>1. /\ date \in Days
      /\ juvenile.accrued = None \/ juvenile.accrued \in Gestation .. date
      /\ Good(juvenile, ledger, FirstUnsettled(juvenile))
  BY DEF NurseryInv
<1>0. date \in Nat
  BY <1>1, BoundsTyped DEF Days
<1>2. NurseryTypeOK
  <2>1. juvenile \in Juvenile /\ ledger \in Ledger
    BY <1>1 DEF Good
  <2>2. \A f \in {"growth", "attention", "fight"} :
          juvenile[f] \in Nat /\ \A d \in 0 .. LastDay : ledger[d][f] \in Nat
    BY <2>1 DEF Juvenile, Ledger, Entry, Days
  <2>3. juvenile.accrued \in {None} \cup 0 .. LastDay
    BY <1>1, BoundsTyped DEF Days
  <2> QED BY <1>1, <2>2, <2>3 DEF NurseryTypeOK, Days
<1>3. \E n : Good(s.j, s.l, n)
  <2>1. CASE Born
    BY <2>1, AccruedGood
  <2>2. CASE ~Born
    <3>1. s = [j |-> juvenile, l |-> ledger]
      BY <2>2 DEF Accrued
    <3>2. s.j = juvenile /\ s.l = ledger
      BY <3>1
    <3> HIDE DEF s
    <3> QED BY <1>1, <3>2
  <2> QED BY <2>1, <2>2
<1>4. Born => s.j.growth >= ToAdult \/ s.j.growth >= Passive * (date - Gestation + 1)
  <2> SUFFICES ASSUME Born PROVE s.j.growth >= ToAdult \/ s.j.growth >= Passive * (date - Gestation + 1)
    OBVIOUS
  <2>1. Good(s.j, s.l, FirstUnsettled(s.j)) /\ (Adult(s.j) \/ FirstUnsettled(s.j) = date + 1)
    BY AccruedGood
  <2> HIDE DEF s
  <2>2. CASE Adult(s.j)
    BY <2>2 DEF Adult
  <2>3. CASE FirstUnsettled(s.j) = date + 1
    <3>1. s.j.growth >= ToAdult \/ s.j.growth >= Passive * ((date + 1) - Gestation)
      BY <2>1, <2>3 DEF Good, Floor
    <3>2. (date + 1) - Gestation = date - Gestation + 1
      BY <1>0, BoundsTyped
    <3> QED BY <3>1, <3>2
  <2> QED BY <2>1, <2>2, <2>3
<1> HIDE DEF s
<1>5. Born => s.j.growth >= Min({ToAdult, Passive * (date - Gestation + 1)})
  <2> SUFFICES ASSUME Born PROVE s.j.growth >= Min({ToAdult, Passive * (date - Gestation + 1)})
    OBVIOUS
  <2> DEFINE a == Passive * (date - Gestation + 1)
  <2>1. a \in Nat
    <3>1. date - Gestation + 1 \in Nat
      BY <1>0, BoundsTyped DEF Born
    <3> QED BY <3>1, BoundsTyped, TimesTyped
  <2>2. s.j.growth >= ToAdult \/ s.j.growth >= a
    BY <1>4
  <2>3. s.j.growth \in Nat
    BY <1>3 DEF Good, Juvenile
  <2> HIDE DEF a
  <2>4. \E x \in {ToAdult, a} : \A y \in {ToAdult, a} : x <= y
    <3>1. CASE ToAdult <= a
      BY <2>1, <3>1, BoundsTyped
    <3>2. CASE a <= ToAdult
      BY <2>1, <3>2, BoundsTyped
    <3> QED BY <2>1, <3>1, <3>2, BoundsTyped
  <2>5. Min({ToAdult, a}) \in {ToAdult, a} /\ Min({ToAdult, a}) <= a /\ Min({ToAdult, a}) <= ToAdult
    BY <2>4 DEF Min
  <2>6. s.j.growth >= Min({ToAdult, a})
    BY <2>1, <2>2, <2>3, <2>5, BoundsTyped
  <2> QED BY <2>6 DEF a
<1>6. /\ s.j.growth <= ToAdult /\ s.j.growth = Total(s.l, "growth") /\ \A kind \in Kinds : s.j[kind] = Total(s.l, kind)
      /\ DOMAIN s.l = Days /\ InBounds(s.l)
  BY <1>3 DEF Good, SumsUp, Fields, Kinds, Ledger
<1>7. \A d \in DOMAIN s.l :
        /\ s.l[d].growth <= GrowthPerDay
        /\ s.l[d].growth <= Passive + s.l[d].attention + s.l[d].fight
        /\ \A kind \in Kinds : s.l[d][kind] <= ActsPerDay
  BY <1>6 DEF InBounds
<1> QED BY <1>2, <1>5, <1>6, <1>7 DEF AbsenceCostsNothing, s

\* A juvenile of no growth, before its birth, is right.
LEMMA NurseryStarts == ASSUME NurseryInit PROVE NurseryInv
<1>1. /\ juvenile \in Juvenile /\ ledger \in Ledger /\ date \in Days /\ juvenile.accrued = None
      /\ juvenile.growth = 0 /\ \A f \in Fields : juvenile[f] = 0 /\ \A d \in Days : ledger[d][f] = 0
  BY BoundsTyped DEF NurseryInit, Juvenile, Ledger, Entry, Days, Fields
<1>2. FirstUnsettled(juvenile) = Gestation
  BY <1>1 DEF FirstUnsettled
<1>3. SumsUp(juvenile, ledger)
  <2> SUFFICES ASSUME NEW f \in Fields PROVE juvenile[f] = Total(ledger, f)
    BY DEF SumsUp
  <2>1. /\ Total(ledger, f) = SumOver(Column(ledger, f), Days)
        /\ \A d \in Days : Column(ledger, f)[d] = ledger[d][f]
    BY <1>1, TotalIsSum
  <2>2. \A d \in Days : Column(ledger, f)[d] = 0
    BY <1>1, <2>1
  <2>3. SumOver(Column(ledger, f), Days) = 0
    BY <2>2, DaysFinite, SumZero
  <2> QED BY <1>1, <2>1, <2>3
<1>4. InBounds(ledger) /\ Untouched(ledger, Gestation)
  BY <1>1, BoundsTyped DEF InBounds, Untouched, Kinds, Fields
<1>5. Floor(juvenile, Gestation)
  <2>1. Passive * (Gestation - Gestation) = 0
    BY BoundsTyped
  <2> QED BY <1>1, <2>1, BoundsTyped DEF Floor
<1> QED BY <1>1, <1>2, <1>3, <1>4, <1>5, BoundsTyped DEF NurseryInv, Good

\* Whoever looks, the juvenile stays right.
LEMMA LookInKeeps == ASSUME NurseryInv, LookIn PROVE NurseryInv'
<1> DEFINE s == Accrued(juvenile, ledger)
<1>1. juvenile' = s.j /\ ledger' = s.l /\ date' = date
  BY DEF LookIn
<1>4. date \in Days
  BY DEF NurseryInv
<1>2. CASE Born
  <2>1. /\ Good(s.j, s.l, FirstUnsettled(s.j))
        /\ s.j.accrued = None \/ s.j.accrued \in Gestation .. date
    BY <1>2, AccruedGood
  <2> HIDE DEF s
  <2> QED BY <1>1, <1>4, <2>1 DEF NurseryInv
<1>3. CASE ~Born
  <2>1. s = [j |-> juvenile, l |-> ledger]
    BY <1>3 DEF Accrued
  <2>2. juvenile' = juvenile /\ ledger' = ledger
    BY <1>1, <2>1
  <2> QED BY <1>1, <1>4, <2>2 DEF NurseryInv
<1> QED BY <1>2, <1>3

\* A day that passes changes nothing that is settled.
LEMMA TomorrowKeeps == ASSUME NurseryInv, Tomorrow PROVE NurseryInv'
<1>1. date' \in Days /\ date' = date + 1 /\ date \in Nat
  BY BoundsTyped DEF Tomorrow, NurseryInv, Days
<1>2. juvenile.accrued = None \/ juvenile.accrued \in Gestation .. date'
  BY <1>1, BoundsTyped DEF NurseryInv
<1>3. juvenile' = juvenile /\ ledger' = ledger /\ Good(juvenile, ledger, FirstUnsettled(juvenile))
  BY DEF Tomorrow, NurseryInv
<1> QED BY <1>1, <1>2, <1>3 DEF NurseryInv

\* Settled first, then what is done with it: beyond the day's budget nothing counts.
LEMMA ActKeeps == ASSUME NurseryInv, NEW kind \in Kinds, Act(kind) PROVE NurseryInv'
<1> DEFINE s == Accrued(juvenile, ledger)
           t == Grow(s, date, 1)
           gain == Gain(s.j, s.l, date, 1)
<1>1. /\ date' = date /\ date \in Days
      /\ IF Born /\ ~Adult(s.j) /\ InBudget(s, kind)
         THEN /\ juvenile' = [t.j EXCEPT ![kind] = @ + 1]
              /\ ledger' = [t.l EXCEPT ![date][kind] = @ + 1]
         ELSE juvenile' = s.j /\ ledger' = s.l
  BY DEF Act, NurseryInv
<1>2. CASE ~(Born /\ ~Adult(s.j) /\ InBudget(s, kind))
  <2>1. juvenile' = s.j /\ ledger' = s.l
    BY <1>1, <1>2
  <2>2. LookIn
    BY <1>1, <2>1 DEF LookIn, Act
  <2> QED BY <2>2, LookInKeeps
<1>3. CASE Born /\ ~Adult(s.j) /\ InBudget(s, kind)
  <2>1. /\ Good(s.j, s.l, FirstUnsettled(s.j)) /\ FirstUnsettled(s.j) = date + 1
        /\ s.j.accrued = None \/ s.j.accrued \in Gestation .. date
    BY <1>3, AccruedGood
  <2>2. s.l[date][kind] < ActsPerDay
    BY <1>3 DEF InBudget
  <2>3. t.j = [s.j EXCEPT !.growth = @ + gain] /\ t.l = [s.l EXCEPT ![date].growth = @ + gain]
    BY DEF Grow
  <2>4. juvenile' = [t.j EXCEPT ![kind] = @ + 1] /\ ledger' = [t.l EXCEPT ![date][kind] = @ + 1]
    BY <1>1, <1>3
  <2> DEFINE j == s.j
             l == s.l
             k == t.j
             m == t.l
  <2>5. /\ j \in Juvenile /\ l \in Ledger /\ SumsUp(j, l) /\ j.growth <= ToAdult /\ InBounds(l)
        /\ Floor(j, date + 1) /\ Untouched(l, date + 1)
    BY <2>1 DEF Good
  <2> HIDE DEF s, t
  <2>6. /\ gain \in Nat /\ gain <= 1 /\ l[date].growth + gain <= GrowthPerDay /\ j.growth + gain <= ToAdult
    BY <1>1, <2>5, GainBounds DEF InBounds
  <2> HIDE DEF gain
  <2>7. k \in Juvenile /\ m \in Ledger /\ SumsUp(k, m)
    <3> DEFINE a == [j EXCEPT !.growth = @ + gain]
               b == [l EXCEPT ![date].growth = @ + gain]
    <3>1. a \in Juvenile /\ b \in Ledger /\ SumsUp(a, b)
      BY <1>1, <2>5, <2>6, Counted DEF Fields
    <3>2. k = a /\ m = b
      BY <2>3
    <3> HIDE DEF a, b
    <3> QED BY <3>1, <3>2
  <2>8. kind \in Fields
    BY DEF Kinds, Fields
  <2>9. juvenile' \in Juvenile /\ ledger' \in Ledger /\ SumsUp(juvenile', ledger')
    BY <1>1, <2>4, <2>7, <2>8, Counted
  <2>10. /\ k.growth = j.growth + gain /\ k.accrued = j.accrued /\ j.growth \in Nat
         /\ juvenile'.growth = k.growth /\ juvenile'.accrued = k.accrued
    BY <2>3, <2>4, <2>5, <2>7 DEF Juvenile, Kinds
  <2>11. /\ \A d \in Days \ {date} : ledger'[d] = l[d]
         /\ ledger'[date].growth = l[date].growth + gain
         /\ \A f \in Kinds : ledger'[date][f] = IF f = kind THEN l[date][f] + 1 ELSE l[date][f]
         /\ \A d \in Days : l[d].growth \in Nat /\ l[d].attention \in Nat /\ l[d].fight \in Nat
    <3>1. \A d \in Days \ {date} : m[d] = l[d]
      BY <2>3, <2>5 DEF Ledger
    <3>2. /\ m[date].growth = l[date].growth + gain
          /\ m[date].attention = l[date].attention /\ m[date].fight = l[date].fight
      BY <1>1, <2>3, <2>5 DEF Ledger, Entry
    <3>3. /\ \A d \in Days \ {date} : ledger'[d] = m[d]
          /\ ledger'[date] = [m[date] EXCEPT ![kind] = @ + 1]
      BY <1>1, <2>4, <2>7 DEF Ledger
    <3>4. \A d \in Days : l[d] \in Entry /\ m[d] \in Entry
      BY <2>5, <2>7 DEF Ledger
    <3>5. /\ ledger'[date].growth = m[date].growth
          /\ \A f \in Kinds : ledger'[date][f] = IF f = kind THEN m[date][f] + 1 ELSE m[date][f]
      BY <1>1, <3>3, <3>4 DEF Entry, Kinds
    <3> QED BY <3>1, <3>2, <3>3, <3>4, <3>5 DEF Entry, Kinds
  <2>12. InBounds(ledger')
    <3> SUFFICES ASSUME NEW d \in Days
                 PROVE  /\ ledger'[d].growth <= GrowthPerDay
                        /\ ledger'[d].growth <= Passive + ledger'[d].attention + ledger'[d].fight
                        /\ \A f \in Kinds : ledger'[d][f] <= ActsPerDay
      BY DEF InBounds
    <3>1. /\ l[d].growth <= GrowthPerDay
          /\ l[d].growth <= Passive + l[d].attention + l[d].fight
          /\ \A f \in Kinds : l[d][f] <= ActsPerDay
          /\ l[d].growth \in Nat /\ l[d].attention \in Nat /\ l[d].fight \in Nat
      BY <2>5, <2>11 DEF InBounds
    <3>2. CASE d # date
      BY <2>11, <3>1, <3>2
    <3>3. CASE d = date
      <4>1. kind = "attention" \/ kind = "fight"
        BY DEF Kinds
      <4>2. /\ ledger'[d].attention = IF kind = "attention" THEN l[d].attention + 1 ELSE l[d].attention
            /\ ledger'[d].fight = IF kind = "fight" THEN l[d].fight + 1 ELSE l[d].fight
        BY <2>11, <3>3 DEF Kinds
      <4>3. ledger'[d].attention + ledger'[d].fight = l[d].attention + l[d].fight + 1
        BY <3>1, <4>1, <4>2
      <4>4. /\ ledger'[d].growth <= GrowthPerDay
            /\ ledger'[d].growth <= Passive + ledger'[d].attention + ledger'[d].fight
        <5>1. ledger'[d].attention \in Nat /\ ledger'[d].fight \in Nat
          BY <3>1, <4>2
        <5> QED BY <2>6, <2>11, <3>1, <3>3, <4>3, <5>1, BoundsTyped
      <4>5. \A f \in Kinds : ledger'[d][f] <= ActsPerDay
        <5> SUFFICES ASSUME NEW f \in Kinds PROVE ledger'[d][f] <= ActsPerDay
          OBVIOUS
        <5>1. ledger'[d][f] = IF f = kind THEN l[d][f] + 1 ELSE l[d][f]
          BY <2>11, <3>3
        <5>2. l[d][f] \in Nat
          BY <3>1 DEF Kinds
        <5>3. CASE f = kind
          BY <2>2, <3>3, <5>1, <5>2, <5>3, BoundsTyped
        <5>4. CASE f # kind
          BY <3>1, <5>1, <5>4
        <5> QED BY <5>3, <5>4
      <4> QED BY <4>4, <4>5
    <3> QED BY <3>2, <3>3
  <2>13. Untouched(ledger', date + 1)
    <3>1. \A d \in Days : d >= date + 1 => d # date
      BY <1>1 DEF Days
    <3> QED BY <2>5, <2>11, <3>1 DEF Untouched
  <2>14. Floor(juvenile', date + 1)
    <3> DEFINE floor == Passive * ((date + 1) - Gestation)
    <3>1. floor \in Int
      BY <1>1, BoundsTyped DEF Days
    <3>2. j.growth >= ToAdult \/ j.growth >= floor
      BY <2>5 DEF Floor
    <3> HIDE DEF floor
    <3>3. juvenile'.growth >= ToAdult \/ juvenile'.growth >= floor
      BY <2>6, <2>10, <3>1, <3>2, BoundsTyped
    <3> QED BY <3>3 DEF Floor, floor
  <2>15. juvenile'.growth <= ToAdult
    BY <2>6, <2>10
  <2>16. FirstUnsettled(juvenile') = date + 1
    BY <2>1, <2>10 DEF FirstUnsettled
  <2>17. Good(juvenile', ledger', FirstUnsettled(juvenile'))
    BY <2>9, <2>12, <2>13, <2>14, <2>15, <2>16 DEF Good
  <2> QED BY <1>1, <2>1, <2>10, <2>17 DEF NurseryInv
<1> QED BY <1>2, <1>3

\* THEOREM: the invariant of a juvenile holds for every length of its youth, every daily cap and every
\* way to come and go: its counters are the totals of the ledger, the ledger is within its caps, the
\* days not settled are untouched, and those settled have given what they give by themselves.
THEOREM NurseryInvariant == NurserySpec => []NurseryInv
<1>1. NurseryInit => NurseryInv
  BY NurseryStarts
<1>2. NurseryInv /\ [NurseryNext]_nurseryVars => NurseryInv'
  <2> SUFFICES ASSUME NurseryInv, [NurseryNext]_nurseryVars PROVE NurseryInv'
    OBVIOUS
  <2>1. CASE LookIn
    BY <2>1, LookInKeeps
  <2>2. ASSUME NEW kind \in Kinds, Act(kind) PROVE NurseryInv'
    BY <2>2, ActKeeps
  <2>3. CASE Tomorrow
    BY <2>3, TomorrowKeeps
  <2>4. CASE UNCHANGED nurseryVars
    BY <2>4 DEF nurseryVars, NurseryInv
  <2> QED BY <2>1, <2>2, <2>3, <2>4 DEF NurseryNext
<1> QED BY <1>1, <1>2, PTL DEF NurserySpec

\* THEOREM: absence costs nothing, whenever somebody next looks (lifecycle.js:6).
THEOREM GrowthRight == NurserySpec => []AbsenceCostsNothing
<1>1. NurseryInv => AbsenceCostsNothing
  BY JuvenileShown
<1> QED BY <1>1, NurseryInvariant, PTL

(***************************************************************************)
(* The duel.                                                                *)
(***************************************************************************)

Sides12 == {"p1", "p2"}
Verdicts == Sides12 \cup {None}
Result == [winner : Sides12, flip : BOOLEAN]

\* The first of three that says something.
FirstSaid(x, y, z) == IF x # None THEN x ELSE IF y # None THEN y ELSE z
\* The least index of those that say something is the first of three.
LEMMA FirstOfThree ==
  ASSUME NEW x, NEW y, NEW z, NEW reasons, reasons = <<x, y, z>>,
         NEW says, says = {k \in DOMAIN reasons : reasons[k] # None}
  PROVE  (IF says = {} THEN None ELSE reasons[Min(says)]) = FirstSaid(x, y, z)
<1>1. says = {k \in 1 .. 3 : reasons[k] # None} /\ reasons[1] = x /\ reasons[2] = y /\ reasons[3] = z
  OBVIOUS
<1>2. CASE says = {}
  BY <1>1, <1>2 DEF FirstSaid
<1>3. CASE says # {}
  <2>1. Min(says) \in says /\ \A k \in says : Min(says) <= k
    <3>1. says \in SUBSET Nat
      BY <1>1
    <3>2. \E n \in says : \A m \in says : n <= m
      BY <1>3, <3>1, Least
    <3> QED BY <3>2 DEF Min
  <2> DEFINE m == Min(says)
  <2>2. m \in says /\ \A k \in says : m <= k
    BY <2>1
  <2> HIDE DEF m
  <2>3. m \in {1, 2, 3} /\ reasons[m] # None
    BY <1>1, <2>2
  <2>4. \A k \in 1 .. 3 : reasons[k] # None => m <= k
    BY <1>1, <2>2
  <2>5. reasons[m] = FirstSaid(x, y, z)
    <3>1. CASE m = 1
      BY <1>1, <2>3, <3>1 DEF FirstSaid
    <3>2. CASE m = 2
      <4>1. reasons[1] = None
        BY <2>4, <3>2
      <4> QED BY <1>1, <2>3, <3>2, <4>1 DEF FirstSaid
    <3>3. CASE m = 3
      <4>1. reasons[1] = None /\ reasons[2] = None
        BY <2>4, <3>3
      <4> QED BY <1>1, <2>3, <3>3, <4>1 DEF FirstSaid
    <3> QED BY <2>3, <3>1, <3>2, <3>3
  <2> QED BY <1>3, <2>5 DEF m
<1> QED BY <1>2, <1>3

\* Of one reason, that one.
LEMMA FirstOfOne ==
  ASSUME NEW x, x # None, NEW reasons, reasons = <<x>>,
         NEW says, says = {k \in DOMAIN reasons : reasons[k] # None}
  PROVE  (IF says = {} THEN None ELSE reasons[Min(says)]) = x
<1>1. says = {1} /\ reasons[1] = x
  OBVIOUS
<1>2. Min({1}) = 1
  BY DEF Min
<1> QED BY <1>1, <1>2

\* What a round's verdict is: poison first, then the first of the elements, the house and the comeback
\* that says anything.
LEMMA VerdictIs ==
  ASSUME NEW f, NEW a, NEW b, NEW round, NEW first
  PROVE  Verdict(f, a, b, round, first) =
           IF Poisons(a, b) # Poisons(b, a) THEN IF Poisons(a, b) THEN "p1" ELSE "p2"
           ELSE FirstSaid(ByElement(a, b), IF a.element = b.element THEN ByHouse(f, a.element) ELSE None,
                          IF round = 1 THEN None ELSE ByComeback(f, round, first))
<1> DEFINE x == ByElement(a, b)
           y == IF a.element = b.element THEN ByHouse(f, a.element) ELSE None
           z == IF round = 1 THEN None ELSE ByComeback(f, round, first)
           p == IF Poisons(a, b) THEN "p1" ELSE "p2"
           reasons == IF Poisons(a, b) # Poisons(b, a) THEN <<p>> ELSE <<x, y, z>>
           says == {k \in DOMAIN reasons : reasons[k] # None}
<1>1. Verdict(f, a, b, round, first) = IF says = {} THEN None ELSE reasons[Min(says)]
  BY Zenon DEF Verdict
<1>2. p # None
  BY DuelAssumption
<1> HIDE DEF x, y, z, p
<1>3. CASE Poisons(a, b) # Poisons(b, a)
  <2>1. reasons = <<p>>
    BY <1>3
  <2> HIDE DEF reasons
  <2> QED BY <1>1, <1>2, <1>3, <2>1, FirstOfOne DEF p
<1>4. CASE ~(Poisons(a, b) # Poisons(b, a))
  <2>1. reasons = <<x, y, z>>
    BY <1>4
  <2> HIDE DEF reasons
  <2>2. (IF says = {} THEN None ELSE reasons[Min(says)]) = FirstSaid(x, y, z)
    BY <2>1, FirstOfThree
  <2> HIDE DEF says
  <2> QED BY <1>1, <1>4, <2>2 DEF x, y, z
<1> QED BY <1>3, <1>4

\* Neither side: the other side of a verdict.
Crossed(v) == IF v = None THEN None ELSE Other(v)

\* The other side of the other side.
LEMMA OthersOther ==
  /\ Other("p1") = "p2" /\ Other("p2") = "p1"
  /\ \A s \in Sides12 : Other(s) \in Sides12 /\ Other(Other(s)) = s /\ s # None /\ Crossed(s) = Other(s)
  /\ Crossed(None) = None
BY DuelAssumption DEF Other, Sides12, Crossed

\* The House favours a side that is alone at home.
LEMMA HouseIs ==
  ASSUME NEW f, NEW e
  PROVE  ByHouse(f, e) = IF f["p1"].house = e /\ f["p2"].house # e THEN "p1"
                         ELSE IF f["p2"].house = e /\ f["p1"].house # e THEN "p2" ELSE None
<1> DEFINE home == {s \in {"p1", "p2"} : f[s].house = e}
<1>1. Cardinality({}) = 0 /\ Cardinality({"p1"}) = 1 /\ Cardinality({"p2"}) = 1 /\ Cardinality({"p1", "p2"}) = 2
  <2>1. Cardinality({}) = 0 /\ Cardinality({"p1"}) = 1 /\ Cardinality({"p2"}) = 1
    BY FS_EmptySet, FS_Singleton
  <2>2. IsFiniteSet({"p1"}) /\ "p2" \notin {"p1"} /\ {"p1"} \cup {"p2"} = {"p1", "p2"}
    BY FS_Singleton
  <2>3. Cardinality({"p1"} \cup {"p2"}) = Cardinality({"p1"}) + 1
    BY <2>2, FS_AddElement
  <2> QED BY <2>1, <2>2, <2>3
<1>2. (CHOOSE s \in {"p1"} : TRUE) = "p1" /\ (CHOOSE s \in {"p2"} : TRUE) = "p2"
  OBVIOUS
<1>3. CASE f["p1"].house = e /\ f["p2"].house # e
  <2>1. home = {"p1"}
    BY <1>3
  <2> QED BY <1>1, <1>2, <1>3, <2>1 DEF ByHouse
<1>4. CASE f["p2"].house = e /\ f["p1"].house # e
  <2>1. home = {"p2"}
    BY <1>4
  <2> QED BY <1>1, <1>2, <1>4, <2>1 DEF ByHouse
<1>5. CASE f["p2"].house = e /\ f["p1"].house = e
  <2>1. home = {"p1", "p2"}
    BY <1>5
  <2> QED BY <1>1, <1>5, <2>1 DEF ByHouse
<1>6. CASE f["p2"].house # e /\ f["p1"].house # e
  <2>1. home = {}
    BY <1>6
  <2> QED BY <1>1, <1>6, <2>1 DEF ByHouse
<1> QED BY <1>3, <1>4, <1>5, <1>6

\* Each reason names a side or nobody.
LEMMA PartsTyped ==
  ASSUME NEW f, NEW a, NEW b, NEW round, NEW first, NEW e
  PROVE  ByElement(a, b) \in Verdicts /\ ByHouse(f, e) \in Verdicts /\ ByComeback(f, round, first) \in Verdicts
BY HouseIs DEF ByElement, ByComeback, Other, Verdicts, Sides12

\* A verdict names a side or nobody.
LEMMA VerdictTyped ==
  ASSUME NEW f, NEW a, NEW b, NEW round, NEW first
  PROVE  Verdict(f, a, b, round, first) \in Verdicts
<1>1. "p1" \in Verdicts /\ "p2" \in Verdicts /\ None \in Verdicts
  BY DEF Verdicts, Sides12
<1>2. /\ ByElement(a, b) \in Verdicts /\ ByComeback(f, round, first) \in Verdicts
      /\ ByHouse(f, a.element) \in Verdicts
  BY PartsTyped
<1> QED BY <1>1, <1>2, VerdictIs DEF FirstSaid

\* With the sides swapped the verdict is for the other side.
LEMMA VerdictMirrored ==
  ASSUME NEW f, NEW g, g["p1"] = f["p2"], g["p2"] = f["p1"], NEW a \in Move, NEW b \in Move, NEW round,
         NEW first, NEW second, round = 1 \/ (first \in Sides12 /\ second = Other(first))
  PROVE  Verdict(g, b, a, round, second) = Crossed(Verdict(f, a, b, round, first))
<1>1. ByElement(b, a) = Crossed(ByElement(a, b))
  <2>1. a.element \in Elements /\ b.element \in Elements
    BY DEF Move
  <2>2. Beats["fire"] = "earth" /\ Beats["earth"] = "water" /\ Beats["water"] = "fire"
    BY DEF Beats
  <2> QED BY <2>1, <2>2, OthersOther DEF ByElement, Elements, Crossed, Sides12
<1>2. \A e : ByHouse(g, e) = Crossed(ByHouse(f, e))
  <2> SUFFICES ASSUME NEW e PROVE ByHouse(g, e) = Crossed(ByHouse(f, e))
    OBVIOUS
  <2> QED BY HouseIs, OthersOther DEF Crossed, Sides12
<1>3. round # 1 => ByComeback(g, round, second) = Crossed(ByComeback(f, round, first))
  <2> SUFFICES ASSUME round # 1 PROVE ByComeback(g, round, second) = Crossed(ByComeback(f, round, first))
    OBVIOUS
  <2>1. first \in Sides12 /\ second = Other(first) /\ Other(second) = first
    BY OthersOther
  <2>2. g[Other(second)] = f[Other(first)]
    BY <2>1, OthersOther DEF Sides12
  <2> QED BY <2>1, <2>2, OthersOther DEF ByComeback
<1> DEFINE x == ByElement(a, b)
           y == IF a.element = b.element THEN ByHouse(f, a.element) ELSE None
           z == IF round = 1 THEN None ELSE ByComeback(f, round, first)
           u == IF b.element = a.element THEN ByHouse(g, b.element) ELSE None
           v == IF round = 1 THEN None ELSE ByComeback(g, round, second)
<1>4. u = Crossed(y) /\ v = Crossed(z)
  BY <1>2, <1>3, OthersOther
<1>5. /\ Verdict(f, a, b, round, first) =
           IF Poisons(a, b) # Poisons(b, a) THEN IF Poisons(a, b) THEN "p1" ELSE "p2" ELSE FirstSaid(x, y, z)
      /\ Verdict(g, b, a, round, second) =
           IF Poisons(b, a) # Poisons(a, b) THEN IF Poisons(b, a) THEN "p1" ELSE "p2"
           ELSE FirstSaid(ByElement(b, a), u, v)
  <2> HIDE DEF Verdict
  <2> QED BY VerdictIs
<1>6. x \in Verdicts /\ y \in Verdicts /\ z \in Verdicts
  BY PartsTyped DEF Verdicts
<1>7. Poisons(a, b) \in BOOLEAN /\ Poisons(b, a) \in BOOLEAN
  BY DEF Poisons, Move
<1> HIDE DEF x, y, z, u, v
<1>8. FirstSaid(ByElement(b, a), u, v) = Crossed(FirstSaid(x, y, z))
  <2>1. ByElement(b, a) = Crossed(x)
    BY <1>1 DEF x
  <2>2. \A w \in Verdicts : w # None <=> Crossed(w) # None
    BY OthersOther DEF Verdicts
  <2> QED BY <1>4, <1>6, <2>1, <2>2 DEF FirstSaid
<1> QED BY <1>5, <1>7, <1>8, OthersOther DEF Sides12

-----------------------------------------------------------------------------
(* A match.                                                                 *)

\* What a sequence holds, and how long three at the most is.
LEMMA Entries ==
  ASSUME NEW S, NEW s \in Seq(S)
  PROVE  /\ Len(s) \in Nat /\ \A i \in 1 .. Len(s) : s[i] \in S
         /\ Len(s) <= 3 => Len(s) \in 0 .. 3
<1>1. Len(s) \in Nat /\ s \in [1 .. Len(s) -> S]
  BY LenProperties
<1> DEFINE n == Len(s)
<1> HIDE DEF n
<1>2. n \in Nat /\ s \in [1 .. n -> S]
  BY <1>1 DEF n
<1>3. (\A i \in 1 .. n : s[i] \in S) /\ (n <= 3 => n \in 0 .. 3)
  BY <1>2
<1> QED BY <1>2, <1>3 DEF n

\* The fields of a result.
LEMMA FieldsOf ==
  ASSUME NEW x, NEW y, NEW z, z = [winner |-> x, flip |-> y]
  PROVE  z.winner = x /\ z.flip = y
OBVIOUS

\* A round has a winner, whatever it looks back on.
LEMMA ResultTyped ==
  ASSUME NEW f, NEW xs, NEW ys, NEW coins, NEW results, NEW round
  PROVE  RoundResult(f, xs, ys, coins, results, round) \in Result
<1> DEFINE by == Verdict(f, xs[round], ys[round], round, IF round = 1 THEN None ELSE results[1].winner)
           coin == coins[Drawn(f, xs, ys, coins, results, round)]
<1>1. by \in Verdicts
  BY VerdictTyped
<1>2. RoundResult(f, xs, ys, coins, results, round)
        = [winner |-> IF by # None THEN by ELSE IF coin THEN "p1" ELSE "p2", flip |-> by = None]
  BY Zenon DEF RoundResult
<1> HIDE DEF by, coin
<1>3. (IF by # None THEN by ELSE IF coin THEN "p1" ELSE "p2") \in Sides12
  <2>1. (IF coin THEN "p1" ELSE "p2") \in Sides12
    BY Zenon DEF Sides12
  <2> QED BY <1>1, <2>1 DEF Verdicts
<1> QED BY <1>2, <1>3 DEF Result

\* Each round of a match is the result of what went before it.
Resolves(r, f, xs, ys, coins) ==
  r \in Seq(Result) /\ Len(r) = 3 /\ \A k \in 1 .. 3 : r[k] = RoundResult(f, xs, ys, coins, r, k)

\* A round depends on its moves and on the rounds before.
LEMMA RoundDepends ==
  ASSUME NEW f, NEW xs, NEW ys, NEW cs, NEW ds, NEW coins, NEW r, NEW q, NEW k \in 1 .. 3,
         xs[k] = cs[k], ys[k] = ds[k], \A j \in 1 .. 3 : j < k => r[j] = q[j]
  PROVE  RoundResult(f, xs, ys, coins, r, k) = RoundResult(f, cs, ds, coins, q, k)
<1>1. (IF k = 1 THEN None ELSE r[1].winner) = (IF k = 1 THEN None ELSE q[1].winner)
  <2>1. k # 1 => r[1] = q[1]
    OBVIOUS
  <2> QED BY <2>1, Zenon
<1>2. Drawn(f, xs, ys, coins, r, k) = Drawn(f, cs, ds, coins, q, k)
  <2>1. \A j \in 1 .. k - 1 : r[j] = q[j]
    OBVIOUS
  <2>2. {j \in 1 .. k - 1 : r[j].flip} = {j \in 1 .. k - 1 : q[j].flip}
    BY <2>1, Zenon
  <2> QED BY <2>2, Zenon DEF Drawn
<1> QED BY <1>1, <1>2, Zenon DEF RoundResult

\* A round with the same moves depends only on the rounds before.
LEMMA RoundLooksBack ==
  ASSUME NEW f, NEW xs, NEW ys, NEW coins, NEW r, NEW q, NEW k \in 1 .. 3,
         \A j \in 1 .. 3 : j < k => r[j] = q[j]
  PROVE  RoundResult(f, xs, ys, coins, r, k) = RoundResult(f, xs, ys, coins, q, k)
<1>1. xs[k] = xs[k] /\ ys[k] = ys[k]
  OBVIOUS
<1> QED BY <1>1, RoundDepends

\* Two and three results, one appended after the other.
LEMMA Appended ==
  ASSUME NEW S, NEW a \in S, NEW b \in S, NEW c \in S
  PROVE  Append(<<a>>, b) = <<a, b>> /\ Append(<<a, b>>, c) = <<a, b, c>>
<1> DEFINE s == Append(<<a>>, b)
           t == <<a, b>>
           v == Append(<<a, b>>, c)
           w == <<a, b, c>>
<1>1. Len(s) = 2 /\ s \in Seq(S) /\ t \in Seq(S) /\ Len(t) = 2
  OBVIOUS
<1>2. Len(v) = 3 /\ v \in Seq(S) /\ w \in Seq(S) /\ Len(w) = 3
  OBVIOUS
<1>3. s[1] = t[1] /\ s[2] = t[2]
  OBVIOUS
<1>4. v[1] = w[1] /\ v[2] = w[2] /\ v[3] = w[3]
  OBVIOUS
<1> HIDE DEF s, t, v, w
<1>5. s = t
  BY <1>1, <1>3, SeqEqual
<1>6. v = w
  <2>1. \A i \in 1 .. 3 : i = 1 \/ i = 2 \/ i = 3
    OBVIOUS
  <2> QED BY <1>2, <1>4, <2>1, SeqEqual
<1> QED BY <1>5, <1>6 DEF s, t, v, w

\* What resolveMatch folds together is such a sequence of rounds.
LEMMA MatchResolves ==
  ASSUME NEW f, NEW xs, NEW ys, NEW coins
  PROVE  Resolves(Match(f, xs, ys, coins), f, xs, ys, coins)
<1> DEFINE D == 1 .. Rounds
           rounds == [k \in D |-> k]
           Added(results, round) == Append(results, RoundResult(f, xs, ys, coins, results, round))
           V == Seq(Result)
           base == <<>>
           pick == [s \in SUBSET D |-> Max(s)]
           step == [i \in D |-> [v \in V |-> Added(v, i)]]
           G(h, s) == IF s = {} THEN base ELSE Added(h[s \ {Max(s)}], rounds[Max(s)])
           iter == CHOOSE h : h = [s \in SUBSET D |-> G(h, s)]
<1>1. IsFiniteSet(D) /\ D \in SUBSET (0 .. Rounds) /\ Rounds = 3
  <2>1. Rounds = 3
    BY DEF Rounds
  <2>2. 1 \in Int /\ Rounds \in Int
    BY <2>1
  <2>3. IsFiniteSet(1 .. Rounds)
    BY <2>2, FS_Interval
  <2> QED BY <2>1, <2>3
<1>2. \A s \in SUBSET D : s # {} => Max(s) \in s /\ \A m \in s : Max(s) >= m
  <2> SUFFICES ASSUME NEW s \in SUBSET D, s # {} PROVE Max(s) \in s /\ \A m \in s : Max(s) >= m
    OBVIOUS
  <2>1. s \in SUBSET (0 .. Rounds) /\ Rounds \in Nat
    BY <1>1
  <2> QED BY <2>1, Greatest
<1>3. base \in V /\ step \in [D -> [V -> V]]
  <2>1. \A i \in D, v \in V : Added(v, i) \in V
    <3> SUFFICES ASSUME NEW i \in D, NEW v \in V PROVE Added(v, i) \in V
      OBVIOUS
    <3> DEFINE x == RoundResult(f, xs, ys, coins, v, i)
    <3>1. x \in Result
      BY ResultTyped
    <3> HIDE DEF x
    <3>2. Append(v, x) \in Seq(Result)
      BY <3>1
    <3> QED BY <3>2 DEF x
  <2> HIDE DEF Added
  <2> QED BY <2>1
<1>4. PICK steps : FoldsSet(steps, D, V, base, pick, step)
  <2>1. \A s \in SUBSET D : s # {} => pick[s] \in s
    BY <1>2
  <2> HIDE DEF D, V, base, pick, step
  <2> QED BY <1>1, <1>3, <2>1, FoldExists
<1>5. steps \in [SUBSET D -> V] /\ steps[{}] = base
  BY <1>4 DEF FoldsSet
<1>6. ASSUME NEW s \in SUBSET D, s # {} PROVE steps[s] = Added(steps[s \ {Max(s)}], Max(s))
  <2>1. pick[s] = Max(s) /\ Max(s) \in D /\ s \ {Max(s)} \in SUBSET D
    BY <1>2, <1>6
  <2>2. steps[s] = step[pick[s]][steps[s \ {pick[s]}]]
    <3> HIDE DEF D, V, base, pick, step
    <3> QED BY <1>4, <1>6 DEF FoldsSet
  <2> HIDE DEF pick, D, base
  <2>3. steps[s \ {Max(s)}] \in V
    BY <1>5, <2>1
  <2>4. \A i \in D, t \in V : step[i][t] = Added(t, i)
    OBVIOUS
  <2> HIDE DEF step, Added
  <2> QED BY <2>1, <2>2, <2>3, <2>4
<1>7. Match(f, xs, ys, coins) = iter[D]
  BY DEF Match, FoldLeft, MapThenFoldSet
<1>8. \A s \in SUBSET D : steps[s] = G(steps, s)
  <2> SUFFICES ASSUME NEW s \in SUBSET D PROVE steps[s] = G(steps, s)
    OBVIOUS
  <2>1. CASE s = {}
    BY <1>5, <2>1
  <2>2. CASE s # {}
    <3>1. rounds[Max(s)] = Max(s)
      BY <1>2, <2>2
    <3> HIDE DEF rounds, base, D, Added
    <3> QED BY <1>6, <2>2, <3>1
  <2> QED BY <2>1, <2>2
<1>9. steps = [s \in SUBSET D |-> G(steps, s)]
  <2> HIDE DEF G
  <2> QED BY <1>5, <1>8
<1>10. iter = [s \in SUBSET D |-> G(iter, s)]
  <2> HIDE DEF G
  <2> QED BY <1>9
<1> HIDE DEF iter
<1>11. \A s \in SUBSET D : iter[s] = G(iter, s)
  <2> HIDE DEF G
  <2> QED BY <1>10
<1>12. Max({1}) = 1 /\ Max({1, 2}) = 2 /\ Max({1, 2, 3}) = 3
  <2>1. {1} \in SUBSET D /\ {1, 2} \in SUBSET D /\ {1, 2, 3} \in SUBSET D
    BY <1>1
  <2>2. Max({1}) \in {1}
    BY <1>2, <2>1
  <2>3. Max({1, 2}) \in {1, 2} /\ Max({1, 2}) >= 2
    BY <1>2, <2>1
  <2>4. Max({1, 2, 3}) \in {1, 2, 3} /\ Max({1, 2, 3}) >= 3
    BY <1>2, <2>1
  <2> QED BY <2>2, <2>3, <2>4
<1>13. /\ D = {1, 2, 3} /\ {1, 2, 3} \ {3} = {1, 2} /\ {1, 2} \ {2} = {1} /\ {1} \ {1} = {}
       /\ {} \in SUBSET D /\ {1} \in SUBSET D /\ {1, 2} \in SUBSET D /\ {1, 2, 3} \in SUBSET D
  BY <1>1
<1>14. \A n \in {1, 2, 3} : rounds[n] = n
  BY <1>13
<1> HIDE DEF D, rounds
<1> DEFINE r1 == RoundResult(f, xs, ys, coins, <<>>, 1)
           r2 == RoundResult(f, xs, ys, coins, <<r1>>, 2)
           r3 == RoundResult(f, xs, ys, coins, <<r1, r2>>, 3)
<1>15. iter[{}] = <<>>
  BY <1>11, <1>13
<1>16. iter[{1}] = Added(iter[{}], 1) /\ iter[{1, 2}] = Added(iter[{1}], 2) /\ iter[{1, 2, 3}] = Added(iter[{1, 2}], 3)
  <2> HIDE DEF Added, base
  <2>1. \A s \in SUBSET D : s # {} => iter[s] = Added(iter[s \ {Max(s)}], rounds[Max(s)])
    BY <1>11
  <2> HIDE DEF G, step, V
  <2>2. iter[{1}] = Added(iter[{}], 1)
    <3>1. iter[{1}] = Added(iter[{1} \ {Max({1})}], rounds[Max({1})])
      BY <1>13, <2>1
    <3> QED BY <1>12, <1>13, <1>14, <3>1
  <2>3. iter[{1, 2}] = Added(iter[{1}], 2)
    <3>1. iter[{1, 2}] = Added(iter[{1, 2} \ {Max({1, 2})}], rounds[Max({1, 2})])
      BY <1>13, <2>1
    <3> QED BY <1>12, <1>13, <1>14, <3>1
  <2>4. iter[{1, 2, 3}] = Added(iter[{1, 2}], 3)
    <3>1. iter[{1, 2, 3}] = Added(iter[{1, 2, 3} \ {Max({1, 2, 3})}], rounds[Max({1, 2, 3})])
      BY <1>13, <2>1
    <3> QED BY <1>12, <1>13, <1>14, <3>1
  <2> QED BY <2>2, <2>3, <2>4
<1>17. iter[{1}] = <<r1>>
  <2>1. iter[{1}] = Append(<<>>, r1)
    BY <1>15, <1>16
  <2> HIDE DEF r1
  <2> QED BY <2>1
<1>18. iter[{1, 2}] = <<r1, r2>>
  <2>1. iter[{1, 2}] = Append(<<r1>>, r2)
    BY <1>16, <1>17
  <2>2. r1 \in Result /\ r2 \in Result
    BY ResultTyped
  <2> HIDE DEF r1, r2, Added, step, iter, G, rounds
  <2>3. Append(<<r1>>, r2) = <<r1, r2>>
    BY <2>2, Appended
  <2> QED BY <2>1, <2>3
<1>19. iter[{1, 2, 3}] = <<r1, r2, r3>>
  <2>1. iter[{1, 2, 3}] = Append(<<r1, r2>>, r3)
    BY <1>16, <1>18
  <2>2. r1 \in Result /\ r2 \in Result /\ r3 \in Result
    BY ResultTyped
  <2> HIDE DEF r1, r2, r3
  <2>3. Append(<<r1, r2>>, r3) = <<r1, r2, r3>>
    BY <2>2, Appended
  <2> QED BY <2>1, <2>3
<1> DEFINE r == <<r1, r2, r3>>
<1>20. r1 \in Result /\ r2 \in Result /\ r3 \in Result
  BY ResultTyped
<1>21. RoundResult(f, xs, ys, coins, <<>>, 1) = RoundResult(f, xs, ys, coins, r, 1)
  <2> HIDE DEF r1, r2, r3, r
  <2>1. 1 \in 1 .. 3 /\ \A j \in 1 .. 3 : j < 1 => <<>>[j] = r[j]
    OBVIOUS
  <2> QED BY <2>1, RoundLooksBack
<1>22. RoundResult(f, xs, ys, coins, <<r1>>, 2) = RoundResult(f, xs, ys, coins, r, 2)
  <2> HIDE DEF r1, r2, r3
  <2> DEFINE q == <<r1>>
             k == 2
  <2>1. k \in 1 .. 3 /\ \A j \in 1 .. 3 : j < k => q[j] = r[j]
    OBVIOUS
  <2> HIDE DEF r, q, k
  <2>2. RoundResult(f, xs, ys, coins, q, k) = RoundResult(f, xs, ys, coins, r, k)
    BY <2>1, RoundLooksBack
  <2> QED BY <2>2 DEF q, k
<1>23. RoundResult(f, xs, ys, coins, <<r1, r2>>, 3) = RoundResult(f, xs, ys, coins, r, 3)
  <2> HIDE DEF r1, r2, r3
  <2> DEFINE q == <<r1, r2>>
             k == 3
  <2>1. k \in 1 .. 3 /\ \A j \in 1 .. 3 : j < k => q[j] = r[j]
    OBVIOUS
  <2> HIDE DEF r, q, k
  <2>2. RoundResult(f, xs, ys, coins, q, k) = RoundResult(f, xs, ys, coins, r, k)
    BY <2>1, RoundLooksBack
  <2> QED BY <2>2 DEF q, k
<1>24. /\ r1 = RoundResult(f, xs, ys, coins, r, 1)
       /\ r2 = RoundResult(f, xs, ys, coins, r, 2)
       /\ r3 = RoundResult(f, xs, ys, coins, r, 3)
  BY <1>21, <1>22, <1>23
<1> HIDE DEF r1, r2, r3
<1>25. r[1] = r1 /\ r[2] = r2 /\ r[3] = r3 /\ Len(r) = 3 /\ r \in Seq(Result)
  BY <1>20
<1>26. Match(f, xs, ys, coins) = r
  BY <1>7, <1>13, <1>19
<1> HIDE DEF r
<1>27. \A k \in 1 .. 3 : r[k] = RoundResult(f, xs, ys, coins, r, k)
  <2> SUFFICES ASSUME NEW k \in 1 .. 3 PROVE r[k] = RoundResult(f, xs, ys, coins, r, k)
    OBVIOUS
  <2>1. k = 1 \/ k = 2 \/ k = 3
    OBVIOUS
  <2> QED BY <1>24, <1>25, <2>1
<1> QED BY <1>25, <1>26, <1>27 DEF Resolves

\* Two matches that agree on their first rounds have the same results there.
LEMMA Determined ==
  ASSUME NEW f, NEW xs, NEW ys, NEW ws, NEW zs, NEW coins, NEW n \in 0 .. 3,
         \A k \in 1 .. 3 : k <= n => xs[k] = ws[k] /\ ys[k] = zs[k],
         NEW r, Resolves(r, f, xs, ys, coins), NEW q, Resolves(q, f, ws, zs, coins)
  PROVE  \A k \in 1 .. 3 : k <= n => r[k] = q[k]
<1>1. ASSUME NEW k \in 1 .. 3, k <= n, \A j \in 1 .. 3 : j < k => r[j] = q[j] PROVE r[k] = q[k]
  <2>1. xs[k] = ws[k] /\ ys[k] = zs[k]
    BY <1>1
  <2>2. RoundResult(f, xs, ys, coins, r, k) = RoundResult(f, ws, zs, coins, q, k)
    BY <1>1, <2>1, RoundDepends
  <2> QED BY <2>2 DEF Resolves
<1>2. 1 <= n => r[1] = q[1]
  BY <1>1
<1>3. 2 <= n => r[2] = q[2]
  <2> SUFFICES ASSUME 2 <= n PROVE r[2] = q[2]
    OBVIOUS
  <2>1. \A j \in 1 .. 3 : j < 2 => r[j] = q[j]
    BY <1>2
  <2> QED BY <1>1, <2>1
<1>4. 3 <= n => r[3] = q[3]
  <2> SUFFICES ASSUME 3 <= n PROVE r[3] = q[3]
    OBVIOUS
  <2>1. \A j \in 1 .. 3 : j < 3 => r[j] = q[j]
    <3>1. r[1] = q[1] /\ r[2] = q[2]
      BY <1>2, <1>3
    <3> QED BY <3>1
  <2> QED BY <1>1, <2>1
<1>5. \A k \in 1 .. 3 : k = 1 \/ k = 2 \/ k = 3
  OBVIOUS
<1> QED BY <1>2, <1>3, <1>4, <1>5

\* A match of the same fighters with the sides swapped, and the coins, goes to the other side round by
\* round: a tie falls through to the coin on both sides alike.
LEMMA MatchMirrored ==
  ASSUME NEW f, NEW g, g["p1"] = f["p2"], g["p2"] = f["p1"],
         NEW xs \in [1 .. 3 -> Move], NEW ys \in [1 .. 3 -> Move],
         NEW coins \in Seq(BOOLEAN), Len(coins) >= 3,
         NEW r, Resolves(r, f, xs, ys, coins),
         NEW q, Resolves(q, g, ys, xs, [k \in DOMAIN coins |-> ~coins[k]])
  PROVE  q = Mirror(r)
<1> DEFINE others == [k \in DOMAIN coins |-> ~coins[k]]
           Opposed(k) == q[k].winner = Other(r[k].winner) /\ q[k].flip = r[k].flip
<1>1. /\ r \in Seq(Result) /\ Len(r) = 3 /\ q \in Seq(Result) /\ Len(q) = 3
      /\ \A k \in 1 .. 3 : r[k] \in Result /\ q[k] \in Result
  <2>1. r \in Seq(Result) /\ Len(r) = 3 /\ q \in Seq(Result) /\ Len(q) = 3
    BY Zenon DEF Resolves
  <2>2. \A k \in 1 .. 3 : r[k] \in Result /\ q[k] \in Result
    <3> HIDE DEF Opposed
    <3> QED BY <2>1, Entries
  <2> QED BY <2>1, <2>2
<1>2. ASSUME NEW k \in 1 .. 3, \A j \in 1 .. 3 : j < k => Opposed(j) PROVE Opposed(k)
  <2> DEFINE first == IF k = 1 THEN None ELSE r[1].winner
             second == IF k = 1 THEN None ELSE q[1].winner
             by == Verdict(f, xs[k], ys[k], k, first)
             yb == Verdict(g, ys[k], xs[k], k, second)
             d == Drawn(f, xs, ys, coins, r, k)
             e == Drawn(g, ys, xs, others, q, k)
  <2>1. k = 1 \/ (first \in Sides12 /\ second = Other(first))
    <3> SUFFICES ASSUME k # 1 PROVE first \in Sides12 /\ second = Other(first)
      OBVIOUS
    <3>1. Opposed(1)
      BY <1>2
    <3> QED BY <1>1, <3>1 DEF Result
  <2>2. yb = Crossed(by) /\ by \in Verdicts
    <3>1. xs[k] \in Move /\ ys[k] \in Move
      OBVIOUS
    <3> HIDE DEF first, second
    <3> QED BY <2>1, <3>1, VerdictMirrored, VerdictTyped
  <2>3. d = e
    <3>1. \A j \in 1 .. k - 1 : r[j].flip = q[j].flip
      BY <1>2
    <3>2. {j \in 1 .. k - 1 : r[j].flip} = {j \in 1 .. k - 1 : q[j].flip}
      BY <3>1, Zenon
    <3> QED BY <3>2 DEF Drawn
  <2>4. d \in DOMAIN coins
    <3> DEFINE before == {j \in 1 .. k - 1 : r[j].flip}
    <3>1. IsFiniteSet(1 .. k - 1) /\ Cardinality(1 .. k - 1) = k - 1 /\ before \subseteq 1 .. k - 1
      <4>1. 1 \in Int /\ k - 1 \in Int
        OBVIOUS
      <4>2. Cardinality(1 .. k - 1) = k - 1
        <5>1. Cardinality(1 .. k - 1) = IF 1 > k - 1 THEN 0 ELSE (k - 1) - 1 + 1
          BY <4>1, FS_Interval
        <5> QED BY <5>1
      <4> QED BY <4>1, <4>2, FS_Interval
    <3>2. Cardinality(before) \in Nat /\ Cardinality(before) <= k - 1
      BY <3>1, FS_Subset, FS_CardinalityType
    <3>3. d = 1 + Cardinality(before)
      BY DEF Drawn
    <3> HIDE DEF before, d
    <3>4. d \in 1 .. Len(coins)
      BY <3>2, <3>3
    <3> QED BY <3>4
  <2>5. /\ r[k] = [winner |-> IF by # None THEN by ELSE IF coins[d] THEN "p1" ELSE "p2", flip |-> by = None]
        /\ q[k] = [winner |-> IF yb # None THEN yb ELSE IF others[e] THEN "p1" ELSE "p2", flip |-> yb = None]
    <3>1. r[k] = RoundResult(f, xs, ys, coins, r, k) /\ q[k] = RoundResult(g, ys, xs, others, q, k)
      BY DEF Resolves
    <3> QED BY <3>1, Zenon DEF RoundResult
  <2>6. others[e] = ~coins[d] /\ coins[d] \in BOOLEAN
    BY <2>3, <2>4
  <2> HIDE DEF by, yb, d, e, others, first, second
  <2>7. CASE by = None
    <3>1. yb = None
      BY <2>2, <2>7, OthersOther
    <3> DEFINE won == IF coins[d] THEN "p1" ELSE "p2"
               one == IF ~coins[d] THEN "p1" ELSE "p2"
    <3>5. r[k] = [winner |-> won, flip |-> by = None] /\ q[k] = [winner |-> one, flip |-> yb = None]
      BY <2>5, <2>6, <2>7, <3>1, Zenon
    <3>6. (by = None) = (yb = None)
      BY <2>7, <3>1
    <3>2. r[k].flip = (by = None) /\ q[k].flip = (by = None) /\ r[k].winner = won /\ q[k].winner = one
      <4> HIDE DEF won, one
      <4> DEFINE B == by = None
      <4>1. r[k] = [winner |-> won, flip |-> B] /\ q[k] = [winner |-> one, flip |-> B]
        BY <3>5, <3>6, Zenon
      <4> HIDE DEF B
      <4>2. r[k].flip = B /\ q[k].flip = B /\ r[k].winner = won /\ q[k].winner = one
        <5> DEFINE rk == r[k]
                   qk == q[k]
        <5>1. rk = [winner |-> won, flip |-> B] /\ qk = [winner |-> one, flip |-> B]
          BY <4>1
        <5> HIDE DEF rk, qk, Opposed
        <5>2. rk.winner = won /\ rk.flip = B
          BY <5>1, FieldsOf
        <5>3. qk.winner = one /\ qk.flip = B
          BY <5>1, FieldsOf
        <5> QED BY <5>2, <5>3 DEF rk, qk
      <4> QED BY <4>2 DEF B
    <3>3. /\ r[k].winner = IF coins[d] THEN "p1" ELSE "p2"
          /\ q[k].winner = IF ~coins[d] THEN "p1" ELSE "p2"
      BY <3>2, Zenon
    <3>4. q[k].winner = Other(r[k].winner)
      BY <2>6, <3>3, OthersOther
    <3> QED BY <3>2, <3>4
  <2>8. CASE by # None
    <3>1. by \in Sides12 /\ yb = Other(by) /\ yb # None
      BY <2>2, <2>8, OthersOther DEF Verdicts
    <3> QED BY <2>5, <2>8, <3>1
  <2> QED BY <2>7, <2>8
<1>3. Opposed(1)
  <2> HIDE DEF Opposed
  <2> QED BY <1>2
<1>4. Opposed(2)
  <2> HIDE DEF Opposed
  <2>1. \A j \in 1 .. 3 : j < 2 => Opposed(j)
    BY <1>3
  <2> QED BY <1>2, <2>1
<1>5. Opposed(3)
  <2> HIDE DEF Opposed
  <2>1. \A j \in 1 .. 3 : j < 3 => Opposed(j)
    <3>1. \A j \in 1 .. 3 : j < 3 => j = 1 \/ j = 2
      OBVIOUS
    <3> QED BY <1>3, <1>4, <3>1
  <2> QED BY <1>2, <2>1
<1>6. ASSUME NEW k \in 1 .. 3 PROVE q[k] = [r[k] EXCEPT !.winner = Other(@)]
  <2>1. Opposed(k)
    <3>1. k = 1 \/ k = 2 \/ k = 3
      OBVIOUS
    <3> HIDE DEF Opposed
    <3> QED BY <1>3, <1>4, <1>5, <3>1
  <2> QED BY <1>1, <2>1 DEF Result
<1>7. DOMAIN r = 1 .. 3 /\ q = [k \in 1 .. 3 |-> q[k]]
  BY <1>1
<1> HIDE DEF Opposed
<1> QED BY <1>6, <1>7 DEF Mirror

-----------------------------------------------------------------------------
(* What is shown of a match.                                                *)

\* The first rounds of a match: as many results, each the match's own.
LEMMA FirstRounds ==
  ASSUME NEW r \in Seq(Result), Len(r) = 3, NEW n \in 0 .. 3
  PROVE  /\ SubSeq(r, 1, n) \in Seq(Result) /\ Len(SubSeq(r, 1, n)) = n
         /\ \A k \in 1 .. n : SubSeq(r, 1, n)[k] = r[k]
<1>1. \A i \in 1 .. n : r[i] \in Result
  BY Entries
<1>2. 1 \in Int /\ n \in Int
  OBVIOUS
<1>3. /\ SubSeq(r, 1, n) \in Seq(Result)
      /\ Len(SubSeq(r, 1, n)) = IF 1 <= n THEN n - 1 + 1 ELSE 0
      /\ \A i \in 1 .. n - 1 + 1 : SubSeq(r, 1, n)[i] = r[1 + i - 1]
  BY <1>1, <1>2, SubSeqProperties
<1>4. (IF 1 <= n THEN n - 1 + 1 ELSE 0) = n /\ n - 1 + 1 = n /\ \A i \in 1 .. n : 1 + i - 1 = i
  OBVIOUS
<1> HIDE DEF Result
<1> QED BY <1>3, <1>4

\* Results that begin with these.
LEMMA Begins ==
  ASSUME NEW s \in Seq(Result), NEW t \in Seq(Result), Len(s) <= Len(t), \A k \in 1 .. Len(s) : s[k] = t[k]
  PROVE  IsPrefix(s, t)
<1> DEFINE n == Len(s)
           u == SubSeq(s, 1, n)
           v == SubSeq(t, 1, n)
<1>1. n \in Nat /\ Len(t) \in Nat /\ \A i \in 1 .. n : s[i] \in Result /\ t[i] \in Result
  <2>1. Len(s) \in Nat /\ Len(t) \in Nat
    BY LenProperties
  <2>2. \A i \in 1 .. n : s[i] \in Result /\ t[i] \in Result
    BY <2>1
  <2> QED BY <2>1, <2>2
<1>2. /\ u \in Seq(Result) /\ Len(u) = IF 1 <= n THEN n - 1 + 1 ELSE 0
      /\ \A i \in 1 .. n - 1 + 1 : u[i] = s[1 + i - 1]
  BY <1>1, SubSeqProperties
<1>3. /\ v \in Seq(Result) /\ Len(v) = IF 1 <= n THEN n - 1 + 1 ELSE 0
      /\ \A i \in 1 .. n - 1 + 1 : v[i] = t[1 + i - 1]
  BY <1>1, SubSeqProperties
<1>4. (IF 1 <= n THEN n - 1 + 1 ELSE 0) = n /\ n - 1 + 1 = n /\ \A i \in 1 .. n : 1 + i - 1 = i
  BY <1>1
<1>5. \A i \in 1 .. n : s[i] = t[i]
  OBVIOUS
<1> HIDE DEF n, u, v, Result
<1>6. Len(u) = Len(v) /\ \A i \in 1 .. Len(u) : u[i] = v[i]
  BY <1>2, <1>3, <1>4, <1>5
<1>7. u = v
  BY <1>2, <1>3, <1>6, SeqEqual
<1> QED BY <1>7 DEF IsPrefix, n, u, v

\* The match whose rest is padded out.
Padded(b, moves) == [k \in 1 .. Rounds |-> IF k <= Len(moves) THEN b[k] ELSE Pad]
MovesOf(moves) == [k \in 1 .. Rounds |-> MoveOrPad(k, moves)]
PrefixOf(f, b, coins, moves) == Match(f, MovesOf(moves), Padded(b, moves), coins)

\* The prefix of this duel.
LEMMA PrefixIs == \A moves : Prefix(moves) = PrefixOf(fighter, bot, stream, moves)
BY Zenon DEF Prefix, PrefixOf, MovesOf, Padded

\* A prefix is a match of padded moves.
LEMMA PrefixResolves ==
  ASSUME NEW f, NEW b, NEW coins, NEW moves
  PROVE  Resolves(PrefixOf(f, b, coins, moves), f, MovesOf(moves), Padded(b, moves), coins)
BY MatchResolves DEF PrefixOf

\* Rounds that were shown are what a later prefix gives them too.
LEMMA ShownStand ==
  ASSUME NEW f, NEW b, NEW coins, NEW moves \in Seq(Move), NEW move \in Move, Len(moves) < 3
  PROVE  IsPrefix(SubSeq(PrefixOf(f, b, coins, moves), 1, Len(moves)),
                  SubSeq(PrefixOf(f, b, coins, Append(moves, move)), 1, Len(Append(moves, move))))
<1> DEFINE more == Append(moves, move)
           n == Len(moves)
           r == PrefixOf(f, b, coins, moves)
           q == PrefixOf(f, b, coins, more)
           s == SubSeq(r, 1, n)
           t == SubSeq(q, 1, Len(more))
<1>1. n \in 0 .. 2 /\ Len(more) = n + 1 /\ \A k \in 1 .. n : more[k] = moves[k]
  <2>1. /\ Len(more) = Len(moves) + 1
        /\ \A i \in 1 .. Len(moves) : more[i] = moves[i]
    BY AppendProperties
  <2>2. Len(moves) \in Nat
    BY Entries
  <2>3. Len(moves) \in 0 .. 2
    <3> DEFINE m == Len(moves)
    <3>1. m \in Nat /\ m < 3
      BY <2>2
    <3> HIDE DEF m
    <3>2. m \in 0 .. 2
      BY <3>1
    <3> QED BY <3>2 DEF m
  <2> HIDE DEF more, r, q, s, t
  <2> QED BY <2>1, <2>3
<1>2. Resolves(r, f, MovesOf(moves), Padded(b, moves), coins) /\ Resolves(q, f, MovesOf(more), Padded(b, more), coins)
  BY PrefixResolves
<1>3. \A k \in 1 .. 3 : k <= n => MovesOf(moves)[k] = MovesOf(more)[k] /\ Padded(b, moves)[k] = Padded(b, more)[k]
  <2> SUFFICES ASSUME NEW k \in 1 .. 3, k <= n
               PROVE  MovesOf(moves)[k] = MovesOf(more)[k] /\ Padded(b, moves)[k] = Padded(b, more)[k]
    OBVIOUS
  <2>1. k \in 1 .. Rounds /\ k <= Len(moves) /\ k <= Len(more) /\ more[k] = moves[k]
    BY <1>1 DEF Rounds
  <2> HIDE DEF more, n
  <2> QED BY <2>1 DEF MovesOf, Padded, MoveOrPad
<1> HIDE DEF more, n, r, q
<1>4. r \in Seq(Result) /\ Len(r) = 3 /\ q \in Seq(Result) /\ Len(q) = 3
  BY <1>2 DEF Resolves
<1>5. \A k \in 1 .. 3 : k <= n => r[k] = q[k]
  <2>1. n \in 0 .. 3
    BY <1>1
  <2> QED BY <1>2, <1>3, <2>1, Determined
<1>6. s \in Seq(Result) /\ Len(s) = n /\ \A k \in 1 .. n : s[k] = r[k]
  <2>1. n \in 0 .. 3
    BY <1>1
  <2> QED BY <1>4, <2>1, FirstRounds
<1>7. t \in Seq(Result) /\ Len(t) = n + 1 /\ \A k \in 1 .. n + 1 : t[k] = q[k]
  <2>1. n + 1 \in 0 .. 3 /\ Len(more) = n + 1
    BY <1>1
  <2> QED BY <1>4, <2>1, FirstRounds
<1> HIDE DEF s, t, Result
<1>8. Len(s) <= Len(t) /\ \A k \in 1 .. Len(s) : s[k] = t[k]
  <2>1. \A k \in 1 .. n : k \in 1 .. 3 /\ k <= n /\ k \in 1 .. n + 1
    BY <1>1
  <2> QED BY <1>1, <1>5, <1>6, <1>7, <2>1
<1>9. IsPrefix(s, t)
  BY <1>6, <1>7, <1>8, Begins
<1> QED BY <1>9 DEF s, t, r, q, n, more

\* When the last round is in, what was shown is the match of the moves played.
LEMMA CommittedMatch ==
  ASSUME NEW f, NEW b \in [1 .. 3 -> Move], NEW coins, NEW moves \in Seq(Move), Len(moves) = 3
  PROVE  SubSeq(PrefixOf(f, b, coins, moves), 1, 3) = Match(f, moves, b, coins)
<1> DEFINE r == PrefixOf(f, b, coins, moves)
           q == Match(f, moves, b, coins)
           s == SubSeq(r, 1, 3)
<1>1. Resolves(r, f, MovesOf(moves), Padded(b, moves), coins) /\ Resolves(q, f, moves, b, coins)
  BY PrefixResolves, MatchResolves
<1>2. \A k \in 1 .. 3 : k <= 3 => MovesOf(moves)[k] = moves[k] /\ Padded(b, moves)[k] = b[k]
  BY DEF MovesOf, Padded, MoveOrPad, Rounds
<1> HIDE DEF r, q
<1>3. \A k \in 1 .. 3 : k <= 3 => r[k] = q[k]
  <2>1. 3 \in 0 .. 3
    OBVIOUS
  <2> QED BY <1>1, <1>2, <2>1, Determined
<1>4. r \in Seq(Result) /\ Len(r) = 3 /\ q \in Seq(Result) /\ Len(q) = 3
  BY <1>1 DEF Resolves
<1>5. s \in Seq(Result) /\ Len(s) = 3 /\ \A k \in 1 .. 3 : s[k] = r[k]
  <2>1. 3 \in 0 .. 3
    OBVIOUS
  <2> QED BY <1>4, <2>1, FirstRounds
<1> HIDE DEF s, Result
<1>6. Len(s) = Len(q) /\ \A k \in 1 .. Len(s) : s[k] = q[k]
  BY <1>3, <1>4, <1>5
<1> QED BY <1>4, <1>5, <1>6, SeqEqual DEF s, r, q

-----------------------------------------------------------------------------
(* The duel.                                                                *)

\* What is shown is, in every state, the beginning of the match padded out from the moves so far.
DuelInv ==
  /\ DuelTypeOK /\ played \in Seq(Move)
  /\ shown = SubSeq(PrefixOf(fighter, bot, stream, played), 1, Len(played))

\* What is shown is typed, one result for each move.
LEMMA Typed3 ==
  ASSUME NEW f, NEW b, NEW coins, NEW moves \in Seq(Move), Len(moves) <= 3,
         NEW results, results = SubSeq(PrefixOf(f, b, coins, moves), 1, Len(moves))
  PROVE  /\ results \in Seq(Result) /\ Len(results) = Len(moves)
         /\ \A k \in DOMAIN results : results[k].winner \in {"p1", "p2"} /\ results[k].flip \in BOOLEAN
<1> DEFINE r == PrefixOf(f, b, coins, moves)
<1>1. r \in Seq(Result) /\ Len(r) = 3
  BY PrefixResolves DEF Resolves
<1>2. Len(moves) \in 0 .. 3
  BY Entries
<1> HIDE DEF r
<1>3. SubSeq(r, 1, Len(moves)) \in Seq(Result) /\ Len(SubSeq(r, 1, Len(moves))) = Len(moves)
  BY <1>1, <1>2, FirstRounds
<1>4. results \in Seq(Result) /\ Len(results) = Len(moves)
  BY <1>3 DEF r
<1>5. \A k \in DOMAIN results : results[k] \in Result
  <2> HIDE DEF Result
  <2> QED BY <1>4
<1>6. \A x \in Result : x.winner \in {"p1", "p2"} /\ x.flip \in BOOLEAN
  BY DEF Result, Sides12
<1> HIDE DEF Result
<1> QED BY <1>4, <1>5, <1>6

\* Up to three moves are a bounded sequence of moves.
LEMMA Bounded == \A moves \in Seq(Move) : Len(moves) <= 3 => moves \in BoundedSeq(Move, Rounds)
<1> SUFFICES ASSUME NEW moves \in Seq(Move), Len(moves) <= 3 PROVE moves \in BoundedSeq(Move, Rounds)
  OBVIOUS
<1> DEFINE n == Len(moves)
<1>1. n \in 0 .. Rounds /\ moves \in [1 .. n -> Move]
  BY Entries, LenProperties DEF Rounds
<1> HIDE DEF n
<1> QED BY <1>1, Zenon DEF BoundedSeq, SeqOf

\* The duel opens with nothing played and nothing shown.
LEMMA DuelStart == DuelInit => DuelInv
<1> SUFFICES ASSUME DuelInit PROVE DuelInv
  OBVIOUS
<1>1. played = <<>> /\ shown = <<>> /\ fighter \in [{"p1", "p2"} -> Fighters] /\ stream \in Streams
  BY DEF DuelInit
<1>2. bot \in [1 .. Rounds -> Move]
  <2>1. PICK elements \in [1 .. Rounds -> Elements], poison \in BotRounds, potion \in BotRounds :
          bot = Charged(elements, poison, potion)
    BY DEF DuelInit
  <2>2. \A k \in 1 .. Rounds :
          [element |-> elements[k], poison |-> k = poison, potion |-> k = potion] \in Move
    <3> SUFFICES ASSUME NEW k \in 1 .. Rounds
                 PROVE  [element |-> elements[k], poison |-> k = poison, potion |-> k = potion] \in Move
      OBVIOUS
    <3>1. (k = poison) \in BOOLEAN /\ (k = potion) \in BOOLEAN /\ elements[k] \in Elements
      OBVIOUS
    <3> QED BY <3>1, Zenon DEF Move
  <2>3. bot = [k \in 1 .. Rounds |-> [element |-> elements[k], poison |-> k = poison, potion |-> k = potion]]
    BY <2>1, Zenon DEF Charged
  <2> QED BY <2>2, <2>3, Zenon
<1>3. played \in Seq(Move) /\ Len(played) = 0
  BY <1>1
<1>4. SubSeq(PrefixOf(fighter, bot, stream, played), 1, 0) = <<>>
  BY SubSeqEmpty
<1>5. shown = SubSeq(PrefixOf(fighter, bot, stream, played), 1, Len(played))
  BY <1>1, <1>3, <1>4
<1>6. played \in BoundedSeq(Move, Rounds)
  <2>1. Len(played) <= 3
    BY <1>3
  <2> QED BY <1>3, <2>1, Bounded
<1>7. /\ Len(shown) = Len(played)
      /\ \A k \in DOMAIN shown : shown[k].winner \in {"p1", "p2"} /\ shown[k].flip \in BOOLEAN
  <2>1. Len(played) <= 3
    BY <1>3
  <2> QED BY <1>3, <1>5, <2>1, Typed3
<1> QED BY <1>1, <1>2, <1>3, <1>5, <1>6, <1>7 DEF DuelInv, DuelTypeOK

\* A round keeps the invariant and what was shown before it.
LEMMA DuelStep == DuelInv /\ [DuelNext]_duelVars => DuelInv' /\ IsPrefix(shown, shown')
<1> SUFFICES ASSUME DuelInv, [DuelNext]_duelVars PROVE DuelInv' /\ IsPrefix(shown, shown')
  OBVIOUS
<1>1. DuelTypeOK /\ played \in Seq(Move) /\ shown = SubSeq(PrefixOf(fighter, bot, stream, played), 1, Len(played))
  BY DEF DuelInv
<1>2. CASE UNCHANGED duelVars
  <2>1. DuelInv'
    BY <1>1, <1>2 DEF DuelInv, DuelTypeOK, duelVars
  <2>2. IsPrefix(shown, shown)
    <3>1. Len(played) <= 3
      <4>1. PICK m \in 0 .. 3 : played \in [1 .. m -> Move]
        BY <1>1 DEF DuelTypeOK, BoundedSeq, SeqOf, Rounds
      <4>2. DOMAIN played = 1 .. Len(played) /\ Len(played) \in Nat
        BY <1>1, LenProperties
      <4>3. DOMAIN played = 1 .. m
        BY <4>1
      <4> DEFINE p == Len(played)
      <4>4. p \in Nat /\ 1 .. p = 1 .. m
        BY <4>2, <4>3
      <4> HIDE DEF p
      <4>5. p <= m
        <5> SUFFICES ASSUME m < p PROVE FALSE
          BY <4>4
        <5>1. p \in 1 .. p /\ p \notin 1 .. m
          BY <4>4
        <5> QED BY <4>4, <5>1
      <4>6. p <= 3
        BY <4>4, <4>5
      <4> QED BY <4>6 DEF p
    <3>2. shown \in Seq(Result)
      BY <1>1, <3>1, Typed3
    <3>3. Len(shown) <= Len(shown)
      BY <3>2, LenProperties
    <3> QED BY <3>2, <3>3, Begins
  <2> QED BY <1>2, <2>1, <2>2 DEF duelVars
<1>3. ASSUME NEW move \in Move, PlayRound(move) PROVE DuelInv' /\ IsPrefix(shown, shown')
  <2> DEFINE more == Append(played, move)
  <2>1. /\ Len(played) < 3 /\ played' = more
        /\ fighter' = fighter /\ stream' = stream /\ bot' = bot
    BY <1>3 DEF PlayRound, Rounds
  <2>2. shown' = SubSeq(PrefixOf(fighter, bot, stream, more), 1, Len(more))
    <3>1. shown' = SubSeq(Prefix(played'), 1, Len(played'))
      BY <1>3 DEF PlayRound
    <3> QED BY <2>1, <3>1, PrefixIs
  <2>3. more \in Seq(Move) /\ Len(more) <= 3
    <3>1. more \in Seq(Move) /\ Len(more) = Len(played) + 1
      BY <1>1, AppendProperties
    <3>2. Len(played) \in Nat
      BY <1>1, LenProperties
    <3> QED BY <2>1, <3>1, <3>2
  <2>4. IsPrefix(shown, shown')
    BY <1>1, <2>1, <2>2, ShownStand
  <2>5. /\ Len(shown') = Len(more)
        /\ \A k \in DOMAIN shown' : shown'[k].winner \in {"p1", "p2"} /\ shown'[k].flip \in BOOLEAN
    <3> DEFINE results == shown'
    <3>1. results = SubSeq(PrefixOf(fighter, bot, stream, more), 1, Len(more))
      BY <2>2
    <3> HIDE DEF results, more
    <3>2. /\ Len(results) = Len(more)
          /\ \A k \in DOMAIN results : results[k].winner \in {"p1", "p2"} /\ results[k].flip \in BOOLEAN
      BY <2>3, <3>1, Typed3
    <3> QED BY <3>2 DEF results
  <2>6. more \in BoundedSeq(Move, Rounds)
    BY <2>3, Bounded
  <2>7. DuelTypeOK'
    BY <1>1, <2>1, <2>5, <2>6 DEF DuelTypeOK
  <2>8. shown' = SubSeq(PrefixOf(fighter', bot', stream', played'), 1, Len(played'))
    BY <2>1, <2>2
  <2> QED BY <2>1, <2>3, <2>4, <2>7, <2>8 DEF DuelInv
<1> QED BY <1>2, <1>3 DEF DuelNext

\* The invariant says what the property says.
LEMMA DuelFair == DuelInv => SidesAreEqual
<1> SUFFICES ASSUME DuelInv, Len(played) = Rounds
             PROVE  /\ shown = Match(fighter, played, bot, stream)
                    /\ Match([s \in {"p1", "p2"} |-> Swapped(s)], bot, played, [k \in DOMAIN stream |-> ~stream[k]])
                         = Mirror(shown)
  BY DEF SidesAreEqual
<1>1. /\ played \in Seq(Move) /\ Len(played) = 3 /\ bot \in [1 .. 3 -> Move] /\ stream \in Streams
      /\ shown = SubSeq(PrefixOf(fighter, bot, stream, played), 1, 3)
  BY DEF DuelInv, DuelTypeOK, Rounds
<1>2. shown = Match(fighter, played, bot, stream)
  BY <1>1, CommittedMatch
<1> DEFINE g == [s \in {"p1", "p2"} |-> Swapped(s)]
           r == Match(fighter, played, bot, stream)
           others == [k \in DOMAIN stream |-> ~stream[k]]
           q == Match(g, bot, played, others)
<1>3. Resolves(r, fighter, played, bot, stream) /\ Resolves(q, g, bot, played, others)
  BY MatchResolves
<1>4. g["p1"] = fighter["p2"] /\ g["p2"] = fighter["p1"]
  BY OthersOther DEF Swapped
<1>5. played \in [1 .. 3 -> Move] /\ stream \in Seq(BOOLEAN) /\ Len(stream) >= 3
  BY <1>1, DuelAssumption, LenProperties DEF Rounds
<1> HIDE DEF g, r, q
<1>6. q = Mirror(r)
  BY <1>1, <1>3, <1>4, <1>5, MatchMirrored
<1> QED BY <1>2, <1>6 DEF g, r, q

\* A duel played round by round is the match a committed one would have been.
THEOREM DuelRight == DuelSpec => RoundsAsCommitted
<1>1. DuelSpec => []DuelInv
  BY DuelStart, DuelStep, PTL DEF DuelSpec
<1>2. DuelInv => DuelTypeOK
  BY DEF DuelInv
<1>3. DuelSpec => ShownRoundsStand
  <2>1. DuelInv /\ [DuelNext]_duelVars => [IsPrefix(shown, shown')]_duelVars
    BY DuelStep
  <2> QED BY <1>1, <2>1, PTL DEF DuelSpec, ShownRoundsStand
<1> QED BY <1>1, <1>2, <1>3, DuelFair, PTL DEF RoundsAsCommitted

(***************************************************************************)
(* The fight of Adventure mode.                                             *)
(***************************************************************************)

\* What stands in a fight: the cats of the pairs, the faces they show, the arenas they bring.
Cats == {pair[s] : pair \in Pairs, s \in Sides}
Masks == {NoEffect} \cup {c.forms[k].face : c \in Cats, k \in Sides}
Arenas == {c.forms[k].background : c \in Cats, k \in Sides}
Runes == {None} \cup Families \cup {c.forms[k].family : c \in Cats, k \in Sides}
FlagNames ==
  {"asleep", "forceMiss", "stood", "hitThisTurn", "hitLastTurn", "firstHitTaken", "riposte", "grudged",
   "opened", "contagiousMiss", "missedAgainstMe", "opponentMissed", "tookOneThisTurn", "shield",
   "extraTurn", "flipped", "arenaTaken"}
Combatant ==
  [cat : Cats, form : Sides, catnip : Int, hp : Int, maxHp : Int, force : Int, armor : Int,
   forceMod : Int, armorMod : Int, charge : Int, copied : Masks \cup {None}, awake : Int,
   burn : [amount : Nat, turns : Int], flags : SUBSET FlagNames]
Fall == [side : Sides, turn : Nat]
Bouts ==
  [f : [Sides -> Combatant], turn : Nat, toAct : Sides, over : BOOLEAN, winner : Sides \cup {None},
   timedOut : BOOLEAN, arenaOwner : Sides, arena : Arenas, lastRune : Runes, actions : Nat,
   first : Sides, fallen : Seq(Fall), missed : [Sides -> BOOLEAN]]

\* A fighter's numbers are those of the form it shows, and it has life left within its bounds.
TrueForm(x) ==
  /\ ~Has(Rule(x), "rerollStats") =>
       /\ x.maxHp = Percent(Shown(x).hp, x.cat.scale)
       /\ x.force = Shown(x).force /\ x.armor = BaseArmor(Shown(x))
  /\ x.catnip = x.cat.catnip - (IF "flipped" \in x.flags THEN 1 ELSE 0)
  /\ x.form = 2 => "flipped" \in x.flags /\ x.cat.canFlip
Right(x) ==
  /\ x \in Combatant /\ TrueForm(x)
  /\ x.catnip >= 0 /\ 0 <= x.hp /\ x.hp <= x.maxHp /\ x.maxHp > 0

\* Both stand, or who went down last has lost.
Standing2(b) ==
  IF b.over THEN /\ b.fallen # <<>> /\ b.winner \in Sides
                 /\ b.fallen[Len(b.fallen)].side = Foe(b.winner)
  ELSE b.winner = None /\ b.fallen = <<>> /\ \A s \in Sides : b.f[s].hp > 0
Door(b, fall) ==
  /\ /\ Has(b.arena, "noDeathBefore") /\ \A s \in Sides : "arenaTaken" \notin b.f[s].flags
     => fall.turn >= b.arena.noDeathBefore \/ Does(b, fall.side, "arenaImmune")
  /\ Does(b, fall.side, "standAtOne") => "stood" \in b.f[fall.side].flags
Doors(b) == \A k \in DOMAIN b.fallen : Door(b, b.fallen[k])
Sound(b) ==
  /\ b \in Bouts /\ ~b.timedOut /\ \A s \in Sides : Right(b.f[s])
  /\ Standing2(b) /\ Doors(b)

\* What a blow does not change: whose turn it is, the arena, the faces.
SameFace(x, y) ==
  /\ y.cat = x.cat /\ y.form = x.form /\ y.copied = x.copied
  /\ \A n \in {"stood", "arenaTaken"} : n \in x.flags => n \in y.flags
SameClock(b, c) ==
  c.turn = b.turn /\ c.toAct = b.toAct /\ c.actions = b.actions /\ c.first = b.first
Stage(b, c) ==
  /\ SameClock(b, c) /\ c.arena = b.arena /\ c.arenaOwner = b.arenaOwner
  /\ \A s \in Sides : SameFace(b.f[s], c.f[s])
Follows(b, c) == Sound(c) /\ Stage(b, c)

\* The tables hold counts.
LEMMA CatNumbers ==
  ASSUME NEW c \in Cats, NEW k \in Sides
  PROVE  /\ c.catnip \in Nat /\ c.scale \in Nat
         /\ c.forms[k].hp \in Nat /\ c.forms[k].force \in Nat /\ c.forms[k].armor \in Nat
         /\ Table(c.forms[k].face) /\ Table(c.forms[k].rule) /\ Table(c.forms[k].background)
         /\ Percent(c.forms[k].hp, c.scale) > 0
<1>1. PICK pair \in Pairs, s \in Sides : c = pair[s]
  BY DEF Cats
<1> QED BY <1>1, FightAssumption

\* An effect is a count, whatever the table.
LEMMA EffectNumber ==
  ASSUME NEW t, Table(t), NEW e
  PROVE  Effect(t, e) \in Nat
BY DEF Table, Effect, Has

\* Masks and arenas are tables.
LEMMA MasksCount ==
  /\ \A t \in Masks : Table(t)
  /\ \A t \in Arenas : Table(t)
<1>1. Table(NoEffect)
  BY DEF Table, NoEffect
<1> QED BY <1>1, CatNumbers DEF Masks, Arenas

\* Percent of a count is a count.
LEMMA PercentNumber ==
  ASSUME NEW n \in Nat, NEW p \in Nat
  PROVE  Percent(n, p) \in Nat
<1>1. n * p \in Nat
  OBVIOUS
<1>2. 2 * n * p = 2 * (n * p)
  OBVIOUS
<1> QED BY <1>1, <1>2 DEF Percent

\* The face shown, its rule and its form are of the cat.
LEMMA ShownNumbers ==
  ASSUME NEW x \in Combatant
  PROVE  /\ Table(Rule(x)) /\ Table(Shown(x).face) /\ Shown(x).face \in Masks
         /\ Shown(x).background \in Arenas /\ Shown(x).family \in Runes
         /\ Shown(x).hp \in Nat /\ Shown(x).force \in Nat /\ Shown(x).armor \in Nat
         /\ x.cat.scale \in Nat /\ x.cat.catnip \in Nat
         /\ Percent(Shown(x).hp, x.cat.scale) > 0 /\ Percent(Shown(x).hp, x.cat.scale) \in Nat
         /\ BaseArmor(Shown(x)) \in Nat
<1>1. x.cat \in Cats /\ x.form \in Sides
  BY DEF Combatant
<1>2. Shown(x).hp \in Nat /\ x.cat.scale \in Nat /\ Shown(x).armor \in Nat
  BY <1>1, CatNumbers DEF Shown
<1>3. /\ Table(Rule(x)) /\ Table(Shown(x).face)
      /\ Shown(x).force \in Nat /\ x.cat.catnip \in Nat
      /\ Percent(Shown(x).hp, x.cat.scale) > 0
  BY <1>1, CatNumbers DEF Shown, Rule
<1>4. Shown(x).face \in Masks /\ Shown(x).background \in Arenas /\ Shown(x).family \in Runes
  <2> DEFINE c == x.cat
             k == x.form
  <2>1. Shown(x).face = c.forms[k].face /\ Shown(x).background = c.forms[k].background
        /\ Shown(x).family = c.forms[k].family
    BY DEF Shown
  <2>2. c \in Cats /\ k \in Sides
    BY <1>1
  <2> HIDE DEF c, k
  <2>3. c.forms[k].face \in Masks
    BY <2>2 DEF Masks
  <2>4. c.forms[k].background \in Arenas
    BY <2>2 DEF Arenas
  <2>5. c.forms[k].family \in Runes
    BY <2>2 DEF Runes
  <2> QED BY <2>1, <2>3, <2>4, <2>5
<1>5. Percent(Shown(x).hp, x.cat.scale) \in Nat
  BY <1>2, PercentNumber
<1>6. BaseArmor(Shown(x)) \in Nat
  BY <1>2 DEF BaseArmor, MuteArmor
<1> QED BY <1>2, <1>3, <1>4, <1>5, <1>6

\* The other side.
LEMMA FoeSide ==
  /\ \A s \in Sides : Foe(s) \in Sides /\ Foe(s) # s /\ Foe(Foe(s)) = s
  /\ \A s, t \in Sides : t = s \/ t = Foe(s)
BY DEF Sides, Foe

\* An active face is a mask.
LEMMA ActiveMask ==
  ASSUME NEW b \in Bouts, NEW s \in Sides
  PROVE  ActiveFace(b, s) \in Masks /\ Table(ActiveFace(b, s))
<1>1. b.f[s] \in Combatant /\ b.f[Foe(s)] \in Combatant
  BY FoeSide DEF Bouts
<1>2. b.f[s].copied \in Masks \cup {None}
  BY <1>1 DEF Combatant
<1>3. Shown(b.f[s]).face \in Masks /\ Shown(b.f[Foe(s)]).face \in Masks
  BY <1>1, ShownNumbers
<1>4. ActiveFace(b, s) \in Masks
  BY <1>2, <1>3 DEF ActiveFace, Masks
<1> QED BY <1>4, MasksCount

\* On the same stage the same faces are active.
LEMMA StageFaces ==
  ASSUME NEW b \in Bouts, NEW c \in Bouts, Stage(b, c), NEW s \in Sides
  PROVE  ActiveFace(c, s) = ActiveFace(b, s)
<1>1. Foe(s) \in Sides
  BY FoeSide
<1>2. /\ Shown(c.f[s]) = Shown(b.f[s]) /\ Shown(c.f[Foe(s)]) = Shown(b.f[Foe(s)])
      /\ c.f[s].copied = b.f[s].copied
      /\ c.arena = b.arena /\ c.arenaOwner = b.arenaOwner
  BY <1>1 DEF Stage, SameFace, Shown
<1> QED BY <1>2 DEF ActiveFace

\* One fighter replaced: the rest is as it was.
LEMMA PutIs ==
  ASSUME NEW b \in Bouts, NEW s \in Sides, NEW x \in Combatant
  PROVE  /\ Put(b, s, x) \in Bouts
         /\ Put(b, s, x).f[s] = x /\ Put(b, s, x).f[Foe(s)] = b.f[Foe(s)]
         /\ Put(b, s, x).turn = b.turn /\ Put(b, s, x).toAct = b.toAct
         /\ Put(b, s, x).over = b.over /\ Put(b, s, x).winner = b.winner
         /\ Put(b, s, x).timedOut = b.timedOut
         /\ Put(b, s, x).arenaOwner = b.arenaOwner /\ Put(b, s, x).arena = b.arena
         /\ Put(b, s, x).lastRune = b.lastRune /\ Put(b, s, x).actions = b.actions
         /\ Put(b, s, x).first = b.first /\ Put(b, s, x).fallen = b.fallen
         /\ Put(b, s, x).missed = b.missed
<1> HIDE DEF Combatant, Arenas, Runes, Fall
<1>0. Foe(s) \in Sides /\ Foe(s) # s
  BY FoeSide
<1>1. [b.f EXCEPT ![s] = x] \in [Sides -> Combatant]
  BY DEF Bouts
<1>2. [b.f EXCEPT ![s] = x][s] = x /\ [b.f EXCEPT ![s] = x][Foe(s)] = b.f[Foe(s)]
  BY <1>0 DEF Bouts
<1> DEFINE g == [b.f EXCEPT ![s] = x]
<1>3. Put(b, s, x) = [b EXCEPT !.f = g]
  BY DEF Put
<1> HIDE DEF g
<1>4. g \in [Sides -> Combatant]
  BY <1>1 DEF g
<1>5. [b EXCEPT !.f = g] \in Bouts
  BY <1>4 DEF Bouts
<1>6. /\ [b EXCEPT !.f = g].f = g /\ [b EXCEPT !.f = g].turn = b.turn
      /\ [b EXCEPT !.f = g].toAct = b.toAct
      /\ [b EXCEPT !.f = g].over = b.over /\ [b EXCEPT !.f = g].winner = b.winner
      /\ [b EXCEPT !.f = g].timedOut = b.timedOut
      /\ [b EXCEPT !.f = g].arenaOwner = b.arenaOwner /\ [b EXCEPT !.f = g].arena = b.arena
      /\ [b EXCEPT !.f = g].lastRune = b.lastRune /\ [b EXCEPT !.f = g].actions = b.actions
      /\ [b EXCEPT !.f = g].first = b.first /\ [b EXCEPT !.f = g].fallen = b.fallen
      /\ [b EXCEPT !.f = g].missed = b.missed
  BY DEF Bouts
<1> QED BY <1>2, <1>3, <1>5, <1>6 DEF g

\* A stage leads to itself, and on.
LEMMA StagesFollow ==
  ASSUME NEW b, NEW c, NEW d, Stage(b, c), Stage(c, d)
  PROVE  Stage(b, d)
BY DEF Stage, SameClock, SameFace

\* Nothing changed is the same stage.
LEMMA StageStays ==
  ASSUME NEW b
  PROVE  Stage(b, b)
BY DEF Stage, SameClock, SameFace

\* What follows what follows, follows.
LEMMA Onward ==
  ASSUME NEW b, NEW c, NEW d, Follows(b, c), Follows(c, d)
  PROVE  Follows(b, d)
BY StagesFollow DEF Follows

\* What a sound bout is made of.
LEMMA SoundParts ==
  ASSUME NEW b, Sound(b), NEW s \in Sides
  PROVE  /\ b \in Bouts /\ Follows(b, b) /\ Foe(s) \in Sides
         /\ b.f[s] \in Combatant /\ Right(b.f[s])
         /\ Table(ActiveFace(b, s)) /\ ActiveFace(b, s) \in Masks
         /\ Table(Rule(b.f[s])) /\ Table(b.arena)
<1>1. b \in Bouts /\ Right(b.f[s]) /\ b.f[s] \in Combatant
  BY DEF Sound, Right
<1>2. b.arena \in Arenas
  BY <1>1 DEF Bouts
<1> QED BY <1>1, <1>2, StageStays, ActiveMask, MasksCount, ShownNumbers, FoeSide DEF Sound, Follows

\* A fall stays as the doors were, on the same stage.
LEMMA DoorStays ==
  ASSUME NEW b \in Bouts, NEW c \in Bouts, Stage(b, c), NEW fall \in Fall, Door(b, fall)
  PROVE  Door(c, fall)
<1>1. fall.side \in Sides
  BY DEF Fall
<1>2. ActiveFace(c, fall.side) = ActiveFace(b, fall.side)
  BY <1>1, StageFaces
<1>3. c.arena = b.arena /\ \A s \in Sides : SameFace(b.f[s], c.f[s])
  BY DEF Stage
<1>4. /\ \A s \in Sides : "arenaTaken" \in b.f[s].flags => "arenaTaken" \in c.f[s].flags
      /\ "stood" \in b.f[fall.side].flags => "stood" \in c.f[fall.side].flags
  BY <1>1, <1>3 DEF SameFace
<1> QED BY <1>2, <1>3, <1>4 DEF Door, Does

\* The same falls on the same stage are as sound as they were.
LEMMA DoorsStay ==
  ASSUME NEW b \in Bouts, NEW c \in Bouts, Stage(b, c), c.fallen = b.fallen, Doors(b)
  PROVE  Doors(c)
<1> SUFFICES ASSUME NEW k \in DOMAIN c.fallen PROVE Door(c, c.fallen[k])
  BY DEF Doors
<1>1. c.fallen[k] \in Fall
  <2>1. c.fallen \in Seq(Fall)
    BY DEF Bouts
  <2> QED BY <2>1
<1>2. Door(b, c.fallen[k])
  BY DEF Doors
<1> QED BY <1>1, <1>2, DoorStays

\* A fighter that looks as it did and still has life, if anybody has to, may take its own place.
LEMMA PutSound ==
  ASSUME NEW b, Sound(b), NEW s \in Sides, NEW x, Right(x), SameFace(b.f[s], x), b.over \/ x.hp > 0
  PROVE  Follows(b, Put(b, s, x)) /\ Put(b, s, x).f[s] = x /\ Put(b, s, x).f[Foe(s)] = b.f[Foe(s)]
         /\ Put(b, s, x).over = b.over
<1> DEFINE c == Put(b, s, x)
<1>0. b \in Bouts /\ x \in Combatant /\ Foe(s) \in Sides /\ \A t \in Sides : t = s \/ t = Foe(s)
  BY FoeSide DEF Sound, Right
<1>1. /\ c \in Bouts /\ c.f[s] = x /\ c.f[Foe(s)] = b.f[Foe(s)]
      /\ c.turn = b.turn /\ c.toAct = b.toAct /\ c.over = b.over /\ c.winner = b.winner
      /\ c.timedOut = b.timedOut /\ c.arenaOwner = b.arenaOwner /\ c.arena = b.arena
      /\ c.actions = b.actions /\ c.first = b.first /\ c.fallen = b.fallen
  BY <1>0, PutIs
<1> HIDE DEF c
<1>2. \A t \in Sides : SameFace(b.f[t], c.f[t])
  <2>1. SameFace(b.f[Foe(s)], c.f[Foe(s)])
    BY <1>1 DEF SameFace
  <2> QED BY <1>0, <1>1, <2>1
<1>3. Stage(b, c)
  BY <1>1, <1>2 DEF Stage, SameClock
<1>4. \A t \in Sides : Right(c.f[t])
  BY <1>0, <1>1 DEF Sound
<1>5. Standing2(c)
  <2>1. CASE b.over
    BY <2>1, <1>1 DEF Sound, Standing2
  <2>2. CASE ~b.over
    <3>1. x.hp > 0 /\ b.f[Foe(s)].hp > 0
      BY <2>2, <1>0 DEF Sound, Standing2
    <3> QED BY <3>1, <2>2, <1>0, <1>1 DEF Sound, Standing2
  <2> QED BY <2>1, <2>2
<1>6. Doors(c)
  BY <1>0, <1>1, <1>3, DoorsStay DEF Sound
<1>7. Sound(c)
  BY <1>1, <1>4, <1>5, <1>6 DEF Sound
<1> QED BY <1>1, <1>3, <1>7 DEF Follows, c

\* Fields that decide nothing.
LEMMA AsideSound ==
  ASSUME NEW b, Sound(b), NEW m \in [Sides -> BOOLEAN], NEW r \in Runes
  PROVE  /\ Follows(b, [b EXCEPT !.missed = m]) /\ [b EXCEPT !.missed = m].f = b.f
         /\ [b EXCEPT !.missed = m].over = b.over
         /\ Follows(b, [b EXCEPT !.lastRune = r]) /\ [b EXCEPT !.lastRune = r].f = b.f
         /\ [b EXCEPT !.lastRune = r].over = b.over
<1> HIDE DEF Combatant, Arenas, Runes, Fall
<1>0. b \in Bouts
  BY DEF Sound
<1> DEFINE c == [b EXCEPT !.missed = m]
           d == [b EXCEPT !.lastRune = r]
<1>1. /\ c \in Bouts /\ c.f = b.f
      /\ c.turn = b.turn /\ c.toAct = b.toAct /\ c.over = b.over /\ c.winner = b.winner
      /\ c.timedOut = b.timedOut /\ c.arenaOwner = b.arenaOwner /\ c.arena = b.arena
      /\ c.actions = b.actions /\ c.first = b.first /\ c.fallen = b.fallen
  BY <1>0 DEF Bouts
<1>2. /\ d \in Bouts /\ d.f = b.f
      /\ d.turn = b.turn /\ d.toAct = b.toAct /\ d.over = b.over /\ d.winner = b.winner
      /\ d.timedOut = b.timedOut /\ d.arenaOwner = b.arenaOwner /\ d.arena = b.arena
      /\ d.actions = b.actions /\ d.first = b.first /\ d.fallen = b.fallen
  BY <1>0 DEF Bouts
<1> HIDE DEF c, d
<1>3. Stage(b, c) /\ Stage(b, d)
  BY <1>1, <1>2 DEF Stage, SameClock, SameFace
<1>4. Doors(c) /\ Doors(d)
  BY <1>0, <1>1, <1>2, <1>3, DoorsStay DEF Sound
<1>5. Sound(c) /\ Sound(d)
  BY <1>1, <1>2, <1>4 DEF Sound, Standing2
<1> QED BY <1>1, <1>2, <1>3, <1>5 DEF Follows, c, d

\* More or less life, within bounds.
LEMMA RightHp ==
  ASSUME NEW x, Right(x), NEW n \in Int, 0 <= n, n <= x.maxHp
  PROVE  /\ Right([x EXCEPT !.hp = n]) /\ SameFace(x, [x EXCEPT !.hp = n])
         /\ [x EXCEPT !.hp = n].hp = n /\ [x EXCEPT !.hp = n].maxHp = x.maxHp
         /\ [x EXCEPT !.hp = n].flags = x.flags
<1> HIDE DEF Cats, Masks
<1>1. [x EXCEPT !.hp = n] \in Combatant
  BY DEF Right, Combatant
<1> DEFINE y == [x EXCEPT !.hp = n]
<1>2. /\ y.cat = x.cat /\ y.form = x.form /\ y.copied = x.copied /\ y.flags = x.flags /\ y.hp = n
      /\ y.maxHp = x.maxHp /\ y.catnip = x.catnip /\ y.force = x.force /\ y.armor = x.armor
  BY DEF Right, Combatant
<1> HIDE DEF y
<1>3. TrueForm(y)
  BY <1>2 DEF Right, TrueForm, Rule, Shown
<1>4. SameFace(x, y)
  BY <1>2 DEF SameFace
<1>5. x.maxHp \in Int /\ x.maxHp > 0 /\ x.catnip >= 0
  BY DEF Right, Combatant
<1>6. Right(y)
  BY <1>1, <1>2, <1>3, <1>5 DEF Right, y
<1> QED BY <1>2, <1>4, <1>6 DEF y

\* Flags that say nothing of the form; those that say what has been stay.
LEMMA RightFlags ==
  ASSUME NEW x, Right(x), NEW fl \in SUBSET FlagNames, "flipped" \in fl <=> "flipped" \in x.flags,
         \A n \in {"stood", "arenaTaken"} : n \in x.flags => n \in fl
  PROVE  /\ Right([x EXCEPT !.flags = fl]) /\ SameFace(x, [x EXCEPT !.flags = fl])
         /\ [x EXCEPT !.flags = fl].hp = x.hp /\ [x EXCEPT !.flags = fl].maxHp = x.maxHp
         /\ [x EXCEPT !.flags = fl].flags = fl
<1> HIDE DEF Cats, Masks
<1>1. [x EXCEPT !.flags = fl] \in Combatant
  BY DEF Right, Combatant
<1> DEFINE y == [x EXCEPT !.flags = fl]
<1>2. /\ y.cat = x.cat /\ y.form = x.form /\ y.copied = x.copied /\ y.flags = fl /\ y.hp = x.hp
      /\ y.maxHp = x.maxHp /\ y.catnip = x.catnip /\ y.force = x.force /\ y.armor = x.armor
  BY DEF Right, Combatant
<1> HIDE DEF y
<1>3. TrueForm(y)
  BY <1>2 DEF Right, TrueForm, Rule, Shown
<1>4. SameFace(x, y)
  BY <1>2 DEF SameFace
<1>6. Right(y)
  BY <1>1, <1>2, <1>3 DEF Right, y
<1> QED BY <1>2, <1>4, <1>6 DEF y

\* What a fighter is worth beside its life, and what it carries, is nobody's form.
LEMMA RightMods ==
  ASSUME NEW x, Right(x), NEW n \in Int, NEW u \in [amount : Nat, turns : Int]
  PROVE  /\ Right([x EXCEPT !.forceMod = n]) /\ SameFace(x, [x EXCEPT !.forceMod = n])
         /\ Right([x EXCEPT !.armorMod = n]) /\ SameFace(x, [x EXCEPT !.armorMod = n])
         /\ Right([x EXCEPT !.charge = n]) /\ SameFace(x, [x EXCEPT !.charge = n])
         /\ Right([x EXCEPT !.burn = u]) /\ SameFace(x, [x EXCEPT !.burn = u])
         /\ [x EXCEPT !.forceMod = n].hp = x.hp /\ [x EXCEPT !.armorMod = n].hp = x.hp
         /\ [x EXCEPT !.charge = n].hp = x.hp /\ [x EXCEPT !.burn = u].hp = x.hp
<1> HIDE DEF Cats, Masks
<1> DEFINE like(y) == /\ y.cat = x.cat /\ y.form = x.form /\ y.copied = x.copied /\ y.flags = x.flags
                      /\ y.hp = x.hp /\ y.maxHp = x.maxHp /\ y.catnip = x.catnip
                      /\ y.force = x.force /\ y.armor = x.armor
<1>1. ASSUME NEW y \in Combatant, like(y)
      PROVE  Right(y) /\ SameFace(x, y)
  <2>1. TrueForm(y)
    BY <1>1 DEF Right, TrueForm, Rule, Shown
  <2> QED BY <2>1, <1>1 DEF Right, SameFace
<1>2. [x EXCEPT !.forceMod = n] \in Combatant /\ like([x EXCEPT !.forceMod = n])
  BY DEF Right, Combatant
<1>3. [x EXCEPT !.armorMod = n] \in Combatant /\ like([x EXCEPT !.armorMod = n])
  BY DEF Right, Combatant
<1>4. [x EXCEPT !.charge = n] \in Combatant /\ like([x EXCEPT !.charge = n])
  BY DEF Right, Combatant
<1>5. [x EXCEPT !.burn = u] \in Combatant /\ like([x EXCEPT !.burn = u])
  BY DEF Right, Combatant
<1> HIDE DEF Combatant
<1>6. Right([x EXCEPT !.forceMod = n]) /\ SameFace(x, [x EXCEPT !.forceMod = n])
  BY <1>1, <1>2
<1>7. Right([x EXCEPT !.armorMod = n]) /\ SameFace(x, [x EXCEPT !.armorMod = n])
  BY <1>1, <1>3
<1>8. Right([x EXCEPT !.charge = n]) /\ SameFace(x, [x EXCEPT !.charge = n])
  BY <1>1, <1>4
<1>9. Right([x EXCEPT !.burn = u]) /\ SameFace(x, [x EXCEPT !.burn = u])
  BY <1>1, <1>5
<1> QED BY <1>2, <1>3, <1>4, <1>5, <1>6, <1>7, <1>8, <1>9

\* Whoever stands in a bout that is on has life left.
LEMMA LifeLeft ==
  ASSUME NEW b, Sound(b), NEW s \in Sides
  PROVE  /\ b.over \/ b.f[s].hp > 0
         /\ b.f[s].hp \in Nat /\ b.f[s].maxHp \in Nat \ {0} /\ b.f[s].hp <= b.f[s].maxHp
         /\ b.f[s].flags \in SUBSET FlagNames
<1> DEFINE x == b.f[s]
<1>1. Right(x)
  BY DEF Sound
<1>2. b.over \/ x.hp > 0
  BY DEF Sound, Standing2
<1> HIDE DEF x
<1>3. /\ x.hp \in Nat /\ x.maxHp \in Nat \ {0} /\ x.hp <= x.maxHp
      /\ x.flags \in SUBSET FlagNames
  <2>1. x.hp \in Int /\ x.maxHp \in Int /\ x.flags \in SUBSET FlagNames
    BY <1>1 DEF Right, Combatant
  <2> QED BY <1>1, <2>1 DEF Right
<1> QED BY <1>2, <1>3 DEF x

\* Raising flags.
LEMMA FlagSound ==
  ASSUME NEW b, Sound(b), NEW s \in Sides, NEW fl \in SUBSET FlagNames, "flipped" \notin fl
  PROVE  /\ Follows(b, Flagged(b, s, fl)) /\ Flagged(b, s, fl).over = b.over
         /\ Flagged(b, s, fl).f[s] = [b.f[s] EXCEPT !.flags = b.f[s].flags \cup fl]
         /\ Flagged(b, s, fl).f[Foe(s)] = b.f[Foe(s)]
<1> DEFINE x == [b.f[s] EXCEPT !.flags = b.f[s].flags \cup fl]
<1>1. Flagged(b, s, fl) = Put(b, s, x)
  BY DEF Flagged, Put
<1>2. Right(b.f[s]) /\ b.f[s].flags \cup fl \in SUBSET FlagNames
  BY LifeLeft DEF Sound
<1>3. Right(x) /\ SameFace(b.f[s], x) /\ x.hp = b.f[s].hp
  BY <1>2, RightFlags
<1> HIDE DEF x
<1>4. b.over \/ x.hp > 0
  BY <1>3, LifeLeft
<1>5. /\ Follows(b, Put(b, s, x)) /\ Put(b, s, x).f[s] = x /\ Put(b, s, x).f[Foe(s)] = b.f[Foe(s)]
      /\ Put(b, s, x).over = b.over
  BY <1>3, <1>4, PutSound
<1> QED BY <1>1, <1>5 DEF x

\* Taking flags down, but those that say what has been.
LEMMA UnflagSound ==
  ASSUME NEW b, Sound(b), NEW s \in Sides, NEW fl, fl \cap {"flipped", "stood", "arenaTaken"} = {}
  PROVE  /\ Follows(b, Unflagged(b, s, fl)) /\ Unflagged(b, s, fl).over = b.over
         /\ Unflagged(b, s, fl).f[s] = [b.f[s] EXCEPT !.flags = b.f[s].flags \ fl]
         /\ Unflagged(b, s, fl).f[Foe(s)] = b.f[Foe(s)]
<1> DEFINE x == [b.f[s] EXCEPT !.flags = b.f[s].flags \ fl]
<1>1. Unflagged(b, s, fl) = Put(b, s, x)
  BY DEF Unflagged, Put
<1>2. Right(b.f[s]) /\ b.f[s].flags \ fl \in SUBSET FlagNames
  BY LifeLeft DEF Sound
<1>3. Right(x) /\ SameFace(b.f[s], x) /\ x.hp = b.f[s].hp
  BY <1>2, RightFlags
<1> HIDE DEF x
<1>4. b.over \/ x.hp > 0
  BY <1>3, LifeLeft
<1>5. /\ Follows(b, Put(b, s, x)) /\ Put(b, s, x).f[s] = x /\ Put(b, s, x).f[Foe(s)] = b.f[Foe(s)]
      /\ Put(b, s, x).over = b.over
  BY <1>3, <1>4, PutSound
<1> QED BY <1>1, <1>5 DEF x

\* Healing.
LEMMA HealSound ==
  ASSUME NEW b, Sound(b), NEW s \in Sides, NEW n \in Nat
  PROVE  Follows(b, Heal(b, s, n)) /\ Heal(b, s, n).over = b.over
<1> DEFINE m == Smaller(b.f[s].maxHp, b.f[s].hp + n)
           x == [b.f[s] EXCEPT !.hp = m]
<1>1. Heal(b, s, n) = Put(b, s, x)
  BY DEF Heal, Put
<1>2. m \in Int /\ 0 <= m /\ m <= b.f[s].maxHp /\ (b.over \/ m > 0)
  <2>1. /\ b.over \/ b.f[s].hp > 0
        /\ b.f[s].hp \in Nat /\ b.f[s].maxHp \in Nat \ {0} /\ b.f[s].hp <= b.f[s].maxHp
    BY LifeLeft
  <2> QED BY <2>1 DEF Smaller
<1> HIDE DEF m
<1>3. Right(x) /\ SameFace(b.f[s], x) /\ x.hp = m
  BY <1>2, RightHp DEF Sound
<1> HIDE DEF x
<1> QED BY <1>1, <1>2, <1>3, PutSound

\* A fighter that goes down ends it.
LEMMA FellSound ==
  ASSUME NEW b, Sound(b), NEW s \in Sides, NEW x, Right(x), SameFace(b.f[s], x), NEW fall \in Fall,
         fall.side = s, Door(b, fall)
  PROVE  Follows(b, [Put(b, s, x) EXCEPT !.over = TRUE, !.winner = Foe(s), !.fallen = Append(b.fallen, fall)])
<1> HIDE DEF Combatant, Arenas, Runes, Fall
<1> DEFINE p == Put(b, s, x)
           c == [p EXCEPT !.over = TRUE, !.winner = Foe(s), !.fallen = Append(b.fallen, fall)]
<1>0. b \in Bouts /\ x \in Combatant /\ Foe(s) \in Sides /\ \A t \in Sides : t = s \/ t = Foe(s)
  BY FoeSide DEF Sound, Right
<1>1. /\ p \in Bouts /\ p.f[s] = x /\ p.f[Foe(s)] = b.f[Foe(s)]
      /\ p.turn = b.turn /\ p.toAct = b.toAct
      /\ p.timedOut = b.timedOut /\ p.arenaOwner = b.arenaOwner /\ p.arena = b.arena
      /\ p.actions = b.actions /\ p.first = b.first
  BY <1>0, PutIs
<1> HIDE DEF p
<1>2. b.fallen \in Seq(Fall) /\ Append(b.fallen, fall) \in Seq(Fall)
  BY <1>0 DEF Bouts
<1>3. /\ c \in Bouts /\ c.f = p.f /\ c.over = TRUE /\ c.winner = Foe(s)
      /\ c.fallen = Append(b.fallen, fall)
      /\ c.turn = p.turn /\ c.toAct = p.toAct
      /\ c.timedOut = p.timedOut /\ c.arenaOwner = p.arenaOwner /\ c.arena = p.arena
      /\ c.actions = p.actions /\ c.first = p.first
  BY <1>0, <1>1, <1>2 DEF Bouts
<1> HIDE DEF c
<1>4. \A t \in Sides : SameFace(b.f[t], c.f[t])
  <2>1. SameFace(b.f[Foe(s)], c.f[Foe(s)])
    BY <1>1, <1>3 DEF SameFace
  <2> QED BY <1>0, <1>1, <1>3, <2>1
<1>5. Stage(b, c)
  BY <1>1, <1>3, <1>4 DEF Stage, SameClock
<1>6. \A t \in Sides : Right(c.f[t])
  BY <1>0, <1>1, <1>3 DEF Sound
<1>7. Standing2(c)
  <2>1. Len(c.fallen) = Len(b.fallen) + 1 /\ c.fallen[Len(b.fallen) + 1] = fall /\ c.fallen # <<>>
    <3>1. Len(b.fallen) \in Nat
      BY <1>2
    <3> QED BY <3>1, <1>2, <1>3
  <2>2. Foe(c.winner) = s /\ c.winner \in Sides
    BY <1>3, FoeSide
  <2> QED BY <1>3, <2>1, <2>2 DEF Standing2
<1>8. Doors(c)
  <2> SUFFICES ASSUME NEW k \in DOMAIN c.fallen PROVE Door(c, c.fallen[k])
    BY DEF Doors
  <2>1. k \in 1 .. Len(b.fallen) + 1
    BY <1>2, <1>3
  <2>2. CASE k = Len(b.fallen) + 1
    <3>1. c.fallen[k] = fall
      BY <2>2, <1>2, <1>3
    <3> QED BY <3>1, <1>0, <1>3, <1>5, DoorStays
  <2>3. CASE k \in 1 .. Len(b.fallen)
    <3>1. c.fallen[k] = b.fallen[k] /\ b.fallen[k] \in Fall /\ k \in DOMAIN b.fallen
      BY <2>3, <1>2, <1>3
    <3>2. Door(b, b.fallen[k])
      BY <3>1 DEF Sound, Doors
    <3> QED BY <3>1, <3>2, <1>0, <1>3, <1>5, DoorStays
  <2> QED BY <2>1, <2>2, <2>3, <1>2
<1>9. ~c.timedOut
  BY <1>1, <1>3 DEF Sound
<1> QED BY <1>3, <1>5, <1>6, <1>7, <1>8, <1>9 DEF Follows, Sound, c, p

\* What a blow takes, and the marks it leaves.
Halved(b, s, hit) == hit /\ Has(ActiveFace(b, s), "firstHitTaken") /\ ~Is(b, s, "firstHitTaken")
Reduced(b, s, amount, hit) ==
  IF hit THEN Larger(0, amount - Effect(ActiveFace(b, s), "damageReduction")) ELSE amount
Taken(b, s, amount, hit) ==
  IF Halved(b, s, hit) THEN (Reduced(b, s, amount, hit) + 1) \div 2 ELSE Reduced(b, s, amount, hit)
Marks(b, s, hit) ==
  (IF hit THEN {"hitThisTurn"} ELSE {}) \cup (IF Halved(b, s, hit) THEN {"firstHitTaken"} ELSE {})

\* Damage, with its steps named.
LEMMA DamageIs ==
  ASSUME NEW b, NEW s, NEW amount, NEW hit
  PROVE  Damage(b, s, amount, hit) =
           [dealt |-> Taken(b, s, amount, hit),
            bout |-> Falls(b, s, ActiveFace(b, s),
                       Flagged([b EXCEPT !.f[s].hp = @ - Taken(b, s, amount, hit)], s, Marks(b, s, hit)))]
<1> DEFINE n == Taken(b, s, amount, hit)
           marks == Marks(b, s, hit)
           face == ActiveFace(b, s)
           h(m) == Flagged([b EXCEPT !.f[s].hp = @ - m], s, marks)
           takes(m) == [dealt |-> m, bout |-> Then(h(m), LAMBDA hurt : Falls(b, s, face, hurt))]
<1>1. ASSUME NEW m PROVE Then(h(m), LAMBDA hurt : Falls(b, s, face, hurt)) = Falls(b, s, face, h(m))
  BY Zenon DEF Then
<1>2. Damage(b, s, amount, hit) = Then(n, LAMBDA m : takes(m))
  BY Zenon DEF Damage, Then, Taken, Reduced, Halved, Marks
<1>3. Then(n, LAMBDA m : takes(m)) = takes(n)
  BY Zenon DEF Then
<1>4. takes(n) = [dealt |-> n, bout |-> Falls(b, s, face, h(n))]
  BY <1>1, Zenon
<1> QED BY <1>2, <1>3, <1>4

\* What a blow takes is a count.
LEMMA TakenNumber ==
  ASSUME NEW b, Sound(b), NEW s \in Sides, NEW amount \in Int, NEW hit \in BOOLEAN, hit \/ amount >= 0
  PROVE  Taken(b, s, amount, hit) \in Nat /\ Marks(b, s, hit) \in SUBSET FlagNames
         /\ "flipped" \notin Marks(b, s, hit)
<1>1. Effect(ActiveFace(b, s), "damageReduction") \in Nat
  BY SoundParts, EffectNumber
<1>2. Reduced(b, s, amount, hit) \in Nat
  BY <1>1 DEF Reduced, Larger
<1>3. Taken(b, s, amount, hit) \in Nat
  BY <1>2 DEF Taken
<1>4. {"hitThisTurn"} \in SUBSET FlagNames /\ {"firstHitTaken"} \in SUBSET FlagNames /\ {} \in SUBSET FlagNames
  BY DEF FlagNames
<1>5. Marks(b, s, hit) \in SUBSET FlagNames
  BY <1>4 DEF Marks
<1>6. "flipped" \notin Marks(b, s, hit)
  BY DEF Marks
<1> QED BY <1>3, <1>5, <1>6

\* One fighter replaced twice is replaced once.
LEMMA PutPut ==
  ASSUME NEW b \in Bouts, NEW s \in Sides, NEW x, NEW y
  PROVE  Put(Put(b, s, x), s, y) = Put(b, s, y)
<1> HIDE DEF Combatant, Arenas, Runes, Fall
<1>1. [[b.f EXCEPT ![s] = x] EXCEPT ![s] = y] = [b.f EXCEPT ![s] = y]
  BY DEF Bouts
<1> DEFINE g == [b.f EXCEPT ![s] = x]
           h == [b.f EXCEPT ![s] = y]
<1>2. Put(b, s, x) = [b EXCEPT !.f = g] /\ Put(b, s, y) = [b EXCEPT !.f = h]
  BY DEF Put
<1>3. [b EXCEPT !.f = g].f = g
  BY DEF Bouts
<1>4. Put(Put(b, s, x), s, y) = [[b EXCEPT !.f = g] EXCEPT !.f = [g EXCEPT ![s] = y]]
  BY <1>2, <1>3 DEF Put
<1>5. [g EXCEPT ![s] = y] = h
  BY <1>1
<1> HIDE DEF g, h
<1>6. [[b EXCEPT !.f = g] EXCEPT !.f = h] = [b EXCEPT !.f = h]
  BY DEF Bouts
<1> QED BY <1>2, <1>4, <1>5, <1>6

\* A fighter is what its fields are.
LEMMA CombatantIs ==
  ASSUME NEW x \in Combatant, NEW y \in Combatant,
         x.cat = y.cat, x.form = y.form, x.catnip = y.catnip, x.hp = y.hp, x.maxHp = y.maxHp,
         x.force = y.force, x.armor = y.armor, x.forceMod = y.forceMod, x.armorMod = y.armorMod,
         x.charge = y.charge, x.copied = y.copied, x.awake = y.awake, x.burn = y.burn, x.flags = y.flags
  PROVE  x = y
<1> HIDE DEF Cats, Masks
<1> QED BY DEF Combatant

\* A fighter that is hurt: its life and its flags.
Hurt(x, m, fl) == [x EXCEPT !.hp = m, !.flags = fl]

\* It has that life and those flags.
LEMMA HurtIs ==
  ASSUME NEW x \in Combatant, NEW m \in Int, NEW fl \in SUBSET FlagNames
  PROVE  Hurt(x, m, fl) \in Combatant /\ Hurt(x, m, fl).hp = m /\ Hurt(x, m, fl).flags = fl
<1> HIDE DEF Cats, Masks
<1> QED BY DEF Hurt, Combatant

\* Hurt within bounds, it is right.
LEMMA HurtRight ==
  ASSUME NEW x, Right(x), NEW m \in Int, 0 <= m, m <= x.maxHp,
         NEW fl \in SUBSET FlagNames, "flipped" \in fl <=> "flipped" \in x.flags,
         \A n \in {"stood", "arenaTaken"} : n \in x.flags => n \in fl
  PROVE  Right(Hurt(x, m, fl)) /\ SameFace(x, Hurt(x, m, fl))
<1>0. x \in Combatant
  BY DEF Right
<1> DEFINE y == [x EXCEPT !.flags = fl]
<1>1. Right(y) /\ SameFace(x, y) /\ y.maxHp = x.maxHp
  BY RightFlags
<1>2. Hurt(x, m, fl) = [y EXCEPT !.hp = m]
  <2> HIDE DEF Cats, Masks
  <2> QED BY <1>0 DEF Hurt, Combatant
<1> HIDE DEF y
<1>3. Right([y EXCEPT !.hp = m]) /\ SameFace(y, [y EXCEPT !.hp = m])
  BY <1>1, RightHp
<1> QED BY <1>1, <1>2, <1>3 DEF SameFace

\* A blow lands: the bout is what a hurt fighter makes it, before anybody asks whether it falls.
LEMMA HurtBout ==
  ASSUME NEW b \in Bouts, NEW s \in Sides, NEW n \in Int, NEW marks \in SUBSET FlagNames
  PROVE  Flagged([b EXCEPT !.f[s].hp = @ - n], s, marks) =
           Put(b, s, Hurt(b.f[s], b.f[s].hp - n, b.f[s].flags \cup marks))
<1> DEFINE x == b.f[s]
           y == [x EXCEPT !.hp = x.hp - n]
<1>1. x \in Combatant
  BY DEF Bouts
<1>2. x.hp - n \in Int /\ x.flags \cup marks \in SUBSET FlagNames /\ y.flags = x.flags /\ y \in Combatant
  <2> HIDE DEF Cats, Masks, x
  <2> QED BY <1>1 DEF Combatant
<1>3. [b EXCEPT !.f[s].hp = @ - n] = Put(b, s, y)
  BY DEF Put
<1>4. Put(b, s, y).f[s] = y
  BY <1>2, PutIs
<1>5. Flagged(Put(b, s, y), s, marks) = Put(Put(b, s, y), s, [y EXCEPT !.flags = y.flags \cup marks])
  BY <1>4 DEF Flagged, Put
<1>6. [y EXCEPT !.flags = y.flags \cup marks] = Hurt(x, x.hp - n, x.flags \cup marks)
  <2> HIDE DEF x
  <2>1. [y EXCEPT !.flags = x.flags \cup marks] = Hurt(x, x.hp - n, x.flags \cup marks)
    <3> HIDE DEF Cats, Masks
    <3> QED BY <1>1, <1>2 DEF Hurt, Combatant
  <2> QED BY <2>1, <1>2
<1> HIDE DEF y
<1>7. Put(Put(b, s, y), s, [y EXCEPT !.flags = y.flags \cup marks]) =
        Put(b, s, Hurt(x, x.hp - n, x.flags \cup marks))
  BY <1>6, PutPut
<1> QED BY <1>3, <1>5, <1>7

\* Whoever goes down with nothing to hold it has gone through no door.
LEMMA DoorOpen ==
  ASSUME NEW b, Sound(b), NEW s \in Sides,
         ~(b.turn < Effect(b.arena, "noDeathBefore") /\ ~Has(ActiveFace(b, s), "arenaImmune")),
         ~(Has(ActiveFace(b, s), "standAtOne") /\ ~Is(b, s, "stood"))
  PROVE  Door(b, [side |-> s, turn |-> b.turn]) /\ [side |-> s, turn |-> b.turn] \in Fall
<1>1. b.turn \in Nat
  BY DEF Sound, Bouts
<1>2. Effect(b.arena, "noDeathBefore") \in Nat
  BY SoundParts, EffectNumber
<1>3. Has(b.arena, "noDeathBefore") =>
        b.turn >= b.arena.noDeathBefore \/ Does(b, s, "arenaImmune")
  BY <1>1, <1>2 DEF Effect, Does
<1>4. Does(b, s, "standAtOne") => "stood" \in b.f[s].flags
  BY DEF Does, Is
<1> QED BY <1>1, <1>3, <1>4 DEF Door, Fall

\* The blow, and what it leads to.
LEMMA FallsSound ==
  ASSUME NEW b, Sound(b), NEW s \in Sides, NEW n \in Nat,
         NEW marks \in SUBSET FlagNames, "flipped" \notin marks
  PROVE  Follows(b, Falls(b, s, ActiveFace(b, s), Flagged([b EXCEPT !.f[s].hp = @ - n], s, marks)))
<1> DEFINE face == ActiveFace(b, s)
           x == b.f[s]
           fl == x.flags \cup marks
           y == Hurt(x, x.hp - n, fl)
           hurt == Put(b, s, y)
           undying == b.turn < Effect(b.arena, "noDeathBefore") /\ ~Has(face, "arenaImmune")
           stands == ~undying /\ Has(face, "standAtOne") /\ ~Is(b, s, "stood")
           fall == [side |-> s, turn |-> b.turn]
<1>0. /\ b \in Bouts /\ x \in Combatant /\ Right(x)
      /\ x.hp \in Nat /\ x.maxHp \in Nat \ {0} /\ x.hp <= x.maxHp
      /\ fl \in SUBSET FlagNames /\ fl \cup {"stood"} \in SUBSET FlagNames
      /\ "flipped" \in fl <=> "flipped" \in x.flags
      /\ "flipped" \in fl \cup {"stood"} <=> "flipped" \in x.flags
  <2>1. /\ x.hp \in Nat /\ x.maxHp \in Nat \ {0} /\ x.hp <= x.maxHp
        /\ x.flags \in SUBSET FlagNames
    BY LifeLeft
  <2> HIDE DEF x
  <2>2. {"stood"} \in SUBSET FlagNames
    BY DEF FlagNames
  <2>3. fl \in SUBSET FlagNames /\ fl \cup {"stood"} \in SUBSET FlagNames
    BY <2>1, <2>2
  <2> QED BY <2>1, <2>3, SoundParts DEF x
<1>1. Flagged([b EXCEPT !.f[s].hp = @ - n], s, marks) = hurt
  <2>1. n \in Int
    OBVIOUS
  <2> QED BY <2>1, <1>0, HurtBout, Zenon
<1> HIDE DEF x, fl
<1>2. y \in Combatant /\ y.hp = x.hp - n /\ y.flags = fl
  <2>1. x.hp - n \in Int
    BY <1>0
  <2> QED BY <2>1, <1>0, HurtIs
<1>3. hurt.f[s] = y /\ hurt \in Bouts /\ hurt.fallen = b.fallen
  BY <1>0, <1>2, PutIs
<1>4. ASSUME NEW m \in Int, 0 <= m, m <= x.maxHp, m > 0
      PROVE  Follows(b, Put(b, s, Hurt(x, m, fl))) /\ Follows(b, Put(b, s, Hurt(x, m, fl \cup {"stood"})))
  <2>0. \A k \in {"stood", "arenaTaken"} : k \in x.flags => k \in fl
    BY DEF fl
  <2> DEFINE y1 == Hurt(x, m, fl)
             y2 == Hurt(x, m, fl \cup {"stood"})
  <2>1. Right(y1) /\ SameFace(x, y1) /\ y1.hp = m
    BY <1>0, <1>4, <2>0, HurtRight, HurtIs
  <2>2. Right(y2) /\ SameFace(x, y2) /\ y2.hp = m
    BY <1>0, <1>4, <2>0, HurtRight, HurtIs
  <2> HIDE DEF y1, y2
  <2>3. Follows(b, Put(b, s, y1)) /\ Follows(b, Put(b, s, y2))
    BY <2>1, <2>2, <1>4, PutSound DEF x
  <2> QED BY <2>3 DEF y1, y2
<1>5. [hurt EXCEPT !.f[s].hp = 1] = Put(b, s, Hurt(x, 1, fl))
  <2>1. [hurt EXCEPT !.f[s].hp = 1] = Put(hurt, s, [y EXCEPT !.hp = 1])
    BY <1>3 DEF Put
  <2>2. x.hp - n \in Int /\ 1 \in Int
    BY <1>0
  <2>3. [y EXCEPT !.hp = 1] = Hurt(x, 1, fl)
    <3> HIDE DEF Cats, Masks
    <3> QED BY <2>2, <1>0 DEF Hurt, Combatant
  <2>4. Put(hurt, s, Hurt(x, 1, fl)) = Put(b, s, Hurt(x, 1, fl))
    BY <1>0, PutPut
  <2> QED BY <2>1, <2>3, <2>4
<1>6. [hurt EXCEPT !.f[s].hp = 1, !.f[s].flags = @ \cup {"stood"}] = Put(b, s, Hurt(x, 1, fl \cup {"stood"}))
  <2>1. [hurt EXCEPT !.f[s].hp = 1, !.f[s].flags = @ \cup {"stood"}] =
          Put(hurt, s, [y EXCEPT !.hp = 1, !.flags = fl \cup {"stood"}])
    BY <1>0, <1>2, <1>3 DEF Put, Bouts
  <2>2. x.hp - n \in Int /\ 1 \in Int
    BY <1>0
  <2>3. [y EXCEPT !.hp = 1, !.flags = fl \cup {"stood"}] = Hurt(x, 1, fl \cup {"stood"})
    <3> HIDE DEF Cats, Masks
    <3> QED BY <2>2, <1>0 DEF Hurt, Combatant
  <2>4. Put(hurt, s, Hurt(x, 1, fl \cup {"stood"})) = Put(b, s, Hurt(x, 1, fl \cup {"stood"}))
    BY <1>0, PutPut
  <2> QED BY <2>1, <2>3, <2>4
<1>7. [hurt EXCEPT !.f[s].hp = 0, !.over = TRUE, !.winner = Foe(s), !.fallen = Append(@, fall)] =
        [Put(b, s, Hurt(x, 0, fl)) EXCEPT !.over = TRUE, !.winner = Foe(s), !.fallen = Append(b.fallen, fall)]
  <2>1. Put(hurt, s, [y EXCEPT !.hp = 0]) = Put(b, s, Hurt(x, 0, fl))
    <3>1. x.hp - n \in Int /\ 0 \in Int
      BY <1>0
    <3>2. [y EXCEPT !.hp = 0] = Hurt(x, 0, fl)
      <4> HIDE DEF Cats, Masks
      <4> QED BY <3>1, <1>0 DEF Hurt, Combatant
    <3>3. Put(hurt, s, Hurt(x, 0, fl)) = Put(b, s, Hurt(x, 0, fl))
      BY <1>0, PutPut
    <3> QED BY <3>2, <3>3
  <2> DEFINE g == [hurt.f EXCEPT ![s] = [y EXCEPT !.hp = 0]]
  <2>2. Put(hurt, s, [y EXCEPT !.hp = 0]) = [hurt EXCEPT !.f = g]
    BY DEF Put
  <2>3. [hurt EXCEPT !.f[s].hp = 0, !.over = TRUE, !.winner = Foe(s), !.fallen = Append(@, fall)] =
          [hurt EXCEPT !.f = g, !.over = TRUE, !.winner = Foe(s), !.fallen = Append(b.fallen, fall)]
    BY <1>3
  <2> HIDE DEF g, hurt, y, x, face, fall
  <2>4. [hurt EXCEPT !.f = g, !.over = TRUE, !.winner = Foe(s), !.fallen = Append(b.fallen, fall)] =
          [[hurt EXCEPT !.f = g] EXCEPT !.over = TRUE, !.winner = Foe(s), !.fallen = Append(b.fallen, fall)]
    <3> HIDE DEF Combatant, Arenas, Runes, Fall
    <3> QED BY <1>3 DEF Bouts
  <2> QED BY <2>1, <2>2, <2>3, <2>4
<1>8. CASE y.hp > 0
  <2>1. Falls(b, s, face, hurt) = hurt
    BY <1>8, <1>3 DEF Falls
  <2>2. x.hp - n \in Int /\ 0 <= x.hp - n /\ x.hp - n <= x.maxHp /\ x.hp - n > 0
    BY <1>0, <1>2, <1>8
  <2>3. Follows(b, hurt)
    BY <1>4, <2>2
  <2> QED BY <2>1, <2>3, <1>1
<1>9. CASE ~(y.hp > 0) /\ undying
  <2>1. Falls(b, s, face, hurt) = [hurt EXCEPT !.f[s].hp = 1]
    BY <1>9, <1>3 DEF Falls
  <2>2. Follows(b, Put(b, s, Hurt(x, 1, fl)))
    BY <1>4, <1>0
  <2> QED BY <2>1, <2>2, <1>1, <1>5
<1>10. CASE ~(y.hp > 0) /\ ~undying /\ stands
  <2>1. Falls(b, s, face, hurt) = [hurt EXCEPT !.f[s].hp = 1, !.f[s].flags = @ \cup {"stood"}]
    BY <1>10, <1>3 DEF Falls
  <2>2. Follows(b, Put(b, s, Hurt(x, 1, fl \cup {"stood"})))
    BY <1>4, <1>0
  <2> QED BY <2>1, <2>2, <1>1, <1>6
<1>11. CASE ~(y.hp > 0) /\ ~undying /\ ~stands
  <2>1. Falls(b, s, face, hurt) =
          [hurt EXCEPT !.f[s].hp = 0, !.over = TRUE, !.winner = Foe(s), !.fallen = Append(@, fall)]
    BY <1>11, <1>3 DEF Falls
  <2>2. Door(b, fall) /\ fall \in Fall /\ fall.side = s
    <3>1. ~undying /\ ~(Has(face, "standAtOne") /\ ~Is(b, s, "stood"))
      BY <1>11
    <3>2. Door(b, fall) /\ fall \in Fall
      BY <3>1, DoorOpen
    <3> QED BY <3>2
  <2> DEFINE z == Hurt(x, 0, fl)
  <2>3. Right(z) /\ SameFace(x, z)
    <3>1. \A k \in {"stood", "arenaTaken"} : k \in x.flags => k \in fl
      BY DEF fl
    <3>2. 0 \in Int /\ 0 <= 0 /\ 0 <= x.maxHp
      BY <1>0
    <3> QED BY <1>0, <3>1, <3>2, HurtRight
  <2> HIDE DEF z, fall
  <2>4. Follows(b, [Put(b, s, z) EXCEPT !.over = TRUE, !.winner = Foe(s), !.fallen = Append(b.fallen, fall)])
    BY <2>2, <2>3, FellSound DEF x
  <2> QED BY <2>1, <2>4, <1>1, <1>7 DEF z, fall
<1> QED BY <1>8, <1>9, <1>10, <1>11

\* A blow, dealt.
LEMMA DamageSound ==
  ASSUME NEW b, Sound(b), NEW s \in Sides, NEW amount \in Int, NEW hit \in BOOLEAN, hit \/ amount >= 0
  PROVE  Follows(b, Damage(b, s, amount, hit).bout) /\ Damage(b, s, amount, hit).dealt \in Nat
<1> DEFINE n == Taken(b, s, amount, hit)
           marks == Marks(b, s, hit)
           c == Falls(b, s, ActiveFace(b, s), Flagged([b EXCEPT !.f[s].hp = @ - n], s, marks))
<1>1. n \in Nat /\ marks \in SUBSET FlagNames /\ "flipped" \notin marks
  BY TakenNumber
<1>2. Damage(b, s, amount, hit) = [dealt |-> n, bout |-> c]
  BY DamageIs, Zenon
<1> HIDE DEF n, marks
<1>3. Follows(b, c)
  BY <1>1, FallsSound
<1> HIDE DEF c
<1> QED BY <1>1, <1>2, <1>3

\* What a fighter is worth.
LEMMA Worths ==
  ASSUME NEW b, Sound(b), NEW s \in Sides
  PROVE  /\ ForceOf(b.f[s]) \in Int /\ ArmorOf(b.f[s]) \in Int /\ b.f[s].awake \in Int
         /\ b.f[s].charge \in Int /\ b.f[s].forceMod \in Int /\ b.f[s].armorMod \in Int
         /\ b.f[s].catnip \in Int
         /\ b.f[s].burn \in [amount : Nat, turns : Int]
         /\ b.f[s].burn.amount \in Nat /\ b.f[s].burn.turns \in Int
<1> DEFINE x == b.f[s]
<1>1. x \in Combatant
  BY SoundParts
<1> HIDE DEF x
<1>2. /\ x.force \in Int /\ x.armor \in Int /\ x.forceMod \in Int /\ x.armorMod \in Int
      /\ x.awake \in Int /\ x.charge \in Int /\ x.catnip \in Int /\ x.burn \in [amount : Nat, turns : Int]
  <2> HIDE DEF Cats, Masks
  <2> QED BY <1>1 DEF Combatant
<1>3. x.burn.amount \in Nat /\ x.burn.turns \in Int
  BY <1>2
<1>4. ForceOf(x) \in Int /\ ArmorOf(x) \in Int
  BY <1>2 DEF ForceOf, ArmorOf, Larger
<1> QED BY <1>2, <1>3, <1>4 DEF x

\* What an attack takes is a number.
LEMMA BlowNumber ==
  ASSUME NEW b, Sound(b), NEW s \in Sides, NEW luck, luck.pct \in Nat
  PROVE  Blow(b, s, luck) \in Int
<1> DEFINE me == b.f[s]
           you == b.f[Foe(s)]
           face == ActiveFace(b, s)
           bonus == Effect(face, "damageBonus")
                      + (IF Is(b, s, "hitLastTurn") THEN Effect(face, "damageBonusIfHit") ELSE 0)
                      + (IF Is(b, s, "opponentMissed") THEN Effect(face, "damageAfterMiss") ELSE 0)
           layered == IF Is(b, Foe(s), "tookOneThisTurn") THEN 0 ELSE Effect(Rule(you), "firstAttackPerTurnReduction")
           raw == ForceOf(me) + me.awake + bonus - (IF Has(face, "ignoreArmor") THEN 0 ELSE ArmorOf(you)) - layered
           pct == IF Has(b.arena, "damageVariance") /\ ~Has(face, "arenaImmune") THEN luck.pct ELSE 100
           q == Quarters(b, s)
<1>1. Foe(s) \in Sides
  BY FoeSide
<1>2. Table(face) /\ Table(Rule(you))
  BY <1>1, SoundParts
<1>3. ForceOf(me) \in Int /\ me.awake \in Int /\ ArmorOf(you) \in Int
  BY <1>1, Worths
<1>4. /\ Effect(face, "damageBonus") \in Nat /\ Effect(face, "damageBonusIfHit") \in Nat
      /\ Effect(face, "damageAfterMiss") \in Nat /\ Effect(Rule(you), "firstAttackPerTurnReduction") \in Nat
  BY <1>2, EffectNumber
<1> HIDE DEF me, you, face
<1>5. bonus \in Int /\ layered \in Int
  BY <1>4
<1> HIDE DEF bonus, layered
<1>6. raw \in Int
  BY <1>3, <1>5
<1>7. pct \in Int /\ q \in Int
  BY DEF Quarters
<1> HIDE DEF raw, pct, q
<1>8. Larger(1, raw) \in Int
  BY <1>6 DEF Larger
<1>9. 2 * Larger(1, raw) * q * pct \in Int
  <2>1. 2 * Larger(1, raw) \in Int
    BY <1>8
  <2>2. 2 * Larger(1, raw) * q \in Int
    BY <2>1, <1>7
  <2> QED BY <2>2, <1>7
<1> DEFINE t == 2 * Larger(1, raw) * q * pct
<1>10. Blow(b, s, luck) = Larger(1, (t + 400) \div 800)
  BY DEF Blow, raw, pct, q, bonus, layered, me, you, face
<1> HIDE DEF t
<1>11. (t + 400) \div 800 \in Int
  BY <1>9 DEF t
<1> QED BY <1>10, <1>11 DEF Larger

\* The other numbers of a fighter, changed.
LEMMA ModSound ==
  ASSUME NEW b, Sound(b), NEW s \in Sides, NEW n \in Int, NEW u \in [amount : Nat, turns : Int]
  PROVE  /\ Follows(b, [b EXCEPT !.f[s].forceMod = n]) /\ [b EXCEPT !.f[s].forceMod = n].over = b.over
         /\ Follows(b, [b EXCEPT !.f[s].armorMod = n]) /\ [b EXCEPT !.f[s].armorMod = n].over = b.over
         /\ Follows(b, [b EXCEPT !.f[s].charge = n]) /\ [b EXCEPT !.f[s].charge = n].over = b.over
         /\ Follows(b, [b EXCEPT !.f[s].burn = u]) /\ [b EXCEPT !.f[s].burn = u].over = b.over
<1> DEFINE x == b.f[s]
<1>1. Right(x) /\ (b.over \/ x.hp > 0)
  BY SoundParts, LifeLeft
<1>2. /\ [b EXCEPT !.f[s].forceMod = n] = Put(b, s, [x EXCEPT !.forceMod = n])
      /\ [b EXCEPT !.f[s].armorMod = n] = Put(b, s, [x EXCEPT !.armorMod = n])
      /\ [b EXCEPT !.f[s].charge = n] = Put(b, s, [x EXCEPT !.charge = n])
      /\ [b EXCEPT !.f[s].burn = u] = Put(b, s, [x EXCEPT !.burn = u])
  BY DEF Put
<1>3. ASSUME NEW y, Right(y), SameFace(x, y), y.hp = x.hp
      PROVE  Follows(b, Put(b, s, y)) /\ Put(b, s, y).over = b.over
  BY <1>1, <1>3, PutSound
<1> HIDE DEF x
<1>4. Follows(b, Put(b, s, [x EXCEPT !.forceMod = n])) /\ Put(b, s, [x EXCEPT !.forceMod = n]).over = b.over
  <2> DEFINE y == [x EXCEPT !.forceMod = n]
  <2>1. Right(y) /\ SameFace(x, y) /\ y.hp = x.hp
    BY <1>1, RightMods, Zenon
  <2> HIDE DEF y
  <2>2. Follows(b, Put(b, s, y)) /\ Put(b, s, y).over = b.over
    BY <2>1, <1>3
  <2> QED BY <2>2 DEF y
<1>5. Follows(b, Put(b, s, [x EXCEPT !.armorMod = n])) /\ Put(b, s, [x EXCEPT !.armorMod = n]).over = b.over
  <2> DEFINE y == [x EXCEPT !.armorMod = n]
  <2>1. Right(y) /\ SameFace(x, y) /\ y.hp = x.hp
    BY <1>1, RightMods, Zenon
  <2> HIDE DEF y
  <2>2. Follows(b, Put(b, s, y)) /\ Put(b, s, y).over = b.over
    BY <2>1, <1>3
  <2> QED BY <2>2 DEF y
<1>6. Follows(b, Put(b, s, [x EXCEPT !.charge = n])) /\ Put(b, s, [x EXCEPT !.charge = n]).over = b.over
  <2> DEFINE y == [x EXCEPT !.charge = n]
  <2>1. Right(y) /\ SameFace(x, y) /\ y.hp = x.hp
    BY <1>1, RightMods, Zenon
  <2> HIDE DEF y
  <2>2. Follows(b, Put(b, s, y)) /\ Put(b, s, y).over = b.over
    BY <2>1, <1>3
  <2> QED BY <2>2 DEF y
<1>7. Follows(b, Put(b, s, [x EXCEPT !.burn = u])) /\ Put(b, s, [x EXCEPT !.burn = u]).over = b.over
  <2> DEFINE y == [x EXCEPT !.burn = u]
  <2>1. Right(y) /\ SameFace(x, y) /\ y.hp = x.hp
    BY <1>1, RightMods, Zenon
  <2> HIDE DEF y
  <2>2. Follows(b, Put(b, s, y)) /\ Put(b, s, y).over = b.over
    BY <2>1, <1>3
  <2> QED BY <2>2 DEF y
<1> QED BY <1>2, <1>4, <1>5, <1>6, <1>7, Zenon

\* What follows a bout is a bout like it.
LEMMA FollowsSound ==
  ASSUME NEW b, NEW c, Follows(b, c)
  PROVE  Sound(c) /\ Stage(b, c)
BY DEF Follows

\* A riposte.
LEMMA RiposteSound ==
  ASSUME NEW b, Sound(b), NEW s \in Sides, NEW dealt \in Nat
  PROVE  Follows(b, Riposte(b, s, dealt))
<1> DEFINE c == Unflagged(b, Foe(s), {"riposte"})
<1>1. Foe(s) \in Sides
  BY FoeSide
<1>2. Follows(b, c)
  BY <1>1, UnflagSound
<1> HIDE DEF c
<1>3. Sound(c)
  BY <1>2, FollowsSound
<1>4. Follows(c, Damage(c, s, dealt, FALSE).bout)
  <2>1. dealt \in Int /\ dealt >= 0 /\ FALSE \in BOOLEAN
    OBVIOUS
  <2> QED BY <2>1, <1>3, DamageSound, Zenon
<1>5. Follows(b, Damage(c, s, dealt, FALSE).bout)
  BY <1>2, <1>4, Onward
<1>6. Follows(b, b)
  BY SoundParts DEF Sides
<1> QED BY <1>5, <1>6 DEF Riposte, c

\* Burning back.
LEMMA BurnBackSound ==
  ASSUME NEW b, Sound(b), NEW s \in Sides, NEW face
  PROVE  Follows(b, BurnBack(b, s, face))
<1> DEFINE rule == Rule(b.f[Foe(s)])
           u == [amount |-> rule.burnAttacker, turns |-> 1]
<1>1. Follows(b, b)
  BY SoundParts
<1>2. CASE Has(rule, "burnAttacker")
  <2>1. Table(rule)
    BY SoundParts, FoeSide
  <2>2. rule.burnAttacker \in Nat
    BY <1>2, <2>1 DEF Has, Table
  <2>3. u \in [amount : Nat, turns : Int]
    BY <2>2
  <2> HIDE DEF u
  <2>4. Follows(b, [b EXCEPT !.f[s].burn = u])
    BY <2>3, ModSound, 0 \in Int, Zenon
  <2> QED BY <1>1, <2>4, Zenon DEF BurnBack, u
<1>3. CASE ~Has(rule, "burnAttacker")
  BY <1>1, <1>3, Zenon DEF BurnBack
<1> QED BY <1>2, <1>3

\* Everything that answers.
LEMMA AnswersSound ==
  ASSUME NEW hit, Sound(hit.bout), hit.dealt \in Nat, NEW s \in Sides,
         NEW face, Table(face), NEW yourFace, Table(yourFace)
  PROVE  Follows(hit.bout, Answers(hit, s, face, yourFace))
<1> DEFINE o == Foe(s)
           b == hit.bout
           r == Riposte(b, s, hit.dealt)
           h == Heal(r, o, Effect(yourFace, "healOnDamage"))
           u == BurnBack(h, s, face)
           rule == Rule(b.f[o])
           poison == IF Has(face, "nothingSticks") THEN 0 ELSE Effect(rule, "poisonAttacker")
           grudge == IF Is(b, o, "grudged") THEN 0 ELSE Effect(yourFace, "grudge")
           m == u.f[s].forceMod - poison - grudge
           w == [u EXCEPT !.f[s].forceMod = m]
           marks == IF grudge > 0 THEN {"grudged"} ELSE {}
<1>0. o \in Sides
  BY FoeSide
<1>1. /\ Effect(yourFace, "healOnDamage") \in Nat /\ Effect(yourFace, "grudge") \in Nat
      /\ Effect(rule, "poisonAttacker") \in Nat
  <2>1. Table(rule)
    BY <1>0, SoundParts
  <2> QED BY <2>1, EffectNumber
<1>2. Then(r, LAMBDA x : Heal(x, o, Effect(yourFace, "healOnDamage"))) = h
  BY Zenon DEF Then
<1>3. Then(h, LAMBDA x : BurnBack(x, s, face)) = u
  BY Zenon DEF Then
<1>4. Answers(hit, s, face, yourFace) =
        Flagged([Then(Then(r, LAMBDA x : Heal(x, o, Effect(yourFace, "healOnDamage"))), LAMBDA x : BurnBack(x, s, face))
                   EXCEPT !.f[s].forceMod = @ - poison - grudge], o, marks)
  BY Zenon DEF Answers
<1>5. Answers(hit, s, face, yourFace) = Flagged(w, o, marks)
  BY <1>2, <1>3, <1>4, Zenon
<1> HIDE DEF rule
<1>6. poison \in Nat /\ grudge \in Nat /\ marks \in SUBSET FlagNames /\ "flipped" \notin marks
  <2>1. poison \in Nat /\ grudge \in Nat
    BY <1>1
  <2>2. {"grudged"} \in SUBSET FlagNames /\ {} \in SUBSET FlagNames
    BY DEF FlagNames
  <2> HIDE DEF grudge
  <2> QED BY <2>1, <2>2
<1> HIDE DEF poison, grudge, o, marks, b
<1>7. Follows(b, r)
  BY RiposteSound DEF b
<1> HIDE DEF r
<1>8. Follows(r, h)
  BY <1>0, <1>1, <1>7, FollowsSound, HealSound
<1> HIDE DEF h
<1>9. Follows(h, u)
  BY <1>8, FollowsSound, BurnBackSound
<1> HIDE DEF u
<1>10. Sound(u)
  BY <1>9, FollowsSound
<1>11. m \in Int
  <2>1. u.f[s].forceMod \in Int
    BY <1>10, Worths
  <2> QED BY <2>1, <1>6
<1> HIDE DEF m
<1>12. Follows(u, w)
  <2>1. [amount |-> 0, turns |-> 0] \in [amount : Nat, turns : Int]
    OBVIOUS
  <2> QED BY <1>10, <1>11, <2>1, ModSound, Zenon
<1> HIDE DEF w
<1>13. Follows(w, Flagged(w, o, marks))
  BY <1>0, <1>6, <1>12, FollowsSound, FlagSound
<1>14. Follows(b, w)
  BY <1>7, <1>8, <1>9, <1>12, Onward
<1>15. Follows(b, Flagged(w, o, marks))
  BY <1>13, <1>14, Onward
<1> QED BY <1>5, <1>15 DEF b

\* An attack: it misses, meets a shield, or lands.
LEMMA StrikeSound ==
  ASSUME NEW b, Sound(b), NEW s \in Sides, NEW luck, luck.pct \in Nat
  PROVE  Follows(b, Strike(b, s, luck))
<1> DEFINE o == Foe(s)
           face == ActiveFace(b, s)
           yourFace == ActiveFace(b, o)
           pounce == Has(Rule(b.f[s]), "unmissableOpener") /\ ~Is(b, s, "opened")
           fresh == Flagged(b, s, {"opened"})
           poised == [fresh EXCEPT !.missed[s] = FALSE]
           owed == IF Is(b, s, "forceMiss") THEN {"forceMiss"} ELSE b.f[s].flags \cap {"contagiousMiss"}
           misses == /\ ~pounce
                     /\ owed # {} \/ (Has(b.arena, "missChance") /\ ~Has(face, "arenaImmune") /\ luck.miss)
           spent == Unflagged(poised, s, owed)
           told == Flagged(spent, o, {"missedAgainstMe"})
           laughs == IF Has(yourFace, "contagiousMiss") THEN {"contagiousMiss"} ELSE {}
           missed == Flagged(told, s, laughs)
           met == Flagged(poised, o, {"tookOneThisTurn"})
           shielded == Is(b, o, "shield") /\ ~pounce /\ ~Has(face, "ignoreShield")
           blow == Blow(b, s, luck)
           dealt == Damage(met, o, blow, TRUE)
<1>0. o \in Sides /\ Sound(b) /\ b \in Bouts
  BY FoeSide, SoundParts
<1>1. /\ Table(face) /\ Table(yourFace) /\ blow \in Int
      /\ laughs \in SUBSET FlagNames /\ "flipped" \notin laughs
      /\ owed \cap {"flipped", "stood", "arenaTaken"} = {}
      /\ {"opened"} \in SUBSET FlagNames /\ {"missedAgainstMe"} \in SUBSET FlagNames
      /\ {"tookOneThisTurn"} \in SUBSET FlagNames
  <2>1. Table(face) /\ Table(yourFace)
    BY <1>0, SoundParts
  <2>2. blow \in Int
    BY BlowNumber
  <2>3. laughs \in SUBSET FlagNames /\ "flipped" \notin laughs
    BY DEF FlagNames
  <2>4. owed \cap {"flipped", "stood", "arenaTaken"} = {}
    BY DEF Is
  <2>5. /\ {"opened"} \in SUBSET FlagNames /\ {"missedAgainstMe"} \in SUBSET FlagNames
        /\ {"tookOneThisTurn"} \in SUBSET FlagNames
    BY DEF FlagNames
  <2> QED BY <2>1, <2>2, <2>3, <2>4, <2>5
<1>2. Then(met, LAMBDA m : Damage(m, o, Blow(b, s, luck), TRUE)) = dealt
  BY Zenon DEF Then
<1>3. Then(dealt, LAMBDA h : Answers(h, s, face, yourFace)) = Answers(dealt, s, face, yourFace)
  BY Zenon DEF Then
<1>4. Strike(b, s, luck) =
        IF misses THEN [missed EXCEPT !.missed[s] = TRUE]
        ELSE IF shielded THEN Unflagged(met, o, {"shield"})
        ELSE Then(Then(met, LAMBDA m : Damage(m, o, Blow(b, s, luck), TRUE)), LAMBDA h : Answers(h, s, face, yourFace))
  BY Zenon DEF Strike
<1>5. Strike(b, s, luck) =
        IF misses THEN [missed EXCEPT !.missed[s] = TRUE]
        ELSE IF shielded THEN Unflagged(met, o, {"shield"})
        ELSE Answers(dealt, s, face, yourFace)
  BY <1>2, <1>3, <1>4, Zenon
<1> HIDE DEF misses, shielded, owed, laughs, face, yourFace, blow, o
<1>6. ASSUME NEW c, Sound(c), NEW v \in BOOLEAN
      PROVE  Follows(c, [c EXCEPT !.missed[s] = v])
  <2>1. c.missed \in [Sides -> BOOLEAN]
    BY <1>6 DEF Sound, Bouts
  <2> DEFINE m == [c.missed EXCEPT ![s] = v]
  <2>2. m \in [Sides -> BOOLEAN]
    BY <2>1
  <2>3. [c EXCEPT !.missed[s] = v] = [c EXCEPT !.missed = m]
    OBVIOUS
  <2> HIDE DEF m
  <2>4. None \in Runes
    BY DEF Runes
  <2> QED BY <2>2, <2>3, <2>4, <1>6, AsideSound, Zenon
<1>7. Follows(b, poised)
  <2>1. Follows(b, fresh)
    BY <1>1, FlagSound
  <2> HIDE DEF fresh
  <2>2. Sound(fresh) /\ FALSE \in BOOLEAN
    BY <2>1, FollowsSound
  <2>3. Follows(fresh, poised)
    BY <2>2, <1>6, Zenon
  <2> QED BY <2>1, <2>3, Onward
<1> HIDE DEF poised
<1>8. Follows(b, [missed EXCEPT !.missed[s] = TRUE])
  <2>1. Follows(poised, spent)
    BY <1>1, <1>7, FollowsSound, UnflagSound
  <2> HIDE DEF spent
  <2>2. Follows(spent, told)
    BY <2>1, <1>0, <1>1, FollowsSound, FlagSound
  <2> HIDE DEF told
  <2>3. Follows(told, missed)
    BY <2>2, <1>1, FollowsSound, FlagSound
  <2> HIDE DEF missed
  <2>4. Sound(missed) /\ TRUE \in BOOLEAN
    BY <2>3, FollowsSound
  <2>5. Follows(missed, [missed EXCEPT !.missed[s] = TRUE])
    BY <2>4, <1>6, Zenon
  <2>6. Follows(b, missed)
    BY <1>7, <2>1, <2>2, <2>3, Onward
  <2> QED BY <2>5, <2>6, Onward, Zenon
<1>9. Follows(b, met)
  <2>1. Follows(poised, met)
    BY <1>0, <1>1, <1>7, FollowsSound, FlagSound
  <2> HIDE DEF met
  <2> QED BY <2>1, <1>7, Onward
<1> HIDE DEF met, missed
<1>10. Follows(b, Unflagged(met, o, {"shield"}))
  <2>1. Follows(met, Unflagged(met, o, {"shield"}))
    BY <1>0, <1>9, FollowsSound, UnflagSound
  <2> QED BY <2>1, <1>9, Onward
<1>11. Follows(b, Answers(dealt, s, face, yourFace))
  <2>1. TRUE \in BOOLEAN /\ Sound(met)
    BY <1>9, FollowsSound
  <2>2. Follows(met, dealt.bout) /\ dealt.dealt \in Nat
    BY <2>1, <1>0, <1>1, DamageSound, Zenon
  <2> HIDE DEF dealt
  <2>3. Sound(dealt.bout)
    BY <2>2, FollowsSound
  <2>4. Follows(dealt.bout, Answers(dealt, s, face, yourFace))
    BY <2>2, <2>3, <1>1, AnswersSound
  <2> QED BY <2>2, <2>4, <1>9, Onward
<1> QED BY <1>5, <1>8, <1>10, <1>11, Zenon

\* What the draws of a turn come to.
LuckOK(luck) ==
  /\ luck.hits[1].pct \in Nat /\ luck.hits[2].pct \in Nat
  /\ luck.family \in Families /\ luck.coin \in Sides
  /\ luck.lamp.hp \in Nat /\ luck.lamp.force \in Nat /\ luck.lamp.armor \in Nat

\* A second attack, if the fight is on.
LEMMA AgainSound ==
  ASSUME NEW b, Sound(b), NEW s \in Sides, NEW luck, LuckOK(luck)
  PROVE  Follows(b, Again(b, s, luck))
<1>1. Follows(b, Strike(b, s, luck.hits[2]))
  BY StrikeSound DEF LuckOK
<1>2. Follows(b, b)
  BY SoundParts
<1> QED BY <1>1, <1>2 DEF Again

\* The Rune: whatever family it is of.
LEMMA CastSound ==
  ASSUME NEW b, Sound(b), NEW s \in Sides, NEW luck, LuckOK(luck)
  PROVE  Follows(b, CastRune(b, s, luck))
<1> DEFINE o == Foe(s)
           own == IF Does(b, o, "staticRune") /\ ~Does(b, s, "nothingSticks") THEN luck.family ELSE Shown(b.f[s]).family
           family == IF own = "Runestone" /\ b.lastRune # None THEN b.lastRune ELSE own
           named == [b EXCEPT !.lastRune = family]
           cast == [named EXCEPT !.f[s].charge = 0]
           fire == [amount |-> 5, turns |-> 2]
           may == ~Has(Rule(b.f[o]), "immuneBurn") /\ ~Does(b, o, "nothingSticks")
           one == Strike(cast, s, luck.hits[1])
           hard == [cast EXCEPT !.f[s].armorMod = @ + 4]
           strong == [cast EXCEPT !.f[s].forceMod = @ + 3]
           burning == [cast EXCEPT !.f[o].burn = fire]
           made == CASE family = "Sun" -> Heal(cast, s, 20)
                     [] family = "Hope" -> Flagged(cast, s, {"shield"})
                     [] family = "Earth" -> Flagged(cast, s, {"riposte"})
                     [] family = "Stone" -> hard
                     [] family = "Birch" -> strong
                     [] family = "Fire" /\ may -> burning
                     [] family = "Ride" -> Again(one, s, luck)
                     [] OTHER -> cast
<1>0. o \in Sides /\ b \in Bouts
  BY FoeSide, SoundParts
<1>1. family \in Runes
  <2>1. b.lastRune \in Runes
    BY <1>0 DEF Bouts
  <2>2. Shown(b.f[s]).family \in Runes
    BY SoundParts, ShownNumbers
  <2>3. luck.family \in Runes
    BY DEF LuckOK, Runes
  <2> QED BY <2>1, <2>2, <2>3
<1>2. CastRune(b, s, luck) = made
  <2> DEFINE step(c) ==
        CASE family = "Sun" -> Heal(c, s, 20)
          [] family = "Hope" -> Flagged(c, s, {"shield"})
          [] family = "Earth" -> Flagged(c, s, {"riposte"})
          [] family = "Stone" -> [c EXCEPT !.f[s].armorMod = @ + 4]
          [] family = "Birch" -> [c EXCEPT !.f[s].forceMod = @ + 3]
          [] family = "Fire" /\ ~Has(Rule(b.f[o]), "immuneBurn") /\ ~Does(b, o, "nothingSticks") ->
               [c EXCEPT !.f[o].burn = [amount |-> 5, turns |-> 2]]
          [] family = "Ride" -> Then(Strike(c, s, luck.hits[1]), LAMBDA x : Again(x, s, luck))
          [] OTHER -> c
  <2> DEFINE given == [b EXCEPT !.lastRune = family, !.f[s].charge = 0]
  <2>1. CastRune(b, s, luck) = Then(given, LAMBDA c : step(c))
    BY Zenon DEF CastRune, Then
  <2>2. Then(given, LAMBDA c : step(c)) = step(given)
    BY Zenon DEF Then
  <2>3. given = cast
    BY <1>0 DEF Bouts
  <2>4. Then(Strike(cast, s, luck.hits[1]), LAMBDA x : Again(x, s, luck)) = Again(one, s, luck)
    <3>1. ASSUME NEW c PROVE Then(c, LAMBDA x : Again(x, s, luck)) = Again(c, s, luck)
      BY Zenon DEF Then
    <3> QED BY <3>1, Zenon
  <2>5. step(cast) = made
    BY <2>4, Zenon
  <2> QED BY <2>1, <2>2, <2>3, <2>5, Zenon
<1> HIDE DEF family, may, fire
<1>3. Follows(b, cast)
  <2>1. Follows(b, named)
    <3>1. b.missed \in [Sides -> BOOLEAN]
      BY <1>0 DEF Bouts
    <3> QED BY <3>1, <1>1, AsideSound, Zenon
  <2> HIDE DEF named
  <2>2. Sound(named) /\ 0 \in Int /\ [amount |-> 0, turns |-> 0] \in [amount : Nat, turns : Int]
    BY <2>1, FollowsSound
  <2>3. Follows(named, cast)
    BY <2>2, ModSound, Zenon
  <2> QED BY <2>1, <2>3, Onward
<1> HIDE DEF named, cast, o
<1>4. Sound(cast)
  BY <1>3, FollowsSound
<1>5. Follows(cast, Heal(cast, s, 20)) /\ Follows(cast, cast)
  BY <1>4, HealSound, SoundParts
<1>6. Follows(cast, Flagged(cast, s, {"shield"})) /\ Follows(cast, Flagged(cast, s, {"riposte"}))
  <2>1. {"shield"} \in SUBSET FlagNames /\ {"riposte"} \in SUBSET FlagNames
    BY DEF FlagNames
  <2> QED BY <2>1, <1>4, FlagSound
<1>7. Follows(cast, hard) /\ Follows(cast, strong)
  <2>1. cast.f[s].armorMod + 4 \in Int /\ cast.f[s].forceMod + 3 \in Int
    BY <1>4, Worths
  <2>2. [amount |-> 0, turns |-> 0] \in [amount : Nat, turns : Int]
    OBVIOUS
  <2> QED BY <2>1, <2>2, <1>4, ModSound, Zenon
<1>8. Follows(cast, burning)
  <2>1. fire \in [amount : Nat, turns : Int] /\ 0 \in Int
    BY DEF fire
  <2> QED BY <2>1, <1>0, <1>4, ModSound, Zenon
<1>9. Follows(cast, Again(one, s, luck))
  <2>1. Follows(cast, one)
    BY <1>4, StrikeSound DEF LuckOK
  <2> HIDE DEF one
  <2>2. Follows(one, Again(one, s, luck))
    BY <2>1, FollowsSound, AgainSound
  <2> QED BY <2>1, <2>2, Onward
<1> HIDE DEF hard, strong, burning, one
<1>10. Follows(cast, made)
  BY <1>5, <1>6, <1>7, <1>8, <1>9
<1> HIDE DEF made
<1> QED BY <1>2, <1>3, <1>10, Onward

\* A bout that goes on within a turn: sound, and at the same moment.
Goes(b, c) == Sound(c) /\ SameClock(b, c)

\* What follows goes on, and on.
LEMMA GoesOnward ==
  ASSUME NEW b, NEW c, NEW d
  PROVE  /\ Follows(b, c) => Goes(b, c)
         /\ Goes(b, c) /\ Goes(c, d) => Goes(b, d)
         /\ Goes(b, c) /\ Follows(c, d) => Goes(b, d)
BY DEF Goes, Follows, Stage, SameClock

\* While the fight is on a fighter may be replaced by any that is right and has life left.
LEMMA PutGoes ==
  ASSUME NEW b, Sound(b), ~b.over, NEW s \in Sides, NEW x, Right(x), x.hp > 0
  PROVE  Goes(b, Put(b, s, x)) /\ ~Put(b, s, x).over
<1> DEFINE c == Put(b, s, x)
<1>0. b \in Bouts /\ x \in Combatant /\ Foe(s) \in Sides /\ \A t \in Sides : t = s \/ t = Foe(s)
  BY FoeSide DEF Sound, Right
<1>1. /\ c \in Bouts /\ c.f[s] = x /\ c.f[Foe(s)] = b.f[Foe(s)]
      /\ c.turn = b.turn /\ c.toAct = b.toAct /\ c.over = b.over /\ c.winner = b.winner
      /\ c.timedOut = b.timedOut
      /\ c.actions = b.actions /\ c.first = b.first /\ c.fallen = b.fallen
  BY <1>0, PutIs
<1> HIDE DEF c
<1>2. \A t \in Sides : Right(c.f[t])
  BY <1>0, <1>1 DEF Sound
<1>3. b.fallen = <<>> /\ b.winner = None /\ b.f[Foe(s)].hp > 0
  BY <1>0 DEF Sound, Standing2
<1>4. Standing2(c)
  BY <1>0, <1>1, <1>3 DEF Standing2
<1>5. Doors(c)
  BY <1>1, <1>3 DEF Doors
<1>6. ~c.timedOut
  BY <1>1 DEF Sound
<1> QED BY <1>1, <1>2, <1>4, <1>5, <1>6 DEF Goes, Sound, SameClock, c

\* A flip that takes: the numbers of the other form, and the damage already taken.
LEMMA ReformRight ==
  ASSUME NEW x, Right(x), MayFlip(x), NEW e \in SUBSET {"extraTurn"}
  PROVE  LET w == [x EXCEPT !.catnip = @ - 1, !.flags = @ \cup {"flipped"}]
             y == Reform(w, 3 - w.form)
             z == [y EXCEPT !.flags = @ \cup e] IN
           /\ Right(w) /\ w.hp = x.hp
           /\ y \in Combatant
           /\ Right(z) /\ z.hp > 0
<1> DEFINE w == [x EXCEPT !.catnip = @ - 1, !.flags = @ \cup {"flipped"}]
           y == Reform(w, 3 - w.form)
           z == [y EXCEPT !.flags = @ \cup e]
           fl == x.flags \cup {"flipped"}
           f == x.cat.forms[2]
           max == Percent(f.hp, x.cat.scale)
           hp == Larger(1, max - (x.maxHp - x.hp))
<1>1. /\ x \in Combatant /\ x.form = 1 /\ x.cat \in Cats /\ x.catnip >= 1 /\ x.cat.canFlip
      /\ x.flags \in SUBSET FlagNames /\ "flipped" \notin x.flags
      /\ x.catnip \in Int /\ x.catnip = x.cat.catnip /\ x.hp \in Int /\ x.maxHp \in Int
  <2>1. /\ x \in Combatant /\ x.cat \in Cats /\ x.form \in Sides /\ x.flags \in SUBSET FlagNames
        /\ x.catnip \in Int /\ x.hp \in Int /\ x.maxHp \in Int
    BY DEF Right, Combatant
  <2>2. "flipped" \notin x.flags /\ x.catnip >= 1 /\ x.cat.canFlip
    BY DEF MayFlip
  <2>3. x.form = 1
    BY <2>1, <2>2 DEF Right, TrueForm, Sides
  <2>4. x.cat.catnip \in Nat
    BY <2>1, CatNumbers DEF Sides
  <2>5. x.catnip = x.cat.catnip
    BY <2>1, <2>2, <2>4 DEF Right, TrueForm
  <2> QED BY <2>1, <2>2, <2>3, <2>5
<1>2. fl \in SUBSET FlagNames /\ fl \cup e \in SUBSET FlagNames
  BY <1>1 DEF FlagNames
<1>3. w \in Combatant /\ w.hp = x.hp /\ w.maxHp = x.maxHp /\ w.cat = x.cat /\ w.form = 1 /\ w.flags = fl
      /\ w.catnip = x.catnip - 1 /\ w.force = x.force /\ w.armor = x.armor
  <2> DEFINE n == x.catnip - 1
  <2>1. n \in Int
    BY <1>1
  <2>2. w = [x EXCEPT !.catnip = n, !.flags = fl]
    OBVIOUS
  <2> HIDE DEF Cats, Masks, fl, FlagNames, n, w
  <2>3. w \in Combatant /\ w.hp = x.hp /\ w.maxHp = x.maxHp /\ w.cat = x.cat /\ w.form = x.form
        /\ w.flags = fl /\ w.catnip = n /\ w.force = x.force /\ w.armor = x.armor
    BY <2>1, <2>2, <1>1, <1>2 DEF Combatant
  <2> QED BY <2>3, <1>1 DEF n
<1> HIDE DEF w
<1>4. Right(w)
  <2>1. TrueForm(w)
    BY <1>1, <1>3 DEF Right, TrueForm, Rule, Shown
  <2> QED BY <2>1, <1>1, <1>3 DEF Right
<1>5. /\ f.force \in Nat /\ f.armor \in Nat /\ max \in Nat /\ max > 0 /\ BaseArmor(f) \in Nat
  <2>1. 2 \in Sides
    BY DEF Sides
  <2>2. f.force \in Nat /\ f.armor \in Nat /\ f.hp \in Nat /\ x.cat.scale \in Nat /\ max > 0
    BY <1>1, <2>1, CatNumbers
  <2>3. max \in Nat
    BY <2>2, PercentNumber
  <2> QED BY <2>2, <2>3 DEF BaseArmor, MuteArmor
<1>6. y = [w EXCEPT !.form = 2, !.maxHp = max, !.hp = hp, !.force = f.force, !.armor = BaseArmor(f)]
  BY <1>3 DEF Reform
<1>7. hp \in Int /\ 0 < hp /\ hp <= max
  BY <1>1, <1>5 DEF Larger, Right
<1> DEFINE force == f.force
           armor == BaseArmor(f)
<1> HIDE DEF y, max, hp, force, armor
<1>8. /\ y \in Combatant /\ y.hp = hp /\ y.maxHp = max /\ y.cat = x.cat /\ y.form = 2 /\ y.flags = fl
      /\ y.catnip = x.catnip - 1 /\ y.force = force /\ y.armor = armor
  <2>1. y = [w EXCEPT !.form = 2, !.maxHp = max, !.hp = hp, !.force = force, !.armor = armor]
    BY <1>6 DEF force, armor
  <2>2. force \in Int /\ armor \in Int /\ max \in Int /\ 2 \in Sides
    BY <1>5 DEF force, armor, Sides
  <2> HIDE DEF Cats, Masks, fl, FlagNames, Sides
  <2> QED BY <2>1, <2>2, <1>3, <1>7 DEF Combatant
<1>9. /\ z \in Combatant /\ z.hp = hp /\ z.maxHp = max /\ z.cat = x.cat /\ z.form = 2 /\ z.flags = fl \cup e
      /\ z.catnip = x.catnip - 1 /\ z.force = force /\ z.armor = armor
  <2> HIDE DEF Cats, Masks, fl, FlagNames, Sides
  <2> QED BY <1>2, <1>8 DEF Combatant
<1> HIDE DEF z
<1>10. Shown(z) = f
  BY <1>9 DEF Shown
<1>11. TrueForm(z)
  <2>1. "flipped" \in z.flags /\ z.catnip = z.cat.catnip - 1
    BY <1>1, <1>9
  <2>2. z.maxHp = Percent(Shown(z).hp, z.cat.scale) /\ z.force = Shown(z).force /\ z.armor = BaseArmor(Shown(z))
    BY <1>9, <1>10 DEF max, force, armor
  <2> QED BY <2>1, <2>2, <1>1, <1>9 DEF TrueForm
<1>12. Right(z)
  BY <1>1, <1>5, <1>7, <1>9, <1>11 DEF Right
<1> QED BY <1>3, <1>4, <1>7, <1>8, <1>9, <1>12 DEF z, y, w

\* An attempt to flip.
LEMMA FlipGoes ==
  ASSUME NEW b, Sound(b), ~b.over, NEW s \in Sides, NEW luck
  PROVE  Goes(b, AttemptFlip(b, s, luck))
<1> DEFINE x == b.f[s]
           w == [x EXCEPT !.catnip = @ - 1, !.flags = @ \cup {"flipped"}]
           y == Reform(w, 3 - w.form)
           e == IF Has(Rule(y), "doubleTurnAfterFlip") THEN {"extraTurn"} ELSE {}
           z == [y EXCEPT !.flags = @ \cup e]
           n == Effect(Rule(b.f[Foe(s)]), "healOnOpponentFlip")
           healed == Heal(Put(b, s, z), Foe(s), n)
<1>1. Right(x) /\ x.hp > 0 /\ Foe(s) \in Sides
  BY SoundParts, LifeLeft, FoeSide
<1>2. n \in Nat
  BY <1>1, SoundParts, EffectNumber
<1>3. AttemptFlip(b, s, luck) =
        IF ~MayFlip(x) THEN b ELSE IF w.cat.frail /\ luck.flipFails THEN Put(b, s, w) ELSE healed
  BY Zenon DEF AttemptFlip
<1>4. Goes(b, b)
  BY SoundParts, GoesOnward DEF Sides
<1>5. CASE ~MayFlip(x)
  BY <1>3, <1>4, <1>5
<1>6. CASE MayFlip(x)
  <2>1. e \in SUBSET {"extraTurn"}
    OBVIOUS
  <2>2. Right(w) /\ w.hp = x.hp /\ Right(z) /\ z.hp > 0
    <3> HIDE DEF x, e
    <3> QED BY <1>1, <1>6, <2>1, ReformRight, Zenon
  <2> HIDE DEF w, z, n, x
  <2>3. Goes(b, Put(b, s, w))
    BY <1>1, <2>2, PutGoes
  <2>4. Goes(b, Put(b, s, z))
    BY <2>2, PutGoes
  <2>5. Follows(Put(b, s, z), healed)
    BY <1>1, <1>2, <2>4, HealSound DEF Goes
  <2>6. Goes(b, healed)
    BY <2>4, <2>5, GoesOnward
  <2> QED BY <1>3, <1>6, <2>3, <2>6, Zenon
<1> QED BY <1>5, <1>6

\* Waking up: another face, perhaps.
LEMMA WakesGoes ==
  ASSUME NEW b, Sound(b), ~b.over, NEW s \in Sides
  PROVE  Goes(b, Wakes(b, s))
<1> DEFINE x == b.f[s]
           face == ActiveFace(b, s)
           fl == x.flags \ {"asleep"}
           n == IF Has(face, "forceAfterWaking") THEN 6 ELSE x.awake
           m == IF Has(face, "copyFaceOnWaking") THEN ActiveFace(b, Foe(s)) ELSE x.copied
           y == [x EXCEPT !.flags = fl, !.awake = n, !.copied = m]
<1>1. /\ x \in Combatant /\ Right(x) /\ x.hp > 0 /\ x.flags \in SUBSET FlagNames
      /\ x.awake \in Int /\ ActiveFace(b, Foe(s)) \in Masks
  BY SoundParts, LifeLeft, Worths, FoeSide
<1>2. x.copied \in Masks \cup {None}
  <2> HIDE DEF Cats, Masks, x
  <2> QED BY <1>1 DEF Combatant
<1>3. fl \in SUBSET FlagNames /\ n \in Int /\ m \in Masks \cup {None} /\ ("flipped" \in fl <=> "flipped" \in x.flags)
  BY <1>1, <1>2
<1>4. Wakes(b, s) = Put(b, s, y)
  <2>1. x \in Combatant /\ b \in Bouts
    BY SoundParts
  <2> QED BY <2>1 DEF Wakes, Put, Bouts
<1> HIDE DEF fl, n, m, x
<1>5. /\ y \in Combatant /\ y.hp = x.hp /\ y.maxHp = x.maxHp /\ y.cat = x.cat /\ y.form = x.form
      /\ y.flags = fl /\ y.catnip = x.catnip /\ y.force = x.force /\ y.armor = x.armor
  <2> HIDE DEF Cats, Masks, FlagNames
  <2> QED BY <1>1, <1>3 DEF Combatant
<1> HIDE DEF y
<1>6. TrueForm(y)
  BY <1>1, <1>3, <1>5 DEF Right, TrueForm, Rule, Shown
<1>7. Right(y) /\ y.hp > 0
  BY <1>1, <1>5, <1>6 DEF Right
<1> QED BY <1>4, <1>7, PutGoes

\* A swelling force is nobody's form.
LEMMA SwellRight ==
  ASSUME NEW x, Right(x)
  PROVE  Right(Swell(x)) /\ SameFace(x, Swell(x)) /\ Swell(x).hp = x.hp
<1> DEFINE cap == Effect(Rule(x), "forceCap")
           n == Smaller(cap, x.forceMod + Rule(x).forcePerTurn)
<1>0. x \in Combatant /\ Table(Rule(x)) /\ x.forceMod \in Int
  <2>1. x \in Combatant
    BY DEF Right
  <2>2. x.forceMod \in Int
    <3> HIDE DEF Cats, Masks, FlagNames
    <3> QED BY <2>1 DEF Combatant
  <2> QED BY <2>1, <2>2, ShownNumbers
<1>1. CASE Has(Rule(x), "forcePerTurn") /\ x.forceMod < cap
  <2>1. cap \in Nat /\ Rule(x).forcePerTurn \in Nat
    BY <1>0, <1>1, EffectNumber DEF Has, Table
  <2>2. n \in Int
    BY <2>1, <1>0 DEF Smaller
  <2>3. Swell(x) = [x EXCEPT !.forceMod = n]
    BY <1>1 DEF Swell
  <2> HIDE DEF n
  <2>4. [amount |-> 0, turns |-> 0] \in [amount : Nat, turns : Int]
    OBVIOUS
  <2> DEFINE y == [x EXCEPT !.forceMod = n]
  <2>5. Right(y) /\ SameFace(x, y) /\ y.hp = x.hp
    BY <2>2, <2>4, RightMods, Zenon
  <2> HIDE DEF y
  <2>6. Swell(x) = y
    BY <2>3 DEF y
  <2> QED BY <2>5, <2>6
<1>2. CASE ~(Has(Rule(x), "forcePerTurn") /\ x.forceMod < cap)
  <2>1. Swell(x) = x
    BY <1>2 DEF Swell
  <2> QED BY <2>1 DEF SameFace
<1> QED BY <1>1, <1>2

\* The lamp: other numbers, while its rule is shown.
LEMMA RerollRight ==
  ASSUME NEW x, Right(x), NEW luck, LuckOK(luck)
  PROVE  Right(Reroll(x, luck)) /\ SameFace(x, Reroll(x, luck)) /\ (x.hp > 0 => Reroll(x, luck).hp > 0)
<1> DEFINE max == Larger(1, Percent(Percent(Shown(x).hp, x.cat.scale), luck.lamp.hp))
           hp == Smaller(x.hp, max)
           force == Larger(1, Percent(Shown(x).force, luck.lamp.force))
           armor == Percent(Shown(x).armor, luck.lamp.armor) + (IF Shown(x).tuned THEN 0 ELSE MuteArmor)
           y == [x EXCEPT !.maxHp = max, !.hp = hp, !.force = force, !.armor = armor]
<1>0. x \in Combatant /\ x.hp \in Int
  <2>1. x \in Combatant
    BY DEF Right
  <2> HIDE DEF Cats, Masks, FlagNames
  <2> QED BY <2>1 DEF Combatant
<1>1. max \in Int /\ max > 0 /\ force \in Int /\ armor \in Int
  <2>1. Percent(Shown(x).hp, x.cat.scale) \in Nat /\ Shown(x).force \in Nat /\ Shown(x).armor \in Nat
    BY <1>0, ShownNumbers
  <2>2. /\ Percent(Percent(Shown(x).hp, x.cat.scale), luck.lamp.hp) \in Nat
        /\ Percent(Shown(x).force, luck.lamp.force) \in Nat
        /\ Percent(Shown(x).armor, luck.lamp.armor) \in Nat
    BY <2>1, PercentNumber DEF LuckOK
  <2> QED BY <2>2 DEF Larger, MuteArmor
<1>2. hp \in Int /\ 0 <= hp /\ hp <= max /\ (x.hp > 0 => hp > 0)
  <2>1. 0 <= x.hp
    BY DEF Right
  <2> HIDE DEF max
  <2> QED BY <1>0, <1>1, <2>1 DEF Smaller
<1>3. Reroll(x, luck) = IF ~Has(Rule(x), "rerollStats") THEN x ELSE y
  BY DEF Reroll
<1> HIDE DEF max, hp, force, armor
<1>4. /\ y \in Combatant /\ y.hp = hp /\ y.maxHp = max /\ y.cat = x.cat /\ y.form = x.form
      /\ y.flags = x.flags /\ y.catnip = x.catnip /\ y.copied = x.copied
  <2> HIDE DEF Cats, Masks, FlagNames
  <2> QED BY <1>0, <1>1, <1>2 DEF Combatant
<1> HIDE DEF y
<1>5. CASE Has(Rule(x), "rerollStats")
  <2>1. TrueForm(y)
    BY <1>4, <1>5 DEF Right, TrueForm, Rule, Shown
  <2>2. x.catnip >= 0
    BY DEF Right
  <2> QED BY <2>1, <2>2, <1>1, <1>2, <1>3, <1>4, <1>5 DEF Right, SameFace
<1>6. CASE ~Has(Rule(x), "rerollStats")
  <2>1. Reroll(x, luck) = x
    BY <1>3, <1>6
  <2> QED BY <2>1 DEF SameFace
<1> QED BY <1>5, <1>6

\* The falls of a bout in which only one side was hurt.
OneFalls(b, c, s) == c.fallen = b.fallen \/ \E fall \in Fall : fall.side = s /\ c.fallen = Append(b.fallen, fall)

\* Healing fells nobody.
LEMMA HealFallen ==
  ASSUME NEW b, Sound(b), NEW s \in Sides, NEW n \in Nat
  PROVE  Heal(b, s, n).fallen = b.fallen
<1>1. b \in Bouts
  BY SoundParts
<1> HIDE DEF Combatant, Arenas, Runes, Fall
<1> QED BY <1>1 DEF Heal, Bouts

\* A blow fells at most whom it hits.
LEMMA DamageFells ==
  ASSUME NEW b, Sound(b), NEW s \in Sides, NEW amount \in Int, NEW hit \in BOOLEAN, hit \/ amount >= 0
  PROVE  OneFalls(b, Damage(b, s, amount, hit).bout, s)
<1> DEFINE n == Taken(b, s, amount, hit)
           marks == Marks(b, s, hit)
           face == ActiveFace(b, s)
           x == b.f[s]
           y == Hurt(x, x.hp - n, x.flags \cup marks)
           hurt == Put(b, s, y)
           fall == [side |-> s, turn |-> b.turn]
           c == Falls(b, s, face, hurt)
<1>1. n \in Nat /\ marks \in SUBSET FlagNames /\ "flipped" \notin marks
  BY TakenNumber
<1>2. Damage(b, s, amount, hit) =
        [dealt |-> n, bout |-> Falls(b, s, ActiveFace(b, s), Flagged([b EXCEPT !.f[s].hp = @ - n], s, marks))]
  BY DamageIs, Zenon
<1> HIDE DEF n, marks
<1>3. b \in Bouts /\ x \in Combatant /\ x.hp \in Nat /\ x.flags \in SUBSET FlagNames /\ b.turn \in Nat
  <2>1. b \in Bouts /\ x \in Combatant /\ x.hp \in Nat /\ x.flags \in SUBSET FlagNames
    BY SoundParts, LifeLeft
  <2>2. b.turn \in Nat
    BY <2>1 DEF Bouts
  <2> QED BY <2>1, <2>2
<1>4. Flagged([b EXCEPT !.f[s].hp = @ - n], s, marks) = hurt
  <2>1. n \in Int
    BY <1>1
  <2> QED BY <2>1, <1>1, <1>3, HurtBout, Zenon
<1>5. y \in Combatant
  <2>1. x.hp - n \in Int /\ x.flags \cup marks \in SUBSET FlagNames
    BY <1>1, <1>3
  <2> HIDE DEF x
  <2> QED BY <2>1, <1>3, HurtIs
<1> HIDE DEF y
<1>6. hurt \in Bouts /\ hurt.fallen = b.fallen
  BY <1>3, <1>5, PutIs
<1> HIDE DEF hurt
<1>7. c.fallen = hurt.fallen \/ c.fallen = Append(hurt.fallen, fall)
  <2> HIDE DEF Combatant, Arenas, Runes, Fall
  <2> QED BY <1>6 DEF Falls, Bouts
<1>8. fall \in Fall /\ fall.side = s
  BY <1>3 DEF Fall
<1> HIDE DEF c, fall
<1>9. OneFalls(b, c, s)
  BY <1>6, <1>7, <1>8 DEF OneFalls
<1>10. Damage(b, s, amount, hit) = [dealt |-> n, bout |-> c]
  BY <1>2, <1>4, Zenon DEF c
<1> QED BY <1>9, <1>10

\* The fire.
LEMMA BurnSound ==
  ASSUME NEW b, Sound(b), NEW s \in Sides
  PROVE  Follows(b, Burn(b, s)) /\ OneFalls(b, Burn(b, s), s)
<1> DEFINE x == b.f[s]
           d == Damage(b, s, x.burn.amount, FALSE).bout
           out == [b EXCEPT !.f[s].burn.turns = 0]
           less == [d EXCEPT !.f[s].burn.turns = @ - 1]
<1>1. Follows(b, b) /\ b \in Bouts /\ b.f \in [Sides -> Combatant]
  BY SoundParts DEF Sides, Bouts
<1>2. Burn(b, s) = IF x.burn.turns = 0 THEN b ELSE IF Does(b, s, "nothingSticks") THEN out ELSE less
  BY DEF Burn
<1>3. ASSUME NEW c, Sound(c), NEW n \in Int
      PROVE  /\ Follows(c, [c EXCEPT !.f[s].burn.turns = n])
             /\ [c EXCEPT !.f[s].burn.turns = n].fallen = c.fallen
  <2>1. c.f[s].burn \in [amount : Nat, turns : Int] /\ c \in Bouts
    BY <1>3, Worths, SoundParts
  <2> DEFINE u == [c.f[s].burn EXCEPT !.turns = n]
  <2>2. u \in [amount : Nat, turns : Int]
    BY <2>1
  <2>3. [c EXCEPT !.f[s].burn.turns = n] = [c EXCEPT !.f[s].burn = u]
    OBVIOUS
  <2> HIDE DEF u
  <2>4. Follows(c, [c EXCEPT !.f[s].burn = u])
    BY <2>2, <1>3, ModSound, 0 \in Int, Zenon
  <2>5. [c EXCEPT !.f[s].burn = u].fallen = c.fallen
    <3> HIDE DEF Combatant, Arenas, Runes, Fall
    <3> QED BY <2>1 DEF Bouts
  <2> QED BY <2>3, <2>4, <2>5
<1>4. Follows(b, out) /\ OneFalls(b, out, s)
  <2>1. 0 \in Int
    OBVIOUS
  <2>2. Follows(b, out) /\ out.fallen = b.fallen
    BY <2>1, <1>3, Zenon
  <2> HIDE DEF out
  <2> QED BY <2>2 DEF OneFalls
<1>5. Follows(b, less) /\ OneFalls(b, less, s)
  <2>1. x.burn.amount \in Int /\ x.burn.amount >= 0 /\ FALSE \in BOOLEAN
    BY Worths
  <2>2. Follows(b, d) /\ OneFalls(b, d, s)
    BY <2>1, DamageSound, DamageFells, Zenon
  <2> HIDE DEF d
  <2>3. Sound(d) /\ d.f[s].burn.turns - 1 \in Int
    <3>1. Sound(d)
      BY <2>2, FollowsSound
    <3> QED BY <3>1, Worths
  <2>4. Follows(d, less) /\ less.fallen = d.fallen
    BY <2>3, <1>3, Zenon
  <2> HIDE DEF less
  <2> QED BY <2>2, <2>4, Onward DEF OneFalls
<1>6. OneFalls(b, b, s)
  BY DEF OneFalls
<1> HIDE DEF out, less
<1> QED BY <1>1, <1>2, <1>4, <1>5, <1>6

\* Seizing the arena: whoever does still shows the face that let it, and nobody else has gone down.
LEMMA SeizeGoes ==
  ASSUME NEW b, Sound(b), NEW s \in Sides, \A k \in DOMAIN b.fallen : b.fallen[k].side = s
  PROVE  Goes(b, Seize(b, s, ActiveFace(b, s)))
<1> HIDE DEF Combatant, Runes, Fall
<1> DEFINE x == b.f[s]
           face == ActiveFace(b, s)
           g == Flagged(b, s, {"arenaTaken"})
           a == Shown(x).background
           c == [g EXCEPT !.arena = a, !.arenaOwner = s]
           may == /\ Has(face, "arenaBecomesMineBelow") /\ "arenaTaken" \notin x.flags
                  /\ 100 * x.hp < face.arenaBecomesMineBelow * x.maxHp
<1>0. x \in Combatant /\ Right(x) /\ b \in Bouts /\ Foe(s) \in Sides
  BY SoundParts
<1>1. Seize(b, s, face) = IF may THEN c ELSE b
  BY DEF Seize
<1>2. Goes(b, b)
  BY SoundParts, GoesOnward
<1>3. CASE Has(face, "arenaBecomesMineBelow")
  <2>1. a \in Arenas
    BY <1>0, ShownNumbers
  <2>2. /\ Follows(b, g) /\ g.over = b.over /\ g.fallen = b.fallen
        /\ g.f[s] = [x EXCEPT !.flags = x.flags \cup {"arenaTaken"}]
    <3>1. {"arenaTaken"} \in SUBSET FlagNames
      BY DEF FlagNames
    <3>2. g.fallen = b.fallen
      BY <1>0 DEF Flagged, Bouts
    <3> QED BY <3>1, <3>2, FlagSound
  <2>3. "arenaTaken" \in g.f[s].flags
    <3>1. [x EXCEPT !.flags = x.flags \cup {"arenaTaken"}].flags = x.flags \cup {"arenaTaken"}
      BY <1>0 DEF Combatant
    <3> QED BY <2>2, <3>1
  <2> HIDE DEF g, a
  <2>4. g \in Bouts /\ Sound(g) /\ ActiveFace(g, s) = face
    <3>1. Sound(g) /\ Stage(b, g)
      BY <2>2, FollowsSound
    <3>2. g \in Bouts
      BY <3>1 DEF Sound
    <3> QED BY <1>0, <3>1, <3>2, StageFaces
  <2>5. /\ c \in Bouts /\ c.f = g.f /\ c.turn = g.turn /\ c.toAct = g.toAct /\ c.over = g.over
        /\ c.winner = g.winner /\ c.timedOut = g.timedOut /\ c.actions = g.actions /\ c.first = g.first
        /\ c.fallen = g.fallen /\ c.arena = a /\ c.arenaOwner = s
    BY <2>1, <2>4 DEF Bouts
  <2> HIDE DEF c
  <2>6. ActiveFace(c, s) = face
    <3>1. ~(Has(g.arena, "imposerKeepsFace") /\ g.arenaOwner # s /\ ~Has(Shown(g.f[s]).face, "arenaImmune"))
      <4> SUFFICES ASSUME Has(g.arena, "imposerKeepsFace") /\ g.arenaOwner # s /\ ~Has(Shown(g.f[s]).face, "arenaImmune")
                   PROVE  FALSE
        OBVIOUS
      <4>1. ActiveFace(g, s) = NoEffect
        BY DEF ActiveFace
      <4> QED BY <4>1, <1>3, <2>4 DEF Has, NoEffect
    <3>2. ~(Has(c.arena, "imposerKeepsFace") /\ c.arenaOwner # s /\ ~Has(Shown(c.f[s]).face, "arenaImmune"))
      BY <2>5
    <3>3. ActiveFace(c, s) = ActiveFace(g, s)
      BY <3>1, <3>2, <2>5 DEF ActiveFace
    <3> QED BY <3>3, <2>4
  <2>7. Doors(c)
    <3> SUFFICES ASSUME NEW k \in DOMAIN c.fallen PROVE Door(c, c.fallen[k])
      BY DEF Doors
    <3>1. c.fallen[k].side = s /\ c.fallen[k] = g.fallen[k] /\ k \in DOMAIN g.fallen
      BY <2>2, <2>5
    <3>2. Door(g, g.fallen[k])
      BY <3>1, <2>4 DEF Sound, Doors
    <3> QED BY <3>1, <3>2, <2>3, <2>4, <2>5, <2>6 DEF Door, Does
  <2>8. Sound(c)
    BY <2>4, <2>5, <2>7 DEF Sound, Standing2
  <2>9. Goes(b, c)
    <3>1. SameClock(b, g)
      BY <2>2 DEF Follows, Stage
    <3> QED BY <3>1, <2>5, <2>8 DEF Goes, SameClock
  <2> QED BY <1>1, <1>2, <2>9
<1>4. CASE ~Has(face, "arenaBecomesMineBelow")
  BY <1>1, <1>2, <1>4
<1> QED BY <1>3, <1>4

\* What a turn begins with.
LEMMA UpkeepGoes ==
  ASSUME NEW b, Sound(b), ~b.over, NEW s \in Sides, NEW luck, LuckOK(luck)
  PROVE  Goes(b, Upkeep(b, s, luck))
<1> DEFINE face == ActiveFace(b, s)
           n == Effect(face, "regen") + Effect(Rule(b.f[s]), "regen")
           burned == Burn(b, s)
           healed == Heal(burned, s, n)
           x == healed.f[s]
           y == Reroll(Swell(x), luck)
           rolled == Put(healed, s, y)
           ready == Seize(rolled, s, face)
           m == IF ready.f[s].charge < 99 THEN ready.f[s].charge + 1 ELSE ready.f[s].charge
           c == [ready EXCEPT !.f[s].charge = m]
<1>1. Upkeep(b, s, luck) = c
  <2>1. ASSUME NEW d PROVE Then(d, LAMBDA u : Heal(u, s, Effect(face, "regen") + Effect(Rule(b.f[s]), "regen"))) = Heal(d, s, n)
    BY Zenon DEF Then
  <2>2. ASSUME NEW d PROVE Then(d, LAMBDA u : Seize(u, s, face)) = Seize(d, s, face)
    BY Zenon DEF Then
  <2>3. [healed EXCEPT !.f[s] = Reroll(Swell(@), luck)] = rolled
    BY DEF Put
  <2> DEFINE up(h) == Then([h EXCEPT !.f[s] = Reroll(Swell(@), luck)], LAMBDA u : Seize(u, s, face))
             last(r) == [r EXCEPT !.f[s].charge = IF @ < 99 THEN @ + 1 ELSE @]
  <2>4. Upkeep(b, s, luck) =
          last(up(Then(burned, LAMBDA u : Heal(u, s, Effect(face, "regen") + Effect(Rule(b.f[s]), "regen")))))
    BY Zenon DEF Upkeep
  <2>5. up(healed) = ready
    BY <2>2, <2>3, Zenon
  <2>6. Then(burned, LAMBDA u : Heal(u, s, Effect(face, "regen") + Effect(Rule(b.f[s]), "regen"))) = healed
    BY <2>1, Zenon
  <2>7. last(ready) = c
    OBVIOUS
  <2> QED BY <2>4, <2>5, <2>6, <2>7, Zenon
<1>2. n \in Nat
  <2>1. Table(face) /\ Table(Rule(b.f[s]))
    BY SoundParts
  <2> QED BY <2>1, EffectNumber
<1> HIDE DEF n
<1>3. b.fallen = <<>>
  BY DEF Sound, Standing2
<1>4. Follows(b, burned) /\ OneFalls(b, burned, s)
  BY BurnSound
<1> HIDE DEF burned
<1>5. Follows(burned, healed) /\ healed.fallen = burned.fallen
  BY <1>2, <1>4, FollowsSound, HealSound, HealFallen
<1> HIDE DEF healed
<1>6. Sound(healed)
  BY <1>5, FollowsSound
<1>7. Right(y) /\ SameFace(x, y) /\ (healed.over \/ y.hp > 0)
  <2>1. Right(x) /\ (healed.over \/ x.hp > 0)
    BY <1>6, SoundParts, LifeLeft
  <2> HIDE DEF x
  <2>2. Right(Swell(x)) /\ SameFace(x, Swell(x)) /\ Swell(x).hp = x.hp
    BY <2>1, SwellRight
  <2>3. Right(y) /\ SameFace(Swell(x), y) /\ (Swell(x).hp > 0 => y.hp > 0)
    BY <2>2, RerollRight
  <2> QED BY <2>1, <2>2, <2>3 DEF SameFace
<1> HIDE DEF y
<1>8. Follows(healed, rolled) /\ rolled.fallen = healed.fallen
  <2>1. healed \in Bouts /\ y \in Combatant
    BY <1>6, <1>7, SoundParts DEF Right
  <2> QED BY <2>1, <1>6, <1>7, PutSound, PutIs
<1> HIDE DEF rolled
<1>9. Follows(b, rolled) /\ Sound(rolled)
  BY <1>4, <1>5, <1>8, Onward, FollowsSound
<1>10. ActiveFace(rolled, s) = face
  <2>1. b \in Bouts /\ rolled \in Bouts /\ Stage(b, rolled)
    BY <1>9, SoundParts, FollowsSound
  <2> QED BY <2>1, StageFaces
<1>11. \A k \in DOMAIN rolled.fallen : rolled.fallen[k].side = s
  <2>1. rolled.fallen = <<>> \/ \E fall \in Fall : fall.side = s /\ rolled.fallen = <<fall>>
    <3>1. CASE burned.fallen = b.fallen
      BY <3>1, <1>3, <1>5, <1>8
    <3>2. CASE \E fall \in Fall : fall.side = s /\ burned.fallen = Append(b.fallen, fall)
      <4>1. PICK fall \in Fall : fall.side = s /\ burned.fallen = Append(b.fallen, fall)
        BY <3>2
      <4>2. rolled.fallen = Append(<<>>, fall)
        BY <4>1, <1>3, <1>5, <1>8
      <4>3. Append(<<>>, fall) = <<fall>>
        OBVIOUS
      <4> QED BY <4>1, <4>2, <4>3
    <3> QED BY <3>1, <3>2, <1>4 DEF OneFalls
  <2> QED BY <2>1
<1>12. Goes(rolled, ready)
  BY <1>9, <1>10, <1>11, SeizeGoes
<1> HIDE DEF ready
<1>13. Follows(ready, c)
  <2>1. Sound(ready)
    BY <1>12 DEF Goes
  <2>2. m \in Int
    BY <2>1, Worths
  <2>3. [amount |-> 0, turns |-> 0] \in [amount : Nat, turns : Int]
    OBVIOUS
  <2> HIDE DEF m
  <2> QED BY <2>1, <2>2, <2>3, ModSound, Zenon
<1> HIDE DEF c
<1>14. Goes(b, rolled)
  BY <1>9, GoesOnward
<1>15. Goes(b, c)
  BY <1>12, <1>13, <1>14, GoesOnward
<1> QED BY <1>1, <1>15

\* The second attack of an afterimage.
LEMMA AfterimageSound ==
  ASSUME NEW b, Sound(b), NEW s \in Sides, NEW luck, LuckOK(luck)
  PROVE  Follows(b, Afterimage(b, s, luck))
<1> DEFINE u == Unflagged(b, s, {"extraTurn", "tookOneThisTurn"})
<1>1. Follows(b, u)
  BY UnflagSound
<1> HIDE DEF u
<1>2. Follows(u, Strike(u, s, luck.hits[2]))
  BY <1>1, FollowsSound, StrikeSound DEF LuckOK
<1>3. Follows(b, Strike(u, s, luck.hits[2])) /\ Follows(b, b)
  BY <1>1, <1>2, Onward, SoundParts
<1> QED BY <1>3 DEF Afterimage, u

\* The action.
LEMMA ChooseGoes ==
  ASSUME NEW b, Sound(b), ~b.over, NEW s \in Sides, NEW action, NEW luck, LuckOK(luck)
  PROVE  Goes(b, Choose(b, s, action, luck))
<1> DEFINE cast == CastRune(b, s, luck)
           flipped == AttemptFlip(b, s, luck)
           both == Strike(flipped, s, luck.hits[1])
           plain == Strike(b, s, luck.hits[1])
           free == Has(Rule(b.f[s]), "freeFlip")
           enough == b.f[s].charge >= RuneCost(b, s)
           done == CASE action = "RUNE" /\ enough -> cast
                     [] action = "FLIP" /\ free -> both
                     [] action = "FLIP" /\ ~free -> flipped
                     [] OTHER -> plain
<1>1. Choose(b, s, action, luck) = Afterimage(done, s, luck)
  <2>1. ASSUME NEW d PROVE Then(d, LAMBDA x : Afterimage(x, s, luck)) = Afterimage(d, s, luck)
    BY Zenon DEF Then
  <2>2. Choose(b, s, action, luck) = Then(done, LAMBDA x : Afterimage(x, s, luck))
    BY Zenon DEF Choose
  <2> QED BY <2>1, <2>2, Zenon
<1>2. Goes(b, cast)
  BY CastSound, GoesOnward
<1>3. Goes(b, plain)
  BY StrikeSound, GoesOnward DEF LuckOK
<1>4. Goes(b, flipped)
  BY FlipGoes
<1> HIDE DEF cast, plain, flipped
<1>5. Goes(b, both)
  <2>1. Follows(flipped, both)
    BY <1>4, StrikeSound DEF LuckOK, Goes
  <2> QED BY <2>1, <1>4, GoesOnward
<1> HIDE DEF both, free, enough
<1>6. Goes(b, done)
  BY <1>2, <1>3, <1>4, <1>5
<1> HIDE DEF done
<1>7. Follows(done, Afterimage(done, s, luck))
  BY <1>6, AfterimageSound DEF Goes
<1> QED BY <1>1, <1>6, <1>7, GoesOnward

\* Another action is counted.
LEMMA CountSound ==
  ASSUME NEW b, Sound(b), NEW n \in Nat
  PROVE  LET c == [b EXCEPT !.actions = n] IN
           Sound(c) /\ c.actions = n /\ c.turn = b.turn /\ c.toAct = b.toAct /\ c.first = b.first /\ c.f = b.f
           /\ c.over = b.over
<1> HIDE DEF Combatant, Arenas, Runes, Fall
<1> DEFINE c == [b EXCEPT !.actions = n]
<1>0. b \in Bouts
  BY DEF Sound
<1>1. /\ c \in Bouts /\ c.f = b.f /\ c.actions = n
      /\ c.turn = b.turn /\ c.toAct = b.toAct /\ c.over = b.over /\ c.winner = b.winner
      /\ c.timedOut = b.timedOut /\ c.arenaOwner = b.arenaOwner /\ c.arena = b.arena
      /\ c.first = b.first /\ c.fallen = b.fallen
  BY <1>0 DEF Bouts
<1> HIDE DEF c
<1>2. \A s \in Sides : ActiveFace(c, s) = ActiveFace(b, s)
  BY <1>1 DEF ActiveFace
<1>3. Doors(c)
  <2> SUFFICES ASSUME NEW k \in DOMAIN c.fallen PROVE Door(c, c.fallen[k])
    BY DEF Doors
  <2>1. b.fallen \in Seq(Fall) /\ k \in DOMAIN b.fallen /\ c.fallen[k] = b.fallen[k]
    BY <1>0, <1>1 DEF Bouts
  <2>2. b.fallen[k] \in Fall
    BY <2>1
  <2>3. b.fallen[k].side \in Sides
    BY <2>2 DEF Fall
  <2>4. Door(b, b.fallen[k])
    BY <2>1 DEF Sound, Doors
  <2> QED BY <2>1, <2>3, <2>4, <1>1, <1>2 DEF Door, Does
<1>4. Sound(c)
  BY <1>1, <1>3 DEF Sound, Standing2
<1> QED BY <1>1, <1>4 DEF c

\* The draws.
LEMMA LuckRight ==
  ASSUME NEW b, NEW luck \in Luck(b)
  PROVE  LuckOK(luck)
<1> DEFINE some(p, values, plain) == IF p THEN values ELSE {plain}
           lamp == Has(Rule(b.f[b.toAct]), "rerollStats")
           hit == [miss : some(Has(b.arena, "missChance"), BOOLEAN, FALSE),
                   pct : some(Has(b.arena, "damageVariance"), {50, 150}, 100)]
           twice == \/ Shown(b.f[b.toAct]).family \in {"Ride", "Runestone"} \/ Does(b, Foe(b.toAct), "staticRune")
                    \/ \E k \in Sides : Has(b.f[b.toAct].cat.forms[k].rule, "doubleTurnAfterFlip")
           others == some(twice, hit, [miss |-> FALSE, pct |-> 100])
           hits == {<<h, g>> : h \in hit, g \in others}
           fails == some(MayFlip(b.f[b.toAct]) /\ b.f[b.toAct].cat.frail, BOOLEAN, FALSE)
           families == some(Does(b, Foe(b.toAct), "staticRune"), Families, "Wealth")
           lamps == [hp : some(lamp, {60, 140}, 100), force : some(lamp, {60, 140}, 100), armor : {100}]
           coins == some(b.turn = TurnLimit, Sides, 1)
<1>1. luck \in [hits : hits, flipFails : fails, family : families, lamp : lamps, coin : coins]
  <2>1. Luck(b) = [hits : hits, flipFails : fails, family : families, lamp : lamps, coin : coins]
    BY DEF Luck
  <2> HIDE DEF hits, fails, families, lamps, coins
  <2> QED BY <2>1
<1>2. \A h \in hit : h.pct \in Nat
  BY DEF hit
<1>3. \A g \in others : g.pct \in Nat
  <2>1. [miss |-> FALSE, pct |-> 100].pct \in Nat
    OBVIOUS
  <2> HIDE DEF hit, twice
  <2> QED BY <2>1, <1>2
<1>4. families \subseteq Families /\ coins \subseteq Sides
  BY DEF Families, Sides
<1>5. \A l \in lamps : l.hp \in Nat /\ l.force \in Nat /\ l.armor \in Nat
  BY DEF lamps
<1> HIDE DEF hit, twice, others
<1>6. ASSUME NEW e \in hits PROVE e[1].pct \in Nat /\ e[2].pct \in Nat
  <2>1. PICK h \in hit, g \in others : e = <<h, g>>
    BY DEF hits
  <2> QED BY <2>1, <1>2, <1>3
<1> HIDE DEF hits, fails, families, lamps, coins
<1>7. luck.hits \in hits /\ luck.family \in families /\ luck.lamp \in lamps /\ luck.coin \in coins
  BY <1>1
<1> QED BY <1>4, <1>5, <1>6, <1>7 DEF LuckOK

\* The clock of a fight: an action each in turn, the first one first.
Counts(b) ==
  /\ b.turn = 1 + b.actions \div 2 /\ b.turn <= TurnLimit
  /\ b.toAct = IF b.actions % 2 = 0 THEN b.first ELSE Foe(b.first)

\* The inductive invariant of a bout: while it is on, all is sound and counted; when it is over, nobody
\* moves any more, and what the end said stays true.
Share(b, s) == b.f[s].hp * b.f[Foe(s)].maxHp
OnTime(b) == b.fallen = <<>> /\ b.winner \in Sides /\ Share(b, b.winner) >= Share(b, Foe(b.winner))
Told(b) == b.fallen # <<>> /\ b.winner \in Sides /\ b.fallen[Len(b.fallen)].side = Foe(b.winner)
BoutInv(b) ==
  /\ b \in Bouts /\ (\A s \in Sides : Right(b.f[s])) /\ Doors(b)
  /\ b.turn <= TurnLimit \/ b.timedOut
  /\ ~b.over => Sound(b) /\ Counts(b)
  /\ b.over => IF b.timedOut THEN OnTime(b) ELSE Told(b)

\* What the side whose turn it is begins with: what it remembers of the other's attack.
LEMMA BegunSound ==
  ASSUME NEW b, Sound(b), NEW s \in Sides, NEW fl \in SUBSET FlagNames, "flipped" \notin fl
  PROVE  LET heard == Unflagged(b, Foe(s), {"missedAgainstMe"}) IN
           Follows(b, [heard EXCEPT !.f[s].flags = (@ \ {"opponentMissed", "tookOneThisTurn"}) \cup fl])
           /\ [heard EXCEPT !.f[s].flags = (@ \ {"opponentMissed", "tookOneThisTurn"}) \cup fl].over = b.over
<1> DEFINE heard == Unflagged(b, Foe(s), {"missedAgainstMe"})
           off == Unflagged(heard, s, {"opponentMissed", "tookOneThisTurn"})
           x == heard.f[s]
           g == (x.flags \ {"opponentMissed", "tookOneThisTurn"}) \cup fl
           y == [x EXCEPT !.flags = g]
<1>1. Follows(b, heard) /\ heard.over = b.over
  <2> DEFINE o == Foe(s)
             u == Unflagged(b, o, {"missedAgainstMe"})
  <2>1. o \in Sides
    BY FoeSide
  <2> HIDE DEF o
  <2>2. Follows(b, u)
    BY <2>1, UnflagSound
  <2>3. u.over = b.over
    <3>1. b \in Bouts
      BY DEF Sound
    <3> HIDE DEF Combatant, Arenas, Runes, Fall
    <3> QED BY <3>1 DEF Unflagged, Bouts
  <2> QED BY <2>2, <2>3 DEF o
<1>2. [heard EXCEPT !.f[s].flags = (@ \ {"opponentMissed", "tookOneThisTurn"}) \cup fl] = Put(heard, s, y)
  BY DEF Put
<1> HIDE DEF heard
<1>3. Sound(heard) /\ Right(x)
  BY <1>1 DEF Follows, Sound
<1>4. x.flags \in SUBSET FlagNames /\ (heard.over \/ x.hp > 0)
  BY <1>3, LifeLeft
<1>5. g \in SUBSET FlagNames /\ ("flipped" \in g <=> "flipped" \in x.flags)
      /\ \A n \in {"stood", "arenaTaken"} : n \in x.flags => n \in g
  BY <1>4
<1> HIDE DEF g
<1>6. Right(y) /\ SameFace(x, y) /\ y.hp = x.hp
  <2> HIDE DEF x
  <2> QED BY <1>3, <1>5, RightFlags
<1> HIDE DEF y
<1>7. Follows(heard, Put(heard, s, y)) /\ Put(heard, s, y).over = heard.over
  <2>1. heard.over \/ y.hp > 0
    BY <1>4, <1>6
  <2> QED BY <2>1, <1>3, <1>6, PutSound
<1> QED BY <1>1, <1>2, <1>7, Onward DEF heard

\* A full turn is two actions.
LEMMA HalfTurn ==
  ASSUME NEW n \in Nat
  PROVE  /\ (n + 1) % 2 = 0 <=> n % 2 # 0
         /\ (n + 1) % 2 = 0 => (n + 1) \div 2 = n \div 2 + 1
         /\ (n + 1) % 2 # 0 => (n + 1) \div 2 = n \div 2
OBVIOUS

\* The other's turn, or time up.
LEMMA PassesRight ==
  ASSUME NEW b, NEW c, Sound(c), NEW coin \in Sides, Counts(b), b \in Bouts,
         c.turn = b.turn, c.toAct = b.toAct, c.first = b.first, c.actions = b.actions + 1
  PROVE  BoutInv(Passes(c, b.toAct, coin))
<1> DEFINE s == b.toAct
           later == c.actions % 2 = 0
           n == IF later THEN c.turn + 1 ELSE c.turn
           next == [c EXCEPT !.toAct = Foe(s), !.turn = n]
<1> HIDE DEF Combatant, Arenas, Runes, Fall
<1>0. /\ c \in Bouts /\ (\A t \in Sides : Right(c.f[t])) /\ Doors(c) /\ ~c.timedOut /\ Standing2(c)
      /\ s \in Sides /\ Foe(s) \in Sides /\ b.first \in Sides /\ b.actions \in Nat /\ b.turn \in Nat
  BY FoeSide DEF Sound, Bouts
<1>1. CASE c.over
  <2>1. Passes(c, s, coin) = c
    BY <1>1 DEF Passes
  <2>2. Told(c)
    BY <1>0, <1>1 DEF Standing2, Told
  <2>3. c.turn <= TurnLimit
    BY DEF Counts
  <2> QED BY <1>0, <1>1, <2>1, <2>2, <2>3 DEF BoutInv
<1>2. CASE ~c.over
  <2>1. n \in Nat /\ next \in Bouts
    <3>1. n \in Nat
      BY <1>0
    <3> HIDE DEF n
    <3> QED BY <1>0, <3>1 DEF Bouts
  <2>2. /\ next.f = c.f /\ next.turn = n /\ next.toAct = Foe(s) /\ next.over = c.over
        /\ next.winner = c.winner /\ next.timedOut = c.timedOut /\ next.fallen = c.fallen
        /\ next.actions = c.actions /\ next.first = c.first
    BY <1>0 DEF Bouts
  <2>3. c.winner = None /\ c.fallen = <<>> /\ \A t \in Sides : c.f[t].hp > 0
    BY <1>0, <1>2 DEF Standing2
  <2>4. Passes(c, s, coin) = IF n > TurnLimit THEN TimeUp(next, coin) ELSE next
    <3>1. Passes(c, s, coin) = IF next.turn > TurnLimit THEN TimeUp(next, coin) ELSE next
      BY <1>2 DEF Passes
    <3> HIDE DEF next
    <3> QED BY <3>1, <2>2
  <2> HIDE DEF next
  <2>5. CASE n > TurnLimit
    <3> DEFINE share(t) == next.f[t].hp * next.f[Foe(t)].maxHp
               w == IF share(1) = share(2) THEN coin ELSE IF share(1) > share(2) THEN 1 ELSE 2
               e == [next EXCEPT !.over = TRUE, !.timedOut = TRUE, !.winner = w]
    <3>1. w \in Sides
      BY DEF Sides
    <3>2. TimeUp(next, coin) = e
      BY DEF TimeUp
    <3>3. share(w) >= share(Foe(w))
      <4>1. \A t \in Sides : next.f[t].hp \in Int /\ next.f[t].maxHp \in Int
        BY <1>0, <2>2 DEF Right, Combatant
      <4>2. 1 \in Sides /\ 2 \in Sides /\ Foe(1) = 2 /\ Foe(2) = 1
        BY DEF Sides, Foe
      <4>3. share(1) \in Int /\ share(2) \in Int
        BY <4>1, <4>2
      <4> HIDE DEF share
      <4>4. coin = 1 \/ coin = 2
        BY DEF Sides
      <4> QED BY <4>2, <4>3, <4>4
    <3> HIDE DEF w
    <3>4. /\ e \in Bouts /\ e.f = next.f /\ e.over /\ e.timedOut /\ e.winner = w /\ e.fallen = next.fallen
      BY <2>1, <3>1 DEF Bouts
    <3> HIDE DEF e
    <3>5. Share(e, w) >= Share(e, Foe(w))
      BY <3>3, <3>4 DEF Share
    <3>6. OnTime(e)
      BY <2>2, <2>3, <3>1, <3>4, <3>5 DEF OnTime
    <3>7. Doors(e)
      <4>1. DOMAIN e.fallen = {}
        BY <2>2, <2>3, <3>4
      <4> QED BY <4>1 DEF Doors
    <3> QED BY <1>0, <2>2, <2>4, <2>5, <3>2, <3>4, <3>6, <3>7 DEF BoutInv
  <2>6. CASE ~(n > TurnLimit)
    <3>1. Doors(next)
      <4>1. DOMAIN next.fallen = {}
        BY <2>2, <2>3
      <4> QED BY <4>1 DEF Doors
    <3>2. Sound(next)
      BY <1>0, <1>2, <2>1, <2>2, <2>3, <3>1 DEF Sound, Standing2
    <3>3. Counts(next)
      <4>1. n = 1 + c.actions \div 2 /\ n <= TurnLimit
        BY <1>0, <2>6, HalfTurn, FightAssumption DEF Counts
      <4>2. Foe(s) = IF c.actions % 2 = 0 THEN c.first ELSE Foe(c.first)
        BY <1>0, HalfTurn, FoeSide DEF Counts
      <4> QED BY <2>2, <4>1, <4>2 DEF Counts
    <3>4. next.turn <= TurnLimit
      BY <3>3 DEF Counts
    <3> QED BY <1>0, <1>2, <2>1, <2>2, <2>4, <2>6, <3>1, <3>2, <3>3, <3>4 DEF BoutInv
  <2> QED BY <2>5, <2>6
<1> QED BY <1>1, <1>2

\* A turn, from what a sound bout is to what the invariant of a bout says.
LEMMA TurnRight ==
  ASSUME NEW b, Sound(b), ~b.over, Counts(b), NEW action, NEW luck, LuckOK(luck)
  PROVE  BoutInv(TakeTurn(b, action, luck))
<1> DEFINE s == b.toAct
           o == Foe(s)
           fl == IF Is(b, o, "missedAgainstMe") THEN {"opponentMissed"} ELSE {}
           heard == Unflagged(b, o, {"missedAgainstMe"})
           begun == [heard EXCEPT !.f[s].flags = (@ \ {"opponentMissed", "tookOneThisTurn"}) \cup fl]
           acts(up) == IF up.over THEN up ELSE Choose(up, s, action, luck)
           acted(x) == IF Is(b, s, "asleep") THEN Wakes(x, s) ELSE Then(Upkeep(x, s, luck), acts)
           turned(x) == IF Is(b, s, "asleep") THEN Wakes(x, s) ELSE acts(Upkeep(x, s, luck))
           count(x) == [x EXCEPT !.actions = @ + 1,
                           !.f[s].flags = (@ \ {"hitLastTurn", "hitThisTurn"})
                                            \cup (IF "hitThisTurn" \in @ THEN {"hitLastTurn"} ELSE {})]
           told(x) == Passes(count(x), s, luck.coin)
<1>0. b \in Bouts /\ s \in Sides /\ o \in Sides /\ luck.coin \in Sides
  BY FoeSide DEF Sound, Bouts, LuckOK
<1>1. TakeTurn(b, action, luck) = told(turned(begun))
  <2>1. TakeTurn(b, action, luck) = Then(Then(begun, acted), told)
    BY Zenon DEF TakeTurn
  <2>3. ASSUME NEW d PROVE Then(d, told) = told(d)
    BY Zenon DEF Then
  <2>4. ASSUME NEW d PROVE Then(d, acts) = acts(d)
    <3> HIDE DEF acts
    <3> QED BY Zenon DEF Then
  <2>5. acted(begun) = turned(begun)
    <3> HIDE DEF acts, begun
    <3> QED BY <2>4, Zenon
  <2> HIDE DEF begun, told
  <2>2. ASSUME NEW d PROVE Then(d, acted) = acted(d)
    <3> HIDE DEF acted
    <3> QED BY Zenon DEF Then
  <2> HIDE DEF acted, turned
  <2> QED BY <2>1, <2>2, <2>3, <2>5, Zenon
<1>2. Goes(b, begun) /\ ~begun.over
  <2>1. fl \in SUBSET FlagNames /\ "flipped" \notin fl
    BY DEF FlagNames
  <2> HIDE DEF fl
  <2>2. Follows(b, begun) /\ begun.over = b.over
    BY <1>0, <2>1, BegunSound
  <2> HIDE DEF begun
  <2> QED BY <2>2, GoesOnward
<1> HIDE DEF begun
<1>3. Goes(b, turned(begun))
  <2>1. Sound(begun)
    BY <1>2 DEF Goes
  <2>2. Goes(begun, Wakes(begun, s))
    BY <1>0, <1>2, <2>1, WakesGoes
  <2> DEFINE up == Upkeep(begun, s, luck)
  <2>3. Goes(begun, up)
    BY <1>0, <1>2, <2>1, UpkeepGoes
  <2> HIDE DEF up
  <2>4. Goes(begun, acts(up))
    <3>1. CASE up.over
      BY <2>3, <3>1
    <3>2. CASE ~up.over
      <4>1. Goes(up, Choose(up, s, action, luck))
        BY <1>0, <2>3, <3>2, ChooseGoes DEF Goes
      <4> QED BY <2>3, <3>2, <4>1, GoesOnward
    <3> QED BY <3>1, <3>2
  <2>5. turned(begun) = Wakes(begun, s) \/ turned(begun) = acts(up)
    BY Zenon DEF up
  <2> HIDE DEF turned, acts
  <2> QED BY <1>2, <2>2, <2>4, <2>5, GoesOnward
<1> DEFINE x == turned(begun)
           g == (x.f[s].flags \ {"hitLastTurn", "hitThisTurn"})
                  \cup (IF "hitThisTurn" \in x.f[s].flags THEN {"hitLastTurn"} ELSE {})
           y == [x.f[s] EXCEPT !.flags = g]
           p == Put(x, s, y)
<1>4. count(x) = [p EXCEPT !.actions = x.actions + 1]
  <2> HIDE DEF turned
  <2>1. Sound(x)
    BY <1>3 DEF Goes
  <2> HIDE DEF x
  <2>2. x \in Bouts
    BY <2>1 DEF Sound
  <2> HIDE DEF Combatant, Arenas, Runes, Fall
  <2> QED BY <2>2 DEF Put, Bouts
<1> HIDE DEF turned
<1>5. Sound(x) /\ x.turn = b.turn /\ x.toAct = b.toAct /\ x.first = b.first /\ x.actions = b.actions
  BY <1>3 DEF Goes, SameClock
<1> HIDE DEF x
<1>6. Follows(x, p)
  <2>1. Right(x.f[s]) /\ x.f[s].flags \in SUBSET FlagNames /\ (x.over \/ x.f[s].hp > 0)
    BY <1>0, <1>5, LifeLeft DEF Sound
  <2>2. g \in SUBSET FlagNames /\ ("flipped" \in g <=> "flipped" \in x.f[s].flags)
        /\ \A n \in {"stood", "arenaTaken"} : n \in x.f[s].flags => n \in g
    BY <2>1 DEF FlagNames
  <2> HIDE DEF g
  <2>3. Right(y) /\ SameFace(x.f[s], y) /\ y.hp = x.f[s].hp
    <3> DEFINE z == x.f[s]
    <3>1. Right(z)
      BY <2>1
    <3>2. ("flipped" \in g <=> "flipped" \in z.flags)
          /\ \A n \in {"stood", "arenaTaken"} : n \in z.flags => n \in g
      BY <2>2
    <3> HIDE DEF z
    <3>3. Right([z EXCEPT !.flags = g]) /\ SameFace(z, [z EXCEPT !.flags = g]) /\ [z EXCEPT !.flags = g].hp = z.hp
      BY <2>2, <3>1, <3>2, RightFlags
    <3> QED BY <3>3 DEF z
  <2> HIDE DEF y
  <2>4. x.over \/ y.hp > 0
    BY <2>1, <2>3
  <2> QED BY <1>0, <1>5, <2>3, <2>4, PutSound
<1> HIDE DEF g, y, p
<1> DEFINE c == [p EXCEPT !.actions = x.actions + 1]
<1>7. Sound(p) /\ p.turn = b.turn /\ p.toAct = b.toAct /\ p.first = b.first /\ x.actions = b.actions
  BY <1>5, <1>6 DEF Follows, Stage, SameClock
<1>8. b.actions + 1 \in Nat
  BY <1>0 DEF Bouts
<1>9. Sound(c) /\ c.turn = b.turn /\ c.toAct = b.toAct /\ c.first = b.first /\ c.actions = b.actions + 1
  <2> DEFINE n == b.actions + 1
  <2>1. n \in Nat /\ c = [p EXCEPT !.actions = n] /\ Sound(p)
    BY <1>7, <1>8
  <2> HIDE DEF n, c
  <2>2. Sound([p EXCEPT !.actions = n]) /\ [p EXCEPT !.actions = n].actions = n
        /\ [p EXCEPT !.actions = n].turn = p.turn /\ [p EXCEPT !.actions = n].toAct = p.toAct
        /\ [p EXCEPT !.actions = n].first = p.first
    BY <2>1, CountSound
  <2> QED BY <1>7, <2>1, <2>2 DEF n
<1> HIDE DEF c
<1>10. BoutInv(Passes(c, s, luck.coin))
  BY <1>0, <1>9, PassesRight
<1>11. TakeTurn(b, action, luck) = Passes(c, s, luck.coin)
  <2>1. count(x) = c
    BY <1>4 DEF c
  <2>2. TakeTurn(b, action, luck) = told(x)
    BY <1>1 DEF x
  <2> HIDE DEF count
  <2> QED BY <2>1, <2>2
<1> QED BY <1>10, <1>11

\* The page of a fight: the bot's timer is set once, and its mark says so.
Pages ==
  [timers : {0, 1}, botPending : BOOLEAN, telegraphed : BOOLEAN, told : BOOLEAN,
   move : {None, "CLAW", "RUNE", "FLIP"}, ended : Seq(BOOLEAN)]
PageInv(p) == p \in Pages /\ p.botPending = (p.timers = 1)
FightInv == BoutInv(bout) /\ PageInv(page)

\* What the page is told of the falls is a sequence of answers.
LEMMA EndedSeq ==
  ASSUME NEW b \in Bouts, NEW c \in Bouts
  PROVE  Ended(b, c) \in Seq(BOOLEAN)
<1>1. Len(b.fallen) \in Nat /\ Len(c.fallen) \in Nat
  BY DEF Bouts
<1> DEFINE m == Len(b.fallen)
           n == Len(c.fallen) - m
           e == [k \in 1 .. n |-> c.fallen[m + k].side = 2]
<1>2. Ended(b, c) = e
  BY DEF Ended
<1>3. n \in Int
  BY <1>1
<1>4. \A k \in 1 .. n : (c.fallen[m + k].side = 2) \in BOOLEAN
  BY Zenon
<1> HIDE DEF n, m
<1>5. CASE n >= 0
  <2>1. n \in Nat
    BY <1>3, <1>5
  <2>2. e \in [1 .. n -> BOOLEAN]
    BY <1>4
  <2> HIDE DEF e
  <2> QED BY <1>2, <2>1, <2>2, IsASeq
<1>6. CASE n < 0
  <2>1. 1 .. n = 1 .. 0
    BY <1>3, <1>6
  <2>2. e \in [1 .. 0 -> BOOLEAN]
    BY <1>4, <2>1
  <2> HIDE DEF e
  <2> QED BY <1>2, <2>2, IsASeq
<1> QED BY <1>3, <1>5, <1>6

\* The timer is set when it is not.
LEMMA ScheduleRight ==
  ASSUME NEW p, PageInv(p)
  PROVE  PageInv(ScheduleBot(p))
<1>1. CASE p.botPending
  BY <1>1 DEF ScheduleBot
<1>2. CASE ~p.botPending
  <2>1. p \in Pages /\ p.timers = 0
    BY <1>2 DEF PageInv, Pages
  <2> DEFINE q == [p EXCEPT !.timers = 1, !.botPending = TRUE]
  <2>2. ScheduleBot(p) = q
    BY <1>2, <2>1 DEF ScheduleBot, Pages
  <2>3. q \in Pages /\ q.botPending = TRUE /\ q.timers = 1
    BY <2>1 DEF Pages
  <2> HIDE DEF q
  <2> QED BY <2>2, <2>3 DEF PageInv
<1> QED BY <1>1, <1>2

\* What the page keeps besides the timer may be anything it keeps.
LEMMA NotedRight ==
  ASSUME NEW p \in Pages, NEW e \in Seq(BOOLEAN), NEW v \in BOOLEAN, NEW m \in {None, "CLAW", "RUNE", "FLIP"}
  PROVE  /\ [p EXCEPT !.ended = e] \in Pages
         /\ [p EXCEPT !.ended = e].timers = p.timers /\ [p EXCEPT !.ended = e].botPending = p.botPending
         /\ PageInv([p EXCEPT !.timers = 0, !.botPending = FALSE])
         /\ PageInv([p EXCEPT !.timers = 0, !.botPending = FALSE, !.telegraphed = TRUE, !.told = TRUE])
         /\ PageInv([p EXCEPT !.timers = 0, !.botPending = FALSE, !.ended = e, !.told = FALSE, !.move = m])
<1> DEFINE q == [p EXCEPT !.ended = e]
           r == [p EXCEPT !.timers = 0, !.botPending = FALSE]
           t == [p EXCEPT !.timers = 0, !.botPending = FALSE, !.telegraphed = TRUE, !.told = TRUE]
           u == [p EXCEPT !.timers = 0, !.botPending = FALSE, !.ended = e, !.told = FALSE, !.move = m]
<1>1. q \in Pages /\ q.timers = p.timers /\ q.botPending = p.botPending
  BY DEF Pages
<1>2. r \in Pages /\ r.timers = 0 /\ ~r.botPending
  BY DEF Pages
<1>3. t \in Pages /\ t.timers = 0 /\ ~t.botPending
  BY DEF Pages
<1>4. u \in Pages /\ u.timers = 0 /\ ~u.botPending
  BY DEF Pages
<1> HIDE DEF q, r, t, u
<1>5. r.botPending = (r.timers = 1) /\ t.botPending = (t.timers = 1) /\ u.botPending = (u.timers = 1)
  BY <1>2, <1>3, <1>4 DEF Pages
<1> QED BY <1>1, <1>2, <1>3, <1>4, <1>5 DEF PageInv, q, r, t, u

\* A fighter at the start.
LEMMA FighterRight ==
  ASSUME NEW c \in Cats, NEW fl \in SUBSET {"asleep", "forceMiss"}, NEW n \in {0, 99}
  PROVE  LET x == [CreateFighter(c) EXCEPT !.flags = fl, !.charge = n] IN
           Right(x) /\ x.hp > 0 /\ CreateFighter(c) \in Combatant
<1> DEFINE x == [CreateFighter(c) EXCEPT !.flags = fl, !.charge = n]
           f == c.forms[1]
           max == Percent(f.hp, c.scale)
<1>0. 1 \in Sides /\ fl \in SUBSET FlagNames /\ "flipped" \notin fl
  BY DEF Sides, FlagNames
<1>1. /\ c.catnip \in Nat /\ f.hp \in Nat /\ f.force \in Nat /\ f.armor \in Nat /\ c.scale \in Nat
      /\ max > 0
  BY <1>0, CatNumbers
<1>2. max \in Nat
  BY <1>1, PercentNumber
<1> DEFINE z == CreateFighter(c)
<1>3. BaseArmor(f) \in Nat
  <2> HIDE DEF f
  <2> QED BY <1>1 DEF BaseArmor, MuteArmor
<1> DEFINE a == BaseArmor(f)
           u == [amount |-> 0, turns |-> 0]
<1>4. z = [cat |-> c, form |-> 1, catnip |-> c.catnip, hp |-> max, maxHp |-> max,
           force |-> f.force, armor |-> a, forceMod |-> 0, armorMod |-> 0,
           charge |-> 0, copied |-> None, awake |-> 0, burn |-> u, flags |-> {}]
  BY DEF CreateFighter
<1>5. u \in [amount : Nat, turns : Int] /\ a \in Nat
  BY <1>3
<1> HIDE DEF z, a, max, u, f
<1>6. z \in Combatant
  <2> HIDE DEF Cats, Masks, FlagNames, Sides
  <2> QED BY <1>0, <1>1, <1>2, <1>4, <1>5 DEF Combatant
<1>7. z.cat = c /\ z.form = 1 /\ z.catnip = c.catnip /\ z.hp = max /\ z.maxHp = max /\ z.force = f.force /\ z.armor = a
  BY <1>4
<1>8. x = [z EXCEPT !.flags = fl, !.charge = n]
  BY DEF z
<1> HIDE DEF x
<1>9. /\ x \in Combatant /\ x.cat = z.cat /\ x.form = z.form /\ x.catnip = z.catnip /\ x.hp = z.hp
      /\ x.maxHp = z.maxHp /\ x.force = z.force /\ x.armor = z.armor /\ x.flags = fl
  <2>1. n \in Int
    OBVIOUS
  <2> HIDE DEF Cats, Masks, FlagNames, Sides
  <2> QED BY <1>0, <1>6, <1>8, <2>1 DEF Combatant
<1>10. Shown(x) = f /\ x.cat = c /\ x.form = 1 /\ x.catnip = c.catnip /\ x.flags = fl
      /\ x.hp = max /\ x.maxHp = max /\ x.force = f.force /\ x.armor = a
  BY <1>7, <1>9 DEF Shown, f
<1>11. TrueForm(x)
  <2>1. c.catnip - 0 = c.catnip
    BY <1>1
  <2>2. max = Percent(f.hp, c.scale) /\ a = BaseArmor(f)
    BY DEF max, a
  <2> QED BY <1>0, <2>1, <2>2, <1>10 DEF TrueForm
<1>12. 0 <= max /\ max <= max
  BY <1>2
<1> QED BY <1>1, <1>2, <1>6, <1>9, <1>10, <1>11, <1>12 DEF Right, x, z

\* Two of them, one a side.
LEMMA TwoSides ==
  ASSUME NEW S, NEW v \in S, NEW w \in S
  PROVE  <<v, w>> \in [Sides -> S] /\ <<v, w>>[1] = v /\ <<v, w>>[2] = w
<1>1. <<v, w>> \in [1 .. 2 -> S] /\ <<v, w>>[1] = v /\ <<v, w>>[2] = w
  OBVIOUS
<1>2. 1 .. 2 = Sides
  BY DEF Sides
<1> QED BY <1>1, <1>2

\* The start of a fight.
LEMMA StartRight ==
  ASSUME NEW c \in Cats, NEW d \in Cats, NEW first \in Sides
  PROVE  LET b == StartFight(CreateFighter(c), CreateFighter(d), first) IN
           BoutInv(b) /\ b.first = first
<1> DEFINE x == CreateFighter(c)
           y == CreateFighter(d)
           arena == Shown(<<x, y>>[first]).background
           b == [f |-> <<x, y>>, turn |-> 1, toAct |-> first, over |-> FALSE, winner |-> None, timedOut |-> FALSE,
                 arenaOwner |-> first, arena |-> arena, lastRune |-> None,
                 actions |-> 0, first |-> first, fallen |-> <<>>, missed |-> <<FALSE, FALSE>>]
           flags(s) == (IF Does(b, s, "skipTurn1") THEN {"asleep"} ELSE {})
                         \cup (IF \E t \in Sides : Does(b, t, "bothMissFirst") THEN {"forceMiss"} ELSE {})
           charge(s) == IF Has(Rule(b.f[s]), "firstRuneFree") THEN 99 ELSE 0
           v == [x EXCEPT !.flags = flags(1), !.charge = charge(1)]
           w == [y EXCEPT !.flags = flags(2), !.charge = charge(2)]
           e == [b EXCEPT !.f = <<v, w>>]
<1>1. StartFight(x, y, first) = e
  <2>1. b.f[1] = x /\ b.f[2] = y
    OBVIOUS
  <2> QED BY <2>1 DEF StartFight
<1>2. \A s \in Sides : flags(s) \in SUBSET {"asleep", "forceMiss"} /\ charge(s) \in {0, 99}
  OBVIOUS
<1>3. Sides = {1, 2}
  BY DEF Sides
<1>4. arena \in Arenas
  <2>1. x.cat = c /\ y.cat = d /\ x.form = 1 /\ y.form = 1
    BY DEF CreateFighter
  <2> HIDE DEF x, y
  <2>2. arena = c.forms[1].background \/ arena = d.forms[1].background
    <3>1. <<x, y>>[first] = x \/ <<x, y>>[first] = y
      BY <1>3
    <3> QED BY <2>1, <3>1 DEF Shown
  <2> QED BY <1>3, <2>2 DEF Arenas
<1>5. Right(v) /\ v.hp > 0 /\ Right(w) /\ w.hp > 0
  <2>1. flags(1) \in SUBSET {"asleep", "forceMiss"} /\ charge(1) \in {0, 99}
        /\ flags(2) \in SUBSET {"asleep", "forceMiss"} /\ charge(2) \in {0, 99}
    BY <1>2, <1>3
  <2> DEFINE g == flags(1)
             h == flags(2)
             m == charge(1)
             n == charge(2)
  <2>2. v = [CreateFighter(c) EXCEPT !.flags = g, !.charge = m]
        /\ w = [CreateFighter(d) EXCEPT !.flags = h, !.charge = n]
    OBVIOUS
  <2> HIDE DEF v, w, b
  <2>3. g \in SUBSET {"asleep", "forceMiss"} /\ m \in {0, 99} /\ h \in SUBSET {"asleep", "forceMiss"} /\ n \in {0, 99}
    BY <2>1
  <2> HIDE DEF g, h, m, n
  <2> QED BY <2>2, <2>3, FighterRight
<1>6. x \in Combatant /\ y \in Combatant
  <2>1. ASSUME NEW k \in Cats PROVE CreateFighter(k) \in Combatant
    <3>1. {} \in SUBSET {"asleep", "forceMiss"} /\ 0 \in {0, 99}
      OBVIOUS
    <3> QED BY <3>1, FighterRight
  <2> QED BY <2>1
<1> HIDE DEF v, w, arena, x, y
<1>7. b \in Bouts
  <2> HIDE DEF Combatant, Arenas, Fall
  <2>2. <<x, y>> \in [Sides -> Combatant] /\ <<FALSE, FALSE>> \in [Sides -> BOOLEAN]
    BY <1>6, TwoSides
  <2>3. None \in Runes /\ <<>> \in Seq(Fall)
    BY DEF Runes
  <2> HIDE DEF Runes
  <2>4. 1 \in Nat /\ 0 \in Nat /\ FALSE \in BOOLEAN
    OBVIOUS
  <2> QED BY <1>4, <2>2, <2>3, <2>4 DEF Bouts
<1>8. /\ e \in Bouts /\ e.f[1] = v /\ e.f[2] = w
      /\ e.fallen = <<>> /\ ~e.over /\ ~e.timedOut /\ e.winner = None /\ e.turn = 1 /\ e.actions = 0
      /\ e.first = first /\ e.toAct = first
  <2> DEFINE g == <<v, w>>
  <2>1. g \in [Sides -> Combatant] /\ g[1] = v /\ g[2] = w
    BY <1>5, TwoSides DEF Right
  <2>2. b.fallen = <<>> /\ ~b.over /\ ~b.timedOut /\ b.winner = None /\ b.turn = 1 /\ b.actions = 0
        /\ b.first = first /\ b.toAct = first
    OBVIOUS
  <2> HIDE DEF b, g, Combatant, Arenas, Fall, Runes
  <2> QED BY <1>7, <2>1, <2>2 DEF Bouts, g
<1> HIDE DEF e, b
<1>9. e.fallen = <<>> /\ ~e.over /\ ~e.timedOut /\ e.winner = None /\ e.turn = 1 /\ e.actions = 0
      /\ e.first = first /\ e.toAct = first
  BY <1>8
<1>10. \A s \in Sides : Right(e.f[s]) /\ e.f[s].hp > 0
  BY <1>3, <1>5, <1>8
<1>11. Doors(e)
  <2>1. DOMAIN e.fallen = {}
    BY <1>9
  <2> QED BY <2>1 DEF Doors
<1>12. Counts(e)
  BY <1>9, FightAssumption DEF Counts
<1>13. Sound(e)
  BY <1>8, <1>9, <1>10, <1>11 DEF Sound, Standing2
<1>14. e.turn <= TurnLimit
  BY <1>12 DEF Counts
<1> QED BY <1>1, <1>8, <1>9, <1>10, <1>11, <1>12, <1>13, <1>14 DEF BoutInv, x, y

\* The draw of who begins is a side.
LEMMA InitiativeSide ==
  ASSUME NEW x, NEW y
  PROVE  Initiative(x, y) \subseteq Sides
<1> DEFINE differ(p(_)) == p(x) # p(y)
           never(c) == Has(Rule(c), "neverFirst")
           first(c) == Has(Shown(c).face, "alwaysFirst")
           tuned(c) == Shown(c).tuned
           n == IF never(x) THEN 2 ELSE 1
           a == IF first(x) THEN 1 ELSE 2
           t == IF tuned(x) THEN 1 ELSE 2
           h == IF x.maxHp < y.maxHp THEN 1 ELSE 2
<1>1. Initiative(x, y) \in {{n}, {a}, {t}, {h}, Sides}
  <2>1. Initiative(x, y) = IF differ(never) THEN {n} ELSE IF differ(first) THEN {a} ELSE IF differ(tuned) THEN {t}
                           ELSE IF x.maxHp # y.maxHp THEN {h} ELSE Sides
    BY Zenon DEF Initiative
  <2> HIDE DEF differ, n, a, t, h
  <2> QED BY <2>1, Zenon
<1>2. n \in Sides /\ a \in Sides /\ t \in Sides /\ h \in Sides
  BY DEF Sides
<1> HIDE DEF n, a, t, h
<1> QED BY <1>1, <1>2

\* A fight begins as its invariant says.
LEMMA FightBegins == FightInit => FightInv
<1> SUFFICES ASSUME FightInit PROVE FightInv
  OBVIOUS
<1>1. PICK pair \in Pairs, first \in Sides :
        bout = StartFight(CreateFighter(pair[1]), CreateFighter(pair[2]), first)
  BY InitiativeSide DEF FightInit
<1>2. pair[1] \in Cats /\ pair[2] \in Cats
  BY DEF Cats, Sides
<1>3. BoutInv(bout)
  <2> DEFINE c == pair[1]
             d == pair[2]
  <2>1. c \in Cats /\ d \in Cats /\ bout = StartFight(CreateFighter(c), CreateFighter(d), first)
    BY <1>1, <1>2
  <2> HIDE DEF c, d
  <2>2. BoutInv(StartFight(CreateFighter(c), CreateFighter(d), first))
    BY <2>1, StartRight, Zenon
  <2> QED BY <2>1, <2>2
<1> DEFINE idle == [timers |-> 0, botPending |-> FALSE, telegraphed |-> FALSE, told |-> FALSE,
                    move |-> None, ended |-> <<>>]
<1>4. PageInv(idle)
  <2>1. <<>> \in Seq(BOOLEAN)
    OBVIOUS
  <2>2. idle \in Pages /\ ~idle.botPending /\ idle.timers = 0
    BY <2>1 DEF Pages
  <2> HIDE DEF idle
  <2>3. idle.botPending = (idle.timers = 1)
    BY <2>2 DEF Pages
  <2> QED BY <2>2, <2>3 DEF PageInv
<1>5. page = (IF bout.first = 2 THEN ScheduleBot(idle) ELSE idle)
  BY DEF FightInit
<1> HIDE DEF idle
<1>6. PageInv(page)
  BY <1>4, <1>5, ScheduleRight
<1> QED BY <1>3, <1>6 DEF FightInv

\* The player's action keeps the invariant.
LEMMA MoveKeeps ==
  ASSUME FightInv, NEW action, PlayerMove(action)
  PROVE  FightInv'
<1>1. PICK luck \in Luck(bout) :
        /\ bout' = TakeTurn(bout, action, luck)
        /\ LET p == [page EXCEPT !.ended = @ \o Ended(bout, bout')]
           IN page' = IF bout'.over THEN p ELSE ScheduleBot(p)
  BY DEF PlayerMove
<1>2. ~bout.over /\ Sound(bout) /\ Counts(bout)
  BY DEF PlayerMove, FightInv, BoutInv
<1>3. LuckOK(luck)
  BY LuckRight
<1>4. BoutInv(bout')
  BY <1>1, <1>2, <1>3, TurnRight
<1>5. bout \in Bouts /\ bout' \in Bouts
  BY <1>4 DEF FightInv, BoutInv
<1> DEFINE e == page.ended \o Ended(bout, bout')
           p == [page EXCEPT !.ended = e]
<1>6. page \in Pages /\ PageInv(page)
  BY DEF FightInv, PageInv
<1>7. e \in Seq(BOOLEAN)
  <2>1. page.ended \in Seq(BOOLEAN) /\ Ended(bout, bout') \in Seq(BOOLEAN)
    BY <1>5, <1>6, EndedSeq DEF Pages
  <2> QED BY <2>1
<1>8. page' = IF bout'.over THEN p ELSE ScheduleBot(p)
  BY <1>1
<1> HIDE DEF e
<1>9. PageInv(p)
  BY <1>6, <1>7, NotedRight DEF PageInv
<1> HIDE DEF p
<1>10. PageInv(page')
  BY <1>8, <1>9, ScheduleRight
<1> QED BY <1>4, <1>10 DEF FightInv

\* So does the bot's timer.
LEMMA BotKeeps ==
  ASSUME FightInv, BotTurn
  PROVE  FightInv'
<1> DEFINE fired == [page EXCEPT !.timers = @ - 1, !.botPending = FALSE]
           fine == [page EXCEPT !.timers = 0, !.botPending = FALSE]
           x == bout.f[2]
           move == IF WantFlip(x) THEN "FLIP" ELSE IF x.charge >= RuneCost(bout, 2) THEN "RUNE" ELSE "CLAW"
<1>1. page \in Pages /\ page.timers = 1 /\ BoutInv(bout)
  BY DEF FightInv, PageInv, Pages, BotTurn
<1>2. fired = fine
  BY <1>1
<1>3. <<>> \in Seq(BOOLEAN) /\ FALSE \in BOOLEAN /\ None \in {None, "CLAW", "RUNE", "FLIP"}
  OBVIOUS
<1>4. CASE page' = fired /\ UNCHANGED bout
  <2>1. PageInv(fine)
    BY <1>1, <1>3, NotedRight
  <2> HIDE DEF fired, fine
  <2> QED BY <1>1, <1>2, <1>4, <2>1 DEF FightInv
<1>5. CASE page' = ScheduleBot([fired EXCEPT !.telegraphed = TRUE, !.told = TRUE]) /\ UNCHANGED bout
  <2> DEFINE q == [page EXCEPT !.timers = 0, !.botPending = FALSE, !.telegraphed = TRUE, !.told = TRUE]
  <2>1. PageInv(q)
    BY <1>1, <1>3, NotedRight
  <2>2. [fired EXCEPT !.telegraphed = TRUE, !.told = TRUE] = q
    BY <1>1, <1>2 DEF Pages
  <2> HIDE DEF q, fired
  <2>3. PageInv(ScheduleBot(q))
    BY <2>1, ScheduleRight
  <2> QED BY <1>1, <1>5, <2>2, <2>3 DEF FightInv
<1>6. ASSUME ~bout.over, NEW luck \in Luck(bout), bout' = TakeTurn(bout, move, luck),
             page' = [fired EXCEPT !.ended = @ \o Ended(bout, bout'), !.told = FALSE, !.move = move]
      PROVE  FightInv'
  <2>1. Sound(bout) /\ Counts(bout)
    BY <1>1, <1>6 DEF BoutInv
  <2>2. LuckOK(luck)
    BY LuckRight
  <2>3. move \in {None, "CLAW", "RUNE", "FLIP"}
    OBVIOUS
  <2> HIDE DEF move
  <2>4. BoutInv(bout')
    BY <1>6, <2>1, <2>2, TurnRight
  <2>5. bout \in Bouts /\ bout' \in Bouts
    BY <1>1, <2>4 DEF BoutInv
  <2> DEFINE e == page.ended \o Ended(bout, bout')
             u == [page EXCEPT !.timers = 0, !.botPending = FALSE, !.ended = e, !.told = FALSE, !.move = move]
  <2>6. e \in Seq(BOOLEAN)
    <3>1. page.ended \in Seq(BOOLEAN) /\ Ended(bout, bout') \in Seq(BOOLEAN)
      BY <1>1, <2>5, EndedSeq DEF Pages
    <3> QED BY <3>1
  <2>7. page' = u
    <3>1. fine.ended = page.ended
      BY <1>1 DEF Pages
    <3>2. page' = [fine EXCEPT !.ended = e, !.told = FALSE, !.move = move]
      BY <1>2, <1>6, <3>1
    <3> HIDE DEF e
    <3> QED BY <1>1, <3>2 DEF Pages
  <2> HIDE DEF e
  <2>8. PageInv(u)
    BY <1>1, <1>3, <2>3, <2>6, NotedRight
  <2> HIDE DEF u
  <2> QED BY <2>4, <2>7, <2>8 DEF FightInv
<1>7. \/ page' = fired /\ UNCHANGED bout
      \/ page' = ScheduleBot([fired EXCEPT !.telegraphed = TRUE, !.told = TRUE]) /\ UNCHANGED bout
      \/ ~bout.over /\ \E luck \in Luck(bout) :
           /\ bout' = TakeTurn(bout, move, luck)
           /\ page' = [fired EXCEPT !.ended = @ \o Ended(bout, bout'), !.told = FALSE, !.move = move]
  BY Zenon DEF BotTurn
<1> HIDE DEF fired, move
<1> QED BY <1>4, <1>5, <1>6, <1>7

\* The inductive invariant says what is claimed of a fight.
LEMMA FightInvSays == FightInv => FightSound
<1> SUFFICES ASSUME FightInv PROVE FightSound
  OBVIOUS
<1>0. BoutInv(bout) /\ PageInv(page) /\ bout \in Bouts
  BY DEF FightInv, BoutInv
<1>1. \A s \in Sides : Right(bout.f[s])
  BY <1>0 DEF BoutInv
<1>2. ~bout.over => bout.winner = None /\ bout.fallen = <<>> /\ \A s \in Sides : bout.f[s].hp > 0
  BY <1>0 DEF BoutInv, Sound, Standing2
<1>3. bout.over => bout.winner \in Sides
  BY <1>0 DEF BoutInv, OnTime, Told
<1>4. FightTypeOK
  <2>1. ASSUME NEW s \in Sides PROVE bout.f[s].hp \in 0 .. bout.f[s].maxHp /\ bout.f[s].catnip \in Nat
    BY <1>1 DEF Right, Combatant
  <2>2. bout.winner \in Sides \cup {None} /\ bout.toAct \in Sides /\ page.timers \in 0 .. 1
        /\ page.botPending = (page.timers = 1)
    BY <1>0 DEF Bouts, PageInv, Pages
  <2> QED BY <2>1, <2>2 DEF FightTypeOK
<1>5. Decided
  <2>1. ~bout.over => /\ bout.turn = 1 + bout.actions \div 2
                      /\ bout.toAct = IF bout.actions % 2 = 0 THEN bout.first ELSE Foe(bout.first)
    BY <1>0 DEF BoutInv, Counts
  <2>2. bout.turn <= TurnLimit \/ bout.timedOut
    BY <1>0 DEF BoutInv
  <2>3. bout.over /\ bout.timedOut =>
          bout.fallen = <<>> /\ Share(bout, bout.winner) >= Share(bout, Foe(bout.winner))
    BY <1>0 DEF BoutInv, OnTime
  <2>4. bout.over /\ ~bout.timedOut => bout.fallen # <<>> /\ bout.fallen[Len(bout.fallen)].side = Foe(bout.winner)
    BY <1>0 DEF BoutInv, Told
  <2> QED BY <1>2, <2>1, <2>2, <2>3, <2>4 DEF Decided, Share
<1>6. FormsRight
  BY <1>1 DEF FormsRight, Right, TrueForm
<1>7. DoorsHeld
  BY <1>0 DEF BoutInv, Doors, Door, DoorsHeld
<1> QED BY <1>4, <1>5, <1>6, <1>7 DEF FightSound

\* The inductive invariant of a fight and its page (combat.js:216-447, adventure-game.js): a bout that is on is
\* sound, its clock counts its actions, and one that is over moves no more; the bot's timer is set once.
THEOREM FightInvariant == FightSpec => []FightInv
<1>1. FightInit => FightInv
  BY FightBegins
<1>2. FightInv /\ [FightNext]_fightVars => FightInv'
  <2> SUFFICES ASSUME FightInv, [FightNext]_fightVars PROVE FightInv'
    OBVIOUS
  <2>1. CASE BotTurn
    BY <2>1, BotKeeps
  <2>2. ASSUME NEW action \in {"CLAW", "RUNE", "FLIP"}, PlayerMove(action) PROVE FightInv'
    BY <2>2, MoveKeeps
  <2>3. CASE UNCHANGED fightVars
    BY <2>3 DEF fightVars, FightInv
  <2> QED BY <2>1, <2>2, <2>3 DEF FightNext
<1> QED BY <1>1, <1>2, PTL DEF FightSpec

\* A fight is decided as its rules say, for every two cats, horizon and draw (combat.js:216-447).
THEOREM FightIsSound == FightSpec => []FightSound
<1>1. FightSpec => []FightInv
  BY FightInvariant
<1>2. FightInv => FightSound
  BY FightInvSays
<1> QED BY <1>1, <1>2, PTL

(***************************************************************************)
(* The vivarium.                                                            *)
(***************************************************************************)

\* Who lives in a list of creatures.
Survivors(s) == {i \in DOMAIN s : s[i].alive}

\* They are finitely many, at places of the list.
LEMMA LivingFinite ==
  ASSUME NEW T, NEW s \in Seq(T)
  PROVE  /\ IsFiniteSet(Survivors(s)) /\ Cardinality(Survivors(s)) \in Nat
         /\ Survivors(s) \subseteq 1 .. Len(s)
<1>1. IsFiniteSet(1 .. Len(s)) /\ Survivors(s) \subseteq 1 .. Len(s)
  BY FS_Interval DEF Survivors
<1> QED BY <1>1, FS_Subset, FS_CardinalityType

\* What is left of a list without its dead is of its type, all alive, and as many as lived.
LEMMA AliveIs ==
  ASSUME NEW T, NEW s \in Seq(T)
  PROVE  /\ Alive(s) \in Seq(T)
         /\ Len(Alive(s)) = Cardinality(Survivors(s))
         /\ \A i \in DOMAIN Alive(s) : Alive(s)[i].alive
<1> DEFINE V == Seq(T)
           last == Len(s)
           step == [n \in 1 .. last |-> [v \in V |-> IF s[n].alive THEN Append(v, s[n]) ELSE v]]
           D(f, n) == IF n = 0 THEN <<>> ELSE IF s[n].alive THEN Append(f[n - 1], s[n]) ELSE f[n - 1]
           left == CHOOSE f : f = [n \in 0 .. Len(s) |-> D(f, n)]
<1>1. last \in Nat /\ <<>> \in V /\ step \in [1 .. last -> [V -> V]] /\ \A n \in 1 .. last : s[n] \in T
  OBVIOUS
<1>2. \A n \in 1 .. last : \A v \in V : step[n][v] = IF s[n].alive THEN Append(v, s[n]) ELSE v
  OBVIOUS
<1>3. PICK f : Stepwise(f, last, V, <<>>, step)
  <2> HIDE DEF V, last, step
  <2> QED BY <1>1, StepwiseExists
<1>4. f \in [0 .. last -> V] /\ f[0] = <<>> /\ \A n \in 1 .. last : f[n] = step[n][f[n - 1]]
  <2> HIDE DEF V, last, step
  <2> QED BY <1>3 DEF Stepwise
<1>5. \A n \in 0 .. last : f[n] = D(f, n)
  <2> SUFFICES ASSUME NEW n \in 0 .. last PROVE f[n] = D(f, n)
    OBVIOUS
  <2>1. CASE n = 0
    BY <1>4, <2>1
  <2>2. CASE n # 0
    <3>1. n \in 1 .. last /\ n - 1 \in 0 .. last
      BY <1>1, <2>2
    <3>2. f[n - 1] \in V /\ f[n] = step[n][f[n - 1]]
      <4> HIDE DEF step, V, last
      <4> QED BY <1>4, <3>1
    <3>3. step[n][f[n - 1]] = IF s[n].alive THEN Append(f[n - 1], s[n]) ELSE f[n - 1]
      <4> HIDE DEF step, V, last
      <4> QED BY <1>2, <3>1, <3>2
    <3> QED BY <2>2, <3>2, <3>3
  <2> QED BY <2>1, <2>2
<1>6. left = [n \in 0 .. Len(s) |-> D(left, n)]
  <2>1. f = [n \in 0 .. Len(s) |-> D(f, n)]
    <3> HIDE DEF V, step, D
    <3> QED BY <1>4, <1>5
  <2> QED BY <2>1
<1>7. Alive(s) = left[Len(s)]
  BY DEF Alive
<1> HIDE DEF left
<1>8. \A n \in 0 .. last : left[n] = D(left, n)
  <2> HIDE DEF D
  <2> QED BY <1>6
<1>9. left[0] = <<>> /\ \A n \in 1 .. last : left[n] = IF s[n].alive THEN Append(left[n - 1], s[n]) ELSE left[n - 1]
  BY <1>1, <1>8
<1> DEFINE Upto(n) == {i \in 1 .. n : s[i].alive}
           Fine(n) == /\ left[n] \in V /\ Len(left[n]) = Cardinality(Upto(n))
                      /\ \A i \in DOMAIN left[n] : left[n][i].alive
           N == {n \in 0 .. last : Fine(n)}
<1>10. 0 \in N
  <2>1. Upto(0) = {} /\ Cardinality({}) = 0
    BY FS_EmptySet
  <2>2. left[0] = <<>> /\ left[0] \in V /\ 0 \in 0 .. last
    BY <1>1, <1>9
  <2> HIDE DEF Upto, last, V
  <2>3. Len(left[0]) = 0 /\ DOMAIN left[0] = {}
    BY <2>2
  <2>4. Fine(0)
    BY <2>1, <2>2, <2>3
  <2> HIDE DEF Fine
  <2> QED BY <2>2, <2>4
<1>11. ASSUME NEW n \in 0 .. last - 1, n \in N PROVE n + 1 \in N
  <2>1. n + 1 \in 1 .. last /\ n + 1 \in 0 .. last /\ (n + 1) - 1 = n /\ n \in Nat /\ s[n + 1] \in T
    BY <1>1
  <2>2. left[n + 1] = IF s[n + 1].alive THEN Append(left[n], s[n + 1]) ELSE left[n]
    <3> HIDE DEF last
    <3> QED BY <1>9, <2>1
  <2>3. Fine(n)
    BY <1>11
  <2>4. IsFiniteSet(Upto(n)) /\ n + 1 \notin Upto(n) /\ Cardinality(Upto(n)) \in Nat
    <3>1. IsFiniteSet(1 .. n)
      BY <2>1, FS_Interval
    <3>2. Upto(n) \subseteq 1 .. n
      OBVIOUS
    <3>3. n + 1 \notin 1 .. n
      BY <2>1
    <3> HIDE DEF Upto
    <3> QED BY <3>1, <3>2, <3>3, FS_Subset, FS_CardinalityType
  <2>5. CASE s[n + 1].alive
    <3>1. Upto(n + 1) = Upto(n) \cup {n + 1}
      BY <2>1, <2>5
    <3> HIDE DEF Upto
    <3>2. Cardinality(Upto(n + 1)) = Cardinality(Upto(n)) + 1
      BY <2>4, <3>1, FS_AddElement
    <3>3. left[n + 1] = Append(left[n], s[n + 1]) /\ left[n] \in Seq(T)
      BY <2>2, <2>3, <2>5
    <3>4. left[n + 1] \in V /\ Len(left[n + 1]) = Len(left[n]) + 1
      BY <2>1, <3>3
    <3>5. \A i \in DOMAIN left[n + 1] : left[n + 1][i].alive
      <4> SUFFICES ASSUME NEW i \in DOMAIN left[n + 1] PROVE left[n + 1][i].alive
        OBVIOUS
      <4>1. CASE i = Len(left[n]) + 1
        <5>1. left[n + 1][i] = s[n + 1]
          BY <2>1, <3>3, <4>1
        <5> QED BY <2>5, <5>1
      <4>2. CASE i # Len(left[n]) + 1
        <5>1. i \in DOMAIN left[n] /\ left[n + 1][i] = left[n][i]
          BY <2>1, <3>3, <4>2
        <5> QED BY <2>3, <5>1
      <4> QED BY <4>1, <4>2
    <3>6. Fine(n + 1)
      BY <2>3, <3>2, <3>4, <3>5
    <3> HIDE DEF Fine
    <3> QED BY <2>1, <3>6
  <2>6. CASE ~s[n + 1].alive
    <3>1. Upto(n + 1) = Upto(n)
      BY <2>1, <2>6
    <3>2. left[n + 1] = left[n]
      BY <2>2, <2>6
    <3> HIDE DEF Upto
    <3>3. Fine(n + 1)
      BY <2>3, <3>1, <3>2
    <3> HIDE DEF Fine
    <3> QED BY <2>1, <3>3
  <2> QED BY <2>5, <2>6
<1>12. 0 .. last \subseteq N
  <2> HIDE DEF N, last
  <2> QED BY <1>1, <1>10, <1>11, UpTo
<1>13. Fine(last)
  <2> HIDE DEF Fine
  <2> QED BY <1>1, <1>12
<1>14. Upto(last) = Survivors(s)
  BY DEF Survivors
<1> QED
  <2> HIDE DEF Upto
  <2> QED BY <1>7, <1>13, <1>14

\* One who dies: no more than one is lost.
LEMMA LivingLess ==
  ASSUME NEW T, NEW s \in Seq(T), NEW r \in Seq(T), NEW k, Survivors(s) \ {k} \subseteq Survivors(r)
  PROVE  Len(Alive(r)) >= Len(Alive(s)) - 1
<1>1. /\ IsFiniteSet(Survivors(s)) /\ IsFiniteSet(Survivors(r))
      /\ Cardinality(Survivors(s)) \in Nat /\ Cardinality(Survivors(r)) \in Nat
  BY LivingFinite
<1>2. Cardinality(Survivors(s) \ {k}) <= Cardinality(Survivors(r)) /\ Cardinality(Survivors(s) \ {k}) \in Nat
  BY <1>1, FS_Subset, FS_CardinalityType
<1>3. Cardinality(Survivors(s) \ {k}) >= Cardinality(Survivors(s)) - 1
  <2>1. Cardinality(Survivors(s) \ {k}) = IF k \in Survivors(s) THEN Cardinality(Survivors(s)) - 1 ELSE Cardinality(Survivors(s))
    BY <1>1, FS_RemoveElement
  <2> HIDE DEF Survivors
  <2> QED BY <1>1, <2>1
<1> QED BY <1>1, <1>2, <1>3, AliveIs

\* Where nobody dies none is lost.
LEMMA LivingMore ==
  ASSUME NEW T, NEW s \in Seq(T), NEW r \in Seq(T), Survivors(s) \subseteq Survivors(r)
  PROVE  Len(Alive(r)) >= Len(Alive(s))
<1>1. IsFiniteSet(Survivors(r)) /\ Cardinality(Survivors(s)) \in Nat /\ Cardinality(Survivors(r)) \in Nat
  BY LivingFinite
<1>2. Cardinality(Survivors(s)) <= Cardinality(Survivors(r))
  BY <1>1, FS_Subset
<1> QED BY <1>1, <1>2, AliveIs

\* The smaller and the larger of two numbers.
LEMMA OfTwo ==
  ASSUME NEW a \in Nat, NEW b \in Nat
  PROVE  Min({a, b}) \in {a, b} /\ Max({a, b}) \in {a, b}
<1>1. \E x \in {a, b} : \A y \in {a, b} : x <= y
  OBVIOUS
<1>2. \E x \in {a, b} : \A y \in {a, b} : x >= y
  OBVIOUS
<1> QED BY <1>1, <1>2 DEF Min, Max

\* The smallest of some numbers is one of them.
LEMMA LeastIsOne ==
  ASSUME NEW T \in SUBSET Nat, T # {}
  PROVE  Min(T) \in T
<1>1. \E n \in T : \A m \in T : n <= m
  BY Least
<1> QED BY <1>1 DEF Min

\* One less, and no less than nothing.
LEMMA OneOff == ASSUME NEW a \in Nat PROVE Max({0, a - 1}) \in Nat
<1>1. CASE a = 0
  <2>1. 0 \in {0, a - 1} /\ \A y \in {0, a - 1} : 0 >= y
    BY <1>1
  <2>2. Max({0, a - 1}) \in {0, a - 1} /\ \A y \in {0, a - 1} : Max({0, a - 1}) >= y
    BY <2>1 DEF Max
  <2> QED BY <1>1, <2>2
<1>2. CASE a # 0
  <2>1. a - 1 \in Nat
    BY <1>2
  <2> QED BY <2>1, OfTwo
<1> QED BY <1>1, <1>2

\* v is a world of the same minute as w, with the same Nubbins.
Around(w, v) == v \in AWorld /\ v.last = w.last /\ v.nubbins = w.nubbins

\* The clocks' events are about no Nubbin.
LEMMA EvaporateAround == ASSUME NEW w \in AWorld PROVE Around(w, Evaporate(w))
<1>1. Max({0, w.water - 1}) \in Nat
  BY OneOff DEF AWorld
<1> QED BY <1>1 DEF Around, AWorld, Evaporate

LEMMA DryAround == ASSUME NEW w \in AWorld PROVE Around(w, Dry(w))
<1> DEFINE drier == [w EXCEPT !.humidity = Max({0, @ - 1})]
           plants == Update(drier.plants, Parch)
           seeds == drier.seeds \cup {w.plants[i].species : i \in {k \in DOMAIN w.plants : Wilts(w.plants[k])}}
<1>1. Max({0, w.humidity - 1}) \in Nat
  BY OneOff DEF AWorld
<1>2. Around(w, drier) /\ drier.plants = w.plants /\ drier.seeds = w.seeds
  BY <1>1 DEF Around, AWorld
<1>3. ASSUME NEW p \in APlant PROVE Parch(p) \in APlant
  <2> DEFINE goesOn == ~Wilts(p)
             dry == p.dry + Every.dry
  <2>1. dry \in Nat
    BY DEF Every, APlant
  <2>2. goesOn \in BOOLEAN
    BY Zenon
  <2>3. Parch(p) = p \/ Parch(p) = [p EXCEPT !.dry = dry, !.alive = goesOn]
    BY Zenon DEF Parch
  <2> HIDE DEF goesOn, dry
  <2> QED BY <2>1, <2>2, <2>3 DEF APlant
<1>4. w.plants \in Seq(APlant) /\ w.seeds \subseteq DOMAIN Matures
  BY DEF AWorld
<1>5. plants \in Seq(APlant)
  BY <1>2, <1>3, <1>4 DEF Update
<1>6. seeds \subseteq DOMAIN Matures
  <2>1. \A i \in DOMAIN w.plants : w.plants[i] \in APlant
    BY <1>4
  <2>2. \A i \in DOMAIN w.plants : w.plants[i].species \in DOMAIN Matures
    <3> HIDE DEF drier
    <3> QED BY <2>1, Zenon DEF APlant
  <2> HIDE DEF drier
  <2> QED BY <1>2, <1>4, <2>2
<1>7. Dry(w) = IF drier.humidity >= Damp THEN drier ELSE [drier EXCEPT !.plants = plants, !.seeds = seeds]
  BY DEF Dry
<1> HIDE DEF drier, plants, seeds
<1> QED BY <1>2, <1>5, <1>6, <1>7 DEF Around, AWorld

LEMMA SeepAround == ASSUME NEW w \in AWorld PROVE Around(w, Seep(w))
<1> DEFINE n == w.droppings \div 2
<1>1. w.droppings \in Nat /\ w.nitrate \in Nat
  BY DEF AWorld
<1>2. n \in Nat /\ w.droppings - (n + 1) \div 2 \in Nat /\ w.nitrate + n \in Nat
  BY <1>1
<1>3. Seep(w) = IF w.humidity < Damp THEN w
                ELSE [w EXCEPT !.droppings = w.droppings - (n + 1) \div 2, !.nitrate = w.nitrate + n]
  BY DEF Seep
<1> HIDE DEF n
<1> QED BY <1>2, <1>3 DEF Around, AWorld

\* A world around one that is around another is around that.
LEMMA AroundOn ==
  ASSUME NEW w, NEW v, NEW u, Around(w, v), Around(v, u)
  PROVE  Around(w, u)
BY DEF Around

LEMMA GlimAround == ASSUME NEW w \in AWorld, NEW t \in Nat PROVE Around(w, AddGlim(w, t))
<1>1. NewGlim(t) \in AGlim
  BY DEF NewGlim, AGlim, Glim, Hour, Never
<1>2. Append(w.glims, NewGlim(t)) \in Seq(AGlim)
  BY <1>1 DEF AWorld
<1>3. AddGlim(w, t) = [w EXCEPT !.glims = Append(w.glims, NewGlim(t))]
  BY DEF AddGlim
<1> QED BY <1>2, <1>3 DEF Around, AWorld

LEMMA BloomAround == ASSUME NEW w \in AWorld, NEW t \in Nat PROVE Around(w, Bloom(w, t))
<1> DEFINE slow == \E i \in DOMAIN w.plants :
                     LET p == w.plants[i] IN p.alive /\ p.species = "Duckweed" /\ ~p.seed
           most == IF slow THEN 1 ELSE 2
           grew == Min({most, w.nitrate \div 4})
           greener == [w EXCEPT !.nitrate = w.nitrate - 4 * grew, !.algae = w.algae + grew]
           hatched == [greener EXCEPT !.roe = greener.roe - 1]
<1>1. w.nitrate \in Nat /\ w.algae \in Nat /\ w.roe \in Nat
  BY DEF AWorld
<1>2. most \in Nat /\ w.nitrate \div 4 \in Nat /\ 4 * (w.nitrate \div 4) <= w.nitrate
  BY <1>1
<1>3. grew \in Nat /\ 4 * grew <= w.nitrate
  <2> HIDE DEF most
  <2>1. grew \in {most, w.nitrate \div 4}
    BY <1>2, OfTwo
  <2>2. \E x \in {most, w.nitrate \div 4} : \A y \in {most, w.nitrate \div 4} : x <= y
    BY <1>2
  <2>3. grew <= w.nitrate \div 4
    BY <2>2 DEF Min
  <2> HIDE DEF grew
  <2> QED BY <1>1, <1>2, <2>1, <2>3
<1>4. Bloom(w, t) = IF w.water = 0 THEN w
                    ELSE IF w.roe > 0 /\ greener.algae >= 4 THEN AddGlim(hatched, t) ELSE greener
  BY DEF Bloom
<1> HIDE DEF grew
<1>5. Around(w, greener)
  <2>1. w.nitrate - 4 * grew \in Nat /\ w.algae + grew \in Nat
    BY <1>1, <1>3
  <2> QED BY <2>1 DEF Around, AWorld
<1>6. ASSUME w.roe > 0 PROVE Around(w, AddGlim(hatched, t))
  <2>1. Around(w, hatched)
    <3>1. greener.roe - 1 \in Nat
      BY <1>1, <1>6
    <3> HIDE DEF greener
    <3> QED BY <1>5, <3>1 DEF Around, AWorld
  <2>2. hatched \in AWorld
    BY <2>1, Zenon DEF Around
  <2> HIDE DEF hatched
  <2> QED BY <2>1, <2>2, GlimAround, AroundOn
<1>7. Around(w, w)
  BY DEF Around
<1> HIDE DEF greener, hatched
<1> QED BY <1>4, <1>5, <1>6, <1>7

LEMMA FruitAround ==
  ASSUME NEW w \in AWorld, NEW i \in DOMAIN w.plants, NEW t \in Nat
  PROVE  Around(w, Fruit(w, i, t))
<1> DEFINE p == w.plants[i]
           soon == IF Yields[p.species] = Never THEN Never ELSE t + Yields[p.species]
           grown == [w EXCEPT !.plants = [w.plants EXCEPT ![i] = [p EXCEPT !.seed = FALSE, !.next = soon]]]
<1>1. w.plants \in Seq(APlant) /\ p \in APlant
  BY DEF AWorld
<1>2. Yields[p.species] \in Nat /\ Never \in Nat
  BY <1>1 DEF APlant, Matures, Yields, Never
<1>3. soon \in Nat
  BY <1>2
<1>4. [p EXCEPT !.seed = FALSE, !.next = soon] \in APlant
  <2> HIDE DEF soon, p
  <2> QED BY <1>1, <1>3 DEF APlant
<1>5. [w.plants EXCEPT ![i] = [p EXCEPT !.seed = FALSE, !.next = soon]] \in Seq(APlant)
  <2> HIDE DEF soon, p
  <2> QED BY <1>1, <1>4
<1>6. Around(w, grown)
  <2> HIDE DEF soon, p
  <2> QED BY <1>5 DEF Around, AWorld
<1>7. /\ Around(w, [grown EXCEPT !.catnip = grown.catnip + 1])
      /\ Around(w, [grown EXCEPT !.greens = grown.greens + 1])
  <2> HIDE DEF grown
  <2>1. grown.catnip + 1 \in Nat /\ grown.greens + 1 \in Nat
    <3>1. grown \in AWorld
      BY <1>6, Zenon DEF Around
    <3>2. grown.catnip \in Nat /\ grown.greens \in Nat
      BY <3>1 DEF AWorld
    <3> QED BY <3>2
  <2>2. Around(w, [grown EXCEPT !.catnip = grown.catnip + 1])
    BY <1>6, <2>1 DEF Around, AWorld
  <2>3. Around(w, [grown EXCEPT !.greens = grown.greens + 1])
    BY <1>6, <2>1 DEF Around, AWorld
  <2> QED BY <2>2, <2>3
<1>8. Fruit(w, i, t) = IF p.seed THEN grown
                       ELSE IF p.species = "Catnip" THEN [grown EXCEPT !.catnip = grown.catnip + 1]
                       ELSE [grown EXCEPT !.greens = grown.greens + 1]
  BY DEF Fruit
<1> HIDE DEF grown
<1> QED BY <1>6, <1>7, <1>8

\* A change of one Glim, and of one amount.
LEMMA GlimsAround ==
  ASSUME NEW w \in AWorld, NEW g \in Seq(AGlim), NEW n \in Nat
  PROVE  /\ Around(w, [w EXCEPT !.glims = g])
         /\ Around(w, [w EXCEPT !.algae = n, !.glims = g])
         /\ Around(w, [w EXCEPT !.nitrate = n, !.glims = g])
         /\ Around(w, [w EXCEPT !.roe = n, !.glims = g])
<1>1. Around(w, [w EXCEPT !.glims = g])
  BY DEF Around, AWorld
<1>2. Around(w, [w EXCEPT !.algae = n, !.glims = g])
  BY DEF Around, AWorld
<1>3. Around(w, [w EXCEPT !.nitrate = n, !.glims = g])
  BY DEF Around, AWorld
<1>4. Around(w, [w EXCEPT !.roe = n, !.glims = g])
  BY DEF Around, AWorld
<1> QED BY <1>1, <1>2, <1>3, <1>4

\* A list of which one is changed.
LEMMA OneChanged ==
  ASSUME NEW T, NEW s \in Seq(T), NEW i \in DOMAIN s, NEW x \in T
  PROVE  /\ [s EXCEPT ![i] = x] \in Seq(T) /\ DOMAIN [s EXCEPT ![i] = x] = DOMAIN s
         /\ \A k \in DOMAIN s : [s EXCEPT ![i] = x][k] = IF k = i THEN x ELSE s[k]
OBVIOUS

\* A Glim is fed or starves.
LEMMA GrazeAround ==
  ASSUME NEW w \in AWorld, NEW i \in DOMAIN w.glims, NEW t \in Nat
  PROVE  Around(w, Graze(w, i, t)) /\ DOMAIN Graze(w, i, t).glims = DOMAIN w.glims
<1> DEFINE fed == Graze(w, i, t)
           g == w.glims[i]
           since == Since(g, t)
           soon == t + Glim.again
           later == t + Glim.meal
           hungry == [g EXCEPT !.hungry = since, !.meal = soon]
           sated == [g EXCEPT !.hungry = Never, !.meal = later]
           dead == [hungry EXCEPT !.alive = FALSE]
           S(x) == [w.glims EXCEPT ![i] = x]
<1>1. w.glims \in Seq(AGlim) /\ w.nitrate + 6 \in Nat /\ (w.algae > 0 => w.algae - 1 \in Nat)
  BY DEF AWorld
<1>2. g \in AGlim /\ soon \in Nat /\ later \in Nat /\ Never \in Nat
  BY <1>1 DEF Glim, Never
<1>3. since \in Nat
  BY <1>2 DEF Since, AGlim
<1>4. hungry \in AGlim
  <2> HIDE DEF since, g, soon, later
  <2> QED BY <1>2, <1>3 DEF AGlim
<1>5. sated \in AGlim
  <2> HIDE DEF since, g, soon, later
  <2> QED BY <1>2, <1>3 DEF AGlim
<1>6. dead \in AGlim
  <2> HIDE DEF hungry
  <2> QED BY <1>4 DEF AGlim
<1>7. fed = IF t < g.meal THEN w
            ELSE IF w.algae > 0 THEN [w EXCEPT !.algae = w.algae - 1, !.glims = S(sated)]
            ELSE IF t - hungry.hungry < Glim.starve THEN [w EXCEPT !.glims = S(hungry)]
            ELSE [w EXCEPT !.nitrate = w.nitrate + 6, !.glims = S(dead)]
  BY DEF Graze
<1>8. Around(w, w)
  BY DEF Around
<1>9. ASSUME NEW x \in AGlim PROVE S(x) \in Seq(AGlim) /\ DOMAIN S(x) = DOMAIN w.glims
  BY <1>1, OneChanged
<1> HIDE DEF fed, hungry, sated, dead, g, S
<1>10. CASE fed = w
  BY <1>8, <1>10 DEF fed
<1>11. CASE w.algae > 0 /\ fed = [w EXCEPT !.algae = w.algae - 1, !.glims = S(sated)]
  <2>1. fed.glims = S(sated)
    BY <1>11 DEF AWorld
  <2>2. Around(w, fed)
    BY <1>1, <1>5, <1>9, <1>11, GlimsAround
  <2> QED BY <1>5, <1>9, <2>1, <2>2 DEF fed
<1>12. CASE fed = [w EXCEPT !.glims = S(hungry)]
  <2>1. fed.glims = S(hungry)
    BY <1>12 DEF AWorld
  <2>2. Around(w, fed)
    BY <1>4, <1>9, <1>12, GlimsAround
  <2> QED BY <1>4, <1>9, <2>1, <2>2 DEF fed
<1>13. CASE fed = [w EXCEPT !.nitrate = w.nitrate + 6, !.glims = S(dead)]
  <2>1. fed.glims = S(dead)
    BY <1>13 DEF AWorld
  <2>2. Around(w, fed)
    BY <1>1, <1>6, <1>9, <1>13, GlimsAround
  <2> QED BY <1>6, <1>9, <2>1, <2>2 DEF fed
<1> QED BY <1>7, <1>10, <1>11, <1>12, <1>13

\* Then it lays, and has young.
LEMMA LiveGlimAround ==
  ASSUME NEW w \in AWorld, NEW i \in DOMAIN w.glims, NEW t \in Nat
  PROVE  Around(w, LiveGlim(w, i, t))
<1> DEFINE fed == Graze(w, i, t)
           g == fed.glims[i]
           more == [fed EXCEPT !.roe = fed.roe + 1, !.glims = [fed.glims EXCEPT ![i] = [g EXCEPT !.roe = t + Glim.roe]]]
           laid == IF t < g.roe THEN fed ELSE more
           grown == [laid.glims[i] EXCEPT !.birth = t + Glim.birth]
           later == [laid EXCEPT !.glims = [laid.glims EXCEPT ![i] = grown]]
<1>1. Around(w, fed) /\ i \in DOMAIN fed.glims
  BY GrazeAround
<1>2. LiveGlim(w, i, t) =
        IF ~g.alive THEN fed
        ELSE IF t < g.birth THEN laid
        ELSE IF g.hungry = Never /\ fed.algae > 0 THEN AddGlim(AddGlim(later, t), t) ELSE later
  BY DEF LiveGlim, Spawn
<1> HIDE DEF fed
<1>3. fed \in AWorld
  BY <1>1, Zenon DEF Around
<1>4. fed.glims \in Seq(AGlim) /\ fed.roe + 1 \in Nat /\ Around(fed, fed)
  <2>1. fed.glims \in Seq(AGlim) /\ fed.roe \in Nat
    BY <1>3 DEF AWorld
  <2>2. Around(fed, fed)
    BY <1>3 DEF Around
  <2> QED BY <2>1, <2>2
<1>5. g \in AGlim /\ t + Glim.roe \in Nat /\ t + Glim.birth \in Nat
  BY <1>1, <1>4 DEF Glim, Hour
<1>6. Around(fed, laid) /\ i \in DOMAIN laid.glims
  <2>1. [g EXCEPT !.roe = t + Glim.roe] \in AGlim
    <3> HIDE DEF g
    <3> QED BY <1>5 DEF AGlim
  <2> DEFINE list == [fed.glims EXCEPT ![i] = [g EXCEPT !.roe = t + Glim.roe]]
  <2>2. list \in Seq(AGlim) /\ DOMAIN list = DOMAIN fed.glims
    <3> HIDE DEF g
    <3> QED BY <1>1, <1>4, <2>1, OneChanged
  <2>3. more = [fed EXCEPT !.roe = fed.roe + 1, !.glims = list]
    OBVIOUS
  <2> HIDE DEF list, more
  <2>4. more.glims = list
    BY <1>3, <2>3 DEF AWorld
  <2>5. Around(fed, more)
    BY <1>3, <1>4, <2>2, <2>3, GlimsAround
  <2> QED BY <1>1, <1>4, <2>2, <2>4, <2>5
<1> HIDE DEF laid
<1>7. laid \in AWorld
  BY <1>6, Zenon DEF Around
<1>8. laid.glims \in Seq(AGlim)
  BY <1>7 DEF AWorld
<1>9. laid.glims[i] \in AGlim
  BY <1>6, <1>8
<1>10. grown \in AGlim
  BY <1>5, <1>9 DEF AGlim
<1> HIDE DEF grown, g
<1>11. [laid.glims EXCEPT ![i] = grown] \in Seq(AGlim)
  BY <1>6, <1>8, <1>10, OneChanged
<1>12. Around(laid, later) /\ later \in AWorld
  <2>1. Around(laid, later)
    BY <1>7, <1>11, GlimsAround
  <2> QED BY <2>1, Zenon DEF Around
<1> HIDE DEF later
<1>13. Around(w, laid) /\ Around(w, later)
  BY <1>1, <1>6, <1>12, AroundOn
<1>14. Around(w, AddGlim(AddGlim(later, t), t))
  <2>1. Around(later, AddGlim(later, t))
    BY <1>12, GlimAround
  <2>2. AddGlim(later, t) \in AWorld
    BY <2>1, Zenon DEF Around
  <2>3. Around(AddGlim(later, t), AddGlim(AddGlim(later, t), t))
    BY <2>2, GlimAround
  <2>4. Around(w, AddGlim(later, t))
    BY <1>13, <2>1, AroundOn
  <2> QED BY <2>3, <2>4, AroundOn
<1> QED BY <1>1, <1>2, <1>13, <1>14

\* A world of minute m in which at least k Nubbins live.
Peopled(w, m, k) == w \in AWorld /\ w.last = m /\ Len(Alive(w.nubbins)) >= k

\* A change of one Nubbin that lives on if it lived.
LEMMA NubbinLivesOn ==
  ASSUME NEW s \in Seq(ANubbin), NEW i \in DOMAIN s, NEW x \in ANubbin, s[i].alive => x.alive
  PROVE  Len(Alive([s EXCEPT ![i] = x])) >= Len(Alive(s))
<1> DEFINE r == [s EXCEPT ![i] = x]
<1>1. r \in Seq(ANubbin) /\ DOMAIN r = DOMAIN s /\ \A k \in DOMAIN s : r[k] = IF k = i THEN x ELSE s[k]
  BY OneChanged
<1> HIDE DEF r
<1>2. Survivors(s) \subseteq Survivors(r)
  BY <1>1 DEF Survivors
<1>3. Len(Alive(r)) >= Len(Alive(s))
  BY <1>1, <1>2, LivingMore
<1> QED BY <1>3 DEF r

\* A change of any Nubbin.
LEMMA NubbinMayDie ==
  ASSUME NEW s \in Seq(ANubbin), NEW i \in DOMAIN s, NEW x \in ANubbin
  PROVE  Len(Alive([s EXCEPT ![i] = x])) >= Len(Alive(s)) - 1
<1> DEFINE r == [s EXCEPT ![i] = x]
<1>1. r \in Seq(ANubbin) /\ DOMAIN r = DOMAIN s /\ \A k \in DOMAIN s : r[k] = IF k = i THEN x ELSE s[k]
  BY OneChanged
<1> HIDE DEF r
<1>2. Survivors(s) \ {i} \subseteq Survivors(r)
  BY <1>1 DEF Survivors
<1>3. Len(Alive(r)) >= Len(Alive(s)) - 1
  BY <1>1, <1>2, LivingLess
<1> QED BY <1>3 DEF r

\* A list of Nubbins in their world.
LEMMA NubbinsIn ==
  ASSUME NEW w \in AWorld, NEW r \in Seq(ANubbin), NEW n \in Nat, NEW m, NEW k \in Nat, w.last = m,
         Len(Alive(r)) >= k
  PROVE  /\ Peopled([w EXCEPT !.nubbins = r], m, k)
         /\ Peopled([w EXCEPT !.greens = n, !.nubbins = r], m, k)
         /\ Peopled([w EXCEPT !.droppings = n, !.nubbins = r], m, k)
<1>1. Peopled([w EXCEPT !.nubbins = r], m, k)
  BY DEF Peopled, AWorld
<1>2. Peopled([w EXCEPT !.greens = n, !.nubbins = r], m, k)
  BY DEF Peopled, AWorld
<1>3. Peopled([w EXCEPT !.droppings = n, !.nubbins = r], m, k)
  BY DEF Peopled, AWorld
<1> QED BY <1>1, <1>2, <1>3

\* A Nubbin is fed, hungers, sleeps or starves: never one of the last two.
LEMMA FeedSpares ==
  ASSUME NEW m, NEW k \in 0 .. 2, NEW w, Peopled(w, m, k), NEW i \in DOMAIN w.nubbins, NEW t \in Nat
  PROVE  Peopled(Feed(w, i, t), m, k) /\ DOMAIN Feed(w, i, t).nubbins = DOMAIN w.nubbins
<1> DEFINE fed == Feed(w, i, t)
           g == w.nubbins[i]
           since == Since(g, t)
           soon == t + Nubbin.again
           later == t + Nubbin.meal
           hungry == [g EXCEPT !.hungry = since, !.meal = soon]
           sated == [g EXCEPT !.hungry = Never, !.meal = later]
           asleep == [hungry EXCEPT !.torpid = TRUE]
           dead == [hungry EXCEPT !.alive = FALSE]
           S(x) == [w.nubbins EXCEPT ![i] = x]
           L(r) == Len(Alive(r))
<1>0. w \in AWorld /\ w.last = m /\ L(w.nubbins) >= k
  BY Zenon DEF Peopled
<1>1. w.nubbins \in Seq(ANubbin) /\ (w.greens > 0 => w.greens - 1 \in Nat)
  BY <1>0 DEF AWorld
<1>2. g \in ANubbin /\ soon \in Nat /\ later \in Nat /\ Never \in Nat
  BY <1>1 DEF Nubbin, Never
<1>3. since \in Nat
  BY <1>2 DEF Since, ANubbin
<1>4. hungry \in ANubbin /\ hungry.alive = g.alive
  <2> HIDE DEF since, g, soon, later
  <2> QED BY <1>2, <1>3 DEF ANubbin
<1>5. sated \in ANubbin /\ sated.alive = g.alive
  <2> HIDE DEF since, g, soon, later
  <2> QED BY <1>2, <1>3 DEF ANubbin
<1>6. dead \in ANubbin
  <2> HIDE DEF hungry
  <2> QED BY <1>4 DEF ANubbin
<1>7. asleep \in ANubbin /\ asleep.alive = g.alive
  <2> HIDE DEF hungry
  <2> QED BY <1>4 DEF ANubbin
<1>8. fed = IF g.torpid \/ t < g.meal THEN w
            ELSE IF w.greens > 0 THEN [w EXCEPT !.greens = w.greens - 1, !.nubbins = S(sated)]
            ELSE IF t - hungry.hungry < Nubbin.starve THEN [w EXCEPT !.nubbins = S(hungry)]
            ELSE IF L(w.nubbins) < 3 THEN [w EXCEPT !.nubbins = S(asleep)]
            ELSE [w EXCEPT !.nubbins = S(dead)]
  BY DEF Feed, LastOnes, TorporFloor
<1>9. ASSUME NEW x \in ANubbin
      PROVE  /\ S(x) \in Seq(ANubbin) /\ DOMAIN S(x) = DOMAIN w.nubbins
             /\ L(S(x)) \in Nat /\ L(w.nubbins) \in Nat
             /\ L(S(x)) >= L(w.nubbins) - 1
             /\ (x.alive = g.alive) => (L(S(x)) >= L(w.nubbins))
  <2>1. S(x) \in Seq(ANubbin) /\ DOMAIN S(x) = DOMAIN w.nubbins
    BY <1>1, OneChanged
  <2>2. L(S(x)) \in Nat /\ L(w.nubbins) \in Nat
    <3>1. Alive(S(x)) \in Seq(ANubbin) /\ Alive(w.nubbins) \in Seq(ANubbin)
      <4> HIDE DEF S
      <4> QED BY <1>1, <2>1, AliveIs
    <3> HIDE DEF S
    <3> QED BY <3>1
  <2>3. L(S(x)) >= L(w.nubbins) - 1
    BY <1>1, NubbinMayDie
  <2>4. ASSUME x.alive = g.alive PROVE L(S(x)) >= L(w.nubbins)
    BY <1>1, <2>4, NubbinLivesOn
  <2> QED BY <2>1, <2>2, <2>3, <2>4
<1> HIDE DEF fed, hungry, sated, asleep, dead, g, S, L
<1>10. CASE fed = w
  BY <1>10 DEF fed
<1>11. CASE w.greens > 0 /\ fed = [w EXCEPT !.greens = w.greens - 1, !.nubbins = S(sated)]
  <2>1. fed.nubbins = S(sated)
    BY <1>0, <1>11 DEF AWorld
  <2>2. S(sated) \in Seq(ANubbin) /\ L(S(sated)) >= k
    BY <1>0, <1>5, <1>9
  <2>3. Peopled(fed, m, k)
    <3>1. w.greens - 1 \in Nat /\ k \in Nat
      BY <1>1, <1>11
    <3>2. Peopled([w EXCEPT !.greens = w.greens - 1, !.nubbins = S(sated)], m, k)
      BY <1>0, <2>2, <3>1, NubbinsIn DEF L
    <3> QED BY <1>11, <3>2
  <2> QED BY <1>5, <1>9, <2>1, <2>3 DEF fed
<1>12. ASSUME NEW x \in ANubbin, x.alive = g.alive \/ L(w.nubbins) >= 3, fed = [w EXCEPT !.nubbins = S(x)]
       PROVE  Peopled(fed, m, k) /\ DOMAIN fed.nubbins = DOMAIN w.nubbins
  <2>1. fed.nubbins = S(x)
    BY <1>0, <1>12 DEF AWorld
  <2>2. S(x) \in Seq(ANubbin) /\ L(S(x)) >= k
    <3>1. CASE x.alive = g.alive
      BY <1>0, <1>9, <3>1
    <3>2. CASE L(w.nubbins) >= 3
      BY <1>0, <1>9, <3>2
    <3> QED BY <1>12, <3>1, <3>2
  <2>3. Peopled(fed, m, k)
    <3>1. 0 \in Nat /\ k \in Nat
      OBVIOUS
    <3>2. Peopled([w EXCEPT !.nubbins = S(x)], m, k)
      BY <1>0, <2>2, <3>1, NubbinsIn DEF L
    <3> QED BY <1>12, <3>2
  <2> QED BY <1>9, <2>1, <2>3
<1>13. CASE fed = [w EXCEPT !.nubbins = S(hungry)]
  BY <1>4, <1>12, <1>13 DEF fed
<1>14. CASE fed = [w EXCEPT !.nubbins = S(asleep)]
  BY <1>7, <1>12, <1>14 DEF fed
<1>15. CASE L(w.nubbins) >= 3 /\ fed = [w EXCEPT !.nubbins = S(dead)]
  BY <1>6, <1>12, <1>15 DEF fed
<1>16. L(w.nubbins) \in Nat
  BY <1>2, <1>9
<1> QED BY <1>8, <1>10, <1>11, <1>13, <1>14, <1>15, <1>16

\* One who joins.
LEMMA LivingJoined ==
  ASSUME NEW T, NEW s \in Seq(T), NEW x \in T
  PROVE  Append(s, x) \in Seq(T) /\ Len(Alive(Append(s, x))) >= Len(Alive(s))
<1> DEFINE r == Append(s, x)
<1>1. r \in Seq(T) /\ \A i \in DOMAIN s : i \in DOMAIN r /\ r[i] = s[i]
  OBVIOUS
<1> HIDE DEF r
<1>2. Survivors(s) \subseteq Survivors(r)
  BY <1>1 DEF Survivors
<1>3. Len(Alive(r)) >= Len(Alive(s))
  BY <1>1, <1>2, LivingMore
<1> QED BY <1>1, <1>3 DEF r

\* A Nubbin is born, or let loose.
LEMMA NubbinJoins ==
  ASSUME NEW m, NEW k \in Nat, NEW w, Peopled(w, m, k), NEW t \in Nat
  PROVE  Peopled(AddNubbin(w, t), m, k)
<1> DEFINE x == NewNubbin(t)
           r == Append(w.nubbins, x)
<1>1. w \in AWorld /\ w.last = m /\ Len(Alive(w.nubbins)) >= k
  BY Zenon DEF Peopled
<1>2. w.nubbins \in Seq(ANubbin)
  BY <1>1 DEF AWorld
<1>3. x \in ANubbin
  BY DEF NewNubbin, ANubbin, Nubbin, Hour, Never
<1>4. AddNubbin(w, t) = [w EXCEPT !.nubbins = r]
  BY DEF AddNubbin
<1> HIDE DEF x
<1>5. r \in Seq(ANubbin) /\ Len(Alive(r)) >= Len(Alive(w.nubbins))
  BY <1>2, <1>3, LivingJoined
<1>6. Len(Alive(r)) >= k
  <2>1. Len(Alive(r)) \in Nat /\ Len(Alive(w.nubbins)) \in Nat
    BY <1>2, <1>5, AliveIs
  <2> HIDE DEF r
  <2> QED BY <1>1, <1>5, <2>1
<1> HIDE DEF r
<1>7. Peopled([w EXCEPT !.nubbins = r], m, k)
  <2>1. 0 \in Nat
    OBVIOUS
  <2> QED BY <1>1, <1>5, <1>6, <2>1, NubbinsIn
<1> QED BY <1>4, <1>7

\* A Nubbin leaves a dropping.
LEMMA LitterSpares ==
  ASSUME NEW m, NEW k \in Nat, NEW w, Peopled(w, m, k), NEW i \in DOMAIN w.nubbins, NEW t \in Nat
  PROVE  Peopled(Litter(w, i, t), m, k) /\ DOMAIN Litter(w, i, t).nubbins = DOMAIN w.nubbins
<1> DEFINE n == w.nubbins[i]
           x == [n EXCEPT !.drop = t + Nubbin.drop]
           r == [w.nubbins EXCEPT ![i] = x]
           one == IF n.torpid THEN 0 ELSE 1
           more == w.droppings + one
           done == [w EXCEPT !.droppings = more, !.nubbins = r]
<1>1. w \in AWorld /\ w.last = m /\ Len(Alive(w.nubbins)) >= k
  BY Zenon DEF Peopled
<1>2. w.nubbins \in Seq(ANubbin) /\ w.droppings \in Nat
  BY <1>1 DEF AWorld
<1>3. n \in ANubbin /\ t + Nubbin.drop \in Nat /\ more \in Nat
  <2>1. one \in Nat
    OBVIOUS
  <2> HIDE DEF one
  <2> QED BY <1>2, <2>1 DEF Nubbin
<1>4. Litter(w, i, t) = IF ~n.alive \/ t < n.drop THEN w ELSE done
  <2>1. done = [w EXCEPT !.nubbins[i].drop = t + Nubbin.drop, !.droppings = @ + one]
    BY <1>1 DEF AWorld
  <2> QED BY <2>1 DEF Litter
<1> HIDE DEF n, more
<1>5. x \in ANubbin /\ x.alive = n.alive
  BY <1>3 DEF ANubbin
<1> HIDE DEF x
<1>6. r \in Seq(ANubbin) /\ DOMAIN r = DOMAIN w.nubbins
  BY <1>2, <1>5, OneChanged
<1>7. Len(Alive(r)) >= Len(Alive(w.nubbins))
  BY <1>2, <1>5, NubbinLivesOn DEF n
<1>8. Len(Alive(r)) >= k
  <2>1. Len(Alive(r)) \in Nat /\ Len(Alive(w.nubbins)) \in Nat
    BY <1>2, <1>6, AliveIs
  <2> HIDE DEF r
  <2> QED BY <1>1, <1>7, <2>1
<1> HIDE DEF r
<1>9. Peopled(done, m, k)
  BY <1>1, <1>3, <1>6, <1>8, NubbinsIn
<1>10. done.nubbins = r
  BY <1>1 DEF AWorld
<1> HIDE DEF done
<1> QED BY <1>4, <1>6, <1>9, <1>10

\* A Nubbin has young, when it has eaten.
LEMMA BreedSpares ==
  ASSUME NEW m, NEW k \in Nat, NEW w, Peopled(w, m, k), NEW i \in DOMAIN w.nubbins, NEW t \in Nat
  PROVE  Peopled(Breed(w, i, t), m, k)
<1> DEFINE n == w.nubbins[i]
           x == [n EXCEPT !.birth = t + Nubbin.birth]
           r == [w.nubbins EXCEPT ![i] = x]
           later == [w EXCEPT !.nubbins = r]
<1>1. w \in AWorld /\ w.last = m /\ Len(Alive(w.nubbins)) >= k
  BY Zenon DEF Peopled
<1>2. w.nubbins \in Seq(ANubbin)
  BY <1>1 DEF AWorld
<1>3. n \in ANubbin /\ t + Nubbin.birth \in Nat
  BY <1>2 DEF Nubbin, Hour
<1>4. Breed(w, i, t) = IF ~n.alive \/ t < n.birth THEN w
                       ELSE IF n.torpid \/ n.hungry # Never THEN later ELSE AddNubbin(later, t)
  BY DEF Breed
<1> HIDE DEF n
<1>5. x \in ANubbin /\ x.alive = n.alive
  BY <1>3 DEF ANubbin
<1> HIDE DEF x
<1>6. r \in Seq(ANubbin) /\ DOMAIN r = DOMAIN w.nubbins
  BY <1>2, <1>5, OneChanged
<1>7. Len(Alive(r)) >= Len(Alive(w.nubbins))
  BY <1>2, <1>5, NubbinLivesOn DEF n
<1>8. Len(Alive(r)) >= k
  <2>1. Len(Alive(r)) \in Nat /\ Len(Alive(w.nubbins)) \in Nat
    BY <1>2, <1>6, AliveIs
  <2> HIDE DEF r
  <2> QED BY <1>1, <1>7, <2>1
<1> HIDE DEF r
<1>9. Peopled(later, m, k)
  <2>1. 0 \in Nat
    OBVIOUS
  <2> QED BY <1>1, <1>6, <1>8, <2>1, NubbinsIn
<1> HIDE DEF later
<1>10. Peopled(AddNubbin(later, t), m, k)
  BY <1>9, NubbinJoins
<1> QED BY <1>4, <1>9, <1>10

\* All that a Nubbin does at once.
LEMMA LiveNubbinSpares ==
  ASSUME NEW m, NEW k \in 0 .. 2, NEW w, Peopled(w, m, k), NEW i \in DOMAIN w.nubbins, NEW t \in Nat
  PROVE  Peopled(LiveNubbin(w, i, t), m, k)
<1> DEFINE fed == Feed(w, i, t)
           after == Litter(fed, i, t)
<1>1. Peopled(fed, m, k) /\ i \in DOMAIN fed.nubbins
  BY FeedSpares
<1>2. k \in Nat
  OBVIOUS
<1> HIDE DEF fed
<1>3. Peopled(after, m, k) /\ i \in DOMAIN after.nubbins
  <2>1. Peopled(after, m, k) /\ DOMAIN after.nubbins = DOMAIN fed.nubbins
    BY <1>1, <1>2, LitterSpares
  <2> HIDE DEF after
  <2> QED BY <1>1, <2>1
<1> HIDE DEF after
<1>4. Peopled(Breed(after, i, t), m, k)
  BY <1>2, <1>3, BreedSpares
<1> QED BY <1>4 DEF LiveNubbin, after, fed

\* What leaves the Nubbins alone leaves as many.
LEMMA AroundSpares ==
  ASSUME NEW m, NEW k, NEW w, Peopled(w, m, k), NEW v, Around(w, v)
  PROVE  Peopled(v, m, k)
BY DEF Peopled, Around

\* An event of a world: a clock's, or that of a plant or a creature.
Occurs(w, e) ==
  /\ e.at \in Nat
  /\ \/ e.i = 0 /\ e.what \in DOMAIN Every
     \/ e.i # 0 /\ e.what = "plant" /\ e.i \in DOMAIN w.plants
     \/ e.i # 0 /\ e.what = "nubbin" /\ e.i \in DOMAIN w.nubbins
     \/ e.i # 0 /\ e.what = "glim" /\ e.i \in DOMAIN w.glims

\* The next minute of whatever it is.
LEMMA NextIs ==
  /\ \A e \in APlant : NextOf(e, "plant") \in Nat
  /\ \A e \in ANubbin : NextOf(e, "nubbin") \in Nat
  /\ \A e \in AGlim : NextOf(e, "glim") \in Nat
<1>1. ASSUME NEW e \in APlant PROVE NextOf(e, "plant") \in Nat
  BY DEF APlant, NextOf, Never
<1>2. ASSUME NEW e \in ANubbin PROVE NextOf(e, "nubbin") \in Nat
  <2> DEFINE meal == IF e.torpid THEN Never ELSE e.meal
             T == {meal, e.drop, e.birth}
  <2>1. meal \in Nat /\ e.drop \in Nat /\ e.birth \in Nat /\ Never \in Nat
    BY DEF ANubbin, Never
  <2>2. NextOf(e, "nubbin") = IF ~e.alive THEN Never ELSE Min(T)
    BY DEF NextOf
  <2>3. T \in SUBSET Nat /\ T # {}
    <3> HIDE DEF meal
    <3> QED BY <2>1
  <2> HIDE DEF T
  <2>4. Min(T) \in Nat
    BY <2>3, LeastIsOne
  <2> QED BY <2>1, <2>2, <2>4
<1>3. ASSUME NEW e \in AGlim PROVE NextOf(e, "glim") \in Nat
  <2> DEFINE T == {e.meal, e.roe, e.birth}
  <2>1. e.roe \in Nat /\ e.meal \in Nat /\ e.birth \in Nat /\ Never \in Nat
    BY DEF AGlim, Never
  <2>2. NextOf(e, "glim") = IF ~e.alive THEN Never ELSE Min(T)
    BY DEF NextOf
  <2>3. T \in SUBSET Nat /\ T # {}
    BY <2>1
  <2> HIDE DEF T
  <2>4. Min(T) \in Nat
    BY <2>3, LeastIsOne
  <2> QED BY <2>1, <2>2, <2>4
<1> QED BY <1>1, <1>2, <1>3

\* A function over the first numbers is a list.
LEMMA ListOf == ASSUME NEW X, NEW n \in Nat, NEW f \in [1 .. n -> X] PROVE f \in Seq(X)
OBVIOUS

\* Two lists, one after the other.
LEMMA JoinedUp ==
  ASSUME NEW X, NEW s \in Seq(X), NEW r \in Seq(X), Len(s) >= 4
  PROVE  s \o r \in Seq(X) /\ Len(s \o r) >= 4
<1>1. Len(s \o r) = Len(s) + Len(r) /\ Len(s) \in Nat /\ Len(r) \in Nat
  OBVIOUS
<1> QED BY <1>1

\* All events of a world.
Events(w) ==
  {e \in [at : Nat, what : DOMAIN Every \cup {"plant", "nubbin", "glim"}, i : Nat] : Occurs(w, e)}
Clocks == [DOMAIN Every -> Nat]

\* What is due are events of the world, and something always is.
LEMMA DueOccurs ==
  ASSUME NEW w \in AWorld, NEW clocks \in Clocks
  PROVE  Due(w, clocks) \in Seq(Events(w)) /\ Due(w, clocks) # <<>>
<1> DEFINE names == <<"evaporate", "dry", "algae", "seep">>
           first == [k \in 1 .. 4 |-> [at |-> clocks[names[k]], what |-> names[k], i |-> 0]]
           plants == [i \in DOMAIN w.plants |-> [at |-> NextOf(w.plants[i], "plant"), what |-> "plant", i |-> i]]
           nubbins == [i \in DOMAIN w.nubbins |-> [at |-> NextOf(w.nubbins[i], "nubbin"), what |-> "nubbin", i |-> i]]
           glims == [i \in DOMAIN w.glims |-> [at |-> NextOf(w.glims[i], "glim"), what |-> "glim", i |-> i]]
           X == Events(w)
<1>1. Due(w, clocks) = first \o plants \o nubbins \o glims
  BY DEF Due
<1>2. w.plants \in Seq(APlant) /\ w.nubbins \in Seq(ANubbin) /\ w.glims \in Seq(AGlim)
  BY DEF AWorld
<1>3. first \in Seq(X) /\ Len(first) >= 4
  <2>1. ASSUME NEW k \in 1 .. 4 PROVE first[k] \in X
    <3>1. names[k] \in DOMAIN Every /\ first[k] = [at |-> clocks[names[k]], what |-> names[k], i |-> 0]
      BY DEF Every
    <3>2. clocks[names[k]] \in Nat
      BY <3>1 DEF Clocks
    <3> HIDE DEF names, first
    <3> QED BY <3>1, <3>2 DEF Events, Occurs
  <2>2. first \in [1 .. 4 -> X] /\ 4 \in Nat
    <3> HIDE DEF X
    <3> QED BY <2>1
  <2> HIDE DEF first, X
  <2>3. first \in Seq(X)
    BY <2>2, ListOf
  <2>4. Len(first) = 4
    BY <2>2
  <2> QED BY <2>3, <2>4
<1>4. plants \in Seq(X)
  <2>1. ASSUME NEW i \in DOMAIN w.plants PROVE plants[i] \in X
    <3>1. i \in Nat /\ i # 0 /\ w.plants[i] \in APlant
      BY <1>2
    <3>2. NextOf(w.plants[i], "plant") \in Nat
      BY <3>1, NextIs
    <3> QED BY <3>1, <3>2 DEF Events, Occurs
  <2>2. DOMAIN w.plants = 1 .. Len(w.plants) /\ Len(w.plants) \in Nat
    BY <1>2
  <2>3. plants \in [1 .. Len(w.plants) -> X]
    <3> HIDE DEF X
    <3> QED BY <2>1, <2>2
  <2> HIDE DEF plants, X
  <2> QED BY <2>2, <2>3, ListOf
<1>5. nubbins \in Seq(X)
  <2>1. ASSUME NEW i \in DOMAIN w.nubbins PROVE nubbins[i] \in X
    <3>1. i \in Nat /\ i # 0 /\ w.nubbins[i] \in ANubbin
      BY <1>2
    <3>2. NextOf(w.nubbins[i], "nubbin") \in Nat
      BY <3>1, NextIs
    <3> QED BY <3>1, <3>2 DEF Events, Occurs
  <2>2. DOMAIN w.nubbins = 1 .. Len(w.nubbins) /\ Len(w.nubbins) \in Nat
    BY <1>2
  <2>3. nubbins \in [1 .. Len(w.nubbins) -> X]
    <3> HIDE DEF X
    <3> QED BY <2>1, <2>2
  <2> HIDE DEF nubbins, X
  <2> QED BY <2>2, <2>3, ListOf
<1>6. glims \in Seq(X)
  <2>1. ASSUME NEW i \in DOMAIN w.glims PROVE glims[i] \in X
    <3>1. i \in Nat /\ i # 0 /\ w.glims[i] \in AGlim
      BY <1>2
    <3>2. NextOf(w.glims[i], "glim") \in Nat
      BY <3>1, NextIs
    <3> QED BY <3>1, <3>2 DEF Events, Occurs
  <2>2. DOMAIN w.glims = 1 .. Len(w.glims) /\ Len(w.glims) \in Nat
    BY <1>2
  <2>3. glims \in [1 .. Len(w.glims) -> X]
    <3> HIDE DEF X
    <3> QED BY <2>1, <2>2
  <2> HIDE DEF glims, X
  <2> QED BY <2>2, <2>3, ListOf
<1> HIDE DEF first, plants, nubbins, glims, X
<1>7. first \o plants \in Seq(X) /\ Len(first \o plants) >= 4
  BY <1>3, <1>4, JoinedUp, Zenon
<1>8. first \o plants \o nubbins \in Seq(X) /\ Len(first \o plants \o nubbins) >= 4
  BY <1>5, <1>7, JoinedUp, Zenon
<1>9. Due(w, clocks) \in Seq(X) /\ Len(Due(w, clocks)) >= 4
  BY <1>1, <1>6, <1>8, JoinedUp, Zenon
<1>10. Len(<<>>) = 0
  OBVIOUS
<1> QED BY <1>9, <1>10 DEF X

\* The earliest of what is due is one of it.
LEMMA EarliestIsDue ==
  ASSUME NEW X, NEW due \in Seq(X), due # <<>>, \A e \in X : e.at \in Nat
  PROVE  Earliest(due) \in X
<1> DEFINE K == {k \in DOMAIN due : \A m \in DOMAIN due : due[k].at <= due[m].at}
           T == {due[k].at : k \in DOMAIN due}
<1>1. T \in SUBSET Nat /\ T # {}
  <2>1. 1 \in DOMAIN due /\ \A k \in DOMAIN due : due[k] \in X
    OBVIOUS
  <2> QED BY <2>1
<1>2. PICK n \in T : \A j \in T : n <= j
  <2> HIDE DEF T
  <2> QED BY <1>1, Least
<1>3. K \in SUBSET Nat /\ K # {}
  <2>1. PICK k \in DOMAIN due : n = due[k].at
    BY <1>2
  <2>2. k \in K
    BY <1>2, <2>1
  <2>3. DOMAIN due \subseteq Nat
    OBVIOUS
  <2>4. K \subseteq DOMAIN due
    OBVIOUS
  <2> HIDE DEF K
  <2> QED BY <2>2, <2>3, <2>4
<1>4. Min(K) \in K
  <2> HIDE DEF K
  <2> QED BY <1>3, LeastIsOne
<1>5. Earliest(due) = due[Min(K)]
  BY DEF Earliest
<1> QED BY <1>4, <1>5

\* Whatever happens leaves the last two.
LEMMA HappenSpares ==
  ASSUME NEW m, NEW k \in 0 .. 2, NEW w, Peopled(w, m, k), NEW e, Occurs(w, e)
  PROVE  Peopled(Happen(w, e), m, k)
<1>1. w \in AWorld /\ e.at \in Nat
  BY Zenon DEF Peopled, Occurs
<1>2. CASE e.what = "evaporate"
  BY <1>1, <1>2, EvaporateAround, AroundSpares DEF Happen
<1>3. CASE e.what = "dry"
  <2>1. Happen(w, e) = Dry(w)
    BY <1>3 DEF Happen
  <2> QED BY <1>1, <2>1, DryAround, AroundSpares
<1>4. CASE e.what = "algae"
  <2>1. Happen(w, e) = Bloom(w, e.at)
    BY <1>4 DEF Happen
  <2> QED BY <1>1, <2>1, BloomAround, AroundSpares
<1>5. CASE e.what = "seep"
  <2>1. Happen(w, e) = Seep(w)
    BY <1>5 DEF Happen
  <2> QED BY <1>1, <2>1, SeepAround, AroundSpares
<1>6. CASE e.i # 0 /\ e.what = "plant" /\ e.i \in DOMAIN w.plants
  <2>1. Happen(w, e) = Fruit(w, e.i, e.at)
    BY <1>6 DEF Happen
  <2>2. Around(w, Fruit(w, e.i, e.at))
    BY <1>1, <1>6, FruitAround
  <2> QED BY <2>1, <2>2, AroundSpares
<1>7. CASE e.i # 0 /\ e.what = "nubbin" /\ e.i \in DOMAIN w.nubbins
  <2>1. Happen(w, e) = LiveNubbin(w, e.i, e.at)
    BY <1>7 DEF Happen
  <2> QED BY <1>1, <1>7, <2>1, LiveNubbinSpares
<1>8. CASE e.i # 0 /\ e.what = "glim" /\ e.i \in DOMAIN w.glims
  <2>1. Happen(w, e) = LiveGlim(w, e.i, e.at)
    BY <1>8 DEF Happen
  <2>2. Around(w, LiveGlim(w, e.i, e.at))
    BY <1>1, <1>8, LiveGlimAround
  <2> QED BY <2>1, <2>2, AroundSpares
<1> QED BY <1>2, <1>3, <1>4, <1>5, <1>6, <1>7, <1>8 DEF Occurs, Every

\* The states of a run through the minutes.
Running(m, k) == {s \in [w : AWorld, clocks : Clocks, over : BOOLEAN] : Peopled(s.w, m, k)}

LEMMA RunningIs ==
  ASSUME NEW m, NEW k, NEW s, s \in Running(m, k)
  PROVE  Peopled(s.w, m, k) /\ s.w \in AWorld /\ s.clocks \in Clocks /\ s.over \in BOOLEAN
BY Zenon DEF Running

LEMMA InRunning ==
  ASSUME NEW m, NEW k, NEW w, Peopled(w, m, k), NEW clocks \in Clocks, NEW over \in BOOLEAN
  PROVE  [w |-> w, clocks |-> clocks, over |-> over] \in Running(m, k)
BY Zenon DEF Running, Peopled

LEMMA RunStops ==
  ASSUME NEW A, NEW B, NEW s \in [w : A, clocks : B, over : BOOLEAN]
  PROVE  /\ [s EXCEPT !.over = TRUE] \in [w : A, clocks : B, over : BOOLEAN]
         /\ [s EXCEPT !.over = TRUE].w = s.w
OBVIOUS

\* One event on.
LEMMA NextEventSpares ==
  ASSUME NEW m, NEW k \in 0 .. 2, NEW s \in Running(m, k), NEW until
  PROVE  NextEvent(s, until) \in Running(m, k)
<1> DEFINE e == Earliest(Due(s.w, s.clocks))
           v == Happen(s.w, e)
           later == [s.clocks EXCEPT ![e.what] = e.at + Every[e.what]]
           clocks == IF e.i = 0 THEN later ELSE s.clocks
           idle == [s EXCEPT !.over = TRUE]
           on == [w |-> v, over |-> FALSE, clocks |-> clocks]
<1>1. Peopled(s.w, m, k) /\ s.w \in AWorld /\ s.clocks \in Clocks
  BY RunningIs
<1>2. e \in Events(s.w)
  <2>1. Due(s.w, s.clocks) \in Seq(Events(s.w)) /\ Due(s.w, s.clocks) # <<>>
    BY <1>1, DueOccurs
  <2>2. \A x \in Events(s.w) : x.at \in Nat
    BY Zenon DEF Events, Occurs
  <2> QED BY <2>1, <2>2, EarliestIsDue
<1>3. NextEvent(s, until) = IF s.over THEN s ELSE IF e.at > until THEN idle ELSE on
  BY DEF NextEvent
<1> HIDE DEF e
<1>4. Occurs(s.w, e) /\ e.at \in Nat /\ (e.i = 0 => e.what \in DOMAIN Every)
  <2>1. Occurs(s.w, e)
    BY <1>2, Zenon DEF Events
  <2> QED BY <2>1, Zenon DEF Occurs
<1>5. clocks \in Clocks
  <2>1. CASE e.i = 0
    <3>1. e.what \in DOMAIN Every
      BY <1>4, <2>1
    <3>2. Every[e.what] \in Nat
      BY <3>1 DEF Every
    <3>3. later \in Clocks
      BY <1>1, <1>4, <3>1, <3>2 DEF Clocks
    <3> QED BY <2>1, <3>3
  <2>2. CASE e.i # 0
    BY <1>1, <2>2
  <2> QED BY <2>1, <2>2
<1>6. Peopled(v, m, k)
  BY <1>1, <1>4, HappenSpares
<1> HIDE DEF clocks, v
<1>7. on \in Running(m, k)
  <2>1. on = [w |-> v, clocks |-> clocks, over |-> FALSE]
    OBVIOUS
  <2> QED BY <1>5, <1>6, <2>1, InRunning, Zenon
<1>8. idle \in Running(m, k)
  <2>1. s \in [w : AWorld, clocks : Clocks, over : BOOLEAN]
    BY Zenon DEF Running
  <2>2. idle \in [w : AWorld, clocks : Clocks, over : BOOLEAN] /\ idle.w = s.w
    BY <2>1, RunStops
  <2> HIDE DEF idle
  <2> QED BY <1>1, <2>2, Zenon DEF Running
<1> HIDE DEF on, idle
<1> QED BY <1>3, <1>7, <1>8

\* As many events as resolve lets happen.
LEMMA RunSpares ==
  ASSUME NEW m, NEW k \in 0 .. 2, NEW w, Peopled(w, m, k), NEW clocks \in Clocks, NEW until
  PROVE  Peopled(Run(w, clocks, until), m, k)
<1> DEFINE V == Running(m, k)
           first == [w |-> w, clocks |-> clocks, over |-> FALSE]
           step == [n \in 1 .. Guard |-> [v \in V |-> NextEvent(v, until)]]
           D(f, n) == IF n = 0 THEN first ELSE NextEvent(f[n - 1], until)
           after == CHOOSE f : f = [n \in 0 .. Guard |-> D(f, n)]
<1>1. Guard \in Nat /\ first \in V
  <2>1. Guard \in Nat
    BY VivariumAssumption
  <2>2. first \in V
    BY InRunning, Zenon
  <2> QED BY <2>1, <2>2
<1>2. step \in [1 .. Guard -> [V -> V]]
  <2>1. \A v \in V : NextEvent(v, until) \in V
    BY NextEventSpares
  <2> HIDE DEF V
  <2> QED BY <2>1
<1>3. \A n \in 1 .. Guard : \A v \in V : step[n][v] = NextEvent(v, until)
  OBVIOUS
<1>4. PICK f : Stepwise(f, Guard, V, first, step)
  <2> HIDE DEF V, first, step
  <2> QED BY <1>1, <1>2, StepwiseExists
<1>5. f \in [0 .. Guard -> V] /\ f[0] = first /\ \A n \in 1 .. Guard : f[n] = step[n][f[n - 1]]
  <2> HIDE DEF V, first, step
  <2> QED BY <1>4 DEF Stepwise
<1>6. \A n \in 0 .. Guard : f[n] = D(f, n)
  <2> SUFFICES ASSUME NEW n \in 0 .. Guard PROVE f[n] = D(f, n)
    OBVIOUS
  <2>1. CASE n = 0
    <3> HIDE DEF V, first, step
    <3> QED BY <1>5, <2>1
  <2>2. CASE n # 0
    <3>1. n \in 1 .. Guard /\ n - 1 \in 0 .. Guard
      BY <1>1, <2>2
    <3>2. f[n - 1] \in V /\ f[n] = step[n][f[n - 1]]
      <4> HIDE DEF V, first, step
      <4> QED BY <1>5, <3>1
    <3>3. step[n][f[n - 1]] = NextEvent(f[n - 1], until)
      <4> HIDE DEF V, first, step
      <4> QED BY <1>3, <3>1, <3>2
    <3> HIDE DEF V, first, step
    <3> QED BY <2>2, <3>2, <3>3
  <2> QED BY <2>1, <2>2
<1>7. after = [n \in 0 .. Guard |-> D(after, n)]
  <2>1. f = [n \in 0 .. Guard |-> D(f, n)]
    <3> HIDE DEF V, step, D, first
    <3> QED BY <1>5, <1>6
  <2> QED BY <2>1
<1>8. Run(w, clocks, until) = after[Guard].w
  BY DEF Run
<1> HIDE DEF after
<1>9. \A n \in 0 .. Guard : after[n] = D(after, n)
  <2> HIDE DEF D
  <2> QED BY <1>7
<1> DEFINE N == {n \in 0 .. Guard : after[n] \in V}
<1>10. 0 \in N
  <2> HIDE DEF V, first
  <2> QED BY <1>1, <1>9
<1>11. ASSUME NEW n \in 0 .. Guard - 1, n \in N PROVE n + 1 \in N
  <2>1. n + 1 \in 0 .. Guard /\ n + 1 # 0 /\ (n + 1) - 1 = n
    BY <1>1
  <2>2. after[n + 1] = NextEvent(after[n], until)
    <3> HIDE DEF V, first
    <3> QED BY <1>9, <2>1
  <2>3. after[n] \in V
    BY <1>11
  <2>4. after[n + 1] \in V
    BY <2>2, <2>3, NextEventSpares
  <2> HIDE DEF V
  <2> QED BY <2>1, <2>4
<1>12. 0 .. Guard \subseteq N
  <2> HIDE DEF N
  <2> QED BY <1>1, <1>10, <1>11, UpTo
<1>13. after[Guard] \in V
  <2> HIDE DEF V
  <2> QED BY <1>1, <1>12
<1> QED BY <1>8, <1>13, RunningIs

\* Where all live, all are left.
LEMMA AllLeft ==
  ASSUME NEW T, NEW s \in Seq(T), \A i \in DOMAIN s : s[i].alive
  PROVE  Len(Alive(s)) = Len(s)
<1>1. Survivors(s) = 1 .. Len(s) /\ Len(s) \in Nat
  BY DEF Survivors
<1>2. Cardinality(1 .. Len(s)) = Len(s)
  BY <1>1, FS_Interval
<1> QED BY <1>1, <1>2, AliveIs

\* The dead go, the last ones sleep, and none is lost.
LEMMA BedrockSpares ==
  ASSUME NEW m, NEW k \in Nat, NEW w, Peopled(w, m, k)
  PROVE  Peopled(Bedrock(w), m, k)
<1> DEFINE left == Alive(w.nubbins)
           sleepy == [i \in DOMAIN left |-> [left[i] EXCEPT !.torpid = TRUE]]
           glims == Alive(w.glims)
           r == IF Len(left) < TorporFloor THEN sleepy ELSE left
<1>1. w \in AWorld /\ w.last = m /\ Len(Alive(w.nubbins)) >= k
  BY Zenon DEF Peopled
<1>2. w.nubbins \in Seq(ANubbin) /\ w.glims \in Seq(AGlim)
  BY <1>1 DEF AWorld
<1>3. left \in Seq(ANubbin) /\ \A i \in DOMAIN left : left[i].alive
  BY <1>2, AliveIs
<1>4. glims \in Seq(AGlim)
  BY <1>2, AliveIs
<1>5. Bedrock(w) = [w EXCEPT !.glims = glims, !.nubbins = r]
  BY DEF Bedrock, Update
<1>6. Len(left) >= k /\ Len(left) \in Nat
  BY <1>1, <1>3
<1> HIDE DEF left, glims
<1>7. /\ sleepy \in Seq(ANubbin) /\ Len(sleepy) = Len(left)
      /\ \A i \in DOMAIN sleepy : sleepy[i].alive
  <2>1. ASSUME NEW i \in DOMAIN left PROVE sleepy[i] \in ANubbin /\ sleepy[i].alive
    <3>1. left[i] \in ANubbin /\ left[i].alive /\ sleepy[i] = [left[i] EXCEPT !.torpid = TRUE]
      BY <1>3
    <3> HIDE DEF sleepy
    <3> QED BY <3>1 DEF ANubbin
  <2>2. DOMAIN left = 1 .. Len(left) /\ DOMAIN sleepy = DOMAIN left
    BY <1>3
  <2>3. sleepy \in [1 .. Len(left) -> ANubbin]
    BY <2>1, <2>2
  <2> HIDE DEF sleepy
  <2>4. sleepy \in Seq(ANubbin)
    BY <1>6, <2>3, ListOf
  <2>5. Len(sleepy) = Len(left)
    BY <1>6, <2>2, <2>4
  <2> QED BY <2>1, <2>2, <2>4, <2>5
<1> HIDE DEF sleepy
<1>8. r \in Seq(ANubbin) /\ Len(r) = Len(left) /\ \A i \in DOMAIN r : r[i].alive
  <2>1. CASE Len(left) < TorporFloor
    BY <1>7, <2>1
  <2>2. CASE ~(Len(left) < TorporFloor)
    BY <1>3, <2>2
  <2> QED BY <2>1, <2>2
<1> HIDE DEF r
<1>9. Len(Alive(r)) >= k
  <2>1. Len(Alive(r)) = Len(r)
    BY <1>8, AllLeft
  <2> QED BY <1>6, <1>8, <2>1
<1> QED BY <1>1, <1>4, <1>5, <1>8, <1>9 DEF Peopled, AWorld

\* A look, however long after the last, spares the last two.
LEMMA ResolveSpares ==
  ASSUME NEW w \in AWorld, NEW now \in Nat, NEW k \in 0 .. 2, Len(Alive(w.nubbins)) >= k
  PROVE  Peopled(ResolveWorld(w, now), now, k)
<1> DEFINE clocks == [c \in DOMAIN Every |-> w.last + Every[c]]
           after == Run(w, clocks, now)
           looked == [after EXCEPT !.last = now, !.plants = Alive(after.plants)]
<1>1. clocks \in Clocks
  <2>1. \A c \in DOMAIN Every : Every[c] \in Nat
    BY DEF Every
  <2>2. w.last \in Nat
    BY DEF AWorld
  <2> QED BY <2>1, <2>2 DEF Clocks
<1>2. Peopled(w, w.last, k)
  BY DEF Peopled
<1> HIDE DEF clocks
<1>3. Peopled(after, w.last, k)
  BY <1>1, <1>2, RunSpares
<1>4. ResolveWorld(w, now) = Bedrock(looked)
  BY DEF ResolveWorld, clocks
<1> HIDE DEF after
<1>5. after \in AWorld /\ Len(Alive(after.nubbins)) >= k
  BY <1>3, Zenon DEF Peopled
<1>6. Alive(after.plants) \in Seq(APlant)
  <2>1. after.plants \in Seq(APlant)
    BY <1>5 DEF AWorld
  <2> QED BY <2>1, AliveIs
<1>7. Peopled(looked, now, k)
  BY <1>5, <1>6 DEF Peopled, AWorld
<1> HIDE DEF looked
<1>8. k \in Nat
  OBVIOUS
<1> QED BY <1>4, <1>7, <1>8, BedrockSpares

-----------------------------------------------------------------------------
(* What the player does to the vivarium.                                    *)

\* v is a world of the same minute as w.
Meanwhile(w, v) == v \in AWorld /\ v.last = w.last

LEMMA MeanwhileOn ==
  ASSUME NEW w, NEW v, NEW u, Meanwhile(w, v), Meanwhile(v, u)
  PROVE  Meanwhile(w, u)
BY DEF Meanwhile

\* Watered plants.
LEMMA WateredPlants ==
  ASSUME NEW s \in Seq(APlant)
  PROVE  Update(s, Watered) \in Seq(APlant)
<1>1. \A i \in DOMAIN s : s[i] \in APlant
  OBVIOUS
<1>2. \A i \in DOMAIN s : Watered(s[i]) \in APlant
  BY <1>1 DEF APlant, Watered
<1> QED BY <1>2 DEF Update

LEMMA IrrigateMeanwhile == ASSUME NEW w \in AWorld PROVE Meanwhile(w, Irrigate(w))
<1> DEFINE plants == Update(w.plants, Watered)
           nitrate == w.nitrate + 2 * w.droppings
<1>1. w.plants \in Seq(APlant) /\ w.nitrate \in Nat /\ w.droppings \in Nat
  BY DEF AWorld
<1>2. plants \in Seq(APlant)
  BY <1>1, WateredPlants
<1>3. nitrate \in Nat
  BY <1>1
<1>4. Irrigate(w) = [w EXCEPT !.humidity = 100, !.plants = plants, !.nitrate = nitrate, !.droppings = 0]
  BY DEF Irrigate
<1> HIDE DEF plants, nitrate
<1> DEFINE wetter == [w EXCEPT !.humidity = 100, !.plants = plants]
<1>5. wetter \in AWorld /\ wetter.last = w.last
  BY <1>2 DEF AWorld
<1>6. Irrigate(w) = [wetter EXCEPT !.nitrate = nitrate, !.droppings = 0]
  BY <1>4
<1> HIDE DEF wetter
<1>7. ASSUME NEW u \in AWorld, NEW a \in Nat, NEW b \in Nat
      PROVE  [u EXCEPT !.nitrate = a, !.droppings = b] \in AWorld /\ [u EXCEPT !.nitrate = a, !.droppings = b].last = u.last
  BY <1>7 DEF AWorld
<1>8. Irrigate(w) \in AWorld /\ Irrigate(w).last = wetter.last
  <2>1. 0 \in Nat
    OBVIOUS
  <2>2. wetter \in AWorld /\ nitrate \in Nat
    BY <1>3, <1>5
  <2> DEFINE done == [wetter EXCEPT !.nitrate = nitrate, !.droppings = 0]
  <2>3. done \in AWorld /\ done.last = wetter.last
    BY <1>7, <2>1, <2>2, Zenon
  <2>4. Irrigate(w) = done
    BY <1>6
  <2> HIDE DEF done
  <2> QED BY <2>3, <2>4
<1> QED BY <1>5, <1>8 DEF Meanwhile

LEMMA DrownMeanwhile == ASSUME NEW w \in AWorld PROVE Meanwhile(w, Drown(w))
<1> DEFINE first == {i \in DOMAIN w.nubbins :
                       w.nubbins[i].alive /\ Len(Alive(SubSeq(w.nubbins, 1, i - 1))) < 2}
           nubbins == [i \in DOMAIN w.nubbins |-> IF i \in first THEN [w.nubbins[i] EXCEPT !.alive = FALSE]
                                                  ELSE w.nubbins[i]]
           plants == [i \in DOMAIN w.plants |-> IF w.plants[i].seed THEN [w.plants[i] EXCEPT !.alive = FALSE]
                                                ELSE w.plants[i]]
           nitrate == w.nitrate \div 2
<1>1. w.plants \in Seq(APlant) /\ w.nitrate \in Nat /\ w.nubbins \in Seq(ANubbin)
  BY DEF AWorld
<1>2. Drown(w) = [w EXCEPT !.nubbins = nubbins, !.nitrate = nitrate, !.plants = plants]
  BY DEF Drown, Update
<1>3. plants \in Seq(APlant)
  <2>1. \A i \in DOMAIN w.plants : w.plants[i] \in APlant
    BY <1>1
  <2>2. \A i \in DOMAIN w.plants : plants[i] \in APlant
    BY <2>1 DEF APlant
  <2>3. DOMAIN w.plants = 1 .. Len(w.plants) /\ Len(w.plants) \in Nat
    BY <1>1
  <2>4. plants \in [1 .. Len(w.plants) -> APlant]
    BY <2>2, <2>3
  <2> HIDE DEF plants
  <2> QED BY <2>3, <2>4, ListOf
<1> HIDE DEF first
<1>4. nubbins \in Seq(ANubbin)
  <2>1. \A i \in DOMAIN w.nubbins : w.nubbins[i] \in ANubbin
    BY <1>1
  <2>2. \A i \in DOMAIN w.nubbins : nubbins[i] \in ANubbin
    BY <2>1 DEF ANubbin
  <2>3. DOMAIN w.nubbins = 1 .. Len(w.nubbins) /\ Len(w.nubbins) \in Nat
    BY <1>1
  <2>4. nubbins \in [1 .. Len(w.nubbins) -> ANubbin]
    BY <2>2, <2>3
  <2> HIDE DEF nubbins
  <2> QED BY <2>3, <2>4, ListOf
<1>5. nitrate \in Nat
  BY <1>1
<1> HIDE DEF nubbins, plants, nitrate
<1> QED BY <1>2, <1>3, <1>4, <1>5 DEF Meanwhile, AWorld

LEMMA PourMeanwhile == ASSUME NEW w \in AWorld, NEW units \in Nat PROVE Meanwhile(w, Pour(w, units))
<1> DEFINE plants == Update(w.plants, Watered)
           water == Min({BasinCap, w.water + units})
           humidity == Min({100, w.humidity + units})
           wet == [w EXCEPT !.water = water, !.humidity = humidity, !.plants = plants]
           after == IF units > FloodsAbove THEN Drown(wet) ELSE wet
<1>1. w.plants \in Seq(APlant) /\ w.water \in Nat /\ w.humidity \in Nat
  BY DEF AWorld
<1>2. plants \in Seq(APlant)
  BY <1>1, WateredPlants
<1>3. water \in Nat /\ humidity \in Nat
  <2>1. BasinCap \in Nat /\ 100 \in Nat /\ w.water + units \in Nat /\ w.humidity + units \in Nat
    BY <1>1 DEF BasinCap
  <2>2. water \in {BasinCap, w.water + units} /\ humidity \in {100, w.humidity + units}
    BY <2>1, OfTwo
  <2> QED BY <2>1, <2>2
<1>4. Pour(w, units) = IF 10 * after.water >= 8 * BasinCap THEN Irrigate(after) ELSE after
  BY DEF Pour
<1> HIDE DEF plants, water, humidity
<1>5. Meanwhile(w, wet) /\ wet \in AWorld
  BY <1>2, <1>3 DEF Meanwhile, AWorld
<1> HIDE DEF wet
<1>6. Meanwhile(w, after) /\ after \in AWorld
  <2>1. Meanwhile(wet, Drown(wet))
    BY <1>5, DrownMeanwhile
  <2>2. Meanwhile(w, Drown(wet))
    BY <1>5, <2>1, MeanwhileOn
  <2>3. Meanwhile(w, after)
    BY <1>5, <2>2
  <2> HIDE DEF after
  <2> QED BY <2>3, Zenon DEF Meanwhile
<1> HIDE DEF after
<1>7. Meanwhile(after, Irrigate(after))
  BY <1>6, IrrigateMeanwhile
<1>8. Meanwhile(w, Irrigate(after))
  BY <1>6, <1>7, MeanwhileOn
<1> QED BY <1>4, <1>6, <1>8

LEMMA PlantMeanwhile ==
  ASSUME NEW w \in AWorld, NEW species \in DOMAIN Matures
  PROVE  Meanwhile(w, Plant(w, species))
<1> DEFINE new == NewPlant(species, w.last)
           plants == Append(w.plants, new)
<1>1. w.plants \in Seq(APlant) /\ w.last \in Nat
  BY DEF AWorld
<1>2. Matures[species] \in Nat
  BY DEF Matures
<1>3. new \in APlant
  BY <1>1, <1>2 DEF NewPlant, APlant
<1>4. Plant(w, species) = [w EXCEPT !.plants = plants]
  BY DEF Plant
<1> HIDE DEF new
<1>5. plants \in Seq(APlant)
  BY <1>1, <1>3
<1> HIDE DEF plants
<1> QED BY <1>4, <1>5 DEF Meanwhile, AWorld

-----------------------------------------------------------------------------
(* The desk of the vivarium.                                                *)

ADeed == [minute : Nat, act : {"pour", "sow", "add"}, amount : Pours \cup Species \cup {"nubbin", "glim"}]

\* The inductive invariant: the world as kept, and what was done to it.
VivariumInv == VivariumTypeOK /\ deeds \in Seq(ADeed)

\* Every step leaves the world as it is kept; a deed takes no time, and a look spares the last two.
LEMMA DeedIs ==
  ASSUME VivariumInv, NEW act \in {"pour", "sow", "add"}, NEW amount \in Pours \cup Species \cup {"nubbin", "glim"},
         Deed(act, amount), Meanwhile(world, world')
  PROVE  VivariumInv' /\ world'.last = world.last
<1>1. world \in AWorld /\ world.last <= LastMinute /\ deeds \in Seq(ADeed) /\ Len(deeds) <= MaxDeeds
  BY DEF VivariumInv, VivariumTypeOK
<1>2. world.last \in Nat /\ MaxDeeds \in Nat
  BY <1>1, VivariumAssumption DEF AWorld
<1>3. [minute |-> world.last, act |-> act, amount |-> amount] \in ADeed
  BY <1>2 DEF ADeed
<1>4. deeds' \in Seq(ADeed) /\ Len(deeds') <= MaxDeeds
  <2> DEFINE d == [minute |-> world.last, act |-> act, amount |-> amount]
  <2>1. Len(deeds) < MaxDeeds /\ deeds' = Append(deeds, d)
    BY DEF Deed
  <2> HIDE DEF d
  <2>2. Append(deeds, d) \in Seq(ADeed) /\ Len(Append(deeds, d)) = Len(deeds) + 1 /\ Len(deeds) \in Nat
    BY <1>1, <1>3 DEF d
  <2> QED BY <1>2, <2>1, <2>2
<1>5. world' \in AWorld /\ world'.last = world.last
  BY Zenon DEF Meanwhile
<1> QED BY <1>1, <1>4, <1>5 DEF VivariumInv, VivariumTypeOK

LEMMA LookSpares ==
  ASSUME VivariumInv, NEW wait \in Waits, Look(wait)
  PROVE  /\ VivariumInv'
         /\ Len(Alive(world'.nubbins)) >= Min({TorporFloor - 1, Len(Alive(world.nubbins))})
<1> DEFINE now == world.last + wait
           k == Min({TorporFloor - 1, Len(Alive(world.nubbins))})
<1>1. world \in AWorld /\ deeds \in Seq(ADeed) /\ Len(deeds) <= MaxDeeds
  BY DEF VivariumInv, VivariumTypeOK
<1>2. now \in Nat /\ now <= LastMinute /\ world' = ResolveWorld(world, now) /\ deeds' = deeds
  <2>1. world.last \in Nat /\ wait \in Nat
    BY <1>1, VivariumAssumption DEF AWorld
  <2> QED BY <2>1 DEF Look
<1>3. Len(Alive(world.nubbins)) \in Nat
  <2>1. world.nubbins \in Seq(ANubbin)
    BY <1>1 DEF AWorld
  <2>2. Alive(world.nubbins) \in Seq(ANubbin)
    BY <2>1, AliveIs
  <2> QED BY <2>2
<1>4. k \in 0 .. 2 /\ Len(Alive(world.nubbins)) >= k
  <2> DEFINE n == Len(Alive(world.nubbins))
  <2> HIDE DEF n
  <2>1. \E x \in {2, n} : \A y \in {2, n} : x <= y
    BY <1>3 DEF n
  <2>2. Min({2, n}) \in {2, n} /\ \A y \in {2, n} : Min({2, n}) <= y
    BY <2>1 DEF Min
  <2>3. Min({2, n}) \in 0 .. 2 /\ n >= Min({2, n})
    BY <1>3, <2>2 DEF n
  <2>4. TorporFloor - 1 = 2
    BY DEF TorporFloor
  <2> QED BY <2>3, <2>4 DEF n
<1> HIDE DEF now, k
<1>5. Peopled(ResolveWorld(world, now), now, k)
  BY <1>1, <1>2, <1>4, ResolveSpares
<1>6. world' \in AWorld /\ world'.last = now /\ Len(Alive(world'.nubbins)) >= k
  BY <1>2, <1>5, Zenon DEF Peopled
<1> QED BY <1>1, <1>2, <1>6 DEF VivariumInv, VivariumTypeOK, k

LEMMA VivariumInitInv == ASSUME VivariumInit PROVE VivariumInv
<1>1. world \in AWorld /\ world.last <= LastMinute /\ deeds = <<>> /\ MaxDeeds \in Nat
  BY VivariumAssumption DEF VivariumInit
<1> QED BY <1>1 DEF VivariumInv, VivariumTypeOK

\* What every step does.
VivariumStep ==
  world'.last > world.last =>
    Len(Alive(world'.nubbins)) >= Min({TorporFloor - 1, Len(Alive(world.nubbins))})

LEMMA VivariumNextInv ==
  ASSUME VivariumInv, [VivariumNext]_vivariumVars
  PROVE  VivariumInv' /\ VivariumStep
<1>1. world \in AWorld /\ world.last \in Nat
  BY DEF VivariumInv, VivariumTypeOK, AWorld
<1>2. ASSUME NEW wait \in Waits, Look(wait) PROVE VivariumInv' /\ VivariumStep
  BY <1>2, LookSpares DEF VivariumStep
<1>3. ASSUME VivariumInv', world'.last = world.last PROVE VivariumInv' /\ VivariumStep
  BY <1>1, <1>3 DEF VivariumStep
<1>4. ASSUME NEW units \in Pours, PourWater(units) PROVE VivariumInv' /\ world'.last = world.last
  <2>1. units \in Nat /\ Deed("pour", units) /\ world' = Pour(world, units)
    BY <1>4, VivariumAssumption DEF PourWater
  <2>2. Meanwhile(world, world')
    BY <1>1, <2>1, PourMeanwhile
  <2> QED BY <2>1, <2>2, DeedIs
<1>5. ASSUME NEW species \in Species, Sow(species) PROVE VivariumInv' /\ world'.last = world.last
  <2>1. species \in DOMAIN Matures /\ Deed("sow", species) /\ world' = Plant(world, species)
    BY <1>5, VivariumAssumption DEF Sow
  <2>2. Meanwhile(world, world')
    BY <1>1, <2>1, PlantMeanwhile
  <2> QED BY <2>1, <2>2, DeedIs
<1>6. ASSUME NEW what \in {"nubbin", "glim"}, Add(what) PROVE VivariumInv' /\ world'.last = world.last
  <2>1. Deed("add", what)
    BY <1>6 DEF Add
  <2>2. Meanwhile(world, world')
    <3>1. CASE what = "nubbin"
      <4>1. world' = AddNubbin(world, world.last)
        BY <1>6, <3>1 DEF Add
      <4>2. Peopled(world, world.last, 0)
        <5>1. world.nubbins \in Seq(ANubbin)
          BY <1>1 DEF AWorld
        <5>2. Len(Alive(world.nubbins)) >= 0
          BY <5>1, AliveIs
        <5> QED BY <1>1, <5>2 DEF Peopled
      <4>3. Peopled(world', world.last, 0)
        BY <1>1, <4>1, <4>2, NubbinJoins
      <4> QED BY <4>3, Zenon DEF Peopled, Meanwhile
    <3>2. CASE what # "nubbin"
      <4>1. world' = AddGlim(world, world.last)
        BY <1>6, <3>2 DEF Add
      <4>2. Around(world, world')
        BY <1>1, <4>1, GlimAround
      <4> QED BY <4>2, Zenon DEF Around, Meanwhile
    <3> QED BY <3>1, <3>2
  <2> QED BY <2>1, <2>2, DeedIs
<1>7. ASSUME UNCHANGED vivariumVars PROVE VivariumInv' /\ world'.last = world.last
  BY <1>7 DEF VivariumInv, VivariumTypeOK, vivariumVars
<1> QED BY <1>2, <1>3, <1>4, <1>5, <1>6, <1>7 DEF VivariumNext

\* The world stays one of its kind, and its clock within its bound (vivarium.js: resolve, and what a
\* player does): every event of a run keeps every amount and every minute a number.
THEOREM VivariumTyped == VivariumSpec => []VivariumTypeOK
<1>1. VivariumInit => VivariumInv
  BY VivariumInitInv
<1>2. VivariumInv /\ [VivariumNext]_vivariumVars => VivariumInv'
  BY VivariumNextInv
<1>3. VivariumInv => VivariumTypeOK
  BY DEF VivariumInv
<1> QED BY <1>1, <1>2, <1>3, PTL DEF VivariumSpec

\* However long nobody looks, hunger ends none of the last two Nubbins (vivarium.js:14, stepNubbin:241
\* to 258), for worlds of any size, any waits and any deeds between two looks.
THEOREM HungerSparesLast == VivariumSpec => HungerSpares
<1>1. VivariumInit => VivariumInv
  BY VivariumInitInv
<1>2. VivariumInv /\ [VivariumNext]_vivariumVars => VivariumInv'
  BY VivariumNextInv
<1>3. VivariumInv /\ [VivariumNext]_vivariumVars =>
        [world'.last > world.last =>
          Len(Alive(world'.nubbins)) >= Min({TorporFloor - 1, Len(Alive(world.nubbins))})]_vivariumVars
  BY VivariumNextInv DEF VivariumStep
<1>4. VivariumInv => VivariumTypeOK
  BY DEF VivariumInv
<1> QED BY <1>1, <1>2, <1>3, <1>4, PTL DEF VivariumSpec, HungerSpares
=============================================================================
