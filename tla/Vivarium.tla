------------------------------ MODULE Vivarium ------------------------------
(***************************************************************************)
(* src/adventure/vivarium.js: a world in which every creature knows the minute *)
(* of its next event.  Nothing runs: the world is resolved up to the minute in *)
(* which its player looks.                                                     *)
(***************************************************************************)
EXTENDS Integers, Sequences, FiniteSets, FiniteSetsExt, SequencesExt

CONSTANTS
  Worlds,          \* worlds to begin with
  Species, Pours, Waits,
  Tiles,           \* of the world, for plants that do not float
  Guard,           \* events before resolve gives up
  MaxDeeds, LastMinute

VARIABLES
  world,       \* as kept: resolved at every look
  deeds        \* history: what the player did, [minute, act, amount]

vivariumVars == <<world, deeds>>

-----------------------------------------------------------------------------
(* Tables.                                                                  *)

Never == 1000000
Hour == 60
Matures == [Clover |-> 20, Carrot |-> 60, Duckweed |-> 40, Catnip |-> 180]
Yields == [Clover |-> 30, Carrot |-> 30, Duckweed |-> Never, Catnip |-> 360]
Nubbin == [meal |-> 30, drop |-> 60, birth |-> 12 * Hour, starve |-> 90, again |-> 10]
Glim == [meal |-> 60, roe |-> 24 * Hour, birth |-> 12 * Hour, starve |-> 3 * Hour, again |-> 15]
Every == [evaporate |-> 30, dry |-> 10, algae |-> 60, seep |-> 60]
BasinCap == 100
Damp == 30          \* HUMIDITY_FLOOR
WiltAfter == 3 * Hour
FloodsAbove == 40
TorporFloor == 3

ANubbin == [meal : Nat, drop : Nat, birth : Nat, hungry : Nat, torpid : BOOLEAN, alive : BOOLEAN]
AGlim == [meal : Nat, roe : Nat, birth : Nat, hungry : Nat, alive : BOOLEAN]
APlant == [species : DOMAIN Matures, seed : BOOLEAN, next : Nat, dry : Nat, alive : BOOLEAN]
AWorld == [water : Nat, nitrate : Nat, algae : Nat, greens : Nat, droppings : Nat, roe : Nat, catnip : Nat,
           humidity : Nat, last : Nat, plants : Seq(APlant), nubbins : Seq(ANubbin), glims : Seq(AGlim),
           seeds : SUBSET DOMAIN Matures]

VivariumTypeOK == world \in AWorld /\ world.last <= LastMinute /\ Len(deeds) <= MaxDeeds
ASSUME VivariumAssumption ==
  /\ \A w \in Worlds : w \in AWorld /\ w.last <= LastMinute
  /\ Species \subseteq DOMAIN Matures
  /\ Pours \cup Waits \cup {Tiles, Guard, MaxDeeds, LastMinute} \subseteq Nat

Alive(s) ==
  LET upTo[k \in 0 .. Len(s)] ==
        IF k = 0 THEN <<>> ELSE IF s[k].alive THEN Append(upTo[k - 1], s[k]) ELSE upTo[k - 1]
  IN upTo[Len(s)]
Update(s, F(_)) == [i \in DOMAIN s |-> F(s[i])]

-----------------------------------------------------------------------------
(* What the player does.                                                    *)

NewNubbin(t) == [meal |-> t + Nubbin.meal, drop |-> t + Nubbin.drop, birth |-> t + Nubbin.birth,
                 hungry |-> Never, torpid |-> FALSE, alive |-> TRUE]
NewGlim(t) == [meal |-> t + Glim.meal, roe |-> t + Glim.roe, birth |-> t + Glim.birth,
               hungry |-> Never, alive |-> TRUE]
NewPlant(species, t) ==
  [species |-> species, seed |-> TRUE, next |-> t + Matures[species], dry |-> 0, alive |-> TRUE]
AddNubbin(w, t) == [w EXCEPT !.nubbins = Append(@, NewNubbin(t))]
AddGlim(w, t) == [w EXCEPT !.glims = Append(@, NewGlim(t))]
FreeTiles(w) ==
  Tiles - Cardinality({i \in DOMAIN w.plants : w.plants[i].alive /\ w.plants[i].species # "Duckweed"})
Plant(w, species) == [w EXCEPT !.plants = Append(@, NewPlant(species, w.last))]

Watered(p) == [p EXCEPT !.dry = 0]
Irrigate(w) ==
  [w EXCEPT !.humidity = 100, !.plants = Update(@, Watered),
            !.nitrate = @ + 2 * w.droppings, !.droppings = 0]

\* pour: too much at once floods; a basin that is nearly full overflows into irrigation.
Drown(w) ==
  LET first == {i \in DOMAIN w.nubbins :
                  w.nubbins[i].alive /\ Len(Alive(SubSeq(w.nubbins, 1, i - 1))) < 2} IN
    [w EXCEPT !.nubbins = [i \in DOMAIN @ |-> IF i \in first THEN [@[i] EXCEPT !.alive = FALSE] ELSE @[i]],
              !.nitrate = @ \div 2,
              !.plants = Update(@, LAMBDA p : IF p.seed THEN [p EXCEPT !.alive = FALSE] ELSE p)]
Pour(w, units) ==
  LET wet == [w EXCEPT !.water = Min({BasinCap, @ + units}), !.humidity = Min({100, @ + units}),
                       !.plants = Update(@, Watered)]
      after == IF units > FloodsAbove THEN Drown(wet) ELSE wet IN
    IF 10 * after.water >= 8 * BasinCap THEN Irrigate(after) ELSE after

-----------------------------------------------------------------------------
(* What happens by itself.                                                  *)

Evaporate(w) == [w EXCEPT !.water = Max({0, @ - 1})]

Wilts(p) == p.alive /\ p.species # "Duckweed" /\ p.dry + Every.dry >= WiltAfter
Parch(p) ==
  IF ~p.alive \/ p.species = "Duckweed" THEN p
  ELSE [p EXCEPT !.dry = @ + Every.dry, !.alive = ~Wilts(p)]
Dry(w) ==
  LET drier == [w EXCEPT !.humidity = Max({0, @ - 1})] IN
    IF drier.humidity >= Damp THEN drier
    ELSE [drier EXCEPT !.plants = Update(@, Parch),
                       !.seeds = @ \cup {w.plants[i].species : i \in {k \in DOMAIN w.plants : Wilts(w.plants[k])}}]

Seep(w) ==
  LET n == w.droppings \div 2 IN
    IF w.humidity < Damp THEN w
    ELSE [w EXCEPT !.droppings = @ - (n + 1) \div 2, !.nitrate = @ + n]

Bloom(w, t) ==
  LET slow == \E i \in DOMAIN w.plants :
                LET p == w.plants[i] IN p.alive /\ p.species = "Duckweed" /\ ~p.seed
      grew == Min({IF slow THEN 1 ELSE 2, w.nitrate \div 4})
      greener == [w EXCEPT !.nitrate = @ - 4 * grew, !.algae = @ + grew] IN
    IF w.water = 0 THEN w
    ELSE IF w.roe > 0 /\ greener.algae >= 4 THEN AddGlim([greener EXCEPT !.roe = @ - 1], t) ELSE greener

Fruit(w, i, t) ==
  LET p == w.plants[i]
      next == IF Yields[p.species] = Never THEN Never ELSE t + Yields[p.species]
      grown == [w EXCEPT !.plants[i] = [p EXCEPT !.seed = FALSE, !.next = next]] IN
    IF p.seed THEN grown
    ELSE IF p.species = "Catnip" THEN [grown EXCEPT !.catnip = @ + 1]
    ELSE [grown EXCEPT !.greens = @ + 1]

\* stepNubbin: eat or hunger, and starve or sleep; then droppings; then a birth, when it has eaten.
AllMayStarve(w) == FALSE                                \* (mutant: no floor under the last ones)
LastOnes(w) == Len(Alive(w.nubbins)) < TorporFloor
Since(e, t) == IF e.hungry = Never THEN t ELSE e.hungry
Feed(w, i, t) ==
  LET n == w.nubbins[i]
      hungry == [n EXCEPT !.hungry = Since(n, t), !.meal = t + Nubbin.again] IN
    IF n.torpid \/ t < n.meal THEN w
    ELSE IF w.greens > 0
    THEN [w EXCEPT !.greens = @ - 1, !.nubbins[i] = [n EXCEPT !.hungry = Never, !.meal = t + Nubbin.meal]]
    ELSE IF t - hungry.hungry < Nubbin.starve THEN [w EXCEPT !.nubbins[i] = hungry]
    ELSE IF LastOnes(w) THEN [w EXCEPT !.nubbins[i] = [hungry EXCEPT !.torpid = TRUE]]
    ELSE [w EXCEPT !.nubbins[i] = [hungry EXCEPT !.alive = FALSE]]
Litter(w, i, t) ==
  LET n == w.nubbins[i] IN
    IF ~n.alive \/ t < n.drop THEN w
    ELSE [w EXCEPT !.nubbins[i].drop = t + Nubbin.drop,
                   !.droppings = @ + IF n.torpid THEN 0 ELSE 1]
Breed(w, i, t) ==
  LET n == w.nubbins[i]
      later == [w EXCEPT !.nubbins[i].birth = t + Nubbin.birth] IN
    IF ~n.alive \/ t < n.birth THEN w
    ELSE IF n.torpid \/ n.hungry # Never THEN later ELSE AddNubbin(later, t)
LiveNubbin(w, i, t) == Breed(Litter(Feed(w, i, t), i, t), i, t)

\* stepGlim: the same in the water; a corpse is nitrogen, and a birth is two.
Graze(w, i, t) ==
  LET g == w.glims[i]
      hungry == [g EXCEPT !.hungry = Since(g, t), !.meal = t + Glim.again] IN
    IF t < g.meal THEN w
    ELSE IF w.algae > 0
    THEN [w EXCEPT !.algae = @ - 1, !.glims[i] = [g EXCEPT !.hungry = Never, !.meal = t + Glim.meal]]
    ELSE IF t - hungry.hungry < Glim.starve THEN [w EXCEPT !.glims[i] = hungry]
    ELSE [w EXCEPT !.nitrate = @ + 6, !.glims[i] = [hungry EXCEPT !.alive = FALSE]]
Spawn(w, i, t) ==
  LET g == w.glims[i]
      laid == IF t < g.roe THEN w ELSE [w EXCEPT !.roe = @ + 1, !.glims[i].roe = t + Glim.roe]
      later == [laid EXCEPT !.glims[i].birth = t + Glim.birth] IN
    IF ~g.alive THEN w
    ELSE IF t < g.birth THEN laid
    ELSE IF g.hungry = Never /\ w.algae > 0 THEN AddGlim(AddGlim(later, t), t) ELSE later
LiveGlim(w, i, t) == Spawn(Graze(w, i, t), i, t)

-----------------------------------------------------------------------------
(* Resolution.                                                              *)

NextOf(e, kind) ==
  IF ~e.alive THEN Never
  ELSE CASE kind = "plant" -> e.next
         [] kind = "nubbin" -> Min({IF e.torpid THEN Never ELSE e.meal, e.drop, e.birth})
         [] kind = "glim" -> Min({e.meal, e.roe, e.birth})

\* Everything that is due next, in the order in which the loop considers it: the first of the
\* earliest wins.
Due(w, clocks) ==
  LET of(s, kind) == [i \in DOMAIN s |-> [at |-> NextOf(s[i], kind), what |-> kind, i |-> i]] IN
    [k \in 1 .. 4 |-> LET name == <<"evaporate", "dry", "algae", "seep">>[k] IN
                        [at |-> clocks[name], what |-> name, i |-> 0]]
      \o of(w.plants, "plant") \o of(w.nubbins, "nubbin") \o of(w.glims, "glim")
Earliest(due) ==
  due[Min({k \in DOMAIN due : \A m \in DOMAIN due : due[k].at <= due[m].at})]
Happen(w, e) ==
  CASE e.what = "evaporate" -> Evaporate(w)
    [] e.what = "dry" -> Dry(w)
    [] e.what = "algae" -> Bloom(w, e.at)
    [] e.what = "seep" -> Seep(w)
    [] e.what = "plant" -> Fruit(w, e.i, e.at)
    [] e.what = "nubbin" -> LiveNubbin(w, e.i, e.at)
    [] e.what = "glim" -> LiveGlim(w, e.i, e.at)

\* An event, if one is due by then; and as many of them as resolve lets happen.
NextEvent(s, until) ==
  LET e == Earliest(Due(s.w, s.clocks)) IN
    IF s.over THEN s
    ELSE IF e.at > until THEN [s EXCEPT !.over = TRUE]
    ELSE [w |-> Happen(s.w, e), over |-> FALSE,
          clocks |-> IF e.i = 0 THEN [s.clocks EXCEPT ![e.what] = e.at + Every[e.what]] ELSE s.clocks]
Run(w, clocks, until) ==
  LET after[n \in 0 .. Guard] ==
        IF n = 0 THEN [w |-> w, clocks |-> clocks, over |-> FALSE] ELSE NextEvent(after[n - 1], until)
  IN after[Guard].w

\* bedrock: the dead go, and fewer than the floor sleep.
Bedrock(w) ==
  LET left == Alive(w.nubbins) IN
    [w EXCEPT !.glims = Alive(@),
              !.nubbins = IF Len(left) < TorporFloor
                          THEN Update(left, LAMBDA n : [n EXCEPT !.torpid = TRUE]) ELSE left]

\* resolve: the clocks of the world start anew from the last look.
ResolveWorld(w, now) ==
  LET clocks == [c \in DOMAIN Every |-> w.last + Every[c]]
      after == Run(w, clocks, now) IN
    Bedrock([after EXCEPT !.last = now, !.plants = Alive(@)])

-----------------------------------------------------------------------------
VivariumInit == world \in Worlds /\ deeds = <<>>

Deed(act, amount) ==
  /\ Len(deeds) < MaxDeeds
  /\ deeds' = Append(deeds, [minute |-> world.last, act |-> act, amount |-> amount])
Look(wait) ==
  /\ world.last + wait <= LastMinute
  /\ world' = ResolveWorld(world, world.last + wait) /\ UNCHANGED deeds
PourWater(units) == Deed("pour", units) /\ world' = Pour(world, units)
Sow(species) ==
  /\ species = "Duckweed" \/ FreeTiles(world) > 0
  /\ Deed("sow", species) /\ world' = Plant(world, species)
Add(what) ==
  /\ Deed("add", what)
  /\ world' = IF what = "nubbin" THEN AddNubbin(world, world.last) ELSE AddGlim(world, world.last)

VivariumNext ==
  \/ \E wait \in Waits : Look(wait)
  \/ \E units \in Pours : PourWater(units)
  \/ \E species \in Species : Sow(species)
  \/ \E what \in {"nubbin", "glim"} : Add(what)
VivariumSpec == VivariumInit /\ [][VivariumNext]_vivariumVars

-----------------------------------------------------------------------------
(* Properties.                                                              *)

\* "the last two Nubbins enter torpor rather than starve" (vivarium.js:14): however long nobody
\* looks, hunger alone never ends them.
HungerSpares ==
  /\ []VivariumTypeOK
  /\ [][world'.last > world.last =>
       Len(Alive(world'.nubbins)) >= Min({TorporFloor - 1, Len(Alive(world.nubbins))})]_vivariumVars

-----------------------------------------------------------------------------
(* What comments say, and the code does not do.                             *)

\* "a five day absence and a five day presence produce the same world" (vivarium.js:4): to look in
\* between changes nothing.
AbsenceIsPresence ==
  [][\A wait \in Waits : world'.last > world.last =>
       ResolveWorld(world', world'.last + wait) = ResolveWorld(world, world'.last + wait)]_vivariumVars
=============================================================================
