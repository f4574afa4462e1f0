------------------------------- MODULE MCGame -------------------------------
(***************************************************************************)
(* Instances, for TLC, of the games: Arena, Duel, Stable, Nursery, Vivarium,   *)
(* Fight.                                                                  *)
(* They share no state, so a behaviour picks a desk and moves what is on it.   *)
(***************************************************************************)
EXTENDS Arena, Duel, Stable, Nursery, Vivarium, Fight, TLC

CONSTANTS mare, sire, Desks
VARIABLE desk

-----------------------------------------------------------------------------
(* Arena: late joins and orders of either kind; trophies recorded once it is   *)
(* over.  Players are alike: they are named in the order in which they enter.  *)

Tournament ==
  /\ ArenaNext
  /\ \A k \in DOMAIN cup'.entrants : cup'.entrants[k] = k
  /\ trophies' # trophies => cup.status = "ended"
  /\ Cardinality(DOMAIN queries') <= 2
  /\ cup.status = "registering" \/ DOMAIN queries' \subseteq DOMAIN queries
  /\ (cup.status = "registering" /\ cup'.status = "running") => Cardinality(DOMAIN queries) <= 1
  /\ (cup.status = "running" /\ orders' # orders) => queries = <<>>

-----------------------------------------------------------------------------
(* Duel: one fighter has a house, the other may.                               *)

MCStreams == {<<TRUE, FALSE, TRUE>>, <<FALSE, FALSE, TRUE>>}

-----------------------------------------------------------------------------
(* Stable: a second request only beside a first one, one move of the mare,     *)
(* mares with sires, a death only while a request is under way, or a new day.  *)

Fits(q) == q # None => Female(q.mother) /\ ~Female(q.father)
Pairings ==
  /\ StableNext
  /\ visits[2] = None /\ visits'[2] # None => visits[1] # None
  /\ alphas'[sire].moves = 0
  /\ \A v \in Visits : visits[v] = None => Fits(visits'[v])
  /\ stableDeaths' # stableDeaths => visits # [v \in Visits |-> None]
  /\ stableDeaths' = 0 \/ day' = 0

-----------------------------------------------------------------------------
(* Vivarium.                                                                   *)

Begins(nubbins, glims, clovers, greens, algae) ==
  [water |-> 20, nitrate |-> 4, algae |-> algae, greens |-> greens, droppings |-> 2, roe |-> 0,
   catnip |-> 0, humidity |-> 31, seeds |-> {}, last |-> 0,
   nubbins |-> [i \in 1 .. nubbins |-> NewNubbin(0)], glims |-> [i \in 1 .. glims |-> NewGlim(0)],
   plants |-> [i \in 1 .. clovers |-> NewPlant("Clover", 0)]]
MCWorlds == {Begins(3, 0, 1, 1, 0), Begins(2, 1, 0, 0, 2), Begins(4, 1, 1, 0, 0)}

-----------------------------------------------------------------------------
(* Fight: pairs that between them have every effect of the tables, with the    *)
(* numbers of a body each; the last player is a founder.                       *)

Form(hp, force, armor, rule, face, background, tuned, family, house) ==
  [hp |-> hp, force |-> force, armor |-> armor, rule |-> rule, face |-> face, background |-> background,
   tuned |-> tuned, family |-> family, house |-> house]
Bred(a, b, frail) == [forms |-> <<a, b>>, scale |-> IF frail THEN 60 ELSE 100, frail |-> frail,
                      canFlip |-> TRUE, catnip |-> 1]
Founder(a) == [forms |-> <<a, a>>, scale |-> 100, frail |-> FALSE, canFlip |-> FALSE, catnip |-> 0]
No == NoEffect
PouncerAndOreo ==
  <<Bred(Form(40, 20, 1, [unmissableOpener |-> 1], [ignoreArmor |-> 1, ignoreShield |-> 1], [noDeathBefore |-> 3],
              FALSE, "Earth", "Water"),
         Form(60, 13, 3, No, [standAtOne |-> 1], No, TRUE, "Ride", "Fire"), FALSE),
    Bred(Form(58, 10, 5, [firstAttackPerTurnReduction |-> 4], [healOnDamage |-> 4], No, TRUE, "Earth", "Water"),
         Form(50, 13, 3, [poisonAttacker |-> 2], [arenaBecomesMineBelow |-> 40], [imposerKeepsFace |-> 1],
              FALSE, "Fire", "Earth"), FALSE)>>
LaughersAndDoubles ==
  <<Bred(Form(58, 14, 2, [firstRuneFree |-> 1], [contagiousMiss |-> 1], [missChance |-> 1], TRUE, "Hope", "Fire"),
         Form(48, 12, 2, [forcePerTurn |-> 2, forceCap |-> 10], [damageAfterMiss |-> 4], No, TRUE, "Birch", "Water"),
         TRUE),
    Bred(Form(58, 14, 2, [doubleTurnAfterFlip |-> 1], [bothMissFirst |-> 1], No, FALSE, "Runestone", "Fire"),
         Form(54, 15, 2, [burnAttacker |-> 3], [staticRune |-> 1], No, FALSE, "Sun", "Earth"), FALSE)>>
DreamersAndLamps ==
  <<Bred(Form(60, 13, 3, [rerollStats |-> 40], [skipTurn1 |-> 1, copyFaceOnWaking |-> 1], [damageVariance |-> 50],
              FALSE, "Stone", "Fire"),
         Form(56, 15, 2, [freeFlip |-> 1], [grudge |-> 2], No, FALSE, "Wealth", "Earth"), TRUE),
    Bred(Form(66, 10, 4, [healOnOpponentFlip |-> 5], [damageReduction |-> 2], No, FALSE, "Fire", "Water"),
         Form(62, 12, 3, [immuneBurn |-> 1], [nothingSticks |-> 1], No, FALSE, "Ride", "Water"), TRUE)>>
FounderAndCow ==
  <<Founder(Form(56, 13, 3, [regen |-> 3], [mirrorFaces |-> 1], [imposerKeepsFace |-> 1], TRUE, "Sun", "Fire")),
    Bred(Form(90, 8, 3, [neverFirst |-> 1], [regen |-> 3], No, FALSE, "Stone", "Earth"),
         Form(60, 13, 3, No, [firstHitTaken |-> 1], No, FALSE, "Fire", "Water"), FALSE)>>
MCPairs == {PouncerAndOreo, LaughersAndDoubles, DreamersAndLamps, FounderAndCow}

-----------------------------------------------------------------------------
MCVars == <<arenaVars, duelVars, stableVars, nurseryVars, vivariumVars, fightVars, desk>>

\* What stands still begins in one way.
MCInit ==
  /\ desk \in Desks
  /\ ArenaInit /\ DuelInit /\ StableInit /\ NurseryInit /\ VivariumInit /\ FightInit
  /\ desk = "duel" => fighter["p1"].house # None
  /\ desk # "duel" =>
       /\ \A side \in DOMAIN fighter : fighter[side] = [house |-> None, comeback |-> TRUE]
       /\ bot = Charged([k \in 1 .. Rounds |-> "fire"], 0, 0) /\ stream = <<TRUE, FALSE, TRUE>>
  /\ desk # "vivarium" => world = Begins(3, 0, 1, 1, 0)
  /\ desk # "fight" => bout.f[1].cat = FounderAndCow[1]

MCNext ==
  /\ \/ /\ desk = "arena" /\ Tournament
        /\ UNCHANGED <<duelVars, stableVars, nurseryVars, vivariumVars, fightVars>>
     \/ /\ desk = "duel" /\ DuelNext
        /\ UNCHANGED <<arenaVars, stableVars, nurseryVars, vivariumVars, fightVars>>
     \/ /\ desk = "stable" /\ Pairings
        /\ UNCHANGED <<arenaVars, duelVars, nurseryVars, vivariumVars, fightVars>>
     \/ /\ desk = "nursery" /\ NurseryNext
        /\ UNCHANGED <<arenaVars, duelVars, stableVars, vivariumVars, fightVars>>
     \/ /\ desk = "vivarium" /\ VivariumNext
        /\ UNCHANGED <<arenaVars, duelVars, stableVars, nurseryVars, fightVars>>
     \/ /\ desk = "fight" /\ FightNext
        /\ UNCHANGED <<arenaVars, duelVars, stableVars, nurseryVars, vivariumVars>>
  /\ UNCHANGED desk
MCSpec == MCInit /\ [][MCNext]_MCVars
=============================================================================
