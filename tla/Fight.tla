------------------------------- MODULE Fight -------------------------------
(***************************************************************************)
(* src/adventure/combat.js: a fight of two Alphas, one action of the side      *)
(* whose turn it is after the other, and the page that plays it                *)
(* (web/adventure-game.js): the player's buttons, and the bot, which moves     *)
(* when its timer comes and tells before it flips.  The player is side 1: on   *)
(* the page a founder, the same in both forms, in the tests a bred cat too.    *)
(*                                                                         *)
(* Faces, Bodies and Backgrounds are the effects they have, by the names and   *)
(* with the numbers of their tables.  What the code draws from a hash of the   *)
(* seed and a label of its own is any value of `Luck`.                         *)
(***************************************************************************)
EXTENDS Integers, Sequences, FiniteSets, Absent

CONSTANTS
  Pairs,               \* <<player, wild>>: the fights looked at
  TurnLimit            \* TURN_LIMIT

Sides == {1, 2}
Table(t) == t \in [DOMAIN t -> Nat]
Percent(n, p) == (2 * n * p + 100) \div 200      \* Math.round

\* The tables' numbers are counts (a rule without a number is 1, fractions are in hundredths), and nobody
\* begins with no life at all.
ASSUME FightAssumption ==
  /\ TurnLimit \in Nat \ {0} /\ None \notin Sides
  /\ \A pair \in Pairs, s \in Sides :
       /\ pair[s].catnip \in Nat /\ pair[s].scale \in Nat
       /\ \A k \in Sides :
            LET form == pair[s].forms[k] IN
              /\ form.hp \in Nat /\ form.force \in Nat /\ form.armor \in Nat
              /\ Table(form.face) /\ Table(form.rule) /\ Table(form.background)
              /\ Percent(form.hp, pair[s].scale) > 0

VARIABLES bout, page

fightVars == <<bout, page>>

Foe(s) == 3 - s
Larger(m, n) == IF m > n THEN m ELSE n
Smaller(m, n) == IF m < n THEN m ELSE n

NoEffect == [none |-> 0]
Has(table, effect) == effect \in DOMAIN table
Effect(table, effect) == IF Has(table, effect) THEN table[effect] ELSE 0
MuteArmor == 2

-----------------------------------------------------------------------------
(* Fighters.                                                                *)

BaseArmor(f) == f.armor + (IF f.tuned THEN 0 ELSE MuteArmor)
CreateFighter(cat) ==
  [cat |-> cat, form |-> 1, catnip |-> cat.catnip,
   hp |-> Percent(cat.forms[1].hp, cat.scale), maxHp |-> Percent(cat.forms[1].hp, cat.scale),
   force |-> cat.forms[1].force, armor |-> BaseArmor(cat.forms[1]), forceMod |-> 0, armorMod |-> 0,
   charge |-> 0, copied |-> None, awake |-> 0, burn |-> [amount |-> 0, turns |-> 0], flags |-> {}]
Shown(x) == x.cat.forms[x.form]
Rule(x) == Shown(x).rule

\* reform: the numbers of the other form, the damage already taken.  (mutant: however little is left)
ReformFrail(x, form) ==
  LET f == x.cat.forms[form]
      max == Percent(f.hp, x.cat.scale)
  IN [x EXCEPT !.form = form, !.maxHp = max, !.hp = max - (x.maxHp - x.hp),
               !.force = f.force, !.armor = BaseArmor(f)]
Reform(x, form) ==
  LET f == x.cat.forms[form]
      max == Percent(f.hp, x.cat.scale)
  IN [x EXCEPT !.form = form, !.maxHp = max, !.hp = Larger(1, max - (x.maxHp - x.hp)),
               !.force = f.force, !.armor = BaseArmor(f)]

\* One thing after another: what `step` makes of a bout, worked out once.
Then(b, step(_)) == CHOOSE result \in {step(x) : x \in {b}} : TRUE
Put(b, s, x) == [b EXCEPT !.f[s] = x]
Flagged(b, s, flags) == [b EXCEPT !.f[s].flags = @ \cup flags]
Unflagged(b, s, flags) == [b EXCEPT !.f[s].flags = @ \ flags]
Is(b, s, flag) == flag \in b.f[s].flags

ActiveFace(b, s) ==
  LET mine == Shown(b.f[s]).face
      yours == Shown(b.f[Foe(s)]).face
  IN IF Has(b.arena, "imposerKeepsFace") /\ b.arenaOwner # s /\ ~Has(mine, "arenaImmune") THEN NoEffect
     ELSE IF b.f[s].copied # None THEN b.f[s].copied
     ELSE IF Has(mine, "mirrorFaces") \/ Has(yours, "mirrorFaces") THEN yours
     ELSE mine
Does(b, s, effect) == Has(ActiveFace(b, s), effect)

Overcomes == [Water |-> "Fire", Fire |-> "Earth", Earth |-> "Water"]
Quarters(b, s) ==                                    \* houseMultiplier
  LET mine == Shown(b.f[s]).house
      yours == Shown(b.f[Foe(s)]).house
  IN IF Does(b, s, "prism") \/ Overcomes[mine] = yours THEN 6 ELSE IF Overcomes[yours] = mine THEN 3 ELSE 4

-----------------------------------------------------------------------------
(* The start.                                                               *)

Initiative(x, y) ==        \* the sides that the rules leave
  LET differ(p(_)) == p(x) # p(y)
      never(c) == Has(Rule(c), "neverFirst")
      first(c) == Has(Shown(c).face, "alwaysFirst")
      tuned(c) == Shown(c).tuned
  IN IF differ(never) THEN {IF never(x) THEN 2 ELSE 1}
     ELSE IF differ(first) THEN {IF first(x) THEN 1 ELSE 2}
     ELSE IF differ(tuned) THEN {IF tuned(x) THEN 1 ELSE 2}
     ELSE IF x.maxHp # y.maxHp THEN {IF x.maxHp < y.maxHp THEN 1 ELSE 2}
     ELSE Sides

StartFight(x, y, first) ==
  LET b == [f |-> <<x, y>>, turn |-> 1, toAct |-> first, over |-> FALSE, winner |-> None, timedOut |-> FALSE,
            arenaOwner |-> first, arena |-> Shown(<<x, y>>[first]).background, lastRune |-> None,
            actions |-> 0, first |-> first,
            fallen |-> <<>>, missed |-> <<FALSE, FALSE>>]       \* history: who went down and when, who missed last
      begins(s) ==
        [b.f[s] EXCEPT
           !.flags = (IF Does(b, s, "skipTurn1") THEN {"asleep"} ELSE {})
                       \cup (IF \E t \in Sides : Does(b, t, "bothMissFirst") THEN {"forceMiss"} ELSE {}),
           !.charge = IF Has(Rule(b.f[s]), "firstRuneFree") THEN 99 ELSE 0]
  IN [b EXCEPT !.f = <<begins(1), begins(2)>>]

-----------------------------------------------------------------------------
(* One attack, and what answers it.                                         *)

\* Zombie holds the door, Devotion holds it once.
Falls(b, s, face, hurt) ==
  LET undying == b.turn < Effect(b.arena, "noDeathBefore") /\ ~Has(face, "arenaImmune")
      stands == ~undying /\ Has(face, "standAtOne") /\ ~Is(b, s, "stood")
  IN IF hurt.f[s].hp > 0 THEN hurt
     ELSE IF undying THEN [hurt EXCEPT !.f[s].hp = 1]
     ELSE IF stands THEN [hurt EXCEPT !.f[s].hp = 1, !.f[s].flags = @ \cup {"stood"}]
     ELSE [hurt EXCEPT !.f[s].hp = 0, !.over = TRUE, !.winner = Foe(s),
                       !.fallen = Append(@, [side |-> s, turn |-> b.turn])]
Damage(b, s, amount, hit) ==
  LET face == ActiveFace(b, s)
      reduced == IF hit THEN Larger(0, amount - Effect(face, "damageReduction")) ELSE amount
      halved == hit /\ Has(face, "firstHitTaken") /\ ~Is(b, s, "firstHitTaken")
      marks == (IF hit THEN {"hitThisTurn"} ELSE {}) \cup (IF halved THEN {"firstHitTaken"} ELSE {})
      takes(n) == [dealt |-> n,
                   bout |-> Then(Flagged([b EXCEPT !.f[s].hp = @ - n], s, marks),
                                 LAMBDA hurt : Falls(b, s, face, hurt))]
  IN Then(IF halved THEN (reduced + 1) \div 2 ELSE reduced, takes)

Heal(b, s, n) == [b EXCEPT !.f[s].hp = Smaller(b.f[s].maxHp, @ + n)]

ArmorOf(x) == Larger(0, x.armor + x.armorMod)
ForceOf(x) == Larger(1, x.force + x.forceMod)

\* What an attack takes, before shields: force and bonuses, armour, the house, the arena.
Blow(b, s, luck) ==
  LET me == b.f[s]
      you == b.f[Foe(s)]
      face == ActiveFace(b, s)
      bonus == Effect(face, "damageBonus")
                 + (IF Is(b, s, "hitLastTurn") THEN Effect(face, "damageBonusIfHit") ELSE 0)
                 + (IF Is(b, s, "opponentMissed") THEN Effect(face, "damageAfterMiss") ELSE 0)
      layered == IF Is(b, Foe(s), "tookOneThisTurn") THEN 0 ELSE Effect(Rule(you), "firstAttackPerTurnReduction")
      raw == ForceOf(me) + me.awake + bonus - (IF Has(face, "ignoreArmor") THEN 0 ELSE ArmorOf(you)) - layered
      pct == IF Has(b.arena, "damageVariance") /\ ~Has(face, "arenaImmune") THEN luck.pct ELSE 100
  IN Larger(1, (2 * Larger(1, raw) * Quarters(b, s) * pct + 400) \div 800)

\* What answers back.
Riposte(b, s, dealt) ==
  IF Is(b, Foe(s), "riposte") THEN Damage(Unflagged(b, Foe(s), {"riposte"}), s, dealt, FALSE).bout ELSE b
BurnBack(b, s, face) ==
  LET rule == Rule(b.f[Foe(s)])
  IN IF Has(rule, "burnAttacker") /\ ~Has(Rule(b.f[s]), "immuneBurn") /\ ~Has(face, "nothingSticks")
     THEN [b EXCEPT !.f[s].burn = [amount |-> rule.burnAttacker, turns |-> 1]] ELSE b
\* Everything that answers, in the code's order.
Answers(hit, s, face, yourFace) ==
  LET o == Foe(s)
      b == hit.bout
      healed == Then(Riposte(b, s, hit.dealt), LAMBDA x : Heal(x, o, Effect(yourFace, "healOnDamage")))
      burned == Then(healed, LAMBDA x : BurnBack(x, s, face))
      rule == Rule(b.f[o])
      poison == IF Has(face, "nothingSticks") THEN 0 ELSE Effect(rule, "poisonAttacker")
      grudge == IF Is(b, o, "grudged") THEN 0 ELSE Effect(yourFace, "grudge")
  IN Flagged([burned EXCEPT !.f[s].forceMod = @ - poison - grudge], o, IF grudge > 0 THEN {"grudged"} ELSE {})

Strike(b, s, luck) ==
  LET o == Foe(s)
      face == ActiveFace(b, s)
      yourFace == ActiveFace(b, o)
      pounce == Has(Rule(b.f[s]), "unmissableOpener") /\ ~Is(b, s, "opened")
      opened == [Flagged(b, s, {"opened"}) EXCEPT !.missed[s] = FALSE]
      owed == IF Is(b, s, "forceMiss") THEN {"forceMiss"} ELSE b.f[s].flags \cap {"contagiousMiss"}
      misses == /\ ~pounce
                /\ owed # {} \/ (Has(b.arena, "missChance") /\ ~Has(face, "arenaImmune") /\ luck.miss)
      missed == Flagged(Flagged(Unflagged(opened, s, owed), o, {"missedAgainstMe"}), s,
                        IF Has(yourFace, "contagiousMiss") THEN {"contagiousMiss"} ELSE {})
      met == Flagged(opened, o, {"tookOneThisTurn"})
      shielded == Is(b, o, "shield") /\ ~pounce /\ ~Has(face, "ignoreShield")
      hit == Then(met, LAMBDA m : Damage(m, o, Blow(b, s, luck), TRUE))
  IN IF misses THEN [missed EXCEPT !.missed[s] = TRUE]
     ELSE IF shielded THEN Unflagged(met, o, {"shield"})
     ELSE Then(hit, LAMBDA h : Answers(h, s, face, yourFace))

-----------------------------------------------------------------------------
(* Rune, Flip, and what a turn begins with.                                 *)

RuneCost(b, s) ==
  Larger(1, (IF Shown(b.f[s]).tuned THEN 2 ELSE 4)
              - Effect(ActiveFace(b, s), "runeChargeFaster") + Effect(ActiveFace(b, Foe(s)), "opponentRuneSlower"))

Again(b, s, luck) == IF b.over THEN b ELSE Strike(b, s, luck.hits[2])
Families == {"Fire", "Sun", "Hope", "Ride", "Stone", "Earth", "Birch", "Wealth", "Runestone"}
CastRune(b, s, luck) ==
  LET o == Foe(s)
      own == IF Does(b, o, "staticRune") /\ ~Does(b, s, "nothingSticks") THEN luck.family ELSE Shown(b.f[s]).family
      family == IF own = "Runestone" /\ b.lastRune # None THEN b.lastRune ELSE own
  IN Then([b EXCEPT !.lastRune = family, !.f[s].charge = 0], LAMBDA cast :
       CASE family = "Sun" -> Heal(cast, s, 20)
         [] family = "Hope" -> Flagged(cast, s, {"shield"})
         [] family = "Earth" -> Flagged(cast, s, {"riposte"})
         [] family = "Stone" -> [cast EXCEPT !.f[s].armorMod = @ + 4]
         [] family = "Birch" -> [cast EXCEPT !.f[s].forceMod = @ + 3]
         [] family = "Fire" /\ ~Has(Rule(b.f[o]), "immuneBurn") /\ ~Does(b, o, "nothingSticks") ->
              [cast EXCEPT !.f[o].burn = [amount |-> 5, turns |-> 2]]
         [] family = "Ride" -> Then(Strike(cast, s, luck.hits[1]), LAMBDA one : Again(one, s, luck))
         [] OTHER -> cast)

MayFlip(x) == x.cat.canFlip /\ "flipped" \notin x.flags /\ x.catnip >= 1
AttemptFlip(b, s, luck) ==
  LET x == [b.f[s] EXCEPT !.catnip = @ - 1, !.flags = @ \cup {"flipped"}]
      y == Reform(x, 3 - x.form)
      z == [y EXCEPT !.flags = @ \cup (IF Has(Rule(y), "doubleTurnAfterFlip") THEN {"extraTurn"} ELSE {})]
  IN IF ~MayFlip(b.f[s]) THEN b
     ELSE IF x.cat.frail /\ luck.flipFails THEN Put(b, s, x)
     ELSE Heal(Put(b, s, z), Foe(s), Effect(Rule(b.f[Foe(s)]), "healOnOpponentFlip"))

Burn(b, s) ==
  LET x == b.f[s]
      burned == Damage(b, s, x.burn.amount, FALSE).bout
  IN IF x.burn.turns = 0 THEN b
     ELSE IF Does(b, s, "nothingSticks") THEN [b EXCEPT !.f[s].burn.turns = 0]
     ELSE [burned EXCEPT !.f[s].burn.turns = @ - 1]
Swell(x) ==
  LET cap == Effect(Rule(x), "forceCap")
  IN IF Has(Rule(x), "forcePerTurn") /\ x.forceMod < cap
     THEN [x EXCEPT !.forceMod = Smaller(cap, @ + Rule(x).forcePerTurn)] ELSE x
Reroll(x, luck) ==
  LET max == Larger(1, Percent(Percent(Shown(x).hp, x.cat.scale), luck.lamp.hp))
  IN IF ~Has(Rule(x), "rerollStats") THEN x
     ELSE [x EXCEPT !.maxHp = max, !.hp = Smaller(@, max),
                    !.force = Larger(1, Percent(Shown(x).force, luck.lamp.force)),
                    !.armor = Percent(Shown(x).armor, luck.lamp.armor)
                                + (IF Shown(x).tuned THEN 0 ELSE MuteArmor)]
Seize(b, s, face) ==
  LET x == b.f[s]
  IN IF /\ Has(face, "arenaBecomesMineBelow") /\ "arenaTaken" \notin x.flags
        /\ 100 * x.hp < face.arenaBecomesMineBelow * x.maxHp
     THEN [Flagged(b, s, {"arenaTaken"}) EXCEPT !.arena = Shown(x).background, !.arenaOwner = s] ELSE b

Wakes(b, s) ==
  LET face == ActiveFace(b, s) IN
  [b EXCEPT !.f[s].flags = @ \ {"asleep"}, !.f[s].awake = IF Has(face, "forceAfterWaking") THEN 6 ELSE @,
            !.f[s].copied = IF Has(face, "copyFaceOnWaking") THEN ActiveFace(b, Foe(s)) ELSE @]
Upkeep(b, s, luck) ==
  LET face == ActiveFace(b, s)
      burned == Burn(b, s)
      healed == Then(burned, LAMBDA x : Heal(x, s, Effect(face, "regen") + Effect(Rule(b.f[s]), "regen")))
      ready == Then([healed EXCEPT !.f[s] = Reroll(Swell(@), luck)], LAMBDA x : Seize(x, s, face))
  IN [ready EXCEPT !.f[s].charge = IF @ < 99 THEN @ + 1 ELSE @]

-----------------------------------------------------------------------------
\* act, after its upkeep: the action.
\* The second attack of an afterimage.
Afterimage(b, s, luck) ==
  IF Is(b, s, "extraTurn") /\ ~b.over
  THEN Strike(Unflagged(b, s, {"extraTurn", "tookOneThisTurn"}), s, luck.hits[2]) ELSE b
Choose(b, s, action, luck) ==
  LET do ==
        CASE action = "RUNE" /\ b.f[s].charge >= RuneCost(b, s) -> CastRune(b, s, luck)
          [] action = "FLIP" /\ Has(Rule(b.f[s]), "freeFlip") -> Strike(AttemptFlip(b, s, luck), s, luck.hits[1])
          [] action = "FLIP" /\ ~Has(Rule(b.f[s]), "freeFlip") -> AttemptFlip(b, s, luck)
          [] OTHER -> Strike(b, s, luck.hits[1])
  IN Then(do, LAMBDA done : Afterimage(done, s, luck))

TimeUp(b, coin) ==
  LET share(s) == b.f[s].hp * b.f[Foe(s)].maxHp
  IN [b EXCEPT !.over = TRUE, !.timedOut = TRUE,
               !.winner = IF share(1) = share(2) THEN coin ELSE IF share(1) > share(2) THEN 1 ELSE 2]

Passes(b, s, coin) ==
  LET next == [b EXCEPT !.toAct = Foe(s), !.turn = IF b.actions % 2 = 0 THEN @ + 1 ELSE @]
  IN IF b.over THEN b ELSE IF next.turn > TurnLimit THEN TimeUp(next, coin) ELSE next

TakeTurn(b, action, luck) ==
  LET s == b.toAct
      heard == Unflagged(b, Foe(s), {"missedAgainstMe"})
      begun == [heard EXCEPT !.f[s].flags =
                  (@ \ {"opponentMissed", "tookOneThisTurn"})
                    \cup (IF Is(b, Foe(s), "missedAgainstMe") THEN {"opponentMissed"} ELSE {})]
      acts(up) == IF up.over THEN up ELSE Choose(up, s, action, luck)
      acted(x) == IF Is(b, s, "asleep") THEN Wakes(x, s) ELSE Then(Upkeep(x, s, luck), acts)
      told(x) == Passes([x EXCEPT !.actions = @ + 1,
                           !.f[s].flags = (@ \ {"hitLastTurn", "hitThisTurn"})
                                            \cup (IF "hitThisTurn" \in @ THEN {"hitLastTurn"} ELSE {})], s, luck.coin)
  IN Then(Then(begun, acted), told)

\* What the draws of a turn may come to, as far as something on the table asks for them.
Luck(b) ==
  LET some(p, values, plain) == IF p THEN values ELSE {plain}
      lamp == Has(Rule(b.f[b.toAct]), "rerollStats")
      hit == [miss : some(Has(b.arena, "missChance"), BOOLEAN, FALSE),
              pct : some(Has(b.arena, "damageVariance"), {50, 150}, 100)]
      twice == \/ Shown(b.f[b.toAct]).family \in {"Ride", "Runestone"} \/ Does(b, Foe(b.toAct), "staticRune")
               \/ \E k \in Sides : Has(b.f[b.toAct].cat.forms[k].rule, "doubleTurnAfterFlip")
  IN [hits : {<<h, g>> : h \in hit, g \in some(twice, hit, [miss |-> FALSE, pct |-> 100])},
      flipFails : some(MayFlip(b.f[b.toAct]) /\ b.f[b.toAct].cat.frail, BOOLEAN, FALSE),
      family : some(Does(b, Foe(b.toAct), "staticRune"), Families, "Wealth"),
      lamp : [hp : some(lamp, {60, 140}, 100), force : some(lamp, {60, 140}, 100), armor : {100}],
      coin : some(b.turn = TurnLimit, Sides, 1)]

-----------------------------------------------------------------------------
(* The page.                                                                *)

\* ended: what endFight was told (did the player win), by the falls of this move.
Ended(before, after) ==
  [k \in 1 .. Len(after.fallen) - Len(before.fallen) |-> after.fallen[Len(before.fallen) + k].side = 2]
ScheduleBot(p) == IF p.botPending THEN p ELSE [p EXCEPT !.timers = @ + 1, !.botPending = TRUE]

PlayerMove(action) ==
  /\ ~bout.over /\ bout.toAct = 1
  /\ action = "RUNE" => bout.f[1].charge >= RuneCost(bout, 1)
  /\ action = "FLIP" => bout.f[1].cat.canFlip
  /\ \E luck \in Luck(bout) :
       /\ bout' = TakeTurn(bout, action, luck)
       /\ LET p == [page EXCEPT !.ended = @ \o Ended(bout, bout')]
          IN page' = IF bout'.over THEN p ELSE ScheduleBot(p)

WantFlip(x) == MayFlip(x) /\ 100 * x.hp < 32 * x.maxHp
BotTurn ==
  LET fired == [page EXCEPT !.timers = @ - 1, !.botPending = FALSE]
      x == bout.f[2]
      move == IF WantFlip(x) THEN "FLIP" ELSE IF x.charge >= RuneCost(bout, 2) THEN "RUNE" ELSE "CLAW"
  IN /\ page.timers > 0
     /\ IF bout.over \/ bout.toAct # 2 THEN page' = fired /\ UNCHANGED bout
        ELSE IF WantFlip(x) /\ ~page.telegraphed
        THEN page' = ScheduleBot([fired EXCEPT !.telegraphed = TRUE, !.told = TRUE]) /\ UNCHANGED bout
        ELSE \E luck \in Luck(bout) :
               /\ bout' = TakeTurn(bout, move, luck)
               /\ page' = [fired EXCEPT !.ended = @ \o Ended(bout, bout'), !.told = FALSE, !.move = move]

FightInit ==
  /\ \E pair \in Pairs :
       LET x == CreateFighter(pair[1])
           y == CreateFighter(pair[2])
       IN \E first \in Initiative(x, y) : bout = StartFight(x, y, first)
  /\ LET idle == [timers |-> 0, botPending |-> FALSE, telegraphed |-> FALSE, told |-> FALSE,
                   move |-> None, ended |-> <<>>]
     IN page = IF bout.first = 2 THEN ScheduleBot(idle) ELSE idle
FightNext == BotTurn \/ \E action \in {"CLAW", "RUNE", "FLIP"} : PlayerMove(action)
FightSpec == FightInit /\ [][FightNext]_fightVars

FightTypeOK ==
  /\ \A s \in Sides : bout.f[s].hp \in 0 .. bout.f[s].maxHp /\ bout.f[s].catnip \in Nat
  /\ bout.winner \in Sides \cup {None} /\ bout.toAct \in Sides
  /\ page.timers \in 0 .. 1 /\ page.botPending = (page.timers = 1)

-----------------------------------------------------------------------------
(* Properties.                                                              *)

\* As long as a fight goes on both are on their feet, and it goes on for no more than the horizon; when it
\* ends, the one that went down last has lost, or nobody went down and the healthier one has won.
Decided ==
  LET lost == bout.fallen[Len(bout.fallen)].side
      share(s) == bout.f[s].hp * bout.f[Foe(s)].maxHp
  IN /\ bout.turn <= TurnLimit \/ bout.timedOut
     /\ ~bout.over => /\ bout.turn = 1 + bout.actions \div 2 /\ bout.winner = None /\ bout.fallen = <<>>
                      /\ \A s \in Sides : bout.f[s].hp > 0
                      /\ bout.toAct = IF bout.actions % 2 = 0 THEN bout.first ELSE Foe(bout.first)
     /\ bout.over => IF bout.timedOut
                     THEN bout.fallen = <<>> /\ share(bout.winner) >= share(Foe(bout.winner))
                     ELSE bout.fallen # <<>> /\ lost = Foe(bout.winner)

\* The numbers a fighter has are those of the form it shows, and it changes form once, for its catnip.
FormsRight ==
  \A s \in Sides :
    LET x == bout.f[s] IN
      /\ ~Has(Rule(x), "rerollStats") =>
           /\ x.maxHp = Percent(Shown(x).hp, x.cat.scale)
           /\ x.force = Shown(x).force /\ x.armor = BaseArmor(Shown(x))
      /\ x.catnip = x.cat.catnip - (IF "flipped" \in x.flags THEN 1 ELSE 0)
      /\ x.form = 2 => "flipped" \in x.flags /\ x.cat.canFlip

\* "Nobody can die during the first two turns" of an arena of Zombie's (backgrounds.js:25), unless a Cool face
\* leaves it unbothered; a fighter with Devotion falls only when it has stood.
DoorsHeld ==
  \A k \in DOMAIN bout.fallen :
    LET x == bout.f[bout.fallen[k].side] IN
      /\ /\ Has(bout.arena, "noDeathBefore") /\ \A s \in Sides : "arenaTaken" \notin bout.f[s].flags
         => bout.fallen[k].turn >= bout.arena.noDeathBefore \/ Does(bout, bout.fallen[k].side, "arenaImmune")
      /\ Does(bout, bout.fallen[k].side, "standAtOne") => "stood" \in x.flags

\* A fight is decided as its rules say, whatever the two are and do (combat.js:216-447).
FightSound == FightTypeOK /\ Decided /\ FormsRight /\ DoorsHeld

-----------------------------------------------------------------------------
(* What comments say, and the code does not do.                             *)

\* "+4 damage after the opponent misses" (faces.js:53): the flag that grants it says that the opponent's
\* last attack missed.
LaughsAtOthers == ~bout.over /\ Is(bout, bout.toAct, "missedAgainstMe") => ~bout.missed[bout.toAct]

\* "the healthier cat wins" (combat.js:38), "endFight": a fight that is over has been ended, once.
EndedOnce == bout.over => Len(page.ended) = 1

\* The winner "walks away" (combat.js:241).
WinnerStands == bout.over => bout.f[bout.winner].hp > 0
=============================================================================
