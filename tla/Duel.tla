-------------------------------- MODULE Duel --------------------------------
(***************************************************************************)
(* The combat engine, src/game.js, and the turn-by-turn bot duel over it,      *)
(* src/duel.js as src/adventure.js keeps it: every round shown is the engine's *)
(* verdict on the moves so far, the rest padded out.                           *)
(***************************************************************************)
EXTENDS Integers, Sequences, FiniteSets, FiniteSetsExt, SequencesExt, Absent

CONSTANTS
  Houses, Faces,   \* what fighters of the run may have: elements or None, comeback or not
  BotRounds,       \* rounds in which the bot may spend a charge, 0 for never
  Streams          \* the seeded stream of coin flips: TRUE falls to the player

Rounds == 3
Elements == {"fire", "water", "earth"}
Beats == [fire |-> "earth", earth |-> "water", water |-> "fire"]
Pad == [element |-> "fire", poison |-> FALSE, potion |-> FALSE]
Move == [element : Elements, poison : BOOLEAN, potion : BOOLEAN]
Other(side) == IF side = "p1" THEN "p2" ELSE "p1"

\* Coins for every round of a match.
ASSUME DuelAssumption ==
  /\ None \notin {"p1", "p2"} /\ BotRounds \subseteq Int
  /\ Streams \subseteq Seq(BOOLEAN) /\ \A coins \in Streams : Len(coins) >= Rounds

Fighters == [house : Houses, comeback : Faces]

VARIABLES
  fighter,     \* side -> [house, comeback]
  stream,      \* what the seed of this duel draws
  bot,         \* botMoves
  played,      \* playerMoves
  shown        \* results: [winner, reason] of each round played

duelVars == <<fighter, stream, bot, played, shown>>

DuelTypeOK ==
  /\ fighter \in [{"p1", "p2"} -> Fighters] /\ stream \in Streams
  /\ bot \in [1 .. Rounds -> Move] /\ played \in BoundedSeq(Move, Rounds)
  /\ Len(shown) = Len(played)
  /\ \A k \in DOMAIN shown : shown[k].winner \in {"p1", "p2"} /\ shown[k].flip \in BOOLEAN

-----------------------------------------------------------------------------
(* The engine.                                                              *)

\* resolveRound, up to the coin: poison, the elements, the House, the comeback; None when it ties.
Poisons(a, b) == a.poison /\ ~b.potion
ByElement(a, b) ==
  IF a.element = b.element THEN None ELSE IF Beats[a.element] = b.element THEN "p1" ELSE "p2"
ByHouse(f, element) ==
  LET home == {s \in {"p1", "p2"} : f[s].house = element} IN
    IF Cardinality(home) = 1 THEN CHOOSE s \in home : TRUE ELSE None
ByComeback(f, round, first) ==
  IF round = Rounds /\ f[Other(first)].comeback THEN Other(first) ELSE None
Verdict(f, a, b, round, first) ==
  LET reasons == IF Poisons(a, b) # Poisons(b, a)
                 THEN <<IF Poisons(a, b) THEN "p1" ELSE "p2">>
                 ELSE <<ByElement(a, b),
                        IF a.element = b.element THEN ByHouse(f, a.element) ELSE None,
                        IF round = 1 THEN None ELSE ByComeback(f, round, first)>>
      says == {k \in DOMAIN reasons : reasons[k] # None} IN
    IF says = {} THEN None ELSE reasons[Min(says)]

\* resolveMatch: each coin is the next of the stream, drawn only when a round falls through to it.
\* (mutant: the last rounds draw first)
DrawnLast(f, as, bs, coins, results, round) ==
  1 + Cardinality({k \in round + 1 .. Rounds : Verdict(f, as[k], bs[k], k, "p1") = None})
Drawn(f, as, bs, coins, results, round) ==
  1 + Cardinality({k \in 1 .. round - 1 : results[k].flip})
RoundResult(f, as, bs, coins, results, round) ==
  LET by == Verdict(f, as[round], bs[round], round, IF round = 1 THEN None ELSE results[1].winner)
      coin == coins[Drawn(f, as, bs, coins, results, round)] IN
    [winner |-> IF by # None THEN by ELSE IF coin THEN "p1" ELSE "p2", flip |-> by = None]
Match(f, as, bs, coins) ==
  FoldLeft(LAMBDA results, round : Append(results, RoundResult(f, as, bs, coins, results, round)),
           <<>>, [k \in 1 .. Rounds |-> k])
WinnerOf(results) ==
  IF Cardinality({k \in DOMAIN results : results[k].winner = "p1"}) * 2 > Rounds THEN "p1" ELSE "p2"

-----------------------------------------------------------------------------
(* The duel.                                                                *)

Charged(elements, poison, potion) ==
  [k \in 1 .. Rounds |-> [element |-> elements[k], poison |-> k = poison, potion |-> k = potion]]

\* openBotDuel: the bot's whole match comes out of the seed before the player picks anything.
DuelInit ==
  /\ fighter \in [{"p1", "p2"} -> Fighters]
  /\ stream \in Streams
  /\ \E elements \in [1 .. Rounds -> Elements], poison, potion \in BotRounds :
       bot = Charged(elements, poison, potion)
  /\ played = <<>> /\ shown = <<>>

\* resolvePrefix: what is not played is padded on both sides.
MoveOrPad(k, moves) == IF k <= Len(moves) THEN moves[k] ELSE Pad
Prefix(moves) ==
  Match(fighter, [k \in 1 .. Rounds |-> MoveOrPad(k, moves)],
        [k \in 1 .. Rounds |-> IF k <= Len(moves) THEN bot[k] ELSE Pad], stream)

\* playRound: one charge of each kind a match.
ChargesSpent(kind) == \E k \in DOMAIN played : played[k][kind]
PlayRound(move) ==
  /\ Len(played) < Rounds
  /\ \A kind \in {"poison", "potion"} : ~(move[kind] /\ ChargesSpent(kind))
  /\ played' = Append(played, move)
  /\ shown' = SubSeq(Prefix(played'), 1, Len(played'))
  /\ UNCHANGED <<fighter, stream, bot>>

DuelNext == \E move \in Move : PlayRound(move)
DuelSpec == DuelInit /\ [][DuelNext]_duelVars

-----------------------------------------------------------------------------
(* Properties.                                                              *)

\* "Rounds already shown therefore cannot change when later moves arrive" (duel.js:22), although
\* each is worked out anew from a match whose rest was different.
ShownRoundsStand == [][IsPrefix(shown, shown')]_duelVars

\* What was shown round by round is the match a committed one would have been, and the engine has no
\* favourite: with the sides swapped, and the coins, the other side wins each round.
Swapped(side) == fighter[Other(side)]
Mirror(results) == [k \in DOMAIN results |-> [results[k] EXCEPT !.winner = Other(@)]]
SidesAreEqual ==
  Len(played) = Rounds =>
    /\ shown = Match(fighter, played, bot, stream)
    /\ Match([s \in {"p1", "p2"} |-> Swapped(s)], bot, played, [k \in DOMAIN stream |-> ~stream[k]])
         = Mirror(shown)

\* A duel played round by round is the match that a committed one would have been.
RoundsAsCommitted == []DuelTypeOK /\ ShownRoundsStand /\ []SidesAreEqual
=============================================================================
