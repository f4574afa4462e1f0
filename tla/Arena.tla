-------------------------------- MODULE Arena --------------------------------
(***************************************************************************)
(* The Arena's tournaments: src/gamestore.js and its routes in src/server.js.  *)
(* A player's request and an operator's both await the chain before the store  *)
(* answers them in one step; players have signed in.                           *)
(***************************************************************************)
EXTENDS Integers, Sequences, FiniteSets, SequencesExt, Absent

CONSTANTS Players, Size, Loadouts, MaxHeight, MaxOrders, MaxMints
\* The store wants 8, 16 or 32 players; a bracket of four has all that is told apart here.
ASSUME SizeAssumption == Size \in {4, 8, 16, 32}
ASSUME PlayersAssumption == None \notin Players /\ MaxHeight \in Nat

VARIABLES
  cup,         \* the tournament: [status, entrants, rounds, out, champion]
  trophies,    \* t.trophies: place -> whether an inscription is recorded
  badges,      \* address -> its tournament badges
  queries,     \* joins that await carrierOwner: address -> "asked" | "owner"
  orders,      \* operator requests that await the beacon: a sequence of [kind, beacon]
  minting,     \* mintTournamentTrophies under way: the places still to do
  tip,         \* the node's height; a block's hash is known once it is the tip
  moved,       \* history: [round, by, at] of each loadout, of joining as of the first round
  minted       \* history: trophies inscribed

arenaVars == <<cup, trophies, badges, queries, orders, minting, tip, moved, minted>>
storeless == <<queries, tip>>

Places == {"champion", "runnerUp"}
Entrants == ToSet(cup.entrants)
LastRound == cup.rounds[Len(cup.rounds)]
Pending(m) == m.winner = None
Loser(m) == IF m.winner = m.p1 THEN m.p2 ELSE m.p1

ArenaTypeOK ==
  /\ cup.status \in {"registering", "running", "ended"}
  /\ Len(cup.entrants) <= Size /\ Entrants \subseteq Players
  /\ \A r \in DOMAIN cup.rounds : \A i \in DOMAIN cup.rounds[r].matches :
       LET m == cup.rounds[r].matches[i] IN
         /\ {m.p1, m.p2} \subseteq Entrants /\ m.winner \in {None, m.p1, m.p2}
         /\ {m.l1, m.l2} \subseteq Loadouts \cup {None}
  /\ DOMAIN cup.out \subseteq Entrants /\ cup.champion \in Entrants \cup {None}
  /\ trophies \in [Places -> BOOLEAN]
  /\ DOMAIN queries \subseteq Players
  /\ tip \in 0 .. MaxHeight

ArenaInit ==
  /\ cup = [status |-> "registering", entrants |-> <<>>, rounds |-> <<>>, out |-> <<>>, champion |-> None]
  /\ trophies = [p \in Places |-> FALSE] /\ badges = [p \in Players |-> {}]
  /\ queries = <<>> /\ orders = <<>> /\ minting = {}
  /\ tip = 0
  /\ moved = {} /\ minted = <<>>

-----------------------------------------------------------------------------
(* Players.                                                                 *)

\* handleGameTournamentJoin: fighterForVerginal asks the chain, then joinTournament.
AskOwner(p) ==
  /\ p \notin DOMAIN queries
  /\ queries' = [q \in DOMAIN queries \cup {p} |-> IF q = p THEN "asked" ELSE queries[q]]
  /\ UNCHANGED <<cup, trophies, badges, orders, minting, tip, moved, minted>>
Answered(p) == queries' = [q \in DOMAIN queries \ {p} |-> queries[q]]
HasRoom == Len(cup.entrants) < Size
Join(p) ==
  /\ p \in DOMAIN queries /\ Answered(p)
  /\ IF cup.status = "registering" /\ HasRoom /\ p \notin Entrants
     THEN /\ cup' = [cup EXCEPT !.entrants = Append(@, p)]
          /\ badges' = [badges EXCEPT ![p] = @ \cup {"tournament_debut"}]
          /\ moved' = moved \cup {[round |-> 1, by |-> p, at |-> tip]}
     ELSE UNCHANGED <<cup, badges, moved>>
  /\ UNCHANGED <<trophies, orders, minting, tip, minted>>

\* submitTournamentLoadout: your pending match of the current round, once.
MatchOf(p) ==
  {i \in DOMAIN LastRound.matches :
     LET m == LastRound.matches[i] IN Pending(m) /\ p \in {m.p1, m.p2}}
Submit(p, l) ==
  /\ cup.status = "running"
  /\ \E i \in MatchOf(p) :
       LET m == LastRound.matches[i]  r == Len(cup.rounds) IN
         /\ IF m.p1 = p THEN m.l1 = None ELSE m.l2 = None
         /\ cup' = [cup EXCEPT !.rounds[r].matches[i] =
              IF m.p1 = p THEN [m EXCEPT !.l1 = l] ELSE [m EXCEPT !.l2 = l]]
         /\ moved' = moved \cup {[round |-> r, by |-> p, at |-> tip]}
  /\ UNCHANGED <<trophies, badges, orders, minting, minted>> /\ UNCHANGED storeless

-----------------------------------------------------------------------------
(* The operator.                                                            *)

\* handleGameAdminStart and handleGameAdminResolve: bestBlockBeacon is the tip, asked for now.
Order(kind) ==
  /\ Len(orders) < MaxOrders
  /\ orders' = Append(orders, [kind |-> kind, beacon |-> tip])
  /\ UNCHANGED <<cup, trophies, badges, minting, moved, minted>> /\ UNCHANGED storeless
Done(k) == orders' = RemoveAt(orders, k)

\* _layoutRound: neighbours meet, and everybody there has reached a field of that size.
Layout(r, field) ==
  [field |-> Len(field),
   matches |-> [i \in 1 .. Len(field) \div 2 |->
     [p1 |-> field[2 * i - 1], p2 |-> field[2 * i], l1 |-> None, l2 |-> None,
      winner |-> None, beacon |-> None]]]
FieldBadge(n) == CASE n = 2 -> "finalist" [] n = 4 -> "top_4" [] n = 8 -> "top_8"
                   [] n = 16 -> "top_16" [] OTHER -> "top_32"
Reached(bs, field) ==
  [p \in Players |-> IF p \in ToSet(field) THEN bs[p] \cup {FieldBadge(Len(field))} ELSE bs[p]]

\* startTournament: the shuffle is whatever the hash makes it.
Shuffles == {s \in [1 .. Size -> Entrants] : ToSet(s) = Entrants}
Start(k) ==
  /\ k \in DOMAIN orders /\ orders[k].kind = "start" /\ Done(k)
  /\ IF cup.status = "registering" /\ Len(cup.entrants) = Size
     THEN \E field \in Shuffles :
            /\ cup' = [cup EXCEPT !.status = "running", !.rounds = <<Layout(1, field)>>]
            /\ badges' = Reached(badges, field)
     ELSE UNCHANGED <<cup, badges>>
  /\ UNCHANGED <<trophies, minting, moved, minted>> /\ UNCHANGED storeless

\* resolveTournamentRound: the fight when both came, a forfeit when one did, the hash when neither.
SecondLoses(m) == m.p2                                  \* (mutant: the loser is taken to be the second)
LoserOf(m) == Loser(m)
CanWin(m) ==
  IF m.l1 = None /\ m.l2 # None THEN {m.p2}
  ELSE IF m.l2 = None /\ m.l1 # None THEN {m.p1}
  ELSE {m.p1, m.p2}
Resolve(k) ==
  /\ k \in DOMAIN orders /\ orders[k].kind = "resolve" /\ Done(k)
  /\ IF cup.status = "running"
     THEN LET r == Len(cup.rounds)  ms == LastRound.matches IN
       \E win \in [DOMAIN ms -> Players] :
         /\ \A i \in DOMAIN ms : win[i] \in CanWin(ms[i])
         /\ LET over == [i \in DOMAIN ms |->
                           [ms[i] EXCEPT !.winner = win[i], !.beacon = orders[k].beacon]]
                beaten == {LoserOf(over[i]) : i \in DOMAIN over}
                rest == [cup EXCEPT !.rounds[r].matches = over,
                           !.out = [p \in DOMAIN @ \cup beaten |-> IF p \in beaten THEN r ELSE @[p]]] IN
              IF Len(ms) = 1
              THEN /\ cup' = [rest EXCEPT !.status = "ended", !.champion = win[1]]
                   /\ badges' = [badges EXCEPT ![win[1]] = @ \cup {"champion"},
                                               ![Loser(over[1])] = @ \cup {"runner_up"}]
                   /\ minting' = Places
              ELSE /\ cup' = [rest EXCEPT !.rounds =
                                Append(@, Layout(r + 1, win))]
                   /\ badges' = Reached(badges, win)
                   /\ UNCHANGED minting
     ELSE UNCHANGED <<cup, badges, minting>>
  /\ UNCHANGED <<trophies, moved, minted>> /\ UNCHANGED storeless

\* mintTournamentTrophies, one place after the other; a mint that fails is only logged.
MintTrophy(place, works) ==
  /\ place \in minting /\ (place = "runnerUp" => "champion" \notin minting)
  /\ minting' = minting \ {place}
  /\ trophies' = IF works THEN [trophies EXCEPT ![place] = TRUE] ELSE trophies
  /\ minted' = IF works THEN Append(minted, place) ELSE minted
  /\ UNCHANGED <<cup, badges, orders, moved>> /\ UNCHANGED storeless
\* handleGameAdminMintTrophies: again, for both places.
MintAgain ==
  /\ cup.status = "ended" /\ minting = {} /\ Len(minted) < MaxMints
  /\ minting' = Places
  /\ UNCHANGED <<cup, trophies, badges, orders, moved, minted>> /\ UNCHANGED storeless
\* handleGameAdminTrophy: recorded by hand.
SetTrophy(place) ==
  /\ ~trophies[place]
  /\ trophies' = [trophies EXCEPT ![place] = TRUE]
  /\ UNCHANGED <<cup, badges, orders, minting, moved, minted>> /\ UNCHANGED storeless

BlockComes ==
  /\ tip < MaxHeight /\ tip' = tip + 1
  /\ UNCHANGED <<cup, trophies, badges, queries, orders, minting, moved, minted>>

-----------------------------------------------------------------------------
Play == \E p \in Players : AskOwner(p) \/ Join(p) \/ \E l \in Loadouts : Submit(p, l)
Operate ==
  \/ \E kind \in {"start", "resolve"} : Order(kind)
  \/ \E k \in DOMAIN orders : Start(k) \/ Resolve(k)
  \/ \E place \in Places : SetTrophy(place) \/ \E works \in BOOLEAN : MintTrophy(place, works)
  \/ MintAgain
ArenaNext == Play \/ Operate \/ BlockComes
ArenaSpec == ArenaInit /\ [][ArenaNext]_arenaVars

-----------------------------------------------------------------------------
(* Properties.                                                              *)

\* Whatever the order of joins, loadouts and (repeated, late) operator requests, the bracket is one
\* of single elimination: who meets in a round won the one before, who is marked out in a round lost
\* in it, and the champion is the only one who never lost (gamestore.js:406 "Winners advance; the
\* final crowns a champion").
Lost(p) == {r \in DOMAIN cup.rounds :
              \E i \in DOMAIN cup.rounds[r].matches :
                LET m == cup.rounds[r].matches[i] IN ~Pending(m) /\ Loser(m) = p}
InRound(r) ==
  UNION {{cup.rounds[r].matches[i].p1, cup.rounds[r].matches[i].p2} : i \in DOMAIN cup.rounds[r].matches}
BracketSound ==
  /\ \A r \in DOMAIN cup.rounds :
       InRound(r) = {p \in Entrants : p \notin DOMAIN cup.out \/ cup.out[p] >= r}
  /\ \A p \in Entrants : Lost(p) = IF p \in DOMAIN cup.out THEN {cup.out[p]} ELSE {}
  /\ cup.rounds # <<>> => Cardinality(Entrants) = Size
  /\ (cup.status = "ended") <=> (cup.champion # None)
  /\ cup.champion # None => Entrants \ DOMAIN cup.out = {cup.champion}

\* The badge of a field goes to who reached it, the last two to who played the final.
BadgesEarned ==
  \A p \in Players :
    /\ ("finalist" \in badges[p]) <=> \E r \in DOMAIN cup.rounds : cup.rounds[r].field = 2 /\ p \in InRound(r)
    /\ ("champion" \in badges[p]) <=> p = cup.champion
    /\ "runner_up" \in badges[p] => Lost(p) = {Len(cup.rounds)}

\* The bracket, and the badges given on it (gamestore.js:339-456).
CupSound == ArenaTypeOK /\ BracketSound /\ BadgesEarned

-----------------------------------------------------------------------------
(* What comments say, and the code does not do.                             *)

\* "`beacon` is a Verge block hash committed before it existed (the caller announces the height in
\* advance)" (gamestore.js:336); "a Verge block hash announced before the block existed"
\* (game.js:56): the field was complete, and the loadouts were in, before the block that decides.
BeaconUnknown ==
  \A r \in DOMAIN cup.rounds : \A m \in moved :
    LET decides == {cup.rounds[r].matches[i].beacon : i \in DOMAIN cup.rounds[r].matches} IN
      m.round = r => \A b \in decides \ {None} : m.at < b
=============================================================================
