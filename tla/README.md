# Verginals in TLA+

Formal models of Verginals: the server (`src/src`, Node.js), which follows the Verge chain, keeps
the state of inscriptions and runes found in it, sells inscriptions, collection numbers and runes
to buyers who pay a deposit address, and runs two games over them; and the browser wallet
(`src/extension`) that holds a user's keys and coins. The models are translated from the code,
checked by TLC on small instances, and most of the safety properties checked are proved by TLAPS for
every value of the constants.

Paths below are relative to the repository; the server's code is in `src/src`, abbreviated `src/`
in prose (`src/server.js` is the file `src/src/server.js`).

## 1. Inventory

The server is one Node process. There are no threads: concurrency is what happens between two
`await`s. Everything that waits for the Verge node gives up the thread, and timers and HTTP
requests run in between. Beside it run a command-line tool over the same directory (the launchpad's
review), and in the browser a service worker that the browser suspends at will.

| component | state | operations | interacts with | what is hard | what makes it correct |
|---|---|---|---|---|---|
| Payment jobs, mint pipeline (`server.js`, `jobsweep.js`) | one JSON file per job, the `processing` set | quote, mint, poll, reaper, sweep, cleanup | number ledger, node | three kinds of driver with stale copies; crash between broadcast and save; lost answers; late payments | files and ledger claim only what the chain holds; nothing paid is forgotten; a number goes out once |
| Number ledger (`mint.js`) | reserved and minted numbers, one file | reserve, confirmMinted, release, staleReservations | jobs, by number only | calls that come late | no number counted twice, none freed while its buyer has paid |
| Index service (`indexservice.js`, `reorg.js`) | block trail, snapshots, the state machines | sync, repair, rebuild | node, state machines | the chain moves between two answers | one chain, right rewinds, convergence |
| Rune state machine (`runes/indexer.js`) | runes, tickers, balances per outpoint, allowlist use | applyTx | index service | edicts, mints and etchings in one transaction; arithmetic on doubles | conservation, terms, unique names, entitlements |
| Second rune implementation (`runes/verify.js`) | a journal | apply | conformance tests | diverging from the first | both give the same balances |
| Codec, scanner, tickers, checkpoints (`runes/*`) | none | decode, detectEtching, toIndexerTx, merkle tree | both state machines | what does not decode | one reading of each payload |
| Inscription indexer (`indexer.js`, `envelope.js`) | inscriptions, locations | processTx | index service | offsets first in, first out | an inscription is in one place |
| Action ledger (`airdrop.js`) | actions read off inscriptions | apply, snapshot | index service | order within a block | same actions after a rewind |
| Parent tip, reveal chain (`server.js`, `vergetx.js`) | the tip, a promise chain | resolveParentTip, withParentLock | every driver | two reveals on one tip; mempool limits | tips are spent once |
| Promo (`promo.js`) | held and used slots | hold, confirm, release | mint requests | request fails after hold | slots never exceed the campaign |
| Etch jobs (`runes/etchjob.js`, `driveEtch`) | job file, `etchDriving` | quote, poll, drive | node | same as the mint pipeline, more steps | a paid etching gets on the chain |
| Order books (`orderbook.js`, `runes/book.js`, `swap.js`, `runes/bid.js`) | listings, bids, sales | list, bid, prune | node, index (which lags) | prunes interleaved over awaits | a sale is recorded once, no live bid lost |
| Launchpad (`launchpad.js`, `launchpadreview.js`) | a folder per draft, a folder per collection | draft, finalize, approve, refresh, sell | mint pipeline, review tool | two processes over one directory; the tool dies half way | what was approved is what is sold, to nobody more than agreed |
| Arena game (`gamestore.js`, `game.js`, `duel.js`) | one JSON file | join, lock, resolve, trophies | ownership from the index, the chain's beacon | requests that looked at the chain before a round and answer after it | the right champion, each trophy once |
| Adventure (`adventure.js`, `stable.js`, `lifecycle.js`, `fertility.js`, `adventure/*`) | one file per stable | open and resolve a pairing, care, visit | ownership | parents sold between two requests; growth settled lazily; fights whose effects cross a change of form | no child twice, an absence costs nothing, a fight ends by its rules |
| Standalone indexer (`tools/indexer`) | a state file | run, save, resume | node | crash, reorganisation while down | resumes on the chain it left |
| Wallet: coins (`extension/lib/wallet.js`, `swap.js`, `runebid.js`, `runes.js`) | none, all on the chain | send, transfer, bid, buy, fill, mint | network, indexer | an indexer behind the network, coins of three kinds in one wallet | no inscription or rune is spent unasked |
| Wallet: keys and sites (`extension/background.js`, `lib/wallet.js`) | vault, session, memory | unlock, lock, switch, connect, approve | pages, the browser | handlers that interleave, a worker suspended | a lock holds, the key is the active account's |
| Wallet: what a coin carries (`lib/inscriptions.js`) | transactions and verdicts in memory and storage | detect, annotate | network | calls that fail half way, verdicts kept for ever | an inscribed coin is never called ordinary |
| Wallet: connection (`lib/electrum.js`) | socket, pending requests, attempt under way | connect, request, close | public servers, the browser | a socket closed late, two callers, a server that goes silent | every call is answered or refused |
| Wallet: pages (`extension/ui`) | - | - | - | - | - |
| Prices, blocklist, read routes, web pages | small stores | - | - | - | - |

`PROJECT.json` lists each with its status, and under `hazards` what in this code is hard to test,
each at its line, with the properties that look for it.

## 2. Modules

| module | models | extended or used by |
|---|---|---|
| `MintPipeline` | payment jobs and number ledger | `MCMintPipeline`, `MintPipelineProofs` |
| `Chains` | blocks and chains | `ChainFollower`, `IndexService` |
| `ChainFollower` | abstract: what any index of the chain promises | refined by `IndexService` |
| `IndexService` | the scan, its trail, its snapshots | `MCIndexService`, `IndexServiceProofs` |
| `RuneTransactions` | what the protocol sees of a transaction | `RuneState`, `RuneJournal` |
| `RuneState` | the rune state machine | `RuneConformance` |
| `RuneJournal` | the second implementation of the same rules | `RuneConformance` |
| `RuneConformance` | both, fed the same transactions | `MCRuneState`, `RuneProofs` |
| `OrderBook`, `RuneBook`, `Promo`, `Launchpad` | what is traded, given away and sold | `MCMarket`, `MarketProofs` |
| `Settlement` | what settles a sale | `MCMarket`, `MarketProofs` |
| `Inscriptions` | where inscriptions are, and what a drop owes | `MCMarket`, `InscriptionsProofs` |
| `EtchJob`, `ParentTip` | etching, and the tip that reveals are chained on | `MCMint`, `MintProofs` |
| `WalletKeys`, `Line` | the browser wallet's keys and its connection | `MCMint`, `MintProofs` |
| `Tracer` | what a coin of the browser wallet carries | `MCMarket`, `MintProofs` |
| `WalletCoins` | the browser wallet's coins | `MCMint` |
| `Arena`, `Duel`, `Stable`, `Nursery` | the tournament, the duel, pairings and growth | `MCGame`, `GameProofs` |
| `Fight` | fights | `MCGame`, `GameProofs` |
| `Vivarium` | the event loop of a vivarium | `MCGame`, `GameProofs` |
| `Totals` | the sum of a sequence | `Inscriptions`, `Settlement`, `DataInduction` |
| `DataInduction` | lemmas: sums, folds and picks over finite sets | the proof modules |
| `Absent` | `None`, the value of a field that is null | all of them |

`MCMarket`, `MCMint` and `MCGame` put components side by side that share no state: a behaviour picks
a desk and moves what is on it, while the rest stands still. Where components do share state (the
chain in `OrderBook`, the directory of the launchpad and its tool, the pipeline and its ledger) they
are one module.

### MintPipeline

One action is what runs between two awaits of `handleJob`, `reapMintReservations`,
`driveAbandonedJobs`, `drivePayout`, `handleMint`, `handleQuote` and `cleanupJobs`. A driver's
locals are `actor[d]`: where it stands, its job, and ITS COPY of the job file, which is the point:
every write back to disk is of that copy. `disk` is the files, `reserved` and `minted` the ledger,
`deposit` and `revealed` what the node has accepted. A file keeps what decisions look at: status,
whether the two txids are set, the attempts.

- A broadcast may be accepted, refused, or accepted with its answer lost. `Crash` ends the process
  at any point; `CrashInSave` and `CrashInPick` end it in a write, which leaves a torn file.
- `MaxCrashes` and `MaxFaults` bound crashes and failing calls, `Polls` how many requests are open.
  `SweepLimit` is the literal 3 of the code, `MaxAttempts` is MAX_DRIVE_ATTEMPTS.
- Abstractions: one collection, drawn in order, no promo, no guard module. A deposit is paid once
  and in full. One reaper cycle and one sweep at a time (the timers could start another before the
  last has ended, when a cycle takes longer than its period). The sweep's second look at a deposit
  is part of its commit, which succeeds or fails. The parent lock only orders reveals and is not
  modelled. `Cleanup` uses that thirty days are many reaper cycles.

### IndexService

The state machines are functions of the blocks fed to them, so their state is that sequence,
`ledger`. A block is its whole history (a hash commits to it), so two blocks at one height differ
exactly when the chains do. One action is one answer of the node, and the node's chain may grow or
be replaced by any other, longer or shorter, before each. `Rebuild` is the handler of
`ReorgTooDeep` in `syncIndex`, which puts back the state of a new service but neither the counter
nor the snapshots. `agreed` and `repaired` are history variables.

### RuneState

`ApplyTx(tx, pos, ins)` is the whole of `applyTx`: pooling, etching, mint, edicts, default
assignment. A transaction is what decoding makes of it (`RuneTransactions`): the etching found in
it and whether its price is locked, its outputs (able to hold runes, dust, or data with a decoded
message or none), the fee and the allowlist entry it proves. Its txid is its position. A merkle
proof is membership in the set the root commits to, with the key of that entry signing an input;
an etching without allowlist has the empty set (a root that commits to nobody is left out). Inputs are the outpoints that carry something. Of
`state.height` the model keeps the position of the last transaction. `Plus` is the addition of
doubles around 2^53 (the constant `Exact`, scaled down in the instances); what one transaction
pools is summed exactly, because no such sum is compared with anything. `burned` is a history
variable.

### RuneJournal

`JournalApply` is `apply` of `runes/verify.js`, and `RuneConformance` feeds it every transaction it feeds
`RuneState`. The code keeps a list of deltas and adds it up when asked; only sums are ever read, so
`records` holds the sums. `BothAgree` compares balances, registry, issue and allowlist use.

### OrderBook, RuneBook

`OrderBook`: a request of `addListing`, `addBid`, `listingFor`, `bidsFor` reads the chain once or
twice and takes its next step when the answer is there, so two of them interleave in every order.
The chain is the trail of holders of each inscription, spent bidders' coins, and the trades made;
`seen` is how much of a trail the index has read. `RuneBook`: what matters is that `bidsFor` walks an
array that `putBid` changes in place or replaces; a reader keeps the array it walks (`reader`).
Signatures are taken as valid and the layout of a swap as right.

### Settlement

The transaction that settles a sale, with the layout of `swap.js`: a signature is what it covers
(slot, time, the one output), a coin has a value, an age and the place of its inscribed unit, and the
network takes what spends live coins, is no older than they are and signed for what it is. Listings,
bids and sweeps are put together from any coins the buyer has, before and after they move.

### Inscriptions

The chain keeps the very units each output holds, first in first out; `Apply` is `processTx` with the
offsets and values the index has, `trackParentTip` and the action ledger of `airdrop.js`. Each
property compares what the index says with where the units are.

### Launchpad

`Curation` is the server's handlers, each in one step, and the tool's `approve`, `reject` and purge,
one action per file they write; `SaleNext` is quoting, paying and delivering, as far as caps and
allowlists go. `ToolDies` leaves what is written. `sent` remembers what was finalized.

### Promo

`handleMint` of a job (`handler`), its driver, and the reaper, each between awaits; the promo wallet's
coin, so that two gifts may spend one. The process ends at any point and begins from `promo.json`.

### EtchJob, ParentTip

`EtchJob` is `driveEtch` and the handlers around it for one job: a poll loads the file, waits, and
writes back the copy it has. `ParentTip` is the chain of reveals: what the file says, what the node
has, what the index knows, and the promise chain `parentLock`; drops from the mempool take the
descendants with them.

### WalletCoins, WalletKeys

`WalletCoins` chooses coins exactly as the wallet does (`fundPlain`, `fundSwap`, `coverRunes`,
`safeToSpend`...), builds the outputs, and lets the network take the transaction or refuse it for dust
or fee. Runes move by the protocol's default rule, the inscription by offset. `known` is what the
indexer has read. Values are in steps of 200 atomic units, one byte of relay fee.
`WalletKeys` is one action per stretch between awaits of the message handlers, the suspension of the
worker, and what a key derivation may come back to.

### Tracer

`_detectOutput` calls itself for an input's output, and waits for each transaction on the way: a walk is the
stack of the outputs it is in the middle of (`Frame` is the innermost), with its own budget and memo. One
step is what runs between two awaits: a result the walk, the storage or the budget has already (`Enter`), a
transaction from storage or from the network (`Recall`, `GetTransaction`, `Got`, `GetFails`), the tip,
which is asked for once in a session (`GotTip`), the transaction read (`Read`), the next input (`Descend`), the end
of the loop (`Finish`). Several walks of one session interleave and share what is in memory and in storage
(`tracer`); any call may fail. `WorkerEnds` leaves the storage, at whatever point the walks are. What a coin really
carries (`Really`) is computed from the very units of each output, as in `Inscriptions`: the unit at each place of what
goes into a transaction is named by where it was minted.

### Line

`line` is the `ElectrumClient` with the sockets it ever opened, `calling` where each caller's promise is.
A step is one event of the browser (a socket opens, fails, brings a message or says it closed; a timer
fires; somebody calls) with all the promises it settles. `gaveUpOn` is history, for `FailsOver`.

### Arena, Duel, Stable, Nursery, Vivarium, Fight

`Arena`: a tournament of four from registration to trophies; joins and operator requests await the
chain, and answer after whatever happened meanwhile. `Duel`: the combat engine round by round, over
every pair of fighters and moves the constants allow, with streams of coin flips given. `Stable`:
`adventure.js` reads both parents over awaits before it opens or resolves a pairing. `Nursery`: growth
by days, settled when somebody looks. `Vivarium`: the event loop of `adventure/vivarium.js` as a
function of the number of events over a world record, up to the guard of the code (`Guard`); one action looks
after any wait, the others do one deed. `Fight`: `adventure/combat.js` turn by turn (upkeep,
action, riposte, flip, clock) with the page that plays it, `web/adventure-game.js`: the buttons and
their guards, the bot and its timer. A fighter is its faces, each with numbers, moves and passives; the draws of
`draw()` are free.

## 3. Runs

| run | shows | instance |
|---|---|---|
| `pipeline` | `DiskTellsTruth`, `LedgerSound`, `NoLeakedLock`, `FundedNumberNeverFreed` | 2 mints racing for the 1 number, 1 plain job, 1 poll with reaper and sweep, 1 attempt, 1 crash, 1 fault |
| `pipeline_live` | `AbandonedArePickedUp`, `PaidMintsAreDriven` | nobody polls; 2 numbers, 2 attempts, 2 faults |
| `index` | `OneChain`, `RewindsOnItsOwnChain`, `FreshAnswer`, refinement, `Converges` | chains of up to 3 blocks over 2 labels, 2 reorganisations, trail 1 deep, 2 snapshots, 1 repair, 1 fault, 1 restart |
| `runes` | `Conserved`, `TermsKept`, `NamesOneToOne`, `Entitled`, `BothAgree` | 6 positions, 2 names, about 80 transactions |
| `market` | eleven desks, below | `Market.cfg` |
| `mint` | five desks, below | `Mint.cfg` |
| `game` | six desks, below | `Game.cfg` |
| `pipeline_drivers` | violated: one driver per job | 2 polls, no crash or fault |
| `pipeline_twice` | violated: a number is inscribed once | same |
| `rune_supply` | violated: the supply bounds the mints | `Exact` = 8 |
| `wallet_rest` | violated: what is not sent comes home | the purse desk of `mint` |
| `wallet_trace` | violated: what could not be decided is not called clean | the trace desk of `market`, 1 walk |

The desks, with what each shows:

| run, desk | property | says |
|---|---|---|
| market, listings and bids | `SaleKept` | a listing whose trade is on the chain leaves the book only with a record of a sale, however prunes overlap and the index lags |
| market, swaps | `SettlementRight` (`SaleSettles`) | what `swap.js` puts together is taken by the network unless a coin is spent, pays what was signed, delivers the inscription at the start of a fresh coin, and costs the price |
| market, listings and bids | `BookTellsTruth` | what is sold has left its seller, what is hidden is spent, the best bid is first |
| market, rune orders and rune bids | `BidsSound` | one offer of a buyer for the same carriers, within the book's bounds and under its own seller, while readers write back what they walked |
| market, offsets and drop | `IndexSound` | an inscription is where its unit is, `locations` is the inverse, parents were spent, the tip is the carrier, a snapshot is answerable for any height and gives all away |
| market, curation and sale | `SaleSound` | a live collection is the one its creator finalized, though the tool dies between two files; nobody gets past the wallet cap |
| market, promo | `SlotsSound` | gifts within the limit, no slot kept for nothing |
| market, trace | `TracedRight` | a coin called clean carries nothing and what a coin is said to carry is there, whatever was cached, lost or cut short, by whomever |
| mint, etch | `JobSound`, `PaidIsEtched` | the file claims only what the chain has, is never locked for good; a paid etching gets on the chain |
| mint, tip | `TipSound`, `MCGoesOn` | no reveal is sent on a dead tip, a live tip is never forgotten; every mint gets its reveal |
| mint, purse | `PurseRight` (`TokensKept`, `TradesSettle`) | the inscription and the runes stay unless asked for; what was signed on both sides is accepted by the node |
| mint, keys | `KeysSound` | locked means no key, and the key is the active account's |
| mint, net | `LineSound` | no call to the servers is left that neither a timer nor an attempt under way will settle, whenever sockets close |
| game, arena | `CupSound` | nobody who lost goes on, one champion, badges to who earned them |
| game, duel | `RoundsAsCommitted` | a round shown never changes; sides are equal |
| game, stable | `PairingsSound` | a pairing is paid once, gives once, and to the holder of both |
| game, nursery | `AbsenceCostsNothing` | growth does not depend on when somebody looks |
| game, vivarium | `HungerSpares` | hunger alone never ends the last two |
| game, fight | `FightSound` | a fight is decided by its rules, once and within the horizon; a form is what its face says; a locked door stays locked |

A desk's property includes the types of its module (`...TypeOK`), which have no run of their own.

Why these bounds are enough. In the pipeline a wrong write needs two drivers with copies of one
job (one poll and one timer) and a wrong release needs two buyers after one number; a lost answer
and a crash are each a single event, and the model lets them fall anywhere. In the index the
interesting relations are between fork, trail, oldest and newest snapshot: with a trail of depth 1
and 2 snapshots in 3 blocks every one of "in reach", "too deep" and "no snapshot as old" happens,
and snapshots of abandoned chains stay in the list. In the rune run the transactions are one of
each class the code distinguishes (every guard has one on each side), and positions lie on both
sides of activation and maturity; each amount, cap and entitlement is reached and passed by one.
In the market two requests overlap, an inscription is on three outpoints (listed, sold, back at its
seller), one outpoint is listed twice, and each cap (listings, bids, sales, fills) is two, so it is
reached and passed; transactions of the indexer's desk have up to two inputs in any order and two
outputs of value nought to two, which splits, joins, burns and leaves a fee. Three jobs ask for two
promo slots (two, in the behaviours with both a failing call and a restart). A tool that dies and a
new day are looked at apart. The purses of the swaps sell two carriers of one seller, and one carrier
worth three postages, to a buyer whose own coins may move first. In the mint, a chain limit of two is reached by two mints and a retry; the wallet's purses
are chosen so that every way of selecting coins comes to its end and to its failure. In the games a
tournament of four has a semifinal and a final, which is all a round of any size knows of the next;
days and minutes go past every threshold; the guard of a hundred events (the code has 200000) is past what 480
minutes bring, and a world of one tile fills up. Fights are between four pairs of fighters, chosen so that
every move, passive and house of the code is in one; seven turns (the code has twenty) let each effect
begin, lapse and be flipped under, and the clock run out. The tracer meets chains of two coinbases
(one older than the era), a reveal on some of their units, alone or behind others, and a transaction that moves
them on; it has three outputs to visit where the deepest walk wants four, and two walks at a time or one after
the other, so that each finds what the other has kept, dated or not yet stored. The connection has the two servers of
the code and two callers with three calls, enough for each server to fail in turn while a call waits.
All actions and disjuncts fire. The market run is reduced by the symmetry of requests (walks
are asked for by two of them) and of the two carriers; it checks no liveness.

Deadlock is not checked: every one of these systems may legitimately have nothing left to do.

Fairness. `pipeline_live` assumes that a request once made is answered (each RPC has a timeout),
that the two intervals set at start-up keep firing, and that time passes over a reservation. It
assumes nothing of buyers or polls. `index` assumes the timer keeps calling `sync()` and
that every call returns or throws; the node may do as it likes, a bounded number of times. `mint`
assumes of the etching that every step of a request ends, and that its page, while open, keeps polling
(strongly: between two polls the job may be shut out by another); of the tip that blocks
come, that a driver's steps end and that the promise chain, which is a queue, comes to everybody. Nothing is
assumed of users, wallets or games.

### What the violations say

Each `violation` run states what a comment, a test or the specification says, and TLC's trace
shows the code doing otherwise; `findings` quotes both.

1. `handleJob` looks at `processing`, awaits, and adds without looking again: two drivers. The node
   refuses the second commit, so no money moves twice, but the loser marks a done job `error`.
2. A buyer who pays late, after the release, gets the number another buyer also gets.
3. With a supply of 2^53 the comparison rounds, and mints go on past the supply. The builder that
   is said to refuse such supplies does not.
4. `sendRune` puts an edict on what is sent and nothing on the rest, and calls output 2 the change
   carrier; the protocol's default sends the rest to output 1, the recipient's.
5. A failed question for the tip counts as height 0, and every transaction is then older than the
   first inscription: an inscribed coin is called clean, and stored as such for good.

### Further disagreements

Stated in the modules, violated when checked, and given no run of their own: each is one INVARIANT or
PROPERTY line away, in the configuration named.

| definition | says | how to see it |
|---|---|---|
| `MintPipeline!CommittedNumberNeverFreed` | a number whose commit is out is not released (the reaper judges by an older copy) | `PipelineDrivers.cfg` |
| `IndexService!RepairedWithinTrail` | a reorganisation within the trail needs no rebuild (a chain shorter than the index does) | `IndexService.cfg`, trail 3 |
| `IndexService!ReorgsCounted` | the counter counts the repairs (it is rewound with the rest) | `IndexService.cfg`, 3 reorganisations |
| `RuneState!MessageWholeOrIgnored` | a bad message is ignored in full (one edict is skipped alone) | `RuneState.cfg` |
| `OrderBook!LogIsTrades` | one log entry per trade, and one only (`orderbook.js:259`) | `Market.cfg`, desk listings |
| `Settlement!SweepDelivers` | one carrier per purchase (`swap.js:233`): the second seller's first units, and the inscription with them, are in an output that pays a seller | `Market.cfg`, desk swaps |
| `Settlement!SweepGoesThrough` | a sweep put together goes through (`swap.js:236`): the times of its listings may differ, and one transaction has one | same |
| `RuneBook!ReadsOnlyDrop` | a replaced bid stays replaced (`runes/book.js:117`): a reader writes it back | `Market.cfg`, desk rune bids |
| `Launchpad!WalletLimit` | the cap per address (`launchpad.js:653`), when a late payer pays for a reservation taken back | `Market.cfg`, desk sale |
| `Launchpad!DailyAllowance` | submissions a day (`launchpad.js:67-71`): drafts are opened before any is finalized | `Market.cfg`, desk curation, 2 items |
| `Launchpad!HardCeiling` | bytes under `launchpad/` (`launchpad.js:211`): the copies approve makes are not counted | `Market.cfg`, desk curation |
| `Inscriptions!OneActionPerTx` | one share per transaction (`airdrop.js:25`) | `Market.cfg`, desk drop |
| `EtchJob!NeverForgotten` | a split once known stays known (`runes/etchjob.js:144`): an older copy overwrites it | `Mint.cfg`, desk etch |
| `WalletKeys!LockHolds` | a lock holds (`background.js:12-13`): `_activate` gives the wallet its key back when the lock came during the derivation | `Mint.cfg`, desk keys |
| `WalletKeys!KeyFollows` | the key is the active account's when two switches overlap | `Mint.cfg`, desk keys |
| `WalletKeys!PhrasesKept` | an unlocked wallet has its phrases: a mistyped passphrase clears them | same |
| `WalletKeys!ConnectionKept` | a site stays connected: another's connecting overwrites the list it read | same, 2 sites, 6 messages |
| `WalletKeys!RequestAnswered` | an approved request is answered (`background.js:15`): one whose carrier cannot be resolved is not | same |
| `Line!FailsOver` | one server going down leaves the other (`extension/lib/electrum.js:16-17`): the late `onclose` of the first, closed when its greeting failed, rejects the second's greeting | `Mint.cfg`, desk net |
| `Line!OneSocket` | one connection at a time (`extension/lib/electrum.js:46`): the socket so rejected stays open | same |
| `Arena!BeaconUnknown` | the beacon is announced before its block exists (`gamestore.js:336`) | `Game.cfg`, `MaxHeight` 1 |
| `Stable!SlotsKept` | living descendants are limited (`stable.js:21`): open pairings are not counted | `Game.cfg`, desk stable |
| `Fight!LaughsAtOthers` | laughter answers the opponent's miss (`adventure/faces.js:53`): the flag is set by one's own | `Game.cfg`, desk fight |
| `Fight!EndedOnce` | a fight is ended once (`adventure/combat.js:38`): on the clock the page never ends it, on a double knock-out twice | same |
| `Fight!WinnerStands` | the winner stands: a riposte may fell both, and the one at 0 HP wins | same |
| `Vivarium!AbsenceIsPresence` | absence and presence give the same world (`vivarium.js:4`, but see 169-172) | `Game.cfg`, desk vivarium |

Noticed while modelling the wallet, and left in words: the coins that fund `transferInscription` may
carry runes (`wallet.js:1453`); a coin the indexer has not read answers `{}` and passes for one without
runes (954); the split that makes room for a bid is broadcast before the swap's fee is known to fit
(743-767); above a kilobyte plain fees are proportional where the rule is per whole kilobyte (82-83);
an approval shows the account that is active then, the send uses the one active later; a suspended
worker loses its pending approvals.

Smaller differences from `spec/RUNES-SPEC-v0.md`: the default assignment skips
dust outputs as well as OP_RETURNs (§3), and a mint goes to the first eligible output, not to
output 0 (§4.2).

## 4. Proofs

TLAPS proves the following for all values of the constants that satisfy the `ASSUME`s of the modules:
that limits are numbers (each module's `...Assumption`; a tournament has 8, 16 or 32 places, as in `TOURNAMENT_SIZES` of
`gamestore.js`, or the 4 of the instance; a stream of coins has one for each round, as a generator has), and that `None`, the model's null, is none of the values a field may have instead
(`NoListingIsNone`, `NoArrayIsNone`, `NoRingIsNone`, `NoAttemptIsNone`, `NoApprovalIsNone`,
`NoMintIsFree`). TLC evaluates them all in the runs.

| module | theorem | states |
|---|---|---|
| `MintPipelineProofs` | `TypeCorrect`, `Truthful`, `LedgerCorrect`, `LockFreed`, `FundedKept` | `TypeOK`, `DiskTellsTruth`, `LedgerSound`, `NoLeakedLock`, `FundedNumberNeverFreed` |
| `IndexServiceProofs` | `TypeCorrect`, `StateOfOneChain`, `RewindsRight`, `ReturnsFresh`, `Implements` | `TypeOK`, `OneChain`, `RewindsOnItsOwnChain`, `FreshAnswer`, `FollowsTheChain` |
| `RuneProofs` | `RegistryCorrect`, `NamesUnique`, `EntitlementsKept`, `SupplyKept` | `RegistryOK`, `NamesOneToOne`, `WithinEntitlement`, `TermsKept` |
| | `StateTyped`, `UnitsConserved`, `ListsExact`, `ImplementationsAgree` | `TypeOK`, `Conserved`, `Entitled`, `BothAgree` |
| `MarketProofs` | `RuneBookInvariant`, `RuneBidsCorrect` | `RuneBookInv`, `BidsSound` |
| | `OrderBookInvariant`, `BookCorrect`, `SalesKept` | `OrderBookInv`, `BookTellsTruth`, `SaleKept` |
| | `SettlementInvariant`, `SettlementCorrect` | `SettlementInv`, `SettlementRight` |
| | `PromoInvariant`, `GiftsCorrect` | `PromoInv`, `SlotsSound` |
| | `SaleInvariant`, `SaleCorrect` | `LaunchpadInv`, `SaleSound` |
| `MintProofs` | `EtchInvariant`, `JobCorrect` | `EtchInv`, `JobSound` |
| | `TipInvariant`, `TipCorrect` | `TipInv`, `TipSound` |
| | `KeysInvariant`, `KeysCorrect` | `KeysInv`, `KeysSound` |
| | `LineInvariant`, `LineCorrect` | `LineInv`, `LineSound` |
| | `TracerInvariant`, `TracerCorrect` | `TracerInv`, `TracedRight` |
| `InscriptionsProofs` | `IndexInvariant`, `IndexCorrect` | `IndexInv`, `IndexSound` |
| `GameProofs` | `StableInvariant`, `PairingsCorrect` | `StableInv`, `PairingsSound` |
| | `ArenaInvariant`, `CupCorrect` | `ArenaInv`, `CupSound` |
| | `NurseryInvariant`, `GrowthRight` | `NurseryInv`, `AbsenceCostsNothing` |
| | `DuelRight` | `RoundsAsCommitted` |
| | `FightInvariant`, `FightIsSound` | `FightInv`, `FightSound` |
| | `VivariumTyped`, `HungerSparesLast` | `VivariumTypeOK`, `HungerSpares` |

Each goes along an inductive invariant: Init gives it, each action keeps it, and it gives the property.
The properties are seldom inductive themselves; what has to be added is the reason they hold.

**MintPipeline.** `DiskTellsTruth` alone is not inductive: a driver writes its own copy, the
sweep and the reaper write copies they collected before their awaits. The invariant `IInv` says
of every copy in the process what `DiskTellsTruth` says of the files (`CopiesTrue`, `BatchesTrue`),
and that the reveal of a driver about to finish is on the chain. `LedgerSound` needs that each
release is aimed at the number of the job it was decided for (`EntriesOwn`, `AskedOwn`): the
ledger goes by number, so the proof has to carry that the pair (number, job) the reaper holds is
still the pair in the ledger, or that the number has been minted meanwhile (`StillOwn`).

**IndexService.** `RewindsOnItsOwnChain` is the hard one: snapshots are never dropped when the
chain they were made on is, so some are of other chains. The invariant `SnapshotsPlaced` relates
each snapshot to those pushed after it: a snapshot no longer than the ledger that is not a past of
it is followed by a younger one of the same height that is, and `Picked` takes the youngest. `FreshAnswer` needs the witness that each position of
the scan carries (`Witnessed`). The refinement then follows action by action: a block read is
`Read`, a rewind, rebuild or restart is `Rewind`, a step of the node is `Move`, the rest stutters.

**RuneState, RuneJournal.** Names, entitlements and terms each have an invariant together with the shape
of the registry. `SupplyKept` assumes `SmallSupplies`, that no supply etched reaches 2^53; the run
`rune_supply` shows it is needed. Under it `CountersExact` holds: the rounding addition the code
does is the exact one, because a sum that rounds is at least 2^53 and fails the comparison.
`UnitsConserved` and `ListsExact` assume it too; the first goes edict by edict: an edict splits what is
at hand between outputs and what is left (`Splits`) and makes no unit, and the default assignment takes the
rest. `ListsExact` keeps that each entry of a list took exactly what the rune minted on it
(`TakenExact`). `ImplementationsAgree` needs no such assumption: both implementations round alike, and
the journal's sums are the indexer's balances after each step (`AgreeInv`), the journal's registry being
built in the other order.

**OrderBook, RuneBook.** A sale is kept because whoever prunes looked at a trail of holders that only
grows: a prune under way is aimed at an outpoint once listed (`PrunesKnown`), a listed inscription was
seen by the index where it is listed (`ListedKnown`), and a read under way keeps the order of
bids it found (`ReadsKeep`). Of the rune book the invariant says that EVERY array of offers is
proper, the stored ones and those a reader still walks or writes back, and that the offers a
reader found alive were at different, earlier places of its array (`Walks`): that is why writing back a
stale array never files two offers of one buyer.

**Settlement.** `SettlementInv` is about coins that may be spent by the time they are used: the chain names a
coin once, and what it says of one does not change while the coin is unspent (`ChainSound`); what a
listing or a bid says of its carrier, of its price and of who signed holds as long as the carrier is
unspent (`ListingsRight`, `OffersRight`), and a listing's variants are no older than its carrier. That a swap is then
accepted unless a coin is spent, and that the price is what it costs, is arithmetic on sequences of coins: the
outputs are laid out so that what the padding brings in goes out before the carrier, whose inscribed
unit is then the first of its output, and the worth of a wallet's plain coins is a
sum that a transaction changes by what it takes and what it gives (`AddUp`, one term per coin).
`SettlementAssumption` says that prices, cuts and times are numbers, and that the house is no trader.

**Promo, Launchpad.** `PromoInv` accounts for each slot and each gift: slots are within the limit and the
caps (`SlotsWithinLimit`), a gift is of a job that has a slot (`GiftsHaveSlots`), the purse has paid as
many as there are gifts (`PurseCounts`), and a job's stage says which of the two it has (`JobsInOrder`). `LaunchpadInv` follows the
review tool through its writes: which files a folder may have at each point, of which submission, and
that a folder half written is one the tool is at or died over (`OneShelf`, `ToolRight`); and it
counts the reservations and mints of an address while nobody pays late (`Limited`).

**Inscriptions.** The chain and the index are two accounts of the same thing: the chain moves units from
inputs to outputs in order, the index computes by sums of sizes where an inscription's offset lands.
`ChainOK` says that a unit is in one unspent coin, once; `IndexOK` that an outpoint lists exactly the
inscriptions whose units its coin holds, at their places in it (`Matches`), in that order and once each
(`InRow`); `RecordsOK` that each record names that coin, its offset and its holder, or that the unit is
gone. That the two agree after a transaction is that cutting the concatenated inputs into outputs and
looking for the output whose running sum first exceeds the offset are the same thing, which needs the lemmas on
running sums. The ledger is kept capped block by block and is compared with the whole history:
`LedgerOK` says that at EVERY height at which a drop may yet be counted the stored count is the cap of
the history's (`Capped`). For the shares the reason is arithmetic: the floors leave less than one unit per
recipient, and handing one each to the largest remainders ends exactly at the supply (`ShareOut`); that
`FirstOf` the order takes as many as asked for is `FirstInOrder`. `InscriptionsAssumption` says what the
environment gives: limits and heights are numbers, addresses rank differently (strings compare), and
`NoAddress` is none of them.

**EtchJob, ParentTip.** As in the pipeline each copy of the file a handler holds is true (`HeldTrue`),
one poll drives unless two have clashed (`OneDrives`), and once the deposit is spent, with no answer lost
and no clash, nobody is about to split it again (`SplitOnce`). Of the tip, the reveals that the node has
form one chain, of which blocks hold a beginning (`Linked`); whoever is about to send holds the lock
(`OneHolds`); hence what it read is still the end, or the node refuses it.

**WalletKeys, Line.** `KeysInv` says who may be at which await: a worker that wakes into a session
unlocks before any handler begins (`WakesFirst`); one handler is between the secrets and the key
unless two crossed (`OneByOne`); after a lock nobody under way has the right passphrase or a
derivation to come back from, unless it was overtaken (`StaysLocked`). The history variables `crossed` and `overtaken` are
the exceptions listed in section 3. `LineInv`: an attempt has a socket opening or a greeting pending on
an open one, and callers wait for the attempt or for an id of their own.

**Tracer.** The walk goes back from an output through the inputs whose units it got; that this finds every
inscription and no other is about units. A unit is in one place of what nobody has spent yet
(`UnitsSeparate`, by induction along the ledger: a transaction puts out what came in, in order, and the outputs
do not overlap), so an inscription goes with its unit from an input to the one output that covers its place,
at the offset the code computes (`MarkMoves`), and a reveal's own is new (`OwnMark`). `TracerInv` then says of
every output a walk is in the middle of (`FrameRight`) that what has been found is there, and that all that
the inputs passed so far brought, and its own reveal, are found, so long as no branch was cut; of the stack, that each
output is the input the one below is at (`Chained`); and of every result in a walk's memo, in storage or
handed out that it is right (`Right`, `VerdictRight`). Since nothing kept is ever wrong, it does not matter which walk
kept it, or when. Stopping below the era is right because a unit of a transaction so old is older than every
reveal (`BelowTheEra`), if the height is not below its own: `misdated` is the exception, finding 5 of section 3.
`TracerAssumption` says what a chain is: a transaction spends what was made before it and is not spent, puts
out no more than came in, blocks go up, and nothing was revealed below the era.

**Stable, Arena, Nursery, Duel.** A request has had, at some moment while it ran, each parent it
has read and everything that is held now (`HadRead`): the moments differ, which is why
`HeldWhenBred` says no more. A birth's pairing is opened and gone, so it cannot be resolved again.
`ArenaInv`: a round has half the players of the one before, nobody is in two matches of it, all rounds
but the last are decided, who is in a round is not out before it, and who lost it is out as of it; an
order that comes late finds the round it names over. `NurseryInv`: the counters are the totals of the
ledger, days not settled are untouched, and settled ones have given at least what passing days give;
settling many days at once is settling them one by one. For the duel the invariant is that what is shown
begins the match padded out from the moves so far; a round depends only on its moves and on
earlier rounds (`Determined`), coins included, because a round draws after those before it;
and each reason for a verdict is the other side's when the sides are swapped (`VerdictMirrored`).

**Fight.** `BoutInv`: while a bout is on it is `Sound` and its clock counts the actions (`Counts`); once it
is over it moves no more, and what was said at the end stays true. The steps of a turn are taken one
by one (a hit, what answers it, a Rune, a flip, a burn, waking, upkeep, the action): each makes a sound bout
of a sound bout. What is hard is that a turn goes on after somebody went down: a riposte or a second attack may fell
again, so `Sound` is stated of bouts that are over too, and each fall must still satisfy its door
(`Door`) under the faces that are active THEN. A blow leaves all that decides which face is active (`Stage`), so
doors that held go on holding (`Follows`). What does change it are waking and a flip, while nobody is
down, and the Demon's seizure of the arena, after a burn: a seizure marks the bout, and the face of the one
that seizes was not suppressed before nor is it after. A fighter at 0 is felled or saved at once, never left standing,
and a form's damage is carried so that a reformed fighter has at least 1 (`Right`).
`FightAssumption` says that the tables hold counts and that nobody begins with no life.

**Vivarium.** A look happens to a world in as many events as are due, and each leaves it a world of its kind
(`AWorld`), of the minute it was kept at, with at least as many living Nubbins as there were, or two (`Peopled`). Six of
the seven kinds of event do not touch a Nubbin (`Around`); the seventh ends one only where three live
(`FeedSpares`), and one who ends is one less (`LivingLess`). What is due is never nothing and is of the world as
it is then (`DueOccurs`), so that the loop, whatever it picks, can go on; the sweep at the end takes the dead only (`AllLeft`).
`VivariumAssumption` says that worlds begin as worlds.

**DataInduction.** What the models sum and fold is defined by recursion over a finite set. The
library's induction theorems take an operator as a parameter, which no prover here can instantiate; the
lemmas of `DataInduction` go round that by induction on sets instead: the subsets of S, or the
numbers to n, for which a function with the wanted equations exists are all of them. A sum is then any function
that satisfies its equations (`Fixed`, `SumFixed`), and a fold its last step (`FoldExists`). With them
`Conserved`, `Entitled`, the bytes the launchpad counts, the totals of `Nursery`, the filing of bids and the
folds of a message's edicts, of days settled and of a duel's rounds are reasoned about for data of any
size.

Only model-checked: the liveness properties (`AbandonedArePickedUp`, `PaidMintsAreDriven`, `Converges`,
`PaidIsEtched`, `MCGoesOn`), since the prover has neither fairness nor ENABLED;
`TokensKept` and `TradesSettle`, not yet attempted.

## 5. Not modelled

For good: cryptography (signatures, merkle proofs, key derivation, message signing), the bytes of
transactions, envelopes and payloads, images and pages, and the routes that only read. `PROJECT.json`
gives each component's status and what is left out of it; beyond that:

- `MintPipeline`: the local guard module and the price of a quote; a promo job is modelled in `Promo`.
- `Inscriptions`: the `etchers` map, the digest of a checkpoint, the coinbase's fees.
- `EtchJob`, `ParentTip`: a file torn by a crash within a write (the pipeline models it for payment
  jobs), and the lock price of a ticker.
- `RuneBook`: `runes/bid.js` verifies what a signature covers; the model takes what is put as valid.
- `Arena`: sign-in and the queue of one-to-one challenges with its ratings. `Stable`: genetics, hunts,
  pools, seasons, orbs and ladders.
- `Vivarium`: the cistern, ids and the log, the seeded draws, dormancy's cap.
- `WalletCoins`: listing, whose signing goes by variants; two inscribed inputs in one transaction. `WalletKeys`: the first account, keyrings of older
  versions, reveal and export.
- Rune checkpoints: that no entry but a committed one proves is a property of the hash.
- Section 4 ends with what is checked and not proved.

## 6. What is left

In order of worth: the page that drives an etching (`web/etch.js`) over `EtchJob`; hunts, pools and
genetics; the challenge queue and its ratings; seasons and ladders; what `swap.js` and `runes/bid.js`
accept against what the wallet builds; the standalone indexer with its state file. To be proved next:
`TokensKept` and `TradesSettle`, which are about one transaction at a time.
