------------------------------ MODULE Launchpad ------------------------------
(***************************************************************************)
(* src/launchpad.js and its routes in src/server.js: collections submitted     *)
(* over HTTP, reviewed and approved by the operator with a command-line tool,  *)
(* then minted.  The server and the tool are two processes over one directory: *)
(* the server answers a request in one step, the tool writes file after file   *)
(* and may die between two.                                                    *)
(***************************************************************************)
EXTENDS Integers, Sequences, FiniteSets, FiniteSetsExt, Absent

CONSTANTS
  Creators, Minters,
  Slugs,
  Offers,          \* what a creator may ask for: [price, opens, closes, allowlist, perWallet]
  AlphaHolders,    \* minters that hold an Alpha
  MinItems, MaxItems, PerDay, OpenDrafts, MaxPending, DraftTTL,
  Budget,          \* of images under launchpad/, one unit each
  MaxSubmissions, MaxDays, MaxQuotes, MaxDeaths, MaxUsage

ASSUME LaunchpadAssumption ==
  /\ {MinItems, MaxItems, PerDay, OpenDrafts, MaxPending, DraftTTL, Budget, MaxSubmissions, MaxDays,
      MaxQuotes, MaxDeaths, MaxUsage} \subseteq Nat
  /\ \A o \in Offers : o.perWallet \in Nat

\* A draft.json, and the copy of one that an approve works on.
Draft == [status : {"draft", "pending", "approved", "rejected"}, by : Creators, offer : Offers,
          items : Seq(Nat), brand : 0 .. 1, made : Nat, finalized : Nat \cup {None}, wiped : BOOLEAN]
Approval == [id : Nat, slug : Slugs, d : Draft]
ASSUME NoApprovalIsNone == None \notin Approval

VARIABLES
  drafts,      \* submissions/<id>/draft.json: id -> record
  shelves,     \* collections/<slug>/: what the tool has written there
  live,        \* Launchpad.live of the server: slug -> what it loaded
  usage,       \* Launchpad._usage of the server, None while not counted
  tool,        \* the approve that is running: its copy of the draft and what it wrote, or None
  quotes,      \* payment jobs of launchpad mints: [slug, number, to, state]
  taken,       \* mintState.json of each collection: number -> [job, to, minted]
  today,
  deaths,
  sent         \* history: what each submission was when its creator finalized it

launchpadVars == <<drafts, shelves, live, usage, tool, quotes, taken, today, deaths, sent>>

Submissions == DOMAIN drafts
Of(status) == {i \in Submissions : drafts[i].status = status}
Images(d) == Len(d.items) + d.brand

LaunchpadTypeOK ==
  /\ Submissions \subseteq 1 .. MaxSubmissions
  /\ \A i \in Submissions : drafts[i] \in Draft /\ Len(drafts[i].items) <= MaxItems
  /\ DOMAIN shelves \subseteq Slugs /\ DOMAIN live \subseteq DOMAIN shelves
  /\ DOMAIN live \subseteq DOMAIN taken
  /\ usage = None \/ usage \in Nat
  /\ tool = None \/ tool.id \in 1 .. MaxSubmissions
  /\ Len(quotes) <= MaxQuotes
  /\ today \in 0 .. MaxDays /\ deaths \in 0 .. MaxDeaths

LaunchpadInit ==
  /\ drafts = <<>> /\ shelves = <<>> /\ live = <<>> /\ usage = None /\ tool = None
  /\ quotes = <<>> /\ taken = <<>> /\ today = 0 /\ deaths = 0 /\ sent = <<>>

-----------------------------------------------------------------------------
(* Submissions.                                                             *)

\* usageBytes: everything under launchpad/.
OnDisk(ds, ss) ==
  MapThenSumSet(LAMBDA i : IF ds[i].wiped THEN 0 ELSE Images(ds[i]), DOMAIN ds)
    + MapThenSumSet(LAMBDA s : ss[s].images, DOMAIN ss)
Counted == IF usage = None THEN OnDisk(drafts, shelves) ELSE usage

\* pruneDrafts and dropEmptyDraftsFor: drafts left too long, and the empty ones of who asks.
Abandoned == {i \in Of("draft") : today - drafts[i].made > DraftTTL}
Empty(c) == {i \in Of("draft") \ Abandoned : drafts[i].by = c /\ drafts[i].items = <<>>}
Without(ids) == [i \in Submissions \ ids |-> drafts[i]]

\* recentFor: finalized within a day, and not rejected.
RecentFor(c) ==
  {i \in Submissions : drafts[i].by = c /\ drafts[i].status # "rejected" /\ drafts[i].finalized = today}
OpenFor(c, ids) == {i \in ids : drafts[i].by = c /\ drafts[i].status = "draft"}

\* createDraft.  What was cleared stays cleared when the draft is then refused.
QueueFull == Cardinality(Of("pending")) >= MaxPending
RefusesDraft(c) ==
  \/ Cardinality(RecentFor(c)) >= PerDay
  \/ Cardinality(OpenFor(c, Submissions \ (Abandoned \cup Empty(c)))) >= OpenDrafts
CreateDraft(c, offer) ==
  LET gone == Abandoned \cup (IF QueueFull THEN {} ELSE Empty(c))
      unused == (1 .. MaxSubmissions) \ (DOMAIN sent \cup (Submissions \ gone))
      id == Min(unused) IN
    /\ unused # {}
    /\ drafts' =
         IF QueueFull \/ RefusesDraft(c) THEN Without(gone)
         ELSE [i \in (Submissions \ gone) \cup {id} |->
                 IF i # id THEN drafts[i]
                 ELSE [status |-> "draft", by |-> c, offer |-> offer, items |-> <<>>, brand |-> 0,
                       made |-> today, finalized |-> None, wiped |-> FALSE]]
    /\ usage' = IF gone = {} THEN usage ELSE None
    /\ UNCHANGED <<shelves, live, tool, quotes, taken, today, deaths, sent>>

\* addItem, for the items of one request in turn: the first refusal ends it, and what was added
\* before it stays.
Unfinished(i) == drafts[i].status = "draft"
RoomFor(i) == Min({MaxItems - Len(drafts[i].items), Max({Budget - Counted, 0})})
AddItems(i, pictures) ==
  LET added == Min({Len(pictures), RoomFor(i)}) IN
    /\ i \in Submissions /\ Unfinished(i) /\ added > 0
    /\ drafts' = [drafts EXCEPT ![i].items = @ \o SubSeq(pictures, 1, added)]
    /\ usage' = Counted + added
    /\ UNCHANGED <<shelves, live, tool, quotes, taken, today, deaths, sent>>

\* setBrandImage asks for no room.
SetBrandImage(i) ==
  /\ i \in Submissions /\ Unfinished(i)
  /\ drafts' = [drafts EXCEPT ![i].brand = 1]
  /\ Counted < MaxUsage /\ usage' = Counted + 1
  /\ UNCHANGED <<shelves, live, tool, quotes, taken, today, deaths, sent>>

Finalize(i) ==
  /\ i \in Submissions /\ drafts[i].status = "draft" /\ Len(drafts[i].items) >= MinItems
  /\ drafts' = [drafts EXCEPT ![i].status = "pending", ![i].finalized = today]
  /\ sent' = [k \in DOMAIN sent \cup {i} |-> IF k = i THEN drafts'[i] ELSE sent[k]]
  /\ UNCHANGED <<shelves, live, usage, tool, quotes, taken, today, deaths>>

-----------------------------------------------------------------------------
(* Curation, in another process.                                            *)

\* approve: its checks and the new directory, then one file after the other, the draft last.
ApproveBegins(i, slug) ==
  /\ tool = None /\ i \in Of("pending") /\ slug \notin DOMAIN shelves
  /\ Len(drafts[i].items) >= MinItems
  /\ tool' = [id |-> i, slug |-> slug, d |-> drafts[i]]
  /\ shelves' = [s \in DOMAIN shelves \cup {slug} |->
                   IF s = slug THEN [of |-> i, images |-> 0, files |-> {}, items |-> <<>>] ELSE shelves[s]]
  /\ UNCHANGED <<drafts, live, usage, quotes, taken, today, deaths, sent>>

Order == <<"manifest", "designs", "metadata">>
ApproveWrites ==
  LET shelf == shelves[tool.slug] IN
    /\ tool # None /\ Cardinality(shelf.files) < Len(Order)
    /\ shelves' = [shelves EXCEPT ![tool.slug] =
         IF shelf.images = 0 THEN [shelf EXCEPT !.images = Images(tool.d)]
         ELSE [shelf EXCEPT !.files = @ \cup {Order[Cardinality(@) + 1]},
                            !.items = IF Cardinality(shelf.files) = 2 THEN tool.d.items ELSE @]]
    /\ UNCHANGED <<drafts, live, usage, tool, quotes, taken, today, deaths, sent>>
ApproveEnds ==
  /\ tool # None /\ Cardinality(shelves[tool.slug].files) = Len(Order)
  /\ drafts' = [drafts EXCEPT ![tool.id] = [tool.d EXCEPT !.status = "approved"]]
  /\ tool' = None
  /\ UNCHANGED <<shelves, live, usage, quotes, taken, today, deaths, sent>>

\* reject drops the images.
Reject(i) ==
  /\ tool = None /\ i \in Of("pending")
  /\ drafts' = [drafts EXCEPT ![i].status = "rejected", ![i].wiped = TRUE]
  /\ UNCHANGED <<shelves, live, usage, tool, quotes, taken, today, deaths, sent>>

ToolDies ==
  /\ tool # None /\ deaths < MaxDeaths
  /\ tool' = None /\ deaths' = deaths + 1
  /\ UNCHANGED <<drafts, shelves, live, usage, quotes, taken, today, sent>>
ServerRestarts ==
  /\ deaths < MaxDeaths /\ deaths' = deaths + 1
  /\ live' = <<>> /\ usage' = None
  /\ UNCHANGED <<drafts, shelves, tool, quotes, taken, today, sent>>

-----------------------------------------------------------------------------
(* Live collections.                                                        *)

\* refresh: MintController.load wants all three files, of one size, and the images.
Whole(s) == shelves[s].files = {"manifest", "designs", "metadata"}
Manifest(s) == drafts[shelves[s].of]
Refresh ==
  LET now == {s \in DOMAIN shelves \ DOMAIN live : Whole(s)} IN
    /\ now # {}
    /\ live' = [s \in DOMAIN live \cup now |->
                  IF s \in now
                  THEN [of |-> shelves[s].of, offer |-> Manifest(s).offer, pays |-> Manifest(s).by,
                        items |-> shelves[s].items]
                  ELSE live[s]]
    /\ taken' = [s \in DOMAIN taken \cup now |-> IF s \in DOMAIN taken THEN taken[s] ELSE <<>>]
    /\ UNCHANGED <<drafts, shelves, usage, tool, quotes, today, deaths, sent>>

\* heldBy counts reservations as well as mints.
MintedOnly(s, to) == {n \in DOMAIN taken[s] : taken[s][n].to = to /\ taken[s][n].minted}
                                                        \* (mutant: reservations not counted)
HeldBy(s, to) == {n \in DOMAIN taken[s] : taken[s][n].to = to}
Gate(s, to) ==
  LET o == live[s].offer IN
    /\ today >= o.opens /\ today < o.closes
    /\ today < o.allowlist => to \in AlphaHolders
    /\ o.perWallet > 0 => Cardinality(HeldBy(s, to)) < o.perWallet

\* handleLaunchpadMint: the gate, then a number nobody has, then the job.
Unclaimed(s) == (1 .. Len(live[s].items)) \ DOMAIN taken[s]
Put(s, n, r) ==
  [taken EXCEPT ![s] = [k \in DOMAIN taken[s] \cup {n} |-> IF k = n THEN r ELSE taken[s][k]]]
Mint(s, to) ==
  /\ s \in DOMAIN live /\ Gate(s, to) /\ Unclaimed(s) # {} /\ Len(quotes) < MaxQuotes
  /\ LET n == Min(Unclaimed(s)) IN
       /\ quotes' = Append(quotes, [slug |-> s, number |-> n, to |-> to, state |-> "open"])
       /\ taken' = Put(s, n, [job |-> Len(quotes) + 1, to |-> to, minted |-> FALSE])
  /\ UNCHANGED <<drafts, shelves, live, usage, tool, today, deaths, sent>>

\* reapMintReservations: the number of an unpaid job goes back; its deposit stays watched.
ReapQuote(q) ==
  LET s == quotes[q].slug  n == quotes[q].number IN
    /\ s \in DOMAIN live /\ quotes[q].state = "open" /\ n \in DOMAIN taken[s] /\ taken[s][n].job = q
    /\ quotes' = [quotes EXCEPT ![q].state = "released"]
    /\ taken' = [taken EXCEPT ![s] = [k \in DOMAIN @ \ {n} |-> @[k]]]
    /\ UNCHANGED <<drafts, shelves, live, usage, tool, today, deaths, sent>>

\* Paid and driven to its end: confirmMinted.
Deliver(q) ==
  /\ quotes[q].state \in {"open", "released"}
  /\ quotes' = [quotes EXCEPT ![q].state =
                  IF quotes[q].state = "open" THEN "minted" ELSE "minted late"]
  /\ taken' = Put(quotes[q].slug, quotes[q].number,
                  [job |-> q, to |-> quotes[q].to, minted |-> TRUE])
  /\ UNCHANGED <<drafts, shelves, live, usage, tool, today, deaths, sent>>

DayPasses ==
  /\ today < MaxDays /\ today' = today + 1
  /\ UNCHANGED <<drafts, shelves, live, usage, tool, quotes, taken, deaths, sent>>

-----------------------------------------------------------------------------
Curation ==
  \/ \E c \in Creators, o \in Offers : CreateDraft(c, o)
  \/ \E i \in Submissions, n \in 1 .. 2 : AddItems(i, [k \in 1 .. n |-> Len(drafts[i].items) + k])
  \/ \E i \in Submissions : SetBrandImage(i) \/ Finalize(i) \/ Reject(i)
  \/ \E i \in Submissions, s \in Slugs : ApproveBegins(i, s)
  \/ ApproveWrites \/ ApproveEnds \/ ToolDies \/ ServerRestarts
SaleNext ==
  \/ \E s \in DOMAIN live, to \in Minters : Mint(s, to)
  \/ \E q \in DOMAIN quotes : ReapQuote(q) \/ Deliver(q)
LaunchpadNext == Curation \/ SaleNext \/ Refresh \/ DayPasses
LaunchpadSpec == LaunchpadInit /\ [][LaunchpadNext]_launchpadVars

-----------------------------------------------------------------------------
(* Properties.                                                              *)

\* What is sold is what its creator finalized and the operator reviewed: items, price and schedule,
\* all of them, paying the address that signed ("a number that could be edited after approval would
\* be a number the operator did not approve", launchpad.js:322), and one submission is sold under
\* one name, unless the tool died over it.
LiveAsFinalized ==
  /\ \A s \in DOMAIN live :
       LET d == sent[live[s].of] IN
         live[s].items = d.items /\ live[s].offer = d.offer /\ live[s].pays = d.by
  /\ deaths = 0 => \A s, t \in DOMAIN live : live[s].of = live[t].of => s = t

\* A cap counted at confirmation "is a cap somebody walks past by opening fifty quotes at once"
\* (mint.js:204): reservations and mints of an address together stay within it, whatever is reaped
\* or delivered in between, as long as nobody pays for a reservation that was taken back.
WalletLimitKept ==
  \A s \in DOMAIN live, to \in Minters :
    (live[s].offer.perWallet > 0 /\ \A q \in DOMAIN quotes : quotes[q].state # "minted late")
      => Cardinality(HeldBy(s, to)) <= live[s].offer.perWallet

\* A collection sells what was agreed, to nobody more than was agreed.
SaleSound == LaunchpadTypeOK /\ LiveAsFinalized /\ WalletLimitKept

-----------------------------------------------------------------------------
(* What comments say, and the code does not do.                             *)

\* "one address may mint ... from this collection" (launchpad.js:653).
WalletLimit ==
  \A s \in DOMAIN live, to \in Minters :
    live[s].offer.perWallet > 0 => Cardinality(HeldBy(s, to)) <= live[s].offer.perWallet

\* "What one address may do in a day.  ... It counts FINALIZED submissions" (launchpad.js:67-71).
DailyAllowance == \A c \in Creators : Cardinality(RecentFor(c)) <= PerDay

\* "a hard ceiling for everything under launchpad/ so uploads can never eat the server's disk"
\* (launchpad.js:211-212).
HardCeiling == OnDisk(drafts, shelves) <= Budget
=============================================================================
