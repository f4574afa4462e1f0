------------------------------- MODULE Tracer -------------------------------
(***************************************************************************)
(* extension/lib/inscriptions.js: the browser wallet decides by itself whether *)
(* a coin carries an inscription, by walking back through the transactions     *)
(* the coin's own units came through.  What it fetched, and what it found, is  *)
(* kept for ever; a call may fail, the worker may be restarted.  A walk waits  *)
(* at each call, and others go on: one step is what runs between two waits.    *)
(*                                                                             *)
(* A transaction is its inputs, the values of its outputs, whether it reveals,  *)
(* and the block it is mined in: unconfirmed below it.  One without inputs is a *)
(* coinbase.  A ledger lists them in the order of the chain.                   *)
(***************************************************************************)
EXTENDS Integers, Sequences, FiniteSets, Absent, Totals

CONSTANTS
  Era,              \* eraHeight: no inscription was revealed below it
  MaxNodes,         \* maxNodes: outputs visited before giving up
  Ledgers,
  Walkers,          \* who may ask about a coin
  MaxTop, MaxTraces

VARIABLES
  ledger, top,      \* the chain, and its height
  tracer,           \* memory (heights, tip) and storage (kept, outputs, verdicts)
  walk,             \* by who asked
  said,             \* history: the last answer
  traces,           \* history: how many were asked for
  misdated          \* history: a transaction was given a height below the era, and has another

tracerVars == <<ledger, top, tracer, walk, said, traces, misdated>>

-----------------------------------------------------------------------------
(* Of a ledger l: its outputs, and where each is among all that its transaction  *)
(* puts out; what goes in.                                                       *)

CoinsMade(l) == UNION {{t} \X DOMAIN l[t].outs : t \in DOMAIN l}
OutValue(l, o) == l[o[1]].outs[o[2]]
OutStart(l, o) == AddUp(SubSeq(l[o[1]].outs, 1, o[2] - 1))
OutEnd(l, o) == OutStart(l, o) + OutValue(l, o)
InValues(l, t) == [k \in DOMAIN l[t].ins |-> OutValue(l, l[t].ins[k])]
Before(l, t, k) == AddUp(SubSeq(InValues(l, t), 1, k - 1))

\* Nothing is revealed before the era, blocks go up, a transaction spends what was made before it,
\* all that it puts out came in, and nothing is spent twice.
LedgerOK(l) ==
  /\ l \in Seq([ins : Seq(Nat \X Nat), outs : Seq(Nat), reveals : BOOLEAN, height : Nat])
  /\ \A t \in DOMAIN l :
       /\ l[t].reveals => l[t].height >= Era
       /\ \A s \in 1 .. t : l[s].height <= l[t].height
       /\ \A k \in DOMAIN l[t].ins : l[t].ins[k] \in CoinsMade(l) /\ l[t].ins[k][1] < t
       /\ l[t].ins # <<>> => AddUp(l[t].outs) <= AddUp(InValues(l, t))
  /\ \A t, s \in DOMAIN l : \A k \in DOMAIN l[t].ins, m \in DOMAIN l[s].ins :
       l[t].ins[k] = l[s].ins[m] => t = s /\ k = m

ASSUME TracerAssumption ==
  /\ Era \in Nat /\ MaxNodes \in Nat
  /\ \A l \in Ledgers : LedgerOK(l)

-----------------------------------------------------------------------------
(* A walk: the outputs it is in the middle of, the one asked about first; a     *)
(* transaction it is waiting for.                                               *)

Noted(f, x, v) == [y \in DOMAIN f \cup {x} |-> IF y = x THEN v ELSE f[y]]

Door(o) == [coin |-> o, stage |-> "door", next |-> 1, passed |-> 0, found |-> {}, complete |-> TRUE]
Walk(o) == [budget |-> MaxNodes, memo |-> <<>>, stack |-> <<Door(o)>>, awaits |-> None]
Frame(w) == walk[w].stack[Len(walk[w].stack)]
Onto(q, f) == [q EXCEPT !.stack[Len(q.stack)] = f]
Input(f) == ledger[f.coin[1]].ins[f.next]

Bare(complete) == [inscriptions |-> {}, complete |-> complete]
\* Mutant of Cut: what was found before a branch was cut is all there is.
TakenAsAll(found) == [inscriptions |-> found, complete |-> TRUE]
\* A branch was cut, a call having failed: what was found may not be all.
Cut(found) == [inscriptions |-> found, complete |-> FALSE]

\* The units of f's input that go to its output, by where they are in the transaction.
Overlap(f) ==
  (f.passed .. f.passed + OutValue(ledger, Input(f)) - 1) \cap (OutStart(ledger, f.coin) .. OutEnd(ledger, f.coin) - 1)
Inherited(f, found) ==
  {[m EXCEPT !.offset = @ + f.passed - OutStart(ledger, f.coin)] :
     m \in {m \in found : m.offset + f.passed \in Overlap(f)}}
Past(f) == [f EXCEPT !.next = @ + 1, !.passed = @ + OutValue(ledger, Input(f))]
Joined(f, r) == [Past(f) EXCEPT !.found = @ \cup Inherited(f, r.inscriptions), !.complete = @ /\ r.complete]

ResultOf(r) ==
  IF r.inscriptions # {} THEN [status |-> "inscribed", all |-> r.inscriptions]
  ELSE [status |-> IF r.complete THEN "clean" ELSE "unknown", all |-> {}]

\* _detectOutput returns r, to the loop that called it or to detect; c is the tracer by then.
Return(w, q, r, c) ==
  LET n == Len(q.stack) - 1
      o == q.stack[1].coin
  IN IF n > 0
     THEN /\ walk' = [walk EXCEPT ![w] =
                        [q EXCEPT !.stack = [k \in 1 .. n |-> IF k = n THEN Joined(q.stack[n], r) ELSE q.stack[k]]]]
          /\ tracer' = c /\ UNCHANGED said
     ELSE /\ walk' = [walk EXCEPT ![w] = None]
          /\ said' = [coin |-> o, verdict |-> ResultOf(r)]
          /\ tracer' = IF ResultOf(r).status = "unknown" THEN c
                       ELSE [c EXCEPT !.verdicts = Noted(@, o, ResultOf(r))]
\* The end of _detectOutput: only complete results are stored.
Close(w, r) ==
  LET o == Frame(w).coin IN
    Return(w, [walk[w] EXCEPT !.awaits = None, !.memo = Noted(@, o, r)], r,
           IF r.complete THEN [tracer EXCEPT !.outputs = Noted(@, o, r)] ELSE tracer)

-----------------------------------------------------------------------------
(* The steps.                                                                   *)

At(w, stage) == walk[w] # None /\ walk[w].awaits = None /\ Frame(w).stage = stage
More(f) == f.next \in DOMAIN ledger[f.coin[1]].ins /\ f.passed < OutEnd(ledger, f.coin)
\* The transaction that _getTx is called for.
Needs(w, t) ==
  \/ At(w, "reading") /\ t = Frame(w).coin[1]
  \/ At(w, "inputs") /\ More(Frame(w)) /\ t = Input(Frame(w))[1]

\* detect, of which annotate is one for each coin.
Detect(w, o) ==
  /\ walk[w] = None /\ traces < MaxTraces /\ traces' = traces + 1
  /\ IF o \in DOMAIN tracer.verdicts
     THEN said' = [coin |-> o, verdict |-> tracer.verdicts[o]] /\ UNCHANGED walk
     ELSE walk' = [walk EXCEPT ![w] = Walk(o)] /\ UNCHANGED said
  /\ UNCHANGED <<ledger, top, tracer, misdated>>

\* _detectOutput, to its call of _getTx.
Enter(w) ==
  /\ At(w, "door")
  /\ LET o == Frame(w).coin
         q == walk[w]
         counted == [q EXCEPT !.budget = @ - 1]
     IN CASE o \in DOMAIN q.memo -> Return(w, q, q.memo[o], tracer)
          [] o \notin DOMAIN q.memo /\ o \in DOMAIN tracer.outputs ->
               Return(w, [q EXCEPT !.memo = Noted(@, o, tracer.outputs[o])], tracer.outputs[o], tracer)
          [] OTHER ->
               IF q.budget <= 0 THEN Return(w, counted, Bare(FALSE), tracer)
               ELSE /\ walk' = [walk EXCEPT ![w] = Onto(counted, [Frame(w) EXCEPT !.stage = "reading"])]
                    /\ UNCHANGED <<tracer, said>>
  /\ UNCHANGED <<ledger, top, traces, misdated>>

\* _getTx, from the storage.
Recall(w) ==
  /\ \E t \in DOMAIN tracer.kept \ DOMAIN tracer.heights :
       Needs(w, t) /\ tracer' = [tracer EXCEPT !.heights = Noted(@, t, tracer.kept[t])]
  /\ UNCHANGED <<ledger, top, walk, said, traces, misdated>>
\* Otherwise the network is asked, which answers or fails when it likes.
GetTransaction(w) ==
  /\ \E t \in DOMAIN ledger :
       /\ Needs(w, t) /\ t \notin DOMAIN tracer.heights \cup DOMAIN tracer.kept
       /\ walk' = [walk EXCEPT ![w].awaits = [tx |-> t, confirmations |-> None]]
  /\ UNCHANGED <<ledger, top, tracer, said, traces, misdated>>
InFlight(w) == walk[w] # None /\ walk[w].awaits # None /\ walk[w].awaits.confirmations = None
GetFails(w) ==
  /\ InFlight(w)
  /\ IF Frame(w).stage = "reading" THEN Return(w, [walk[w] EXCEPT !.awaits = None], Bare(FALSE), tracer)
                                   ELSE Close(w, Cut(Frame(w).found))
  /\ UNCHANGED <<ledger, top, traces, misdated>>
Confirmations(t) == IF top < ledger[t].height THEN 0 ELSE top - ledger[t].height + 1
\* t is given the height that a tip and its confirmations make, over what another walk gave it meanwhile.
Dated(t, confirmations, tip) ==
  LET height == tip - confirmations + 1 IN
    /\ tracer' = [tracer EXCEPT !.tip = tip, !.heights = Noted(@, t, height), !.kept = Noted(@, t, height)]
    /\ misdated' = (misdated \/ (height < Era /\ ledger[t].height >= Era))
\* A height that is None is Infinity.  The tip is asked for if no walk of the session knows it yet.
Got(w) ==
  /\ InFlight(w)
  /\ LET t == walk[w].awaits.tx
         confirmations == Confirmations(t)
     IN \/ /\ confirmations = 0
           /\ tracer' = [tracer EXCEPT !.heights = Noted(@, t, None)]
           /\ walk' = [walk EXCEPT ![w].awaits = None] /\ UNCHANGED misdated
        \/ /\ confirmations > 0 /\ tracer.tip # None
           /\ Dated(t, confirmations, tracer.tip)
           /\ walk' = [walk EXCEPT ![w].awaits = None]
        \/ /\ confirmations > 0 /\ tracer.tip = None
           /\ walk' = [walk EXCEPT ![w].awaits = [tx |-> t, confirmations |-> confirmations]]
           /\ UNCHANGED <<tracer, misdated>>
  /\ UNCHANGED <<ledger, top, said, traces>>
\* _getTip comes back: a call that fails leaves 0.
GotTip(w) ==
  /\ walk[w] # None /\ walk[w].awaits # None /\ walk[w].awaits.confirmations # None
  /\ \E tip \in {0, top} : Dated(walk[w].awaits.tx, walk[w].awaits.confirmations, tip)
  /\ walk' = [walk EXCEPT ![w].awaits = None]
  /\ UNCHANGED <<ledger, top, said, traces>>

\* The transaction is there: older than the era, or its reveal and its inputs.
Read(w) ==
  /\ At(w, "reading") /\ Frame(w).coin[1] \in DOMAIN tracer.heights
  /\ LET o == Frame(w).coin
         own == IF ledger[o[1]].reveals /\ OutStart(ledger, o) = 0 THEN {[id |-> o[1], offset |-> 0]} ELSE {}
     IN IF tracer.heights[o[1]] # None /\ tracer.heights[o[1]] < Era
        THEN Return(w, walk[w], Bare(TRUE), tracer)
        ELSE /\ walk' = [walk EXCEPT ![w] = Onto(@, [Frame(w) EXCEPT !.stage = "inputs", !.found = own])]
             /\ UNCHANGED <<tracer, said>>
  /\ UNCHANGED <<ledger, top, traces, misdated>>
\* The next input, of which all or nothing goes elsewhere.
Descend(w) ==
  /\ At(w, "inputs") /\ More(Frame(w)) /\ Input(Frame(w))[1] \in DOMAIN tracer.heights
  /\ LET q == walk[w]
         f == Frame(w)
     IN walk' = [walk EXCEPT ![w] = IF Overlap(f) = {} THEN Onto(q, Past(f))
                                    ELSE [q EXCEPT !.stack = Append(q.stack, Door(Input(f)))]]
  /\ UNCHANGED <<ledger, top, tracer, said, traces, misdated>>
Finish(w) ==
  /\ At(w, "inputs") /\ ~More(Frame(w))
  /\ Close(w, [inscriptions |-> Frame(w).found, complete |-> Frame(w).complete])
  /\ UNCHANGED <<ledger, top, traces, misdated>>

\* The worker ends, and begins again: the storage is what is left.
WorkerEnds ==
  /\ tracer.heights # <<>> \/ \E w \in Walkers : walk[w] # None
  /\ tracer' = [tracer EXCEPT !.heights = <<>>, !.tip = None]
  /\ walk' = [w \in Walkers |-> None]
  /\ UNCHANGED <<ledger, top, said, traces, misdated>>

\* A block.
Mined ==
  /\ top < MaxTop
  /\ top' = top + 1
  /\ UNCHANGED <<ledger, tracer, walk, said, traces, misdated>>

TracerInit ==
  /\ ledger \in Ledgers /\ top = Era
  /\ tracer = [heights |-> <<>>, tip |-> None, kept |-> <<>>, outputs |-> <<>>, verdicts |-> <<>>]
  /\ walk = [w \in Walkers |-> None]
  /\ said = None /\ traces = 0 /\ misdated = FALSE
TracerNext ==
  \/ \E w \in Walkers :
       \/ \E o \in CoinsMade(ledger) : OutValue(ledger, o) > 0 /\ Detect(w, o)
       \/ Enter(w) \/ Recall(w) \/ GetTransaction(w) \/ GetFails(w) \/ Got(w) \/ GotTip(w)
       \/ Read(w) \/ Descend(w) \/ Finish(w)
  \/ Mined \/ WorkerEnds
TracerSpec == TracerInit /\ [][TracerNext]_tracerVars

-----------------------------------------------------------------------------
(* Properties.                                                              *)

\* What is really there.  The unit at place g of what goes into t, as the place where it was minted: it is
\* what it was in the output that the input spends, first in first out.
Within(l, t, g) == {k \in DOMAIN l[t].ins : Before(l, t, k) <= g /\ g < Before(l, t, k + 1)}
UnitsOf(l) ==
  LET unit[t \in DOMAIN l] ==
        [g \in Nat |->
           IF Within(l, t, g) = {} THEN <<t, g>>
           ELSE LET k == CHOOSE k \in Within(l, t, g) : TRUE
                    o == l[t].ins[k]
                IN unit[o[1]][OutStart(l, o) + (g - Before(l, t, k))]]
  IN unit
\* An inscription is on the first unit of its reveal.
Really(l, o) ==
  {m \in [id : {t \in 1 .. o[1] : l[t].reveals}, offset : 0 .. OutValue(l, o) - 1] :
     UnitsOf(l)[m.id][0] = UnitsOf(l)[o[1]][OutStart(l, o) + m.offset]}

\* What is said of a coin is so.
SaidRight(a) ==
  /\ a.verdict.all \subseteq Really(ledger, a.coin)
  /\ a.verdict.status = "clean" => Really(ledger, a.coin) = {}

\* Whatever was fetched before, kept, lost on the way or cut short, by whomever, a coin called clean carries
\* nothing and what a coin is said to carry is there, at its offset, so long as no transaction was given a
\* height below the era that it does not have (inscriptions.js:252-345).
TracedRight == ~misdated /\ said # None => SaidRight(said)

-----------------------------------------------------------------------------
(* What a comment says, and the code does not do.                           *)

\* "'unknown' -> could not decide within the node budget / on a fetch error (fail-safe: never spent ...)"
\* (inscriptions.js:249-250): an answer that is wrong is none.
FailsSafe == said # None /\ said.verdict.status = "clean" => Really(ledger, said.coin) = {}
=============================================================================
