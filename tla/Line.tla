-------------------------------- MODULE Line --------------------------------
(***************************************************************************)
(* extension/lib/electrum.js: the browser wallet's connection to one of a few  *)
(* public servers.  Several parts of the wallet call at a time; the connection *)
(* is made when somebody calls, to the first server that answers; a socket     *)
(* that is closed says so later, when another may be in use.                   *)
(*                                                                         *)
(* One step is one event of the browser with everything its handlers and the   *)
(* promises they settle do before the next event.                              *)
(***************************************************************************)
EXTENDS Integers, Sequences, FiniteSets, Functions, Absent

CONSTANTS
  Servers,       \* how many servers there are, in the order they are tried
  Callers,
  MaxCalled      \* calls in a behaviour

ASSUME LineAssumption == Servers \in Nat \ {0} /\ MaxCalled \in Nat /\ IsFiniteSet(Callers)

\* connecting: the server that is tried, on which socket, and the id of the greeting; failed is history:
\* the servers that failed of themselves in this attempt.
Attempt == [server : 1 .. Servers, socket : Nat, greeting : Nat \cup {None}, failed : SUBSET (1 .. Servers)]
Socket == [state : {"connecting", "open", "closing", "closed"}, asked : SUBSET Nat]
ASSUME NoAttemptIsNone == None \notin Nat /\ None \notin Attempt

VARIABLES
  line,          \* the client, and its sockets
  calling        \* where the call of each caller is, and its id once it is sent

lineVars == <<line, calling>>

Client == [ws : Nat \cup {None}, pending : SUBSET Nat, lastId : Nat, called : 0 .. MaxCalled,
           connecting : {None} \cup Attempt, sockets : Seq(Socket), gaveUpOn : SUBSET (1 .. Servers)]
LineTypeOK ==
  /\ line \in Client
  /\ calling \in [Callers -> [at : {"idle", "connecting", "sent", "answered", "failed"}, id : Nat]]

Connected == line.ws # None /\ line.sockets[line.ws].state = "open"
\* A socket that is no longer open brings no answer.
Becomes(k, state) ==
  [line EXCEPT !.sockets[k] = [state |-> state, asked |-> IF state = "open" THEN @.asked ELSE {}]]
Settles(l, c) == line' = l /\ calling' = c

\* _rpc: n new ids, sent on the socket there is.
SentNow(l, n) ==
  LET ids == l.lastId + 1 .. l.lastId + n
  IN [l EXCEPT !.lastId = @ + n, !.pending = @ \cup ids, !.sockets[l.ws].asked = @ \cup ids]

\* _open: a socket to the n-th server.
Tried(l, n, failed) ==
  [l EXCEPT !.sockets = Append(@, [state |-> "connecting", asked |-> {}]),
            !.connecting = [server |-> n, socket |-> Len(l.sockets) + 1, greeting |-> None, failed |-> failed]]

\* close: it will say so later.
Dropped(l) ==
  IF l.ws = None THEN l
  ELSE [l EXCEPT !.ws = None, !.sockets[l.ws] = IF @.state = "open" THEN [state |-> "closing", asked |-> {}] ELSE @]

Comes(who, how) == [x \in Callers |-> IF x \in who THEN [at |-> how, id |-> 0] ELSE calling[x]]
Who(ids) == {x \in Callers : calling[x].at = "sent" /\ calling[x].id \in ids}
Waiting == {x \in Callers : calling[x].at = "connecting"}

\* _connectAny, when a server has failed (of itself, or not): the next one, or nobody is reachable.
NextServer(l, rejected, itself) ==
  LET n == l.connecting.server
      failed == l.connecting.failed \cup IF itself THEN {n} ELSE {}
  IN IF n < Servers THEN Settles(Tried(Dropped(l), n + 1, failed), Comes(rejected, "failed"))
     ELSE Settles([Dropped(l) EXCEPT !.connecting = None, !.gaveUpOn = (1 .. Servers) \ failed],
               Comes(rejected \cup Waiting, "failed"))
Greeting == IF line.connecting = None THEN None ELSE line.connecting.greeting

\* Pending requests are told that they failed; if the greeting is among them its server has.
Fail(l, ids, itself) ==
  IF Greeting # None /\ Greeting \in ids THEN NextServer(l, Who(ids), itself)
  ELSE Settles(l, Comes(Who(ids), "failed"))

-----------------------------------------------------------------------------
(* _rpc, connect.                                                           *)

Call(c) ==
  /\ calling[c].at \in {"idle", "answered", "failed"}
  /\ line.called < MaxCalled
  /\ LET l == [line EXCEPT !.called = @ + 1] IN
       \/ Connected /\ Settles(SentNow(l, 1), [calling EXCEPT ![c] = [at |-> "sent", id |-> line.lastId + 1]])
       \/ ~Connected /\ Settles(IF line.connecting = None THEN Tried(l, 1, {}) ELSE l,
                             [calling EXCEPT ![c] = [at |-> "connecting", id |-> 0]])

\* onopen, and the greeting.
Opens ==
  /\ line.connecting # None /\ line.sockets[line.connecting.socket].state = "connecting"
  /\ LET k == line.connecting.socket
     IN Settles([SentNow([Becomes(k, "open") EXCEPT !.ws = k], 1) EXCEPT !.connecting.greeting = line.lastId + 1], calling)

\* onerror, or no event within the time.
CannotOpen ==
  /\ line.connecting # None /\ line.sockets[line.connecting.socket].state = "connecting"
  /\ NextServer(Becomes(line.connecting.socket, "closed"), {}, TRUE)

\* onmessage: a result, or an error.  When it is the greeting's, whoever waited for the connection sends.
OnMessage(k, id, good) ==
  /\ line.sockets[k].state = "open" /\ id \in line.sockets[k].asked
  /\ LET l == [line EXCEPT !.sockets[k].asked = @ \ {id}, !.pending = @ \ {id}]
         place == CHOOSE f \in [Waiting -> 1 .. Cardinality(Waiting)] : IsInjective(f)
     IN \/ id \notin line.pending /\ Settles(l, calling)
        \/ id \in line.pending /\ ~good /\ Fail(l, {id}, TRUE)
        \/ /\ id \in line.pending /\ good /\ id = Greeting
           /\ Settles(SentNow([l EXCEPT !.connecting = None], Cardinality(Waiting)),
                   [x \in Callers |-> IF x \in Waiting THEN [at |-> "sent", id |-> line.lastId + place[x]]
                                      ELSE calling[x]])
        \/ /\ id \in line.pending /\ good /\ id # Greeting
           /\ Settles(l, Comes(Who({id}), "answered"))

\* The timer of a request.
TimesOut(id) ==
  /\ id \in line.pending
  /\ Fail([line EXCEPT !.pending = @ \ {id}], {id}, TRUE)

\* Mutant of Told: the requests that waited are forgotten.
ToldNobody(l, ids, itself) == Settles(l, calling)
Told(l, ids, itself) == Fail(l, ids, itself)
\* onclose of whichever socket: the server's doing, or the end of a close.
Closes(k) ==
  /\ line.sockets[k].state \in {"open", "closing"}
  /\ Told([Becomes(k, "closed") EXCEPT !.pending = {}, !.ws = None], line.pending,
          line.connecting # None /\ line.connecting.socket = k)

LineInit ==
  /\ line = [ws |-> None, pending |-> {}, lastId |-> 0, called |-> 0, connecting |-> None, sockets |-> <<>>,
             gaveUpOn |-> {}]
  /\ calling = [c \in Callers |-> [at |-> "idle", id |-> 0]]
LineNext ==
  \/ \E c \in Callers : Call(c)
  \/ Opens \/ CannotOpen
  \/ \E id \in line.pending : TimesOut(id)
  \/ \E k \in DOMAIN line.sockets : Closes(k) \/ \E id \in line.sockets[k].asked, good \in BOOLEAN : OnMessage(k, id, good)
LineSpec == LineInit /\ [][LineNext]_lineVars

-----------------------------------------------------------------------------
(* Properties.                                                              *)

\* Who waits for an answer has a timer running, nobody else has the same id, and who waits for a connection has
\* one being made, on a socket that either opens or times out: whatever servers do, and whenever sockets say that
\* they closed, no call is left that nothing will settle (electrum.js:102-117).
SomebodyIsWaitedFor ==
  /\ \A c \in Callers :
       /\ calling[c].at = "sent" => calling[c].id \in line.pending
       /\ calling[c].at = "connecting" => line.connecting # None
       /\ \A d \in Callers \ {c} : calling[c].at = "sent" => calling[d] # calling[c]
  /\ line.connecting # None =>
       \/ line.sockets[line.connecting.socket].state = "connecting"
       \/ Greeting \in line.pending

LineSound == LineTypeOK /\ SomebodyIsWaitedFor

-----------------------------------------------------------------------------
(* What comments say, and the code does not do.                             *)

\* "listing both means one going down no longer takes the wallet offline" (electrum.js:16-17): nobody is said to be
\* unreachable who did not fail.  The first server's socket, closed when its greeting timed out, says so later,
\* and what is then pending is the second server's greeting.
FailsOver == line.gaveUpOn = {}

\* "Idempotent while a socket is open/connecting" (electrum.js:46): there is one open socket, the one in use.
OneSocket == \A k \in DOMAIN line.sockets : line.sockets[k].state = "open" => k = line.ws
=============================================================================
