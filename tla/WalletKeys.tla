------------------------------ MODULE WalletKeys ------------------------------
(***************************************************************************)
(* extension/background.js and the keyring of extension/lib/wallet.js: when the *)
(* browser wallet holds a key, and which.  The worker's memory goes whenever   *)
(* the browser suspends it; the passphrase is kept for the session, and the    *)
(* worker unlocks itself from it.  Each message is a handler of its own; they  *)
(* take turns wherever one waits for storage or for a key to be derived.       *)
(***************************************************************************)
EXTENDS Naturals, FiniteSets, Absent

CONSTANTS
  Accounts,
  Sites,
  Handlers,              \* messages at a time
  MaxMessages, MaxSuspends

ASSUME KeysAssumption ==
  {MaxMessages, MaxSuspends} \subseteq Nat /\ "wake" \notin Handlers /\ None \notin Accounts

VARIABLES
  vault,                 \* storage.local: the keyring
  keyring,               \* memory: the keyring, once it is loaded
  secrets, pass,         \* memory: accounts whose phrase is decrypted; _pass
  priv,                  \* memory: the account _priv and _address are of
  session,               \* storage.session: the passphrase
  origins,               \* storage.session: connectedOrigins
  pending,               \* memory: requests of sites that wait for the owner
  jobs,                  \* memory: what each handler waits with; "wake" is rehydrating
  locked,                \* history: the owner locked, and gave no passphrase since
  overtaken,             \* history: a handler was after a key as the owner locked
  crossed,               \* history: two handlers were after keys at a time
  messages, suspends

keysHistory == <<locked, overtaken, crossed>>
keysVars == <<vault, keyring, secrets, pass, priv, session, origins, pending, jobs,
              keysHistory, messages, suspends>>

Nothing == [at |-> "nothing"]
Ring == {r \in [accounts : SUBSET Accounts, active : Accounts] : r.active \in r.accounts}
Everyone == Handlers \cup {"wake"}
ASSUME NoRingIsNone == None \notin Ring

KeysTypeOK ==
  /\ vault \in Ring /\ keyring \in Ring \cup {None}
  /\ secrets \subseteq Accounts /\ priv \in Accounts \cup {None}
  /\ {pass, session, locked, overtaken, crossed} \subseteq BOOLEAN
  /\ origins \subseteq Sites /\ pending \subseteq Handlers
  /\ DOMAIN jobs = Everyone

KeysInit ==
  /\ vault \in Ring /\ Cardinality(vault.accounts) = 1
  /\ keyring = None /\ secrets = {} /\ pass = FALSE /\ priv = None
  /\ session \in BOOLEAN /\ origins = {} /\ pending = {}
  /\ jobs = [j \in Everyone |-> Nothing]
  /\ locked = FALSE /\ overtaken = FALSE /\ crossed = FALSE
  /\ messages = 0 /\ suspends = 0

AfterKey == {"secrets", "activate", "derive"}
Adds == {"push"}
Others(j) == {o \in Everyone \ {j} : jobs[o].at \in AfterKey}
Goes(j, job) == jobs' = [jobs EXCEPT ![j] = job]
Ends(j) == Goes(j, Nothing)

-----------------------------------------------------------------------------
(* Wallet.unlock, _activate, lock.                                          *)

\* The phrases are forgotten and decrypted anew.
UnlockRing(j, job) ==
  /\ keyring' = IF keyring = None THEN vault ELSE keyring
  /\ secrets' = {} /\ Goes(j, job)
  /\ crossed' = (crossed \/ Others(j) # {})
  /\ UNCHANGED <<vault, pass, priv>>

\* They are there, or the passphrase was the wrong one.  _activate goes on from here.
Decrypted(j) ==
  /\ jobs[j].at = "secrets"
  /\ IF jobs[j].right
     THEN /\ secrets' = keyring.accounts /\ pass' = TRUE
          /\ Goes(j, [at |-> "derive", account |-> keyring.active, remember |-> jobs[j].remember])
     ELSE Ends(j) /\ UNCHANGED <<secrets, pass>>
  /\ UNCHANGED <<vault, keyring, priv, session, origins, pending, keysHistory, messages, suspends>>

\* _activate, after a change was saved.
Activate(j) ==
  /\ jobs[j].at = "activate"
  /\ IF keyring.active \in secrets
     THEN Goes(j, [at |-> "derive", account |-> keyring.active, remember |-> FALSE])
     ELSE Ends(j)                                            \* "wallet is locked"
  /\ UNCHANGED <<vault, keyring, secrets, pass, priv, session, origins, pending, keysHistory,
                 messages, suspends>>

\* The key is derived: _priv and _address.  Whether the wallet was locked meanwhile is not looked at.
Derived(j) ==
  /\ jobs[j].at = "derive"
  /\ priv' = jobs[j].account
  /\ session' = (session \/ jobs[j].remember)                \* rememberSession
  /\ Ends(j)
  /\ UNCHANGED <<vault, keyring, secrets, pass, origins, pending, keysHistory, messages, suspends>>

LockWallet(j) ==
  /\ priv' = None /\ pass' = FALSE /\ secrets' = {}
  /\ session' = FALSE                                        \* forgetSession
  /\ locked' = TRUE /\ overtaken' = (\E o \in Handlers \ {j} : jobs[o].at \in AfterKey \cup Adds)
  /\ Ends(j) /\ UNCHANGED <<vault, keyring, crossed>>

-----------------------------------------------------------------------------
(* The accounts.                                                            *)

Open == pass /\ keyring # None                               \* _requireKeyringUnlocked
Saves(j, ring) ==
  /\ keyring' = ring /\ vault' = ring
  /\ Goes(j, [at |-> "activate"])
  /\ crossed' = (crossed \/ Others(j) # {})

SelectAccount(j, a) ==
  /\ Open /\ a \in keyring.accounts
  /\ Saves(j, [keyring EXCEPT !.active = a])
  /\ UNCHANGED <<secrets, pass, priv>>

RemoveAccount(j, a) ==
  /\ Open /\ Cardinality(keyring.accounts) > 1 /\ a \in keyring.accounts
  /\ LET left == keyring.accounts \ {a}
     IN Saves(j, [accounts |-> left,
                  active |-> IF keyring.active = a THEN CHOOSE b \in left : TRUE ELSE keyring.active])
  /\ secrets' = secrets \ {a}
  /\ UNCHANGED <<pass, priv>>

\* Its address is derived and its phrase encrypted before it is pushed.
AddAccount(j, a) ==
  /\ Open /\ a \notin keyring.accounts
  /\ Goes(j, [at |-> "push", account |-> a])
  /\ UNCHANGED <<vault, keyring, secrets, pass, priv, crossed>>
Push(j) ==
  /\ jobs[j].at = "push"
  /\ LET a == jobs[j].account
     IN /\ Saves(j, [accounts |-> keyring.accounts \cup {a}, active |-> a])
        /\ secrets' = secrets \cup {a}
  /\ UNCHANGED <<pass, priv, session, origins, pending, locked, overtaken, messages, suspends>>

-----------------------------------------------------------------------------
(* Sites.                                                                   *)

Same == UNCHANGED <<vault, keyring, secrets, pass, priv, crossed>>
Moves == {"transfer", "send"}                                \* what needs a connection and a yes

\* isConnected has answered; requestApproval opens a window.
Checked(j) ==
  /\ jobs[j].at = "check"
  /\ IF jobs[j].site \in origins /\ priv # None
     THEN Goes(j, [jobs[j] EXCEPT !.at = "asking"]) /\ pending' = pending \cup {j}
     ELSE Ends(j) /\ UNCHANGED pending
  /\ Same /\ UNCHANGED <<session, origins, locked, overtaken, messages, suspends>>

\* The request leaves pending before the inscription's coin is looked up; when it is not found
\* nothing answers the site.
Decide(j) ==
  /\ jobs[j].at = "asking" /\ j \in pending
  /\ pending' = pending \ {j}
  /\ \/ Ends(j)                                              \* no, or the window was closed
     \/ priv # None /\ jobs[j].do = "connect" /\ Goes(j, [jobs[j] EXCEPT !.at = "origins"])
     \/ priv # None /\ jobs[j].do = "transfer" /\ Goes(j, [jobs[j] EXCEPT !.at = "silent"])
  /\ Same /\ UNCHANGED <<session, origins, locked, overtaken, messages, suspends>>

\* setConnected: the list is read, and written back.
ReadOrigins(j) ==
  /\ jobs[j].at = "origins"
  /\ Goes(j, [at |-> "write",
              origins |-> IF jobs[j].do = "connect" THEN origins \cup {jobs[j].site}
                                                    ELSE origins \ {jobs[j].site}])
  /\ Same /\ UNCHANGED <<session, origins, pending, locked, overtaken, messages, suspends>>
WriteOrigins(j) ==
  /\ jobs[j].at = "write" /\ origins' = jobs[j].origins /\ Ends(j)
  /\ Same /\ UNCHANGED <<session, pending, locked, overtaken, messages, suspends>>

-----------------------------------------------------------------------------
(* The router.                                                              *)

Message ==
  [do : {"look", "lock", "unlock", "mistype"}]
    \cup [do : {"select", "remove", "add"}, account : Accounts]
    \cup [do : {"connect", "disconnect"} \cup Moves, site : Sites]

\* What a handler does first, once ensureWallet has let it pass.
Begin(j, m) ==
  \/ /\ m.do = "look" /\ Ends(j) /\ Same /\ UNCHANGED <<session, pending, locked, overtaken>>
  \/ m.do = "lock" /\ LockWallet(j) /\ UNCHANGED pending
  \/ /\ m.do \in {"unlock", "mistype"}
     /\ UnlockRing(j, [at |-> "secrets", right |-> m.do = "unlock", remember |-> TRUE])
     /\ locked' = (locked /\ m.do = "mistype") /\ UNCHANGED <<session, pending, overtaken>>
  \/ /\ \/ m.do = "select" /\ SelectAccount(j, m.account)
        \/ m.do = "remove" /\ RemoveAccount(j, m.account)
        \/ m.do = "add" /\ AddAccount(j, m.account)
     /\ UNCHANGED <<session, pending, locked, overtaken>>
  \/ /\ m.do \in {"connect"} \cup Moves
     /\ Goes(j, [at |-> IF m.do = "connect" THEN "asking" ELSE "check", do |-> m.do, site |-> m.site])
     /\ pending' = IF m.do = "connect" THEN pending \cup {j} ELSE pending
     /\ Same /\ UNCHANGED <<session, locked, overtaken>>
  \/ /\ m.do = "disconnect" /\ Goes(j, [at |-> "origins", do |-> m.do, site |-> m.site])
     /\ Same /\ UNCHANGED <<session, pending, locked, overtaken>>

\* ensureWallet: a wallet without its key is unlocked from the session first, once for everyone who
\* waits.
Arrive(j, m) ==
  /\ jobs[j] = Nothing /\ messages < MaxMessages /\ messages' = messages + 1
  /\ \/ priv # None /\ Begin(j, m)
     \/ /\ priv = None
        /\ jobs' = [jobs EXCEPT ![j] = [at |-> "ensure", message |-> m],
                                !["wake"] = IF @ = Nothing THEN [at |-> "get"] ELSE @]
        /\ Same /\ UNCHANGED <<session, pending, locked, overtaken>>
  /\ UNCHANGED <<origins, suspends>>

Rehydrated(j) == TRUE                                        \* (mutant: goes on at once)
Awake(j) == jobs["wake"] = Nothing
Resume(j) ==
  /\ jobs[j].at = "ensure" /\ Awake(j) /\ Begin(j, jobs[j].message)
  /\ UNCHANGED <<origins, messages, suspends>>

\* storage.session has answered.
Wake ==
  /\ jobs["wake"].at = "get"
  /\ IF session /\ priv = None
     THEN UnlockRing("wake", [at |-> "secrets", right |-> TRUE, remember |-> FALSE])
     ELSE Ends("wake") /\ Same
  /\ UNCHANGED <<session, origins, pending, locked, overtaken, messages, suspends>>

\* The worker goes, with its memory.
Suspend ==
  /\ suspends < MaxSuspends /\ suspends' = suspends + 1
  /\ keyring' = None /\ secrets' = {} /\ pass' = FALSE /\ priv' = None
  /\ pending' = {} /\ jobs' = [j \in Everyone |-> Nothing]
  /\ crossed' = FALSE
  /\ UNCHANGED <<vault, session, origins, locked, overtaken, messages>>

KeysNext ==
  \/ \E j \in Handlers :
       \/ \E m \in Message : Arrive(j, m)
       \/ Resume(j) \/ Push(j) \/ Checked(j) \/ Decide(j) \/ ReadOrigins(j) \/ WriteOrigins(j)
  \/ \E j \in Everyone : Decrypted(j) \/ Activate(j) \/ Derived(j)
  \/ Wake \/ Suspend
KeysSpec == KeysInit /\ [][KeysNext]_keysVars

-----------------------------------------------------------------------------
(* Properties.                                                              *)

\* A lock with nothing after a key drops it for good: no message, suspension or waking worker brings
\* it back until the passphrase is given (background.js:8-12).
LockedIsLocked == locked /\ ~overtaken => priv = None /\ secrets = {} /\ ~pass /\ ~session

\* "Point _priv/_address at the keyring's active account" (wallet.js:193): whatever was selected,
\* added, removed, suspended and woken, one at a time, the key is the active account's, as long as
\* no phrase was lost.
Quiet == \A j \in Everyone : jobs[j].at \notin AfterKey
KeyOfActive ==
  Quiet /\ ~crossed /\ priv # None /\ keyring.accounts \subseteq secrets
    => priv = keyring.active /\ keyring = vault

\* The wallet has the key that its owner wants it to have, or none.
KeysSound == KeysTypeOK /\ LockedIsLocked /\ KeyOfActive

-----------------------------------------------------------------------------
(* What comments say, and the code does not do.                             *)

\* "The wallet stays unlocked while in use but still locks on browser restart or explicit lock"
\* (background.js:12-13): nothing but the passphrase gives a locked wallet its key back.
LockHolds == locked => priv = None

\* The key is the active account's when two switches overlap, too.
KeyFollows == Quiet /\ priv # None => priv = keyring.active

\* An unlocked wallet has all its phrases, whatever passphrase is tried on it.
PhrasesKept == Quiet /\ pass => secrets = keyring.accounts

\* A site that was connected stays so, unless it is disconnected.
ConnectionKept ==
  [][origins \subseteq origins'
       \/ \E j \in Handlers : jobs[j].at = "write" /\ \E s \in origins : origins' = origins \ {s}]_keysVars

\* "blocks on the user's explicit decision" (background.js:15): an approved request is answered.
RequestAnswered == \A j \in Handlers : jobs[j].at # "silent"
=============================================================================
