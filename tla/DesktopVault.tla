---------------------------- MODULE DesktopVault ----------------------------
(***************************************************************************)
(* The state of the desktop client (AppState in main.rs, ApiClient in      *)
(* api.rs) under its commands.                                             *)
(*                                                                         *)
(* A command is a task of the asynchronous runtime, and many run at once.  *)
(* The ApiClient is behind a fair mutex that is held across a whole RPC;   *)
(* the other four fields of the state have locks of their own, held for a  *)
(* single access.  A command tests authenticated before it waits for the   *)
(* mutex.  Each step below is one access to the shared state, or one part  *)
(* of an RPC.                                                              *)
(*                                                                         *)
(* The page (main.js) decides which commands can be invoked, and the       *)
(* server answers; both are modelled as far as the commands depend on      *)
(* them.  The page takes an answer in the step in which the command        *)
(* returns.                                                                *)
(***************************************************************************)
EXTENDS Envelopes, Sequences

CONSTANTS
    Users, Backends, DefaultBackend, Seeds,
    Offered,    \* the algorithms that get chosen
    Slots,      \* commands that run at the same time
    Commands    \* the commands that get invoked

\* Commands that test authenticated and then call the server.  What a "request"
\* or a "preference" is about makes no difference here.
Remote == {"request", "preference", "encryption", "list", "decrypt", "add", "delete"}
Preferences == {"preference", "encryption"}
Ops == Remote \cup {"login", "register", "logout", "backend", "endpoint", "probe", "check",
                    "rotate", "store"}

VARIABLES
    \* AppState
    authenticated, currentUser, envelope, cache,
    \* ApiClient
    backend, session,
    holder,     \* the task that holds the mutex of the ApiClient
    waiting,    \* the tasks that wait for it, in their order
    \* the running commands
    pc, job,
    made,       \* what a task has computed or received
    reply,      \* how the server answered
    orphaned,   \* the tasks whose page has been loaded anew: nobody awaits them
    \* the page
    page,       \* the user it takes to be signed in, None for nobody
    stored,     \* stored[b, u]: envelopes in localStorage
    \* the server
    account,    \* account[b, u]: wrapped key, crypt preference, vault
    \* Not in the code: what a sign-in or a registration has done to another
    \* sign-in that it overlapped.  "user": it took away the user or the flag
    \* and left the token.  "cache": it replaced the token and left the list.
    crossed

app == <<authenticated, currentUser, envelope, cache, backend, session, crossed>>
mutex == <<holder, waiting>>
locals == <<job, made, reply, orphaned>>
tasks == <<pc, locals>>
ui == <<page, stored>>
vars == <<app, mutex, tasks, ui, account>>

-----------------------------------------------------------------------------
(* Types *)

\* A session is known by its user and its server.
Tokens == [user : Users, backend : Backends]

\* Master keys are drawn at a registration: one for the server, one that
\* the page keeps.  They are known by the account that is registered.
MasterKeys == [of : Backends \X Users, for : {"server", "page"}]
Boxes == [key : [seed : Seeds, algorithm : Algorithms], text : MasterKeys]
Envelopes == [box : Boxes, algorithm : Algorithms]

\* An entry is known by the master key that it is encrypted with.
Entries == MasterKeys
Accounts == [box : Boxes, crypt : Algorithms, vault : SUBSET Entries]
\* Of a list it is known whose it is; what it holds is in DesktopEntries.
Lists == [of : Tokens]
Profiles == [user : Users, envelope : Envelopes]

Maybe(S) == S \cup {None}

ASSUME DesktopVaultAssumption ==
    /\ DefaultBackend \in Backends
    /\ Offered \subseteq Algorithms
    /\ Commands \subseteq Ops
    /\ None \notin Users \cup Slots \cup Seeds \cup Backends \cup Algorithms
    /\ None \notin Tokens \cup Profiles \cup Lists \cup MasterKeys \cup Envelopes \cup Accounts

Job ==
    [op : {"login"}, user : Users]
    \cup [op : {"register"}, user : Users, seed : Seeds, algorithm : Algorithms]
    \cup [op : {"backend"}, backend : Backends]
    \cup [op : {"encryption"}, algorithm : Algorithms]
    \cup [op : {"delete"}, entry : Entries]
    \cup [op : {"add"}, seed : Seeds, algorithm : Algorithms, local : Maybe(Envelopes)]
    \cup [op : {"rotate"}, seed : Seeds, new : Seeds]
    \cup [op : {"logout", "endpoint", "probe", "check", "request", "preference", "list",
                "decrypt", "store"}]

Made == Envelopes \cup Lists
        \cup [entry : Entries, envelope : Envelopes]
        \cup [token : Tokens, envelope : Envelopes]

\* Steps taken without and with the mutex.
Free == {"idle", "prepare", "keep", "store", "wait", "dropUser", "dropFlag", "profile"}
Installing == {"installEnvelope", "installUser", "installFlag"}
Clearing == {"clearUser", "clearEnvelope", "clearCache"}
Held == {"locked", "call", "reply", "clear"} \cup Installing \cup Clearing

TypeOK ==
    /\ authenticated \in BOOLEAN
    /\ currentUser \in Maybe(Profiles)
    /\ envelope \in Maybe(Envelopes)
    /\ cache \in Maybe(Lists)
    /\ backend \in Backends
    /\ session \in Maybe(Tokens)
    /\ holder \in Maybe(Slots)
    /\ waiting \in Seq(Slots)
    /\ pc \in [Slots -> Free \cup Held]
    /\ job \in [Slots -> Maybe(Job)]
    /\ made \in [Slots -> Maybe(Made)]
    /\ reply \in [Slots -> {"none", "ok", "unauthenticated", "error"}]
    /\ orphaned \subseteq Slots
    /\ page \in Maybe(Users)
    /\ stored \in [Backends \X Users -> Maybe(Envelopes)]
    /\ account \in [Backends \X Users -> Maybe(Accounts)]
    /\ crossed \subseteq {"user", "cache"}

Init ==
    /\ authenticated = FALSE
    /\ currentUser = None /\ envelope = None /\ cache = None
    /\ backend = DefaultBackend /\ session = None
    /\ holder = None /\ waiting = <<>>
    /\ pc = [s \in Slots |-> "idle"]
    /\ job = [s \in Slots |-> None]
    /\ made = [s \in Slots |-> None]
    /\ reply = [s \in Slots |-> "none"]
    /\ orphaned = {}
    /\ page = None /\ stored = [a \in Backends \X Users |-> None]
    /\ account = [a \in Backends \X Users |-> None]
    /\ crossed = {}

-----------------------------------------------------------------------------
(* Tasks and the mutex *)

Goto(s, step) == pc' = [pc EXCEPT ![s] = step]

Op(s) == job[s].op

Start(s, j, value) ==
    /\ pc[s] = "idle"
    /\ j.op \in Commands
    /\ job' = [job EXCEPT ![s] = j]
    /\ made' = [made EXCEPT ![s] = value]
    /\ UNCHANGED <<app, reply, account>>

\* The command returns to the page.
Finish(s) ==
    /\ Goto(s, "idle")
    /\ job' = [job EXCEPT ![s] = None]
    /\ made' = [made EXCEPT ![s] = None]
    /\ reply' = [reply EXCEPT ![s] = "none"]
    /\ orphaned' = orphaned \ {s}

\* Mutant: a task goes before those who wait already.
EnqueueFirst(s) ==
    /\ Goto(s, "wait")
    /\ waiting' = <<s>> \o waiting
    /\ UNCHANGED holder

\* state.api.lock().await: behind those who wait already.
Enqueue(s) ==
    /\ Goto(s, "wait")
    /\ waiting' = Append(waiting, s)
    /\ UNCHANGED holder

Acquire(s) ==
    /\ pc[s] = "wait"
    /\ holder = None
    /\ waiting # <<>> /\ Head(waiting) = s
    /\ holder' = s
    /\ waiting' = Tail(waiting)
    /\ Goto(s, "locked")
    /\ UNCHANGED <<app, locals, ui, account>>

Release == holder' = None /\ UNCHANGED waiting

-----------------------------------------------------------------------------
(* Commands are invoked *)

\* The page calls a command, and does not change by it.
Call(s, j, step, value) ==
    /\ Start(s, j, value)
    /\ Goto(s, step)
    /\ UNCHANGED <<mutex, orphaned, ui>>

\* A command that looks at nothing before it asks for the mutex.
CallWaiting(s, j) ==
    /\ Start(s, j, None)
    /\ Enqueue(s)
    /\ UNCHANGED <<orphaned, ui>>

\* A button of the login page is disabled only while its own command runs,
\* the links between the two forms never: sign-ins and registrations overlap.
\* They are even invoked while somebody is signed in: the end of a registration
\* shows the login form whoever has signed in meanwhile.
Login(s, u) == CallWaiting(s, [op |-> "login", user |-> u])

\* The key is drawn before the mutex is asked for.
Register(s, u, seed, algorithm) ==
    CallWaiting(s, [op |-> "register", user |-> u, seed |-> seed, algorithm |-> algorithm])

SetBackendEndpoint(s, b) == CallWaiting(s, [op |-> "backend", backend |-> b])
GetBackendEndpoint(s) == CallWaiting(s, [op |-> "endpoint"])
ProbeBackendServer(s) == CallWaiting(s, [op |-> "probe"])

Logout(s) == page # None /\ Call(s, [op |-> "logout"], "prepare", None)

\* The page asks when it is loaded.  It may be loaded anew at any moment: it
\* has then forgotten its user and all that it waited for.
IsAuthenticated(s) ==
    /\ Start(s, [op |-> "check"], None)
    /\ Goto(s, "prepare")
    /\ page' = None
    /\ orphaned' = {t \in Slots : pc[t] # "idle"}
    /\ UNCHANGED <<mutex, stored>>

\* All other commands test authenticated first.
Check(s, j, step, value) ==
    /\ page # None
    /\ authenticated
    /\ Call(s, j, step, value)

\* Without it they fail, and the page shows the login form.
TurnedAway ==
    /\ page # None
    /\ ~authenticated
    /\ page' = None
    /\ UNCHANGED <<app, mutex, tasks, stored, account>>

GetAdminStats(s) == Check(s, [op |-> "request"], "prepare", None)
ListSessions(s) == Check(s, [op |-> "request"], "prepare", None)
RevokeSession(s) == Check(s, [op |-> "request"], "prepare", None)
SetThemePreference(s) == Check(s, [op |-> "preference"], "prepare", None)
SetLanguagePreference(s) == Check(s, [op |-> "preference"], "prepare", None)
SetEncryptionPreference(s, a) ==
    Check(s, [op |-> "encryption", algorithm |-> a], "prepare", None)
GetPasswords(s) == Check(s, [op |-> "list"], "prepare", None)
DecryptPasswordEntry(s) == Check(s, [op |-> "decrypt"], "prepare", None)
DeletePassword(s, e) == Check(s, [op |-> "delete", entry |-> e], "prepare", None)

\* The page passes the envelope it keeps for its user.
AddPassword(s, seed, algorithm) ==
    Check(s, [op |-> "add", seed |-> seed, algorithm |-> algorithm,
              local |-> stored[<<backend, page>>]], "prepare", None)

RotateSeedPhrase(s, seed, new) ==
    /\ seed # new
    /\ Check(s, [op |-> "rotate", seed |-> seed, new |-> new], "prepare", None)

StoreVaultEnvelope(s) ==
    /\ page # None /\ stored[<<backend, page>>] # None
    /\ Check(s, [op |-> "store"], "store", stored[<<backend, page>>])

-----------------------------------------------------------------------------
(* Before the mutex *)

\* Without preferences of the user there is nothing to tell the server.
Skip(s) ==
    /\ pc[s] = "prepare" /\ Op(s) \in Preferences
    /\ currentUser = None
    /\ Finish(s)
    /\ UNCHANGED <<app, mutex, ui, account>>

\* find_password_entry looks in the cache, whoever filled it, and may find the
\* entry there.
FindCached(s) ==
    /\ pc[s] = "prepare" /\ Op(s) = "decrypt"
    /\ cache # None
    /\ Finish(s)
    /\ UNCHANGED <<app, mutex, ui, account>>

AskForMutex(s) ==
    /\ pc[s] = "prepare" /\ Op(s) \notin {"add", "rotate"}
    /\ ~(Op(s) \in Preferences /\ currentUser = None)
    /\ Enqueue(s)
    /\ UNCHANGED <<app, locals, ui, account>>

\* The envelope of the state comes before the one of the page.
ResolvedEnvelope(s) == IF envelope # None THEN envelope ELSE job[s].local

\* Mutant: a phrase that opens nothing gets a key of its own.
MasterKeyOrNew(s) ==
    IF ResolvedEnvelope(s) = None THEN None
    ELSE LET key == UnwrapMasterKey(ResolvedEnvelope(s), job[s].seed)
         IN  IF key = None THEN [of |-> CHOOSE a \in Backends \X Users : TRUE, for |-> "page"]
             ELSE key

MasterKey(s) ==
    IF ResolvedEnvelope(s) = None THEN None
    ELSE UnwrapMasterKey(ResolvedEnvelope(s), job[s].seed)

SealEntry(s) ==
    /\ pc[s] = "prepare" /\ Op(s) = "add"
    /\ \/ /\ MasterKey(s) = None
          /\ Finish(s)
       \/ /\ MasterKey(s) # None
          /\ made' = [made EXCEPT ![s] =
                [entry |-> MasterKey(s),
                 envelope |-> WrapMasterKey(MasterKey(s), job[s].seed, job[s].algorithm)]]
          /\ Goto(s, "keep")
          /\ UNCHANGED <<job, reply, orphaned>>
    /\ UNCHANGED <<app, mutex, ui, account>>

\* Mutant: the envelope of the entry replaces the one that is held.
KeepEnvelopeAlways(s) ==
    /\ pc[s] = "keep"
    /\ envelope' = made[s].envelope
    /\ Enqueue(s)
    /\ UNCHANGED <<authenticated, currentUser, cache, backend, session, crossed, locals, ui, account>>

KeepEnvelope(s) ==
    /\ pc[s] = "keep"
    /\ envelope' = IF envelope = None THEN made[s].envelope ELSE envelope
    /\ Enqueue(s)
    /\ UNCHANGED <<authenticated, currentUser, cache, backend, session, crossed, locals, ui, account>>

\* Mutant: the key is wrapped again whether or not the phrase opened it.
RewrapUnchecked(s) ==
    /\ pc[s] = "prepare" /\ Op(s) = "rotate"
    /\ LET key == IF envelope = None THEN None ELSE UnwrapMasterKey(envelope, job[s].seed)
       IN  IF envelope = None THEN Finish(s)
           ELSE /\ made' = [made EXCEPT ![s] =
                       WrapMasterKey(key, job[s].new, envelope.algorithm)]
                /\ Goto(s, "store")
                /\ UNCHANGED <<job, reply, orphaned>>
    /\ UNCHANGED <<app, mutex, ui, account>>

RewrapKey(s) ==
    /\ pc[s] = "prepare" /\ Op(s) = "rotate"
    /\ LET key == IF envelope = None THEN None ELSE UnwrapMasterKey(envelope, job[s].seed)
       IN  \/ key = None /\ Finish(s)
           \/ /\ key # None
              /\ made' = [made EXCEPT ![s] = WrapMasterKey(key, job[s].new, envelope.algorithm)]
              /\ Goto(s, "store")
              /\ UNCHANGED <<job, reply, orphaned>>
    /\ UNCHANGED <<app, mutex, ui, account>>

\* Last step of rotate_seed_phrase, and all of store_vault_envelope after its test.
StoreEnvelope(s) ==
    /\ pc[s] = "store"
    /\ envelope' = made[s]
    /\ Finish(s)
    /\ UNCHANGED <<authenticated, currentUser, cache, backend, session, crossed, mutex, ui, account>>

-----------------------------------------------------------------------------
(* With the mutex *)

\* logout and the commands that need a session, when there is none: the call
\* fails, and all but a failed connection is taken for a lost session.
Unsigned(s) ==
    /\ pc[s] = "locked" /\ Op(s) \in Remote \cup {"logout"}
    /\ session = None
    /\ \/ Goto(s, "clear") /\ UNCHANGED <<mutex, locals>>
       \/ Op(s) # "logout" /\ Finish(s) /\ Release
    /\ UNCHANGED <<app, ui, account>>

SendRequest(s) ==
    /\ pc[s] = "locked"
    /\ \/ Op(s) \in {"login", "register", "probe"}
       \/ Op(s) \in Remote \cup {"logout"} /\ session # None
    /\ Goto(s, "call")
    /\ UNCHANGED <<app, mutex, locals, ui, account>>

\* Mutant: a new endpoint leaves the session in place.
ChangeBackendOnly(s) ==
    /\ pc[s] = "locked" /\ Op(s) = "backend"
    /\ backend' = job[s].backend
    /\ Finish(s) /\ Release
    /\ UNCHANGED <<authenticated, currentUser, envelope, cache, session, crossed, ui, account>>

ChangeBackend(s) ==
    /\ pc[s] = "locked" /\ Op(s) = "backend"
    /\ backend' = job[s].backend
    /\ \/ backend' = backend /\ Finish(s) /\ Release
       \/ backend' # backend /\ Goto(s, "clear") /\ UNCHANGED <<mutex, locals>>
    /\ UNCHANGED <<authenticated, currentUser, envelope, cache, session, crossed, ui, account>>

ReadBackend(s) ==
    /\ pc[s] = "locked" /\ Op(s) = "endpoint"
    /\ Finish(s) /\ Release
    /\ UNCHANGED <<app, ui, account>>

\* What the page does with a profile: it keeps the envelope that comes with it.
Show(s, profile) ==
    IF s \in orphaned THEN UNCHANGED ui
    ELSE /\ page' = profile.user
         /\ stored' = [stored EXCEPT ![<<backend, profile.user>>] = profile.envelope]

ShowNobody(s) ==
    /\ page' = IF s \in orphaned THEN page ELSE None
    /\ UNCHANGED stored

ReportAuthenticated(s) ==
    /\ pc[s] = "locked" /\ Op(s) = "check"
    /\ authenticated' = (authenticated /\ session # None)
    /\ \/ authenticated' /\ Goto(s, "profile") /\ UNCHANGED <<locals, ui>>
       \/ ~authenticated' /\ Finish(s) /\ ShowNobody(s)
    /\ Release
    /\ UNCHANGED <<currentUser, envelope, cache, backend, session, crossed, account>>

\* get_session_user, which the page calls next, without the mutex.
ReadProfile(s) ==
    /\ pc[s] = "profile"
    /\ IF currentUser = None THEN ShowNobody(s) ELSE Show(s, currentUser)
    /\ Finish(s)
    /\ UNCHANGED <<app, mutex, account>>

-----------------------------------------------------------------------------
(* The server *)

Requested(s, op) == pc[s] = "call" /\ Op(s) = op

\* An answer may be lost after its request was done.
Answer(s) ==
    /\ \E how \in {"ok", "error"} : reply' = [reply EXCEPT ![s] = how]
    /\ Goto(s, "reply")
    /\ UNCHANGED <<app, mutex, job, orphaned, ui>>

\* No connection, or refused for another reason than the session.
FailRequest(s) ==
    /\ pc[s] = "call"
    /\ reply' = [reply EXCEPT ![s] = "error"]
    /\ Goto(s, "reply")
    /\ UNCHANGED <<app, mutex, job, made, orphaned, ui, account>>

\* The session has expired, or was revoked from this or another device.  Either
\* may be so at any request: after this answer the token is never sent again.
RefuseSession(s) ==
    /\ pc[s] = "call" /\ Op(s) \in Remote \cup {"logout"}
    /\ reply' = [reply EXCEPT ![s] = "unauthenticated"]
    /\ Goto(s, "reply")
    /\ UNCHANGED <<app, mutex, job, made, orphaned, ui, account>>

\* The account of the session.
Mine == <<session.backend, session.user>>

\* The server labels the wrapped key with the crypt preference.
KeyBundle(a) == Envelope(account[a].box, account[a].crypt)

ServeLogin(s) ==
    LET a == <<backend, job[s].user>>
        token == [user |-> job[s].user, backend |-> backend]
    IN  /\ Requested(s, "login")
        /\ account[a] # None
        /\ made' = [made EXCEPT ![s] = [token |-> token, envelope |-> KeyBundle(a)]]
        /\ Answer(s)
        /\ UNCHANGED account

\* A new account prefers Argon2id, with whichever algorithm its key was wrapped.
\* The key was drawn before; it is named here, after the account.
ServeRegister(s) ==
    LET a == <<backend, job[s].user>>
    IN  /\ Requested(s, "register")
        /\ account[a] = None
        /\ account' = [account EXCEPT ![a] =
              [box |-> PrepareMasterKeyEnvelope([of |-> a, for |-> "server"], job[s].seed,
                                                job[s].algorithm).box,
               crypt |-> Argon2id, vault |-> {}]]
        /\ Answer(s)
        /\ UNCHANGED made

ServeList(s) ==
    /\ Requested(s, "list") \/ Requested(s, "decrypt")
    /\ made' = [made EXCEPT ![s] = [of |-> session]]
    /\ Answer(s)
    /\ UNCHANGED account

ServeAdd(s) ==
    /\ Requested(s, "add")
    /\ account' = [account EXCEPT ![Mine].vault = @ \cup {made[s].entry}]
    /\ Answer(s)
    /\ UNCHANGED made

ServeDelete(s) ==
    /\ Requested(s, "delete")
    /\ account' = [account EXCEPT ![Mine].vault = @ \ {job[s].entry}]
    /\ Answer(s)
    /\ UNCHANGED made

ServeEncryption(s) ==
    /\ Requested(s, "encryption")
    /\ account' = [account EXCEPT ![Mine].crypt = job[s].algorithm]
    /\ Answer(s)
    /\ UNCHANGED made

\* Calls that change nothing the commands depend on.
ServeOther(s, op) ==
    /\ Requested(s, op)
    /\ Answer(s)
    /\ UNCHANGED <<made, account>>

ServeLogout(s) == ServeOther(s, "logout")
ServeRequest(s) == ServeOther(s, "request")
ServePreference(s) == ServeOther(s, "preference")
ServeProbe(s) == ServeOther(s, "probe")

Serve(s) ==
    \/ ServeLogin(s) \/ ServeRegister(s) \/ ServeList(s) \/ ServeAdd(s) \/ ServeDelete(s)
    \/ ServeEncryption(s) \/ ServeLogout(s) \/ ServeRequest(s) \/ ServePreference(s)
    \/ ServeProbe(s)
    \/ RefuseSession(s) \/ FailRequest(s)

-----------------------------------------------------------------------------
(* Answers *)

Answered(s, op, how) == pc[s] = "reply" /\ Op(s) = op /\ reply[s] = how

\* What stays behind when the token is replaced or dropped while it is held.
Crossing == crossed \cup IF session # None /\ cache # None THEN {"cache"} ELSE {}

\* The token is stored before the rest of the profile.
SettleLogin(s) ==
    /\ Answered(s, "login", "ok")
    /\ session' = made[s].token
    /\ crossed' = Crossing
    /\ Goto(s, "installEnvelope")
    /\ UNCHANGED <<authenticated, currentUser, envelope, cache, backend, mutex, locals, ui,
                   account>>

\* register leaves the mutex before it resets the user and the flag.  What it
\* has in hand then is the page's: an envelope with another master key.
SettleRegister(s) ==
    /\ Answered(s, "register", "ok")
    /\ session' = None
    /\ crossed' = Crossing
    /\ made' = [made EXCEPT ![s] =
          PrepareMasterKeyEnvelope([of |-> <<backend, job[s].user>>, for |-> "page"],
                                   job[s].seed, job[s].algorithm)]
    /\ Release
    /\ Goto(s, "dropUser")
    /\ UNCHANGED <<authenticated, currentUser, envelope, cache, backend, job, reply, orphaned, ui,
                   account>>

\* A list is cached, for get_passwords and find_password_entry alike.
SettleList(s) ==
    /\ Answered(s, "list", "ok") \/ Answered(s, "decrypt", "ok")
    /\ cache' = made[s]
    /\ crossed' = crossed \ {"cache"}
    /\ Finish(s) /\ Release
    /\ UNCHANGED <<authenticated, currentUser, envelope, backend, session, ui, account>>

\* Answers that need nothing done.  The page would keep the envelope of a new
\* entry, but no request carries it to the server, and no answer brings it back.
Plain == {"request", "preference", "encryption", "add", "delete", "probe"}

\* Mutant: a logout that failed is reported as failed.
SettleFailedLogout(s) ==
    /\ pc[s] = "reply"
    /\ \/ reply[s] = "ok" /\ Op(s) \in Plain
       \/ reply[s] = "error"
    /\ Finish(s) /\ Release
    /\ UNCHANGED <<app, ui, account>>

SettleOther(s) ==
    /\ pc[s] = "reply"
    /\ \/ reply[s] = "ok" /\ Op(s) \in Plain
       \/ reply[s] = "error" /\ Op(s) # "logout"
    /\ Finish(s) /\ Release
    /\ UNCHANGED <<app, ui, account>>

\* A logout ends the local session however it was answered.
LoseSession(s) ==
    /\ pc[s] = "reply"
    /\ Op(s) = "logout" \/ reply[s] = "unauthenticated"
    /\ Goto(s, "clear")
    /\ UNCHANGED <<app, mutex, locals, ui, account>>

Settle(s) ==
    \/ SettleLogin(s) \/ SettleRegister(s) \/ SettleList(s) \/ SettleOther(s) \/ LoseSession(s)

-----------------------------------------------------------------------------
(* Writes of several steps *)

InstallEnvelope(s) ==
    /\ pc[s] = "installEnvelope"
    /\ envelope' = made[s].envelope
    /\ Goto(s, "installUser")
    /\ UNCHANGED <<authenticated, currentUser, cache, backend, session, crossed, mutex, locals, ui,
                   account>>

Profile(s) == [user |-> made[s].token.user, envelope |-> made[s].envelope]

InstallUser(s) ==
    /\ pc[s] = "installUser"
    /\ currentUser' = Profile(s)
    /\ Goto(s, "installFlag")
    /\ UNCHANGED <<authenticated, envelope, cache, backend, session, crossed, mutex, locals, ui,
                   account>>

InstallFlag(s) ==
    /\ pc[s] = "installFlag"
    /\ authenticated' = TRUE
    /\ crossed' = IF currentUser = None THEN crossed ELSE crossed \ {"user"}
    /\ Show(s, Profile(s))
    /\ Finish(s) /\ Release
    /\ UNCHANGED <<currentUser, envelope, cache, backend, session, account>>

\* Mutant: the flag is left.
ClearTokenOnly(s) ==
    /\ pc[s] = "clear"
    /\ session' = None
    /\ Goto(s, "clearUser")
    /\ UNCHANGED <<authenticated, currentUser, envelope, cache, backend, crossed, mutex, locals, ui,
                   account>>

\* clear_auth_state, with the mutex held.
ClearSession(s) ==
    /\ pc[s] = "clear"
    /\ session' = None
    /\ authenticated' = FALSE
    /\ Goto(s, "clearUser")
    /\ UNCHANGED <<currentUser, envelope, cache, backend, crossed, mutex, locals, ui, account>>

ClearUser(s) ==
    /\ pc[s] = "clearUser"
    /\ currentUser' = None
    /\ Goto(s, "clearEnvelope")
    /\ UNCHANGED <<authenticated, envelope, cache, backend, session, crossed, mutex, locals, ui,
                   account>>

ClearEnvelope(s) ==
    /\ pc[s] = "clearEnvelope"
    /\ envelope' = None
    /\ Goto(s, "clearCache")
    /\ UNCHANGED <<authenticated, currentUser, cache, backend, session, crossed, mutex, locals, ui,
                   account>>

\* The page shows the login form, but not after a change of the server: it
\* looks for an answer reauth_required where it has reauthRequired.
ShowLogin(s) == IF Op(s) = "backend" THEN UNCHANGED ui ELSE ShowNobody(s)

\* Mutant: the cache is left to the next user.
KeepCache(s) ==
    /\ pc[s] = "clearCache"
    /\ crossed' = {}
    /\ ShowLogin(s)
    /\ Finish(s) /\ Release
    /\ UNCHANGED <<authenticated, currentUser, envelope, cache, backend, session, account>>

ClearCache(s) ==
    /\ pc[s] = "clearCache"
    /\ cache' = None
    /\ crossed' = {}
    /\ ShowLogin(s)
    /\ Finish(s) /\ Release
    /\ UNCHANGED <<authenticated, currentUser, envelope, backend, session, account>>

\* What a registration takes away from somebody who has signed in meanwhile.
Dropping == crossed \cup IF session # None THEN {"user"} ELSE {}

DropUser(s) ==
    /\ pc[s] = "dropUser"
    /\ currentUser' = None
    /\ crossed' = Dropping
    /\ Goto(s, "dropFlag")
    /\ UNCHANGED <<authenticated, envelope, cache, backend, session, mutex, locals, ui, account>>

DropFlag(s) ==
    /\ pc[s] = "dropFlag"
    /\ authenticated' = FALSE
    /\ crossed' = Dropping
    /\ stored' = IF s \in orphaned THEN stored
                 ELSE [stored EXCEPT ![<<backend, job[s].user>>] = made[s]]
    /\ Finish(s)
    /\ UNCHANGED <<currentUser, envelope, cache, backend, session, mutex, page, account>>

-----------------------------------------------------------------------------
(* Specification *)

Invoke(s) ==
    \/ \E u \in Users : Login(s, u)
    \/ \E u \in Users, seed \in Seeds, a \in Offered : Register(s, u, seed, a)
    \/ Logout(s) \/ IsAuthenticated(s)
    \/ \E b \in Backends : SetBackendEndpoint(s, b)
    \/ GetBackendEndpoint(s) \/ ProbeBackendServer(s)
    \/ GetAdminStats(s) \/ SetThemePreference(s) \/ SetLanguagePreference(s)
    \/ \E a \in Offered : SetEncryptionPreference(s, a)
    \/ GetPasswords(s) \/ DecryptPasswordEntry(s) \/ ListSessions(s) \/ RevokeSession(s)
    \/ \E e \in Entries : DeletePassword(s, e)
    \/ \E seed \in Seeds, a \in Offered : AddPassword(s, seed, a)
    \/ \E seed, new \in Seeds : RotateSeedPhrase(s, seed, new)
    \/ StoreVaultEnvelope(s)

\* What a command does by itself once invoked.
Run(s) ==
    \/ Skip(s) \/ FindCached(s) \/ AskForMutex(s)
    \/ SealEntry(s) \/ KeepEnvelope(s) \/ RewrapKey(s) \/ StoreEnvelope(s)
    \/ Acquire(s)
    \/ Unsigned(s) \/ SendRequest(s) \/ ChangeBackend(s) \/ ReadBackend(s)
    \/ ReportAuthenticated(s) \/ ReadProfile(s)
    \/ Settle(s)
    \/ InstallEnvelope(s) \/ InstallUser(s) \/ InstallFlag(s)
    \/ ClearSession(s) \/ ClearUser(s) \/ ClearEnvelope(s) \/ ClearCache(s)
    \/ DropUser(s) \/ DropFlag(s)

Next ==
    \/ \E s \in Slots : Invoke(s) \/ Run(s) \/ Serve(s)
    \/ TurnedAway

Spec == Init /\ [][Next]_vars

\* The runtime schedules every task; the mutex serves its queue in order.
RuntimeFairness == \A s \in Slots : WF_vars(Run(s))

\* The server answers, or the connection fails, sooner or later.
ServerFairness == \A s \in Slots : WF_vars(Serve(s))

FairSpec == Spec /\ RuntimeFairness /\ ServerFairness

-----------------------------------------------------------------------------
(* Properties *)

\* Nobody is in the middle of a write of several steps.
Settled == \A s \in Slots : pc[s] \notin Installing \cup Clearing

\* A registration is about to reset the user and the flag.
Registering == \E s \in Slots : pc[s] \in {"dropUser", "dropFlag"}

\* The places that say who is signed in, the flag, the token and the user,
\* agree between the writes of login and clear_auth_state.  Without a token
\* flag and user are gone, or a registration is about to take them away.  The
\* user is the one of the token.  And whoever has a token is signed in, but
\* for a registration that ended while he did.
SignedInMeans ==
    Settled =>
        /\ session = None /\ (authenticated \/ currentUser # None) => Registering
        /\ session # None /\ currentUser # None => currentUser.user = session.user
        /\ session # None /\ "user" \notin crossed => authenticated /\ currentUser # None

\* A cached list was given for the very session that is held: nobody is served
\* from the list of an earlier session, however that one was lost.  (What ends
\* a session without a sign-out is another sign-in or a registration, which
\* leave the cache until the next list or sign-out.)
CacheOfSession ==
    Settled /\ cache # None /\ "cache" \notin crossed => session # None /\ cache.of = session

\* The envelope that the client holds for whoever is signed in wraps the master
\* key of his account, and so does the one in his profile: no addition, which
\* keeps its envelope without the mutex and maybe in the session of somebody
\* else, puts another in its place.  (rotate_seed_phrase and
\* store_vault_envelope would; the page calls neither.)
EnvelopeOfSession ==
    Settled /\ session # None =>
        /\ envelope # None /\ envelope.box = account[Mine].box
        /\ currentUser # None => currentUser.envelope.box = account[Mine].box

\* A token is never sent to another server than the one that issued it.
TokenStaysHome ==
    \A s \in Slots :
        pc[s] = "call" /\ Op(s) \in Remote \cup {"logout"} => session.backend = backend

\* One phrase opens everything in the vault of the user who is signed in, with
\* the envelope that the client holds for him: the phrase he registered with,
\* or the one he rotated the envelope to.
PhraseOpensVault ==
    Settled /\ session # None =>
        \E phrase \in Seeds :
            \A e \in account[Mine].vault : UnwrapMasterKey(envelope, phrase) = e

\* Every command returns.
CommandsReturn == \A s \in Slots : pc[s] # "idle" ~> pc[s] = "idle"

\* When the user or the timer locks the client, it gets locked.
LockTakesEffect == \A s \in Slots : pc[s] # "idle" /\ Op(s) = "logout" ~> ~authenticated

=============================================================================
