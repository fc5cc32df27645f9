------------------------------ MODULE Accounts ------------------------------
(***************************************************************************)
(* The accounts of the SecureGuard server: the tables users, preferences   *)
(* and users_keys, the bodies of LoginService.Register and Authorize, and  *)
(* the RPCs of UserService.                                                *)
(*                                                                         *)
(* A registration is five statements with no transaction around them, so   *)
(* it can stop half-way, and two registrations, or a registration and a    *)
(* sign-in, interleave.  Each step below is one statement.  What precedes  *)
(* it, Authentificator.User, is the subject of Sessions; here a session is *)
(* the fact that one was opened for a user.                                *)
(***************************************************************************)
EXTENDS Usernames, FiniteSets

CONSTANTS
    Users,      \* primary keys of users
    RawNames,   \* names clients ask for
    Passwords,
    Bundles,    \* wrapped master keys with their salt and KDF parameters
    Columns,    \* columns of preferences: theme, lang, crypt
    Choices,    \* values of a column
    Default,    \* the column default
    Requests,   \* slots for RPCs being handled
    None,
    MaxFaults   \* bound on failed statements and crashes

ASSUME AccountsAssumption ==
    /\ RawNames \subseteq Names
    /\ Default \in Choices
    /\ MaxFaults \in Nat
    /\ None \notin Users \cup Passwords \cup Bundles \cup Names \cup [Columns -> Choices]

VARIABLES
    username,   \* username[u]: users.username, None if there is no row
    password,   \* password[u]: users.password
    prefs,      \* prefs[u]: the row of preferences, or None
    keys,       \* keys[u]: the row of users_keys, or None
    sessions,   \* users for whom a session was opened
    pc,         \* pc[r]: what the handler of r does next
    call,       \* call[r]: what r asks for
    uid,        \* uid[r]: the user r works on
    seen,       \* seen[r]: the preferences GetByID has read
    reply,      \* reply[r]: how r ended
    answer,     \* answer[r]: the user r is told about
    faults      \* failures so far

tables == <<username, password, prefs, keys, sessions>>
vars == <<tables, pc, call, uid, seen, reply, answer, faults>>

-----------------------------------------------------------------------------
(* Types *)

Prefs == [Columns -> Choices]

Call == [op: {"register"}, name: RawNames, password: Passwords, key: Bundles]
        \cup [op: {"authorize"}, name: RawNames, password: Passwords]
        \cup [op: {"changeKey"}, user: Users, key: Bundles]
        \cup [op: {"change"}, user: Users, column: Columns, value: Choices]
        \cup [op: {"info"}, user: Users]

SignIn == {"register", "authorize"}

Answer == [name: StoredNames, prefs: Prefs, key: Bundles \cup {None}]

Steps == {"idle", "check", "insert", "initPreferences", "insertKey", "password", "lookup",
          "open", "update", "load", "loadKey", "done"}

\* Names are stored in the form Normalize gives them, and a row of preferences
\* or users_keys refers to a row of users.
TypeOK ==
    /\ username \in [Users -> StoredNames \cup {None}]
    /\ password \in [Users -> Passwords \cup {None}]
    /\ prefs \in [Users -> Prefs \cup {None}]
    /\ keys \in [Users -> Bundles \cup {None}]
    /\ sessions \subseteq Users
    /\ \A u \in Users : prefs[u] # None \/ keys[u] # None \/ u \in sessions => username[u] # None
    /\ pc \in [Requests -> Steps]
    /\ call \in [Requests -> Call \cup {None}]
    /\ uid \in [Requests -> Users \cup {None}]
    /\ seen \in [Requests -> Prefs \cup {None}]
    /\ reply \in [Requests -> {"none", "ok", "conflict", "denied", "error"}]
    /\ answer \in [Requests -> Answer \cup {None}]
    /\ faults \in 0..MaxFaults

Init ==
    /\ username = [u \in Users |-> None]
    /\ password = [u \in Users |-> None]
    /\ prefs = [u \in Users |-> None]
    /\ keys = [u \in Users |-> None]
    /\ sessions = {}
    /\ pc = [r \in Requests |-> "idle"]
    /\ call = [r \in Requests |-> None]
    /\ uid = [r \in Requests |-> None]
    /\ seen = [r \in Requests |-> None]
    /\ reply = [r \in Requests |-> "none"]
    /\ answer = [r \in Requests |-> None]
    /\ faults = 0

-----------------------------------------------------------------------------
(* Helpers *)

Goto(r, step) == pc' = [pc EXCEPT ![r] = step]

Return(r, how) == Goto(r, "done") /\ reply' = [reply EXCEPT ![r] = how]

\* A row of users has this name; users_username_idx allows one at most.
IsUsernameExists(n) == \E u \in Users : username[u] = n

-----------------------------------------------------------------------------
(* Sign-in *)

\* An RPC arrives; those of UserService act for a user with a session.
Begin(r, c) ==
    /\ pc[r] = "idle"
    /\ c.op \notin SignIn => c.user \in sessions
    /\ call' = [call EXCEPT ![r] = c]
    /\ uid' = [uid EXCEPT ![r] = IF c.op \in SignIn THEN None ELSE c.user]
    /\ Goto(r, CASE c.op \in SignIn -> "check" [] c.op = "info" -> "load" [] OTHER -> "update")
    /\ UNCHANGED <<tables, seen, reply, answer, faults>>

\* Names below the minimum are refused; the name is looked up in lower case.
Check(r) ==
    LET n == call[r].name
        taken == IsUsernameExists(Lower(n)) IN
    /\ pc[r] = "check"
    /\ \/ Len(n) < MinRaw /\ Return(r, "error")
       \/ /\ Len(n) >= MinRaw /\ call[r].op = "register"
          /\ IF taken THEN Return(r, "conflict") ELSE Goto(r, "insert") /\ UNCHANGED reply
       \/ /\ Len(n) >= MinRaw /\ call[r].op = "authorize"
          /\ IF taken THEN Goto(r, "password") /\ UNCHANGED reply ELSE Return(r, "denied")
    /\ UNCHANGED <<tables, call, uid, seen, answer, faults>>

-----------------------------------------------------------------------------
(* Service.Register *)

\* Mutant: there is no index, and the test made before is relied on.
InsertUnchecked(r, u, n) ==
    /\ username[u] = None
    /\ username' = [username EXCEPT ![u] = n]
    /\ password' = [password EXCEPT ![u] = call[r].password]
    /\ UNCHANGED <<prefs, keys, sessions>>

InsertUser(r, u, n) ==
    /\ username[u] = None
    /\ ~IsUsernameExists(n)
    /\ username' = [username EXCEPT ![u] = n]
    /\ password' = [password EXCEPT ![u] = call[r].password]
    /\ UNCHANGED <<prefs, keys, sessions>>

\* The normalised name is not the one Check looked up: it may be taken, and
\* then the index makes the insertion fail.  (The last disjunct also stands
\* for the end of the model's supply of ids.)
Insert(r) ==
    /\ pc[r] = "insert"
    /\ \E n \in Normalize(call[r].name) :
          \/ \E u \in Users : /\ InsertUser(r, u, n)
                              /\ uid' = [uid EXCEPT ![r] = u]
                              /\ Goto(r, "initPreferences")
                              /\ UNCHANGED reply
          \/ /\ ~ \E u \in Users : username[u] = None /\ ~IsUsernameExists(n)
             /\ Return(r, "error")
             /\ UNCHANGED <<tables, uid>>
    /\ UNCHANGED <<call, seen, answer, faults>>

\* Mutant: the session is opened first and the key forgotten.
ThenKeyless(step) == IF step = "initPreferences" THEN "open" ELSE "load"

\* What a registration does next, after step.
Then(step) ==
    CASE step = "initPreferences" -> "insertKey"
      [] step = "insertKey" -> "open"
      [] step = "open" -> "load"

\* A new user has no preferences yet, so the test initPreferences makes
\* first always passes; reading the row back is part of this step.
WritePreferences(r) ==
    /\ prefs' = [prefs EXCEPT ![uid[r]] = [c \in Columns |-> Default]]
    /\ UNCHANGED <<username, password, keys, sessions>>

InitPreferences(r) ==
    /\ pc[r] = "initPreferences"
    /\ WritePreferences(r)
    /\ Goto(r, Then("initPreferences"))
    /\ UNCHANGED <<call, uid, seen, reply, answer, faults>>

WriteKey(r) ==
    /\ keys' = [keys EXCEPT ![uid[r]] = call[r].key]
    /\ UNCHANGED <<username, password, prefs, sessions>>

CreateUserKey(r) ==
    /\ pc[r] = "insertKey"
    /\ WriteKey(r)
    /\ Goto(r, Then("insertKey"))
    /\ UNCHANGED <<call, uid, seen, reply, answer, faults>>

WriteSession(r) ==
    /\ sessions' = sessions \cup {uid[r]}
    /\ UNCHANGED <<username, password, prefs, keys>>

\* Service.Create of the sessions, for a registration and for a sign-in.
OpenSession(r) ==
    /\ pc[r] = "open"
    /\ WriteSession(r)
    /\ Goto(r, Then("open"))
    /\ UNCHANGED <<call, uid, seen, reply, answer, faults>>

-----------------------------------------------------------------------------
(* Service.Authorize *)

\* The password is looked up under the name as given, not in lower case.
ComparePassword(r) ==
    /\ pc[r] = "password"
    /\ \/ /\ ~IsUsernameExists(call[r].name)
          /\ Return(r, "error")
          /\ UNCHANGED uid
       \/ \E u \in Users :
             /\ username[u] = call[r].name
             /\ IF password[u] = call[r].password
                THEN Goto(r, "lookup") /\ uid' = [uid EXCEPT ![r] = u] /\ UNCHANGED reply
                ELSE Return(r, "denied") /\ UNCHANGED uid
    /\ UNCHANGED <<tables, call, seen, answer, faults>>

\* Mutant: an account without preferences is served defaults.
Exists(r) == username[uid[r]] # None

\* The row of users joined with its preferences; a missing key is no error.
Complete(r) == prefs[uid[r]] # None

\* GetByUsername wants a name longer than the minimum.
Lookup(r) ==
    /\ pc[r] = "lookup"
    /\ IF Complete(r) /\ Len(call[r].name) > MinRaw
       THEN Goto(r, "open") /\ UNCHANGED reply
       ELSE Return(r, "error")
    /\ UNCHANGED <<tables, call, uid, seen, answer, faults>>

-----------------------------------------------------------------------------
(* UserService *)

\* Mutant: UPDATE users_keys without its WHERE clause.
UpdatedKeysOfAll(r) == [u \in Users |-> IF keys[u] = None THEN None ELSE call[r].key]

\* An UPDATE of a row that is not there changes nothing and is no error.
UpdatedKeys(r) ==
    IF keys[uid[r]] = None THEN keys ELSE [keys EXCEPT ![uid[r]] = call[r].key]

\* ChangeTheme, ChangeLanguage and ChangeCrypt.
UpdatedPrefs(r) ==
    IF prefs[uid[r]] = None THEN prefs
    ELSE [prefs EXCEPT ![uid[r]][call[r].column] = call[r].value]

WriteUpdate(r) ==
    /\ IF call[r].op = "changeKey"
       THEN keys' = UpdatedKeys(r) /\ UNCHANGED prefs
       ELSE prefs' = UpdatedPrefs(r) /\ UNCHANGED keys
    /\ UNCHANGED <<username, password, sessions>>

Update(r) ==
    /\ pc[r] = "update"
    /\ WriteUpdate(r)
    /\ Return(r, "ok")
    /\ UNCHANGED <<call, uid, seen, answer, faults>>

-----------------------------------------------------------------------------
(* Repository.GetByID, for the answer of Info and of a sign-in *)

Load(r) ==
    /\ pc[r] = "load"
    /\ \/ /\ Complete(r)
          /\ seen' = [seen EXCEPT ![r] = prefs[uid[r]]]
          /\ Goto(r, "loadKey")
          /\ UNCHANGED reply
       \/ /\ ~Complete(r)
          /\ Return(r, "error")
          /\ UNCHANGED seen
    /\ UNCHANGED <<tables, call, uid, answer, faults>>

\* compileUser: the key is labelled with the crypt preference read before it.
LoadKey(r) ==
    /\ pc[r] = "loadKey"
    /\ answer' = [answer EXCEPT ![r] = [name |-> username[uid[r]], prefs |-> seen[r],
                                        key |-> keys[uid[r]]]]
    /\ Return(r, "ok")
    /\ UNCHANGED <<tables, call, uid, seen, faults>>

\* The answer has been sent; the goroutine ends.
End(r) ==
    /\ pc[r] = "done"
    /\ Goto(r, "idle")
    /\ call' = [call EXCEPT ![r] = None]
    /\ uid' = [uid EXCEPT ![r] = None]
    /\ seen' = [seen EXCEPT ![r] = None]
    /\ reply' = [reply EXCEPT ![r] = "none"]
    /\ answer' = [answer EXCEPT ![r] = None]
    /\ UNCHANGED <<tables, faults>>

-----------------------------------------------------------------------------
(* Failures *)

Fault == faults < MaxFaults /\ faults' = faults + 1

\* A statement reports an error; if it is a write, it may have been done.
StatementFails(r) ==
    /\ pc[r] \notin {"idle", "done"}
    /\ Fault
    /\ Return(r, "error")
    /\ \/ UNCHANGED tables
       \/ /\ pc[r] = "insert"
          /\ \E u \in Users, n \in Normalize(call[r].name) : InsertUser(r, u, n)
       \/ pc[r] = "initPreferences" /\ WritePreferences(r)
       \/ pc[r] = "insertKey" /\ WriteKey(r)
       \/ pc[r] = "open" /\ WriteSession(r)
       \/ pc[r] = "update" /\ WriteUpdate(r)
    /\ UNCHANGED <<call, uid, seen, answer>>

\* The process dies and is started again: only the tables survive.
Crash ==
    /\ Fault
    /\ pc' = [r \in Requests |-> "idle"]
    /\ call' = [r \in Requests |-> None]
    /\ uid' = [r \in Requests |-> None]
    /\ seen' = [r \in Requests |-> None]
    /\ reply' = [r \in Requests |-> "none"]
    /\ answer' = [r \in Requests |-> None]
    /\ UNCHANGED tables

-----------------------------------------------------------------------------

Handle(r) ==
    \/ Check(r) \/ Insert(r) \/ InitPreferences(r) \/ CreateUserKey(r) \/ OpenSession(r)
    \/ ComparePassword(r) \/ Lookup(r) \/ Update(r) \/ Load(r) \/ LoadKey(r) \/ End(r)

Next ==
    \/ \E r \in Requests : \/ \E c \in Call : Begin(r, c)
                           \/ Handle(r)
                           \/ StatementFails(r)
    \/ Crash

Spec == Init /\ [][Next]_vars

-----------------------------------------------------------------------------
(* Properties *)

SignedIn(r) == reply[r] = "ok" /\ call[r].op \in SignIn

\* Two registrations that race past the test for a taken name, or whose
\* names normalise to the same one, never yield two accounts of one name.
NoTwins == \A u, v \in Users : username[u] = username[v] /\ username[u] # None => u = v

\* A sign-in that succeeds tells the client the name of an account that has
\* the password he gave, and a name under which the next sign-in finds it:
\* Authorize looks it up in lower case first and as it is afterwards.
AnswerSignsIn ==
    \A r \in Requests : SignedIn(r) =>
        /\ username[uid[r]] = answer[r].name
        /\ password[uid[r]] = call[r].password
        /\ Lower(answer[r].name) = answer[r].name
        /\ Len(answer[r].name) > MinRaw

\* What a failed or crashed registration leaves behind cannot be signed in
\* to without preferences: every RPC that loads the user would fail on it.
SessionsAreUsable == \A u \in sessions : prefs[u] # None

\* A registration reported as done left a complete account behind.
RegistrationIsWhole ==
    \A r \in Requests : SignedIn(r) /\ call[r].op = "register" =>
        /\ prefs[uid[r]] # None /\ keys[uid[r]] # None /\ answer[r].key # None
        /\ uid[r] \in sessions

\* The wrapped key of a user is written by requests of that user alone, with
\* what they carry: once by his registration and then by ChangeKey.  No race
\* between registrations overwrites a key and no failure takes one away.
KeyWrittenByOwner ==
    \A u \in Users : keys'[u] # keys[u] =>
        \E r \in Requests : /\ pc[r] \in {"insertKey", "update"}
                            /\ call[r].op \in {"register", "changeKey"}
                            /\ uid[r] = u
                            /\ keys'[u] = call[r].key
                            /\ pc[r] = "insertKey" <=> keys[u] = None

KeysChangeByOwner == [][KeyWrittenByOwner]_vars

=============================================================================
