--------------------------- MODULE AccountsProofs ---------------------------
(***************************************************************************)
(* Proofs about Accounts, for every number of users, names, keys and       *)
(* concurrent requests.                                                    *)
(*                                                                         *)
(* AccountsInv says what the tables hold for the user that a request works *)
(* on; it does not depend on what Normalize makes of a name.  SignInv adds *)
(* names and passwords; it rests on NormalizeIsStored, that every name     *)
(* which the loop of sanitizeUsername and the two limits make is one that  *)
(* both look-ups of a sign-in find.                                        *)
(***************************************************************************)
EXTENDS Accounts, WellFoundedInduction, TLAPS

-----------------------------------------------------------------------------
(* The inductive invariant *)

\* The tables by themselves: a row of users_keys belongs to a user.
TablesOK ==
    /\ username = [u \in Users |-> username[u]]
    /\ prefs \in [Users -> Prefs \cup {None}]
    /\ keys \in [Users -> Bundles \cup {None}]
    /\ sessions \subseteq Users
    /\ \A u \in Users : username[u] = None => keys[u] = None

LocalsOK ==
    /\ pc \in [Requests -> Steps]
    /\ call \in [Requests -> Call \cup {None}]
    /\ uid \in [Requests -> Users \cup {None}]
    /\ reply \in [Requests -> {"none", "ok", "conflict", "denied", "error"}]
    /\ answer = [r \in Requests |-> answer[r]]

\* The user of r is one the registration r has inserted and not finished.
Registering == {"initPreferences", "insertKey"}

\* The steps of the different RPCs do not mix.
CallInv(r) ==
    /\ pc[r] # "idle" => call[r] \in Call
    /\ pc[r] \in {"check", "open", "lookup", "password", "insert"} \cup Registering =>
          call[r].op \in SignIn
    /\ pc[r] \in {"insert"} \cup Registering => call[r].op = "register"
    /\ pc[r] \in {"lookup", "password"} => call[r].op = "authorize"
    /\ pc[r] = "update" => call[r].op \in {"change", "changeKey"}
    /\ reply[r] = "ok" => pc[r] = "done"

\* What the tables hold for the user that r works on.
UserInv(r) ==
    /\ pc[r] \in {"lookup", "open", "update", "load", "loadKey"} \cup Registering =>
          uid[r] \in Users
    /\ pc[r] \in Registering => username[uid[r]] # None
    /\ pc[r] \in {"insertKey", "open", "loadKey"} => prefs[uid[r]] # None
    /\ pc[r] \in Registering => keys[uid[r]] = None
    /\ pc[r] \in {"open", "load", "loadKey"} /\ call[r].op = "register" => keys[uid[r]] # None
    /\ pc[r] \in {"load", "loadKey"} /\ call[r].op \in SignIn => uid[r] \in sessions
    /\ SignedIn(r) /\ call[r].op = "register" =>
          /\ uid[r] \in sessions
          /\ prefs[uid[r]] # None /\ keys[uid[r]] # None /\ answer[r].key # None

\* No two registrations work on one user.
Disjoint ==
    \A r, s \in Requests :
        pc[r] \in Registering /\ pc[s] \in Registering /\ uid[r] = uid[s] => r = s

AccountsInv ==
    /\ TablesOK /\ LocalsOK
    /\ NoTwins /\ SessionsAreUsable
    /\ \A r \in Requests : CallInv(r) /\ UserInv(r)
    /\ Disjoint

-----------------------------------------------------------------------------
(* Facts about the data *)

\* What each kind of call carries.
LEMMA CallFields ==
    ASSUME NEW c \in Call
    PROVE  /\ c.op \in {"register", "authorize", "changeKey", "change", "info"}
           /\ c.op \in {"register", "changeKey"} => c.key \in Bundles
           /\ c.op \in {"changeKey", "change", "info"} => c.user \in Users
           /\ c.op = "change" => c.column \in Columns /\ c.value \in Choices
BY DEF Call

\* No step takes a name, preferences, a key or a session away from a user.
TablesGrow ==
    /\ \A u \in Users : /\ username[u] # None => username'[u] # None
                        /\ prefs[u] # None => prefs'[u] # None
                        /\ keys[u] # None => keys'[u] # None
    /\ sessions \subseteq sessions'

\* A key appears where there was none only by the registration of r.
KeyAppearsBy(r) ==
    \A u \in Users : keys[u] = None /\ keys'[u] # None => pc[r] = "insertKey" /\ uid[r] = u

\* What a write to the tables by r guarantees.
WriteSafe(r) == TablesOK' /\ NoTwins' /\ TablesGrow /\ KeyAppearsBy(r)

\* A step that leaves the tables alone.
LEMMA NoWrite ==
    ASSUME AccountsInv, UNCHANGED tables, NEW r \in Requests
    PROVE  WriteSafe(r) /\ SessionsAreUsable'
BY DEF AccountsInv, WriteSafe, TablesOK, NoTwins, TablesGrow, KeyAppearsBy, tables, SessionsAreUsable

\* A name is inserted in a free row only if no row has it: it is not None.
LEMMA InsertUserSafe ==
    ASSUME AccountsInv, NEW r \in Requests, NEW u \in Users, NEW n, InsertUser(r, u, n)
    PROVE  /\ WriteSafe(r) /\ SessionsAreUsable'
           /\ username[u] = None /\ username'[u] # None
           /\ keys' = keys /\ keys[u] = None
<1>1. n # None /\ username[u] = None
      BY DEF InsertUser, IsUsernameExists
<1>2. /\ username' = [username EXCEPT ![u] = n]
      /\ UNCHANGED <<prefs, keys, sessions>>
      /\ \A v \in Users : username[v] # n
      BY DEF InsertUser, IsUsernameExists
<1>3. \A v \in Users : username'[v] = IF v = u THEN n ELSE username[v]
      BY <1>2 DEF AccountsInv, TablesOK
<1>4. username' = [v \in Users |-> username'[v]]
      BY <1>2 DEF AccountsInv, TablesOK
<1>5. TablesOK'
      BY <1>1, <1>2, <1>3, <1>4 DEF AccountsInv, TablesOK
<1>6. NoTwins'
      BY <1>2, <1>3 DEF AccountsInv, NoTwins
<1>7. TablesGrow /\ KeyAppearsBy(r) /\ SessionsAreUsable'
      BY <1>1, <1>2, <1>3 DEF AccountsInv, TablesGrow, KeyAppearsBy, SessionsAreUsable
<1> QED BY <1>1, <1>2, <1>3, <1>5, <1>6, <1>7 DEF WriteSafe, AccountsInv, TablesOK

\* The preferences of a new user are his own row.
LEMMA WritePreferencesSafe ==
    ASSUME AccountsInv, NEW r \in Requests, uid[r] \in Users, WritePreferences(r)
    PROVE  WriteSafe(r) /\ SessionsAreUsable' /\ keys' = keys /\ prefs'[uid[r]] # None
<1> DEFINE d == [c \in Columns |-> Default]
<1>1. d \in Prefs /\ d # None
      BY AccountsAssumption DEF Prefs
<1>2. prefs' = [prefs EXCEPT ![uid[r]] = d] /\ UNCHANGED <<username, password, keys, sessions>>
      BY DEF WritePreferences
<1> HIDE DEF d
<1>3. prefs' \in [Users -> Prefs \cup {None}] /\ prefs'[uid[r]] # None
      BY <1>1, <1>2 DEF AccountsInv, TablesOK
<1>4. \A u \in Users : prefs[u] # None => prefs'[u] # None
      BY <1>1, <1>2 DEF AccountsInv, TablesOK
<1> QED BY <1>2, <1>3, <1>4
        DEF WriteSafe, AccountsInv, TablesOK, NoTwins, TablesGrow, KeyAppearsBy, SessionsAreUsable

\* The key of a registration.
LEMMA WriteKeySafe ==
    ASSUME AccountsInv, NEW r \in Requests, uid[r] \in Users, username[uid[r]] # None,
           pc[r] = "insertKey", call[r].key \in Bundles, WriteKey(r)
    PROVE  WriteSafe(r) /\ SessionsAreUsable' /\ keys'[uid[r]] # None /\ prefs' = prefs
<1>1. keys' = [keys EXCEPT ![uid[r]] = call[r].key] /\ UNCHANGED <<username, password, prefs, sessions>>
      BY DEF WriteKey
<1>2. call[r].key # None
      BY AccountsAssumption
<1>3. keys' \in [Users -> Bundles \cup {None}]
      BY <1>1 DEF AccountsInv, TablesOK
<1>4. \A u \in Users : keys'[u] = IF u = uid[r] THEN call[r].key ELSE keys[u]
      BY <1>1 DEF AccountsInv, TablesOK
<1> QED BY <1>1, <1>2, <1>3, <1>4
        DEF WriteSafe, AccountsInv, TablesOK, NoTwins, TablesGrow, KeyAppearsBy, SessionsAreUsable

\* A session is opened for a user who has preferences.
LEMMA WriteSessionSafe ==
    ASSUME AccountsInv, NEW r \in Requests, uid[r] \in Users, prefs[uid[r]] # None, WriteSession(r)
    PROVE  WriteSafe(r) /\ SessionsAreUsable' /\ keys' = keys /\ prefs' = prefs /\ uid[r] \in sessions'
BY DEF WriteSession, WriteSafe, AccountsInv, TablesOK, NoTwins, TablesGrow, KeyAppearsBy,
       SessionsAreUsable

\* An UPDATE neither adds a row nor removes one.
LEMMA WriteUpdateSafe ==
    ASSUME AccountsInv, NEW r \in Requests, uid[r] \in Users, call[r] \in Call,
           call[r].op \in {"change", "changeKey"}, WriteUpdate(r)
    PROVE  WriteSafe(r) /\ SessionsAreUsable'
<1>1. UNCHANGED <<username, password, sessions>>
      BY DEF WriteUpdate
<1>2. CASE call[r].op = "changeKey"
  <2>1. keys' = UpdatedKeys(r) /\ prefs' = prefs /\ call[r].key \in Bundles /\ call[r].key # None
        BY <1>2, CallFields, AccountsAssumption DEF WriteUpdate
  <2>2. \A u \in Users : keys'[u] = IF keys[u] # None /\ u = uid[r] THEN call[r].key ELSE keys[u]
        BY <2>1 DEF UpdatedKeys, AccountsInv, TablesOK
  <2>3. keys' \in [Users -> Bundles \cup {None}]
        BY <2>1 DEF UpdatedKeys, AccountsInv, TablesOK
  <2> QED BY <1>1, <2>1, <2>2, <2>3
          DEF WriteSafe, AccountsInv, TablesOK, NoTwins, TablesGrow, KeyAppearsBy, SessionsAreUsable
<1>3. CASE call[r].op = "change"
  <2> DEFINE p == [prefs[uid[r]] EXCEPT ![call[r].column] = call[r].value]
  <2>1. /\ prefs' = IF prefs[uid[r]] = None THEN prefs ELSE [prefs EXCEPT ![uid[r]] = p]
        /\ keys' = keys /\ call[r].column \in Columns /\ call[r].value \in Choices
        BY <1>3, CallFields DEF WriteUpdate, UpdatedPrefs
  <2>2. prefs[uid[r]] # None => p \in Prefs /\ p # None
        BY <2>1, AccountsAssumption DEF AccountsInv, TablesOK, Prefs
  <2> HIDE DEF p
  <2>3. prefs' \in [Users -> Prefs \cup {None}]
        BY <2>1, <2>2 DEF AccountsInv, TablesOK
  <2>4. \A u \in Users : prefs[u] # None => prefs'[u] # None
        BY <2>1, <2>2 DEF AccountsInv, TablesOK
  <2> QED BY <1>1, <2>1, <2>3, <2>4
          DEF WriteSafe, AccountsInv, TablesOK, NoTwins, TablesGrow, KeyAppearsBy, SessionsAreUsable
<1> QED BY <1>2, <1>3

-----------------------------------------------------------------------------
(* A step of one request *)

\* The locals of the other requests are theirs.
OthersStay(r) ==
    \A s \in Requests \ {r} :
        /\ pc'[s] = pc[s] /\ call'[s] = call[s] /\ uid'[s] = uid[s]
        /\ reply'[s] = reply[s] /\ answer'[s] = answer[s]

\* A request becomes a registration's owner of a user only when the user is new.
StaysDisjoint(r) ==
    pc'[r] \in Registering =>
        \/ pc[r] \in Registering /\ uid'[r] = uid[r]
        \/ uid'[r] \in Users /\ username[uid'[r]] = None

\* What a step of r must show, about r and the tables alone.
StepSafe(r) ==
    /\ WriteSafe(r) /\ SessionsAreUsable'
    /\ LocalsOK' /\ OthersStay(r)
    /\ CallInv(r)' /\ UserInv(r)'
    /\ StaysDisjoint(r)

\* What r writes leaves the users of the other requests as they need them.
LEMMA OthersKeep ==
    ASSUME AccountsInv, NEW r \in Requests, WriteSafe(r), OthersStay(r),
           NEW s \in Requests \ {r}
    PROVE  CallInv(s)' /\ UserInv(s)'
<1>1. /\ pc'[s] = pc[s] /\ call'[s] = call[s] /\ uid'[s] = uid[s]
      /\ reply'[s] = reply[s] /\ answer'[s] = answer[s]
      /\ CallInv(s) /\ UserInv(s) /\ s \in Requests
      BY DEF OthersStay, AccountsInv
<1>2. CallInv(s)'
      BY <1>1 DEF CallInv
<1>3. sessions \subseteq Users /\ TablesGrow
      BY DEF AccountsInv, TablesOK, WriteSafe
<1>4. pc[s] \in Registering => keys'[uid[s]] = None
      BY <1>1 DEF WriteSafe, KeyAppearsBy, AccountsInv, Disjoint, UserInv, Registering
<1>5. UserInv(s)'
      BY <1>1, <1>3, <1>4 DEF UserInv, TablesGrow, SignedIn, Registering
<1> QED BY <1>2, <1>5

\* So that is all a step of r must show.
LEMMA StepSuffices ==
    ASSUME AccountsInv, NEW r \in Requests, StepSafe(r)
    PROVE  AccountsInv'
<1>1. \A s \in Requests : CallInv(s)' /\ UserInv(s)'
      BY OthersKeep DEF StepSafe
<1>2. Disjoint'
  <2> SUFFICES ASSUME NEW s \in Requests, NEW t \in Requests, s # t,
                      pc'[s] \in Registering, pc'[t] \in Registering, uid'[s] = uid'[t]
               PROVE  FALSE
      BY DEF Disjoint
  <2>1. \A q \in Requests : q # r => pc'[q] = pc[q] /\ uid'[q] = uid[q]
        BY DEF StepSafe, OthersStay
  <2>2. \A q \in Requests : pc[q] \in Registering => username[uid[q]] # None
        BY DEF AccountsInv, UserInv
  <2>3. pc[s] \in Registering /\ pc[t] \in Registering => uid[s] # uid[t]
        BY DEF AccountsInv, Disjoint
  <2> QED BY <2>1, <2>2, <2>3 DEF StepSafe, StaysDisjoint
<1> QED BY <1>1, <1>2 DEF StepSafe, WriteSafe, AccountsInv

-----------------------------------------------------------------------------
(* The locals of a request *)

\* A request that goes on.
LEMMA GotoLocals ==
    ASSUME AccountsInv, NEW r \in Requests, NEW step \in Steps, Goto(r, step),
           UNCHANGED <<call, uid, reply, answer>>
    PROVE  LocalsOK' /\ OthersStay(r) /\ pc'[r] = step
BY DEF AccountsInv, LocalsOK, Goto, OthersStay

\* A request that ends.
LEMMA ReturnLocals ==
    ASSUME AccountsInv, NEW r \in Requests, Return(r, "error") \/ Return(r, "denied")
                                            \/ Return(r, "conflict") \/ Return(r, "ok"),
           UNCHANGED <<call, uid, answer>>
    PROVE  /\ LocalsOK' /\ OthersStay(r) /\ pc'[r] = "done"
           /\ \A how \in {"error", "denied", "conflict", "ok"} : Return(r, how) => reply'[r] = how
BY DEF AccountsInv, LocalsOK, Return, Goto, OthersStay, Steps

\* An end that is no success asks nothing of the tables.
LEMMA RefusalSafe ==
    ASSUME AccountsInv, NEW r \in Requests, pc[r] # "idle",
           Return(r, "error") \/ Return(r, "denied") \/ Return(r, "conflict"),
           UNCHANGED <<call, uid, answer>>,
           WriteSafe(r), SessionsAreUsable'
    PROVE  StepSafe(r)
<1>1. LocalsOK' /\ OthersStay(r) /\ pc'[r] = "done" /\ reply'[r] \in {"error", "denied", "conflict"}
      BY ReturnLocals
<1>2. CallInv(r)' /\ UserInv(r)'
      BY <1>1 DEF AccountsInv, CallInv, UserInv, SignedIn, Registering
<1> QED BY <1>1, <1>2 DEF StepSafe, StaysDisjoint, Registering

-----------------------------------------------------------------------------
(* The invariant holds at the start and is kept by each step of a request *)

LEMMA InitAccounts == Init => AccountsInv
<1> SUFFICES ASSUME Init PROVE AccountsInv
    OBVIOUS
<1>1. TablesOK /\ NoTwins /\ SessionsAreUsable
      BY DEF Init, TablesOK, NoTwins, SessionsAreUsable
<1>2. LocalsOK
      BY DEF Init, LocalsOK, Steps
<1>3. \A r \in Requests : CallInv(r) /\ UserInv(r)
      BY DEF Init, CallInv, UserInv, SignedIn, Registering
<1>4. Disjoint
      BY DEF Init, Disjoint, Registering
<1> QED BY <1>1, <1>2, <1>3, <1>4 DEF AccountsInv

\* A call of UserService is for a user with a session, who has preferences.
LEMMA BeginKeeps ==
    ASSUME AccountsInv, NEW r \in Requests, NEW c \in Call, Begin(r, c)
    PROVE  StepSafe(r)
<1> DEFINE step == CASE c.op \in SignIn -> "check" [] c.op = "info" -> "load" [] OTHER -> "update"
           user == IF c.op \in SignIn THEN None ELSE c.user
<1>1. /\ pc[r] = "idle"
      /\ pc' = [pc EXCEPT ![r] = step]
      /\ call' = [call EXCEPT ![r] = c] /\ uid' = [uid EXCEPT ![r] = user]
      /\ UNCHANGED <<tables, reply, answer>>
      BY DEF Begin, Goto
<1>2. /\ c.op \in {"register", "authorize", "changeKey", "change", "info"}
      /\ c.op \in SignIn => step = "check"
      /\ c.op = "info" => step = "load"
      /\ c.op \in {"changeKey", "change"} => step = "update"
      /\ c.op \notin SignIn => user \in Users
      /\ user \in Users \cup {None} /\ step \in Steps
      BY CallFields DEF SignIn, Steps
<1> HIDE DEF step, user
<1>3. /\ LocalsOK' /\ OthersStay(r)
      /\ pc'[r] = step /\ call'[r] = c /\ uid'[r] = user /\ reply'[r] = reply[r]
      BY <1>1, <1>2 DEF AccountsInv, LocalsOK, OthersStay
<1>4. pc[r] = "idle" /\ reply[r] # "ok"
      BY <1>1 DEF AccountsInv, CallInv
<1>5. CallInv(r)'
      BY <1>2, <1>3, <1>4 DEF CallInv, SignIn, Registering
<1>6. UserInv(r)'
      BY <1>2, <1>3, <1>4 DEF UserInv, SignIn, SignedIn, Registering
<1>7. WriteSafe(r) /\ SessionsAreUsable'
      BY <1>1, NoWrite
<1>8. pc'[r] \notin Registering
      BY <1>2, <1>3 DEF SignIn, Registering
<1> QED BY <1>3, <1>5, <1>6, <1>7, <1>8 DEF StepSafe, StaysDisjoint

LEMMA CheckKeeps ==
    ASSUME AccountsInv, NEW r \in Requests, Check(r)
    PROVE  StepSafe(r)
<1>1. /\ pc[r] = "check" /\ UNCHANGED <<tables, call, uid, answer>>
      /\ CallInv(r) /\ call[r].op \in SignIn /\ reply[r] # "ok"
      BY DEF Check, AccountsInv, CallInv
<1>2. WriteSafe(r) /\ SessionsAreUsable'
      BY <1>1, NoWrite
<1>3. CASE Return(r, "error") \/ Return(r, "conflict") \/ Return(r, "denied")
      BY <1>1, <1>2, <1>3, RefusalSafe
<1>4. CASE call[r].op = "register" /\ Goto(r, "insert") /\ UNCHANGED reply
  <2>1. LocalsOK' /\ OthersStay(r) /\ pc'[r] = "insert"
        BY <1>1, <1>4, GotoLocals DEF Steps
  <2>2. CallInv(r)' /\ UserInv(r)' /\ StaysDisjoint(r)
        BY <1>1, <1>4, <2>1 DEF CallInv, UserInv, SignedIn, SignIn, Registering, StaysDisjoint
  <2> QED BY <1>2, <2>1, <2>2 DEF StepSafe
<1>5. CASE call[r].op = "authorize" /\ Goto(r, "password") /\ UNCHANGED reply
  <2>1. LocalsOK' /\ OthersStay(r) /\ pc'[r] = "password"
        BY <1>1, <1>5, GotoLocals DEF Steps
  <2>2. CallInv(r)' /\ UserInv(r)' /\ StaysDisjoint(r)
        BY <1>1, <1>5, <2>1 DEF CallInv, UserInv, SignedIn, SignIn, Registering, StaysDisjoint
  <2> QED BY <1>2, <2>1, <2>2 DEF StepSafe
<1>6. \/ Return(r, "error") \/ Return(r, "conflict") \/ Return(r, "denied")
      \/ call[r].op = "register" /\ Goto(r, "insert") /\ UNCHANGED reply
      \/ call[r].op = "authorize" /\ Goto(r, "password") /\ UNCHANGED reply
      BY DEF Check
<1> QED BY <1>3, <1>4, <1>5, <1>6

\* The user a registration goes on with is the row it has just inserted.
LEMMA InsertKeeps ==
    ASSUME AccountsInv, NEW r \in Requests, Insert(r)
    PROVE  StepSafe(r)
<1>1. /\ pc[r] = "insert" /\ UNCHANGED <<call, answer>>
      /\ CallInv(r) /\ call[r] \in Call /\ call[r].op = "register" /\ reply[r] # "ok"
      BY DEF Insert, AccountsInv, CallInv
<1>2. CASE Return(r, "error") /\ UNCHANGED <<tables, uid>>
      BY <1>1, <1>2, NoWrite, RefusalSafe
<1>3. ASSUME NEW u \in Users, NEW n, InsertUser(r, u, n),
             uid' = [uid EXCEPT ![r] = u], Goto(r, "initPreferences"), UNCHANGED reply
      PROVE  StepSafe(r)
  <2>1. /\ WriteSafe(r) /\ SessionsAreUsable'
        /\ username[u] = None /\ username'[u] # None /\ keys'[u] = None
        BY <1>3, InsertUserSafe
  <2>2. /\ LocalsOK' /\ OthersStay(r)
        /\ pc'[r] = "initPreferences" /\ uid'[r] = u
        BY <1>1, <1>3 DEF AccountsInv, LocalsOK, Goto, OthersStay, Steps
  <2>3. CallInv(r)' /\ UserInv(r)' /\ StaysDisjoint(r)
        BY <1>1, <1>3, <2>1, <2>2
           DEF CallInv, UserInv, SignedIn, SignIn, Registering, StaysDisjoint
  <2> QED BY <2>1, <2>2, <2>3 DEF StepSafe
<1> QED BY <1>2, <1>3 DEF Insert

LEMMA InitPreferencesKeeps ==
    ASSUME AccountsInv, NEW r \in Requests, InitPreferences(r)
    PROVE  StepSafe(r)
<1>1. /\ pc[r] = "initPreferences" /\ WritePreferences(r) /\ Goto(r, "insertKey")
      /\ UNCHANGED <<call, uid, reply, answer>>
      BY DEF InitPreferences, Then
<1>2. /\ uid[r] \in Users /\ username[uid[r]] # None /\ keys[uid[r]] = None /\ reply[r] # "ok"
      /\ call[r] \in Call /\ call[r].op = "register"
      BY <1>1 DEF AccountsInv, CallInv, UserInv, Registering
<1>3. /\ WriteSafe(r) /\ SessionsAreUsable' /\ keys' = keys /\ prefs'[uid[r]] # None
      /\ username' = username
      BY <1>1, <1>2, WritePreferencesSafe DEF WritePreferences
<1>4. LocalsOK' /\ OthersStay(r) /\ pc'[r] = "insertKey"
      BY <1>1, GotoLocals DEF Steps
<1>5. CallInv(r)' /\ UserInv(r)' /\ StaysDisjoint(r)
      BY <1>1, <1>2, <1>3, <1>4 DEF CallInv, UserInv, SignedIn, SignIn, Registering, StaysDisjoint
<1> QED BY <1>3, <1>4, <1>5 DEF StepSafe

LEMMA CreateUserKeyKeeps ==
    ASSUME AccountsInv, NEW r \in Requests, CreateUserKey(r)
    PROVE  StepSafe(r)
<1>1. /\ pc[r] = "insertKey" /\ WriteKey(r) /\ Goto(r, "open")
      /\ UNCHANGED <<call, uid, reply, answer>>
      BY DEF CreateUserKey, Then
<1>2. /\ uid[r] \in Users /\ username[uid[r]] # None /\ prefs[uid[r]] # None /\ reply[r] # "ok"
      /\ call[r] \in Call /\ call[r].op = "register"
      BY <1>1 DEF AccountsInv, CallInv, UserInv, Registering
<1>3. WriteSafe(r) /\ SessionsAreUsable' /\ keys'[uid[r]] # None /\ prefs' = prefs
      BY <1>1, <1>2, CallFields, WriteKeySafe
<1>4. LocalsOK' /\ OthersStay(r) /\ pc'[r] = "open"
      BY <1>1, GotoLocals DEF Steps
<1>5. CallInv(r)' /\ UserInv(r)' /\ StaysDisjoint(r)
      BY <1>1, <1>2, <1>3, <1>4 DEF CallInv, UserInv, SignedIn, SignIn, Registering, StaysDisjoint
<1> QED BY <1>3, <1>4, <1>5 DEF StepSafe

LEMMA OpenSessionKeeps ==
    ASSUME AccountsInv, NEW r \in Requests, OpenSession(r)
    PROVE  StepSafe(r)
<1>1. /\ pc[r] = "open" /\ WriteSession(r) /\ Goto(r, "load")
      /\ UNCHANGED <<call, uid, reply, answer>>
      BY DEF OpenSession, Then
<1>2. /\ uid[r] \in Users /\ prefs[uid[r]] # None /\ reply[r] # "ok"
      /\ call[r] \in Call /\ call[r].op \in SignIn
      /\ call[r].op = "register" => keys[uid[r]] # None
      BY <1>1 DEF AccountsInv, CallInv, UserInv, Registering
<1>3. /\ WriteSafe(r) /\ SessionsAreUsable' /\ keys' = keys /\ prefs' = prefs
      /\ uid[r] \in sessions'
      BY <1>1, <1>2, WriteSessionSafe
<1>4. LocalsOK' /\ OthersStay(r) /\ pc'[r] = "load"
      BY <1>1, GotoLocals DEF Steps
<1>5. CallInv(r)' /\ UserInv(r)' /\ StaysDisjoint(r)
      BY <1>1, <1>2, <1>3, <1>4 DEF CallInv, UserInv, SignedIn, SignIn, Registering, StaysDisjoint
<1> QED BY <1>3, <1>4, <1>5 DEF StepSafe

LEMMA ComparePasswordKeeps ==
    ASSUME AccountsInv, NEW r \in Requests, ComparePassword(r)
    PROVE  StepSafe(r)
<1>1. /\ pc[r] = "password" /\ UNCHANGED <<tables, call, answer>>
      /\ CallInv(r) /\ call[r].op = "authorize" /\ reply[r] # "ok"
      BY DEF ComparePassword, AccountsInv, CallInv
<1>2. WriteSafe(r) /\ SessionsAreUsable'
      BY <1>1, NoWrite
<1>3. CASE (Return(r, "error") \/ Return(r, "denied")) /\ UNCHANGED uid
      BY <1>1, <1>2, <1>3, RefusalSafe
<1>4. ASSUME NEW u \in Users, Goto(r, "lookup"), uid' = [uid EXCEPT ![r] = u], UNCHANGED reply
      PROVE  StepSafe(r)
  <2>1. /\ LocalsOK' /\ OthersStay(r)
        /\ pc'[r] = "lookup" /\ uid'[r] = u
        BY <1>1, <1>4 DEF AccountsInv, LocalsOK, Goto, OthersStay, Steps
  <2>2. CallInv(r)' /\ UserInv(r)' /\ StaysDisjoint(r)
        BY <1>1, <1>4, <2>1 DEF CallInv, UserInv, SignedIn, SignIn, Registering, StaysDisjoint
  <2> QED BY <1>2, <2>1, <2>2 DEF StepSafe
<1> QED BY <1>3, <1>4 DEF ComparePassword

\* Only a user with preferences goes on to a session.
LEMMA LookupKeeps ==
    ASSUME AccountsInv, NEW r \in Requests, Lookup(r)
    PROVE  StepSafe(r)
<1>1. /\ pc[r] = "lookup" /\ UNCHANGED <<tables, call, uid, answer>>
      /\ CallInv(r) /\ call[r].op = "authorize" /\ reply[r] # "ok" /\ uid[r] \in Users
      BY DEF Lookup, AccountsInv, CallInv, UserInv
<1>2. WriteSafe(r) /\ SessionsAreUsable'
      BY <1>1, NoWrite
<1>3. CASE Return(r, "error")
      BY <1>1, <1>2, <1>3, RefusalSafe
<1>4. CASE Complete(r) /\ Goto(r, "open") /\ UNCHANGED reply
  <2>1. LocalsOK' /\ OthersStay(r) /\ pc'[r] = "open"
        BY <1>1, <1>4, GotoLocals DEF Steps
  <2>2. prefs'[uid'[r]] # None
        BY <1>1, <1>4 DEF Complete, tables
  <2>3. CallInv(r)' /\ UserInv(r)' /\ StaysDisjoint(r)
        BY <1>1, <1>4, <2>1, <2>2
           DEF CallInv, UserInv, SignedIn, SignIn, Registering, StaysDisjoint
  <2> QED BY <1>2, <2>1, <2>3 DEF StepSafe
<1> QED BY <1>3, <1>4 DEF Lookup

LEMMA UpdateKeeps ==
    ASSUME AccountsInv, NEW r \in Requests, Update(r)
    PROVE  StepSafe(r)
<1>1. /\ pc[r] = "update" /\ WriteUpdate(r) /\ Return(r, "ok") /\ UNCHANGED <<call, uid, answer>>
      /\ call[r] \in Call /\ call[r].op \in {"change", "changeKey"} /\ uid[r] \in Users
      BY DEF Update, AccountsInv, CallInv, UserInv
<1>2. WriteSafe(r) /\ SessionsAreUsable'
      BY <1>1, WriteUpdateSafe
<1>3. LocalsOK' /\ OthersStay(r) /\ pc'[r] = "done" /\ reply'[r] = "ok"
      BY <1>1, ReturnLocals
<1>4. CallInv(r)' /\ UserInv(r)' /\ StaysDisjoint(r)
      BY <1>1, <1>3 DEF CallInv, UserInv, SignedIn, SignIn, Registering, StaysDisjoint
<1> QED BY <1>2, <1>3, <1>4 DEF StepSafe

LEMMA LoadKeeps ==
    ASSUME AccountsInv, NEW r \in Requests, Load(r)
    PROVE  StepSafe(r)
<1>1. /\ pc[r] = "load" /\ UNCHANGED <<tables, call, uid, answer>>
      /\ CallInv(r) /\ UserInv(r) /\ reply[r] # "ok"
      BY DEF Load, AccountsInv, CallInv
<1>2. WriteSafe(r) /\ SessionsAreUsable'
      BY <1>1, NoWrite
<1>3. CASE Return(r, "error")
      BY <1>1, <1>2, <1>3, RefusalSafe
<1>4. CASE Complete(r) /\ Goto(r, "loadKey") /\ UNCHANGED reply
  <2>1. LocalsOK' /\ OthersStay(r) /\ pc'[r] = "loadKey"
        BY <1>1, <1>4, GotoLocals DEF Steps
  <2>2. UNCHANGED <<prefs, keys, sessions>> /\ prefs[uid[r]] # None
        BY <1>1, <1>4 DEF Complete, tables
  <2>3. CallInv(r)' /\ StaysDisjoint(r)
        BY <1>1, <1>4, <2>1 DEF CallInv, Registering, StaysDisjoint
  <2>4. UserInv(r)'
        BY <1>1, <1>4, <2>1, <2>2 DEF UserInv, SignedIn, Registering
  <2> QED BY <1>2, <2>1, <2>3, <2>4 DEF StepSafe
<1> QED BY <1>3, <1>4 DEF Load

\* The answer carries the key the table has now.
LEMMA LoadKeyKeeps ==
    ASSUME AccountsInv, NEW r \in Requests, LoadKey(r)
    PROVE  StepSafe(r)
<1> DEFINE a == [name |-> username[uid[r]], prefs |-> seen[r], key |-> keys[uid[r]]]
<1>1. /\ pc[r] = "loadKey" /\ Return(r, "ok") /\ UNCHANGED <<tables, call, uid>>
      /\ answer' = [answer EXCEPT ![r] = a]
      BY DEF LoadKey
<1>2. a.key = keys[uid[r]]
    OBVIOUS
<1> HIDE DEF a
<1>3. WriteSafe(r) /\ SessionsAreUsable'
      BY <1>1, NoWrite
<1>4. /\ LocalsOK' /\ OthersStay(r)
      /\ pc'[r] = "done" /\ answer'[r] = a
      BY <1>1 DEF AccountsInv, LocalsOK, Return, Goto, OthersStay, Steps
<1>5. CallInv(r) /\ UserInv(r)
      BY DEF AccountsInv
<1>6. CallInv(r)' /\ StaysDisjoint(r)
      BY <1>1, <1>4, <1>5 DEF CallInv, Registering, StaysDisjoint
<1>7. UNCHANGED <<prefs, keys, sessions>>
      BY <1>1 DEF tables
<1>8. UserInv(r)'
      BY <1>1, <1>2, <1>4, <1>5, <1>7 DEF UserInv, SignedIn, SignIn, Registering
<1> QED BY <1>3, <1>4, <1>6, <1>8 DEF StepSafe

LEMMA EndKeeps ==
    ASSUME AccountsInv, NEW r \in Requests, End(r)
    PROVE  StepSafe(r)
<1>1. WriteSafe(r) /\ SessionsAreUsable'
      BY NoWrite DEF End
<1>2. /\ LocalsOK' /\ OthersStay(r)
      /\ pc'[r] = "idle" /\ reply'[r] = "none"
      BY DEF End, AccountsInv, LocalsOK, Goto, OthersStay, Steps
<1>3. CallInv(r)' /\ UserInv(r)' /\ StaysDisjoint(r)
      BY <1>2 DEF CallInv, UserInv, SignedIn, SignIn, Registering, StaysDisjoint
<1> QED BY <1>1, <1>2, <1>3 DEF StepSafe

\* A write that is reported as failed is one of the writes above.
LEMMA StatementFailsKeeps ==
    ASSUME AccountsInv, NEW r \in Requests, StatementFails(r)
    PROVE  StepSafe(r)
<1>1. pc[r] # "idle" /\ Return(r, "error") /\ UNCHANGED <<call, uid, answer>>
      BY DEF StatementFails
<1>2. CallInv(r) /\ UserInv(r) /\ call[r] \in Call
      BY <1>1 DEF AccountsInv, CallInv
<1>3. SUFFICES WriteSafe(r) /\ SessionsAreUsable'
      BY <1>1, RefusalSafe
<1>4. CASE UNCHANGED tables
      BY <1>4, NoWrite
<1>5. ASSUME NEW u \in Users, NEW n, InsertUser(r, u, n)
      PROVE  WriteSafe(r) /\ SessionsAreUsable'
      BY <1>5, InsertUserSafe
<1>6. CASE pc[r] = "initPreferences" /\ WritePreferences(r)
      BY <1>2, <1>6, WritePreferencesSafe DEF UserInv, Registering
<1>7. CASE pc[r] = "insertKey" /\ WriteKey(r)
  <2>1. uid[r] \in Users /\ username[uid[r]] # None /\ call[r].op = "register"
        BY <1>2, <1>7 DEF UserInv, CallInv, Registering
  <2> QED BY <1>2, <1>7, <2>1, CallFields, WriteKeySafe
<1>8. CASE pc[r] = "open" /\ WriteSession(r)
      BY <1>2, <1>8, WriteSessionSafe DEF UserInv
<1>9. CASE pc[r] = "update" /\ WriteUpdate(r)
  <2>1. uid[r] \in Users /\ call[r].op \in {"change", "changeKey"}
        BY <1>2, <1>9 DEF UserInv, CallInv
  <2> QED BY <1>2, <1>9, <2>1, WriteUpdateSafe
<1> QED BY <1>4, <1>5, <1>6, <1>7, <1>8, <1>9 DEF StatementFails

\* After a restart no request is being handled, and the tables are as they were.
LEMMA CrashKeeps == AccountsInv /\ Crash => AccountsInv'
<1> SUFFICES ASSUME AccountsInv, Crash PROVE AccountsInv'
    OBVIOUS
<1>1. TablesOK' /\ NoTwins' /\ SessionsAreUsable'
      BY DEF AccountsInv, Crash, tables, TablesOK, NoTwins, SessionsAreUsable
<1>2. LocalsOK'
      BY DEF Crash, LocalsOK, Steps
<1>3. \A r \in Requests : CallInv(r)' /\ UserInv(r)'
      BY DEF Crash, CallInv, UserInv, SignedIn, Registering
<1>4. Disjoint'
      BY DEF Crash, Disjoint, Registering
<1> QED BY <1>1, <1>2, <1>3, <1>4 DEF AccountsInv

LEMMA StutterKeeps == AccountsInv /\ UNCHANGED vars => AccountsInv'
<1> SUFFICES ASSUME AccountsInv, UNCHANGED vars PROVE AccountsInv'
    OBVIOUS
<1>1. UNCHANGED <<username, prefs, keys, sessions, pc, call, uid, reply, answer>>
      BY DEF vars, tables
<1>2. TablesOK' /\ NoTwins' /\ SessionsAreUsable'
      BY <1>1 DEF AccountsInv, TablesOK, NoTwins, SessionsAreUsable
<1>3. LocalsOK'
      BY <1>1 DEF AccountsInv, LocalsOK
<1>4. \A r \in Requests : CallInv(r) /\ UserInv(r)
      BY DEF AccountsInv
<1>5. \A r \in Requests : CallInv(r)' /\ UserInv(r)'
      BY <1>1, <1>4 DEF CallInv, UserInv, SignedIn
<1>6. Disjoint'
      BY <1>1 DEF AccountsInv, Disjoint
<1> QED BY <1>2, <1>3, <1>5, <1>6 DEF AccountsInv

-----------------------------------------------------------------------------
(* The theorems *)

\* Whatever requests race, fail or die, the accounts keep their invariant.
THEOREM AccountsInvariant == Spec => []AccountsInv
<1>1. Init => AccountsInv
      BY InitAccounts
<1>2. AccountsInv /\ [Next]_vars => AccountsInv'
  <2> SUFFICES ASSUME AccountsInv, [Next]_vars PROVE AccountsInv'
      OBVIOUS
  <2>1. ASSUME NEW r \in Requests, NEW c \in Call, Begin(r, c) PROVE AccountsInv'
        BY <2>1, BeginKeeps, StepSuffices
  <2>2. ASSUME NEW r \in Requests, Handle(r) PROVE AccountsInv'
    <3>1. StepSafe(r)
          BY <2>2, CheckKeeps, InsertKeeps, InitPreferencesKeeps, CreateUserKeyKeeps,
             OpenSessionKeeps, ComparePasswordKeeps, LookupKeeps, UpdateKeeps, LoadKeeps,
             LoadKeyKeeps, EndKeeps DEF Handle
    <3> QED BY <3>1, StepSuffices
  <2>3. ASSUME NEW r \in Requests, StatementFails(r) PROVE AccountsInv'
        BY <2>3, StatementFailsKeeps, StepSuffices
  <2>4. CASE Crash
        BY <2>4, CrashKeeps
  <2>5. CASE UNCHANGED vars
        BY <2>5, StutterKeeps
  <2> QED BY <2>1, <2>2, <2>3, <2>4, <2>5 DEF Next
<1> QED BY <1>1, <1>2, PTL DEF Spec

\* Registrations that race, or whose names normalise to the same one, never
\* make two accounts of one name (users_username_idx, Repository.Create).
THEOREM NamesAreUnique == Spec => []NoTwins
<1>1. AccountsInv => NoTwins
      BY DEF AccountsInv
<1> QED BY <1>1, AccountsInvariant, PTL

\* Whoever has a session has preferences, so his RPCs can load him, whichever
\* of the statements of his registration failed (Service.Register, GetByUsername).
THEOREM SessionsStayUsable == Spec => []SessionsAreUsable
<1>1. AccountsInv => SessionsAreUsable
      BY DEF AccountsInv
<1> QED BY <1>1, AccountsInvariant, PTL

\* A registration that is reported as done left preferences, a key and a session
\* behind, and its answer carries a key (Service.Register, compileUser).
THEOREM RegistrationsAreWhole == Spec => []RegistrationIsWhole
<1>1. AccountsInv => RegistrationIsWhole
      BY DEF AccountsInv, UserInv, RegistrationIsWhole
<1> QED BY <1>1, AccountsInvariant, PTL

-----------------------------------------------------------------------------
(* Whose key a step writes *)

LEMMA NoKeyWritten ==
    ASSUME UNCHANGED keys
    PROVE  KeyWrittenByOwner
BY DEF KeyWrittenByOwner

\* The registration that writes a key is the only one of a user without any.
LEMMA WriteKeyOwned ==
    ASSUME AccountsInv, NEW r \in Requests, pc[r] = "insertKey", WriteKey(r)
    PROVE  KeyWrittenByOwner
<1>1. uid[r] \in Users /\ keys[uid[r]] = None /\ call[r].op = "register"
      BY DEF AccountsInv, UserInv, CallInv, Registering
<1>2. \A u \in Users : keys'[u] = IF u = uid[r] THEN call[r].key ELSE keys[u]
      BY <1>1 DEF WriteKey, AccountsInv, TablesOK
<1> QED BY <1>1, <1>2 DEF KeyWrittenByOwner

\* ChangeKey writes the key of its own user, where there is one.
LEMMA WriteUpdateOwned ==
    ASSUME AccountsInv, NEW r \in Requests, pc[r] = "update", WriteUpdate(r)
    PROVE  KeyWrittenByOwner
<1>1. CASE call[r].op # "changeKey"
      BY <1>1, NoKeyWritten DEF WriteUpdate
<1>2. CASE call[r].op = "changeKey"
  <2>1. \A u \in Users : keys'[u] = IF keys[u] # None /\ u = uid[r] THEN call[r].key ELSE keys[u]
        BY <1>2 DEF WriteUpdate, UpdatedKeys, AccountsInv, TablesOK
  <2> QED BY <1>2, <2>1 DEF KeyWrittenByOwner
<1> QED BY <1>1, <1>2

LEMMA StepOwned ==
    ASSUME AccountsInv, NEW r \in Requests, Handle(r) \/ StatementFails(r)
    PROVE  KeyWrittenByOwner
<1>1. \/ UNCHANGED keys
      \/ pc[r] = "insertKey" /\ WriteKey(r)
      \/ pc[r] = "update" /\ WriteUpdate(r)
  <2>1. CASE Handle(r)
        BY <2>1 DEF Handle, tables, Check, Insert, InsertUser, InitPreferences, WritePreferences,
           CreateUserKey, OpenSession, WriteSession, ComparePassword, Lookup, Update, Load, LoadKey,
           End
  <2>2. CASE StatementFails(r)
        BY <2>2 DEF StatementFails, tables, InsertUser, WritePreferences, WriteSession
  <2> QED BY <2>1, <2>2
<1> QED BY <1>1, NoKeyWritten, WriteKeyOwned, WriteUpdateOwned

\* The wrapped key of a user is written by his own registration once and by his
\* own ChangeKey from then on; no race and no failure touches it otherwise
\* (createUserKey, ChangeKey).
THEOREM KeysChangeRightfully == Spec => KeysChangeByOwner
<1>1. AccountsInv /\ [Next]_vars => [KeyWrittenByOwner]_vars
  <2> SUFFICES ASSUME AccountsInv, Next PROVE KeyWrittenByOwner
      OBVIOUS
  <2>1. ASSUME NEW r \in Requests, NEW c \in Call, Begin(r, c) PROVE KeyWrittenByOwner
        BY <2>1, NoKeyWritten DEF Begin, tables
  <2>2. ASSUME NEW r \in Requests, Handle(r) \/ StatementFails(r) PROVE KeyWrittenByOwner
        BY <2>2, StepOwned
  <2>3. CASE Crash
        BY <2>3, NoKeyWritten DEF Crash, tables
  <2> QED BY <2>1, <2>2, <2>3 DEF Next
<1> QED BY <1>1, AccountsInvariant, PTL DEF Spec, KeysChangeByOwner

-----------------------------------------------------------------------------
(* The names that are stored *)

\* A set of natural numbers has a least one.
LEMMA LeastNumber ==
    ASSUME NEW S \in SUBSET Nat, S # {}
    PROVE  \E n \in S : \A m \in S : n <= m
<1>1. IsWellFoundedOn(OpToRel(<, Nat), Nat)
      BY NatLessThanWellFounded
<1>2. PICK n \in S : \A m \in S : ~(<<m, n>> \in OpToRel(<, Nat))
      BY <1>1, WFMin
<1>3. \A m \in S : ~(m < n)
      BY <1>2 DEF OpToRel
<1> QED BY <1>3

\* What the loop of sanitizeUsername has kept of the first k characters.
KeptOf(n, k, kept) ==
    kept = [i \in 0..k |-> IF i = 0 THEN <<>>
                           ELSE IF n[i] \in Allowed THEN Append(kept[i - 1], n[i])
                           ELSE kept[i - 1]]

\* Another character can always be looked at.
LEMMA KeepOneMore ==
    ASSUME NEW n, NEW k \in Nat, NEW kept, KeptOf(n, k, kept)
    PROVE  \E more : KeptOf(n, k + 1, more)
<1> DEFINE last == IF n[k + 1] \in Allowed THEN Append(kept[k], n[k + 1]) ELSE kept[k]
           more == [i \in 0..k + 1 |-> IF i = k + 1 THEN last ELSE kept[i]]
           next(i) == IF i = 0 THEN <<>>
                      ELSE IF n[i] \in Allowed THEN Append(more[i - 1], n[i])
                      ELSE more[i - 1]
<1>1. \A i \in 0..k : more[i] = kept[i]
      OBVIOUS
<1>2. more[k + 1] = last
      OBVIOUS
<1>3. \A i \in 0..k : kept[i] = IF i = 0 THEN <<>>
                                ELSE IF n[i] \in Allowed THEN Append(kept[i - 1], n[i])
                                ELSE kept[i - 1]
      BY DEF KeptOf
<1>4. \A i \in 0..k + 1 : more[i] = next(i)
  <2> SUFFICES ASSUME NEW i \in 0..k + 1 PROVE more[i] = next(i)
      OBVIOUS
  <2>1. CASE i = 0
        BY <1>1, <1>3, <2>1
  <2>2. CASE i \in 1..k
    <3>1. i \in 0..k /\ i - 1 \in 0..k /\ i # 0
          BY <2>2
    <3> QED BY <1>1, <1>3, <3>1
  <2>3. CASE i = k + 1
    <3>1. k \in 0..k /\ i - 1 = k /\ i # 0
          BY <2>3
    <3> QED BY <1>1, <1>2, <2>3, <3>1
  <2> QED BY <2>1, <2>2, <2>3
<1>5. more = [i \in 0..k + 1 |-> more[i]]
      OBVIOUS
<1> HIDE DEF more, last
<1>6. more = [i \in 0..k + 1 |-> next(i)]
      BY <1>4, <1>5
<1>7. KeptOf(n, k + 1, more)
      BY <1>6 DEF KeptOf
<1> QED BY <1>7

\* So the loop comes to the end of every name.
LEMMA KeptExists ==
    ASSUME NEW n, NEW k \in Nat
    PROVE  \E kept : KeptOf(n, k, kept)
<1> DEFINE Bad == {i \in Nat : ~ \E kept : KeptOf(n, i, kept)}
<1> SUFFICES ASSUME Bad # {} PROVE FALSE
    OBVIOUS
<1>1. PICK b \in Bad : \A m \in Bad : b <= m
      BY LeastNumber
<1>2. CASE b = 0
  <2> DEFINE none == [i \in 0..0 |-> <<>>]
  <2>1. KeptOf(n, 0, none)
        BY DEF KeptOf
  <2> QED BY <1>1, <1>2, <2>1
<1>3. CASE b # 0
  <2>1. b - 1 \in Nat /\ b - 1 \notin Bad /\ (b - 1) + 1 = b
        BY <1>1, <1>3
  <2>2. PICK kept : KeptOf(n, b - 1, kept)
        BY <2>1
  <2>3. \E more : KeptOf(n, b, more)
        BY <2>1, <2>2, KeepOneMore
  <2> QED BY <1>1, <2>3
<1> QED BY <1>2, <1>3

\* Only allowed characters are kept.
LEMMA KeptIsAllowed ==
    ASSUME NEW n, NEW k \in Nat, NEW kept, KeptOf(n, k, kept)
    PROVE  kept[k] \in Seq(Allowed)
<1> DEFINE Bad == {i \in 0..k : kept[i] \notin Seq(Allowed)}
<1> SUFFICES ASSUME Bad # {} PROVE FALSE
    OBVIOUS
<1>1. \A i \in 0..k : kept[i] = IF i = 0 THEN <<>>
                                ELSE IF n[i] \in Allowed THEN Append(kept[i - 1], n[i])
                                ELSE kept[i - 1]
      BY DEF KeptOf
<1>2. Bad \in SUBSET Nat
      OBVIOUS
<1>3. PICK b \in Bad : \A m \in Bad : b <= m
      BY <1>2, LeastNumber
<1>4. b \in 0..k /\ kept[b] \notin Seq(Allowed)
      BY <1>3
<1>5. b # 0
  <2>1. <<>> \in Seq(Allowed)
        OBVIOUS
  <2>2. kept[0] = <<>>
        BY <1>1
  <2> QED BY <1>4, <2>1, <2>2
<1>6. b - 1 \in 0..k /\ ~(b <= b - 1)
      BY <1>4, <1>5
<1>7. kept[b - 1] \in Seq(Allowed)
      BY <1>3, <1>6
<1>8. kept[b] \in {Append(kept[b - 1], n[b]), kept[b - 1]}
      /\ (kept[b] = kept[b - 1] \/ n[b] \in Allowed)
      BY <1>1, <1>4, <1>5
<1>9. n[b] \in Allowed /\ kept[b] = Append(kept[b - 1], n[b])
      BY <1>4, <1>7, <1>8
<1>10. \A s \in Seq(Allowed), c \in Allowed : Append(s, c) \in Seq(Allowed)
      OBVIOUS
<1> QED BY <1>4, <1>7, <1>9, <1>10

LEMMA SanitizeIsAllowed ==
    ASSUME NEW n \in Names
    PROVE  Sanitize(n) \in Seq(Allowed)
<1> DEFINE kept == CHOOSE f : KeptOf(n, Len(n), f)
<1>1. Len(n) \in Nat
      BY DEF Names
<1>2. KeptOf(n, Len(n), kept)
      BY <1>1, KeptExists
<1>3. Sanitize(n) = kept[Len(n)]
      BY DEF Sanitize, KeptOf
<1> QED BY <1>1, <1>2, <1>3, KeptIsAllowed

LEMMA SeqAsFunction ==
    ASSUME NEW S, NEW s \in Seq(S)
    PROVE  s \in [1..Len(s) -> S]
OBVIOUS

\* The names that Normalize makes, cut or generated, are those that TypeOK says
\* can be stored.
LEMMA NormalizeIsStored ==
    ASSUME NEW n \in Names
    PROVE  Normalize(n) \subseteq StoredNames
<1> DEFINE s == Sanitize(n)
<1>1. s \in Seq(Allowed)
      BY SanitizeIsAllowed
<1> HIDE DEF s
<1>2. Len(s) \in Nat /\ s \in [1..Len(s) -> Allowed]
      BY <1>1
<1>3. GenerateUsername \subseteq StoredNames
  <2> SUFFICES ASSUME NEW w \in GenerateUsername PROVE w \in StoredNames
      OBVIOUS
  <2>1. PICK k \in MinName..MaxName : w \in {<<"u">> \o t : t \in [1..k - 1 -> Allowed]}
        BY DEF GenerateUsername
  <2>2. PICK t \in [1..k - 1 -> Allowed] : w = <<"u">> \o t
        BY <2>1
  <2>3. k \in Nat /\ k >= 1
        BY LengthsAssumption
  <2>4. t \in Seq(Allowed) /\ Len(t) = k - 1 /\ <<"u">> \in Seq(Allowed) /\ Len(<<"u">>) = 1
        BY <2>3 DEF Allowed
  <2>5. w \in Seq(Allowed) /\ Len(w) = k
        BY <2>2, <2>3, <2>4
  <2>6. w \in [1..k -> Allowed]
        BY <2>5, SeqAsFunction
  <2> QED BY <2>6 DEF StoredNames
<1>4. CASE Len(s) < MinName
      BY <1>3, <1>4 DEF Normalize, s
<1>5. CASE Len(s) > MaxName
  <2> DEFINE cut == SubSeq(s, 1, MaxName)
  <2>1. MaxName \in Nat /\ MaxName <= Len(s)
        BY <1>2, <1>5, LengthsAssumption
  <2>5. cut \in Seq(Allowed) /\ Len(cut) = MaxName
        BY <1>1, <2>1
  <2>6. cut \in [1..MaxName -> Allowed]
        BY <2>5, SeqAsFunction
  <2>2. MaxName \in MinName..MaxName
        BY LengthsAssumption
  <2>3. cut \in StoredNames
        BY <2>2, <2>6 DEF StoredNames
  <2>4. Normalize(n) = {cut}
        BY <1>2, <1>5, LengthsAssumption DEF Normalize, s
  <2> QED BY <2>3, <2>4
<1>6. CASE Len(s) \in MinName..MaxName
  <2>1. s \in StoredNames
        BY <1>2, <1>6 DEF StoredNames
  <2>2. Normalize(n) = {s}
        BY <1>2, <1>6, LengthsAssumption DEF Normalize, s
  <2> QED BY <2>1, <2>2
<1> QED BY <1>2, <1>4, <1>5, <1>6, LengthsAssumption

\* Such a name is its own lower case, and long enough for GetByUsername.
LEMMA StoredName ==
    ASSUME NEW n \in StoredNames
    PROVE  Lower(n) = n /\ Len(n) > MinRaw /\ n \in Names /\ n # None
<1>1. PICK k \in MinName..MaxName : n \in [1..k -> Allowed]
      BY DEF StoredNames
<1>2. k \in Nat /\ k > MinRaw
      BY LengthsAssumption
<1>3. n \in Seq(Allowed) /\ Len(n) = k
      BY <1>1, <1>2
<1>4. n \in Names
      BY <1>1, <1>2 DEF Names, Chars
<1>5. \A i \in 1..k : n[i] # "A"
      BY <1>1 DEF Allowed
<1>6. Lower(n) = n
      BY <1>1, <1>3, <1>5 DEF Lower
<1> QED BY <1>2, <1>3, <1>4, <1>6, AccountsAssumption

-----------------------------------------------------------------------------
(* The invariant of a sign-in *)

\* Every row of preferences and every session belongs to a row of users.
RowsOK == \A u \in Users : prefs[u] # None \/ u \in sessions => username[u] # None

NamesOK ==
    /\ username \in [Users -> StoredNames \cup {None}]
    /\ password \in [Users -> Passwords \cup {None}]

AnswersOK ==
    /\ seen \in [Requests -> Prefs \cup {None}]
    /\ answer \in [Requests -> Answer \cup {None}]
    /\ faults \in 0..MaxFaults

\* From the moment when a sign-in has its user, that user has the password it
\* came with; and whoever is loaded has a session, and with it a name.
PasswordInv(r) ==
    /\ pc[r] = "lookup" => username[uid[r]] # None
    /\ pc[r] \in {"lookup", "open", "load", "loadKey"} \cup Registering /\ call[r].op \in SignIn =>
          password[uid[r]] = call[r].password
    /\ pc[r] \in {"load", "loadKey"} => uid[r] \in sessions
    /\ pc[r] = "loadKey" => seen[r] \in Prefs
    /\ SignedIn(r) =>
          /\ uid[r] \in Users /\ username[uid[r]] # None
          /\ username[uid[r]] = answer[r].name
          /\ password[uid[r]] = call[r].password

SignInv == NamesOK /\ RowsOK /\ AnswersOK /\ \A r \in Requests : PasswordInv(r)

\* Names and passwords are given once, and no step changes them.
NamesStay ==
    \A u \in Users : username[u] # None => username'[u] = username[u] /\ password'[u] = password[u]

\* What a step of r may write: nothing, or the statement that it has come to.
Writes(r) ==
    \/ UNCHANGED tables
    \/ /\ pc[r] = "insert"
       /\ \E u \in Users, n \in Normalize(call[r].name) : InsertUser(r, u, n)
    \/ pc[r] = "initPreferences" /\ WritePreferences(r)
    \/ pc[r] = "insertKey" /\ WriteKey(r)
    \/ pc[r] = "open" /\ WriteSession(r)
    \/ pc[r] = "update" /\ WriteUpdate(r)

LEMMA SignInFields ==
    ASSUME NEW c \in Call, c.op \in SignIn
    PROVE  c.name \in Names /\ c.password \in Passwords
BY AccountsAssumption DEF Call, SignIn

\* A new name is one that Normalize makes, and the user that gets it had none.
LEMMA InsertUserSigns ==
    ASSUME AccountsInv, SignInv, NEW r \in Requests, pc[r] = "insert",
           NEW u \in Users, NEW n \in Normalize(call[r].name), InsertUser(r, u, n)
    PROVE  NamesOK' /\ RowsOK' /\ NamesStay
<1>1. call[r] \in Call /\ call[r].op \in SignIn
      BY DEF AccountsInv, CallInv
<1>2. n \in StoredNames /\ call[r].password \in Passwords
      BY <1>1, SignInFields, NormalizeIsStored
<1>3. /\ username' = [username EXCEPT ![u] = n]
      /\ password' = [password EXCEPT ![u] = call[r].password]
      /\ username[u] = None /\ UNCHANGED <<prefs, sessions>>
      BY DEF InsertUser
<1>4. NamesOK'
      BY <1>2, <1>3 DEF SignInv, NamesOK
<1>5. \A v \in Users : v # u => username'[v] = username[v] /\ password'[v] = password[v]
      BY <1>3 DEF SignInv, NamesOK
<1>6. RowsOK' /\ NamesStay
      BY <1>3, <1>5 DEF SignInv, RowsOK, NamesStay
<1> QED BY <1>4, <1>6

LEMMA WritesSign ==
    ASSUME AccountsInv, SignInv, NEW r \in Requests, Writes(r)
    PROVE  NamesOK' /\ RowsOK' /\ NamesStay
<1>1. ASSUME UNCHANGED <<username, password>>, RowsOK' PROVE NamesOK' /\ RowsOK' /\ NamesStay
      BY <1>1 DEF SignInv, NamesOK, NamesStay
<1>2. CASE UNCHANGED tables
      BY <1>1, <1>2 DEF tables, SignInv, RowsOK
<1>3. ASSUME pc[r] = "insert", NEW u \in Users, NEW n \in Normalize(call[r].name),
             InsertUser(r, u, n)
      PROVE  NamesOK' /\ RowsOK' /\ NamesStay
      BY <1>3, InsertUserSigns
<1>4. CASE pc[r] = "initPreferences" /\ WritePreferences(r)
  <2>1. username[uid[r]] # None
        BY <1>4 DEF AccountsInv, UserInv, Registering
  <2>2. \A u \in Users : prefs'[u] # None => prefs[u] # None \/ u = uid[r]
        BY <1>4 DEF WritePreferences, AccountsInv, TablesOK
  <2> QED BY <1>1, <1>4, <2>1, <2>2 DEF WritePreferences, SignInv, RowsOK
<1>5. CASE pc[r] = "insertKey" /\ WriteKey(r)
      BY <1>1, <1>5 DEF WriteKey, SignInv, RowsOK
<1>6. CASE pc[r] = "open" /\ WriteSession(r)
  <2>1. uid[r] \in Users /\ prefs[uid[r]] # None
        BY <1>6 DEF AccountsInv, UserInv
  <2> QED BY <1>1, <1>6, <2>1 DEF WriteSession, SignInv, RowsOK
<1>7. CASE pc[r] = "update" /\ WriteUpdate(r)
  <2>1. \A u \in Users : prefs'[u] # None => prefs[u] # None
        BY <1>7 DEF WriteUpdate, UpdatedPrefs, AccountsInv, TablesOK
  <2> QED BY <1>1, <1>7, <2>1 DEF WriteUpdate, SignInv, RowsOK
<1> QED BY <1>2, <1>3, <1>4, <1>5, <1>6, <1>7 DEF Writes

\* What a step of r must show about r alone.
SignSafe(r) ==
    /\ AnswersOK' /\ PasswordInv(r)'
    /\ \A s \in Requests \ {r} : seen'[s] = seen[s]

\* The names that the other requests rely on are still there.
LEMMA SignSuffices ==
    ASSUME AccountsInv, SignInv, NEW r \in Requests, StepSafe(r), Writes(r), SignSafe(r)
    PROVE  SignInv'
<1>1. NamesOK' /\ RowsOK' /\ NamesStay
      BY WritesSign
<1>2. sessions \subseteq sessions' /\ sessions \subseteq Users
      BY DEF StepSafe, WriteSafe, TablesGrow, AccountsInv, TablesOK
<1>3. ASSUME NEW s \in Requests, s # r PROVE PasswordInv(s)'
  <2>1. /\ pc'[s] = pc[s] /\ call'[s] = call[s] /\ uid'[s] = uid[s]
        /\ reply'[s] = reply[s] /\ answer'[s] = answer[s] /\ seen'[s] = seen[s]
        /\ PasswordInv(s) /\ UserInv(s)
        BY <1>3 DEF StepSafe, OthersStay, SignSafe, SignInv, AccountsInv
  <2>2. \A u \in Users : prefs[u] # None => username[u] # None
        BY DEF SignInv, RowsOK
  <2>3. pc[s] \in {"lookup", "open", "load", "loadKey"} \cup Registering =>
            uid[s] \in Users /\ username[uid[s]] # None
    <3>1. \A u \in sessions : username[u] # None
          BY <1>2 DEF SignInv, RowsOK
    <3> QED BY <1>2, <2>1, <2>2, <3>1 DEF PasswordInv, UserInv, Registering
  <2>4. \A u \in Users : username[u] # None =>
            username'[u] = username[u] /\ password'[u] = password[u]
        BY <1>1 DEF NamesStay
  <2> QED BY <1>2, <2>1, <2>3, <2>4 DEF PasswordInv, SignedIn
<1> QED BY <1>1, <1>3 DEF SignInv, SignSafe

\* An end that is no success.
LEMMA RefusalSigns ==
    ASSUME AccountsInv, SignInv, NEW r \in Requests, StepSafe(r),
           pc'[r] = "done", reply'[r] # "ok", UNCHANGED <<seen, answer>>, faults' \in 0..MaxFaults
    PROVE  SignSafe(r)
<1>1. AnswersOK'
      BY DEF SignInv, AnswersOK
<1>2. PasswordInv(r)'
      BY DEF PasswordInv, SignedIn, Registering
<1> QED BY <1>1, <1>2 DEF SignSafe

\* A step that asks nothing new of the account.
LEMMA GoesOnSigns ==
    ASSUME AccountsInv, SignInv, NEW r \in Requests,
           UNCHANGED <<seen, answer, faults>>, PasswordInv(r)'
    PROVE  SignSafe(r)
BY DEF SignInv, AnswersOK, SignSafe

LEMMA BeginSigns ==
    ASSUME AccountsInv, SignInv, NEW r \in Requests, NEW c \in Call, Begin(r, c)
    PROVE  SignInv'
<1>1. StepSafe(r) /\ Writes(r)
      BY BeginKeeps DEF Begin, Writes
<1>2. /\ pc' = [pc EXCEPT ![r] = CASE c.op \in SignIn -> "check" [] c.op = "info" -> "load"
                                    [] OTHER -> "update"]
      /\ uid' = [uid EXCEPT ![r] = IF c.op \in SignIn THEN None ELSE c.user]
      /\ call' = [call EXCEPT ![r] = c]
      /\ UNCHANGED <<tables, seen, reply, answer, faults>>
      /\ c.op \notin SignIn => c.user \in sessions
      /\ pc[r] = "idle"
      BY DEF Begin, Goto
<1>3. pc \in [Requests -> Steps] /\ uid \in [Requests -> Users \cup {None}]
      /\ call \in [Requests -> Call \cup {None}] /\ reply[r] # "ok"
      BY <1>2 DEF AccountsInv, LocalsOK, CallInv
<1>4. c.op \in {"register", "authorize", "changeKey", "change", "info"}
      BY CallFields
<1>5. /\ pc'[r] \in {"check", "load", "update"}
      /\ pc'[r] = "load" => c.op = "info" /\ uid'[r] = c.user
      /\ call'[r] = c
      BY <1>2, <1>3, <1>4 DEF SignIn
<1>6. PasswordInv(r)'
      BY <1>2, <1>3, <1>5 DEF PasswordInv, SignedIn, SignIn, Registering, tables
<1> QED BY <1>1, <1>2, <1>6, GoesOnSigns, SignSuffices

LEMMA CheckSigns ==
    ASSUME AccountsInv, SignInv, NEW r \in Requests, Check(r)
    PROVE  SignInv'
<1>1. StepSafe(r) /\ Writes(r) /\ UNCHANGED <<seen, answer, faults>>
      BY CheckKeeps DEF Check, Writes
<1>2. pc[r] = "check" /\ reply[r] # "ok" /\ pc \in [Requests -> Steps]
      BY DEF Check, AccountsInv, CallInv, LocalsOK
<1>3. pc'[r] \in {"insert", "password", "done"} /\ reply'[r] # "ok"
  <2>1. reply \in [Requests -> {"none", "ok", "conflict", "denied", "error"}]
        BY DEF AccountsInv, LocalsOK
  <2> QED BY <1>2, <2>1 DEF Check, Goto, Return
<1>4. PasswordInv(r)'
      BY <1>3 DEF PasswordInv, SignedIn, Registering
<1> QED BY <1>1, <1>4, GoesOnSigns, SignSuffices

LEMMA InsertSigns ==
    ASSUME AccountsInv, SignInv, NEW r \in Requests, Insert(r)
    PROVE  SignInv'
<1>1. StepSafe(r) /\ Writes(r) /\ UNCHANGED <<seen, answer, faults, call>>
      BY InsertKeeps DEF Insert, Writes
<1>2. /\ pc[r] = "insert" /\ reply[r] # "ok" /\ pc \in [Requests -> Steps]
      /\ uid \in [Requests -> Users \cup {None}]
      /\ reply \in [Requests -> {"none", "ok", "conflict", "denied", "error"}]
      BY DEF Insert, AccountsInv, CallInv, LocalsOK
<1>3. CASE Return(r, "error")
      BY <1>1, <1>2, <1>3, GoesOnSigns, SignSuffices
         DEF PasswordInv, SignedIn, Registering, Return, Goto
<1>4. ASSUME NEW u \in Users, NEW n, InsertUser(r, u, n),
             uid' = [uid EXCEPT ![r] = u], Goto(r, "initPreferences"), UNCHANGED reply
      PROVE  SignInv'
  <2>1. pc'[r] = "initPreferences" /\ uid'[r] = u /\ reply'[r] # "ok"
        BY <1>2, <1>4 DEF Goto
  <2>2. password'[u] = call[r].password
        BY <1>4 DEF InsertUser, SignInv, NamesOK
  <2>3. PasswordInv(r)'
        BY <1>1, <2>1, <2>2 DEF PasswordInv, SignedIn, Registering
  <2> QED BY <1>1, <2>3, GoesOnSigns, SignSuffices
<1> QED BY <1>3, <1>4 DEF Insert

\* The steps of a registration after its insertion, and those of a sign-in
\* after the comparison, leave the user and his password.
LEMMA WriteStepsSign ==
    ASSUME AccountsInv, SignInv, NEW r \in Requests,
           InitPreferences(r) \/ CreateUserKey(r) \/ OpenSession(r)
    PROVE  SignInv'
<1>1. StepSafe(r) /\ Writes(r) /\ UNCHANGED <<seen, answer, faults, call, uid, reply>>
      BY InitPreferencesKeeps, CreateUserKeyKeeps, OpenSessionKeeps
         DEF InitPreferences, CreateUserKey, OpenSession, Writes
<1>2. /\ pc[r] \in {"initPreferences", "insertKey", "open"} /\ reply[r] # "ok"
      /\ call[r].op \in SignIn
      BY DEF InitPreferences, CreateUserKey, OpenSession, AccountsInv, CallInv, Registering
<1>3. /\ UNCHANGED password
      /\ pc'[r] \in {"insertKey", "open", "load"}
      /\ pc'[r] = "load" => sessions' = sessions \cup {uid[r]}
  <2>1. pc \in [Requests -> Steps]
        BY DEF AccountsInv, LocalsOK
  <2> QED BY <2>1
          DEF InitPreferences, CreateUserKey, OpenSession, Goto, Then, WritePreferences, WriteKey,
              WriteSession
<1>4. PasswordInv(r)
      BY DEF SignInv
<1>5. PasswordInv(r)'
      BY <1>1, <1>2, <1>3, <1>4 DEF PasswordInv, SignedIn, Registering
<1> QED BY <1>1, <1>5, GoesOnSigns, SignSuffices

LEMMA ComparePasswordSigns ==
    ASSUME AccountsInv, SignInv, NEW r \in Requests, ComparePassword(r)
    PROVE  SignInv'
<1>1. StepSafe(r) /\ Writes(r) /\ UNCHANGED <<tables, seen, answer, faults, call>>
      BY ComparePasswordKeeps DEF ComparePassword, Writes
<1>2. /\ pc[r] = "password" /\ reply[r] # "ok" /\ pc \in [Requests -> Steps]
      /\ call[r] \in Call /\ call[r].op \in SignIn
      /\ uid \in [Requests -> Users \cup {None}]
      /\ reply \in [Requests -> {"none", "ok", "conflict", "denied", "error"}]
      BY DEF ComparePassword, AccountsInv, CallInv, LocalsOK
<1>3. CASE Return(r, "error") \/ Return(r, "denied")
  <2>1. pc'[r] = "done" /\ reply'[r] # "ok"
        BY <1>2, <1>3 DEF Return, Goto
  <2> QED BY <1>1, <2>1, GoesOnSigns, SignSuffices DEF PasswordInv, SignedIn, Registering
<1>4. ASSUME NEW u \in Users, username[u] = call[r].name, password[u] = call[r].password,
             Goto(r, "lookup"), uid' = [uid EXCEPT ![r] = u], UNCHANGED reply
      PROVE  SignInv'
  <2>1. pc'[r] = "lookup" /\ uid'[r] = u /\ reply'[r] # "ok"
        BY <1>2, <1>4 DEF Goto
  <2>2. username[u] # None
        BY <1>2, <1>4, SignInFields, AccountsAssumption
  <2>3. PasswordInv(r)'
        BY <1>1, <1>4, <2>1, <2>2 DEF PasswordInv, SignedIn, Registering, tables
  <2> QED BY <1>1, <2>3, GoesOnSigns, SignSuffices
<1> QED BY <1>3, <1>4 DEF ComparePassword

LEMMA LookupSigns ==
    ASSUME AccountsInv, SignInv, NEW r \in Requests, Lookup(r)
    PROVE  SignInv'
<1>1. StepSafe(r) /\ Writes(r) /\ UNCHANGED <<tables, seen, answer, faults, call, uid>>
      BY LookupKeeps DEF Lookup, Writes
<1>2. /\ pc[r] = "lookup" /\ reply[r] # "ok" /\ pc \in [Requests -> Steps]
      /\ reply \in [Requests -> {"none", "ok", "conflict", "denied", "error"}]
      BY DEF Lookup, AccountsInv, CallInv, LocalsOK
<1>3. pc'[r] \in {"open", "done"} /\ reply'[r] # "ok"
      BY <1>2 DEF Lookup, Return, Goto
<1>4. PasswordInv(r)
      BY DEF SignInv
<1>5. PasswordInv(r)'
      BY <1>1, <1>2, <1>3, <1>4 DEF PasswordInv, SignedIn, Registering, tables
<1> QED BY <1>1, <1>5, GoesOnSigns, SignSuffices

\* An update is no sign-in.
LEMMA UpdateSigns ==
    ASSUME AccountsInv, SignInv, NEW r \in Requests, Update(r)
    PROVE  SignInv'
<1>1. StepSafe(r) /\ Writes(r) /\ UNCHANGED <<seen, answer, faults, call>>
      BY UpdateKeeps DEF Update, Writes
<1>2. pc[r] = "update" /\ pc'[r] = "done" /\ call[r].op \in {"change", "changeKey"}
      BY DEF Update, Return, Goto, AccountsInv, CallInv, LocalsOK
<1>3. PasswordInv(r)'
      BY <1>1, <1>2 DEF PasswordInv, SignedIn, SignIn, Registering
<1> QED BY <1>1, <1>3, GoesOnSigns, SignSuffices

LEMMA LoadSigns ==
    ASSUME AccountsInv, SignInv, NEW r \in Requests, Load(r)
    PROVE  SignInv'
<1>1. StepSafe(r) /\ Writes(r) /\ UNCHANGED <<tables, answer, faults, call, uid>>
      BY LoadKeeps DEF Load, Writes
<1>2. /\ pc[r] = "load" /\ reply[r] # "ok" /\ pc \in [Requests -> Steps]
      /\ reply \in [Requests -> {"none", "ok", "conflict", "denied", "error"}]
      /\ uid[r] \in Users
      BY DEF Load, AccountsInv, CallInv, UserInv, LocalsOK
<1>3. CASE Return(r, "error") /\ UNCHANGED seen
  <2>1. pc'[r] = "done" /\ reply'[r] # "ok"
        BY <1>2, <1>3 DEF Return, Goto
  <2> QED BY <1>1, <1>3, <2>1, GoesOnSigns, SignSuffices DEF PasswordInv, SignedIn, Registering
<1>4. CASE /\ Complete(r) /\ seen' = [seen EXCEPT ![r] = prefs[uid[r]]]
           /\ Goto(r, "loadKey") /\ UNCHANGED reply
  <2>1. pc'[r] = "loadKey" /\ reply'[r] # "ok"
        BY <1>2, <1>4 DEF Goto
  <2>2. prefs[uid[r]] \in Prefs
        BY <1>2, <1>4 DEF Complete, AccountsInv, TablesOK
  <2>3. AnswersOK' /\ seen'[r] \in Prefs /\ \A s \in Requests \ {r} : seen'[s] = seen[s]
        BY <1>1, <1>4, <2>2 DEF SignInv, AnswersOK
  <2>4. PasswordInv(r)
        BY DEF SignInv
  <2>5. PasswordInv(r)'
        BY <1>1, <1>2, <2>1, <2>3, <2>4 DEF PasswordInv, SignedIn, Registering, tables
  <2> QED BY <1>1, <2>3, <2>5, SignSuffices DEF SignSafe
<1> QED BY <1>3, <1>4 DEF Load

\* The answer names the account as the table does.
LEMMA LoadKeySigns ==
    ASSUME AccountsInv, SignInv, NEW r \in Requests, LoadKey(r)
    PROVE  SignInv'
<1> DEFINE a == [name |-> username[uid[r]], prefs |-> seen[r], key |-> keys[uid[r]]]
<1>1. StepSafe(r) /\ Writes(r) /\ UNCHANGED <<tables, faults, call, uid, seen>>
      /\ answer' = [answer EXCEPT ![r] = a]
      BY LoadKeyKeeps DEF LoadKey, Writes
<1>2. pc[r] = "loadKey" /\ pc'[r] = "done" /\ uid[r] \in Users
      BY DEF LoadKey, Return, Goto, AccountsInv, LocalsOK, UserInv
<1>3. PasswordInv(r)
      BY DEF SignInv
<1>4. username[uid[r]] # None
      BY <1>2, <1>3 DEF PasswordInv, SignInv, RowsOK
<1>5. a \in Answer /\ a.name = username[uid[r]]
  <2>1. username[uid[r]] \in StoredNames /\ seen[r] \in Prefs /\ keys[uid[r]] \in Bundles \cup {None}
        BY <1>2, <1>3, <1>4 DEF PasswordInv, SignInv, NamesOK, AccountsInv, TablesOK
  <2> QED BY <2>1 DEF Answer
<1> HIDE DEF a
<1>6. AnswersOK' /\ answer'[r] = a
      BY <1>1, <1>5 DEF SignInv, AnswersOK
<1>7. PasswordInv(r)'
      BY <1>1, <1>2, <1>3, <1>4, <1>5, <1>6 DEF PasswordInv, SignedIn, Registering, tables
<1> QED BY <1>1, <1>6, <1>7, SignSuffices DEF SignSafe

LEMMA EndSigns ==
    ASSUME AccountsInv, SignInv, NEW r \in Requests, End(r)
    PROVE  SignInv'
<1>1. StepSafe(r) /\ Writes(r)
      BY EndKeeps DEF End, Writes
<1>2. AnswersOK' /\ \A s \in Requests \ {r} : seen'[s] = seen[s]
      BY DEF End, SignInv, AnswersOK
<1>3. pc'[r] = "idle" /\ reply'[r] = "none"
      BY DEF End, Goto, AccountsInv, LocalsOK
<1>4. PasswordInv(r)'
      BY <1>3 DEF PasswordInv, SignedIn, Registering
<1> QED BY <1>1, <1>2, <1>4, SignSuffices DEF SignSafe

LEMMA StatementFailsSigns ==
    ASSUME AccountsInv, SignInv, NEW r \in Requests, StatementFails(r)
    PROVE  SignInv'
<1>1. StepSafe(r) /\ Writes(r) /\ UNCHANGED <<seen, answer>>
      BY StatementFailsKeeps DEF StatementFails, Writes
<1>2. pc'[r] = "done" /\ reply'[r] = "error"
      BY DEF StatementFails, Return, Goto, AccountsInv, LocalsOK
<1>3. faults' \in 0..MaxFaults
      BY AccountsAssumption DEF StatementFails, Fault, SignInv, AnswersOK
<1> QED BY <1>1, <1>2, <1>3, RefusalSigns, SignSuffices

LEMMA InitSigns == Init => SignInv
<1> SUFFICES ASSUME Init PROVE SignInv
    OBVIOUS
<1>1. NamesOK /\ RowsOK /\ AnswersOK
      BY AccountsAssumption DEF Init, NamesOK, RowsOK, AnswersOK
<1>2. \A r \in Requests : PasswordInv(r)
      BY DEF Init, PasswordInv, SignedIn, Registering
<1> QED BY <1>1, <1>2 DEF SignInv

LEMMA CrashSigns ==
    ASSUME SignInv, Crash
    PROVE  SignInv'
<1>1. NamesOK' /\ RowsOK'
      BY DEF Crash, tables, SignInv, NamesOK, RowsOK
<1>2. AnswersOK'
      BY AccountsAssumption DEF Crash, Fault, SignInv, AnswersOK
<1>3. \A r \in Requests : PasswordInv(r)'
      BY DEF Crash, PasswordInv, SignedIn, Registering
<1> QED BY <1>1, <1>2, <1>3 DEF SignInv

LEMMA StutterSigns ==
    ASSUME SignInv, UNCHANGED vars
    PROVE  SignInv'
<1>1. UNCHANGED <<tables, pc, call, uid, seen, reply, answer, faults>>
      BY DEF vars
<1>2. NamesOK' /\ RowsOK' /\ AnswersOK'
      BY <1>1 DEF tables, SignInv, NamesOK, RowsOK, AnswersOK
<1>3. \A r \in Requests : PasswordInv(r)'
      BY <1>1 DEF tables, SignInv, PasswordInv, SignedIn
<1> QED BY <1>2, <1>3 DEF SignInv

\* Whatever requests race, fail or die, from the moment when a sign-in has its
\* user that user has the password it came with.
THEOREM SignInvariant == Spec => []SignInv
<1>1. AccountsInv /\ SignInv /\ [Next]_vars => SignInv'
  <2> SUFFICES ASSUME AccountsInv, SignInv, [Next]_vars PROVE SignInv'
      OBVIOUS
  <2>1. ASSUME NEW r \in Requests, NEW c \in Call, Begin(r, c) PROVE SignInv'
        BY <2>1, BeginSigns
  <2>2. ASSUME NEW r \in Requests, Handle(r) PROVE SignInv'
        BY <2>2, CheckSigns, InsertSigns, WriteStepsSign, ComparePasswordSigns, LookupSigns,
           UpdateSigns, LoadSigns, LoadKeySigns, EndSigns DEF Handle
  <2>3. ASSUME NEW r \in Requests, StatementFails(r) PROVE SignInv'
        BY <2>3, StatementFailsSigns
  <2>4. CASE Crash
        BY <2>4, CrashSigns
  <2>5. CASE UNCHANGED vars
        BY <2>5, StutterSigns
  <2> QED BY <2>1, <2>2, <2>3, <2>4, <2>5 DEF Next
<1> QED BY <1>1, InitSigns, AccountsInvariant, PTL DEF Spec

\* Every name in the table is in the form that Require.Normalize gives it, and a
\* row of preferences, of keys or of sessions refers to a row of users, for
\* every set of raw names and every limit on their length.
THEOREM AccountsTypeOK == Spec => []TypeOK
<1>1. AccountsInv /\ SignInv => TypeOK
      BY DEF AccountsInv, TablesOK, LocalsOK, SignInv, NamesOK, RowsOK, AnswersOK, TypeOK
<1> QED BY <1>1, AccountsInvariant, SignInvariant, PTL

\* A sign-in that succeeds tells the client the name of an account that has the
\* password he gave, and under that name both look-ups of the next Authorize,
\* the one in lower case and the one as given, find it (Service.Register,
\* Service.Authorize, Repository.GetByUsername).
THEOREM AnswersSignIn == Spec => []AnswerSignsIn
<1>1. AccountsInv /\ SignInv => AnswerSignsIn
  <2> SUFFICES ASSUME AccountsInv, SignInv, NEW r \in Requests, SignedIn(r)
               PROVE  /\ username[uid[r]] = answer[r].name
                      /\ password[uid[r]] = call[r].password
                      /\ Lower(answer[r].name) = answer[r].name
                      /\ Len(answer[r].name) > MinRaw
      BY DEF AnswerSignsIn
  <2>1. /\ uid[r] \in Users /\ username[uid[r]] # None
        /\ username[uid[r]] = answer[r].name
        /\ password[uid[r]] = call[r].password
        BY DEF SignInv, PasswordInv
  <2>2. answer[r].name \in StoredNames
        BY <2>1 DEF SignInv, NamesOK
  <2> QED BY <2>1, <2>2, StoredName
<1> QED BY <1>1, AccountsInvariant, SignInvariant, PTL

\* A name and a password are given once: no request, race or failure changes
\* those of an account (Repository.Create is the only statement that writes them).
THEOREM NamesAndPasswordsStay == Spec => [][NamesStay]_vars
<1>1. AccountsInv /\ SignInv /\ [Next]_vars => [NamesStay]_vars
  <2> SUFFICES ASSUME AccountsInv, SignInv, Next PROVE NamesStay
      OBVIOUS
  <2>1. ASSUME NEW r \in Requests, Writes(r) PROVE NamesStay
        BY <2>1, WritesSign
  <2>2. ASSUME NEW r \in Requests, NEW c \in Call, Begin(r, c) PROVE NamesStay
        BY <2>1, <2>2 DEF Begin, Writes
  <2>3. ASSUME NEW r \in Requests, Handle(r) \/ StatementFails(r) PROVE NamesStay
    <3>1. Writes(r)
          BY <2>3 DEF Handle, StatementFails, Writes, Check, Insert, InitPreferences,
             CreateUserKey, OpenSession, ComparePassword, Lookup, Update, Load, LoadKey, End
    <3> QED BY <2>1, <3>1
  <2>4. CASE Crash
        BY <2>4 DEF Crash, tables, NamesStay
  <2> QED BY <2>2, <2>3, <2>4 DEF Next
<1> QED BY <1>1, AccountsInvariant, SignInvariant, PTL DEF Spec

=============================================================================
