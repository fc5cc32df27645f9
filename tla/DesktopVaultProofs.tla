------------------------- MODULE DesktopVaultProofs -------------------------
(***************************************************************************)
(* Proofs about DesktopVault, for every number of users, servers, commands *)
(* that run at once, and whatever they are.  Three invariants carry them:  *)
(*   TypeInv     who holds the mutex, and what a task has in hand at each  *)
(*               of its steps;                                             *)
(*   AuthInv     what the token, the flag, the user and the cache say of   *)
(*               each other, also in the middle of the writes;             *)
(*   EnvelopeInv for a page that neither rotates nor stores envelopes,     *)
(*               which key the envelope of the client wraps.               *)
(***************************************************************************)
EXTENDS DesktopVault, TLAPS

-----------------------------------------------------------------------------
(* The first invariant *)

Replies == {"none", "ok", "unauthenticated", "error"}

\* What add_password and a sign-in have in hand once it is there.
Sealed == [entry : Entries, envelope : Envelopes]
Received == [token : Tokens, envelope : Envelopes]

LocalTypes ==
    /\ pc \in [Slots -> Free \cup Held]
    /\ job \in [Slots -> Maybe(Job)]
    /\ made \in [Slots -> Maybe(Made)]
    /\ reply \in [Slots -> Replies]

GlobalTypes ==
    /\ authenticated \in BOOLEAN
    /\ currentUser \in Maybe(Profiles)
    /\ envelope \in Maybe(Envelopes)
    /\ cache \in Maybe(Lists)
    /\ backend \in Backends
    /\ session \in Maybe(Tokens)
    /\ holder \in Maybe(Slots)
    /\ waiting \in Seq(Slots)
    /\ orphaned \subseteq Slots
    /\ page \in Maybe(Users)
    /\ stored \in [Backends \X Users -> Maybe(Envelopes)]
    /\ account \in [Backends \X Users -> Maybe(Accounts)]
    /\ crossed \subseteq {"user", "cache"}

\* The mutex is held during the steps that need it.
MutexOK == \A s \in Slots : pc[s] \in Held <=> holder = s

\* What a task can rely on between its steps.
TaskInv(s) ==
    /\ pc[s] # "idle" => job[s] \in Job
    /\ pc[s] \notin {"idle", "prepare"} /\ Op(s) = "add" => made[s] \in Sealed
    /\ pc[s] = "keep" => Op(s) = "add"
    /\ pc[s] = "store" => made[s] \in Envelopes
    /\ pc[s] \in {"dropUser", "dropFlag"} => Op(s) = "register" /\ made[s] \in Envelopes
    /\ pc[s] \in {"call", "reply"} /\ Op(s) \in Remote \cup {"logout"} => session # None
    /\ pc[s] = "reply" /\ reply[s] = "ok" /\ Op(s) \in {"list", "decrypt"} =>
          made[s] = [of |-> session]
    /\ pc[s] = "reply" /\ reply[s] = "ok" /\ Op(s) = "login" =>
          /\ made[s] \in Received /\ made[s].token.backend = backend
          /\ account[<<made[s].token.backend, made[s].token.user>>] # None
    /\ pc[s] \in Installing => Op(s) = "login" /\ made[s] \in Received /\ made[s].token = session
    /\ pc[s] \in Clearing => session = None

\* The account of a session exists.
Accounted == session # None => account[Mine] # None

TypeInv ==
    /\ LocalTypes /\ GlobalTypes
    /\ MutexOK /\ Accounted
    /\ \A s \in Slots : TaskInv(s)

LEMMA InitTyped == Init => TypeInv
<1> SUFFICES ASSUME Init PROVE TypeInv
    OBVIOUS
<1>1. LocalTypes
      BY DEF Init, LocalTypes, Maybe, Free, Replies
<1>2. GlobalTypes
  <2>1. waiting \in Seq(Slots)
        BY DEF Init
  <2> QED BY <2>1, DesktopVaultAssumption DEF DesktopVaultAssumption, Init, GlobalTypes, Maybe
<1>3. MutexOK /\ Accounted
      BY DesktopVaultAssumption
         DEF DesktopVaultAssumption, Init, MutexOK, Accounted, Held, Installing, Clearing
<1>4. ASSUME NEW s \in Slots PROVE TaskInv(s)
      BY DEF Init, TaskInv, Installing, Clearing
<1> QED BY <1>1, <1>2, <1>3, <1>4 DEF TypeInv

-----------------------------------------------------------------------------
(* Steps of a task *)

OthersStay(s) ==
    \A t \in Slots \ {s} :
        pc'[t] = pc[t] /\ job'[t] = job[t] /\ made'[t] = made[t] /\ reply'[t] = reply[t]

\* Task s is at another step, with this in hand.
Moved(s, step, j, m, r) ==
    /\ LocalTypes' /\ OthersStay(s)
    /\ pc'[s] = step /\ job'[s] = j /\ made'[s] = m /\ reply'[s] = r

LEMMA FinishMoves ==
    ASSUME TypeInv, NEW s \in Slots, Finish(s)
    PROVE  Moved(s, "idle", None, None, "none")
BY DEF TypeInv, LocalTypes, Finish, Goto, Moved, OthersStay, Maybe, Free, Replies

LEMMA GotoMoves ==
    ASSUME TypeInv, NEW s \in Slots, NEW step \in Free \cup Held,
           Goto(s, step), UNCHANGED <<job, made, reply>>
    PROVE  Moved(s, step, job[s], made[s], reply[s])
BY DEF TypeInv, LocalTypes, Goto, Moved, OthersStay

LEMMA MadeMoves ==
    ASSUME TypeInv, NEW s \in Slots, NEW step \in Free \cup Held, NEW m \in Maybe(Made),
           Goto(s, step), made' = [made EXCEPT ![s] = m], UNCHANGED <<job, reply>>
    PROVE  Moved(s, step, job[s], m, reply[s])
BY DEF TypeInv, LocalTypes, Goto, Moved, OthersStay

LEMMA AnswerMoves ==
    ASSUME TypeInv, NEW s \in Slots, NEW r \in Replies, NEW m \in Maybe(Made),
           Goto(s, "reply"), reply' = [reply EXCEPT ![s] = r], UNCHANGED job,
           \/ made' = made /\ m = made[s]
           \/ made' = [made EXCEPT ![s] = m]
    PROVE  Moved(s, "reply", job[s], m, r)
<1> "reply" \in Free \cup Held
    BY DEF Held
<1> QED BY DEF TypeInv, LocalTypes, Goto, Moved, OthersStay

LEMMA StartMoves ==
    ASSUME TypeInv, NEW s \in Slots, NEW step \in Free \cup Held, NEW j \in Job,
           NEW m \in Maybe(Made), Start(s, j, m), Goto(s, step)
    PROVE  Moved(s, step, j, m, reply[s])
BY DEF TypeInv, LocalTypes, Start, Goto, Moved, OthersStay, Maybe

LEMMA SameMutex ==
    ASSUME TypeInv, NEW s \in Slots, LocalTypes', OthersStay(s), holder' = holder,
           pc'[s] \in Held <=> pc[s] \in Held
    PROVE  MutexOK'
BY DEF TypeInv, MutexOK, OthersStay

LEMMA ReleasedMutex ==
    ASSUME TypeInv, NEW s \in Slots, LocalTypes', OthersStay(s), Release,
           pc[s] \in Held, pc'[s] \notin Held
    PROVE  MutexOK'
BY DesktopVaultAssumption DEF DesktopVaultAssumption, TypeInv, MutexOK, OthersStay, Release

\* Accounts are never closed.
AccountsStay == \A a \in Backends \X Users : account[a] # None => account'[a] # None

\* What a step of s has to keep of the others: the token and the server are the
\* holder's to change.
LEMMA StepKeeps ==
    ASSUME TypeInv, NEW s \in Slots, LocalTypes', OthersStay(s), MutexOK', GlobalTypes',
           Accounted', TaskInv(s)', AccountsStay,
           pc[s] \in Held \/ UNCHANGED <<session, backend>>
    PROVE  TypeInv'
<1>1. ASSUME NEW t \in Slots \ {s} PROVE TaskInv(t)'
  <2>1. pc'[t] = pc[t] /\ job'[t] = job[t] /\ made'[t] = made[t] /\ reply'[t] = reply[t]
        BY DEF OthersStay
  <2>2. TaskInv(t)
        BY DEF TypeInv
  <2>3. CASE pc[t] \notin Held
        BY <2>1, <2>2, <2>3 DEF TaskInv, Op, Held, Installing, Clearing
  <2>4. CASE pc[t] \in Held
    <3>1. UNCHANGED <<session, backend>>
          BY <2>4 DEF TypeInv, MutexOK
    <3>2. ASSUME made[t] \in Received PROVE
             <<made[t].token.backend, made[t].token.user>> \in Backends \X Users
          BY <3>2 DEF Received, Tokens
    <3> QED BY <2>1, <2>2, <3>1, <3>2 DEF TaskInv, Op, AccountsStay
  <2> QED BY <2>3, <2>4
<1> QED BY <1>1 DEF TypeInv

\* The account of the session stays.
LEMMA StaysAccounted ==
    ASSUME TypeInv, AccountsStay, session' \in {session, None} PROVE Accounted'
<1>1. session # None => Mine \in Backends \X Users
      BY DEF TypeInv, GlobalTypes, Maybe, Tokens, Mine
<1> QED BY <1>1 DEF TypeInv, Accounted, AccountsStay, Mine

LEMMA FinishKeeps ==
    ASSUME TypeInv, NEW s \in Slots, Finish(s), GlobalTypes', UNCHANGED <<session, account>>,
           \/ pc[s] \notin Held /\ UNCHANGED <<holder, backend>>
           \/ pc[s] \in Held /\ Release
    PROVE  TypeInv'
<1>1. Moved(s, "idle", None, None, "none")
      BY FinishMoves
<1>2. "idle" \notin Held
      BY DEF Held, Installing, Clearing
<1>3. MutexOK'
      BY <1>1, <1>2, SameMutex, ReleasedMutex DEF Moved
<1>4. TaskInv(s)'
      BY <1>1 DEF Moved, TaskInv, Installing, Clearing
<1>5. AccountsStay /\ Accounted'
      BY DEF AccountsStay, TypeInv, Accounted, Mine
<1> QED BY <1>1, <1>3, <1>4, <1>5, StepKeeps DEF Moved

\* A task that goes on and neither takes nor leaves the mutex.
LEMMA MoveKeeps ==
    ASSUME TypeInv, NEW s \in Slots, NEW step \in Free \cup Held, NEW j, NEW m, NEW r,
           Moved(s, step, j, m, r), TaskInv(s)', GlobalTypes',
           step \in Held <=> pc[s] \in Held, holder' = holder,
           AccountsStay, session' \in {session, None},
           pc[s] \in Held \/ UNCHANGED <<session, backend>>
    PROVE  TypeInv'
<1>1. MutexOK'
      BY SameMutex DEF Moved
<1> QED BY <1>1, StaysAccounted, StepKeeps DEF Moved

-----------------------------------------------------------------------------
(* Keys and envelopes *)

\* What the inputs of a command are.
LEMMA JobFields ==
    ASSUME NEW j \in Job
    PROVE  /\ j.op \in {"login", "register"} => j.user \in Users
           /\ j.op \in {"register", "add"} => j.seed \in Seeds /\ j.algorithm \in Algorithms
           /\ j.op = "encryption" => j.algorithm \in Algorithms
           /\ j.op = "delete" => j.entry \in Entries
           /\ j.op = "add" => j.local \in Maybe(Envelopes)
           /\ j.op = "rotate" => j.seed \in Seeds /\ j.new \in Seeds
           /\ j.op = "backend" => j.backend \in Backends
BY DEF Job

\* Wrapping a key gives an envelope, and opening an envelope gives its key.
LEMMA WrapTyped ==
    ASSUME NEW master \in MasterKeys, NEW seed \in Seeds, NEW name \in Algorithms
    PROVE  WrapMasterKey(master, seed, name) \in Envelopes
<1>1. ResolveEncryptionAlgorithm(name) = name
      BY DEF Algorithms, ResolveEncryptionAlgorithm, Argon2id, Sha256
<1>2. name # None
      BY DesktopVaultAssumption DEF DesktopVaultAssumption
<1> QED BY <1>1, <1>2
        DEF WrapMasterKey, Envelope, EncryptBytesWithKey, DeriveKeyFromSeed, Envelopes, Boxes

LEMMA UnwrapTyped ==
    ASSUME NEW e \in Envelopes, NEW seed, UnwrapMasterKey(e, seed) # None
    PROVE  UnwrapMasterKey(e, seed) \in MasterKeys
BY DEF UnwrapMasterKey, DecryptBytesWithKey, Envelopes, Boxes

-----------------------------------------------------------------------------
(* Commands begin *)

LEMMA StartKeeps ==
    ASSUME TypeInv, NEW s \in Slots, NEW j \in Job, NEW step \in {"prepare", "store", "wait"},
           NEW m \in Maybe(Made), Start(s, j, m), Goto(s, step), UNCHANGED holder,
           waiting' \in Seq(Slots), orphaned' \subseteq Slots, page' \in Maybe(Users),
           UNCHANGED stored,
           step # "prepare" => j.op # "add", step = "store" => m \in Envelopes
    PROVE  TypeInv'
<1>1. step \in Free \cup Held /\ step \notin Held
      BY DEF Free, Held, Installing, Clearing
<1>2. Moved(s, step, j, m, reply[s])
      BY <1>1, StartMoves
<1>3. TaskInv(s)'
      BY <1>2 DEF Moved, TaskInv, Op, Installing, Clearing
<1>4. /\ pc[s] \notin Held /\ AccountsStay
      /\ UNCHANGED <<session, backend>> /\ GlobalTypes'
      BY DEF Start, app, AccountsStay, TypeInv, GlobalTypes, Held, Installing, Clearing
<1> QED BY <1>1, <1>2, <1>3, <1>4, MoveKeeps

LEMMA CallKeeps ==
    ASSUME TypeInv, NEW s \in Slots, NEW j \in Job, NEW step \in {"prepare", "store"},
           NEW m \in Maybe(Made), Call(s, j, step, m),
           step = "store" => m \in Envelopes /\ j.op # "add"
    PROVE  TypeInv'
BY StartKeeps DEF Call, mutex, ui, TypeInv, GlobalTypes

LEMMA CallWaitingKeeps ==
    ASSUME TypeInv, NEW s \in Slots, NEW j \in Job, j.op # "add", CallWaiting(s, j)
    PROVE  TypeInv'
<1>1. Append(waiting, s) \in Seq(Slots)
      BY DEF TypeInv, GlobalTypes
<1>2. /\ Start(s, j, None) /\ Goto(s, "wait") /\ UNCHANGED <<holder, orphaned, page, stored>>
      /\ waiting' \in Seq(Slots) /\ None \in Maybe(Made)
      BY <1>1 DEF CallWaiting, Enqueue, ui, Maybe
<1> QED BY <1>2, StartKeeps DEF TypeInv, GlobalTypes

LEMMA InvokeTyped == ASSUME TypeInv, NEW s \in Slots, Invoke(s) PROVE TypeInv'
<1> None \in Maybe(Made) /\ Offered \subseteq Algorithms
    BY DesktopVaultAssumption DEF DesktopVaultAssumption, Maybe
<1>1. ASSUME NEW op \in {"logout", "endpoint", "probe", "check", "request", "preference", "list",
                         "decrypt", "store"}
      PROVE  [op |-> op] \in Job
      BY DEF Job
<1>2. ASSUME NEW u \in Users, Login(s, u) PROVE TypeInv'
  <2> DEFINE j == [op |-> "login", user |-> u]
  <2>1. j \in Job
        BY DEF Job
  <2> QED BY <1>2, <2>1, CallWaitingKeeps DEF Login
<1>3. ASSUME NEW u \in Users, NEW seed \in Seeds, NEW a \in Offered, Register(s, u, seed, a)
      PROVE  TypeInv'
  <2> DEFINE j == [op |-> "register", user |-> u, seed |-> seed, algorithm |-> a]
  <2>1. j \in Job
        BY DEF Job
  <2> QED BY <1>3, <2>1, CallWaitingKeeps DEF Register
<1>4. ASSUME NEW b \in Backends, SetBackendEndpoint(s, b) PROVE TypeInv'
  <2> DEFINE j == [op |-> "backend", backend |-> b]
  <2>1. j \in Job
        BY DEF Job
  <2> QED BY <1>4, <2>1, CallWaitingKeeps DEF SetBackendEndpoint
<1>5. CASE GetBackendEndpoint(s) \/ ProbeBackendServer(s)
      BY <1>1, <1>5, CallWaitingKeeps DEF GetBackendEndpoint, ProbeBackendServer
<1>6. CASE IsAuthenticated(s)
      BY <1>1, <1>6, StartKeeps DEF IsAuthenticated, TypeInv, GlobalTypes, Maybe, mutex
<1>7. CASE \/ Logout(s) \/ GetAdminStats(s) \/ SetThemePreference(s) \/ SetLanguagePreference(s)
           \/ GetPasswords(s) \/ DecryptPasswordEntry(s) \/ ListSessions(s) \/ RevokeSession(s)
      BY <1>1, <1>7, CallKeeps
         DEF Logout, GetAdminStats, SetThemePreference, SetLanguagePreference, GetPasswords,
             DecryptPasswordEntry, ListSessions, RevokeSession, Check
<1>8. ASSUME NEW a \in Offered, SetEncryptionPreference(s, a) PROVE TypeInv'
  <2> DEFINE j == [op |-> "encryption", algorithm |-> a]
  <2>1. j \in Job
        BY DEF Job
  <2> QED BY <1>8, <2>1, CallKeeps DEF SetEncryptionPreference, Check
<1>9. ASSUME NEW e \in Entries, DeletePassword(s, e) PROVE TypeInv'
  <2> DEFINE j == [op |-> "delete", entry |-> e]
  <2>1. j \in Job
        BY DEF Job
  <2> QED BY <1>9, <2>1, CallKeeps DEF DeletePassword, Check
<1>10. ASSUME page # None PROVE stored[<<backend, page>>] \in Maybe(Envelopes)
  <2>1. page \in Users /\ backend \in Backends
        BY <1>10 DEF TypeInv, GlobalTypes, Maybe
  <2> QED BY <2>1 DEF TypeInv, GlobalTypes
<1>11. ASSUME NEW seed \in Seeds, NEW a \in Offered, AddPassword(s, seed, a) PROVE TypeInv'
  <2> DEFINE j == [op |-> "add", seed |-> seed, algorithm |-> a,
                   local |-> stored[<<backend, page>>]]
  <2>1. j \in Job
        BY <1>10, <1>11 DEF Job, AddPassword, Check
  <2> QED BY <1>11, <2>1, CallKeeps DEF AddPassword, Check
<1>12. ASSUME NEW seed \in Seeds, NEW new \in Seeds, RotateSeedPhrase(s, seed, new) PROVE TypeInv'
  <2> DEFINE j == [op |-> "rotate", seed |-> seed, new |-> new]
  <2>1. j \in Job
        BY DEF Job
  <2> QED BY <1>12, <2>1, CallKeeps DEF RotateSeedPhrase, Check
<1>13. CASE StoreVaultEnvelope(s)
  <2>1. /\ Call(s, [op |-> "store"], "store", stored[<<backend, page>>])
        /\ stored[<<backend, page>>] \in Envelopes
        BY <1>10, <1>13 DEF StoreVaultEnvelope, Check, Maybe
  <2>2. stored[<<backend, page>>] \in Maybe(Made)
        BY <2>1 DEF Made, Maybe
  <2> QED BY <1>1, <2>1, <2>2, CallKeeps
<1> QED BY <1>2, <1>3, <1>4, <1>5, <1>6, <1>7, <1>8, <1>9, <1>11, <1>12, <1>13 DEF Invoke

-----------------------------------------------------------------------------
(* Before the mutex, and getting it *)

\* A step before the mutex, or into its queue.
LEMMA FreeKeeps ==
    ASSUME TypeInv, NEW s \in Slots, NEW step \in {"keep", "store", "wait"},
           pc[s] \in {"prepare", "keep"}, NEW m,
           Moved(s, step, job[s], m, reply[s]), UNCHANGED <<session, backend, account, holder>>,
           GlobalTypes', Op(s) = "add" => m \in Sealed, step = "keep" => Op(s) = "add",
           step = "store" => m \in Envelopes
    PROVE  TypeInv'
<1>1. TaskInv(s)'
      BY DEF TypeInv, Moved, TaskInv, Op, Installing, Clearing
<1>2. step \in Free \cup Held /\ step \notin Held /\ pc[s] \notin Held /\ AccountsStay
      BY DEF Free, Held, Installing, Clearing, AccountsStay
<1> QED BY <1>1, <1>2, MoveKeeps

LEMMA EnqueueKeeps ==
    ASSUME TypeInv, NEW s \in Slots, pc[s] \in {"prepare", "keep"}, Enqueue(s),
           pc[s] = "keep" \/ Op(s) # "add",
           UNCHANGED <<authenticated, currentUser, cache, backend, session, crossed, locals, ui,
                       account>>,
           envelope' \in Maybe(Envelopes)
    PROVE  TypeInv'
<1>1. Append(waiting, s) \in Seq(Slots)
      BY DEF TypeInv, GlobalTypes
<1>2. GlobalTypes'
      BY <1>1 DEF Enqueue, TypeInv, GlobalTypes, locals, ui
<1>3. Moved(s, "wait", job[s], made[s], reply[s])
      BY GotoMoves DEF Enqueue, locals, Free
<1>4. Op(s) = "add" => made[s] \in Sealed
      BY DEF TypeInv, TaskInv
<1> QED BY <1>2, <1>3, <1>4, FreeKeeps DEF Enqueue

LEMMA PrepareTyped ==
    ASSUME TypeInv, NEW s \in Slots,
           \/ Skip(s) \/ FindCached(s) \/ AskForMutex(s) \/ SealEntry(s) \/ KeepEnvelope(s)
           \/ RewrapKey(s) \/ StoreEnvelope(s)
    PROVE  TypeInv'
<1> TaskInv(s) /\ GlobalTypes
    BY DEF TypeInv
<1>1. ASSUME pc[s] \in {"prepare", "store"}, Finish(s), GlobalTypes',
             UNCHANGED <<session, account, holder, backend>>
      PROVE  TypeInv'
      BY <1>1, FinishKeeps DEF Held, Installing, Clearing
<1>2. CASE Skip(s) \/ FindCached(s)
  <2>1. GlobalTypes'
        BY <1>2 DEF Skip, FindCached, Finish, GlobalTypes, app, mutex, ui
  <2> QED BY <1>1, <1>2, <2>1 DEF Skip, FindCached, app, mutex
<1>3. CASE AskForMutex(s)
      BY <1>3, EnqueueKeeps DEF AskForMutex, app, GlobalTypes
<1>4. CASE SealEntry(s)
  <2> DEFINE m == [entry |-> MasterKey(s),
                   envelope |-> WrapMasterKey(MasterKey(s), job[s].seed, job[s].algorithm)]
  <2>1. CASE Finish(s)
    <3>1. GlobalTypes'
          BY <1>4, <2>1 DEF SealEntry, Finish, GlobalTypes, app, mutex, ui
    <3> QED BY <1>1, <1>4, <2>1, <3>1 DEF SealEntry, app, mutex
  <2>2. CASE /\ MasterKey(s) # None /\ made' = [made EXCEPT ![s] = m]
             /\ Goto(s, "keep") /\ UNCHANGED <<job, reply, orphaned>>
    <3>1. /\ pc[s] = "prepare" /\ Op(s) = "add"
          /\ job[s].seed \in Seeds /\ job[s].algorithm \in Algorithms
          /\ job[s].local \in Maybe(Envelopes)
          BY <1>4, JobFields DEF SealEntry, TaskInv, Op
    <3>2. MasterKey(s) \in Entries
          BY <2>2, <3>1, UnwrapTyped DEF MasterKey, ResolvedEnvelope, GlobalTypes, Maybe, Entries
    <3>3. WrapMasterKey(MasterKey(s), job[s].seed, job[s].algorithm) \in Envelopes
          BY <3>1, <3>2, WrapTyped DEF Entries
    <3>4. m \in Sealed
          BY <3>2, <3>3 DEF Sealed
    <3> HIDE DEF m
    <3>5. Moved(s, "keep", job[s], m, reply[s])
          BY <2>2, <3>4, MadeMoves DEF Maybe, Made, Sealed, Free
    <3>6. GlobalTypes'
          BY <1>4, <2>2 DEF SealEntry, GlobalTypes, app, mutex, ui
    <3> QED BY <1>4, <3>1, <3>4, <3>5, <3>6, FreeKeeps DEF SealEntry, app, mutex
  <2> QED BY <1>4, <2>1, <2>2 DEF SealEntry
<1>5. CASE KeepEnvelope(s)
  <2>1. pc[s] = "keep" /\ made[s].envelope \in Envelopes
        BY <1>5 DEF KeepEnvelope, TaskInv, Sealed
  <2> QED BY <1>5, <2>1, EnqueueKeeps DEF KeepEnvelope, GlobalTypes, Maybe
<1>6. CASE RewrapKey(s)
  <2> DEFINE key == IF envelope = None THEN None ELSE UnwrapMasterKey(envelope, job[s].seed)
             m == WrapMasterKey(key, job[s].new, envelope.algorithm)
  <2>1. CASE Finish(s)
    <3>1. GlobalTypes'
          BY <1>6, <2>1 DEF RewrapKey, Finish, GlobalTypes, app, mutex, ui
    <3> QED BY <1>1, <1>6, <2>1, <3>1 DEF RewrapKey, app, mutex
  <2>2. CASE /\ key # None /\ made' = [made EXCEPT ![s] = m]
             /\ Goto(s, "store") /\ UNCHANGED <<job, reply, orphaned>>
    <3>1. pc[s] = "prepare" /\ Op(s) = "rotate" /\ job[s].new \in Seeds
          BY <1>6, JobFields DEF RewrapKey, TaskInv, Op
    <3>2. envelope \in Envelopes
          BY <2>2 DEF GlobalTypes, Maybe
    <3>3. key \in MasterKeys /\ envelope.algorithm \in Algorithms
          BY <2>2, <3>2, UnwrapTyped DEF Envelopes
    <3> HIDE DEF key
    <3>4. m \in Envelopes
          BY <3>1, <3>3, WrapTyped
    <3> HIDE DEF m
    <3>5. Moved(s, "store", job[s], m, reply[s])
          BY <2>2, <3>4, MadeMoves DEF Maybe, Made, Free
    <3>6. GlobalTypes'
          BY <1>6, <2>2 DEF RewrapKey, GlobalTypes, app, mutex, ui
    <3> QED BY <1>6, <3>1, <3>4, <3>5, <3>6, FreeKeeps DEF RewrapKey, app, mutex
  <2> QED BY <1>6, <2>1, <2>2 DEF RewrapKey
<1>7. CASE StoreEnvelope(s)
  <2>1. GlobalTypes'
        BY <1>7 DEF StoreEnvelope, Finish, TaskInv, GlobalTypes, Maybe, mutex, ui
  <2> QED BY <1>1, <1>7, <2>1 DEF StoreEnvelope, mutex
<1> QED BY <1>2, <1>3, <1>4, <1>5, <1>6, <1>7

LEMMA AcquireTyped == ASSUME TypeInv, NEW s \in Slots, Acquire(s) PROVE TypeInv'
<1>1. /\ pc[s] = "wait" /\ holder = None /\ holder' = s /\ waiting # <<>>
      /\ waiting' = Tail(waiting) /\ Goto(s, "locked")
      /\ UNCHANGED <<app, locals, ui, account>>
      BY DEF Acquire
<1>2. Moved(s, "locked", job[s], made[s], reply[s])
      BY <1>1, GotoMoves DEF locals, Held
<1>3. MutexOK'
      BY <1>1, <1>2, DesktopVaultAssumption
         DEF DesktopVaultAssumption, TypeInv, MutexOK, Moved, OthersStay, Held
<1>4. Tail(waiting) \in Seq(Slots)
      BY <1>1 DEF TypeInv, GlobalTypes
<1>5. GlobalTypes'
      BY <1>1, <1>4 DEF TypeInv, GlobalTypes, Maybe, app, locals, ui
<1>6. TaskInv(s)'
      BY <1>1, <1>2 DEF TypeInv, Moved, TaskInv, Op, Installing, Clearing
<1>7. AccountsStay /\ UNCHANGED <<session, backend>>
      BY <1>1 DEF app, AccountsStay
<1> QED BY <1>2, <1>3, <1>5, <1>6, <1>7, StaysAccounted, StepKeeps DEF Moved

-----------------------------------------------------------------------------
(* With the mutex *)

\* A step of the holder, who goes on with what it has, or with a new answer.
LEMMA HeldKeeps ==
    ASSUME TypeInv, NEW s \in Slots, NEW step \in Held, pc[s] \in Held, Goto(s, step),
           UNCHANGED <<job, made, reply, holder>>, GlobalTypes', AccountsStay,
           session' \in {session, None}, TaskInv(s)'
    PROVE  TypeInv'
<1>1. Moved(s, step, job[s], made[s], reply[s])
      BY GotoMoves
<1> QED BY <1>1, MoveKeeps

LEMMA LockedTyped ==
    ASSUME TypeInv, NEW s \in Slots,
           Unsigned(s) \/ SendRequest(s) \/ ChangeBackend(s) \/ ReadBackend(s)
    PROVE  TypeInv'
<1>1. /\ pc[s] = "locked" /\ pc[s] \in Held
      /\ UNCHANGED <<authenticated, currentUser, envelope, cache, session, crossed, ui, account>>
      BY DEF Unsigned, SendRequest, ChangeBackend, ReadBackend, Held, app
<1>2. AccountsStay /\ job[s] \in Job /\ TaskInv(s)
      BY <1>1 DEF AccountsStay, TypeInv, TaskInv
<1>3. backend' \in Backends
      BY <1>2, JobFields
         DEF Unsigned, SendRequest, ChangeBackend, ReadBackend, app, Op, TypeInv, GlobalTypes
<1>4. CASE Finish(s) /\ Release
  <2>1. GlobalTypes'
        BY <1>1, <1>3, <1>4 DEF TypeInv, GlobalTypes, Finish, Release, Maybe, ui
  <2> QED BY <1>1, <1>4, <2>1, FinishKeeps
<1>5. CASE /\ UNCHANGED <<mutex, locals>>
           /\ \/ Goto(s, "clear")
              \/ Goto(s, "call") /\ (Op(s) \in Remote \cup {"logout"} => session # None)
  <2>1. PICK step \in {"clear", "call"} :
           /\ Goto(s, step)
           /\ step = "call" /\ Op(s) \in Remote \cup {"logout"} => session # None
        BY <1>5
  <2>2. Moved(s, step, job[s], made[s], reply[s])
        BY <1>5, <2>1, GotoMoves DEF locals, Held
  <2>3. TaskInv(s)'
        BY <1>1, <1>2, <2>1, <2>2 DEF Moved, TaskInv, Op, Installing, Clearing
  <2>4. GlobalTypes'
        BY <1>1, <1>3, <1>5 DEF TypeInv, GlobalTypes, mutex, locals, ui
  <2>5. step \in Held
        BY DEF Held
  <2> QED BY <1>1, <1>2, <1>5, <2>1, <2>3, <2>4, <2>5, HeldKeeps DEF mutex, locals
<1> QED BY <1>4, <1>5
        DEF Unsigned, SendRequest, ChangeBackend, ReadBackend, mutex, Remote

\* What the page is given to show is a user with an envelope.
LEMMA ShowTyped ==
    ASSUME TypeInv, NEW s \in Slots, NEW profile \in Profiles, Show(s, profile)
    PROVE  page' \in Maybe(Users) /\ stored' \in [Backends \X Users -> Maybe(Envelopes)]
<1>1. profile.user \in Users /\ profile.envelope \in Envelopes
      BY DEF Profiles
<1> QED BY <1>1 DEF TypeInv, GlobalTypes, Maybe, Show, ui

LEMMA ShowNobodyTyped ==
    ASSUME TypeInv, NEW s \in Slots, ShowNobody(s) \/ ShowLogin(s)
    PROVE  page' \in Maybe(Users) /\ stored' \in [Backends \X Users -> Maybe(Envelopes)]
BY DEF TypeInv, GlobalTypes, Maybe, ShowNobody, ShowLogin, ui

LEMMA CheckTyped ==
    ASSUME TypeInv, NEW s \in Slots, ReportAuthenticated(s) \/ ReadProfile(s)
    PROVE  TypeInv'
<1>1. CASE ReportAuthenticated(s) /\ authenticated'
  <2>1. /\ pc[s] = "locked" /\ Op(s) = "check" /\ Goto(s, "profile") /\ Release
        /\ authenticated' \in BOOLEAN
        /\ UNCHANGED <<locals, ui, currentUser, envelope, cache, backend, session, crossed, account>>
        BY <1>1 DEF ReportAuthenticated, TypeInv, GlobalTypes
  <2>2. Moved(s, "profile", job[s], made[s], reply[s])
        BY <2>1, GotoMoves DEF locals, Free
  <2>3. MutexOK' /\ pc[s] \in Held
        BY <2>1, <2>2, ReleasedMutex DEF Moved, Held, Installing, Clearing
  <2>4. TaskInv(s)'
        BY <2>1, <2>2 DEF TypeInv, TaskInv, Moved, Op, Installing, Clearing
  <2>5. GlobalTypes' /\ AccountsStay
        BY <2>1 DEF TypeInv, GlobalTypes, AccountsStay, Release, Maybe, locals, ui
  <2> QED BY <2>1, <2>2, <2>3, <2>4, <2>5, StaysAccounted, StepKeeps DEF Moved
<1>2. CASE ReportAuthenticated(s) /\ ~authenticated'
  <2>1. /\ pc[s] = "locked" /\ Finish(s) /\ ShowNobody(s) /\ Release /\ authenticated' \in BOOLEAN
        /\ UNCHANGED <<currentUser, envelope, cache, backend, session, crossed, account>>
        BY <1>2 DEF ReportAuthenticated, TypeInv, GlobalTypes
  <2>2. GlobalTypes'
        BY <2>1, ShowNobodyTyped DEF TypeInv, GlobalTypes, Finish, Release, Maybe
  <2> QED BY <2>1, <2>2, FinishKeeps DEF Held
<1>3. CASE ReadProfile(s)
  <2>1. page' \in Maybe(Users) /\ stored' \in [Backends \X Users -> Maybe(Envelopes)]
        BY <1>3, ShowTyped, ShowNobodyTyped DEF ReadProfile, TypeInv, GlobalTypes, Maybe
  <2>2. GlobalTypes'
        BY <1>3, <2>1 DEF ReadProfile, Finish, TypeInv, GlobalTypes, app, mutex
  <2> QED BY <1>3, <2>2, FinishKeeps DEF ReadProfile, app, mutex, Held, Installing, Clearing
<1> QED BY <1>1, <1>2, <1>3

-----------------------------------------------------------------------------
(* The server *)

\* A request that has been answered.
LEMMA AnswerKeeps ==
    ASSUME TypeInv, NEW s \in Slots, NEW r \in {"ok", "error", "unauthenticated"},
           NEW m \in Maybe(Made), pc[s] = "call", Goto(s, "reply"),
           reply' = [reply EXCEPT ![s] = r], UNCHANGED <<app, mutex, job, orphaned, ui>>,
           \/ made' = made /\ m = made[s]
           \/ made' = [made EXCEPT ![s] = m] /\ Op(s) # "add",
           account' \in [Backends \X Users -> Maybe(Accounts)], AccountsStay,
           r = "ok" /\ Op(s) \in {"list", "decrypt"} => m = [of |-> session],
           r = "ok" /\ Op(s) = "login" =>
              /\ m \in Received /\ m.token.backend = backend
              /\ account'[<<m.token.backend, m.token.user>>] # None
    PROVE  TypeInv'
<1>1. Moved(s, "reply", job[s], m, r)
      BY AnswerMoves DEF Replies
<1>2. GlobalTypes'
      BY DEF TypeInv, GlobalTypes, app, mutex, ui
<1>3. TaskInv(s)'
      BY <1>1 DEF TypeInv, TaskInv, Moved, Op, Installing, Clearing, app
<1> QED BY <1>1, <1>2, <1>3, MoveKeeps DEF Held, app, mutex

\* The account of the session, which a request of it may change.
LEMMA MineExists ==
    ASSUME TypeInv, session # None
    PROVE  Mine \in Backends \X Users /\ account[Mine] \in Accounts
<1>1. Mine \in Backends \X Users
      BY DEF TypeInv, GlobalTypes, Maybe, Tokens, Mine
<1> QED BY <1>1 DEF TypeInv, Accounted, GlobalTypes, Maybe

LEMMA AccountChange ==
    ASSUME TypeInv, NEW a \in Backends \X Users, NEW new \in Accounts,
           account' = [account EXCEPT ![a] = new]
    PROVE  account' \in [Backends \X Users -> Maybe(Accounts)] /\ AccountsStay
BY DesktopVaultAssumption
   DEF DesktopVaultAssumption, TypeInv, GlobalTypes, AccountsStay, Maybe

LEMMA ServeTyped == ASSUME TypeInv, NEW s \in Slots, Serve(s) PROVE TypeInv'
<1> TaskInv(s) /\ GlobalTypes /\ made[s] \in Maybe(Made)
    BY DEF TypeInv, LocalTypes
<1> account' = account => account' \in [Backends \X Users -> Maybe(Accounts)] /\ AccountsStay
    BY DEF GlobalTypes, AccountsStay
<1>1. ASSUME pc[s] = "call", Answer(s), made' = made, Op(s) \notin {"login", "list", "decrypt"},
             account' \in [Backends \X Users -> Maybe(Accounts)], AccountsStay
      PROVE  TypeInv'
      BY <1>1, AnswerKeeps DEF Answer
<1>2. CASE RefuseSession(s) \/ FailRequest(s)
      BY <1>2, AnswerKeeps DEF RefuseSession, FailRequest
<1>3. CASE ServeLogout(s) \/ ServeRequest(s) \/ ServePreference(s) \/ ServeProbe(s)
      BY <1>1, <1>3
         DEF ServeLogout, ServeRequest, ServePreference, ServeProbe, ServeOther, Requested
<1>4. CASE ServeLogin(s)
  <2> DEFINE a == <<backend, job[s].user>>
             token == [user |-> job[s].user, backend |-> backend]
             m == [token |-> token, envelope |-> KeyBundle(a)]
  <2>1. /\ pc[s] = "call" /\ Op(s) = "login" /\ Answer(s) /\ account[a] # None
        /\ made' = [made EXCEPT ![s] = m] /\ account' = account
        BY <1>4 DEF ServeLogin, Requested
  <2>2. job[s].user \in Users /\ backend \in Backends
        BY <2>1, JobFields DEF TaskInv, Op, GlobalTypes
  <2>3. token \in Tokens /\ account[a] \in Accounts
        BY <2>1, <2>2 DEF Tokens, GlobalTypes, Maybe
  <2>4. KeyBundle(a) \in Envelopes
        BY <2>3 DEF KeyBundle, Envelope, Accounts, Envelopes
  <2>5. /\ m \in Received /\ m.token.backend = backend
        /\ account'[<<m.token.backend, m.token.user>>] # None
        BY <2>1, <2>3, <2>4 DEF Received
  <2> HIDE DEF m
  <2>6. m \in Maybe(Made)
        BY <2>5 DEF Received, Made, Maybe
  <2> QED BY <2>1, <2>5, <2>6, AnswerKeeps DEF Answer
<1>5. CASE ServeRegister(s)
  <2> DEFINE a == <<backend, job[s].user>>
             key == PrepareMasterKeyEnvelope([of |-> a, for |-> "server"], job[s].seed,
                                             job[s].algorithm)
             new == [box |-> key.box, crypt |-> Argon2id, vault |-> {}]
  <2>1. /\ pc[s] = "call" /\ Op(s) = "register" /\ Answer(s) /\ made' = made
        /\ account' = [account EXCEPT ![a] = new]
        BY <1>5 DEF ServeRegister, Requested
  <2>2. /\ job[s].user \in Users /\ backend \in Backends /\ job[s].seed \in Seeds
        /\ job[s].algorithm \in Algorithms
        BY <2>1, JobFields DEF TaskInv, Op, GlobalTypes
  <2>3. key \in Envelopes
        BY <2>2, WrapTyped DEF PrepareMasterKeyEnvelope, MasterKeys
  <2> HIDE DEF key
  <2>4. new \in Accounts /\ a \in Backends \X Users
        BY <2>2, <2>3 DEF Accounts, Algorithms, Envelopes
  <2> HIDE DEF new, a
  <2> QED BY <1>1, <2>1, <2>4, AccountChange
<1>6. CASE ServeList(s)
  <2> DEFINE m == [of |-> session]
  <2>1. /\ pc[s] = "call" /\ Op(s) \in {"list", "decrypt"} /\ Answer(s)
        /\ made' = [made EXCEPT ![s] = m] /\ account' = account /\ session # None
        BY <1>6 DEF ServeList, Requested, TaskInv, Remote
  <2>2. m \in Maybe(Made)
        BY <2>1 DEF Lists, Made, Maybe, GlobalTypes
  <2> HIDE DEF m
  <2> QED BY <2>1, <2>2, AnswerKeeps DEF Answer, m
<1>7. CASE ServeAdd(s) \/ ServeDelete(s) \/ ServeEncryption(s)
  <2>1. /\ pc[s] = "call" /\ Answer(s) /\ made' = made /\ session # None
        /\ Op(s) \in {"add", "delete", "encryption"}
        BY <1>7 DEF ServeAdd, ServeDelete, ServeEncryption, Requested, TaskInv, Remote
  <2>2. Mine \in Backends \X Users /\ account[Mine] \in Accounts
        BY <2>1, MineExists
  <2>3. PICK new \in Accounts : account' = [account EXCEPT ![Mine] = new]
    <3>1. CASE ServeAdd(s)
      <4> DEFINE new == [account[Mine] EXCEPT !.vault = @ \cup {made[s].entry}]
      <4>1. made[s].entry \in Entries
            BY <3>1 DEF ServeAdd, Requested, TaskInv, Sealed
      <4>2. new \in Accounts /\ account' = [account EXCEPT ![Mine] = new]
            BY <2>2, <3>1, <4>1 DEF ServeAdd, Accounts
      <4> QED BY <4>2
    <3>2. CASE ServeDelete(s)
      <4> DEFINE new == [account[Mine] EXCEPT !.vault = @ \ {job[s].entry}]
      <4>1. new \in Accounts /\ account' = [account EXCEPT ![Mine] = new]
            BY <2>2, <3>2 DEF ServeDelete, Accounts
      <4> QED BY <4>1
    <3>3. CASE ServeEncryption(s)
      <4> DEFINE new == [account[Mine] EXCEPT !.crypt = job[s].algorithm]
      <4>1. job[s].algorithm \in Algorithms
            BY <3>3, JobFields DEF ServeEncryption, Requested, TaskInv, Op
      <4>2. new \in Accounts /\ account' = [account EXCEPT ![Mine] = new]
            BY <2>2, <3>3, <4>1 DEF ServeEncryption, Accounts
      <4> QED BY <4>2
    <3> QED BY <1>7, <3>1, <3>2, <3>3
  <2> QED BY <1>1, <2>1, <2>2, <2>3, AccountChange
<1> QED BY <1>2, <1>3, <1>4, <1>5, <1>6, <1>7 DEF Serve

-----------------------------------------------------------------------------
(* Answers, and writes of several steps *)

LEMMA SettleTyped == ASSUME TypeInv, NEW s \in Slots, Settle(s) PROVE TypeInv'
<1> TaskInv(s) /\ GlobalTypes /\ pc[s] = "reply" /\ pc[s] \in Held
    BY DEF TypeInv, Settle, SettleLogin, SettleRegister, SettleList, SettleOther,
           LoseSession, Answered, Held
<1>1. AccountsStay /\ account' = account
      BY DEF AccountsStay, Settle, SettleLogin, SettleRegister, SettleList, SettleOther,
             LoseSession
<1>2. CASE SettleLogin(s)
  <2>1. /\ Op(s) = "login" /\ made[s] \in Received /\ session' = made[s].token
        /\ account[<<made[s].token.backend, made[s].token.user>>] # None
        BY <1>2 DEF SettleLogin, Answered, TaskInv
  <2>2. session' \in Tokens
        BY <2>1 DEF Received
  <2>3. Moved(s, "installEnvelope", job[s], made[s], reply[s])
        BY <1>2, GotoMoves DEF SettleLogin, locals, Held, Installing
  <2>4. MutexOK'
        BY <1>2, <2>3, SameMutex DEF SettleLogin, Moved, mutex, Held, Installing
  <2>5. GlobalTypes'
        BY <1>2, <2>2 DEF SettleLogin, Crossing, GlobalTypes, Maybe, mutex, locals, ui
  <2>6. Accounted'
        BY <1>1, <2>1 DEF Accounted, Mine
  <2>7. TaskInv(s)'
        BY <2>1, <2>3 DEF TaskInv, Moved, Op, Installing, Clearing
  <2> QED BY <1>1, <2>3, <2>4, <2>5, <2>6, <2>7, StepKeeps DEF Moved
<1>3. CASE SettleRegister(s)
  <2> DEFINE m == PrepareMasterKeyEnvelope([of |-> <<backend, job[s].user>>, for |-> "page"],
                                           job[s].seed, job[s].algorithm)
  <2>1. /\ Op(s) = "register" /\ session' = None /\ Release /\ Goto(s, "dropUser")
        /\ made' = [made EXCEPT ![s] = m]
        /\ UNCHANGED <<authenticated, currentUser, envelope, cache, backend, job, reply, orphaned, ui>>
        BY <1>3 DEF SettleRegister, Answered
  <2>2. /\ job[s].user \in Users /\ backend \in Backends /\ job[s].seed \in Seeds
        /\ job[s].algorithm \in Algorithms
        BY <2>1, JobFields DEF TaskInv, Op, GlobalTypes
  <2>3. m \in Envelopes
        BY <2>2, WrapTyped DEF PrepareMasterKeyEnvelope, MasterKeys
  <2> HIDE DEF m
  <2>4. Moved(s, "dropUser", job[s], m, reply[s])
        BY <2>1, <2>3, MadeMoves DEF Made, Maybe, Free
  <2>5. MutexOK'
        BY <2>1, <2>4, ReleasedMutex DEF Moved, Held, Installing, Clearing
  <2>6. GlobalTypes'
        BY <1>3, <2>1 DEF SettleRegister, Crossing, GlobalTypes, Release, Maybe, ui
  <2>7. TaskInv(s)'
        BY <2>1, <2>3, <2>4 DEF TaskInv, Moved, Op, Installing, Clearing
  <2> QED BY <1>1, <2>1, <2>4, <2>5, <2>6, <2>7, StaysAccounted, StepKeeps DEF Moved
<1>4. CASE SettleList(s) \/ SettleOther(s)
  <2>1. Finish(s) /\ Release /\ session' = session
        BY <1>4 DEF SettleList, SettleOther, app
  <2>2. CASE SettleList(s)
    <3>1. made[s] = [of |-> session] /\ session \in Tokens
          BY <2>2 DEF SettleList, Answered, TaskInv, Remote, GlobalTypes, Maybe
    <3>2. cache' \in Maybe(Lists)
          BY <2>2, <3>1 DEF SettleList, Lists, Maybe
    <3>3. GlobalTypes'
          BY <2>2, <3>2 DEF SettleList, Finish, Release, GlobalTypes, Maybe, ui
    <3> QED BY <1>1, <2>1, <3>3, FinishKeeps
  <2>3. CASE SettleOther(s)
    <3>1. GlobalTypes'
          BY <2>3 DEF SettleOther, Finish, Release, GlobalTypes, Maybe, app, ui
    <3> QED BY <1>1, <2>1, <3>1, FinishKeeps
  <2> QED BY <1>4, <2>2, <2>3
<1>5. CASE LoseSession(s)
  <2>1. Goto(s, "clear") /\ UNCHANGED <<app, mutex, locals, ui>> /\ "clear" \in Held
        BY <1>5 DEF LoseSession, Held
  <2>2. Moved(s, "clear", job[s], made[s], reply[s])
        BY <2>1, GotoMoves DEF locals
  <2>3. TaskInv(s)'
        BY <2>2 DEF TaskInv, Moved, Op, Installing, Clearing
  <2>4. GlobalTypes'
        BY <1>1, <2>1 DEF GlobalTypes, app, mutex, locals, ui
  <2> QED BY <1>1, <2>1, <2>3, <2>4, HeldKeeps DEF app, mutex, locals
<1> QED BY <1>2, <1>3, <1>4, <1>5 DEF Settle

\* The steps of a sign-in and of clear_auth_state.
LEMMA WritesTyped ==
    ASSUME TypeInv, NEW s \in Slots,
           \/ InstallEnvelope(s) \/ InstallUser(s) \/ InstallFlag(s)
           \/ ClearSession(s) \/ ClearUser(s) \/ ClearEnvelope(s) \/ ClearCache(s)
    PROVE  TypeInv'
<1> /\ TaskInv(s) /\ GlobalTypes
    /\ pc[s] \in Installing \cup Clearing \cup {"clear"} /\ pc[s] \in Held
    BY DEF TypeInv, InstallEnvelope, InstallUser, InstallFlag, ClearSession, ClearUser,
           ClearEnvelope, ClearCache, Held, Installing, Clearing
<1>1. AccountsStay /\ account' = account
      BY DEF AccountsStay, InstallEnvelope, InstallUser, InstallFlag, ClearSession, ClearUser,
             ClearEnvelope, ClearCache
<1>2. pc[s] \in Installing => made[s].envelope \in Envelopes /\ Profile(s) \in Profiles
      BY DEF TaskInv, Received, Tokens, Profile, Profiles
<1>3. CASE InstallEnvelope(s) \/ InstallUser(s)
  <2>1. PICK step \in {"installUser", "installFlag"} : Goto(s, step)
        BY <1>3 DEF InstallEnvelope, InstallUser
  <2>2. /\ pc[s] \in Installing /\ step \in Held /\ step \in Installing
        /\ UNCHANGED <<session, backend, mutex, locals>>
        BY <1>3 DEF InstallEnvelope, InstallUser, Held, Installing
  <2>3. GlobalTypes'
        BY <1>2, <1>3, <2>2 DEF InstallEnvelope, InstallUser, GlobalTypes, Maybe, mutex, locals, ui
  <2>4. Moved(s, step, job[s], made[s], reply[s])
        BY <2>1, <2>2, GotoMoves DEF locals
  <2>5. TaskInv(s)'
        BY <2>2, <2>4 DEF TaskInv, Moved, Op, Installing, Clearing
  <2> QED BY <1>1, <2>1, <2>2, <2>3, <2>5, HeldKeeps DEF mutex, locals
<1>4. CASE InstallFlag(s)
  <2>1. page' \in Maybe(Users) /\ stored' \in [Backends \X Users -> Maybe(Envelopes)]
        BY <1>2, <1>4, ShowTyped DEF InstallFlag, Installing
  <2>2. GlobalTypes'
        BY <1>4, <2>1 DEF InstallFlag, Finish, Release, GlobalTypes, Maybe
  <2> QED BY <1>1, <1>4, <2>2, FinishKeeps DEF InstallFlag
<1>5. CASE ClearSession(s) \/ ClearUser(s) \/ ClearEnvelope(s)
  <2>1. PICK step \in Clearing : Goto(s, step)
        BY <1>5 DEF ClearSession, ClearUser, ClearEnvelope, Clearing
  <2>2. /\ step \in Held /\ UNCHANGED <<backend, mutex, locals>> /\ session' = None
        BY <1>5 DEF ClearSession, ClearUser, ClearEnvelope, Held, Clearing, TaskInv
  <2>3. GlobalTypes'
        BY <1>5 DEF ClearSession, ClearUser, ClearEnvelope, GlobalTypes, Maybe, mutex, locals, ui
  <2>4. Moved(s, step, job[s], made[s], reply[s])
        BY <2>1, <2>2, GotoMoves DEF locals
  <2>5. TaskInv(s)'
        BY <2>2, <2>4 DEF TaskInv, Moved, Op, Installing, Clearing
  <2> QED BY <1>1, <2>1, <2>2, <2>3, <2>5, HeldKeeps DEF mutex, locals
<1>6. CASE ClearCache(s)
  <2>1. page' \in Maybe(Users) /\ stored' \in [Backends \X Users -> Maybe(Envelopes)]
        BY <1>6, ShowNobodyTyped DEF ClearCache
  <2>2. GlobalTypes'
        BY <1>6, <2>1 DEF ClearCache, Finish, Release, GlobalTypes, Maybe
  <2> QED BY <1>1, <1>6, <2>2, FinishKeeps DEF ClearCache
<1> QED BY <1>3, <1>4, <1>5, <1>6

\* What register does without the mutex.
LEMMA DropTyped == ASSUME TypeInv, NEW s \in Slots, DropUser(s) \/ DropFlag(s) PROVE TypeInv'
<1> TaskInv(s) /\ GlobalTypes /\ pc[s] \in {"dropUser", "dropFlag"} /\ pc[s] \notin Held
    BY DEF TypeInv, DropUser, DropFlag, Held, Installing, Clearing
<1>1. /\ UNCHANGED <<session, backend, mutex, account>> /\ AccountsStay
      /\ made[s] \in Envelopes /\ Op(s) = "register" /\ job[s].user \in Users
      BY JobFields DEF DropUser, DropFlag, AccountsStay, TaskInv, Op
<1>2. CASE DropUser(s)
  <2>1. Moved(s, "dropFlag", job[s], made[s], reply[s])
        BY <1>2, GotoMoves DEF DropUser, locals, Free
  <2>2. TaskInv(s)'
        BY <1>1, <2>1 DEF TaskInv, Moved, Op, Installing, Clearing
  <2>3. GlobalTypes'
        BY <1>2 DEF DropUser, Dropping, GlobalTypes, Maybe, mutex, locals, ui
  <2>4. "dropFlag" \in Free \cup Held /\ "dropFlag" \notin Held
        BY DEF Free, Held, Installing, Clearing
  <2> QED BY <1>1, <2>1, <2>2, <2>3, <2>4, MoveKeeps DEF mutex
<1>3. CASE DropFlag(s)
  <2>1. stored' \in [Backends \X Users -> Maybe(Envelopes)]
        BY <1>1, <1>3 DEF DropFlag, GlobalTypes, Maybe
  <2>2. GlobalTypes'
        BY <1>3, <2>1 DEF DropFlag, Dropping, Finish, GlobalTypes, mutex
  <2> QED BY <1>1, <1>3, <2>2, FinishKeeps DEF DropFlag, mutex
<1> QED BY <1>2, <1>3

LEMMA NextTyped == TypeInv /\ [Next]_vars => TypeInv'
<1> SUFFICES ASSUME TypeInv, [Next]_vars PROVE TypeInv'
    OBVIOUS
<1>1. ASSUME NEW s \in Slots, Run(s) PROVE TypeInv'
      BY <1>1, PrepareTyped, AcquireTyped, LockedTyped, CheckTyped, SettleTyped, WritesTyped,
         DropTyped DEF Run
<1>2. CASE \E s \in Slots : Invoke(s) \/ Run(s) \/ Serve(s)
      BY <1>1, <1>2, InvokeTyped, ServeTyped
<1>3. CASE TurnedAway \/ UNCHANGED vars
  <2>1. UNCHANGED <<app, mutex, tasks, stored, account>> /\ page' \in {page, None}
        BY <1>3 DEF TurnedAway, vars, ui
  <2>2. LocalTypes' /\ GlobalTypes' /\ MutexOK' /\ Accounted'
        BY <2>1 DEF app, mutex, tasks, locals, TypeInv, LocalTypes, GlobalTypes, MutexOK, Accounted,
                    Mine, Maybe
  <2>3. \A s \in Slots : TaskInv(s)'
        BY <2>1 DEF app, tasks, locals, TypeInv, TaskInv, Op
  <2> QED BY <2>2, <2>3 DEF TypeInv
<1> QED BY <1>2, <1>3 DEF Next

\* The mutex is held by one task in the steps that need it, through every
\* interleaving of commands, and each step finds in hand what it reads: an
\* entry that has been encrypted, an answer for the session that is still held,
\* a token of this server whose account exists.
THEOREM TypedInvariant == Spec => []TypeInv
BY InitTyped, NextTyped, PTL DEF Spec

\* The state keeps its types.
THEOREM VaultTypeOK == Spec => []TypeOK
<1>1. TypeInv => TypeOK
      BY DEF TypeInv, LocalTypes, GlobalTypes, Replies, TypeOK
<1> QED BY <1>1, TypedInvariant, PTL

-----------------------------------------------------------------------------
(* Who is signed in *)

\* The token, the flag, the user and the cache at every moment, with the tasks
\* that are still to bring them together: a registration may take the user and
\* the flag from whoever has signed in since it gave the mutex back.
AuthInv ==
    /\ session = None /\ authenticated => Registering
    /\ session = None /\ currentUser # None =>
          \E s \in Slots : pc[s] \in {"dropUser", "clearUser"}
    /\ session # None /\ currentUser # None =>
          \/ currentUser.user = session.user
          \/ \E s \in Slots : pc[s] \in {"installEnvelope", "installUser"}
    /\ session # None /\ "user" \notin crossed =>
          \/ authenticated /\ currentUser # None
          \/ \E s \in Slots : pc[s] \in Installing
    /\ cache # None /\ "cache" \notin crossed =>
          \/ session # None /\ cache.of = session
          \/ \E s \in Slots : pc[s] \in Clearing
    /\ session # None => session.backend = backend \/ \E s \in Slots : pc[s] = "clear"
    /\ \A s \in Slots : pc[s] = "installFlag" => currentUser # None \/ "user" \in crossed

LEMMA InitAuth == Init => AuthInv
BY DEF Init, AuthInv

\* The place of one task changes.
PlaceStep(s, step) == pc'[s] = step /\ \A t \in Slots \ {s} : pc'[t] = pc[t]

LEMMA GotoPlace ==
    ASSUME TypeInv, NEW s \in Slots, NEW step, Goto(s, step) PROVE PlaceStep(s, step)
BY DEF TypeInv, LocalTypes, Goto, PlaceStep

LEMMA FinishPlace == ASSUME TypeInv, NEW s \in Slots, Finish(s) PROVE PlaceStep(s, "idle")
BY GotoPlace DEF Finish

\* Whoever has the mutex is alone with its steps.
LEMMA HolderAlone ==
    ASSUME TypeInv, NEW s \in Slots, pc[s] \in Held
    PROVE  \A t \in Slots \ {s} : pc[t] \notin Held
BY DEF TypeInv, MutexOK

auth == <<authenticated, currentUser, cache, backend, session, crossed>>

\* Steps that say nothing of who is signed in.
LEMMA PlainKeeps ==
    ASSUME AuthInv, NEW s \in Slots, NEW step, PlaceStep(s, step), UNCHANGED auth,
           pc[s] \notin Installing \cup Clearing \cup {"clear", "dropUser", "dropFlag"},
           step # "installFlag"
    PROVE  AuthInv'
<1>1. \A t \in Slots : pc[t] \in Installing \cup Clearing \cup {"clear", "dropUser", "dropFlag"}
                       => pc'[t] = pc[t]
      BY DEF PlaceStep
<1>2. Registering => Registering'
      BY <1>1 DEF Registering
<1>3. \A t \in Slots : pc'[t] = "installFlag" => pc[t] = "installFlag"
      BY DEF PlaceStep
<1> QED BY <1>1, <1>2, <1>3 DEF AuthInv, auth, Installing, Clearing

LEMMA InvokeAuth == ASSUME TypeInv, AuthInv, NEW s \in Slots, Invoke(s) PROVE AuthInv'
<1>1. ASSUME NEW j, NEW m, NEW step \in {"prepare", "store", "wait"}, Start(s, j, m), Goto(s, step)
      PROVE  AuthInv'
      BY <1>1, GotoPlace, PlainKeeps DEF Start, app, auth, Installing, Clearing
<1>2. \E j, m, step : step \in {"prepare", "store", "wait"} /\ Start(s, j, m) /\ Goto(s, step)
  <2>1. ASSUME NEW j, CallWaiting(s, j)
        PROVE  \E m, step : step \in {"prepare", "store", "wait"} /\ Start(s, j, m) /\ Goto(s, step)
        BY <2>1 DEF CallWaiting, Enqueue
  <2>2. ASSUME NEW j, NEW m, NEW step \in {"prepare", "store"}, Call(s, j, step, m)
        PROVE  Start(s, j, m) /\ Goto(s, step)
        BY <2>2 DEF Call
  <2>3. CASE \/ \E u \in Users : Login(s, u)
             \/ \E u \in Users, seed \in Seeds, a \in Offered : Register(s, u, seed, a)
             \/ \E b \in Backends : SetBackendEndpoint(s, b)
             \/ GetBackendEndpoint(s) \/ ProbeBackendServer(s)
        BY <2>1, <2>3
           DEF Login, Register, SetBackendEndpoint, GetBackendEndpoint, ProbeBackendServer
  <2>4. CASE IsAuthenticated(s)
        BY <2>4 DEF IsAuthenticated
  <2>5. CASE \/ Logout(s) \/ GetAdminStats(s) \/ SetThemePreference(s) \/ SetLanguagePreference(s)
             \/ GetPasswords(s) \/ DecryptPasswordEntry(s) \/ ListSessions(s) \/ RevokeSession(s)
        BY <2>2, <2>5
           DEF Logout, GetAdminStats, SetThemePreference, SetLanguagePreference, GetPasswords,
               DecryptPasswordEntry, ListSessions, RevokeSession, Check
  <2>6. CASE \/ \E a \in Offered : SetEncryptionPreference(s, a)
             \/ \E e \in Entries : DeletePassword(s, e)
             \/ \E seed \in Seeds, a \in Offered : AddPassword(s, seed, a)
             \/ \E seed, new \in Seeds : RotateSeedPhrase(s, seed, new)
             \/ StoreVaultEnvelope(s)
        BY <2>2, <2>6
           DEF SetEncryptionPreference, DeletePassword, AddPassword, RotateSeedPhrase,
               StoreVaultEnvelope, Check
  <2> QED BY <2>3, <2>4, <2>5, <2>6 DEF Invoke
<1> QED BY <1>1, <1>2

LEMMA PlainRun ==
    ASSUME TypeInv, AuthInv, NEW s \in Slots,
           \/ Skip(s) \/ FindCached(s) \/ AskForMutex(s) \/ SealEntry(s) \/ KeepEnvelope(s)
           \/ RewrapKey(s) \/ StoreEnvelope(s) \/ Acquire(s)
           \/ Unsigned(s) \/ SendRequest(s) \/ ReadBackend(s) \/ ReadProfile(s)
           \/ SettleOther(s) \/ LoseSession(s) \/ Serve(s)
    PROVE  AuthInv'
<1>1. /\ UNCHANGED auth
      /\ pc[s] \notin Installing \cup Clearing \cup {"clear", "dropUser", "dropFlag"}
  <2>1. CASE \/ Skip(s) \/ FindCached(s) \/ AskForMutex(s) \/ SealEntry(s) \/ KeepEnvelope(s)
             \/ RewrapKey(s) \/ StoreEnvelope(s) \/ Acquire(s)
        BY <2>1 DEF Skip, FindCached, AskForMutex, SealEntry, KeepEnvelope, RewrapKey,
                    StoreEnvelope, Acquire, app, auth, Installing, Clearing
  <2>2. CASE \/ Unsigned(s) \/ SendRequest(s) \/ ReadBackend(s) \/ ReadProfile(s)
             \/ SettleOther(s) \/ LoseSession(s)
        BY <2>2 DEF Unsigned, SendRequest, ReadBackend, ReadProfile, SettleOther,
                    LoseSession, Answered, app, auth, Installing, Clearing
  <2>3. CASE Serve(s)
        BY <2>3 DEF Serve, ServeLogin, ServeRegister, ServeList, ServeAdd, ServeDelete,
                    ServeEncryption, ServeLogout, ServeRequest, ServePreference, ServeProbe,
                    ServeOther, RefuseSession, FailRequest, Requested, Answer, app, auth,
                    Installing, Clearing
  <2> QED BY <2>1, <2>2, <2>3
<1>2. \E step : step # "installFlag" /\ PlaceStep(s, step)
  <2>1. ASSUME NEW step, step # "installFlag", Goto(s, step)
        PROVE  \E step_ : step_ # "installFlag" /\ PlaceStep(s, step_)
        BY <2>1, GotoPlace
  <2>2. ASSUME Finish(s) PROVE \E step : step # "installFlag" /\ PlaceStep(s, step)
        BY <2>2, FinishPlace
  <2>3. CASE \/ Skip(s) \/ FindCached(s) \/ AskForMutex(s) \/ SealEntry(s) \/ KeepEnvelope(s)
             \/ RewrapKey(s) \/ StoreEnvelope(s) \/ Acquire(s)
        BY <2>1, <2>2, <2>3
           DEF Skip, FindCached, AskForMutex, Enqueue, SealEntry, KeepEnvelope, RewrapKey,
               StoreEnvelope, Acquire
  <2>4. CASE \/ Unsigned(s) \/ SendRequest(s) \/ ReadBackend(s) \/ ReadProfile(s)
             \/ SettleOther(s) \/ LoseSession(s)
        BY <2>1, <2>2, <2>4
           DEF Unsigned, SendRequest, ReadBackend, ReadProfile, SettleOther, LoseSession
  <2>5. CASE Serve(s)
    <3>1. Goto(s, "reply")
          BY <2>5 DEF Serve, ServeLogin, ServeRegister, ServeList, ServeAdd, ServeDelete,
                      ServeEncryption, ServeLogout, ServeRequest, ServePreference, ServeProbe,
                      ServeOther, RefuseSession, FailRequest, Answer
    <3> QED BY <2>1, <3>1
  <2> QED BY <2>3, <2>4, <2>5
<1> QED BY <1>1, <1>2, PlainKeeps

\* Steps of the holder that change the server, the flag or the cache.
LEMMA LockedAuth ==
    ASSUME TypeInv, AuthInv, NEW s \in Slots,
           ChangeBackend(s) \/ ReportAuthenticated(s) \/ SettleList(s)
    PROVE  AuthInv'
<1>1. /\ pc[s] \in {"locked", "reply"} /\ pc[s] \in Held
      /\ UNCHANGED <<currentUser, session>>
      BY DEF ChangeBackend, ReportAuthenticated, SettleList, Answered, Held
<1>2. \A t \in Slots : pc[t] \notin Installing \cup Clearing \cup {"clear"}
      BY <1>1, HolderAlone DEF Held, Installing, Clearing
<1>3. PICK step \in {"idle", "profile", "clear"} :
         PlaceStep(s, step) /\ (step = "clear" \/ backend' = backend)
      BY GotoPlace, FinishPlace DEF ChangeBackend, ReportAuthenticated, SettleList
<1>4. Registering => Registering'
      BY <1>1, <1>3 DEF Registering, PlaceStep
<1>5. /\ \A t \in Slots : pc'[t] # "installFlag"
      /\ \A t \in Slots : pc[t] = "dropUser" => pc'[t] = "dropUser"
      /\ step = "clear" => \E t \in Slots : pc'[t] = "clear"
      BY <1>1, <1>2, <1>3 DEF PlaceStep, Installing
<1>6. /\ session = None /\ authenticated => Registering
      /\ session = None /\ currentUser # None => \E t \in Slots : pc[t] = "dropUser"
      /\ session # None /\ currentUser # None => currentUser.user = session.user
      /\ session # None /\ "user" \notin crossed => authenticated /\ currentUser # None
      /\ cache # None /\ "cache" \notin crossed => session # None /\ cache.of = session
      /\ session # None => session.backend = backend
      BY <1>2 DEF AuthInv, Installing, Clearing
<1>7. CASE ChangeBackend(s)
  <2>1. UNCHANGED <<authenticated, currentUser, cache, session, crossed>>
        BY <1>7 DEF ChangeBackend
  <2> QED BY <1>3, <1>4, <1>5, <1>6, <2>1 DEF AuthInv
<1>8. CASE ReportAuthenticated(s)
  <2>1. /\ authenticated' = (authenticated /\ session # None)
        /\ UNCHANGED <<currentUser, cache, backend, session, crossed>>
        BY <1>8 DEF ReportAuthenticated
  <2> QED BY <1>4, <1>5, <1>6, <2>1 DEF AuthInv
<1>9. CASE SettleList(s)
  <2>1. made[s] = [of |-> session] /\ session # None
        BY <1>9 DEF SettleList, Answered, TypeInv, TaskInv, Remote
  <2>2. /\ cache' = made[s] /\ crossed' = crossed \ {"cache"}
        /\ UNCHANGED <<authenticated, currentUser, backend, session>>
        BY <1>9 DEF SettleList
  <2> QED BY <1>4, <1>5, <1>6, <2>1, <2>2 DEF AuthInv
<1> QED BY <1>7, <1>8, <1>9

\* A new token, or none: the cache of the old one is noted.
LEMMA TokenAuth ==
    ASSUME TypeInv, AuthInv, NEW s \in Slots, SettleLogin(s) \/ SettleRegister(s)
    PROVE  AuthInv'
<1>1. /\ pc[s] = "reply" /\ pc[s] \in Held /\ crossed' = Crossing
      /\ UNCHANGED <<authenticated, currentUser, cache, backend>>
      BY DEF SettleLogin, SettleRegister, Answered, Held
<1>2. \A t \in Slots : pc[t] \notin Installing \cup Clearing \cup {"clear"}
      BY <1>1, HolderAlone DEF Held, Installing, Clearing
<1>3. cache = None \/ "cache" \in crossed'
      BY <1>1, <1>2 DEF AuthInv, Crossing
<1>4. CASE SettleLogin(s)
  <2>1. made[s] \in Received /\ made[s].token.backend = backend /\ session' = made[s].token
        BY <1>4 DEF SettleLogin, Answered, TypeInv, TaskInv
  <2>2. session' # None /\ session'.backend = backend'
        BY <1>1, <2>1, DesktopVaultAssumption DEF DesktopVaultAssumption, Received
  <2>3. PlaceStep(s, "installEnvelope")
        BY <1>4, GotoPlace DEF SettleLogin
  <2>4. pc'[s] \in Installing /\ \A t \in Slots : pc'[t] # "installFlag"
        BY <1>2, <2>3 DEF PlaceStep, Installing
  <2> QED BY <1>1, <1>3, <2>2, <2>3, <2>4 DEF AuthInv, PlaceStep
<1>5. CASE SettleRegister(s)
  <2>1. PlaceStep(s, "dropUser") /\ session' = None
        BY <1>5, GotoPlace DEF SettleRegister
  <2>2. Registering' /\ \A t \in Slots : pc'[t] # "installFlag"
        BY <1>2, <2>1 DEF Registering, PlaceStep, Installing
  <2> QED BY <1>1, <1>3, <2>1, <2>2 DEF AuthInv, PlaceStep
<1> QED BY <1>4, <1>5

LEMMA InstallAuth ==
    ASSUME TypeInv, AuthInv, NEW s \in Slots,
           InstallEnvelope(s) \/ InstallUser(s) \/ InstallFlag(s)
    PROVE  AuthInv'
<1>1. /\ pc[s] \in Installing /\ pc[s] \in Held
      /\ UNCHANGED <<cache, backend, session>>
      BY DEF InstallEnvelope, InstallUser, InstallFlag, Held, Installing
<1>2. \A t \in Slots \ {s} : pc[t] \notin Held
      BY <1>1, HolderAlone
<1>3. /\ made[s] \in Received /\ made[s].token = session /\ session # None
      BY <1>1, DesktopVaultAssumption DEF DesktopVaultAssumption, TypeInv, TaskInv, Received
<1>4. \A t \in Slots : pc[t] \notin Clearing \cup {"clear"}
      BY <1>1, <1>2 DEF Held, Installing, Clearing
<1>5. CASE InstallEnvelope(s)
  <2>1. PlaceStep(s, "installUser") /\ UNCHANGED auth
        BY <1>5, GotoPlace DEF InstallEnvelope, auth
  <2>2. pc'[s] \in Installing /\ \A t \in Slots : pc'[t] # "installFlag"
        BY <1>2, <2>1 DEF PlaceStep, Held, Installing
  <2> QED BY <1>3, <1>4, <2>1, <2>2 DEF AuthInv, auth, PlaceStep
<1>6. CASE InstallUser(s)
  <2>1. PlaceStep(s, "installFlag") /\ UNCHANGED <<authenticated, crossed>>
        BY <1>6, GotoPlace DEF InstallUser
  <2>2. currentUser' = Profile(s) /\ Profile(s) \in Profiles /\ Profile(s).user = session.user
        BY <1>3, <1>6 DEF InstallUser, Profile, Profiles, Received, Tokens
  <2>3. currentUser' # None
        BY <2>2, DesktopVaultAssumption DEF DesktopVaultAssumption
  <2>4. pc'[s] \in Installing
        BY <2>1 DEF PlaceStep, Installing
  <2> QED BY <1>1, <1>3, <1>4, <2>1, <2>2, <2>3, <2>4 DEF AuthInv
<1>7. CASE InstallFlag(s)
  <2>1. /\ PlaceStep(s, "idle") /\ currentUser' = currentUser /\ authenticated' = TRUE
        /\ crossed' = IF currentUser = None THEN crossed ELSE crossed \ {"user"}
        /\ pc[s] = "installFlag"
        BY <1>7, FinishPlace DEF InstallFlag
  <2>2. \A t \in Slots : pc[t] \notin {"installEnvelope", "installUser"} /\ pc'[t] # "installFlag"
        BY <1>2, <2>1 DEF PlaceStep, Held, Installing
  <2> QED BY <1>1, <1>3, <1>4, <2>1, <2>2 DEF AuthInv
<1> QED BY <1>5, <1>6, <1>7

LEMMA ClearAuth ==
    ASSUME TypeInv, AuthInv, NEW s \in Slots,
           ClearSession(s) \/ ClearUser(s) \/ ClearEnvelope(s) \/ ClearCache(s)
    PROVE  AuthInv'
<1>1. /\ pc[s] \in Clearing \cup {"clear"} /\ pc[s] \in Held /\ backend' = backend
      BY DEF ClearSession, ClearUser, ClearEnvelope, ClearCache, Held, Clearing
<1>2. \A t \in Slots \ {s} : pc[t] \notin Held
      BY <1>1, HolderAlone
<1>3. session' = None /\ (pc[s] # "clear" => session = None)
      BY <1>1 DEF ClearSession, ClearUser, ClearEnvelope, ClearCache, TypeInv, TaskInv, Clearing
<1>4. PICK step \in Clearing \cup {"idle"} : PlaceStep(s, step)
      BY GotoPlace, FinishPlace DEF ClearSession, ClearUser, ClearEnvelope, ClearCache, Clearing
<1>5. /\ Registering => Registering'
      /\ \A t \in Slots : pc[t] = "dropUser" => pc'[t] = "dropUser"
      /\ \A t \in Slots : pc'[t] # "installFlag"
      BY <1>1, <1>2, <1>4 DEF Registering, PlaceStep, Held, Installing, Clearing
<1>6. CASE ClearSession(s)
  <2>1. PlaceStep(s, "clearUser") /\ authenticated' = FALSE /\ "clearUser" \in Clearing
        BY <1>6, GotoPlace DEF ClearSession, Clearing
  <2> QED BY <1>3, <1>5, <2>1 DEF AuthInv, PlaceStep
<1>7. CASE ClearUser(s)
  <2>1. /\ PlaceStep(s, "clearEnvelope") /\ currentUser' = None /\ "clearEnvelope" \in Clearing
        /\ UNCHANGED <<authenticated, session>> /\ pc[s] = "clearUser"
        BY <1>7, GotoPlace DEF ClearUser, Clearing
  <2> QED BY <1>3, <1>5, <2>1 DEF AuthInv, PlaceStep
<1>8. CASE ClearEnvelope(s)
  <2>1. /\ PlaceStep(s, "clearCache") /\ UNCHANGED auth /\ pc[s] = "clearEnvelope"
        /\ "clearCache" \in Clearing
        BY <1>8, GotoPlace DEF ClearEnvelope, Clearing, auth
  <2>2. \A t \in Slots : pc[t] # "clearUser"
        BY <1>2, <2>1 DEF Held, Clearing
  <2> QED BY <1>3, <1>5, <2>1, <2>2 DEF AuthInv, auth, PlaceStep
<1>9. CASE ClearCache(s)
  <2>1. /\ cache' = None /\ UNCHANGED <<authenticated, currentUser, session>>
        /\ pc[s] = "clearCache"
        BY <1>9 DEF ClearCache
  <2>2. \A t \in Slots : pc[t] # "clearUser"
        BY <1>2, <2>1 DEF Held, Clearing
  <2> QED BY <1>3, <1>5, <2>1, <2>2 DEF AuthInv
<1> QED BY <1>6, <1>7, <1>8, <1>9

\* register resets the user and the flag without the mutex, maybe those of a
\* sign-in that came after it: it is noted that they are gone.
LEMMA DropAuth ==
    ASSUME TypeInv, AuthInv, NEW s \in Slots, DropUser(s) \/ DropFlag(s) PROVE AuthInv'
<1>1. /\ crossed' = Dropping /\ UNCHANGED <<cache, backend, session>>
      /\ session # None => "user" \in crossed'
      /\ "cache" \notin crossed' => "cache" \notin crossed
      BY DEF DropUser, DropFlag, Dropping
<1>2. CASE DropUser(s)
  <2>1. PlaceStep(s, "dropFlag") /\ currentUser' = None /\ pc[s] = "dropUser"
        BY <1>2, GotoPlace DEF DropUser
  <2>2. /\ Registering'
        /\ \A t \in Slots : pc[t] \in Clearing \cup {"clear"} => pc'[t] = pc[t]
        /\ \A t \in Slots : pc'[t] = "installFlag" => pc[t] = "installFlag"
        BY <2>1 DEF PlaceStep, Registering, Clearing
  <2>3. \A t \in Slots : pc[t] = "installFlag" => session # None
        BY DesktopVaultAssumption
           DEF DesktopVaultAssumption, TypeInv, TaskInv, Installing, Received
  <2> QED BY <1>1, <2>1, <2>2, <2>3 DEF AuthInv
<1>3. CASE DropFlag(s)
  <2>1. /\ PlaceStep(s, "idle") /\ currentUser' = currentUser /\ authenticated' = FALSE
        /\ pc[s] = "dropFlag"
        BY <1>3, FinishPlace DEF DropFlag
  <2>2. /\ \A t \in Slots : pc[t] \in Clearing \cup Installing \cup {"clear", "dropUser"}
                               => pc'[t] = pc[t]
        /\ \A t \in Slots : pc'[t] = "installFlag" => pc[t] = "installFlag"
        BY <2>1 DEF PlaceStep, Installing, Clearing
  <2>3. \A t \in Slots : pc[t] = "installFlag" => session # None
        BY DesktopVaultAssumption
           DEF DesktopVaultAssumption, TypeInv, TaskInv, Installing, Received
  <2> QED BY <1>1, <2>1, <2>2, <2>3 DEF AuthInv, Installing, Clearing
<1> QED BY <1>2, <1>3

LEMMA NextAuth == TypeInv /\ AuthInv /\ [Next]_vars => AuthInv'
<1> SUFFICES ASSUME TypeInv, AuthInv, [Next]_vars PROVE AuthInv'
    OBVIOUS
<1>1. ASSUME NEW s \in Slots, Run(s) PROVE AuthInv'
      BY <1>1, PlainRun, LockedAuth, TokenAuth, InstallAuth, ClearAuth, DropAuth DEF Run, Settle
<1>2. CASE \E s \in Slots : Invoke(s) \/ Run(s) \/ Serve(s)
      BY <1>1, <1>2, InvokeAuth, PlainRun
<1>3. CASE TurnedAway \/ UNCHANGED vars
      BY <1>3 DEF TurnedAway, vars, app, tasks, AuthInv, Registering
<1> QED BY <1>2, <1>3 DEF Next

\* What the places that say who is signed in have to do with each other, in
\* every state and with any number of overlapping sign-ins, registrations,
\* sign-outs and changes of the server.
THEOREM AuthInvariant == Spec => []AuthInv
BY InitAuth, TypedInvariant, NextAuth, PTL DEF Spec

\* Flag, token and user agree whenever no command is changing them, as far as
\* no registration has come between.
THEOREM SignedInAgrees == Spec => []SignedInMeans
<1>1. AuthInv => SignedInMeans
      BY DEF AuthInv, SignedInMeans, Settled, Registering, Installing, Clearing
<1> QED BY <1>1, AuthInvariant, PTL

\* Nobody is served from the list of an earlier session, unless that session
\* was replaced or dropped without a sign-out.
THEOREM CacheIsOfSession == Spec => []CacheOfSession
<1>1. AuthInv => CacheOfSession
      BY DEF AuthInv, CacheOfSession, Settled
<1> QED BY <1>1, AuthInvariant, PTL

\* Tokens go to the server that issued them, however often it is changed.
THEOREM TokensStayHome == Spec => []TokenStaysHome
<1>1. TypeInv /\ AuthInv => TokenStaysHome
  <2> SUFFICES ASSUME TypeInv, AuthInv, NEW s \in Slots, pc[s] = "call",
                      Op(s) \in Remote \cup {"logout"}
               PROVE  session.backend = backend
      BY DEF TokenStaysHome
  <2>1. session # None
        BY DEF TypeInv, TaskInv
  <2>2. \A t \in Slots : pc[t] # "clear"
        BY HolderAlone DEF Held
  <2> QED BY <2>1, <2>2 DEF AuthInv
<1> QED BY <1>1, TypedInvariant, AuthInvariant, PTL

-----------------------------------------------------------------------------
(* The envelope of the session *)

\* main.js invokes neither of the two commands that replace an envelope.
PageCommands == Commands \cap {"rotate", "store"} = {}

\* What a sign-in has been answered, until it is installed.
Brought(s) ==
    \/ pc[s] = "reply" /\ Op(s) = "login" /\ reply[s] = "ok"
    \/ pc[s] \in Installing

AccountOf(token) == <<token.backend, token.user>>

EnvelopeTask(s) ==
    /\ pc[s] # "idle" => Op(s) \notin {"rotate", "store"}
    /\ pc[s] # "store"
    /\ Brought(s) => made[s].envelope.box = account[AccountOf(made[s].token)].box

\* The envelopes that come with a sign-in wrap the key of its account, and the
\* client takes no other in the place of one that it has.
EnvelopeInv ==
    /\ \A s \in Slots : EnvelopeTask(s)
    /\ session # None =>
          \/ envelope # None /\ envelope.box = account[AccountOf(session)].box
          \/ \E s \in Slots : pc[s] = "installEnvelope"
    /\ session # None /\ currentUser # None =>
          \/ currentUser.envelope.box = account[AccountOf(session)].box
          \/ \E s \in Slots : pc[s] \in {"installEnvelope", "installUser"}

LEMMA InitEnvelope == Init => EnvelopeInv
BY DEF Init, EnvelopeInv, EnvelopeTask, Brought, Installing

\* The wrapped key of an account stays what it was at the registration.
BoxesStay ==
    \A a \in Backends \X Users : account[a] # None => account'[a].box = account[a].box

LEMMA BroughtTyped ==
    ASSUME TypeInv, NEW s \in Slots, Brought(s)
    PROVE  /\ made[s].envelope \in Envelopes /\ made[s].token \in Tokens /\ made[s].token # None
           /\ AccountOf(made[s].token) \in Backends \X Users
           /\ account[AccountOf(made[s].token)] # None
<1>1. made[s] \in Received
      BY DEF Brought, TypeInv, TaskInv
<1>2. made[s].token \in Tokens /\ made[s].token # None
      BY <1>1, DesktopVaultAssumption DEF DesktopVaultAssumption, Received
<1>3. account[AccountOf(made[s].token)] # None
      BY <1>2 DEF Brought, TypeInv, TaskInv, Accounted, Mine, AccountOf
<1> QED BY <1>1, <1>2, <1>3 DEF Received, Tokens, AccountOf

LEMMA OthersKeep ==
    ASSUME TypeInv, EnvelopeInv, NEW s \in Slots, OthersStay(s), BoxesStay
    PROVE  \A t \in Slots \ {s} : EnvelopeTask(t)'
<1> SUFFICES ASSUME NEW t \in Slots \ {s} PROVE EnvelopeTask(t)'
    OBVIOUS
<1>1. pc'[t] = pc[t] /\ job'[t] = job[t] /\ made'[t] = made[t] /\ reply'[t] = reply[t]
      BY DEF OthersStay
<1>2. EnvelopeTask(t) /\ (Brought(t)' <=> Brought(t))
      BY <1>1 DEF EnvelopeInv, Brought, Op
<1>3. Brought(t) =>
         account'[AccountOf(made[t].token)].box = account[AccountOf(made[t].token)].box
      BY BroughtTyped DEF BoxesStay
<1> QED BY <1>1, <1>2, <1>3 DEF EnvelopeTask, Op

LEMMA MineKeeps ==
    ASSUME TypeInv, BoxesStay, session # None
    PROVE  account'[AccountOf(session)].box = account[AccountOf(session)].box
<1>1. AccountOf(session) \in Backends \X Users /\ account[AccountOf(session)] # None
      BY DEF TypeInv, GlobalTypes, Maybe, Tokens, Accounted, Mine, AccountOf
<1> QED BY <1>1 DEF BoxesStay

\* Steps that leave the session, its user and its envelope.
LEMMA QuietKeeps ==
    ASSUME TypeInv, EnvelopeInv, NEW s \in Slots, OthersStay(s), BoxesStay, EnvelopeTask(s)',
           UNCHANGED <<session, currentUser>>, envelope' = envelope \/ envelope = None,
           pc[s] \notin {"installEnvelope", "installUser"}
    PROVE  EnvelopeInv'
<1>1. \A t \in Slots : pc[t] \in {"installEnvelope", "installUser"} => pc'[t] = pc[t]
      BY DEF OthersStay
<1>2. \A t \in Slots : EnvelopeTask(t)'
      BY OthersKeep
<1>3. session # None => account'[AccountOf(session)].box = account[AccountOf(session)].box
      BY MineKeeps
<1> QED BY <1>1, <1>2, <1>3 DEF EnvelopeInv

LEMMA QuietFinish ==
    ASSUME TypeInv, EnvelopeInv, NEW s \in Slots, Finish(s), BoxesStay,
           UNCHANGED <<session, currentUser, envelope>>,
           pc[s] \notin {"installEnvelope", "installUser"}
    PROVE  EnvelopeInv'
<1>1. Moved(s, "idle", None, None, "none")
      BY FinishMoves
<1>2. EnvelopeTask(s)'
      BY <1>1 DEF Moved, EnvelopeTask, Brought, Installing
<1> QED BY <1>1, <1>2, QuietKeeps DEF Moved

LEMMA QuietMove ==
    ASSUME TypeInv, EnvelopeInv, NEW s \in Slots, NEW step, NEW m, NEW r,
           Moved(s, step, job[s], m, r), BoxesStay, pc[s] # "idle",
           step \notin Installing \cup {"store", "idle"},
           step = "reply" /\ r = "ok" /\ Op(s) = "login" =>
              m.envelope.box = account'[AccountOf(m.token)].box,
           UNCHANGED <<session, currentUser>>, envelope' = envelope \/ envelope = None,
           pc[s] \notin {"installEnvelope", "installUser"}
    PROVE  EnvelopeInv'
<1>1. EnvelopeTask(s)'
      BY DEF Moved, EnvelopeInv, EnvelopeTask, Brought, Op
<1> QED BY <1>1, QuietKeeps DEF Moved

LEMMA InvokeEnvelope ==
    ASSUME PageCommands, TypeInv, EnvelopeInv, NEW s \in Slots, Invoke(s)
    PROVE  EnvelopeInv'
<1>1. ASSUME NEW j, NEW m, NEW step \in {"prepare", "wait"}, Start(s, j, m), Goto(s, step),
             job' = [job EXCEPT ![s] = j]
      PROVE  EnvelopeInv'
  <2>1. /\ OthersStay(s) /\ pc'[s] = step /\ job'[s] = j
        BY <1>1 DEF Start, Goto, TypeInv, LocalTypes, OthersStay
  <2>2. /\ j.op \notin {"rotate", "store"} /\ pc[s] = "idle"
        /\ UNCHANGED <<session, currentUser, envelope, account>>
        BY <1>1 DEF Start, PageCommands, app
  <2>3. EnvelopeTask(s)' /\ BoxesStay
        BY <2>1, <2>2 DEF EnvelopeTask, Brought, Op, Installing, BoxesStay
  <2> QED BY <2>1, <2>2, <2>3, QuietKeeps
<1>2. ASSUME NEW j, CallWaiting(s, j) PROVE EnvelopeInv'
      BY <1>1, <1>2 DEF CallWaiting, Enqueue, Start
<1>3. ASSUME NEW j, NEW m, Call(s, j, "prepare", m) PROVE EnvelopeInv'
      BY <1>1, <1>3 DEF Call, Start
<1>4. CASE \/ \E u \in Users : Login(s, u)
           \/ \E u \in Users, seed \in Seeds, a \in Offered : Register(s, u, seed, a)
           \/ \E b \in Backends : SetBackendEndpoint(s, b)
           \/ GetBackendEndpoint(s) \/ ProbeBackendServer(s)
      BY <1>2, <1>4
         DEF Login, Register, SetBackendEndpoint, GetBackendEndpoint, ProbeBackendServer
<1>5. CASE IsAuthenticated(s)
      BY <1>1, <1>5 DEF IsAuthenticated, Start
<1>6. CASE \/ Logout(s) \/ GetAdminStats(s) \/ SetThemePreference(s) \/ SetLanguagePreference(s)
           \/ GetPasswords(s) \/ DecryptPasswordEntry(s) \/ ListSessions(s) \/ RevokeSession(s)
      BY <1>3, <1>6
         DEF Logout, GetAdminStats, SetThemePreference, SetLanguagePreference, GetPasswords,
             DecryptPasswordEntry, ListSessions, RevokeSession, Check
<1>7. CASE \/ \E a \in Offered : SetEncryptionPreference(s, a)
           \/ \E e \in Entries : DeletePassword(s, e)
           \/ \E seed \in Seeds, a \in Offered : AddPassword(s, seed, a)
           \/ \E seed, new \in Seeds : RotateSeedPhrase(s, seed, new)
      BY <1>3, <1>7
         DEF SetEncryptionPreference, DeletePassword, AddPassword, RotateSeedPhrase, Check
<1>8. ~StoreVaultEnvelope(s)
      BY DEF StoreVaultEnvelope, Check, Call, Start, PageCommands
<1> QED BY <1>4, <1>5, <1>6, <1>7, <1>8 DEF Invoke

LEMMA SameBoxes == ASSUME account' = account PROVE BoxesStay
BY DEF BoxesStay

LEMMA PrepareEnvelope ==
    ASSUME TypeInv, EnvelopeInv, NEW s \in Slots,
           \/ Skip(s) \/ FindCached(s) \/ AskForMutex(s) \/ SealEntry(s) \/ KeepEnvelope(s)
           \/ RewrapKey(s) \/ StoreEnvelope(s) \/ Acquire(s)
    PROVE  EnvelopeInv'
<1>1. /\ pc[s] \in {"prepare", "keep", "wait", "store"} /\ account' = account
      /\ UNCHANGED <<session, currentUser>>
      BY DEF Skip, FindCached, AskForMutex, SealEntry, KeepEnvelope, RewrapKey, StoreEnvelope,
             Acquire, app
<1>2. CASE Skip(s) \/ FindCached(s)
      BY <1>1, <1>2, SameBoxes, QuietFinish DEF Skip, FindCached, app
<1>3. CASE AskForMutex(s) \/ KeepEnvelope(s)
  <2>1. Moved(s, "wait", job[s], made[s], reply[s])
        BY <1>3, GotoMoves DEF AskForMutex, KeepEnvelope, Enqueue, locals, Free
  <2>2. envelope' = envelope \/ envelope = None
        BY <1>3 DEF AskForMutex, KeepEnvelope, app
  <2> QED BY <1>1, <2>1, <2>2, SameBoxes, QuietMove DEF Installing
<1>4. CASE SealEntry(s)
  <2>1. CASE Finish(s)
        BY <1>1, <1>4, <2>1, SameBoxes, QuietFinish DEF SealEntry, app
  <2>2. ASSUME NEW m, made' = [made EXCEPT ![s] = m], Goto(s, "keep"), UNCHANGED <<job, reply>>
        PROVE  EnvelopeInv'
    <3>1. /\ OthersStay(s) /\ pc'[s] = "keep" /\ job'[s] = job[s]
          BY <2>2 DEF Goto, TypeInv, LocalTypes, OthersStay
    <3>2. EnvelopeTask(s)'
          BY <1>1, <3>1 DEF EnvelopeInv, EnvelopeTask, Brought, Op, Installing
    <3> QED BY <1>1, <1>4, <3>1, <3>2, SameBoxes, QuietKeeps DEF SealEntry, app
  <2> QED BY <1>4, <2>1, <2>2 DEF SealEntry
<1>5. ~RewrapKey(s) /\ ~StoreEnvelope(s)
      BY DEF EnvelopeInv, EnvelopeTask, RewrapKey, StoreEnvelope
<1>6. CASE Acquire(s)
  <2>1. Moved(s, "locked", job[s], made[s], reply[s])
        BY <1>6, GotoMoves DEF Acquire, locals, Held
  <2> QED BY <1>1, <1>6, <2>1, SameBoxes, QuietMove DEF Acquire, app, Installing
<1> QED BY <1>2, <1>3, <1>4, <1>5, <1>6

LEMMA HeldEnvelope ==
    ASSUME TypeInv, EnvelopeInv, NEW s \in Slots,
           \/ Unsigned(s) \/ SendRequest(s) \/ ChangeBackend(s) \/ ReadBackend(s)
           \/ ReportAuthenticated(s) \/ ReadProfile(s)
           \/ SettleList(s) \/ SettleOther(s) \/ LoseSession(s)
    PROVE  EnvelopeInv'
<1>1. /\ pc[s] \in {"locked", "profile", "reply"} /\ account' = account
      /\ UNCHANGED <<session, currentUser, envelope>>
      BY DEF Unsigned, SendRequest, ChangeBackend, ReadBackend, ReportAuthenticated, ReadProfile,
             SettleList, SettleOther, LoseSession, Answered, app
<1>2. CASE Finish(s)
      BY <1>1, <1>2, SameBoxes, QuietFinish
<1>3. ASSUME NEW step \in {"clear", "call", "profile"}, Goto(s, step), UNCHANGED locals
      PROVE  EnvelopeInv'
  <2>1. Moved(s, step, job[s], made[s], reply[s])
        BY <1>3, GotoMoves DEF locals, Free, Held
  <2> QED BY <1>1, <2>1, SameBoxes, QuietMove DEF Installing
<1> QED BY <1>2, <1>3
        DEF Unsigned, SendRequest, ChangeBackend, ReadBackend, ReportAuthenticated, ReadProfile,
            SettleList, SettleOther, LoseSession

LEMMA ServeEnvelope == ASSUME TypeInv, EnvelopeInv, NEW s \in Slots, Serve(s) PROVE EnvelopeInv'
<1>1. /\ pc[s] = "call" /\ Goto(s, "reply") /\ UNCHANGED <<session, currentUser, envelope, job>>
      BY DEF Serve, ServeLogin, ServeRegister, ServeList, ServeAdd, ServeDelete, ServeEncryption,
             ServeLogout, ServeRequest, ServePreference, ServeProbe, ServeOther, RefuseSession,
             FailRequest, Requested, Answer, app
<1>2. OthersStay(s) /\ pc'[s] = "reply" /\ job'[s] = job[s]
  <2>1. pc'[s] = "reply" /\ \A t \in Slots \ {s} : pc'[t] = pc[t]
        BY <1>1, GotoPlace DEF PlaceStep
  <2>2. \A t \in Slots \ {s} : made'[t] = made[t] /\ reply'[t] = reply[t]
        BY DEF Serve, ServeLogin, ServeRegister, ServeList, ServeAdd, ServeDelete,
               ServeEncryption, ServeLogout, ServeRequest, ServePreference, ServeProbe, ServeOther,
               RefuseSession, FailRequest, Answer, TypeInv, LocalTypes
  <2> QED BY <1>1, <2>1, <2>2 DEF OthersStay
<1>3. BoxesStay
  <2>1. CASE ServeRegister(s)
        BY <2>1 DEF ServeRegister, BoxesStay, TypeInv, GlobalTypes
  <2>2. CASE ServeAdd(s) \/ ServeDelete(s) \/ ServeEncryption(s)
    <3>1. Mine \in Backends \X Users /\ account[Mine] \in Accounts
          BY <2>2, MineExists
             DEF ServeAdd, ServeDelete, ServeEncryption, Requested, TypeInv, TaskInv, Remote
    <3>2. \/ account' = [account EXCEPT ![Mine].vault = @ \cup {made[s].entry}]
          \/ account' = [account EXCEPT ![Mine].vault = @ \ {job[s].entry}]
          \/ account' = [account EXCEPT ![Mine].crypt = job[s].algorithm]
          BY <2>2 DEF ServeAdd, ServeDelete, ServeEncryption
    <3> QED BY <3>1, <3>2 DEF BoxesStay, TypeInv, GlobalTypes, Accounts
  <2>3. CASE account' = account
        BY <2>3, SameBoxes
  <2> QED BY <2>1, <2>2, <2>3
          DEF Serve, ServeLogin, ServeList, ServeLogout, ServeRequest, ServePreference,
              ServeProbe, ServeOther, RefuseSession, FailRequest
<1>4. CASE ServeLogin(s)
  <2> DEFINE a == <<backend, job[s].user>>
             token == [user |-> job[s].user, backend |-> backend]
  <2>1. /\ made'[s] = [token |-> token, envelope |-> KeyBundle(a)] /\ account' = account
        BY <1>4 DEF ServeLogin, TypeInv, LocalTypes
  <2>2. AccountOf(made'[s].token) = a /\ made'[s].envelope.box = account'[a].box
        BY <2>1 DEF AccountOf, KeyBundle, Envelope
  <2>3. EnvelopeTask(s)'
        BY <1>1, <1>2, <2>2 DEF EnvelopeInv, EnvelopeTask, Op, Installing
  <2> QED BY <1>1, <1>2, <1>3, <2>3, QuietKeeps
<1>5. CASE ~ServeLogin(s)
  <2>1. ~(Op(s) = "login" /\ reply'[s] = "ok")
        BY <1>5 DEF Serve, ServeRegister, ServeList, ServeAdd, ServeDelete, ServeEncryption,
                    ServeLogout, ServeRequest, ServePreference, ServeProbe, ServeOther,
                    RefuseSession, FailRequest, Requested, TypeInv, LocalTypes
  <2>2. EnvelopeTask(s)'
        BY <1>1, <1>2, <2>1 DEF EnvelopeInv, EnvelopeTask, Brought, Op, Installing
  <2> QED BY <1>1, <1>2, <1>3, <2>2, QuietKeeps
<1> QED BY <1>4, <1>5

LEMMA WritesEnvelope ==
    ASSUME TypeInv, EnvelopeInv, NEW s \in Slots,
           \/ SettleLogin(s) \/ SettleRegister(s)
           \/ InstallEnvelope(s) \/ InstallUser(s) \/ InstallFlag(s)
           \/ ClearSession(s) \/ ClearUser(s) \/ ClearEnvelope(s) \/ ClearCache(s)
           \/ DropUser(s) \/ DropFlag(s)
    PROVE  EnvelopeInv'
<1>1. account' = account /\ BoxesStay
      BY SameBoxes
         DEF SettleLogin, SettleRegister, InstallEnvelope, InstallUser, InstallFlag, ClearSession,
             ClearUser, ClearEnvelope, ClearCache, DropUser, DropFlag
<1>2. EnvelopeTask(s) /\ pc[s] # "idle"
      BY DEF EnvelopeInv, SettleLogin, SettleRegister, InstallEnvelope, InstallUser, InstallFlag,
             ClearSession, ClearUser, ClearEnvelope, ClearCache, DropUser, DropFlag, Answered
<1>3. ASSUME NEW step \in Installing \cup Clearing \cup {"dropUser", "dropFlag"}, NEW m,
             Moved(s, step, job[s], m, reply[s]),
             step \in Installing => m = made[s] /\ Brought(s)
      PROVE  EnvelopeTask(s)' /\ OthersStay(s) /\ \A t \in Slots : EnvelopeTask(t)'
  <2>1. EnvelopeTask(s)'
        BY <1>1, <1>2, <1>3 DEF Moved, EnvelopeTask, Brought, Op, Installing, Clearing
  <2> QED BY <1>1, <1>3, <2>1, OthersKeep DEF Moved
<1>4. CASE SettleLogin(s)
  <2>1. Moved(s, "installEnvelope", job[s], made[s], reply[s]) /\ Brought(s)
        BY <1>4, GotoMoves DEF SettleLogin, Answered, Brought, locals, Held, Installing
  <2>2. \A t \in Slots : EnvelopeTask(t)'
        BY <1>3, <2>1 DEF Installing
  <2>3. pc'[s] = "installEnvelope"
        BY <2>1 DEF Moved
  <2> QED BY <2>2, <2>3 DEF EnvelopeInv
<1>5. CASE SettleRegister(s)
  <2>1. session' = None /\ Goto(s, "dropUser") /\ UNCHANGED <<job, reply>> /\ pc[s] = "reply"
        BY <1>5 DEF SettleRegister, Answered
  <2>2. OthersStay(s) /\ pc'[s] = "dropUser" /\ job'[s] = job[s]
        BY <1>5, <2>1 DEF SettleRegister, Goto, TypeInv, LocalTypes, OthersStay
  <2>3. EnvelopeTask(s)'
        BY <1>2, <2>2 DEF EnvelopeTask, Brought, Op, Installing
  <2> QED BY <1>1, <2>1, <2>2, <2>3, OthersKeep DEF EnvelopeInv
<1>6. CASE InstallEnvelope(s) \/ InstallUser(s)
  <2>1. PICK step \in {"installUser", "installFlag"} : Goto(s, step)
        BY <1>6 DEF InstallEnvelope, InstallUser
  <2>2. Moved(s, step, job[s], made[s], reply[s]) /\ Brought(s)
        BY <1>6, <2>1, GotoMoves DEF InstallEnvelope, InstallUser, Brought, locals, Held, Installing
  <2>3. \A t \in Slots : EnvelopeTask(t)'
        BY <1>3, <2>2 DEF Installing
  <2>4. /\ session' = session /\ made[s].token = session /\ made[s].envelope # None
        /\ made[s].envelope.box = account[AccountOf(session)].box
        BY <1>2, <1>6, <2>2, BroughtTyped, DesktopVaultAssumption
           DEF DesktopVaultAssumption, InstallEnvelope, InstallUser, TypeInv, TaskInv, EnvelopeTask,
               Installing
  <2>5. CASE InstallEnvelope(s)
    <3>1. /\ envelope' = made[s].envelope /\ currentUser' = currentUser /\ pc'[s] = "installUser"
          BY <2>2, <2>5, GotoPlace DEF InstallEnvelope, PlaceStep
    <3> QED BY <1>1, <2>3, <2>4, <3>1 DEF EnvelopeInv
  <2>6. CASE InstallUser(s)
    <3>1. /\ currentUser' = Profile(s) /\ envelope' = envelope /\ pc[s] = "installUser"
          BY <2>6 DEF InstallUser
    <3>2. Profile(s).envelope = made[s].envelope
          BY DEF Profile
    <3>3. \A t \in Slots : pc[t] # "installEnvelope"
          BY <3>1, HolderAlone DEF Held, Installing
    <3> QED BY <1>1, <2>3, <2>4, <3>1, <3>2, <3>3 DEF EnvelopeInv
  <2> QED BY <1>6, <2>5, <2>6
<1>7. CASE InstallFlag(s)
      BY <1>1, <1>7, QuietFinish DEF InstallFlag
<1>8. CASE ClearSession(s) \/ ClearUser(s) \/ ClearEnvelope(s)
  <2>1. PICK step \in Clearing : Goto(s, step)
        BY <1>8 DEF ClearSession, ClearUser, ClearEnvelope, Clearing
  <2>2. Moved(s, step, job[s], made[s], reply[s]) /\ step \notin Installing
        BY <1>8, <2>1, GotoMoves
           DEF ClearSession, ClearUser, ClearEnvelope, locals, Held, Installing, Clearing
  <2>3. session' = None
        BY <1>8 DEF ClearSession, ClearUser, ClearEnvelope, TypeInv, TaskInv, Clearing
  <2> QED BY <1>3, <2>2, <2>3 DEF EnvelopeInv
<1>9. CASE ClearCache(s)
      BY <1>1, <1>9, QuietFinish DEF ClearCache
<1>10. CASE DropUser(s)
  <2>1. Moved(s, "dropFlag", job[s], made[s], reply[s])
        BY <1>10, GotoMoves DEF DropUser, locals, Free
  <2>2. \A t \in Slots : EnvelopeTask(t)'
        BY <1>3, <2>1 DEF Installing
  <2>3. /\ currentUser' = None /\ UNCHANGED <<session, envelope>> /\ pc[s] = "dropUser"
        BY <1>10 DEF DropUser
  <2>4. \A t \in Slots : pc[t] = "installEnvelope" => pc'[t] = "installEnvelope"
        BY <2>1, <2>3 DEF Moved, OthersStay
  <2> QED BY <1>1, <2>2, <2>3, <2>4 DEF EnvelopeInv
<1>11. CASE DropFlag(s)
      BY <1>1, <1>11, QuietFinish DEF DropFlag
<1> QED BY <1>4, <1>5, <1>6, <1>7, <1>8, <1>9, <1>10, <1>11

LEMMA NextEnvelope ==
    ASSUME PageCommands PROVE TypeInv /\ EnvelopeInv /\ [Next]_vars => EnvelopeInv'
<1> SUFFICES ASSUME TypeInv, EnvelopeInv, [Next]_vars PROVE EnvelopeInv'
    OBVIOUS
<1>1. ASSUME NEW s \in Slots, Run(s) PROVE EnvelopeInv'
      BY <1>1, PrepareEnvelope, HeldEnvelope, WritesEnvelope DEF Run, Settle
<1>2. CASE \E s \in Slots : Invoke(s) \/ Run(s) \/ Serve(s)
      BY <1>1, <1>2, InvokeEnvelope, ServeEnvelope
<1>3. CASE TurnedAway \/ UNCHANGED vars
      BY <1>3 DEF TurnedAway, vars, app, tasks, locals, EnvelopeInv, EnvelopeTask, Brought, Op
<1> QED BY <1>2, <1>3 DEF Next

\* For the page as it is, which neither rotates nor stores envelopes: the key
\* that the client unwraps with a phrase is the one of the account whose token
\* it sends, however additions, sign-ins and registrations interleave.
THEOREM EnvelopeIsOfSession ==
    ASSUME PageCommands
    PROVE  Spec => []EnvelopeOfSession
<1>1. TypeInv /\ EnvelopeInv => EnvelopeOfSession
      BY DEF EnvelopeInv, EnvelopeOfSession, Settled, Installing, Mine, AccountOf
<1> QED BY <1>1, InitEnvelope, TypedInvariant, NextEnvelope, PTL DEF Spec

=============================================================================
