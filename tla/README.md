# Formal model of SecureGuard

SecureGuard is a password manager: a Go server over PostgreSQL and Redis, a
desktop client (Tauri: Rust and JavaScript) and a CLI client (Dart).  This
directory holds TLA+ modules translated from its code, the TLC runs that check
them on small instances and proofs checked by TLAPS.  Paths below are relative
to the repository.

`PROJECT.json` is the index: components, runs, mutants, the source lines of
every definition (`map`), hazards, findings and theorems.

## 1. Inventory

### Server (`server/`)

| Part | State | Operations | Hard because |
|---|---|---|---|
| Sessions and authentication (`infra/server/auth.go`, `app/sessions`, `sessions_repository.go`) | table `sessions` | `Authentificator.User` (IsValid, SetLastSeen, GetOwner) before every RPC; `Create`; `Revoke`, `Logout`; `Worker.loop` every 30 s | up to four statements per authentication, no transaction; RPCs, worker and clock interleave; statements fail, the process restarts |
| Accounts (`infra/server/login_service.go`, `app/login`, `app/users`, `users_repository.go`) | tables `users`, `preferences`, `users_keys` | `Register`, `Authorize`, `Info`, `ChangeTheme/Language/Crypt/Key` | a registration is five statements without a transaction; the name that is tested is not the name that is stored |
| Vault (`app/passwords`, `passwords_repository.go`) | table `passwords` | list, create, update, delete | owner test, existence test, write and read back are separate statements |
| Rate limiting (`app/ratelimit`, `infra/ratelimit/redis.go`) | a Redis counter per bucket and address | `Allow` | window boundaries; refused requests count |
| Statistics (`app/stats`, `stats_repository.go`) | tables `activity`, `statistics` | hourly and daily workers, `ByDate` | failed and missed periods, restarts |
| Metadata, localisations (`app/meta`) | none | `GetLocalisations`, `CheckCompability` | two goroutines share an error variable |
| Concurrency helpers (`shared/safe`) | none | `Hydration`, `GoAsync` | goroutines share a captured error; cancellation |
| Start and shutdown (`starter/start.go`) | the process | graceful stop | a 10 s limit against running handlers |
| Logging, configuration, interceptors, generated code | files, none | | pure I/O or stateless |

### Desktop client (`client/desktop/src-tauri`)

| Part | State | Operations | Hard because |
|---|---|---|---|
| Backend (`main.rs`) | `AppState`: authenticated, API client, current user, vault envelope, password cache | some thirty Tauri commands, run concurrently | `authenticated` is tested before a command waits for the mutex; five places are written one after the other; the cache goes stale |
| API client (`api.rs`) | endpoint, session token | one method per RPC; paged lists; decoding of entries | one mutex across whole RPCs; the list changes between two pages; entries of earlier clients |
| Cryptography (`crypto.rs`) | none | wrap, unwrap, rewrap the master key; encrypt, decrypt | which key opens what, with which algorithm |
| Clipboard (`main.rs`) | the system clipboard, one sleeping task per copy | `copy_secret_to_clipboard`, `copy_password` | tasks pile up; the one attempt to empty the clipboard can fail |
| Screenshot guard (`screenshot_guard.rs`) | a flag, the affinity of the window | set; two polling threads | read, then act; the clipboard is shared with the tasks above |
| Process protection (`protection.rs`) | a latch, the stubs of ntdll, handles of snapshots | five threads of checks; a direct system call | the process changes the very code its threads watch; a returning "exit" |
| User interface (`main.js`) | the page, localStorage | invokes the commands | decides which commands can overlap |

### CLI client (`client/cli`)

| Part | State | Operations | Hard because |
|---|---|---|---|
| Clipboard (`services/clipboard_service.dart`) | generation, timer, the system clipboard | `copyTemporarily` | one isolate; a timer that fires only while the event loop is free; commands that fail |
| Shell (`tui/tui.dart`, screens, `login_service.dart`, `global_interceptor.dart`) | session, route, history | keys; logout; the unauthenticated callback | the callback runs in the middle of handlers; an update is three calls |
| Cryptography, rendering | | | computation, drawing |

### How they interact

A client calls the server over gRPC with the metadata `client` (a hash of the
device) and `session`.  Every handler of the server runs in a goroutine of its
own, authenticates through `Authentificator.User` and issues single SQL
statements; handlers and workers share nothing but the database.  The
interceptor of the CLI and `clear_auth_state` of the desktop drop the local
session when a call is refused as unauthenticated.

In the desktop client the page invokes commands; each is a task of the Tokio
runtime.  They share `AppState`, whose `ApiClient` is behind a mutex that is
held across each RPC.  The clipboard tasks, the two threads of the screenshot
guard and other programs share the system clipboard.  The threads of the process
protection share with the rest only the latch, ntdll and the handle table.

### What makes each part correct

Sessions: nobody is admitted on a session that was dead when he came, a
revocation is never undone and never somebody else's, expired sessions get
revoked.  Accounts: names stay unique, a sign-in tells the client a name that
works, no session exists on an account that cannot be loaded, a wrapped key is
never overwritten by another request.  Clipboards: no secret or image stays behind.  Vault: a list is one moment of the
vault, entries that were written open, only the owner changes an entry.  Desktop
state: the places that say who is signed in agree, nothing of a user survives
his logout, the envelope held is that of the account, a lock takes effect, one
phrase opens the vault.  Protection: what stays where a loop looks for it is
detected, and only that; the direct call asks for what it
means.  Rate limiting: a bound on what any stretch of time admits.  Statistics:
one snapshot per period.  Shell: the state shown belongs to the session held.

## 2. Modules

| Module | Models | Extends / instantiates |
|---|---|---|
| `SessionAuthority` | what sessions promise: issue, admit, revoke, expire as atomic steps | |
| `Sessions` | the table, the handlers statement by statement, failures, restarts, the worker | instantiates `SessionAuthority` |
| `SessionsProofs` | the inductive invariant and five properties of `Sessions` | `Sessions`, `TLAPS` |
| `SessionsRefinement` | `Sessions` implements `SessionAuthority` | `SessionsProofs` |
| `Usernames` | `Require.Normalize` and the look-up by lower case, as operators on short names | |
| `Accounts` | registration, sign-in and the user RPCs over their three tables | `Usernames` |
| `AccountsProofs` | two inductive invariants and seven properties of `Accounts` | `Accounts`, `TLAPS` |
| `CliClipboard` | `copyTemporarily`, its timer and the event loop | |
| `CliClipboardProofs` | inductive invariant of `CliClipboard` | `CliClipboard`, `TLAPS` |
| `Envelopes` | `crypto.rs`: which key opens what | |
| `DesktopVault` | `AppState` and the session under concurrent commands | `Envelopes` |
| `DesktopVaultProofs` | three inductive invariants and five properties of `DesktopVault` | `DesktopVault`, `TLAPS` |
| `EntryCodec` | the forms of an entry, their decoding, the keys tried on them | |
| `DesktopEntries` | lists in pages, cache, additions, deletions beside another client | `EntryCodec` |
| `DesktopEntriesProofs` | two inductive invariants and five properties of `DesktopEntries` | `DesktopEntries`, `TLAPS` |
| `DesktopClipboard` | copies of secrets and the tasks that remove them | |
| `ScreenshotGuard` | the flag, the command and two threads of `screenshot_guard.rs` | |
| `DesktopGuards` | both over one clipboard | `DesktopClipboard`, instantiates `ScreenshotGuard` |
| `DesktopGuardsProofs` | inductive invariant and two properties of `DesktopGuards` | `DesktopGuards`, `TLAPS` |
| `NtStubs` | `get_ssn`: the number of a system service from stubs that may be hooked | |
| `ProtectionGuards` | the threads of `protection.rs`, the latch, handles | `NtStubs` |
| `ProtectionProofs` | inductive invariant and five properties of `ProtectionGuards` | `ProtectionGuards`, `TLAPS` |
| `MC...` | symmetry sets, names and sample values for TLC | the module of that name |

### Sessions

`row[t]` is a row of `sessions`, `ids` the primary keys present.  Each slot in
`Requests` is a goroutine: `pc[r]` says which statement comes next, `call[r]`
what was asked, `info[r]` what `IsValid` read, `uid[r]` is `Meta.UserID`.  One
action is one statement or one decision on its result: `ReadInfo`, `Decide`,
`Touch`, `ReadOwner` are the four parts of `Authentificator.User`; then the body
runs: `Serve` for every RPC that leaves the table alone, `FindTarget` and
`Revoke` for `SessionsService.Revoke` and `Logout`, `Create`, `Refuse` and
`Load` for a sign-in.  `WorkerTick` reads the expired sessions, `WorkerRevoke`
revokes one.  `ReadFails`, `WriteFails` and `WorkerRevokeFails` make a statement
report an error, a write with or without its effect; `Crash` loses every
handler and the worker's list and keeps the table.

Merged into one step: the existence test that each repository method makes
before its statement.  No query deletes a session or a user, so the two always
agree.  `doomed` is a history variable: the session presented was dead when the
request arrived.

Assumed: the server and PostgreSQL read the same clock (`IsValid` compares with
`time.Now`, the worker's query with `now()`); a fresh random token is new.

### Accounts

`username`, `password`, `prefs`, `keys` are the columns of the three tables by
user, `sessions` the users for whom a session was opened.  `Check` is the test
before, `Insert`, `InitPreferences`, `CreateUserKey`, `OpenSession` are the four
writes of a registration, `ComparePassword` and `Lookup` those steps of a
sign-in, `Load` and `LoadKey` the two reads of `GetByID`, and `Update` an
`UPDATE` of preferences or key, which is silent when the row is missing.
`StatementFails` and `Crash` are as above.  Names are sequences over four
characters that stand for a letter, a capital, another letter and everything
else; `Normalize` drops, cuts and replaces as the code does, with shorter
lengths.  Passwords are compared, not hashed.

### CliClipboard

The isolate is `reading` (blocked in `readKey`, of the main loop or of a
dialog), `copying` (awaiting a clipboard command), `calling` (awaiting an RPC),
`quit` (the main loop has ended) or `exited`.  `TimerFires` needs a free event
loop; the child process that it starts (`wipes`) does not.  A secret is known by
the number of the copy that put it on the clipboard.  A Linux desktop tries
several commands; `CopyFails` is one that fails, before or after it took effect.

### Envelopes and DesktopVault

A ciphertext is the pair of its key and its text, and another key opens nothing
(AES-GCM authenticates).  An envelope is the wrapped master key with the name of
the algorithm that it is stored under, which may be another than the one it was
wrapped with: that difference is what `desktop_label` is about.

`authenticated`, `currentUser`, `envelope`, `cache` are the fields of `AppState`;
`backend` and `session` those of `ApiClient`; `holder` and `waiting` its fair
mutex.  A task is a slot with a step `pc`, a command `job`, an answer `reply` and
its result `made`.  The steps of every command are: `Invoke` (the page allows it
and the test of `authenticated` passed, or `TurnedAway`), the work before the
mutex, `Acquire`, the test of the session, `Serve` (the RPC at the server), the
answer, which may be lost, and the writes that `Settle` it, with
`clear_auth_state`, the end of a sign-in and the end of a registration written
out store by store.  A server may refuse the session at any request
(`RefuseSession`): it expired, or was revoked from anywhere.

The page (`main.js`) is modelled as it is.  It disables `login-btn` and `reg-btn`
each while its own command runs (4109, 4177) and never the links between the
forms (4208-4220), so sign-ins and registrations overlap, also with somebody
signed in.  Then the end of a registration, which resets user and flag after it
has released the mutex (`main.rs:290-306`), takes them from a sign-in that came
between, and a sign-in or a registration replaces or drops a token without
clearing the cache.  The history variable `crossed` records exactly that, from the
step in which it happens to the one that mends it, and `SignedInMeans` and
`CacheOfSession` say what holds in its presence and without it.  The page may be
loaded anew at any time (`IsAuthenticated`): its commands then go on and nobody
awaits them (`orphaned`), and it asks `get_session_user` (`ReadProfile`) for who is
signed in.  A change of the server ends the session in the client, while the page
goes on showing the user: it tests `reauth_required` (3124) where its own function
answers `reauthRequired` (3029-3032).  `add_password` returns the entry as the
server has it, without an envelope, so the page keeps none (4319-4325).  `main.js`
calls neither `rotate_seed_phrase` nor `store_vault_envelope`; both are commands
that the client offers, and are in the run `desktop_vault`.

Merged into one step: a command's return and what the page does with its answer.
Assumed of data: a token is known by its user and its server, an entry by the
master key that encrypts it, a list by its session.  The session that a
registration opens on the server is never used by this client and left out; the
two RPCs of the statistics and the pages of a list are one answer here.
`get_vault_envelope` only reads, nothing calls it, and it is left out.

### EntryCodec and DesktopEntries

An entry is two strings, `login` and `pass`: ciphertexts of today's clients, or a
JSON object or a salt of earlier ones.  `DecodeEntry` is `decode_password_entry`
with its fallbacks in their order, `DecryptEntry` the keys that `main.rs` tries.
`rows` is the table as one user sees it, newest first; `api`, `offset` and `out`
are the locals of `list_passwords` between two pages; `cache` is the cache of
`AppState` and the cards of the page.  `CliCreate`, `CliDelete` and the three
calls of a CLI update (`UpdateService`, `UpdateLogin`, `UpdatePass`, or
`UpdateFails` between them) happen between any two RPCs of the desktop client.
`moments` (every state of the vault since the list was asked for) and `torn`
(updates that broke off) are history variables.

The server answers the length of a page as the number of entries
(`passwords_service.go:95`), so the client's loop stops after its first page and
a list never shows more than that page.  This is what makes `ListIsSnapshot`
true: its mutant corrects the count, and the lists of two pages then mix two
moments.  A user with more entries than a page (200) does not see the rest.

A deletion by the desktop client sends an id that is a hash of the content, and a
row's id is a UUID: the server's owner look-up finds no row
(`app/passwords/passwords.go:74`), the answer is an error, and entry and card
both stay (`AnswerDelete`).

Left out: the answer NotFound for a user without entries, failures of
`created_at` to be distinct, hash collisions, a wrong phrase.

### DesktopClipboard, ScreenshotGuard, DesktopGuards

`copies[c]` is a copy: asked, sleeping with its timeout, over or failed.  `clip`
is the clipboard: empty, a secret, or a text or image of another program.
`WriteSecret` does not test `authenticated` again, so a secret can be copied
after a sign-out; `Wipe` empties whatever is there.  `on` is `PROTECTION_ON`,
`affinity` what the window has, and `setter`, `keeper`, `watcher` are the command
and the threads, each between its read and its act.  `handle` is `WINDOW_HWND`,
taken once at the start (`screenshot_guard.rs:60-67`): there is none, then no
thread starts; or it is that of the window; or the window was made anew
(`WindowIsMadeAnew`) and `IsWindow` fails for it (127) from then on.
`SetDisplayAffinity` gives up on such a handle, and its calls may fail on a live
one.  The clipboard may be taken by another program.

`GuardReturns` is therefore about the window of the start, for as long as it
exists.  For a window made anew the code never brings the protection back, and
nothing tells the user.  `SecretHasTimer` and `SecretGoes` say that a secret is
not kept too long; how long it is kept at least is not a property, because the
code has none: see the findings.

Left out: threads that do not start, the two kinds of affinity (a window is
excluded or not), image formats.  When no setting is stored the first start
leaves the guard off although the page's default is on (`main.js`, 3255-3280);
the model starts with it off.  The page has one guard command at a time
(`settingsSyncInProgress`, 3218-3233).

### NtStubs and ProtectionGuards

`Programme` is the order of the checks of each of the five guard threads and of
the main thread; `at[t]` is the next one.  A check reads `signs` (what a debugger
or another program shows), `armed` (the threads whose debug registers are set;
`check_hardware_breakpoints` asks for those of its own thread only), `memory` (the
stubs of ntdll) or `baseline` (whether the hash of the code was taken when it was
already changed), and `Latch`es what it finds.  What it asks of a system service
it asks through the stub of that service, and a hook there answers what it likes
(`Answers`): the debugger port that six checks depend on, the yield, the list of
processes and the parent, the debug registers.  So a check has a set of possible
findings.  `check_ntdll_hooks` reads stub by stub (`reading`), and any stub may
change between two reads.  A look at the processes is a snapshot: `OpenSnapshot`,
`LookFinds`, `LookEnds`, `CloseSnapshot`, with `owners` saying whose each handle is;
the rest of the client opens and closes handles beside it.  `corrupt_and_exit`
returns, so the two lines behind it run: a look that found something closes its
snapshot twice.  `GetSsn` finds the number of a service from its own stub, from
the nearest intact neighbour, or from the file.

`WatchedIsDetected` promises what the code can keep: a sign that stays, while the
services its check asks are not hooked; debug registers that stay set in the
watchdog or in the thread that looks for hooks; a watched stub that stays hooked.
It says nothing of a hook that moves from stub to stub between two reads, of the
registers of other threads, and of a change behind the first three bytes of a
stub: the code finds none of these.

Assumed: stubs lie side by side in the order of their numbers and are not
changed while they are read; the file has each stub's own number
(`NtStubsAssumption`).  A check is one step, but for `check_ntdll_hooks` and the
looks at the processes.  Left out: what single instructions do (`int 2d`, junk
macros), hashes of names, checks that nothing calls, `erase_pe_header`.

## 3. Runs

| Run | Asks | Bounds |
|---|---|---|
| `sessions_race` | types, admission, durable revocation, last-seen, expired sessions get revoked, refinement | 1 user, 1 client, 1 session, 2 requests, clock 0..3, lifetime 1, 1 failure |
| `sessions_owners` | rightful revocation, refinement | 2 users, 2 clients, 2 sessions, 1 request, clock 0..2, 1 failure |
| `accounts_race` | types, unique names, sign-in, usable sessions, whole registrations, keys | 2 users, 2 requests, 2 passwords, five names that collide in every way, 1 failure |
| `clipboard_race` | types, guarded secrets, secrets get wiped | 3 copies, 2 failures |
| `clipboard_unattended` | violation: unattended, they do not | 3 copies, no failure |
| `desktop_sessions` | who is signed in, the cache, tokens, the envelope | 1 user name on 2 servers, 1 phrase, 2 tasks, 14 kinds of commands: all that the page calls |
| `desktop_vault` | types, one phrase opens the vault, commands return, locks take effect | 1 user, 1 server, 2 phrases, 1 algorithm, 2 tasks, 6 commands |
| `desktop_label` | violation: with two algorithms it does not | 1 task, 2 algorithms, 5 commands |
| `desktop_entries` | types, ids, entries open, lists are snapshots | pages of 2, up to 4 rows, 2 of them earlier, 3 forms, 2 services, 2 updates |
| `desktop_delete` | violation: a deleted entry is not gone | 1 row |
| `desktop_guards` | types, timers, secrets and images go, the guard returns | 2 copies, timeouts 1..2, clock 0..2, 1 window and its successor |
| `protection` | types, alarms, the direct call, handles, detection | 3 stubs, 2 of them watched, neighbours at distance 1, 5 signs or the registers of 2 threads, one at a time, 4 hookings, 2 handles |

Why the bounds suffice.  The races on sessions are between two handlers, or a
handler and the worker, over one row, so two requests and one session show
them; what needs two owners or two clients is in a run of its own with one
request, since the owner comparison relates one request to two rows.  A
lifetime of 1 and a clock up to 3 give each session a live, a last and an
expired moment.  One failure is enough to break any single statement, and the
proofs cover any number.  For accounts, two requests and two rows are the least
that can collide; the names are chosen so that two requests store the same name
with and without testing the same one, that a name is cut, generated or
refused.  Three copies are one whose timer is pending, one that overtakes it and
one more after a failure.

For the desktop state, a race is between two tasks; a third would queue behind
them.  One user name on two servers gives two different tokens, and with them
overlapping sign-ins and registrations of two sessions; changing the server is
the only way to meet a second one.  That a profile is never of another user on
the same server needs two names, which the theorem covers
(`SignedInAgrees`).  `desktop_sessions` looks at states without the entries of the
vaults (`VIEW WithoutEntries`), which none of its properties and none of its
commands' guards reads, and up to a swap of the two tasks.  Two phrases are an old
and a new one.  Commands are divided over the two large runs by the state they
touch.  For
entries, four rows are two full pages, and two rows of earlier clients let two
forms meet; pages of 2 stand for 200.  For the guards, two copies are an
earlier and a later secret, with timeouts that let either be due first; a task
whose time lies beyond the clock bound wakes at the bound.  For protection, three
stubs at distance 1 give a middle one with both neighbours and two at an edge;
the four hookings are none, one beside a late change on either side, and all; they
follow each other in any order, also between two reads of `check_ntdll_hooks`.  Of
the signs, two are of the debugger check (one asked of a service, one not), two of
the looks at the processes and one is the code's hash; the two threads that look
at debug registers may have theirs set.  The threads may start in groups
(`MayStart`): they share only the latch, the stubs and handles.  The watchdog alone
opens snapshots, the pair that touches the same stubs (`syscall`, `patch`) is
together, and in the third group two threads race for the latch.

Every property of a passing run has a mutant: a plausible slip in a mapped
definition for which TLC finds the property violated.  The mutated forms stand
beside the definitions, marked `Mutant:`.

### Fairness

`Sessions!FairSpec` has weak fairness on the worker alone: its ticker fires as
long as the process runs, and a crashed process is restarted by its container
(`docker-compose.yml`).  Failures are bounded, which says that the database does
not fail for ever.  No client is obliged to do anything.

`CliClipboard!FairSpec`: time passes and child processes end (weak fairness),
and a timer that has elapsed is served if the loop becomes free again and again
(strong fairness), because Dart's event queue is first in, first out.  Nobody
is obliged to press a key, so `WipedIfLoopRuns` is conditional on the loop
getting its turn, and `WipedUnattended`, which is not, fails.

`DesktopVault!FairSpec`: the runtime runs each task that can go on, and the
server answers each RPC or the connection ends.  The client sets no time limit
on an RPC: without that second half a silent server would keep the mutex and with
it the lock of the client waiting.  Nobody is obliged to invoke anything.  That
no task starves in the queue is a result, not an assumption: the mutex is first
come, first served, and the mutant that lets later tasks pass breaks
`CommandsReturn`.

`DesktopGuards!FairSpec`: time passes, the runtime runs a task that is due, the
threads run (weak fairness), the watcher does not find the clipboard taken for
ever, and the calls that protect a live window do not fail for ever (strong
fairness of `KeeperSucceeds`, which a stale handle never enables).  The tasks of
copies get no such favour: they try once, and `SecretGoes` excepts a task that
failed.

`ProtectionGuards!Fairness`: the main thread and the threads that watch run (weak
fairness), and a snapshot of the processes does not fail for ever (strong
fairness).  `WatchedIsDetected` speaks of signs that stay.

### Findings

* `clipboard_unattended`, about `README.md:80` and `client/cli/README.md:15` (a
  value is copied "to the clipboard for `30s`"): the client waits for keys in the
  synchronous `readKey` (`tui.dart:105` and every dialog), so that its own timer
  cannot fire.  The secret stays until the user presses a key whose handler
  awaits something, or quits.
* `desktop_label`: the server names the algorithm of a wrapped key after the
  preference of the moment.  After the preference is changed and the user signs
  in again, the client takes the label for the algorithm of the wrapping, and
  the phrase does not open the envelope.
* `desktop_delete`, about `README.md:53` ("delete entries"): the desktop client
  asks the server to delete by an id that it made from the content
  (`api.rs:933`), which names no row.  The server answers with an error, and the
  entry stays.

Met while modelling and not a run of their own:

* In the CLI, `copyTemporarily` cancels the old timer only after it has awaited
  the clipboard command: a timer that is due by then fires during that await,
  passes its generation test and empties the clipboard of the new secret early.
* In the desktop client the task of an earlier copy empties the clipboard of a
  later secret, and the watcher of images a text that was copied after it saw an
  image.  The setting says "How many seconds to keep a copied password in the
  clipboard before it is cleared" (`main.js:1559`); in the model `Wipe` is enabled
  for any due task whatever is there, so this time is an upper bound only.
* In the screenshot guard, `KeeperApplies` may act on a flag read before the
  guard was switched off: the window then stays excluded from capture.  A window
  made anew is never protected again (`screenshot_guard.rs:67`, 127).
* A registration that ends while somebody signs in takes his flag and his user
  and leaves his token: the client then turns every command away, with a live
  session in hand, until the next sign-in (`SignedInMeans`, `crossed`).  A sign-in or a registration
  that overlaps a session leaves the list of that session in the cache until the
  next list or sign-out (`CacheOfSession`).
* After a change of the server the page goes on showing a signed-in user
  (`main.js:3124` and 3029).
* `protection.rs` closes a snapshot twice after a find (1226 and 1237, 1304 and
  1317).  `ForeignCloseNeedsMatch` says when that can matter.
* `README.md:68` calls the protection hooks "release-only"; `init_protection`
  (`main.rs:899`) runs in every Windows build.
* The busy and slow thresholds count an idle or a loaded machine as a debugger;
  so does a running `javaw.exe`.
* An addition that was under way when the user signed out and in as somebody else
  (`main.rs:663`) reaches the vault of the other, under a key he does not have; so
  it does when the same user changed the server meanwhile.  `PhraseOpensVault`
  is checked with one account for that reason.
* When `SetLastSeen` fails in the middle of a sign-in (`login_service.go:56`) the
  handler panics on a nil pointer; the recovery interceptor ends the request,
  which is an outcome of `WriteFails`.

## 4. Proofs

All proofs are for every value of the constants under the named assumptions
(`NoneAssumption` and the like: `None` is not a value of the other kinds, bounds
are natural numbers), with any number of users, sessions, requests, tasks,
copies, failures and steps of the clock.

**Sessions** (`SessionsProofs`).  None of the safety properties is inductive:
that a body runs only for a live session depends on what the handler saw three
statements earlier.  `SessionInv` adds what each step knows: an open session
keeps its owner, client and expiry for ever, what `IsValid` read is a
possible earlier state of the row and a row once revoked stays revoked, so a
verdict "valid" on data read after the arrival implies that the session was
alive on arrival; the target that `FindTarget` accepted keeps its owner; the
worker's list holds only expired sessions.  `SessionInvariant` proves it, one
step per action; types, `AdmissionSound` and `RevocationHolds` follow, and the
action properties `RevokedByRight` and `OnlyLiveUseIsSeen` follow from it one
step at a time.

**Refinement** (`SessionsRefinement`).  `AuthorityIsImplemented` proves
`Spec => Authority!ASpec` for the mapping at the end of `Sessions`: an abstract
session is live while its row is neither revoked nor expired, a visit lasts from
`Begin` to the end of the handler, admission happens at `ReadOwner`.  Each
concrete step is shown to be one abstract step or a stutter: `Touch` is
invisible, a revocation is `Revoke` or, for a worker, a stutter on sessions that
are dead already, the clock is `Expire`, a crash is `Close` of every visit.

**Accounts** (`AccountsProofs`).  `AccountsInv` joins four kinds of facts: about
the tables alone (a key belongs to a user with a row; no two rows share a name;
a session has preferences), about each request's own locals (which steps belong
to which RPC), about the row it works on (a registration that has not come to its
key finds none there, one past it finds one), and that no two unfinished
registrations work on one user.  The last is what keeps one registration's key
from being another's.  What another request may do to a row is summed up once,
in `TablesGrow` and `KeyAppearsBy`, and `OthersKeep` shows that a request's facts
survive it; so each step needs a proof about its own request only
(`StepSuffices`).  `NoTwins`, `SessionsAreUsable` and `RegistrationIsWhole`
follow, and `KeysChangeByOwner` step by step.  None of these depends on what
`Normalize` makes of a name, since the insertion alone decides.

`SignInv` adds names and passwords: the names in the table are ones that
`Normalize` makes (`NamesOK`), only users with a row have preferences or sessions
(`RowsOK`), and a request past its insertion or its password test works on the
row that has its password, from which its answer takes the name (`PasswordInv`).  It rests on `NormalizeIsStored`: however a name is mangled, what
the loop of `sanitizeUsername` and the two limits leave is in lower case and
longer than the shortest name a client may give.  The loop is a recursive
function, and what it keeps is shown by a least counterexample
(`LeastNumber`, from the well-foundedness of `<`).  `AnswerSignsIn` and the types
follow; `NamesAndPasswordsStay` says that no step whatever changes a name or a
password that was given.

**CLI clipboard** (`CliClipboardProofs`).  `SecretIsGuarded` needs two more facts:
a timer that is set is of the current generation, and when a copy returns, nothing
but its own secret is on the clipboard, so cancelling the old timer loses none.
The first shows that the generation test never fails.

**Desktop state** (`DesktopVaultProofs`).  Nothing is assumed here of what the page
lets overlap: any number of sign-ins, registrations, sign-outs and changes of the
server run at once, with any users, servers and algorithms.

`TypeInv` says who holds the mutex in which steps (`MutexOK`), what a task has in
hand at each step (`TaskInv`), and that an account stands behind the session, without
which the answer of a sign-in would have no envelope; the types follow.

`SignedInMeans` and `CacheOfSession` are about states in which nobody is in the
middle of a write, so `AuthInv` says what holds in the middle: how far a sign-in or
`clear_auth_state` has come, that only the holder of the mutex is there, and that
flag and user without a token are there only while a registration is about to
reset them.  The two properties follow, and `TokenStaysHome` from it and `TypeInv`:
a token of another server is there only until `clear_auth_state`.

`EnvelopeIsOfSession` is about the page as it is, which calls neither
`rotate_seed_phrase` nor `store_vault_envelope` (`PageCommands`).  The envelope that
the client holds is read by `add_password` long before it is used, and written
back without the mutex, when another session may be there.  `EnvelopeInv` shows
why this does no harm: `add_password` writes only where there is none, and a
session without an envelope exists only in the middle of a sign-in, which
overwrites it.  The mutant that writes always breaks it.

`PhraseOpensVault` is only model-checked, with one account and one algorithm, and is
not true without such limits: it fails with two algorithms on offer (the run
`desktop_label`), and with two commands of which one changes the account or the
server while the other holds an entry (TLC finds it with two users on one server
and with one user on two).

**Lists** (`DesktopEntriesProofs`).  A list stops after its first page, because
the server answers that page's length as the count (`FirstPageIsLast`), for any
page size and any vault; and the vault of the moment of that page is among the
moments since the list was asked for (`ListInvariant`).  `ListsAreSnapshots`
follows.

**Entries** (`DesktopEntriesProofs`).  The other properties are about any number of
entries, written by clients of three generations and updated in three calls that
may stop half-way, and about a cache that may be of any age.  `EntriesInv` lists
the forms that a row can have (`Readable`), the fewer forms of one that no update
has torn (`Finished`), and says that a row in today's form implies an envelope
(`KeyOK`); what is decoded from a readable row has an id that determines the
content (`KnownById`), and so has every entry of the cache.  `IdMeansContent` and
`EntriesOpen` follow by cases on the forms.  `DeletionsChangeNothing` is the
universal form of the finding `desktop_delete`: no deletion that the desktop
client asks for removes anything, because the id it sends is that of a content
and never that of a row.

**Desktop clipboard** (`DesktopGuardsProofs`).  A secret comes onto the clipboard
only together with its task and a timeout within the limits
(`TimeoutInLimits`: zero and hours as well), a task ends only together with what
is on the clipboard then, unless it fails, and the watcher of images only ever
empties: so types and `SecretHasTimer` are inductive with `TimeoutsSet`, for the
guard's handle, failing calls and windows made anew as well.

**Protection** (`ProtectionProofs`).  `NumbersAreRight`: whatever pattern of stubs
is hooked, `GetSsn` gives the service's own number or none, for any number of
stubs and any reach.  `GuardsInv` joins the properties with three facts:
whatever a thread may find is found in a disturbed world (`FindingsAreCaused` and
`HitsAreCaused`: a hook that answers what it likes is itself a disturbance; the
process's own changes are not looked at), the system has given to the watchdog
nothing but the snapshot of its look (`OneSnapshot`), and that snapshot is its
own until something was found (`SnapshotIsKept`).

Only model-checked: the liveness properties (`ExpiredIsRevoked`,
`WipedIfLoopRuns`, `CommandsReturn`, `LockTakesEffect`, `SecretGoes`,
`GuardReturns`, `ImagesGo`, `WatchedIsDetected`), for which the prover has no
support under fairness, and `PhraseOpensVault`.  Every other invariant and action
property of the runs is a theorem.

## 5. Not modelled

* Desktop: starting with Windows (`main.rs`, 814-882: registry), the pages of
  `list_sessions` (the server drops revoked sessions after it has cut a page and
  the client counts what is left, so it stops early), the conversion of
  profiles, the DOM.
* Server: rate limiting, statistics, metadata, `shared/safe`, start and shutdown
  are planned; the vault is modelled as far as its clients see it.  Logging,
  configuration, interceptors and generated code are I/O or have no state.
* CLI: the shell; its cryptography and rendering are computation.

The values of passwords and keys are opaque.  The staff check of
`Authentificator.User` is one more reason for a body to refuse.  Rate limiting in
front of sign-ins may refuse them, which is `Refuse` in `Sessions`.
`ClipboardService.clear` is never called.

Failures outside the models: a guard thread that does not start is only logged
and its checks are never made; a secret that was copied before the desktop client
is closed stays on the clipboard, since the timers end with the process (an
exception in `SecretGoes`).

## 6. Plan

Done: sessions with their abstract specification, accounts, the CLI clipboard;
the desktop client's state, entries, clipboard, screenshot guard and process
protection; each with proofs.  Next, in this order:

1. `Passwords`: the vault on the server under concurrent updates and deletes;
   an abstract store of entries that it implements; only the owner changes an
   entry, a done update is seen until the next.
2. `CliShell`: session, route and history under interrupted handlers, logout
   that fails, updates in three calls.
3. `RateLimit`: fixed windows in time, a bound on any stretch of it; proof.
4. `StatsWorker`: periods, failures, restarts; percentiles as a function
   against a reference definition.
5. `Hydration`: the shared error of `safe.Hydration` and `GetLocalisations`.
6. The pages of `list_sessions`; shutdown.
