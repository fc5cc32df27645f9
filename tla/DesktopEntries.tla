---------------------------- MODULE DesktopEntries ----------------------------
(***************************************************************************)
(* The entries of one vault as the desktop client sees them: lists in      *)
(* pages (list_passwords in api.rs), the cache and the cards of the page,  *)
(* additions and deletions, while another client of the same user changes  *)
(* the vault.                                                              *)
(*                                                                         *)
(* A command holds the mutex of the ApiClient across all its RPCs, so that *)
(* one runs at a time (see DesktopVault).  One step is one RPC.            *)
(***************************************************************************)
EXTENDS EntryCodec

CONSTANTS
    Services,
    PageSize,       \* PAGE_SIZE
    Forms,          \* how the entries of earlier clients were written
    MaxEarlier,     \* entries of earlier clients
    MaxRows,        \* entries ever
    MaxVersions     \* writes ever

ASSUME DesktopEntriesAssumption ==
    /\ PageSize \in Nat \ {0}
    /\ MaxEarlier \in Nat /\ MaxRows \in Nat /\ MaxVersions \in Nat
    /\ Forms \subseteq {"jsonPass", "jsonLogin", "salted"}
    /\ Services # {}
    /\ None \notin {UserKey, SeedKey} \cup [kind : {"own"}, n : Nat]
    /\ None \notin [login : SUBSET Nat, password : Nat]

VARIABLES
    rows,       \* the vault on the server, newest entry first
    created,    \* entries so far
    version,    \* writes so far
    torn,       \* entries whose last update is not or never finished
    cli,        \* an update under way in the other client
    envelope,   \* does the client hold a master key for the vault?
    api,        \* what the desktop is doing: "idle", "list" or "delete"
    offset, out,
    target,     \* the id that is to be deleted
    moments,    \* the vault at each moment since the list was asked for
    cache       \* AppState.password_cache, and the cards of the page

vault == <<rows, created, version, torn>>
command == <<api, offset, out, target, moments>>
vars == <<vault, cli, envelope, command, cache>>

-----------------------------------------------------------------------------
(* The server *)

Uuid(n) == [kind |-> "uuid", n |-> n]

\* The number of an entry stands for the time of its creation too.
RowOf(n, serv, login, pass) ==
    [id |-> Uuid(n), at |-> n, serv |-> serv, login |-> login, pass |-> pass]

\* limit and offset over "order by created_at desc"
PageOf(table, from) ==
    SubSeq(table, from + 1, IF from + PageSize < Len(table) THEN from + PageSize ELSE Len(table))

\* Mutant: the number of entries in the vault.
CountOfVault(batch) == Len(rows)

ResponseCount(batch) == Len(batch)

\* The vault changes, and the history with it.
SetRows(table) ==
    /\ rows' = table
    /\ moments' = IF api = "list" THEN moments \cup {table} ELSE moments

CreateRow(serv) ==
    /\ created < MaxRows /\ version < MaxVersions
    /\ created' = created + 1 /\ version' = version + 1
    /\ SetRows(<<RowOf(created', serv, Sealed(UserKey, version'), Sealed(UserKey, version'))>>
               \o rows)

\* The vault without row i.
WithoutRow(i) == SubSeq(rows, 1, i - 1) \o SubSeq(rows, i + 1, Len(rows))

\* The vault with another value in one column of the row that was written n-th.
Edited(n, column, value) ==
    [i \in DOMAIN rows |-> IF rows[i].at = n THEN [rows[i] EXCEPT ![column] = value]
                           ELSE rows[i]]

-----------------------------------------------------------------------------
(* The initial vault: entries of earlier clients *)

EarlierRow(n, serv, form) ==
    CASE form = "jsonPass" ->
            RowOf(n, serv, Text("login"),
                  Json([id |-> GivenId(n), title |-> Blank, login |-> Sealed(OwnKey(n), 0),
                        pass |-> Sealed(OwnKey(n), 0), salt |-> Text("salt"),
                        wrapped |-> Wrapped(OwnKey(n))]))
      [] form = "jsonLogin" ->
            RowOf(n, serv,
                  Json([id |-> GivenId(n), title |-> serv, login |-> Sealed(OwnKey(n), 0),
                        pass |-> Blank, salt |-> Text("salt"), wrapped |-> Wrapped(OwnKey(n))]),
                  Sealed(OwnKey(n), 0))
      [] form = "salted" -> RowOf(n, serv, Text("salt"), Sealed(SeedKey, 0))

Init ==
    /\ created \in 0 .. MaxEarlier
    /\ \E forms \in [1 .. created -> Forms] :
          rows = [i \in 1 .. created |-> EarlierRow(created + 1 - i, CHOOSE s \in Services : TRUE,
                                                   forms[i])]
    /\ envelope \in BOOLEAN
    /\ version = 0 /\ torn = {} /\ cli = None
    /\ api = "idle" /\ offset = 0 /\ out = <<>> /\ target = None /\ moments = {}
    /\ cache = None

-----------------------------------------------------------------------------
(* The other client: an update is up to three calls *)

CliCreate(serv) ==
    /\ cli = None /\ envelope
    /\ CreateRow(serv)
    /\ UNCHANGED <<torn, cli, envelope, api, offset, out, target, cache>>

CliDelete(i) ==
    /\ cli = None
    /\ SetRows(WithoutRow(i))
    /\ UNCHANGED <<created, version, torn, cli, envelope, api, offset, out, target,
                   cache>>

\* The call for the service is made if it was changed.
CliUpdate(i, step) ==
    /\ cli = None
    /\ envelope /\ version < MaxVersions
    /\ version' = version + 1
    /\ cli' = [at |-> rows[i].at, step |-> step, version |-> version']
    /\ UNCHANGED <<rows, created, torn, envelope, command, cache>>

UpdateService(serv) ==
    /\ cli # None /\ cli.step = "service"
    /\ SetRows(Edited(cli.at, "serv", serv))
    /\ cli' = [cli EXCEPT !.step = "login"]
    /\ UNCHANGED <<created, version, torn, envelope, api, offset, out, target, cache>>

UpdateLogin ==
    /\ cli # None /\ cli.step = "login"
    /\ SetRows(Edited(cli.at, "login", Sealed(UserKey, cli.version)))
    /\ torn' = torn \cup {cli.at}
    /\ cli' = [cli EXCEPT !.step = "pass"]
    /\ UNCHANGED <<created, version, envelope, api, offset, out, target, cache>>

UpdatePass ==
    /\ cli # None /\ cli.step = "pass"
    /\ SetRows(Edited(cli.at, "pass", Sealed(UserKey, cli.version)))
    /\ torn' = torn \ {cli.at}
    /\ cli' = None
    /\ UNCHANGED <<created, version, envelope, api, offset, out, target, cache>>

\* A call fails, or the entry is gone, and the rest is not done.
UpdateFails ==
    /\ cli # None
    /\ cli' = None
    /\ UNCHANGED <<vault, envelope, command, cache>>

-----------------------------------------------------------------------------
(* The desktop client *)

Return ==
    api' = "idle" /\ offset' = 0 /\ out' = <<>> /\ target' = None /\ moments' = {}

GetPasswords ==
    /\ api = "idle"
    /\ api' = "list" /\ offset' = 0 /\ out' = <<>> /\ moments' = {rows}
    /\ UNCHANGED <<vault, cli, envelope, target, cache>>

\* One turn of the loop of list_passwords.
LastPage(batch, after) ==
    \/ Len(batch) = 0
    \/ ResponseCount(batch) > 0 /\ after >= ResponseCount(batch)
    \/ Len(batch) < PageSize

Decoded(table) == [i \in DOMAIN table |-> DecodeEntry(table[i])]

ReadPage ==
    LET batch == PageOf(rows, offset)
        entries == out \o Decoded(batch)
        after == offset + Len(batch)
    IN  /\ api = "list"
        /\ IF LastPage(batch, after)
           THEN cache' = entries /\ Return
           ELSE /\ out' = entries /\ offset' = after
                /\ UNCHANGED <<cache, api, target, moments>>
        /\ UNCHANGED <<vault, cli, envelope>>

ListFails ==
    /\ api = "list"
    /\ Return
    /\ UNCHANGED <<vault, cli, envelope, cache>>

\* The first addition makes the master key of an account that has none.
AddPassword(serv) ==
    /\ api = "idle"
    /\ CreateRow(serv)
    /\ envelope' = TRUE
    /\ UNCHANGED <<torn, cli, api, offset, out, target, cache>>

DeletePassword(i) ==
    /\ api = "idle"
    /\ api' = "delete" /\ target' = cache[i].id
    /\ UNCHANGED <<vault, cli, envelope, offset, out, moments, cache>>

\* The list without the entry that was deleted.
Retained == SelectSeq(cache, LAMBDA e : e.id # target)

\* A deletion that does not reach the server changes nothing and is left out.
\* The server looks up the owner of the row with the id it is given and deletes
\* the row; then the client drops the entry from its cache, unless the answer is
\* lost.  When no row has that id the answer is an error: row and card both stay.
AnswerDelete ==
    LET found == {i \in DOMAIN rows : rows[i].id = target}
    IN  /\ api = "delete"
        /\ rows' \in IF found = {} THEN {rows} ELSE {WithoutRow(i) : i \in found}
        /\ cache' \in {cache} \cup (IF found = {} THEN {} ELSE {Retained})
        /\ Return
        /\ UNCHANGED <<created, version, torn, cli, envelope>>

-----------------------------------------------------------------------------
(* Specification *)

Cli ==
    \/ \E serv \in Services : CliCreate(serv) \/ UpdateService(serv)
    \/ \E i \in DOMAIN rows : CliDelete(i) \/ CliUpdate(i, "service") \/ CliUpdate(i, "login")
    \/ UpdateLogin \/ UpdatePass \/ UpdateFails

Desktop ==
    \/ GetPasswords \/ ReadPage \/ ListFails \/ AnswerDelete
    \/ \E serv \in Services : AddPassword(serv)
    \/ cache # None /\ \E i \in DOMAIN cache : DeletePassword(i)

Next == Cli \/ Desktop

Spec == Init /\ [][Next]_vars

-----------------------------------------------------------------------------
(* Properties *)

Strings == {"blank", "sealed", "text", "json"}

IsRow(r) ==
    /\ r.id = Uuid(r.at) /\ r.at \in 1 .. created /\ r.serv \in Services
    /\ r.login.kind \in Strings /\ r.pass.kind \in Strings

\* Every entry of a list has an id and a title.
IsEntry(e) == e.id # Blank /\ e.title # Blank /\ DOMAIN e = DOMAIN EmptyPayload

TypeOK ==
    /\ \A i \in DOMAIN rows : IsRow(rows[i])
    /\ \A i, j \in DOMAIN rows : i < j => rows[i].at > rows[j].at
    /\ created \in Nat /\ version \in 0 .. MaxVersions /\ torn \subseteq 1 .. created
    /\ cli = None \/ cli \in [at : 1 .. created, step : {"service", "login", "pass"},
                              version : 1 .. version]
    /\ envelope \in BOOLEAN
    /\ api \in {"idle", "list", "delete"} /\ offset \in Nat
    /\ \A i \in DOMAIN out : IsEntry(out[i])
    /\ IF api = "delete" THEN target.kind \in {"given", "hash"} ELSE target = None
    /\ cache = None \/ \A i \in DOMAIN cache : IsEntry(cache[i])

IsPrefixOf(s, t) == Len(s) <= Len(t) /\ s = SubSeq(t, 1, Len(s))

\* A list of entries is what the vault held, newest first, at one moment since
\* it was asked for: changes meanwhile never show an entry twice or half of a
\* change.
ListIsSnapshot ==
    [][cache' # cache /\ api = "list" => \E m \in moments : IsPrefixOf(cache', Decoded(m))]_vars

\* An id names one content for ever: whoever clicks a card of an old list
\* decrypts what it stood for, and an entry that was changed has another id.
IdMeansContent ==
    cache # None =>
        \A i \in DOMAIN cache, j \in DOMAIN rows :
            LET old == cache[i]
                new == DecodeEntry(rows[j])
            IN  old.id = new.id =>
                    old.login = new.login /\ old.pass = new.pass /\ old.wrapped = new.wrapped

\* Every entry that was written to its end opens, and gives the login and the
\* password of one write: those of today's clients and those of earlier ones.
\* Not so an entry with a salt of its own once there is an envelope, because
\* the envelope comes first.
EntriesOpen ==
    \A i \in DOMAIN rows :
        LET opened == DecryptEntry(DecodeEntry(rows[i]), envelope)
            salted == Opens(SeedKey, rows[i].pass)
        IN  rows[i].at \notin torn /\ ~(salted /\ envelope) =>
                opened # None /\ (salted \/ opened.login = {opened.password})

\* README.md:53: "delete entries".  When a deletion of a card that reached the
\* server is over, the entry that the card showed is not in the vault.
DeletedIsGone ==
    [][AnswerDelete => \A i \in DOMAIN rows' : DecodeEntry(rows'[i]).id # target]_vars

=============================================================================
