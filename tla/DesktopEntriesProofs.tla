------------------------- MODULE DesktopEntriesProofs -------------------------
(***************************************************************************)
(* A list that the desktop client installs is one moment of the vault; an  *)
(* id names one content for ever; every entry that was written to its end  *)
(* opens; and a deletion that the desktop client asks for deletes nothing. *)
(*                                                                         *)
(* Lists: the server answers with the length of the page as the number of  *)
(* entries (ResponseCount), so that the loop of list_passwords always      *)
(* stops after its first page (FirstPageIsLast); and the vault of the      *)
(* moment of that page is among the moments since the list was asked for   *)
(* (ListInvariant).                                                        *)
(*                                                                         *)
(* Entries: a row has one of a few forms (Readable), whoever wrote it, and *)
(* a row that is not torn has one of fewer forms (Finished); what is       *)
(* decoded of a readable row is known by its id (KnownById), and so is     *)
(* every entry in the cache, however old (EntriesInv).                     *)
(***************************************************************************)
EXTENDS DesktopEntries, TLAPS

-----------------------------------------------------------------------------
(* Pages *)

\* What the rows hold does not matter here: only that they are a sequence.
IsTable(table) == table \in Seq({table[i] : i \in DOMAIN table})

\* The first page is a sequence that is no longer than the page size.
LEMMA FirstPageIsTable ==
    ASSUME NEW table, IsTable(table)
    PROVE  /\ PageOf(table, 0) = SubSeq(table, 1, Len(PageOf(table, 0)))
           /\ Len(PageOf(table, 0)) \in 0 .. Len(table)
           /\ IsTable(PageOf(table, 0))
<1> DEFINE n == IF PageSize < Len(table) THEN PageSize ELSE Len(table)
<1>1. Len(table) \in Nat /\ n \in 0 .. Len(table)
  BY DesktopEntriesAssumption DEF IsTable
<1>2. PageOf(table, 0) = SubSeq(table, 1, n)
  BY <1>1, DesktopEntriesAssumption DEF PageOf
<1>3. Len(SubSeq(table, 1, n)) = n
  BY <1>1 DEF IsTable
<1>4. IsTable(SubSeq(table, 1, n))
  BY <1>1 DEF IsTable
<1> QED
  BY <1>1, <1>2, <1>3, <1>4

\* The loop stops after the page that it reads first.
LEMMA FirstPageIsLast ==
    ASSUME NEW table, IsTable(table)
    PROVE  LastPage(PageOf(table, 0), 0 + Len(PageOf(table, 0)))
BY FirstPageIsTable DEF LastPage, ResponseCount, IsTable

\* Decoding is entry by entry: the decoded page is a prefix of the decoded vault.
LEMMA DecodedPage ==
    ASSUME NEW table, IsTable(table)
    PROVE  IsPrefixOf(<<>> \o Decoded(PageOf(table, 0)), Decoded(table))
<1> DEFINE page == PageOf(table, 0)
           n == Len(page)
<1>1. page = SubSeq(table, 1, n) /\ n \in 0 .. Len(table) /\ IsTable(page)
  BY FirstPageIsTable
<1>2. Len(table) \in Nat /\ DOMAIN table = 1 .. Len(table) /\ DOMAIN page = 1 .. n
  BY <1>1 DEF IsTable
<1>3. \A i \in 1 .. n : page[i] = table[i]
  BY <1>1, <1>2 DEF IsTable
<1> HIDE DEF page, n
<1>4. /\ Decoded(page) = [i \in 1 .. n |-> DecodeEntry(table[i])]
      /\ Decoded(table) = [i \in 1 .. Len(table) |-> DecodeEntry(table[i])]
  BY <1>2, <1>3 DEF Decoded
<1> DEFINE Entries == {DecodeEntry(table[i]) : i \in 1 .. Len(table)}
<1>5. /\ Decoded(page) \in Seq(Entries) /\ Len(Decoded(page)) = n
      /\ Decoded(table) \in Seq(Entries) /\ Len(Decoded(table)) = Len(table)
  BY <1>1, <1>2, <1>4
<1>6. <<>> \o Decoded(page) = Decoded(page)
  BY <1>5
<1>7. Decoded(page) = SubSeq(Decoded(table), 1, n)
  BY <1>1, <1>2, <1>4, <1>5
<1> QED
  BY <1>1, <1>5, <1>6, <1>7 DEF IsPrefixOf, page

-----------------------------------------------------------------------------
(* The invariant *)

\* While a list is on its way nothing is read yet, and the vault as it is now is
\* one of the moments since the list was asked for.
ListInvariant ==
    /\ IsTable(rows)
    /\ api = "list" => offset = 0 /\ out = <<>> /\ rows \in moments

LEMMA FunctionIsTable ==
    ASSUME NEW table, NEW n \in Nat, DOMAIN table = 1 .. n,
           table = [i \in 1 .. n |-> table[i]]
    PROVE  IsTable(table)
BY DEF IsTable

LEMMA InitListInvariant == Init => ListInvariant
<1> SUFFICES ASSUME Init PROVE ListInvariant
  OBVIOUS
<1>1. created \in Nat /\ DOMAIN rows = 1 .. created
      /\ rows = [i \in 1 .. created |-> rows[i]]
  BY DesktopEntriesAssumption DEF Init
<1>2. IsTable(rows)
  BY <1>1, FunctionIsTable
<1> QED
  BY <1>2 DEF Init, ListInvariant

\* Changes of the vault leave it a sequence.
LEMMA EditedIsTable ==
    ASSUME NEW n, NEW column, NEW value, IsTable(rows)
    PROVE  IsTable(Edited(n, column, value))
BY DEF IsTable, Edited

LEMMA WithoutRowIsTable ==
    ASSUME IsTable(rows), NEW i \in DOMAIN rows
    PROVE  IsTable(WithoutRow(i))
<1> DEFINE Rows == {rows[j] : j \in DOMAIN rows}
<1>1. rows \in Seq(Rows) /\ i \in 1 .. Len(rows) /\ Len(rows) \in Nat
  BY DEF IsTable
<1>2. SubSeq(rows, 1, i - 1) \in Seq(Rows) /\ SubSeq(rows, i + 1, Len(rows)) \in Seq(Rows)
  BY <1>1
<1>3. WithoutRow(i) \in Seq(Rows)
  BY <1>2 DEF WithoutRow
<1> QED
  BY <1>3 DEF IsTable

\* A step that puts a sequence into the vault by SetRows, and leaves the command.
LEMMA SetRowsKeeps ==
    ASSUME NEW table, IsTable(table), SetRows(table), ListInvariant,
           UNCHANGED <<api, offset, out>>
    PROVE  ListInvariant'
BY DEF SetRows, ListInvariant, IsTable

LEMMA CreateKeeps ==
    ASSUME NEW serv, CreateRow(serv), ListInvariant, UNCHANGED <<api, offset, out>>
    PROVE  ListInvariant'
<1> DEFINE row == RowOf(created', serv, Sealed(UserKey, version'), Sealed(UserKey, version'))
<1> HIDE DEF row
<1> DEFINE n == Len(rows) + 1
           table == <<row>> \o rows
           Rows == {row} \cup {rows[i] : i \in DOMAIN rows}
<1>3. rows \in Seq(Rows) /\ <<row>> \in Seq(Rows) /\ Len(rows) \in Nat
  BY DEF ListInvariant, IsTable
<1>4. table \in Seq(Rows) /\ Len(table) = n /\ n \in Nat
  BY <1>3
<1>5. DOMAIN table = 1 .. n /\ table = [i \in 1 .. n |-> table[i]]
  BY <1>4
<1>1. IsTable(table)
  BY <1>4, <1>5, FunctionIsTable
<1>2. SetRows(<<row>> \o rows)
  BY DEF CreateRow, row
<1> QED
  BY <1>1, <1>2, SetRowsKeeps

\* Every step keeps the invariant; one case per action.
LEMMA NextListInvariant ==
    ASSUME ListInvariant, [Next]_vars
    PROVE  ListInvariant'
<1>1. ASSUME NEW serv \in Services, CliCreate(serv) PROVE ListInvariant'
  BY <1>1, CreateKeeps DEF CliCreate
<1>2. ASSUME NEW serv \in Services, UpdateService(serv) PROVE ListInvariant'
  <2> DEFINE table == Edited(cli.at, "serv", serv)
  <2>1. IsTable(table)
    BY EditedIsTable DEF ListInvariant
  <2> QED
    BY <1>2, <2>1, SetRowsKeeps DEF UpdateService
<1>3. ASSUME NEW i \in DOMAIN rows, CliDelete(i) PROVE ListInvariant'
  <2>1. IsTable(WithoutRow(i))
    BY WithoutRowIsTable DEF ListInvariant
  <2> QED
    BY <1>3, <2>1, SetRowsKeeps DEF CliDelete
<1>4. ASSUME NEW i \in DOMAIN rows, NEW step, CliUpdate(i, step) PROVE ListInvariant'
  BY <1>4 DEF CliUpdate, ListInvariant, IsTable, command
<1>5. CASE UpdateLogin
  <2> DEFINE table == Edited(cli.at, "login", Sealed(UserKey, cli.version))
  <2>1. IsTable(table)
    BY EditedIsTable DEF ListInvariant
  <2> QED
    BY <1>5, <2>1, SetRowsKeeps DEF UpdateLogin
<1>6. CASE UpdatePass
  <2> DEFINE table == Edited(cli.at, "pass", Sealed(UserKey, cli.version))
  <2>1. IsTable(table)
    BY EditedIsTable DEF ListInvariant
  <2> QED
    BY <1>6, <2>1, SetRowsKeeps DEF UpdatePass
<1>7. CASE UpdateFails \/ UNCHANGED vars
  BY <1>7 DEF UpdateFails, ListInvariant, IsTable, vars, vault, command
<1>8. CASE GetPasswords
  BY <1>8 DEF GetPasswords, ListInvariant, IsTable, vault
<1>9. CASE ReadPage
  BY <1>9, FirstPageIsLast DEF ReadPage, Return, ListInvariant, IsTable, vault
<1>10. CASE ListFails
  BY <1>10 DEF ListFails, Return, ListInvariant, IsTable, vault
<1>11. CASE AnswerDelete
  <2>1. rows' = rows \/ \E i \in DOMAIN rows : rows' = WithoutRow(i)
    BY <1>11 DEF AnswerDelete
  <2>2. IsTable(rows')
    BY <2>1, WithoutRowIsTable DEF ListInvariant
  <2>3. IsTable(rows)'
    BY <2>2 DEF IsTable
  <2> QED
    BY <1>11, <2>3 DEF AnswerDelete, Return, ListInvariant
<1>12. ASSUME NEW serv \in Services, AddPassword(serv) PROVE ListInvariant'
  BY <1>12, CreateKeeps DEF AddPassword
<1>13. ASSUME NEW i, DeletePassword(i) PROVE ListInvariant'
  BY <1>13 DEF DeletePassword, ListInvariant, IsTable, vault
<1> QED
  BY <1>1, <1>2, <1>3, <1>4, <1>5, <1>6, <1>7, <1>8, <1>9, <1>10, <1>11, <1>12, <1>13
  DEF Next, Cli, Desktop

\* In every behaviour, whatever the page size and the changes of the other client.
THEOREM ListInvariantHolds == Spec => []ListInvariant
<1> QED
  BY InitListInvariant, NextListInvariant, PTL DEF Spec

-----------------------------------------------------------------------------
(* The property *)

\* Only ReadPage installs a list, and what it installs is a prefix of the vault.
LEMMA StepIsSnapshot ==
    ASSUME ListInvariant, Next, cache' # cache, api = "list"
    PROVE  \E m \in moments : IsPrefixOf(cache', Decoded(m))
<1>1. ReadPage
  BY DEF Next, Cli, Desktop, CliCreate, UpdateService, CliDelete, CliUpdate, UpdateLogin,
         UpdatePass, UpdateFails, GetPasswords, ListFails, AnswerDelete, AddPassword,
         DeletePassword, command
<1>2. IsTable(rows) /\ offset = 0 /\ out = <<>> /\ rows \in moments
  BY DEF ListInvariant
<1>3. cache' = <<>> \o Decoded(PageOf(rows, 0))
  BY <1>1, <1>2, FirstPageIsLast DEF ReadPage
<1> QED
  BY <1>2, <1>3, DecodedPage

\* A list that the client installs is what the vault held at one moment since the
\* list was asked for (list_passwords in api.rs), for every page size and vault.
THEOREM ListsAreSnapshots == Spec => ListIsSnapshot
<1>1. ListInvariant /\ [Next]_vars =>
        [cache' # cache /\ api = "list" => \E m \in moments : IsPrefixOf(cache', Decoded(m))]_vars
  BY StepIsSnapshot
<1> QED
  BY <1>1, ListInvariantHolds, PTL DEF Spec, ListIsSnapshot

-----------------------------------------------------------------------------
(* What a row can hold, and what is read of it *)

\* An entry with a key of its own.
GivenEntry(n, title) ==
    [id |-> GivenId(n), title |-> title, login |-> Sealed(OwnKey(n), 0),
     pass |-> Sealed(OwnKey(n), 0), salt |-> Text("salt"), wrapped |-> Wrapped(OwnKey(n))]

\* The two JSON objects that an earlier client wrote, as EarlierRow has them.
PassPayload(n) == GivenEntry(n, Blank)

LoginPayload(n, title) ==
    [id |-> GivenId(n), title |-> title, login |-> Sealed(OwnKey(n), 0),
     pass |-> Blank, salt |-> Text("salt"), wrapped |-> Wrapped(OwnKey(n))]

\* The ciphertexts that today's clients write.
Today == [kind : {"sealed"}, key : {UserKey}, version : Nat]

\* An update takes the login first and the password after it, so that a row of
\* an earlier client can have a login of today.
JsonPassRow(r) == r.pass = Json(PassPayload(r.at)) /\ r.login \in {Text("login")} \cup Today

JsonLoginRow(r) ==
    /\ r.pass = Sealed(OwnKey(r.at), 0)
    /\ \E title \in Services : r.login = Json(LoginPayload(r.at, title))

PlainRow(r) ==
    /\ r.pass \in {Sealed(OwnKey(r.at), 0), Sealed(SeedKey, 0)} \cup Today
    /\ r.login \in {Text("salt")} \cup Today

Readable(r) == JsonPassRow(r) \/ JsonLoginRow(r) \/ PlainRow(r)

\* What an entry holds is known by its id: the ciphertexts under a key of its
\* own, or the two columns that were hashed.
KnownById(e) ==
    \/ /\ e.id.kind = "given"
       /\ e.login = Sealed(OwnKey(e.id.n), 0) /\ e.pass = Sealed(OwnKey(e.id.n), 0)
       /\ e.wrapped = Wrapped(OwnKey(e.id.n))
    \/ /\ e.id.kind = "hash"
       /\ e.login = IF e.id.of[2].kind = "sealed" THEN e.id.of[2] ELSE Blank
       /\ e.pass = e.id.of[3]
       /\ e.wrapped = Blank

LEMMA TitleIsThere ==
    ASSUME NEW r, NEW title PROVE TitleOf(r, title) # Blank
BY DEF TitleOf, NonBlank, Text, Blank

LEMMA GivenFilled ==
    ASSUME NEW r, NEW n, NEW title
    PROVE  FillPayloadDefaults(r, GivenEntry(n, title)) = GivenEntry(n, TitleOf(r, title))
<1>1. NonBlank(GivenId(n), FallbackEntryId(r)) = GivenId(n)
  BY DEF NonBlank, GivenId, Blank
<1>2. GivenEntry(n, title).id = GivenId(n) /\ GivenEntry(n, title).title = title
  BY DEF GivenEntry
<1>3. FillPayloadDefaults(r, GivenEntry(n, title))
        = [GivenEntry(n, title) EXCEPT !.id = GivenId(n), !.title = TitleOf(r, title)]
  BY <1>1, <1>2 DEF FillPayloadDefaults
<1>4. \A new : [GivenEntry(n, title) EXCEPT !.title = new] = GivenEntry(n, new)
  BY DEF GivenEntry
<1>5. [GivenEntry(n, title) EXCEPT !.id = GivenId(n)] = GivenEntry(n, title)
  BY DEF GivenEntry
<1> QED
  BY <1>3, <1>4, <1>5

LEMMA JsonPassDecoded ==
    ASSUME NEW r, JsonPassRow(r)
    PROVE  DecodeEntry(r) = GivenEntry(r.at, TitleOf(r, Blank))
<1>1. r.pass.kind = "json" /\ r.pass.payload = GivenEntry(r.at, Blank)
  BY DEF JsonPassRow, Json, PassPayload
<1>2. HasSecrets(r.pass.payload)
  BY <1>1 DEF HasSecrets, GivenEntry, Text, Blank
<1>3. DecodeEntry(r) = FillPayloadDefaults(r, GivenEntry(r.at, Blank))
  BY <1>1, <1>2 DEF DecodeEntry
<1> QED
  BY <1>3, GivenFilled

LEMMA JsonLoginDecoded ==
    ASSUME NEW r, NEW title, r.pass = Sealed(OwnKey(r.at), 0),
           r.login = Json(LoginPayload(r.at, title))
    PROVE  DecodeEntry(r) = GivenEntry(r.at, TitleOf(r, title))
<1>1. r.pass.kind # "json" /\ r.login.kind = "json" /\ ~LooksLikeEncrypted(r.login)
      /\ r.login.payload = LoginPayload(r.at, title)
  BY DEF Sealed, Json, LooksLikeEncrypted
<1>2. Meta(r) = GivenEntry(r.at, title)
  BY <1>1 DEF Meta, LoginPayload, GivenEntry
<1>3. WithLogin(r, Meta(r)) = Meta(r)
  BY <1>1, <1>2 DEF WithLogin, GivenEntry, Text, Blank
<1>4. DecodeEntry(r) = FillPayloadDefaults(r, GivenEntry(r.at, title))
  BY <1>1, <1>2, <1>3 DEF DecodeEntry
<1> QED
  BY <1>4, GivenFilled

\* A login that is no ciphertext is the salt.
LEMMA PlainDecoded ==
    ASSUME NEW r, PlainRow(r)
    PROVE  DecodeEntry(r) =
              [id |-> FallbackEntryId(r), title |-> TitleOf(r, Blank),
               login |-> IF r.login.kind = "sealed" THEN r.login ELSE Blank,
               pass |-> r.pass,
               salt |-> IF r.login.kind = "sealed" THEN Blank ELSE r.login,
               wrapped |-> Blank]
<1>1. r.pass.kind = "sealed" /\ r.login.kind # "json"
  BY DEF PlainRow, Today, Sealed, Text
<1>2. Meta(r) = [EmptyPayload EXCEPT !.pass = r.pass]
  BY <1>1 DEF Meta
<1>3. WithLogin(r, Meta(r)) =
        IF r.login.kind = "sealed"
        THEN [EmptyPayload EXCEPT !.pass = r.pass, !.login = r.login]
        ELSE [EmptyPayload EXCEPT !.pass = r.pass, !.salt = r.login]
  BY <1>2 DEF WithLogin, EmptyPayload, LooksLikeEncrypted
<1>4. NonBlank(Blank, FallbackEntryId(r)) = FallbackEntryId(r)
  BY DEF NonBlank
<1>5. DecodeEntry(r) = FillPayloadDefaults(r, WithLogin(r, Meta(r)))
  BY <1>1 DEF DecodeEntry
<1> QED
  BY <1>3, <1>4, <1>5, ZenonT(40) DEF FillPayloadDefaults, EmptyPayload

\* Whatever form a row has, its entry has an id, a title, and what the id says.
LEMMA GivenIsKnown ==
    ASSUME NEW n, NEW title, title # Blank
    PROVE  IsEntry(GivenEntry(n, title)) /\ KnownById(GivenEntry(n, title))
<1>1. GivenId(n) # Blank /\ GivenId(n).kind = "given" /\ GivenId(n).n = n
  BY DEF GivenId, Blank
<1> QED
  BY <1>1 DEF IsEntry, KnownById, GivenEntry, EmptyPayload

LEMMA DecodedIsKnown ==
    ASSUME NEW r, Readable(r)
    PROVE  IsEntry(DecodeEntry(r)) /\ KnownById(DecodeEntry(r))
<1>1. CASE JsonPassRow(r)
  BY <1>1, JsonPassDecoded, TitleIsThere, GivenIsKnown
<1>2. CASE JsonLoginRow(r)
  <2>1. PICK title \in Services : r.login = Json(LoginPayload(r.at, title))
    BY <1>2 DEF JsonLoginRow
  <2>2. DecodeEntry(r) = GivenEntry(r.at, TitleOf(r, title))
    BY <1>2, <2>1, JsonLoginDecoded DEF JsonLoginRow
  <2> QED
    BY <2>2, TitleIsThere, GivenIsKnown
<1>3. CASE PlainRow(r)
  BY <1>3, PlainDecoded, TitleIsThere
  DEF IsEntry, KnownById, EmptyPayload, FallbackEntryId, Blank
<1> QED
  BY <1>1, <1>2, <1>3 DEF Readable

-----------------------------------------------------------------------------
(* The rows of the vault *)

\* A row whose last update was made to its end, or that was never updated.
Finished(r) ==
    \/ r.pass = Json(PassPayload(r.at)) /\ r.login = Text("login")
    \/ JsonLoginRow(r)
    \/ r.pass = Sealed(SeedKey, 0) /\ r.login = Text("salt")
    \/ r.pass \in Today /\ r.login = r.pass

WrittenToday(r) == r.login \in Today \/ r.pass \in Today

IsRecord(r) == r = RowOf(r.at, r.serv, r.login, r.pass) /\ r.serv \in Services

RowsOK == \A i \in DOMAIN rows :
    IsRecord(rows[i]) /\ rows[i].at \in 1 .. created /\ Readable(rows[i])

\* Only a row whose update is under way, or was given up, is half written.
FinishedOK == \A i \in DOMAIN rows : rows[i].at \notin torn => Finished(rows[i])

\* A ciphertext of today is written with the master key that the vault has.
KeyOK == \A i \in DOMAIN rows : WrittenToday(rows[i]) => envelope

\* An update that comes to the password has written the login.
LoginOK ==
    cli # None /\ cli.step = "pass" =>
        \A i \in DOMAIN rows :
            rows[i].at = cli.at => rows[i].login = Sealed(UserKey, cli.version)

NewestFirst(table) == \A i, j \in DOMAIN table : i < j => table[i].at > table[j].at

CountsOK == created \in Nat /\ version \in 0 .. MaxVersions /\ torn \subseteq 1 .. created

UpdateOK ==
    \/ cli = None
    \/ /\ cli \in [at : 1 .. created, step : {"service", "login", "pass"},
                   version : 1 .. version]
       /\ envelope
       /\ cli.step = "pass" => cli.at \in torn

CommandOK ==
    /\ api \in {"idle", "list", "delete"} /\ offset = 0 /\ out = <<>>
    /\ IF api = "delete" THEN target.kind \in {"given", "hash"} ELSE target = None

CacheOK == cache = None \/ \A i \in DOMAIN cache : IsEntry(cache[i]) /\ KnownById(cache[i])

EntriesInv ==
    /\ ListInvariant
    /\ RowsOK /\ FinishedOK /\ KeyOK /\ LoginOK
    /\ NewestFirst(rows)
    /\ CountsOK
    /\ UpdateOK
    /\ envelope \in BOOLEAN
    /\ CommandOK
    /\ CacheOK

-----------------------------------------------------------------------------
(* Rows and their columns *)

LEMMA ServEdited ==
    ASSUME NEW r, IsRecord(r), NEW serv \in Services
    PROVE  LET s == [r EXCEPT !["serv"] = serv] IN
           /\ IsRecord(s) /\ s.at = r.at /\ s.login = r.login /\ s.pass = r.pass
           /\ Readable(r) => Readable(s)
           /\ Finished(r) => Finished(s)
           /\ WrittenToday(s) = WrittenToday(r)
<1> DEFINE s == [r EXCEPT !["serv"] = serv]
<1>0. \A n, a, b, c, new :
        [RowOf(n, a, b, c) EXCEPT !["serv"] = new] = RowOf(n, new, b, c)
  BY DEF RowOf
<1>1. s = RowOf(r.at, serv, r.login, r.pass)
  BY <1>0 DEF IsRecord
<1>2. s.at = r.at /\ s.login = r.login /\ s.pass = r.pass /\ s.serv = serv
  BY <1>1 DEF RowOf
<1> HIDE DEF s
<1>3. IsRecord(s)
  BY <1>1, <1>2 DEF IsRecord
<1>4. (Readable(r) => Readable(s)) /\ (Finished(r) => Finished(s))
  BY <1>2 DEF Readable, Finished, JsonPassRow, JsonLoginRow, PlainRow
<1>5. WrittenToday(s) = WrittenToday(r)
  BY <1>2 DEF WrittenToday
<1> QED
  BY <1>2, <1>3, <1>4, <1>5 DEF s

LEMMA LoginEdited ==
    ASSUME NEW r, IsRecord(r), Readable(r), NEW login \in Today
    PROVE  LET s == [r EXCEPT !["login"] = login] IN
           IsRecord(s) /\ s.at = r.at /\ s.login = login /\ Readable(s)
<1> DEFINE s == [r EXCEPT !["login"] = login]
<1>0. \A n, a, b, c, new :
        [RowOf(n, a, b, c) EXCEPT !["login"] = new] = RowOf(n, a, new, c)
  BY DEF RowOf
<1>1. s = RowOf(r.at, r.serv, login, r.pass)
  BY <1>0 DEF IsRecord
<1>2. s.at = r.at /\ s.login = login /\ s.pass = r.pass /\ s.serv = r.serv
  BY <1>1 DEF RowOf
<1> HIDE DEF s
<1>3. IsRecord(s)
  BY <1>1, <1>2 DEF IsRecord
<1>4. Readable(s)
  BY <1>2 DEF Readable, JsonPassRow, JsonLoginRow, PlainRow
<1> QED
  BY <1>2, <1>3, <1>4 DEF s

LEMMA PassEdited ==
    ASSUME NEW r, IsRecord(r), NEW pass \in Today, r.login = pass
    PROVE  LET s == [r EXCEPT !["pass"] = pass] IN
           /\ IsRecord(s) /\ s.at = r.at /\ s.login = r.login
           /\ Readable(s) /\ Finished(s)
<1> DEFINE s == [r EXCEPT !["pass"] = pass]
<1>0. \A n, a, b, c, new :
        [RowOf(n, a, b, c) EXCEPT !["pass"] = new] = RowOf(n, a, b, new)
  BY DEF RowOf
<1>1. s = RowOf(r.at, r.serv, r.login, pass)
  BY <1>0 DEF IsRecord
<1>2. s.at = r.at /\ s.login = r.login /\ s.pass = pass /\ s.serv = r.serv
  BY <1>1 DEF RowOf
<1> HIDE DEF s
<1>3. IsRecord(s)
  BY <1>1, <1>2 DEF IsRecord
<1>4. Readable(s) /\ Finished(s)
  BY <1>2 DEF Readable, PlainRow, Finished
<1> QED
  BY <1>2, <1>3, <1>4 DEF s

LEMMA RowCreated ==
    ASSUME NEW n, NEW serv \in Services, NEW s \in Today
    PROVE  LET r == RowOf(n, serv, s, s) IN
           IsRecord(r) /\ r.at = n /\ Readable(r) /\ Finished(r) /\ WrittenToday(r)
<1> DEFINE r == RowOf(n, serv, s, s)
<1>1. r.at = n /\ r.login = s /\ r.pass = s /\ r.serv = serv
  BY DEF RowOf
<1>2. IsRecord(r)
  BY <1>1 DEF IsRecord
<1> HIDE DEF r
<1>3. Readable(r) /\ Finished(r) /\ WrittenToday(r)
  BY <1>1 DEF Readable, PlainRow, Finished, WrittenToday
<1> QED
  BY <1>1, <1>2, <1>3 DEF r

\* Rows of earlier clients, whose entries have no ciphertext of today.
LEMMA EarlierIsFinished ==
    ASSUME NEW n, NEW serv \in Services, NEW form \in Forms
    PROVE  LET r == EarlierRow(n, serv, form) IN
           IsRecord(r) /\ r.at = n /\ Readable(r) /\ Finished(r) /\ ~WrittenToday(r)
<1> DEFINE Earlier(r) ==
        IsRecord(r) /\ r.at = n /\ Readable(r) /\ Finished(r) /\ ~WrittenToday(r)
<1>1. ASSUME NEW login, NEW pass, NEW r, r = RowOf(n, serv, login, pass)
      PROVE  IsRecord(r) /\ r.at = n /\ r.login = login /\ r.pass = pass
  BY <1>1 DEF RowOf, IsRecord
<1>2. ASSUME NEW r, r = RowOf(n, serv, Text("login"), Json(PassPayload(n)))
      PROVE  Earlier(r)
  <2>1. ~(Text("login") \in Today) /\ ~(Json(PassPayload(n)) \in Today)
    BY DEF Text, Json, Today
  <2> QED
    BY <1>1, <1>2, <2>1 DEF Readable, JsonPassRow, Finished, WrittenToday
<1>3. ASSUME NEW r, r = RowOf(n, serv, Json(LoginPayload(n, serv)), Sealed(OwnKey(n), 0))
      PROVE  Earlier(r)
  <2>1. ~(Json(LoginPayload(n, serv)) \in Today) /\ ~(Sealed(OwnKey(n), 0) \in Today)
    BY DEF Text, Json, Today, Sealed, OwnKey, UserKey
  <2> QED
    BY <1>1, <1>3, <2>1 DEF Readable, JsonLoginRow, Finished, WrittenToday
<1>4. ASSUME NEW r, r = RowOf(n, serv, Text("salt"), Sealed(SeedKey, 0))
      PROVE  Earlier(r)
  <2>1. ~(Text("salt") \in Today) /\ ~(Sealed(SeedKey, 0) \in Today)
    BY DEF Text, Today, Sealed, SeedKey, UserKey
  <2> QED
    BY <1>1, <1>4, <2>1 DEF Readable, PlainRow, Finished, WrittenToday
<1>5. CASE form = "jsonPass"
  <2>1. EarlierRow(n, serv, form) = RowOf(n, serv, Text("login"), Json(PassPayload(n)))
    BY <1>5 DEF EarlierRow, PassPayload, GivenEntry
  <2> QED
    BY <2>1, <1>2
<1>6. CASE form = "jsonLogin"
  <2>1. EarlierRow(n, serv, form)
          = RowOf(n, serv, Json(LoginPayload(n, serv)), Sealed(OwnKey(n), 0))
    BY <1>6 DEF EarlierRow, LoginPayload
  <2> QED
    BY <2>1, <1>3
<1>7. CASE form = "salted"
  <2>1. EarlierRow(n, serv, form) = RowOf(n, serv, Text("salt"), Sealed(SeedKey, 0))
    BY <1>7 DEF EarlierRow
  <2> QED
    BY <2>1, <1>4
<1> QED
  BY <1>5, <1>6, <1>7, DesktopEntriesAssumption

-----------------------------------------------------------------------------
(* The invariant of the entries *)

VaultOK ==
    /\ RowsOK /\ FinishedOK /\ KeyOK /\ LoginOK
    /\ NewestFirst(rows)
    /\ CountsOK
    /\ UpdateOK
    /\ envelope \in BOOLEAN

LEMMA InitEntriesInv == Init => EntriesInv
<1> SUFFICES ASSUME Init PROVE EntriesInv
  OBVIOUS
<1>1. PICK forms \in [1 .. created -> Forms] :
        rows = [i \in 1 .. created |-> EarlierRow(created + 1 - i, CHOOSE s \in Services : TRUE,
                                                  forms[i])]
  BY DEF Init
<1>2. (CHOOSE s \in Services : TRUE) \in Services
  BY DesktopEntriesAssumption
<1>3. created \in Nat
  BY DesktopEntriesAssumption DEF Init
<1>4. ASSUME NEW i \in DOMAIN rows
      PROVE  /\ IsRecord(rows[i]) /\ Readable(rows[i]) /\ Finished(rows[i])
             /\ rows[i].at = created + 1 - i /\ ~WrittenToday(rows[i])
  <2>1. i \in 1 .. created /\ forms[i] \in Forms
    BY <1>1
  <2>2. rows[i] = EarlierRow(created + 1 - i, CHOOSE s \in Services : TRUE, forms[i])
    BY <1>1, <2>1
  <2> QED
    BY <1>2, <2>1, <2>2, EarlierIsFinished
<1>5. DOMAIN rows = 1 .. created
  BY <1>1
<1>6. RowsOK /\ FinishedOK /\ KeyOK /\ NewestFirst(rows)
  BY <1>3, <1>4, <1>5 DEF RowsOK, FinishedOK, KeyOK, NewestFirst
<1>7. LoginOK /\ CountsOK /\ UpdateOK /\ envelope \in BOOLEAN /\ CommandOK /\ CacheOK
  BY <1>3, DesktopEntriesAssumption
  DEF Init, LoginOK, CountsOK, UpdateOK, CommandOK, CacheOK
<1> QED
  BY <1>6, <1>7, InitListInvariant DEF EntriesInv

LEMMA ConcatElements ==
    ASSUME NEW S, NEW s \in Seq(S), NEW t \in Seq(S)
    PROVE  /\ Len(s \o t) = Len(s) + Len(t) /\ DOMAIN (s \o t) = 1 .. Len(s) + Len(t)
           /\ \A k \in 1 .. Len(s) + Len(t) :
                 (s \o t)[k] = IF k <= Len(s) THEN s[k] ELSE t[k - Len(s)]
OBVIOUS

\* A sequence without its first elements.
LEMMA RestElements ==
    ASSUME NEW S, NEW s \in Seq(S), NEW i \in 1 .. Len(s)
    PROVE  LET rest == SubSeq(s, i + 1, Len(s)) IN
           /\ rest \in Seq(S) /\ Len(rest) = Len(s) - i
           /\ \A k \in 1 .. Len(s) - i : rest[k] = s[i + k]
<1> DEFINE rest == SubSeq(s, i + 1, Len(s))
<1>1. Len(s) \in Nat /\ Len(s) - i \in Nat /\ i \in Nat
  OBVIOUS
<1>2. \A k \in 1 .. Len(s) - i : i + k \in 1 .. Len(s) /\ s[i + k] \in S
  BY <1>1
<1>3. rest = [k \in 1 .. Len(s) - i |-> s[i + k]]
  BY <1>1
<1>4. rest \in Seq(S) /\ Len(rest) = Len(s) - i
  BY <1>1, <1>2, <1>3
<1> QED
  BY <1>3, <1>4

LEMMA RowsWithout ==
    ASSUME IsTable(rows), NEW i \in DOMAIN rows
    PROVE  /\ \A k \in DOMAIN WithoutRow(i) : \E j \in DOMAIN rows : WithoutRow(i)[k] = rows[j]
           /\ RowsOK /\ NewestFirst(rows) => NewestFirst(WithoutRow(i))
<1> DEFINE Rows == {rows[j] : j \in DOMAIN rows}
           before == SubSeq(rows, 1, i - 1)
           after == SubSeq(rows, i + 1, Len(rows))
           old(k) == IF k < i THEN k ELSE k + 1
<1>1. rows \in Seq(Rows) /\ i \in 1 .. Len(rows) /\ Len(rows) \in Nat
      /\ DOMAIN rows = 1 .. Len(rows)
  BY DEF IsTable
<1>2. before \in Seq(Rows) /\ Len(before) = i - 1 /\ \A k \in 1 .. i - 1 : before[k] = rows[k]
  BY <1>1
<1>3. after \in Seq(Rows) /\ Len(after) = Len(rows) - i
      /\ \A k \in 1 .. Len(rows) - i : after[k] = rows[i + k]
  BY <1>1, RestElements
<1>4. WithoutRow(i) = before \o after
  BY DEF WithoutRow
<1> HIDE DEF before, after, Rows
<1>5. /\ DOMAIN WithoutRow(i) = 1 .. Len(rows) - 1
      /\ \A k \in 1 .. Len(rows) - 1 :
            WithoutRow(i)[k] = IF k <= i - 1 THEN before[k] ELSE after[k - (i - 1)]
  <2>1. Len(before) + Len(after) = Len(rows) - 1
    BY <1>1, <1>2, <1>3
  <2>2. /\ DOMAIN (before \o after) = 1 .. Len(before) + Len(after)
        /\ \A k \in 1 .. Len(before) + Len(after) :
              (before \o after)[k] = IF k <= Len(before) THEN before[k]
                                     ELSE after[k - Len(before)]
    BY <1>2, <1>3, ConcatElements
  <2> QED
    BY <1>2, <1>4, <2>1, <2>2
<1>6. \A k \in 1 .. Len(rows) - 1 : old(k) \in DOMAIN rows /\ WithoutRow(i)[k] = rows[old(k)]
  <2> SUFFICES ASSUME NEW k \in 1 .. Len(rows) - 1
               PROVE  old(k) \in DOMAIN rows /\ WithoutRow(i)[k] = rows[old(k)]
    OBVIOUS
  <2>1. CASE k <= i - 1
    BY <1>1, <1>2, <1>5, <2>1
  <2>2. CASE k > i - 1
    <3>1. k - (i - 1) \in 1 .. Len(rows) - i /\ i + (k - (i - 1)) = k + 1
      BY <1>1, <2>2
    <3> QED
      BY <1>1, <1>3, <1>5, <2>2, <3>1, SMTT(30)
  <2> QED
    BY <1>1, <2>1, <2>2
<1>7. ASSUME RowsOK, NewestFirst(rows) PROVE NewestFirst(WithoutRow(i))
  <2>1. \A k, m \in 1 .. Len(rows) - 1 : k < m => old(k) < old(m)
    BY <1>1
  <2> QED
    BY <1>5, <1>6, <1>7, <2>1 DEF NewestFirst
<1> QED
  BY <1>5, <1>6, <1>7

LEMMA RowsCreated ==
    ASSUME NEW r, IsTable(rows)
    PROVE  LET table == <<r>> \o rows IN
           /\ DOMAIN table = 1 .. Len(rows) + 1 /\ table[1] = r
           /\ \A k \in 2 .. Len(rows) + 1 : k - 1 \in DOMAIN rows /\ table[k] = rows[k - 1]
           /\ Len(rows) \in Nat /\ DOMAIN rows = 1 .. Len(rows)
<1> DEFINE Rows == {r} \cup {rows[j] : j \in DOMAIN rows}
<1>1. rows \in Seq(Rows) /\ <<r>> \in Seq(Rows) /\ Len(rows) \in Nat
      /\ DOMAIN rows = 1 .. Len(rows)
  BY DEF IsTable
<1> QED
  BY <1>1

LEMMA RowsEdited ==
    ASSUME NEW n, NEW column, NEW value
    PROVE  /\ DOMAIN Edited(n, column, value) = DOMAIN rows
           /\ \A i \in DOMAIN rows :
                 Edited(n, column, value)[i] = IF rows[i].at = n
                                               THEN [rows[i] EXCEPT ![column] = value]
                                               ELSE rows[i]
BY DEF Edited

\* An addition by either client.
LEMMA CreateKeepsVault ==
    ASSUME EntriesInv, NEW serv \in Services, CreateRow(serv), UNCHANGED <<torn, cli>>,
           envelope' = TRUE
    PROVE  VaultOK'
<1> DEFINE s == Sealed(UserKey, version')
           r == RowOf(created', serv, s, s)
<1>1. created \in Nat /\ created' = created + 1 /\ version' \in 1 .. MaxVersions
      /\ version' = version + 1 /\ version \in Nat
  BY DesktopEntriesAssumption DEF EntriesInv, CountsOK, CreateRow
<1>2. s \in Today
  BY <1>1 DEF Sealed, Today
<1>3. IsRecord(r) /\ r.at = created' /\ Readable(r) /\ Finished(r) /\ WrittenToday(r)
  BY <1>2, RowCreated
<1>4. rows' = <<r>> \o rows
  BY DEF CreateRow, SetRows
<1> HIDE DEF r, s
<1>5. /\ DOMAIN rows' = 1 .. Len(rows) + 1 /\ rows'[1] = r
      /\ \A k \in 2 .. Len(rows) + 1 : k - 1 \in DOMAIN rows /\ rows'[k] = rows[k - 1]
      /\ Len(rows) \in Nat /\ DOMAIN rows = 1 .. Len(rows)
  BY <1>4, RowsCreated DEF EntriesInv, ListInvariant
<1>6. \A k \in DOMAIN rows' : \/ k = 1 /\ rows'[k] = r
                              \/ k \in 2 .. Len(rows) + 1 /\ k - 1 \in DOMAIN rows
                                 /\ rows'[k] = rows[k - 1]
  BY <1>5
<1>7. RowsOK'
  BY <1>1, <1>3, <1>6 DEF EntriesInv, RowsOK
<1>8. FinishedOK' /\ KeyOK'
  BY <1>3, <1>6 DEF EntriesInv, FinishedOK, KeyOK
<1>9. LoginOK'
  BY <1>1, <1>3, <1>6, SMTT(30) DEF EntriesInv, LoginOK, UpdateOK
<1>10. NewestFirst(rows')
  <2>1. \A k \in DOMAIN rows : rows[k].at \in 1 .. created
    BY DEF EntriesInv, RowsOK
  <2>2. \A k, m \in 2 .. Len(rows) + 1 : k < m => rows[k - 1].at > rows[m - 1].at
    BY <1>5, SMTT(30) DEF EntriesInv, NewestFirst
  <2>3. \A m \in 2 .. Len(rows) + 1 : rows'[1].at > rows'[m].at
    BY <1>1, <1>3, <1>5, <2>1, SMTT(30)
  <2>4. \A k, m \in 2 .. Len(rows) + 1 : k < m => rows'[k].at > rows'[m].at
    BY <1>5, <2>2
  <2> QED
    BY <1>5, <2>3, <2>4 DEF NewestFirst
<1>11. CountsOK' /\ UpdateOK'
  BY <1>1 DEF EntriesInv, CountsOK, UpdateOK
<1> QED
  BY <1>7, <1>8, <1>9, <1>10, <1>11 DEF VaultOK

\* A deletion by the other client.
LEMMA DeleteKeepsVault ==
    ASSUME EntriesInv, NEW i \in DOMAIN rows, rows' = WithoutRow(i), cli = None,
           UNCHANGED <<created, version, torn, cli, envelope>>
    PROVE  VaultOK'
<1>1. /\ \A k \in DOMAIN rows' : \E j \in DOMAIN rows : rows'[k] = rows[j]
      /\ NewestFirst(rows')
  BY RowsWithout DEF EntriesInv, ListInvariant
<1>2. RowsOK' /\ FinishedOK' /\ KeyOK'
  BY <1>1 DEF EntriesInv, RowsOK, FinishedOK, KeyOK
<1>3. LoginOK' /\ CountsOK' /\ UpdateOK' /\ (envelope \in BOOLEAN)'
  BY DEF EntriesInv, LoginOK, CountsOK, UpdateOK
<1> QED
  BY <1>1, <1>2, <1>3 DEF VaultOK

LEMMA CliUpdateKeepsVault ==
    ASSUME EntriesInv, NEW i \in DOMAIN rows, NEW step \in {"service", "login"},
           CliUpdate(i, step)
    PROVE  VaultOK'
<1>1. rows[i].at \in 1 .. created /\ version' = version + 1 /\ version' \in 1 .. MaxVersions
  BY DesktopEntriesAssumption DEF EntriesInv, RowsOK, CountsOK, CliUpdate
<1>2. cli' = [at |-> rows[i].at, step |-> step, version |-> version'] /\ envelope
      /\ UNCHANGED <<rows, created, torn, envelope>>
  BY DEF CliUpdate
<1>3. UpdateOK' /\ LoginOK' /\ CountsOK'
  BY <1>1, <1>2 DEF EntriesInv, UpdateOK, LoginOK, CountsOK
<1>4. RowsOK' /\ FinishedOK' /\ KeyOK' /\ NewestFirst(rows') /\ (envelope \in BOOLEAN)'
  BY <1>2 DEF EntriesInv, RowsOK, FinishedOK, KeyOK
<1> QED
  BY <1>3, <1>4 DEF VaultOK

LEMMA UpdateServiceKeepsVault ==
    ASSUME EntriesInv, NEW serv \in Services, UpdateService(serv)
    PROVE  VaultOK'
<1> DEFINE s(i) == [rows[i] EXCEPT !["serv"] = serv]
<1>1. rows' = Edited(cli.at, "serv", serv) /\ cli' = [cli EXCEPT !.step = "login"]
      /\ UNCHANGED <<created, version, torn, envelope>> /\ cli # None
  BY DEF UpdateService, SetRows
<1>2. ASSUME NEW i \in DOMAIN rows
      PROVE  /\ IsRecord(s(i)) /\ s(i).at = rows[i].at
             /\ Readable(s(i))
             /\ Finished(rows[i]) => Finished(s(i))
             /\ WrittenToday(s(i)) = WrittenToday(rows[i])
  BY ServEdited DEF EntriesInv, RowsOK
<1>3. DOMAIN rows' = DOMAIN rows /\ \A i \in DOMAIN rows : rows'[i] = s(i) \/ rows'[i] = rows[i]
  BY <1>1, RowsEdited
<1> HIDE DEF s
<1>4. RowsOK' /\ FinishedOK' /\ KeyOK' /\ NewestFirst(rows')
  BY <1>1, <1>2, <1>3 DEF EntriesInv, RowsOK, FinishedOK, KeyOK, NewestFirst
<1>5. cli'.step = "login"
  BY <1>1 DEF EntriesInv, UpdateOK
<1>6. LoginOK' /\ UpdateOK' /\ CountsOK' /\ (envelope \in BOOLEAN)'
  BY <1>1, <1>5 DEF EntriesInv, LoginOK, UpdateOK, CountsOK
<1> QED
  BY <1>4, <1>6 DEF VaultOK

\* The login is written, and the row is half written now.
LEMMA UpdateLoginKeepsVault ==
    ASSUME EntriesInv, UpdateLogin
    PROVE  VaultOK'
<1> DEFINE c == Sealed(UserKey, cli.version)
           s(i) == [rows[i] EXCEPT !["login"] = c]
<1>1. rows' = Edited(cli.at, "login", c) /\ cli' = [cli EXCEPT !.step = "pass"]
      /\ torn' = torn \cup {cli.at}
      /\ UNCHANGED <<created, version, envelope>> /\ cli # None
  BY DEF UpdateLogin, SetRows
<1>2. cli \in [at : 1 .. created, step : {"service", "login", "pass"},
              version : 1 .. version]
      /\ envelope
  BY <1>1 DEF EntriesInv, UpdateOK
<1>3. c \in Today
  BY <1>2, DesktopEntriesAssumption DEF Sealed, Today, EntriesInv, CountsOK
<1>4. ASSUME NEW i \in DOMAIN rows
      PROVE  IsRecord(s(i)) /\ s(i).at = rows[i].at /\ s(i).login = c /\ Readable(s(i))
  BY <1>3, LoginEdited DEF EntriesInv, RowsOK
<1>5. DOMAIN rows' = DOMAIN rows
      /\ \A i \in DOMAIN rows : rows'[i] = IF rows[i].at = cli.at THEN s(i) ELSE rows[i]
  BY <1>1, RowsEdited
<1> HIDE DEF s
<1>6. RowsOK' /\ FinishedOK' /\ NewestFirst(rows')
  BY <1>1, <1>4, <1>5 DEF EntriesInv, RowsOK, FinishedOK, NewestFirst
<1>7. KeyOK' /\ (envelope \in BOOLEAN)'
  BY <1>1, <1>2 DEF KeyOK, EntriesInv
<1>8. cli'.at = cli.at /\ cli'.step = "pass" /\ cli'.version = cli.version
      /\ cli' \in [at : 1 .. created, step : {"service", "login", "pass"},
                  version : 1 .. version]
  BY <1>1, <1>2
<1>9. LoginOK'
  BY <1>4, <1>5, <1>8 DEF LoginOK
<1>10. UpdateOK' /\ CountsOK'
  BY <1>1, <1>2, <1>8 DEF EntriesInv, UpdateOK, CountsOK
<1> QED
  BY <1>6, <1>7, <1>9, <1>10 DEF VaultOK

\* The password is written after its login, and the row is whole again.
LEMMA UpdatePassKeepsVault ==
    ASSUME EntriesInv, UpdatePass
    PROVE  VaultOK'
<1> DEFINE c == Sealed(UserKey, cli.version)
           s(i) == [rows[i] EXCEPT !["pass"] = c]
<1>1. rows' = Edited(cli.at, "pass", c) /\ cli' = None /\ torn' = torn \ {cli.at}
      /\ UNCHANGED <<created, version, envelope>> /\ cli # None /\ cli.step = "pass"
  BY DEF UpdatePass, SetRows
<1>2. cli.version \in 1 .. version /\ envelope
  BY <1>1 DEF EntriesInv, UpdateOK
<1>3. c \in Today
  BY <1>2, DesktopEntriesAssumption DEF Sealed, Today, EntriesInv, CountsOK
<1>4. ASSUME NEW i \in DOMAIN rows, rows[i].at = cli.at
      PROVE  IsRecord(s(i)) /\ s(i).at = rows[i].at /\ Readable(s(i)) /\ Finished(s(i))
  <2>1. rows[i].login = c /\ IsRecord(rows[i])
    BY <1>1, <1>4 DEF EntriesInv, LoginOK, RowsOK
  <2> QED
    BY <1>3, <2>1, PassEdited
<1>5. DOMAIN rows' = DOMAIN rows
      /\ \A i \in DOMAIN rows : rows'[i] = IF rows[i].at = cli.at THEN s(i) ELSE rows[i]
  BY <1>1, RowsEdited
<1> HIDE DEF s
<1>6. RowsOK' /\ FinishedOK' /\ NewestFirst(rows')
  BY <1>1, <1>4, <1>5 DEF EntriesInv, RowsOK, FinishedOK, NewestFirst
<1>7. KeyOK' /\ LoginOK' /\ UpdateOK' /\ CountsOK' /\ (envelope \in BOOLEAN)'
  BY <1>1, <1>2 DEF KeyOK, LoginOK, UpdateOK, EntriesInv, CountsOK
<1> QED
  BY <1>6, <1>7 DEF VaultOK

\* The vault stays as it is, and an update may be given up.
LEMMA SameVault ==
    ASSUME EntriesInv, UNCHANGED vault, UNCHANGED envelope, cli' \in {cli, None}
    PROVE  VaultOK'
BY DEF EntriesInv, VaultOK, vault, RowsOK, FinishedOK, KeyOK, LoginOK, NewestFirst, CountsOK,
       UpdateOK

\* No row has an id that an entry of a list can have.
LEMMA NothingFound ==
    ASSUME EntriesInv, api = "delete", NEW i \in DOMAIN rows
    PROVE  rows[i].id # target
<1>1. rows[i].id = Uuid(rows[i].at)
  <2>1. \A n, a, b, c : RowOf(n, a, b, c).id = Uuid(n)
    BY DEF RowOf
  <2> QED
    BY <2>1 DEF EntriesInv, RowsOK, IsRecord
<1>2. rows[i].id.kind = "uuid"
  BY <1>1 DEF Uuid
<1>3. target.kind \in {"given", "hash"}
  BY DEF EntriesInv, CommandOK
<1> QED
  BY <1>2, <1>3

LEMMA AnswerChangesNothing ==
    ASSUME EntriesInv, AnswerDelete
    PROVE  UNCHANGED <<vault, cli, envelope, cache>>
<1>1. {i \in DOMAIN rows : rows[i].id = target} = {}
  BY NothingFound DEF AnswerDelete
<1> QED
  BY <1>1 DEF AnswerDelete, vault

\* Every step keeps the invariant; one case per action.
LEMMA NextEntriesInv ==
    ASSUME EntriesInv, [Next]_vars
    PROVE  EntriesInv'
<1> DEFINE Idle == api' \in {"idle", "list", "delete"} /\ offset' = 0 /\ out' = <<>>
<1>1. ListInvariant'
  BY NextListInvariant DEF EntriesInv
<1>2. ASSUME VaultOK', UNCHANGED <<api, offset, out, target, cache>> PROVE EntriesInv'
  BY <1>1, <1>2 DEF EntriesInv, VaultOK, CommandOK, CacheOK
<1>3. ASSUME NEW serv \in Services, CliCreate(serv) PROVE EntriesInv'
  BY <1>2, <1>3, CreateKeepsVault DEF CliCreate
<1>4. ASSUME NEW serv \in Services, UpdateService(serv) PROVE EntriesInv'
  BY <1>2, <1>4, UpdateServiceKeepsVault DEF UpdateService
<1>5. ASSUME NEW i \in DOMAIN rows, CliDelete(i) PROVE EntriesInv'
  BY <1>2, <1>5, DeleteKeepsVault DEF CliDelete, SetRows
<1>6. ASSUME NEW i \in DOMAIN rows, NEW step \in {"service", "login"}, CliUpdate(i, step)
      PROVE  EntriesInv'
  BY <1>2, <1>6, CliUpdateKeepsVault DEF CliUpdate, command
<1>7. CASE UpdateLogin
  BY <1>2, <1>7, UpdateLoginKeepsVault DEF UpdateLogin
<1>8. CASE UpdatePass
  BY <1>2, <1>8, UpdatePassKeepsVault DEF UpdatePass
<1>9. CASE UpdateFails \/ UNCHANGED vars
  BY <1>2, <1>9, SameVault DEF UpdateFails, vars, command
<1>10. CASE GetPasswords
  <2>1. VaultOK'
    BY <1>10, SameVault DEF GetPasswords
  <2> QED
    BY <1>1, <1>10, <2>1 DEF GetPasswords, EntriesInv, VaultOK, CommandOK, CacheOK
<1>11. CASE ReadPage
  <2>1. VaultOK'
    BY <1>11, SameVault DEF ReadPage
  <2>2. IsTable(rows) /\ offset = 0 /\ out = <<>>
    BY DEF EntriesInv, ListInvariant, CommandOK
  <2>3. cache' = <<>> \o Decoded(PageOf(rows, 0)) /\ Return
    BY <1>11, <2>2, FirstPageIsLast DEF ReadPage
  <2>4. IsPrefixOf(cache', Decoded(rows))
    BY <2>2, <2>3, DecodedPage
  <2>5. \A i \in DOMAIN cache' : i \in DOMAIN rows /\ cache'[i] = DecodeEntry(rows[i])
    <3> DEFINE Entries == {DecodeEntry(rows[i]) : i \in DOMAIN rows}
               n == Len(cache')
    <3>1. DOMAIN rows = 1 .. Len(rows) /\ Len(rows) \in Nat
      BY <2>2 DEF IsTable
    <3>2. Decoded(rows) \in Seq(Entries) /\ Len(Decoded(rows)) = Len(rows)
      BY <3>1 DEF Decoded
    <3>3. PageOf(rows, 0) = SubSeq(rows, 1, Len(PageOf(rows, 0)))
          /\ Len(PageOf(rows, 0)) \in 0 .. Len(rows) /\ IsTable(PageOf(rows, 0))
      BY <2>2, FirstPageIsTable
    <3>4. Len(cache') \in Nat
      BY <2>3, <3>3 DEF Decoded, IsTable
    <3>5. cache' = SubSeq(Decoded(rows), 1, n) /\ n \in 0 .. Len(rows)
      BY <2>4, <3>2, <3>4 DEF IsPrefixOf
    <3>6. \A i \in DOMAIN cache' : i \in DOMAIN rows /\ cache'[i] = Decoded(rows)[i]
      BY <3>1, <3>2, <3>5
    <3> QED
      BY <3>6 DEF Decoded
  <2>6. CacheOK'
    BY <2>5, DecodedIsKnown DEF EntriesInv, RowsOK, CacheOK
  <2> QED
    BY <1>1, <2>1, <2>3, <2>6 DEF Return, EntriesInv, VaultOK, CommandOK
<1>12. CASE ListFails
  <2>1. VaultOK'
    BY <1>12, SameVault DEF ListFails
  <2> QED
    BY <1>1, <1>12, <2>1 DEF ListFails, Return, EntriesInv, VaultOK, CommandOK, CacheOK
<1>13. CASE AnswerDelete
  <2>1. VaultOK' /\ UNCHANGED cache
    BY <1>13, AnswerChangesNothing, SameVault
  <2> QED
    BY <1>1, <1>13, <2>1 DEF AnswerDelete, Return, EntriesInv, VaultOK, CommandOK, CacheOK
<1>14. ASSUME NEW serv \in Services, AddPassword(serv) PROVE EntriesInv'
  BY <1>2, <1>14, CreateKeepsVault DEF AddPassword
<1>15. ASSUME cache # None, NEW i \in DOMAIN cache, DeletePassword(i) PROVE EntriesInv'
  <2>1. VaultOK'
    BY <1>15, SameVault DEF DeletePassword
  <2>2. target'.kind \in {"given", "hash"}
    <3>1. KnownById(cache[i])
      BY <1>15 DEF EntriesInv, CacheOK
    <3>2. cache[i].id.kind \in {"given", "hash"}
      BY <3>1 DEF KnownById
    <3> QED
      BY <1>15, <3>2 DEF DeletePassword
  <2> QED
    BY <1>1, <1>15, <2>1, <2>2 DEF DeletePassword, EntriesInv, VaultOK, CommandOK, CacheOK
<1> QED
  BY <1>3, <1>4, <1>5, <1>6, <1>7, <1>8, <1>9, <1>10, <1>11, <1>12, <1>13, <1>14, <1>15
  DEF Next, Cli, Desktop

\* In every behaviour, whatever the services, the forms of the earlier entries,
\* their number and the number of changes.
THEOREM EntriesInvHolds == Spec => []EntriesInv
<1> QED
  BY InitEntriesInv, NextEntriesInv, PTL DEF Spec

-----------------------------------------------------------------------------
(* The properties of the entries *)

LEMMA ReadableKinds ==
    ASSUME NEW r, Readable(r)
    PROVE  r.login.kind \in Strings /\ r.pass.kind \in Strings
<1>1. \A payload : Json(payload).kind \in Strings
  BY DEF Json, Strings
<1>2. \A text : Text(text).kind \in Strings
  BY DEF Text, Strings
<1>3. \A key, v : Sealed(key, v).kind \in Strings
  BY DEF Sealed, Strings
<1>4. \A s \in Today : s.kind \in Strings
  BY DEF Today, Strings
<1> QED
  BY <1>1, <1>2, <1>3, <1>4 DEF Readable, JsonPassRow, JsonLoginRow, PlainRow

LEMMA InvTypeOK == EntriesInv => TypeOK
<1> SUFFICES ASSUME EntriesInv PROVE TypeOK
  OBVIOUS
<1>1. \A i \in DOMAIN rows : IsRow(rows[i])
  <2> SUFFICES ASSUME NEW i \in DOMAIN rows PROVE IsRow(rows[i])
    OBVIOUS
  <2> DEFINE r == rows[i]
  <2>1. IsRecord(r) /\ r.at \in 1 .. created /\ Readable(r)
    BY DEF EntriesInv, RowsOK
  <2>2. \A n, a, b, c : RowOf(n, a, b, c).id = Uuid(n)
    BY DEF RowOf
  <2>3. r.id = Uuid(r.at) /\ r.serv \in Services
    BY <2>1, <2>2 DEF IsRecord
  <2>4. r.login.kind \in Strings /\ r.pass.kind \in Strings
    BY <2>1, ReadableKinds
  <2> HIDE DEF r
  <2>5. IsRow(r)
    BY <2>1, <2>3, <2>4 DEF IsRow
  <2> QED
    BY <2>5 DEF r
<1>2. \A i, j \in DOMAIN rows : i < j => rows[i].at > rows[j].at
  BY DEF EntriesInv, NewestFirst
<1> QED
  BY <1>1, <1>2 DEF EntriesInv, CountsOK, UpdateOK, CommandOK, CacheOK, TypeOK

\* The entries that the desktop client shows have an id and a title, rows keep
\* the order of their creation, and a deletion asks for an id that the client
\* made up (decode_password_entry and list_passwords in api.rs).
THEOREM EntriesTypeOK == Spec => []TypeOK
<1> QED
  BY EntriesInvHolds, InvTypeOK, PTL

LEMMA InvIdMeansContent == EntriesInv => IdMeansContent
<1> SUFFICES ASSUME EntriesInv, cache # None, NEW i \in DOMAIN cache, NEW j \in DOMAIN rows,
                    cache[i].id = DecodeEntry(rows[j]).id
             PROVE  LET old == cache[i]
                        new == DecodeEntry(rows[j])
                    IN  old.login = new.login /\ old.pass = new.pass
                        /\ old.wrapped = new.wrapped
  BY DEF IdMeansContent
<1>1. KnownById(cache[i])
  BY DEF EntriesInv, CacheOK
<1>2. KnownById(DecodeEntry(rows[j]))
  BY DecodedIsKnown DEF EntriesInv, RowsOK
<1>3. \A e, f : KnownById(e) /\ KnownById(f) /\ e.id = f.id =>
        e.login = f.login /\ e.pass = f.pass /\ e.wrapped = f.wrapped
  BY DEF KnownById
<1> QED
  BY <1>1, <1>2, <1>3

\* Whoever clicks a card of an old list decrypts what the card stood for: the id
\* that build_fallback_entry_id computes, or that an earlier client gave, is
\* never that of another content, however the other client changes the vault.
THEOREM IdsMeanContent == Spec => []IdMeansContent
<1> QED
  BY EntriesInvHolds, InvIdMeansContent, PTL

\* With an earlier salt, the key of the phrase opens the entry as long as there
\* is no envelope.
LEMMA FinishedOpens ==
    ASSUME NEW r, r.at \in Nat, NEW held \in BOOLEAN, Finished(r), WrittenToday(r) => held,
           ~(Opens(SeedKey, r.pass) /\ held)
    PROVE  LET opened == DecryptEntry(DecodeEntry(r), held) IN
           opened # None /\ (Opens(SeedKey, r.pass) \/ opened.login = {opened.password})
<1> DEFINE e == DecodeEntry(r)
           opened == DecryptEntry(e, held)
           Opened == opened # None /\ (Opens(SeedKey, r.pass) \/ opened.login = {opened.password})
<1>1. ASSUME NEW login \in SUBSET Nat, NEW password \in Nat
      PROVE  [login |-> login, password |-> password] # None
  <2>1. [login |-> login, password |-> password] \in [login : SUBSET Nat, password : Nat]
    OBVIOUS
  <2> QED
    BY <2>1, DesktopEntriesAssumption
<1>2. UserKey # None /\ SeedKey # None /\ UserKey # SeedKey
  BY DesktopEntriesAssumption DEF UserKey, SeedKey
<1>3. ASSUME NEW key, key # None, key # SeedKey, EntryKey(e, held) = key, NEW v \in Nat,
             e.login = Sealed(key, v), e.pass = Sealed(key, v)
      PROVE  Opened
  <2>1. Opens(key, e.login) /\ Opens(key, e.pass) /\ HasLogin(e, held)
        /\ e.login.version = v /\ e.pass.version = v
    BY <1>3 DEF Opens, HasLogin, Sealed, Blank
  <2>2. opened = [login |-> {v}, password |-> v]
    BY <1>3, <2>1 DEF DecryptEntry
  <2> QED
    BY <1>1, <2>2
<1>4. ASSUME NEW n \in Nat, NEW title, e = GivenEntry(n, title) PROVE Opened
  <2>1. OwnKey(n) # None /\ OwnKey(n) # SeedKey
    <3>1. OwnKey(n) \in [kind : {"own"}, n : Nat] /\ OwnKey(n).kind # SeedKey.kind
      BY DEF OwnKey, SeedKey
    <3> QED
      BY <3>1, DesktopEntriesAssumption
  <2>2. e.wrapped = Wrapped(OwnKey(n)) /\ e.login = Sealed(OwnKey(n), 0)
        /\ e.pass = Sealed(OwnKey(n), 0)
    BY <1>4 DEF GivenEntry
  <2>3. EntryKey(e, held) = OwnKey(n)
    BY <2>2 DEF EntryKey, Wrapped, Blank
  <2> QED
    BY <1>3, <2>1, <2>2, <2>3
<1>5. CASE r.pass = Json(PassPayload(r.at)) /\ r.login = Text("login")
  <2>1. e = GivenEntry(r.at, TitleOf(r, Blank))
    BY <1>5, JsonPassDecoded DEF JsonPassRow
  <2> QED
    BY <1>4, <2>1
<1>6. CASE JsonLoginRow(r)
  <2>1. PICK title \in Services : r.login = Json(LoginPayload(r.at, title))
    BY <1>6 DEF JsonLoginRow
  <2>2. e = GivenEntry(r.at, TitleOf(r, title))
    BY <1>6, <2>1, JsonLoginDecoded DEF JsonLoginRow
  <2> QED
    BY <1>4, <2>2
<1>7. CASE r.pass = Sealed(SeedKey, 0) /\ r.login = Text("salt")
  <2>1. Opens(SeedKey, r.pass) /\ r.pass.version = 0 /\ ~held
    BY <1>7 DEF Opens, Sealed
  <2>2. e.wrapped = Blank /\ e.salt = r.login /\ e.pass = r.pass
    <3>1. r.login.kind # "sealed"
      BY <1>7 DEF Text
    <3> QED
      BY <1>7, <3>1, PlainDecoded DEF PlainRow
  <2>3. EntryKey(e, held) = SeedKey
    BY <1>7, <2>1, <2>2 DEF EntryKey, Text, Blank
  <2>4. opened = [login |-> {}, password |-> 0]
    BY <1>2, <2>1, <2>2, <2>3 DEF DecryptEntry, HasLogin
  <2> QED
    BY <1>1, <2>1, <2>4
<1>8. CASE r.pass \in Today /\ r.login = r.pass
  <2>1. PICK v \in Nat : r.pass = Sealed(UserKey, v)
    BY <1>8 DEF Today, Sealed
  <2>2. held
    BY <1>8 DEF WrittenToday
  <2>3. e.wrapped = Blank /\ e.login = r.pass /\ e.pass = r.pass
    <3>1. r.login.kind = "sealed"
      BY <1>8 DEF Today
    <3> QED
      BY <1>8, <3>1, PlainDecoded DEF PlainRow
  <2>4. EntryKey(e, held) = UserKey
    BY <2>2, <2>3 DEF EntryKey
  <2> QED
    BY <1>2, <1>3, <2>1, <2>3, <2>4
<1> QED
  BY <1>5, <1>6, <1>7, <1>8 DEF Finished

LEMMA InvEntriesOpen == EntriesInv => EntriesOpen
<1> SUFFICES ASSUME EntriesInv, NEW i \in DOMAIN rows, rows[i].at \notin torn,
                    ~(Opens(SeedKey, rows[i].pass) /\ envelope)
             PROVE  LET opened == DecryptEntry(DecodeEntry(rows[i]), envelope)
                        salted == Opens(SeedKey, rows[i].pass)
                    IN  opened # None /\ (salted \/ opened.login = {opened.password})
  BY DEF EntriesOpen
<1>1. Finished(rows[i]) /\ (WrittenToday(rows[i]) => envelope) /\ rows[i].at \in Nat
  BY DEF EntriesInv, FinishedOK, KeyOK, RowsOK
<1>2. envelope \in BOOLEAN
  BY DEF EntriesInv
<1> QED
  BY <1>1, <1>2, FinishedOpens

\* Every entry that was written to its end opens with the right phrase, and the
\* login and the password that decrypt_password_entry_with_seed returns come
\* from one write, for entries of every format that the client can read.
THEOREM FinishedEntriesOpen == Spec => []EntriesOpen
<1> QED
  BY EntriesInvHolds, InvEntriesOpen, PTL

-----------------------------------------------------------------------------
(* Deletions *)

\* The other side of DeletedIsGone: a deletion that the desktop client asks for
\* never changes the vault or the client's list, because the id of a row is not
\* what the client keeps of it (fill_payload_defaults in api.rs).
THEOREM DeletionsChangeNothing ==
    Spec => [][AnswerDelete => UNCHANGED <<vault, cache>>]_vars
<1>1. EntriesInv /\ [Next]_vars => [AnswerDelete => UNCHANGED <<vault, cache>>]_vars
  BY AnswerChangesNothing
<1> QED
  BY <1>1, EntriesInvHolds, PTL DEF Spec

=============================================================================
