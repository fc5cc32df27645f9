------------------------------ MODULE EntryCodec ------------------------------
(***************************************************************************)
(* How the desktop client reads the entries of the vault                   *)
(* (decode_password_entry in api.rs) and with which key it opens them      *)
(* (decrypt_password_entry_with_seed in main.rs).                          *)
(*                                                                         *)
(* The server keeps two strings per entry, login and pass.  Today's        *)
(* clients write two ciphertexts; earlier ones wrote a JSON object with a  *)
(* master key of its own into one of the two, or a salt into login.        *)
(***************************************************************************)
EXTENDS Naturals, Sequences

CONSTANT None

-----------------------------------------------------------------------------
(* Strings, by what the decoder tells apart *)

Blank == [kind |-> "blank"]

\* Base64 of a ciphertext: at least a nonce and a tag.
Sealed(key, version) == [kind |-> "sealed", key |-> key, version |-> version]

\* Anything else that is no JSON object.
Text(text) == [kind |-> "text", text |-> text]

\* The id that an earlier client gave to its entry.
GivenId(n) == [kind |-> "given", n |-> n]

\* The master key of the user, the key derived from phrase and salt, and the
\* master key of entry n.
UserKey == [kind |-> "user"]
SeedKey == [kind |-> "seed"]
OwnKey(n) == [kind |-> "own", n |-> n]

Wrapped(key) == [kind |-> "wrapped", key |-> key]

Json(payload) == [kind |-> "json", payload |-> payload]

LooksLikeEncrypted(s) == s.kind = "sealed"

NonBlank(s, default) == IF s = Blank THEN default ELSE s

EmptyPayload ==
    [id |-> Blank, title |-> Blank, login |-> Blank, pass |-> Blank, salt |-> Blank,
     wrapped |-> Blank]

-----------------------------------------------------------------------------
(* Decoding *)

\* Mutant: the id of the row, as the server names it.
IdOfRow(row) == row.id

\* The id of the row is not used: an entry is named by a hash of its content
\* and its time of creation.
FallbackEntryId(row) ==
    [kind |-> "hash", of |-> <<row.serv, row.login, row.pass, row.at>>]

TitleOf(row, title) == NonBlank(NonBlank(title, row.serv), Text("Entry"))

\* Mutant: entries keep the id they were written with, or none.
FillTitleOnly(row, payload) == [payload EXCEPT !.title = TitleOf(row, @)]

FillPayloadDefaults(row, payload) ==
    [payload EXCEPT !.id = NonBlank(@, FallbackEntryId(row)),
                    !.title = TitleOf(row, @)]

HasSecrets(payload) ==
    payload.pass # Blank \/ payload.salt # Blank \/ payload.wrapped # Blank

\* What login says of the entry, when pass is only the ciphertext.
Meta(row) ==
    [(IF row.login.kind = "json" THEN row.login.payload ELSE EmptyPayload)
        EXCEPT !.pass = row.pass]

\* Mutant: a login that is a ciphertext is taken for a salt like any other.
WithSaltOnly(row, payload) ==
    IF payload.salt = Blank THEN [payload EXCEPT !.salt = row.login] ELSE payload

\* A login that is no ciphertext may be a salt.
WithLogin(row, payload) ==
    IF payload.login = Blank /\ LooksLikeEncrypted(row.login)
    THEN [payload EXCEPT !.login = row.login]
    ELSE IF payload.salt = Blank THEN [payload EXCEPT !.salt = row.login] ELSE payload

DecodeEntry(row) ==
    IF row.pass.kind = "json" /\ HasSecrets(row.pass.payload)
    THEN FillPayloadDefaults(row, row.pass.payload)
    ELSE FillPayloadDefaults(row, WithLogin(row, Meta(row)))

-----------------------------------------------------------------------------
(* Opening an entry, with the right phrase *)

\* The key is that of the entry, else that of the vault, else the one derived
\* from the salt.
EntryKey(entry, envelope) ==
    IF entry.wrapped # Blank THEN entry.wrapped.key
    ELSE IF envelope THEN UserKey
    ELSE IF entry.salt # Blank THEN SeedKey ELSE None

Opens(key, s) == s.kind = "sealed" /\ s.key = key

\* With a salt, the login is not opened.
HasLogin(entry, envelope) == entry.login # Blank /\ EntryKey(entry, envelope) # SeedKey

\* What decrypt_password_entry returns: the writes that the login, if there is
\* one, and the password come from; None for an error.
DecryptEntry(entry, envelope) ==
    LET key == EntryKey(entry, envelope)
    IN  IF key # None /\ Opens(key, entry.pass)
           /\ (HasLogin(entry, envelope) => Opens(key, entry.login))
        THEN [login |-> IF HasLogin(entry, envelope) THEN {entry.login.version} ELSE {},
              password |-> entry.pass.version]
        ELSE None

=============================================================================
