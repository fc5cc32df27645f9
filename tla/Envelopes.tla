------------------------------ MODULE Envelopes ------------------------------
(***************************************************************************)
(* crypto.rs of the desktop client, symbolically: a seed phrase gives a    *)
(* wrapping key, the wrapping key locks the master key, the master key     *)
(* locks the entries of a vault.                                           *)
(*                                                                         *)
(* A ciphertext is the text together with the key that opens it; AES-GCM   *)
(* authenticates, so any other key is refused.  A salt is drawn for every  *)
(* wrapping, travels with the ciphertext and is never compared, so it is   *)
(* part of the ciphertext here.  Base64, nonces and lengths are left out:  *)
(* a text damaged on the way is the ciphertext Damaged.                    *)
(***************************************************************************)

CONSTANT None   \* the error of every function that returns a Result

\* The two names under which algorithms are stored.
Argon2id == "aes256gcm-argon2id"
Sha256 == "aes256gcm-sha256"
Algorithms == {Argon2id, Sha256}

\* Names are compared without case and surrounding blanks.
Spellings == {"", "default", "argon2id", "aes-256-gcm-argon2id", Argon2id,
              "sha256", "aes-256-gcm-sha256", Sha256, "other"}

DefaultEncryptionAlgorithm == Argon2id

ResolveEncryptionAlgorithm(name) ==
    IF name \in {"", "default", "argon2id", "aes-256-gcm-argon2id", Argon2id} THEN Argon2id
    ELSE IF name \in {"sha256", "aes-256-gcm-sha256", Sha256} THEN Sha256
    ELSE None

-----------------------------------------------------------------------------
(* Keys and ciphertexts *)

\* One key for each phrase and algorithm; master keys are never of this form.
DeriveKeyFromSeed(seed, algorithm) == [seed |-> seed, algorithm |-> algorithm]

EncryptBytesWithKey(text, key) == [key |-> key, text |-> text]

DecryptBytesWithKey(box, key) == IF box.key = key THEN box.text ELSE None

-----------------------------------------------------------------------------
(* Envelopes *)

\* What is kept of a master key: its ciphertext, and a label that says with
\* which algorithm to derive the key that opens it.
Envelope(box, label) == [box |-> box, algorithm |-> label]

WrapMasterKey(master, seed, name) ==
    LET algorithm == ResolveEncryptionAlgorithm(name) IN
    IF algorithm = None THEN None
    ELSE Envelope(EncryptBytesWithKey(master, DeriveKeyFromSeed(seed, algorithm)), algorithm)

UnwrapMasterKey(envelope, seed) ==
    LET algorithm == ResolveEncryptionAlgorithm(envelope.algorithm) IN
    IF algorithm = None THEN None
    ELSE DecryptBytesWithKey(envelope.box, DeriveKeyFromSeed(seed, algorithm))

\* The key is fresh: the caller draws it.
PrepareMasterKeyEnvelope(fresh, seed, name) == WrapMasterKey(fresh, seed, name)

=============================================================================
