----------------------------- MODULE MCAccounts -----------------------------
(* Instances of Accounts for TLC. *)
EXTENDS Accounts, TLC

\* A name that is stored as it is, one that is cut to it, one that is cut to
\* it after losing a capital letter, one replaced by a generated name, and one
\* that is refused.
MCRawNames == {<<"u", "a">>, <<"u", "a", "-", "u">>, <<"u", "A", "a">>, <<"A", "u">>, <<>>}

\* Two names that can both be registered.
MCKeyNames == {<<"u", "a">>, <<"u", "u">>}

Symmetry == Permutations(Users) \cup Permutations(Requests)

=============================================================================
