----------------------------- MODULE Usernames ------------------------------
(***************************************************************************)
(* How the server of SecureGuard treats the name a user asks for: what     *)
(* Register stores (Require.Normalize) and what the test for a taken name  *)
(* looks up (strings.ToLower).  A name is a sequence of characters; the    *)
(* four below stand for a letter, its upper case, another letter that the  *)
(* generated names begin with, and everything else.                        *)
(***************************************************************************)
EXTENDS Naturals, Sequences

CONSTANTS
    MinRaw,     \* shortest name a client may ask for
    MinName,    \* minUsernameLen
    MaxName     \* maxUsernameLen

ASSUME LengthsAssumption ==
    /\ MinRaw \in Nat /\ MinName \in Nat /\ MaxName \in Nat
    /\ MinRaw < MinName /\ MinName <= MaxName

Allowed == {"a", "u"}
Chars == Allowed \cup {"A", "-"}
Names == Seq(Chars)

\* The names that can be in the table.
StoredNames == UNION {[1..k -> Allowed] : k \in MinName..MaxName}

Lower(n) == [i \in 1..Len(n) |-> IF n[i] = "A" THEN "a" ELSE n[i]]

\* Mutant: capital letters are kept.
KeepCapitals(n) == SelectSeq(n, LAMBDA c : c \in Allowed \cup {"A"})

\* One character after the other; capital letters are dropped, not lowered.
Sanitize(n) ==
    LET kept[i \in 0..Len(n)] ==
            IF i = 0 THEN <<>>
            ELSE IF n[i] \in Allowed THEN Append(kept[i - 1], n[i])
            ELSE kept[i - 1]
    IN  kept[Len(n)]

\* The prefix "user" and random characters.
GenerateUsername ==
    UNION {{<<"u">> \o s : s \in [1..k - 1 -> Allowed]} : k \in MinName..MaxName}

\* Mutant: long names are not cut.
NormalizeUncut(n) ==
    IF Len(Sanitize(n)) < MinName THEN GenerateUsername ELSE {Sanitize(n)}

\* The names Normalize may make of n: a cut one, or any generated one.
Normalize(n) ==
    IF Len(Sanitize(n)) < MinName THEN GenerateUsername
    ELSE IF Len(Sanitize(n)) > MaxName THEN {SubSeq(Sanitize(n), 1, MaxName)}
    ELSE {Sanitize(n)}

=============================================================================
