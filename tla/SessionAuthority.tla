-------------------------- MODULE SessionAuthority --------------------------
(***************************************************************************)
(* What the sessions of SecureGuard promise, without tables, statements or *)
(* clocks.  A session is issued to one user and one client, is live until  *)
(* it dies for good, and admits a visitor under the identity of its owner  *)
(* if it was live at some moment of the visit.  Only time, or an admitted  *)
(* visitor with the same owner, can make a session die.                    *)
(***************************************************************************)
CONSTANTS Users, Hashes, Tokens, Requests, None

VARIABLES
    session,    \* session[t]: None, or whom t was issued to and if it is live
    visit,      \* visit[r]: None, or what the visitor r shows
    identity    \* identity[r]: the user r was admitted as

avars == <<session, visit, identity>>

AInit ==
    /\ session = [t \in Tokens |-> None]
    /\ visit = [r \in Requests |-> None]
    /\ identity = [r \in Requests |-> None]

Issue(t, u, h) ==
    /\ session[t] = None
    /\ session' = [session EXCEPT ![t] = [owner |-> u, hash |-> h, live |-> TRUE]]
    /\ UNCHANGED <<visit, identity>>

\* The sessions of S reach the end of their life.
Expire(S) ==
    /\ \A t \in S : session[t] # None
    /\ session' = [t \in Tokens |->
                     IF t \in S
                     THEN [owner |-> session[t].owner, hash |-> session[t].hash, live |-> FALSE]
                     ELSE session[t]]
    /\ UNCHANGED <<visit, identity>>

\* A session not issued yet may still become live during the visit.
Open(r, t, h) ==
    /\ visit[r] = None
    /\ visit' = [visit EXCEPT ![r] =
                   [tok |-> t, hash |-> h, inTime |-> session[t] = None \/ session[t].live]]
    /\ UNCHANGED <<session, identity>>

Admit(r) ==
    /\ visit[r] # None
    /\ visit[r].inTime
    /\ LET s == session[visit[r].tok] IN
       /\ s # None
       /\ s.hash = visit[r].hash
       /\ identity' = [identity EXCEPT ![r] = s.owner]
    /\ UNCHANGED <<session, visit>>

Leave(R) ==
    /\ visit' = [r \in Requests |-> IF r \in R THEN None ELSE visit[r]]
    /\ identity' = [r \in Requests |-> IF r \in R THEN None ELSE identity[r]]

Close(R) == Leave(R) /\ UNCHANGED session

Revoke(r, t) ==
    /\ identity[r] # None
    /\ session[t] # None
    /\ session[t].owner = identity[r]
    /\ session' = [session EXCEPT ![t].live = FALSE]
    /\ Leave({r})

ANext ==
    \/ \E t \in Tokens, u \in Users, h \in Hashes : Issue(t, u, h)
    \/ \E S \in SUBSET Tokens : Expire(S)
    \/ \E R \in SUBSET Requests : Close(R)
    \/ \E r \in Requests, t \in Tokens :
          \/ \E h \in Hashes : Open(r, t, h)
          \/ Admit(r)
          \/ Revoke(r, t)

ASpec == AInit /\ [][ANext]_avars

=============================================================================
