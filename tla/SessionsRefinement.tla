------------------------- MODULE SessionsRefinement -------------------------
(***************************************************************************)
(* The proof that Sessions implements SessionAuthority, for every value of *)
(* the constants: each step of the server is a step of the authority, or   *)
(* leaves it as it is.                                                     *)
(***************************************************************************)
EXTENDS SessionsProofs

\* The abstract state is well-formed, and None is none of its records.
LEMMA AbstractTypes ==
    ASSUME SessionInv
    PROVE  /\ \A t \in ids : absSession[t] \in [owner: Users, hash: Hashes, live: BOOLEAN]
                             /\ absSession[t] # None
           /\ \A r \in Requests : pc[r] \in Visiting =>
                 /\ absVisit[r] = [tok |-> call[r].tok, hash |-> call[r].hash,
                                   inTime |-> ~doomed[r]]
                 /\ absVisit[r] # None
           /\ \A r \in Requests : IsAdmitted(r) => absIdentity[r] \in Users /\ absIdentity[r] # None
<1>1. TypeOK /\ \A r \in Requests : RequestInv(r)
  BY DEF SessionInv
<1>2. ASSUME NEW t \in ids
      PROVE  absSession[t] \in [owner: Users, hash: Hashes, live: BOOLEAN]
  BY <1>1 DEF absSession, TypeOK, Row, Dead, Expired
<1>3. ASSUME NEW r \in Requests, pc[r] \in Visiting
      PROVE  /\ absVisit[r] = [tok |-> call[r].tok, hash |-> call[r].hash, inTime |-> ~doomed[r]]
             /\ absVisit[r] \in [tok: Tokens, hash: Hashes, inTime: BOOLEAN]
  <2>1. call[r] \in Call /\ call[r].tok \in Tokens
    BY <1>1, <1>3 DEF RequestInv, CallInv, Visiting, Admitted
  <2> QED BY <1>3, <2>1, CallFields DEF absVisit
<1>4. ASSUME NEW r \in Requests, IsAdmitted(r)
      PROVE  absIdentity[r] \in Users
  <2>1. uid[r] = row[call[r].tok].owner /\ call[r].tok \in ids
    BY <1>1, <1>4 DEF RequestInv, RightsInv, SnapshotInv, IsAdmitted, Visiting, Admitted
  <2> QED BY <1>1, <1>4, <2>1 DEF absIdentity, TypeOK, Row
<1> QED BY <1>2, <1>3, <1>4, NoneAssumption

\* If the table and the clock rest, so do the abstract sessions.
LEMMA SessionsRest ==
    ASSUME UNCHANGED <<now, table>>
    PROVE  absSession' = absSession
BY DEF absSession, Dead, Expired, table

\* One handler moves from inside to outside the authentication: its visit ends.
LEMMA Leaving ==
    ASSUME NEW r \in Requests, pc'[r] \notin Visiting,
           \A q \in Requests \ {r} : LocalsUnchanged(q)
    PROVE  Authority!Leave({r})
BY DEF Authority!Leave, absVisit, absIdentity, LocalsUnchanged, IsAdmitted, Visiting

\* One handler moves within or outside the authentication: nobody notices.
LEMMA Lingering ==
    ASSUME NEW r \in Requests, pc'[r] \in Visiting <=> pc[r] \in Visiting,
           IsAdmitted(r)' <=> IsAdmitted(r), UNCHANGED <<call, doomed, uid>>,
           \A q \in Requests \ {r} : LocalsUnchanged(q)
    PROVE  absVisit' = absVisit /\ absIdentity' = absIdentity
BY DEF absVisit, absIdentity, LocalsUnchanged, IsAdmitted

-----------------------------------------------------------------------------
(* What the statements do to the abstract sessions *)

\* An update of last_seen is invisible.
LEMMA TouchIsInvisible ==
    ASSUME TypeOK, NEW r \in Requests, call[r].tok \in ids, NEW at \in Time,
           row' = TouchedRow(r, at), UNCHANGED <<now, ids>>
    PROVE  absSession' = absSession
<1>1. \A t \in ids : row[t] \in Row /\ t \in Tokens
  BY DEF TypeOK
<1>2. \A t \in ids : /\ row'[t].owner = row[t].owner /\ row'[t].hash = row[t].hash
                     /\ row'[t].revoked = row[t].revoked /\ row'[t].expires = row[t].expires
  BY <1>1 DEF TouchedRow, TypeOK, Row
<1>3. \A t \in Tokens : Dead(t)' = Dead(t)
  BY <1>1, <1>2 DEF Dead, Expired
<1> QED BY <1>2, <1>3 DEF absSession

\* Revoking a session ends its life.
LEMMA RevokedDies ==
    ASSUME SessionInv, NEW t \in ids, row' = RevokedRow(t), UNCHANGED <<now, ids>>
    PROVE  absSession' = [absSession EXCEPT ![t].live = FALSE]
<1>1. TypeOK /\ t \in Tokens /\ \A s \in ids : row[s] \in Row /\ s \in Tokens
  BY DEF SessionInv, TypeOK
<1>2. /\ \A s \in ids : /\ row'[s].owner = row[s].owner /\ row'[s].hash = row[s].hash
                        /\ row'[s].expires = row[s].expires
      /\ \A s \in ids \ {t} : row'[s] = row[s]
      /\ row'[t].revoked
  BY <1>1 DEF RevokedRow, TypeOK, Row
<1>3. /\ Dead(t)'
      /\ \A s \in Tokens \ {t} : Dead(s)' <=> Dead(s)
  BY <1>1, <1>2 DEF Dead, Expired
<1>4. absSession[t] = [owner |-> row[t].owner, hash |-> row[t].hash, live |-> ~Dead(t)]
  BY <1>1 DEF absSession
<1>5. absSession'[t] = [owner |-> row[t].owner, hash |-> row[t].hash, live |-> FALSE]
  BY <1>1, <1>2, <1>3 DEF absSession
<1>6. \A s \in Tokens \ {t} : absSession'[s] = absSession[s]
  BY <1>1, <1>2, <1>3 DEF absSession
<1> QED BY <1>1, <1>4, <1>5, <1>6 DEF absSession

\* Revoking one that has expired changes nothing: it was dead.
LEMMA ExpiredWasDead ==
    ASSUME SessionInv, NEW t \in GetExpired, row' = RevokedRow(t), UNCHANGED <<now, ids>>
    PROVE  absSession' = absSession
<1>1. t \in ids /\ t \in Tokens /\ Dead(t)
  BY DEF SessionInv, TypeOK, GetExpired, Dead
<1>2. absSession[t] = [owner |-> row[t].owner, hash |-> row[t].hash, live |-> FALSE]
  BY <1>1 DEF absSession
<1>3. absSession' = [absSession EXCEPT ![t].live = FALSE]
  BY <1>1, RevokedDies
<1> QED BY <1>1, <1>2, <1>3 DEF absSession

\* An insertion issues a live session.
LEMMA InsertIssues ==
    ASSUME SessionInv, NEW r \in Requests, pc[r] = "create", NEW t \in Tokens, Insert(r, t),
           pc'[r] \notin Visiting, \A q \in Requests \ {r} : LocalsUnchanged(q),
           UNCHANGED <<now, call, doomed, uid>>
    PROVE  Authority!ANext
<1>1. TypeOK /\ call[r].user \in Users /\ call[r].hash \in Hashes
  BY CallFields DEF SessionInv, RequestInv, CallInv
<1>2. ~(now + Lifetime < now) /\ \A s \in ids : s \in Tokens
  BY <1>1, BoundsAssumption DEF TypeOK, Time
<1>3. /\ row'[t] = NewRow(call[r].user, call[r].hash)
      /\ \A s \in Tokens \ {t} : row'[s] = row[s]
      /\ ids' = ids \cup {t} /\ t \notin ids
  BY <1>1 DEF Insert, TypeOK
<1>4. ~Dead(t)' /\ \A s \in Tokens \ {t} : Dead(s)' <=> Dead(s)
  BY <1>1, <1>2, <1>3 DEF Dead, Expired, NewRow
<1>5. absSession[t] = None
  BY <1>3 DEF absSession
<1>6. absSession'[t] = [owner |-> call[r].user, hash |-> call[r].hash, live |-> TRUE]
  <2>1. row'[t].owner = call[r].user /\ row'[t].hash = call[r].hash
    BY <1>3 DEF NewRow
  <2>2. absSession'[t] = [owner |-> row'[t].owner, hash |-> row'[t].hash, live |-> ~Dead(t)']
    BY <1>3 DEF absSession
  <2> QED BY <1>4, <2>1, <2>2
<1>7. \A s \in Tokens \ {t} : absSession'[s] = absSession[s]
  BY <1>3, <1>4 DEF absSession
<1>8. absVisit' = absVisit /\ absIdentity' = absIdentity
  <2>1. (pc'[r] \in Visiting <=> pc[r] \in Visiting) /\ (IsAdmitted(r)' <=> IsAdmitted(r))
    BY DEF Visiting, Admitted, IsAdmitted
  <2> QED BY <2>1, Lingering
<1>9. Authority!Issue(t, call[r].user, call[r].hash)
  BY <1>5, <1>6, <1>7, <1>8 DEF Authority!Issue, absSession
<1> QED BY <1>1, <1>9 DEF Authority!ANext

\* When time passes, the sessions that thereby expire die together.
LEMMA TimeExpires ==
    ASSUME SessionInv, Tick
    PROVE  Authority!ANext
<1> DEFINE S == {t \in ids : Expired(t)'}
<1>1. TypeOK /\ now' = now + 1 /\ UNCHANGED <<ids, row, pc, call, uid, doomed>>
  BY DEF SessionInv, Tick, table, locals
<1>2. S \subseteq Tokens /\ \A t \in S : t \in ids /\ absSession[t] # None
  BY <1>1, AbstractTypes DEF TypeOK
<1>3. \A t \in ids : /\ row[t] \in Row
                     /\ t \in S => Dead(t)'
                     /\ t \notin S => (Dead(t)' <=> Dead(t))
  BY <1>1 DEF TypeOK, Dead, Expired, Row, Time
<1>4. ASSUME NEW t \in S
      PROVE  absSession'[t] = [owner |-> absSession[t].owner, hash |-> absSession[t].hash,
                               live |-> FALSE]
  <2>1. t \in Tokens /\ t \in ids /\ Dead(t)'
    BY <1>2, <1>3
  <2>2. absSession[t] = [owner |-> row[t].owner, hash |-> row[t].hash, live |-> ~Dead(t)]
    BY <2>1 DEF absSession
  <2>3. absSession'[t] = [owner |-> row[t].owner, hash |-> row[t].hash, live |-> FALSE]
    BY <1>1, <2>1 DEF absSession
  <2> HIDE DEF S
  <2> QED BY <2>2, <2>3
<1>5. \A t \in Tokens \ S : absSession'[t] = absSession[t]
  BY <1>1, <1>3 DEF absSession
<1>6. absVisit' = absVisit /\ absIdentity' = absIdentity
  BY <1>1 DEF absVisit, absIdentity, IsAdmitted
<1>7. Authority!Expire(S)
  BY <1>2, <1>4, <1>5, <1>6 DEF Authority!Expire, absSession
<1> QED BY <1>2, <1>7 DEF Authority!ANext

-----------------------------------------------------------------------------
(* What the steps of one handler do to the authority *)

\* A handler that leaves the authentication or its body closes its visit.
LEMMA DepartureCloses ==
    ASSUME NEW r \in Requests, pc'[r] \notin Visiting, absSession' = absSession,
           \A q \in Requests \ {r} : LocalsUnchanged(q)
    PROVE  Authority!ANext
<1>1. Authority!Close({r})
  BY Leaving DEF Authority!Close
<1> QED BY <1>1 DEF Authority!ANext

\* One that returns departs.
LEMMA ReturnDeparts ==
    ASSUME SessionInv, NEW r \in Requests, NEW how \in {"ok", "error"},
           Return(r, how), UNCHANGED <<call, info, decided, uid, doomed>>
    PROVE  pc'[r] \notin Visiting /\ \A q \in Requests \ {r} : LocalsUnchanged(q)
BY DEF Return, Goto, SessionInv, TypeOK, LocalsUnchanged, Visiting, Admitted

\* So does one that authentication turns away.
LEMMA UnauthenticatedDeparts ==
    ASSUME SessionInv, NEW r \in Requests,
           Unauthenticated(r), UNCHANGED <<call, info, decided, uid, doomed>>
    PROVE  pc'[r] \notin Visiting /\ \A q \in Requests \ {r} : LocalsUnchanged(q)
<1>1. CASE call[r].op = "signIn"
  BY <1>1 DEF Unauthenticated, Goto, SessionInv, TypeOK, LocalsUnchanged, Visiting, Admitted
<1>2. CASE call[r].op # "signIn"
  BY <1>2, ReturnDeparts DEF Unauthenticated
<1> QED BY <1>1, <1>2

\* A request with a session opens a visit, any other goes unnoticed.
LEMMA BeginOpens ==
    ASSUME SessionInv, NEW r \in Requests, NEW c \in Call, Begin(r, c)
    PROVE  Authority!ANext
<1>1. TypeOK /\ UNCHANGED <<now, table>> /\ \A q \in Requests \ {r} : LocalsUnchanged(q)
  BY DEF SessionInv, Begin, Goto, TypeOK, LocalsUnchanged
<1>2. absSession' = absSession
  BY <1>1, SessionsRest
<1>3. CASE c.tok = None
  <2>1. pc'[r] = "create"
    BY <1>1, <1>3 DEF Begin, Goto, TypeOK
  <2>2. pc'[r] \notin Visiting
    BY <2>1 DEF Visiting, Admitted
  <2> QED BY <1>1, <1>2, <2>2, DepartureCloses
<1>4. CASE c.tok # None
  <2>1. c.tok \in Tokens /\ c.hash \in Hashes
    BY <1>4, CallFields
  <2>2. /\ pc[r] = "idle" /\ pc'[r] = "info" /\ call'[r] = c
        /\ doomed'[r] <=> Dead(c.tok)
    BY <1>1, <1>4 DEF Begin, Goto, TypeOK
  <2>3. absVisit[r] = None /\ absIdentity[r] = None
    BY <2>2 DEF absVisit, absIdentity, Visiting, IsAdmitted, Admitted
  <2>4. ~doomed'[r] <=> absSession[c.tok] = None \/ absSession[c.tok].live
    <3>1. CASE c.tok \in ids
      BY <2>1, <2>2, <3>1, AbstractTypes DEF absSession
    <3>2. CASE c.tok \notin ids
      BY <2>1, <2>2, <3>2 DEF absSession, Dead
    <3> QED BY <3>1, <3>2
  <2>5. absVisit'[r] = [tok |-> c.tok, hash |-> c.hash,
                        inTime |-> absSession[c.tok] = None \/ absSession[c.tok].live]
    BY <2>2, <2>4 DEF absVisit, Visiting
  <2>6. \A q \in Requests \ {r} : absVisit'[q] = absVisit[q]
    BY <1>1 DEF absVisit, LocalsUnchanged
  <2>7. absIdentity' = absIdentity
    BY <1>1, <2>2 DEF absIdentity, LocalsUnchanged, IsAdmitted, Admitted
  <2> DEFINE v == [tok |-> c.tok, hash |-> c.hash,
                   inTime |-> absSession[c.tok] = None \/ absSession[c.tok].live]
  <2>8. absVisit' = [absVisit EXCEPT ![r] = v]
    <3> HIDE DEF v
    <3>1. absVisit'[r] = v
      BY <2>5 DEF v
    <3> QED BY <2>6, <3>1, ZenonT(40) DEF absVisit
  <2>9. Authority!Open(r, c.tok, c.hash)
    BY <1>2, <2>3, <2>7, <2>8 DEF Authority!Open
  <2> QED BY <2>1, <2>9 DEF Authority!ANext
<1> QED BY <1>3, <1>4

\* The end of the authentication admits the visitor.
LEMMA OwnerAdmits ==
    ASSUME SessionInv, NEW r \in Requests, ReadOwner(r)
    PROVE  Authority!ANext
<1>1. TypeOK /\ RequestInv(r) /\ pc[r] = "owner" /\ UNCHANGED <<now, table, call, doomed>>
      /\ \A q \in Requests \ {r} : LocalsUnchanged(q)
  BY DEF SessionInv, ReadOwner, Goto, TypeOK, LocalsUnchanged
<1>2. absSession' = absSession
  BY <1>1, SessionsRest
<1>3. CASE call[r].op = "signIn"
  <2>1. pc'[r] \notin Visiting
    BY <1>1, <1>3 DEF ReadOwner, Goto, TypeOK, Visiting, Admitted
  <2> QED BY <1>1, <1>2, <2>1, DepartureCloses
<1>4. CASE call[r].op # "signIn"
  <2> DEFINE t == call[r].tok
  <2>1. t \in ids /\ t \in Tokens /\ ~doomed[r] /\ row[t].hash = call[r].hash
    BY <1>1 DEF RequestInv, SnapshotInv, DoomInv, Visiting, TypeOK
  <2>2. /\ pc'[r] \in {"findTarget", "serve"} /\ uid'[r] = row[t].owner
    BY <1>1, <1>4 DEF ReadOwner, Goto, TypeOK
  <2>3. absVisit' = absVisit
    BY <1>1, <2>2 DEF absVisit, LocalsUnchanged, Visiting, Admitted
  <2>4. absVisit[r] = [tok |-> t, hash |-> call[r].hash, inTime |-> TRUE] /\ absVisit[r] # None
    <3>1. absVisit[r] = [tok |-> t, hash |-> call[r].hash, inTime |-> ~doomed[r]]
      BY <1>1, AbstractTypes DEF Visiting
    <3>2. (~doomed[r]) = TRUE
      BY <2>1
    <3> QED BY <1>1, <3>1, <3>2, AbstractTypes DEF Visiting
  <2>5. absSession[t].hash = row[t].hash /\ absSession[t].owner = row[t].owner
        /\ absSession[t] # None
    BY <2>1, AbstractTypes DEF absSession
  <2>6. absIdentity' = [absIdentity EXCEPT ![r] = row[t].owner]
    BY <1>1, <2>2 DEF absIdentity, LocalsUnchanged, IsAdmitted, Admitted
  <2>7. absVisit[r].tok = t /\ absVisit[r].hash = call[r].hash /\ absVisit[r].inTime
    BY <2>4
  <2>8. absSession[absVisit[r].tok] # None /\ absSession[absVisit[r].tok].hash = absVisit[r].hash
        /\ absIdentity' = [absIdentity EXCEPT ![r] = absSession[absVisit[r].tok].owner]
    BY <2>1, <2>5, <2>6, <2>7
  <2>9. Authority!Admit(r)
    BY <1>2, <2>3, <2>4, <2>7, <2>8 DEF Authority!Admit
  <2> QED BY <2>1, <2>9 DEF Authority!ANext
<1> QED BY <1>3, <1>4

\* A revocation is made by an admitted visitor with the owner of its target,
\* and ends the visit.
LEMMA OwnerRevokes ==
    ASSUME SessionInv, NEW r \in Requests, pc[r] = "revoke", pc'[r] \notin Visiting,
           row' = RevokedRow(call[r].target), UNCHANGED <<now, ids>>,
           \A q \in Requests \ {r} : LocalsUnchanged(q)
    PROVE  Authority!ANext
<1> DEFINE t == call[r].target
<1>1. RequestInv(r) /\ t \in ids /\ t \in Tokens
  BY RevokeTarget DEF SessionInv, TypeOK
<1>2. absSession' = [absSession EXCEPT ![t].live = FALSE]
  BY <1>1, RevokedDies
<1>3. absIdentity[r] = uid[r] /\ absIdentity[r] # None
  BY AbstractTypes DEF absIdentity, IsAdmitted, Admitted
<1>4. absSession[t] # None /\ absSession[t].owner = row[t].owner
  BY <1>1, AbstractTypes DEF absSession
<1>5. row[t].owner = uid[r]
  BY <1>1 DEF RequestInv, RightsInv, OwnsTarget
<1>6. Authority!Revoke(r, t)
  BY <1>2, <1>3, <1>4, <1>5, Leaving DEF Authority!Revoke
<1> QED BY <1>1, <1>6 DEF Authority!ANext

-----------------------------------------------------------------------------
(* Every step of the server is a step of the authority, or none *)

\* A handler at work.
LEMMA HandleSimulated ==
    ASSUME SessionInv, NEW r \in Requests, Handle(r)
    PROVE  [Authority!ANext]_Authority!avars
<1>1. TypeOK /\ RequestInv(r)
  BY DEF SessionInv
<1>2. ASSUME UNCHANGED <<now, table>>, pc'[r] \notin Visiting,
             \A q \in Requests \ {r} : LocalsUnchanged(q)
      PROVE  Authority!ANext
  BY <1>2, SessionsRest, DepartureCloses
<1>3. ASSUME absSession' = absSession, pc[r] \in Visiting, pc'[r] \in Visiting,
             IsAdmitted(r)' <=> IsAdmitted(r), UNCHANGED <<call, doomed, uid>>,
             \A q \in Requests \ {r} : LocalsUnchanged(q)
      PROVE  UNCHANGED Authority!avars
  BY <1>3, Lingering DEF Authority!avars
<1>4. CASE ReadInfo(r)
  <2>1. CASE call[r].tok \in ids
    <3>1. pc[r] = "info" /\ pc'[r] = "decide" /\ \A q \in Requests \ {r} : LocalsUnchanged(q)
      BY <1>1, <1>4, <2>1 DEF ReadInfo, Goto, LocalsUnchanged, TypeOK
    <3>2. UNCHANGED <<now, table, call, doomed, uid>>
      BY <1>4 DEF ReadInfo
    <3> QED BY <1>3, <3>1, <3>2, SessionsRest DEF Visiting, IsAdmitted, Admitted
  <2>2. CASE call[r].tok \notin ids
    BY <1>2, <1>4, <2>2, UnauthenticatedDeparts DEF ReadInfo
  <2> QED BY <2>1, <2>2
<1>5. CASE Decide(r)
  <2>1. CASE Valid(r)
    <3>1. pc[r] = "decide" /\ pc'[r] = "touch" /\ \A q \in Requests \ {r} : LocalsUnchanged(q)
      BY <1>1, <1>5, <2>1 DEF Decide, Goto, LocalsUnchanged, TypeOK
    <3>2. UNCHANGED <<now, table, call, doomed, uid>>
      BY <1>5 DEF Decide
    <3> QED BY <1>3, <3>1, <3>2, SessionsRest DEF Visiting, IsAdmitted, Admitted
  <2>2. CASE ~Valid(r)
    BY <1>2, <1>5, <2>2, UnauthenticatedDeparts DEF Decide
  <2> QED BY <2>1, <2>2
<1>6. CASE Touch(r)
  <2>1. PICK at \in decided[r]..now : row' = TouchedRow(r, at)
    BY <1>6 DEF Touch
  <2>2. at \in Time /\ call[r].tok \in ids
    BY <1>1, <1>6 DEF Touch, TypeOK, Time, RequestInv, SnapshotInv, Visiting
  <2>3. pc[r] = "touch" /\ pc'[r] = "owner" /\ UNCHANGED <<now, ids, call, doomed, uid>>
        /\ \A q \in Requests \ {r} : LocalsUnchanged(q)
    BY <1>1, <1>6 DEF Touch, Goto, LocalsUnchanged, TypeOK, locals
  <2>4. absSession' = absSession
    BY <1>1, <2>1, <2>2, <2>3, TouchIsInvisible
  <2> QED BY <1>3, <2>3, <2>4 DEF Visiting, IsAdmitted, Admitted
<1>7. CASE FindTarget(r)
  <2>1. CASE OwnsTarget(r)
    <3>1. pc[r] = "findTarget" /\ pc'[r] = "revoke"
          /\ \A q \in Requests \ {r} : LocalsUnchanged(q)
      BY <1>1, <1>7, <2>1 DEF FindTarget, Goto, LocalsUnchanged, TypeOK
    <3>2. UNCHANGED <<now, table, call, doomed, uid>>
      BY <1>7 DEF FindTarget
    <3> QED BY <1>3, <3>1, <3>2, SessionsRest DEF Visiting, IsAdmitted, Admitted
  <2>2. CASE ~OwnsTarget(r)
    BY <1>2, <1>7, <2>2, ReturnDeparts DEF FindTarget
  <2> QED BY <2>1, <2>2
<1>8. CASE Revoke(r)
  <2>1. pc'[r] \notin Visiting /\ \A q \in Requests \ {r} : LocalsUnchanged(q)
    BY <1>8, ReturnDeparts DEF Revoke
  <2> QED BY <1>8, <2>1, OwnerRevokes DEF Revoke
<1>9. CASE Create(r)
  <2>1. PICK t \in Tokens : Insert(r, t)
    BY <1>9 DEF Create
  <2>2. pc[r] = "create" /\ pc'[r] = "load" /\ UNCHANGED <<now, call, doomed, uid>>
        /\ \A q \in Requests \ {r} : LocalsUnchanged(q)
    BY <1>1, <1>9 DEF Create, Goto, LocalsUnchanged, TypeOK, locals
  <2> QED BY <2>1, <2>2, InsertIssues DEF Visiting, Admitted
<1>10. CASE Serve(r) \/ Refuse(r) \/ Load(r)
  BY <1>2, <1>10, ReturnDeparts DEF Serve, Refuse, Load
<1>11. CASE End(r)
  <2>1. pc'[r] = "idle" /\ \A q \in Requests \ {r} : LocalsUnchanged(q)
    BY <1>1, <1>11 DEF End, Goto, LocalsUnchanged, TypeOK
  <2> QED BY <1>2, <1>11, <2>1 DEF End, Visiting, Admitted
<1> QED BY <1>4, <1>5, <1>6, <1>7, <1>8, <1>9, <1>10, <1>11, OwnerAdmits DEF Handle

\* A failing statement: the handler departs, and the database may have done
\* what it was asked for.
LEMMA FailureSimulated ==
    ASSUME SessionInv, NEW r \in Requests, ReadFails(r) \/ WriteFails(r)
    PROVE  Authority!ANext
<1>1. TypeOK /\ RequestInv(r)
  BY DEF SessionInv
<1>2. CASE ReadFails(r)
  <2>1. pc'[r] \notin Visiting /\ (\A q \in Requests \ {r} : LocalsUnchanged(q))
        /\ UNCHANGED <<now, table>>
    BY <1>2, UnauthenticatedDeparts, ReturnDeparts DEF ReadFails
  <2> QED BY <2>1, SessionsRest, DepartureCloses
<1>3. CASE WriteFails(r)
  <2>1. /\ pc'[r] \notin Visiting /\ \A q \in Requests \ {r} : LocalsUnchanged(q)
        /\ UNCHANGED <<now, call, uid, doomed>>
    BY <1>3, ReturnDeparts DEF WriteFails
  <2>2. CASE UNCHANGED table
    BY <2>1, <2>2, SessionsRest, DepartureCloses
  <2>3. CASE pc[r] = "touch" /\ UNCHANGED ids
             /\ \E at \in decided[r]..now : row' = TouchedRow(r, at)
    <3>1. PICK at \in decided[r]..now : row' = TouchedRow(r, at)
      BY <2>3
    <3>2. at \in Time /\ call[r].tok \in ids
      BY <1>1, <2>3 DEF TypeOK, Time, RequestInv, SnapshotInv, Visiting
    <3> QED BY <1>1, <2>1, <2>3, <3>1, <3>2, TouchIsInvisible, DepartureCloses
  <2>4. CASE pc[r] = "revoke" /\ row' = RevokedRow(call[r].target) /\ UNCHANGED ids
    BY <2>1, <2>4, OwnerRevokes
  <2>5. CASE pc[r] = "create" /\ \E t \in Tokens : Insert(r, t)
    BY <2>1, <2>5, InsertIssues
  <2> QED BY <1>3, <2>2, <2>3, <2>4, <2>5 DEF WriteFails
<1> QED BY <1>2, <1>3

\* A crash closes every visit.
LEMMA CrashSimulated ==
    ASSUME SessionInv, Crash
    PROVE  Authority!ANext
<1>1. absSession' = absSession
  BY SessionsRest DEF Crash
<1>2. Authority!Close(Requests)
  BY <1>1 DEF Crash, Authority!Close, Authority!Leave, absVisit, absIdentity, Visiting,
              IsAdmitted, Admitted
<1> QED BY <1>2 DEF Authority!ANext

\* The worker revokes sessions that are dead already.
LEMMA WorkerSimulated ==
    ASSUME SessionInv, Worker \/ \E t \in Tokens : WorkerRevokeFails(t)
    PROVE  UNCHANGED Authority!avars
<1>1. UNCHANGED <<now, ids, pc, locals>> /\ (row' = row \/ \E t \in batch : row' = RevokedRow(t))
  BY DEF Worker, WorkerTick, WorkerRevoke, WorkerRevokeFails, table
<1>2. absSession' = absSession
  <2>1. CASE row' = row
    BY <1>1, <2>1, SessionsRest DEF table
  <2>2. CASE \E t \in batch : row' = RevokedRow(t)
    BY <1>1, <2>2, ExpiredWasDead DEF SessionInv
  <2> QED BY <1>1, <2>1, <2>2
<1>3. absVisit' = absVisit /\ absIdentity' = absIdentity
  BY <1>1 DEF locals, absVisit, absIdentity, IsAdmitted
<1> QED BY <1>2, <1>3 DEF Authority!avars

\* All of them.
LEMMA StepSimulated == SessionInv /\ [Next]_vars => [Authority!ANext]_Authority!avars
<1> SUFFICES ASSUME SessionInv, [Next]_vars PROVE [Authority!ANext]_Authority!avars
  OBVIOUS
<1>1. CASE UNCHANGED vars
  BY <1>1, SessionsRest DEF vars, locals, Authority!avars, absVisit, absIdentity, IsAdmitted
<1>2. CASE Next
  BY <1>2, BeginOpens, HandleSimulated, FailureSimulated, CrashSimulated, WorkerSimulated,
     TimeExpires DEF Next
<1> QED BY <1>1, <1>2

\* The four statements of Authentificator.User, the two of Service.Revoke and
\* the sweeps of the worker, however they interleave and fail, look to callers
\* like an authority that admits, revokes and expires sessions atomically.
THEOREM AuthorityIsImplemented == Spec => ImplementsAuthority
<1>1. Init => Authority!AInit
  BY DEF Init, Authority!AInit, absSession, absVisit, absIdentity, Visiting, IsAdmitted, Admitted
<1> QED BY <1>1, StepSimulated, SessionInvariant, PTL
        DEF Spec, ImplementsAuthority, Authority!ASpec

=============================================================================
