--------------------------- MODULE SessionsProofs ---------------------------
(***************************************************************************)
(* Proofs about Sessions, for every number of users, clients, tokens and   *)
(* concurrent requests and every bound.                                    *)
(***************************************************************************)
EXTENDS Sessions, TLAPS

(***************************************************************************)
(* The inductive invariant.  AdmissionSound alone is not inductive: what a *)
(* handler read earlier has to be tied to the row as it is now.            *)
(***************************************************************************)

\* The steps of the different RPCs do not mix.
CallInv(r) ==
    /\ pc[r] # "idle" => call[r] \in Call
    /\ pc[r] \in Visiting => call[r].tok \in Tokens
    /\ pc[r] \in {"findTarget", "revoke"} => call[r].op = "revoke"
    /\ pc[r] = "serve" => call[r].op = "serve"
    /\ pc[r] \in {"create", "load"} => call[r].op = "signIn"
    /\ reply[r] # "none" => pc[r] = "done"

\* The columns IsValid read never change, but for revoked, which only rises.
SnapshotInv(r) ==
    /\ pc[r] \in Visiting \ {"info"} => call[r].tok \in ids
    /\ pc[r] = "decide" => /\ info[r] \in Info
                           /\ info[r].hash = row[call[r].tok].hash
                           /\ info[r].expires = row[call[r].tok].expires
                           /\ doomed[r] => info[r].revoked \/ info[r].expires < now

\* A request that came too late finds the session dead and is turned away.
DoomInv(r) ==
    /\ pc[r] \in Visiting /\ doomed[r] => Dead(call[r].tok)
    /\ pc[r] \in {"touch", "owner"} \cup Admitted =>
          ~doomed[r] /\ row[call[r].tok].hash = call[r].hash
    /\ pc[r] = "touch" => decided[r] <= now

\* The rights a handler works with.
RightsInv(r) ==
    /\ pc[r] \in Admitted => uid[r] = row[call[r].tok].owner
    /\ pc[r] = "revoke" => OwnsTarget(r)
    /\ reply[r] = "ok" /\ call[r].op = "revoke" =>
          call[r].target \in ids /\ row[call[r].target].revoked

RequestInv(r) == CallInv(r) /\ SnapshotInv(r) /\ DoomInv(r) /\ RightsInv(r)

SessionInv ==
    /\ TypeOK
    /\ batch \subseteq GetExpired
    /\ \A r \in Requests : RequestInv(r)

-----------------------------------------------------------------------------
(* Facts about the data *)

\* What each kind of call carries.
LEMMA CallFields ==
    ASSUME NEW c \in Call
    PROVE  /\ c.op \in {"serve", "revoke", "signIn"}
           /\ c.hash \in Hashes
           /\ c.op # "signIn" => c.tok \in Tokens
           /\ c.op = "revoke" => c.target \in Tokens
           /\ c.op = "signIn" => c.tok \in Tokens \cup {None} /\ c.user \in Users
BY DEF Call

\* What a step may do to the table: sessions are added and revoked, never
\* removed, reassigned, prolonged or revived; and time does not run back.
TableGrows ==
    /\ ids \subseteq ids'
    /\ \A t \in ids : /\ row'[t].owner = row[t].owner
                      /\ row'[t].hash = row[t].hash
                      /\ row'[t].expires = row[t].expires
                      /\ row[t].revoked => row'[t].revoked
    /\ now <= now'

TableTypeOK ==
    /\ ids \subseteq Tokens
    /\ row \in [Tokens -> Row \cup {None}]
    /\ \A t \in ids : row[t] \in Row /\ (row[t].revoked <=> row[t].revokedAt # None)

\* Revoking a session keeps the table well-formed.
LEMMA RevokedRowSafe ==
    ASSUME TypeOK, NEW t \in ids, row' = RevokedRow(t), UNCHANGED <<now, ids>>
    PROVE  TableTypeOK' /\ TableGrows
<1>1. row[t] \in Row /\ now \in Time /\ t \in Tokens
  BY DEF TypeOK
<1>2. row' = [row EXCEPT ![t] = [row[t] EXCEPT !.revoked = TRUE, !.revokedAt = now]]
  BY <1>1 DEF RevokedRow, TypeOK
<1>3. now # None
  BY <1>1, NoneAssumption DEF Time
<1>4. [row[t] EXCEPT !.revoked = TRUE, !.revokedAt = now] \in Row
  BY <1>1 DEF Row
<1>5. TableTypeOK'
  BY <1>1, <1>2, <1>3, <1>4 DEF TableTypeOK, TypeOK, Row
<1>6. TableGrows
  BY <1>1, <1>2 DEF TableGrows, TypeOK, Row, Time
<1> QED BY <1>5, <1>6

\* So does an update of last_seen.
LEMMA TouchedRowSafe ==
    ASSUME TypeOK, NEW r \in Requests, call[r].tok \in ids, NEW at \in Time,
           row' = TouchedRow(r, at), UNCHANGED <<now, ids>>
    PROVE  TableTypeOK' /\ TableGrows
<1> DEFINE t == call[r].tok
<1>1. row[t] \in Row /\ now \in Time /\ t \in Tokens
  BY DEF TypeOK
<1>2. row' = [row EXCEPT ![t] = [row[t] EXCEPT !.lastSeen = at]]
  BY <1>1 DEF TouchedRow, TypeOK
<1>4. [row[t] EXCEPT !.lastSeen = at] \in Row
  BY <1>1 DEF Row
<1>5. TableTypeOK'
  BY <1>1, <1>2, <1>4 DEF TableTypeOK, TypeOK, Row
<1>6. TableGrows
  BY <1>1, <1>2 DEF TableGrows, TypeOK, Row, Time
<1> QED BY <1>5, <1>6

\* And the insertion of a session under a new token.
LEMMA InsertSafe ==
    ASSUME TypeOK, NEW r \in Requests, call[r] \in Call, call[r].op = "signIn",
           NEW t \in Tokens, Insert(r, t), UNCHANGED now
    PROVE  TableTypeOK' /\ TableGrows
<1>1. call[r].user \in Users /\ call[r].hash \in Hashes
  BY CallFields
<1>2. now \in Time /\ now + Lifetime \in Time
  BY BoundsAssumption DEF TypeOK, Time
<1>3. NewRow(call[r].user, call[r].hash) \in Row
  BY <1>1, <1>2 DEF NewRow, Row
<1>4. ~NewRow(call[r].user, call[r].hash).revoked
      /\ NewRow(call[r].user, call[r].hash).revokedAt = None
  BY DEF NewRow
<1>5. TableTypeOK'
  BY <1>3, <1>4 DEF Insert, TableTypeOK, TypeOK
<1>6. TableGrows
  BY <1>2 DEF Insert, TableGrows, TypeOK, Time
<1> QED BY <1>5, <1>6

\* A handler that does not move is not disturbed by what happens to the table.
LEMMA Undisturbed ==
    ASSUME SessionInv, TableTypeOK', TableGrows, now' \in Time,
           NEW r \in Requests,
           pc'[r] = pc[r], call'[r] = call[r], info'[r] = info[r],
           decided'[r] = decided[r], uid'[r] = uid[r], reply'[r] = reply[r],
           doomed'[r] = doomed[r]
    PROVE  RequestInv(r)'
<1>1. RequestInv(r) /\ TypeOK
  BY DEF SessionInv
<1>2. \A t \in ids : Dead(t) => Dead(t)'
  BY <1>1 DEF TableGrows, TableTypeOK, Dead, Expired, TypeOK, Row, Time
<1>3. CallInv(r)'
  BY <1>1 DEF RequestInv, CallInv
<1>4. SnapshotInv(r)'
  <2>1. pc[r] \in Visiting \ {"info"} => call[r].tok \in ids /\ call[r].tok \in ids'
    BY <1>1 DEF RequestInv, SnapshotInv, TableGrows
  <2>2. pc[r] = "decide" => pc[r] \in Visiting \ {"info"}
    BY DEF Visiting
  <2>3. pc[r] = "decide" /\ info[r].expires < now => info[r].expires < now'
    BY <1>1 DEF RequestInv, SnapshotInv, TableGrows, Info, TypeOK, Time
  <2> QED BY <1>1, <2>1, <2>2, <2>3 DEF RequestInv, SnapshotInv, TableGrows
<1>5. DoomInv(r)'
  <2>1. pc[r] \in Visiting /\ doomed[r] => Dead(call[r].tok)'
    BY <1>1, <1>2 DEF RequestInv, DoomInv, Dead
  <2>2. pc[r] \in {"touch", "owner"} \cup Admitted => call[r].tok \in ids
    BY <1>1 DEF RequestInv, SnapshotInv, Visiting, Admitted
  <2>3. decided[r] <= now => decided[r] <= now'
    BY <1>1 DEF TableGrows, TypeOK, Time
  <2> QED BY <1>1, <2>1, <2>2, <2>3 DEF RequestInv, DoomInv, TableGrows
<1>6. RightsInv(r)'
  <2>1. pc[r] \in Admitted => call[r].tok \in ids
    BY <1>1 DEF RequestInv, SnapshotInv, Visiting, Admitted
  <2> QED BY <1>1, <2>1 DEF RequestInv, RightsInv, OwnsTarget, TableGrows
<1> QED BY <1>3, <1>4, <1>5, <1>6 DEF RequestInv

\* The sessions the worker has in hand stay expired.
LEMMA BatchStaysExpired ==
    ASSUME SessionInv, TableTypeOK', TableGrows, now' \in Time, batch' \subseteq batch
    PROVE  batch' \subseteq GetExpired'
BY DEF SessionInv, GetExpired, Expired, TableGrows, TableTypeOK, TypeOK, Row, Time

LocalsUnchanged(r) ==
    /\ pc'[r] = pc[r] /\ call'[r] = call[r] /\ info'[r] = info[r]
    /\ decided'[r] = decided[r] /\ uid'[r] = uid[r] /\ reply'[r] = reply[r]
    /\ doomed'[r] = doomed[r]

\* When one handler moves, only its own part of the invariant is in question.
LEMMA OneMoves ==
    ASSUME SessionInv, TypeOK', TableGrows, batch' \subseteq batch,
           NEW r \in Requests, \A q \in Requests \ {r} : LocalsUnchanged(q),
           RequestInv(r)'
    PROVE  SessionInv'
<1>1. TableTypeOK' /\ now' \in Time
  BY DEF TableTypeOK, TypeOK
<1>2. \A q \in Requests \ {r} : RequestInv(q)'
  BY <1>1, Undisturbed DEF LocalsUnchanged
<1>3. batch' \subseteq GetExpired'
  BY <1>1, BatchStaysExpired
<1> QED BY <1>2, <1>3 DEF SessionInv

\* When none does, the table alone is in question.
LEMMA NoneMoves ==
    ASSUME SessionInv, TypeOK', TableGrows, batch' \subseteq GetExpired',
           UNCHANGED <<pc, locals>>
    PROVE  SessionInv'
<1>1. TableTypeOK' /\ now' \in Time
  BY DEF TableTypeOK, TypeOK
<1>2. \A q \in Requests : RequestInv(q)'
  BY <1>1, Undisturbed DEF locals
<1> QED BY <1>2 DEF SessionInv

\* An unchanged table is a special case of a growing one.
LEMMA TableStays ==
    ASSUME TypeOK, UNCHANGED <<now, table>>
    PROVE  TableGrows
BY DEF TableGrows, table, TypeOK, Time

-----------------------------------------------------------------------------
(* The invariant is established and preserved *)

\* It holds when the server starts.
LEMMA InitEstablishes == Init => SessionInv
<1> SUFFICES ASSUME Init PROVE SessionInv
  OBVIOUS
<1>1. TypeOK
  BY BoundsAssumption DEF Init, TypeOK, Steps, Time
<1>2. batch \subseteq GetExpired
  BY DEF Init
<1>3. \A r \in Requests : RequestInv(r)
  BY DEF Init, RequestInv, CallInv, SnapshotInv, DoomInv, RightsInv, Visiting, Admitted
<1> QED BY <1>1, <1>2, <1>3 DEF SessionInv

\* An RPC that arrives late is marked as doomed, and its session is dead.
LEMMA BeginPreserves ==
    ASSUME SessionInv, NEW r \in Requests, NEW c \in Call, Begin(r, c)
    PROVE  SessionInv'
<1>1. TypeOK /\ RequestInv(r)
  BY DEF SessionInv
<1>2. TypeOK'
  BY <1>1 DEF Begin, Goto, TypeOK, table, Steps
<1>3. TableGrows
  BY <1>1, TableStays DEF Begin
<1>4. /\ pc'[r] \in {"create", "info"}
      /\ pc'[r] = "info" => c.tok # None
      /\ pc'[r] = "create" => c.tok = None
      /\ call'[r] = c
      /\ doomed'[r] <=> c.tok # None /\ Dead(c.tok)
      /\ reply'[r] = reply[r]
      /\ UNCHANGED <<now, table>>
  BY <1>1 DEF Begin, Goto, TypeOK, Steps
<1>5. reply[r] = "none"
  BY <1>1 DEF RequestInv, CallInv, Begin, TypeOK
<1>6. c.tok = None => c.op = "signIn"
  BY CallFields, NoneAssumption
<1>7. RequestInv(r)'
  <2>1. CallInv(r)'
    BY <1>4, <1>5, <1>6, CallFields DEF CallInv, Visiting, Admitted
  <2>2. SnapshotInv(r)'
    BY <1>4 DEF SnapshotInv, Visiting, Admitted
  <2>3. DoomInv(r)'
    BY <1>4 DEF DoomInv, Visiting, Admitted, Dead, Expired, table
  <2>4. RightsInv(r)'
    BY <1>4, <1>5 DEF RightsInv, Admitted
  <2> QED BY <2>1, <2>2, <2>3, <2>4 DEF RequestInv
<1> QED BY <1>1, <1>2, <1>3, <1>7, OneMoves DEF Begin, Goto, LocalsUnchanged, TypeOK

\* A handler that returns keeps the invariant if what it reports is true.
LEMMA ReturnSafe ==
    ASSUME SessionInv, NEW r \in Requests, NEW how \in {"ok", "error"},
           pc[r] # "idle", Return(r, how), UNCHANGED call,
           how = "ok" /\ call[r].op = "revoke" =>
               call[r].target \in ids' /\ row'[call[r].target].revoked
    PROVE  /\ RequestInv(r)'
           /\ pc' \in [Requests -> Steps] /\ reply' \in [Requests -> {"none", "ok", "error"}]
           /\ \A q \in Requests \ {r} : pc'[q] = pc[q] /\ reply'[q] = reply[q]
<1>1. TypeOK /\ RequestInv(r)
  BY DEF SessionInv
<1>2. pc'[r] = "done" /\ reply'[r] = how
  BY <1>1 DEF Return, Goto, TypeOK
<1>3. CallInv(r)'
  BY <1>1, <1>2 DEF RequestInv, CallInv, Visiting, Admitted
<1>4. SnapshotInv(r)' /\ DoomInv(r)' /\ RightsInv(r)'
  BY <1>1, <1>2 DEF SnapshotInv, DoomInv, RightsInv, Visiting, Admitted
<1> QED BY <1>1, <1>3, <1>4 DEF RequestInv, Return, Goto, TypeOK, Steps

\* So does one that turns a request away while it authenticates.
LEMMA UnauthenticatedSafe ==
    ASSUME SessionInv, NEW r \in Requests, pc[r] \in {"info", "decide", "owner"},
           Unauthenticated(r), UNCHANGED call
    PROVE  /\ RequestInv(r)'
           /\ pc' \in [Requests -> Steps] /\ reply' \in [Requests -> {"none", "ok", "error"}]
           /\ \A q \in Requests \ {r} : pc'[q] = pc[q] /\ reply'[q] = reply[q]
<1>1. TypeOK /\ RequestInv(r)
  BY DEF SessionInv
<1>2. CASE call[r].op = "signIn"
  <2>1. pc'[r] = "create" /\ reply'[r] = "none" /\ call'[r] \in Call /\ call'[r].op = "signIn"
    BY <1>1, <1>2 DEF Unauthenticated, Goto, TypeOK, RequestInv, CallInv
  <2>2. RequestInv(r)'
    BY <2>1 DEF RequestInv, CallInv, SnapshotInv, DoomInv, RightsInv, Visiting, Admitted
  <2> QED BY <1>1, <1>2, <2>2 DEF Unauthenticated, Goto, TypeOK, Steps
<1>3. CASE call[r].op # "signIn"
  BY <1>3, ReturnSafe DEF Unauthenticated
<1> QED BY <1>2, <1>3

\* What IsValid reads agrees with the row.
LEMMA ReadInfoPreserves ==
    ASSUME SessionInv, NEW r \in Requests, ReadInfo(r)
    PROVE  SessionInv'
<1> DEFINE t == call[r].tok
<1>1. TypeOK /\ RequestInv(r) /\ TableGrows /\ UNCHANGED <<now, ids, row, call>>
  BY TableStays DEF SessionInv, ReadInfo, table
<1>2. CASE t \in ids
  <2>1. /\ pc'[r] = "decide" /\ reply'[r] = "none"
        /\ info'[r] = [hash |-> row[t].hash, revoked |-> row[t].revoked,
                       expires |-> row[t].expires]
    BY <1>1, <1>2 DEF ReadInfo, Goto, TypeOK, RequestInv, CallInv
  <2>2. info'[r] \in Info
    BY <1>1, <1>2, <2>1 DEF TypeOK, Row, Info
  <2>3. TypeOK'
    BY <1>1, <1>2, <2>2 DEF ReadInfo, Goto, TypeOK, Steps, table
  <2>4. doomed[r] => row[t].revoked \/ row[t].expires < now
    BY <1>1 DEF RequestInv, DoomInv, Dead, Expired, Visiting, ReadInfo
  <2>5. RequestInv(r)'
    <3>1. call'[r] \in Call /\ call'[r].tok \in Tokens
      BY <1>1 DEF RequestInv, CallInv, Visiting, ReadInfo
    <3>2. doomed'[r] => Dead(t)'
      BY <1>1 DEF RequestInv, DoomInv, Dead, Expired, Visiting, ReadInfo
    <3>3. doomed'[r] = doomed[r]
      BY DEF ReadInfo
    <3>4. CallInv(r)'
      BY <2>1, <3>1 DEF CallInv, Visiting, Admitted
    <3>5. SnapshotInv(r)'
      BY <1>1, <1>2, <2>1, <2>2, <2>4, <3>3 DEF SnapshotInv
    <3>6. DoomInv(r)'
      BY <1>1, <2>1, <3>2 DEF DoomInv, Admitted
    <3>7. RightsInv(r)'
      BY <2>1 DEF RightsInv, Admitted
    <3> QED BY <3>4, <3>5, <3>6, <3>7 DEF RequestInv
  <2> QED BY <1>1, <1>2, <2>3, <2>5, OneMoves DEF ReadInfo, Goto, LocalsUnchanged, TypeOK
<1>3. CASE t \notin ids
  <2>1. Unauthenticated(r) /\ info' = info /\ pc[r] = "info"
    BY <1>3 DEF ReadInfo
  <2>2. /\ RequestInv(r)'
        /\ pc' \in [Requests -> Steps] /\ reply' \in [Requests -> {"none", "ok", "error"}]
        /\ \A q \in Requests \ {r} : pc'[q] = pc[q] /\ reply'[q] = reply[q]
    BY <1>1, <2>1, UnauthenticatedSafe
  <2>3. TypeOK'
    BY <1>1, <2>1, <2>2 DEF ReadInfo, TypeOK
  <2> QED BY <1>1, <2>1, <2>2, <2>3, OneMoves DEF ReadInfo, LocalsUnchanged
<1> QED BY <1>2, <1>3

\* IsValid turns a doomed request away: what made it doomed was there to be read.
LEMMA DecidePreserves ==
    ASSUME SessionInv, NEW r \in Requests, Decide(r)
    PROVE  SessionInv'
<1> DEFINE t == call[r].tok
<1>1. TypeOK /\ RequestInv(r) /\ TableGrows /\ UNCHANGED <<now, ids, row, call>>
  BY TableStays DEF SessionInv, Decide, table
<1>2. CASE Valid(r)
  <2>1. /\ pc[r] = "decide" /\ pc'[r] = "touch" /\ reply'[r] = "none" /\ decided'[r] = now
    BY <1>1, <1>2 DEF Decide, Goto, TypeOK, RequestInv, CallInv
  <2>2. TypeOK'
    BY <1>1, <1>2 DEF Decide, Goto, TypeOK, Steps
  <2>3. ~doomed[r] /\ row[t].hash = call[r].hash /\ t \in ids /\ doomed'[r] = doomed[r]
    BY <1>1, <1>2, <2>1 DEF RequestInv, SnapshotInv, Valid, Visiting, Decide
  <2>4. CallInv(r)'
    BY <1>1, <2>1 DEF RequestInv, CallInv, Visiting, Admitted
  <2>5. SnapshotInv(r)' /\ RightsInv(r)'
    BY <1>1, <2>1, <2>3 DEF SnapshotInv, RightsInv, Admitted
  <2>6. DoomInv(r)'
    BY <1>1, <2>1, <2>3 DEF DoomInv, TypeOK, Time
  <2>7. RequestInv(r)'
    BY <2>4, <2>5, <2>6 DEF RequestInv
  <2> QED BY <1>1, <1>2, <2>2, <2>7, OneMoves DEF Decide, Goto, LocalsUnchanged, TypeOK
<1>3. CASE ~Valid(r)
  <2>1. Unauthenticated(r) /\ decided' = decided /\ pc[r] = "decide"
    BY <1>3 DEF Decide
  <2>2. /\ RequestInv(r)'
        /\ pc' \in [Requests -> Steps] /\ reply' \in [Requests -> {"none", "ok", "error"}]
        /\ \A q \in Requests \ {r} : pc'[q] = pc[q] /\ reply'[q] = reply[q]
    BY <1>1, <2>1, UnauthenticatedSafe
  <2>3. TypeOK'
    BY <1>1, <2>1, <2>2 DEF Decide, TypeOK
  <2> QED BY <1>1, <2>1, <2>2, <2>3, OneMoves DEF Decide, LocalsUnchanged
<1> QED BY <1>2, <1>3

\* SetLastSeen writes one column and leaves the others to their writers.
LEMMA TouchPreserves ==
    ASSUME SessionInv, NEW r \in Requests, Touch(r)
    PROVE  SessionInv'
<1>1. TypeOK /\ RequestInv(r) /\ pc[r] = "touch" /\ UNCHANGED <<now, ids, call>>
  BY DEF SessionInv, Touch, locals
<1>2. call[r].tok \in ids
  BY <1>1 DEF RequestInv, SnapshotInv, Visiting
<1>3. PICK at \in decided[r]..now : row' = TouchedRow(r, at)
  BY DEF Touch
<1>4. at \in Time
  BY <1>1 DEF TypeOK, Time
<1>5. TableTypeOK' /\ TableGrows
  BY <1>1, <1>2, <1>3, <1>4, TouchedRowSafe
<1>6. pc'[r] = "owner" /\ pc' \in [Requests -> Steps]
  BY <1>1 DEF Touch, Goto, TypeOK, Steps
<1>7. TypeOK'
  BY <1>1, <1>5, <1>6 DEF Touch, TypeOK, TableTypeOK, locals
<1>8. RequestInv(r)'
  <2>1. CallInv(r)'
    BY <1>1, <1>6 DEF RequestInv, CallInv, Visiting, Admitted, Touch, locals
  <2>2. SnapshotInv(r)'
    BY <1>1, <1>2, <1>5, <1>6 DEF SnapshotInv, TableGrows
  <2>3. ~doomed'[r] /\ row'[call[r].tok].hash = call[r].hash
    BY <1>1, <1>2, <1>5 DEF RequestInv, DoomInv, TableGrows, Touch, locals
  <2>4. DoomInv(r)' /\ RightsInv(r)'
    BY <1>1, <1>6, <2>1, <2>3 DEF DoomInv, RightsInv, CallInv, Admitted
  <2> QED BY <2>1, <2>2, <2>4 DEF RequestInv
<1>9. \A q \in Requests \ {r} : LocalsUnchanged(q)
  BY <1>1 DEF Touch, Goto, locals, LocalsUnchanged, TypeOK
<1> QED BY <1>5, <1>7, <1>8, <1>9, OneMoves DEF Touch

\* The identity is the owner of the session, which never changes.
LEMMA ReadOwnerPreserves ==
    ASSUME SessionInv, NEW r \in Requests, ReadOwner(r)
    PROVE  SessionInv'
<1> DEFINE t == call[r].tok
<1>1. /\ TypeOK /\ RequestInv(r) /\ TableGrows /\ pc[r] = "owner"
      /\ UNCHANGED <<now, ids, row, call, reply, doomed>>
  BY TableStays DEF SessionInv, ReadOwner, table
<1>2. t \in ids /\ call[r] \in Call /\ row[t].owner \in Users /\ reply[r] = "none"
      /\ ~doomed[r] /\ row[t].hash = call[r].hash
  BY <1>1 DEF RequestInv, CallInv, SnapshotInv, DoomInv, Visiting, TypeOK, Row
<1>3. CASE call[r].op = "signIn"
  <2>1. pc'[r] = "create"
    BY <1>1, <1>3 DEF ReadOwner, Goto, TypeOK
  <2>2. TypeOK'
    BY <1>1, <1>3 DEF ReadOwner, Goto, TypeOK, Steps
  <2>3. RequestInv(r)'
    BY <1>1, <1>2, <1>3, <2>1
       DEF RequestInv, CallInv, SnapshotInv, DoomInv, RightsInv, Visiting, Admitted
  <2> QED BY <1>1, <1>3, <2>2, <2>3, OneMoves DEF ReadOwner, Goto, LocalsUnchanged, TypeOK
<1>4. CASE call[r].op # "signIn"
  <2>1. /\ pc'[r] = (IF call[r].op = "revoke" THEN "findTarget" ELSE "serve")
        /\ uid'[r] = row[t].owner
    BY <1>1, <1>4 DEF ReadOwner, Goto, TypeOK
  <2>2. TypeOK'
    BY <1>1, <1>2, <1>4 DEF ReadOwner, Goto, TypeOK, Steps, Admitted
  <2>3. pc'[r] \in {"findTarget", "serve"} /\ (pc'[r] = "findTarget" => call[r].op = "revoke")
        /\ (pc'[r] = "serve" => call[r].op = "serve")
    BY <1>2, <1>4, <2>1, CallFields
  <2>4. t \in Tokens
    BY <1>1, <1>2 DEF TypeOK
  <2>5. RequestInv(r)'
    BY <1>1, <1>2, <2>1, <2>3, <2>4
       DEF RequestInv, CallInv, SnapshotInv, DoomInv, RightsInv, Visiting, Admitted
  <2> QED BY <1>1, <1>4, <2>2, <2>5, OneMoves DEF ReadOwner, Goto, LocalsUnchanged, TypeOK
<1> QED BY <1>3, <1>4

\* Serve, Refuse and Load only return, and none of them answers a revocation.
LEMMA AnswerPreserves ==
    ASSUME SessionInv, NEW r \in Requests, Serve(r) \/ Refuse(r) \/ Load(r)
    PROVE  SessionInv'
<1>1. PICK how \in {"ok", "error"} : Return(r, how)
  BY DEF Serve, Refuse, Load
<1>2. /\ TypeOK /\ RequestInv(r) /\ TableGrows
      /\ UNCHANGED <<now, ids, row, call, info, decided, uid, batch, faults, doomed>>
  BY TableStays DEF SessionInv, Serve, Refuse, Load, table
<1>3. pc[r] # "idle"
  BY DEF Serve, Refuse, Load
<1>4. how = "ok" => call[r].op # "revoke"
  <2>1. CASE Serve(r)
    <3>1. pc[r] = "serve"
      BY <2>1 DEF Serve
    <3> QED BY <1>2, <3>1 DEF RequestInv, CallInv
  <2>2. CASE Refuse(r)
    BY <1>2, <2>2 DEF RequestInv, CallInv, Refuse
  <2>3. CASE Load(r)
    BY <1>2, <2>3 DEF RequestInv, CallInv, Load
  <2> QED BY <2>1, <2>2, <2>3
<1>5. /\ RequestInv(r)'
      /\ pc' \in [Requests -> Steps] /\ reply' \in [Requests -> {"none", "ok", "error"}]
      /\ \A q \in Requests \ {r} : pc'[q] = pc[q] /\ reply'[q] = reply[q]
  BY <1>1, <1>2, <1>3, <1>4, ReturnSafe
<1>6. TypeOK'
  BY <1>2, <1>5 DEF TypeOK
<1> QED BY <1>2, <1>5, <1>6, OneMoves DEF LocalsUnchanged

\* Ownership of the target is established before it is revoked.
LEMMA FindTargetPreserves ==
    ASSUME SessionInv, NEW r \in Requests, FindTarget(r)
    PROVE  SessionInv'
<1>1. /\ TypeOK /\ RequestInv(r) /\ TableGrows /\ pc[r] = "findTarget"
      /\ UNCHANGED <<now, ids, row, call, info, decided, uid, batch, faults, doomed>>
  BY TableStays DEF SessionInv, FindTarget, table
<1>2. CASE OwnsTarget(r)
  <2>1. pc'[r] = "revoke" /\ UNCHANGED reply
    BY <1>1, <1>2 DEF FindTarget, Goto, TypeOK
  <2>2. TypeOK'
    BY <1>1, <1>2 DEF FindTarget, Goto, TypeOK, Steps, Admitted
  <2>3. RequestInv(r)'
    <3>1. CallInv(r)' /\ SnapshotInv(r)'
      BY <1>1, <2>1 DEF RequestInv, CallInv, SnapshotInv, Visiting, Admitted
    <3>2. DoomInv(r)'
      BY <1>1, <2>1 DEF RequestInv, DoomInv, Visiting, Admitted
    <3>3. RightsInv(r)'
      BY <1>1, <1>2, <2>1 DEF RequestInv, CallInv, RightsInv, OwnsTarget, Admitted
    <3> QED BY <3>1, <3>2, <3>3 DEF RequestInv
  <2> QED BY <1>1, <1>2, <2>2, <2>3, OneMoves DEF FindTarget, Goto, LocalsUnchanged, TypeOK
<1>3. CASE ~OwnsTarget(r)
  <2>1. Return(r, "error")
    BY <1>3 DEF FindTarget
  <2>2. /\ RequestInv(r)'
        /\ pc' \in [Requests -> Steps] /\ reply' \in [Requests -> {"none", "ok", "error"}]
        /\ \A q \in Requests \ {r} : pc'[q] = pc[q] /\ reply'[q] = reply[q]
    BY <1>1, <2>1, ReturnSafe
  <2>3. TypeOK'
    BY <1>1, <2>2 DEF TypeOK
  <2> QED BY <1>1, <2>2, <2>3, OneMoves DEF LocalsUnchanged
<1> QED BY <1>2, <1>3

\* A handler that returns after the table has grown, whoever changed it.
LEMMA ReturnPreserves ==
    ASSUME SessionInv, TableTypeOK', TableGrows, NEW r \in Requests,
           NEW how \in {"ok", "error"}, pc[r] # "idle", Return(r, how),
           UNCHANGED <<now, call, info, decided, uid, batch, doomed>>,
           faults' \in 0..MaxFaults,
           how = "ok" /\ call[r].op = "revoke" =>
               call[r].target \in ids' /\ row'[call[r].target].revoked
    PROVE  SessionInv'
<1>1. TypeOK
  BY DEF SessionInv
<1>2. /\ RequestInv(r)'
      /\ pc' \in [Requests -> Steps] /\ reply' \in [Requests -> {"none", "ok", "error"}]
      /\ \A q \in Requests \ {r} : pc'[q] = pc[q] /\ reply'[q] = reply[q]
  BY ReturnSafe
<1>3. TypeOK'
  BY <1>1, <1>2 DEF TypeOK, TableTypeOK
<1> QED BY <1>2, <1>3, OneMoves DEF LocalsUnchanged

\* The target of a handler about to revoke is a row of the table.
LEMMA RevokeTarget ==
    ASSUME SessionInv, NEW r \in Requests, pc[r] = "revoke"
    PROVE  call[r].target \in ids /\ row[call[r].target] \in Row /\ call[r].target \in Tokens
BY DEF SessionInv, RequestInv, RightsInv, OwnsTarget, TypeOK

\* A revocation is in the table when it is reported.
LEMMA RevokePreserves ==
    ASSUME SessionInv, NEW r \in Requests, Revoke(r)
    PROVE  SessionInv'
<1> DEFINE t == call[r].target
<1>1. TypeOK /\ pc[r] = "revoke" /\ row' = RevokedRow(t) /\ Return(r, "ok")
      /\ UNCHANGED <<now, ids, call, info, decided, uid, batch, faults, doomed>>
  BY DEF SessionInv, Revoke
<1>2. t \in ids /\ row[t] \in Row /\ t \in Tokens
  BY <1>1, RevokeTarget
<1>3. TableTypeOK' /\ TableGrows
  BY <1>1, <1>2, RevokedRowSafe
<1>4. t \in ids' /\ row'[t].revoked
  BY <1>1, <1>2 DEF RevokedRow, TypeOK, Row
<1>5. faults' \in 0..MaxFaults
  BY <1>1 DEF TypeOK
<1> QED BY <1>1, <1>3, <1>4, <1>5, ReturnPreserves

\* A sign-in adds a session and disturbs no other.
LEMMA CreatePreserves ==
    ASSUME SessionInv, NEW r \in Requests, Create(r)
    PROVE  SessionInv'
<1>1. TypeOK /\ RequestInv(r) /\ pc[r] = "create"
      /\ UNCHANGED <<now, call, info, decided, uid, reply, doomed, batch, faults>>
  BY DEF SessionInv, Create, locals
<1>2. PICK t \in Tokens : Insert(r, t)
  BY DEF Create
<1>3. call[r] \in Call /\ call[r].op = "signIn"
  BY <1>1 DEF RequestInv, CallInv
<1>4. TableTypeOK' /\ TableGrows
  BY <1>1, <1>2, <1>3, InsertSafe
<1>5. pc'[r] = "load" /\ pc' \in [Requests -> Steps]
  BY <1>1 DEF Create, Goto, TypeOK, Steps
<1>6. TypeOK'
  BY <1>1, <1>4, <1>5 DEF TypeOK, TableTypeOK
<1>7. RequestInv(r)'
  BY <1>1, <1>3, <1>5
     DEF RequestInv, CallInv, SnapshotInv, DoomInv, RightsInv, Visiting, Admitted
<1>8. \A q \in Requests \ {r} : LocalsUnchanged(q)
  BY <1>1 DEF Create, Goto, LocalsUnchanged, TypeOK
<1> QED BY <1>1, <1>4, <1>6, <1>7, <1>8, OneMoves

\* A slot is cleared when its RPC is over.
LEMMA EndPreserves ==
    ASSUME SessionInv, NEW r \in Requests, End(r)
    PROVE  SessionInv'
<1>1. TypeOK /\ TableGrows
  BY TableStays DEF SessionInv, End
<1>2. TypeOK'
  BY <1>1 DEF End, Goto, TypeOK, Steps, table, Time
<1>3. pc'[r] = "idle" /\ reply'[r] = "none"
  BY <1>1 DEF End, Goto, TypeOK
<1>4. RequestInv(r)'
  BY <1>3 DEF RequestInv, CallInv, SnapshotInv, DoomInv, RightsInv, Visiting, Admitted
<1>5. \A q \in Requests \ {r} : LocalsUnchanged(q)
  BY <1>1 DEF End, Goto, LocalsUnchanged, TypeOK
<1> QED BY <1>1, <1>2, <1>4, <1>5, OneMoves DEF End

\* One more fault stays within the bound.
LEMMA FaultBounded ==
    ASSUME TypeOK, Fault
    PROVE  faults' \in 0..MaxFaults
BY BoundsAssumption DEF TypeOK, Fault

\* A failed read ends the RPC, or sends a sign-in on without identity.
LEMMA ReadFailsPreserves ==
    ASSUME SessionInv, NEW r \in Requests, ReadFails(r)
    PROVE  SessionInv'
<1>1. /\ TypeOK /\ TableGrows /\ faults' \in 0..MaxFaults /\ TableTypeOK'
      /\ UNCHANGED <<now, ids, row, call, info, decided, uid, batch, doomed>>
  BY TableStays, FaultBounded DEF SessionInv, ReadFails, table, TypeOK, TableTypeOK
<1>2. CASE pc[r] \in {"info", "owner"}
  <2>1. Unauthenticated(r)
    BY <1>2 DEF ReadFails
  <2>2. /\ RequestInv(r)'
        /\ pc' \in [Requests -> Steps] /\ reply' \in [Requests -> {"none", "ok", "error"}]
        /\ \A q \in Requests \ {r} : pc'[q] = pc[q] /\ reply'[q] = reply[q]
    BY <1>1, <1>2, <2>1, UnauthenticatedSafe
  <2>3. TypeOK'
    BY <1>1, <2>2 DEF TypeOK
  <2> QED BY <1>1, <2>2, <2>3, OneMoves DEF LocalsUnchanged
<1>3. CASE pc[r] \notin {"info", "owner"}
  <2>1. Return(r, "error") /\ pc[r] # "idle"
    BY <1>3 DEF ReadFails
  <2> QED BY <1>1, <2>1, ReturnPreserves
<1> QED BY <1>2, <1>3

\* A failed write is reported as an error, so nothing is promised of it.
LEMMA WriteFailsPreserves ==
    ASSUME SessionInv, NEW r \in Requests, WriteFails(r)
    PROVE  SessionInv'
<1>1. /\ TypeOK /\ RequestInv(r) /\ faults' \in 0..MaxFaults /\ Return(r, "error")
      /\ UNCHANGED <<now, call, info, decided, uid, batch, doomed>>
  BY FaultBounded DEF SessionInv, WriteFails
<1>2. pc[r] # "idle" /\ TableTypeOK' /\ TableGrows
  <2>1. CASE pc[r] \in {"touch", "revoke", "create"} /\ UNCHANGED table
    BY <1>1, <2>1, TableStays DEF TableTypeOK, TypeOK, table
  <2>2. CASE pc[r] = "touch" /\ UNCHANGED ids
             /\ \E at \in decided[r]..now : row' = TouchedRow(r, at)
    <3>1. PICK at \in decided[r]..now : row' = TouchedRow(r, at)
      BY <2>2
    <3>2. at \in Time /\ call[r].tok \in ids
      BY <1>1, <2>2 DEF TypeOK, Time, RequestInv, SnapshotInv, Visiting
    <3> QED BY <1>1, <2>2, <3>1, <3>2, TouchedRowSafe
  <2>3. CASE pc[r] = "revoke" /\ row' = RevokedRow(call[r].target) /\ UNCHANGED ids
    BY <1>1, <2>3, RevokeTarget, RevokedRowSafe
  <2>4. CASE pc[r] = "create" /\ \E t \in Tokens : Insert(r, t)
    <3>1. PICK t \in Tokens : Insert(r, t)
      BY <2>4
    <3>2. call[r] \in Call /\ call[r].op = "signIn"
      BY <1>1, <2>4 DEF RequestInv, CallInv
    <3> QED BY <1>1, <2>4, <3>1, <3>2, InsertSafe
  <2> QED BY <2>1, <2>2, <2>3, <2>4 DEF WriteFails
<1> QED BY <1>1, <1>2, ReturnPreserves

\* A crash leaves the table and no handler.
LEMMA CrashPreserves ==
    ASSUME SessionInv, Crash
    PROVE  SessionInv'
<1>1. TypeOK /\ faults' \in 0..MaxFaults
  BY FaultBounded DEF SessionInv, Crash
<1>2. TypeOK'
  BY <1>1 DEF Crash, TypeOK, Steps, table, Time
<1>3. \A r \in Requests : RequestInv(r)'
  BY DEF Crash, RequestInv, CallInv, SnapshotInv, DoomInv, RightsInv, Visiting, Admitted
<1> QED BY <1>2, <1>3 DEF SessionInv, Crash

\* The worker revokes expired sessions only.
LEMMA WorkerPreserves ==
    ASSUME SessionInv, Worker \/ \E t \in Tokens : WorkerRevokeFails(t)
    PROVE  SessionInv'
<1>1. TypeOK /\ batch \subseteq GetExpired /\ GetExpired \subseteq ids
  BY DEF SessionInv, GetExpired
<1>2. CASE WorkerTick
  <2>1. TypeOK' /\ TableGrows
    BY <1>1, <1>2, TableStays DEF WorkerTick, TypeOK, table, locals
  <2>2. batch' \subseteq GetExpired'
    BY <1>2 DEF WorkerTick, GetExpired, Expired, table
  <2> QED BY <1>2, <2>1, <2>2, NoneMoves DEF WorkerTick
<1>3. ASSUME NEW t \in Tokens, WorkerRevoke(t) \/ WorkerRevokeFails(t)
      PROVE  SessionInv'
  <2>1. /\ t \in ids /\ row' \in {row, RevokedRow(t)} /\ batch' = batch \ {t}
        /\ UNCHANGED <<now, ids, pc, locals>>
    BY <1>1, <1>3 DEF WorkerRevoke, WorkerRevokeFails
  <2>2. TableTypeOK' /\ TableGrows
    <3>1. CASE row' = row
      BY <1>1, <2>1, <3>1, TableStays DEF table, TypeOK, TableTypeOK
    <3>2. CASE row' = RevokedRow(t)
      BY <1>1, <2>1, <3>2, RevokedRowSafe
    <3> QED BY <2>1, <3>1, <3>2
  <2>3. faults' \in 0..MaxFaults
    BY <1>1, <1>3, FaultBounded DEF WorkerRevoke, WorkerRevokeFails, TypeOK
  <2>4. TypeOK'
    BY <1>1, <2>1, <2>2, <2>3 DEF TypeOK, TableTypeOK, locals
  <2>5. batch' \subseteq GetExpired'
    BY <2>1, <2>2, <2>4, BatchStaysExpired DEF TypeOK
  <2> QED BY <2>1, <2>2, <2>4, <2>5, NoneMoves
<1> QED BY <1>2, <1>3 DEF Worker

\* Time only adds dead sessions.
LEMMA TickPreserves ==
    ASSUME SessionInv, Tick
    PROVE  SessionInv'
<1>1. TypeOK
  BY DEF SessionInv
<1>2. TypeOK' /\ TableGrows /\ TableTypeOK'
  BY <1>1 DEF Tick, TypeOK, TableGrows, TableTypeOK, table, locals, Time
<1>3. batch' \subseteq GetExpired'
  BY <1>2, BatchStaysExpired DEF Tick, TypeOK
<1> QED BY <1>2, <1>3, NoneMoves DEF Tick

\* Every step of the server keeps the invariant.
LEMMA StepPreserves == SessionInv /\ [Next]_vars => SessionInv'
<1> SUFFICES ASSUME SessionInv, [Next]_vars PROVE SessionInv'
  OBVIOUS
<1>1. ASSUME NEW r \in Requests, Handle(r) PROVE SessionInv'
  BY <1>1, ReadInfoPreserves, DecidePreserves, TouchPreserves, ReadOwnerPreserves,
     AnswerPreserves, FindTargetPreserves, RevokePreserves, CreatePreserves, EndPreserves
     DEF Handle
<1>2. CASE UNCHANGED vars
  <2>1. TypeOK' /\ TableGrows /\ batch' \subseteq GetExpired'
    BY <1>2, TableStays DEF SessionInv, TypeOK, vars, table, locals, GetExpired, Expired
  <2> QED BY <1>2, <2>1, NoneMoves DEF vars
<1> QED BY <1>1, <1>2, BeginPreserves, ReadFailsPreserves, WriteFailsPreserves,
           CrashPreserves, WorkerPreserves, TickPreserves DEF Next

-----------------------------------------------------------------------------
(* What a step may never do *)

\* The handler about to revoke is admitted, in time, and shares the owner of
\* its target.
LEMMA RevokerIsOwner ==
    ASSUME SessionInv, NEW r \in Requests, pc[r] = "revoke"
    PROVE  /\ IsAdmitted(r) /\ ~doomed[r] /\ call[r].op = "revoke"
           /\ row[call[r].tok].owner = row[call[r].target].owner
           /\ row[call[r].tok].hash = call[r].hash
BY DEF SessionInv, RequestInv, CallInv, DoomInv, RightsInv, OwnsTarget, IsAdmitted, Admitted

\* The handler about to touch a session was in time as well.
LEMMA ToucherIsLive ==
    ASSUME SessionInv, NEW r \in Requests, pc[r] = "touch"
    PROVE  /\ call[r].tok \in ids /\ ~doomed[r]
           /\ row[call[r].tok].hash = call[r].hash
BY DEF SessionInv, RequestInv, SnapshotInv, DoomInv, Visiting

\* Every way a step can change the table.
LEMMA TableChanges ==
    ASSUME SessionInv, Next
    PROVE  \/ UNCHANGED table
           \/ \E r \in Requests, t \in Tokens : pc[r] = "create" /\ Insert(r, t)
           \/ \E r \in Requests, at \in Time :
                 pc[r] = "touch" /\ pc'[r] # "touch" /\ row' = TouchedRow(r, at) /\ ids' = ids
           \/ \E r \in Requests :
                 pc[r] = "revoke" /\ row' = RevokedRow(call[r].target) /\ ids' = ids
           \/ \E t \in batch : row' = RevokedRow(t) /\ ids' = ids
<1>1. TypeOK
  BY DEF SessionInv
<1>2. \A r \in Requests : decided[r]..now \subseteq Time
  BY <1>1 DEF TypeOK, Time
<1>3. ASSUME NEW r \in Requests, NEW c \in Call, Begin(r, c) PROVE UNCHANGED table
  BY <1>3 DEF Begin
<1>4. ASSUME NEW r \in Requests, Touch(r)
      PROVE  \E at \in Time : pc[r] = "touch" /\ pc'[r] # "touch"
                              /\ row' = TouchedRow(r, at) /\ ids' = ids
  BY <1>1, <1>2, <1>4 DEF Touch, Goto, TypeOK
<1>5. ASSUME NEW r \in Requests, WriteFails(r), ~UNCHANGED table
      PROVE  \/ \E t \in Tokens : pc[r] = "create" /\ Insert(r, t)
             \/ \E at \in Time : pc[r] = "touch" /\ pc'[r] # "touch"
                                 /\ row' = TouchedRow(r, at) /\ ids' = ids
             \/ pc[r] = "revoke" /\ row' = RevokedRow(call[r].target) /\ ids' = ids
  BY <1>1, <1>2, <1>5 DEF WriteFails, Return, Goto, TypeOK
<1>6. ASSUME NEW r \in Requests, Handle(r), ~Touch(r), ~Create(r), ~Revoke(r)
      PROVE  UNCHANGED table
  BY <1>6 DEF Handle, ReadInfo, Decide, ReadOwner, Serve, FindTarget, Refuse, Load, End
<1>7. ASSUME NEW r \in Requests, Create(r)
      PROVE  \E t \in Tokens : pc[r] = "create" /\ Insert(r, t)
  BY <1>7 DEF Create
<1>8. ASSUME NEW r \in Requests, Revoke(r)
      PROVE  pc[r] = "revoke" /\ row' = RevokedRow(call[r].target) /\ ids' = ids
  BY <1>8 DEF Revoke
<1>9. ASSUME NEW r \in Requests, ReadFails(r) PROVE UNCHANGED table
  BY <1>9 DEF ReadFails
<1>10. ASSUME Worker \/ \E t \in Tokens : WorkerRevokeFails(t)
       PROVE  UNCHANGED table \/ \E t \in batch : row' = RevokedRow(t) /\ ids' = ids
  BY <1>10 DEF Worker, WorkerTick, WorkerRevoke, WorkerRevokeFails, table
<1>11. Crash \/ Tick => UNCHANGED table
  BY DEF Crash, Tick
<1> QED BY <1>3, <1>4, <1>5, <1>6, <1>7, <1>8, <1>9, <1>10, <1>11 DEF Next

-----------------------------------------------------------------------------
(* Theorems *)

\* The inductive invariant holds of the server.
THEOREM SessionInvariant == Spec => []SessionInv
BY InitEstablishes, StepPreserves, PTL DEF Spec

\* Types, and the agreement of the columns revoked and revoked_at.
THEOREM TypeCorrect == Spec => []TypeOK
<1>1. SessionInv => TypeOK
  BY DEF SessionInv
<1> QED BY <1>1, SessionInvariant, PTL

\* An RPC body runs only for a live, matching session of its user: the four
\* statements of Authentificator.User cannot be overtaken by a revocation that
\* was there when the request arrived.
THEOREM AdmissionIsSound == Spec => []AdmissionSound
<1>1. SessionInv => AdmissionSound
  BY DEF SessionInv, RequestInv, SnapshotInv, DoomInv, RightsInv, AdmissionSound, IsAdmitted,
         Visiting, Admitted
<1> QED BY <1>1, SessionInvariant, PTL

\* A revocation reported as done is in the table for good.
THEOREM RevocationIsDurable == Spec => []RevocationHolds
<1>1. SessionInv => RevocationHolds
  BY DEF SessionInv, RequestInv, RightsInv, RevocationHolds
<1> QED BY <1>1, SessionInvariant, PTL

\* Nobody but the owner of a session, acting in time, and the clock can have
\* it revoked or its revocation stamped anew.
THEOREM RevocationIsRightful == Spec => RevokedByRight
<1>1. SessionInv /\ [Next]_vars => [RightfulRevocation]_vars
  <2> SUFFICES ASSUME SessionInv, Next PROVE RightfulRevocation
    OBVIOUS
  <2>1. TypeOK /\ batch \subseteq GetExpired
    BY DEF SessionInv
  <2> SUFFICES ASSUME NEW t \in ids,
                      row'[t].revoked # row[t].revoked \/ row'[t].revokedAt # row[t].revokedAt
               PROVE  \/ Expired(t)
                      \/ \E r \in Requests :
                            /\ IsAdmitted(r) /\ ~doomed[r]
                            /\ call[r].op = "revoke" /\ call[r].target = t
                            /\ row[call[r].tok].owner = row[t].owner
                            /\ row[call[r].tok].hash = call[r].hash
    BY DEF RightfulRevocation
  <2>2. t \in Tokens /\ row[t] \in Row
    BY <2>1 DEF TypeOK
  <2>3. \A s \in Tokens : row' = RevokedRow(s) => s = t
    BY <2>1, <2>2 DEF RevokedRow, TypeOK
  <2>4. \A r \in Requests, s \in Tokens : ~Insert(r, s)
    BY <2>1, <2>2 DEF Insert, TypeOK
  <2>5. \A r \in Requests, at \in Time : row' # TouchedRow(r, at)
    BY <2>1, <2>2 DEF TouchedRow, TypeOK, Row
  <2>6. CASE \E r \in Requests :
                pc[r] = "revoke" /\ row' = RevokedRow(call[r].target) /\ ids' = ids
    BY <2>3, <2>6, RevokeTarget, RevokerIsOwner
  <2>7. CASE \E s \in batch : row' = RevokedRow(s) /\ ids' = ids
    BY <2>1, <2>3, <2>7 DEF GetExpired, TypeOK
  <2> QED BY <2>4, <2>5, <2>6, <2>7, TableChanges DEF table
<1> QED BY <1>1, SessionInvariant, PTL DEF Spec, RevokedByRight

\* last_seen moves only for a request that was in time, and by its own client.
THEOREM LastSeenIsLiveUse == Spec => OnlyLiveUseIsSeen
<1>1. SessionInv /\ [Next]_vars => [LiveUse]_vars
  <2> SUFFICES ASSUME SessionInv, Next PROVE LiveUse
    OBVIOUS
  <2>1. TypeOK
    BY DEF SessionInv
  <2> SUFFICES ASSUME NEW t \in ids, row'[t].lastSeen # row[t].lastSeen
               PROVE  \E r \in Requests : /\ pc[r] = "touch" /\ pc'[r] # "touch"
                                          /\ call[r].tok = t
                                          /\ call[r].hash = row[t].hash
                                          /\ ~doomed[r]
    BY DEF LiveUse
  <2>2. t \in Tokens /\ row[t] \in Row
    BY <2>1 DEF TypeOK
  <2>3. \A s \in Tokens : row' # RevokedRow(s)
    BY <2>1, <2>2 DEF RevokedRow, TypeOK, Row
  <2>4. \A r \in Requests, s \in Tokens : ~Insert(r, s)
    BY <2>1, <2>2 DEF Insert, TypeOK
  <2>5. CASE \E r \in Requests, at \in Time :
                pc[r] = "touch" /\ pc'[r] # "touch" /\ row' = TouchedRow(r, at) /\ ids' = ids
    <3>1. PICK r \in Requests, at \in Time :
                pc[r] = "touch" /\ pc'[r] # "touch" /\ row' = TouchedRow(r, at) /\ ids' = ids
      BY <2>5
    <3>2. call[r].tok = t
      BY <2>1, <2>2, <3>1 DEF TouchedRow, TypeOK
    <3> QED BY <3>1, <3>2, ToucherIsLive
  <2>6. \A r \in Requests : pc[r] = "revoke" => call[r].target \in Tokens
    BY RevokeTarget
  <2>7. batch \subseteq Tokens
    BY <2>1 DEF TypeOK
  <2> QED BY <2>3, <2>4, <2>5, <2>6, <2>7, TableChanges DEF table
<1> QED BY <1>1, SessionInvariant, PTL DEF Spec, OnlyLiveUseIsSeen

=============================================================================
