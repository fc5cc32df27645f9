------------------------------ MODULE Sessions ------------------------------
(***************************************************************************)
(* The session authority of the SecureGuard server: the sessions table,    *)
(* the authentication every RPC goes through (Authentificator.User), the   *)
(* RPCs that end a session (LoginService.Logout, SessionsService.Revoke),  *)
(* those that open one (Authorize, Register) and the worker that revokes   *)
(* expired sessions.                                                       *)
(*                                                                         *)
(* Every RPC runs in a goroutine of its own and no handler opens a         *)
(* transaction, so handlers interleave between any two SQL statements: a   *)
(* step below is one statement, or one decision taken on its result.       *)
(* No query deletes a session, so the existence test every repository      *)
(* method makes first agrees with the statement after it and shares its    *)
(* step.  The clocks of the server and of PostgreSQL are taken to be one.  *)
(***************************************************************************)
EXTENDS Naturals, FiniteSets

CONSTANTS
    Users,      \* owners of sessions
    Hashes,     \* client hashes, the metadata key "client"
    Tokens,     \* session tokens, each standing for its encoded id as well
    Requests,   \* slots for RPCs being handled
    None,       \* a null column, missing metadata
    Lifetime,   \* sessions.expires - sessions.created
    MaxTime,    \* bound on the clock
    MaxFaults   \* bound on failed statements and crashes

ASSUME NoneAssumption ==
    /\ None \notin Users \cup Tokens \cup Nat
    /\ None \notin [owner: Users, hash: Hashes, live: BOOLEAN]
    /\ None \notin [tok: Tokens, hash: Hashes, inTime: BOOLEAN]
ASSUME BoundsAssumption == Lifetime \in Nat /\ MaxTime \in Nat /\ MaxFaults \in Nat

VARIABLES
    now,        \* the clock
    ids,        \* primary keys present in the table sessions
    row,        \* row[t]: the other columns of session t
    pc,         \* pc[r]: what the handler of r does next
    call,       \* call[r]: what r asks for
    info,       \* info[r]: the columns IsValid has read
    decided,    \* decided[r]: when IsValid accepted the session
    uid,        \* uid[r]: Meta.UserID
    reply,      \* reply[r]: how r ended
    batch,      \* expired sessions the worker has still to revoke
    faults,     \* failures so far
    doomed      \* history: r presented a session that was already dead

table == <<ids, row>>
locals == <<call, info, decided, uid, reply, doomed>>
vars == <<now, table, pc, locals, batch, faults>>

-----------------------------------------------------------------------------
(* Types *)

Time == Nat

Row == [owner: Users, hash: Hashes, revoked: BOOLEAN, revokedAt: Time \cup {None},
        expires: Time, lastSeen: Time \cup {None}]

Info == [hash: Hashes, revoked: BOOLEAN, expires: Time]

\* "serve" stands for every authenticated RPC that leaves the table alone;
\* Logout is a "revoke" whose target is the session it presents.
Call == [op: {"serve"}, tok: Tokens, hash: Hashes]
        \cup [op: {"revoke"}, tok: Tokens, hash: Hashes, target: Tokens]
        \cup [op: {"signIn"}, tok: Tokens \cup {None}, hash: Hashes, user: Users]

Admitted == {"serve", "findTarget", "revoke"}
Steps == {"idle", "info", "decide", "touch", "owner", "create", "load", "done"} \cup Admitted

\* The columns revoked and revoked_at agree: Session.rvProtobuf dereferences
\* the second when the first is set.
TypeOK ==
    /\ now \in Time
    /\ ids \subseteq Tokens
    /\ row \in [Tokens -> Row \cup {None}]
    /\ \A t \in ids : row[t] \in Row /\ (row[t].revoked <=> row[t].revokedAt # None)
    /\ pc \in [Requests -> Steps]
    /\ call \in [Requests -> Call \cup {None}]
    /\ info \in [Requests -> Info \cup {None}]
    /\ decided \in [Requests -> Time]
    /\ uid \in [Requests -> Users \cup {None}]
    /\ reply \in [Requests -> {"none", "ok", "error"}]
    /\ batch \subseteq Tokens
    /\ faults \in 0..MaxFaults
    /\ doomed \in [Requests -> BOOLEAN]

Init ==
    /\ now = 0
    /\ ids = {}
    /\ row = [t \in Tokens |-> None]
    /\ pc = [r \in Requests |-> "idle"]
    /\ call = [r \in Requests |-> None]
    /\ info = [r \in Requests |-> None]
    /\ decided = [r \in Requests |-> 0]
    /\ uid = [r \in Requests |-> None]
    /\ reply = [r \in Requests |-> "none"]
    /\ batch = {}
    /\ faults = 0
    /\ doomed = [r \in Requests |-> FALSE]

-----------------------------------------------------------------------------
(* Helpers *)

Expired(t) == row[t].expires < now

Dead(t) == t \in ids /\ (row[t].revoked \/ Expired(t))

\* Mutant: the statement forgets revoked_at.
UnstampedRow(t) == [row EXCEPT ![t].revoked = TRUE]

\* UPDATE sessions SET revoked = true, revoked_at = now() WHERE id = t
RevokedRow(t) == [row EXCEPT ![t].revoked = TRUE, ![t].revokedAt = now]

Goto(r, step) == pc' = [pc EXCEPT ![r] = step]

\* The handler returns.
Return(r, how) ==
    /\ Goto(r, "done")
    /\ reply' = [reply EXCEPT ![r] = how]

\* Authentificator.User fails.  Every handler but those of Authorize and
\* Register returns its error; those two ignore it and go on with Meta.Hash.
Unauthenticated(r) ==
    IF call[r].op = "signIn" THEN Goto(r, "create") /\ UNCHANGED reply
                             ELSE Return(r, "error")

-----------------------------------------------------------------------------
(* Authentificator.User *)

\* An RPC arrives.  Without session metadata only a sign-in goes on.
Begin(r, c) ==
    /\ pc[r] = "idle"
    /\ Goto(r, IF c.tok = None THEN "create" ELSE "info")
    /\ call' = [call EXCEPT ![r] = c]
    /\ doomed' = [doomed EXCEPT ![r] = c.tok # None /\ Dead(c.tok)]
    /\ UNCHANGED <<now, table, info, decided, uid, reply, batch, faults>>

\* IsValid, first part: the row is read.
ReadInfo(r) ==
    LET t == call[r].tok IN
    /\ pc[r] = "info"
    /\ \/ /\ t \in ids
          /\ info' = [info EXCEPT ![r] = [hash |-> row[t].hash, revoked |-> row[t].revoked,
                                          expires |-> row[t].expires]]
          /\ Goto(r, "decide")
          /\ UNCHANGED reply
       \/ /\ t \notin ids
          /\ Unauthenticated(r)
          /\ UNCHANGED info
    /\ UNCHANGED <<now, table, call, decided, uid, batch, faults, doomed>>

\* Mutants: one of the three tests is missing.
ValidThoughRevoked(r) == ~(info[r].expires < now) /\ info[r].hash = call[r].hash
ValidThoughExpired(r) == ~info[r].revoked /\ info[r].hash = call[r].hash
ValidForAnyClient(r) == ~info[r].revoked /\ ~(info[r].expires < now)

\* IsValid, second part: the verdict on what was read.
Valid(r) ==
    /\ ~info[r].revoked
    /\ ~(info[r].expires < now)
    /\ info[r].hash = call[r].hash

Decide(r) ==
    /\ pc[r] = "decide"
    /\ \/ /\ Valid(r)
          /\ Goto(r, "touch")
          /\ decided' = [decided EXCEPT ![r] = now]
          /\ UNCHANGED reply
       \/ /\ ~Valid(r)
          /\ Unauthenticated(r)
          /\ UNCHANGED decided
    /\ UNCHANGED <<now, table, call, info, uid, batch, faults, doomed>>

\* Mutant: the row read by IsValid is saved as a whole.
SavedRow(r, at) == [row EXCEPT ![call[r].tok].lastSeen = at,
                               ![call[r].tok].revoked = info[r].revoked,
                               ![call[r].tok].revokedAt =
                                   IF info[r].revoked THEN @ ELSE None]

\* SetLastSeen writes the time.Now() evaluated before the statement: any
\* instant between the verdict and the write.
TouchedRow(r, at) == [row EXCEPT ![call[r].tok].lastSeen = at]

Touch(r) ==
    /\ pc[r] = "touch"
    /\ \E at \in decided[r]..now : row' = TouchedRow(r, at)
    /\ Goto(r, "owner")
    /\ UNCHANGED <<now, ids, locals, batch, faults>>

\* GetOwner; a sign-in drops the identity and keeps only the client hash.
ReadOwner(r) ==
    /\ pc[r] = "owner"
    /\ \/ /\ call[r].op = "signIn"
          /\ Goto(r, "create")
          /\ UNCHANGED uid
       \/ /\ call[r].op # "signIn"
          /\ uid' = [uid EXCEPT ![r] = row[call[r].tok].owner]
          /\ Goto(r, IF call[r].op = "revoke" THEN "findTarget" ELSE "serve")
    /\ UNCHANGED <<now, table, call, info, decided, reply, batch, faults, doomed>>

-----------------------------------------------------------------------------
(* The bodies of the handlers *)

\* The body has its own reasons to refuse, the staff check among them.
Serve(r) ==
    /\ pc[r] = "serve"
    /\ \E how \in {"ok", "error"} : Return(r, how)
    /\ UNCHANGED <<now, table, call, info, decided, uid, batch, faults, doomed>>

\* Mutant: the owner of the target is not compared with the caller.
TargetExists(r) == call[r].target \in ids

\* Service.Revoke asks for the owner of the target first.
OwnsTarget(r) == call[r].target \in ids /\ row[call[r].target].owner = uid[r]

FindTarget(r) ==
    /\ pc[r] = "findTarget"
    /\ \/ /\ OwnsTarget(r)
          /\ Goto(r, "revoke")
          /\ UNCHANGED reply
       \/ /\ ~OwnsTarget(r)
          /\ Return(r, "error")
    /\ UNCHANGED <<now, table, call, info, decided, uid, batch, faults, doomed>>

Revoke(r) ==
    /\ pc[r] = "revoke"
    /\ row' = RevokedRow(call[r].target)
    /\ Return(r, "ok")
    /\ UNCHANGED <<now, ids, call, info, decided, uid, batch, faults, doomed>>

\* Service.Create inserts a row under a fresh random token.
NewRow(u, h) == [owner |-> u, hash |-> h, revoked |-> FALSE, revokedAt |-> None,
                 expires |-> now + Lifetime, lastSeen |-> None]

Insert(r, t) ==
    /\ t \notin ids
    /\ ids' = ids \cup {t}
    /\ row' = [row EXCEPT ![t] = NewRow(call[r].user, call[r].hash)]

Create(r) ==
    /\ pc[r] = "create"
    /\ \E t \in Tokens : Insert(r, t)
    /\ Goto(r, "load")
    /\ UNCHANGED <<now, locals, batch, faults>>

\* The credentials are wrong, or the token supply of the model is used up.
Refuse(r) ==
    /\ pc[r] = "create"
    /\ Return(r, "error")
    /\ UNCHANGED <<now, table, call, info, decided, uid, batch, faults, doomed>>

\* The user is read back for the answer.
Load(r) ==
    /\ pc[r] = "load"
    /\ Return(r, "ok")
    /\ UNCHANGED <<now, table, call, info, decided, uid, batch, faults, doomed>>

\* The answer has been sent; the goroutine ends.
End(r) ==
    /\ pc[r] = "done"
    /\ Goto(r, "idle")
    /\ call' = [call EXCEPT ![r] = None]
    /\ info' = [info EXCEPT ![r] = None]
    /\ decided' = [decided EXCEPT ![r] = 0]
    /\ uid' = [uid EXCEPT ![r] = None]
    /\ reply' = [reply EXCEPT ![r] = "none"]
    /\ doomed' = [doomed EXCEPT ![r] = FALSE]
    /\ UNCHANGED <<now, table, batch, faults>>

-----------------------------------------------------------------------------
(* Failures *)

Fault ==
    /\ faults < MaxFaults
    /\ faults' = faults + 1

\* A read fails.  A sign-in survives it while it authenticates.
ReadFails(r) ==
    /\ pc[r] \in {"info", "owner", "findTarget", "load"}
    /\ Fault
    /\ IF pc[r] \in {"info", "owner"} THEN Unauthenticated(r) ELSE Return(r, "error")
    /\ UNCHANGED <<now, table, call, info, decided, uid, batch, doomed>>

\* A write reports an error, whether or not the database committed it.
\* When it is SetLastSeen of a sign-in, User returns no Meta at all and the
\* dereference of Meta.Hash ends the handler.
WriteFails(r) ==
    /\ Fault
    /\ Return(r, "error")
    /\ \/ /\ pc[r] \in {"touch", "revoke", "create"}
          /\ UNCHANGED table
       \/ /\ pc[r] = "touch"
          /\ \E at \in decided[r]..now : row' = TouchedRow(r, at)
          /\ UNCHANGED ids
       \/ /\ pc[r] = "revoke"
          /\ row' = RevokedRow(call[r].target)
          /\ UNCHANGED ids
       \/ /\ pc[r] = "create"
          /\ \E t \in Tokens : Insert(r, t)
    /\ UNCHANGED <<now, call, info, decided, uid, batch, doomed>>

\* The process dies and is started again: only the table survives.
Crash ==
    /\ Fault
    /\ pc' = [r \in Requests |-> "idle"]
    /\ call' = [r \in Requests |-> None]
    /\ info' = [r \in Requests |-> None]
    /\ decided' = [r \in Requests |-> 0]
    /\ uid' = [r \in Requests |-> None]
    /\ reply' = [r \in Requests |-> "none"]
    /\ doomed' = [r \in Requests |-> FALSE]
    /\ batch' = {}
    /\ UNCHANGED <<now, table>>

-----------------------------------------------------------------------------
(* The expiry worker *)

\* Mutants: sessions are swept only at the instant they expire, or the
\* comparison of the query is inverted.
ExpiringNow == {t \in ids : row[t].expires = now}
Unexpired == {t \in ids : row[t].expires > now}

\* GetExpired returns every expired session, the revoked ones included.
GetExpired == {t \in ids : Expired(t)}

WorkerTick ==
    /\ batch = {}
    /\ batch' = GetExpired
    /\ UNCHANGED <<now, table, pc, locals, faults>>

WorkerRevoke(t) ==
    /\ t \in batch
    /\ row' = RevokedRow(t)
    /\ batch' = batch \ {t}
    /\ UNCHANGED <<now, ids, pc, locals, faults>>

\* The error is logged and the loop goes on with the next session.
WorkerRevokeFails(t) ==
    /\ t \in batch
    /\ Fault
    /\ row' \in {row, RevokedRow(t)}
    /\ batch' = batch \ {t}
    /\ UNCHANGED <<now, ids, pc, locals>>

-----------------------------------------------------------------------------

Tick ==
    /\ now < MaxTime
    /\ now' = now + 1
    /\ UNCHANGED <<table, pc, locals, batch, faults>>

Handle(r) ==
    \/ ReadInfo(r) \/ Decide(r) \/ Touch(r) \/ ReadOwner(r)
    \/ Serve(r) \/ FindTarget(r) \/ Revoke(r)
    \/ Create(r) \/ Refuse(r) \/ Load(r) \/ End(r)

Worker == WorkerTick \/ \E t \in Tokens : WorkerRevoke(t)

Next ==
    \/ \E r \in Requests : \/ \E c \in Call : Begin(r, c)
                           \/ Handle(r)
                           \/ ReadFails(r)
                           \/ WriteFails(r)
    \/ Worker
    \/ \E t \in Tokens : WorkerRevokeFails(t)
    \/ Crash
    \/ Tick

Spec == Init /\ [][Next]_vars

\* The ticker of the worker fires for as long as the process runs, and a
\* process that crashes is started again.  Nothing obliges clients to call.
FairSpec == Spec /\ WF_vars(Worker)

-----------------------------------------------------------------------------
(* Properties *)

\* The request has passed Authentificator.User and its body runs.
IsAdmitted(r) == pc[r] \in Admitted

\* An RPC body runs only for a session that exists, was presented by the
\* client it was opened for, and was neither revoked nor expired when the
\* request arrived; the identity it runs under is the owner of that session.
\* (auth.go:46 reads the session in four separate statements.)
AdmissionSound ==
    \A r \in Requests : IsAdmitted(r) =>
        LET t == call[r].tok IN
        /\ t \in ids
        /\ row[t].hash = call[r].hash
        /\ row[t].owner = uid[r]
        /\ ~doomed[r]

\* A revocation that was reported to the client as done stays done, whatever
\* last-seen updates, expiry sweeps and crashes are interleaved with it.
RevocationHolds ==
    \A r \in Requests :
        reply[r] = "ok" /\ call[r].op = "revoke" => row[call[r].target].revoked

\* A session is revoked, or its revoked_at changes, only after it expired or
\* by a request that its owner made with a live session of his own.
RightfulRevocation ==
    \A t \in ids : row'[t].revoked # row[t].revoked
                   \/ row'[t].revokedAt # row[t].revokedAt =>
        \/ Expired(t)
        \/ \E r \in Requests :
              /\ IsAdmitted(r) /\ ~doomed[r]
              /\ call[r].op = "revoke" /\ call[r].target = t
              /\ row[call[r].tok].owner = row[t].owner
              /\ row[call[r].tok].hash = call[r].hash

RevokedByRight == [][RightfulRevocation]_vars

\* Once a session is dead its last_seen moves only on behalf of requests
\* that were already under way: what Session list shows as the last use of a
\* revoked or expired session is not the time of a refused attempt.
LiveUse ==
    \A t \in ids : row'[t].lastSeen # row[t].lastSeen =>
        \E r \in Requests : /\ pc[r] = "touch" /\ pc'[r] # "touch"
                            /\ call[r].tok = t
                            /\ call[r].hash = row[t].hash
                            /\ ~doomed[r]

OnlyLiveUseIsSeen == [][LiveUse]_vars

\* Every expired session ends up revoked, across failed updates and restarts
\* of the process, without any client presenting it.
ExpiredIsRevoked ==
    \A t \in Tokens : (t \in ids /\ Expired(t)) ~> (t \in ids /\ row[t].revoked)

-----------------------------------------------------------------------------
(* Refinement: the table and its handlers implement the abstract authority *)

absSession ==
    [t \in Tokens |-> IF t \in ids THEN [owner |-> row[t].owner, hash |-> row[t].hash,
                                         live |-> ~Dead(t)]
                                   ELSE None]

Visiting == {"info", "decide", "touch", "owner"} \cup Admitted

absVisit ==
    [r \in Requests |-> IF pc[r] \in Visiting
                        THEN [tok |-> call[r].tok, hash |-> call[r].hash, inTime |-> ~doomed[r]]
                        ELSE None]

absIdentity == [r \in Requests |-> IF IsAdmitted(r) THEN uid[r] ELSE None]

Authority == INSTANCE SessionAuthority
             WITH session <- absSession, visit <- absVisit, identity <- absIdentity

\* Whatever the interleaving of statements, failures and crashes, callers
\* see an authority that opens, admits and kills sessions atomically.
ImplementsAuthority == Authority!ASpec

=============================================================================
