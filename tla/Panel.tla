------------------------------- MODULE Panel -------------------------------
(***************************************************************************)
(* A panel process serving requests over one SQLite file: the identity     *)
(* lookup and sign-in tracking of cmd/server/auth.go, the admin boundary   *)
(* of internal/graph/resolver.go, the commands of cmd/server/commands.go   *)
(* in their transactions, and the audit entries buffered during a request  *)
(* and written after it.                                                   *)
(*                                                                         *)
(* Every request reads its identity once, through the read pool, and acts  *)
(* on what it read.  Every write goes through the write pool, which holds  *)
(* one connection: `writer` is the piece of work that has it.  The command *)
(* fields of one mutation run concurrently, each in a transaction of its   *)
(* own.                                                                    *)
(*                                                                         *)
(* Requests are one-shot: the interesting interleavings are those of the   *)
(* requests in flight together.  Faults names what may go wrong:           *)
(*   "tx"     a read, a write, BeginTx or Commit fails (client gone, disk) *)
(*   "audit"  an audit insert fails or outlives its five seconds           *)
(*   "crash"  the process dies and is started again on the same file       *)
(***************************************************************************)
EXTENDS Store, Sequences

CONSTANTS
    Tokens,      \* what the gate may forward
    Operations,  \* what a client may ask for
    Databases,   \* files an earlier run of the panel may have left behind
    Faults

\* The bearer token, as go-oidc and gateauth see it.
TokenType ==
    [presented : BOOLEAN, verifies : BOOLEAN, emailVerified : BOOLEAN,
     email : RawEmail, sub : Users, iat : Nat]

OperationType ==
    [kind : {"viewer", "signOut", "adminQuery", "adminMutation"},
     commands : SUBSET Commands]

\* The sign-in transaction is one more piece of work a request may run.
SignIn == [kind |-> "signIn", target |-> None]
Work == Commands \cup {SignIn}

ASSUME PanelAssumption ==
    /\ None \notin Requests \X Work
    /\ Tokens \subseteq TokenType
    /\ Operations \subseteq OperationType
    /\ Databases \subseteq Tables
    /\ \A d \in Databases : Consistent(d) /\ d.jobs = {}
    /\ Faults \subseteq {"tx", "audit", "crash"}

VARIABLES
    db,        \* the committed tables: what the read pool sees
    writer,    \* the piece of work holding the write connection, or None
    work,      \* the tables as the open transaction sees them
    verdict,   \* how the case in the open transaction ended, or "open"
    pc,        \* where each request is
    token,     \* the token of each request
    op,        \* the operation of each request
    isAdmin,   \* Request.isAdmin, as read when the identity was resolved
    answers,   \* what each command of a request answered
    buffer,    \* Request.audits: entries waiting for the request to end
    auditLog,  \* the audit_log table, each row tagged with its request
    dropped,   \* audit entries that a fault lost
    metrics    \* counters of this process

vars == <<db, writer, work, verdict, pc, token, op, isAdmin, answers, buffer,
          auditLog, dropped, metrics>>

request == <<pc, token, op, isAdmin, answers, buffer>>
transaction == <<writer, work, verdict>>
trail == <<auditLog, dropped>>

InFlight == {"signIn", "mark", "serve", "run", "flush"}
Over == {"done", "refused", "failed", "lost"}
AuditActions == {"sign-in", "sign-out", "mutation", "denied"}
Counters == {"signIns", "denied", "banned", "make", "remove"}
Rows == [req : Requests, action : AuditActions]

TypeOK ==
    /\ db \in Tables /\ work \in Tables
    /\ writer \in (Requests \X Work) \cup {None}
    /\ verdict \in Verdicts \cup {"open"}
    /\ pc \in [Requests -> InFlight \cup Over \cup {"idle"}]
    /\ token \in [Requests -> Tokens \cup {None}]
    /\ op \in [Requests -> Operations \cup {None}]
    /\ isAdmin \in [Requests -> BOOLEAN]
    /\ answers \in [Requests -> SUBSET [cmd : Commands, verdict : Verdicts]]
    /\ buffer \in [Requests -> Seq(AuditActions)]
    /\ auditLog \subseteq Rows /\ dropped \subseteq Rows
    /\ metrics \in [Counters -> Nat]

Init ==
    /\ db \in Databases
    /\ writer = None /\ work = db /\ verdict = "open"
    /\ pc = [r \in Requests |-> "idle"]
    /\ token = [r \in Requests |-> None]
    /\ op = [r \in Requests |-> None]
    /\ isAdmin = [r \in Requests |-> FALSE]
    /\ answers = [r \in Requests |-> {}]
    /\ buffer = [r \in Requests |-> <<>>]
    /\ auditLog = {} /\ dropped = {}
    /\ metrics = [c \in Counters |-> 0]

-----------------------------------------------------------------------------
\* Helpers.

Actor(r) == token[r].sub

Goto(r, place) == pc' = [pc EXCEPT ![r] = place]

Increase(counter) ==
    metrics' = IF counter \in Counters
               THEN [metrics EXCEPT ![counter] = @ + 1] ELSE metrics

WriteAudit(r, action) == buffer' = [buffer EXCEPT ![r] = Append(@, action)]

\* The handler returned: flushAudit has something to do, or nothing.
Return(r, entries) ==
    /\ buffer' = [buffer EXCEPT ![r] = entries]
    /\ Goto(r, IF entries = <<>> THEN "done" ELSE "flush")

Buffered(r, action) ==
    \E i \in DOMAIN buffer[r] : buffer[r][i] = action

Answered(r) == {a.cmd : a \in answers[r]}

\* A command field answered; the response is complete once all of them have.
Reply(r, c, v) ==
    /\ answers' = [answers EXCEPT ![r] = @ \cup {[cmd |-> c, verdict |-> v]}]
    /\ Goto(r, IF op[r].commands \subseteq Answered(r) \cup {c}
               THEN "flush" ELSE "run")

Release == writer' = None /\ work' = db' /\ verdict' = "open"

-----------------------------------------------------------------------------
\* Arrival: gateauth.Identity and the one identity lookup.

\* Client.Identity: a token that verifies, with a verified, non-empty email.
Identified(t) ==
    t.presented /\ t.verifies /\ ~IsEmpty(t.email) /\ t.emailVerified

Arrival(r, t, o) ==
    /\ pc[r] = "idle"
    /\ token' = [token EXCEPT ![r] = t]
    /\ op' = [op EXCEPT ![r] = o]
    /\ UNCHANGED <<db, transaction, answers, buffer, trail, metrics>>

\* No token, a token that no longer verifies, or one without a usable email:
\* 401 (or the sign-out redirect), from refuseStaleToken or requireIdentity.
RefuseUnidentified(r, t, o) ==
    /\ ~Identified(t)
    /\ Arrival(r, t, o)
    /\ Goto(r, "refused")
    /\ UNCHANGED isAdmin

\* 403 access revoked.
RefuseBanned(r, t, o) ==
    /\ Identified(t)
    /\ db.users[t.sub] # None
    /\ DBGetIdentityByOIDC(db, t.sub).banReason # 0
    /\ Arrival(r, t, o)
    /\ Goto(r, "refused")
    /\ UNCHANGED isAdmin

\* The lookup itself fails: 500, and nothing was buffered to flush.
IdentityFails(r, t, o) ==
    /\ "tx" \in Faults
    /\ Identified(t)
    /\ Arrival(r, t, o)
    /\ Goto(r, "failed")
    /\ UNCHANGED isAdmin

\* A known person; recordSignIn goes to the database only if the iat looks new.
Admit(r, t, o) ==
    /\ Identified(t)
    /\ db.users[t.sub] # None
    /\ LET identity == DBGetIdentityByOIDC(db, t.sub)
       IN  /\ identity.banReason = 0
           /\ isAdmin' = [isAdmin EXCEPT ![r] = identity.isAdmin]
           /\ Goto(r, IF t.iat > identity.signin THEN "mark" ELSE "serve")
    /\ Arrival(r, t, o)

\* Nobody by that subject yet: firstSignIn.
Meet(r, t, o) ==
    /\ Identified(t)
    /\ db.users[t.sub] = None
    /\ Arrival(r, t, o)
    /\ Goto(r, "signIn")
    /\ UNCHANGED isAdmin

\* Mutant: the mark does not wait for the write connection.
MarkSignInAtOnce(r) ==
    /\ pc[r] = "mark"
    /\ IF SignInMatches(db, Actor(r), token[r].iat)
       THEN /\ db' = DBMarkSignIn(db, Actor(r), token[r].iat)
            /\ Increase("signIns")
            /\ WriteAudit(r, "sign-in")
       ELSE UNCHANGED <<db, metrics, buffer>>
    /\ Goto(r, "serve")
    /\ UNCHANGED <<transaction, token, op, isAdmin, answers, trail>>

\* DBMarkSignIn through baseWrite: one statement on the write connection.
MarkSignIn(r) ==
    /\ pc[r] = "mark"
    /\ writer = None
    /\ IF SignInMatches(db, Actor(r), token[r].iat)
       THEN /\ db' = DBMarkSignIn(db, Actor(r), token[r].iat)
            /\ Increase("signIns")
            /\ WriteAudit(r, "sign-in")
       ELSE UNCHANGED <<db, metrics, buffer>>
    /\ work' = db'
    /\ Goto(r, "serve")
    /\ UNCHANGED <<writer, verdict, token, op, isAdmin, answers, trail>>

\* The statement failed: logged, and the request goes on.
MarkFails(r) ==
    /\ "tx" \in Faults
    /\ pc[r] = "mark"
    /\ Goto(r, "serve")
    /\ UNCHANGED <<db, transaction, token, op, isAdmin, answers, buffer, trail,
                   metrics>>

-----------------------------------------------------------------------------
\* The handler: the root fields of the GraphQL schema.

\* viewer reads the identity and nothing else.
Viewer(r) ==
    /\ pc[r] = "serve"
    /\ op[r].kind = "viewer"
    /\ Return(r, buffer[r])
    /\ UNCHANGED <<db, transaction, token, op, isAdmin, answers, trail, metrics>>

\* signOut records the intent; the session belongs to the gate.
SignOut(r) ==
    /\ pc[r] = "serve"
    /\ op[r].kind = "signOut"
    /\ Return(r, Append(buffer[r], "sign-out"))
    /\ UNCHANGED <<db, transaction, token, op, isAdmin, answers, trail, metrics>>

\* checkAdmin refuses: the crossing is recorded, nothing under it runs.
DenyAdmin(r) ==
    /\ pc[r] = "serve"
    /\ op[r].kind \in {"adminQuery", "adminMutation"}
    /\ ~isAdmin[r]
    /\ Return(r, Append(buffer[r], "denied"))
    /\ Increase("denied")
    /\ UNCHANGED <<db, transaction, token, op, isAdmin, answers, trail>>

\* checkAdmin admits a query, which leaves no trace.
AdminQuery(r) ==
    /\ pc[r] = "serve"
    /\ op[r].kind = "adminQuery"
    /\ isAdmin[r]
    /\ Return(r, buffer[r])
    /\ UNCHANGED <<db, transaction, token, op, isAdmin, answers, trail, metrics>>

\* Mutant: a mutation field outside the admin namespace.
AdminMutationUnchecked(r) ==
    /\ pc[r] = "serve"
    /\ op[r].kind = "adminMutation"
    /\ WriteAudit(r, "mutation")
    /\ Goto(r, IF op[r].commands = {} THEN "flush" ELSE "run")
    /\ UNCHANGED <<db, transaction, token, op, isAdmin, answers, trail, metrics>>

\* checkAdmin admits a mutation: recorded once, before any command runs.
AdminMutation(r) ==
    /\ pc[r] = "serve"
    /\ op[r].kind = "adminMutation"
    /\ isAdmin[r]
    /\ WriteAudit(r, "mutation")
    /\ Goto(r, IF op[r].commands = {} THEN "flush" ELSE "run")
    /\ UNCHANGED <<db, transaction, token, op, isAdmin, answers, trail, metrics>>

-----------------------------------------------------------------------------
\* WithTransaction around a command, or around the first sign-in.

\* What request r still has to run in a transaction.
Pending(r) ==
    CASE pc[r] = "signIn" -> {SignIn}
      [] pc[r] = "run" -> op[r].commands \ Answered(r)
      [] OTHER -> {}

\* BeginTx: waits for the only write connection, then holds it (immediate).
Begin(r, k) ==
    /\ k \in Pending(r)
    /\ writer = None
    /\ writer' = <<r, k>> /\ work' = db /\ verdict' = "open"
    /\ UNCHANGED <<db, request, trail, metrics>>

Running(r, k) == writer = <<r, k>> /\ verdict = "open"

\* Mutant: the notice is enqueued through the queue's own pool.
ResolveQueuesAtOnce(r, c) ==
    /\ c \in Pending(r) /\ c # SignIn
    /\ Running(r, c)
    /\ LET outcome == Resolve(work, Actor(r), c, <<r, c>>)
       IN  /\ work' = outcome.db
           /\ db' = [db EXCEPT !.jobs = outcome.db.jobs]
           /\ verdict' = outcome.verdict
           /\ Increase(outcome.counter)
    /\ UNCHANGED <<writer, request, trail>>

ResolveCommand(r, c) ==
    /\ c \in Pending(r) /\ c # SignIn
    /\ Running(r, c)
    /\ LET outcome == Resolve(work, Actor(r), c, <<r, c>>)
       IN  /\ work' = outcome.db
           /\ verdict' = outcome.verdict
           /\ Increase(outcome.counter)
    /\ UNCHANGED <<db, writer, request, trail>>

ResolveSignIn(r) ==
    /\ Running(r, SignIn)
    /\ LET outcome == SignInByOIDC(work, Actor(r), token[r].email, token[r].iat)
       IN  work' = outcome.db /\ verdict' = outcome.verdict
    /\ UNCHANGED <<db, writer, request, trail, metrics>>

\* A nil error commits, also when the payload is a refusal.
CommitCommand(r, c) ==
    /\ c \in Pending(r) /\ c # SignIn
    /\ writer = <<r, c>>
    /\ verdict \in {"ok", "refused"}
    /\ db' = work
    /\ Release
    /\ Reply(r, c, verdict)
    /\ UNCHANGED <<token, op, isAdmin, buffer, trail, metrics>>

CommitSignIn(r) ==
    /\ writer = <<r, SignIn>>
    /\ verdict = "ok"
    /\ db' = work
    /\ Release
    /\ isAdmin' = [isAdmin EXCEPT ![r] = Actor(r) \in work.admins]
    /\ Increase("signIns")
    /\ WriteAudit(r, "sign-in")
    /\ Goto(r, "serve")
    /\ UNCHANGED <<token, op, answers, trail>>

\* Mutant: a failed sign-in is answered like a failed field.
GiveUpAsField(r, k) ==
    /\ Reply(r, k, "error")
    /\ UNCHANGED <<db, token, op, isAdmin, buffer, trail, metrics>>

\* What a transaction that did not commit leaves its request with: an error in
\* the field's place, or a 500 when it was the sign-in.
GiveUp(r, k) ==
    /\ IF k = SignIn THEN Goto(r, "failed") /\ UNCHANGED answers
       ELSE Reply(r, k, "error")
    /\ UNCHANGED <<db, token, op, isAdmin, buffer, trail, metrics>>

\* Mutant: no deferred Rollback, the connection is never given back.
RollbackLeaks(r, k) ==
    /\ writer = <<r, k>>
    /\ verdict = "error"
    /\ GiveUp(r, k)
    /\ UNCHANGED transaction

\* The deferred Rollback after the case returned an error.
Rollback(r, k) ==
    /\ writer = <<r, k>>
    /\ verdict = "error"
    /\ GiveUp(r, k)
    /\ Release

\* A statement or the commit fails, wherever the transaction is.
TxFails(r, k) ==
    /\ "tx" \in Faults
    /\ writer = <<r, k>>
    /\ GiveUp(r, k)
    /\ Release

\* BeginTx itself fails.
BeginFails(r, k) ==
    /\ "tx" \in Faults
    /\ k \in Pending(r)
    /\ writer # <<r, k>>
    /\ GiveUp(r, k)
    /\ UNCHANGED transaction

-----------------------------------------------------------------------------
\* flushAudit, entry by entry on the write connection, after the response.

Flushed(r) ==
    Return(r, Tail(buffer[r]))

FlushAudit(r) ==
    /\ pc[r] = "flush"
    /\ writer = None
    /\ auditLog' = auditLog \cup {[req |-> r, action |-> Head(buffer[r])]}
    /\ Flushed(r)
    /\ UNCHANGED <<db, transaction, token, op, isAdmin, answers, dropped, metrics>>

\* Mutant: the first failure ends the flush.
FlushStops(r) ==
    /\ "audit" \in Faults
    /\ pc[r] = "flush"
    /\ dropped' = dropped \cup {[req |-> r, action |-> Head(buffer[r])]}
    /\ Return(r, <<>>)
    /\ UNCHANGED <<db, transaction, token, op, isAdmin, answers, auditLog, metrics>>

\* Logged, never returned; the next entry is still tried.
FlushFails(r) ==
    /\ "audit" \in Faults
    /\ pc[r] = "flush"
    /\ dropped' = dropped \cup {[req |-> r, action |-> Head(buffer[r])]}
    /\ Flushed(r)
    /\ UNCHANGED <<db, transaction, token, op, isAdmin, answers, auditLog, metrics>>

\* The process dies with requests in flight and is started again: SQLite rolls
\* the open transaction back, buffers and counters are gone.
Crash ==
    /\ "crash" \in Faults
    /\ \E r \in Requests : pc[r] \in InFlight
    /\ pc' = [r \in Requests |-> IF pc[r] \in InFlight THEN "lost" ELSE pc[r]]
    /\ dropped' = dropped \cup {e \in Rows : Buffered(e.req, e.action)}
    /\ buffer' = [r \in Requests |-> <<>>]
    /\ metrics' = [c \in Counters |-> 0]
    /\ UNCHANGED db
    /\ Release
    /\ UNCHANGED <<token, op, isAdmin, answers, auditLog>>

-----------------------------------------------------------------------------
Arrive(r) ==
    \E t \in Tokens, o \in Operations :
        \/ RefuseUnidentified(r, t, o)
        \/ RefuseBanned(r, t, o)
        \/ IdentityFails(r, t, o)
        \/ Admit(r, t, o)
        \/ Meet(r, t, o)

\* The steps the server takes for a request once it has arrived.
Step(r) ==
    \/ MarkSignIn(r)
    \/ Viewer(r) \/ SignOut(r) \/ DenyAdmin(r) \/ AdminQuery(r) \/ AdminMutation(r)
    \/ ResolveSignIn(r) \/ CommitSignIn(r)
    \/ \E k \in Pending(r) : \/ Begin(r, k)
                             \/ ResolveCommand(r, k)
                             \/ CommitCommand(r, k)
                             \/ Rollback(r, k)
    \/ FlushAudit(r)

Fault(r) ==
    \/ MarkFails(r)
    \/ \E k \in Pending(r) : TxFails(r, k) \/ BeginFails(r, k)
    \/ FlushFails(r)

Next == (\E r \in Requests : Arrive(r) \/ Step(r) \/ Fault(r)) \/ Crash

Spec == Init /\ [][Next]_vars

\* Once a request has arrived its goroutine runs, and a waiter for the write
\* connection gets it after the holders before it.  Clients owe nothing.
FairSpec == Spec /\ \A r \in Requests : WF_vars(Step(r))
-----------------------------------------------------------------------------
\* Properties.

\* A write transaction sees the tables of its BeginTx until it ends: while
\* somebody holds the only write connection of internal/db/setup.go, nobody
\* else's write (another command, a sign-in mark) reaches the file.
OneWriter == [][writer # None /\ writer' = writer => db' = db]_vars

\* However two or more removeAdmin requests overlap, with identities read before
\* each other's commits, an installation that has an admin keeps one: the count
\* is inside the delete statement.
AdminsNeverEmptied == [][db.admins # {} => db'.admins # {}]_vars

\* A sole admin is never banned.  removeAdmin does not look at bans and banUser
\* does not look at admins; it is the foreign key from a ban to its banner, with
\* the refusal to ban oneself, that keeps an unbanned admin in the table.
SoleAdminNotBanned == \A u \in Users : db.admins = {u} => BanReason(db, u) = 0

\* Nobody who is banned becomes an admin, whether the ban and the grant race or
\* the grant is the bootstrap rule of a first sign-in, which checks no ban.
NoBannedPromotion ==
    [][\A u \in db'.admins \ db.admins : BanReason(db, u) = 0]_vars

\* The admins table grows by a makeAdmin of a request that read its caller as an
\* admin, or by the bootstrap rule while the table is empty: several first
\* sign-ins in flight with the bootstrap address promote one of them.
AdminsGrowByGrant ==
    [][\A u \in db'.admins \ db.admins :
          \/ db.admins = {} /\ db'.admins = {u}
          \/ \E r \in Requests :
                isAdmin[r] /\ writer = <<r, [kind |-> "make", target |-> u]>>]_vars

\* Every ban row keeps its owner out: the identity lookup reads an empty reason
\* as "not banned", so no command may store one.
BansBite == \A u \in Users : db.bans[u] # None => BanReason(db, u) # 0

\* A notice is queued for exactly the bans that committed, whatever rolls back,
\* fails or crashes between the insert, the enqueue and the commit.
NoticeIffBan ==
    {j.id : j \in db.jobs} =
        {b \in Requests \X Commands :
            b[2].kind = "ban" /\ [cmd |-> b[2], verdict |-> "ok"] \in answers[b[1]]}

\* What an over-and-done request owes the audit log.
Owed(r) ==
    CASE op[r].kind = "signOut" -> {"sign-out"}
      [] op[r].kind = "adminMutation" /\ isAdmin[r] -> {"mutation"}
      [] op[r].kind \in {"adminQuery", "adminMutation"} /\ ~isAdmin[r] -> {"denied"}
      [] OTHER -> {}

\* A request that ended leaves its row (or a logged failure to write it), also
\* when its commands were refused, failed or rolled back; and a caller who was
\* denied ran no command.
AuditComplete ==
    \A r \in Requests : pc[r] = "done" =>
        /\ \A a \in Owed(r) : [req |-> r, action |-> a] \in auditLog \cup dropped
        /\ "denied" \in Owed(r) => answers[r] = {}

Recorded(r) ==
    Buffered(r, "sign-in") \/ [req |-> r, action |-> "sign-in"] \in auditLog \cup dropped

\* Two requests of one person with one token, each recorded as a sign-in.
RecordedTwice(r, q) ==
    /\ r # q /\ Recorded(r) /\ Recorded(q)
    /\ token[r].sub = token[q].sub /\ token[r].iat = token[q].iat

\* Requests carrying the same new token of somebody who has an account record one
\* sign-in between them, though each compared the iat with a row read before the
\* others wrote.  (Somebody's very first requests are another matter: see
\* PanelClaims.)
SignInOnce ==
    \A r, q \in Requests :
        RecordedTwice(r, q) => \E d \in Databases : d.users[token[r].sub] = None

\* last_signin_at moves forward in whatever order requests with older and newer
\* tokens reach the database, except by the upsert of a first sign-in that was
\* already under way, and an account is never lost.
SignInNeverRegresses ==
    [][\A u \in Users : db.users[u] # None =>
          /\ db'.users[u] # None
          /\ \/ db'.users[u].signin >= db.users[u].signin
             \/ \E r \in Requests : writer = <<r, SignIn>> /\ Actor(r) = u]_vars

\* Every request that arrived gets its answer and its audit entries written or
\* given up: no transaction, rolled back or not, keeps the write connection.
RequestAnswered == \A r \in Requests : pc[r] \in InFlight ~> pc[r] \in Over

-----------------------------------------------------------------------------
\* The atomic view of the panel: the committed tables, and each request in
\* flight as the person it was read as.
Session(r) ==
    CASE pc[r] = "signIn" -> [state |-> "new", user |-> Actor(r)]
      [] pc[r] \in InFlight \ {"signIn"} ->
            [state |-> "in", user |-> Actor(r), admin |-> isAdmin[r]]
      [] OTHER -> [state |-> "out"]

Promise == INSTANCE Access WITH
    known <- {u \in Users : db.users[u] # None},
    admins <- db.admins,
    banner <- [u \in Users |-> IF db.bans[u] = None THEN None ELSE db.bans[u].by],
    session <- [r \in Requests |-> Session(r)]

\* Commands take effect one at a time, at their commit, with the authority their
\* request was read with: transactions, the write connection, faults and crashes
\* add no behaviour to the atomic specification.
ImplementsAccess == Promise!Spec
=============================================================================
