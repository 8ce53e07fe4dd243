---------------------------- MODULE AccessProofs ----------------------------
(***************************************************************************)
(* What follows from transactions being isolated: Isolated says that the   *)
(* outcome inside the open transaction is the outcome of its case on the   *)
(* committed tables as they are now, so that a commit is the whole case    *)
(* done at once.  With it the notices, the admins and the sign-ins are     *)
(* matters of single statements and cases, and so is the refinement, in    *)
(* the second half: every step of the panel is a step of Access or nothing *)
(* Access can see.  Handled gives a case the authority its request was     *)
(* read with; Sound is why a ban without a reason cannot let anybody in.   *)
(***************************************************************************)
EXTENDS PanelProofs

CommandOutcome(r, c) == Resolve(db, Actor(r), c, <<r, c>>)
SignInOutcome(r) == SignInByOIDC(db, Actor(r), token[r].email, token[r].iat)

Isolated ==
    /\ writer = None => verdict = "open"
    /\ verdict = "open" => work = db
    /\ \A r \in Requests : writer = <<r, SignIn>> /\ verdict # "open" =>
          work = SignInOutcome(r).db /\ verdict = SignInOutcome(r).verdict
    /\ \A r \in Requests, c \in Commands : writer = <<r, c>> /\ verdict # "open" =>
          work = CommandOutcome(r, c).db /\ verdict = CommandOutcome(r, c).verdict

\* Nothing but a commit and a sign-in mark changes the tables, the mark only
\* while nobody holds the connection.
LEMMA IsolatedAside ==
    ASSUME Typing, Isolated, UNCHANGED <<db, transaction>>,
           \A q \in Requests : pc[q] # "idle" => token'[q] = token[q]
    PROVE  Isolated'
  <1>. USE DEF transaction
  <1>1. \A r \in Requests, k \in Work : writer = <<r, k>> => token'[r] = token[r]
    <2>. SUFFICES ASSUME NEW r \in Requests, NEW k \in Work, writer = <<r, k>>
                  PROVE  token'[r] = token[r]
      OBVIOUS
    <2>1. pc[r] # "idle"
      BY PendingTyped DEF Typing, WriterIsPending
    <2>. QED BY <2>1
  <1>2. \A r \in Requests, c \in Commands : writer = <<r, c>> =>
           CommandOutcome(r, c)' = CommandOutcome(r, c)
    BY <1>1 DEF CommandOutcome, Actor, Work
  <1>3. \A r \in Requests : writer = <<r, SignIn>> => SignInOutcome(r)' = SignInOutcome(r)
    BY <1>1 DEF SignInOutcome, Actor, Work
  <1>. QED BY <1>2, <1>3 DEF Isolated

\* The case runs on the committed tables.
LEMMA IsolatedCase ==
    ASSUME Typing, Isolated, NEW r \in Requests,
           ResolveSignIn(r) \/ \E k \in Pending(r) : ResolveCommand(r, k)
    PROVE  Isolated'
  <1>1. CASE ResolveSignIn(r)
    <2>1. /\ UNCHANGED <<db, writer, token>> /\ writer = <<r, SignIn>> /\ writer # None /\ work = db
          /\ work' = SignInOutcome(r).db /\ verdict' = SignInOutcome(r).verdict
      BY <1>1, WriterNotNone DEF ResolveSignIn, Running, Isolated, SignInOutcome, request, Work
    <2>2. pc[r] = "signIn"
      BY <2>1, PendingTyped DEF Typing, WriterIsPending, Work
    <2>3. verdict' # "open"
      BY <2>1, <2>2, ActorTyped, SignInTyped DEF SignInOutcome, Verdicts, Typing, TypeOK
    <2>4. SignInOutcome(r)' = SignInOutcome(r)
      BY <2>1 DEF SignInOutcome, Actor
    <2>5. \A q \in Requests : writer' = <<q, SignIn>> => q = r
      BY <2>1
    <2>6. \A q \in Requests, c \in Commands : writer' # <<q, c>>
      BY <2>1, SignInIsNoCommand
    <2>. QED BY <2>1, <2>3, <2>4, <2>5, <2>6 DEF Isolated
  <1>2. ASSUME NEW k \in Pending(r), ResolveCommand(r, k)
        PROVE  Isolated'
    <2>0. k \in Commands /\ pc[r] = "run"
      BY <1>2, PendingTyped DEF ResolveCommand
    <2>1. /\ UNCHANGED <<db, writer, token>> /\ writer = <<r, k>> /\ writer # None /\ work = db
          /\ work' = CommandOutcome(r, k).db /\ verdict' = CommandOutcome(r, k).verdict
      BY <1>2, <2>0, WriterNotNone DEF ResolveCommand, Running, Isolated, CommandOutcome, request, Work
    <2>3. verdict' # "open"
      BY <2>0, <2>1, ActorTyped, ResolveTyped DEF CommandOutcome, Verdicts, Typing, TypeOK
    <2>4. CommandOutcome(r, k)' = CommandOutcome(r, k)
      BY <2>1 DEF CommandOutcome, Actor
    <2>5. \A q \in Requests, c \in Commands : writer' = <<q, c>> => q = r /\ c = k
      BY <2>1
    <2>6. \A q \in Requests : writer' # <<q, SignIn>>
      BY <2>0, <2>1, SignInIsNoCommand
    <2>. QED BY <2>1, <2>3, <2>4, <2>5, <2>6 DEF Isolated
  <1>. QED BY <1>1, <1>2

\* A transaction that begins or ends sees the committed tables.
LEMMA IsolatedLevel ==
    ASSUME work' = db', verdict' = "open"
    PROVE  Isolated'
  BY DEF Isolated

LEMMA IsolatedNext ==
    ASSUME Typing, Isolated, [Next]_vars
    PROVE  Isolated'
  <1>1. CASE UNCHANGED vars
    BY <1>1, IsolatedAside DEF vars, transaction
  <1>2. CASE Crash
    BY <1>2, IsolatedLevel DEF Crash, Release
  <1>3. ASSUME NEW r \in Requests,
               \/ Arrive(r) \/ MarkFails(r)
               \/ Viewer(r) \/ SignOut(r) \/ DenyAdmin(r) \/ AdminQuery(r) \/ AdminMutation(r)
               \/ \E k \in Pending(r) : BeginFails(r, k)
               \/ FlushAudit(r) \/ FlushFails(r)
        PROVE  Isolated'
    <2>1. UNCHANGED <<db, transaction>>
      BY <1>3 DEF Arrive, RefuseUnidentified, RefuseBanned, IdentityFails, Admit, Meet, Arrival,
             MarkFails, Viewer, SignOut, DenyAdmin, AdminQuery, AdminMutation, BeginFails, GiveUp,
             FlushAudit, FlushFails
    <2>2. CASE Arrive(r)
      <3>1. PICK t \in Tokens : pc[r] = "idle" /\ token' = [token EXCEPT ![r] = t]
        BY <2>2 DEF Arrive, RefuseUnidentified, RefuseBanned, IdentityFails, Admit, Meet, Arrival
      <3>. QED BY <2>1, <3>1, IsolatedAside DEF Typing, TypeOK
    <2>3. CASE ~Arrive(r)
      <3>1. token' = token
        BY <1>3, <2>3 DEF MarkFails, Viewer, SignOut, DenyAdmin, AdminQuery, AdminMutation,
               BeginFails, GiveUp, FlushAudit, FlushFails
      <3>. QED BY <2>1, <3>1, IsolatedAside
    <2>. QED BY <2>2, <2>3
  <1>4. ASSUME NEW r \in Requests, MarkSignIn(r)
        PROVE  Isolated'
    BY <1>4, IsolatedLevel DEF MarkSignIn, Isolated
  <1>5. ASSUME NEW r \in Requests,
               \/ CommitSignIn(r)
               \/ \E k \in Pending(r) : Begin(r, k) \/ CommitCommand(r, k) \/ Rollback(r, k) \/ TxFails(r, k)
        PROVE  Isolated'
    BY <1>5, IsolatedLevel DEF CommitSignIn, Begin, CommitCommand, Rollback, TxFails, GiveUp, Release
  <1>. QED BY <1>1, <1>2, <1>3, <1>4, <1>5, IsolatedCase DEF Next, Step, Fault

LEMMA IsolatedInit == Init => Isolated
  BY DEF Init, Isolated

-----------------------------------------------------------------------------
\* Only a ban that is answered "ok" leaves a message, and leaves one.
LEMMA NoticeOfOutcome ==
    ASSUME NEW d \in Tables, NEW actor \in Users, NEW c \in Commands, NEW id \in Requests \X Commands
    PROVE  LET o == Resolve(d, actor, c, id)
           IN  IF c.kind = "ban" /\ o.verdict = "ok"
               THEN o.db.jobs = d.jobs \cup {[id |-> id, to |-> c.target]}
               ELSE o.db.jobs = d.jobs
  <1>. USE DEF Done, Refused, Failed
  <1>0. d = [users |-> d.users, admins |-> d.admins, bans |-> d.bans, jobs |-> d.jobs]
    BY DEF Tables
  <1>1. CASE c.kind = "ban"
    <2>1. Resolve(d, actor, c, id) = BanUser(d, actor, c, id)
      BY <1>1 DEF Resolve
    <2>. DEFINE banned == DBInsertUserBan(d, c.target, actor, TrimSpace(c.reason))
    <2>2. banned.jobs = d.jobs
      BY <1>0 DEF DBInsertUserBan
    <2>3. EnqueueUserBannedNotice(banned, id, c.target).jobs = banned.jobs \cup {[id |-> id, to |-> c.target]}
      <3>1. DOMAIN banned = {"users", "admins", "bans", "jobs"}
        BY <1>0 DEF DBInsertUserBan
      <3>. HIDE DEF banned
      <3>. QED BY <3>1 DEF EnqueueUserBannedNotice
    <2>4. BanUser(d, actor, c, id) =
             IF BanRefused(d, actor, c) THEN Refused(d)
             ELSE IF BanViolatesForeignKey(d, c.target, actor) THEN Failed(d)
             ELSE Done(EnqueueUserBannedNotice(banned, id, c.target), "banned")
      BY DEF BanUser
    <2>. HIDE DEF banned
    <2>. QED BY <1>1, <2>1, <2>2, <2>3, <2>4
  <1>2. CASE c.kind = "unban"
    BY <1>0, <1>2 DEF Resolve, UnbanUser, DBDeleteUserBan
  <1>3. CASE c.kind = "make"
    BY <1>0, <1>3 DEF Resolve, MakeAdmin, DBInsertAdmin
  <1>4. CASE c.kind = "remove"
    BY <1>0, <1>4 DEF Resolve, RemoveAdmin, DBDeleteAdmin
  <1>. QED BY <1>1, <1>2, <1>3, <1>4, CommandShape

LEMMA NoticeOfSignIn ==
    ASSUME NEW d \in Tables, NEW u \in Users, NEW email \in RawEmail, NEW iat \in Nat
    PROVE  SignInByOIDC(d, u, email, iat).db.jobs = d.jobs
  <1>. DEFINE e == DBUpsertUserByOIDC(d, u, Normalise(email), iat)
  <1>1. e.jobs = d.jobs /\ DOMAIN e = {"users", "admins", "bans", "jobs"}
    BY DEF DBUpsertUserByOIDC, Tables
  <1>2. EnsureAdmin(e, u, Normalise(email)).jobs = d.jobs
    <2>. HIDE DEF e
    <2>. QED BY <1>1 DEF EnsureAdmin, DBInsertAdmin
  <1>. QED BY <1>2 DEF SignInByOIDC, Done, Failed

\* The bans that were answered "ok".
BansDone ==
    {b \in Requests \X Commands :
        b[2].kind = "ban" /\ [cmd |-> b[2], verdict |-> "ok"] \in answers[b[1]]}

\* An answer that is no "ok" to a ban changes nothing of it.
LEMMA ReplyDone ==
    ASSUME Typing, NEW r \in Requests, NEW c \in Commands, NEW v \in Verdicts, Reply(r, c, v)
    PROVE  BansDone' = BansDone \cup (IF c.kind = "ban" /\ v = "ok" THEN {<<r, c>>} ELSE {})
  <1>1. answers' = [answers EXCEPT ![r] = @ \cup {[cmd |-> c, verdict |-> v]}]
    BY DEF Reply
  <1>2. ASSUME NEW b \in Requests \X Commands
        PROVE  [cmd |-> b[2], verdict |-> "ok"] \in answers'[b[1]] <=>
                  [cmd |-> b[2], verdict |-> "ok"] \in answers[b[1]] \/ (b = <<r, c>> /\ v = "ok")
    BY <1>1 DEF Typing, TypeOK
  <1>. QED BY <1>2 DEF BansDone

LEMMA GiveUpDone ==
    ASSUME Typing, NEW r \in Requests, NEW k \in Pending(r), GiveUp(r, k)
    PROVE  BansDone' = BansDone
  <1>1. CASE k = SignIn
    BY <1>1 DEF GiveUp, BansDone
  <1>2. CASE k # SignIn
    <2>1. k \in Commands /\ Reply(r, k, "error")
      BY <1>2, PendingTyped DEF GiveUp
    <2>. QED BY <2>1, ReplyDone DEF Verdicts
  <1>. QED BY <1>1, <1>2

LEMMA NoticeNext ==
    ASSUME Typing, Isolated, NoticeIffBan, [Next]_vars
    PROVE  NoticeIffBan'
  <1>. USE DEF NoticeIffBan
  <1>0. {j.id : j \in db.jobs} = BansDone
    BY DEF BansDone
  <1>1. ASSUME db'.jobs = db.jobs, BansDone' = BansDone
        PROVE  NoticeIffBan'
    BY <1>0, <1>1 DEF BansDone
  <1>2. ASSUME NEW r \in Requests, NEW k \in Pending(r), CommitCommand(r, k)
        PROVE  NoticeIffBan'
    <2>1. /\ k \in Commands /\ pc[r] = "run" /\ writer = <<r, k>> /\ verdict \in {"ok", "refused"}
          /\ db' = work /\ Reply(r, k, verdict)
      BY <1>2, PendingTyped DEF CommitCommand
    <2>2. db' = CommandOutcome(r, k).db /\ verdict = CommandOutcome(r, k).verdict
      BY <2>1 DEF Isolated
    <2>3. IF k.kind = "ban" /\ verdict = "ok"
          THEN db'.jobs = db.jobs \cup {[id |-> <<r, k>>, to |-> k.target]}
          ELSE db'.jobs = db.jobs
      <3>1. db \in Tables /\ Actor(r) \in Users /\ <<r, k>> \in Requests \X Commands
        BY <2>1, ActorTyped DEF Typing, TypeOK
      <3>2. IF k.kind = "ban" /\ CommandOutcome(r, k).verdict = "ok"
            THEN CommandOutcome(r, k).db.jobs = db.jobs \cup {[id |-> <<r, k>>, to |-> k.target]}
            ELSE CommandOutcome(r, k).db.jobs = db.jobs
        BY <2>1, <3>1, NoticeOfOutcome DEF CommandOutcome
      <3>. QED BY <2>2, <3>2
    <2>4. BansDone' = BansDone \cup (IF k.kind = "ban" /\ verdict = "ok" THEN {<<r, k>>} ELSE {})
      BY <2>1, ReplyDone DEF Verdicts
    <2>5. {j.id : j \in db'.jobs} = BansDone'
      <3>1. CASE k.kind = "ban" /\ verdict = "ok"
        <4>. DEFINE j == [id |-> <<r, k>>, to |-> k.target]
        <4>1. db'.jobs = db.jobs \cup {j} /\ j.id = <<r, k>> /\ BansDone' = BansDone \cup {<<r, k>>}
          BY <2>3, <2>4, <3>1
        <4>. HIDE DEF j
        <4>2. {i.id : i \in db.jobs \cup {j}} = {i.id : i \in db.jobs} \cup {j.id}
          OBVIOUS
        <4>. QED BY <1>0, <4>1, <4>2
      <3>2. CASE ~(k.kind = "ban" /\ verdict = "ok")
        BY <1>0, <2>3, <2>4, <3>2
      <3>. QED BY <3>1, <3>2
    <2>. QED BY <2>5 DEF BansDone
  <1>3. ASSUME NEW r \in Requests, CommitSignIn(r)
        PROVE  NoticeIffBan'
    <2>1. pc[r] = "signIn"
      BY <1>3, PendingTyped DEF CommitSignIn, Typing, WriterIsPending, Work
    <2>2. db' = SignInOutcome(r).db /\ UNCHANGED answers
      BY <1>3 DEF CommitSignIn, Isolated
    <2>3. db'.jobs = db.jobs
      BY <2>1, <2>2, ActorTyped, NoticeOfSignIn DEF SignInOutcome, Typing, TypeOK
    <2>. QED BY <1>1, <2>2, <2>3 DEF BansDone
  <1>4. ASSUME NEW r \in Requests, MarkSignIn(r)
        PROVE  NoticeIffBan'
    <2>1. db' = db \/ db' = DBMarkSignIn(db, Actor(r), token[r].iat)
      BY <1>4 DEF MarkSignIn
    <2>2. db'.jobs = db.jobs
      BY <2>1 DEF DBMarkSignIn, Typing, TypeOK, Tables
    <2>. QED BY <1>1, <1>4, <2>2 DEF MarkSignIn, BansDone
  <1>5. ASSUME NEW r \in Requests, NEW k \in Pending(r), Rollback(r, k) \/ TxFails(r, k) \/ BeginFails(r, k)
        PROVE  NoticeIffBan'
    <2>1. GiveUp(r, k) /\ db' = db
      BY <1>5 DEF Rollback, TxFails, BeginFails, GiveUp
    <2>. QED BY <1>1, <2>1, GiveUpDone
  <1>6. CASE UNCHANGED <<db, answers>>
    BY <1>1, <1>6 DEF BansDone
  <1>7. ASSUME NEW r \in Requests,
               \/ Arrive(r) \/ MarkFails(r) \/ ResolveSignIn(r)
               \/ Viewer(r) \/ SignOut(r) \/ DenyAdmin(r) \/ AdminQuery(r) \/ AdminMutation(r)
               \/ \E k \in Pending(r) : Begin(r, k) \/ ResolveCommand(r, k)
               \/ FlushAudit(r) \/ FlushFails(r)
        PROVE  UNCHANGED <<db, answers>>
    BY <1>7 DEF Arrive, RefuseUnidentified, RefuseBanned, IdentityFails, Admit, Meet, Arrival,
       MarkFails, ResolveSignIn, Viewer, SignOut, DenyAdmin, AdminQuery, AdminMutation, Begin,
       ResolveCommand, FlushAudit, FlushFails, request
  <1>8. CASE Crash
    BY <1>6, <1>8 DEF Crash
  <1>9. CASE UNCHANGED vars
    BY <1>6, <1>9 DEF vars
  <1>. QED BY <1>2, <1>3, <1>4, <1>5, <1>6, <1>7, <1>8, <1>9 DEF Next, Step, Fault

LEMMA NoticeInit == Init => NoticeIffBan
  BY PanelAssumption DEF Init, NoticeIffBan

-----------------------------------------------------------------------------
\* What a request has buffered, as its buffer grows and shrinks.
LEMMA BufferAppend ==
    ASSUME NEW s \in Seq(AuditActions), NEW a \in AuditActions, NEW b
    PROVE  (\E i \in DOMAIN Append(s, a) : Append(s, a)[i] = b) <=>
              (\E i \in DOMAIN s : s[i] = b) \/ b = a
  <1>1. /\ Len(s) \in Nat /\ DOMAIN s = 1 .. Len(s) /\ DOMAIN Append(s, a) = 1 .. Len(s) + 1
        /\ Append(s, a)[Len(s) + 1] = a /\ \A i \in 1 .. Len(s) : Append(s, a)[i] = s[i]
    OBVIOUS
  <1>2. \A i \in 1 .. Len(s) + 1 : i \in 1 .. Len(s) \/ i = Len(s) + 1
    BY <1>1
  <1>3. \A i \in 1 .. Len(s) : i \in 1 .. Len(s) + 1
    BY <1>1
  <1>4. Len(s) + 1 \in 1 .. Len(s) + 1
    BY <1>1
  <1>. QED BY <1>1, <1>2, <1>3, <1>4

LEMMA BufferTail ==
    ASSUME NEW s \in Seq(AuditActions), s # <<>>, NEW b
    PROVE  (\E i \in DOMAIN s : s[i] = b) <=>
              b = Head(s) \/ \E i \in DOMAIN Tail(s) : Tail(s)[i] = b
  <1>1. /\ Len(s) \in Nat \ {0} /\ DOMAIN s = 1 .. Len(s) /\ DOMAIN Tail(s) = 1 .. Len(s) - 1
        /\ Head(s) = s[1] /\ \A i \in 1 .. Len(s) - 1 : Tail(s)[i] = s[i + 1]
    OBVIOUS
  <1>2. ASSUME NEW i \in DOMAIN s, s[i] = b, b # Head(s)
        PROVE  \E j \in DOMAIN Tail(s) : Tail(s)[j] = b
    <2>. DEFINE j == i - 1
    <2>1. i # 1 /\ i \in 1 .. Len(s)
      BY <1>1, <1>2
    <2>2. j \in 1 .. Len(s) - 1 /\ j + 1 = i
      BY <1>1, <2>1
    <2>3. Tail(s)[j] = s[j + 1]
      BY <1>1, <2>2
    <2>4. j \in DOMAIN Tail(s) /\ Tail(s)[j] = b
      BY <1>1, <1>2, <2>2, <2>3
    <2>. HIDE DEF j
    <2>. QED BY <2>4
  <1>3. ASSUME NEW i \in DOMAIN Tail(s), Tail(s)[i] = b
        PROVE  \E j \in DOMAIN s : s[j] = b
    <2>1. i \in 1 .. Len(s) - 1 /\ i + 1 \in 1 .. Len(s)
      BY <1>1
    <2>2. i + 1 \in DOMAIN s /\ s[i + 1] = b
      BY <1>1, <1>3, <2>1
    <2>. QED BY <2>2
  <1>4. 1 \in DOMAIN s /\ s[1] = Head(s)
    BY <1>1
  <1>. QED BY <1>2, <1>3, <1>4

\* Where a request is tells what it has answered, under whose authority, and what
\* of its entries is still to be written.
Handled(r) ==
    /\ pc[r] \in {"idle", "signIn", "mark", "serve"} => answers[r] = {}
    /\ pc[r] = "run" => op[r].kind = "adminMutation" /\ isAdmin[r]
    /\ pc[r] \in {"run", "flush", "done"} =>
          /\ \A a \in Owed(r) : Buffered(r, a) \/ [req |-> r, action |-> a] \in auditLog \cup dropped
          /\ "denied" \in Owed(r) => answers[r] = {}
    /\ pc[r] = "done" => buffer[r] = <<>>

LEMMA OwedByKind ==
    ASSUME NEW r \in Requests
    PROVE  /\ op[r].kind = "viewer" => Owed(r) = {}
           /\ op[r].kind = "signOut" => Owed(r) = {"sign-out"}
           /\ op[r].kind = "adminMutation" /\ isAdmin[r] => Owed(r) = {"mutation"}
           /\ op[r].kind = "adminQuery" /\ isAdmin[r] => Owed(r) = {}
           /\ op[r].kind \in {"adminQuery", "adminMutation"} /\ ~isAdmin[r] => Owed(r) = {"denied"}
  BY DEF Owed

\* The requests a step is not about.
LEMMA HandledFrame ==
    ASSUME NEW q \in Requests, Handled(q),
           pc'[q] = pc[q], op'[q] = op[q], isAdmin'[q] = isAdmin[q],
           answers'[q] = answers[q], buffer'[q] = buffer[q],
           auditLog \cup dropped \subseteq auditLog' \cup dropped'
    PROVE  Handled(q)'
  <1>1. Owed(q)' = Owed(q)
    BY DEF Owed
  <1>2. \A a : Buffered(q, a)' <=> Buffered(q, a)
    BY DEF Buffered
  <1>. QED BY <1>1, <1>2 DEF Handled

\* A handler returned with what its request owes.
LEMMA HandledReturn ==
    ASSUME Typing, NEW r \in Requests, NEW entries \in Seq(AuditActions), Return(r, entries),
           UNCHANGED <<op, isAdmin, answers>>,
           \A a \in Owed(r) :
              \/ \E i \in DOMAIN entries : entries[i] = a
              \/ [req |-> r, action |-> a] \in auditLog' \cup dropped',
           "denied" \in Owed(r) => answers[r] = {}
    PROVE  Handled(r)'
  <1>1. buffer'[r] = entries /\ pc'[r] = (IF entries = <<>> THEN "done" ELSE "flush")
    BY DEF Return, Goto, Typing, TypeOK
  <1>2. Owed(r)' = Owed(r)
    BY DEF Owed
  <1>3. \A a : Buffered(r, a)' <=> \E i \in DOMAIN entries : entries[i] = a
    BY <1>1 DEF Buffered
  <1>. QED BY <1>1, <1>2, <1>3 DEF Handled

LEMMA HandledServe ==
    ASSUME Typing, NEW r \in Requests, Handled(r),
           Viewer(r) \/ SignOut(r) \/ DenyAdmin(r) \/ AdminQuery(r) \/ AdminMutation(r)
    PROVE  Handled(r)'
  <1>0. pc[r] = "serve" /\ answers[r] = {} /\ buffer[r] \in Seq(AuditActions)
    BY DEF Viewer, SignOut, DenyAdmin, AdminQuery, AdminMutation, Handled, Typing, TypeOK
  <1>1. CASE Viewer(r) \/ AdminQuery(r)
    BY <1>0, <1>1, OwedByKind, HandledReturn DEF Viewer, AdminQuery
  <1>2. CASE SignOut(r)
    <2>1. "sign-out" \in AuditActions /\ Owed(r) = {"sign-out"}
      BY <1>2, OwedByKind DEF SignOut, AuditActions
    <2>2. Append(buffer[r], "sign-out") \in Seq(AuditActions)
      BY <1>0, <2>1
    <2>3. \E i \in DOMAIN Append(buffer[r], "sign-out") : Append(buffer[r], "sign-out")[i] = "sign-out"
      BY <1>0, <2>1, BufferAppend
    <2>4. Return(r, Append(buffer[r], "sign-out")) /\ UNCHANGED <<op, isAdmin, answers>>
      BY <1>2 DEF SignOut
    <2>5. \A a \in Owed(r) : \E i \in DOMAIN Append(buffer[r], "sign-out") : Append(buffer[r], "sign-out")[i] = a
      BY <2>1, <2>3
    <2>. DEFINE entries == Append(buffer[r], "sign-out")
    <2>6. entries \in Seq(AuditActions) /\ Return(r, entries)
          /\ \A a \in Owed(r) : \E i \in DOMAIN entries : entries[i] = a
      BY <2>2, <2>4, <2>5
    <2>. HIDE DEF entries
    <2>. QED BY <1>0, <2>4, <2>6, HandledReturn
  <1>3. CASE DenyAdmin(r)
    <2>1. "denied" \in AuditActions /\ Owed(r) = {"denied"}
      BY <1>3, OwedByKind DEF DenyAdmin, AuditActions
    <2>2. Append(buffer[r], "denied") \in Seq(AuditActions)
      BY <1>0, <2>1
    <2>3. \E i \in DOMAIN Append(buffer[r], "denied") : Append(buffer[r], "denied")[i] = "denied"
      BY <1>0, <2>1, BufferAppend
    <2>4. Return(r, Append(buffer[r], "denied")) /\ UNCHANGED <<op, isAdmin, answers>>
      BY <1>3 DEF DenyAdmin
    <2>5. \A a \in Owed(r) : \E i \in DOMAIN Append(buffer[r], "denied") : Append(buffer[r], "denied")[i] = a
      BY <2>1, <2>3
    <2>. DEFINE entries == Append(buffer[r], "denied")
    <2>6. entries \in Seq(AuditActions) /\ Return(r, entries)
          /\ \A a \in Owed(r) : \E i \in DOMAIN entries : entries[i] = a
      BY <2>2, <2>4, <2>5
    <2>. HIDE DEF entries
    <2>. QED BY <1>0, <2>4, <2>6, HandledReturn
  <1>4. CASE AdminMutation(r)
    <2>1. "mutation" \in AuditActions /\ Owed(r) = {"mutation"} /\ Owed(r)' = Owed(r)
      BY <1>4, OwedByKind DEF AdminMutation, AuditActions, Owed
    <2>2. /\ buffer'[r] = Append(buffer[r], "mutation") /\ pc'[r] \in {"run", "flush"}
          /\ op'[r].kind = "adminMutation" /\ isAdmin'[r]
      BY <1>4 DEF AdminMutation, WriteAudit, Goto, Typing, TypeOK
    <2>3. Buffered(r, "mutation")'
      BY <1>0, <2>1, <2>2, BufferAppend DEF Buffered
    <2>. QED BY <2>1, <2>2, <2>3 DEF Handled
  <1>. QED BY <1>1, <1>2, <1>3, <1>4

LEMMA HandledFlush ==
    ASSUME Typing, NEW r \in Requests, Handled(r), FlushAudit(r) \/ FlushFails(r)
    PROVE  Handled(r)'
  <1>1. pc[r] = "flush" /\ buffer[r] \in Seq(AuditActions) /\ buffer[r] # <<>>
    BY DEF FlushAudit, FlushFails, Typing, TypeOK, EntriesHeld
  <1>2. /\ Tail(buffer[r]) \in Seq(AuditActions) /\ Return(r, Tail(buffer[r]))
        /\ UNCHANGED <<op, isAdmin, answers>>
        /\ auditLog' \cup dropped' = auditLog \cup dropped \cup {[req |-> r, action |-> Head(buffer[r])]}
    BY <1>1 DEF FlushAudit, FlushFails, Flushed
  <1>3. \A a \in Owed(r) : Buffered(r, a) \/ [req |-> r, action |-> a] \in auditLog \cup dropped
    BY <1>1 DEF Handled
  <1>4. \A a : Buffered(r, a) <=> a = Head(buffer[r]) \/ \E i \in DOMAIN Tail(buffer[r]) : Tail(buffer[r])[i] = a
    BY <1>1, BufferTail DEF Buffered
  <1>5. "denied" \in Owed(r) => answers[r] = {}
    BY <1>1 DEF Handled
  <1>. QED BY <1>2, <1>3, <1>4, <1>5, HandledReturn

\* A request that runs commands owes its one entry, whatever they answer.
LEMMA HandledReply ==
    ASSUME Typing, NEW r \in Requests, Handled(r), pc[r] = "run", NEW c, NEW v, Reply(r, c, v),
           UNCHANGED <<op, isAdmin, buffer, auditLog, dropped>>
    PROVE  Handled(r)'
  <1>1. Owed(r) = {"mutation"} /\ Owed(r)' = Owed(r)
    BY OwedByKind DEF Handled, Owed
  <1>2. pc'[r] \in {"run", "flush"} /\ (Buffered(r, "mutation")' <=> Buffered(r, "mutation"))
    BY DEF Reply, Goto, Typing, TypeOK, Buffered
  <1>. QED BY <1>1, <1>2 DEF Handled

LEMMA HandledGiveUp ==
    ASSUME Typing, NEW r \in Requests, Handled(r), NEW k \in Pending(r), GiveUp(r, k)
    PROVE  Handled(r)'
  <1>1. CASE k = SignIn
    BY <1>1 DEF GiveUp, Goto, Handled, Typing, TypeOK
  <1>2. CASE k # SignIn
    BY <1>2, PendingTyped, HandledReply DEF GiveUp, trail
  <1>. QED BY <1>1, <1>2

\* The steps of one request leave the others as they are.
LEMMA OneAtATime ==
    ASSUME Typing, NEW r \in Requests, Arrive(r) \/ Step(r) \/ Fault(r), NEW q \in Requests \ {r}
    PROVE  /\ pc'[q] = pc[q] /\ op'[q] = op[q] /\ isAdmin'[q] = isAdmin[q] /\ token'[q] = token[q]
           /\ answers'[q] = answers[q] /\ buffer'[q] = buffer[q]
           /\ auditLog \subseteq auditLog' /\ dropped \subseteq dropped'
  <1>. USE DEF Typing, TypeOK, Goto, trail
  <1>1. CASE Arrive(r)
    BY <1>1 DEF Arrive, RefuseUnidentified, RefuseBanned, IdentityFails, Admit, Meet, Arrival
  <1>2. CASE MarkSignIn(r) \/ MarkFails(r)
    BY <1>2 DEF MarkSignIn, MarkFails, WriteAudit
  <1>3. CASE Viewer(r) \/ SignOut(r) \/ DenyAdmin(r) \/ AdminQuery(r) \/ AdminMutation(r)
    BY <1>3 DEF Viewer, SignOut, DenyAdmin, AdminQuery, AdminMutation, Return, WriteAudit
  <1>4. CASE ResolveSignIn(r) \/ \E k \in Pending(r) : Begin(r, k) \/ ResolveCommand(r, k)
    BY <1>4 DEF ResolveSignIn, Begin, ResolveCommand, request
  <1>5. CASE CommitSignIn(r) \/ \E k \in Pending(r) : CommitCommand(r, k)
    BY <1>5 DEF CommitSignIn, CommitCommand, WriteAudit, Reply
  <1>6. CASE \E k \in Pending(r) : Rollback(r, k) \/ TxFails(r, k) \/ BeginFails(r, k)
    BY <1>6 DEF Rollback, TxFails, BeginFails, GiveUp, Reply
  <1>7. CASE FlushAudit(r) \/ FlushFails(r)
    BY <1>7 DEF FlushAudit, FlushFails, Flushed, Return
  <1>. QED BY <1>1, <1>2, <1>3, <1>4, <1>5, <1>6, <1>7 DEF Step, Fault

LEMMA HandledNext ==
    ASSUME Typing, \A r \in Requests : Handled(r), [Next]_vars
    PROVE  \A r \in Requests : Handled(r)'
  <1>1. ASSUME NEW r \in Requests, Arrive(r) \/ Step(r) \/ Fault(r), NEW q \in Requests
        PROVE  Handled(q)'
    <2>1. CASE q # r
      BY <1>1, <2>1, OneAtATime, HandledFrame
    <2>2. CASE q = r
      <3>. USE DEF Typing, TypeOK, Goto
      <3>1. CASE Arrive(r)
        BY <3>1, <2>2 DEF Arrive, RefuseUnidentified, RefuseBanned, IdentityFails, Admit, Meet, Arrival, Handled
      <3>2. CASE MarkSignIn(r) \/ MarkFails(r)
        BY <3>2, <2>2 DEF MarkSignIn, MarkFails, Handled
      <3>3. CASE Viewer(r) \/ SignOut(r) \/ DenyAdmin(r) \/ AdminQuery(r) \/ AdminMutation(r)
        BY <3>3, <2>2, HandledServe
      <3>4. CASE ResolveSignIn(r) \/ \E k \in Pending(r) : Begin(r, k) \/ ResolveCommand(r, k)
        <4>1. UNCHANGED <<request, trail>>
          BY <3>4 DEF ResolveSignIn, Begin, ResolveCommand
        <4>. QED BY <2>2, <4>1, HandledFrame DEF request, trail
      <3>5. CASE CommitSignIn(r)
        <4>1. pc[r] = "signIn"
          BY <3>5, PendingTyped DEF CommitSignIn, WriterIsPending, Work
        <4>. QED BY <2>2, <3>5, <4>1 DEF CommitSignIn, Handled
      <3>6. ASSUME NEW k \in Pending(r), CommitCommand(r, k)
            PROVE  Handled(r)'
        BY <3>6, PendingTyped, HandledReply DEF CommitCommand, trail
      <3>7. ASSUME NEW k \in Pending(r), Rollback(r, k) \/ TxFails(r, k) \/ BeginFails(r, k)
            PROVE  Handled(r)'
        BY <3>7, HandledGiveUp DEF Rollback, TxFails, BeginFails
      <3>8. CASE FlushAudit(r) \/ FlushFails(r)
        BY <2>2, <3>8, HandledFlush
      <3>. QED BY <1>1, <2>2, <3>1, <3>2, <3>3, <3>4, <3>5, <3>6, <3>7, <3>8 DEF Step, Fault
    <2>. QED BY <2>1, <2>2
  <1>2. ASSUME Crash, NEW q \in Requests
        PROVE  Handled(q)'
    <2>1. CASE pc[q] \in InFlight
      BY <1>2, <2>1 DEF Crash, Handled, InFlight
    <2>2. CASE pc[q] \notin InFlight
      <3>1. /\ pc'[q] = pc[q] /\ op'[q] = op[q] /\ isAdmin'[q] = isAdmin[q] /\ answers'[q] = answers[q]
            /\ auditLog \cup dropped \subseteq auditLog' \cup dropped' /\ buffer'[q] = <<>>
        BY <1>2, <2>2 DEF Crash
      <3>2. pc[q] = "done" => buffer'[q] = buffer[q]
        BY <3>1 DEF Handled
      <3>3. pc[q] # "done" => pc'[q] \notin {"run", "flush", "done"}
        BY <2>2, <3>1 DEF InFlight
      <3>4. CASE pc[q] = "done"
        BY <3>1, <3>2, <3>4, HandledFrame
      <3>5. CASE pc[q] # "done"
        BY <3>1, <3>3, <3>5 DEF Handled
      <3>. QED BY <3>4, <3>5
    <2>. QED BY <2>1, <2>2
  <1>3. CASE UNCHANGED vars
    BY <1>3, HandledFrame DEF vars
  <1>. QED BY <1>1, <1>2, <1>3 DEF Next

LEMMA HandledInit == Init => \A r \in Requests : Handled(r)
  BY DEF Init, Handled

LEMMA HandledAudit == (\A r \in Requests : Handled(r)) => AuditComplete
  BY DEF Handled, AuditComplete, Buffered

-----------------------------------------------------------------------------
\* What the steps that write the tables make of the admins.
LEMMA ResolveGrows ==
    ASSUME NEW d \in Tables, NEW actor \in Users, NEW c \in Commands, NEW id \in Requests \X Commands,
           NEW u \in Resolve(d, actor, c, id).db.admins \ d.admins
    PROVE  c = [kind |-> "make", target |-> u]
  <1>. USE DEF Done, Refused, Failed, Tables
  <1>1. CASE c.kind = "ban"
    BY <1>1 DEF Resolve, BanUser, DBInsertUserBan, EnqueueUserBannedNotice
  <1>2. CASE c.kind = "unban"
    BY <1>2 DEF Resolve, UnbanUser, DBDeleteUserBan
  <1>3. CASE c.kind = "make"
    <2>1. u = c.target
      BY <1>3 DEF Resolve, MakeAdmin, DBInsertAdmin
    <2>2. c \in [kind : {"unban", "make", "remove"}, target : Users \cup {None}]
      BY <1>3 DEF Commands
    <2>. QED BY <1>3, <2>1, <2>2
  <1>4. CASE c.kind = "remove"
    BY <1>4 DEF Resolve, RemoveAdmin, DBDeleteAdmin
  <1>. QED BY <1>1, <1>2, <1>3, <1>4, CommandShape

LEMMA SignInGrows ==
    ASSUME NEW d \in Tables, NEW u \in Users, NEW email \in RawEmail, NEW iat \in Nat
    PROVE  LET e == SignInByOIDC(d, u, email, iat).db
           IN  e.admins = d.admins \/ (d.admins = {} /\ e.admins = {u})
  <1>. DEFINE core == Normalise(email)
              upserted == DBUpsertUserByOIDC(d, u, core, iat)
  <1>1. upserted.admins = d.admins /\ DOMAIN upserted = {"users", "admins", "bans", "jobs"}
    BY DEF DBUpsertUserByOIDC, Tables
  <1>2. LET e == EnsureAdmin(upserted, u, core)
        IN  e.admins = d.admins \/ (d.admins = {} /\ e.admins = {u})
    <2>. HIDE DEF upserted
    <2>. QED BY <1>1 DEF EnsureAdmin, Promotes, DBInsertAdmin
  <1>. QED BY <1>2 DEF SignInByOIDC, Done, Failed

\* What AdminsGrowByGrant asks of a single step.
GrantStep ==
    \A u \in db'.admins \ db.admins :
        \/ db.admins = {} /\ db'.admins = {u}
        \/ \E r \in Requests :
              isAdmin[r] /\ writer = <<r, [kind |-> "make", target |-> u]>>

LEMMA GrantNext ==
    ASSUME Typing, Isolated, \A r \in Requests : Handled(r), [Next]_vars
    PROVE  GrantStep
  <1>1. CASE db' = db
    BY <1>1 DEF GrantStep
  <1>2. ASSUME NEW r \in Requests, MarkSignIn(r)
        PROVE  GrantStep
    <2>1. db' = db \/ db' = DBMarkSignIn(db, Actor(r), token[r].iat)
      BY <1>2 DEF MarkSignIn
    <2>2. db'.admins = db.admins
      BY <2>1 DEF DBMarkSignIn, Typing, TypeOK, Tables
    <2>. QED BY <2>2 DEF GrantStep
  <1>3. ASSUME NEW r \in Requests, CommitSignIn(r)
        PROVE  GrantStep
    <2>1. pc[r] = "signIn"
      BY <1>3, PendingTyped DEF CommitSignIn, Typing, WriterIsPending, Work
    <2>2. db' = SignInOutcome(r).db
      BY <1>3 DEF CommitSignIn, Isolated
    <2>3. db'.admins = db.admins \/ (db.admins = {} /\ db'.admins = {Actor(r)})
      <3>1. db \in Tables /\ Actor(r) \in Users /\ token[r].email \in RawEmail /\ token[r].iat \in Nat
        BY <2>1, ActorTyped DEF Typing, TypeOK
      <3>2. LET e == SignInOutcome(r).db
            IN  e.admins = db.admins \/ (db.admins = {} /\ e.admins = {Actor(r)})
        BY <3>1, SignInGrows DEF SignInOutcome
      <3>. QED BY <2>2, <3>2
    <2>. QED BY <2>3 DEF GrantStep
  <1>4. ASSUME NEW r \in Requests, NEW k \in Pending(r), CommitCommand(r, k)
        PROVE  GrantStep
    <2>1. k \in Commands /\ pc[r] = "run" /\ writer = <<r, k>> /\ verdict # "open" /\ db' = work
      BY <1>4, PendingTyped DEF CommitCommand
    <2>2. db' = CommandOutcome(r, k).db /\ isAdmin[r]
      BY <2>1 DEF Isolated, Handled
    <2>3. db \in Tables /\ Actor(r) \in Users /\ <<r, k>> \in Requests \X Commands
      BY <2>1, ActorTyped DEF Typing, TypeOK
    <2>4. \A u \in db'.admins \ db.admins : k = [kind |-> "make", target |-> u]
      BY <2>1, <2>2, <2>3, ResolveGrows DEF CommandOutcome
    <2>. QED BY <2>1, <2>2, <2>4 DEF GrantStep
  <1>5. ASSUME NEW r \in Requests,
               \/ Arrive(r) \/ MarkFails(r) \/ ResolveSignIn(r)
               \/ Viewer(r) \/ SignOut(r) \/ DenyAdmin(r) \/ AdminQuery(r) \/ AdminMutation(r)
               \/ \E k \in Pending(r) : \/ Begin(r, k) \/ ResolveCommand(r, k)
                                        \/ Rollback(r, k) \/ TxFails(r, k) \/ BeginFails(r, k)
               \/ FlushAudit(r) \/ FlushFails(r)
        PROVE  db' = db
    BY <1>5 DEF Arrive, RefuseUnidentified, RefuseBanned, IdentityFails, Admit, Meet, Arrival,
       MarkFails, ResolveSignIn, Viewer, SignOut, DenyAdmin, AdminQuery, AdminMutation, Begin,
       ResolveCommand, Rollback, TxFails, BeginFails, GiveUp, FlushAudit, FlushFails
  <1>6. CASE Crash \/ UNCHANGED vars
    BY <1>1, <1>6 DEF Crash, vars
  <1>. QED BY <1>1, <1>2, <1>3, <1>4, <1>5, <1>6 DEF Next, Step, Fault

-----------------------------------------------------------------------------
\* Somebody whose account was there before the process was.
Old(u) == \A d \in Databases : d.users[u] # None

\* An old account is never met as a new one, and the row of one that was recorded
\* as signed in is at least as late as the token that did it.
Once ==
    /\ \A u \in Users : Old(u) => db.users[u] # None
    /\ \A r \in Requests : pc[r] = "signIn" => ~Old(Actor(r))
    /\ \A r \in Requests : pc[r] \in {"idle", "signIn", "mark"} => ~Recorded(r)
    /\ \A r \in Requests : Recorded(r) /\ Old(Actor(r)) => db.users[Actor(r)].signin >= token[r].iat
    /\ SignInOnce

\* Where a request may come from, and what it keeps once it has arrived.
LEMMA PlaceNext ==
    ASSUME Typing, [Next]_vars, NEW q \in Requests
    PROVE  /\ pc'[q] \in {"idle", "signIn", "mark"} => pc[q] \in {"idle", "signIn", "mark"}
           /\ pc'[q] = "signIn" => pc[q] = "signIn" \/ db.users[Actor(q)'] = None
           /\ pc[q] # "idle" => token'[q] = token[q]
  <1>1. CASE UNCHANGED vars
    BY <1>1 DEF vars, Actor
  <1>2. CASE Crash
    BY <1>2 DEF Crash, Actor
  <1>3. ASSUME NEW r \in Requests, Arrive(r) \/ Step(r) \/ Fault(r), r # q
        PROVE  pc'[q] = pc[q] /\ token'[q] = token[q]
    BY <1>3, OneAtATime
  <1>4. CASE Arrive(q)
    BY <1>4 DEF Arrive, RefuseUnidentified, RefuseBanned, IdentityFails, Admit, Meet, Arrival,
       Typing, TypeOK, Goto, Actor
  <1>5. CASE Step(q) \/ Fault(q)
    <2>. USE DEF Typing, TypeOK, Goto
    <2>1. CASE \/ MarkSignIn(q) \/ MarkFails(q) \/ Viewer(q) \/ SignOut(q) \/ DenyAdmin(q)
               \/ AdminQuery(q) \/ AdminMutation(q) \/ FlushAudit(q) \/ FlushFails(q)
      BY <2>1 DEF MarkSignIn, MarkFails, Viewer, SignOut, DenyAdmin, AdminQuery, AdminMutation,
         FlushAudit, FlushFails, Flushed, Return
    <2>2. CASE ResolveSignIn(q) \/ \E k \in Pending(q) : Begin(q, k) \/ ResolveCommand(q, k)
      BY <2>2 DEF ResolveSignIn, Begin, ResolveCommand, request
    <2>3. CASE CommitSignIn(q) \/ \E k \in Pending(q) : CommitCommand(q, k)
      <3>1. CASE CommitSignIn(q)
        <4>1. pc[q] = "signIn"
          BY <3>1, PendingTyped DEF CommitSignIn, WriterIsPending, Work
        <4>. QED BY <3>1, <4>1 DEF CommitSignIn
      <3>2. ASSUME NEW k \in Pending(q), CommitCommand(q, k)
            PROVE  token' = token /\ pc'[q] \in {"run", "flush"}
        BY <3>2, PendingTyped DEF CommitCommand, Reply
      <3>. QED BY <2>3, <3>1, <3>2
    <2>4. CASE \E k \in Pending(q) : Rollback(q, k) \/ TxFails(q, k) \/ BeginFails(q, k)
      <3>1. PICK k \in Pending(q) : GiveUp(q, k)
        BY <2>4 DEF Rollback, TxFails, BeginFails
      <3>. QED BY <3>1 DEF GiveUp, Reply
    <2>. QED BY <1>5, <2>1, <2>2, <2>3, <2>4 DEF Step, Fault
  <1>. QED BY <1>1, <1>2, <1>3, <1>4, <1>5 DEF Next, Actor

\* A request gets its sign-in recorded by its mark or by the commit of its first.
LEMMA RecordedNext ==
    ASSUME Typing, [Next]_vars, NEW q \in Requests, Recorded(q)'
    PROVE  \/ Recorded(q)
           \/ pc[q] = "mark" /\ MarkSignIn(q) /\ SignInMatches(db, Actor(q), token[q].iat)
           \/ pc[q] = "signIn" /\ CommitSignIn(q)
  <1>0. \A a \in AuditActions : [req |-> q, action |-> a] \in Rows
    BY DEF Rows
  <1>1. ASSUME UNCHANGED <<buffer, trail>>
        PROVE  Recorded(q)
    BY <1>1 DEF Recorded, Buffered, trail
  <1>2. CASE Crash
    <2>1. ~Buffered(q, "sign-in")'
      BY <1>2 DEF Crash, Buffered
    <2>2. auditLog' = auditLog /\ dropped' = dropped \cup {e \in Rows : Buffered(e.req, e.action)}
      BY <1>2 DEF Crash
    <2>. QED BY <2>1, <2>2 DEF Recorded
  <1>3. ASSUME NEW r \in Requests, FlushAudit(r) \/ FlushFails(r)
        PROVE  Recorded(q)
    <2>1. pc[r] = "flush" /\ buffer[r] \in Seq(AuditActions) /\ buffer[r] # <<>>
      BY <1>3 DEF FlushAudit, FlushFails, Typing, TypeOK, EntriesHeld
    <2>2. /\ buffer' = [buffer EXCEPT ![r] = Tail(buffer[r])]
          /\ auditLog' \cup dropped' = auditLog \cup dropped \cup {[req |-> r, action |-> Head(buffer[r])]}
      BY <1>3 DEF FlushAudit, FlushFails, Flushed, Return
    <2>3. Buffered(r, "sign-in") <=>
             "sign-in" = Head(buffer[r]) \/ \E i \in DOMAIN Tail(buffer[r]) : Tail(buffer[r])[i] = "sign-in"
      BY <2>1, BufferTail DEF Buffered
    <2>4. CASE q = r
      <3>1. buffer'[q] = Tail(buffer[r])
        BY <2>2, <2>4 DEF Typing, TypeOK
      <3>. QED BY <2>2, <2>3, <2>4, <3>1 DEF Recorded, Buffered
    <2>5. CASE q # r
      <3>1. buffer'[q] = buffer[q]
        BY <2>2, <2>5 DEF Typing, TypeOK
      <3>. QED BY <2>2, <2>5, <3>1 DEF Recorded, Buffered
    <2>. QED BY <2>4, <2>5
  <1>4. ASSUME NEW r \in Requests, NEW a \in AuditActions, UNCHANGED trail,
               buffer' = [buffer EXCEPT ![r] = Append(buffer[r], a)], a # "sign-in" \/ q # r
        PROVE  Recorded(q)
    <2>1. buffer[r] \in Seq(AuditActions)
      BY DEF Typing, TypeOK
    <2>2. CASE q = r
      <3>1. buffer'[q] = Append(buffer[r], a) /\ a # "sign-in"
        BY <1>4, <2>2 DEF Typing, TypeOK
      <3>2. Buffered(q, "sign-in")' => Buffered(q, "sign-in")
        BY <2>1, <2>2, <3>1, BufferAppend DEF Buffered
      <3>. QED BY <1>4, <3>2 DEF Recorded, trail
    <2>3. CASE q # r
      BY <1>4, <2>3 DEF Recorded, Buffered, trail, Typing, TypeOK
    <2>. QED BY <2>2, <2>3
  <1>5. ASSUME NEW r \in Requests, SignOut(r) \/ DenyAdmin(r) \/ AdminMutation(r)
        PROVE  Recorded(q)
    <2>1. PICK a \in {"sign-out", "denied", "mutation"} :
             buffer' = [buffer EXCEPT ![r] = Append(buffer[r], a)] /\ UNCHANGED trail
      BY <1>5 DEF SignOut, DenyAdmin, AdminMutation, Return, WriteAudit
    <2>2. a \in AuditActions /\ a # "sign-in"
      BY <2>1 DEF AuditActions
    <2>. QED BY <1>4, <2>1, <2>2
  <1>6. ASSUME NEW r \in Requests, Viewer(r) \/ AdminQuery(r)
        PROVE  UNCHANGED <<buffer, trail>>
    BY <1>6 DEF Viewer, AdminQuery, Return, Typing, TypeOK
  <1>7. ASSUME NEW r \in Requests, MarkSignIn(r), ~(q = r /\ SignInMatches(db, Actor(q), token[q].iat))
        PROVE  Recorded(q)
    <2>1. CASE SignInMatches(db, Actor(r), token[r].iat)
      <3>1. /\ "sign-in" \in AuditActions /\ UNCHANGED trail
            /\ buffer' = [buffer EXCEPT ![r] = Append(buffer[r], "sign-in")]
        BY <1>7, <2>1 DEF MarkSignIn, WriteAudit, AuditActions
      <3>. QED BY <1>4, <1>7, <2>1, <3>1
    <2>2. CASE ~SignInMatches(db, Actor(r), token[r].iat)
      <3>1. UNCHANGED <<buffer, trail>>
        BY <1>7, <2>2 DEF MarkSignIn
      <3>. QED BY <1>1, <3>1
    <2>. QED BY <2>1, <2>2
  <1>8. ASSUME NEW r \in Requests, CommitSignIn(r), q # r
        PROVE  Recorded(q)
    <2>1. /\ "sign-in" \in AuditActions /\ UNCHANGED trail
          /\ buffer' = [buffer EXCEPT ![r] = Append(buffer[r], "sign-in")]
      BY <1>8 DEF CommitSignIn, WriteAudit, AuditActions
    <2>. QED BY <1>4, <1>8, <2>1
  <1>9. ASSUME NEW r \in Requests,
               \/ Arrive(r) \/ MarkFails(r) \/ ResolveSignIn(r)
               \/ \E k \in Pending(r) : \/ Begin(r, k) \/ ResolveCommand(r, k) \/ CommitCommand(r, k)
                                        \/ Rollback(r, k) \/ TxFails(r, k) \/ BeginFails(r, k)
        PROVE  UNCHANGED <<buffer, trail>>
    BY <1>9 DEF Arrive, RefuseUnidentified, RefuseBanned, IdentityFails, Admit, Meet, Arrival,
       MarkFails, ResolveSignIn, Begin, ResolveCommand, CommitCommand, Rollback, TxFails,
       BeginFails, GiveUp, request, trail
  <1>10. MarkSignIn(q) => pc[q] = "mark"
    BY DEF MarkSignIn
  <1>11. CommitSignIn(q) => pc[q] = "signIn"
    BY PendingTyped DEF CommitSignIn, Typing, WriterIsPending, Work
  <1>12. CASE UNCHANGED vars
    BY <1>1, <1>12 DEF vars, trail
  <1>. QED BY <1>1, <1>2, <1>3, <1>5, <1>6, <1>7, <1>8, <1>9, <1>10, <1>11, <1>12 DEF Next, Step, Fault

LEMMA OnceNext ==
    ASSUME Typing, Sound, Once, [Next]_vars
    PROVE  Once'
  <1>0. \A u \in Users : Old(u)' <=> Old(u)
    BY DEF Old
  <1>1. SafeStep /\ Typing'
    BY SoundNext, TypingNext
  <1>2. ASSUME NEW r \in Requests, writer = <<r, SignIn>>
        PROVE  Actor(r) \in Users /\ ~Old(Actor(r))
    <2>1. pc[r] = "signIn"
      BY <1>2, PendingTyped DEF Typing, WriterIsPending, Work
    <2>. QED BY <2>1, ActorTyped DEF Once
  <1>3. ASSUME NEW u \in Users, Old(u)
        PROVE  db'.users[u] # None /\ db'.users[u].signin >= db.users[u].signin
    BY <1>1, <1>2, <1>3 DEF SafeStep, Forward, Once
  <1>4. \A r \in Requests : pc'[r] \in {"idle", "signIn", "mark"} => ~Recorded(r)'
    <2>. SUFFICES ASSUME NEW r \in Requests, pc'[r] \in {"idle", "signIn", "mark"}, Recorded(r)'
                  PROVE  FALSE
      OBVIOUS
    <2>1. pc[r] \in {"idle", "signIn", "mark"} /\ ~Recorded(r)
      BY PlaceNext DEF Once
    <2>2. MarkSignIn(r) \/ CommitSignIn(r)
      BY <2>1, RecordedNext
    <2>3. pc'[r] = "serve"
      BY <2>2 DEF MarkSignIn, CommitSignIn, Goto, Typing, TypeOK
    <2>. QED BY <2>3
  <1>5. ASSUME NEW r \in Requests, Recorded(r)'
        PROVE  pc[r] # "idle" /\ token'[r] = token[r] /\ Actor(r) \in Users
    <2>1. pc[r] # "idle"
      BY <1>5, RecordedNext DEF Once
    <2>. QED BY <2>1, PlaceNext, ActorTyped
  <1>6. ASSUME NEW r \in Requests, pc'[r] = "signIn"
        PROVE  ~Old(Actor(r)')
    <2>1. CASE pc[r] = "signIn"
      BY <2>1, PlaceNext DEF Once, Actor
    <2>2. CASE db.users[Actor(r)'] = None
      <3>1. Actor(r)' \in Users
        BY <1>1, <1>6, PanelAssumption DEF Typing, Started, TokenType, Actor
      <3>. QED BY <2>2, <3>1 DEF Once
    <2>. QED BY <1>6, <2>1, <2>2, PlaceNext
  <1>7. ASSUME NEW r \in Requests, Recorded(r)', Old(Actor(r))
        PROVE  db'.users[Actor(r)].signin >= token[r].iat
    <2>1. token[r].iat \in Nat /\ Actor(r) \in Users
      BY <1>5, <1>7, ActorTyped
    <2>2. /\ db.users[Actor(r)] # None /\ db.users[Actor(r)].signin \in Nat
          /\ db'.users[Actor(r)] # None /\ db'.users[Actor(r)].signin \in Nat
      BY <1>1, <1>3, <1>7, <2>1 DEF Once, Typing, TypeOK, Tables, Accounts
    <2>3. CASE Recorded(r)
      <3>1. db.users[Actor(r)].signin >= token[r].iat
        BY <1>7, <2>3 DEF Once
      <3>2. db'.users[Actor(r)].signin >= db.users[Actor(r)].signin
        BY <1>3, <1>7, <2>1
      <3>. QED BY <2>1, <2>2, <3>1, <3>2
    <2>4. CASE MarkSignIn(r) /\ SignInMatches(db, Actor(r), token[r].iat)
      <3>1. db' = DBMarkSignIn(db, Actor(r), token[r].iat) /\ db \in Tables
        BY <2>4 DEF MarkSignIn, Typing, TypeOK
      <3>2. db'.users[Actor(r)].signin = token[r].iat
        BY <2>1, <2>2, <3>1 DEF DBMarkSignIn, Tables, Accounts
      <3>. QED BY <2>1, <3>2
    <2>5. CASE pc[r] = "signIn"
      BY <1>7, <2>5 DEF Once
    <2>. QED BY <1>7, <2>3, <2>4, <2>5, RecordedNext
  <1>8. SignInOnce'
    <2>. SUFFICES ASSUME NEW r \in Requests, NEW q \in Requests, RecordedTwice(r, q)', Old(Actor(r)')
                  PROVE  FALSE
      BY DEF SignInOnce, Old, Actor
    <2>1. /\ r # q /\ Recorded(r)' /\ Recorded(q)'
          /\ token'[r] = token[r] /\ token'[q] = token[q]
          /\ Actor(r) = Actor(q) /\ token[r].iat = token[q].iat /\ Old(Actor(r))
      BY <1>5 DEF RecordedTwice, Actor
    <2>2. ASSUME NEW p \in Requests, NEW o \in Requests, p # o, Recorded(p)', Recorded(o)',
                 Actor(p) = Actor(o), token[p].iat = token[o].iat, Old(Actor(p)), ~Recorded(p)
          PROVE  FALSE
      <3>1. Actor(p) \in Users /\ token[p].iat \in Nat
        BY <1>5, <2>2, ActorTyped
      <3>2. pc[p] # "signIn" /\ pc[o] # "signIn"
        BY <2>2 DEF Once
      <3>3. MarkSignIn(p) /\ SignInMatches(db, Actor(p), token[p].iat)
        BY <2>2, <3>2, RecordedNext
      <3>4. ~MarkSignIn(o)
        <4>1. pc'[o] # "serve" \/ pc[o] = "serve"
          BY <2>2, <3>3 DEF MarkSignIn, Goto, Typing, TypeOK
        <4>. QED BY <4>1 DEF MarkSignIn, Goto, Typing, TypeOK
      <3>5. Recorded(o)
        BY <2>2, <3>2, <3>4, RecordedNext
      <3>6. db.users[Actor(p)].signin >= token[p].iat
        BY <2>2, <3>5 DEF Once
      <3>7. db.users[Actor(p)].signin \in Nat /\ db.users[Actor(p)].signin < token[p].iat
        BY <3>1, <3>3 DEF SignInMatches, Typing, TypeOK, Tables, Accounts
      <3>. QED BY <3>1, <3>6, <3>7
    <2>3. Recorded(r) /\ Recorded(q)
      BY <2>1, <2>2
    <2>4. RecordedTwice(r, q)
      BY <2>1, <2>3 DEF RecordedTwice, Actor
    <2>. QED BY <2>1, <2>4 DEF Once, SignInOnce, Old, Actor
  <1>9. ASSUME NEW r \in Requests, Recorded(r)'
        PROVE  Actor(r)' = Actor(r) /\ token'[r] = token[r]
    BY <1>5, <1>9 DEF Actor
  <1>. QED BY <1>0, <1>3, <1>4, <1>6, <1>7, <1>8, <1>9 DEF Once, Old

LEMMA OnceInit == Init => Once
  <1>. SUFFICES ASSUME Init PROVE Once
    OBVIOUS
  <1>1. \A r \in Requests : ~Recorded(r) /\ pc[r] = "idle"
    BY DEF Init, Recorded, Buffered
  <1>. QED BY <1>1 DEF Once, Old, SignInOnce, RecordedTwice, Init

-----------------------------------------------------------------------------
\* All of it is inductive together.
Whole ==
    /\ Typing /\ Sound /\ Isolated /\ Once
    /\ \A r \in Requests : Handled(r)
    /\ NoticeIffBan

LEMMA WholeHolds == Spec => []Whole /\ [][GrantStep]_vars
  <1>1. Init => Whole
    BY TypingInit, SoundInit, IsolatedInit, OnceInit, HandledInit, NoticeInit DEF Whole
  <1>2. Whole /\ [Next]_vars => Whole' /\ GrantStep
    BY TypingNext, SoundNext, IsolatedNext, OnceNext, HandledNext, NoticeNext, GrantNext DEF Whole
  <1>. QED BY <1>1, <1>2, PTL DEF Spec

\* A ban that committed has its notice queued and no notice is queued for another,
\* whatever rolls back, fails or crashes: the message is a row of the same
\* transaction.
THEOREM NoticesMatchBans == Spec => []NoticeIffBan
  <1>1. Whole => NoticeIffBan
    BY DEF Whole
  <1>. QED BY <1>1, WholeHolds, PTL

\* A request that is over has written, or been seen to fail to write, the entry it
\* owes; and whoever was denied ran no command.
THEOREM AuditIsComplete == Spec => []AuditComplete
  <1>1. Whole => AuditComplete
    BY HandledAudit DEF Whole
  <1>. QED BY <1>1, WholeHolds, PTL

\* Requests with the same new token of an old account record one sign-in: the
\* statement that marks it compares and writes at once.
THEOREM SignInsCountOnce == Spec => []SignInOnce
  <1>1. Whole => SignInOnce
    BY DEF Whole, Once
  <1>. QED BY <1>1, WholeHolds, PTL

\* The admins grow by a makeAdmin of a request read as an admin's, or by the
\* bootstrap rule on an empty table.
THEOREM AdminsAreGranted == Spec => AdminsGrowByGrant
  <1>1. GrantStep =>
           \A u \in db'.admins \ db.admins :
              \/ db.admins = {} /\ db'.admins = {u}
              \/ \E r \in Requests :
                    isAdmin[r] /\ writer = <<r, [kind |-> "make", target |-> u]>>
    BY DEF GrantStep
  <1>. QED BY <1>1, WholeHolds, PTL DEF AdminsGrowByGrant

-----------------------------------------------------------------------------
\* The refinement.

\* What Access sees of the panel, as Panel's INSTANCE substitutes it.
Known == {u \in Users : db.users[u] # None}
Banner == [u \in Users |-> IF db.bans[u] = None THEN None ELSE db.bans[u].by]
Sessions == [r \in Requests |-> Session(r)]

Out == [state |-> "out"]
New(u) == [state |-> "new", user |-> u]
In(u, authority) == [state |-> "in", user |-> u, admin |-> authority]

\* The actions of Access, over what it sees.
LEMMA PromiseByView ==
    /\ Known' = Known /\ db'.admins = db.admins /\ Banner' = Banner /\ Sessions' = Sessions
          => UNCHANGED Promise!vars
    /\ \A rs \in SUBSET Requests :
          /\ Sessions' = [r \in Requests |-> IF r \in rs THEN Out ELSE Sessions[r]]
          /\ Known' = Known /\ db'.admins = db.admins /\ Banner' = Banner
          => Promise!Next
    /\ \A r \in Requests, u \in Users :
          /\ Sessions[r] = Out /\ u \in Known /\ Banner[u] = None
          /\ Sessions' = [Sessions EXCEPT ![r] = In(u, u \in db.admins)]
          /\ Known' = Known /\ db'.admins = db.admins /\ Banner' = Banner
          => Promise!Next
    /\ \A r \in Requests, u \in Users :
          /\ Sessions[r] = Out /\ u \notin Known
          /\ Sessions' = [Sessions EXCEPT ![r] = New(u)]
          /\ Known' = Known /\ db'.admins = db.admins /\ Banner' = Banner
          => Promise!Next
    /\ \A r \in Requests, u \in Users :
          /\ Sessions[r] = New(u)
          /\ Known' = Known \cup {u}
          /\ db'.admins = db.admins \/ (db.admins = {} /\ db'.admins = {u})
          /\ Sessions' = [Sessions EXCEPT ![r] = In(u, u \in db'.admins)]
          /\ Banner' = Banner
          => Promise!Next
  <1>1. UNCHANGED <<Known, db.admins, Banner, Sessions>> => UNCHANGED Promise!vars
    BY DEF Promise!vars, Known, Banner, Sessions
  <1>2. ASSUME NEW rs \in SUBSET Requests,
               Sessions' = [r \in Requests |-> IF r \in rs THEN Out ELSE Sessions[r]],
               UNCHANGED <<Known, db.admins, Banner>>
        PROVE  Promise!Next
    <2>1. Promise!Leave(rs)
      BY <1>2 DEF Promise!Leave, Promise!Out, Out, Known, Banner, Sessions
    <2>. QED BY <2>1 DEF Promise!Next
  <1>3. ASSUME NEW r \in Requests, NEW u \in Users,
               Sessions[r] = Out, u \in Known, Banner[u] = None,
               Sessions' = [Sessions EXCEPT ![r] = In(u, u \in db.admins)],
               UNCHANGED <<Known, db.admins, Banner>>
        PROVE  Promise!Next
    <2>1. Promise!Enter(r, u)
      BY <1>3 DEF Promise!Enter, Promise!Out, Promise!In, Out, In, Known, Banner, Sessions
    <2>. QED BY <2>1 DEF Promise!Next
  <1>4. ASSUME NEW r \in Requests, NEW u \in Users,
               Sessions[r] = Out, u \notin Known,
               Sessions' = [Sessions EXCEPT ![r] = New(u)],
               UNCHANGED <<Known, db.admins, Banner>>
        PROVE  Promise!Next
    <2>1. Promise!Knock(r, u)
      BY <1>4 DEF Promise!Knock, Promise!Out, Promise!New, Out, New, Known, Banner, Sessions
    <2>. QED BY <2>1 DEF Promise!Next
  <1>5. ASSUME NEW r \in Requests, NEW u \in Users,
               Sessions[r] = New(u), Known' = Known \cup {u},
               db'.admins = db.admins \/ (db.admins = {} /\ db'.admins = {u}),
               Sessions' = [Sessions EXCEPT ![r] = In(u, u \in db'.admins)],
               UNCHANGED Banner
        PROVE  Promise!Next
    <2>1. Promise!SignUp(r, u)
      BY <1>5 DEF Promise!SignUp, Promise!In, Promise!New, In, New, Known, Banner, Sessions
    <2>. QED BY <2>1 DEF Promise!Next
  <1>. QED BY <1>1, <1>2, <1>3, <1>4, <1>5

\* The commands of Access, over what it sees.
LEMMA GrantPromise ==
    ASSUME NEW r \in Requests, NEW by \in Users, NEW u \in Users,
           Sessions[r] = In(by, TRUE), Sessions' = Sessions, Known' = Known,
           u \in Known, Banner[u] = None, db'.admins = db.admins \cup {u}, Banner' = Banner
    PROVE  Promise!Next
  <1>1. Promise!ActsAs(r, by)
    BY DEF Promise!ActsAs, Promise!In, In, Sessions
  <1>2. Promise!Grant(r, by, u)
    BY <1>1 DEF Promise!Grant, Known, Banner, Sessions
  <1>. QED BY <1>2 DEF Promise!Next

LEMMA RevokePromise ==
    ASSUME NEW r \in Requests, NEW by \in Users, NEW u \in Users,
           Sessions[r] = In(by, TRUE), Sessions' = Sessions, Known' = Known,
           u # by, db.admins # {u}, \A v \in Users : Banner[v] # u,
           db'.admins = db.admins \ {u}, Banner' = Banner
    PROVE  Promise!Next
  <1>1. Promise!ActsAs(r, by)
    BY DEF Promise!ActsAs, Promise!In, In, Sessions
  <1>2. Promise!Revoke(r, by, u)
    BY <1>1 DEF Promise!Revoke, Known, Banner, Sessions
  <1>. QED BY <1>2 DEF Promise!Next

LEMMA ImposePromise ==
    ASSUME NEW r \in Requests, NEW by \in Users, NEW u \in Users,
           Sessions[r] = In(by, TRUE), Sessions' = Sessions, Known' = Known,
           u # by, u \in Known, Banner[u] = None, by \in db.admins,
           Banner' = [Banner EXCEPT ![u] = by], db'.admins = db.admins
    PROVE  Promise!Next
  <1>1. Promise!ActsAs(r, by)
    BY DEF Promise!ActsAs, Promise!In, In, Sessions
  <1>2. Promise!Impose(r, by, u)
    BY <1>1 DEF Promise!Impose, Known, Banner, Sessions
  <1>. QED BY <1>2 DEF Promise!Next

LEMMA LiftPromise ==
    ASSUME NEW r \in Requests, NEW by \in Users, NEW u \in Users,
           Sessions[r] = In(by, TRUE), Sessions' = Sessions, Known' = Known,
           Banner' = [Banner EXCEPT ![u] = None], db'.admins = db.admins
    PROVE  Promise!Next
  <1>1. Promise!ActsAs(r, by)
    BY DEF Promise!ActsAs, Promise!In, In, Sessions
  <1>2. Promise!Lift(r, by, u)
    BY <1>1 DEF Promise!Lift, Known, Banner, Sessions
  <1>. QED BY <1>2 DEF Promise!Next

-----------------------------------------------------------------------------
\* What the tables look like to Access after a case.
BannerOf(d) == [u \in Users |-> IF d.bans[u] = None THEN None ELSE d.bans[u].by]

\* A command of `by` about u, done or without effect.
Effect(d, e, by, u) ==
    \/ e.admins = d.admins /\ BannerOf(e) = BannerOf(d)
    \/ /\ u \in Users
       /\ \/ /\ d.users[u] # None /\ BannerOf(d)[u] = None
             /\ e.admins = d.admins \cup {u} /\ BannerOf(e) = BannerOf(d)
          \/ /\ u # by /\ d.admins # {u} /\ \A v \in Users : BannerOf(d)[v] # u
             /\ e.admins = d.admins \ {u} /\ BannerOf(e) = BannerOf(d)
          \/ /\ u # by /\ d.users[u] # None /\ BannerOf(d)[u] = None /\ by \in d.admins
             /\ BannerOf(e) = [BannerOf(d) EXCEPT ![u] = by] /\ e.admins = d.admins
          \/ BannerOf(e) = [BannerOf(d) EXCEPT ![u] = None] /\ e.admins = d.admins

LEMMA CommandView ==
    ASSUME NEW d \in Tables, Consistent(d), NEW actor \in Users, NEW c \in Commands,
           NEW id \in Requests \X Commands
    PROVE  /\ Resolve(d, actor, c, id).db.users = d.users
           /\ Effect(d, Resolve(d, actor, c, id).db, actor, c.target)
  <1>. DEFINE e == Resolve(d, actor, c, id).db
              u == c.target
  <1>0. /\ e.users = d.users
        /\ u # None => u \in Users
        /\ d.bans \in [Users -> Bans \cup {None}]
    BY ResolveKeepsAccounts, CommandShape DEF Tables
  <1>1. CASE e = d
    BY <1>0, <1>1 DEF Effect
  <1>2. CASE c.kind = "ban" /\ e # d
    <2>1. e = BanUser(d, actor, c, id).db
      BY <1>2 DEF Resolve
    <2>2. ~BanRefused(d, actor, c) /\ ~BanViolatesForeignKey(d, u, actor)
      BY <1>2, <2>1 DEF BanUser, Refused, Failed
    <2>3. u \in Users /\ u # actor /\ d.users[u] # None
      BY <1>0, <2>2 DEF BanRefused, ValidID
    <2>. DEFINE by == IF d.bans[u] = None THEN actor ELSE d.bans[u].by
                row == [by |-> by, reason |-> TrimSpace(c.reason)]
    <2>4. e.admins = d.admins /\ e.bans = [d.bans EXCEPT ![u] = row]
      BY <2>1, <2>2 DEF BanUser, Done, DBInsertUserBan, EnqueueUserBannedNotice, Tables
    <2>5. row # None /\ row.by = by
      <3>1. row \in Bans
        <4>1. by \in Users
          BY <1>0, <2>3 DEF Bans
        <4>2. c.reason \in RawReason
          BY <1>2, CommandShape, StoreAssumption
        <4>. HIDE DEF by
        <4>. QED BY <4>1, <4>2 DEF Bans, TrimSpace, RawReason
      <3>. QED BY <3>1, StoreAssumption
    <2>. HIDE DEF row, e, u
    <2>6. CASE d.bans[u] = None
      <3>1. actor \in d.admins /\ BannerOf(d)[u] = None
        BY <2>2, <2>3, <2>6 DEF BanViolatesForeignKey, BannerOf
      <3>2. BannerOf(e) = [BannerOf(d) EXCEPT ![u] = actor]
        BY <1>0, <2>3, <2>4, <2>5, <2>6 DEF BannerOf
      <3>. QED BY <1>0, <2>3, <2>4, <3>1, <3>2 DEF e, u, Effect
    <2>7. CASE d.bans[u] # None
      <3>1. BannerOf(e) = BannerOf(d)
        BY <1>0, <2>3, <2>4, <2>5, <2>7 DEF BannerOf
      <3>. QED BY <1>0, <2>4, <3>1 DEF e, u, Effect
    <2>. QED BY <2>6, <2>7
  <1>3. CASE c.kind = "unban" /\ e # d
    <2>1. e = UnbanUser(d, c).db
      BY <1>3 DEF Resolve
    <2>2. u \in Users
      BY <1>0, <1>3, <2>1 DEF UnbanUser, ValidID, Refused
    <2>3. e.admins = d.admins /\ e.bans = [d.bans EXCEPT ![u] = None]
      BY <1>3, <2>1 DEF UnbanUser, Done, Refused, DBDeleteUserBan, Tables
    <2>. HIDE DEF e, u, Effect
    <2>4. BannerOf(e) = [BannerOf(d) EXCEPT ![u] = None]
      BY <1>0, <2>2, <2>3 DEF BannerOf
    <2>. QED BY <1>0, <2>2, <2>3, <2>4 DEF e, u, Effect
  <1>4. CASE c.kind = "make" /\ e # d
    <2>1. e = MakeAdmin(d, c).db
      BY <1>4 DEF Resolve
    <2>2. u \in Users /\ d.users[u] # None /\ BanReason(d, u) = 0
      BY <1>0, <1>4, <2>1 DEF MakeAdmin, ValidID, Refused
    <2>3. e.admins = d.admins \cup {u} /\ e.bans = d.bans
      BY <1>4, <2>1 DEF MakeAdmin, Done, Refused, DBInsertAdmin, Tables
    <2>4. BannerOf(d)[u] = None
      BY <2>2, StoreAssumption DEF BanReason, BannerOf, Consistent, BansHaveAReason
    <2>. HIDE DEF e, u, Effect
    <2>5. BannerOf(e) = BannerOf(d)
      BY <2>3 DEF BannerOf
    <2>. QED BY <1>0, <2>2, <2>3, <2>4, <2>5 DEF e, u, Effect
  <1>5. CASE c.kind = "remove" /\ e # d
    <2>1. e = RemoveAdmin(d, actor, c).db
      BY <1>5 DEF Resolve
    <2>2. u \in Users /\ u # actor /\ AdminDeletable(d, u) /\ ~DeleteRestricted(d, u)
      BY <1>0, <1>5, <2>1 DEF RemoveAdmin, ValidID, Refused, Failed, Done
    <2>3. e.admins = d.admins \ {u} /\ e.bans = d.bans
      BY <2>1, <2>2, StoreAssumption DEF RemoveAdmin, ValidID, Done, DBDeleteAdmin, Tables
    <2>4. d.admins # {u}
      BY <2>2, DeleteLeavesAnAdmin
    <2>5. \A v \in Users : BannerOf(d)[v] # u
      BY <2>2, StoreAssumption DEF DeleteRestricted, BannerOf
    <2>. HIDE DEF e, u, Effect
    <2>6. BannerOf(e) = BannerOf(d)
      BY <2>3 DEF BannerOf
    <2>. QED BY <1>0, <2>2, <2>3, <2>4, <2>5, <2>6 DEF e, u, Effect
  <1>. QED BY <1>1, <1>2, <1>3, <1>4, <1>5, CommandShape

LEMMA SignInView ==
    ASSUME NEW d \in Tables, NEW u \in Users, NEW email \in RawEmail, NEW iat \in Nat,
           SignInByOIDC(d, u, email, iat).verdict = "ok"
    PROVE  LET e == SignInByOIDC(d, u, email, iat).db
           IN  e.users[u] # None /\ e.bans = d.bans
  <1>. DEFINE core == Normalise(email)
              upserted == DBUpsertUserByOIDC(d, u, core, iat)
  <1>1. core # NoEmail /\ core \in Emails
    BY DEF SignInByOIDC, Failed, RawEmail, Normalise
  <1>2. /\ upserted.bans = d.bans /\ upserted.users[u] = [email |-> core, signin |-> iat]
        /\ DOMAIN upserted = {"users", "admins", "bans", "jobs"}
    BY DEF DBUpsertUserByOIDC, Tables
  <1>3. [email |-> core, signin |-> iat] # None
    BY <1>1, StoreAssumption DEF Accounts
  <1>4. SignInByOIDC(d, u, email, iat).db = EnsureAdmin(upserted, u, core)
    BY <1>1 DEF SignInByOIDC, Done
  <1>5. /\ EnsureAdmin(upserted, u, core).bans = upserted.bans
        /\ EnsureAdmin(upserted, u, core).users = upserted.users
    <2>. HIDE DEF upserted
    <2>. QED BY <1>2 DEF EnsureAdmin, DBInsertAdmin
  <1>. QED BY <1>2, <1>3, <1>4, <1>5

-----------------------------------------------------------------------------
\* A request's session, by where it is.
LEMMA SessionAt ==
    ASSUME NEW r \in Requests
    PROVE  /\ pc[r] = "signIn" => Sessions[r] = New(Actor(r))
           /\ pc[r] \in InFlight \ {"signIn"} => Sessions[r] = In(Actor(r), isAdmin[r])
           /\ pc[r] \notin InFlight => Sessions[r] = Out
           /\ pc'[r] = "signIn" => Sessions'[r] = New(Actor(r)')
           /\ pc'[r] \in InFlight \ {"signIn"} => Sessions'[r] = In(Actor(r)', isAdmin'[r])
           /\ pc'[r] \notin InFlight => Sessions'[r] = Out
  BY DEF Sessions, Session, New, In, Out, InFlight

\* A request that keeps its place, or its kind of place, keeps its session.
LEMMA SessionKept ==
    ASSUME NEW r \in Requests,
           \/ pc'[r] = pc[r]
           \/ pc[r] \in InFlight \ {"signIn"} /\ pc'[r] \in InFlight \ {"signIn"}
           \/ pc[r] \notin InFlight /\ pc'[r] \notin InFlight,
           pc[r] \in InFlight => token'[r] = token[r] /\ isAdmin'[r] = isAdmin[r]
    PROVE  Sessions'[r] = Sessions[r]
  BY SessionAt DEF Actor, InFlight

\* A step of one request changes one session.
LEMMA SessionsOfStep ==
    ASSUME Typing, NEW r \in Requests, Arrive(r) \/ Step(r) \/ Fault(r)
    PROVE  /\ Sessions' = [Sessions EXCEPT ![r] = Sessions'[r]]
           /\ Sessions'[r] = Sessions[r] => Sessions' = Sessions
  <1>1. \A q \in Requests \ {r} : Sessions'[q] = Sessions[q]
    BY OneAtATime, SessionKept
  <1>2. DOMAIN Sessions = Requests /\ DOMAIN Sessions' = Requests
        /\ Sessions = [q \in Requests |-> Sessions[q]] /\ Sessions' = [q \in Requests |-> Sessions'[q]]
    BY DEF Sessions
  <1>. QED BY <1>1, <1>2

\* A step that only ends a request, or shows Access nothing.
LEMMA QuietStep ==
    ASSUME Typing, NEW r \in Requests, Arrive(r) \/ Step(r) \/ Fault(r),
           Known' = Known, db'.admins = db.admins, Banner' = Banner,
           Sessions'[r] = Sessions[r] \/ Sessions'[r] = Out
    PROVE  [Promise!Next]_(Promise!vars)
  <1>1. CASE Sessions'[r] = Sessions[r]
    <2>1. Sessions' = Sessions
      BY <1>1, SessionsOfStep
    <2>. QED BY <2>1, PromiseByView
  <1>2. CASE Sessions'[r] = Out
    <2>1. Sessions' = [Sessions EXCEPT ![r] = Out]
      BY <1>2, SessionsOfStep
    <2>2. Sessions' = [q \in Requests |-> IF q \in {r} THEN Out ELSE Sessions[q]]
      BY <2>1 DEF Sessions
    <2>3. {r} \in SUBSET Requests
      OBVIOUS
    <2>. QED BY <2>2, <2>3, PromiseByView
  <1>. QED BY <1>1, <1>2

-----------------------------------------------------------------------------
LEMMA ArriveView ==
    ASSUME Typing, Sound, NEW r \in Requests, Arrive(r)
    PROVE  [Promise!Next]_(Promise!vars)
  <1>0. PICK t \in Tokens, o \in Operations :
           RefuseUnidentified(r, t, o) \/ RefuseBanned(r, t, o) \/ IdentityFails(r, t, o)
              \/ Admit(r, t, o) \/ Meet(r, t, o)
    BY DEF Arrive
  <1>1. /\ pc[r] = "idle" /\ db' = db /\ token' = [token EXCEPT ![r] = t]
        /\ t.sub \in Users /\ token'[r] = t /\ Actor(r)' = t.sub
    <2>1. pc[r] = "idle" /\ db' = db /\ token' = [token EXCEPT ![r] = t]
      BY <1>0 DEF RefuseUnidentified, RefuseBanned, IdentityFails, Admit, Meet, Arrival
    <2>2. token'[r] = t
      BY <2>1 DEF Typing, TypeOK
    <2>. QED BY <2>1, <2>2, PanelAssumption DEF TokenType, Actor
  <1>2. Known' = Known /\ db'.admins = db.admins /\ Banner' = Banner
    BY <1>1 DEF Known, Banner
  <1>3. Sessions[r] = Out
    BY <1>1, SessionAt DEF InFlight
  <1>. USE DEF Typing, TypeOK, Goto
  <1>4. CASE RefuseUnidentified(r, t, o) \/ RefuseBanned(r, t, o) \/ IdentityFails(r, t, o)
    <2>1. pc'[r] \in {"refused", "failed"}
      BY <1>4 DEF RefuseUnidentified, RefuseBanned, IdentityFails
    <2>2. Sessions'[r] = Out
      BY <2>1, SessionAt DEF InFlight
    <2>. QED BY <1>2, <2>2, QuietStep
  <1>5. CASE Admit(r, t, o)
    <2>1. /\ db.users[t.sub] # None /\ BanReason(db, t.sub) = 0
          /\ isAdmin' = [isAdmin EXCEPT ![r] = t.sub \in db.admins] /\ pc'[r] \in {"mark", "serve"}
      BY <1>5 DEF Admit, DBGetIdentityByOIDC
    <2>2. t.sub \in Known /\ Banner[t.sub] = None
      BY <1>1, <2>1, StoreAssumption DEF Known, Banner, Sound, Consistent, BansHaveAReason, BanReason
    <2>3. Sessions'[r] = In(t.sub, t.sub \in db.admins)
      <3>1. isAdmin'[r] = (t.sub \in db.admins)
        BY <2>1
      <3>. QED BY <1>1, <2>1, <3>1, SessionAt DEF InFlight
    <2>4. Sessions' = [Sessions EXCEPT ![r] = In(t.sub, t.sub \in db.admins)]
      BY <2>3, SessionsOfStep
    <2>. QED BY <1>1, <1>2, <1>3, <2>2, <2>4, PromiseByView
  <1>6. CASE Meet(r, t, o)
    <2>1. t.sub \notin Known /\ pc'[r] = "signIn"
      BY <1>6 DEF Meet, Known
    <2>2. Sessions'[r] = New(t.sub)
      BY <1>1, <2>1, SessionAt
    <2>3. Sessions' = [Sessions EXCEPT ![r] = New(t.sub)]
      BY <2>2, SessionsOfStep
    <2>. QED BY <1>1, <1>2, <1>3, <2>1, <2>3, PromiseByView
  <1>. QED BY <1>0, <1>4, <1>5, <1>6

\* The statement that marks a sign-in makes no account and touches no admin or ban.
LEMMA MarkView ==
    ASSUME Typing, NEW r \in Requests, MarkSignIn(r) \/ MarkFails(r)
    PROVE  [Promise!Next]_(Promise!vars)
  <1>1. pc[r] = "mark" /\ pc'[r] = "serve" /\ token' = token /\ isAdmin' = isAdmin
    BY DEF MarkSignIn, MarkFails, Goto, Typing, TypeOK
  <1>2. Sessions'[r] = Sessions[r]
    BY <1>1, SessionKept DEF InFlight
  <1>3. Known' = Known /\ db'.admins = db.admins /\ Banner' = Banner
    <2>1. CASE db' = db
      BY <2>1 DEF Known, Banner
    <2>2. CASE MarkSignIn(r) /\ SignInMatches(db, Actor(r), token[r].iat)
      <3>1. Actor(r) \in Users /\ token[r].iat \in Nat /\ db \in Tables
        BY <1>1, ActorTyped DEF Typing, TypeOK
      <3>2. db' = DBMarkSignIn(db, Actor(r), token[r].iat) /\ db.users[Actor(r)] # None
        BY <2>2 DEF MarkSignIn, SignInMatches
      <3>3. /\ db'.admins = db.admins /\ db'.bans = db.bans
            /\ db'.users[Actor(r)] = [db.users[Actor(r)] EXCEPT !.signin = token[r].iat]
            /\ \A v \in Users \ {Actor(r)} : db'.users[v] = db.users[v]
        BY <3>1, <3>2 DEF DBMarkSignIn, Tables
      <3>4. db'.users[Actor(r)] # None
        BY <3>1, <3>2, <3>3, StoreAssumption DEF Tables, Accounts
      <3>. QED BY <3>1, <3>2, <3>3, <3>4 DEF Known, Banner
    <2>. QED BY <2>1, <2>2 DEF MarkSignIn, MarkFails
  <1>4. Step(r) \/ Fault(r)
    BY DEF Step, Fault
  <1>. QED BY <1>2, <1>3, <1>4, QuietStep

LEMMA AsideView ==
    ASSUME Typing, NEW r \in Requests,
           \/ Viewer(r) \/ SignOut(r) \/ DenyAdmin(r) \/ AdminQuery(r) \/ AdminMutation(r)
           \/ ResolveSignIn(r) \/ \E k \in Pending(r) : Begin(r, k) \/ ResolveCommand(r, k)
           \/ \E k \in Pending(r) : Rollback(r, k) \/ TxFails(r, k) \/ BeginFails(r, k)
           \/ FlushAudit(r) \/ FlushFails(r)
    PROVE  [Promise!Next]_(Promise!vars)
  <1>. USE DEF Typing, TypeOK, Goto
  <1>1. Step(r) \/ Fault(r)
    BY DEF Step, Fault
  <1>2. db' = db /\ token' = token /\ isAdmin' = isAdmin
    BY DEF Viewer, SignOut, DenyAdmin, AdminQuery, AdminMutation, Begin, ResolveCommand,
       ResolveSignIn, Rollback, TxFails, BeginFails, GiveUp, FlushAudit, FlushFails, request
  <1>3. \/ pc'[r] = pc[r]
        \/ pc[r] \in InFlight \ {"signIn"} /\ pc'[r] \in InFlight \ {"signIn"}
        \/ pc'[r] \notin InFlight
    <2>. USE DEF InFlight
    <2>1. CASE \/ Viewer(r) \/ SignOut(r) \/ DenyAdmin(r) \/ AdminQuery(r) \/ AdminMutation(r)
               \/ FlushAudit(r) \/ FlushFails(r)
      BY <2>1 DEF Viewer, SignOut, DenyAdmin, AdminQuery, AdminMutation, FlushAudit, FlushFails,
         Flushed, Return
    <2>2. CASE ResolveSignIn(r) \/ \E k \in Pending(r) : Begin(r, k) \/ ResolveCommand(r, k)
      BY <2>2 DEF ResolveSignIn, Begin, ResolveCommand, request
    <2>3. CASE \E k \in Pending(r) : Rollback(r, k) \/ TxFails(r, k) \/ BeginFails(r, k)
      <3>1. PICK k \in Pending(r) : GiveUp(r, k)
        BY <2>3 DEF Rollback, TxFails, BeginFails
      <3>2. CASE k = SignIn
        BY <3>1, <3>2 DEF GiveUp
      <3>3. CASE k # SignIn
        <4>1. pc[r] = "run"
          BY <3>3, PendingTyped
        <4>. QED BY <3>1, <3>3, <4>1 DEF GiveUp, Reply
      <3>. QED BY <3>2, <3>3
    <2>. QED BY <2>1, <2>2, <2>3
  <1>4. Sessions'[r] = Sessions[r] \/ Sessions'[r] = Out
    BY <1>2, <1>3, SessionKept, SessionAt
  <1>5. Known' = Known /\ db'.admins = db.admins /\ Banner' = Banner
    BY <1>2 DEF Known, Banner
  <1>. QED BY <1>1, <1>4, <1>5, QuietStep

-----------------------------------------------------------------------------
\* The commit of a first sign-in is the sign-up.
LEMMA SignUpView ==
    ASSUME Typing, Isolated, NEW r \in Requests, CommitSignIn(r)
    PROVE  [Promise!Next]_(Promise!vars)
  <1>. DEFINE u == Actor(r)
              e == SignInOutcome(r).db
  <1>1. pc[r] = "signIn"
    BY PendingTyped DEF CommitSignIn, Typing, WriterIsPending, Work
  <1>2. db' = e /\ work = e /\ SignInOutcome(r).verdict = "ok"
    BY DEF CommitSignIn, Isolated
  <1>3. u \in Users /\ token[r].email \in RawEmail /\ token[r].iat \in Nat /\ db \in Tables
    BY <1>1, ActorTyped DEF Typing, TypeOK
  <1>4. /\ \A v \in Users \ {u} : e.users[v] = db.users[v]
        /\ e.users[u] # None /\ e.bans = db.bans
        /\ e.admins = db.admins \/ (db.admins = {} /\ e.admins = {u})
    BY <1>2, <1>3, SignInView, SignInKeepsAccounts, SignInGrows DEF SignInOutcome
  <1>5. pc'[r] = "serve" /\ token' = token /\ isAdmin'[r] = (u \in e.admins)
    BY <1>2 DEF CommitSignIn, Goto, Typing, TypeOK
  <1>. HIDE DEF e, u
  <1>6. Known' = Known \cup {u} /\ Banner' = Banner
    BY <1>2, <1>3, <1>4 DEF Known, Banner
  <1>7. Sessions[r] = New(u) /\ Sessions'[r] = In(u, u \in db'.admins)
    <2>1. Actor(r)' = u
      BY <1>5 DEF Actor, u
    <2>. QED BY <1>1, <1>2, <1>5, <2>1, SessionAt DEF InFlight, u
  <1>8. Sessions' = [Sessions EXCEPT ![r] = In(u, u \in db'.admins)]
    BY <1>7, SessionsOfStep DEF Step
  <1>. QED BY <1>2, <1>3, <1>4, <1>6, <1>7, <1>8, PromiseByView

\* The commit of a command is the command, or nothing.
LEMMA CommandOfView ==
    ASSUME Typing, Sound, Isolated, NEW r \in Requests, Handled(r),
           NEW k \in Pending(r), CommitCommand(r, k)
    PROVE  [Promise!Next]_(Promise!vars)
  <1>. DEFINE by == Actor(r)
              u == k.target
              e == CommandOutcome(r, k).db
  <1>1. k \in Commands /\ pc[r] = "run" /\ writer = <<r, k>> /\ verdict # "open" /\ db' = work
    BY PendingTyped DEF CommitCommand
  <1>2. db' = e /\ isAdmin[r] = TRUE
    BY <1>1 DEF Isolated, Handled, Typing, TypeOK
  <1>3. by \in Users /\ <<r, k>> \in Requests \X Commands /\ db \in Tables /\ Consistent(db)
    BY <1>1, ActorTyped DEF Typing, TypeOK, Sound
  <1>4. e.users = db.users /\ Effect(db, e, by, u)
    BY <1>1, <1>3, CommandView DEF CommandOutcome
  <1>5. pc'[r] \in {"run", "flush"} /\ token' = token /\ isAdmin' = isAdmin
    BY DEF CommitCommand, Reply, Goto, Typing, TypeOK
  <1>6. Sessions[r] = In(by, TRUE) /\ Sessions' = Sessions
    <2>1. Sessions'[r] = Sessions[r]
      BY <1>1, <1>5, SessionKept DEF InFlight
    <2>2. Step(r)
      BY DEF Step
    <2>. QED BY <1>1, <1>2, <2>1, <2>2, SessionAt, SessionsOfStep DEF InFlight
  <1>. HIDE DEF e, u, by
  <1>7. Known' = Known /\ (u \in Users => (u \in Known <=> db.users[u] # None))
    BY <1>2, <1>4 DEF Known
  <1>8. Banner = BannerOf(db) /\ Banner' = BannerOf(e)
    BY <1>2 DEF Banner, BannerOf
  <1>9. CASE e.admins = db.admins /\ BannerOf(e) = BannerOf(db)
    BY <1>2, <1>6, <1>7, <1>8, <1>9, PromiseByView
  <1>10. CASE ~(e.admins = db.admins /\ BannerOf(e) = BannerOf(db))
    <2>1. u \in Users
      BY <1>4, <1>10 DEF Effect
    <2>2. Sessions[r] = In(by, TRUE) /\ Sessions' = Sessions /\ Known' = Known
      BY <1>6, <1>7
    <2>. HIDE DEF Known, Banner, Sessions
    <2>3. \/ /\ u \in Known /\ Banner[u] = None
             /\ db'.admins = db.admins \cup {u} /\ Banner' = Banner
          \/ /\ u # by /\ db.admins # {u} /\ \A v \in Users : Banner[v] # u
             /\ db'.admins = db.admins \ {u} /\ Banner' = Banner
          \/ /\ u # by /\ u \in Known /\ Banner[u] = None /\ by \in db.admins
             /\ Banner' = [Banner EXCEPT ![u] = by] /\ db'.admins = db.admins
          \/ Banner' = [Banner EXCEPT ![u] = None] /\ db'.admins = db.admins
      BY <1>2, <1>4, <1>7, <1>8, <1>10, <2>1 DEF Effect
    <2>4. Promise!Next
      <3>1. CASE /\ u \in Known /\ Banner[u] = None
                 /\ db'.admins = db.admins \cup {u} /\ Banner' = Banner
        BY <1>3, <2>1, <2>2, <3>1, GrantPromise
      <3>2. CASE /\ u # by /\ db.admins # {u} /\ \A v \in Users : Banner[v] # u
                 /\ db'.admins = db.admins \ {u} /\ Banner' = Banner
        BY <1>3, <2>1, <2>2, <3>2, RevokePromise
      <3>3. CASE /\ u # by /\ u \in Known /\ Banner[u] = None /\ by \in db.admins
                 /\ Banner' = [Banner EXCEPT ![u] = by] /\ db'.admins = db.admins
        BY <1>3, <2>1, <2>2, <3>3, ImposePromise
      <3>4. CASE Banner' = [Banner EXCEPT ![u] = None] /\ db'.admins = db.admins
        BY <1>3, <2>1, <2>2, <3>4, LiftPromise
      <3>. QED BY <2>3, <3>1, <3>2, <3>3, <3>4
    <2>. QED BY <2>4
  <1>. QED BY <1>9, <1>10

\* A crash throws everybody in flight out.
LEMMA CrashView ==
    ASSUME Crash
    PROVE  [Promise!Next]_(Promise!vars)
  <1>. DEFINE rs == {r \in Requests : pc[r] \in InFlight}
  <1>1. Known' = Known /\ db'.admins = db.admins /\ Banner' = Banner
    BY DEF Crash, Known, Banner
  <1>2. \A q \in Requests : Sessions'[q] = IF q \in rs THEN Out ELSE Sessions[q]
    <2>. TAKE q \in Requests
    <2>1. pc'[q] \notin InFlight
      BY DEF Crash, InFlight
    <2>. QED BY <2>1, SessionAt
  <1>3. Sessions' = [q \in Requests |-> IF q \in rs THEN Out ELSE Sessions[q]]
    <2>1. Sessions' = [q \in Requests |-> Sessions'[q]]
      BY DEF Sessions
    <2>. QED BY <1>2, <2>1
  <1>4. rs \in SUBSET Requests
    OBVIOUS
  <1>. HIDE DEF rs
  <1>. QED BY <1>1, <1>3, <1>4, PromiseByView

LEMMA StepView ==
    ASSUME Whole, [Next]_vars
    PROVE  [Promise!Next]_(Promise!vars)
  <1>1. CASE UNCHANGED vars
    <2>1. Known' = Known /\ db'.admins = db.admins /\ Banner' = Banner /\ Sessions' = Sessions
      BY <1>1 DEF vars, Known, Banner, Sessions, Session, Actor
    <2>. QED BY <2>1, PromiseByView
  <1>2. CASE Crash
    BY <1>2, CrashView
  <1>3. ASSUME NEW r \in Requests, Arrive(r) \/ Step(r) \/ Fault(r)
        PROVE  [Promise!Next]_(Promise!vars)
    BY <1>3, ArriveView, MarkView, AsideView, SignUpView, CommandOfView DEF Whole, Step, Fault
  <1>. QED BY <1>1, <1>2, <1>3 DEF Next

\* A file left by an earlier run is one Access may start on.
LEMMA StartView == Init => Promise!Init
  <1>. SUFFICES ASSUME Init PROVE Promise!Init
    OBVIOUS
  <1>1. db \in Tables /\ Consistent(db)
    BY PanelAssumption DEF Init
  <1>2. Known \in SUBSET Users /\ db.admins \in SUBSET Known
    BY <1>1 DEF Known, Tables, Consistent, AccountsExist
  <1>3. Banner \in [Users -> db.admins \cup {None}]
    BY <1>1 DEF Banner, Consistent, BansHaveABanner
  <1>4. \A u \in Users : Banner[u] # None => u \in Known /\ Banner[u] # u
    BY <1>1 DEF Banner, Known, Consistent, BansHaveABanner, AccountsExist
  <1>5. Sessions = [r \in Requests |-> Out]
    BY DEF Init, Sessions, Session, Out, InFlight
  <1>. QED BY <1>2, <1>3, <1>4, <1>5 DEF Promise!Init, Promise!Out, Known, Banner, Sessions, Out

\* Commands take effect one at a time, at their commit, under the authority their
\* request was read with: the transactions of cmd/server/tx.go, the write pool,
\* failures and crashes add no behaviour to the atomic specification.
THEOREM PanelImplementsAccess == Spec => ImplementsAccess
  <1>1. Whole /\ [Next]_vars => [Promise!Next]_(Promise!vars)
    BY StepView
  <1>. QED BY <1>1, StartView, WholeHolds, PTL DEF Spec, ImplementsAccess, Promise!Spec
=============================================================================
