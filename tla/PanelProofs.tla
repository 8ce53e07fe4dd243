---------------------------- MODULE PanelProofs ----------------------------
(***************************************************************************)
(* Theorems about Panel for any number of users, requests and tokens, any  *)
(* database left by an earlier run and any faults.                         *)
(*                                                                         *)
(* First what the statements and cases of Store keep true of any tables,   *)
(* facts about single operators; then the invariants of the running panel. *)
(* Typing is the inductive form of TypeOK: a step is well-typed only       *)
(* because a request that has arrived has a token and an operation, the    *)
(* holder of the write connection is a request still waiting for that      *)
(* piece of work, and a request about to flush has something to flush.     *)
(* Sound is the inductive form of the safety properties: it ties the       *)
(* tables inside the open transaction to the committed ones.               *)
(***************************************************************************)
EXTENDS Panel, TLAPS, FiniteSetTheorems

\* Every statement of the write queries yields well-formed tables.
LEMMA StatementsTyped ==
    ASSUME NEW d \in Tables, NEW u \in Users
    PROVE  /\ \A e \in Emails, i \in Nat : DBUpsertUserByOIDC(d, u, e, i) \in Tables
           /\ \A i \in Nat : d.users[u] # None => DBMarkSignIn(d, u, i) \in Tables
           /\ DBInsertAdmin(d, u) \in Tables
           /\ DBDeleteAdmin(d, u) \in Tables
           /\ \A by \in Users, n \in Nat : DBInsertUserBan(d, u, by, n) \in Tables
           /\ DBDeleteUserBan(d, u) \in Tables
           /\ \A id \in Requests \X Commands :
                EnqueueUserBannedNotice(d, id, u) \in Tables
  <1>1. \A e \in Emails, i \in Nat : DBUpsertUserByOIDC(d, u, e, i) \in Tables
    BY DEF Tables, Accounts, DBUpsertUserByOIDC
  <1>2. \A i \in Nat : d.users[u] # None => DBMarkSignIn(d, u, i) \in Tables
    BY DEF Tables, Accounts, DBMarkSignIn
  <1>3. DBInsertAdmin(d, u) \in Tables
    BY DEF Tables, DBInsertAdmin
  <1>4. DBDeleteAdmin(d, u) \in Tables
    BY DEF Tables, DBDeleteAdmin
  <1>5. \A by \in Users, n \in Nat : DBInsertUserBan(d, u, by, n) \in Tables
    BY DEF Tables, Bans, DBInsertUserBan
  <1>6. DBDeleteUserBan(d, u) \in Tables
    BY DEF Tables, DBDeleteUserBan
  <1>7. \A id \in Requests \X Commands : EnqueueUserBannedNotice(d, id, u) \in Tables
    BY DEF Tables, Jobs, EnqueueUserBannedNotice
  <1>. QED BY <1>1, <1>2, <1>3, <1>4, <1>5, <1>6, <1>7

-----------------------------------------------------------------------------
\* A command is one of the four kinds; only a ban carries a reason.
LEMMA CommandShape ==
    ASSUME NEW c \in Commands
    PROVE  /\ c.kind \in {"ban", "unban", "make", "remove"}
           /\ c.target \in Users \cup {None}
           /\ c.kind = "ban" => c.reason \in Reasons
  BY DEF Commands

\* Removing one of several admins leaves one: the count inside the delete.
LEMMA DeleteLeavesAnAdmin ==
    ASSUME NEW d \in Tables, NEW u \in Users, AdminDeletable(d, u)
    PROVE  d.admins \ {u} # {}
  <1>1. d.admins \subseteq Users /\ IsFiniteSet(d.admins)
    BY StoreAssumption, FS_Subset DEF Tables
  <1>2. SUFFICES ASSUME d.admins \ {u} = {} PROVE FALSE
    OBVIOUS
  <1>3. d.admins = {u}
    BY <1>2 DEF AdminDeletable
  <1>4. Cardinality(d.admins) = 1
    BY <1>3, FS_Singleton
  <1>. QED BY <1>4 DEF AdminDeletable

\* Whatever a command is asked to do, it yields well-formed tables and one of the
\* three ways to answer.
LEMMA ResolveTyped ==
    ASSUME NEW d \in Tables, NEW actor \in Users, NEW c \in Commands,
           NEW id \in Requests \X Commands
    PROVE  /\ Resolve(d, actor, c, id).db \in Tables
           /\ Resolve(d, actor, c, id).verdict \in Verdicts
  <1>. USE CommandShape DEF Verdicts, Done, Refused, Failed, ValidID
  <1>1. CASE c.kind = "ban"
    <2>1. Resolve(d, actor, c, id) = BanUser(d, actor, c, id)
      BY <1>1 DEF Resolve
    <2>2. CASE BanRefused(d, actor, c)
      BY <2>1, <2>2 DEF BanUser
    <2>3. CASE ~BanRefused(d, actor, c)
      <3>1. c.target \in Users /\ TrimSpace(c.reason) \in Nat
        BY <1>1, <2>3, StoreAssumption DEF BanRefused, RawReason, TrimSpace
      <3>2. DBInsertUserBan(d, c.target, actor, TrimSpace(c.reason)) \in Tables
        BY <3>1, StatementsTyped
      <3>3. EnqueueUserBannedNotice(
              DBInsertUserBan(d, c.target, actor, TrimSpace(c.reason)), id, c.target)
                \in Tables
        BY <3>1, <3>2, StatementsTyped
      <3>. QED BY <2>1, <2>3, <3>3 DEF BanUser
    <2>. QED BY <2>2, <2>3
  <1>2. CASE c.kind = "unban"
    <2>1. Resolve(d, actor, c, id) = UnbanUser(d, c)
      BY <1>2 DEF Resolve
    <2>. QED BY <2>1, StatementsTyped DEF UnbanUser
  <1>3. CASE c.kind = "make"
    <2>1. Resolve(d, actor, c, id) = MakeAdmin(d, c)
      BY <1>3 DEF Resolve
    <2>. QED BY <2>1, StatementsTyped DEF MakeAdmin
  <1>4. CASE c.kind = "remove"
    <2>1. Resolve(d, actor, c, id) = RemoveAdmin(d, actor, c)
      BY <1>4 DEF Resolve
    <2>. QED BY <2>1, StatementsTyped DEF RemoveAdmin
  <1>. QED BY <1>1, <1>2, <1>3, <1>4

\* The first sign-in yields well-formed tables, or fails on a blank address.
LEMMA SignInTyped ==
    ASSUME NEW d \in Tables, NEW u \in Users, NEW email \in RawEmail, NEW iat \in Nat
    PROVE  /\ SignInByOIDC(d, u, email, iat).db \in Tables
           /\ SignInByOIDC(d, u, email, iat).verdict \in Verdicts
  <1>. DEFINE upserted == DBUpsertUserByOIDC(d, u, Normalise(email), iat)
  <1>. USE DEF Verdicts, Done, Failed
  <1>1. CASE Normalise(email) = NoEmail
    BY <1>1 DEF SignInByOIDC
  <1>2. CASE Normalise(email) # NoEmail
    <2>1. Normalise(email) \in Emails
      BY <1>2 DEF RawEmail, Normalise
    <2>2. upserted \in Tables
      BY <2>1, StatementsTyped
    <2>3. EnsureAdmin(upserted, u, Normalise(email)) \in Tables
      BY <2>2, StatementsTyped DEF EnsureAdmin
    <2>. QED BY <1>2, <2>3 DEF SignInByOIDC
  <1>. QED BY <1>1, <1>2

-----------------------------------------------------------------------------
\* What a step from tables d to tables e may not do: lose the last admin, or
\* promote somebody d has banned.
KeepsAnAdmin(d, e) == d.admins # {} => e.admins # {}
PromotesNoBanned(d, e) == \A u \in e.admins \ d.admins : BanReason(d, u) = 0

\* A ban leaves its banner an admin and somebody else, and has a reason.
LEMMA BanConsistent ==
    ASSUME NEW d \in Tables, Consistent(d), NEW actor \in Users,
           NEW c \in Commands, c.kind = "ban", NEW id \in Requests \X Commands
    PROVE  LET e == BanUser(d, actor, c, id).db
           IN  Consistent(e) /\ e.admins = d.admins
  <1>. DEFINE reason == TrimSpace(c.reason)
              inserted == DBInsertUserBan(d, c.target, actor, reason)
              e == BanUser(d, actor, c, id).db
  <1>1. CASE BanRefused(d, actor, c)
    BY <1>1 DEF BanUser, Refused
  <1>2. CASE ~BanRefused(d, actor, c) /\ BanViolatesForeignKey(d, c.target, actor)
    BY <1>2 DEF BanUser, Failed
  <1>3. CASE ~BanRefused(d, actor, c) /\ ~BanViolatesForeignKey(d, c.target, actor)
    <2>1. /\ c.target \in Users /\ actor # c.target
          /\ d.users[c.target] # None
          /\ reason \in 1 .. MaxReason
      BY <1>3, CommandShape DEF BanRefused, ValidID
    <2>2. e = EnqueueUserBannedNotice(inserted, id, c.target)
      BY <1>3 DEF BanUser, Done
    <2>3. /\ e.users = d.users /\ e.admins = d.admins
          /\ e.bans = [d.bans EXCEPT ![c.target] =
                [by |-> IF d.bans[c.target] = None THEN actor ELSE d.bans[c.target].by,
                 reason |-> reason]]
      BY <2>2 DEF EnqueueUserBannedNotice, DBInsertUserBan, Tables
    <2>4. AccountsExist(e)
      BY <2>1, <2>3 DEF Consistent, AccountsExist, Tables
    <2>5. BansHaveABanner(e)
      BY <1>3, <2>1, <2>3 DEF Consistent, BansHaveABanner, BanViolatesForeignKey, Tables
    <2>6. BansHaveAReason(e)
      BY <2>1, <2>3 DEF Consistent, BansHaveAReason, Tables
    <2>. QED BY <2>3, <2>4, <2>5, <2>6 DEF Consistent
  <1>. QED BY <1>1, <1>2, <1>3

\* An unban changes nothing but the ban it lifts.
LEMMA UnbanConsistent ==
    ASSUME NEW d \in Tables, Consistent(d), NEW c \in Commands
    PROVE  LET e == UnbanUser(d, c).db
           IN  Consistent(e) /\ e.admins = d.admins
  <1>. DEFINE e == UnbanUser(d, c).db
  <1>1. CASE ~ValidID(c.target)
    BY <1>1 DEF UnbanUser, Refused
  <1>2. CASE ValidID(c.target)
    <2>1. /\ e.users = d.users /\ e.admins = d.admins
          /\ e.bans = [d.bans EXCEPT ![c.target] = None]
      BY <1>2 DEF UnbanUser, Done, DBDeleteUserBan, Tables
    <2>. QED BY <2>1 DEF Consistent, AccountsExist, BansHaveABanner, BansHaveAReason, Tables
  <1>. QED BY <1>1, <1>2

\* A grant goes to somebody with an account and without a ban.
LEMMA MakeConsistent ==
    ASSUME NEW d \in Tables, Consistent(d), NEW c \in Commands
    PROVE  LET e == MakeAdmin(d, c).db
           IN  Consistent(e) /\ KeepsAnAdmin(d, e) /\ PromotesNoBanned(d, e)
  <1>. DEFINE e == MakeAdmin(d, c).db
              refused == \/ ~ValidID(c.target) \/ d.users[c.target] = None
                         \/ BanReason(d, c.target) # 0
  <1>1. CASE refused
    BY <1>1 DEF MakeAdmin, Refused, KeepsAnAdmin, PromotesNoBanned
  <1>2. CASE ~refused
    <2>1. /\ e.users = d.users /\ e.bans = d.bans
          /\ e.admins = d.admins \cup {c.target}
      BY <1>2 DEF MakeAdmin, Done, DBInsertAdmin, Tables
    <2>2. Consistent(e)
      BY <1>2, <2>1 DEF Consistent, AccountsExist, BansHaveABanner, BansHaveAReason
    <2>. QED BY <1>2, <2>1, <2>2 DEF KeepsAnAdmin, PromotesNoBanned
  <1>. QED BY <1>1, <1>2

\* A removal takes nobody whose bans stand, and never the last admin.
LEMMA RemoveConsistent ==
    ASSUME NEW d \in Tables, Consistent(d), NEW actor \in Users, NEW c \in Commands
    PROVE  LET e == RemoveAdmin(d, actor, c).db
           IN  Consistent(e) /\ KeepsAnAdmin(d, e) /\ e.admins \subseteq d.admins
  <1>. DEFINE e == RemoveAdmin(d, actor, c).db
              removes == /\ ValidID(c.target) /\ actor # c.target
                         /\ AdminDeletable(d, c.target)
                         /\ ~DeleteRestricted(d, c.target)
  <1>1. CASE ~removes
    <2>1. e = d
      BY <1>1 DEF RemoveAdmin, Refused, Failed, Done
    <2>. QED BY <2>1 DEF KeepsAnAdmin
  <1>2. CASE removes
    <2>1. c.target \in Users
      BY <1>2, CommandShape DEF ValidID
    <2>2. /\ e.users = d.users /\ e.bans = d.bans
          /\ e.admins = d.admins \ {c.target}
      BY <1>2 DEF RemoveAdmin, Done, DBDeleteAdmin, Tables
    <2>3. e.admins # {}
      BY <1>2, <2>1, <2>2, DeleteLeavesAnAdmin
    <2>4. Consistent(e)
      BY <1>2, <2>2
      DEF DeleteRestricted, Consistent, AccountsExist, BansHaveABanner, BansHaveAReason
    <2>. QED BY <2>2, <2>3, <2>4 DEF KeepsAnAdmin
  <1>. QED BY <1>1, <1>2

\* Every command, whoever runs it and however it answers, keeps the tables
\* consistent, keeps an admin, and promotes nobody who is banned.
THEOREM ResolveConsistent ==
    ASSUME NEW d \in Tables, Consistent(d), NEW actor \in Users,
           NEW c \in Commands, NEW id \in Requests \X Commands
    PROVE  LET e == Resolve(d, actor, c, id).db
           IN  Consistent(e) /\ KeepsAnAdmin(d, e) /\ PromotesNoBanned(d, e)
  <1>1. CASE c.kind = "ban"
    BY <1>1, BanConsistent DEF Resolve, KeepsAnAdmin, PromotesNoBanned
  <1>2. CASE c.kind = "unban"
    BY <1>2, UnbanConsistent DEF Resolve, KeepsAnAdmin, PromotesNoBanned
  <1>3. CASE c.kind = "make"
    BY <1>3, MakeConsistent DEF Resolve
  <1>4. CASE c.kind = "remove"
    BY <1>4, RemoveConsistent DEF Resolve, PromotesNoBanned
  <1>. QED BY <1>1, <1>2, <1>3, <1>4, CommandShape

\* So does a first sign-in.  The bootstrap rule checks no ban; it needs none,
\* because it fires only while there are no admins, and then there are no bans.
THEOREM SignInConsistent ==
    ASSUME NEW d \in Tables, Consistent(d), NEW u \in Users,
           NEW email \in RawEmail, NEW iat \in Nat
    PROVE  LET e == SignInByOIDC(d, u, email, iat).db
           IN  Consistent(e) /\ KeepsAnAdmin(d, e) /\ PromotesNoBanned(d, e)
  <1>. DEFINE core == Normalise(email)
              upserted == DBUpsertUserByOIDC(d, u, core, iat)
              e == SignInByOIDC(d, u, email, iat).db
  <1>1. CASE core = NoEmail
    BY <1>1 DEF SignInByOIDC, Failed, KeepsAnAdmin, PromotesNoBanned
  <1>2. CASE core # NoEmail
    <2>1. e = EnsureAdmin(upserted, u, core)
      BY <1>2 DEF SignInByOIDC, Done
    <2>2. /\ upserted.users = [d.users EXCEPT ![u] = [email |-> core, signin |-> iat]]
          /\ upserted.admins = d.admins /\ upserted.bans = d.bans
      BY DEF DBUpsertUserByOIDC, Tables
    <2>3. core \in Emails
      BY <1>2 DEF RawEmail, Normalise
    <2>4. upserted.users[u] # None
      BY <2>2, <2>3, StoreAssumption DEF Tables, Accounts
    <2>5. \A v \in Users : d.users[v] # None => upserted.users[v] # None
      BY <2>2, <2>4 DEF Tables
    <2>6. Consistent(upserted)
      BY <2>2, <2>5 DEF Consistent, AccountsExist, BansHaveABanner, BansHaveAReason, Tables
    <2>7. CASE ~Promotes(upserted, u, core)
      BY <2>1, <2>2, <2>6, <2>7 DEF EnsureAdmin, KeepsAnAdmin, PromotesNoBanned
    <2>8. CASE Promotes(upserted, u, core)
      <3>1. d.admins = {}
        BY <2>2, <2>8 DEF Promotes
      <3>2. \A v \in Users : d.bans[v] = None
        BY <3>1 DEF Consistent, BansHaveABanner
      <3>3. /\ e.users = upserted.users /\ e.bans = d.bans /\ e.admins = {u}
        BY <2>1, <2>2, <2>8, <3>1 DEF EnsureAdmin, DBInsertAdmin, DBUpsertUserByOIDC, Tables
      <3>4. Consistent(e)
        BY <2>4, <3>2, <3>3 DEF Consistent, AccountsExist, BansHaveABanner, BansHaveAReason
      <3>. QED BY <3>2, <3>3, <3>4 DEF KeepsAnAdmin, PromotesNoBanned, BanReason
    <2>. QED BY <2>7, <2>8
  <1>. QED BY <1>1, <1>2

\* The sign-in mark touches one field of one account.
LEMMA MarkConsistent ==
    ASSUME NEW d \in Tables, Consistent(d), NEW u \in Users, NEW iat \in Nat,
           SignInMatches(d, u, iat)
    PROVE  LET e == DBMarkSignIn(d, u, iat)
           IN  /\ Consistent(e) /\ e.admins = d.admins /\ e.bans = d.bans
               /\ \A v \in Users : d.users[v] # None =>
                     e.users[v] # None /\ e.users[v].signin >= d.users[v].signin
  <1>. DEFINE e == DBMarkSignIn(d, u, iat)
  <1>1. /\ e.admins = d.admins /\ e.bans = d.bans
        /\ e.users = [d.users EXCEPT ![u] = [d.users[u] EXCEPT !.signin = iat]]
    BY DEF DBMarkSignIn, Tables
  <1>2. d.users[u] \in Accounts /\ d.users[u].signin < iat
    BY DEF SignInMatches, Tables
  <1>3. e.users[u] \in Accounts /\ e.users[u].signin = iat
    BY <1>1, <1>2 DEF Accounts, Tables
  <1>4. \A v \in Users \ {u} : e.users[v] = d.users[v]
    BY <1>1 DEF Tables
  <1>5. \A v \in Users : d.users[v] # None =>
            e.users[v] # None /\ e.users[v].signin >= d.users[v].signin
    <2>. SUFFICES ASSUME NEW v \in Users, d.users[v] # None
                  PROVE  e.users[v] # None /\ e.users[v].signin >= d.users[v].signin
      OBVIOUS
    <2>1. d.users[v].signin \in Nat
      BY DEF Tables, Accounts
    <2>2. CASE v = u
      BY <1>2, <1>3, <2>1, <2>2, StoreAssumption
    <2>3. CASE v # u
      BY <1>4, <2>1, <2>3
    <2>. QED BY <2>2, <2>3
  <1>6. Consistent(e)
    BY <1>1, <1>5 DEF Consistent, AccountsExist, BansHaveABanner, BansHaveAReason, Tables
  <1>. QED BY <1>1, <1>5, <1>6

\* No command touches an account.
LEMMA ResolveKeepsAccounts ==
    ASSUME NEW d \in Tables, NEW actor \in Users, NEW c \in Commands,
           NEW id \in Requests \X Commands
    PROVE  Resolve(d, actor, c, id).db.users = d.users
  <1>. USE DEF Done, Refused, Failed, Tables
  <1>1. CASE c.kind = "ban"
    BY <1>1 DEF Resolve, BanUser, DBInsertUserBan, EnqueueUserBannedNotice
  <1>2. CASE c.kind = "unban"
    BY <1>2 DEF Resolve, UnbanUser, DBDeleteUserBan
  <1>3. CASE c.kind = "make"
    BY <1>3 DEF Resolve, MakeAdmin, DBInsertAdmin
  <1>4. CASE c.kind = "remove"
    BY <1>4 DEF Resolve, RemoveAdmin, DBDeleteAdmin
  <1>. QED BY <1>1, <1>2, <1>3, <1>4, CommandShape

\* A first sign-in touches the account of whoever signs in, and loses none.
LEMMA SignInKeepsAccounts ==
    ASSUME NEW d \in Tables, NEW u \in Users, NEW email \in RawEmail, NEW iat \in Nat
    PROVE  LET e == SignInByOIDC(d, u, email, iat).db
           IN  /\ \A v \in Users \ {u} : e.users[v] = d.users[v]
               /\ d.users[u] # None => e.users[u] # None
  <1>. DEFINE core == Normalise(email)
              upserted == DBUpsertUserByOIDC(d, u, core, iat)
              e == SignInByOIDC(d, u, email, iat).db
  <1>1. CASE core = NoEmail
    BY <1>1 DEF SignInByOIDC, Failed
  <1>2. CASE core # NoEmail
    <2>1. core \in Emails
      BY <1>2 DEF RawEmail, Normalise
    <2>2. upserted.users = [d.users EXCEPT ![u] = [email |-> core, signin |-> iat]]
      BY DEF DBUpsertUserByOIDC, Tables
    <2>3. upserted \in Tables
      BY <2>1, StatementsTyped
    <2>4. e.users = upserted.users
      BY <1>2, <2>3 DEF SignInByOIDC, Done, EnsureAdmin, DBInsertAdmin, Tables
    <2>5. [email |-> core, signin |-> iat] # None
      BY <2>1, StoreAssumption DEF Accounts
    <2>. QED BY <2>2, <2>4, <2>5 DEF Tables
  <1>. QED BY <1>1, <1>2

-----------------------------------------------------------------------------
\* The invariants of the running panel.

Started ==
    \A r \in Requests : pc[r] # "idle" => token[r] \in Tokens /\ op[r] \in Operations

WriterIsPending ==
    \A r \in Requests, k \in Work : writer = <<r, k>> => k \in Pending(r)

EntriesHeld == \A r \in Requests : pc[r] \in {"run", "flush"} => buffer[r] # <<>>

Typing == TypeOK /\ Started /\ WriterIsPending /\ EntriesHeld

-----------------------------------------------------------------------------
\* What a request may have pending, by where it is.
LEMMA PendingByPlace ==
    ASSUME NEW r \in Requests
    PROVE  /\ pc[r] = "signIn" => Pending(r) = {SignIn}
           /\ pc[r] = "run" => Pending(r) = op[r].commands \ Answered(r)
           /\ pc[r] \notin {"signIn", "run"} => Pending(r) = {}
  BY DEF Pending

\* The sign-in is not one of the commands.
LEMMA SignInIsNoCommand == SignIn \notin Commands
  BY DEF SignIn, Commands

\* The write connection with a holder is not the write connection without one.
LEMMA WriterNotNone ==
    ASSUME NEW q \in Requests, NEW k \in Work
    PROVE  <<q, k>> # None
  BY PanelAssumption

\* Only a request in its sign-in or running its commands has work pending, and
\* it is work of the right sort.
LEMMA PendingTyped ==
    ASSUME Typing, NEW r \in Requests
    PROVE  /\ Pending(r) \subseteq Work
           /\ Pending(r) # {} => pc[r] \in {"signIn", "run"}
           /\ \A k \in Pending(r) : k # SignIn => k \in Commands /\ pc[r] = "run"
           /\ SignIn \in Pending(r) => pc[r] = "signIn"
  <1>1. pc[r] = "run" => op[r].commands \subseteq Commands
    BY PanelAssumption DEF Typing, Started, OperationType
  <1>. QED BY <1>1, PendingByPlace, SignInIsNoCommand DEF Work

\* A step that leaves a request alone leaves what it has pending alone.
LEMMA PendingUnchanged ==
    ASSUME NEW q \in Requests,
           pc'[q] = pc[q], op'[q] = op[q], answers'[q] = answers[q]
    PROVE  Pending(q)' = Pending(q)
  BY DEF Pending, Answered

\* A step of a request that has nothing pending cannot be the writer's.
LEMMA BystanderStep ==
    ASSUME Typing, NEW r \in Requests, Pending(r) = {}, writer' = writer,
           \A q \in Requests \ {r} :
               pc'[q] = pc[q] /\ op'[q] = op[q] /\ answers'[q] = answers[q]
    PROVE  WriterIsPending'
  <1>. SUFFICES ASSUME NEW q \in Requests, NEW k \in Work, writer = <<q, k>>
                PROVE  k \in Pending(q)'
    BY DEF WriterIsPending
  <1>1. k \in Pending(q) /\ q # r
    BY DEF Typing, WriterIsPending
  <1>. QED BY <1>1, PendingUnchanged

-----------------------------------------------------------------------------
\* An arrival gives the request its token and operation and moves nothing else.
LEMMA ArrivalTyping ==
    ASSUME Typing, NEW r \in Requests, NEW t \in Tokens, NEW o \in Operations,
           Arrival(r, t, o), isAdmin' \in [Requests -> BOOLEAN],
           NEW place \in {"refused", "failed", "mark", "serve", "signIn"}, Goto(r, place)
    PROVE  Typing'
  <1>. USE DEF Arrival, Goto, transaction, trail
  <1>1. TypeOK'
    BY DEF Typing, TypeOK, InFlight, Over
  <1>2. Started'
    BY DEF Typing, TypeOK, Started
  <1>3. WriterIsPending'
    <2>1. Pending(r) = {}
      BY PendingByPlace
    <2>. QED BY <2>1, BystanderStep DEF Typing, TypeOK
  <1>4. EntriesHeld'
    BY DEF Typing, TypeOK, EntriesHeld
  <1>. QED BY <1>1, <1>2, <1>3, <1>4 DEF Typing

\* The handler's steps: those of a request past its identity and before its
\* commands, and those that flush.
LEMMA HandlerTyping ==
    ASSUME Typing, NEW r \in Requests, Pending(r) = {}, pc[r] # "idle",
           UNCHANGED <<token, op, isAdmin, answers>>,
           db' \in Tables, work' \in Tables, UNCHANGED <<writer, verdict>>,
           metrics' \in [Counters -> Nat], auditLog' \subseteq Rows, dropped' \subseteq Rows,
           NEW place \in {"serve", "run", "flush", "done"}, Goto(r, place),
           NEW entries \in Seq(AuditActions), buffer' = [buffer EXCEPT ![r] = entries],
           place \in {"run", "flush"} => entries # <<>>
    PROVE  Typing'
  <1>. USE DEF Goto
  <1>1. TypeOK'
    BY DEF Typing, TypeOK, InFlight, Over
  <1>2. Started'
    BY DEF Typing, TypeOK, Started
  <1>3. WriterIsPending'
    BY BystanderStep DEF Typing, TypeOK
  <1>4. EntriesHeld'
    BY DEF Typing, TypeOK, EntriesHeld
  <1>. QED BY <1>1, <1>2, <1>3, <1>4 DEF Typing

\* A request that gave up or got its answer keeps the record of its commands.
LEMMA ReplyTyping ==
    ASSUME Typing, NEW r \in Requests, NEW c \in Commands, c \in Pending(r),
           NEW v \in Verdicts, Reply(r, c, v), UNCHANGED <<token, op, isAdmin, buffer>>
    PROVE  /\ pc' \in [Requests -> InFlight \cup Over \cup {"idle"}]
           /\ answers' \in [Requests -> SUBSET [cmd : Commands, verdict : Verdicts]]
           /\ Started' /\ EntriesHeld'
           /\ \A q \in Requests, k \in Work :
                 k \in Pending(q) /\ <<q, k>> # <<r, c>> => k \in Pending(q)'
  <1>. USE DEF Reply, Goto
  <1>1. pc[r] = "run"
    BY PendingTyped, SignInIsNoCommand
  <1>2. pc' \in [Requests -> InFlight \cup Over \cup {"idle"}]
    BY DEF Typing, TypeOK, InFlight, Over
  <1>3. answers' \in [Requests -> SUBSET [cmd : Commands, verdict : Verdicts]]
    BY DEF Typing, TypeOK
  <1>4. Started'
    BY <1>1 DEF Typing, TypeOK, Started
  <1>5. EntriesHeld'
    BY <1>1 DEF Typing, TypeOK, EntriesHeld
  <1>6. ASSUME NEW q \in Requests, NEW k \in Work, k \in Pending(q), <<q, k>> # <<r, c>>
        PROVE  k \in Pending(q)'
    <2>1. CASE q # r
      BY <1>6, <2>1, PendingUnchanged DEF Typing, TypeOK
    <2>2. CASE q = r
      <3>1. k \in op[r].commands \ Answered(r) /\ k # c
        BY <1>1, <1>6, <2>2, PendingByPlace
      <3>2. answers'[r] = answers[r] \cup {[cmd |-> c, verdict |-> v]}
        BY DEF Typing, TypeOK
      <3>3. k \notin Answered(r)'
        <4>. SUFFICES ASSUME NEW a \in answers'[r], a.cmd = k PROVE FALSE
          BY DEF Answered
        <4>1. a \in answers[r] \/ a = [cmd |-> c, verdict |-> v]
          BY <3>2
        <4>. QED BY <3>1, <4>1 DEF Answered
      <3>4. pc'[r] = "run"
        BY <3>1 DEF Typing, TypeOK
      <3>5. Pending(r)' = op'[r].commands \ Answered(r)'
        BY <3>4 DEF Pending
      <3>. QED BY <2>2, <3>1, <3>3, <3>5
    <2>. QED BY <2>1, <2>2
  <1>. QED BY <1>2, <1>3, <1>4, <1>5, <1>6

\* The end of a transaction, or the failure to begin one, is well-typed.
LEMMA GiveUpTyping ==
    ASSUME Typing, NEW r \in Requests, NEW k \in Work, k \in Pending(r), GiveUp(r, k),
           \/ writer' = None /\ work' \in Tables /\ verdict' = "open"
           \/ UNCHANGED transaction /\ writer # <<r, k>>
    PROVE  Typing'
  <1>1. CASE k = SignIn
    <2>1. pc[r] = "signIn" /\ Pending(r) = {SignIn}
      BY <1>1, PendingTyped, PendingByPlace
    <2>2. Goto(r, "failed") /\ UNCHANGED <<answers, db, token, op, isAdmin, buffer, trail, metrics>>
      BY <1>1 DEF GiveUp
    <2>3. TypeOK'
      BY <2>2 DEF Typing, TypeOK, Goto, InFlight, Over, trail, transaction, Verdicts
    <2>4. Started' /\ EntriesHeld'
      BY <2>1, <2>2 DEF Typing, TypeOK, Started, EntriesHeld, Goto
    <2>5. WriterIsPending'
      <3>. SUFFICES ASSUME NEW q \in Requests, NEW j \in Work, writer' = <<q, j>>
                    PROVE  j \in Pending(q)'
        BY DEF WriterIsPending
      <3>0. <<q, j>> # None
        BY WriterNotNone
      <3>1. writer' = writer /\ writer # <<r, k>>
        BY <3>0 DEF transaction
      <3>2. j \in Pending(q) /\ q # r
        BY <1>1, <2>1, <3>1 DEF Typing, WriterIsPending
      <3>3. pc'[q] = pc[q] /\ op'[q] = op[q] /\ answers'[q] = answers[q]
        BY <2>2, <3>2 DEF Typing, TypeOK, Goto
      <3>. QED BY <3>2, <3>3, PendingUnchanged
    <2>. QED BY <2>3, <2>4, <2>5 DEF Typing
  <1>2. CASE k # SignIn
    <2>1. k \in Commands
      BY <1>2, PendingTyped
    <2>2. Reply(r, k, "error") /\ UNCHANGED <<db, token, op, isAdmin, buffer, trail, metrics>>
      BY <1>2 DEF GiveUp
    <2>3. /\ pc' \in [Requests -> InFlight \cup Over \cup {"idle"}]
          /\ answers' \in [Requests -> SUBSET [cmd : Commands, verdict : Verdicts]]
          /\ Started' /\ EntriesHeld'
          /\ \A q \in Requests, j \in Work :
                j \in Pending(q) /\ <<q, j>> # <<r, k>> => j \in Pending(q)'
      BY <2>1, <2>2, ReplyTyping DEF Verdicts
    <2>4. TypeOK'
      BY <2>2, <2>3 DEF Typing, TypeOK, trail, transaction, Verdicts
    <2>5. WriterIsPending'
      <3>. SUFFICES ASSUME NEW q \in Requests, NEW j \in Work, writer' = <<q, j>>
                    PROVE  j \in Pending(q)'
        BY DEF WriterIsPending
      <3>0. <<q, j>> # None
        BY WriterNotNone
      <3>1. writer' = writer /\ writer # <<r, k>>
        BY <3>0 DEF transaction
      <3>. QED BY <2>3, <3>1 DEF Typing, WriterIsPending
    <2>. QED BY <2>3, <2>4, <2>5 DEF Typing
  <1>. QED BY <1>1, <1>2

\* Counting changes nothing about the shape of the counters.
LEMMA IncreaseTyped ==
    ASSUME Typing, NEW c, Increase(c)
    PROVE  metrics' \in [Counters -> Nat]
  BY DEF Typing, TypeOK, Increase

\* Who a request in flight acts for, and with which token.
LEMMA ActorTyped ==
    ASSUME Typing, NEW r \in Requests, pc[r] # "idle"
    PROVE  /\ Actor(r) \in Users /\ token[r].email \in RawEmail /\ token[r].iat \in Nat
           /\ op[r].commands \subseteq Commands
  BY PanelAssumption DEF Typing, Started, Actor, TokenType, OperationType

-----------------------------------------------------------------------------
\* The arrivals, together.
LEMMA ArriveTyping ==
    ASSUME Typing, NEW r \in Requests, Arrive(r)
    PROVE  Typing'
  <1>. PICK t \in Tokens, o \in Operations :
           \/ RefuseUnidentified(r, t, o) \/ RefuseBanned(r, t, o)
           \/ IdentityFails(r, t, o) \/ Admit(r, t, o) \/ Meet(r, t, o)
    BY DEF Arrive
  <1>1. CASE RefuseUnidentified(r, t, o)
    BY <1>1, ArrivalTyping DEF RefuseUnidentified, Typing, TypeOK
  <1>2. CASE RefuseBanned(r, t, o)
    BY <1>2, ArrivalTyping DEF RefuseBanned, Typing, TypeOK
  <1>3. CASE IdentityFails(r, t, o)
    BY <1>3, ArrivalTyping DEF IdentityFails, Typing, TypeOK
  <1>4. CASE Admit(r, t, o)
    <2>. DEFINE identity == DBGetIdentityByOIDC(db, t.sub)
                place == IF t.iat > identity.signin THEN "mark" ELSE "serve"
    <2>1. Arrival(r, t, o) /\ Goto(r, place)
      BY <1>4 DEF Admit
    <2>2. isAdmin' = [isAdmin EXCEPT ![r] = t.sub \in db.admins]
      BY <1>4 DEF Admit, DBGetIdentityByOIDC
    <2>3. isAdmin' \in [Requests -> BOOLEAN]
      BY <2>2 DEF Typing, TypeOK
    <2>4. place \in {"refused", "failed", "mark", "serve", "signIn"}
      OBVIOUS
    <2>. HIDE DEF place
    <2>. QED BY <2>1, <2>3, <2>4, ArrivalTyping
  <1>5. CASE Meet(r, t, o)
    BY <1>5, ArrivalTyping DEF Meet, Typing, TypeOK
  <1>. QED BY <1>1, <1>2, <1>3, <1>4, <1>5

\* A handler that returned with entries leaves the request done or flushing.
LEMMA ReturnTyping ==
    ASSUME Typing, NEW r \in Requests, pc[r] \in {"serve", "flush"},
           NEW entries \in Seq(AuditActions), Return(r, entries),
           UNCHANGED <<db, transaction, token, op, isAdmin, answers>>,
           metrics' \in [Counters -> Nat], auditLog' \subseteq Rows, dropped' \subseteq Rows
    PROVE  Typing'
  <1>. DEFINE place == IF entries = <<>> THEN "done" ELSE "flush"
  <1>1. Goto(r, place) /\ buffer' = [buffer EXCEPT ![r] = entries]
    BY DEF Return
  <1>2. /\ place \in {"serve", "run", "flush", "done"}
        /\ place \in {"run", "flush"} => entries # <<>>
    OBVIOUS
  <1>3. Pending(r) = {}
    BY PendingByPlace
  <1>4. db' \in Tables /\ work' \in Tables /\ UNCHANGED <<writer, verdict>>
    BY DEF Typing, TypeOK, transaction
  <1>. HIDE DEF place
  <1>. QED BY <1>1, <1>2, <1>3, <1>4, HandlerTyping

\* An entry is an audit action, and appending it leaves a non-empty buffer.
LEMMA AppendTyped ==
    ASSUME Typing, NEW r \in Requests, NEW a \in AuditActions
    PROVE  /\ buffer[r] \in Seq(AuditActions)
           /\ Append(buffer[r], a) \in Seq(AuditActions)
           /\ Append(buffer[r], a) # <<>>
  BY DEF Typing, TypeOK

\* The handler's five root fields.
LEMMA ServeTyping ==
    ASSUME Typing, NEW r \in Requests,
           \/ Viewer(r) \/ SignOut(r) \/ DenyAdmin(r) \/ AdminQuery(r) \/ AdminMutation(r)
    PROVE  Typing'
  <1>. USE DEF AuditActions
  <1>0. pc[r] = "serve"
    BY DEF Viewer, SignOut, DenyAdmin, AdminQuery, AdminMutation
  <1>1. CASE Viewer(r)
    BY <1>0, <1>1, AppendTyped, ReturnTyping DEF Viewer, Typing, TypeOK, trail
  <1>2. CASE SignOut(r)
    BY <1>0, <1>2, AppendTyped, ReturnTyping DEF SignOut, Typing, TypeOK, trail
  <1>3. CASE DenyAdmin(r)
    <2>1. metrics' \in [Counters -> Nat]
      BY <1>3, IncreaseTyped DEF DenyAdmin
    <2>. QED BY <1>0, <1>3, <2>1, AppendTyped, ReturnTyping
             DEF DenyAdmin, Typing, TypeOK, trail
  <1>4. CASE AdminQuery(r)
    BY <1>0, <1>4, AppendTyped, ReturnTyping DEF AdminQuery, Typing, TypeOK, trail
  <1>5. CASE AdminMutation(r)
    <2>. DEFINE place == IF op[r].commands = {} THEN "flush" ELSE "run"
                entries == Append(buffer[r], "mutation")
    <2>1. Goto(r, place) /\ buffer' = [buffer EXCEPT ![r] = entries]
      BY <1>5 DEF AdminMutation, WriteAudit
    <2>2. place \in {"serve", "run", "flush", "done"}
      OBVIOUS
    <2>3. entries \in Seq(AuditActions) /\ entries # <<>>
      BY AppendTyped
    <2>4. Pending(r) = {}
      BY <1>0, PendingByPlace
    <2>5. UNCHANGED <<db, transaction, token, op, isAdmin, answers, trail, metrics>>
      BY <1>5 DEF AdminMutation
    <2>. HIDE DEF place, entries
    <2>. QED BY <1>0, <2>1, <2>2, <2>3, <2>4, <2>5, HandlerTyping
             DEF Typing, TypeOK, transaction, trail
  <1>. QED BY <1>1, <1>2, <1>3, <1>4, <1>5

\* The sign-in mark, taken or failed.
LEMMA MarkTyping ==
    ASSUME Typing, NEW r \in Requests, MarkSignIn(r) \/ MarkFails(r)
    PROVE  Typing'
  <1>0. pc[r] = "mark" /\ Pending(r) = {} /\ Goto(r, "serve")
    BY PendingByPlace DEF MarkSignIn, MarkFails
  <1>1. CASE MarkSignIn(r) /\ SignInMatches(db, Actor(r), token[r].iat)
    <2>1. /\ db' = DBMarkSignIn(db, Actor(r), token[r].iat) /\ work' = db'
          /\ Increase("signIns") /\ WriteAudit(r, "sign-in")
          /\ UNCHANGED <<writer, verdict, token, op, isAdmin, answers, trail>>
      BY <1>1 DEF MarkSignIn
    <2>2. db' \in Tables
      BY <1>0, <1>1, <2>1, ActorTyped, StatementsTyped DEF SignInMatches, Typing, TypeOK
    <2>3. metrics' \in [Counters -> Nat]
      BY <2>1, IncreaseTyped
    <2>4. /\ buffer' = [buffer EXCEPT ![r] = Append(buffer[r], "sign-in")]
          /\ Append(buffer[r], "sign-in") \in Seq(AuditActions)
      BY <2>1, AppendTyped DEF WriteAudit, AuditActions
    <2>. QED BY <1>0, <2>1, <2>2, <2>3, <2>4, HandlerTyping DEF Typing, TypeOK, trail
  <1>2. CASE MarkFails(r) \/ ~SignInMatches(db, Actor(r), token[r].iat)
    <2>1. /\ work' = work \/ work' = db
          /\ UNCHANGED <<db, writer, verdict, token, op, isAdmin, answers, buffer, trail,
                         metrics>>
      BY <1>2 DEF MarkSignIn, MarkFails, transaction
    <2>2. buffer' = [buffer EXCEPT ![r] = buffer[r]] /\ buffer[r] \in Seq(AuditActions)
      BY <2>1 DEF Typing, TypeOK
    <2>. QED BY <1>0, <2>1, <2>2, HandlerTyping DEF Typing, TypeOK, trail
  <1>. QED BY <1>1, <1>2

\* One audit entry written or given up.
LEMMA FlushTyping ==
    ASSUME Typing, NEW r \in Requests, FlushAudit(r) \/ FlushFails(r)
    PROVE  Typing'
  <1>1. pc[r] = "flush" /\ buffer[r] \in Seq(AuditActions) /\ buffer[r] # <<>>
    BY DEF FlushAudit, FlushFails, Typing, TypeOK, EntriesHeld
  <1>2. Head(buffer[r]) \in AuditActions /\ Tail(buffer[r]) \in Seq(AuditActions)
    BY <1>1
  <1>3. auditLog' \subseteq Rows /\ dropped' \subseteq Rows
    BY <1>2 DEF FlushAudit, FlushFails, Typing, TypeOK, Rows
  <1>4. /\ Return(r, Tail(buffer[r]))
        /\ UNCHANGED <<db, transaction, token, op, isAdmin, answers, metrics>>
    BY DEF FlushAudit, FlushFails, Flushed
  <1>. QED BY <1>1, <1>2, <1>3, <1>4, ReturnTyping DEF Typing, TypeOK

\* A step inside an open transaction leaves the requests as they are.
LEMMA InsideTyping ==
    ASSUME Typing, UNCHANGED <<db, request, trail>>, work' \in Tables,
           verdict' \in Verdicts \cup {"open"}, metrics' \in [Counters -> Nat],
           \/ UNCHANGED writer
           \/ \E r \in Requests : \E k \in Pending(r) : writer' = <<r, k>>
    PROVE  Typing'
  <1>. USE DEF request, trail
  <1>1. writer' \in (Requests \X Work) \cup {None}
    BY PendingTyped DEF Typing, TypeOK
  <1>2. TypeOK'
    BY <1>1 DEF Typing, TypeOK
  <1>3. Started' /\ EntriesHeld'
    BY DEF Typing, Started, EntriesHeld
  <1>4. \A q \in Requests : Pending(q)' = Pending(q)
    BY PendingUnchanged
  <1>5. WriterIsPending'
    BY <1>4 DEF Typing, WriterIsPending
  <1>. QED BY <1>2, <1>3, <1>5 DEF Typing

\* BEGIN, and the case that runs in the transaction.
LEMMA RunTyping ==
    ASSUME Typing, NEW r \in Requests,
           \/ ResolveSignIn(r)
           \/ \E k \in Pending(r) : Begin(r, k) \/ ResolveCommand(r, k)
    PROVE  Typing'
  <1>1. CASE ResolveSignIn(r)
    <2>1. pc[r] = "signIn"
      BY <1>1, PendingTyped DEF ResolveSignIn, Running, Typing, WriterIsPending, Work
    <2>2. /\ work' = SignInByOIDC(work, Actor(r), token[r].email, token[r].iat).db
          /\ verdict' = SignInByOIDC(work, Actor(r), token[r].email, token[r].iat).verdict
          /\ UNCHANGED <<db, writer, request, trail, metrics>>
      BY <1>1 DEF ResolveSignIn
    <2>3. work' \in Tables /\ verdict' \in Verdicts
      BY <2>1, <2>2, ActorTyped, SignInTyped DEF Typing, TypeOK
    <2>. QED BY <2>2, <2>3, InsideTyping DEF Typing, TypeOK
  <1>2. ASSUME NEW k \in Pending(r), Begin(r, k)
        PROVE  Typing'
    BY <1>2, InsideTyping DEF Begin, Typing, TypeOK
  <1>3. ASSUME NEW k \in Pending(r), ResolveCommand(r, k)
        PROVE  Typing'
    <2>1. k \in Commands /\ pc[r] = "run"
      BY <1>3, PendingTyped DEF ResolveCommand
    <2>2. /\ work' = Resolve(work, Actor(r), k, <<r, k>>).db
          /\ verdict' = Resolve(work, Actor(r), k, <<r, k>>).verdict
          /\ Increase(Resolve(work, Actor(r), k, <<r, k>>).counter)
          /\ UNCHANGED <<db, writer, request, trail>>
      BY <1>3 DEF ResolveCommand
    <2>3. work' \in Tables /\ verdict' \in Verdicts
      BY <2>1, <2>2, ActorTyped, ResolveTyped DEF Typing, TypeOK
    <2>4. metrics' \in [Counters -> Nat]
      BY <2>2, IncreaseTyped
    <2>. QED BY <2>2, <2>3, <2>4, InsideTyping
  <1>. QED BY <1>1, <1>2, <1>3

\* The two commits: the tables are the transaction's, the connection is free.
LEMMA CommitTyping ==
    ASSUME Typing, NEW r \in Requests,
           CommitSignIn(r) \/ \E k \in Pending(r) : CommitCommand(r, k)
    PROVE  Typing'
  <1>. USE DEF Release
  <1>1. CASE CommitSignIn(r)
    <2>1. pc[r] = "signIn"
      BY <1>1, PendingTyped DEF CommitSignIn, Typing, WriterIsPending, Work
    <2>2. /\ db' = work /\ writer' = None /\ work' = db' /\ verdict' = "open"
          /\ isAdmin' = [isAdmin EXCEPT ![r] = Actor(r) \in work.admins]
          /\ Increase("signIns") /\ WriteAudit(r, "sign-in") /\ Goto(r, "serve")
          /\ UNCHANGED <<token, op, answers, trail>>
      BY <1>1 DEF CommitSignIn
    <2>3. metrics' \in [Counters -> Nat]
      BY <2>2, IncreaseTyped
    <2>4. isAdmin' \in [Requests -> BOOLEAN]
      BY <2>2 DEF Typing, TypeOK
    <2>5. /\ buffer' = [buffer EXCEPT ![r] = Append(buffer[r], "sign-in")]
          /\ Append(buffer[r], "sign-in") \in Seq(AuditActions)
      BY <2>2, AppendTyped DEF WriteAudit, AuditActions
    <2>6. TypeOK'
      BY <2>2, <2>3, <2>4, <2>5 DEF Typing, TypeOK, Goto, trail, InFlight
    <2>7. Started' /\ EntriesHeld'
      BY <2>1, <2>2, <2>5 DEF Typing, TypeOK, Started, EntriesHeld, Goto
    <2>8. WriterIsPending'
      BY <2>2, WriterNotNone DEF WriterIsPending
    <2>. QED BY <2>6, <2>7, <2>8 DEF Typing
  <1>2. ASSUME NEW k \in Pending(r), CommitCommand(r, k)
        PROVE  Typing'
    <2>1. k \in Commands /\ verdict \in Verdicts
      BY <1>2, PendingTyped DEF CommitCommand, Verdicts
    <2>2. /\ db' = work /\ writer' = None /\ work' = db' /\ verdict' = "open"
          /\ Reply(r, k, verdict)
          /\ UNCHANGED <<token, op, isAdmin, buffer, trail, metrics>>
      BY <1>2 DEF CommitCommand
    <2>3. /\ pc' \in [Requests -> InFlight \cup Over \cup {"idle"}]
          /\ answers' \in [Requests -> SUBSET [cmd : Commands, verdict : Verdicts]]
          /\ Started' /\ EntriesHeld'
      BY <2>1, <2>2, ReplyTyping
    <2>4. TypeOK'
      BY <2>2, <2>3 DEF Typing, TypeOK, trail
    <2>5. WriterIsPending'
      BY <2>2, WriterNotNone DEF WriterIsPending
    <2>. QED BY <2>3, <2>4, <2>5 DEF Typing
  <1>. QED BY <1>1, <1>2

\* The transactions that end otherwise, or do not begin.
LEMMA FailureTyping ==
    ASSUME Typing, NEW r \in Requests, NEW k \in Pending(r),
           Rollback(r, k) \/ TxFails(r, k) \/ BeginFails(r, k)
    PROVE  Typing'
  <1>1. k \in Work
    BY PendingTyped
  <1>2. GiveUp(r, k) /\ db' = db
    BY DEF Rollback, TxFails, BeginFails, GiveUp
  <1>3. \/ writer' = None /\ work' \in Tables /\ verdict' = "open"
        \/ UNCHANGED transaction /\ writer # <<r, k>>
    BY <1>2 DEF Rollback, TxFails, BeginFails, Release, Typing, TypeOK
  <1>. QED BY <1>1, <1>2, <1>3, GiveUpTyping

\* A restart finds every request over or not yet arrived.
LEMMA CrashTyping ==
    ASSUME Typing, Crash
    PROVE  Typing'
  <1>. USE DEF Crash, Release
  <1>1. /\ pc' \in [Requests -> InFlight \cup Over \cup {"idle"}]
        /\ buffer' \in [Requests -> Seq(AuditActions)]
        /\ metrics' \in [Counters -> Nat]
    BY DEF Typing, TypeOK, Over
  <1>2. dropped' \subseteq Rows
    BY DEF Typing, TypeOK
  <1>3. TypeOK'
    BY <1>1, <1>2 DEF Typing, TypeOK
  <1>4. Started'
    BY DEF Typing, TypeOK, Started, InFlight
  <1>5. EntriesHeld'
    BY DEF EntriesHeld, InFlight
  <1>6. WriterIsPending'
    BY WriterNotNone DEF WriterIsPending
  <1>. QED BY <1>3, <1>4, <1>5, <1>6 DEF Typing

-----------------------------------------------------------------------------
\* The process starts well-typed.
LEMMA TypingInit == Init => Typing
  <1>. SUFFICES ASSUME Init PROVE Typing
    OBVIOUS
  <1>1. TypeOK
    BY PanelAssumption DEF Init, TypeOK
  <1>2. Started /\ EntriesHeld
    BY DEF Init, Started, EntriesHeld
  <1>3. WriterIsPending
    BY WriterNotNone DEF Init, WriterIsPending
  <1>. QED BY <1>1, <1>2, <1>3 DEF Typing

\* A stuttering step changes nothing Typing looks at.
LEMMA TypingStutter ==
    ASSUME Typing, UNCHANGED vars
    PROVE  Typing'
  BY DEF Typing, TypeOK, Started, EntriesHeld, WriterIsPending, Pending, Answered, vars

\* Typing is inductive.
LEMMA TypingNext ==
    ASSUME Typing, [Next]_vars
    PROVE  Typing'
  <1>1. CASE UNCHANGED vars
    BY <1>1, TypingStutter
  <1>2. CASE Crash
    BY <1>2, CrashTyping
  <1>3. ASSUME NEW r \in Requests, Arrive(r) PROVE Typing'
    BY <1>3, ArriveTyping
  <1>4. ASSUME NEW r \in Requests, Step(r) PROVE Typing'
    BY <1>4, MarkTyping, ServeTyping, RunTyping, CommitTyping, FailureTyping, FlushTyping
       DEF Step
  <1>5. ASSUME NEW r \in Requests, Fault(r) PROVE Typing'
    BY <1>5, MarkTyping, FailureTyping, FlushTyping DEF Fault
  <1>. QED BY <1>1, <1>2, <1>3, <1>4, <1>5 DEF Next

\* Every variable of the panel keeps its type: a request that runs commands has
\* a token and an operation, and a flush always finds an entry.
THEOREM TypeCorrect == Spec => []TypeOK
  <1>1. Typing /\ [Next]_vars => Typing'
    BY TypingNext
  <1>2. Typing => TypeOK
    BY DEF Typing
  <1>. QED BY <1>1, <1>2, TypingInit, PTL DEF Spec

-----------------------------------------------------------------------------
\* The tables of the open transaction have lost no account, and differ from the
\* committed ones in no account but the one being signed in.
AccountsKept ==
    \A u \in Users : db.users[u] # None =>
        /\ work.users[u] # None
        /\ \/ work.users[u] = db.users[u]
           \/ \E r \in Requests : writer = <<r, SignIn>> /\ Actor(r) = u

\* A commit of the open transaction would be safe, whenever it comes.
Sound ==
    /\ Consistent(db) /\ Consistent(work)
    /\ KeepsAnAdmin(db, work) /\ PromotesNoBanned(db, work)
    /\ AccountsKept
    /\ writer # None /\ verdict = "open" => work = db

\* What the safety properties ask of a single step.
Forward(u) ==
    db.users[u] # None =>
        /\ db'.users[u] # None
        /\ \/ db'.users[u].signin >= db.users[u].signin
           \/ \E r \in Requests : writer = <<r, SignIn>> /\ Actor(r) = u
SafeStep ==
    /\ KeepsAnAdmin(db, db') /\ PromotesNoBanned(db, db')
    /\ writer # None /\ writer' = writer => db' = db
    /\ \A u \in Users : Forward(u)

\* A step that does not commit is safe.
LEMMA NoCommitSafe ==
    ASSUME Typing, db' = db
    PROVE  SafeStep
  BY DEF Typing, TypeOK, Tables, Accounts, SafeStep, Forward, KeepsAnAdmin, PromotesNoBanned

\* A step outside the transaction leaves it as it was.
LEMMA AsideSound ==
    ASSUME Typing, Sound, UNCHANGED <<db, transaction>>,
           \A q \in Requests : pc[q] # "idle" => token'[q] = token[q]
    PROVE  Sound'
  <1>. USE DEF transaction
  <1>1. \A r \in Requests : writer = <<r, SignIn>> => Actor(r)' = Actor(r)
    <2>. SUFFICES ASSUME NEW r \in Requests, writer = <<r, SignIn>>
                  PROVE  Actor(r)' = Actor(r)
      OBVIOUS
    <2>1. pc[r] = "signIn"
      BY PendingTyped DEF Typing, WriterIsPending, Work
    <2>. QED BY <2>1 DEF Actor
  <1>2. AccountsKept'
    BY <1>1 DEF Sound, AccountsKept
  <1>. QED BY <1>2 DEF Sound, KeepsAnAdmin, PromotesNoBanned, BanReason, Consistent,
               AccountsExist, BansHaveABanner, BansHaveAReason

\* A transaction that sees the committed tables is sound.
LEMMA LevelSound ==
    ASSUME db' \in Tables, Consistent(db)', work' = db'
    PROVE  Sound'
  <1>1. Consistent(work)'
    BY DEF Consistent, AccountsExist, BansHaveABanner, BansHaveAReason
  <1>. QED BY <1>1 DEF Sound, KeepsAnAdmin, PromotesNoBanned, AccountsKept

\* Consistency is a property of the tables alone.
LEMMA ConsistentLater ==
    ASSUME NEW d, Consistent(d)
    PROVE  /\ db' = d => Consistent(db)'
           /\ work' = d => Consistent(work)'
  BY DEF Consistent, AccountsExist, BansHaveABanner, BansHaveAReason

-----------------------------------------------------------------------------
\* Steps that leave the database and the transaction alone.
LEMMA AsideSteps ==
    ASSUME Typing, Sound, NEW r \in Requests,
           \/ Arrive(r) \/ MarkFails(r)
           \/ Viewer(r) \/ SignOut(r) \/ DenyAdmin(r) \/ AdminQuery(r) \/ AdminMutation(r)
           \/ \E k \in Pending(r) : BeginFails(r, k)
           \/ FlushAudit(r) \/ FlushFails(r)
    PROVE  Sound' /\ SafeStep
  <1>1. UNCHANGED <<db, transaction>>
    BY DEF Arrive, RefuseUnidentified, RefuseBanned, IdentityFails, Admit, Meet, Arrival,
           MarkFails, Viewer, SignOut, DenyAdmin, AdminQuery, AdminMutation, BeginFails, GiveUp, FlushAudit,
           FlushFails
  <1>2. \A q \in Requests : pc[q] # "idle" => token'[q] = token[q]
    <2>1. CASE Arrive(r)
      <3>1. PICK t \in Tokens : pc[r] = "idle" /\ token' = [token EXCEPT ![r] = t]
        BY <2>1 DEF Arrive, RefuseUnidentified, RefuseBanned, IdentityFails, Admit, Meet, Arrival
      <3>. QED BY <3>1 DEF Typing, TypeOK
    <2>2. CASE ~Arrive(r)
      <3>1. token' = token
        BY <2>2 DEF MarkFails, Viewer, SignOut, DenyAdmin, AdminQuery, AdminMutation,
                    BeginFails, GiveUp, FlushAudit, FlushFails
      <3>. QED BY <3>1
    <2>. QED BY <2>1, <2>2
  <1>. QED BY <1>1, <1>2, AsideSound, NoCommitSafe

\* Steps that open a transaction, or end it without a commit.
LEMMA LevelSteps ==
    ASSUME Typing, Sound,
           \/ Crash
           \/ \E r \in Requests : \E k \in Pending(r) :
                 Begin(r, k) \/ Rollback(r, k) \/ TxFails(r, k)
    PROVE  Sound' /\ SafeStep
  <1>1. db' = db /\ work' = db
    BY DEF Crash, Begin, Rollback, TxFails, GiveUp, Release
  <1>2. db' \in Tables /\ Consistent(db)'
    BY <1>1, ConsistentLater DEF Typing, TypeOK, Sound
  <1>. QED BY <1>1, <1>2, LevelSound, NoCommitSafe

\* The sign-in mark commits by itself, with nobody holding the connection.
LEMMA MarkSound ==
    ASSUME Typing, Sound, NEW r \in Requests, MarkSignIn(r)
    PROVE  Sound' /\ SafeStep
  <1>1. pc[r] = "mark" /\ writer = None /\ work' = db'
    BY DEF MarkSignIn
  <1>2. CASE SignInMatches(db, Actor(r), token[r].iat)
    <2>. DEFINE e == DBMarkSignIn(db, Actor(r), token[r].iat)
    <2>1. db' = e
      BY <1>2 DEF MarkSignIn
    <2>2. /\ Consistent(e) /\ e.admins = db.admins /\ e.bans = db.bans /\ e \in Tables
          /\ \A v \in Users : db.users[v] # None =>
                e.users[v] # None /\ e.users[v].signin >= db.users[v].signin
      BY <1>1, <1>2, ActorTyped, MarkConsistent, StatementsTyped
         DEF Sound, Typing, TypeOK, SignInMatches
    <2>. HIDE DEF e
    <2>3. Sound'
      BY <1>1, <2>1, <2>2, ConsistentLater, LevelSound
    <2>4. SafeStep
      BY <1>1, <2>1, <2>2 DEF SafeStep, Forward, KeepsAnAdmin, PromotesNoBanned
    <2>. QED BY <2>3, <2>4
  <1>3. CASE ~SignInMatches(db, Actor(r), token[r].iat)
    <2>1. db' = db
      BY <1>3 DEF MarkSignIn
    <2>2. db' \in Tables /\ Consistent(db)'
      BY <2>1, ConsistentLater DEF Typing, TypeOK, Sound
    <2>. QED BY <1>1, <2>1, <2>2, LevelSound, NoCommitSafe
  <1>. QED BY <1>2, <1>3

\* The case moves the transaction's tables only, from the committed ones.
LEMMA CaseSound ==
    ASSUME Typing, Sound, NEW r \in Requests,
           ResolveSignIn(r) \/ \E k \in Pending(r) : ResolveCommand(r, k)
    PROVE  Sound' /\ SafeStep
  <1>1. /\ UNCHANGED <<db, writer, token>> /\ work = db
        /\ db \in Tables /\ Consistent(db)
    <2>1. writer # None /\ verdict = "open"
      BY PendingTyped, WriterNotNone DEF ResolveSignIn, ResolveCommand, Running, Work
    <2>. QED BY <2>1 DEF ResolveSignIn, ResolveCommand, request, Sound, Typing, TypeOK
  <1>2. CASE ResolveSignIn(r)
    <2>. DEFINE e == SignInByOIDC(work, Actor(r), token[r].email, token[r].iat).db
    <2>1. pc[r] = "signIn" /\ writer = <<r, SignIn>>
      BY <1>2, PendingTyped DEF ResolveSignIn, Running, Typing, WriterIsPending, Work
    <2>2. work' = e
      BY <1>2 DEF ResolveSignIn
    <2>3. /\ Actor(r) \in Users
          /\ Consistent(e) /\ KeepsAnAdmin(db, e) /\ PromotesNoBanned(db, e)
          /\ \A v \in Users \ {Actor(r)} : e.users[v] = db.users[v]
          /\ db.users[Actor(r)] # None => e.users[Actor(r)] # None
          /\ SignInByOIDC(work, Actor(r), token[r].email, token[r].iat).verdict \in Verdicts
      BY <1>1, <2>1, ActorTyped, SignInConsistent, SignInKeepsAccounts, SignInTyped
    <2>4. verdict' # "open"
      BY <1>2, <2>3 DEF ResolveSignIn, Verdicts
    <2>. HIDE DEF e
    <2>5. Consistent(work)' /\ Consistent(db)'
      BY <1>1, <2>2, <2>3, ConsistentLater
    <2>6. AccountsKept'
      BY <1>1, <2>1, <2>2, <2>3 DEF AccountsKept, Actor
    <2>7. Sound'
      BY <1>1, <2>2, <2>3, <2>4, <2>5, <2>6 DEF Sound, KeepsAnAdmin, PromotesNoBanned, BanReason
    <2>. QED BY <1>1, <2>7, NoCommitSafe
  <1>3. ASSUME NEW k \in Pending(r), ResolveCommand(r, k)
        PROVE  Sound' /\ SafeStep
    <2>. DEFINE e == Resolve(work, Actor(r), k, <<r, k>>).db
    <2>1. k \in Commands /\ pc[r] = "run" /\ writer = <<r, k>>
      BY <1>3, PendingTyped DEF ResolveCommand, Running
    <2>2. work' = e
      BY <1>3 DEF ResolveCommand
    <2>3. /\ Consistent(e) /\ KeepsAnAdmin(db, e) /\ PromotesNoBanned(db, e)
          /\ e.users = db.users
          /\ Resolve(work, Actor(r), k, <<r, k>>).verdict \in Verdicts
      BY <1>1, <2>1, ActorTyped, ResolveConsistent, ResolveKeepsAccounts, ResolveTyped
    <2>4. verdict' # "open"
      BY <1>3, <2>3 DEF ResolveCommand, Verdicts
    <2>. HIDE DEF e
    <2>5. Consistent(work)' /\ Consistent(db)'
      BY <1>1, <2>2, <2>3, ConsistentLater
    <2>6. AccountsKept'
      BY <1>1, <2>2, <2>3 DEF AccountsKept
    <2>7. Sound'
      BY <1>1, <2>2, <2>3, <2>4, <2>5, <2>6 DEF Sound, KeepsAnAdmin, PromotesNoBanned, BanReason
    <2>. QED BY <1>1, <2>7, NoCommitSafe
  <1>. QED BY <1>2, <1>3

\* A commit publishes sound tables and gives the connection back.
LEMMA CommitSound ==
    ASSUME Typing, Sound, NEW r \in Requests,
           CommitSignIn(r) \/ \E k \in Pending(r) : CommitCommand(r, k)
    PROVE  Sound' /\ SafeStep
  <1>1. db' = work /\ work' = db' /\ writer' = None /\ writer # None
    BY PendingTyped, WriterNotNone DEF CommitSignIn, CommitCommand, Release, Work
  <1>2. db' \in Tables /\ Consistent(db)'
    BY <1>1, ConsistentLater DEF Typing, TypeOK, Sound
  <1>3. Sound'
    BY <1>1, <1>2, LevelSound
  <1>4. ASSUME NEW u \in Users PROVE Forward(u)
    <2>1. db.users[u] # None => db.users[u].signin \in Nat
      BY DEF Typing, TypeOK, Tables, Accounts
    <2>. QED BY <1>1, <2>1 DEF Forward, Sound, AccountsKept
  <1>5. KeepsAnAdmin(db, db') /\ PromotesNoBanned(db, db')
    BY <1>1 DEF Sound, KeepsAnAdmin, PromotesNoBanned
  <1>. QED BY <1>1, <1>3, <1>4, <1>5 DEF SafeStep

\* Every step from a sound state is safe and leads to a sound state.
LEMMA SoundNext ==
    ASSUME Typing, Sound, [Next]_vars
    PROVE  Sound' /\ SafeStep
  <1>1. CASE UNCHANGED vars
    BY <1>1, AsideSound, NoCommitSafe DEF vars, transaction
  <1>2. CASE Crash
    BY <1>2, LevelSteps
  <1>3. ASSUME NEW r \in Requests, Arrive(r) PROVE Sound' /\ SafeStep
    BY <1>3, AsideSteps
  <1>4. ASSUME NEW r \in Requests, Step(r) PROVE Sound' /\ SafeStep
    BY <1>4, AsideSteps, LevelSteps, MarkSound, CaseSound, CommitSound DEF Step
  <1>5. ASSUME NEW r \in Requests, Fault(r) PROVE Sound' /\ SafeStep
    BY <1>5, AsideSteps, LevelSteps DEF Fault
  <1>. QED BY <1>1, <1>2, <1>3, <1>4, <1>5 DEF Next

\* A file left by an earlier run is sound to start on.
LEMMA SoundInit == Init => Sound
  BY PanelAssumption
     DEF Init, Sound, KeepsAnAdmin, PromotesNoBanned, AccountsKept, Consistent, AccountsExist,
         BansHaveABanner, BansHaveAReason

\* The two inductive invariants, and what they make of every step.
LEMMA Invariants == Spec => [](Typing /\ Sound) /\ [][SafeStep]_vars
  <1>1. Init => Typing /\ Sound
    BY TypingInit, SoundInit
  <1>2. Typing /\ Sound /\ [Next]_vars => (Typing /\ Sound)' /\ SafeStep
    BY TypingNext, SoundNext
  <1>. QED BY <1>1, <1>2, PTL DEF Spec

-----------------------------------------------------------------------------
\* A sole admin is never banned: his ban would need another admin who imposed it
\* (the foreign key user_bans.banned_by and the refusal in banuser).
THEOREM SoleAdminSafe == Spec => []SoleAdminNotBanned
  <1>1. Sound => SoleAdminNotBanned
    BY DEF Sound, Consistent, BansHaveABanner, SoleAdminNotBanned, BanReason
  <1>. QED BY <1>1, Invariants, PTL

\* Every stored ban keeps its owner out: banuser trims the reason before it
\* requires one, so none is stored empty.
THEOREM BansAlwaysBite == Spec => []BansBite
  <1>1. Sound => BansBite
    BY StoreAssumption DEF Sound, Consistent, BansHaveAReason, BansBite, BanReason
  <1>. QED BY <1>1, Invariants, PTL

\* Whatever removeAdmin requests overlap, an installation that has an admin keeps
\* one: the delete statement counts the admins that are left.
THEOREM AnAdminRemains == Spec => AdminsNeverEmptied
  <1>1. SafeStep => (db.admins # {} => db'.admins # {})
    BY DEF SafeStep, KeepsAnAdmin
  <1>. QED BY <1>1, Invariants, PTL DEF AdminsNeverEmptied

\* Nobody who is banned becomes an admin, by a grant or by the bootstrap rule.
THEOREM BannedStayOut == Spec => NoBannedPromotion
  <1>1. SafeStep => \A u \in db'.admins \ db.admins : BanReason(db, u) = 0
    BY DEF SafeStep, PromotesNoBanned
  <1>. QED BY <1>1, Invariants, PTL DEF NoBannedPromotion

\* While a transaction is open no other write reaches the file: the write pool
\* has one connection and the sign-in mark waits for it too.
THEOREM WritersExclude == Spec => OneWriter
  <1>1. SafeStep => (writer # None /\ writer' = writer => db' = db)
    BY DEF SafeStep
  <1>. QED BY <1>1, Invariants, PTL DEF OneWriter

\* No account is lost, and last_signin_at moves back only by the upsert of a
\* first sign-in that was under way.
THEOREM SignInsAdvance == Spec => SignInNeverRegresses
  <1>1. SafeStep =>
            \A u \in Users : db.users[u] # None =>
                /\ db'.users[u] # None
                /\ \/ db'.users[u].signin >= db.users[u].signin
                   \/ \E r \in Requests : writer = <<r, SignIn>> /\ Actor(r) = u
    BY DEF SafeStep, Forward
  <1>. QED BY <1>1, Invariants, PTL DEF SignInNeverRegresses
=============================================================================
