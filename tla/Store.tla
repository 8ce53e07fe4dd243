------------------------------- MODULE Store -------------------------------
(***************************************************************************)
(* The panel's tables, the SQL statements that read and change them, and   *)
(* the domain cases (internal/case) that run over them inside a            *)
(* transaction.  Everything here is a pure operator on a tables record; a  *)
(* statement that SQLite refuses (a foreign key) is an outcome, not a      *)
(* missing transition.                                                     *)
(*                                                                         *)
(* A row id and the (issuer, subject) pair it was created for name the     *)
(* same account for ever (unique index users_oidc_identity, no delete from *)
(* users), so one element of Users stands for both.  A text is its length  *)
(* or its name, with a flag for the case and padding that TrimSpace and    *)
(* ToLower remove.  Times are the token's iat in seconds, 0 for NULL.      *)
(***************************************************************************)
EXTENDS Naturals, FiniteSets

CONSTANTS
    Users,       \* accounts: (issuer, subject) pairs, and their row ids
    Requests,    \* HTTP requests; a queued message is named by its sender
    Emails,      \* normalised addresses other than the empty one
    Reasons,     \* ban reasons a client may send, see RawReason
    MaxReason,   \* the longest reason banuser accepts (500 in the code)
    Bootstrap,   \* STARTERKIT_BOOTSTRAP_ADMIN, as configured
    None         \* no row; also a user id below 1

NoEmail == ""

\* A text as it arrives: what is left of it after TrimSpace (and ToLower),
\* and whether those calls change anything.
RawEmail == [core : Emails \cup {NoEmail}, tidy : BOOLEAN]
RawReason == [core : Nat, tidy : BOOLEAN]

\* The arguments of the four admin mutations.
Commands ==
    [kind : {"ban"}, target : Users \cup {None}, reason : Reasons]
        \cup [kind : {"unban", "make", "remove"}, target : Users \cup {None}]

\* Rows.  email stands for the whole profile (email and name).
Accounts == [email : Emails, signin : Nat]
Bans == [by : Users, reason : Nat]
Jobs == [id : Requests \X Commands, to : Users]

Tables ==
    [users : [Users -> Accounts \cup {None}],
     admins : SUBSET Users,
     bans : [Users -> Bans \cup {None}],
     jobs : SUBSET Jobs]

ASSUME StoreAssumption ==
    /\ IsFiniteSet(Users)
    /\ None \notin Users /\ None \notin Accounts /\ None \notin Bans
    /\ NoEmail \notin Emails
    /\ Reasons \subseteq RawReason
    /\ MaxReason \in Nat \ {0}
    /\ Bootstrap \in RawEmail

EmptyTables ==
    [users |-> [u \in Users |-> None], admins |-> {},
     bans |-> [u \in Users |-> None], jobs |-> {}]

-----------------------------------------------------------------------------
\* Conversions.

TrimSpace(text) == text.core

\* strings.ToLower(strings.TrimSpace(email))
Normalise(text) == text.core

IsEmpty(text) == text.tidy /\ text.core = NoEmail

-----------------------------------------------------------------------------
\* Reads.

\* coalesce(b.reason, ''): 0 when there is no ban, the reason otherwise.
BanReason(d, u) == IF d.bans[u] = None THEN 0 ELSE d.bans[u].reason

\* The single lookup that turns a token into a person.
DBGetIdentityByOIDC(d, u) ==
    [signin |-> d.users[u].signin, isAdmin |-> u \in d.admins,
     banReason |-> BanReason(d, u)]

\* ozzo.Required and ozzo.Min(1) on a user id.
ValidID(id) == id # None

-----------------------------------------------------------------------------
\* Writes.

DBUpsertUserByOIDC(d, u, email, iat) ==
    [d EXCEPT !.users[u] = [email |-> email, signin |-> iat]]

\* Mutant: an off-by-one in the comparison.
SignInMatchesAgain(d, u, iat) == d.users[u] # None /\ d.users[u].signin <= iat

\* One statement decides and writes: does this iat move the row forward?
SignInMatches(d, u, iat) == d.users[u] # None /\ d.users[u].signin < iat

DBMarkSignIn(d, u, iat) == [d EXCEPT !.users[u].signin = iat]

\* on conflict(user_id) do nothing
DBInsertAdmin(d, u) == [d EXCEPT !.admins = @ \cup {u}]

\* Mutant: the count is not part of the statement.
AdminDeletableUncounted(d, u) == u \in d.admins

\* where user_id = ? and (select count(*) from admins) > 1
AdminDeletable(d, u) == u \in d.admins /\ Cardinality(d.admins) > 1

\* Mutant: SQLite's default, foreign_keys off.
DeleteUnrestricted(d, u) == FALSE

\* user_bans.banned_by references admins(user_id) on delete restrict
DeleteRestricted(d, u) == \E v \in Users : d.bans[v] # None /\ d.bans[v].by = u

DBDeleteAdmin(d, u) == [d EXCEPT !.admins = @ \ {u}]

\* A new ban row needs its banner in admins; the conflict path rewrites only
\* the reason, so it leaves banned_by alone and checks no foreign key.
BanViolatesForeignKey(d, u, by) == d.bans[u] = None /\ by \notin d.admins

DBInsertUserBan(d, u, by, reason) ==
    [d EXCEPT !.bans[u] =
        [by |-> IF d.bans[u] = None THEN by ELSE d.bans[u].by,
         reason |-> reason]]

DBDeleteUserBan(d, u) == [d EXCEPT !.bans[u] = None]

\* goqitejobs.CreateTx: the message is a row of the same database, written by
\* the transaction that is open.
EnqueueUserBannedNotice(d, id, u) ==
    [d EXCEPT !.jobs = @ \cup {[id |-> id, to |-> u]}]

-----------------------------------------------------------------------------
\* Cases.  Each returns the tables it leaves, how it answers ("ok", "refused"
\* for an ErrorPayload, "error" for a Go error) and the counter it moved.

Verdicts == {"ok", "refused", "error"}

Done(d, counter) == [db |-> d, verdict |-> "ok", counter |-> counter]
Refused(d) == [db |-> d, verdict |-> "refused", counter |-> "none"]
Failed(d) == [db |-> d, verdict |-> "error", counter |-> "none"]

\* Mutant: the reason is validated before it is trimmed.
BanRefusedUntrimmed(d, actor, c) ==
    LET length == c.reason.core + (IF c.reason.tidy THEN 0 ELSE 2)
    IN  \/ ~ValidID(c.target)
        \/ length \notin 1 .. MaxReason
        \/ actor = c.target
        \/ d.users[c.target] = None

\* banuser.validate and the two refusals that follow it.
BanRefused(d, actor, c) ==
    LET reason == TrimSpace(c.reason)
    IN  \/ ~ValidID(c.target)
        \/ reason \notin 1 .. MaxReason
        \/ actor = c.target
        \/ d.users[c.target] = None

BanUser(d, actor, c, id) ==
    IF BanRefused(d, actor, c) THEN Refused(d)
    ELSE IF BanViolatesForeignKey(d, c.target, actor) THEN Failed(d)
    ELSE LET banned == DBInsertUserBan(d, c.target, actor, TrimSpace(c.reason))
         IN  Done(EnqueueUserBannedNotice(banned, id, c.target), "banned")

UnbanUser(d, c) ==
    IF ~ValidID(c.target) THEN Refused(d)
    ELSE Done(DBDeleteUserBan(d, c.target), "none")

\* Mutant: bans are not looked at.
MakeAdminOfAnyone(d, c) ==
    IF ~ValidID(c.target) \/ d.users[c.target] = None THEN Refused(d)
    ELSE Done(DBInsertAdmin(d, c.target), "make")

MakeAdmin(d, c) ==
    IF \/ ~ValidID(c.target)
       \/ d.users[c.target] = None
       \/ BanReason(d, c.target) # 0
    THEN Refused(d)
    ELSE Done(DBInsertAdmin(d, c.target), "make")

RemoveAdmin(d, actor, c) ==
    IF ~ValidID(c.target) \/ actor = c.target THEN Refused(d)
    ELSE IF AdminDeletable(d, c.target)
         THEN IF DeleteRestricted(d, c.target) THEN Failed(d)
              ELSE Done(DBDeleteAdmin(d, c.target), "remove")
    ELSE IF c.target \in d.admins THEN Refused(d)   \* the last admin
    ELSE Done(d, "none")                            \* never was one

Resolve(d, actor, c, id) ==
    CASE c.kind = "ban" -> BanUser(d, actor, c, id)
      [] c.kind = "unban" -> UnbanUser(d, c)
      [] c.kind = "make" -> MakeAdmin(d, c)
      [] c.kind = "remove" -> RemoveAdmin(d, actor, c)

\* Mutant: nobody counts the admins.
PromotesAnyway(d, u, email) ==
    /\ u \notin d.admins
    /\ Normalise(Bootstrap) # NoEmail
    /\ Normalise(Bootstrap) = email

\* The bootstrap rule: an empty admins table and the configured address.
Promotes(d, u, email) ==
    /\ u \notin d.admins
    /\ Normalise(Bootstrap) # NoEmail
    /\ Normalise(Bootstrap) = email
    /\ d.admins = {}

EnsureAdmin(d, u, email) ==
    IF Promotes(d, u, email) THEN DBInsertAdmin(d, u) ELSE d

SignInByOIDC(d, u, rawEmail, iat) ==
    LET email == Normalise(rawEmail)
    IN  IF email = NoEmail THEN Failed(d)
        ELSE Done(EnsureAdmin(DBUpsertUserByOIDC(d, u, email, iat), u, email),
                  "none")

-----------------------------------------------------------------------------
\* What the schema and the cases keep true of the tables together: an admin
\* and a banned person have an account; whoever banned somebody is still an
\* admin (the foreign key) and is somebody else (the refusal in banuser); and
\* no ban has the empty reason that the identity lookup reads as "not banned".
AccountsExist(d) ==
    /\ \A u \in d.admins : d.users[u] # None
    /\ \A u \in Users : d.bans[u] # None => d.users[u] # None
BansHaveABanner(d) ==
    \A u \in Users : d.bans[u] # None => d.bans[u].by \in d.admins \ {u}
BansHaveAReason(d) ==
    \A u \in Users : d.bans[u] # None => d.bans[u].reason \in 1 .. MaxReason

Consistent(d) == AccountsExist(d) /\ BansHaveABanner(d) /\ BansHaveAReason(d)
=============================================================================
