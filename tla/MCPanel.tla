------------------------------ MODULE MCPanel ------------------------------
(* Small instances of Panel for TLC: who is there, what they may send, and *)
(* which database files the process may be started on.                     *)
EXTENDS PanelClaims, TLC

CONSTANTS alice, bob, carol

Symmetry == Permutations(Requests)

-----------------------------------------------------------------------------
\* Texts.
Boss == "boss@corp"
Clerk == "clerk@corp"
Tidy(x) == [core |-> x, tidy |-> TRUE]
Padded(x) == [core |-> x, tidy |-> FALSE]
AllEmails == {Boss, Clerk}
BossConfigured == Padded(Boss)

GoodReason == Tidy(1)
OneReason == {GoodReason}
\* Blank after trimming, one letter, the longest that fits, one too many.
EdgeReasons == {Padded(0), GoodReason, Padded(MaxReason), Tidy(MaxReason + 1)}

\* Commands and operations.
Ban(u, why) == [kind |-> "ban", target |-> u, reason |-> why]
Unban(u) == [kind |-> "unban", target |-> u]
Make(u) == [kind |-> "make", target |-> u]
Remove(u) == [kind |-> "remove", target |-> u]
Mutate(cs) == [kind |-> "adminMutation", commands |-> cs]
Ask(k) == [kind |-> k, commands |-> {}]

\* Tokens.
Good(u, email, iat) ==
    [presented |-> TRUE, verifies |-> TRUE, emailVerified |-> TRUE,
     email |-> email, sub |-> u, iat |-> iat]

\* Databases.
Account(email) == [email |-> email, signin |-> 1]
File(users, admins, bans) ==
    [users |-> [u \in Users |-> IF u \in users THEN Account(Clerk) ELSE None],
     admins |-> admins,
     bans |-> [u \in Users |-> IF u \in DOMAIN bans
                               THEN [by |-> bans[u], reason |-> 1] ELSE None],
     jobs |-> {}]
NoBans == [u \in {} |-> u]

-----------------------------------------------------------------------------
\* What the gate may forward besides a good token.
NoToken(u) == [Good(u, Tidy(Clerk), 1) EXCEPT !.presented = FALSE]
StaleToken(u) == [Good(u, Tidy(Clerk), 1) EXCEPT !.verifies = FALSE]
Unverified(u) == [Good(u, Tidy(Clerk), 1) EXCEPT !.emailVerified = FALSE]
NoMail(u) == Good(u, Tidy(NoEmail), 1)
BlankMail(u) == Good(u, Padded(NoEmail), 1)

\* Access: three people who have signed in before, two of them admins.
AccessTokens == {Good(u, Tidy(Clerk), 1) : u \in Users}
AccessOperations ==
    {Mutate({c}) : c \in {Ban(u, GoodReason) : u \in Users}
        \cup {Remove(u) : u \in {alice, bob}} \cup {Make(carol), Unban(carol)}}
AccessDatabases == {File(Users, {alice, bob}, NoBans)}

\* Commands: two admins who ban and remove each other, and a sign-in that fails;
\* every kind of operation, fields that run together in one mutation, every
\* refusal (the foreign key's among them), every fault.
CommandsTokens ==
    {Good(alice, Tidy(Clerk), 2), Good(bob, Tidy(Clerk), 1), BlankMail(carol)}
CommandsOperations ==
    {Mutate({Ban(bob, Padded(MaxReason)), Unban(bob)}),
     Mutate({Ban(alice, GoodReason), Remove(bob)}),
     Mutate({Ban(bob, Padded(0))}), Mutate({Ban(bob, Tidy(MaxReason + 1))}),
     Mutate({Make(None)}), Ask("adminQuery"), Ask("signOut")}
CommandsDatabases == {File({alice, bob}, {alice, bob}, NoBans)}

\* Bootstrap: an empty file, people nobody has seen, two of whom share the
\* bootstrap address; a blank address and a token without iat.
BootstrapTokens ==
    {Good(alice, Tidy(Boss), 1), Good(bob, Padded(Boss), 0),
     Good(carol, Tidy(Clerk), 1), BlankMail(carol)}
BootstrapOperations ==
    {Ask("viewer"), Mutate({Make(carol)}), Mutate({Ban(bob, GoodReason)}),
     Mutate({Remove(bob)})}
BootstrapDatabases == {EmptyTables}

\* Sign-ins: people who have an account, requests with an old, a current and
\* two newer tokens; somebody who has none yet, with two tokens; and everything
\* that is not an identity.
SignInTokens ==
    {Good(alice, Tidy(Clerk), i) : i \in 0 .. 3}
        \cup {NoToken(bob), StaleToken(bob), Unverified(bob), NoMail(bob),
              Good(bob, Tidy(Clerk), 2)}
        \cup {Good(carol, Tidy(Clerk), i) : i \in 1 .. 2}
SignInOperations == {Ask("viewer"), Mutate({Unban(alice)})}
SignInDatabases == {File({alice, bob}, {bob}, NoBans)}
=============================================================================
