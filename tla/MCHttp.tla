------------------------------- MODULE MCHttp -------------------------------
(* Small instances of Http for TLC: the documents and the requests.        *)
EXTENDS Http, TLC

\* Documents.  Two response keys stand for fields under an alias.
Aliases == "again" :> "banUser" @@ "later" :> "admin"

Document(operation, paths) ==
    [operation |-> operation, paths |-> paths, bad |-> {}, variables |-> <<>>]
Nested(prefix, keys) == [i \in DOMAIN keys |-> prefix \o <<keys[i]>>]
Field(p, keys) == <<p>> \o Nested(p, keys)

Trivial == Document("query", <<<<"viewer">>, <<"viewer", "role">>>>)

Profile ==
    Document("query", Field(<<"viewer">>, <<"user">>)
        \o Field(<<"viewer", "user", "createdAt">>, <<"unix", "formatted">>) \o
        <<<<"viewer", "user", "email">>, <<"viewer", "role">>>>)

People ==
    [Document("query",
        <<<<"admin">>>> \o Field(<<"admin", "users">>, <<"totalCount", "nodes">>)
        \o Nested(<<"admin", "users", "nodes">>, <<"isAdmin", "id">>)
        \o Field(<<"admin", "user">>, <<"lastSignInAt">>)
        \o <<<<"admin", "user", "lastSignInAt", "unix">>>>)
     EXCEPT !.variables = <<1, 3, 1>>]

Journal ==
    [Document("query",
        <<<<"admin">>>> \o Field(<<"admin", "auditLog">>, <<"nodes">>)
        \o Nested(<<"admin", "auditLog", "nodes">>, <<"id", "userId">>)
        \o Field(<<"admin", "auditLog", "pageInfo">>, <<"endCursor">>)
        \o <<<<"admin", "buildGitCommit">>, <<"viewer">>, <<"viewer", "role">>>>)
     EXCEPT !.variables = <<2, 2, 2>>]
JournalBadly == [Journal EXCEPT !.bad = {<<<<"admin", "auditLog">>, "before">>}]

Admins ==
    Document("query", <<<<"admin">>>> \o Field(<<"admin", "admins">>, <<"totalCount", "nodes">>)
        \o <<<<"admin", "admins", "nodes", "userId">>>>)

\* Commands side by side, one of them twice, with what either answer selects.
Command(root, key) == Field(<<root, key>>, <<"userId", "message">>)
Batch ==
    [Document("mutation", <<<<"admin">>>> \o Command("admin", "banUser")
        \o Command("admin", "again") \o Command("admin", "unbanUser"))
     EXCEPT !.variables = <<1, 1, 3, 2>>]
BatchBadly == [Batch EXCEPT !.bad = {<<<<"admin", "again">>, "userId">>}]

\* Roots one after the other.
Leaving ==
    [Document("mutation",
        <<<<"admin">>>> \o Command("admin", "makeAdmin")
        \o Field(<<"signOut">>, <<"redirectUrl">>)
        \o <<<<"later">>>> \o Field(<<"later", "removeAdmin">>, <<"message", "byFields">>)
        \o <<<<"later", "removeAdmin", "byFields", "name">>>>)
     EXCEPT !.variables = <<3, 3>>]

TooMuch == Document("query", [i \in 1 .. ComplexityLimit + 1 |-> <<ToString(i)>>])

AllDocuments ==
    {Trivial, Profile, People, Journal, JournalBadly, Admins, Batch, BatchBadly, Leaving, TooMuch}

-----------------------------------------------------------------------------
\* Requests.  route is the way the request took, client first; what the client
\* itself wrote into the header stands before what the proxies added.
Arriving(route, claimed) ==
    [route |-> route, remote |-> Last(route), forwarded |-> claimed \o Front(route)]

Post(origin) ==
    [verb |-> "POST", path |-> "graphql", mode |-> "cors", html |-> FALSE, body |-> "document",
     fresh |-> FALSE, ready |-> TRUE] @@ origin

Home == Arriving(<<Address("client"), Address("gate")>>, <<>>)

Hops == {Address("client"), Address("other"), Address("gate"), Mapped("gate"), Garbage}
Claims == {<<>>} \cup {<<h>> : h \in Hops} \cup {<<h, g>> : h, g \in Hops}
Routes ==
    {<<Address("client")>>, <<Mapped("client")>>,
     <<Address("client"), Address("gate")>>, <<Address("client"), Mapped("gate")>>,
     <<Address("client"), Mapped("edge"), Address("gate")>>,
     <<Address("client"), Address("other"), Address("gate")>>,
     <<Address("gate")>>, <<Garbage>>}

\* Every origin with a plain request; every route, method and body from home.
AllRequests ==
    {[Post(Arriving(r, c)) EXCEPT !.fresh = f] : r \in Routes, c \in Claims, f \in BOOLEAN}
        \cup {[Post(Home) EXCEPT !.verb = v, !.path = p, !.mode = m, !.html = h, !.body = b, !.ready = y] :
                v \in {"GET", "HEAD", "POST", "PUT"},
                p \in {"healthz", "readyz", "graphql", "settings", "users"},
                m \in {"navigate", "cors", ""}, h \in BOOLEAN,
                b \in {"document", "invalid", "too large"}, y \in BOOLEAN}

\* A document that is more than trivial comes in a plain request.
AllIdentities == {"none", "stale", "banned", "fails", "user", "admin"}
Plainly == doc # Trivial => request \in {Post(Home), [Post(Home) EXCEPT !.fresh = TRUE]}
MCInit == Init /\ Plainly
MCSpec == MCInit /\ [][Next]_vars /\ WF_vars(Next)
=============================================================================
