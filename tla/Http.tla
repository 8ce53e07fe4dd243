-------------------------------- MODULE Http --------------------------------
(***************************************************************************)
(* One HTTP request: the middleware around the routes, the routes, and the *)
(* GraphQL executor of Graph behind one of them.  What resolving an        *)
(* identity does to the database is Panel's; here it is one of the answers *)
(* resolveIdentity can give.                                               *)
(***************************************************************************)
EXTENDS Graph

CONSTANTS
    Requests,   \* what reaches the process
    Identities, \* what resolveIdentity may answer for them
    Trusted,    \* the addresses of TrustedProxies
    DevMode

Statuses == {200, 303, 400, 401, 403, 405, 422, 500, 503}
ASSUME StatusesAssumption == None \notin Statuses

\* route is the way a request took, client first.  The last on it is the peer of the
\* connection; what the header says ends with the others, each an address that the
\* proxy after it saw.  What stands before them came with the request.
ASSUME RequestsAssumption ==
    /\ None \notin Trusted
    /\ \A r \in Requests :
          /\ r.route \in Seq(ToSet(r.route)) \ {<<>>} /\ r.forwarded \in Seq(ToSet(r.forwarded))
          /\ \A i \in DOMAIN r.route :
                r.route[i].form = "garbage" => r.route[i].addr = None /\ i = Len(r.route)
          /\ r.remote = Last(r.route)
          /\ \E n \in 0 .. Len(r.forwarded) :
                r.forwarded = SubSeq(r.forwarded, 1, n) \o Front(r.route)

VARIABLES
    request,  \* the request as it came in
    stage,    \* how far it got
    status,   \* the status it was answered with
    auditLog  \* table audit_log

http == <<request, stage, status, auditLog>>
vars == <<gvars, http>>

-----------------------------------------------------------------------------
\* The client's address.  A hop is an address, perhaps written as an
\* IPv4-mapped one, or a text that is no address.
Address(a) == [form |-> "plain", addr |-> a]
Mapped(a) == [form |-> "mapped", addr |-> a]
Garbage == [form |-> "garbage", addr |-> None]

IsTrusted(hop) == hop.form # "garbage" /\ hop.addr \in Trusted

\* Mutant: the first untrusted address of the header, as its clients see it.
ResolveLeftmost(remote, forwarded) ==
    LET clients == {i \in DOMAIN forwarded : forwarded[i].form # "garbage" /\ ~IsTrusted(forwarded[i])}
    IN  IF ~IsTrusted(remote) \/ clients = {} THEN remote
        ELSE forwarded[CHOOSE i \in clients : \A j \in clients : i <= j]

\* The walk from the right past trusted hops and garbage.
Resolve(remote, forwarded) ==
    LET walk[i \in 0 .. Len(forwarded)] ==
            IF i = 0 THEN remote
            ELSE IF forwarded[i].form = "garbage" \/ IsTrusted(forwarded[i]) THEN walk[i - 1]
            ELSE forwarded[i]
    IN  IF IsTrusted(remote) THEN walk[Len(forwarded)] ELSE remote

-----------------------------------------------------------------------------
\* The routes.  A pattern of GET is one of HEAD too, and "GET /" takes every
\* path that has no route of its own.
Reads == {"GET", "HEAD"}

Handler ==
    IF request.verb = "POST" /\ request.path = "graphql" THEN "graphql"
    ELSE IF request.verb \notin Reads THEN "none"
    ELSE IF request.path \in {"healthz", "readyz", "settings"} THEN request.path
    ELSE IF request.path = "graphql" /\ DevMode THEN "playground"
    ELSE "spa"

\* Mutant: the script that only names the endpoint is served to anyone.
BehindIdentityLax == {"graphql", "playground", "spa"}

\* requireIdentity is wrapped around these.
BehindIdentity == {"graphql", "playground", "settings", "spa"}

HasIdentity == caller \in {"admin", "user"}

IsNavigation ==
    /\ request.verb \in Reads
    /\ IF request.mode # "" THEN request.mode = "navigate" ELSE request.html

-----------------------------------------------------------------------------
Init ==
    /\ GInit
    /\ request \in Requests /\ caller \in Identities
    /\ ip = None
    /\ stage = "received" /\ status = None /\ auditLog = <<>>

\* withRequest: the address first, then the identity, which ends many requests.
\* What ends here is never flushed; nothing is buffered yet.
Refuse(code) ==
    /\ stage = "received"
    /\ ip' = Resolve(request.remote, request.forwarded)
    /\ stage' = "done" /\ status' = code
    /\ UNCHANGED <<doc, caller, execution, request, auditLog>>

IdentityFails == caller = "fails" /\ Refuse(500)
RefuseBanned == caller = "banned" /\ Refuse(403)
\* A navigation is sent to the gate's sign-out endpoint.
RefuseStaleToken == caller = "stale" /\ Refuse(IF IsNavigation THEN 303 ELSE 401)

\* Somebody, perhaps with a sign-in to record, or nobody at all.
Admit ==
    /\ stage = "received" /\ caller \in {"none", "user", "admin"}
    /\ ip' = Resolve(request.remote, request.forwarded)
    /\ buffer' = IF HasIdentity /\ request.fresh
                 THEN <<[Plain("sign_in", <<>>) EXCEPT !.ip = ip']>> ELSE <<>>
    /\ stage' = "routed"
    /\ UNCHANGED <<doc, caller, phase, state, object, errors, ran, denials,
                   request, status, auditLog>>

Answer(code) ==
    /\ stage' = "flush" /\ status' = code
    /\ UNCHANGED <<gvars, request, auditLog>>

MethodNotAllowed == stage = "routed" /\ Handler = "none" /\ Answer(405)

RequireIdentity == stage = "routed" /\ Handler \in BehindIdentity /\ ~HasIdentity /\ Answer(401)

Healthz == stage = "routed" /\ Handler = "healthz" /\ Answer(200)

Readyz == stage = "routed" /\ Handler = "readyz" /\ Answer(IF request.ready THEN 200 ELSE 503)

Serve ==
    /\ stage = "routed"
    /\ Handler \in {"playground", "settings", "spa"} /\ (Handler \in BehindIdentity => HasIdentity)
    /\ Answer(200)

\* The transport of gqlgen: a body over the limit, or one that is no document of
\* the schema, is answered without being executed.
Unusable ==
    /\ stage = "routed" /\ Handler = "graphql" /\ HasIdentity
    /\ request.body # "document"
    /\ Answer(IF request.body = "invalid" THEN 422 ELSE 400)

Graphql ==
    /\ stage = "routed" /\ Handler = "graphql" /\ HasIdentity
    /\ request.body = "document"
    /\ stage' = "graphql"
    /\ UNCHANGED <<gvars, request, status, auditLog>>

Executes == stage = "graphql" /\ GNext /\ UNCHANGED http

Replied == stage = "graphql" /\ phase = "answered" /\ Answer(200)

\* TakeAudit and flushAudit, after the handler.
Flush ==
    /\ stage = "flush" /\ stage' = "done"
    /\ auditLog' = auditLog \o buffer
    /\ buffer' = <<>>
    /\ UNCHANGED <<context, phase, state, object, errors, ran, denials, request, status>>

Next ==
    \/ IdentityFails \/ RefuseBanned \/ RefuseStaleToken \/ Admit
    \/ MethodNotAllowed \/ RequireIdentity \/ Healthz \/ Readyz \/ Serve
    \/ Unusable \/ Graphql \/ Executes \/ Replied
    \/ Flush

Spec == Init /\ [][Next]_vars

\* The goroutines of the request run; a resolver returns or fails.
FairSpec == Spec /\ WF_vars(Next)
-----------------------------------------------------------------------------
\* Properties.

Stages == {"received", "routed", "graphql", "flush", "done"}

TypeOK ==
    /\ GTypeOK
    /\ stage \in Stages /\ status \in Statuses \cup {None}
    /\ status = None <=> stage \in {"received", "routed", "graphql"}

Served == status = 200 /\ Handler \notin {"healthz", "readyz"}

\* Nothing but the two health endpoints answers somebody without a verified
\* identity that is not banned, whatever the method and the path; and a request
\* that was not served executed nothing.
NothingWithoutIdentity ==
    /\ Served => HasIdentity
    /\ ~HasIdentity => phase = "received" /\ buffer = <<>> /\ auditLog = <<>>

\* The client's own address, whatever it writes into the header itself: when the
\* proxies its request came through are all trusted, the address recorded is the
\* one the first of them saw.
AddressIsTheClients ==
    LET route == request.route
    IN  /\ stage # "received"
        /\ route[1].addr \notin Trusted /\ \A i \in 2 .. Len(route) : route[i].addr \in Trusted
        => ip = route[1]

\* In the end the audit log holds an entry for every crossing of the boundary by
\* this request, denied or not, and for its sign-in and sign-out, all under the
\* address of the request and with as much of the variables as fits; nothing is left
\* in the buffer.
EveryCrossingAudited ==
    /\ Trail(auditLog \o buffer)
    /\ stage = "done" =>
          /\ buffer = <<>>
          /\ \A i \in DOMAIN auditLog : auditLog[i].ip = ip /\ DetailFits(auditLog[i].detail)
          /\ HasIdentity /\ request.fresh <=> \E i \in DOMAIN auditLog : auditLog[i].action = "sign_in"

\* Every request is answered: no field waits for one that waits for it.
Answered == <>(stage = "done")
=============================================================================
