# A TLA+ development of the starterkit panel

The repository is a small administration panel: a Go process behind an
authenticating gate, serving a GraphQL API and a single-page application over
one SQLite file. It keeps accounts, admins, bans and an audit log; admins grant
and revoke admin access and ban people; a queue in the same file sends notices.

This directory models the places where something can come between two steps: requests
that meet in one database, the fields of one document that run together, the queue
that works off what requests leave, the screens that read while others write, and the
processes that start, drain and die around all of it. TLC checks the models on small
instances; TLAPS proves their safety properties, and two refinements, for instances of
any size.

## 1. Inventory

### Components, their state and their operations

| Component | Source | State | Operations |
|---|---|---|---|
| Gate token | `internal/gateauth` | none | discover the issuer, verify the bearer token, require a verified email |
| Identity | `cmd/server/auth.go` | none of its own | look a person up by (issuer, subject), refuse the banned, first sign-in, mark a sign-in, sign out |
| Middleware and routes | `cmd/server/http.go` | ready flag | the address and one identity per request, refuse stale or missing ones, the routes, flush the audit buffer after the handler |
| Client address | `internal/clientip` | none | walk the forwarded chain past trusted proxies |
| Request scope | `internal/appreq` | user, isAdmin, ip, audit buffer | set identity, add entry, take entries |
| GraphQL execution | `internal/graph`, its `generated` | values and errors of one answer | walk the document, run fields in order or together, resolve, null upwards |
| Admin boundary | `internal/graph/resolver.go`, `audit_entry.go` | none | check once per namespace object, record mutation or denial with its detail |
| Commands | `internal/case/{banuser,unbanuser,makeadmin,removeadmin}` | none | read and write the tables inside a transaction |
| First sign-in | `internal/case/signinbyoidc` | none | upsert the account, bootstrap the first admin |
| Transactions | `cmd/server/tx.go` | the open `sql.Tx` | begin, commit, deferred rollback, refuse nesting |
| Pools | `internal/db/setup.go` | 25 read connections, 1 write, 1 queue | open, hand out connections, close |
| Tables | `db/schema.sql`, `queries.*.sql` | users, admins, user_bans, audit_log, goqite | SQL statements, foreign keys |
| Jobs | `cmd/server/jobs.go`, `internal/jobs`, goqite | queue rows | enqueue (in the transaction, or alone), receive, retry up to 3 times, delete |
| Notices, purge, cron | `internal/case/{notifyuserbanned,purgeauditlog}`, `internal/cronjobs` | running flags | deliver, delete old rows, skip overlapping ticks |
| Audit paging | `internal/case/listauditlog`, `assets/ui/paging` | cursors and pages on the screen | keyset pages, "Show more", refetch after a mutation |
| Migrations | `internal/db/setup.go`, `internal/dbmate` | schema_migrations | apply what the file lacks |
| Lifecycle | `cmd/server/main.go` | context, ready flag, server | boot, serve, drain, close |
| Metrics | `internal/metrics` | counters, gauges | increase, sweep |

### How they interact

A request arrives with a token. `withRequest` notes the client's address, resolves its
identity with one read, possibly through a first sign-in (a write transaction) or a
sign-in mark (one write statement), stores both in the request scope, and hands it to
a route. The GraphQL executor runs a document's fields; the `admin` field checks the
stored flag once; the command fields under it run concurrently, each in a write
transaction of its own. Audit entries are buffered and inserted after the response.
All writes of the process share one connection; reads see the last commit. A ban's
notice is a row of the queue written by the ban's transaction; a runner receives it
later. The cron schedule enqueues the purge of the audit log, which the screen of the
application pages through meanwhile. A signal makes `/readyz` fail, lets the balancer
turn away, closes the listener, waits for what is in flight and closes the pools.

### What is hard here

- The authority of a request is read once and used later, after an unbounded
  wait for the write connection.
- Several requests may all have passed a check that only one of them should.
- Commands and sign-ins that fail anywhere must give the connection back.
- A notice must be queued exactly for the bans that commit.
- The audit row of a mutation is written after its commit, by another statement.
- The fields of one mutation run together, and one that fails makes its siblings'
  answers null though they committed.
- A namespace may be selected several times, under aliases, beside others.
- A message is delivered late, again, or while its first handler still runs, to
  people whose ban has changed since; after three receipts it is given up.
- Pages are read one after the other while rows come and go, and read again later
  under the cursors they had.
- Two processes may migrate one file; a boot may fail with pools open; a drain runs
  beside requests and cron runs that may never end.
- The process may die between any two of these.

`PROJECT.json` lists the hazards line by line with the properties aimed at them. Two
have none. A process that dies between a command's commit and the flush of its entry
(`cmd/server/http.go:127`) loses the entry, and `AuditComplete` exempts its requests.
`firstSignIn` sets the identity without looking at bans
(`cmd/server/auth.go:243`): an account made and banned while this request waited
gets in for this one request. No document says otherwise, and `Access` allows it
(`SignUp` has no condition on bans).

Smaller ones have no model: counters move before the commit
(`internal/case/banuser/resolve.go:78`), so one that fails leaves
`users_banned_total` too high; two admins may ban each other
(`internal/case/banuser/resolve.go:48`), which leaves both with admin rows and
neither able to get in; an interval of zero or less would panic in `NewTicker`
(`internal/metrics/metrics.go:114`); a scrape between the reset and the setting of the
gauges sees none (`internal/metrics/metrics.go:137`); the guard against nested
transactions (`cmd/server/tx.go:53`) is not reachable from any handler.

### What makes each part correct

- *Commands*: the admins table is never emptied; nobody banned is promoted; a
  sole admin is never banned; every stored ban keeps its owner out; commands
  behave as if each were one step taken at its commit.
- *Sign-in*: one record per token of somebody who has an account; recorded times
  move forward; the bootstrap rule promotes one person, once.
- *Transactions*: nobody else writes while one is open; every request is answered
  and nothing keeps the connection; notices commit with their bans.
- *Audit*: a request that ended has its row or a logged failure; there is one entry
  for each crossing of the boundary, with the client's own address.
- *Requests*: nothing runs or is read behind a denial, or without an identity;
  commands promised run, those that failed are named, nulls have their reasons,
  roots of a mutation keep their order, and every document is answered.
- *Jobs*: a message leaves the queue only when its work was done; a notice quotes
  a ban that stood while it was handled; every message is settled; ticks of one
  job do not overlap; the purge takes what is past its retention, all of it and
  nothing else.
- *Paging*: pages neither repeat nor skip, and the end is the end.
- *Lifecycle*: the schema is whole or nobody serves; pools are returned; the database
  outlives cron runs, and requests up to the deadline of a drain, but not those a broken
  listener leaves behind; nobody is sent to a listener that a signal closed; a signal ends
  the process. Job handlers and the metrics sweep are not waited for: what that does to
  a handler is part of `Jobs` (`restart`).

## 2. Modules

| Module | Models |
|---|---|
| `Store` | the tables as a record, each SQL statement and each domain case as an operator from tables to tables |
| `Panel` | the process over its file: requests, tokens, the write connection, transactions, audit buffers, counters, faults, crashes |
| `Access` | the abstract specification: who is known, admin and banned, and sessions; every command one step |
| `PanelClaims` | sentences of the documents that the code contradicts, as properties |
| `Graph` | the execution of one document: tables of every type's fields, the executor, the resolvers, the admin boundary, errors and nulls, audit entries |
| `Http` | one request around it: address, identity, routes, transport, flush |
| `Jobs` | the queue, its handlers (notice and purge), cron, the clock and the rows the purge looks at |
| `Delivery` | the abstract specification of a ban's notice: a limited number of tries, in each one look at the ban and at most one notice; none once a try did its work |
| `Pages` | the audit log as writers, purge and a screen's pages see it |
| `Lifecycle` | processes from start to exit: migrations, pools, gate, drain, cron, balancer |
| `MCPanel`, `MCJobs`, `MCHttp` | instances for TLC |
| `PanelProofs`, `AccessProofs` | theorems about `Store` and `Panel`: the statements and cases, the inductive invariants; what follows from isolation, and the refinement of `Access` |
| `RequestProofs`, `ExecutionProofs` | theorems about `Http` with `Graph`: what its steps keep apart and the address of the client; the walk over a document and its audit trail |
| `JobsProofs`, `LifecycleProofs`, `PagesProofs` | theorems about `Jobs`, `Lifecycle` and `Pages` |
| `Inductions` | lemmas on numbers the others cite: least and greatest elements, induction, functions defined by recursion |

`Panel` extends `Store` and implements `Access` under the substitution `Promise`:
known accounts, admins, the banner of each banned person, and each request in flight as
the person and authority it was read as. `Http` extends `Graph` and runs it behind one
of its routes. The two meet in the identity and in the commands: what `resolveIdentity`
does to the database and what a command's transaction does are `Panel`'s; `Http` and
`Graph` take the answers these can give. `Jobs` needs of the panel the committed effect
of a ban and an unban, one step each, which `Panel` shows them to be (`ImplementsAccess`,
and `NoticeIffBan` for the message that commits with the ban). `Pages` needs that rows
are inserted by one writer at a time. `Lifecycle` takes requests and cron runs as
things that go on for as long as they like.

### State and the code

| `Panel` | In the code |
|---|---|
| `db` | the committed tables, what the read pool sees |
| `writer`, `work`, `verdict` | who has the only write connection, what its transaction sees, how its case returned |
| `pc`, `token`, `op` | the goroutine of a request, its bearer token, its GraphQL operation |
| `isAdmin`, `buffer` | `Request.isAdmin`, `Request.audits` |
| `answers` | what each command field returned |
| `auditLog` | table `audit_log`, rows tagged with their request |
| `dropped` | history: entries whose insert failed or that died with the process |
| `metrics` | Prometheus counters, zero after a restart |

A transaction is three steps: `Begin` (wait for the connection, `BEGIN
IMMEDIATE`), `ResolveCommand` or `ResolveSignIn` (all statements of the case:
nobody else can write in between and readers see nothing of it, so they are one
step), and `CommitCommand`, `CommitSignIn` or `Rollback`. `TxFails` may end it
anywhere. The sign-in mark and the audit inserts are single statements outside
any transaction; they need the connection free.

| `Graph` and `Http` | In the code |
|---|---|
| `doc` | the parsed operation with its variables |
| `caller`, `ip` | what `resolveIdentity` answered; `appreq.Request`'s address |
| `phase`, `state`, `object` | how far the executor is, each selected field's value, the type a union or object field resolved to |
| `errors` | the errors of the response, by path |
| `buffer`, `denials` | `Request.audits`, the counter of denials |
| `ran` | history: commands and sign-outs in the order they took effect |
| `request`, `stage`, `status`, `auditLog` | the `http.Request`, where its handler is, the status written, the table |

`Fields`, `Objects`, `Unions` and `Arguments` are gqlgen's output as tables: for every
field its type and whether it is required, a list, or a call; for every object which of
its fields run concurrently and which count as invalid when null. One executor
(`Runnable`, `Open`, `Complete`, `Invalid`) walks them, as the generated functions do
one type at a time.

| `Jobs` | In the code |
|---|---|
| `bans` | table `user_bans`, the reason of each person |
| `status`, `received`, `to` | rows of table `goqite`: whether a row is hidden, its `received` column, the payload |
| `at`, `found` | the goroutine of each receipt and the reason it read |
| `tick`, `running` | the goroutine of each cron tick, `Runner.running` |
| `now`, `rows` | the clock, and when the rows of `audit_log` were written |
| `sent`, `window` | history: notices delivered, and the reasons in force during each attempt |

goqite is a library, so `Receive`, `Expire`, `Lapse`, `Delete` and `DeleteFails`
are taken from how the process configures and calls it: a receipt hides the row
and counts, the runner keeps postponing its return while the handler runs, a
handler that returns nil has its row deleted, one that fails leaves it. A tick
claims the job, enqueues, and releases it in its deferred function, three steps
because the mutex is not held in between. The purge is one transaction.

| `Pages` | In the code |
|---|---|
| `log`, `sequence` | `audit_log` as `created_at` by id, and the last id given out |
| `lock`, `writer` | SQLite's write lock, and where each `flushAudit` is |
| `size`, `cursors`, `pages` | `page_size`, `cursors` and the memoised `page(cursor)` of the screen |
| `fetch` | the request under way |
| `refetched` | history: a mutation has made the pages stale since the screen was opened |

| `Lifecycle` | In the code |
|---|---|
| `tables`, `versions`, `lock` | the file's migrated tables, `schema_migrations`, the open migration's transaction |
| `at`, `next` | where `run` is, the migration it comes to |
| `pools`, `cancelled`, `listening` | `db.Connections`, the signal context, `http.Server` |
| `drain`, `timer`, `overdue` | the shutdown goroutine, its sleep or deadline, whether that passed |
| `broken`, `died` | history: the listener failed while it served; that or a kill, until `/readyz` answers again |
| `tick` | the cron scheduler |
| `probe`, `misses`, `rotation` | the load balancer |
| `where` | each request |

### Abstractions

- A row id and the (issuer, subject) it was made for are one element of `Users`:
  the unique index makes them so and no statement deletes from users. An
  argument that is not a valid id is `None`.
- An address is a name and whether `TrimSpace`/`ToLower` would change it; a
  reason is its trimmed length and whether trimming changes it. `""` and a blank
  address differ: gateauth tests the raw text, the sign-in case the trimmed one.
- Times are the token's whole seconds, 0 for a token without `iat`.
- The profile (email and name) is one value.
- In `Panel` a request asks for one root field; reads under `admin` change nothing and
  are one operation. A queued job is a row named by the command that made it, so that
  two bans of one person are two messages.
- `foreign_keys(1)` is set on every connection, so the foreign key is part of the
  statements: `BanViolatesForeignKey`, `DeleteRestricted`.
- In `Graph` a value is whether it is null and of which type. The rows of a list are
  walked by the same functions, so one of them stands for all; a list may have none.
  Documents are valid, as validation leaves them; introspection and `__typename`, which
  touch no resolver, are left out. The detail of an audit entry is the widths of its
  runes, which is what its truncation looks at.
- In `Http` a prefix of `TrustedProxies` is the set of addresses in it.
- In `Jobs` a message is named by the order or tick that sent it, and priorities,
  which are all equal, are left out. A busy file lock is a failure of the
  statement that needed it. A notice's two reads are one step: accounts neither
  change nor go, so only the second matters. The clock has `Second` steps to a second;
  a row's time and the cutoff are rounded down to seconds where the code does (`Stamp`).
- In `Pages` the count shown beside a page is left out. `$mol`'s memoisation and fetch
  are external: a page at hand is not asked for again until a mutation marks it. That
  mutation may be one sent before the screen was opened, or a sign-out.
- In `Lifecycle` time is a count of ticks. Whatever timer is due acts before time goes
  on; everything else takes as long as it likes.

## 3. Runs

Nine runs pass.

| Run | Instance | Shows |
|---|---|---|
| `access` | `MCPanel`: 3 requests of 3 people, two admins; ban anyone, remove either admin, grant and unban the third | `SoleAdminNotBanned`, `AdminsNeverEmptied`, `NoBannedPromotion`, `ImplementsAccess` |
| `commands` | `MCPanel`: 2 requests; every kind of operation, two fields in one mutation, reasons that are blank, shortest, longest and one too long, invalid ids; all faults | `BansBite`, `NoticeIffBan`, `AuditComplete`, `RequestAnswered` |
| `bootstrap` | `MCPanel`: 3 first requests on an empty file, two people with the bootstrap address (padded in one token, and in the configuration), a blank address; failures | `TypeOK`, `AdminsGrowByGrant` |
| `signin` | `MCPanel`: 3 requests with no, stale, unverified, older, current and newer tokens of people with and without an account; failures | `SignInOnce`, `SignInNeverRegresses` |
| `notices` | `MCJobs`: two ban orders of one person with two reasons, two receipts each, unban anywhere; failing handlers, overlapping redeliveries, restarts | `NoticeIsCurrent`, `ImplementsDelivery` |
| `cron` | `MCJobs`: two ticks, two receipts each, two handlers; rows at any half second of a second and a half, a retention of half a second; all faults | `NoOverlap`, `RecentRowsKept`, `PurgeReaches`, `MessageSettles`, `JobReleased` |
| `request` | `MCHttp`: one request of any method, route and identity, with ten documents that nest, alias, repeat and overload the admin fields; every resolver that can fail may | `TypeOK`, `NullsAccounted`, `RootsInOrder`, `NothingBehindDenial`, `SiblingsRun`, `FailuresNamed`, `NothingWithoutIdentity`, `AddressIsTheClients`, `EveryCrossingAudited`, `Answered` |
| `lifecycle` | `Lifecycle`: 2 processes on one file, 2 migrations, 2 starts, 1 request, a delay of 3, a drain of 1, probes every tick and 2 misses to leave the rotation; boot failures, listeners that break and kills | `TypeOK`, `SchemaWhole`, `DatabaseOutlivesRequests`, `DatabaseOutlivesCron`, `PoolsReturned`, `NoRequestRefused`, `SignalEnds` |
| `pages` | `Pages`: 3 rows, 2 entries appended by 2 writers, a purge, a page size of 0 (the default, 1) or 9 (capped, 2), one mutation, one failed read | `NoRowTwice`, `NoRowSkipped`, `TheEndIsTheEnd`, `ReachesEnd` |

### Bounds

- `MCPanel`. Three requests suffice for the races the hazards name: each is between
  two requests, and a third supplies the interfering revocation or ban. `commands`
  has two because every fault may strike in each of their steps. `MaxReason` keeps
  its value in the code, 500. Requests are one-shot and interchangeable, so
  `Symmetry` permutes them where no liveness is checked.
- `MCJobs`. Two receipts (three in the code) are enough for an attempt that is late
  beside one that is current and for a retry after each failure; the handler limit
  is the code's. A half second is the coarsest clock that distinguishes a moment
  from its stamp.
- `MCHttp`. `ComplexityLimit` 14 lies between the documents that pass and the one
  that does not; `MaxDetail` 4 and `MaxActionFields` 2 cut in the middle of a rune
  and of a list. Addresses, proxies and identities vary freely over one plain
  document; the other documents go with a plain POST (of any identity),
  because execution does not look at the address again.
- `Lifecycle`. `Delay > Interval * Threshold`, which `docs/metrics-and-shutdown.md:120`
  asks of the deployment, is `LifecycleAssumption`; 3 against 2 is tight. Two
  processes are what a rolling restart has at once, and two migrations let a
  process die between them. The processes are probed at the same instants, which loses
  nothing: one probe does not see the other.
- `Pages`. Three rows and two entries make more pages than a screen starts with,
  with a boundary moved by an append, a purge and a refetch.

Deadlock checking is off everywhere, since what is bounded comes to rest: one-shot
requests end, a queue whose orders and ticks are used up is idle, processes are down
for good, a log is read to its end. That nothing rests half-way is what
`RequestAnswered`, `MessageSettles`, `Answered`, `SignalEnds` and `ReachesEnd` show.

### Fairness

- `commands`: weak fairness of the steps of each request, not of arrivals and not
  of faults. A goroutine that can run does, and `database/sql` hands a connection
  that is given back to the longest waiter; since every request holds it a bounded
  number of times, weak fairness per request is enough.
- `cron`: weak fairness of each handler, of each tick that began, of receiving and
  of the return of a hidden message. Goroutines are scheduled, the runner polls
  every two seconds, the timeout passes. Nothing is asked of the panel, of the
  schedule or of faults.
- `request`: weak fairness of `Next`. Resolvers return (`commands` shows it of the
  commands) and gqlgen's goroutines run; a document has finitely many fields.
- `lifecycle`: weak fairness of time, of booting, of stopping, of a cron run and of
  the balancer's probes. Requests may hang for ever and no signal is owed.
- `pages`: weak fairness of answering a fetch, of asking for a page that is shown but
  not at hand, and of the reader pressing "Show more". Writers, purges and mutations owe
  nothing.

`NoRowTwice` and `NoRowSkipped` are about a list no mutation has made stale;
`claim_paging` shows why that restriction is needed.

### Documents and code that disagree

Three runs each check one sentence (quoted in `PanelClaims` or `Pages` and under
`findings`) and find it violated:

| Run | The sentence, and what happens |
|---|---|
| `claim_first_sign_in` | exactly one of two concurrent first requests records the sign-in: both do when the person is new |
| `claim_domain_failure` | a domain failure is a payload: removing an admin whose bans stand is an internal error |
| `claim_paging` | keyset pages do not shift under the reader: after a mutation the first page moves up and the second keeps its old cursor |

Read with the model beside them, more sentences are looser than the code and have
no run:

- `internal/metrics/metrics.go:70` describes `admin_changed_total` as access granted
  or revoked; a grant that changes nothing counts
  (`internal/case/makeadmin/resolve.go:61`).
- `internal/appconfig/config.go:72` promotes the bootstrap address while there is no
  admin, which happens on a first sign-in only.
- `cmd/server/auth.go:20` lets a revocation take effect immediately, which is so for
  requests that arrive after it (as `docs/auth-dex.md:150` says), not for one that
  waits for the write connection.
- `docs/auth-dex.md:120` refreshes the email and the name on every sign-in; only the
  first one writes them.
- `docs/auth-dex.md:170` records every crossing of the admin boundary; not if the
  process dies between the commit and the insert.
- `docs/jobs-and-cron.md:35` says that a ban that commits cannot fail to send its
  notice; it can, when the handler fails on every receipt.
- `docs/metrics-and-shutdown.md:105` has `run` wait for the drain before it returns;
  when `ListenAndServe` returns any other error than that of a shutdown
  (`cmd/server/main.go:110`) it does not, and closes the pools under what is in flight.
- `docs/metrics-and-shutdown.md:131` stops the cron with the signal; `Stop` is
  deferred and runs after the drain.
- `docs/data-layer.md:189` takes the order of ids for the order of `created_at`; a
  stamp is taken before its insert waits for the write connection.

## 4. Proofs

Assumptions, which TLC evaluates on every run of their module: `StoreAssumption`
(finitely many users, `None` is not a value of anything, reasons and the bootstrap
address have their form), `PanelAssumption` (inputs are well-formed, and a file an
earlier run left is `Consistent` with an empty queue), `JobsAssumption` (its numbers
are positive, orders are not ticks), `DocumentsAssumption` (paths are
non-empty sequences of response keys, a document selects with a field the one around
it, it is a query or a mutation, and its variables are runes of one to four bytes),
`RequestsAssumption` (each proxy appends to the header the peer that it saw, whatever
the client wrote before; only the client may sit where no address can be parsed),
`StatusesAssumption`, `LifecycleAssumption` (the delay is longer than interval times
threshold) and `PagesAssumption` (limits are numbers from 1, as the constants of
`listauditlog` are; no writer is named 0, which stands for none).

### Store and Panel

`PanelProofs` shows first, about the operators alone, that every statement and case
yields well-formed tables, and that on consistent tables each command
(`ResolveConsistent`) and the first sign-in (`SignInConsistent`) leave consistent
tables, do not empty the admins and promote nobody who is banned. `Consistent`
says that admins and banned people have accounts, that whoever banned somebody is
another person and still an admin, and that reasons have 1 to `MaxReason`
characters. That a delete leaves an admin is where the count inside the
statement, and the finiteness of `Users`, are used.

It then proves two inductive invariants.

- `Typing` is `TypeOK` with three facts it needs: a request that has arrived has a
  token and an operation; the holder of the connection is a request still waiting
  for that piece of work (otherwise its commit could answer twice or act for
  nobody); a request that flushes has an entry.
- `Sound` ties the open transaction to the committed tables: both are consistent,
  the transaction has kept an admin and promoted nobody banned relative to `db`,
  has changed no account but that of the person signing in, and has not diverged
  from `db` before its case ran. None of the safety properties is inductive
  without it, because a commit publishes `work`, which was computed in an earlier
  step; it stays valid only since nobody else may write meanwhile.

`AccessProofs` strengthens them to `Whole`, which is also

- `Isolated`: once its case ran, the open transaction's tables and outcome are those
  the case has on the committed tables as they are now. This is what makes a
  transaction one step of the abstract specification.
- `Handled`: where a request is tells which entry it owes, what it has answered and
  whose authority it was read with.
- `Once`: a recorded sign-in of an account that was there before means a row at
  least as late, so a second `DBMarkSignIn` with that token matches nothing.

It then maps every step of `Panel` to a step of `Access` or a stutter. The
view (`Known`, `Banner`, `Sessions`) reads only the committed tables, so everything
but a commit, a recorded sign-in and the end of a request leaves it alone, and `Isolated`
turns a commit into a `Promise` step.

### Jobs

`JobsProofs` proves `IInv`: `TypeOK`, `Numbered` (receipts and attempts agree),
`Claimed` (the flag is held by the one tick past its claim), `Reading` (a handler's
read lies in its own window of reasons) and `Worked` (what a handler has done
matches what it will return). `StampsInOrder` is the fact about rounding the two
purge theorems rest on: rounding down keeps order, and loses less than a second.

`QueueDelivers` maps every step of `Jobs` to a step of `Delivery` or a stutter: an order,
a lift, a receipt, the handler's read, its notice and the deletion are steps of it; ticks,
purges, expiries, extensions, failures and restarts it does not see. `Fresh` is what
`IInv` lacks for that: who an unsent order is for is open, an attempt that did not read
found nothing, and one that did not come to its notice has not sent it, so a handler
reads once and sends once.

### Request

`RequestProofs` proves `HInv`, which is `GInv` (`Shape`: the types; `Shut`: unless the
caller is an admin no namespace has an object and only `signOut` has run; `Once`: what
ran or failed is no longer waiting, so no command runs twice, and `FailuresNamed`)
with `Outside`: execution begins only behind the middleware, with an identity, and a
request has a status when it is over and not before.

`ExecutionProofs` adds `WInv`, which follows the walk over the document: `Grown` (a field
that started stands in an object that selects it, and what an object selects is complete
before the object is), `Placed` (an object has its field's type, or one of the union's),
`Explained` (what was written has no null that counts, and a null that was promised has its
error), `InTurn` (a root of a mutation starts when those above it are complete) and
`Promised` (a command that started has run, once). `CountedAreRequired` compares the tables
type by type: an object function counts exactly the fields the schema marks as required.
That lets a null climb: the child that made its parent null has an error at or below it,
which is below the parent too.

`AddressAlwaysTheClients` follows `Resolve` hop by hop. The header ends with the peers the
proxies saw, so while the walk is within them it is at a trusted proxy, and it stops at
the first that is not: the client, before anything the client wrote itself is looked at.
That the walk, a recursive function, exists and has a value at every hop is
`RecursionExists`.

`CrossingsAudited` needs `AInv`, which is `WInv` and four parts more: the log is empty until
the request is over and the buffer from then on (`Emptied`); an entry, written or
buffered, is the sign-in's or that of a root field that is due one, no root has two, and
the counter of denials agrees (`Recorded`); every root that is due one has its
entry, as has the sign-in (`Owed`); and what ran stands below a root that is due one and
behind an admin, sign-out apart (`Rooted`). The detail is cut where a rune starts: the
offsets of runes go up, and the walk back from the limit stops at the last that fits.

### Lifecycle

`LifecycleProofs` proves `IInv`: `TypeOK`, `FileInv` (tables and versions agree, an
open migration is the next one, and whoever is past migrating found all of them),
`PoolInv` (which pools are open follows from where `run` is), `CronInv` (cron runs only
between wiring and the deferred `Stop`) and `FlightInv` (requests are still in a process
past its drain only if the deadline passed, or without one if its listener broke).
`NobodyIsRefused` needs `RotationInv` as well: the probes missed since readiness was
withdrawn account for the delay that has gone by, so the delay cannot be over before the
threshold is reached. The two theorems about requests name what they leave out: a kill,
and `ServeFails`, after which `run` returns without a drain.

### Pages

`PagesProofs` proves `PInv`. `Appending`: who holds the write lock has the highest id, and
whatever is in the log is below it or was committed before; hence a row that comes is
above all that came earlier (`Grows`). `Showing`: a page at hand, or about to be, says of
the log what was so when it was read, and still is (`PageOf`): it descends, leaves no row
out between its first and its last, begins below its cursor, and has no row below it if
it offers no next. Appends cannot spoil that because they are above, nor purges because
they only remove. `Chained`: as long as nothing was fetched again, each page but the last
is at hand and the next cursor is its end. `NothingOlder` needs only the first two, which
is why it also holds after a refetch.

The list is a concatenation over the cursors, defined by recursion in `FlattenSeq`.
`FlattenJoins` shows that the recursion has a solution, `PageJoins` that a page that goes
on where the list ended keeps it in order and without gaps, and `ListInOrder` puts the
two together by induction over the pages. What SQLite lists is defined by counting
the newer rows of each; `NewestExist` and `NewerCounts` show that this puts one row in
each place.

### Induction

The prover cannot instantiate the library's induction theorems, which take a predicate as
a parameter. `Inductions` states what is needed over sets instead: a non-empty set
of numbers has a least element (from the well-foundedness of `<`), a set that holds 0 and
is closed under steps holds all numbers up to a bound, and a function defined by
recursion up to a bound exists. The properties about what a recursive definition computes
(the forwarded addresses, the truncation, the list on the screen) are proved with these.

### Theorems

| Theorem | Module | Statement |
|---|---|---|
| `ResolveConsistent`, `SignInConsistent` | `PanelProofs` | each command and the first sign-in keep consistent tables |
| `TypeCorrect` | `PanelProofs` | `Spec => []TypeOK` |
| `SoleAdminSafe` | `PanelProofs` | `Spec => []SoleAdminNotBanned` |
| `BansAlwaysBite` | `PanelProofs` | `Spec => []BansBite` |
| `AnAdminRemains` | `PanelProofs` | `Spec => AdminsNeverEmptied` |
| `BannedStayOut` | `PanelProofs` | `Spec => NoBannedPromotion` |
| `WritersExclude` | `PanelProofs` | `Spec => OneWriter` (not a run's property) |
| `SignInsAdvance` | `PanelProofs` | `Spec => SignInNeverRegresses` |
| `NoticesMatchBans` | `AccessProofs` | `Spec => []NoticeIffBan` |
| `AuditIsComplete` | `AccessProofs` | `Spec => []AuditComplete` |
| `SignInsCountOnce` | `AccessProofs` | `Spec => []SignInOnce` |
| `AdminsAreGranted` | `AccessProofs` | `Spec => AdminsGrowByGrant` |
| `PanelImplementsAccess` | `AccessProofs` | `Spec => ImplementsAccess` |
| `JobsTyped` | `JobsProofs` | `Spec => []TypeOK` (not a run's property) |
| `TicksTakeTurns` | `JobsProofs` | `Spec => []NoOverlap` |
| `NoticesAreCurrent` | `JobsProofs` | `Spec => []NoticeIsCurrent` |
| `MessagesAreHandled` | `JobsProofs` | `Spec => []HandledOrKept` (a part of the invariant, not a run's property) |
| `QueueDelivers` | `JobsProofs` | `Spec => ImplementsDelivery` |
| `RetentionKept` | `JobsProofs` | `Spec => RecentRowsKept` |
| `RetentionReached` | `JobsProofs` | `Spec => PurgeReaches` |
| `RequestTyped` | `RequestProofs` | `Spec => []TypeOK` |
| `BoundaryHolds` | `RequestProofs` | `Spec => []NothingBehindDenial` |
| `FailuresAlwaysNamed` | `RequestProofs` | `Spec => []FailuresNamed` |
| `IdentityRequired` | `RequestProofs` | `Spec => []NothingWithoutIdentity` |
| `AddressAlwaysTheClients` | `RequestProofs` | `Spec => []AddressIsTheClients` |
| `NullsAreAccounted` | `ExecutionProofs` | `Spec => []NullsAccounted` |
| `RootsTakeTurns` | `ExecutionProofs` | `Spec => RootsInOrder` |
| `SiblingsAllRun` | `ExecutionProofs` | `Spec => []SiblingsRun` |
| `CrossingsAudited` | `ExecutionProofs` | `Spec => []EveryCrossingAudited` |
| `LifecycleTyped` | `LifecycleProofs` | `Spec => []TypeOK` |
| `SchemaAlwaysWhole` | `LifecycleProofs` | `Spec => []SchemaWhole` |
| `NoPoolLeaks` | `LifecycleProofs` | `Spec => []PoolsReturned` |
| `CronKeepsItsDatabase` | `LifecycleProofs` | `Spec => []DatabaseOutlivesCron` |
| `RequestsKeepTheirDatabase` | `LifecycleProofs` | `Spec => []DatabaseOutlivesRequests` |
| `NobodyIsRefused` | `LifecycleProofs` | `Spec => []NoRequestRefused` |
| `NothingOlder` | `PagesProofs` | `Spec => []TheEndIsTheEnd` |
| `ListNewestFirst` | `PagesProofs` | `Spec => []NoRowTwice` |
| `ListWithoutGaps` | `PagesProofs` | `Spec => []NoRowSkipped` |

Every safety property that a passing run checks is proved. Only model-checked is
liveness under fairness: `RequestAnswered`, `MessageSettles`, `JobReleased`, `Answered`,
`SignalEnds`, `ReachesEnd`.

## 5. What is left

- The file lock that the write and the queue connection share and its timeout, and
  `Panel` and `Graph` in one instance: now `Panel` takes from a document its
  command fields in order, which `Graph` shows to be how they run.
- The counters of the metrics package beyond those `Panel` records.

## 6. Not modelled

Introspection; the metrics listener and its sweep; response headers; logging;
`dump`, `drop` and `rollback` of the migrations driver; the listings of accounts and
admins, which change no state; the presentation part of the single-page application;
the gate stack (Traefik, oauth2-proxy, Dex), of which only the token is visible;
parsing of the configuration; wording and rendering. Nested transactions are refused by
`ErrNestedTransaction`, which no code in the repository can reach. Reasons are in
`PROJECT.json`, component by component.
