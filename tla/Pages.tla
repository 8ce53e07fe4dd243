------------------------------- MODULE Pages -------------------------------
(***************************************************************************)
(* The audit log on its screen: keyset pages that the single-page          *)
(* application asks for one after the other and keeps, while requests      *)
(* append rows to the log, the purge job removes old ones, and a mutation  *)
(* of the same application makes it fetch every page again.                *)
(*                                                                         *)
(* A row is its id and its created_at, in the unit the purge compares.     *)
(* As in the code, 0 is the cursor of the first page; it also stands for   *)
(* an endCursor that is null, which no id can be.                          *)
(***************************************************************************)
EXTENDS Integers, FiniteSets, Sequences, SequencesExt

CONSTANTS
    Writers,        \* requests that flush an audit entry
    PageSizes,      \* the limits a client may ask for
    DefaultLimit, MaxLimit,
    Retention,      \* AuditRetention
    Rows,           \* how many rows the log starts with, soon to be purged
    MaxClock, MaxEntries, MaxMutations, MaxFailures  \* bounds

ASSUME PagesAssumption ==
    /\ 0 \notin Writers
    /\ PageSizes \subseteq Int
    /\ DefaultLimit \in Nat \ {0} /\ MaxLimit \in Nat /\ DefaultLimit <= MaxLimit
    /\ Retention \in Nat \ {0} /\ Rows \in Nat /\ MaxEntries \in Nat

VARIABLES
    log,        \* audit_log: the created_at of each id
    sequence,   \* the highest id ever given out (sqlite_sequence)
    lock,       \* who holds SQLite's write lock; 0 if nobody
    writer,     \* what each writer does, with its stamp and its id
    now,
    size,       \* page_size of the screen
    cursors,    \* the cursor of every page asked for, in order
    pages,      \* the pages at hand, by their cursor
    fetch,      \* the request under way: its cursor and what was read, or Idle
    refetched,  \* history: whether a mutation made it fetch pages again
    mutations, failures
table == <<log, sequence, lock, writer, now>>
screen == <<size, cursors, pages, fetch, refetched, mutations, failures>>
vars == <<table, screen>>

NoPage == [nodes |-> <<>>, has_next |-> FALSE, end_cursor |-> 0]
Idle == [stage |-> "idle", before |-> 0, page |-> NoPage]

Init ==
    /\ log = [id \in 1 .. Rows |-> 0] /\ sequence = Rows /\ lock = 0 /\ now = Retention
    /\ writer = [w \in Writers |-> [step |-> "new", at |-> 0, id |-> 0]]
    /\ size \in PageSizes
    /\ cursors = <<0>> /\ pages = <<>> /\ fetch = Idle
    /\ refetched = FALSE /\ mutations = 0 /\ failures = 0

-----------------------------------------------------------------------------
\* The log.

\* flushAudit takes the time, and then waits for the connection.
Stamp(w) ==
    /\ writer[w].step = "new" /\ sequence < Rows + MaxEntries
    /\ writer' = [writer EXCEPT ![w] = [step |-> "waiting", at |-> now, id |-> 0]]
    /\ UNCHANGED <<log, sequence, lock, now, screen>>

\* Mutant: writers do not wait for each other.
InsertUnlocked(w) ==
    /\ writer[w].step = "waiting"
    /\ sequence' = sequence + 1
    /\ writer' = [writer EXCEPT ![w] = [step |-> "inserting", at |-> @.at, id |-> sequence + 1]]
    /\ UNCHANGED <<log, now, lock, screen>>

\* DBInsertAuditLog takes the next id inside its write transaction.
Insert(w) ==
    /\ writer[w].step = "waiting" /\ lock = 0
    /\ lock' = w
    /\ sequence' = sequence + 1
    /\ writer' = [writer EXCEPT ![w] = [step |-> "inserting", at |-> @.at, id |-> sequence + 1]]
    /\ UNCHANGED <<log, now, screen>>

\* The row is there for readers; the next request may flush.
Commit(w) ==
    /\ writer[w].step = "inserting"
    /\ log' = [id \in DOMAIN log \cup {writer[w].id} |->
                  IF id = writer[w].id THEN writer[w].at ELSE log[id]]
    /\ lock' = 0
    /\ writer' = [writer EXCEPT ![w] = [step |-> "new", at |-> 0, id |-> 0]]
    /\ UNCHANGED <<sequence, now, screen>>

\* DBDeleteAuditLogBefore.  Ids are not given out again (autoincrement).
Purge ==
    /\ lock = 0
    /\ log' = [id \in {i \in DOMAIN log : log[i] >= now - Retention} |-> log[id]]
    /\ UNCHANGED <<sequence, lock, writer, now, screen>>

Tick == now < MaxClock /\ now' = now + 1 /\ UNCHANGED <<log, sequence, lock, writer, screen>>

-----------------------------------------------------------------------------
\* A page.

\* Mutant: a limit below one is taken as it is.
ClampAbove(limit) == IF limit > MaxLimit THEN MaxLimit ELSE limit

Clamp(limit) ==
    LET asked == IF limit <= 0 THEN DefaultLimit ELSE limit
    IN IF asked > MaxLimit THEN MaxLimit ELSE asked

\* Mutant: the row of the cursor belongs to the next page too.
AtOrBelow(before) == {id \in DOMAIN log : id <= before \/ before = 0}

\* The condition of dBListAuditLog.
Below(before) == {id \in DOMAIN log : id < before \/ before = 0}

\* Newest first, at most so many.
DBListAuditLog(before, limit) ==
    LET rows == Below(before)
        count == Cardinality(rows)
    IN [k \in 1 .. (IF limit < count THEN limit ELSE count) |->
           CHOOSE id \in rows : Cardinality({newer \in rows : newer > id}) = k - 1]

\* Mutant: it asks for no row more than it shows.
ListExactly(before) ==
    LET limit == Clamp(size)
        nodes == DBListAuditLog(before, limit)
    IN [nodes |-> nodes, has_next |-> Len(nodes) > limit,
        end_cursor |-> IF nodes = <<>> THEN 0 ELSE nodes[Len(nodes)]]

\* listauditlog.Resolve: one row more than the page tells whether there is a next.
ListAuditLog(before) ==
    LET limit == Clamp(size)
        rows == DBListAuditLog(before, limit + 1)
        nodes == SubSeq(rows, 1, IF limit < Len(rows) THEN limit ELSE Len(rows))
    IN [nodes |-> nodes, has_next |-> Len(rows) > limit,
        end_cursor |-> IF nodes = <<>> THEN 0 ELSE nodes[Len(nodes)]]

-----------------------------------------------------------------------------
\* The screen.

Wanted == {i \in DOMAIN cursors : cursors[i] \notin DOMAIN pages}
Settled == Wanted = {} /\ fetch = Idle

\* pages() goes through the cursors and is suspended at the first it has to fetch.
Fetch ==
    /\ fetch = Idle /\ Wanted # {}
    /\ LET first == CHOOSE i \in Wanted : \A j \in Wanted : i <= j
       IN fetch' = [stage |-> "asked", before |-> cursors[first], page |-> NoPage]
    /\ UNCHANGED <<table, size, cursors, pages, refetched, mutations, failures>>

\* The server reads the rows; the count, read after them, changes nothing here.
Read ==
    /\ fetch.stage = "asked"
    /\ fetch' = [fetch EXCEPT !.stage = "read", !.page = ListAuditLog(fetch.before)]
    /\ UNCHANGED <<table, size, cursors, pages, refetched, mutations, failures>>

Receive ==
    /\ fetch.stage = "read"
    /\ pages' = [c \in DOMAIN pages \cup {fetch.before} |->
                    IF c = fetch.before THEN fetch.page ELSE pages[c]]
    /\ fetch' = Idle
    /\ UNCHANGED <<table, size, cursors, refetched, mutations, failures>>

\* Either read fails, or the request does: the screen shows an error until it is
\* opened again.
Fail ==
    /\ fetch.stage = "asked" /\ failures < MaxFailures
    /\ failures' = failures + 1
    /\ fetch' = [Idle EXCEPT !.stage = "failed"]
    /\ UNCHANGED <<table, size, cursors, pages, refetched, mutations>>

\* A new paging, with nothing at hand.
Reopen ==
    /\ fetch.stage = "failed"
    /\ cursors' = <<0>> /\ pages' = <<>> /\ fetch' = Idle /\ refetched' = FALSE
    /\ UNCHANGED <<table, size, mutations, failures>>

LastPage == pages[cursors[Len(cursors)]]
HasNext == Settled /\ LastPage.has_next

More ==
    /\ HasNext /\ LastPage.end_cursor # 0
    /\ cursors' = Append(cursors, LastPage.end_cursor)
    /\ UNCHANGED <<table, size, pages, fetch, refetched, mutations, failures>>

\* $starterkit_gql_marker_bump: a mutation of the application was answered.  Every
\* page is out of date, the one that failed too; of the request under way either
\* the answer is taken or another is made.
Mutation ==
    /\ mutations < MaxMutations
    /\ mutations' = mutations + 1
    /\ pages' = <<>> /\ refetched' = TRUE
    /\ fetch' \in (IF fetch.stage = "failed" THEN {Idle} ELSE {Idle, fetch})
    /\ UNCHANGED <<table, size, cursors, failures>>

Next ==
    \/ \E w \in Writers : Stamp(w) \/ Insert(w) \/ Commit(w)
    \/ Purge \/ Tick
    \/ Fetch \/ Read \/ Receive \/ Fail \/ Reopen \/ More \/ Mutation

Spec == Init /\ [][Next]_vars

\* The application runs, the server answers or fails, and somebody presses "Show
\* more" for as long as there is more, and opens a screen again that failed.
FairSpec == Spec /\ WF_vars(Fetch \/ Read \/ Receive \/ Reopen) /\ WF_vars(More)

-----------------------------------------------------------------------------
\* Properties.

\* What the list shows: items().
Items == FlattenSeq([i \in DOMAIN cursors |-> pages[cursors[i]].nodes])

\* However writers, the purge and the pages fall between each other, the list shows
\* no row twice and the newest first, as long as no page was fetched again.
NoRowTwice ==
    Settled /\ ~refetched => \A i, j \in DOMAIN Items : i < j => Items[i] > Items[j]

\* Nor does it pass over a row that is in the log: ids are given out and committed in
\* the same order, so that a row that appears late is above the pages read before it.
NoRowSkipped ==
    Settled /\ ~refetched =>
        \A id \in DOMAIN log :
            Items # <<>> /\ Items[1] >= id /\ id >= Items[Len(Items)] => id \in ToSet(Items)

\* When nothing more is offered there is nothing older, whatever was fetched again,
\* appended or purged before: rows below a page never appear.
TheEndIsTheEnd ==
    Settled /\ ~HasNext =>
        LET c == cursors[Len(cursors)]
            end == IF LastPage.nodes = <<>> THEN c ELSE LastPage.end_cursor
        IN (c # 0 \/ LastPage.nodes # <<>>) => \A id \in DOMAIN log : id >= end

\* Somebody who goes on pressing "Show more" gets to the end.
ReachesEnd == <>[](Settled /\ ~HasNext)

-----------------------------------------------------------------------------
\* docs/data-layer.md:194 "Offset pagination would let the UI jump to page N, at the
\* cost of scanning at depth and shifting rows under the reader whenever a new entry
\* lands.  For a log that is written to constantly, keyset is the honest choice."  The
\* list keeps the cursors of its old pages when it fetches them again after a mutation:
\* the first page moves up to the new rows, and those it shed are on no page.
NoRowLost ==
    Settled =>
        \A id \in DOMAIN log :
            Items # <<>> /\ Items[1] >= id /\ id >= Items[Len(Items)] => id \in ToSet(Items)
=============================================================================
