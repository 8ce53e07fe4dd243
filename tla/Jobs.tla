-------------------------------- MODULE Jobs --------------------------------
(***************************************************************************)
(* The queue in the database file and what runs from it: notices to people *)
(* who were banned, and the audit purge that cron schedules.               *)
(*                                                                         *)
(* A ban order commits its row and its message together (NoticeIffBan of   *)
(* Panel) and is one step here.  A message is named by the ban order or    *)
(* the cron tick that sent it.  goqite receives a message by hiding it for *)
(* a while and counting; an attempt is one such receipt, with a handler    *)
(* goroutine of its own.  A message becomes visible again when its time is *)
(* up, which the runner postpones while the handler runs.                  *)
(*                                                                         *)
(* Faults names what may go wrong:                                         *)
(*   "read"     a handler fails (a read, the purge transaction)            *)
(*   "busy"     the queue's connection cannot get the file's write lock    *)
(*   "extend"   a message runs out of time while its handler runs          *)
(*   "restart"  the process stops, or dies, and is started again           *)
(***************************************************************************)
EXTENDS Integers, FiniteSets

CONSTANTS
    Users,
    Orders,      \* ban orders
    Ticks,       \* ticks of the cron schedule
    Reasons,     \* reasons of bans; 0 stands for no ban
    MaxReceive,  \* how often a message is received (3 in the code)
    Limit,       \* handlers that run at a time (2 in the code)
    Retention,   \* STARTERKIT_AUDIT_RETENTION, in steps of the clock; not
                 \* positive: keep everything
    MaxNow,      \* bound on the clock
    Second,      \* steps of the clock in a second
    Faults,
    None

Messages == Orders \cup Ticks
Attempts == Messages \X (1 .. MaxReceive)

ASSUME JobsAssumption ==
    /\ Reasons \subseteq Nat \ {0}
    /\ MaxReceive \in Nat \ {0} /\ Limit \in Nat \ {0}
    /\ Retention \in Int /\ MaxNow \in Nat /\ Second \in Nat \ {0}
    /\ Orders \cap Ticks = {}
    /\ None \notin Users /\ None \notin Nat
    /\ Faults \subseteq {"read", "busy", "extend", "restart"}

VARIABLES
    bans,      \* the reason of each person's ban, 0 for none
    status,    \* of each message: not sent, visible, held, deleted
    to,        \* whom a ban order's message is about
    received,  \* how often each message was received
    at,        \* where the handler of each attempt is
    found,     \* the reason the handler read, None before it has
    window,    \* history: reasons in force since the attempt began
    sent,      \* notices delivered
    tick,      \* where each tick's goroutine is
    running,   \* Runner.running of the purge job
    now,       \* the clock, finer than the seconds a row keeps
    rows       \* when the rows of audit_log were written

queue == <<status, received>>
handlers == <<at, found, window>>
cron == <<tick, running>>
vars == <<bans, status, to, received, at, found, window, sent, tick, running, now, rows>>

Active == {"start", "send", "returned"}
Ended == {"finished", "failed", "kept", "lost"}
Notices == [msg : Orders, attempt : 1 .. MaxReceive, reason : Reasons]

TypeOK ==
    /\ bans \in [Users -> Reasons \cup {0}]
    /\ status \in [Messages -> {"unsent", "visible", "held", "deleted"}]
    /\ to \in [Orders -> Users \cup {None}]
    /\ received \in [Messages -> 0 .. MaxReceive]
    /\ at \in [Attempts -> {"none"} \cup Active \cup Ended]
    /\ found \in [Attempts -> Reasons \cup {0, None}]
    /\ window \in [Attempts -> SUBSET (Reasons \cup {0})]
    /\ sent \subseteq Notices
    /\ tick \in [Ticks -> {"idle", "run", "clear", "over"}]
    /\ running \in BOOLEAN
    /\ now \in 0 .. MaxNow
    /\ rows \subseteq 0 .. MaxNow

Init ==
    /\ bans = [u \in Users |-> 0]
    /\ status = [m \in Messages |-> "unsent"]
    /\ to = [o \in Orders |-> None]
    /\ received = [m \in Messages |-> 0]
    /\ at = [x \in Attempts |-> "none"]
    /\ found = [x \in Attempts |-> None]
    /\ window = [x \in Attempts |-> {}]
    /\ sent = {}
    /\ tick = [t \in Ticks |-> "idle"] /\ running = FALSE
    /\ now = 0 /\ rows = {}

-----------------------------------------------------------------------------
\* The panel.

\* banuser, committed: the ban (a new one, or a new reason) and its message.
Ban(o, u, why) ==
    /\ status[o] = "unsent"
    /\ bans' = [bans EXCEPT ![u] = why]
    /\ status' = [status EXCEPT ![o] = "visible"]
    /\ to' = [to EXCEPT ![o] = u]
    /\ window' = [x \in Attempts |->
          IF at[x] \in Active /\ x[1] \in Orders /\ to[x[1]] = u
          THEN window[x] \cup {why} ELSE window[x]]
    /\ UNCHANGED <<received, at, found, sent, cron, now, rows>>

\* unbanuser, committed.
Unban(u) ==
    /\ bans[u] # 0
    /\ bans' = [bans EXCEPT ![u] = 0]
    /\ UNCHANGED <<queue, to, handlers, sent, cron, now, rows>>

\* An audit entry is written with the time of its insert.
AuditWrite ==
    /\ now \notin rows
    /\ rows' = rows \cup {now}
    /\ UNCHANGED <<bans, queue, to, handlers, sent, cron, now>>

Clock ==
    /\ now < MaxNow
    /\ now' = now + 1
    /\ UNCHANGED <<bans, queue, to, handlers, sent, cron, rows>>

-----------------------------------------------------------------------------
\* cronjobs.Runner: every tick is a goroutine of its own.

\* Mutant: the flag is read and never set.
TickStartsUnmarked(t) ==
    /\ tick[t] = "idle"
    /\ tick' = [tick EXCEPT ![t] = IF running THEN "over" ELSE "run"]
    /\ UNCHANGED <<bans, queue, to, handlers, sent, running, now, rows>>

\* Under the mutex: skip the tick, or claim the job.
TickStarts(t) ==
    /\ tick[t] = "idle"
    /\ tick' = [tick EXCEPT ![t] = IF running THEN "over" ELSE "run"]
    /\ running' = TRUE
    /\ UNCHANGED <<bans, queue, to, handlers, sent, now, rows>>

\* EnqueueJob with no transaction in scope: through the queue's connection.
TickEnqueues(t) ==
    /\ tick[t] = "run"
    /\ status' = [status EXCEPT ![t] = "visible"]
    /\ tick' = [tick EXCEPT ![t] = "clear"]
    /\ UNCHANGED <<bans, received, to, handlers, sent, running, now, rows>>

\* An error is logged, a panic recovered; the deferred functions still run.
TickFails(t) ==
    /\ "busy" \in Faults
    /\ tick[t] = "run"
    /\ tick' = [tick EXCEPT ![t] = "clear"]
    /\ UNCHANGED <<bans, queue, to, handlers, sent, running, now, rows>>

\* Mutant: the job is not released.
TickEndsHolding(t) ==
    /\ tick[t] = "clear"
    /\ tick' = [tick EXCEPT ![t] = "over"]
    /\ UNCHANGED <<bans, queue, to, handlers, sent, running, now, rows>>

TickEnds(t) ==
    /\ tick[t] = "clear"
    /\ tick' = [tick EXCEPT ![t] = "over"]
    /\ running' = FALSE
    /\ UNCHANGED <<bans, queue, to, handlers, sent, now, rows>>

-----------------------------------------------------------------------------
\* goqite and its runner.

Busy(m) == \E a \in 1 .. MaxReceive : at[<<m, a>>] \in Active

\* A visible message that has receipts left, and a free handler.
Receive(m) ==
    /\ status[m] = "visible" /\ received[m] < MaxReceive
    /\ Cardinality({x \in Attempts : at[x] \in Active}) < Limit
    /\ LET x == <<m, received[m] + 1>>
       IN  /\ at' = [at EXCEPT ![x] = "start"]
           /\ window' = [window EXCEPT ![x] =
                 IF m \in Orders THEN {bans[to[m]]} ELSE {}]
    /\ received' = [received EXCEPT ![m] = @ + 1]
    /\ status' = [status EXCEPT ![m] = "held"]
    /\ UNCHANGED <<bans, to, found, sent, cron, now, rows>>

\* Nobody postpones it any longer: the message is visible again.
Expire(m) ==
    /\ status[m] = "held" /\ ~Busy(m)
    /\ status' = [status EXCEPT ![m] = "visible"]
    /\ UNCHANGED <<bans, received, to, handlers, sent, cron, now, rows>>

\* It was not postponed in time, though its handler still runs.
Lapse(m) ==
    /\ "extend" \in Faults
    /\ status[m] = "held" /\ Busy(m)
    /\ status' = [status EXCEPT ![m] = "visible"]
    /\ UNCHANGED <<bans, received, to, handlers, sent, cron, now, rows>>

\* The handler returned nil.  A row that was received again meanwhile may or may
\* not be taken for the one this handler had.
Delete(m, a) ==
    /\ at[<<m, a>>] = "returned"
    /\ at' = [at EXCEPT ![<<m, a>>] = "finished"]
    /\ \/ status' = [status EXCEPT ![m] = "deleted"]
       \/ received[m] # a /\ UNCHANGED status
    /\ UNCHANGED <<bans, received, to, found, window, sent, cron, now, rows>>

\* The row stays, and with it the message.
DeleteFails(m, a) ==
    /\ "busy" \in Faults
    /\ at[<<m, a>>] = "returned"
    /\ at' = [at EXCEPT ![<<m, a>>] = "kept"]
    /\ UNCHANGED <<bans, queue, to, found, window, sent, cron, now, rows>>

-----------------------------------------------------------------------------
\* The handlers, as jobs.Register wraps them.

\* 0 for sql.ErrNoRows.
DBGetUserBan(u) == bans[u]

\* Mutant: what an earlier attempt read is used again.
LoadRemembered(m, a) ==
    LET known == {b \in 1 .. a - 1 : found[<<m, b>>] # None}
        reason == IF known = {} THEN DBGetUserBan(to[m]) ELSE found[<<m, CHOOSE b \in known : TRUE>>]
    IN  /\ at[<<m, a>>] = "start" /\ m \in Orders
        /\ found' = [found EXCEPT ![<<m, a>>] = reason]
        /\ at' = [at EXCEPT ![<<m, a>>] = IF reason = 0 THEN "returned" ELSE "send"]
        /\ UNCHANGED <<bans, queue, to, window, sent, cron, now, rows>>

\* notifyuserbanned: accounts are never deleted, so only the ban may be gone.
Load(m, a) ==
    /\ at[<<m, a>>] = "start" /\ m \in Orders
    /\ found' = [found EXCEPT ![<<m, a>>] = DBGetUserBan(to[m])]
    /\ at' = [at EXCEPT ![<<m, a>>] = IF DBGetUserBan(to[m]) = 0 THEN "returned" ELSE "send"]
    /\ UNCHANGED <<bans, queue, to, window, sent, cron, now, rows>>

\* An account always has an address, so the notifier does not refuse it.
NotifyUserBanned(m, a) ==
    /\ at[<<m, a>>] = "send"
    /\ sent' = sent \cup {[msg |-> m, attempt |-> a, reason |-> found[<<m, a>>]]}
    /\ at' = [at EXCEPT ![<<m, a>>] = "returned"]
    /\ UNCHANGED <<bans, queue, to, found, window, cron, now, rows>>

\* dbtime: a time is bound to a query as whole seconds, rounded down.
Stamp(t) == t \div Second

\* Mutants: rows of the cutoff's own second go too; the cutoff loses a second.
PurgedInclusive(t) == Retention > 0 /\ Stamp(t) <= Stamp(now - Retention)
PurgedLate(t) == Retention > 0 /\ Stamp(t) + 1 < Stamp(now - Retention)

\* created_at < now - retention, unless the retention disables the purge.
Purged(t) == Retention > 0 /\ Stamp(t) < Stamp(now - Retention)

\* Mutant: it waits for the write connection that it holds itself.
PurgeWaits(m, a) ==
    /\ at[<<m, a>>] = "start" /\ m \in Ticks
    /\ UNCHANGED vars

PurgeAuditLog(m, a) ==
    /\ at[<<m, a>>] = "start" /\ m \in Ticks
    /\ rows' = {t \in rows : ~Purged(t)}
    /\ at' = [at EXCEPT ![<<m, a>>] = "returned"]
    /\ UNCHANGED <<bans, queue, to, found, window, sent, cron, now>>

\* Mutant: the error is swallowed.
HandlerSwallows(m, a) ==
    /\ "read" \in Faults
    /\ at[<<m, a>>] = "start"
    /\ at' = [at EXCEPT ![<<m, a>>] = "returned"]
    /\ UNCHANGED <<bans, queue, to, found, window, sent, cron, now, rows>>

\* The handler returned an error: the message is left to run out of time.
HandlerFails(m, a) ==
    /\ "read" \in Faults
    /\ at[<<m, a>>] = "start"
    /\ at' = [at EXCEPT ![<<m, a>>] = "failed"]
    /\ UNCHANGED <<bans, queue, to, found, window, sent, cron, now, rows>>

\* The context is cancelled or the process dies: run does not wait for handlers.
Restart ==
    /\ "restart" \in Faults
    /\ \/ \E x \in Attempts : at[x] \in Active
       \/ \E t \in Ticks : tick[t] \in {"run", "clear"}
    /\ at' = [x \in Attempts |-> IF at[x] \in Active THEN "lost" ELSE at[x]]
    /\ tick' = [t \in Ticks |-> IF tick[t] \in {"run", "clear"} THEN "over" ELSE tick[t]]
    /\ running' = FALSE
    /\ UNCHANGED <<bans, queue, to, found, window, sent, now, rows>>

-----------------------------------------------------------------------------
\* What a handler's goroutine does by itself.
Handle(m, a) ==
    Load(m, a) \/ NotifyUserBanned(m, a) \/ PurgeAuditLog(m, a) \/ Delete(m, a)

TickStep(t) == TickEnqueues(t) \/ TickEnds(t)

Next ==
    \/ \E o \in Orders, u \in Users, why \in Reasons : Ban(o, u, why)
    \/ \E u \in Users : Unban(u)
    \/ AuditWrite \/ Clock
    \/ \E t \in Ticks : TickStarts(t) \/ TickStep(t) \/ TickFails(t)
    \/ \E m \in Messages : Receive(m) \/ Expire(m) \/ Lapse(m)
    \/ \E m \in Messages, a \in 1 .. MaxReceive :
          Handle(m, a) \/ DeleteFails(m, a) \/ HandlerFails(m, a)
    \/ Restart

Spec == Init /\ [][Next]_vars

\* Goroutines run, the runner polls, time passes.  Panel and schedule owe nothing.
FairSpec ==
    /\ Spec
    /\ \A t \in Ticks : WF_vars(TickStep(t))
    /\ \A m \in Messages : WF_vars(Receive(m)) /\ WF_vars(Expire(m))
    /\ \A m \in Messages, a \in 1 .. MaxReceive : WF_vars(Handle(m, a))

-----------------------------------------------------------------------------
\* Properties.

\* A notice states a reason that was in force at some moment of the attempt that
\* sent it: after an unban nothing is sent for the ban that is gone, and after a
\* new ban no late or repeated delivery quotes the old reason.
NoticeIsCurrent ==
    \A s \in sent : s.reason \in window[<<s.msg, s.attempt>>]

\* The row of a message goes only when an attempt has done its work: the notice
\* went out, or the attempt itself saw that the ban was gone.
HandledOrKept ==
    \A o \in Orders : status[o] = "deleted" =>
        \E a \in 1 .. MaxReceive :
            /\ at[<<o, a>>] = "finished"
            /\ \/ found[<<o, a>>] = 0
               \/ \E s \in sent : s.msg = o /\ s.attempt = a

\* Two ticks of one job never run at the same time, also across a panic or an
\* error of the first.
NoOverlap ==
    \A s, t \in Ticks : tick[s] \in {"run", "clear"} /\ tick[t] \in {"run", "clear"} => s = t

\* The purge removes nothing younger than the retention, to the finest step of
\* the clock: rounding the row's time and the cutoff to seconds never makes a
\* row look older than it is.
RecentRowsKept == [][\A t \in rows \ rows' : now - t > Retention]_vars

\* A purge that finished leaves no row that was a second or more past its
\* retention when it ran, however many attempts failed or were cut short before
\* it and whatever its attempts overlapped with.
PurgeReaches ==
    [][\A m \in Ticks, a \in 1 .. MaxReceive :
          PurgeAuditLog(m, a) /\ Retention > 0 =>
              \A t \in rows' : now - t < Retention + Second]_vars

\* Received in duplicate, late, beside each other, lost and started again, the
\* attempts at a notice add nothing to what Delivery allows: at most MaxReceive tries
\* of one look and one notice each, and none once the message was dealt with.
Promise == INSTANCE Delivery WITH
    owed <- to,
    tried <- [o \in Orders |-> received[o]],
    found <- [x \in Orders \X (1 .. MaxReceive) |-> found[x]],
    settled <- {o \in Orders : status[o] = "deleted"}

ImplementsDelivery == Promise!Spec

\* A message is out of receipts and nobody is working on it.
Exhausted(m) == received[m] = MaxReceive /\ ~Busy(m)

\* Every message that was sent is dealt with or used up: no failed handler, lost
\* process or busy lock keeps it waiting for ever.
MessageSettles ==
    \A m \in Messages : status[m] = "visible" ~> status[m] = "deleted" \/ Exhausted(m)

\* A job that was claimed is released, so one bad run does not end the schedule.
JobReleased == running ~> ~running

=============================================================================
