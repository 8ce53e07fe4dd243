----------------------------- MODULE Lifecycle -----------------------------
(***************************************************************************)
(* Panel processes from start to exit: the migrations each of them runs on *)
(* the file they share, the pools it opens, the gate it looks for, and the *)
(* drain that a signal begins, beside a load balancer that probes /readyz. *)
(*                                                                         *)
(* Time is a count of ticks that drives the shutdown delay, the shutdown   *)
(* timeout and the probes.  A process whose timer is due acts before time  *)
(* goes on; requests and cron ticks take as long as they like.             *)
(***************************************************************************)
EXTENDS Naturals, FiniteSets

CONSTANTS
    Processes, Requests, None,
    Migrations,  \* how many files db/migrations has
    Delay,       \* ShutdownDelay
    Timeout,     \* ShutdownTimeout
    Interval,    \* the load balancer's health-check interval
    Threshold,   \* and how many failures in a row it waits for
    MaxStarts,   \* bound: starts of any process
    Faults       \* "boot": a boot step fails; "serve": a listener breaks while
                 \* it serves; "crash": a process is killed

\* How a request ends, or that it has not been sent.
Outcomes == {"nowhere", "answered", "refused", "lost", "cut"}

\* docs/metrics-and-shutdown.md: "set it to more than your load balancer's
\* health-check interval times its failure threshold".
ASSUME LifecycleAssumption ==
    /\ Migrations \in Nat /\ Timeout \in Nat /\ MaxStarts \in Nat
    /\ Interval \in Nat \ {0} /\ Threshold \in Nat \ {0}
    /\ Delay \in Nat /\ Delay > Interval * Threshold
    /\ Processes \cap ({None} \cup Outcomes) = {}

VARIABLES
    tables,     \* migrations whose tables the file has
    versions,   \* rows of schema_migrations
    lock,       \* the process whose migration is in a transaction, or None
    at,         \* where run() is, in each process
    next,       \* the migration it will apply next
    pools,      \* the pools it has open
    cancelled,  \* whether its context is cancelled
    listening,  \* whether srv accepts connections
    drain,      \* where the shutdown goroutine is
    timer,      \* ticks left of its sleep or of its deadline
    tick,       \* the cron scheduler: off, waiting, or in a run of the job
    overdue,    \* history: the deadline passed with requests in flight
    broken,     \* history: the listener broke, and run returned without a drain
    probe,      \* ticks to the next probe of the processes
    misses,     \* failed probes in a row
    rotation,   \* whether the load balancer sends it requests
    died,       \* history: killed or broken, and not answering probes since
    where,      \* the process each request is at, or how it ended
    starts
file == <<tables, versions, lock>>
boot == <<at, next, pools, cancelled>>
shutdown == <<listening, drain, timer, tick, overdue, broken>>
balancer == <<probe, misses, rotation, died>>
vars == <<file, boot, shutdown, balancer, where, starts>>

Pools == {"read", "write", "queue"}
\* From newApp's return on; the goroutines of run live.
Running == {"wired", "serving", "awaiting", "returning", "stopping", "closed"}
Booting == {"selecting", "migrating", "opening", "discovering", "wiring"}
InFlight(p) == {r \in Requests : where[r] = p}

Init ==
    /\ tables = 0 /\ versions = 0 /\ lock = None /\ starts = 0
    /\ at = [p \in Processes |-> "down"] /\ next = [p \in Processes |-> 0]
    /\ pools = [p \in Processes |-> {}] /\ cancelled = [p \in Processes |-> FALSE]
    /\ listening = [p \in Processes |-> FALSE] /\ drain = [p \in Processes |-> "idle"]
    /\ timer = [p \in Processes |-> 0] /\ tick = [p \in Processes |-> "off"]
    /\ overdue = [p \in Processes |-> FALSE] /\ broken = [p \in Processes |-> FALSE]
    /\ probe = 0 /\ misses = [p \in Processes |-> Threshold]
    /\ rotation = [p \in Processes |-> FALSE] /\ died = [p \in Processes |-> FALSE]
    /\ where = [r \in Requests |-> "nowhere"]

Goto(p, label) == at' = [at EXCEPT ![p] = label]

-----------------------------------------------------------------------------
\* Booting.

Start(p) ==
    /\ at[p] = "down" /\ starts < MaxStarts
    /\ starts' = starts + 1
    /\ Goto(p, "selecting")
    /\ cancelled' = [cancelled EXCEPT ![p] = FALSE]
    /\ UNCHANGED <<file, next, pools, shutdown, balancer, where>>

\* CreateAndMigrate reads the versions once, and works off what they lack.
SelectMigrations(p) ==
    /\ at[p] = "selecting"
    /\ next' = [next EXCEPT ![p] = versions + 1]
    /\ Goto(p, "migrating")
    /\ UNCHANGED <<file, pools, cancelled, shutdown, balancer, where, starts>>

\* Mutant: the statements of a migration run outside its transaction.
BeginMigrationAtOnce(p) ==
    /\ at[p] = "migrating" /\ next[p] <= Migrations
    /\ lock = None /\ tables < next[p]
    /\ lock' = p /\ tables' = next[p]
    /\ UNCHANGED <<versions, boot, shutdown, balancer, where, starts>>

\* The statements of one migration, in a transaction nobody else sees into.
BeginMigration(p) ==
    /\ at[p] = "migrating" /\ next[p] <= Migrations
    /\ lock = None /\ tables < next[p]
    /\ lock' = p
    /\ UNCHANGED <<tables, versions, boot, shutdown, balancer, where, starts>>

\* Its version is inserted in the same transaction.
CommitMigration(p) ==
    /\ at[p] = "migrating" /\ lock = p
    /\ tables' = next[p] /\ versions' = next[p] /\ lock' = None
    /\ next' = [next EXCEPT ![p] = @ + 1]
    /\ UNCHANGED <<at, pools, cancelled, shutdown, balancer, where, starts>>

Migrated(p) ==
    /\ at[p] = "migrating" /\ next[p] > Migrations
    /\ Goto(p, "opening")
    /\ UNCHANGED <<file, next, pools, cancelled, shutdown, balancer, where, starts>>

Unlock(p) == lock' = IF lock = p THEN None ELSE lock

\* Another process is at it (its connection does not wait), or was first and the
\* tables exist, or the disk failed.
MigrationFails(p) ==
    /\ at[p] \in {"selecting", "migrating"}
    /\ \/ "boot" \in Faults
       \/ at[p] = "migrating" /\ next[p] <= Migrations /\ (lock \notin {None, p} \/ tables >= next[p])
    /\ Goto(p, "down") /\ Unlock(p)
    /\ UNCHANGED <<tables, versions, next, pools, cancelled, shutdown, balancer, where, starts>>

\* Read, write, queue; each is pinged under the context.
Open(p) ==
    /\ at[p] = "opening" /\ ~cancelled[p]
    /\ \E opened \in {{"read"}, {"read", "write"}, Pools} :
          /\ Cardinality(opened) = Cardinality(pools[p]) + 1
          /\ pools' = [pools EXCEPT ![p] = opened]
          /\ IF opened = Pools THEN Goto(p, "discovering") ELSE UNCHANGED at
    /\ UNCHANGED <<file, next, cancelled, shutdown, balancer, where, starts>>

\* Setup closes what it opened before.
OpenFails(p) ==
    /\ at[p] = "opening" /\ ("boot" \in Faults \/ cancelled[p])
    /\ pools' = [pools EXCEPT ![p] = {}]
    /\ Goto(p, "down")
    /\ UNCHANGED <<file, next, cancelled, shutdown, balancer, where, starts>>

Discover(p) ==
    /\ at[p] = "discovering" /\ ~cancelled[p]
    /\ Goto(p, "wiring")
    /\ UNCHANGED <<file, next, pools, cancelled, shutdown, balancer, where, starts>>

\* Mutant: an issuer that does not answer leaves the pools open.
DiscoverFailsOpen(p) ==
    /\ at[p] = "discovering" /\ ("boot" \in Faults \/ cancelled[p])
    /\ Goto(p, "down")
    /\ UNCHANGED <<file, next, pools, cancelled, shutdown, balancer, where, starts>>

DiscoverFails(p) ==
    /\ at[p] = "discovering" /\ ("boot" \in Faults \/ cancelled[p])
    /\ pools' = [pools EXCEPT ![p] = {}]
    /\ Goto(p, "down")
    /\ UNCHANGED <<file, next, cancelled, shutdown, balancer, where, starts>>

\* The jobs and the schedule are registered, the runners and the goroutine that
\* waits for the signal are started.
Wire(p) ==
    /\ at[p] = "wiring"
    /\ Goto(p, "wired")
    /\ tick' = [tick EXCEPT ![p] = "waiting"]
    /\ UNCHANGED <<file, next, pools, cancelled, listening, drain, timer, overdue, broken,
                   balancer, where, starts>>

\* The schedule does not parse: only the deferred Close runs.
WireFails(p) ==
    /\ at[p] = "wiring" /\ "boot" \in Faults
    /\ pools' = [pools EXCEPT ![p] = {}]
    /\ Goto(p, "down")
    /\ UNCHANGED <<file, next, cancelled, shutdown, balancer, where, starts>>

\* ListenAndServe; after a Shutdown it returns at once.
Listen(p) ==
    /\ at[p] = "wired" /\ drain[p] \notin {"window", "over"}
    /\ Goto(p, "serving")
    /\ listening' = [listening EXCEPT ![p] = TRUE]
    /\ UNCHANGED <<file, next, pools, cancelled, drain, timer, tick, overdue, broken,
                   balancer, where, starts>>

\* The address is taken: run returns before it has served anyone.
ListenFails(p) ==
    /\ at[p] = "wired" /\ "boot" \in Faults
    /\ Goto(p, "returning")
    /\ UNCHANGED <<file, next, pools, cancelled, shutdown, balancer, where, starts>>

\* Accept fails while the process serves: run returns by the same way, with whatever
\* is in flight, without a drain and with readiness as it is.  Once Shutdown was
\* called, the error is ErrServerClosed (ServeReturns).
ServeFails(p) ==
    /\ "serve" \in Faults
    /\ at[p] = "serving" /\ drain[p] \notin {"window", "over"}
    /\ Goto(p, "returning")
    /\ listening' = [listening EXCEPT ![p] = FALSE]
    /\ broken' = [broken EXCEPT ![p] = TRUE]
    /\ died' = [died EXCEPT ![p] = TRUE]
    /\ UNCHANGED <<file, next, pools, cancelled, drain, timer, tick, overdue,
                   probe, misses, rotation, where, starts>>

-----------------------------------------------------------------------------
\* Draining.

\* run returns without a signal too, and may get one while it does.
Signal(p) ==
    /\ at[p] \in Booting \cup Running /\ ~cancelled[p]
    /\ cancelled' = [cancelled EXCEPT ![p] = TRUE]
    /\ UNCHANGED <<file, at, next, pools, shutdown, balancer, where, starts>>

\* The goroutine that waits for the context: unready first, then the sleep.
Unready(p) ==
    /\ at[p] \in Running /\ cancelled[p] /\ drain[p] = "idle"
    /\ drain' = [drain EXCEPT ![p] = "delay"]
    /\ timer' = [timer EXCEPT ![p] = Delay]
    /\ UNCHANGED <<file, boot, listening, tick, overdue, broken, balancer, where, starts>>

\* Mutant: the window is as long as the delay.
CloseListenerDelayed(p) ==
    /\ at[p] \in Running /\ drain[p] = "delay" /\ timer[p] = 0
    /\ drain' = [drain EXCEPT ![p] = "window"]
    /\ timer' = [timer EXCEPT ![p] = Delay]
    /\ listening' = [listening EXCEPT ![p] = FALSE]
    /\ UNCHANGED <<file, boot, tick, overdue, broken, balancer, where, starts>>

\* srv.Shutdown closes the listener and gives what is in flight its window.
CloseListener(p) ==
    /\ at[p] \in Running /\ drain[p] = "delay" /\ timer[p] = 0
    /\ drain' = [drain EXCEPT ![p] = "window"]
    /\ timer' = [timer EXCEPT ![p] = Timeout]
    /\ listening' = [listening EXCEPT ![p] = FALSE]
    /\ UNCHANGED <<file, boot, tick, overdue, broken, balancer, where, starts>>

\* Mutant: the window has no end.
DrainedInTheEnd(p) ==
    /\ at[p] \in Running /\ drain[p] = "window"
    /\ InFlight(p) = {}
    /\ drain' = [drain EXCEPT ![p] = "over"]
    /\ UNCHANGED <<file, boot, listening, timer, tick, overdue, broken,
                   balancer, where, starts>>

\* Nothing is in flight any more, or the deadline passed.
Drained(p) ==
    /\ at[p] \in Running /\ drain[p] = "window"
    /\ InFlight(p) = {} \/ timer[p] = 0
    /\ drain' = [drain EXCEPT ![p] = "over"]
    /\ overdue' = [overdue EXCEPT ![p] = InFlight(p) # {}]
    /\ UNCHANGED <<file, boot, listening, timer, tick, broken, balancer, where, starts>>

\* ListenAndServe returns the instant Shutdown is called.
ServeReturns(p) ==
    /\ at[p] \in {"wired", "serving"} /\ drain[p] \in {"window", "over"}
    /\ Goto(p, "awaiting")
    /\ UNCHANGED <<file, next, pools, cancelled, shutdown, balancer, where, starts>>

\* Mutant: run returns with ListenAndServe.
AwaitDrainedNot(p) ==
    /\ at[p] = "awaiting"
    /\ Goto(p, "returning")
    /\ UNCHANGED <<file, next, pools, cancelled, shutdown, balancer, where, starts>>

AwaitDrained(p) ==
    /\ at[p] = "awaiting" /\ drain[p] = "over"
    /\ Goto(p, "returning")
    /\ UNCHANGED <<file, next, pools, cancelled, shutdown, balancer, where, starts>>

\* The deferred calls, last first: no tick of the schedule starts a run any more.
StopCron(p) ==
    /\ at[p] = "returning"
    /\ tick' = [tick EXCEPT ![p] = IF @ = "running" THEN @ ELSE "off"]
    /\ Goto(p, "stopping")
    /\ UNCHANGED <<file, next, pools, cancelled, listening, drain, timer, overdue, broken,
                   balancer, where, starts>>

\* Mutant: Stop does not wait for the run that goes on.
CloseAtOnce(p) ==
    /\ at[p] = "stopping"
    /\ pools' = [pools EXCEPT ![p] = {}]
    /\ Goto(p, "closed")
    /\ UNCHANGED <<file, next, cancelled, shutdown, balancer, where, starts>>

\* Stop has waited for the run that goes on, and the connections are closed.
Close(p) ==
    /\ at[p] = "stopping" /\ tick[p] = "off"
    /\ pools' = [pools EXCEPT ![p] = {}]
    /\ Goto(p, "closed")
    /\ UNCHANGED <<file, next, cancelled, shutdown, balancer, where, starts>>

\* What the end of a process takes with it.
Ends(p) ==
    /\ Goto(p, "down") /\ Unlock(p)
    /\ listening' = [listening EXCEPT ![p] = FALSE]
    /\ tick' = [tick EXCEPT ![p] = "off"]
    /\ drain' = [drain EXCEPT ![p] = "idle"] /\ timer' = [timer EXCEPT ![p] = 0]
    /\ overdue' = [overdue EXCEPT ![p] = FALSE] /\ broken' = [broken EXCEPT ![p] = FALSE]
    /\ where' = [r \in Requests |-> IF where[r] = p THEN "cut" ELSE where[r]]
    /\ next' = [next EXCEPT ![p] = 0] /\ cancelled' = [cancelled EXCEPT ![p] = FALSE]
    /\ UNCHANGED <<tables, versions, probe, misses, rotation, starts>>

Exit(p) == at[p] = "closed" /\ Ends(p) /\ UNCHANGED <<pools, died>>

Crash(p) ==
    /\ "crash" \in Faults /\ at[p] # "down"
    /\ Ends(p)
    /\ pools' = [pools EXCEPT ![p] = {}]
    /\ died' = [died EXCEPT ![p] = TRUE]

-----------------------------------------------------------------------------
\* What goes on meanwhile.

\* A run of the cron job enqueues through the queue's pool.
TickStarts(p) ==
    /\ at[p] \in Running /\ tick[p] = "waiting"
    /\ tick' = [tick EXCEPT ![p] = "running"]
    /\ UNCHANGED <<file, boot, listening, drain, timer, overdue, broken,
                   balancer, where, starts>>

TickEnds(p) ==
    /\ tick[p] = "running"
    /\ tick' = [tick EXCEPT ![p] = IF at[p] = "stopping" THEN "off" ELSE "waiting"]
    /\ UNCHANGED <<file, boot, listening, drain, timer, overdue, broken,
                   balancer, where, starts>>

\* A request goes to a process in rotation and is accepted or refused.
Send(r, p) ==
    /\ where[r] = "nowhere" /\ rotation[p]
    /\ where' = [where EXCEPT ![r] = IF listening[p] THEN p
                                     ELSE IF died[p] THEN "lost" ELSE "refused"]
    /\ UNCHANGED <<file, boot, shutdown, balancer, starts>>

Finish(r) ==
    /\ where[r] \in Processes
    /\ where' = [where EXCEPT ![r] = "answered"]
    /\ UNCHANGED <<file, boot, shutdown, balancer, starts>>

\* Mutant: readiness goes when the listener does.
ReadyUntilClosed(p) == at[p] = "serving" /\ drain[p] \in {"idle", "delay"}

Ready(p) == at[p] = "serving" /\ drain[p] = "idle"

\* A probe of every /readyz.  A failure counts, and so does no answer.
Probe ==
    /\ probe = 0 /\ probe' = Interval
    /\ misses' = [p \in Processes |-> IF Ready(p) THEN 0
                                      ELSE IF misses[p] < Threshold THEN misses[p] + 1
                                      ELSE misses[p]]
    /\ rotation' = [p \in Processes |-> Ready(p) \/ (rotation[p] /\ misses'[p] < Threshold)]
    /\ died' = [p \in Processes |-> died[p] /\ ~Ready(p)]
    /\ UNCHANGED <<file, boot, shutdown, where, starts>>

\* What has to happen before time goes on.
Due(p) ==
    /\ at[p] \in Running
    /\ \/ cancelled[p] /\ drain[p] = "idle"
       \/ drain[p] \in {"delay", "window"} /\ timer[p] = 0

Less(n) == IF n = 0 THEN 0 ELSE n - 1

Tick ==
    /\ probe # 0 /\ \A p \in Processes : ~Due(p)
    /\ probe' = probe - 1
    /\ timer' = [p \in Processes |-> Less(timer[p])]
    /\ UNCHANGED <<file, boot, listening, drain, tick, overdue, broken, misses, rotation,
                   died, where, starts>>

-----------------------------------------------------------------------------
Boot(p) ==
    \/ SelectMigrations(p) \/ BeginMigration(p) \/ CommitMigration(p) \/ Migrated(p)
    \/ MigrationFails(p) \/ Open(p) \/ OpenFails(p) \/ Discover(p) \/ DiscoverFails(p)
    \/ Wire(p) \/ WireFails(p) \/ Listen(p) \/ ListenFails(p)

Stop(p) ==
    \/ Unready(p) \/ CloseListener(p) \/ Drained(p) \/ ServeReturns(p)
    \/ AwaitDrained(p) \/ StopCron(p) \/ Close(p) \/ Exit(p)

Next ==
    \/ \E p \in Processes :
          \/ Start(p) \/ Boot(p) \/ Signal(p) \/ Stop(p)
          \/ ServeFails(p) \/ Crash(p)
          \/ TickStarts(p) \/ TickEnds(p)
          \/ \E r \in Requests : Send(r, p)
    \/ \E r \in Requests : Finish(r)
    \/ Probe \/ Tick

Spec == Init /\ [][Next]_vars

\* The process runs, time passes, probes are sent and cron runs end (an enqueue
\* under a cancelled context fails).  Requests may hang for ever, and nobody has to
\* send a signal.
FairSpec ==
    /\ Spec /\ WF_vars(Probe) /\ WF_vars(Tick)
    /\ \A p \in Processes : WF_vars(Boot(p)) /\ WF_vars(Stop(p)) /\ WF_vars(TickEnds(p))
-----------------------------------------------------------------------------
\* Properties.

TypeOK ==
    /\ tables \in 0 .. Migrations /\ versions \in 0 .. Migrations
    /\ lock \in Processes \cup {None}
    /\ at \in [Processes -> Booting \cup Running \cup {"down"}]
    /\ next \in [Processes -> 0 .. Migrations + 1]
    /\ pools \in [Processes -> SUBSET Pools]
    /\ cancelled \in [Processes -> BOOLEAN] /\ listening \in [Processes -> BOOLEAN]
    /\ drain \in [Processes -> {"idle", "delay", "window", "over"}]
    /\ timer \in [Processes -> Nat]
    /\ \A p \in Processes : /\ drain[p] = "delay" => timer[p] <= Delay
                            /\ drain[p] = "window" => timer[p] <= Timeout
    /\ probe \in 0 .. Interval
    /\ tick \in [Processes -> {"off", "waiting", "running"}]
    /\ overdue \in [Processes -> BOOLEAN] /\ broken \in [Processes -> BOOLEAN]
    /\ died \in [Processes -> BOOLEAN]
    /\ misses \in [Processes -> 0 .. Threshold] /\ rotation \in [Processes -> BOOLEAN]
    /\ where \in [Requests -> Processes \cup Outcomes]
    /\ starts \in 0 .. MaxStarts

\* The versions are those of the tables that are there, whichever process is killed
\* at whatever point of whichever migration, and nobody serves on less than all.
SchemaWhole ==
    /\ tables = versions
    /\ \A p \in Processes : at[p] \in Running => versions = Migrations

\* The database is not pulled out from under a request: while a process that has
\* closed its pools still has requests, its drain ran out of time or its listener
\* broke (run drains for a signal only, and gives up what is in flight otherwise).
DatabaseOutlivesRequests ==
    \A p \in Processes : InFlight(p) # {} => pools[p] = Pools \/ overdue[p] \/ broken[p]

\* Nor from under the run of a cron job, whichever way the process stops.
DatabaseOutlivesCron == \A p \in Processes : tick[p] = "running" => pools[p] = Pools

\* A process that returns, from a boot that failed at any step or was interrupted
\* by a signal or from a drain, has closed every pool it opened.
PoolsReturned == \A p \in Processes : at[p] = "down" => pools[p] = {}

\* With the delay the documents ask for, no request is sent to a process that has
\* stopped accepting, unless that process was killed or its listener broke.
NoRequestRefused == \A r \in Requests : where[r] # "refused"

\* A signal ends the process, though requests hang and a boot is under way.
SignalEnds == \A p \in Processes : cancelled[p] /\ at[p] # "down" ~> at[p] = "down"

=============================================================================
