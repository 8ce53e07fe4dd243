-------------------------- MODULE LifecycleProofs --------------------------
(* What holds of the processes of Lifecycle for any number of them, of     *)
(* requests and of migrations, and any timing: the file they share, the    *)
(* pools, and who still uses them when they are closed.                    *)
EXTENDS Lifecycle, TLAPS

\* The actions of one process.
OfProcess(p) ==
    \/ Start(p) \/ Boot(p) \/ Signal(p) \/ Stop(p) \/ ServeFails(p) \/ Crash(p)
    \/ TickStarts(p) \/ TickEnds(p)

-----------------------------------------------------------------------------
\* The inductive invariant, in four parts that do not need each other beyond types.

\* A process works on the migration after those that are there, or on one that
\* somebody else has done; whoever is in a transaction has the next one.
FileInv ==
    /\ tables = versions
    /\ lock # None => at[lock] = "migrating" /\ next[lock] = versions + 1 /\ next[lock] <= Migrations
    /\ \A p \in Processes :
          /\ at[p] = "migrating" => next[p] <= versions + 1
          /\ at[p] \in {"opening", "discovering", "wiring"} \cup Running => versions = Migrations

\* The pools a process has at each place of run().
PoolInv ==
    \A p \in Processes :
       /\ at[p] \in {"down", "selecting", "migrating", "closed"} => pools[p] = {}
       /\ at[p] \in {"discovering", "wiring"} \cup (Running \ {"closed"}) => pools[p] = Pools

\* The schedule ticks from the end of the wiring until it is stopped.
CronInv ==
    \A p \in Processes :
       /\ tick[p] # "off" => at[p] \in {"wired", "serving", "awaiting", "returning", "stopping"}
       /\ tick[p] = "waiting" => at[p] # "stopping"

\* Who has requests: a process that serves or drains, or one whose time ran out or
\* whose listener broke.
FlightInv ==
    \A p \in Processes :
       /\ listening[p] => at[p] = "serving" /\ drain[p] \in {"idle", "delay"}
       /\ \A r \in Requests :
             where[r] = p =>
                /\ at[p] \in {"serving", "awaiting", "returning", "stopping", "closed"}
                /\ at[p] \in {"returning", "stopping", "closed"} \/ drain[p] = "over" => overdue[p] \/ broken[p]

\* A step is an action of one process, the sending or the end of a request, or time.
LEMMA StepCases ==
    ASSUME [Next]_vars
    PROVE  \/ \E p \in Processes : OfProcess(p)
           \/ \E p \in Processes, r \in Requests : Send(r, p)
           \/ \E r \in Requests : Finish(r)
           \/ Probe \/ Tick
           \/ UNCHANGED vars
  BY DEF Next, OfProcess

-----------------------------------------------------------------------------
\* What each action of a process does to the file they share.
LEMMA FileInvOfProcess ==
    ASSUME TypeOK, FileInv, NEW p \in Processes, OfProcess(p)
    PROVE  FileInv'
  <1>1. CASE Start(p)
    BY <1>1, LifecycleAssumption DEF Start, Goto, file, boot, TypeOK, FileInv,
      Running, Booting
  <1>2. CASE SelectMigrations(p)
    BY <1>2, LifecycleAssumption DEF SelectMigrations, Goto, file, boot, TypeOK,
      FileInv, Running, Booting
  <1>3. CASE BeginMigration(p)
    BY <1>3, LifecycleAssumption DEF BeginMigration, file, boot, TypeOK, FileInv,
      Running, Booting
  <1>4. CASE CommitMigration(p)
    BY <1>4, LifecycleAssumption DEF CommitMigration, file, boot, TypeOK, FileInv,
      Running, Booting
  <1>5. CASE Migrated(p)
    BY <1>5, LifecycleAssumption DEF Migrated, Goto, file, boot, TypeOK, FileInv,
      Running, Booting
  <1>6. CASE MigrationFails(p)
    BY <1>6, LifecycleAssumption DEF MigrationFails, Goto, Unlock, file, boot,
      TypeOK, FileInv, Running, Booting
  <1>7. CASE Open(p)
    BY <1>7, LifecycleAssumption DEF Open, Goto, file, boot, TypeOK, FileInv,
      Running, Booting
  <1>8. CASE OpenFails(p)
    BY <1>8, LifecycleAssumption DEF OpenFails, Goto, file, boot, TypeOK, FileInv,
      Running, Booting
  <1>9. CASE Discover(p)
    BY <1>9, LifecycleAssumption DEF Discover, Goto, file, boot, TypeOK, FileInv,
      Running, Booting
  <1>10. CASE DiscoverFails(p)
    BY <1>10, LifecycleAssumption DEF DiscoverFails, Goto, file, boot, TypeOK,
      FileInv, Running, Booting
  <1>11. CASE Wire(p)
    BY <1>11, LifecycleAssumption DEF Wire, Goto, file, boot, TypeOK, FileInv,
      Running, Booting
  <1>12. CASE WireFails(p)
    BY <1>12, LifecycleAssumption DEF WireFails, Goto, file, boot, TypeOK, FileInv,
      Running, Booting
  <1>13. CASE Listen(p)
    BY <1>13, LifecycleAssumption DEF Listen, Goto, file, boot, TypeOK, FileInv,
      Running, Booting
  <1>14. CASE ListenFails(p)
    BY <1>14, LifecycleAssumption DEF ListenFails, Goto, file, boot, TypeOK,
      FileInv, Running, Booting
  <1>15. CASE ServeReturns(p)
    BY <1>15, LifecycleAssumption DEF ServeReturns, Goto, file, boot, TypeOK,
      FileInv, Running, Booting
  <1>16. CASE AwaitDrained(p)
    BY <1>16, LifecycleAssumption DEF AwaitDrained, Goto, file, boot, TypeOK,
      FileInv, Running, Booting
  <1>17. CASE StopCron(p)
    BY <1>17, LifecycleAssumption DEF StopCron, Goto, file, boot, TypeOK, FileInv,
      Running, Booting
  <1>18. CASE Close(p)
    BY <1>18, LifecycleAssumption DEF Close, Goto, file, boot, TypeOK, FileInv,
      Running, Booting
  <1>19. CASE Exit(p)
    BY <1>19, LifecycleAssumption DEF Exit, Goto, Ends, Unlock, file, boot, TypeOK,
      FileInv, Running, Booting
  <1>20. CASE Crash(p)
    BY <1>20, LifecycleAssumption DEF Crash, Goto, Ends, Unlock, file, boot,
      TypeOK, FileInv, Running, Booting
  <1>21. CASE Signal(p) \/ Unready(p) \/ CloseListener(p) \/ Drained(p) \/
      TickStarts(p) \/ TickEnds(p)
    BY <1>21 DEF Signal, Unready, CloseListener, Drained, TickStarts, TickEnds,
      file, boot, FileInv, Running, Booting
  <1>22. CASE ServeFails(p)
    BY <1>22, LifecycleAssumption DEF ServeFails, Goto, file, boot, TypeOK,
      FileInv, Running, Booting
  <1>. QED
    BY <1>1, <1>2, <1>3, <1>4, <1>5, <1>6, <1>7, <1>8, <1>9, <1>10, <1>11, <1>12,
      <1>13, <1>14, <1>15, <1>16, <1>17, <1>18, <1>19, <1>20, <1>21, <1>22
    DEF OfProcess, Boot, Stop

\* What each action of a process does to its pools.
LEMMA PoolInvOfProcess ==
    ASSUME TypeOK, PoolInv, NEW p \in Processes, OfProcess(p)
    PROVE  PoolInv'
  <1>1. CASE Start(p)
    BY <1>1 DEF Start, Goto, boot, TypeOK, PoolInv, Running
  <1>2. CASE SelectMigrations(p)
    BY <1>2 DEF SelectMigrations, Goto, boot, TypeOK, PoolInv, Running
  <1>3. CASE Migrated(p)
    BY <1>3 DEF Migrated, Goto, boot, TypeOK, PoolInv, Running
  <1>4. CASE MigrationFails(p)
    BY <1>4 DEF MigrationFails, Goto, Unlock, boot, TypeOK, PoolInv, Running
  <1>5. CASE Open(p)
    BY <1>5 DEF Open, Goto, boot, TypeOK, PoolInv, Running
  <1>6. CASE OpenFails(p)
    BY <1>6 DEF OpenFails, Goto, boot, TypeOK, PoolInv, Running
  <1>7. CASE Discover(p)
    BY <1>7 DEF Discover, Goto, boot, TypeOK, PoolInv, Running
  <1>8. CASE DiscoverFails(p)
    BY <1>8 DEF DiscoverFails, Goto, boot, TypeOK, PoolInv, Running
  <1>9. CASE Wire(p)
    BY <1>9 DEF Wire, Goto, boot, TypeOK, PoolInv, Running
  <1>10. CASE WireFails(p)
    BY <1>10 DEF WireFails, Goto, boot, TypeOK, PoolInv, Running
  <1>11. CASE Listen(p)
    BY <1>11 DEF Listen, Goto, boot, TypeOK, PoolInv, Running
  <1>12. CASE ListenFails(p)
    BY <1>12 DEF ListenFails, Goto, boot, TypeOK, PoolInv, Running
  <1>13. CASE ServeReturns(p)
    BY <1>13 DEF ServeReturns, Goto, boot, TypeOK, PoolInv, Running
  <1>14. CASE AwaitDrained(p)
    BY <1>14 DEF AwaitDrained, Goto, boot, TypeOK, PoolInv, Running
  <1>15. CASE StopCron(p)
    BY <1>15 DEF StopCron, Goto, boot, TypeOK, PoolInv, Running
  <1>16. CASE Close(p)
    BY <1>16 DEF Close, Goto, boot, TypeOK, PoolInv, Running
  <1>17. CASE Exit(p)
    BY <1>17 DEF Exit, Goto, Ends, Unlock, boot, TypeOK, PoolInv, Running
  <1>18. CASE Crash(p)
    BY <1>18 DEF Crash, Goto, Ends, Unlock, boot, TypeOK, PoolInv, Running
  <1>19. CASE BeginMigration(p) \/ CommitMigration(p) \/ Signal(p) \/ Unready(p) \/
      CloseListener(p) \/ Drained(p) \/ TickStarts(p) \/ TickEnds(p)
    BY <1>19 DEF BeginMigration, CommitMigration, Signal, Unready, CloseListener,
      Drained, TickStarts, TickEnds, boot, PoolInv, Running
  <1>20. CASE ServeFails(p)
    BY <1>20 DEF ServeFails, Goto, boot, TypeOK, PoolInv, Running
  <1>. QED
    BY <1>1, <1>2, <1>3, <1>4, <1>5, <1>6, <1>7, <1>8, <1>9, <1>10, <1>11, <1>12,
      <1>13, <1>14, <1>15, <1>16, <1>17, <1>18, <1>19, <1>20
    DEF OfProcess, Boot, Stop

\* What each action of a process does to its schedule.
LEMMA CronInvOfProcess ==
    ASSUME TypeOK, CronInv, NEW p \in Processes, OfProcess(p)
    PROVE  CronInv'
  <1>1. CASE Start(p)
    BY <1>1 DEF Start, Goto, boot, shutdown, TypeOK, CronInv, Running
  <1>2. CASE SelectMigrations(p)
    BY <1>2 DEF SelectMigrations, Goto, boot, shutdown, TypeOK, CronInv, Running
  <1>3. CASE Migrated(p)
    BY <1>3 DEF Migrated, Goto, boot, shutdown, TypeOK, CronInv, Running
  <1>4. CASE MigrationFails(p)
    BY <1>4 DEF MigrationFails, Goto, Unlock, boot, shutdown, TypeOK, CronInv,
      Running
  <1>5. CASE Open(p)
    BY <1>5 DEF Open, Goto, boot, shutdown, TypeOK, CronInv, Running
  <1>6. CASE OpenFails(p)
    BY <1>6 DEF OpenFails, Goto, boot, shutdown, TypeOK, CronInv, Running
  <1>7. CASE Discover(p)
    BY <1>7 DEF Discover, Goto, boot, shutdown, TypeOK, CronInv, Running
  <1>8. CASE DiscoverFails(p)
    BY <1>8 DEF DiscoverFails, Goto, boot, shutdown, TypeOK, CronInv, Running
  <1>9. CASE Wire(p)
    BY <1>9 DEF Wire, Goto, boot, shutdown, TypeOK, CronInv, Running
  <1>10. CASE WireFails(p)
    BY <1>10 DEF WireFails, Goto, boot, shutdown, TypeOK, CronInv, Running
  <1>11. CASE Listen(p)
    BY <1>11 DEF Listen, Goto, boot, shutdown, TypeOK, CronInv, Running
  <1>12. CASE ListenFails(p)
    BY <1>12 DEF ListenFails, Goto, boot, shutdown, TypeOK, CronInv, Running
  <1>13. CASE ServeReturns(p)
    BY <1>13 DEF ServeReturns, Goto, boot, shutdown, TypeOK, CronInv, Running
  <1>14. CASE AwaitDrained(p)
    BY <1>14 DEF AwaitDrained, Goto, boot, shutdown, TypeOK, CronInv, Running
  <1>15. CASE StopCron(p)
    BY <1>15 DEF StopCron, Goto, boot, shutdown, TypeOK, CronInv, Running
  <1>16. CASE Close(p)
    BY <1>16 DEF Close, Goto, boot, shutdown, TypeOK, CronInv, Running
  <1>17. CASE Exit(p)
    BY <1>17 DEF Exit, Goto, Ends, Unlock, boot, shutdown, TypeOK, CronInv, Running
  <1>18. CASE Crash(p)
    BY <1>18 DEF Crash, Goto, Ends, Unlock, boot, shutdown, TypeOK, CronInv, Running
  <1>19. CASE TickStarts(p)
    BY <1>19 DEF TickStarts, boot, shutdown, TypeOK, CronInv, Running
  <1>20. CASE TickEnds(p)
    BY <1>20 DEF TickEnds, boot, shutdown, TypeOK, CronInv, Running
  <1>21. CASE BeginMigration(p) \/ CommitMigration(p) \/ Signal(p) \/ Unready(p) \/
      CloseListener(p) \/ Drained(p)
    BY <1>21 DEF BeginMigration, CommitMigration, Signal, Unready, CloseListener,
      Drained, boot, shutdown, CronInv, Running
  <1>22. CASE ServeFails(p)
    BY <1>22 DEF ServeFails, Goto, boot, shutdown, TypeOK, CronInv, Running
  <1>. QED
    BY <1>1, <1>2, <1>3, <1>4, <1>5, <1>6, <1>7, <1>8, <1>9, <1>10, <1>11, <1>12,
      <1>13, <1>14, <1>15, <1>16, <1>17, <1>18, <1>19, <1>20, <1>21, <1>22
    DEF OfProcess, Boot, Stop

\* What each action of a process does to the requests it has.
LEMMA FlightInvOfProcess ==
    ASSUME TypeOK, FlightInv, NEW p \in Processes, OfProcess(p)
    PROVE  FlightInv'
  <1>1. CASE Start(p)
    BY <1>1, LifecycleAssumption DEF Start, Goto, boot, shutdown, TypeOK,
      FlightInv, Outcomes, Running
  <1>2. CASE SelectMigrations(p)
    BY <1>2, LifecycleAssumption DEF SelectMigrations, Goto, boot, shutdown,
      TypeOK, FlightInv, Outcomes, Running
  <1>3. CASE Migrated(p)
    BY <1>3, LifecycleAssumption DEF Migrated, Goto, boot, shutdown, TypeOK,
      FlightInv, Outcomes, Running
  <1>4. CASE MigrationFails(p)
    BY <1>4, LifecycleAssumption DEF MigrationFails, Goto, Unlock, boot, shutdown,
      TypeOK, FlightInv, Outcomes, Running
  <1>5. CASE Open(p)
    BY <1>5, LifecycleAssumption DEF Open, Goto, boot, shutdown, TypeOK, FlightInv,
      Outcomes, Running
  <1>6. CASE OpenFails(p)
    BY <1>6, LifecycleAssumption DEF OpenFails, Goto, boot, shutdown, TypeOK,
      FlightInv, Outcomes, Running
  <1>7. CASE Discover(p)
    BY <1>7, LifecycleAssumption DEF Discover, Goto, boot, shutdown, TypeOK,
      FlightInv, Outcomes, Running
  <1>8. CASE DiscoverFails(p)
    BY <1>8, LifecycleAssumption DEF DiscoverFails, Goto, boot, shutdown, TypeOK,
      FlightInv, Outcomes, Running
  <1>9. CASE Wire(p)
    BY <1>9, LifecycleAssumption DEF Wire, Goto, boot, shutdown, TypeOK, FlightInv,
      Outcomes, Running
  <1>10. CASE WireFails(p)
    BY <1>10, LifecycleAssumption DEF WireFails, Goto, boot, shutdown, TypeOK,
      FlightInv, Outcomes, Running
  <1>11. CASE Listen(p)
    BY <1>11, LifecycleAssumption DEF Listen, Goto, boot, shutdown, TypeOK,
      FlightInv, Outcomes, Running
  <1>12. CASE ListenFails(p)
    BY <1>12, LifecycleAssumption DEF ListenFails, Goto, boot, shutdown, TypeOK,
      FlightInv, Outcomes, Running
  <1>13. CASE Unready(p)
    BY <1>13, LifecycleAssumption DEF Unready, boot, shutdown, TypeOK, FlightInv,
      Outcomes, Running
  <1>14. CASE CloseListener(p)
    BY <1>14, LifecycleAssumption DEF CloseListener, boot, shutdown, TypeOK,
      FlightInv, Outcomes, Running
  <1>15. CASE Drained(p)
    <2>1. ASSUME NEW r \in Requests, where[r] = p
          PROVE  overdue'[p]
      <3>1. InFlight(p) # {}
        BY <2>1 DEF InFlight
      <3>2. overdue'[p] = (InFlight(p) # {})
        BY <1>15, Zenon DEF Drained, TypeOK
      <3>. QED BY <3>1, <3>2
    <2>2. \A q \in Processes \ {p} : overdue'[q] = overdue[q] /\ drain'[q] = drain[q]
      BY <1>15 DEF Drained, TypeOK
    <2>3. /\ at[p] \in Running /\ drain[p] = "window"
          /\ UNCHANGED <<at, listening, broken, where>>
      BY <1>15 DEF Drained, boot
    <2>. QED BY <2>1, <2>2, <2>3 DEF TypeOK, FlightInv, Running
  <1>16. CASE ServeReturns(p)
    BY <1>16, LifecycleAssumption DEF ServeReturns, Goto, boot, shutdown, TypeOK,
      FlightInv, Outcomes, Running
  <1>17. CASE AwaitDrained(p)
    BY <1>17, LifecycleAssumption DEF AwaitDrained, Goto, boot, shutdown, TypeOK,
      FlightInv, Outcomes, Running
  <1>18. CASE StopCron(p)
    BY <1>18, LifecycleAssumption DEF StopCron, Goto, boot, shutdown, TypeOK,
      FlightInv, Outcomes, Running
  <1>19. CASE Close(p)
    BY <1>19, LifecycleAssumption DEF Close, Goto, boot, shutdown, TypeOK,
      FlightInv, Outcomes, Running
  <1>20. CASE Exit(p)
    BY <1>20, LifecycleAssumption DEF Exit, Goto, Ends, Unlock, boot, shutdown,
      TypeOK, FlightInv, Outcomes, Running
  <1>21. CASE Crash(p)
    BY <1>21, LifecycleAssumption DEF Crash, Goto, Ends, Unlock, boot, shutdown,
      TypeOK, FlightInv, Outcomes, Running
  <1>22. CASE BeginMigration(p) \/ CommitMigration(p) \/ Signal(p) \/ TickStarts(p)
      \/ TickEnds(p)
    BY <1>22 DEF BeginMigration, CommitMigration, Signal, TickStarts, TickEnds,
      boot, shutdown, FlightInv, Outcomes, Running
  <1>23. CASE ServeFails(p)
    BY <1>23, LifecycleAssumption DEF ServeFails, Goto, boot, TypeOK,
      FlightInv, Outcomes, Running
  <1>. QED
    BY <1>1, <1>2, <1>3, <1>4, <1>5, <1>6, <1>7, <1>8, <1>9, <1>10, <1>11, <1>12,
      <1>13, <1>14, <1>15, <1>16, <1>17, <1>18, <1>19, <1>20, <1>21, <1>22, <1>23
    DEF OfProcess, Boot, Stop

\* Every action of a process keeps the types; a commit needs that its migration is
\* one of those there are.
LEMMA TypeOKOfProcess ==
    ASSUME TypeOK, FileInv, NEW p \in Processes, OfProcess(p)
    PROVE  TypeOK'
  <1>1. CASE Start(p)
    BY <1>1, LifecycleAssumption DEF Start, Goto, file, boot, shutdown, balancer,
      TypeOK, Running, Booting
  <1>2. CASE SelectMigrations(p)
    BY <1>2, LifecycleAssumption DEF SelectMigrations, Goto, file, boot, shutdown,
      balancer, TypeOK, Running, Booting
  <1>3. CASE BeginMigration(p)
    BY <1>3, LifecycleAssumption DEF BeginMigration, file, boot, shutdown,
      balancer, TypeOK, Running, Booting
  <1>4. CASE CommitMigration(p)
    BY <1>4, LifecycleAssumption DEF CommitMigration, file, boot, shutdown,
      balancer, TypeOK, FileInv, Running, Booting
  <1>5. CASE Migrated(p)
    BY <1>5, LifecycleAssumption DEF Migrated, Goto, file, boot, shutdown,
      balancer, TypeOK, Running, Booting
  <1>6. CASE MigrationFails(p)
    BY <1>6, LifecycleAssumption DEF MigrationFails, Goto, Unlock, file, boot,
      shutdown, balancer, TypeOK, Running, Booting
  <1>7. CASE Open(p)
    <2>1. pools' \in [Processes -> SUBSET Pools]
      BY <1>7 DEF Open, TypeOK, Pools
    <2>2. at' \in [Processes -> Booting \cup Running \cup {"down"}]
      BY <1>7 DEF Open, Goto, TypeOK, Booting
    <2>3. UNCHANGED <<file, next, cancelled, shutdown, balancer, where, starts>>
      BY <1>7 DEF Open
    <2>. QED BY <2>1, <2>2, <2>3 DEF file, shutdown, balancer, TypeOK
  <1>8. CASE OpenFails(p)
    BY <1>8, LifecycleAssumption DEF OpenFails, Goto, file, boot, shutdown,
      balancer, TypeOK, Running, Booting
  <1>9. CASE Discover(p)
    BY <1>9, LifecycleAssumption DEF Discover, Goto, file, boot, shutdown,
      balancer, TypeOK, Running, Booting
  <1>10. CASE DiscoverFails(p)
    BY <1>10, LifecycleAssumption DEF DiscoverFails, Goto, file, boot, shutdown,
      balancer, TypeOK, Running, Booting
  <1>11. CASE Wire(p)
    BY <1>11, LifecycleAssumption DEF Wire, Goto, file, boot, shutdown, balancer,
      TypeOK, Running, Booting
  <1>12. CASE WireFails(p)
    BY <1>12, LifecycleAssumption DEF WireFails, Goto, file, boot, shutdown,
      balancer, TypeOK, Running, Booting
  <1>13. CASE Listen(p)
    BY <1>13, LifecycleAssumption DEF Listen, Goto, file, boot, shutdown, balancer,
      TypeOK, Running, Booting
  <1>14. CASE ListenFails(p)
    BY <1>14, LifecycleAssumption DEF ListenFails, Goto, file, boot, shutdown,
      balancer, TypeOK, Running, Booting
  <1>15. CASE Signal(p)
    BY <1>15, LifecycleAssumption DEF Signal, file, boot, shutdown, balancer,
      TypeOK, Running, Booting
  <1>16. CASE Unready(p)
    BY <1>16, LifecycleAssumption DEF Unready, file, boot, shutdown, balancer,
      TypeOK, Running, Booting
  <1>17. CASE CloseListener(p)
    BY <1>17, LifecycleAssumption DEF CloseListener, file, boot, shutdown,
      balancer, TypeOK, Running, Booting
  <1>18. CASE Drained(p)
    BY <1>18, LifecycleAssumption DEF Drained, InFlight, file, boot, shutdown,
      balancer, TypeOK, Running, Booting
  <1>19. CASE ServeReturns(p)
    BY <1>19, LifecycleAssumption DEF ServeReturns, Goto, file, boot, shutdown,
      balancer, TypeOK, Running, Booting
  <1>20. CASE AwaitDrained(p)
    BY <1>20, LifecycleAssumption DEF AwaitDrained, Goto, file, boot, shutdown,
      balancer, TypeOK, Running, Booting
  <1>21. CASE StopCron(p)
    BY <1>21, LifecycleAssumption DEF StopCron, Goto, file, boot, shutdown,
      balancer, TypeOK, Running, Booting
  <1>22. CASE Close(p)
    BY <1>22, LifecycleAssumption DEF Close, Goto, file, boot, shutdown, balancer,
      TypeOK, Running, Booting
  <1>23. CASE Exit(p)
    BY <1>23, LifecycleAssumption DEF Exit, Goto, Ends, Unlock, file, boot,
      shutdown, balancer, TypeOK, Running, Booting, Outcomes
  <1>24. CASE Crash(p)
    BY <1>24, LifecycleAssumption DEF Crash, Goto, Ends, Unlock, file, boot,
      shutdown, balancer, TypeOK, Running, Booting, Outcomes
  <1>25. CASE TickStarts(p)
    BY <1>25, LifecycleAssumption DEF TickStarts, file, boot, shutdown, balancer,
      TypeOK, Running, Booting
  <1>26. CASE TickEnds(p)
    BY <1>26, LifecycleAssumption DEF TickEnds, file, boot, shutdown, balancer,
      TypeOK, Running, Booting
  <1>27. CASE ServeFails(p)
    BY <1>27, LifecycleAssumption DEF ServeFails, Goto, file, boot, shutdown, balancer,
      TypeOK, Running, Booting
  <1>. QED
    BY <1>1, <1>2, <1>3, <1>4, <1>5, <1>6, <1>7, <1>8, <1>9, <1>10, <1>11, <1>12,
      <1>13, <1>14, <1>15, <1>16, <1>17, <1>18, <1>19, <1>20, <1>21, <1>22, <1>23,
      <1>24, <1>25, <1>26, <1>27
    DEF OfProcess, Boot, Stop

-----------------------------------------------------------------------------
\* The strengthened invariant.
IInv == TypeOK /\ FileInv /\ PoolInv /\ CronInv /\ FlightInv

LEMMA IInvInit == Init => IInv
  <1>. SUFFICES ASSUME Init PROVE IInv
    OBVIOUS
  <1>1. TypeOK
    BY LifecycleAssumption DEF Init, TypeOK, Outcomes, Pools
  <1>2. FileInv /\ PoolInv /\ CronInv /\ FlightInv
    BY LifecycleAssumption DEF Init, FileInv, PoolInv, CronInv, FlightInv, Running, Outcomes
  <1>. QED BY <1>1, <1>2 DEF IInv

\* A request is accepted only where the listener is open; time touches nothing the
\* parts speak of but the timers.
LEMMA IInvNext == IInv /\ [Next]_vars => IInv'
  <1>. SUFFICES ASSUME IInv, [Next]_vars PROVE IInv'
    OBVIOUS
  <1>1. CASE \E p \in Processes : OfProcess(p)
    BY <1>1, TypeOKOfProcess, FileInvOfProcess, PoolInvOfProcess, CronInvOfProcess,
       FlightInvOfProcess DEF IInv
  <1>2. CASE \E p \in Processes, r \in Requests : Send(r, p)
    <2>1. PICK p \in Processes, r \in Requests : Send(r, p)
      BY <1>2
    <2>2. TypeOK' /\ FlightInv'
      BY <2>1, LifecycleAssumption
      DEF Send, boot, file, shutdown, balancer, IInv, TypeOK, FlightInv, Outcomes
    <2>3. FileInv' /\ PoolInv' /\ CronInv'
      BY <2>1 DEF Send, boot, file, shutdown, IInv, FileInv, PoolInv, CronInv
    <2>. QED BY <2>2, <2>3 DEF IInv
  <1>3. CASE \E r \in Requests : Finish(r)
    <2>1. PICK r \in Requests : Finish(r)
      BY <1>3
    <2>2. TypeOK' /\ FlightInv'
      BY <2>1, LifecycleAssumption
      DEF Finish, boot, file, shutdown, balancer, IInv, TypeOK, FlightInv, Outcomes
    <2>3. FileInv' /\ PoolInv' /\ CronInv'
      BY <2>1 DEF Finish, boot, file, shutdown, IInv, FileInv, PoolInv, CronInv
    <2>. QED BY <2>2, <2>3 DEF IInv
  <1>4. CASE Tick
    <2>1. TypeOK'
      BY <1>4, LifecycleAssumption DEF Tick, Less, boot, file, IInv, TypeOK
    <2>2. FileInv' /\ PoolInv' /\ CronInv' /\ FlightInv'
      BY <1>4 DEF Tick, boot, file, IInv, FileInv, PoolInv, CronInv, FlightInv
    <2>. QED BY <2>1, <2>2 DEF IInv
  <1>5. CASE Probe
    <2>1. TypeOK'
      BY <1>5, LifecycleAssumption DEF Probe, Ready, boot, file, shutdown, IInv, TypeOK
    <2>2. FileInv' /\ PoolInv' /\ CronInv' /\ FlightInv'
      BY <1>5 DEF Probe, boot, file, shutdown, IInv, FileInv, PoolInv, CronInv, FlightInv
    <2>. QED BY <2>1, <2>2 DEF IInv
  <1>6. CASE UNCHANGED vars
    BY <1>6 DEF vars, file, boot, shutdown, balancer, IInv, TypeOK, FileInv, PoolInv,
                CronInv, FlightInv
  <1>. QED BY <1>1, <1>2, <1>3, <1>4, <1>5, <1>6, StepCases

LEMMA Invariance == Spec => []IInv
  BY IInvInit, IInvNext, PTL DEF Spec

-----------------------------------------------------------------------------
\* Every variable keeps its type, for any processes, requests, migrations and times.
THEOREM LifecycleTyped == Spec => []TypeOK
  <1>1. IInv => TypeOK
    BY DEF IInv
  <1>. QED BY <1>1, Invariance, PTL

\* However many processes migrate one file, and wherever any of them fails or is
\* killed: the versions recorded are the tables there are, and whoever serves has all.
THEOREM SchemaAlwaysWhole == Spec => []SchemaWhole
  <1>1. IInv => SchemaWhole
    BY DEF IInv, FileInv, SchemaWhole
  <1>. QED BY <1>1, Invariance, PTL

\* Every way out of run() has closed every pool that was opened.
THEOREM NoPoolLeaks == Spec => []PoolsReturned
  <1>1. IInv => PoolsReturned
    BY DEF IInv, PoolInv, PoolsReturned
  <1>. QED BY <1>1, Invariance, PTL

\* cronRunner.Stop runs before conns.Close and waits for the run that goes on.
THEOREM CronKeepsItsDatabase == Spec => []DatabaseOutlivesCron
  <1>1. IInv => DatabaseOutlivesCron
    BY DEF IInv, PoolInv, CronInv, DatabaseOutlivesCron, Running
  <1>. QED BY <1>1, Invariance, PTL

\* run() waits for the drain before its deferred calls close the database, so only a
\* request that outlasts the drain's deadline can lose it; or one at a listener that
\* broke, after which run() returns without a drain.
THEOREM RequestsKeepTheirDatabase == Spec => []DatabaseOutlivesRequests
  <1>1. IInv => DatabaseOutlivesRequests
    <2>. SUFFICES ASSUME IInv, NEW p \in Processes, InFlight(p) # {}
                  PROVE  pools[p] = Pools \/ overdue[p] \/ broken[p]
      BY DEF DatabaseOutlivesRequests
    <2>1. PICK r \in Requests : where[r] = p
      BY DEF InFlight
    <2>2. at[p] \in {"serving", "awaiting", "returning", "stopping"} \/ overdue[p] \/ broken[p]
      BY <2>1 DEF IInv, FlightInv
    <2>. QED BY <2>2 DEF IInv, PoolInv, Running
  <1>. QED BY <1>1, Invariance, PTL

\* The balancer: of a process in rotation that was not killed, the probes it has missed
\* account for the part of its shutdown delay that is over.
RotationInv ==
    \A p \in Processes :
       /\ at[p] = "serving" /\ drain[p] \in {"idle", "delay"} => listening[p]
       /\ rotation[p] /\ ~died[p] =>
             /\ listening[p] /\ misses[p] < Threshold
             /\ drain[p] = "delay" =>
                   Delay - timer[p] + probe <= misses[p] * Interval + Interval

\* Up to the threshold, the probes missed take less time than the delay.
LEMMA ThresholdReached ==
    ASSUME NEW m \in Nat, m < Threshold
    PROVE  m * Interval + Interval < Delay
  <1>1. \A a, b, c \in Nat : a <= b => a * c <= b * c
    OBVIOUS
  <1>2. (m + 1) * Interval <= Threshold * Interval
    BY <1>1, LifecycleAssumption
  <1>3. (m + 1) * Interval = m * Interval + Interval
    BY LifecycleAssumption
  <1>4. Threshold * Interval < Delay
    BY LifecycleAssumption
  <1>5. m * Interval \in Nat /\ Threshold * Interval \in Nat
    BY LifecycleAssumption
  <1>. QED BY <1>2, <1>3, <1>4, <1>5, LifecycleAssumption

\* One more probe missed.
LEMMA OneMoreMiss ==
    ASSUME NEW m \in Nat
    PROVE  (m + 1) * Interval = m * Interval + Interval /\ m * Interval \in Nat
  BY LifecycleAssumption

\* A process that the load balancer sends requests to still listens.
LEMMA RotationInvOfProcess ==
    ASSUME TypeOK, FlightInv, RotationInv, NEW p \in Processes, OfProcess(p)
    PROVE  RotationInv'
  <1>1. CASE Start(p)
    BY <1>1, LifecycleAssumption DEF Start, Goto, boot, shutdown, balancer, TypeOK,
      RotationInv, Booting, Running
  <1>2. CASE SelectMigrations(p)
    BY <1>2, LifecycleAssumption DEF SelectMigrations, Goto, boot, shutdown,
      balancer, TypeOK, RotationInv, Booting, Running
  <1>3. CASE Migrated(p)
    BY <1>3, LifecycleAssumption DEF Migrated, Goto, boot, shutdown, balancer,
      TypeOK, RotationInv, Booting, Running
  <1>4. CASE MigrationFails(p)
    BY <1>4, LifecycleAssumption DEF MigrationFails, Goto, Unlock, boot, shutdown,
      balancer, TypeOK, RotationInv, Booting, Running
  <1>5. CASE Open(p)
    BY <1>5, LifecycleAssumption DEF Open, Goto, boot, shutdown, balancer, TypeOK,
      RotationInv, Booting, Running
  <1>6. CASE OpenFails(p)
    BY <1>6, LifecycleAssumption DEF OpenFails, Goto, boot, shutdown, balancer,
      TypeOK, RotationInv, Booting, Running
  <1>7. CASE Discover(p)
    BY <1>7, LifecycleAssumption DEF Discover, Goto, boot, shutdown, balancer,
      TypeOK, RotationInv, Booting, Running
  <1>8. CASE DiscoverFails(p)
    BY <1>8, LifecycleAssumption DEF DiscoverFails, Goto, boot, shutdown, balancer,
      TypeOK, RotationInv, Booting, Running
  <1>9. CASE Wire(p)
    BY <1>9, LifecycleAssumption DEF Wire, Goto, boot, shutdown, balancer, TypeOK,
      RotationInv, Booting, Running
  <1>10. CASE WireFails(p)
    BY <1>10, LifecycleAssumption DEF WireFails, Goto, boot, shutdown, balancer,
      TypeOK, RotationInv, Booting, Running
  <1>11. CASE Listen(p)
    BY <1>11, LifecycleAssumption DEF Listen, Goto, boot, shutdown, balancer,
      TypeOK, RotationInv, Booting, Running
  <1>12. CASE ListenFails(p)
    BY <1>12, LifecycleAssumption DEF ListenFails, Goto, boot, shutdown, balancer,
      TypeOK, RotationInv, Booting, Running
  <1>13. CASE Unready(p)
    BY <1>13, LifecycleAssumption DEF Unready, boot, shutdown, balancer, TypeOK,
      RotationInv, Booting, Running
  <1>14. CASE CloseListener(p)
    <2>1. ~(rotation[p] /\ ~died[p])
      <3>. SUFFICES ASSUME rotation[p], ~died[p] PROVE FALSE
        OBVIOUS
      <3>1. timer[p] = 0 /\ drain[p] = "delay"
        BY <1>14 DEF CloseListener
      <3>2. misses[p] \in Nat /\ misses[p] < Threshold
        BY LifecycleAssumption DEF TypeOK, RotationInv
      <3>3. Delay + probe <= misses[p] * Interval + Interval
        BY <3>1, LifecycleAssumption DEF RotationInv
      <3>. QED BY <3>2, <3>3, ThresholdReached, OneMoreMiss, LifecycleAssumption DEF TypeOK
    <2>. QED
      BY <1>14, <2>1 DEF CloseListener, boot, balancer, TypeOK, RotationInv
  <1>15. CASE Drained(p)
    BY <1>15, LifecycleAssumption DEF Drained, boot, shutdown, balancer, TypeOK,
      RotationInv, Booting, Running
  <1>16. CASE ServeReturns(p)
    BY <1>16, LifecycleAssumption DEF ServeReturns, Goto, boot, shutdown, balancer,
      TypeOK, RotationInv, Booting, Running
  <1>17. CASE AwaitDrained(p)
    BY <1>17, LifecycleAssumption DEF AwaitDrained, Goto, boot, shutdown, balancer,
      TypeOK, RotationInv, Booting, Running
  <1>18. CASE StopCron(p)
    BY <1>18, LifecycleAssumption DEF StopCron, Goto, boot, shutdown, balancer,
      TypeOK, RotationInv, Booting, Running
  <1>19. CASE Close(p)
    BY <1>19, LifecycleAssumption DEF Close, Goto, boot, shutdown, balancer,
      TypeOK, RotationInv, Booting, Running
  <1>20. CASE Exit(p)
    <2>1. ~listening[p]
      BY <1>20 DEF Exit, FlightInv
    <2>. QED
      BY <1>20, <2>1 DEF Exit, Goto, Ends, TypeOK, RotationInv
  <1>21. CASE Crash(p)
    BY <1>21, LifecycleAssumption DEF Crash, Goto, Ends, Unlock, boot, shutdown,
      balancer, TypeOK, RotationInv, Booting, Running
  <1>22. CASE ServeFails(p)
    BY <1>22, LifecycleAssumption DEF ServeFails, Goto, boot, balancer, TypeOK,
      RotationInv, Booting, Running
  <1>23. CASE BeginMigration(p) \/ CommitMigration(p) \/ Signal(p) \/ TickStarts(p)
      \/ TickEnds(p)
    BY <1>23 DEF BeginMigration, CommitMigration, Signal, TickStarts, TickEnds,
      boot, shutdown, balancer, RotationInv, Booting, Running
  <1>. QED
    BY <1>1, <1>2, <1>3, <1>4, <1>5, <1>6, <1>7, <1>8, <1>9, <1>10, <1>11, <1>12,
      <1>13, <1>14, <1>15, <1>16, <1>17, <1>18, <1>19, <1>20, <1>21, <1>22, <1>23
    DEF OfProcess, Boot, Stop

\* A probe missed takes one interval of the delay.
LEMMA RotationInvOfProbe ==
    ASSUME TypeOK, FlightInv, RotationInv, Probe
    PROVE  RotationInv'
  <1>1. probe = 0 /\ probe' = Interval /\ UNCHANGED <<at, listening, drain, timer>>
    BY DEF Probe, boot, shutdown
  <1>2. ASSUME NEW p \in Processes, Ready(p)
        PROVE  misses'[p] = 0 /\ drain[p] = "idle" /\ listening[p]
    BY <1>2 DEF Probe, Ready, RotationInv
  <1>3. ASSUME NEW p \in Processes, ~Ready(p), rotation'[p], ~died'[p]
        PROVE  /\ rotation[p] /\ ~died[p] /\ misses'[p] < Threshold
               /\ misses'[p] * Interval = misses[p] * Interval + Interval
               /\ misses[p] * Interval \in Nat
    <2>1. rotation'[p] = (Ready(p) \/ (rotation[p] /\ misses'[p] < Threshold))
      BY Zenon DEF Probe
    <2>2. died'[p] = (died[p] /\ ~Ready(p))
      BY Zenon DEF Probe
    <2>3. misses'[p] = IF misses[p] < Threshold THEN misses[p] + 1 ELSE misses[p]
      BY <1>3 DEF Probe
    <2>4. rotation[p] /\ ~died[p] /\ misses'[p] < Threshold
      BY <1>3, <2>1, <2>2
    <2>5. misses[p] \in Nat /\ misses'[p] = misses[p] + 1
      BY <2>3, <2>4, LifecycleAssumption DEF TypeOK
    <2>. QED BY <2>4, <2>5, OneMoreMiss
  <1>. QED BY <1>1, <1>2, <1>3, LifecycleAssumption DEF RotationInv, TypeOK

LEMMA RotationInit == Init => RotationInv
  BY DEF Init, RotationInv

LEMMA RotationNext == IInv /\ RotationInv /\ [Next]_vars => RotationInv'
  <1>. SUFFICES ASSUME IInv, RotationInv, [Next]_vars PROVE RotationInv'
    OBVIOUS
  <1>1. CASE \E p \in Processes : OfProcess(p)
    BY <1>1, RotationInvOfProcess DEF IInv
  <1>2. CASE Probe
    BY <1>2, RotationInvOfProbe DEF IInv
  <1>3. CASE Tick
    <2>. SUFFICES ASSUME NEW p \in Processes
                  PROVE  /\ at'[p] = "serving" /\ drain'[p] \in {"idle", "delay"} => listening'[p]
                         /\ rotation'[p] /\ ~died'[p] =>
                              /\ listening'[p] /\ misses'[p] < Threshold
                              /\ drain'[p] = "delay" => Delay - timer'[p] + probe'
                                                        <= misses'[p] * Interval + Interval
      BY DEF RotationInv
    <2>1. /\ UNCHANGED <<at, drain, listening, misses, rotation, died>>
          /\ probe # 0 /\ probe' = probe - 1 /\ timer'[p] = Less(timer[p]) /\ ~Due(p)
      BY <1>3 DEF Tick, boot
    <2>2. CASE rotation[p] /\ ~died[p] /\ drain[p] = "delay"
      <3>1. at[p] = "serving" /\ listening[p] /\ misses[p] < Threshold
        BY <2>2 DEF IInv, FlightInv, RotationInv
      <3>2. probe # 0 /\ timer[p] # 0
        BY <2>1, <2>2, <3>1 DEF Due, Running
      <3>3. Delay - timer[p] + probe <= misses[p] * Interval + Interval
        BY <2>2 DEF RotationInv
      <3>4. probe \in Nat /\ timer[p] \in Nat /\ misses[p] \in Nat
        BY LifecycleAssumption DEF IInv, TypeOK
      <3>5. Delay - timer'[p] + probe' = Delay - timer[p] + probe
        BY <2>1, <3>2, <3>4, LifecycleAssumption DEF Less
      <3>. QED BY <2>1, <2>2, <3>1, <3>3, <3>5
    <2>3. CASE ~(rotation[p] /\ ~died[p] /\ drain[p] = "delay")
      BY <2>1, <2>3 DEF RotationInv
    <2>. QED BY <2>2, <2>3
  <1>4. CASE UNCHANGED <<at, drain, timer, listening, probe, misses, rotation, died>>
    BY <1>4 DEF RotationInv
  <1>. QED
    BY <1>1, <1>2, <1>3, <1>4, StepCases
    DEF Send, Finish, vars, boot, shutdown, balancer

\* A load balancer that probes every Interval and gives up after Threshold failures has
\* given up on a process before it stops listening, whatever the delay above their product,
\* unless it was killed or its listener broke.
THEOREM NobodyIsRefused == Spec => []NoRequestRefused
  <1>1. Init => NoRequestRefused
    BY DEF Init, NoRequestRefused
  <1>2. IInv /\ RotationInv /\ NoRequestRefused /\ [Next]_vars => NoRequestRefused'
    <2>. SUFFICES ASSUME IInv, RotationInv, NoRequestRefused, [Next]_vars
                  PROVE  NoRequestRefused'
      OBVIOUS
    <2>1. CASE \E p \in Processes, r \in Requests : Send(r, p)
      BY <2>1, LifecycleAssumption DEF Send, IInv, TypeOK, RotationInv, NoRequestRefused, Outcomes
    <2>2. CASE \E r \in Requests : Finish(r)
      BY <2>2 DEF Finish, IInv, TypeOK, NoRequestRefused
    <2>3. CASE \E p \in Processes : Ends(p)
      BY <2>3 DEF Ends, NoRequestRefused
    <2>4. CASE UNCHANGED where
      BY <2>4 DEF NoRequestRefused
    <2>5. CASE \E p \in Processes : OfProcess(p)
      <3>1. PICK p \in Processes : OfProcess(p)
        BY <2>5
      <3>2. UNCHANGED where \/ Ends(p)
        BY <3>1 DEF OfProcess, Boot, Stop, Start, SelectMigrations, BeginMigration,
             CommitMigration, Migrated, MigrationFails, Open, OpenFails, Discover,
             DiscoverFails, Wire, WireFails, Listen, ListenFails, Signal, Unready,
             CloseListener, Drained, ServeReturns, AwaitDrained, StopCron, Close, Exit,
             ServeFails, Crash, TickStarts, TickEnds
      <3>. QED BY <2>3, <2>4, <3>2
    <2>. QED BY <2>1, <2>2, <2>4, <2>5, StepCases DEF Probe, Tick, vars
  <1>. QED BY <1>1, <1>2, RotationInit, RotationNext, Invariance, PTL DEF Spec
=============================================================================
