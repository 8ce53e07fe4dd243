----------------------------- MODULE JobsProofs -----------------------------
(***************************************************************************)
(* Proofs about the queue, for any orders, ticks, receipts, handlers,      *)
(* retention and resolution of the clock.                                  *)
(***************************************************************************)
EXTENDS Jobs, TLAPS

\* Receipts are numbered in order, and only a message that was sent has any.
Numbered ==
    /\ \A m \in Messages : received[m] > 0 => status[m] # "unsent"
    /\ \A m \in Messages, a \in 1 .. MaxReceive : at[<<m, a>>] # "none" => a <= received[m]
    /\ \A s \in sent : s.attempt <= received[s.msg]

\* A claimed job is marked as running, and claimed once.
Claimed ==
    /\ \A t \in Ticks : tick[t] \in {"run", "clear"} => running
    /\ NoOverlap

\* The ban that a handler is about to read, or has read, is in its window.
Reading ==
    /\ \A o \in Orders : status[o] # "unsent" => to[o] \in Users
    /\ \A m \in Messages, a \in 1 .. MaxReceive : at[<<m, a>>] = "send" =>
          m \in Orders /\ found[<<m, a>>] \in Reasons \cap window[<<m, a>>]
    /\ \A o \in Orders, a \in 1 .. MaxReceive : at[<<o, a>>] = "start" =>
          bans[to[o]] \in window[<<o, a>>] \cup {0}
    /\ NoticeIsCurrent

\* A handler that returned without an error has done its work.
Sent(o, a) == \E s \in sent : s.msg = o /\ s.attempt = a
Worked ==
    /\ \A o \in Orders, a \in 1 .. MaxReceive :
          at[<<o, a>>] \in {"returned", "finished"} => found[<<o, a>>] = 0 \/ Sent(o, a)
    /\ HandledOrKept

IInv == TypeOK /\ Numbered /\ Claimed /\ Reading /\ Worked

-----------------------------------------------------------------------------
LEMMA InitHolds == Init => IInv
  <1> SUFFICES ASSUME Init PROVE IInv
    OBVIOUS
  <1> USE JobsAssumption DEF Init, Messages
  <1>1. TypeOK
    <2>1. bans \in [Users -> Reasons \cup {0}] /\ status \in [Messages -> {"unsent", "visible", "held", "deleted"}]
      OBVIOUS
    <2>2. to \in [Orders -> Users \cup {None}] /\ received \in [Messages -> 0 .. MaxReceive]
      OBVIOUS
    <2>3. /\ at \in [Attempts -> {"none"} \cup Active \cup Ended]
          /\ found \in [Attempts -> Reasons \cup {0, None}]
          /\ window \in [Attempts -> SUBSET (Reasons \cup {0})]
      BY DEF Active, Ended
    <2>4. sent \subseteq Notices /\ tick \in [Ticks -> {"idle", "run", "clear", "over"}]
      OBVIOUS
    <2>5. now \in 0 .. MaxNow /\ rows \subseteq 0 .. MaxNow
      OBVIOUS
    <2>6. running \in BOOLEAN
      BY Zenon
    <2>. QED BY ONLY <2>1, <2>2, <2>3, <2>4, <2>5, <2>6 DEF TypeOK
  <1>2. \A m \in Messages, a \in 1 .. MaxReceive : at[<<m, a>>] = "none"
    BY DEF Attempts
  <1>3. Numbered /\ Claimed /\ Reading /\ Worked
    BY <1>2 DEF Numbered, Claimed, NoOverlap, Reading, NoticeIsCurrent, Worked, HandledOrKept
  <1>. QED BY <1>1, <1>3 DEF IInv

\* The types of what every step may touch, action by action.
LEMMA TypeStep ==
    ASSUME TypeOK, Numbered, Reading, Next
    PROVE  TypeOK'
  <1> USE JobsAssumption DEF TypeOK, Active, Ended
  <1>1. ASSUME NEW o \in Orders, NEW u \in Users, NEW why \in Reasons, Ban(o, u, why)
        PROVE  TypeOK'
    BY <1>1 DEF Ban, cron, Messages
  <1>2. ASSUME NEW u \in Users, Unban(u)
        PROVE  TypeOK'
    BY <1>2 DEF Unban, cron, queue, handlers
  <1>3. CASE AuditWrite
    BY <1>3 DEF AuditWrite, cron, queue, handlers
  <1>4. CASE Clock
    BY <1>4 DEF Clock, cron, queue, handlers
  <1>5. ASSUME NEW t \in Ticks, TickStarts(t) \/ TickStep(t) \/ TickFails(t)
        PROVE  TypeOK'
    BY <1>5 DEF TickStarts, TickStep, TickEnqueues, TickEnds, TickFails, queue, handlers, Messages
  <1>6. ASSUME NEW m \in Messages, Receive(m)
        PROVE  TypeOK'
    <2>1. received[m] + 1 \in 1 .. MaxReceive
      BY <1>6 DEF Receive
    <2>2. m \in Orders => bans[to[m]] \in Reasons \cup {0}
      BY <1>6 DEF Receive, Reading
    <2>3. at' \in [Attempts -> {"none"} \cup Active \cup Ended]
      BY <1>6 DEF Receive
    <2>4. window' \in [Attempts -> SUBSET (Reasons \cup {0})]
      <3>. DEFINE Windows == SUBSET (Reasons \cup {0})
                  seen == IF m \in Orders THEN {bans[to[m]]} ELSE {}
      <3>1. window' = [window EXCEPT ![<<m, received[m] + 1>>] = seen]
        BY <1>6 DEF Receive
      <3>2. window \in [Attempts -> Windows] /\ seen \in Windows
        BY <2>2
      <3>. HIDE JobsAssumption DEF TypeOK, Windows, seen
      <3>3. window' \in [Attempts -> Windows]
        BY <3>1, <3>2
      <3>. QED BY <3>3 DEF Windows
    <2>5. /\ status' \in [Messages -> {"unsent", "visible", "held", "deleted"}]
          /\ received' \in [Messages -> 0 .. MaxReceive]
      BY <1>6, <2>1 DEF Receive
    <2>. QED BY <1>6, <2>3, <2>4, <2>5 DEF Receive, cron
  <1>7. ASSUME NEW m \in Messages, Expire(m) \/ Lapse(m)
        PROVE  TypeOK'
    BY <1>7 DEF Expire, Lapse, cron, handlers
  <1>8. ASSUME NEW m \in Messages, NEW a \in 1 .. MaxReceive,
               Handle(m, a) \/ DeleteFails(m, a) \/ HandlerFails(m, a)
        PROVE  TypeOK'
    <2>1. CASE Load(m, a)
      <3>1. bans[to[m]] \in Reasons \cup {0}
        BY <2>1 DEF Load, Reading, Numbered, Messages
      <3>. QED BY <2>1, <3>1 DEF Load, DBGetUserBan, cron, queue
    <2>2. CASE NotifyUserBanned(m, a)
      <3>1. [msg |-> m, attempt |-> a, reason |-> found[<<m, a>>]] \in Notices
        BY <2>2 DEF NotifyUserBanned, Reading, Notices
      <3>. QED BY <2>2, <3>1 DEF NotifyUserBanned, cron, queue
    <2>3. CASE PurgeAuditLog(m, a)
      BY <2>3 DEF PurgeAuditLog, cron, queue
    <2>4. CASE Delete(m, a)
      BY <2>4 DEF Delete, cron
    <2>5. CASE DeleteFails(m, a) \/ HandlerFails(m, a)
      BY <2>5 DEF DeleteFails, HandlerFails, cron, queue
    <2>. QED BY <1>8, <2>1, <2>2, <2>3, <2>4, <2>5 DEF Handle
  <1>9. CASE Restart
    BY <1>9 DEF Restart, queue
  <1>. QED BY <1>1, <1>2, <1>3, <1>4, <1>5, <1>6, <1>7, <1>8, <1>9 DEF Next

\* Only a receipt takes a handler from where none was, and it is the next one.
LEMMA NumberedStep ==
    ASSUME IInv, Next
    PROVE  Numbered'
  <1> USE JobsAssumption DEF IInv, TypeOK, Numbered
  <1>1. ASSUME NEW o \in Orders, NEW u \in Users, NEW why \in Reasons, Ban(o, u, why)
        PROVE  Numbered'
    BY <1>1 DEF Ban, Messages
  <1>2. CASE AuditWrite \/ Clock \/ \E u \in Users : Unban(u)
    BY <1>2 DEF AuditWrite, Clock, Unban, queue, handlers
  <1>3. ASSUME NEW t \in Ticks, TickStarts(t) \/ TickStep(t) \/ TickFails(t)
        PROVE  Numbered'
    BY <1>3 DEF TickStarts, TickStep, TickEnqueues, TickEnds, TickFails, queue, handlers, Messages
  <1>4. ASSUME NEW m \in Messages, Receive(m)
        PROVE  Numbered'
    <2>1. /\ received' = [received EXCEPT ![m] = @ + 1]
          /\ status' = [status EXCEPT ![m] = "held"] /\ sent' = sent
          /\ at' = [at EXCEPT ![<<m, received[m] + 1>>] = "start"]
      BY <1>4 DEF Receive
    <2>2. \A n \in Messages : received[n] \in Nat /\ received'[n] \in Nat /\ received[n] <= received'[n]
      BY <2>1
    <2>3. \A n \in Messages : received'[n] > 0 => status'[n] # "unsent"
      BY <2>1
    <2>4. \A n \in Messages, a \in 1 .. MaxReceive : at'[<<n, a>>] # "none" => a <= received'[n]
      <3> SUFFICES ASSUME NEW n \in Messages, NEW a \in 1 .. MaxReceive,
                          at'[<<n, a>>] # "none"
                   PROVE  a <= received'[n]
        OBVIOUS
      <3>1. CASE n = m /\ a = received[m] + 1
        BY <2>1, <2>2, <3>1
      <3>2. CASE ~(n = m /\ a = received[m] + 1)
        <4>1. <<n, a>> \in Attempts /\ <<n, a>> # <<m, received[m] + 1>>
          BY <3>2 DEF Attempts
        <4>2. at'[<<n, a>>] = at[<<n, a>>]
          BY <2>1, <4>1
        <4>. QED BY <2>2, <4>2
      <3>. QED BY <3>1, <3>2
    <2>5. \A s \in sent : s.attempt <= received'[s.msg]
      <3> SUFFICES ASSUME NEW s \in sent PROVE s.attempt <= received'[s.msg]
        OBVIOUS
      <3>1. s.attempt \in 1 .. MaxReceive /\ s.msg \in Messages
        BY DEF Notices, Messages
      <3>. QED BY <2>2, <3>1
    <2>6. \A s \in sent' : s.attempt <= received'[s.msg]
      BY <2>1, <2>5
    <2>. HIDE JobsAssumption DEF IInv, TypeOK
    <2>. QED BY <2>3, <2>4, <2>6
  <1>5. ASSUME NEW m \in Messages, Expire(m) \/ Lapse(m)
        PROVE  Numbered'
    BY <1>5 DEF Expire, Lapse, handlers
  <1>6. ASSUME NEW m \in Messages, NEW a \in 1 .. MaxReceive,
               Handle(m, a) \/ DeleteFails(m, a) \/ HandlerFails(m, a)
        PROVE  Numbered'
    <2>1. CASE Load(m, a)
      BY <2>1 DEF Load, queue, Attempts
    <2>2. CASE NotifyUserBanned(m, a)
      BY <2>2 DEF NotifyUserBanned, queue, Attempts
    <2>3. CASE Delete(m, a)
      BY <2>3 DEF Delete, Attempts
    <2>4. CASE PurgeAuditLog(m, a)
      BY <2>4 DEF PurgeAuditLog, queue, Attempts
    <2>5. CASE HandlerFails(m, a) \/ DeleteFails(m, a)
      BY <2>5 DEF HandlerFails, DeleteFails, queue, Attempts
    <2>. QED BY <1>6, <2>1, <2>2, <2>3, <2>4, <2>5 DEF Handle
  <1>7. CASE Restart
    BY <1>7 DEF Restart, queue, Attempts, Active
  <1>. QED BY <1>1, <1>2, <1>3, <1>4, <1>5, <1>6, <1>7 DEF Next

\* Claiming, releasing and restarting; nothing else touches the flag.
LEMMA ClaimedStep ==
    ASSUME IInv, Next
    PROVE  Claimed'
  <1> USE DEF IInv, TypeOK, Claimed, NoOverlap
  <1>1. ASSUME NEW t \in Ticks, TickStarts(t)
        PROVE  Claimed'
    BY <1>1 DEF TickStarts
  <1>2. ASSUME NEW t \in Ticks, TickStep(t) \/ TickFails(t)
        PROVE  Claimed'
    BY <1>2 DEF TickStep, TickEnqueues, TickEnds, TickFails
  <1>3. CASE Restart
    BY <1>3 DEF Restart
  <1>4. CASE UNCHANGED cron
    BY <1>4 DEF cron
  <1>5. ASSUME NEW m \in Messages, NEW a \in 1 .. MaxReceive,
               Handle(m, a) \/ DeleteFails(m, a) \/ HandlerFails(m, a)
        PROVE  UNCHANGED cron
    BY <1>5 DEF Handle, Load, NotifyUserBanned, PurgeAuditLog, Delete, DeleteFails, HandlerFails
  <1>. QED
    BY <1>1, <1>2, <1>3, <1>4, <1>5
    DEF Next, Ban, Unban, AuditWrite, Clock, Receive, Expire, Lapse

\* Whoever is at work on a ban order's message knows whom it is about.
LEMMA AtWork ==
    ASSUME IInv, NEW o \in Orders, NEW a \in 1 .. MaxReceive, at[<<o, a>>] # "none"
    PROVE  status[o] # "unsent" /\ to[o] \in Users
  <1>1. received[o] > 0
    BY JobsAssumption DEF IInv, TypeOK, Numbered, Messages
  <1>. QED BY <1>1 DEF IInv, Numbered, Reading, Messages

\* A window only grows while its handler is at work, by every reason that comes
\* into force, and a receipt opens a new one.
LEMMA ReadingStep ==
    ASSUME IInv, Next
    PROVE  Reading'
  <1> USE JobsAssumption DEF IInv, TypeOK
  <1>0. \A s \in sent : s.msg \in Orders /\ s.attempt \in 1 .. MaxReceive /\ <<s.msg, s.attempt>> \in Attempts
    BY DEF Notices, Attempts, Messages
  <1>1. ASSUME NEW o \in Orders, NEW u \in Users, NEW why \in Reasons, Ban(o, u, why)
        PROVE  Reading'
    <2>1. \A x \in Attempts : window[x] \subseteq window'[x]
      BY <1>1 DEF Ban
    <2>2. \A n \in Orders : status'[n] # "unsent" => to'[n] \in Users
      BY <1>1 DEF Ban, Reading, Messages
    <2>3. \A m \in Messages, a \in 1 .. MaxReceive : at'[<<m, a>>] = "send" =>
             m \in Orders /\ found'[<<m, a>>] \in Reasons \cap window'[<<m, a>>]
      BY <1>1, <2>1 DEF Ban, Reading, Attempts
    <2>4. ASSUME NEW n \in Orders, NEW a \in 1 .. MaxReceive, at'[<<n, a>>] = "start"
          PROVE  bans'[to'[n]] \in window'[<<n, a>>] \cup {0}
      <3>1. at[<<n, a>>] = "start" /\ <<n, a>> \in Attempts
        BY <1>1, <2>4 DEF Ban, Attempts, Messages
      <3>2. n # o /\ to'[n] = to[n] /\ to[n] \in Users
        BY <1>1, <3>1, AtWork DEF Ban
      <3>3. CASE to[n] = u
        <4>1. window'[<<n, a>>] = window[<<n, a>>] \cup {why}
          BY <1>1, <3>1, <3>3 DEF Ban, Active
        <4>. QED BY <1>1, <3>2, <3>3, <4>1 DEF Ban
      <3>4. CASE to[n] # u
        BY <1>1, <2>1, <3>1, <3>2, <3>4 DEF Ban, Reading
      <3>. QED BY <3>3, <3>4
    <2>5. NoticeIsCurrent'
      BY <1>0, <1>1, <2>1 DEF Ban, Reading, NoticeIsCurrent
    <2>. QED BY <2>2, <2>3, <2>4, <2>5 DEF Reading
  <1>2. ASSUME NEW u \in Users, Unban(u)
        PROVE  Reading'
    <2>1. UNCHANGED <<status, to, at, found, window, sent>> /\ bans' = [bans EXCEPT ![u] = 0]
      BY <1>2 DEF Unban, queue, handlers
    <2>2. ASSUME NEW n \in Orders, NEW a \in 1 .. MaxReceive, at'[<<n, a>>] = "start"
          PROVE  bans'[to'[n]] \in window'[<<n, a>>] \cup {0}
      <3>1. to[n] \in Users
        BY <2>1, <2>2, AtWork
      <3>. QED BY <2>1, <2>2, <3>1 DEF Reading
    <2>. QED BY <2>1, <2>2 DEF Reading, NoticeIsCurrent
  <1>3. CASE UNCHANGED <<bans, to, at, found, window, sent>> /\ \A n \in Orders : status'[n] # "unsent" => status[n] # "unsent"
    BY <1>3 DEF Reading, NoticeIsCurrent
  <1>4. ASSUME NEW t \in Ticks, TickStarts(t) \/ TickStep(t) \/ TickFails(t)
        PROVE  Reading'
    BY <1>3, <1>4 DEF TickStarts, TickStep, TickEnqueues, TickEnds, TickFails, queue, handlers, Messages
  <1>5. ASSUME NEW m \in Messages, Receive(m)
        PROVE  Reading'
    <2> DEFINE x == <<m, received[m] + 1>>
    <2>1. x \in Attempts /\ at[x] = "none" /\ \A s \in sent : <<s.msg, s.attempt>> # x
      <3>1. received[m] + 1 \in 1 .. MaxReceive /\ ~(received[m] + 1 <= received[m])
        BY <1>5 DEF Receive
      <3>2. at[x] = "none"
        BY <3>1 DEF Numbered
      <3>3. ASSUME NEW s \in sent, <<s.msg, s.attempt>> = x
            PROVE  FALSE
        BY <3>1, <3>3 DEF Numbered
      <3>. QED BY <3>1, <3>2, <3>3 DEF Attempts
    <2>2. /\ UNCHANGED <<bans, to, found, sent>>
          /\ at' = [at EXCEPT ![x] = "start"] /\ status' = [status EXCEPT ![m] = "held"]
          /\ window' = [window EXCEPT ![x] = IF m \in Orders THEN {bans[to[m]]} ELSE {}]
          /\ status[m] = "visible"
      BY <1>5 DEF Receive
    <2> HIDE DEF x
    <2>3. \A n \in Orders : status'[n] # "unsent" => to'[n] \in Users
      BY <2>2 DEF Reading
    <2>4. \A n \in Messages, a \in 1 .. MaxReceive : at'[<<n, a>>] = "send" =>
             n \in Orders /\ found'[<<n, a>>] \in Reasons \cap window'[<<n, a>>]
      BY <2>1, <2>2 DEF Reading, Attempts
    <2>5. ASSUME NEW n \in Orders, NEW a \in 1 .. MaxReceive, at'[<<n, a>>] = "start"
          PROVE  bans'[to'[n]] \in window'[<<n, a>>] \cup {0}
      <3>1. CASE <<n, a>> = x
        <4>1. n = m
          BY <3>1 DEF x
        <4>. QED BY <2>1, <2>2, <3>1, <4>1
      <3>2. CASE <<n, a>> # x
        BY <2>1, <2>2, <2>5, <3>2 DEF Reading, Attempts, Messages
      <3>. QED BY <3>1, <3>2
    <2>6. NoticeIsCurrent'
      BY <1>0, <2>1, <2>2 DEF Reading, NoticeIsCurrent
    <2>. QED BY <2>3, <2>4, <2>5, <2>6 DEF Reading
  <1>6. ASSUME NEW m \in Messages, Expire(m) \/ Lapse(m)
        PROVE  Reading'
    BY <1>3, <1>6 DEF Expire, Lapse, handlers, Messages
  <1>7. ASSUME NEW m \in Messages, NEW a \in 1 .. MaxReceive, Load(m, a)
        PROVE  Reading'
    <2> DEFINE y == <<m, a>>
    <2>1. /\ UNCHANGED <<bans, status, to, window, sent>> /\ m \in Orders /\ y \in Attempts
          /\ found' = [found EXCEPT ![y] = bans[to[m]]]
          /\ at' = [at EXCEPT ![y] = IF bans[to[m]] = 0 THEN "returned" ELSE "send"]
      BY <1>7 DEF Load, DBGetUserBan, queue, Attempts
    <2>2. bans[to[m]] \in window[y] \cup {0} /\ bans[to[m]] \in Reasons \cup {0}
      BY <1>7, <2>1, AtWork DEF Load, Reading
    <2> HIDE DEF y
    <2>3. \A n \in Messages, b \in 1 .. MaxReceive : at'[<<n, b>>] = "send" =>
             n \in Orders /\ found'[<<n, b>>] \in Reasons \cap window'[<<n, b>>]
      <3> SUFFICES ASSUME NEW n \in Messages, NEW b \in 1 .. MaxReceive, at'[<<n, b>>] = "send"
                   PROVE  n \in Orders /\ found'[<<n, b>>] \in Reasons \cap window'[<<n, b>>]
        OBVIOUS
      <3>1. CASE <<n, b>> = y
        BY <2>1, <2>2, <3>1 DEF y
      <3>2. CASE <<n, b>> # y
        BY <2>1, <3>2 DEF Reading, Attempts
      <3>. QED BY <3>1, <3>2
    <2>4. \A n \in Orders, b \in 1 .. MaxReceive : at'[<<n, b>>] = "start" => at[<<n, b>>] = "start"
      BY <2>1 DEF Attempts, Messages
    <2>. QED BY <2>1, <2>3, <2>4 DEF Reading, NoticeIsCurrent
  <1>8. ASSUME NEW m \in Messages, NEW a \in 1 .. MaxReceive, NotifyUserBanned(m, a)
        PROVE  Reading'
    <2>1. UNCHANGED <<bans, status, to, found, window>>
      BY <1>8 DEF NotifyUserBanned, queue
    <2>2. \A y \in Attempts : at'[y] \in {"send", "start"} => at'[y] = at[y]
      BY <1>8 DEF NotifyUserBanned
    <2>3. ASSUME NEW s \in sent'
          PROVE  s.reason \in window[<<s.msg, s.attempt>>]
      <3>1. CASE s \in sent
        BY <3>1 DEF Reading, NoticeIsCurrent
      <3>2. CASE s \notin sent
        <4>1. s = [msg |-> m, attempt |-> a, reason |-> found[<<m, a>>]]
          BY <1>8, <3>2 DEF NotifyUserBanned
        <4>2. found[<<m, a>>] \in window[<<m, a>>]
          BY <1>8 DEF NotifyUserBanned, Reading
        <4>. QED BY <4>1, <4>2
      <3>. QED BY <3>1, <3>2
    <2>4. NoticeIsCurrent'
      BY <2>1, <2>3 DEF NoticeIsCurrent
    <2>. QED BY <2>1, <2>2, <2>4 DEF Reading, Attempts, Messages
  <1>9. ASSUME NEW m \in Messages, NEW a \in 1 .. MaxReceive,
               PurgeAuditLog(m, a) \/ Delete(m, a) \/ DeleteFails(m, a) \/ HandlerFails(m, a)
        PROVE  Reading'
    <2>1. UNCHANGED <<bans, to, found, window, sent>>
      BY <1>9 DEF PurgeAuditLog, Delete, DeleteFails, HandlerFails
    <2>2. \A y \in Attempts : at'[y] \in {"send", "start"} => at'[y] = at[y]
      BY <1>9 DEF PurgeAuditLog, Delete, DeleteFails, HandlerFails
    <2>3. \A n \in Orders : status'[n] # "unsent" => to[n] \in Users
      <3>1. at[<<m, a>>] # "none"
        BY <1>9 DEF PurgeAuditLog, Delete, DeleteFails, HandlerFails
      <3>2. m \in Orders => to[m] \in Users
        BY <3>1, AtWork
      <3>. QED BY <1>9, <3>2 DEF PurgeAuditLog, Delete, DeleteFails, HandlerFails, queue, Reading, Messages
    <2>. QED BY <2>1, <2>2, <2>3 DEF Reading, NoticeIsCurrent, Attempts, Messages
  <1>10. CASE Restart
    <2>1. UNCHANGED <<bans, status, to, found, window, sent>>
      BY <1>10 DEF Restart, queue
    <2>2. \A y \in Attempts : at'[y] \in {"send", "start"} => at'[y] = at[y]
      BY <1>10 DEF Restart, Active
    <2>. QED BY <2>1, <2>2 DEF Reading, NoticeIsCurrent, Attempts, Messages
  <1>11. CASE AuditWrite \/ Clock
    BY <1>3, <1>11 DEF AuditWrite, Clock, queue, handlers
  <1>. QED
    BY <1>1, <1>2, <1>4, <1>5, <1>6, <1>7, <1>8, <1>9, <1>10, <1>11 DEF Next, Handle

\* An attempt that ended has ended: its place is never taken by another, what it
\* read and what it sent stay.
LEMMA WorkedStep ==
    ASSUME IInv, Next
    PROVE  Worked'
  <1> USE JobsAssumption DEF IInv, TypeOK
  <1>1. ASSUME /\ UNCHANGED found /\ sent \subseteq sent'
               /\ \A o \in Orders : status'[o] = "deleted" => status[o] = "deleted"
               /\ \A o \in Orders, a \in 1 .. MaxReceive :
                     /\ at'[<<o, a>>] \in {"returned", "finished"} =>
                           at[<<o, a>>] \in {"returned", "finished"}
                     /\ at[<<o, a>>] = "finished" => at'[<<o, a>>] = "finished"
        PROVE  Worked'
    BY <1>1 DEF Worked, HandledOrKept, Sent
  <1>0. ASSUME /\ \A o \in Orders : status'[o] = "deleted" => status[o] = "deleted"
               /\ \A x \in Attempts : at[x] = "finished" => at'[x] = "finished" /\ found'[x] = found[x]
               /\ sent \subseteq sent'
        PROVE  HandledOrKept'
    <2> SUFFICES ASSUME NEW o \in Orders, status'[o] = "deleted"
                 PROVE  \E b \in 1 .. MaxReceive :
                           /\ at'[<<o, b>>] = "finished"
                           /\ found'[<<o, b>>] = 0 \/ \E s \in sent' : s.msg = o /\ s.attempt = b
      BY DEF HandledOrKept
    <2>1. PICK b \in 1 .. MaxReceive :
             /\ at[<<o, b>>] = "finished"
             /\ found[<<o, b>>] = 0 \/ \E s \in sent : s.msg = o /\ s.attempt = b
      BY <1>0 DEF Worked, HandledOrKept
    <2>2. <<o, b>> \in Attempts
      BY DEF Attempts, Messages
    <2>. QED BY <1>0, <2>1, <2>2
  <1>2. ASSUME NEW o \in Orders, NEW u \in Users, NEW why \in Reasons, Ban(o, u, why)
        PROVE  Worked'
    BY <1>1, <1>2 DEF Ban, Messages
  <1>3. CASE AuditWrite \/ Clock \/ \E u \in Users : Unban(u)
    BY <1>1, <1>3 DEF AuditWrite, Clock, Unban, queue, handlers
  <1>4. ASSUME NEW t \in Ticks, TickStarts(t) \/ TickStep(t) \/ TickFails(t)
        PROVE  Worked'
    BY <1>1, <1>4 DEF TickStarts, TickStep, TickEnqueues, TickEnds, TickFails, queue, handlers, Messages
  <1>5. ASSUME NEW m \in Messages, Receive(m)
        PROVE  Worked'
    <2> DEFINE x == <<m, received[m] + 1>>
    <2>1. x \in Attempts /\ at[x] = "none"
      <3>1. received[m] + 1 \in 1 .. MaxReceive /\ ~(received[m] + 1 <= received[m])
        BY <1>5 DEF Receive
      <3>. QED BY <3>1 DEF Numbered, Attempts
    <2>2. /\ UNCHANGED <<found, sent>>
          /\ at' = [at EXCEPT ![x] = "start"] /\ status' = [status EXCEPT ![m] = "held"]
      BY <1>5 DEF Receive
    <2> HIDE DEF x
    <2>. QED BY <1>1, <2>1, <2>2 DEF Attempts, Messages
  <1>6. ASSUME NEW m \in Messages, Expire(m) \/ Lapse(m)
        PROVE  Worked'
    BY <1>1, <1>6 DEF Expire, Lapse, handlers, Messages
  <1>7. ASSUME NEW m \in Messages, NEW a \in 1 .. MaxReceive, Load(m, a)
        PROVE  Worked'
    <2> DEFINE y == <<m, a>>
    <2>1. /\ UNCHANGED <<status, sent>> /\ y \in Attempts /\ at[y] = "start"
          /\ found' = [found EXCEPT ![y] = bans[to[m]]]
          /\ at' = [at EXCEPT ![y] = IF bans[to[m]] = 0 THEN "returned" ELSE "send"]
      BY <1>7 DEF Load, DBGetUserBan, queue, Attempts
    <2> HIDE DEF y
    <2>2. \A x \in Attempts : at'[x] = "finished" <=> at[x] = "finished"
      BY <2>1
    <2>3. ASSUME NEW o \in Orders, NEW b \in 1 .. MaxReceive,
                 at'[<<o, b>>] \in {"returned", "finished"}
          PROVE  found'[<<o, b>>] = 0 \/ Sent(o, b)
      <3>1. <<o, b>> \in Attempts
        BY DEF Attempts, Messages
      <3>2. CASE <<o, b>> = y
        BY <2>1, <2>3, <3>1, <3>2
      <3>3. CASE <<o, b>> # y
        BY <2>1, <2>3, <3>1, <3>3 DEF Worked
      <3>. QED BY <3>2, <3>3
    <2>4. \A x \in Attempts : at[x] = "finished" => found'[x] = found[x]
      BY <2>1
    <2>5. HandledOrKept'
      BY <1>0, <2>1, <2>2, <2>4
    <2>. QED BY <2>1, <2>3, <2>5 DEF Worked, Sent
  <1>8. ASSUME NEW m \in Messages, NEW a \in 1 .. MaxReceive, NotifyUserBanned(m, a)
        PROVE  Worked'
    <2>1. /\ UNCHANGED <<status, found>> /\ at[<<m, a>>] = "send"
          /\ at' = [at EXCEPT ![<<m, a>>] = "returned"]
          /\ sent' = sent \cup {[msg |-> m, attempt |-> a, reason |-> found[<<m, a>>]]}
      BY <1>8 DEF NotifyUserBanned, queue
    <2>2. ASSUME NEW o \in Orders, NEW b \in 1 .. MaxReceive,
                 at'[<<o, b>>] \in {"returned", "finished"}
          PROVE  found'[<<o, b>>] = 0 \/ \E s \in sent' : s.msg = o /\ s.attempt = b
      <3>1. CASE <<o, b>> = <<m, a>>
        <4>1. o = m /\ b = a
          BY <3>1
        <4>2. [msg |-> m, attempt |-> a, reason |-> found[<<m, a>>]] \in sent'
          BY <2>1
        <4>. QED BY <4>1, <4>2
      <3>2. CASE <<o, b>> # <<m, a>>
        BY <2>1, <2>2, <3>2 DEF Worked, Sent, Attempts, Messages
      <3>. QED BY <3>1, <3>2
    <2>3. \A x \in Attempts : at[x] = "finished" => at'[x] = "finished"
      BY <2>1
    <2>4. HandledOrKept'
      BY <1>0, <2>1, <2>3
    <2>. QED BY <2>2, <2>4 DEF Worked, Sent
  <1>9. ASSUME NEW m \in Messages, NEW a \in 1 .. MaxReceive, PurgeAuditLog(m, a)
        PROVE  Worked'
    <2>1. m \notin Orders
      BY <1>9 DEF PurgeAuditLog
    <2>2. \A o \in Orders, b \in 1 .. MaxReceive : at'[<<o, b>>] = at[<<o, b>>]
      BY <1>9, <2>1 DEF PurgeAuditLog, Attempts, Messages
    <2>. QED BY <1>1, <1>9, <2>2 DEF PurgeAuditLog, queue
  <1>10. ASSUME NEW m \in Messages, NEW a \in 1 .. MaxReceive, Delete(m, a)
         PROVE  Worked'
    <2>1. /\ UNCHANGED <<found, sent>> /\ at[<<m, a>>] = "returned" /\ <<m, a>> \in Attempts
          /\ at' = [at EXCEPT ![<<m, a>>] = "finished"]
          /\ status' = status \/ status' = [status EXCEPT ![m] = "deleted"]
      BY <1>10 DEF Delete, Attempts
    <2>2. \A o \in Orders, b \in 1 .. MaxReceive :
             at'[<<o, b>>] \in {"returned", "finished"} => found'[<<o, b>>] = 0 \/ Sent(o, b)
      BY <2>1 DEF Worked, Attempts, Messages
    <2>3. \A x \in Attempts : at[x] = "finished" => at'[x] = "finished"
      BY <2>1
    <2>4. ASSUME NEW o \in Orders, status'[o] = "deleted"
          PROVE  \E b \in 1 .. MaxReceive : at'[<<o, b>>] = "finished" /\ (found[<<o, b>>] = 0 \/ Sent(o, b))
      <3>1. CASE status[o] = "deleted"
        <4>1. PICK b \in 1 .. MaxReceive : at[<<o, b>>] = "finished" /\ (found[<<o, b>>] = 0 \/ Sent(o, b))
          BY <3>1 DEF Worked, HandledOrKept, Sent
        <4>. QED BY <2>3, <4>1 DEF Attempts, Messages
      <3>2. CASE status[o] # "deleted"
        <4>1. o = m
          BY <2>1, <2>4, <3>2 DEF Messages
        <4>2. at'[<<m, a>>] = "finished"
          BY <2>1
        <4>3. found[<<m, a>>] = 0 \/ Sent(m, a)
          BY <2>1, <4>1 DEF Worked
        <4>. QED BY <4>1, <4>2, <4>3
      <3>. QED BY <3>1, <3>2
    <2>5. HandledOrKept'
      BY <2>1, <2>4 DEF HandledOrKept, Sent
    <2>. QED BY <2>1, <2>2, <2>5 DEF Worked, Sent
  <1>11. ASSUME NEW m \in Messages, NEW a \in 1 .. MaxReceive, DeleteFails(m, a) \/ HandlerFails(m, a)
         PROVE  Worked'
    <2>1. /\ UNCHANGED <<status, found, sent>> /\ at[<<m, a>>] \in {"returned", "start"}
          /\ at' = [at EXCEPT ![<<m, a>>] = "kept"] \/ at' = [at EXCEPT ![<<m, a>>] = "failed"]
      BY <1>11 DEF DeleteFails, HandlerFails, queue
    <2>. QED BY <1>1, <2>1 DEF Attempts, Messages
  <1>12. CASE Restart
    <2>1. /\ UNCHANGED <<status, found, sent>>
          /\ at' = [x \in Attempts |-> IF at[x] \in Active THEN "lost" ELSE at[x]]
      BY <1>12 DEF Restart, queue
    <2>. QED BY <1>1, <2>1 DEF Attempts, Messages, Active
  <1>. QED
    BY <1>2, <1>3, <1>4, <1>5, <1>6, <1>7, <1>8, <1>9, <1>10, <1>11, <1>12 DEF Next, Handle

-----------------------------------------------------------------------------
LEMMA Stutters == IInv /\ UNCHANGED vars => IInv'
  <1> SUFFICES ASSUME IInv, UNCHANGED vars PROVE IInv'
    OBVIOUS
  <1>. QED
    BY DEF vars, IInv, TypeOK, Numbered, Claimed, NoOverlap, Reading, NoticeIsCurrent, Worked,
       HandledOrKept, Sent

LEMMA Invariants == Spec => []IInv
  <1>1. IInv /\ [Next]_vars => IInv'
    BY TypeStep, NumberedStep, ClaimedStep, ReadingStep, WorkedStep, Stutters DEF IInv
  <1>. QED BY InitHolds, <1>1, PTL DEF Spec

\* The values of every variable: what the statements of the queue and the
\* handlers can leave behind, whatever fails and however often it restarts.
THEOREM JobsTyped == Spec => []TypeOK
  BY Invariants, PTL DEF IInv

\* cronjobs.Runner: two ticks of the purge job never run at the same time.
THEOREM TicksTakeTurns == Spec => []NoOverlap
  BY Invariants, PTL DEF IInv, Claimed

\* notifyuserbanned: a notice states a reason that was in force while the attempt
\* that sent it was under way.
THEOREM NoticesAreCurrent == Spec => []NoticeIsCurrent
  BY Invariants, PTL DEF IInv, Reading

\* goqite and jobs.Register: a ban order's message is deleted only when an attempt
\* sent the notice or saw that the ban was gone.
THEOREM MessagesAreHandled == Spec => []HandledOrKept
  BY Invariants, PTL DEF IInv, Worked

-----------------------------------------------------------------------------
\* Rounding down keeps the order.
LEMMA StampsInOrder ==
    ASSUME NEW t \in Int, NEW c \in Int
    PROVE  /\ Stamp(t) < Stamp(c) => t < c
           /\ Stamp(t) >= Stamp(c) => c - t < Second
  <1> DEFINE q == Stamp(t)
             r == Stamp(c)
  <1>1. /\ q \in Int /\ Second * q <= t /\ t < Second * q + Second
        /\ r \in Int /\ Second * r <= c /\ c < Second * r + Second
    BY JobsAssumption, SMTT(30) DEF Stamp
  <1> HIDE DEF q, r
  <1>2. Second \in Nat \ {0}
    BY JobsAssumption
  <1>3. q < r => Second * q + Second <= Second * r
    BY <1>1, <1>2, SMTT(30)
  <1>4. q >= r => Second * q >= Second * r
    BY <1>1, <1>2, SMTT(30)
  <1>5. q < r => t < c
    BY <1>1, <1>2, <1>3, SMTT(30)
  <1>6. q >= r => c - t < Second
    BY <1>1, <1>2, <1>4, SMTT(30)
  <1>. QED BY <1>5, <1>6 DEF q, r

\* Only the purge removes rows.
LEMMA OnlyPurgeRemoves ==
    ASSUME Next, NEW t \in rows, t \notin rows'
    PROVE  UNCHANGED now /\ Purged(t)
  BY DEF Next, Ban, Unban, AuditWrite, Clock, TickStarts, TickStep, TickEnqueues, TickEnds, TickFails,
     Receive, Expire, Lapse, Handle, Load, NotifyUserBanned, PurgeAuditLog, Delete, DeleteFails,
     HandlerFails, Restart

\* purgeauditlog: no row younger than the retention is removed, though the row's
\* time and the cutoff are rounded to seconds.
THEOREM RetentionKept == Spec => RecentRowsKept
  <1>1. IInv /\ [Next]_vars => \A t \in rows \ rows' : now - t > Retention
    <2> SUFFICES ASSUME IInv, Next, NEW t \in rows \ rows'
                 PROVE  now - t > Retention
      BY DEF vars
    <2>1. t \in Int /\ now \in Int /\ Retention \in Int
      BY JobsAssumption DEF IInv, TypeOK
    <2>2. Stamp(t) < Stamp(now - Retention)
      BY OnlyPurgeRemoves DEF Purged
    <2>3. now - Retention \in Int
      BY <2>1
    <2>4. t < now - Retention
      BY <2>1, <2>2, <2>3, StampsInOrder
    <2>. QED BY <2>1, <2>4
  <1>. QED BY <1>1, Invariants, PTL DEF Spec, RecentRowsKept

\* purgeauditlog: what a finished purge leaves is less than a second past its
\* retention.
THEOREM RetentionReached == Spec => PurgeReaches
  <1>1. IInv => \A m \in Ticks, a \in 1 .. MaxReceive :
                   PurgeAuditLog(m, a) /\ Retention > 0 =>
                      \A t \in rows' : now - t < Retention + Second
    <2> SUFFICES ASSUME IInv, NEW m \in Ticks, NEW a \in 1 .. MaxReceive,
                        PurgeAuditLog(m, a), Retention > 0, NEW t \in rows'
                 PROVE  now - t < Retention + Second
      OBVIOUS
    <2>1. t \in rows /\ ~(Stamp(t) < Stamp(now - Retention))
      BY DEF PurgeAuditLog, Purged
    <2>2. t \in Int /\ now \in Int /\ Retention \in Int /\ Second \in Int
      BY <2>1, JobsAssumption DEF IInv, TypeOK
    <2>3. now - Retention \in Int
      BY <2>2
    <2>4. Stamp(t) \in Int /\ Stamp(now - Retention) \in Int
      BY <2>2, <2>3, JobsAssumption, SMTT(30) DEF Stamp
    <2>5. (now - Retention) - t < Second
      BY <2>1, <2>2, <2>3, <2>4, StampsInOrder
    <2>. QED BY <2>2, <2>5
  <1>. QED BY <1>1, Invariants, PTL DEF PurgeReaches

-----------------------------------------------------------------------------
\* The queue implements Delivery.

\* Nobody is named before the order, nothing read before the handler has, nothing sent
\* before it does: what Delivery's guards ask of an attempt.
Fresh ==
    /\ \A o \in Orders : status[o] = "unsent" => to[o] = None
    /\ \A o \in Orders, a \in 1 .. MaxReceive :
          at[<<o, a>>] \in {"none", "start"} => found[<<o, a>>] = None
    /\ \A o \in Orders, a \in 1 .. MaxReceive :
          at[<<o, a>>] \in {"none", "start", "send"} => ~Sent(o, a)

LEMMA FreshStart ==
    ASSUME Init
    PROVE  Fresh
  BY DEF Init, Fresh, Sent, Attempts, Messages

\* Attempts only go forward, and a step that sends or reads does so for one of them.
LEMMA FreshStep ==
    ASSUME IInv, Fresh, [Next]_vars
    PROVE  Fresh'
  <1>. USE JobsAssumption
  <1>0. \A o \in Orders, a \in 1 .. MaxReceive : <<o, a>> \in Attempts
    BY DEF Attempts, Messages
  <1>1. ASSUME UNCHANGED <<to, found, sent>>,
               \A o \in Orders : status'[o] = "unsent" => status[o] = "unsent",
               \A x \in Attempts :
                  /\ at'[x] \in {"none", "start"} => at[x] \in {"none", "start"}
                  /\ at'[x] = "send" => at[x] \in {"none", "start", "send"}
        PROVE  Fresh'
    BY <1>0, <1>1 DEF Fresh, Sent
  <1>2. ASSUME NEW o \in Orders, NEW u \in Users, NEW why \in Reasons, Ban(o, u, why)
        PROVE  Fresh'
    <2>1. /\ UNCHANGED <<at, found, sent>>
          /\ \A n \in Orders : n # o => status'[n] = status[n] /\ to'[n] = to[n]
          /\ status'[o] = "visible"
      BY <1>2 DEF Ban, IInv, TypeOK, Messages
    <2>. QED BY <2>1 DEF Fresh, Sent
  <1>3. CASE AuditWrite \/ Clock \/ \E u \in Users : Unban(u)
    BY <1>1, <1>3 DEF AuditWrite, Clock, Unban, queue, handlers
  <1>4. ASSUME NEW t \in Ticks, TickStarts(t) \/ TickStep(t) \/ TickFails(t)
        PROVE  Fresh'
    <2>1. \A o \in Orders : status'[o] = status[o]
      BY <1>4 DEF TickStarts, TickStep, TickEnqueues, TickEnds, TickFails, queue, IInv, TypeOK, Messages
    <2>. QED BY <1>1, <1>4, <2>1 DEF TickStarts, TickStep, TickEnqueues, TickEnds, TickFails, handlers
  <1>5. ASSUME NEW m \in Messages, Receive(m)
        PROVE  Fresh'
    <2>. DEFINE x == <<m, received[m] + 1>>
    <2>1. at[x] = "none"
      <3>1. received[m] + 1 \in 1 .. MaxReceive /\ ~(received[m] + 1 <= received[m])
        BY <1>5 DEF Receive, IInv, TypeOK
      <3>. QED BY <3>1 DEF Numbered, IInv
    <2>2. /\ UNCHANGED <<to, found, sent>>
          /\ at' = [at EXCEPT ![x] = "start"] /\ status' = [status EXCEPT ![m] = "held"]
      BY <1>5 DEF Receive
    <2>. HIDE DEF x
    <2>3. \A y \in Attempts :
             /\ at'[y] \in {"none", "start"} => at[y] \in {"none", "start"}
             /\ at'[y] = "send" => at[y] \in {"none", "start", "send"}
      BY <2>1, <2>2 DEF IInv, TypeOK
    <2>4. \A o \in Orders : status'[o] = "unsent" => status[o] = "unsent"
      BY <2>2 DEF IInv, TypeOK, Messages
    <2>. QED BY <1>1, <2>2, <2>3, <2>4
  <1>6. ASSUME NEW m \in Messages, Expire(m) \/ Lapse(m)
        PROVE  Fresh'
    <2>1. \A o \in Orders : status'[o] = "unsent" => status[o] = "unsent"
      BY <1>6 DEF Expire, Lapse, IInv, TypeOK, Messages
    <2>. QED BY <1>1, <1>6, <2>1 DEF Expire, Lapse, handlers
  <1>7. ASSUME NEW m \in Messages, NEW a \in 1 .. MaxReceive, Load(m, a)
        PROVE  Fresh'
    <2>. DEFINE y == <<m, a>>
    <2>1. /\ UNCHANGED <<status, to, sent>> /\ y \in Attempts /\ at[y] = "start"
          /\ at'[y] \in {"returned", "send"}
          /\ \A x \in Attempts : x # y => at'[x] = at[x] /\ found'[x] = found[x]
      BY <1>7 DEF Load, queue, Attempts, IInv, TypeOK
    <2>. HIDE DEF y
    <2>. QED BY <1>0, <2>1 DEF Fresh, Sent
  <1>8. ASSUME NEW m \in Messages, NEW a \in 1 .. MaxReceive, NotifyUserBanned(m, a)
        PROVE  Fresh'
    <2>1. /\ UNCHANGED <<status, to, found>>
          /\ \A x \in Attempts : x # <<m, a>> => at'[x] = at[x]
          /\ at'[<<m, a>>] = "returned"
          /\ \A s \in sent' : s \in sent \/ (s.msg = m /\ s.attempt = a)
      BY <1>8 DEF NotifyUserBanned, queue, Attempts, IInv, TypeOK
    <2>2. ASSUME NEW o \in Orders, NEW b \in 1 .. MaxReceive,
                 at'[<<o, b>>] \in {"none", "start", "send"}
          PROVE  ~Sent(o, b)'
      <3>1. <<o, b>> # <<m, a>>
        BY <2>1, <2>2
      <3>2. ~Sent(o, b)
        BY <1>0, <2>1, <2>2, <3>1 DEF Fresh
      <3>. QED BY <2>1, <3>1, <3>2 DEF Sent
    <2>3. ASSUME NEW o \in Orders, NEW b \in 1 .. MaxReceive,
                 at'[<<o, b>>] \in {"none", "start"}
          PROVE  found'[<<o, b>>] = None
      BY <1>0, <2>1, <2>3 DEF Fresh
    <2>. QED BY <2>1, <2>2, <2>3 DEF Fresh
  <1>9. ASSUME NEW m \in Messages, NEW a \in 1 .. MaxReceive,
               PurgeAuditLog(m, a) \/ Delete(m, a) \/ DeleteFails(m, a) \/ HandlerFails(m, a)
        PROVE  Fresh'
    <2>1. /\ UNCHANGED <<to, found, sent>>
          /\ \A x \in Attempts : x # <<m, a>> => at'[x] = at[x]
          /\ at'[<<m, a>>] \in {"returned", "finished", "kept", "failed"}
      BY <1>9 DEF PurgeAuditLog, Delete, DeleteFails, HandlerFails, Attempts, IInv, TypeOK
    <2>2. \A o \in Orders : status'[o] = "unsent" => status[o] = "unsent"
      BY <1>9 DEF PurgeAuditLog, Delete, DeleteFails, HandlerFails, queue, IInv, TypeOK, Messages
    <2>. QED BY <1>1, <2>1, <2>2
  <1>10. CASE Restart
    BY <1>1, <1>10 DEF Restart, queue, Active
  <1>11. CASE UNCHANGED vars
    BY <1>1, <1>11 DEF vars
  <1>. QED
    BY <1>2, <1>3, <1>4, <1>5, <1>6, <1>7, <1>8, <1>9, <1>10, <1>11 DEF Next, Handle

LEMMA StartOfDelivery ==
    ASSUME Init
    PROVE  Promise!Init
  BY DEF Init, Promise!Init, Promise!Tries, Attempts, Messages

\* What Delivery does not see.
LEMMA NoDelivery ==
    ASSUME UNCHANGED <<bans, to, sent>>,
           \A o \in Orders : received'[o] = received[o],
           \A x \in Orders \X (1 .. MaxReceive) : found'[x] = found[x],
           \A o \in Orders : status'[o] = "deleted" <=> status[o] = "deleted"
    PROVE  UNCHANGED Promise!vars
  BY DEF Promise!vars

\* An order, a lift, a receipt, a read, a notice and a deletion are the steps of
\* Delivery; everything else is hidden behind it.
LEMMA DeliveryStep ==
    ASSUME IInv, Fresh, [Next]_vars
    PROVE  [Promise!Next]_(Promise!vars)
  <1>. DEFINE Goal == [Promise!Next]_(Promise!vars)
  <1>. USE JobsAssumption
  <1>0. /\ \A o \in Orders, a \in 1 .. MaxReceive : <<o, a>> \in Attempts
        /\ Orders \subseteq Messages /\ \A t \in Ticks : t \notin Orders
    BY DEF Attempts, Messages
  <1>1. ASSUME NEW o \in Orders, NEW u \in Users, NEW why \in Reasons, Ban(o, u, why)
        PROVE  Goal
    <2>1. /\ to[o] = None /\ to' = [to EXCEPT ![o] = u] /\ bans' = [bans EXCEPT ![u] = why]
          /\ UNCHANGED <<received, found, sent>>
      BY <1>1 DEF Ban, Fresh
    <2>2. \A n \in Orders : status'[n] = "deleted" <=> status[n] = "deleted"
      BY <1>0, <1>1 DEF Ban, IInv, TypeOK
    <2>3. Promise!Order(o, u, why)
      BY <2>1, <2>2 DEF Promise!Order
    <2>. QED BY <2>3 DEF Promise!Next
  <1>2. ASSUME NEW u \in Users, Unban(u)
        PROVE  Goal
    <2>1. Promise!Lift(u)
      BY <1>2 DEF Unban, queue, handlers, Promise!Lift
    <2>. QED BY <2>1 DEF Promise!Next
  <1>3. CASE AuditWrite \/ Clock \/ UNCHANGED vars
    BY <1>3, NoDelivery DEF AuditWrite, Clock, vars, queue, handlers
  <1>4. ASSUME NEW t \in Ticks, TickStarts(t) \/ TickStep(t) \/ TickFails(t)
        PROVE  Goal
    <2>1. /\ UNCHANGED <<bans, to, sent, received, found>>
          /\ \A o \in Orders : status'[o] = status[o]
      BY <1>0, <1>4 DEF TickStarts, TickStep, TickEnqueues, TickEnds, TickFails, queue,
         handlers, IInv, TypeOK
    <2>. QED BY <2>1, NoDelivery
  <1>5. ASSUME NEW m \in Messages, Receive(m)
        PROVE  Goal
    <2>1. /\ status[m] = "visible" /\ received[m] < MaxReceive
          /\ received' = [received EXCEPT ![m] = @ + 1]
          /\ status' = [status EXCEPT ![m] = "held"]
          /\ UNCHANGED <<bans, to, found, sent>>
      BY <1>5 DEF Receive
    <2>2. \A o \in Orders : status'[o] = "deleted" <=> status[o] = "deleted"
      BY <1>0, <2>1 DEF IInv, TypeOK
    <2>3. CASE m \in Orders
      <3>1. to[m] # None
        BY <2>1, <2>3 DEF IInv, Reading
      <3>2. [o \in Orders |-> received[o]]' =
               [[o \in Orders |-> received[o]] EXCEPT ![m] = @ + 1]
        BY <1>0, <2>1, <2>3 DEF IInv, TypeOK
      <3>3. Promise!Try(m)
        BY <2>1, <2>2, <2>3, <3>1, <3>2 DEF Promise!Try
      <3>. QED BY <2>3, <3>3 DEF Promise!Next
    <2>4. CASE m \notin Orders
      <3>1. \A o \in Orders : received'[o] = received[o]
        BY <1>0, <2>1, <2>4 DEF IInv, TypeOK
      <3>. QED BY <2>1, <2>2, <3>1, NoDelivery
    <2>. QED BY <2>3, <2>4
  <1>6. ASSUME NEW m \in Messages, Expire(m) \/ Lapse(m)
        PROVE  Goal
    <2>1. /\ UNCHANGED <<bans, to, sent, received, found>>
          /\ status[m] = "held" /\ status' = [status EXCEPT ![m] = "visible"]
      BY <1>6 DEF Expire, Lapse, handlers
    <2>2. \A o \in Orders : status'[o] = "deleted" <=> status[o] = "deleted"
      BY <1>0, <2>1 DEF IInv, TypeOK
    <2>. QED BY <2>1, <2>2, NoDelivery
  <1>7. ASSUME NEW m \in Messages, NEW a \in 1 .. MaxReceive, Load(m, a)
        PROVE  Goal
    <2>1. /\ m \in Orders /\ at[<<m, a>>] = "start"
          /\ found' = [found EXCEPT ![<<m, a>>] = bans[to[m]]]
          /\ UNCHANGED <<bans, to, sent, received, status>>
      BY <1>7 DEF Load, DBGetUserBan, queue
    <2>2. a <= received[m] /\ found[<<m, a>>] = None
      BY <1>0, <2>1 DEF IInv, Numbered, Fresh
    <2>3. <<m, a>> \in Orders \X (1 .. MaxReceive)
      BY <2>1
    <2>4. [x \in Orders \X (1 .. MaxReceive) |-> found[x]]' =
             [[x \in Orders \X (1 .. MaxReceive) |-> found[x]] EXCEPT ![<<m, a>>] = bans[to[m]]]
      <3>1. \A x \in Orders \X (1 .. MaxReceive) : x \in Attempts
        BY <1>0
      <3>. QED BY <2>1, <2>3, <3>1 DEF IInv, TypeOK
    <2>5. Promise!Look(m, a)
      BY <2>1, <2>2, <2>3, <2>4 DEF Promise!Look
    <2>. QED BY <2>1, <2>5 DEF Promise!Next, Promise!Tries
  <1>8. ASSUME NEW m \in Messages, NEW a \in 1 .. MaxReceive, NotifyUserBanned(m, a)
        PROVE  Goal
    <2>1. /\ at[<<m, a>>] = "send"
          /\ sent' = sent \cup {[msg |-> m, attempt |-> a, reason |-> found[<<m, a>>]]}
          /\ UNCHANGED <<bans, to, found, received, status>>
      BY <1>8 DEF NotifyUserBanned, queue
    <2>2. m \in Orders /\ found[<<m, a>>] \in Reasons
      BY <2>1 DEF IInv, Reading
    <2>3. ~Promise!Sent(m, a)
      BY <2>1, <2>2 DEF Fresh, Sent, Promise!Sent
    <2>4. Promise!Send(m, a)
      BY <2>1, <2>2, <2>3 DEF Promise!Send
    <2>. QED BY <2>2, <2>4 DEF Promise!Next, Promise!Tries
  <1>9. ASSUME NEW m \in Messages, NEW a \in 1 .. MaxReceive, Delete(m, a)
        PROVE  Goal
    <2>1. /\ at[<<m, a>>] = "returned"
          /\ status' = [status EXCEPT ![m] = "deleted"] \/ UNCHANGED status
          /\ UNCHANGED <<bans, to, found, received, sent>>
      BY <1>9 DEF Delete
    <2>2. CASE m \in Orders /\ status[m] # "deleted" /\ status' = [status EXCEPT ![m] = "deleted"]
      <3>1. found[<<m, a>>] = 0 \/ Promise!Sent(m, a)
        BY <2>1, <2>2 DEF IInv, Worked, Sent, Promise!Sent
      <3>2. {o \in Orders : status[o] = "deleted"}' =
               {o \in Orders : status[o] = "deleted"} \cup {m}
        BY <1>0, <2>2 DEF IInv, TypeOK
      <3>3. <<m, a>> \in Orders \X (1 .. MaxReceive)
        BY <2>2
      <3>4. Promise!Settle(m)
        BY <2>1, <2>2, <3>1, <3>2, <3>3 DEF Promise!Settle, Promise!Tries
      <3>. QED BY <2>2, <3>4 DEF Promise!Next
    <2>3. CASE ~(m \in Orders /\ status[m] # "deleted") \/ UNCHANGED status
      <3>1. \A o \in Orders : status'[o] = "deleted" <=> status[o] = "deleted"
        BY <1>0, <2>1, <2>3 DEF IInv, TypeOK
      <3>. QED BY <2>1, <3>1, NoDelivery
    <2>. QED BY <2>1, <2>2, <2>3
  <1>10. ASSUME NEW m \in Messages, NEW a \in 1 .. MaxReceive,
                PurgeAuditLog(m, a) \/ DeleteFails(m, a) \/ HandlerFails(m, a)
         PROVE  Goal
    BY <1>10, NoDelivery DEF PurgeAuditLog, DeleteFails, HandlerFails, queue
  <1>11. CASE Restart
    BY <1>11, NoDelivery DEF Restart, queue
  <1>. QED
    BY <1>1, <1>2, <1>3, <1>4, <1>5, <1>6, <1>7, <1>8, <1>9, <1>10, <1>11 DEF Next, Handle

\* Receipts that repeat, overlap, come late or die with the process add nothing to what
\* is promised of a notice: so many tries, each with one look at the ban and at most
\* one notice, and none once a try has done its work (goqite as jobs.Register and
\* main.go use it, notifyuserbanned.Resolve).
THEOREM QueueDelivers ==
    Spec => ImplementsDelivery
  <1>1. Init => Fresh /\ Promise!Init
    BY FreshStart, StartOfDelivery
  <1>2. IInv /\ Fresh /\ [Next]_vars => Fresh' /\ [Promise!Next]_(Promise!vars)
    BY FreshStep, DeliveryStep
  <1>. QED BY <1>1, <1>2, Invariants, PTL DEF Spec, ImplementsDelivery, Promise!Spec
=============================================================================
