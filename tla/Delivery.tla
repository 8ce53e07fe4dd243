------------------------------ MODULE Delivery ------------------------------
(***************************************************************************)
(* What whoever orders a ban may rely on about its notice, without queue,  *)
(* receipts, handlers or restarts.  The notice of an order is tried a      *)
(* number of times that is limited.  A try looks once, at one instant,     *)
(* whether the person is banned and why, and sends at most one notice,     *)
(* with the reason it found.  An order is settled, and not tried again,    *)
(* only when one of its tries has sent the notice or found no ban.         *)
(* Implemented by Jobs.                                                    *)
(***************************************************************************)
EXTENDS Integers

CONSTANTS Users, Orders, Reasons, MaxReceive, None

VARIABLES
    bans,     \* the reason of each person's ban, 0 for none
    owed,     \* whom the notice of an order is for, None before the order
    tried,    \* how often each notice was tried
    found,    \* the reason each try found, None before it looked
    sent,     \* notices delivered
    settled   \* orders that are not tried again
vars == <<bans, owed, tried, found, sent, settled>>

Tries == 1 .. MaxReceive
Sent(o, a) == \E s \in sent : s.msg = o /\ s.attempt = a

Init ==
    /\ bans = [u \in Users |-> 0]
    /\ owed = [o \in Orders |-> None]
    /\ tried = [o \in Orders |-> 0]
    /\ found = [x \in Orders \X Tries |-> None]
    /\ sent = {} /\ settled = {}

Order(o, u, why) ==
    /\ owed[o] = None
    /\ owed' = [owed EXCEPT ![o] = u]
    /\ bans' = [bans EXCEPT ![u] = why]
    /\ UNCHANGED <<tried, found, sent, settled>>

Lift(u) ==
    /\ bans[u] # 0
    /\ bans' = [bans EXCEPT ![u] = 0]
    /\ UNCHANGED <<owed, tried, found, sent, settled>>

Try(o) ==
    /\ owed[o] # None /\ o \notin settled
    /\ tried[o] < MaxReceive
    /\ tried' = [tried EXCEPT ![o] = @ + 1]
    /\ UNCHANGED <<bans, owed, found, sent, settled>>

Look(o, a) ==
    /\ a <= tried[o] /\ found[<<o, a>>] = None
    /\ found' = [found EXCEPT ![<<o, a>>] = bans[owed[o]]]
    /\ UNCHANGED <<bans, owed, tried, sent, settled>>

Send(o, a) ==
    /\ found[<<o, a>>] \in Reasons /\ ~Sent(o, a)
    /\ sent' = sent \cup {[msg |-> o, attempt |-> a, reason |-> found[<<o, a>>]]}
    /\ UNCHANGED <<bans, owed, tried, found, settled>>

Settle(o) ==
    /\ o \notin settled
    /\ \E a \in Tries : found[<<o, a>>] = 0 \/ Sent(o, a)
    /\ settled' = settled \cup {o}
    /\ UNCHANGED <<bans, owed, tried, found, sent>>

Next ==
    \/ \E o \in Orders, u \in Users, why \in Reasons : Order(o, u, why)
    \/ \E u \in Users : Lift(u)
    \/ \E o \in Orders : Try(o) \/ Settle(o)
    \/ \E o \in Orders, a \in Tries : Look(o, a) \/ Send(o, a)

Spec == Init /\ [][Next]_vars
=============================================================================
