------------------------------- MODULE Access -------------------------------
(***************************************************************************)
(* What the panel promises about who may do what, with every command a     *)
(* single step: no transactions, no connection, no audit entries.  A       *)
(* session is one request between the moment its identity was read and the *)
(* moment it ended; its authority is the one it was read with.             *)
(***************************************************************************)
CONSTANTS Users, Requests, None

VARIABLES
    known,    \* accounts that exist
    admins,   \* the admins
    banner,   \* who banned each user, or None
    session   \* what each request in flight is acting as

vars == <<known, admins, banner, session>>

Out == [state |-> "out"]
New(u) == [state |-> "new", user |-> u]
In(u, authority) == [state |-> "in", user |-> u, admin |-> authority]

\* Request r acts for user u with admin authority.
ActsAs(r, u) == session[r] = In(u, TRUE)

TypeOK ==
    /\ known \subseteq Users /\ admins \subseteq Users
    /\ banner \in [Users -> Users \cup {None}]
    /\ session \in [Requests -> {Out} \cup [state : {"new"}, user : Users]
            \cup [state : {"in"}, user : Users, admin : BOOLEAN]]

Init ==
    /\ known \in SUBSET Users /\ admins \in SUBSET known
    /\ banner \in [Users -> admins \cup {None}]
    /\ \A u \in Users : banner[u] # None => u \in known /\ banner[u] # u
    /\ session = [r \in Requests |-> Out]

\* A known person who is not banned gets in, as an admin or not.
Enter(r, u) ==
    /\ session[r] = Out
    /\ u \in known /\ banner[u] = None
    /\ session' = [session EXCEPT ![r] = In(u, u \in admins)]
    /\ UNCHANGED <<known, admins, banner>>

\* Somebody who has no account yet.
Knock(r, u) ==
    /\ session[r] = Out
    /\ u \notin known
    /\ session' = [session EXCEPT ![r] = New(u)]
    /\ UNCHANGED <<known, admins, banner>>

\* The account is made (or was, meanwhile), and the first admin with it if there
\* is none.
SignUp(r, u) ==
    /\ session[r] = New(u)
    /\ known' = known \cup {u}
    /\ \/ admins' = admins
       \/ admins = {} /\ admins' = {u}
    /\ session' = [session EXCEPT ![r] = In(u, u \in admins')]
    /\ UNCHANGED banner

Grant(r, by, u) ==
    /\ ActsAs(r, by)
    /\ u \in known /\ banner[u] = None
    /\ admins' = admins \cup {u}
    /\ UNCHANGED <<known, banner, session>>

\* Not oneself, not the last one, and nobody whose bans still stand.
Revoke(r, by, u) ==
    /\ ActsAs(r, by)
    /\ u # by /\ admins # {u}
    /\ \A v \in Users : banner[v] # u
    /\ admins' = admins \ {u}
    /\ UNCHANGED <<known, banner, session>>

\* Not oneself; the banner must still be an admin when the ban is new.
Impose(r, by, u) ==
    /\ ActsAs(r, by)
    /\ u # by /\ u \in known
    /\ banner[u] = None /\ by \in admins
    /\ banner' = [banner EXCEPT ![u] = by]
    /\ UNCHANGED <<known, admins, session>>

Lift(r, by, u) ==
    /\ ActsAs(r, by)
    /\ banner' = [banner EXCEPT ![u] = None]
    /\ UNCHANGED <<known, admins, session>>

\* Requests end one at a time, or all at once when the process dies.
Leave(rs) ==
    /\ session' = [r \in Requests |-> IF r \in rs THEN Out ELSE session[r]]
    /\ UNCHANGED <<known, admins, banner>>

Next ==
    \/ \E r \in Requests, u \in Users :
          \/ Enter(r, u) \/ Knock(r, u) \/ SignUp(r, u)
          \/ \E by \in Users : \/ Grant(r, by, u) \/ Revoke(r, by, u)
                               \/ Impose(r, by, u) \/ Lift(r, by, u)
    \/ \E rs \in SUBSET Requests : Leave(rs)

Spec == Init /\ [][Next]_vars
=============================================================================
