--------------------------- MODULE RequestProofs ---------------------------
(* What holds of a request whatever document it carries, however the       *)
(* executor interleaves its fields, and whoever sends it.                  *)
EXTENDS Http, Inductions, SequenceTheorems, TLAPS

-----------------------------------------------------------------------------
\* The tables: only the mutation namespace has commands, only its root a sign-out.
OnlyReads(fields) ==
    \A n \in DOMAIN fields : fields[n].type \notin DOMAIN Unions \cup {"SignOutPayload"}

LEMMA UnionNames ==
    DOMAIN Unions = {"BanUserOrErrorPayload", "UnbanUserOrErrorPayload",
                     "MakeAdminOrErrorPayload", "RemoveAdminOrErrorPayload"}
  BY DEF Unions

LEMMA ShapeTypes ==
    ASSUME NEW t
    PROVE  /\ Column(t).type = t /\ Call(t).type = t
           /\ Optional(Column(t)).type = t /\ Optional(Call(t)).type = t
           /\ ListOf(Column(t)).type = t /\ ListOf(Call(t)).type = t
  BY DEF Column, Call, Optional, ListOf

LEMMA ReadingTables ==
    \A t \in DOMAIN Fields \ {"Mutation", "AdminMutation"} : OnlyReads(Fields[t])
  <1>. USE UnionNames, ShapeTypes DEF OnlyReads
  <1>1. OnlyReads(Fields.Query)
    BY DEF Fields, QueryFields
  <1>2. OnlyReads(Fields.Viewer)
    BY DEF Fields, ViewerFields
  <1>3. OnlyReads(Fields.User)
    BY DEF Fields, UserFields
  <1>4. OnlyReads(Fields.Timestamp)
    BY DEF Fields, TimestampFields
  <1>5. OnlyReads(Fields.SignOutPayload)
    BY DEF Fields, SignOutPayloadFields
  <1>6. OnlyReads(Fields.AdminQuery)
    BY DEF Fields, AdminQueryFields
  <1>7. OnlyReads(Fields.UsersConnection)
    BY DEF Fields, UsersConnectionFields
  <1>8. OnlyReads(Fields.AdminUser)
    BY DEF Fields, AdminUserFields
  <1>9. OnlyReads(Fields.AdminsConnection)
    BY DEF Fields, AdminsConnectionFields
  <1>10. OnlyReads(Fields.Admin)
    BY DEF Fields, AdminFields
  <1>11. OnlyReads(Fields.AuditLogConnection)
    BY DEF Fields, AuditLogConnectionFields
  <1>12. OnlyReads(Fields.PageInfo)
    BY DEF Fields, PageInfoFields
  <1>13. OnlyReads(Fields.AuditLogEntry)
    BY DEF Fields, AuditLogEntryFields
  <1>14. OnlyReads(Fields.BanUserPayload)
    BY DEF Fields, BanUserPayloadFields
  <1>15. OnlyReads(Fields.UnbanUserPayload)
    BY DEF Fields, UnbanUserPayloadFields
  <1>16. OnlyReads(Fields.MakeAdminPayload)
    BY DEF Fields, MakeAdminPayloadFields
  <1>17. OnlyReads(Fields.RemoveAdminPayload)
    BY DEF Fields, RemoveAdminPayloadFields
  <1>18. OnlyReads(Fields.ErrorPayload)
    BY DEF Fields, ErrorPayloadFields
  <1>19. OnlyReads(Fields.FieldMessage)
    BY DEF Fields, FieldMessageFields
  <1>20. DOMAIN Fields = {"Mutation", "AdminMutation", "Query", "Viewer", "User",
          "Timestamp", "SignOutPayload", "AdminQuery", "UsersConnection",
          "AdminUser", "AdminsConnection", "Admin", "AuditLogConnection",
          "PageInfo", "AuditLogEntry", "BanUserPayload", "UnbanUserPayload",
          "MakeAdminPayload", "RemoveAdminPayload", "ErrorPayload", "FieldMessage"}
    BY DEF Fields
  <1>. QED BY <1>1, <1>2, <1>3, <1>4, <1>5, <1>6, <1>7, <1>8, <1>9, <1>10, <1>11,
       <1>12, <1>13, <1>14, <1>15, <1>16, <1>17, <1>18, <1>19, <1>20

\* A field that is a command stands in the mutation namespace; a sign-out is called so.
LEMMA WhoCommands ==
    ASSUME NEW t \in DOMAIN Fields, NEW n \in DOMAIN Fields[t]
    PROVE  /\ Fields[t][n].type \in DOMAIN Unions => t = "AdminMutation"
           /\ Fields[t][n].type = "SignOutPayload" => n = "signOut"
  <1>1. /\ \A f \in DOMAIN AdminMutationFields : AdminMutationFields[f].type # "SignOutPayload"
        /\ \A f \in DOMAIN MutationFields :
              /\ MutationFields[f].type \notin DOMAIN Unions
              /\ MutationFields[f].type = "SignOutPayload" => f = "signOut"
    BY UnionNames DEF AdminMutationFields, MutationFields, Call, Column
  <1>2. Fields["Mutation"] = MutationFields /\ Fields["AdminMutation"] = AdminMutationFields
    BY DEF Fields
  <1>. QED BY <1>1, <1>2, ReadingTables DEF OnlyReads

LEMMA SameTypes == DOMAIN Objects = DOMAIN Fields
  BY DEF Objects, Fields

LEMMA NotNamespaces ==
    /\ "SignOutPayload" \notin Namespaces /\ None \notin Namespaces
    /\ "Query" \notin Namespaces /\ "Mutation" \notin Namespaces
  <1>1. "AdminQuery" \in DOMAIN Objects /\ "AdminMutation" \in DOMAIN Objects
    BY DEF Objects
  <1>. QED BY <1>1, DocumentsAssumption DEF Namespaces

-----------------------------------------------------------------------------
\* The executor.

\* What RunCommand and SignOut enter.
Calls == [path : Selected \ {<<>>}, outcome : {"payload", "refusal", "failure"}]

\* What the response is made of.
Shape ==
    /\ doc \in Documents
    /\ phase \in {"received", "running", "answered"}
    /\ state \in [Selected -> {"waiting", "open", "value", "null"}]
    /\ object \in [Selected -> Kinds]
    /\ ran \in Seq(Calls)
    /\ \A e \in errors : e.path \in Selected
    /\ denials \in Nat

\* Nobody but an admin gets a namespace object, and what hangs on one.
Shut ==
    caller # "admin" =>
       /\ \A p \in Selected : object[p] \notin Namespaces
       /\ \A i \in DOMAIN ran : Name(ran[i].path) = "signOut"

\* A field runs once: what was called, or has an error, waits no longer.
Once ==
    /\ \A i \in DOMAIN ran : state[ran[i].path] # "waiting"
    /\ \A e \in errors : e.path # <<>> => state[e.path] # "waiting"
    /\ phase = "received" => errors = {} /\ ran = <<>>
    /\ FailuresNamed

\* The parts of the executor's state that the invariants speak of.
Inside == <<doc, caller, phase, state, object, errors, ran, denials>>

LEMMA RootSelected == <<>> \in Selected
  BY DEF Selected, Paths

\* A field that may run stands in an object whose fields are known.
LEMMA RunnableWhere ==
    ASSUME Shape, NEW p \in Selected, Runnable(p)
    PROVE  /\ Front(p) \in Selected /\ p # <<>> /\ state[p] = "waiting" /\ phase = "running"
           /\ Above(p) \in DOMAIN Fields /\ Name(p) \in DOMAIN Fields[Above(p)]
  <1>1. Front(p) \in Selected
    BY DocumentsAssumption DEF Shape, Selected
  <1>2. object[Front(p)] # None /\ Name(p) \in DOMAIN Fields[object[Front(p)]]
    BY DEF Runnable, Collected
  <1>3. object[Front(p)] \in DOMAIN Objects
    BY <1>1, <1>2 DEF Shape, Kinds
  <1>. QED BY <1>1, <1>2, <1>3, SameTypes DEF Runnable, Above

\* Whatever is written at p, p does not wait any longer, and nothing else changes.
LEMMA OpenEffect ==
    ASSUME Shape, NEW p \in Selected, NEW type, Open(p, type)
    PROVE  /\ state' \in [Selected -> {"waiting", "open", "value", "null"}]
           /\ object' \in [Selected -> Kinds]
           /\ state'[p] # "waiting" /\ object'[p] \in {type, None}
           /\ \A q \in Selected \ {p} : state'[q] = state[q] /\ object'[q] = object[q]
  <1>1. state' \in [Selected -> {"waiting", "open", "value", "null"}]
    BY DEF Open, Shape
  <1>2. object' \in [Selected -> Kinds]
    BY DEF Open, Shape, Kinds
  <1>3. state'[p] # "waiting" /\ object'[p] \in {type, None}
    BY DEF Open, Shape
  <1>. QED BY <1>1, <1>2, <1>3 DEF Open, Shape

LEMMA NullEffect ==
    ASSUME Shape, NEW p \in Selected, Null(p)
    PROVE  /\ state' \in [Selected -> {"waiting", "open", "value", "null"}]
           /\ object' = object /\ state'[p] = "null"
           /\ \A q \in Selected \ {p} : state'[q] = state[q]
  BY DEF Null, Shape

\* One entry more.
LEMMA AppendRan ==
    ASSUME Shape, NEW p \in Selected \ {<<>>},
           NEW o \in {"payload", "refusal", "failure"},
           ran' = Append(ran, [path |-> p, outcome |-> o])
    PROVE  /\ ran' \in Seq(Calls)
           /\ \A i \in DOMAIN ran' :
                 \/ i \in DOMAIN ran /\ ran'[i] = ran[i]
                 \/ ran'[i].path = p /\ ran'[i].outcome = o
           /\ \A i \in DOMAIN ran : i \in DOMAIN ran' /\ ran'[i] = ran[i]
           /\ \E i \in DOMAIN ran' : ran'[i].path = p
  <1>. DEFINE call == [path |-> p, outcome |-> o]
  <1>1. ran \in Seq(Calls) /\ call \in Calls
    BY DEF Shape, Calls
  <1>2. /\ ran' \in Seq(Calls) /\ Len(ran') = Len(ran) + 1 /\ Len(ran) \in Nat
        /\ \A i \in 1 .. Len(ran) : ran'[i] = ran[i]
        /\ ran'[Len(ran) + 1] = call
    BY <1>1
  <1>3. DOMAIN ran = 1 .. Len(ran) /\ DOMAIN ran' = 1 .. Len(ran')
    BY <1>1, <1>2
  <1>. QED BY <1>2, <1>3

\* What a field's own step may do to the calls and the errors.
Outcome(p) ==
    \/ ran' = ran /\ errors' = errors
    \/ ran' = ran /\ \E cause : AddError(p, cause)
    \/ \E o \in {"payload", "refusal"} :
          ran' = Append(ran, [path |-> p, outcome |-> o]) /\ errors' = errors
    \/ ran' = Append(ran, [path |-> p, outcome |-> "failure"]) /\ \E cause : AddError(p, cause)

LEMMA OnceStep ==
    ASSUME Shape, Once, NEW p \in Selected \ {<<>>}, Outcome(p),
           phase = "running", phase' = "running", doc' = doc,
           state[p] = "waiting", state'[p] # "waiting",
           \A q \in Selected \ {p} : state'[q] = state[q]
    PROVE  Once'
  <1>1. /\ \A i \in DOMAIN ran : ran[i].path \in Selected \ {p, <<>>}
        /\ \A e \in errors : e.path \in Selected \ {p}
    <2>1. ran \in Seq(Calls)
      BY DEF Shape
    <2>2. \A i \in DOMAIN ran : ran[i] \in Calls
      BY <2>1
    <2>. QED BY <2>2 DEF Shape, Once, Calls
  <1>. DEFINE Entered(o) ==
         /\ \A i \in DOMAIN ran' :
               \/ i \in DOMAIN ran /\ ran'[i] = ran[i]
               \/ ran'[i].path = p /\ ran'[i].outcome = o
         /\ \A i \in DOMAIN ran : i \in DOMAIN ran' /\ ran'[i] = ran[i]
  <1>7. \A o \in {"payload", "refusal", "failure"} :
           ran' = Append(ran, [path |-> p, outcome |-> o]) => Entered(o)
    BY AppendRan
  <1>2. CASE ran' = ran /\ errors' = errors
    BY <1>1, <1>2 DEF Once, FailuresNamed
  <1>3. CASE ran' = ran /\ \E cause : AddError(p, cause)
    <2>1. /\ \A e \in errors' : e \in errors \/ e.path = p
          /\ \A e \in errors : e \in errors'
      BY <1>3 DEF AddError
    <2>. QED BY <1>1, <1>3, <2>1 DEF Once, FailuresNamed
  <1>4. ASSUME NEW o \in {"payload", "refusal"},
               ran' = Append(ran, [path |-> p, outcome |-> o]), errors' = errors
        PROVE  Once'
    BY <1>1, <1>4, <1>7 DEF Once, FailuresNamed
  <1>5. CASE ran' = Append(ran, [path |-> p, outcome |-> "failure"]) /\ \E cause : AddError(p, cause)
    <2>1. /\ \A e \in errors' : e \in errors \/ e.path = p
          /\ \A e \in errors : e \in errors'
          /\ \E e \in errors' : e.path = p
      <3>1. PICK cause : errors' = errors \cup {[path |-> p, text |-> Present(cause)]}
        BY <1>5 DEF AddError
      <3>. DEFINE new == [path |-> p, text |-> Present(cause)]
      <3>2. new.path = p /\ errors' = errors \cup {new}
        BY <3>1
      <3>. HIDE DEF new
      <3>. QED BY <3>2
    <2>2. \A i \in DOMAIN ran' :
             \/ i \in DOMAIN ran /\ ran'[i] = ran[i]
             \/ ran'[i].path = p /\ ran'[i].outcome = "failure"
      BY <1>5, <1>7
    <2>3. \A i \in DOMAIN ran' : state'[ran'[i].path] # "waiting"
      BY <1>1, <2>2 DEF Once
    <2>4. \A e \in errors' : e.path # <<>> => state'[e.path] # "waiting"
      BY <1>1, <2>1 DEF Once
    <2>5. FailuresNamed'
      BY <1>1, <2>1, <2>2 DEF Once, FailuresNamed
    <2>. QED BY <2>3, <2>4, <2>5 DEF Once
  <1>. QED BY <1>2, <1>3, <1>4, <1>5 DEF Outcome

GInv == Shape /\ Shut /\ Once

\* A field's own step, put together from its effects.
LEMMA FieldShape ==
    ASSUME GInv, NEW p \in Selected \ {<<>>}, phase = "running", Outcome(p),
           UNCHANGED <<context, phase>>, denials' \in Nat, state[p] = "waiting",
           state' \in [Selected -> {"waiting", "open", "value", "null"}],
           object' \in [Selected -> Kinds], state'[p] # "waiting",
           \A q \in Selected \ {p} : state'[q] = state[q] /\ object'[q] = object[q]
    PROVE  Shape' /\ Once'
  <1>1. Once'
    BY OnceStep DEF GInv, context
  <1>2. ran' \in Seq(Calls)
    BY AppendRan DEF GInv, Shape, Outcome
  <1>3. \A e \in errors' : e.path \in Selected
    <2>1. errors' = errors \/ \E cause : AddError(p, cause)
      BY DEF Outcome
    <2>. QED BY <2>1 DEF GInv, Shape, AddError
  <1>. QED BY <1>1, <1>2, <1>3 DEF GInv, Shape, context, Calls, Selected, Paths, Kinds

LEMMA FieldShut ==
    ASSUME GInv, NEW p \in Selected \ {<<>>}, UNCHANGED context,
           \A q \in Selected \ {p} : object'[q] = object[q],
           caller # "admin" => object'[p] \notin Namespaces,
           \/ ran' = ran
           \/ /\ caller # "admin" => Name(p) = "signOut"
              /\ \E o \in {"payload", "refusal", "failure"} :
                    ran' = Append(ran, [path |-> p, outcome |-> o])
    PROVE  Shut'
  <1>. SUFFICES ASSUME caller # "admin"
                PROVE  /\ \A q \in Selected : object'[q] \notin Namespaces
                       /\ \A i \in DOMAIN ran' : Name(ran'[i].path) = "signOut"
    BY DEF Shut, context, Selected, Paths
  <1>1. \A q \in Selected : object'[q] \notin Namespaces
    BY DEF GInv, Shut
  <1>2. \A i \in DOMAIN ran : Name(ran[i].path) = "signOut"
    BY DEF GInv, Shut
  <1>3. CASE ran' = ran
    BY <1>1, <1>2, <1>3
  <1>4. ASSUME Name(p) = "signOut", NEW o \in {"payload", "refusal", "failure"},
               ran' = Append(ran, [path |-> p, outcome |-> o])
        PROVE  \A i \in DOMAIN ran' : Name(ran'[i].path) = "signOut"
    <2>1. \A i \in DOMAIN ran' : (i \in DOMAIN ran /\ ran'[i] = ran[i]) \/ ran'[i].path = p
      BY <1>4, AppendRan DEF GInv
    <2>. QED BY <1>2, <1>4, <2>1
  <1>. QED BY <1>1, <1>3, <1>4

\* The boundary: the object is handed to admins only.
LEMMA CheckAdminKeeps ==
    ASSUME GInv, NEW p \in Selected, CheckAdmin(p)
    PROVE  GInv'
  <1>1. p # <<>> /\ state[p] = "waiting" /\ phase = "running"
    BY RunnableWhere DEF CheckAdmin, GInv
  <1>2. UNCHANGED <<context, phase, ran>>
    BY DEF CheckAdmin
  <1>3. CASE caller = "admin"
    <2>1. Open(p, FieldOf(p).type) /\ UNCHANGED <<errors, denials>>
      BY <1>3 DEF CheckAdmin
    <2>2. Shape' /\ Once'
      BY <1>1, <1>2, <2>1, OpenEffect, FieldShape DEF GInv, Outcome, Shape
    <2>. QED BY <1>1, <1>2, <1>3, <2>1, <2>2, OpenEffect, FieldShut DEF GInv
  <1>4. CASE caller # "admin"
    <2>1. AddError(p, "unauthorized") /\ Null(p) /\ denials' = denials + 1
      BY <1>4 DEF CheckAdmin
    <2>2. denials' \in Nat /\ object' \in [Selected -> Kinds]
      BY <2>1, NullEffect DEF GInv, Shape
    <2>3. Shape' /\ Once'
      BY <1>1, <1>2, <2>1, <2>2, NullEffect, FieldShape DEF GInv, Outcome
    <2>4. object'[p] \notin Namespaces
      BY <1>4, <2>1, NullEffect DEF GInv, Shut
    <2>. QED BY <1>1, <1>2, <2>1, <2>3, <2>4, NullEffect, FieldShut DEF GInv
  <1>. QED BY <1>3, <1>4

LEMMA RefuseArgumentsKeeps ==
    ASSUME GInv, NEW p \in Selected, RefuseArguments(p)
    PROVE  GInv'
  <1>1. p # <<>> /\ state[p] = "waiting" /\ phase = "running"
    BY RunnableWhere DEF RefuseArguments, GInv
  <1>2. /\ UNCHANGED <<context, phase, ran, denials>>
        /\ AddError(p, "argument") /\ Null(p)
    BY DEF RefuseArguments
  <1>3. denials' \in Nat /\ object' \in [Selected -> Kinds]
    BY <1>2, NullEffect DEF GInv, Shape
  <1>4. Shape' /\ Once'
    BY <1>1, <1>2, <1>3, NullEffect, FieldShape DEF GInv, Outcome
  <1>5. caller # "admin" => object'[p] \notin Namespaces
    BY <1>2, NullEffect DEF GInv, Shut
  <1>. QED BY <1>1, <1>2, <1>4, <1>5, NullEffect, FieldShut DEF GInv

\* A command stands in the namespace object, which only an admin has.
LEMMA RunCommandKeeps ==
    ASSUME GInv, NEW p \in Selected, RunCommand(p)
    PROVE  GInv'
  <1>1. p # <<>> /\ state[p] = "waiting" /\ phase = "running" /\ Front(p) \in Selected
    BY RunnableWhere DEF RunCommand, GInv
  <1>2. caller = "admin"
    <2>1. object[Front(p)] = "AdminMutation"
      BY RunnableWhere, WhoCommands DEF RunCommand, GInv, FieldOf, Above
    <2>. QED BY <1>1, <2>1 DEF GInv, Shut, Namespaces
  <1>3. UNCHANGED <<context, phase, denials>> /\ denials' \in Nat
    BY DEF RunCommand, GInv, Shape
  <1>4. ASSUME NEW member \in {"payload", "refusal"},
               Open(p, Unions[FieldOf(p).type][member]),
               ran' = Append(ran, [path |-> p, outcome |-> member]), UNCHANGED errors
        PROVE  GInv'
    <2>1. Shape' /\ Once'
      BY <1>1, <1>3, <1>4, OpenEffect, FieldShape DEF GInv, Outcome
    <2>. QED BY <1>1, <1>2, <1>3, <1>4, <2>1, OpenEffect, FieldShut DEF GInv
  <1>5. CASE /\ AddError(p, "command") /\ Null(p)
             /\ ran' = Append(ran, [path |-> p, outcome |-> "failure"])
    <2>1. object' \in [Selected -> Kinds]
      BY <1>5, NullEffect DEF GInv, Shape
    <2>2. Shape' /\ Once'
      BY <1>1, <1>3, <1>5, <2>1, NullEffect, FieldShape DEF GInv, Outcome
    <2>. QED BY <1>1, <1>2, <1>3, <1>5, <2>2, NullEffect, FieldShut DEF GInv
  <1>. QED BY <1>4, <1>5 DEF RunCommand

LEMMA SignOutKeeps ==
    ASSUME GInv, NEW p \in Selected, SignOut(p)
    PROVE  GInv'
  <1>1. p # <<>> /\ state[p] = "waiting" /\ phase = "running"
    BY RunnableWhere DEF SignOut, GInv
  <1>2. Name(p) = "signOut"
    BY RunnableWhere, WhoCommands DEF SignOut, GInv, FieldOf
  <1>3. /\ UNCHANGED <<context, phase, errors, denials>> /\ denials' \in Nat
        /\ Open(p, "SignOutPayload")
        /\ ran' = Append(ran, [path |-> p, outcome |-> "payload"])
    BY DEF SignOut, GInv, Shape
  <1>4. Shape' /\ Once'
    BY <1>1, <1>3, OpenEffect, FieldShape DEF GInv, Outcome
  <1>5. object'[p] \notin Namespaces
    BY <1>3, OpenEffect, NotNamespaces DEF GInv
  <1>. QED BY <1>1, <1>2, <1>3, <1>4, <1>5, OpenEffect, FieldShut DEF GInv

LEMMA ReadKeeps ==
    ASSUME GInv, NEW p \in Selected, Read(p)
    PROVE  GInv'
  <1>1. p # <<>> /\ state[p] = "waiting" /\ phase = "running"
    BY RunnableWhere DEF Read, GInv
  <1>2. UNCHANGED <<context, phase, ran, denials>> /\ denials' \in Nat
    BY DEF Read, GInv, Shape
  <1>3. ASSUME NEW type, type \notin Namespaces, Open(p, type), UNCHANGED errors
        PROVE  GInv'
    <2>1. Shape' /\ Once'
      BY <1>1, <1>2, <1>3, OpenEffect, FieldShape DEF GInv, Outcome
    <2>2. object'[p] \notin Namespaces
      BY <1>3, OpenEffect, NotNamespaces DEF GInv
    <2>. QED BY <1>1, <1>2, <1>3, <2>1, <2>2, OpenEffect, FieldShut DEF GInv
  <1>4. ASSUME Null(p), errors' = errors \/ AddError(p, "read")
        PROVE  GInv'
    <2>1. object' \in [Selected -> Kinds] /\ (caller # "admin" => object'[p] \notin Namespaces)
      BY <1>4, NullEffect DEF GInv, Shape, Shut
    <2>2. Shape' /\ Once'
      BY <1>1, <1>2, <1>4, <2>1, NullEffect, FieldShape DEF GInv, Outcome
    <2>. QED BY <1>1, <1>2, <1>4, <2>1, <2>2, NullEffect, FieldShut DEF GInv
  <1>. QED BY <1>3, <1>4, NotNamespaces DEF Read

LEMMA CompleteKeeps ==
    ASSUME GInv, NEW p \in Selected, Complete(p)
    PROVE  GInv'
  <1>1. /\ UNCHANGED <<context, object, errors, ran, denials>>
        /\ phase = "running" /\ phase' \in {"running", "answered"}
        /\ state' \in [Selected -> {"waiting", "open", "value", "null"}]
        /\ \A q \in Selected : state[q] # "waiting" => state'[q] # "waiting"
    BY DEF Complete, GInv, Shape
  <1>2. Shape' /\ Shut'
    BY <1>1 DEF GInv, Shape, Shut, context, Selected, Paths, Kinds, Calls, Name
  <1>3. \A i \in DOMAIN ran : ran[i].path \in Selected
    <2>1. ran \in Seq(Calls)
      BY DEF GInv, Shape
    <2>2. \A i \in DOMAIN ran : ran[i] \in Calls
      BY <2>1
    <2>. QED BY <2>2 DEF Calls
  <1>4. Once'
    BY <1>1, <1>3 DEF GInv, Shape, Once, FailuresNamed
  <1>. QED BY <1>2, <1>4 DEF GInv

LEMMA ExecuteKeeps ==
    ASSUME GInv, Execute
    PROVE  GInv'
  <1>1. phase = "received" /\ errors = {} /\ ran = <<>> /\ UNCHANGED <<context, ran, denials>>
    BY DEF Execute, GInv, Once
  <1>2. CASE phase' = "answered" /\ AddError(<<>>, "too complex") /\ UNCHANGED <<state, object>>
    <2>1. \A e \in errors' : e.path = <<>>
      <3>. DEFINE new == [path |-> <<>>, text |-> Present("too complex")]
      <3>1. errors' = {new} /\ new.path = <<>>
        BY <1>1, <1>2 DEF AddError
      <3>. HIDE DEF new
      <3>. QED BY <3>1
    <2>2. Shape' /\ Shut'
      BY <1>1, <1>2, <2>1, RootSelected
      DEF GInv, Shape, Shut, context, Selected, Paths, Kinds, Calls, Name
    <2>3. Once'
      <3>1. DOMAIN ran' = {}
        BY <1>1
      <3>. QED BY <1>2, <2>1, <3>1 DEF Once, FailuresNamed
    <2>. QED BY <2>2, <2>3 DEF GInv
  <1>3. CASE phase' = "running" /\ Open(<<>>, RootType(doc)) /\ UNCHANGED errors
    <2>1. RootType(doc) \in {"Query", "Mutation"}
      BY DEF RootType
    <2>2. Shape'
      BY <1>1, <1>3, RootSelected, OpenEffect
      DEF GInv, Shape, context, Selected, Paths, Kinds, Calls
    <2>3. Shut'
      BY <1>1, <1>3, <2>1, RootSelected, OpenEffect, NotNamespaces
      DEF GInv, Shut, context, Selected, Paths
    <2>4. Once'
      BY <1>1, <1>3 DEF Once, FailuresNamed
    <2>. QED BY <2>2, <2>3, <2>4 DEF GInv
  <1>. QED BY <1>2, <1>3 DEF Execute

LEMMA GNextKeeps == GInv /\ GNext => GInv'
  BY ExecuteKeeps, CheckAdminKeeps, RefuseArgumentsKeeps, RunCommandKeeps, SignOutKeeps,
     ReadKeeps, CompleteKeeps
  DEF GNext, FieldStep

-----------------------------------------------------------------------------
\* The request around it.

\* Whoever has no identity never reaches the executor, nor leaves a trace.
Outside ==
    /\ stage \in Stages /\ status \in Statuses \cup {None}
    /\ status = None <=> stage \in {"received", "routed", "graphql"}
    /\ stage = "graphql" => HasIdentity
    /\ phase # "received" => HasIdentity
    /\ NothingWithoutIdentity

HInv == GInv /\ Outside

LEMMA GInvAround == GInv /\ UNCHANGED <<doc, caller, phase, state, object, errors, ran, denials>> => GInv'
  BY DEF GInv, Shape, Shut, Once, FailuresNamed, Selected, Paths, Kinds, Calls, Name

LEMMA HInvInit == Init => HInv
  <1>. SUFFICES ASSUME Init PROVE HInv
    OBVIOUS
  <1>1. ran \in Seq(Calls)
    BY DEF Init, GInit
  <1>2. Shape /\ Shut
    BY <1>1, NotNamespaces DEF Init, GInit, Shape, Shut, Selected, Kinds
  <1>3. Once
    BY DEF Init, GInit, Once, FailuresNamed
  <1>4. Outside
    BY StatusesAssumption DEF Init, GInit, Outside, NothingWithoutIdentity, Served, Stages,
       Statuses
  <1>. QED BY <1>2, <1>3, <1>4 DEF HInv, GInv

\* The middleware and the routes leave the executor alone, and the executor them.
LEMMA HInvNext == HInv /\ [Next]_vars => HInv'
  <1>. SUFFICES ASSUME HInv, [Next]_vars PROVE HInv'
    OBVIOUS
  <1>. USE StatusesAssumption DEF HInv
  <1>1. ASSUME NEW code \in {500, 403, 303, 401}, Refuse(code)
        PROVE  HInv'
    <2>1. GInv'
      BY <1>1, GInvAround DEF Refuse, execution
    <2>2. Outside'
      BY <1>1 DEF Refuse, execution, Outside, Stages, Statuses, NothingWithoutIdentity, Served,
                  HasIdentity, Handler
    <2>. QED BY <2>1, <2>2
  <1>2. CASE Admit
    <2>1. GInv'
      BY <1>2, GInvAround DEF Admit
    <2>2. Outside'
      BY <1>2 DEF Admit, Outside, Stages, NothingWithoutIdentity, Served, HasIdentity, Handler
    <2>. QED BY <2>1, <2>2
  <1>3. ASSUME NEW code \in Statuses, Answer(code), stage \in {"routed", "graphql"},
               code = 200 => Handler \in {"healthz", "readyz"} \/ HasIdentity
        PROVE  HInv'
    <2>1. GInv'
      BY <1>3, GInvAround DEF Answer, gvars, context, execution
    <2>2. Outside'
      BY <1>3 DEF Answer, gvars, context, execution, Outside, Stages, Statuses,
                  NothingWithoutIdentity, Served, HasIdentity, Handler
    <2>. QED BY <2>1, <2>2
  <1>4. CASE MethodNotAllowed \/ RequireIdentity \/ Healthz \/ Readyz \/ Serve \/ Unusable
    BY <1>3, <1>4 DEF MethodNotAllowed, RequireIdentity, Healthz, Readyz, Serve, Unusable,
                      Statuses, BehindIdentity
  <1>5. CASE Replied
    BY <1>3, <1>5 DEF Replied, Statuses, Outside
  <1>6. CASE Graphql
    <2>1. GInv'
      BY <1>6, GInvAround DEF Graphql, gvars, context, execution
    <2>2. Outside'
      BY <1>6 DEF Graphql, gvars, context, execution, Outside, Stages, Statuses,
                  NothingWithoutIdentity, Served, HasIdentity, Handler
    <2>. QED BY <2>1, <2>2
  <1>7. CASE Executes
    <2>1. GInv' /\ caller' = caller
      BY <1>7, GNextKeeps
      DEF Executes, GNext, Execute, FieldStep, CheckAdmin, RefuseArguments, RunCommand,
          SignOut, Read, Complete, context
    <2>2. HasIdentity /\ HasIdentity'
      BY <1>7, <2>1 DEF Executes, Outside, HasIdentity
    <2>3. Outside'
      BY <1>7, <2>2 DEF Executes, http, Outside, NothingWithoutIdentity, Served, Handler
    <2>. QED BY <2>1, <2>3
  <1>8. CASE Flush
    <2>1. GInv'
      BY <1>8, GInvAround DEF Flush, context
    <2>2. Outside'
      BY <1>8 DEF Flush, context, Outside, Stages, NothingWithoutIdentity, Served, HasIdentity,
                  Handler
    <2>. QED BY <2>1, <2>2
  <1>9. CASE UNCHANGED vars
    <2>1. GInv'
      BY <1>9, GInvAround DEF vars, gvars, context, execution
    <2>2. Outside'
      BY <1>9 DEF vars, gvars, context, execution, http, Outside, NothingWithoutIdentity, Served,
                  HasIdentity, Handler
    <2>. QED BY <2>1, <2>2
  <1>. QED
    BY <1>1, <1>2, <1>4, <1>5, <1>6, <1>7, <1>8, <1>9
    DEF Next, IdentityFails, RefuseBanned, RefuseStaleToken

LEMMA RequestInvariant == Spec => []HInv
  BY HInvInit, HInvNext, PTL DEF Spec

-----------------------------------------------------------------------------
\* Every variable keeps its type, for any document.
THEOREM RequestTyped == Spec => []TypeOK
  <1>1. HInv => TypeOK
    <2>. SUFFICES ASSUME HInv PROVE TypeOK
      OBVIOUS
    <2>1. ran \in Seq(Calls)
      BY DEF HInv, GInv, Shape
    <2>2. \A i \in DOMAIN ran : ran[i] \in Calls
      BY <2>1
    <2>3. GTypeOK
      BY <2>2 DEF HInv, GInv, Shape, GTypeOK, Calls
    <2>. QED BY <2>3 DEF HInv, Outside, TypeOK
  <1>. QED BY <1>1, RequestInvariant, PTL

\* Nothing under an admin field is opened, run or read for anybody but an admin,
\* whatever document is sent and in whatever order its fields run.
THEOREM BoundaryHolds == Spec => []NothingBehindDenial
  <1>1. HInv => NothingBehindDenial
    BY DEF HInv, GInv, Shut, NothingBehindDenial
  <1>. QED BY <1>1, RequestInvariant, PTL

\* A command that failed has an error at its own path, and one that took effect none.
THEOREM FailuresAlwaysNamed == Spec => []FailuresNamed
  <1>1. HInv => FailuresNamed
    BY DEF HInv, GInv, Once
  <1>. QED BY <1>1, RequestInvariant, PTL

\* No route but the health endpoints serves anybody without an identity.
THEOREM IdentityRequired == Spec => []NothingWithoutIdentity
  <1>1. HInv => NothingWithoutIdentity
    BY DEF HInv, Outside
  <1>. QED BY <1>1, RequestInvariant, PTL

-----------------------------------------------------------------------------
\* The client's address.

\* The walk of Resolve does at every hop what its definition says.
Walks(walk, remote, forwarded) ==
    /\ Resolve(remote, forwarded) = IF IsTrusted(remote) THEN walk[Len(forwarded)] ELSE remote
    /\ \A i \in 1 .. Len(forwarded) :
          walk[i] = IF forwarded[i].form = "garbage" \/ IsTrusted(forwarded[i])
                    THEN walk[i - 1] ELSE forwarded[i]

LEMMA ResolveWalks ==
    ASSUME NEW remote, NEW S, NEW forwarded \in Seq(S)
    PROVE  \E walk : Walks(walk, remote, forwarded)
  <1>. DEFINE N == Len(forwarded)
              Passed(i) == forwarded[i].form = "garbage" \/ IsTrusted(forwarded[i])
              Hops == S \cup {remote}
              step == [p \in (1 .. N) \X Hops |-> IF Passed(p[1]) THEN p[2] ELSE forwarded[p[1]]]
              Walk(w) == w = [i \in 0 .. N |-> IF i = 0 THEN remote
                                               ELSE IF Passed(i) THEN w[i - 1]
                                               ELSE forwarded[i]]
              walk == CHOOSE w : Walk(w)
  <1>1. N \in Nat /\ \A i \in 1 .. N : forwarded[i] \in Hops
    OBVIOUS
  <1>2. remote \in Hops /\ step \in [(1 .. N) \X Hops -> Hops]
    <2>. HIDE DEF Passed, Hops, N
    <2>1. remote \in Hops
      BY DEF Hops
    <2>. QED BY <1>1, <2>1
  <1>3. \E w : Walk(w)
    <2>. HIDE DEF step, Hops, N, Passed
    <2>1. PICK w : Builds(w, N, Hops, remote, step)
      BY <1>1, <1>2, RecursionExists
    <2>2. ASSUME NEW i \in 1 .. N
          PROVE  w[i] = IF Passed(i) THEN w[i - 1] ELSE forwarded[i]
      <3>1. <<i, w[i - 1]>> \in (1 .. N) \X Hops
        BY <1>1, <2>1 DEF Builds
      <3>2. step[<<i, w[i - 1]>>] = IF Passed(i) THEN w[i - 1] ELSE forwarded[i]
        BY <3>1 DEF step
      <3>. QED BY <2>1, <3>2 DEF Builds
    <2>. QED BY <1>1, <2>1, <2>2 DEF Builds
  <1>4. Resolve(remote, forwarded) = IF IsTrusted(remote) THEN walk[N] ELSE remote
    BY DEF Resolve
  <1>5. Walk(walk)
    <2>. HIDE DEF Walk
    <2>. QED BY <1>3
  <1>. HIDE DEF walk
  <1>6. \A i \in 1 .. N : walk[i] = IF Passed(i) THEN walk[i - 1] ELSE forwarded[i]
    <2>. HIDE DEF Passed
    <2>. QED BY <1>1, <1>5
  <1>7. Walks(walk, remote, forwarded)
    BY <1>4, <1>6 DEF Walks
  <1>. QED BY <1>7

\* The first so many of a sequence.
LEMMA FirstOf ==
    ASSUME NEW S, NEW s \in Seq(S), NEW n \in 0 .. Len(s)
    PROVE  /\ SubSeq(s, 1, n) \in Seq(S) /\ Len(SubSeq(s, 1, n)) = n
           /\ \A i \in 1 .. n : SubSeq(s, 1, n)[i] = s[i]
  <1>1. Len(s) \in Nat /\ \A i \in 1 .. Len(s) : s[i] \in S
    OBVIOUS
  <1>2. n \in Nat /\ \A i \in 1 .. n : s[i] \in S
    BY <1>1
  <1>. DEFINE m == 1
  <1>3. m \in Nat /\ \A i \in m .. n : s[i] \in S
    BY <1>2
  <1>. HIDE DEF m
  <1>4. /\ SubSeq(s, m, n) \in Seq(S)
        /\ Len(SubSeq(s, m, n)) = IF m <= n THEN n - m + 1 ELSE 0
        /\ \A i \in 1 .. n - m + 1 : SubSeq(s, m, n)[i] = s[m + i - 1]
    BY <1>2, <1>3, SubSeqProperties
  <1>. QED BY <1>2, <1>4 DEF m

\* What a request's header ends with.
LEMMA HeaderEnds ==
    ASSUME NEW r \in Requests
    PROVE  /\ Len(r.route) \in Nat \ {0} /\ Len(r.forwarded) \in Nat
           /\ r.route \in Seq(ToSet(r.route)) /\ r.forwarded \in Seq(ToSet(r.forwarded))
           /\ \E n \in Nat :
                 /\ Len(r.forwarded) = n + Len(r.route) - 1
                 /\ \A i \in 1 .. Len(r.route) - 1 : r.forwarded[n + i] = r.route[i]
  <1>. DEFINE m == Len(r.route)
              S == ToSet(r.route) \cup ToSet(r.forwarded)
  <1>1. /\ r.route \in Seq(ToSet(r.route)) /\ r.route # <<>>
        /\ r.forwarded \in Seq(ToSet(r.forwarded))
    BY RequestsAssumption
  <1>2. /\ r.route \in Seq(S) /\ r.forwarded \in Seq(S)
        /\ m \in Nat \ {0} /\ Len(r.forwarded) \in Nat
    BY <1>1, SeqMonotonic, EmptySeq
  <1>. HIDE DEF S, m
  <1>3. PICK n \in 0 .. Len(r.forwarded) :
           r.forwarded = SubSeq(r.forwarded, 1, n) \o SubSeq(r.route, 1, m - 1)
    BY RequestsAssumption DEF Front, m
  <1>4. /\ SubSeq(r.forwarded, 1, n) \in Seq(S) /\ Len(SubSeq(r.forwarded, 1, n)) = n
        /\ SubSeq(r.route, 1, m - 1) \in Seq(S) /\ Len(SubSeq(r.route, 1, m - 1)) = m - 1
        /\ \A i \in 1 .. m - 1 : SubSeq(r.route, 1, m - 1)[i] = r.route[i]
    <2>1. m - 1 \in 0 .. Len(r.route)
      BY <1>2 DEF m
    <2>2. /\ SubSeq(r.forwarded, 1, n) \in Seq(S)
          /\ Len(SubSeq(r.forwarded, 1, n)) = n
      BY <1>2, <1>3, FirstOf
    <2>3. /\ SubSeq(r.route, 1, m - 1) \in Seq(S)
          /\ Len(SubSeq(r.route, 1, m - 1)) = m - 1
          /\ \A i \in 1 .. m - 1 : SubSeq(r.route, 1, m - 1)[i] = r.route[i]
      BY <1>2, <2>1, FirstOf
    <2>. QED BY <2>2, <2>3
  <1>5. /\ Len(r.forwarded) = n + (m - 1)
        /\ \A i \in 1 .. n + (m - 1) : r.forwarded[i] =
              IF i <= n THEN SubSeq(r.forwarded, 1, n)[i] ELSE SubSeq(r.route, 1, m - 1)[i - n]
    <2>. DEFINE a == SubSeq(r.forwarded, 1, n)
                b == SubSeq(r.route, 1, m - 1)
    <2>1. a \in Seq(S) /\ b \in Seq(S) /\ Len(a) = n /\ Len(b) = m - 1 /\ r.forwarded = a \o b
      BY <1>3, <1>4
    <2>. HIDE DEF a, b
    <2>2. /\ Len(a \o b) = Len(a) + Len(b)
          /\ \A i \in 1 .. Len(a) + Len(b) :
                (a \o b)[i] = IF i <= Len(a) THEN a[i] ELSE b[i - Len(a)]
      BY <2>1, ConcatProperties
    <2>. QED BY <2>1, <2>2 DEF a, b
  <1>6. ASSUME NEW i \in 1 .. m - 1
        PROVE  r.forwarded[n + i] = r.route[i]
    <2>1. n + i \in 1 .. n + (m - 1) /\ ~(n + i <= n) /\ (n + i) - n = i
      BY <1>2, <1>3
    <2>2. r.forwarded[n + i] = SubSeq(r.route, 1, m - 1)[i]
      BY <1>5, <2>1
    <2>. QED BY <1>4, <2>2
  <1>7. n \in Nat /\ n + m - 1 = n + (m - 1)
    BY <1>2, <1>3
  <1>. QED BY <1>1, <1>2, <1>5, <1>6, <1>7 DEF m

\* Past trusted proxies the walk comes to the client, whatever the client claimed.
LEMMA WalkFindsClient ==
    ASSUME NEW r \in Requests, r.route[1].addr \notin Trusted,
           \A i \in 2 .. Len(r.route) : r.route[i].addr \in Trusted
    PROVE  Resolve(r.remote, r.forwarded) = r.route[1]
  <1>. DEFINE m == Len(r.route)
  <1>1. PICK n \in Nat : /\ Len(r.forwarded) = n + m - 1
                         /\ \A i \in 1 .. m - 1 : r.forwarded[n + i] = r.route[i]
    BY HeaderEnds
  <1>2. m \in Nat \ {0} /\ DOMAIN r.route = 1 .. m /\ r.forwarded \in Seq(ToSet(r.forwarded))
    BY HeaderEnds
  <1>3. PICK walk : Walks(walk, r.remote, r.forwarded)
    BY <1>2, ResolveWalks
  <1>4. r.remote = r.route[m]
    BY RequestsAssumption DEF Last
  <1>. HIDE DEF m
  <1>5. CASE m = 1
    BY <1>3, <1>4, <1>5 DEF IsTrusted, Walks
  <1>6. CASE m # 1
    <2>0. \A i \in 1 .. m : r.route[i].form = "garbage" => r.route[i].addr = None /\ i = m
      BY <1>2, RequestsAssumption DEF m
    <2>1. \A i \in 2 .. m : IsTrusted(r.route[i])
      BY <1>2, <2>0, RequestsAssumption DEF IsTrusted, m
    <2>2. r.route[1].form # "garbage" /\ ~IsTrusted(r.route[1])
      <3>1. 1 \in 1 .. m
        BY <1>2
      <3>. QED BY <1>6, <2>0, <3>1 DEF IsTrusted
    <2>. DEFINE A == {i \in 0 .. m - 2 : walk[n + 1 + i] = r.route[1]}
    <2>3. 0 \in A
      <3>1. n + 1 \in 1 .. Len(r.forwarded) /\ 1 \in 1 .. m - 1
        BY <1>1, <1>2, <1>6
      <3>2. r.forwarded[n + 1] = r.route[1]
        BY <1>1, <3>1
      <3>3. walk[n + 1] = r.route[1]
        BY <1>3, <2>2, <3>1, <3>2 DEF Walks
      <3>4. n + 1 + 0 = n + 1 /\ 0 \in 0 .. m - 2
        BY <1>2, <1>6
      <3>. QED BY <3>3, <3>4
    <2>4. ASSUME NEW i \in 1 .. m - 2, i - 1 \in A
          PROVE  i \in A
      <3>1. /\ n + 1 + i \in 1 .. Len(r.forwarded) /\ 1 + i \in 1 .. m - 1 /\ 1 + i \in 2 .. m
            /\ n + (1 + i) = n + 1 + i /\ n + 1 + i - 1 = n + 1 + (i - 1) /\ i \in 0 .. m - 2
        BY <1>1, <1>2, <1>6
      <3>2. r.forwarded[n + 1 + i] = r.route[1 + i]
        <4>1. r.forwarded[n + (1 + i)] = r.route[1 + i]
          BY <1>1, <3>1
        <4>. QED BY <3>1, <4>1
      <3>3. walk[n + 1 + i] = walk[n + 1 + i - 1]
        BY <1>3, <2>1, <3>1, <3>2 DEF Walks
      <3>4. walk[n + 1 + (i - 1)] = r.route[1]
        BY <2>4
      <3>. QED BY <3>1, <3>3, <3>4
    <2>5. m - 2 \in A
      <3>. HIDE DEF A
      <3>1. m - 2 \in Nat /\ m - 2 \in 0 .. m - 2
        BY <1>2, <1>6
      <3>. QED BY <2>3, <2>4, <3>1, UpToBySteps
    <2>6. walk[Len(r.forwarded)] = r.route[1]
      <3>1. n + 1 + (m - 2) = Len(r.forwarded)
        BY <1>1, <1>2
      <3>. QED BY <2>5, <3>1
    <2>7. IsTrusted(r.remote)
      BY <1>2, <1>4, <1>6, <2>1
    <2>. QED BY <1>3, <2>6, <2>7 DEF Walks
  <1>. QED BY <1>5, <1>6

-----------------------------------------------------------------------------
\* The address is resolved once, before anything else.
Addressed == request \in Requests /\ (stage # "received" => ip = Resolve(request.remote, request.forwarded))

LEMMA AddressedNext == Addressed /\ [Next]_vars => Addressed'
  <1>. SUFFICES ASSUME Addressed, [Next]_vars PROVE Addressed'
    OBVIOUS
  <1>1. request' = request
    BY DEF Next, vars, http, IdentityFails, RefuseBanned, RefuseStaleToken, Refuse, Admit,
       MethodNotAllowed, RequireIdentity, Healthz, Readyz, Serve, Unusable, Graphql, Executes,
       Replied, Answer, Flush
  <1>2. CASE stage = "received"
    <2>1. ip' = Resolve(request.remote, request.forwarded) \/ stage' = stage
      BY <1>2 DEF Next, vars, http, IdentityFails, RefuseBanned, RefuseStaleToken, Refuse, Admit,
         MethodNotAllowed, RequireIdentity, Healthz, Readyz, Serve, Unusable, Graphql, Executes,
         Replied, Flush
    <2>. QED BY <1>1, <1>2, <2>1 DEF Addressed
  <1>3. CASE stage # "received"
    <2>1. ip' = ip
      BY <1>3 DEF Next, vars, gvars, context, IdentityFails, RefuseBanned, RefuseStaleToken,
         Refuse, Admit, MethodNotAllowed, RequireIdentity, Healthz, Readyz, Serve, Unusable,
         Graphql, Executes, Replied, Answer, Flush, GNext, Execute, FieldStep, CheckAdmin,
         RefuseArguments, RunCommand, SignOut, Read, Complete
    <2>. QED BY <1>1, <1>3, <2>1 DEF Addressed
  <1>. QED BY <1>2, <1>3

\* When the proxies of a request are trusted the address recorded is its client's,
\* whatever the client wrote into the header, for headers and routes of any length.
THEOREM AddressAlwaysTheClients == Spec => []AddressIsTheClients
  <1>1. Init => Addressed
    BY DEF Init, Addressed
  <1>2. Addressed => AddressIsTheClients
    BY WalkFindsClient DEF Addressed, AddressIsTheClients
  <1>. QED BY <1>1, <1>2, AddressedNext, PTL DEF Spec
=============================================================================
