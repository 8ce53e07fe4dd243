--------------------------- MODULE ExecutionProofs ---------------------------
(***************************************************************************)
(* The walk over a document: what is null has its reason, the roots of a   *)
(* mutation keep their order, and every command that was promised runs.    *)
(* Then the audit trail: what a request entered is exactly what crossed    *)
(* the boundary.  WInv is the inductive invariant of the walk, AInv that   *)
(* of the trail on top of it.                                              *)
(***************************************************************************)
EXTENDS RequestProofs, FiniteSetTheorems

-----------------------------------------------------------------------------
\* The tables.

\* The object function of a type counts the fields the schema marks as required.
CountsRequired(fields, walk) ==
    \A n \in DOMAIN fields : n \in walk.counted <=> fields[n].required

LEMMA RequiredOf ==
    ASSUME NEW t
    PROVE  /\ Column(t).required /\ Call(t).required
           /\ ~Optional(Column(t)).required /\ ~Optional(Call(t)).required
           /\ ListOf(Column(t)).required /\ ListOf(Call(t)).required
  BY DEF Column, Call, Optional, ListOf

LEMMA CountedAreRequired == \A t \in DOMAIN Fields : CountsRequired(Fields[t], Objects[t])
  <1>. USE DEF CountsRequired, Inline, Together, AlsoInline, AlsoTogether
  <1>1. CountsRequired(QueryFields, QueryObject)
    BY DEF QueryFields, QueryObject, Column, Call, Optional, ListOf
  <1>2. CountsRequired(MutationFields, MutationObject)
    BY DEF MutationFields, MutationObject, Column, Call, Optional, ListOf
  <1>3. CountsRequired(ViewerFields, ViewerObject)
    <2>1. ViewerObject.counted = {"role"}
      BY DEF ViewerObject
    <2>. QED BY RequiredOf, <2>1 DEF ViewerFields
  <1>4. CountsRequired(UserFields, UserObject)
    BY DEF UserFields, UserObject, Column
  <1>5. CountsRequired(TimestampFields, TimestampObject)
    BY DEF TimestampFields, TimestampObject, Column
  <1>6. CountsRequired(SignOutPayloadFields, SignOutPayloadObject)
    BY DEF SignOutPayloadFields, SignOutPayloadObject, Column
  <1>7. CountsRequired(AdminQueryFields, AdminQueryObject)
    <2>1. AdminQueryObject.counted = {"users", "admins", "auditLog", "buildGitCommit"}
      BY DEF AdminQueryObject
    <2>. QED BY RequiredOf, <2>1 DEF AdminQueryFields
  <1>8. CountsRequired(AdminMutationFields, AdminMutationObject)
    BY DEF AdminMutationFields, AdminMutationObject, Column, Call, Optional, ListOf
  <1>9. CountsRequired(UsersConnectionFields, UsersConnectionObject)
    <2>1. UsersConnectionObject.counted = {"totalCount", "nodes"}
      BY DEF UsersConnectionObject
    <2>. QED BY RequiredOf, <2>1 DEF UsersConnectionFields
  <1>10. CountsRequired(AdminUserFields, AdminUserObject)
    BY DEF AdminUserFields, AdminUserObject, Column, Call, Optional, ListOf
  <1>11. CountsRequired(AdminsConnectionFields, AdminsConnectionObject)
    <2>1. AdminsConnectionObject.counted = {"totalCount", "nodes"}
      BY DEF AdminsConnectionObject
    <2>. QED BY RequiredOf, <2>1 DEF AdminsConnectionFields
  <1>12. CountsRequired(AdminFields, AdminObject)
    BY DEF AdminFields, AdminObject, Column
  <1>13. CountsRequired(AuditLogConnectionFields, AuditLogConnectionObject)
    BY DEF AuditLogConnectionFields, AuditLogConnectionObject, Column, Call, Optional,
       ListOf
  <1>14. CountsRequired(PageInfoFields, PageInfoObject)
    BY DEF PageInfoFields, PageInfoObject, Column, Call, Optional, ListOf
  <1>15. CountsRequired(AuditLogEntryFields, AuditLogEntryObject)
    BY DEF AuditLogEntryFields, AuditLogEntryObject, Column, Call, Optional, ListOf
  <1>16. CountsRequired(BanUserPayloadFields, BanUserPayloadObject)
    BY DEF BanUserPayloadFields, BanUserPayloadObject, Column
  <1>17. CountsRequired(UnbanUserPayloadFields, UnbanUserPayloadObject)
    BY DEF UnbanUserPayloadFields, UnbanUserPayloadObject, Column
  <1>18. CountsRequired(MakeAdminPayloadFields, MakeAdminPayloadObject)
    BY DEF MakeAdminPayloadFields, MakeAdminPayloadObject, Column
  <1>19. CountsRequired(RemoveAdminPayloadFields, RemoveAdminPayloadObject)
    BY DEF RemoveAdminPayloadFields, RemoveAdminPayloadObject, Column
  <1>20. CountsRequired(ErrorPayloadFields, ErrorPayloadObject)
    BY DEF ErrorPayloadFields, ErrorPayloadObject, Column, Call, Optional, ListOf
  <1>21. CountsRequired(FieldMessageFields, FieldMessageObject)
    BY DEF FieldMessageFields, FieldMessageObject, Column
  <1>. HIDE DEF CountsRequired
  <1>. QED BY <1>1, <1>2, <1>3, <1>4, <1>5, <1>6, <1>7, <1>8, <1>9, <1>10, <1>11, <1>12,
              <1>13, <1>14, <1>15, <1>16, <1>17, <1>18, <1>19, <1>20, <1>21 DEF Fields,
              Objects

\* A namespace is a root's field; a root is nobody's; commands offer payloads.
LEMMA WhoLeads ==
    ASSUME NEW t \in DOMAIN Fields, NEW n \in DOMAIN Fields[t]
    PROVE  /\ Fields[t][n].type \notin {"Query", "Mutation"}
           /\ Fields[t][n].type = "AdminMutation" => t = "Mutation"
           /\ Fields[t][n].type = "SignOutPayload" => t = "Mutation"
           /\ t = "AdminMutation" => Fields[t][n].type \in DOMAIN Unions
  <1>. DEFINE Plainly(fields) ==
         \A m \in DOMAIN fields :
            fields[m].type \notin {"Query", "Mutation", "AdminMutation", "SignOutPayload"}
  <1>. USE ShapeTypes
  <1>1. Plainly(Fields["Query"])
    BY DEF Fields, QueryFields
  <1>2. Plainly(Fields["Viewer"])
    BY DEF Fields, ViewerFields
  <1>3. Plainly(Fields["User"])
    BY DEF Fields, UserFields
  <1>4. Plainly(Fields["Timestamp"])
    BY DEF Fields, TimestampFields
  <1>5. Plainly(Fields["SignOutPayload"])
    BY DEF Fields, SignOutPayloadFields
  <1>6. Plainly(Fields["AdminQuery"])
    BY DEF Fields, AdminQueryFields
  <1>7. Plainly(Fields["AdminMutation"])
    BY DEF Fields, AdminMutationFields
  <1>8. Plainly(Fields["UsersConnection"])
    BY DEF Fields, UsersConnectionFields
  <1>9. Plainly(Fields["AdminUser"])
    BY DEF Fields, AdminUserFields
  <1>10. Plainly(Fields["AdminsConnection"])
    BY DEF Fields, AdminsConnectionFields
  <1>11. Plainly(Fields["Admin"])
    BY DEF Fields, AdminFields
  <1>12. Plainly(Fields["AuditLogConnection"])
    BY DEF Fields, AuditLogConnectionFields
  <1>13. Plainly(Fields["PageInfo"])
    BY DEF Fields, PageInfoFields
  <1>14. Plainly(Fields["AuditLogEntry"])
    BY DEF Fields, AuditLogEntryFields
  <1>15. Plainly(Fields["BanUserPayload"])
    BY DEF Fields, BanUserPayloadFields
  <1>16. Plainly(Fields["UnbanUserPayload"])
    BY DEF Fields, UnbanUserPayloadFields
  <1>17. Plainly(Fields["MakeAdminPayload"])
    BY DEF Fields, MakeAdminPayloadFields
  <1>18. Plainly(Fields["RemoveAdminPayload"])
    BY DEF Fields, RemoveAdminPayloadFields
  <1>19. Plainly(Fields["ErrorPayload"])
    BY DEF Fields, ErrorPayloadFields
  <1>20. Plainly(Fields["FieldMessage"])
    BY DEF Fields, FieldMessageFields
  <1>21. /\ Fields["AdminMutation"] = AdminMutationFields
         /\ \A m \in DOMAIN AdminMutationFields : AdminMutationFields[m].type \in DOMAIN
              Unions
    BY UnionNames DEF Fields, AdminMutationFields
  <1>22. /\ Fields["Mutation"] = MutationFields
         /\ \A m \in DOMAIN MutationFields : MutationFields[m].type \notin {"Query",
              "Mutation"}
    BY DEF Fields, MutationFields
  <1>23. DOMAIN Fields = {"Query", "Mutation", "Viewer", "User", "Timestamp",
       "SignOutPayload", "AdminQuery", "AdminMutation", "UsersConnection", "AdminUser",
       "AdminsConnection", "Admin", "AuditLogConnection", "PageInfo", "AuditLogEntry",
       "BanUserPayload", "UnbanUserPayload", "MakeAdminPayload", "RemoveAdminPayload",
       "ErrorPayload", "FieldMessage"}
    BY DEF Fields
  <1>. HIDE DEF Plainly
  <1>24. \A u \in DOMAIN Fields \ {"Mutation"} : Plainly(Fields[u])
    BY <1>1, <1>2, <1>3, <1>4, <1>5, <1>6, <1>7, <1>8, <1>9, <1>10, <1>11, <1>12, <1>13,
       <1>14, <1>15, <1>16, <1>17, <1>18, <1>19, <1>20, <1>23
  <1>. QED BY <1>21, <1>22, <1>24 DEF Plainly

LEMMA UnionMembers ==
    \A u \in DOMAIN Unions : \A m \in {"payload", "refusal"} :
        Unions[u][m] \notin {"Query", "Mutation", "AdminMutation"}
  BY DEF Unions, BanUserOrErrorPayload, UnbanUserOrErrorPayload, MakeAdminOrErrorPayload,
         RemoveAdminOrErrorPayload

-----------------------------------------------------------------------------
\* The paths.

LEMMA PathsAreSequences ==
    ASSUME Shape, NEW p \in Selected
    PROVE  p \in Seq(STRING) /\ (p # <<>> => Front(p) \in Selected)
  <1>1. doc.paths \in Seq(Seq(STRING) \ {<<>>})
    BY DocumentsAssumption DEF Shape
  <1>2. \A q \in ToSet(doc.paths) : q \in Seq(STRING)
    BY <1>1 DEF ToSet
  <1>3. <<>> \in Seq(STRING)
    OBVIOUS
  <1>4. Front(p) \in Selected
    BY DocumentsAssumption DEF Shape, Selected
  <1>. QED BY <1>2, <1>3, <1>4 DEF Selected, Paths

LEMMA FrontOf ==
    ASSUME NEW p \in Seq(STRING), p # <<>>
    PROVE  /\ Len(p) \in Nat \ {0}
           /\ Front(p) \in Seq(STRING) /\ Len(Front(p)) = Len(p) - 1
           /\ \A i \in 1 .. Len(p) - 1 : Front(p)[i] = p[i]
  <1>1. Len(p) \in Nat \ {0} /\ \A i \in 1 .. Len(p) : p[i] \in STRING
    BY EmptySeq
  <1>. DEFINE n == Len(p) - 1
  <1>2. n \in Int /\ n >= 0 /\ \A i \in 1 .. n : p[i] \in STRING
    BY <1>1
  <1>3. Front(p) = SubSeq(p, 1, n)
    BY DEF Front
  <1>. HIDE DEF n
  <1>4. /\ SubSeq(p, 1, n) \in Seq(STRING)
        /\ Len(SubSeq(p, 1, n)) = IF 1 <= n THEN n - 1 + 1 ELSE 0
        /\ \A i \in 1 .. n - 1 + 1 : SubSeq(p, 1, n)[i] = p[1 + i - 1]
    BY <1>2, SubSeqProperties
  <1>5. \A i \in 1 .. n : SubSeq(p, 1, n)[i] = p[i]
    BY <1>2, <1>4
  <1>6. Len(SubSeq(p, 1, n)) = n
    BY <1>2, <1>4
  <1>. QED BY <1>1, <1>3, <1>4, <1>5, <1>6 DEF n

\* What is below a field is below the field around it.
LEMMA FrontIsPrefix ==
    ASSUME NEW p \in Seq(STRING), p # <<>>, NEW q \in Seq(STRING), IsPrefix(p, q)
    PROVE  IsPrefix(Front(p), q)
  <1>. DEFINE n == Len(p) - 1
  <1>1. n \in Nat /\ n < Len(p) /\ Len(p) <= Len(q)
    BY DEF IsPrefix
  <1>2. \A i \in 1 .. Len(p) : p[i] = q[i]
    <2>1. SubSeq(p, 1, Len(p)) = SubSeq(q, 1, Len(p))
      BY DEF IsPrefix
    <2>2. \A i \in 1 .. Len(p) : SubSeq(p, 1, Len(p))[i] = p[i] /\ SubSeq(q, 1, Len(p))[i]
         = q[i]
      BY <1>1
    <2>. QED BY <2>1, <2>2
  <1>3. /\ Front(p) \in Seq(STRING) /\ Len(Front(p)) = n
        /\ \A i \in 1 .. n : Front(p)[i] = p[i]
    BY <1>1, FrontOf
  <1>4. SubSeq(Front(p), 1, n) = SubSeq(q, 1, n)
    <2>1. /\ SubSeq(Front(p), 1, n) \in Seq(STRING) /\ SubSeq(q, 1, n) \in Seq(STRING)
          /\ Len(SubSeq(Front(p), 1, n)) = n /\ Len(SubSeq(q, 1, n)) = n
          /\ \A i \in 1 .. n : SubSeq(Front(p), 1, n)[i] = Front(p)[i] /\ SubSeq(q, 1,
               n)[i] = q[i]
      BY <1>1, <1>3
    <2>2. \A i \in 1 .. n : SubSeq(Front(p), 1, n)[i] = SubSeq(q, 1, n)[i]
      BY <1>1, <1>2, <1>3, <2>1
    <2>. HIDE DEF n
    <2>. QED BY <2>1, <2>2, SeqEqual
  <1>. QED BY <1>1, <1>3, <1>4 DEF IsPrefix

LEMMA IsPrefixOfItself == \A p \in Seq(STRING) : IsPrefix(p, p)
  BY DEF IsPrefix

\* The field of the root that a field stands under.
LEMMA RootOf ==
    ASSUME NEW p \in Seq(STRING), p # <<>>
    PROVE  /\ Front(p) = <<>> => SubSeq(p, 1, 1) = p /\ Len(p) = 1
           /\ Front(p) # <<>> /\ Front(Front(p)) = <<>> => SubSeq(p, 1, 1) = Front(p)
           /\ Len(p) = 2 => Front(p) # <<>> /\ Front(Front(p)) = <<>>
  <1>1. Len(p) \in Nat \ {0} /\ Front(p) \in Seq(STRING) /\ Len(Front(p)) = Len(p) - 1
    BY FrontOf
  <1>2. Front(p) # <<>> => Len(Front(Front(p))) = Len(p) - 2
    BY <1>1, FrontOf
  <1>3. Front(p) = <<>> => Len(p) = 1
    BY <1>1
  <1>4. Front(p) # <<>> /\ Front(Front(p)) = <<>> => Len(p) = 2
    BY <1>1, <1>2
  <1>5. Len(p) = 2 => Front(p) # <<>> /\ Front(Front(p)) = <<>>
    <2>. SUFFICES ASSUME Len(p) = 2 PROVE Front(p) # <<>> /\ Front(Front(p)) = <<>>
      OBVIOUS
    <2>1. Len(Front(p)) = 1
      BY <1>1
    <2>2. Front(Front(p)) \in Seq(STRING) /\ Len(Front(Front(p))) = 0
      BY <1>1, <2>1, FrontOf
    <2>. QED BY <2>1, <2>2
  <1>6. Len(p) = 1 => SubSeq(p, 1, 1) = p
    <2>1. SubSeq(p, 1, Len(p)) = p
      BY SubSeqFull
    <2>. QED BY <2>1
  <1>7. Len(p) = 2 => SubSeq(p, 1, 1) = Front(p)
    <2>1. Len(p) = 2 => Len(p) - 1 = 1
      OBVIOUS
    <2>. QED BY <2>1, Zenon DEF Front
  <1>. QED BY <1>3, <1>4, <1>5, <1>6, <1>7

-----------------------------------------------------------------------------
\* The walk.

\* Fields are reached from the root: one that started stands in an object that
\* selects it, and what an object selects is complete before the object is.
Grown ==
    /\ \A p \in Selected : state[p] = "waiting" => object[p] = None
    /\ \A p \in Selected \ {<<>>} : state[p] # "waiting" => p \in Collected(Front(p))
    /\ \A p \in Selected : Done(p) => \A q \in Collected(p) : Done(q)
    /\ phase = "received" => \A p \in Selected : state[p] = "waiting"
    /\ phase = "answered" => state[<<>>] # "open"

\* An object is of its field's type, or one of the union's.
Placed ==
    /\ object[<<>>] \in {RootType(doc), None}
    /\ \A p \in Selected \ {<<>>} :
          object[p] # None =>
             \/ object[p] = FieldOf(p).type
             \/ /\ FieldOf(p).type \in DOMAIN Unions
                /\ \E m \in {"payload", "refusal"} : object[p] = Unions[FieldOf(p).type][m]

\* What was written is valid, and what is null has its reason.
Explained ==
    /\ \A p \in Selected : state[p] = "value" => ~Invalid(p)
    /\ NullsExplained

\* A root field of a mutation starts when those above it are complete.
InTurn ==
    object[<<>>] = "Mutation" =>
        \A p \in Collected(<<>>) : state[p] # "waiting" =>
            \A q \in Collected(<<>>) : Precedes(q, p) => Done(q)

\* A command that started has run, once.
Promised ==
    /\ \A i, j \in DOMAIN ran : ran[i].path = ran[j].path => i = j
    /\ \A p \in Selected \ {<<>>} :
          Above(p) = "AdminMutation" /\ state[p] # "waiting" /\ ~ArgumentsFail(p)
              => \E i \in DOMAIN ran : ran[i].path = p

WInv == GInv /\ Grown /\ Placed /\ Explained /\ InTurn /\ Promised

\* A field's function is called: its value is there, or it is null.
Starts(p) ==
    /\ Runnable(p) /\ UNCHANGED <<context, phase>>
    /\ \/ /\ errors' = errors
          /\ \/ Open(p, FieldOf(p).type) \/ Open(p, None)
             \/ /\ FieldOf(p).type \in DOMAIN Unions
                /\ \E m \in {"payload", "refusal"} : Open(p, Unions[FieldOf(p).type][m])
       \/ /\ Null(p)
          /\ (errors' = errors /\ ~FieldOf(p).required) \/ \E cause : AddError(p, cause)

LEMMA StepStarts ==
    ASSUME NEW p \in Selected, FieldStep(p)
    PROVE  Starts(p) \/ Complete(p)
  <1>1. CheckAdmin(p) => Starts(p)
    BY DEF CheckAdmin, Starts
  <1>2. RefuseArguments(p) => Starts(p)
    BY DEF RefuseArguments, Starts
  <1>3. RunCommand(p) => Starts(p)
    BY DEF RunCommand, Starts
  <1>4. SignOut(p) => Starts(p)
    BY DEF SignOut, Starts
  <1>5. Read(p) => Starts(p)
    BY DEF Read, Starts
  <1>. QED BY <1>1, <1>2, <1>3, <1>4, <1>5 DEF FieldStep

LEMMA StartEffect ==
    ASSUME WInv, NEW p \in Selected, Starts(p)
    PROVE  /\ p # <<>> /\ Front(p) \in Selected \ {p} /\ p \in Collected(Front(p))
           /\ state[p] = "waiting" /\ object[p] = None /\ Collected(p) = {}
           /\ phase = "running" /\ UNCHANGED <<context, phase>>
           /\ state'[p] # "waiting" /\ (object'[p] # None => state'[p] = "open")
           /\ \A q \in Selected \ {p} : state'[q] = state[q] /\ object'[q] = object[q]
           /\ Selected' = Selected
           /\ \A q \in Selected \ {p} : Collected(q)' = Collected(q)
           /\ errors \subseteq errors'
  <1>1. /\ p # <<>> /\ Front(p) \in Selected /\ state[p] = "waiting" /\ phase = "running"
        /\ state[Front(p)] = "open" /\ p \in Collected(Front(p))
    BY RunnableWhere DEF WInv, GInv, Starts, Runnable
  <1>2. object[p] = None
    BY <1>1 DEF WInv, Grown
  <1>3. /\ state'[p] # "waiting" /\ (object'[p] # None => state'[p] = "open")
        /\ \A q \in Selected \ {p} : state'[q] = state[q] /\ object'[q] = object[q]
    <2>1. ASSUME NEW type, Open(p, type)
          PROVE  /\ state'[p] # "waiting" /\ (object'[p] # None => state'[p] = "open")
                 /\ \A q \in Selected \ {p} : state'[q] = state[q] /\ object'[q] = object[q]
      BY <2>1 DEF Open, WInv, GInv, Shape
    <2>2. CASE Null(p)
      BY <2>2, <1>2, NullEffect DEF WInv, GInv
    <2>. QED BY <2>1, <2>2 DEF Starts
  <1>4. UNCHANGED <<context, phase>> /\ errors \subseteq errors'
    BY DEF Starts, AddError
  <1>5. Selected' = Selected
    BY <1>4 DEF Selected, context
  <1>6. \A q \in Selected \ {p} : Collected(q)' = Collected(q)
    BY <1>3, <1>5 DEF Collected, Under, Name
  <1>7. Collected(p) = {}
    BY <1>2 DEF Collected
  <1>. QED BY <1>1, <1>2, <1>3, <1>4, <1>5, <1>6, <1>7

LEMMA CompleteEffect ==
    ASSUME WInv, NEW p \in Selected, Complete(p)
    PROVE  /\ state[p] = "open" /\ phase = "running"
           /\ state'[p] = IF Invalid(p) THEN "null" ELSE "value"
           /\ \A q \in Selected \ {p} : state'[q] = state[q]
           /\ \A q \in Collected(p) : Done(q) /\ q # p
           /\ UNCHANGED <<context, object, errors, ran>>
           /\ Selected' = Selected
           /\ \A q \in Selected : Collected(q)' = Collected(q)
           /\ phase' = IF p = <<>> THEN "answered" ELSE phase
  <1>1. /\ state[p] = "open" /\ phase = "running"
        /\ state'[p] = IF Invalid(p) THEN "null" ELSE "value"
        /\ \A q \in Selected \ {p} : state'[q] = state[q]
        /\ \A q \in Collected(p) : Done(q)
        /\ UNCHANGED <<context, object, errors, ran>>
        /\ phase' = IF p = <<>> THEN "answered" ELSE phase
    BY DEF Complete, WInv, GInv, Shape
  <1>2. \A q \in Collected(p) : q # p
    BY <1>1 DEF Done
  <1>3. Selected' = Selected
    BY <1>1 DEF Selected, context
  <1>4. \A q \in Selected : Collected(q)' = Collected(q)
    BY <1>1, <1>3 DEF Collected, Under, Name
  <1>. QED BY <1>1, <1>2, <1>3, <1>4

LEMMA ExecuteEffect ==
    ASSUME WInv, Execute
    PROVE  /\ \A q \in Selected : state[q] = "waiting" /\ object[q] = None
           /\ \A q \in Selected \ {<<>>} : state'[q] = state[q] /\ object'[q] = object[q]
           /\ object'[<<>>] \in {RootType(doc), None}
           /\ UNCHANGED <<context, ran>> /\ Selected' = Selected
           /\ \/ phase' = "answered" /\ state' = state
              \/ phase' = "running" /\ state'[<<>>] = "open"
  <1>1. \A q \in Selected : state[q] = "waiting" /\ object[q] = None
    BY DEF Execute, WInv, Grown
  <1>2. UNCHANGED <<context, ran>> /\ Selected' = Selected
    BY DEF Execute, Selected, context
  <1>3. RootType(doc) \in DOMAIN Objects
    BY DEF RootType, Objects
  <1>4. CASE Open(<<>>, RootType(doc)) /\ phase' = "running"
    BY <1>1, <1>2, <1>3, <1>4, RootSelected DEF Open, WInv, GInv, Shape
  <1>5. CASE UNCHANGED <<state, object>> /\ phase' = "answered"
    <2>1. state' = state /\ object' = object
      BY <1>5
    <2>2. object'[<<>>] = None
      BY <1>1, <2>1, RootSelected
    <2>3. \A q \in Selected \ {<<>>} : state'[q] = state[q] /\ object'[q] = object[q]
      BY <2>1
    <2>. QED BY <1>1, <1>2, <1>5, <2>1, <2>2, <2>3, Zenon
  <1>. QED BY <1>4, <1>5 DEF Execute

LEMMA CollectedSelected == \A p : \A q \in Collected(p) : q \in Selected \ {<<>>} /\
     Front(q) = p
  BY DEF Collected, Under

LEMMA GrownKeeps ==
    ASSUME WInv, GNext
    PROVE  Grown'
  <1>. USE CollectedSelected, RootSelected
  <1>1. ASSUME NEW p \in Selected, Starts(p)
        PROVE  Grown'
    <2>. DEFINE G1 == \A q \in Selected : state'[q] = "waiting" => object'[q] = None
                G2 == \A q \in Selected \ {<<>>} :
                         state'[q] # "waiting" => q \in Collected(Front(q))'
                G3 == \A q \in Selected : Done(q)' => \A r \in Collected(q)' : Done(r)'
    <2>1. G1
      BY <1>1, StartEffect DEF WInv, Grown
    <2>2. G2
      <3>. SUFFICES ASSUME NEW q \in Selected \ {<<>>}, state'[q] # "waiting"
                    PROVE  q \in Collected(Front(q))'
        OBVIOUS
      <3>1. Front(q) \in Selected
        BY PathsAreSequences DEF WInv, GInv
      <3>2. q \in Collected(Front(q)) /\ Front(q) # p
        BY <1>1, StartEffect DEF WInv, Grown
      <3>. QED BY <1>1, <3>1, <3>2, StartEffect
    <2>3. G3
      <3>. SUFFICES ASSUME NEW q \in Selected, Done(q)', NEW r \in Collected(q)'
                    PROVE  Done(r)'
        OBVIOUS
      <3>1. q # p
        <4>1. q = p => object'[p] = None
          BY <1>1, StartEffect DEF Done
        <4>. QED BY <4>1 DEF Collected
      <3>2. r \in Collected(q) /\ Done(q) /\ r \in Selected
        BY <1>1, <3>1, StartEffect DEF Done
      <3>3. Done(r) /\ r # p
        BY <1>1, <3>2, StartEffect DEF WInv, Grown, Done
      <3>. QED BY <1>1, <3>2, <3>3, StartEffect DEF Done
    <2>. HIDE DEF G1, G2, G3
    <2>4. phase' = "running" /\ Selected' = Selected
      BY <1>1, StartEffect
    <2>. QED BY <2>1, <2>2, <2>3, <2>4 DEF Grown, G1, G2, G3
  <1>2. ASSUME NEW p \in Selected, Complete(p)
        PROVE  Grown'
    <2>1. \A q \in Selected : state'[q] = "waiting" => object'[q] = None
      BY <1>2, CompleteEffect DEF WInv, Grown
    <2>2. \A q \in Selected \ {<<>>} : state'[q] # "waiting" => q \in Collected(Front(q))'
      <3>. SUFFICES ASSUME NEW q \in Selected \ {<<>>}, state'[q] # "waiting"
                    PROVE  q \in Collected(Front(q))'
        OBVIOUS
      <3>1. Front(q) \in Selected
        BY PathsAreSequences DEF WInv, GInv
      <3>. QED BY <1>2, <3>1, CompleteEffect DEF WInv, Grown
    <2>3. \A q \in Selected : Done(q) => Done(q)'
      BY <1>2, CompleteEffect DEF Done
    <2>4. \A q \in Selected : Done(q)' => \A r \in Collected(q)' : Done(r)'
      <3>. SUFFICES ASSUME NEW q \in Selected, Done(q)', NEW r \in Collected(q)'
                    PROVE  Done(r)'
        OBVIOUS
      <3>1. r \in Collected(q) /\ r \in Selected
        BY <1>2, CompleteEffect
      <3>2. Done(r)
        BY <1>2, <3>1, CompleteEffect DEF Done, WInv, Grown
      <3>. QED BY <2>3, <3>1, <3>2
    <2>5. phase' # "received" /\ (phase' = "answered" => state'[<<>>] # "open")
      BY <1>2, CompleteEffect
    <2>6. Selected' = Selected
      BY <1>2, CompleteEffect
    <2>. HIDE DEF Done, Collected
    <2>. QED BY <2>1, <2>2, <2>4, <2>5, <2>6 DEF Grown
  <1>3. CASE Execute
    <2>1. \A q \in Selected \ {<<>>} : state'[q] = "waiting" /\ object'[q] = None
      BY <1>3, ExecuteEffect
    <2>2. ~Done(<<>>)' /\ \A q \in Selected : ~Done(q)'
      BY <1>3, <2>1, ExecuteEffect DEF Done
    <2>3. state'[<<>>] = "waiting" => object'[<<>>] = None
      BY <1>3, ExecuteEffect DEF Execute, Open
    <2>4. phase' # "received" /\ (phase' = "answered" => state'[<<>>] # "open") /\
         Selected' = Selected
      BY <1>3, ExecuteEffect
    <2>. QED BY <2>1, <2>2, <2>3, <2>4 DEF Grown
  <1>. QED BY <1>1, <1>2, <1>3, StepStarts DEF GNext

LEMMA PlacedKeeps ==
    ASSUME WInv, GNext
    PROVE  Placed'
  <1>. USE RootSelected
  <1>. DEFINE Fits(q) ==
         \/ object[q] = FieldOf(q).type
         \/ /\ FieldOf(q).type \in DOMAIN Unions
            /\ \E m \in {"payload", "refusal"} : object[q] = Unions[FieldOf(q).type][m]
  <1>1. ASSUME NEW p \in Selected, Starts(p)
        PROVE  Placed'
    <2>1. \A q \in Selected \ {<<>>} : object'[q] # None => FieldOf(q)' = FieldOf(q)
      <3>. SUFFICES ASSUME NEW q \in Selected \ {<<>>}, object'[q] # None
                    PROVE  FieldOf(q)' = FieldOf(q)
        OBVIOUS
      <3>1. Front(q) \in Selected /\ Front(q) # p
        <4>1. q # p => q \in Collected(Front(q))
          BY <1>1, StartEffect DEF WInv, Grown
        <4>. QED BY <1>1, <4>1, StartEffect, PathsAreSequences DEF WInv, GInv
      <3>. QED BY <1>1, <3>1, StartEffect DEF FieldOf, Above, Name
    <2>2. object'[p] = None \/ object'[p] = FieldOf(p).type
             \/ /\ FieldOf(p).type \in DOMAIN Unions
                /\ \E m \in {"payload", "refusal"} : object'[p] = Unions[FieldOf(p).type][m]
      <3>1. \A t : Open(p, t) => object'[p] \in {t, None}
        BY OpenEffect DEF WInv, GInv
      <3>2. Null(p) => object'[p] = None
        BY <1>1, StartEffect, NullEffect DEF WInv, GInv
      <3>. QED BY <1>1, <3>1, <3>2 DEF Starts
    <2>3. \A q \in Selected \ {<<>>} : object'[q] # None => Fits(q)'
      <3>. SUFFICES ASSUME NEW q \in Selected \ {<<>>}, object'[q] # None
                    PROVE  Fits(q)'
        OBVIOUS
      <3>1. CASE q = p
        BY <2>1, <2>2, <3>1
      <3>2. CASE q # p
        <4>1. object'[q] = object[q] /\ object[q] # None
          BY <1>1, <3>2, StartEffect
        <4>. QED BY <2>1, <4>1 DEF WInv, Placed
      <3>. QED BY <3>1, <3>2
    <2>4. object'[<<>>] = object[<<>>] /\ Selected' = Selected /\ RootType(doc)' =
         RootType(doc)
      BY <1>1, StartEffect DEF RootType, context
    <2>. QED BY <2>3, <2>4 DEF WInv, Placed
  <1>2. ASSUME NEW p \in Selected, Complete(p)
        PROVE  Placed'
    BY <1>2, CompleteEffect DEF WInv, Placed, context, RootType, FieldOf, Above, Name
  <1>3. CASE Execute
    <2>1. \A q \in Selected \ {<<>>} : object'[q] = None
      BY <1>3, ExecuteEffect
    <2>2. object'[<<>>] \in {RootType(doc), None} /\ Selected' = Selected /\ doc' = doc
      BY <1>3, ExecuteEffect DEF context
    <2>. QED BY <2>1, <2>2 DEF Placed, RootType
  <1>. QED BY <1>1, <1>2, <1>3, StepStarts DEF GNext

\* A field that is selected where it stands counts if it is required.
LEMMA CountedHere ==
    ASSUME WInv, NEW p \in Selected, NEW q \in Collected(p)
    PROVE  Name(q) \in Objects[object[p]].counted <=> FieldOf(q).required
  <1>1. Front(q) = p /\ object[p] # None /\ Name(q) \in DOMAIN Fields[object[p]]
    BY DEF Collected, Under
  <1>2. object[p] \in DOMAIN Fields
    BY <1>1, SameTypes DEF WInv, GInv, Shape, Kinds
  <1>. QED BY <1>1, <1>2, CountedAreRequired DEF CountsRequired, FieldOf, Above

\* A null has its error at p or below.
Reason(p) == \E e \in errors : IsPrefix(p, e.path)

LEMMA AddedReason ==
    ASSUME WInv, NEW p \in Selected, NEW cause, AddError(p, cause)
    PROVE  Reason(p)'
  <1>. DEFINE new == [path |-> p, text |-> Present(cause)]
  <1>1. new \in errors' /\ new.path = p
    BY DEF AddError
  <1>2. IsPrefix(p, p)
    BY PathsAreSequences, IsPrefixOfItself DEF WInv, GInv
  <1>. HIDE DEF new
  <1>. QED BY <1>1, <1>2 DEF Reason

LEMMA ExplainedKeeps ==
    ASSUME WInv, GNext
    PROVE  Explained'
  <1>. USE CollectedSelected, RootSelected
  <1>1. ASSUME NEW p \in Selected, Starts(p)
        PROVE  Explained'
    <2>1. \A q \in Selected : state'[q] = "value" => ~Invalid(q)'
      <3>. SUFFICES ASSUME NEW q \in Selected, state'[q] = "value" PROVE ~Invalid(q)'
        OBVIOUS
      <3>1. q # p
        => /\ Collected(q)' = Collected(q) /\ object'[q] = object[q]
           /\ \A r \in Collected(q) : state'[r] = state[r]
        <4>. SUFFICES ASSUME q # p
                      PROVE  /\ Collected(q)' = Collected(q) /\ object'[q] = object[q]
                             /\ \A r \in Collected(q) : state'[r] = state[r]
          OBVIOUS
        <4>1. Collected(q)' = Collected(q) /\ object'[q] = object[q] /\ state[q] = "value"
          BY <1>1, StartEffect
        <4>2. \A r \in Collected(q) : r \in Selected /\ r # p
          BY <1>1, <4>1, StartEffect DEF WInv, Grown, Done
        <4>. QED BY <1>1, <4>1, <4>2, StartEffect
      <3>2. CASE q = p
        <4>1. object'[p] = None
          BY <1>1, <3>2, StartEffect
        <4>. QED BY <3>2, <4>1 DEF Invalid, Collected
      <3>3. CASE q # p
        <4>1. ~Invalid(q)
          BY <1>1, <3>3, StartEffect DEF WInv, Explained
        <4>. QED BY <3>1, <3>3, <4>1 DEF Invalid, Name
      <3>. QED BY <3>2, <3>3
    <2>2. ASSUME NEW q \in Selected, state'[q] = "null", q = <<>> \/ FieldOf(q).required'
          PROVE  Reason(q)'
      <3>1. CASE q = p
        <4>1. Front(p) # p /\ Front(p) \in Selected /\ p # <<>>
          BY <1>1, StartEffect
        <4>2. FieldOf(p)' = FieldOf(p)
          BY <1>1, <4>1, StartEffect DEF FieldOf, Above, Name
        <4>3. PICK cause : AddError(p, cause)
          <5>1. ASSUME NEW t, Open(p, t) PROVE state'[p] # "null"
            BY <5>1 DEF Open, WInv, GInv, Shape
          <5>. QED BY <1>1, <2>2, <3>1, <4>1, <4>2, <5>1 DEF Starts
        <4>. QED BY <3>1, <4>3, AddedReason
      <3>2. CASE q # p
        <4>1. state[q] = "null"
          BY <1>1, <2>2, <3>2, StartEffect
        <4>2. q # <<>> => Front(q) \in Selected /\ Front(q) # p
          BY <1>1, <4>1, StartEffect, PathsAreSequences DEF WInv, GInv, Grown
        <4>3. q # <<>> => FieldOf(q)' = FieldOf(q)
          BY <1>1, <4>2, StartEffect DEF FieldOf, Above, Name
        <4>4. Reason(q)
          BY <2>2, <4>1, <4>3 DEF WInv, Explained, NullsExplained, Reason
        <4>. QED BY <1>1, <4>4, StartEffect DEF Reason
      <3>. QED BY <3>1, <3>2
    <2>3. Selected' = Selected
      BY <1>1, StartEffect
    <2>. QED BY <2>1, <2>2, <2>3 DEF Explained, NullsExplained, Reason
  <1>2. ASSUME NEW p \in Selected, Complete(p)
        PROVE  Explained'
    <2>1. \A q \in Selected : Done(q) => \A r \in Collected(q) : r # p
      BY <1>2, CompleteEffect DEF WInv, Grown, Done
    <2>2. \A q \in Selected : q = p \/ state[q] = "value" => (Invalid(q)' <=> Invalid(q))
      <3>. SUFFICES ASSUME NEW q \in Selected, q = p \/ state[q] = "value"
                    PROVE  Invalid(q)' <=> Invalid(q)
        OBVIOUS
      <3>1. \A r \in Collected(q) : r \in Selected /\ r # p
        BY <1>2, <2>1, CompleteEffect DEF Done
      <3>2. Collected(q)' = Collected(q) /\ object' = object /\ \A r \in Collected(q) :
           state'[r] = state[r]
        BY <1>2, <3>1, CompleteEffect
      <3>. QED BY <3>2 DEF Invalid, Name
    <2>3. \A q \in Selected : state'[q] = "value" => ~Invalid(q)'
      BY <1>2, <2>2, CompleteEffect DEF WInv, Explained
    <2>4. \A q \in Selected : FieldOf(q)' = FieldOf(q) /\ (Reason(q)' <=> Reason(q))
      BY <1>2, CompleteEffect DEF FieldOf, Above, Name, Reason
    <2>5. Invalid(p) => Reason(p)
      <3>. SUFFICES ASSUME Invalid(p) PROVE Reason(p)
        OBVIOUS
      <3>1. PICK q \in Collected(p) : state[q] = "null" /\ Name(q) \in
           Objects[object[p]].counted
        BY DEF Invalid
      <3>2. q \in Selected \ {<<>>} /\ Front(q) = p /\ FieldOf(q).required
        BY <3>1, CountedHere
      <3>3. PICK e \in errors : IsPrefix(q, e.path)
        BY <3>1, <3>2 DEF WInv, Explained, NullsExplained
      <3>4. e.path \in Seq(STRING) /\ q \in Seq(STRING)
        BY <3>2, PathsAreSequences DEF WInv, GInv, Shape
      <3>. QED BY <3>2, <3>3, <3>4, FrontIsPrefix DEF Reason
    <2>6. \A q \in Selected :
             state'[q] = "null" /\ (q = <<>> \/ FieldOf(q).required) => Reason(q)
      BY <1>2, <2>5, CompleteEffect DEF WInv, Explained, NullsExplained, Reason
    <2>7. Selected' = Selected
      BY <1>2, CompleteEffect
    <2>. HIDE DEF Reason
    <2>. QED BY <2>3, <2>4, <2>6, <2>7 DEF Explained, NullsExplained, Reason
  <1>3. CASE Execute
    <2>1. \A q \in Selected : state'[q] \in {"waiting", "open"}
      BY <1>3, ExecuteEffect
    <2>. QED BY <1>3, <2>1, ExecuteEffect DEF Explained, NullsExplained
  <1>. QED BY <1>1, <1>2, <1>3, StepStarts DEF GNext

LEMMA InTurnKeeps ==
    ASSUME WInv, GNext
    PROVE  InTurn'
  <1>. USE CollectedSelected, RootSelected
  <1>1. ASSUME NEW p \in Selected, Starts(p)
        PROVE  InTurn'
    <2>1. Collected(<<>>)' = Collected(<<>>) /\ object'[<<>>] = object[<<>>]
      BY <1>1, StartEffect
    <2>2. \A q, r : Precedes(q, r)' <=> Precedes(q, r)
      BY <1>1, StartEffect DEF Precedes, context
    <2>3. \A q \in Selected : Done(q) => Done(q)'
      BY <1>1, StartEffect DEF Done
    <2>4. ASSUME object[<<>>] = "Mutation", NEW q \in Collected(<<>>), state'[q] #
         "waiting",
                 NEW r \in Collected(<<>>), Precedes(r, q)
          PROVE  Done(r)
      <3>1. CASE q = p
        <4>1. Runnable(p) /\ Above(p) = "Mutation" /\ Front(p) = <<>>
          BY <1>1, <2>4, <3>1 DEF Starts, Above
        <4>2. Objects["Mutation"].together = {}
          BY DEF Objects, MutationObject, Inline
        <4>. QED BY <2>4, <3>1, <4>1, <4>2 DEF Runnable
      <3>2. CASE q # p
        BY <1>1, <2>4, <3>2, StartEffect DEF WInv, InTurn
      <3>. QED BY <3>1, <3>2
    <2>. HIDE DEF Done, Collected, Precedes
    <2>. QED BY <2>1, <2>2, <2>3, <2>4 DEF InTurn
  <1>2. ASSUME NEW p \in Selected, Complete(p)
        PROVE  InTurn'
    <2>1. Collected(<<>>)' = Collected(<<>>) /\ object'[<<>>] = object[<<>>]
      BY <1>2, CompleteEffect
    <2>2. \A q, r : Precedes(q, r)' <=> Precedes(q, r)
      BY <1>2, CompleteEffect DEF Precedes, context
    <2>3. \A q \in Selected : (Done(q) => Done(q)') /\ (state[q] = "waiting" => state'[q]
         = "waiting")
      BY <1>2, CompleteEffect DEF Done
    <2>. HIDE DEF Done, Collected, Precedes
    <2>. QED BY <2>1, <2>2, <2>3 DEF InTurn, WInv
  <1>3. CASE Execute
    <2>1. \A q \in Selected \ {<<>>} : state'[q] = "waiting"
      BY <1>3, ExecuteEffect
    <2>2. \A q \in Collected(<<>>)' : q \in Selected \ {<<>>}
      BY <1>3, ExecuteEffect DEF Collected, Under
    <2>. QED BY <2>1, <2>2 DEF InTurn
  <1>. QED BY <1>1, <1>2, <1>3, StepStarts DEF GNext

\* Every field of the mutation namespace is a command, and runs as one.
LEMMA CommandRuns ==
    ASSUME WInv, NEW p \in Selected, FieldStep(p), Starts(p), Above(p) = "AdminMutation"
    PROVE  RunCommand(p) \/ ArgumentsFail(p)
  <1>1. Name(p) \in DOMAIN Fields["AdminMutation"] /\ "AdminMutation" \in DOMAIN Fields
    BY RunnableWhere DEF WInv, GInv, Starts
  <1>2. FieldOf(p).type \in DOMAIN Unions
    BY <1>1, WhoLeads DEF FieldOf
  <1>3. FieldOf(p).type \notin Namespaces /\ FieldOf(p).type # "SignOutPayload"
    BY <1>2, UnionNames DEF Namespaces
  <1>4. ~Complete(p)
    BY StartEffect, CompleteEffect
  <1>. QED BY <1>2, <1>3, <1>4
       DEF FieldStep, CheckAdmin, RefuseArguments, SignOut, Read

\* At most one call is entered, and only at the field that starts.
LEMMA CallsOnce ==
    ASSUME WInv, NEW p \in Selected, FieldStep(p), Starts(p)
    PROVE  \/ ran' = ran /\ ~RunCommand(p)
           \/ \E o \in {"payload", "refusal", "failure"} :
                 ran' = Append(ran, [path |-> p, outcome |-> o])
  BY StartEffect, CompleteEffect
  DEF FieldStep, CheckAdmin, RefuseArguments, RunCommand, SignOut, Read, Starts

LEMMA PromisedKeeps ==
    ASSUME WInv, GNext
    PROVE  Promised'
  <1>. USE RootSelected
  <1>0. \A i \in DOMAIN ran : ran[i].path \in Selected /\ state[ran[i].path] # "waiting"
    <2>1. ran \in Seq(Calls)
      BY DEF WInv, GInv, Shape
    <2>2. \A i \in DOMAIN ran : ran[i] \in Calls
      BY <2>1
    <2>. QED BY <2>2 DEF Calls, WInv, GInv, Once
  <1>1. ASSUME NEW p \in Selected, FieldStep(p), Starts(p)
        PROVE  Promised'
    <2>1. /\ \A i, j \in DOMAIN ran' : ran'[i].path = ran'[j].path => i = j
          /\ \A i \in DOMAIN ran : i \in DOMAIN ran' /\ ran'[i] = ran[i]
          /\ (ran' = ran /\ ~RunCommand(p)) \/ \E i \in DOMAIN ran' : ran'[i].path = p
      <3>1. CASE ran' = ran /\ ~RunCommand(p)
        BY <3>1 DEF WInv, Promised
      <3>2. ASSUME NEW o \in {"payload", "refusal", "failure"},
                   ran' = Append(ran, [path |-> p, outcome |-> o])
            PROVE  /\ \A i, j \in DOMAIN ran' : ran'[i].path = ran'[j].path => i = j
                   /\ \A i \in DOMAIN ran : i \in DOMAIN ran' /\ ran'[i] = ran[i]
                   /\ \E i \in DOMAIN ran' : ran'[i].path = p
        <4>. DEFINE call == [path |-> p, outcome |-> o]
        <4>1. ran \in Seq(Calls) /\ call \in Calls /\ call.path = p
          BY <1>1, StartEffect DEF WInv, GInv, Shape, Calls
        <4>. HIDE DEF call
        <4>2. /\ Len(ran') = Len(ran) + 1 /\ Len(ran) \in Nat /\ ran' \in Seq(Calls)
              /\ \A i \in 1 .. Len(ran) : ran'[i] = ran[i]
              /\ ran'[Len(ran) + 1].path = p
          BY <3>2, <4>1 DEF call
        <4>3. DOMAIN ran = 1 .. Len(ran) /\ DOMAIN ran' = 1 .. Len(ran) + 1
          BY <4>1, <4>2
        <4>4. \A i \in 1 .. Len(ran) : ran'[i].path # p
          BY <1>0, <1>1, <4>2, <4>3, StartEffect
        <4>5. ASSUME NEW i \in DOMAIN ran', NEW j \in DOMAIN ran', ran'[i].path =
             ran'[j].path
              PROVE  i = j
          <5>1. CASE i \in 1 .. Len(ran) /\ j \in 1 .. Len(ran)
            BY <4>2, <4>3, <4>5, <5>1 DEF WInv, Promised
          <5>2. CASE i = Len(ran) + 1 \/ j = Len(ran) + 1
            BY <4>2, <4>3, <4>4, <4>5, <5>2
          <5>. QED BY <4>2, <4>3, <5>1, <5>2
        <4>. QED BY <4>2, <4>3, <4>5
      <3>. QED BY <1>1, <3>1, <3>2, CallsOnce
    <2>2. ASSUME NEW q \in Selected \ {<<>>}, Above(q)' = "AdminMutation",
                 state'[q] # "waiting", ~ArgumentsFail(q)'
          PROVE  \E i \in DOMAIN ran' : ran'[i].path = q
      <3>1. Front(q) \in Selected /\ Front(q) # p
        <4>1. q # p => q \in Collected(Front(q))
          BY <1>1, <2>2, StartEffect DEF WInv, Grown
        <4>. QED BY <1>1, <4>1, StartEffect, PathsAreSequences DEF WInv, GInv
      <3>2. Above(q)' = Above(q)
        BY <1>1, <3>1, StartEffect DEF Above
      <3>3. ~ArgumentsFail(q)
        BY <1>1, <2>2, <3>2, StartEffect DEF ArgumentsFail, Name, context
      <3>4. CASE q = p
        BY <1>1, <2>1, <2>2, <3>2, <3>3, <3>4, CommandRuns
      <3>5. CASE q # p
        <4>1. PICK i \in DOMAIN ran : ran[i].path = q
          BY <1>1, <2>2, <3>2, <3>3, <3>5, StartEffect DEF WInv, Promised
        <4>. QED BY <2>1, <4>1
      <3>. QED BY <3>4, <3>5
    <2>3. Selected' = Selected
      BY <1>1, StartEffect
    <2>. QED BY <2>1, <2>2, <2>3 DEF Promised
  <1>2. ASSUME NEW p \in Selected, Complete(p)
        PROVE  Promised'
    <2>1. \A q \in Selected :
             /\ Above(q)' = Above(q) /\ (ArgumentsFail(q)' <=> ArgumentsFail(q))
             /\ state[q] = "waiting" => state'[q] = "waiting"
      BY <1>2, CompleteEffect DEF ArgumentsFail, Above, Name, context
    <2>2. Selected' = Selected /\ ran' = ran
      BY <1>2, CompleteEffect
    <2>. QED BY <2>1, <2>2 DEF WInv, Promised
  <1>3. CASE Execute
    BY <1>3, ExecuteEffect DEF WInv, Promised
  <1>. QED BY <1>1, <1>2, <1>3, StepStarts DEF GNext

LEMMA WalkKeeps == WInv /\ GNext => WInv'
  BY GNextKeeps, GrownKeeps, PlacedKeeps, ExplainedKeeps, InTurnKeeps, PromisedKeeps DEF
     WInv

LEMMA WalkAround ==
    WInv /\ UNCHANGED <<doc, caller, phase, state, object, errors, ran, denials>> => WInv'
  <1>. SUFFICES ASSUME WInv, UNCHANGED <<doc, caller, phase, state, object, errors, ran,
       denials>>
                PROVE  WInv'
    OBVIOUS
  <1>1. GInv'
    BY GInvAround DEF WInv
  <1>2. Selected' = Selected /\ \A p : Collected(p)' = Collected(p)
    BY DEF Selected, Collected, Under, Name
  <1>3. \A p : FieldOf(p)' = FieldOf(p) /\ Above(p)' = Above(p) /\ (Done(p)' <=> Done(p))
    BY DEF FieldOf, Above, Name, Done
  <1>4. \A p : (ArgumentsFail(p)' <=> ArgumentsFail(p)) /\ (Invalid(p)' <=> Invalid(p))
    BY DEF ArgumentsFail, Invalid, Above, Name, Collected, Under, Selected
  <1>5. Grown' /\ Placed'
    BY <1>2, <1>3 DEF WInv, Grown, Placed, RootType
  <1>6. Explained'
    BY <1>2, <1>3, <1>4 DEF WInv, Explained, NullsExplained
  <1>7. InTurn' /\ Promised'
    BY <1>2, <1>3, <1>4 DEF WInv, InTurn, Promised, Precedes
  <1>. QED BY <1>1, <1>5, <1>6, <1>7 DEF WInv

LEMMA WalkInit == Init => WInv
  <1>. SUFFICES ASSUME Init PROVE WInv
    OBVIOUS
  <1>1. /\ \A p \in Selected : state[p] = "waiting" /\ object[p] = None
        /\ phase = "received" /\ ran = <<>>
    BY DEF Init, GInit, Selected
  <1>2. Grown /\ Placed /\ Explained /\ InTurn
    BY <1>1, RootSelected, DocumentsAssumption, CollectedSelected
    DEF Grown, Placed, Explained, NullsExplained, InTurn, Done, Collected
  <1>3. Promised
    BY <1>1 DEF Promised
  <1>. QED BY <1>2, <1>3, HInvInit DEF WInv, HInv

\* Outside of the executor nothing it knows is touched.
LEMMA OutsideLeaves ==
    ASSUME [Next]_vars, ~Executes
    PROVE  UNCHANGED <<doc, caller, phase, state, object, errors, ran, denials>>
  BY DEF Next, vars, gvars, context, execution, IdentityFails, RefuseBanned,
     RefuseStaleToken,
         Refuse, Admit, MethodNotAllowed, RequireIdentity, Healthz, Readyz, Serve, Unusable,
         Graphql, Replied, Answer, Flush

LEMMA WalkNext == WInv /\ [Next]_vars => WInv'
  BY OutsideLeaves, WalkAround, WalkKeeps DEF Executes

LEMMA WalkInvariant == Spec => []WInv
  BY WalkInit, WalkNext, PTL DEF Spec

-----------------------------------------------------------------------------
\* Nothing is null that was promised, unless with an error at it or below it.
THEOREM NullsAreAccounted == Spec => []NullsAccounted
  <1>1. WInv => NullsAccounted
    <2>. SUFFICES ASSUME WInv PROVE NullsAccounted
      OBVIOUS
    <2>1. ASSUME NEW p \in Selected \ {<<>>}, state[p] = "null", state[Front(p)] = "value",
                 p \in Collected(Front(p))
          PROVE  ~FieldOf(p).required
      <3>1. Front(p) \in Selected /\ ~Invalid(Front(p))
        BY <2>1, PathsAreSequences DEF WInv, GInv, Explained
      <3>. QED BY <2>1, <3>1, CountedHere DEF Invalid
    <2>. QED BY <2>1 DEF WInv, Explained, NullsAccounted, NoRequiredNull
  <1>. QED BY <1>1, WalkInvariant, PTL

\* The mutation namespace hangs on the root of a mutation, and on nothing else.
LEMMA NamespaceAtRoot ==
    ASSUME WInv, NEW p \in Selected, object[p] \in {"Mutation", "AdminMutation"}
    PROVE  /\ object[p] = "Mutation" => p = <<>>
           /\ object[p] = "AdminMutation" =>
                 p # <<>> /\ Front(p) = <<>> /\ object[<<>>] = "Mutation" /\ p \in
                      Collected(<<>>)
  <1>1. "Mutation" # None /\ "AdminMutation" # None
    BY DocumentsAssumption DEF Objects
  <1>2. ASSUME NEW q \in Selected \ {<<>>}, object[q] # None
        PROVE  /\ q \in Collected(Front(q)) /\ Front(q) \in Selected
               /\ object[q] # "Mutation"
               /\ object[q] = "AdminMutation" => object[Front(q)] = "Mutation"
    <2>1. q \in Collected(Front(q)) /\ Front(q) \in Selected
      BY <1>2, PathsAreSequences DEF WInv, GInv, Grown, Shape
    <2>2. Above(q) \in DOMAIN Fields /\ Name(q) \in DOMAIN Fields[Above(q)]
      BY <2>1, SameTypes DEF WInv, GInv, Shape, Kinds, Collected, Above
    <2>3. \/ object[q] = FieldOf(q).type
          \/ object[q] \notin {"Query", "Mutation", "AdminMutation"}
      BY <1>2, UnionMembers DEF WInv, Placed
    <2>. QED BY <2>1, <2>2, <2>3, WhoLeads DEF FieldOf, Above
  <1>3. object[<<>>] # "AdminMutation"
    BY <1>1 DEF WInv, Placed, RootType
  <1>4. CASE p = <<>>
    BY <1>3, <1>4
  <1>5. CASE p # <<>>
    <2>1. p \in Selected \ {<<>>} /\ object[p] # None
      BY <1>1, <1>5
    <2>2. Front(p) \in Selected /\ p \in Collected(Front(p))
          /\ object[p] = "AdminMutation" /\ object[Front(p)] = "Mutation"
      BY <1>2, <2>1
    <2>3. Front(p) = <<>>
      BY <1>1, <1>2, <2>2
    <2>. QED BY <1>5, <2>2, <2>3
  <1>. QED BY <1>4, <1>5

\* What a call's root has to wait for.
LEMMA CallsInTurn ==
    ASSUME WInv, NEW p \in Selected, RunCommand(p) \/ SignOut(p),
           NEW q \in Collected(<<>>), Precedes(q, SubSeq(p, 1, 1))
    PROVE  Done(q)
  <1>1. /\ Runnable(p) /\ p # <<>> /\ p \in Seq(STRING) /\ Front(p) \in Selected
        /\ Above(p) \in DOMAIN Fields /\ Name(p) \in DOMAIN Fields[Above(p)]
    BY RunnableWhere, PathsAreSequences DEF WInv, GInv, RunCommand, SignOut
  <1>2. CASE SignOut(p)
    <2>1. object[Front(p)] = "Mutation"
      BY <1>1, <1>2, WhoLeads DEF SignOut, FieldOf, Above
    <2>2. Front(p) = <<>> /\ SubSeq(p, 1, 1) = p
      BY <1>1, <2>1, NamespaceAtRoot, RootOf
    <2>3. Objects["Mutation"].together = {}
      BY DEF Objects, MutationObject, Inline
    <2>. QED BY <1>1, <2>1, <2>2, <2>3 DEF Runnable, Above
  <1>3. CASE RunCommand(p)
    <2>1. object[Front(p)] = "AdminMutation"
      BY <1>1, <1>3, WhoCommands DEF RunCommand, FieldOf, Above
    <2>2. /\ Front(p) # <<>> /\ Front(Front(p)) = <<>> /\ Front(p) \in Collected(<<>>)
          /\ object[<<>>] = "Mutation"
      BY <1>1, <2>1, NamespaceAtRoot
    <2>3. SubSeq(p, 1, 1) = Front(p) /\ state[Front(p)] # "waiting"
      BY <1>1, <2>2, RootOf DEF Runnable
    <2>. QED BY <2>2, <2>3 DEF WInv, InTurn
  <1>. QED BY <1>2, <1>3

\* The roots of a mutation take effect in document order, whatever overlaps below.
THEOREM RootsTakeTurns == Spec => RootsInOrder
  <1>. DEFINE Ordered ==
         Len(ran') > Len(ran) =>
            LET root == SubSeq(Last(ran').path, 1, 1)
            IN  \A q \in Collected(<<>>) : Precedes(q, root) => Done(q)
  <1>1. WInv /\ [Next]_vars => Ordered
    <2>. SUFFICES ASSUME WInv, [Next]_vars PROVE Ordered
      OBVIOUS
    <2>1. Len(ran) \in Nat
      BY DEF WInv, GInv, Shape
    <2>2. CASE ran' = ran
      BY <2>1, <2>2
    <2>3. ASSUME NEW p \in Selected, RunCommand(p) \/ SignOut(p)
          PROVE  Ordered
      <3>1. p \in Selected \ {<<>>}
        BY <2>3, RunnableWhere DEF WInv, GInv, RunCommand, SignOut
      <3>2. PICK o \in {"payload", "refusal", "failure"} :
               ran' = Append(ran, [path |-> p, outcome |-> o])
        BY <2>3 DEF RunCommand, SignOut
      <3>. DEFINE call == [path |-> p, outcome |-> o]
      <3>3. ran \in Seq(Calls) /\ call \in Calls /\ call.path = p
        BY <3>1 DEF WInv, GInv, Shape, Calls
      <3>. HIDE DEF call
      <3>4. Last(ran').path = p
        BY <3>2, <3>3 DEF Last, call
      <3>. QED BY <2>3, <3>4, CallsInTurn
    <2>4. CASE Executes
      <3>1. CASE Execute
        BY <2>2, <3>1 DEF Execute
      <3>2. ASSUME NEW p \in Selected, FieldStep(p)
            PROVE  ran' = ran \/ RunCommand(p) \/ SignOut(p)
        BY <3>2 DEF FieldStep, CheckAdmin, RefuseArguments, Read, Complete
      <3>. QED BY <2>2, <2>3, <2>4, <3>1, <3>2 DEF Executes, GNext
    <2>. QED BY <2>2, <2>4, OutsideLeaves
  <1>2. WInv /\ [Next]_vars => [Ordered]_gvars
    BY <1>1
  <1>. QED BY <1>2, WalkInvariant, PTL DEF Spec, RootsInOrder

\* Every command an admin's mutation selects, with good arguments, has run once by
\* the time it is answered.
THEOREM SiblingsAllRun == Spec => []SiblingsRun
  <1>1. WInv => SiblingsRun
    <2>. SUFFICES ASSUME WInv, Executed, NEW p \in Selected, Len(p) = 2,
                         Name(Front(p)) = "admin", doc.operation = "mutation",
                         p \in Collected(Front(p)), ~ArgumentsFail(p)
                  PROVE  Cardinality({i \in DOMAIN ran : ran[i].path = p}) = 1
      BY DEF SiblingsRun
    <2>. DEFINE f == Front(p)
    <2>1. /\ p \in Seq(STRING) /\ p # <<>> /\ f \in Selected /\ f # <<>> /\ Front(f) = <<>>
      <3>1. p \in Seq(STRING) /\ p # <<>>
        BY PathsAreSequences, CollectedSelected DEF WInv, GInv
      <3>. QED BY <3>1, PathsAreSequences, RootOf DEF WInv, GInv
    <2>2. object[f] # None /\ f \in Collected(<<>>)
      <3>1. object[f] # None
        BY DEF Collected
      <3>. QED BY <2>1, <3>1 DEF WInv, Grown
    <2>3. object[<<>>] = "Mutation"
      <3>1. object[<<>>] # None
        BY <2>2 DEF Collected
      <3>. QED BY <3>1 DEF WInv, Placed, RootType
    <2>4. object[f] = "AdminMutation"
      <3>1. FieldOf(f) = Call("AdminMutation")
        BY <2>1, <2>3 DEF FieldOf, Above, Fields, MutationFields
      <3>2. FieldOf(f).type = "AdminMutation" /\ "AdminMutation" \notin DOMAIN Unions
        BY <3>1, ShapeTypes, UnionNames
      <3>. QED BY <2>1, <2>2, <3>2 DEF WInv, Placed
    <2>5. Done(p)
      <3>1. Done(<<>>)
        BY RootSelected DEF WInv, GInv, Shape, Grown, Executed, Done
      <3>2. Done(f)
        BY <2>1, <2>2, <3>1, RootSelected DEF WInv, Grown
      <3>. QED BY <2>1, <3>2 DEF WInv, Grown
    <2>6. PICK i \in DOMAIN ran : ran[i].path = p
      BY <2>1, <2>4, <2>5 DEF WInv, Promised, Above, Done
    <2>7. {j \in DOMAIN ran : ran[j].path = p} = {i}
      BY <2>6 DEF WInv, Promised
    <2>. QED BY <2>7, FS_Singleton
  <1>. QED BY <1>1, WalkInvariant, PTL

-----------------------------------------------------------------------------
\* The detail of an entry.

\* The offsets are those of the definition, which is a recursion.
LEMMA OffsetsAdd ==
    ASSUME NEW s \in Seq(1 .. 4)
    PROVE  /\ Len(s) \in Nat /\ Offsets(s) \in [0 .. Len(s) -> Nat] /\ Offsets(s)[0] = 0
           /\ \A i \in 1 .. Len(s) : Offsets(s)[i] = Offsets(s)[i - 1] + s[i]
  <1>. DEFINE N == Len(s)
              step == [p \in (1 .. N) \X Nat |-> p[2] + s[p[1]]]
              At(a) == a = [i \in 0 .. N |-> IF i = 0 THEN 0 ELSE a[i - 1] + s[i]]
              at == CHOOSE a : At(a)
  <1>1. N \in Nat /\ \A i \in 1 .. N : s[i] \in Nat
    OBVIOUS
  <1>2. step \in [(1 .. N) \X Nat -> Nat]
    <2>. HIDE DEF N
    <2>. QED BY <1>1
  <1>3. \E a : At(a)
    <2>. HIDE DEF step, N
    <2>1. PICK a : Builds(a, N, Nat, 0, step)
      BY <1>1, <1>2, RecursionExists
    <2>2. ASSUME NEW i \in 1 .. N
          PROVE  a[i] = a[i - 1] + s[i]
      <3>1. <<i, a[i - 1]>> \in (1 .. N) \X Nat
        BY <1>1, <2>1 DEF Builds
      <3>2. step[<<i, a[i - 1]>>] = a[i - 1] + s[i]
        BY <3>1 DEF step
      <3>. QED BY <2>1, <3>2 DEF Builds
    <2>3. At(a)
      BY <1>1, <2>1, <2>2 DEF Builds
    <2>. QED BY <2>3
  <1>4. Offsets(s) = at
    BY DEF Offsets
  <1>5. At(at)
    <2>. HIDE DEF At
    <2>. QED BY <1>3
  <1>. HIDE DEF at
  <1>. DEFINE A == {n \in 0 .. N : at[n] \in Nat}
  <1>6. at[0] = 0 /\ \A i \in 1 .. N : at[i] = at[i - 1] + s[i]
    BY <1>1, <1>5
  <1>7. \A n \in 0 .. N : at[n] \in Nat
    <2>1. 0 \in A
      BY <1>1, <1>6
    <2>2. ASSUME NEW n \in 1 .. N, n - 1 \in A PROVE n \in A
      <3>. HIDE DEF N
      <3>. QED BY <1>1, <1>6, <2>2
    <2>3. \A n \in 0 .. N : n \in A
      <3>. HIDE DEF A, N
      <3>. QED BY <1>1, <2>1, <2>2, UpToBySteps
    <2>. QED BY <2>3
  <1>8. at \in [0 .. N -> Nat]
    <2>. HIDE DEF N
    <2>. QED BY <1>5, <1>7
  <1>. QED BY <1>1, <1>4, <1>6, <1>8

LEMMA StartsAreNumbers ==
    ASSUME NEW s \in Seq(1 .. 4)
    PROVE  RuneStarts(s) \in SUBSET Nat /\ 0 \in RuneStarts(s)
  <1>1. /\ Len(s) \in Nat /\ Offsets(s)[0] = 0
        /\ \A i \in 0 .. Len(s) : Offsets(s)[i] \in Nat
    BY OffsetsAdd
  <1>2. 0 \in 0 .. Len(s)
    BY <1>1
  <1>. QED BY <1>1, <1>2 DEF RuneStarts

\* The text kept of a long one: of the starts within the limit, the last.
LEMMA TruncateKeeps ==
    ASSUME NEW s \in Seq(1 .. 4), Truncate(s).cut
    PROVE  /\ Truncate(s).kept \in RuneStarts(s) /\ Truncate(s).kept \in 0 .. MaxDetail
           /\ \A k \in RuneStarts(s) : k <= MaxDetail => k <= Truncate(s).kept
  <1>. DEFINE N == MaxDetail
              R == RuneStarts(s)
              step == [p \in (1 .. N) \X Nat |-> IF p[1] \in R THEN p[1] ELSE p[2]]
              Back(b) == b = [n \in 0 .. N |-> IF n = 0 \/ n \in R THEN n ELSE b[n - 1]]
              back == CHOOSE b : Back(b)
  <1>1. N \in Nat
    BY DocumentsAssumption
  <1>2. R \in SUBSET Nat /\ 0 \in R
    BY StartsAreNumbers
  <1>3. Truncate(s) = IF Bytes(s) <= N THEN Whole(Bytes(s)) ELSE [kept |-> back[N], cut |-> TRUE]
    BY DEF Truncate
  <1>. HIDE DEF N, R
  <1>4. step \in [(1 .. N) \X Nat -> Nat]
    BY <1>1
  <1>5. \E b : Back(b)
    <2>. HIDE DEF step
    <2>1. PICK b : Builds(b, N, Nat, 0, step)
      BY <1>1, <1>4, RecursionExists
    <2>2. ASSUME NEW i \in 1 .. N
          PROVE  b[i] = IF i \in R THEN i ELSE b[i - 1]
      <3>1. <<i, b[i - 1]>> \in (1 .. N) \X Nat
        BY <1>1, <2>1 DEF Builds
      <3>2. step[<<i, b[i - 1]>>] = IF i \in R THEN i ELSE b[i - 1]
        BY <3>1 DEF step
      <3>. QED BY <2>1, <3>2 DEF Builds
    <2>3. Back(b)
      BY <1>1, <2>1, <2>2 DEF Builds
    <2>. QED BY <2>3
  <1>6. Back(back)
    <2>. HIDE DEF Back
    <2>. QED BY <1>5
  <1>. HIDE DEF back
  <1>7. back[0] = 0 /\ \A i \in 1 .. N : back[i] = IF i \in R THEN i ELSE back[i - 1]
    BY <1>1, <1>6
  <1>. HIDE DEF Back
  <1>. DEFINE A == {n \in 0 .. N : /\ back[n] \in R /\ back[n] \in 0 .. n
                                   /\ \A k \in R : k <= n => k <= back[n]}
  <1>8. 0 \in A
    BY <1>1, <1>2, <1>7
  <1>9. ASSUME NEW n \in 1 .. N, n - 1 \in A
        PROVE  n \in A
    <2>1. CASE n \in R
      BY <1>1, <1>2, <1>7, <2>1
    <2>2. CASE n \notin R
      <3>1. back[n] = back[n - 1] /\ back[n - 1] \in R /\ back[n - 1] \in 0 .. n - 1
        BY <1>7, <1>9, <2>2
      <3>2. \A k \in R : k <= n => k <= n - 1
        BY <1>2, <2>2
      <3>3. \A k \in R : k <= n - 1 => k <= back[n - 1]
        BY <1>9
      <3>. QED BY <1>1, <3>1, <3>2, <3>3
    <2>. QED BY <2>1, <2>2
  <1>10. N \in A
    <2>. HIDE DEF A
    <2>1. N \in 0 .. N
      BY <1>1
    <2>. QED BY <1>1, <1>8, <1>9, <2>1, UpToBySteps
  <1>11. Truncate(s).kept = back[N]
    BY <1>3 DEF Whole
  <1>. QED BY <1>10, <1>11 DEF N, R

\* What an entry keeps of the variables fits, and no longer prefix would have.
LEMMA DetailsFit ==
    ASSUME doc \in Documents, NEW d \in {Whole(0), AuditVariables}
    PROVE  DetailFits(d)
  <1>1. doc.variables \in Seq(1 .. 4) /\ MaxDetail \in Nat
    BY DocumentsAssumption
  <1>2. RuneStarts(doc.variables) \in SUBSET Nat
    BY <1>1, StartsAreNumbers
  <1>3. CASE d = Whole(0)
    BY <1>3 DEF Whole, DetailFits
  <1>4. CASE d = AuditVariables
    <2>. SUFFICES ASSUME d.cut
                  PROVE  /\ d.kept \in RuneStarts(doc.variables) /\ d.kept <= MaxDetail
                         /\ \A n \in RuneStarts(doc.variables) : n > d.kept => n > MaxDetail
      BY DEF DetailFits
    <2>1. /\ d.kept \in RuneStarts(doc.variables) /\ d.kept \in 0 .. MaxDetail
          /\ \A k \in RuneStarts(doc.variables) : k <= MaxDetail => k <= d.kept
      BY <1>1, <1>4, TruncateKeeps DEF AuditVariables
    <2>. QED BY <1>1, <1>2, <2>1
  <1>. QED BY <1>3, <1>4

-----------------------------------------------------------------------------
\* The audit trail.

\* What the request has entered, in its buffer until it is flushed.
Entered == IF stage = "done" THEN auditLog ELSE buffer

\* The root fields that call for an entry.
Crosses(p) ==
    Name(p) = "signOut" \/ (Name(p) = "admin" /\ (caller # "admin" \/ doc.operation = "mutation"))

\* The entry of a root field.
Records(e, p) ==
    /\ e.root = p /\ e.ip = ip /\ e.detail \in {Whole(0), AuditVariables} /\ e.denied \in BOOLEAN
    /\ IF Name(p) = "signOut" THEN e.action = "sign_out" /\ ~e.denied
       ELSE e.action = doc.operation /\ (e.denied <=> caller # "admin")

SignsIn == HasIdentity /\ request.fresh /\ stage # "received"

RecordsSignIn(e) ==
    /\ e.root = <<>> /\ e.ip = ip /\ e.detail = Whole(0) /\ e.denied = FALSE
    /\ e.action = "sign_in" /\ SignsIn

\* The field is one of the root's that calls for an entry, and it has started.
Due(p) == p \in Collected(<<>>) /\ state[p] # "waiting" /\ Crosses(p)

Listed(entries) == \E S : entries \in Seq(S)
Denied(entries) == {i \in DOMAIN entries : entries[i].denied}

\* Every entry is that of one root field or of the sign-in, and none is twice.
Recorded(entries) ==
    /\ Listed(entries)
    /\ \A i, j \in DOMAIN entries : entries[i].root = entries[j].root => i = j
    /\ \A i \in DOMAIN entries :
          RecordsSignIn(entries[i]) \/ \E p \in Selected : Due(p) /\ Records(entries[i], p)
    /\ denials = Cardinality(Denied(entries))

\* What is due is entered.
Owed(entries) ==
    /\ \A p \in Selected : Due(p) => \E i \in DOMAIN entries : entries[i].root = p
    /\ SignsIn => \E i \in DOMAIN entries : entries[i].root = <<>>

\* A call stands under a root field that was entered and not denied.
Rooted ==
    \A i \in DOMAIN ran :
       /\ Due(SubSeq(ran[i].path, 1, 1))
       /\ Name(SubSeq(ran[i].path, 1, 1)) = "signOut" \/ caller = "admin"

Emptied ==
    /\ stage # "done" => auditLog = <<>>
    /\ stage = "done" \/ stage = "received" => buffer = <<>>
    /\ stage = "received" => phase = "received" /\ denials = 0

Trailed == Emptied /\ Recorded(Entered) /\ Owed(Entered) /\ Rooted

AInv == WInv /\ Emptied /\ Recorded(Entered) /\ Owed(Entered) /\ Rooted

-----------------------------------------------------------------------------
\* Sequences of entries.

LEMMA Appended ==
    ASSUME NEW es, Listed(es), NEW e
    PROVE  /\ Listed(Append(es, e)) /\ Len(es) \in Nat /\ DOMAIN es = 1 .. Len(es)
           /\ DOMAIN Append(es, e) = 1 .. Len(es) + 1
           /\ \A i \in 1 .. Len(es) : Append(es, e)[i] = es[i]
           /\ Append(es, e)[Len(es) + 1] = e
  <1>1. PICK S : es \in Seq(S)
    BY DEF Listed
  <1>. DEFINE T == S \cup {e}
  <1>2. e \in T /\ \A x \in S : x \in T
    OBVIOUS
  <1>. HIDE DEF T
  <1>3. es \in Seq(T)
    BY <1>1, <1>2
  <1>4. Append(es, e) \in Seq(T)
    BY <1>2, <1>3
  <1>. QED BY <1>2, <1>3, <1>4 DEF Listed

LEMMA DeniedAppended ==
    ASSUME NEW es, Listed(es), NEW e, e.denied \in BOOLEAN
    PROVE  /\ Cardinality(Denied(es)) \in Nat
           /\ Cardinality(Denied(Append(es, e)))
                 = Cardinality(Denied(es)) + IF e.denied THEN 1 ELSE 0
  <1>. DEFINE n == Len(es)
  <1>1. /\ n \in Nat /\ DOMAIN es = 1 .. n /\ DOMAIN Append(es, e) = 1 .. n + 1
        /\ \A i \in 1 .. n : Append(es, e)[i] = es[i]
        /\ Append(es, e)[n + 1] = e
    BY Appended
  <1>. HIDE DEF n
  <1>2. IsFiniteSet(Denied(es)) /\ Cardinality(Denied(es)) \in Nat
    <2>1. IsFiniteSet(1 .. n)
      BY <1>1, FS_Interval
    <2>2. Denied(es) \subseteq 1 .. n
      BY <1>1 DEF Denied
    <2>. QED BY <2>1, <2>2, FS_Subset, FS_CardinalityType
  <1>3. n + 1 \notin Denied(es)
    BY <1>1 DEF Denied
  <1>4. CASE e.denied
    <2>1. Denied(Append(es, e)) = Denied(es) \cup {n + 1}
      <3>1. \A i : i \in 1 .. n + 1 <=> i \in 1 .. n \/ i = n + 1
        BY <1>1
      <3>2. ASSUME NEW i PROVE i \in Denied(Append(es, e)) <=> i \in Denied(es) \/ i = n + 1
        <4>1. CASE i \in 1 .. n
          BY <1>1, <3>1, <4>1 DEF Denied
        <4>2. CASE i \notin 1 .. n
          BY <1>1, <1>4, <3>1, <4>2 DEF Denied
        <4>. QED BY <4>1, <4>2
      <3>. QED BY <3>2
    <2>. QED BY <1>2, <1>3, <1>4, <2>1, FS_AddElement
  <1>5. CASE ~e.denied
    <2>1. Denied(Append(es, e)) = Denied(es)
      <3>1. \A i : i \in 1 .. n + 1 <=> i \in 1 .. n \/ i = n + 1
        BY <1>1
      <3>2. ASSUME NEW i PROVE i \in Denied(Append(es, e)) <=> i \in Denied(es)
        <4>1. CASE i \in 1 .. n
          BY <1>1, <3>1, <4>1 DEF Denied
        <4>2. CASE i \notin 1 .. n
          BY <1>1, <1>5, <3>1, <4>2 DEF Denied
        <4>. QED BY <4>1, <4>2
      <3>. QED BY <3>2
    <2>. QED BY <1>2, <1>5, <2>1
  <1>. QED BY <1>4, <1>5

-----------------------------------------------------------------------------
\* The roots.

\* The fields of a root, and that no other type has the same.
LEMMA RootFields ==
    ASSUME NEW t \in DOMAIN Fields, NEW n \in DOMAIN Fields[t]
    PROVE  /\ Fields[t][n].type \in Namespaces => t \in {"Query", "Mutation"}
           /\ t \in {"Query", "Mutation"} =>
                 /\ Fields[t][n].type \in Namespaces <=> n = "admin"
                 /\ Fields[t][n].type = "SignOutPayload" <=> n = "signOut"
                 /\ Fields[t][n].type \notin DOMAIN Unions
                 /\ t \notin DOMAIN Arguments
           /\ t = "Mutation" => (Fields[t][n].type = "AdminMutation" <=> n = "admin")
  <1>. USE ShapeTypes, UnionNames DEF Namespaces
  <1>1. /\ \A f \in DOMAIN QueryFields :
              /\ QueryFields[f].type \in Namespaces <=> f = "admin"
              /\ QueryFields[f].type \notin DOMAIN Unions \cup {"SignOutPayload"}
              /\ f # "signOut"
        /\ Fields["Query"] = QueryFields
    BY DEF Fields, QueryFields
  <1>2. /\ \A f \in DOMAIN MutationFields :
              /\ MutationFields[f].type \in Namespaces <=> f = "admin"
              /\ MutationFields[f].type = "AdminMutation" <=> f = "admin"
              /\ MutationFields[f].type = "SignOutPayload" <=> f = "signOut"
              /\ MutationFields[f].type \notin DOMAIN Unions
        /\ Fields["Mutation"] = MutationFields
    BY DEF Fields, MutationFields
  <1>3. "Query" \notin DOMAIN Arguments /\ "Mutation" \notin DOMAIN Arguments
    BY DEF Arguments
  <1>4. t \notin {"Query", "Mutation"} => Fields[t][n].type \notin Namespaces
    <2>. DEFINE Below(fields) == \A m \in DOMAIN fields : fields[m].type \notin Namespaces
    <2>2. Below(Fields["Viewer"])
      BY DEF Fields, ViewerFields
    <2>3. Below(Fields["User"])
      BY DEF Fields, UserFields
    <2>4. Below(Fields["Timestamp"])
      BY DEF Fields, TimestampFields
    <2>5. Below(Fields["SignOutPayload"])
      BY DEF Fields, SignOutPayloadFields
    <2>6. Below(Fields["AdminQuery"])
      BY DEF Fields, AdminQueryFields
    <2>7. Below(Fields["AdminMutation"])
      BY DEF Fields, AdminMutationFields
    <2>8. Below(Fields["UsersConnection"])
      BY DEF Fields, UsersConnectionFields
    <2>9. Below(Fields["AdminUser"])
      BY DEF Fields, AdminUserFields
    <2>10. Below(Fields["AdminsConnection"])
      BY DEF Fields, AdminsConnectionFields
    <2>11. Below(Fields["Admin"])
      BY DEF Fields, AdminFields
    <2>12. Below(Fields["AuditLogConnection"])
      BY DEF Fields, AuditLogConnectionFields
    <2>13. Below(Fields["PageInfo"])
      BY DEF Fields, PageInfoFields
    <2>14. Below(Fields["AuditLogEntry"])
      BY DEF Fields, AuditLogEntryFields
    <2>15. Below(Fields["BanUserPayload"])
      BY DEF Fields, BanUserPayloadFields
    <2>16. Below(Fields["UnbanUserPayload"])
      BY DEF Fields, UnbanUserPayloadFields
    <2>17. Below(Fields["MakeAdminPayload"])
      BY DEF Fields, MakeAdminPayloadFields
    <2>18. Below(Fields["RemoveAdminPayload"])
      BY DEF Fields, RemoveAdminPayloadFields
    <2>19. Below(Fields["ErrorPayload"])
      BY DEF Fields, ErrorPayloadFields
    <2>20. Below(Fields["FieldMessage"])
      BY DEF Fields, FieldMessageFields
    <2>21. DOMAIN Fields = {"Query", "Mutation", "Viewer", "User", "Timestamp",
       "SignOutPayload", "AdminQuery", "AdminMutation", "UsersConnection", "AdminUser",
       "AdminsConnection", "Admin", "AuditLogConnection", "PageInfo", "AuditLogEntry",
       "BanUserPayload", "UnbanUserPayload", "MakeAdminPayload", "RemoveAdminPayload",
       "ErrorPayload", "FieldMessage"}
      BY DEF Fields
    <2>. HIDE DEF Below
    <2>22. t \notin {"Query", "Mutation"} => Below(Fields[t])
      BY <2>2, <2>3, <2>4, <2>5, <2>6, <2>7, <2>8, <2>9, <2>10, <2>11, <2>12, <2>13, <2>14,
         <2>15, <2>16, <2>17, <2>18, <2>19, <2>20, <2>21
    <2>. QED BY <2>22 DEF Below
  <1>. HIDE DEF Namespaces
  <1>. QED BY <1>1, <1>2, <1>3, <1>4

\* An object of a root type is the root.
LEMMA RootAtTop ==
    ASSUME WInv, NEW p \in Selected, object[p] \in {"Query", "Mutation"}
    PROVE  p = <<>>
  <1>. SUFFICES ASSUME p # <<>> PROVE FALSE
    OBVIOUS
  <1>1. "Mutation" # None /\ "Query" # None
    BY DocumentsAssumption DEF Objects
  <1>2. p \in Collected(Front(p)) /\ Front(p) \in Selected
    BY <1>1, PathsAreSequences DEF WInv, GInv, Grown, Shape
  <1>3. Above(p) \in DOMAIN Fields /\ Name(p) \in DOMAIN Fields[Above(p)]
    BY <1>2, SameTypes DEF WInv, GInv, Shape, Kinds, Collected, Above
  <1>4. object[p] = FieldOf(p).type
    BY <1>1, UnionMembers DEF WInv, Placed
  <1>. QED BY <1>3, <1>4, WhoLeads DEF FieldOf

\* The root object is of the operation.
LEMMA RootKind ==
    ASSUME WInv, object[<<>>] # None
    PROVE  /\ object[<<>>] = RootType(doc) /\ RootType(doc) \in {"Query", "Mutation"}
           /\ object[<<>>] = "Mutation" <=> doc.operation = "mutation"
           /\ object[<<>>] \in DOMAIN Fields
  <1>1. doc.operation \in {"query", "mutation"}
    BY DocumentsAssumption DEF WInv, GInv, Shape
  <1>. QED BY <1>1 DEF WInv, Placed, RootType, Fields

\* One entry more, with the count of the denials.
Enters(p, e) ==
    /\ Records(e, p) /\ buffer' = Append(buffer, e)
    /\ denials' = denials + IF e.denied THEN 1 ELSE 0

\* A field that starts is entered if it is a root field that calls for it.
Accounted(p) ==
    \/ p \in Collected(<<>>) /\ Crosses(p) /\ \E e : Enters(p, e)
    \/ ~(p \in Collected(<<>>) /\ Crosses(p)) /\ buffer' = buffer /\ denials' = denials

LEMMA StartAccounted ==
    ASSUME WInv, NEW p \in Selected, FieldStep(p), Starts(p)
    PROVE  Accounted(p)
  <1>1. /\ p # <<>> /\ Front(p) \in Selected /\ p \in Collected(Front(p))
        /\ Above(p) \in DOMAIN Fields /\ Name(p) \in DOMAIN Fields[Above(p)]
    BY RunnableWhere, StartEffect DEF WInv, GInv, Starts
  <1>2. p \in Collected(<<>>) <=> Front(p) = <<>>
    BY <1>1, CollectedSelected
  <1>3. Above(p) \in {"Query", "Mutation"} <=> Front(p) = <<>>
    <2>1. Front(p) = <<>> => object[<<>>] # None
      BY <1>1, <1>2 DEF Collected
    <2>. QED BY <1>1, <2>1, RootAtTop, RootKind DEF Above
  <1>4. Front(p) = <<>> => (Above(p) = "Mutation" <=> doc.operation = "mutation")
    BY <1>2, RootKind DEF Above, Collected
  <1>5. doc.operation \in {"query", "mutation"}
    BY DocumentsAssumption DEF WInv, GInv, Shape
  <1>6. /\ FieldOf(p).type \in Namespaces => Above(p) \in {"Query", "Mutation"}
        /\ FieldOf(p).type = "SignOutPayload" => Above(p) = "Mutation" /\ Name(p) = "signOut"
        /\ Above(p) \in {"Query", "Mutation"} =>
              /\ FieldOf(p).type \in Namespaces <=> Name(p) = "admin"
              /\ FieldOf(p).type = "SignOutPayload" <=> Name(p) = "signOut"
              /\ FieldOf(p).type \notin DOMAIN Unions
              /\ Above(p) \notin DOMAIN Arguments
    BY <1>1, RootFields, WhoLeads, WhoCommands DEF FieldOf
  <1>7. CASE CheckAdmin(p)
    <2>1. p \in Collected(<<>>) /\ Name(p) = "admin" /\ Name(p) # "signOut"
      BY <1>2, <1>3, <1>6, <1>7 DEF CheckAdmin
    <2>. DEFINE Recording(denied) ==
           /\ buffer' = Append(buffer, Entry(p, denied, AuditVariables))
           /\ denied <=> caller # "admin"
           /\ denials' = denials + IF denied THEN 1 ELSE 0
    <2>2. ASSUME NEW denied \in BOOLEAN, Recording(denied)
          PROVE  \E e : Enters(p, e)
      <3>. DEFINE e == Entry(p, denied, AuditVariables)
      <3>1. e.root = p /\ e.ip = ip /\ e.detail = AuditVariables /\ e.denied = denied
            /\ e.action = doc.operation
        BY DEF Entry
      <3>2. buffer' = Append(buffer, e)
        BY <2>2
      <3>. HIDE DEF e
      <3>3. Enters(p, e)
        BY <2>1, <2>2, <3>1, <3>2 DEF Enters, Records
      <3>. QED BY <3>3
    <2>3. CASE caller = "admin" /\ doc.operation = "mutation"
      <3>1. denials \in Nat
        BY DEF WInv, GInv, Shape
      <3>2. Recording(FALSE)
        <4>1. /\ buffer' = Append(buffer, Entry(p, FALSE, AuditVariables))
              /\ denials' = denials
          BY <1>7, <2>3 DEF CheckAdmin
        <4>2. denials + (IF FALSE THEN 1 ELSE 0) = denials
          BY <3>1
        <4>. QED BY <2>3, <4>1, <4>2
      <3>. HIDE DEF Recording
      <3>3. \E e : Enters(p, e)
        BY <2>2, <3>2
      <3>. QED BY <2>1, <2>3, <3>3 DEF Accounted, Crosses
    <2>4. CASE caller = "admin" /\ doc.operation # "mutation"
      <3>1. ~Crosses(p)
        BY <2>1, <2>4 DEF Crosses
      <3>2. buffer' = buffer /\ denials' = denials
        BY <1>7, <2>4 DEF CheckAdmin
      <3>. QED BY <3>1, <3>2 DEF Accounted
    <2>5. CASE caller # "admin"
      <3>1. Recording(TRUE)
        BY <1>7, <2>5 DEF CheckAdmin
      <3>. HIDE DEF Recording
      <3>2. \E e : Enters(p, e)
        BY <2>2, <3>1
      <3>. QED BY <2>1, <2>5, <3>2 DEF Accounted, Crosses
    <2>. QED BY <2>3, <2>4, <2>5
  <1>8. CASE SignOut(p)
    <2>1. p \in Collected(<<>>) /\ Name(p) = "signOut"
      BY <1>2, <1>3, <1>6, <1>8 DEF SignOut
    <2>. DEFINE e == Plain("sign_out", p)
    <2>2. /\ e.root = p /\ e.ip = ip /\ e.detail = Whole(0) /\ e.denied = FALSE
          /\ e.action = "sign_out"
      BY DEF Plain
    <2>3. buffer' = Append(buffer, e) /\ denials' = denials /\ denials \in Nat
      BY <1>8 DEF SignOut, WInv, GInv, Shape
    <2>. HIDE DEF e
    <2>4. Enters(p, e)
      <3>1. ~e.denied /\ e.denied \in BOOLEAN
        BY <2>2
      <3>2. Records(e, p)
        BY <2>1, <2>2, <3>1 DEF Records
      <3>3. denials + (IF e.denied THEN 1 ELSE 0) = denials
        BY <2>3, <3>1
      <3>. QED BY <2>3, <3>2, <3>3 DEF Enters
    <2>. QED BY <2>1, <2>4 DEF Accounted, Crosses
  <1>9. CASE RefuseArguments(p) \/ RunCommand(p) \/ Read(p)
    <2>1. buffer' = buffer /\ denials' = denials
      BY <1>9 DEF RefuseArguments, RunCommand, Read
    <2>2. ~(p \in Collected(<<>>) /\ Crosses(p))
      <3>. SUFFICES ASSUME p \in Collected(<<>>), Crosses(p) PROVE FALSE
        OBVIOUS
      <3>1. Above(p) \in {"Query", "Mutation"} /\ Name(p) \in {"signOut", "admin"}
        BY <1>2, <1>3 DEF Crosses
      <3>. QED BY <1>6, <1>9, <3>1 DEF RefuseArguments, ArgumentsFail, RunCommand, Read
    <2>. QED BY <2>1, <2>2 DEF Accounted
  <1>10. ~Complete(p)
    BY StartEffect, CompleteEffect
  <1>. QED BY <1>7, <1>8, <1>9, <1>10 DEF FieldStep

\* A call stands under a root field that is entered and not denied.
LEMMA CallRooted ==
    ASSUME WInv, NEW p \in Selected, RunCommand(p) \/ SignOut(p)
    PROVE  LET root == SubSeq(p, 1, 1)
           IN  /\ root \in Collected(<<>>) /\ Crosses(root) /\ root \in Selected
               /\ root = p \/ state[root] # "waiting"
               /\ Name(root) = "signOut" \/ caller = "admin"
  <1>1. /\ Runnable(p) /\ p # <<>> /\ p \in Seq(STRING) /\ Front(p) \in Selected
        /\ Above(p) \in DOMAIN Fields /\ Name(p) \in DOMAIN Fields[Above(p)]
        /\ p \in Collected(Front(p))
    BY RunnableWhere, PathsAreSequences DEF WInv, GInv, RunCommand, SignOut, Runnable
  <1>2. CASE SignOut(p)
    <2>1. object[Front(p)] = "Mutation" /\ Name(p) = "signOut"
      BY <1>1, <1>2, WhoLeads, WhoCommands DEF SignOut, FieldOf, Above
    <2>2. Front(p) = <<>> /\ SubSeq(p, 1, 1) = p
      BY <1>1, <2>1, NamespaceAtRoot, RootOf
    <2>. QED BY <1>1, <2>1, <2>2 DEF Crosses
  <1>3. CASE RunCommand(p)
    <2>. DEFINE r == Front(p)
    <2>1. object[r] = "AdminMutation"
      BY <1>1, <1>3, WhoCommands DEF RunCommand, FieldOf, Above
    <2>2. /\ r # <<>> /\ Front(r) = <<>> /\ r \in Collected(<<>>)
          /\ object[<<>>] = "Mutation"
      BY <1>1, <2>1, NamespaceAtRoot
    <2>3. SubSeq(p, 1, 1) = r /\ state[r] # "waiting"
      BY <1>1, <2>2, RootOf DEF Runnable
    <2>4. "AdminMutation" # None /\ "Mutation" # None /\ "Mutation" \in DOMAIN Fields
      BY DocumentsAssumption DEF Objects, Fields
    <2>5. Name(r) \in DOMAIN Fields["Mutation"]
      BY <2>2 DEF Collected
    <2>6. FieldOf(r).type = "AdminMutation"
      BY <1>1, <2>1, <2>2, <2>4, UnionMembers DEF WInv, Placed
    <2>7. Name(r) = "admin"
      BY <2>2, <2>4, <2>5, <2>6, RootFields DEF FieldOf, Above
    <2>8. caller = "admin"
      BY <1>1, <2>1 DEF WInv, GInv, Shut, Namespaces
    <2>9. doc.operation = "mutation"
      BY <2>2, <2>4, RootKind
    <2>. QED BY <1>1, <2>2, <2>3, <2>7, <2>8, <2>9 DEF Crosses
  <1>. QED BY <1>2, <1>3

\* What holds of every entry does not depend on how far the request is.
LEMMA SameRecords ==
    ASSUME UNCHANGED <<doc, caller, ip, request>>
    PROVE  /\ Selected' = Selected /\ (HasIdentity' <=> HasIdentity)
           /\ \A p : Crosses(p)' <=> Crosses(p)
           /\ \A e, p : Records(e, p)' <=> Records(e, p)
           /\ (stage = "received" <=> stage' = "received") => (SignsIn' <=> SignsIn)
  BY DEF Selected, HasIdentity, Crosses, Name, Records, SignsIn, AuditVariables

LEMMA TrailStays ==
    ASSUME UNCHANGED <<doc, caller, ip, request, denials>>,
           stage = "received" <=> stage' = "received",
           \A p \in Selected : Due(p)' <=> Due(p),
           Recorded(Entered), Owed(Entered), Entered' = Entered
    PROVE  Recorded(Entered)' /\ Owed(Entered)'
  <1>1. /\ Selected' = Selected
        /\ \A e, p : Records(e, p)' <=> Records(e, p)
        /\ SignsIn' <=> SignsIn
    BY SameRecords
  <1>2. \A e : RecordsSignIn(e)' <=> RecordsSignIn(e)
    BY <1>1 DEF RecordsSignIn
  <1>. QED BY <1>1, <1>2 DEF Recorded, Owed, Denied

\* A started field stays started, and no root field is collected late.
LEMMA StartDue ==
    ASSUME WInv, NEW p \in Selected, Starts(p), UNCHANGED http
    PROVE  /\ p \in Selected \ {<<>>} /\ ~Due(p)
           /\ UNCHANGED <<doc, caller, ip, request>> /\ Collected(<<>>)' = Collected(<<>>)
           /\ \A q \in Selected \ {p} : Due(q)' <=> Due(q)
           /\ Due(p)' <=> p \in Collected(<<>>) /\ Crosses(p)
  <1>1. /\ p \in Selected \ {<<>>} /\ state[p] = "waiting" /\ state'[p] # "waiting"
        /\ UNCHANGED <<doc, caller, ip, request>> /\ Collected(<<>>)' = Collected(<<>>)
        /\ \A q \in Selected \ {p} : state'[q] = state[q]
    BY StartEffect, RootSelected DEF context, http
  <1>2. \A q : Crosses(q)' <=> Crosses(q)
    BY <1>1, SameRecords
  <1>. QED BY <1>1, <1>2 DEF Due

LEMMA StartKeepsTrail ==
    ASSUME AInv, stage = "graphql", UNCHANGED http,
           NEW p \in Selected, FieldStep(p), Starts(p)
    PROVE  Recorded(buffer)' /\ Owed(buffer)'
  <1>1. Recorded(buffer) /\ Owed(buffer)
    BY DEF AInv, Entered
  <1>2. stage' = "graphql" /\ Entered = buffer /\ Entered' = buffer'
    BY DEF http, Entered
  <1>3. CASE ~(p \in Collected(<<>>) /\ Crosses(p)) /\ buffer' = buffer /\ denials' = denials
    <2>1. \A q \in Selected : Due(q)' <=> Due(q)
      BY <1>3, StartDue DEF AInv
    <2>2. UNCHANGED <<doc, caller, ip, request, denials>>
      BY <1>3, StartDue DEF AInv
    <2>3. Recorded(Entered)' /\ Owed(Entered)'
      BY <1>1, <1>2, <1>3, <2>1, <2>2, TrailStays
    <2>. QED BY <1>2, <2>3
  <1>4. ASSUME p \in Collected(<<>>), Crosses(p), NEW e, Enters(p, e)
        PROVE  Recorded(buffer)' /\ Owed(buffer)'
    <2>0. PICK fs : fs = buffer'
      OBVIOUS
    <2>. DEFINE es == buffer
                n == Len(buffer)
    <2>1. /\ Listed(fs) /\ n \in Nat /\ DOMAIN es = 1 .. n
          /\ DOMAIN fs = 1 .. n + 1 /\ \A i \in 1 .. n : fs[i] = es[i]
          /\ fs[n + 1] = e
      BY <1>1, <1>4, <2>0, Appended DEF Recorded, Enters
    <2>2. /\ p \in Selected \ {<<>>} /\ ~Due(p) /\ Due(p)'
          /\ UNCHANGED <<doc, caller, ip, request>> /\ Selected' = Selected
          /\ \A q \in Selected : Due(q) => Due(q)'
          /\ \A q \in Selected : Due(q)' => Due(q) \/ q = p
          /\ \A f, q : Records(f, q)' <=> Records(f, q)
          /\ SignsIn' <=> SignsIn
      BY <1>2, <1>4, StartDue, SameRecords DEF AInv
    <2>3. \A f : RecordsSignIn(f)' <=> RecordsSignIn(f)
      BY <2>2 DEF RecordsSignIn
    <2>4. /\ \A i, j \in 1 .. n : es[i].root = es[j].root => i = j
          /\ \A i \in 1 .. n :
                RecordsSignIn(es[i]) \/ \E q \in Selected : Due(q) /\ Records(es[i], q)
      BY <1>1, <2>1 DEF Recorded
    <2>5. Records(e, p) /\ e.root = p /\ e.denied \in BOOLEAN
      BY <1>4 DEF Enters, Records
    <2>6. denials' = Cardinality(Denied(fs))
      BY <1>1, <1>4, <2>0, <2>5, DeniedAppended DEF Recorded, Enters
    <2>. HIDE DEF es, n
    <2>7. \A i \in 1 .. n : es[i].root # p
      BY <2>2, <2>4 DEF RecordsSignIn, Records
    <2>8. \A i : i \in 1 .. n + 1 <=> i \in 1 .. n \/ i = n + 1
      BY <2>1
    <2>9. \A i, j \in DOMAIN fs : fs[i].root = fs[j].root => i = j
      BY <2>1, <2>4, <2>5, <2>7, <2>8
    <2>10. \A i \in DOMAIN fs :
              RecordsSignIn(fs[i])' \/ \E q \in Selected : Due(q)' /\ Records(fs[i], q)'
      <3>. SUFFICES ASSUME NEW i \in 1 .. n + 1
                    PROVE  RecordsSignIn(fs[i])' \/ \E q \in Selected : Due(q)' /\ Records(fs[i], q)'
        BY <2>1
      <3>1. CASE i = n + 1
        BY <2>1, <2>2, <2>5, <3>1
      <3>2. CASE i \in 1 .. n
        BY <2>1, <2>2, <2>3, <2>4, <3>2
      <3>. QED BY <2>8, <3>1, <3>2
    <2>11. Recorded(buffer)'
      BY <2>0, <2>1, <2>2, <2>6, <2>9, <2>10 DEF Recorded
    <2>12. \A i \in DOMAIN es : i \in DOMAIN fs /\ fs[i] = es[i]
      BY <2>1, <2>8
    <2>13. Owed(buffer)'
      <3>1. \E i \in DOMAIN fs : fs[i].root = p
        BY <2>1, <2>5, <2>8
      <3>2. ASSUME NEW q, NEW i \in DOMAIN es, es[i].root = q
            PROVE  \E j \in DOMAIN fs : fs[j].root = q
        BY <2>12, <3>2
      <3>3. \A q \in Selected : Due(q) => \E i \in DOMAIN es : es[i].root = q
        BY <1>1 DEF Owed, es
      <3>4. SignsIn => \E i \in DOMAIN es : es[i].root = <<>>
        BY <1>1 DEF Owed, es
      <3>5. \A q \in Selected : Due(q)' => \E i \in DOMAIN fs : fs[i].root = q
        BY <2>2, <3>1, <3>2, <3>3
      <3>6. SignsIn' => \E i \in DOMAIN fs : fs[i].root = <<>>
        BY <2>2, <3>2, <3>4
      <3>. QED BY <2>0, <2>2, <3>5, <3>6 DEF Owed
    <2>. QED BY <2>11, <2>13
  <1>5. Accounted(p)
    BY StartAccounted DEF AInv
  <1>. QED BY <1>3, <1>4, <1>5 DEF Accounted

\* Where a call stands, its root was entered before it or is entered with it.
LEMMA RootedKeeps ==
    ASSUME AInv, UNCHANGED http, NEW p \in Selected, FieldStep(p), Starts(p)
    PROVE  Rooted'
  <1>1. /\ UNCHANGED <<doc, caller, ip, request>> /\ ~Due(p)
        /\ \A q \in Selected : Due(q) => Due(q)'
        /\ \A q : Name(q)' = Name(q)
    BY StartDue DEF AInv, Name
  <1>2. \A q : Due(q) => q \in Selected
    BY CollectedSelected DEF Due
  <1>0. PICK old, new : old = ran /\ new = ran'
    OBVIOUS
  <1>3. \A i \in DOMAIN old :
           /\ Due(SubSeq(old[i].path, 1, 1))'
           /\ Name(SubSeq(old[i].path, 1, 1)) = "signOut" \/ caller = "admin"
    <2>1. ASSUME NEW i \in DOMAIN old
          PROVE  /\ Due(SubSeq(old[i].path, 1, 1))
                 /\ Name(SubSeq(old[i].path, 1, 1)) = "signOut" \/ caller = "admin"
      BY <1>0 DEF AInv, Rooted
    <2>. QED BY <1>1, <1>2, <2>1
  <1>4. CASE ran' = ran
    BY <1>0, <1>1, <1>3, <1>4 DEF Rooted
  <1>5. CASE RunCommand(p) \/ SignOut(p)
    <2>1. p \in Selected \ {<<>>}
      BY StartDue DEF AInv
    <2>2. PICK o \in {"payload", "refusal", "failure"} :
             ran' = Append(ran, [path |-> p, outcome |-> o])
      BY <1>5 DEF RunCommand, SignOut
    <2>3. \A i \in DOMAIN new : (i \in DOMAIN old /\ new[i] = old[i]) \/ new[i].path = p
      BY <1>0, <2>1, <2>2, AppendRan DEF AInv, WInv, GInv
    <2>. DEFINE root == SubSeq(p, 1, 1)
    <2>4. /\ root \in Collected(<<>>) /\ Crosses(root) /\ root \in Selected
          /\ root = p \/ state[root] # "waiting"
          /\ Name(root) = "signOut" \/ caller = "admin"
      BY <1>5, CallRooted DEF AInv
    <2>5. Due(root)'
      BY <1>1, <2>4, StartDue DEF AInv, Due
    <2>6. ASSUME NEW i \in DOMAIN new
          PROVE  /\ Due(SubSeq(new[i].path, 1, 1))'
                 /\ Name(SubSeq(new[i].path, 1, 1)) = "signOut" \/ caller = "admin"
      BY <1>3, <2>3, <2>4, <2>5
    <2>. QED BY <1>0, <1>1, <2>6 DEF Rooted
  <1>6. ran' = ran \/ RunCommand(p) \/ SignOut(p)
    BY DEF FieldStep, CheckAdmin, RefuseArguments, Read, Complete
  <1>. QED BY <1>4, <1>5, <1>6

\* Steps that start no field leave what is due as it is.
LEMMA SameDue ==
    ASSUME Selected' = Selected, Collected(<<>>)' = Collected(<<>>),
           UNCHANGED <<doc, caller>>,
           \A q \in Selected : state'[q] = "waiting" <=> state[q] = "waiting"
    PROVE  \A q \in Selected : Due(q)' <=> Due(q)
  BY DEF Due, Crosses, Name

\* With the calls and what is due as they were, the calls have their roots.
LEMMA RootedStays ==
    ASSUME Rooted, ran' = ran, UNCHANGED <<doc, caller>>, \A q \in Selected : Due(q)' <=> Due(q)
    PROVE  Rooted'
  <1>0. PICK old : old = ran
    OBVIOUS
  <1>1. \A q : Due(q) => q \in Selected
    BY CollectedSelected DEF Due
  <1>2. \A i \in DOMAIN old :
           /\ Due(SubSeq(old[i].path, 1, 1))'
           /\ Name(SubSeq(old[i].path, 1, 1)) = "signOut" \/ caller = "admin"
    BY <1>0, <1>1 DEF Rooted
  <1>. QED BY <1>0, <1>2 DEF Rooted, Name

LEMMA ExecutesKeepsTrail ==
    ASSUME AInv, Executes
    PROVE  Recorded(Entered)' /\ Owed(Entered)' /\ Rooted'
  <1>1. /\ stage = "graphql" /\ UNCHANGED http /\ GNext
        /\ Entered = buffer /\ Entered' = buffer'
    BY DEF Executes, http, Entered
  <1>2. ASSUME NEW p \in Selected, FieldStep(p), Starts(p)
        PROVE  Recorded(Entered)' /\ Owed(Entered)' /\ Rooted'
    <2>1. Recorded(buffer)' /\ Owed(buffer)' /\ Rooted'
      BY <1>1, <1>2, StartKeepsTrail, RootedKeeps
    <2>. QED BY <1>1, <2>1
  <1>3. ASSUME NEW p \in Selected, Complete(p)
        PROVE  Recorded(Entered)' /\ Owed(Entered)' /\ Rooted'
    <2>1. /\ Selected' = Selected /\ Collected(<<>>)' = Collected(<<>>)
          /\ UNCHANGED <<doc, caller, ip, request, ran>>
          /\ \A q \in Selected : state'[q] = "waiting" <=> state[q] = "waiting"
      BY <1>1, <1>3, CompleteEffect, RootSelected DEF AInv, context, http
    <2>2. UNCHANGED <<buffer, denials>>
      BY <1>3 DEF Complete
    <2>3. \A q \in Selected : Due(q)' <=> Due(q)
      BY <2>1, SameDue
    <2>4. Recorded(Entered)' /\ Owed(Entered)'
      <3>1. (stage = "received" <=> stage' = "received") /\ Entered' = Entered
        BY <1>1, <2>2 DEF http
      <3>. QED BY <2>1, <2>2, <2>3, <3>1, TrailStays DEF AInv
    <2>. QED BY <2>1, <2>3, <2>4, RootedStays DEF AInv
  <1>4. CASE Execute
    <2>1. /\ Selected' = Selected /\ UNCHANGED <<doc, caller, ip, request, ran>>
          /\ \A q \in Selected \ {<<>>} : state'[q] = "waiting" /\ state[q] = "waiting"
      BY <1>1, <1>4, ExecuteEffect DEF AInv, context, http
    <2>2. UNCHANGED <<buffer, denials>>
      BY <1>4 DEF Execute
    <2>3. \A q \in Selected : Due(q)' <=> Due(q)
      <3>1. \A q \in Selected : q \in Collected(<<>>)' \/ q \in Collected(<<>>) => q # <<>>
        BY DEF Collected, Under
      <3>. QED BY <2>1, <3>1 DEF Due
    <2>4. Recorded(Entered)' /\ Owed(Entered)'
      <3>1. (stage = "received" <=> stage' = "received") /\ Entered' = Entered
        BY <1>1, <2>2 DEF http
      <3>. QED BY <2>1, <2>2, <2>3, <3>1, TrailStays DEF AInv
    <2>. QED BY <2>1, <2>3, <2>4, RootedStays DEF AInv
  <1>. QED BY <1>1, <1>2, <1>3, <1>4, StepStarts DEF GNext

\* Before the executor nothing is due.
LEMMA NothingDue ==
    ASSUME WInv, phase = "received"
    PROVE  (\A p : ~Due(p)) /\ ran = <<>>
  <1>1. \A p \in Selected : state[p] = "waiting"
    BY DEF WInv, Grown
  <1>2. ran = <<>>
    BY DEF WInv, GInv, Once
  <1>. QED BY <1>1, <1>2, CollectedSelected DEF Due

\* A trail begins with nothing, or with the sign-in.
LEMMA Beginnings ==
    ASSUME \A p : ~Due(p)', denials' = 0
    PROVE  /\ ~SignsIn' => Recorded(<<>>)' /\ Owed(<<>>)'
           /\ \A e : RecordsSignIn(e)' => Recorded(<<e>>)' /\ Owed(<<e>>)'
  <1>1. ASSUME ~SignsIn' PROVE Recorded(<<>>)' /\ Owed(<<>>)'
    <2>1. DOMAIN <<>> = {} /\ <<>> \in Seq({})
      OBVIOUS
    <2>2. Denied(<<>>) = {}
      BY <2>1 DEF Denied
    <2>. QED BY <1>1, <2>1, <2>2, FS_EmptySet DEF Recorded, Owed, Listed
  <1>2. ASSUME NEW e, RecordsSignIn(e)' PROVE Recorded(<<e>>)' /\ Owed(<<e>>)'
    <2>1. DOMAIN <<e>> = {1} /\ <<e>>[1] = e /\ <<e>> \in Seq({e})
      OBVIOUS
    <2>2. Denied(<<e>>) = {}
      BY <1>2, <2>1 DEF Denied, RecordsSignIn
    <2>. QED BY <1>2, <2>1, <2>2, FS_EmptySet DEF Recorded, Owed, Listed, RecordsSignIn
  <1>. QED BY <1>1, <1>2

\* The first step finds nothing entered and nothing due.
LEMMA Untouched ==
    ASSUME AInv, stage = "received", UNCHANGED <<doc, caller, state, object, ran, denials>>
    PROVE  /\ \A p : ~Due(p)'
           /\ buffer = <<>> /\ auditLog = <<>> /\ denials' = 0 /\ Rooted'
  <1>1. phase = "received" /\ buffer = <<>> /\ auditLog = <<>> /\ denials = 0
    BY DEF AInv, Emptied
  <1>2. (\A p : ~Due(p)) /\ ran = <<>>
    BY <1>1, NothingDue DEF AInv
  <1>3. \A p : ~Due(p)'
    BY <1>2 DEF Due, Collected, Under, Selected, Name, Crosses
  <1>4. Rooted'
    BY <1>2 DEF Rooted
  <1>. QED BY <1>1, <1>3, <1>4

LEMMA RefuseKeepsTrail ==
    ASSUME AInv, NEW code, Refuse(code), ~HasIdentity
    PROVE  Trailed'
  <1>1. /\ stage = "received" /\ stage' = "done" /\ auditLog' = auditLog
        /\ UNCHANGED <<doc, caller, state, object, ran, buffer, denials>>
    BY DEF Refuse, execution
  <1>2. /\ \A p : ~Due(p)'
        /\ buffer = <<>> /\ auditLog = <<>> /\ denials' = 0 /\ Rooted'
    BY <1>1, Untouched
  <1>3. ~SignsIn' /\ Entered' = <<>> /\ Emptied'
    BY <1>1, <1>2 DEF SignsIn, HasIdentity, Entered, Emptied
  <1>4. Recorded(<<>>)' /\ Owed(<<>>)'
    BY <1>2, <1>3, Beginnings
  <1>. QED BY <1>2, <1>3, <1>4 DEF Trailed

LEMMA AdmitKeepsTrail ==
    ASSUME AInv, Admit
    PROVE  Trailed'
  <1>1. /\ stage = "received" /\ stage' = "routed"
        /\ UNCHANGED <<doc, caller, state, object, ran, denials, request, auditLog>>
    BY DEF Admit
  <1>2. /\ \A p : ~Due(p)'
        /\ buffer = <<>> /\ auditLog = <<>> /\ denials' = 0 /\ Rooted'
    BY <1>1, Untouched
  <1>3. Entered' = buffer' /\ Emptied' /\ (SignsIn' <=> HasIdentity /\ request.fresh)
    BY <1>1, <1>2 DEF SignsIn, HasIdentity, Entered, Emptied
  <1>4. CASE HasIdentity /\ request.fresh
    <2>1. PICK e : e = [Plain("sign_in", <<>>) EXCEPT !.ip = ip']
      OBVIOUS
    <2>2. buffer' = <<e>>
      BY <1>4, <2>1 DEF Admit
    <2>3. RecordsSignIn(e)'
      BY <1>3, <1>4, <2>1 DEF RecordsSignIn, Plain
    <2>4. Recorded(<<e>>)' /\ Owed(<<e>>)'
      BY <1>2, <2>3, Beginnings
    <2>. QED BY <1>2, <1>3, <2>2, <2>4 DEF Trailed
  <1>5. CASE ~(HasIdentity /\ request.fresh)
    <2>1. buffer' = <<>>
      BY <1>5 DEF Admit
    <2>2. Recorded(<<>>)' /\ Owed(<<>>)'
      BY <1>2, <1>3, <1>5, Beginnings
    <2>. QED BY <1>2, <1>3, <2>1, <2>2 DEF Trailed
  <1>. QED BY <1>4, <1>5

\* Routing and answering leave the trail; flushing moves it to the log.
LEMMA RestKeepsTrail ==
    ASSUME AInv, stage # "received", stage' # "received",
           UNCHANGED <<doc, caller, ip, request, state, object, ran, denials>>,
           \/ stage # "done" /\ stage' # "done" /\ UNCHANGED <<buffer, auditLog>>
           \/ Flush
           \/ UNCHANGED <<stage, buffer, auditLog>>
    PROVE  Trailed'
  <1>1. Emptied' /\ Entered' = Entered
    <2>1. CASE Flush
      <3>1. PICK S : buffer \in Seq(S)
        BY <2>1 DEF AInv, Recorded, Listed, Entered, Flush
      <3>2. <<>> \o buffer = buffer
        BY <3>1, ConcatEmptySeq
      <3>3. auditLog = <<>> /\ stage # "done"
        BY <2>1 DEF AInv, Emptied, Flush
      <3>. QED BY <2>1, <3>2, <3>3 DEF Flush, Emptied, Entered
    <2>. QED BY <2>1 DEF AInv, Emptied, Entered
  <1>2. \A q \in Selected : Due(q)' <=> Due(q)
    BY DEF Due, Collected, Under, Selected, Name, Crosses
  <1>3. Recorded(Entered)' /\ Owed(Entered)'
    BY <1>1, <1>2, TrailStays DEF AInv
  <1>. QED BY <1>1, <1>2, <1>3, RootedStays DEF AInv, Trailed

LEMMA AuditNext == AInv /\ [Next]_vars => AInv'
  <1>. SUFFICES ASSUME AInv, [Next]_vars PROVE AInv'
    OBVIOUS
  <1>. SUFFICES Trailed'
    BY WalkNext DEF AInv, Trailed
  <1>2. ASSUME NEW code, Refuse(code), caller \notin {"admin", "user"} PROVE Trailed'
    BY <1>2, RefuseKeepsTrail DEF HasIdentity
  <1>3. CASE IdentityFails \/ RefuseBanned \/ RefuseStaleToken
    BY <1>2, <1>3 DEF IdentityFails, RefuseBanned, RefuseStaleToken
  <1>4. CASE Admit
    BY <1>4, AdmitKeepsTrail
  <1>5. CASE Executes
    <2>1. Emptied'
      BY <1>5 DEF Executes, http, AInv, Emptied
    <2>. QED BY <1>5, <2>1, ExecutesKeepsTrail DEF Trailed
  <1>6. ASSUME NEW code, Answer(code), stage \in {"routed", "graphql"} PROVE Trailed'
    BY <1>6, RestKeepsTrail DEF Answer, gvars, context, execution
  <1>7. CASE MethodNotAllowed \/ RequireIdentity \/ Healthz \/ Readyz \/ Serve \/ Unusable \/ Replied
    BY <1>6, <1>7
    DEF MethodNotAllowed, RequireIdentity, Healthz, Readyz, Serve, Unusable, Replied
  <1>8. CASE Graphql
    BY <1>8, RestKeepsTrail DEF Graphql, gvars, context, execution
  <1>9. CASE Flush
    BY <1>9, RestKeepsTrail DEF Flush, context
  <1>10. CASE UNCHANGED vars
    <2>1. CASE stage = "received"
      <3>1. UNCHANGED <<doc, caller, ip, request, stage, state, object, ran, denials, buffer,
                        auditLog, phase>>
        BY <1>10 DEF vars, gvars, context, execution, http
      <3>2. \A q \in Selected : Due(q)' <=> Due(q)
        BY <3>1 DEF Due, Collected, Under, Selected, Name, Crosses
      <3>3. Entered' = Entered /\ Emptied'
        BY <3>1 DEF Entered, Emptied, AInv
      <3>4. Recorded(Entered)' /\ Owed(Entered)'
        BY <3>1, <3>2, <3>3, TrailStays DEF AInv
      <3>. QED BY <3>1, <3>2, <3>3, <3>4, RootedStays DEF AInv, Trailed
    <2>2. CASE stage # "received"
      BY <1>10, <2>2, RestKeepsTrail DEF vars, gvars, context, execution, http
    <2>. QED BY <2>1, <2>2
  <1>. QED
    BY <1>3, <1>4, <1>5, <1>7, <1>8, <1>9, <1>10 DEF Next

LEMMA AuditInit == Init => AInv
  <1>. SUFFICES ASSUME Init PROVE AInv
    OBVIOUS
  <1>1. WInv
    BY WalkInit
  <1>2. /\ stage = "received" /\ phase = "received" /\ buffer = <<>> /\ auditLog = <<>>
        /\ denials = 0
    BY DEF Init, GInit
  <1>3. (\A p : ~Due(p)) /\ ran = <<>>
    BY <1>1, <1>2, NothingDue
  <1>4. DOMAIN <<>> = {} /\ <<>> \in Seq({})
    OBVIOUS
  <1>5. Denied(<<>>) = {}
    BY <1>4 DEF Denied
  <1>6. Recorded(<<>>) /\ Owed(<<>>)
    BY <1>2, <1>3, <1>4, <1>5, FS_EmptySet DEF Recorded, Owed, Listed, SignsIn
  <1>. QED BY <1>1, <1>2, <1>3, <1>6 DEF AInv, Emptied, Entered, Rooted

LEMMA AuditInvariant == Spec => []AInv
  BY AuditInit, AuditNext, PTL DEF Spec

-----------------------------------------------------------------------------
\* One entry, or none, for each root field of a document that was answered.
LEMMA OwedOnce ==
    ASSUME AInv, phase = "answered", NEW p \in Under(<<>>)
    PROVE  Cardinality({i \in DOMAIN Entered : Entered[i].root = p}) = Owes(p)
  <1>. DEFINE Of == {i \in DOMAIN Entered : Entered[i].root = p}
  <1>1. p \in Selected \ {<<>>} /\ Front(p) = <<>>
    BY DEF Under
  <1>2. Due(p) <=> Owes(p) = 1
    <2>1. p \in Collected(<<>>) => Done(p)
      <3>1. object[<<>>] # None => Done(<<>>)
        BY RootSelected DEF AInv, WInv, GInv, Shape, Grown, Done
      <3>. QED BY <3>1, RootSelected DEF AInv, WInv, Grown, Collected
    <2>2. p \in Collected(<<>>) => Name(p) \in {"viewer", "admin", "signOut"}
      <3>1. DOMAIN Fields["Query"] = {"viewer", "admin"}
            /\ DOMAIN Fields["Mutation"] = {"signOut", "admin"}
        BY DEF Fields, QueryFields, MutationFields
      <3>. QED BY <3>1, RootKind DEF AInv, Collected
    <2>3. doc.operation \in {"query", "mutation"}
      BY DocumentsAssumption DEF AInv, WInv, GInv, Shape
    <2>. QED BY <2>1, <2>2, <2>3 DEF Due, Crosses, Owes, Done
  <1>3. Owes(p) \in {0, 1}
    BY DEF Owes
  <1>4. \A i \in Of : Due(p)
    BY <1>1 DEF AInv, Recorded, RecordsSignIn, Records
  <1>5. CASE Due(p)
    <2>1. PICK i \in DOMAIN Entered : Entered[i].root = p
      BY <1>1, <1>5 DEF AInv, Owed
    <2>2. Of = {i}
      BY <2>1 DEF AInv, Recorded
    <2>. QED BY <1>2, <1>5, <2>2, FS_Singleton
  <1>6. CASE ~Due(p)
    <2>1. Of = {}
      BY <1>4, <1>6
    <2>. QED BY <1>2, <1>3, <1>6, <2>1, FS_EmptySet
  <1>. QED BY <1>5, <1>6

\* The audit log tells what crossed the boundary: an entry for every crossing, denied or
\* not, none for anything else, none of them twice, whatever overlaps in the document,
\* and it is there before any command below it runs.
THEOREM CrossingsAudited == Spec => []EveryCrossingAudited
  <1>1. AInv => EveryCrossingAudited
    <2>. SUFFICES ASSUME AInv PROVE EveryCrossingAudited
      OBVIOUS
    <2>1. auditLog \o buffer = Entered
      <3>1. PICK S : Entered \in Seq(S)
        BY DEF AInv, Recorded, Listed
      <3>2. Entered \o <<>> = Entered /\ <<>> \o Entered = Entered
        BY <3>1, ConcatEmptySeq
      <3>. QED BY <3>2 DEF AInv, Emptied, Entered
    <2>2. ASSUME NEW i \in DOMAIN Entered
          PROVE  /\ Entered[i].ip = ip /\ Entered[i].detail \in {Whole(0), AuditVariables}
                 /\ Entered[i].action = "sign_in" <=> Entered[i].root = <<>>
                 /\ Entered[i].action = "sign_in" => SignsIn
                 /\ Entered[i].denied <=>
                       caller # "admin" /\ Entered[i].action \notin {"sign_in", "sign_out"}
      <3>. DEFINE e == Entered[i]
      <3>1. doc.operation \in {"query", "mutation"}
        BY DocumentsAssumption DEF AInv, WInv, GInv, Shape
      <3>2. RecordsSignIn(e) \/ \E p \in Selected \ {<<>>} : Due(p) /\ Records(e, p)
        BY CollectedSelected DEF AInv, Recorded, Due
      <3>. HIDE DEF e
      <3>. QED BY <3>1, <3>2 DEF RecordsSignIn, Records, e
    <2>3. ASSUME NEW i \in DOMAIN ran
          PROVE  \E j \in DOMAIN Entered :
                    Entered[j].root = SubSeq(ran[i].path, 1, 1) /\ ~Entered[j].denied
      <3>. DEFINE root == SubSeq(ran[i].path, 1, 1)
      <3>1. Due(root) /\ (Name(root) = "signOut" \/ caller = "admin")
        BY DEF AInv, Rooted
      <3>2. root \in Selected \ {<<>>}
        BY <3>1, CollectedSelected DEF Due
      <3>3. PICK j \in DOMAIN Entered : Entered[j].root = root
        BY <3>1, <3>2 DEF AInv, Owed
      <3>. HIDE DEF root
      <3>4. Records(Entered[j], root)
        BY <3>2, <3>3 DEF AInv, Recorded, RecordsSignIn, Records
      <3>5. ~Entered[j].denied
        BY <3>1, <3>4 DEF Records
      <3>. QED BY <3>3, <3>5 DEF root
    <2>4. denials = Cardinality({i \in DOMAIN Entered : Entered[i].denied})
      BY DEF AInv, Recorded, Denied
    <2>5. Trail(Entered)
      BY <2>2, <2>3, <2>4, OwedOnce DEF Trail
    <2>6. ASSUME stage = "done"
          PROVE  /\ buffer = <<>> /\ auditLog = Entered
                 /\ \A i \in DOMAIN Entered : Entered[i].ip = ip /\ DetailFits(Entered[i].detail)
                 /\ HasIdentity /\ request.fresh <=>
                       \E i \in DOMAIN Entered : Entered[i].action = "sign_in"
      <3>1. doc \in Documents
        BY DEF AInv, WInv, GInv, Shape
      <3>2. \A d \in {Whole(0), AuditVariables} : DetailFits(d)
        BY <3>1, DetailsFit
      <3>3. SignsIn <=> HasIdentity /\ request.fresh
        BY <2>6 DEF SignsIn
      <3>4. SignsIn => \E i \in DOMAIN Entered : Entered[i].root = <<>>
        BY DEF AInv, Owed
      <3>5. buffer = <<>> /\ auditLog = Entered
        BY <2>6 DEF AInv, Emptied, Entered
      <3>. QED BY <2>2, <3>2, <3>3, <3>4, <3>5
    <2>. QED BY <2>1, <2>5, <2>6 DEF EveryCrossingAudited
  <1>. QED BY <1>1, AuditInvariant, PTL
=============================================================================
