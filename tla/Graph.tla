------------------------------- MODULE Graph -------------------------------
(***************************************************************************)
(* The execution of one GraphQL document: the tables gqlgen generated from *)
(* the schema, the executor that walks a selection with them, the          *)
(* resolvers and the admin boundary, and what becomes of nulls and errors. *)
(*                                                                         *)
(* A field of the document is named by its path, a sequence of response    *)
(* keys.  Values are left out except for what the executor tells apart:    *)
(* null or not, and of which object type.  The rows of a list are walked   *)
(* with the same tables, so one of them stands for all; a list may also    *)
(* have none.                                                              *)
(***************************************************************************)
EXTENDS Naturals, Sequences, SequencesExt, FiniteSets

CONSTANTS
    Documents,        \* what clients send
    Alias,            \* the field that each aliased response key stands for
    ComplexityLimit,  \* fields in a document (60 in the code)
    MaxDetail,        \* bytes of an audit detail (4000 in the code)
    MaxActionFields,  \* fields named in an audit action (8 in the code)
    None

-----------------------------------------------------------------------------
\* The field functions of each type: what a field returns and how it comes by
\* it.  A column of the row cannot fail; a call goes to a resolver.
Column(type) == [type |-> type, required |-> TRUE, list |-> FALSE, call |-> FALSE]
Call(type) == [Column(type) EXCEPT !.call = TRUE]
Optional(f) == [f EXCEPT !.required = FALSE]
ListOf(f) == [f EXCEPT !.list = TRUE]

QueryFields == [viewer |-> Call("Viewer"), admin |-> Call("AdminQuery")]
MutationFields == [signOut |-> Call("SignOutPayload"), admin |-> Call("AdminMutation")]
ViewerFields == [user |-> Optional(Call("User")), role |-> Call("ViewerRole")]
UserFields ==
    [id |-> Column("Int64"), email |-> Column("String"), name |-> Column("String"),
     createdAt |-> Column("Timestamp")]
TimestampFields == [unix |-> Column("Int64"), formatted |-> Column("String")]
SignOutPayloadFields == [redirectUrl |-> Column("String")]
AdminQueryFields ==
    [users |-> Call("UsersConnection"), user |-> Optional(Call("AdminUser")),
     admins |-> Call("AdminsConnection"), auditLog |-> Call("AuditLogConnection"),
     buildGitCommit |-> Call("String")]
AdminMutationFields ==
    [banUser |-> Call("BanUserOrErrorPayload"), unbanUser |-> Call("UnbanUserOrErrorPayload"),
     makeAdmin |-> Call("MakeAdminOrErrorPayload"),
     removeAdmin |-> Call("RemoveAdminOrErrorPayload")]
UsersConnectionFields ==
    [totalCount |-> Call("Int64"), nodes |-> ListOf(Call("AdminUser"))]
AdminUserFields ==
    [id |-> Column("Int64"), email |-> Column("String"), name |-> Column("String"),
     createdAt |-> Column("Timestamp"), lastSignInAt |-> Optional(Column("Timestamp")),
     isAdmin |-> Call("Boolean"), banReason |-> Column("String")]
AdminsConnectionFields ==
    [totalCount |-> Call("Int64"), nodes |-> ListOf(Call("Admin"))]
AdminFields ==
    [userId |-> Column("Int64"), email |-> Column("String"), name |-> Column("String"),
     createdAt |-> Column("Timestamp")]
AuditLogConnectionFields ==
    [totalCount |-> Column("Int64"), nodes |-> ListOf(Column("AuditLogEntry")),
     pageInfo |-> Column("PageInfo")]
PageInfoFields == [hasNextPage |-> Column("Boolean"), endCursor |-> Optional(Column("Int64"))]
AuditLogEntryFields ==
    [id |-> Column("Int64"), userId |-> Optional(Column("Int64")), email |-> Column("String"),
     action |-> Column("String"), detail |-> Column("String"), ip |-> Column("String"),
     createdAt |-> Column("Timestamp")]
BanUserPayloadFields == [userId |-> Column("Int64")]
UnbanUserPayloadFields == [userId |-> Column("Int64")]
MakeAdminPayloadFields == [userId |-> Column("Int64")]
RemoveAdminPayloadFields == [userId |-> Column("Int64")]
ErrorPayloadFields ==
    [message |-> Column("String"), byFields |-> ListOf(Column("FieldMessage"))]
FieldMessageFields == [name |-> Column("String"), value |-> Column("String")]

Fields ==
    [Query |-> QueryFields, Mutation |-> MutationFields, Viewer |-> ViewerFields,
     User |-> UserFields, Timestamp |-> TimestampFields,
     SignOutPayload |-> SignOutPayloadFields, AdminQuery |-> AdminQueryFields,
     AdminMutation |-> AdminMutationFields, UsersConnection |-> UsersConnectionFields,
     AdminUser |-> AdminUserFields, AdminsConnection |-> AdminsConnectionFields,
     Admin |-> AdminFields, AuditLogConnection |-> AuditLogConnectionFields,
     PageInfo |-> PageInfoFields, AuditLogEntry |-> AuditLogEntryFields,
     BanUserPayload |-> BanUserPayloadFields, UnbanUserPayload |-> UnbanUserPayloadFields,
     MakeAdminPayload |-> MakeAdminPayloadFields,
     RemoveAdminPayload |-> RemoveAdminPayloadFields,
     ErrorPayload |-> ErrorPayloadFields, FieldMessage |-> FieldMessageFields]

-----------------------------------------------------------------------------
\* The object functions of each type: which fields run one after the other
\* where they stand, which are left for Dispatch to run together, and which
\* count against the object when they are null.
Inline(counted) == [together |-> {}, counted |-> counted]
Together(counted) == [together |-> counted, counted |-> counted]
AlsoInline(o, names) == [o EXCEPT !.counted = @ \cup names]
AlsoTogether(o, names) == [o EXCEPT !.together = @ \cup names]

\* Mutant: root fields of a mutation run together, as those of a query do.
MutationObjectTogether == Together({"signOut", "admin"})
\* Mutant: a null command result is let through.
AdminMutationObjectLax == AlsoTogether(Together({"banUser", "makeAdmin"}), {"unbanUser", "removeAdmin"})

QueryObject == Together({"viewer", "admin"})
MutationObject == Inline({"signOut", "admin"})
ViewerObject == AlsoTogether(Together({"role"}), {"user"})
UserObject == Inline({"id", "email", "name", "createdAt"})
TimestampObject == Inline({"unix", "formatted"})
SignOutPayloadObject == Inline({"redirectUrl"})
AdminQueryObject ==
    AlsoTogether(Together({"users", "admins", "auditLog", "buildGitCommit"}), {"user"})
AdminMutationObject == Together({"banUser", "unbanUser", "makeAdmin", "removeAdmin"})
UsersConnectionObject == Together({"totalCount", "nodes"})
AdminUserObject ==
    AlsoInline(Together({"isAdmin"}), {"id", "email", "name", "createdAt", "banReason"})
AdminsConnectionObject == Together({"totalCount", "nodes"})
AdminObject == Inline({"userId", "email", "name", "createdAt"})
AuditLogConnectionObject == Inline({"totalCount", "nodes", "pageInfo"})
PageInfoObject == Inline({"hasNextPage"})
AuditLogEntryObject == Inline({"id", "email", "action", "detail", "ip", "createdAt"})
BanUserPayloadObject == Inline({"userId"})
UnbanUserPayloadObject == Inline({"userId"})
MakeAdminPayloadObject == Inline({"userId"})
RemoveAdminPayloadObject == Inline({"userId"})
ErrorPayloadObject == Inline({"message", "byFields"})
FieldMessageObject == Inline({"name", "value"})

Objects ==
    [Query |-> QueryObject, Mutation |-> MutationObject, Viewer |-> ViewerObject,
     User |-> UserObject, Timestamp |-> TimestampObject,
     SignOutPayload |-> SignOutPayloadObject, AdminQuery |-> AdminQueryObject,
     AdminMutation |-> AdminMutationObject, UsersConnection |-> UsersConnectionObject,
     AdminUser |-> AdminUserObject, AdminsConnection |-> AdminsConnectionObject,
     Admin |-> AdminObject, AuditLogConnection |-> AuditLogConnectionObject,
     PageInfo |-> PageInfoObject, AuditLogEntry |-> AuditLogEntryObject,
     BanUserPayload |-> BanUserPayloadObject, UnbanUserPayload |-> UnbanUserPayloadObject,
     MakeAdminPayload |-> MakeAdminPayloadObject,
     RemoveAdminPayload |-> RemoveAdminPayloadObject,
     ErrorPayload |-> ErrorPayloadObject, FieldMessage |-> FieldMessageObject]

\* The union functions: the object a command's result is written as.
BanUserOrErrorPayload == [payload |-> "BanUserPayload", refusal |-> "ErrorPayload"]
UnbanUserOrErrorPayload == [payload |-> "UnbanUserPayload", refusal |-> "ErrorPayload"]
MakeAdminOrErrorPayload == [payload |-> "MakeAdminPayload", refusal |-> "ErrorPayload"]
RemoveAdminOrErrorPayload == [payload |-> "RemoveAdminPayload", refusal |-> "ErrorPayload"]
Unions ==
    [BanUserOrErrorPayload |-> BanUserOrErrorPayload,
     UnbanUserOrErrorPayload |-> UnbanUserOrErrorPayload,
     MakeAdminOrErrorPayload |-> MakeAdminOrErrorPayload,
     RemoveAdminOrErrorPayload |-> RemoveAdminOrErrorPayload]

\* The argument functions, and the input objects they unmarshal.
BanUserInput == [userId |-> "Int64", reason |-> "String"]
UnbanUserInput == [userId |-> "Int64"]
MakeAdminInput == [userId |-> "Int64"]
RemoveAdminInput == [userId |-> "Int64"]
AdminMutationArguments ==
    [banUser |-> BanUserInput, unbanUser |-> UnbanUserInput,
     makeAdmin |-> MakeAdminInput, removeAdmin |-> RemoveAdminInput]
AdminQueryArguments ==
    [user |-> [id |-> "Int64"], auditLog |-> [limit |-> "Int64", before |-> "Int64"]]
TimestampArguments == [formatted |-> [layout |-> "String"]]
Arguments ==
    [AdminMutation |-> AdminMutationArguments, AdminQuery |-> AdminQueryArguments,
     Timestamp |-> TimestampArguments]

-----------------------------------------------------------------------------
VARIABLES
    doc,      \* the document: its operation, its fields' paths in order, the
              \* arguments that are no Int64, the runes of its variables
    caller,   \* whose request it is: an admin's or not
    ip,       \* the address the request is recorded under
    phase,    \* where the operation is
    state,    \* of each path: waiting, open (its object is being written),
              \* value, null
    object,   \* the type of the object at each path, None where there is none
    errors,   \* the errors of the response, as the client reads them
    ran,      \* the mutations called so far, in order, with their outcome
    buffer,   \* the request's audit buffer
    denials   \* admin_denied_total
execution == <<phase, state, object, errors, ran, buffer, denials>>
context == <<doc, caller, ip>>
gvars == <<context, execution>>

Paths(d) == {<<>>} \cup ToSet(d.paths)
Selected == Paths(doc)
Name(p) == IF Last(p) \in DOMAIN Alias THEN Alias[Last(p)] ELSE Last(p)
Above(p) == object[Front(p)]
FieldOf(p) == Fields[Above(p)][Name(p)]
Done(p) == state[p] \in {"value", "null"}

Under(p) == {q \in Selected \ {<<>>} : Front(q) = p}

\* CollectFields: a fragment on another type selects nothing.
Collected(p) ==
    {q \in Under(p) : object[p] # None /\ Name(q) \in DOMAIN Fields[object[p]]}

RootType(d) == IF d.operation = "query" THEN "Query" ELSE "Mutation"
Namespaces == {"AdminQuery", "AdminMutation"}
Precedes(p, q) ==
    \E j \in DOMAIN doc.paths : doc.paths[j] = q /\ \E i \in 1 .. j - 1 : doc.paths[i] = p

\* A document's fields are nested: with each of them it selects the one around it.
\* Its variables are text, of runes of one to four bytes.
ASSUME DocumentsAssumption ==
    /\ \A d \in Documents :
          /\ d.operation \in {"query", "mutation"}
          /\ d.paths \in Seq(Seq(STRING) \ {<<>>})
          /\ \A p \in Paths(d) : Front(p) \in Paths(d)
          /\ d.variables \in Seq(1 .. 4)
    /\ MaxDetail \in Nat
    /\ None \notin DOMAIN Objects

GInit ==
    /\ doc \in Documents
    /\ phase = "received"
    /\ state = [p \in Paths(doc) |-> "waiting"]
    /\ object = [p \in Paths(doc) |-> None]
    /\ errors = {} /\ ran = <<>> /\ buffer = <<>> /\ denials = 0

-----------------------------------------------------------------------------
\* The audit entry of a crossing.

\* How many bytes the first so many runes are, by the bytes of each.
Offsets(s) ==
    LET at[i \in 0 .. Len(s)] == IF i = 0 THEN 0 ELSE at[i - 1] + s[i]
    IN  at
Bytes(s) == Offsets(s)[Len(s)]
RuneStarts(s) == {Offsets(s)[i] : i \in 0 .. Len(s)}
Whole(n) == [kept |-> n, cut |-> FALSE]

\* Step back from the limit to where a rune starts.
Truncate(s) ==
    LET back[n \in 0 .. MaxDetail] ==
            IF n = 0 \/ n \in RuneStarts(s) THEN n ELSE back[n - 1]
    IN  IF Bytes(s) <= MaxDetail THEN Whole(Bytes(s))
        ELSE [kept |-> back[MaxDetail], cut |-> TRUE]

\* Without variables there is no detail.
AuditVariables == Truncate(doc.variables)

\* The selected fields, each once however often it is aliased, up to a cap that
\* keeps those first in the alphabet (which a set of few names does not reach).
SelectedFieldNames(p) ==
    LET names == {Name(q) : q \in Under(p)}
    IN  IF Cardinality(names) <= MaxActionFields THEN names
        ELSE CHOOSE n \in SUBSET names : Cardinality(n) = MaxActionFields

Entry(p, denied, detail) ==
    [root |-> p, denied |-> denied, action |-> doc.operation,
     fields |-> SelectedFieldNames(p), detail |-> detail, ip |-> ip]

\* The two entries that are no crossing of the boundary.
Plain(action, p) ==
    [root |-> p, denied |-> FALSE, action |-> action, fields |-> {}, detail |-> Whole(0), ip |-> ip]

-----------------------------------------------------------------------------
\* The executor.

\* errorPresenter: only a refusal at the boundary and what the parser said pass.
Present(cause) == IF cause \in {"unauthorized", "too complex"} THEN cause ELSE "internal error"

\* Mutant: what failed is reported for the response as a whole.
AddErrorAtRoot(p, cause) == errors' = errors \cup {[path |-> <<>>, text |-> Present(cause)]}

AddError(p, cause) == errors' = errors \cup {[path |-> p, text |-> Present(cause)]}

\* Mutant: a field waits for every field written before it.
RunnableInTurn(p) ==
    LET together == Objects[Above(p)].together
    IN  /\ phase = "running"
        /\ p # <<>> /\ state[p] = "waiting"
        /\ state[Front(p)] = "open" /\ p \in Collected(Front(p))
        /\ \A q \in Collected(Front(p)) :
              Precedes(q, p) \/ (Name(p) \in together /\ Name(q) \notin together) => Done(q)

\* A field's function may start: its object is being written and the fields that
\* run before it are complete.
Runnable(p) ==
    LET together == Objects[Above(p)].together
    IN  /\ phase = "running"
        /\ p # <<>> /\ state[p] = "waiting"
        /\ state[Front(p)] = "open" /\ p \in Collected(Front(p))
        /\ \A q \in Collected(Front(p)) :
              Name(q) \notin together /\ (Name(p) \in together \/ Precedes(q, p)) => Done(q)

\* The arguments do not unmarshal: a string always does, a number may not.
ArgumentsFail(p) ==
    /\ Above(p) \in DOMAIN Arguments /\ Name(p) \in DOMAIN Arguments[Above(p)]
    /\ \E a \in DOMAIN Arguments[Above(p)][Name(p)] :
          <<p, a>> \in doc.bad /\ Arguments[Above(p)][Name(p)][a] = "Int64"

\* Mutant: a scalar is walked as if it were an object.
OpenEverything(p, type) ==
    state' = [state EXCEPT ![p] = "open"] /\ object' = [object EXCEPT ![p] = type]

\* The field's value is there: a scalar is written, an object is opened.
Open(p, type) ==
    /\ state' = [state EXCEPT ![p] = IF type \in DOMAIN Objects THEN "open" ELSE "value"]
    /\ object' = [object EXCEPT ![p] = IF type \in DOMAIN Objects THEN type ELSE None]

Null(p) == state' = [state EXCEPT ![p] = "null"] /\ UNCHANGED object

\* Mutant: a denial is recorded and the marker object handed out all the same.
CheckAdminRecords(p) ==
    /\ Runnable(p) /\ FieldOf(p).type \in Namespaces
    /\ buffer' = Append(buffer, Entry(p, caller # "admin", AuditVariables))
    /\ Open(p, FieldOf(p).type)
    /\ UNCHANGED <<context, phase, errors, ran, denials>>
\* Mutant: only what succeeds is recorded.
CheckAdminSilent(p) ==
    /\ Runnable(p) /\ FieldOf(p).type \in Namespaces
    /\ IF caller = "admin"
       THEN /\ buffer' = IF doc.operation = "mutation"
                         THEN Append(buffer, Entry(p, FALSE, AuditVariables)) ELSE buffer
            /\ Open(p, FieldOf(p).type)
            /\ UNCHANGED <<errors, denials>>
       ELSE /\ denials' = denials + 1
            /\ AddError(p, "unauthorized") /\ Null(p)
            /\ UNCHANGED buffer
    /\ UNCHANGED <<context, phase, ran>>

\* The admin field: checked once, for every field underneath.
CheckAdmin(p) ==
    /\ Runnable(p) /\ FieldOf(p).type \in Namespaces
    /\ IF caller = "admin"
       THEN /\ buffer' = IF doc.operation = "mutation"
                         THEN Append(buffer, Entry(p, FALSE, AuditVariables)) ELSE buffer
            /\ Open(p, FieldOf(p).type)
            /\ UNCHANGED <<errors, denials>>
       ELSE /\ buffer' = Append(buffer, Entry(p, TRUE, AuditVariables))
            /\ denials' = denials + 1
            /\ AddError(p, "unauthorized") /\ Null(p)
    /\ UNCHANGED <<context, phase, ran>>

RefuseArguments(p) ==
    /\ Runnable(p) /\ ArgumentsFail(p)
    /\ AddError(p, "argument") /\ Null(p)
    /\ UNCHANGED <<context, phase, ran, buffer, denials>>

\* A command's method on app: its transaction commits and returns a payload or a
\* refusal, or it fails, by an error or a panic.
RunCommand(p) ==
    /\ Runnable(p) /\ FieldOf(p).type \in DOMAIN Unions
    /\ ~ArgumentsFail(p)
    /\ \/ \E member \in {"payload", "refusal"} :
             /\ Open(p, Unions[FieldOf(p).type][member])
             /\ ran' = Append(ran, [path |-> p, outcome |-> member])
             /\ UNCHANGED errors
       \/ /\ AddError(p, "command") /\ Null(p)
          /\ ran' = Append(ran, [path |-> p, outcome |-> "failure"])
    /\ UNCHANGED <<context, phase, buffer, denials>>

SignOut(p) ==
    /\ Runnable(p) /\ FieldOf(p).type = "SignOutPayload"
    /\ Open(p, "SignOutPayload")
    /\ ran' = Append(ran, [path |-> p, outcome |-> "payload"])
    /\ buffer' = Append(buffer, Plain("sign_out", p))
    /\ UNCHANGED <<context, phase, errors, denials>>

\* The resolvers that read nothing and the markers cannot fail.
Infallible ==
    {<<"Query", "viewer">>, <<"Viewer", "user">>, <<"Viewer", "role">>,
     <<"AdminQuery", "users">>, <<"AdminQuery", "admins">>,
     <<"AdminQuery", "buildGitCommit">>, <<"AdminUser", "isAdmin">>}

\* A resolver of Query, or a column.  A list may have no rows.
Read(p) ==
    /\ Runnable(p) /\ ~ArgumentsFail(p)
    /\ FieldOf(p).type \notin Namespaces \cup DOMAIN Unions \cup {"SignOutPayload"}
    /\ \/ Open(p, FieldOf(p).type) /\ UNCHANGED errors
       \/ FieldOf(p).list /\ Open(p, None) /\ UNCHANGED errors
       \/ \* no such account, never signed in, nobody's entry, no page
          /\ ~FieldOf(p).required /\ <<Above(p), Name(p)>> # <<"Viewer", "user">>
          /\ Null(p) /\ UNCHANGED errors
       \/ /\ FieldOf(p).call /\ <<Above(p), Name(p)>> \notin Infallible
          /\ AddError(p, "read") /\ Null(p)
    /\ UNCHANGED <<context, phase, ran, buffer, denials>>

\* Everything an object selects is written: it is null if a field that counts is.
Invalid(p) ==
    \E q \in Collected(p) : state[q] = "null" /\ Name(q) \in Objects[object[p]].counted

\* Mutant: the first null ends it, whatever is still to run.
CompleteEarly(p) ==
    /\ phase = "running" /\ state[p] = "open"
    /\ (\A q \in Collected(p) : Done(q)) \/ Invalid(p)
    /\ state' = [state EXCEPT ![p] = IF Invalid(p) THEN "null" ELSE "value"]
    /\ phase' = IF p = <<>> THEN "answered" ELSE phase
    /\ UNCHANGED <<context, object, errors, ran, buffer, denials>>

Complete(p) ==
    /\ phase = "running" /\ state[p] = "open"
    /\ \A q \in Collected(p) : Done(q)
    /\ state' = [state EXCEPT ![p] = IF Invalid(p) THEN "null" ELSE "value"]
    /\ phase' = IF p = <<>> THEN "answered" ELSE phase
    /\ UNCHANGED <<context, object, errors, ran, buffer, denials>>

\* The transport parsed and validated the document; one that is too complex is
\* answered without being executed.
Execute ==
    /\ phase = "received"
    /\ IF Len(doc.paths) > ComplexityLimit
       THEN phase' = "answered" /\ AddError(<<>>, "too complex") /\ UNCHANGED <<state, object>>
       ELSE phase' = "running" /\ Open(<<>>, RootType(doc)) /\ UNCHANGED errors
    /\ UNCHANGED <<context, ran, buffer, denials>>

FieldStep(p) ==
    CheckAdmin(p) \/ RefuseArguments(p) \/ RunCommand(p) \/ SignOut(p) \/ Read(p) \/ Complete(p)

GNext == Execute \/ \E p \in Selected : FieldStep(p)
-----------------------------------------------------------------------------
\* Properties.

Executed == phase = "answered" /\ state[<<>>] # "waiting"
Kinds == DOMAIN Objects \cup {None}

GTypeOK ==
    /\ phase \in {"received", "running", "answered"}
    /\ state \in [Selected -> {"waiting", "open", "value", "null"}]
    /\ object \in [Selected -> Kinds]
    /\ \A e \in errors : e.path \in Selected
    /\ \A i \in DOMAIN ran :
          ran[i].path \in Selected /\ ran[i].outcome \in {"payload", "refusal", "failure"}
    /\ denials \in Nat

\* No object reaches the client with a null where the schema promises a value:
\* the object functions count exactly what the schema marks as required, and a
\* null of that kind takes its parent with it, up to data itself.
NoRequiredNull ==
    \A p \in Selected \ {<<>>} :
        state[p] = "null" /\ state[Front(p)] = "value" /\ p \in Collected(Front(p))
            => ~FieldOf(p).required

\* A null where a value was promised has its reason among the errors, at the
\* field or below it: the nulls of accounts that are not there explain nothing
\* away and are no reason for another.
NullsExplained ==
    \A p \in Selected :
        state[p] = "null" /\ (p = <<>> \/ FieldOf(p).required)
            => \E e \in errors : IsPrefix(p, e.path)

\* What reaches the client has its nulls accounted for, in both directions.
NullsAccounted == NoRequiredNull /\ NullsExplained

\* The root fields of a mutation take effect in document order: a command or a
\* sign-out runs when everything above it in the document is complete, although
\* the commands of one namespace overlap.
RootsInOrder ==
    [][Len(ran') > Len(ran) =>
          LET root == SubSeq(Last(ran').path, 1, 1)
          IN  \A q \in Collected(<<>>) : Precedes(q, root) => Done(q)]_gvars

\* Whoever is no admin gets nothing done and nothing read under an admin field,
\* whatever else the document selects beside it and however it is aliased.
NothingBehindDenial ==
    caller # "admin" =>
        /\ \A p \in Selected : object[p] \notin Namespaces
        /\ \A i \in DOMAIN ran : Name(ran[i].path) = "signOut"

\* What the audit log must hold for the root field p.
Owes(p) ==
    IF p \notin Collected(<<>>) \/ ~Done(p) \/ Name(p) = "viewer" THEN 0
    ELSE IF Name(p) = "admin" /\ caller = "admin" /\ doc.operation = "query" THEN 0
    ELSE 1

\* The entries are those of the crossings: no command ran before its crossing was
\* entered, and in the end there is one for each root field that calls for it.
Trail(entries) ==
    /\ \A i \in DOMAIN ran :
          \E j \in DOMAIN entries : entries[j].root = SubSeq(ran[i].path, 1, 1) /\ ~entries[j].denied
    /\ phase = "answered" =>
          /\ \A p \in Under(<<>>) : Cardinality({i \in DOMAIN entries : entries[i].root = p}) = Owes(p)
          /\ denials = Cardinality({i \in DOMAIN entries : entries[i].denied})
          /\ \A i \in DOMAIN entries :
                entries[i].denied <=> caller # "admin" /\ entries[i].action \notin {"sign_in", "sign_out"}

\* An admin's mutation runs every command it selects whose arguments are good,
\* once each: a sibling that failed, or that made the whole answer null, does not
\* keep a command that was already promised from running before the answer.
SiblingsRun ==
    Executed /\ caller = "admin" =>
        \A p \in Selected :
            /\ Len(p) = 2 /\ Name(Front(p)) = "admin" /\ doc.operation = "mutation"
            /\ p \in Collected(Front(p)) /\ ~ArgumentsFail(p)
            => Cardinality({i \in DOMAIN ran : ran[i].path = p}) = 1

\* The answer tells the commands that failed from those that committed, also
\* when its data is null: a failed one, and no other, is named by an error.
FailuresNamed ==
    \A i \in DOMAIN ran :
        ran[i].outcome = "failure" <=> \E e \in errors : e.path = ran[i].path

\* A detail that was cut ends where a rune ends, within the limit, and no longer
\* prefix would have fitted.
DetailFits(d) ==
    d.cut => /\ d.kept \in RuneStarts(doc.variables) /\ d.kept <= MaxDetail
             /\ \A n \in RuneStarts(doc.variables) : n > d.kept => n > MaxDetail
=============================================================================
