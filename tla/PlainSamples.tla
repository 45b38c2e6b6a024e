---------------------------- MODULE PlainSamples ----------------------------
(***************************************************************************)
(* The pure parts of the system whose inputs are not nested to any depth:  *)
(* relation filters, row-level security, rules of access, what is          *)
(* generated from the schema, operations on arrays and uploads.  A step    *)
(* picks one input as the sample, the properties say of it what the        *)
(* computation of the code owes its callers; SamplesProofs says it of      *)
(* every input.                                                            *)
(***************************************************************************)
EXTENDS Common, Integers, FiniteSets, SequencesExt

CONSTANTS All,
          Contained   \* the pairs of a name and a longer one that contains its text

VARIABLE sample

Te == INSTANCE FilterTests
Se == INSTANCE RowSecurity
Ac == INSTANCE Access
Sc == INSTANCE Schema WITH Unnamed <- "unnamed"
Ar == INSTANCE ArrayUpdates
\* ALLOWED_FILE_UPLOAD_TYPES, which are compared with names of GraphQL types.
MimeTypes == {"image/jpeg", "image/png", "image/webp", "application/pdf"}
Up == INSTANCE Uploads WITH OtherTypes <- MimeTypes

(* The errors that the upload middleware hands over.                        *)
UploadErrors ==
    {"UnauthenticatedAppError", "InvalidStaticToken", "UnauthenticatedUserError",
     "DatabaseRecordNotFoundError", "FileIdIsMandatoryError", "FileUploadError",
     "InvalidFileUploadSizeError", "InvalidFileUploadExtensionError",
     "InvalidFileUploadSizeAndExtensionError"}

(* What samples are of, and the names of their types, fields and roles.     *)
Samplings == {"linked", "secured", "rules", "gate", "schema", "relations", "fields", "array",
              "upload"}
SampleNames == {"A", "B", "C", "p", "q", "v", "w", "user", "guest"}

ASSUME NamesAssumption ==
    None \notin UploadErrors \cup Sc!Scalars \cup Nat \cup Samplings \cup SampleNames

SampleInit == sample = [of |-> None]

Fresh == sample.of = None

Pick(s) == sample' = s

-----------------------------------------------------------------------------
(* Filters by a relation.                                                   *)

LinkTests == {Te!Leaf("own", "gt", {1}), Te!Leaf("own", "", {1}), Te!Leaf("own", "not", {1}),
              Te!Leaf("extra", "", {1})}

Collections == UNION {[S -> {{1}, {2}}] : S \in SUBSET {1, 2}}

PickLinked ==
    Fresh /\ \E isNone \in BOOLEAN, op \in {"one", "and", "or"}, tests \in SUBSET LinkTests,
                links \in SUBSET ({1, 2} \X {1, 2}), coll \in Collections :
        /\ tests # {} /\ (op = "one" => Cardinality(tests) = 1)
        /\ Pick([of |-> "linked", isNone |-> isNone, op |-> op, tests |-> tests,
                 links |-> links, coll |-> coll])

(* A filter <field>_some or <field>_none answers the documents of which     *)
(* some, or no, link passes its tests.  Tests of the related document are   *)
(* passed only by links to one that still exists; a test of an additional   *)
(* field is about the link itself and is passed by dangling ones too.  That *)
(* is so where a filter is about one of the two.  Beside tests of the       *)
(* related document that of an additional field is a condition of its own,  *)
(* which another link may meet, and the other tests, when there are none,   *)
(* are passed by every link that does not dangle: some answers all the      *)
(* documents with such a link that passes, and others; none answers, of     *)
(* and-ed tests, only documents without a link that passes, of or-ed ones   *)
(* all of these, and others (filters.js:39-134, 202-230).                   *)
RelationFilterMeans ==
    sample.of = "linked" =>
        LET Passes(l, t) ==
                IF t.on = "extra" THEN Te!Means("exact", t.op, t.arg, {l[2]})
                ELSE /\ l[1] \in DOMAIN sample.coll
                     /\ Te!Means("exact", t.op, t.arg, sample.coll[l[1]])
            Fits(l) == IF sample.op = "or" THEN \E t \in sample.tests : Passes(l, t)
                       ELSE \A t \in sample.tests : Passes(l, t)
            beside == sample.op # "one" /\ \E t \in sample.tests : t.on = "extra"
            fitting == {l \in sample.links : Fits(l)}
            holds == Te!RelationHolds(sample.isNone, sample.op, sample.tests, sample.links,
                                      sample.coll)
        IN /\ ~beside => (holds <=> (sample.isNone <=> fitting = {}))
           /\ beside /\ ~sample.isNone =>
                 ((\E l \in fitting : l[1] \in DOMAIN sample.coll) => holds)
           /\ beside /\ sample.isNone =>
                 IF sample.op = "and" THEN holds => fitting = {} ELSE fitting = {} => holds

-----------------------------------------------------------------------------
(* Row-level security on the field tenant.  A filter's parts that are       *)
(* filters of their own, p and q, are passed by the row or not.             *)

Mine == 1

Asked ==
    {Se!Leaf("id", "", {1}),
     Se!Leaf("tenant", "", {1}), Se!Leaf("tenant", "", {2}), Se!Leaf("tenant", "not", {1}),
     Se!Leaf("tenant", "in", {1, 2}), Se!Leaf("n", "gt", {1}), Se!Leaf("n", "lte", {1}),
     Se!Leaf("n", "not", {1}), Se!Connective("or", {"p", "q"}), Se!Connective("and", {"p", "q"})}

\* The tenants that the context, the user and the app of a request name.
Claims == {[tenant |-> t] : t \in {None, Mine, 2}}

PickSecured ==
    Fresh /\ \E by \in {"filter", "id"}, F \in SeqOf(Asked, 3), t \in 1 .. 2, n \in 0 .. 2,
                held \in SUBSET {"p", "q"}, ctx, user, app \in Claims,
                role \in {"USER", "ADMIN", "SYSTEM"}, bypass \in BOOLEAN :
        /\ by = "id" => F = <<Se!Leaf("id", "", {1})>>
        /\ IsInjective(F)
        /\ Len(F) > 1 => /\ ~bypass /\ role = "USER" /\ app.tenant = None
                         /\ ctx.tenant = None /\ user.tenant = Mine
        /\ Pick([of |-> "secured", by |-> by, filter |-> F,
                 row |-> [id |-> {1}, tenant |-> {t}, n |-> {n}], held |-> held,
                 request |-> [ctx |-> ctx, user |-> user, app |-> app, role |-> role,
                              bypass |-> bypass]])

(* A request that is not exempt and claims no tenant is refused every read. *)
(* Of the others, whatever filter a client sends to a list or a count, the  *)
(* rows that PostgreSQL answers are of the one tenant claimed - the         *)
(* context's, or else the user's, or else the app's - and where no key of   *)
(* the filter replaces another they are all of those that the rest of the   *)
(* filter asks for.  Of fetchById nothing of the kind holds: with a claim,  *)
(* whichever it is, the row of that id is answered, whoever's it is         *)
(* (rls.js:53-134, QueryController/index.js:89-131, 205-236,                *)
(* sqlModelGenerator.js:293-378).                                           *)
SecuredRows ==
    sample.of = "secured" =>
        LET F == sample.filter
            q == sample.request
            exempt == q.bypass \/ q.role \in {"ADMIN", "SYSTEM"}
            tenant == IF q.ctx.tenant # None THEN q.ctx.tenant
                      ELSE IF q.user.tenant # None THEN q.user.tenant ELSE q.app.tenant
            G == Se!AskedFor(sample.by, q, F, "tenant", "tenant")
            own(e) == e.op = "" /\ e.on = "tenant"
            mine == exempt \/ sample.row.tenant = {tenant}
            holds(H) == Se!SqlHolds(H, sample.row, sample.held)
        IN /\ Se!Refuses(q, "tenant") <=> ~exempt /\ tenant = None
           /\ sample.by = "id" => (holds(G) <=> holds(F))
           /\ (sample.by = "filter" /\ ~Se!Refuses(q, "tenant") /\ ~Se!SqlThrows(G)) =>
              /\ holds(G) => mine
              /\ (\A i \in DOMAIN G : G[i].op \in Se!Connectives \/ ~Se!Overwritten(G, i)) =>
                    holds(G) <=> mine /\ \A i \in DOMAIN F :
                                         \/ ~exempt /\ F[i].op \notin Se!Connectives /\ own(F[i])
                                         \/ holds(<<F[i]>>)

-----------------------------------------------------------------------------
(* Rules of access: one rule on one of the four places that a selection of  *)
(* a related record's field passes.                                         *)

Single(name) == [list |-> FALSE, names |-> {name}]

Entry == [apps : {All, Single("web"), Single("website"),
                  [list |-> TRUE, names |-> {"web", "admin"}]},
          roles : {{"user"}, {"superuser"}, {"user", "guest"}},
          ops : {All, {"SINGULAR"}, {"PLURAL"}}]

Places == {"type", "field", "far type", "far field"}

\* The directive as it is written.
Written(kind, rule, entries) ==
    LET entry(e) ==
            IF kind = "user"
            THEN [appName |-> e.apps, userRole |-> e.roles, operations |-> e.ops]
            ELSE [appName |-> e.apps, operations |-> e.ops]
    IN [rule |-> rule, permissions |-> [i \in DOMAIN entries |-> entry(entries[i])]]

\* Type A with the fields g and b, the relation to type B with the field h.
Ruled(place, kind, rule, entries) ==
    LET at(k, p) == IF p = place /\ kind = k THEN Written(kind, rule, entries) ELSE None
        type(k, p) == Ac!ReadRule(k, at(k, p))
        rule_of(k, p) == IF at(k, p) = None THEN None ELSE Ac!ReadRule(k, at(k, p))
        field(p, of) == [app |-> rule_of("app", p), user |-> rule_of("user", p), of |-> of,
                         marks |-> {}]
    IN [A |-> [app |-> type("app", "type"), user |-> type("user", "type"),
               fields |-> [b |-> field("field", "B"), g |-> field("none", None)]],
        B |-> [app |-> type("app", "far type"), user |-> type("user", "far type"),
               fields |-> [h |-> field("far field", None)]]]

FrontEnd == [app |-> [kind |-> "front"]]
Selection == {<<"b">>, <<"b", "h">>, <<"g">>}

\* A directive is there, and lists its permissions.
Listed(kind, rule, entries) ==
    LET d == Written(kind, rule, entries)
    IN /\ d # None /\ d.permissions # All
       /\ Ac!ReadRule(kind, d) # None /\ Ac!ReadRule(kind, d).entries # All

ASSUME RulesAssumption ==
    \A kind \in {"app", "user"}, rule \in {"allow", "deny"}, entries \in SeqOf(Entry, 2) :
        Listed(kind, rule, entries)

Apps == {None} \cup [kind : {"backend", "front", "other"}, static : BOOLEAN, valid : BOOLEAN,
                     integrated : BOOLEAN]
SampleUsers == {None, All} \cup [status : {"active", "blocked"}, roles : {{}, {"user"}}]

PickRule ==
    Fresh /\ \E kind \in {"app", "user"}, place \in Places, entries \in SeqOf(Entry, 2) \ {<<>>},
                app \in {"web", "admin"}, role \in {"user", "guest"}, op \in {"SINGULAR", "PLURAL"} :
        /\ kind = "app" => \A i \in DOMAIN entries : entries[i].roles = {"user"}
        /\ \A rule \in {"allow", "deny"} : ~Ac!Malformed(kind, Written(kind, rule, entries))
        /\ Pick([of |-> "rules", kind |-> kind, place |-> place, entries |-> entries,
                 app |-> app, role |-> role, op |-> op])

PickGate ==
    Fresh /\ \E app \in Apps, user \in SampleUsers, needsUser, bypass \in BOOLEAN,
                granted \in SUBSET {"fetch"} :
        Pick([of |-> "gate", granted |-> granted,
              auth |-> [app |-> app, user |-> user, needsUser |-> needsUser, bypass |-> bypass]])

(* What a rule covers, by its entries as they are written.  What an app     *)
(* rule covers is up to its first entry for just this app, later ones for   *)
(* it being lost; a user rule covers what any of its entries does, and a    *)
(* role that lies in the text of one that it names.                         *)
Covered(kind, entries, app, role, op) ==
    LET within(x, text) == x = text \/ <<x, text>> \in Contained
        ofApps(apps) == \/ apps = All
                        \/ \E name \in apps.names :
                              app = name \/ (~apps.list /\ within(app, name))
        names(e) == IF kind = "app" THEN e.apps = Single(app)
                    ELSE ofApps(e.apps) /\ \E text \in e.roles : within(role, text)
        counts(i) == kind = "app" => \A j \in DOMAIN entries : j < i => ~names(entries[j])
    IN \E i \in DOMAIN entries : /\ names(entries[i]) /\ counts(i)
                                 /\ entries[i].ops = All \/ op \in entries[i].ops

\* The request's operation at the top, the reading of one record below.
OpAt(place, op) == IF place \in {"type", "field"} THEN op ELSE "SINGULAR"

\* A request that selects all is accepted under the rule.
RulePasses(place, kind, rule, entries, app, role, op) ==
    Ac!Verdict(Ruled(place, kind, rule, entries), "A", Selection, {}, FrontEnd, app, role, op)
        = "accepted"

(* A rule on a type or a field, of the record or of one related to it, lets *)
(* a request pass exactly when it covers it, and the opposite rule with the *)
(* same entries refuses it (validateAppAndUserPermissionOnFields.js:8-172,  *)
(* validate.js:50-145).  Below, a front end's blocked user never reaches    *)
(* the database; one without the permission does, unless the app has the    *)
(* permissions integrated (MasterController.js:28-141).                     *)
OnlyThePermittedPass ==
    /\ sample.of = "rules" =>
          LET covered == Covered(sample.kind, sample.entries, sample.app, sample.role,
                                 OpAt(sample.place, sample.op))
              passes(rule) == RulePasses(sample.place, sample.kind, rule, sample.entries,
                                     sample.app, sample.role, sample.op)
          IN (passes("allow") <=> covered) /\ (passes("deny") <=> ~covered)
    /\ sample.of = "gate" =>
          LET auth == sample.auth
          IN (/\ Ac!Gate(auth, "fetch", sample.granted) = "ok"
              /\ ~auth.bypass /\ auth.app.kind = "front" /\ auth.user \notin {None, All}) =>
                /\ auth.user.status = "active"
                /\ auth.app.integrated => "fetch" \in sample.granted

-----------------------------------------------------------------------------
(* Schemas of three types, one of them served; of two types with relations; *)
(* and types of three fields.                                               *)

Type(name, apps, fields) ==
    [name |-> name, model |-> TRUE, apps |-> apps, ops |-> {}, events |-> {}, fields |-> fields]

Field(name, wraps, of, relation, marks) ==
    [name |-> name, wraps |-> wraps, of |-> of, relation |-> relation, remote |-> None,
     marks |-> marks]

PickSchema ==
    Fresh /\ \E of \in [1 .. 3 -> {"A", "B", "C", "Int"}],
                wraps \in [1 .. 3 -> {<<>>, <<"some">>, <<"list">>, <<"some", "list">>}] :
        Pick([of |-> "schema", schema |->
              [i \in 1 .. 3 |-> Type(<<"A", "B", "C">>[i], IF i = 1 THEN {"shop"} ELSE {},
                                     <<Field("f", wraps[i], of[i], None, {})>>)]])

(* Where no list has non-null elements: a secondary application serves the  *)
(* types that name it and with a type every type that its fields refer to,  *)
(* however far, so that no field of the served schema is of an unknown type *)
(* (getParsedASTMap.js:220-286).                                            *)
SecondaryCloses ==
    sample.of = "schema" =>
        LET served == Sc!Served(sample.schema, "shop")
        IN /\ \A t \in Sc!Types(sample.schema) :
                 /\ "shop" \in t.apps => t.name \in served
                 /\ t.name \in served => \A f \in Sc!Fields(t) : f.of \in served \cup Sc!Scalars
           /\ served \subseteq Sc!Names(sample.schema)

PickRelations ==
    Fresh /\ \E relation \in [1 .. 4 -> {None, "r", "s"}], of \in [1 .. 4 -> {"A", "B"}],
                ops \in {{}, {"SINGULAR", "ADD"}} :
        LET owner == <<"A", "A", "B", "B">>
            f == [i \in 1 .. 4 |-> Field(<<"p", "q", "v", "w">>[i], <<>>, of[i], relation[i], {})]
        IN /\ \A i \in 1 .. 4 : relation[i] = None => of[i] = "A"
           /\ \A i, j \in 1 .. 4 : i # j /\ relation[i] = relation[j] /\ relation[i] # None =>
                 /\ of[i] = owner[j]
                 /\ \A k \in 1 .. 4 \ {i, j} : relation[k] # relation[i]
           /\ Pick([of |-> "relations", schema |->
                    <<[Type("A", {}, <<f[1], f[2]>>) EXCEPT !.ops = ops],
                      Type("B", {}, <<f[3], f[4]>>)>>])

(* Of relations with two ends of different names: each addTo<relation> and  *)
(* removeFrom<relation> that the schema declares has one resolver, and it   *)
(* writes the same two ends as the declaration promises                     *)
(* (mutation.js:276-328, resolvers/index.js:438-536); each generated query  *)
(* and mutation has a resolver.                                             *)
ConnectMutationsServed ==
    sample.of = "relations" =>
        LET ends(S) == {[relation |-> e.relation, pair |-> {e.near, e.far}] : e \in S}
            two(S) == {e \in S : e.far[2] # None}
        IN /\ ends(two(Sc!Declared(sample.schema))) = ends(two(Sc!ServedEnds(sample.schema)))
           /\ {e.relation : e \in Sc!Declared(sample.schema)}
                = {e.relation : e \in Sc!ServedEnds(sample.schema)}
           /\ Sc!Queries(sample.schema) \cup Sc!Mutations(sample.schema)
                = Sc!Resolvers(sample.schema)

FieldNames == <<<<"a">>, <<"b">>, <<"c", "a">>>>

ASSUME FieldNamesAssumption == \A i \in 1 .. 3 : FieldNames[i] # "id"

\* The types of the schema that are no models.
Enums == {"Level"}
Embedded == {"Phone"}

Laid(order, of, marks, wraps) ==
    [i \in 1 .. 3 |-> Field(FieldNames[order[i]], wraps[i], of[i],
                            IF of[i] = "A" THEN "r" ELSE None, marks[i])]

PickFields ==
    Fresh /\ \E order \in [1 .. 3 -> 1 .. 3],
                of \in [1 .. 3 -> {"Int", "Level", "Phone", "A"}],
                marks \in [1 .. 3 -> {{}, {"unique"}, {"defaultValue", "createIndex"}}],
                wraps \in [1 .. 3 -> {<<>>, <<"some">>, <<"list", "some">>}] :
        /\ IsInjective(order)
        /\ \A i, j \in 1 .. 3 : i < j => ~IsSuffix(FieldNames[order[j]], FieldNames[order[i]])
        /\ \A i \in 1 .. 3 : of[i] \in Embedded => "defaultValue" \notin marks[i]
        /\ Pick([of |-> "fields", type |-> Type("A", {}, Laid(order, of, marks, wraps))])

(* Where no field's name ends that of an earlier one: giving the relation   *)
(* fields of a type their arguments leaves every field where it was, with   *)
(* its type and directives (query.js:414-449).  Of the fields that are no   *)
(* relation, PostgreSQL insists on what is required and unique and fills in *)
(* defaults as the schema says and the Studio shows, indexes what must be   *)
(* unique or asks for it, lists too, and a client must send, on add, just   *)
(* the single values that are insisted on and not filled in.  MongoDB does  *)
(* the same for scalars, of a list for its elements; of enumerations it     *)
(* keeps the default alone, of embedded types nothing (visitField.js:13-225, *)
(* models/index.js:20-110, 233-243, sqlModelGenerator.js:27-136,            *)
(* modelAdapter.js:30-136, utils.js:61-78).                                 *)
FieldsSurvive ==
    sample.of = "fields" =>
        /\ Sc!WithArguments(sample.type) = sample.type.fields
        /\ \A f \in Sc!Kept(sample.type) :
              LET table == Sc!SqlTable(sample.type)
                  shown == Sc!Shown({sample.type.name}, sample.type.name, f)
                  stored == Sc!MongoField(Enums, Embedded, f)
                  named == f.of \in Enums \cup Embedded
              IN f.relation = None =>
                    \E column \in table.columns :
                       /\ column.name = f.name
                       /\ column.is.list = stored.list /\ shown.list = stored.list
                       /\ stored.is.required <=> ~named /\ column.is.required
                       /\ stored.is.unique <=> ~named /\ column.is.unique
                       /\ (column.is.unique \/ "createIndex" \in f.marks) =>
                             f.name \in table.indexes
                       /\ ~stored.list =>
                             /\ column.is.default <=> stored.default
                             /\ shown.unique <=> column.is.unique
                             /\ shown.required <=> column.is.required
                             /\ Sc!RequiredOnAdd(f) <=>
                                   column.is.required /\ ~column.is.default

-----------------------------------------------------------------------------
(* Arrays of embedded objects, each reference in one of them.               *)

Elements == {[val |-> v, refs |-> {}] : v \in {1, 2}} \cup
            {[val |-> v, refs |-> {r}] : v \in {1, 2}, r \in {"p", "q", "r"}}

Lone(array) ==
    \A i, j \in DOMAIN array : i # j => array[i].refs \cap array[j].refs = {}

Additions == {<<[val |-> 1, refs |-> {"s"}]>>, <<[val |-> 1, refs |-> {"p"}]>>,
              <<[val |-> 2, refs |-> {}]>>}

PickArray ==
    Fresh /\ \E array \in SeqOf(Elements, 3), where \in SUBSET {1, 2}, plain \in BOOLEAN,
                arg \in Additions \cup {<<>>}, key \in Ar!Operations \ {"updateAll"} :
        /\ arg = <<>> => key \in {"popFront", "popBack", "popAll"}
        /\ key # "pop" => where = {}
        /\ plain => Ar!Refs(array \o arg) = {}
        /\ Pick([of |-> "array", array |-> array, plain |-> plain,
                 do |-> [op |-> key, arg |-> arg, where |-> where]])

(* An operation that takes elements out of an embedded array disconnects    *)
(* every record that the array no longer refers to, and one that only adds  *)
(* disconnects none.  It may disconnect more: a replace whatever the old    *)
(* array referred to, the references that the new one keeps among them, and *)
(* the others a record to which an element that stays refers as well        *)
(* (arrayOperationUtil.js:19-203).  update and updateAll overwrite          *)
(* references and disconnect nothing.                                       *)
RemovedAreDisconnected ==
    (sample.of = "array" /\ ~Ar!Fails(sample.array, sample.plain, sample.do)) =>
        LET done == Ar!Done(sample.array, sample.do)
            lost == Ar!Refs(sample.array) \ Ar!Refs(done.to)
        IN /\ Ar!KeysVerdict({sample.do.op}) = "operation"
           /\ lost \subseteq done.freed /\ done.freed \subseteq Ar!Refs(sample.array)
           /\ sample.do.op = "replace" => done.freed = Ar!Refs(sample.array)
           /\ sample.do.op # "replace" /\ Lone(sample.array) => done.freed = lost

-----------------------------------------------------------------------------
(* Uploads of up to two files.                                              *)

AFile(words, ext, megs, readable) ==
    [words |-> words, ext |-> ext, megs |-> megs, readable |-> readable]

SomeFiles ==
    {AFile({"image"}, ext, megs, readable) :
        ext \in {"png", "svg"}, megs \in {50, 51}, readable \in BOOLEAN} \cup
    {AFile({"accdb"}, "accdb", megs, TRUE) : megs \in {49, 50}} \cup
    {AFile({"zip"}, "zip", megs, TRUE) : megs \in {55, 56}} \cup
    {AFile({"video"}, "mp4", megs, TRUE) : megs \in {200, 201}}

\* A file that is not the record's.
Foreign == 2

PickUpload ==
    Fresh /\ \E files \in SeqOf(SomeFiles, 2), found, user, bucket \in BOOLEAN,
                kind \in {"backend", "front"},
                field \in {None, [one |-> 1], [many |-> {}], [many |-> {1}]},
                fileId \in {None, 1, Foreign}, failed \in SUBSET {1, 2} :
        /\ failed \subseteq DOMAIN files
        /\ Pick([of |-> "upload", files |-> files, type |-> "User", found |-> found,
                 field |-> field, fileId |-> fileId, user |-> user, kind |-> kind,
                 bucket |-> bucket, failed |-> failed])

(* A request that is answered without an error, and names a bucket, has     *)
(* sent all of its files there, and those are missing in the end whose puts *)
(* failed - the answer did not wait for them.  Of a refused one, only files *)
(* that are allowed by themselves are sent, none of an unknown kind (their  *)
(* allowed types are no names of types), none for a record that is not      *)
(* there, a file that is not the record's, or a caller who may not upload   *)
(* (graphqlUpload.js:20-225, checkFileSizeAndExtensions.js,                 *)
(* resizeAndUpload.js:6-9).                                                 *)
StoredAsAllowed ==
    sample.of = "upload" =>
        LET app == [kind |-> sample.kind, static |-> FALSE, valid |-> FALSE]
            auth == Up!AuthError(app, IF sample.user THEN "user" ELSE None)
            action == Up!Action(sample.found, sample.field, sample.fileId)
            done == Up!Processed(sample.files, sample.type, sample.bucket, action, auth)
        IN /\ (done.error = None /\ sample.bucket) =>
                 /\ done.sent = DOMAIN sample.files
                 /\ DOMAIN sample.files \ Up!Stored(done, sample.failed) = sample.failed
           /\ \A i \in done.sent :
                 /\ Up!FileError(sample.files[i], sample.type) = None
                 /\ sample.files[i].megs <= 200
                 /\ Up!KindOf(sample.files[i].words) # "others"
           /\ done.sent # {} => (sample.user \/ sample.kind = "backend") /\ sample.found
           /\ (sample.fileId = Foreign \/ ~sample.found) =>
                 done.sent = {} /\ done.error = "DatabaseRecordNotFoundError"

-----------------------------------------------------------------------------
PlainNext ==
    \/ PickLinked \/ PickSecured \/ PickRule \/ PickGate
    \/ PickSchema \/ PickRelations \/ PickFields \/ PickArray \/ PickUpload

PlainSpec == SampleInit /\ [][PlainNext]_sample

=============================================================================
