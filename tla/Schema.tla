------------------------------- MODULE Schema -------------------------------
(***************************************************************************)
(* What is generated from the schema's types: which types a secondary      *)
(* application serves, how their fields are classified, which queries and  *)
(* mutations exist and which resolvers stand behind them, what the inputs  *)
(* look like, and which columns and constraints the two databases get.     *)
(*                                                                         *)
(* A schema is a sequence of types                                         *)
(*   [name, model, apps, ops, events, fields]                              *)
(* whose fields are a sequence of                                          *)
(*   [name, wraps, of, relation, remote, marks]:                           *)
(* wraps lists the wrappers of the type from the outside ("list", "some"   *)
(* for non-null), of names the type, relation and remote are None, Unnamed *)
(* or a name, and marks holds the other directives of the field.           *)
(***************************************************************************)
EXTENDS Naturals, FiniteSets, SequencesExt

CONSTANTS None, Unnamed

Scalars == {"ID", "String", "Int", "Float", "Boolean", "Date"}

Fields(t) == Range(t.fields)
Types(schema) == Range(schema)
Names(schema) == {t.name : t \in Types(schema)}
TypeOf(schema, n) == CHOOSE t \in Types(schema) : t.name = n

-----------------------------------------------------------------------------
(* Reading: getParsedField and getParsedASTMap.                             *)

IsList(f) == "list" \in Range(f.wraps)

BeforeList(f, i) == \A j \in 1 .. i : f.wraps[j] # "list"

(* isNonNull is about what stands outside the list, listIsNonNull about its *)
(* elements.                                                                *)
IsNonNull(f) == \E i \in DOMAIN f.wraps : f.wraps[i] = "some" /\ BeforeList(f, i)
ListIsNonNull(f) == \E i \in DOMAIN f.wraps : f.wraps[i] = "some" /\ ~BeforeList(f, i)

RelationFields(t) ==
    {f \in Fields(t) : f.relation # None /\ f.remote # Unnamed}

Unique(f) == f.marks \cap {"unique", "uniqueOrEmpty"} # {}

(* allowedOperations: no list, or an empty one, allows all.                 *)
Allows(t, op) == t.ops = {} \/ op \in t.ops

(* setNestedFieldDefinitions finds the type of a field under one wrapper,   *)
(* or under a list with one wrapper around it.                              *)
(* Variant: only the outermost wrapper is taken off. *)
SeenTypeOuter(f) == IF Len(f.wraps) <= 1 THEN f.of ELSE None

SeenType(f) ==
    IF Len(f.wraps) <= 1 \/ (Len(f.wraps) = 2 /\ f.wraps[2] = "list") THEN f.of ELSE None

(* The types that the fields of these types refer to. *)
Referred(schema, names) ==
    UNION {{SeenType(f) : f \in Fields(t)} : t \in {u \in Types(schema) : u.name \in names}}

(* The types reached from a set of types in as many steps as there are types. *)
Reached(schema, from) ==
    LET step[n \in 0 .. Len(schema)] ==
            IF n = 0 THEN from ELSE step[n - 1] \cup Referred(schema, step[n - 1])
    IN step[Len(schema)] \ (Scalars \cup {None})

(* getModifiedASTDefinition for SECONDARY_APPLICATION_NAME.                 *)
Served(schema, app) ==
    Reached(schema, {t.name : t \in {u \in Types(schema) : app \in u.apps}})

-----------------------------------------------------------------------------
(* The generated operations.                                                *)

QueryOps == {"SINGULAR", "PLURAL", "META_QUERY"}
MutationOps == {"ADD", "UPDATE", "UPDATE_MULTIPLE", "DELETE", "DELETE_MULTIPLE"}

(* The fields of Query and Mutation ...                                     *)
Queries(schema) ==
    {p \in Names(schema) \X QueryOps :
        TypeOf(schema, p[1]).model /\ Allows(TypeOf(schema, p[1]), p[2])}
Mutations(schema) ==
    {p \in Names(schema) \X MutationOps :
        TypeOf(schema, p[1]).model /\ Allows(TypeOf(schema, p[1]), p[2])}

(* ... and the resolvers under their names.                                 *)
ResolversFor(schema, ops) ==
    {p \in Names(schema) \X ops :
        TypeOf(schema, p[1]).model /\ Allows(TypeOf(schema, p[1]), p[2])}

DeleteResolvers(schema) == ResolversFor(schema, {"DELETE", "DELETE_MULTIPLE"})

Resolvers(schema) ==
    ResolversFor(schema, QueryOps \cup {"ADD", "UPDATE", "UPDATE_MULTIPLE"})
        \cup DeleteResolvers(schema)

(* getSubscriptionEventsOnType: "*" stands for all events.                  *)
Events(t) == IF t.events = {"*"} THEN {"CREATED", "UPDATED", "DELETED"} ELSE t.events

(* findFieldWithTheRelation: the last field of the related type with the    *)
(* relation, but none that is named like the field it is asked for.         *)
FarField(schema, n, f) ==
    LET far == TypeOf(schema, f.of).fields
        fits == {i \in DOMAIN far : /\ far[i] \in RelationFields(TypeOf(schema, f.of))
                                    /\ far[i].relation = f.relation
                                    /\ far[i].name # f.name}
    IN IF fits = {} THEN None ELSE far[CHOOSE i \in fits : \A j \in fits : j <= i].name

(* The ends of a relation as seen from field f of type n.                   *)
Ends(schema, n, f) == [relation |-> f.relation,
                       near |-> <<n, f.name>>, far |-> <<f.of, FarField(schema, n, f)>>]

(* The places of the fields with a relation, <<type, field>>, in their order. *)
Places(schema) ==
    UNION {{i} \X {j \in DOMAIN schema[i].fields :
                        schema[i].model /\ schema[i].fields[j] \in RelationFields(schema[i])}
           : i \in DOMAIN schema}

Before(p, q) == p[1] < q[1] \/ (p[1] = q[1] /\ p[2] < q[2])

EndAt(schema, p) == Ends(schema, schema[p[1]].name, schema[p[1]].fields[p[2]])
RelationAt(schema, p) == schema[p[1]].fields[p[2]].relation

(* The places where a relation is not found again before, or behind.        *)
FirstPlaces(schema) ==
    {p \in Places(schema) : \A q \in Places(schema) :
        RelationAt(schema, q) = RelationAt(schema, p) => ~Before(q, p)}
LastPlaces(schema) ==
    {p \in Places(schema) : \A q \in Places(schema) :
        RelationAt(schema, q) = RelationAt(schema, p) => ~Before(p, q)}

(* addTo<relation> and removeFrom<relation> are declared at the first field *)
(* with the relation.                                                       *)
Declared(schema) == {EndAt(schema, p) : p \in FirstPlaces(schema)}

(* Variant: the resolver forgets the far field. *)
ServedEndsNear(schema) ==
    {[EndAt(schema, p) EXCEPT !.far[2] = None] : p \in LastPlaces(schema)}

(* Their resolvers are replaced at every further one.                       *)
ServedEnds(schema) == {EndAt(schema, p) : p \in LastPlaces(schema)}

-----------------------------------------------------------------------------
(* The text of a type gets the arguments of its relation fields: from the   *)
(* first place where "<field>:" occurs up to the next directive, the text   *)
(* is replaced.  A name is a sequence of letters.                           *)

Directed(f) == f.relation # None \/ f.marks # {}

Hit(fields, name) ==
    LET hits == {i \in DOMAIN fields : IsSuffix(name, fields[i].name)}
    IN CHOOSE i \in hits : \A j \in hits : i <= j

NextDirected(fields, from) ==
    LET ends == {i \in from .. Len(fields) : Directed(fields[i])}
    IN CHOOSE i \in ends : \A j \in ends : i <= j

Spliced(fields, f, hit, end) ==
    SubSeq(fields, 1, hit - 1)
      \o <<[fields[end] EXCEPT !.name = fields[hit].name, !.wraps = f.wraps, !.of = f.of]>>
      \o SubSeq(fields, end + 1, Len(fields))

(* Variant: the text is replaced up to the directive of the next field. *)
ReplacedThrough(fields, f) ==
    LET hit == Hit(fields, f.name)
    IN Spliced(fields, f, hit, IF hit < Len(fields) THEN hit + 1 ELSE hit)

Replaced(fields, f) ==
    LET hit == Hit(fields, f.name)
    IN Spliced(fields, f, hit, NextDirected(fields, hit))

WithArguments(t) ==
    LET text[i \in 0 .. Len(t.fields)] ==
            IF i = 0 THEN t.fields
            ELSE IF t.fields[i] \in RelationFields(t) THEN Replaced(text[i - 1], t.fields[i])
            ELSE text[i - 1]
    IN text[Len(t.fields)]

-----------------------------------------------------------------------------
(* Inputs.                                                                  *)

(* The fields of the add and update inputs.                                 *)
InInputs(f) == f.name # "id" /\ f.marks \cap {"isRelationField", "relationalMeta"} = {}

(* getFieldTypeString: what a client must send on add.  The mark of a       *)
(* non-null list goes to its elements.                                      *)
RequiredOnAdd(f) ==
    /\ InInputs(f) /\ IsNonNull(f) /\ ~IsList(f) /\ f.relation = None
    /\ f.marks \cap {"defaultValue", "auto"} = {}

-----------------------------------------------------------------------------
(* Storage.                                                                 *)

Kept(t) == {f \in Fields(t) : f.remote = None /\ "isRelationField" \notin f.marks}

(* getScalarFieldDefinition                                                 *)
Stores(f) ==
    CASE f.of = "ID" -> "String" [] f.of \in {"Int", "Float"} -> "Number" [] OTHER -> f.of

(* visitField: the constraints of a single value; of a list its elements    *)
(* may be required and no more, of a relation its id required and unique.   *)
Constraints(f) ==
    [required |-> IF IsList(f) THEN ListIsNonNull(f) ELSE IsNonNull(f),
     unique |-> ~IsList(f) /\ IF f.relation # None THEN "unique" \in f.marks ELSE Unique(f)]

(* What the models of both databases are made of.  The default and the      *)
(* index, directives with a value, are put on the whole definition, be it   *)
(* an array.                                                                *)
Definition(f) ==
    [list |-> IsList(f), type |-> IF f.relation # None THEN "reference" ELSE Stores(f),
     is |-> Constraints(f),
     default |-> "defaultValue" \in f.marks, index |-> "createIndex" \in f.marks]

(* getFieldSchema: what Mongoose gets of a field.  Of one whose type is an  *)
(* enumeration only the default of a single value is left, of one whose     *)
(* type is embedded nothing.                                                *)
MongoField(enums, embedded, f) ==
    LET def == Definition(f)
        bare == [def EXCEPT !.is = [required |-> FALSE, unique |-> FALSE], !.index = FALSE]
    IN CASE def.type \in enums -> [bare EXCEPT !.type = "String",
                                              !.default = def.default /\ ~def.list]
         [] def.type \in embedded -> [bare EXCEPT !.default = FALSE]
         [] OTHER -> def

(* mapGraphQLFieldToSequelize: of a list it looks at the definition of the  *)
(* elements; a relation keeps its constraints inside, its column gets none. *)
SqlColumn(f) ==
    LET def == Definition(f)
        plain == f.relation = None
    IN [list     |-> def.list,
        required |-> plain /\ def.is.required,
        unique   |-> plain /\ def.is.unique,
        default  |-> def.default /\ ~def.list,
        type     |-> IF def.type \in {"String", "Number", "Boolean", "Date"} THEN def.type
                     ELSE "JSONB"]

(* buildSequelizeIndexes: lists and relations are indexed as well (lists by *)
(* GIN).                                                                    *)
SqlIndexed(f) == Definition(f).index \/ SqlColumn(f).unique

(* createSequelizeModelFromAST: the id, which is the key, and the columns.  *)
SqlTable(t) ==
    LET columns == {f \in Kept(t) : f.name # "id"}
    IN [columns |-> {[name |-> f.name, is |-> SqlColumn(f)] : f \in columns},
        indexes |-> {f.name : f \in {g \in columns : SqlIndexed(g)}}]

(* getAllModelsMetadata: what the Studio shows of a field of type n.  A     *)
(* relation of a type to itself is shown as none.                           *)
Shown(models, n, f) ==
    LET inner == IF f.wraps # <<>> /\ f.wraps[1] = "some" THEN Tail(f.wraps) ELSE f.wraps
    IN [required |-> f.wraps # inner,
        list     |-> inner # <<>> /\ inner[1] = "list",
        unique   |-> Unique(f),
        relation |-> f.of \in models \ {n}]
=============================================================================
