------------------------------- MODULE Access -------------------------------
(***************************************************************************)
(* Who may do what: the permission rules that a schema puts on types and   *)
(* on fields (validateAppAndUserPermissionOnFields.js), the checks of      *)
(* write-only, read-only and default fields around them (validate.js), and *)
(* the gate of the controllers below them.                                 *)
(*                                                                         *)
(* A directive as written is None or [rule, permissions]; permissions is   *)
(* All or a sequence of functions from appName, userRole and operations;   *)
(* appName is All or [list, names], as it is written as one name or as a   *)
(* list.  Read, it is a rule [rule, entries], where entries is All or a    *)
(* sequence of [apps, roles, ops].  A type is a record                     *)
(* [app, user, fields]; a field is [app, user, of, marks], with None for   *)
(* a rule that it does not have, and of = None for one that is no          *)
(* relation; its marks are readOnly, writeOnly and, where its name holds    *)
(* Meta, count, result or error, unchecked.  A selection is the set of the  *)
(* paths to its fields, sequences of field names, with each path its        *)
(* beginnings.                                                              *)
(***************************************************************************)
EXTENDS Naturals, FiniteSets, SequencesExt

CONSTANTS None, All,
          Contained   \* the pairs of a name and a longer one that contains its text

Covers(some, x) == some = All \/ x \in some

(* includes, of a text. *)
Within(name, text) == name = text \/ <<name, text>> \in Contained

Single(name) == [list |-> FALSE, names |-> {name}]

(* includes, of a list of names or of a single one. *)
CoversApp(apps, app) ==
    \/ apps = All
    \/ \E name \in apps.names : IF apps.list THEN app = name ELSE Within(app, name)

(***************************************************************************)
(* What every controller asks before it touches the database               *)
(* (MasterController.js).  The app is None or [kind, static, valid,        *)
(* integrated]; the user is None, All where a login needs none, or         *)
(* [status, roles]; granted holds the permission functions that say yes.   *)
(***************************************************************************)
(* isBackendApp, isFrontEndApp, isPermissionIntegratedApp *)
IsApp(auth, kind) == auth.app # None /\ auth.app.kind = kind
Integrated(auth) == auth.app # None /\ auth.app.integrated

AppGate(auth) ==
    CASE auth.bypass -> "ok"
      [] ~auth.bypass /\ auth.app = None -> "no app"
      [] ~auth.bypass /\ auth.app # None /\ auth.app.static /\ ~auth.app.valid -> "bad token"
      [] ~auth.bypass /\ auth.app # None /\ (auth.app.static => auth.app.valid) ->
            CASE IsApp(auth, "backend") -> "ok"
              [] ~IsApp(auth, "backend") /\ ~IsApp(auth, "front") -> "no app"
              [] IsApp(auth, "front") ->
                    IF auth.user = None /\ auth.needsUser THEN "no user" ELSE "ok"

StatusGate(auth) ==
    IF auth.user \notin {None, All} /\ auth.user.status \in {"inactive", "blocked"}
    THEN "blocked" ELSE "ok"

(* isPermissionValidationRequired *)
NeedsPermission(auth) ==
    /\ ~auth.bypass /\ ~IsApp(auth, "backend") /\ Integrated(auth)
    /\ auth.user # All

(* validatePermissions, with the status checked.  A model that needs no     *)
(* user is read by nobody without one: roles of a missing user are asked.   *)
Gate(auth, fn, granted) ==
    CASE AppGate(auth) # "ok" -> AppGate(auth)
      [] AppGate(auth) = "ok" /\ StatusGate(auth) # "ok" -> StatusGate(auth)
      [] OTHER ->
            IF ~NeedsPermission(auth) THEN "ok"
            ELSE IF auth.user = None THEN "error"
            ELSE IF auth.user.roles = {} \/ fn \notin granted THEN "denied"
            ELSE "ok"

-----------------------------------------------------------------------------
(* The rules of the schema.                                                 *)

(* What getAppAndUserPermissionsFromDirective refuses when the server       *)
(* starts.                                                                  *)
Malformed(kind, d) ==
    \/ d.rule \notin {"allow", "deny"}
    \/ d.permissions = <<>>
    \/ d.permissions # All /\ \E i \in DOMAIN d.permissions :
          \/ Cardinality(DOMAIN d.permissions[i]) # (IF kind = "user" THEN 3 ELSE 2)
          \/ d.permissions[i]["operations"] = {}

(* No directive on a type admits all.                                       *)
ReadRule(kind, d) ==
    LET entry(e) == [apps |-> e["appName"], ops |-> e["operations"],
                     roles |-> IF kind = "user" THEN e["userRole"] ELSE {}]
    IN IF d = None THEN [rule |-> "allow", entries |-> All]
       ELSE [rule |-> d.rule,
             entries |-> IF d.permissions = All THEN All
                         ELSE [i \in DOMAIN d.permissions |-> entry(d.permissions[i])]]

(* Variant: an app's entry counts whatever operations it lists. *)
AppAdmitsAnyOp(r, app, op) ==
    LET covered == \E i \in DOMAIN r.entries : r.entries[i].apps = Single(app)
    IN CASE r.rule = "allow" -> r.entries \in {All, <<>>} \/ covered
         [] r.rule = "deny" -> r.entries # All /\ ~covered

(* validateAllowDenyRuleOnApp: the first entry for just this app decides;   *)
(* one with a list of apps, or "*", is for none.                            *)
AppAdmits(r, app, op) ==
    LET named == {i \in DOMAIN r.entries : r.entries[i].apps = Single(app)}
        first == CHOOSE i \in named : \A j \in named : i <= j
        covered == named # {} /\ Covers(r.entries[first].ops, op)
    IN CASE r.rule = "allow" -> r.entries \in {All, <<>>} \/ covered
         [] r.rule = "deny" -> r.entries # All /\ ~covered

(* validateAllowDenyRuleOnUser: some entry fits, one that names a role      *)
(* within whose name the user's lies; a rule says nothing of a user without *)
(* a role.                                                                  *)
UserAdmits(r, app, role, op) ==
    LET fits == \/ r.entries = All
                \/ \E i \in DOMAIN r.entries :
                      /\ \E text \in r.entries[i].roles : Within(role, text)
                      /\ CoversApp(r.entries[i].apps, app)
                      /\ Covers(r.entries[i].ops, op)
    IN role # None => (r.rule = "allow") = fits

Admitted(x, app, role, op) ==
    /\ x.app # None => AppAdmits(x.app, app, op)
    /\ x.user # None => UserAdmits(x.user, app, role, op)

(* The type to which a path of relation fields leads, None if to none.      *)
TypeAt(types, n, path) ==
    LET at[i \in 0 .. Len(path)] ==
            IF i = 0 THEN n
            ELSE IF at[i - 1] = None \/ path[i] \notin DOMAIN types[at[i - 1]].fields THEN None
            ELSE types[at[i - 1]].fields[path[i]].of
    IN at[Len(path)]

(* validateAppAndUserPermission: the type, the selected fields, and what is *)
(* selected of the related types, each of which is read as one record.      *)
Permitted(types, n, selection, app, role, op) ==
    /\ Admitted(types[n], app, role, op)
    /\ \A p \in selection :
          LET t == TypeAt(types, n, Front(p))
              f == types[t].fields[Last(p)]
              done == IF Len(p) = 1 THEN op ELSE "SINGULAR"
          IN (t # None /\ Last(p) \in DOMAIN types[t].fields) =>
                /\ "unchecked" \in f.marks \/ Admitted(f, app, role, done)
                /\ f.of # None => Admitted(types[f.of], app, role, "SINGULAR")

Marked(t, mark) == {k \in DOMAIN t.fields : mark \in t.fields[k].marks}

DefaultFields == {"id", "createdAt", "updatedAt"}

(* validate: what a request is refused with.  Fields that may not be read   *)
(* or written are looked for at the top level alone.                        *)
Verdict(types, n, selection, input, auth, app, role, op) ==
    LET reads == {Head(p) : p \in selection} \cap Marked(types[n], "writeOnly")
        writes == input \cap Marked(types[n], "readOnly")
        isWrite == op \in {"ADD", "UPDATE"}
    IN CASE IsApp(auth, "backend") -> "accepted"
         [] ~IsApp(auth, "backend") /\ ~Permitted(types, n, selection, app, role, op) -> "permission"
         [] OTHER ->
              IF isWrite /\ writes # {} THEN "write"
              ELSE IF (isWrite \/ op \in {"SINGULAR", "PLURAL", "DELETE"}) /\ reads # {}
                   THEN "read"
              ELSE IF isWrite /\ input \cap DefaultFields # {} THEN "default"
              ELSE "accepted"
=============================================================================
