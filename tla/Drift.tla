------------------------------- MODULE Drift -------------------------------
(***************************************************************************)
(* reconciler.py and remediation.py: the differences between a declared     *)
(* topology and an observed live state, their severities, the ignore rules, *)
(* and the remediation proposed for each.  Both documents are               *)
(*                                                                         *)
(*   [node |-> N, service |-> S, link |-> L]                               *)
(*                                                                         *)
(* where N, S and L map the identifiers the document lists (both schemas    *)
(* reject duplicates) to entities: the fields the reconciler compares, and  *)
(* for a service its ports, a map from (port, protocol) to the public port. *)
(* Reports are sets: their items are distinct, and sorted by the code.      *)
(***************************************************************************)
EXTENDS Naturals, Sequences

CONSTANTS
    None,      \* Python's None: no value, or any in a rule
    Invalid,   \* a topology document that does not validate
    Overrides  \* severity_overrides: from <<type, id, field>>; none from the CLI

ASSUME DriftAssumption == None # Invalid

Types == {"node", "service", "link"}

Compared ==
    [node |-> {"type", "provider", "public_ip", "tailscale_ip", "host", "cpu",
               "memory"},
     service |-> {"node", "kind", "image", "managed_by"},
     link |-> {"from", "to", "protocol"}]

(* What an item is about: a field, a port, or, as NoField, the entity.      *)
Field(name) == [name |-> name, port |-> None]
NoField == Field("")
Port(key) == [name |-> "port", port |-> key]
PublicPort(key) == [name |-> "port.public", port |-> key]

---------------------------------------------------------------------------
(* Severities.                                                             *)

DefaultSeverity(category, type, field) ==
    CASE category = "missing" ->
            IF type \in {"service", "link"} THEN "critical" ELSE "warning"
      [] category = "extra" ->
            IF type = "service" THEN "warning" ELSE "info"
      [] category = "mismatched" ->
            IF \/ type = "service" /\ field.name \in {"image", "managed_by", "node"}
               \/ type = "link" /\ field.name \in {"from", "to"}
            THEN "critical" ELSE "warning"

(* Mutant of Severity: a service on another node is a warning.              *)
LenientSeverity(category, type, id, field) ==
    IF category = "mismatched" /\ field.name = "node" THEN "warning"
    ELSE DefaultSeverity(category, type, field)

Severity(category, type, id, field) ==
    IF <<type, id, field>> \in DOMAIN Overrides THEN Overrides[<<type, id, field>>]
    ELSE DefaultSeverity(category, type, field)

Item(category, type, id, field, declared, observed) ==
    [category |-> category, type |-> type, id |-> id, field |-> field,
     declared |-> declared, observed |-> observed,
     severity |-> Severity(category, type, id, field)]

---------------------------------------------------------------------------
(* The three-way difference.                                               *)

CompareFields(type, id, decl, obs) ==
    {Item("mismatched", type, id, Field(f), decl.fields[f], obs.fields[f]) :
        f \in {g \in Compared[type] : decl.fields[g] # obs.fields[g]}}

(* Mutant of ComparePorts: walks the declared ports only.                   *)
DeclaredPortsOnly(id, decl, obs) ==
    {Item("missing", "service", id, Port(p), None, None) :
        p \in DOMAIN decl.ports \ DOMAIN obs.ports}

ComparePorts(id, decl, obs) ==
    {Item("missing", "service", id, Port(p), None, None) :
        p \in DOMAIN decl.ports \ DOMAIN obs.ports}
    \cup
    {Item("extra", "service", id, Port(p), None, None) :
        p \in DOMAIN obs.ports \ DOMAIN decl.ports}
    \cup
    {Item("mismatched", "service", id, PublicPort(p), decl.ports[p], obs.ports[p]) :
        p \in {q \in DOMAIN decl.ports \cap DOMAIN obs.ports :
                  decl.ports[q] # obs.ports[q]}}

Compare(type, id, decl, obs) ==
    CompareFields(type, id, decl, obs)
        \cup IF type = "service" THEN ComparePorts(id, decl, obs) ELSE {}

DiffEntities(type, declared, observed) ==
    {Item("missing", type, id, NoField, None, None) :
        id \in DOMAIN declared \ DOMAIN observed}
    \cup
    {Item("extra", type, id, NoField, None, None) :
        id \in DOMAIN observed \ DOMAIN declared}
    \cup
    UNION {Compare(type, id, declared[id], observed[id]) :
               id \in DOMAIN declared \cap DOMAIN observed}

Items(topology, live) ==
    UNION {DiffEntities(type, topology[type], live[type]) : type \in Types}

---------------------------------------------------------------------------
(* Ignore rules; ids is the set of identifiers a rule's pattern matches.    *)

Matches(rule, item) ==
    /\ rule.type \in {None, item.type}
    /\ rule.ids = None \/ item.id \in rule.ids
    /\ rule.field \in {None, item.field}
    /\ rule.category \in {None, item.category}

(* item.ignore_rule: the first rule that matches.                           *)
IgnoredBy(rules, item) ==
    LET matching == {i \in DOMAIN rules : Matches(rules[i], item)}
    IN  IF matching = {} THEN None
        ELSE rules[CHOOSE i \in matching : \A j \in matching : i <= j].name

Active(rules, items) == {item \in items : IgnoredBy(rules, item) = None}

(* The exit code of `reconcile`: 1 when an active item is at or above the   *)
(* threshold.                                                              *)
Rank == [critical |-> 3, warning |-> 2, info |-> 1]

ExitCode(active, failOn) ==
    IF /\ failOn # "none"
       /\ \E item \in active : Rank[item.severity] >= Rank[failOn]
    THEN 1 ELSE 0

---------------------------------------------------------------------------
(* Remediation: one JSON Patch operation per active item.                   *)

BlastRadius(type) == CASE type = "node" -> "node"
                       [] type = "service" -> "service"
                       [] type = "link" -> "mesh"

RequiresHitl(severity, blast) ==
    \/ severity = "critical"
    \/ blast = "mesh"
    \/ severity = "warning" /\ blast = "service"

(* path is <<type, id>>, <<type, id, field>>, or <<type, "-">> to append.    *)
Proposal(item) ==
    [op |-> CASE item.category = "missing" -> "add"
              [] item.category = "extra" -> "remove"
              [] item.category = "mismatched" -> "replace",
     path |-> CASE item.category = "missing" -> <<item.type, "-">>
                [] item.category = "extra" -> <<item.type, item.id>>
                [] item.category = "mismatched" -> <<item.type, item.id, item.field>>,
     value |-> CASE item.category = "missing" -> [id |-> item.id]
                 [] item.category = "extra" -> None
                 [] item.category = "mismatched" -> item.declared,
     blast |-> BlastRadius(item.type),
     requires_approval |-> RequiresHitl(item.severity, BlastRadius(item.type))]

(* The topology after an approved patch, which the operator applies: an     *)
(* entity that is nothing but an id lacks its required fields, and one that *)
(* is not there cannot be removed.  A path ending in a port addresses       *)
(* nothing in the document, whose ports are a list.                         *)
Patched(topology, p) ==
    LET type == p.path[1] IN
    CASE p.op = "add" -> Invalid
      [] p.op = "remove" ->
            [topology EXCEPT ![type] =
                [id \in DOMAIN topology[type] \ {p.path[2]} |-> topology[type][id]]]
      [] p.op = "replace" ->
            IF p.path[3].port # None THEN topology
            ELSE [topology EXCEPT ![type][p.path[2]].fields[p.path[3].name] = p.value]

===========================================================================
