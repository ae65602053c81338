--------------------------- MODULE DriftDetection ---------------------------
(***************************************************************************)
(* `rw-blueprint probe` and `rw-blueprint reconcile`: the containers of     *)
(* several targets are listed one target after the other while they go on   *)
(* changing, the fragments are merged into a live state, the live state is  *)
(* written to a file, and a later command compares the file with a topology.*)
(*                                                                         *)
(* Two probes stand for the five: "podman", the one that observes services, *)
(* and "port", which contributes the target itself as a node.  What the     *)
(* others add, nodes and links, never meets a service.                      *)
(***************************************************************************)
EXTENDS Drift

CONSTANTS
    Targets,     \* the target nodes, in the order of --nodes
    Services,    \* names containers can have, and ids of declared services
    Configs,     \* what a container can run: [image, ports, managed_by], where
                 \* ports are the ones it publishes
    Rootless,    \* Rootless[t]: the containers of t's ssh user, by name; those
                 \* that deployments start belong to root and are in world
    Operators,   \* machines the command runs on: "absent" has no podman,
                 \* "empty" lists no container, "busy" lists Local
    Local,
    PublicKey,   \* machines whose `podman ps --format json` names a published
                 \* port "PublicPort"; podman's own name for it is "host_port"
    Selections,  \* the probes a session runs, as sequences of their names
    Topologies,  \* topology documents
    RuleLists,   \* ignore rules, as sequences
    MaxSessions, \* bound: probe sessions
    MaxMoves,    \* bound: changes of the targets' containers
    MaxFaults    \* bound: remote commands that fail

TargetSet == {Targets[j] : j \in DOMAIN Targets}
Listing == [Services -> Configs \cup {None}]
NoListing == [s \in Services |-> None]

(* What the probe makes of container c in the output of podman on host: an  *)
(* entry of its ports without a "PublicPort" is skipped.                    *)
Parsed(host, c) == IF host \in PublicKey THEN c ELSE [c EXCEPT !.ports = << >>]

Hosts == TargetSet \cup Operators
Views == {Parsed(host, c) : host \in Hosts, c \in Configs}

(* Neither command passes severity overrides (cli.py:286).                  *)
ASSUME DetectionAssumption ==
    /\ Targets \in Seq(TargetSet)
    /\ Selections \subseteq Seq({"podman", "port"})
    /\ None \notin Configs \cup Views
    /\ None \notin [node : TargetSet, config : Views]
    /\ None \notin {"absent", "empty", "busy"}
    /\ PublicKey \subseteq Hosts
    /\ Rootless \in [TargetSet -> Listing] /\ Local \in Listing
    /\ \A c \in Configs : c = [image |-> c.image, ports |-> c.ports,
                                managed_by |-> c.managed_by]
    /\ \A topology \in Topologies : DOMAIN topology.service \subseteq Services
    /\ DOMAIN Overrides = {}
    /\ MaxSessions \in Nat /\ MaxMoves \in Nat /\ MaxFaults \in Nat

VARIABLES
    world,    \* world[t]: the containers of root on target t, by name
    sessions, \* probe sessions so far, at most MaxSessions
    moves,    \* changes of world so far, at most MaxMoves
    faults,   \* commands that failed so far, at most MaxFaults
    probing,  \* the probe session, see Probing below
    live,     \* the live state file, see LiveState below, or None
    drift     \* the report of the reconcile that has just run, see Reconcile
              \* below, or None when something else has

driftVars == <<world, sessions, moves, faults, probing, live, drift>>

(* nodes     the targets observed                                           *)
(* services  each observed service: its target and what was read of it      *)
Fragment == [nodes : SUBSET TargetSet,
             services : [Services -> [node : TargetSet, config : Views]
                                         \cup {None}]]

(* on      the machine the session runs on, or None when there is none      *)
(* todo    the probes still to run, each with its target, in order          *)
(* merged  the fragments merged so far                                      *)
(* errors  whether a probe has reported an error                            *)
(* seen    ghost: each target's world whenever its containers were asked   *)
(*         for; a probe may be named twice, and so may a target            *)
(* failed  ghost: whether a command of the session has failed               *)
Probing == [on : Operators \cup {None}, todo : Seq({"podman", "port"} \X TargetSet),
            merged : Fragment, errors : BOOLEAN,
            seen : [TargetSet -> SUBSET Listing], failed : BOOLEAN]

(* What a session leaves: its fragment, its exit code, and its ghosts.      *)
LiveState == [merged : Fragment, exit : {0, 2}, on : Operators,
              seen : [TargetSet -> SUBSET Listing], failed : BOOLEAN]

(* LiveState's validator: a service runs on a node of the live state.       *)
Valid(fragment) == \A s \in Services :
    fragment.services[s] # None => fragment.services[s].node \in fragment.nodes

(* Every file a session leaves is a live state that loads again             *)
(* (live_state.py:112-138), and a reconcile only sees such files.           *)
TypeOK ==
    /\ world \in [TargetSet -> Listing]
    /\ sessions \in 0..MaxSessions
    /\ moves \in 0..MaxMoves
    /\ faults \in 0..MaxFaults
    /\ probing \in Probing
    /\ live = None \/ (live \in LiveState /\ Valid(live.merged))
    /\ drift = None \/ /\ drift.topology \in Topologies
                       /\ drift.rules \in RuleLists
                       /\ drift.live \in LiveState

NoSession ==
    [on |-> None, todo |-> << >>,
     merged |-> [nodes |-> {}, services |-> NoListing], errors |-> FALSE,
     seen |-> [t \in TargetSet |-> {}], failed |-> FALSE]

Init ==
    /\ world \in [TargetSet -> Listing]
    /\ sessions = 0
    /\ moves = 0
    /\ faults = 0
    /\ probing = NoSession
    /\ live = None
    /\ drift = None

---------------------------------------------------------------------------
(* The targets.                                                            *)

(* A container is created, removed, or replaced by another of its name.     *)
ContainerChanges ==
    /\ moves < MaxMoves
    /\ moves' = moves + 1
    /\ \E t \in TargetSet, s \in Services, c \in Configs \cup {None} :
        /\ world[t][s] # c
        /\ world' = [world EXCEPT ![t][s] = c]
    /\ drift' = None
    /\ UNCHANGED <<sessions, faults, probing, live>>

Fault == /\ faults < MaxFaults
         /\ faults' = faults + 1

---------------------------------------------------------------------------
(* probe                                                                   *)

(* Each probe in turn, on each target in turn.                              *)
Tasks(names) ==
    LET n == Len(Targets) IN
    [k \in 1..(Len(names) * n) |->
        <<names[((k - 1) \div n) + 1], Targets[((k - 1) % n) + 1]>>]

BeginProbing ==
    /\ probing.on = None
    /\ sessions < MaxSessions
    /\ sessions' = sessions + 1
    /\ \E names \in Selections, on \in Operators :
        probing' = [NoSession EXCEPT !.on = on, !.todo = Tasks(names)]
    /\ drift' = None
    /\ UNCHANGED <<world, moves, faults, live>>

(* The services that `podman ps` on host lists.                             *)
Parse(host, listing) ==
    [s \in Services |-> IF listing[s] = None THEN None ELSE Parsed(host, listing[s])]

(* Mutant of MergeServices: what was observed first keeps its fields.       *)
MergeFields(fragment, t, listing) ==
    [fragment EXCEPT !.services =
        [s \in Services |->
            IF listing[s] = None THEN @[s]
            ELSE [node |-> t,
                  config |-> IF @[s] = None THEN listing[s] ELSE @[s].config]]]

(* Mutant of MergeServices: the services of the targets before are dropped. *)
MergeLast(fragment, t, listing) ==
    [fragment EXCEPT !.services =
        [s \in Services |-> IF listing[s] = None THEN None
                            ELSE [node |-> t, config |-> listing[s]]]]

(* LiveStateFragment.merge with the services observed for target t: the     *)
(* last one observed under a name replaces the others.                      *)
MergeServices(fragment, t, listing) ==
    [fragment EXCEPT !.services =
        [s \in Services |-> IF listing[s] = None THEN @[s]
                            ELSE [node |-> t, config |-> listing[s]]]]

Due(name) == probing.todo # << >> /\ Head(probing.todo)[1] = name
Target == Head(probing.todo)[2]

(* PodmanProbe.run: podman of the operator's own machine is asked first, and *)
(* what it lists is taken for the target's.  Only when that fails, the       *)
(* target is asked over ssh; and only when the answer is an empty list, it   *)
(* is asked with sudo.  A failure of that last command leaves the empty list.*)
PodmanProbe ==
    LET t == Target
        fetched(host, listing) ==
            [probing EXCEPT !.merged = MergeServices(@, t, Parse(host, listing)),
                            !.seen[t] = @ \cup {world[t]}, !.todo = Tail(@)]
        nothing == [fetched(t, NoListing) EXCEPT !.failed = TRUE]
        asksRoot == \/ probing.on = "empty"
                    \/ probing.on = "absent" /\ Rootless[t] = NoListing
    IN  /\ Due("podman")
        /\ \/ /\ probing.on = "busy"
              /\ probing' = fetched(probing.on, Local)
              /\ UNCHANGED faults
           \/ /\ probing.on = "absent"
              /\ Rootless[t] # NoListing
              /\ probing' = fetched(t, Rootless[t])
              /\ UNCHANGED faults
           \/ /\ asksRoot
              /\ probing' = fetched(t, world[t])
              /\ UNCHANGED faults
           \/ /\ asksRoot   \* `sudo podman ps` fails
              /\ Fault
              /\ probing' = nothing
           \/ /\ Fault   \* `podman ps` over ssh fails, or output does not parse
              /\ probing' = [nothing EXCEPT !.errors = TRUE]
        /\ drift' = None
        /\ UNCHANGED <<world, sessions, moves, live>>

(* PortProbe.run: the target is a node of the fragment whether or not it    *)
(* could be asked for its ports.                                            *)
PortProbe ==
    LET p == [probing EXCEPT !.merged.nodes = @ \cup {Target}, !.todo = Tail(@)]
    IN  /\ Due("port")
        /\ \/ /\ probing' = p
              /\ UNCHANGED faults
           \/ /\ Fault
              /\ probing' = [p EXCEPT !.errors = TRUE, !.failed = TRUE]
        /\ drift' = None
        /\ UNCHANGED <<world, sessions, moves, live>>

Probed == probing.on # None /\ probing.todo = << >>

FileOf(p) == [merged |-> p.merged, exit |-> IF p.errors THEN 2 ELSE 0,
              on |-> p.on, seen |-> p.seen, failed |-> p.failed]

(* Mutant of WriteLive: the fragment is written without validation.         *)
WriteUnvalidated ==
    /\ Probed
    /\ probing' = NoSession
    /\ live' = FileOf(probing)
    /\ drift' = None
    /\ UNCHANGED <<world, sessions, moves, faults>>

(* LiveState(...) raises for a fragment that does not validate, and the     *)
(* file stays what it was.  Otherwise the file is written first, and errors *)
(* only count for the exit code.                                            *)
WriteLive ==
    /\ Probed
    /\ probing' = NoSession
    /\ live' = IF Valid(probing.merged) THEN FileOf(probing) ELSE live
    /\ drift' = None
    /\ UNCHANGED <<world, sessions, moves, faults>>

---------------------------------------------------------------------------
(* reconcile                                                               *)

(* The live state as the reconciler compares it.                            *)
Document(fragment) ==
    [node |-> [t \in fragment.nodes |->
                 [fields |-> [type |-> "host", provider |-> "local",
                              public_ip |-> None, tailscale_ip |-> None,
                              host |-> None, cpu |-> None, memory |-> None],
                  ports |-> << >>]],
     service |-> [s \in {r \in Services : fragment.services[r] # None} |->
                    LET observed == fragment.services[s] IN
                    [fields |-> [node |-> observed.node, kind |-> "application",
                                 image |-> observed.config.image,
                                 managed_by |-> observed.config.managed_by],
                     ports |-> observed.config.ports]],
     link |-> << >>]

(* The report keeps what it was computed from.                              *)
Reconcile ==
    /\ live # None
    /\ \E topology \in Topologies, rules \in RuleLists :
        drift' = [topology |-> topology, rules |-> rules, live |-> live,
                  active |-> Active(rules, Items(topology, Document(live.merged)))]
    /\ UNCHANGED <<world, sessions, moves, faults, probing, live>>

---------------------------------------------------------------------------

Next == \/ ContainerChanges
        \/ BeginProbing \/ PodmanProbe \/ PortProbe \/ WriteLive
        \/ Reconcile

Spec == Init /\ [][Next]_driftVars

---------------------------------------------------------------------------
(* Properties.                                                             *)

(* Target t had container s running c when it was asked for its containers. *)
Had(file, t, s, c) ==
    c # None /\ \E listing \in file.seen[t] \cup {Rootless[t]} : listing[s] = c

(* The ports of one map are among those of another, published alike.        *)
Among(ports, others) ==
    \A p \in DOMAIN ports : p \in DOMAIN others /\ ports[p] = others[p]

(* What the live state, or the fragment on its way to one, says of a        *)
(* service was once true as a whole: the node it names had a container that *)
(* had this image, this manager and these ports at once when it was asked,  *)
(* however many targets were merged and whatever changed meanwhile          *)
(* (live_state.py:152-171).  It may have had ports the probe did not read   *)
(* (podman.py:94); and containers of the operator's own machine are not the *)
(* target's at all.                                                         *)
ObservedWasThere ==
    \A file \in {probing, live} \ {None} :
        file.on # "busy" =>
            \A s \in Services : LET o == file.merged.services[s] IN
                o # None => \E c \in Configs :
                                /\ Had(file, o.node, s, c)
                                /\ o.config.image = c.image
                                /\ o.config.managed_by = c.managed_by
                                /\ Among(o.config.ports, c.ports)

(* An item-free report of a session in which nothing failed says that every *)
(* declared service was on its node, with its image and with every declared *)
(* port published as declared, and that no target had a service under a     *)
(* name that is not declared (reconciler.py:265-380).  It says that there   *)
(* were no other ports only of nodes whose podman is understood.            *)
CleanReportIsTrue ==
    (drift # None /\ drift.active = {} /\ drift.rules = << >>
        /\ ~drift.live.failed /\ drift.live.on # "busy") =>
    LET declared == drift.topology.service IN
    /\ \A s \in DOMAIN declared :
        LET d == declared[s]
            n == d.fields.node
        IN  \E c \in Configs : /\ Had(drift.live, n, s, c)
                               /\ c.image = d.fields.image
                               /\ Among(d.ports, c.ports)
                               /\ n \in PublicKey => Among(c.ports, d.ports)
    /\ \A t \in {u \in TargetSet : Rootless[u] = NoListing}, s \in Services :
        \A listing \in drift.live.seen[t] :
            listing[s] # None => s \in DOMAIN declared

(* A service reported missing although a target had it: then a command of   *)
(* the session failed, or the containers of the ssh user hid those of root. *)
(* The merge over the targets loses none (multi_node.py:76-94).             *)
MissingIsExplained ==
    (drift # None /\ ~drift.live.failed /\ drift.live.on # "busy") =>
    \A item \in drift.active :
        (item.category = "missing" /\ item.type = "service" /\ item.field = NoField) =>
            \A t \in {u \in TargetSet : Rootless[u] = NoListing} :
                \A listing \in drift.live.seen[t] : listing[item.id] = None

(* `reconcile` with the default --fail-on exits with 0 only when every      *)
(* service that no rule speaks of was seen on its declared node with the    *)
(* declared image and at least the declared ports, even when probes failed  *)
(* (cli.py:325-336, reconciler.py:408-437).                                 *)
ExitZeroMeansPlaced ==
    (drift # None /\ ExitCode(drift.active, "critical") = 0
        /\ drift.live.on # "busy") =>
    \A s \in DOMAIN drift.topology.service :
        LET declared == drift.topology.service[s]
            spokenOf == \E i \in DOMAIN drift.rules :
                            /\ drift.rules[i].type \in {None, "service"}
                            /\ drift.rules[i].ids = None \/ s \in drift.rules[i].ids
        IN  ~spokenOf =>
            \E c \in Configs : /\ Had(drift.live, declared.fields.node, s, c)
                               /\ c.image = declared.fields.image
                               /\ DOMAIN declared.ports \subseteq DOMAIN c.ports

(* docs/specs/RWBP-2026-003.SPEC.md:186 of each proposal: it "would restore *)
(* declared/observed agreement": after it the topology is valid and the     *)
(* same live state no longer differs in that item.  Not what                *)
(* remediation.py:124-155 proposes.                                         *)
ProposalsRestoreAgreement ==
    drift # None => \A item \in drift.active :
        LET patched == Patched(drift.topology, Proposal(item)) IN
        /\ patched # Invalid
        /\ item \notin Items(patched, Document(drift.live.merged))

===========================================================================
