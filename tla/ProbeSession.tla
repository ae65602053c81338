---------------------------- MODULE ProbeSession ----------------------------
(***************************************************************************)
(* One session of the `probe` command or of the run_probes tool of the MCP  *)
(* server: which probes there are (probes/registry.py), each of them on one *)
(* target after the other (probes/multi_node.py), and the merge of the      *)
(* nodes and links they observe (live_state.py).  The podman probe, the     *)
(* only one that observes services and no nodes or links, is in             *)
(* DriftDetection.                                                          *)
(*                                                                         *)
(* The world changes while the probes run, and most of what is observed is  *)
(* named without its target: a port by its number, a domain and a container *)
(* by their names, a host by the name of the mesh or of the command line.   *)
(***************************************************************************)
EXTENDS Naturals, Sequences, SequencesExt

CONSTANTS
    Operator,       \* the machine the probes are run from
    DefaultHost,    \* host_node of the probes of a registry, "srv1"
    TargetLists,    \* what --nodes may say; `,` names no target
    HostNames,      \* HostNames[m]: machine m in the mesh, for every machine
    Ports, Domains, Containers,
    PluginLists,    \* sequences of third-party entry points, [name, kind]
    Selections,     \* sequences of probe names; << >> for none
    LocalTools,     \* sets of the probes whose tool the operator's machine has
    None,
    MaxMoves,       \* bound: changes of the world
    MaxFaults       \* bound: commands that fail

Machines == DOMAIN HostNames
Hosts == {HostNames[m] : m \in Machines}

ASSUME ProbeAssumption ==
    /\ {Operator, DefaultHost} \subseteq Machines
    /\ TargetLists \subseteq Seq(Machines)
    /\ Selections \subseteq Seq(STRING)
    /\ PluginLists \subseteq
          Seq([name : STRING, kind : {"works", "bare", "broken", "raises"}])
    /\ IsFiniteSet(Domains)
    /\ MaxMoves \in Nat /\ MaxFaults \in Nat

(* The probes of the registry, in its order: those of the program, then the *)
(* entry points.  One of these may not load (a BrokenProbe), raise when it  *)
(* runs, or come from a constructor that takes no host_node.                *)
Core == <<"incus", "port", "dns", "tailscale">>
CoreNames == {Core[i] : i \in DOMAIN Core}
Registry(plugins) ==
    [i \in DOMAIN Core |-> [name |-> Core[i], kind |-> "core"]] \o plugins

(* registry.get(): the first of that name.                                  *)
Get(registry, name) ==
    registry[CHOOSE i \in DOMAIN registry :
                 /\ registry[i].name = name
                 /\ \A j \in 1..(i - 1) : registry[j].name # name]

(* What a session will run.  The command goes through the names, and for    *)
(* each through the targets; with no names given, through those of the      *)
(* registry, in which a name may occur twice.  The tool runs the instances  *)
(* that the registry made, all of them for the default host.                *)
On(probe, target) ==
    [name |-> probe.name, kind |-> probe.kind, target |-> target]

Chosen(via, registry, names) ==
    LET all == [i \in DOMAIN registry |-> registry[i].name]
        Named(list) == [i \in DOMAIN list |-> Get(registry, list[i])]
    IN  IF names # << >> THEN Named(names)
        ELSE IF via = "cli" THEN Named(all)
        ELSE registry

(* Mutant of Tasks: for each target all the probes.                         *)
TasksByTarget(via, registry, names, targets) ==
    LET chosen == Chosen(via, registry, names)
        n == Len(chosen)
    IN  [k \in 1..(n * Len(targets)) |->
            On(chosen[((k - 1) % n) + 1], targets[((k - 1) \div n) + 1])]

Tasks(via, registry, names, targets) ==
    LET chosen == Chosen(via, registry, names)
        n == Len(targets)
    IN  [k \in 1..(Len(chosen) * n) |->
            On(chosen[((k - 1) \div n) + 1], targets[((k - 1) % n) + 1])]

VARIABLES
    listening, \* listening[m]: the ports open on machine m
    online,    \* the hosts of the mesh that are online
    instances, \* instances[m]: the incus containers on machine m
    moves,     \* changes of the world so far
    faults,    \* commands that failed so far
    asked,     \* the session, [via, plugins, names, local]
    todo,      \* what it has still to run
    status,    \* "running", "done", or "aborted" by an exception
    nodes, links, \* merged so far, by id
    results,   \* whether the last run of a probe on a target had errors
    log        \* ghost: every run, answered or not, and what it was told

worldVars == <<listening, online, instances>>
vars == <<worldVars, moves, faults, asked, todo, status,
          nodes, links, results, log>>

PluginNames == {p.name : p \in UNION {Range(list) : list \in PluginLists}}
Task == [name : CoreNames \cup PluginNames,
         kind : {"core", "works", "bare", "broken", "raises"},
         target : Machines]

NodeId == ({"name"} \X (Machines \cup Hosts \cup Containers))
              \cup ({"port"} \X Ports) \cup ({"dns"} \X Domains)
Node == [type : {"host", "container", "external"},
         provider : {"local", "port", "dns", "tailscale", "incus"},
         tailscale_ip : Hosts \cup {None}]

(* Both ends of every link are nodes of the document: whatever was merged,  *)
(* in whichever order and of whichever probes only, is a live state that    *)
(* its validator accepts (live_state.py:124-128).                           *)
TypeOK ==
    /\ listening \in [Machines -> SUBSET Ports]
    /\ online \subseteq Hosts
    /\ instances \in [Machines -> SUBSET Containers]
    /\ moves \in 0..MaxMoves /\ faults \in 0..MaxFaults
    /\ todo \in Seq(Task)
    /\ status \in {"running", "done", "aborted"}
    /\ DOMAIN nodes \subseteq NodeId
    /\ Range(nodes) \subseteq Node
    /\ \A id \in DOMAIN links :
          {links[id].from, links[id].to} \subseteq DOMAIN nodes
    /\ Range(results) \subseteq BOOLEAN

Nothing == << >>

(* Names are checked against those of the registry before anything runs     *)
(* (exit code 2, or an error in the answer of the tool).                    *)
Init ==
    /\ listening \in [Machines -> SUBSET Ports]
    /\ online = Hosts
    /\ instances \in [Machines -> SUBSET Containers]
    /\ moves = 0 /\ faults = 0
    /\ \E via \in {"cli", "mcp"}, plugins \in PluginLists,
          names \in Selections, targets \in TargetLists, local \in LocalTools :
          LET registry == Registry(plugins)
          IN  /\ Range(names) \subseteq {registry[i].name : i \in DOMAIN registry}
              /\ via = "mcp" => targets = <<DefaultHost>>
              /\ asked = [via |-> via, plugins |-> plugins,
                          names |-> names, local |-> local]
              /\ todo = Tasks(via, registry, names, targets)
    /\ status = IF todo = << >> THEN "done" ELSE "running"
    /\ nodes = Nothing /\ links = Nothing
    /\ results = Nothing
    /\ log = << >>

----------------------------------------------------------------------------
(* The runs.                                                                *)

Running == status = "running"
Current == Head(todo)

(* Mutant of Merge: what was there first stays.                             *)
MergeKeepsFirst(old, new) ==
    [id \in DOMAIN old \cup DOMAIN new |->
        IF id \in DOMAIN old THEN old[id] ELSE new[id]]

(* merge(): the other fragment's entry replaces the one of the same id.     *)
Merge(old, new) ==
    [id \in DOMAIN old \cup DOMAIN new |->
        IF id \in DOMAIN new THEN new[id] ELSE old[id]]

(* Everything a session keeps of a run.                                     *)
Told(answered, ports, mesh) ==
    [name |-> Current.name, target |-> Current.target, answered |-> answered,
     ports |-> ports, mesh |-> mesh]

(* Mutant of ResultOf: by the name of the probe alone.                      *)
ResultByName(task) == task.name

ResultOf(task) == <<task.name, task.target>>

Report(newNodes, newLinks, told) ==
    /\ nodes' = Merge(nodes, newNodes)
    /\ links' = Merge(links, newLinks)
    /\ results' = Merge(results, [k \in {ResultOf(Current)} |-> ~told.answered])
    /\ log' = Append(log, told)
    /\ todo' = Tail(todo)
    /\ status' = IF Len(todo) = 1 THEN "done" ELSE status
    /\ UNCHANGED <<worldVars, moves, asked>>

Turn(name) == Running /\ Current.kind = "core" /\ Current.name = name

(* The machine that answers a command, or None: the operator's own, if it   *)
(* has the tool, and the target over ssh.  Each that does not is a fault.   *)
Tries(task) ==
    IF task.name \in asked.local THEN <<Operator, task.target>> ELSE <<task.target>>

Answers(source) ==
    \E k \in 0..Len(Tries(Current)) :
        /\ faults + k <= MaxFaults
        /\ faults' = faults + k
        /\ source = IF k = Len(Tries(Current)) THEN None ELSE Tries(Current)[k + 1]

Sources == {Operator, Current.target, None}

Record(type, provider, ip) == [type |-> type, provider |-> provider, tailscale_ip |-> ip]
HostNode(m) == [id \in {<<"name", m>>} |-> Record("host", "local", None)]
Link(from, to) == [from |-> from, to |-> to]

RunIncus ==
    /\ Turn("incus")
    /\ \E source \in Sources :
          /\ Answers(source)
          /\ LET found == IF source = None THEN {} ELSE instances[source]
             IN  Report([id \in {"name"} \X found |-> Record("container", "incus", None)],
                        Nothing, Told(source # None, {}, {}))

(* The target is the node of the port's link, whichever machine answered.   *)
PortLinks(target, heard) ==
    [id \in {"port"} \X heard |-> Link(<<"name", target>>, id)]

RunPort ==
    /\ Turn("port")
    /\ \E source \in Sources :
          /\ Answers(source)
          /\ LET heard == IF source = None THEN {} ELSE listening[source]
             IN  Report(Merge(HostNode(Current.target),
                              [id \in {"port"} \X heard |-> Record("external", "port", None)]),
                        PortLinks(Current.target, heard),
                        Told(source # None, heard, {}))

(* A domain's node is there whether or not its query was answered.          *)
RunDns ==
    /\ Turn("dns")
    /\ \E answered \in SUBSET Domains :
          /\ faults' = faults + Cardinality(Domains \ answered)
          /\ faults' <= MaxFaults
          /\ Report(Merge(HostNode(Current.target),
                          [id \in {"dns"} \X Domains |-> Record("external", "dns", None)]),
                    [id \in {"dns"} \X answered |-> Link(<<"name", Current.target>>, id)],
                    Told(answered = Domains, {}, {}))

(* The machine that answers, online or not, and its peers that are online.  *)
MeshNodes(hosts) ==
    [id \in {"name"} \X hosts |-> Record("host", "tailscale", id[2])]

(* Mutant of MeshLinks: the link of a peer before it is known to be online. *)
MeshLinksToAll(self, peers) ==
    [id \in {"mesh"} \X {self} \X (Hosts \ {self}) |->
        Link(<<"name", self>>, <<"name", id[3]>>)]

MeshLinks(self, peers) ==
    [id \in {"mesh"} \X {self} \X peers |-> Link(<<"name", self>>, <<"name", id[3]>>)]

RunTailscale ==
    /\ Turn("tailscale")
    /\ \E source \in Sources :
          /\ Answers(source)
          /\ IF source = None
             THEN Report(Nothing, Nothing, Told(FALSE, {}, {}))
             ELSE LET self  == HostNames[source]
                      peers == online \ {self}
                  IN  Report(MeshNodes({self} \cup peers), MeshLinks(self, peers),
                             Told(TRUE, {}, {self} \cup peers))

(* A third-party probe that works contributes its host, as dns and port do, *)
(* or nothing.  The command constructs each probe again for a target, which *)
(* one without host_node and a BrokenProbe do not survive.                  *)
Constructs(task) ==
    \/ task.kind = "works"
    \/ task.kind = "bare" /\ asked.via = "mcp"

RunPlugin ==
    /\ Running /\ Current.kind # "core" /\ Constructs(Current)
    /\ \E seen \in {Nothing, HostNode(Current.target)} :
          Report(seen, Nothing, Told(TRUE, {}, {}))
    /\ UNCHANGED faults

(* The coordinator turns an exception into a result; a BrokenProbe of the   *)
(* tool's registry answers with its error.                                  *)
FailPlugin ==
    /\ Running /\ Current.kind # "core" /\ ~Constructs(Current)
    /\ asked.via = "cli" \/ Current.kind = "broken"
    /\ Report(Nothing, Nothing, Told(FALSE, {}, {}))
    /\ UNCHANGED faults

(* run_all() and run_selected() do not: the tool answers nothing at all.    *)
Abort ==
    /\ Running /\ Current.kind = "raises" /\ asked.via = "mcp"
    /\ status' = "aborted"
    /\ todo' = << >>
    /\ nodes' = Nothing /\ links' = Nothing /\ results' = Nothing
    /\ UNCHANGED <<worldVars, moves, faults, asked, log>>

(* The world moves: a port is opened or closed, a host goes off the mesh or *)
(* comes back, a container is created or deleted.                           *)
Toggle(set, x) == (set \ {x}) \cup ({x} \ set)

WorldMoves ==
    /\ Running
    /\ moves < MaxMoves
    /\ moves' = moves + 1
    /\ \/ /\ \E m \in Machines, p \in Ports :
                 listening' = [listening EXCEPT ![m] = Toggle(@, p)]
          /\ UNCHANGED <<online, instances>>
       \/ /\ \E h \in Hosts : online' = Toggle(online, h)
          /\ UNCHANGED <<listening, instances>>
       \/ /\ \E m \in Machines, c \in Containers :
                 instances' = [instances EXCEPT ![m] = Toggle(@, c)]
          /\ UNCHANGED <<listening, online>>
    /\ UNCHANGED <<faults, asked, todo, status, nodes, links, results, log>>

Next ==
    \/ RunIncus \/ RunPort \/ RunDns \/ RunTailscale
    \/ RunPlugin \/ FailPlugin \/ Abort
    \/ WorldMoves

Spec == Init /\ [][Next]_vars

----------------------------------------------------------------------------
(* The live state has the link of a port exactly if some run was told of    *)
(* it, and from the last target that told: the merge over targets and       *)
(* probes (live_state.py:163-165) loses no port, and a port closed since    *)
(* stays.  Earlier targets that had the port too are not in the document.   *)
PortLinksAreExact ==
    status # "aborted" =>
        \A p \in Ports :
            LET told == {i \in DOMAIN log : p \in log[i].ports}
            IN  /\ (<<"port", p>> \in DOMAIN links) = (told # {})
                /\ told # {} =>
                       links[<<"port", p>>].from = <<"name", log[Max(told)].target>>

(* A session that reports no error (exit code 0, every status "ok") has an  *)
(* answer of every probe on every target: a run that was not answered was   *)
(* followed by one of the same probe on the same target that was, however   *)
(* often a name was given or registered (cli.py:141, 166 and 220,           *)
(* multi_node.py:77, registry.py:178).                                      *)
ErrorsAreReported ==
    (status = "done" /\ TRUE \notin Range(results)) =>
        \A i \in DOMAIN log : ~log[i].answered =>
            \E j \in (i + 1)..Len(log) :
                /\ log[j].answered
                /\ log[j].name = log[i].name
                /\ log[j].target = log[i].target

(* A host that some target reported in the mesh has its address in the live *)
(* state of a whole session: the probes that add their host again, without  *)
(* one, have run on all targets before the first tailscale probe            *)
(* (registry.py:106-112, cli.py:159-170).  It takes entry points that are   *)
(* not named like a probe of the program and add no host.                   *)
MeshAddressSurvives ==
    (/\ status = "done"
     /\ asked.names = << >>
     /\ \A p \in Range(asked.plugins) :
            p.name \notin CoreNames /\ p.kind \in {"broken", "raises"}) =>
        \A i \in DOMAIN log : \A h \in log[i].mesh :
            nodes[<<"name", h>>].tailscale_ip = h

=============================================================================
