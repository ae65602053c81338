-------------------------- MODULE DependencyGraph --------------------------
(***************************************************************************)
(* deployer/graph.py: topological_sort, which arranges services in layers   *)
(* that can start together, and detect_cycles, a depth-first search it      *)
(* falls back on to explain why it could not.  Each loop iteration is a     *)
(* step.  What a service depends on is a set: a dependency listed twice is  *)
(* counted twice and discounted twice.  So is a layer, and the search may   *)
(* take services in any order: the code takes them as listed.               *)
(***************************************************************************)
EXTENDS Naturals, Sequences, FiniteSets

CONSTANTS
    Ids,       \* names a service can list as a dependency
    Services   \* names of the services there are

ASSUME GraphAssumption == IsFiniteSet(Ids) /\ Services \subseteq Ids

VARIABLES
    dependsOn,  \* the graph: what each service depends on
    call,       \* the function called, "topological_sort" or "detect_cycles"
    phase,      \* "sorting", then "sorted" (returned) or "searching", "searched"
                \* (returned, or raised CircularDependencyError)
    degree,     \* in_degree
    queue,      \* the services of the next layer
    layers,     \* the layers so far
    visited,    \* services the search has entered
    path,       \* services it is in, outermost first: path and rec_stack
    untried,    \* their dependents it has not looked at yet
    cycles      \* the cycles found

sortVars == <<degree, queue, layers>>
searchVars == <<visited, path, untried, cycles>>
graphVars == <<dependsOn, call, phase, sortVars, searchVars>>

Dependents(s) == {r \in Services : s \in dependsOn[r]}

Placed == UNION {layers[i] : i \in DOMAIN layers}

TypeOK ==
    /\ dependsOn \in [Services -> SUBSET Ids]
    /\ call \in {"topological_sort", "detect_cycles"}
    /\ phase \in {"sorting", "sorted", "searching", "searched"}
    /\ degree \in [Services -> Nat]
    /\ queue \subseteq Services
    /\ layers \in Seq(SUBSET Services)
    /\ visited \subseteq Services
    /\ path \in Seq(Services)
    /\ untried \in [Services -> SUBSET Services]
    /\ cycles \subseteq Seq(Services)

Init ==
    /\ dependsOn \in [Services -> SUBSET Ids]
    /\ \/ call = "topological_sort" /\ phase = "sorting"
       \/ call = "detect_cycles" /\ phase = "searching"
    /\ degree = [s \in Services |-> Cardinality(dependsOn[s])]
    /\ queue = {s \in Services : degree[s] = 0}
    /\ layers = << >>
    /\ visited = {}
    /\ path = << >>
    /\ untried = [s \in Services |-> Dependents(s)]
    /\ cycles = {}

---------------------------------------------------------------------------
(* topological_sort                                                        *)

(* Mutant of SortLayer: the queue is not emptied.                           *)
SortLayerAgain ==
    /\ phase = "sorting"
    /\ queue # {}
    /\ layers' = Append(layers, queue)
    /\ degree' = [s \in Services |->
                     degree[s] - Cardinality(dependsOn[s] \cap queue)]
    /\ queue' = queue \cup {s \in Services : degree'[s] = 0}
    /\ UNCHANGED <<dependsOn, call, phase, searchVars>>

(* Mutant of SortLayer: one dependency placed is enough.                    *)
SortLayerEarly ==
    /\ phase = "sorting"
    /\ queue # {}
    /\ layers' = Append(layers, queue)
    /\ degree' = [s \in Services |->
                     IF dependsOn[s] \cap queue = {} THEN degree[s] ELSE 0]
    /\ queue' = {s \in Services : dependsOn[s] \cap queue # {} /\ s \notin Placed'}
    /\ UNCHANGED <<dependsOn, call, phase, searchVars>>

(* Mutant of SortLayer: a layer per service.                                *)
SortOne ==
    /\ phase = "sorting"
    /\ \E first \in queue :
        /\ layers' = Append(layers, {first})
        /\ degree' = [s \in Services |->
                         degree[s] - Cardinality(dependsOn[s] \cap {first})]
        /\ queue' = (queue \ {first}) \cup
                    {s \in Services : first \in dependsOn[s] /\ degree'[s] = 0}
    /\ UNCHANGED <<dependsOn, call, phase, searchVars>>

(* The queue is a layer; services whose last dependency it places are next. *)
SortLayer ==
    /\ phase = "sorting"
    /\ queue # {}
    /\ layers' = Append(layers, queue)
    /\ degree' = [s \in Services |->
                     degree[s] - Cardinality(dependsOn[s] \cap queue)]
    /\ queue' = {s \in Services : dependsOn[s] \cap queue # {} /\ degree'[s] = 0}
    /\ UNCHANGED <<dependsOn, call, phase, searchVars>>

(* Mutant of Sorted: what was placed is returned.                           *)
SortedAnyway ==
    /\ phase = "sorting"
    /\ queue = {}
    /\ phase' = "sorted"
    /\ UNCHANGED <<dependsOn, call, sortVars, searchVars>>

(* No service is placed twice, so all are when the layers have as many.     *)
Sorted ==
    /\ phase = "sorting"
    /\ queue = {}
    /\ phase' = IF Placed = Services THEN "sorted" ELSE "searching"
    /\ UNCHANGED <<dependsOn, call, sortVars, searchVars>>

---------------------------------------------------------------------------
(* detect_cycles                                                           *)

Top == path[Len(path)]
OnPath == {path[i] : i \in DOMAIN path}

Enter(s) ==
    /\ visited' = visited \cup {s}
    /\ path' = Append(path, s)

(* The outer loop calls dfs for a service not visited yet.                  *)
StartFrom ==
    /\ phase = "searching"
    /\ path = << >>
    /\ \E s \in Services \ visited : Enter(s)
    /\ UNCHANGED <<dependsOn, call, phase, sortVars, untried, cycles>>

(* Mutant of Closed: the whole path is reported.                            *)
WholePath(d) == Append(path, d)

(* The cycle a dependent on the path closes.                                *)
Closed(d) ==
    LET start == CHOOSE i \in DOMAIN path : path[i] = d
    IN  Append(SubSeq(path, start, Len(path)), d)

(* Mutant of Look: a dependent visited before is skipped.                   *)
LookAhead ==
    /\ phase = "searching"
    /\ path # << >>
    /\ \E d \in untried[Top] :
        /\ untried' = [untried EXCEPT ![Top] = @ \ {d}]
        /\ IF d \notin visited THEN Enter(d) ELSE UNCHANGED <<visited, path>>
    /\ UNCHANGED <<dependsOn, call, phase, sortVars, cycles>>

(* One dependent of the service on top is entered, closes a cycle, or was   *)
(* left before.                                                            *)
Look ==
    /\ phase = "searching"
    /\ path # << >>
    /\ \E d \in untried[Top] :
        /\ untried' = [untried EXCEPT ![Top] = @ \ {d}]
        /\ \/ /\ d \notin visited
              /\ Enter(d)
              /\ UNCHANGED cycles
           \/ /\ d \in OnPath
              /\ cycles' = cycles \cup {Closed(d)}
              /\ UNCHANGED <<visited, path>>
           \/ /\ d \in visited \ OnPath
              /\ UNCHANGED <<visited, path, cycles>>
    /\ UNCHANGED <<dependsOn, call, phase, sortVars>>

(* Mutant of Leave: the path keeps the service.                             *)
Linger ==
    /\ phase = "searching"
    /\ path # << >>
    /\ untried[Top] = {}
    /\ UNCHANGED graphVars

Leave ==
    /\ phase = "searching"
    /\ path # << >>
    /\ untried[Top] = {}
    /\ path' = SubSeq(path, 1, Len(path) - 1)
    /\ UNCHANGED <<dependsOn, call, phase, sortVars, visited, untried, cycles>>

Searched ==
    /\ phase = "searching"
    /\ path = << >>
    /\ visited = Services
    /\ phase' = "searched"
    /\ UNCHANGED <<dependsOn, call, sortVars, searchVars>>

---------------------------------------------------------------------------

Next == SortLayer \/ Sorted \/ StartFrom \/ Look \/ Leave \/ Searched

(* A call runs until it returns.                                            *)
Spec == Init /\ [][Next]_graphVars /\ WF_graphVars(Next)

---------------------------------------------------------------------------
(* Properties.                                                             *)

(* Services no order can place: each waits for another of them or for one   *)
(* there is not.                                                           *)
Stuck(S) == /\ S # {}
            /\ \A s \in S : \E d \in dependsOn[s] : d \in S \/ d \notin Services
Cyclic(S) == S # {} /\ \A s \in S : dependsOn[s] \cap S # {}

(* A service is in a layer only when all it depends on is in earlier ones   *)
(* (topological_sort, graph.py:134-145).                                    *)
LayersRespectDependencies ==
    \A i \in DOMAIN layers : \A s \in layers[i] : \A d \in dependsOn[s] :
        \E j \in 1..(i - 1) : d \in layers[j]

(* No service waits for a layer it need not wait for: one it depends on is  *)
(* in the layer just before ("each layer can start in parallel").           *)
LayersAreEarliest ==
    \A i \in DOMAIN layers \ {1} : \A s \in layers[i] :
        dependsOn[s] \cap layers[i - 1] # {}

(* The sort returns all services, each in one layer, when they can be       *)
(* ordered, and raises when they cannot (graph.py:147-154).                 *)
SortIsExact ==
    /\ phase = "sorted" =>
        /\ Placed = Services
        /\ \A i, j \in DOMAIN layers : i # j => layers[i] \cap layers[j] = {}
    /\ (call = "topological_sort" /\ phase # "sorting") =>
        (phase = "sorted" <=> \A S \in SUBSET Services : ~Stuck(S))

(* Every cycle reported goes from a service to a dependent of it until it   *)
(* is back (detect_cycles, graph.py:84-94).                                 *)
CyclesAreReal ==
    \A c \in cycles :
        /\ Len(c) >= 2
        /\ c[1] = c[Len(c)]
        /\ \A k \in 1..(Len(c) - 1) : c[k + 1] \in Dependents(c[k])

(* A finished search has reported a cycle if and only if there is one,      *)
(* whichever services it visited first.                                     *)
CyclesAreFound ==
    phase = "searched" => (cycles # {} <=> \E S \in SUBSET Services : Cyclic(S))

(* Both functions return, or raise, for every graph.                        *)
EveryCallEnds == <>(phase \in {"sorted", "searched"})

===========================================================================
