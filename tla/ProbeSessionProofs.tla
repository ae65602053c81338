------------------------- MODULE ProbeSessionProofs -------------------------
(***************************************************************************)
(* Proofs about a session of probes, for all machines, entry points and     *)
(* selections: what the merge over probes and targets keeps of the ports,   *)
(* of the errors, and of the addresses in the mesh.                         *)
(***************************************************************************)
EXTENDS ProbeSession, TLAPS, FiniteSetTheorems, WellFoundedInduction

Kinds == {"core", "works", "bare", "broken", "raises"}

(* A probe of a registry, and an entry of the log.                          *)
Probe == [name : CoreNames \cup PluginNames, kind : Kinds]

Entry == [name : CoreNames \cup PluginNames, target : Machines,
          answered : BOOLEAN, ports : SUBSET Ports, mesh : SUBSET Hosts]

----------------------------------------------------------------------------
(* Arithmetic: the probe and the target of the k-th task.                   *)

(* A nonempty set of naturals has a least element: its initial segments are *)
(* finite, and the proper subsets of a finite set are well-founded.         *)
LEMMA LeastNatural ==
    ASSUME NEW S \in SUBSET Nat, S # {}
    PROVE  \E m \in S : \A n \in S : m <= n
<1> DEFINE Upto(k) == S \cap (0..k)
           T == {U \in SUBSET S : \E k \in S : U = Upto(k)}
<1>1. T \subseteq FiniteSubsetsOf(S) /\ T # {}
  <2>1. ASSUME NEW k \in S PROVE IsFiniteSet(Upto(k))
    BY FS_Interval, FS_Intersection, 0 \in Int, k \in Int
  <2> QED
    BY <2>1 DEF FiniteSubsetsOf
<1>2. PICK U \in T : \A V \in T : <<V, U>> \notin StrictSubsetOrdering(S)
  BY <1>1, FS_StrictSubsetOrderingWellFounded, WFMin
<1>3. PICK m \in S : U = Upto(m)
  OBVIOUS
<1>4. ASSUME NEW n \in S, n < m PROVE FALSE
  <2>1. Upto(n) \subseteq U /\ m \in U /\ m \notin Upto(n)
    BY <1>3, <1>4
  <2>2. Upto(n) \in T
    OBVIOUS
  <2> QED
    BY <1>2, <2>1, <2>2 DEF StrictSubsetOrdering
<1> QED
  BY <1>4

(* And one that is bounded has a greatest: its least bound.                 *)
LEMMA GreatestNatural ==
    ASSUME NEW S \in SUBSET Nat, S # {}, NEW b \in Nat, \A n \in S : n <= b
    PROVE  \E m \in S : \A n \in S : n <= m
<1> DEFINE U == {u \in Nat : \A n \in S : n <= u}
<1>1. b \in U /\ U \subseteq Nat
  OBVIOUS
<1> HIDE DEF U
<1>2. PICK m \in U : \A n \in U : m <= n
  BY <1>1, LeastNatural
<1>3. m \in Nat /\ \A n \in S : n <= m
  BY DEF U
<1>4. ASSUME m \notin S PROVE FALSE
  <2>1. ASSUME NEW n \in S PROVE n \in Nat /\ n <= m - 1
    <3>1. n \in Nat /\ n # m /\ n <= m
      BY <1>3, <1>4
    <3> QED
      BY <1>3, <3>1
  <2>2. m - 1 \in Nat
    <3>1. PICK n \in S : TRUE
      OBVIOUS
    <3> QED
      BY <1>3, <2>1, <3>1
  <2>3. m - 1 \in U
    BY <2>1, <2>2 DEF U
  <2> QED
    BY <2>3, <1>2, <1>3
<1> QED
  BY <1>3, <1>4

(* Multiplication by a natural is monotonic.                                *)
LEMMA Times ==
    ASSUME NEW n \in Nat, NEW a \in Int, NEW b \in Int, a <= b
    PROVE  n * a <= n * b
OBVIOUS

(* Quotient and remainder.                                                  *)
LEMMA DivMod ==
    ASSUME NEW n \in Nat \ {0}, NEW a \in Nat
    PROVE  /\ a \div n \in Nat
           /\ a % n \in 0..(n - 1)
           /\ a = n * (a \div n) + (a % n)
OBVIOUS

(* Of m * n tasks the k-th has one of m probes and one of n targets.        *)
LEMMA DivBound ==
    ASSUME NEW n \in Nat \ {0}, NEW m \in Nat, NEW k \in 1..(m * n)
    PROVE  /\ ((k - 1) \div n) + 1 \in 1..m
           /\ ((k - 1) % n) + 1 \in 1..n
<1>1. m * n \in Nat /\ k \in Nat /\ k - 1 \in Nat /\ k - 1 < m * n
  OBVIOUS
<1> DEFINE q == (k - 1) \div n
           r == (k - 1) % n
<1>2. q \in Nat /\ r \in 0..(n - 1) /\ k - 1 = n * q + r
  BY <1>1, DivMod
<1> HIDE DEF q, r
<1>3. ASSUME m <= q PROVE FALSE
  <2>1. n * m <= n * q
    BY <1>2, <1>3, Times
  <2>2. n * m = m * n /\ n * q \in Int
    BY <1>2
  <2> QED
    BY <2>1, <2>2, <1>1, <1>2
<1>4. q + 1 \in 1..m /\ r + 1 \in 1..n
  BY <1>2, <1>3
<1> QED
  BY <1>4 DEF q, r

(* The quotient is monotonic: a later task has no earlier probe.            *)
LEMMA DivMono ==
    ASSUME NEW n \in Nat \ {0}, NEW a \in Nat, NEW b \in Nat, a <= b
    PROVE  a \div n <= b \div n
<1> DEFINE p == a \div n
           q == b \div n
<1>1. p \in Nat /\ a = n * p + (a % n) /\ a % n \in 0..(n - 1)
  BY DivMod
<1>2. q \in Nat /\ b = n * q + (b % n) /\ b % n \in 0..(n - 1)
  BY DivMod
<1> HIDE DEF p, q
<1>3. ASSUME q + 1 <= p PROVE FALSE
  <2>1. n * (q + 1) <= n * p
    BY <1>1, <1>2, <1>3, Times
  <2>2. n * (q + 1) = n * q + n /\ n * q \in Int /\ n * p \in Int
    BY <1>1, <1>2
  <2> QED
    BY <2>1, <2>2, <1>1, <1>2
<1>4. p <= q
  BY <1>1, <1>2, <1>3
<1> QED
  BY <1>4 DEF p, q

----------------------------------------------------------------------------
(* Sequences over any set.                                                  *)

LEMMA Element ==
    ASSUME NEW S, NEW s \in Seq(S)
    PROVE  /\ Len(s) \in Nat /\ DOMAIN s = 1..Len(s)
           /\ \A i \in DOMAIN s : s[i] \in S
OBVIOUS

LEMMA IsSequence ==
    ASSUME NEW S, NEW n \in Nat, NEW s, DOMAIN s = 1..n, s = [i \in 1..n |-> s[i]],
           \A i \in 1..n : s[i] \in S
    PROVE  s \in Seq(S) /\ Len(s) = n
OBVIOUS

LEMMA Concatenated ==
    ASSUME NEW S, NEW s \in Seq(S), NEW t \in Seq(S)
    PROVE  /\ s \o t \in Seq(S) /\ Len(s \o t) = Len(s) + Len(t)
           /\ \A i \in DOMAIN s : (s \o t)[i] = s[i]
           /\ \A i \in (Len(s) + 1)..(Len(s) + Len(t)) :
                 /\ i - Len(s) \in DOMAIN t
                 /\ (s \o t)[i] = t[i - Len(s)]
OBVIOUS

LEMMA IsEmpty ==
    ASSUME NEW S, NEW s \in Seq(S)
    PROVE  s = << >> <=> Len(s) = 0
OBVIOUS

LEMMA HeadAndTail ==
    ASSUME NEW S, NEW s \in Seq(S), s # << >>
    PROVE  /\ Head(s) \in S /\ Head(s) = s[1] /\ Tail(s) \in Seq(S)
           /\ Len(s) \in Nat \ {0} /\ Len(Tail(s)) = Len(s) - 1
           /\ Len(s) = 1 <=> Tail(s) = << >>
           /\ \A i \in DOMAIN Tail(s) : i + 1 \in DOMAIN s /\ Tail(s)[i] = s[i + 1]
<1>1. /\ Head(s) \in S /\ Head(s) = s[1] /\ Tail(s) \in Seq(S)
      /\ Len(s) \in Nat \ {0} /\ Len(Tail(s)) = Len(s) - 1
  OBVIOUS
<1>2. Len(s) = 1 <=> Tail(s) = << >>
  <2> DEFINE t == Tail(s)
  <2>1. t \in Seq(S) /\ Len(t) = Len(s) - 1
    BY <1>1
  <2> HIDE DEF t
  <2>2. t = << >> <=> Len(t) = 0
    BY <2>1, IsEmpty
  <2>3. Len(s) = 1 <=> Len(t) = 0
    BY <1>1, <2>1
  <2> QED
    BY <2>2, <2>3 DEF t
<1>3. \A i \in DOMAIN Tail(s) : i + 1 \in DOMAIN s /\ Tail(s)[i] = s[i + 1]
  OBVIOUS
<1> QED
  BY <1>1, <1>2, <1>3

----------------------------------------------------------------------------
(* What a session has to run.                                               *)

(* The registry: the probes of the program, then the entry points.          *)
LEMMA RegistryFacts ==
    ASSUME NEW plugins \in PluginLists
    PROVE  /\ Registry(plugins) \in Seq(Probe)
           /\ Len(Registry(plugins)) = 4 + Len(plugins)
           /\ \A i \in 1..4 :
                 Registry(plugins)[i] = [name |-> Core[i], kind |-> "core"]
           /\ \A i \in 5..Len(Registry(plugins)) :
                 /\ i - 4 \in DOMAIN plugins
                 /\ Registry(plugins)[i] = plugins[i - 4]
<1> DEFINE own == [i \in DOMAIN Core |-> [name |-> Core[i], kind |-> "core"]]
<1>1. /\ DOMAIN Core = 1..4
      /\ CoreNames = {"incus", "port", "dns", "tailscale"}
  BY DEF Core, CoreNames
<1>2. \A i \in 1..4 : own[i] = [name |-> Core[i], kind |-> "core"]
                      /\ own[i] \in Probe
  BY <1>1 DEF Probe, Kinds, CoreNames
<1>3. own \in Seq(Probe) /\ Len(own) = 4
  BY <1>1, <1>2
<1>4. plugins \in Seq(Probe)
  <2>1. plugins \in Seq([name : STRING, kind : {"works", "bare", "broken", "raises"}])
    BY ProbeAssumption
  <2>2. \A i \in DOMAIN plugins : plugins[i] \in Probe
    <3> TAKE i \in DOMAIN plugins
    <3>1. plugins[i] \in [name : STRING, kind : {"works", "bare", "broken", "raises"}]
      BY <2>1, Element
    <3>2. plugins[i].name \in PluginNames
      BY DEF PluginNames, Range
    <3> QED
      BY <3>1, <3>2 DEF Probe, Kinds
  <2>3. /\ Len(plugins) \in Nat /\ DOMAIN plugins = 1..Len(plugins)
        /\ plugins = [i \in 1..Len(plugins) |-> plugins[i]]
    BY <2>1
  <2> QED
    BY <2>2, <2>3, IsSequence
<1> HIDE DEF own
<1>5. /\ own \o plugins \in Seq(Probe) /\ Len(own \o plugins) = 4 + Len(plugins)
      /\ \A i \in DOMAIN own : (own \o plugins)[i] = own[i]
      /\ \A i \in (4 + 1)..(4 + Len(plugins)) :
            i - 4 \in DOMAIN plugins /\ (own \o plugins)[i] = plugins[i - 4]
  <2> DEFINE both == own \o plugins
             n == Len(own)
  <2>1. /\ both \in Seq(Probe) /\ Len(both) = n + Len(plugins)
        /\ \A i \in DOMAIN own : both[i] = own[i]
        /\ \A i \in (n + 1)..(n + Len(plugins)) :
              i - n \in DOMAIN plugins /\ both[i] = plugins[i - n]
    BY <1>3, <1>4, Concatenated
  <2>2. n = 4
    BY <1>3
  <2> HIDE DEF both, n
  <2>3. /\ both \in Seq(Probe) /\ Len(both) = 4 + Len(plugins)
        /\ \A i \in DOMAIN own : both[i] = own[i]
        /\ \A i \in (4 + 1)..(4 + Len(plugins)) :
              i - 4 \in DOMAIN plugins /\ both[i] = plugins[i - 4]
    BY <2>1, <2>2
  <2> QED
    BY <2>3 DEF both
<1>6. \A i \in 1..4 : (own \o plugins)[i] = own[i]
  BY <1>3, <1>5
<1>7. \A i \in 5..(4 + Len(plugins)) : i - 4 \in DOMAIN plugins
                                       /\ (own \o plugins)[i] = plugins[i - 4]
  BY <1>5
<1>8. Registry(plugins) = own \o plugins
  BY DEF Registry, own
<1> QED
  BY <1>2, <1>5, <1>6, <1>7, <1>8

(* registry.get() finds the first of that name.                             *)
LEMMA GetFinds ==
    ASSUME NEW r \in Seq(Probe), NEW name, NEW k \in DOMAIN r, r[k].name = name
    PROVE  \E i \in DOMAIN r : /\ Get(r, name) = r[i] /\ r[i].name = name
                               /\ i <= k
<1> DEFINE S == {i \in DOMAIN r : r[i].name = name}
<1>1. S \in SUBSET Nat /\ S # {}
  OBVIOUS
<1>2. PICK m \in S : \A n \in S : m <= n
  BY <1>1, LeastNatural
<1>3. \A j \in 1..(m - 1) : r[j].name # name
  BY <1>2
<1> DEFINE First(i) == r[i].name = name /\ \A j \in 1..(i - 1) : r[j].name # name
           c == CHOOSE i \in DOMAIN r : First(i)
<1>4. c \in DOMAIN r /\ First(c)
  BY <1>2, <1>3
<1>5. c <= k
  BY <1>4
<1>6. Get(r, name) = r[c]
  BY DEF Get
<1> QED
  BY <1>4, <1>5, <1>6

(* The probes a session chooses, given names that the registry has.         *)
LEMMA ChosenTyped ==
    ASSUME NEW r \in Seq(Probe), r # << >>, NEW via, NEW names \in Seq(STRING),
           Range(names) \subseteq {r[i].name : i \in DOMAIN r}
    PROVE  Chosen(via, r, names) \in Seq(Probe)
<1> DEFINE all == [i \in DOMAIN r |-> r[i].name]
           Named(list) == [i \in DOMAIN list |-> Get(r, list[i])]
<1>1. all \in Seq(STRING \cup CoreNames \cup PluginNames) /\ all # << >>
      /\ \A i \in DOMAIN all : \E k \in DOMAIN r : r[k].name = all[i]
  <2>1. \A i \in DOMAIN r : all[i] \in CoreNames \cup PluginNames
    <3> TAKE i \in DOMAIN r
    <3>1. r[i] \in Probe
      BY Element
    <3> QED
      BY <3>1 DEF Probe
  <2>2. DOMAIN all = 1..Len(r) /\ Len(r) \in Nat /\ Len(r) > 0
    OBVIOUS
  <2> QED
    BY <2>1, <2>2
<1>2. \A i \in DOMAIN names : \E k \in DOMAIN r : r[k].name = names[i]
  BY DEF Range
<1>3. ASSUME NEW A, NEW list \in Seq(A), list # << >>,
             \A i \in DOMAIN list : \E k \in DOMAIN r : r[k].name = list[i]
      PROVE  Named(list) \in Seq(Probe)
  <2>1. \A i \in DOMAIN list : Get(r, list[i]) \in Probe
    BY <1>3, GetFinds
  <2>2. DOMAIN Named(list) = 1..Len(list) /\ Len(list) \in Nat /\ Len(list) > 0
    BY <1>3
  <2>3. \A i \in 1..Len(list) : Named(list)[i] \in Probe
    BY <2>1, <2>2
  <2> HIDE DEF Named
  <2>4. Named(list) \in [1..Len(list) -> Probe]
    BY <2>2, <2>3 DEF Named
  <2> QED
    BY <2>2, <2>4
<1>4. Chosen(via, r, names) = IF names # << >> THEN Named(names)
                              ELSE IF via = "cli" THEN Named(all) ELSE r
  BY DEF Chosen
<1> HIDE DEF Named, all
<1>6. CASE names # << >>
  BY <1>2, <1>3, <1>4, <1>6
<1>7. CASE names = << >>
  BY <1>1, <1>3, <1>4, <1>7
<1> QED
  BY <1>6, <1>7

(* The tasks: each chosen probe on all of the targets, one after the other. *)
FromProbes(tasks, chosen) ==
    \A k \in DOMAIN tasks : \E i \in DOMAIN chosen :
        tasks[k].name = chosen[i].name /\ tasks[k].kind = chosen[i].kind

InOrder(tasks, chosen) ==
    \A k, l \in DOMAIN tasks : k < l =>
        \E i, j \in DOMAIN chosen :
            /\ i <= j
            /\ tasks[k].name = chosen[i].name /\ tasks[k].kind = chosen[i].kind
            /\ tasks[l].name = chosen[j].name /\ tasks[l].kind = chosen[j].kind

LEMMA TasksAre ==
    ASSUME NEW via, NEW r, NEW names, NEW targets \in Seq(Machines),
           NEW chosen \in Seq(Probe),
           chosen = Chosen(via, r, names),
           NEW tasks, tasks = Tasks(via, r, names, targets)
    PROVE  /\ tasks \in Seq(Task)
           /\ FromProbes(tasks, chosen) /\ InOrder(tasks, chosen)
<1> DEFINE n == Len(targets)
           m == Len(chosen)
           size == m * n
           P(k) == ((k - 1) \div n) + 1
           T(k) == ((k - 1) % n) + 1
<1>1. /\ n \in Nat /\ m \in Nat /\ size \in Nat
      /\ \A k \in 1..size : n \in Nat \ {0}
  <2>1. n \in Nat /\ m \in Nat
    OBVIOUS
  <2>2. m * n \in Nat /\ (n = 0 => m * n = 0)
    BY <2>1
  <2> QED
    BY <2>1, <2>2
<1>2. tasks = [k \in 1..size |-> On(chosen[P(k)], targets[T(k)])]
  BY DEF Tasks
<1>3. \A k \in 1..size : P(k) \in 1..m /\ T(k) \in 1..n
  BY <1>1, DivBound
<1>4. \A k, l \in 1..size : k < l => P(k) <= P(l)
  <2> TAKE k, l \in 1..size
  <2> HAVE k < l
  <2>1. k - 1 \in Nat /\ l - 1 \in Nat /\ k - 1 <= l - 1
    BY <1>1
  <2>2. (k - 1) \div n <= (l - 1) \div n
    BY <1>1, <2>1, DivMono
  <2>3. (k - 1) \div n \in Nat /\ (l - 1) \div n \in Nat
    BY <1>1, <2>1, DivMod
  <2> QED
    BY <2>2, <2>3
<1>5. m = Len(chosen) /\ n = Len(targets)
  OBVIOUS
<1> HIDE DEF P, T, size, m, n
<1>6. \A k \in 1..size : P(k) \in DOMAIN chosen /\ T(k) \in DOMAIN targets
  BY <1>3, <1>5, Element
<1>7. \A k \in 1..size :
         /\ tasks[k] \in Task
         /\ tasks[k].name = chosen[P(k)].name /\ tasks[k].kind = chosen[P(k)].kind
  <2> TAKE k \in 1..size
  <2>1. chosen[P(k)] \in Probe /\ targets[T(k)] \in Machines
    BY <1>6, Element
  <2>2. tasks[k] = On(chosen[P(k)], targets[T(k)])
    BY <1>2
  <2> QED
    BY <2>1, <2>2 DEF On, Task, Probe, Kinds
<1>8. DOMAIN tasks = 1..size /\ tasks = [k \in 1..size |-> tasks[k]]
  BY <1>2
<1>9. tasks \in Seq(Task)
  <2>1. size \in Nat /\ \A k \in 1..size : tasks[k] \in Task
    BY <1>1, <1>7
  <2> QED
    BY <1>8, <2>1, IsSequence
<1>10. \A k \in DOMAIN tasks : \E i \in DOMAIN chosen :
          tasks[k].name = chosen[i].name /\ tasks[k].kind = chosen[i].kind
  BY <1>6, <1>7, <1>8
<1>11. ASSUME NEW k \in DOMAIN tasks, NEW l \in DOMAIN tasks, k < l
       PROVE  \E i, j \in DOMAIN chosen :
                 /\ i <= j
                 /\ tasks[k].name = chosen[i].name
                 /\ tasks[k].kind = chosen[i].kind
                 /\ tasks[l].name = chosen[j].name
                 /\ tasks[l].kind = chosen[j].kind
  <2>1. P(k) <= P(l)
    BY <1>4, <1>8, <1>11
  <2>2. P(k) \in DOMAIN chosen /\ P(l) \in DOMAIN chosen
    BY <1>6, <1>8
  <2> QED
    BY <1>7, <1>8, <2>1, <2>2
<1> QED
  BY <1>9, <1>10, <1>11 DEF FromProbes, InOrder

----------------------------------------------------------------------------
(* What a run contributes.                                                  *)

(* The type invariant, with what it rests on: a session has something to    *)
(* run exactly while it runs, and the log is one of runs.                   *)
TypeInv == /\ TypeOK
           /\ log \in Seq(Entry)
           /\ Running <=> todo # << >>
           /\ asked.plugins \in PluginLists

(* A run of the tailscale probe.                                            *)
Meshed(task) == task.kind = "core" /\ task.name = "tailscale"

(* N and L are the nodes and links of a run and e is what it was told:      *)
(* both ends of a link are nodes of the run; there is a link for each port  *)
(* it was told of, from its target; and a node, with its address, for each  *)
(* host of the mesh, of which only the tailscale probe is told.             *)
SoundNodes(N) == DOMAIN N \subseteq NodeId /\ \A id \in DOMAIN N : N[id] \in Node
SoundLinks(N, L) == \A id \in DOMAIN L : {L[id].from, L[id].to} \subseteq DOMAIN N
PortsLinked(L, e) ==
    \A p \in Ports :
        /\ <<"port", p>> \in DOMAIN L <=> p \in e.ports
        /\ p \in e.ports => L[<<"port", p>>].from = <<"name", e.target>>
MeshNamed(N, e) ==
    /\ ~Meshed(Current) => e.mesh = {}
    /\ \A h \in e.mesh : <<"name", h>> \in DOMAIN N
    /\ Meshed(Current) =>
          \A h \in Hosts : <<"name", h>> \in DOMAIN N =>
              N[<<"name", h>>].tailscale_ip = h
    /\ Current.kind \in {"broken", "raises"} => DOMAIN N = {}

Contributes(N, L, e) ==
    /\ SoundNodes(N) /\ SoundLinks(N, L)
    /\ e \in Entry /\ e.name = Current.name /\ e.target = Current.target
    /\ PortsLinked(L, e)
    /\ MeshNamed(N, e)
    /\ faults' \in 0..MaxFaults
    /\ Report(N, L, e)

Runs == RunIncus \/ RunPort \/ RunDns \/ RunTailscale \/ RunPlugin \/ FailPlugin

(* The run that is due, and its faults.                                     *)
LEMMA CurrentIs ==
    ASSUME TypeInv, Running
    PROVE  /\ Current \in Task /\ Tail(todo) \in Seq(Task)
           /\ Len(todo) = 1 <=> Tail(todo) = << >>
<1>1. todo \in Seq(Task) /\ todo # << >>
  BY DEF TypeInv, TypeOK
<1> QED
  BY <1>1, HeadAndTail DEF Current

LEMMA FaultsBounded ==
    ASSUME TypeInv, Running, NEW source \in Sources, Answers(source)
    PROVE  faults' \in 0..MaxFaults
<1>1. PICK k \in 0..Len(Tries(Current)) : faults + k <= MaxFaults /\ faults' = faults + k
  BY DEF Answers
<1>2. Len(Tries(Current)) \in Nat
  BY DEF Tries
<1>3. faults \in Nat /\ MaxFaults \in Nat
  BY ProbeAssumption DEF TypeInv, TypeOK
<1> QED
  BY <1>1, <1>2, <1>3

LEMMA SourceIs ==
    ASSUME TypeInv, Running, NEW source \in Sources, source # None
    PROVE  source \in Machines
BY CurrentIs, ProbeAssumption DEF Sources, Task

(* The node every run of port, dns and a working entry point adds.          *)
LEMMA HostNodeSound ==
    ASSUME NEW m \in Machines
    PROVE  SoundNodes(HostNode(m)) /\ DOMAIN HostNode(m) = {<<"name", m>>}
BY DEF SoundNodes, HostNode, NodeId, Node, Record

LEMMA MergeSound ==
    ASSUME NEW M, NEW N, SoundNodes(M), SoundNodes(N)
    PROVE  /\ SoundNodes(Merge(M, N))
           /\ DOMAIN Merge(M, N) = DOMAIN M \cup DOMAIN N
BY DEF SoundNodes, Merge

LEMMA IncusContributes ==
    ASSUME TypeInv, RunIncus
    PROVE  \E N, L, e : Contributes(N, L, e)
<1>1. Running /\ ~Meshed(Current) /\ Current.kind = "core"
  BY DEF RunIncus, Turn, Meshed
<1>2. PICK source \in Sources :
         /\ Answers(source)
         /\ LET found == IF source = None THEN {} ELSE instances[source]
            IN  Report([id \in {"name"} \X found |-> Record("container", "incus", None)],
                       Nothing, Told(source # None, {}, {}))
  BY DEF RunIncus
<1> DEFINE found == IF source = None THEN {} ELSE instances[source]
           N == [id \in {"name"} \X found |-> Record("container", "incus", None)]
           e == Told(source # None, {}, {})
<1>3. found \subseteq Containers
  <2>1. source # None => instances[source] \in SUBSET Containers
    BY <1>1, SourceIs DEF TypeInv, TypeOK
  <2> QED
    BY <2>1
<1>4. SoundNodes(N)
  BY <1>3 DEF SoundNodes, NodeId, Node, Record
<1>5. SoundLinks(N, Nothing)
  BY DEF SoundLinks, Nothing
<1>6. /\ e \in Entry /\ e.name = Current.name /\ e.target = Current.target
      /\ e.ports = {} /\ e.mesh = {}
  BY <1>1, CurrentIs DEF Told, Entry, Task
<1>7. PortsLinked(Nothing, e)
  BY <1>6 DEF PortsLinked, Nothing
<1>8. MeshNamed(N, e)
  BY <1>1, <1>6 DEF MeshNamed
<1>9. faults' \in 0..MaxFaults
  BY <1>1, <1>2, FaultsBounded
<1>10. Report(N, Nothing, e)
  BY <1>2
<1> HIDE DEF N, e
<1> QED
  BY <1>4, <1>5, <1>6, <1>7, <1>8, <1>9, <1>10 DEF Contributes

LEMMA PortContributes ==
    ASSUME TypeInv, RunPort
    PROVE  \E N, L, e : Contributes(N, L, e)
<1>1. Running /\ ~Meshed(Current) /\ Current.kind = "core" /\ Current.target \in Machines
  BY CurrentIs DEF RunPort, Turn, Meshed, Task
<1>2. PICK source \in Sources :
         /\ Answers(source)
         /\ LET heard == IF source = None THEN {} ELSE listening[source]
            IN  Report(Merge(HostNode(Current.target),
                             [id \in {"port"} \X heard |-> Record("external", "port", None)]),
                       PortLinks(Current.target, heard),
                       Told(source # None, heard, {}))
  BY DEF RunPort
<1> DEFINE heard == IF source = None THEN {} ELSE listening[source]
           P == [id \in {"port"} \X heard |-> Record("external", "port", None)]
           N == Merge(HostNode(Current.target), P)
           L == PortLinks(Current.target, heard)
           e == Told(source # None, heard, {})
<1>3. heard \subseteq Ports
  <2>1. source # None => listening[source] \in SUBSET Ports
    BY <1>1, SourceIs DEF TypeInv, TypeOK
  <2> QED
    BY <2>1
<1>4. SoundNodes(P) /\ DOMAIN P = {"port"} \X heard
  BY <1>3 DEF SoundNodes, NodeId, Node, Record
<1>5. SoundNodes(N) /\ DOMAIN N = {<<"name", Current.target>>} \cup ({"port"} \X heard)
  <2>1. /\ SoundNodes(HostNode(Current.target))
        /\ DOMAIN HostNode(Current.target) = {<<"name", Current.target>>}
    BY <1>1, HostNodeSound
  <2> HIDE DEF P
  <2> QED
    BY <1>4, <2>1, MergeSound
<1>6. /\ e \in Entry /\ e.name = Current.name /\ e.target = Current.target
      /\ e.ports = heard /\ e.mesh = {}
  BY <1>1, <1>3, CurrentIs DEF Told, Entry, Task
<1>7. Report(N, L, e)
  BY <1>2
<1>8. DOMAIN L = {"port"} \X heard
      /\ \A id \in DOMAIN L : L[id].from = <<"name", Current.target>> /\ L[id].to = id
  BY DEF PortLinks, Link
<1> HIDE DEF heard, P, N, L, e
<1>9. SoundLinks(N, L)
  BY <1>5, <1>8 DEF SoundLinks
<1>10. PortsLinked(L, e)
  BY <1>6, <1>8 DEF PortsLinked
<1>11. MeshNamed(N, e)
  BY <1>1, <1>6 DEF MeshNamed
<1>12. faults' \in 0..MaxFaults
  BY <1>1, <1>2, FaultsBounded
<1> QED
  BY <1>5, <1>6, <1>7, <1>9, <1>10, <1>11, <1>12 DEF Contributes

LEMMA DnsContributes ==
    ASSUME TypeInv, RunDns
    PROVE  \E N, L, e : Contributes(N, L, e)
<1>1. Running /\ ~Meshed(Current) /\ Current.kind = "core" /\ Current.target \in Machines
  BY CurrentIs DEF RunDns, Turn, Meshed, Task
<1>2. PICK answered \in SUBSET Domains :
         /\ faults' = faults + Cardinality(Domains \ answered)
         /\ faults' <= MaxFaults
         /\ Report(Merge(HostNode(Current.target),
                         [id \in {"dns"} \X Domains |-> Record("external", "dns", None)]),
                   [id \in {"dns"} \X answered |-> Link(<<"name", Current.target>>, id)],
                   Told(answered = Domains, {}, {}))
  BY DEF RunDns
<1> DEFINE D == [id \in {"dns"} \X Domains |-> Record("external", "dns", None)]
           N == Merge(HostNode(Current.target), D)
           L == [id \in {"dns"} \X answered |-> Link(<<"name", Current.target>>, id)]
           e == Told(answered = Domains, {}, {})
<1>3. SoundNodes(D) /\ DOMAIN D = {"dns"} \X Domains
  BY DEF SoundNodes, NodeId, Node, Record
<1>4. SoundNodes(N) /\ DOMAIN N = {<<"name", Current.target>>} \cup ({"dns"} \X Domains)
  <2>1. /\ SoundNodes(HostNode(Current.target))
        /\ DOMAIN HostNode(Current.target) = {<<"name", Current.target>>}
    BY <1>1, HostNodeSound
  <2> HIDE DEF D
  <2> QED
    BY <1>3, <2>1, MergeSound
<1>5. /\ e \in Entry /\ e.name = Current.name /\ e.target = Current.target
      /\ e.ports = {} /\ e.mesh = {}
  BY <1>1, CurrentIs DEF Told, Entry, Task
<1>6. Report(N, L, e)
  BY <1>2
<1>7. DOMAIN L = {"dns"} \X answered
      /\ \A id \in DOMAIN L : L[id].from = <<"name", Current.target>> /\ L[id].to = id
  BY DEF Link
<1> HIDE DEF D, N, L, e
<1>8. SoundLinks(N, L)
  BY <1>2, <1>4, <1>7 DEF SoundLinks
<1>9. PortsLinked(L, e)
  BY <1>5, <1>7 DEF PortsLinked
<1>10. MeshNamed(N, e)
  BY <1>1, <1>5 DEF MeshNamed
<1>11. faults' \in 0..MaxFaults
  <2>1. IsFiniteSet(Domains \ answered)
    BY ProbeAssumption, FS_Difference
  <2>2. Cardinality(Domains \ answered) \in Nat
    BY <2>1, FS_CardinalityType
  <2>3. faults \in Nat /\ MaxFaults \in Nat
    BY ProbeAssumption DEF TypeInv, TypeOK
  <2> QED
    BY <1>2, <2>2, <2>3
<1> QED
  BY <1>4, <1>5, <1>6, <1>8, <1>9, <1>10, <1>11 DEF Contributes

LEMMA TailscaleContributes ==
    ASSUME TypeInv, RunTailscale
    PROVE  \E N, L, e : Contributes(N, L, e)
<1>1. Running /\ Meshed(Current) /\ Current.kind = "core"
  BY DEF RunTailscale, Turn, Meshed
<1>2. PICK source \in Sources :
         /\ Answers(source)
         /\ IF source = None
            THEN Report(Nothing, Nothing, Told(FALSE, {}, {}))
            ELSE LET self  == HostNames[source]
                     peers == online \ {self}
                 IN  Report(MeshNodes({self} \cup peers), MeshLinks(self, peers),
                            Told(TRUE, {}, {self} \cup peers))
  BY DEF RunTailscale
<1>3. faults' \in 0..MaxFaults
  BY <1>1, <1>2, FaultsBounded
<1>4. CASE source = None
  <2> DEFINE e == Told(FALSE, {}, {})
  <2>1. /\ e \in Entry /\ e.name = Current.name /\ e.target = Current.target
        /\ e.ports = {} /\ e.mesh = {}
    BY <1>1, CurrentIs DEF Told, Entry, Task
  <2>2. SoundNodes(Nothing) /\ SoundLinks(Nothing, Nothing) /\ DOMAIN Nothing = {}
    BY DEF SoundNodes, SoundLinks, Nothing
  <2>3. PortsLinked(Nothing, e)
    BY <2>1, <2>2 DEF PortsLinked
  <2>4. MeshNamed(Nothing, e)
    BY <2>1, <2>2 DEF MeshNamed
  <2>5. Report(Nothing, Nothing, e)
    BY <1>2, <1>4
  <2> HIDE DEF e
  <2> QED
    BY <1>3, <2>1, <2>2, <2>3, <2>4, <2>5 DEF Contributes
<1>5. CASE source # None
  <2> DEFINE self == HostNames[source]
             peers == online \ {self}
             hosts == {self} \cup peers
             N == MeshNodes(hosts)
             L == MeshLinks(self, peers)
             e == Told(TRUE, {}, hosts)
  <2>1. hosts \subseteq Hosts /\ self \in hosts /\ peers \subseteq hosts
    <3>1. source \in Machines
      BY <1>1, <1>5, SourceIs
    <3>2. online \subseteq Hosts
      BY DEF TypeInv, TypeOK
    <3> QED
      BY <3>1, <3>2 DEF Hosts
  <2>2. Report(N, L, e)
    BY <1>2, <1>5
  <2> HIDE DEF hosts, peers, self
  <2>3. DOMAIN N = {"name"} \X hosts
        /\ \A id \in DOMAIN N : N[id] = Record("host", "tailscale", id[2])
    BY DEF MeshNodes
  <2>4. DOMAIN L = {"mesh"} \X {self} \X peers
        /\ \A id \in DOMAIN L : L[id].from = <<"name", self>>
                                /\ L[id].to = <<"name", id[3]>>
    BY DEF MeshLinks, Link
  <2>5. /\ e \in Entry /\ e.name = Current.name /\ e.target = Current.target
        /\ e.ports = {} /\ e.mesh = hosts
    BY <1>1, <2>1, CurrentIs DEF Told, Entry, Task
  <2> HIDE DEF N, L, e
  <2>6. SoundNodes(N)
    BY <2>1, <2>3 DEF SoundNodes, NodeId, Node, Record
  <2>7. SoundLinks(N, L)
    BY <2>1, <2>3, <2>4 DEF SoundLinks
  <2>8. PortsLinked(L, e)
    BY <2>4, <2>5 DEF PortsLinked
  <2>9. MeshNamed(N, e)
    BY <1>1, <2>3, <2>5 DEF MeshNamed, Record
  <2> QED
    BY <1>3, <2>2, <2>5, <2>6, <2>7, <2>8, <2>9 DEF Contributes
<1> QED
  BY <1>4, <1>5

LEMMA PluginContributes ==
    ASSUME TypeInv, RunPlugin \/ FailPlugin
    PROVE  \E N, L, e : Contributes(N, L, e)
<1>1. Running /\ Current.kind # "core" /\ ~Meshed(Current)
      /\ Current.target \in Machines /\ UNCHANGED faults
  BY CurrentIs DEF RunPlugin, FailPlugin, Meshed, Task
<1>2. PICK N \in {Nothing, HostNode(Current.target)}, answered \in BOOLEAN :
         /\ Report(N, Nothing, Told(answered, {}, {}))
         /\ Current.kind \in {"broken", "raises"} => N = Nothing
  BY DEF RunPlugin, FailPlugin, Constructs
<1> DEFINE e == Told(answered, {}, {})
<1>3. SoundNodes(Nothing) /\ DOMAIN Nothing = {}
  BY DEF SoundNodes, Nothing
<1>4. SoundNodes(N)
  BY <1>1, <1>3, HostNodeSound
<1>5. SoundLinks(N, Nothing)
  BY <1>3 DEF SoundLinks
<1>6. /\ e \in Entry /\ e.name = Current.name /\ e.target = Current.target
      /\ e.ports = {} /\ e.mesh = {}
  BY <1>1, CurrentIs DEF Told, Entry, Task
<1>7. PortsLinked(Nothing, e)
  BY <1>3, <1>6 DEF PortsLinked
<1>8. MeshNamed(N, e)
  BY <1>1, <1>2, <1>3, <1>6 DEF MeshNamed
<1>9. faults' \in 0..MaxFaults
  BY <1>1 DEF TypeInv, TypeOK
<1>10. Report(N, Nothing, e)
  BY <1>2
<1> HIDE DEF e
<1> QED
  BY <1>4, <1>5, <1>6, <1>7, <1>8, <1>9, <1>10 DEF Contributes

LEMMA RunContributes ==
    ASSUME TypeInv, Runs
    PROVE  Running /\ \E N, L, e : Contributes(N, L, e)
<1>1. Running
  BY DEF Runs, RunIncus, RunPort, RunDns, RunTailscale, RunPlugin, FailPlugin, Turn
<1> QED
  BY <1>1, IncusContributes, PortContributes, DnsContributes,
     TailscaleContributes, PluginContributes DEF Runs

----------------------------------------------------------------------------
(* Types.                                                                   *)

LEMMA Appended ==
    ASSUME NEW S, NEW s \in Seq(S), NEW e \in S
    PROVE  /\ Append(s, e) \in Seq(S) /\ Len(Append(s, e)) = Len(s) + 1
           /\ DOMAIN Append(s, e) = DOMAIN s \cup {Len(s) + 1}
           /\ \A i \in DOMAIN s : Append(s, e)[i] = s[i]
           /\ Append(s, e)[Len(s) + 1] = e
OBVIOUS

LEMMA InitType == Init => TypeInv
<1> SUFFICES ASSUME Init PROVE TypeInv
  OBVIOUS
<1>1. PICK via \in {"cli", "mcp"}, plugins \in PluginLists,
           names \in Selections, targets \in TargetLists, local \in LocalTools :
         /\ Range(names) \subseteq {Registry(plugins)[i].name : i \in DOMAIN Registry(plugins)}
         /\ asked = [via |-> via, plugins |-> plugins, names |-> names, local |-> local]
         /\ todo = Tasks(via, Registry(plugins), names, targets)
  BY DEF Init
<1> DEFINE r == Registry(plugins)
           chosen == Chosen(via, r, names)
<1>2. r \in Seq(Probe) /\ r # << >>
  <2>1. Len(plugins) \in Nat
    BY ProbeAssumption
  <2>2. r \in Seq(Probe) /\ Len(r) = 4 + Len(plugins)
    BY RegistryFacts
  <2> HIDE DEF r
  <2> QED
    BY <2>1, <2>2, IsEmpty
<1>3. names \in Seq(STRING) /\ targets \in Seq(Machines)
  BY ProbeAssumption
<1>4. todo = Tasks(via, r, names, targets)
      /\ Range(names) \subseteq {r[i].name : i \in DOMAIN r}
  BY <1>1
<1> HIDE DEF r
<1>5. chosen \in Seq(Probe)
  BY <1>2, <1>3, <1>4, ChosenTyped
<1> HIDE DEF chosen
<1>6. todo \in Seq(Task)
  BY <1>3, <1>4, <1>5, TasksAre DEF chosen
<1>7. asked.plugins \in PluginLists
  BY <1>1
<1>8. log \in Seq(Entry)
  BY DEF Init
<1>9. /\ listening \in [Machines -> SUBSET Ports] /\ online \subseteq Hosts
      /\ instances \in [Machines -> SUBSET Containers]
      /\ moves \in 0..MaxMoves /\ faults \in 0..MaxFaults
      /\ status \in {"running", "done"} /\ (status = "running" <=> todo # << >>)
  BY ProbeAssumption DEF Init
<1>10. /\ DOMAIN nodes = {} /\ DOMAIN links = {} /\ DOMAIN results = {}
  BY DEF Init, Nothing
<1> QED
  BY <1>6, <1>7, <1>8, <1>9, <1>10 DEF TypeInv, TypeOK, Range, Running

LEMMA ContributesType ==
    ASSUME TypeInv, Running, NEW N, NEW L, NEW e, Contributes(N, L, e)
    PROVE  TypeInv'
<1>1. Report(N, L, e) /\ SoundNodes(N) /\ SoundLinks(N, L) /\ e \in Entry
      /\ faults' \in 0..MaxFaults
  BY DEF Contributes
<1>2. /\ todo' = Tail(todo) /\ todo' \in Seq(Task)
      /\ Len(todo) = 1 <=> todo' = << >>
  BY <1>1, CurrentIs DEF Report
<1>3. (status' = "running" <=> todo' # << >>) /\ status' \in {"running", "done", "aborted"}
  BY <1>1, <1>2 DEF Report, Running, TypeInv, TypeOK
<1>4. log' \in Seq(Entry)
  BY <1>1, Appended DEF Report, TypeInv
<1>5. nodes' = Merge(nodes, N) /\ links' = Merge(links, L)
  BY <1>1 DEF Report
<1>6. DOMAIN nodes' \subseteq NodeId /\ Range(nodes') \subseteq Node
      /\ DOMAIN nodes \subseteq DOMAIN nodes' /\ DOMAIN N \subseteq DOMAIN nodes'
  <2>1. SoundNodes(nodes)
    BY DEF SoundNodes, TypeInv, TypeOK, Range
  <2>2. SoundNodes(nodes') /\ DOMAIN nodes' = DOMAIN nodes \cup DOMAIN N
    BY <1>1, <1>5, <2>1, MergeSound
  <2> QED
    BY <2>2 DEF SoundNodes, Range
<1>7. \A id \in DOMAIN links' : {links'[id].from, links'[id].to} \subseteq DOMAIN nodes'
  <2> TAKE id \in DOMAIN links'
  <2>1. CASE id \in DOMAIN L
    <3>1. links'[id] = L[id]
      BY <1>5, <2>1 DEF Merge
    <3>2. {L[id].from, L[id].to} \subseteq DOMAIN N
      BY <1>1, <2>1 DEF SoundLinks
    <3> QED
      BY <1>6, <3>1, <3>2
  <2>2. CASE id \notin DOMAIN L
    <3>1. id \in DOMAIN links /\ links'[id] = links[id]
      BY <1>5, <2>2 DEF Merge
    <3>2. {links[id].from, links[id].to} \subseteq DOMAIN nodes
      BY <3>1 DEF TypeInv, TypeOK
    <3> QED
      BY <1>6, <3>1, <3>2
  <2> QED
    BY <2>1, <2>2
<1>8. Range(results') \subseteq BOOLEAN
  <2>1. results' = Merge(results, [k \in {ResultOf(Current)} |-> ~e.answered])
    BY <1>1 DEF Report
  <2>2. \A k \in DOMAIN results : results[k] \in BOOLEAN
    BY DEF TypeInv, TypeOK, Range
  <2>3. \A k \in DOMAIN results' : results'[k] \in BOOLEAN
    BY <2>1, <2>2 DEF Merge
  <2> QED
    BY <2>3 DEF Range
<1>9. UNCHANGED <<worldVars, moves, asked>>
  BY <1>1 DEF Report
<1> QED
  BY <1>1, <1>2, <1>3, <1>4, <1>6, <1>7, <1>8, <1>9
  DEF TypeInv, TypeOK, Running, worldVars

LEMMA AbortType == TypeInv /\ Abort => TypeInv'
<1> SUFFICES ASSUME TypeInv, Abort PROVE TypeInv'
  OBVIOUS
<1>1. /\ status' = "aborted" /\ todo' = << >>
      /\ DOMAIN nodes' = {} /\ DOMAIN links' = {} /\ DOMAIN results' = {}
      /\ UNCHANGED <<worldVars, moves, faults, asked, log>>
  BY DEF Abort, Nothing
<1>2. todo' \in Seq(Task)
  BY <1>1
<1> QED
  BY <1>1, <1>2 DEF TypeInv, TypeOK, Running, Range, worldVars

LEMMA WorldType == TypeInv /\ WorldMoves => TypeInv'
<1> SUFFICES ASSUME TypeInv, WorldMoves PROVE TypeInv'
  OBVIOUS
<1>1. UNCHANGED <<faults, asked, todo, status, nodes, links, results, log>>
  BY DEF WorldMoves
<1>2. moves' \in 0..MaxMoves
  BY ProbeAssumption DEF WorldMoves, TypeInv, TypeOK
<1>3. listening' \in [Machines -> SUBSET Ports]
  BY DEF WorldMoves, TypeInv, TypeOK, Toggle
<1>4. online' \subseteq Hosts
  BY DEF WorldMoves, TypeInv, TypeOK, Toggle
<1>5. instances' \in [Machines -> SUBSET Containers]
  BY DEF WorldMoves, TypeInv, TypeOK, Toggle
<1> QED
  BY <1>1, <1>2, <1>3, <1>4, <1>5 DEF TypeInv, TypeOK, Running, Range

LEMMA StepType == TypeInv /\ [Next]_vars => TypeInv'
<1> SUFFICES ASSUME TypeInv, [Next]_vars PROVE TypeInv'
  OBVIOUS
<1>1. CASE Runs
  BY <1>1, RunContributes, ContributesType
<1>2. CASE Abort
  BY <1>2, AbortType
<1>3. CASE WorldMoves
  BY <1>3, WorldType
<1>4. CASE UNCHANGED vars
  BY <1>4 DEF vars, worldVars, TypeInv, TypeOK, Running, Range
<1> QED
  BY <1>1, <1>2, <1>3, <1>4 DEF Next, Runs

(* Whatever probes are chosen and whatever was merged in whichever order,   *)
(* a link of the live state has both its ends in it: the document of a      *)
(* session passes the validator of live_state.py:124-128.                   *)
THEOREM TypeCorrect == Spec => []TypeOK
<1>1. Spec => []TypeInv
  BY InitType, StepType, PTL DEF Spec
<1>2. TypeInv => TypeOK
  BY DEF TypeInv
<1> QED
  BY <1>1, <1>2, PTL

----------------------------------------------------------------------------
(* Ports.                                                                   *)

(* The entries of the log that were told of a port.                         *)
ToldOf(l, p) == {i \in DOMAIN l : p \in l[i].ports}

PortInv == TypeInv /\ PortLinksAreExact

LEMMA MaxIs ==
    ASSUME NEW S \in SUBSET Nat, NEW n \in S, \A m \in S : m <= n
    PROVE  Max(S) = n
<1>1. n \in S /\ \A m \in S : n >= m
  OBVIOUS
<1>2. Max(S) \in S /\ \A m \in S : Max(S) >= m
  BY <1>1, Zenon DEF Max
<1>3. Max(S) \in Nat /\ n \in Nat /\ Max(S) <= n /\ Max(S) >= n
  BY <1>1, <1>2
<1> HIDE DEF Max
<1> QED
  BY <1>3

(* A run adds a link for the ports it is told of, and is the last told of   *)
(* them; it leaves those of the other ports as they are.                    *)
LEMMA ContributesPorts ==
    ASSUME PortInv, Running, NEW N, NEW L, NEW e, Contributes(N, L, e)
    PROVE  PortLinksAreExact'
<1> SUFFICES ASSUME NEW p \in Ports
             PROVE  /\ (<<"port", p>> \in DOMAIN links') = (ToldOf(log', p) # {})
                    /\ ToldOf(log', p) # {} =>
                          links'[<<"port", p>>].from
                              = <<"name", log'[Max(ToldOf(log', p))].target>>
  BY DEF PortLinksAreExact, ToldOf
<1> DEFINE id == <<"port", p>>
           n == Len(log)
           old == ToldOf(log, p)
           new == ToldOf(log', p)
<1>1. /\ links' = Merge(links, L) /\ e \in Entry /\ PortsLinked(L, e)
      /\ log' = Append(log, e) /\ log \in Seq(Entry)
  BY DEF Contributes, Report, PortInv, TypeInv
<1>2. /\ DOMAIN log = 1..n /\ n \in Nat /\ DOMAIN log' = DOMAIN log \cup {n + 1}
      /\ \A i \in DOMAIN log : log'[i] = log[i]
      /\ log'[n + 1] = e
  BY <1>1, Element, Appended
<1>3. /\ id \in DOMAIN L <=> p \in e.ports
      /\ p \in e.ports => L[id].from = <<"name", e.target>>
  BY <1>1 DEF PortsLinked
<1>4. /\ id \in DOMAIN links <=> old # {}
      /\ old # {} => links[id].from = <<"name", log[Max(old)].target>>
  BY DEF PortInv, PortLinksAreExact, Running, ToldOf
<1>5. CASE p \in e.ports
  <2>1. new \subseteq Nat /\ n + 1 \in new /\ \A m \in new : m <= n + 1
    BY <1>2, <1>5 DEF ToldOf
  <2>2. Max(new) = n + 1
    BY <2>1, MaxIs
  <2>3. id \in DOMAIN links' /\ links'[id] = L[id]
    BY <1>1, <1>3, <1>5 DEF Merge
  <2> QED
    BY <1>2, <1>3, <1>5, <2>1, <2>2, <2>3
<1>6. CASE p \notin e.ports
  <2>1. new = old
    BY <1>2, <1>6 DEF ToldOf
  <2>2. id \in DOMAIN links' <=> id \in DOMAIN links
    BY <1>1, <1>3, <1>6 DEF Merge
  <2>3. id \in DOMAIN links => links'[id] = links[id]
    BY <1>1, <1>3, <1>6 DEF Merge
  <2>4. old # {} => log'[Max(old)] = log[Max(old)]
    <3>1. ASSUME old # {} PROVE Max(old) \in old
      <4>1. old \in SUBSET Nat /\ \A i \in old : i <= n
        BY <1>2 DEF ToldOf
      <4>2. PICK m \in old : \A i \in old : i <= m
        BY <3>1, <1>2, <4>1, GreatestNatural
      <4> QED
        BY <4>1, <4>2, MaxIs
    <3> QED
      BY <1>2, <3>1 DEF ToldOf
  <2> QED
    BY <1>4, <2>1, <2>2, <2>3, <2>4
<1> QED
  BY <1>5, <1>6

LEMMA StepPorts == PortInv /\ [Next]_vars => PortInv'
<1> SUFFICES ASSUME PortInv, [Next]_vars PROVE PortLinksAreExact'
  BY StepType DEF PortInv
<1>1. CASE Runs
  BY <1>1, RunContributes, ContributesPorts DEF PortInv
<1>2. CASE Abort
  BY <1>2 DEF Abort, PortLinksAreExact
<1>3. CASE WorldMoves
  BY <1>3 DEF WorldMoves, PortInv, PortLinksAreExact
<1>4. CASE UNCHANGED vars
  BY <1>4 DEF vars, PortInv, PortLinksAreExact
<1> QED
  BY <1>1, <1>2, <1>3, <1>4 DEF Next, Runs

(* The live state has the link of a port exactly if a run was told of it,   *)
(* from the last target that told, for any number of targets and of probes, *)
(* in any order, and whatever the world does meanwhile.                     *)
THEOREM PortLinksAreExactHolds == Spec => []PortLinksAreExact
<1>1. Init => PortInv
  <2>1. ASSUME Init PROVE PortLinksAreExact
    <3>1. DOMAIN links = {} /\ DOMAIN log = {}
      BY <2>1 DEF Init, Nothing
    <3> QED
      BY <3>1 DEF PortLinksAreExact
  <2> QED
    BY <2>1, InitType DEF PortInv
<1>2. PortInv => PortLinksAreExact
  BY DEF PortInv
<1> QED
  BY <1>1, <1>2, StepPorts, PTL DEF Spec

----------------------------------------------------------------------------
(* Errors.                                                                  *)

(* A run of the log that was not answered still counts as an error, or was  *)
(* followed by one of its probe on its target that was.                     *)
Answered(l, i) ==
    \E j \in (i + 1)..Len(l) :
        l[j].answered /\ l[j].name = l[i].name /\ l[j].target = l[i].target

Counted(l, r) ==
    \A i \in DOMAIN l : ~l[i].answered =>
        \/ /\ <<l[i].name, l[i].target>> \in DOMAIN r
           /\ r[<<l[i].name, l[i].target>>] = TRUE
        \/ Answered(l, i)

ErrorInv == TypeInv /\ (status # "aborted" => Counted(log, results))

(* A run replaces the result of its probe on its target, and no other.      *)
LEMMA ContributesErrors ==
    ASSUME ErrorInv, Running, NEW N, NEW L, NEW e, Contributes(N, L, e)
    PROVE  Counted(log', results')
<1> DEFINE n == Len(log)
           key(i) == <<log'[i].name, log'[i].target>>
<1>1. /\ log' = Append(log, e) /\ log \in Seq(Entry) /\ e \in Entry
      /\ e.name = Current.name /\ e.target = Current.target
      /\ results' = Merge(results, [k \in {ResultOf(Current)} |-> ~e.answered])
  BY DEF Contributes, Report, ErrorInv, TypeInv
<1>2. /\ DOMAIN log = 1..n /\ n \in Nat /\ DOMAIN log' = DOMAIN log \cup {n + 1}
      /\ \A i \in DOMAIN log : log'[i] = log[i]
      /\ log'[n + 1] = e /\ Len(log') = n + 1
  BY <1>1, Element, Appended
<1>3. /\ <<e.name, e.target>> \in DOMAIN results'
      /\ results'[<<e.name, e.target>>] = ~e.answered
      /\ \A k \in DOMAIN results : k # <<e.name, e.target>> =>
            k \in DOMAIN results' /\ results'[k] = results[k]
  BY <1>1 DEF Merge, ResultOf
<1>4. Counted(log, results)
  BY DEF ErrorInv, Running
<1> HIDE DEF n
<1>5. ASSUME NEW i \in DOMAIN log', ~log'[i].answered
      PROVE  \/ key(i) \in DOMAIN results' /\ results'[key(i)] = TRUE
             \/ Answered(log', i)
  <2>1. CASE i = n + 1
    BY <1>2, <1>3, <1>5, <2>1
  <2>2. CASE i \in DOMAIN log /\ key(i) = <<e.name, e.target>> /\ e.answered
    <3>1. n + 1 \in (i + 1)..Len(log')
      BY <1>2, <2>2
    <3>2. e.name = log'[i].name /\ e.target = log'[i].target
      BY <2>2
    <3> QED
      BY <1>2, <2>2, <3>1, <3>2 DEF Answered
  <2>3. CASE i \in DOMAIN log /\ key(i) = <<e.name, e.target>> /\ ~e.answered
    BY <1>3, <2>3
  <2>4. CASE i \in DOMAIN log /\ key(i) # <<e.name, e.target>>
    <3>1. log'[i] = log[i] /\ ~log[i].answered
      BY <1>2, <1>5, <2>4
    <3>2. CASE key(i) \in DOMAIN results /\ results[key(i)] = TRUE
      BY <1>3, <2>4, <3>2
    <3>3. CASE Answered(log, i)
      <4>1. PICK j \in (i + 1)..n : /\ log[j].answered
                                    /\ log[j].name = log[i].name
                                    /\ log[j].target = log[i].target
        BY <3>3 DEF Answered, n
      <4>2. j \in DOMAIN log /\ j \in (i + 1)..Len(log')
        BY <1>2, <2>4, <4>1
      <4> QED
        BY <1>2, <3>1, <4>1, <4>2 DEF Answered
    <3>4. \/ key(i) \in DOMAIN results /\ results[key(i)] = TRUE
          \/ Answered(log, i)
      BY <1>4, <2>4, <3>1 DEF Counted
    <3> QED
      BY <3>2, <3>3, <3>4
  <2> QED
    BY <1>2, <1>5, <2>1, <2>2, <2>3, <2>4
<1> QED
  BY <1>5 DEF Counted

LEMMA StepErrors == ErrorInv /\ [Next]_vars => ErrorInv'
<1> SUFFICES ASSUME ErrorInv, [Next]_vars
             PROVE  (status # "aborted" => Counted(log, results))'
  BY StepType DEF ErrorInv
<1>1. CASE Runs
  BY <1>1, RunContributes, ContributesErrors DEF ErrorInv
<1>2. CASE Abort
  BY <1>2 DEF Abort
<1>3. CASE WorldMoves
  BY <1>3 DEF WorldMoves, ErrorInv, Counted, Answered
<1>4. CASE UNCHANGED vars
  BY <1>4 DEF vars, ErrorInv, Counted, Answered
<1> QED
  BY <1>1, <1>2, <1>3, <1>4 DEF Next, Runs

(* A session that reports no error has, for every run that was not          *)
(* answered, a later one of the same probe on the same target that was,     *)
(* however often a probe is named or registered and on however many         *)
(* targets.                                                                 *)
THEOREM ErrorsAreReportedHolds == Spec => []ErrorsAreReported
<1>1. Init => ErrorInv
  <2>1. ASSUME Init PROVE Counted(log, results)
    <3>1. DOMAIN log = {}
      BY <2>1 DEF Init
    <3> QED
      BY <3>1 DEF Counted
  <2> QED
    BY <2>1, InitType DEF ErrorInv
<1>2. ErrorInv => ErrorsAreReported
  <2> SUFFICES ASSUME ErrorInv, status = "done", TRUE \notin Range(results),
                      NEW i \in DOMAIN log, ~log[i].answered
               PROVE  Answered(log, i)
    BY DEF ErrorsAreReported, Answered
  <2> QED
    BY DEF ErrorInv, Counted, Range
<1> QED
  BY <1>1, <1>2, StepErrors, PTL DEF Spec

----------------------------------------------------------------------------
(* The mesh.                                                                *)

(* A session of all probes whose entry points add nothing.                  *)
Quiet == /\ asked.names = << >>
         /\ \A p \in Range(asked.plugins) :
                p.name \notin CoreNames /\ p.kind \in {"broken", "raises"}

Harmless(task) == task.kind = "core" => task.name = "tailscale"

(* What is left to run once the mesh has been asked for: the runs of the    *)
(* tailscale probe and of entry points, since those of the probes that add  *)
(* a host again come before them.                                           *)
Ordered ==
    /\ \A k \in DOMAIN todo : todo[k].kind \in {"core", "broken", "raises"}
    /\ \A k, l \in DOMAIN todo : k < l /\ Meshed(todo[k]) => Harmless(todo[l])

Addressed ==
    /\ (\E i \in DOMAIN log : log[i].mesh # {}) =>
          \A k \in DOMAIN todo : Harmless(todo[k])
    /\ status # "aborted" =>
          \A i \in DOMAIN log : \A h \in log[i].mesh :
              /\ <<"name", h>> \in DOMAIN nodes
              /\ nodes[<<"name", h>>].tailscale_ip = h

MeshInv == TypeInv /\ (Quiet => Ordered /\ Addressed)

(* The probes of such a session, in the order of the registry.              *)
LEMMA QuietChosen ==
    ASSUME NEW via, NEW plugins \in PluginLists,
           \A p \in Range(plugins) :
               p.name \notin CoreNames /\ p.kind \in {"broken", "raises"},
           NEW r, r = Registry(plugins),
           NEW chosen, chosen = Chosen(via, r, << >>)
    PROVE  /\ DOMAIN chosen = DOMAIN r
           /\ \A i \in DOMAIN r :
                 /\ i <= 4 => chosen[i] = [name |-> Core[i], kind |-> "core"]
                 /\ i > 4 => chosen[i].kind \in {"broken", "raises"}
<1>1. /\ r \in Seq(Probe) /\ DOMAIN r = 1..Len(r)
      /\ Len(r) = 4 + Len(plugins) /\ Len(plugins) \in Nat
      /\ \A i \in 1..4 : r[i] = [name |-> Core[i], kind |-> "core"]
      /\ \A i \in 5..Len(r) : i - 4 \in DOMAIN plugins /\ r[i] = plugins[i - 4]
  BY RegistryFacts, Element, ProbeAssumption
<1>2. \A i \in 5..Len(r) : r[i].name \notin CoreNames
                           /\ r[i].kind \in {"broken", "raises"}
  BY <1>1 DEF Range
<1>3. \A i \in 1..4 : Core[i] \in CoreNames
      /\ \A j \in 1..4 : Core[i] = Core[j] => i = j
  BY DEF Core, CoreNames
<1>4. \A i \in DOMAIN r : /\ i <= 4 => Get(r, r[i].name) = r[i]
                          /\ i > 4 => Get(r, r[i].name).kind \in {"broken", "raises"}
  <2> TAKE i \in DOMAIN r
  <2>1. PICK k \in DOMAIN r : Get(r, r[i].name) = r[k] /\ r[k].name = r[i].name /\ k <= i
    BY <1>1, GetFinds
  <2>2. CASE i <= 4
    <3>1. i \in 1..4 /\ k \in 1..4
      BY <1>1, <2>1, <2>2
    <3>2. r[i].name = Core[i] /\ r[k].name = Core[k]
      BY <1>1, <3>1
    <3> QED
      BY <1>3, <2>1, <2>2, <3>1, <3>2
  <2>3. CASE i > 4
    <3>1. i \in 5..Len(r) /\ (k \in 1..4 \/ k \in 5..Len(r))
      BY <1>1, <2>3
    <3>2. k \notin 1..4
      <4>1. k \in 1..4 => r[k].name \in CoreNames
        BY <1>1, <1>3
      <4> QED
        BY <1>2, <2>1, <3>1, <4>1
    <3> QED
      BY <1>2, <2>1, <2>3, <3>1, <3>2
  <2> QED
    BY <1>1, <2>2, <2>3
<1> DEFINE all == [i \in DOMAIN r |-> r[i].name]
<1>5. chosen = IF via = "cli" THEN [i \in DOMAIN all |-> Get(r, all[i])] ELSE r
  BY DEF Chosen
<1>6. CASE via = "cli"
  BY <1>1, <1>4, <1>5, <1>6
<1>7. CASE via # "cli"
  <2>1. chosen = r
    BY <1>5, <1>7
  <2>2. \A i \in DOMAIN r : (i <= 4 => i \in 1..4) /\ (i > 4 => i \in 5..Len(r))
    BY <1>1
  <2> QED
    BY <1>1, <1>2, <2>1, <2>2
<1> QED
  BY <1>6, <1>7

LEMMA InitOrdered == Init /\ Quiet => Ordered
<1> SUFFICES ASSUME Init, Quiet PROVE Ordered
  OBVIOUS
<1>1. PICK via \in {"cli", "mcp"}, plugins \in PluginLists,
           names \in Selections, targets \in TargetLists, local \in LocalTools :
         /\ Range(names) \subseteq {Registry(plugins)[i].name : i \in DOMAIN Registry(plugins)}
         /\ asked = [via |-> via, plugins |-> plugins, names |-> names, local |-> local]
         /\ todo = Tasks(via, Registry(plugins), names, targets)
  BY DEF Init
<1> DEFINE r == Registry(plugins)
           chosen == Chosen(via, r, << >>)
<1>2. names = << >> /\ \A p \in Range(plugins) :
         p.name \notin CoreNames /\ p.kind \in {"broken", "raises"}
  BY <1>1 DEF Quiet
<1>3. targets \in Seq(Machines) /\ << >> \in Seq(STRING)
  BY ProbeAssumption
<1>4. todo = Tasks(via, r, << >>, targets)
  BY <1>1, <1>2
<1>5. r \in Seq(Probe) /\ r # << >> /\ DOMAIN r = 1..Len(r) /\ Len(r) \in Nat
  <2>1. Len(plugins) \in Nat
    BY ProbeAssumption
  <2>2. r \in Seq(Probe) /\ Len(r) = 4 + Len(plugins)
    BY RegistryFacts
  <2> HIDE DEF r
  <2> QED
    BY <2>1, <2>2, IsEmpty, Element
<1>6. chosen \in Seq(Probe)
  <2>1. Range(<< >>) \subseteq {r[i].name : i \in DOMAIN r}
    BY DEF Range
  <2> HIDE DEF r
  <2> QED
    BY <1>3, <1>5, <2>1, ChosenTyped
<1>7. /\ DOMAIN chosen = DOMAIN r
      /\ \A i \in DOMAIN r :
            /\ i <= 4 => chosen[i] = [name |-> Core[i], kind |-> "core"]
            /\ i > 4 => chosen[i].kind \in {"broken", "raises"}
  BY <1>2, QuietChosen
<1>8. /\ \A k \in DOMAIN todo : \E i \in DOMAIN chosen :
            todo[k].name = chosen[i].name /\ todo[k].kind = chosen[i].kind
      /\ \A k, l \in DOMAIN todo : k < l =>
            \E i, j \in DOMAIN chosen :
                /\ i <= j
                /\ todo[k].name = chosen[i].name /\ todo[k].kind = chosen[i].kind
                /\ todo[l].name = chosen[j].name /\ todo[l].kind = chosen[j].kind
  <2> HIDE DEF r
  <2>1. chosen = Chosen(via, r, names) /\ todo = Tasks(via, r, names, targets)
    BY <1>2, <1>4
  <2> HIDE DEF chosen
  <2>2. FromProbes(todo, chosen) /\ InOrder(todo, chosen)
    BY <1>3, <1>6, <2>1, TasksAre
  <2> QED
    BY <2>2 DEF FromProbes, InOrder
<1> HIDE DEF r, chosen
<1>9. \A i \in DOMAIN chosen :
         /\ chosen[i].kind \in {"core", "broken", "raises"}
         /\ Meshed(chosen[i]) => i = 4
         /\ i >= 4 => Harmless(chosen[i])
  <2> TAKE i \in DOMAIN chosen
  <2>1. i \in Nat /\ i >= 1
    BY <1>5, <1>7
  <2>2. CASE i <= 4
    <3>1. chosen[i].kind = "core" /\ chosen[i].name = Core[i] /\ i \in 1..4
      BY <1>7, <2>1, <2>2
    <3>2. Core[i] = "tailscale" <=> i = 4
      BY <3>1 DEF Core
    <3> QED
      BY <2>1, <2>2, <3>1, <3>2 DEF Meshed, Harmless
  <2>3. CASE i > 4
    <3>1. chosen[i].kind \in {"broken", "raises"}
      BY <1>7, <2>1, <2>3
    <3> QED
      BY <3>1 DEF Meshed, Harmless
  <2> QED
    BY <2>1, <2>2, <2>3
<1>10. \A k \in DOMAIN todo : todo[k].kind \in {"core", "broken", "raises"}
  BY <1>8, <1>9
<1>11. ASSUME NEW k \in DOMAIN todo, NEW l \in DOMAIN todo, k < l, Meshed(todo[k])
       PROVE  Harmless(todo[l])
  <2>1. PICK i, j \in DOMAIN chosen :
           /\ i <= j
           /\ todo[k].name = chosen[i].name /\ todo[k].kind = chosen[i].kind
           /\ todo[l].name = chosen[j].name /\ todo[l].kind = chosen[j].kind
    BY <1>8, <1>11
  <2>2. i = 4
    BY <1>9, <1>11, <2>1 DEF Meshed
  <2>3. Harmless(chosen[j])
    BY <1>9, <2>1, <2>2
  <2> QED
    BY <2>1, <2>3 DEF Harmless
<1> QED
  BY <1>10, <1>11 DEF Ordered

(* After its head, a session has left what it had.                          *)
LEMMA TailOrdered ==
    ASSUME TypeInv, Running, Ordered, todo' = Tail(todo)
    PROVE  /\ Ordered'
           /\ \A k \in DOMAIN todo' : todo'[k] \in {todo[l] : l \in DOMAIN todo}
           /\ Meshed(Current) => \A k \in DOMAIN todo' : Harmless(todo'[k])
           /\ 1 \in DOMAIN todo /\ Current = todo[1]
<1>1. todo \in Seq(Task) /\ todo # << >>
  BY DEF TypeInv, TypeOK
<1>2. /\ Head(todo) = todo[1] /\ 1 \in DOMAIN todo /\ DOMAIN todo = 1..Len(todo)
      /\ \A i \in DOMAIN todo' : i + 1 \in DOMAIN todo /\ todo'[i] = todo[i + 1]
      /\ \A i \in DOMAIN todo' : i \in Nat \ {0}
  <2>1. /\ Head(todo) = todo[1] /\ Len(todo) \in Nat \ {0} /\ DOMAIN todo = 1..Len(todo)
        /\ \A i \in DOMAIN todo' : i + 1 \in DOMAIN todo /\ todo'[i] = todo[i + 1]
    BY <1>1, HeadAndTail, Element
  <2>2. todo' \in Seq(Task)
    BY <1>1, HeadAndTail
  <2>3. DOMAIN todo' = 1..Len(todo') /\ Len(todo') \in Nat
    BY <2>2, Element
  <2> QED
    BY <2>1, <2>3
<1>3. Ordered'
  <2>1. \A k \in DOMAIN todo' : todo'[k].kind \in {"core", "broken", "raises"}
    BY <1>2 DEF Ordered
  <2>2. ASSUME NEW k \in DOMAIN todo', NEW l \in DOMAIN todo', k < l, Meshed(todo'[k])
        PROVE  Harmless(todo'[l])
    <3>1. k + 1 < l + 1 /\ Meshed(todo[k + 1])
      BY <1>2, <2>2
    <3> QED
      BY <1>2, <3>1 DEF Ordered
  <2> QED
    BY <2>1, <2>2 DEF Ordered, Meshed, Harmless
<1>4. Meshed(Current) => \A k \in DOMAIN todo' : Harmless(todo'[k])
  <2> SUFFICES ASSUME Meshed(todo[1]), NEW k \in DOMAIN todo' PROVE Harmless(todo'[k])
    BY <1>2 DEF Current
  <2>1. 1 < k + 1
    BY <1>2
  <2> QED
    BY <1>2, <2>1 DEF Ordered
<1> QED
  BY <1>2, <1>3, <1>4 DEF Current

(* A run of the tailscale probe gives the hosts it is told of, and those of *)
(* before that it is told of again, their addresses; another one happens    *)
(* before any host was told of, or adds nothing.                            *)
LEMMA ContributesMesh ==
    ASSUME MeshInv, Quiet, Running, NEW N, NEW L, NEW e, Contributes(N, L, e)
    PROVE  Ordered' /\ Addressed'
<1>1. /\ log' = Append(log, e) /\ log \in Seq(Entry) /\ e \in Entry
      /\ todo' = Tail(todo) /\ nodes' = Merge(nodes, N) /\ MeshNamed(N, e)
  BY DEF Contributes, Report, MeshInv, TypeInv
<1>2. /\ DOMAIN log' = DOMAIN log \cup {Len(log) + 1}
      /\ \A i \in DOMAIN log : log'[i] = log[i]
      /\ log'[Len(log) + 1] = e
  BY <1>1, Appended
<1>3. /\ Ordered'
      /\ \A k \in DOMAIN todo' : todo'[k] \in {todo[l] : l \in DOMAIN todo}
      /\ Meshed(Current) => \A k \in DOMAIN todo' : Harmless(todo'[k])
      /\ 1 \in DOMAIN todo /\ Current = todo[1]
  BY <1>1, TailOrdered DEF MeshInv
<1>4. Addressed /\ Ordered
  BY DEF MeshInv
<1> DEFINE Known(l) == \E i \in DOMAIN l : l[i].mesh # {}
<1>5. ~Meshed(Current) => (Known(log') => Known(log))
  BY <1>1, <1>2 DEF MeshNamed
<1>6. Known(log') => \A k \in DOMAIN todo' : Harmless(todo'[k])
  <2>1. CASE Meshed(Current)
    BY <1>3, <2>1
  <2>2. CASE ~Meshed(Current)
    <3>1. Known(log) => \A k \in DOMAIN todo : Harmless(todo[k])
      BY <1>4 DEF Addressed
    <3> QED
      BY <1>3, <1>5, <2>2, <3>1
  <2> QED
    BY <2>1, <2>2
<1>7. ASSUME NEW i \in DOMAIN log', NEW h \in log'[i].mesh
      PROVE  <<"name", h>> \in DOMAIN nodes' /\ nodes'[<<"name", h>>].tailscale_ip = h
  <2>1. i \in DOMAIN log => /\ <<"name", h>> \in DOMAIN nodes
                            /\ nodes[<<"name", h>>].tailscale_ip = h
    <3>1. status # "aborted"
      BY DEF Running
    <3> QED
      BY <1>2, <1>4, <3>1 DEF Addressed
  <2>2. i \notin DOMAIN log => h \in e.mesh
    BY <1>2
  <2>3. CASE Meshed(Current)
    <3>1. h \in Hosts
      <4>1. log' \in Seq(Entry)
        BY <1>1, Appended
      <4>2. log'[i] \in Entry
        BY <4>1, Element
      <4> QED
        BY <4>2 DEF Entry
    <3>2. h \in e.mesh => <<"name", h>> \in DOMAIN N
      BY <1>1 DEF MeshNamed
    <3>3. <<"name", h>> \in DOMAIN N => N[<<"name", h>>].tailscale_ip = h
      BY <1>1, <2>3, <3>1 DEF MeshNamed
    <3> QED
      BY <1>1, <2>1, <2>2, <3>2, <3>3 DEF Merge
  <2>4. CASE ~Meshed(Current)
    <3>1. e.mesh = {}
      BY <1>1, <2>4 DEF MeshNamed
    <3>2. i \in DOMAIN log /\ log[i].mesh # {}
      BY <1>2, <2>2, <3>1
    <3>3. Harmless(Current)
      BY <1>3, <1>4, <3>2 DEF Addressed
    <3>4. Current.kind \in {"broken", "raises"}
      BY <1>3, <1>4, <2>4, <3>3 DEF Ordered, Meshed, Harmless
    <3>5. DOMAIN N = {}
      BY <1>1, <3>4 DEF MeshNamed
    <3> QED
      BY <1>1, <2>1, <3>2, <3>5 DEF Merge
  <2> QED
    BY <2>3, <2>4
<1> QED
  BY <1>3, <1>6, <1>7 DEF Addressed, Harmless

LEMMA StepMesh == MeshInv /\ [Next]_vars => MeshInv'
<1> SUFFICES ASSUME MeshInv, [Next]_vars, Quiet'
             PROVE  Ordered' /\ Addressed'
  BY StepType DEF MeshInv
<1>1. asked' = asked
  <2>1. CASE Runs
    BY <2>1, RunContributes DEF Contributes, Report, MeshInv
  <2> QED
    BY <2>1 DEF Next, Runs, Abort, WorldMoves, vars
<1>2. Quiet
  BY <1>1 DEF Quiet
<1>3. CASE Runs
  BY <1>2, <1>3, RunContributes, ContributesMesh DEF MeshInv
<1>4. CASE Abort
  <2>1. todo' = << >> /\ status' = "aborted" /\ DOMAIN todo' = {}
    BY <1>4 DEF Abort
  <2> QED
    BY <2>1 DEF Ordered, Addressed
<1>5. CASE WorldMoves
  BY <1>2, <1>5 DEF WorldMoves, MeshInv, Ordered, Addressed, Meshed, Harmless
<1>6. CASE UNCHANGED vars
  BY <1>2, <1>6 DEF vars, MeshInv, Ordered, Addressed, Meshed, Harmless
<1> QED
  BY <1>3, <1>4, <1>5, <1>6 DEF Next, Runs

(* In a session of all the probes, with entry points that neither take the  *)
(* name of a probe of the program nor add a host, every host that a target  *)
(* reported in the mesh has its address in the live state: it is the order  *)
(* of the registry, over any number of targets, that keeps it.              *)
THEOREM MeshAddressSurvivesHolds == Spec => []MeshAddressSurvives
<1>1. Init => MeshInv
  <2>1. ASSUME Init PROVE Addressed
    <3>1. DOMAIN log = {}
      BY <2>1 DEF Init
    <3> QED
      BY <3>1 DEF Addressed
  <2> QED
    BY <2>1, InitType, InitOrdered DEF MeshInv
<1>2. MeshInv => MeshAddressSurvives
  BY DEF MeshInv, Quiet, Addressed, MeshAddressSurvives
<1> QED
  BY <1>1, <1>2, StepMesh, PTL DEF Spec


=============================================================================
