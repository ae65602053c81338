------------------------ MODULE DriftDetectionProofs ------------------------
(***************************************************************************)
(* Proofs about the detection of drift, for all targets, containers, probe  *)
(* selections, topologies and ignore rules: what a live state says was      *)
(* there, and a report that says nothing about a service means that it is   *)
(* where and what it is declared to be.                                     *)
(***************************************************************************)
EXTENDS DriftDetection, Integers, TLAPS

---------------------------------------------------------------------------
(* The tasks of a session.                                                 *)

(* Multiplication by a natural is monotonic.                               *)
LEMMA Times ==
    ASSUME NEW n \in Nat, NEW a \in Int, NEW b \in Int, a <= b
    PROVE  n * a <= n * b
OBVIOUS

(* Quotient and remainder.                                                 *)
LEMMA DivMod ==
    ASSUME NEW n \in Nat \ {0}, NEW a \in Nat
    PROVE  /\ a \div n \in Nat
           /\ a % n \in 0..(n - 1)
           /\ a = n * (a \div n) + (a % n)
OBVIOUS

(* Of m * n tasks the k-th has one of m probes and one of n targets.       *)
LEMMA DivBound ==
    ASSUME NEW n \in Nat \ {0}, NEW m \in Nat, NEW k \in 1..(m * n)
    PROVE  /\ ((k - 1) \div n) + 1 \in 1..m
           /\ ((k - 1) % n) + 1 \in 1..n
<1>1. m * n \in Nat /\ k \in Nat /\ k - 1 \in Nat /\ k - 1 < m * n
  OBVIOUS
<1> DEFINE q == (k - 1) \div n
           r == (k - 1) % n
<1>2. q \in Nat /\ r \in 0..(n - 1) /\ k - 1 = n * q + r
  BY <1>1, DivMod
<1> HIDE DEF q, r
<1>3. ASSUME m <= q PROVE FALSE
  <2>1. n * m <= n * q
    BY <1>2, <1>3, Times
  <2>2. n * m = m * n /\ n * q \in Int
    BY <1>2
  <2> QED
    BY <2>1, <2>2, <1>1, <1>2
<1>4. q + 1 \in 1..m /\ r + 1 \in 1..n
  BY <1>2, <1>3
<1> QED
  BY <1>4 DEF q, r

(* Sequences over any set.                                                 *)
LEMMA Element ==
    ASSUME NEW S, NEW s \in Seq(S)
    PROVE  /\ Len(s) \in Nat /\ DOMAIN s = 1..Len(s)
           /\ \A i \in DOMAIN s : s[i] \in S
OBVIOUS

LEMMA IsSequence ==
    ASSUME NEW S, NEW n \in Nat, NEW s, DOMAIN s = 1..n, s = [i \in 1..n |-> s[i]],
           \A i \in 1..n : s[i] \in S
    PROVE  s \in Seq(S)
OBVIOUS

LEMMA HeadAndTail ==
    ASSUME NEW S, NEW s \in Seq(S), s # << >>
    PROVE  Head(s) \in S /\ Tail(s) \in Seq(S)
OBVIOUS

Probes == {"podman", "port"} \X TargetSet

LEMMA TasksTyped ==
    ASSUME NEW names \in Selections
    PROVE  Tasks(names) \in Seq(Probes)
<1> DEFINE n == Len(Targets)
           m == Len(names)
           size == m * n
           P(k) == ((k - 1) \div n) + 1
           T(k) == ((k - 1) % n) + 1
           tasks == Tasks(names)
<1>1. names \in Seq({"podman", "port"}) /\ Targets \in Seq(TargetSet)
  BY DetectionAssumption
<1>2. /\ n \in Nat /\ m \in Nat /\ size \in Nat
      /\ \A k \in 1..size : n \in Nat \ {0}
  <2>1. n \in Nat /\ m \in Nat
    BY <1>1, Element
  <2>2. m * n \in Nat /\ (n = 0 => m * n = 0)
    BY <2>1
  <2> QED
    BY <2>1, <2>2
<1>3. tasks = [k \in 1..size |-> <<names[P(k)], Targets[T(k)]>>]
  BY DEF Tasks
<1>4. \A k \in 1..size : P(k) \in 1..m /\ T(k) \in 1..n
  BY <1>2, DivBound
<1>5. m = Len(names) /\ n = Len(Targets)
  OBVIOUS
<1> HIDE DEF P, T, size, m, n, tasks
<1>6. \A k \in 1..size : names[P(k)] \in {"podman", "port"} /\ Targets[T(k)] \in TargetSet
  BY <1>1, <1>4, <1>5, Element
<1>7. size \in Nat /\ \A k \in 1..size : tasks[k] \in Probes
  BY <1>2, <1>3, <1>6 DEF Probes
<1>8. DOMAIN tasks = 1..size /\ tasks = [k \in 1..size |-> tasks[k]]
  BY <1>3
<1>9. tasks \in Seq(Probes)
  BY <1>7, <1>8, IsSequence
<1> QED
  BY <1>9 DEF tasks

---------------------------------------------------------------------------
(* What each step does to the session.                                     *)

ViewListing == [Services -> Views \cup {None}]

(* What the probe reads of a container is its image, its manager and some  *)
(* or all of its ports.                                                    *)
LEMMA ParsedIs ==
    ASSUME NEW host \in Hosts, NEW c \in Configs
    PROVE  /\ Parsed(host, c) \in Views /\ Parsed(host, c) # None
           /\ Parsed(host, c).image = c.image
           /\ Parsed(host, c).managed_by = c.managed_by
           /\ Among(Parsed(host, c).ports, c.ports)
           /\ host \in PublicKey => Parsed(host, c) = c
<1>1. Parsed(host, c) \in Views /\ Parsed(host, c) # None
  <2> DEFINE v == Parsed(host, c)
  <2>1. v \in Views
    BY DEF Views
  <2> HIDE DEF v
  <2>2. v # None
    BY <2>1, DetectionAssumption
  <2> QED
    BY <2>1, <2>2 DEF v
<1>2. c = [image |-> c.image, ports |-> c.ports, managed_by |-> c.managed_by]
  BY DetectionAssumption
<1>3. CASE host \in PublicKey
  BY <1>1, <1>3 DEF Parsed, Among
<1>4. CASE host \notin PublicKey
  <2>1. Parsed(host, c) = [image |-> c.image, ports |-> << >>, managed_by |-> c.managed_by]
    BY <1>2, <1>4 DEF Parsed
  <2>2. DOMAIN << >> = {}
    OBVIOUS
  <2> QED
    BY <1>1, <1>4, <2>1, <2>2 DEF Among
<1> QED
  BY <1>3, <1>4

LEMMA ParseIs ==
    ASSUME NEW host \in Hosts, NEW listing \in Listing
    PROVE  /\ Parse(host, listing) \in ViewListing
           /\ \A s \in Services :
                 /\ listing[s] = None => Parse(host, listing)[s] = None
                 /\ listing[s] # None =>
                       /\ listing[s] \in Configs
                       /\ Parse(host, listing)[s] = Parsed(host, listing[s])
                       /\ Parse(host, listing)[s] # None
BY ParsedIs DEF Parse, Listing, ViewListing

(* The probing session p after podman was run on target t.                 *)
Fetched(p, t, views) ==
    /\ p \in Probing
    /\ p.on = probing.on
    /\ p.merged = MergeServices(probing.merged, t, views)
    /\ p.seen = [probing.seen EXCEPT ![t] = @ \cup {world[t]}]

(* What was read, when it is the target that was asked and answered: what   *)
(* its ssh user has, or else what root has.                                *)
Listed(t, views, failed) ==
    \/ probing.on = "busy"
    \/ views = Parse(t, Rootless[t]) /\ Rootless[t] # NoListing
    \/ views = Parse(t, world[t])
    \/ views = NoListing /\ failed

LEMMA DueIs ==
    ASSUME TypeOK, NEW name, Due(name)
    PROVE  Target \in TargetSet /\ Tail(probing.todo) \in Seq(Probes)
<1>1. probing.todo \in Seq(Probes) /\ probing.todo # << >>
  BY DEF TypeOK, Probing, Due, Probes
<1>2. Head(probing.todo) \in Probes
  BY <1>1, HeadAndTail
<1> QED
  BY <1>1, <1>2, HeadAndTail DEF Target, Probes

LEMMA MergeTyped ==
    ASSUME NEW f \in Fragment, NEW t \in TargetSet, NEW listing \in ViewListing
    PROVE  /\ MergeServices(f, t, listing) \in Fragment
           /\ MergeServices(f, t, listing).nodes = f.nodes
           /\ \A s \in Services :
                 /\ listing[s] = None =>
                       MergeServices(f, t, listing).services[s] = f.services[s]
                 /\ listing[s] # None =>
                       MergeServices(f, t, listing).services[s]
                           = [node |-> t, config |-> listing[s]]
BY DEF MergeServices, Fragment, ViewListing

LEMMA PodmanFetches ==
    ASSUME TypeOK, PodmanProbe
    PROVE  \E t \in TargetSet, views \in ViewListing :
              /\ Fetched(probing', t, views)
              /\ probing.failed => probing'.failed
              /\ Listed(t, views, probing'.failed)
<1> DEFINE t == Target
           fetched(views) ==
             [probing EXCEPT !.merged = MergeServices(@, t, views),
                             !.seen[t] = @ \cup {world[t]}, !.todo = Tail(@)]
<1>1. t \in TargetSet /\ Tail(probing.todo) \in Seq({"podman", "port"} \X TargetSet)
  BY DueIs DEF PodmanProbe, Probes
<1>2. probing \in Probing /\ world \in [TargetSet -> Listing]
  BY DEF TypeOK
<1>3. /\ NoListing \in ViewListing /\ Parse(t, NoListing) = NoListing
      /\ Parse(t, Rootless[t]) \in ViewListing /\ Parse(t, world[t]) \in ViewListing
      /\ probing.on = "busy" => Parse(probing.on, Local) \in ViewListing
  <2>1. Rootless[t] \in Listing /\ world[t] \in Listing /\ Local \in Listing
    BY <1>1, <1>2, DetectionAssumption
  <2>2. t \in Hosts /\ (probing.on = "busy" => probing.on \in Hosts)
    BY <1>1, <1>2, DetectionAssumption DEF Hosts, Probing
  <2>3. NoListing \in ViewListing /\ Parse(t, NoListing) = NoListing
    BY DEF NoListing, ViewListing, Parse
  <2> QED
    BY <2>1, <2>2, <2>3, ParseIs
<1>4. \/ probing.on = "busy" /\ probing' = fetched(Parse(probing.on, Local))
      \/ Rootless[t] # NoListing /\ probing' = fetched(Parse(t, Rootless[t]))
      \/ probing' = fetched(Parse(t, world[t]))
      \/ probing' = [fetched(Parse(t, NoListing)) EXCEPT !.failed = TRUE]
      \/ probing' = [[fetched(Parse(t, NoListing)) EXCEPT !.failed = TRUE]
                       EXCEPT !.errors = TRUE]
  BY DEF PodmanProbe
<1> HIDE DEF t
<1>5. ASSUME NEW views \in ViewListing
      PROVE  Fetched(fetched(views), t, views)
             /\ fetched(views).failed = probing.failed
  <2> DEFINE p == fetched(views)
             m == MergeServices(probing.merged, t, views)
             seen == [probing.seen EXCEPT ![t] = @ \cup {world[t]}]
  <2>1. m \in Fragment
    BY <1>1, <1>2, MergeTyped DEF Probing
  <2>2. seen \in [TargetSet -> SUBSET Listing]
    BY <1>2 DEF Probing
  <2>3. p = [[[probing EXCEPT !.merged = m] EXCEPT !.seen = seen]
                EXCEPT !.todo = Tail(probing.todo)]
    BY <1>2 DEF Probing
  <2> HIDE DEF m, seen
  <2>4. p \in Probing /\ p.on = probing.on /\ p.merged = m /\ p.seen = seen
        /\ p.failed = probing.failed
    BY <1>1, <1>2, <2>1, <2>2, <2>3 DEF Probing
  <2> QED
    BY <2>4 DEF Fetched, m, seen
<1> HIDE DEF fetched
<1>6. ASSUME NEW p, NEW views, Fetched(p, t, views)
      PROVE  /\ Fetched([p EXCEPT !.failed = TRUE], t, views)
             /\ [p EXCEPT !.failed = TRUE].failed = TRUE
  BY <1>6 DEF Fetched, Probing
<1>7. ASSUME NEW p, NEW views, Fetched(p, t, views)
      PROVE  /\ Fetched([p EXCEPT !.errors = TRUE], t, views)
             /\ [p EXCEPT !.errors = TRUE].failed = p.failed
  BY <1>7 DEF Fetched, Probing
<1>8. CASE probing.on = "busy" /\ probing' = fetched(Parse(probing.on, Local))
  BY <1>1, <1>3, <1>5, <1>8 DEF Listed
<1>9. CASE Rootless[t] # NoListing /\ probing' = fetched(Parse(t, Rootless[t]))
  BY <1>1, <1>3, <1>5, <1>9 DEF Listed
<1>10. CASE probing' = fetched(Parse(t, world[t]))
  BY <1>1, <1>3, <1>5, <1>10 DEF Listed
<1>11. CASE probing' = [fetched(Parse(t, NoListing)) EXCEPT !.failed = TRUE]
  BY <1>1, <1>3, <1>5, <1>6, <1>11 DEF Listed
<1>12. CASE probing' = [[fetched(Parse(t, NoListing)) EXCEPT !.failed = TRUE]
                         EXCEPT !.errors = TRUE]
  BY <1>1, <1>3, <1>5, <1>6, <1>7, <1>12 DEF Listed
<1> QED
  BY <1>4, <1>8, <1>9, <1>10, <1>11, <1>12

(* The probing session after port was run on the target.                   *)
LEMMA PortAdds ==
    ASSUME TypeOK, PortProbe
    PROVE  /\ probing' \in Probing /\ probing'.on = probing.on
           /\ probing'.merged.services = probing.merged.services
           /\ probing'.seen = probing.seen
           /\ probing.failed => probing'.failed
<1> DEFINE m == [probing.merged EXCEPT !.nodes = @ \cup {Target}]
           p == [probing EXCEPT !.merged.nodes = @ \cup {Target}, !.todo = Tail(@)]
<1>1. probing \in Probing
  BY DEF TypeOK
<1>2. Target \in TargetSet /\ Tail(probing.todo) \in Seq({"podman", "port"} \X TargetSet)
  BY DueIs DEF PortProbe, Probes
<1>3. m \in Fragment /\ m.services = probing.merged.services
  BY <1>1, <1>2 DEF Probing, Fragment
<1>4. p = [[probing EXCEPT !.merged = m] EXCEPT !.todo = Tail(probing.todo)]
  BY <1>1 DEF Probing
<1> HIDE DEF m
<1>5. /\ p \in Probing /\ p.on = probing.on /\ p.merged = m
      /\ p.seen = probing.seen /\ p.failed = probing.failed
  BY <1>1, <1>2, <1>3, <1>4 DEF Probing
<1>6. probing' = p \/ probing' = [p EXCEPT !.errors = TRUE, !.failed = TRUE]
  BY DEF PortProbe
<1> HIDE DEF p
<1>7. CASE probing' = p
  BY <1>3, <1>5, <1>7
<1>8. CASE probing' = [p EXCEPT !.errors = TRUE, !.failed = TRUE]
  <2>1. /\ probing' \in Probing /\ probing'.on = p.on /\ probing'.merged = p.merged
        /\ probing'.seen = p.seen /\ probing'.failed = TRUE
    BY <1>5, <1>8 DEF Probing
  <2> QED
    BY <1>3, <1>5, <2>1
<1> QED
  BY <1>6, <1>7, <1>8

LEMMA FileTyped ==
    ASSUME NEW p \in Probing, p.on # None
    PROVE  /\ FileOf(p) \in LiveState
           /\ FileOf(p).merged = p.merged /\ FileOf(p).on = p.on
           /\ FileOf(p).seen = p.seen /\ FileOf(p).failed = p.failed
BY DEF FileOf, LiveState, Probing

---------------------------------------------------------------------------
(* Types.                                                                  *)

LEMMA InitType == Init => TypeOK
<1> SUFFICES ASSUME Init PROVE TypeOK
  OBVIOUS
<1>1. NoSession \in Probing
  <2>1. << >> \in Seq({"podman", "port"} \X TargetSet)
    OBVIOUS
  <2> QED
    BY <2>1 DEF NoSession, Probing, Fragment, NoListing, Listing
<1> QED
  BY <1>1, DetectionAssumption DEF Init, TypeOK

LEMMA StepType == TypeOK /\ [Next]_driftVars => TypeOK'
<1> SUFFICES ASSUME TypeOK, [Next]_driftVars PROVE TypeOK'
  OBVIOUS
<1>1. CASE ContainerChanges
  <2>1. world' \in [TargetSet -> Listing] /\ moves' \in 0..MaxMoves
    BY <1>1, DetectionAssumption DEF ContainerChanges, TypeOK, Listing
  <2> QED
    BY <1>1, <2>1 DEF ContainerChanges, TypeOK
<1>2. CASE BeginProbing
  <2>1. PICK names \in Selections, on \in Operators :
           probing' = [NoSession EXCEPT !.on = on, !.todo = Tasks(names)]
    BY <1>2 DEF BeginProbing
  <2>2. Tasks(names) \in Seq({"podman", "port"} \X TargetSet)
    BY TasksTyped DEF Probes
  <2>3. probing' \in Probing
    BY <2>1, <2>2 DEF NoSession, Probing, Fragment, NoListing, Listing
  <2>4. sessions' \in 0..MaxSessions
    BY <1>2, DetectionAssumption DEF BeginProbing, TypeOK
  <2> QED
    BY <1>2, <2>3, <2>4 DEF BeginProbing, TypeOK
<1>3. CASE PodmanProbe
  <2>1. probing' \in Probing
    BY <1>3, PodmanFetches DEF Fetched
  <2>2. faults' \in 0..MaxFaults
    BY <1>3, DetectionAssumption DEF PodmanProbe, Fault, TypeOK
  <2> QED
    BY <1>3, <2>1, <2>2 DEF PodmanProbe, TypeOK
<1>4. CASE PortProbe
  <2>1. probing' \in Probing
    BY <1>4, PortAdds
  <2>2. faults' \in 0..MaxFaults
    BY <1>4, DetectionAssumption DEF PortProbe, Fault, TypeOK
  <2> QED
    BY <1>4, <2>1, <2>2 DEF PortProbe, TypeOK
<1>5. CASE WriteLive
  <2>1. probing' \in Probing
    <3>1. << >> \in Seq({"podman", "port"} \X TargetSet)
      OBVIOUS
    <3> QED
      BY <1>5, <3>1 DEF WriteLive, NoSession, Probing, Fragment, NoListing, Listing
  <2>2. FileOf(probing) \in LiveState /\ FileOf(probing).merged = probing.merged
    BY <1>5, FileTyped DEF WriteLive, Probed, TypeOK
  <2>3. live' = None \/ (live' \in LiveState /\ Valid(live'.merged))
    BY <1>5, <2>2 DEF WriteLive, TypeOK
  <2> QED
    BY <1>5, <2>1, <2>3 DEF WriteLive, TypeOK
<1>6. CASE Reconcile
  BY <1>6 DEF Reconcile, TypeOK
<1>7. CASE UNCHANGED driftVars
  BY <1>7 DEF driftVars, TypeOK
<1> QED
  BY <1>1, <1>2, <1>3, <1>4, <1>5, <1>6, <1>7 DEF Next

(* Every file that a session leaves is a live state that loads again: each  *)
(* service in it runs on a node in it.                                      *)
THEOREM TypeCorrect == Spec => []TypeOK
BY InitType, StepType, PTL DEF Spec

---------------------------------------------------------------------------
(* What a live state says.                                                 *)

(* What a file, or the fragment on its way to one, says was there; and     *)
(* nothing that a target without containers of its ssh user had is missing *)
(* from it, unless a command failed.                                       *)
SaysTrue(file) ==
    file.on # "busy" =>
        \A s \in Services : LET o == file.merged.services[s] IN
            o # None => \E c \in Configs : /\ Had(file, o.node, s, c)
                                           /\ o.config = Parsed(o.node, c)

SaysAll(file) ==
    (~file.failed /\ file.on # "busy") =>
        \A t \in {u \in TargetSet : Rootless[u] = NoListing}, s \in Services :
            \A listing \in file.seen[t] :
                listing[s] # None => file.merged.services[s] # None

Sound(file) == SaysTrue(file) /\ SaysAll(file)

(* The report is one of a sound live state.                                *)
Reported ==
    drift # None =>
        /\ drift.topology \in Topologies
        /\ drift.live \in LiveState /\ Sound(drift.live)
        /\ drift.active = Active(drift.rules,
                                 Items(drift.topology, Document(drift.live.merged)))

DriftInv == /\ TypeOK
            /\ Sound(probing)
            /\ live # None => Sound(live)
            /\ Reported

(* A file keeps being sound when nothing that soundness speaks of changes. *)
LEMMA SameSound ==
    ASSUME NEW f, NEW g, Sound(f), g.on = f.on, g.seen = f.seen,
           g.merged.services = f.merged.services, f.failed => g.failed,
           g.failed \in BOOLEAN, f.failed \in BOOLEAN
    PROVE  Sound(g)
BY DEF Sound, SaysTrue, SaysAll, Had

(* Before a probe has run, the fragment says nothing.                      *)
LEMMA EmptySound ==
    ASSUME NEW f, f.merged.services = NoListing, f.seen = [t \in TargetSet |-> {}]
    PROVE  Sound(f)
BY DEF Sound, SaysTrue, SaysAll, NoListing

(* What podman lists for a target replaces what was said of those          *)
(* containers, and the target had them.                                    *)
LEMMA PodmanSound ==
    ASSUME TypeOK, Sound(probing), PodmanProbe
    PROVE  Sound(probing')
<1>1. PICK t \in TargetSet, views \in ViewListing :
         /\ Fetched(probing', t, views)
         /\ probing.failed => probing'.failed
         /\ Listed(t, views, probing'.failed)
  BY PodmanFetches
<1> DEFINE f == probing'
           old == probing.merged.services
           new == f.merged.services
<1>2. probing \in Probing /\ world \in [TargetSet -> Listing] /\ f \in Probing
  BY <1>1 DEF TypeOK, Fetched
<1>3. /\ \A s \in Services : views[s] = None => new[s] = old[s]
      /\ \A s \in Services : views[s] # None =>
            new[s] = [node |-> t, config |-> views[s]]
  <2> DEFINE m == MergeServices(probing.merged, t, views)
  <2>1. probing.merged \in Fragment
    BY <1>2 DEF Probing
  <2>2. \A s \in Services :
           /\ views[s] = None => m.services[s] = probing.merged.services[s]
           /\ views[s] # None => m.services[s] = [node |-> t, config |-> views[s]]
    BY <2>1, MergeTyped
  <2>3. f.merged = m
    BY <1>1 DEF Fetched
  <2> HIDE DEF m
  <2> QED
    BY <2>2, <2>3
<1>4. /\ f.on = probing.on
      /\ f.seen[t] = probing.seen[t] \cup {world[t]}
      /\ \A u \in TargetSet : u # t => f.seen[u] = probing.seen[u]
      /\ \A u \in TargetSet : probing.seen[u] \subseteq f.seen[u]
  BY <1>1, <1>2 DEF Fetched, Probing
<1>5. \A s \in Services : views[s] # None =>
         new[s] # None /\ new[s].node = t /\ new[s].config = views[s]
  <2> TAKE s \in Services
  <2> HAVE views[s] # None
  <2>1. views[s] \in Views
    BY DEF ViewListing
  <2>2. new[s] = [node |-> t, config |-> views[s]]
    BY <1>3
  <2>3. [node |-> t, config |-> views[s]] \in [node : TargetSet, config : Views]
    BY <2>1
  <2>4. [node |-> t, config |-> views[s]] # None
    BY <2>3, DetectionAssumption
  <2> HIDE DEF new
  <2> QED
    BY <2>2, <2>4
<1>6. \A s \in Services : old[s] # None => old[s].node \in TargetSet
  BY <1>2 DEF Probing, Fragment
<1>7. probing.failed \in BOOLEAN /\ f.failed \in BOOLEAN
  BY <1>2 DEF Probing
<1> HIDE DEF f, old, new
<1>8. Rootless[t] \in Listing /\ world[t] \in Listing /\ t \in Hosts
  BY <1>2, DetectionAssumption DEF Hosts
<1>9. SaysTrue(f)
  <2> SUFFICES ASSUME f.on # "busy", NEW s \in Services, new[s] # None
               PROVE  \E c \in Configs : /\ Had(f, new[s].node, s, c)
                                         /\ new[s].config = Parsed(new[s].node, c)
    BY DEF SaysTrue, new
  <2>1. CASE views[s] = None
    <3>1. new[s] = old[s] /\ old[s] # None
      BY <1>3, <2>1
    <3>2. PICK c \in Configs : /\ Had(probing, old[s].node, s, c)
                               /\ old[s].config = Parsed(old[s].node, c)
      BY <1>4, <3>1 DEF Sound, SaysTrue, old
    <3>3. Had(f, old[s].node, s, c)
      BY <1>4, <1>6, <3>1, <3>2 DEF Had
    <3> QED
      BY <3>1, <3>2, <3>3
  <2>2. CASE views[s] # None
    <3>1. views # NoListing
      BY <2>2 DEF NoListing
    <3>2. PICK listing \in {Rootless[t], world[t]} : views = Parse(t, listing)
      BY <1>1, <1>4, <3>1 DEF Listed, f
    <3>3. listing \in f.seen[t] \cup {Rootless[t]} /\ listing \in Listing
      BY <1>4, <1>8, <3>2
    <3>4. listing[s] # None /\ listing[s] \in Configs /\ views[s] = Parsed(t, listing[s])
      BY <1>8, <2>2, <3>2, <3>3, ParseIs
    <3>5. Had(f, t, s, listing[s])
      BY <3>3, <3>4 DEF Had
    <3> QED
      BY <1>5, <2>2, <3>4, <3>5
  <2> QED
    BY <2>1, <2>2
<1>10. SaysAll(f)
  <2> SUFFICES ASSUME ~f.failed, f.on # "busy",
                      NEW u \in TargetSet, Rootless[u] = NoListing,
                      NEW s \in Services, NEW l \in f.seen[u], l[s] # None
               PROVE  new[s] # None
    BY DEF SaysAll, new
  <2>1. CASE l \in probing.seen[u]
    <3>1. old[s] # None
      BY <1>1, <1>4, <2>1 DEF Sound, SaysAll, old, f
    <3> QED
      BY <1>3, <1>5, <3>1
  <2>2. CASE l \notin probing.seen[u]
    <3>1. u = t /\ l = world[t]
      BY <1>4, <2>2
    <3>2. views = Parse(t, world[t])
      BY <1>1, <1>4, <3>1 DEF Listed, f
    <3>3. views[s] # None
      BY <1>8, <3>1, <3>2, ParseIs
    <3> QED
      BY <1>5, <3>3
  <2> QED
    BY <2>1, <2>2
<1> QED
  BY <1>9, <1>10 DEF Sound, f

LEMMA InitSound == Init => DriftInv
<1> SUFFICES ASSUME Init PROVE DriftInv
  OBVIOUS
<1>1. Sound(probing)
  BY EmptySound DEF Init, NoSession
<1> QED
  BY <1>1, InitType DEF Init, DriftInv, Reported

LEMMA StepSound == DriftInv /\ [Next]_driftVars => DriftInv'
<1> SUFFICES ASSUME DriftInv, [Next]_driftVars
             PROVE  (Sound(probing) /\ (live # None => Sound(live)) /\ Reported)'
  BY StepType DEF DriftInv
<1>1. TypeOK /\ Sound(probing) /\ (live # None => Sound(live)) /\ Reported
  BY DEF DriftInv
<1>2. CASE ContainerChanges
  BY <1>1, <1>2 DEF ContainerChanges, Reported, Sound, SaysTrue, SaysAll, Had
<1>3. CASE BeginProbing
  <2>1. PICK names \in Selections, on \in Operators :
           probing' = [NoSession EXCEPT !.on = on, !.todo = Tasks(names)]
    BY <1>3 DEF BeginProbing
  <2>2. probing'.merged.services = NoListing
        /\ probing'.seen = [t \in TargetSet |-> {}]
    BY <2>1 DEF NoSession
  <2>3. Sound(probing')
    BY <2>2, EmptySound
  <2>4. live' = live /\ drift' = None
    BY <1>3 DEF BeginProbing
  <2> QED
    BY <1>1, <2>3, <2>4 DEF Reported, Sound, SaysTrue, SaysAll, Had
<1>4. CASE PodmanProbe
  <2>1. Sound(probing')
    BY <1>1, <1>4, PodmanSound
  <2>2. live' = live /\ drift' = None
    BY <1>4 DEF PodmanProbe
  <2> QED
    BY <1>1, <2>1, <2>2 DEF Reported, Sound, SaysTrue, SaysAll, Had
<1>5. CASE PortProbe
  <2>1. Sound(probing')
    <3>1. probing.failed \in BOOLEAN /\ probing'.failed \in BOOLEAN
      BY <1>1, <1>5, PortAdds DEF TypeOK, Probing
    <3> QED
      BY <1>1, <1>5, <3>1, PortAdds, SameSound
  <2>2. live' = live /\ drift' = None
    BY <1>5 DEF PortProbe
  <2> QED
    BY <1>1, <2>1, <2>2 DEF Reported, Sound, SaysTrue, SaysAll, Had
<1>6. CASE WriteLive
  <2>1. Sound(probing')
    BY <1>6, EmptySound DEF WriteLive, NoSession
  <2>2. Sound(FileOf(probing))
    <3>1. probing \in Probing /\ probing.on # None
      BY <1>1, <1>6 DEF TypeOK, WriteLive, Probed
    <3>2. LET f == FileOf(probing) IN
             /\ f.merged = probing.merged /\ f.on = probing.on
             /\ f.seen = probing.seen /\ f.failed = probing.failed
             /\ probing.failed \in BOOLEAN
      BY <3>1, FileTyped DEF Probing
    <3> QED
      BY <1>1, <3>2, SameSound
  <2>3. (live' = FileOf(probing) \/ live' = live) /\ drift' = None
    BY <1>6 DEF WriteLive
  <2>4. live' # None => Sound(live')
    BY <1>1, <2>2, <2>3
  <2> QED
    BY <2>1, <2>3, <2>4 DEF Reported, Sound, SaysTrue, SaysAll, Had
<1>7. CASE Reconcile
  <2>1. live \in LiveState /\ Sound(live)
    BY <1>1, <1>7 DEF Reconcile, TypeOK
  <2>2. PICK topology \in Topologies, rules \in RuleLists :
           drift' = [topology |-> topology, rules |-> rules, live |-> live,
                     active |-> Active(rules, Items(topology, Document(live.merged)))]
    BY <1>7 DEF Reconcile
  <2>3. /\ drift'.topology = topology /\ drift'.rules = rules /\ drift'.live = live
        /\ drift'.active = Active(rules, Items(topology, Document(live.merged)))
    BY <2>2
  <2>4. Reported'
    BY <2>1, <2>3 DEF Reported, Sound, SaysTrue, SaysAll, Had
  <2>5. live' = live /\ probing' = probing
    BY <1>7 DEF Reconcile
  <2> QED
    BY <1>1, <2>4, <2>5
<1>8. CASE UNCHANGED driftVars
  BY <1>1, <1>8 DEF driftVars, Reported, Sound, SaysTrue, SaysAll, Had
<1> QED
  BY <1>2, <1>3, <1>4, <1>5, <1>6, <1>7, <1>8 DEF Next

LEMMA DriftInvHolds == Spec => []DriftInv
BY InitSound, StepSound, PTL DEF Spec

(* Whatever a live state says of a service was once true as a whole, for   *)
(* any number of targets, in any order, probed any number of times while   *)
(* their containers go on changing.                                        *)
THEOREM ObservedWasThereHolds == Spec => []ObservedWasThere
<1>1. DriftInv => ObservedWasThere
  <2> SUFFICES ASSUME DriftInv, NEW file \in {probing, live} \ {None}, file.on # "busy",
                      NEW s \in Services, file.merged.services[s] # None
               PROVE  LET o == file.merged.services[s] IN
                      \E c \in Configs : /\ Had(file, o.node, s, c)
                                         /\ o.config.image = c.image
                                         /\ o.config.managed_by = c.managed_by
                                         /\ Among(o.config.ports, c.ports)
    BY DEF ObservedWasThere
  <2> DEFINE o == file.merged.services[s]
  <2>1. SaysTrue(file) /\ file.merged.services
                            \in [Services -> [node : TargetSet, config : Views] \cup {None}]
    BY DEF DriftInv, Sound, TypeOK, Probing, LiveState, Fragment
  <2>2. o.node \in Hosts
    BY <2>1 DEF Hosts
  <2>3. PICK c \in Configs : Had(file, o.node, s, c) /\ o.config = Parsed(o.node, c)
    BY <2>1 DEF SaysTrue
  <2> HIDE DEF o
  <2>4. /\ o.config.image = c.image /\ o.config.managed_by = c.managed_by
        /\ Among(o.config.ports, c.ports)
    BY <2>2, <2>3, ParsedIs
  <2> QED
    BY <2>3, <2>4 DEF o
<1> QED
  BY <1>1, DriftInvHolds, PTL

---------------------------------------------------------------------------
(* What a report says.                                                     *)

(* The items of services, by what they say; the others are of nodes and of *)
(* links.                                                                  *)
LEMMA ServiceItems ==
    ASSUME NEW topology, NEW document, NEW item
    PROVE  item \in Items(topology, document) <=>
              \/ item \in DiffEntities("service", topology.service, document.service)
              \/ item \in DiffEntities("node", topology.node, document.node)
              \/ item \in DiffEntities("link", topology.link, document.link)
BY DEF Items, Types

LEMMA Missing ==
    ASSUME NEW topology, NEW document,
           NEW s \in DOMAIN topology.service, s \notin DOMAIN document.service
    PROVE  Item("missing", "service", s, NoField, None, None) \in Items(topology, document)
<1>1. Item("missing", "service", s, NoField, None, None)
         \in DiffEntities("service", topology.service, document.service)
  BY DEF DiffEntities
<1> QED
  BY <1>1, ServiceItems

LEMMA Extra ==
    ASSUME NEW topology, NEW document,
           NEW s \in DOMAIN document.service, s \notin DOMAIN topology.service
    PROVE  Item("extra", "service", s, NoField, None, None) \in Items(topology, document)
<1>1. Item("extra", "service", s, NoField, None, None)
         \in DiffEntities("service", topology.service, document.service)
  BY DEF DiffEntities
<1> QED
  BY <1>1, ServiceItems

LEMMA ComparedItems ==
    ASSUME NEW topology, NEW document,
           NEW s \in DOMAIN topology.service, s \in DOMAIN document.service,
           NEW item \in Compare("service", s, topology.service[s], document.service[s])
    PROVE  item \in Items(topology, document)
<1>1. item \in DiffEntities("service", topology.service, document.service)
  BY DEF DiffEntities
<1> QED
  BY <1>1, ServiceItems

(* A declared field that is not observed is an item, and so is a port that *)
(* only one side has or both have differently.                             *)
LEMMA FieldItems ==
    ASSUME NEW topology, NEW document,
           NEW s \in DOMAIN topology.service, s \in DOMAIN document.service,
           NEW f \in {"node", "image"},
           topology.service[s].fields[f] # document.service[s].fields[f]
    PROVE  Item("mismatched", "service", s, Field(f),
                topology.service[s].fields[f], document.service[s].fields[f])
              \in Items(topology, document)
<1>1. f \in Compared["service"]
  BY DEF Compared
<1>2. Item("mismatched", "service", s, Field(f),
           topology.service[s].fields[f], document.service[s].fields[f])
        \in Compare("service", s, topology.service[s], document.service[s])
  BY <1>1 DEF Compare, CompareFields
<1> QED
  BY <1>2, ComparedItems

LEMMA PortItems ==
    ASSUME NEW topology, NEW document,
           NEW s \in DOMAIN topology.service, s \in DOMAIN document.service, NEW p
    PROVE  LET decl == topology.service[s].ports
               obs == document.service[s].ports
           IN  /\ p \in DOMAIN decl \ DOMAIN obs =>
                     Item("missing", "service", s, Port(p), None, None)
                        \in Items(topology, document)
               /\ p \in DOMAIN obs \ DOMAIN decl =>
                     Item("extra", "service", s, Port(p), None, None)
                        \in Items(topology, document)
               /\ p \in DOMAIN decl \cap DOMAIN obs /\ decl[p] # obs[p] =>
                     Item("mismatched", "service", s, PublicPort(p), decl[p], obs[p])
                        \in Items(topology, document)
<1> DEFINE decl == topology.service[s].ports
           obs == document.service[s].ports
           items == Compare("service", s, topology.service[s], document.service[s])
<1>1. /\ p \in DOMAIN decl \ DOMAIN obs =>
            Item("missing", "service", s, Port(p), None, None) \in items
      /\ p \in DOMAIN obs \ DOMAIN decl =>
            Item("extra", "service", s, Port(p), None, None) \in items
      /\ p \in DOMAIN decl \cap DOMAIN obs /\ decl[p] # obs[p] =>
            Item("mismatched", "service", s, PublicPort(p), decl[p], obs[p]) \in items
  BY DEF Compare, ComparePorts
<1>2. \A item \in items : item \in Items(topology, document)
  BY ComparedItems
<1> QED
  BY <1>1, <1>2

(* The live state as a document has the services observed, as observed.    *)
LEMMA DocumentIs ==
    ASSUME NEW m, NEW services, services = Document(m).service
    PROVE  /\ \A s : s \in DOMAIN services <=> s \in Services /\ m.services[s] # None
           /\ \A s \in DOMAIN services :
                 /\ services[s].fields["node"] = m.services[s].node
                 /\ services[s].fields["image"] = m.services[s].config.image
                 /\ services[s].ports = m.services[s].config.ports
BY DEF Document

(* Without rules every item is active, and with some each that none matches.*)
LEMMA ActiveAre ==
    ASSUME NEW rules, NEW items, NEW item \in items,
           \A i \in DOMAIN rules : ~Matches(rules[i], item)
    PROVE  item \in Active(rules, items)
BY DEF Active, IgnoredBy

(* What was observed of a service was there.                               *)
LEMMA ObservedHad ==
    ASSUME NEW file \in LiveState, Sound(file), file.on # "busy",
           NEW s \in DOMAIN Document(file.merged).service
    PROVE  LET o == file.merged.services[s] IN
           /\ s \in Services
           /\ \E c \in Configs : /\ Had(file, o.node, s, c)
                                 /\ o.config.image = c.image
                                 /\ Among(o.config.ports, c.ports)
                                 /\ o.node \in PublicKey => o.config = c
<1>1. s \in Services /\ file.merged.services[s] # None
  BY DocumentIs
<1>2. file.merged.services \in [Services -> [node : TargetSet, config : Views] \cup {None}]
  BY DEF LiveState, Fragment
<1> DEFINE o == file.merged.services[s]
<1>3. o.node \in Hosts
  BY <1>1, <1>2 DEF Hosts
<1>4. PICK c \in Configs : Had(file, o.node, s, c) /\ o.config = Parsed(o.node, c)
  BY <1>1 DEF Sound, SaysTrue
<1> HIDE DEF o
<1>5. /\ o.config.image = c.image /\ Among(o.config.ports, c.ports)
      /\ o.node \in PublicKey => o.config = c
  BY <1>3, <1>4, ParsedIs
<1> QED
  BY <1>1, <1>4, <1>5 DEF o

(* An empty report without rules, of a session in which nothing failed:    *)
(* every declared service was on its node with its image and its ports, and *)
(* no target had a service that is not declared.                           *)
THEOREM CleanReportIsTrueHolds == Spec => []CleanReportIsTrue
<1>1. DriftInv => CleanReportIsTrue
  <2> SUFFICES ASSUME DriftInv, drift # None, drift.active = {}, drift.rules = << >>,
                      ~drift.live.failed, drift.live.on # "busy"
               PROVE  LET declared == drift.topology.service IN
                      /\ \A s \in DOMAIN declared :
                            LET d == declared[s]
                                n == d.fields.node
                            IN  \E c \in Configs :
                                    /\ Had(drift.live, n, s, c)
                                    /\ c.image = d.fields.image
                                    /\ Among(d.ports, c.ports)
                                    /\ n \in PublicKey => Among(c.ports, d.ports)
                      /\ \A t \in {u \in TargetSet : Rootless[u] = NoListing},
                            s \in Services :
                            \A listing \in drift.live.seen[t] :
                                listing[s] # None => s \in DOMAIN declared
    BY DEF CleanReportIsTrue
  <2> DEFINE topology == drift.topology
             file == drift.live
             document == Document(file.merged)
             declared == topology.service
             observed == document.service
  <2>1. /\ topology \in Topologies /\ file \in LiveState /\ Sound(file)
        /\ drift.active = Active(drift.rules, Items(topology, document))
    BY DEF DriftInv, Reported
  <2>2. \A item : item \notin Items(topology, document)
    <3> SUFFICES ASSUME NEW item \in Items(topology, document) PROVE FALSE
      OBVIOUS
    <3>1. DOMAIN drift.rules = {}
      OBVIOUS
    <3>2. item \in drift.active
      BY <2>1, <3>1, ActiveAre
    <3> QED
      BY <3>2
  <2> HIDE DEF topology, file, document
  <2>3. DOMAIN declared = DOMAIN observed
    <3>1. ASSUME NEW s \in DOMAIN declared PROVE s \in DOMAIN observed
      BY <2>2, Missing
    <3>2. ASSUME NEW s \in DOMAIN observed PROVE s \in DOMAIN declared
      BY <2>2, Extra
    <3> QED
      BY <3>1, <3>2
  <2>4. ASSUME NEW s \in DOMAIN declared
        PROVE  LET d == declared[s]
                   n == d.fields.node
               IN  \E c \in Configs : /\ Had(file, n, s, c)
                                      /\ c.image = d.fields.image
                                      /\ Among(d.ports, c.ports)
                                      /\ n \in PublicKey => Among(c.ports, d.ports)
    <3> DEFINE d == declared[s]
               b == observed[s]
               o == file.merged.services[s]
    <3>1. PICK c \in Configs :
             /\ Had(file, o.node, s, c) /\ o.config.image = c.image
             /\ Among(o.config.ports, c.ports)
             /\ o.node \in PublicKey => o.config = c
      BY <2>1, <2>3, ObservedHad DEF document, file
    <3>2. /\ b.fields["node"] = o.node /\ b.fields["image"] = o.config.image
          /\ b.ports = o.config.ports
      BY <2>3, DocumentIs DEF document
    <3>3. d.fields["node"] = b.fields["node"] /\ d.fields["image"] = b.fields["image"]
      BY <2>2, <2>3, FieldItems
    <3>4. DOMAIN d.ports = DOMAIN b.ports
      <4>1. ASSUME NEW p \in DOMAIN d.ports, p \notin DOMAIN b.ports PROVE FALSE
        BY <2>2, <2>3, <4>1, PortItems
      <4>2. ASSUME NEW p \in DOMAIN b.ports, p \notin DOMAIN d.ports PROVE FALSE
        BY <2>2, <2>3, <4>2, PortItems
      <4> QED
        BY <4>1, <4>2
    <3>5. \A p \in DOMAIN d.ports : d.ports[p] = b.ports[p]
      BY <2>2, <2>3, <3>4, PortItems
    <3> HIDE DEF d, b, o
    <3>6. Among(d.ports, c.ports)
      BY <3>1, <3>2, <3>4, <3>5 DEF Among
    <3>7. o.node \in PublicKey => Among(c.ports, d.ports)
      BY <3>1, <3>2, <3>4, <3>5 DEF Among
    <3> QED
      BY <3>1, <3>2, <3>3, <3>6, <3>7 DEF d
  <2>5. ASSUME NEW t \in {u \in TargetSet : Rootless[u] = NoListing}, NEW s \in Services,
               NEW listing \in file.seen[t], listing[s] # None
        PROVE  s \in DOMAIN declared
    <3>1. file.merged.services[s] # None
      BY <2>1, <2>5 DEF Sound, SaysAll, file
    <3>2. s \in DOMAIN observed
      BY <3>1, DocumentIs DEF document
    <3> QED
      BY <2>3, <3>2
  <2> QED
    BY <2>4, <2>5 DEF topology, file
<1> QED
  BY <1>1, DriftInvHolds, PTL

(* A service reported missing is one that no target had, unless a command  *)
(* failed or the containers of the ssh user hid those of root.             *)
THEOREM MissingIsExplainedHolds == Spec => []MissingIsExplained
<1>1. DriftInv => MissingIsExplained
  <2> SUFFICES ASSUME DriftInv, drift # None, ~drift.live.failed,
                      drift.live.on # "busy", NEW item \in drift.active,
                      item.category = "missing", item.type = "service",
                      item.field = NoField,
                      NEW t \in {u \in TargetSet : Rootless[u] = NoListing},
                      NEW listing \in drift.live.seen[t]
               PROVE  listing[item.id] = None
    BY DEF MissingIsExplained
  <2> DEFINE topology == drift.topology
             file == drift.live
             document == Document(file.merged)
  <2>1. /\ topology \in Topologies /\ file \in LiveState /\ Sound(file)
        /\ drift.active = Active(drift.rules, Items(topology, document))
    BY DEF DriftInv, Reported
  <2>2. item \in Items(topology, document)
    BY <2>1 DEF Active
  <2> HIDE DEF topology, document
  <2>3. item \in DiffEntities("service", topology.service, document.service)
    <3>1. ASSUME NEW type \in {"node", "link"}, NEW decl, NEW obs,
                 item \in DiffEntities(type, decl, obs)
          PROVE  FALSE
      BY <3>1 DEF DiffEntities, Compare, CompareFields, Item
    <3> QED
      BY <2>2, <3>1, ServiceItems
  <2>4. item.id \in DOMAIN topology.service \ DOMAIN document.service
    <3>1. ASSUME NEW id, NEW decl, NEW obs, item \in Compare("service", id, decl, obs)
          PROVE  FALSE
      <4>1. \A p : Port(p) # NoField
        BY DEF Port, NoField, Field
      <4> QED
        BY <3>1, <4>1 DEF Compare, CompareFields, ComparePorts, Item
    <3> QED
      BY <2>3, <3>1 DEF DiffEntities, Item
  <2>5. item.id \in Services /\ file.merged.services[item.id] = None
    <3>1. item.id \in Services
      BY <2>1, <2>4, DetectionAssumption
    <3> QED
      BY <2>4, <3>1, DocumentIs DEF document
  <2> QED
    BY <2>1, <2>5 DEF Sound, SaysAll
<1> QED
  BY <1>1, DriftInvHolds, PTL

(* What is critical without overrides: a service that is missing, that is  *)
(* on another node or of another image, or that lacks a port.              *)
LEMMA Critical ==
    ASSUME NEW id, NEW field, NEW declared, NEW observed
    PROVE  /\ Item("missing", "service", id, field, declared, observed).severity = "critical"
           /\ field.name \in {"image", "node"} =>
                 Item("mismatched", "service", id, field, declared, observed).severity
                     = "critical"
BY DetectionAssumption DEF Item, Severity, DefaultSeverity

(* Exit code 0 with the default threshold: every declared service of which *)
(* no ignore rule speaks was on its node, with its image and at least its  *)
(* ports, even if probes failed.                                           *)
THEOREM ExitZeroMeansPlacedHolds == Spec => []ExitZeroMeansPlaced
<1>1. DriftInv => ExitZeroMeansPlaced
  <2> SUFFICES ASSUME DriftInv, drift # None, ExitCode(drift.active, "critical") = 0,
                      drift.live.on # "busy",
                      NEW s \in DOMAIN drift.topology.service,
                      ~ \E i \in DOMAIN drift.rules :
                            /\ drift.rules[i].type \in {None, "service"}
                            /\ drift.rules[i].ids = None \/ s \in drift.rules[i].ids
               PROVE  LET declared == drift.topology.service[s] IN
                      \E c \in Configs :
                          /\ Had(drift.live, declared.fields.node, s, c)
                          /\ c.image = declared.fields.image
                          /\ DOMAIN declared.ports \subseteq DOMAIN c.ports
    BY DEF ExitZeroMeansPlaced
  <2> DEFINE topology == drift.topology
             file == drift.live
             document == Document(file.merged)
             declared == topology.service
             observed == document.service
  <2>1. /\ topology \in Topologies /\ file \in LiveState /\ Sound(file)
        /\ drift.active = Active(drift.rules, Items(topology, document))
    BY DEF DriftInv, Reported
  <2>2. ASSUME NEW item \in Items(topology, document), item.type = "service", item.id = s
        PROVE  item.severity # "critical"
    <3>1. \A i \in DOMAIN drift.rules : ~Matches(drift.rules[i], item)
      BY <2>2 DEF Matches
    <3>2. item \in drift.active
      BY <2>1, <3>1, ActiveAre
    <3> QED
      BY <3>2 DEF ExitCode, Rank
  <2> HIDE DEF topology, file, document
  <2>3. s \in DOMAIN declared
    BY DEF topology
  <2>4. s \in DOMAIN observed
    <3>1. s \notin DOMAIN observed =>
             Item("missing", "service", s, NoField, None, None) \in Items(topology, document)
      BY <2>3, Missing
    <3> QED
      BY <2>2, <3>1, Critical DEF Item
  <2>5. ASSUME NEW f \in {"node", "image"}
        PROVE  declared[s].fields[f] = observed[s].fields[f]
    <3> DEFINE item == Item("mismatched", "service", s, Field(f),
                            declared[s].fields[f], observed[s].fields[f])
    <3>1. declared[s].fields[f] # observed[s].fields[f] => item \in Items(topology, document)
      BY <2>3, <2>4, FieldItems
    <3>2. Field(f).name = f
      BY DEF Field
    <3>3. item.severity = "critical"
      BY <3>2, Critical
    <3>4. item.type = "service" /\ item.id = s
      BY DEF Item
    <3> HIDE DEF item
    <3> QED
      BY <2>2, <3>1, <3>3, <3>4
  <2>6. DOMAIN declared[s].ports \subseteq DOMAIN observed[s].ports
    <3> SUFFICES ASSUME NEW p \in DOMAIN declared[s].ports,
                        p \notin DOMAIN observed[s].ports
                 PROVE  FALSE
      OBVIOUS
    <3> DEFINE item == Item("missing", "service", s, Port(p), None, None)
    <3>1. item \in Items(topology, document)
      BY <2>3, <2>4, PortItems
    <3>2. item.severity = "critical"
      BY Critical
    <3>3. item.type = "service" /\ item.id = s
      BY DEF Item
    <3> HIDE DEF item
    <3> QED
      BY <2>2, <3>1, <3>2, <3>3
  <2> DEFINE o == file.merged.services[s]
  <2>7. PICK c \in Configs :
           /\ Had(file, o.node, s, c) /\ o.config.image = c.image
           /\ Among(o.config.ports, c.ports)
    BY <2>1, <2>4, ObservedHad DEF document, file
  <2>8. /\ observed[s].fields["node"] = o.node
        /\ observed[s].fields["image"] = o.config.image
        /\ observed[s].ports = o.config.ports
    BY <2>4, DocumentIs DEF document
  <2> HIDE DEF o
  <2>9. /\ Had(file, declared[s].fields.node, s, c)
        /\ c.image = declared[s].fields.image
        /\ DOMAIN declared[s].ports \subseteq DOMAIN c.ports
    BY <2>5, <2>6, <2>7, <2>8 DEF Among
  <2> QED
    BY <2>7, <2>9 DEF topology, file
<1> QED
  BY <1>1, DriftInvHolds, PTL


===========================================================================
