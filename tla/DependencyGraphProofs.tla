----------------------- MODULE DependencyGraphProofs -----------------------
(***************************************************************************)
(* Proofs about DependencyGraph, for every finite set of services and every *)
(* graph over them: the sort respects the dependencies and fails exactly    *)
(* when it must.                                                           *)
(***************************************************************************)
EXTENDS DependencyGraph, FiniteSetTheorems, SequenceTheorems, TLAPS

SortTypes == /\ dependsOn \in [Services -> SUBSET Ids]
             /\ degree \in [Services -> Nat]
             /\ queue \subseteq Services
             /\ layers \in Seq(SUBSET Services)

(* The in-degrees count the dependencies that are not placed yet.           *)
DegreesCount == \A s \in Services : degree[s] = Cardinality(dependsOn[s] \ Placed)

(* The queue holds exactly the services that have become ready.             *)
QueuedAreReady == \A s \in Placed \cup queue : dependsOn[s] \subseteq Placed
ReadyAreQueued == \A s \in Services : degree[s] = 0 => s \in Placed \cup queue
QueueIsNew == queue \cap Placed = {}

LayersDisjoint == \A i, j \in DOMAIN layers : i # j => layers[i] \cap layers[j] = {}

(* What can never be ordered never gets near a layer.                       *)
StuckWait == \A S \in SUBSET Services : Stuck(S) => S \cap (Placed \cup queue) = {}

(* How a sort ends.                                                        *)
Outcome == /\ phase \in {"sorting", "sorted"} => call = "topological_sort"
           /\ (call = "topological_sort" /\ phase # "sorting") =>
                  queue = {} /\ (phase = "sorted" <=> Placed = Services)

SortInv == /\ SortTypes
           /\ DegreesCount /\ QueuedAreReady /\ ReadyAreQueued /\ QueueIsNew
           /\ LayersDisjoint /\ StuckWait
           /\ LayersRespectDependencies
           /\ Outcome

---------------------------------------------------------------------------
(* Facts about sets and sequences.                                         *)

(* Counting what is left of D after Q has joined P.                         *)
LEMMA Discount ==
    ASSUME NEW D, IsFiniteSet(D), NEW P, NEW Q, Q \cap P = {}
    PROVE  /\ Cardinality(D \ P) \in Nat
           /\ Cardinality(D \ (P \cup Q)) \in Nat
           /\ Cardinality(D \ (P \cup Q)) = Cardinality(D \ P) - Cardinality(D \cap Q)
<1> DEFINE A == D \ (P \cup Q)
           B == D \cap Q
<1>1. IsFiniteSet(A) /\ IsFiniteSet(B) /\ IsFiniteSet(D \ P)
  BY FS_Subset
<1>2. A \cup B = D \ P
  OBVIOUS
<1>3. A \cap B = {}
  OBVIOUS
<1>4. Cardinality(A \cup B) = Cardinality(A) + Cardinality(B) - Cardinality(A \cap B)
  BY <1>1, FS_Union
<1>5. Cardinality(A) \in Nat /\ Cardinality(B) \in Nat /\ Cardinality(D \ P) \in Nat
  BY <1>1, FS_CardinalityType
<1>6. Cardinality(A \cap B) = 0
  BY <1>3, FS_EmptySet
<1>7. Cardinality(A \cup B) = Cardinality(D \ P)
  BY <1>2, Zenon
<1> HIDE DEF A, B
<1>8. Cardinality(D \ P) = Cardinality(A) + Cardinality(B)
  BY <1>4, <1>5, <1>6, <1>7
<1>9. Cardinality(A) = Cardinality(D \ P) - Cardinality(B)
  BY <1>5, <1>8
<1> QED
  BY <1>5, <1>9 DEF A, B

(* A layer that joins the others.                                          *)
LEMMA AppendedLayer ==
    ASSUME layers \in Seq(SUBSET Services), queue \subseteq Services,
           layers' = Append(layers, queue)
    PROVE  /\ layers' \in Seq(SUBSET Services)
           /\ DOMAIN layers = 1..Len(layers) /\ Len(layers) \in Nat
           /\ DOMAIN layers' = 1..(Len(layers) + 1)
           /\ \A i \in 1..Len(layers) : layers'[i] = layers[i]
           /\ layers'[Len(layers) + 1] = queue
           /\ Placed' = Placed \cup queue
<1>1. /\ layers' \in Seq(SUBSET Services)
      /\ DOMAIN layers = 1..Len(layers) /\ Len(layers) \in Nat
      /\ DOMAIN layers' = 1..(Len(layers) + 1)
      /\ \A i \in 1..Len(layers) : layers'[i] = layers[i]
      /\ layers'[Len(layers) + 1] = queue
  OBVIOUS
<1>2. ASSUME NEW s PROVE s \in Placed' <=> s \in Placed \cup queue
  <2>1. s \in Placed' <=> \E i \in 1..(Len(layers) + 1) : s \in layers'[i]
    BY <1>1 DEF Placed
  <2>2. s \in Placed <=> \E i \in 1..Len(layers) : s \in layers[i]
    BY <1>1 DEF Placed
  <2>3. \A i \in 1..(Len(layers) + 1) : i \in 1..Len(layers) \/ i = Len(layers) + 1
    BY <1>1
  <2>4. \A i \in 1..Len(layers) : i \in 1..(Len(layers) + 1)
    BY <1>1
  <2>5. Len(layers) + 1 \in 1..(Len(layers) + 1)
    BY <1>1
  <2> QED
    BY <1>1, <2>1, <2>2, <2>3, <2>4, <2>5
<1>3. Placed' = Placed \cup queue
  BY <1>2
<1> QED
  BY <1>1, <1>3

(* A service's dependencies are finitely many, and none are left when the   *)
(* count of those left is zero.                                            *)
LEMMA CountZero ==
    ASSUME dependsOn \in [Services -> SUBSET Ids], NEW s \in Services, NEW P
    PROVE  /\ IsFiniteSet(dependsOn[s])
           /\ Cardinality(dependsOn[s] \ P) = 0 <=> dependsOn[s] \subseteq P
<1>1. IsFiniteSet(dependsOn[s])
  BY GraphAssumption, FS_Subset
<1>2. IsFiniteSet(dependsOn[s] \ P)
  BY <1>1, FS_Subset
<1>3. Cardinality(dependsOn[s] \ P) = 0 <=> dependsOn[s] \ P = {}
  BY <1>2, FS_EmptySet
<1> QED
  BY <1>1, <1>3

---------------------------------------------------------------------------
(* The sort's invariant.                                                   *)

(* It holds before the first step: nothing is placed, and the queue holds   *)
(* the services that depend on nothing.                                    *)
LEMMA InitSortInv == Init => SortInv
<1> SUFFICES ASSUME Init PROVE SortInv
  OBVIOUS
<1>1. layers = << >> /\ DOMAIN layers = {} /\ layers \in Seq(SUBSET Services)
  BY DEF Init
<1>2. Placed = {}
  BY <1>1 DEF Placed
<1>3. \A s \in Services : /\ Cardinality(dependsOn[s]) \in Nat
                          /\ dependsOn[s] \ Placed = dependsOn[s]
                          /\ degree[s] = Cardinality(dependsOn[s])
                          /\ degree[s] = 0 <=> dependsOn[s] = {}
  <2> SUFFICES ASSUME NEW s \in Services
               PROVE  /\ Cardinality(dependsOn[s]) \in Nat
                      /\ dependsOn[s] \ Placed = dependsOn[s]
                      /\ degree[s] = Cardinality(dependsOn[s])
                      /\ degree[s] = 0 <=> dependsOn[s] = {}
    OBVIOUS
  <2>1. IsFiniteSet(dependsOn[s])
    BY GraphAssumption, FS_Subset DEF Init
  <2> QED
    BY <1>2, <2>1, FS_CardinalityType, FS_EmptySet DEF Init
<1>4. SortTypes
  BY <1>1, <1>3 DEF Init, SortTypes
<1>5. DegreesCount /\ QueuedAreReady /\ ReadyAreQueued /\ QueueIsNew
  BY <1>2, <1>3 DEF Init, DegreesCount, QueuedAreReady, ReadyAreQueued, QueueIsNew
<1>6. LayersDisjoint /\ LayersRespectDependencies
  BY <1>1 DEF LayersDisjoint, LayersRespectDependencies
<1>7. StuckWait
  <2> SUFFICES ASSUME NEW S \in SUBSET Services, Stuck(S), NEW s \in S, s \in queue
               PROVE  FALSE
    BY <1>2 DEF StuckWait
  <2> QED
    BY <1>3 DEF Init, Stuck
<1>8. Outcome
  BY DEF Init, Outcome
<1> QED
  BY <1>4, <1>5, <1>6, <1>7, <1>8 DEF SortInv

(* A layer keeps it.  The services queued next have their last dependency   *)
(* in this layer and all others in earlier ones.                           *)
LEMMA SortLayerKeepsInv == SortInv /\ SortLayer => SortInv'
<1> SUFFICES ASSUME SortInv, SortLayer PROVE SortInv'
  OBVIOUS
<1> USE DEF SortInv, SortTypes
<1>1. /\ layers' \in Seq(SUBSET Services)
      /\ DOMAIN layers = 1..Len(layers) /\ Len(layers) \in Nat
      /\ DOMAIN layers' = 1..(Len(layers) + 1)
      /\ \A i \in 1..Len(layers) : layers'[i] = layers[i]
      /\ layers'[Len(layers) + 1] = queue
      /\ Placed' = Placed \cup queue
  BY AppendedLayer DEF SortLayer
<1>2. dependsOn' = dependsOn /\ phase' = phase /\ call' = call /\ phase = "sorting"
  BY DEF SortLayer
<1>3. \A s \in Services :
          /\ degree'[s] = Cardinality(dependsOn[s] \ Placed')
          /\ degree'[s] \in Nat
          /\ degree'[s] = 0 <=> dependsOn[s] \subseteq Placed'
  <2> SUFFICES ASSUME NEW s \in Services
               PROVE  /\ degree'[s] = Cardinality(dependsOn[s] \ Placed')
                      /\ degree'[s] \in Nat
                      /\ degree'[s] = 0 <=> dependsOn[s] \subseteq Placed'
    OBVIOUS
  <2>1. degree'[s] = Cardinality(dependsOn[s] \ Placed)
                        - Cardinality(dependsOn[s] \cap queue)
    BY DEF SortLayer, DegreesCount
  <2>2. IsFiniteSet(dependsOn[s])
    BY CountZero
  <2>3. /\ Cardinality(dependsOn[s] \ (Placed \cup queue)) \in Nat
        /\ Cardinality(dependsOn[s] \ (Placed \cup queue)) =
             Cardinality(dependsOn[s] \ Placed) - Cardinality(dependsOn[s] \cap queue)
    BY <2>2, Discount DEF QueueIsNew
  <2>4. degree'[s] = Cardinality(dependsOn[s] \ Placed') /\ degree'[s] \in Nat
    BY <1>1, <2>1, <2>3
  <2>5. Cardinality(dependsOn[s] \ Placed') = 0 <=> dependsOn[s] \subseteq Placed'
    BY CountZero
  <2> QED
    BY <2>4, <2>5
<1>4. queue' \subseteq Services
  BY DEF SortLayer
<1>5. \A s \in queue' : /\ s \in Services
                        /\ dependsOn[s] \cap queue # {}
                        /\ dependsOn[s] \subseteq Placed'
  BY <1>3 DEF SortLayer
<1>6. SortTypes'
  BY <1>1, <1>2, <1>3, <1>4 DEF SortLayer
<1>7. DegreesCount'
  BY <1>2, <1>3 DEF DegreesCount
<1>8. QueuedAreReady'
  BY <1>1, <1>2, <1>5 DEF QueuedAreReady
<1>9. ReadyAreQueued'
  <2> SUFFICES ASSUME NEW s \in Services, degree'[s] = 0, s \notin Placed'
               PROVE  s \in queue'
    BY DEF ReadyAreQueued
  <2>1. dependsOn[s] \subseteq Placed \cup queue
    BY <1>1, <1>3
  <2>2. ~(dependsOn[s] \subseteq Placed)
    <3> SUFFICES ASSUME dependsOn[s] \subseteq Placed PROVE FALSE
      OBVIOUS
    <3>1. degree[s] = Cardinality(dependsOn[s] \ Placed)
      BY DEF DegreesCount
    <3>2. Cardinality(dependsOn[s] \ Placed) = 0
      BY CountZero
    <3> QED
      BY <1>1, <3>1, <3>2 DEF ReadyAreQueued
  <2>3. dependsOn[s] \cap queue # {}
    BY <2>1, <2>2
  <2> QED
    BY <2>3 DEF SortLayer
<1>10. QueueIsNew'
  <2> SUFFICES ASSUME NEW s \in queue', s \in Placed' PROVE FALSE
    BY DEF QueueIsNew
  <2>1. dependsOn[s] \subseteq Placed
    BY <1>1 DEF QueuedAreReady
  <2> QED
    BY <1>5, <2>1 DEF QueueIsNew
<1>11. LayersDisjoint'
  <2>1. \A i \in 1..Len(layers) : layers[i] \cap queue = {}
    BY <1>1 DEF QueueIsNew, Placed
  <2>2. \A i \in 1..(Len(layers) + 1) : i \in 1..Len(layers) \/ i = Len(layers) + 1
    BY <1>1
  <2> QED
    BY <1>1, <2>1, <2>2 DEF LayersDisjoint
<1>12. StuckWait'
  <2> SUFFICES ASSUME NEW S \in SUBSET Services, Stuck(S), NEW s \in S,
                      s \in Placed' \cup queue'
               PROVE  FALSE
    BY <1>2 DEF StuckWait, Stuck
  <2>1. s \notin Placed'
    BY <1>1 DEF StuckWait
  <2>2. PICK d \in dependsOn[s] : d \in S \/ d \notin Services
    BY DEF Stuck
  <2>3. d \in Placed'
    BY <1>5, <2>1, <2>2
  <2>4. Placed \subseteq Services
    BY <1>1 DEF Placed
  <2> QED
    BY <1>1, <2>2, <2>3, <2>4 DEF StuckWait
<1>13. LayersRespectDependencies'
  <2> SUFFICES ASSUME NEW i \in 1..(Len(layers) + 1), NEW s \in layers'[i],
                      NEW d \in dependsOn[s]
               PROVE  \E j \in 1..(i - 1) : d \in layers'[j]
    BY <1>1, <1>2 DEF LayersRespectDependencies
  <2>1. CASE i \in 1..Len(layers)
    <3>1. PICK j \in 1..(i - 1) : d \in layers[j]
      BY <1>1, <2>1 DEF LayersRespectDependencies
    <3>2. j \in 1..Len(layers)
      BY <1>1, <2>1, <3>1
    <3> QED
      BY <1>1, <3>1, <3>2
  <2>2. CASE i = Len(layers) + 1
    <3>1. d \in Placed
      BY <1>1, <2>2 DEF QueuedAreReady
    <3>2. PICK j \in 1..Len(layers) : d \in layers[j]
      BY <1>1, <3>1 DEF Placed
    <3>3. j \in 1..(i - 1)
      BY <1>1, <2>2, <3>2
    <3> QED
      BY <1>1, <3>2, <3>3
  <2> QED
    BY <1>1, <2>1, <2>2
<1>14. Outcome'
  BY <1>2 DEF Outcome
<1> QED
  BY <1>6, <1>7, <1>8, <1>9, <1>10, <1>11, <1>12, <1>13, <1>14

(* The steps that place nothing keep it: all but the outcome is about       *)
(* variables they leave alone.                                             *)
LEMMA OutcomeKeepsInv ==
    ASSUME SortInv, UNCHANGED <<dependsOn, call, sortVars>>, Outcome'
    PROVE  SortInv'
<1> USE DEF sortVars
<1>1. Placed' = Placed
  BY DEF Placed
<1>2. SortTypes' /\ DegreesCount' /\ QueuedAreReady' /\ ReadyAreQueued' /\ QueueIsNew'
  BY <1>1 DEF SortInv, SortTypes, DegreesCount, QueuedAreReady, ReadyAreQueued,
              QueueIsNew
<1>3. LayersDisjoint' /\ LayersRespectDependencies'
  BY DEF SortInv, LayersDisjoint, LayersRespectDependencies
<1>4. StuckWait'
  BY <1>1 DEF SortInv, StuckWait, Stuck
<1> QED
  BY <1>2, <1>3, <1>4 DEF SortInv

(* Every step keeps the sort's invariant.                                  *)
LEMMA NextSortInv == SortInv /\ [Next]_graphVars => SortInv'
<1> SUFFICES ASSUME SortInv, [Next]_graphVars PROVE SortInv'
  OBVIOUS
<1>1. CASE SortLayer
  BY <1>1, SortLayerKeepsInv
<1>2. CASE Sorted
  <2>1. UNCHANGED <<dependsOn, call, sortVars>>
    BY <1>2 DEF Sorted
  <2>2. Placed' = Placed /\ queue' = {} /\ call' = call
    BY <1>2 DEF Sorted, sortVars, Placed
  <2>3. Placed = Services => phase' = "sorted"
    BY <1>2 DEF Sorted
  <2>4. Placed # Services => phase' = "searching"
    BY <1>2 DEF Sorted
  <2>5. Outcome'
    <3>1. call = "topological_sort"
      BY <1>2 DEF Sorted, SortInv, Outcome
    <3> QED
      BY <2>2, <2>3, <2>4, <3>1 DEF Outcome
  <2> QED
    BY <2>1, <2>5, OutcomeKeepsInv
<1>3. CASE StartFrom \/ Look \/ Leave \/ UNCHANGED graphVars
  <2>1. UNCHANGED <<dependsOn, call, phase, sortVars>>
    BY <1>3 DEF StartFrom, Look, Leave, graphVars
  <2>2. Placed' = Placed
    BY <2>1 DEF sortVars, Placed
  <2>3. Outcome'
    BY <2>1, <2>2 DEF SortInv, Outcome, sortVars
  <2> QED
    BY <2>1, <2>3, OutcomeKeepsInv
<1>4. CASE Searched
  <2>1. UNCHANGED <<dependsOn, call, sortVars>> /\ phase = "searching" /\ phase' = "searched"
    BY <1>4 DEF Searched
  <2>2. Placed' = Placed
    BY <2>1 DEF sortVars, Placed
  <2>3. Outcome'
    BY <2>1, <2>2 DEF SortInv, Outcome, sortVars
  <2> QED
    BY <2>1, <2>3, OutcomeKeepsInv
<1> QED
  BY <1>1, <1>2, <1>3, <1>4 DEF Next

---------------------------------------------------------------------------
(* The search's invariant: the path goes from dependent to dependent.       *)

SearchInv == /\ dependsOn \in [Services -> SUBSET Ids]
             /\ visited \subseteq Services
             /\ path \in Seq(Services)
             /\ untried \in [Services -> SUBSET Services]
             /\ \A s \in Services : untried[s] \subseteq Dependents(s)
             /\ \A k \in 1..(Len(path) - 1) : path[k + 1] \in Dependents(path[k])
             /\ cycles \subseteq Seq(Services)
             /\ CyclesAreReal

(* A dependent of the last service on the path can join it.                 *)
LEMMA LongerPath ==
    ASSUME SearchInv, NEW d \in Services, path # << >> => d \in Dependents(Top),
           path' = Append(path, d)
    PROVE  /\ path' \in Seq(Services)
           /\ \A k \in 1..(Len(path') - 1) : path'[k + 1] \in Dependents(path'[k])
<1>1. /\ path \in Seq(Services) /\ Len(path) \in Nat
      /\ path' \in Seq(Services)
      /\ Len(path') = Len(path) + 1
      /\ \A i \in 1..Len(path) : path'[i] = path[i]
      /\ path'[Len(path) + 1] = d
  BY DEF SearchInv
<1>2. ASSUME NEW k \in 1..(Len(path') - 1)
      PROVE  path'[k + 1] \in Dependents(path'[k])
  <2>1. k \in 1..Len(path) /\ path'[k] = path[k]
    BY <1>1
  <2>2. CASE k = Len(path)
    <3>1. path # << >>
      BY <2>1, <2>2
    <3> QED
      BY <1>1, <2>1, <2>2, <3>1 DEF Top
  <2>3. CASE k # Len(path)
    <3>1. k + 1 \in 1..Len(path) /\ k \in 1..(Len(path) - 1)
      BY <1>1, <2>1, <2>3
    <3> QED
      BY <1>1, <2>1, <3>1 DEF SearchInv
  <2> QED
    BY <2>2, <2>3
<1> QED
  BY <1>1, <1>2

(* A path whose last service has left.                                     *)
LEMMA ShorterPath ==
    ASSUME path \in Seq(Services), path # << >>,
           path' = SubSeq(path, 1, Len(path) - 1)
    PROVE  /\ path' \in Seq(Services)
           /\ Len(path') = Len(path) - 1
           /\ \A i \in 1..(Len(path) - 1) : path'[i] = path[i]
<1> DEFINE n == Len(path) - 1
<1>1. n \in Nat /\ \A i \in 1..n : path[i] \in Services
  OBVIOUS
<1> HIDE DEF n
<1>2. /\ SubSeq(path, 1, n) \in Seq(Services)
      /\ Len(SubSeq(path, 1, n)) = IF 1 <= n THEN n - 1 + 1 ELSE 0
      /\ \A i \in 1..(n - 1 + 1) : SubSeq(path, 1, n)[i] = path[1 + i - 1]
  BY <1>1, SubSeqProperties
<1>3. Len(SubSeq(path, 1, n)) = n /\ \A i \in 1..n : SubSeq(path, 1, n)[i] = path[i]
  BY <1>1, <1>2
<1> QED
  BY <1>2, <1>3 DEF n

(* What a dependent on the path closes is a cycle.                          *)
LEMMA ClosedIsCycle ==
    ASSUME SearchInv, path # << >>, NEW d \in OnPath, d \in Dependents(Top)
    PROVE  LET c == Closed(d) IN
           /\ c \in Seq(Services)
           /\ Len(c) >= 2
           /\ c[1] = c[Len(c)]
           /\ \A k \in 1..(Len(c) - 1) : c[k + 1] \in Dependents(c[k])
<1> DEFINE n == Len(path)
           start == CHOOSE i \in DOMAIN path : path[i] = d
           tail == SubSeq(path, start, n)
           c == Append(tail, d)
<1>1. path \in Seq(Services) /\ n \in Nat /\ DOMAIN path = 1..n
  BY DEF SearchInv
<1>2. start \in 1..n /\ path[start] = d
  BY <1>1 DEF OnPath
<1> HIDE DEF start
<1>3. d \in Services
  BY <1>1, <1>2
<1>4. /\ tail \in Seq(Services)
      /\ Len(tail) = n - start + 1
      /\ \A i \in 1..(n - start + 1) : tail[i] = path[start + i - 1]
  BY <1>1, <1>2
<1>5. /\ c \in Seq(Services)
      /\ Len(c) = n - start + 2
      /\ \A i \in 1..(n - start + 1) : c[i] = path[start + i - 1]
      /\ c[n - start + 2] = d
  BY <1>1, <1>2, <1>3, <1>4
<1> HIDE DEF c, tail
<1>6. c[1] = d
  BY <1>1, <1>2, <1>5
<1>7. ASSUME NEW k \in 1..(Len(c) - 1)
      PROVE  c[k + 1] \in Dependents(c[k])
  <2>1. k \in 1..(n - start + 1) /\ c[k] = path[start + k - 1]
    BY <1>1, <1>2, <1>5
  <2>2. CASE k = n - start + 1
    <3>1. c[k] = Top /\ c[k + 1] = d
      BY <1>1, <1>2, <1>5, <2>1, <2>2 DEF Top
    <3> QED
      BY <3>1
  <2>3. CASE k # n - start + 1
    <3>1. /\ k + 1 \in 1..(n - start + 1)
          /\ start + k - 1 \in 1..(n - 1)
          /\ start + (k + 1) - 1 = (start + k - 1) + 1
      BY <1>1, <1>2, <2>1, <2>3
    <3>2. c[k + 1] = path[(start + k - 1) + 1]
      BY <1>5, <3>1
    <3> QED
      BY <2>1, <3>1, <3>2 DEF SearchInv
  <2> QED
    BY <2>2, <2>3
<1>8. Closed(d) = c
  BY DEF Closed, c, tail, start
<1>9. Len(c) >= 2 /\ c[1] = c[Len(c)]
  BY <1>1, <1>2, <1>5, <1>6
<1> QED
  BY <1>5, <1>7, <1>8, <1>9

(* The search's invariant holds before its first step.                     *)
LEMMA InitSearchInv == Init => SearchInv
  BY DEF Init, SearchInv, Dependents, CyclesAreReal

(* Looking at a dependent keeps it, whether it is entered, closes a cycle  *)
(* or was left before.                                                     *)
LEMMA LookKeepsInv == SearchInv /\ Look => SearchInv'
<1> SUFFICES ASSUME SearchInv, Look PROVE SearchInv'
  OBVIOUS
<1>1. Top \in Services
  BY DEF SearchInv, Look, Top
<1>2. PICK d \in untried[Top] :
          /\ untried' = [untried EXCEPT ![Top] = @ \ {d}]
          /\ \/ d \notin visited /\ Enter(d) /\ UNCHANGED cycles
             \/ /\ d \in OnPath /\ cycles' = cycles \cup {Closed(d)}
                /\ UNCHANGED <<visited, path>>
             \/ d \in visited \ OnPath /\ UNCHANGED <<visited, path, cycles>>
  BY DEF Look
<1>3. d \in Services /\ d \in Dependents(Top)
  BY <1>1, <1>2 DEF SearchInv
<1>4. dependsOn' = dependsOn /\ path # << >>
  BY DEF Look
<1>5. \A s : Dependents(s)' = Dependents(s)
  BY <1>4 DEF Dependents
<1>6. /\ untried' \in [Services -> SUBSET Services]
      /\ \A s \in Services : untried'[s] \subseteq Dependents(s)
  BY <1>1, <1>2 DEF SearchInv
<1>7. CASE d \notin visited /\ Enter(d) /\ UNCHANGED cycles
  <2>1. /\ path' \in Seq(Services)
        /\ \A k \in 1..(Len(path') - 1) : path'[k + 1] \in Dependents(path'[k])
    BY <1>3, <1>7, LongerPath DEF Enter
  <2>2. visited' \subseteq Services
    BY <1>3, <1>7 DEF Enter, SearchInv
  <2>3. CyclesAreReal'
    BY <1>4, <1>7 DEF SearchInv, CyclesAreReal, Dependents
  <2> QED
    BY <1>4, <1>5, <1>6, <1>7, <2>1, <2>2, <2>3 DEF SearchInv
<1>8. CASE d \in OnPath /\ cycles' = cycles \cup {Closed(d)} /\ UNCHANGED <<visited, path>>
  <2>1. LET c == Closed(d) IN
        /\ c \in Seq(Services)
        /\ Len(c) >= 2
        /\ c[1] = c[Len(c)]
        /\ \A k \in 1..(Len(c) - 1) : c[k + 1] \in Dependents(c[k])
    BY <1>3, <1>4, <1>8, ClosedIsCycle
  <2>2. CyclesAreReal'
    <3> SUFFICES ASSUME NEW c \in cycles'
                 PROVE  /\ Len(c) >= 2
                        /\ c[1] = c[Len(c)]
                        /\ \A k \in 1..(Len(c) - 1) : c[k + 1] \in Dependents(c[k])
      BY <1>4 DEF CyclesAreReal, Dependents
    <3>1. CASE c \in cycles
      BY <3>1 DEF SearchInv, CyclesAreReal
    <3>2. CASE c = Closed(d)
      BY <2>1, <3>2
    <3> QED
      BY <1>8, <3>1, <3>2
  <2> QED
    BY <1>4, <1>5, <1>6, <1>8, <2>1, <2>2 DEF SearchInv
<1>9. CASE d \in visited \ OnPath /\ UNCHANGED <<visited, path, cycles>>
  <2>1. CyclesAreReal'
    BY <1>4, <1>9 DEF SearchInv, CyclesAreReal, Dependents
  <2> QED
    BY <1>4, <1>5, <1>6, <1>9, <2>1 DEF SearchInv
<1> QED
  BY <1>2, <1>7, <1>8, <1>9

(* Every step keeps the search's invariant.                                *)
LEMMA NextSearchInv == SearchInv /\ [Next]_graphVars => SearchInv'
<1> SUFFICES ASSUME SearchInv, [Next]_graphVars PROVE SearchInv'
  OBVIOUS
<1>1. CASE SortLayer \/ Sorted \/ Searched \/ UNCHANGED graphVars
  <2>1. UNCHANGED <<dependsOn, visited, path, untried, cycles>>
    BY <1>1 DEF SortLayer, Sorted, Searched, graphVars, searchVars
  <2> QED
    BY <2>1 DEF SearchInv, Dependents, CyclesAreReal
<1>2. CASE StartFrom
  <2>1. PICK s \in Services : Enter(s)
    BY <1>2 DEF StartFrom
  <2>2. /\ path' \in Seq(Services)
        /\ \A k \in 1..(Len(path') - 1) : path'[k + 1] \in Dependents(path'[k])
    BY <1>2, <2>1, LongerPath DEF StartFrom, Enter
  <2>3. UNCHANGED <<dependsOn, untried, cycles>> /\ visited' \subseteq Services
    BY <1>2, <2>1 DEF StartFrom, Enter, SearchInv
  <2> QED
    BY <2>2, <2>3 DEF SearchInv, Dependents, CyclesAreReal
<1>3. CASE Look
  BY <1>3, LookKeepsInv
<1>4. CASE Leave
  <2>1. /\ UNCHANGED <<dependsOn, visited, untried, cycles>>
        /\ path' = SubSeq(path, 1, Len(path) - 1)
        /\ path # << >>
    BY <1>4 DEF Leave
  <2>2. path \in Seq(Services)
    BY DEF SearchInv
  <2>3. Len(path) \in Nat /\ Len(path) >= 1
    BY <2>1, <2>2
  <2>4. /\ path' \in Seq(Services)
        /\ Len(path') = Len(path) - 1
        /\ \A i \in 1..(Len(path) - 1) : path'[i] = path[i]
    BY <2>1, <2>2, ShorterPath
  <2>5. ASSUME NEW k \in 1..(Len(path') - 1)
        PROVE  path'[k + 1] \in Dependents(path'[k])
    <3>1. k \in 1..(Len(path) - 1) /\ k + 1 \in 1..(Len(path) - 1)
      BY <2>3, <2>4
    <3>2. path'[k] = path[k] /\ path'[k + 1] = path[k + 1]
      BY <2>4, <3>1
    <3> QED
      BY <3>1, <3>2 DEF SearchInv
  <2> QED
    BY <2>1, <2>4, <2>5 DEF SearchInv, Dependents, CyclesAreReal
<1> QED
  BY <1>1, <1>2, <1>3, <1>4 DEF Next

---------------------------------------------------------------------------
(* No layer could come earlier.                                            *)

(* What is queued depends on the layer placed last.                        *)
EarliestInv ==
    /\ layers \in Seq(SUBSET Services) /\ queue \subseteq Services
    /\ LayersAreEarliest
    /\ layers # << >> => \A s \in queue : dependsOn[s] \cap layers[Len(layers)] # {}

LEMMA InitEarliest == Init => EarliestInv
  BY DEF Init, EarliestInv, LayersAreEarliest

LEMMA NextEarliest == EarliestInv /\ [Next]_graphVars => EarliestInv'
<1> SUFFICES ASSUME EarliestInv, [Next]_graphVars PROVE EarliestInv'
  OBVIOUS
<1>1. CASE SortLayer
  <2>1. /\ layers' = Append(layers, queue) /\ dependsOn' = dependsOn
        /\ queue' = {s \in Services : dependsOn[s] \cap queue # {} /\ degree'[s] = 0}
    BY <1>1 DEF SortLayer
  <2>2. /\ layers' \in Seq(SUBSET Services)
        /\ DOMAIN layers = 1..Len(layers) /\ Len(layers) \in Nat
        /\ DOMAIN layers' = 1..(Len(layers) + 1)
        /\ \A i \in 1..Len(layers) : layers'[i] = layers[i]
        /\ layers'[Len(layers) + 1] = queue
    BY <2>1, AppendedLayer DEF EarliestInv
  <2>3. Len(layers') = Len(layers) + 1
    BY <2>2
  <2>4. \A s \in queue' : s \in Services /\ dependsOn'[s] \cap layers'[Len(layers')] # {}
    BY <2>1, <2>2, <2>3
  <2>5. LayersAreEarliest'
    <3> SUFFICES ASSUME NEW i \in 1..(Len(layers) + 1), i # 1, NEW s \in layers'[i]
                 PROVE  dependsOn[s] \cap layers'[i - 1] # {}
      BY <2>1, <2>2 DEF LayersAreEarliest
    <3>1. i - 1 \in 1..Len(layers)
      BY <2>2
    <3>2. CASE i \in 1..Len(layers)
      BY <2>2, <3>1, <3>2 DEF EarliestInv, LayersAreEarliest
    <3>3. CASE i = Len(layers) + 1
      <4>1. s \in queue /\ layers'[i - 1] = layers[Len(layers)] /\ layers # << >>
        BY <2>2, <3>1, <3>3
      <4> QED
        BY <4>1 DEF EarliestInv
    <3> QED
      BY <2>2, <3>2, <3>3
  <2> QED
    BY <2>2, <2>4, <2>5 DEF EarliestInv
<1>2. CASE Sorted \/ StartFrom \/ Look \/ Leave \/ Searched \/ UNCHANGED graphVars
  <2>1. UNCHANGED <<dependsOn, layers, queue>>
    BY <1>2 DEF Sorted, StartFrom, Look, Leave, Searched, graphVars, sortVars
  <2> QED
    BY <2>1 DEF EarliestInv, LayersAreEarliest
<1> QED
  BY <1>1, <1>2 DEF Next

---------------------------------------------------------------------------
(* A search that reports no cycle has shown there is none.                 *)

(* The path is a path: no service twice, all of them visited; a service    *)
(* not visited has been asked for none of its dependents.                  *)
PathInv ==
    /\ OnPath \subseteq visited
    /\ \A i, j \in DOMAIN path : path[i] = path[j] => i = j
    /\ \A s \in Services \ visited : untried[s] = Dependents(s)
    /\ phase = "searched" => path = << >> /\ visited = Services

(* The services the search is done with.                                   *)
Left == visited \ OnPath

(* As long as no cycle was met: whoever depends on a service left was left *)
(* before it; the dependents looked at of a service on the path are left,  *)
(* or next on the path; and no services that wait for each other have all  *)
(* been left, since the last of them would have been met from another.     *)
Explored ==
    cycles = {} =>
        /\ \A s \in Left : Dependents(s) \subseteq Left
        /\ \A k \in DOMAIN path : Dependents(path[k]) \ untried[path[k]] \subseteq
              Left \cup {path[j] : j \in DOMAIN path \cap {k + 1}}
        /\ \A S \in SUBSET Services : Cyclic(S) => ~(S \subseteq Left)

FoundInv == SearchInv /\ PathInv /\ Explored

LEMMA InitFound == Init => FoundInv
<1> SUFFICES ASSUME Init PROVE PathInv /\ Explored
  BY InitSearchInv DEF FoundInv
<1>1. path = << >> /\ DOMAIN path = {} /\ visited = {}
  BY DEF Init
<1>2. OnPath = {} /\ Left = {}
  BY <1>1 DEF OnPath, Left
<1>3. PathInv
  BY <1>1, <1>2 DEF Init, PathInv
<1>4. Explored
  BY <1>1, <1>2 DEF Explored, Cyclic
<1> QED
  BY <1>3, <1>4

(* A service that is entered joins the path.                               *)
LEMMA EnterFacts ==
    ASSUME FoundInv, NEW d \in Services \ visited, Enter(d)
    PROVE  /\ DOMAIN path = 1..Len(path) /\ Len(path) \in Nat
           /\ DOMAIN path' = 1..(Len(path) + 1)
           /\ \A i \in 1..Len(path) : path'[i] = path[i]
           /\ path'[Len(path) + 1] = d
           /\ OnPath' = OnPath \cup {d}
           /\ Left' = Left
           /\ OnPath' \subseteq visited'
           /\ \A i, j \in DOMAIN path' : path'[i] = path'[j] => i = j
<1>1. path \in Seq(Services) /\ path' = Append(path, d) /\ visited' = visited \cup {d}
  BY DEF FoundInv, SearchInv, Enter
<1>2. /\ DOMAIN path = 1..Len(path) /\ Len(path) \in Nat
      /\ DOMAIN path' = 1..(Len(path) + 1)
      /\ \A i \in 1..Len(path) : path'[i] = path[i]
      /\ path'[Len(path) + 1] = d
  BY <1>1
<1>3. \A i \in 1..(Len(path) + 1) : i \in 1..Len(path) \/ i = Len(path) + 1
  BY <1>2
<1>4. 1..Len(path) \subseteq 1..(Len(path) + 1) /\ Len(path) + 1 \in 1..(Len(path) + 1)
  BY <1>2
<1>5. OnPath' = OnPath \cup {d}
  BY <1>2, <1>3, <1>4 DEF OnPath
<1>6. d \notin OnPath /\ OnPath \subseteq visited
  BY DEF FoundInv, PathInv
<1>7. Left' = Left /\ OnPath' \subseteq visited'
  BY <1>1, <1>5, <1>6 DEF Left
<1>8. ASSUME NEW i \in DOMAIN path', NEW j \in DOMAIN path', path'[i] = path'[j]
      PROVE  i = j
  <2>1. \A k \in 1..Len(path) : path[k] # d
    BY <1>2, <1>6 DEF OnPath
  <2> QED
    BY <1>2, <1>3, <1>8, <2>1 DEF FoundInv, PathInv
<1> QED
  BY <1>2, <1>5, <1>7, <1>8

LEMMA StartFromFound ==
    ASSUME FoundInv, StartFrom
    PROVE  PathInv' /\ Explored'
<1>1. PICK s \in Services \ visited : Enter(s)
  BY DEF StartFrom
<1>2. /\ UNCHANGED <<dependsOn, phase, untried, cycles>>
      /\ phase = "searching" /\ path = << >> /\ Len(path) = 0
  BY DEF StartFrom
<1>3. \A r : Dependents(r)' = Dependents(r)
  BY <1>2 DEF Dependents
<1>4. visited' = visited \cup {s}
  BY <1>1 DEF Enter
<1>5. PathInv'
  BY <1>1, <1>2, <1>3, <1>4, EnterFacts DEF FoundInv, PathInv
<1>6. Explored'
  <2> SUFFICES ASSUME cycles = {}
               PROVE  /\ \A r \in Left : Dependents(r) \subseteq Left
                      /\ \A k \in DOMAIN path' :
                            Dependents(path'[k]) \ untried[path'[k]] \subseteq
                                Left \cup {path'[j] : j \in DOMAIN path' \cap {k + 1}}
                      /\ \A S \in SUBSET Services : Cyclic(S) => ~(S \subseteq Left)
    BY <1>1, <1>2, <1>3, EnterFacts DEF Explored, Cyclic
  <2>1. \A k \in DOMAIN path' : path'[k] = s
    BY <1>1, <1>2, EnterFacts
  <2>2. untried[s] = Dependents(s)
    BY DEF FoundInv, PathInv
  <2> QED
    BY <2>1, <2>2 DEF FoundInv, Explored
<1> QED
  BY <1>5, <1>6

LEMMA LookFound ==
    ASSUME FoundInv, Look
    PROVE  PathInv' /\ Explored'
<1> DEFINE n == Len(path)
<1>1. /\ path \in Seq(Services) /\ n \in Nat /\ DOMAIN path = 1..n /\ n \in 1..n
      /\ Top = path[n] /\ Top \in Services /\ Top \in OnPath
      /\ UNCHANGED <<dependsOn, phase>> /\ phase = "searching"
      /\ untried \in [Services -> SUBSET Services]
  BY DEF FoundInv, SearchInv, Look, Top, OnPath
<1>2. PICK d \in untried[Top] :
          /\ untried' = [untried EXCEPT ![Top] = @ \ {d}]
          /\ \/ d \notin visited /\ Enter(d) /\ UNCHANGED cycles
             \/ /\ d \in OnPath /\ cycles' = cycles \cup {Closed(d)}
                /\ UNCHANGED <<visited, path>>
             \/ d \in visited \ OnPath /\ UNCHANGED <<visited, path, cycles>>
  BY DEF Look
<1>3. /\ d \in Services
      /\ \A s \in Services : untried'[s] = IF s = Top THEN untried[s] \ {d} ELSE untried[s]
  BY <1>1, <1>2
<1>4. \A s : Dependents(s)' = Dependents(s)
  BY <1>1 DEF Dependents
<1>5. Top \in visited
  BY <1>1 DEF FoundInv, PathInv
<1>6. \A i \in 1..n : path[i] \in Services /\ (path[i] = Top => i = n)
  <2>1. \A i, j \in 1..n : path[i] = path[j] => i = j
    BY <1>1 DEF FoundInv, PathInv
  <2>2. \A i \in 1..n : path[i] \in Services
    BY <1>1
  <2> QED
    BY <1>1, <2>1, <2>2
<1> HIDE DEF n
<1>7. CASE d \notin visited /\ Enter(d) /\ UNCHANGED cycles
  <2>1. /\ DOMAIN path' = 1..(n + 1)
        /\ \A i \in 1..n : path'[i] = path[i]
        /\ path'[n + 1] = d
        /\ Left' = Left
        /\ OnPath' \subseteq visited'
        /\ \A i, j \in DOMAIN path' : path'[i] = path'[j] => i = j
    BY <1>3, <1>7, EnterFacts DEF n
  <2>2. visited' = visited \cup {d}
    BY <1>7 DEF Enter
  <2>3. untried[d] = Dependents(d) /\ d # Top
    BY <1>3, <1>5, <1>7 DEF FoundInv, PathInv
  <2>4. PathInv'
    BY <1>1, <1>3, <1>4, <1>5, <2>1, <2>2 DEF FoundInv, PathInv
  <2>5. ASSUME cycles = {}, NEW k \in DOMAIN path'
        PROVE  Dependents(path'[k]) \ untried'[path'[k]] \subseteq
                   Left \cup {path'[j] : j \in DOMAIN path' \cap {k + 1}}
    <3>1. CASE k = n + 1
      BY <1>3, <2>1, <2>3, <3>1
    <3>2. CASE k = n
      <4>1. path'[k] = Top /\ untried'[Top] = untried[Top] \ {d}
        BY <1>1, <1>3, <2>1, <3>2
      <4>2. Dependents(Top) \ untried[Top] \subseteq
                Left \cup {path[j] : j \in DOMAIN path \cap {n + 1}}
        BY <1>1, <2>5 DEF FoundInv, Explored
      <4>3. DOMAIN path \cap {n + 1} = {}
        BY <1>1
      <4>4. d \in {path'[j] : j \in DOMAIN path' \cap {k + 1}}
        BY <1>1, <2>1, <3>2
      <4> QED
        BY <4>1, <4>2, <4>3, <4>4
    <3>3. CASE k \in 1..n /\ k # n
      <4>1. k + 1 \in 1..n /\ k + 1 \in 1..(n + 1)
        BY <1>1, <3>3
      <4>2. /\ path'[k] = path[k] /\ path'[k + 1] = path[k + 1]
            /\ untried'[path[k]] = untried[path[k]]
        BY <1>3, <1>6, <2>1, <3>3, <4>1
      <4>3. Dependents(path[k]) \ untried[path[k]] \subseteq
                Left \cup {path[j] : j \in DOMAIN path \cap {k + 1}}
        BY <1>1, <2>5, <3>3 DEF FoundInv, Explored
      <4> QED
        BY <1>1, <2>1, <4>1, <4>2, <4>3
    <3> QED
      BY <1>1, <2>1, <3>1, <3>2, <3>3
  <2>6. Explored'
    BY <1>1, <1>4, <1>7, <2>1, <2>5 DEF FoundInv, Explored, Cyclic
  <2> QED
    BY <2>4, <2>6
<1>8. CASE UNCHANGED <<visited, path>>
  <2>1. OnPath' = OnPath /\ Left' = Left
    BY <1>8 DEF OnPath, Left
  <2>2. PathInv'
    BY <1>1, <1>3, <1>4, <1>5, <1>8, <2>1 DEF FoundInv, PathInv
  <2>3. ASSUME cycles' = {}
        PROVE  cycles = {} /\ d \in Left
    BY <1>2, <1>7, <1>8, <2>3, EnterFacts, <1>3 DEF Left, Enter
  <2>4. ASSUME cycles' = {}, NEW k \in DOMAIN path
        PROVE  Dependents(path[k]) \ untried'[path[k]] \subseteq
                   Left \cup {path[j] : j \in DOMAIN path \cap {k + 1}}
    <3>1. Dependents(path[k]) \ untried[path[k]] \subseteq
              Left \cup {path[j] : j \in DOMAIN path \cap {k + 1}}
      BY <2>3, <2>4 DEF FoundInv, Explored
    <3>2. untried[path[k]] \subseteq untried'[path[k]] \cup {d}
      BY <1>1, <1>3, <1>6
    <3> QED
      BY <2>3, <2>4, <3>1, <3>2
  <2>5. Explored'
    BY <1>1, <1>4, <1>8, <2>1, <2>3, <2>4 DEF FoundInv, Explored, Cyclic
  <2> QED
    BY <2>2, <2>5
<1> QED
  BY <1>2, <1>7, <1>8

LEMMA LeaveFound ==
    ASSUME FoundInv, Leave
    PROVE  PathInv' /\ Explored'
<1> DEFINE n == Len(path)
<1>1. /\ path \in Seq(Services) /\ n \in Nat /\ DOMAIN path = 1..n /\ n \in 1..n
      /\ Top = path[n] /\ Top \in Services /\ Top \in OnPath
      /\ UNCHANGED <<dependsOn, phase, visited, untried, cycles>> /\ phase = "searching"
      /\ untried[Top] = {}
  BY DEF FoundInv, SearchInv, Leave, Top, OnPath
<1>2. /\ path' \in Seq(Services) /\ Len(path') = n - 1
      /\ \A i \in 1..(n - 1) : path'[i] = path[i]
  BY <1>1, ShorterPath DEF Leave
<1>3. DOMAIN path' = 1..(n - 1)
  BY <1>2
<1>4. \A i \in 1..n : path[i] \in Services /\ (path[i] = Top => i = n)
  <2>1. \A i, j \in 1..n : path[i] = path[j] => i = j
    BY <1>1 DEF FoundInv, PathInv
  <2>2. \A i \in 1..n : path[i] \in Services
    BY <1>1
  <2> QED
    BY <1>1, <2>1, <2>2
<1> HIDE DEF n
<1>5. /\ 1..(n - 1) \subseteq 1..n
      /\ n \notin 1..(n - 1)
      /\ \A i \in 1..n : i \in 1..(n - 1) \/ i = n
  BY <1>1
<1>6. OnPath' = OnPath \ {Top}
  BY <1>1, <1>2, <1>3, <1>4, <1>5 DEF OnPath
<1>7. \A s : Dependents(s)' = Dependents(s)
  BY <1>1 DEF Dependents
<1>8. Left' = Left \cup {Top} /\ Top \notin Left
  BY <1>1, <1>6 DEF Left, FoundInv, PathInv
<1>9. PathInv'
  <2>1. \A i, j \in DOMAIN path' : path'[i] = path'[j] => i = j
    BY <1>1, <1>2, <1>3, <1>5 DEF FoundInv, PathInv
  <2> QED
    BY <1>1, <1>6, <1>7, <2>1 DEF FoundInv, PathInv
<1>10. ASSUME cycles = {}
       PROVE  Dependents(Top) \subseteq Left
  <2>1. Dependents(Top) \ untried[Top] \subseteq
            Left \cup {path[j] : j \in DOMAIN path \cap {n + 1}}
    BY <1>1, <1>10 DEF FoundInv, Explored
  <2>2. DOMAIN path \cap {n + 1} = {}
    BY <1>1
  <2> QED
    BY <1>1, <2>1, <2>2
<1>11. ASSUME cycles = {}, NEW k \in DOMAIN path'
       PROVE  Dependents(path'[k]) \ untried[path'[k]] \subseteq
                  Left' \cup {path'[j] : j \in DOMAIN path' \cap {k + 1}}
  <2>1. k \in DOMAIN path /\ path'[k] = path[k] /\ k + 1 \in 1..n
    BY <1>1, <1>2, <1>3, <1>5
  <2>2. Dependents(path[k]) \ untried[path[k]] \subseteq Left \cup {path[k + 1]}
    BY <1>1, <1>11, <2>1 DEF FoundInv, Explored
  <2>3. \/ k + 1 \in DOMAIN path' /\ path'[k + 1] = path[k + 1]
        \/ path[k + 1] = Top
    BY <1>1, <1>2, <1>3, <1>5, <2>1
  <2> QED
    BY <1>8, <2>1, <2>2, <2>3
<1>12. ASSUME cycles = {}, NEW S \in SUBSET Services, Cyclic(S), S \subseteq Left'
       PROVE  FALSE
  <2>1. Top \in S
    BY <1>8, <1>12 DEF FoundInv, Explored
  <2>2. PICK d \in S : d \in dependsOn[Top]
    BY <1>12, <2>1 DEF Cyclic
  <2>3. Top \in Dependents(d)
    BY <1>1, <2>2 DEF Dependents
  <2>4. Dependents(d) \subseteq Left
    BY <1>8, <1>10, <1>12, <2>2 DEF FoundInv, Explored
  <2> QED
    BY <1>8, <2>3, <2>4
<1>13. Explored'
  <2> SUFFICES ASSUME cycles = {}
               PROVE  /\ \A s \in Left' : Dependents(s) \subseteq Left'
                      /\ \A k \in DOMAIN path' :
                            Dependents(path'[k]) \ untried[path'[k]] \subseteq
                                Left' \cup {path'[j] : j \in DOMAIN path' \cap {k + 1}}
                      /\ \A S \in SUBSET Services : Cyclic(S) => ~(S \subseteq Left')
    BY <1>1, <1>7 DEF Explored, Cyclic
  <2>1. \A s \in Left' : Dependents(s) \subseteq Left'
    BY <1>8, <1>10 DEF FoundInv, Explored
  <2> QED
    BY <1>11, <1>12, <2>1
<1> QED
  BY <1>9, <1>13

LEMMA NextFound == FoundInv /\ [Next]_graphVars => FoundInv'
<1> SUFFICES ASSUME FoundInv, [Next]_graphVars PROVE PathInv' /\ Explored'
  BY NextSearchInv DEF FoundInv
<1>1. CASE StartFrom
  BY <1>1, StartFromFound
<1>2. CASE Look
  BY <1>2, LookFound
<1>3. CASE Leave
  BY <1>3, LeaveFound
<1>4. CASE SortLayer \/ Sorted \/ Searched \/ UNCHANGED graphVars
  <2>1. /\ UNCHANGED <<dependsOn, visited, path, untried, cycles>>
        /\ phase' = "searched" => phase = "searched" \/ (path = << >> /\ visited = Services)
    BY <1>4 DEF SortLayer, Sorted, Searched, graphVars, searchVars
  <2>2. /\ OnPath' = OnPath /\ Left' = Left
        /\ \A s : Dependents(s)' = Dependents(s)
    BY <2>1 DEF OnPath, Left, Dependents
  <2> QED
    BY <2>1, <2>2 DEF FoundInv, PathInv, Explored, Cyclic
<1> QED
  BY <1>1, <1>2, <1>3, <1>4 DEF Next

(* The services on a cycle reported wait for each other.                   *)
LEMMA ReportedIsCyclic ==
    ASSUME SearchInv, NEW c \in cycles
    PROVE  Cyclic({c[k] : k \in 1..(Len(c) - 1)})
<1> DEFINE S == {c[k] : k \in 1..(Len(c) - 1)}
<1>1. /\ c \in Seq(Services) /\ Len(c) >= 2 /\ Len(c) \in Nat /\ c[1] = c[Len(c)]
      /\ \A k \in 1..(Len(c) - 1) : c[k + 1] \in Dependents(c[k])
  <2>1. c \in Seq(Services)
    BY DEF SearchInv
  <2>2. Len(c) \in Nat
    BY <2>1
  <2> QED
    BY <2>1, <2>2 DEF SearchInv, CyclesAreReal
<1>2. ASSUME NEW k \in 1..(Len(c) - 1)
      PROVE  dependsOn[c[k]] \cap S # {}
  <2>1. CASE k = 1
    <3>1. Len(c) - 1 \in 1..(Len(c) - 1) /\ (Len(c) - 1) + 1 = Len(c)
      BY <1>1
    <3>2. c[Len(c)] \in Dependents(c[Len(c) - 1])
      BY <1>1, <3>1
    <3> QED
      BY <1>1, <2>1, <3>1, <3>2 DEF Dependents
  <2>2. CASE k # 1
    <3>1. k - 1 \in 1..(Len(c) - 1) /\ (k - 1) + 1 = k
      BY <1>1, <2>2
    <3>2. c[k] \in Dependents(c[k - 1])
      BY <1>1, <3>1
    <3> QED
      BY <3>1, <3>2 DEF Dependents
  <2> QED
    BY <2>1, <2>2
<1>3. S # {}
  <2>1. 1 \in 1..(Len(c) - 1)
    BY <1>1
  <2> QED
    BY <2>1
<1> QED
  BY <1>2, <1>3 DEF Cyclic

---------------------------------------------------------------------------
(* Theorems.                                                               *)

(* The sort's invariant, for every graph.                                   *)
LEMMA SortInvHolds == Spec => []SortInv
  BY InitSortInv, NextSortInv, PTL DEF Spec

(* For every graph, however large: a layer holds a service only when all it *)
(* depends on is in earlier layers.                                        *)
THEOREM LayersRespect == Spec => []LayersRespectDependencies
<1>1. SortInv => LayersRespectDependencies
  BY DEF SortInv
<1> QED
  BY <1>1, SortInvHolds, PTL

(* For every graph: a sort that returns has placed every service exactly    *)
(* once, and it returns just when no services wait for each other, or for   *)
(* one there is not.                                                       *)
THEOREM SortExact == Spec => []SortIsExact
<1>1. SortInv => SortIsExact
  <2> SUFFICES ASSUME SortInv PROVE SortIsExact
    OBVIOUS
  <2> USE DEF SortInv, SortTypes
  <2>1. ASSUME phase = "sorted"
        PROVE  /\ Placed = Services
               /\ \A i, j \in DOMAIN layers : i # j => layers[i] \cap layers[j] = {}
    BY <2>1 DEF Outcome, LayersDisjoint
  <2>2. ASSUME call = "topological_sort", phase # "sorting", phase = "sorted",
               NEW S \in SUBSET Services, Stuck(S)
        PROVE  FALSE
    <3>1. S \cap Services = {}
      BY <2>1, <2>2 DEF StuckWait
    <3> QED
      BY <2>2, <3>1 DEF Stuck
  <2>3. ASSUME call = "topological_sort", phase # "sorting", phase # "sorted"
        PROVE  Stuck(Services \ Placed)
    <3>1. Placed \subseteq Services
      BY DEF Placed
    <3>2. queue = {} /\ Services \ Placed # {}
      BY <2>3, <3>1 DEF Outcome
    <3>3. ASSUME NEW s \in Services \ Placed
          PROVE  \E d \in dependsOn[s] : d \in Services \ Placed \/ d \notin Services
      <4>1. degree[s] # 0
        BY <3>2, <3>3 DEF ReadyAreQueued
      <4>2. Cardinality(dependsOn[s] \ Placed) # 0
        BY <4>1 DEF DegreesCount
      <4>3. ~(dependsOn[s] \subseteq Placed)
        BY <4>2, CountZero
      <4> QED
        BY <4>3
    <3> QED
      BY <3>2, <3>3 DEF Stuck
  <2>4. (call = "topological_sort" /\ phase # "sorting") =>
            (phase = "sorted" <=> \A S \in SUBSET Services : ~Stuck(S))
    BY <2>2, <2>3
  <2> QED
    BY <2>1, <2>4 DEF SortIsExact
<1> QED
  BY <1>1, SortInvHolds, PTL

(* For every graph and every order of the search: what is reported as a     *)
(* cycle goes from dependent to dependent until it is back.                 *)
THEOREM CyclesReal == Spec => []CyclesAreReal
<1>1. SearchInv => CyclesAreReal
  BY DEF SearchInv
<1> QED
  BY <1>1, InitSearchInv, NextSearchInv, PTL DEF Spec

(* Type correctness; that no in-degree goes below zero takes the sort's     *)
(* invariant.                                                              *)
THEOREM GraphTypeCorrect == Spec => []TypeOK
<1> DEFINE Phases == /\ call \in {"topological_sort", "detect_cycles"}
                     /\ phase \in {"sorting", "sorted", "searching", "searched"}
<1>1. Init => Phases
  BY DEF Init
<1>2. Phases /\ [Next]_graphVars => Phases'
  BY DEF Next, SortLayer, Sorted, StartFrom, Look, Leave, Searched, graphVars
<1>3. Spec => []Phases
  BY <1>1, <1>2, PTL DEF Spec
<1>4. Spec => []SearchInv
  BY InitSearchInv, NextSearchInv, PTL DEF Spec
<1>5. Phases /\ SortInv /\ SearchInv => TypeOK
  BY DEF SortInv, SortTypes, SearchInv, TypeOK
<1> QED
  BY <1>3, <1>4, <1>5, SortInvHolds, PTL

(* For every graph: no service is placed a layer later than it could be;    *)
(* one it depends on is in the layer just before (topological_sort).        *)
THEOREM LayersEarliest == Spec => []LayersAreEarliest
<1>1. EarliestInv => LayersAreEarliest
  BY DEF EarliestInv
<1> QED
  BY <1>1, InitEarliest, NextEarliest, PTL DEF Spec

(* For every graph and every order of the search: detect_cycles reports a   *)
(* cycle if and only if there is one.                                      *)
THEOREM CyclesFound == Spec => []CyclesAreFound
<1>1. FoundInv => CyclesAreFound
  <2> SUFFICES ASSUME FoundInv, phase = "searched"
               PROVE  cycles # {} <=> \E S \in SUBSET Services : Cyclic(S)
    BY DEF CyclesAreFound
  <2>1. ASSUME NEW c \in cycles
        PROVE  \E S \in SUBSET Services : Cyclic(S)
    <3>1. c \in Seq(Services) /\ Len(c) \in Nat
      BY DEF FoundInv, SearchInv
    <3>2. {c[k] : k \in 1..(Len(c) - 1)} \in SUBSET Services
      BY <3>1
    <3> QED
      BY <3>2, ReportedIsCyclic DEF FoundInv
  <2>2. ASSUME cycles = {}, NEW S \in SUBSET Services, Cyclic(S)
        PROVE  FALSE
    <3>1. path = << >> /\ visited = Services
      BY DEF FoundInv, PathInv
    <3>2. Left = Services
      BY <3>1 DEF Left, OnPath
    <3> QED
      BY <2>2, <3>2 DEF FoundInv, Explored
  <2> QED
    BY <2>1, <2>2
<1> QED
  BY <1>1, InitFound, NextFound, PTL DEF Spec

===========================================================================
