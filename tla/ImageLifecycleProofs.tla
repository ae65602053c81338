------------------------ MODULE ImageLifecycleProofs ------------------------
(***************************************************************************)
(* The properties of ImageLifecycle, for every value of its constants.     *)
(*                                                                         *)
(* The inductive invariant adds three parts to them.  CallInv: how the     *)
(* attempts made, the disturbed ones and what the registry served go       *)
(* together while a call is under way.  HeldInv: the ghost `held` covers   *)
(* the ssh user's store.  SinceInv: what is still on its way to a store is *)
(* covered by the ghost `since`, or by what the pull under way has seen.   *)
(***************************************************************************)
EXTENDS ImageLifecycle, TLAPS

CallInv ==
    /\ call.pc # "done" =>
          call.op \in {"pull", "build"} /\ call.node \in Nodes /\ call.result = "pending"
    /\ call.pc = "space" => call.op = "build" /\ call.attempt = 1 /\ call.met = 0
    /\ call.pc = "trying" =>
          /\ call.met < call.attempt
          /\ call.op = "build" \/ None \notin call.offered => call.met = call.attempt - 1
          /\ call.op = "pull" => registry[call.ref] \in call.offered

HeldInv == \A n \in Nodes, r \in Refs : store[n]["login"][r] \in held[n][r] \cup {None}

SinceInv ==
    /\ \A c \in late : c.op = "pull" /\ since[c.node][c.ref] # {} =>
          c.image \in since[c.node][c.ref]
    /\ call.pc = "trying" /\ call.op = "pull" =>
          /\ since[call.node][call.ref] = {}
          /\ \A c \in late :
                c.op = "pull" /\ c.node = call.node /\ c.ref = call.ref =>
                    c.image \in call.offered

---------------------------------------------------------------------------
(* The calls.                                                              *)

LEMMA BegunType ==
    ASSUME TypeOK, NEW op \in {"none", "inspect", "ensure", "pull", "build", "tag", "push"},
           NEW n \in Nodes \cup {Localhost}, NEW r \in Refs
    PROVE  Begun(op, n, r) \in Call
<1>1. {registry[r]} \subseteq Image \cup {None}
  BY DEF TypeOK
<1>2. {c.image : c \in {c \in late : c.op = "pull" /\ c.node = n /\ c.ref = r}}
          \subseteq Image \cup {None}
  BY DEF TypeOK, Command
<1>3. 1 \in 1..MaxRetries /\ 0 \in 0..MaxRetries
  BY ImageAssumption
<1> QED
  BY <1>1, <1>2, <1>3 DEF Begun, Call

LEMMA EndedType ==
    ASSUME NEW c \in Call, NEW result \in {"pending", "ok", "raised"},
           NEW answer \in ImageRef \cup {None}
    PROVE  /\ Ended(c, result, answer) \in Call
           /\ Ended(c, result, answer).pc = "done"
           /\ Ended(c, result, answer).op = c.op
           /\ Ended(c, result, answer).result = result
           /\ Ended(c, result, answer).met = c.met
           /\ Ended(c, result, answer).offered = c.offered
BY DEF Ended, Call

LEMMA NoCallType ==
    ASSUME TypeOK
    PROVE  NoCall \in Call /\ NoCall.pc = "done" /\ NoCall.result = "ok"
<1>1. (CHOOSE r \in Refs : TRUE) \in Refs
  BY ImageAssumption
<1>2. Begun("none", Localhost, CHOOSE r \in Refs : TRUE) \in Call
  BY <1>1, BegunType
<1> QED
  BY <1>2, EndedType DEF NoCall

(* A call that has ended keeps CallInv and SinceInv out of play.           *)
LEMMA DoneCall ==
    ASSUME call'.pc = "done"
    PROVE  CallInv'
BY DEF CallInv

(* A call after one of its attempts.                                       *)
LEMMA AfterType ==
    ASSUME TypeOK, CallInv, call.pc = "trying",
           NEW outcome \in {"ok", "refused", "failed"}
    PROVE  /\ After(call, outcome) \in Call
           /\ After(call, outcome).op = call.op
           /\ After(call, outcome).node = call.node
           /\ After(call, outcome).ref = call.ref
           /\ After(call, outcome).offered = call.offered
           /\ After(call, outcome).pc \in {"trying", "done"}
           /\ After(call, outcome).result = "ok" => outcome = "ok"
           /\ outcome = "ok" => After(call, outcome).pc = "done"
           /\ After(call, outcome).met =
                  IF outcome = "failed" THEN call.met + 1 ELSE call.met
           /\ After(call, outcome).pc = "trying" =>
                  /\ After(call, outcome).attempt = call.attempt + 1
                  /\ After(call, outcome).result = "pending"
           /\ After(call, outcome).result = "raised" =>
                  outcome # "ok" /\ call.attempt = MaxRetries
<1> DEFINE c == Tried(call, outcome)
<1>1. call \in Call /\ call.met + 1 \in 0..MaxRetries /\ call.result = "pending"
  BY ImageAssumption DEF TypeOK, CallInv, Call
<1>2. /\ c \in Call /\ c.op = call.op /\ c.node = call.node /\ c.ref = call.ref
      /\ c.offered = call.offered /\ c.attempt = call.attempt /\ c.pc = "trying"
      /\ c.result = "pending"
      /\ c.met = IF outcome = "failed" THEN call.met + 1 ELSE call.met
  BY <1>1 DEF Tried, Call
<1> HIDE DEF c
<1>3. \A result \in {"ok", "raised"} :
          /\ Ended(c, result, None) \in Call
          /\ Ended(c, result, None).op = c.op
          /\ Ended(c, result, None).node = c.node
          /\ Ended(c, result, None).ref = c.ref
          /\ Ended(c, result, None).offered = c.offered
          /\ Ended(c, result, None).met = c.met
          /\ Ended(c, result, None).pc = "done"
          /\ Ended(c, result, None).result = result
  BY <1>2 DEF Ended, Call
<1>4. CASE outcome = "ok"
  <2>1. After(call, outcome) = Ended(c, "ok", None)
    BY <1>4 DEF After, c
  <2> QED
    BY <2>1, <1>2, <1>3, <1>4
<1>5. CASE outcome # "ok" /\ call.attempt = MaxRetries
  <2>1. After(call, outcome) = Ended(c, "raised", None)
    BY <1>5 DEF After, c
  <2> QED
    BY <2>1, <1>2, <1>3, <1>5
<1>6. CASE outcome # "ok" /\ call.attempt # MaxRetries
  <2>1. After(call, outcome) = [c EXCEPT !.attempt = @ + 1]
    BY <1>6 DEF After, c
  <2>2. call.attempt + 1 \in 1..MaxRetries
    BY <1>1, <1>6, ImageAssumption DEF Call
  <2>3. /\ After(call, outcome) \in Call
        /\ After(call, outcome).attempt = call.attempt + 1
    BY <2>1, <2>2, <1>2 DEF Call
  <2> QED
    BY <2>1, <2>3, <1>2, <1>6 DEF Call
<1> QED
  BY <1>4, <1>5, <1>6

---------------------------------------------------------------------------
(* The stores.                                                             *)

(* What an image that arrives changes: the entry of its reference in the   *)
(* ssh user's store and in `held`, unless it was built.                    *)
LEMMA LandsFacts ==
    ASSUME TypeOK, NEW op \in {"pull", "build"}, NEW n \in Nodes, NEW r \in Refs,
           NEW image \in Image, Lands(op, n, r, image)
    PROVE  /\ store' \in [Nodes -> [Users -> [Refs -> Image \cup {None}]]]
           /\ held' \in [Nodes -> [Refs -> SUBSET Image]]
           /\ \A m \in Nodes, q \in Refs :
                 /\ store'[m]["login"][q] = IF op = "pull" /\ m = n /\ q = r
                                            THEN image ELSE store[m]["login"][q]
                 /\ held[m][q] \subseteq held'[m][q]
           /\ op = "pull" => image \in held'[n][r]
<1>1. StoreOf(op) \in Users /\ (StoreOf(op) = "login" <=> op = "pull")
  BY DEF StoreOf, Users
<1>2. /\ store \in [Nodes -> [Users -> [Refs -> Image \cup {None}]]]
      /\ held \in [Nodes -> [Refs -> SUBSET Image]]
  BY DEF TypeOK
<1>3. store' = [store EXCEPT ![n][StoreOf(op)][r] = image]
  BY DEF Lands
<1>4. store' \in [Nodes -> [Users -> [Refs -> Image \cup {None}]]]
  BY <1>1, <1>2, <1>3
<1>5. ASSUME NEW m \in Nodes, NEW q \in Refs
      PROVE  store'[m]["login"][q] = IF op = "pull" /\ m = n /\ q = r
                                     THEN image ELSE store[m]["login"][q]
  BY <1>1, <1>2, <1>3 DEF Users
<1>6. held' = IF op = "pull" THEN [held EXCEPT ![n][r] = @ \cup {image}] ELSE held
  BY <1>1 DEF Lands
<1>7. /\ held' \in [Nodes -> [Refs -> SUBSET Image]]
      /\ \A m \in Nodes, q \in Refs : held[m][q] \subseteq held'[m][q]
      /\ op = "pull" => image \in held'[n][r]
  BY <1>2, <1>6
<1> QED
  BY <1>4, <1>5, <1>7

(* Neither an image that arrives nor one that does not makes `held` lose   *)
(* cover of the store.                                                     *)
LEMMA LandsHeld ==
    ASSUME TypeOK, HeldInv, NEW op \in {"pull", "build"}, NEW n \in Nodes,
           NEW r \in Refs, NEW image \in Image, Lands(op, n, r, image)
    PROVE  HeldInv'
<1> SUFFICES ASSUME NEW m \in Nodes, NEW q \in Refs
             PROVE  store'[m]["login"][q] \in held'[m][q] \cup {None}
  BY DEF HeldInv
<1>1. store[m]["login"][q] \in held[m][q] \cup {None}
  BY DEF HeldInv
<1> QED
  BY <1>1, LandsFacts

(* What is remembered stays covered while `held` only grows.               *)
LEMMA RememberedStays ==
    ASSUME TypeOK, RememberedWasHeld, UNCHANGED <<cache, ensured>>,
           \A m \in Nodes, q \in Refs : held[m][q] \subseteq held'[m][q]
    PROVE  RememberedWasHeld'
<1>1. ASSUME NEW n \in Nodes, NEW r \in Refs, cache'[n][r] # None
      PROVE  cache'[n][r].ref = r /\ cache'[n][r].image \in held'[n][r]
  BY <1>1 DEF RememberedWasHeld
<1>2. ASSUME NEW n \in Nodes, NEW s \in Services, ensured'[n][s] # None
      PROVE  ensured'[n][s].image \in held'[n][ensured'[n][s].ref]
  <2>1. ensured[n][s] \in ImageRef
    BY <1>2 DEF TypeOK
  <2>2. ensured[n][s].ref \in Refs
    BY <2>1 DEF ImageRef
  <2> QED
    BY <1>2, <2>2 DEF RememberedWasHeld
<1> QED
  BY <1>1, <1>2 DEF RememberedWasHeld

IInv ==
    /\ TypeOK
    /\ CallInv
    /\ HeldInv
    /\ SinceInv
    /\ RememberedWasHeld
    /\ RetriesAbsorbFaults
    /\ PullSettles

(* A step that leaves the nodes and the call alone, or ends a call that    *)
(* did not fail a pull or a build.                                         *)
LEMMA QuietStep ==
    ASSUME IInv, UNCHANGED nodeVars, call'.pc = "done",
           call'.op \in {"pull", "build"} => call'.result = "ok" \/ call'.met = 0,
           call'.op # "pull"
    PROVE  CallInv' /\ HeldInv' /\ SinceInv' /\ RetriesAbsorbFaults' /\ PullSettles'
BY DEF IInv, CallInv, HeldInv, SinceInv, RetriesAbsorbFaults, PullSettles, nodeVars

---------------------------------------------------------------------------
(* The actions, one by one.                                                *)

LEMMA InitIInv == Init => IInv
<1> SUFFICES ASSUME Init PROVE IInv
  OBVIOUS
<1>1. /\ registry \in [Refs -> Image \cup {None}]
      /\ head \in Image
      /\ late \subseteq Command
      /\ bounds \in [changes : 0..MaxChanges, faults : 0..MaxFaults, calls : 0..MaxCalls]
  BY ImageAssumption DEF Init, Image
<1>2. /\ store \in [Nodes -> [Users -> [Refs -> Image \cup {None}]]]
      /\ cache \in [Nodes -> [Refs -> ImageRef \cup {None}]]
      /\ ensured \in [Nodes -> [Services -> ImageRef \cup {None}]]
      /\ held \in [Nodes -> [Refs -> SUBSET Image]]
      /\ since \in [Nodes -> [Refs -> SUBSET (Image \cup {None})]]
  BY DEF Init
<1>3. /\ call \in Call /\ call.pc = "done" /\ call.result = "ok"
  <2>1. (CHOOSE r \in Refs : TRUE) \in Refs
    BY ImageAssumption
  <2> DEFINE b == Begun("none", Localhost, CHOOSE r \in Refs : TRUE)
  <2>2. b.offered \subseteq Image \cup {None}
    BY <1>1, <2>1 DEF Begun, Command
  <2>3. b \in Call
    BY <2>1, <2>2, ImageAssumption DEF Begun, Call
  <2> HIDE DEF b
  <2>4. call = Ended(b, "ok", None)
    BY DEF Init, NoCall, b
  <2> QED
    BY <2>3, <2>4, EndedType
<1>4. TypeOK
  BY <1>1, <1>2, <1>3 DEF TypeOK
<1>5. CallInv /\ RetriesAbsorbFaults
  BY <1>3 DEF CallInv, RetriesAbsorbFaults
<1>6. HeldInv /\ PullSettles /\ RememberedWasHeld
  BY DEF Init, HeldInv, PullSettles, RememberedWasHeld, Users
<1>7. SinceInv
  BY <1>3 DEF Init, SinceInv
<1> QED
  BY <1>4, <1>5, <1>6, <1>7 DEF IInv

(* Counting against a bound.                                               *)
Counts == [changes : 0..MaxChanges, faults : 0..MaxFaults, calls : 0..MaxCalls]

LEMMA CountedOne ==
    ASSUME NEW b \in Counts
    PROVE  /\ b.changes < MaxChanges =>
                 b.changes + 1 \in Image /\ [b EXCEPT !.changes = @ + 1] \in Counts
           /\ b.faults < MaxFaults => [b EXCEPT !.faults = @ + 1] \in Counts
           /\ b.calls < MaxCalls => [b EXCEPT !.calls = @ + 1] \in Counts
           /\ [b EXCEPT !.calls = @ + 1].faults = b.faults
<1>1. MaxChanges \in Nat /\ MaxFaults \in Nat /\ MaxCalls \in Nat
  BY ImageAssumption
<1>2. /\ b.changes \in 0..MaxChanges
      /\ b.faults \in 0..MaxFaults
      /\ b.calls \in 0..MaxCalls
  BY DEF Counts
<1>3. ASSUME b.changes < MaxChanges
      PROVE  b.changes + 1 \in Image /\ [b EXCEPT !.changes = @ + 1] \in Counts
  BY <1>1, <1>2, <1>3 DEF Counts, Image
<1>4. ASSUME b.faults < MaxFaults
      PROVE  [b EXCEPT !.faults = @ + 1] \in Counts
  BY <1>1, <1>2, <1>4 DEF Counts
<1>5. ASSUME b.calls < MaxCalls
      PROVE  [b EXCEPT !.calls = @ + 1] \in Counts
  BY <1>1, <1>2, <1>5 DEF Counts
<1>6. [b EXCEPT !.calls = @ + 1].faults = b.faults
  BY DEF Counts
<1> QED
  BY <1>3, <1>4, <1>5, <1>6

LEMMA CountedType ==
    ASSUME TypeOK
    PROVE  /\ bounds.changes < MaxChanges =>
                 bounds.changes + 1 \in Image /\ [bounds EXCEPT !.changes = @ + 1] \in Counts
           /\ bounds.faults < MaxFaults => [bounds EXCEPT !.faults = @ + 1] \in Counts
           /\ bounds.calls < MaxCalls =>
                 /\ [bounds EXCEPT !.calls = @ + 1] \in Counts
                 /\ bounds.faults < MaxFaults =>
                       [bounds EXCEPT !.calls = @ + 1, !.faults = @ + 1] \in Counts
<1>1. bounds \in Counts
  BY DEF TypeOK, Counts
<1> DEFINE counted == [bounds EXCEPT !.calls = @ + 1]
<1>2. [bounds EXCEPT !.calls = @ + 1, !.faults = @ + 1] = [counted EXCEPT !.faults = @ + 1]
  BY <1>1 DEF Counts
<1>3. counted.faults = bounds.faults
  BY <1>1, CountedOne
<1>4. bounds.calls < MaxCalls => counted \in Counts
  BY <1>1, CountedOne
<1> HIDE DEF counted
<1>5. counted \in Counts /\ counted.faults < MaxFaults =>
          [counted EXCEPT !.faults = @ + 1] \in Counts
  BY CountedOne
<1>6. bounds.calls < MaxCalls /\ bounds.faults < MaxFaults =>
          [bounds EXCEPT !.calls = @ + 1, !.faults = @ + 1] \in Counts
  BY <1>2, <1>3, <1>4, <1>5
<1> QED
  BY <1>1, <1>4, <1>6, CountedOne DEF counted

(* What inspect answers, and what it leaves in the cache, was there.       *)
LEMMA InspectsFacts ==
    ASSUME IInv, NEW n \in Nodes, NEW r \in Refs, NEW result \in {"ok", "raised"},
           NEW answer \in ImageRef \cup {None}, Inspects(n, r, result, answer)
    PROVE  /\ cache' \in [Nodes -> [Refs -> ImageRef \cup {None}]]
           /\ bounds' \in Counts
           /\ answer # None => answer.ref = r /\ answer.image \in held[n][r]
           /\ \A m \in Nodes, q \in Refs : cache'[m][q] # None =>
                 cache'[m][q].ref = q /\ cache'[m][q].image \in held[m][q]
<1>1. TypeOK /\ HeldInv /\ RememberedWasHeld
  BY DEF IInv
<1>2. cache \in [Nodes -> [Refs -> ImageRef \cup {None}]]
  BY <1>1 DEF TypeOK
<1>3. \A m \in Nodes, q \in Refs : cache[m][q] # None =>
          cache[m][q].ref = q /\ cache[m][q].image \in held[m][q]
  BY <1>1 DEF RememberedWasHeld
<1>4. bounds' \in Counts
  <2> DEFINE counted == [bounds EXCEPT !.calls = @ + 1]
  <2>1. \/ bounds' = counted
        \/ bounds' = [counted EXCEPT !.faults = @ + 1] /\ bounds.faults < MaxFaults
    BY DEF Inspects
  <2>2. [counted EXCEPT !.faults = @ + 1] = [bounds EXCEPT !.calls = @ + 1, !.faults = @ + 1]
    BY <1>1 DEF TypeOK
  <2>3. bounds.calls < MaxCalls
    BY DEF Inspects
  <2> QED
    BY <1>1, <2>1, <2>2, <2>3, CountedType
<1>5. CASE cache' = cache /\ (answer = cache[n][r] \/ answer = None)
  BY <1>2, <1>3, <1>4, <1>5
<1>6. CASE answer = Inspected(n, r) /\ Remembers(n, r, answer)
  <2>1. answer # None => answer.ref = r /\ answer.image \in held[n][r]
    BY <1>1, <1>6 DEF Inspected, Present, HeldInv
  <2>2. cache' = IF answer = None THEN cache ELSE [cache EXCEPT ![n][r] = answer]
    BY <1>6 DEF Remembers
  <2>3. cache' \in [Nodes -> [Refs -> ImageRef \cup {None}]]
    BY <1>2, <2>2
  <2>4. \A m \in Nodes, q \in Refs :
            cache'[m][q] = cache[m][q] \/ (m = n /\ q = r /\ cache'[m][q] = answer)
    BY <1>2, <2>2
  <2> QED
    BY <1>3, <1>4, <2>1, <2>3, <2>4
<1> QED
  BY <1>5, <1>6 DEF Inspects

LEMMA InspectIInv ==
    ASSUME IInv, NEW n \in Nodes, NEW r \in Refs, Inspect(n, r)
    PROVE  IInv'
<1>1. PICK result \in {"ok", "raised"}, answer \in ImageRef \cup {None} :
          /\ Inspects(n, r, result, answer)
          /\ call' = Ended(Begun("inspect", n, r), result, answer)
          /\ UNCHANGED <<nodeVars, registry, head, ensured>>
  BY DEF Inspect
<1>2. TypeOK /\ Begun("inspect", n, r) \in Call /\ Begun("inspect", n, r).op = "inspect"
  <2>1. TypeOK
    BY DEF IInv
  <2> QED
    BY <2>1, BegunType DEF Begun
<1>3. call' \in Call /\ call'.pc = "done" /\ call'.op = "inspect"
  BY <1>1, <1>2, EndedType
<1>4. TypeOK'
  BY <1>1, <1>2, <1>3, InspectsFacts DEF TypeOK, nodeVars, Counts
<1>5. RememberedWasHeld'
  BY <1>1, InspectsFacts DEF IInv, RememberedWasHeld, nodeVars
<1>6. CallInv' /\ HeldInv' /\ SinceInv' /\ RetriesAbsorbFaults' /\ PullSettles'
  BY <1>1, <1>3, QuietStep
<1> QED
  BY <1>4, <1>5, <1>6 DEF IInv

LEMMA EnsureImageIInv ==
    ASSUME IInv, NEW n \in Nodes, NEW s \in Services, NEW r \in Refs, EnsureImage(n, s, r)
    PROVE  IInv'
<1>1. TypeOK /\ RememberedWasHeld
  BY DEF IInv
<1>2. Begun("ensure", n, r) \in Call /\ Begun("ensure", n, r).op = "ensure"
  BY <1>1, BegunType DEF Begun
<1>3. UNCHANGED <<nodeVars, registry, head>>
  BY DEF EnsureImage
<1>4. CASE /\ ensured[n][s] # None
           /\ Calls
           /\ call' = Ended(Begun("ensure", n, r), "ok", ensured[n][s])
           /\ UNCHANGED <<cache, ensured>>
  <2>1. call' \in Call /\ call'.pc = "done" /\ call'.op = "ensure"
    BY <1>1, <1>2, <1>4, EndedType DEF TypeOK
  <2>2. TypeOK'
    BY <1>1, <1>3, <1>4, <2>1, CountedType DEF TypeOK, nodeVars, Calls, Counts
  <2>3. RememberedWasHeld'
    BY <1>1, <1>3, <1>4 DEF RememberedWasHeld, nodeVars
  <2> QED
    BY <1>3, <2>1, <2>2, <2>3, QuietStep DEF IInv
<1>5. ASSUME NEW result \in {"ok", "raised"}, NEW answer \in ImageRef \cup {None},
             Inspects(n, r, result, answer),
             call' = Ended(Begun("ensure", n, r), result, answer),
             ensured' = [ensured EXCEPT ![n][s] = answer]
      PROVE  IInv'
  <2>1. call' \in Call /\ call'.pc = "done" /\ call'.op = "ensure"
    BY <1>2, <1>5, EndedType
  <2>2. ensured' \in [Nodes -> [Services -> ImageRef \cup {None}]]
    BY <1>1, <1>5 DEF TypeOK
  <2>3. TypeOK'
    BY <1>1, <1>3, <1>5, <2>1, <2>2, InspectsFacts DEF TypeOK, nodeVars, Counts
  <2>4. \A m \in Nodes, q \in Services :
            ensured'[m][q] = ensured[m][q] \/ (m = n /\ ensured'[m][q] = answer)
    BY <1>1, <1>5 DEF TypeOK
  <2>5. RememberedWasHeld'
    BY <1>1, <1>3, <1>5, <2>4, InspectsFacts DEF RememberedWasHeld, nodeVars
  <2> QED
    BY <1>3, <2>1, <2>3, <2>5, QuietStep DEF IInv
<1> QED
  BY <1>4, <1>5 DEF EnsureImage

LEMMA ClearCacheIInv ==
    ASSUME IInv, ClearCache
    PROVE  IInv'
<1>1. TypeOK /\ RememberedWasHeld
  BY DEF IInv
<1>2. call' \in Call /\ call'.pc = "done" /\ call'.op \notin {"pull", "build"}
  <2>1. NoCall.op = "none"
    BY DEF NoCall, Ended, Begun
  <2> QED
    BY <1>1, <2>1, NoCallType DEF ClearCache
<1>3. cache' \in [Nodes -> [Refs -> ImageRef \cup {None}]]
  BY DEF ClearCache
<1>4. TypeOK'
  BY <1>1, <1>2, <1>3, CountedType DEF TypeOK, ClearCache, Calls, nodeVars, Counts
<1>5. RememberedWasHeld'
  BY <1>1 DEF RememberedWasHeld, ClearCache, nodeVars
<1> QED
  BY <1>2, <1>4, <1>5, QuietStep DEF IInv, ClearCache

LEMMA CommitIInv ==
    ASSUME IInv, Commit
    PROVE  IInv'
<1>1. TypeOK'
  BY CountedType DEF IInv, TypeOK, Commit, Change, nodeVars, Counts
<1>2. UNCHANGED <<registry, store, late, cache, ensured, call, held, since>>
  BY DEF Commit, nodeVars
<1> QED
  BY <1>1, <1>2 DEF IInv, CallInv, HeldInv, SinceInv, RememberedWasHeld,
     RetriesAbsorbFaults, PullSettles

LEMMA PublishIInv ==
    ASSUME IInv, NEW r \in Refs, Publish(r)
    PROVE  IInv'
<1> DEFINE new == bounds.changes + 1
<1>1. TypeOK /\ new \in Image /\ new # None
  BY CountedType, ImageAssumption DEF IInv, Publish, Change, Image
<1> HIDE DEF new
<1>2. UNCHANGED <<store, late, cache, ensured, held, since>>
  BY DEF Publish, nodeVars
<1>3. call' = IF call.pc = "trying" /\ call.ref = r
              THEN [call EXCEPT !.offered = @ \cup {new}] ELSE call
  BY DEF Publish, new
<1>4. /\ call' \in Call /\ call'.op = call.op /\ call'.node = call.node
      /\ call'.ref = call.ref /\ call'.pc = call.pc /\ call'.attempt = call.attempt
      /\ call'.met = call.met /\ call'.result = call.result
      /\ call.offered \subseteq call'.offered
      /\ None \in call'.offered <=> None \in call.offered
      /\ call.pc = "trying" /\ call.ref = r => new \in call'.offered
  <2>1. CASE call.pc = "trying" /\ call.ref = r
    <3>1. call' = [call EXCEPT !.offered = @ \cup {new}]
      BY <2>1, <1>3
    <3> QED
      BY <1>1, <3>1 DEF TypeOK, Call
  <2>2. CASE ~(call.pc = "trying" /\ call.ref = r)
    BY <1>1, <1>3, <2>2 DEF TypeOK
  <2> QED
    BY <2>1, <2>2
<1>5. registry' = [registry EXCEPT ![r] = new]
  BY DEF Publish, new
<1>6. TypeOK'
  BY <1>1, <1>2, <1>4, <1>5, CountedType DEF TypeOK, Publish, Change, Counts
<1>7. CallInv'
  <2>1. call.pc = "trying" /\ call.op = "pull" => registry'[call.ref] \in call'.offered
    BY <1>1, <1>4, <1>5 DEF IInv, CallInv, TypeOK, Call
  <2> QED
    BY <1>4, <2>1 DEF IInv, CallInv
<1>8. SinceInv'
  BY <1>2, <1>4 DEF IInv, SinceInv
<1>9. HeldInv' /\ RememberedWasHeld' /\ PullSettles' /\ RetriesAbsorbFaults'
  BY <1>2, <1>4 DEF IInv, HeldInv, RememberedWasHeld, PullSettles, RetriesAbsorbFaults
<1> QED
  BY <1>6, <1>7, <1>8, <1>9 DEF IInv

LEMMA BeginPullIInv ==
    ASSUME IInv, NEW n \in Nodes, NEW r \in Refs, BeginPull(n, r)
    PROVE  IInv'
<1> DEFINE b == Begun("pull", n, r)
<1>1. TypeOK /\ UNCHANGED <<registry, head, store, late, held, cache, ensured>> /\ call' = b
  BY DEF IInv, BeginPull
<1>2. /\ b \in Call /\ b.op = "pull" /\ b.node = n /\ b.ref = r /\ b.pc = "trying"
      /\ b.attempt = 1 /\ b.met = 0 /\ b.result = "pending"
      /\ registry[r] \in b.offered
      /\ \A c \in late : c.op = "pull" /\ c.node = n /\ c.ref = r => c.image \in b.offered
  BY <1>1, BegunType DEF Begun
<1> HIDE DEF b
<1>3. since' = [since EXCEPT ![n][r] = {}]
  BY DEF BeginPull
<1>4. /\ since' \in [Nodes -> [Refs -> SUBSET (Image \cup {None})]]
      /\ since'[n][r] = {}
      /\ \A m \in Nodes, q \in Refs : since'[m][q] = since[m][q] \/ since'[m][q] = {}
  BY <1>1, <1>3 DEF TypeOK
<1>5. TypeOK'
  BY <1>1, <1>2, <1>4, CountedType DEF TypeOK, BeginPull, Calls, Counts
<1>6. CallInv' /\ RetriesAbsorbFaults'
  BY <1>1, <1>2 DEF CallInv, RetriesAbsorbFaults
<1>7. HeldInv' /\ RememberedWasHeld'
  BY <1>1 DEF IInv, HeldInv, RememberedWasHeld
<1>8. PullSettles'
  BY <1>1, <1>4 DEF IInv, PullSettles
<1>9. SinceInv'
  <2>1. ASSUME NEW c \in late, c.op = "pull", since'[c.node][c.ref] # {}
        PROVE  c.image \in since'[c.node][c.ref]
    <3>1. c.node \in Nodes /\ c.ref \in Refs
      BY <1>1 DEF TypeOK, Command
    <3> QED
      BY <2>1, <3>1, <1>4 DEF IInv, SinceInv
  <2> QED
    BY <1>1, <1>2, <1>4, <2>1 DEF SinceInv
<1> QED
  BY <1>5, <1>6, <1>7, <1>8, <1>9 DEF IInv

LEMMA BeginBuildIInv ==
    ASSUME IInv, NEW n \in Nodes, NEW r \in Refs, NEW valid \in BOOLEAN,
           BeginBuild(n, r, valid)
    PROVE  IInv'
<1> DEFINE b == Begun("build", n, r)
<1>1. TypeOK /\ UNCHANGED <<store, late, held, since, registry, head, cache, ensured>>
  BY DEF IInv, BeginBuild, nodeVars
<1>2. /\ b \in Call /\ b.op = "build" /\ b.node = n /\ b.attempt = 1
      /\ b.met = 0 /\ b.result = "pending"
  BY <1>1, BegunType DEF Begun
<1>3. /\ call' \in Call /\ call'.op = "build" /\ call'.met = 0
      /\ call'.pc # "trying"
      /\ call'.pc = "space" =>
            call'.node = n /\ call'.attempt = 1 /\ call'.result = "pending"
  <2>1. CASE valid
    <3>1. call' = [b EXCEPT !.pc = "space"]
      BY <2>1 DEF BeginBuild
    <3> QED
      BY <3>1, <1>2 DEF Call
  <2>2. CASE ~valid
    <3>1. call' = Ended(b, "raised", None)
      BY <2>2 DEF BeginBuild
    <3> QED
      BY <3>1, <1>2, EndedType
  <2> QED
    BY <2>1, <2>2
<1>4. TypeOK'
  BY <1>1, <1>3, CountedType DEF TypeOK, BeginBuild, Calls, Counts
<1>5. CallInv' /\ RetriesAbsorbFaults'
  BY <1>3 DEF CallInv, RetriesAbsorbFaults, Call
<1>6. HeldInv' /\ RememberedWasHeld' /\ PullSettles' /\ SinceInv'
  BY <1>1, <1>3 DEF IInv, HeldInv, RememberedWasHeld, PullSettles, SinceInv
<1> QED
  BY <1>4, <1>5, <1>6 DEF IInv

LEMMA CheckSpaceIInv ==
    ASSUME IInv, CheckSpace
    PROVE  IInv'
<1>1. /\ TypeOK /\ call.pc = "space"
      /\ UNCHANGED <<store, late, held, since, registry, head, cache, ensured>>
  BY DEF IInv, CheckSpace, nodeVars
<1>2. /\ call \in Call /\ call.op = "build" /\ call.node \in Nodes /\ call.attempt = 1
      /\ call.met = 0 /\ call.result = "pending"
  BY <1>1 DEF IInv, TypeOK, CallInv
<1>3. call' \in {Ended(call, "raised", None), [call EXCEPT !.pc = "trying"]}
  BY DEF CheckSpace
<1>4. /\ call' \in Call /\ call'.op = "build" /\ call'.met = 0 /\ call'.pc # "space"
      /\ call'.pc = "trying" =>
            call'.node = call.node /\ call'.attempt = 1 /\ call'.result = "pending"
  <2>1. CASE call' = Ended(call, "raised", None)
    BY <1>2, <2>1, EndedType
  <2>2. CASE call' = [call EXCEPT !.pc = "trying"]
    BY <1>2, <2>2 DEF Call
  <2> QED
    BY <1>3, <2>1, <2>2
<1>5. bounds' \in Counts
  <2>1. bounds' = bounds \/ (bounds.faults < MaxFaults /\ bounds' = [bounds EXCEPT !.faults = @ + 1])
    BY DEF CheckSpace, Fault
  <2> QED
    BY <1>1, <2>1, CountedType DEF TypeOK, Counts
<1>6. TypeOK'
  BY <1>1, <1>4, <1>5 DEF TypeOK, Counts
<1>7. CallInv' /\ RetriesAbsorbFaults'
  BY <1>2, <1>4 DEF CallInv, RetriesAbsorbFaults, Call
<1>8. HeldInv' /\ RememberedWasHeld' /\ PullSettles' /\ SinceInv'
  BY <1>1, <1>4 DEF IInv, HeldInv, RememberedWasHeld, PullSettles, SinceInv
<1> QED
  BY <1>6, <1>7, <1>8 DEF IInv

LEMMA LateLandsIInv ==
    ASSUME IInv, LateLands
    PROVE  IInv'
<1>1. PICK c \in late :
          /\ late' = late \ {c}
          /\ Lands(c.op, c.node, c.ref, c.image)
          /\ UNCHANGED <<registry, head, cache, ensured, call, bounds, since>>
  BY DEF LateLands
<1>2. /\ TypeOK /\ HeldInv /\ SinceInv /\ PullSettles
      /\ c.op \in {"pull", "build"} /\ c.node \in Nodes /\ c.ref \in Refs /\ c.image \in Image
  BY DEF IInv, TypeOK, Command
<1>3. /\ store' \in [Nodes -> [Users -> [Refs -> Image \cup {None}]]]
      /\ held' \in [Nodes -> [Refs -> SUBSET Image]]
      /\ \A m \in Nodes, q \in Refs :
            /\ store'[m]["login"][q] = IF c.op = "pull" /\ m = c.node /\ q = c.ref
                                       THEN c.image ELSE store[m]["login"][q]
            /\ held[m][q] \subseteq held'[m][q]
  BY <1>1, <1>2, LandsFacts
<1>4. TypeOK'
  BY <1>1, <1>2, <1>3 DEF TypeOK
<1>5. HeldInv' /\ RememberedWasHeld'
  BY <1>1, <1>2, <1>3, LandsHeld, RememberedStays DEF IInv
<1>6. CallInv' /\ RetriesAbsorbFaults' /\ SinceInv'
  BY <1>1 DEF IInv, CallInv, RetriesAbsorbFaults, SinceInv
<1>7. PullSettles'
  BY <1>1, <1>2, <1>3 DEF PullSettles, SinceInv
<1> QED
  BY <1>4, <1>5, <1>6, <1>7 DEF IInv

(* What an attempt does to the nodes, whichever way it ends.               *)
LEMMA AttemptFacts ==
    ASSUME IInv, call.pc = "trying", NEW outcome \in {"ok", "refused", "failed"},
           Attempt(call.op, call.node, call.ref, outcome)
    PROVE  /\ store' \in [Nodes -> [Users -> [Refs -> Image \cup {None}]]]
           /\ held' \in [Nodes -> [Refs -> SUBSET Image]]
           /\ late' \subseteq Command
           /\ bounds' \in Counts
           /\ HeldInv'
           /\ \A m \in Nodes, q \in Refs : held[m][q] \subseteq held'[m][q]
           /\ \A m \in Nodes, q \in Refs :
                 \/ store'[m]["login"][q] = store[m]["login"][q]
                 \/ /\ call.op = "pull" /\ m = call.node /\ q = call.ref
                    /\ store'[m]["login"][q] = registry[q]
           /\ outcome = "ok" /\ call.op = "pull" =>
                 store'[call.node]["login"][call.ref] = registry[call.ref]
           /\ outcome = "ok" => late' = late
           /\ \A c \in late' : c \in late \/
                 /\ c.op = call.op /\ c.node = call.node /\ c.ref = call.ref
                 /\ c.op = "pull" => c.image = registry[c.ref]
           /\ outcome = "refused" => call.op = "pull" /\ registry[call.ref] = None
<1> DEFINE image == Source(call.op, call.ref)
<1>1. /\ TypeOK /\ HeldInv /\ call.op \in {"pull", "build"}
      /\ call.node \in Nodes /\ call.ref \in Refs
  BY DEF IInv, CallInv, TypeOK, Call
<1>2. /\ image \in Image \cup {None}
      /\ call.op = "pull" => image = registry[call.ref]
      /\ call.op = "build" => image # None
  BY <1>1, ImageAssumption DEF TypeOK, Source, Image
<1> HIDE DEF image
<1>3. CASE UNCHANGED <<store, held>>
  <2>1. late' \subseteq Command /\ bounds' \in Counts
    BY <1>1, <1>2, CountedType DEF Attempt, Fault, image, TypeOK, Command, Counts
  <2>2. \A c \in late' : c \in late \/
            /\ c.op = call.op /\ c.node = call.node /\ c.ref = call.ref
            /\ c.op = "pull" => c.image = registry[c.ref]
    BY <1>1, <1>2 DEF Attempt, image
  <2>3. outcome = "ok" =>
            late' = late /\ image # None /\ Lands(call.op, call.node, call.ref, image)
    BY DEF Attempt, image
  <2>4. outcome = "refused" => call.op = "pull" /\ registry[call.ref] = None
    BY <1>1, <1>2 DEF Attempt, image
  <2>5. outcome = "ok" /\ call.op = "pull" =>
            store'[call.node]["login"][call.ref] = registry[call.ref]
    BY <1>1, <1>2, <2>3, LandsFacts
  <2>6. HeldInv' /\ \A m \in Nodes, q \in Refs : held[m][q] \subseteq held'[m][q]
    BY <1>1, <1>3 DEF HeldInv
  <2> QED
    BY <1>1, <1>3, <2>1, <2>2, <2>3, <2>4, <2>5, <2>6 DEF TypeOK
<1>4. CASE /\ image # None
           /\ Lands(call.op, call.node, call.ref, image)
           /\ UNCHANGED late
           /\ outcome # "refused"
           /\ UNCHANGED bounds \/ Fault
  <2>1. bounds' \in Counts
    BY <1>1, <1>4, CountedType DEF Fault, TypeOK, Counts
  <2>2. /\ store' \in [Nodes -> [Users -> [Refs -> Image \cup {None}]]]
        /\ held' \in [Nodes -> [Refs -> SUBSET Image]]
        /\ \A m \in Nodes, q \in Refs :
              /\ store'[m]["login"][q] = IF call.op = "pull" /\ m = call.node /\ q = call.ref
                                         THEN image ELSE store[m]["login"][q]
              /\ held[m][q] \subseteq held'[m][q]
    BY <1>1, <1>2, <1>4, LandsFacts
  <2>3. HeldInv'
    BY <1>1, <1>2, <1>4, LandsHeld
  <2>4. \A m \in Nodes, q \in Refs :
            \/ store'[m]["login"][q] = store[m]["login"][q]
            \/ /\ call.op = "pull" /\ m = call.node /\ q = call.ref
               /\ store'[m]["login"][q] = registry[q]
    BY <1>2, <2>2
  <2>5. call.op = "pull" => store'[call.node]["login"][call.ref] = registry[call.ref]
    BY <1>1, <1>2, <2>2
  <2> QED
    BY <1>1, <1>4, <2>1, <2>2, <2>3, <2>4, <2>5 DEF TypeOK
<1> QED
  BY <1>3, <1>4 DEF Attempt, image

LEMMA TryIInv ==
    ASSUME IInv, Try
    PROVE  IInv'
<1>1. /\ TypeOK /\ CallInv /\ SinceInv /\ PullSettles
      /\ call.pc = "trying" /\ call \in Call
      /\ call.op \in {"pull", "build"} /\ call.node \in Nodes /\ call.ref \in Refs
      /\ UNCHANGED <<registry, head, cache, ensured>>
  BY DEF IInv, Try, CallInv, TypeOK, Call
<1>2. PICK outcome \in {"ok", "refused", "failed"} :
          /\ Attempt(call.op, call.node, call.ref, outcome)
          /\ call' = After(call, outcome)
  BY DEF Try
<1>3. /\ call' \in Call /\ call'.op = call.op /\ call'.node = call.node
      /\ call'.ref = call.ref /\ call'.offered = call.offered
      /\ call'.pc \in {"trying", "done"}
      /\ call'.result = "ok" => outcome = "ok"
      /\ outcome = "ok" => call'.pc = "done"
      /\ call'.met = IF outcome = "failed" THEN call.met + 1 ELSE call.met
      /\ call'.pc = "trying" => call'.attempt = call.attempt + 1 /\ call'.result = "pending"
      /\ call'.result = "raised" => outcome # "ok" /\ call.attempt = MaxRetries
  BY <1>1, <1>2, AfterType
<1>4. since' = IF call.op = "pull" /\ call'.result = "ok"
               THEN [since EXCEPT ![call.node][call.ref] = call.offered] ELSE since
  BY DEF Try
<1>5. /\ since' \in [Nodes -> [Refs -> SUBSET (Image \cup {None})]]
      /\ \A m \in Nodes, q \in Refs :
            since'[m][q] = IF /\ call.op = "pull" /\ call'.result = "ok"
                              /\ m = call.node /\ q = call.ref
                           THEN call.offered ELSE since[m][q]
  BY <1>1, <1>4 DEF TypeOK, Call
<1>6. TypeOK'
  BY <1>1, <1>2, <1>3, <1>5, AttemptFacts DEF TypeOK, Counts
<1>7. /\ call.attempt \in Nat /\ call.met \in Nat /\ call'.met \in Nat /\ MaxRetries \in Nat
      /\ call.met < call.attempt
      /\ call.op = "build" \/ None \notin call.offered => call.met = call.attempt - 1
      /\ call.op = "pull" => registry[call.ref] \in call.offered
  BY <1>1, <1>3, ImageAssumption DEF CallInv, Call
<1>8. outcome = "refused" => call.op = "pull" /\ None \in call.offered
  BY <1>1, <1>2, <1>7, AttemptFacts
<1>9. CallInv'
  <2>1. ASSUME call'.pc = "trying"
        PROVE  /\ call'.met < call'.attempt
               /\ call.op = "build" \/ None \notin call.offered =>
                     call'.met = call'.attempt - 1
    BY <1>3, <1>7, <1>8, <2>1
  <2> QED
    BY <1>1, <1>3, <1>7, <2>1 DEF CallInv
<1>10. RetriesAbsorbFaults'
  <2> SUFFICES ASSUME call'.result = "raised"
               PROVE  /\ call.op = "pull" => call'.met = MaxRetries \/ None \in call.offered
                      /\ call.op = "build" => call'.met \in {0, MaxRetries}
    BY <1>3 DEF RetriesAbsorbFaults
  <2>1. outcome # "ok" /\ call.attempt = MaxRetries
    BY <1>3
  <2>2. CASE outcome = "refused"
    BY <1>8, <2>2
  <2>3. CASE outcome = "failed"
    BY <1>3, <1>7, <2>1, <2>3
  <2> QED
    BY <2>1, <2>2, <2>3
<1>11. HeldInv' /\ RememberedWasHeld'
  BY <1>1, <1>2, AttemptFacts, RememberedStays DEF IInv
<1>12. \A m \in Nodes, q \in Refs :
           \/ store'[m]["login"][q] = store[m]["login"][q]
           \/ call.op = "pull" /\ m = call.node /\ q = call.ref
  BY <1>1, <1>2, AttemptFacts
<1>13. call.op = "pull" => since[call.node][call.ref] = {}
  BY <1>1 DEF SinceInv
<1>14. PullSettles'
  <2> SUFFICES ASSUME NEW m \in Nodes, NEW q \in Refs, since'[m][q] # {}
               PROVE  store'[m]["login"][q] \in since'[m][q]
    BY DEF PullSettles
  <2>1. CASE call.op = "pull" /\ m = call.node /\ q = call.ref
    <3>1. call'.result = "ok"
      BY <1>5, <1>13, <2>1
    <3>2. store'[m]["login"][q] = registry[q] /\ since'[m][q] = call.offered
      BY <1>1, <1>2, <1>3, <1>5, <2>1, <3>1, AttemptFacts
    <3> QED
      BY <1>7, <2>1, <3>2
  <2>2. CASE ~(call.op = "pull" /\ m = call.node /\ q = call.ref)
    BY <1>1, <1>5, <1>12, <2>2 DEF PullSettles
  <2> QED
    BY <2>1, <2>2
<1>15. SinceInv'
  <2>1. ASSUME NEW c \in late', c.op = "pull", c.node = call.node, c.ref = call.ref,
               call.op = "pull"
        PROVE  c.image \in call.offered
    <3>1. c \in late \/ c.image = registry[c.ref]
      BY <1>1, <1>2, <2>1, AttemptFacts
    <3> QED
      BY <1>1, <1>7, <2>1, <3>1 DEF SinceInv
  <2>2. ASSUME NEW c \in late', c.op = "pull", since'[c.node][c.ref] # {}
        PROVE  c.image \in since'[c.node][c.ref]
    <3>1. c.node \in Nodes /\ c.ref \in Refs
      BY <1>6 DEF TypeOK, Command
    <3>2. CASE call.op = "pull" /\ c.node = call.node /\ c.ref = call.ref
      <4>1. since'[c.node][c.ref] = call.offered
        BY <1>5, <1>13, <2>2, <3>1, <3>2
      <4> QED
        BY <2>1, <2>2, <3>2, <4>1
    <3>3. CASE ~(call.op = "pull" /\ c.node = call.node /\ c.ref = call.ref)
      <4>1. c \in late
        BY <1>1, <1>2, <2>2, <3>3, AttemptFacts
      <4>2. since'[c.node][c.ref] = since[c.node][c.ref]
        BY <1>5, <3>1, <3>3
      <4> QED
        BY <1>1, <2>2, <4>1, <4>2 DEF SinceInv
    <3> QED
      BY <3>2, <3>3
  <2>3. call'.pc = "trying" /\ call.op = "pull" => since'[call.node][call.ref] = {}
    BY <1>1, <1>3, <1>5, <1>13
  <2> QED
    BY <1>3, <2>1, <2>2, <2>3 DEF SinceInv
<1> QED
  BY <1>6, <1>9, <1>10, <1>11, <1>14, <1>15 DEF IInv

(* Tag and push, whether the command happens or not.                       *)
LEMMA AtLocalhostFacts ==
    ASSUME IInv, NEW op \in {"tag", "push"}, NEW r \in Refs, NEW allowed, NEW happens,
           NEW misses, AtLocalhost(op, r, allowed, happens, misses)
    PROVE  /\ call' \in Call /\ call'.pc = "done" /\ call'.op = op
           /\ bounds' \in Counts
           /\ (allowed /\ happens) \/ misses
           /\ UNCHANGED <<head, late, cache, ensured>>
<1>1. TypeOK /\ UNCHANGED <<head, late, cache, ensured>> /\ bounds.calls < MaxCalls
  BY DEF IInv, AtLocalhost
<1>2. Begun(op, Localhost, r) \in Call /\ Begun(op, Localhost, r).op = op
  BY <1>1, BegunType DEF Begun
<1>3. PICK result \in {"ok", "raised"} :
          /\ call' = Ended(Begun(op, Localhost, r), result, None)
          /\ \/ /\ result = "ok" /\ allowed /\ happens
                /\ bounds' = [bounds EXCEPT !.calls = @ + 1]
             \/ /\ result = "raised" /\ ~allowed /\ misses
                /\ bounds' = [bounds EXCEPT !.calls = @ + 1]
             \/ /\ result = "raised" /\ allowed /\ (happens \/ misses)
                /\ bounds.faults < MaxFaults
                /\ bounds' = [bounds EXCEPT !.calls = @ + 1, !.faults = @ + 1]
  BY DEF AtLocalhost
<1>4. call' \in Call /\ call'.pc = "done" /\ call'.op = op
  BY <1>2, <1>3, EndedType
<1>5. bounds' \in Counts
  BY <1>1, <1>3, CountedType
<1>6. (allowed /\ happens) \/ misses
  BY <1>3
<1> QED
  BY <1>1, <1>4, <1>5, <1>6

LEMMA TagIInv ==
    ASSUME IInv, NEW r \in Refs, NEW new \in Refs \ {r}, Tag(r, new)
    PROVE  IInv'
<1> DEFINE happens == /\ Lands("pull", Localhost, new, store[Localhost]["login"][r])
                      /\ since' = [since EXCEPT ![Localhost][new] = {}]
                      /\ UNCHANGED registry
           misses == UNCHANGED <<store, held, since, registry>>
<1>1. AtLocalhost("tag", r, Held(r), happens, misses)
  BY DEF Tag
<1> HIDE DEF happens, misses
<1>2. /\ call' \in Call /\ call'.pc = "done" /\ call'.op = "tag"
      /\ bounds' \in Counts
      /\ (Held(r) /\ happens) \/ misses
      /\ UNCHANGED <<head, late, cache, ensured>>
  BY <1>1, AtLocalhostFacts
<1>3. TypeOK /\ SinceInv /\ PullSettles
  BY DEF IInv
<1>4. CASE Held(r) /\ happens
  <2> DEFINE image == store[Localhost]["login"][r]
  <2>1. Localhost \in Nodes /\ image \in Image
    BY <1>3, <1>4 DEF Held, Present, TypeOK, Users
  <2>2. Lands("pull", Localhost, new, image) /\ registry' = registry
    BY <1>4 DEF happens
  <2> HIDE DEF image
  <2>3. /\ store' \in [Nodes -> [Users -> [Refs -> Image \cup {None}]]]
        /\ held' \in [Nodes -> [Refs -> SUBSET Image]]
        /\ \A m \in Nodes, q \in Refs :
              /\ m # Localhost \/ q # new => store'[m]["login"][q] = store[m]["login"][q]
              /\ held[m][q] \subseteq held'[m][q]
    BY <1>3, <2>1, <2>2, LandsFacts
  <2>4. since' = [since EXCEPT ![Localhost][new] = {}]
    BY <1>4 DEF happens
  <2>5. /\ since' \in [Nodes -> [Refs -> SUBSET (Image \cup {None})]]
        /\ \A m \in Nodes, q \in Refs :
              since'[m][q] = IF m = Localhost /\ q = new THEN {} ELSE since[m][q]
    BY <1>3, <2>1, <2>4 DEF TypeOK
  <2>6. TypeOK'
    BY <1>2, <1>3, <2>2, <2>3, <2>5 DEF TypeOK, Counts
  <2>7. HeldInv' /\ RememberedWasHeld'
    BY <1>2, <1>3, <2>1, <2>2, <2>3, LandsHeld, RememberedStays DEF IInv
  <2>8. CallInv' /\ RetriesAbsorbFaults'
    BY <1>2 DEF CallInv, RetriesAbsorbFaults
  <2>9. PullSettles'
    BY <1>3, <2>3, <2>5 DEF PullSettles
  <2>10. SinceInv'
    <3>1. ASSUME NEW c \in late, c.op = "pull", since'[c.node][c.ref] # {}
          PROVE  c.image \in since'[c.node][c.ref]
      <4>1. c.node \in Nodes /\ c.ref \in Refs
        BY <1>3 DEF TypeOK, Command
      <4> QED
        BY <1>3, <2>5, <3>1, <4>1 DEF SinceInv
    <3> QED
      BY <1>2, <3>1 DEF SinceInv
  <2> QED
    BY <2>6, <2>7, <2>8, <2>9, <2>10 DEF IInv
<1>5. CASE misses
  <2>1. UNCHANGED nodeVars /\ registry' = registry
    BY <1>2, <1>5 DEF misses, nodeVars
  <2>2. TypeOK' /\ RememberedWasHeld'
    BY <1>2, <1>3, <2>1 DEF IInv, TypeOK, Counts, nodeVars, RememberedWasHeld
  <2> QED
    BY <1>2, <2>1, <2>2, QuietStep DEF IInv
<1> QED
  BY <1>2, <1>4, <1>5

LEMMA PushIInv ==
    ASSUME IInv, NEW r \in Refs, NEW given \in BOOLEAN, Push(r, given)
    PROVE  IInv'
<1> DEFINE happens == /\ registry' = [registry EXCEPT ![r] = store[Localhost]["login"][r]]
                      /\ UNCHANGED <<store, held, since>>
           misses == UNCHANGED <<store, held, since, registry>>
           allowed == given /\ Held(r)
<1>1. AtLocalhost("push", r, allowed, happens, misses)
  BY DEF Push
<1> HIDE DEF happens, misses, allowed
<1>2. /\ call' \in Call /\ call'.pc = "done" /\ call'.op = "push"
      /\ bounds' \in Counts
      /\ (allowed /\ happens) \/ misses
      /\ UNCHANGED <<head, late, cache, ensured>>
  BY <1>1, AtLocalhostFacts
<1>3. TypeOK /\ UNCHANGED nodeVars
  BY <1>2 DEF IInv, happens, misses, nodeVars
<1>4. registry' \in [Refs -> Image \cup {None}]
  <2>1. CASE allowed /\ happens
    <3>1. store[Localhost]["login"][r] \in Image
      BY <1>3, <2>1 DEF allowed, Held, Present, TypeOK, Users
    <3> QED
      BY <1>3, <2>1, <3>1 DEF happens, TypeOK
  <2>2. CASE misses
    BY <1>3, <2>2 DEF misses, TypeOK
  <2> QED
    BY <1>2, <2>1, <2>2
<1>5. TypeOK' /\ RememberedWasHeld'
  BY <1>2, <1>3, <1>4 DEF IInv, TypeOK, Counts, nodeVars, RememberedWasHeld
<1> QED
  BY <1>2, <1>3, <1>5, QuietStep DEF IInv

---------------------------------------------------------------------------

LEMMA NextIInv ==
    ASSUME IInv, [Next]_vars
    PROVE  IInv'
<1>1. CASE CheckSpace
  BY <1>1, CheckSpaceIInv
<1>2. CASE Try
  BY <1>2, TryIInv
<1>3. CASE LateLands
  BY <1>3, LateLandsIInv
<1>4. CASE Commit
  BY <1>4, CommitIInv
<1>5. CASE ClearCache
  BY <1>5, ClearCacheIInv
<1>6. ASSUME NEW r \in Refs,
             \/ Publish(r)
             \/ \E new \in Refs \ {r} : Tag(r, new)
             \/ \E given \in BOOLEAN : Push(r, given)
      PROVE  IInv'
  BY <1>6, PublishIInv, TagIInv, PushIInv
<1>7. ASSUME NEW r \in Refs, NEW n \in Nodes,
             \/ Inspect(n, r)
             \/ \E s \in Services : EnsureImage(n, s, r)
             \/ BeginPull(n, r)
             \/ \E valid \in BOOLEAN : BeginBuild(n, r, valid)
      PROVE  IInv'
  BY <1>7, InspectIInv, EnsureImageIInv, BeginPullIInv, BeginBuildIInv
<1>8. CASE UNCHANGED vars
  <2>1. UNCHANGED <<registry, head, store, late, cache, ensured, call, bounds, held, since>>
    BY <1>8 DEF vars
  <2>2. TypeOK' /\ RememberedWasHeld'
    BY <2>1 DEF IInv, TypeOK, RememberedWasHeld
  <2> QED
    BY <2>1, <2>2 DEF IInv, CallInv, HeldInv, SinceInv, RetriesAbsorbFaults, PullSettles
<1> QED
  BY <1>1, <1>2, <1>3, <1>4, <1>5, <1>6, <1>7, <1>8 DEF Next, Progress

(* The images and what is remembered of them have their types, whatever    *)
(* calls, late commands and publications come in between.                  *)
THEOREM TypeCorrect == Spec => []TypeOK
<1>1. IInv => TypeOK
  BY DEF IInv
<1> QED
  BY <1>1, InitIInv, NextIInv, PTL DEF Spec

(* Whatever inspect or the executor remembers of an image was in its       *)
(* node's store under that reference: RememberedWasHeld, of the caches of  *)
(* lifecycle.py and executor.py.                                           *)
THEOREM RememberedWasHeldHolds == Spec => []RememberedWasHeld
<1>1. IInv => RememberedWasHeld
  BY DEF IInv
<1> QED
  BY <1>1, InitIInv, NextIInv, PTL DEF Spec

(* Fewer than MaxRetries disturbed attempts fail no pull of an image that  *)
(* was served all along and no build that began: the retry loops of pull   *)
(* and build, for every number of retries.                                 *)
THEOREM RetriesAbsorbFaultsHolds == Spec => []RetriesAbsorbFaults
<1>1. IInv => RetriesAbsorbFaults
  BY DEF IInv
<1> QED
  BY <1>1, InitIInv, NextIInv, PTL DEF Spec

(* After a successful pull the node keeps an image that the registry       *)
(* served since, or that was on its way when the pull began.               *)
THEOREM PullSettlesHolds == Spec => []PullSettles
<1>1. IInv => PullSettles
  BY DEF IInv
<1> QED
  BY <1>1, InitIInv, NextIInv, PTL DEF Spec

=============================================================================
