--------------------------- MODULE ImageLifecycle ---------------------------
(***************************************************************************)
(* deployer/lifecycle.py and lifecycle_security.py: images on the nodes,   *)
(* and DeployExecutor._ensure_image, which asks for them.  One lifecycle   *)
(* object works on several nodes, one call at a time.                      *)
(*                                                                         *)
(* A node has two image stores: `pull` and `inspect` run as the ssh user   *)
(* and see that user's, `build` runs under sudo and fills root's.  An      *)
(* attempt that fails or times out has done its work, or never will, or    *)
(* still runs on the node and does it later, with the image it set out     *)
(* with.  Images are numbers: what the registry serves under a reference,  *)
(* and the commits of the build context, in the order they came to be.     *)
(***************************************************************************)
EXTENDS Naturals

CONSTANTS
    Nodes,       \* the nodes of the target manager
    NamedHosts,  \* nodes whose id is also the name ssh reaches them by
    Localhost,   \* the node id "localhost", in Nodes or not
    Refs,        \* image references, name:tag
    Services,    \* services whose image the executor ensures
    MaxRetries,  \* attempts of a pull or a build
    FreeSpace,   \* what df may find free under /var/lib/containers, in GB
    Required,    \* required_mb of check_disk_space
    None,        \* no image
    MaxChanges,  \* bound: publications and commits
    MaxFaults,   \* bound: failures the environment may inject
    MaxCalls     \* bound: calls made

ASSUME ImageAssumption ==
    /\ NamedHosts \subseteq Nodes
    /\ Refs # {}
    /\ MaxRetries \in Nat \ {0}
    /\ FreeSpace \subseteq Nat
    /\ {Required, MaxChanges, MaxFaults, MaxCalls} \subseteq Nat
    /\ None \notin 0..MaxChanges

VARIABLES
    registry,  \* registry[r]: the image served under r, or None
    head,      \* the commit of the build context
    store,     \* store[n][u][r]: the image user u of node n has under r
    late,      \* podman commands that outlived their ssh client
    cache,     \* cache[n][r]: what inspect remembers, ImageLifecycle._image_cache
    ensured,   \* ensured[n][s]: what the executor remembers, its own _image_cache
    call,      \* the call under way, or the last one
    bounds,    \* [changes, faults, calls] so far
    held,      \* ghost: held[n][r], all the ssh user of n ever had under r
    since      \* ghost: since[n][r], see PullSettles

vars == <<registry, head, store, late, cache, ensured, call, bounds, held, since>>
nodeVars == <<store, late, held, since>>

Image == 0..MaxChanges
Users == {"login", "root"}
Command == [op : {"pull", "build"}, node : Nodes, ref : Refs, image : Image]

(* ImageRef as inspect answers it: a reference and, for its labels, the    *)
(* image they were read from.                                              *)
ImageRef == [ref : Refs, image : Image]

(* pc      "space" (build, disk not checked yet), "trying", or "done"      *)
(* attempt the number of the attempt to come                               *)
(* met     attempts that failed although the image was to be had           *)
(* offered what the registry served since the call began, and what was     *)
(*         late then                                                       *)
Call == [op : {"none", "inspect", "ensure", "pull", "build", "tag", "push"},
         node : Nodes \cup {Localhost}, ref : Refs,
         pc : {"space", "trying", "done"}, attempt : 1..MaxRetries,
         met : 0..MaxRetries, result : {"pending", "ok", "raised"},
         answer : ImageRef \cup {None}, offered : SUBSET (Image \cup {None})]

TypeOK ==
    /\ registry \in [Refs -> Image \cup {None}]
    /\ head \in Image
    /\ store \in [Nodes -> [Users -> [Refs -> Image \cup {None}]]]
    /\ late \subseteq Command
    /\ cache \in [Nodes -> [Refs -> ImageRef \cup {None}]]
    /\ ensured \in [Nodes -> [Services -> ImageRef \cup {None}]]
    /\ call \in Call
    /\ bounds \in [changes : 0..MaxChanges, faults : 0..MaxFaults, calls : 0..MaxCalls]
    /\ held \in [Nodes -> [Refs -> SUBSET Image]]
    /\ since \in [Nodes -> [Refs -> SUBSET (Image \cup {None})]]

Begun(op, n, r) ==
    [op |-> op, node |-> n, ref |-> r, pc |-> "trying", attempt |-> 1, met |-> 0,
     result |-> "pending", answer |-> None,
     offered |-> {registry[r]} \cup
                 {c.image : c \in {c \in late : c.op = "pull" /\ c.node = n /\ c.ref = r}}]

Ended(c, result, answer) == [c EXCEPT !.pc = "done", !.result = result, !.answer = answer]

NoCall == Ended(Begun("none", Localhost, CHOOSE r \in Refs : TRUE), "ok", None)

Init ==
    /\ registry \in [Refs -> {0, None}]
    /\ head = 0
    /\ store = [n \in Nodes |-> [u \in Users |-> [r \in Refs |-> None]]]
    /\ late = {}
    /\ cache = [n \in Nodes |-> [r \in Refs |-> None]]
    /\ ensured = [n \in Nodes |-> [s \in Services |-> None]]
    /\ call = NoCall
    /\ bounds = [changes |-> 0, faults |-> 0, calls |-> 0]
    /\ held = [n \in Nodes |-> [r \in Refs |-> {}]]
    /\ since = [n \in Nodes |-> [r \in Refs |-> {}]]

---------------------------------------------------------------------------
(* The nodes, the registry and the build context (external).               *)

StoreOf(op) == IF op = "build" THEN "root" ELSE "login"

(* What a command sets out to store: the image the registry serves, or the *)
(* commit the build context is at.                                         *)
Source(op, r) == IF op = "build" THEN head ELSE registry[r]

(* `image` arrives in a store of n under r.                                *)
Lands(op, n, r, image) ==
    /\ store' = [store EXCEPT ![n][StoreOf(op)][r] = image]
    /\ held' = IF StoreOf(op) = "login" THEN [held EXCEPT ![n][r] = @ \cup {image}] ELSE held

Fault == /\ bounds.faults < MaxFaults
         /\ bounds' = [bounds EXCEPT !.faults = @ + 1]

(* One attempt of `podman pull` or `podman build`, as execute() reports it. *)
(* "refused": the registry does not serve the image.  "failed": the command *)
(* broke off or timed out, and did nothing, everything, or goes on.        *)
Attempt(op, n, r, outcome) ==
    LET image == Source(op, r) IN
    \/ /\ outcome = "ok"
       /\ image # None
       /\ Lands(op, n, r, image)
       /\ UNCHANGED <<late, bounds>>
    \/ /\ outcome = "refused"
       /\ image = None
       /\ UNCHANGED <<store, held, late, bounds>>
    \/ /\ outcome = "failed"
       /\ image # None
       /\ Fault
       /\ \/ UNCHANGED <<store, held, late>>
          \/ Lands(op, n, r, image) /\ UNCHANGED late
          \/ /\ late' = late \cup {[op |-> op, node |-> n, ref |-> r, image |-> image]}
             /\ UNCHANGED <<store, held>>

LateLands ==
    \E c \in late :
        /\ late' = late \ {c}
        /\ Lands(c.op, c.node, c.ref, c.image)
        /\ UNCHANGED <<registry, head, cache, ensured, call, bounds, since>>

Change == /\ bounds.changes < MaxChanges
          /\ bounds' = [bounds EXCEPT !.changes = @ + 1]

(* Somebody publishes a new image under r; a call under way has seen both. *)
Publish(r) ==
    /\ Change
    /\ registry' = [registry EXCEPT ![r] = bounds.changes + 1]
    /\ call' = IF call.pc = "trying" /\ call.ref = r
               THEN [call EXCEPT !.offered = @ \cup {bounds.changes + 1}] ELSE call
    /\ UNCHANGED <<nodeVars, head, cache, ensured>>

Commit ==
    /\ Change
    /\ head' = bounds.changes + 1
    /\ UNCHANGED <<nodeVars, registry, cache, ensured, call>>

---------------------------------------------------------------------------
(* Reading: inspect, and _ensure_image on top of it.                       *)

Idle == call.pc = "done"

(* A call begins, counted against the bound.                               *)
Calls == /\ Idle
         /\ bounds.calls < MaxCalls
         /\ bounds' = [bounds EXCEPT !.calls = @ + 1]

(* Mutant of Remembers: the cache is keyed by the reference alone.          *)
RemembersForAll(n, r, answer) ==
    cache' = IF answer = None THEN cache
             ELSE [m \in Nodes |-> [cache[m] EXCEPT ![r] = answer]]

(* An absent image is not remembered.                                      *)
Remembers(n, r, answer) ==
    cache' = IF answer = None THEN cache ELSE [cache EXCEPT ![n][r] = answer]

(* `podman inspect` reads the ssh user's store.                            *)
Present(n, r) == store[n]["login"][r] # None
Inspected(n, r) ==
    IF Present(n, r) THEN [ref |-> r, image |-> store[n]["login"][r]] ELSE None

(* What lifecycle.inspect makes of a reference: it answers from the cache,  *)
(* or asks; a failing command reads as an absent image, and one that times *)
(* out raises.  `counted` leaves room for one call and its fault.          *)
Inspects(n, r, result, answer) ==
    LET counted == [bounds EXCEPT !.calls = @ + 1] IN
    /\ Idle
    /\ bounds.calls < MaxCalls
    /\ \/ /\ cache[n][r] # None
          /\ result = "ok" /\ answer = cache[n][r]
          /\ bounds' = counted
          /\ cache' = cache
       \/ /\ cache[n][r] = None
          /\ result = "ok" /\ answer = Inspected(n, r)
          /\ bounds' = counted
          /\ Remembers(n, r, answer)
       \/ /\ cache[n][r] = None
          /\ result \in {"ok", "raised"} /\ answer = None
          /\ bounds.faults < MaxFaults
          /\ bounds' = [counted EXCEPT !.faults = @ + 1]
          /\ cache' = cache

Inspect(n, r) ==
    \E result \in {"ok", "raised"}, answer \in ImageRef \cup {None} :
        /\ Inspects(n, r, result, answer)
        /\ call' = Ended(Begun("inspect", n, r), result, answer)
        /\ UNCHANGED <<nodeVars, registry, head, ensured>>

(* The executor's cache is keyed by the service, whichever image it needs. *)
EnsureImage(n, s, r) ==
    \/ /\ ensured[n][s] # None
       /\ Calls
       /\ call' = Ended(Begun("ensure", n, r), "ok", ensured[n][s])
       /\ UNCHANGED <<nodeVars, registry, head, cache, ensured>>
    \/ /\ ensured[n][s] = None
       /\ \E result \in {"ok", "raised"}, answer \in ImageRef \cup {None} :
             /\ Inspects(n, r, result, answer)
             /\ call' = Ended(Begun("ensure", n, r), result, answer)
             /\ ensured' = [ensured EXCEPT ![n][s] = answer]
       /\ UNCHANGED <<nodeVars, registry, head>>

ClearCache ==
    /\ Calls
    /\ cache' = [n \in Nodes |-> [r \in Refs |-> None]]
    /\ call' = NoCall
    /\ UNCHANGED <<nodeVars, registry, head, ensured>>

---------------------------------------------------------------------------
(* Pull and build: up to MaxRetries attempts, then ImageOperationError.    *)

BeginPull(n, r) ==
    /\ Calls
    /\ call' = Begun("pull", n, r)
    /\ since' = [since EXCEPT ![n][r] = {}]
    /\ UNCHANGED <<registry, head, store, late, held, cache, ensured>>

(* A context that is absent, no directory or under no allowed root is      *)
(* refused at once.                                                        *)
BeginBuild(n, r, valid) ==
    /\ Calls
    /\ call' = IF valid THEN [Begun("build", n, r) EXCEPT !.pc = "space"]
               ELSE Ended(Begun("build", n, r), "raised", None)
    /\ UNCHANGED <<nodeVars, registry, head, cache, ensured>>

(* `df -BG` prints every size with its unit, and int("100G") is no number: *)
(* the parser of 1K-blocks answers 0.                                      *)
DfColumn(gb) == [number |-> gb, unit |-> "G"]
AvailableMb(column) == IF column.unit = "" THEN column.number \div 1024 ELSE 0

(* check_disk_space asks through a target manager of its own, in which the *)
(* node's id is its host name.  A question that fails counts as room.      *)
CheckSpace ==
    /\ call.pc = "space"
    /\ \/ /\ call.node \in NamedHosts
          /\ \E free \in FreeSpace :
                call' = IF AvailableMb(DfColumn(free)) < Required
                        THEN Ended(call, "raised", None)
                        ELSE [call EXCEPT !.pc = "trying"]
          /\ UNCHANGED bounds
       \/ /\ call.node \notin NamedHosts
          /\ call' = [call EXCEPT !.pc = "trying"]
          /\ UNCHANGED bounds
       \/ /\ call.node \in NamedHosts
          /\ Fault
          /\ call' \in {[call EXCEPT !.pc = "trying"], Ended(call, "raised", None)}
    /\ UNCHANGED <<nodeVars, registry, head, cache, ensured>>

Tried(c, outcome) == IF outcome = "failed" THEN [c EXCEPT !.met = @ + 1] ELSE c

(* Mutants of After: one attempt too few; one too many; a failed attempt   *)
(* taken for a success; attempts counted only when they were disturbed.    *)
AfterOneLess(c, outcome) ==
    IF outcome = "ok" THEN Ended(Tried(c, outcome), "ok", None)
    ELSE IF c.attempt + 1 >= MaxRetries THEN Ended(Tried(c, outcome), "raised", None)
    ELSE [Tried(c, outcome) EXCEPT !.attempt = @ + 1]
AfterOneMore(c, outcome) ==
    IF outcome = "ok" THEN Ended(Tried(c, outcome), "ok", None)
    ELSE IF c.attempt > MaxRetries THEN Ended(Tried(c, outcome), "raised", None)
    ELSE [Tried(c, outcome) EXCEPT !.attempt = @ + 1]
AfterUnchecked(c, outcome) ==
    IF outcome # "refused" THEN Ended(Tried(c, outcome), "ok", None)
    ELSE IF c.attempt = MaxRetries THEN Ended(Tried(c, outcome), "raised", None)
    ELSE [Tried(c, outcome) EXCEPT !.attempt = @ + 1]
AfterUncounted(c, outcome) ==
    IF outcome = "ok" THEN Ended(Tried(c, outcome), "ok", None)
    ELSE IF c.attempt = MaxRetries THEN Ended(Tried(c, outcome), "raised", None)
    ELSE IF outcome = "failed" THEN [Tried(c, outcome) EXCEPT !.attempt = @ + 1]
    ELSE c

(* The call after an attempt.                                              *)
After(c, outcome) ==
    IF outcome = "ok" THEN Ended(Tried(c, outcome), "ok", None)
    ELSE IF c.attempt = MaxRetries THEN Ended(Tried(c, outcome), "raised", None)
    ELSE [Tried(c, outcome) EXCEPT !.attempt = @ + 1]

Try ==
    /\ call.pc = "trying"
    /\ \E outcome \in {"ok", "refused", "failed"} :
          /\ Attempt(call.op, call.node, call.ref, outcome)
          /\ call' = After(call, outcome)
    /\ since' = IF call.op = "pull" /\ call'.result = "ok"
                THEN [since EXCEPT ![call.node][call.ref] = call.offered] ELSE since
    /\ UNCHANGED <<registry, head, cache, ensured>>

---------------------------------------------------------------------------
(* Tag and push address the node "localhost", once.                        *)

(* The command is refused, carried out, or broken off before or after.     *)
AtLocalhost(op, r, allowed, happens, misses) ==
    /\ Idle
    /\ bounds.calls < MaxCalls
    /\ \E result \in {"ok", "raised"} :
          /\ call' = Ended(Begun(op, Localhost, r), result, None)
          /\ \/ /\ result = "ok" /\ allowed /\ happens
                /\ bounds' = [bounds EXCEPT !.calls = @ + 1]
             \/ /\ result = "raised" /\ ~allowed /\ misses
                /\ bounds' = [bounds EXCEPT !.calls = @ + 1]
             \/ /\ result = "raised" /\ allowed /\ (happens \/ misses)
                /\ bounds.faults < MaxFaults
                /\ bounds' = [bounds EXCEPT !.calls = @ + 1, !.faults = @ + 1]
    /\ UNCHANGED <<head, late, cache, ensured>>

Held(r) == Localhost \in Nodes /\ Present(Localhost, r)

Tag(r, new) ==
    AtLocalhost("tag", r, Held(r),
        /\ Lands("pull", Localhost, new, store[Localhost]["login"][r])
        /\ since' = [since EXCEPT ![Localhost][new] = {}]
        /\ UNCHANGED registry,
        UNCHANGED <<store, held, since, registry>>)

(* Without a registry the target is the image's source, the word "pull",   *)
(* "build" or "push": no place to push to.                                 *)
Push(r, given) ==
    AtLocalhost("push", r, given /\ Held(r),
        /\ registry' = [registry EXCEPT ![r] = store[Localhost]["login"][r]]
        /\ UNCHANGED <<store, held, since>>,
        UNCHANGED <<store, held, since, registry>>)

---------------------------------------------------------------------------

Progress == CheckSpace \/ Try

Next ==
    \/ Progress
    \/ LateLands
    \/ Commit
    \/ ClearCache
    \/ \E r \in Refs :
          \/ Publish(r)
          \/ \E new \in Refs \ {r} : Tag(r, new)
          \/ \E given \in BOOLEAN : Push(r, given)
          \/ \E n \in Nodes :
                \/ Inspect(n, r)
                \/ \E s \in Services : EnsureImage(n, s, r)
                \/ BeginPull(n, r)
                \/ \E valid \in BOOLEAN : BeginBuild(n, r, valid)

Spec == Init /\ [][Next]_vars /\ WF_vars(Progress)

---------------------------------------------------------------------------
(* Properties.                                                             *)

(* Whatever inspect or the executor remembers of an image, its node's ssh  *)
(* user had that image under that reference when it was asked, although    *)
(* pulls, tags and late commands have changed the store since: entries of  *)
(* two nodes or two references are never mixed up.                         *)
RememberedWasHeld ==
    \A n \in Nodes :
        /\ \A r \in Refs : cache[n][r] # None =>
              cache[n][r].ref = r /\ cache[n][r].image \in held[n][r]
        /\ \A s \in Services : ensured[n][s] # None =>
              ensured[n][s].image \in held[n][ensured[n][s].ref]

(* Fewer than MaxRetries disturbed attempts never fail a pull of an image  *)
(* that the registry served all along, nor a build that got to its first   *)
(* attempt (image-lifecycle.md: retry three times, then fail).             *)
RetriesAbsorbFaults ==
    call.result = "raised" =>
        /\ call.op = "pull" => call.met = MaxRetries \/ None \in call.offered
        /\ call.op = "build" => call.met \in {0, MaxRetries}

(* After the last pull of a reference succeeded, its node keeps an image   *)
(* that the registry served since that pull began, or that an earlier pull *)
(* had left on its way: attempts given up on may land late, and nothing    *)
(* else may.                                                               *)
PullSettles ==
    \A n \in Nodes, r \in Refs :
        since[n][r] # {} => store[n]["login"][r] \in since[n][r]

(* Every pull and every build returns or raises.                           *)
CallsEnd == (call.pc # "done") ~> (call.pc = "done")

=============================================================================
