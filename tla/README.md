# rw_blueprint, specified and checked

rw_blueprint keeps a fleet of Podman hosts in line with one `topology.yaml`. It
generates quadlet files from the topology, deploys them over ssh, records what it
deployed, rolls back, observes what really runs, reports the drift between the
two and proposes remedies. This directory holds TLA+ specifications of that
behaviour, TLC configurations that check them on small instances, and theorems
that TLAPS has checked for instances of every size. Paths below are relative to
`src/src/rw_blueprint/` unless they start with `docs/`.

Contents: [the system](#the-system) · [how the code maps to the modules](#modules-and-code)
· [what the runs check](#runs) · [bounds](#bounds) · [fairness](#fairness) ·
[what is proved](#proofs) · [where documentation and code disagree](#findings) ·
[abstractions](#abstractions) · [what is not modelled](#not-modelled) · [the plan](#plan)

Checking everything by hand:

    tlc -workers 2 -config MCDeploySerial.cfg MCDeploy        # one line per run, see Runs
    tlapm DeployerProofs.tla; tlapm PlanExecutionProofs.tla       # and TargetNodeProofs.tla
    tlapm ImageLifecycleProofs.tla; tlapm LayeredSettingsProofs.tla
    tlapm ProbeSessionProofs.tla; tlapm DriftDetectionProofs.tla
    tlapm DependencyGraphProofs.tla

<a name="the-system"></a>
## The system

### Components

| Component | Code | State it keeps | Operations |
|---|---|---|---|
| Target node and ssh | `deployer/targets.py` | none here; the node's `/tmp`, `/etc/containers/systemd`, its generated units, its containers | `execute` (ssh, 30 s or 60 s timeout), `transfer_file` (scp to `/tmp`, then `sudo mv`) |
| Deployment state | `deployer/state.py` | `.rw_blueprint/deployments/<node>/<service>.json` (history), one stored quadlet per artifact key | `record`, `get_previous_healthy`, `get_history`, `store_artifact`, `get_artifact` |
| Deploy command and executor | `cli.py` `deploy`, `deployer/executor.py`, `deployer/verify.py` | the locals of one session; `docs/generated` on disk | generate, plan, per service: check, store, transfer, reload, start; verify; record |
| Rollback | `deployer/rollback.py` | none | stop, restore the artifact, reload, `enable --now` |
| Deployment plan | `deployer/plan.py` | none | desired against existing: create, update, delete, blast radius |
| Generator | `generator.py`, `templates/` | `docs/generated` | `generate` |
| Probes | `probes/` | fragments, then the live state file | one probe per tool and target, `MultiNodeProbeCoordinator` over targets, `merge` |
| Reconciler | `reconciler.py`, `cli.py` `reconcile` | none | three-way difference, severity, ignore rules, exit code |
| Remediation | `remediation.py` | none | one proposal per active drift item |
| Dependency graph | `deployer/graph.py` | none | `topological_sort`, `detect_cycles` |
| Image lifecycle | `deployer/lifecycle.py`, `deployer/lifecycle_security.py` | cache of inspected images; a second one in the executor (`_ensure_image`) | list, inspect, pull, build, push, tag |
| Configuration | `config.py` | the settings singleton | `load`: defaults, two files, environment, command line; `get_settings`, `reset_settings` |
| Schemas | `schema.py`, `live_state.py` | none | validation of the two documents |
| MCP server | `mcp_server.py` | none | `run_probes`; read-only wrappers |
| Report, integration generator | `report.py`, `deployer/integration.py` | none | rendering |

### How they interact

- A **deploy session** is one run of the `deploy` command. It loads the topology, writes
  the quadlets of the topology into `docs/generated`, plans one "create" per selected
  service (the command line always passes `existing={}`), and lets `DeployExecutor` take
  the services in topology order. For each: two questions to the node (is the unit
  active; does any container list ports), the artifact is copied into the deployment
  state, the generated file is sent with scp and moved into place with `sudo mv`,
  `daemon-reload`, and, unless one of the questions was answered yes, `systemctl start`.
  `continue_on_failure` is on: an exception is collected and the loop goes on. If any was
  collected the command ends with exit code 1; otherwise every completed service is
  verified, then every one recorded.
- Sessions, and rollbacks, share the node, the history and artifact files, and
  `docs/generated`. No lock keeps them apart.
- A **probe session** runs each selected probe on each target in turn and merges the
  fragments; the result is a file. A **reconcile** is a later command that reads that file
  and the topology. Containers change all the while.
- **Plans with updates and deletes** are what `PlanGenerator.generate` gives a caller who
  says what exists, and `DeployExecutor.execute` carries out; no command does, the library
  and its tests do.
- The **image lifecycle** is a library too: the `image` commands that should reach it fail
  before they do (see Findings), and nothing in the executor calls `_ensure_image`, the method that would ask it.
- The **settings** of a process are loaded by whoever calls `get_settings` first, and
  again, for everybody, by whoever calls it with overrides.
- The dependency graph has no caller among the commands. It is part of the library.

### What is hard

- *Failures seen from one side.* A remote command can fail before or after it took effect.
  When ssh times out, only the client is killed: the remote command may complete minutes
  later, in the middle of another session (`targets.py:79-106`).
- *Steps that are not atomic.* Files are rewritten in place (`state.py:60-66`,
  `state.py:112-121`), from the start, whatever another session has put there meanwhile; scp leaves partial files; a session can be killed between any two steps.
- *Order.* Store before transfer, verify all before recording any, stop before restore.
- *Stale knowledge.* `service_active` is read four remote commands before it is used;
  `docs/generated` holds files of services no longer generated; a live state file says
  nothing about its age; a unit on a node may be of an earlier topology than the plan at hand.
- *Partial failure.* One service of a plan, one command of a rollback, one target of a
  probe session fails and the rest goes on.
- *Long legal sequences.* deploy, failed update, rollback; deploy, probe, reconcile; and
  reconcile, remedy, reconcile: each step does what it says and the chain does not.

### What makes each part correct

- *Deployment:* nothing reaches a node that was not stored for a rollback first; a service
  counted as completed really is installed and loaded; the history gains a record only
  from a session all of whose services went through; every session ends.
- *Deployment state:* the history is an append-only log, lost at most as a whole; it becomes unreadable by a
  killed writer or by two that write at once, and by nothing else.
- *Rollback:* nothing that was not stored gets installed while it runs, nothing but the artifact
  by its own `mv`; it serves the artifact when nothing fails, and ends.
- *Probes:* what was merged loads; no port and no mesh address is lost over targets and probes; a
  session without errors has an answer from everybody.
- *Drift detection:* an observation was true of its target; a clean report and exit code 0
  mean what an operator reads into them; a missing service is really not there.
- *Plans:* a successful round delivers what the topology wants on its node and nothing it
  deleted is up; what the topology wants is interrupted only through units out of date with it; every round ends.
- *Images:* what the two caches answer was true of that node and reference; a fault the
  retries are there for fails no call; after a successful pull no unrelated image
  turns up under the reference; every call ends.
- *Configuration:* the documented precedence; no value that nobody stated.
- *Dependency graph:* layers respect dependencies and are as early as possible; an error
  is raised exactly when no order exists; cycles reported are the cycles there are; calls end.

`PROJECT.json` lists, under `hazards`, each place in the code where one of these can go
wrong and the properties that would show it.

<a name="modules-and-code"></a>
## Modules and code

| Module | Models | Builds on |
|---|---|---|
| `TargetNode` | `TargetManager` and the node behind it | |
| `DeploymentState` | `deployer/state.py` | `TargetNode` |
| `DeploymentLog` | abstract: what the history promises | |
| `Deployer` | the `deploy` command, executor and health check | `DeploymentState`, `INSTANCE DeploymentLog` |
| `DeploySystem` | deploy sessions and rollbacks together | `Deployer` |
| `PlanExecution` | `deployer/plan.py` and the executor's loop over creates, updates and deletes | `TargetNode` |
| `ImageLifecycle` | `deployer/lifecycle.py`, `lifecycle_security.py`, `_ensure_image` | |
| `LayeredSettings` | `config.py` | |
| `ProbeSession` | the registry, the coordinator, the port, dns, tailscale and incus probes, the merge of nodes and links; `run_probes` | |
| `Drift` | reconciler, ignore rules, exit code, remediation (operators only) | |
| `DriftDetection` | probe sessions and reconcile | `Drift` |
| `DependencyGraph` | both algorithms of `deployer/graph.py` | |
| `DeployModel`, `MCDeploy`, `MCDeploySystem`, `MCPlan`, `MCImages`, `MCSettings`, `MCProbes`, `MCDrift`, `MCDependencyGraph` | constants for TLC | |
| `TargetNodeProofs` | lemmas about the commands of the node | `TargetNode` |
| `DeployerProofs` | theorems about sessions, the history and rollbacks | `DeploySystem`, `TargetNodeProofs` |
| `PlanExecutionProofs`, `ImageLifecycleProofs`, `LayeredSettingsProofs`, `ProbeSessionProofs`, `DriftDetectionProofs`, `DependencyGraphProofs` | theorems about the module of that name | that module |

Operators commented as "Mutant of X" are not part of the model. Each is a plausible bug
in X, kept to show that a property notices it (`PROJECT.json`, `mutants`).

### Deployer

`node` is one target: per service the file in `/tmp`, the installed quadlet, the unit
systemd generated at its last reload, and what the running container was started from.
Each is a *version* of the quadlet file, `None` or `Torn`. Four operators of `TargetNode`
say how a caller sees a command: `Execute` (it changes the node), `Query` (it only reads),
`Scp`, and `LateEffect` (a command that outlived its ssh client). `Accepts` and `Effect`
are what systemd and mv do; they are external. Units are started together with what they
require and stopped together with what requires them, because the quadlet template
renders a service's dependencies as `Requires=`. `Needs` gives these per version, since they belong to a topology;
what counts on the node is the unit that is loaded (`Requires`, `Pulled`), which may be of an earlier one. The unit of a service is `<service>.service`; the health
check and the rollback say `<service>.container`, which reaches it only for the services in
`Aliased` (none on a node nobody prepared for it).

`sess[c]` holds the locals of session `c`. The actions follow the code line by line of
control:

| Action | Code |
|---|---|
| `Begin` | `cli.py` `deploy` up to the executor, with `generator.generate` |
| `CheckActive`, `CheckPorts` | `executor.py:130-141` |
| `Store` | `executor.py:143-154` with `store_artifact` |
| `Transfer`, `Move` | `transfer_file`: scp, then `sudo mv` |
| `Reload`, `Start` | `executor.py:160-175`, with the early return for an active service |
| `Executed` | loop exit, and exit code 1 when errors were collected |
| `Verify`, `Verified` | the health loop of `deploy`, with the rollback call that raises |
| `ReadHistory`, `TruncateHistory`, `WriteHistory`, `Recorded` | `DeploymentState.record`, in the steps the file system sees |
| `Crash` | the process is killed, also in the middle of writing an artifact |

`DeploySystem` adds `RollbackExecutor.rollback`, one action per command. The rollback is
the class as the tests and library users call it; the `rollback` command itself
does not get that far (see Findings).

`Parallel` says whether sessions may overlap. The code does not prevent it. With
`Parallel = FALSE` operators take turns, which most guarantees need; the parallel run says
which do not. A killed session's commands still take effect late in both.

`WriteBack` writes a history from the start of the file, as `write_text` does: over a longer text that another session
has written since the truncation it leaves the rest of that text behind, and the file reads as `Garbled`. The number
of records stands for the length of a text; with equal numbers either may be the longer.

`stored` and `clashed` are ghosts: every version ever stored for a service, and the services whose history two sessions were
ever writing at once. Records carry the version
they are about; the code writes a constant version, image "local", and a hash of the
topology's *path* in its place, so this too is knowledge of the model only.

### PlanExecution

One `Begin` is a round of a caller: it looks at the containers that run on the node `Here`,
adds what it heard of others (`Observed`), plans and calls `execute`. `Creates`, `Updates`
and `Deletes` are the three loops of `generate`; `Compared` gives what `_needs_update`
looks at, so two versions may differ without needing an update, in what they depend on too. A topology is `WellFormed` when it has every service that
one of its services, in the version it declares, depends on.

| Action | Code |
|---|---|
| `Begin` | `generate`, and `execute` up to its loop |
| `CheckActive`, `BeginDelete` | the loop head, for a create or update and for a delete |
| `CheckPorts`, `Transfer`, `Move`, `Reload`, `Start` | `_deploy_service`, without a state tracker |
| `Stop`, `Disable`, `Unload` | `_undeploy_service`, on the branch without a `config_path` |
| `Erred` | the `except` of the loop, with and without `continue_on_failure` |
| `Return` | the result |

The node is that of `TargetNode`, late commands and failures included; `disable` changes
nothing there, since a generated unit is enabled by its quadlet. `revived` is a ghost: what
a late command started during the round.

### ImageLifecycle

`store[n][u][r]` is the image that user `u` of node `n` has under reference `r`. `pull`,
`inspect`, `tag` and `push` see the ssh user's store, `build` fills root's. Images are
numbers in the order they came to be. `Try` is one attempt of a pull or build:
it succeeds, is refused, or fails having done its work, nothing, or going on without its
client (`late`, `LateLands`). `After` is the end of the attempt's loop body. `cache` is the
lifecycle's cache, by node and reference; `ensured` the executor's, by node and service.
`CheckSpace` follows `df -BG` through the parser. `Tag` and `Push` go to the node
`localhost`. The ghosts `held` and `since` say what the ssh user ever had under a reference,
and what a pull may leave there.

### LayeredSettings

Every tier is a function of dotted keys. `Merge` compares with field defaults key by key,
as `_merge` does, and as a whole where a section was lost. `FromYaml` starts from
`Settings()`, which reads the environment. `GetSettings` loads from the tiers as they are
and remembers them in the ghost `loaded`; `Edit` changes them afterwards.

### DriftDetection

`world[t]` is what root's podman runs on target `t`, changing under `ContainerChanges`.
`PodmanProbe` follows the three attempts of `podman.py:36-55`: the operator's own podman,
ssh as the ssh user, ssh with sudo. `Operators` are the three machines the command may run
on: without podman, with podman and no container, with podman and containers (`Local`).
`seen` and `failed` are ghosts: what the target ran each time it was asked (a probe or target may
be named twice), and whether a command failed. `Parsed` is what the probe makes of a container: ports are kept
only when the JSON names them `PublicPort`, which `PublicKey` says of a machine's podman; podman's own
name is `host_port`, so on most machines every service is observed without ports. `Reconcile` keeps the report together with what it was computed from.

`Drift` translates the comparison: `Items` is the difference as a set, `DefaultSeverity`,
`IgnoredBy`, `ExitCode`, and, for remediation, `Proposal`. `Patched` is not code of the
repository: it is what applying the JSON Patch to the topology does.

### ProbeSession

The initial states are the sessions: the command or the tool (`via`), the names given, the
targets, the entry points installed, and which tools the operator's machine has (`local`;
what it answers is attributed to the target). `Tasks` is the order of the two loops of
`cli.py:134-170` or of `run_all` and `run_selected`. Each core probe is an action, asking the machines in
`Tries` until one answers. Entry points are of four kinds: one that `works`, one whose
constructor takes no `host_node` (`bare`, which the registry can make and the command cannot
make again), one that did not load (`broken`), and one that `raises` in `run()`, which the
coordinator of the command catches (`FailPlugin`) and the tool does not (`Abort`).
`nodes` and `links` are functions from ids, `Merge` is the merge of fragments. `log` is a
ghost: what each run was told.

### DependencyGraph

One step per layer of the sort and per dependent the search looks at. `path` is both
`path` and `rec_stack` of the code. The search may visit services in any order; the code's
order is one of those. When the sort fails it falls back on the search, as `graph.py:147-154` does.

<a name="runs"></a>
## Runs

Ten runs must pass. Each of their properties also has a mutant: a bug in one definition
that makes TLC refute the property under the same configuration.

**`deploy_serial`** (`MCDeploySerial.cfg`, about 1 050 000 states): two deploy sessions, one
after the other, any two failures.

- `WriteAhead`: no version of a quadlet is on the node in any form that was not stored for
  its service before.
- `CompletedIsLoaded`: while a session runs, each service it counts as completed is loaded
  from its own topology's quadlet, although commands of earlier sessions still arrive late.
- `RecordsAreEarned`: a record appears only from a session whose whole plan succeeded, at a
  moment when every service of the plan is loaded from the recorded topology.
- `HistoryIsLog`: the history implements `DeploymentLog`. The refinement mapping `Log`
  reads a truncated file as the copy its writer holds; a writer that dies loses the log.
- `SessionsEnd`: every session ends.

**`deploy_parallel`** (`MCDeployParallel.cfg`, about 3 300 000 states): the two sessions overlap
freely, one failure, on a stock node. `RecordsFollowSuccess`: one failed service keeps all of a session's services
out of the history, whatever the other session does. What is missing from this list fails when sessions overlap:
`WriteAhead` (one session rewrites `docs/generated` between another's store and transfer),
`CompletedIsLoaded`, `RecordsAreEarned` and `HistoryIsLog` (lost update of `record`).

**`deploy_overlap`** (`MCDeployOverlap.cfg`, about 567 000 states): three sessions over one service overlap freely, one
failure. `UnreadableHasCause`: a history that does not parse is empty, because its writer is between
truncating and writing or died there; or it is garbled, and then two sessions were between truncating and
writing that file at once. Any other overlap, such as reading what another is about to replace, loses
records at most. Two sessions garble a file when their texts happen to differ in length; with the third, a history of fewer
records is also written over one of more.

**`deploy_and_rollback`** (`MCDeploySystem.cfg`, about 660 000 states): two deploy sessions and one
rollback take turns, one failure. `RollbackInstallsArtifact`: while it runs, nothing is
installed for its service that was not stored, whole or cut short, and from its own `mv` on nothing but the
artifact. More cannot be said: with three sessions and two failures, the late `mv` of an early session installs,
before the rollback has copied anything, what that session left in `/tmp` although a later one has replaced the artifact.
`CleanRollbackServes`: when nothing failed, success means the artifact is running. `RollbacksEnd`.

**`plan_execution`** (`MCPlan.cfg`, about 1 090 000 states): two rounds over two services and
two nodes, two failures, any topology and any knowledge of what exists.

- `RoundDelivers`: after success each service wanted here has its unit loaded from the
  topology's file, unless it was found already and nothing compared differs.
- `DeletedIsDown`: after success what was deleted is down, or a late command revived it.
- `WantedKeepRunning`: no step takes a wanted container down, although deletes stop what
  requires the deleted, with one exception. `_needs_update` does not compare dependencies, so a topology that drops a
  service and the dependency on it leaves the dependent's unit as it was (`OutOfDate`), and stopping the dropped service
  stops the dependent. Without such a unit only a container's own failure, or a late `stop`, takes a wanted one
  down. It rests on topologies naming what their services depend on (`schema.py:245`).
- `RoundsEnd`: every call of `execute` ends.

**`image_lifecycle`** (`MCImages.cfg`, about 941 000 states): three calls on two nodes, two
references, one change of the registry or the build context, three failures.

- `RememberedWasHeld`: what a cache answers, its node's ssh user once had under that
  reference. This is all that can be said: nothing invalidates the caches.
- `RetriesAbsorbFaults`: a pull of an image that was served throughout, and a build that
  came to its first attempt, fail only after `MaxRetries` disturbed attempts.
- `PullSettles`: after the last pull succeeded, the image is one served since that
  pull began, or one an earlier pull had left on its way.
- `CallsEnd`.

**`layered_settings`** (`MCSettings.cfg`, about 391 000 states): two keys of one section, each
unset, default, changed or invalid in each tier, sections left empty, two edits.
`PrecedenceUnlessReset`: the documented precedence, except for a value set back to its
default and a section left empty. That what is invalid or missing in the
settings in force was put there by a file or an override (`UnsoundWasStated`) is proved.

**`probe_session`** (`MCProbes.cfg`, about 2 210 000 states): one session of the `probe`
command or of `run_probes`, with each kind of third-party probe, no target (`--nodes ","`), one or two, two
failing commands, one change of the world.

- `TypeOK` includes that what was merged so far would load, whichever probes ran.
- `PortLinksAreExact`: there is a link for a port exactly if some run was told of it, and
  it is that of the last target that was.
- `ErrorsAreReported`: no error means that every probe was answered on every target, later
  if not at once, however often a name is given or registered.
- `MeshAddressSurvives`: a session of all probes keeps the address of every host seen in
  the mesh, because the probes that add their host without one come first on all targets.
  It takes third-party probes that add no host and are not named like one of the program.

**`drift_detection`** (`MCDrift.cfg`, about 1 850 000 states): one probe session over two targets
while their containers change twice, one failing command, then reconciles with four
topologies under two rule lists. The ports of one target's containers are read, those of the other's are not.

- `TypeOK` includes that a live state on disk always loads again.
- `ObservedWasThere`: every observed service was, whole, on the target it names when that target was asked: one container had
  the image, the manager and all the ports observed, though it may have had more ports.
- `CleanReportIsTrue`: an empty report without rules, of a session without failures, leaves
  out neither a declared service or port nor a service running under an undeclared name. That there is no undeclared
  port it says of the nodes in `PublicKey` only.
- `MissingIsExplained`: a service reported missing was on no target, or was hidden by the
  ssh user's own containers, or a command failed.
- `ExitZeroMeansPlaced`: exit code 0 means each service outside the rules was on its node with
  its image and at least its ports, even when probes failed.

**`dependency_graph`** (`MCDependencyGraph.cfg`, about 506 000 states): every graph over three
services and one unknown name. `LayersRespectDependencies`, `LayersAreEarliest`,
`SortIsExact` (returns exactly when no set of services waits for itself or an unknown one),
`CyclesAreReal`, `CyclesAreFound`, `EveryCallEnds`.

Two runs must find a violation: `rollback_restores_previous` and `proposals_restore_agreement`. Each checks what a doc or
comment says and finds that the code does otherwise; see [Findings](#findings).

<a name="bounds"></a>
### Bounds

All runs set `CHECK_DEADLOCK FALSE`: sessions end, nobody must start another, and the
bounded failures run out, so a model may stop where the real system goes on waiting.
That no session gets stuck half-way is `SessionsEnd`, `RollbacksEnd`, `RoundsEnd`, `CallsEnd`, `EveryCallEnds`.

- *Two services*, the second requiring the first in version 1 only: order, starting and stopping along a
  dependency, and a unit that keeps a dropped one need two. *Two versions*: old and new. Version 2 manages only service 1 by quadlet,
  which leaves a stale quadlet of service 2 in `docs/generated`.
- *Two sessions* (or rounds): a first, whatever it leaves behind, and one that finds it. Every property
  speaks of one session and what came before it or interferes with it. `deploy_overlap` has three (see there), over one
  service of one topology, since the histories of two services do not meet.
- *`MaxFaults`* 2 (serial), 1 (parallel, rollback), 0 or 1 (violations). A fault is one of: a
  lost, refused, timed-out or late command, a torn or lost copy, a container exiting, a
  session killed. One fault reaches each error path; two let a late command of a failed
  session meet a failure of the next. Violation runs use as few as the violation needs.
- *`Aliased`* is empty (stock node), `{1}`, or all services, according to how far a run
  has to get: without an alias no rollback gets past its first command.
- *Plans:* two nodes tell the node executed on from another; the versions of service 1
  differ in what is compared, those of service 2 in their dependencies only, which are not; two rounds let the second meet the late commands of
  the first; all names are aliased, since a stock node refuses every delete at its first command. Both
  quadlet files are there: a missing one is the error path of `CheckPorts`, reached by failures as well.
- *Images:* three attempts as in the code, and three failures to use them up; one
  reference is tagged from the other; one node's id is its host name and has `df` answer,
  the other's is not; three calls are a pull, a second pull or tag, and an inspect.
- *Settings:* two keys of a section are what a lost section needs, each with a valid, an
  invalid and a default value.
- *Drift:* two targets are what a merge needs; two configurations of a container differ in
  image and ports; the topologies agree with containers whose ports are read, not read, or other than declared,
  or with all services in place; one target has
  containers of the ssh user; `MaxMoves = 2` lets a container move between targets mid-probe; one selection
  names the podman probe twice, so that a second answer replaces a first.
- *Probes:* the mesh knows one server by the name of the command line and the other by another name; a port,
  a domain and a container each; a selection with a name given twice; two failures, for a tool missing here and on the target.
- *Graphs:* three services contain chains, diamonds cut short, self-loops, two- and
  three-cycles and unknown names. The theorems cover every size.

<a name="fairness"></a>
### Fairness

Weak fairness is on each session's `Progress` and each rollback's `RbProgress` alone. A started
session is one process that runs until it waits for a command, and every command it
waits for has a timeout (30 s for ssh, 60 s for scp, 300 s for a pull, 1800 s for a build by default). The same holds of a call of `execute` and of an image call, and `Progress` of those modules.
Nobody has to start a session or call, no failure has to
happen, no late command has to arrive. The graph functions are plain loops, so
`WF(Next)` says that a call is executed to its end. `DriftDetection`, `ProbeSession`
and `LayeredSettings` check safety only.

<a name="proofs"></a>
## Proofs

TLAPS has checked, for every value of the constants:

| Theorem | Statement | Assumptions |
|---|---|---|
| `DeployerProofs!TypeCorrect` | `Spec => []TypeOK` | `NodeAssumption`, `DeployerAssumption` |
| `DeployerProofs!UnreadableHasCauseHolds` | `Spec => []UnreadableHasCause` | the same, `StateAssumption` |
| `DeployerProofs!RecordsFollowSuccessHolds` | `Spec => RecordsFollowSuccess` | the same |
| `DeployerProofs!WriteAheadHolds` | `Parallel = FALSE => (Spec => []WriteAhead)` | the same |
| `DeployerProofs!CompletedIsLoadedHolds` | `Parallel = FALSE => (Spec => []CompletedIsLoaded)` | the same |
| `DeployerProofs!RecordsAreEarnedHolds` | `Parallel = FALSE => (Spec => RecordsAreEarned)` | the same |
| `DeployerProofs!HistoryIsLogHolds` | `Parallel = FALSE => (Spec => HistoryIsLog)`, a refinement of `DeploymentLog` | the same |
| `DeployerProofs!SystemTypeCorrect` | `SystemSpec => []SystemTypeOK` | the same |
| `DeployerProofs!SystemWriteAhead` | `Parallel = FALSE => (SystemSpec => []WriteAhead)` | the same |
| `DeployerProofs!RollbackInstallsArtifactHolds` | `Parallel = FALSE => (SystemSpec => RollbackInstallsArtifact)` | the same |
| `DeployerProofs!CleanRollbackServesHolds` | `Parallel = FALSE => (SystemSpec => CleanRollbackServes)` | the same |
| `PlanExecutionProofs!PlanReconciles` | a plan carried out leaves the identifiers of the topology | `NodeAssumption`, `PlanAssumption` |
| `PlanExecutionProofs!PlanSettles` | a plan against the topology itself is empty | the same |
| `PlanExecutionProofs!PlanTypeCorrect` | `Spec => []PlanTypeOK` | the same |
| `PlanExecutionProofs!RoundDeliversHolds` | `Spec => []RoundDelivers` | the same |
| `PlanExecutionProofs!DeletedIsDownHolds` | `Spec => []DeletedIsDown` | the same |
| `PlanExecutionProofs!WantedKeepRunningHolds` | `Spec => WantedKeepRunning` | the same |
| `ImageLifecycleProofs!TypeCorrect` | `Spec => []TypeOK` | `ImageAssumption` |
| `ImageLifecycleProofs!RememberedWasHeldHolds` | `Spec => []RememberedWasHeld` | the same |
| `ImageLifecycleProofs!RetriesAbsorbFaultsHolds` | `Spec => []RetriesAbsorbFaults` | the same |
| `ImageLifecycleProofs!PullSettlesHolds` | `Spec => []PullSettles` | the same |
| `LayeredSettingsProofs!SettingsTypeCorrect` | `Spec => []TypeOK` | `SettingsAssumption`, `InputAssumption` |
| `LayeredSettingsProofs!PrecedenceHolds` | `Spec => []PrecedenceUnlessReset` | the same |
| `LayeredSettingsProofs!UnsoundStated` | `Spec => []UnsoundWasStated` | the same |
| `ProbeSessionProofs!TypeCorrect` | `Spec => []TypeOK` | `ProbeAssumption` |
| `ProbeSessionProofs!PortLinksAreExactHolds` | `Spec => []PortLinksAreExact` | the same |
| `ProbeSessionProofs!ErrorsAreReportedHolds` | `Spec => []ErrorsAreReported` | the same |
| `ProbeSessionProofs!MeshAddressSurvivesHolds` | `Spec => []MeshAddressSurvives` | the same |
| `DriftDetectionProofs!TypeCorrect` | `Spec => []TypeOK` | `DetectionAssumption` |
| `DriftDetectionProofs!ObservedWasThereHolds` | `Spec => []ObservedWasThere` | the same |
| `DriftDetectionProofs!CleanReportIsTrueHolds` | `Spec => []CleanReportIsTrue` | the same |
| `DriftDetectionProofs!MissingIsExplainedHolds` | `Spec => []MissingIsExplained` | the same |
| `DriftDetectionProofs!ExitZeroMeansPlacedHolds` | `Spec => []ExitZeroMeansPlaced` | the same |
| `DependencyGraphProofs!GraphTypeCorrect` | `Spec => []TypeOK` | `GraphAssumption` |
| `DependencyGraphProofs!LayersRespect` | `Spec => []LayersRespectDependencies` | the same |
| `DependencyGraphProofs!LayersEarliest` | `Spec => []LayersAreEarliest` | the same |
| `DependencyGraphProofs!SortExact` | `Spec => []SortIsExact` | the same |
| `DependencyGraphProofs!CyclesReal` | `Spec => []CyclesAreReal` | the same |
| `DependencyGraphProofs!CyclesFound` | `Spec => []CyclesAreFound` | the same |

So every safety property that a passing run checks is a theorem: an invariant of any number of sessions, services,
targets and failures, or an action property of any step.

`NodeAssumption`: versions are not `None` or `Torn`, services are numbered by position,
`Needs` gives services for each service and version, with no other condition: it may have cycles. `DeployerAssumption`: `Quadlets` names services.
`StateAssumption`: no sequence of records reads as `Torn` or `Garbled`, and the two differ.
`ImageAssumption`: there are references, at least one attempt (three, unless a caller of the class says otherwise), and `None` is no image.
`ProbeAssumption`: what the command line and the entry points give are lists, of targets, names and probes; the list
of targets may be empty. `DetectionAssumption`: targets and selections are lists, a configuration is its image, ports and manager, `None` is none of them
and no machine, and there are no severity overrides, which neither command passes.
`GraphAssumption`: names are finitely many, since in-degrees are cardinalities, and
services are among them.

### Sessions, the history, rollbacks

**Type correctness of `Deployer`** is not inductive by itself: `Move` sends a command about `cur`,
which `TypeOK` allows to be `None`. `TypeInv` strengthens it to `SoundSession`: a session at
a service knows which, and one that has begun knows its version. `TargetNodeProofs` has one
lemma per kind of command; `ProgressTypeInv` has one step per action.

**`WriteAhead`.** The transfer sends what `docs/generated` holds when it runs, not what was stored.
The inductive invariant `WriteAheadInv` adds `StoredFirst` (what a session is about to
transfer is stored) and `OneAtATime` (no other session is there to generate anything in
between). The second is what `Parallel = FALSE` gives, and where the theorem ends when sessions overlap.
The rest is provenance: `EffectWithin` and its kin show that no command, on time, late or
half done, brings a version onto the node that was not there in some form.

**Records.** `Book` adds up the locals of a session: while nothing failed the plan is what is done, at hand and
to do, no service twice, so past the loop it is done; and a session that has not ended did not crash. That gives
`RecordsFollowSuccess` at the one step that writes a record, for sessions that overlap too.

**`UnreadableHasCause`.** Of an empty file the session to blame is the one that truncated it: nobody else moves it, it can only write, after which the file is not empty
(`WritingMends`), or crash, after which it keeps its service for good (`BlameStays`). Of a garbled one, `ClashInv` is the invariant: two sessions that are both to write a file are
noted in `clashed`, by the second of them (`WritingBegins`, `TruncatingClashes`), and stay noted (`ClashedGrows`); and a session that is to write and does not find
the file empty, as it left it, shared it. Only such a session can garble it.

**`CompletedIsLoaded`, `RecordsAreEarned`.** `Delivered` follows a service from its transfer on: the file in `/tmp`, then installed with
nothing left in `/tmp`, then loaded. What is in place stays (`InPlaceStays`): a late `mv` finds nothing to move, a late
daemon-reload loads what is loaded, and the session itself touches no service twice. `Keeps` of `TargetNodeProofs` says this of each kind of command.

**`HistoryIsLog`.** `CopyInv`: between reading and truncating, the writer's copy is what the file holds; between truncating and writing the
file is torn, so that what is written is the whole of it (`MendsWhole`, `WritesWhole`) and no history is ever garbled. `LogOf` then is the history at rest, and in a write the history with the copy in the file's place
(`LogAtRest`, `LogInWrite`), so that truncating is a stutter, writing appends, and a crash in between is `Lose`.

**Rollbacks.** `SystemInv` adds to `WriteAheadInv` that artifacts are stored (`ArtifactsAreStored`), that
rollbacks and sessions take turns (`TurnsAreTaken`), and that what a rollback has copied to `/tmp` is still the artifact, or
gone with a late `mv`, when its own `mv` comes (`ArtifactInTmp`). `CleanRollbackServes` needs `Restored`, which
follows the artifact through a rollback that nothing disturbed; and `KeptInv`: a rollback of a service without an artifact would
restore nothing and report success, so a service with a record must have an artifact. That is so because a session records what it
completed and completes only what it stored (`Kept`), and no artifact is ever taken away (`ArtifactsStay`).

### The other components

**Plans.** Three invariants strengthen the type invariant. `Book` is the bookkeeping of `execute`: actions to
do, at hand and done are disjoint parts of the one plan made from `wanted` and `found`, all of it as long as nothing failed, and `wanted` is well-formed.
`Delivered` follows a create or update from its transfer on: nothing of its service is left in `/tmp`, and what is installed
and then loaded is the topology's. A late command cannot undo that: a late `mv` finds nothing, a late daemon-reload
what is loaded already, and no other action of the plan is about the service. `Down` follows a delete from its `stop` on: its service is down or revived. No start of the plan can bring it back, whatever the loaded units require,
because creates and updates come before all deletes in the plan (`OrderAfter`): once a delete is at hand or done, nothing that is left to do starts anything. `WantedKeepRunning` needs `Book`: a
`stop` reaches what pulls in the deleted service (`RunningAfter`, `StaysUnlessPulled`). A wanted service whose unit, and those it pulls in, require nothing the topology has dropped pulls in
wanted services only (`PullsWanted`: what a unit pulls in is the least set with it that is closed under requirements, `PulledOn` and `PulledWithin`), and the deleted one is not wanted.

**Images.** `IInv` adds three parts to the properties. `CallInv` relates the attempts made to the disturbed ones: of an
image served throughout, each failed attempt was a disturbed one. `HeldInv`: `held` covers the ssh user's stores. `SinceInv`: what
late pulls will still store is covered by `since`, or, while a pull is under way, by what that pull has been offered.

**Settings.** `SettingsInv`: what is in force is `Load` of tiers that did not raise. The theorems are then
about `Merge`, key by key; the case of a lost section is the one the assumptions `Lost # Unset` and `Valid` are for.

**Probes.** `TasksAre` is about the two orders of a session: every task comes from a chosen probe, and tasks are in the order of
the probes chosen. Each of the six kinds of run *contributes* nodes, links and a log entry that go together
(`Contributes`: both ends of a link are there, a link for each port told, a named node for each host of the mesh), so the other proofs are about
one kind of step. `PortInv`: the last run told of a port made its link. `ErrorInv`: an unanswered run is counted as an error or has a later answered run of its probe on its target, `Answered`.
`MeshInv`: once a host of the mesh has been reported, nothing left to run adds a host without an address (`Ordered`, `Addressed`),
which is the order of the registry.

**Drift detection.** `DriftInv`: the probe session's file and the live state are `Sound`. `SaysTrue`: what they
say of a service is what the probe parses (`ParsedIs`, `ParseIs`) of one container that was on that target when it was asked. `SaysAll`: without failures, whatever any listing of a target without containers of its ssh user
had is in the document. `Reported`: a report is `Active` of `Items` of such a
document. The rest is about the operators of `Drift`: a missing service, a wrong node or image and a missing port are items (`Items`), and critical by `DefaultSeverity` (`Critical`), so exit code 0 excludes them.

**The sort.** `SortInv` says what the code's counters mean: `degree[s]` is the number of dependencies
not placed yet (`DegreesCount`), the queue holds exactly the ready services not placed
(`QueuedAreReady`, `ReadyAreQueued`, `QueueIsNew`), layers are disjoint, no service of a stuck set is ever
placed or queued (`StuckWait`), and the outcome agrees with the layers (`Outcome`). `Discount` is the arithmetic:
placing the queue lowers a count by the dependencies in it. When the queue is empty, the services not placed are
themselves a stuck set, which gives both directions of `SortIsExact`. `EarliestInv`: what is queued depends on something in the last layer.

**The search.** `SearchInv`: each service on `path` depends on the one before it, what is still untried is a
dependent, and the cycles found so far are cycles. `ClosedIsCycle` is the step that reports one. For `CyclesAreFound`,
`FoundInv`: the path names no service twice; and, as long as no cycle was met, who depends on a service the search has left was left
before (`Explored`), so no services that wait for each other have all been left: the last of them would have been met again from another.

### Only model-checked

Liveness: `SessionsEnd`, `RollbacksEnd`, `RoundsEnd`, `CallsEnd`, `EveryCallEnds`. It rests on fairness and `ENABLED`, which the
prover does not reason about. Induction over data is out of its reach too, as a scheme; where a proof needs the
greatest or least of some numbers, `LeastNatural` and `GreatestNatural` get it from well-foundedness of the subsets of a finite set.
The two violation runs are counterexamples and have nothing to prove.

Four statements changed when their proofs were attempted. `RollbackInstallsArtifact` used to claim the artifact for the whole rollback, which the bounds of its run are
too small to refute (see Runs). The ghost `seen` kept one listing per target, though a target named twice is listed twice. `WantedKeepRunning` had no exception as long as
the model had the same dependencies in every topology. And an
empty list of targets, which `--nodes ","` gives, was not among the initial states of `ProbeSession`.

<a name="findings"></a>
## Findings

Where the documentation, or a comment, and the code disagree:

| Where | What the text says | What the code does | Run |
|---|---|---|---|
| `deployer/executor.py:166` | deploying a changed image updates the service | an active service is never restarted | – |
| `deployer/executor.py:139` | start unless there is a port conflict | any port of any container of the ssh user counts as one; root's containers are never seen | – |
| `deployer/verify.py:58` | "Service is active" | asks for `<service>.container`, which is no unit | – |
| `cli.py:628` | an unhealthy deployment is rolled back at once | `TargetManager()` lacks an argument; `TypeError` | – |
| `deployer/rollback.py:77` | back to the previous healthy state | the artifact under `current` is the update's own | `rollback_restores_previous` |
| `probes/podman.py:94` | ports are observed, a differing port is mismatched | ports podman calls `host_port` are skipped: undeclared ones go unreported, declared ones are missing | – |
| `probes/podman.py:52` | a failing probe reports an error | a failing `sudo podman ps` is an empty list | – |
| `probes/podman.py:36` | probes run on the target | the operator's own containers are attributed to it | – |
| `probes/registry.py:178` | the first probe wins on name conflicts | `run_all` runs and reports the later one; the command runs the first twice | – |
| `probes/port.py:87` | extracts the process name | the pattern never matches | – |
| `live_state.py:165` | diffing is lossless | a port on two targets is one link, of the last | – |
| `remediation.py:129` | a proposal restores agreement | it changes the topology as if it were the live state | `proposals_restore_agreement` |
| `deployer/graph.py:147` | raises when there is a cycle | raises for an unknown dependency too, naming no cycle | – |
| `deployer/plan.py:132` | a delete removes the quadlet file | deletes have no `config_path`, so the file stays and daemon-reload generates the unit again | – |
| `deployer/plan.py:161` | image and ports are compared | ports are not, nor are dependencies: a delete can stop a wanted service | – |
| `deployer/plan.py:121` | the plan reconciles the state | a service that moves to another node is neither deleted there nor created here | – |
| `deployer/executor.py:115` | build or pull the image first | inspects only, and remembers by service whatever the image | – |
| `deployer/lifecycle.py:236` | build, inspect, deploy | builds fill root's store, inspect reads the ssh user's | – |
| `deployer/lifecycle_security.py:143` | true if there is space | `df -BG` is never parsed: builds are refused where df works | – |
| `cli.py:667` | commands for images | `TargetManager()` lacks an argument; `TypeError` | – |
| `config.py:189` | five tiers of precedence | a value equal to the default never overrides | – |
| `config.py:212` | a malformed file means defaults | an empty section takes its sub-model away | – |
| `config.py:241` | a singleton, loaded on first call | overrides of one call stay for all | – |

Findings without a run follow from one definition of the model, which says so. Nothing in the deploy
command orders services by their dependencies.

<a name="abstractions"></a>
## Abstractions

- A quadlet file is a version or `Torn`; the text of artifacts is rendering.
- `generate` is one step. It runs before the first remote command of its session.
- scp is one step of its session, which may end with the old file, part of the new or all of it.
  Two overlapping scp runs to one path do not interleave byte by byte, and a copy given up on does not go on later.
- `store_artifact` is one step, unless the session is killed in it.
- Plans are not empty: an empty selection visits no service and changes nothing but `docs/generated`.
- The ssh user's own containers are not part of the node's state: `CheckPorts` may be answered either way.
- In `PlanExecution` whether the quadlet files are in `output_dir` is fixed (`Rendered`), and the caller sees the
  containers that run on the node, and no others, when it plans.
- An attempt to pull or build is one step, and so is the wait after it. What a late attempt stores is what it set out with.
- The tiers of the settings are read in one step; numbers and types of fields are values that are valid or not.
- A node does not reboot. Containers can exit at any time.
- A topology that fails to load, and `--dry-run`, end a session before its first step.
- In `DriftDetection` podman and port probes stand for all probes; nodes and links, in `ProbeSession`, never
  meet a service there. A third-party probe that works contributes its host or nothing. Stopped containers count as observed, as in the code (`podman ps --all`).
- Reports are sets, identifier patterns of ignore rules are the sets they match, and
  `depends_on` is a set (a dependency listed twice is counted and discounted twice).

<a name="not-modelled"></a>
## Not modelled

- The `rm` of `_undeploy_service`: no plan has a delete with a `config_path`. The HTTP health check: no caller configures one.
- Duration, blast radius and approval of a plan: they are displayed, and decide nothing in the executor.
- `list_images` and `inspect_image`: they read and remember nothing.
- `schema.py`: field validation. Its cross-reference rules are conditions on the models' inputs.
- `report.py`, `deployer/integration.py`, `mcp_server.py` but for `run_probes`: rendering and read-only wrappers.
- The output formats of ss, dig, tailscale and incus, and addresses of containers.

<a name="plan"></a>
## Plan

Done, in this order because the deployer changes machines and the rest only reports:

1. `TargetNode`, `DeploymentState`, `Deployer`, with `DeploymentLog` as the abstract specification; type invariant and
   `WriteAhead` proved.
2. `DeploySystem`: rollbacks beside sessions.
3. `Drift`, `DriftDetection`: probe, reconcile, remediate.
4. `DependencyGraph` with its theorems.

5. `ImageLifecycle`: retries against late commands, and caches nobody invalidates.
6. `PlanExecution`: updates and deletes as the library offers them, with its theorems.
7. `LayeredSettings` with its theorems.
8. `ProbeSession`: the other probes, and the order they are merged in.
9. Theorems for every safety property of the passing runs; the refinement of `DeploymentLog`.

Next:

10. What overlapping sessions still guarantee between them: which of the guarantees survive when two sessions deploy disjoint plans of
   one topology, and what the history keeps when records are lost.
11. Lemmas about `Drift` on its own: that a report without rules is empty exactly for equal documents.

Runs are kept few. A violation run whose finding is plain from the code gives way to a new component's run,
and its finding stays.
