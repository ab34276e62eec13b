# A TLA+ model of the Camel K operator

Camel K runs Apache Camel integrations on Kubernetes. Its operator is a set of
controllers: each watches one kind of resource, keeps the progress of a resource
in its `status.phase`, and moves it from phase to phase. This directory models
the controllers in TLA+, checks the models with TLC on small instances, and
proves the safety properties that hold with TLAPS for instances of every size.

Four controllers are modelled: **Build**, **IntegrationKit**, **Integration** and
**Pipe**. The first is where most of the hard behaviour is: it shares in-memory
maps with goroutines, polls pods that outlive it, retries, enforces a limit and an
order, and has to survive restarts. The others form a chain above it, each of which
creates the resource of the next and follows its phase; all of them act on cached
copies of what they have themselves written.

## Inventory

| Part | State it keeps | Operations | Talks to |
|---|---|---|---|
| Build controller (`pkg/controller/build`) | `Build.status` (phase, start time, failure and attempts); `runningBuilds` and `routines`, maps of the process | initialize, schedule, monitor, error recovery, error; the build goroutine | the API server (patches), its cache (reads), builder pods |
| Build order (`build_monitor.go`, `build_types_support.go`) | none | `canSchedule` and the queries on Build lists | lists Builds without the cache |
| Builder (`pkg/builder`, `pkg/cmd/builder`) | a build directory | runs the steps of a task | Maven, registries; the status of the Build |
| IntegrationKit controller (`pkg/controller/integrationkit`) | `IntegrationKit.status` | initialize, build (create the Build, follow it), monitor, error | creates and deletes Builds, reads their phase |
| Integration controller (`pkg/controller/integration`) | `Integration.status` | platform setup, initialize, build, build-kit, build-complete, monitor | looks up or creates kits, creates Builds, watches Deployments, CronJobs, Knative services and pods |
| Pipe controller | `Pipe.status` | initialize, monitor | creates an Integration, copies its phase |
| IntegrationPlatform and CamelCatalog controllers | their `status` | initialize, create, monitor | create catalogs |
| Synthetic Integrations | none | create, delete | informers of Deployments |
| Operator lock | a lease | acquire | the API server |
| Traits, digests, kamelet repositories, CLI, generated clients | none between calls | | |

The behaviours that are hard:

* *Outdated reads.* `Reconcile` reads a Build from the informer's cache and
  patches the API server with a merge patch that carries no resource version. The
  patch always applies, also to a Build that has moved on, and also to another
  Build of the same name.
* *Goroutines.* The worker and the build goroutines share `routines`,
  `runningBuilds` and the Build they were given. No lock covers two accesses.
* *Restarts.* The maps are lost; builder pods are not.
* *Requests that fail* between the steps of a handler.
* *Nothing wakes a controller up* but an event that passes its predicate (a
  change of phase) or a requeue: a Build nobody requeues is forgotten.
* *Deadlines* that are noticed by polling, and signals that are not always heard.

What each part has to guarantee:

* build order: the limit and the order hold, Builds never all wait for one another;
* routine strategy: the maps agree with the goroutines, slots come back, Builds end;
* pod strategy: an attempt never takes over the pod of another, Builds end, the
  deadline holds;
* error recovery: every retry is counted, and there are at most `AttemptMax`;
* kit: what is Ready was built from the specification its digest stands for, is not
  built again without a reason, and every kit ends;
* Integration: what runs is the image that the status names, the digest goes with
  the image, and every Integration settles;
* Pipe: whenever the controller rests, the Pipe and its Integration agree.

## Modules

| Module | Models | Extends |
|---|---|---|
| `BuildOrder` | `Monitor.canSchedule`, `HasRunningBuilds`, `HasScheduledBuildsBefore`, `HasMatchingBuild`, `compareBuilds`, as operators on a set of Builds | |
| `BuildQueue` | the queue those rules are for, with Builds of arbitrary attributes and no failures | `BuildOrder` |
| `BuildController` | what both strategies share: the Builds in the API server and in the cache, the work queue, patches, schedule, error recovery | `BuildOrder` |
| `RetryBudget` | the promise about retries, an abstract specification | |
| `BuildLife` | the life of a Build as its users may rely on it, an abstract specification | |
| `KitLife` | the same for an IntegrationKit | |
| `BuildRoutine` | the routine strategy: initialize, monitor, the goroutine `runBuild` | `BuildController` |
| `BuildPod` | the pod strategy: initialize, monitor, the builder pod | `BuildController` |
| `IntegrationKit` | one kit, its Build, the platform and the catalog it waits for | |
| `Integration` | one Integration, its kits or its Git build, its Deployment, the users of `kamel` | |
| `Pipe` | one Pipe and the Integration it creates and replaces | |
| `MCBuildQueue`, `MCBuildRoutine`, `MCBuildPod`, `MCIntegrationKit`, `MCIntegration`, `MCPipe` | constants for TLC | |
| `BuildControllerProofs`, `BuildRoutineProofs`, `BuildPodProofs`, `BuildPodOwnerProofs`, `BuildQueueProofs`, `IntegrationKitProofs`, `IntegrationProofs`, `PipeProofs` | theorems | |

The four controllers meet at the API server only, so each is a module of its own
that sees the one below through a specification that the one below implements:

* `BuildLife`: a Build goes from Waiting (all phases before Running) to Running and to
  an end; a failure leads back to Waiting or to Error; what has ended stays so. Once the
  operator was *disturbed* (it has acted on an outdated copy, or, with goroutines, the
  limit is voided) a Build may slip to any other phase. `BuildRoutine` and `BuildPod`
  implement it (`KeepsBuildLife`). The Build of `IntegrationKit` and of
  `Integration` takes exactly its steps: `BuildWorks` is a step `Work`, `BuildSlips`
  a step `Slip`, which is counted as a mishap.
* `KitLife`: a kit is New, Building, Ready or Error. It goes forward, an end may be
  overturned by what comes late, and only an edited kit starts over. `IntegrationKit`
  implements it (`KeepsKitLife`), the kits of `Integration` take its steps
  (`KitProgress`, `KitOverturned`, the latter a mishap).

That Builds and kits end at all is `BuildsFinish` and `KitFinishes`; the modules above
assume it as fairness. `Pipe` has an Integration in any phase (`IntegrationChanges`).

### How the state corresponds to the code

* `api[b]` is the Build on the API server: its phase (`"None"` is the empty one,
  `"Absent"` means that there is no such Build), `attempt`
  (`status.failure.recovery.attempt`, or -1 without a failure), `started` (is
  `status.startedAt` set) and `created` (creation timestamp, which also tells two
  Builds of the same name apart). `cache[b]` is the copy of the informer.
* `events` holds the Builds with a change the informer has not delivered yet and
  that passes the predicate of the controller; `queue` the keys that are ready,
  `timers` those that will be (`RequeueAfter`, or the delay after an error). The
  controller has one worker, so a handler is one step, with one exception: after
  `go action.runBuild(...)` the monitor action goes on while the goroutine runs,
  hence `StartRoutine` and `MonitorStarted` are two steps.
* `runningBuilds` and `routines` are the maps of the same name.
* `gos[r]` is a goroutine: in one of its tasks (however many there are), before
  the final update, or before its deferred `routines.Delete`. Its `view` is the
  phase in its own copy of the Build, against which it computes its patches.
* `pods[b]` is the builder pod named after `b`, with the Build that owns it;
  `expired` are the Builds whose deadline has passed.
* `voided` (routine), `forgotten` and `revived` (pod) are history variables, which
  no action reads. `voided` becomes true when the code leaves the conditions under
  which `MaxRunningHolds` is stated. `forgotten` holds the Builds whose slot a
  restart has dropped and the monitor action has not counted again (or whose pod
  was created by a request that got no answer). `revived` holds the Builds that
  the monitor action, reading a copy that still says Pending, has set to Running
  after they had ended.
* `count`, `staleReads`, `podDeletions` count what the bounds limit.

`MergeFrom(stored, base, target)` is a merge patch: it writes the fields on which
`base` and `target` differ. `Valid` is the one rule of the CRD that can refuse such
a patch: the fields of `status.failure` are required, and a patch of an existing
failure carries only the attempt. A request can fail (`PatchFails`), which makes
`Reconcile` return an error and the key come back, or find no Build
(`PatchNotFound`), which `Reconcile` takes as done.

`Update` is the common end of `Reconcile`: patch, then requeue a Build in
Scheduling or Failed, or (pod strategy) in Pending or Running.

In `BuildPod` the cluster is external: `PodScheduled`, `ContainerStarts`,
`ContainerEnds`, `PodRemoved`, `PodCollected` (garbage collection by owner),
`DeletePod`. Deleting a pod takes effect at once unless it is on a node, in which
case it terminates first. `SIGTERM` reaches a running container only, and is sent by
a shell of the container: `Custom` are the Builds with a task that runs a user's image,
which may lack one (`SignalRefused`) or not heed the signal. The annotation that
remembers the timeout is modelled because its patch is a request like the signal: when
the pod has gone since it was read, either returns NotFound, which `Reconcile` takes for
a deleted Build (`PodVanishes`); every other error is retried (`PodRequestFails`).
Conditions, images, digests and metrics are left out. A panic of a handler is recovered
by the controller runtime (`MonitorPanics`); a panic of a goroutine is not, and
takes the operator down (`RoutinePanics`).

#### IntegrationKit, Integration and Pipe

* Each of these modules has one resource of its kind, since nothing is shared
  between two of them but kits, of which `Integration` has several. `kit`, `it` and
  `pipe` are what the API server stores; `seen`, `buildSeen`, `kitsSeen` and `itSeen`
  what the informers delivered, each behind by as much as it likes. A handler reads
  only these. `queued` covers the work queue and every delay or backoff that ends
  in it. `events` are the undelivered changes that pass the predicates.
* `Update` is the patch at the end of `Reconcile`. In both controllers it carries
  the digest of the specification that was *read*, whether the handler has compared
  it or not.
* A digest is told by the specification it is computed from; `IntegrationKit` allows
  two specifications with one digest. An image is told by what it serves: the
  specification of the Build that made it (`BuiltOf`, `Need`), or the specification
  that names it (`Given`).
* `kits[k]` (`Integration`) is New until its traits have run: `statusMatches` compares
  the runtime version, which is only set then, so a new kit matches nothing.
* `deployment` is the image of the Deployment, `pods` what `monitorPods` finds.
  The Deployment is written by the traits in the middle of a handler, before the
  patch of the status; a patch that fails leaves it applied (`MonitorPods`, `TraitsFail`).
* `TraitsFail` is any trait, or post action of one, that returns an error: Reconcile
  then records `InitializationFailed`, and only a change of the digest leads out. The
  gc trait deletes the Deployment of an earlier generation when no new one is applied
  (`CollectsGarbage`).
* `Malformed` and `Rejected` are the specifications (`Integration`: the needs) that the
  builder trait does not accept. It returns an error for the first, each time and without
  a word in the status (`BuilderTraitFails`). For the second it sets the kit to Error and
  returns without tasks (`RejectKit`); a Build without tasks has no strategy, and no
  action handles it (`HasTasks`).
* The conditions are a list, which a merge patch replaces when any of them changes, one
  that is not modelled included (`Write`). A kit may have an image in any phase (`built`),
  and an Integration takes it whatever the phase is (`WithKit`).
* A specification of a Pipe is the set of its settings, the annotations that name an
  operator or a profile included. `Translations` gives the Integrations that may be made
  from it: none if it is malformed, more than one if its bindings list the filters of a
  Knative broker in the order of a Go map. An Integration is up to date when it has the
  settings that are expected (`DeepDerivative`: it may have more) and, to the last option,
  the traits that the Pipe configures (`SameTraits`).
* `overtaken` (`IntegrationKit`) is a history variable: a build was under way of another
  specification than the one the kit has, because the kit was edited meanwhile, or because
  a Build of an earlier specification was taken up again.

## Runs

| Run | Instance | Checks |
|---|---|---|
| `routine_one` | one Build, created twice, deleted once; one outdated read, failure, restart; two attempts | `TypeOK`, `RoutinesAreAlive`, `RetriesAreCounted`, `KeepsBuildLife` |
| `routine_two` | two Builds, one slot, three goroutines, one outdated read | `TrackedIsCounted`, `MaxRunningHolds` |
| `routine_live` | one Build of any number of tasks, a deletion, a restart, an outdated read | `NoneLeftRunning`, `BuildsFinish` |
| `pod_one` | one Build, created twice, the second time with a custom task, deleted once; pod deletion, outdated read, failure, restart | `TypeOK`, `NoLeftoverPod`, `PodsHoldSlots`, `RetriesAreCounted`, `SucceedsByItsOwnPod`, `KeepsBuildLife`, `BuildsFinish`, `DeadlineIsEnforced` |
| `pod_two` | two Builds of one layout in the sequential order; pod deletion, outdated read, restart | `OneAtATime` |
| `queue` | three Builds, all attributes, all three orders | `NoStandstill`, `SameImageOnce` |
| `kit` | five specifications: two to build, one naming an image, one malformed, one rejected; one edit, two mishaps (outdated read, Build deleted or taken up again, lost platform or catalog), any number of restarts | `TypeOK`, `ReadyIsBuilt`, `RebuiltOnlyWhenChanged`, `KeepsKitLife`, `KitFinishes` |
| `integration` | a kit, a Git build and an image to switch between, a malformed kit and Git build, a rejected Git build; two kits; one request (edit, rebuild, undeploy, deletion of a kit), one mishap (outdated read, error, restart, a kit or Build whose end is taken back) | `TypeOK`, `RunningIsDeployed`, `InStepWhenCompared`, `Settles` |
| `pipe` | five Pipes with a broker as source: malformed, plain, with another setting, with a trait of its own, with two filters; four changes (edits and phases of either resource, deletions, failures, restarts) | `TypeOK`, `AgreeWhenQuiet`, `PipeFollows` |

Three runs show where the code does not do what it says of itself.
Each checks one property and TLC finds a counterexample:

| Run | Says | Shows |
|---|---|---|
| `routine_leak` | `monitor_routine.go:94`: "the monitor action is idempotent" | the goroutine ends, giving its slot back, before the handler counts the build: the slot is lost |
| `routine_lost_update` | `monitor_routine.go:84`: recovers when "the build status update fails" | the final update fails, nothing requeues the Build, it stays Running |
| `pod_terminating` | `initialize_pod.go:61`: "wait for the pod to be deleted" | nothing wakes the Build up when the pod is gone |

What the passing runs leave out, because the code has no way out of it:

* `SlotLeaked` (`BuildsFinish`): the slot of a Build that was deleted under way is
  never given back, and its successor may wait for itself. `Forgotten` (pods): the
  case of `pod_terminating`.
* `Unpolled` (`BuildsFinish`, `DeadlineIsEnforced`): the pod goes away between the read of
  the monitor action and its request. `build_controller.go:194` says of NotFound that it
  "means the Build was deleted mid-reconcile", but it is the pod: nothing is requeued, no
  pod is watched, and the Build stays Pending or Running until the operator restarts.
* `CustomTaskRuns` (the same): the image of a custom task lacks the shell that sends the
  signal, or does not end on it. Only an eviction or a user ends such a pod.
* A builder pod that the cluster never schedules has no container to signal and stays
  past its deadline: `DeadlineIsEnforced` is checked for clusters that schedule.
* `overtaken` (`ReadyIsBuilt`): an edit during a build is recorded with the image of
  the specification before it.
* `KeepsBuildLife` (routine) promises nothing of the phases once the worker has acted on
  an outdated copy or the limit is voided. A Build that is created again and admitted while
  the goroutine of its predecessor is alive voids it: it may get the result of either, also
  after it has ended.
* `Stuck` (`KitFinishes`): a Build that a user deletes while its kit is BuildRunning is an
  error that is retried for ever. So is the error of a malformed builder trait in
  BuildSubmitted, as long as the kit is not edited. A kit that was rejected and is edited
  then may find the Build without tasks that was created for it, which neither runs nor ends.
* `NeverBuilt`, `NeverMonitored` (`Settles`): the same of a kit that an Integration waits
  for, and of a Git Integration, which stays BuildSubmitted, or BuildRunning when its Build
  has no tasks; and an Integration whose pods have no integration container, or a health
  report that cannot be decoded, stays Deploying. An edit, or pods that can be read, lead
  out of it, but for the Build without tasks.
* `Steady` (`PipeFollows`): a Pipe that configures the knative trait and has a Knative
  broker as source gets filters added to that trait, so it is never the same as in the
  Integration; with two filters or more, their order differs from one translation to the
  next. The Pipe is reset to the phase None again and again.
* `Lost` (`RunningIsDeployed`, `Settles`): the status was emptied by `kamel rebuild`
  while a reconciliation was at work, or a trait failed while the kit was chosen.
  The Integration is in a monitored phase without a kit and without an image, and the
  monitor action fails before it looks at the digest. `KitDeleted` is the same with
  a kit that is gone.
* `InStepWhenCompared` names the phases in which the digest is patched without
  having been compared: there an edit is noted and not built. A handler of a new
  Integration is one of them. This takes five requests, so no run reaches it: a rebuild
  while the kit is chosen, whose late patch writes the kit into the emptied status; an
  edit to a Git build, which fails, and one to a given image; a second rebuild, after
  which a trait that fails late writes that image without a phase or a digest; another
  edit, and platform setup adds its digest to the image. The attempt to prove a stronger
  property has shown this case.

A restart makes the limit fail too: `runningBuilds` is empty while pods run on,
and a queued Build that is reconciled before them is admitted. `MaxRunningHolds`
is therefore stated up to a restart (`voided`), and `PodsHoldSlots` for the pods
the monitor action has seen since. Two outdated reads in a row can set a Build
that has failed to Running again, if its pod is deleted between them: `OneAtATime`
leaves such a Build out (`revived`), since it never passed the schedule action.

**Bounds.** `MaxCreations`, `MaxDeletions`, `MaxStaleReads`, `MaxFailures`,
`MaxRestarts` and `MaxPodDeletions` bound what the environment does in a
behaviour; `AttemptMax` is 0 or 1 instead of 5. Everything the properties are
about takes one Build and its successor of the same name, or two Builds, one
restart and one outdated read: the counterexamples above need less. `pod_two` was also
checked with two outdated reads, which revive a Build, in 4.3 million states. Three
goroutine identities allow two goroutines of one name and one of another.
`MaxStaleReads` bounds the *outdated* reads only; the informer may lag for as long
as it likes between them. `MaxMishaps`, `MaxEdits`, `MaxRequests` and `MaxChanges`
are the bounds of the upper controllers. One edit suffices there: a second one meets the same states,
with other names for the specifications (the inductive invariants were also checked
with two). Four changes in `pipe` let an edit of the Pipe, one of the Integration, a
failure and a restart meet. `kit` starts with a specification to build, one that names an
image or a rejected one; the other one to build and the malformed one come by an edit
(`MCInit`). `integration` starts with a kit, a Git build or a malformed Git build; an image,
a rejected Git build and a malformed kit come by an edit (`MCInit`); `MaxKits` is 2, and `KitsExhausted` leaves out
the behaviours that would need a third. Deadlock checking is off where a system with
nothing left to do stops.

**Fairness.** The informer delivers, timers fire, the worker serves every key of
its queue (the work queue is first in, first out), a goroutine makes progress
(its tasks have a deadline). `Retry` is strongly fair: the backoff is one second at
most and a Failed Build is looked at every five. For pods: the clock goes on,
the garbage collector and the removal of terminating pods work, and the builder's own
container ends when it was sent SIGTERM; nothing is assumed of a custom task. `FairClusterSpec` adds that pods are scheduled and
their containers start, which the operator cannot know.

For a kit: the watches deliver, the worker serves its queue, the platform and the
catalog get ready. Builds start and end, which is `BuildsFinish`. The strong fairness
on seeing a Build Running says that builds are not always shorter than the lag of the
cache: one that is gets deleted and built again, for as long as this goes on. For an
Integration: the same, with kits and Builds that end unless they are malformed or have no tasks. Nothing is assumed of users, of
pods, of failures or of restarts. A Pipe needs the watches and the worker only.

## Proofs

All proofs are checked by TLAPS and hold for every set of Builds, every value of
the bounds, any order strategy and any attributes.

* `BuildRoutineProofs!TypeInvariant`, `BuildPodProofs!PodTypeInvariant`:
  `TypeOK`. The bound `attempt <= AttemptMax` is the part that is not obvious: it
  needs that a patch computed from an outdated copy writes one more than what
  *that copy* held.
* `RetriesCounted` (routine) and `PodRetriesCounted` (pod): both strategies
  implement `RetryBudget`. The argument is the
  inductive invariant `AttemptsInStep`: a cached Build is behind the stored one by
  at most the one attempt that its own Failed phase has led to, unless the stored
  one is a new Build. Repeating an action from the same outdated copy then writes
  the same attempt again, and a copy from a deleted Build is refused by the CRD
  or writes no attempt.
* `RoutinesAlive`, `TrackedCounted`: the maps agree with the goroutines. Each step
  is classified (`MapStep`) by what it does to `routines`, `runningBuilds` and
  `gos`, and the invariant is proved once per class.
* `MaxRunning`: `MaxRunningHolds`. The set that stays within the limit is not
  `runningBuilds`, which a late monitor action makes too large, but `UnderWay`: the
  Builds that are Pending or have a goroutine in a task. It lies within
  `runningBuilds` when the schedule action counts that (`Limited`), because a Pending
  Build holds a slot and has no goroutine, a Build has one goroutine at most, and the
  worker cannot have read a later phase of a Pending Build (`PendingIsRecent`).
* `RoutineKeepsLife`, `PodKeepsLife`: `KeepsBuildLife`; `RoutineImplementsLife` and
  `PodImplementsLife` add the initial states, so that both strategies implement
  `BuildLife` for each Build. Every action is `Orderly`: it takes each Build on in order,
  or acts on an outdated copy, and then does not make a Build exist that did not. The
  worker reads what is stored or something outdated; the goroutine is the exception, since
  it keeps its own copy. `NotOver` says that, until the limit is voided, a goroutine with
  its result still to write belongs to a Build that has not ended and that the worker does
  not take for failed; `ResultKnown` says that what it writes is an end. A Build that is
  deleted and created again inherits the goroutine, and the invariant, until it is admitted.
* `NoPodIsLeftOver`, `OwnPodSucceeds`: `NoLeftoverPod` and `SucceedsByItsOwnPod`.
  Neither is inductive, because the worker acts on the cache. `OwnPods` adds what
  relates the cache to the pod: a Build that is *seen* queued has no pod either, a
  queued Build is not seen Pending, and an admitted Build that is seen Pending is
  not the one it replaces. Every step of the worker is then described by
  `BuildStep` and `PodStep`, from which the invariant follows once and for all.
* `SlotsAreHeld`: `PodsHoldSlots`, which needs `OwnPods` where the schedule action
  renews a deadline: the Build has no pod then.
* `SequentialOneAtATime`: `OneAtATime`. A Build comes under way by `SchedulePod`
  only, and what that lists without the cache holds no other Build of the layout
  (`SequentialAdmits`).
* `QueueNoStandstill`, `QueueSameImageOnce`: of any set of queued Builds one is
  minimal for the order (by creation time and name; for the dependencies order by
  the number of dependencies first), and that one is admitted.

* `KitReadyIsBuilt`, `KitRebuiltOnlyWhenChanged`: a reconciliation patches a kit that
  may be ahead of the copy it has read. The inductive invariant says by how much: in
  phase (`PhaseAhead`), in digest and image (`StatusAhead`) and, as long as there was
  no build under way of another specification, by the Builds made meanwhile (`Unovertaken`):
  all of them are of the specification that the kit has.
* `KitKeepsLife`: `KeepsKitLife`, the implementation of `KitLife`. `PhaseAhead` bounds what
  an outdated copy can write; that a kit does not start over without an edit needs
  `Unedited`: until the first edit the kit and its copy have one specification, a recorded
  digest is the one of that specification, and a Ready kit that names an image has it.
* `RunningIsAlwaysDeployed`: `RunningIsDeployed`. Only the monitor action writes
  Running, after the Deployment was applied, but it writes onto an Integration that may
  have moved on, and applies the Deployment of one that has. The invariant adds that
  the stored kit and image are the ones that were read, what the traits make of them,
  or nothing (`ReadOrForgotten`); that an Integration that got Running since it was
  read has had its Deployment applied (`AppliedBefore`); that a given image has been
  taken over before (`GivenImageSeen`, `GivenImageStored`); where a digest comes
  from (`DigestIsRead`); and that a Running Integration has the condition that names its
  Deployment (`RunningHasController`), so that the gc trait does not delete it. Every step either leaves Integration and Deployment alone,
  delivers, leaves the Integration not Running, or deploys.
* `StaysInStepWhenCompared`: `InStepWhenCompared`. The step that could break it is the
  patch of a handler that has found the digest changed: it writes the new digest, and
  clears the image only if the copy it has read had one. `ComparedFirst` says that the
  stored image is then the one that was read, or none. For the other steps
  `ImageAndDigest` sums up what a patch does to the two fields.
* `PipeAgreesWhenQuiet`: what has no event under way has been delivered (`Fresh`), so
  the last reconciliation has read both resources as they are. This holds for any
  translation, also one that varies: a Pipe that is reset for ever is never at rest.
* `KitTypeInvariant`, `IntegrationTypeInvariant`, `PipeTypeInvariant`: `TypeOK`.

`BuildControllerProofs` holds the lemmas on the shared actions. The assumptions
are those named in the modules: Builds are a finite set of numbers, bounds are
naturals, `MaxRunningBuilds` is not 0; specifications and digests are numbers other
than 0, which stands for none; the specifications of a Pipe and their translations are sets
of settings.

Only model-checked: liveness (`BuildsFinish`, `NoneLeftRunning`, `DeadlineIsEnforced`,
`KitFinishes`, `Settles`, `PipeFollows`), which needs fairness and is out of the reach of
the prover. For the same reason the two abstract specifications are about safety: that a
Build or a kit ends is assumed as fairness above and checked as a property below.

## Not modelled

The modules stand for some 4400 lines: the four controllers, the parts of the traits
and of the client that change the state they work on, and the API types they read.
The repository has 76000 lines of implementation, and most of the rest has no
behaviour that a state machine could add to:

* generated code: deep copies, clients, informers, listers and schemas, a quarter of
  the lines;
* the forty traits: each shapes Kubernetes resources in one sequential pass over one
  Integration and keeps nothing between two passes. What they do to the state of the
  controllers is modelled: the Deployment, the image, and that any of them may fail;
* the command line client: input and output, but for `deploy`, `undeploy` and `rebuild`,
  which write a status that the operator writes as well;
* the content of builds (Maven, images, registries), the translation of Pipes, sources
  and bindings, which are functions of strings, and digests, which are hashes;
* metrics, events and logs, which nothing reads back.

Of the modelled controllers: layers of incremental images; Integrations that import a
Deployment, name their kit or are switched to a kit of higher priority; CronJobs and
Knative services, which differ from Deployments in how readiness is read. The monitor
action of an Integration also tests whether its kit has failed: the comment says "If
integration is in error and its kit is also in error", the condition tests for a phase
*other* than Error, and an Integration that got there has recorded that its kit is
available. The early return is left out. The
election of the operator's lock is the client library's. The pod phase `Unknown` is not
produced by current clusters. The controller runtime, the informer, the API server and
the cluster are modelled as far as the code relies on them, and marked external.

## Plan

1. Synthetic Integrations: informer callbacks that create and delete Integrations,
   without a work queue and without retries.
2. CronJob and Knative services in the monitor action.
3. IntegrationPlatform and CamelCatalog as modules of their own, in place of the two
   variables of `IntegrationKit`.
4. `Integration` as an abstract specification for `Pipe`, which so far takes any change
   of the phase from it.
