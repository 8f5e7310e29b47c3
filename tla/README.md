# opm-operator in TLA+

A model of the reconcile logic of opm-operator, checked with TLC and, for its
central invariants, proved with TLAPS. The operator renders CUE modules into
Kubernetes objects, applies them, prunes what a render no longer contains, and
keeps the cluster's *Platform* (the catalogs every render is made against) in step
with what users subscribe to and what provider modules claim.

Paths below are relative to `src/`.

## 1. The system

| Part | Code | State it keeps | Operations |
|---|---|---|---|
| ModuleInstance reconcile | `internal/reconcile/moduleinstance.go`, `ownership.go`, `converted.go` | in `status`: `instanceUUID`, `previousInstanceUUID`, `inventory`, `lastApplied*`, conditions | render, plan identities, guard, drift, restore, store identity, apply, prune, deferred commit |
| Identity plan | `internal/reconcile/identity.go` | none (a function of two recorded identities and the rendered one) | `planIdentities`, `store`, `keepsNoOp` |
| Apply, prune, deletion plans | `internal/apply` | the objects in the cluster | live reads, verdicts, pinned apply, forced recreate, preconditioned DELETE |
| Deletion cleanup | `internal/reconcile/deletion.go` | the finalizer and the reason of `Ready` | plan, delete, wait, release, orphan |
| Render slots | `internal/render/slots.go` | a channel of N tokens, the set of running keys | `Run`, `Acquire`, abandoned renders |
| Platform store and layout | `internal/platform` | the generated record, lease counts, package directories | `Lease`, release, `SetGenerated`, `Write`, `Prune`, `Reset` |
| Platform reconcile | `internal/controller/platform_*.go` | the Platform's status | list claims, compare identity, generate, swap, build, gate, publish, prune |
| Claims | `internal/controller/transformerregistration_*.go` | `accepted`, `active`, `observedGeneration`, the finalizer | judge, accept, refuse, defer, hold, activate, guard the removal |
| Shrink rule | `internal/shrink`, `internal/reconcile/withhold.go` | none | withhold a claim that drops a demanded contract |
| ModulePackage reconcile | `internal/reconcile/modulepackage.go` | as ModuleInstance, and the directory an artifact is unpacked in | gates, `dependsOn`, resolve, fetch, render, apply, health, deferred commit |
| Source artifacts | `internal/source` | none | resolve a Flux source, fetch its artifact |
| Health, counters, backoff | `internal/reconcile/health.go`, `backoff.go`, `internal/status` | the `Healthy` condition, failure counters, `nextRetryAt` | verdicts and requeue intervals |
| Watches | `internal/controller/moduleinstance_controller.go`, `modulepackage_controller.go` | the workqueues | predicates and maps from events to objects |

How they interact. Instances and claims *lease* the platform from the store while
they render or judge, and so do packages; the Platform reconcile publishes a new record and prunes the
directories no lease keeps. A provider's instance applies a claim as one of its
rendered objects; the claim's reconcile looks at that instance's inventory and
readiness, and, once the claim is active, wakes the Platform. Instances write the
contracts they demand in their status; the shrink rule and the claim's removal guard
read them. A package follows the artifact of a Flux source and waits for the packages it
depends on. Everything else is the API server: other users, other instances, garbage
collection and the operator's own earlier reconciles change what a reconcile has read.

What is hard here:

- a reconcile is a sequence of independent requests and can end after any of them (a
  failed call, a conflict, a panic, a restart). Nothing but the object's status says
  what was done;
- what was read and judged may be replaced before the write that relies on it;
- the status commit is a merge patch of the fields a reconcile changed, onto an
  object that may have been edited or recreated since;
- caches lag, and an event that no predicate lets through is never repeated;
- a render cannot be cancelled: it may outlive the call that waits for it;
- a directory is read without a lock while the Platform is regenerated;
- an outcome waits for a backoff, an interval or a half-hour recheck, and only an event
  ends the wait early.

What makes each part correct is listed with its runs in section 3, and every hazard
with its line of code in `PROJECT.json`.

## 2. The modules

| Module | Models | Notes |
|---|---|---|
| `Ownership` | what a live object carries, and the verdicts `CanApply` and `CanDelete` | external: the library's `opm/k8s/ownership`, from how `internal/apply` asks it and the cases its tests pin |
| `Identities` | `identity.go` | a pure algorithm, shared by the two next modules |
| `ModuleInstance` | one instance's reconcile against the objects of the cluster | `MCModuleInstance` has the checked specs, `ModuleInstanceProofs` the theorems |
| `DeletionCleanup` | the reconcile of a deleting instance or package until the finalizer is off, and what wakes a stalled one | `MCDeletionCleanup`, `DeletionCleanupProofs` |
| `RenderBound` | what the render pool promises | the abstract specification |
| `RenderSlots` | the render pool, `Run` and the render goroutines | implements `RenderBound`, shown in `RenderSlotsProofs` |
| `InstanceLifecycle` | the gates before the pipeline, the finalizer, the render skip, the instance and Platform watches | `MCInstanceLifecycle`, `InstanceLifecycleProofs` |
| `PackageLifecycle` | the ModulePackages of a namespace: gates, `dependsOn`, source, artifact directory, render, apply, health, commit, requeue intervals, watches | `MCPackageLifecycle`, `PackageLifecycleProofs` |
| `PlatformStore` | store, directories, Platform reconcile and renders that lease | `MCPlatformStore`, `PlatformStoreProofs` |
| `ClaimRegistry` | the claims' reconcile, the shrink rule, the watches that wake it | `MCClaimRegistry`, `ClaimRegistryProofs` |

**Steps.** Every read of the cluster, every write and every status patch of a
reconcile is an action of its own, so that users, another instance, a failure or a
restart can come between any two. What a reconcile computes in memory between two
requests belongs to the action of the request before it. The variable `pc` is the
place in the code; the other variables of a running reconcile (`cur`, `mi`, `base`,
`plan`, `todo`, ...) are its locals and are dropped when it ends. One reconcile of an
object runs at a time, as controller-runtime guarantees.

**Data.** A spec is what a reconcile reads of it: in `ModuleInstance` the identity and
the objects its render produces and three policy switches; in `ClaimRegistry` a
catalog, a version, the contracts listed and the contracts implemented. A digest is
the pair of the rendered identity and the rendered objects. An object has a UID, the
identity it is labelled with, the adopt annotation and whether it is terminating.
Times and ages are nondeterministic choices; in `PackageLifecycle` a wait is a small
number, ordered as the intervals of the code are. Conditions are kept where control flow
reads them: `Ready`, and in `DeletionCleanup` its reason, which is the only record
that a deletion carries from one reconcile to the next. `PackageLifecycle` has `Ready`,
`Stalled` and `Healthy`, because its properties are about what they promise.

**Failures.** `Fault` bounds failed calls, conflicts, panics and restarts together
(`MaxFaults`). A patch that fails may have been received in part: `Sent` says which
fields the stored object then has. A restart drops every local variable and, where
there is one, the memory of the process (the store, the queue, the module cache of
the pod). In `PackageLifecycle` edits and failures share one bound, `MaxTroubles`.

**Users** edit specs (`MaxEdits`), and delete, create, adopt or take over objects
(`MaxMoves`). In `ClaimRegistry` the same bounds apply to claims and to providers,
demands and the registry, and `MaxCreates` bounds the claims ever created.

**Composition.** `DeletionCleanup` and `ModuleInstance` share the verdicts and the
identity plan. `PlatformStore` takes the set of active claims as an environment
variable; `ClaimRegistry` produces it and has the Platform reconcile as one step.
`ModuleInstance` lets the shrink rule withhold any registration; `ClaimRegistry` has
the rule itself. `InstanceLifecycle` has the pipeline of `ModuleInstance`, the cleanup
of `DeletionCleanup` and the Platform reconcile of `PlatformStore` as the outcomes they
can have, and adds what decides whether they run. `PackageLifecycle` does the same for
packages: an apply writes the objects of a package, or some of them, and the verdicts on
single objects are those of `ModuleInstance`.

## 3. The runs

✗ marks runs whose property TLC must find violated (section 5). `InstanceInv`,
`RecordInv`, `PackageInv`, `CleanupInv`, `PoolInv`, `ClaimInv` and `StoreInv` are the inductive
invariants of section 4: each is the type invariant of its module, together with `DropInv`,
`NoDriftHidden`, `DirsHeld`, `WayOutTaken`, `SlotsAccounted`, `OneProvider` or `KeepSound`, and
with what keeps these true.

| Run | Properties | Instance |
|---|---|---|
| `MCIdentity` | `InstanceInv`, `IdentityCoverage`, `NothingAbandoned`, `Converges` | 3 identities, 2 objects (a Job with a TTL, a registration), 2 edits, 1 move, 1 fault |
| `MCPolicy` | `ClaimsSurvive`, `DeletesWhatItJudged`, `TakesInWhatItJudged` | 1 identity, a claim and another object, 4 policies, lagging cache, 1 edit, 2 moves, 1 fault |
| `MCRevert` ✗ | `NoneOfEarlierIdentityLeft` | 2 identities, an object only one of them renders |
| `MCLifecycle` | `RecordInv`, `GoneClean`, `SkipHidesNothing`, `RendersCurrent`, `DeletionProceeds` | 5 specs (2 inputs, suspended, CLI-owned, own), 2 skew policies, 2 edits, 1 fault, periodic reconcile on and off |
| `MCDeletion` | `CleanupInv`, `ReleasedWhenGone`, `ReleasedUncheckedWhenSent`, `RecordKept`, `DeletesOnlyPlanned`, `DeletionEnds` | 2 identities, a claim and another object, 5 policies, 1 edit, 1 move, 1 fault |
| `MCPackage` | `PackageInv`, `ReadyMeansApplied`, `RetryAnnounced`, `HealthyAfterApply`, `DependencyFirst`, `FollowsSource`, `HealthFollows`, `DeletionProceeds` | 2 packages, one depending on the other, 3 artifacts (one that cannot be rendered, two with one digest), 2 platforms, 3 specs, with and without the Flux CRDs at the start, 2 edits or faults |
| `MCRenderSlots` | `PoolInv`, `RunningTracked`, `CallerContract`, `RendersBounded`, `RunReturns` | 2 slots, 2 objects, one of which hangs, with and without a timeout |
| `MCPlatform` | `StoreInv`, `RecordSound`, `PruneSparesLeased`, `ReadyHoldsCurrent`, `Converges` | 2 renders, 3 specs (one unversioned), 1 claim, a package that cannot be built, 2 edits, 1 recreation, 1 fault |
| `MCPlatformSwap` ✗ | `LeaseKeepsDirectory` | 1 render, 1 spec, 3 edits of the claims |
| `MCClaims` | `ClaimInv` | 2 claims, 4 specs, a subscription, 1 edit or deletion, 1 provider change |
| `MCClaimsSettle` | `Settles`, `Activates`, `DeletionCompletes` | 1 claim name, created up to twice, lagging caches, 1 instance that demands, 1 fault |
| `MCClaimsStuck` ✗ | `GoneUnaccepts` | 1 claim whose catalog may go, 1 restart |

**Instances.** `IdentityCoverage` says that an inventoried object that carries one of
the instance's identities carries one that the status still records, so that a prune
or a deletion finds it (section 4 has its inductive strengthening, `CoverageInv`).
`NothingAbandoned`: an entry leaves the inventory while the object is still the
instance's own only when a policy says so. `ClaimsSurvive`: no PersistentVolumeClaim
is deleted, pruned or recreated unless the data policy allows it.
`DeletesWhatItJudged`: the object that is deleted is the one the verdict was reached on.
`TakesInWhatItJudged`: an object outside the inventory is written over only if the guard
allowed it, and only if it is the one the guard read, when there was one.
`Converges`: left alone, the instance settles, or is held up by something that only a
user can change, or its registrations are withheld for ever.

**Lifecycle.** An instance that reports success holds what it says it applied, or says
that it drifted (`NoDriftHidden`): a failed apply that is taken back is a NoOp by its
digests, and only drift detection tells. A skipped render hides nothing that a render
would have found (`SkipHidesNothing`); left alone, every managed instance is rendered
from its spec and the current platform, by the watches alone when the periodic
reconcile is disabled (`RendersCurrent`). An instance goes only with the objects it
recorded, unless a gate handed them over (`GoneClean`), and a deletion proceeds through
suspension, handover and refusal (`DeletionProceeds`).

**Deletion.** The finalizer comes off after the check only when nothing of the
instance is left (`ReleasedWhenGone`), and without the check only when every object
but the claims was sent its delete (`ReleasedUncheckedWhenSent`); a recheck that could
not be done does not erase the record (`RecordKept`); what is deleted was planned and
judged (`DeletesOnlyPlanned`); the deletion ends or waits for an operator
(`DeletionEnds`). A deletion sleeps until the half-hour recheck of a missing
ServiceAccount only while the ServiceAccount is gone, the orphan annotation is not set and
the spec still prunes, although each of these is changed by someone else and at any moment
of the reconcile that stalls (`WayOutTaken`).

**Packages.** A render that outlived its reconcile keeps the directory it reads, and no
other directory is left (`DirsHeld`). Ready=True means that the recorded render is what is
in the cluster (`ReadyMeansApplied`), Healthy=True beside it that these objects, and not
the ones before, were seen rolled out (`HealthyAfterApply`), and in the end it says so
exactly when they are (`HealthFollows`). A failed package is attempted again no later than
`nextRetryAt` says (`RetryAnnounced`). A package's first objects are written after those of the
packages it depends on (`DependencyFirst`). Left alone, every package that nothing holds up
comes to the current artifact and platform, also when nothing watches the source
(`FollowsSource`); a package that waits for one that is held up, or for itself, is not
expected to. Deleted packages go (`DeletionProceeds`).

**Render slots.** Every token has exactly one holder (`SlotsAccounted`), a key is
refused only while its render runs (`RunningTracked`), the contract in the comment of
`Run` holds (`CallerContract`), the pool implements `RenderBound` (`RendersBounded`),
and a hanging object, with fewer of them than slots, blocks nobody else
(`RunReturns`).

**Platform.** No prune removes a directory that a render leased or that the store
offers (`PruneSparesLeased`); what the store offers passed the gate
and is what its directory holds (`RecordSound`); Ready is reported of the package
that the spec and the claims imply (`ReadyHoldsCurrent`); and that package is the
current one in the end (`Converges`). The last three except a Platform that was
created again (section 5).

**Claims.** Two claims that were accepted for the specs they have never both serve a
contract (`OneProvider`); every claim is judged for the spec it has, also when it was
edited or replaced under a running reconcile (`Settles`); an accepted claim becomes
active once its provider is Ready although nothing rechecks it (`Activates`); a
deleted claim goes once nothing demands its contracts (`DeletionCompletes`).

### Bounds

Two identity changes are the least with which a third identity meets an unsettled
change, and one fault between any two requests the least that separates what was done
from what was recorded; the proofs of section 4 have no bounds. Two objects let one be
kept and one dropped by the same edit, two moves let an object be deleted and created
again by someone else between a read and a write. Two slots and two objects let one
object hang and be retried while the other renders; the second goroutine is an
abandoned render. Two claims are a rivalry; a claim that is edited holds a catalog and
contracts it did not have, so one edit gives every order of judging and activating
with a changed spec. `MCClaims` keeps the caches up to date (see 5), `MCClaimsSettle`
lets them lag and therefore has one claim. No run has a kind that OPM never deletes
(`Excluded`): it drops out of the plans before anything is read, and the proofs have it.

In `MCLifecycle` two edits let the claims leave and return, or the CLI take an
instance, apply and hand it back; one fault lets an apply fail in between. The Platform
reconcile is two steps there (publish, patch), which is the window in which the store
and the Platform object differ.

In `MCPackage` two troubles let an apply fail half-way and the source go back, a render
outlive its reconcile and its package be deleted, or the source move during a reconcile
that then fails. Its numbers keep the order of the code's intervals: backoff 1 and 2, the
package's interval 3, the stalled recheck 4. One worker is the default of
`--max-concurrent-renders`, and only the package that is depended on has a workload that
takes a while to roll out. A failure counter beyond 1 changes nothing, because the backoff
has then reached its cap.

Deadlock is checked except where the system may stop: `MCDeletion`, `MCLifecycle` and
`MCPackage` (the objects are gone, or nothing is queued) and the runs of `ClaimRegistry` (the controller is idle when
nothing is queued).

### Fairness

- `ModuleInstance`: a reconcile ends and another starts (weak fairness of `Start` and
  `Progress`). A failure is requeued on its backoff, which is bounded, and a stall on its
  recheck; a success on `--instance-reconcile-interval`, which is assumed to be above zero
  (its default is ten minutes). With the interval disabled (`instanceRequeue`) an object
  that a user deletes after a success is created again only once something else wakes the
  instance: `Converges` does not hold of that setting. `InstanceLifecycle` has both.
- `PlatformStore`: a Platform that is queued is reconciled, and a reconcile ends; what
  queues it are its actions.
- `DeletionCleanup`: the same; that a stalled, held or
  failed one is queued again follows from its outcome. What is terminating goes in the
  end.
- `PackageLifecycle`: strong fairness of `Start(p)` because the queue is first in, first
  out and the worker is shared; weak fairness of `Progress(p)` and of the Platform
  reconcile. Nothing is assumed of a render that outlived its reconcile, nor of roll-outs.
- `InstanceLifecycle`: what is queued is reconciled and reconciles end; being queued
  again is not assumed but follows from the outcome, the events and `periodic`.
- `RenderSlots`: goroutines are scheduled and timers fire; strong fairness of
  `Acquire` because a blocked sender of a Go channel is served in its turn, and of
  `Start` because only the model bounds the number of goroutines. Renders of `Hanging`
  objects never return.
- `ClaimRegistry`: a reconcile ends, the Platform is reconciled, the caches follow;
  strong fairness of `Start(c)` because the workqueue is first in, first out.

Nothing is assumed of users, providers or the registry, and no failure is fair.

## 4. What is proved

For every value of the constants, without the bounds of the runs:

- `ModuleInstanceProofs!TypeCorrect`: `Spec => []TypeOK`.
- `ModuleInstanceProofs!Coverage`: with a reconcile that reads its own writes
  (`CacheMayLag = FALSE`), `Spec => []IdentityCoverage`. `IdentityCoverage` speaks of
  the stored status only and is not inductive: a running reconcile holds a copy of the
  status that it will store later, and relabels objects before it commits.
  `CoverageInv` adds, for each place in the code, how that copy relates to the stored
  status and to the labels in the cluster: before `StoreIdentity` no object carries an
  identity that is not recorded; from then on the stored pair is the plan's and covers
  both what the inventory names and what the apply has written; a prune keeps the
  earlier identity recorded until every entry is settled; and the two halves of the
  commit cover the inventory in whichever order they arrive. Each action is one lemma
  or one step; the environment never gives an object an identity of this instance
  that it did not have.
- `ModuleInstanceProofs!ClaimsSafety` (`ClaimsSurvive`), `JudgedSafety`
  (`DeletesWhatItJudged`) and `TakenInSafety` (`TakesInWhatItJudged`), with a lagging cache
  too. They rest on `PolicyInv`: only what the guard allowed is applied (`AllowedOnly`), and
  only stale entries that the policies let go are judged and deleted (`StaleOnly`). One
  lemma, `ControllerChanges`, says which steps of the controller touch an object at all, and
  under which precondition.
- `ModuleInstanceProofs!InstanceSafety` (`InstanceInv`) and `AbandonSafety`
  (`NothingAbandoned`), with a reconcile that reads its own writes. `DropInv` follows an
  object that is still the instance's from the inventory to its delete. What is forgotten
  without a delete (released objects, expired Jobs) is not the instance's any more
  (`ForgetsOthers`). While the prune has not failed, a stale entry is still to be judged,
  about to be deleted, or left to the plan of a later identity (`PruneAccounts`); when the
  last plan is done none is left, because the prune has one plan for each recorded identity
  (`PlansBoth`) and, by `CoverageInv`, the object's label is one of these. From there to the
  commit the new inventory drops only what a policy keeps (`DropsSound`).
- `PackageLifecycleProofs`: `PackageSafety` (`PackageInv`), `AppliedSafety`
  (`ReadyMeansApplied`), `RetrySafety` (`RetryAnnounced`), `HealthSafety`
  (`HealthyAfterApply`) and `DependencySafety` (`DependencyFirst`). The properties speak of
  packages that are not being reconciled; `PackageInv` says what a running reconcile
  carries to its commit. `RunRead`: the package may have been edited under it, and is then
  queued. `BaseSound`: the stored status is the one it started from, but for conditions of
  an identity patch that arrived in part. `AppliedSound` and `HealthSound`: the digest and
  the verdict about to be stored are those of the objects that are there. `DepsSound`: past
  the gate, every dependency has objects or is being deleted; that it stays so while they
  are reconciled is `BegunStays`. A step of one package leaves all the others `Still`, so
  each action has one lemma about its own package, and `StepSound` puts them together.
- `InstanceLifecycleProofs`: `DriftSafety` (`RecordInv`), `GoneSafety` (`GoneClean`) and
  `SkipSafety` (`SkipHidesNothing`). `NoDriftHidden` needs that only a reconcile writes the
  status and that it writes what it found or applied (`RunRead`, `RunWrites`), that a
  success records the digest of the inputs it records (`DigestSound`), and that the
  finalizer is there before the first object (`FinalizerFirst`).
- `DeletionCleanupProofs`: `CleanupSafety` (`CleanupInv`), `GoneSafety`
  (`ReleasedWhenGone`), `UncheckedSafety` (`ReleasedUncheckedWhenSent`), `RecordSafety`
  (`RecordKept`) and `DeletesSafety` (`DeletesOnlyPlanned`). `PlanSound` follows an object
  from the inventory through the plans of each identity to its delete (`Accounted`): it is
  still to be judged, is about to be deleted, is left to a later identity, or was sent its
  delete. `SentSound` carries this over to the record in the status, on which a later
  reconcile releases the finalizer without a check.
- `ClaimRegistryProofs`: `RegistryTypes`, and `OneProviderSafety` (`ClaimInv`) for caches
  that do not lag (section 5 says what a lagging one allows). Between the judgement and its
  patch the claim may be edited, deleted or replaced: `ObjectsSound` and `RunSound` order
  objects, generations and verdicts, and `VerdictSound` says that nothing which serves
  meanwhile overlaps a claim that is about to be accepted.
- `RenderSlotsProofs`: `SlotsSafety` (`PoolInv`), `KeysSafety` (`RunningTracked`),
  `ContractSafety` (`CallerContract`) and the refinement, `RendersAreBounded`:
  `Spec => RendersBounded`, with the renders in flight as `RenderBound`'s `busy`. A slot is
  held by a call or by a goroutine, never by both (`FramesSound`, `OneRender`), so the
  number of holders bounds the renders.
- `PlatformStoreProofs`: `StoreSafety` (`StoreInv`), `PruneSafety` (`PruneSparesLeased`),
  `RecordSafety` (`RecordSound`) and `ReadySafety` (`ReadyHoldsCurrent`). The count of a
  lease is the number of renders that hold it (`LeasesCounted`, with the cardinality
  theorems of the library), and while a prune runs its keep set holds every leased identity
  and the one on offer (`KeepSound`): a render that leases after the snapshot leases what
  `SetGenerated` published, which is kept. `NamedByGeneration` says that generations name
  specs: there is one function from generations to specs with which the record, every
  directory and the running reconcile agree, so that equal identities mean equal packages.

The assumptions are the named `ASSUME`s of the modules: which sets the constants are
subsets of, that bounds are natural numbers and the code's intervals positive, that the
marker values are distinct, and, as a fact of arithmetic that the provers do not know, that
powers of two are positive (`PowerAssumption`). TLC evaluates them on every run.

Every invariant and every action property of the passing runs is the statement of one of
these theorems. Only model-checked are the liveness properties, because fairness is out of
the prover's reach: both `Converges`, `RendersCurrent`, `DeletionProceeds`, `DeletionEnds`,
`FollowsSource`, `HealthFollows`, `RunReturns`, `Settles`, `Activates` and
`DeletionCompletes`.

## 5. What the checks found

Disagreements between the code and what its comments say, each with a run:

1. `MCRevert`. A successful reconcile clears `previousInstanceUUID`
   (`internal/reconcile/moduleinstance.go:374`) because "no object of the earlier
   identity is left to judge". An apply that moved to a new identity and failed
   half-way has created objects that no inventory lists. When the render goes back, the
   reconcile succeeds without them and forgets the identity they carry.
2. `MCPlatformSwap`. When a package identity comes back while a render still holds a
   lease on it (a claim leaves and returns), `Layout.Write` moves the leased directory
   away, although `SetGenerated`'s comment says the render finishes against the
   directory it started with.
3. `MCClaimsStuck`. A claim is judged only under a lease. In a new pod nothing is held,
   and the Platform cannot be built while an accepted, active claim names a catalog
   that the registry has lost; so the claim is not un-accepted, although the comment on
   `keepsVerdict` says it is.

Observed while modelling, and excepted from the properties:

- the DELETE of a prune carries the UID as its precondition and no resource version, so
  an adopt annotation set after the read does not save the object
  (`internal/apply/deletion.go:106`);
- an object that was absent when the guard read it cannot be pinned and is written over
  if someone creates it before the apply (`internal/apply/guard.go:133`);
- the record that every delete was sent does not say for which plan: if
  `spec.dataPolicy` is set to Delete while a deletion waits and the ServiceAccount then
  goes, the finalizer is released with the claims' deletes unsent
  (`internal/reconcile/deletion.go:613`). `ReleasedUncheckedWhenSent` excepts claims;
- with a lagging cache two rivals can both be accepted and activated, because the
  second is judged from a list that does not show the first as active. The Platform's
  inventory gate then refuses the pair;
- of two claims of one catalog created in the same second, the one with the lower name
  outranks the other even if that was accepted first; the accepted one stays active
  when it is refused;
- when the commit of an applied render is lost and the platform then goes back to the
  package that is recorded (a claim leaves and returns), the record still says that
  package: the next reconcile skips its render, and a later one is a NoOp that reports
  drift (`internal/reconcile/inputs.go:118`). `SkipHidesNothing`, `NoDriftHidden` and
  `RendersCurrent` except a lost commit;
- with the periodic reconcile disabled, an instance that rendered a package whose
  Platform status patch failed is not woken if the platform goes back before the retry;
- an instance deleted after its first apply failed half-way, or before its commit,
  leaves the objects that no inventory lists;
- a Platform that is deleted and created again before its reconcile starts over at
  generation 1. Its package identity can equal the one held, and the old spec's package is
  then reported as current (`internal/controller/platform_controller.go:198`);
  `docs/RENDERING.md:204` names the same collision as a limit of the render skip;
- a ServiceAccount that returns before the stall of the deletion is in the status wakes
  nothing, and the deletion waits for its recheck
  (`internal/controller/moduleinstance_controller.go:299`, whose comment says so). A
  ModulePackage watches neither ServiceAccounts nor the annotation;
- a package whose apply failed half-way and whose source then goes back is a NoOp by its
  digests and reports Ready=True over objects of the failed apply
  (`internal/reconcile/modulepackage.go:390`). An instance would find the drift; a package
  has no drift check. `ReadyMeansApplied` excepts it;
- a package that stalled and then waits for a dependency keeps its Stalled condition, its
  counters and its `nextRetryAt`: the wait sets Ready only
  (`internal/reconcile/modulepackage.go:163`);
- a negative `spec.interval` of a package is taken as it is: an outcome that would wait
  for it is not requeued (`internal/reconcile/modulepackage.go:276`);
- a package whose `sourceRef` names another namespace is not woken by its source: the map
  lists the packages of the source's namespace. It is reconciled on its interval;
- the directories of artifacts that a process was reading when it died stay on disk;
- as many hanging renders as slots block every render: the wait for a slot has no
  timeout.

## 6. Not modelled

- `internal/render` but for the slots, and the library's kernel: CUE evaluation. A
  render is an outcome of the spec.
- `internal/source/extract.go`: unpacking of archives and the check for a CUE module. A
  fetch is its outcome.
- wording of conditions, events, history and metrics (`internal/status`,
  `internal/metrics`), generated deep copies, `cmd/main.go` but for the reset of the
  platform directory.
- the order of the stages within one apply, and the wait for a CRD to be served.
- the difference between a shutdown that ends the wait for a render slot and a restart:
  neither records anything (`Crash`). In `InstanceLifecycle`, objects that no render names:
  the dry-run of `detectDrift` does not look at them, and `objects` does not count them
  (section 5, item 1, is about these).
- the legacy inventory of a package, and what a package's apply and prune do to single
  objects: the guard, the pins and the identity plan are shared code, in `ModuleInstance`.
- the counters of applies, prunes and drift, which are reported only.
- the wake-up of a live instance whose apply stalled on its ServiceAccount: its stalled
  recheck stands for it. The Platform is not deleted in `InstanceLifecycle`, the
  controller's version, a part of the render key, does not change, and its cleanup is of
  an instance that prunes.
- the wait for a roll-out in `InstanceLifecycle`: an instance's health is judged by the
  code that `PackageLifecycle` has for packages.

## 7. Plan

Modules, in order of importance: `ModuleInstance` with its theorems, `DeletionCleanup`,
`RenderSlots` over `RenderBound`, `PlatformStore`, `ClaimRegistry`, `InstanceLifecycle`,
`PackageLifecycle`, each with its theorems. These exist. Next:

1. `ClaimRegistry` composed with `PlatformStore`: the platform that is built serves what
   the claims say.
2. `InstanceLifecycle`: upgrades of the controller, and a live instance whose
   ServiceAccount is gone.
