--------------------------- MODULE PackageLifecycle ---------------------------
(***************************************************************************)
(* The ModulePackages of a namespace, from the Flux source they share to   *)
(* the objects in the cluster: ReconcileModulePackage with its gates, the  *)
(* artifact and the directory it is unpacked in, the render, the apply,    *)
(* the health judgement and the deferred commit                            *)
(* (internal/reconcile/modulepackage.go), how long each outcome waits      *)
(* (backoff.go, health.go), and what wakes a package                       *)
(* (internal/controller/modulepackage_controller.go).                      *)
(*                                                                         *)
(* What an apply, a prune and a deletion do to single objects is           *)
(* ModuleInstance and DeletionCleanup, the render pool RenderSlots, the    *)
(* Platform reconcile PlatformStore: here each is the outcome it has.  A   *)
(* reconcile reads its own writes.                                         *)
(***************************************************************************)
EXTENDS Integers, FiniteSets

CONSTANTS
    Packages,   \* the ModulePackages
    Artifacts,  \* what the source can offer: [rev, dig]
    Broken,     \* the digests nothing can be rendered from
    Platforms,  \* the packages the Platform can be generated to
    Specs,      \* the specs a user may give each package
    Workloads,  \* the packages with objects that take a while to be ready
    None, Mixed,            \* nothing; objects some of which a failed apply wrote
    Workers,                \* MaxConcurrentReconciles
    BackoffBaseDelay, BackoffMaxDelay, StalledRecheckInterval,
    DefaultModulePackageInterval, healthRequeueFloor, healthRequeueCeiling,
    Ages,       \* how long ago the last apply can be
    MaxCount,   \* the failure counter is followed up to here
    Worlds,     \* what can be there when the manager starts: [specs, src, plat]
    MaxTroubles \* bound on edits, failed calls, panics and restarts together

Digests == {a.dig : a \in Artifacts}
Content == [dig: Digests, plat: Platforms]

ASSUME PackageAssumption ==
    /\ IsFiniteSet(Packages) /\ Workloads \subseteq Packages /\ Workers \in Nat \ {0}
    /\ Broken \subseteq Digests /\ Platforms # {}
    /\ None \notin Artifacts \cup Platforms \cup Content \cup {Mixed} /\ Mixed \notin Content
    /\ {BackoffBaseDelay, BackoffMaxDelay, StalledRecheckInterval, DefaultModulePackageInterval,
        healthRequeueFloor, healthRequeueCeiling} \subseteq Nat \ {0}
    /\ BackoffMaxDelay >= BackoffBaseDelay /\ healthRequeueCeiling >= healthRequeueFloor
    /\ Ages \subseteq Nat /\ MaxCount \in Nat /\ MaxTroubles \in Nat
    /\ \A p \in Packages : \A s \in Specs[p] :
         s.deps \subseteq Packages /\ s.suspend \in BOOLEAN /\ s.interval \in Int
    /\ \A w \in Worlds :
         /\ \A p \in Packages : w.specs[p] \in Specs[p]
         /\ w.src \in [crds: BOOLEAN, exists: BOOLEAN, ready: BOOLEAN, art: Artifacts \cup {None}]
         /\ w.plat \in Platforms

(* Arithmetic: a power of two is a positive number.                        *)
ASSUME PowerAssumption == \A n \in 0 .. MaxCount : 2 ^ n \in Nat \ {0}

VARIABLES
    pkg,      \* the ModulePackages: generation, deletion, finalizer, spec
    st,       \* their status
    objects,  \* the render their objects in the cluster were written from
    roll,     \* how far the roll-out of those objects is
    src,      \* the Flux source
    plat,     \* the package of the Platform's spec and claims
    cr, held, \* the package the Platform's status names, and the one in memory
    due,      \* the workqueue: Ready, after a while, or not at all
    run,      \* the reconcile of each package
    late,     \* renders that outlived the reconcile that started them
    dirs,     \* the extract directories this process made
    watched,  \* the sources are watched
    lost,     \* packages whose last commit got lost
    dirty,    \* packages with objects that a recorded apply did not write
    rolledOut,\* packages whose objects were ready since the last write of them
    troubles

Now == 0
Never == -1
Spec0 == UNION {Specs[p] : p \in Packages}
Generation == 1 .. MaxTroubles + 1
Object == [exists: BOOLEAN, gen: Generation, deleting: BOOLEAN, fin: BOOLEAN, spec: Spec0]
(* crds says that the Flux CRDs are installed.                             *)
Source == [crds: BOOLEAN, exists: BOOLEAN, ready: BOOLEAN, art: Artifacts \cup {None}]
NoSource == [crds |-> TRUE, exists |-> FALSE, ready |-> FALSE, art |-> None]
(* Unset: no such condition yet, or a reconcile in progress.               *)
Reason == {"Unset", "Succeeded", "Failed", "Suspended", "DependenciesNotReady"}
Health == {"Unset", "RolledOut", "NotRolledOut", "ProgressDeadlineExceeded", "HealthUnknown"}
(* id says that an identity is recorded; inputs is the key of              *)
(* lastAppliedInputs, digest the last applied digests and the inventory,   *)
(* count the reconcile failures.                                           *)
Status == [obs: 0 .. MaxTroubles + 1, ready: Reason, stalled: BOOLEAN, healthy: Health,
           id: BOOLEAN, src: Artifacts \cup {None},
           inputs: Content \cup {None}, digest: Content \cup {None}, count: 0 .. MaxCount, retry: Nat]
NewStatus == [obs |-> 0, ready |-> "Unset", stalled |-> FALSE, healthy |-> "Unset", id |-> FALSE,
              src |-> None, inputs |-> None, digest |-> None, count |-> 0, retry |-> 0]
Run == [pc: {"idle", "act", "fetch", "render", "store", "apply", "judge", "commit", "gate"},
        cur: Object, base: Status, mi: Status, art: Artifacts \cup {None},
        content: Content \cup {None}, fresh: BOOLEAN, after: Int]
NoObject == [exists |-> FALSE, gen |-> 1, deleting |-> FALSE, fin |-> FALSE,
             spec |-> CHOOSE s \in Spec0 : TRUE]
Idle == [pc |-> "idle", cur |-> NoObject, base |-> NewStatus, mi |-> NewStatus, art |-> None,
         content |-> None, fresh |-> FALSE, after |-> Never]

platVars == <<plat, cr, held>>
worldVars == <<src, platVars, watched>>
histVars == <<lost, dirty, rolledOut>>
vars == <<pkg, st, objects, roll, worldVars, due, run, late, dirs, histVars, troubles>>

(* A manager that has just started, with packages that were just created.  *)
Init ==
    /\ \E w \in Worlds :
         /\ pkg = [p \in Packages |-> [exists |-> TRUE, gen |-> 1, deleting |-> FALSE, fin |-> FALSE,
                                     spec |-> w.specs[p]]]
         /\ src = w.src /\ watched = w.src.crds /\ plat = w.plat
    /\ st = [p \in Packages |-> NewStatus]
    /\ objects = [p \in Packages |-> None] /\ roll = [p \in Packages |-> "none"]
    /\ cr = None /\ held = None
    /\ due = [p \in Packages |-> Now] /\ run = [p \in Packages |-> Idle]
    /\ late = {} /\ dirs = [p \in Packages |-> {}]
    /\ lost = {} /\ dirty = {} /\ rolledOut = {}
    /\ troubles = 0

Trouble == troubles < MaxTroubles /\ troubles' = troubles + 1
-----------------------------------------------------------------------------
(***************************************************************************)
(* How long an outcome waits                                               *)
(***************************************************************************)
Smaller(x, y) == IF x < y THEN x ELSE y
Larger(x, y) == IF x < y THEN y ELSE x

ComputeBackoff(failureCount) ==
    IF failureCount <= 1
      THEN BackoffBaseDelay
      ELSE Smaller(BackoffBaseDelay * 2 ^ (failureCount - 1), BackoffMaxDelay)

modulePackageBackoff(r) == ComputeBackoff(r.base.count + 1)

interval(s) == IF s.interval = 0 THEN DefaultModulePackageInterval ELSE s.interval

healthRequeue(v, age) ==
    CASE v = "ProgressDeadlineExceeded" -> StalledRecheckInterval
      [] v \in {"NotRolledOut", "HealthUnknown"} ->
           Smaller(Larger(age \div 2, healthRequeueFloor), healthRequeueCeiling)
      [] OTHER -> 0

packageRequeue(healthAfter, i) == IF healthAfter > 0 /\ healthAfter < i THEN healthAfter ELSE i

(* The queue has one entry per package: an event makes it ready, and a     *)
(* package that became ready meanwhile does not wait.                      *)
Wakes(S) == due' = [p \in Packages |-> IF p \in S THEN Now ELSE due[p]]

(* The reconcile of p is over; after says when the next one is due.        *)
EndsRun(p, after) ==
    /\ run' = [run EXCEPT ![p] = Idle]
    /\ due' = [due EXCEPT ![p] = IF @ = Now THEN Now ELSE Larger(after, Never)]

Continues(p, r) == run' = [run EXCEPT ![p] = r] /\ UNCHANGED due
-----------------------------------------------------------------------------
(***************************************************************************)
(* The gates                                                               *)
(***************************************************************************)
(* The package is ready, or its time has come.                             *)
Start(p) ==
    /\ run[p].pc = "idle" /\ due[p] >= Now
    /\ Cardinality({q \in Packages : run[q].pc # "idle"}) < Workers
    /\ due' = [due EXCEPT ![p] = Never]
    /\ run' = [run EXCEPT ![p] =
                 IF pkg[p].exists
                   THEN [Idle EXCEPT !.pc = "act", !.cur = pkg[p], !.base = st[p], !.mi = st[p]]
                   ELSE Idle]
    /\ UNCHANGED <<pkg, st, objects, roll, worldVars, late, dirs, histVars, troubles>>

addModulePackageFinalizer(p) ==
    /\ run[p].pc = "act" /\ ~run[p].cur.fin
    /\ pkg' = [pkg EXCEPT ![p].fin = @ \/ pkg[p].exists] /\ EndsRun(p, Now)
    /\ UNCHANGED <<st, objects, roll, worldVars, late, dirs, histVars, troubles>>

(* Mutant: a dependency that has not been reconciled yet is Ready.         *)
BlockedByFailed(r) ==
    {q \in r.cur.spec.deps : ~pkg[q].exists \/ st[q].ready = "Failed"}

(* The dependencies that hold r up: absent, or not Ready=True.             *)
checkDependsOn(r) ==
    {q \in r.cur.spec.deps : ~pkg[q].exists \/ st[q].ready # "Succeeded"}

(* Mutant: suspend is looked at before the deletion.                       *)
SuspendBeforeDeletion(r) ==
    CASE r.cur.spec.suspend -> "suspend"
      [] r.cur.deleting -> "deletion"
      [] checkDependsOn(r) # {} -> "wait"
      [] OTHER -> "resolve"

Branch(r) ==
    CASE r.cur.deleting -> "deletion"
      [] r.cur.spec.suspend -> "suspend"
      [] checkDependsOn(r) # {} -> "wait"
      [] OTHER -> "resolve"

Takes(p, branch) == run[p].pc = "act" /\ run[p].cur.fin /\ Branch(run[p]) = branch

(* The cleanup of a package that prunes deletes what its inventory records;*)
(* objects of an apply that failed or was not recorded may be left.        *)
handleModulePackageDeletion(p) ==
    /\ Takes(p, "deletion")
    /\ \E left \in IF objects[p] = st[p].digest THEN {None} ELSE {None, Mixed} :
         objects' = [objects EXCEPT ![p] = left]
    /\ roll' = [roll EXCEPT ![p] = "none"]
    /\ pkg' = [pkg EXCEPT ![p].fin = FALSE, ![p].exists = FALSE] /\ EndsRun(p, Never)
    /\ UNCHANGED <<st, worldVars, late, dirs, histVars, troubles>>

(* The finalizer cannot be written, or the cleanup fails or has to wait.   *)
ActFails(p) ==
    /\ run[p].pc = "act" /\ (~run[p].cur.fin \/ run[p].cur.deleting)
    /\ Trouble /\ EndsRun(p, Now)
    /\ UNCHANGED <<pkg, st, objects, roll, worldVars, late, dirs, histVars>>

MarkSuspended(s) == [s EXCEPT !.ready = "Suspended", !.stalled = FALSE]

handleSuspend(p) ==
    LET r == run[p]
    IN /\ Takes(p, "suspend")
       /\ Continues(p, [r EXCEPT !.pc = "gate",
                                 !.mi = [MarkSuspended(r.mi) EXCEPT !.obs = r.cur.gen]])
       /\ UNCHANGED <<pkg, st, objects, roll, worldVars, late, dirs, histVars, troubles>>

(* A dependency that cannot be read holds the package up like one that is  *)
(* not Ready.  Only the Ready condition is set: Stalled, the counters and  *)
(* nextRetryAt stay as the last attempt left them.                         *)
WaitsForDependency(p) ==
    LET r == run[p]
    IN /\ \/ Takes(p, "wait") /\ UNCHANGED troubles
          \/ Takes(p, "resolve") /\ r.cur.spec.deps # {} /\ Trouble
       /\ Continues(p, [r EXCEPT !.pc = "gate", !.after = interval(r.cur.spec),
                                 !.mi.ready = "DependenciesNotReady", !.mi.obs = r.cur.gen])
       /\ UNCHANGED <<pkg, st, objects, roll, worldVars, late, dirs, histVars>>
-----------------------------------------------------------------------------
(***************************************************************************)
(* The attempt, and what it will commit                                    *)
(***************************************************************************)
Increment(n) == IF n < MaxCount THEN n + 1 ELSE n

(* Mutant: the time of an earlier failure stays.                           *)
KeepsRetryAt(s, after) == IF s.retry > 0 THEN s.retry ELSE Larger(after, 0)

RetryAt(s, after) == IF after > 0 THEN after ELSE 0

(* A failure leaves lastApplied* and the inventory as they were.           *)
Failure(s, gen, stalled, after) ==
    [s EXCEPT !.ready = "Failed", !.stalled = stalled, !.obs = gen,
              !.count = Increment(@), !.retry = RetryAt(s, after)]

(* What a NoOp records; a success also records what it applied.            *)
NoOp(s, gen, c) ==
    [s EXCEPT !.ready = "Succeeded", !.stalled = FALSE, !.obs = gen,
              !.count = 0, !.retry = 0, !.id = TRUE, !.inputs = c]

(* The attempt fails with status m, and waits that long before the next.   *)
FailedRun(r, m, stalled, after) ==
    [r EXCEPT !.pc = "commit", !.art = None, !.content = None, !.after = after,
              !.mi = Failure(m, r.cur.gen, stalled, after)]

Fails(p, stalled, after) == Continues(p, FailedRun(run[p], run[p].mi, stalled, after))

(* Resolve: which failure the source is to a package with interval i.  A   *)
(* kind that is not installed is no answer about the source.               *)
resolveModulePackageSource(i) ==
    IF src.crds /\ ~src.exists
      THEN [ok |-> FALSE, stalled |-> TRUE, after |-> StalledRecheckInterval]
      ELSE [ok |-> src.exists /\ src.ready /\ src.art # None, stalled |-> FALSE, after |-> i]

ResolveFails(p) ==
    LET i == interval(run[p].cur.spec)
        res == resolveModulePackageSource(i)
    IN /\ Takes(p, "resolve")
       /\ \/ ~res.ok /\ Fails(p, res.stalled, res.after) /\ UNCHANGED troubles
          \/ Trouble /\ Fails(p, FALSE, i)
       /\ UNCHANGED <<pkg, st, objects, roll, worldVars, late, dirs, histVars>>

(* The inputs the package would render with, as far as the Platform says.  *)
packageRenderSkippable(r) ==
    /\ r.base.ready = "Succeeded" /\ r.base.obs = r.cur.gen
    /\ cr # None /\ r.base.inputs = [dig |-> src.art.dig, plat |-> cr]

(* Mutant: the revision is not compared.                                   *)
SameDigestRecorded(r) == r.base.src # None /\ r.base.src.dig = src.art.dig

sourceRecorded(r) == r.base.src = src.art

(* Mutant: a skipped render does not judge health.                         *)
SkippedUnjudged(r) == [r EXCEPT !.pc = "commit", !.after = interval(r.cur.spec)]

(* A young enough render of the same inputs: only health is judged.        *)
judgeSkippedPackage(r) == [r EXCEPT !.pc = "judge"]

Resolve(p) ==
    LET r == run[p]
    IN /\ Takes(p, "resolve") /\ resolveModulePackageSource(1).ok
       /\ \/ /\ sourceRecorded(r) /\ packageRenderSkippable(r)
             /\ Continues(p, judgeSkippedPackage(r))
          \/ Continues(p, [r EXCEPT !.pc = "fetch", !.art = src.art, !.mi.src = src.art])
       /\ UNCHANGED <<pkg, st, objects, roll, worldVars, late, dirs, histVars, troubles>>

(* The directory is there for the download, and stays if it succeeds.      *)
Fetch(p) ==
    /\ run[p].pc = "fetch"
    /\ dirs' = [dirs EXCEPT ![p] = @ \cup {"run"}]
    /\ Continues(p, [run[p] EXCEPT !.pc = "render"])
    /\ UNCHANGED <<pkg, st, objects, roll, worldVars, late, histVars, troubles>>

(* The download fails, or the artifact made way for a newer one.           *)
fetchModulePackageArtifactFails(p) ==
    /\ run[p].pc = "fetch"
    /\ \/ run[p].art # src.art /\ UNCHANGED troubles
       \/ Trouble
    /\ Fails(p, FALSE, interval(run[p].cur.spec))
    /\ UNCHANGED <<pkg, st, objects, roll, worldVars, late, dirs, histVars>>

(* Mutant: the reconcile removes the directory when it returns.            *)
RemovedByReconcile(p, timedOut) == [dirs EXCEPT ![p] = @ \ {"run"}]

(* Who removes the directory: the render, when it returns; the reconcile,  *)
(* when the render never took it.                                          *)
DirsAfterRender(p, timedOut) ==
    [dirs EXCEPT ![p] = (@ \ {"run"}) \cup IF timedOut THEN {"late"} ELSE {}]

(* The path has no instance.cue, or the render refuses the package; or the *)
(* ServiceAccount to apply as is gone or may not read.                     *)
RenderStalls(p) ==
    /\ run[p].pc = "render"
    /\ \/ run[p].art.dig \in Broken /\ UNCHANGED troubles
       \/ p \notin late /\ held # None /\ Trouble
    /\ Fails(p, TRUE, StalledRecheckInterval) /\ dirs' = DirsAfterRender(p, FALSE)
    /\ UNCHANGED <<pkg, st, objects, roll, worldVars, late, histVars>>

(* No platform is held: a wait.  A render of the package still runs, or a  *)
(* registry or the guard's reads fail: the backoff.                        *)
RenderFails(p) ==
    /\ run[p].pc = "render"
    /\ \/ p \notin late /\ held = None /\ Fails(p, FALSE, interval(run[p].cur.spec))
          /\ UNCHANGED troubles
       \/ p \in late /\ Fails(p, FALSE, modulePackageBackoff(run[p])) /\ UNCHANGED troubles
       \/ p \notin late /\ Trouble /\ Fails(p, FALSE, modulePackageBackoff(run[p]))
    /\ dirs' = DirsAfterRender(p, FALSE)
    /\ UNCHANGED <<pkg, st, objects, roll, worldVars, late, histVars>>

RenderTimesOut(p) ==
    /\ run[p].pc = "render" /\ p \notin late /\ Trouble
    /\ late' = late \cup {p} /\ dirs' = DirsAfterRender(p, TRUE)
    /\ Fails(p, FALSE, modulePackageBackoff(run[p]))
    /\ UNCHANGED <<pkg, st, objects, roll, worldVars, histVars>>

LateRenderReturns(p) ==
    /\ p \in late
    /\ late' = late \ {p} /\ dirs' = [dirs EXCEPT ![p] = @ \ {"late"}]
    /\ UNCHANGED <<pkg, st, objects, roll, worldVars, due, run, histVars, troubles>>

(* A render with the digests of the last apply is a NoOp.                  *)
Render(p) ==
    LET r == run[p]
        c == [dig |-> r.art.dig, plat |-> held]
        rendered == [r EXCEPT !.art = None, !.content = c]
    IN /\ r.pc = "render" /\ p \notin late /\ held # None /\ r.art.dig \notin Broken
       /\ IF c = r.base.digest
            THEN Continues(p, [r EXCEPT !.pc = "judge", !.art = None, !.mi = NoOp(r.mi, r.cur.gen, c)])
            ELSE Continues(p, [rendered EXCEPT !.pc = IF r.base.id THEN "apply" ELSE "store"])
       /\ dirs' = DirsAfterRender(p, FALSE)
       /\ UNCHANGED <<pkg, st, objects, roll, worldVars, late, histVars, troubles>>

(* The patch sends the fields of m that differ from the base; conds and    *)
(* rest say which of its two writes arrived.                               *)
Sent(p, m, conds, rest) ==
    LET Field(got, stored, before, after) == IF got /\ after # before THEN after ELSE stored
        s == st[p]
        from == run[p].base
    IN [obs     |-> Field(rest, s.obs, from.obs, m.obs),
        ready   |-> Field(conds, s.ready, from.ready, m.ready),
        stalled |-> Field(conds, s.stalled, from.stalled, m.stalled),
        healthy |-> Field(conds, s.healthy, from.healthy, m.healthy),
        id      |-> Field(rest, s.id, from.id, m.id),
        src     |-> Field(rest, s.src, from.src, m.src),
        inputs  |-> Field(rest, s.inputs, from.inputs, m.inputs),
        digest  |-> Field(rest, s.digest, from.digest, m.digest),
        count   |-> Field(rest, s.count, from.count, m.count),
        retry   |-> Field(rest, s.retry, from.retry, m.retry)]

(* Mutant: the digests are stored with the identity.                       *)
RecordedBeforeApply(s, c) ==
    [s EXCEPT !.id = TRUE, !.ready = "Unset", !.stalled = FALSE, !.digest = c, !.inputs = c]

(* What is stored before the first write: the identity, and that the       *)
(* reconcile is in progress.                                               *)
Attempt(s, c) == [s EXCEPT !.id = TRUE, !.ready = "Unset", !.stalled = FALSE]

(* No apply without the record of the identity.                            *)
patchModulePackageIdentityStatus(p) ==
    LET r == run[p]
        m == Attempt(r.mi, r.content)
    IN /\ r.pc = "store"
       /\ \/ /\ st' = [st EXCEPT ![p] = Sent(p, m, TRUE, TRUE)]
             /\ Continues(p, [r EXCEPT !.pc = "apply", !.base = m, !.mi = m])
             /\ UNCHANGED troubles
          \/ /\ Trouble
             /\ \E conds \in BOOLEAN : st' = [st EXCEPT ![p] = Sent(p, m, conds, FALSE)]
             /\ Continues(p, FailedRun(r, m, FALSE, modulePackageBackoff(r)))
       /\ UNCHANGED <<pkg, objects, roll, worldVars, late, dirs, histVars>>

(* The objects of the packages in S have been written, and roll out.       *)
RollOutBegins(S) ==
    /\ roll' = [p \in Packages |-> IF p \notin S THEN roll[p]
                                   ELSE IF p \in Workloads THEN "rolling" ELSE "ready"]
    /\ rolledOut' = (rolledOut \ S) \cup (S \ Workloads)

Writes(p, to) ==
    /\ objects' = [objects EXCEPT ![p] = to]
    /\ RollOutBegins(IF to = objects[p] THEN {} ELSE {p})

(* Apply and prune.                                                        *)
applyAndPruneModulePackage(p) ==
    LET r == run[p]
    IN /\ r.pc = "apply"
       /\ Writes(p, r.content)
       /\ Continues(p, [r EXCEPT !.pc = "judge", !.fresh = TRUE, !.content = None,
                          !.mi = [NoOp(r.mi, r.cur.gen, r.content) EXCEPT !.digest = r.content]])
       /\ UNCHANGED <<pkg, st, worldVars, late, dirs, lost, dirty, troubles>>

(* One of the objects is not applied, or a stale one not pruned.           *)
ApplyFails(p) ==
    /\ run[p].pc = "apply" /\ Trouble
    /\ \E to \in {objects[p], Mixed} :
         Writes(p, to) /\ dirty' = IF to = objects[p] THEN dirty ELSE dirty \cup {p}
    /\ Fails(p, FALSE, modulePackageBackoff(run[p]))
    /\ UNCHANGED <<pkg, st, worldVars, late, dirs, lost>>
-----------------------------------------------------------------------------
(***************************************************************************)
(* Health, and the commit                                                  *)
(***************************************************************************)
(* Mutant: what cannot be read counts as rolled out.                       *)
UnreadableIsHealthy(x, readable) ==
    CASE ~readable -> "RolledOut"
      [] x = "stuck" -> "ProgressDeadlineExceeded"
      [] x = "rolling" -> "NotRolledOut"
      [] OTHER -> "RolledOut"

(* The verdict on objects whose roll-out is at x, if they can be read.     *)
judgeHealth(x, readable) ==
    CASE x = "stuck" -> "ProgressDeadlineExceeded"
      [] x = "rolling" -> "NotRolledOut"
      [] ~readable -> "HealthUnknown"
      [] OTHER -> "RolledOut"

(* After the apply, on a NoOp and on a skipped render.  The object that    *)
(* cannot be read is the one that rolls out, or another.                   *)
judgePackageHealth(p) ==
    LET r == run[p]
    IN /\ r.pc = "judge"
       /\ \E readable \in BOOLEAN, age \in IF r.fresh THEN {0} ELSE Ages :
          \E seen \in IF readable THEN {roll[p]} ELSE {roll[p], "ready"} :
            LET v == judgeHealth(seen, readable)
            IN /\ IF readable THEN UNCHANGED troubles ELSE Trouble
               /\ Continues(p, [r EXCEPT !.pc = "commit", !.mi.healthy = v,
                                  !.after = packageRequeue(healthRequeue(v, age), interval(r.cur.spec))])
       /\ UNCHANGED <<pkg, st, objects, roll, worldVars, late, dirs, histVars>>

(* A panic after the commit was armed: recorded as a failure, raised again *)
(* and queued on the rate limiter.                                         *)
Panics(p) ==
    LET r == run[p]
    IN /\ r.pc \in {"render", "apply", "judge"} /\ Trouble
       /\ \E to \in IF r.pc = "apply" THEN {objects[p], Mixed} ELSE {objects[p]} :
            /\ Writes(p, to)
            /\ dirty' = IF r.fresh \/ to # objects[p] THEN dirty \cup {p} ELSE dirty
       /\ Continues(p, [r EXCEPT !.pc = "commit", !.art = None, !.content = None, !.fresh = FALSE,
                          !.after = Now,
                          !.mi = Failure([r.mi EXCEPT !.digest = r.base.digest, !.id = r.base.id,
                                                      !.inputs = r.base.inputs,
                                                      !.count = r.base.count],
                                         r.cur.gen, FALSE, Now)])
       /\ dirs' = DirsAfterRender(p, FALSE)
       /\ UNCHANGED <<pkg, st, worldVars, late, lost>>

Commit(p) ==
    /\ run[p].pc \in {"commit", "gate"}
    /\ st' = [st EXCEPT ![p] = Sent(p, run[p].mi, TRUE, TRUE)]
    /\ lost' = lost \ {p}
    /\ dirty' = IF run[p].fresh THEN dirty \ {p} ELSE dirty
    /\ EndsRun(p, run[p].after)
    /\ UNCHANGED <<pkg, objects, roll, worldVars, late, dirs, rolledOut, troubles>>

(* A failed commit is logged, a failed patch of a dependency wait ignored; *)
(* a failed patch of a suspend is returned and queued again.               *)
CommitFails(p) ==
    LET r == run[p]
    IN /\ r.pc \in {"commit", "gate"} /\ Trouble
       /\ \E conds \in BOOLEAN : st' = [st EXCEPT ![p] = Sent(p, r.mi, conds, FALSE)]
       /\ lost' = lost \cup {p}
       /\ dirty' = IF r.fresh THEN dirty \cup {p} ELSE dirty
       /\ EndsRun(p, IF r.mi.ready = "Suspended" THEN Now ELSE r.after)
       /\ UNCHANGED <<pkg, objects, roll, worldVars, late, dirs, rolledOut>>

fluxSourceCRDsInstalled == src.crds

(* The process dies.  The new one lists the packages and the Platform; its *)
(* memory is empty, and the directories of the old one are nobody's.       *)
Restart ==
    LET half == {p \in Packages : run[p].pc = "apply"}
    IN /\ Trouble
       /\ \E wrote \in SUBSET half :
            /\ objects' = [p \in Packages |-> IF p \in wrote THEN Mixed ELSE objects[p]]
            /\ RollOutBegins(wrote)
            /\ dirty' = dirty \cup wrote \cup {p \in Packages : run[p].fresh}
       /\ lost' = lost \cup {p \in Packages : run[p].pc \in {"apply", "judge", "commit", "gate"}}
       /\ held' = None /\ late' = {} /\ dirs' = [p \in Packages |-> {}]
       /\ run' = [p \in Packages |-> Idle] /\ Wakes(Packages)
       /\ watched' = fluxSourceCRDsInstalled
       /\ UNCHANGED <<pkg, st, src, plat, cr>>
-----------------------------------------------------------------------------
(***************************************************************************)
(* Users, Flux, the Platform and the workloads                             *)
(***************************************************************************)
(* The predicate of the package's own watch: its generation changed.       *)
EditSpec(p) ==
    /\ pkg[p].exists /\ Trouble
    /\ \E s \in Specs[p] \ {pkg[p].spec} : pkg' = [pkg EXCEPT ![p].spec = s, ![p].gen = @ + 1]
    /\ Wakes({p})
    /\ UNCHANGED <<st, objects, roll, worldVars, run, late, dirs, histVars>>

DeletePackage(p) ==
    /\ pkg[p].exists /\ ~pkg[p].deleting /\ Trouble
    /\ pkg' = [pkg EXCEPT ![p].deleting = TRUE, ![p].gen = @ + 1, ![p].exists = pkg[p].fin]
    /\ Wakes({p})
    /\ UNCHANGED <<st, objects, roll, worldVars, run, late, dirs, histVars>>

(* An event of the source: created, or an update that moves its artifact.  *)
sourceArtifactChanged(old, new) ==
    new.exists /\ (~old.exists \/ old.art # new.art)

mapSourceToModulePackages(new) ==
    Wakes(IF watched /\ sourceArtifactChanged(src, new)
            THEN {p \in Packages : pkg[p].exists} ELSE {})

(* It publishes an artifact, loses its readiness, goes, or comes back      *)
(* empty.  A list of the packages that fails wakes nobody.                 *)
SourceChanges ==
    /\ Trouble
    /\ \E new \in {[crds |-> TRUE, exists |-> TRUE, ready |-> TRUE, art |-> x] : x \in Artifacts}
                  \cup {[src EXCEPT !.ready = FALSE], NoSource, [NoSource EXCEPT !.exists = TRUE]} :
         new # src /\ src' = new /\ (mapSourceToModulePackages(new) \/ UNCHANGED due)
    /\ UNCHANGED <<pkg, st, objects, roll, platVars, watched, run, late, dirs, histVars>>

PlatformChanges ==
    /\ Trouble /\ \E x \in Platforms \ {plat} : plat' = x
    /\ UNCHANGED <<pkg, st, objects, roll, src, cr, held, watched, due, run, late, dirs, histVars>>

mapPlatformToModulePackages ==
    Wakes(IF cr # plat THEN {p \in Packages : pkg[p].exists} ELSE {})

(* After a restart the package is held again, but nothing about the        *)
(* Platform object changed: no event.                                      *)
PlatformGenerates ==
    /\ {cr, held} # {plat}
    /\ cr' = plat /\ held' = plat
    /\ \/ mapPlatformToModulePackages /\ UNCHANGED troubles
       \/ Trouble /\ UNCHANGED due
    /\ UNCHANGED <<pkg, st, objects, roll, src, plat, watched, run, late, dirs, histVars>>

RollsOut(p) ==
    /\ roll[p] = "rolling"
    /\ roll' = [roll EXCEPT ![p] = "ready"] /\ rolledOut' = rolledOut \cup {p}
    /\ UNCHANGED <<pkg, st, objects, worldVars, due, run, late, dirs, lost, dirty, troubles>>

(* A Deployment exceeds its deadline, or a workload loses its replicas.    *)
Degrades(p) ==
    /\ p \in Workloads /\ roll[p] \in {"rolling", "ready"} /\ Trouble
    /\ roll' = [roll EXCEPT ![p] = IF @ = "rolling" THEN "stuck" ELSE "rolling"]
    /\ UNCHANGED <<pkg, st, objects, worldVars, due, run, late, dirs, histVars>>
-----------------------------------------------------------------------------
Progress(p) ==
    \/ addModulePackageFinalizer(p) \/ handleModulePackageDeletion(p) \/ ActFails(p)
    \/ handleSuspend(p) \/ WaitsForDependency(p)
    \/ ResolveFails(p) \/ Resolve(p) \/ Fetch(p) \/ fetchModulePackageArtifactFails(p)
    \/ RenderStalls(p) \/ RenderFails(p) \/ RenderTimesOut(p) \/ Render(p)
    \/ patchModulePackageIdentityStatus(p) \/ applyAndPruneModulePackage(p) \/ ApplyFails(p)
    \/ judgePackageHealth(p) \/ Panics(p) \/ Commit(p) \/ CommitFails(p)

Next ==
    \/ \E p \in Packages :
         \/ Start(p) \/ Progress(p) \/ LateRenderReturns(p)
         \/ EditSpec(p) \/ DeletePackage(p) \/ RollsOut(p) \/ Degrades(p)
    \/ Restart \/ SourceChanges \/ PlatformChanges \/ PlatformGenerates

Spec == Init /\ [][Next]_vars

(* Timers expire and what is ready is reconciled (the queue is FIFO), a    *)
(* reconcile ends, and the Platform is generated.  Nothing is assumed of   *)
(* a render that outlived its reconcile, nor of a roll-out.                *)
FairSpec ==
    /\ Spec /\ WF_vars(PlatformGenerates)
    /\ \A p \in Packages : SF_vars(Start(p)) /\ WF_vars(Progress(p))
-----------------------------------------------------------------------------
(* Every variable holds a value of its type: what is recorded as the time  *)
(* until the next retry is never negative, whatever interval a user gave.  *)
TypeOK ==
    /\ pkg \in [Packages -> Object] /\ st \in [Packages -> Status]
    /\ objects \in [Packages -> Content \cup {None, Mixed}]
    /\ roll \in [Packages -> {"none", "rolling", "ready", "stuck"}]
    /\ src \in Source /\ plat \in Platforms /\ {cr, held} \subseteq Platforms \cup {None}
    /\ due \in [Packages -> Int] /\ run \in [Packages -> Run]
    /\ {late, lost, dirty, rolledOut} \subseteq SUBSET Packages
    /\ dirs \in [Packages -> SUBSET {"run", "late"}] /\ watched \in BOOLEAN
    /\ troubles \in 0 .. MaxTroubles

(* A directory is on disk exactly as long as someone needs it: the         *)
(* reconcile that renders from it, or the render that outlived its         *)
(* reconcile, which keeps it although the package is reconciled again.     *)
DirsHeld ==
    \A p \in Packages :
      dirs[p] = {d \in {"run", "late"} : IF d = "run" THEN run[p].pc = "render" ELSE p \in late}

(* What a reconcile read of the package is still true, or will be read     *)
(* again: the finalizer and a deletion stay, and an edited spec is queued. *)
RunRead(p) ==
    LET r == run[p]
    IN /\ pkg[p].gen <= troubles + 1
       /\ pkg[p].fin => pkg[p].exists
       /\ r.pc \notin {"idle", "act"} => r.cur.fin
       /\ r.pc # "idle" =>
            /\ due[p] = Never \/ due[p] = Now
            /\ r.cur.spec = pkg[p].spec \/ due[p] = Now
            /\ r.cur.fin => pkg[p].fin
            /\ r.cur.deleting => pkg[p].deleting
       /\ r.pc \in {"fetch", "render"} => r.art \in Artifacts
       /\ r.pc \in {"store", "apply"} => r.content \in Content
       /\ r.fresh => r.pc \in {"judge", "commit"}

(* The status that a reconcile started from is the stored one, but for the *)
(* conditions of a patch that arrived in part; and what it is about to     *)
(* store tells how it ended and when the next attempt is.                  *)
BaseSound(p) ==
    LET r == run[p]
    IN /\ r.pc # "idle" =>
            /\ st[p].digest = r.base.digest /\ st[p].inputs = r.base.inputs
            /\ st[p].healthy = r.base.healthy /\ st[p].retry = r.base.retry
            /\ \/ st[p].ready = r.base.ready
               \/ r.pc = "commit" /\ r.mi.ready = "Failed" /\ st[p].ready \notin {"Failed", "Succeeded"}
       /\ r.pc = "act" => r.mi = r.base
       /\ r.pc \in {"fetch", "render", "store", "apply"} => r.mi.healthy = r.base.healthy
       /\ r.pc = "judge" => r.mi.ready = "Succeeded"
       /\ r.pc = "gate" => r.mi.ready \in {"Suspended", "DependenciesNotReady"}
       /\ r.pc = "commit" => r.mi.ready \in {"Failed", "Succeeded"}
       /\ r.pc = "commit" /\ r.mi.ready = "Failed" =>
            /\ r.mi.retry = IF r.after > 0 THEN r.after ELSE 0
            /\ r.after < 0 => interval(r.cur.spec) < 0

(* The objects are those of the recorded digest, or of the one about to be *)
(* recorded.                                                               *)
AppliedSound(p) ==
    LET r == run[p]
    IN /\ ~r.fresh /\ pkg[p].exists => objects[p] = st[p].digest \/ p \in dirty
       /\ r.fresh => objects[p] = r.mi.digest /\ r.mi.digest \in Content
       /\ r.pc # "idle" =>
            /\ r.fresh \/ r.mi.digest = r.base.digest
            /\ r.mi.inputs # None => r.mi.digest # None
       /\ r.pc \in {"judge", "commit"} /\ r.mi.ready = "Succeeded" => r.mi.digest # None
       /\ st[p].inputs # None => st[p].digest # None
       /\ st[p].ready = "Succeeded" => st[p].digest # None \/ p \in dirty
       /\ p \in dirty /\ pkg[p].exists => objects[p] # None

(* A verdict about to be stored is one on the objects that are there.      *)
HealthSound(p) ==
    LET r == run[p]
    IN /\ roll[p] = "ready" => p \in rolledOut
       /\ roll[p] = "none" /\ pkg[p].exists => objects[p] = None
       /\ r.pc = "commit" /\ r.mi.ready = "Succeeded" /\ r.mi.healthy = "RolledOut" => p \in rolledOut
       /\ r.pc \notin {"judge", "commit", "gate"} /\ pkg[p].exists /\ p \notin lost
          /\ st[p].ready = "Succeeded" /\ st[p].healthy = "RolledOut" => p \in rolledOut

(* The first objects of a package have been written, or it goes.           *)
Begun(q) == objects[q] # None \/ pkg[q].deleting

(* A reconcile past the gate had its dependencies applied before it.       *)
DepsSound(p) ==
    run[p].pc \in {"fetch", "render", "store", "apply"} => \A q \in run[p].cur.spec.deps : Begun(q)

(* The packages are well typed, their directories are held, and each       *)
(* reconcile agrees with what is stored and what is in the cluster.        *)
PackageInv ==
    /\ TypeOK /\ DirsHeld
    /\ \A p \in Packages :
         RunRead(p) /\ BaseSound(p) /\ AppliedSound(p) /\ HealthSound(p) /\ DepsSound(p)

(* Ready=True means that the objects are those of the recorded render.     *)
(* Excepted are packages with objects of an apply that failed or was not   *)
(* recorded: the digests are compared with the recorded ones only, and a   *)
(* package has no drift check.                                             *)
ReadyMeansApplied ==
    \A p \in Packages :
      st[p].ready = "Succeeded" /\ run[p].pc = "idle" /\ pkg[p].exists =>
        objects[p] = st[p].digest \/ p \in dirty

(* A package that failed is attempted again no later than its status says. *)
(* Excepted are a status that got lost and a negative spec.interval, which *)
(* is never requeued.                                                      *)
RetryAnnounced ==
    \A p \in Packages :
      st[p].ready = "Failed" /\ run[p].pc = "idle" /\ pkg[p].exists /\ p \notin lost
      /\ interval(pkg[p].spec) > 0 =>
        due[p] = Now \/ (due[p] > 0 /\ due[p] <= st[p].retry)

(* Healthy=True beside Ready=True is a judgement of the objects as they    *)
(* were last written, not of the ones before.                              *)
HealthyAfterApply ==
    \A p \in Packages :
      st[p].ready = "Succeeded" /\ st[p].healthy = "RolledOut" /\ run[p].pc = "idle"
      /\ pkg[p].exists /\ p \notin lost =>
        p \in rolledOut

(* The first objects of a package are written after those of the packages  *)
(* it depends on, unless they are being deleted.                           *)
DependencyFirst ==
    [][\A p \in Packages : objects[p] = None /\ objects'[p] # None =>
         \A q \in run[p].cur.spec.deps : Begun(q)]_vars

Managed(p) == pkg[p].exists /\ ~pkg[p].deleting /\ ~pkg[p].spec.suspend

(* What keeps a package from becoming Ready by itself.                     *)
HeldUp(p) ==
    \/ ~Managed(p) \/ interval(pkg[p].spec) < 0 \/ p \in late
    \/ ~src.exists \/ ~src.ready \/ src.art.dig \in Broken

(* A package is stuck when it is held up, or depends on one that is stuck: *)
(* cycles of packages that wait for each other included.                   *)
Stuck == UNION {S \in SUBSET Packages :
                  \A p \in S : HeldUp(p) \/ pkg[p].spec.deps \cap S # {}}

Current(p) ==
    LET want == [dig |-> src.art.dig, plat |-> plat]
    IN /\ st[p].ready = "Succeeded" /\ st[p].obs = pkg[p].gen /\ st[p].src = src.art
       /\ st[p].digest = want /\ (objects[p] = want \/ p \in dirty)

(* Left alone, every package that nothing holds up has the current         *)
(* artifact and platform applied and recorded, also without the watches on *)
(* the sources, and whatever was skipped, failed or got lost before.       *)
FollowsSource == <>[](\A p \in Packages : p \in Stuck \/ Current(p))

(* And it reports that its objects rolled out once they have.              *)
HealthFollows ==
    <>[](\A p \in Packages : p \in Stuck \/ (roll[p] = "ready" <=> st[p].healthy = "RolledOut"))

(* Deleted packages go, whatever their source and their dependencies do.   *)
DeletionProceeds == <>[](\A p \in Packages : ~(pkg[p].exists /\ pkg[p].deleting))
=============================================================================
