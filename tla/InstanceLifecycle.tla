-------------------------- MODULE InstanceLifecycle --------------------------
(***************************************************************************)
(* When a ModuleInstance is rendered, and when it may go: the gates at the *)
(* start of ReconcileModuleInstance (internal/reconcile/moduleinstance.go),*)
(* the finalizer, the render that is skipped while its inputs are those of *)
(* the last one (internal/reconcile/inputs.go), and the watches that wake  *)
(* the instance (internal/controller/moduleinstance_controller.go).        *)
(*                                                                         *)
(* The pipeline after the render is ModuleInstance, the cleanup of a       *)
(* deletion DeletionCleanup, the Platform reconcile PlatformStore: here    *)
(* each is the outcome it has.  A reconcile reads its own writes.          *)
(***************************************************************************)
EXTENDS Naturals

CONSTANTS
    Inputs,     \* what the module, its version and its values can be
    Skews,      \* the skew policies of the Platform
    Specs,      \* the specs a user may store
    None,       \* no objects, no package, nothing recorded
    Mixed,      \* objects of a render some of which a failed apply wrote
    Theirs,     \* objects the CLI applied
    MaxEdits,   \* bound on edits of the instance, the Platform and the claims
    MaxFaults   \* bound on failed calls and restarts

Spec0 == [inp: Inputs, owner: {"controller", "cli"}, own: BOOLEAN, suspend: BOOLEAN]
Generation == 1 .. MaxEdits + 1
Identity == [gen: Generation, claim: BOOLEAN]
Key == [inp: Inputs, id: Identity, skew: Skews]
Content == [inp: Inputs, id: Identity]
Marker == {None, Mixed, Theirs}

ASSUME LifecycleAssumption ==
    /\ Specs # {} /\ Specs \subseteq Spec0 /\ Skews # {}
    /\ Marker \cap (Key \cup Content \cup Identity) = {}
    /\ None # Mixed /\ None # Theirs /\ Mixed # Theirs
    /\ MaxEdits \in Nat /\ MaxFaults \in Nat

VARIABLES
    inst,      \* the ModuleInstance: generation, deletion, finalizer, spec
    st,        \* its status
    objects,   \* the render its objects in the cluster were written from
    plat,      \* the Platform's spec
    claim,     \* the claims that contribute, as one switch
    cr,        \* the Platform's status
    store,     \* the record renders lease, in memory
    platQueued, platRun,   \* the Platform reconcile
    queued,    \* the workqueue holds the instance
    \* the running reconcile of the instance: what it read, what it rendered,
    \* the status it will patch, and whether it is queued again
    pc, cur, base, key, mi, again,
    periodic,  \* --instance-reconcile-interval is above zero
    lost,      \* what got lost: "commit" of the last render, a Platform "event"
    kept,      \* a gate released the finalizer and left the objects
    edits, faults

Ready == {"", "Succeeded", "Failed", "Suspended", "External", "Refused"}
(* drift: the Drifted condition; "failed" is Unknown, or a check that the  *)
(* failure counters count.                                                 *)
Status == [obs: 0 .. MaxEdits + 1, ready: Ready, drift: {"none", "drifted", "failed"},
           inputs: Key \cup {None}, digest: Content \cup Marker]
Object == [exists: BOOLEAN, gen: Generation, deleting: BOOLEAN, fin: BOOLEAN, spec: Specs]
NoObject == [exists |-> FALSE, gen |-> 1, deleting |-> FALSE, fin |-> FALSE,
             spec |-> CHOOSE s \in Specs : TRUE]
NewStatus == [obs |-> 0, ready |-> "", drift |-> "none", inputs |-> None, digest |-> None]
Record == [id: Identity, skew: Skews]
PlatformStatus == [id: Identity \cup {None}, obs: 0 .. MaxEdits + 1, ready: {"", "True", "False"}]

platVars == <<plat, claim, cr, store, platQueued, platRun>>
runVars == <<cur, base, key, mi, again>>
boundVars == <<edits, faults>>
vars == <<inst, st, objects, platVars, queued, pc, runVars, periodic, lost, kept, boundVars>>

(* A manager that has just started, with an instance that was just created.*)
Init ==
    /\ inst \in [exists: {TRUE}, gen: {1}, deleting: {FALSE}, fin: {FALSE}, spec: Specs]
    /\ st = NewStatus /\ objects = None
    /\ plat \in [gen: {1}, skew: Skews] /\ claim = FALSE
    /\ cr = [id |-> None, obs |-> 0, ready |-> ""] /\ store = None
    /\ platQueued = TRUE /\ platRun = None
    /\ queued = TRUE /\ pc = "idle"
    /\ cur = NoObject /\ base = NewStatus /\ key = None /\ mi = NewStatus /\ again = FALSE
    /\ periodic \in BOOLEAN /\ lost = {} /\ kept = FALSE
    /\ edits = 0 /\ faults = 0

Fault == faults < MaxFaults /\ faults' = faults + 1 /\ UNCHANGED edits
Edit == edits < MaxEdits /\ edits' = edits + 1 /\ UNCHANGED faults

(* The reconcile is over; r says whether it asked to be queued again.      *)
EndsRun(r) ==
    /\ pc' = "idle" /\ queued' = (queued \/ r)
    /\ cur' = NoObject /\ base' = NewStatus /\ key' = None /\ mi' = NewStatus /\ again' = FALSE

(* What is left to do is to patch the status to s.                         *)
Patches(step, s, r) == pc' = step /\ mi' = s /\ again' = r /\ UNCHANGED <<cur, base>>
-----------------------------------------------------------------------------
(***************************************************************************)
(* The Platform, as far as a render and the watch see it                   *)
(***************************************************************************)
PinSet(status) == status.id

(* Mutant: the pin set is not compared.                                    *)
platformConsumedFieldsChangedSpec(p, s) ==
    p.skew # plat.skew \/ s.obs # cr.obs \/ s.ready # cr.ready

(* The Platform, with spec p and status s from now on, has changed in a    *)
(* field that renders consume.                                             *)
platformConsumedFieldsChanged(p, s) ==
    p.skew # plat.skew \/ s.obs # cr.obs \/ s.ready # cr.ready \/ PinSet(s) # PinSet(cr)

(* The index that maps the Platform to the instances that render.          *)
moduleInstancePlatform == inst.exists /\ inst.spec.owner # "cli" /\ ~inst.spec.suspend

mapPlatformToModuleInstances(p, s) ==
    queued' = (queued \/ (platformConsumedFieldsChanged(p, s) /\ moduleInstancePlatform))

(* Generate, build and SetGenerated; or a failure, which leaves the store. *)
PlatformGenerate ==
    LET rec == [id |-> [gen |-> plat.gen, claim |-> claim], skew |-> plat.skew]
    IN /\ platRun = None /\ platQueued
       /\ \/ /\ store' = rec /\ platQueued' = FALSE /\ UNCHANGED boundVars
             /\ platRun' = [id |-> rec.id, obs |-> plat.gen, ready |-> "True"]
          \/ /\ Fault /\ UNCHANGED <<store, platQueued>>
             /\ platRun' = [id |-> cr.id, obs |-> plat.gen, ready |-> "False"]
       /\ UNCHANGED <<inst, st, objects, plat, claim, cr, queued, pc, runVars, periodic, lost, kept>>

PlatformPatch ==
    /\ platRun # None
    /\ cr' = platRun /\ platRun' = None
    /\ mapPlatformToModuleInstances(plat, platRun)
    /\ UNCHANGED <<inst, st, objects, plat, claim, store, platQueued, pc, runVars, periodic,
                   lost, kept, boundVars>>

(* The patch fails and the Platform is queued again.  If it changes back   *)
(* meanwhile, no event ever tells of the package that was on offer.        *)
PlatformPatchFails ==
    /\ platRun # None /\ Fault
    /\ platRun' = None /\ platQueued' = TRUE /\ lost' = lost \cup {"event"}
    /\ UNCHANGED <<inst, st, objects, plat, claim, cr, store, queued, pc, runVars, periodic, kept>>
-----------------------------------------------------------------------------
(***************************************************************************)
(* The gates                                                               *)
(***************************************************************************)
Start ==
    /\ pc = "idle" /\ queued
    /\ queued' = FALSE
    /\ IF inst.exists
         THEN pc' = "act" /\ cur' = inst /\ base' = st /\ UNCHANGED <<key, mi, again>>
         ELSE UNCHANGED <<pc, runVars>>
    /\ UNCHANGED <<inst, st, objects, platVars, periodic, lost, kept, boundVars>>

isOwnInstance == cur.spec.own
handleNotReconciled == cur.spec.owner = "cli" \/ isOwnInstance

(* A deleting object that loses its last finalizer is gone.                *)
Without(o) == [o EXCEPT !.fin = FALSE, !.exists = @ /\ ~o.deleting]

removeFinalizer == inst' = Without(inst)

handleCLIOwned ==
    /\ pc = "act" /\ cur.spec.owner = "cli"
    /\ \/ /\ ~cur.deleting
          /\ Patches("gate", [base EXCEPT !.ready = "External"], FALSE)
          /\ UNCHANGED <<inst, queued, key, kept>>
       \/ /\ cur.deleting
          /\ removeFinalizer /\ kept' = TRUE /\ EndsRun(FALSE)
    /\ UNCHANGED <<st, objects, platVars, periodic, lost, boundVars>>

handleOwnInstance ==
    /\ pc = "act" /\ cur.spec.owner # "cli" /\ isOwnInstance
    /\ IF cur.fin THEN removeFinalizer /\ kept' = TRUE ELSE UNCHANGED <<inst, kept>>
    /\ \/ cur.deleting /\ EndsRun(FALSE)
       \/ /\ ~cur.deleting
          /\ Patches("gate", [base EXCEPT !.ready = "Refused", !.drift = "none", !.obs = cur.gen], FALSE)
          /\ UNCHANGED <<queued, key>>
    /\ UNCHANGED <<st, objects, platVars, periodic, lost, boundVars>>

(* Mutant: the finalizer is registered once there is something to clean up.*)
FinalizerDueLate == ~cur.fin /\ base.digest # None

FinalizerDue == ~cur.fin

(* The instance may have been deleted since it was read: then it is gone,  *)
(* and the error queues it again.                                          *)
addFinalizer ==
    /\ pc = "act" /\ ~handleNotReconciled /\ FinalizerDue
    /\ inst' = [inst EXCEPT !.fin = inst.exists]
    /\ kept' = (kept /\ ~inst.exists) /\ EndsRun(TRUE)
    /\ UNCHANGED <<st, objects, platVars, periodic, lost, boundVars>>

(* Mutant: suspend is looked at before the deletion.                       *)
BranchSuspendFirst ==
    IF cur.spec.suspend THEN "suspend" ELSE IF cur.deleting THEN "deletion" ELSE "render"

Branch ==
    IF cur.deleting THEN "deletion" ELSE IF cur.spec.suspend THEN "suspend" ELSE "render"

Takes(branch) == pc = "act" /\ ~handleNotReconciled /\ ~FinalizerDue /\ Branch = branch

(* The cleanup of an instance that prunes deletes what its inventory       *)
(* records; objects of an apply that failed or was never recorded may be   *)
(* left.                                                                   *)
handleDeletion ==
    /\ Takes("deletion")
    /\ objects' \in IF objects = base.digest THEN {None} ELSE {None, Mixed}
    /\ removeFinalizer /\ EndsRun(FALSE)
    /\ UNCHANGED <<st, platVars, periodic, lost, kept, boundVars>>

handleSuspend ==
    /\ Takes("suspend")
    /\ Patches("gate", [base EXCEPT !.ready = "Suspended", !.obs = cur.gen], FALSE)
    /\ UNCHANGED <<inst, st, objects, platVars, queued, key, periodic, lost, kept, boundVars>>

(* A call of a gate or of the cleanup fails, or the cleanup has to wait.   *)
ActFails ==
    /\ pc = "act" /\ (handleNotReconciled \/ FinalizerDue \/ cur.deleting)
    /\ Fault /\ EndsRun(TRUE)
    /\ UNCHANGED <<inst, st, objects, platVars, periodic, lost, kept>>
-----------------------------------------------------------------------------
(***************************************************************************)
(* The render and its skip                                                 *)
(***************************************************************************)
(* The key as far as the Platform object says.                             *)
platformKeyParts == [inp |-> cur.spec.inp, id |-> PinSet(cr), skew |-> plat.skew]

(* Mutant: the generation is not compared.                                 *)
maySkipAnyGeneration ==
    base.ready = "Succeeded" /\ cr.id # None /\ base.inputs = platformKeyParts

maySkip ==
    /\ base.ready = "Succeeded" /\ base.obs = cur.gen
    /\ cr.id # None /\ base.inputs = platformKeyParts

(* The last render is young enough, and no Job of the inventory is absent. *)
skipInstanceRender ==
    /\ Takes("render") /\ maySkip
    /\ EndsRun(periodic)
    /\ UNCHANGED <<inst, st, objects, platVars, periodic, lost, kept, boundVars>>

(* The inputs a render had: its spec, and the record it leased.            *)
renderedKey(rec) == [inp |-> cur.spec.inp, id |-> rec.id, skew |-> rec.skew]

Digest(k) == [inp |-> k.inp, id |-> k.id]

RenderFailed(s) == Patches("commit", [s EXCEPT !.ready = "Failed", !.obs = cur.gen], TRUE)

(* No platform is held, or the render fails or times out.                  *)
RenderFails ==
    /\ Takes("render")
    /\ \/ store = None /\ UNCHANGED boundVars
       \/ Fault
    /\ RenderFailed(base)
    /\ UNCHANGED <<inst, st, objects, platVars, queued, key, periodic, lost, kept>>

(* Mutant: a reconcile with nothing to apply does not look at the objects. *)
detectDriftUnlessNoOp(d) == IF d # base.digest /\ objects # d THEN "drifted" ELSE "none"

(* The dry-run compares the objects of the render.  What a failed apply    *)
(* left beside them is not compared, and not counted in objects either.    *)
detectDrift(d) == IF objects # d /\ objects # None THEN "drifted" ELSE "none"

(* The status of a success: recordInputs, the digests, MarkReady.          *)
Success(k, drift) ==
    [obs |-> cur.gen, ready |-> "Succeeded", drift |-> drift, inputs |-> k, digest |-> Digest(k)]

(* Render, guard and drift detection, which may fail without ending the    *)
(* reconcile.  A render with the digests of the last apply is a NoOp.      *)
Render ==
    /\ Takes("render") /\ store # None
    /\ LET k == renderedKey(store)
       IN /\ key' = k
          /\ \E drift \in {detectDrift(Digest(k)), "failed"} :
               /\ IF drift = "failed" THEN Fault ELSE UNCHANGED boundVars
               /\ IF Digest(k) = base.digest
                    THEN Patches("commit", Success(k, drift), periodic)
                    ELSE Patches("apply", [base EXCEPT !.drift = drift, !.obs = cur.gen], FALSE)
    /\ UNCHANGED <<inst, st, objects, platVars, queued, periodic, lost, kept>>

(* Apply and prune.                                                        *)
Apply ==
    /\ pc = "apply"
    /\ objects' = Digest(key)
    /\ Patches("commit", Success(key, "none"), periodic)
    /\ UNCHANGED <<inst, st, platVars, queued, key, periodic, lost, kept, boundVars>>

ApplyFails ==
    /\ pc = "apply" /\ Fault
    /\ objects' \in {objects, Mixed}
    /\ RenderFailed(mi)
    /\ UNCHANGED <<inst, st, platVars, queued, key, periodic, lost, kept>>

(* The patch sends the fields that changed; conds and rest say which of    *)
(* its two writes arrived.                                                 *)
Field(got, stored, before, after) == IF got /\ after # before THEN after ELSE stored

Sent(conds, rest) ==
    [obs    |-> Field(rest, st.obs, base.obs, mi.obs),
     ready  |-> Field(conds, st.ready, base.ready, mi.ready),
     drift  |-> Field(conds, st.drift, base.drift, mi.drift),
     inputs |-> Field(rest, st.inputs, base.inputs, mi.inputs),
     digest |-> Field(rest, st.digest, base.digest, mi.digest)]

(* The deferred commit, or the patch of a gate.                            *)
Commit ==
    /\ pc \in {"commit", "gate"} /\ inst.exists
    /\ st' = Sent(TRUE, TRUE)
    /\ lost' = IF pc = "commit" THEN lost \ {"commit"} ELSE lost
    /\ UNCHANGED inst /\ EndsRun(again)
    /\ UNCHANGED <<objects, platVars, periodic, kept, boundVars>>

(* The commit of a render only logs that it failed; the patch of a gate    *)
(* returns the error, also when the object is gone.                        *)
CommitFails ==
    /\ pc \in {"commit", "gate"}
    /\ \/ inst.exists /\ Fault /\ \E conds \in BOOLEAN : st' = Sent(conds, FALSE)
       \/ ~inst.exists /\ UNCHANGED <<st, boundVars>>
    /\ lost' = IF pc = "commit" THEN lost \cup {"commit"} ELSE lost
    /\ UNCHANGED inst /\ EndsRun(again \/ pc = "gate")
    /\ UNCHANGED <<objects, platVars, periodic, kept>>

(* The process dies.  The new one lists the instance and the Platform.     *)
Restart ==
    /\ Fault
    /\ objects' \in IF pc = "apply" THEN {objects, Mixed} ELSE {objects}
    /\ lost' = IF pc \in {"apply", "commit"} THEN lost \cup {"commit"} ELSE lost
    /\ store' = None /\ platQueued' = TRUE /\ platRun' = None
    /\ UNCHANGED <<inst, st, plat, claim, cr, periodic, kept>> /\ EndsRun(TRUE)
-----------------------------------------------------------------------------
(***************************************************************************)
(* Users, the CLI and the claims                                           *)
(***************************************************************************)
(* The predicate of the instance's own watch: its generation changed.      *)
EditSpec ==
    /\ inst.exists /\ Edit
    /\ \E s \in Specs \ {inst.spec} : inst' = [inst EXCEPT !.spec = s, !.gen = @ + 1]
    /\ queued' = TRUE
    /\ UNCHANGED <<st, objects, platVars, pc, runVars, periodic, lost, kept>>

DeleteInstance ==
    /\ inst.exists /\ ~inst.deleting /\ Edit
    /\ inst' = [inst EXCEPT !.deleting = TRUE, !.gen = @ + 1, !.exists = inst.fin]
    /\ queued' = TRUE
    /\ UNCHANGED <<st, objects, platVars, pc, runVars, periodic, lost, kept>>

(* The CLI applies its render and records it in the status.                *)
CLIApplies ==
    /\ inst.exists /\ inst.spec.owner = "cli" /\ ~inst.deleting
    /\ objects' = Theirs /\ st' = [st EXCEPT !.digest = Theirs]
    /\ UNCHANGED <<inst, platVars, queued, pc, runVars, periodic, lost, kept, boundVars>>

EditPlatform ==
    /\ Edit
    /\ \E k \in Skews : plat' = [gen |-> plat.gen + 1, skew |-> k]
    /\ platQueued' = TRUE
    /\ mapPlatformToModuleInstances(plat', cr)
    /\ UNCHANGED <<inst, st, objects, claim, cr, store, platRun, pc, runVars, periodic, lost, kept>>

ClaimsChange ==
    /\ Edit
    /\ claim' = ~claim /\ platQueued' = TRUE
    /\ UNCHANGED <<inst, st, objects, plat, cr, store, platRun, queued, pc, runVars, periodic,
                   lost, kept>>
-----------------------------------------------------------------------------
Progress ==
    \/ handleCLIOwned \/ handleOwnInstance \/ addFinalizer \/ handleDeletion \/ handleSuspend
    \/ skipInstanceRender \/ RenderFails \/ Render \/ Apply \/ ApplyFails
    \/ Commit \/ CommitFails \/ ActFails

Next ==
    \/ Start \/ Progress \/ PlatformGenerate \/ PlatformPatch \/ PlatformPatchFails
    \/ Restart \/ EditSpec \/ DeleteInstance \/ CLIApplies \/ EditPlatform \/ ClaimsChange

Spec == Init /\ [][Next]_vars

(* Reconciles end, and what is queued is reconciled, the Platform too.     *)
FairSpec ==
    /\ Spec
    /\ WF_vars(Start) /\ WF_vars(Progress)
    /\ WF_vars(PlatformGenerate) /\ WF_vars(PlatformPatch)
-----------------------------------------------------------------------------
TypeOK ==
    /\ inst \in Object /\ cur \in Object
    /\ st \in Status /\ base \in Status /\ mi \in Status
    /\ objects \in Content \cup Marker /\ key \in Key \cup {None}
    /\ plat \in [gen: Generation, skew: Skews] /\ claim \in BOOLEAN
    /\ cr \in PlatformStatus /\ store \in Record \cup {None}
    /\ platRun \in PlatformStatus \cup {None}
    /\ {platQueued, queued, again, periodic, kept} \subseteq BOOLEAN
    /\ pc \in {"idle", "act", "apply", "gate", "commit"}
    /\ lost \subseteq {"commit", "event"}
    /\ edits \in 0 .. MaxEdits /\ faults \in 0 .. MaxFaults

(* An instance that reports success for the spec it has holds the objects  *)
(* it says it applied, or says that they drifted or were not compared: a   *)
(* failed apply that is taken back does not hide behind the digests of the *)
(* one before it.  Excepted is a commit that was lost.                     *)
NoDriftHidden ==
    inst.exists /\ st.ready = "Succeeded" /\ st.obs = inst.gen =>
      \/ objects = st.digest \/ st.drift # "none"
      \/ pc \in {"apply", "commit"} \/ "commit" \in lost

(* Generations grow with the edits, and a spec that the status observed is *)
(* not the CLI's.                                                          *)
GensSound ==
    /\ inst.gen <= edits + 1 /\ plat.gen <= edits + 1 /\ st.obs <= inst.gen
    /\ st.obs = inst.gen => inst.spec.owner # "cli"

(* What a running reconcile may rely on: it alone writes the status, but   *)
(* for the digest, which the CLI records under a later spec.  It adds and  *)
(* removes the finalizer, which keeps the instance while it renders.       *)
RunRead ==
    pc # "idle" =>
      /\ st = [base EXCEPT !.digest = st.digest] /\ st.digest \in {base.digest, Theirs}
      /\ cur.gen <= inst.gen
      /\ cur.deleting => inst.deleting
      /\ cur.gen = inst.gen =>
           inst.spec = cur.spec /\ (cur.spec.owner = "cli" \/ st.digest = base.digest)
      /\ pc = "act" /\ cur.fin => inst.exists /\ inst.fin
      /\ pc \in {"apply", "commit"} => inst.exists /\ inst.fin /\ cur.spec.owner # "cli"

(* What it will write: only a render that came to its end is a success,    *)
(* with the digests of what it applied or found applied.                   *)
RunWrites ==
    /\ pc = "gate" =>
         /\ mi.ready # "Succeeded" /\ mi.digest = base.digest
         /\ mi.obs = base.obs \/ (mi.obs = cur.gen /\ cur.spec.owner # "cli")
    /\ pc = "apply" => key # None /\ mi.digest = base.digest
    /\ pc \in {"apply", "commit"} => mi.obs = cur.gen
    /\ pc = "commit" /\ mi.ready # "Succeeded" => mi.digest = base.digest
    /\ pc = "commit" /\ mi.ready = "Succeeded" =>
         /\ mi.inputs # None /\ mi.digest = Digest(mi.inputs) /\ objects # None
         /\ cur.gen = inst.gen => objects = mi.digest \/ mi.drift # "none"

(* Objects that never were are not recorded.                               *)
NothingYet == inst.exists /\ objects = None => st.digest = None

(* The finalizer holds the instance as long as there are objects that the  *)
(* controller applied, unless a gate let go of them.                       *)
FinalizerFirst == objects \notin Marker => kept \/ (inst.exists /\ inst.fin)

(* The digest that a success records is that of the inputs it records.     *)
DigestSound ==
    st.ready = "Succeeded" /\ st.obs = inst.gen =>
      (st.inputs # None /\ st.digest = Digest(st.inputs)) \/ "commit" \in lost

(* The instance is well typed and hides no drift, which rests on what each *)
(* reconcile reads, writes and records.                                    *)
RecordInv ==
    /\ TypeOK /\ NoDriftHidden /\ GensSound /\ RunRead /\ RunWrites
    /\ NothingYet /\ FinalizerFirst /\ DigestSound

(* An instance is gone only with the objects the controller recorded: the  *)
(* finalizer is there before the first object and comes off after the      *)
(* last, unless a gate handed the objects over.                            *)
GoneClean ==
    ~inst.exists => objects \in {None, Mixed, Theirs} \/ kept

(* The render of the stored spec is skipped only when the objects were     *)
(* written from it and the package the Platform reports, or their drift is *)
(* reported.                                                               *)
SkipHidesNothing ==
    [][skipInstanceRender /\ cur.gen = inst.gen =>
         \/ objects = Digest(platformKeyParts) \/ base.drift # "none"
         \/ "commit" \in lost]_vars

Current ==
    LET want == [inp |-> inst.spec.inp, id |-> [gen |-> plat.gen, claim |-> claim], skew |-> plat.skew]
    IN /\ st.ready = "Succeeded" /\ st.obs = inst.gen /\ st.inputs = want
       /\ objects = Digest(want) \/ st.drift # "none"

Managed ==
    inst.exists /\ ~inst.deleting /\ inst.spec.owner # "cli" /\ ~inst.spec.own /\ ~inst.spec.suspend

(* Left alone, an instance the controller manages is rendered from its     *)
(* spec and the current platform, with the periodic reconcile disabled     *)
(* too: the watches wake it, and the skip never stands in the way.         *)
RendersCurrent ==
    <>[](Managed => Current \/ "commit" \in lost \/ (~periodic /\ "event" \in lost))

(* A deleted instance goes, suspended, handed over or refused as it may be.*)
DeletionProceeds == inst.deleting ~> ~inst.exists
=============================================================================
