--------------------------- MODULE ModuleInstance ---------------------------
(***************************************************************************)
(* The reconcile of one ModuleInstance (internal/reconcile/                *)
(* moduleinstance.go) against the cluster objects it holds: render, plan   *)
(* the identities, judge every object, store a changed identity, apply,    *)
(* prune, commit the status.  Every read, write and status patch is a step *)
(* of its own, so users, another instance, a failed call or a restart of   *)
(* the controller can come between any two of them.                        *)
(*                                                                         *)
(* A spec is what the reconcile reads of it: the identity and the objects  *)
(* its render produces, spec.prune, spec.dataPolicy and                    *)
(* spec.rollout.forceConflicts.  The digests of a render are the pair of   *)
(* its identity and its objects.                                           *)
(***************************************************************************)
EXTENDS Identities, FiniteSets

CONSTANTS
    Objects,         \* group, kind, namespace and name of the objects
    Claims,          \* the PersistentVolumeClaims among them
    Excluded,        \* Namespaces and CustomResourceDefinitions
    TTLJobs,         \* Jobs with ttlSecondsAfterFinished
    Registrations,   \* TransformerRegistrations, which the shrink rule may withhold
    Specs,           \* the specs a user may store
    NoDigest,        \* lastApplied* of an instance that was never applied
    CacheMayLag,     \* TRUE: the informer cache may be behind the API server
    MaxEdits,        \* bound on spec edits
    MaxMoves,        \* bound on what users and other instances do to objects
    MaxFaults        \* bound on failed calls, conflicts and restarts

SpecSet ==
    [id: Identity, objs: SUBSET Objects,
     prune: BOOLEAN, deleteData: BOOLEAN, force: BOOLEAN]

Digest(s) == [id |-> s.id, objs |-> s.objs]
DigestSet == [id: Identity, objs: SUBSET Objects]

ASSUME SpecsAssumption ==
    /\ Specs \subseteq SpecSet
    /\ Specs # {}
    /\ NoDigest \notin DigestSet

ASSUME KindsAssumption ==
    /\ Claims \subseteq Objects
    /\ Excluded \subseteq Objects
    /\ TTLJobs \subseteq Objects
    /\ Registrations \subseteq Objects
    /\ CacheMayLag \in BOOLEAN

ASSUME BoundsAssumption == MaxEdits \in Nat /\ MaxMoves \in Nat /\ MaxFaults \in Nat

VARIABLES
    spec,      \* the stored spec
    st,        \* the stored status
    cache,     \* the informer's copy of both
    live,      \* the objects in the cluster
    born,      \* per name, how many objects were created under it (the last UID)
    \* the running reconcile
    pc, cur, mi, base, plan, noop, withheld,
    verdict, read, missing, todo, left, k, target, failed,
    \* bounds
    edits, moves, faults

apiVars == <<spec, st, cache>>
objVars == <<live, born>>
runVars == <<cur, mi, base, plan, noop, withheld>>
stepVars == <<verdict, read, missing, todo, left, k, target, failed>>
vars == <<apiVars, objVars, pc, runVars, stepVars, edits, moves, faults>>

(***************************************************************************)
(* status.instanceUUID, previousInstanceUUID, the inventory's entries, the *)
(* lastApplied digests and the Ready condition.                            *)
(***************************************************************************)
Status ==
    [uuid: Identity, prev: Identity, inv: SUBSET Objects,
     applied: DigestSet \cup {NoDigest}, ready: {"True", "False", "Unknown"}]

NewStatus ==
    [uuid |-> NoId, prev |-> NoId, inv |-> {}, applied |-> NoDigest, ready |-> "Unknown"]

Steps == {"idle", "render", "guard", "plan", "store", "apply", "judge", "delete",
          "commit", "commitStatus"}

NoPlan == Keeps(NoId, NoId)
NoObject == [o \in Objects |-> 0]
Unread == [o \in Objects |-> "unread"]

(* A reconcile's variables when no reconcile runs.                         *)
ClearRun ==
    /\ cur' = spec /\ mi' = NewStatus /\ base' = NewStatus
    /\ plan' = NoPlan /\ noop' = FALSE /\ withheld' = {}
    /\ verdict' = Unread /\ read' = NoObject /\ missing' = {} /\ todo' = {}
    /\ left' = {} /\ k' = 0 /\ target' = {} /\ failed' = FALSE

Init ==
    /\ spec \in Specs /\ st = NewStatus /\ cache = [spec |-> spec, st |-> st]
    /\ live = [o \in Objects |-> Absent] /\ born = [o \in Objects |-> 0]
    /\ pc = "idle"
    /\ cur = spec /\ mi = NewStatus /\ base = NewStatus
    /\ plan = NoPlan /\ noop = FALSE /\ withheld = {}
    /\ verdict = Unread /\ read = NoObject /\ missing = {} /\ todo = {}
    /\ left = {} /\ k = 0 /\ target = {} /\ failed = FALSE
    /\ edits = 0 /\ moves = 0 /\ faults = 0

Fault == faults < MaxFaults /\ faults' = faults + 1

(***************************************************************************)
(* The status patch.  The patch helper sends the fields that differ        *)
(* between the object as read (or last patched) and the object in memory,  *)
(* in two writes: the conditions first, then the rest of the status.       *)
(* Sent is the stored status after the writes that got through.            *)
(***************************************************************************)
Field(got, stored, before, after) == IF got /\ after # before THEN after ELSE stored

Sent(conds, rest, after) ==
    [uuid    |-> Field(rest, st.uuid, base.uuid, after.uuid),
     prev    |-> Field(rest, st.prev, base.prev, after.prev),
     inv     |-> Field(rest, st.inv, base.inv, after.inv),
     applied |-> Field(rest, st.applied, base.applied, after.applied),
     ready   |-> Field(conds, st.ready, base.ready, after.ready)]

(* The reconcile ends here: its outcome s is what the deferred commit      *)
(* patches.                                                                *)
Returns(s) ==
    /\ mi' = s /\ pc' = "commit"
    /\ UNCHANGED <<spec, cache, objVars, cur, base, plan, noop, withheld, stepVars, edits, moves>>

EndsWith(s) == Returns(s) /\ UNCHANGED st

Fails(s) == [s EXCEPT !.ready = "False"]
-----------------------------------------------------------------------------
(***************************************************************************)
(* Loading and rendering                                                   *)
(***************************************************************************)
(* The reconcile reads the object through the cached client.  It starts    *)
(* with MarkReconciling, which resets Ready in memory.                     *)
Start ==
    /\ pc = "idle"
    /\ LET seen == IF CacheMayLag THEN cache ELSE [spec |-> spec, st |-> st]
       IN /\ cur' = seen.spec
          /\ mi' = [seen.st EXCEPT !.ready = "Unknown"]
          /\ base' = seen.st
    /\ pc' = "render"
    /\ UNCHANGED <<apiVars, objVars, plan, noop, withheld, stepVars, edits, moves, faults>>

(* Render, resolve or convert failed or timed out, or the shrink verdict   *)
(* could not be reached.                                                   *)
RenderFails ==
    /\ pc = "render" /\ Fault
    /\ EndsWith(Fails(mi))

(* Mutant: the identity is read from the object in the cluster.            *)
extractInstanceUUIDLive(s) ==
    IF s.objs = {} THEN NoId ELSE live[CHOOSE o \in s.objs : TRUE].label

(* The identity of a render: the label of its first object.                *)
extractInstanceUUID(s) == IF s.objs = {} THEN NoId ELSE s.id

(* noOp: the digests equal the last applied ones and nothing is withheld.  *)
noOp(s, w) == w = {} /\ mi.applied = Digest(s)

(* Mutant: an unsettled identity change may be a NoOp.                     *)
keepsNoOpAlways(p, isNoOp) == isNoOp

keepsNoOp(p, isNoOp) == isNoOp /\ p.prev = NoId

(* The identities are planned, the shrink rule withholds some of the       *)
(* rendered claims (any of them: its decider is another component), and    *)
(* the guard has every other rendered object to read.  A third identity    *)
(* ends the reconcile before anything is applied.                          *)
Render ==
    /\ pc = "render"
    /\ LET p == planIdentities(mi.uuid, mi.prev, extractInstanceUUID(cur))
       IN \/ /\ p.refused
             /\ EndsWith(Fails(mi)) /\ UNCHANGED faults
          \/ /\ ~p.refused
             /\ \E w \in SUBSET (cur.objs \cap Registrations) :
                  /\ withheld' = w
                  /\ noop' = keepsNoOp(p, noOp(cur, w))
                  /\ todo' = cur.objs \ w
             /\ plan' = p /\ verdict' = Unread /\ read' = NoObject
             /\ pc' = "guard"
             /\ UNCHANGED <<apiVars, objVars, cur, mi, base, missing, left, k,
                            target, failed, edits, moves, faults>>
-----------------------------------------------------------------------------
(***************************************************************************)
(* The apply guard (apply.Guard, guardApply) and the plan                  *)
(***************************************************************************)
(* One live read and one verdict.  The identity asked with is the one the  *)
(* plan would record.                                                      *)
GuardRead(o) ==
    /\ pc = "guard" /\ o \in todo /\ plan.uuid # NoId
    /\ verdict' = [verdict EXCEPT ![o] = CanApply(live[o], o \in mi.inv, plan.uuid)]
    /\ read' = [read EXCEPT ![o] = live[o].uid]
    /\ todo' = todo \ {o}
    /\ UNCHANGED <<apiVars, objVars, pc, runVars, missing, left, k, target, failed,
                   edits, moves, faults>>

(* ErrNoIdentity: a render without an identity, and none recorded.         *)
GuardNoIdentity ==
    /\ pc = "guard" /\ todo # {} /\ plan.uuid = NoId
    /\ EndsWith(Fails(mi)) /\ UNCHANGED faults

(* The commit of a reconcile that applies nothing: an empty identity is    *)
(* filled, and the objects of `gone` leave the inventory.                  *)
NoOpStatus(gone) ==
    [mi EXCEPT !.uuid = IF @ = NoId THEN plan.uuid ELSE @, !.inv = @ \ gone,
               !.ready = "True"]

(* A read failed, or the client that applies could not be built.  With     *)
(* unchanged digests that is a failed drift check and the reconcile is a   *)
(* NoOp (unjudged: nothing is missing, taken in or let go); otherwise it   *)
(* fails as a failed apply.                                                *)
GuardFails ==
    /\ pc = "guard" /\ Fault
    /\ EndsWith(IF noop THEN NoOpStatus({}) ELSE Fails(mi))

Allowed == {o \in Objects : verdict[o] = "allow"}
LetGo == {o \in Objects : verdict[o] = "letGo"}
Refused == {o \in Objects : verdict[o] = "refuse"}
TakenIn == {o \in Allowed : read[o] # 0 /\ o \notin mi.inv}

(* detectDrift: the dry-run of the allowed objects names the ones the      *)
(* cluster lacks.                                                          *)
detectDrift ==
    /\ pc = "guard" /\ todo = {}
    /\ \/ /\ missing' = {o \in Allowed \ TakenIn : ~Exists(live[o])}
          /\ UNCHANGED faults
       \/ /\ Fault
          /\ missing' = {}
    /\ pc' = "plan"
    /\ UNCHANGED <<apiVars, objVars, runVars, verdict, read, todo, left, k, target, failed,
                   edits, moves>>

expiredJobs == IF noop THEN missing \cap TTLJobs ELSE {}

(* planRestore: with unchanged digests only the missing objects and the    *)
(* taken-in ones are applied.                                              *)
planRestore == IF noop THEN (missing \ TTLJobs) \cup TakenIn ELSE Allowed

(* A reconcile that keeps the inventoried objects as they are is refused   *)
(* only for an object that exists outside the inventory.                   *)
refusedToWrite == {o \in Refused : noop => o \notin mi.inv}

ApplyRefused ==
    /\ pc = "plan" /\ refusedToWrite # {}
    /\ EndsWith(Fails(mi)) /\ UNCHANGED faults

(* forgetExpiredJobs and forgetLetGo.                                      *)
NoOp ==
    /\ pc = "plan" /\ refusedToWrite = {} /\ noop /\ planRestore = {}
    /\ EndsWith(NoOpStatus(expiredJobs \cup LetGo)) /\ UNCHANGED faults

BeginApply ==
    /\ pc = "plan" /\ refusedToWrite = {} /\ ~(noop /\ planRestore = {})
    /\ todo' = planRestore
    /\ pc' = "store"
    /\ UNCHANGED <<apiVars, objVars, runVars, verdict, read, missing, left, k, target,
                   failed, edits, moves, faults>>
-----------------------------------------------------------------------------
(***************************************************************************)
(* Apply (applyInstance, apply.Apply)                                      *)
(***************************************************************************)
Recorded(s) == [s EXCEPT !.uuid = plan.uuid, !.prev = plan.prev]

(* identityPlan.store: a changed identity is patched before the first      *)
(* write.                                                                  *)
StoreIdentity ==
    /\ pc = "store"
    /\ IF plan.changed
       THEN mi' = Recorded(mi) /\ st' = Sent(TRUE, TRUE, Recorded(mi)) /\ base' = Recorded(mi)
       ELSE UNCHANGED <<mi, st, base>>
    /\ pc' = "apply"
    /\ UNCHANGED <<spec, cache, objVars, cur, plan, noop, withheld, stepVars,
                   edits, moves, faults>>

(* A write of the patch failed, or its answer was lost: nothing is         *)
(* applied, but the fields stay set in memory and the deferred commit      *)
(* sends them again.                                                       *)
StoreFails ==
    /\ pc = "store" /\ plan.changed /\ Fault
    /\ \E conds, rest \in BOOLEAN : st' = Sent(conds, rest, Recorded(mi))
    /\ Returns(Fails(Recorded(mi)))

(* Mutant: a taken-in object is not pinned to the UID the guard read.      *)
PinHoldsUnpinned(o) == TRUE

(* A taken-in object is sent with the UID the guard read.                  *)
PinHolds(o) == o \in TakenIn => live[o].uid = read[o]

(* A new object under the name, with a UID of its own.                     *)
Created(o, managed, label) ==
    [uid |-> born[o] + 1, managed |-> managed, label |-> label, adopt |-> NoId, term |-> FALSE]

(* The object after a server-side apply: created, or relabelled.  The      *)
(* adopt annotation is never written.                                      *)
Written(o) ==
    IF Exists(live[o])
    THEN [live[o] EXCEPT !.managed = TRUE, !.label = cur.id]
    ELSE Created(o, TRUE, cur.id)

ApplyObject(o) ==
    /\ pc = "apply" /\ o \in todo /\ PinHolds(o)
    /\ live' = [live EXCEPT ![o] = Written(o)]
    /\ born' = [born EXCEPT ![o] = Written(o).uid]
    /\ todo' = todo \ {o}
    /\ UNCHANGED <<apiVars, pc, runVars, verdict, read, missing, left, k, target, failed,
                   edits, moves, faults>>

(* Mutant: a forced recreate deletes any refused object.                   *)
MayRecreateAny(o) == TRUE

(* checkTakenIn, checkClaims and the delete guard of the resource manager: *)
(* what a forced recreate may delete.                                      *)
MayRecreate(o) ==
    /\ o \notin TakenIn
    /\ o \in Claims => cur.deleteData

(* With forceConflicts, an object whose update the API server refuses is   *)
(* deleted, to be created again.                                           *)
RecreateDeletes(o) ==
    /\ pc = "apply" /\ o \in todo /\ Exists(live[o])
    /\ cur.force /\ MayRecreate(o)
    /\ Fault
    /\ live' = [live EXCEPT ![o] = Absent]
    /\ UNCHANGED <<apiVars, born, pc, runVars, stepVars, edits, moves>>

(* The pin of a taken-in object does not hold: the API server refuses it.  *)
(* What was applied before it stays.                                       *)
ApplyReplaced ==
    /\ pc = "apply" /\ \E o \in todo : ~PinHolds(o)
    /\ EndsWith(Fails(mi)) /\ UNCHANGED faults

(* A conflict that may not recreate, or any other error.                   *)
ApplyFails ==
    /\ pc = "apply" /\ todo # {} /\ Fault
    /\ EndsWith(Fails(mi))

(* The status of a reconcile whose apply and prune succeeded.              *)
Reconciled ==
    [mi EXCEPT !.prev = NoId, !.inv = (cur.objs \ expiredJobs) \ LetGo,
               !.applied = Digest(cur), !.ready = "True"]

staleEntries == mi.inv \ cur.objs

Prunes == cur.prune /\ staleEntries # {}

(* A reconcile that withheld a registration neither prunes nor records.    *)
ApplyRefusedShrink ==
    /\ pc = "apply" /\ todo = {} /\ withheld # {}
    /\ EndsWith(Fails(mi)) /\ UNCHANGED faults

ApplyDone ==
    /\ pc = "apply" /\ todo = {} /\ withheld = {} /\ ~Prunes
    /\ EndsWith(Reconciled) /\ UNCHANGED faults
-----------------------------------------------------------------------------
(***************************************************************************)
(* Prune (apply.Prune, RunDeletion): one plan per identity                 *)
(***************************************************************************)
PruneIds == IF plan.prune = <<>> THEN <<NoId>> ELSE plan.prune

(* Mutant: claims are planned whatever spec.dataPolicy says.               *)
SplitKeptClaimsNone(entries) == entries

SplitKeptClaims(entries) == IF cur.deleteData THEN entries ELSE entries \ Claims

BeginPrune ==
    /\ pc = "apply" /\ todo = {} /\ withheld = {} /\ Prunes
    /\ todo' = SplitKeptClaims(staleEntries) \ Excluded
    /\ left' = {} /\ k' = 1 /\ failed' = FALSE
    /\ pc' = "judge"
    /\ UNCHANGED <<apiVars, objVars, runVars, verdict, read, missing, target,
                   edits, moves, faults>>

(* One read and one verdict of the current plan.  An entry skipped for a   *)
(* reason that depends on the identity waits for the next plan.            *)
JudgeEntry(o) ==
    /\ pc = "judge" /\ o \in todo
    /\ todo' = todo \ {o}
    /\ LET v == CanDelete(live[o], PruneIds[k])
       IN IF v = "proceed"
          THEN /\ target' = {o} /\ read' = [read EXCEPT ![o] = live[o].uid]
               /\ pc' = "delete" /\ UNCHANGED left
          ELSE /\ left' = IF v = "mismatch" THEN left \cup {o} ELSE left
               /\ UNCHANGED <<target, read, pc>>
    /\ UNCHANGED <<apiVars, objVars, runVars, verdict, missing, k, failed,
                   edits, moves, faults>>

(* A failed read fails its entry, not the run.                             *)
JudgeFails(o) ==
    /\ pc = "judge" /\ o \in todo /\ Fault
    /\ todo' = todo \ {o} /\ failed' = TRUE
    /\ UNCHANGED <<apiVars, objVars, pc, runVars, verdict, read, missing, left, k, target,
                   edits, moves>>

NextPlan ==
    /\ pc = "judge" /\ todo = {} /\ left # {} /\ k < Len(PruneIds)
    /\ todo' = left /\ left' = {} /\ k' = k + 1
    /\ UNCHANGED <<apiVars, objVars, pc, runVars, verdict, read, missing, target, failed,
                   edits, moves, faults>>

(* Mutant: the DELETE carries no precondition.                             *)
UIDHoldsAlways(o) == TRUE

UIDHolds(o) == live[o].uid = read[o]

(* The DELETE, with the UID that was judged and Foreground propagation:    *)
(* the object may stay, terminating.  A replaced object fails the entry.   *)
DeleteTarget ==
    /\ pc = "delete"
    /\ \E o \in target :
         \/ /\ Exists(live[o]) /\ UIDHolds(o)
            /\ \/ live' = [live EXCEPT ![o] = Absent]
               \/ live' = [live EXCEPT ![o].term = TRUE]
            /\ UNCHANGED failed
         \/ /\ ~Exists(live[o])
            /\ UNCHANGED <<live, failed>>
         \/ /\ Exists(live[o]) /\ ~UIDHolds(o)
            /\ failed' = TRUE /\ UNCHANGED live
    /\ target' = {} /\ pc' = "judge"
    /\ UNCHANGED <<apiVars, born, runVars, verdict, read, missing, todo, left, k,
                   edits, moves, faults>>

DeleteFails ==
    /\ pc = "delete" /\ Fault
    /\ failed' = TRUE /\ target' = {} /\ pc' = "judge"
    /\ UNCHANGED <<apiVars, objVars, runVars, verdict, read, missing, todo, left, k,
                   edits, moves>>

(* Mutant: a prune with failed entries counts as a success.                *)
PruneResultIgnored == Reconciled

PruneResult == IF failed THEN Fails(mi) ELSE Reconciled

PruneDone ==
    /\ pc = "judge" /\ todo = {} /\ (left = {} \/ k = Len(PruneIds))
    /\ EndsWith(PruneResult) /\ UNCHANGED faults
-----------------------------------------------------------------------------
(***************************************************************************)
(* The deferred status commit, and restarts                                *)
(***************************************************************************)
(* Both writes are sent whatever became of the first; a failed one is      *)
(* logged and its fields are lost.                                         *)
CommitConditions ==
    /\ pc = "commit"
    /\ \/ st' = Sent(TRUE, FALSE, mi) /\ UNCHANGED faults
       \/ Fault /\ UNCHANGED st
    /\ pc' = "commitStatus"
    /\ UNCHANGED <<spec, cache, objVars, runVars, stepVars, edits, moves>>

CommitStatus ==
    /\ pc = "commitStatus"
    /\ \/ st' = Sent(FALSE, TRUE, mi) /\ UNCHANGED faults
       \/ Fault /\ UNCHANGED st
    /\ pc' = "idle" /\ ClearRun
    /\ UNCHANGED <<spec, cache, objVars, edits, moves>>

(* commitPanicStatus: the attempt is recorded as failed, with the status   *)
(* as it stands in memory.                                                 *)
Panic ==
    /\ pc \notin {"idle", "commit", "commitStatus"} /\ Fault
    /\ EndsWith(Fails(mi))

(* The controller restarts.  The shutdown may end the wait for a render    *)
(* slot: that reconcile records nothing either (skipCommit).               *)
Crash ==
    /\ pc # "idle" /\ Fault
    /\ pc' = "idle" /\ ClearRun
    /\ UNCHANGED <<apiVars, objVars, edits, moves>>
-----------------------------------------------------------------------------
(***************************************************************************)
(* Users, other instances, the API server and the informer                 *)
(***************************************************************************)
EnvUnchanged == UNCHANGED <<pc, runVars, stepVars, faults>>

EditSpec ==
    /\ edits < MaxEdits /\ edits' = edits + 1
    /\ spec' \in Specs \ {spec}
    /\ UNCHANGED <<st, cache, objVars, moves>> /\ EnvUnchanged

CacheSync ==
    /\ CacheMayLag
    /\ cache # [spec |-> spec, st |-> st]
    /\ cache' = [spec |-> spec, st |-> st]
    /\ UNCHANGED <<spec, st, objVars, edits, moves>> /\ EnvUnchanged

Moved(o, obj) ==
    /\ moves < MaxMoves /\ moves' = moves + 1
    /\ live' = [live EXCEPT ![o] = obj]
    /\ UNCHANGED <<apiVars, edits>> /\ EnvUnchanged

(* A user sets the adopt annotation.                                       *)
UserAdopts(o, id) ==
    /\ Exists(live[o]) /\ live[o].adopt # id
    /\ Moved(o, [live[o] EXCEPT !.adopt = id]) /\ UNCHANGED born

(* The other instance applies an object that was handed to it.             *)
OtherTakes(o) ==
    /\ Exists(live[o]) /\ live[o].adopt = Other /\ live[o].label # Other
    /\ Moved(o, [live[o] EXCEPT !.label = Other, !.managed = TRUE]) /\ UNCHANGED born

UserDeletes(o) ==
    /\ Exists(live[o])
    /\ \/ Moved(o, Absent)
       \/ ~live[o].term /\ Moved(o, [live[o] EXCEPT !.term = TRUE])
    /\ UNCHANGED born

(* Something else creates an object under the name: by hand (OPM does not  *)
(* manage it), or as an object of the other instance.                      *)
UserCreates(o) ==
    /\ ~Exists(live[o])
    /\ \/ Moved(o, Created(o, FALSE, NoId))
       \/ Moved(o, Created(o, TRUE, Other))
    /\ born' = [born EXCEPT ![o] = @ + 1]

(* A terminating object goes once its finalizers are released.             *)
TerminationEnds(o) ==
    /\ live[o].term
    /\ live' = [live EXCEPT ![o] = Absent]
    /\ UNCHANGED <<apiVars, born, edits, moves>> /\ EnvUnchanged
-----------------------------------------------------------------------------
(* The steps the controller takes when no call fails.                      *)
Progress ==
    \/ Render \/ GuardNoIdentity \/ detectDrift \/ ApplyRefused \/ NoOp \/ BeginApply
    \/ StoreIdentity \/ ApplyRefusedShrink \/ ApplyDone \/ BeginPrune
    \/ NextPlan \/ DeleteTarget \/ PruneDone
    \/ ApplyReplaced \/ CommitConditions \/ CommitStatus
    \/ \E o \in Objects : GuardRead(o) \/ ApplyObject(o) \/ JudgeEntry(o)

Failure ==
    \/ RenderFails \/ GuardFails \/ StoreFails \/ ApplyFails \/ DeleteFails
    \/ Panic \/ Crash
    \/ \E o \in Objects : RecreateDeletes(o) \/ JudgeFails(o)

Environment ==
    \/ EditSpec \/ CacheSync
    \/ \E o \in Objects :
         \/ OtherTakes(o) \/ UserDeletes(o) \/ UserCreates(o) \/ TerminationEnds(o)
         \/ \E id \in Ids \cup {Other} : UserAdopts(o, id)

Next == Start \/ Progress \/ Failure \/ Environment

Spec == Init /\ [][Next]_vars

(***************************************************************************)
(* Every reconcile ends, and another follows: on the backoff after a       *)
(* failure, else on --instance-reconcile-interval, which is not disabled.  *)
(* Nothing is assumed of users, nor of the objects being deleted.          *)
(***************************************************************************)
FairSpec == Spec /\ WF_vars(Start) /\ WF_vars(Progress)
-----------------------------------------------------------------------------
(***************************************************************************)
(* Properties                                                              *)
(***************************************************************************)
RunTypeOK ==
    /\ pc \in Steps
    /\ cur \in Specs /\ mi \in Status /\ base \in Status
    /\ plan \in IdentityPlan /\ noop \in BOOLEAN /\ withheld \subseteq Objects
    /\ verdict \in [Objects -> {"unread", "allow", "letGo", "refuse"}]
    /\ read \in [Objects -> Nat] /\ missing \subseteq Objects
    /\ todo \subseteq Objects /\ left \subseteq Objects /\ target \subseteq Objects
    /\ k \in Nat /\ failed \in BOOLEAN

(* Every variable holds a value of its type.                               *)
TypeOK ==
    /\ spec \in Specs /\ st \in Status /\ cache \in [spec: Specs, st: Status]
    /\ live \in [Objects -> LiveObject] /\ born \in [Objects -> Nat]
    /\ RunTypeOK
    /\ edits \in Nat /\ moves \in Nat /\ faults \in Nat

(* Whatever fails or restarts between two writes, an inventoried object    *)
(* that carries an identity of this instance carries one the status still  *)
(* records: a prune or a deletion cleanup finds it (identityPlan.store     *)
(* writes a changed identity before the first relabelling, and             *)
(* planIdentities refuses a third one).  It needs a reconcile that reads   *)
(* the status it last wrote.                                               *)
Covers(s) ==
    \A o \in s.inv : live[o].label \in Ids => live[o].label \in {s.uuid, s.prev}

IdentityCoverage == Covers(st)

(* An object that is still this instance's: alive, labelled with one of    *)
(* its identities and not handed over.                                     *)
StillOurs(o) ==
    /\ Exists(live[o]) /\ ~live[o].term
    /\ live[o].managed /\ live[o].label \in Ids /\ live[o].adopt = NoId

(* The spec says that the object stays when it leaves the render.          *)
KeptByPolicy(o) ==
    \/ o \in Claims /\ ~cur.deleteData
    \/ o \in Excluded
    \/ ~cur.prune

(* An entry leaves the recorded inventory while its object is still the    *)
(* instance's own only because it is a claim the data policy keeps, a kind *)
(* OPM never deletes, or the spec does not prune: a failed read, a failed  *)
(* or conflicting DELETE and a changed identity keep the entry until a     *)
(* later reconcile has deleted the object (Prune, Deletion.Results).       *)
NothingAbandoned ==
    [][\A o \in st.inv \ st'.inv : StillOurs(o) => KeptByPolicy(o)]_vars

(* What a step of the controller does to an object, as opposed to a step   *)
(* of a user (which leaves the running reconcile alone).                   *)
ByController == pc # pc' \/ todo # todo' \/ faults # faults'

Removed(o) ==
    Exists(live[o]) /\ (~Exists(live'[o]) \/ (live'[o].term /\ ~live[o].term))

(* No step of the controller deletes a PersistentVolumeClaim unless the    *)
(* spec the reconcile read allows it: not the prune (SplitKeptClaims), not *)
(* a forced recreate (checkClaims, deleteGuard), whatever happens to the   *)
(* claim between two reads.                                                *)
ClaimsSurvive ==
    [][\A o \in Claims : ByController /\ Removed(o) => cur.deleteData]_vars

(* A prune deletes the very object its delete verdict was reached on, and  *)
(* not one created under the name since (the UID precondition).            *)
DeletesWhatItJudged ==
    [][\A o \in Objects :
         ByController /\ pc = "delete" /\ Removed(o) =>
           /\ live[o].uid = read[o]
           /\ o \in mi.inv \ cur.objs]_vars

(* An object outside the inventory is written over only if the guard       *)
(* allowed it, and if it existed when the guard read it, only if it is     *)
(* still that object (pinTakenIn); it is then never deleted and created    *)
(* again.                                                                  *)
TakesInWhatItJudged ==
    [][\A o \in Objects \ mi.inv :
         ByController /\ pc = "apply" /\ Exists(live[o]) /\ live'[o] # live[o]
           => verdict[o] = "allow" /\ (read[o] = 0 \/ live'[o].uid = read[o])]_vars

(* What holds the reconcile up until a user acts: a third identity while a *)
(* change is unsettled, no identity at all, or a rendered object that is   *)
(* being deleted or is not this instance's to write.                       *)
Blocked ==
    \/ st.prev # NoId /\ extractInstanceUUID(spec) \notin {NoId, st.uuid, st.prev}
    \/ spec.objs # {} /\ spec.id = NoId /\ st.uuid = NoId
    \/ \E o \in spec.objs :
         CanApply(live[o], o \in st.inv, extractInstanceUUID(spec)) = "refuse"

(* The stored status describes the stored spec, no identity change is      *)
(* pending, and the objects are in the cluster.                            *)
Settled ==
    /\ st.ready = "True" /\ st.applied = Digest(spec) /\ st.prev = NoId
    /\ extractInstanceUUID(spec) \in {NoId, st.uuid}
    /\ \A o \in spec.objs \ TTLJobs : Exists(live[o])

(* Once users and failures leave it alone, the instance settles, or stays  *)
(* held up by something only a user can change: an aborted identity change *)
(* is finished or taken back, and a partial apply or prune is completed.   *)
(* Excepted is an instance whose registrations are withheld for ever.      *)
Converges == <>[](Settled \/ Blocked) \/ []<>(withheld # {})
-----------------------------------------------------------------------------
(***************************************************************************)
(* The inductive invariant of IdentityCoverage, for a controller that      *)
(* reads the status it last wrote (CacheMayLag is FALSE).                  *)
(***************************************************************************)
Judging == {"guard", "plan", "store"}
Writing == {"apply", "judge", "delete"}
Ending == {"commit", "commitStatus"}

(* A status that holds an earlier identity holds a current one.            *)
Ordered(s) == s.uuid = NoId => s.prev = NoId

(* There is no label where there is no object.                             *)
AbsentBare == \A o \in Objects : ~Exists(live[o]) => live[o].label \notin Ids

(* Up to the commit, the identities and the inventory in memory are the    *)
(* stored ones.                                                            *)
ReadsOwnWrites ==
    pc \in {"render"} \cup Judging \cup Writing =>
      /\ mi.uuid = st.uuid /\ mi.prev = st.prev /\ mi.inv = st.inv
      /\ base.uuid = st.uuid /\ base.prev = st.prev /\ base.inv = st.inv

(* Nothing of what the status covered is lost by recording the plan, and   *)
(* the label the apply writes is the identity the plan records.            *)
PlanSound ==
    /\ pc \in Judging =>
         /\ {st.uuid, st.prev} \subseteq {NoId, plan.uuid, plan.prev}
         /\ plan.uuid = NoId => plan.prev = NoId
         /\ ~plan.changed => plan.uuid = st.uuid /\ plan.prev = st.prev
    /\ pc \in Writing => plan.uuid = st.uuid /\ plan.prev = st.prev
    /\ pc \in Judging \cup Writing =>
         /\ noop => plan.prev = NoId
         /\ extractInstanceUUID(cur) \in {NoId, plan.uuid}

(* What the guard has read and judged.                                     *)
GuardSound ==
    pc \in Judging =>
      /\ pc = "guard" => todo \subseteq cur.objs
      /\ \A o \in Objects : verdict[o] # "unread" => o \in cur.objs
      /\ \A o \in cur.objs \ withheld :
           verdict[o] # "unread" \/ (pc = "guard" /\ o \in todo)
      /\ \A o \in Objects :
           verdict[o] = "allow" /\ read[o] = 0 => live[o].label \notin Ids
      /\ pc # "guard" => missing \subseteq Allowed
      /\ pc = "store" => todo = planRestore /\ refusedToWrite = {}

(* What will be the inventory carries no label but the recorded one, once  *)
(* the apply has written it.                                               *)
ApplySound ==
    pc \in Writing =>
      /\ pc = "apply" => todo \subseteq cur.objs
      /\ \A o \in (cur.objs \ withheld) \ LetGo :
           \/ pc = "apply" /\ o \in todo
           \/ live[o].label \in Ids => live[o].label = plan.uuid
      /\ pc # "apply" => withheld = {}

(* The outcome to commit covers its inventory, and what is stored is the   *)
(* outcome or what the reconcile read.                                     *)
CommitSound ==
    pc \in Ending =>
      /\ Covers(mi) /\ Ordered(mi)
      /\ st.uuid \in {base.uuid, mi.uuid} /\ st.prev \in {base.prev, mi.prev}
      /\ st.inv \in {base.inv, mi.inv}

CoverageInv ==
    /\ TypeOK
    /\ Covers(st) /\ Ordered(st) /\ AbsentBare
    /\ ReadsOwnWrites /\ PlanSound /\ GuardSound /\ ApplySound /\ CommitSound
-----------------------------------------------------------------------------
(***************************************************************************)
(* The inductive invariant of what is written over and deleted             *)
(***************************************************************************)
(* Only what the guard allowed is applied, and no Job that expired.        *)
AllowedOnly ==
    /\ pc = "plan" => missing \subseteq Allowed \ TakenIn
    /\ pc \in {"store", "apply"} => todo \subseteq Allowed \ expiredJobs

Stale == SplitKeptClaims(staleEntries) \ Excluded

(* Only stale entries that the policies let go are judged and deleted.     *)
StaleOnly ==
    /\ pc \in {"judge", "delete"} => todo \cup left \subseteq Stale
    /\ pc = "delete" => \E o \in Stale : target = {o}

PolicyInv == TypeOK /\ AllowedOnly /\ StaleOnly
-----------------------------------------------------------------------------
(***************************************************************************)
(* The inductive invariant of NothingAbandoned                             *)
(***************************************************************************)
(* The prune has a plan for each identity the plan records.                *)
PlansBoth ==
    pc \in Judging \cup Writing => plan.prune = recordedIdentities(plan.uuid, plan.prev)

(* What is forgotten without a delete is not the instance's any more.      *)
ForgetsOthers ==
    /\ pc \in Judging \cup Writing => \A o \in LetGo : ~StillOurs(o)
    /\ pc \in {"plan", "store"} \cup Writing => \A o \in expiredJobs : ~StillOurs(o)

(* The object carries another identity than the j-th plan asks for.        *)
Mismatched(o, j) == PruneIds[j] # NoId /\ live[o].label # PruneIds[j]

(* Where the prune has an object that is the instance's: to be judged      *)
(* under an identity that may be its own, about to be deleted, or left to  *)
(* a later identity.                                                       *)
Accounted(o) ==
    \/ o \in todo /\ \A j \in 1 .. k - 1 : Mismatched(o, j)
    \/ pc = "delete" /\ o \in target
    \/ o \in left /\ \A j \in 1 .. k : Mismatched(o, j)

PruneAccounts ==
    pc \in {"judge", "delete"} /\ ~failed => \A o \in Stale : StillOurs(o) => Accounted(o)

(* The outcome to commit drops only what the policies leave.               *)
DropsSound ==
    pc \in Ending => \A o \in st.inv \ mi.inv : StillOurs(o) => KeptByPolicy(o)

DropInv == PlansBoth /\ ForgetsOthers /\ PruneAccounts /\ DropsSound

(* The reconcile is well typed, covers its objects, acts on what it judged *)
(* and drops nothing that is its own.                                      *)
InstanceInv == CoverageInv /\ PolicyInv /\ DropInv
=============================================================================
