--------------------------- MODULE DeletionCleanup ---------------------------
(***************************************************************************)
(* The deletion cleanup of a ModuleInstance or ModulePackage that is being *)
(* deleted (internal/reconcile/deletion.go): the inventoried objects are   *)
(* deleted as the instance's ServiceAccount, and the cleanup finalizer     *)
(* stays until they are gone.  The reconcile never waits: each one starts  *)
(* fresh plans, and the one fact it carries to the next is the reason of   *)
(* the Ready condition.                                                    *)
(*                                                                         *)
(* Ages are left out: whether an object has been terminating for           *)
(* BlockedAfter is a choice of the step that asks.                         *)
(***************************************************************************)
EXTENDS Identities, FiniteSets

CONSTANTS
    Entries,         \* status.inventory.entries
    Claims,          \* the PersistentVolumeClaims among them
    Excluded,        \* Namespaces and CustomResourceDefinitions
    Uuid, Previous,  \* status.instanceUUID and previousInstanceUUID
    Policies,        \* the policies a user may store
    IsInstance,      \* a ModuleInstance, which has the wake-ups below; or a ModulePackage
    MaxEdits,        \* bound on what users do to the spec and the ServiceAccount
    MaxMoves,        \* bound on what users and other instances do to objects
    MaxFaults        \* bound on failed calls and restarts

(* spec.prune, spec.dataPolicy, spec.owner and the force-delete-orphan     *)
(* annotation.                                                             *)
Policy == [prune: BOOLEAN, deleteData: BOOLEAN, cli: BOOLEAN, orphan: BOOLEAN]

ASSUME CleanupAssumption ==
    /\ Claims \subseteq Entries /\ Excluded \subseteq Entries
    /\ Uuid \in Identity /\ Previous \in Identity
    /\ Policies \subseteq Policy /\ IsInstance \in BOOLEAN
    /\ MaxEdits \in Nat /\ MaxMoves \in Nat /\ MaxFaults \in Nat

VARIABLES
    fin,       \* the object carries the cleanup finalizer
    ready,     \* the reason of Ready=False
    inv,       \* the inventory
    policy,    \* the stored policy
    sa,        \* the ServiceAccount: "none" when the controller deletes as itself
    live,      \* the objects in the cluster
    touched,   \* the objects that users or other instances made or took
    due,       \* the queue: soon, or when the stall it names is rechecked
    missed,    \* the ServiceAccount is there and the deletion was not told
    \* the running reconcile
    pc, cur, rec, mark, event, todo, left, k, target, read, sent, failed,
    \* bounds
    edits, moves, faults

objVars == <<live, touched>>
userVars == <<policy, sa, edits>>
queueVars == <<due, missed>>
runVars == <<cur, rec, mark, event>>
planVars == <<todo, left, k, target, read, sent, failed>>
vars == <<fin, ready, inv, objVars, moves, userVars, queueVars, pc, runVars, planVars, faults>>

Waiting == {"inProgress", "blocked"}
Stalls == {"saMissing", "impersonationFailed"}
Reasons == Waiting \cup Stalls \cup {"other"}
Steps == {"idle", "identity", "judge", "delete", "gone", "patch", "orphan", "release"}

identities ==
    LET ids == recordedIdentities(Uuid, Previous) IN IF ids = <<>> THEN <<NoId>> ELSE ids

(* What an inventoried object may have become since its last apply.        *)
Applied(label) ==
    [uid |-> 1, managed |-> TRUE, label |-> label, adopt |-> NoId, term |-> FALSE]

Inventoried ==
    {Absent} \cup {Applied(id) : id \in {Uuid, Previous, Other} \ {NoId}}
             \cup {[Applied(Uuid) EXCEPT !.adopt = Other]}

Init ==
    /\ fin = TRUE /\ ready = "other" /\ inv = Entries
    /\ policy \in Policies /\ sa \in {"none", "present", "gone"}
    /\ live \in [Entries -> Inventoried] /\ touched = {}
    /\ due = "soon" /\ missed = FALSE
    /\ pc = "idle" /\ cur = policy /\ rec = "other" /\ mark = "other" /\ event = "none"
    /\ todo = {} /\ left = {} /\ k = 0 /\ target = {} /\ read = [o \in Entries |-> 0]
    /\ sent = {} /\ failed = "no"
    /\ edits = 0 /\ moves = 0 /\ faults = 0

Fault == faults < MaxFaults /\ faults' = faults + 1

(* The reconcile ends; nothing it held in memory is left.  An event that   *)
(* came meanwhile has it start again at once.                              *)
Ends(after) ==
    /\ due' = IF due = "soon" THEN due ELSE after
    /\ pc' = "idle" /\ cur' = policy /\ rec' = "other" /\ mark' = "other" /\ event' = "none"
    /\ todo' = {} /\ left' = {} /\ k' = 0 /\ target' = {} /\ read' = [o \in Entries |-> 0]
    /\ sent' = {} /\ failed' = "no"
-----------------------------------------------------------------------------
(***************************************************************************)
(* The verdicts that need no run                                           *)
(***************************************************************************)
(* Mutant: claims are planned whatever spec.dataPolicy says.               *)
SplitKeptClaimsNone(entries) == entries

SplitKeptClaims(entries) == IF cur.deleteData THEN entries ELSE entries \ Claims

(* Mutant: any Ready=False of a deleting object counts as the record.      *)
recordedWaitReasonAny == IF ready = "other" THEN "other" ELSE "inProgress"

(* The record that an earlier reconcile of this deletion sent every        *)
(* delete.                                                                 *)
recordedWaitReason == IF ready \in Waiting THEN ready ELSE "other"

(* handleCLIOwned and the two early verdicts, prune-disabled and           *)
(* inventory-empty, release without a read.                                *)
Start ==
    /\ pc = "idle" /\ fin /\ due # "none"
    /\ due' = "none"
    /\ cur' = policy /\ rec' = recordedWaitReason
    /\ event' = "none"
    /\ pc' = IF policy.cli \/ ~policy.prune \/ inv = {} THEN "release" ELSE "identity"
    /\ UNCHANGED <<fin, ready, inv, objVars, moves, userVars, missed, mark, planVars, faults>>

(* Mutant: a recheck that could not be done is handled as a first pass.    *)
HasRecordNever == FALSE

HasRecord == rec \in Waiting

(* holdRecheck: the finalizer and the record stay.                         *)
HoldMarks == IF rec = "blocked" THEN {"blocked"} ELSE Waiting

Marks(reasons) == pc' = "patch" /\ mark' \in reasons /\ UNCHANGED event

Releases(why) == pc' = "release" /\ event' = why /\ UNCHANGED mark

(* Mutant: the record does not release a ServiceAccount that is gone.      *)
actOnLostIdentityHolds(held) ==
    IF SplitKeptClaims(inv) = {} THEN Releases("unconfirmed")
    ELSE IF cur.orphan /\ held # "failed" THEN pc' = "orphan" /\ UNCHANGED <<mark, event>>
    ELSE IF HasRecord THEN Marks(HoldMarks)
    ELSE Marks({IF held = "failed" THEN "impersonationFailed" ELSE "saMissing"})

(* actOnLostIdentity: no object is read or deleted.  "gone" is a NotFound  *)
(* of exactly this ServiceAccount, "missing" any other NotFound.           *)
actOnLostIdentity(held) ==
    IF SplitKeptClaims(inv) = {} THEN Releases("unconfirmed")
    ELSE IF cur.orphan /\ held # "failed" THEN pc' = "orphan" /\ UNCHANGED <<mark, event>>
    ELSE IF HasRecord /\ held # "gone" THEN Marks(HoldMarks)
    ELSE IF HasRecord THEN Releases("unconfirmed")
    ELSE Marks({IF held = "failed" THEN "impersonationFailed" ELSE "saMissing"})

(* resolveDeletingIdentity.  The lookup may fail, or be answered by        *)
(* something else than the ServiceAccount.                                 *)
LoseIdentity ==
    /\ pc = "identity"
    /\ \/ sa = "gone" /\ actOnLostIdentity("gone") /\ missed' = FALSE /\ UNCHANGED faults
       \/ /\ sa # "none" /\ Fault
          /\ \E held \in {"missing", "failed"} :
               actOnLostIdentity(held) /\ missed' = (held = "missing" /\ sa = "present")
    /\ UNCHANGED <<fin, ready, inv, objVars, moves, userVars, due, cur, rec, planVars>>

(* The orphan exit clears the inventory; a failed patch is logged only.    *)
Orphan ==
    /\ pc = "orphan"
    /\ \/ inv' = {} /\ UNCHANGED faults
       \/ Fault /\ UNCHANGED inv
    /\ Releases("orphaned")
    /\ UNCHANGED <<fin, ready, objVars, moves, userVars, queueVars, cur, rec, planVars>>

(* RunCleanup: the first plan holds every entry but the kept claims.       *)
RunCleanup ==
    /\ pc = "identity" /\ sa # "gone"
    /\ todo' = SplitKeptClaims(inv) \ Excluded
    /\ left' = {} /\ k' = 1 /\ sent' = {} /\ failed' = "no" /\ pc' = "judge"
    /\ missed' = FALSE
    /\ UNCHANGED <<fin, ready, inv, objVars, moves, userVars, due, runVars, target, read, faults>>
-----------------------------------------------------------------------------
(***************************************************************************)
(* The plans (RunDeletion): one per identity                               *)
(***************************************************************************)
runOnly == UNCHANGED <<fin, ready, inv, moves, userVars, queueVars, runVars, k>>

JudgeEntry(o) ==
    /\ pc = "judge" /\ o \in todo
    /\ todo' = todo \ {o}
    /\ LET v == CanDelete(live[o], identities[k])
       IN IF v = "proceed"
          THEN /\ target' = {o} /\ read' = [read EXCEPT ![o] = live[o].uid]
               /\ pc' = "delete" /\ UNCHANGED left
          ELSE /\ left' = IF v = "mismatch" THEN left \cup {o} ELSE left
               /\ UNCHANGED <<target, read, pc>>
    /\ UNCHANGED <<objVars, sent, failed, faults>> /\ runOnly

(* A failed step; a Forbidden one decides the verdict of the run.          *)
Worse(f) == IF failed = "forbidden" THEN failed ELSE f

JudgeFails(o) ==
    /\ pc = "judge" /\ o \in todo /\ Fault
    /\ todo' = todo \ {o}
    /\ \E f \in {"failed", "forbidden"} : failed' = Worse(f)
    /\ UNCHANGED <<objVars, pc, left, target, read, sent>> /\ runOnly

(* The DELETE carries the UID that was judged and propagates in the        *)
(* foreground: the object may stay, terminating.                           *)
DeleteTarget ==
    /\ pc = "delete"
    /\ \E o \in target :
         \/ /\ Exists(live[o]) /\ live[o].uid = read[o]
            /\ \/ live' = [live EXCEPT ![o] = Absent]
               \/ live' = [live EXCEPT ![o].term = TRUE]
            /\ sent' = sent \cup {o} /\ UNCHANGED failed
         \/ /\ ~Exists(live[o])
            /\ UNCHANGED <<live, sent, failed>>
         \/ /\ Exists(live[o]) /\ live[o].uid # read[o]
            /\ failed' = Worse("failed") /\ UNCHANGED <<live, sent>>
    /\ target' = {} /\ pc' = "judge"
    /\ UNCHANGED <<touched, todo, left, read, faults>> /\ runOnly

(* The DELETE failed, or was accepted and its answer was lost.             *)
DeleteFails ==
    /\ pc = "delete" /\ Fault
    /\ \E o \in target :
         \/ UNCHANGED live
         \/ /\ Exists(live[o]) /\ live[o].uid = read[o]
            /\ live' = [live EXCEPT ![o].term = TRUE]
    /\ \E f \in {"failed", "forbidden"} : failed' = Worse(f)
    /\ target' = {} /\ pc' = "judge"
    /\ UNCHANGED <<touched, todo, left, read, sent>> /\ runOnly

NextPlan ==
    /\ pc = "judge" /\ todo = {} /\ left # {} /\ k < Len(identities)
    /\ todo' = left /\ left' = {} /\ k' = k + 1
    /\ UNCHANGED <<fin, ready, inv, objVars, moves, userVars, queueVars, pc, runVars, target, read,
                   sent, failed, faults>>

PlansDone == pc = "judge" /\ todo = {} /\ (left = {} \/ k = Len(identities))

(* Mutant: a run with failed steps is released.                            *)
holdVerdictIgnored == TRUE

(* holdVerdict: every plan finished without a failed step.                 *)
holdVerdict == failed = "no"

(* actOnHold, or holdRecheck when every delete was sent before.            *)
Held ==
    /\ PlansDone /\ ~holdVerdict
    /\ \/ HasRecord /\ Marks(HoldMarks) /\ UNCHANGED <<due, cur, rec, planVars>>
       \/ /\ ~HasRecord /\ failed = "forbidden" /\ sa # "none"
          /\ Marks({"impersonationFailed"}) /\ UNCHANGED <<due, cur, rec, planVars>>
       \/ ~HasRecord /\ ~(failed = "forbidden" /\ sa # "none") /\ Ends("soon")
    /\ UNCHANGED <<fin, ready, inv, objVars, moves, userVars, missed, faults>>
-----------------------------------------------------------------------------
(***************************************************************************)
(* awaitGone                                                               *)
(***************************************************************************)
BeginAwait ==
    /\ PlansDone /\ holdVerdict
    /\ todo' = sent /\ left' = {} /\ pc' = "gone"
    /\ UNCHANGED <<fin, ready, inv, objVars, moves, userVars, queueVars, runVars, k, target, read,
                   sent, failed, faults>>

(* Mutant: an object that is terminating counts as gone.                   *)
StillThereAlive(o) == Exists(live[o]) /\ live[o].uid = read[o] /\ ~live[o].term

(* Another object that holds the name is not waited for.                   *)
StillThere(o) == Exists(live[o]) /\ live[o].uid = read[o]

CheckGone(o) ==
    /\ pc = "gone" /\ o \in todo
    /\ todo' = todo \ {o}
    /\ left' = IF StillThere(o) THEN left \cup {o} ELSE left
    /\ UNCHANGED <<fin, ready, inv, objVars, moves, userVars, queueVars, pc, runVars, k, target, read,
                   sent, failed, faults>>

CheckFails ==
    /\ pc = "gone" /\ todo # {} /\ Fault
    /\ \/ HasRecord /\ Marks(HoldMarks) /\ UNCHANGED <<due, cur, rec, planVars>>
       \/ ~HasRecord /\ Ends("soon")
    /\ UNCHANGED <<fin, ready, inv, objVars, moves, userVars, missed>>

AwaitGone ==
    /\ pc = "gone" /\ todo = {}
    /\ IF left = {} THEN Releases("none") ELSE Marks(Waiting)
    /\ UNCHANGED <<fin, ready, inv, objVars, moves, userVars, queueVars, cur, rec, planVars, faults>>
-----------------------------------------------------------------------------
(* A stall waits for its recheck although its patch failed; every other    *)
(* failed patch is retried.                                                *)
PatchStatus ==
    /\ pc = "patch"
    /\ \/ ready' = mark /\ UNCHANGED faults
       \/ Fault /\ UNCHANGED ready
    /\ Ends(IF mark \in Stalls THEN mark ELSE "soon")
    /\ UNCHANGED <<fin, inv, objVars, moves, userVars, missed>>

releaseFinalizer ==
    /\ pc = "release"
    /\ \/ fin' = FALSE /\ Ends("none") /\ UNCHANGED faults
       \/ Fault /\ Ends("soon") /\ UNCHANGED fin
    /\ UNCHANGED <<ready, inv, objVars, moves, userVars, missed>>

Crash ==
    /\ pc # "idle" /\ Fault /\ Ends("soon")
    /\ UNCHANGED <<fin, ready, inv, objVars, moves, userVars, missed>>
-----------------------------------------------------------------------------
(***************************************************************************)
(* Users, other instances and the API server                               *)
(***************************************************************************)
others == UNCHANGED <<fin, ready, inv, pc, runVars, planVars, faults>>

Wakes(waked) == due' = IF waked THEN "soon" ELSE due

(* The update of a deleting instance that sets the annotation.             *)
orphanAnnotationSet(old, new) == IsInstance /\ new.orphan /\ ~old.orphan

(* An annotation does not move the generation.                             *)
GenerationChanged(old, new) == old # [new EXCEPT !.orphan = old.orphan]

EditPolicy ==
    /\ fin /\ edits < MaxEdits /\ edits' = edits + 1
    /\ \E new \in Policies \ {policy} :
         /\ policy' = new
         /\ Wakes(GenerationChanged(policy, new) \/ orphanAnnotationSet(policy, new))
    /\ UNCHANGED <<sa, missed, objVars, moves>> /\ others

(* Mutant: only a failed impersonation counts as waiting.                  *)
waitsForServiceAccountFailed == ready = "impersonationFailed"

(* The status is the only record of the stall.                             *)
waitsForServiceAccount == ready \in Stalls

mapServiceAccountToModuleInstances == IsInstance /\ ~policy.cli /\ waitsForServiceAccount

(* Its creation is an event, unless the instances cannot be listed; its    *)
(* deletion is none.                                                       *)
SAChanges ==
    /\ fin /\ edits < MaxEdits /\ edits' = edits + 1
    /\ \/ /\ sa = "gone" /\ sa' = "present"
          /\ \/ /\ Wakes(mapServiceAccountToModuleInstances)
                /\ missed' = (ready \notin Stalls) /\ UNCHANGED faults
             \/ Fault /\ missed' = TRUE /\ UNCHANGED due
       \/ sa = "present" /\ sa' = "gone" /\ missed' = FALSE /\ UNCHANGED <<due, faults>>
    /\ UNCHANGED <<policy, objVars, moves, fin, ready, inv, pc, runVars, planVars>>

Touches(o, obj) ==
    /\ fin /\ moves < MaxMoves /\ moves' = moves + 1
    /\ live' = [live EXCEPT ![o] = obj] /\ touched' = touched \cup {o}
    /\ UNCHANGED <<userVars, queueVars>> /\ others

UserAdopts(o) ==
    /\ Exists(live[o])
    /\ \E id \in {NoId, Other} \ {live[o].adopt} :
         Touches(o, [live[o] EXCEPT !.adopt = id])

(* Another object under the name: of another instance, or with the labels  *)
(* of this one.                                                            *)
UserCreates(o) ==
    /\ ~Exists(live[o])
    /\ \E id \in {Uuid, Other} : Touches(o, [Applied(id) EXCEPT !.uid = moves + 2])

UserDeletes(o) ==
    /\ fin /\ moves < MaxMoves /\ moves' = moves + 1
    /\ Exists(live[o]) /\ ~live[o].term
    /\ live' = [live EXCEPT ![o].term = TRUE]
    /\ UNCHANGED <<touched, userVars, queueVars>> /\ others

TerminationEnds(o) ==
    /\ live[o].term /\ live' = [live EXCEPT ![o] = Absent]
    /\ UNCHANGED <<touched, moves, userVars, queueVars>> /\ others
-----------------------------------------------------------------------------
Progress ==
    \/ LoseIdentity \/ Orphan \/ RunCleanup \/ DeleteTarget \/ NextPlan \/ Held
    \/ BeginAwait \/ AwaitGone \/ PatchStatus \/ releaseFinalizer
    \/ \E o \in Entries : JudgeEntry(o) \/ CheckGone(o)

Failure ==
    \/ DeleteFails \/ CheckFails \/ Crash
    \/ \E o \in Entries : JudgeFails(o)

Environment ==
    \/ EditPolicy \/ SAChanges
    \/ \E o \in Entries :
         UserAdopts(o) \/ UserCreates(o) \/ UserDeletes(o) \/ TerminationEnds(o)

Next == Start \/ Progress \/ Failure \/ Environment

Spec == Init /\ [][Next]_vars

(***************************************************************************)
(* Every reconcile ends, and what is queued is reconciled (an error's      *)
(* backoff, the recheck interval, the stalled recheck).  What holds a      *)
(* terminating object lets go of it in the end.                            *)
(***************************************************************************)
FairSpec ==
    /\ Spec /\ WF_vars(Start) /\ WF_vars(Progress)
    /\ \A o \in Entries : WF_vars(TerminationEnds(o))
-----------------------------------------------------------------------------
(***************************************************************************)
(* Properties                                                              *)
(***************************************************************************)
(* Every variable holds a value of its type.                               *)
TypeOK ==
    /\ fin \in BOOLEAN /\ ready \in Reasons /\ inv \subseteq Entries
    /\ policy \in Policies /\ sa \in {"none", "present", "gone"}
    /\ live \in [Entries -> LiveObject] /\ touched \subseteq Entries
    /\ due \in {"none", "soon"} \cup Stalls /\ missed \in BOOLEAN
    /\ pc \in Steps /\ cur \in Policies /\ rec \in Waiting \cup {"other"}
    /\ mark \in Reasons /\ event \in {"none", "unconfirmed", "orphaned"}
    /\ todo \subseteq Entries /\ left \subseteq Entries /\ target \subseteq Entries
    /\ k \in 0 .. Len(identities) /\ read \in [Entries -> Nat] /\ sent \subseteq Entries
    /\ failed \in {"no", "failed", "forbidden"}
    /\ edits \in Nat /\ moves \in Nat /\ faults \in Nat

(* An object of this instance that nobody else made or took.               *)
Mine(o) ==
    /\ o \notin touched
    /\ Exists(live[o]) /\ live[o].managed /\ live[o].adopt = NoId
    /\ live[o].label \in {Uuid, Previous} \ {NoId}

(* When the cleanup releases the finalizer after its check, none of the    *)
(* instance's objects is left but the kinds it never deletes and the       *)
(* claims the data policy keeps, not even one that is still terminating:   *)
(* whatever failed, restarted or was edited on the way (holdVerdict,       *)
(* awaitGone).                                                             *)
ReleasedWhenGone ==
    [][fin /\ ~fin' /\ event = "none" /\ cur.prune /\ ~cur.cli =>
         \A o \in inv : Mine(o) => \/ o \in Excluded
                                   \/ o \in Claims /\ ~cur.deleteData]_vars

(* The finalizer is released without a check only when every object but    *)
(* the claims was sent its delete before (the Ready reason is the record), *)
(* or when an operator asked for it with the annotation.                   *)
ReleasedUncheckedWhenSent ==
    [][fin /\ ~fin' /\ event = "unconfirmed" =>
         \A o \in inv \ (Claims \cup Excluded) : Mine(o) => live[o].term]_vars

(* The record that every delete was sent survives every recheck that could *)
(* not be done (holdRecheck): a stall reason never replaces it.            *)
RecordKept == [][(ready \in Waiting) => (ready' \in Waiting)]_vars

(* The cleanup deletes the object its verdict was reached on, and never a  *)
(* claim the data policy keeps.                                            *)
DeletesOnlyPlanned ==
    [][pc = "delete" /\ pc' = "judge" =>
         \A o \in Entries :
           live'[o] # live[o] => /\ live[o].uid = read[o] /\ o \notin Excluded
                                 /\ o \in Claims => cur.deleteData]_vars

(* A deletion waits for the recheck of a missing ServiceAccount, half an   *)
(* hour, only while none of the ways out was taken: the ServiceAccount is  *)
(* gone, the annotation is not set, and the spec still prunes.  Each is a  *)
(* write of someone else, at any time before or during the reconcile that  *)
(* stalls.  Excepted are a ServiceAccount that came back before the stall  *)
(* was in the status (waitsForServiceAccount), or could not be found       *)
(* although it was there.                                                  *)
WayOutTaken ==
    IsInstance /\ pc = "idle" /\ fin /\ due = "saMissing" =>
      /\ policy.prune /\ ~policy.cli /\ ~policy.orphan
      /\ sa = "gone" \/ missed

(* What keeps WayOutTaken: in a reconcile that nothing woke meanwhile the  *)
(* policy is the one it read, but for an annotation that was taken away.   *)
StallSound ==
    IsInstance /\ fin /\ pc # "idle" /\ due # "soon" =>
      /\ policy = [cur EXCEPT !.orphan = policy.orphan] /\ (policy.orphan => cur.orphan)
      /\ pc # "release" => cur.prune /\ ~cur.cli
      /\ pc = "patch" /\ mark = "saMissing" => ~cur.orphan /\ (sa = "gone" \/ missed)

(* What keeps RecordKept: a reconcile knows the record, and writes a stall *)
(* only when there is none.                                                *)
RecordSeen ==
    /\ pc # "idle" => rec = recordedWaitReason
    /\ pc = "patch" => mark \in Waiting \/ (mark \in Stalls /\ ~HasRecord)

(* Everything but the claims was sent its delete.                          *)
SentAll == \A o \in inv \ (Claims \cup Excluded) : Mine(o) => live[o].term

Planned == SplitKeptClaims(inv) \ Excluded

(* Where the plans have an object: to be judged by an identity that may be *)
(* its own, about to be deleted, left to a later identity, or sent its     *)
(* delete.                                                                 *)
Accounted(o) ==
    \/ o \in todo /\ \A j \in 1 .. k - 1 : live[o].label # identities[j]
    \/ o \in target
    \/ o \in left /\ \A j \in 1 .. k : live[o].label # identities[j]
    \/ o \in sent /\ live[o].uid = read[o] /\ live[o].term

(* The plans lose none of the instance's objects, and the wait looks at    *)
(* each of them.                                                           *)
PlanSound ==
    /\ pc \in {"judge", "delete", "gone"} =>
         k > 0 /\ todo \cup left \cup target \cup sent \subseteq SplitKeptClaims(Entries) \ Excluded
    /\ IF pc = "delete" THEN \E o \in Entries : target = {o} ELSE target = {}
    /\ pc \in {"judge", "delete"} /\ failed = "no" =>
         \A o \in Planned : Mine(o) => Accounted(o)
    /\ pc = "gone" => \A o \in Planned :
         Mine(o) => o \in todo \cup left /\ live[o].uid = read[o] /\ live[o].term

(* The record, and a release without a check, mean that every delete was   *)
(* sent; a release after the check, that nothing is left.                  *)
SentSound ==
    /\ (\/ ready \in Waiting
        \/ pc = "patch" /\ mark \in Waiting
        \/ pc = "release" /\ event = "unconfirmed") => SentAll
    /\ pc = "release" /\ event = "none" /\ cur.prune /\ ~cur.cli =>
         \A o \in Planned : ~Mine(o)

(* The cleanup is well typed, wakes when a way out is taken, keeps its     *)
(* record and loses no object on the way from the inventory to the wait.   *)
CleanupInv ==
    TypeOK /\ WayOutTaken /\ StallSound /\ RecordSeen /\ PlanSound /\ SentSound

(* A deletion that only an operator can move on: the ServiceAccount is     *)
(* gone, and not every delete was sent.                                    *)
Stalled ==
    /\ sa = "gone" /\ ready \notin Waiting
    /\ policy.prune /\ ~policy.cli /\ ~policy.orphan

(* Once users and failures leave it alone, the finalizer comes off, or the *)
(* deletion waits for an operator.                                         *)
DeletionEnds == <>[](~fin \/ Stalled)
=============================================================================
