------------------------ MODULE DeletionCleanupProofs ------------------------
(***************************************************************************)
(* The deletion cleanup loses no object and no record, for every           *)
(* inventory, policy and number of failures, restarts and edits.           *)
(***************************************************************************)
EXTENDS DeletionCleanup, TLAPS

(* There is at least one plan, and each recorded identity has one.         *)
LEMMA IdentitiesCover ==
  /\ Len(identities) \in Nat /\ Len(identities) > 0
  /\ \A i \in {Uuid, Previous} \ {NoId} :
       \E j \in 1 .. Len(identities) : identities[j] = i
<1>1. \/ identities = <<NoId>> /\ Uuid = NoId /\ Previous = NoId
      \/ identities = <<Uuid>> /\ Previous = NoId
      \/ identities = <<Previous>> /\ Uuid = NoId
      \/ identities = <<Uuid, Previous>>
  BY DEF identities, recordedIdentities
<1> QED
  BY <1>1

(* What users and the API server do leaves the objects objects.            *)
LEMMA ObjectType ==
  /\ Absent \in LiveObject
  /\ \A obj \in LiveObject :
       /\ [obj EXCEPT !.term = TRUE] \in LiveObject
       /\ \A id \in Label : [obj EXCEPT !.adopt = id] \in LiveObject
       /\ \A u \in Nat : [obj EXCEPT !.uid = u] \in LiveObject
  /\ \A id \in Label : Applied(id) \in LiveObject
  /\ Inventoried \subseteq LiveObject
<1>1. Uuid \in Label /\ Previous \in Label /\ Other \in Label /\ NoId \in Label
  BY CleanupAssumption DEF Identity, Label
<1>2. Absent \in LiveObject /\ \A id \in Label : Applied(id) \in LiveObject
  BY <1>1 DEF Absent, LiveObject, Applied
<1>3. \A obj \in LiveObject :
       /\ [obj EXCEPT !.term = TRUE] \in LiveObject
       /\ \A id \in Label : [obj EXCEPT !.adopt = id] \in LiveObject
       /\ \A u \in Nat : [obj EXCEPT !.uid = u] \in LiveObject
  BY DEF LiveObject
<1>4. Inventoried \subseteq LiveObject
  <2>1. [Applied(Uuid) EXCEPT !.adopt = Other] \in LiveObject
    BY <1>1, <1>2, <1>3, Zenon
  <2>2. \A id \in {Uuid, Previous, Other} \ {NoId} : Applied(id) \in LiveObject
    BY <1>1, <1>2
  <2> HIDE DEF Applied
  <2> QED
    BY <1>2, <2>1, <2>2, Zenon DEF Inventoried
<1> QED
  BY <1>2, <1>3, <1>4

(* The cleanup invariant holds of an instance that was just deleted.       *)
LEMMA InitCleanup == Init => CleanupInv
<1> SUFFICES ASSUME Init PROVE CleanupInv
  OBVIOUS
<1>1. live \in [Entries -> LiveObject]
  BY ObjectType DEF Init
<1>2. TypeOK
  <2>1. k \in 0 .. Len(identities)
    BY IdentitiesCover DEF Init
  <2>2. fin \in BOOLEAN /\ missed \in BOOLEAN
    BY DEF Init
  <2> QED
    BY <1>1, <2>1, <2>2 DEF Init, TypeOK, Reasons, Waiting, Stalls, Steps
<1>3. WayOutTaken /\ StallSound /\ RecordSeen /\ PlanSound /\ SentSound
  BY DEF Init, WayOutTaken, StallSound, RecordSeen, PlanSound, SentSound, Waiting
<1> QED
  BY <1>2, <1>3 DEF CleanupInv

-----------------------------------------------------------------------------
(***************************************************************************)
(* Types                                                                   *)
(***************************************************************************)
(* The types of what a reconcile keeps in memory.                          *)
RunType ==
    /\ pc \in Steps /\ cur \in Policies /\ rec \in Waiting \cup {"other"}
    /\ mark \in Reasons /\ event \in {"none", "unconfirmed", "orphaned"}
    /\ todo \subseteq Entries /\ left \subseteq Entries /\ target \subseteq Entries
    /\ k \in 0 .. Len(identities) /\ read \in [Entries -> Nat] /\ sent \subseteq Entries
    /\ failed \in {"no", "failed", "forbidden"}

(* A reconcile that ends leaves a well-typed state.                        *)
LEMMA EndsType ==
  ASSUME TypeOK, NEW after \in {"none", "soon"} \cup Stalls, Ends(after)
  PROVE  RunType' /\ due' \in {"none", "soon"} \cup Stalls
<1>1. 0 \in 0 .. Len(identities)
  BY IdentitiesCover
<1> QED
  BY <1>1 DEF TypeOK, Ends, RunType, Steps, Waiting, Stalls, Reasons

(* The verdict of a lost identity is one.                                  *)
LEMMA LostType ==
  ASSUME NEW held \in {"gone", "missing", "failed"}, actOnLostIdentity(held)
  PROVE  \/ pc' = "release" /\ event' = "unconfirmed" /\ mark' = mark
         \/ pc' = "orphan" /\ event' = event /\ mark' = mark
         \/ pc' = "patch" /\ event' = event /\ mark' \in Waiting /\ HasRecord
         \/ /\ pc' = "patch" /\ event' = event /\ ~HasRecord
            /\ mark' = IF held = "failed" THEN "impersonationFailed" ELSE "saMissing"
BY DEF actOnLostIdentity, Releases, Marks, HoldMarks, Waiting

(* So does every step of the cleanup that succeeds.                        *)
LEMMA ProgressType ==
  ASSUME TypeOK, Start \/ Progress
  PROVE  TypeOK'
<1>1. CASE Start
  <2>1. rec' \in Waiting \cup {"other"}
    BY <1>1 DEF Start, recordedWaitReason
  <2> QED
    BY <1>1, <2>1 DEF Start, TypeOK, Steps, objVars, userVars, planVars
<1>2. CASE LoseIdentity
  <2>1. pc' \in Steps /\ mark' \in Reasons /\ event' \in {"none", "unconfirmed", "orphaned"}
    <3>1. PICK held \in {"gone", "missing", "failed"} : actOnLostIdentity(held)
      BY <1>2 DEF LoseIdentity
    <3> QED
      BY <3>1, LostType DEF TypeOK, Steps, Reasons, Waiting, Stalls
  <2>2. missed' \in BOOLEAN
    BY <1>2 DEF LoseIdentity
  <2>3. faults' \in Nat
    BY <1>2 DEF LoseIdentity, Fault, TypeOK
  <2> QED
    BY <1>2, <2>1, <2>2, <2>3 DEF LoseIdentity, TypeOK, objVars, userVars, planVars
<1>3. CASE Orphan
  BY <1>3 DEF Orphan, Releases, Fault, TypeOK, Steps, objVars, userVars, queueVars, planVars
<1>4. CASE RunCleanup
  <2>1. SplitKeptClaims(inv) \subseteq Entries
    BY DEF SplitKeptClaims, TypeOK
  <2>2. 1 \in 0 .. Len(identities)
    BY IdentitiesCover
  <2> QED
    BY <1>4, <2>1, <2>2 DEF RunCleanup, TypeOK, Steps, objVars, userVars, runVars
<1>5. ASSUME NEW o \in Entries, JudgeEntry(o)
      PROVE  TypeOK'
  <2>1. live[o].uid \in Nat
    BY DEF TypeOK, LiveObject
  <2> QED
    BY <1>5, <2>1 DEF JudgeEntry, runOnly, TypeOK, Steps, objVars, userVars, queueVars, runVars
<1>6. CASE DeleteTarget
  <2>1. live' \in [Entries -> LiveObject]
    BY <1>6, ObjectType DEF DeleteTarget, TypeOK
  <2>2. failed' \in {"no", "failed", "forbidden"} /\ sent' \subseteq Entries
    BY <1>6 DEF DeleteTarget, Worse, TypeOK
  <2> QED
    BY <1>6, <2>1, <2>2 DEF DeleteTarget, runOnly, TypeOK, Steps, userVars, queueVars, runVars
<1>7. CASE NextPlan
  BY <1>7, IdentitiesCover DEF NextPlan, TypeOK, objVars, userVars, queueVars, runVars
<1>8. CASE Held
  <2>1. CASE \E reasons \in SUBSET Reasons : Marks(reasons) /\ UNCHANGED <<due, cur, rec, planVars>>
    BY <1>8, <2>1 DEF Held, Marks, TypeOK, Steps, objVars, userVars, planVars
  <2>2. CASE Ends("soon")
    BY <1>8, <2>2, EndsType DEF Held, RunType, TypeOK, objVars, userVars
  <2>3. HoldMarks \in SUBSET Reasons /\ {"impersonationFailed"} \in SUBSET Reasons
    BY DEF HoldMarks, Reasons, Waiting, Stalls
  <2> QED
    BY <1>8, <2>1, <2>2, <2>3 DEF Held
<1>9. CASE BeginAwait
  BY <1>9 DEF BeginAwait, TypeOK, Steps, objVars, userVars, queueVars, runVars
<1>10. ASSUME NEW o \in Entries, CheckGone(o)
       PROVE  TypeOK'
  BY <1>10 DEF CheckGone, TypeOK, objVars, userVars, queueVars, runVars
<1>11. CASE AwaitGone
  BY <1>11
  DEF AwaitGone, Releases, Marks, TypeOK, Steps, Reasons, objVars, userVars, queueVars, planVars
<1>12. CASE PatchStatus
  <2>1. (IF mark \in Stalls THEN mark ELSE "soon") \in {"none", "soon"} \cup Stalls
    OBVIOUS
  <2>2. RunType' /\ due' \in {"none", "soon"} \cup Stalls
    BY <1>12, <2>1, EndsType DEF PatchStatus
  <2> QED
    BY <1>12, <2>2 DEF PatchStatus, Fault, RunType, TypeOK, objVars, userVars
<1>13. CASE releaseFinalizer
  <2>1. RunType' /\ due' \in {"none", "soon"} \cup Stalls
    BY <1>13, EndsType DEF releaseFinalizer
  <2>2. fin' \in BOOLEAN
    BY <1>13 DEF releaseFinalizer, TypeOK
  <2> QED
    BY <1>13, <2>1, <2>2 DEF releaseFinalizer, Fault, RunType, TypeOK, objVars, userVars
<1> QED
  BY <1>1, <1>2, <1>3, <1>4, <1>5, <1>6, <1>7, <1>8, <1>9, <1>10, <1>11, <1>12, <1>13 DEF Progress

(* So does every failure, panic and restart.                               *)
LEMMA FailureType ==
  ASSUME TypeOK, Failure
  PROVE  TypeOK'
<1>1. CASE DeleteFails
  <2>1. live' \in [Entries -> LiveObject]
    BY <1>1, ObjectType DEF DeleteFails, TypeOK
  <2>2. failed' \in {"no", "failed", "forbidden"}
    BY <1>1 DEF DeleteFails, Worse
  <2> QED
    BY <1>1, <2>1, <2>2
    DEF DeleteFails, runOnly, Fault, TypeOK, Steps, userVars, queueVars, runVars
<1>2. CASE CheckFails
  <2>1. CASE Marks(HoldMarks) /\ UNCHANGED <<due, cur, rec, planVars>>
    BY <1>2, <2>1
    DEF CheckFails, Marks, HoldMarks, Reasons, Waiting, Fault, TypeOK, Steps, objVars, userVars, planVars
  <2>2. CASE Ends("soon")
    BY <1>2, <2>2, EndsType DEF CheckFails, RunType, Fault, TypeOK, objVars, userVars
  <2> QED
    BY <1>2, <2>1, <2>2 DEF CheckFails
<1>3. CASE Crash
  BY <1>3, EndsType DEF Crash, RunType, Fault, TypeOK, objVars, userVars
<1>4. ASSUME NEW o \in Entries, JudgeFails(o)
      PROVE  TypeOK'
  <2>1. failed' \in {"no", "failed", "forbidden"}
    BY <1>4 DEF JudgeFails, Worse
  <2> QED
    BY <1>4, <2>1 DEF JudgeFails, runOnly, Fault, TypeOK, objVars, userVars, queueVars, runVars
<1> QED
  BY <1>1, <1>2, <1>3, <1>4 DEF Failure

(* So do the steps of users, other controllers and the API server.         *)
LEMMA EnvironmentType ==
  ASSUME TypeOK, Environment
  PROVE  TypeOK'
<1>1. CASE EditPolicy
  BY <1>1 DEF EditPolicy, Wakes, others, TypeOK, objVars, runVars, planVars
<1>2. CASE SAChanges
  <2>1. missed' \in BOOLEAN
    BY <1>2 DEF SAChanges, TypeOK
  <2>2. due' \in {"none", "soon"} \cup Stalls /\ faults' \in Nat /\ edits' \in Nat
        /\ sa' \in {"none", "present", "gone"}
    BY <1>2 DEF SAChanges, Wakes, Fault, TypeOK
  <2> QED
    BY <1>2, <2>1, <2>2 DEF SAChanges, TypeOK, objVars, runVars, planVars
<1>3. ASSUME NEW o \in Entries, NEW obj \in LiveObject, Touches(o, obj)
      PROVE  TypeOK'
  BY <1>3 DEF Touches, others, TypeOK, objVars, userVars, queueVars, runVars, planVars
<1>4. ASSUME NEW o \in Entries, UserAdopts(o) \/ UserCreates(o)
      PROVE  TypeOK'
  <2>1. Uuid \in Label /\ Other \in Label /\ NoId \in Label
    BY CleanupAssumption DEF Identity, Label
  <2>2. moves + 2 \in Nat /\ live[o] \in LiveObject
    BY DEF TypeOK
  <2>3. PICK obj \in LiveObject : Touches(o, obj)
    BY <1>4, <2>1, <2>2, ObjectType DEF UserAdopts, UserCreates
  <2> QED
    BY <1>3, <2>3
<1>5. ASSUME NEW o \in Entries, UserDeletes(o) \/ TerminationEnds(o)
      PROVE  TypeOK'
  <2>1. live' \in [Entries -> LiveObject]
    BY <1>5, ObjectType DEF UserDeletes, TerminationEnds, TypeOK
  <2> QED
    BY <1>5, <2>1
    DEF UserDeletes, TerminationEnds, others, TypeOK, objVars, userVars, queueVars, runVars, planVars
<1> QED
  BY <1>1, <1>2, <1>4, <1>5 DEF Environment

(* Every step keeps the state well typed.                                  *)
LEMMA TypeStep ==
  ASSUME TypeOK, [Next]_vars
  PROVE  TypeOK'
<1>1. CASE UNCHANGED vars
  BY <1>1 DEF vars, TypeOK, objVars, userVars, queueVars, runVars, planVars
<1> QED
  BY <1>1, ProgressType, FailureType, EnvironmentType DEF Next

-----------------------------------------------------------------------------
(***************************************************************************)
(* The record and the stall                                                *)
(***************************************************************************)
(* A reconcile knows the record of the reconciles before it.               *)
LEMMA RecordStep ==
  ASSUME TypeOK, RecordSeen, [Next]_vars
  PROVE  RecordSeen'
<1>1. CASE pc' = "idle"
  BY <1>1 DEF RecordSeen
<1>2. CASE Start
  BY <1>2 DEF Start, RecordSeen, recordedWaitReason
<1>3. CASE LoseIdentity
  <2>1. PICK held \in {"gone", "missing", "failed"} : actOnLostIdentity(held)
    BY <1>3 DEF LoseIdentity
  <2>2. rec' = rec /\ ready' = ready /\ pc = "identity"
    BY <1>3 DEF LoseIdentity
  <2> QED
    BY <2>1, <2>2, LostType DEF RecordSeen, recordedWaitReason, HasRecord, Stalls
<1>4. CASE Held \/ CheckFails \/ AwaitGone
  <2>1. (rec' = rec /\ ready' = ready /\ pc # "idle") \/ pc' = "idle"
    BY <1>4 DEF Held, CheckFails, AwaitGone, PlansDone, Ends
  <2>2. pc' = "patch" => mark' \in Waiting \/ (mark' \in Stalls /\ ~HasRecord)
    BY <1>4 DEF Held, CheckFails, AwaitGone, Marks, HoldMarks, Releases, Waiting, Stalls, Ends
  <2> QED
    BY <1>1, <2>1, <2>2 DEF RecordSeen, recordedWaitReason, HasRecord
<1>5. CASE PatchStatus \/ releaseFinalizer \/ Crash
  BY <1>1, <1>5 DEF PatchStatus, releaseFinalizer, Crash, Ends
<1>6. CASE Orphan \/ RunCleanup \/ DeleteTarget \/ NextPlan \/ BeginAwait \/ DeleteFails
           \/ \E o \in Entries : JudgeEntry(o) \/ CheckGone(o) \/ JudgeFails(o)
  <2>1. rec' = rec /\ ready' = ready /\ pc # "idle" /\ pc' # "patch"
    BY <1>6 DEF Orphan, RunCleanup, DeleteTarget, NextPlan, BeginAwait, DeleteFails, JudgeEntry,
       CheckGone, JudgeFails, runOnly, runVars, Releases, PlansDone
  <2> QED
    BY <2>1 DEF RecordSeen, recordedWaitReason
<1>7. CASE Environment \/ UNCHANGED vars
  <2>1. rec' = rec /\ ready' = ready /\ pc' = pc /\ mark' = mark
    BY <1>7 DEF Environment, EditPolicy, SAChanges, UserAdopts, UserCreates, UserDeletes,
       TerminationEnds, Touches, others, runVars, vars
  <2> QED
    BY <2>1 DEF RecordSeen, recordedWaitReason, HasRecord
<1> QED
  BY <1>2, <1>3, <1>4, <1>5, <1>6, <1>7 DEF Next, Progress, Failure

(* A policy is equal to another one but for the annotation when its other  *)
(* fields are the same.                                                    *)
LEMMA SameButOrphan ==
  ASSUME NEW p \in Policies, NEW q \in Policies, q = [p EXCEPT !.orphan = q.orphan]
  PROVE  (q.prune <=> p.prune) /\ (q.cli <=> p.cli)
<1>1. p \in Policy /\ q \in Policy
  BY CleanupAssumption
<1>2. q.prune = p.prune /\ q.cli = p.cli
  BY <1>1, Zenon DEF Policy
<1> QED
  BY <1>2

(* The steps of a reconcile keep what it knows of the way out.             *)
LEMMA StallStep ==
  ASSUME TypeOK, StallSound, [Next]_vars
  PROVE  StallSound'
<1> SUFFICES ASSUME IsInstance, fin', pc' # "idle", due' # "soon"
             PROVE  /\ policy' = [cur' EXCEPT !.orphan = policy'.orphan]
                    /\ policy'.orphan => cur'.orphan
                    /\ pc' # "release" => cur'.prune /\ ~cur'.cli
                    /\ pc' = "patch" /\ mark' = "saMissing" => ~cur'.orphan /\ (sa' = "gone" \/ missed')
  BY DEF StallSound
<1> DEFINE Same == policy = [cur EXCEPT !.orphan = policy.orphan] /\ (policy.orphan => cur.orphan)
<1>t. policy \in Policies /\ cur \in Policies /\ policy \in Policy /\ cur \in Policy
  BY CleanupAssumption DEF TypeOK
<1>1. CASE Start
  <2>1. cur' = policy /\ policy' = policy /\ pc' # "patch"
    BY <1>1 DEF Start, userVars
  <2>2. policy = [policy EXCEPT !.orphan = policy.orphan]
    BY <1>t, Zenon DEF Policy
  <2>3. pc' # "release" => policy.prune /\ ~policy.cli
    BY <1>1 DEF Start
  <2> QED
    BY <2>1, <2>2, <2>3
<1>0. ASSUME fin, pc # "idle", due # "soon"
      PROVE  /\ Same
             /\ pc # "release" => cur.prune /\ ~cur.cli
             /\ pc = "patch" /\ mark = "saMissing" => ~cur.orphan /\ (sa = "gone" \/ missed)
  BY <1>0 DEF StallSound
<1> HIDE DEF Same
<1>2. CASE LoseIdentity
  <2>1. UNCHANGED <<policy, cur, fin, due, sa>> /\ pc = "identity"
    BY <1>2 DEF LoseIdentity, userVars
  <2>2. PICK held \in {"gone", "missing", "failed"} :
          /\ actOnLostIdentity(held)
          /\ held # "failed" => sa = "gone" \/ missed'
    BY <1>2 DEF LoseIdentity, TypeOK
  <2>3. pc' = "patch" /\ mark' = "saMissing" => ~cur.orphan /\ held # "failed"
    BY <2>2 DEF actOnLostIdentity, Releases, Marks, HoldMarks, Waiting
  <2> QED
    BY <1>0, <2>1, <2>2, <2>3 DEF Same
<1>3. CASE Orphan \/ RunCleanup \/ DeleteTarget \/ NextPlan \/ BeginAwait \/ DeleteFails \/ Held
           \/ AwaitGone \/ CheckFails \/ \E o \in Entries : JudgeEntry(o) \/ CheckGone(o) \/ JudgeFails(o)
  <2>1. UNCHANGED <<policy, cur, fin, due>> /\ pc \notin {"idle", "release"}
    BY <1>3 DEF Orphan, RunCleanup, DeleteTarget, NextPlan, BeginAwait, DeleteFails, Held, AwaitGone,
       CheckFails, JudgeEntry, CheckGone, JudgeFails, runOnly, PlansDone, Ends, userVars, queueVars,
       runVars
  <2>2. pc' = "patch" => mark' # "saMissing"
    BY <1>3 DEF Orphan, RunCleanup, DeleteTarget, NextPlan, BeginAwait, DeleteFails, Held, AwaitGone,
       CheckFails, JudgeEntry, CheckGone, JudgeFails, runOnly, PlansDone, Ends, Marks, HoldMarks,
       Waiting, Releases
  <2> QED
    BY <1>0, <2>1, <2>2 DEF Same
<1>4. CASE PatchStatus \/ releaseFinalizer \/ Crash
  BY <1>4 DEF PatchStatus, releaseFinalizer, Crash, Ends
<1>5. CASE EditPolicy
  <2>1. PICK new \in Policies :
          /\ policy' = new
          /\ Wakes(GenerationChanged(policy, new) \/ orphanAnnotationSet(policy, new))
    BY <1>5 DEF EditPolicy
  <2>2. UNCHANGED <<cur, fin, pc, mark, sa, missed>>
    BY <1>5 DEF EditPolicy, others, runVars
  <2>3. due # "soon" /\ ~GenerationChanged(policy, new) /\ ~orphanAnnotationSet(policy, new)
    BY <2>1 DEF Wakes
  <2>4. policy = [new EXCEPT !.orphan = policy.orphan] /\ (new.orphan => policy.orphan)
    BY <2>3 DEF GenerationChanged, orphanAnnotationSet
  <2>5. Same
    BY <1>0, <2>2, <2>3
  <2>6. new = [cur EXCEPT !.orphan = new.orphan] /\ (new.orphan => cur.orphan)
    <3>1. new \in Policy
      BY CleanupAssumption
    <3>2. [cur EXCEPT !.orphan = new.orphan] = [policy EXCEPT !.orphan = new.orphan]
      BY <1>t, <2>5, Zenon DEF Policy, Same
    <3>3. new = [policy EXCEPT !.orphan = new.orphan]
      BY <1>t, <2>4, <3>1, Zenon DEF Policy
    <3> QED
      BY <2>4, <2>5, <3>2, <3>3, Zenon DEF Same
  <2> QED
    BY <1>0, <2>1, <2>2, <2>3, <2>6
<1>6. CASE SAChanges
  <2>1. UNCHANGED <<policy, cur, fin, pc, mark>>
    BY <1>6 DEF SAChanges, runVars
  <2>2. due # "soon" \/ due' = "soon"
    BY <1>6 DEF SAChanges, Wakes
  <2>3. CASE pc = "patch" /\ mark = "saMissing"
    <3>1. ~policy.cli
      BY <1>0, <1>t, <2>1, <2>2, <2>3, SameButOrphan DEF Same
    <3>2. sa' = "gone" \/ missed'
      BY <1>6, <3>1, <2>3
      DEF SAChanges, Wakes, mapServiceAccountToModuleInstances, waitsForServiceAccount
    <3> QED
      BY <1>0, <2>1, <2>2, <2>3, <3>2 DEF Same
  <2> QED
    BY <1>0, <2>1, <2>2, <2>3 DEF Same
<1>7. CASE (\E o \in Entries : UserAdopts(o) \/ UserCreates(o) \/ UserDeletes(o) \/ TerminationEnds(o))
           \/ UNCHANGED vars
  <2>1. UNCHANGED <<policy, cur, fin, due, pc, mark, sa, missed>>
    BY <1>7 DEF UserAdopts, UserCreates, UserDeletes, TerminationEnds, Touches, others, userVars,
       queueVars, runVars, vars
  <2> QED
    BY <1>0, <2>1 DEF Same
<1> QED
  BY <1>1, <1>2, <1>3, <1>4, <1>5, <1>6, <1>7 DEF Next, Progress, Failure, Environment

(* Nobody waits half an hour for what is already there.                    *)
LEMMA WayOutStep ==
  ASSUME TypeOK, StallSound, WayOutTaken, [Next]_vars
  PROVE  WayOutTaken'
<1> SUFFICES ASSUME IsInstance, pc' = "idle", fin', due' = "saMissing"
             PROVE  /\ policy'.prune /\ ~policy'.cli /\ ~policy'.orphan
                    /\ sa' = "gone" \/ missed'
  BY DEF WayOutTaken
<1>t. policy \in Policies /\ cur \in Policies
  BY DEF TypeOK
<1>1. CASE PatchStatus
  <2>1. UNCHANGED <<policy, sa, missed, fin>> /\ due # "soon" /\ mark = "saMissing" /\ pc = "patch"
    BY <1>1 DEF PatchStatus, Ends, userVars
  <2>2. /\ policy = [cur EXCEPT !.orphan = policy.orphan] /\ (policy.orphan => cur.orphan)
        /\ cur.prune /\ ~cur.cli /\ ~cur.orphan /\ (sa = "gone" \/ missed)
    BY <2>1 DEF StallSound
  <2> QED
    BY <1>t, <2>1, <2>2, SameButOrphan
<1>2. CASE Start \/ Progress \/ Failure
  <2>1. PatchStatus \/ pc' # "idle" \/ due' # "saMissing"
    BY <1>2 DEF Start, Progress, Failure, LoseIdentity, Orphan, RunCleanup, DeleteTarget, NextPlan, Held,
       BeginAwait, AwaitGone, releaseFinalizer, JudgeEntry, CheckGone, DeleteFails, CheckFails,
       Crash, JudgeFails, Ends, Marks, Releases, actOnLostIdentity, PlansDone
  <2> QED
    BY <1>1, <2>1
<1>3. CASE EditPolicy
  <2>1. PICK new \in Policies \ {policy} :
          /\ policy' = new
          /\ Wakes(GenerationChanged(policy, new) \/ orphanAnnotationSet(policy, new))
    BY <1>3 DEF EditPolicy
  <2>2. ~GenerationChanged(policy, new) /\ ~orphanAnnotationSet(policy, new) /\ due = "saMissing"
    BY <2>1 DEF Wakes
  <2>3. UNCHANGED <<pc, fin>>
    BY <1>3 DEF EditPolicy, others
  <2>4. ~policy.orphan
    BY <2>2, <2>3 DEF WayOutTaken
  <2>5. ~new.orphan
    BY <2>2, <2>4 DEF orphanAnnotationSet
  <2>6. policy = new
    <3>1. policy \in Policy /\ new \in Policy
      BY <1>t, CleanupAssumption
    <3>2. policy = [new EXCEPT !.orphan = policy.orphan]
      BY <2>2 DEF GenerationChanged
    <3>3. policy.orphan = new.orphan
      BY <2>4, <2>5, <3>1, Zenon DEF Policy
    <3> QED
      BY <3>1, <3>2, <3>3, Zenon DEF Policy
  <2> QED
    BY <2>1, <2>6
<1>4. CASE SAChanges
  <2>1. UNCHANGED <<policy, fin, pc>> /\ due = "saMissing"
    BY <1>4 DEF SAChanges, Wakes
  <2>2. policy.prune /\ ~policy.cli /\ ~policy.orphan
    BY <2>1 DEF WayOutTaken
  <2>3. sa' = "gone" \/ missed'
    BY <1>4, <2>2
    DEF SAChanges, Wakes, mapServiceAccountToModuleInstances, waitsForServiceAccount
  <2> QED
    BY <2>1, <2>2, <2>3
<1>5. CASE (\E o \in Entries : UserAdopts(o) \/ UserCreates(o) \/ UserDeletes(o) \/ TerminationEnds(o))
           \/ UNCHANGED vars
  <2>1. UNCHANGED <<policy, fin, due, pc, sa, missed>>
    BY <1>5 DEF UserAdopts, UserCreates, UserDeletes, TerminationEnds, Touches, others, userVars,
       queueVars, vars
  <2> QED
    BY <2>1 DEF WayOutTaken
<1> QED
  BY <1>2, <1>3, <1>4, <1>5 DEF Next, Environment

-----------------------------------------------------------------------------
(***************************************************************************)
(* The plans and the wait                                                  *)
(***************************************************************************)
(* An object of the instance that nobody else touched can only start to    *)
(* terminate, and go.                                                      *)
LEMMA MineStable ==
  ASSUME TypeOK, [Next]_vars, NEW o \in Entries, Mine(o)'
  PROVE  /\ Mine(o) /\ live'[o].uid = live[o].uid /\ live'[o].label = live[o].label
         /\ live[o].term => live'[o].term
<1>t. live \in [Entries -> LiveObject]
  BY DEF TypeOK
<1>1. touched \subseteq touched' /\ (\/ live'[o] = live[o] \/ live'[o] = Absent
                                     \/ live'[o] = [live[o] EXCEPT !.term = TRUE]
                                     \/ o \in touched')
  <2>1. CASE UNCHANGED live
    <3>1. touched' = touched \/ Environment
      BY DEF Next, Start, Progress, Failure, LoseIdentity, Orphan, RunCleanup, DeleteTarget, NextPlan,
         Held, BeginAwait, AwaitGone, PatchStatus, releaseFinalizer, JudgeEntry, CheckGone,
         DeleteFails, CheckFails, Crash, JudgeFails, runOnly, objVars, vars
    <3>2. Environment => touched \subseteq touched'
      BY DEF Environment, EditPolicy, SAChanges, UserAdopts, UserCreates, UserDeletes,
         TerminationEnds, Touches, objVars
    <3> QED
      BY <2>1, <3>1, <3>2
  <2>2. CASE DeleteTarget \/ DeleteFails
    BY <1>t, <2>2 DEF DeleteTarget, DeleteFails, TypeOK
  <2>3. CASE Environment
    BY <1>t, <2>3 DEF Environment, EditPolicy, SAChanges, UserAdopts, UserCreates, UserDeletes,
       TerminationEnds, Touches, objVars
  <2> QED
    BY <2>1, <2>2, <2>3 DEF Next, Start, Progress, Failure, LoseIdentity, Orphan, RunCleanup, NextPlan,
       Held, BeginAwait, AwaitGone, PatchStatus, releaseFinalizer, JudgeEntry, CheckGone,
       CheckFails, Crash, JudgeFails, objVars, vars
<1>2. o \notin touched' /\ live'[o].uid # 0
  BY DEF Mine, Exists
<1>3. live'[o] # Absent
  BY <1>2 DEF Absent
<1>4. live'[o] = live[o] \/ live'[o] = [live[o] EXCEPT !.term = TRUE]
  BY <1>1, <1>2, <1>3
<1>5. /\ live'[o].uid = live[o].uid /\ live'[o].label = live[o].label
      /\ live'[o].managed = live[o].managed /\ live'[o].adopt = live[o].adopt
  BY <1>t, <1>4 DEF LiveObject
<1>6. live[o].term => live'[o].term
  BY <1>t, <1>4 DEF LiveObject
<1> QED
  BY <1>1, <1>2, <1>5, <1>6 DEF Mine, Exists

(* A step that leaves the plans alone keeps what they account for.         *)
LEMMA PlanKept ==
  ASSUME TypeOK, PlanSound, [Next]_vars, UNCHANGED <<pc, cur, inv, planVars>>
  PROVE  PlanSound'
<1>1. \A o \in Entries : Mine(o)' => /\ Mine(o) /\ live'[o].uid = live[o].uid
                                     /\ live'[o].label = live[o].label
                                     /\ live[o].term => live'[o].term
  BY MineStable
<1>2. UNCHANGED <<pc, todo, left, k, target, read, sent, failed>>
  BY DEF planVars
<1>3. SplitKeptClaims(inv)' = SplitKeptClaims(inv) /\ SplitKeptClaims(Entries)' = SplitKeptClaims(Entries)
  BY DEF SplitKeptClaims
<1>4. Planned' = Planned /\ Planned \subseteq Entries
  BY <1>3 DEF Planned, SplitKeptClaims, TypeOK
<1>5. ASSUME NEW o \in Planned, Mine(o)', Accounted(o)
      PROVE  Accounted(o)'
  BY <1>1, <1>2, <1>4, <1>5 DEF Accounted
<1>6. pc \in {"judge", "delete"} /\ failed = "no" =>
        \A o \in Planned : Mine(o)' => Accounted(o)'
  BY <1>1, <1>4, <1>5 DEF PlanSound
<1>7. pc = "gone" => \A o \in Planned :
        Mine(o)' => o \in todo \cup left /\ live'[o].uid = read[o] /\ live'[o].term
  BY <1>1, <1>4 DEF PlanSound
<1> QED
  BY <1>2, <1>3, <1>4, <1>6, <1>7 DEF PlanSound

(* Every step keeps each object accounted for by the plans (PlanSound).    *)
LEMMA PlanStep ==
  ASSUME TypeOK, PlanSound, [Next]_vars
  PROVE  PlanSound'
<1>t. /\ live \in [Entries -> LiveObject] /\ read \in [Entries -> Nat] /\ k \in Nat
      /\ inv \subseteq Entries /\ Len(identities) \in Nat
  BY IdentitiesCover DEF TypeOK
<1>m. \A o \in Entries : Mine(o)' => /\ Mine(o) /\ live'[o].uid = live[o].uid
                                     /\ live'[o].label = live[o].label
                                     /\ live[o].term => live'[o].term
  BY MineStable
<1>p. Planned \subseteq Entries /\ Planned \subseteq SplitKeptClaims(Entries) \ Excluded
  BY <1>t DEF Planned, SplitKeptClaims
<1>c. ASSUME cur' = cur, inv' = inv
      PROVE  SplitKeptClaims(Entries)' = SplitKeptClaims(Entries) /\ Planned' = Planned
  BY <1>c DEF Planned, SplitKeptClaims
<1>1. CASE Ends("soon") \/ PatchStatus \/ releaseFinalizer
  <2>1. pc' = "idle" /\ target' = {}
    BY <1>1 DEF Ends, PatchStatus, releaseFinalizer
  <2> QED
    BY <2>1 DEF PlanSound
<1>2. CASE Start \/ LoseIdentity \/ Orphan \/ AwaitGone \/ Held \/ CheckFails
  <2>1. CASE UNCHANGED planVars
    <3>1. pc' \in {"idle", "release", "identity", "orphan", "patch"} /\ pc # "delete"
      BY <1>2 DEF Start, LoseIdentity, actOnLostIdentity, Orphan, AwaitGone, Held, CheckFails, Marks,
         Releases, PlansDone, Ends
    <3> QED
      BY <2>1, <3>1 DEF PlanSound, planVars
  <2> QED
    BY <1>1, <1>2, <2>1 DEF Start, LoseIdentity, Orphan, AwaitGone, Held, CheckFails
<1>3. CASE RunCleanup
  <2>1. /\ cur' = cur /\ inv' = inv /\ pc' = "judge" /\ todo' = Planned /\ left' = {} /\ k' = 1
        /\ sent' = {} /\ target' = {}
    BY <1>3 DEF RunCleanup, PlanSound, Planned, runVars
  <2>2. SplitKeptClaims(Entries)' = SplitKeptClaims(Entries) /\ Planned' = Planned
    BY <1>c, <2>1
  <2>3. \A o \in Planned : Accounted(o)'
    BY <2>1 DEF Accounted
  <2> QED
    BY <1>p, <2>1, <2>2, <2>3 DEF PlanSound
<1>4. ASSUME NEW e \in Entries, JudgeEntry(e)
      PROVE  PlanSound'
  <2>1. /\ cur' = cur /\ inv' = inv /\ k' = k /\ sent' = sent /\ failed' = failed /\ live' = live
        /\ pc = "judge" /\ e \in todo /\ todo' = todo \ {e} /\ target = {}
    BY <1>4 DEF JudgeEntry, runOnly, runVars, objVars, PlanSound
  <2>2. SplitKeptClaims(Entries)' = SplitKeptClaims(Entries) /\ Planned' = Planned
    BY <1>c, <2>1
  <2>3. CASE CanDelete(live[e], identities[k]) = "proceed"
    <3>1. /\ target' = {e} /\ left' = left /\ pc' = "delete"
          /\ read' = [read EXCEPT ![e] = live[e].uid]
      BY <1>4, <2>3 DEF JudgeEntry
    <3>2. \A o \in Entries : Accounted(o) => Accounted(o)'
      BY <1>t, <2>1, <3>1 DEF Accounted
    <3>3. failed = "no" => \A o \in Planned : Mine(o)' => Accounted(o)'
      BY <1>m, <1>p, <2>1, <3>2 DEF PlanSound
    <3>4. todo' \cup left' \cup target' \cup sent' \subseteq todo \cup left \cup sent
      BY <2>1, <3>1
    <3> QED
      BY <2>1, <2>2, <3>1, <3>3, <3>4 DEF PlanSound
  <2>4. CASE CanDelete(live[e], identities[k]) # "proceed"
    <3>1. /\ target' = target /\ read' = read /\ pc' = pc
          /\ left' = IF CanDelete(live[e], identities[k]) = "mismatch" THEN left \cup {e} ELSE left
      BY <1>4, <2>4 DEF JudgeEntry
    <3>2. ASSUME Mine(e), \A j \in 1 .. k - 1 : live[e].label # identities[j]
          PROVE  e \in left' /\ \A j \in 1 .. k : live[e].label # identities[j]
      <4>1. live[e].uid # 0 /\ live[e].managed /\ live[e].adopt = NoId
        BY <3>2 DEF Mine, Exists
      <4>2. CanDelete(live[e], identities[k]) = "mismatch" /\ live[e].label # identities[k]
        BY <2>4, <4>1 DEF CanDelete, Exists
      <4> QED
        BY <1>t, <3>1, <3>2, <4>2
    <3>3. ASSUME NEW o \in Entries, Mine(o), Accounted(o)
          PROVE  Accounted(o)'
      <4>1. CASE o = e /\ o \in todo /\ \A j \in 1 .. k - 1 : live[o].label # identities[j]
        BY <2>1, <3>2, <3>3, <4>1 DEF Accounted
      <4>2. CASE ~(o = e /\ o \in todo /\ \A j \in 1 .. k - 1 : live[o].label # identities[j])
        BY <2>1, <3>1, <3>3, <4>2 DEF Accounted
      <4> QED
        BY <4>1, <4>2
    <3>4. failed = "no" => \A o \in Planned : Mine(o)' => Accounted(o)'
      BY <1>m, <1>p, <2>1, <3>3 DEF PlanSound
    <3>5. todo' \cup left' \cup target' \cup sent' \subseteq todo \cup left \cup sent
      BY <2>1, <3>1
    <3> QED
      BY <2>1, <2>2, <3>1, <3>4, <3>5 DEF PlanSound
  <2> QED
    BY <2>3, <2>4
<1>5. ASSUME NEW e \in Entries, JudgeFails(e)
      PROVE  PlanSound'
  <2>1. /\ cur' = cur /\ inv' = inv /\ k' = k /\ pc' = pc /\ pc = "judge" /\ failed' # "no"
        /\ todo' \subseteq todo /\ UNCHANGED <<left, target, sent>>
    BY <1>5 DEF JudgeFails, Worse, runOnly, runVars
  <2>2. SplitKeptClaims(Entries)' = SplitKeptClaims(Entries)
    BY <1>c, <2>1
  <2> QED
    BY <2>1, <2>2 DEF PlanSound
<1>6. CASE DeleteTarget
  <2>1. /\ cur' = cur /\ inv' = inv /\ k' = k /\ pc = "delete" /\ pc' = "judge" /\ target' = {}
        /\ UNCHANGED <<todo, left, read>> /\ sent' \subseteq sent \cup target
    BY <1>6 DEF DeleteTarget, runOnly, runVars
  <2>2. SplitKeptClaims(Entries)' = SplitKeptClaims(Entries) /\ Planned' = Planned
    BY <1>c, <2>1
  <2>3. failed' = "no" => \A o \in Planned : Mine(o)' => Accounted(o)'
    <3> SUFFICES ASSUME failed' = "no", NEW o \in Planned, Mine(o)'
                 PROVE  Accounted(o)'
      OBVIOUS
    <3>1. Mine(o) /\ live'[o].uid = live[o].uid /\ live'[o].label = live[o].label
          /\ (live[o].term => live'[o].term) /\ o \in Entries
      BY <1>m, <1>p
    <3>2. failed = "no" /\ sent \subseteq sent'
      BY <1>6 DEF DeleteTarget, Worse
    <3>3. Accounted(o)
      BY <2>1, <3>1, <3>2 DEF PlanSound
    <3>4. CASE o \notin target
      BY <2>1, <3>1, <3>2, <3>3, <3>4 DEF Accounted
    <3>5. CASE o \in target
      <4>1. ASSUME NEW e \in target, target = {e}, e = o
            PROVE  o \in sent' /\ live'[o].uid = read[o] /\ live'[o].term
        <5>1. live'[o] # Absent /\ Exists(live[o])
          BY <3>1 DEF Mine, Exists, Absent
        <5>2. live'[o] = [live[o] EXCEPT !.term = TRUE] /\ o \in sent' /\ live[o].uid = read[o]
          BY <1>6, <1>t, <3>1, <4>1, <5>1 DEF DeleteTarget, Worse
        <5> QED
          BY <1>t, <3>1, <5>2 DEF LiveObject
      <4>2. target = {o}
        BY <3>5, <2>1 DEF PlanSound
      <4> QED
        BY <2>1, <4>1, <4>2 DEF Accounted
    <3> QED
      BY <3>4, <3>5
  <2> QED
    BY <2>1, <2>2, <2>3 DEF PlanSound
<1>7. CASE DeleteFails
  <2>1. /\ cur' = cur /\ inv' = inv /\ k' = k /\ pc = "delete" /\ pc' = "judge" /\ failed' # "no"
        /\ UNCHANGED <<todo, left, sent>> /\ target' = {}
    BY <1>7 DEF DeleteFails, Worse, runOnly, runVars
  <2>2. SplitKeptClaims(Entries)' = SplitKeptClaims(Entries)
    BY <1>c, <2>1
  <2> QED
    BY <2>1, <2>2 DEF PlanSound
<1>8. CASE NextPlan
  <2>1. /\ cur' = cur /\ inv' = inv /\ pc = "judge" /\ pc' = pc /\ todo = {} /\ todo' = left /\ left' = {}
        /\ k' = k + 1 /\ UNCHANGED <<target, read, sent, failed, live>> /\ target = {}
    BY <1>8 DEF NextPlan, runVars, objVars, PlanSound
  <2>2. SplitKeptClaims(Entries)' = SplitKeptClaims(Entries) /\ Planned' = Planned
    BY <1>c, <2>1
  <2>3. \A o \in Entries : Accounted(o) => Accounted(o)'
    BY <1>t, <2>1 DEF Accounted
  <2>4. failed = "no" => \A o \in Planned : Mine(o)' => Accounted(o)'
    BY <1>m, <1>p, <2>1, <2>3 DEF PlanSound
  <2> QED
    BY <1>t, <2>1, <2>2, <2>4 DEF PlanSound
<1>9. CASE BeginAwait
  <2>1. /\ cur' = cur /\ inv' = inv /\ pc = "judge" /\ pc' = "gone" /\ todo = {} /\ todo' = sent
        /\ failed = "no" /\ (left = {} \/ k = Len(identities))
        /\ UNCHANGED <<target, read, sent, live, k>> /\ target = {} /\ left' = {}
    BY <1>9 DEF BeginAwait, PlansDone, holdVerdict, runVars, objVars, PlanSound
  <2>2. SplitKeptClaims(Entries)' = SplitKeptClaims(Entries) /\ Planned' = Planned
    BY <1>c, <2>1
  <2>3. ASSUME NEW o \in Planned, Mine(o)
        PROVE  o \in sent /\ live[o].uid = read[o] /\ live[o].term
    <3>1. Accounted(o)
      BY <2>1, <2>3 DEF PlanSound
    <3>2. \E j \in 1 .. Len(identities) : identities[j] = live[o].label
      BY <2>3, IdentitiesCover DEF Mine
    <3> QED
      BY <2>1, <3>1, <3>2 DEF Accounted
  <2> QED
    BY <1>m, <1>p, <2>1, <2>2, <2>3 DEF PlanSound
<1>10. ASSUME NEW e \in Entries, CheckGone(e)
       PROVE  PlanSound'
  <2>1. /\ cur' = cur /\ inv' = inv /\ pc = "gone" /\ pc' = pc /\ e \in todo /\ todo' = todo \ {e}
        /\ left' = IF StillThere(e) THEN left \cup {e} ELSE left
        /\ UNCHANGED <<target, read, sent, live, k>>
    BY <1>10 DEF CheckGone, runVars, objVars
  <2>2. SplitKeptClaims(Entries)' = SplitKeptClaims(Entries) /\ Planned' = Planned
    BY <1>c, <2>1
  <2>3. ASSUME NEW o \in Planned, Mine(o)
        PROVE  o \in todo' \cup left'
    <3>1. o \in todo \cup left /\ live[o].uid = read[o] /\ Exists(live[o])
      BY <2>1, <2>3 DEF PlanSound, Mine
    <3> QED
      BY <2>1, <3>1 DEF StillThere
  <2> QED
    BY <1>m, <1>p, <2>1, <2>2, <2>3 DEF PlanSound
<1>11. CASE Environment \/ UNCHANGED vars
  <2>1. UNCHANGED <<pc, cur, inv, planVars>>
    BY <1>11 DEF Environment, EditPolicy, SAChanges, UserAdopts, UserCreates, UserDeletes,
       TerminationEnds, Touches, others, runVars, planVars, vars
  <2> QED
    BY <2>1, PlanKept
<1> QED
  BY <1>1, <1>2, <1>3, <1>4, <1>5, <1>6, <1>7, <1>8, <1>9, <1>10, <1>11 DEF Next, Progress, Failure, Crash

(* What was sent stays sent, and what is gone stays gone.                  *)
LEMMA SentStable ==
  ASSUME TypeOK, [Next]_vars, inv' \subseteq inv
  PROVE  /\ SentAll => SentAll'
         /\ \A S \in SUBSET Entries : (\A o \in S : ~Mine(o)) => \A o \in S : ~Mine(o)'
<1>1. \A o \in Entries : Mine(o)' => Mine(o) /\ (live[o].term => live'[o].term)
  BY MineStable
<1>2. inv \subseteq Entries
  BY DEF TypeOK
<1> QED
  BY <1>1, <1>2 DEF SentAll

(* Every step keeps the record of the sent deletes true (SentSound).       *)
LEMMA SentStep ==
  ASSUME TypeOK, RecordSeen, PlanSound, SentSound, [Next]_vars
  PROVE  SentSound'
<1> DEFINE Unchecked == ready \in Waiting \/ (pc = "patch" /\ mark \in Waiting)
                          \/ (pc = "release" /\ event = "unconfirmed")
           Checked == pc = "release" /\ event = "none" /\ cur.prune /\ ~cur.cli
<1>s. (Unchecked => SentAll) /\ (Checked => \A o \in Planned : ~Mine(o))
  BY DEF SentSound
<1>i. inv' \subseteq inv
  BY DEF Next, Start, Progress, Failure, Environment, LoseIdentity, Orphan, RunCleanup, DeleteTarget,
     NextPlan, Held, BeginAwait, AwaitGone, PatchStatus, releaseFinalizer, JudgeEntry, CheckGone,
     DeleteFails, CheckFails, Crash, JudgeFails, EditPolicy, SAChanges, UserAdopts, UserCreates,
     UserDeletes, TerminationEnds, Touches, others, runOnly, vars
<1>a. SentAll => SentAll'
  BY <1>i, SentStable
<1>p. Planned \subseteq Entries
  BY DEF Planned, SplitKeptClaims, TypeOK
<1>q. ASSUME Unchecked' => Unchecked \/ SentAll, ~Checked'
      PROVE  SentSound'
  BY <1>a, <1>q, <1>s DEF SentSound
<1>w. HasRecord /\ pc # "idle" => ready \in Waiting
  BY DEF HasRecord, RecordSeen, recordedWaitReason, Waiting
<1>1. CASE Start
  <2>1. /\ ready' = ready /\ inv' = inv /\ event' = "none" /\ pc' # "patch" /\ cur' = policy
        /\ pc' = "release" => policy.cli \/ ~policy.prune \/ inv = {}
    BY <1>1 DEF Start
  <2>2. Unchecked' => Unchecked
    BY <2>1
  <2>3. inv = {} => Planned' = {}
    BY <2>1 DEF Planned, SplitKeptClaims
  <2> QED
    BY <1>a, <1>s, <2>1, <2>2, <2>3 DEF SentSound
<1>2. CASE LoseIdentity
  <2>1. ready' = ready /\ inv' = inv /\ pc = "identity" /\ cur' = cur
    BY <1>2 DEF LoseIdentity
  <2>2. PICK held \in {"gone", "missing", "failed"} : actOnLostIdentity(held)
    BY <1>2 DEF LoseIdentity
  <2>3. pc' = "release" => event' = "unconfirmed" /\ (SplitKeptClaims(inv) = {} \/ HasRecord)
    BY <2>2 DEF actOnLostIdentity, Releases, Marks
  <2>4. pc' = "patch" /\ mark' \in Waiting => HasRecord
    BY <2>2, LostType DEF Waiting
  <2>5. SplitKeptClaims(inv) = {} => SentAll
    BY DEF SplitKeptClaims, SentAll
  <2> QED
    BY <1>q, <1>w, <2>1, <2>3, <2>4, <2>5
<1>3. CASE Held \/ CheckFails
  <2>1. ready' = ready /\ pc # "idle" /\ pc' # "release"
        /\ (pc' = "patch" /\ mark' \in Waiting => HasRecord)
    BY <1>3 DEF Held, CheckFails, Marks, Ends, PlansDone, Waiting
  <2> QED
    BY <1>q, <1>w, <2>1
<1>4. CASE AwaitGone
  <2>1. /\ ready' = ready /\ inv' = inv /\ cur' = cur /\ pc = "gone" /\ todo = {} /\ live' = live
        /\ IF left = {} THEN pc' = "release" /\ event' = "none" ELSE pc' = "patch"
    BY <1>4 DEF AwaitGone, Releases, Marks, objVars
  <2>2. SentAll
    BY <2>1 DEF PlanSound, SentAll, Planned, SplitKeptClaims
  <2>3. left = {} => \A o \in Planned : ~Mine(o)
    BY <2>1 DEF PlanSound
  <2>4. Planned' = Planned
    BY <2>1 DEF Planned, SplitKeptClaims
  <2>5. left = {} => \A o \in Planned : ~Mine(o)'
    BY <1>i, <1>p, <2>3, SentStable
  <2> QED
    BY <1>a, <2>1, <2>2, <2>4, <2>5 DEF SentSound
<1>5. CASE PatchStatus
  <2>1. pc = "patch" /\ ready' \in {ready, mark} /\ pc' = "idle"
    BY <1>5 DEF PatchStatus, Ends
  <2> QED
    BY <1>q, <2>1
<1>6. CASE releaseFinalizer \/ Crash \/ Orphan \/ RunCleanup \/ DeleteTarget \/ NextPlan \/ BeginAwait
           \/ DeleteFails \/ \E o \in Entries : JudgeEntry(o) \/ CheckGone(o) \/ JudgeFails(o)
  <2>1. ready' = ready /\ pc' # "patch" /\ (pc' = "release" => event' = "orphaned")
    BY <1>6 DEF releaseFinalizer, Crash, Ends, Orphan, Releases, RunCleanup, DeleteTarget, NextPlan,
       BeginAwait, DeleteFails, JudgeEntry, CheckGone, JudgeFails, runOnly, PlansDone
  <2> QED
    BY <1>q, <2>1
<1>7. CASE Environment \/ UNCHANGED vars
  <2>1. UNCHANGED <<ready, pc, mark, event, cur, inv>>
    BY <1>7 DEF Environment, EditPolicy, SAChanges, UserAdopts, UserCreates, UserDeletes,
       TerminationEnds, Touches, others, runVars, vars
  <2>2. Planned' = Planned
    BY <2>1 DEF Planned, SplitKeptClaims
  <2>3. Checked => \A o \in Planned : ~Mine(o)'
    BY <1>s, <1>i, <1>p, SentStable
  <2> QED
    BY <1>a, <1>s, <2>1, <2>2, <2>3 DEF SentSound
<1> QED
  BY <1>1, <1>2, <1>3, <1>4, <1>5, <1>6, <1>7 DEF Next, Progress, Failure

-----------------------------------------------------------------------------
(***************************************************************************)
(* What the cleanup guarantees                                             *)
(***************************************************************************)
(* The deletion cleanup is well typed; it never waits for the recheck of a *)
(* ServiceAccount when a way out was taken; its record is true; and its    *)
(* plans lose none of the instance's objects.                              *)
THEOREM CleanupSafety == Spec => []CleanupInv
<1>1. ASSUME CleanupInv, [Next]_vars
      PROVE  CleanupInv'
  BY <1>1, TypeStep, WayOutStep, StallStep, RecordStep, PlanStep, SentStep DEF CleanupInv
<1> QED
  BY <1>1, InitCleanup, PTL DEF Spec

(* No reconcile replaces the record that every delete was sent by a stall  *)
(* (holdRecheck and recordedWaitReason).                                   *)
THEOREM RecordSafety == Spec => RecordKept
<1>1. ASSUME CleanupInv, [Next]_vars
      PROVE  [(ready \in Waiting) => (ready' \in Waiting)]_vars
  <2>1. PatchStatus \/ ready' = ready
    BY <1>1 DEF Next, Start, Progress, Failure, Environment, LoseIdentity, Orphan, RunCleanup,
       DeleteTarget, NextPlan, Held, BeginAwait, AwaitGone, releaseFinalizer, JudgeEntry, CheckGone,
       DeleteFails, CheckFails, Crash, JudgeFails, EditPolicy, SAChanges, UserAdopts, UserCreates,
       UserDeletes, TerminationEnds, Touches, others, runOnly, vars
  <2>2. CASE PatchStatus
    BY <1>1, <2>2 DEF PatchStatus, CleanupInv, RecordSeen, HasRecord, recordedWaitReason
  <2> QED
    BY <2>1, <2>2
<1> QED
  BY <1>1, CleanupSafety, PTL DEF Spec, RecordKept

(* The cleanup deletes only objects its plan holds, each under the UID its *)
(* verdict was reached on, and no claim the data policy keeps.             *)
THEOREM DeletesSafety == Spec => DeletesOnlyPlanned
<1>1. ASSUME CleanupInv, [Next]_vars
      PROVE  [pc = "delete" /\ pc' = "judge" =>
                \A o \in Entries :
                  live'[o] # live[o] => /\ live[o].uid = read[o] /\ o \notin Excluded
                                        /\ o \in Claims => cur.deleteData]_vars
  <2> SUFFICES ASSUME pc = "delete", pc' = "judge", NEW o \in Entries, live'[o] # live[o]
               PROVE  /\ live[o].uid = read[o] /\ o \notin Excluded
                      /\ o \in Claims => cur.deleteData
    OBVIOUS
  <2>1. DeleteTarget \/ DeleteFails
    BY <1>1 DEF Next, Start, Progress, Failure, Environment, LoseIdentity, Orphan, RunCleanup, NextPlan,
       Held, BeginAwait, AwaitGone, PatchStatus, releaseFinalizer, JudgeEntry, CheckGone, CheckFails,
       Crash, JudgeFails, EditPolicy, SAChanges, UserAdopts, UserCreates, UserDeletes,
       TerminationEnds, Touches, others, Ends, PlansDone, vars
  <2>2. o \in target /\ live[o].uid = read[o]
    BY <1>1, <2>1 DEF DeleteTarget, DeleteFails, CleanupInv, TypeOK
  <2>3. o \in SplitKeptClaims(Entries) \ Excluded
    BY <1>1, <2>2 DEF CleanupInv, PlanSound
  <2> QED
    BY <2>2, <2>3 DEF SplitKeptClaims
<1> QED
  BY <1>1, CleanupSafety, PTL DEF Spec, DeletesOnlyPlanned

(* The step that releases the finalizer.                                   *)
LEMMA ReleaseStep ==
  ASSUME [Next]_vars, fin, ~fin'
  PROVE  releaseFinalizer
BY DEF Next, Start, Progress, Failure, Environment, LoseIdentity, Orphan, RunCleanup, DeleteTarget,
   NextPlan, Held, BeginAwait, AwaitGone, PatchStatus, JudgeEntry, CheckGone, DeleteFails, CheckFails,
   Crash, JudgeFails, EditPolicy, SAChanges, UserAdopts, UserCreates, UserDeletes, TerminationEnds,
   Touches, others, runOnly, vars

(* The finalizer is released after a check only when none of the           *)
(* instance's objects is left that the cleanup may delete.                 *)
THEOREM GoneSafety == Spec => ReleasedWhenGone
<1>1. ASSUME CleanupInv, [Next]_vars
      PROVE  [fin /\ ~fin' /\ event = "none" /\ cur.prune /\ ~cur.cli =>
                \A o \in inv : Mine(o) => \/ o \in Excluded
                                          \/ o \in Claims /\ ~cur.deleteData]_vars
  <2> SUFFICES ASSUME fin, ~fin', event = "none", cur.prune, ~cur.cli, NEW o \in inv, Mine(o)
               PROVE  o \in Excluded \/ (o \in Claims /\ ~cur.deleteData)
    OBVIOUS
  <2>1. pc = "release"
    BY <1>1, ReleaseStep DEF releaseFinalizer
  <2>2. o \notin Planned
    BY <1>1, <2>1 DEF CleanupInv, SentSound
  <2> QED
    BY <2>2 DEF Planned, SplitKeptClaims
<1> QED
  BY <1>1, CleanupSafety, PTL DEF Spec, ReleasedWhenGone

(* The finalizer is released without a check only when every object but    *)
(* the claims was sent its delete.                                         *)
THEOREM UncheckedSafety == Spec => ReleasedUncheckedWhenSent
<1>1. ASSUME CleanupInv, [Next]_vars
      PROVE  [fin /\ ~fin' /\ event = "unconfirmed" =>
                \A o \in inv \ (Claims \cup Excluded) : Mine(o) => live[o].term]_vars
  <2> SUFFICES ASSUME fin, ~fin', event = "unconfirmed"
               PROVE  \A o \in inv \ (Claims \cup Excluded) : Mine(o) => live[o].term
    OBVIOUS
  <2>1. pc = "release"
    BY <1>1, ReleaseStep DEF releaseFinalizer
  <2> QED
    BY <1>1, <2>1 DEF CleanupInv, SentSound, SentAll
<1> QED
  BY <1>1, CleanupSafety, PTL DEF Spec, ReleasedUncheckedWhenSent
=============================================================================
