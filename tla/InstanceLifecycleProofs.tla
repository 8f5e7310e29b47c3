----------------------- MODULE InstanceLifecycleProofs -----------------------
(***************************************************************************)
(* Proofs about InstanceLifecycle: that a success hides no drift, that the *)
(* finalizer is there before the first object, and that a render is        *)
(* skipped only where it would change nothing.                             *)
(***************************************************************************)
EXTENDS InstanceLifecycle, TLAPS

(* The types of the variables that a reconcile of the instance owns.       *)
RunTyped ==
    /\ pc \in {"idle", "act", "apply", "gate", "commit"}
    /\ cur \in Object /\ base \in Status /\ mi \in Status
    /\ key \in Key \cup {None} /\ again \in BOOLEAN /\ queued \in BOOLEAN

(* What an idle worker holds is well typed.                                *)
LEMMA IdleTypes ==
  /\ NoObject \in Object /\ NewStatus \in Status
  <1>1. (CHOOSE s \in Specs : TRUE) \in Specs
    BY LifecycleAssumption
  <1>2. 1 \in Generation /\ 0 \in 0 .. MaxEdits + 1
    BY LifecycleAssumption DEF Generation
  <1>3. NoObject \in Object
    BY <1>1, <1>2 DEF NoObject, Object
  <1>4. NewStatus \in Status
    BY <1>2 DEF NewStatus, Status, Ready, Marker
  <1>5. QED
    BY <1>3, <1>4

(* A reconcile that ends leaves an idle worker.                            *)
LEMMA EndsTypes ==
  ASSUME queued \in BOOLEAN, NEW r \in BOOLEAN, EndsRun(r)
  PROVE  RunTyped' /\ pc' = "idle"
  <1>1. pc' = "idle" /\ queued' \in BOOLEAN /\ again' \in BOOLEAN
    BY DEF EndsRun
  <1>2. QED
    BY <1>1, IdleTypes DEF EndsRun, RunTyped

(* The initial states are well typed, and nothing is rendered yet.         *)
LEMMA InitRecord == Init => RecordInv
  <1> SUFFICES ASSUME Init PROVE RecordInv
    OBVIOUS
  <1>1. 1 \in Generation /\ 0 \in 0 .. MaxEdits + 1 /\ 0 \in 0 .. MaxEdits /\ 0 \in 0 .. MaxFaults
    BY LifecycleAssumption DEF Generation
  <1>2. inst \in Object /\ inst.gen = 1
    BY <1>1 DEF Init, Object
  <1>3. plat \in [gen: Generation, skew: Skews] /\ plat.gen = 1
    BY <1>1 DEF Init
  <1>4. cr \in PlatformStatus
    BY <1>1 DEF Init, PlatformStatus
  <1>5. TypeOK
    BY <1>1, <1>2, <1>3, <1>4, IdleTypes DEF Init, TypeOK, Marker
  <1>6. st.obs = 0 /\ st.ready # "Succeeded" /\ st.digest = None
    BY DEF Init, NewStatus
  <1>7. GensSound
    <2>1. edits = 0
      BY DEF Init
    <2>2. inst.gen <= edits + 1 /\ plat.gen <= edits + 1 /\ st.obs <= inst.gen
      BY <1>2, <1>3, <1>6, <2>1
    <2>3. st.obs # inst.gen
      BY <1>2, <1>6
    <2>4. QED
      BY <2>2, <2>3 DEF GensSound
  <1>8. NoDriftHidden /\ DigestSound
    BY <1>6 DEF NoDriftHidden, DigestSound
  <1>9. RunRead /\ RunWrites
    BY DEF Init, RunRead, RunWrites
  <1>10. NothingYet /\ FinalizerFirst
    BY <1>6 DEF Init, NothingYet, FinalizerFirst, Marker
  <1>11. QED
    BY <1>5, <1>7, <1>8, <1>9, <1>10 DEF RecordInv
-----------------------------------------------------------------------------
(***************************************************************************)
(* Types                                                                   *)
(***************************************************************************)
(* The digest of a key is a content, and no marker.                        *)
LEMMA DigestTypes ==
  \A k \in Key : Digest(k) \in Content /\ Digest(k) \notin Marker /\ k # None
  BY LifecycleAssumption DEF Digest, Key, Content, Marker

(* The bounds on edits and faults hold.                                    *)
LEMMA BoundTypes ==
  ASSUME edits \in 0 .. MaxEdits, faults \in 0 .. MaxFaults, Fault \/ Edit \/ UNCHANGED boundVars
  PROVE  edits' \in 0 .. MaxEdits /\ faults' \in 0 .. MaxFaults
  BY LifecycleAssumption DEF Fault, Edit, boundVars

(* The status that a patch leaves is well typed, and so is what a          *)
(* reconcile plans to write.                                               *)
LEMMA SentTypes ==
  ASSUME TypeOK, NEW conds \in BOOLEAN, NEW rest \in BOOLEAN
  PROVE  Sent(conds, rest) \in Status
  BY DEF TypeOK, Sent, Field, Status

(* The status of a successful reconcile is well typed.                     *)
LEMMA SuccessTypes ==
  ASSUME TypeOK, NEW k \in Key, NEW drift \in {"none", "drifted", "failed"}
  PROVE  Success(k, drift) \in Status
  <1>1. cur.gen \in 0 .. MaxEdits + 1
    BY DEF TypeOK, Object, Generation
  <1>2. QED
    BY <1>1, DigestTypes DEF Success, Status, Ready

(* What a step of the Platform does to it is well typed.                   *)
LEMMA PlatformTypes ==
  ASSUME RecordInv, PlatformGenerate \/ PlatformPatch \/ PlatformPatchFails \/ EditPlatform \/ ClaimsChange
  PROVE  TypeOK'
  <1>t. TypeOK /\ GensSound
    BY DEF RecordInv
  <1>m. MaxEdits \in Nat /\ MaxFaults \in Nat
    BY LifecycleAssumption
  <1> USE DEF boundVars, runVars
  <1>1. CASE PlatformGenerate
    <2> DEFINE rec == [id |-> [gen |-> plat.gen, claim |-> claim], skew |-> plat.skew]
    <2>1. /\ plat.gen \in Generation /\ plat.gen \in 0 .. MaxEdits + 1
          /\ rec \in Record /\ cr.id \in Identity \cup {None}
      <3>1. plat.gen \in Generation /\ plat.skew \in Skews /\ cr.id \in Identity \cup {None}
        BY <1>t DEF TypeOK, PlatformStatus
      <3>2. plat.gen \in 0 .. MaxEdits + 1
        BY <3>1, <1>m DEF Generation
      <3>3. [gen |-> plat.gen, claim |-> claim] \in Identity
        BY <3>1, <1>t DEF TypeOK, Identity
      <3>4. QED
        BY <3>1, <3>2, <3>3 DEF Record
    <2>2. /\ [id |-> rec.id, obs |-> plat.gen, ready |-> "True"] \in PlatformStatus
          /\ [id |-> cr.id, obs |-> plat.gen, ready |-> "False"] \in PlatformStatus
      BY <2>1 DEF Record, PlatformStatus
    <2>3. /\ store' \in {store, rec} /\ platQueued' \in {platQueued, FALSE}
          /\ platRun' \in {[id |-> rec.id, obs |-> plat.gen, ready |-> "True"],
                           [id |-> cr.id, obs |-> plat.gen, ready |-> "False"]}
          /\ Fault \/ UNCHANGED boundVars
      BY <1>1 DEF PlatformGenerate
    <2>4. edits' \in 0 .. MaxEdits /\ faults' \in 0 .. MaxFaults
      BY <2>3, <1>t, BoundTypes DEF TypeOK
    <2> HIDE DEF rec
    <2>5. UNCHANGED <<inst, st, objects, plat, claim, cr, queued, pc, runVars, periodic, lost, kept>>
      BY <1>1 DEF PlatformGenerate
    <2>6. QED
      BY <2>1, <2>2, <2>3, <2>4, <2>5, <1>t DEF TypeOK
  <1>2. CASE PlatformPatch
    <2>1. queued' \in BOOLEAN
      BY <1>2, <1>t, Zenon DEF PlatformPatch, mapPlatformToModuleInstances
    <2>2. QED
      BY <1>2, <2>1, <1>t DEF PlatformPatch, TypeOK
  <1>3. CASE PlatformPatchFails
    <2>1. edits' \in 0 .. MaxEdits /\ faults' \in 0 .. MaxFaults
      BY <1>3, <1>t, BoundTypes DEF TypeOK, PlatformPatchFails
    <2>2. QED
      BY <1>3, <2>1, <1>t DEF PlatformPatchFails, TypeOK
  <1>4. CASE EditPlatform
    <2>1. queued' \in BOOLEAN
      BY <1>4, <1>t, Zenon DEF EditPlatform, mapPlatformToModuleInstances
    <2>2. edits' \in 0 .. MaxEdits /\ faults' \in 0 .. MaxFaults
      BY <1>4, <1>t, BoundTypes DEF TypeOK, EditPlatform
    <2>3. plat' \in [gen: Generation, skew: Skews]
      BY <1>4, <1>t, <1>m DEF EditPlatform, Edit, TypeOK, GensSound, Generation
    <2>4. QED
      BY <1>4, <2>1, <2>2, <2>3, <1>t DEF EditPlatform, TypeOK
  <1>5. CASE ClaimsChange
    <2>1. edits' \in 0 .. MaxEdits /\ faults' \in 0 .. MaxFaults
      BY <1>5, <1>t, BoundTypes DEF TypeOK, ClaimsChange
    <2>2. QED
      BY <1>5, <2>1, <1>t DEF ClaimsChange, TypeOK
  <1>6. QED
    BY <1>1, <1>2, <1>3, <1>4, <1>5

(* A plan of what is left to patch is well typed.                          *)
LEMMA PlanTypes ==
  ASSUME TypeOK, NEW step \in {"apply", "gate", "commit"}, NEW s \in Status, NEW r \in BOOLEAN,
         Patches(step, s, r), key' \in Key \cup {None}, queued' = queued
  PROVE  RunTyped'
  BY DEF TypeOK, Patches, RunTyped

(* The steps of a reconcile of the instance keep the types.                *)
LEMMA RunTypes == ASSUME RecordInv, Start \/ Progress PROVE TypeOK'
  <1>t. TypeOK /\ RunWrites
    BY DEF RecordInv
  <1>p. periodic \in BOOLEAN /\ queued \in BOOLEAN /\ again \in BOOLEAN /\ TRUE \in BOOLEAN /\ FALSE \in BOOLEAN
    BY <1>t DEF TypeOK
  <1>g. cur.gen \in 0 .. MaxEdits + 1 /\ cur.spec.inp \in Inputs
    BY <1>t, LifecycleAssumption DEF TypeOK, Object, Generation, Spec0
  <1>f. [base EXCEPT !.ready = "Failed", !.obs = cur.gen] \in Status
    BY <1>t, <1>g DEF TypeOK, Status, Ready
  <1>w. Without(inst) \in Object
    BY <1>t DEF TypeOK, Without, Object
  <1>a. ASSUME RunTyped', inst' \in Object, st' \in Status, objects' \in Content \cup Marker,
               kept' \in BOOLEAN, lost' \subseteq {"commit", "event"}, UNCHANGED <<platVars, periodic>>,
               Fault \/ UNCHANGED boundVars
        PROVE  TypeOK'
    <2>1. edits' \in 0 .. MaxEdits /\ faults' \in 0 .. MaxFaults
      BY <1>a, <1>t, BoundTypes DEF TypeOK
    <2>2. QED
      BY <1>a, <1>t, <2>1 DEF TypeOK, RunTyped, platVars
  <1>s. inst \in Object /\ st \in Status /\ objects \in Content \cup Marker /\ kept \in BOOLEAN
        /\ lost \subseteq {"commit", "event"}
    BY <1>t DEF TypeOK
  <1>1. CASE Start
    <2>1. RunTyped'
      BY <1>1, <1>t DEF Start, RunTyped, TypeOK, runVars
    <2>2. QED
      BY <1>1, <1>a, <1>s, <2>1 DEF Start
  <1>2. CASE handleCLIOwned
    <2>1. [base EXCEPT !.ready = "External"] \in Status
      BY <1>t DEF TypeOK, Status, Ready
    <2>2. RunTyped'
      BY <1>2, <2>1, <1>t, <1>p, PlanTypes, EndsTypes DEF handleCLIOwned, TypeOK
    <2>3. QED
      BY <1>2, <2>2, <1>a, <1>s, <1>w DEF handleCLIOwned, removeFinalizer
  <1>3. CASE handleOwnInstance
    <2>1. [base EXCEPT !.ready = "Refused", !.drift = "none", !.obs = cur.gen] \in Status
      BY <1>t, <1>g DEF TypeOK, Status, Ready
    <2>2. RunTyped'
      BY <1>3, <2>1, <1>t, <1>p, PlanTypes, EndsTypes DEF handleOwnInstance, TypeOK
    <2>3. inst' \in Object /\ kept' \in BOOLEAN
      BY <1>3, <1>s, <1>w DEF handleOwnInstance, removeFinalizer
    <2>4. QED
      BY <1>3, <2>2, <2>3, <1>a, <1>s DEF handleOwnInstance
  <1>4. CASE addFinalizer
    <2>1. RunTyped'
      BY <1>4, <1>p, EndsTypes DEF addFinalizer
    <2>2. inst' \in Object
      BY <1>4, <1>s DEF addFinalizer, Object
    <2>3. kept' \in BOOLEAN
      BY <1>4, <1>s DEF addFinalizer
    <2>4. QED
      BY <1>4, <2>1, <2>2, <2>3, <1>a, <1>s DEF addFinalizer
  <1>5. CASE handleDeletion
    <2>1. RunTyped'
      BY <1>5, <1>p, EndsTypes DEF handleDeletion
    <2>2. objects' \in Content \cup Marker
      BY <1>5 DEF handleDeletion, Marker
    <2>3. QED
      BY <1>5, <2>1, <2>2, <1>a, <1>s, <1>w DEF handleDeletion, removeFinalizer
  <1>6. CASE handleSuspend
    <2>1. [base EXCEPT !.ready = "Suspended", !.obs = cur.gen] \in Status
      BY <1>t, <1>g DEF TypeOK, Status, Ready
    <2>2. RunTyped'
      BY <1>6, <2>1, <1>t, <1>p, PlanTypes DEF handleSuspend, TypeOK
    <2>3. QED
      BY <1>6, <2>2, <1>a, <1>s DEF handleSuspend
  <1>7. CASE skipInstanceRender
    <2>1. RunTyped'
      BY <1>7, <1>p, EndsTypes DEF skipInstanceRender
    <2>2. QED
      BY <1>7, <2>1, <1>a, <1>s DEF skipInstanceRender
  <1>8. CASE RenderFails
    <2>1. RunTyped'
      BY <1>8, <1>f, <1>t, <1>p, PlanTypes DEF RenderFails, RenderFailed, TypeOK
    <2>2. QED
      BY <1>8, <2>1, <1>a, <1>s DEF RenderFails
  <1>9. CASE Render
    <2> DEFINE k == renderedKey(store)
    <2>1. k \in Key
      BY <1>9, <1>t, <1>g DEF Render, renderedKey, TypeOK, Key, Record
    <2>2. PICK drift \in {detectDrift(Digest(k)), "failed"} :
            /\ Fault \/ UNCHANGED boundVars
            /\ \/ Patches("commit", Success(k, drift), periodic)
               \/ Patches("apply", [base EXCEPT !.drift = drift, !.obs = cur.gen], FALSE)
      BY <1>9 DEF Render
    <2>3. drift \in {"none", "drifted", "failed"}
      BY DEF detectDrift
    <2>4. Success(k, drift) \in Status
      BY <2>1, <2>3, <1>t, SuccessTypes
    <2>5. [base EXCEPT !.drift = drift, !.obs = cur.gen] \in Status
      BY <2>3, <1>t, <1>g DEF TypeOK, Status
    <2>6. key' = k /\ queued' = queued
      BY <1>9 DEF Render
    <2> HIDE DEF k
    <2>7. RunTyped'
      BY <2>1, <2>2, <2>4, <2>5, <2>6, <1>t, <1>p, PlanTypes
    <2>8. QED
      BY <1>9, <2>2, <2>7, <1>a, <1>s DEF Render
  <1>10. CASE Apply
    <2>1. key \in Key
      BY <1>10, <1>t DEF Apply, RunWrites, TypeOK
    <2>2. Success(key, "none") \in Status /\ Digest(key) \in Content
      BY <2>1, <1>t, SuccessTypes, DigestTypes
    <2>3. RunTyped'
      BY <1>10, <2>2, <1>t, <1>p, PlanTypes DEF Apply, TypeOK
    <2>4. QED
      BY <1>10, <2>2, <2>3, <1>a, <1>s DEF Apply
  <1>11. CASE ApplyFails
    <2>1. [mi EXCEPT !.ready = "Failed", !.obs = cur.gen] \in Status
      BY <1>t, <1>g DEF TypeOK, Status, Ready
    <2>2. RunTyped'
      BY <1>11, <2>1, <1>t, <1>p, PlanTypes DEF ApplyFails, RenderFailed, TypeOK
    <2>3. QED
      BY <1>11, <2>2, <1>a, <1>s DEF ApplyFails, Marker
  <1>12. CASE Commit
    <2>1. RunTyped'
      BY <1>12, <1>p, EndsTypes DEF Commit
    <2>2. st' \in Status
      BY <1>12, <1>t, SentTypes DEF Commit
    <2>3. QED
      BY <1>12, <2>1, <2>2, <1>a, <1>s DEF Commit
  <1>13. CASE CommitFails
    <2>1. RunTyped'
      BY <1>13, <1>p, EndsTypes DEF CommitFails
    <2>2. st' \in Status
      BY <1>13, <1>t, <1>s, SentTypes DEF CommitFails
    <2>3. lost' \subseteq {"commit", "event"}
      BY <1>13, <1>s DEF CommitFails
    <2>4. Fault \/ UNCHANGED boundVars
      BY <1>13 DEF CommitFails, boundVars
    <2>5. QED
      BY <1>13, <2>1, <2>2, <2>3, <2>4, <1>a, <1>s DEF CommitFails
  <1>14. CASE ActFails
    <2>1. RunTyped'
      BY <1>14, <1>p, EndsTypes DEF ActFails
    <2>2. QED
      BY <1>14, <2>1, <1>a, <1>s DEF ActFails
  <1>15. QED
    BY <1>1, <1>2, <1>3, <1>4, <1>5, <1>6, <1>7, <1>8, <1>9, <1>10, <1>11, <1>12, <1>13, <1>14
    DEF Progress

(* Every step keeps every variable in its type.                            *)
LEMMA TypeStep == RecordInv /\ [Next]_vars => TypeOK'
  <1> SUFFICES ASSUME RecordInv, [Next]_vars PROVE TypeOK'
    OBVIOUS
  <1>t. TypeOK /\ GensSound
    BY DEF RecordInv
  <1>m. MaxEdits \in Nat /\ MaxFaults \in Nat
    BY LifecycleAssumption
  <1>1. CASE UNCHANGED vars
    BY <1>1, <1>t DEF TypeOK, vars, platVars, runVars, boundVars
  <1>2. CASE Restart
    <2>1. edits' \in 0 .. MaxEdits /\ faults' \in 0 .. MaxFaults
      BY <1>2, <1>t, BoundTypes DEF TypeOK, Restart
    <2>2. RunTyped'
      BY <1>2, <1>t, EndsTypes DEF Restart, TypeOK
    <2>3. objects' \in Content \cup Marker /\ lost' \subseteq {"commit", "event"}
      BY <1>2, <1>t DEF Restart, TypeOK, Marker
    <2>4. QED
      BY <1>2, <2>1, <2>2, <2>3, <1>t DEF Restart, TypeOK, RunTyped
  <1>3. CASE EditSpec
    <2>1. edits' \in 0 .. MaxEdits /\ faults' \in 0 .. MaxFaults
      BY <1>3, <1>t, BoundTypes DEF TypeOK, EditSpec
    <2>2. inst' \in Object
      <3>1. inst.gen + 1 \in Generation
        BY <1>3, <1>t, <1>m DEF EditSpec, Edit, TypeOK, Object, Generation, GensSound
      <3>2. PICK s \in Specs : inst' = [inst EXCEPT !.spec = s, !.gen = inst.gen + 1]
        BY <1>3 DEF EditSpec
      <3>3. QED
        BY <3>1, <3>2, <1>t DEF TypeOK, Object
    <2>3. QED
      BY <1>3, <2>1, <2>2, <1>t DEF EditSpec, TypeOK, platVars, runVars
  <1>4. CASE DeleteInstance
    <2>1. edits' \in 0 .. MaxEdits /\ faults' \in 0 .. MaxFaults
      BY <1>4, <1>t, BoundTypes DEF TypeOK, DeleteInstance
    <2>2. inst' \in Object
      <3>1. inst.gen + 1 \in Generation
        BY <1>4, <1>t, <1>m DEF DeleteInstance, Edit, TypeOK, Object, Generation, GensSound
      <3>2. inst' = [inst EXCEPT !.deleting = TRUE, !.gen = inst.gen + 1, !.exists = inst.fin]
        BY <1>4 DEF DeleteInstance
      <3>3. QED
        BY <3>1, <3>2, <1>t DEF TypeOK, Object
    <2>3. QED
      BY <1>4, <2>1, <2>2, <1>t DEF DeleteInstance, TypeOK, platVars, runVars
  <1>5. CASE CLIApplies
    <2>1. st' \in Status /\ objects' \in Content \cup Marker
      BY <1>5, <1>t DEF CLIApplies, TypeOK, Status, Marker
    <2>2. QED
      BY <1>5, <2>1, <1>t DEF CLIApplies, TypeOK, platVars, runVars, boundVars
  <1>6. QED
    BY <1>1, <1>2, <1>3, <1>4, <1>5, PlatformTypes, RunTypes DEF Next
-----------------------------------------------------------------------------
(***************************************************************************)
(* The record                                                              *)
(***************************************************************************)
(* The steps that neither write the instance nor concern its reconcile,    *)
(* and the ones that only end it.                                          *)
Elsewhere == UNCHANGED <<inst, st, objects, kept, pc, cur, base, key, mi>>
Returns == pc = "act" /\ pc' = "idle" /\ UNCHANGED <<inst, st, objects, kept>>
Passing ==
    /\ Elsewhere \/ Returns
    /\ lost \subseteq lost'
    /\ \/ UNCHANGED <<edits, plat>>
       \/ edits' = edits + 1 /\ (plat' = plat \/ plat'.gen = plat.gen + 1)

(* The steps that are left.                                                *)
Gates == handleCLIOwned \/ handleOwnInstance \/ addFinalizer \/ handleDeletion \/ handleSuspend
Renders == RenderFails \/ Render \/ Apply \/ ApplyFails
Writes == Commit \/ CommitFails \/ Restart
Users == EditSpec \/ DeleteInstance \/ CLIApplies
Reads == Start /\ inst.exists

(* The kinds of step by what they do to the record and to the objects.     *)
LEMMA StepKinds ==
  ASSUME [Next]_vars
  PROVE  Passing \/ Reads \/ Gates \/ Renders \/ Writes \/ Users
  <1> USE DEF Passing, Elsewhere, Returns, boundVars, runVars, platVars
  <1>1. CASE UNCHANGED vars
    BY <1>1 DEF vars
  <1>2. CASE Start
    BY <1>2 DEF Start, Reads
  <1>3. CASE skipInstanceRender
    BY <1>3 DEF skipInstanceRender, Takes, EndsRun
  <1>4. CASE ActFails
    BY <1>4 DEF ActFails, EndsRun, Fault
  <1>5. CASE PlatformGenerate
    BY <1>5 DEF PlatformGenerate, Fault
  <1>6. CASE PlatformPatch
    BY <1>6 DEF PlatformPatch
  <1>7. CASE PlatformPatchFails
    BY <1>7 DEF PlatformPatchFails, Fault
  <1>8. CASE EditPlatform
    <2>1. plat'.gen = plat.gen + 1
      BY <1>8 DEF EditPlatform
    <2>2. QED
      BY <1>8, <2>1 DEF EditPlatform, Edit
  <1>9. CASE ClaimsChange
    BY <1>9 DEF ClaimsChange, Edit
  <1>10. QED
    BY <1>1, <1>2, <1>3, <1>4, <1>5, <1>6, <1>7, <1>8, <1>9
    DEF Next, Progress, Gates, Renders, Writes, Users

(* The gates and the renders do not write the status, and only a gate      *)
(* writes the instance.                                                    *)
LEMMA RunFrame ==
  ASSUME TypeOK, Gates \/ Renders
  PROVE  /\ st' = st /\ lost' = lost /\ edits' = edits /\ plat' = plat
         /\ pc' = "idle" \/ UNCHANGED <<cur, base>>
         /\ Renders => inst' = inst /\ kept' = kept
  <1> USE DEF boundVars, platVars, Fault
  <1>1. CASE handleCLIOwned
    BY <1>1 DEF handleCLIOwned, EndsRun, Patches, Renders, RenderFails, Render, Apply, ApplyFails, Takes, handleNotReconciled
  <1>2. CASE handleOwnInstance
    BY <1>2 DEF handleOwnInstance, EndsRun, Patches, Renders, RenderFails, Render, Apply, ApplyFails, Takes, handleNotReconciled
  <1>3. CASE addFinalizer
    BY <1>3 DEF addFinalizer, EndsRun, Renders, RenderFails, Render, Apply, ApplyFails, Takes
  <1>4. CASE handleDeletion
    BY <1>4 DEF handleDeletion, EndsRun, Renders, RenderFails, Render, Apply, ApplyFails, Takes
  <1>5. CASE handleSuspend
    BY <1>5 DEF handleSuspend, Patches
  <1>6. CASE RenderFails
    BY <1>6 DEF RenderFails, RenderFailed, Patches
  <1>7. CASE Render
    BY <1>7 DEF Render, Patches
  <1>8. CASE Apply
    BY <1>8 DEF Apply, Patches
  <1>9. CASE ApplyFails
    BY <1>9 DEF ApplyFails, RenderFailed, Patches
  <1>10. QED
    BY <1>1, <1>2, <1>3, <1>4, <1>5, <1>6, <1>7, <1>8, <1>9 DEF Gates, Renders

(* No gate and no render changes the spec, and no gate brings the instance *)
(* back.                                                                   *)
LEMMA InstFrame ==
  ASSUME TypeOK, Gates \/ Renders
  PROVE  /\ inst'.gen = inst.gen /\ inst'.spec = inst.spec /\ inst'.deleting = inst.deleting
         /\ inst'.exists => inst.exists
  <1>1. inst \in Object
    BY DEF TypeOK
  <1>2. inst' \in {inst, Without(inst), [inst EXCEPT !.fin = inst.exists]}
    BY RunFrame DEF Gates, handleCLIOwned, handleOwnInstance, addFinalizer, handleDeletion, handleSuspend,
                    removeFinalizer
  <1>3. QED
    BY <1>1, <1>2 DEF Without, Object

(* What a patch leaves in the status, of which nobody wrote another field  *)
(* than the digest since it was read.                                      *)
LEMMA SentStatus ==
  ASSUME TypeOK, RunRead, pc # "idle"
  PROVE  /\ LET s == Sent(TRUE, TRUE)
            IN /\ s.obs = mi.obs /\ s.ready = mi.ready /\ s.drift = mi.drift /\ s.inputs = mi.inputs
               /\ s.digest = IF mi.digest # base.digest THEN mi.digest ELSE st.digest
         /\ LET s == Sent(TRUE, FALSE)
            IN s.obs = st.obs /\ s.ready = mi.ready /\ s.digest = st.digest /\ s.inputs = st.inputs
         /\ Sent(FALSE, FALSE) = st
  <1>1. st.obs = base.obs /\ st.ready = base.ready /\ st.drift = base.drift /\ st.inputs = base.inputs
    BY DEF TypeOK, RunRead, Status
  <1>2. st = [obs |-> st.obs, ready |-> st.ready, drift |-> st.drift, inputs |-> st.inputs, digest |-> st.digest]
    BY DEF TypeOK, Status
  <1>3. QED
    BY <1>1, <1>2 DEF Sent, Field

(* Generations only grow, and only the controller's specs are observed.    *)
LEMMA GensStep == RecordInv /\ [Next]_vars => GensSound'
  <1> SUFFICES ASSUME RecordInv, [Next]_vars PROVE GensSound'
    OBVIOUS
  <1>t. TypeOK /\ GensSound /\ RunRead /\ RunWrites
    BY DEF RecordInv
  <1>n. /\ edits \in Nat /\ inst.gen \in Nat /\ plat.gen \in Nat /\ st.obs \in Nat
        /\ cur.gen \in Nat /\ inst \in Object
    BY <1>t, LifecycleAssumption DEF TypeOK, Object, Status, Generation
  <1>1. CASE Passing
    BY <1>1, <1>t, <1>n DEF Passing, Elsewhere, Returns, GensSound
  <1>2. CASE Reads
    BY <1>2, <1>t DEF Reads, Start, GensSound, platVars, boundVars
  <1>3. CASE Gates \/ Renders
    <2>1. inst'.gen = inst.gen /\ inst'.spec = inst.spec
      BY <1>3, <1>n, <1>t, InstFrame
    <2>2. QED
      BY <1>3, <1>t, <2>1, RunFrame DEF GensSound
  <1>4. CASE Restart
    BY <1>4, <1>t DEF Restart, Fault, GensSound
  <1>5. CASE Commit
    <2>1. pc \in {"commit", "gate"} /\ st' = Sent(TRUE, TRUE) /\ UNCHANGED <<inst, plat, edits>>
      BY <1>5 DEF Commit, platVars, boundVars
    <2>2. st'.obs = mi.obs
      BY <2>1, <1>t, SentStatus
    <2>3. \/ mi.obs = st.obs
          \/ mi.obs = cur.gen /\ cur.gen <= inst.gen /\ (cur.gen = inst.gen => inst.spec.owner # "cli")
      <3>1. st.obs = base.obs
        BY <2>1, <1>t DEF RunRead, TypeOK, Status
      <3>2. QED
        BY <2>1, <3>1, <1>t DEF RunRead, RunWrites
    <2>4. QED
      BY <2>1, <2>2, <2>3, <1>t, <1>n DEF GensSound
  <1>6. CASE CommitFails
    <2>1. /\ pc # "idle" /\ UNCHANGED <<inst, plat, edits>>
          /\ st' \in {st, Sent(TRUE, FALSE), Sent(FALSE, FALSE)}
      BY <1>6 DEF CommitFails, platVars, boundVars, Fault
    <2>2. st'.obs = st.obs
      BY <2>1, <1>t, SentStatus
    <2>3. QED
      BY <2>1, <2>2, <1>t DEF GensSound
  <1>7. CASE EditSpec \/ DeleteInstance
    <2>1. inst'.gen = inst.gen + 1 /\ edits' = edits + 1 /\ UNCHANGED <<st, plat>>
      BY <1>7, <1>n DEF EditSpec, DeleteInstance, Edit, platVars, Object
    <2>2. QED
      BY <2>1, <1>t, <1>n DEF GensSound
  <1>8. CASE CLIApplies
    <2>1. st'.obs = st.obs /\ UNCHANGED <<inst, plat, edits>>
      BY <1>8, <1>t DEF CLIApplies, platVars, boundVars, TypeOK, Status
    <2>2. QED
      BY <2>1, <1>t DEF GensSound
  <1>9. QED
    BY <1>1, <1>2, <1>3, <1>4, <1>5, <1>6, <1>7, <1>8, StepKinds DEF Writes, Users

(* A running reconcile can rely on what it read.                           *)
LEMMA ReadStep == RecordInv /\ [Next]_vars => RunRead'
  <1> SUFFICES ASSUME RecordInv, [Next]_vars PROVE RunRead'
    OBVIOUS
  <1>t. TypeOK /\ RunRead
    BY DEF RecordInv
  <1>n. /\ inst.gen \in Nat /\ cur.gen \in Nat /\ inst \in Object /\ st \in Status /\ base \in Status
    BY <1>t DEF TypeOK, Object, Generation
  <1>i. ASSUME pc' = "idle" PROVE RunRead'
    BY <1>i DEF RunRead
  <1>1. CASE Passing
    BY <1>1, <1>i, <1>t DEF Passing, Elsewhere, Returns, RunRead
  <1>2. CASE Reads
    <2>1. cur' = inst /\ base' = st /\ pc' = "act" /\ UNCHANGED <<inst, st>> /\ inst.exists
      BY <1>2 DEF Reads, Start
    <2>2. st = [st EXCEPT !.digest = st.digest]
      BY <1>n DEF Status
    <2>3. QED
      BY <2>1, <2>2, <1>n DEF RunRead
  <1>3. CASE Gates
    <2>1. st' = st /\ (pc' = "idle" \/ UNCHANGED <<cur, base>>)
      BY <1>3, <1>t, RunFrame
    <2>2. inst'.gen = inst.gen /\ inst'.spec = inst.spec /\ inst'.deleting = inst.deleting
      BY <1>3, <1>t, <1>n, InstFrame
    <2>3. pc = "act" /\ pc' \in {"idle", "gate"}
      BY <1>3, <1>t DEF Gates, handleCLIOwned, handleOwnInstance, addFinalizer, handleDeletion,
                        handleSuspend, Takes, EndsRun, Patches
    <2>4. QED
      BY <2>1, <2>2, <2>3, <1>i, <1>t DEF RunRead
  <1>4. CASE Renders
    <2>1. st' = st /\ inst' = inst /\ (pc' = "idle" \/ UNCHANGED <<cur, base>>)
      BY <1>4, <1>t, RunFrame
    <2>2. pc' \in {"apply", "commit"} /\ (pc = "apply" \/ (pc = "act" /\ cur.fin /\ cur.spec.owner # "cli"))
      BY <1>4 DEF Renders, RenderFails, Render, Apply, ApplyFails, RenderFailed, Patches, Takes,
                  handleNotReconciled, FinalizerDue
    <2>3. QED
      BY <2>1, <2>2, <1>i, <1>t DEF RunRead
  <1>5. CASE Writes
    BY <1>5, <1>i DEF Writes, Commit, CommitFails, Restart, EndsRun
  <1>6. CASE EditSpec
    <2>1. /\ UNCHANGED <<st, pc, cur, base>>
          /\ inst'.gen = inst.gen + 1 /\ inst'.deleting = inst.deleting /\ inst'.exists = inst.exists
          /\ inst'.fin = inst.fin
      BY <1>6, <1>n DEF EditSpec, Object, runVars
    <2>2. QED
      BY <2>1, <1>t, <1>n DEF RunRead
  <1>7. CASE DeleteInstance
    <2>1. /\ UNCHANGED <<st, pc, cur, base>>
          /\ inst'.gen = inst.gen + 1 /\ inst'.deleting = TRUE /\ inst'.exists = inst.fin
          /\ inst'.fin = inst.fin
      BY <1>7, <1>n DEF DeleteInstance, Object, runVars
    <2>2. QED
      BY <2>1, <1>t, <1>n DEF RunRead
  <1>8. CASE CLIApplies
    <2>1. /\ UNCHANGED <<inst, pc, cur, base>> /\ inst.spec.owner = "cli"
          /\ st' = [st EXCEPT !.digest = Theirs]
      BY <1>8 DEF CLIApplies, runVars
    <2>2. ASSUME st = [base EXCEPT !.digest = st.digest] PROVE st' = [base EXCEPT !.digest = st'.digest]
      BY <2>1, <2>2, <1>n DEF Status
    <2>3. st'.digest = Theirs
      BY <2>1, <1>n DEF Status
    <2>4. QED
      BY <2>1, <2>2, <2>3, <1>t DEF RunRead
  <1>9. QED
    BY <1>1, <1>2, <1>3, <1>4, <1>5, <1>6, <1>7, <1>8, StepKinds DEF Users

(* No gate and no failure is written as a success, and a success is        *)
(* written with the digests of what it applied or found applied.           *)
LEMMA WriteStep == RecordInv /\ [Next]_vars => RunWrites'
  <1> SUFFICES ASSUME RecordInv, [Next]_vars PROVE RunWrites'
    OBVIOUS
  <1>t. TypeOK /\ RunRead /\ RunWrites /\ NothingYet
    BY DEF RecordInv
  <1>n. /\ inst.gen \in Nat /\ cur.gen \in Nat /\ inst \in Object /\ st \in Status /\ base \in Status
        /\ mi \in Status
    BY <1>t DEF TypeOK, Object, Generation
  <1>m. None # Theirs /\ None # Mixed
    BY LifecycleAssumption
  <1>i. ASSUME pc' \in {"idle", "act"} PROVE RunWrites'
    BY <1>i DEF RunWrites
  <1>1. CASE Passing
    BY <1>1, <1>i, <1>t DEF Passing, Elsewhere, Returns, RunWrites
  <1>2. CASE Reads \/ Writes
    BY <1>2, <1>i DEF Reads, Start, Writes, Commit, CommitFails, Restart, EndsRun
  <1>3. CASE Gates
    <2>1. \/ pc' = "idle"
          \/ /\ pc' = "gate" /\ UNCHANGED <<cur, base>>
             /\ mi' \in {[base EXCEPT !.ready = "External"],
                         [base EXCEPT !.ready = "Refused", !.drift = "none", !.obs = cur.gen],
                         [base EXCEPT !.ready = "Suspended", !.obs = cur.gen]}
             /\ mi' = [base EXCEPT !.ready = "External"] \/ cur.spec.owner # "cli"
      BY <1>3 DEF Gates, handleCLIOwned, handleOwnInstance, addFinalizer, handleDeletion, handleSuspend,
                  Takes, handleNotReconciled, EndsRun, Patches
    <2>2. CASE pc' = "gate"
      BY <2>1, <2>2, <1>n DEF RunWrites, Status
    <2>3. QED
      BY <2>1, <2>2, <1>i
  <1>4. CASE RenderFails
    <2>1. /\ pc' = "commit" /\ UNCHANGED <<cur, base>>
          /\ mi' = [base EXCEPT !.ready = "Failed", !.obs = cur.gen]
      BY <1>4 DEF RenderFails, RenderFailed, Patches
    <2>2. QED
      BY <2>1, <1>n DEF RunWrites, Status
  <1>5. CASE Render
    <2> DEFINE k == renderedKey(store)
    <2>1. k \in Key
      BY <1>5, <1>t, LifecycleAssumption DEF Render, renderedKey, TypeOK, Key, Record, Object, Spec0
    <2>2. PICK drift \in {detectDrift(Digest(k)), "failed"} :
            IF Digest(k) = base.digest
              THEN Patches("commit", Success(k, drift), periodic)
              ELSE Patches("apply", [base EXCEPT !.drift = drift, !.obs = cur.gen], FALSE)
      BY <1>5 DEF Render
    <2>3. key' = k /\ UNCHANGED <<inst, objects>> /\ pc = "act" /\ cur.fin
      BY <1>5 DEF Render, Takes, FinalizerDue
    <2>4. /\ Digest(k) \in Content /\ Digest(k) \notin Marker /\ k # None
      BY <2>1, DigestTypes
    <2> HIDE DEF k
    <2>5. CASE Digest(k) # base.digest
      <3>1. pc' = "apply" /\ UNCHANGED <<cur, base>> /\ mi' = [base EXCEPT !.drift = drift, !.obs = cur.gen]
        BY <2>2, <2>5 DEF Patches
      <3>2. QED
        BY <3>1, <2>3, <2>4, <1>n DEF RunWrites, Status
    <2>6. CASE Digest(k) = base.digest
      <3>1. pc' = "commit" /\ UNCHANGED <<cur, base>> /\ mi' = Success(k, drift)
        BY <2>2, <2>6 DEF Patches
      <3>2. /\ mi'.obs = cur.gen /\ mi'.ready = "Succeeded" /\ mi'.inputs = k /\ mi'.digest = Digest(k)
            /\ mi'.drift = drift
        BY <3>1 DEF Success
      <3>3. objects # None
        BY <2>3, <2>4, <2>6, <1>t, <1>m DEF NothingYet, RunRead, Marker
      <3>4. objects = Digest(k) \/ drift # "none"
        BY <3>3 DEF detectDrift
      <3>5. QED
        BY <3>1, <3>2, <3>3, <3>4, <2>3, <2>4 DEF RunWrites
    <2>7. QED
      BY <2>5, <2>6
  <1>6. CASE Apply
    <2>1. /\ pc' = "commit" /\ UNCHANGED <<cur, base, inst>> /\ mi' = Success(key, "none")
          /\ objects' = Digest(key) /\ key \in Key
      BY <1>6, <1>t DEF Apply, Patches, RunWrites, TypeOK
    <2>2. /\ mi'.obs = cur.gen /\ mi'.ready = "Succeeded" /\ mi'.inputs = key /\ mi'.digest = Digest(key)
      BY <2>1 DEF Success
    <2>3. Digest(key) \notin Marker /\ key # None
      BY <2>1, DigestTypes
    <2>4. QED
      BY <2>1, <2>2, <2>3 DEF RunWrites, Marker
  <1>7. CASE ApplyFails
    <2>1. /\ pc' = "commit" /\ UNCHANGED <<cur, base>> /\ pc = "apply"
          /\ mi' = [mi EXCEPT !.ready = "Failed", !.obs = cur.gen]
      BY <1>7 DEF ApplyFails, RenderFailed, Patches
    <2>2. QED
      BY <2>1, <1>n, <1>t DEF RunWrites, Status
  <1>8. CASE EditSpec \/ DeleteInstance
    <2>1. inst'.gen = inst.gen + 1 /\ UNCHANGED <<objects, pc, cur, base, key, mi>>
      BY <1>8, <1>n DEF EditSpec, DeleteInstance, Object, runVars
    <2>2. pc = "commit" => cur.gen <= inst.gen
      BY <1>t DEF RunRead
    <2>3. QED
      BY <2>1, <2>2, <1>t, <1>n DEF RunWrites
  <1>9. CASE CLIApplies
    <2>1. inst.spec.owner = "cli" /\ objects' = Theirs /\ UNCHANGED <<inst, pc, cur, base, key, mi>>
      BY <1>9 DEF CLIApplies, runVars
    <2>2. pc = "commit" => cur.gen # inst.gen
      BY <2>1, <1>t DEF RunRead
    <2>3. QED
      BY <2>1, <2>2, <1>t, <1>m DEF RunWrites
  <1>10. QED
    BY <1>1, <1>2, <1>3, <1>4, <1>5, <1>6, <1>7, <1>8, <1>9, StepKinds DEF Renders, Users

(* Nothing is recorded before there are objects.                           *)
LEMMA NothingStep == RecordInv /\ [Next]_vars => NothingYet'
  <1> SUFFICES ASSUME RecordInv, [Next]_vars, inst'.exists, objects' = None PROVE st'.digest = None
    BY DEF NothingYet
  <1>t. TypeOK /\ RunRead /\ RunWrites /\ NothingYet
    BY DEF RecordInv
  <1>n. inst \in Object /\ st \in Status
    BY <1>t DEF TypeOK
  <1>m. None # Theirs /\ None # Mixed
    BY LifecycleAssumption
  <1>1. CASE Passing \/ Reads
    BY <1>1, <1>t DEF Passing, Elsewhere, Returns, Reads, Start, NothingYet
  <1>2. CASE Gates
    <2>1. st' = st /\ inst.exists
      BY <1>2, <1>t, RunFrame, InstFrame
    <2>2. CASE handleDeletion
      <3>1. inst.deleting /\ inst' = Without(inst)
        BY <2>2, <1>t DEF handleDeletion, Takes, Branch, removeFinalizer, RunRead
      <3>2. ~inst'.exists
        BY <3>1, <1>n DEF Without, Object
      <3>3. QED
        BY <3>2
    <2>3. CASE objects' = objects
      BY <2>1, <2>3, <1>t DEF NothingYet
    <2>4. QED
      BY <1>2, <2>2, <2>3 DEF Gates, handleCLIOwned, handleOwnInstance, addFinalizer, handleSuspend
  <1>3. CASE Renders
    <2>1. st' = st /\ inst' = inst
      BY <1>3, <1>t, RunFrame
    <2>2. Apply => objects' # None
      BY <1>t, DigestTypes DEF Apply, RunWrites, TypeOK, Marker
    <2>3. ~Apply => objects' \in {objects, Mixed}
      BY <1>3 DEF Renders, RenderFails, Render, ApplyFails
    <2>4. QED
      BY <2>1, <2>2, <2>3, <1>m, <1>t DEF NothingYet
  <1>4. CASE Commit
    <2>1. pc \in {"commit", "gate"} /\ st' = Sent(TRUE, TRUE) /\ UNCHANGED <<inst, objects>>
      BY <1>4 DEF Commit
    <2>2. st'.digest \in {st.digest, mi.digest} /\ (mi.digest = base.digest => st'.digest = st.digest)
      BY <2>1, <1>t, SentStatus
    <2>3. mi.digest = base.digest
      BY <2>1, <1>t DEF RunWrites
    <2>4. QED
      BY <2>1, <2>2, <2>3, <1>t DEF NothingYet
  <1>5. CASE CommitFails
    <2>1. /\ pc # "idle" /\ UNCHANGED <<inst, objects>>
          /\ st' \in {st, Sent(TRUE, FALSE), Sent(FALSE, FALSE)}
      BY <1>5 DEF CommitFails
    <2>2. st'.digest = st.digest
      BY <2>1, <1>t, SentStatus
    <2>3. QED
      BY <2>1, <2>2, <1>t DEF NothingYet
  <1>6. CASE Restart
    BY <1>6, <1>t, <1>m DEF Restart, NothingYet
  <1>7. CASE EditSpec \/ DeleteInstance
    BY <1>7, <1>t DEF EditSpec, DeleteInstance, NothingYet, TypeOK, Object
  <1>8. CASE CLIApplies
    BY <1>8, <1>m DEF CLIApplies
  <1>9. QED
    BY <1>1, <1>2, <1>3, <1>4, <1>5, <1>6, <1>7, <1>8, StepKinds DEF Writes, Users

(* The finalizer is there before the first object.                         *)
LEMMA FinalizerStep == RecordInv /\ [Next]_vars => FinalizerFirst'
  <1> SUFFICES ASSUME RecordInv, [Next]_vars, objects' \notin Marker
               PROVE  kept' \/ (inst'.exists /\ inst'.fin)
    BY DEF FinalizerFirst
  <1>t. TypeOK /\ RunRead /\ RunWrites /\ FinalizerFirst
    BY DEF RecordInv
  <1>n. inst \in Object
    BY <1>t DEF TypeOK
  <1>1. CASE Passing \/ Reads
    BY <1>1, <1>t DEF Passing, Elsewhere, Returns, Reads, Start, FinalizerFirst
  <1>2. CASE Gates
    <2>1. CASE handleCLIOwned \/ handleOwnInstance \/ handleSuspend
      BY <2>1, <1>t DEF handleCLIOwned, handleOwnInstance, handleSuspend, FinalizerFirst
    <2>2. CASE addFinalizer
      <3>1. /\ inst' = [inst EXCEPT !.fin = inst.exists] /\ kept' = (kept /\ ~inst.exists)
            /\ objects' = objects
        BY <2>2 DEF addFinalizer
      <3>2. inst'.exists = inst.exists /\ inst'.fin = inst.exists
        BY <3>1, <1>n DEF Object
      <3>3. QED
        BY <3>1, <3>2, <1>t DEF FinalizerFirst
    <2>3. CASE handleDeletion
      BY <2>3 DEF handleDeletion, Marker
    <2>4. QED
      BY <1>2, <2>1, <2>2, <2>3 DEF Gates
  <1>3. CASE Renders
    <2>1. inst' = inst /\ kept' = kept
      BY <1>3, <1>t, RunFrame
    <2>2. Apply => inst.exists /\ inst.fin
      BY <1>t DEF Apply, RunRead
    <2>3. ~Apply => objects' \in {objects, Mixed}
      BY <1>3 DEF Renders, RenderFails, Render, ApplyFails
    <2>4. QED
      BY <2>1, <2>2, <2>3, <1>t DEF FinalizerFirst, Marker
  <1>4. CASE Writes
    <2>1. inst' = inst /\ kept' = kept /\ objects' \in {objects, Mixed}
      BY <1>4 DEF Writes, Commit, CommitFails, Restart
    <2>2. QED
      BY <2>1, <1>t DEF FinalizerFirst, Marker
  <1>5. CASE EditSpec \/ DeleteInstance
    <2>1. /\ UNCHANGED <<objects, kept>> /\ inst'.fin = inst.fin
          /\ inst'.exists = inst.exists \/ inst'.exists = inst.fin
      BY <1>5, <1>n DEF EditSpec, DeleteInstance, Object
    <2>2. QED
      BY <2>1, <1>t DEF FinalizerFirst
  <1>6. CASE CLIApplies
    BY <1>6 DEF CLIApplies, Marker
  <1>7. QED
    BY <1>1, <1>2, <1>3, <1>4, <1>5, <1>6, StepKinds DEF Users

(* A success that is committed for the spec that is stored records what it *)
(* rendered, and has the objects or says that they drifted.                *)
LEMMA CommitRecords ==
  ASSUME RecordInv, Commit, st'.ready = "Succeeded", st'.obs = inst.gen
  PROVE  /\ st'.inputs # None /\ st'.digest = Digest(st'.inputs)
         /\ objects = st'.digest \/ st'.drift # "none"
  <1>t. TypeOK /\ RunRead /\ RunWrites
    BY DEF RecordInv
  <1>1. pc \in {"commit", "gate"} /\ st' = Sent(TRUE, TRUE)
    BY DEF Commit
  <1>2. /\ st'.obs = mi.obs /\ st'.ready = mi.ready /\ st'.drift = mi.drift /\ st'.inputs = mi.inputs
        /\ st'.digest = IF mi.digest # base.digest THEN mi.digest ELSE st.digest
    BY <1>1, <1>t, SentStatus
  <1>3. pc = "commit" /\ cur.gen = inst.gen
    BY <1>1, <1>2, <1>t DEF RunWrites
  <1>4. st.digest = base.digest
    BY <1>3, <1>t DEF RunRead
  <1>5. QED
    BY <1>2, <1>3, <1>4, <1>t DEF RunWrites

(* A failed patch leaves the status, reports what is no success, or is the *)
(* lost commit of a render.                                                *)
LEMMA CommitLost ==
  ASSUME RecordInv, CommitFails
  PROVE  /\ UNCHANGED <<inst, objects>> /\ lost \subseteq lost'
         /\ "commit" \in lost' \/ (pc = "gate" /\ (st' = st \/ st'.ready # "Succeeded"))
  <1>t. TypeOK /\ RunRead /\ RunWrites
    BY DEF RecordInv
  <1>1. /\ pc \in {"commit", "gate"} /\ UNCHANGED <<inst, objects>> /\ lost \subseteq lost'
        /\ pc = "commit" => "commit" \in lost'
        /\ st' \in {st, Sent(TRUE, FALSE), Sent(FALSE, FALSE)}
    BY DEF CommitFails
  <1>2. st' = st \/ st'.ready = mi.ready
    BY <1>1, <1>t, SentStatus
  <1>3. QED
    BY <1>1, <1>2, <1>t DEF RunWrites

(* A success records the digest of the inputs that it records.             *)
LEMMA DigestStep == RecordInv /\ [Next]_vars => DigestSound'
  <1> SUFFICES ASSUME RecordInv, [Next]_vars PROVE DigestSound'
    OBVIOUS
  <1>t. TypeOK /\ GensSound /\ DigestSound
    BY DEF RecordInv
  <1>n. inst \in Object /\ inst.gen \in Nat /\ st \in Status /\ st.obs \in Nat
    BY <1>t, LifecycleAssumption DEF TypeOK, Object, Generation, Status
  <1>a. ASSUME st' = st, inst'.gen = inst.gen, lost \subseteq lost' PROVE DigestSound'
    BY <1>a, <1>t DEF DigestSound
  <1>1. CASE Passing \/ Reads
    BY <1>1, <1>a DEF Passing, Elsewhere, Returns, Reads, Start
  <1>2. CASE Gates \/ Renders
    BY <1>2, <1>a, <1>t, RunFrame, InstFrame
  <1>3. CASE Restart
    BY <1>3, <1>a DEF Restart
  <1>4. CASE Commit
    <2>1. inst' = inst
      BY <1>4 DEF Commit
    <2>2. QED
      BY <1>4, <2>1, CommitRecords DEF DigestSound
  <1>5. CASE CommitFails
    BY <1>5, <1>t, CommitLost DEF DigestSound
  <1>6. CASE EditSpec \/ DeleteInstance
    <2>1. inst'.gen = inst.gen + 1 /\ st' = st
      BY <1>6, <1>n DEF EditSpec, DeleteInstance, Object
    <2>2. QED
      BY <2>1, <1>t, <1>n DEF GensSound, DigestSound
  <1>7. CASE CLIApplies
    <2>1. inst' = inst /\ st'.obs = st.obs /\ inst.spec.owner = "cli"
      BY <1>7, <1>n DEF CLIApplies, Status
    <2>2. QED
      BY <2>1, <1>t DEF GensSound, DigestSound
  <1>8. QED
    BY <1>1, <1>2, <1>3, <1>4, <1>5, <1>6, <1>7, StepKinds DEF Writes, Users

(* No step hides a drift behind a success.                                 *)
LEMMA DriftStep == RecordInv /\ [Next]_vars => NoDriftHidden'
  <1> SUFFICES ASSUME RecordInv, [Next]_vars PROVE NoDriftHidden'
    OBVIOUS
  <1>t. TypeOK /\ GensSound /\ RunRead /\ NoDriftHidden
    BY DEF RecordInv
  <1>n. inst \in Object /\ inst.gen \in Nat /\ st \in Status /\ st.obs \in Nat
    BY <1>t, LifecycleAssumption DEF TypeOK, Object, Generation, Status
  <1>1. CASE Passing \/ Reads
    BY <1>1, <1>t DEF Passing, Elsewhere, Returns, Reads, Start, NoDriftHidden
  <1>2. CASE Gates
    <2>1. /\ st' = st /\ lost' = lost /\ inst'.gen = inst.gen /\ (inst'.exists => inst.exists)
          /\ pc = "act"
      BY <1>2, <1>t, RunFrame, InstFrame
      DEF Gates, handleCLIOwned, handleOwnInstance, addFinalizer, handleDeletion, handleSuspend, Takes
    <2>2. CASE handleDeletion
      <3>1. inst.deleting /\ inst' = Without(inst)
        BY <2>2, <1>t DEF handleDeletion, Takes, Branch, removeFinalizer, RunRead
      <3>2. ~inst'.exists
        BY <3>1, <1>n DEF Without, Object
      <3>3. QED
        BY <3>2 DEF NoDriftHidden
    <2>3. CASE objects' = objects
      BY <2>1, <2>3, <1>t DEF NoDriftHidden
    <2>4. QED
      BY <1>2, <2>2, <2>3 DEF Gates, handleCLIOwned, handleOwnInstance, addFinalizer, handleSuspend
  <1>3. CASE Renders
    <2>1. pc' \in {"apply", "commit"}
      BY <1>3 DEF Renders, RenderFails, Render, Apply, ApplyFails, RenderFailed, Patches
    <2>2. QED
      BY <2>1 DEF NoDriftHidden
  <1>4. CASE Commit
    <2>1. UNCHANGED <<inst, objects>>
      BY <1>4 DEF Commit
    <2>2. QED
      BY <1>4, <2>1, CommitRecords DEF NoDriftHidden
  <1>5. CASE CommitFails
    BY <1>5, <1>t, CommitLost DEF NoDriftHidden
  <1>6. CASE Restart
    <2>1. /\ UNCHANGED <<inst, st>> /\ lost \subseteq lost'
          /\ \/ "commit" \in lost'
             \/ objects' = objects /\ pc \notin {"apply", "commit"}
      BY <1>6 DEF Restart
    <2>2. QED
      BY <2>1, <1>t DEF NoDriftHidden
  <1>7. CASE EditSpec \/ DeleteInstance
    <2>1. inst'.gen = inst.gen + 1 /\ st' = st
      BY <1>7, <1>n DEF EditSpec, DeleteInstance, Object
    <2>2. QED
      BY <2>1, <1>t, <1>n DEF GensSound, NoDriftHidden
  <1>8. CASE CLIApplies
    <2>1. inst' = inst /\ st'.obs = st.obs /\ inst.spec.owner = "cli"
      BY <1>8, <1>n DEF CLIApplies, Status
    <2>2. QED
      BY <2>1, <1>t DEF GensSound, NoDriftHidden
  <1>9. QED
    BY <1>1, <1>2, <1>3, <1>4, <1>5, <1>6, <1>7, <1>8, StepKinds DEF Writes, Users

(* The inductive invariant holds of every instance, platform and history.  *)
LEMMA RecordStep == RecordInv /\ [Next]_vars => RecordInv'
  BY TypeStep, GensStep, ReadStep, WriteStep, NothingStep, FinalizerStep, DigestStep, DriftStep
  DEF RecordInv

(* An instance that reports success for the spec it has holds the objects  *)
(* it says it applied, or says that they drifted, unless the commit of a   *)
(* render was lost: for every history of edits, handovers, failures and    *)
(* restarts (ReconcileModuleInstance and its deferred commit).             *)
THEOREM DriftSafety == Spec => []RecordInv
  BY InitRecord, RecordStep, PTL DEF Spec

(* An instance is gone only with the objects that the controller applied,  *)
(* or after a gate handed them over (addFinalizer, handleDeletion).        *)
THEOREM GoneSafety == Spec => []GoneClean
  <1>1. RecordInv => GoneClean
    BY DEF RecordInv, TypeOK, FinalizerFirst, GoneClean, Marker
  <1>2. QED
    BY <1>1, DriftSafety, PTL

(* A render is skipped only when the objects are what it would write, or   *)
(* their drift is reported (skipInstanceRender, maySkip, recordInputs).    *)
THEOREM SkipSafety == Spec => SkipHidesNothing
  <1> DEFINE Sound ==
        skipInstanceRender /\ cur.gen = inst.gen =>
          objects = Digest(platformKeyParts) \/ base.drift # "none" \/ "commit" \in lost
  <1>1. RecordInv /\ [Next]_vars => [Sound]_vars
    <2> SUFFICES ASSUME RecordInv, skipInstanceRender, cur.gen = inst.gen
                 PROVE  objects = Digest(platformKeyParts) \/ base.drift # "none" \/ "commit" \in lost
      OBVIOUS
    <2>1. /\ pc = "act" /\ cur.fin /\ cur.spec.owner # "cli" /\ base.ready = "Succeeded"
          /\ base.obs = cur.gen /\ base.inputs = platformKeyParts
      BY DEF skipInstanceRender, Takes, handleNotReconciled, FinalizerDue, maySkip
    <2>2. /\ st.ready = base.ready /\ st.obs = base.obs /\ st.drift = base.drift
          /\ st.inputs = base.inputs /\ inst.exists
      BY <2>1 DEF RecordInv, RunRead, TypeOK, Status
    <2>3. QED
      BY <2>1, <2>2 DEF RecordInv, NoDriftHidden, DigestSound
  <1>2. QED
    BY <1>1, DriftSafety, PTL DEF Spec, SkipHidesNothing
=============================================================================
