------------------------ MODULE ModuleInstanceProofs ------------------------
(***************************************************************************)
(* Theorems about ModuleInstance, for every set of objects, specs and      *)
(* identities and every bound.                                             *)
(***************************************************************************)
EXTENDS ModuleInstance, TLAPS

(* The identity plan is a plan over the identities.                        *)
LEMMA PlanType ==
    ASSUME NEW r \in Identity, NEW p \in Identity, NEW i \in Identity
    PROVE  /\ planIdentities(r, p, i) \in IdentityPlan
           /\ Keeps(r, p) \in IdentityPlan
<1>1. ASSUME NEW a \in Identity, NEW b \in Identity
      PROVE  recordedIdentities(a, b) \in Seq(Identity)
  <2>1. <<>> \in Seq(Identity)
    OBVIOUS
  <2>2. <<a>> \in Seq(Identity) /\ <<b>> \in Seq(Identity)
    BY <1>1
  <2>3. <<a, b>> \in Seq(Identity)
    BY <1>1
  <2> QED
    BY <2>1, <2>2, <2>3, Zenon DEF recordedIdentities
<1>2. ASSUME NEW a \in Identity, NEW b \in Identity
      PROVE  Keeps(a, b) \in IdentityPlan /\ Moves(a, b) \in IdentityPlan
  BY <1>1 DEF Keeps, Moves, IdentityPlan
<1>3. ASSUME NEW a \in Identity, NEW b \in Identity
      PROVE  [Keeps(a, b) EXCEPT !.refused = TRUE] \in IdentityPlan
  BY <1>1 DEF Keeps, IdentityPlan
<1>4. NoId \in Identity
  BY DEF Identity
<1> QED
  BY <1>2, <1>3, <1>4 DEF planIdentities

(* Recording a plan that is not refused loses no recorded identity, and    *)
(* makes the rendered identity the current one.                            *)
LEMMA PlanKeepsIdentities ==
    ASSUME NEW r \in Identity, NEW p \in Identity, NEW i \in Identity,
           r = NoId => p = NoId,
           ~planIdentities(r, p, i).refused
    PROVE  LET q == planIdentities(r, p, i)
           IN /\ {r, p} \subseteq {NoId, q.uuid, q.prev}
              /\ q.uuid = NoId => q.prev = NoId
              /\ ~q.changed => q.uuid = r /\ q.prev = p
              /\ i \in {NoId, q.uuid}
BY DEF planIdentities, Keeps, Moves


-----------------------------------------------------------------------------
(***************************************************************************)
(* Type correctness                                                        *)
(***************************************************************************)
(* The statuses a reconcile ends with are statuses.                        *)
LEMMA StatusType ==
    ASSUME TypeOK
    PROVE  /\ NewStatus \in Status
           /\ NoPlan \in IdentityPlan
           /\ Fails(mi) \in Status
           /\ Recorded(mi) \in Status /\ Fails(Recorded(mi)) \in Status
           /\ Reconciled \in Status /\ PruneResult \in Status
           /\ \A gone : NoOpStatus(gone) \in Status
           /\ Sent(TRUE, FALSE, mi) \in Status
           /\ Sent(FALSE, TRUE, mi) \in Status
           /\ Sent(TRUE, TRUE, Recorded(mi)) \in Status
           /\ \A c, r \in BOOLEAN : Sent(c, r, Recorded(mi)) \in Status
<1>1. /\ st \in Status /\ mi \in Status /\ base \in Status
      /\ plan.uuid \in Identity /\ plan.prev \in Identity
      /\ cur.objs \subseteq Objects /\ Digest(cur) \in DigestSet
  BY SpecsAssumption DEF TypeOK, RunTypeOK, IdentityPlan, SpecSet, Digest, DigestSet
<1>2. NewStatus \in Status /\ NoId \in Identity
  BY DEF NewStatus, Status, Identity
<1>3. NoPlan \in IdentityPlan
  BY <1>2, PlanType DEF NoPlan
<1>4. Fails(mi) \in Status
  BY <1>1 DEF Fails, Status
<1>5. Recorded(mi) \in Status
  BY <1>1 DEF Recorded, Status
<1>6. Fails(Recorded(mi)) \in Status
  BY <1>5 DEF Fails, Status
<1>7. Reconciled \in Status
  BY <1>1, <1>2 DEF Reconciled, Status
<1>8. PruneResult \in Status
  BY <1>4, <1>7 DEF PruneResult
<1>9. ASSUME NEW gone PROVE NoOpStatus(gone) \in Status
  BY <1>1 DEF NoOpStatus, Status
<1>10. ASSUME NEW c \in BOOLEAN, NEW r \in BOOLEAN, NEW s \in Status
       PROVE  Sent(c, r, s) \in Status
  BY <1>1 DEF Sent, Field, Status
<1>11. TRUE \in BOOLEAN /\ FALSE \in BOOLEAN
  OBVIOUS
<1>12. /\ Sent(TRUE, FALSE, mi) \in Status
       /\ Sent(FALSE, TRUE, mi) \in Status
       /\ Sent(TRUE, TRUE, Recorded(mi)) \in Status
  BY <1>1, <1>5, <1>10, <1>11, Zenon
<1> QED
  BY <1>2, <1>3, <1>4, <1>5, <1>6, <1>7, <1>8, <1>9, <1>10, <1>12

(* The initial state is well typed.                                        *)
LEMMA InitType == Init => TypeOK
<1> SUFFICES ASSUME Init PROVE TypeOK
  OBVIOUS
<1>1. NewStatus \in Status /\ NoId \in Identity
  BY DEF NewStatus, Status, Identity
<1>2. NoPlan \in IdentityPlan
  BY <1>1, PlanType DEF NoPlan
<1>3. Absent \in LiveObject
  BY DEF Absent, LiveObject, Label
<1>4. RunTypeOK
  BY <1>1, <1>2 DEF Init, RunTypeOK, Steps, Unread, NoObject
<1> QED
  BY <1>1, <1>3, <1>4 DEF Init, TypeOK

(* A reconcile that ends with a status keeps every type.                   *)
LEMMA ReturnsType ==
    ASSUME TypeOK, NEW s \in Status, Returns(s), st' \in Status, faults' \in Nat
    PROVE  TypeOK'
BY DEF TypeOK, RunTypeOK, Returns, Steps, objVars, stepVars

(* A reconcile that has returned holds well-typed values.                  *)
LEMMA ClearRunType ==
    ASSUME TypeOK, ClearRun, pc' = "idle"
    PROVE  RunTypeOK'
<1>1. NewStatus \in Status /\ NoPlan \in IdentityPlan /\ spec \in Specs
  BY StatusType DEF TypeOK
<1> QED
  BY <1>1 DEF ClearRun, RunTypeOK, Steps, Unread, NoObject

(* A user's step, and any step that only changes objects.                  *)
LEMMA LiveType ==
    ASSUME TypeOK, NEW o \in Objects
    PROVE  /\ Absent \in LiveObject
           /\ live[o] \in LiveObject
           /\ \A id \in Label : [live[o] EXCEPT !.adopt = id] \in LiveObject
           /\ [live[o] EXCEPT !.label = Other, !.managed = TRUE] \in LiveObject
           /\ [live[o] EXCEPT !.term = TRUE] \in LiveObject
           /\ \A m \in BOOLEAN, l \in Label : Created(o, m, l) \in LiveObject
           /\ Written(o) \in LiveObject
<1>1. live[o] \in LiveObject /\ born[o] \in Nat /\ cur.id \in Label
  BY SpecsAssumption DEF TypeOK, RunTypeOK, SpecSet, Identity, Label
<1>2. Other \in Label /\ NoId \in Label
  BY DEF Label
<1>3. Absent \in LiveObject
  BY <1>2 DEF Absent, LiveObject
<1>4. \A id \in Label : [live[o] EXCEPT !.adopt = id] \in LiveObject
  BY <1>1 DEF LiveObject
<1>5. /\ [live[o] EXCEPT !.label = Other, !.managed = TRUE] \in LiveObject
      /\ [live[o] EXCEPT !.term = TRUE] \in LiveObject
  BY <1>1, <1>2 DEF LiveObject
<1>6. \A m \in BOOLEAN, l \in Label : Created(o, m, l) \in LiveObject
  BY <1>1, <1>2 DEF Created, LiveObject
<1>7. Written(o) \in LiveObject
  <2>1. Created(o, TRUE, cur.id) \in LiveObject
    BY <1>1, <1>6
  <2>2. [live[o] EXCEPT !.managed = TRUE, !.label = cur.id] \in LiveObject
    BY <1>1 DEF LiveObject
  <2> QED
    BY <2>1, <2>2 DEF Written
<1> QED
  BY <1>1, <1>3, <1>4, <1>5, <1>6, <1>7

(* The steps of a reconcile keep the state well typed.                     *)
LEMMA ProgressType == TypeOK /\ (Start \/ Progress) => TypeOK'
<1> SUFFICES ASSUME TypeOK, Start \/ Progress PROVE TypeOK'
  OBVIOUS
<1>0. /\ \A r, p, i \in Identity : planIdentities(r, p, i) \in IdentityPlan
      /\ st \in Status /\ mi \in Status /\ base \in Status /\ faults \in Nat
      /\ mi.uuid \in Identity /\ mi.prev \in Identity
      /\ extractInstanceUUID(cur) \in Identity
      /\ cur.objs \subseteq Objects
  BY PlanType, SpecsAssumption
  DEF TypeOK, RunTypeOK, Status, SpecSet, Identity, extractInstanceUUID
<1>1. CASE Start
  <2>1. \A s \in Status : [s EXCEPT !.ready = "Unknown"] \in Status
    BY DEF Status
  <2> QED
    BY <1>1, <2>1 DEF Start, TypeOK, RunTypeOK, Steps, apiVars, objVars, stepVars
<1>2. CASE Render
  <2> DEFINE p == planIdentities(mi.uuid, mi.prev, extractInstanceUUID(cur))
  <2>1. CASE p.refused
    BY <1>0, <1>2, <2>1, StatusType, ReturnsType DEF Render, EndsWith
  <2>2. CASE ~p.refused
    <3>1. \A w : keepsNoOp(p, noOp(cur, w)) \in BOOLEAN
      BY DEF keepsNoOp, noOp
    <3>2. p \in IdentityPlan
      BY <1>0
    <3>3. PICK w \in SUBSET (cur.objs \cap Registrations) :
            /\ withheld' = w /\ noop' = keepsNoOp(p, noOp(cur, w)) /\ todo' = cur.objs \ w
      BY <1>2, <2>2 DEF Render
    <3>4. noop' \in BOOLEAN /\ withheld' \subseteq Objects /\ todo' \subseteq Objects
      BY <1>0, <3>1, <3>3
    <3>5. /\ plan' = p /\ verdict' = Unread /\ read' = NoObject /\ pc' = "guard"
          /\ UNCHANGED <<apiVars, objVars, cur, mi, base, missing, left, k,
                         target, failed, edits, moves, faults>>
      BY <1>2, <2>2 DEF Render
    <3>6. verdict' \in [Objects -> {"unread", "allow", "letGo", "refuse"}]
          /\ read' \in [Objects -> Nat]
      BY <3>5 DEF Unread, NoObject
    <3> QED
      BY <3>2, <3>4, <3>5, <3>6 DEF TypeOK, RunTypeOK, Steps, apiVars, objVars
  <2> QED
    BY <2>1, <2>2
<1>3. CASE GuardNoIdentity \/ ApplyRefused \/ ApplyRefusedShrink \/ ApplyReplaced
  BY <1>0, <1>3, StatusType, ReturnsType
  DEF GuardNoIdentity, ApplyRefused, ApplyRefusedShrink, ApplyReplaced, EndsWith
<1>4. CASE NoOp \/ ApplyDone \/ PruneDone
  BY <1>0, <1>4, StatusType, ReturnsType DEF NoOp, ApplyDone, PruneDone, EndsWith
<1>5. CASE detectDrift
  BY <1>5
  DEF detectDrift, Fault, Allowed, TypeOK, RunTypeOK, Steps, apiVars, objVars, runVars
<1>6. CASE BeginApply
  <2>1. planRestore \subseteq Objects
    BY DEF planRestore, TakenIn, Allowed, TypeOK, RunTypeOK
  <2> QED
    BY <1>6, <2>1 DEF BeginApply, TypeOK, RunTypeOK, Steps, apiVars, objVars, runVars
<1>7. CASE StoreIdentity
  BY <1>7, StatusType DEF StoreIdentity, TypeOK, RunTypeOK, Steps, objVars, stepVars
<1>8. CASE BeginPrune
  <2>1. SplitKeptClaims(staleEntries) \ Excluded \subseteq Objects
    BY <1>0 DEF SplitKeptClaims, staleEntries, TypeOK, RunTypeOK, Status
  <2> QED
    BY <1>8, <2>1 DEF BeginPrune, TypeOK, RunTypeOK, Steps, apiVars, objVars, runVars
<1>9. CASE NextPlan
  BY <1>9 DEF NextPlan, TypeOK, RunTypeOK, apiVars, objVars, runVars
<1>10. CASE DeleteTarget
  BY <1>10, LiveType DEF DeleteTarget, TypeOK, RunTypeOK, Steps, apiVars, runVars
<1>11. CASE CommitConditions
  <2>1. st' \in Status
    BY <1>0, <1>11, StatusType, Zenon DEF CommitConditions
  <2>2. faults' \in Nat
    <3>1. faults' = faults \/ Fault
      BY <1>11, Zenon DEF CommitConditions
    <3> QED
      BY <1>0, <3>1 DEF Fault
  <2> QED
    BY <1>11, <2>1, <2>2
    DEF CommitConditions, TypeOK, RunTypeOK, Steps, objVars, runVars, stepVars
<1>12. CASE CommitStatus
  <2>1. st' \in Status
    BY <1>0, <1>12, StatusType, Zenon DEF CommitStatus
  <2>2. faults' \in Nat
    <3>1. faults' = faults \/ Fault
      BY <1>12, Zenon DEF CommitStatus
    <3> QED
      BY <1>0, <3>1 DEF Fault
  <2>3. RunTypeOK'
    BY <1>12, ClearRunType DEF CommitStatus
  <2> QED
    BY <1>12, <2>1, <2>2, <2>3 DEF CommitStatus, TypeOK, objVars
<1>13. ASSUME NEW o \in Objects, GuardRead(o) PROVE TypeOK'
  <2>1. CanApply(live[o], o \in mi.inv, plan.uuid) \in {"allow", "letGo", "refuse"}
    BY DEF CanApply
  <2>2. live[o].uid \in Nat
    BY DEF TypeOK, LiveObject
  <2> QED
    BY <1>13, <2>1, <2>2 DEF GuardRead, TypeOK, RunTypeOK, apiVars, objVars, runVars
<1>14. ASSUME NEW o \in Objects, ApplyObject(o) PROVE TypeOK'
  <2>1. Written(o) \in LiveObject /\ Written(o).uid \in Nat
    BY LiveType DEF LiveObject
  <2> QED
    BY <1>14, <2>1 DEF ApplyObject, TypeOK, RunTypeOK, apiVars, runVars
<1>15. ASSUME NEW o \in Objects, JudgeEntry(o) PROVE TypeOK'
  <2>1. live[o].uid \in Nat
    BY DEF TypeOK, LiveObject
  <2> QED
    BY <1>15, <2>1 DEF JudgeEntry, TypeOK, RunTypeOK, Steps, apiVars, objVars, runVars
<1> QED
  BY <1>1, <1>2, <1>3, <1>4, <1>5, <1>6, <1>7, <1>8, <1>9, <1>10, <1>11, <1>12, <1>13,
     <1>14, <1>15 DEF Progress

(* So do failed requests, panics and restarts.                             *)
LEMMA FailureType == TypeOK /\ Failure => TypeOK'
<1> SUFFICES ASSUME TypeOK, Failure PROVE TypeOK'
  OBVIOUS
<1>0. st \in Status /\ mi \in Status /\ base \in Status /\ faults \in Nat
  BY DEF TypeOK, RunTypeOK
<1>1. CASE RenderFails \/ ApplyFails \/ Panic
  BY <1>0, <1>1, StatusType, ReturnsType
  DEF RenderFails, ApplyFails, Panic, EndsWith, Fault
<1>2. CASE GuardFails
  BY <1>0, <1>2, StatusType, ReturnsType DEF GuardFails, EndsWith, Fault
<1>3. CASE StoreFails
  <2>1. st' \in Status
    BY <1>3, StatusType, Zenon DEF StoreFails
  <2>2. faults' \in Nat /\ Returns(Fails(Recorded(mi)))
    BY <1>0, <1>3 DEF StoreFails, Fault
  <2> QED
    BY <2>1, <2>2, StatusType, ReturnsType
<1>4. CASE DeleteFails
  BY <1>4
  DEF DeleteFails, Fault, TypeOK, RunTypeOK, Steps, apiVars, objVars, runVars
<1>5. CASE Crash
  BY <1>5, ClearRunType DEF Crash, Fault, TypeOK, apiVars, objVars
<1>6. ASSUME NEW o \in Objects, RecreateDeletes(o) PROVE TypeOK'
  <2>1. Absent \in LiveObject
    BY <1>6, LiveType
  <2> QED
    BY <1>6, <2>1
    DEF RecreateDeletes, Fault, TypeOK, RunTypeOK, apiVars, runVars, stepVars
<1>7. ASSUME NEW o \in Objects, JudgeFails(o) PROVE TypeOK'
  BY <1>7 DEF JudgeFails, Fault, TypeOK, RunTypeOK, apiVars, objVars, runVars
<1> QED
  BY <1>1, <1>2, <1>3, <1>4, <1>5, <1>6, <1>7 DEF Failure

(* So do the steps of users, other instances and the cache.                *)
LEMMA EnvironmentType == TypeOK /\ Environment => TypeOK'
<1> SUFFICES ASSUME TypeOK, Environment PROVE TypeOK'
  OBVIOUS
<1>1. ASSUME EnvUnchanged PROVE RunTypeOK' /\ faults' \in Nat
  BY <1>1 DEF EnvUnchanged, TypeOK, RunTypeOK, runVars, stepVars
<1>2. ASSUME NEW o \in Objects, NEW obj \in LiveObject, Moved(o, obj),
             born' \in [Objects -> Nat]
      PROVE  TypeOK'
  BY <1>1, <1>2 DEF Moved, TypeOK, apiVars
<1>3. CASE EditSpec
  BY <1>1, <1>3 DEF EditSpec, TypeOK, objVars
<1>4. CASE CacheSync
  BY <1>1, <1>4 DEF CacheSync, TypeOK, objVars
<1>5. ASSUME NEW o \in Objects, NEW id \in Ids \cup {Other}, UserAdopts(o, id)
      PROVE  TypeOK'
  <2>1. id \in Label /\ born' \in [Objects -> Nat]
    BY <1>5 DEF UserAdopts, Label, TypeOK
  <2> QED
    BY <1>2, <1>5, <2>1, LiveType DEF UserAdopts
<1>6. ASSUME NEW o \in Objects, OtherTakes(o) \/ UserDeletes(o) PROVE TypeOK'
  <2>1. born' \in [Objects -> Nat]
    BY <1>6 DEF OtherTakes, UserDeletes, TypeOK
  <2> QED
    BY <1>2, <1>6, <2>1, LiveType DEF OtherTakes, UserDeletes
<1>7. ASSUME NEW o \in Objects, UserCreates(o) PROVE TypeOK'
  <2>1. born' \in [Objects -> Nat]
    BY <1>7 DEF UserCreates, TypeOK
  <2>2. Created(o, FALSE, NoId) \in LiveObject /\ Created(o, TRUE, Other) \in LiveObject
    <3>1. NoId \in Label /\ Other \in Label /\ TRUE \in BOOLEAN /\ FALSE \in BOOLEAN
      BY DEF Label
    <3> QED
      BY <3>1, LiveType, Zenon
  <2> QED
    BY <1>2, <1>7, <2>1, <2>2 DEF UserCreates
<1>8. ASSUME NEW o \in Objects, TerminationEnds(o) PROVE TypeOK'
  BY <1>1, <1>8, LiveType DEF TerminationEnds, TypeOK, apiVars
<1> QED
  BY <1>3, <1>4, <1>5, <1>6, <1>7, <1>8 DEF Environment

(* Every variable keeps its type, whatever the specs, the objects and the  *)
(* bounds, and whether or not the cache lags.                              *)
THEOREM TypeCorrect == Spec => []TypeOK
<1>1. TypeOK /\ UNCHANGED vars => TypeOK'
  BY DEF TypeOK, RunTypeOK, vars, apiVars, objVars, runVars, stepVars
<1>2. TypeOK /\ [Next]_vars => TypeOK'
  BY <1>1, ProgressType, FailureType, EnvironmentType DEF Next
<1> QED
  BY InitType, <1>2, PTL DEF Spec
-----------------------------------------------------------------------------
(***************************************************************************)
(* Identity coverage                                                       *)
(***************************************************************************)
LEMMA InitCoverage == Init => CoverageInv
<1> SUFFICES ASSUME Init PROVE CoverageInv
  OBVIOUS
<1>1. TypeOK
  BY InitType
<1>2. Covers(st) /\ Ordered(st)
  BY DEF Init, NewStatus, Covers, Ordered
<1>3. AbsentBare
  BY IdsAssumption DEF Init, AbsentBare, Absent
<1>4. ReadsOwnWrites /\ PlanSound /\ GuardSound /\ ApplySound /\ CommitSound
  BY DEF Init, ReadsOwnWrites, PlanSound, GuardSound, ApplySound, CommitSound,
         Judging, Writing, Ending
<1> QED
  BY <1>1, <1>2, <1>3, <1>4 DEF CoverageInv

(* A label is only ever lost by the step, never gained.                    *)
LosesLabels ==
    \A o \in Objects : live'[o].label \in Ids => live'[o].label = live[o].label

(* A step that leaves the status and the running reconcile alone, and      *)
(* gives no object a label of this instance.                               *)
LEMMA FrameCoverage ==
    ASSUME CoverageInv, TypeOK', AbsentBare', LosesLabels,
           UNCHANGED <<st, pc, runVars, stepVars>>
    PROVE  CoverageInv'
<1>0. UNCHANGED <<cur, mi, base, plan, noop, withheld, verdict, read, missing, todo>>
  BY DEF runVars, stepVars
<1>1. TypeOK /\ st \in Status /\ mi \in Status /\ cur.objs \subseteq Objects
      /\ st.inv \subseteq Objects /\ mi.inv \subseteq Objects
  BY SpecsAssumption DEF CoverageInv, TypeOK, RunTypeOK, SpecSet, Status
<1>2. Covers(st)' /\ Ordered(st)'
  BY <1>1 DEF CoverageInv, Covers, Ordered, LosesLabels
<1>3. ReadsOwnWrites' /\ PlanSound'
  BY <1>0 DEF CoverageInv, ReadsOwnWrites, PlanSound, extractInstanceUUID
<1>4. GuardSound'
  BY <1>0, <1>1
  DEF CoverageInv, GuardSound, LosesLabels, Judging, Allowed, planRestore,
      refusedToWrite, TakenIn, Refused
<1>5. ApplySound'
  BY <1>0, <1>1 DEF CoverageInv, ApplySound, LosesLabels, LetGo
<1>6. CommitSound'
  BY <1>0, <1>1 DEF CoverageInv, CommitSound, Covers, Ordered, LosesLabels
<1> QED
  BY <1>2, <1>3, <1>4, <1>5, <1>6 DEF CoverageInv, Covers, Ordered

(* What others do to the spec and the objects uncovers no entry.           *)
LEMMA EnvironmentCoverage == CoverageInv /\ Environment => CoverageInv'
<1> SUFFICES ASSUME CoverageInv, Environment PROVE CoverageInv'
  OBVIOUS
<1>1. TypeOK /\ TypeOK' /\ AbsentBare
  BY EnvironmentType DEF CoverageInv
<1>2. UNCHANGED <<st, pc, runVars, stepVars>>
  BY DEF Environment, EditSpec, CacheSync, OtherTakes, UserDeletes, UserCreates,
         TerminationEnds, UserAdopts, Moved, EnvUnchanged, apiVars
<1>3. ASSUME NEW o \in Objects, NEW obj, live' = [live EXCEPT ![o] = obj],
             obj.label \in Ids => obj.label = live[o].label,
             obj.uid = 0 => obj.label \notin Ids
      PROVE  LosesLabels /\ AbsentBare'
  BY <1>1, <1>3 DEF LosesLabels, AbsentBare, Exists, TypeOK
<1>4. Absent.uid = 0 /\ Absent.label \notin Ids
  BY IdsAssumption DEF Absent
<1>5. ASSUME EditSpec \/ CacheSync PROVE LosesLabels /\ AbsentBare'
  BY <1>1, <1>5 DEF EditSpec, CacheSync, objVars, LosesLabels, AbsentBare, Exists
<1>6. ASSUME NEW o \in Objects, NEW id, UserAdopts(o, id)
      PROVE  LosesLabels /\ AbsentBare'
  <2>1. live' = [live EXCEPT ![o] = [live[o] EXCEPT !.adopt = id]] /\ Exists(live[o])
    BY <1>6 DEF UserAdopts, Moved
  <2>2. live[o] \in LiveObject
    BY <1>1 DEF TypeOK
  <2> QED
    BY <1>3, <2>1, <2>2 DEF Exists, LiveObject
<1>7. ASSUME NEW o \in Objects, OtherTakes(o) PROVE LosesLabels /\ AbsentBare'
  <2>1. live' = [live EXCEPT ![o] = [live[o] EXCEPT !.label = Other, !.managed = TRUE]]
    BY <1>7 DEF OtherTakes, Moved
  <2>2. live[o] \in LiveObject
    BY <1>1 DEF TypeOK
  <2> QED
    BY <1>3, <2>1, <2>2, IdsAssumption DEF LiveObject
<1>8. ASSUME NEW o \in Objects, UserDeletes(o) \/ TerminationEnds(o)
      PROVE  LosesLabels /\ AbsentBare'
  <2>1. live[o] \in LiveObject
    BY <1>1 DEF TypeOK
  <2>2. \/ live' = [live EXCEPT ![o] = Absent]
        \/ Exists(live[o]) /\ live' = [live EXCEPT ![o] = [live[o] EXCEPT !.term = TRUE]]
    BY <1>8 DEF UserDeletes, TerminationEnds, Moved
  <2>3. CASE live' = [live EXCEPT ![o] = Absent]
    BY <1>3, <1>4, <2>3
  <2>4. CASE Exists(live[o]) /\ live' = [live EXCEPT ![o] = [live[o] EXCEPT !.term = TRUE]]
    BY <1>3, <2>1, <2>4 DEF Exists, LiveObject
  <2> QED
    BY <2>2, <2>3, <2>4
<1>9. ASSUME NEW o \in Objects, UserCreates(o) PROVE LosesLabels /\ AbsentBare'
  <2>1. \/ live' = [live EXCEPT ![o] = Created(o, FALSE, NoId)]
        \/ live' = [live EXCEPT ![o] = Created(o, TRUE, Other)]
    BY <1>9, Zenon DEF UserCreates, Moved
  <2>2. Created(o, FALSE, NoId).label \notin Ids /\ Created(o, TRUE, Other).label \notin Ids
    BY IdsAssumption DEF Created
  <2> QED
    BY <1>3, <2>1, <2>2, Zenon
<1>10. LosesLabels /\ AbsentBare'
  BY <1>5, <1>6, <1>7, <1>8, <1>9, Zenon DEF Environment
<1> QED
  BY <1>1, <1>2, <1>10, FrameCoverage

(* A reconcile that ends with a status that covers its inventory.          *)
LEMMA ReturnsCoverage ==
    ASSUME CoverageInv, TypeOK', NEW s, Returns(s), Covers(s), Ordered(s),
           Covers(st)', Ordered(st'),
           st'.uuid \in {base.uuid, s.uuid}, st'.prev \in {base.prev, s.prev},
           st'.inv \in {base.inv, s.inv}
    PROVE  CoverageInv'
<1>1. mi' = s /\ pc' = "commit" /\ live' = live /\ base' = base
  BY DEF Returns, objVars
<1>2. AbsentBare' /\ Covers(mi)' /\ Ordered(mi)'
  BY <1>1 DEF CoverageInv, AbsentBare, Exists, Covers, Ordered
<1>3. ReadsOwnWrites' /\ PlanSound' /\ GuardSound' /\ ApplySound'
  BY <1>1 DEF ReadsOwnWrites, PlanSound, GuardSound, ApplySound, Judging, Writing
<1>4. CommitSound'
  BY <1>1, <1>2 DEF CommitSound, Covers, Ordered
<1> QED
  BY <1>2, <1>3, <1>4 DEF CoverageInv, Covers, Ordered

(* A reconcile that ends before its commit changes anything stored.        *)
LEMMA EndsCoverage ==
    ASSUME CoverageInv, TypeOK', NEW s, EndsWith(s), Covers(s), Ordered(s),
           pc \in {"render"} \cup Judging \cup Writing
    PROVE  CoverageInv'
<1>1. st' = st /\ live' = live /\ Returns(s)
  BY DEF EndsWith, Returns, objVars
<1>2. Covers(st)' /\ Ordered(st')
  BY <1>1 DEF CoverageInv, Covers, Ordered
<1>3. base.uuid = st.uuid /\ base.prev = st.prev /\ base.inv = st.inv
  BY DEF CoverageInv, ReadsOwnWrites
<1> QED
  BY <1>1, <1>2, <1>3, ReturnsCoverage

(* A failure keeps the identities and the inventory.                       *)
LEMMA FailsCovers ==
    ASSUME CoverageInv, pc \in {"render"} \cup Judging \cup Writing
    PROVE  Covers(mi) /\ Ordered(mi) /\ Covers(Fails(mi)) /\ Ordered(Fails(mi))
<1>1. mi.uuid = st.uuid /\ mi.prev = st.prev /\ mi.inv = st.inv /\ mi \in Status
  BY DEF CoverageInv, ReadsOwnWrites, TypeOK, RunTypeOK
<1>2. Fails(mi).uuid = mi.uuid /\ Fails(mi).prev = mi.prev /\ Fails(mi).inv = mi.inv
  BY <1>1 DEF Fails, Status
<1> QED
  BY <1>1, <1>2 DEF CoverageInv, Covers, Ordered

(* The plan covers what the status covered.                                *)
LEMMA RecordedCovers ==
    ASSUME CoverageInv, pc = "store"
    PROVE  /\ Recorded(mi).uuid = plan.uuid /\ Recorded(mi).prev = plan.prev
           /\ Recorded(mi).inv = st.inv
           /\ Covers(Recorded(mi)) /\ Ordered(Recorded(mi))
           /\ Fails(Recorded(mi)).uuid = plan.uuid /\ Fails(Recorded(mi)).prev = plan.prev
           /\ Fails(Recorded(mi)).inv = st.inv
           /\ Covers(Fails(Recorded(mi))) /\ Ordered(Fails(Recorded(mi)))
<1>1. mi.inv = st.inv /\ mi \in Status /\ Recorded(mi) \in Status
  BY StatusType DEF CoverageInv, ReadsOwnWrites, TypeOK, RunTypeOK, Judging
<1>2. /\ Recorded(mi).uuid = plan.uuid /\ Recorded(mi).prev = plan.prev
      /\ Recorded(mi).inv = st.inv
  BY <1>1 DEF Recorded, Status
<1>3. /\ Fails(Recorded(mi)).uuid = plan.uuid /\ Fails(Recorded(mi)).prev = plan.prev
      /\ Fails(Recorded(mi)).inv = st.inv
  BY <1>1, <1>2 DEF Fails, Status
<1>4. /\ {st.uuid, st.prev} \subseteq {NoId, plan.uuid, plan.prev}
      /\ plan.uuid = NoId => plan.prev = NoId
  BY DEF CoverageInv, PlanSound, Judging
<1>5. \A o \in st.inv : live[o].label \in Ids => live[o].label \in {plan.uuid, plan.prev}
  BY <1>4, IdsAssumption DEF CoverageInv, Covers
<1> QED
  BY <1>2, <1>3, <1>4, <1>5 DEF Covers, Ordered

(* The outcome of a successful apply and prune covers its inventory.       *)
LEMMA ReconciledCovers ==
    ASSUME CoverageInv, pc \in Writing, pc = "apply" => todo = {}, withheld = {}
    PROVE  Covers(Reconciled) /\ Ordered(Reconciled)
<1>1. mi \in Status /\ mi.uuid = plan.uuid
  BY DEF CoverageInv, ReadsOwnWrites, PlanSound, TypeOK, RunTypeOK
<1>2. /\ Reconciled.uuid = plan.uuid /\ Reconciled.prev = NoId
      /\ Reconciled.inv \subseteq cur.objs \ LetGo
  BY <1>1 DEF Reconciled, Status
<1>3. \A o \in cur.objs \ LetGo : live[o].label \in Ids => live[o].label = plan.uuid
  BY DEF CoverageInv, ApplySound
<1> QED
  BY <1>2, <1>3 DEF Covers, Ordered

(* A step of the prune.                                                    *)
LEMMA PruneCoverage ==
    ASSUME CoverageInv, TypeOK', AbsentBare', LosesLabels, UNCHANGED <<st, runVars, verdict>>,
           pc \in Writing, pc' \in {"judge", "delete"},
           pc = "apply" => todo = {} /\ withheld = {}
    PROVE  CoverageInv'
<1>0. UNCHANGED <<st, cur, mi, base, plan, noop, withheld, verdict>>
  BY DEF runVars
<1>1. cur.objs \subseteq Objects /\ st.inv \subseteq Objects
  BY SpecsAssumption DEF CoverageInv, TypeOK, RunTypeOK, SpecSet, Status
<1>2. Covers(st)' /\ Ordered(st)'
  BY <1>0, <1>1 DEF CoverageInv, Covers, Ordered, LosesLabels
<1>3. ReadsOwnWrites' /\ PlanSound'
  BY <1>0
  DEF CoverageInv, ReadsOwnWrites, PlanSound, extractInstanceUUID, Judging, Writing
<1>4. GuardSound' /\ CommitSound'
  BY DEF GuardSound, CommitSound, Judging, Ending
<1>5. ApplySound'
  BY <1>0, <1>1 DEF CoverageInv, ApplySound, LosesLabels, LetGo, Writing
<1> QED
  BY <1>2, <1>3, <1>4, <1>5 DEF CoverageInv, Covers, Ordered

(* The steps up to the first write.                                        *)
LEMMA JudgingCoverage ==
    ASSUME CacheMayLag = FALSE, CoverageInv, TypeOK'
    PROVE  /\ Start => CoverageInv'
           /\ Render => CoverageInv'
           /\ \A o \in Objects : GuardRead(o) => CoverageInv'
           /\ detectDrift => CoverageInv'
           /\ BeginApply => CoverageInv'
<1>0. /\ st \in Status /\ mi \in Status /\ base \in Status
      /\ cur.objs \subseteq Objects /\ st.uuid \in Identity /\ st.prev \in Identity
      /\ extractInstanceUUID(cur) \in Identity
      /\ verdict \in [Objects -> {"unread", "allow", "letGo", "refuse"}]
      /\ read \in [Objects -> Nat]
  BY SpecsAssumption
  DEF CoverageInv, TypeOK, RunTypeOK, SpecSet, Status, Identity, extractInstanceUUID
<1>1. ASSUME Start PROVE CoverageInv'
  <2>1. /\ pc' = "render" /\ st' = st /\ live' = live
        /\ mi' = [st EXCEPT !.ready = "Unknown"] /\ base' = st
    BY <1>1 DEF Start, apiVars, objVars
  <2>2. mi'.uuid = st.uuid /\ mi'.prev = st.prev /\ mi'.inv = st.inv
    BY <1>0, <2>1 DEF Status
  <2>3. ReadsOwnWrites' /\ PlanSound' /\ GuardSound' /\ ApplySound' /\ CommitSound'
    BY <2>1, <2>2
    DEF ReadsOwnWrites, PlanSound, GuardSound, ApplySound, CommitSound, Judging, Writing, Ending
  <2> QED
    BY <2>1, <2>3 DEF CoverageInv, Covers, Ordered, AbsentBare, Exists
<1>2. ASSUME Render PROVE CoverageInv'
  <2> DEFINE p == planIdentities(mi.uuid, mi.prev, extractInstanceUUID(cur))
  <2>1. pc = "render"
    BY <1>2 DEF Render
  <2>2. CASE p.refused
    <3>1. EndsWith(Fails(mi))
      BY <1>2, <2>2 DEF Render
    <3> QED
      BY <2>1, <3>1, FailsCovers, EndsCoverage
  <2>3. CASE ~p.refused
    <3>1. /\ plan' = p /\ verdict' = Unread /\ pc' = "guard" /\ st' = st /\ live' = live
          /\ cur' = cur /\ mi' = mi /\ base' = base
      BY <1>2, <2>3 DEF Render, apiVars, objVars
    <3>2. PICK w : /\ withheld' = w /\ noop' = keepsNoOp(p, noOp(cur, w))
                   /\ todo' = cur.objs \ w
      BY <1>2, <2>3 DEF Render
    <3>3. mi.uuid = st.uuid /\ mi.prev = st.prev /\ mi.inv = st.inv
          /\ base.uuid = st.uuid /\ base.prev = st.prev /\ base.inv = st.inv
      BY <2>1 DEF CoverageInv, ReadsOwnWrites
    <3>4. /\ {st.uuid, st.prev} \subseteq {NoId, p.uuid, p.prev}
          /\ p.uuid = NoId => p.prev = NoId
          /\ ~p.changed => p.uuid = st.uuid /\ p.prev = st.prev
          /\ extractInstanceUUID(cur) \in {NoId, p.uuid}
      BY <1>0, <2>3, <3>3, PlanKeepsIdentities DEF CoverageInv, Ordered
    <3>5. noop' => p.prev = NoId
      BY <3>2 DEF keepsNoOp
    <3>6. extractInstanceUUID(cur)' = extractInstanceUUID(cur)
      BY <3>1 DEF extractInstanceUUID
    <3>7. PlanSound'
      <4> HIDE DEF p
      <4> QED
        BY <3>1, <3>4, <3>5, <3>6 DEF PlanSound, Judging, Writing
    <3>8. GuardSound'
      BY <1>0, <3>1, <3>2 DEF GuardSound, Unread, Judging
    <3>9. ReadsOwnWrites' /\ ApplySound' /\ CommitSound'
      BY <3>1, <3>3 DEF ReadsOwnWrites, ApplySound, CommitSound, Judging, Writing, Ending
    <3> QED
      BY <3>1, <3>7, <3>8, <3>9 DEF CoverageInv, Covers, Ordered, AbsentBare, Exists
  <2> QED
    BY <2>2, <2>3
<1>3. ASSUME NEW o \in Objects, GuardRead(o) PROVE CoverageInv'
  <2>1. /\ pc = "guard" /\ pc' = pc /\ st' = st /\ live' = live /\ withheld' = withheld
        /\ UNCHANGED runVars /\ todo' = todo \ {o} /\ o \in todo
        /\ verdict' = [verdict EXCEPT ![o] = CanApply(live[o], o \in mi.inv, plan.uuid)]
        /\ read' = [read EXCEPT ![o] = live[o].uid]
    BY <1>3 DEF GuardRead, apiVars, objVars, runVars
  <2>2. UNCHANGED <<cur, mi, base, plan, noop, withheld>>
    BY <2>1 DEF runVars
  <2>3. CanApply(live[o], o \in mi.inv, plan.uuid) # "unread"
    BY DEF CanApply
  <2>4. live[o].uid = 0 => live[o].label \notin Ids
    BY DEF CoverageInv, AbsentBare, Exists
  <2>5. GuardSound'
    <3> DEFINE v == CanApply(live[o], o \in mi.inv, plan.uuid)
    <3>1. verdict' = [verdict EXCEPT ![o] = v] /\ v # "unread"
      BY <2>1, <2>3
    <3> HIDE DEF v
    <3> QED
      BY <1>0, <2>1, <2>2, <2>4, <3>1 DEF CoverageInv, GuardSound, Judging
  <2>6. ReadsOwnWrites' /\ PlanSound' /\ ApplySound' /\ CommitSound'
    BY <2>1, <2>2
    DEF CoverageInv, ReadsOwnWrites, PlanSound, ApplySound, CommitSound,
        extractInstanceUUID, Judging, Writing, Ending
  <2> QED
    BY <2>1, <2>5, <2>6 DEF CoverageInv, Covers, Ordered, AbsentBare, Exists
<1>4. ASSUME detectDrift PROVE CoverageInv'
  <2>1. /\ pc = "guard" /\ pc' = "plan" /\ todo = {} /\ st' = st /\ live' = live
        /\ UNCHANGED <<runVars, verdict, read>>
        /\ missing' \subseteq Allowed
    BY <1>4 DEF detectDrift, apiVars, objVars
  <2>2. UNCHANGED <<cur, mi, base, plan, noop, withheld>>
    BY <2>1 DEF runVars
  <2>3. GuardSound'
    BY <2>1, <2>2 DEF CoverageInv, GuardSound, Allowed, Judging
  <2>4. ReadsOwnWrites' /\ PlanSound' /\ ApplySound' /\ CommitSound'
    BY <2>1, <2>2
    DEF CoverageInv, ReadsOwnWrites, PlanSound, ApplySound, CommitSound,
        extractInstanceUUID, Judging, Writing, Ending
  <2> QED
    BY <2>1, <2>3, <2>4 DEF CoverageInv, Covers, Ordered, AbsentBare, Exists
<1>5. ASSUME BeginApply PROVE CoverageInv'
  <2>1. /\ pc = "plan" /\ pc' = "store" /\ st' = st /\ live' = live
        /\ UNCHANGED <<runVars, verdict, read, missing>>
        /\ todo' = planRestore /\ refusedToWrite = {}
    BY <1>5 DEF BeginApply, apiVars, objVars
  <2>2. UNCHANGED <<cur, mi, base, plan, noop, withheld>>
    BY <2>1 DEF runVars
  <2>3. planRestore' = planRestore /\ refusedToWrite' = refusedToWrite /\ Allowed' = Allowed
    BY <2>1, <2>2 DEF planRestore, refusedToWrite, TakenIn, Allowed, Refused
  <2>4. GuardSound'
    BY <2>1, <2>2, <2>3 DEF CoverageInv, GuardSound, Judging
  <2>5. ReadsOwnWrites' /\ PlanSound' /\ ApplySound' /\ CommitSound'
    BY <2>1, <2>2
    DEF CoverageInv, ReadsOwnWrites, PlanSound, ApplySound, CommitSound,
        extractInstanceUUID, Judging, Writing, Ending
  <2> QED
    BY <2>1, <2>4, <2>5 DEF CoverageInv, Covers, Ordered, AbsentBare, Exists
<1> QED
  BY <1>1, <1>2, <1>3, <1>4, <1>5

(* When the apply starts, what it will not write already carries the       *)
(* recorded label or none of this instance's: it was inventoried with no   *)
(* change pending, or was absent when the guard read it.                   *)
LEMMA UnwrittenLabels ==
    ASSUME CoverageInv, pc = "store",
           NEW o \in (cur.objs \ withheld) \ LetGo, o \notin todo, live[o].label \in Ids
    PROVE  live[o].label = plan.uuid
<1>0. o \in Objects /\ verdict[o] \in {"unread", "allow", "letGo", "refuse"}
  BY SpecsAssumption DEF CoverageInv, TypeOK, RunTypeOK, SpecSet
<1>1. /\ verdict[o] # "unread" /\ todo = planRestore /\ refusedToWrite = {}
      /\ verdict[o] = "allow" /\ read[o] = 0 => live[o].label \notin Ids
  BY <1>0 DEF CoverageInv, GuardSound, Judging
<1>2. verdict[o] \in {"allow", "refuse"}
  BY <1>0, <1>1 DEF LetGo
<1>3. noop
  BY <1>0, <1>1, <1>2 DEF planRestore, refusedToWrite, Allowed, Refused
<1>4. o \in mi.inv
  BY <1>0, <1>1, <1>2, <1>3 DEF planRestore, refusedToWrite, TakenIn, Allowed, Refused
<1>5. live[o].label \in {st.uuid, st.prev}
  BY <1>4 DEF CoverageInv, Covers, ReadsOwnWrites, Judging
<1>6. {st.uuid, st.prev} \subseteq {NoId, plan.uuid} /\ live[o].label # NoId
  BY <1>3, IdsAssumption DEF CoverageInv, PlanSound, Judging
<1> QED
  BY <1>5, <1>6

(* The identity is stored before the first write.                          *)
LEMMA StoreCoverage ==
    ASSUME CoverageInv, TypeOK'
    PROVE  /\ StoreIdentity => CoverageInv'
           /\ StoreFails => CoverageInv'
<1>0. ASSUME pc = "store"
      PROVE  /\ mi.uuid = st.uuid /\ mi.prev = st.prev /\ mi.inv = st.inv
             /\ base.uuid = st.uuid /\ base.prev = st.prev /\ base.inv = st.inv
             /\ ~plan.changed => plan.uuid = st.uuid /\ plan.prev = st.prev
             /\ noop => plan.prev = NoId
             /\ extractInstanceUUID(cur) \in {NoId, plan.uuid}
             /\ todo \subseteq cur.objs
  <2>1. todo \subseteq Allowed
    BY <1>0 DEF CoverageInv, GuardSound, planRestore, TakenIn, Judging
  <2>2. Allowed \subseteq cur.objs
    BY <1>0 DEF CoverageInv, GuardSound, Allowed, Judging
  <2> QED
    BY <1>0, <2>1, <2>2 DEF CoverageInv, ReadsOwnWrites, PlanSound, Judging
<1>1. ASSUME StoreIdentity PROVE CoverageInv'
  <2>1. /\ pc = "store" /\ pc' = "apply" /\ live' = live
        /\ UNCHANGED <<cur, plan, noop, withheld, verdict, todo>>
    BY <1>1 DEF StoreIdentity, objVars, stepVars
  <2>2. /\ st'.uuid = plan.uuid /\ st'.prev = plan.prev /\ st'.inv = st.inv
        /\ mi'.uuid = plan.uuid /\ mi'.prev = plan.prev /\ mi'.inv = st.inv
        /\ base'.uuid = plan.uuid /\ base'.prev = plan.prev /\ base'.inv = st.inv
    <3>1. CASE plan.changed
      <4>1. /\ mi' = Recorded(mi) /\ base' = Recorded(mi)
            /\ st' = Sent(TRUE, TRUE, Recorded(mi))
        BY <1>1, <3>1, Zenon DEF StoreIdentity
      <4>2. /\ Sent(TRUE, TRUE, Recorded(mi)).uuid = Recorded(mi).uuid
            /\ Sent(TRUE, TRUE, Recorded(mi)).prev = Recorded(mi).prev
            /\ Sent(TRUE, TRUE, Recorded(mi)).inv = Recorded(mi).inv
        BY <1>0, <2>1 DEF Sent, Field
      <4> QED
        BY <2>1, <4>1, <4>2, RecordedCovers, Zenon
    <3>2. CASE ~plan.changed
      <4>1. UNCHANGED <<mi, st, base>>
        BY <1>1, <3>2, Zenon DEF StoreIdentity
      <4> QED
        BY <1>0, <2>1, <3>2, <4>1
    <3> QED
      BY <3>1, <3>2
  <2>3. Covers(st)' /\ Ordered(st')
    BY <2>1, <2>2, RecordedCovers DEF Covers, Ordered
  <2>4. ReadsOwnWrites' /\ PlanSound'
    BY <1>0, <2>1, <2>2 DEF ReadsOwnWrites, PlanSound, extractInstanceUUID, Judging, Writing
  <2>5. ApplySound'
    <3>1. LetGo' = LetGo
      BY <2>1 DEF LetGo
    <3>2. \A o \in (cur.objs \ withheld) \ LetGo :
            o \in todo \/ (live[o].label \in Ids => live[o].label = plan.uuid)
      BY <2>1, UnwrittenLabels
    <3> QED
      BY <1>0, <2>1, <3>1, <3>2 DEF ApplySound
  <2>6. GuardSound' /\ CommitSound' /\ AbsentBare'
    BY <2>1 DEF CoverageInv, GuardSound, CommitSound, AbsentBare, Exists, Judging, Ending
  <2> QED
    BY <2>3, <2>4, <2>5, <2>6 DEF CoverageInv, Covers, Ordered
<1>2. ASSUME StoreFails PROVE CoverageInv'
  <2>1. pc = "store" /\ Returns(Fails(Recorded(mi))) /\ live' = live
    BY <1>2 DEF StoreFails, Returns, objVars
  <2>2. PICK conds \in BOOLEAN, rest \in BOOLEAN : st' = Sent(conds, rest, Recorded(mi))
    BY <1>2, Zenon DEF StoreFails
  <2>3. \/ st'.uuid = st.uuid /\ st'.prev = st.prev /\ st'.inv = st.inv
        \/ st'.uuid = plan.uuid /\ st'.prev = plan.prev /\ st'.inv = st.inv
    <3>1. /\ Recorded(mi).uuid = plan.uuid /\ Recorded(mi).prev = plan.prev
          /\ Recorded(mi).inv = st.inv
      BY <2>1, RecordedCovers
    <3> QED
      BY <1>0, <2>1, <2>2, <3>1 DEF Sent, Field
  <2>4. /\ {st.uuid, st.prev} \subseteq {NoId, plan.uuid, plan.prev}
        /\ Covers(st) /\ Ordered(st)
    BY <2>1 DEF CoverageInv, PlanSound, Judging
  <2>5. Covers(st)' /\ Ordered(st')
    BY <2>1, <2>3, <2>4, RecordedCovers DEF Covers, Ordered
  <2>6. Covers(Fails(Recorded(mi))) /\ Ordered(Fails(Recorded(mi)))
        /\ Fails(Recorded(mi)).uuid = plan.uuid /\ Fails(Recorded(mi)).prev = plan.prev
        /\ Fails(Recorded(mi)).inv = st.inv
    BY <2>1, RecordedCovers
  <2> QED
    BY <1>0, <2>1, <2>3, <2>5, <2>6, ReturnsCoverage
<1> QED
  BY <1>1, <1>2

(* The apply writes the recorded identity, and a forced recreate none.     *)
LEMMA ApplyCoverage ==
    ASSUME CoverageInv, TypeOK'
    PROVE  /\ \A o \in Objects : ApplyObject(o) => CoverageInv'
           /\ \A o \in Objects : RecreateDeletes(o) => CoverageInv'
<1>0. /\ cur.objs \subseteq Objects /\ st.inv \subseteq Objects
      /\ live \in [Objects -> LiveObject] /\ born \in [Objects -> Nat]
  BY SpecsAssumption DEF CoverageInv, TypeOK, RunTypeOK, SpecSet, Status
<1>1. ASSUME NEW o \in Objects, ApplyObject(o) PROVE CoverageInv'
  <2>1. /\ pc = "apply" /\ pc' = pc /\ o \in todo /\ todo' = todo \ {o}
        /\ live' = [live EXCEPT ![o] = Written(o)]
        /\ UNCHANGED <<st, cur, mi, base, plan, noop, withheld, verdict>>
    BY <1>1 DEF ApplyObject, apiVars, runVars
  <2>2. /\ todo \subseteq cur.objs
        /\ plan.uuid = st.uuid /\ plan.prev = st.prev
        /\ extractInstanceUUID(cur) \in {NoId, plan.uuid}
    BY <2>1 DEF CoverageInv, ApplySound, PlanSound, Writing
  <2>3. cur.id \in {NoId, plan.uuid}
    BY <2>1, <2>2 DEF extractInstanceUUID
  <2>4. Written(o).label = cur.id
    BY <1>0 DEF Written, Created, LiveObject
  <2>5. Written(o).uid # 0
    BY <1>0 DEF Written, Created, LiveObject, Exists
  <2>6. live'[o].label \in {NoId, plan.uuid} /\ live'[o].uid # 0
        /\ \A p \in Objects \ {o} : live'[p] = live[p]
    BY <1>0, <2>1, <2>3, <2>4, <2>5
  <2>7. Covers(st)' /\ Ordered(st)'
    BY <1>0, <2>1, <2>2, <2>6, IdsAssumption DEF CoverageInv, Covers, Ordered
  <2>8. AbsentBare'
    BY <2>6 DEF CoverageInv, AbsentBare, Exists
  <2>9. ApplySound'
    <3>1. LetGo' = LetGo
      BY <2>1 DEF LetGo
    <3> QED
      BY <1>0, <2>1, <2>6, <3>1, IdsAssumption DEF CoverageInv, ApplySound, Writing
  <2>10. ReadsOwnWrites' /\ PlanSound' /\ GuardSound' /\ CommitSound'
    BY <2>1
    DEF CoverageInv, ReadsOwnWrites, PlanSound, GuardSound, CommitSound,
        extractInstanceUUID, Judging, Writing, Ending
  <2> QED
    BY <2>7, <2>8, <2>9, <2>10 DEF CoverageInv, Covers, Ordered
<1>2. ASSUME NEW o \in Objects, RecreateDeletes(o) PROVE CoverageInv'
  <2>1. /\ live' = [live EXCEPT ![o] = Absent]
        /\ UNCHANGED <<st, pc, runVars, stepVars>>
    BY <1>2 DEF RecreateDeletes, apiVars
  <2>2. Absent.label \notin Ids
    BY IdsAssumption DEF Absent
  <2>3. LosesLabels /\ AbsentBare'
    BY <1>0, <2>1, <2>2 DEF CoverageInv, LosesLabels, AbsentBare, Exists
  <2> QED
    BY <2>1, <2>3, FrameCoverage
<1> QED
  BY <1>1, <1>2

(* A NoOp covers what the status covered.                                  *)
LEMMA NoOpCovers ==
    ASSUME CoverageInv, pc \in Judging, NEW gone
    PROVE  Covers(NoOpStatus(gone)) /\ Ordered(NoOpStatus(gone))
<1>1. /\ mi.uuid = st.uuid /\ mi.prev = st.prev /\ mi.inv = st.inv /\ mi \in Status
  BY DEF CoverageInv, ReadsOwnWrites, TypeOK, RunTypeOK
<1>2. /\ NoOpStatus(gone).uuid = IF st.uuid = NoId THEN plan.uuid ELSE st.uuid
      /\ NoOpStatus(gone).prev = st.prev
      /\ NoOpStatus(gone).inv \subseteq st.inv
  BY <1>1 DEF NoOpStatus, Status
<1>3. Covers(st) /\ Ordered(st)
  BY DEF CoverageInv
<1> QED
  BY <1>2, <1>3, IdsAssumption DEF Covers, Ordered

(* The steps that end a reconcile.                                         *)
LEMMA EndingCoverage ==
    ASSUME CoverageInv, TypeOK'
    PROVE  /\ GuardNoIdentity => CoverageInv'
           /\ ApplyRefused => CoverageInv'
           /\ ApplyReplaced => CoverageInv'
           /\ ApplyRefusedShrink => CoverageInv'
           /\ RenderFails => CoverageInv'
           /\ ApplyFails => CoverageInv'
           /\ Panic => CoverageInv'
           /\ NoOp => CoverageInv'
           /\ GuardFails => CoverageInv'
           /\ ApplyDone => CoverageInv'
           /\ PruneDone => CoverageInv'
<1>1. ASSUME EndsWith(Fails(mi)), pc \in {"render"} \cup Judging \cup Writing
      PROVE  CoverageInv'
  BY <1>1, FailsCovers, EndsCoverage
<1>2. ASSUME GuardNoIdentity \/ ApplyRefused \/ ApplyReplaced \/ ApplyRefusedShrink
             \/ RenderFails \/ ApplyFails
      PROVE  CoverageInv'
  BY <1>1, <1>2
  DEF GuardNoIdentity, ApplyRefused, ApplyReplaced, ApplyRefusedShrink, RenderFails,
      ApplyFails, Judging, Writing
<1>3. ASSUME Panic PROVE CoverageInv'
  <2>1. pc \in Steps
    BY DEF CoverageInv, TypeOK, RunTypeOK
  <2> QED
    BY <1>1, <1>3, <2>1 DEF Panic, Steps, Judging, Writing
<1>4. ASSUME NEW gone, EndsWith(NoOpStatus(gone)), pc \in Judging
      PROVE  CoverageInv'
  BY <1>4, NoOpCovers, EndsCoverage
<1>5. ASSUME NoOp PROVE CoverageInv'
  BY <1>4, <1>5 DEF NoOp, Judging
<1>6. ASSUME GuardFails PROVE CoverageInv'
  BY <1>1, <1>4, <1>6 DEF GuardFails, Judging
<1>7. ASSUME ApplyDone PROVE CoverageInv'
  <2>1. /\ pc = "apply" /\ todo = {} /\ withheld = {} /\ EndsWith(Reconciled)
    BY <1>7 DEF ApplyDone
  <2> QED
    BY <2>1, ReconciledCovers, EndsCoverage DEF Writing
<1>8. ASSUME PruneDone PROVE CoverageInv'
  <2>1. pc = "judge" /\ EndsWith(PruneResult)
    BY <1>8 DEF PruneDone
  <2>2. withheld = {}
    BY <2>1 DEF CoverageInv, ApplySound, Writing
  <2>3. Covers(PruneResult) /\ Ordered(PruneResult)
    BY <2>1, <2>2, FailsCovers, ReconciledCovers DEF PruneResult, Writing
  <2> QED
    BY <2>1, <2>3, EndsCoverage DEF Writing
<1> QED
  BY <1>2, <1>3, <1>5, <1>6, <1>7, <1>8

(* The steps of the prune.                                                 *)
LEMMA PruningCoverage ==
    ASSUME CoverageInv, TypeOK'
    PROVE  /\ BeginPrune => CoverageInv'
           /\ NextPlan => CoverageInv'
           /\ DeleteTarget => CoverageInv'
           /\ DeleteFails => CoverageInv'
           /\ \A o \in Objects : JudgeEntry(o) => CoverageInv'
           /\ \A o \in Objects : JudgeFails(o) => CoverageInv'
<1>0. live \in [Objects -> LiveObject] /\ target \subseteq Objects /\ AbsentBare
  BY DEF CoverageInv, TypeOK, RunTypeOK
<1>1. ASSUME live' = live PROVE AbsentBare' /\ LosesLabels
  BY <1>0, <1>1 DEF AbsentBare, Exists, LosesLabels
<1>2. ASSUME BeginPrune PROVE CoverageInv'
  <2>1. /\ UNCHANGED <<st, runVars, verdict, live>> /\ pc = "apply" /\ pc' = "judge"
        /\ todo = {} /\ withheld = {}
    BY <1>2 DEF BeginPrune, apiVars, objVars
  <2> QED
    BY <1>1, <2>1, PruneCoverage DEF Writing
<1>3. ASSUME NextPlan PROVE CoverageInv'
  <2>1. UNCHANGED <<st, runVars, verdict, live>> /\ pc = "judge" /\ pc' = "judge"
    BY <1>3 DEF NextPlan, apiVars, objVars
  <2> QED
    BY <1>1, <2>1, PruneCoverage DEF Writing
<1>4. ASSUME DeleteFails PROVE CoverageInv'
  <2>1. UNCHANGED <<st, runVars, verdict, live>> /\ pc = "delete" /\ pc' = "judge"
    BY <1>4 DEF DeleteFails, apiVars, objVars
  <2> QED
    BY <1>1, <2>1, PruneCoverage DEF Writing
<1>5. ASSUME NEW o \in Objects, JudgeEntry(o) PROVE CoverageInv'
  <2>1. UNCHANGED <<st, runVars, verdict, live>> /\ pc = "judge"
        /\ pc' \in {"judge", "delete"}
    BY <1>5 DEF JudgeEntry, apiVars, objVars
  <2> QED
    BY <1>1, <2>1, PruneCoverage DEF Writing
<1>6. ASSUME NEW o \in Objects, JudgeFails(o) PROVE CoverageInv'
  <2>1. UNCHANGED <<st, runVars, verdict, live>> /\ pc = "judge" /\ pc' = "judge"
    BY <1>6 DEF JudgeFails, apiVars, objVars
  <2> QED
    BY <1>1, <2>1, PruneCoverage DEF Writing
<1>7. ASSUME DeleteTarget PROVE CoverageInv'
  <2>1. UNCHANGED <<st, runVars, verdict>> /\ pc = "delete" /\ pc' = "judge"
    BY <1>7 DEF DeleteTarget, apiVars
  <2>2. PICK o \in Objects :
          \/ live' = live
          \/ live' = [live EXCEPT ![o] = Absent]
          \/ Exists(live[o]) /\ live' = [live EXCEPT ![o].term = TRUE]
    BY <1>0, <1>7 DEF DeleteTarget
  <2>3. Absent.label \notin Ids
    BY IdsAssumption DEF Absent
  <2>4. AbsentBare' /\ LosesLabels
    <3>1. CASE live' = live
      BY <1>1, <3>1
    <3>2. CASE live' = [live EXCEPT ![o] = Absent]
      BY <1>0, <2>3, <3>2 DEF AbsentBare, Exists, LosesLabels
    <3>3. CASE Exists(live[o]) /\ live' = [live EXCEPT ![o].term = TRUE]
      BY <1>0, <3>3 DEF AbsentBare, Exists, LosesLabels, LiveObject
    <3> QED
      BY <2>2, <3>1, <3>2, <3>3
  <2> QED
    BY <2>1, <2>4, PruneCoverage DEF Writing
<1> QED
  BY <1>2, <1>3, <1>4, <1>5, <1>6, <1>7

(* The two writes of the commit, and a restart.                            *)
LEMMA CommitCoverage ==
    ASSUME CoverageInv, TypeOK'
    PROVE  /\ CommitConditions => CoverageInv'
           /\ CommitStatus => CoverageInv'
           /\ Crash => CoverageInv'
<1>1. ASSUME CommitConditions PROVE CoverageInv'
  <2>1. /\ pc = "commit" /\ pc' = "commitStatus" /\ live' = live
        /\ UNCHANGED <<mi, base>>
    BY <1>1 DEF CommitConditions, objVars, runVars
  <2>2. st' = Sent(TRUE, FALSE, mi) \/ st' = st
    BY <1>1, Zenon DEF CommitConditions
  <2>3. /\ Sent(TRUE, FALSE, mi).uuid = st.uuid /\ Sent(TRUE, FALSE, mi).prev = st.prev
        /\ Sent(TRUE, FALSE, mi).inv = st.inv
    BY DEF Sent, Field
  <2>4. st'.uuid = st.uuid /\ st'.prev = st.prev /\ st'.inv = st.inv
    BY <2>2, <2>3, Zenon
  <2>5. Covers(st)' /\ Ordered(st)' /\ AbsentBare'
    BY <2>1, <2>4 DEF CoverageInv, Covers, Ordered, AbsentBare, Exists
  <2>6. CommitSound'
    BY <2>1, <2>4 DEF CoverageInv, CommitSound, Covers, Ordered, Ending
  <2>7. ReadsOwnWrites' /\ PlanSound' /\ GuardSound' /\ ApplySound'
    BY <2>1 DEF ReadsOwnWrites, PlanSound, GuardSound, ApplySound, Judging, Writing
  <2> QED
    BY <2>5, <2>6, <2>7 DEF CoverageInv, Covers, Ordered
<1>2. ASSUME pc' = "idle", live' = live, Covers(st)', Ordered(st)' PROVE CoverageInv'
  <2>1. AbsentBare'
    BY <1>2 DEF CoverageInv, AbsentBare, Exists
  <2>2. ReadsOwnWrites' /\ PlanSound' /\ GuardSound' /\ ApplySound' /\ CommitSound'
    BY <1>2
    DEF ReadsOwnWrites, PlanSound, GuardSound, ApplySound, CommitSound, Judging, Writing, Ending
  <2> QED
    BY <1>2, <2>1, <2>2 DEF CoverageInv, Covers, Ordered
<1>3. ASSUME CommitStatus PROVE CoverageInv'
  <2>1. pc = "commitStatus" /\ pc' = "idle" /\ live' = live
    BY <1>3 DEF CommitStatus, objVars
  <2>2. st' = Sent(FALSE, TRUE, mi) \/ st' = st
    BY <1>3, Zenon DEF CommitStatus
  <2>3. /\ st.uuid \in {base.uuid, mi.uuid} /\ st.prev \in {base.prev, mi.prev}
        /\ st.inv \in {base.inv, mi.inv} /\ Covers(mi) /\ Ordered(mi)
    BY <2>1 DEF CoverageInv, CommitSound, Ending
  <2>4. /\ Sent(FALSE, TRUE, mi).uuid = mi.uuid /\ Sent(FALSE, TRUE, mi).prev = mi.prev
        /\ Sent(FALSE, TRUE, mi).inv = mi.inv
    BY <2>3 DEF Sent, Field
  <2>5. \/ st'.uuid = mi.uuid /\ st'.prev = mi.prev /\ st'.inv = mi.inv
        \/ st' = st
    BY <2>2, <2>4, Zenon
  <2>6. Covers(st)' /\ Ordered(st)'
    BY <2>1, <2>3, <2>5 DEF CoverageInv, Covers, Ordered
  <2> QED
    BY <1>2, <2>1, <2>6
<1>4. ASSUME Crash PROVE CoverageInv'
  <2>1. pc' = "idle" /\ live' = live /\ st' = st
    BY <1>4 DEF Crash, objVars, apiVars
  <2>2. Covers(st)' /\ Ordered(st)'
    BY <2>1 DEF CoverageInv, Covers, Ordered
  <2> QED
    BY <1>2, <2>1, <2>2
<1> QED
  BY <1>1, <1>3, <1>4

(* Every step keeps the entries covered by the recorded identities.        *)
LEMMA CoverageStep ==
    ASSUME CacheMayLag = FALSE
    PROVE  CoverageInv /\ [Next]_vars => CoverageInv'
<1> SUFFICES ASSUME CoverageInv, [Next]_vars PROVE CoverageInv'
  OBVIOUS
<1>1. TypeOK
  BY DEF CoverageInv
<1>2. CASE Start
  BY <1>1, <1>2, ProgressType, JudgingCoverage
<1>3. CASE Progress
  <2>1. TypeOK'
    BY <1>1, <1>3, ProgressType
  <2> QED
    BY <1>3, <2>1, JudgingCoverage, StoreCoverage, ApplyCoverage, EndingCoverage,
       PruningCoverage, CommitCoverage DEF Progress
<1>4. CASE Failure
  <2>1. TypeOK'
    BY <1>1, <1>4, FailureType
  <2> QED
    BY <1>4, <2>1, StoreCoverage, ApplyCoverage, EndingCoverage, PruningCoverage,
       CommitCoverage DEF Failure
<1>5. CASE Environment
  BY <1>5, EnvironmentCoverage
<1>6. CASE UNCHANGED vars
  <2>1. UNCHANGED <<st, pc, runVars, stepVars, live>>
    BY <1>6 DEF vars, apiVars, objVars
  <2>2. TypeOK'
    BY <1>1, <1>6
    DEF TypeOK, RunTypeOK, vars, apiVars, objVars, runVars, stepVars
  <2>3. AbsentBare' /\ LosesLabels
    BY <2>1 DEF CoverageInv, AbsentBare, Exists, LosesLabels
  <2> QED
    BY <2>1, <2>2, <2>3, FrameCoverage
<1> QED
  BY <1>2, <1>3, <1>4, <1>5, <1>6 DEF Next

(* For a controller that reads the status it last wrote: whatever fails,   *)
(* panics or restarts, and whatever users and other instances do, every    *)
(* inventoried object that carries an identity of this instance carries    *)
(* one of the two the status records.                                      *)
THEOREM Coverage ==
    ASSUME CacheMayLag = FALSE
    PROVE  Spec => []IdentityCoverage
<1>1. CoverageInv => IdentityCoverage
  BY DEF CoverageInv, IdentityCoverage
<1> QED
  BY InitCoverage, CoverageStep, <1>1, PTL DEF Spec
-----------------------------------------------------------------------------
(***************************************************************************)
(* What is written over and deleted                                        *)
(***************************************************************************)
(* Nothing is said where nothing is applied or pruned.                     *)
LEMMA QuietPolicy ==
    ASSUME pc' \in {"idle", "render", "guard", "commit", "commitStatus"}
    PROVE  AllowedOnly' /\ StaleOnly'
BY DEF AllowedOnly, StaleOnly

(* The steps that read the running reconcile only.                         *)
LEMMA FramePolicy ==
    ASSUME PolicyInv, UNCHANGED <<pc, runVars, stepVars>>
    PROVE  AllowedOnly' /\ StaleOnly'
<1>1. UNCHANGED <<pc, cur, mi, noop, verdict, read, missing, todo, left, target>>
  BY DEF runVars, stepVars
<1>2. UNCHANGED <<Allowed, TakenIn, expiredJobs, Stale>>
  BY <1>1 DEF Allowed, TakenIn, expiredJobs, Stale, SplitKeptClaims, staleEntries
<1> QED
  BY <1>1, <1>2 DEF PolicyInv, AllowedOnly, StaleOnly

(* The steps up to the end of the apply.                                   *)
LEMMA ApplyPolicy ==
    ASSUME PolicyInv
    PROVE  /\ detectDrift \/ BeginApply \/ StoreIdentity => AllowedOnly' /\ StaleOnly'
           /\ \A o \in Objects : ApplyObject(o) \/ RecreateDeletes(o) => AllowedOnly' /\ StaleOnly'
<1>1. ASSUME detectDrift PROVE AllowedOnly' /\ StaleOnly'
  <2>1. pc' = "plan" /\ UNCHANGED <<mi, verdict, read>> /\ missing' \subseteq Allowed \ TakenIn
    BY <1>1 DEF detectDrift, runVars
  <2>2. UNCHANGED <<Allowed, TakenIn>>
    BY <2>1 DEF Allowed, TakenIn
  <2> QED
    BY <2>1, <2>2 DEF AllowedOnly, StaleOnly
<1>2. ASSUME BeginApply PROVE AllowedOnly' /\ StaleOnly'
  <2>1. /\ pc = "plan" /\ pc' = "store" /\ todo' = planRestore
        /\ UNCHANGED <<mi, noop, verdict, read, missing>>
    BY <1>2 DEF BeginApply, runVars
  <2>2. UNCHANGED <<Allowed, expiredJobs>>
    BY <2>1 DEF Allowed, expiredJobs
  <2>3. planRestore \subseteq Allowed \ expiredJobs
    BY <2>1 DEF PolicyInv, AllowedOnly, planRestore, expiredJobs, TakenIn
  <2> QED
    BY <2>1, <2>2, <2>3 DEF AllowedOnly, StaleOnly
<1>3. ASSUME UNCHANGED <<noop, verdict, missing>>, pc \in {"store", "apply"}, pc' = "apply",
             todo' \subseteq todo
      PROVE  AllowedOnly' /\ StaleOnly'
  <2>1. UNCHANGED <<Allowed, expiredJobs>>
    BY <1>3 DEF Allowed, expiredJobs
  <2> QED
    BY <1>3, <2>1 DEF PolicyInv, AllowedOnly, StaleOnly
<1>4. ASSUME StoreIdentity PROVE AllowedOnly' /\ StaleOnly'
  BY <1>3, <1>4 DEF StoreIdentity, stepVars
<1>5. ASSUME NEW o \in Objects, ApplyObject(o) \/ RecreateDeletes(o) PROVE AllowedOnly' /\ StaleOnly'
  <2>1. /\ UNCHANGED <<noop, verdict, missing>> /\ pc \in {"store", "apply"} /\ pc' = "apply"
        /\ todo' \subseteq todo
    BY <1>5 DEF ApplyObject, RecreateDeletes, runVars, stepVars
  <2> QED
    BY <1>3, <2>1
<1> QED
  BY <1>1, <1>2, <1>4, <1>5

(* The steps of the prune.                                                 *)
LEMMA PrunePolicy ==
    ASSUME PolicyInv
    PROVE  /\ BeginPrune \/ NextPlan \/ DeleteTarget \/ DeleteFails => AllowedOnly' /\ StaleOnly'
           /\ \A o \in Objects : JudgeEntry(o) \/ JudgeFails(o) => AllowedOnly' /\ StaleOnly'
<1>1. ASSUME UNCHANGED <<cur, mi>> PROVE UNCHANGED Stale
  BY <1>1 DEF Stale, SplitKeptClaims, staleEntries
<1>2. ASSUME BeginPrune PROVE AllowedOnly' /\ StaleOnly'
  <2>1. pc' = "judge" /\ todo' = Stale /\ left' = {} /\ UNCHANGED <<cur, mi>>
    BY <1>2 DEF BeginPrune, Stale, runVars
  <2> QED
    BY <1>1, <2>1 DEF AllowedOnly, StaleOnly
<1>3. ASSUME NextPlan \/ DeleteTarget \/ DeleteFails PROVE AllowedOnly' /\ StaleOnly'
  <2>1. /\ pc \in {"judge", "delete"} /\ pc' = "judge" /\ UNCHANGED <<cur, mi>>
        /\ todo' \cup left' \subseteq todo \cup left
    BY <1>3 DEF NextPlan, DeleteTarget, DeleteFails, runVars
  <2> QED
    BY <1>1, <2>1 DEF PolicyInv, AllowedOnly, StaleOnly
<1>4. ASSUME NEW o \in Objects, JudgeEntry(o) PROVE AllowedOnly' /\ StaleOnly'
  <2>1. /\ pc = "judge" /\ pc' \in {"judge", "delete"} /\ UNCHANGED <<cur, mi>> /\ o \in todo
        /\ todo' \cup left' \subseteq todo \cup left
        /\ pc' = "delete" => target' = {o}
    BY <1>4 DEF JudgeEntry, runVars
  <2> QED
    BY <1>1, <2>1 DEF PolicyInv, AllowedOnly, StaleOnly
<1>5. ASSUME NEW o \in Objects, JudgeFails(o) PROVE AllowedOnly' /\ StaleOnly'
  <2>1. pc = "judge" /\ pc' = "judge" /\ UNCHANGED <<cur, mi, left>> /\ todo' \subseteq todo
    BY <1>5 DEF JudgeFails, runVars
  <2> QED
    BY <1>1, <2>1 DEF PolicyInv, AllowedOnly, StaleOnly
<1> QED
  BY <1>2, <1>3, <1>4, <1>5

(* Every step writes and deletes only what was judged.                     *)
LEMMA PolicyStep == PolicyInv /\ [Next]_vars => PolicyInv'
<1> SUFFICES ASSUME PolicyInv, [Next]_vars PROVE PolicyInv'
  OBVIOUS
<1>t. TypeOK /\ TypeOK'
  <2>1. UNCHANGED vars => TypeOK'
    BY DEF PolicyInv, TypeOK, RunTypeOK, vars, apiVars, objVars, runVars, stepVars
  <2> QED
    BY <2>1, ProgressType, FailureType, EnvironmentType DEF PolicyInv, Next
<1>1. CASE Environment \/ UNCHANGED vars
  <2>1. UNCHANGED <<pc, runVars, stepVars>>
    BY <1>1 DEF Environment, EditSpec, CacheSync, OtherTakes, UserDeletes, UserCreates,
           TerminationEnds, UserAdopts, Moved, EnvUnchanged, vars
  <2> QED
    BY <1>t, <2>1, FramePolicy DEF PolicyInv
<1>2. CASE Start \/ Progress
  <2>1. CASE \/ Start \/ Render \/ GuardNoIdentity \/ ApplyRefused \/ NoOp \/ ApplyRefusedShrink \/ ApplyDone
             \/ PruneDone \/ ApplyReplaced \/ CommitConditions \/ CommitStatus
             \/ \E o \in Objects : GuardRead(o)
    <3>1. pc' \in {"idle", "render", "guard", "commit", "commitStatus"}
      BY <2>1 DEF Start, Render, GuardNoIdentity, ApplyRefused, NoOp, ApplyRefusedShrink, ApplyDone,
             PruneDone, ApplyReplaced, CommitConditions, CommitStatus, GuardRead, EndsWith, Returns
    <3> QED
      BY <1>t, <3>1, QuietPolicy DEF PolicyInv
  <2>2. CASE \/ detectDrift \/ BeginApply \/ StoreIdentity \/ BeginPrune \/ NextPlan \/ DeleteTarget
             \/ \E o \in Objects : ApplyObject(o) \/ JudgeEntry(o)
    BY <1>t, <2>2, ApplyPolicy, PrunePolicy DEF PolicyInv
  <2> QED
    BY <1>2, <2>1, <2>2 DEF Progress
<1>3. CASE Failure
  <2>1. CASE RenderFails \/ GuardFails \/ StoreFails \/ ApplyFails \/ Panic \/ Crash
    <3>1. pc' \in {"idle", "commit"}
      BY <2>1 DEF RenderFails, GuardFails, StoreFails, ApplyFails, Panic, Crash, EndsWith, Returns
    <3> QED
      BY <1>t, <3>1, QuietPolicy DEF PolicyInv
  <2>2. CASE DeleteFails \/ \E o \in Objects : RecreateDeletes(o) \/ JudgeFails(o)
    BY <1>t, <2>2, ApplyPolicy, PrunePolicy DEF PolicyInv
  <2> QED
    BY <1>3, <2>1, <2>2 DEF Failure
<1> QED
  BY <1>1, <1>2, <1>3 DEF Next

(* So every reachable state does, with a lagging cache too.                *)
LEMMA PolicyInvariant == Spec => []PolicyInv
<1>1. Init => PolicyInv
  BY InitType DEF Init, PolicyInv, AllowedOnly, StaleOnly
<1> QED
  BY <1>1, PolicyStep, PTL DEF Spec

(* The controller changes an object by an apply, by a forced recreate or   *)
(* by the DELETE of a prune, and by nothing else.                          *)
LEMMA ControllerChanges ==
    ASSUME PolicyInv, Next, ByController, NEW o \in Objects, live'[o] # live[o]
    PROVE  \/ ApplyObject(o) \/ RecreateDeletes(o)
           \/ pc = "delete" /\ target = {o} /\ UIDHolds(o) /\ Exists(live[o])
<1>t. TypeOK
  BY DEF PolicyInv
<1>1. live' # live
  OBVIOUS
<1>2. CASE Environment
  BY <1>2 DEF Environment, EditSpec, CacheSync, OtherTakes, UserDeletes, UserCreates,
         TerminationEnds, UserAdopts, Moved, EnvUnchanged, stepVars, ByController
<1>3. ASSUME NEW p \in Objects, ApplyObject(p) \/ RecreateDeletes(p)
      PROVE  ApplyObject(o) \/ RecreateDeletes(o)
  <2>1. PICK obj : live' = [live EXCEPT ![p] = obj]
    BY <1>3 DEF ApplyObject, RecreateDeletes
  <2>2. p = o
    BY <1>t, <2>1 DEF TypeOK
  <2> QED
    BY <1>3, <2>2
<1>4. ASSUME DeleteTarget
      PROVE  pc = "delete" /\ target = {o} /\ UIDHolds(o) /\ Exists(live[o])
  <2>1. PICK p \in target : /\ Exists(live[p]) /\ UIDHolds(p)
                            /\ \/ live' = [live EXCEPT ![p] = Absent]
                               \/ live' = [live EXCEPT ![p].term = TRUE]
    BY <1>1, <1>4 DEF DeleteTarget
  <2>2. p = o
    BY <1>t, <2>1 DEF TypeOK
  <2>3. pc = "delete"
    BY <1>4 DEF DeleteTarget
  <2>4. target = {o}
    BY <2>1, <2>2, <2>3 DEF PolicyInv, StaleOnly
  <2> QED
    BY <2>1, <2>2, <2>3, <2>4
<1>5. CASE Start \/ Progress
  <2>1. CASE \/ Start \/ Render \/ GuardNoIdentity \/ ApplyRefused \/ NoOp \/ ApplyRefusedShrink \/ ApplyDone
             \/ PruneDone \/ ApplyReplaced \/ CommitConditions \/ CommitStatus
    BY <1>1, <2>1 DEF Start, Render, GuardNoIdentity, ApplyRefused, NoOp, ApplyRefusedShrink, ApplyDone,
           PruneDone, ApplyReplaced, CommitConditions, CommitStatus, EndsWith, Returns, objVars
  <2>2. CASE \/ detectDrift \/ BeginApply \/ StoreIdentity \/ BeginPrune \/ NextPlan
             \/ \E p \in Objects : GuardRead(p) \/ JudgeEntry(p)
    BY <1>1, <2>2 DEF detectDrift, BeginApply, StoreIdentity, BeginPrune, NextPlan, GuardRead, JudgeEntry,
           objVars
  <2>3. CASE DeleteTarget \/ \E p \in Objects : ApplyObject(p)
    BY <1>3, <1>4, <2>3
  <2> QED
    BY <1>5, <2>1, <2>2, <2>3 DEF Progress
<1>6. CASE Failure
  <2>1. CASE \/ RenderFails \/ GuardFails \/ StoreFails \/ ApplyFails \/ Panic \/ Crash \/ DeleteFails
             \/ \E p \in Objects : JudgeFails(p)
    BY <1>1, <2>1 DEF RenderFails, GuardFails, StoreFails, ApplyFails, Panic, Crash, DeleteFails,
           JudgeFails, EndsWith, Returns, objVars
  <2>2. CASE \E p \in Objects : RecreateDeletes(p)
    BY <1>3, <2>2
  <2> QED
    BY <1>6, <2>1, <2>2 DEF Failure
<1> QED
  BY <1>2, <1>5, <1>6 DEF Next

(* An apply removes nothing and keeps the UID of what is there.            *)
LEMMA ApplyKeeps ==
    ASSUME TypeOK, NEW o \in Objects, ApplyObject(o), Exists(live[o])
    PROVE  live'[o].uid = live[o].uid /\ live'[o].term = live[o].term
<1>1. live[o] \in LiveObject
  BY DEF TypeOK
<1>2. live' = [live EXCEPT ![o] = [live[o] EXCEPT !.managed = TRUE, !.label = cur.id]]
  BY DEF ApplyObject, Written
<1> QED
  BY <1>1, <1>2 DEF TypeOK, LiveObject

(* What is removed by the controller was judged, or may be recreated.      *)
LEMMA ControllerRemoves ==
    ASSUME PolicyInv, Next, ByController, NEW o \in Objects, Removed(o)
    PROVE  \/ RecreateDeletes(o)
           \/ pc = "delete" /\ o \in Stale /\ UIDHolds(o)
<1>1. live'[o] # live[o]
  BY DEF Removed
<1>2. ~ApplyObject(o)
  BY ApplyKeeps DEF PolicyInv, Removed, Exists
<1> QED
  BY <1>1, <1>2, ControllerChanges DEF PolicyInv, StaleOnly

(* No PersistentVolumeClaim is deleted by the controller unless the spec   *)
(* it read allows it: the prune plans none (SplitKeptClaims) and a forced  *)
(* recreate refuses them (checkClaims), with a lagging cache too.          *)
THEOREM ClaimsSafety == Spec => ClaimsSurvive
<1>1. PolicyInv /\ [Next]_vars =>
        [\A o \in Claims : ByController /\ Removed(o) => cur.deleteData]_vars
  <2> SUFFICES ASSUME PolicyInv, Next, NEW o \in Claims, ByController, Removed(o) PROVE cur.deleteData
    OBVIOUS
  <2>1. o \in Objects
    BY KindsAssumption
  <2>2. cur.deleteData \in BOOLEAN
    BY SpecsAssumption DEF PolicyInv, TypeOK, RunTypeOK, SpecSet
  <2>3. RecreateDeletes(o) => cur.deleteData
    BY <2>2 DEF RecreateDeletes, MayRecreate
  <2>4. o \in Stale => cur.deleteData
    BY <2>2 DEF Stale, SplitKeptClaims
  <2> QED
    BY <2>1, <2>3, <2>4, ControllerRemoves
<1> QED
  BY <1>1, PolicyInvariant, PTL DEF Spec, ClaimsSurvive

(* A prune deletes the very object it judged, and only entries that left   *)
(* the render (RunDeletion and its UID precondition).                      *)
THEOREM JudgedSafety == Spec => DeletesWhatItJudged
<1>1. PolicyInv /\ [Next]_vars =>
        [\A o \in Objects :
           ByController /\ pc = "delete" /\ Removed(o) =>
             /\ live[o].uid = read[o]
             /\ o \in mi.inv \ cur.objs]_vars
  <2> SUFFICES ASSUME PolicyInv, Next, NEW o \in Objects, ByController, pc = "delete", Removed(o)
               PROVE  live[o].uid = read[o] /\ o \in mi.inv \ cur.objs
    OBVIOUS
  <2>1. ~RecreateDeletes(o)
    BY DEF RecreateDeletes
  <2> QED
    BY <2>1, ControllerRemoves DEF Stale, SplitKeptClaims, staleEntries, UIDHolds
<1> QED
  BY <1>1, PolicyInvariant, PTL DEF Spec, DeletesWhatItJudged

(* An object outside the inventory is written over only if the guard       *)
(* allowed it and, if it was there when the guard read it, only if it is   *)
(* the one that was judged (pinTakenIn, checkTakenIn).                     *)
THEOREM TakenInSafety == Spec => TakesInWhatItJudged
<1>1. PolicyInv /\ [Next]_vars =>
        [\A o \in Objects \ mi.inv :
           ByController /\ pc = "apply" /\ Exists(live[o]) /\ live'[o] # live[o]
             => verdict[o] = "allow" /\ (read[o] = 0 \/ live'[o].uid = read[o])]_vars
  <2> SUFFICES ASSUME PolicyInv, Next, NEW o \in Objects \ mi.inv, ByController, pc = "apply",
                      Exists(live[o]), live'[o] # live[o]
               PROVE  verdict[o] = "allow" /\ (read[o] # 0 => live'[o].uid = read[o])
    OBVIOUS
  <2>1. ApplyObject(o) \/ RecreateDeletes(o)
    BY ControllerChanges
  <2>2. o \in Allowed
    BY <2>1 DEF PolicyInv, AllowedOnly, ApplyObject, RecreateDeletes
  <2>3. ASSUME read[o] # 0 PROVE live'[o].uid = read[o]
    <3>1. o \in TakenIn
      BY <2>2, <2>3 DEF TakenIn
    <3>2. ApplyObject(o)
      BY <2>1, <3>1 DEF RecreateDeletes, MayRecreate
    <3> QED
      BY <3>1, <3>2, ApplyKeeps DEF PolicyInv, ApplyObject, PinHolds
  <2> QED
    BY <2>2, <2>3 DEF Allowed
<1> QED
  BY <1>1, PolicyInvariant, PTL DEF Spec, TakesInWhatItJudged
-----------------------------------------------------------------------------
(***************************************************************************)
(* What leaves the inventory                                               *)
(***************************************************************************)
(* A plan that is not refused has a prune plan for each of its identities. *)
LEMMA PlanPrunes ==
    ASSUME NEW r, NEW p, NEW i, ~planIdentities(r, p, i).refused
    PROVE  LET q == planIdentities(r, p, i)
           IN  q.prune = recordedIdentities(q.uuid, q.prev)
BY DEF planIdentities, Keeps, Moves

(* No object becomes the instance's by the step.                           *)
OursShrinks ==
    \A o \in Objects : StillOurs(o)' => StillOurs(o) /\ live'[o].label = live[o].label

(* One object is replaced by one that is not the instance's, or was.       *)
LEMMA ReplacedShrinks ==
    ASSUME TypeOK, NEW o \in Objects, NEW obj, live' = [live EXCEPT ![o] = obj],
           ~(Exists(obj) /\ ~obj.term /\ obj.managed /\ obj.label \in Ids /\ obj.adopt = NoId)
    PROVE  OursShrinks
<1>1. ASSUME NEW x \in Objects, StillOurs(x)' PROVE StillOurs(x) /\ live'[x].label = live[x].label
  <2>1. CASE x = o
    <3>1. live'[x] = obj
      BY <2>1 DEF TypeOK
    <3> QED
      BY <1>1, <3>1 DEF StillOurs
  <2>2. CASE x # o
    <3>1. live'[x] = live[x]
      BY <2>2 DEF TypeOK
    <3> QED
      BY <1>1, <3>1 DEF StillOurs, Exists
  <2> QED
    BY <2>1, <2>2
<1> QED
  BY <1>1 DEF OursShrinks

(* A step that leaves the objects alone makes none the instance's own.     *)
LEMMA SameShrinks == live' = live => OursShrinks
BY DEF OursShrinks, StillOurs, Exists

(* Nobody else makes an object the instance's own.                         *)
LEMMA EnvironmentShrinks == TypeOK /\ Environment => OursShrinks
<1> SUFFICES ASSUME TypeOK, Environment PROVE OursShrinks
  OBVIOUS
<1>1. ASSUME EditSpec \/ CacheSync PROVE OursShrinks
  BY <1>1, SameShrinks DEF EditSpec, CacheSync, objVars
<1>2. Absent.uid = 0
  BY DEF Absent
<1>3. ASSUME NEW o \in Objects, live' = [live EXCEPT ![o] = Absent] PROVE OursShrinks
  BY <1>2, <1>3, ReplacedShrinks DEF Exists
<1>4. ASSUME NEW o \in Objects, NEW id \in Ids \cup {Other}, UserAdopts(o, id) PROVE OursShrinks
  <2>1. live' = [live EXCEPT ![o] = [live[o] EXCEPT !.adopt = id]] /\ live[o] \in LiveObject
    BY <1>4 DEF UserAdopts, Moved, TypeOK
  <2>2. [live[o] EXCEPT !.adopt = id].adopt # NoId
    BY <2>1, IdsAssumption DEF LiveObject
  <2> QED
    BY <2>1, <2>2, ReplacedShrinks
<1>5. ASSUME NEW o \in Objects, OtherTakes(o) PROVE OursShrinks
  <2>1. live' = [live EXCEPT ![o] = [live[o] EXCEPT !.label = Other, !.managed = TRUE]]
        /\ live[o] \in LiveObject
    BY <1>5 DEF OtherTakes, Moved, TypeOK
  <2>2. [live[o] EXCEPT !.label = Other, !.managed = TRUE].label \notin Ids
    BY <2>1, IdsAssumption DEF LiveObject
  <2> QED
    BY <2>1, <2>2, ReplacedShrinks
<1>6. ASSUME NEW o \in Objects, UserDeletes(o) \/ TerminationEnds(o) PROVE OursShrinks
  <2>1. \/ live' = [live EXCEPT ![o] = Absent]
        \/ live' = [live EXCEPT ![o] = [live[o] EXCEPT !.term = TRUE]]
    BY <1>6 DEF UserDeletes, TerminationEnds, Moved
  <2>2. live[o] \in LiveObject
    BY DEF TypeOK
  <2>3. [live[o] EXCEPT !.term = TRUE].term
    BY <2>2 DEF LiveObject
  <2> QED
    BY <1>3, <2>1, <2>3, ReplacedShrinks
<1>7. ASSUME NEW o \in Objects, UserCreates(o) PROVE OursShrinks
  <2>1. \/ live' = [live EXCEPT ![o] = Created(o, FALSE, NoId)]
        \/ live' = [live EXCEPT ![o] = Created(o, TRUE, Other)]
    BY <1>7, Zenon DEF UserCreates, Moved
  <2>2. Created(o, FALSE, NoId).label \notin Ids /\ Created(o, TRUE, Other).label \notin Ids
    BY IdsAssumption DEF Created
  <2> QED
    BY <2>1, <2>2, ReplacedShrinks, Zenon
<1> QED
  BY <1>1, <1>4, <1>5, <1>6, <1>7, Zenon DEF Environment

(* What a step that gives the instance nothing keeps.                      *)
LEMMA FrameForgets ==
    ASSUME InstanceInv, OursShrinks, UNCHANGED <<plan, noop, verdict, missing>>,
           pc' \in Judging \cup Writing => pc \in Judging \cup Writing,
           pc' \in {"plan", "store"} \cup Writing => pc \in {"plan", "store"} \cup Writing
    PROVE  PlansBoth' /\ ForgetsOthers'
<1>1. UNCHANGED <<LetGo, expiredJobs>>
  BY DEF LetGo, expiredJobs
<1>2. LetGo \subseteq Objects /\ expiredJobs \subseteq Objects
  BY KindsAssumption DEF LetGo, expiredJobs
<1>3. PlansBoth'
  BY DEF InstanceInv, DropInv, PlansBoth, recordedIdentities
<1>4. ForgetsOthers'
  BY <1>1, <1>2 DEF InstanceInv, DropInv, ForgetsOthers, OursShrinks
<1> QED
  BY <1>3, <1>4

(* The steps that leave the running reconcile alone.                       *)
LEMMA FrameDrop ==
    ASSUME InstanceInv, OursShrinks, UNCHANGED <<st, pc, runVars, stepVars>>
    PROVE  DropInv'
<1>1. UNCHANGED <<cur, mi, plan, noop, verdict, missing, todo, left, k, target, failed>>
  BY DEF runVars, stepVars
<1>2. UNCHANGED <<Stale, PruneIds>>
  BY <1>1 DEF Stale, SplitKeptClaims, staleEntries, PruneIds
<1>3. Stale \subseteq Objects /\ st.inv \subseteq Objects
  BY DEF InstanceInv, PolicyInv, TypeOK, RunTypeOK, Status, Stale, SplitKeptClaims, staleEntries
<1>4. PlansBoth' /\ ForgetsOthers'
  BY <1>1, FrameForgets
<1>5. PruneAccounts'
  <2>1. ASSUME NEW o \in Objects, StillOurs(o)', Accounted(o) PROVE Accounted(o)'
    BY <1>1, <1>2, <2>1 DEF OursShrinks, Accounted, Mismatched
  <2> QED
    BY <1>1, <1>2, <1>3, <2>1 DEF InstanceInv, DropInv, PruneAccounts, OursShrinks
<1>6. DropsSound'
  BY <1>1, <1>3 DEF InstanceInv, DropInv, DropsSound, OursShrinks, KeptByPolicy
<1> QED
  BY <1>4, <1>5, <1>6 DEF DropInv

(* Outside the part that judges, writes and commits, DropInv asks nothing. *)
LEMMA QuietDrop ==
    ASSUME pc' \in {"idle", "render"}
    PROVE  DropInv'
BY DEF DropInv, PlansBoth, ForgetsOthers, PruneAccounts, DropsSound, Judging, Writing, Ending

(* The reconcile ends with status s.                                       *)
LEMMA ReturnsDrop ==
    ASSUME NEW s, Returns(s),
           \A o \in st'.inv \ s.inv : StillOurs(o) => KeptByPolicy(o)
    PROVE  DropInv'
<1>1. pc' = "commit" /\ mi' = s /\ UNCHANGED <<live, cur>>
  BY DEF Returns, objVars
<1>2. \A o : StillOurs(o)' = StillOurs(o) /\ KeptByPolicy(o)' = KeptByPolicy(o)
  BY <1>1 DEF StillOurs, Exists, KeptByPolicy
<1>3. DropsSound'
  BY <1>1, <1>2 DEF DropsSound
<1> QED
  BY <1>1, <1>3 DEF DropInv, PlansBoth, ForgetsOthers, PruneAccounts, Judging, Writing

(* A reconcile that ends early keeps its inventory.                        *)
LEMMA FailsDrop ==
    ASSUME InstanceInv
    PROVE  (\/ RenderFails \/ (Render /\ pc' = "commit") \/ GuardNoIdentity \/ GuardFails \/ ApplyRefused
            \/ StoreFails \/ ApplyReplaced \/ ApplyFails \/ ApplyRefusedShrink \/ Panic)
             => DropInv'
<1>t. mi \in Status
  BY DEF InstanceInv, PolicyInv, TypeOK, RunTypeOK
<1>1. /\ Fails(mi).inv = mi.inv /\ Fails(Recorded(mi)).inv = mi.inv /\ Recorded(mi).inv = mi.inv
      /\ NoOpStatus({}).inv = mi.inv
  BY <1>t DEF Fails, Recorded, NoOpStatus, Status
<1>2. pc \notin {"idle"} \cup Ending => st.inv = mi.inv /\ base.inv = mi.inv
  BY DEF InstanceInv, CoverageInv, ReadsOwnWrites, TypeOK, RunTypeOK, Steps, Judging, Writing, Ending
<1>3. ASSUME NEW s, EndsWith(s), s.inv = mi.inv, pc \notin {"idle"} \cup Ending PROVE DropInv'
  BY <1>2, <1>3, ReturnsDrop DEF EndsWith
<1>4. ASSUME \/ RenderFails \/ (Render /\ pc' = "commit") \/ GuardNoIdentity \/ ApplyRefused
             \/ ApplyReplaced \/ ApplyFails \/ ApplyRefusedShrink \/ Panic
      PROVE  DropInv'
  <2>1. EndsWith(Fails(mi)) /\ pc \notin {"idle"} \cup Ending
    BY <1>4 DEF RenderFails, Render, GuardNoIdentity, ApplyRefused, ApplyReplaced, ApplyFails,
           ApplyRefusedShrink, Panic, Ending
  <2> QED
    BY <1>1, <1>3, <2>1
<1>5. ASSUME GuardFails PROVE DropInv'
  <2>1. pc \notin {"idle"} \cup Ending /\ (EndsWith(NoOpStatus({})) \/ EndsWith(Fails(mi)))
    BY <1>5 DEF GuardFails, Ending
  <2> QED
    BY <1>1, <1>3, <2>1
<1>6. ASSUME StoreFails PROVE DropInv'
  <2>1. PICK conds \in BOOLEAN, rest \in BOOLEAN : st' = Sent(conds, rest, Recorded(mi))
    BY <1>6 DEF StoreFails
  <2>2. Returns(Fails(Recorded(mi))) /\ pc \notin {"idle"} \cup Ending
    BY <1>6 DEF StoreFails, Ending
  <2>3. st'.inv = mi.inv
    BY <1>1, <1>2, <2>1, <2>2 DEF Sent, Field
  <2> QED
    BY <1>1, <2>2, <2>3, ReturnsDrop
<1> QED
  BY <1>4, <1>5, <1>6

(* At the end of a prune in which nothing failed, no stale entry is the    *)
(* instance's: its label is one of the two recorded identities, and there  *)
(* was a plan for each.                                                    *)
LEMMA NoneLeft ==
    ASSUME InstanceInv, PruneDone, ~failed, NEW o \in Stale
    PROVE  ~StillOurs(o)
<1>1. SUFFICES ASSUME StillOurs(o) PROVE FALSE
  OBVIOUS
<1>2. pc = "judge" /\ todo = {} /\ (left = {} \/ k = Len(PruneIds))
  BY DEF PruneDone
<1>3. Accounted(o)
  BY <1>1, <1>2 DEF InstanceInv, DropInv, PruneAccounts
<1>4. k = Len(PruneIds) /\ \A j \in 1 .. Len(PruneIds) : Mismatched(o, j)
  BY <1>2, <1>3 DEF Accounted
<1>5. live[o].label \in {plan.uuid, plan.prev}
  <2>1. o \in st.inv /\ plan.uuid = st.uuid /\ plan.prev = st.prev
    BY <1>2 DEF InstanceInv, CoverageInv, ReadsOwnWrites, PlanSound, Writing, Judging, Stale,
           SplitKeptClaims, staleEntries
  <2> QED
    BY <1>1, <2>1 DEF InstanceInv, CoverageInv, Covers, StillOurs
<1>6. plan.prune = recordedIdentities(plan.uuid, plan.prev)
  BY <1>2 DEF InstanceInv, DropInv, PlansBoth, Writing
<1>7. live[o].label # NoId
  BY <1>1, IdsAssumption DEF StillOurs
<1>8. \E j \in 1 .. Len(PruneIds) : PruneIds[j] = live[o].label
  <2>1. CASE plan.uuid # NoId /\ plan.prev # NoId
    <3>1. PruneIds = <<plan.uuid, plan.prev>>
      BY <1>6, <2>1 DEF PruneIds, recordedIdentities
    <3> QED
      BY <1>5, <3>1
  <2>2. CASE plan.uuid # NoId /\ plan.prev = NoId
    <3>1. PruneIds = <<plan.uuid>>
      BY <1>6, <2>2 DEF PruneIds, recordedIdentities
    <3> QED
      BY <1>5, <1>7, <2>2, <3>1
  <2>3. CASE plan.uuid = NoId /\ plan.prev # NoId
    <3>1. PruneIds = <<plan.prev>>
      BY <1>6, <2>3 DEF PruneIds, recordedIdentities
    <3> QED
      BY <1>5, <1>7, <2>3, <3>1
  <2> QED
    BY <1>5, <1>7, <2>1, <2>2, <2>3
<1> QED
  BY <1>4, <1>8 DEF Mismatched

(* A reconcile that ends well drops what expired, what was handed over and *)
(* what it pruned.                                                         *)
LEMMA DoneDrop ==
    ASSUME InstanceInv
    PROVE  NoOp \/ ApplyDone \/ PruneDone => DropInv'
<1>t. mi \in Status
  BY DEF InstanceInv, PolicyInv, TypeOK, RunTypeOK
<1>1. ASSUME NoOp PROVE DropInv'
  <2>1. pc = "plan" /\ EndsWith(NoOpStatus(expiredJobs \cup LetGo))
    BY <1>1 DEF NoOp
  <2>2. st.inv = mi.inv /\ \A o \in expiredJobs \cup LetGo : ~StillOurs(o)
    BY <2>1 DEF InstanceInv, CoverageInv, ReadsOwnWrites, DropInv, ForgetsOthers, Judging
  <2>3. NoOpStatus(expiredJobs \cup LetGo).inv = mi.inv \ (expiredJobs \cup LetGo)
    BY <1>t DEF NoOpStatus, Status
  <2> QED
    BY <2>1, <2>2, <2>3, ReturnsDrop DEF EndsWith
<1>2. Reconciled.inv = (cur.objs \ expiredJobs) \ LetGo
  BY <1>t DEF Reconciled, Status
<1>3. ASSUME pc \in Writing, EndsWith(Reconciled), \A o \in staleEntries : StillOurs(o) => KeptByPolicy(o)
      PROVE  DropInv'
  <2>1. st.inv = mi.inv /\ \A o \in expiredJobs \cup LetGo : ~StillOurs(o)
    BY <1>3 DEF InstanceInv, CoverageInv, ReadsOwnWrites, DropInv, ForgetsOthers
  <2> QED
    BY <1>2, <1>3, <2>1, ReturnsDrop DEF EndsWith, staleEntries
<1>4. ASSUME ApplyDone PROVE DropInv'
  <2>1. pc = "apply" /\ EndsWith(Reconciled) /\ ~Prunes
    BY <1>4 DEF ApplyDone
  <2>2. \A o \in staleEntries : KeptByPolicy(o)
    BY <2>1 DEF Prunes, KeptByPolicy
  <2> QED
    BY <1>3, <2>1, <2>2 DEF Writing
<1>5. ASSUME PruneDone PROVE DropInv'
  <2>1. pc = "judge" /\ EndsWith(PruneResult)
    BY <1>5 DEF PruneDone
  <2>2. CASE failed
    <3>1. Fails(mi).inv = mi.inv /\ st.inv = mi.inv
      BY <1>t, <2>1 DEF Fails, Status, InstanceInv, CoverageInv, ReadsOwnWrites, Writing
    <3>2. EndsWith(Fails(mi))
      BY <2>1, <2>2 DEF PruneResult
    <3> QED
      BY <3>1, <3>2, ReturnsDrop DEF EndsWith
  <2>3. CASE ~failed
    <3>1. EndsWith(Reconciled)
      BY <2>1, <2>3 DEF PruneResult
    <3>2. cur.deleteData \in BOOLEAN
      BY SpecsAssumption DEF InstanceInv, PolicyInv, TypeOK, RunTypeOK, SpecSet
    <3>3. \A o \in staleEntries : o \in Stale \/ KeptByPolicy(o)
      BY <3>2 DEF Stale, SplitKeptClaims, KeptByPolicy
    <3>4. \A o \in staleEntries : StillOurs(o) => KeptByPolicy(o)
      BY <1>5, <2>3, <3>3, NoneLeft
    <3> QED
      BY <1>3, <2>1, <3>1, <3>4 DEF Writing
  <2> QED
    BY <2>2, <2>3
<1> QED
  BY <1>1, <1>4, <1>5

(* The steps up to the end of the apply.                                   *)
LEMMA ApplyDrop ==
    ASSUME InstanceInv
    PROVE  /\ (Render /\ pc' = "guard") \/ detectDrift \/ BeginApply \/ StoreIdentity => DropInv'
           /\ \A o \in Objects : GuardRead(o) \/ ApplyObject(o) \/ RecreateDeletes(o) => DropInv'
<1>t. TypeOK
  BY DEF InstanceInv, PolicyInv
<1>0. ASSUME pc' \in Judging \cup {"apply"} PROVE PruneAccounts' /\ DropsSound'
  BY <1>0 DEF PruneAccounts, DropsSound, Judging, Ending
<1>1. ASSUME Render, pc' = "guard" PROVE DropInv'
  <2>1. ~planIdentities(mi.uuid, mi.prev, extractInstanceUUID(cur)).refused
        /\ plan' = planIdentities(mi.uuid, mi.prev, extractInstanceUUID(cur)) /\ verdict' = Unread
    BY <1>1 DEF Render, EndsWith, Returns
  <2>2. PlansBoth'
    BY <2>1, PlanPrunes DEF PlansBoth
  <2>3. LetGo' = {}
    BY <2>1 DEF LetGo, Unread
  <2> QED
    BY <1>0, <1>1, <2>2, <2>3 DEF DropInv, ForgetsOthers, Judging, Writing
<1>2. ASSUME NEW o \in Objects, GuardRead(o) PROVE DropInv'
  <2>1. /\ pc = "guard" /\ pc' = "guard" /\ UNCHANGED <<live, plan>>
        /\ verdict' = [verdict EXCEPT ![o] = CanApply(live[o], o \in mi.inv, plan.uuid)]
    BY <1>2 DEF GuardRead, runVars, objVars
  <2>2. CanApply(live[o], o \in mi.inv, plan.uuid) = "letGo" => live[o].adopt # NoId
    BY DEF CanApply, AdoptedElsewhere
  <2>3. \A x \in LetGo' : x \in LetGo \/ (x = o /\ live[o].adopt # NoId)
    BY <1>t, <2>1, <2>2 DEF LetGo, TypeOK, RunTypeOK
  <2>4. \A x \in LetGo' : ~StillOurs(x)
    BY <2>1, <2>3 DEF InstanceInv, DropInv, ForgetsOthers, Judging, StillOurs
  <2>5. \A x : StillOurs(x)' = StillOurs(x)
    BY <2>1 DEF StillOurs, Exists
  <2>6. ForgetsOthers'
    BY <2>1, <2>4, <2>5 DEF ForgetsOthers, Writing
  <2>7. PlansBoth'
    BY <2>1 DEF InstanceInv, DropInv, PlansBoth, recordedIdentities, Judging
  <2> QED
    BY <1>0, <2>1, <2>6, <2>7 DEF DropInv, Judging
<1>3. ASSUME detectDrift PROVE DropInv'
  <2>1. /\ pc = "guard" /\ pc' = "plan" /\ UNCHANGED <<live, plan, noop, verdict>>
        /\ \A x \in missing' : ~Exists(live[x])
    BY <1>3 DEF detectDrift, runVars, objVars
  <2>2. LetGo' = LetGo /\ \A x \in expiredJobs' : ~Exists(live[x])
    BY <2>1 DEF LetGo, expiredJobs
  <2>3. \A x : StillOurs(x)' = StillOurs(x)
    BY <2>1 DEF StillOurs, Exists
  <2>4. ForgetsOthers'
    BY <2>1, <2>2, <2>3 DEF InstanceInv, DropInv, ForgetsOthers, Judging, StillOurs
  <2>5. PlansBoth'
    BY <2>1 DEF InstanceInv, DropInv, PlansBoth, recordedIdentities, Judging
  <2> QED
    BY <1>0, <2>1, <2>4, <2>5 DEF DropInv, Judging
<1>4. ASSUME BeginApply \/ StoreIdentity PROVE DropInv'
  <2>1. /\ pc \in {"plan", "store"} /\ pc' \in {"store", "apply"}
        /\ UNCHANGED <<live, plan, noop, verdict, missing>>
    BY <1>4 DEF BeginApply, StoreIdentity, runVars, stepVars, objVars
  <2>2. PlansBoth' /\ ForgetsOthers'
    BY <2>1, SameShrinks, FrameForgets DEF Judging, Writing
  <2> QED
    BY <1>0, <2>1, <2>2 DEF DropInv, Judging
<1>5. ASSUME NEW o \in Objects, RecreateDeletes(o) PROVE DropInv'
  <2>1. /\ pc = "apply" /\ pc' = "apply" /\ live' = [live EXCEPT ![o] = Absent]
        /\ UNCHANGED <<plan, noop, verdict, missing>>
    BY <1>5 DEF RecreateDeletes, runVars, stepVars
  <2>2. OursShrinks
    BY <1>t, <2>1, ReplacedShrinks DEF Absent, Exists
  <2>3. PlansBoth' /\ ForgetsOthers'
    BY <2>1, <2>2, FrameForgets
  <2> QED
    BY <1>0, <2>1, <2>3 DEF DropInv
<1>6. ASSUME NEW o \in Objects, ApplyObject(o) PROVE DropInv'
  <2>1. /\ pc = "apply" /\ pc' = "apply" /\ o \in todo /\ live' = [live EXCEPT ![o] = Written(o)]
        /\ UNCHANGED <<plan, noop, verdict, missing>>
    BY <1>6 DEF ApplyObject, runVars
  <2>2. LetGo' = LetGo /\ expiredJobs' = expiredJobs
    BY <2>1 DEF LetGo, expiredJobs
  <2>3. o \notin LetGo /\ o \notin expiredJobs
    BY <2>1 DEF InstanceInv, PolicyInv, AllowedOnly, Allowed, LetGo
  <2>4. ASSUME NEW x \in LetGo \cup expiredJobs PROVE ~StillOurs(x)'
    <3>1. x \in Objects
      BY KindsAssumption DEF LetGo, expiredJobs
    <3>2. live'[x] = live[x]
      BY <1>t, <2>1, <2>3, <3>1 DEF TypeOK
    <3>3. ~StillOurs(x)
      BY <2>1 DEF InstanceInv, DropInv, ForgetsOthers, Writing
    <3> QED
      BY <3>2, <3>3 DEF StillOurs, Exists
  <2>5. PlansBoth'
    BY <2>1 DEF InstanceInv, DropInv, PlansBoth, recordedIdentities, Writing
  <2>6. ForgetsOthers'
    BY <2>2, <2>4 DEF ForgetsOthers
  <2> QED
    BY <1>0, <2>1, <2>5, <2>6 DEF DropInv
<1> QED
  BY <1>1, <1>2, <1>3, <1>4, <1>5, <1>6

(* The steps of the prune: an entry that is the instance's is not lost.    *)
LEMMA PruneDrop ==
    ASSUME InstanceInv
    PROVE  /\ BeginPrune \/ NextPlan \/ DeleteTarget \/ DeleteFails => DropInv'
           /\ \A o \in Objects : JudgeEntry(o) \/ JudgeFails(o) => DropInv'
<1>t. TypeOK /\ Stale \subseteq Objects /\ k \in Nat
  BY DEF InstanceInv, PolicyInv, TypeOK, RunTypeOK, Status, Stale, SplitKeptClaims, staleEntries
<1>0. ASSUME OursShrinks, UNCHANGED <<plan, noop, verdict, missing>>, pc \in Writing,
             pc' \in {"judge", "delete"}, PruneAccounts'
      PROVE  DropInv'
  <2>1. PlansBoth' /\ ForgetsOthers'
    BY <1>0, FrameForgets DEF Writing
  <2> QED
    BY <1>0, <2>1 DEF DropInv, DropsSound, Ending
<1>1. ASSUME UNCHANGED <<cur, mi, plan>> PROVE UNCHANGED <<Stale, PruneIds>>
  BY <1>1 DEF Stale, SplitKeptClaims, staleEntries, PruneIds
<1>2. ASSUME live' = live PROVE \A o : StillOurs(o)' = StillOurs(o)
  BY <1>2 DEF StillOurs, Exists
<1>3. ASSUME BeginPrune PROVE DropInv'
  <2>1. /\ pc = "apply" /\ pc' = "judge" /\ todo' = Stale /\ k' = 1
        /\ UNCHANGED <<live, cur, mi, plan, noop, verdict, missing>>
    BY <1>3 DEF BeginPrune, runVars, objVars, Stale
  <2>2. PruneAccounts'
    BY <1>1, <2>1 DEF PruneAccounts, Accounted
  <2> QED
    BY <1>0, <2>1, <2>2, SameShrinks DEF Writing
<1>4. ASSUME NextPlan PROVE DropInv'
  <2>1. /\ pc = "judge" /\ pc' = "judge" /\ todo = {} /\ todo' = left /\ k' = k + 1
        /\ UNCHANGED <<live, cur, mi, plan, noop, verdict, missing, failed>>
    BY <1>4 DEF NextPlan, runVars, objVars
  <2>2. ASSUME NEW o \in Stale, Accounted(o) PROVE Accounted(o)'
    <3>1. o \in left /\ \A j \in 1 .. k : Mismatched(o, j)
      BY <2>1, <2>2 DEF Accounted
    <3>2. k' - 1 = k
      BY <1>t, <2>1
    <3> QED
      BY <1>1, <2>1, <3>1, <3>2 DEF Accounted, Mismatched
  <2>3. PruneAccounts'
    BY <1>1, <1>2, <2>1, <2>2 DEF InstanceInv, DropInv, PruneAccounts
  <2> QED
    BY <1>0, <2>1, <2>3, SameShrinks DEF Writing
<1>5. ASSUME failed', live' = live, UNCHANGED <<plan, noop, verdict, missing>>,
             pc \in Writing, pc' \in {"judge", "delete"}
      PROVE  DropInv'
  BY <1>0, <1>5, SameShrinks DEF PruneAccounts
<1>6. ASSUME DeleteFails PROVE DropInv'
  BY <1>5, <1>6 DEF DeleteFails, runVars, objVars, Writing
<1>7. ASSUME NEW o \in Objects, JudgeFails(o) PROVE DropInv'
  BY <1>5, <1>7 DEF JudgeFails, runVars, objVars, Writing
<1>8. ASSUME NEW o \in Objects, JudgeEntry(o) PROVE DropInv'
  <2> DEFINE v == CanDelete(live[o], PruneIds[k])
  <2>1. /\ pc = "judge" /\ pc' \in {"judge", "delete"} /\ todo' = todo \ {o}
        /\ UNCHANGED <<live, cur, mi, plan, noop, verdict, missing, k, failed>>
        /\ v = "proceed" => target' = {o} /\ pc' = "delete" /\ left' = left
        /\ v = "mismatch" => left' = left \cup {o}
        /\ left \subseteq left'
    BY <1>8 DEF JudgeEntry, runVars, objVars
  <2>2. StillOurs(o) => v = "proceed" \/ (v = "mismatch" /\ Mismatched(o, k))
    BY DEF StillOurs, CanDelete, Mismatched
  <2> HIDE DEF v
  <2>3. ASSUME NEW x \in Stale, StillOurs(x), Accounted(x) PROVE Accounted(x)'
    <3>1. \A j \in 1 .. k : Mismatched(x, j)' = Mismatched(x, j)
      BY <1>1, <2>1 DEF Mismatched
    <3>2. CASE x \in left /\ \A j \in 1 .. k : Mismatched(x, j)
      BY <2>1, <3>1, <3>2 DEF Accounted
    <3>3. CASE x \in todo /\ x # o /\ \A j \in 1 .. k - 1 : Mismatched(x, j)
      <4>1. \A j \in 1 .. k - 1 : j \in 1 .. k
        BY <1>t
      <4> QED
        BY <2>1, <3>1, <3>3, <4>1 DEF Accounted
    <3>4. CASE x = o /\ \A j \in 1 .. k - 1 : Mismatched(x, j)
      <4>1. CASE v = "proceed"
        BY <2>1, <3>4, <4>1 DEF Accounted
      <4>2. CASE v = "mismatch" /\ Mismatched(o, k)
        <5>1. \A j \in 1 .. k : j = k \/ j \in 1 .. k - 1
          BY <1>t
        <5> QED
          BY <2>1, <3>1, <3>4, <4>2, <5>1 DEF Accounted
      <4> QED
        BY <2>2, <2>3, <3>4, <4>1, <4>2
    <3> QED
      BY <2>1, <2>3, <3>2, <3>3, <3>4 DEF Accounted
  <2>4. PruneAccounts'
    BY <1>1, <1>2, <2>1, <2>3 DEF InstanceInv, DropInv, PruneAccounts
  <2> QED
    BY <1>0, <2>1, <2>4, SameShrinks DEF Writing
<1>9. ASSUME DeleteTarget PROVE DropInv'
  <2>1. /\ pc = "delete" /\ pc' = "judge" /\ UNCHANGED <<cur, mi, plan, noop, verdict, missing, todo, left, k>>
    BY <1>9 DEF DeleteTarget, runVars
  <2>2. PICK o \in Stale : target = {o}
    BY <2>1 DEF InstanceInv, PolicyInv, StaleOnly
  <2>3. live[o] \in LiveObject /\ o \in Objects
    BY <1>t, <2>2 DEF TypeOK
  <2>4. \/ live' = [live EXCEPT ![o] = Absent] /\ failed' = failed
        \/ live' = [live EXCEPT ![o] = [live[o] EXCEPT !.term = TRUE]] /\ failed' = failed
        \/ ~Exists(live[o]) /\ live' = live /\ failed' = failed
        \/ live' = live /\ failed'
    BY <1>9, <2>2 DEF DeleteTarget
  <2>5. [live[o] EXCEPT !.term = TRUE].term /\ ~Exists(Absent)
    BY <2>3 DEF LiveObject, Exists, Absent
  <2>6. OursShrinks
    BY <1>t, <2>3, <2>4, <2>5, ReplacedShrinks, SameShrinks
  <2>7. failed' \/ (failed' = failed /\ ~StillOurs(o)')
    <3>1. CASE live' = [live EXCEPT ![o] = Absent] /\ failed' = failed
      BY <1>t, <2>3, <2>5, <3>1 DEF StillOurs, TypeOK
    <3>2. CASE live' = [live EXCEPT ![o] = [live[o] EXCEPT !.term = TRUE]] /\ failed' = failed
      BY <1>t, <2>3, <2>5, <3>2 DEF StillOurs, TypeOK
    <3>3. CASE ~Exists(live[o]) /\ live' = live /\ failed' = failed
      BY <3>3 DEF StillOurs
    <3> QED
      BY <2>4, <3>1, <3>2, <3>3
  <2>8. ASSUME NEW x \in Stale, StillOurs(x)', x # o, Accounted(x) PROVE Accounted(x)'
    <3>1. live'[x].label = live[x].label
      BY <1>t, <2>6, <2>8 DEF OursShrinks
    <3>2. \A j : Mismatched(x, j)' = Mismatched(x, j)
      BY <1>1, <2>1, <3>1 DEF Mismatched
    <3> QED
      BY <2>1, <2>2, <2>8, <3>2 DEF Accounted
  <2>9. PruneAccounts'
    BY <1>t, <1>1, <2>1, <2>6, <2>7, <2>8 DEF InstanceInv, DropInv, PruneAccounts, OursShrinks
  <2> QED
    BY <1>0, <2>1, <2>6, <2>9 DEF Writing
<1> QED
  BY <1>3, <1>4, <1>6, <1>7, <1>8, <1>9

(* Every step keeps the invariant of the reconcile, if it reads the status *)
(* it last wrote.                                                          *)
LEMMA InstanceStep ==
    ASSUME CacheMayLag = FALSE
    PROVE  InstanceInv /\ [Next]_vars => InstanceInv'
<1> SUFFICES ASSUME InstanceInv, [Next]_vars PROVE InstanceInv'
  OBVIOUS
<1>1. CoverageInv' /\ PolicyInv'
  BY CoverageStep, PolicyStep DEF InstanceInv
<1>2. CASE Environment \/ UNCHANGED vars
  <2>1. UNCHANGED <<st, pc, runVars, stepVars>>
    BY <1>2 DEF Environment, EditSpec, CacheSync, OtherTakes, UserDeletes, UserCreates,
           TerminationEnds, UserAdopts, Moved, EnvUnchanged, vars, apiVars
  <2>2. OursShrinks
    BY <1>2, EnvironmentShrinks, SameShrinks DEF InstanceInv, PolicyInv, vars, objVars
  <2> QED
    BY <1>1, <2>1, <2>2, FrameDrop DEF InstanceInv
<1>3. CASE Start \/ CommitStatus \/ Crash
  <2>1. pc' \in {"idle", "render"}
    BY <1>3 DEF Start, CommitStatus, Crash
  <2> QED
    BY <1>1, <2>1, QuietDrop DEF InstanceInv
<1>4. CASE CommitConditions
  <2>1. pc = "commit" /\ pc' = "commitStatus" /\ UNCHANGED <<live, mi, cur>>
    BY <1>4 DEF CommitConditions, objVars, runVars
  <2>2. st'.inv = st.inv
    BY <1>4 DEF CommitConditions, Sent, Field
  <2>3. \A o : StillOurs(o)' = StillOurs(o) /\ KeptByPolicy(o)' = KeptByPolicy(o)
    BY <2>1 DEF StillOurs, Exists, KeptByPolicy
  <2>4. DropsSound'
    BY <2>1, <2>2, <2>3 DEF InstanceInv, DropInv, DropsSound, Ending
  <2> QED
    BY <1>1, <2>1, <2>4
    DEF InstanceInv, DropInv, PlansBoth, ForgetsOthers, PruneAccounts, Judging, Writing
<1>5. ASSUME (Render /\ pc' = "guard") \/ detectDrift \/ BeginApply \/ StoreIdentity PROVE DropInv'
  BY <1>5, ApplyDrop
<1>6. ASSUME NEW o \in Objects, GuardRead(o) \/ ApplyObject(o) \/ RecreateDeletes(o) PROVE DropInv'
  BY <1>6, ApplyDrop
<1>7. ASSUME \/ RenderFails \/ (Render /\ pc' = "commit") \/ GuardNoIdentity \/ GuardFails \/ ApplyRefused
             \/ StoreFails \/ ApplyReplaced \/ ApplyFails \/ ApplyRefusedShrink \/ Panic
      PROVE  DropInv'
  BY <1>7, FailsDrop
<1>8. ASSUME NoOp \/ ApplyDone \/ PruneDone PROVE DropInv'
  BY <1>8, DoneDrop
<1>9. ASSUME BeginPrune \/ NextPlan \/ DeleteTarget \/ DeleteFails PROVE DropInv'
  BY <1>9, PruneDrop
<1>10. ASSUME NEW o \in Objects, JudgeEntry(o) \/ JudgeFails(o) PROVE DropInv'
  BY <1>10, PruneDrop
<1>11. Render => pc' \in {"guard", "commit"}
  BY DEF Render, EndsWith, Returns
<1>12. CASE Progress
  <2>1. \/ CommitConditions \/ CommitStatus \/ DropInv'
    BY <1>12, <1>5, <1>6, <1>7, <1>8, <1>9, <1>10, <1>11, Zenon DEF Progress
  <2> QED
    BY <1>1, <1>3, <1>4, <2>1 DEF InstanceInv
<1>13. CASE Failure
  <2>1. Crash \/ DropInv'
    BY <1>13, <1>5, <1>6, <1>7, <1>8, <1>9, <1>10, Zenon DEF Failure
  <2> QED
    BY <1>1, <1>3, <2>1 DEF InstanceInv
<1> QED
  BY <1>2, <1>3, <1>12, <1>13 DEF Next

(* For a controller that reads the status it last wrote, the reconcile of  *)
(* an instance is well typed, covers its objects, writes and deletes only  *)
(* what it judged, and loses no object on the way from the inventory to    *)
(* the delete.                                                             *)
THEOREM InstanceSafety ==
    ASSUME CacheMayLag = FALSE
    PROVE  Spec => []InstanceInv
<1>1. Init => InstanceInv
  <2>1. Init => DropInv
    BY DEF Init, DropInv, PlansBoth, ForgetsOthers, PruneAccounts, DropsSound, Judging, Writing, Ending
  <2>2. Init => PolicyInv
    BY InitType DEF Init, PolicyInv, AllowedOnly, StaleOnly
  <2> QED
    BY <2>1, <2>2, InitCoverage DEF InstanceInv
<1> QED
  BY <1>1, InstanceStep, PTL DEF Spec

(* An entry leaves the recorded inventory while its object is still the    *)
(* instance's own only because a policy says so, whatever fails, restarts  *)
(* or changes identity (Prune, forgetLetGo, forgetExpiredJobs and the      *)
(* deferred commit).                                                       *)
THEOREM AbandonSafety ==
    ASSUME CacheMayLag = FALSE
    PROVE  Spec => NothingAbandoned
<1>1. InstanceInv /\ [Next]_vars =>
        [\A o \in st.inv \ st'.inv : StillOurs(o) => KeptByPolicy(o)]_vars
  <2> SUFFICES ASSUME InstanceInv, Next, NEW o \in st.inv \ st'.inv, StillOurs(o)
               PROVE  KeptByPolicy(o)
    OBVIOUS
  <2>t. mi \in Status
    BY DEF InstanceInv, PolicyInv, TypeOK, RunTypeOK
  <2>1. CASE StoreIdentity \/ StoreFails
    <3>1. mi.inv = st.inv /\ base.inv = st.inv /\ Recorded(mi).inv = mi.inv
      BY <2>t, <2>1 DEF StoreIdentity, StoreFails, InstanceInv, CoverageInv, ReadsOwnWrites, Judging,
             Recorded, Status
    <3>2. st' = st \/ \E conds, rest \in BOOLEAN : st' = Sent(conds, rest, Recorded(mi))
      BY <2>1 DEF StoreIdentity, StoreFails
    <3>3. st'.inv = st.inv
      BY <3>1, <3>2 DEF Sent, Field
    <3> QED
      BY <3>3
  <2>2. CASE CommitConditions
    BY <2>2 DEF CommitConditions, Sent, Field
  <2>3. CASE CommitStatus
    <3>1. pc \in Ending /\ st'.inv \in {st.inv, mi.inv}
      BY <2>3 DEF CommitStatus, Ending, Sent, Field
    <3> QED
      BY <3>1 DEF InstanceInv, DropInv, DropsSound
  <2>4. CASE st' = st
    BY <2>4
  <2>5. CASE Environment \/ Start
    BY <2>4, <2>5 DEF Environment, EditSpec, CacheSync, OtherTakes, UserDeletes, UserCreates,
           TerminationEnds, UserAdopts, Moved, Start, apiVars
  <2>6. CASE Progress
    <3>1. CASE \/ Render \/ GuardNoIdentity \/ detectDrift \/ ApplyRefused \/ NoOp \/ BeginApply
               \/ ApplyRefusedShrink \/ ApplyDone \/ BeginPrune \/ NextPlan \/ DeleteTarget \/ PruneDone
               \/ ApplyReplaced \/ \E x \in Objects : GuardRead(x) \/ ApplyObject(x) \/ JudgeEntry(x)
      BY <2>4, <3>1 DEF Render, GuardNoIdentity, detectDrift, ApplyRefused, NoOp, BeginApply,
             ApplyRefusedShrink, ApplyDone, BeginPrune, NextPlan, DeleteTarget, PruneDone,
             ApplyReplaced, GuardRead, ApplyObject, JudgeEntry, EndsWith, apiVars
    <3> QED
      BY <2>1, <2>2, <2>3, <2>6, <3>1 DEF Progress
  <2>7. CASE Failure
    <3>1. CASE \/ RenderFails \/ GuardFails \/ ApplyFails \/ DeleteFails \/ Panic \/ Crash
               \/ \E x \in Objects : RecreateDeletes(x) \/ JudgeFails(x)
      BY <2>4, <3>1 DEF RenderFails, GuardFails, ApplyFails, DeleteFails, Panic, Crash,
             RecreateDeletes, JudgeFails, EndsWith, apiVars
    <3> QED
      BY <2>1, <2>7, <3>1 DEF Failure
  <2> QED
    BY <2>5, <2>6, <2>7 DEF Next
<1> QED
  BY <1>1, InstanceSafety, PTL DEF Spec, NothingAbandoned
=============================================================================
