------------------------- MODULE PlatformStoreProofs -------------------------
(***************************************************************************)
(* The prune of the platform directories spares what renders read, for any *)
(* number of renders, specs, claims and failures.                          *)
(***************************************************************************)
EXTENDS PlatformStore, FiniteSetTheorems, TLAPS

(* The renders that hold a lease on an identity are finitely many.         *)
LEMMA HoldingFinite == \A i : IsFiniteSet(Holding(i)) /\ Cardinality(Holding(i)) \in Nat
<1> TAKE i
<1>1. Holding(i) \subseteq Renders
  BY DEF Holding
<1>2. IsFiniteSet(Holding(i))
  BY <1>1, FS_Subset, StoreAssumption
<1> QED
  BY <1>2, FS_CardinalityType

(* Lease adds one render to the ones that hold the record's identity.      *)
LEMMA LeaseCounts ==
  ASSUME TypeOK, LeasesCounted, NEW r \in Renders, Lease(r)
  PROVE  LeasesCounted'
<1>1. generated \in Record /\ generated.id \in Identity
  BY DEF Lease, TypeOK, Record
<1> SUFFICES ASSUME NEW i \in Identity
             PROVE  leases'[i] = Cardinality(Holding(i)')
  BY DEF LeasesCounted
<1>2. CASE i = generated.id
  <2>1. r \notin Holding(i)
    BY <1>2, StoreAssumption DEF Lease, Holding
  <2>2. Holding(i)' = Holding(i) \cup {r}
    BY <1>1, <1>2 DEF Lease, Holding, TypeOK
  <2>3. Cardinality(Holding(i) \cup {r}) = Cardinality(Holding(i)) + 1
    BY <2>1, HoldingFinite, FS_AddElement
  <2>4. leases'[i] = leases[i] + 1
    BY <1>1, <1>2 DEF Lease, TypeOK
  <2> QED
    BY <2>2, <2>3, <2>4 DEF LeasesCounted
<1>3. CASE i # generated.id
  <2>1. Holding(i)' = Holding(i)
    BY <1>1, <1>3, StoreAssumption DEF Lease, Holding, TypeOK
  <2>2. leases'[i] = leases[i]
    BY <1>1, <1>3 DEF Lease, TypeOK
  <2> QED
    BY <2>1, <2>2 DEF LeasesCounted
<1> QED
  BY <1>2, <1>3

(* The release of a lease removes its render and nothing else.             *)
LEMMA ReleaseCounts ==
  ASSUME TypeOK, LeasesCounted, NEW r \in Renders, Release(r)
  PROVE  LeasesCounted'
<1>1. render[r] \in Identity
  BY DEF Release, TypeOK
<1> SUFFICES ASSUME NEW i \in Identity
             PROVE  leases'[i] = Cardinality(Holding(i)')
  BY DEF LeasesCounted
<1>2. CASE i = render[r]
  <2>1. r \in Holding(i)
    BY <1>2 DEF Holding
  <2>2. Holding(i)' = Holding(i) \ {r}
    BY <1>1, <1>2, StoreAssumption DEF Release, Holding, TypeOK
  <2>3. Cardinality(Holding(i) \ {r}) = Cardinality(Holding(i)) - 1
    BY <2>1, HoldingFinite, FS_RemoveElement
  <2>4. Cardinality(Holding(i)) # 0
    BY <2>1, HoldingFinite, FS_EmptySet
  <2>5. leases[i] = Cardinality(Holding(i))
    BY DEF LeasesCounted
  <2>6. leases'[i] = leases[i] - 1
    <3>1. leases'[i] = Released(i)
      BY <1>1, <1>2 DEF Release, TypeOK
    <3> QED
      BY <3>1, <2>4, <2>5, HoldingFinite DEF Released
  <2> QED
    BY <2>2, <2>3, <2>5, <2>6
<1>3. CASE i # render[r]
  <2>1. Holding(i)' = Holding(i)
    BY <1>1, <1>3, StoreAssumption DEF Release, Holding, TypeOK
  <2>2. leases'[i] = leases[i]
    BY <1>1, <1>3 DEF Release, TypeOK
  <2> QED
    BY <2>1, <2>2 DEF LeasesCounted
<1> QED
  BY <1>2, <1>3

(* The steps that touch neither the counts nor the renders.                *)
LEMMA CountsKept ==
  ASSUME LeasesCounted, UNCHANGED <<leases, render>>
  PROVE  LeasesCounted'
BY DEF LeasesCounted, Holding

(* A store that was just started holds no lease.                           *)
LEMMA InitLeaseInv == Init => LeaseInv
<1> SUFFICES ASSUME Init PROVE LeaseInv
  OBVIOUS
<1>1. 1 \in Generation
  BY StoreAssumption DEF Generation
<1>2. FirstId \in Identity /\ FirstPkg \in Package
  BY <1>1, StoreAssumption DEF FirstId, FirstPkg, Identity, Package
<1>3. plat \in Object
  BY <1>1 DEF Init, Object
<1>4. TypeOK
  BY <1>2, <1>3 DEF Init, TypeOK, Empty, Steps
<1>5. LeasesCounted
  <2> SUFFICES ASSUME NEW i \in Identity PROVE leases[i] = Cardinality(Holding(i))
    BY DEF LeasesCounted
  <2>1. Holding(i) = {}
    BY StoreAssumption DEF Init, Holding
  <2> QED
    BY <2>1, FS_EmptySet DEF Init
<1>6. KeepSound
  BY DEF Init, KeepSound
<1>7. GenerationCounted
  BY DEF Init, GenerationCounted
<1> QED
  BY <1>4, <1>5, <1>6, <1>7 DEF LeaseInv

(***************************************************************************)
(* Every step preserves the invariant                                      *)
(***************************************************************************)
(* Renders lease and release.                                              *)
LEMMA RenderPreserves ==
  ASSUME LeaseInv, NEW r \in Renders, Lease(r) \/ Release(r)
  PROVE  LeaseInv'
<1> USE DEF LeaseInv
<1>1. CASE Lease(r)
  <2>1. generated.id \in Identity /\ leases[generated.id] \in Nat
    BY <1>1 DEF Lease, TypeOK, Record
  <2>2. TypeOK'
    BY <1>1, <2>1 DEF Lease, TypeOK, apiVars, runVars, boundVars
  <2>3. LeasesCounted'
    BY <1>1, LeaseCounts
  <2>4. KeepSound'
    <3>1. pc = "prune" => generated.id \in keep
      BY DEF KeepSound
    <3>2. Leased' \subseteq Leased \cup {generated.id}
      BY <1>1, <2>1 DEF Lease, Leased, TypeOK
    <3> QED
      BY <1>1, <3>1, <3>2 DEF Lease, KeepSound, runVars
  <2>5. GenerationCounted'
    BY <1>1 DEF Lease, GenerationCounted, apiVars, boundVars
  <2> QED
    BY <2>2, <2>3, <2>4, <2>5
<1>2. CASE Release(r)
  <2>1. render[r] \in Identity /\ leases[render[r]] \in Nat
    BY <1>2 DEF Release, TypeOK
  <2>2. Released(render[r]) \in Nat /\ (Released(render[r]) > 0 => leases[render[r]] > 0)
    BY <2>1 DEF Released
  <2>3. TypeOK'
    BY <1>2, <2>1, <2>2 DEF Release, TypeOK, apiVars, runVars, boundVars
  <2>4. LeasesCounted'
    BY <1>2, ReleaseCounts
  <2>5. KeepSound'
    <3>1. Leased' \subseteq Leased
      BY <1>2, <2>1, <2>2 DEF Release, Leased, TypeOK
    <3> QED
      BY <1>2, <3>1 DEF Release, KeepSound, runVars
  <2>6. GenerationCounted'
    BY <1>2 DEF Release, GenerationCounted, apiVars, boundVars
  <2> QED
    BY <2>3, <2>4, <2>5, <2>6
<1> QED
  BY <1>1, <1>2

(* The steps of the reconcile.                                             *)
LEMMA ReconcilePreserves ==
  ASSUME LeaseInv, Start \/ Progress \/ GenerateFails \/ SwapFails
  PROVE  LeaseInv'
<1> USE DEF LeaseInv
<1>1. LeasesCounted'
  <2>1. UNCHANGED <<leases, render>>
    BY DEF Start, Progress, GenerateFails, SwapFails, ActiveClaims, Check, MoveAside, Swap,
           Build, SetGenerated, Keep, PruneDone, PatchStatus, PruneDir, Fails, storeVars
  <2> QED
    BY <2>1, CountsKept
<1>0. GenerationCounted' /\ queued' \in BOOLEAN
  <2>1. UNCHANGED <<plat, edits>>
    BY DEF Start, Progress, GenerateFails, SwapFails, ActiveClaims, Check, MoveAside, Swap,
           Build, SetGenerated, Keep, PruneDone, PatchStatus, PruneDir, Fails, Fault, NoFault,
           apiVars, boundVars
  <2>2. queued' \in {queued, TRUE, FALSE}
    BY DEF Start, Progress, GenerateFails, SwapFails, ActiveClaims, Check, MoveAside, Swap,
           Build, SetGenerated, Keep, PruneDone, PatchStatus, PruneDir, Fails
  <2>3. queued' \in BOOLEAN
    BY <2>2 DEF TypeOK
  <2> QED
    BY <2>1, <2>3 DEF GenerationCounted
<1>2. CASE Start
  <2>1. plat.gen \in Generation /\ plat.spec \in Specs
    BY DEF TypeOK, Object
  <2>2. [id EXCEPT !.gen = plat.gen] \in Identity /\ [pkg EXCEPT !.spec = plat.spec] \in Package
    BY <2>1 DEF TypeOK, Identity, Package
  <2>3. TypeOK'
    BY <1>0, <1>2, <2>2 DEF Start, TypeOK, Steps, apiVars, boundVars
  <2>4. KeepSound'
    BY <1>2 DEF Start, KeepSound
  <2> QED
    BY <1>0, <1>1, <2>3, <2>4
<1>3. CASE ActiveClaims
  <2>1. NewPackageIdentity(id.gen, active) \in Identity
        /\ [pkg EXCEPT !.claims = active] \in Package
    BY DEF TypeOK, Identity, Package, NewPackageIdentity
  <2>2. TypeOK'
    BY <1>0, <1>3, <2>1 DEF ActiveClaims, Fails, TypeOK, Steps, apiVars, storeVars, boundVars, Fault, NoFault
  <2>3. KeepSound'
    BY <1>3 DEF ActiveClaims, Fails, KeepSound
  <2> QED
    BY <1>0, <1>1, <2>2, <2>3
<1>4. CASE Check
  <2>1. TypeOK'
    BY <1>0, <1>4 DEF Check, TypeOK, Steps, apiVars, storeVars, boundVars, Fault, NoFault
  <2>2. KeepSound'
    BY <1>4 DEF Check, KeepSound
  <2> QED
    BY <1>0, <1>1, <2>1, <2>2
<1>5. CASE GenerateFails
  <2>1. TypeOK'
    BY <1>0, <1>5 DEF GenerateFails, Fails, TypeOK, Steps, apiVars, storeVars, Fault
  <2>2. KeepSound'
    BY <1>5 DEF GenerateFails, Fails, KeepSound
  <2> QED
    BY <1>0, <1>1, <2>1, <2>2
<1>6. CASE MoveAside
  <2>1. TypeOK'
    BY <1>0, <1>6 DEF MoveAside, TypeOK, Steps, apiVars, storeVars, boundVars, Holding
  <2>2. KeepSound'
    BY <1>6 DEF MoveAside, KeepSound
  <2> QED
    BY <1>0, <1>1, <2>1, <2>2
<1>7. CASE Swap
  <2>1. TypeOK'
    BY <1>0, <1>7 DEF Swap, TypeOK, Steps, apiVars, storeVars, boundVars
  <2>2. KeepSound'
    BY <1>7 DEF Swap, KeepSound
  <2> QED
    BY <1>0, <1>1, <2>1, <2>2
<1>8. CASE SwapFails
  <2>1. TypeOK'
    BY <1>0, <1>8 DEF SwapFails, Fails, TypeOK, Steps, apiVars, storeVars, Fault
  <2>2. KeepSound'
    BY <1>8 DEF SwapFails, Fails, KeepSound
  <2> QED
    BY <1>0, <1>1, <2>1, <2>2
<1>9. CASE Build
  <2>1. TypeOK'
    BY <1>0, <1>9 DEF Build, Fails, TypeOK, Steps, apiVars, storeVars, boundVars, Fault, NoFault
  <2>2. KeepSound'
    BY <1>9 DEF Build, Fails, KeepSound
  <2> QED
    BY <1>0, <1>1, <2>1, <2>2
<1>10. CASE SetGenerated
  <2>1. [id |-> id, pkg |-> pkg] \in Record
    BY DEF TypeOK, Record
  <2>2. TypeOK'
    BY <1>0, <1>10, <2>1 DEF SetGenerated, TypeOK, Steps, apiVars, runVars, boundVars
  <2>3. KeepSound'
    <3>1. [id |-> id, pkg |-> pkg] # None
      BY <2>1, StoreAssumption
    <3> QED
      BY <1>10, <3>1 DEF SetGenerated, KeepSound, runVars
  <2> QED
    BY <1>0, <1>1, <2>2, <2>3
<1>11. CASE Keep
  <2>1. TypeOK'
    BY <1>0, <1>11 DEF Keep, KeepSet, Leased, TypeOK, Steps, apiVars, storeVars, boundVars
  <2>2. KeepSound'
    BY <1>11 DEF Keep, KeepSet, KeepSound, Leased, storeVars
  <2> QED
    BY <1>0, <1>1, <2>1, <2>2
<1>12. CASE PruneDone
  <2>1. TypeOK'
    BY <1>0, <1>12 DEF PruneDone, TypeOK, Steps, apiVars, storeVars, boundVars, Fault, NoFault
  <2>2. KeepSound'
    BY <1>12 DEF PruneDone, KeepSound
  <2> QED
    BY <1>0, <1>1, <2>1, <2>2
<1>13. CASE PatchStatus
  <2>1. TypeOK'
    BY <1>0, <1>13 DEF PatchStatus, TypeOK, Steps, storeVars, runVars, boundVars, Fault, NoFault
  <2>2. KeepSound'
    BY <1>13 DEF PatchStatus, KeepSound
  <2> QED
    BY <1>0, <1>1, <2>1, <2>2
<1>14. ASSUME NEW i \in Identity, PruneDir(i)
       PROVE  LeaseInv'
  <2>1. TypeOK'
    BY <1>0, <1>14 DEF PruneDir, TypeOK, apiVars, storeVars, runVars, boundVars, Holding
  <2>2. KeepSound'
    BY <1>14 DEF PruneDir, KeepSound, Leased, storeVars, runVars
  <2> QED
    BY <1>0, <1>1, <2>1, <2>2
<1> QED
  BY <1>2, <1>3, <1>4, <1>5, <1>6, <1>7, <1>8, <1>9, <1>10, <1>11, <1>12, <1>13, <1>14
  DEF Progress

(* A restart, and what users and the claim reconciler do.                  *)
LEMMA EnvironmentPreserves ==
  ASSUME LeaseInv, Restart \/ EditSpec \/ EditClaims \/ DeletePlatform \/ CreatePlatform
  PROVE  LeaseInv'
<1> USE DEF LeaseInv
<1>1. CASE Restart
  <2>1. TypeOK'
    BY <1>1 DEF Restart, TypeOK, Steps, Empty, apiVars, Fault
  <2>2. LeasesCounted'
    <3> SUFFICES ASSUME NEW i \in Identity PROVE leases'[i] = Cardinality(Holding(i)')
      BY DEF LeasesCounted
    <3>1. Holding(i)' = {}
      BY <1>1, StoreAssumption DEF Restart, Holding
    <3> QED
      BY <1>1, <3>1, FS_EmptySet DEF Restart
  <2>3. KeepSound'
    BY <1>1 DEF Restart, KeepSound
  <2>4. GenerationCounted'
    BY <1>1 DEF Restart, Fault, GenerationCounted, apiVars
  <2> QED
    BY <2>1, <2>2, <2>3, <2>4
<1>2. CASE EditSpec \/ EditClaims \/ DeletePlatform \/ CreatePlatform
  <2>1. runUnchanged
    BY <1>2 DEF EditSpec, EditClaims, DeletePlatform, CreatePlatform
  <2>2. LeasesCounted'
    BY <2>1, CountsKept DEF runUnchanged, storeVars
  <2>3. KeepSound'
    BY <2>1 DEF runUnchanged, storeVars, runVars, KeepSound, Leased
  <2>4. plat' \in Object /\ GenerationCounted' /\ edits' \in Nat
    <3>1. plat \in Object /\ plat.gen \in Nat /\ plat.gen >= 1 /\ edits \in Nat
          /\ plat.gen <= edits + 1
      BY StoreAssumption DEF TypeOK, Object, Generation, GenerationCounted
    <3>2. CASE EditSpec
      <4>1. edits < MaxEdits /\ edits' = edits + 1
        BY <3>2, Zenon DEF EditSpec
      <4>2. PICK s \in Specs : plat' = [plat EXCEPT !.spec = s, !.gen = plat.gen + 1]
        BY <3>2, Zenon DEF EditSpec
      <4>3. plat.gen + 1 \in Generation
        BY <3>1, <4>1, StoreAssumption DEF Generation
      <4>4. plat' \in Object /\ plat'.gen = plat.gen + 1
        BY <3>1, <4>2, <4>3 DEF Object
      <4> QED
        BY <3>1, <4>1, <4>4 DEF GenerationCounted
    <3>3. CASE EditClaims
      <4>1. edits' = edits + 1 /\ plat' = plat
        BY <3>3, Zenon DEF EditClaims
      <4> QED
        BY <3>1, <4>1 DEF GenerationCounted
    <3>4. CASE DeletePlatform
      <4>1. edits' = edits /\ plat' = [plat EXCEPT !.exists = FALSE]
        BY <3>4, Zenon DEF DeletePlatform
      <4>2. plat' \in Object /\ plat'.gen = plat.gen
        BY <3>1, <4>1 DEF Object
      <4> QED
        BY <3>1, <4>1, <4>2 DEF GenerationCounted
    <3>5. CASE CreatePlatform
      <4>1. edits' = edits
        BY <3>5, Zenon DEF CreatePlatform
      <4>2. PICK s \in Specs : plat' = [exists |-> TRUE, gen |-> 1, spec |-> s]
        BY <3>5, Zenon DEF CreatePlatform
      <4>3. plat' \in Object /\ plat'.gen = 1
        BY <4>2, StoreAssumption DEF Object, Generation
      <4> QED
        BY <3>1, <4>1, <4>3 DEF GenerationCounted
    <3> QED
      BY <1>2, <3>2, <3>3, <3>4, <3>5
  <2>5. TypeOK'
    <3>1. active' = active \/ active' \in (SUBSET Coords) \ {active}
      BY <1>2, Zenon DEF EditSpec, EditClaims, DeletePlatform, CreatePlatform
    <3>2. ready' = ready \/ ready' = "Unknown"
      BY <1>2, Zenon DEF EditSpec, EditClaims, DeletePlatform, CreatePlatform
    <3>3. recreates' = recreates \/ recreates' = recreates + 1
      BY <1>2, Zenon DEF EditSpec, EditClaims, DeletePlatform, CreatePlatform
    <3>4. queued' \in BOOLEAN
      BY <1>2, Zenon DEF EditSpec, EditClaims, DeletePlatform, CreatePlatform
    <3> QED
      BY <2>1, <2>4, <3>1, <3>2, <3>3, <3>4 DEF runUnchanged, TypeOK, storeVars, runVars
  <2> QED
    BY <2>2, <2>3, <2>4, <2>5
<1> QED
  BY <1>1, <1>2

(* Every step keeps the invariant of the store.                            *)
LEMMA StepPreserves ==
  ASSUME LeaseInv, [Next]_vars
  PROVE  LeaseInv'
<1>1. CASE UNCHANGED vars
  BY <1>1 DEF LeaseInv, vars, TypeOK, LeasesCounted, KeepSound, GenerationCounted, Holding, Leased,
     apiVars, storeVars, runVars, boundVars
<1> QED
  BY <1>1, RenderPreserves, ReconcilePreserves, EnvironmentPreserves DEF Next

(* The lease counts are the renders in flight, and during a prune          *)
(* everything that is leased or on offer is in the keep set (the order of  *)
(* SetGenerated, Leased and Prune in the Platform reconcile).              *)
THEOREM LeaseSafety == Spec => []LeaseInv
BY InitLeaseInv, StepPreserves, PTL DEF Spec

(* The prune never removes a directory a render leased, nor the one the    *)
(* store offers (Layout.Prune with the keep set of the reconcile).         *)
THEOREM PruneSafety == Spec => PruneSparesLeased
<1>1. ASSUME LeaseInv, [Next]_vars
      PROVE  [pc = "prune" /\ pc' = "prune" =>
               \A i \in Identity :
                 Holding(i) # {} \/ (generated # None /\ generated.id = i) =>
                   dirs'[i] = dirs[i]]_vars
  <2> SUFFICES ASSUME pc = "prune", pc' = "prune", NEW i \in Identity,
                      Holding(i) # {} \/ (generated # None /\ generated.id = i)
               PROVE  dirs'[i] = dirs[i]
    OBVIOUS
  <2>1. i \in keep
    <3>1. Holding(i) # {} => leases[i] > 0
      <4>1. leases[i] = Cardinality(Holding(i))
        BY <1>1 DEF LeaseInv, LeasesCounted
      <4> QED
        BY <4>1, HoldingFinite, FS_EmptySet
    <3> QED
      BY <1>1, <3>1 DEF LeaseInv, KeepSound, Leased
  <2>2. UNCHANGED dirs \/ \E j \in Identity : PruneDir(j)
    BY <1>1 DEF Next, Start, Progress, GenerateFails, SwapFails, ActiveClaims, Check, MoveAside,
       Swap, Build, SetGenerated, Keep, PruneDone, PatchStatus, Fails, Restart, Lease, Release,
       EditSpec, EditClaims, DeletePlatform, CreatePlatform, runUnchanged, vars
  <2> QED
    BY <1>1, <2>1, <2>2 DEF PruneDir, LeaseInv, TypeOK
<1> QED
  BY <1>1, LeaseSafety, PTL DEF Spec, PruneSparesLeased

-----------------------------------------------------------------------------
(***************************************************************************)
(* What the store and the disk hold                                        *)
(***************************************************************************)
(* No step stores a package that did not pass the gate.                    *)
LEMMA GatedStep ==
  ASSUME LeaseInv, Gated, [Next]_vars
  PROVE  Gated'
<1>1. CASE SetGenerated
  BY <1>1 DEF SetGenerated, Gated
<1>2. CASE Build
  BY <1>2 DEF Build, Fails, inventoryRefusal, Gated, storeVars
<1>3. CASE Start \/ Restart
  BY <1>3 DEF Start, Restart, Gated
<1>4. CASE ActiveClaims \/ Check \/ MoveAside \/ Swap \/ Keep \/ PruneDone \/ PatchStatus
           \/ GenerateFails \/ SwapFails
  BY <1>4 DEF ActiveClaims, Check, MoveAside, Swap, Keep, PruneDone, PatchStatus, GenerateFails,
     SwapFails, Fails, storeVars, Gated
<1>5. CASE \/ \E r \in Renders : Lease(r) \/ Release(r)
           \/ \E i \in Identity : PruneDir(i)
           \/ UNCHANGED vars
  BY <1>5 DEF Lease, Release, PruneDir, vars, runVars, storeVars, Gated
<1>6. CASE EditSpec \/ EditClaims \/ DeletePlatform \/ CreatePlatform
  BY <1>6 DEF EditSpec, EditClaims, DeletePlatform, CreatePlatform, runUnchanged, runVars, storeVars,
     Gated
<1> QED
  BY <1>1, <1>2, <1>3, <1>4, <1>5, <1>6 DEF Next, Progress

(* The steps of the reconcile and of the renders keep the names: the       *)
(* object is the same, and so is the spec of each generation.              *)
LEMMA NamesKept ==
  ASSUME LeaseInv, NEW spec \in [Generation -> Specs], Names(spec),
         \/ Start \/ Progress \/ GenerateFails \/ SwapFails \/ Restart
         \/ \E r \in Renders : Lease(r) \/ Release(r)
  PROVE  Names(spec)'
<1> USE DEF LeaseInv
<1>t. /\ dirs \in [Identity -> Package \cup {None}] /\ id \in Identity /\ pkg \in Package
      /\ plat \in Object /\ None \notin Package
  BY StoreAssumption DEF TypeOK
<1>1. CASE Start
  <2>1. /\ plat.gen \in Nat /\ plat' = plat /\ dirs' = dirs
        /\ generated' \in {None, generated} /\ pc = "idle"
    BY <1>1, <1>t, StoreAssumption DEF Start, apiVars, Object, Generation
  <2>2. \/ pc' = "idle"
        \/ pc' = "claims" /\ id'.gen = plat.gen /\ pkg'.spec = plat.spec
    BY <1>1, <1>t DEF Start, Identity, Package
  <2> QED
    BY <2>1, <2>2 DEF Names
<1>2. CASE ActiveClaims
  <2>1. plat' = plat /\ dirs' = dirs /\ generated' = generated /\ pc = "claims"
    BY <1>2 DEF ActiveClaims, Fails, apiVars, storeVars
  <2>2. \/ pc' = "idle"
        \/ pc' \in {"patch", "check"} /\ id' = [gen |-> id.gen, claims |-> active]
           /\ pkg' = [pkg EXCEPT !.claims = active]
    BY <1>2 DEF ActiveClaims, Fails, NewPackageIdentity
  <2> QED
    BY <1>t, <2>1, <2>2 DEF Names, NamedBy, Package
<1>3. CASE MoveAside
  BY <1>3, <1>t DEF MoveAside, Names, apiVars, storeVars
<1>4. CASE Swap
  BY <1>4, <1>t DEF Swap, Names, apiVars, storeVars
<1>5. CASE SwapFails
  <2>1. plat' = plat /\ generated' = generated /\ id' = id /\ pkg' = pkg /\ pc = "swap" /\ pc' = "patch"
    BY <1>5 DEF SwapFails, Fails, apiVars, storeVars
  <2>2. dirs' = [dirs EXCEPT ![id] = aside] \/ dirs' = dirs
    BY <1>5 DEF SwapFails
  <2> QED
    BY <1>t, <2>1, <2>2 DEF Names
<1>6. CASE SetGenerated
  BY <1>6, <1>t DEF SetGenerated, Names, apiVars, runVars
<1>7. CASE Check \/ GenerateFails \/ Build \/ Keep \/ PruneDone \/ PatchStatus
  <2>1. /\ plat' = plat /\ dirs' = dirs /\ generated' = generated /\ id' = id /\ pkg' = pkg
        /\ pc \notin {"idle", "claims"} /\ pc' # "swap"
    BY <1>7 DEF Check, GenerateFails, Build, Keep, PruneDone, PatchStatus, Fails, apiVars, storeVars,
       runVars
  <2> QED
    BY <2>1 DEF Names
<1>8. CASE \E i \in Identity : PruneDir(i)
  BY <1>8, <1>t DEF PruneDir, Names, apiVars, storeVars, runVars
<1>9. CASE Restart
  BY <1>9 DEF Restart, Empty, Names, apiVars
<1>10. CASE \E r \in Renders : Lease(r) \/ Release(r)
  BY <1>10 DEF Lease, Release, Names, apiVars, runVars
<1> QED
  BY <1>1, <1>2, <1>3, <1>4, <1>5, <1>6, <1>7, <1>8, <1>9, <1>10 DEF Progress

(* An edit gives the next generation its spec; a Platform that is created  *)
(* for the first time finds nothing that is named.                         *)
LEMMA NamedStep ==
  ASSUME LeaseInv, NamedByGeneration, [Next]_vars
  PROVE  NamedByGeneration'
<1> SUFFICES ASSUME recreates' = 0
             PROVE  /\ ~plat'.exists => pc' = "idle" /\ generated' = None /\ dirs' = Empty
                    /\ \E spec \in [Generation -> Specs] : Names(spec)'
  BY DEF NamedByGeneration, Empty
<1> USE DEF LeaseInv
<1>t. /\ dirs \in [Identity -> Package \cup {None}] /\ id \in Identity /\ pkg \in Package
      /\ plat \in Object /\ generated \in Record \cup {None} /\ recreates \in Nat
      /\ plat.gen \in Generation
  BY DEF TypeOK, Object
<1>0. recreates = 0
  <2>1. recreates' = recreates \/ recreates' = recreates + 1
    BY Zenon DEF Next, Start, Progress, GenerateFails, SwapFails, Restart, ActiveClaims, Check, MoveAside,
     Swap, Build, SetGenerated, Keep, PruneDone, PatchStatus, PruneDir, Lease, Release, EditSpec,
     EditClaims, DeletePlatform, CreatePlatform, Fault, NoFault, boundVars, vars
  <2> QED
    BY <1>t, <2>1
<1>1. PICK spec \in [Generation -> Specs] : Names(spec)
  BY <1>0 DEF NamedByGeneration
<1>2. ~plat.exists => pc = "idle" /\ generated = None /\ dirs = Empty
  BY <1>0 DEF NamedByGeneration
<1>3. CASE \/ Start \/ Progress \/ GenerateFails \/ SwapFails \/ Restart
           \/ \E r \in Renders : Lease(r) \/ Release(r)
  <2>1. Names(spec)'
    BY <1>1, <1>3, NamesKept
  <2>2. ~plat'.exists => pc' = "idle" /\ generated' = None /\ dirs' = Empty
    BY <1>2, <1>3 DEF Start, Progress, GenerateFails, SwapFails, Restart, ActiveClaims, Check, MoveAside,
       Swap, Build, SetGenerated, Keep, PruneDone, PatchStatus, PruneDir, Lease, Release, Fails,
       apiVars, storeVars
  <2> QED
    BY <2>1, <2>2
<1>4. CASE EditSpec
  <2>1. PICK s \in Specs : plat' = [plat EXCEPT !.spec = s, !.gen = plat.gen + 1]
    BY <1>4, Zenon DEF EditSpec
  <2>2. plat.gen \in Nat /\ plat.gen + 1 \in Generation
    <3>1. edits < MaxEdits
      BY <1>4, Zenon DEF EditSpec
    <3> QED
      BY <1>t, <3>1, StoreAssumption DEF Generation, GenerationCounted, TypeOK
  <2>3. plat'.spec = s /\ plat'.gen = plat.gen + 1
    BY <1>t, <2>1 DEF Object
  <2>4. UNCHANGED <<dirs, generated, pc, id, pkg, aside>> /\ plat.exists
    BY <1>4, Zenon DEF EditSpec, runUnchanged, storeVars, runVars
  <2>e. plat'.exists = plat.exists
    BY <1>t, <2>1, Zenon DEF Object
  <2>5. PICK next \in [Generation -> Specs] : next = [spec EXCEPT ![plat.gen + 1] = s]
    OBVIOUS
  <2>6. next[plat.gen + 1] = s /\ \A g \in Generation : g <= plat.gen => next[g] = spec[g]
    BY <2>2, <2>5, StoreAssumption DEF Generation
  <2>7. \A i \in Identity : i.gen \in Generation /\ i.gen \in Nat
    BY StoreAssumption DEF Identity, Generation
  <2>8. \A i \in Identity : i.gen <= plat.gen => NamedBy(next, i) = NamedBy(spec, i)
                                                 /\ i.gen <= plat.gen + 1
    BY <2>2, <2>6, <2>7 DEF NamedBy
  <2>9. generated # None => generated.id \in Identity
    BY <1>t DEF Record
  <2>10. Names(next)'
    BY <1>1, <1>t, <2>3, <2>4, <2>6, <2>7, <2>8, <2>9 DEF Names
  <2> QED
    BY <2>e, <2>4, <2>5, <2>10
<1>5. CASE EditClaims \/ UNCHANGED vars
  <2>1. UNCHANGED <<plat, dirs, generated, pc, id, pkg, aside>>
    BY <1>5 DEF EditClaims, runUnchanged, storeVars, runVars, apiVars, vars
  <2>2. Names(spec)'
    BY <1>1, <2>1 DEF Names
  <2> QED
    BY <1>2, <2>1, <2>2
<1>6. CASE DeletePlatform
  BY <1>0, <1>6 DEF DeletePlatform
<1>7. CASE CreatePlatform
  <2>1. PICK s \in Specs : plat' = [exists |-> TRUE, gen |-> 1, spec |-> s]
    BY <1>7, Zenon DEF CreatePlatform
  <2>2. UNCHANGED <<dirs, generated, pc>> /\ ~plat.exists
    BY <1>7 DEF CreatePlatform, runUnchanged, storeVars
  <2>3. plat'.exists /\ plat'.gen = 1 /\ plat'.spec = s /\ 1 \in Generation
    BY <2>1, StoreAssumption DEF Generation
  <2> DEFINE first == [g \in Generation |-> s]
  <2>4. first \in [Generation -> Specs] /\ first[1] = s
    BY <2>3
  <2> HIDE DEF first
  <2>5. Names(first)'
    BY <1>2, <2>2, <2>3, <2>4 DEF Names, Empty
  <2> QED
    BY <2>3, <2>4, <2>5
<1> QED
  BY <1>3, <1>4, <1>5, <1>6, <1>7 DEF Next

(* The store holds what its identities name (SetGenerated, HeldIsCurrent   *)
(* and Layout.Write), and its leases are counted.                          *)
THEOREM StoreSafety == Spec => []StoreInv
<1>1. Init => Gated /\ NamedByGeneration
  <2> SUFFICES ASSUME Init PROVE Gated /\ NamedByGeneration
    OBVIOUS
  <2>1. plat.gen = 1 /\ plat.spec \in Specs /\ 1 \in Generation
    BY StoreAssumption DEF Init, Generation
  <2> DEFINE first == [g \in Generation |-> plat.spec]
  <2>2. first \in [Generation -> Specs] /\ first[plat.gen] = plat.spec
    BY <2>1
  <2> HIDE DEF first
  <2>3. Names(first)
    BY <2>2 DEF Names, Init, Empty
  <2> QED
    BY <2>2, <2>3 DEF Init, Gated, NamedByGeneration
<1>2. ASSUME StoreInv, [Next]_vars
      PROVE  StoreInv'
  BY <1>2, StepPreserves, GatedStep, NamedStep DEF StoreInv
<1> QED
  BY <1>1, <1>2, InitLeaseInv, PTL DEF Spec, StoreInv

(* Renders are only ever given a package that passed the build and the     *)
(* inventory gate, and its directory holds it or nothing.                  *)
THEOREM RecordSafety == Spec => []RecordSound
<1>1. StoreInv => RecordSound
  <2> SUFFICES ASSUME StoreInv, generated # None
               PROVE  /\ generated.pkg \notin Unbuildable
                      /\ recreates = 0 => dirs[generated.id] \in {generated.pkg, None}
    BY DEF RecordSound
  <2>1. generated.id \in Identity
    BY DEF StoreInv, LeaseInv, TypeOK, Record
  <2> QED
    BY <2>1 DEF StoreInv, Gated, NamedByGeneration, Names
<1> QED
  BY <1>1, StoreSafety, PTL

(* A reconcile of one and the same Platform object that reports Ready      *)
(* holds the package its spec and the claims it read imply, also when it   *)
(* skipped the generation (HeldIsCurrent compares identities only).        *)
THEOREM ReadySafety == Spec => ReadyHoldsCurrent
<1>1. ASSUME StoreInv, [Next]_vars
      PROVE  [ReportsReady /\ recreates = 0 => generated # None /\ generated.pkg = pkg]_vars
  <2> SUFFICES ASSUME ReportsReady, recreates = 0
               PROVE  generated # None /\ generated.pkg = pkg
    OBVIOUS
  <2>1. (Check /\ HeldIsCurrent) \/ PruneDone
    BY <1>1 DEF ReportsReady, Next, Start, Progress, GenerateFails, SwapFails, Restart, ActiveClaims,
       Check, MoveAside, Swap, Build, SetGenerated, Keep, PatchStatus, PruneDir, Fails, Lease,
       Release, EditSpec, EditClaims, DeletePlatform, CreatePlatform, runUnchanged, vars
  <2>2. generated # None /\ generated.id = id /\ pc \in {"check", "prune"}
    BY <1>1, <2>1 DEF Check, HeldIsCurrent, PruneDone, StoreInv, LeaseInv, KeepSound
  <2> QED
    BY <1>1, <2>2 DEF StoreInv, NamedByGeneration, Names
<1> QED
  BY <1>1, StoreSafety, PTL DEF Spec, ReadyHoldsCurrent
=============================================================================
