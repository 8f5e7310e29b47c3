---------------------------- MODULE PlatformStore ----------------------------
(***************************************************************************)
(* The platform module the controller generates from the Platform singleton*)
(* and the active transformer claims: the reconcile that writes and builds *)
(* it (internal/controller/platform_controller.go), the directories on     *)
(* disk (internal/platform/layout.go), and the store renders lease it from *)
(* (internal/platform/store.go).                                           *)
(*                                                                         *)
(* A package is what it is generated from: the spec and the claims.  Its   *)
(* identity names the spec by the generation of the object.                *)
(***************************************************************************)
EXTENDS Naturals, FiniteSets

CONSTANTS
    Renders,       \* the renders that may be in flight
    Specs,         \* the specs a user may store
    Coords,        \* catalog coordinates of the claims
    Unversioned,   \* the specs with a subscription that names no version
    Unbuildable,   \* the packages whose build or contract inventory is refused
    None,          \* no package, no record, no render
    MaxEdits,      \* bound on edits of the spec and changes of the claims
    MaxRecreates,  \* bound on deletions of the Platform
    MaxFaults      \* bound on failed calls and restarts

Package == [spec: Specs, claims: SUBSET Coords]
Generation == 1 .. MaxEdits + 1
Identity == [gen: Generation, claims: SUBSET Coords]
Record == [id: Identity, pkg: Package]

ASSUME StoreAssumption ==
    /\ IsFiniteSet(Renders)
    /\ Specs # {} /\ Unversioned \subseteq Specs /\ Unbuildable \subseteq Package
    /\ None \notin Package \cup Identity \cup Record
    /\ MaxEdits \in Nat /\ MaxRecreates \in Nat /\ MaxFaults \in Nat

VARIABLES
    plat,       \* the Platform object
    active,     \* the coordinates of the claims that are accepted and active
    ready,      \* its Ready condition
    queued,     \* the workqueue holds the singleton
    generated,  \* the store's record
    leases,     \* the store's lease counts
    dirs,       \* per identity, the package its directory holds
    render,     \* per render, the identity it leased
    moved,      \* the renders whose directory was moved or removed meanwhile
    \* the running reconcile
    pc, id, pkg, aside, keep, mark,
    \* bounds
    edits, recreates, faults

apiVars == <<plat, active, ready>>
storeVars == <<generated, leases>>
runVars == <<id, pkg, aside, keep, mark>>
boundVars == <<edits, recreates, faults>>
vars == <<apiVars, queued, storeVars, dirs, render, moved, pc, runVars, boundVars>>

Object == [exists: BOOLEAN, gen: Generation, spec: Specs]
Steps == {"idle", "claims", "check", "generate", "swap", "build", "set",
          "keep", "prune", "patch"}

FirstId == [gen |-> 1, claims |-> {}]
FirstPkg == [spec |-> CHOOSE s \in Specs : TRUE, claims |-> {}]
Empty == [i \in Identity |-> None]

(* A manager that has just started: NewStore, and a platform directory     *)
(* that Layout.Reset emptied.                                              *)
Init ==
    /\ plat \in [exists: BOOLEAN, gen: {1}, spec: Specs] /\ active = {}
    /\ ready = "Unknown" /\ queued = TRUE
    /\ generated = None /\ leases = [i \in Identity |-> 0]
    /\ dirs = Empty /\ render = [r \in Renders |-> None] /\ moved = {}
    /\ pc = "idle" /\ id = FirstId /\ pkg = FirstPkg /\ aside = None /\ keep = {}
    /\ mark = "Unknown"
    /\ edits = 0 /\ recreates = 0 /\ faults = 0

Fault == faults < MaxFaults /\ faults' = faults + 1 /\ UNCHANGED <<edits, recreates>>
NoFault == UNCHANGED boundVars
-----------------------------------------------------------------------------
(***************************************************************************)
(* The store (internal/platform/store.go)                                  *)
(***************************************************************************)
Lease(r) ==
    /\ render[r] = None /\ generated # None
    /\ render' = [render EXCEPT ![r] = generated.id]
    /\ leases' = [leases EXCEPT ![generated.id] = @ + 1]
    /\ UNCHANGED <<apiVars, queued, generated, dirs, moved, pc, runVars, boundVars>>

(* Mutant: the first release of an identity drops all its leases.          *)
ReleasedAll(i) == 0

Released(i) == IF leases[i] <= 1 THEN 0 ELSE leases[i] - 1

(* The render is over, whether it succeeded, failed or was left behind.    *)
Release(r) ==
    /\ render[r] # None
    /\ leases' = [leases EXCEPT ![render[r]] = Released(render[r])]
    /\ render' = [render EXCEPT ![r] = None]
    /\ moved' = moved \ {r}
    /\ UNCHANGED <<apiVars, queued, generated, dirs, pc, runVars, boundVars>>

Leased == {i \in Identity : leases[i] > 0}

Holding(i) == {r \in Renders : render[r] = i}
-----------------------------------------------------------------------------
(***************************************************************************)
(* The reconcile of the Platform                                           *)
(***************************************************************************)
(* Mutant: the identity is the generation alone.                           *)
NewPackageIdentityGen(gen, claims) == [gen |-> gen, claims |-> {}]

NewPackageIdentity(gen, claims) == [gen |-> gen, claims |-> claims]

(* Get.  A Platform that is gone or being deleted clears the store.        *)
Start ==
    /\ pc = "idle" /\ queued
    /\ queued' = FALSE
    /\ \/ /\ ~plat.exists
          /\ generated' = None /\ UNCHANGED <<pc, id, pkg>>
       \/ /\ plat.exists
          /\ id' = [id EXCEPT !.gen = plat.gen] /\ pkg' = [pkg EXCEPT !.spec = plat.spec]
          /\ pc' = "claims" /\ UNCHANGED generated
    /\ UNCHANGED <<apiVars, leases, dirs, render, moved, aside, keep, mark, boundVars>>

(* failReconcile: the record stays, and the object is queued again.        *)
Fails ==
    /\ pc' = "patch" /\ mark' = "False" /\ queued' = TRUE
    /\ UNCHANGED <<apiVars, storeVars, render, aside, keep>>

(* activeClaims, claimCoordinates, platformEntries.  A failed list returns *)
(* the error, and the object is queued again; a subscription without a     *)
(* version fails the reconcile.                                            *)
ActiveClaims ==
    /\ pc = "claims"
    /\ \/ /\ id' = NewPackageIdentity(id.gen, active) /\ pkg' = [pkg EXCEPT !.claims = active]
          /\ \/ pkg.spec \in Unversioned /\ Fails
             \/ /\ pkg.spec \notin Unversioned /\ pc' = "check"
                /\ UNCHANGED <<apiVars, queued, storeVars, render, aside, keep, mark>>
          /\ NoFault
       \/ /\ Fault /\ pc' = "idle" /\ queued' = TRUE
          /\ UNCHANGED <<apiVars, storeVars, render, id, pkg, aside, keep, mark>>
    /\ UNCHANGED <<dirs, moved>>

HeldIsCurrent ==
    generated # None /\ generated.id = id /\ dirs[generated.id] # None

(* The package is current: nothing is generated.  A record whose contract  *)
(* inventory is unreadable is generated again.                             *)
Check ==
    /\ pc = "check"
    /\ \/ HeldIsCurrent /\ pc' = "patch" /\ mark' = "True" /\ NoFault
       \/ HeldIsCurrent /\ Fault /\ pc' = "generate" /\ UNCHANGED mark
       \/ ~HeldIsCurrent /\ pc' = "generate" /\ NoFault /\ UNCHANGED mark
    /\ UNCHANGED <<apiVars, queued, storeVars, dirs, render, moved, id, pkg, aside, keep>>

(* The closure, the generator or the staging directory failed.             *)
GenerateFails ==
    /\ pc = "generate" /\ Fault /\ Fails /\ UNCHANGED <<id, pkg, dirs, moved>>

(* Layout.Write: the files are in the staging directory, and the directory *)
(* of the identity, if there is one, is moved aside.                       *)
MoveAside ==
    /\ pc = "generate"
    /\ aside' = dirs[id]
    /\ dirs' = [dirs EXCEPT ![id] = None]
    /\ moved' = moved \cup Holding(id)
    /\ pc' = "swap"
    /\ UNCHANGED <<apiVars, queued, storeVars, render, id, pkg, keep, mark, boundVars>>

Swap ==
    /\ pc = "swap"
    /\ dirs' = [dirs EXCEPT ![id] = pkg] /\ aside' = None
    /\ pc' = "build"
    /\ UNCHANGED <<apiVars, queued, storeVars, render, moved, id, pkg, keep, mark, boundVars>>

(* The rename failed; the copy that was moved aside is put back, if that   *)
(* succeeds.                                                               *)
SwapFails ==
    /\ pc = "swap" /\ Fault
    /\ \/ dirs' = [dirs EXCEPT ![id] = aside]
       \/ UNCHANGED dirs
    /\ Fails /\ UNCHANGED <<id, pkg, moved>>

(* Mutant: the contract inventory does not gate the record.                *)
inventoryRefusalNever == FALSE

inventoryRefusal == pkg \in Unbuildable

(* AcquirePlatformFromDir, Contracts and inventoryRefusal.                 *)
Build ==
    /\ pc = "build"
    /\ \/ ~inventoryRefusal /\ pc' = "set" /\ NoFault
          /\ UNCHANGED <<apiVars, queued, storeVars, render, aside, keep, mark>>
       \/ inventoryRefusal /\ Fails /\ NoFault
       \/ Fault /\ Fails
    /\ UNCHANGED <<id, pkg, dirs, moved>>

SetGenerated ==
    /\ pc = "set"
    /\ generated' = [id |-> id, pkg |-> pkg]
    /\ pc' = "keep"
    /\ UNCHANGED <<apiVars, queued, leases, dirs, render, moved, runVars, boundVars>>

(* Mutant: only the current identity is kept.                              *)
KeepSetCurrent == {id}

KeepSet == {id} \cup Leased

Keep ==
    /\ pc = "keep"
    /\ keep' = KeepSet
    /\ pc' = "prune"
    /\ UNCHANGED <<apiVars, queued, storeVars, dirs, render, moved, id, pkg, aside, mark, boundVars>>

(* Layout.Prune, directory by directory.                                   *)
PruneDir(i) ==
    /\ pc = "prune" /\ i \notin keep /\ dirs[i] # None
    /\ dirs' = [dirs EXCEPT ![i] = None]
    /\ moved' = moved \cup Holding(i)
    /\ UNCHANGED <<apiVars, queued, storeVars, render, pc, runVars, boundVars>>

(* The prune is through, or failed, which is only logged.                  *)
PruneDone ==
    /\ pc = "prune"
    /\ \/ (\A i \in Identity : i \notin keep => dirs[i] = None) /\ NoFault
       \/ Fault
    /\ mark' = "True" /\ pc' = "patch"
    /\ UNCHANGED <<apiVars, queued, storeVars, dirs, render, moved, id, pkg, aside, keep>>

(* patchStatus; its error is returned, and the object is queued again.     *)
PatchStatus ==
    /\ pc = "patch"
    /\ \/ NoFault /\ ready' = mark /\ UNCHANGED queued
       \/ Fault /\ queued' = TRUE /\ UNCHANGED ready
    /\ pc' = "idle"
    /\ UNCHANGED <<plat, active, storeVars, dirs, render, moved, runVars>>

(* The manager restarts: Layout.Reset, an empty store, no render, and the  *)
(* informer's first event.                                                 *)
Restart ==
    /\ Fault
    /\ generated' = None /\ leases' = [i \in Identity |-> 0] /\ dirs' = Empty
    /\ render' = [r \in Renders |-> None] /\ moved' = {}
    /\ pc' = "idle" /\ queued' = TRUE /\ aside' = None
    /\ UNCHANGED <<apiVars, id, pkg, keep, mark>>
-----------------------------------------------------------------------------
(***************************************************************************)
(* Users and the claim reconciler                                          *)
(***************************************************************************)
runUnchanged == UNCHANGED <<storeVars, dirs, render, moved, pc, runVars, faults>>

(* GenerationChangedPredicate.                                             *)
EditSpec ==
    /\ plat.exists /\ edits < MaxEdits /\ edits' = edits + 1
    /\ \E s \in Specs \ {plat.spec} :
         plat' = [plat EXCEPT !.spec = s, !.gen = @ + 1]
    /\ queued' = TRUE
    /\ UNCHANGED <<active, ready, recreates>> /\ runUnchanged

(* Mutant: a claim that stops contributing wakes nothing.                  *)
claimContributionPredicateStarts(was, is) == ~(is \subseteq was)

(* A change of what the claims contribute wakes the reconcile.             *)
claimContributionPredicate(was, is) == was # is

EditClaims ==
    /\ edits < MaxEdits /\ edits' = edits + 1
    /\ active' \in (SUBSET Coords) \ {active}
    /\ queued' = (queued \/ claimContributionPredicate(active, active'))
    /\ UNCHANGED <<plat, ready, recreates>> /\ runUnchanged

DeletePlatform ==
    /\ plat.exists /\ recreates < MaxRecreates /\ recreates' = recreates + 1
    /\ plat' = [plat EXCEPT !.exists = FALSE]
    /\ queued' = TRUE
    /\ UNCHANGED <<active, ready, edits>> /\ runUnchanged

(* A new object starts at generation 1.                                    *)
CreatePlatform ==
    /\ ~plat.exists
    /\ \E s \in Specs : plat' = [exists |-> TRUE, gen |-> 1, spec |-> s]
    /\ ready' = "Unknown" /\ queued' = TRUE
    /\ UNCHANGED <<active, edits, recreates>> /\ runUnchanged
-----------------------------------------------------------------------------
Progress ==
    \/ ActiveClaims \/ Check \/ MoveAside \/ Swap \/ Build \/ SetGenerated \/ Keep
    \/ PruneDone \/ PatchStatus
    \/ \E i \in Identity : PruneDir(i)

Next ==
    \/ Start \/ Progress \/ GenerateFails \/ SwapFails \/ Restart
    \/ \E r \in Renders : Lease(r) \/ Release(r)
    \/ EditSpec \/ EditClaims \/ DeletePlatform \/ CreatePlatform

Spec == Init /\ [][Next]_vars

(***************************************************************************)
(* A queued Platform is reconciled, and a reconcile ends.  Nothing is      *)
(* assumed of renders and users.                                           *)
(***************************************************************************)
FairSpec == Spec /\ WF_vars(Start) /\ WF_vars(Progress)
-----------------------------------------------------------------------------
(***************************************************************************)
(* Properties                                                              *)
(***************************************************************************)
(* Every variable holds a value of its type.                               *)
TypeOK ==
    /\ plat \in Object /\ active \in SUBSET Coords
    /\ ready \in {"True", "False", "Unknown"} /\ queued \in BOOLEAN
    /\ generated \in Record \cup {None} /\ leases \in [Identity -> Nat]
    /\ dirs \in [Identity -> Package \cup {None}]
    /\ render \in [Renders -> Identity \cup {None}] /\ moved \in SUBSET Renders
    /\ pc \in Steps /\ id \in Identity /\ pkg \in Package
    /\ aside \in Package \cup {None} /\ keep \in SUBSET Identity
    /\ mark \in {"True", "False", "Unknown"}
    /\ edits \in Nat /\ recreates \in Nat /\ faults \in Nat

(* The prune never removes a directory that a render leased, nor the one   *)
(* the store offers to the next render: a render that leases between the   *)
(* snapshot of the leases and the removal leases what is kept.             *)
PruneSparesLeased ==
    [][pc = "prune" /\ pc' = "prune" =>
         \A i \in Identity :
           Holding(i) # {} \/ (generated # None /\ generated.id = i) => dirs'[i] = dirs[i]]_vars

(* What renders are given passed the build and the inventory gate, and its *)
(* directory, if it is on disk, holds it: a failed regeneration under the  *)
(* same identity leaves no other package behind the record.  The directory *)
(* is named for a generation, so it needs the generations of one object.   *)
RecordSound ==
    generated # None =>
      /\ generated.pkg \notin Unbuildable
      /\ recreates = 0 => dirs[generated.id] \in {generated.pkg, None}

(* The step ends a reconcile that reports Ready of the held package.       *)
ReportsReady == pc # "patch" /\ pc' = "patch" /\ mark' = "True"

(* A reconcile that reports Ready holds the package that the spec and the  *)
(* claims it read imply: a skipped regeneration would have produced the    *)
(* package that is held.  It needs the same.                               *)
ReadyHoldsCurrent ==
    [][ReportsReady /\ recreates = 0 => generated # None /\ generated.pkg = pkg]_vars

(* Renders are given the package of the stored spec and the active claims, *)
(* unless it cannot be built, and no package when there is no Platform.    *)
Settled ==
    LET want == [spec |-> plat.spec, claims |-> active]
    IN \/ ~plat.exists /\ generated = None
       \/ plat.exists /\ (want \in Unbuildable \/ want.spec \in Unversioned)
       \/ plat.exists /\ ready = "True" /\ generated # None /\ generated.pkg = want

(* Once users and failures leave it alone, the Platform settles, whatever  *)
(* changed or failed during its reconciles (the watches, the queue and the *)
(* retries).  Excepted, as above, is a Platform that was created again.    *)
Converges == <>[](Settled \/ (plat.exists /\ recreates > 0))
-----------------------------------------------------------------------------
(***************************************************************************)
(* The inductive invariant of PruneSparesLeased                            *)
(***************************************************************************)
(* The counts are the renders that hold a lease.                           *)
LeasesCounted == \A i \in Identity : leases[i] = Cardinality(Holding(i))

(* What the store offers and what is leased is kept.                       *)
KeepSound ==
    /\ pc \in {"keep", "prune"} => generated # None /\ generated.id = id
    /\ pc = "prune" => id \in keep /\ Leased \subseteq keep

(* The generation counts the edits of the object.                          *)
GenerationCounted == plat.gen <= edits + 1

LeaseInv == TypeOK /\ LeasesCounted /\ KeepSound /\ GenerationCounted
-----------------------------------------------------------------------------
(***************************************************************************)
(* The inductive invariant of RecordSound and ReadyHoldsCurrent            *)
(***************************************************************************)
(* Only a package that passed the inventory gate is stored.                *)
Gated ==
    /\ pc = "set" => pkg \notin Unbuildable
    /\ generated # None => generated.pkg \notin Unbuildable

(* The package an identity names when spec is the spec of each generation. *)
NamedBy(spec, i) == [spec |-> spec[i.gen], claims |-> i.claims]

(* The record, every directory and the running reconcile hold the package  *)
(* of their identity, of a generation the object had.                      *)
Names(spec) ==
    /\ spec[plat.gen] = plat.spec
    /\ \A i \in Identity :
         dirs[i] # None => i.gen <= plat.gen /\ dirs[i] = NamedBy(spec, i)
    /\ generated # None =>
         generated.id.gen <= plat.gen /\ generated.pkg = NamedBy(spec, generated.id)
    /\ pc # "idle" => id.gen <= plat.gen /\ pkg.spec = spec[id.gen]
    /\ pc \notin {"idle", "claims"} => pkg = NamedBy(spec, id)
    /\ pc = "swap" => aside \in {None, pkg}

(* The generations of one object name its specs.                           *)
NamedByGeneration ==
    recreates = 0 =>
      /\ ~plat.exists => pc = "idle" /\ generated = None /\ dirs = Empty
      /\ \E spec \in [Generation -> Specs] : Names(spec)

(* The leases are counted, and what the store and the disk hold is named   *)
(* by its identity.                                                        *)
StoreInv == LeaseInv /\ Gated /\ NamedByGeneration
=============================================================================
