---------------------------- MODULE ClaimRegistry ----------------------------
(***************************************************************************)
(* The claims of provider modules (TransformerRegistration): the reconcile *)
(* that accepts, activates and releases them                               *)
(* (internal/controller/transformerregistration_*.go), the rule that keeps *)
(* an upgrade from dropping a demanded contract (internal/shrink), and     *)
(* what wakes the reconcile.  One worker judges one claim at a time; every *)
(* read but the shrink rule's goes to the informer caches.                 *)
(*                                                                         *)
(* PlatformStore has the Platform reconcile in detail.  Here it is one     *)
(* step that takes the contributing claims into the held platform.         *)
(***************************************************************************)
EXTENDS Naturals, FiniteSets

CONSTANTS
    Claims,         \* the claims' names: numbers, in the order of the names
    Contracts,      \* the contracts
    Specs,          \* what a claim may say
    Incompatible,   \* the specs whose requirements do not fit the platform
    Removable,      \* the specs whose catalog the registry may lose
    Subscriptions,  \* the enabled entries of the Platform's spec.registry
    Instances,      \* the instances that may demand contracts
    Demands,        \* what an instance may demand
    Providers,      \* what a provider may report
    CacheMayLag,    \* FALSE: the caches follow the API server at once
    None,           \* no claim, no platform
    MaxCreates,     \* bound on the claims ever created
    MaxEdits,       \* bound on edits and deletions of claims
    MaxMoves,       \* bound on changes of providers, demands and the registry
    MaxFaults       \* bound on failed calls and restarts

(* A catalog at a version, the contracts the claim lists and the ones the  *)
(* catalog implements.                                                     *)
SpecSet == [catalog: STRING, version: Nat, provides: SUBSET Contracts, derives: SUBSET Contracts]

(* A provider that reports Ready has written its inventory.                *)
Provider ==
    {p \in [ready: BOOLEAN, inv: {"none", "without", "with"}] : p.ready => p.inv # "none"}

ASSUME RegistryAssumption ==
    /\ Claims \subseteq Nat /\ Incompatible \subseteq Specs /\ Removable \subseteq Specs
    /\ Demands \subseteq SUBSET Contracts /\ Providers \subseteq Provider
    /\ \A s \in Specs : s \in SpecSet
    /\ \A e \in Subscriptions : e.provides \subseteq Contracts
    /\ CacheMayLag \in BOOLEAN
    /\ {MaxCreates, MaxEdits, MaxMoves, MaxFaults} \subseteq Nat

VARIABLES
    claim,       \* the stored claims
    prov,        \* per claim, the ModuleInstance its providerRef names
    demand,      \* per instance, status.requiredContracts
    gone,        \* the specs whose catalog the registry does not hold
    fetched,     \* the specs whose catalog is in the pod's module cache
    claimSeen, provSeen, demandSeen,   \* the informer caches
    queue,       \* the workqueue
    platQueued,  \* the Platform controller's workqueue
    platReady,   \* the Platform's Ready condition
    held,        \* the entries of the platform that the store holds
    \* the running reconcile: its step, its claim as read, its lease, its verdict
    pc, cur, base, plat, new, kind,
    judged,      \* per claim, the object and generation its last verdict is for
    clock, born, \* the second of the last creation, and the claims ever created
    edits, moves, faults

apiVars == <<claim, prov, demand, gone>>
seenVars == <<claimSeen, provSeen, demandSeen>>
platVars == <<platQueued, platReady, held>>
runVars == <<pc, cur, base, plat, new, kind>>
timeVars == <<clock, born>>
boundVars == <<edits, moves, faults>>
vars == <<apiVars, fetched, seenVars, queue, platVars, runVars, judged, timeVars, boundVars>>

Object == [uid: Nat, created: Nat, spec: Specs, gen: Nat, deleting: BOOLEAN,
           fin: BOOLEAN, accepted: BOOLEAN, active: BOOLEAN, obs: Nat]

Steps == {"idle", "acquire", "judge", "patch", "dependents", "release"}
Kinds == {"defer", "hold", "refuse", "accept"}

(* A manager that has just started in a cluster without claims.            *)
Init ==
    /\ claim = [c \in Claims |-> None] /\ claimSeen = claim
    /\ prov \in [Claims -> Providers] /\ provSeen = prov
    /\ demand \in [Instances -> Demands] /\ demandSeen = demand
    /\ gone = {} /\ fetched = {} /\ queue = {}
    /\ platQueued = TRUE /\ platReady = FALSE /\ held = None
    /\ pc = "idle" /\ cur = None /\ base = None /\ plat = None /\ new = None /\ kind = "defer"
    /\ judged = [c \in Claims |-> [uid |-> 0, gen |-> 0]]
    /\ clock = 0 /\ born = 0 /\ edits = 0 /\ moves = 0 /\ faults = 0

Fault == faults < MaxFaults /\ faults' = faults + 1 /\ UNCHANGED <<edits, moves>>
NoFault == UNCHANGED boundVars

Fresh == claimSeen = claim /\ provSeen = prov /\ demandSeen = demand
-----------------------------------------------------------------------------
(***************************************************************************)
(* What is decided from the caches                                         *)
(***************************************************************************)
Overlap(a, b) == a.provides \cap b.provides # {}

(* claimContributesAfterDeletion: the guard's finalizer holds it.          *)
Leaving(obj) == obj # None /\ obj.deleting /\ ~obj.fin

(* claimContribution: whether the claim adds its catalog to the platform.  *)
Contributes(obj) == obj # None /\ obj.accepted /\ obj.active /\ ~Leaving(obj)

(* The other claims that compete: the ones that are not on their way out.  *)
Others(c) == {d \in Claims \ {c} : claimSeen[d] # None /\ ~Leaving(claimSeen[d])}

(* The contracts the claim lists are not the ones its catalog implements.  *)
providesDrift(s) == s.provides # s.derives

(* Whether the provider's inventory has the claim that names it.           *)
checkProviderIdentity(c) ==
    CASE provSeen[c].inv = "none" -> "pending"
      [] provSeen[c].inv = "without" -> "refused"
      [] provSeen[c].inv = "with" -> "ok"

buildIncompatibility(s) == s \in Incompatible

(* An older claim, the lower name on a tie, holds the catalog.             *)
holderOf(c, copy) ==
    \E d \in Others(c) :
      /\ claimSeen[d].spec.catalog = copy.spec.catalog
      /\ \/ claimSeen[d].created < copy.created
         \/ claimSeen[d].created = copy.created /\ d < c

(* Another entry of the leased platform provides one of the contracts.     *)
subscribedContract(copy) ==
    \E e \in plat : Overlap(e, copy.spec) /\ e.catalog # copy.spec.catalog

(* Mutant: a claim whose deletion is blocked does not hold its contracts.  *)
activeContractHolderLeaves(c, copy) ==
    \E d \in Others(c) :
      claimSeen[d].active /\ ~claimSeen[d].deleting /\ Overlap(claimSeen[d].spec, copy.spec)

activeContractHolder(c, copy) ==
    \E d \in Others(c) : claimSeen[d].active /\ Overlap(claimSeen[d].spec, copy.spec)

dependents(copy) == {i \in Instances : demandSeen[i] \cap copy.spec.provides # {}}

(* The acceptance holds for the spec the status was last written for.      *)
verdictStands(copy) == copy.accepted /\ copy.obs = copy.gen
-----------------------------------------------------------------------------
(***************************************************************************)
(* The verdicts: what is to be written on the claim that was read          *)
(***************************************************************************)
Verdict(k, obj) == kind' = k /\ new' = obj /\ pc' = "patch"

deferVerdict(copy) == Verdict("defer", [copy EXCEPT !.obs = copy.gen])

(* An active claim that is refused stays active.                           *)
refuse(copy) == Verdict("refuse", [copy EXCEPT !.obs = copy.gen, !.accepted = FALSE])

(* Only conditions are written.                                            *)
holdVerdict(copy) == Verdict("hold", copy)

(* Active is set once the provider is Ready, and never cleared.            *)
gateActivation(copy) == copy.active \/ provSeen[cur].ready

accept(copy) ==
    Verdict("accept",
      [copy EXCEPT !.obs = copy.gen, !.accepted = TRUE, !.fin = TRUE, !.active = gateActivation(copy)])
-----------------------------------------------------------------------------
(***************************************************************************)
(* The reconcile of a claim                                                *)
(***************************************************************************)
others == UNCHANGED <<seenVars, platVars, timeVars>>

(* The reconcile returns; what it read is dropped.                         *)
Ends ==
    /\ pc' = "idle" /\ kind' = "defer"
    /\ cur' = None /\ base' = None /\ plat' = None /\ new' = None

(* Get, and the lease.  Without a platform the verdict is deferred.        *)
Start(c) ==
    /\ pc = "idle" /\ c \in queue
    /\ queue' = queue \ {c}
    /\ \/ (claimSeen[c] = None \/ Leaving(claimSeen[c])) /\ Ends
       \/ /\ claimSeen[c] # None /\ claimSeen[c].deleting /\ claimSeen[c].fin
          /\ pc' = "dependents" /\ cur' = c /\ base' = claimSeen[c]
          /\ UNCHANGED <<plat, new, kind>>
       \/ /\ claimSeen[c] # None /\ ~claimSeen[c].deleting
          /\ cur' = c /\ base' = claimSeen[c] /\ plat' = held
          /\ \/ held = None /\ deferVerdict(claimSeen[c])
             \/ held # None /\ pc' = "acquire" /\ UNCHANGED <<new, kind>>
    /\ UNCHANGED <<apiVars, fetched, judged>> /\ NoFault /\ others

(* AcquireCatalogFromRegistry and providesDrift.  What the registry has    *)
(* not is refused; when it does not answer, an acceptance stands.          *)
Acquire ==
    /\ pc = "acquire"
    /\ \/ /\ base.spec \in fetched \/ base.spec \notin gone
          /\ fetched' = fetched \cup {base.spec}
          /\ \/ providesDrift(base.spec) /\ refuse(base)
             \/ ~providesDrift(base.spec) /\ pc' = "judge" /\ UNCHANGED <<new, kind>>
          /\ NoFault
       \/ /\ base.spec \in gone \ fetched
          /\ refuse(base) /\ UNCHANGED fetched /\ NoFault
       \/ /\ base.spec \notin fetched /\ Fault
          /\ IF verdictStands(base) THEN holdVerdict(base) ELSE refuse(base)
          /\ UNCHANGED fetched
    /\ UNCHANGED <<apiVars, queue, judged, cur, base, plat>> /\ others

(* Every check between the catalog and the acceptance, in its order.       *)
Refused ==
    \/ buildIncompatibility(base.spec) \/ holderOf(cur, base)
    \/ subscribedContract(base) \/ activeContractHolder(cur, base)

(* checkProviderIdentity, platformRequirements, buildIncompatibility,      *)
(* holderOf, subscribedContract and activeContractHolder.  What cannot be  *)
(* read defers the verdict.                                                *)
Judge ==
    /\ pc = "judge"
    /\ \/ checkProviderIdentity(cur) = "pending" /\ deferVerdict(base) /\ NoFault
       \/ checkProviderIdentity(cur) = "refused" /\ refuse(base) /\ NoFault
       \/ checkProviderIdentity(cur) = "ok" /\ Refused /\ refuse(base) /\ NoFault
       \/ checkProviderIdentity(cur) = "ok" /\ ~Refused /\ accept(base) /\ NoFault
       \/ Fault /\ deferVerdict(base)
    /\ UNCHANGED <<apiVars, fetched, queue, judged, cur, base, plat>> /\ others

(* A merge patch sends what the reconcile changed on the copy it read.     *)
Sent(obj, fields) ==
    [f \in DOMAIN obj |-> IF f \in fields /\ new[f] # base[f] THEN new[f] ELSE obj[f]]

StatusFields == {"accepted", "active", "obs"}

(* patchStatus: the finalizer and the status are two requests.  An error   *)
(* queues the claim again, as the recheck interval does unless the claim   *)
(* was accepted.                                                           *)
Patch ==
    /\ pc = "patch" /\ Ends
    /\ \/ /\ claim[cur] # None
          /\ claim' = [claim EXCEPT ![cur] = Sent(@, {"fin"} \cup StatusFields)]
          /\ judged' = IF kind \in {"accept", "refuse"}
                       THEN [judged EXCEPT ![cur] = [uid |-> base.uid, gen |-> base.gen]]
                       ELSE judged
          /\ queue' = IF kind = "accept" THEN queue ELSE queue \cup {cur}
          /\ NoFault
       \/ /\ claim[cur] = None
          /\ queue' = queue \cup {cur} /\ UNCHANGED <<claim, judged>> /\ NoFault
       \/ /\ claim[cur] # None /\ Fault
          /\ \E fields \in {{}, {"fin"}, StatusFields} :
               claim' = [claim EXCEPT ![cur] = Sent(@, fields)]
          /\ queue' = queue \cup {cur} /\ UNCHANGED judged
    /\ UNCHANGED <<prov, demand, gone, fetched>> /\ others

(* reconcileDeletion: blocked while a dependent is left; a failed list is  *)
(* retried.                                                                *)
Dependents ==
    /\ pc = "dependents"
    /\ \/ dependents(base) # {} /\ Ends /\ queue' = queue \cup {cur} /\ NoFault
       \/ /\ dependents(base) = {} /\ pc' = "release" /\ NoFault
          /\ UNCHANGED <<queue, cur, base, plat, new, kind>>
       \/ Fault /\ Ends /\ queue' = queue \cup {cur}
    /\ UNCHANGED <<apiVars, fetched, judged>> /\ others

(* releaseClaim: a claim that is deleted is gone with its finalizer.       *)
Release ==
    /\ pc = "release" /\ Ends
    /\ \/ /\ claim[cur] # None /\ NoFault
          /\ claim' = [claim EXCEPT ![cur] = IF @.deleting THEN None ELSE [@ EXCEPT !.fin = FALSE]]
          /\ UNCHANGED queue
       \/ claim[cur] = None /\ NoFault /\ queue' = queue \cup {cur} /\ UNCHANGED claim
       \/ Fault /\ queue' = queue \cup {cur} /\ UNCHANGED claim
    /\ UNCHANGED <<prov, demand, gone, fetched, judged>> /\ others
-----------------------------------------------------------------------------
(***************************************************************************)
(* The Platform reconcile                                                  *)
(***************************************************************************)
idleRun == UNCHANGED <<runVars, judged, timeVars>>

ActiveClaims == {c \in Claims : Contributes(claimSeen[c])}

(* platformEntries: a subscription goes before a claim of its catalog, and *)
(* a claim before the later names.                                         *)
Entries ==
    Subscriptions \cup
      {[catalog |-> claimSeen[c].spec.catalog, provides |-> claimSeen[c].spec.derives] :
         c \in {d \in ActiveClaims :
                  /\ \A e \in Subscriptions : e.catalog # claimSeen[d].spec.catalog
                  /\ \A b \in ActiveClaims :
                       claimSeen[b].spec.catalog = claimSeen[d].spec.catalog => d <= b}}

(* The catalogs are there, and no contract has two providers.              *)
Builds ==
    /\ \A c \in ActiveClaims : claimSeen[c].spec \in fetched \/ claimSeen[c].spec \notin gone
    /\ \A d, e \in Entries : d # e => ~Overlap(d, e)

mapPlatformToRegistrations == {c \in Claims : claimSeen[c] # None}

(* A change of its status wakes every claim; a failure is tried again.     *)
PlatformReconcile ==
    /\ platQueued
    /\ \/ /\ Builds
          /\ held' = Entries /\ platReady' = TRUE /\ platQueued' = FALSE
          /\ fetched' = fetched \cup {claimSeen[c].spec : c \in ActiveClaims}
       \/ /\ ~Builds
          /\ platReady' = FALSE /\ UNCHANGED <<held, fetched, platQueued>>
    /\ queue' = IF held' # held \/ platReady' # platReady
                THEN queue \cup mapPlatformToRegistrations
                ELSE queue
    /\ UNCHANGED <<apiVars, seenVars>> /\ idleRun /\ NoFault

(* The manager starts over, in its pod or in a new one: the caches are     *)
(* filled before the workers start, and every object is queued.            *)
Restart ==
    /\ Fault
    /\ claimSeen' = claim /\ provSeen' = prov /\ demandSeen' = demand
    /\ fetched' \in {fetched, {}}
    /\ held' = None /\ platQueued' = TRUE
    /\ queue' = {c \in Claims : claim[c] # None}
    /\ Ends
    /\ UNCHANGED <<apiVars, platReady, judged, timeVars>>
-----------------------------------------------------------------------------
(***************************************************************************)
(* The caches, and what wakes the reconciles                               *)
(***************************************************************************)
(* Mutants: one of the two clauses is missing.                             *)
claimSpecOrDeletionChangedSpec(old, now) == old.gen # now.gen
claimSpecOrDeletionChangedDeletion(old, now) == ~old.deleting /\ now.deleting

claimSpecOrDeletionChanged(old, now) ==
    old.gen # now.gen \/ (~old.deleting /\ now.deleting)

(* Another object, or none: a delete and a create event.                   *)
Replaced(old, now) == old = None \/ now = None \/ old.uid # now.uid

SyncClaim(c) ==
    /\ claimSeen[c] # claim[c]
    /\ claimSeen' = [claimSeen EXCEPT ![c] = claim[c]]
    /\ queue' = IF \/ Replaced(claimSeen[c], claim[c])
                   \/ claimSpecOrDeletionChanged(claimSeen[c], claim[c])
                THEN queue \cup {c} ELSE queue
    /\ platQueued' = \/ platQueued
                     \/ Contributes(claimSeen[c]) # Contributes(claim[c])
                     \/ /\ Contributes(claim[c])
                        /\ claimSeen[c].spec # claim[c].spec
    /\ UNCHANGED <<apiVars, fetched, provSeen, demandSeen, platReady, held>>
    /\ idleRun /\ NoFault

(* Mutant: the predicate does not look at the provider's readiness.        *)
providerFactsChangedInventory(old, now) == old.inv # now.inv

providerFactsChanged(old, now) == old # now

(* mapInstanceToRegistrations: the claim that the provider rendered.       *)
SyncProvider(c) ==
    /\ provSeen[c] # prov[c]
    /\ provSeen' = [provSeen EXCEPT ![c] = prov[c]]
    /\ queue' = IF providerFactsChanged(provSeen[c], prov[c]) /\ claimSeen[c] # None
                THEN queue \cup {c} ELSE queue
    /\ UNCHANGED <<apiVars, fetched, claimSeen, demandSeen, platVars>> /\ idleRun /\ NoFault

(* mapInstanceToRegistrations: the claims that provide what the instance   *)
(* demanded or demands.                                                    *)
SyncDemand(i) ==
    /\ demandSeen[i] # demand[i]
    /\ demandSeen' = [demandSeen EXCEPT ![i] = demand[i]]
    /\ queue' = queue \cup
         {c \in Claims : /\ claimSeen[c] # None
                         /\ claimSeen[c].spec.provides \cap (demandSeen[i] \cup demand[i]) # {}}
    /\ UNCHANGED <<apiVars, fetched, claimSeen, provSeen, platVars>> /\ idleRun /\ NoFault
-----------------------------------------------------------------------------
(***************************************************************************)
(* Providers, their instances' reconciles, dependents and the registry     *)
(***************************************************************************)
env == UNCHANGED <<fetched, seenVars, queue, platVars, runVars, judged>>

(* A provider's reconcile creates its claim; two claims may be created in  *)
(* the same second.                                                        *)
CreateClaim(c, s) ==
    /\ claim[c] = None /\ born < MaxCreates /\ born' = born + 1
    /\ clock' \in IF born = 0 THEN {clock} ELSE {clock, clock + 1}
    /\ claim' = [claim EXCEPT ![c] =
         [uid |-> born + 1, created |-> clock', spec |-> s, gen |-> 1, deleting |-> FALSE,
          fin |-> FALSE, accepted |-> FALSE, active |-> FALSE, obs |-> 0]]
    /\ UNCHANGED <<prov, demand, gone>> /\ env /\ NoFault

Edit == edits < MaxEdits /\ edits' = edits + 1 /\ UNCHANGED <<moves, faults>>

(* Decide: the stored claim lists a contract that the rendered one does    *)
(* not, and an instance is known to demand it.                             *)
Shrinks(stored, s) ==
    \E i \in Instances : (stored.provides \ s.provides) \cap demandSeen[i] # {}

(* A provider's reconcile applies the claim of its new render, unless it   *)
(* is withheld.                                                            *)
ApplyClaim(c, s) ==
    /\ claim[c] # None /\ s # claim[c].spec /\ ~Shrinks(claim[c].spec, s) /\ Edit
    /\ claim' = [claim EXCEPT ![c].spec = s, ![c].gen = @ + 1]
    /\ UNCHANGED <<prov, demand, gone, timeVars>> /\ env

DeleteClaim(c) ==
    /\ claim[c] # None /\ ~claim[c].deleting /\ Edit
    /\ claim' = [claim EXCEPT ![c] = IF @.fin THEN [@ EXCEPT !.deleting = TRUE] ELSE None]
    /\ UNCHANGED <<prov, demand, gone, timeVars>> /\ env

Move == moves < MaxMoves /\ moves' = moves + 1 /\ UNCHANGED <<edits, faults>>

ProviderReports(c) ==
    /\ Move /\ prov' \in {[prov EXCEPT ![c] = p] : p \in Providers \ {prov[c]}}
    /\ UNCHANGED <<claim, demand, gone, timeVars>> /\ env

InstanceDemands(i) ==
    /\ Move /\ demand' \in {[demand EXCEPT ![i] = d] : d \in Demands \ {demand[i]}}
    /\ UNCHANGED <<claim, prov, gone, timeVars>> /\ env

CatalogGone(s) ==
    /\ Move /\ s \notin gone /\ gone' = gone \cup {s}
    /\ UNCHANGED <<claim, prov, demand, timeVars>> /\ env
-----------------------------------------------------------------------------
Progress == Acquire \/ Judge \/ Patch \/ Dependents \/ Release

Controller ==
    \/ Progress \/ PlatformReconcile \/ Restart
    \/ \E c \in Claims : Start(c)

Cluster ==
    \/ \E c \in Claims :
         \/ DeleteClaim(c) \/ ProviderReports(c)
         \/ \E s \in Specs : CreateClaim(c, s) \/ ApplyClaim(c, s)
    \/ \E i \in Instances : InstanceDemands(i)
    \/ \E s \in Removable : CatalogGone(s)

Next ==
    \/ (CacheMayLag \/ Fresh) /\ (Controller \/ Cluster)
    \/ \E c \in Claims : SyncClaim(c) \/ SyncProvider(c)
    \/ \E i \in Instances : SyncDemand(i)

Spec == Init /\ [][Next]_vars

(***************************************************************************)
(* A reconcile ends, the queue of claims is first in, first out (the       *)
(* strong fairness of Start), the Platform is reconciled, and the caches   *)
(* follow the API server.  Nothing is assumed of users and providers.      *)
(***************************************************************************)
FairSpec ==
    /\ Spec /\ WF_vars(Progress) /\ WF_vars(PlatformReconcile)
    /\ \A c \in Claims : SF_vars(Start(c)) /\ WF_vars(SyncClaim(c)) /\ WF_vars(SyncProvider(c))
    /\ \A i \in Instances : WF_vars(SyncDemand(i))
-----------------------------------------------------------------------------
(***************************************************************************)
(* Properties                                                              *)
(***************************************************************************)
(* Every variable holds a value of its type.                               *)
TypeOK ==
    /\ claim \in [Claims -> Object \cup {None}] /\ claimSeen \in [Claims -> Object \cup {None}]
    /\ prov \in [Claims -> Provider] /\ provSeen \in [Claims -> Provider]
    /\ demand \in [Instances -> SUBSET Contracts] /\ demandSeen \in [Instances -> SUBSET Contracts]
    /\ gone \subseteq Specs /\ fetched \subseteq Specs /\ queue \subseteq Claims
    /\ platQueued \in BOOLEAN /\ platReady \in BOOLEAN
    /\ pc \in Steps /\ cur \in Claims \cup {None} /\ base \in Object \cup {None}
    /\ new \in Object \cup {None} /\ kind \in Kinds
    /\ pc # "idle" => cur \in Claims /\ base \in Object
    /\ pc = "patch" => new \in Object
    /\ judged \in [Claims -> [uid: Nat, gen: Nat]]
    /\ {clock, born, edits, moves, faults} \subseteq Nat

(* The claim's last verdict is for the spec it has now.                    *)
Current(c) == judged[c].uid = claim[c].uid /\ judged[c].gen = claim[c].gen

(* Accepted for the spec it has, active, and not on its way out.           *)
Serves(c) == Contributes(claim[c]) /\ Current(c)

(* One contract, one provider, and one claim for a catalog: two claims     *)
(* that were accepted for the specs they have never both serve a contract, *)
(* whichever provider becomes Ready first, whatever is edited, and while   *)
(* the deletion of one of them is blocked (activeContractHolder, the       *)
(* activation latch, claimContributesAfterDeletion).                       *)
OneProvider ==
    \A c, d \in Claims :
      c # d /\ Serves(c) /\ Serves(d) => ~Overlap(claim[c].spec, claim[d].spec)

(* Objects of a name follow each other, and no verdict is for one that is  *)
(* still to come; a claim is not deleted without the guard's finalizer.    *)
ObjectsSound ==
    \A c \in Claims :
      /\ judged[c].uid <= born
      /\ claim[c] # None =>
           /\ claim[c].uid \in 1 .. born
           /\ claim[c].deleting => claim[c].fin
           /\ judged[c].uid <= claim[c].uid
           /\ judged[c].uid = claim[c].uid => judged[c].gen <= claim[c].gen

(* The stored claim may be edited, deleted or replaced while a reconcile   *)
(* of it runs.  Nobody else writes its status, so where it is the object   *)
(* that was read, it has the verdict that was read.                        *)
RunSound ==
    pc # "idle" =>
      /\ base.uid <= born
      /\ judged[cur].uid <= base.uid
      /\ judged[cur].uid = base.uid => judged[cur].gen <= base.gen
      /\ claim[cur] # None =>
           /\ base.uid <= claim[cur].uid
           /\ base.uid = claim[cur].uid =>
                /\ claim[cur].accepted = base.accepted /\ claim[cur].active = base.active
                /\ base.gen <= claim[cur].gen
                /\ base.gen = claim[cur].gen => claim[cur].spec = base.spec

(* What a verdict will write.  Until it is written, no claim that serves   *)
(* provides a contract of a claim that is to be accepted.                  *)
VerdictSound ==
    pc = "patch" =>
      /\ base.fin => new.fin
      /\ kind = "refuse" => ~new.accepted
      /\ kind \in {"defer", "hold"} => new.accepted = base.accepted
      /\ kind # "accept" => new.active = base.active
      /\ kind = "accept" =>
           \A d \in Claims \ {cur} : Serves(d) => ~Overlap(base.spec, claim[d].spec)

(* The registry is well typed, every contract has one provider, and this   *)
(* is kept by what each reconcile may rely on.                             *)
ClaimInv == TypeOK /\ OneProvider /\ ObjectsSound /\ RunSound /\ VerdictSound

(* Every claim is judged for the spec it has, also when it is edited or    *)
(* replaced while the reconcile of an older copy runs: the verdict of that *)
(* reconcile is not the last one.  A claim that waits for its provider's   *)
(* inventory is excepted, and so are clusters without a platform.          *)
Settled(c) ==
    claim[c] # None /\ ~claim[c].deleting /\ prov[c].inv # "none" /\ held # None => Current(c)
Settles == \A c \in Claims : <>[]Settled(c)

(* A claim that is accepted becomes active once its provider is Ready,     *)
(* although an accepted claim is not rechecked (providerFactsChanged and   *)
(* mapInstanceToRegistrations are all that wakes it).                      *)
Waits(c) ==
    /\ claim[c] # None /\ ~claim[c].deleting /\ claim[c].accepted /\ ~claim[c].active
    /\ prov[c].ready /\ held # None
Activates == \A c \in Claims : []<>~Waits(c)

(* A claim that is deleted goes once nothing demands its contracts.        *)
Released(c) ==
    claim[c] # None /\ claim[c].deleting =>
      \E i \in Instances : demand[i] \cap claim[c].spec.provides # {}
DeletionCompletes == \A c \in Claims : []<>Released(c)
=============================================================================
