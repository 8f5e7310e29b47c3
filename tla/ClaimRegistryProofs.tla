------------------------- MODULE ClaimRegistryProofs -------------------------
(***************************************************************************)
(* Proofs about ClaimRegistry: its types under any caches, and, where the  *)
(* caches follow the API server, that every contract has one provider.     *)
(***************************************************************************)
EXTENDS ClaimRegistry, TLAPS

(* The initial state is well typed.                                        *)
LEMMA InitTypes == Init => TypeOK
  <1> SUFFICES ASSUME Init PROVE TypeOK
    OBVIOUS
  <1>1. prov \in [Claims -> Provider] /\ demand \in [Instances -> SUBSET Contracts]
    BY RegistryAssumption DEF Init
  <1>2. judged \in [Claims -> [uid: Nat, gen: Nat]]
    BY DEF Init
  <1>3. claim \in [Claims -> Object \cup {None}] /\ claimSeen \in [Claims -> Object \cup {None}]
    BY DEF Init
  <1>4. {clock, born, edits, moves, faults} \subseteq Nat
    BY DEF Init
  <1>5. QED
    BY <1>1, <1>2, <1>3, <1>4 DEF Init, TypeOK, Steps, Kinds

(* A patch changes only the fields it sends, and to the values computed.   *)
LEMMA SentFields ==
  ASSUME base \in Object, new \in Object, NEW o \in Object,
         NEW fields \in {{}, {"fin"}, StatusFields, {"fin"} \cup StatusFields}
  PROVE  /\ Sent(o, fields) \in Object
         /\ Sent(o, fields).uid = o.uid /\ Sent(o, fields).gen = o.gen
         /\ Sent(o, fields).spec = o.spec /\ Sent(o, fields).deleting = o.deleting
         /\ (base.fin => new.fin) /\ o.fin => Sent(o, fields).fin
         /\ fields # {"fin"} /\ fields # {} =>
              /\ Sent(o, fields).accepted = (IF new.accepted # base.accepted THEN new.accepted ELSE o.accepted)
              /\ Sent(o, fields).active = (IF new.active # base.active THEN new.active ELSE o.active)
         /\ fields \in {{}, {"fin"}} =>
              Sent(o, fields).accepted = o.accepted /\ Sent(o, fields).active = o.active
  <1>1. DOMAIN o = {"uid", "created", "spec", "gen", "deleting", "fin", "accepted", "active", "obs"}
    BY DEF Object
  <1>2. QED
    BY <1>1 DEF Sent, Object, StatusFields

(* The verdicts write an object.                                           *)
LEMMA VerdictTypes ==
  ASSUME TypeOK, NEW o \in Object,
         \/ deferVerdict(o) \/ refuse(o) \/ holdVerdict(o) \/ (accept(o) /\ cur \in Claims)
  PROVE  new' \in Object /\ kind' \in Kinds /\ pc' = "patch"
  <1>1. CASE deferVerdict(o)
    BY <1>1 DEF deferVerdict, Verdict, Object, Kinds
  <1>2. CASE refuse(o)
    BY <1>2 DEF refuse, Verdict, Object, Kinds
  <1>3. CASE holdVerdict(o)
    BY <1>3 DEF holdVerdict, Verdict, Object, Kinds
  <1>4. CASE accept(o) /\ cur \in Claims
    <2>1. gateActivation(o) \in BOOLEAN
      BY <1>4 DEF gateActivation, TypeOK, Provider, Object
    <2>2. QED
      BY <1>4, <2>1 DEF accept, Verdict, Object, Kinds
  <1>5. QED
    BY <1>1, <1>2, <1>3, <1>4

(* Every step keeps every variable in its type.                            *)
LEMMA TypeStep == TypeOK /\ [Next]_vars => TypeOK'
  <1> SUFFICES ASSUME TypeOK, [Next]_vars PROVE TypeOK'
    OBVIOUS
  <1> USE DEF TypeOK
  <1>a. /\ Providers \subseteq Provider /\ Demands \subseteq SUBSET Contracts
        /\ Removable \subseteq Specs
    BY RegistryAssumption
  <1>1. CASE UNCHANGED vars
    BY <1>1 DEF vars, apiVars, seenVars, platVars, runVars, timeVars, boundVars
  <1>2. ASSUME NEW c \in Claims, Start(c) PROVE TypeOK'
    <2> USE DEF others, seenVars, platVars, timeVars, apiVars, NoFault, boundVars, Steps
    <2>1. CASE (claimSeen[c] = None \/ Leaving(claimSeen[c])) /\ Ends
      BY <1>2, <2>1 DEF Start, Ends, Kinds
    <2>2. CASE claimSeen[c] # None /\ pc' = "dependents" /\ cur' = c /\ base' = claimSeen[c]
                 /\ UNCHANGED <<plat, new, kind>>
      BY <1>2, <2>2 DEF Start
    <2>3. CASE claimSeen[c] # None /\ cur' = c /\ base' = claimSeen[c] /\ pc' = "acquire"
                 /\ UNCHANGED <<new, kind>>
      BY <1>2, <2>3 DEF Start
    <2>4. CASE claimSeen[c] # None /\ cur' = c /\ base' = claimSeen[c] /\ deferVerdict(claimSeen[c])
      <3>1. claimSeen[c] \in Object
        BY <2>4
      <3>2. new' \in Object /\ kind' \in Kinds /\ pc' = "patch"
        BY <3>1, <2>4 DEF deferVerdict, Verdict, Object, Kinds
      <3>3. QED
        BY <1>2, <2>4, <3>1, <3>2 DEF Start
    <2>5. QED
      BY <1>2, <2>1, <2>2, <2>3, <2>4 DEF Start
  <1>3. CASE Acquire
    <2> USE DEF others, seenVars, platVars, timeVars, apiVars, Steps
    <2>1. base \in Object /\ base.spec \in Specs /\ cur \in Claims
      BY <1>3 DEF Acquire, Object
    <2>2. {edits, moves, faults}' \subseteq Nat
      BY <1>3 DEF Acquire, NoFault, Fault, boundVars
    <2>3. fetched' \subseteq Specs
      BY <1>3, <2>1 DEF Acquire
    <2>4. \/ pc' = "judge" /\ UNCHANGED <<new, kind>>
          \/ new' \in Object /\ kind' \in Kinds /\ pc' = "patch"
      <3>1. \/ pc' = "judge" /\ UNCHANGED <<new, kind>>
            \/ refuse(base) \/ holdVerdict(base)
        BY <1>3 DEF Acquire
      <3>2. QED
        BY <3>1, <2>1, VerdictTypes
    <2>5. QED
      BY <1>3, <2>1, <2>2, <2>3, <2>4 DEF Acquire
  <1>4. CASE Judge
    <2> USE DEF others, seenVars, platVars, timeVars, apiVars, Steps
    <2>1. base \in Object /\ cur \in Claims
      BY <1>4 DEF Judge
    <2>2. {edits, moves, faults}' \subseteq Nat
      BY <1>4 DEF Judge, NoFault, Fault, boundVars
    <2>3. new' \in Object /\ kind' \in Kinds /\ pc' = "patch"
      <3>1. refuse(base) \/ deferVerdict(base) \/ accept(base)
        BY <1>4 DEF Judge
      <3>2. QED
        BY <3>1, <2>1, VerdictTypes
    <2>4. QED
      BY <1>4, <2>1, <2>2, <2>3 DEF Judge
  <1>5. CASE Patch
    <2> USE DEF others, seenVars, platVars, timeVars, apiVars
    <2>1. base \in Object /\ cur \in Claims /\ new \in Object
      BY <1>5 DEF Patch
    <2>2. {edits, moves, faults}' \subseteq Nat
      BY <1>5 DEF Patch, NoFault, Fault, boundVars
    <2>3. claim' \in [Claims -> Object \cup {None}]
      <3>1. \/ claim' = claim
            \/ /\ claim[cur] # None
               /\ \E fields \in {{}, {"fin"}, StatusFields, {"fin"} \cup StatusFields} :
                    claim' = [claim EXCEPT ![cur] = Sent(claim[cur], fields)]
        BY <1>5 DEF Patch
      <3>2. ASSUME claim[cur] # None,
                   NEW fields \in {{}, {"fin"}, StatusFields, {"fin"} \cup StatusFields},
                   claim' = [claim EXCEPT ![cur] = Sent(claim[cur], fields)]
            PROVE  claim' \in [Claims -> Object \cup {None}]
        <4>1. claim[cur] \in Object
          BY <2>1, <3>2
        <4>2. Sent(claim[cur], fields) \in Object
          BY <4>1, <2>1, SentFields
        <4>3. QED
          BY <3>2, <4>2
      <3>3. QED
        BY <3>1, <3>2
    <2>4. judged' \in [Claims -> [uid: Nat, gen: Nat]]
      BY <1>5, <2>1 DEF Patch, Object
    <2>5. queue' \subseteq Claims
      BY <1>5, <2>1 DEF Patch
    <2>6. QED
      BY <1>5, <2>2, <2>3, <2>4, <2>5 DEF Patch, Ends, Steps, Kinds
  <1>6. CASE Dependents
    <2>1. {edits, moves, faults}' \subseteq Nat
      BY <1>6 DEF Dependents, NoFault, Fault, boundVars
    <2>2. QED
      BY <1>6, <2>1 DEF Dependents, Ends, Steps, Kinds, others, seenVars, platVars, timeVars, apiVars
  <1>7. CASE Release
    <2>1. {edits, moves, faults}' \subseteq Nat
      BY <1>7 DEF Release, NoFault, Fault, boundVars
    <2>2. claim' \in [Claims -> Object \cup {None}]
      <3>1. \/ claim' = claim
            \/ claim' = [claim EXCEPT ![cur] = None]
            \/ /\ claim[cur] # None
               /\ claim' = [claim EXCEPT ![cur] = [claim[cur] EXCEPT !.fin = FALSE]]
        BY <1>7 DEF Release
      <3>2. claim[cur] # None => [claim[cur] EXCEPT !.fin = FALSE] \in Object
        BY <1>7 DEF Release, Object
      <3>3. QED
        BY <3>1, <3>2
    <2>3. QED
      BY <1>7, <2>1, <2>2 DEF Release, Ends, Steps, Kinds, others, seenVars, platVars, timeVars
  <1>8. CASE PlatformReconcile
    <2>1. fetched' \subseteq Specs
      <3>1. \A c \in ActiveClaims : claimSeen[c].spec \in Specs
        <4>1. \A c \in ActiveClaims : claimSeen[c] \in Object
          BY DEF ActiveClaims, Contributes
        <4>2. QED
          BY <4>1 DEF Object
      <3>2. {claimSeen[c].spec : c \in ActiveClaims} \subseteq Specs
        BY <3>1, Zenon
      <3>3. \/ fetched' = fetched
            \/ fetched' = fetched \cup {claimSeen[c].spec : c \in ActiveClaims}
        BY <1>8, Zenon DEF PlatformReconcile
      <3>4. QED
        BY <3>2, <3>3, Zenon
    <2>2. queue' \subseteq Claims /\ platReady' \in BOOLEAN /\ platQueued' \in BOOLEAN
      BY <1>8 DEF PlatformReconcile, mapPlatformToRegistrations
    <2>3. QED
      BY <1>8, <2>1, <2>2
      DEF PlatformReconcile, idleRun, runVars, apiVars, seenVars, timeVars, NoFault, boundVars
  <1>9. CASE Restart
    BY <1>9 DEF Restart, Fault, Ends, Steps, Kinds, apiVars, timeVars
  <1>10. ASSUME NEW c \in Claims, SyncClaim(c) PROVE TypeOK'
    <2>1. platQueued' \in BOOLEAN
      BY <1>10, Zenon DEF SyncClaim
    <2>2. QED
      BY <1>10, <2>1 DEF SyncClaim, idleRun, runVars, apiVars, timeVars, NoFault, boundVars
  <1>11. ASSUME NEW c \in Claims, SyncProvider(c) PROVE TypeOK'
    BY <1>11 DEF SyncProvider, idleRun, runVars, apiVars, platVars, timeVars, NoFault, boundVars
  <1>12. ASSUME NEW i \in Instances, SyncDemand(i) PROVE TypeOK'
    BY <1>12 DEF SyncDemand, idleRun, runVars, apiVars, platVars, timeVars, NoFault, boundVars
  <1>13. ASSUME NEW c \in Claims, NEW s \in Specs, CreateClaim(c, s) PROVE TypeOK'
    BY <1>13 DEF CreateClaim, env, Object, seenVars, platVars, runVars, NoFault, boundVars
  <1>14. ASSUME NEW c \in Claims, NEW s \in Specs, ApplyClaim(c, s) PROVE TypeOK'
    BY <1>14 DEF ApplyClaim, Edit, env, Object, seenVars, platVars, runVars, timeVars
  <1>15. ASSUME NEW c \in Claims, DeleteClaim(c) PROVE TypeOK'
    <2>1. [claim[c] EXCEPT !.deleting = TRUE] \in Object
      BY <1>15 DEF DeleteClaim, Object
    <2>2. \/ claim' = [claim EXCEPT ![c] = None]
          \/ claim' = [claim EXCEPT ![c] = [claim[c] EXCEPT !.deleting = TRUE]]
      BY <1>15 DEF DeleteClaim
    <2>3. QED
      BY <1>15, <2>1, <2>2 DEF DeleteClaim, Edit, env, seenVars, platVars, runVars, timeVars
  <1>16. ASSUME NEW c \in Claims, ProviderReports(c) PROVE TypeOK'
    BY <1>16, <1>a DEF ProviderReports, Move, env, seenVars, platVars, runVars, timeVars
  <1>17. ASSUME NEW i \in Instances, InstanceDemands(i) PROVE TypeOK'
    BY <1>17, <1>a DEF InstanceDemands, Move, env, seenVars, platVars, runVars, timeVars
  <1>18. ASSUME NEW s \in Removable, CatalogGone(s) PROVE TypeOK'
    BY <1>18, <1>a DEF CatalogGone, Move, env, seenVars, platVars, runVars, timeVars
  <1>19. QED
    BY <1>1, <1>2, <1>3, <1>4, <1>5, <1>6, <1>7, <1>8, <1>9, <1>10, <1>11, <1>12, <1>13, <1>14,
       <1>15, <1>16, <1>17, <1>18
    DEF Next, Controller, Progress, Cluster

(* Every value the registry's reconciles keep, read and write has its type,*)
(* however far the caches lag and whatever call fails.                     *)
THEOREM RegistryTypes == Spec => []TypeOK
  BY InitTypes, TypeStep, PTL DEF Spec
-----------------------------------------------------------------------------
(***************************************************************************)
(* One provider for a contract.  From here on the caches follow the API    *)
(* server: a reconcile reads the claims that are stored.                   *)
(***************************************************************************)
(* The steps that leave the claims and their verdicts alone.               *)
Quiet == UNCHANGED <<claim, judged, born>>

(* The claim is the object it was, with the spec it had.                   *)
SameObject(c) ==
    claim'[c] # None =>
      /\ claim[c] # None /\ claim'[c].uid = claim[c].uid /\ claim'[c].gen = claim[c].gen
      /\ claim'[c].spec = claim[c].spec

(* The initial state has no claims and no reconcile.                       *)
LEMMA InitClaims == Init => ClaimInv
  <1> SUFFICES ASSUME Init PROVE ClaimInv
    OBVIOUS
  <1>1. TypeOK
    BY InitTypes
  <1>2. \A c \in Claims : claim[c] = None /\ judged[c].uid = 0
    BY DEF Init
  <1>3. ObjectsSound
    BY <1>2 DEF ObjectsSound, Init
  <1>4. RunSound /\ VerdictSound
    BY DEF RunSound, VerdictSound, Init
  <1>5. OneProvider
    BY <1>2 DEF OneProvider, Serves, Contributes
  <1>6. QED
    BY <1>1, <1>3, <1>4, <1>5 DEF ClaimInv

(* Only five actions write claims, verdicts or the count of creations, and *)
(* with caches that do not lag no reconcile reads an old claim.            *)
LEMMA StepKinds ==
  ASSUME CacheMayLag = FALSE, [Next]_vars
  PROVE  \/ Patch \/ Release
         \/ \E c \in Claims, s \in Specs : CreateClaim(c, s) \/ ApplyClaim(c, s)
         \/ \E c \in Claims : DeleteClaim(c)
         \/ Quiet /\ Fresh /\ (Acquire \/ Judge \/ Dependents \/ \E c \in Claims : Start(c))
         \/ Quiet /\ Ends
         \/ Quiet /\ UNCHANGED runVars
  <1> USE DEF Quiet
  <1>1. CASE UNCHANGED vars
    BY <1>1, Zenon DEF vars, apiVars, timeVars
  <1>2. ASSUME NEW c \in Claims, Fresh, Start(c) PROVE Quiet
    BY <1>2, Zenon DEF Start, apiVars, others, timeVars
  <1>3. ASSUME Acquire PROVE Quiet
    BY <1>3, Zenon DEF Acquire, apiVars, others, timeVars
  <1>4. ASSUME Judge PROVE Quiet
    BY <1>4, Zenon DEF Judge, apiVars, others, timeVars
  <1>5. ASSUME Dependents PROVE Quiet
    BY <1>5, Zenon DEF Dependents, apiVars, others, timeVars
  <1>6. CASE PlatformReconcile
    BY <1>6, Zenon DEF PlatformReconcile, apiVars, idleRun, timeVars
  <1>7. CASE Restart
    BY <1>7, Zenon DEF Restart, apiVars, timeVars
  <1>8. ASSUME NEW c \in Claims, SyncClaim(c) \/ SyncProvider(c) PROVE Quiet /\ UNCHANGED runVars
    BY <1>8, Zenon DEF SyncClaim, SyncProvider, apiVars, idleRun, timeVars
  <1>9. ASSUME NEW i \in Instances, SyncDemand(i) PROVE Quiet /\ UNCHANGED runVars
    BY <1>9, Zenon DEF SyncDemand, apiVars, idleRun, timeVars
  <1>10. ASSUME NEW c \in Claims, ProviderReports(c) PROVE Quiet /\ UNCHANGED runVars
    BY <1>10, Zenon DEF ProviderReports, env, timeVars
  <1>11. ASSUME NEW i \in Instances, InstanceDemands(i) PROVE Quiet /\ UNCHANGED runVars
    BY <1>11, Zenon DEF InstanceDemands, env, timeVars
  <1>12. ASSUME NEW s \in Removable, CatalogGone(s) PROVE Quiet /\ UNCHANGED runVars
    BY <1>12, Zenon DEF CatalogGone, env, timeVars
  <1>13. ~CacheMayLag
    OBVIOUS
  <1>14. CASE Fresh /\ (Controller \/ Cluster)
    BY <1>14, <1>2, <1>3, <1>4, <1>5, <1>6, <1>7, <1>10, <1>11, <1>12, Zenon
    DEF Controller, Progress, Cluster
  <1>15. QED
    BY <1>1, <1>8, <1>9, <1>13, <1>14, Zenon DEF Next

(* The verdicts follow the objects, which follow each other.               *)
LEMMA ObjectsStep == CacheMayLag = FALSE /\ ClaimInv /\ [Next]_vars => ObjectsSound'
  <1> SUFFICES ASSUME CacheMayLag = FALSE, ClaimInv, [Next]_vars PROVE ObjectsSound'
    OBVIOUS
  <1>t. TypeOK /\ ObjectsSound /\ RunSound /\ VerdictSound
    BY DEF ClaimInv
  <1>o. \A c \in Claims : claim[c] # None => claim[c] \in Object
    BY <1>t DEF TypeOK
  <1>n. /\ born \in Nat /\ DOMAIN claim = Claims /\ DOMAIN judged = Claims
        /\ \A c \in Claims : judged[c] \in [uid: Nat, gen: Nat]
    BY <1>t DEF TypeOK
  <1>1. CASE Patch
    <2>1. cur \in Claims /\ base \in Object /\ new \in Object /\ born' = born
      BY <1>1, <1>t DEF Patch, TypeOK, others, timeVars
    <2>2. /\ base.uid \in Nat /\ base.gen \in Nat /\ base.uid <= born
          /\ claim[cur] # None => /\ base.uid <= claim[cur].uid
                                  /\ base.uid = claim[cur].uid => base.gen <= claim[cur].gen
      BY <1>1, <1>t, <2>1 DEF Patch, RunSound, Object
    <2>3. \/ claim' = claim /\ claim[cur] = None
          \/ /\ claim[cur] # None
             /\ \E fields \in {{}, {"fin"}, StatusFields, {"fin"} \cup StatusFields} :
                  claim' = [claim EXCEPT ![cur] = Sent(claim[cur], fields)]
      BY <1>1 DEF Patch
    <2>4. \/ judged' = judged
          \/ /\ claim[cur] # None
             /\ judged' = [judged EXCEPT ![cur] = [uid |-> base.uid, gen |-> base.gen]]
      BY <1>1 DEF Patch
    <2>5. ASSUME NEW c \in Claims
          PROVE  SameObject(c) /\ (claim'[c] # None =>
                   claim'[c].deleting = claim[c].deleting /\ (claim[c].fin => claim'[c].fin))
      <3>1. CASE claim' = claim
        BY <3>1 DEF SameObject
      <3>2. ASSUME NEW fields \in {{}, {"fin"}, StatusFields, {"fin"} \cup StatusFields},
                   claim[cur] # None, claim' = [claim EXCEPT ![cur] = Sent(claim[cur], fields)]
            PROVE  <2>5!2
        <4>1. claim[cur] \in Object
          BY <1>o, <2>1, <3>2
        <4>2. base.fin => new.fin
          BY <1>1, <1>t DEF VerdictSound, Patch
        <4>3. /\ Sent(claim[cur], fields).uid = claim[cur].uid
              /\ Sent(claim[cur], fields).gen = claim[cur].gen
              /\ Sent(claim[cur], fields).spec = claim[cur].spec
              /\ Sent(claim[cur], fields).deleting = claim[cur].deleting
              /\ claim[cur].fin => Sent(claim[cur], fields).fin
          BY <4>1, <4>2, <2>1, SentFields
        <4>4. QED
          BY <3>2, <4>3, <1>n DEF SameObject
      <3>3. QED
        BY <2>3, <3>1, <3>2
    <2>6. ASSUME NEW c \in Claims
          PROVE  /\ judged'[c].uid <= born
                 /\ claim'[c] # None => /\ judged'[c].uid <= claim[c].uid
                                        /\ judged'[c].uid = claim[c].uid => judged'[c].gen <= claim[c].gen
      BY <2>1, <2>2, <2>4, <2>5, <1>t, <1>n DEF ObjectsSound, SameObject
    <2>7. ASSUME NEW c \in Claims, claim'[c] # None
          PROVE  claim'[c].uid \in 1 .. born /\ (claim'[c].deleting => claim'[c].fin)
      <3>1. claim[c].uid \in 1 .. born /\ (claim[c].deleting => claim[c].fin)
        BY <2>5, <2>7, <1>t, Zenon DEF ObjectsSound, SameObject
      <3>2. QED
        BY <3>1, <2>5, <2>7, Zenon DEF SameObject
    <2>8. ASSUME NEW c \in Claims, claim'[c] # None
          PROVE  claim'[c].uid = claim[c].uid /\ claim'[c].gen = claim[c].gen
      BY <2>5, <2>8, Zenon DEF SameObject
    <2>9. ASSUME NEW c \in Claims, claim'[c] # None
          PROVE  /\ judged'[c].uid <= claim'[c].uid
                 /\ judged'[c].uid = claim'[c].uid => judged'[c].gen <= claim'[c].gen
      BY <2>6, <2>8, <2>9
    <2>10. \A c \in Claims : judged'[c].uid <= born'
      BY <2>1, <2>6
    <2>11. \A c \in Claims : claim'[c] # None => claim'[c].uid \in 1 .. born'
      BY <2>1, <2>7
    <2>12. QED
      BY <2>7, <2>9, <2>10, <2>11, Zenon DEF ObjectsSound
  <1>2. CASE Release
    <2>1. UNCHANGED <<judged, born>>
      BY <1>2 DEF Release, others, timeVars
    <2>2. \A c \in Claims : SameObject(c) /\ (claim'[c] # None => ~claim'[c].deleting \/ claim'[c] = claim[c])
      BY <1>2, <1>t, <1>n, <1>o DEF Release, SameObject, Object, TypeOK
    <2>3. QED
      BY <2>1, <2>2, <1>t DEF ObjectsSound, SameObject
  <1>3. ASSUME NEW c \in Claims, NEW s \in Specs, CreateClaim(c, s) PROVE ObjectsSound'
    BY <1>3, <1>t, <1>n, <1>o DEF CreateClaim, env, ObjectsSound, Object
  <1>4. ASSUME NEW c \in Claims, NEW s \in Specs, ApplyClaim(c, s) PROVE ObjectsSound'
    BY <1>4, <1>t, <1>n, <1>o DEF ApplyClaim, env, timeVars, ObjectsSound, Object
  <1>5. ASSUME NEW c \in Claims, DeleteClaim(c) PROVE ObjectsSound'
    BY <1>5, <1>t, <1>n, <1>o DEF DeleteClaim, env, timeVars, ObjectsSound, Object
  <1>6. CASE Quiet
    BY <1>6, <1>t DEF Quiet, ObjectsSound
  <1>7. QED
    BY <1>1, <1>2, <1>3, <1>4, <1>5, <1>6, StepKinds

(* While a reconcile runs, the claim it read is the stored one, or an      *)
(* earlier one.                                                            *)
LEMMA RunStep == CacheMayLag = FALSE /\ ClaimInv /\ [Next]_vars => RunSound'
  <1> SUFFICES ASSUME CacheMayLag = FALSE, ClaimInv, [Next]_vars PROVE RunSound'
    OBVIOUS
  <1>t. TypeOK /\ ObjectsSound /\ RunSound
    BY DEF ClaimInv
  <1>n. /\ born \in Nat /\ DOMAIN claim = Claims /\ DOMAIN judged = Claims
        /\ \A c \in Claims : claim[c] # None => claim[c] \in Object
        /\ pc # "idle" => cur \in Claims /\ base \in Object
    BY <1>t DEF TypeOK
  <1>1. CASE Patch \/ Release \/ Ends
    <2>1. pc' = "idle"
      BY <1>1 DEF Patch, Release, Ends
    <2>2. QED
      BY <2>1 DEF RunSound
  <1>2. ASSUME NEW c \in Claims, Fresh, Quiet, Start(c) PROVE RunSound'
    <2>1. \/ pc' = "idle"
          \/ cur' = c /\ base' = claim[c] /\ claim[c] # None
      BY <1>2 DEF Start, Fresh, Ends
    <2>2. CASE cur' = c /\ base' = claim[c] /\ claim[c] # None
      BY <1>2, <2>2, <1>t, <1>n DEF RunSound, ObjectsSound, Quiet, Object
    <2>3. QED
      BY <2>1, <2>2 DEF RunSound
  <1>3. CASE Quiet /\ (Acquire \/ Judge \/ UNCHANGED runVars)
    <2>1. UNCHANGED <<cur, base>> /\ (pc' # "idle" => pc # "idle")
      BY <1>3 DEF Acquire, Judge, runVars
    <2>2. QED
      BY <1>3, <2>1, <1>t DEF RunSound, Quiet
  <1>4. CASE Quiet /\ Dependents
    <2>1. pc' = "idle" \/ (pc # "idle" /\ UNCHANGED <<cur, base>>)
      BY <1>4 DEF Dependents, Ends
    <2>2. QED
      BY <1>4, <2>1, <1>t DEF RunSound, Quiet
  <1>5. ASSUME NEW c \in Claims, NEW s \in Specs, CreateClaim(c, s) PROVE RunSound'
    <2>1. /\ UNCHANGED <<judged, pc, cur, base>> /\ born' = born + 1
          /\ \A d \in Claims : IF d = c THEN claim'[d].uid = born + 1 ELSE claim'[d] = claim[d]
      BY <1>5, <1>n DEF CreateClaim, env, runVars
    <2>2. QED
      BY <2>1, <1>t, <1>n DEF RunSound, Object
  <1>6. ASSUME NEW c \in Claims, NEW s \in Specs, ApplyClaim(c, s) PROVE RunSound'
    <2>1. /\ UNCHANGED <<judged, pc, cur, base, born>> /\ claim[c] # None
          /\ claim' = [claim EXCEPT ![c] = [claim[c] EXCEPT !.spec = s, !.gen = claim[c].gen + 1]]
      BY <1>6, <1>n DEF ApplyClaim, env, runVars, timeVars
    <2>2. QED
      BY <2>1, <1>t, <1>n DEF RunSound, Object
  <1>7. ASSUME NEW c \in Claims, DeleteClaim(c) PROVE RunSound'
    <2>1. /\ UNCHANGED <<judged, pc, cur, base, born>> /\ claim[c] # None
          /\ \/ claim' = [claim EXCEPT ![c] = [claim[c] EXCEPT !.deleting = TRUE]]
             \/ claim' = [claim EXCEPT ![c] = None]
      BY <1>7, <1>n DEF DeleteClaim, env, runVars, timeVars
    <2>2. QED
      BY <2>1, <1>t, <1>n DEF RunSound, Object
  <1>8. QED
    BY <1>1, <1>2, <1>3, <1>4, <1>5, <1>6, <1>7, StepKinds

(* No claim comes to serve but by a verdict that is written.               *)
LEMMA ServesKept ==
  ASSUME CacheMayLag = FALSE, ClaimInv, [Next]_vars, ~Patch, NEW d \in Claims, Serves(d)'
  PROVE  Serves(d) /\ claim'[d].spec = claim[d].spec
  <1>t. TypeOK /\ ObjectsSound
    BY DEF ClaimInv
  <1>n. /\ born \in Nat /\ DOMAIN claim = Claims
        /\ \A c \in Claims : claim[c] # None => claim[c] \in Object
        /\ \A c \in Claims : judged[c] \in [uid: Nat, gen: Nat]
    BY <1>t DEF TypeOK
  <1>1. CASE Quiet
    BY <1>1 DEF Quiet, Serves, Contributes, Leaving, Current
  <1>2. CASE Release
    <2>1. /\ judged' = judged /\ cur \in Claims
          /\ \/ claim' = claim \/ claim' = [claim EXCEPT ![cur] = None]
             \/ claim[cur] # None /\ claim' = [claim EXCEPT ![cur] = [claim[cur] EXCEPT !.fin = FALSE]]
      BY <1>2, <1>t DEF Release, TypeOK
    <2>2. QED
      BY <2>1, <1>t, <1>n DEF Serves, Contributes, Leaving, Current, Object, ObjectsSound
  <1>3. ASSUME NEW c \in Claims, NEW s \in Specs, CreateClaim(c, s) PROVE Serves(d) /\ claim'[d].spec = claim[d].spec
    <2>1. /\ UNCHANGED judged
          /\ \A e \in Claims : IF e = c THEN claim'[e].uid = born + 1 ELSE claim'[e] = claim[e]
      BY <1>3, <1>n DEF CreateClaim, env
    <2>2. QED
      BY <2>1, <1>t, <1>n DEF Serves, Contributes, Leaving, Current, ObjectsSound
  <1>4. ASSUME NEW c \in Claims, NEW s \in Specs, ApplyClaim(c, s) PROVE Serves(d) /\ claim'[d].spec = claim[d].spec
    <2>1. /\ UNCHANGED judged /\ claim[c] # None
          /\ claim' = [claim EXCEPT ![c] = [claim[c] EXCEPT !.spec = s, !.gen = claim[c].gen + 1]]
      BY <1>4, <1>n DEF ApplyClaim, env
    <2>2. QED
      BY <2>1, <1>t, <1>n DEF Serves, Contributes, Leaving, Current, ObjectsSound, Object
  <1>5. ASSUME NEW c \in Claims, DeleteClaim(c) PROVE Serves(d) /\ claim'[d].spec = claim[d].spec
    <2>1. /\ UNCHANGED judged /\ claim[c] # None
          /\ \/ claim' = [claim EXCEPT ![c] = [claim[c] EXCEPT !.deleting = TRUE]]
             \/ claim' = [claim EXCEPT ![c] = None]
      BY <1>5, <1>n DEF DeleteClaim, env
    <2>2. QED
      BY <2>1, <1>t, <1>n DEF Serves, Contributes, Leaving, Current, ObjectsSound, Object
  <1>6. QED
    BY <1>1, <1>2, <1>3, <1>4, <1>5, StepKinds

(* A verdict that is written changes its own claim only, and makes it      *)
(* serve only if it accepts the spec that the claim still has.             *)
LEMMA PatchServes ==
  ASSUME CacheMayLag = FALSE, ClaimInv, Patch, NEW d \in Claims, Serves(d)'
  PROVE  /\ claim'[d].spec = claim[d].spec
         /\ \/ Serves(d)
            \/ d = cur /\ kind = "accept" /\ claim[d].spec = base.spec
  <1>t. TypeOK /\ ObjectsSound /\ RunSound /\ VerdictSound
    BY DEF ClaimInv
  <1>n. /\ cur \in Claims /\ base \in Object /\ new \in Object /\ pc = "patch"
        /\ DOMAIN claim = Claims /\ DOMAIN judged = Claims
        /\ \A c \in Claims : claim[c] # None => claim[c] \in Object
        /\ \A c \in Claims : judged[c] \in [uid: Nat, gen: Nat]
    BY <1>t DEF TypeOK, Patch
  <1>1. CASE d # cur
    <2>1. claim'[d] = claim[d] /\ judged'[d] = judged[d]
      BY <1>1, <1>n DEF Patch
    <2>2. QED
      BY <2>1 DEF Serves, Contributes, Leaving, Current
  <1>2. CASE claim[cur] = None /\ d = cur
    BY <1>2 DEF Patch, Serves, Contributes
  <1>3. CASE claim[cur] # None /\ d = cur
    <2>1. PICK fields \in {{}, {"fin"}, StatusFields, {"fin"} \cup StatusFields} :
            /\ claim' = [claim EXCEPT ![cur] = Sent(claim[cur], fields)]
            /\ \/ judged' = judged
               \/ /\ kind \in {"accept", "refuse"} /\ fields = {"fin"} \cup StatusFields
                  /\ judged' = [judged EXCEPT ![cur] = [uid |-> base.uid, gen |-> base.gen]]
      BY <1>3 DEF Patch
    <2>2. claim[cur] \in Object /\ claim'[cur] = Sent(claim[cur], fields)
      BY <1>3, <1>n, <2>1
    <2>3. /\ claim'[cur].uid = claim[cur].uid /\ claim'[cur].gen = claim[cur].gen
          /\ claim'[cur].spec = claim[cur].spec
          /\ \/ /\ claim'[cur].accepted = claim[cur].accepted /\ claim'[cur].active = claim[cur].active
                /\ judged' = judged
             \/ /\ claim'[cur].accepted = (IF new.accepted # base.accepted THEN new.accepted ELSE claim[cur].accepted)
                /\ claim'[cur].active = (IF new.active # base.active THEN new.active ELSE claim[cur].active)
      <3> DEFINE sent == Sent(claim[cur], fields)
      <3>1. /\ sent.uid = claim[cur].uid /\ sent.gen = claim[cur].gen /\ sent.spec = claim[cur].spec
            /\ fields # {"fin"} /\ fields # {} =>
                 /\ sent.accepted = (IF new.accepted # base.accepted THEN new.accepted ELSE claim[cur].accepted)
                 /\ sent.active = (IF new.active # base.active THEN new.active ELSE claim[cur].active)
            /\ fields \in {{}, {"fin"}} =>
                 sent.accepted = claim[cur].accepted /\ sent.active = claim[cur].active
        BY <2>2, <1>n, SentFields
      <3>2. fields \in {{}, {"fin"}} => judged' = judged
        BY <2>1 DEF StatusFields
      <3>3. QED
        BY <3>1, <3>2, <2>2, Zenon
    <2>4. ~Leaving(claim[cur])
      BY <1>3, <1>t, <1>n DEF Leaving, ObjectsSound
    <2>5. /\ judged[cur].uid <= base.uid /\ base.uid <= claim[cur].uid
          /\ judged[cur].uid = base.uid => judged[cur].gen <= base.gen
          /\ base.uid = claim[cur].uid =>
               /\ claim[cur].accepted = base.accepted /\ claim[cur].active = base.active
               /\ base.gen <= claim[cur].gen
               /\ base.gen = claim[cur].gen => claim[cur].spec = base.spec
      BY <1>3, <1>t, <1>n DEF RunSound
    <2>6. base.uid = claim[cur].uid /\ base.gen = claim[cur].gen
      <3>1. judged'[cur].uid = claim[cur].uid /\ judged'[cur].gen = claim[cur].gen
        BY <1>3, <2>3 DEF Serves, Current
      <3>2. CASE judged' = judged
        BY <3>1, <3>2, <2>2, <2>5, <1>n DEF Object
      <3>3. CASE judged' = [judged EXCEPT ![cur] = [uid |-> base.uid, gen |-> base.gen]]
        BY <3>1, <3>3, <1>n
      <3>4. QED
        BY <2>1, <3>2, <3>3
    <2>7. CASE kind = "accept"
      BY <1>3, <2>3, <2>5, <2>6, <2>7
    <2>8. CASE kind = "refuse"
      <3>1. ~new.accepted
        BY <2>8, <1>t, <1>n DEF VerdictSound
      <3>2. claim'[cur].accepted
        BY <1>3 DEF Serves, Contributes
      <3>3. claim'[cur].accepted = claim[cur].accepted /\ claim'[cur].active = claim[cur].active /\ judged' = judged
        BY <3>1, <3>2, <2>2, <2>3, <2>5, <2>6, <1>n DEF Object
      <3>4. QED
        BY <1>3, <2>3, <2>4, <3>3 DEF Serves, Contributes, Current
    <2>9. CASE kind \in {"defer", "hold"}
      <3>1. new.accepted = base.accepted /\ new.active = base.active
        BY <2>9, <1>t, <1>n DEF VerdictSound
      <3>2. judged' = judged
        BY <2>1, <2>9
      <3>3. claim'[cur].accepted = claim[cur].accepted /\ claim'[cur].active = claim[cur].active
        BY <3>1, <2>3, Zenon
      <3>4. QED
        BY <1>3, <2>3, <2>4, <3>2, <3>3 DEF Serves, Contributes, Current
    <2>10. QED
      BY <2>7, <2>8, <2>9, <1>t DEF TypeOK, Kinds
  <1>4. QED
    BY <1>1, <1>2, <1>3

(* What a verdict will write is right until it is written.                 *)
LEMMA VerdictStep == CacheMayLag = FALSE /\ ClaimInv /\ [Next]_vars => VerdictSound'
  <1> SUFFICES ASSUME CacheMayLag = FALSE, ClaimInv, [Next]_vars PROVE VerdictSound'
    OBVIOUS
  <1>t. TypeOK /\ VerdictSound
    BY DEF ClaimInv
  <1>1. CASE Patch \/ Release \/ Ends
    <2>1. pc' = "idle"
      BY <1>1 DEF Patch, Release, Ends
    <2>2. QED
      BY <2>1 DEF VerdictSound
  <1>2. CASE UNCHANGED runVars /\ ~Patch
    BY <1>2, <1>t, ServesKept DEF VerdictSound, runVars
  <1>3. ASSUME NEW c \in Claims, Start(c) PROVE VerdictSound'
    <2>1. \/ pc' # "patch"
          \/ base' = claimSeen[c] /\ deferVerdict(claimSeen[c]) /\ claimSeen[c] \in Object
      BY <1>3, <1>t DEF Start, Ends, TypeOK
    <2>2. CASE base' = claimSeen[c] /\ deferVerdict(claimSeen[c]) /\ claimSeen[c] \in Object
      BY <2>2 DEF VerdictSound, deferVerdict, Verdict, Object
    <2>3. QED
      BY <2>1, <2>2 DEF VerdictSound
  <1>4. CASE Acquire
    <2>1. base \in Object /\ base' = base /\ (pc' # "patch" \/ refuse(base) \/ holdVerdict(base))
      BY <1>4, <1>t DEF Acquire, TypeOK
    <2>2. QED
      BY <2>1 DEF VerdictSound, refuse, holdVerdict, Verdict, Object
  <1>5. CASE Judge /\ Fresh /\ Quiet
    <2>1. /\ base \in Object /\ base' = base /\ cur' = cur /\ cur \in Claims
          /\ deferVerdict(base) \/ refuse(base) \/ (accept(base) /\ ~Refused)
      BY <1>5, <1>t DEF Judge, TypeOK
    <2>2. CASE deferVerdict(base) \/ refuse(base)
      BY <2>1, <2>2 DEF VerdictSound, refuse, deferVerdict, Verdict, Object
    <2>3. CASE accept(base) /\ ~Refused
      <3>1. kind' = "accept" /\ new'.fin = TRUE
        BY <2>1, <2>3 DEF accept, Verdict, Object
      <3>2. ASSUME NEW d \in Claims \ {cur}, Serves(d) PROVE ~Overlap(base.spec, claim[d].spec)
        <4>1. d \in Others(cur) /\ claimSeen[d] = claim[d] /\ claim[d].active
          BY <3>2, <1>5 DEF Others, Fresh, Serves, Contributes
        <4>2. ~Overlap(claim[d].spec, base.spec)
          BY <2>3, <4>1 DEF Refused, activeContractHolder
        <4>3. QED
          BY <4>2 DEF Overlap
      <3>3. \A d \in Claims \ {cur} : Serves(d)' => Serves(d) /\ claim'[d].spec = claim[d].spec
        BY <1>5 DEF Quiet, Serves, Contributes, Leaving, Current
      <3>4. QED
        BY <2>1, <3>1, <3>2, <3>3 DEF VerdictSound
    <2>4. QED
      BY <2>1, <2>2, <2>3
  <1>6. CASE Dependents
    <2>1. pc' # "patch"
      BY <1>6 DEF Dependents, Ends
    <2>2. QED
      BY <2>1 DEF VerdictSound
  <1>7. ASSUME NEW c \in Claims, NEW s \in Specs, CreateClaim(c, s) \/ ApplyClaim(c, s) \/ DeleteClaim(c)
        PROVE  UNCHANGED runVars
    BY <1>7 DEF CreateClaim, ApplyClaim, DeleteClaim, env
  <1>8. ASSUME NEW c \in Claims, DeleteClaim(c) PROVE UNCHANGED runVars
    BY <1>8 DEF DeleteClaim, env
  <1>9. QED
    BY <1>1, <1>2, <1>3, <1>4, <1>5, <1>6, <1>7, <1>8, StepKinds

(* No step makes two claims serve a contract.                              *)
LEMMA ProviderStep == CacheMayLag = FALSE /\ ClaimInv /\ [Next]_vars => OneProvider'
  <1> SUFFICES ASSUME CacheMayLag = FALSE, ClaimInv, [Next]_vars,
                      NEW c \in Claims, NEW d \in Claims, c # d, Serves(c)', Serves(d)'
               PROVE  ~Overlap(claim'[c].spec, claim'[d].spec)
    BY DEF OneProvider
  <1>t. TypeOK /\ VerdictSound /\ OneProvider
    BY DEF ClaimInv
  <1>1. CASE ~Patch
    <2>1. Serves(c) /\ Serves(d) /\ claim'[c].spec = claim[c].spec /\ claim'[d].spec = claim[d].spec
      BY <1>1, ServesKept
    <2>2. QED
      BY <2>1, <1>t DEF OneProvider
  <1>2. CASE Patch
    <2>1. /\ claim'[c].spec = claim[c].spec /\ claim'[d].spec = claim[d].spec
          /\ Serves(c) \/ (c = cur /\ kind = "accept" /\ claim[c].spec = base.spec)
          /\ Serves(d) \/ (d = cur /\ kind = "accept" /\ claim[d].spec = base.spec)
      BY <1>2, PatchServes
    <2>2. CASE Serves(c) /\ Serves(d)
      BY <2>1, <2>2, <1>t DEF OneProvider
    <2>3. ASSUME kind = "accept", NEW e \in Claims \ {cur}, Serves(e) PROVE ~Overlap(base.spec, claim[e].spec)
      BY <2>3, <1>2, <1>t DEF VerdictSound, Patch
    <2>4. QED
      BY <2>1, <2>2, <2>3 DEF Overlap
  <1>3. QED
    BY <1>1, <1>2

(* With caches that follow the API server, two claims that were accepted   *)
(* for the specs they have never both serve a contract: whatever claims,   *)
(* catalogs and providers there are, whoever becomes Ready first, and      *)
(* whichever call fails (activeContractHolder, the activation latch and    *)
(* the patch of patchStatus).                                              *)
THEOREM OneProviderSafety == ASSUME CacheMayLag = FALSE PROVE Spec => []ClaimInv
  <1>1. ClaimInv /\ [Next]_vars => ClaimInv'
    BY TypeStep, ObjectsStep, RunStep, VerdictStep, ProviderStep DEF ClaimInv
  <1>2. QED
    BY <1>1, InitClaims, PTL DEF Spec
=============================================================================
