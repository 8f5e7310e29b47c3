----------------------- MODULE PackageLifecycleProofs -----------------------
(***************************************************************************)
(* Proofs about PackageLifecycle: that a directory is kept while it is     *)
(* read, that what the status says of the objects, of their health and of  *)
(* the next attempt is true, and that dependencies are applied first.      *)
(***************************************************************************)
EXTENDS PackageLifecycle, TLAPS

-----------------------------------------------------------------------------
(***************************************************************************)
(* Types of what a reconcile computes                                      *)
(***************************************************************************)
(* The initial status and an idle reconcile are well typed.                *)
LEMMA IdleTypes ==
  ASSUME NEW p \in Packages, NEW s \in Specs[p]
  PROVE  NewStatus \in Status /\ Idle \in Run
  <1>1. (CHOOSE x \in Spec0 : TRUE) \in Spec0
    BY DEF Spec0
  <1>2. 1 \in Generation /\ 0 \in 0 .. MaxTroubles + 1 /\ 0 \in 0 .. MaxCount /\ 0 \in Nat
    BY PackageAssumption DEF Generation
  <1>3. NoObject \in Object
    BY <1>1, <1>2 DEF NoObject, Object
  <1>4. NewStatus \in Status
    BY <1>2 DEF NewStatus, Status, Reason, Health
  <1>5. Idle \in Run
    BY <1>3, <1>4 DEF Idle, Run, Never
  <1>6. QED
    BY <1>4, <1>5

(* A package there is has a spec, so that there is an idle reconcile.      *)
LEMMA IdleTyped ==
  ASSUME TypeOK, NEW p \in Packages
  PROVE  Idle \in Run
  <1>1. pkg[p].spec \in Spec0
    BY DEF TypeOK, Object
  <1>2. PICK q \in Packages : pkg[p].spec \in Specs[q]
    BY <1>1 DEF Spec0
  <1>3. QED
    BY <1>2, IdleTypes

(* A product of positive numbers is positive.                              *)
LEMMA Positive ==
  ASSUME NEW a \in Nat \ {0}, NEW b \in Nat \ {0}
  PROVE  a * b \in Nat \ {0}
  OBVIOUS

(* Every wait is a number; a backoff and the recheck are positive.         *)
LEMMA WaitTypes ==
  /\ \A s \in Spec0 : interval(s) \in Int
  /\ \A r \in Run : modulePackageBackoff(r) \in Nat \ {0}
  /\ StalledRecheckInterval \in Nat \ {0}
  <1>1. ASSUME NEW s \in Spec0 PROVE interval(s) \in Int
    <2>1. PICK p \in Packages : s \in Specs[p]
      BY DEF Spec0
    <2>2. s.interval \in Int
      BY <2>1, PackageAssumption
    <2>3. QED
      BY <2>2, PackageAssumption DEF interval
  <1>2. ASSUME NEW r \in Run PROVE modulePackageBackoff(r) \in Nat \ {0}
    <2>1. r.base.count \in 0 .. MaxCount /\ MaxCount \in Nat
      BY PackageAssumption DEF Run, Status
    <2> DEFINE n == r.base.count
    <2>2. 2 ^ n \in Nat \ {0} /\ n + 1 - 1 = n
      BY <2>1, PowerAssumption
    <2>3. BackoffBaseDelay \in Nat \ {0} /\ BackoffMaxDelay \in Nat \ {0}
      BY PackageAssumption
    <2>4. BackoffBaseDelay * 2 ^ n \in Nat \ {0}
      BY <2>2, <2>3, Positive
    <2>5. modulePackageBackoff(r) \in {BackoffBaseDelay, BackoffBaseDelay * 2 ^ n, BackoffMaxDelay}
      BY <2>1, <2>2 DEF modulePackageBackoff, ComputeBackoff, Smaller
    <2>6. QED
      BY <2>3, <2>4, <2>5
  <1>3. QED
    BY <1>1, <1>2, PackageAssumption

(* What an attempt records is well typed.                                  *)
LEMMA RecordTypes ==
  ASSUME NEW s \in Status, NEW gen \in Generation
  PROVE  /\ \A stalled \in BOOLEAN, after \in Int : Failure(s, gen, stalled, after) \in Status
         /\ \A c \in Content : NoOp(s, gen, c) \in Status /\ Attempt(s, c) \in Status
         /\ [MarkSuspended(s) EXCEPT !.obs = gen] \in Status
         /\ [s EXCEPT !.ready = "DependenciesNotReady", !.obs = gen] \in Status
  <1>1. gen \in 0 .. MaxTroubles + 1 /\ 0 \in 0 .. MaxCount /\ 0 \in Nat
    BY PackageAssumption DEF Generation
  <1>2. ASSUME NEW stalled \in BOOLEAN, NEW after \in Int
        PROVE  Failure(s, gen, stalled, after) \in Status
    <2>1. Increment(s.count) \in 0 .. MaxCount /\ RetryAt(s, after) \in Nat
      BY PackageAssumption DEF Status, Increment, RetryAt
    <2>2. QED
      BY <1>1, <2>1 DEF Failure, Status, Reason
  <1>3. ASSUME NEW c \in Content PROVE NoOp(s, gen, c) \in Status /\ Attempt(s, c) \in Status
    BY <1>1 DEF NoOp, Attempt, Status, Reason
  <1>4. QED
    BY <1>1, <1>2, <1>3 DEF MarkSuspended, Status, Reason

(* A failed attempt is well typed.                                         *)
LEMMA FailedTypes ==
  ASSUME NEW r \in Run, NEW m \in Status, NEW stalled \in BOOLEAN, NEW after \in Int
  PROVE  FailedRun(r, m, stalled, after) \in Run
  <1>1. r.cur.gen \in Generation
    BY DEF Run, Object
  <1>2. Failure(m, r.cur.gen, stalled, after) \in Status
    BY <1>1, RecordTypes
  <1>3. QED
    BY <1>2 DEF FailedRun, Run

(* What a patch leaves in the status is well typed.                        *)
LEMMA SentTypes ==
  ASSUME TypeOK, NEW p \in Packages, NEW m \in Status, NEW conds \in BOOLEAN, NEW rest \in BOOLEAN
  PROVE  Sent(p, m, conds, rest) \in Status
  <1>1. st[p] \in Status
    BY DEF TypeOK
  <1>2. QED
    BY <1>1 DEF Sent, Status

(* The reconcile goes on with r, or is over.                               *)
LEMMA ContinuesTypes ==
  ASSUME TypeOK, NEW p \in Packages, NEW r \in Run, Continues(p, r)
  PROVE  /\ run' \in [Packages -> Run] /\ due' = due
         /\ run'[p] = r /\ \A q \in Packages \ {p} : run'[q] = run[q]
  BY DEF Continues, TypeOK

(* What a package is left with when its reconcile ends is well typed.      *)
LEMMA EndsTypes ==
  ASSUME TypeOK, NEW p \in Packages, NEW after \in Int, EndsRun(p, after)
  PROVE  /\ run' \in [Packages -> Run] /\ due' \in [Packages -> Int]
         /\ run'[p] = Idle /\ \A q \in Packages \ {p} : run'[q] = run[q] /\ due'[q] = due[q]
         /\ due'[p] = IF due[p] = Now THEN Now ELSE Larger(after, Never)
  <1>1. Larger(after, Never) \in Int /\ Now \in Int
    BY DEF Larger, Never, Now
  <1>2. QED
    BY <1>1, IdleTyped DEF EndsRun, TypeOK

(* A wake-up makes the packages it names due now, and delays no other.     *)
LEMMA WakesTypes ==
  ASSUME TypeOK, NEW S, Wakes(S)
  PROVE  /\ due' \in [Packages -> Int]
         /\ \A p \in Packages : due'[p] \in {due[p], Now}
         /\ \A p \in Packages : p \in S => due'[p] = Now
  BY DEF Wakes, TypeOK, Now

(* The count of edits and faults only grows, up to its bound.              *)
LEMMA TroubleTypes ==
  ASSUME troubles \in 0 .. MaxTroubles, Trouble \/ UNCHANGED troubles
  PROVE  /\ troubles' \in 0 .. MaxTroubles /\ troubles' >= troubles
         /\ Trouble => troubles' = troubles + 1
  BY PackageAssumption DEF Trouble

-----------------------------------------------------------------------------
(***************************************************************************)
(* What a step leaves alone                                                *)
(***************************************************************************)
(* What is said of one package, but for its dependencies.                  *)
Own(p) == RunRead(p) /\ BaseSound(p) /\ AppliedSound(p) /\ HealthSound(p)

(* A directory is there for the reconcile that renders and for the render  *)
(* that outlived one.                                                      *)
DirHeld(p) ==
    /\ "run" \in dirs[p] <=> run[p].pc = "render"
    /\ "late" \in dirs[p] <=> p \in late

(* The next attempt of a failed package is no later than announced.        *)
Announced(p) ==
    st[p].ready = "Failed" /\ run[p].pc = "idle" /\ pkg[p].exists /\ p \notin lost
    /\ interval(pkg[p].spec) > 0 =>
      due[p] = Now \/ (due[p] > 0 /\ due[p] <= st[p].retry)

Outside(p) == DirHeld(p) /\ Announced(p)

(* The package and its objects are as they were.                           *)
Kept(p) ==
    /\ pkg'[p] = pkg[p] /\ st'[p] = st[p] /\ objects'[p] = objects[p] /\ roll'[p] = roll[p]
    /\ p \in lost' <=> p \in lost
    /\ p \in dirty' <=> p \in dirty
    /\ p \in rolledOut' <=> p \in rolledOut

(* And so is its reconcile; it may have been woken.                        *)
Still(p) ==
    /\ Kept(p) /\ run'[p] = run[p] /\ due'[p] \in {due[p], Now}
    /\ dirs'[p] = dirs[p]
    /\ p \in late' <=> p \in late

Others(p) == \A q \in Packages \ {p} : Still(q)

(* A reconcile is past the gates only if it was, or goes through now.      *)
Onward(p) ==
    run'[p].pc \in {"fetch", "render", "store", "apply"} =>
      /\ run'[p].cur = run[p].cur
      /\ run[p].pc \in {"fetch", "render", "store", "apply"} \/ Takes(p, "resolve")

(* A package that a step leaves alone stays sound.                         *)
LEMMA StillSound ==
  ASSUME TypeOK, troubles' \in Nat, troubles' >= troubles, NEW p \in Packages, Own(p), Outside(p), Still(p)
  PROVE  Own(p)' /\ Outside(p)'
  <1>1. troubles \in Nat /\ pkg[p].gen \in Nat
    BY PackageAssumption DEF TypeOK, Object, Generation
  <1>2. RunRead(p)'
    BY <1>1 DEF Own, Still, Kept, RunRead
  <1>3. BaseSound(p)'
    BY DEF Own, Still, Kept, BaseSound
  <1>4. AppliedSound(p)'
    BY DEF Own, Still, Kept, AppliedSound
  <1>5. HealthSound(p)'
    BY DEF Own, Still, Kept, HealthSound
  <1>6. DirHeld(p)' /\ Announced(p)'
    BY DEF Outside, Still, Kept, DirHeld, Announced
  <1>7. QED
    BY <1>2, <1>3, <1>4, <1>5, <1>6 DEF Own, Outside

(* The directories are as the properties have them, package by package.    *)
LEMMA DirsByPackage ==
  ASSUME dirs \in [Packages -> SUBSET {"run", "late"}]
  PROVE  DirsHeld <=> \A p \in Packages : DirHeld(p)
  BY DEF DirsHeld, DirHeld

(* A directory of a package is read by its reconcile or by a render that   *)
(* outlived it.                                                            *)
LEMMA DirKnown ==
  ASSUME PackageInv, NEW p \in Packages
  PROVE  DirHeld(p)
  BY DirsByPackage DEF PackageInv, TypeOK
-----------------------------------------------------------------------------
(***************************************************************************)
(* The gates                                                               *)
(***************************************************************************)
LEMMA StartSound ==
  ASSUME PackageInv, NEW p \in Packages, Start(p)
  PROVE  TypeOK' /\ Own(p)' /\ Outside(p)' /\ Others(p) /\ Onward(p)
  <1>t. TypeOK /\ Own(p)
    BY DEF PackageInv, Own
  <1> DEFINE new == [Idle EXCEPT !.pc = "act", !.cur = pkg[p], !.base = st[p], !.mi = st[p]]
  <1>1. new \in Run /\ Idle \in Run
    BY <1>t, IdleTyped DEF Run, TypeOK
  <1>2. new.pc = "act" /\ new.cur = pkg[p] /\ new.base = st[p] /\ new.mi = st[p] /\ ~new.fresh
    BY DEF Idle
  <1> HIDE DEF new
  <1>3. /\ run' \in [Packages -> Run] /\ run'[p] = (IF pkg[p].exists THEN new ELSE Idle)
        /\ \A q \in Packages \ {p} : run'[q] = run[q] /\ due'[q] = due[q]
        /\ due' \in [Packages -> Int] /\ due'[p] = Never
    BY <1>1, <1>t DEF Start, new, TypeOK, Never
  <1>4. UNCHANGED <<pkg, st, objects, roll, worldVars, late, dirs, histVars, troubles>>
    BY DEF Start
  <1>5. TypeOK'
    BY <1>t, <1>3, <1>4 DEF TypeOK, worldVars, platVars, histVars
  <1>6. Others(p)
    BY <1>3, <1>4 DEF Others, Still, Kept, histVars
  <1>7. Idle.pc = "idle" /\ ~Idle.fresh
    BY DEF Idle
  <1>8. RunRead(p)'
    BY <1>t, <1>2, <1>3, <1>4, <1>7 DEF Own, RunRead
  <1>9. BaseSound(p)'
    BY <1>t, <1>2, <1>3, <1>4, <1>7 DEF BaseSound
  <1>10. AppliedSound(p)'
    BY <1>t, <1>2, <1>3, <1>4, <1>7 DEF Own, AppliedSound, RunRead, histVars, Start
  <1>11. HealthSound(p)'
    BY <1>t, <1>2, <1>3, <1>4, <1>7 DEF Own, HealthSound, histVars, Start
  <1>12. DirHeld(p)' /\ Announced(p)' /\ Onward(p)
    BY <1>2, <1>3, <1>4, <1>7, DirKnown DEF DirHeld, Announced, Start, Onward
  <1>13. QED
    BY <1>5, <1>6, <1>8, <1>9, <1>10, <1>11, <1>12 DEF Own, Outside


(* The finalizer is written, or the reconcile ends without it.             *)
LEMMA ActEndsSound ==
  ASSUME PackageInv, NEW p \in Packages, addModulePackageFinalizer(p) \/ ActFails(p)
  PROVE  TypeOK' /\ Own(p)' /\ Outside(p)' /\ Others(p) /\ Onward(p)
  <1>t. TypeOK /\ Own(p)
    BY DEF PackageInv, Own
  <1>1. EndsRun(p, Now) /\ Now \in Int /\ run[p].pc = "act"
    BY DEF addModulePackageFinalizer, ActFails, Now
  <1>2. /\ run' \in [Packages -> Run] /\ due' \in [Packages -> Int]
        /\ run'[p] = Idle /\ \A q \in Packages \ {p} : run'[q] = run[q] /\ due'[q] = due[q]
        /\ due'[p] = Now
    BY <1>t, <1>1, EndsTypes DEF Larger, Now, Never
  <1>3. UNCHANGED <<st, objects, roll, worldVars, late, dirs, histVars>>
    BY DEF addModulePackageFinalizer, ActFails
  <1>4. troubles' \in 0 .. MaxTroubles /\ troubles' >= troubles
    BY <1>t, TroubleTypes DEF TypeOK, addModulePackageFinalizer, ActFails
  <1>5. /\ pkg' \in [Packages -> Object] /\ \A q \in Packages \ {p} : pkg'[q] = pkg[q]
        /\ pkg'[p].exists = pkg[p].exists /\ pkg'[p].gen = pkg[p].gen
        /\ pkg'[p].fin => pkg[p].fin \/ pkg[p].exists
    <2>1. CASE UNCHANGED pkg
      BY <1>t, <2>1 DEF TypeOK
    <2>2. CASE pkg' = [pkg EXCEPT ![p].fin = @ \/ pkg[p].exists]
      <3>1. pkg[p] \in Object /\ pkg[p].fin \in BOOLEAN /\ pkg[p].exists \in BOOLEAN
        BY <1>t DEF TypeOK, Object
      <3> DEFINE f == pkg[p].fin \/ pkg[p].exists
      <3>2. f \in BOOLEAN
        OBVIOUS
      <3>3. pkg' = [pkg EXCEPT ![p] = [pkg[p] EXCEPT !.fin = f]]
        BY <2>2
      <3> HIDE DEF f
      <3>4. [pkg[p] EXCEPT !.fin = f] \in Object
        BY <3>1, <3>2 DEF Object
      <3>5. /\ pkg' \in [Packages -> Object] /\ \A q \in Packages \ {p} : pkg'[q] = pkg[q]
            /\ pkg'[p].exists = pkg[p].exists /\ pkg'[p].gen = pkg[p].gen /\ pkg'[p].fin = f
        BY <3>3, <3>4, <1>t DEF TypeOK, Object
      <3>6. QED
        BY <3>5, Zenon DEF f
    <2>3. QED
      BY <2>1, <2>2 DEF addModulePackageFinalizer, ActFails
  <1>6. TypeOK'
    BY <1>t, <1>2, <1>3, <1>4, <1>5 DEF TypeOK, worldVars, platVars, histVars
  <1>7. Others(p)
    BY <1>2, <1>3, <1>5 DEF Others, Still, Kept, histVars
  <1>8. Idle.pc = "idle" /\ ~Idle.fresh /\ ~run[p].fresh
    BY <1>t, <1>1 DEF Idle, Own, RunRead
  <1>9. RunRead(p)'
    <2>1. pkg[p].gen \in Nat /\ troubles \in Nat /\ troubles' \in Nat
      BY <1>t, <1>4, PackageAssumption DEF TypeOK, Object, Generation
    <2>2. QED
      BY <1>t, <1>2, <1>4, <1>5, <1>8, <2>1 DEF Own, RunRead
  <1>10. BaseSound(p)'
    BY <1>2, <1>8 DEF BaseSound
  <1>11. AppliedSound(p)'
    BY <1>t, <1>2, <1>3, <1>5, <1>8 DEF Own, AppliedSound, histVars
  <1>12. HealthSound(p)'
    BY <1>t, <1>1, <1>2, <1>3, <1>5, <1>8 DEF Own, HealthSound, histVars
  <1>13. DirHeld(p)' /\ Announced(p)' /\ Onward(p)
    BY <1>1, <1>2, <1>3, <1>8, DirKnown DEF DirHeld, Announced, Onward
  <1>14. QED
    BY <1>6, <1>7, <1>9, <1>10, <1>11, <1>12, <1>13 DEF Own, Outside

(* The cleanup is done: the package and what it recorded are gone.         *)
LEMMA DeletionSound ==
  ASSUME PackageInv, NEW p \in Packages, handleModulePackageDeletion(p)
  PROVE  TypeOK' /\ Own(p)' /\ Outside(p)' /\ Others(p) /\ Onward(p)
  <1>t. TypeOK /\ Own(p)
    BY DEF PackageInv, Own
  <1>1. EndsRun(p, Never) /\ Never \in Int
    BY DEF handleModulePackageDeletion, Never
  <1>2. /\ run' \in [Packages -> Run] /\ due' \in [Packages -> Int]
        /\ run'[p] = Idle /\ \A q \in Packages \ {p} : run'[q] = run[q] /\ due'[q] = due[q]
    BY <1>t, <1>1, EndsTypes
  <1>3. UNCHANGED <<st, worldVars, late, dirs, histVars, troubles>>
    BY DEF handleModulePackageDeletion
  <1>4. /\ pkg' \in [Packages -> Object] /\ \A q \in Packages \ {p} : pkg'[q] = pkg[q]
        /\ ~pkg'[p].exists /\ ~pkg'[p].fin /\ pkg'[p].gen = pkg[p].gen
        /\ pkg'[p].deleting = pkg[p].deleting
    <2>1. pkg' = [pkg EXCEPT ![p] = [pkg[p] EXCEPT !.fin = FALSE, !.exists = FALSE]]
      BY <1>t DEF TypeOK, handleModulePackageDeletion
    <2>2. pkg[p] \in Object
      BY <1>t DEF TypeOK
    <2>3. [pkg[p] EXCEPT !.fin = FALSE, !.exists = FALSE] \in Object
      BY <2>2 DEF Object
    <2>4. QED
      BY <1>t, <2>1, <2>2, <2>3 DEF TypeOK, Object
  <1>5. /\ objects' \in [Packages -> Content \cup {None, Mixed}]
        /\ \A q \in Packages \ {p} : objects'[q] = objects[q]
    BY <1>t DEF TypeOK, handleModulePackageDeletion
  <1>6. /\ roll' \in [Packages -> {"none", "rolling", "ready", "stuck"}]
        /\ roll'[p] = "none" /\ \A q \in Packages \ {p} : roll'[q] = roll[q]
    BY <1>t DEF TypeOK, handleModulePackageDeletion
  <1>7. TypeOK'
    BY <1>t, <1>2, <1>3, <1>4, <1>5, <1>6 DEF TypeOK, worldVars, platVars, histVars
  <1>8. Others(p)
    BY <1>2, <1>3, <1>4, <1>5, <1>6 DEF Others, Still, Kept, histVars
  <1>9. Idle.pc = "idle" /\ ~Idle.fresh
    BY DEF Idle
  <1>10. RunRead(p)' /\ BaseSound(p)'
    BY <1>t, <1>2, <1>3, <1>4, <1>9 DEF Own, RunRead, BaseSound
  <1>11. AppliedSound(p)' /\ HealthSound(p)'
    BY <1>t, <1>2, <1>3, <1>4, <1>6, <1>9 DEF Own, AppliedSound, HealthSound, histVars
  <1>12. DirHeld(p)' /\ Announced(p)' /\ Onward(p)
    <2>1. run[p].pc = "act"
      BY DEF handleModulePackageDeletion, Takes
    <2>2. QED
      BY <1>2, <1>3, <1>4, <1>9, <2>1, DirKnown DEF DirHeld, Announced, Onward
  <1>13. QED
    BY <1>7, <1>8, <1>10, <1>11, <1>12 DEF Own, Outside

-----------------------------------------------------------------------------
(***************************************************************************)
(* Steps of a reconcile that change nothing but the reconcile              *)
(***************************************************************************)
(* The reconcile r of p may become new without a write to the cluster.     *)
Moves(p, new) ==
    LET r == run[p]
    IN /\ r.pc \notin {"idle", "commit", "gate"} /\ new.pc \notin {"idle", "act"} /\ r.cur.fin
       /\ new.cur = r.cur /\ new.base = r.base /\ new.fresh = r.fresh /\ new.mi.digest = r.mi.digest
       /\ new.pc \in {"fetch", "render"} => new.art \in Artifacts
       /\ new.pc \in {"store", "apply"} => new.content \in Content
       /\ new.pc \in {"fetch", "render", "store", "apply"} => new.mi.healthy = new.base.healthy
       /\ new.pc \in {"fetch", "render", "store", "apply"} =>
            r.pc \in {"fetch", "render", "store", "apply"} \/ Takes(p, "resolve")
       /\ r.pc = "judge" => new.pc = "commit"
       /\ new.pc = "judge" => new.mi.ready = "Succeeded"
       /\ new.pc = "gate" => new.mi.ready \in {"Suspended", "DependenciesNotReady"}
       /\ new.pc = "commit" => new.mi.ready \in {"Failed", "Succeeded"}
       /\ new.pc = "commit" /\ new.mi.ready = "Failed" =>
            /\ new.mi.retry = IF new.after > 0 THEN new.after ELSE 0
            /\ new.after < 0 => interval(new.cur.spec) < 0
       /\ new.mi.inputs # None => new.mi.digest # None
       /\ new.pc \in {"judge", "commit"} /\ new.mi.ready = "Succeeded" => new.mi.digest # None
       /\ new.pc = "commit" /\ new.mi.ready = "Succeeded" /\ new.mi.healthy = "RolledOut" => p \in rolledOut

(* Such a step keeps the types and the other packages, and is sound.       *)
LEMMA MoveSound ==
  ASSUME PackageInv, NEW p \in Packages, NEW new \in Run, Continues(p, new), Moves(p, new),
         UNCHANGED <<pkg, st, objects, roll, worldVars, histVars>>, Trouble \/ UNCHANGED troubles,
         late' \in SUBSET Packages, dirs' \in [Packages -> SUBSET {"run", "late"}],
         \A q \in Packages \ {p} : dirs'[q] = dirs[q] /\ (q \in late' <=> q \in late),
         "run" \in dirs'[p] <=> new.pc = "render", "late" \in dirs'[p] <=> p \in late'
  PROVE  TypeOK' /\ Own(p)' /\ Outside(p)' /\ Others(p) /\ Onward(p)
  <1>t. TypeOK /\ Own(p)
    BY DEF PackageInv, Own
  <1>1. /\ run' \in [Packages -> Run] /\ due' = due
        /\ run'[p] = new /\ \A q \in Packages \ {p} : run'[q] = run[q]
    BY <1>t, ContinuesTypes
  <1>2. troubles' \in 0 .. MaxTroubles /\ troubles' >= troubles
    BY <1>t, TroubleTypes DEF TypeOK
  <1>3. TypeOK'
    BY <1>t, <1>1, <1>2 DEF TypeOK, worldVars, platVars, histVars
  <1>4. Others(p)
    BY <1>1 DEF Others, Still, Kept, histVars
  <1>5. RunRead(p)'
    <2>1. pkg[p].gen \in Nat /\ troubles \in Nat /\ troubles' \in Nat
      BY <1>t, <1>2, PackageAssumption DEF TypeOK, Object, Generation
    <2>2. new.fresh => new.pc \in {"judge", "commit"}
      BY <1>t DEF Own, RunRead, Moves
    <2>3. QED
      BY <1>t, <1>1, <1>2, <2>1, <2>2 DEF Own, RunRead, Moves
  <1>6. BaseSound(p)'
    BY <1>t, <1>1 DEF Own, BaseSound, Moves
  <1>7. AppliedSound(p)'
    BY <1>t, <1>1 DEF Own, AppliedSound, Moves, histVars
  <1>8. HealthSound(p)'
    <2>1. new.pc \notin {"judge", "commit", "gate"} => run[p].pc \notin {"judge", "commit", "gate"}
      BY DEF Moves
    <2>2. QED
      BY <1>t, <1>1, <2>1 DEF Own, HealthSound, Moves, histVars
  <1>9. DirHeld(p)' /\ Announced(p)' /\ Onward(p)
    BY <1>1 DEF DirHeld, Announced, Moves, Onward
  <1>10. QED
    BY <1>3, <1>4, <1>5, <1>6, <1>7, <1>8, <1>9 DEF Own, Outside

(* What the Own of a reconcile before its apply says of it.                *)
LEMMA EarlyFacts ==
  ASSUME TypeOK, NEW p \in Packages, Own(p), run[p].pc \in {"act", "fetch", "render", "store", "apply"}
  PROVE  /\ run[p] \in Run /\ run[p].mi \in Status /\ run[p].base \in Status /\ run[p].cur \in Object
         /\ run[p].cur.spec \in Spec0 /\ run[p].cur.gen \in Generation
         /\ ~run[p].fresh /\ run[p].mi.digest = run[p].base.digest
         /\ st[p].digest = run[p].base.digest /\ st[p].inputs = run[p].base.inputs
         /\ st[p].ready = run[p].base.ready /\ run[p].mi.healthy = run[p].base.healthy
         /\ run[p].mi.inputs # None => run[p].mi.digest # None
         /\ run[p].base.inputs # None => run[p].base.digest # None
  <1>1. /\ run[p] \in Run /\ run[p].mi \in Status /\ run[p].base \in Status /\ run[p].cur \in Object
        /\ run[p].cur.spec \in Spec0 /\ run[p].cur.gen \in Generation /\ run[p].fresh \in BOOLEAN
    BY DEF TypeOK, Run, Object
  <1>2. ~run[p].fresh
    BY DEF Own, RunRead
  <1>3. /\ st[p].digest = run[p].base.digest /\ st[p].inputs = run[p].base.inputs
        /\ st[p].ready = run[p].base.ready /\ run[p].mi.healthy = run[p].base.healthy
    BY DEF Own, BaseSound
  <1>4. /\ run[p].mi.digest = run[p].base.digest
        /\ run[p].mi.inputs # None => run[p].mi.digest # None
        /\ st[p].inputs # None => st[p].digest # None
    BY <1>2 DEF Own, AppliedSound
  <1>5. QED
    BY <1>1, <1>2, <1>3, <1>4

(* The fields of a failed attempt.                                         *)
LEMMA FailedFields ==
  ASSUME NEW r \in Run, NEW m \in Status, NEW stalled \in BOOLEAN, NEW after \in Int
  PROVE  LET new == FailedRun(r, m, stalled, after)
         IN /\ new.pc = "commit" /\ new.cur = r.cur /\ new.base = r.base /\ new.fresh = r.fresh
            /\ new.after = after /\ new.mi.ready = "Failed" /\ new.mi.digest = m.digest
            /\ new.mi.inputs = m.inputs /\ new.mi.healthy = m.healthy
            /\ new.mi.retry = IF after > 0 THEN after ELSE 0
  <1> DEFINE f == Failure(m, r.cur.gen, stalled, after)
  <1>1. /\ f.ready = "Failed" /\ f.digest = m.digest /\ f.inputs = m.inputs /\ f.healthy = m.healthy
        /\ f.retry = IF after > 0 THEN after ELSE 0
    BY DEF Failure, RetryAt, Status
  <1> HIDE DEF f
  <1>2. FailedRun(r, m, stalled, after) =
          [r EXCEPT !.pc = "commit", !.art = None, !.content = None, !.after = after, !.mi = f]
    BY DEF FailedRun, f
  <1>3. QED
    BY <1>1, <1>2 DEF Run

(* An attempt that fails before it writes is such a step.                  *)
LEMMA FailMoves ==
  ASSUME TypeOK, NEW p \in Packages, Own(p), run[p].pc \in {"act", "fetch", "render"}, run[p].cur.fin,
         NEW stalled \in BOOLEAN, NEW after \in Int, after < 0 => interval(run[p].cur.spec) < 0
  PROVE  LET new == FailedRun(run[p], run[p].mi, stalled, after)
         IN new \in Run /\ Moves(p, new)
  <1> DEFINE new == FailedRun(run[p], run[p].mi, stalled, after)
  <1>1. new \in Run
    BY EarlyFacts, FailedTypes
  <1>2. /\ new.pc = "commit" /\ new.cur = run[p].cur /\ new.base = run[p].base
        /\ new.fresh = run[p].fresh /\ new.after = after /\ new.mi.ready = "Failed"
        /\ new.mi.digest = run[p].mi.digest /\ new.mi.inputs = run[p].mi.inputs
        /\ new.mi.retry = IF after > 0 THEN after ELSE 0
    BY EarlyFacts, FailedFields
  <1> HIDE DEF new
  <1>3. Moves(p, new)
    BY <1>2, EarlyFacts DEF Moves
  <1>4. QED
    BY <1>1, <1>3 DEF new


(* Suspended, or waiting for a dependency.                                 *)
LEMMA GateSound ==
  ASSUME PackageInv, NEW p \in Packages, handleSuspend(p) \/ WaitsForDependency(p)
  PROVE  TypeOK' /\ Own(p)' /\ Outside(p)' /\ Others(p) /\ Onward(p)
  <1>t. TypeOK /\ Own(p)
    BY DEF PackageInv, Own
  <1>1. run[p].pc = "act" /\ run[p].cur.fin
    BY DEF handleSuspend, WaitsForDependency, Takes
  <1>e. /\ run[p] \in Run /\ run[p].mi \in Status
        /\ run[p].cur.spec \in Spec0 /\ run[p].cur.gen \in Generation
        /\ run[p].mi.inputs # None => run[p].mi.digest # None
    BY <1>t, <1>1, EarlyFacts
  <1>2. PICK m \in Status, after \in Int :
          /\ Continues(p, [run[p] EXCEPT !.pc = "gate", !.after = after, !.mi = m])
          /\ m.ready \in {"Suspended", "DependenciesNotReady"}
          /\ m.digest = run[p].mi.digest /\ m.inputs = run[p].mi.inputs
    <2>1. CASE handleSuspend(p)
      <3> DEFINE m == [MarkSuspended(run[p].mi) EXCEPT !.obs = run[p].cur.gen]
      <3>1. m \in Status /\ run[p].after \in Int
        BY <1>e, RecordTypes DEF Run
      <3>2. m.ready = "Suspended" /\ m.digest = run[p].mi.digest /\ m.inputs = run[p].mi.inputs
        BY <1>e DEF MarkSuspended, Status
      <3>3. Continues(p, [run[p] EXCEPT !.pc = "gate", !.mi = m])
        BY <2>1 DEF handleSuspend
      <3> HIDE DEF m
      <3>4. [run[p] EXCEPT !.pc = "gate", !.after = run[p].after, !.mi = m]
              = [run[p] EXCEPT !.pc = "gate", !.mi = m]
        BY <1>e DEF Run
      <3>5. QED
        BY <3>1, <3>2, <3>3, <3>4
    <2>2. CASE WaitsForDependency(p)
      <3> DEFINE m == [run[p].mi EXCEPT !.ready = "DependenciesNotReady", !.obs = run[p].cur.gen]
                 i == interval(run[p].cur.spec)
      <3>1. m \in Status /\ i \in Int
        BY <1>e, RecordTypes, WaitTypes
      <3>2. m.ready = "DependenciesNotReady" /\ m.digest = run[p].mi.digest /\ m.inputs = run[p].mi.inputs
        BY <1>e DEF Status
      <3>3. Continues(p, [run[p] EXCEPT !.pc = "gate", !.after = i,
                                        !.mi.ready = "DependenciesNotReady", !.mi.obs = run[p].cur.gen])
        BY <2>2 DEF WaitsForDependency
      <3>4. [run[p] EXCEPT !.pc = "gate", !.after = i,
                           !.mi.ready = "DependenciesNotReady", !.mi.obs = run[p].cur.gen]
              = [run[p] EXCEPT !.pc = "gate", !.after = i, !.mi = m]
        BY <1>e DEF Run, Status
      <3> HIDE DEF m, i
      <3>5. QED
        BY <3>1, <3>2, <3>3, <3>4
    <2>3. QED
      BY <2>1, <2>2
  <1> DEFINE new == [run[p] EXCEPT !.pc = "gate", !.after = after, !.mi = m]
  <1>3. /\ new \in Run /\ new.pc = "gate" /\ new.mi = m /\ new.cur = run[p].cur /\ new.base = run[p].base
        /\ new.fresh = run[p].fresh
    BY <1>e DEF Run
  <1>4. Continues(p, new)
    BY <1>2
  <1> HIDE DEF new
  <1>5. Moves(p, new)
    BY <1>1, <1>2, <1>3, <1>e DEF Moves
  <1>6. /\ UNCHANGED <<pkg, st, objects, roll, worldVars, late, dirs, histVars>>
        /\ Trouble \/ UNCHANGED troubles
    BY DEF handleSuspend, WaitsForDependency
  <1>7. "run" \notin dirs[p] /\ ("late" \in dirs[p] <=> p \in late)
    BY <1>1, DirKnown DEF DirHeld
  <1>8. QED
    BY <1>t, <1>3, <1>4, <1>5, <1>6, <1>7, MoveSound DEF TypeOK

(* Who holds which directory after a render, and the types of it.          *)
LEMMA DirsTypes ==
  ASSUME TypeOK, NEW p \in Packages, NEW timedOut \in BOOLEAN
  PROVE  LET d == DirsAfterRender(p, timedOut)
         IN /\ d \in [Packages -> SUBSET {"run", "late"}] /\ \A q \in Packages \ {p} : d[q] = dirs[q]
            /\ d[p] = (dirs[p] \ {"run"}) \cup (IF timedOut THEN {"late"} ELSE {})
  BY DEF TypeOK, DirsAfterRender

(* The attempt fails before it writes.                                     *)
LEMMA FailSound ==
  ASSUME PackageInv, NEW p \in Packages,
         \/ ResolveFails(p) \/ fetchModulePackageArtifactFails(p)
         \/ RenderStalls(p) \/ RenderFails(p) \/ RenderTimesOut(p)
  PROVE  TypeOK' /\ Own(p)' /\ Outside(p)' /\ Others(p) /\ Onward(p)
  <1>t. TypeOK /\ Own(p)
    BY DEF PackageInv, Own
  <1>1. run[p].pc \in {"act", "fetch", "render"} /\ run[p].cur.fin
    BY <1>t DEF ResolveFails, fetchModulePackageArtifactFails, RenderStalls, RenderFails,
                RenderTimesOut, Takes, Own, RunRead
  <1>e. run[p] \in Run /\ run[p].mi \in Status /\ run[p].cur.spec \in Spec0
    BY <1>t, <1>1, EarlyFacts
  <1>w. /\ interval(run[p].cur.spec) \in Int /\ modulePackageBackoff(run[p]) \in Nat \ {0}
        /\ StalledRecheckInterval \in Nat \ {0}
    BY <1>e, WaitTypes
  <1>2. PICK stalled \in BOOLEAN, after \in {interval(run[p].cur.spec), modulePackageBackoff(run[p]),
                                             StalledRecheckInterval} :
          Fails(p, stalled, after)
    BY DEF ResolveFails, resolveModulePackageSource, fetchModulePackageArtifactFails, RenderStalls,
           RenderFails, RenderTimesOut
  <1>3. after \in Int /\ (after < 0 => interval(run[p].cur.spec) < 0)
    BY <1>w
  <1> DEFINE new == FailedRun(run[p], run[p].mi, stalled, after)
  <1>4. new \in Run /\ Moves(p, new)
    BY <1>t, <1>1, <1>3, FailMoves
  <1>5. Continues(p, new)
    BY <1>2 DEF Fails
  <1> HIDE DEF new
  <1>6. /\ UNCHANGED <<pkg, st, objects, roll, worldVars, histVars>>
        /\ Trouble \/ UNCHANGED troubles
    BY DEF ResolveFails, fetchModulePackageArtifactFails, RenderStalls, RenderFails, RenderTimesOut
  <1>7. /\ late' \in {late, late \cup {p}}
        /\ dirs' \in {dirs, DirsAfterRender(p, TRUE), DirsAfterRender(p, FALSE)}
    BY DEF ResolveFails, fetchModulePackageArtifactFails, RenderStalls, RenderFails, RenderTimesOut
  <1>8. /\ late' \in SUBSET Packages /\ \A q \in Packages \ {p} : q \in late' <=> q \in late
        /\ dirs' \in [Packages -> SUBSET {"run", "late"}]
        /\ \A q \in Packages \ {p} : dirs'[q] = dirs[q]
    <2>1. late' \in SUBSET Packages /\ \A q \in Packages \ {p} : q \in late' <=> q \in late
      BY <1>t, <1>7 DEF TypeOK
    <2>2. dirs \in [Packages -> SUBSET {"run", "late"}]
      BY <1>t DEF TypeOK
    <2>3. ASSUME NEW timedOut \in BOOLEAN, dirs' = DirsAfterRender(p, timedOut)
          PROVE  /\ dirs' \in [Packages -> SUBSET {"run", "late"}]
                 /\ \A q \in Packages \ {p} : dirs'[q] = dirs[q]
      BY <1>t, <2>3, DirsTypes
    <2>4. /\ dirs' \in [Packages -> SUBSET {"run", "late"}]
          /\ \A q \in Packages \ {p} : dirs'[q] = dirs[q]
      <3>1. CASE dirs' = dirs
        BY <2>2, <3>1
      <3>2. CASE dirs' = DirsAfterRender(p, TRUE)
        BY <2>3, <3>2
      <3>3. CASE dirs' = DirsAfterRender(p, FALSE)
        BY <2>3, <3>3
      <3>4. QED
        BY <1>7, <3>1, <3>2, <3>3
    <2>5. QED
      BY <2>1, <2>4
  <1>9. new.pc = "commit"
    BY <1>e, <1>3, FailedFields DEF new
  <1>10. "run" \notin dirs'[p] /\ ("late" \in dirs'[p] <=> p \in late')
    <2>1. "run" \in dirs[p] <=> run[p].pc = "render"
      BY DirKnown DEF DirHeld
    <2>2. "late" \in dirs[p] <=> p \in late
      BY DirKnown DEF DirHeld
    <2>3. CASE run[p].pc # "render"
      <3>1. dirs' = dirs /\ late' = late
        BY <2>3 DEF ResolveFails, fetchModulePackageArtifactFails, RenderStalls, RenderFails, RenderTimesOut
      <3>2. QED
        BY <2>1, <2>2, <2>3, <3>1
    <2>4. CASE run[p].pc = "render" /\ RenderTimesOut(p)
      <3>1. dirs' = DirsAfterRender(p, TRUE) /\ late' = late \cup {p}
        BY <2>4 DEF RenderTimesOut
      <3>2. dirs'[p] = (dirs[p] \ {"run"}) \cup {"late"}
        BY <1>t, <3>1 DEF DirsAfterRender, TypeOK
      <3>3. QED
        BY <3>1, <3>2
    <2>5. CASE run[p].pc = "render" /\ ~RenderTimesOut(p)
      <3>1. dirs' = DirsAfterRender(p, FALSE) /\ late' = late
        BY <2>5 DEF ResolveFails, Takes, fetchModulePackageArtifactFails, RenderStalls, RenderFails
      <3>2. dirs'[p] = dirs[p] \ {"run"}
        BY <1>t, <3>1 DEF DirsAfterRender, TypeOK
      <3>3. QED
        BY <2>2, <3>1, <3>2
    <2>6. QED
      BY <2>3, <2>4, <2>5
  <1>11. QED
    BY <1>4, <1>5, <1>6, <1>8, <1>9, <1>10, MoveSound


(* What is rendered is a content.                                          *)
LEMMA ContentTypes ==
  \A a \in Artifacts, x \in Platforms :
    [dig |-> a.dig, plat |-> x] \in Content /\ [dig |-> a.dig, plat |-> x] \notin {None, Mixed}
  BY PackageAssumption DEF Content, Digests

(* The source is resolved, and rendered or known already.                  *)
LEMMA ResolveSound ==
  ASSUME PackageInv, NEW p \in Packages, Resolve(p)
  PROVE  TypeOK' /\ Own(p)' /\ Outside(p)' /\ Others(p) /\ Onward(p)
  <1>t. TypeOK /\ Own(p)
    BY DEF PackageInv, Own
  <1>1. run[p].pc = "act" /\ run[p].cur.fin
    BY DEF Resolve, Takes
  <1>2. src.art \in Artifacts /\ cr \in Platforms \cup {None}
    BY <1>t DEF Resolve, resolveModulePackageSource, TypeOK, Source
  <1>e. /\ run[p] \in Run /\ run[p].mi \in Status /\ run[p].base \in Status
        /\ ~run[p].fresh /\ run[p].mi.digest = run[p].base.digest
        /\ run[p].mi.healthy = run[p].base.healthy
        /\ run[p].mi.inputs # None => run[p].mi.digest # None
        /\ run[p].base.inputs # None => run[p].base.digest # None
    BY <1>t, <1>1, EarlyFacts
  <1>3. /\ UNCHANGED <<pkg, st, objects, roll, worldVars, late, dirs, histVars>>
        /\ Trouble \/ UNCHANGED troubles
    BY DEF Resolve
  <1>d. "run" \notin dirs[p] /\ ("late" \in dirs[p] <=> p \in late)
    BY <1>1, DirKnown DEF DirHeld
  <1>4. ASSUME packageRenderSkippable(run[p]), Continues(p, judgeSkippedPackage(run[p]))
        PROVE  TypeOK' /\ Own(p)' /\ Outside(p)' /\ Others(p) /\ Onward(p)
    <2> DEFINE new == [run[p] EXCEPT !.pc = "judge"]
    <2>1. /\ new \in Run /\ new.pc = "judge" /\ new.cur = run[p].cur /\ new.base = run[p].base
          /\ new.mi = run[p].mi /\ new.fresh = run[p].fresh
      BY <1>e DEF Run
    <2>2. run[p].base.ready = "Succeeded" /\ run[p].base.digest # None
      <3>1. cr \in Platforms /\ run[p].base.inputs = [dig |-> src.art.dig, plat |-> cr]
        BY <1>2, <1>4 DEF packageRenderSkippable
      <3>2. run[p].base.inputs # None
        BY <1>2, <3>1, ContentTypes
      <3>3. QED
        BY <1>4, <1>e, <3>2 DEF packageRenderSkippable
    <2>3. run[p].mi = run[p].base
      BY <1>t, <1>1 DEF Own, BaseSound
    <2>4. Continues(p, new)
      BY <1>4 DEF judgeSkippedPackage
    <2> HIDE DEF new
    <2>5. Moves(p, new)
      BY <1>1, <1>e, <2>1, <2>2, <2>3 DEF Moves
    <2>6. QED
      BY <1>t, <1>d, <1>3, <2>1, <2>4, <2>5, MoveSound DEF TypeOK
  <1>5. ASSUME Continues(p, [run[p] EXCEPT !.pc = "fetch", !.art = src.art, !.mi.src = src.art])
        PROVE  TypeOK' /\ Own(p)' /\ Outside(p)' /\ Others(p) /\ Onward(p)
    <2> DEFINE m == [run[p].mi EXCEPT !.src = src.art]
               new == [run[p] EXCEPT !.pc = "fetch", !.art = src.art, !.mi = m]
    <2>1. /\ m \in Status /\ m.digest = run[p].mi.digest /\ m.inputs = run[p].mi.inputs
          /\ m.healthy = run[p].mi.healthy
      BY <1>e, <1>2 DEF Status
    <2>2. new = [run[p] EXCEPT !.pc = "fetch", !.art = src.art, !.mi.src = src.art]
      BY <1>e DEF Run
    <2> HIDE DEF m
    <2>3. /\ new \in Run /\ new.pc = "fetch" /\ new.cur = run[p].cur /\ new.base = run[p].base
          /\ new.mi = m /\ new.fresh = run[p].fresh /\ new.art = src.art
      BY <1>e, <1>2, <2>1 DEF Run
    <2> HIDE DEF new
    <2>4. Continues(p, new)
      BY <1>5, <2>2
    <2>5. Takes(p, "resolve")
      BY DEF Resolve
    <2>6. Moves(p, new)
      BY <1>1, <1>2, <1>e, <2>1, <2>3, <2>5 DEF Moves
    <2>7. QED
      BY <1>t, <1>d, <1>3, <2>3, <2>4, <2>6, MoveSound DEF TypeOK
  <1>6. QED
    BY <1>4, <1>5 DEF Resolve

(* The fetch of the artifact keeps the package sound.                      *)
LEMMA FetchSound ==
  ASSUME PackageInv, NEW p \in Packages, Fetch(p)
  PROVE  TypeOK' /\ Own(p)' /\ Outside(p)' /\ Others(p) /\ Onward(p)
  <1>t. TypeOK /\ Own(p)
    BY DEF PackageInv, Own
  <1>1. run[p].pc = "fetch" /\ run[p].cur.fin /\ run[p].art \in Artifacts
    BY <1>t DEF Fetch, Own, RunRead
  <1>e. /\ run[p] \in Run /\ ~run[p].fresh /\ run[p].mi.healthy = run[p].base.healthy
        /\ run[p].mi.inputs # None => run[p].mi.digest # None
    BY <1>t, <1>1, EarlyFacts
  <1> DEFINE new == [run[p] EXCEPT !.pc = "render"]
  <1>2. /\ new \in Run /\ new.pc = "render" /\ new.cur = run[p].cur /\ new.base = run[p].base
        /\ new.mi = run[p].mi /\ new.fresh = run[p].fresh /\ new.art = run[p].art
    BY <1>e DEF Run
  <1>3. Continues(p, new)
    BY DEF Fetch
  <1> HIDE DEF new
  <1>4. Moves(p, new)
    BY <1>1, <1>e, <1>2 DEF Moves
  <1>5. /\ UNCHANGED <<pkg, st, objects, roll, worldVars, late, histVars, troubles>>
        /\ dirs' \in [Packages -> SUBSET {"run", "late"}]
        /\ \A q \in Packages \ {p} : dirs'[q] = dirs[q]
    BY <1>t DEF Fetch, TypeOK
  <1>6. "run" \in dirs'[p] /\ ("late" \in dirs'[p] <=> p \in late)
    <2>1. "late" \in dirs[p] <=> p \in late
      BY DirKnown DEF DirHeld
    <2>2. dirs'[p] = dirs[p] \cup {"run"}
      BY <1>t DEF Fetch, TypeOK
    <2>3. QED
      BY <2>1, <2>2
  <1>7. QED
    BY <1>t, <1>2, <1>3, <1>4, <1>5, <1>6, MoveSound DEF TypeOK

(* The render gave nothing new, or something to apply.                     *)
LEMMA RenderSound ==
  ASSUME PackageInv, NEW p \in Packages, Render(p)
  PROVE  TypeOK' /\ Own(p)' /\ Outside(p)' /\ Others(p) /\ Onward(p)
  <1>t. TypeOK /\ Own(p)
    BY DEF PackageInv, Own
  <1>1. run[p].pc = "render" /\ run[p].cur.fin /\ run[p].art \in Artifacts /\ held \in Platforms
    BY <1>t DEF Render, Own, RunRead, TypeOK
  <1>e. /\ run[p] \in Run /\ run[p].mi \in Status /\ run[p].cur.gen \in Generation
        /\ ~run[p].fresh /\ run[p].mi.digest = run[p].base.digest
        /\ run[p].mi.healthy = run[p].base.healthy
        /\ run[p].mi.inputs # None => run[p].mi.digest # None
    BY <1>t, <1>1, EarlyFacts
  <1> DEFINE c == [dig |-> run[p].art.dig, plat |-> held]
  <1>2. c \in Content /\ c # None
    BY <1>1, ContentTypes
  <1>3. /\ UNCHANGED <<pkg, st, objects, roll, worldVars, late, histVars, troubles>>
        /\ dirs' = DirsAfterRender(p, FALSE)
    BY DEF Render
  <1>4. /\ dirs' \in [Packages -> SUBSET {"run", "late"}]
        /\ \A q \in Packages \ {p} : dirs'[q] = dirs[q]
    BY <1>t, <1>3, DirsTypes
  <1>d. "run" \notin dirs'[p] /\ ("late" \in dirs'[p] <=> p \in late)
    <2>1. "late" \in dirs[p] <=> p \in late
      BY DirKnown DEF DirHeld
    <2>2. dirs'[p] = dirs[p] \ {"run"}
      BY <1>t, <1>3 DEF DirsAfterRender, TypeOK
    <2>3. QED
      BY <2>1, <2>2
  <1>5. IF c = run[p].base.digest
          THEN Continues(p, [run[p] EXCEPT !.pc = "judge", !.art = None,
                                           !.mi = NoOp(run[p].mi, run[p].cur.gen, c)])
          ELSE Continues(p, [[run[p] EXCEPT !.art = None, !.content = c] EXCEPT
                                           !.pc = IF run[p].base.id THEN "apply" ELSE "store"])
    BY DEF Render
  <1> HIDE DEF c
  <1>6. CASE c = run[p].base.digest
    <2> DEFINE m == NoOp(run[p].mi, run[p].cur.gen, c)
               new == [run[p] EXCEPT !.pc = "judge", !.art = None, !.mi = m]
    <2>1. m \in Status /\ m.ready = "Succeeded" /\ m.digest = run[p].mi.digest
      <3>1. m \in Status
        BY <1>e, <1>2, RecordTypes
      <3>2. QED
        BY <3>1, <1>e DEF NoOp, Status
    <2> HIDE DEF m
    <2>2. /\ new \in Run /\ new.pc = "judge" /\ new.cur = run[p].cur /\ new.base = run[p].base
          /\ new.mi = m /\ new.fresh = run[p].fresh
      BY <1>e, <2>1 DEF Run
    <2>3. Continues(p, new)
      BY <1>5, <1>6 DEF m
    <2> HIDE DEF new
    <2>4. Moves(p, new)
      BY <1>1, <1>2, <1>6, <1>e, <2>1, <2>2 DEF Moves
    <2>5. QED
      BY <1>t, <1>d, <1>3, <1>4, <2>2, <2>3, <2>4, MoveSound DEF TypeOK
  <1>7. CASE c # run[p].base.digest
    <2> DEFINE k == IF run[p].base.id THEN "apply" ELSE "store"
               new == [[run[p] EXCEPT !.art = None, !.content = c] EXCEPT !.pc = k]
    <2>1. k \in {"apply", "store"}
      BY Zenon DEF k
    <2>2. Continues(p, new)
      BY <1>5, <1>7
    <2> HIDE DEF k
    <2>3. /\ new \in Run /\ new.pc = k /\ new.cur = run[p].cur /\ new.base = run[p].base
          /\ new.mi = run[p].mi /\ new.fresh = run[p].fresh /\ new.content = c
      BY <1>e, <1>2, <2>1 DEF Run
    <2> HIDE DEF new
    <2>4. Moves(p, new)
      BY <1>1, <1>2, <1>e, <2>1, <2>3 DEF Moves
    <2>5. QED
      BY <1>t, <1>d, <1>3, <1>4, <2>1, <2>2, <2>3, <2>4, MoveSound DEF TypeOK
  <1>8. QED
    BY <1>6, <1>7


(* A package is there while it is applied, judged or committed.            *)
LEMMA RunExists ==
  ASSUME NEW p \in Packages, Own(p), run[p].pc \notin {"idle", "act"}
  PROVE  pkg[p].exists /\ pkg[p].fin /\ run[p].cur.fin
  BY DEF Own, RunRead

(* A verdict of rolled out is one on objects that rolled out.              *)
LEMMA JudgeSound ==
  ASSUME PackageInv, NEW p \in Packages, judgePackageHealth(p)
  PROVE  TypeOK' /\ Own(p)' /\ Outside(p)' /\ Others(p) /\ Onward(p)
  <1>t. TypeOK /\ Own(p)
    BY DEF PackageInv, Own
  <1>1. run[p].pc = "judge" /\ pkg[p].exists /\ run[p].cur.fin
    BY <1>t, RunExists DEF judgePackageHealth
  <1>2. /\ run[p] \in Run /\ run[p].mi \in Status /\ run[p].cur.spec \in Spec0
        /\ run[p].fresh \in BOOLEAN
    BY <1>t DEF TypeOK, Run, Object
  <1>3. PICK age \in Nat, v \in Health :
          /\ v = "RolledOut" => roll[p] \notin {"rolling", "stuck"}
          /\ Continues(p, [run[p] EXCEPT !.pc = "commit", !.mi.healthy = v,
                             !.after = packageRequeue(healthRequeue(v, age), interval(run[p].cur.spec))])
    <2>1. PICK readable \in BOOLEAN, age \in IF run[p].fresh THEN {0} ELSE Ages,
               seen \in {roll[p], "ready"} :
            (readable => seen = roll[p]) /\
            Continues(p, [run[p] EXCEPT !.pc = "commit", !.mi.healthy = judgeHealth(seen, readable),
                            !.after = packageRequeue(healthRequeue(judgeHealth(seen, readable), age),
                                                     interval(run[p].cur.spec))])
      BY DEF judgePackageHealth
    <2>2. judgeHealth(seen, readable) \in Health
      BY DEF judgeHealth, Health
    <2>3. judgeHealth(seen, readable) = "RolledOut" => roll[p] \notin {"rolling", "stuck"}
      BY <2>1 DEF judgeHealth
    <2>4. age \in Nat
      BY <1>2, PackageAssumption
    <2>5. QED
      BY <2>1, <2>2, <2>3, <2>4
  <1> DEFINE a == packageRequeue(healthRequeue(v, age), interval(run[p].cur.spec))
             m == [run[p].mi EXCEPT !.healthy = v]
             new == [run[p] EXCEPT !.pc = "commit", !.mi = m, !.after = a]
  <1>4. a \in Int
    <2>1. interval(run[p].cur.spec) \in Int
      BY <1>2, WaitTypes
    <2>2. healthRequeue(v, age) \in Int
      BY PackageAssumption DEF healthRequeue, Smaller, Larger, Health
    <2>3. QED
      BY <2>1, <2>2 DEF packageRequeue
  <1>5. /\ m \in Status /\ m.ready = run[p].mi.ready /\ m.digest = run[p].mi.digest
        /\ m.inputs = run[p].mi.inputs /\ m.healthy = v
    BY <1>2 DEF Status
  <1>6. [run[p] EXCEPT !.pc = "commit", !.mi.healthy = v, !.after = a] = new
    BY <1>2 DEF Run, Status
  <1> HIDE DEF a, m
  <1>7. /\ new \in Run /\ new.pc = "commit" /\ new.cur = run[p].cur /\ new.base = run[p].base
        /\ new.mi = m /\ new.fresh = run[p].fresh
    BY <1>2, <1>4, <1>5 DEF Run
  <1> HIDE DEF new
  <1>8. Continues(p, new)
    BY <1>3, <1>6 DEF a
  <1>9. /\ run[p].mi.ready = "Succeeded" /\ run[p].mi.digest # None
        /\ run[p].mi.inputs # None => run[p].mi.digest # None
    BY <1>t, <1>1 DEF Own, BaseSound, AppliedSound
  <1>10. v = "RolledOut" => p \in rolledOut
    <2>1. objects[p] # None
      BY <1>t, <1>1, <1>9 DEF Own, BaseSound, AppliedSound
    <2>2. roll[p] \in {"rolling", "ready", "stuck"}
      BY <1>t, <1>1, <2>1 DEF Own, HealthSound, TypeOK
    <2>3. v = "RolledOut" => roll[p] = "ready"
      BY <1>3, <2>2
    <2>4. QED
      BY <1>t, <2>3 DEF Own, HealthSound
  <1>11. Moves(p, new)
    BY <1>1, <1>5, <1>7, <1>9, <1>10 DEF Moves
  <1>12. /\ UNCHANGED <<pkg, st, objects, roll, worldVars, late, dirs, histVars>>
         /\ Trouble \/ UNCHANGED troubles
    BY DEF judgePackageHealth
  <1>13. "run" \notin dirs[p] /\ ("late" \in dirs[p] <=> p \in late)
    BY <1>1, DirKnown DEF DirHeld
  <1>14. QED
    BY <1>t, <1>7, <1>8, <1>11, <1>12, <1>13, MoveSound DEF TypeOK
-----------------------------------------------------------------------------
(***************************************************************************)
(* Steps of a reconcile that write                                         *)
(***************************************************************************)
(* What a patch leaves of the fields that the properties read.             *)
LEMMA SentFields ==
  ASSUME NEW p \in Packages, NEW m, NEW conds \in BOOLEAN, NEW rest \in BOOLEAN,
         st[p].digest = run[p].base.digest, st[p].inputs = run[p].base.inputs,
         st[p].healthy = run[p].base.healthy, st[p].retry = run[p].base.retry
  PROVE  LET s == Sent(p, m, conds, rest)
         IN /\ s.digest = IF rest THEN m.digest ELSE st[p].digest
            /\ s.inputs = IF rest THEN m.inputs ELSE st[p].inputs
            /\ s.retry = IF rest THEN m.retry ELSE st[p].retry
            /\ s.healthy = IF conds THEN m.healthy ELSE st[p].healthy
            /\ s.ready = IF conds /\ m.ready # run[p].base.ready THEN m.ready ELSE st[p].ready
  BY DEF Sent

(* The stored status is written, and the reconcile goes on.                *)
LEMMA StoreSound ==
  ASSUME PackageInv, NEW p \in Packages, patchModulePackageIdentityStatus(p)
  PROVE  TypeOK' /\ Own(p)' /\ Outside(p)' /\ Others(p) /\ Onward(p)
  <1>t. TypeOK /\ Own(p)
    BY DEF PackageInv, Own
  <1>1. run[p].pc = "store" /\ run[p].content \in Content /\ pkg[p].exists /\ run[p].cur.fin
    BY <1>t, RunExists DEF patchModulePackageIdentityStatus, Own, RunRead
  <1>e. /\ run[p] \in Run /\ run[p].mi \in Status /\ run[p].base \in Status
        /\ run[p].cur.gen \in Generation
        /\ ~run[p].fresh /\ run[p].mi.digest = run[p].base.digest
        /\ run[p].mi.healthy = run[p].base.healthy
        /\ st[p].digest = run[p].base.digest /\ st[p].inputs = run[p].base.inputs
        /\ st[p].ready = run[p].base.ready
        /\ run[p].mi.inputs # None => run[p].mi.digest # None
    BY <1>t, <1>1, EarlyFacts
  <1>b. st[p].healthy = run[p].base.healthy /\ st[p].retry = run[p].base.retry
    BY <1>t, <1>1 DEF Own, BaseSound
  <1>w. modulePackageBackoff(run[p]) \in Nat \ {0}
    BY <1>e, WaitTypes
  <1> DEFINE m == Attempt(run[p].mi, run[p].content)
  <1>2. /\ m \in Status /\ m.ready = "Unset" /\ m.digest = run[p].mi.digest
        /\ m.inputs = run[p].mi.inputs /\ m.healthy = run[p].mi.healthy
    <2>1. m \in Status
      BY <1>e, <1>1, RecordTypes
    <2>2. QED
      BY <2>1, <1>e DEF Attempt, Status
  <1> HIDE DEF m
  <1>3. PICK conds \in BOOLEAN, rest \in BOOLEAN, new \in Run :
          /\ st' = [st EXCEPT ![p] = Sent(p, m, conds, rest)]
          /\ Continues(p, new)
          /\ new.cur = run[p].cur /\ ~new.fresh
          /\ \/ /\ conds /\ rest /\ new.pc = "apply" /\ new.base = m /\ new.mi = m
                /\ new.content = run[p].content
             \/ /\ ~rest /\ new.pc = "commit" /\ new.base = run[p].base /\ new.mi.ready = "Failed"
                /\ new.mi.digest = m.digest /\ new.mi.inputs = m.inputs
                /\ new.after > 0 /\ new.mi.retry = new.after
    <2>1. CASE /\ st' = [st EXCEPT ![p] = Sent(p, m, TRUE, TRUE)]
               /\ Continues(p, [run[p] EXCEPT !.pc = "apply", !.base = m, !.mi = m])
      <3> DEFINE new == [run[p] EXCEPT !.pc = "apply", !.base = m, !.mi = m]
      <3>1. /\ new \in Run /\ new.cur = run[p].cur /\ ~new.fresh /\ new.pc = "apply"
            /\ new.base = m /\ new.mi = m /\ new.content = run[p].content
        BY <1>e, <1>2 DEF Run
      <3> HIDE DEF new
      <3>2. Continues(p, new)
        BY <2>1 DEF new
      <3>3. QED
        BY <2>1, <3>1, <3>2
    <2>2. ASSUME NEW conds \in BOOLEAN, st' = [st EXCEPT ![p] = Sent(p, m, conds, FALSE)],
                 Continues(p, FailedRun(run[p], m, FALSE, modulePackageBackoff(run[p])))
          PROVE  \E c \in BOOLEAN, rest \in BOOLEAN, new \in Run :
                   /\ st' = [st EXCEPT ![p] = Sent(p, m, c, rest)]
                   /\ Continues(p, new)
                   /\ new.cur = run[p].cur /\ ~new.fresh
                   /\ ~rest /\ new.pc = "commit" /\ new.base = run[p].base /\ new.mi.ready = "Failed"
                   /\ new.mi.digest = m.digest /\ new.mi.inputs = m.inputs
                   /\ new.after > 0 /\ new.mi.retry = new.after
      <3>0. PICK stalled \in BOOLEAN : stalled = FALSE
        OBVIOUS
      <3> DEFINE a == modulePackageBackoff(run[p])
                 new == FailedRun(run[p], m, stalled, a)
      <3>1. a \in Int /\ a > 0
        BY <1>w
      <3>2. new \in Run
        BY <1>e, <1>2, <3>1, FailedTypes
      <3>3. /\ new.pc = "commit" /\ new.cur = run[p].cur /\ new.base = run[p].base
            /\ new.fresh = run[p].fresh /\ new.after = a /\ new.mi.ready = "Failed"
            /\ new.mi.digest = m.digest /\ new.mi.inputs = m.inputs
            /\ new.mi.retry = IF a > 0 THEN a ELSE 0
        BY <1>e, <1>2, <3>1, FailedFields
      <3>4. Continues(p, new)
        BY <2>2, <3>0
      <3> HIDE DEF a, new
      <3>5. new.after > 0 /\ new.mi.retry = new.after /\ ~new.fresh
        BY <1>e, <3>1, <3>3
      <3>6. QED
        BY <2>2, <3>2, <3>3, <3>4, <3>5, Zenon
    <2>3. QED
      BY <2>1, <2>2 DEF patchModulePackageIdentityStatus, m
  <1>4. Sent(p, m, conds, rest) \in Status
    BY <1>t, <1>2, SentTypes
  <1>5. /\ run' \in [Packages -> Run] /\ due' = due
        /\ run'[p] = new /\ \A q \in Packages \ {p} : run'[q] = run[q]
    BY <1>t, <1>3, ContinuesTypes
  <1>6. /\ st' \in [Packages -> Status] /\ st'[p] = Sent(p, m, conds, rest)
        /\ \A q \in Packages \ {p} : st'[q] = st[q]
    BY <1>t, <1>3, <1>4 DEF TypeOK
  <1>7. /\ UNCHANGED <<pkg, objects, roll, worldVars, late, dirs, histVars>>
        /\ Trouble \/ UNCHANGED troubles
    BY DEF patchModulePackageIdentityStatus
  <1>8. troubles' \in 0 .. MaxTroubles /\ troubles' >= troubles
    BY <1>t, <1>7, TroubleTypes DEF TypeOK
  <1>9. TypeOK'
    BY <1>t, <1>5, <1>6, <1>7, <1>8 DEF TypeOK, worldVars, platVars, histVars
  <1>10. Others(p)
    BY <1>5, <1>6, <1>7 DEF Others, Still, Kept, histVars
  <1>11. /\ st'[p].digest = st[p].digest /\ st'[p].inputs = IF rest THEN m.inputs ELSE st[p].inputs
         /\ st'[p].retry = IF rest THEN m.retry ELSE st[p].retry
         /\ st'[p].healthy = IF conds THEN m.healthy ELSE st[p].healthy
         /\ st'[p].ready = IF conds /\ m.ready # run[p].base.ready THEN m.ready ELSE st[p].ready
    <2>1. LET s == Sent(p, m, conds, rest)
          IN /\ s.digest = IF rest THEN m.digest ELSE st[p].digest
             /\ s.inputs = IF rest THEN m.inputs ELSE st[p].inputs
             /\ s.retry = IF rest THEN m.retry ELSE st[p].retry
             /\ s.healthy = IF conds THEN m.healthy ELSE st[p].healthy
             /\ s.ready = IF conds /\ m.ready # run[p].base.ready THEN m.ready ELSE st[p].ready
      BY <1>e, <1>b, SentFields, Zenon
    <2>2. m.digest = st[p].digest
      BY <1>e, <1>2
    <2>3. QED
      BY <1>6, <2>1, <2>2
  <1>12. RunRead(p)'
    <2>1. pkg[p].gen \in Nat /\ troubles \in Nat /\ troubles' \in Nat
      BY <1>t, <1>8, PackageAssumption DEF TypeOK, Object, Generation
    <2>2. QED
      BY <1>t, <1>1, <1>3, <1>5, <1>7, <1>8, <2>1 DEF Own, RunRead
  <1>13. BaseSound(p)'
    <2>1. CASE rest
      BY <1>e, <1>b, <1>2, <1>3, <1>5, <1>11, <2>1 DEF BaseSound
    <2>2. CASE ~rest
      <3>1. /\ st'[p].digest = new.base.digest /\ st'[p].inputs = new.base.inputs
            /\ st'[p].retry = new.base.retry /\ st'[p].healthy = new.base.healthy
        BY <1>e, <1>b, <1>2, <1>3, <1>11, <2>2
      <3>2. st'[p].ready = new.base.ready \/ st'[p].ready = "Unset"
        BY <1>e, <1>2, <1>3, <1>11, <2>2
      <3>3. /\ new.after \in Int /\ new.pc = "commit" /\ new.mi.ready = "Failed"
            /\ new.after > 0 /\ new.mi.retry = new.after
        BY <1>3, <2>2 DEF Run
      <3>4. QED
        BY <1>5, <3>1, <3>2, <3>3 DEF BaseSound
    <2>3. QED
      BY <2>1, <2>2
  <1>14. AppliedSound(p)'
    BY <1>t, <1>e, <1>1, <1>2, <1>3, <1>5, <1>7, <1>11 DEF Own, AppliedSound, histVars
  <1>15. HealthSound(p)'
    BY <1>t, <1>e, <1>1, <1>2, <1>3, <1>5, <1>7, <1>11 DEF Own, HealthSound, histVars
  <1>16. DirHeld(p)' /\ Announced(p)' /\ Onward(p)
    BY <1>1, <1>3, <1>5, <1>7, DirKnown DEF DirHeld, Announced, Onward
  <1>17. QED
    BY <1>9, <1>10, <1>12, <1>13, <1>14, <1>15, <1>16 DEF Own, Outside


(* What was written rolls out.                                             *)
LEMMA RollTypes ==
  ASSUME TypeOK, NEW S \in SUBSET Packages, RollOutBegins(S)
  PROVE  /\ roll' \in [Packages -> {"none", "rolling", "ready", "stuck"}] /\ rolledOut' \in SUBSET Packages
         /\ \A q \in Packages \ S : roll'[q] = roll[q] /\ (q \in rolledOut' <=> q \in rolledOut)
         /\ \A q \in S : roll'[q] # "none" /\ (roll'[q] = "ready" => q \in rolledOut')
  BY DEF TypeOK, RollOutBegins

(* What the writes of an apply leave, for this package and the others.     *)
LEMMA WritesTypes ==
  ASSUME TypeOK, NEW p \in Packages, HealthSound(p), NEW to \in Content \cup {None, Mixed}, Writes(p, to)
  PROVE  /\ objects' \in [Packages -> Content \cup {None, Mixed}]
         /\ roll' \in [Packages -> {"none", "rolling", "ready", "stuck"}] /\ rolledOut' \in SUBSET Packages
         /\ objects'[p] = to /\ \A q \in Packages \ {p} :
              objects'[q] = objects[q] /\ roll'[q] = roll[q] /\ (q \in rolledOut' <=> q \in rolledOut)
         /\ roll'[p] = "ready" => p \in rolledOut'
         /\ roll'[p] = "none" /\ pkg[p].exists => to = None
  <1>1. /\ objects' \in [Packages -> Content \cup {None, Mixed}] /\ objects'[p] = to
        /\ \A q \in Packages \ {p} : objects'[q] = objects[q]
    BY DEF Writes, TypeOK
  <1>2. CASE to = objects[p]
    <2>1. RollOutBegins({})
      BY <1>2 DEF Writes
    <2>2. /\ roll' \in [Packages -> {"none", "rolling", "ready", "stuck"}] /\ rolledOut' \in SUBSET Packages
          /\ \A q \in Packages : roll'[q] = roll[q] /\ (q \in rolledOut' <=> q \in rolledOut)
      BY <2>1, RollTypes
    <2>3. QED
      BY <1>1, <1>2, <2>2 DEF HealthSound
  <1>3. CASE to # objects[p]
    <2>1. RollOutBegins({p})
      BY <1>3 DEF Writes
    <2>2. /\ roll' \in [Packages -> {"none", "rolling", "ready", "stuck"}] /\ rolledOut' \in SUBSET Packages
          /\ \A q \in Packages \ {p} : roll'[q] = roll[q] /\ (q \in rolledOut' <=> q \in rolledOut)
          /\ roll'[p] # "none" /\ (roll'[p] = "ready" => p \in rolledOut')
      BY <2>1, RollTypes
    <2>3. QED
      BY <1>1, <2>2
  <1>4. QED
    BY <1>2, <1>3

(* Everything is applied and pruned.                                       *)
LEMMA ApplySound ==
  ASSUME PackageInv, NEW p \in Packages, applyAndPruneModulePackage(p)
  PROVE  TypeOK' /\ Own(p)' /\ Outside(p)' /\ Others(p) /\ Onward(p)
  <1>t. TypeOK /\ Own(p) /\ HealthSound(p)
    BY DEF PackageInv, Own
  <1>1. run[p].pc = "apply" /\ run[p].content \in Content /\ pkg[p].exists /\ run[p].cur.fin
    BY <1>t, RunExists DEF applyAndPruneModulePackage, Own, RunRead
  <1>e. /\ run[p] \in Run /\ run[p].mi \in Status /\ run[p].cur.gen \in Generation
        /\ st[p].digest = run[p].base.digest /\ st[p].inputs = run[p].base.inputs
        /\ st[p].ready = run[p].base.ready
    BY <1>t, <1>1, EarlyFacts
  <1>c. run[p].content # None
    BY <1>1, PackageAssumption
  <1> DEFINE n == NoOp(run[p].mi, run[p].cur.gen, run[p].content)
             m == [n EXCEPT !.digest = run[p].content]
             new == [run[p] EXCEPT !.pc = "judge", !.fresh = TRUE, !.content = None, !.mi = m]
  <1>2. n \in Status /\ n.ready = "Succeeded"
    <2>1. n \in Status
      BY <1>e, <1>1, RecordTypes
    <2>2. QED
      BY <2>1, <1>e DEF NoOp, Status
  <1>3. Continues(p, new) /\ Writes(p, run[p].content)
    BY DEF applyAndPruneModulePackage
  <1> HIDE DEF n
  <1>4. m \in Status /\ m.ready = "Succeeded" /\ m.digest = run[p].content
    BY <1>1, <1>2 DEF Status
  <1> HIDE DEF m
  <1>5. /\ new \in Run /\ new.pc = "judge" /\ new.fresh /\ new.mi = m
        /\ new.cur = run[p].cur /\ new.base = run[p].base
    BY <1>e, <1>4 DEF Run
  <1> HIDE DEF new
  <1>6. /\ run' \in [Packages -> Run] /\ due' = due
        /\ run'[p] = new /\ \A q \in Packages \ {p} : run'[q] = run[q]
    BY <1>t, <1>3, <1>5, ContinuesTypes
  <1>7. /\ objects' \in [Packages -> Content \cup {None, Mixed}]
        /\ roll' \in [Packages -> {"none", "rolling", "ready", "stuck"}] /\ rolledOut' \in SUBSET Packages
        /\ objects'[p] = run[p].content /\ \A q \in Packages \ {p} :
             objects'[q] = objects[q] /\ roll'[q] = roll[q] /\ (q \in rolledOut' <=> q \in rolledOut)
        /\ roll'[p] = "ready" => p \in rolledOut'
        /\ roll'[p] = "none" /\ pkg[p].exists => run[p].content = None
    BY <1>t, <1>1, <1>3, WritesTypes
  <1>8. UNCHANGED <<pkg, st, worldVars, late, dirs, lost, dirty, troubles>>
    BY DEF applyAndPruneModulePackage
  <1>9. TypeOK'
    BY <1>t, <1>6, <1>7, <1>8 DEF TypeOK, worldVars, platVars
  <1>10. Others(p)
    BY <1>6, <1>7, <1>8 DEF Others, Still, Kept
  <1>11. RunRead(p)'
    BY <1>t, <1>1, <1>5, <1>6, <1>8 DEF Own, RunRead
  <1>12. BaseSound(p)'
    BY <1>t, <1>1, <1>4, <1>5, <1>6, <1>8 DEF Own, BaseSound
  <1>13. AppliedSound(p)'
    BY <1>t, <1>1, <1>c, <1>4, <1>5, <1>6, <1>7, <1>8 DEF Own, AppliedSound
  <1>14. HealthSound(p)'
    BY <1>1, <1>c, <1>5, <1>6, <1>7, <1>8 DEF HealthSound
  <1>15. DirHeld(p)' /\ Announced(p)' /\ Onward(p)
    BY <1>1, <1>5, <1>6, <1>8, DirKnown DEF DirHeld, Announced, Onward
  <1>16. QED
    BY <1>9, <1>10, <1>11, <1>12, <1>13, <1>14, <1>15 DEF Own, Outside

(* A reconcile is cut off or fails with objects written or not: it goes on *)
(* with a failure to record, and the package is marked.                    *)
CutOff(p, new, to) ==
    /\ run[p].pc \in {"render", "apply", "judge"}
    /\ to \in {objects[p], Mixed} /\ Writes(p, to) /\ Continues(p, new)
    /\ dirty' \in {dirty, dirty \cup {p}} /\ (run[p].fresh \/ to # objects[p] => p \in dirty')
    /\ p \in dirty' => p \in dirty \/ run[p].fresh \/ to # objects[p]
    /\ new.pc = "commit" /\ ~new.fresh /\ new.cur = run[p].cur /\ new.base = run[p].base
    /\ new.mi.ready = "Failed" /\ new.mi.digest = run[p].base.digest
    /\ new.mi.inputs # None => new.mi.digest # None
    /\ new.after \in Nat /\ new.mi.retry = new.after
    /\ UNCHANGED <<pkg, st, worldVars, late, lost>> /\ Trouble
    /\ dirs' \in [Packages -> SUBSET {"run", "late"}] /\ \A q \in Packages \ {p} : dirs'[q] = dirs[q]
    /\ dirs'[p] = dirs[p] \ {"run"}

(* A reconcile that breaks off with its objects written in part leaves the *)
(* package sound.                                                          *)
LEMMA CutOffSound ==
  ASSUME PackageInv, NEW p \in Packages, NEW new \in Run, NEW to, CutOff(p, new, to)
  PROVE  TypeOK' /\ Own(p)' /\ Outside(p)' /\ Others(p) /\ Onward(p)
  <1>t. TypeOK /\ Own(p) /\ HealthSound(p)
    BY DEF PackageInv, Own
  <1>1. /\ run[p].pc \in {"render", "apply", "judge"} /\ pkg[p].exists /\ run[p].cur.fin
        /\ run[p].fresh \in BOOLEAN
    <2>1. run[p].fresh \in BOOLEAN
      BY <1>t DEF TypeOK, Run
    <2>2. QED
      BY <2>1, <1>t, RunExists DEF CutOff
  <1>2. to \in Content \cup {None, Mixed} /\ Writes(p, to)
    BY <1>t DEF CutOff, TypeOK
  <1>3. /\ objects' \in [Packages -> Content \cup {None, Mixed}]
        /\ roll' \in [Packages -> {"none", "rolling", "ready", "stuck"}] /\ rolledOut' \in SUBSET Packages
        /\ objects'[p] = to /\ \A q \in Packages \ {p} :
             objects'[q] = objects[q] /\ roll'[q] = roll[q] /\ (q \in rolledOut' <=> q \in rolledOut)
        /\ roll'[p] = "ready" => p \in rolledOut'
        /\ roll'[p] = "none" /\ pkg[p].exists => to = None
    BY <1>t, <1>2, WritesTypes
  <1>4. /\ run' \in [Packages -> Run] /\ due' = due
        /\ run'[p] = new /\ \A q \in Packages \ {p} : run'[q] = run[q]
    BY <1>t, ContinuesTypes DEF CutOff
  <1>5. troubles' \in 0 .. MaxTroubles /\ troubles' >= troubles
    BY <1>t, TroubleTypes DEF TypeOK, CutOff
  <1>6. dirty' \in SUBSET Packages /\ \A q \in Packages \ {p} : q \in dirty' <=> q \in dirty
    BY <1>t DEF CutOff, TypeOK
  <1>7. TypeOK'
    BY <1>t, <1>3, <1>4, <1>5, <1>6 DEF CutOff, TypeOK, worldVars, platVars
  <1>8. Others(p)
    BY <1>3, <1>4, <1>6 DEF CutOff, Others, Still, Kept
  <1>9. RunRead(p)'
    <2>1. pkg[p].gen \in Nat /\ troubles \in Nat /\ troubles' \in Nat
      BY <1>t, <1>5, PackageAssumption DEF TypeOK, Object, Generation
    <2>2. UNCHANGED pkg /\ new.pc = "commit" /\ ~new.fresh /\ new.cur = run[p].cur
      BY DEF CutOff
    <2>3. QED
      BY <1>t, <1>1, <1>4, <1>5, <2>1, <2>2 DEF Own, RunRead
  <1>10. BaseSound(p)'
    <2>1. /\ UNCHANGED st /\ new.pc = "commit" /\ new.base = run[p].base
          /\ new.mi.ready = "Failed" /\ new.after \in Nat /\ new.mi.retry = new.after
      BY DEF CutOff
    <2>2. QED
      BY <1>t, <1>1, <1>4, <2>1 DEF Own, BaseSound
  <1>11. AppliedSound(p)'
    <2>1. /\ UNCHANGED <<st, pkg>> /\ new.pc = "commit" /\ ~new.fresh /\ new.base = run[p].base
          /\ new.mi.ready = "Failed" /\ new.mi.digest = run[p].base.digest
          /\ new.mi.inputs # None => new.mi.digest # None
          /\ p \in dirty => p \in dirty'
      BY DEF CutOff
    <2>2. to = st[p].digest \/ p \in dirty'
      BY <1>t, <1>1 DEF Own, AppliedSound, CutOff
    <2>3. p \in dirty' => to # None
      <3>1. Mixed # None
        BY PackageAssumption
      <3>2. p \in dirty \/ run[p].fresh => objects[p] # None
        BY <1>t, <1>1, PackageAssumption DEF Own, AppliedSound
      <3>3. QED
        BY <3>1, <3>2 DEF CutOff
    <2>4. QED
      BY <1>t, <1>3, <1>4, <2>1, <2>2, <2>3 DEF Own, AppliedSound
  <1>12. HealthSound(p)'
    <2>1. UNCHANGED pkg /\ new.pc = "commit" /\ new.mi.ready = "Failed"
      BY DEF CutOff
    <2>2. QED
      BY <1>1, <1>3, <1>4, <2>1 DEF HealthSound
  <1>13. DirHeld(p)' /\ Announced(p)' /\ Onward(p)
    <2>1. "late" \in dirs[p] <=> p \in late
      BY DirKnown DEF DirHeld
    <2>2. new.pc = "commit" /\ dirs'[p] = dirs[p] \ {"run"} /\ late' = late
      BY DEF CutOff
    <2>3. QED
      BY <1>4, <2>1, <2>2 DEF DirHeld, Announced, Onward
  <1>14. QED
    BY <1>7, <1>8, <1>9, <1>10, <1>11, <1>12, <1>13 DEF Own, Outside


(* So does an apply that fails half-way.                                   *)
LEMMA ApplyFailsSound ==
  ASSUME PackageInv, NEW p \in Packages, ApplyFails(p)
  PROVE  TypeOK' /\ Own(p)' /\ Outside(p)' /\ Others(p) /\ Onward(p)
  <1>t. TypeOK /\ Own(p)
    BY DEF PackageInv, Own
  <1>1. run[p].pc = "apply"
    BY DEF ApplyFails
  <1>e. /\ run[p] \in Run /\ run[p].mi \in Status /\ ~run[p].fresh
        /\ run[p].mi.digest = run[p].base.digest
        /\ run[p].mi.inputs # None => run[p].mi.digest # None
    BY <1>t, <1>1, EarlyFacts
  <1>2. PICK to \in {objects[p], Mixed} :
          Writes(p, to) /\ dirty' = IF to = objects[p] THEN dirty ELSE dirty \cup {p}
    BY DEF ApplyFails
  <1>3. PICK stalled \in BOOLEAN, after \in Nat \ {0} : Fails(p, stalled, after)
    <2>1. modulePackageBackoff(run[p]) \in Nat \ {0}
      BY <1>e, WaitTypes
    <2>2. Fails(p, FALSE, modulePackageBackoff(run[p]))
      BY DEF ApplyFails
    <2>3. QED
      BY <2>1, <2>2
  <1> DEFINE new == FailedRun(run[p], run[p].mi, stalled, after)
  <1>4. new \in Run
    BY <1>e, FailedTypes
  <1>5. /\ new.pc = "commit" /\ new.cur = run[p].cur /\ new.base = run[p].base
        /\ new.fresh = run[p].fresh /\ new.after = after /\ new.mi.ready = "Failed"
        /\ new.mi.digest = run[p].mi.digest /\ new.mi.inputs = run[p].mi.inputs
        /\ new.mi.retry = IF after > 0 THEN after ELSE 0
    BY <1>e, FailedFields
  <1>6. Continues(p, new)
    BY <1>3 DEF Fails
  <1> HIDE DEF new
  <1>7. /\ dirs' \in [Packages -> SUBSET {"run", "late"}] /\ \A q \in Packages \ {p} : dirs'[q] = dirs[q]
        /\ dirs'[p] = dirs[p] \ {"run"}
    <2>1. "run" \notin dirs[p] /\ dirs' = dirs
      BY <1>1, DirKnown DEF DirHeld, ApplyFails
    <2>2. QED
      BY <1>t, <2>1 DEF TypeOK
  <1>8. UNCHANGED <<pkg, st, worldVars, late, lost>> /\ Trouble
    BY DEF ApplyFails
  <1>9. /\ dirty' \in {dirty, dirty \cup {p}}
        /\ run[p].fresh \/ to # objects[p] => p \in dirty'
        /\ p \in dirty' => p \in dirty \/ run[p].fresh \/ to # objects[p]
    BY <1>2, <1>e
  <1>10. new.after \in Nat /\ new.mi.retry = new.after
    BY <1>5
  <1>11. CutOff(p, new, to)
    BY <1>1, <1>2, <1>5, <1>6, <1>7, <1>8, <1>9, <1>10, <1>e DEF CutOff
  <1>12. QED
    BY <1>4, <1>11, CutOffSound

(* So does a panic.                                                        *)
LEMMA PanicsSound ==
  ASSUME PackageInv, NEW p \in Packages, Panics(p)
  PROVE  TypeOK' /\ Own(p)' /\ Outside(p)' /\ Others(p) /\ Onward(p)
  <1>t. TypeOK /\ Own(p)
    BY DEF PackageInv, Own
  <1>1. run[p].pc \in {"render", "apply", "judge"}
    BY DEF Panics
  <1>e. /\ run[p] \in Run /\ run[p].mi \in Status /\ run[p].base \in Status
        /\ run[p].cur.gen \in Generation /\ run[p].fresh \in BOOLEAN
    BY <1>t DEF TypeOK, Run, Object
  <1>2. PICK to \in {objects[p], Mixed} :
          Writes(p, to) /\ dirty' = IF run[p].fresh \/ to # objects[p] THEN dirty \cup {p} ELSE dirty
    BY DEF Panics
  <1> DEFINE b == [run[p].mi EXCEPT !.digest = run[p].base.digest, !.id = run[p].base.id,
                                    !.inputs = run[p].base.inputs, !.count = run[p].base.count]
             m == Failure(b, run[p].cur.gen, FALSE, Now)
             new == [run[p] EXCEPT !.pc = "commit", !.art = None, !.content = None, !.fresh = FALSE,
                                   !.after = Now, !.mi = m]
  <1>3. b \in Status /\ b.digest = run[p].base.digest /\ b.inputs = run[p].base.inputs
    BY <1>e DEF Status
  <1>4. Continues(p, new)
    BY DEF Panics
  <1> HIDE DEF b
  <1>5. /\ m \in Status /\ m.ready = "Failed" /\ m.digest = b.digest /\ m.inputs = b.inputs /\ m.retry = 0
    <2>0. PICK stalled \in BOOLEAN : stalled = FALSE
      OBVIOUS
    <2>1. m \in Status
      <3>1. Now \in Int
        BY DEF Now
      <3>2. Failure(b, run[p].cur.gen, stalled, Now) \in Status
        BY <1>e, <1>3, <3>1, RecordTypes
      <3>3. QED
        BY <2>0, <3>2
    <2>2. QED
      BY <1>3, <2>1 DEF Failure, RetryAt, Status, Now
  <1> HIDE DEF m
  <1>6. /\ new \in Run /\ new.pc = "commit" /\ ~new.fresh /\ new.cur = run[p].cur
        /\ new.base = run[p].base /\ new.mi = m /\ new.after = 0
    <2>1. Now \in Int /\ Now = 0
      BY DEF Now
    <2>2. new \in Run
      BY <1>e, <1>5, <2>1 DEF Run
    <2>3. /\ new.pc = "commit" /\ new.cur = run[p].cur /\ new.base = run[p].base
          /\ new.mi = m /\ new.after = Now
      BY <1>e DEF Run
    <2>4. new.fresh = FALSE
      BY <1>e DEF Run
    <2>5. QED
      BY <2>1, <2>2, <2>3, <2>4
  <1> HIDE DEF new
  <1>7. new.mi.inputs # None => new.mi.digest # None
    <2>1. /\ st[p].inputs # None => st[p].digest # None
          /\ st[p].digest = run[p].base.digest
          /\ st[p].inputs = run[p].base.inputs
      BY <1>t, <1>1 DEF Own, AppliedSound, BaseSound
    <2>2. QED
      BY <1>3, <1>5, <1>6, <2>1
  <1>8. /\ dirs' \in [Packages -> SUBSET {"run", "late"}] /\ \A q \in Packages \ {p} : dirs'[q] = dirs[q]
        /\ dirs'[p] = dirs[p] \ {"run"}
    <2>1. dirs' = [dirs EXCEPT ![p] = dirs[p] \ {"run"}]
      BY <1>t DEF Panics, DirsAfterRender, TypeOK
    <2>2. QED
      BY <1>t, <2>1 DEF TypeOK
  <1>9. UNCHANGED <<pkg, st, worldVars, late, lost>> /\ Trouble
    BY DEF Panics
  <1>10. /\ dirty' \in {dirty, dirty \cup {p}}
         /\ run[p].fresh \/ to # objects[p] => p \in dirty'
         /\ p \in dirty' => p \in dirty \/ run[p].fresh \/ to # objects[p]
    BY <1>2, <1>e
  <1>11. CutOff(p, new, to)
    BY <1>1, <1>2, <1>3, <1>4, <1>5, <1>6, <1>7, <1>8, <1>9, <1>10 DEF CutOff
  <1>12. QED
    BY <1>6, <1>11, CutOffSound

(* The status is committed, in whole, in part or not at all.               *)
LEMMA CommitSound ==
  ASSUME PackageInv, NEW p \in Packages, Commit(p) \/ CommitFails(p)
  PROVE  TypeOK' /\ Own(p)' /\ Outside(p)' /\ Others(p) /\ Onward(p)
  <1>t. TypeOK /\ Own(p)
    BY DEF PackageInv, Own
  <1>1. run[p].pc \in {"commit", "gate"}
    BY DEF Commit, CommitFails
  <1>2. /\ run[p] \in Run /\ run[p].mi \in Status /\ run[p].after \in Int /\ run[p].fresh \in BOOLEAN
        /\ run[p].mi.retry \in Nat
    BY <1>t DEF TypeOK, Run, Status
  <1>3. PICK conds \in BOOLEAN, rest \in BOOLEAN, after \in Int :
          /\ st' = [st EXCEPT ![p] = Sent(p, run[p].mi, conds, rest)]
          /\ EndsRun(p, after)
          /\ \/ /\ conds /\ rest /\ after = run[p].after /\ lost' = lost \ {p}
                /\ dirty' = IF run[p].fresh THEN dirty \ {p} ELSE dirty
             \/ /\ ~rest /\ lost' = lost \cup {p}
                /\ dirty' = IF run[p].fresh THEN dirty \cup {p} ELSE dirty
    <2>1. CASE Commit(p)
      BY <1>2, <2>1 DEF Commit
    <2>2. CASE CommitFails(p)
      <3>1. PICK conds \in BOOLEAN : st' = [st EXCEPT ![p] = Sent(p, run[p].mi, conds, FALSE)]
        BY <2>2 DEF CommitFails
      <3>2. PICK after \in Int : EndsRun(p, after)
        BY <2>2, <1>2 DEF CommitFails, Now
      <3>3. lost' = lost \cup {p} /\ dirty' = IF run[p].fresh THEN dirty \cup {p} ELSE dirty
        BY <2>2 DEF CommitFails
      <3>4. QED
        BY <3>1, <3>2, <3>3
    <2>3. QED
      BY <2>1, <2>2
  <1>4. /\ run' \in [Packages -> Run] /\ due' \in [Packages -> Int]
        /\ run'[p] = Idle /\ \A q \in Packages \ {p} : run'[q] = run[q] /\ due'[q] = due[q]
        /\ due'[p] = IF due[p] = Now THEN Now ELSE Larger(after, Never)
    BY <1>t, <1>3, EndsTypes
  <1>5. Idle.pc = "idle" /\ ~Idle.fresh
    BY DEF Idle
  <1>6. Sent(p, run[p].mi, conds, rest) \in Status
    BY <1>t, <1>2, SentTypes
  <1>7. /\ st' \in [Packages -> Status] /\ st'[p] = Sent(p, run[p].mi, conds, rest)
        /\ \A q \in Packages \ {p} : st'[q] = st[q]
    BY <1>t, <1>3, <1>6 DEF TypeOK
  <1>8. /\ UNCHANGED <<pkg, objects, roll, worldVars, late, dirs, rolledOut>>
        /\ Trouble \/ UNCHANGED troubles
    BY DEF Commit, CommitFails
  <1>9. troubles' \in 0 .. MaxTroubles /\ troubles' >= troubles
    BY <1>t, <1>8, TroubleTypes DEF TypeOK
  <1>10. /\ lost' \in SUBSET Packages /\ dirty' \in SUBSET Packages
         /\ \A q \in Packages \ {p} : (q \in lost' <=> q \in lost) /\ (q \in dirty' <=> q \in dirty)
    BY <1>t, <1>3 DEF TypeOK
  <1>11. TypeOK'
    BY <1>t, <1>4, <1>7, <1>8, <1>9, <1>10 DEF TypeOK, worldVars, platVars
  <1>12. Others(p)
    BY <1>4, <1>7, <1>8, <1>10 DEF Others, Still, Kept
  <1>b. /\ st[p].digest = run[p].base.digest /\ st[p].inputs = run[p].base.inputs
        /\ st[p].healthy = run[p].base.healthy /\ st[p].retry = run[p].base.retry
        /\ st[p].ready = run[p].base.ready \/ st[p].ready \notin {"Failed", "Succeeded"}
    BY <1>t, <1>1 DEF Own, BaseSound
  <1>13. /\ st'[p].digest = IF rest THEN run[p].mi.digest ELSE st[p].digest
         /\ st'[p].inputs = IF rest THEN run[p].mi.inputs ELSE st[p].inputs
         /\ st'[p].retry = IF rest THEN run[p].mi.retry ELSE st[p].retry
         /\ st'[p].healthy = IF conds THEN run[p].mi.healthy ELSE st[p].healthy
         /\ st'[p].ready = IF conds /\ run[p].mi.ready # run[p].base.ready
                             THEN run[p].mi.ready ELSE st[p].ready
    <2>1. LET s == Sent(p, run[p].mi, conds, rest)
          IN /\ s.digest = IF rest THEN run[p].mi.digest ELSE st[p].digest
             /\ s.inputs = IF rest THEN run[p].mi.inputs ELSE st[p].inputs
             /\ s.retry = IF rest THEN run[p].mi.retry ELSE st[p].retry
             /\ s.healthy = IF conds THEN run[p].mi.healthy ELSE st[p].healthy
             /\ s.ready = IF conds /\ run[p].mi.ready # run[p].base.ready
                             THEN run[p].mi.ready ELSE st[p].ready
      BY <1>b, SentFields, Zenon
    <2>2. QED
      BY <1>7, <2>1
  <1>14. conds /\ st'[p].ready \in {"Failed", "Succeeded"} => st'[p].ready = run[p].mi.ready
    BY <1>b, <1>13
  <1>15. run[p].mi.ready \in {"Failed", "Succeeded"} => run[p].pc = "commit"
    BY <1>t, <1>1 DEF Own, BaseSound
  <1>16. RunRead(p)' /\ BaseSound(p)'
    <2>1. pkg[p].gen \in Nat /\ troubles \in Nat /\ troubles' \in Nat
      BY <1>t, <1>9, PackageAssumption DEF TypeOK, Object, Generation
    <2>2. QED
      BY <1>t, <1>4, <1>5, <1>8, <1>9, <2>1 DEF Own, RunRead, BaseSound
  <1>17. AppliedSound(p)'
    <2>1. /\ pkg[p].exists => objects[p] = st'[p].digest \/ p \in dirty'
          /\ p \in dirty' /\ pkg[p].exists => objects[p] # None
      <3>1. /\ run[p].fresh => objects[p] = run[p].mi.digest /\ run[p].mi.digest \in Content
            /\ ~run[p].fresh => run[p].mi.digest = run[p].base.digest
            /\ ~run[p].fresh /\ pkg[p].exists => objects[p] = st[p].digest \/ p \in dirty
            /\ p \in dirty /\ pkg[p].exists => objects[p] # None
        BY <1>t, <1>1 DEF Own, AppliedSound
      <3>2. None \notin Content
        BY PackageAssumption
      <3>3. QED
        BY <1>2, <1>3, <1>b, <1>13, <3>1, <3>2
    <2>2. st'[p].inputs # None => st'[p].digest # None
      BY <1>t, <1>1, <1>13 DEF Own, AppliedSound
    <2>3. st'[p].ready = "Succeeded" => st'[p].digest # None \/ p \in dirty'
      <3>1. CASE conds
        BY <1>t, <1>1, <1>2, <1>3, <1>b, <1>13, <1>14, <1>15, <3>1 DEF Own, AppliedSound
      <3>2. CASE ~conds
        BY <1>t, <1>3, <1>13, <3>2 DEF Own, AppliedSound
      <3>3. QED
        BY <3>1, <3>2
    <2>4. QED
      BY <1>4, <1>5, <1>8, <2>1, <2>2, <2>3 DEF AppliedSound
  <1>18. HealthSound(p)'
    <2>1. p \notin lost' => conds
      BY <1>3
    <2>2. QED
      BY <1>t, <1>4, <1>5, <1>8, <1>13, <1>14, <1>15, <2>1 DEF Own, HealthSound
  <1>19. DirHeld(p)' /\ Onward(p)
    BY <1>1, <1>4, <1>5, <1>8, DirKnown DEF DirHeld, Onward
  <1>20. Announced(p)'
    <2> SUFFICES ASSUME st'[p].ready = "Failed", p \notin lost', interval(pkg[p].spec) > 0
                 PROVE  due'[p] = Now \/ (due'[p] > 0 /\ due'[p] <= st'[p].retry)
      BY <1>8 DEF Announced
    <2>1. conds /\ rest /\ after = run[p].after
      BY <1>3
    <2>2. run[p].pc = "commit" /\ run[p].mi.ready = "Failed"
      BY <1>14, <1>15, <2>1
    <2>3. /\ st'[p].retry = IF after > 0 THEN after ELSE 0
          /\ after < 0 => interval(run[p].cur.spec) < 0
          /\ run[p].cur.spec = pkg[p].spec \/ due[p] = Now
      BY <1>t, <1>13, <2>1, <2>2 DEF Own, BaseSound, RunRead
    <2>4. interval(pkg[p].spec) \in Int /\ interval(run[p].cur.spec) \in Int
      <3>1. pkg[p].spec \in Spec0 /\ run[p].cur.spec \in Spec0
        BY <1>t DEF TypeOK, Object, Run
      <3>2. QED
        BY <3>1, WaitTypes
    <2>5. CASE due[p] = Now
      BY <1>4, <2>5
    <2>6. CASE due[p] # Now
      <3>1. after >= 0
        BY <2>3, <2>4, <2>6
      <3>2. due'[p] = after
        BY <1>4, <2>6, <3>1 DEF Larger, Never
      <3>3. QED
        BY <2>3, <3>1, <3>2 DEF Now
    <2>7. QED
      BY <2>5, <2>6
  <1>21. QED
    BY <1>11, <1>12, <1>16, <1>17, <1>18, <1>19, <1>20 DEF Own, Outside

-----------------------------------------------------------------------------
(***************************************************************************)
(* Users, Flux, the Platform, the workloads and restarts                   *)
(***************************************************************************)
(* A package is edited or deleted, and queued.                             *)
LEMMA EditSound ==
  ASSUME PackageInv, NEW p \in Packages, EditSpec(p) \/ DeletePackage(p)
  PROVE  TypeOK' /\ Own(p)' /\ Outside(p)' /\ Others(p) /\ Onward(p)
  <1>t. TypeOK /\ Own(p)
    BY DEF PackageInv, Own
  <1>1. /\ pkg[p] \in Object /\ pkg[p].gen \in Generation /\ pkg[p].gen <= troubles + 1
        /\ pkg[p].fin \in BOOLEAN /\ pkg[p].exists /\ MaxTroubles \in Nat /\ troubles \in 0 .. MaxTroubles
    BY <1>t, PackageAssumption DEF TypeOK, Object, Own, RunRead, EditSpec, DeletePackage
  <1>2. /\ troubles < MaxTroubles /\ troubles' = troubles + 1 /\ troubles' \in 0 .. MaxTroubles
        /\ troubles' >= troubles
    BY <1>1 DEF EditSpec, DeletePackage, Trouble
  <1>3. pkg[p].gen + 1 \in Generation /\ pkg[p].gen + 1 <= troubles' + 1
    BY <1>1, <1>2 DEF Generation
  <1>4. PICK new \in Object :
          /\ pkg' = [pkg EXCEPT ![p] = new] /\ new.gen = pkg[p].gen + 1 /\ new.fin = pkg[p].fin
          /\ new.exists => pkg[p].exists
          /\ new.fin => new.exists
          /\ pkg[p].deleting => new.deleting
    <2>1. CASE EditSpec(p)
      <3>1. PICK s \in Specs[p] : pkg' = [pkg EXCEPT ![p].spec = s, ![p].gen = @ + 1]
        BY <2>1 DEF EditSpec
      <3>2. s \in Spec0
        BY <3>1 DEF Spec0
      <3> DEFINE new == [pkg[p] EXCEPT !.spec = s, !.gen = pkg[p].gen + 1]
      <3>3. /\ new \in Object /\ new.gen = pkg[p].gen + 1 /\ new.fin = pkg[p].fin
            /\ new.exists = pkg[p].exists /\ new.deleting = pkg[p].deleting
        BY <1>1, <1>3, <3>2 DEF Object
      <3>4. pkg' = [pkg EXCEPT ![p] = new]
        BY <1>t, <3>1 DEF TypeOK
      <3> HIDE DEF new
      <3>5. QED
        BY <1>1, <3>3, <3>4
    <2>2. CASE DeletePackage(p)
      <3> DEFINE new == [pkg[p] EXCEPT !.deleting = TRUE, !.gen = pkg[p].gen + 1, !.exists = pkg[p].fin]
      <3>1. /\ new \in Object /\ new.gen = pkg[p].gen + 1 /\ new.fin = pkg[p].fin
            /\ new.exists = pkg[p].fin /\ new.deleting = TRUE
        BY <1>1, <1>3 DEF Object
      <3>2. pkg' = [pkg EXCEPT ![p] = new]
        BY <1>t, <2>2 DEF TypeOK, DeletePackage
      <3> HIDE DEF new
      <3>3. QED
        BY <1>1, <3>1, <3>2
    <2>3. QED
      BY <2>1, <2>2
  <1>5. pkg' \in [Packages -> Object] /\ pkg'[p] = new /\ \A q \in Packages \ {p} : pkg'[q] = pkg[q]
    BY <1>t, <1>4 DEF TypeOK
  <1>6. /\ due' \in [Packages -> Int] /\ due'[p] = Now /\ \A q \in Packages \ {p} : due'[q] = due[q]
    BY <1>t DEF EditSpec, DeletePackage, Wakes, TypeOK, Now
  <1>7. UNCHANGED <<st, objects, roll, worldVars, run, late, dirs, histVars>>
    BY DEF EditSpec, DeletePackage
  <1>8. TypeOK'
    BY <1>t, <1>2, <1>5, <1>6, <1>7 DEF TypeOK, worldVars, platVars, histVars
  <1>9. Others(p)
    BY <1>5, <1>6, <1>7 DEF Others, Still, Kept, histVars
  <1>10. RunRead(p)'
    BY <1>t, <1>3, <1>4, <1>5, <1>6, <1>7 DEF Own, RunRead
  <1>11. BaseSound(p)'
    BY <1>t, <1>7 DEF Own, BaseSound
  <1>12. AppliedSound(p)' /\ HealthSound(p)'
    BY <1>t, <1>1, <1>5, <1>7 DEF Own, AppliedSound, HealthSound, histVars
  <1>13. DirHeld(p)' /\ Announced(p)' /\ Onward(p)
    BY <1>6, <1>7, DirKnown DEF DirHeld, Announced, Onward
  <1>14. QED
    BY <1>8, <1>9, <1>10, <1>11, <1>12, <1>13 DEF Own, Outside

(* Objects roll out or degrade, and a late render returns.                 *)
LEMMA RollSound ==
  ASSUME PackageInv, RetryAnnounced, NEW p \in Packages, RollsOut(p) \/ Degrades(p) \/ LateRenderReturns(p)
  PROVE  TypeOK' /\ Own(p)' /\ Outside(p)' /\ Others(p) /\ Onward(p)
  <1>t. TypeOK /\ Own(p) /\ Announced(p) /\ DirHeld(p)
    BY DirKnown DEF PackageInv, Own, RetryAnnounced, Announced
  <1>1. /\ UNCHANGED <<pkg, st, objects, worldVars, due, run, lost, dirty>>
        /\ Trouble \/ UNCHANGED troubles
    BY DEF RollsOut, Degrades, LateRenderReturns, histVars
  <1>2. troubles' \in 0 .. MaxTroubles /\ troubles' >= troubles
    BY <1>t, <1>1, TroubleTypes DEF TypeOK
  <1>3. /\ roll' \in [Packages -> {"none", "rolling", "ready", "stuck"}] /\ rolledOut' \in SUBSET Packages
        /\ \A q \in Packages \ {p} : roll'[q] = roll[q] /\ (q \in rolledOut' <=> q \in rolledOut)
        /\ roll'[p] = "ready" => p \in rolledOut'
        /\ p \in rolledOut => p \in rolledOut'
        /\ roll'[p] = "none" => roll[p] = "none"
    <2>1. CASE RollsOut(p)
      BY <1>t, <2>1 DEF RollsOut, TypeOK
    <2>2. CASE Degrades(p)
      <3>1. roll' = [roll EXCEPT ![p] = IF roll[p] = "rolling" THEN "stuck" ELSE "rolling"]
        BY <2>2 DEF Degrades
      <3>2. rolledOut' = rolledOut
        BY <2>2 DEF Degrades, histVars
      <3>3. QED
        BY <1>t, <3>1, <3>2 DEF TypeOK
    <2>3. CASE LateRenderReturns(p)
      <3>1. roll' = roll /\ rolledOut' = rolledOut
        BY <2>3 DEF LateRenderReturns, histVars
      <3>2. QED
        BY <1>t, <3>1 DEF TypeOK, Own, HealthSound
    <2>4. QED
      BY <2>1, <2>2, <2>3
  <1>4. /\ dirs' \in [Packages -> SUBSET {"run", "late"}] /\ late' \in SUBSET Packages
        /\ \A q \in Packages \ {p} : dirs'[q] = dirs[q] /\ (q \in late' <=> q \in late)
        /\ "run" \in dirs'[p] <=> "run" \in dirs[p]
        /\ "late" \in dirs'[p] <=> p \in late'
    <2>1. CASE LateRenderReturns(p)
      <3>1. dirs' = [dirs EXCEPT ![p] = dirs[p] \ {"late"}] /\ late' = late \ {p}
        BY <1>t, <2>1 DEF LateRenderReturns, TypeOK
      <3>2. dirs'[p] = dirs[p] \ {"late"}
        BY <1>t, <3>1 DEF TypeOK
      <3>3. QED
        BY <1>t, <3>1, <3>2 DEF TypeOK
    <2>2. CASE RollsOut(p) \/ Degrades(p)
      <3>1. dirs' = dirs /\ late' = late
        BY <2>2 DEF RollsOut, Degrades
      <3>2. QED
        BY <1>t, <3>1 DEF TypeOK, DirHeld
    <2>3. QED
      BY <2>1, <2>2
  <1>5. TypeOK'
    BY <1>t, <1>1, <1>2, <1>3, <1>4 DEF TypeOK, worldVars, platVars
  <1>6. Others(p)
    BY <1>1, <1>3, <1>4 DEF Others, Still, Kept
  <1>7. RunRead(p)'
    <2>1. pkg[p].gen \in Nat /\ troubles \in Nat /\ troubles' \in Nat
      BY <1>t, <1>2, PackageAssumption DEF TypeOK, Object, Generation
    <2>2. QED
      BY <1>t, <1>1, <1>2, <2>1 DEF Own, RunRead
  <1>8. BaseSound(p)'
    BY <1>t, <1>1 DEF Own, BaseSound
  <1>9. AppliedSound(p)'
    BY <1>t, <1>1 DEF Own, AppliedSound
  <1>10. HealthSound(p)'
    BY <1>t, <1>1, <1>3 DEF Own, HealthSound
  <1>11. DirHeld(p)' /\ Onward(p)
    BY <1>t, <1>1, <1>4 DEF DirHeld, Onward
  <1>12. Announced(p)'
    BY <1>t, <1>1 DEF Announced
  <1>13. QED
    BY <1>5, <1>6, <1>7, <1>8, <1>9, <1>10, <1>11, <1>12 DEF Own, Outside

(* The source and the Platform change: packages are at most woken.         *)
LEMMA WorldSound ==
  ASSUME PackageInv, RetryAnnounced, SourceChanges \/ PlatformChanges \/ PlatformGenerates
  PROVE  TypeOK' /\ \A p \in Packages : Own(p)' /\ Outside(p)' /\ Still(p)
  <1>t. TypeOK
    BY DEF PackageInv
  <1>1. /\ UNCHANGED <<pkg, st, objects, roll, watched, run, late, dirs, histVars>>
        /\ Trouble \/ UNCHANGED troubles
    BY DEF SourceChanges, PlatformChanges, PlatformGenerates
  <1>2. troubles' \in 0 .. MaxTroubles /\ troubles' >= troubles
    BY <1>t, <1>1, TroubleTypes DEF TypeOK
  <1>3. /\ src' \in Source /\ plat' \in Platforms /\ cr' \in Platforms \cup {None}
        /\ held' \in Platforms \cup {None}
    <2>1. CASE SourceChanges
      <3>1. UNCHANGED <<plat, cr, held>>
        BY <2>1 DEF SourceChanges, platVars
      <3>2. PICK new \in {[crds |-> TRUE, exists |-> TRUE, ready |-> TRUE, art |-> x] : x \in Artifacts}
                         \cup {[src EXCEPT !.ready = FALSE], NoSource, [NoSource EXCEPT !.exists = TRUE]} :
              src' = new
        BY <2>1 DEF SourceChanges
      <3>3. src \in Source /\ NoSource \in Source
        BY <1>t DEF TypeOK, NoSource, Source
      <3>4. [src EXCEPT !.ready = FALSE] \in Source /\ [NoSource EXCEPT !.exists = TRUE] \in Source
        BY <3>3 DEF Source
      <3>5. \A x \in Artifacts : [crds |-> TRUE, exists |-> TRUE, ready |-> TRUE, art |-> x] \in Source
        BY DEF Source
      <3>6. src' \in Source
        BY <3>2, <3>3, <3>4, <3>5
      <3>7. QED
        BY <1>t, <3>1, <3>6 DEF TypeOK
    <2>2. CASE PlatformChanges
      BY <1>t, <2>2 DEF PlatformChanges, TypeOK
    <2>3. CASE PlatformGenerates
      BY <1>t, <2>3 DEF PlatformGenerates, TypeOK
    <2>4. QED
      BY <2>1, <2>2, <2>3
  <1>4. due' \in [Packages -> Int] /\ \A p \in Packages : due'[p] \in {due[p], Now}
    <2>1. UNCHANGED due \/ \E S : Wakes(S)
      BY DEF SourceChanges, PlatformChanges, PlatformGenerates, mapSourceToModulePackages,
             mapPlatformToModulePackages
    <2>2. CASE UNCHANGED due
      BY <1>t, <2>2 DEF TypeOK
    <2>3. CASE \E S : Wakes(S)
      BY <1>t, <2>3, WakesTypes
    <2>4. QED
      BY <2>1, <2>2, <2>3
  <1>5. TypeOK'
    BY <1>t, <1>1, <1>2, <1>3, <1>4 DEF TypeOK, histVars
  <1>6. ASSUME NEW p \in Packages PROVE Own(p)' /\ Outside(p)' /\ Still(p)
    <2>1. Still(p)
      BY <1>1, <1>4 DEF Still, Kept, histVars
    <2>2. Own(p) /\ Outside(p)
      BY DirKnown DEF PackageInv, Own, Outside, RetryAnnounced, Announced
    <2>3. troubles' \in Nat
      BY <1>2
    <2>4. QED
      BY <1>t, <1>2, <2>1, <2>2, <2>3, StillSound
  <1>7. QED
    BY <1>5, <1>6


(* The process dies, with objects of running applies written or not.       *)
LEMMA RestartSound ==
  ASSUME PackageInv, Restart
  PROVE  TypeOK' /\ \A p \in Packages : Own(p)' /\ Outside(p)' /\ run'[p].pc = "idle"
  <1>t. TypeOK
    BY DEF PackageInv
  <1>1. PICK wrote \in SUBSET {p \in Packages : run[p].pc = "apply"} :
          /\ objects' = [p \in Packages |-> IF p \in wrote THEN Mixed ELSE objects[p]]
          /\ RollOutBegins(wrote)
          /\ dirty' = dirty \cup wrote \cup {p \in Packages : run[p].fresh}
    BY DEF Restart
  <1>2. /\ roll' \in [Packages -> {"none", "rolling", "ready", "stuck"}] /\ rolledOut' \in SUBSET Packages
        /\ \A q \in Packages \ wrote : roll'[q] = roll[q] /\ (q \in rolledOut' <=> q \in rolledOut)
        /\ \A q \in wrote : roll'[q] # "none" /\ (roll'[q] = "ready" => q \in rolledOut')
    BY <1>t, <1>1, RollTypes
  <1>3. /\ lost' = lost \cup {p \in Packages : run[p].pc \in {"apply", "judge", "commit", "gate"}}
        /\ held' = None /\ late' = {} /\ dirs' = [p \in Packages |-> {}]
        /\ run' = [p \in Packages |-> Idle] /\ watched' = src.crds
        /\ UNCHANGED <<pkg, st, src, plat, cr>> /\ Trouble
    BY DEF Restart, fluxSourceCRDsInstalled
  <1>4. due' \in [Packages -> Int] /\ \A p \in Packages : due'[p] = Now
    BY <1>t, WakesTypes DEF Restart
  <1>5. /\ troubles' \in 0 .. MaxTroubles /\ troubles' >= troubles
    BY <1>t, <1>3, TroubleTypes DEF TypeOK
  <1>6. TypeOK'
    <2>1. run' \in [Packages -> Run]
      BY <1>t, <1>3, IdleTyped
    <2>2. objects' \in [Packages -> Content \cup {None, Mixed}] /\ dirty' \in SUBSET Packages
      BY <1>t, <1>1 DEF TypeOK
    <2>3. lost' \in SUBSET Packages /\ late' \in SUBSET Packages /\ watched' \in BOOLEAN
      BY <1>t, <1>3 DEF TypeOK, Source
    <2>4. dirs' \in [Packages -> SUBSET {"run", "late"}]
      BY <1>3
    <2>5. QED
      BY <1>t, <1>2, <1>3, <1>4, <1>5, <2>1, <2>2, <2>3, <2>4 DEF TypeOK
  <1>7. ASSUME NEW p \in Packages
        PROVE  Own(p)' /\ Outside(p)' /\ run'[p].pc = "idle"
    <2>t. Own(p)
      BY DEF PackageInv, Own
    <2>1. run'[p].pc = "idle" /\ ~run'[p].fresh
      BY <1>3 DEF Idle
    <2>2. run[p].fresh \in BOOLEAN
      BY <1>t DEF TypeOK, Run
    <2>3. /\ objects'[p] = IF p \in wrote THEN Mixed ELSE objects[p]
          /\ p \in dirty' <=> p \in dirty \/ p \in wrote \/ run[p].fresh
      BY <1>1
    <2>4. RunRead(p)' /\ BaseSound(p)'
      <3>1. pkg[p].gen \in Nat /\ troubles \in Nat /\ troubles' \in Nat
        BY <1>t, <1>5, PackageAssumption DEF TypeOK, Object, Generation
      <3>2. QED
        BY <1>3, <1>5, <2>t, <2>1, <3>1 DEF Own, RunRead, BaseSound
    <2>5. AppliedSound(p)'
      <3>1. Mixed # None /\ None \notin Content
        BY PackageAssumption
      <3>2. pkg[p].exists => objects'[p] = st[p].digest \/ p \in dirty'
        BY <2>t, <2>2, <2>3 DEF Own, AppliedSound
      <3>3. p \in dirty' /\ pkg[p].exists => objects'[p] # None
        BY <2>t, <2>2, <2>3, <3>1 DEF Own, AppliedSound
      <3>4. QED
        BY <1>3, <2>t, <2>1, <2>3, <3>2, <3>3 DEF Own, AppliedSound
    <2>6. HealthSound(p)'
      <3>1. /\ roll'[p] = "ready" => p \in rolledOut'
            /\ roll'[p] = "none" /\ pkg[p].exists => objects'[p] = None
        BY <1>2, <2>t, <2>3 DEF Own, HealthSound
      <3>2. p \notin lost' => /\ p \notin lost /\ p \notin wrote
                             /\ run[p].pc \notin {"judge", "commit", "gate"}
        BY <1>1, <1>3
      <3>3. QED
        BY <1>2, <1>3, <2>t, <2>1, <3>1, <3>2 DEF Own, HealthSound
    <2>7. DirHeld(p)' /\ Announced(p)'
      BY <1>3, <1>4, <2>1 DEF DirHeld, Announced
    <2>8. QED
      BY <2>1, <2>4, <2>5, <2>6, <2>7 DEF Own, Outside
  <1>8. QED
    BY <1>6, <1>7
-----------------------------------------------------------------------------
(***************************************************************************)
(* Dependencies                                                            *)
(***************************************************************************)
(* A package whose objects were begun keeps some until it is deleted.      *)
LEMMA BegunStays ==
  ASSUME PackageInv, Next, NEW q \in Packages, Begun(q)
  PROVE  Begun(q)'
  <1>t. TypeOK /\ Own(q)
    BY DEF PackageInv, Own
  <1>1. CASE UNCHANGED <<objects, pkg>>
    BY <1>1 DEF Begun
  <1>n. None \notin Content /\ Mixed # None
    BY PackageAssumption
  <1>2. ASSUME NEW p \in Packages, NEW to \in Content \cup {objects[p], Mixed}, Writes(p, to), UNCHANGED pkg
        PROVE  Begun(q)'
    <2>1. objects' = [objects EXCEPT ![p] = to]
      BY <1>2 DEF Writes
    <2>2. objects[q] # None => objects'[q] # None
      BY <1>t, <1>n, <2>1 DEF TypeOK
    <2>3. QED
      BY <1>2, <2>2 DEF Begun
  <1>3. ASSUME NEW p \in Packages, addModulePackageFinalizer(p) \/ EditSpec(p) \/ DeletePackage(p)
        PROVE  Begun(q)'
    <2>1. pkg[q].deleting => pkg'[q].deleting
      <3>1. pkg[q] \in Object /\ pkg[p] \in Object
        BY <1>t DEF TypeOK
      <3>2. CASE addModulePackageFinalizer(p)
        <4> DEFINE f == pkg[p].fin \/ pkg[p].exists
        <4>1. pkg' = [pkg EXCEPT ![p] = [pkg[p] EXCEPT !.fin = f]]
          BY <3>2 DEF addModulePackageFinalizer
        <4> HIDE DEF f
        <4>2. QED
          BY <1>t, <3>1, <4>1 DEF TypeOK, Object
      <3>3. CASE EditSpec(p)
        <4>1. PICK s \in Specs[p] : pkg' = [pkg EXCEPT ![p].spec = s, ![p].gen = @ + 1]
          BY <3>3 DEF EditSpec
        <4>2. pkg' = [pkg EXCEPT ![p] = [pkg[p] EXCEPT !.spec = s, !.gen = pkg[p].gen + 1]]
          BY <1>t, <4>1 DEF TypeOK
        <4>3. QED
          BY <1>t, <3>1, <4>2 DEF TypeOK, Object
      <3>4. CASE DeletePackage(p)
        <4>1. pkg' = [pkg EXCEPT ![p] = [pkg[p] EXCEPT !.deleting = TRUE, !.gen = pkg[p].gen + 1,
                                                      !.exists = pkg[p].fin]]
          BY <1>t, <3>4 DEF TypeOK, DeletePackage
        <4>2. QED
          BY <1>t, <3>1, <4>1 DEF TypeOK, Object
      <3>5. QED
        BY <1>3, <3>2, <3>3, <3>4
    <2>2. UNCHANGED objects
      BY <1>3 DEF addModulePackageFinalizer, EditSpec, DeletePackage
    <2>3. QED
      BY <2>1, <2>2 DEF Begun
  <1>4. ASSUME NEW p \in Packages, handleModulePackageDeletion(p) PROVE Begun(q)'
    <2>1. pkg[q].deleting => pkg'[q].deleting
      BY <1>t, <1>4 DEF handleModulePackageDeletion, TypeOK, Object
    <2>2. CASE p = q
      <3>1. run[q].pc = "act" /\ run[q].cur.deleting
        BY <1>4, <2>2 DEF handleModulePackageDeletion, Takes, Branch
      <3>2. pkg[q].deleting
        BY <1>t, <3>1 DEF Own, RunRead
      <3>3. QED
        BY <2>1, <3>2 DEF Begun
    <2>3. CASE p # q
      <3>1. objects'[q] = objects[q]
        BY <1>t, <1>4, <2>3 DEF handleModulePackageDeletion, TypeOK
      <3>2. QED
        BY <2>1, <3>1 DEF Begun
    <2>4. QED
      BY <2>2, <2>3
  <1>5. CASE Restart
    <2>1. UNCHANGED pkg /\ (objects[q] # None => objects'[q] # None)
      BY <1>5, <1>n DEF Restart
    <2>2. QED
      BY <2>1 DEF Begun
  <1>6. ASSUME NEW p \in Packages, Progress(p) PROVE Begun(q)'
    <2>1. CASE addModulePackageFinalizer(p)
      BY <1>3, <2>1
    <2>2. CASE handleModulePackageDeletion(p)
      BY <1>4, <2>2
    <2>3. CASE applyAndPruneModulePackage(p)
      <3>1. run[p].content \in Content
        BY <2>3 DEF applyAndPruneModulePackage, PackageInv, RunRead
      <3>2. QED
        BY <1>2, <2>3, <3>1 DEF applyAndPruneModulePackage
    <2>4. CASE ApplyFails(p) \/ Panics(p)
      <3>1. PICK to \in {objects[p], Mixed} : Writes(p, to)
        BY <2>4 DEF ApplyFails, Panics
      <3>2. UNCHANGED pkg
        BY <2>4 DEF ApplyFails, Panics
      <3>3. QED
        BY <1>2, <3>1, <3>2
    <2>5. CASE ActFails(p) \/ handleSuspend(p) \/ WaitsForDependency(p) \/ ResolveFails(p) \/ Resolve(p)
               \/ Fetch(p) \/ fetchModulePackageArtifactFails(p)
      BY <1>1, <2>5 DEF ActFails, handleSuspend, WaitsForDependency, ResolveFails, Resolve,
                        Fetch, fetchModulePackageArtifactFails
    <2>6. CASE RenderStalls(p) \/ RenderFails(p) \/ RenderTimesOut(p) \/ Render(p)
               \/ patchModulePackageIdentityStatus(p) \/ judgePackageHealth(p) \/ Commit(p) \/ CommitFails(p)
      BY <1>1, <2>6 DEF RenderStalls, RenderFails, RenderTimesOut, Render,
                        patchModulePackageIdentityStatus, judgePackageHealth, Commit, CommitFails
    <2>7. QED
      BY <1>6, <2>1, <2>2, <2>3, <2>4, <2>5, <2>6 DEF Progress
  <1>7. ASSUME NEW p \in Packages, Start(p) \/ LateRenderReturns(p) \/ RollsOut(p) \/ Degrades(p)
        PROVE  Begun(q)'
    BY <1>1, <1>7 DEF Start, LateRenderReturns, RollsOut, Degrades
  <1>8. CASE SourceChanges \/ PlatformChanges \/ PlatformGenerates
    BY <1>1, <1>8 DEF SourceChanges, PlatformChanges, PlatformGenerates
  <1>9. QED
    BY <1>3, <1>5, <1>6, <1>7, <1>8 DEF Next

(* A package that is Ready has objects.                                    *)
LEMMA ReadyBegun ==
  ASSUME PackageInv, NEW q \in Packages, pkg[q].exists, st[q].ready = "Succeeded"
  PROVE  objects[q] # None
  <1>1. TypeOK /\ AppliedSound(q)
    BY DEF PackageInv
  <1>2. run[q].fresh \in BOOLEAN /\ None \notin Content
    BY <1>1, PackageAssumption DEF TypeOK, Run
  <1>3. QED
    BY <1>1, <1>2 DEF AppliedSound

(* The dependencies of a reconcile are packages.                           *)
LEMMA DepsArePackages ==
  ASSUME TypeOK, NEW p \in Packages
  PROVE  run[p].cur.spec.deps \subseteq Packages
  <1>1. run[p].cur.spec \in Spec0
    BY DEF TypeOK, Run, Object
  <1>2. PICK x \in Packages : run[p].cur.spec \in Specs[x]
    BY <1>1 DEF Spec0
  <1>3. QED
    BY <1>2, PackageAssumption

(* A reconcile that goes through the gates has its dependencies begun.     *)
LEMMA GateBegun ==
  ASSUME PackageInv, NEW p \in Packages, Takes(p, "resolve")
  PROVE  \A q \in run[p].cur.spec.deps : Begun(q)
  <1>1. checkDependsOn(run[p]) = {}
    BY DEF Takes, Branch
  <1>2. run[p].cur.spec.deps \subseteq Packages
    BY DepsArePackages DEF PackageInv
  <1>3. ASSUME NEW q \in run[p].cur.spec.deps PROVE Begun(q)
    <2>1. pkg[q].exists /\ st[q].ready = "Succeeded"
      BY <1>1 DEF checkDependsOn
    <2>2. QED
      BY <1>2, <2>1, ReadyBegun DEF Begun
  <1>4. QED
    BY <1>3
-----------------------------------------------------------------------------
(***************************************************************************)
(* The invariant                                                           *)
(***************************************************************************)
LEMMA InitSound ==
  ASSUME Init
  PROVE  PackageInv /\ RetryAnnounced
  <1>1. PICK w \in Worlds :
          /\ pkg = [p \in Packages |-> [exists |-> TRUE, gen |-> 1, deleting |-> FALSE, fin |-> FALSE,
                                        spec |-> w.specs[p]]]
          /\ src = w.src /\ watched = w.src.crds /\ plat = w.plat
    BY DEF Init
  <1>2. /\ \A p \in Packages : w.specs[p] \in Specs[p]
        /\ w.src \in Source /\ w.plat \in Platforms
    BY PackageAssumption DEF Source
  <1>3. ASSUME NEW p \in Packages PROVE NewStatus \in Status /\ Idle \in Run
    BY <1>2, IdleTypes
  <1>4. pkg \in [Packages -> Object]
    <2>1. ASSUME NEW p \in Packages
          PROVE  [exists |-> TRUE, gen |-> 1, deleting |-> FALSE, fin |-> FALSE, spec |-> w.specs[p]] \in Object
      <3>1. w.specs[p] \in Spec0 /\ 1 \in Generation
        BY <1>2, PackageAssumption DEF Spec0, Generation
      <3>2. QED
        BY <3>1 DEF Object
    <2>2. QED
      BY <1>1, <2>1
  <1>5. TypeOK
    <2>1. st \in [Packages -> Status] /\ run \in [Packages -> Run]
      BY <1>3 DEF Init
    <2>2. due \in [Packages -> Int] /\ dirs \in [Packages -> SUBSET {"run", "late"}]
      BY DEF Init, Now
    <2>3. src \in Source /\ plat \in Platforms /\ watched \in BOOLEAN
      BY <1>1, <1>2 DEF Source
    <2>4. QED
      BY <1>4, <2>1, <2>2, <2>3, PackageAssumption DEF Init, TypeOK
  <1>6. /\ Idle.pc = "idle" /\ ~Idle.fresh /\ NewStatus.ready = "Unset"
        /\ NewStatus.inputs = None /\ NewStatus.digest = None
    BY DEF Idle, NewStatus
  <1>7. ASSUME NEW p \in Packages
        PROVE  RunRead(p) /\ BaseSound(p) /\ AppliedSound(p) /\ HealthSound(p) /\ DepsSound(p)
               /\ DirHeld(p) /\ Announced(p)
    <2>1. /\ pkg[p].gen = 1 /\ ~pkg[p].fin /\ run[p].pc = "idle" /\ ~run[p].fresh
          /\ st[p].ready = "Unset" /\ st[p].inputs = None /\ st[p].digest = None
      BY <1>1, <1>6 DEF Init
    <2>2. objects[p] = None /\ roll[p] = "none" /\ dirs[p] = {} /\ troubles = 0 /\ late = {} /\ dirty = {}
      BY DEF Init
    <2>3. QED
      BY <2>1, <2>2 DEF RunRead, BaseSound, AppliedSound, HealthSound, DepsSound, DirHeld, Announced
  <1>8. DirsHeld
    BY <1>5, <1>7, DirsByPackage DEF TypeOK
  <1>9. QED
    BY <1>5, <1>7, <1>8 DEF PackageInv, RetryAnnounced, Announced

(* Every step that is about one package keeps it sound, and the others     *)
(* still.                                                                  *)
LEMMA OneSound ==
  ASSUME PackageInv, RetryAnnounced, NEW p \in Packages,
         \/ Start(p) \/ Progress(p) \/ LateRenderReturns(p)
         \/ EditSpec(p) \/ DeletePackage(p) \/ RollsOut(p) \/ Degrades(p)
  PROVE  TypeOK' /\ Own(p)' /\ Outside(p)' /\ Others(p) /\ Onward(p)
  <1>1. CASE addModulePackageFinalizer(p) \/ ActFails(p)
    BY <1>1, ActEndsSound
  <1>2. CASE handleModulePackageDeletion(p)
    BY <1>2, DeletionSound
  <1>3. CASE handleSuspend(p) \/ WaitsForDependency(p)
    BY <1>3, GateSound
  <1>4. CASE \/ ResolveFails(p) \/ fetchModulePackageArtifactFails(p)
             \/ RenderStalls(p) \/ RenderFails(p) \/ RenderTimesOut(p)
    BY <1>4, FailSound
  <1>5. CASE Resolve(p) \/ Fetch(p) \/ Render(p) \/ patchModulePackageIdentityStatus(p)
    BY <1>5, ResolveSound, FetchSound, RenderSound, StoreSound
  <1>6. CASE applyAndPruneModulePackage(p) \/ ApplyFails(p) \/ judgePackageHealth(p) \/ Panics(p)
    BY <1>6, ApplySound, ApplyFailsSound, JudgeSound, PanicsSound
  <1>7. CASE Commit(p) \/ CommitFails(p)
    BY <1>7, CommitSound
  <1>8. CASE Start(p) \/ LateRenderReturns(p) \/ EditSpec(p) \/ DeletePackage(p) \/ RollsOut(p) \/ Degrades(p)
    BY <1>8, StartSound, EditSound, RollSound
  <1>9. QED
    BY <1>1, <1>2, <1>3, <1>4, <1>5, <1>6, <1>7, <1>8 DEF Progress

(* Troubles are only ever added.                                           *)
LEMMA TroublesGrow ==
  ASSUME TypeOK, Next
  PROVE  troubles' >= troubles
  <1>1. troubles \in Nat
    BY PackageAssumption DEF TypeOK
  <1>2. Trouble \/ UNCHANGED troubles
    <2>1. ASSUME NEW p \in Packages, Progress(p) PROVE Trouble \/ UNCHANGED troubles
      <3>1. CASE \/ addModulePackageFinalizer(p) \/ handleModulePackageDeletion(p) \/ ActFails(p)
                 \/ handleSuspend(p) \/ WaitsForDependency(p) \/ ResolveFails(p) \/ Resolve(p)
                 \/ Fetch(p) \/ fetchModulePackageArtifactFails(p)
        BY <3>1 DEF addModulePackageFinalizer, handleModulePackageDeletion, ActFails, handleSuspend,
                    WaitsForDependency, ResolveFails, Resolve, Fetch, fetchModulePackageArtifactFails
      <3>2. CASE \/ RenderStalls(p) \/ RenderFails(p) \/ RenderTimesOut(p) \/ Render(p)
                 \/ patchModulePackageIdentityStatus(p) \/ applyAndPruneModulePackage(p) \/ ApplyFails(p)
        BY <3>2 DEF RenderStalls, RenderFails, RenderTimesOut, Render, patchModulePackageIdentityStatus,
                    applyAndPruneModulePackage, ApplyFails
      <3>3. CASE judgePackageHealth(p) \/ Panics(p) \/ Commit(p) \/ CommitFails(p)
        BY <3>3 DEF judgePackageHealth, Panics, Commit, CommitFails
      <3>4. QED
        BY <2>1, <3>1, <3>2, <3>3 DEF Progress
    <2>2. QED
      BY <2>1 DEF Next, Start, LateRenderReturns, EditSpec, DeletePackage, RollsOut, Degrades,
                  Restart, SourceChanges, PlatformChanges, PlatformGenerates
  <1>3. QED
    BY <1>1, <1>2 DEF Trouble

(* The invariant and the announced retries are kept together.              *)
LEMMA StepSound ==
  ASSUME PackageInv, RetryAnnounced, Next
  PROVE  PackageInv' /\ RetryAnnounced'
  <1>t. TypeOK /\ \A q \in Packages : Own(q) /\ Outside(q)
    BY DirKnown DEF PackageInv, Own, Outside, RetryAnnounced, Announced
  <1>1. ASSUME NEW p \in Packages, TypeOK', Own(p)', Outside(p)', Others(p)
        PROVE  \A q \in Packages : Own(q)' /\ Outside(q)'
    <2>1. troubles' \in Nat /\ troubles' >= troubles
      BY <1>t, <1>1, TroublesGrow, PackageAssumption DEF TypeOK
    <2>2. ASSUME NEW q \in Packages, q # p PROVE Own(q)' /\ Outside(q)'
      BY <1>t, <1>1, <2>1, <2>2, StillSound DEF Others
    <2>3. QED
      BY <1>1, <2>2
  <1>2. ASSUME NEW q \in Packages, run'[q] = run[q] PROVE DepsSound(q)'
    BY <1>t, <1>2, DepsArePackages, BegunStays DEF PackageInv, DepsSound
  <1>3. ASSUME NEW p \in Packages, Others(p), Onward(p) PROVE \A q \in Packages : DepsSound(q)'
    <2>1. DepsSound(p)'
      <3>1. SUFFICES ASSUME run'[p].pc \in {"fetch", "render", "store", "apply"},
                            NEW q \in run'[p].cur.spec.deps
                     PROVE  Begun(q)'
        BY DEF DepsSound
      <3>2. q \in run[p].cur.spec.deps
        BY <1>3, <3>1 DEF Onward
      <3>3. Begun(q)
        BY <1>3, <3>1, <3>2, GateBegun DEF Onward, PackageInv, DepsSound
      <3>4. QED
        BY <1>t, <3>2, <3>3, DepsArePackages, BegunStays
    <2>2. QED
      BY <1>2, <1>3, <2>1 DEF Others, Still
  <1>4. TypeOK' /\ \A q \in Packages : Own(q)' /\ Outside(q)' /\ DepsSound(q)'
    <2>1. CASE Restart
      BY <2>1, RestartSound DEF DepsSound
    <2>2. CASE SourceChanges \/ PlatformChanges \/ PlatformGenerates
      BY <1>2, <2>2, WorldSound DEF Still
    <2>3. ASSUME NEW p \in Packages,
                 \/ Start(p) \/ Progress(p) \/ LateRenderReturns(p)
                 \/ EditSpec(p) \/ DeletePackage(p) \/ RollsOut(p) \/ Degrades(p)
          PROVE  TypeOK' /\ \A q \in Packages : Own(q)' /\ Outside(q)' /\ DepsSound(q)'
      <3>1. TypeOK' /\ Own(p)' /\ Outside(p)' /\ Others(p) /\ Onward(p)
        BY <2>3, OneSound
      <3>2. QED
        BY <1>1, <1>3, <3>1
    <2>4. QED
      BY <2>1, <2>2, <2>3 DEF Next
  <1>5. DirsHeld'
    BY <1>4 DEF DirsHeld, DirHeld, Outside, TypeOK
  <1>6. RetryAnnounced'
    BY <1>4 DEF RetryAnnounced, Announced, Outside
  <1>7. QED
    BY <1>4, <1>5, <1>6 DEF PackageInv, Own

(* What the invariant speaks of is all there is.                           *)
LEMMA StutterSound ==
  ASSUME PackageInv, RetryAnnounced, UNCHANGED vars
  PROVE  PackageInv' /\ RetryAnnounced'
  <1>1. /\ UNCHANGED <<pkg, st, objects, roll, src, plat, cr, held, watched>>
        /\ UNCHANGED <<due, run, late, dirs, lost, dirty, rolledOut, troubles>>
    BY DEF vars, worldVars, platVars, histVars
  <1>2. TypeOK' /\ DirsHeld' /\ RetryAnnounced'
    BY <1>1 DEF PackageInv, TypeOK, DirsHeld, RetryAnnounced
  <1>3. ASSUME NEW p \in Packages
        PROVE  (RunRead(p) /\ BaseSound(p) /\ AppliedSound(p) /\ HealthSound(p) /\ DepsSound(p))'
    <2>1. RunRead(p)' /\ BaseSound(p)'
      BY <1>1 DEF PackageInv, RunRead, BaseSound
    <2>2. AppliedSound(p)' /\ HealthSound(p)' /\ DepsSound(p)'
      BY <1>1 DEF PackageInv, AppliedSound, HealthSound, DepsSound, Begun
    <2>3. QED
      BY <2>1, <2>2
  <1>4. QED
    BY <1>2, <1>3 DEF PackageInv

(* The invariant and what the status announces hold in every reachable     *)
(* state.                                                                  *)
LEMMA Soundness == Spec => [](PackageInv /\ RetryAnnounced)
  <1>1. Init => PackageInv /\ RetryAnnounced
    BY InitSound
  <1>2. PackageInv /\ RetryAnnounced /\ [Next]_vars => (PackageInv /\ RetryAnnounced)'
    BY StepSound, StutterSound
  <1>3. QED
    BY <1>1, <1>2, PTL DEF Spec

(* ReconcileModulePackage and the packages around it: types hold, a        *)
(* directory is on disk exactly as long as a render needs it, and every    *)
(* reconcile agrees with the stored status, the objects and the roll-out.  *)
THEOREM PackageSafety == Spec => []PackageInv
  BY Soundness, PTL

(* A package that failed is attempted again no later than its status says. *)
THEOREM RetrySafety == Spec => []RetryAnnounced
  BY Soundness, PTL

(* The Ready condition: the objects are those of the recorded digests.     *)
THEOREM AppliedSafety == Spec => []ReadyMeansApplied
  <1>1. PackageInv => ReadyMeansApplied
    <2>1. SUFFICES ASSUME PackageInv, NEW p \in Packages, run[p].pc = "idle", pkg[p].exists
                   PROVE  objects[p] = st[p].digest \/ p \in dirty
      BY DEF ReadyMeansApplied
    <2>2. RunRead(p) /\ AppliedSound(p)
      BY <2>1 DEF PackageInv
    <2>3. run[p].fresh \in BOOLEAN
      BY <2>1 DEF PackageInv, TypeOK, Run
    <2>4. QED
      BY <2>1, <2>2, <2>3 DEF RunRead, AppliedSound
  <1>2. QED
    BY <1>1, PackageSafety, PTL

(* The Healthy condition is a judgement of the objects last written.       *)
THEOREM HealthSafety == Spec => []HealthyAfterApply
  <1>1. PackageInv => HealthyAfterApply
    BY DEF PackageInv, HealthSound, HealthyAfterApply
  <1>2. QED
    BY <1>1, PackageSafety, PTL
-----------------------------------------------------------------------------
(***************************************************************************)
(* The first objects of a package                                          *)
(***************************************************************************)
(* They are written by an apply, and by nothing else.                      *)
LEMMA FirstWrite ==
  ASSUME PackageInv, Next, NEW p \in Packages, objects[p] = None, objects'[p] # None
  PROVE  run[p].pc = "apply"
  <1>t. TypeOK
    BY DEF PackageInv
  <1>1. ~UNCHANGED objects
    OBVIOUS
  <1>2. ASSUME NEW q \in Packages, handleModulePackageDeletion(q) PROVE FALSE
    <2>1. PICK left \in IF objects[q] = st[q].digest THEN {None} ELSE {None, Mixed} :
            objects' = [objects EXCEPT ![q] = left]
      BY <1>2 DEF handleModulePackageDeletion
    <2>2. q = p /\ objects[p] # st[p].digest
      BY <1>t, <2>1 DEF TypeOK
    <2>3. run[p].pc = "act" /\ run[p].cur.fin
      BY <1>2, <2>2 DEF handleModulePackageDeletion, Takes
    <2>4. pkg[p].exists /\ ~run[p].fresh
      BY <1>t, <2>3 DEF PackageInv, RunRead
    <2>5. p \in dirty /\ objects[p] # None
      BY <2>2, <2>4 DEF PackageInv, AppliedSound
    <2>6. QED
      BY <2>5
  <1>3. CASE Restart
    BY <1>3 DEF Restart
  <1>4. ASSUME NEW q \in Packages, applyAndPruneModulePackage(q) \/ ApplyFails(q) \/ Panics(q)
        PROVE  run[p].pc = "apply"
    <2>1. CASE run[q].pc = "apply"
      <3>1. PICK to : objects' = [objects EXCEPT ![q] = to]
        BY <1>4 DEF applyAndPruneModulePackage, ApplyFails, Panics, Writes
      <3>2. q = p
        BY <1>t, <3>1 DEF TypeOK
      <3>3. QED
        BY <2>1, <3>2
    <2>2. CASE run[q].pc # "apply"
      <3>1. PICK to \in {objects[q]} : Writes(q, to)
        BY <1>4, <2>2 DEF applyAndPruneModulePackage, ApplyFails, Panics
      <3>2. objects' = objects
        BY <1>t, <3>1 DEF Writes, TypeOK
      <3>3. QED
        BY <1>1, <3>2
    <2>3. QED
      BY <2>1, <2>2
  <1>5. ASSUME NEW q \in Packages, Progress(q) PROVE run[p].pc = "apply"
    <2>1. CASE handleModulePackageDeletion(q)
      BY <1>2, <2>1
    <2>2. CASE applyAndPruneModulePackage(q) \/ ApplyFails(q) \/ Panics(q)
      BY <1>4, <2>2
    <2>3. CASE \/ addModulePackageFinalizer(q) \/ ActFails(q) \/ handleSuspend(q) \/ WaitsForDependency(q)
               \/ ResolveFails(q) \/ Resolve(q) \/ Fetch(q) \/ fetchModulePackageArtifactFails(q)
      BY <1>1, <2>3 DEF addModulePackageFinalizer, ActFails, handleSuspend, WaitsForDependency,
                        ResolveFails, Resolve, Fetch, fetchModulePackageArtifactFails
    <2>4. CASE \/ RenderStalls(q) \/ RenderFails(q) \/ RenderTimesOut(q) \/ Render(q)
               \/ patchModulePackageIdentityStatus(q) \/ judgePackageHealth(q) \/ Commit(q) \/ CommitFails(q)
      BY <1>1, <2>4 DEF RenderStalls, RenderFails, RenderTimesOut, Render,
                        patchModulePackageIdentityStatus, judgePackageHealth, Commit, CommitFails
    <2>5. QED
      BY <1>5, <2>1, <2>2, <2>3, <2>4 DEF Progress
  <1>6. ASSUME NEW q \in Packages,
               \/ Start(q) \/ LateRenderReturns(q) \/ EditSpec(q) \/ DeletePackage(q) \/ RollsOut(q) \/ Degrades(q)
        PROVE  FALSE
    BY <1>1, <1>6 DEF Start, LateRenderReturns, EditSpec, DeletePackage, RollsOut, Degrades
  <1>7. CASE SourceChanges \/ PlatformChanges \/ PlatformGenerates
    BY <1>1, <1>7 DEF SourceChanges, PlatformChanges, PlatformGenerates
  <1>8. QED
    BY <1>3, <1>5, <1>6, <1>7 DEF Next

(* checkDependsOn, read once at the gate, is enough: the first objects of  *)
(* a package are written after those of the packages it depends on.        *)
THEOREM DependencySafety == Spec => DependencyFirst
  <1>1. PackageInv /\ [Next]_vars =>
          [\A p \in Packages : objects[p] = None /\ objects'[p] # None =>
             \A q \in run[p].cur.spec.deps : Begun(q)]_vars
    <2>1. SUFFICES ASSUME PackageInv, Next, NEW p \in Packages, objects[p] = None, objects'[p] # None
                   PROVE  \A q \in run[p].cur.spec.deps : Begun(q)
      OBVIOUS
    <2>2. run[p].pc = "apply"
      BY <2>1, FirstWrite
    <2>3. QED
      BY <2>1, <2>2 DEF PackageInv, DepsSound
  <1>2. QED
    BY <1>1, PackageSafety, PTL DEF Spec, DependencyFirst
=============================================================================
