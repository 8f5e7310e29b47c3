----------------------------- MODULE Ownership -----------------------------
(***************************************************************************)
(* The ownership verdicts of the library (opm/k8s/ownership), which the    *)
(* controller asks before it applies and before it deletes an object.  The *)
(* library is not part of this repository: the verdicts are modelled from  *)
(* the way internal/apply asks them and from the cases its tests pin.      *)
(*                                                                         *)
(* A live object is what the verdicts read of it: its UID (0 when there is *)
(* no object), whether the managed-by label names OPM, the UUID label, the *)
(* opmodel.dev/adopt annotation, and whether it is being deleted.          *)
(***************************************************************************)
EXTENDS Naturals

CONSTANTS
    Ids,     \* the identities this instance's module paths give it
    Other,   \* the identity of another instance
    NoId     \* no identity: an empty label, annotation or status field

ASSUME IdsAssumption == Other \notin Ids /\ NoId \notin Ids /\ Other # NoId

Identity == Ids \cup {NoId}
Label == Ids \cup {Other, NoId}

LiveObject ==
    [uid: Nat, managed: BOOLEAN, label: Label, adopt: Label, term: BOOLEAN]

Absent ==
    [uid |-> 0, managed |-> FALSE, label |-> NoId, adopt |-> NoId, term |-> FALSE]

Exists(live) == live.uid # 0

(***************************************************************************)
(* CanApply: may the instance `id` write the object?  "letGo" is the       *)
(* library's adopted-elsewhere; "refuse" is terminating, foreign-object or *)
(* other-instance.                                                         *)
(***************************************************************************)
AdoptedElsewhere(live, inInventory, id) ==
    /\ live.adopt \notin {NoId, id}
    /\ \/ inInventory
       \/ live.managed /\ live.label \in {id, live.adopt, NoId}

CanApply(live, inInventory, id) ==
    CASE ~Exists(live)                            -> "allow"
      [] Exists(live) /\ live.term                -> "refuse"
      [] Exists(live) /\ ~live.term ->
            IF AdoptedElsewhere(live, inInventory, id) THEN "letGo"
            ELSE IF \/ inInventory
                    \/ live.adopt = id /\ id # NoId
                    \/ live.managed /\ live.adopt = NoId /\ live.label \in {id, NoId}
                 THEN "allow"
                 ELSE "refuse"

(***************************************************************************)
(* CanDelete: may the instance `id` delete the object?  "foreign" is       *)
(* not-opm-managed; "mismatch" stands for the two answers another identity *)
(* may change, owner-mismatch and adopted-elsewhere.                       *)
(***************************************************************************)
CanDelete(live, id) ==
    CASE ~Exists(live)                              -> "absent"
      [] Exists(live) /\ ~live.managed              -> "foreign"
      [] Exists(live) /\ live.managed ->
            IF \/ id # NoId /\ live.label # NoId /\ live.label # id
               \/ live.adopt # NoId /\ live.adopt # id
            THEN "mismatch" ELSE "proceed"

============================================================================
