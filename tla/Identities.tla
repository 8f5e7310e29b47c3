----------------------------- MODULE Identities -----------------------------
(***************************************************************************)
(* internal/reconcile/identity.go: what one render means for the two       *)
(* identity fields of a ModuleInstance (status.instanceUUID and            *)
(* status.previousInstanceUUID).                                           *)
(***************************************************************************)
EXTENDS Ownership, Sequences

IdentityPlan ==
    [uuid: Identity, prev: Identity, changed: BOOLEAN, refused: BOOLEAN,
     prune: Seq(Identity)]

(* recordedIdentities: the non-empty identities, in order.                 *)
recordedIdentities(id1, id2) ==
    CASE id1 = NoId /\ id2 = NoId -> <<>>
      [] id1 # NoId /\ id2 = NoId -> <<id1>>
      [] id1 = NoId /\ id2 # NoId -> <<id2>>
      [] id1 # NoId /\ id2 # NoId -> <<id1, id2>>

Keeps(recorded, previous) ==
    [uuid |-> recorded, prev |-> previous, changed |-> FALSE, refused |-> FALSE,
     prune |-> recordedIdentities(recorded, previous)]

Moves(uuid, prev) ==
    [uuid |-> uuid, prev |-> prev, changed |-> TRUE, refused |-> FALSE,
     prune |-> recordedIdentities(uuid, prev)]

(* Mutant: a third identity is let in, and the middle one is dropped.      *)
planIdentitiesDropsMiddle(recorded, previous, rendered) ==
    CASE rendered \in {NoId, recorded} -> Keeps(recorded, previous)
      [] rendered \notin {NoId, recorded} ->
            IF recorded = NoId THEN Moves(rendered, NoId)
            ELSE IF previous \in {NoId, rendered} THEN Moves(rendered, recorded)
            ELSE Moves(rendered, previous)

(* Mutant: going back to the earlier identity is refused as a third one.   *)
planIdentitiesNoSwap(recorded, previous, rendered) ==
    CASE rendered \in {NoId, recorded} -> Keeps(recorded, previous)
      [] rendered \notin {NoId, recorded} ->
            IF recorded = NoId THEN Moves(rendered, NoId)
            ELSE IF previous = NoId THEN Moves(rendered, recorded)
            ELSE [Keeps(recorded, previous) EXCEPT !.refused = TRUE]

(***************************************************************************)
(* planIdentities for a ModuleInstance (legacyFallback is FALSE).  The     *)
(* third and the fourth case of the code both make the rendered identity   *)
(* the recorded one and the recorded one the previous.                     *)
(***************************************************************************)
planIdentities(recorded, previous, rendered) ==
    CASE rendered \in {NoId, recorded} -> Keeps(recorded, previous)
      [] rendered \notin {NoId, recorded} ->
            IF recorded = NoId THEN Moves(rendered, NoId)
            ELSE IF previous \in {NoId, rendered} THEN Moves(rendered, recorded)
            ELSE [Keeps(recorded, previous) EXCEPT !.refused = TRUE]

============================================================================
