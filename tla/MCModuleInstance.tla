-------------------------- MODULE MCModuleInstance --------------------------
(***************************************************************************)
(* The specs of the checked instances of ModuleInstance.                   *)
(***************************************************************************)
EXTENDS ModuleInstance

CONSTANTS A, B, C, x, y, z

Of(id, objs) ==
    [id |-> id, objs |-> objs, prune |-> TRUE, deleteData |-> FALSE, force |-> FALSE]

(* Identity changes while an object leaves the render.                     *)
IdentitySpecs == {Of(A, {x, y}), Of(B, {x}), Of(C, {x})}

(* One identity, or none; the render keeps or drops each object, with the  *)
(* policies that protect claims and the ones that do not.                  *)
PolicySpecs ==
    { Of(A, {x, y}),
      [Of(A, {x, y}) EXCEPT !.force = TRUE],
      [Of(A, {}) EXCEPT !.deleteData = TRUE],
      [Of(NoId, {x}) EXCEPT !.prune = FALSE] }

(* An object that only the render under the other identity has.            *)
RevertSpecs == {Of(A, {x}), Of(B, {x, y})}
-----------------------------------------------------------------------------
(* The comment on the commit that clears previousInstanceUUID: the apply   *)
(* and the prune succeeded, so no object of the earlier identity is left   *)
(* to judge.  It is not so: an object the aborted apply created is in no   *)
(* inventory, and going back clears the identity it carries.               *)
NoneOfEarlierIdentityLeft ==
    [][st.prev # NoId /\ st'.prev = NoId =>
         \A o \in Objects \ (Claims \cup Excluded) :
           StillOurs(o) => live[o].label # st.prev]_vars
=============================================================================
