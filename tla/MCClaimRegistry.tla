--------------------------- MODULE MCClaimRegistry ---------------------------
(***************************************************************************)
(* The checked instances of ClaimRegistry.                                 *)
(***************************************************************************)
EXTENDS ClaimRegistry

CONSTANTS k1, k2, k3

Of(catalog, version, provides) ==
    [catalog |-> catalog, version |-> version, provides |-> provides, derives |-> provides]

(* Two catalogs, a version of the first that takes in the contract of the  *)
(* second, and a version of the second that takes in a subscribed one.     *)
Narrow == Of("a", 1, {k1})
Wide == Of("a", 2, {k1, k2})
RivalSpecs == {Narrow, Wide, Of("b", 1, {k2}), Of("b", 2, {k2, k3})}
Subscribed == {[catalog |-> "s", provides |-> {k3}]}

(* An upgrade that does not list all that its catalog implements.          *)
UpgradeSpecs == {Narrow, [Wide EXCEPT !.provides = {k2}]}

SomeDemands == {{}, {k1}}

(* Providers that have rendered their claims.                              *)
Rendered == {[ready |-> r, inv |-> "with"] : r \in BOOLEAN}

(* A provider that is being installed, and one that did not render the     *)
(* claim that names it.                                                    *)
Installing == Rendered \cup {[ready |-> FALSE, inv |-> i] : i \in {"none", "without"}}

(* The catalog of the first version may go.                                *)
Lost == {Narrow}
-----------------------------------------------------------------------------
(* The comment on keepsVerdict: a catalog the registry no longer holds is  *)
(* an answer about the claim, so it un-accepts the claim.  It is not so in *)
(* a new pod: the Platform cannot be built while the claim is accepted,    *)
(* and the claim is not judged while there is no platform.                 *)
GoneUnaccepts ==
    \A c \in Claims :
      []<>~(claim[c] # None /\ claim[c].accepted /\ claim[c].spec \in gone \ fetched)
=============================================================================
