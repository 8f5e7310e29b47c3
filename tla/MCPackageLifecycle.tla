------------------------- MODULE MCPackageLifecycle -------------------------
(***************************************************************************)
(* The checked instance of PackageLifecycle: a package and one that        *)
(* depends on it, and a source whose revision may move without its digest. *)
(***************************************************************************)
EXTENDS PackageLifecycle, TLC

CONSTANTS a, b, d1, dx, p1, p2

Plain == [deps |-> {}, suspend |-> FALSE, interval |-> 0]

MCSpecs ==
    [p \in {a, b} |-> IF p = a THEN {Plain, [Plain EXCEPT !.suspend = TRUE], [Plain EXCEPT !.interval = -1]}
                               ELSE {[Plain EXCEPT !.deps = {a}]}]

MCWorlds ==
    LET specs == (a :> Plain @@ b :> [Plain EXCEPT !.deps = {a}])
    IN {[specs |-> specs, plat |-> p1, src |-> [NoSource EXCEPT !.crds = FALSE]],
        [specs |-> specs, plat |-> p1,
         src |-> [crds |-> TRUE, exists |-> TRUE, ready |-> TRUE, art |-> [rev |-> 1, dig |-> d1]]]}

MCArtifacts == {[rev |-> 1, dig |-> d1], [rev |-> 2, dig |-> d1], [rev |-> 3, dig |-> dx]}
=============================================================================
