------------------------ MODULE MCInstanceLifecycle ------------------------
(***************************************************************************)
(* The checked instance of InstanceLifecycle: an instance that can be      *)
(* suspended, handed to the CLI and back, and pointed at the controller's  *)
(* own module.                                                             *)
(***************************************************************************)
EXTENDS InstanceLifecycle

CONSTANTS v1, v2

Managed1 == [inp |-> v1, owner |-> "controller", own |-> FALSE, suspend |-> FALSE]

MCSpecs ==
    {Managed1, [Managed1 EXCEPT !.inp = v2], [Managed1 EXCEPT !.suspend = TRUE],
     [Managed1 EXCEPT !.owner = "cli"], [Managed1 EXCEPT !.own = TRUE]}
=============================================================================
