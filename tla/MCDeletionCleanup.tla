-------------------------- MODULE MCDeletionCleanup --------------------------
(***************************************************************************)
(* The policies of the checked instances of DeletionCleanup.               *)
(***************************************************************************)
EXTENDS DeletionCleanup

CONSTANTS A, B, x, y

Prunes == [prune |-> TRUE, deleteData |-> FALSE, cli |-> FALSE, orphan |-> FALSE]

AllPolicies ==
    { Prunes, [Prunes EXCEPT !.deleteData = TRUE], [Prunes EXCEPT !.prune = FALSE],
      [Prunes EXCEPT !.cli = TRUE], [Prunes EXCEPT !.orphan = TRUE] }
=============================================================================
