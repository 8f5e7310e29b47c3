----------------------------- MODULE RenderBound -----------------------------
(***************************************************************************)
(* What the render pool promises (internal/render/slots.go): at most N     *)
(* renders are in flight across the process, and at most one of them       *)
(* renders a given object.                                                 *)
(***************************************************************************)
EXTENDS Naturals, FiniteSets

CONSTANTS
    Keys,     \* the objects
    Threads,  \* where a render may run
    N         \* the bound

VARIABLE busy   \* the renders in flight: the object and the thread

Init == busy = {}

Begin(key, t) ==
    /\ \A r \in busy : r[1] # key
    /\ Cardinality(busy) < N
    /\ busy' = busy \cup {<<key, t>>}

End(r) == r \in busy /\ busy' = busy \ {r}

Next ==
    \/ \E key \in Keys, t \in Threads : Begin(key, t)
    \/ \E r \in Keys \X Threads : End(r)

Spec == Init /\ [][Next]_busy
=============================================================================
