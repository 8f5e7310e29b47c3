----------------------------- MODULE RenderSlots -----------------------------
(***************************************************************************)
(* The process-wide pool of render slots (internal/render/slots.go), which *)
(* the ModuleInstance and the ModulePackage reconcilers share.             *)
(*                                                                         *)
(* Run is called by the reconcile of an object, and the workqueue runs at  *)
(* most one reconcile of an object at a time.  With a timeout, the render  *)
(* runs in a goroutine of its own that may outlive the call; a goroutine   *)
(* frees the key, the slot and the caller's wait in three steps.           *)
(***************************************************************************)
EXTENDS Naturals, FiniteSets

CONSTANTS
    Keys,        \* the objects: kind, namespace and name
    Goroutines,  \* enough of them for every render that can be unfinished
    N,           \* --max-concurrent-renders
    Timeouts,    \* whether --render-timeout may be above zero, zero, or either
    Hanging,     \* the objects whose renders may never return
    None         \* no goroutine, or no object

ASSUME SlotsAssumption ==
    /\ N \in Nat \ {0}
    /\ IsFiniteSet(Keys) /\ IsFiniteSet(Goroutines)
    /\ Timeouts \subseteq BOOLEAN
    /\ None \notin Goroutines \cup Keys
    /\ Keys \cap Goroutines = {}
    /\ Hanging \subseteq Keys

VARIABLES
    bounded,   \* the render timeout is above zero
    held,      \* the tokens in the channel
    running,   \* the keys of the renders in flight
    stop,      \* the manager's context is cancelled
    caller,    \* per object, where its call of Run is
    frame,     \* per object, the goroutine its call waits for
    result,    \* per object, what the last call of Run returned
    called,    \* per object, whether that call called fn
    gor        \* the goroutines

poolVars == <<held, running>>
env == <<bounded, stop>>
callVars == <<caller, frame, result, called>>
vars == <<bounded, held, running, stop, caller, frame, result, called, gor>>

Calls == {"idle", "acquire", "start", "inline", "wait", "late", "drain"}
Results == {"none", "nil", "timedOut", "stillRunning", "cancelled", "panicked"}
Stages == {"free", "fn", "returned", "cleared", "released", "done"}
Goroutine == [st: Stages, key: Keys \cup {None}, panicked: BOOLEAN, late: BOOLEAN]
Free == [st |-> "free", key |-> None, panicked |-> FALSE, late |-> FALSE]

(* NewSlots.                                                               *)
Init ==
    /\ bounded \in Timeouts
    /\ held = 0 /\ running = {} /\ stop = FALSE
    /\ caller = [key \in Keys |-> "idle"] /\ frame = [key \in Keys |-> None]
    /\ result = [key \in Keys |-> "none"] /\ called = [key \in Keys |-> FALSE]
    /\ gor = [g \in Goroutines |-> Free]

(* The call of Run for the object returns.                                 *)
Returns(key, res) ==
    /\ caller' = [caller EXCEPT ![key] = "idle"]
    /\ frame' = [frame EXCEPT ![key] = None]
    /\ result' = [result EXCEPT ![key] = res]
-----------------------------------------------------------------------------
(***************************************************************************)
(* Run, on the reconcile's goroutine                                       *)
(***************************************************************************)
(* Mutant: a render that timed out and still runs is not looked up.        *)
isRunningNever(key) == FALSE

isRunning(key) == key \in running

(* isRunning, and the first check of the context in Acquire.               *)
Run(key) ==
    /\ caller[key] = "idle"
    /\ called' = [called EXCEPT ![key] = FALSE]
    /\ \/ isRunning(key) /\ Returns(key, "stillRunning")
       \/ ~isRunning(key) /\ stop /\ Returns(key, "cancelled")
       \/ /\ ~isRunning(key) /\ ~stop
          /\ caller' = [caller EXCEPT ![key] = "acquire"]
          /\ result' = [result EXCEPT ![key] = "none"] /\ UNCHANGED frame
    /\ UNCHANGED <<poolVars, env, gor>>

SlotFree == held < N

Acquire(key) ==
    /\ caller[key] = "acquire" /\ SlotFree
    /\ held' = held + 1
    /\ caller' = [caller EXCEPT ![key] = IF bounded THEN "start" ELSE "inline"]
    /\ called' = [called EXCEPT ![key] = ~bounded]
    /\ UNCHANGED <<running, env, frame, result, gor>>

(* Mutant: a call that got no slot reports a render timeout.               *)
AcquireCancelledTimeout(key) ==
    /\ caller[key] = "acquire" /\ stop
    /\ Returns(key, "timedOut")
    /\ UNCHANGED <<poolVars, env, called, gor>>

AcquireCancelled(key) ==
    /\ caller[key] = "acquire" /\ stop
    /\ Returns(key, "cancelled")
    /\ UNCHANGED <<poolVars, env, called, gor>>

(* Without a timeout the render runs here; its slot is given back also     *)
(* when it panics.                                                         *)
InlineReturns(key) ==
    /\ caller[key] = "inline"
    /\ \E res \in {"nil", "panicked"} : Returns(key, res)
    /\ held' = held - 1
    /\ UNCHANGED <<running, env, called, gor>>

(* markRunning, and the goroutine starts.                                  *)
Start(key) ==
    /\ caller[key] = "start"
    /\ running' = running \cup {key}
    /\ \E g \in Goroutines :
         /\ gor[g].st = "free"
         /\ gor' = [gor EXCEPT ![g] = [Free EXCEPT !.st = "fn", !.key = key]]
         /\ frame' = [frame EXCEPT ![key] = g]
    /\ caller' = [caller EXCEPT ![key] = "wait"]
    /\ called' = [called EXCEPT ![key] = TRUE]
    /\ UNCHANGED <<held, env, result>>

(* returned: how a render that returned while Run waited is reported.      *)
returned(g) ==
    CASE gor[g].panicked                         -> "panicked"
      [] ~gor[g].panicked /\ gor[g].late /\ ~stop   -> "timedOut"
      [] ~gor[g].panicked /\ ~(gor[g].late /\ ~stop) -> "nil"

Receive(key) ==
    /\ caller[key] \in {"wait", "late", "drain"} /\ gor[frame[key]].st = "done"
    /\ Returns(key, returned(frame[key]))
    /\ gor' = [gor EXCEPT ![frame[key]] = Free]
    /\ UNCHANGED <<poolVars, env, called>>

(* The deadline passed, or the manager stops.                              *)
ContextDone(key) ==
    /\ caller[key] = "wait" /\ (stop \/ gor[frame[key]].late)
    /\ caller' = [caller EXCEPT ![key] = "late"]
    /\ UNCHANGED <<poolVars, env, frame, result, called, gor>>

(* The render did not return at the same moment: Run waits for it when the *)
(* manager stops, and leaves it behind otherwise.                          *)
GiveUp(key) ==
    /\ caller[key] = "late" /\ gor[frame[key]].st # "done"
    /\ \/ /\ stop
          /\ caller' = [caller EXCEPT ![key] = "drain"]
          /\ UNCHANGED <<frame, result>>
       \/ ~stop /\ Returns(key, "timedOut")
    /\ UNCHANGED <<poolVars, env, called, gor>>
-----------------------------------------------------------------------------
(***************************************************************************)
(* The goroutine of a bounded render                                       *)
(***************************************************************************)
Stage(g, from, to) ==
    /\ gor[g].st = from
    /\ gor' = [gor EXCEPT ![g].st = to]
    /\ UNCHANGED <<env, callVars>>

FnReturns(g) ==
    /\ gor[g].st = "fn"
    /\ \E p \in BOOLEAN :
         gor' = [gor EXCEPT ![g].st = "returned", ![g].panicked = p]
    /\ UNCHANGED <<poolVars, env, callVars>>

(* Mutant: a render that panicked keeps its key.                           *)
clearRunningUnlessPanic(g) ==
    /\ running' = IF gor[g].panicked THEN running ELSE running \ {gor[g].key}
    /\ Stage(g, "returned", "cleared") /\ UNCHANGED held

clearRunning(g) ==
    /\ running' = running \ {gor[g].key}
    /\ Stage(g, "returned", "cleared") /\ UNCHANGED held

(* Mutant: the slot of a render that was left behind is not given back.    *)
ReleaseIfWaited(g) ==
    /\ held' = IF \E key \in Keys : frame[key] = g THEN held - 1 ELSE held
    /\ Stage(g, "cleared", "released") /\ UNCHANGED running

Release(g) ==
    /\ held' = held - 1
    /\ Stage(g, "cleared", "released") /\ UNCHANGED running

SendDone(g) == Stage(g, "released", "done") /\ UNCHANGED poolVars

(* logAbandoned receives what nobody waits for.                            *)
logAbandoned(g) ==
    /\ gor[g].st = "done" /\ \A key \in Keys : frame[key] # g
    /\ gor' = [gor EXCEPT ![g] = Free]
    /\ UNCHANGED <<poolVars, env, callVars>>

(* The deadline of the render's context, which ends with the call of Run.  *)
Deadline(g) ==
    /\ \E key \in Keys : frame[key] = g
    /\ ~stop /\ ~gor[g].late
    /\ gor' = [gor EXCEPT ![g].late = TRUE]
    /\ UNCHANGED <<poolVars, env, callVars>>

Stop ==
    /\ ~stop /\ stop' = TRUE
    /\ UNCHANGED <<bounded, poolVars, callVars, gor>>
-----------------------------------------------------------------------------
(* The steps that follow once a call has its slot or a render returned.    *)
CallSteps(key) ==
    \/ AcquireCancelled(key) \/ Start(key) \/ Receive(key) \/ ContextDone(key) \/ GiveUp(key)

Cleanup(g) == clearRunning(g) \/ Release(g) \/ SendDone(g) \/ logAbandoned(g)

Next ==
    \/ \E key \in Keys : Run(key) \/ Acquire(key) \/ InlineReturns(key) \/ CallSteps(key)
    \/ \E g \in Goroutines : FnReturns(g) \/ Cleanup(g) \/ Deadline(g)
    \/ Stop

Spec == Init /\ [][Next]_vars

(***************************************************************************)
(* The goroutines are scheduled, timers fire, and a blocked sender of a Go *)
(* channel is served in its turn (the strong fairness of Acquire).  To     *)
(* start a goroutine never waits: the bound on Goroutines must not starve  *)
(* it (the strong fairness of Start).  A render returns unless its object  *)
(* is one of Hanging.                                                      *)
(***************************************************************************)
FairSpec ==
    /\ Spec
    /\ \A key \in Keys :
         SF_vars(Acquire(key)) /\ SF_vars(Start(key)) /\ WF_vars(CallSteps(key))
    /\ \A key \in Keys \ Hanging : WF_vars(InlineReturns(key))
    /\ \A g \in Goroutines :
         /\ WF_vars(Cleanup(g)) /\ WF_vars(Deadline(g))
         /\ WF_vars(gor[g].key \notin Hanging /\ FnReturns(g))
-----------------------------------------------------------------------------
(***************************************************************************)
(* Properties                                                              *)
(***************************************************************************)
(* Every variable holds a value of its type; the channel never holds more  *)
(* than N tokens.                                                          *)
TypeOK ==
    /\ bounded \in BOOLEAN /\ held \in 0 .. N /\ running \subseteq Keys /\ stop \in BOOLEAN
    /\ caller \in [Keys -> Calls] /\ frame \in [Keys -> Goroutines \cup {None}]
    /\ result \in [Keys -> Results] /\ called \in [Keys -> BOOLEAN]
    /\ gor \in [Goroutines -> Goroutine]

(* Who took a slot and has not given it back.                              *)
Holders ==
    {key \in Keys : caller[key] \in {"start", "inline"}}
      \cup {g \in Goroutines : gor[g].st \in {"fn", "returned", "cleared"}}

(* Every taken slot has a holder that will give it back, and only one:     *)
(* none leaks when a render panics, times out or is left behind, and none  *)
(* is given back twice (the release of Acquire, and Run's deferred calls). *)
SlotsAccounted == held = Cardinality(Holders)

(* A call waits for a goroutine of its own object, and for no goroutine    *)
(* that ended; no other call waits.                                        *)
FramesSound ==
    \A key \in Keys :
      /\ frame[key] # None <=> caller[key] \in {"wait", "late", "drain"}
      /\ frame[key] # None =>
           gor[frame[key]].st # "free" /\ gor[frame[key]].key = key

(* A goroutine renders one object; of the objects that are being           *)
(* reconciled only the goroutine the call waits for renders the object.    *)
OneRender ==
    \A g \in Goroutines :
      /\ gor[g].st # "free" => gor[g].key \in Keys
      /\ gor[g].st \in {"fn", "returned"} =>
           /\ caller[gor[g].key] # "idle" => frame[gor[g].key] = g
           /\ \A h \in Goroutines :
                gor[h].st \in {"fn", "returned"} /\ gor[h].key = gor[g].key => h = g

(* Whether fn was called follows from where the call of Run is.            *)
CalledSound ==
    \A key \in Keys :
      /\ caller[key] \in {"acquire", "start"} => ~called[key]
      /\ caller[key] \in {"inline", "wait", "late", "drain"} => called[key]

(* The pool is well typed, its slots are accounted for, and the calls and  *)
(* the goroutines agree on which render belongs to which call.             *)
PoolInv == TypeOK /\ SlotsAccounted /\ FramesSound /\ OneRender /\ CalledSound

(* The renders that are in flight: the object and its thread (None is the  *)
(* reconcile's own).                                                       *)
InFlight ==
    {<<key, None>> : key \in {o \in Keys : caller[o] = "inline"}}
      \cup {<<gor[g].key, g>> : g \in {h \in Goroutines : gor[h].st = "fn"}}

(* At most N renders are in flight, and at most one of each object, also   *)
(* while a call whose render timed out has returned and the object is      *)
(* reconciled again.                                                       *)
Promise ==
    INSTANCE RenderBound WITH busy <- InFlight, Threads <- Goroutines \cup {None}
RendersBounded == Promise!Spec

(* An object is refused with ErrRenderStillRunning only while a render of  *)
(* it runs: the key is freed also by a render that panicked or was left    *)
(* behind, and never the key of a later render.                            *)
RunningTracked ==
    running = {gor[g].key : g \in {h \in Goroutines : gor[h].st \in {"fn", "returned"}}}

(* The caller contract of Run: fn was called exactly when Run returned nil *)
(* or ErrRenderTimedOut, or panicked, and after nil the render is over.    *)
CallerContract ==
    \A key \in Keys : caller[key] = "idle" =>
      /\ called[key] <=> result[key] \in {"nil", "timedOut", "panicked"}
      /\ result[key] = "nil" => \A r \in InFlight : r[1] # key

(* A reconcile that renders gets its answer although the renders of other  *)
(* objects, fewer than the slots, hang forever: a hanging object takes one *)
(* slot however often it is reconciled, and its own call times out (when   *)
(* there is a timeout).                                                    *)
RunReturns ==
    \A key \in Keys : (bounded \/ key \notin Hanging) =>
      (caller[key] # "idle" ~> caller[key] = "idle" \/ stop)
=============================================================================
