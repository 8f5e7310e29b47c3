-------------------------- MODULE RenderSlotsProofs --------------------------
(***************************************************************************)
(* The pool of render slots leaks no slot and no key, keeps the contract   *)
(* of its callers and implements the bound it promises, for any number of  *)
(* objects, goroutines and slots.                                          *)
(***************************************************************************)
EXTENDS RenderSlots, FiniteSetTheorems, TLAPS

(* The inductive invariant: what the run of RenderSlots checks, together.  *)
SlotsInv == PoolInv /\ RunningTracked /\ CallerContract

-----------------------------------------------------------------------------
(***************************************************************************)
(* One lemma per part of the invariant                                     *)
(***************************************************************************)
LEMMA InitSlots == Init => SlotsInv
<1> SUFFICES ASSUME Init PROVE SlotsInv
  OBVIOUS
<1>1. TypeOK
  <2>1. bounded \in BOOLEAN /\ stop \in BOOLEAN
    BY SlotsAssumption, Zenon DEF Init
  <2>2. held \in 0 .. N
    BY SlotsAssumption DEF Init
  <2>3. Free \in Goroutine
    BY DEF Free, Goroutine, Stages
  <2> QED
    BY <2>1, <2>2, <2>3, Zenon DEF Init, TypeOK, Calls, Results
<1>2. Holders = {}
  BY DEF Init, Holders, Free
<1>3. SlotsAccounted
  BY <1>2, FS_EmptySet DEF SlotsAccounted, Init
<1>4. FramesSound /\ OneRender /\ CalledSound
  BY DEF Init, FramesSound, OneRender, CalledSound, Free
<1>5. RunningTracked
  BY DEF Init, RunningTracked, Free
<1>6. CallerContract
  BY DEF Init, CallerContract, Free
<1> QED
  BY <1>1, <1>3, <1>4, <1>5, <1>6 DEF SlotsInv, PoolInv

(* A goroutine's record stays one when a field of it changes.              *)
LEMMA GoroutineType ==
  ASSUME NEW f \in [Goroutines -> Goroutine], NEW g \in Goroutines
  PROVE  /\ \A st \in Stages : [f EXCEPT ![g].st = st] \in [Goroutines -> Goroutine]
         /\ \A p \in BOOLEAN :
              [f EXCEPT ![g].st = "returned", ![g].panicked = p] \in [Goroutines -> Goroutine]
         /\ [f EXCEPT ![g].late = TRUE] \in [Goroutines -> Goroutine]
         /\ [f EXCEPT ![g] = Free] \in [Goroutines -> Goroutine]
         /\ \A key \in Keys :
              [f EXCEPT ![g] = [Free EXCEPT !.st = "fn", !.key = key]]
                \in [Goroutines -> Goroutine]
BY DEF Goroutine, Stages, Free

(* The frames and the goroutines after a step.                             *)
LEMMA FramesStep ==
  ASSUME SlotsInv, [Next]_vars
  PROVE  FramesSound' /\ OneRender'
<1> USE DEF SlotsInv, PoolInv
<1>t. gor \in [Goroutines -> Goroutine] /\ frame \in [Keys -> Goroutines \cup {None}]
      /\ caller \in [Keys -> Calls] /\ None \notin Goroutines
  BY SlotsAssumption DEF TypeOK
<1>1. ASSUME NEW key \in Keys, Run(key)
      PROVE  FramesSound' /\ OneRender'
  <2>1. gor' = gor /\ frame' = [frame EXCEPT ![key] = frame'[key]]
        /\ caller' = [caller EXCEPT ![key] = caller'[key]] /\ frame'[key] = None
        /\ caller'[key] \in {"idle", "acquire"} /\ frame[key] = None
    BY <1>1, <1>t DEF Run, Returns, FramesSound
  <2>2. caller'[key] = "acquire" => \A g \in Goroutines : gor[g].st \in {"fn", "returned"} => gor[g].key # key
    BY <1>1, <1>t DEF Run, Returns, RunningTracked, isRunning
  <2>3. FramesSound'
    BY <1>t, <2>1 DEF FramesSound
  <2>4. OneRender'
    BY <1>t, <2>1, <2>2 DEF OneRender
  <2> QED BY <2>3, <2>4
<1>2. ASSUME NEW key \in Keys, Acquire(key)
      PROVE  FramesSound' /\ OneRender'
  BY <1>2, <1>t DEF Acquire, FramesSound, OneRender
<1>3. ASSUME NEW key \in Keys, AcquireCancelled(key)
      PROVE  FramesSound' /\ OneRender'
  BY <1>3, <1>t DEF AcquireCancelled, Returns, FramesSound, OneRender
<1>4. ASSUME NEW key \in Keys, InlineReturns(key)
      PROVE  FramesSound' /\ OneRender'
  BY <1>4, <1>t DEF InlineReturns, Returns, FramesSound, OneRender
<1>5. ASSUME NEW key \in Keys, Start(key)
      PROVE  FramesSound' /\ OneRender'
  <2>1. PICK g \in Goroutines :
          /\ gor[g].st = "free"
          /\ gor' = [gor EXCEPT ![g] = [Free EXCEPT !.st = "fn", !.key = key]]
          /\ frame' = [frame EXCEPT ![key] = g]
    BY <1>5 DEF Start
  <2>2. gor'[g].st = "fn" /\ gor'[g].key = key /\ \A h \in Goroutines : h # g => gor'[h] = gor[h]
    BY <1>t, <2>1 DEF Free
  <2>3. caller[key] = "start" /\ caller' = [caller EXCEPT ![key] = "wait"] /\ frame[key] = None
    BY <1>5, <1>t DEF Start, FramesSound
  <2>4. \A o \in Keys : o # key => frame'[o] = frame[o] /\ frame[o] # g /\ caller'[o] = caller[o]
    BY <1>t, <2>1, <2>3 DEF FramesSound
  <2>5. frame'[key] = g /\ caller'[key] = "wait"
    BY <1>t, <2>1, <2>3
  <2>6. FramesSound'
    BY <1>t, <2>2, <2>4, <2>5 DEF FramesSound
  <2>7. \A h \in Goroutines : gor[h].st \in {"fn", "returned"} => gor[h].key # key
    BY <1>t, <2>3 DEF OneRender
  <2>8. OneRender'
    BY <1>t, <2>1, <2>2, <2>4, <2>5, <2>7 DEF OneRender
  <2> QED BY <2>6, <2>8
<1>6. ASSUME NEW key \in Keys, Receive(key)
      PROVE  FramesSound' /\ OneRender'
  <2>1. frame[key] \in Goroutines /\ gor[frame[key]].key = key /\ gor[frame[key]].st = "done"
    BY <1>6, <1>t DEF Receive, FramesSound
  <2>2. gor'[frame[key]].st = "free" /\ \A h \in Goroutines : h # frame[key] => gor'[h] = gor[h]
    BY <1>6, <1>t, <2>1 DEF Receive, Free
  <2>3. frame' = [frame EXCEPT ![key] = None] /\ caller' = [caller EXCEPT ![key] = "idle"]
    BY <1>6 DEF Receive, Returns
  <2>4. FramesSound'
    BY <1>t, <2>1, <2>2, <2>3 DEF FramesSound
  <2>5. OneRender'
    BY <1>t, <2>1, <2>2, <2>3 DEF OneRender
  <2> QED BY <2>4, <2>5
<1>7. ASSUME NEW key \in Keys, ContextDone(key)
      PROVE  FramesSound' /\ OneRender'
  BY <1>7, <1>t DEF ContextDone, FramesSound, OneRender
<1>8. ASSUME NEW key \in Keys, GiveUp(key)
      PROVE  FramesSound' /\ OneRender'
  BY <1>8, <1>t DEF GiveUp, Returns, FramesSound, OneRender
<1>9. ASSUME NEW g \in Goroutines, FnReturns(g) \/ Cleanup(g) \/ Deadline(g)
      PROVE  FramesSound' /\ OneRender'
  <2>1. frame' = frame /\ caller' = caller
    BY <1>9 DEF FnReturns, Cleanup, clearRunning, Release, SendDone, logAbandoned, Stage, Deadline, callVars
  <2>2. \A h \in Goroutines : h # g => gor'[h] = gor[h]
    BY <1>9, <1>t DEF FnReturns, Cleanup, clearRunning, Release, SendDone, logAbandoned, Stage, Deadline
  <2>3. \/ gor'[g].st = "free" /\ \A key \in Keys : frame[key] # g
        \/ gor'[g].st # "free" /\ gor'[g].key = gor[g].key /\ gor[g].st # "free"
           /\ (gor'[g].st \in {"fn", "returned"} => gor[g].st \in {"fn", "returned"})
    BY <1>9, <1>t
    DEF FnReturns, Cleanup, clearRunning, Release, SendDone, logAbandoned, Stage, Deadline,
        Goroutine, Free, FramesSound
  <2>4. FramesSound'
    BY <1>t, <2>1, <2>2, <2>3 DEF FramesSound
  <2>5. OneRender'
    BY <1>t, <2>1, <2>2, <2>3 DEF OneRender
  <2> QED BY <2>4, <2>5
<1>10. CASE Stop \/ UNCHANGED vars
  BY <1>10 DEF Stop, vars, callVars, FramesSound, OneRender
<1> QED
  BY <1>1, <1>2, <1>3, <1>4, <1>5, <1>6, <1>7, <1>8, <1>9, <1>10 DEF Next, CallSteps

(* When no render of an object is in flight.                               *)
LEMMA InFlightOf ==
  \A key \in Keys :
    (\A r \in InFlight : r[1] # key) <=>
      /\ caller[key] # "inline"
      /\ \A g \in Goroutines : gor[g].st = "fn" => gor[g].key # key
<1> TAKE key \in Keys
<1>1. ASSUME \A r \in InFlight : r[1] # key
      PROVE  /\ caller[key] # "inline"
             /\ \A g \in Goroutines : gor[g].st = "fn" => gor[g].key # key
  <2>1. caller[key] = "inline" => <<key, None>> \in InFlight
    BY DEF InFlight
  <2>2. \A g \in Goroutines : gor[g].st = "fn" => <<gor[g].key, g>> \in InFlight
    BY DEF InFlight
  <2> QED
    BY <1>1, <2>1, <2>2
<1>2. ASSUME caller[key] # "inline", NEW r \in InFlight, r[1] = key
      PROVE  \E g \in Goroutines : gor[g].st = "fn" /\ gor[g].key = key
  <2>1. \/ \E o \in Keys : caller[o] = "inline" /\ r = <<o, None>>
        \/ \E g \in Goroutines : gor[g].st = "fn" /\ r = <<gor[g].key, g>>
    BY DEF InFlight
  <2> QED
    BY <1>2, <2>1
<1> QED
  BY <1>1, <1>2

(* Whether fn was called, and the contract of the callers, after a step.   *)
LEMMA ContractStep ==
  ASSUME SlotsInv, [Next]_vars
  PROVE  CalledSound' /\ CallerContract'
<1> USE DEF SlotsInv, PoolInv
<1>t. gor \in [Goroutines -> Goroutine] /\ frame \in [Keys -> Goroutines \cup {None}]
      /\ caller \in [Keys -> Calls] /\ result \in [Keys -> Results]
      /\ called \in [Keys -> BOOLEAN] /\ bounded \in BOOLEAN /\ None \notin Goroutines
  BY SlotsAssumption DEF TypeOK
<1> DEFINE Over(key) == /\ caller[key] # "inline"
                        /\ \A g \in Goroutines : gor[g].st = "fn" => gor[g].key # key
           Kept(key) == /\ called[key] <=> result[key] \in {"nil", "timedOut", "panicked"}
                        /\ result[key] = "nil" => Over(key)
           Contract(key) == caller[key] = "idle" => Kept(key)
           Called(key) == /\ caller[key] \in {"acquire", "start"} => ~called[key]
                          /\ caller[key] \in {"inline", "wait", "late", "drain"} => called[key]
<1>a. CallerContract <=> \A key \in Keys : Contract(key)
  BY InFlightOf DEF CallerContract
<1>b. CallerContract' <=> \A key \in Keys : Contract(key)'
  <2>1. (\A key \in Keys : (\A r \in InFlight : r[1] # key) <=>
           /\ caller[key] # "inline"
           /\ \A g \in Goroutines : gor[g].st = "fn" => gor[g].key # key)'
    BY InFlightOf, PTL
  <2> QED
    BY <2>1 DEF CallerContract
<1>c. CalledSound' <=> \A key \in Keys : Called(key)'
  BY DEF CalledSound
<1> SUFFICES ASSUME NEW o \in Keys
             PROVE  Called(o)' /\ Contract(o)'
  BY <1>b, <1>c
<1>d. Called(o) /\ Contract(o)
  BY <1>a DEF CalledSound
(* What another object does, or a goroutine, leaves the object's call.     *)
<1>e. ASSUME caller'[o] = caller[o], called'[o] = called[o], result'[o] = result[o],
             \A g \in Goroutines : gor'[g].st = "fn" /\ gor'[g].key = o =>
                                     gor[g].st = "fn" /\ gor[g].key = o
      PROVE  Called(o)' /\ Contract(o)'
  BY <1>d, <1>e
<1>1. ASSUME NEW key \in Keys, Run(key)
      PROVE  Called(o)' /\ Contract(o)'
  <2>1. CASE o # key
    BY <1>1, <1>t, <1>e, <2>1 DEF Run, Returns
  <2>2. CASE o = key
    BY <1>1, <1>t, <2>2 DEF Run, Returns
  <2> QED BY <2>1, <2>2
<1>2. ASSUME NEW key \in Keys, Acquire(key)
      PROVE  Called(o)' /\ Contract(o)'
  <2>1. CASE o # key
    BY <1>2, <1>t, <1>e, <2>1 DEF Acquire
  <2>2. CASE o = key
    BY <1>2, <1>t, <2>2 DEF Acquire
  <2> QED BY <2>1, <2>2
<1>3. ASSUME NEW key \in Keys, AcquireCancelled(key)
      PROVE  Called(o)' /\ Contract(o)'
  <2>1. CASE o # key
    BY <1>3, <1>t, <1>e, <2>1 DEF AcquireCancelled, Returns
  <2>2. CASE o = key
    BY <1>3, <1>t, <1>d, <2>2 DEF AcquireCancelled, Returns
  <2> QED BY <2>1, <2>2
<1>4. ASSUME NEW key \in Keys, InlineReturns(key)
      PROVE  Called(o)' /\ Contract(o)'
  <2>1. CASE o # key
    BY <1>4, <1>t, <1>e, <2>1 DEF InlineReturns, Returns
  <2>2. CASE o = key
    <3>1. \A g \in Goroutines : gor[g].st = "fn" => gor[g].key # o
      BY <1>4, <1>t, <2>2 DEF InlineReturns, OneRender, FramesSound
    <3> QED
      BY <1>4, <1>t, <1>d, <2>2, <3>1 DEF InlineReturns, Returns
  <2> QED BY <2>1, <2>2
<1>5. ASSUME NEW key \in Keys, Start(key)
      PROVE  Called(o)' /\ Contract(o)'
  <2>1. CASE o # key
    BY <1>5, <1>t, <1>e, <2>1 DEF Start, Free
  <2>2. CASE o = key
    BY <1>5, <1>t, <2>2 DEF Start
  <2> QED BY <2>1, <2>2
<1>6. ASSUME NEW key \in Keys, Receive(key)
      PROVE  Called(o)' /\ Contract(o)'
  <2>1. CASE o # key
    BY <1>6, <1>t, <1>e, <2>1 DEF Receive, Returns, Free
  <2>2. CASE o = key
    <3>1. /\ caller'[o] = "idle" /\ called'[o] /\ caller[o] # "idle"
          /\ result'[o] = returned(frame[o])
      BY <1>6, <1>t, <1>d, <2>2 DEF Receive, Returns
    <3>2. returned(frame[o]) \in {"nil", "timedOut", "panicked"}
      BY <1>t DEF returned
    <3>3. frame[o] \in Goroutines /\ gor' = [gor EXCEPT ![frame[o]] = Free]
          /\ gor[frame[o]].st = "done"
      BY <1>6, <1>t, <2>2 DEF Receive, FramesSound
    <3>4. \A g \in Goroutines : gor[g].st = "fn" => gor[g].key # o
      BY <1>t, <3>1, <3>3 DEF OneRender
    <3> QED
      BY <1>t, <3>1, <3>2, <3>3, <3>4 DEF Free
  <2> QED BY <2>1, <2>2
<1>7. ASSUME NEW key \in Keys, ContextDone(key)
      PROVE  Called(o)' /\ Contract(o)'
  <2>1. CASE o # key
    BY <1>7, <1>t, <1>e, <2>1 DEF ContextDone
  <2>2. CASE o = key
    BY <1>7, <1>t, <1>d, <2>2 DEF ContextDone
  <2> QED BY <2>1, <2>2
<1>8. ASSUME NEW key \in Keys, GiveUp(key)
      PROVE  Called(o)' /\ Contract(o)'
  <2>1. CASE o # key
    BY <1>8, <1>t, <1>e, <2>1 DEF GiveUp, Returns
  <2>2. CASE o = key
    BY <1>8, <1>t, <1>d, <2>2 DEF GiveUp, Returns
  <2> QED BY <2>1, <2>2
<1>9. ASSUME NEW g \in Goroutines, FnReturns(g) \/ Cleanup(g) \/ Deadline(g)
      PROVE  Called(o)' /\ Contract(o)'
  <2>1. caller' = caller /\ called' = called /\ result' = result
    BY <1>9 DEF FnReturns, Cleanup, clearRunning, Release, SendDone, logAbandoned, Stage, Deadline, callVars
  <2>2. \A h \in Goroutines : gor'[h].st = "fn" => gor[h].st = "fn" /\ gor'[h].key = gor[h].key
    BY <1>9, <1>t
    DEF FnReturns, Cleanup, clearRunning, Release, SendDone, logAbandoned, Stage, Deadline,
        Goroutine, Free
  <2> QED BY <1>e, <2>1, <2>2
<1>10. CASE Stop \/ UNCHANGED vars
  BY <1>e, <1>10 DEF Stop, vars, callVars
<1> QED
  BY <1>1, <1>2, <1>3, <1>4, <1>5, <1>6, <1>7, <1>8, <1>9, <1>10 DEF Next, CallSteps

(* The keys in the set of running renders after a step.                    *)
LEMMA RunningStep ==
  ASSUME SlotsInv, [Next]_vars
  PROVE  RunningTracked'
<1> USE DEF SlotsInv, PoolInv
<1>t. gor \in [Goroutines -> Goroutine] /\ frame \in [Keys -> Goroutines \cup {None}]
      /\ None \notin Goroutines
  BY SlotsAssumption DEF TypeOK
<1> DEFINE Renders(g) == gor[g].st \in {"fn", "returned"}
<1>e. ASSUME running' = running, \A g \in Goroutines : Renders(g)' <=> Renders(g),
             \A g \in Goroutines : Renders(g) => gor'[g].key = gor[g].key
      PROVE  RunningTracked'
  BY <1>e DEF RunningTracked
<1>1. ASSUME NEW key \in Keys,
             Run(key) \/ Acquire(key) \/ AcquireCancelled(key) \/ InlineReturns(key)
               \/ ContextDone(key) \/ GiveUp(key)
      PROVE  RunningTracked'
  BY <1>1, <1>e
  DEF Run, Acquire, AcquireCancelled, InlineReturns, ContextDone, GiveUp, poolVars
<1>2. ASSUME NEW key \in Keys, Receive(key)
      PROVE  RunningTracked'
  <2>1. frame[key] \in Goroutines
    BY <1>2, <1>t DEF Receive, FramesSound
  <2> QED
    BY <1>2, <1>t, <1>e, <2>1 DEF Receive, poolVars, Free
<1>3. ASSUME NEW key \in Keys, Start(key)
      PROVE  RunningTracked'
  <2>1. PICK g \in Goroutines :
          /\ gor[g].st = "free"
          /\ gor' = [gor EXCEPT ![g] = [Free EXCEPT !.st = "fn", !.key = key]]
    BY <1>3 DEF Start
  <2>2. gor'[g].st = "fn" /\ gor'[g].key = key /\ \A h \in Goroutines : h # g => gor'[h] = gor[h]
    BY <1>t, <2>1 DEF Free
  <2>3. running' = running \cup {key}
    BY <1>3 DEF Start
  <2> QED
    BY <2>1, <2>2, <2>3 DEF RunningTracked
<1>4. ASSUME NEW g \in Goroutines, clearRunning(g)
      PROVE  RunningTracked'
  <2>1. running' = running \ {gor[g].key} /\ gor[g].st = "returned"
    BY <1>4 DEF clearRunning, Stage
  <2>2. gor'[g].st = "cleared" /\ \A h \in Goroutines : h # g => gor'[h] = gor[h]
    BY <1>4, <1>t DEF clearRunning, Stage, Goroutine
  <2>3. \A h \in Goroutines : h # g /\ Renders(h) => gor[h].key # gor[g].key
    BY <2>1 DEF OneRender
  <2> QED
    BY <2>1, <2>2, <2>3 DEF RunningTracked
<1>5. ASSUME NEW g \in Goroutines,
             FnReturns(g) \/ Release(g) \/ SendDone(g) \/ logAbandoned(g) \/ Deadline(g)
      PROVE  RunningTracked'
  <2>1. running' = running
    BY <1>5 DEF FnReturns, Release, SendDone, logAbandoned, Deadline, poolVars
  <2>2. \A h \in Goroutines : (Renders(h)' <=> Renders(h)) /\ (Renders(h) => gor'[h].key = gor[h].key)
    BY <1>5, <1>t DEF FnReturns, Release, SendDone, logAbandoned, Deadline, Stage, Goroutine, Free
  <2> QED BY <1>e, <2>1, <2>2
<1>6. CASE Stop \/ UNCHANGED vars
  BY <1>6, <1>e DEF Stop, vars, poolVars
<1> QED
  BY <1>1, <1>2, <1>3, <1>4, <1>5, <1>6 DEF Next, CallSteps, Cleanup

(* The holders of slots are finitely many, and objects are not goroutines. *)
LEMMA HoldersFinite == IsFiniteSet(Holders) /\ Cardinality(Holders) \in Nat
<1>1. Holders \subseteq Keys \cup Goroutines
  BY DEF Holders
<1>2. IsFiniteSet(Keys \cup Goroutines)
  BY SlotsAssumption, FS_Union
<1>3. IsFiniteSet(Holders)
  BY <1>1, <1>2, FS_Subset
<1> QED
  BY <1>3, FS_CardinalityType

(* The slots after a step: who takes one becomes a holder, who gives one   *)
(* back was one, and a render that starts hands its call's slot over to    *)
(* its goroutine.                                                          *)
LEMMA SlotsStep ==
  ASSUME SlotsInv, [Next]_vars
  PROVE  SlotsAccounted' /\ held' \in 0 .. N
<1> USE DEF SlotsInv, PoolInv
<1>t. gor \in [Goroutines -> Goroutine] /\ frame \in [Keys -> Goroutines \cup {None}]
      /\ caller \in [Keys -> Calls] /\ None \notin Goroutines /\ Keys \cap Goroutines = {}
      /\ held \in 0 .. N /\ N \in Nat
  BY SlotsAssumption DEF TypeOK
<1>s. held = Cardinality(Holders)
  BY DEF SlotsAccounted
<1>e. ASSUME held' = held, Holders' = Holders
      PROVE  SlotsAccounted' /\ held' \in 0 .. N
  BY <1>e, <1>s, <1>t DEF SlotsAccounted
<1>f. ASSUME NEW x, x \in Holders, held' = held - 1, Holders' = Holders \ {x}
      PROVE  SlotsAccounted' /\ held' \in 0 .. N
  <2>1. Cardinality(Holders \ {x}) = Cardinality(Holders) - 1
    BY <1>f, HoldersFinite, FS_RemoveElement
  <2>2. Cardinality(Holders) # 0
    BY <1>f, HoldersFinite, FS_EmptySet
  <2> QED
    BY <1>f, <1>s, <1>t, <2>1, <2>2 DEF SlotsAccounted
<1>1. ASSUME NEW key \in Keys,
             Run(key) \/ AcquireCancelled(key) \/ ContextDone(key) \/ GiveUp(key)
      PROVE  SlotsAccounted' /\ held' \in 0 .. N
  <2>1. held' = held /\ gor' = gor
    BY <1>1 DEF Run, AcquireCancelled, ContextDone, GiveUp, poolVars
  <2>2. \A o \in Keys : caller'[o] \in {"start", "inline"} <=> caller[o] \in {"start", "inline"}
    BY <1>1, <1>t DEF Run, AcquireCancelled, ContextDone, GiveUp, Returns
  <2>3. Holders' = Holders
    BY <2>1, <2>2 DEF Holders
  <2> QED BY <1>e, <2>1, <2>3
<1>2. ASSUME NEW key \in Keys, Acquire(key)
      PROVE  SlotsAccounted' /\ held' \in 0 .. N
  <2>1. held' = held + 1 /\ held < N /\ gor' = gor
    BY <1>2 DEF Acquire, SlotFree
  <2>2. \A o \in Keys : caller'[o] \in {"start", "inline"} <=>
                          o = key \/ caller[o] \in {"start", "inline"}
    BY <1>2, <1>t DEF Acquire
  <2>3. Holders' = Holders \cup {key}
    BY <1>t, <2>1, <2>2 DEF Holders
  <2>4. key \notin Holders
    BY <1>2, <1>t DEF Acquire, Holders
  <2>5. Cardinality(Holders \cup {key}) = Cardinality(Holders) + 1
    BY <2>4, HoldersFinite, FS_AddElement
  <2> QED
    BY <1>s, <1>t, <2>1, <2>3, <2>5 DEF SlotsAccounted
<1>3. ASSUME NEW key \in Keys, InlineReturns(key)
      PROVE  SlotsAccounted' /\ held' \in 0 .. N
  <2>1. held' = held - 1 /\ gor' = gor /\ key \in Holders
    BY <1>3 DEF InlineReturns, Holders
  <2>2. \A o \in Keys : caller'[o] \in {"start", "inline"} <=>
                          o # key /\ caller[o] \in {"start", "inline"}
    BY <1>3, <1>t DEF InlineReturns, Returns
  <2>3. Holders' = Holders \ {key}
    BY <1>t, <2>1, <2>2 DEF Holders
  <2> QED BY <1>f, <2>1, <2>3
<1>4. ASSUME NEW key \in Keys, Start(key)
      PROVE  SlotsAccounted' /\ held' \in 0 .. N
  <2>1. PICK g \in Goroutines :
          /\ gor[g].st = "free"
          /\ gor' = [gor EXCEPT ![g] = [Free EXCEPT !.st = "fn", !.key = key]]
    BY <1>4 DEF Start
  <2>2. gor'[g].st = "fn" /\ \A h \in Goroutines : h # g => gor'[h] = gor[h]
    BY <1>t, <2>1 DEF Free
  <2>3. \A o \in Keys : caller'[o] \in {"start", "inline"} <=>
                          o # key /\ caller[o] \in {"start", "inline"}
    BY <1>4, <1>t DEF Start
  <2>4. Holders' = (Holders \ {key}) \cup {g}
    BY <1>t, <2>1, <2>2, <2>3 DEF Holders
  <2>5. key \in Holders /\ g \notin Holders
    BY <1>4, <1>t, <2>1 DEF Start, Holders
  <2>6. IsFiniteSet(Holders \ {key}) /\ Cardinality(Holders \ {key}) = Cardinality(Holders) - 1
    BY <2>5, HoldersFinite, FS_RemoveElement
  <2>7. Cardinality((Holders \ {key}) \cup {g}) = Cardinality(Holders \ {key}) + 1
    BY <2>5, <2>6, FS_AddElement
  <2>8. held' = held
    BY <1>4 DEF Start
  <2> QED
    BY <1>s, <1>t, <2>4, <2>6, <2>7, <2>8, HoldersFinite DEF SlotsAccounted
<1>5. ASSUME NEW key \in Keys, Receive(key)
      PROVE  SlotsAccounted' /\ held' \in 0 .. N
  <2>1. frame[key] \in Goroutines /\ gor[frame[key]].st = "done"
        /\ caller[key] \in {"wait", "late", "drain"}
    BY <1>5, <1>t DEF Receive, FramesSound
  <2>2. gor'[frame[key]].st = "free" /\ \A h \in Goroutines : h # frame[key] => gor'[h] = gor[h]
    BY <1>5, <1>t, <2>1 DEF Receive, Free
  <2>3. \A o \in Keys : caller'[o] \in {"start", "inline"} <=> caller[o] \in {"start", "inline"}
    BY <1>5, <1>t, <2>1 DEF Receive, Returns
  <2>4. Holders' = Holders
    BY <2>1, <2>2, <2>3 DEF Holders
  <2>5. held' = held
    BY <1>5 DEF Receive, poolVars
  <2> QED BY <1>e, <2>4, <2>5
<1>6. ASSUME NEW g \in Goroutines, Release(g)
      PROVE  SlotsAccounted' /\ held' \in 0 .. N
  <2>1. held' = held - 1 /\ caller' = caller /\ gor[g].st = "cleared" /\ g \in Holders
    BY <1>6 DEF Release, Stage, callVars, Holders
  <2>2. gor'[g].st = "released" /\ \A h \in Goroutines : h # g => gor'[h] = gor[h]
    BY <1>6, <1>t DEF Release, Stage, Goroutine
  <2>3. Holders' = Holders \ {g}
    BY <1>t, <2>1, <2>2 DEF Holders
  <2> QED BY <1>f, <2>1, <2>3
<1>7. ASSUME NEW g \in Goroutines,
             FnReturns(g) \/ clearRunning(g) \/ SendDone(g) \/ logAbandoned(g) \/ Deadline(g)
      PROVE  SlotsAccounted' /\ held' \in 0 .. N
  <2>1. held' = held /\ caller' = caller
    BY <1>7 DEF FnReturns, clearRunning, SendDone, logAbandoned, Stage, Deadline, poolVars, callVars
  <2>2. \A h \in Goroutines : gor'[h].st \in {"fn", "returned", "cleared"} <=>
                                gor[h].st \in {"fn", "returned", "cleared"}
    BY <1>7, <1>t
    DEF FnReturns, clearRunning, SendDone, logAbandoned, Stage, Deadline, Goroutine, Free
  <2>3. Holders' = Holders
    BY <2>1, <2>2 DEF Holders
  <2> QED BY <1>e, <2>1, <2>3
<1>8. CASE Stop \/ UNCHANGED vars
  <2>1. held' = held /\ caller' = caller /\ gor' = gor
    BY <1>8 DEF Stop, vars, poolVars, callVars
  <2> QED
    BY <1>e, <2>1 DEF Holders
<1> QED
  BY <1>1, <1>2, <1>3, <1>4, <1>5, <1>6, <1>7, <1>8 DEF Next, CallSteps, Cleanup

(* The types after a step; the count of the slots is in SlotsStep.         *)
LEMMA TypeStep ==
  ASSUME SlotsInv, [Next]_vars
  PROVE  TypeOK'
<1> USE DEF SlotsInv, PoolInv
<1>0. TypeOK /\ held' \in 0 .. N
  BY SlotsStep
<1>t. gor \in [Goroutines -> Goroutine] /\ frame \in [Keys -> Goroutines \cup {None}]
      /\ None \notin Goroutines
  BY SlotsAssumption DEF TypeOK
<1>1. ASSUME NEW key \in Keys,
             Run(key) \/ Acquire(key) \/ AcquireCancelled(key) \/ InlineReturns(key)
               \/ ContextDone(key) \/ GiveUp(key)
      PROVE  TypeOK'
  <2>1. running' = running /\ gor' = gor /\ bounded' = bounded /\ stop' = stop
    BY <1>1 DEF Run, Acquire, AcquireCancelled, InlineReturns, ContextDone, GiveUp, poolVars, env
  <2>2. caller' \in [Keys -> Calls] /\ frame' \in [Keys -> Goroutines \cup {None}]
        /\ result' \in [Keys -> Results]
    BY <1>0, <1>1
    DEF Run, Acquire, AcquireCancelled, InlineReturns, ContextDone, GiveUp, Returns, TypeOK, Calls, Results
  <2>3. called' \in [Keys -> BOOLEAN]
    BY <1>0, <1>1, Zenon
    DEF Run, Acquire, AcquireCancelled, InlineReturns, ContextDone, GiveUp, TypeOK
  <2> QED
    BY <1>0, <2>1, <2>2, <2>3 DEF TypeOK
<1>2. ASSUME NEW key \in Keys, Start(key)
      PROVE  TypeOK'
  <2>1. PICK g \in Goroutines :
          /\ gor' = [gor EXCEPT ![g] = [Free EXCEPT !.st = "fn", !.key = key]]
          /\ frame' = [frame EXCEPT ![key] = g]
    BY <1>2 DEF Start
  <2>2. gor' \in [Goroutines -> Goroutine]
    BY <1>t, <2>1, GoroutineType
  <2> QED
    BY <1>0, <1>2, <2>1, <2>2 DEF Start, TypeOK, Calls, env
<1>3. ASSUME NEW key \in Keys, Receive(key)
      PROVE  TypeOK'
  <2>1. frame[key] \in Goroutines
    BY <1>3, <1>t DEF Receive, FramesSound
  <2>2. gor' \in [Goroutines -> Goroutine]
    BY <1>3, <1>t, <2>1, GoroutineType DEF Receive
  <2>3. returned(frame[key]) \in Results
    BY <1>0 DEF returned, Results
  <2> QED
    BY <1>0, <1>3, <2>2, <2>3 DEF Receive, Returns, TypeOK, Calls, env, poolVars
<1>4. ASSUME NEW g \in Goroutines, FnReturns(g) \/ Cleanup(g) \/ Deadline(g)
      PROVE  TypeOK'
  <2>1. gor' \in [Goroutines -> Goroutine]
    <3>1. CASE FnReturns(g)
      <4>1. PICK p \in BOOLEAN :
              gor' = [gor EXCEPT ![g].st = "returned", ![g].panicked = p]
        BY <3>1, Zenon DEF FnReturns
      <4>2. [gor EXCEPT ![g].st = "returned", ![g].panicked = p] \in [Goroutines -> Goroutine]
        BY <1>t, GoroutineType, Zenon
      <4> QED
        BY <4>1, <4>2, Zenon
    <3>2. CASE clearRunning(g) \/ Release(g) \/ SendDone(g)
      <4>1. PICK st \in Stages : gor' = [gor EXCEPT ![g].st = st]
        BY <3>2 DEF clearRunning, Release, SendDone, Stage, Stages
      <4> QED
        BY <1>t, <4>1, GoroutineType
    <3>3. CASE logAbandoned(g) \/ Deadline(g)
      <4>1. gor' = [gor EXCEPT ![g] = Free] \/ gor' = [gor EXCEPT ![g].late = TRUE]
        BY <3>3, Zenon DEF logAbandoned, Deadline
      <4>2. /\ [gor EXCEPT ![g] = Free] \in [Goroutines -> Goroutine]
            /\ [gor EXCEPT ![g].late = TRUE] \in [Goroutines -> Goroutine]
        BY <1>t, GoroutineType, Zenon
      <4> QED
        BY <4>1, <4>2, Zenon
    <3> QED
      BY <1>4, <3>1, <3>2, <3>3 DEF Cleanup
  <2>2. running' \subseteq running
    BY <1>4
    DEF FnReturns, Cleanup, clearRunning, Release, SendDone, logAbandoned, Stage, Deadline, poolVars
  <2>3. UNCHANGED <<env, callVars>>
    BY <1>4
    DEF FnReturns, Cleanup, clearRunning, Release, SendDone, logAbandoned, Stage, Deadline
  <2> QED
    BY <1>0, <2>1, <2>2, <2>3 DEF TypeOK, env, callVars
<1>5. CASE Stop \/ UNCHANGED vars
  <2>1. stop' \in BOOLEAN /\ bounded' = bounded /\ running' = running
    BY <1>0, <1>5, Zenon DEF Stop, vars, poolVars, TypeOK
  <2> QED
    BY <1>0, <1>5, <2>1 DEF Stop, vars, poolVars, callVars, TypeOK
<1> QED
  BY <1>1, <1>2, <1>3, <1>4, <1>5 DEF Next, CallSteps

(* The inductive invariant holds in every reachable state.                 *)
LEMMA SlotsInvariant == Spec => []SlotsInv
<1>1. ASSUME SlotsInv, [Next]_vars
      PROVE  SlotsInv'
  BY <1>1, TypeStep, SlotsStep, FramesStep, ContractStep, RunningStep DEF SlotsInv, PoolInv
<1> QED
  BY <1>1, InitSlots, PTL DEF Spec

-----------------------------------------------------------------------------
(***************************************************************************)
(* What the pool guarantees                                                *)
(***************************************************************************)
(* No slot leaks and none is given back twice, whether the render returns, *)
(* panics, times out or is left behind: the tokens in the channel are      *)
(* exactly the calls and goroutines that will give one back (Slots.Run and *)
(* the release of Slots.Acquire).                                          *)
THEOREM SlotsSafety == Spec => []PoolInv
BY SlotsInvariant, PTL DEF SlotsInv

(* The set of running keys is the set of objects whose render has not      *)
(* returned: no object is refused for ever, and none renders twice         *)
(* (markRunning, clearRunning).                                            *)
THEOREM KeysSafety == Spec => []RunningTracked
BY SlotsInvariant, PTL DEF SlotsInv

(* The caller contract of Run holds whenever no call of it is under way.   *)
THEOREM ContractSafety == Spec => []CallerContract
BY SlotsInvariant, PTL DEF SlotsInv

(* Every render in flight holds a slot of its own.                         *)
LEMMA InFlightHolds ==
  ASSUME SlotsInv, NEW S, S \subseteq Holders,
         \A r \in InFlight : (IF r[2] = None THEN r[1] ELSE r[2]) \in S
  PROVE  Cardinality(InFlight) \in Nat /\ Cardinality(InFlight) <= Cardinality(S)
<1> DEFINE f == [r \in InFlight |-> IF r[2] = None THEN r[1] ELSE r[2]]
<1>1. f \in Injection(InFlight, S)
  <2>1. f \in [InFlight -> S]
    OBVIOUS
  <2>2. ASSUME NEW r \in InFlight, NEW q \in InFlight, f[r] = f[q]
        PROVE  r = q
    <3>1. /\ \/ \E o \in Keys : r = <<o, None>>
             \/ \E g \in Goroutines : r = <<gor[g].key, g>>
          /\ \/ \E o \in Keys : q = <<o, None>>
             \/ \E g \in Goroutines : q = <<gor[g].key, g>>
      BY DEF InFlight
    <3> QED
      BY <2>2, <3>1, SlotsAssumption
  <2> QED
    BY <2>1, <2>2 DEF Injection, IsInjective
<1>2. IsFiniteSet(S)
  BY HoldersFinite, FS_Subset
<1> QED
  BY <1>1, <1>2, FS_Injection, FS_CardinalityType

(* The pool implements its promise: at most N renders are in flight across *)
(* the process and at most one of each object, also when calls time out    *)
(* and their objects are reconciled again while the render still runs.     *)
THEOREM RendersAreBounded == Spec => RendersBounded
<1>1. Init => Promise!Init
  BY DEF Init, Promise!Init, InFlight, Free
<1>2. ASSUME SlotsInv, SlotsInv', [Next]_vars
      PROVE  [Promise!Next]_InFlight
  <2> USE <1>2 DEF SlotsInv, PoolInv
  <2>t. gor \in [Goroutines -> Goroutine] /\ frame \in [Keys -> Goroutines \cup {None}]
        /\ caller \in [Keys -> Calls] /\ None \notin Goroutines /\ Keys \cap Goroutines = {}
        /\ held \in 0 .. N /\ N \in Nat /\ held = Cardinality(Holders)
    BY SlotsAssumption DEF TypeOK, SlotsAccounted
  <2>h. \A r \in InFlight :
          \/ \E o \in Keys : caller[o] = "inline" /\ r = <<o, None>>
          \/ \E g \in Goroutines : gor[g].st = "fn" /\ r = <<gor[g].key, g>>
    BY DEF InFlight
  <2>i. \A r \in InFlight : (IF r[2] = None THEN r[1] ELSE r[2]) \in Holders
    BY <2>t, <2>h DEF Holders
  <2>e. ASSUME \A o \in Keys : caller'[o] = "inline" <=> caller[o] = "inline",
               \A g \in Goroutines : gor'[g].st = "fn" <=> gor[g].st = "fn",
               \A g \in Goroutines : gor[g].st = "fn" => gor'[g].key = gor[g].key
        PROVE  InFlight' = InFlight
    BY <2>e DEF InFlight
  <2>1. ASSUME NEW key \in Keys,
               Run(key) \/ AcquireCancelled(key) \/ ContextDone(key) \/ GiveUp(key)
        PROVE  InFlight' = InFlight
    BY <2>1, <2>t, <2>e DEF Run, AcquireCancelled, ContextDone, GiveUp, Returns
  <2>2. ASSUME NEW key \in Keys, Acquire(key)
        PROVE  [Promise!Next]_InFlight
    <3>1. held < N /\ gor' = gor
      BY <2>2 DEF Acquire, SlotFree
    <3>2. CASE bounded
      BY <2>2, <2>t, <2>e, <3>1, <3>2 DEF Acquire
    <3>3. CASE ~bounded
      <4>1. caller' = [caller EXCEPT ![key] = "inline"] /\ caller[key] = "acquire"
        BY <2>2, <3>3 DEF Acquire
      <4>2. InFlight' = InFlight \cup {<<key, None>>}
        BY <2>t, <3>1, <4>1 DEF InFlight
      <4>3. \A r \in InFlight : r[1] # key
        BY <2>t, <4>1, InFlightOf DEF OneRender, FramesSound
      <4>4. Cardinality(InFlight) \in Nat /\ Cardinality(InFlight) <= Cardinality(Holders)
        BY <2>i, InFlightHolds
      <4>5. Cardinality(InFlight) < N
        BY <2>t, <3>1, <4>4, HoldersFinite
      <4>6. Promise!Begin(key, None)
        BY <4>2, <4>3, <4>5 DEF Promise!Begin, Promise!Cardinality, Cardinality
      <4> QED
        BY <4>6 DEF Promise!Next
    <3> QED BY <3>2, <3>3
  <2>3. ASSUME NEW key \in Keys, InlineReturns(key)
        PROVE  [Promise!Next]_InFlight
    <3>1. caller' = [caller EXCEPT ![key] = "idle"] /\ caller[key] = "inline" /\ gor' = gor
      BY <2>3 DEF InlineReturns, Returns
    <3>2. <<key, None>> \in InFlight
      BY <3>1 DEF InFlight
    <3>3. InFlight' = InFlight \ {<<key, None>>}
      BY <2>t, <3>1 DEF InFlight
    <3>4. Promise!End(<<key, None>>)
      BY <3>2, <3>3 DEF Promise!End
    <3> QED
      BY <3>4 DEF Promise!Next
  <2>4. ASSUME NEW key \in Keys, Start(key)
        PROVE  [Promise!Next]_InFlight
    <3>1. PICK g \in Goroutines :
            /\ gor[g].st = "free"
            /\ gor' = [gor EXCEPT ![g] = [Free EXCEPT !.st = "fn", !.key = key]]
      BY <2>4 DEF Start
    <3>2. gor'[g].st = "fn" /\ gor'[g].key = key /\ \A h \in Goroutines : h # g => gor'[h] = gor[h]
      BY <2>t, <3>1 DEF Free
    <3>3. caller' = [caller EXCEPT ![key] = "wait"] /\ caller[key] = "start" /\ key \in Holders
      BY <2>4 DEF Start, Holders
    <3>4. InFlight' = InFlight \cup {<<key, g>>}
      BY <2>t, <3>1, <3>2, <3>3 DEF InFlight
    <3>5. \A r \in InFlight : r[1] # key
      BY <2>t, <3>3, InFlightOf DEF OneRender, FramesSound
    <3>6. \A r \in InFlight : (IF r[2] = None THEN r[1] ELSE r[2]) \in Holders \ {key}
      BY <2>t, <2>h, <2>i, <3>3
    <3>7. Cardinality(InFlight) \in Nat /\ Cardinality(InFlight) <= Cardinality(Holders \ {key})
      BY <3>6, InFlightHolds
    <3>8. Cardinality(Holders \ {key}) = Cardinality(Holders) - 1
      BY <3>3, HoldersFinite, FS_RemoveElement
    <3>9. Cardinality(InFlight) < N
      BY <2>t, <3>7, <3>8, HoldersFinite
    <3>10. Promise!Begin(key, g)
      BY <3>4, <3>5, <3>9 DEF Promise!Begin, Promise!Cardinality, Cardinality
    <3> QED
      BY <3>10 DEF Promise!Next
  <2>5. ASSUME NEW key \in Keys, Receive(key)
        PROVE  InFlight' = InFlight
    <3>1. frame[key] \in Goroutines /\ gor[frame[key]].st = "done"
          /\ caller[key] \in {"wait", "late", "drain"}
      BY <2>5, <2>t DEF Receive, FramesSound
    <3> QED
      BY <2>5, <2>t, <2>e, <3>1 DEF Receive, Returns, Free
  <2>6. ASSUME NEW g \in Goroutines, FnReturns(g)
        PROVE  [Promise!Next]_InFlight
    <3>1. gor[g].st = "fn" /\ gor[g].key \in Keys /\ caller' = caller
      BY <2>6 DEF FnReturns, OneRender, callVars
    <3>2. gor'[g].st = "returned" /\ \A h \in Goroutines : h # g => gor'[h] = gor[h]
      BY <2>6, <2>t DEF FnReturns, Goroutine
    <3>3. <<gor[g].key, g>> \in InFlight
      BY <3>1 DEF InFlight
    <3>4. InFlight' = InFlight \ {<<gor[g].key, g>>}
      BY <2>t, <3>1, <3>2 DEF InFlight
    <3>5. Promise!End(<<gor[g].key, g>>)
      BY <3>3, <3>4 DEF Promise!End
    <3> QED
      BY <3>1, <3>5 DEF Promise!Next
  <2>7. ASSUME NEW g \in Goroutines, Cleanup(g) \/ Deadline(g)
        PROVE  InFlight' = InFlight
    <3>1. caller' = caller
      BY <2>7 DEF Cleanup, clearRunning, Release, SendDone, logAbandoned, Stage, Deadline, callVars
    <3>2. \A h \in Goroutines : (gor'[h].st = "fn" <=> gor[h].st = "fn")
                                /\ (gor[h].st = "fn" => gor'[h].key = gor[h].key)
      BY <2>7, <2>t
      DEF Cleanup, clearRunning, Release, SendDone, logAbandoned, Stage, Deadline, Goroutine, Free
    <3> QED BY <2>e, <3>1, <3>2
  <2>8. CASE Stop \/ UNCHANGED vars
    BY <2>8, <2>e DEF Stop, vars, callVars
  <2> QED
    BY <2>1, <2>2, <2>3, <2>4, <2>5, <2>6, <2>7, <2>8, <1>2 DEF Next, CallSteps
<1> QED
  BY <1>1, <1>2, SlotsInvariant, PTL DEF Spec, RendersBounded, Promise!Spec
=============================================================================
