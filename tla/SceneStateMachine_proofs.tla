---------------------- MODULE SceneStateMachine_proofs ----------------------
(* Proofs of the properties of SceneStateMachine, for every value of its   *)
(* constants.                                                              *)
EXTENDS SceneStateMachine, FiniteSetTheorems, SequenceTheorems, TLAPS

(* The call sequences of the manager's methods are sequences of calls.     *)
LEMMA AgendaTypes ==
    ASSUME NEW from \in Scenes \cup {None}, NEW to \in Scenes \cup {None}
    PROVE  /\ Deactivate(from) \in Seq(Calls)
           /\ CompleteTransition(from, to) \in Seq(Calls)
           /\ FadeHalfway(from, to) \in Seq(Calls)
           /\ \A type : StartTransition(type, to) \in Seq(Calls)
           /\ ApplyDeferredTransition(from, to) \in Seq(Calls)
  <1>1. \A s \in Scenes \cup {None} : Deactivate(s) \in Seq(Calls)
    <2> SUFFICES ASSUME NEW s \in Scenes \cup {None}
                 PROVE  Deactivate(s) \in Seq(Calls)
          OBVIOUS
    <2>1. Call("deactivate", s) \in Calls
          BY DEF Calls, Call, Ops, CallbackPoints
    <2> QED  BY <2>1, EmptySeq DEF Deactivate
  <1>2. \A op \in Ops : Call(op, to) \in Calls
        BY DEF Calls, Call
  <1>3. CompleteTransition(from, to) \in Seq(Calls)
    <2>1. Deactivate(IF from = to THEN None ELSE from) \in Seq(Calls)
          BY <1>1
    <2>2. <<Call("enter", to), Call("initialize", to), Call("activate", to),
            Call("settle", to)>> \in Seq(Calls)
          BY <1>2 DEF Ops, CallbackPoints
    <2> QED  BY <2>1, <2>2, ConcatProperties DEF CompleteTransition
  <1>4. FadeHalfway(from, to) \in Seq(Calls)
    <2>1. <<Call("enterFade", to), Call("initialize", to), Call("activate", to),
            Call("fadeIn", to)>> \in Seq(Calls)
          BY <1>2 DEF Ops, CallbackPoints
    <2> QED  BY <1>1, <2>1, ConcatProperties DEF FadeHalfway
  <1>5. \A type : StartTransition(type, to) \in Seq(Calls)
        BY <1>2 DEF StartTransition, Ops, CallbackPoints
  <1>6. ApplyDeferredTransition(from, to) \in Seq(Calls)
    <2>1. <<Call(IF from = to THEN "reset" ELSE "enterSwitch", to),
            Call("initialize", to), Call("activate", to)>> \in Seq(Calls)
          BY <1>2 DEF Ops, CallbackPoints
    <2> QED  BY <1>1, <2>1, ConcatProperties DEF ApplyDeferredTransition
  <1> QED  BY <1>1, <1>3, <1>4, <1>5, <1>6

(* The call at the head of the agenda and what is left when it returns.    *)
LEMMA ReturnType ==
    ASSUME agenda \in Seq(Calls), agenda # <<>>
    PROVE  /\ Head(agenda) \in Calls
           /\ Head(agenda).scene \in Scenes \cup {None}
           /\ Tail(agenda) \in Seq(Calls)
  <1>1. Head(agenda) \in Calls /\ Tail(agenda) \in Seq(Calls)
        BY HeadTailProperties
  <1> QED  BY <1>1 DEF Calls

(* An injection keeps the externals of every scene within their array.     *)
LEMMA InjectType ==
    ASSUME TypeOK, NEW s, NEW S \in SUBSET Objects, InjectAll(s, S)
    PROVE  /\ external' \in [Scenes -> [Objects -> Nat]]
           /\ externalCount' \in [Scenes -> 0 .. MaxExternal]
  <1>1. PICK kept \in SUBSET S :
            /\ externalCount[s] + Cardinality(kept) <= MaxExternal
            /\ external' = [external EXCEPT ![s] =
                    [o \in Objects |-> IF o \in kept THEN @[o] + 1 ELSE @[o]]]
            /\ externalCount' = [externalCount EXCEPT ![s] = @ + Cardinality(kept)]
        BY DEF InjectAll
  <1>2. Cardinality(kept) \in Nat
    <2>1. IsFiniteSet(kept)
          BY FS_Subset, FiniteAssumption
    <2> QED  BY <2>1, FS_CardinalityType
  <1>3. external' \in [Scenes -> [Objects -> Nat]]
    <2>1. CASE s \in Scenes
          BY <1>1, <2>1 DEF TypeOK
    <2>2. CASE s \notin Scenes
          BY <1>1, <2>2 DEF TypeOK
    <2> QED  BY <2>1, <2>2
  <1>4. externalCount' \in [Scenes -> 0 .. MaxExternal]
    <2>1. CASE s \in Scenes
          BY <1>1, <1>2, <2>1, BoundsAssumption DEF TypeOK
    <2>2. CASE s \notin Scenes
          BY <1>1, <2>2 DEF TypeOK
    <2> QED  BY <2>1, <2>2
  <1> QED  BY <1>3, <1>4

-----------------------------------------------------------------------------
LEMMA InitTyped == Init => TypeOK
  BY BoundsAssumption, EmptySeq
  DEF Init, TypeOK, NoExternal, SceneSlots, RegistrySlots, Immediate,
      TransitionStates, TransitionTypes

(* Destroying scenes, and flushing the registry, keep the types.           *)
LEMMA DestroyType ==
    ASSUME TypeOK, NEW D, Destroy(D)
    PROVE  /\ object' \in [Objects -> {"unborn", "live", "dead"}]
           /\ owned' \in [Scenes -> SUBSET Objects]
           /\ external' \in [Scenes -> [Objects -> Nat]]
           /\ externalCount' \in [Scenes -> 0 .. MaxExternal]
           /\ active' \in [Scenes -> BOOLEAN]
           /\ initialized' \in [Scenes -> BOOLEAN]
           /\ injected' \in [Scenes -> BOOLEAN]
  BY BoundsAssumption DEF TypeOK, Destroy, NoExternal

LEMMA FlushType ==
    ASSUME TypeOK, NEW s, FlushAndDetach(s)
    PROVE  /\ object' \in [Objects -> {"unborn", "live", "dead"}]
           /\ registry' \in [RegistrySlots -> Objects \cup {None}]
           /\ pendingRemoval' \in [RegistrySlots -> BOOLEAN]
           /\ external' \in [Scenes -> [Objects -> Nat]]
           /\ externalCount' \in [Scenes -> 0 .. MaxExternal]
  <1> USE DEF TypeOK, FlushAndDetach
  <1>1. object' \in [Objects -> {"unborn", "live", "dead"}]
        OBVIOUS
  <1>2. registry' \in [RegistrySlots -> Objects \cup {None}]
        OBVIOUS
  <1>3. pendingRemoval' \in [RegistrySlots -> BOOLEAN]
        OBVIOUS
  <1>4. /\ external \in [Scenes -> [Objects -> Nat]]
        /\ externalCount \in [Scenes -> 0 .. MaxExternal]
        OBVIOUS
  <1>5. /\ external' \in [Scenes -> [Objects -> Nat]]
        /\ externalCount' \in [Scenes -> 0 .. MaxExternal]
    <2>1. CASE s = None
          BY <1>4, <2>1
    <2>2. CASE s # None
      <3>1. /\ external' = [external EXCEPT ![s] = NoExternal]
            /\ externalCount' = [externalCount EXCEPT ![s] = 0]
            BY <2>2
      <3>2. NoExternal \in [Objects -> Nat] /\ 0 \in 0 .. MaxExternal
            BY BoundsAssumption DEF NoExternal
      <3> HIDE DEF TypeOK, FlushAndDetach
      <3> QED  BY <1>4, <3>1, <3>2
    <2> QED  BY <2>1, <2>2
  <1> QED  BY <1>1, <1>2, <1>3, <1>4, <1>5

(* Every step of the host keeps the types.                                 *)
LEMMA HostTyped == TypeOK /\ Host => TypeOK'
  <1> SUFFICES ASSUME TypeOK, Host PROVE TypeOK'
        OBVIOUS
  <1> USE BoundsAssumption
  <1>1. ASSUME NEW s \in Scenes, AddScene(s) PROVE TypeOK'
    <2>1. Destroy({slots[sceneCount + 1]} \ {None})
          BY <1>1 DEF AddScene
    <2>2. slots' \in [SceneSlots -> Scenes \cup {None}]
          BY <1>1 DEF AddScene, TypeOK
    <2>3. sceneCount' \in 0 .. MaxScenes
          BY <1>1 DEF AddScene, TypeOK
    <2>4. UNCHANGED <<registryVars, managerVars, agenda>>
          BY <1>1 DEF AddScene
    <2> QED  BY <2>1, <2>2, <2>3, <2>4, DestroyType
             DEF TypeOK, registryVars, managerVars
  <1>2. ASSUME NEW s \in Scenes, RemoveScene(s) PROVE TypeOK'
    <2>1. PICK i \in 1 .. sceneCount :
            /\ slots' = [k \in SceneSlots |->
                            IF k \in i .. (sceneCount - 1) THEN slots[k + 1]
                            ELSE IF k = sceneCount /\ i < sceneCount THEN None
                            ELSE slots[k]]
            /\ Destroy(IF i < sceneCount THEN {s} ELSE {})
          BY <1>2 DEF RemoveScene
    <2>2. slots' \in [SceneSlots -> Scenes \cup {None}]
          BY <2>1 DEF TypeOK, SceneSlots
    <2>3. sceneCount' \in 0 .. MaxScenes
          BY <1>2, <2>1 DEF RemoveScene, TypeOK
    <2>4. UNCHANGED <<registryVars, managerVars, agenda>>
          BY <1>2 DEF RemoveScene
    <2> QED  BY <2>1, <2>2, <2>3, <2>4, DestroyType
             DEF TypeOK, registryVars, managerVars
  <1>3. ASSUME NEW s \in Scenes, SwitchTo(s) PROVE TypeOK'
        BY <1>3 DEF SwitchTo, TypeOK, tableVars, sceneVars, collectionVars, registryVars
  <1>4. ASSUME NEW s \in Scenes, NEW type \in TransitionTypes, ChangeScene(s, type)
        PROVE  TypeOK'
    <2>1. agenda' \in Seq(Calls)
      <3>1. /\ CompleteTransition(current, s) \in Seq(Calls)
            /\ StartTransition(type, s) \in Seq(Calls)
            BY AgendaTypes DEF TypeOK
      <3> QED  BY <1>4, <3>1 DEF ChangeScene
    <2>2. transition' \in [state : TransitionStates, type : TransitionTypes,
                           timer : Nat]
          BY <1>4 DEF ChangeScene, Begun, TransitionTypes, TransitionStates, Immediate, Fade, Slide
    <2>3. next' \in Scenes \cup {None} /\ injected' \in [Scenes -> BOOLEAN]
          BY <1>4 DEF ChangeScene, TypeOK
    <2>4. UNCHANGED <<tableVars, active, initialized, collectionVars, object,
                      registryVars, current, pending>>
          BY <1>4 DEF ChangeScene
    <2> QED  BY <2>1, <2>2, <2>3, <2>4 DEF TypeOK, tableVars, collectionVars, registryVars
  <1>5. ASSUME NEW o \in Objects, NEW s \in Scenes, AddObject(o, s) PROVE TypeOK'
        BY <1>5 DEF AddObject, TypeOK, tableVars, sceneVars, registryVars, managerVars
  <1>6. ASSUME NEW o \in Objects, RemoveObject(o) PROVE TypeOK'
        BY <1>6 DEF RemoveObject, TypeOK, tableVars, sceneVars, registryVars, managerVars
  <1>7. ASSUME NEW o \in Objects, PersistObject(o) PROVE TypeOK'
    <2>2. /\ owned' = owned \/ owned' = [owned EXCEPT ![current] = @ \ {o}]
          /\ object' = object \/ object' = [object EXCEPT ![o] = "dead"]
          BY <1>7 DEF PersistObject, collectionVars
    <2>3. \/ UNCHANGED registryVars
          \/ \E i \in RegistrySlots : RegistryAdd(o, i)
          BY <1>7 DEF PersistObject
    <2>4. owned' \in [Scenes -> SUBSET Objects]
      <3>1. owned \in [Scenes -> SUBSET Objects]
            BY DEF TypeOK
      <3> QED  BY <2>2, <3>1
    <2>5. object' \in [Objects -> {"unborn", "live", "dead"}]
      <3>1. object \in [Objects -> {"unborn", "live", "dead"}]
            BY DEF TypeOK
      <3> QED  BY <2>2, <3>1
    <2>6. /\ registry' \in [RegistrySlots -> Objects \cup {None}]
          /\ pendingRemoval' \in [RegistrySlots -> BOOLEAN]
      <3>1. /\ registry \in [RegistrySlots -> Objects \cup {None}]
            /\ pendingRemoval \in [RegistrySlots -> BOOLEAN]
            BY DEF TypeOK
      <3>2. CASE UNCHANGED registryVars
            BY <3>1, <3>2 DEF registryVars
      <3>3. CASE \E i \in RegistrySlots : RegistryAdd(o, i)
            BY <3>1, <3>3 DEF RegistryAdd
      <3> QED  BY <2>3, <3>2, <3>3
    <2>7. /\ external' \in [Scenes -> [Objects -> Nat]]
          /\ externalCount' \in [Scenes -> 0 .. MaxExternal]
      <3>1. InjectAll(current, {o}) \/ UNCHANGED <<external, externalCount>>
            BY <1>7 DEF PersistObject, collectionVars
      <3> QED  BY <3>1, InjectType DEF TypeOK
    <2>8. UNCHANGED <<tableVars, sceneVars, managerVars, agenda>>
          BY <1>7 DEF PersistObject
    <2> QED  BY <2>7, <2>8, <2>4, <2>5, <2>6 DEF TypeOK, tableVars, sceneVars, managerVars
  <1>8. ASSUME NEW o \in Objects, UnpersistObject(o) PROVE TypeOK'
        BY <1>8 DEF UnpersistObject, TypeOK, tableVars, sceneVars,
                    collectionVars, managerVars
  <1> QED  BY <1>1, <1>2, <1>3, <1>4, <1>5, <1>6, <1>7, <1>8 DEF Host

(* Every step of the engine keeps the types.                               *)
LEMMA EngineTyped == TypeOK /\ (Engine \/ Frame) => TypeOK'
  <1> SUFFICES ASSUME TypeOK, Engine \/ Frame PROVE TypeOK'
        OBVIOUS
  <1> DEFINE TransitionType == [state : TransitionStates, type : TransitionTypes,
                                timer : Nat]
  <1>0. /\ agenda \in Seq(Calls)
        /\ transition \in TransitionType
        /\ current \in Scenes \cup {None} /\ next \in Scenes \cup {None}
        /\ pending \in Scenes \cup {None}
        BY DEF TypeOK
  <1>1. ASSUME Frame PROVE TypeOK'
    <2>1. /\ <<Call("transition", None)>> \in Seq(Calls)
          /\ <<Call("update", None), Call("deferred", None)>> \in Seq(Calls)
          BY DEF Call, Calls, Ops, CallbackPoints
    <2>2. agenda' \in Seq(Calls)
          BY <1>1, <2>1, EmptySeq, ConcatProperties DEF Frame
    <2> QED  BY <1>1, <2>2 DEF Frame, TypeOK, tableVars, sceneVars, collectionVars,
                               registryVars, managerVars
  <1>2. ASSUME NEW dt \in 1 .. MaxDt, UpdateTransition(dt) PROVE TypeOK'
    <2>1. agenda # <<>>
          BY <1>2 DEF UpdateTransition, Running
    <2>2. Tail(agenda) \in Seq(Calls)
          BY <1>0, <2>1, ReturnType
    <2>3. /\ CompleteTransition(current, next) \in Seq(Calls)
          /\ FadeHalfway(current, next) \in Seq(Calls)
          BY <1>0, AgendaTypes
    <2>4. \E calls \in Seq(Calls) : agenda' = calls \o Tail(agenda)
          BY <1>2, <2>3, EmptySeq DEF UpdateTransition
    <2>5. agenda' \in Seq(Calls)
          BY <2>2, <2>4, ConcatProperties
    <2>6. transition' \in TransitionType
      <3>1. transition' = [transition EXCEPT !.timer = transition.timer + dt]
            BY <1>2 DEF UpdateTransition
      <3>2. transition.timer + dt \in Nat
            BY <1>0, BoundsAssumption
      <3> QED  BY <1>0, <3>1, <3>2
    <2>7. UNCHANGED <<tableVars, sceneVars, collectionVars, object, registryVars,
                      current, next, pending>>
          BY <1>2 DEF UpdateTransition
    <2> QED  BY <2>5, <2>6, <2>7 DEF TypeOK, tableVars, sceneVars, collectionVars,
                                     registryVars
  <1>3. ASSUME UpdateScene PROVE TypeOK'
        BY <1>3, <1>0, ReturnType
        DEF UpdateScene, Running, Return, TypeOK, tableVars, sceneVars, collectionVars,
            registryVars, managerVars
  <1>4. ASSUME TakePending PROVE TypeOK'
    <2>1. agenda # <<>>
          BY <1>4 DEF TakePending, Running
    <2>2. Tail(agenda) \in Seq(Calls)
          BY <1>0, <2>1, ReturnType
    <2>3. ApplyDeferredTransition(current, pending) \in Seq(Calls)
          BY <1>0, AgendaTypes
    <2>4. agenda' \in Seq(Calls)
          BY <1>4, <2>2, <2>3, ConcatProperties DEF TakePending, Return
    <2>5. pending' = None /\ UNCHANGED <<tableVars, sceneVars, owned, current, next,
                                         transition>>
          BY <1>4 DEF TakePending
    <2>6. /\ object' \in [Objects -> {"unborn", "live", "dead"}]
          /\ registry' \in [RegistrySlots -> Objects \cup {None}]
          /\ pendingRemoval' \in [RegistrySlots -> BOOLEAN]
          /\ external' \in [Scenes -> [Objects -> Nat]]
          /\ externalCount' \in [Scenes -> 0 .. MaxExternal]
      <3>1. \/ FlushAndDetach(current)
            \/ UNCHANGED <<registryVars, object, external, externalCount>>
            BY <1>4 DEF TakePending
      <3>2. CASE FlushAndDetach(current)
            BY <3>2, FlushType
      <3>3. CASE UNCHANGED <<registryVars, object, external, externalCount>>
            BY <3>3 DEF TypeOK, registryVars
      <3> QED  BY <3>1, <3>2, <3>3
    <2> QED  BY <2>4, <2>5, <2>6 DEF TypeOK, tableVars, sceneVars
  <1>5. ASSUME DeactivateScene \/ InitializeScene \/ ActivateScene PROVE TypeOK'
    <2>1. agenda # <<>> /\ agenda' = Tail(agenda)
          BY <1>5 DEF DeactivateScene, InitializeScene, ActivateScene, Running, Return
    <2>2. agenda' \in Seq(Calls)
          BY <1>0, <2>1, ReturnType
    <2>3. /\ active' \in [Scenes -> BOOLEAN]
          /\ initialized' \in [Scenes -> BOOLEAN]
          BY <1>5 DEF DeactivateScene, InitializeScene, ActivateScene, TypeOK
    <2>4. UNCHANGED <<tableVars, injected, collectionVars, object, registryVars,
                      managerVars>>
          BY <1>5 DEF DeactivateScene, InitializeScene, ActivateScene
    <2> QED  BY <2>2, <2>3, <2>4 DEF TypeOK, tableVars, collectionVars, registryVars,
                                     managerVars
  <1>6. ASSUME NEW op, EnterScene(op) PROVE TypeOK'
    <2>1. agenda # <<>> /\ agenda' = Tail(agenda)
          BY <1>6 DEF EnterScene, Running, Return
    <2>2. agenda' \in Seq(Calls) /\ Head(agenda).scene \in Scenes \cup {None}
          BY <1>0, <2>1, ReturnType
    <2>3. current' \in Scenes \cup {None} /\ injected' \in [Scenes -> BOOLEAN]
          BY <1>6, <2>2 DEF EnterScene, TypeOK
    <2> QED  BY <1>6, <2>2, <2>3 DEF EnterScene, TypeOK, tableVars, collectionVars,
                                     registryVars
  <1>7. ASSUME NEW op, SwitchScene(op) PROVE TypeOK'
    <2>1. agenda # <<>> /\ agenda' = Tail(agenda)
          BY <1>7 DEF SwitchScene, Running, Return
    <2>2. agenda' \in Seq(Calls) /\ Head(agenda).scene \in Scenes \cup {None}
          BY <1>0, <2>1, ReturnType
    <2>3. /\ current' \in Scenes \cup {None}
          /\ injected' \in [Scenes -> BOOLEAN]
          /\ initialized' \in [Scenes -> BOOLEAN]
          BY <1>7, <2>2 DEF SwitchScene, TypeOK
    <2>4. /\ external' \in [Scenes -> [Objects -> Nat]]
          /\ externalCount' \in [Scenes -> 0 .. MaxExternal]
      <3>1. InjectAll(Head(agenda).scene, Persistent) /\ Persistent \in SUBSET Objects
            BY <1>7 DEF SwitchScene, Persistent
      <3> QED  BY <3>1, InjectType
    <2>5. UNCHANGED <<tableVars, active, owned, object, registryVars, next,
                      transition, pending>>
          BY <1>7 DEF SwitchScene
    <2> QED  BY <2>2, <2>3, <2>4, <2>5 DEF TypeOK, tableVars, registryVars
  <1>8. ASSUME SettleTransition \/ StartFadeIn PROVE TypeOK'
    <2>1. agenda # <<>> /\ agenda' = Tail(agenda)
          BY <1>8 DEF SettleTransition, StartFadeIn, Running, Return
    <2>2. agenda' \in Seq(Calls)
          BY <1>0, <2>1, ReturnType
    <2>3. transition' \in TransitionType
          BY <1>8, <1>0 DEF SettleTransition, StartFadeIn, TransitionStates
    <2>4. next' \in Scenes \cup {None}
          BY <1>8, <1>0 DEF SettleTransition, StartFadeIn
    <2>5. UNCHANGED <<tableVars, sceneVars, collectionVars, object, registryVars,
                      current, pending>>
          BY <1>8 DEF SettleTransition, StartFadeIn
    <2> QED  BY <2>2, <2>3, <2>4, <2>5 DEF TypeOK, tableVars, sceneVars, collectionVars,
                                           registryVars
  <1> QED  BY <1>1, <1>2, <1>3, <1>4, <1>5, <1>6, <1>7, <1>8 DEF Engine

LEMMA NextTyped == TypeOK /\ [Next]_vars => TypeOK'
  <1>1. TypeOK /\ UNCHANGED vars => TypeOK'
        BY DEF TypeOK, vars, tableVars, sceneVars, collectionVars, registryVars, managerVars
  <1> QED  BY <1>1, HostTyped, EngineTyped DEF Next

(* Every variable of the manager keeps the type its declaration gives it,  *)
(* and no counter leaves its table, for every host.                        *)
THEOREM TypeCorrect == Spec => []TypeOK
  BY InitTyped, NextTyped, PTL DEF Spec

-----------------------------------------------------------------------------
(* What UniqueOwner says of one object.                                    *)
OwnedOnce(o) ==
    /\ object[o] = "live" <=> o \in Persistent \/ \E s \in Scenes : o \in owned[s]
    /\ o \in Persistent => \A s \in Scenes : o \notin owned[s]
    /\ \A s, t \in Scenes : o \in owned[s] \cap owned[t] => s = t
    /\ \A i, j \in RegistrySlots : registry[i] = o /\ registry[j] = o => i = j

(* Destroying scenes kills what only they own.                             *)
LEMMA DestroyOwner ==
    ASSUME TypeOK, UniqueOwner, NEW D \in SUBSET Scenes, Destroy(D),
           UNCHANGED registryVars
    PROVE  UniqueOwner'
  <1> SUFFICES ASSUME NEW o \in Objects PROVE OwnedOnce(o)'
        BY DEF UniqueOwner, OwnedOnce
  <1>1. OwnedOnce(o)
        BY DEF UniqueOwner, OwnedOnce
  <1>2. (o \in Persistent)' <=> o \in Persistent
        BY DEF Persistent, registryVars
  <1>3. \A s \in Scenes : owned'[s] = IF s \in D THEN {} ELSE owned[s]
        BY DEF Destroy
  <1>4. object'[o] = IF \E s \in D : o \in owned[s] THEN "dead" ELSE object[o]
        BY DEF Destroy
  <1> QED  BY <1>1, <1>2, <1>3, <1>4 DEF OwnedOnce, registryVars

(* The flush kills exactly the objects whose slots it clears.              *)
LEMMA FlushOwner ==
    ASSUME TypeOK, UniqueOwner, NEW s, FlushAndDetach(s), UNCHANGED owned
    PROVE  UniqueOwner'
  <1> SUFFICES ASSUME NEW o \in Objects PROVE OwnedOnce(o)'
        BY DEF UniqueOwner, OwnedOnce
  <1>1. OwnedOnce(o)
        BY DEF UniqueOwner, OwnedOnce
  <1>2. \A i \in RegistrySlots :
            registry'[i] = IF pendingRemoval[i] THEN None ELSE registry[i]
        BY DEF FlushAndDetach
  <1>3. object'[o] = IF o \in Condemned THEN "dead" ELSE object[o]
        BY DEF FlushAndDetach
  <1>4. o # None
        BY NoneAssumption
  <1>5. CASE o \in Condemned
    <2>1. PICK i \in RegistrySlots : registry[i] = o /\ pendingRemoval[i]
          BY <1>5 DEF Condemned
    <2>2. o \in Persistent
          BY <2>1 DEF Persistent
    <2>3. \A j \in RegistrySlots : registry'[j] # o
          BY <1>1, <1>2, <1>4, <2>1 DEF OwnedOnce
    <2> QED  BY <1>1, <1>3, <1>5, <2>2, <2>3 DEF OwnedOnce, Persistent
  <1>6. CASE o \notin Condemned
    <2>1. \A j \in RegistrySlots : registry'[j] = o <=> registry[j] = o
          BY <1>2, <1>4, <1>6 DEF Condemned
    <2> QED  BY <1>1, <1>3, <1>6, <2>1 DEF OwnedOnce, Persistent
  <1> QED  BY <1>5, <1>6

(* Persisting moves the object from the collection to the registry, or     *)
(* loses it.                                                               *)
LEMMA PersistOwner ==
    ASSUME TypeOK, UniqueOwner, NEW p \in Objects, PersistObject(p)
    PROVE  UniqueOwner'
  <1> SUFFICES ASSUME NEW o \in Objects PROVE OwnedOnce(o)'
        BY DEF UniqueOwner, OwnedOnce
  <1>1. OwnedOnce(o)
        BY DEF UniqueOwner, OwnedOnce
  <1>2. o # None
        BY NoneAssumption
  <1>3. CASE UNCHANGED <<collectionVars, object, registryVars>>
        BY <1>1, <1>3 DEF OwnedOnce, Persistent, collectionVars, registryVars
  <1>4. CASE /\ p \notin Persistent
             /\ p \in owned[current]
             /\ owned' = [owned EXCEPT ![current] = @ \ {p}]
    <2>1. current \in Scenes
          BY PersistObject(p) DEF PersistObject, TypeOK
    <2>2. \A s \in Scenes : owned'[s] = IF s = current THEN owned[s] \ {p} ELSE owned[s]
          BY <1>4, <2>1 DEF TypeOK
    <2>3. CASE (\E i \in RegistrySlots : RegistryAdd(p, i)) /\ UNCHANGED object
      <3>1. PICK i \in RegistrySlots : RegistryAdd(p, i)
            BY <2>3
      <3>2. \A j \in RegistrySlots : registry'[j] = IF j = i THEN p ELSE registry[j]
            BY <3>1 DEF RegistryAdd, TypeOK
      <3>3. registry[i] = None
            BY <3>1 DEF RegistryAdd
      <3>4. CASE o = p
            BY <1>1, <1>2, <1>4, <2>1, <2>2, <2>3, <3>2, <3>3, <3>4 DEF OwnedOnce, Persistent
      <3>5. CASE o # p
        <4>1. (o \in Persistent)' <=> o \in Persistent
              BY <1>2, <3>2, <3>3, <3>5 DEF Persistent
        <4>2. \A s \in Scenes : o \in owned'[s] <=> o \in owned[s]
              BY <2>2, <3>5
        <4> QED  BY <1>1, <1>2, <2>3, <3>2, <3>3, <3>5, <4>1, <4>2 DEF OwnedOnce
      <3> QED  BY <3>4, <3>5
    <2>4. CASE object' = [object EXCEPT ![p] = "dead"] /\ UNCHANGED registryVars
      <3>1. (o \in Persistent)' <=> o \in Persistent
            BY <2>4 DEF Persistent, registryVars
      <3>2. object'[o] = IF o = p THEN "dead" ELSE object[o]
            BY <2>4 DEF TypeOK
      <3> QED  BY <1>1, <1>4, <2>1, <2>2, <2>4, <3>1, <3>2 DEF OwnedOnce, registryVars
    <2> QED  BY <1>4, <2>3, <2>4 DEF PersistObject
  <1> QED  BY <1>3, <1>4 DEF PersistObject

LEMMA NextOwner == TypeOK /\ UniqueOwner /\ [Next]_vars => UniqueOwner'
  <1> SUFFICES ASSUME TypeOK, UniqueOwner, [Next]_vars PROVE UniqueOwner'
        OBVIOUS
  <1>1. ASSUME UNCHANGED <<owned, object, registry>> PROVE UniqueOwner'
        BY <1>1 DEF UniqueOwner, Persistent
  <1>2. ASSUME NEW s \in Scenes, AddScene(s) PROVE UniqueOwner'
    <2>1. slots[sceneCount + 1] \in Scenes \cup {None}
          BY <1>2, BoundsAssumption DEF AddScene, TypeOK, SceneSlots
    <2>2. Destroy({slots[sceneCount + 1]} \ {None}) /\ UNCHANGED registryVars
          BY <1>2 DEF AddScene
    <2> QED  BY <2>1, <2>2, DestroyOwner
  <1>3. ASSUME NEW s \in Scenes, RemoveScene(s) PROVE UniqueOwner'
    <2>1. \E i \in 1 .. sceneCount : Destroy(IF i < sceneCount THEN {s} ELSE {})
          BY <1>3 DEF RemoveScene
    <2>2. \E D \in SUBSET Scenes : Destroy(D)
          BY <2>1
    <2>3. UNCHANGED registryVars
          BY <1>3 DEF RemoveScene
    <2> QED  BY <2>2, <2>3, DestroyOwner
  <1>4. ASSUME NEW p \in Objects, NEW t \in Scenes, AddObject(p, t) PROVE UniqueOwner'
    <2>1. /\ object[p] = "unborn"
          /\ \A o \in Objects : object'[o] = IF o = p THEN "live" ELSE object[o]
          /\ \A s \in Scenes : owned'[s] = IF s = t THEN owned[s] \cup {p} ELSE owned[s]
          /\ UNCHANGED registry
          BY <1>4 DEF AddObject, TypeOK, registryVars
    <2>2. p \notin Persistent /\ \A s \in Scenes : p \notin owned[s]
          BY <2>1 DEF UniqueOwner
    <2>3. Persistent' = Persistent
          BY <2>1 DEF Persistent
    <2> SUFFICES ASSUME NEW o \in Objects PROVE OwnedOnce(o)'
          BY DEF UniqueOwner, OwnedOnce
    <2>4. OwnedOnce(o)
          BY DEF UniqueOwner, OwnedOnce
    <2>5. CASE o = p
          BY <2>1, <2>2, <2>3, <2>5 DEF OwnedOnce, Persistent
    <2>6. CASE o # p
      <3>1. \A s \in Scenes : o \in owned'[s] <=> o \in owned[s]
            BY <2>1, <2>6
      <3>2. object'[o] = object[o] /\ registry' = registry
            BY <2>1, <2>6
      <3> QED  BY <2>3, <2>4, <3>1, <3>2 DEF OwnedOnce
    <2> QED  BY <2>5, <2>6
  <1>5. ASSUME NEW p \in Objects, RemoveObject(p) PROVE UniqueOwner'
    <2>1. PICK t \in Scenes : /\ p \in owned[t]
                              /\ owned' = [owned EXCEPT ![t] = @ \ {p}]
          BY <1>5 DEF RemoveObject
    <2>2. /\ \A o \in Objects : object'[o] = IF o = p THEN "dead" ELSE object[o]
          /\ \A s \in Scenes : owned'[s] = IF s = t THEN owned[s] \ {p} ELSE owned[s]
          /\ UNCHANGED registry
          BY <1>5, <2>1 DEF RemoveObject, TypeOK, registryVars
    <2>3. Persistent' = Persistent
          BY <2>2 DEF Persistent
    <2> SUFFICES ASSUME NEW o \in Objects PROVE OwnedOnce(o)'
          BY DEF UniqueOwner, OwnedOnce
    <2>4. OwnedOnce(o)
          BY DEF UniqueOwner, OwnedOnce
    <2> QED  BY <2>1, <2>2, <2>3, <2>4 DEF OwnedOnce
  <1>6. ASSUME NEW p \in Objects, PersistObject(p) PROVE UniqueOwner'
        BY <1>6, PersistOwner
  <1>7. ASSUME TakePending PROVE UniqueOwner'
    <2>1. \/ FlushAndDetach(current)
          \/ UNCHANGED <<object, registry>>
          BY <1>7 DEF TakePending, registryVars
    <2>2. UNCHANGED owned
          BY <1>7 DEF TakePending
    <2> QED  BY <1>1, <2>1, <2>2, FlushOwner
  <1>8. CASE Host
    <2>1. \A p \in Objects : UnpersistObject(p) => UNCHANGED <<owned, object, registry>>
          BY DEF UnpersistObject, collectionVars
    <2>2. \A s \in Scenes : SwitchTo(s) => UNCHANGED <<owned, object, registry>>
          BY DEF SwitchTo, collectionVars, registryVars
    <2>3. \A s \in Scenes, type \in TransitionTypes :
            ChangeScene(s, type) => UNCHANGED <<owned, object, registry>>
          BY DEF ChangeScene, collectionVars, registryVars
    <2> QED  BY <1>1, <1>2, <1>3, <1>4, <1>5, <1>6, <1>8, <2>1, <2>2, <2>3 DEF Host
  <1>9. CASE Engine \/ Frame \/ UNCHANGED vars
    <2>1. (Engine \/ Frame \/ UNCHANGED vars) /\ ~TakePending
            => UNCHANGED <<owned, object, registry>>
          BY DEF Engine, Frame, vars, UpdateTransition, UpdateScene, DeactivateScene,
                 EnterScene, SwitchScene, InitializeScene, ActivateScene,
                 SettleTransition, StartFadeIn, collectionVars, registryVars
    <2> QED  BY <1>1, <1>7, <1>9, <2>1
  <1> QED  BY <1>8, <1>9 DEF Next

(* Whatever the host calls, and whenever: an object is alive exactly while *)
(* one collection, or one slot of the registry, owns it.                   *)
THEOREM ObjectsHaveOneOwner == Spec => []UniqueOwner
  <1>1. Init => UniqueOwner
        BY NoneAssumption DEF Init, UniqueOwner, Persistent
  <1> QED  BY <1>1, TypeCorrect, NextOwner, PTL DEF Spec

-----------------------------------------------------------------------------
(* A registered object is never destroyed but by the flush that opens a    *)
(* deferred switch, and only if unpersistObject marked it.                 *)
THEOREM OnlyCondemnedDie == Spec => DiesOnlyCondemned
  <1>1. ASSUME TypeOK, UniqueOwner, [Next]_vars, NEW o \in Persistent, object'[o] = "dead"
        PROVE  o \in Condemned /\ Running("deferred")
    <2>1. o \in Objects /\ object[o] = "live" /\ \A s \in Scenes : o \notin owned[s]
          BY <1>1 DEF UniqueOwner, Persistent
    <2>2. ASSUME NEW D \in SUBSET Scenes, Destroy(D) PROVE FALSE
          BY <1>1, <2>1, <2>2 DEF Destroy
    <2>3. ASSUME NEW s \in Scenes, AddScene(s) PROVE FALSE
      <3>1. slots[sceneCount + 1] \in Scenes \cup {None}
            BY <1>1, <2>3, BoundsAssumption DEF AddScene, TypeOK, SceneSlots
      <3> QED  BY <2>2, <2>3, <3>1 DEF AddScene
    <2>4. ASSUME NEW s \in Scenes, RemoveScene(s) PROVE FALSE
      <3>1. \E i \in 1 .. sceneCount : Destroy(IF i < sceneCount THEN {s} ELSE {})
            BY <2>4 DEF RemoveScene
      <3> QED  BY <2>2, <3>1
    <2>5. ASSUME NEW p \in Objects, NEW s \in Scenes, AddObject(p, s) PROVE FALSE
          BY <1>1, <2>1, <2>5 DEF AddObject, TypeOK
    <2>6. ASSUME NEW p \in Objects, RemoveObject(p) PROVE FALSE
          BY <1>1, <2>1, <2>6 DEF RemoveObject, TypeOK
    <2>7. ASSUME NEW p \in Objects, PersistObject(p) PROVE FALSE
          BY <1>1, <2>1, <2>7 DEF PersistObject, TypeOK
    <2>8. ASSUME UNCHANGED object PROVE FALSE
          BY <2>1, <2>8, <1>1
    <2>9. CASE Host
      <3>1. /\ \A s \in Scenes : SwitchTo(s) => UNCHANGED object
            /\ \A s \in Scenes, type \in TransitionTypes :
                    ChangeScene(s, type) => UNCHANGED object
            /\ \A p \in Objects : UnpersistObject(p) => UNCHANGED object
            BY DEF SwitchTo, ChangeScene, UnpersistObject
      <3> QED  BY <2>3, <2>4, <2>5, <2>6, <2>7, <2>8, <2>9, <3>1 DEF Host
    <2>10. CASE TakePending
      <3>1. FlushAndDetach(current)
            BY <2>8, <2>10 DEF TakePending
      <3>2. object'[o] = IF o \in Condemned THEN "dead" ELSE object[o]
            BY <2>1, <3>1 DEF FlushAndDetach
      <3> QED  BY <1>1, <2>1, <2>10, <3>2 DEF TakePending
    <2>11. CASE (Engine \/ Frame \/ UNCHANGED vars) /\ ~TakePending
           BY <2>8, <2>11 DEF Engine, Frame, vars, UpdateTransition, UpdateScene,
              DeactivateScene, EnterScene, SwitchScene, InitializeScene, ActivateScene,
              SettleTransition, StartFadeIn
    <2> QED  BY <1>1, <2>9, <2>10, <2>11 DEF Next
  <1>2. TypeOK /\ UniqueOwner /\ [Next]_vars
          => [\A o \in Persistent : object'[o] = "dead" =>
                  o \in Condemned /\ Running("deferred")]_vars
        BY <1>1
  <1> QED  BY <1>2, TypeCorrect, ObjectsHaveOneOwner, PTL DEF Spec, DiesOnlyCondemned

(* The deferred switch lists the entry of the scene that was asked for.    *)
LEMMA SwitchEnters ==
    ASSUME NEW from \in Scenes \cup {None}, NEW to \in Scenes, NEW rest \in Seq(Calls)
    PROVE  \E k \in DOMAIN (ApplyDeferredTransition(from, to) \o rest) :
              (ApplyDeferredTransition(from, to) \o rest)[k] \in
                  {Call("reset", to), Call("enterSwitch", to)}
  <1> DEFINE first == Deactivate(from)
             calls == <<Call(IF from = to THEN "reset" ELSE "enterSwitch", to),
                        Call("initialize", to), Call("activate", to)>>
             whole == ApplyDeferredTransition(from, to)
             k     == Len(first) + 1
  <1>1. first \in Seq(Calls) /\ whole \in Seq(Calls)
        BY AgendaTypes
  <1>2. calls \in Seq(Calls)
        BY DEF Calls, Call, Ops, CallbackPoints
  <1>3. Len(calls) = 3 /\ calls[1] \in {Call("reset", to), Call("enterSwitch", to)}
        OBVIOUS
  <1>4. Len(first) \in Nat /\ Len(rest) \in Nat
        BY <1>1, LenProperties
  <1>5. whole = first \o calls
        BY DEF ApplyDeferredTransition
  <1> HIDE DEF first, calls, whole
  <1>6. Len(whole) = Len(first) + 3 /\ whole[k] = calls[1]
    <2>1. /\ Len(whole) = Len(first) + Len(calls)
          /\ \A i \in 1 .. Len(first) + Len(calls) : whole[i] =
                IF i <= Len(first) THEN first[i] ELSE calls[i - Len(first)]
          BY <1>1, <1>2, <1>5, ConcatProperties
    <2>2. /\ k \in 1 .. Len(first) + Len(calls)
          /\ ~(k <= Len(first)) /\ k - Len(first) = 1
          BY <1>3, <1>4
    <2>3. whole[k] = calls[k - Len(first)]
          BY <2>1, <2>2
    <2> QED  BY <1>3, <2>1, <2>2, <2>3
  <1>7. /\ k \in DOMAIN (whole \o rest)
        /\ (whole \o rest)[k] = whole[k]
    <2>1. /\ whole \o rest \in Seq(Calls)
          /\ Len(whole \o rest) = Len(whole) + Len(rest)
          /\ \A i \in 1 .. Len(whole) + Len(rest) : (whole \o rest)[i] =
                IF i <= Len(whole) THEN whole[i] ELSE rest[i - Len(whole)]
          BY <1>1, ConcatProperties
    <2>2. k \in 1 .. Len(whole) + Len(rest) /\ k <= Len(whole)
          BY <1>4, <1>6
    <2>3. DOMAIN (whole \o rest) = 1 .. Len(whole) + Len(rest)
          BY <2>1, LenProperties
    <2> QED  BY <2>1, <2>2, <2>3
  <1>8. /\ k \in DOMAIN (whole \o rest)
        /\ (whole \o rest)[k] \in {Call("reset", to), Call("enterSwitch", to)}
        BY <1>3, <1>6, <1>7
  <1> QED  BY <1>8 DEF whole

(* A request is dropped by nothing but the end of the frame that applies   *)
(* it, and one for a registered scene is then under way: a switchTo from a *)
(* callback of the switch being applied waits for the next frame.          *)
THEOREM RequestsAreApplied == Spec => RequestIsApplied
  <1>1. ASSUME TypeOK, [Next]_vars, pending # None, pending' = None
        PROVE  Running("deferred") /\
               (Registered(pending) =>
                   \E k \in DOMAIN agenda' :
                       agenda'[k] \in {Call("reset", pending), Call("enterSwitch", pending)})
    <2>1. CASE TakePending
      <3>1. agenda # <<>> /\ Running("deferred")
            BY <2>1 DEF TakePending, Running
      <3>2. current \in Scenes \cup {None} /\ pending \in Scenes
            BY <1>1 DEF TypeOK
      <3>3. Tail(agenda) \in Seq(Calls)
            BY <1>1, <3>1, ReturnType DEF TypeOK
      <3>4. Registered(pending)
                => agenda' = ApplyDeferredTransition(current, pending) \o Tail(agenda)
            BY <1>1, <2>1 DEF TakePending
      <3> QED  BY <3>1, <3>2, <3>3, <3>4, SwitchEnters
    <2>2. CASE \E s \in Scenes : SwitchTo(s)
          BY <1>1, <2>2, NoneAssumption DEF SwitchTo
    <2>3. CASE UNCHANGED pending
          BY <1>1, <2>3
    <2>4. (Engine \/ Frame \/ UNCHANGED vars) /\ ~TakePending => UNCHANGED pending
          BY DEF Engine, Frame, vars, managerVars, UpdateTransition, UpdateScene,
             DeactivateScene, EnterScene, SwitchScene, InitializeScene, ActivateScene,
             SettleTransition, StartFadeIn
    <2>5. Host => UNCHANGED pending \/ \E s \in Scenes : SwitchTo(s)
          BY DEF Host, managerVars, AddScene, RemoveScene, ChangeScene, AddObject,
             RemoveObject, PersistObject, UnpersistObject
    <2> QED  BY <1>1, <2>1, <2>2, <2>3, <2>4, <2>5 DEF Next
  <1>2. TypeOK /\ [Next]_vars
          => [pending # None /\ pending' = None =>
                Running("deferred") /\
                (Registered(pending) =>
                    \E k \in DOMAIN agenda' :
                        agenda'[k] \in {Call("reset", pending),
                                        Call("enterSwitch", pending)})]_vars
        BY <1>1
  <1> QED  BY <1>2, TypeCorrect, PTL DEF Spec, RequestIsApplied

-----------------------------------------------------------------------------
(* The host whose scenes are only switched with switchTo (changeScene just *)
(* enters the first one) and whose onDeactivate persists nothing.          *)
Switching == ChangeTypes = {} /\ "deactivate" \notin PersistPoints

(* Calls that neither enter a scene nor animate a transition.              *)
PlainOps == Ops \ (EntryOps \cup {"transition", "fadeIn"})

(* Where the entry of a scene may stand in the agenda, and that nothing    *)
(* animates: what EntryComesFirst and NoAnimation say of a call sequence.  *)
Orderly(calls) ==
    \A k \in DOMAIN calls :
        /\ calls[k].op \in EntryOps => k = 1 \/ (k = 2 /\ calls[1].op = "deactivate")
        /\ calls[k].op \notin {"transition", "fadeIn"}

Plain(calls) == \A k \in DOMAIN calls : calls[k].op \in PlainOps

(* A plain sequence followed by a plain one is plain, and an orderly one   *)
(* followed by a plain one is orderly.                                     *)
LEMMA OrderlyConcat ==
    ASSUME NEW c1 \in Seq(Calls), NEW c2 \in Seq(Calls), Orderly(c1), Plain(c2)
    PROVE  Orderly(c1 \o c2)
  <1> SUFFICES ASSUME NEW k \in DOMAIN (c1 \o c2)
               PROVE  /\ (c1 \o c2)[k].op \in EntryOps =>
                            k = 1 \/ (k = 2 /\ (c1 \o c2)[1].op = "deactivate")
                      /\ (c1 \o c2)[k].op \notin {"transition", "fadeIn"}
        BY DEF Orderly
  <1>1. k \in 1 .. Len(c1) + Len(c2) /\ Len(c1) \in Nat /\ Len(c2) \in Nat
        BY ConcatProperties, LenProperties
  <1>2. CASE k <= Len(c1)
    <2>1. (c1 \o c2)[k] = c1[k] /\ (c1 \o c2)[1] = c1[1] /\ k \in DOMAIN c1
          BY <1>1, <1>2, ConcatProperties, LenProperties
    <2> QED  BY <2>1 DEF Orderly
  <1>3. CASE k > Len(c1)
    <2>1. (c1 \o c2)[k] = c2[k - Len(c1)] /\ k - Len(c1) \in DOMAIN c2
          BY <1>1, <1>3, ConcatProperties, LenProperties
    <2> QED  BY <2>1 DEF Plain, PlainOps
  <1> QED  BY <1>1, <1>2, <1>3

(* What is left of an orderly agenda once its head returns: if the head    *)
(* was not a deactivate, no entry is left.                                 *)
LEMMA OrderlyTail ==
    ASSUME NEW calls \in Seq(Calls), calls # <<>>, Orderly(calls)
    PROVE  /\ Orderly(Tail(calls))
           /\ Head(calls).op # "deactivate" => Plain(Tail(calls))
           /\ (\E k \in DOMAIN Tail(calls) : Tail(calls)[k].op \in EntryOps)
                => \E k \in DOMAIN calls : calls[k].op \in EntryOps
  <1>1. /\ Tail(calls) \in Seq(Calls)
        /\ Len(Tail(calls)) = Len(calls) - 1 /\ Len(calls) \in Nat \ {0}
        /\ \A k \in 1 .. Len(Tail(calls)) : Tail(calls)[k] = calls[k + 1]
        BY HeadTailProperties, EmptySeq
  <1>2. /\ DOMAIN calls = 1 .. Len(calls)
        /\ DOMAIN Tail(calls) = 1 .. Len(Tail(calls))
        BY <1>1, LenProperties
  <1>3. Head(calls) = calls[1]
        BY <1>1
  <1>4. ASSUME NEW k \in DOMAIN Tail(calls)
        PROVE  /\ k \in Nat \ {0} /\ k + 1 \in DOMAIN calls
               /\ Tail(calls)[k] = calls[k + 1]
               /\ calls[k + 1] \in Calls
        BY <1>1, <1>2, <1>4, LenProperties
  <1>5. Orderly(Tail(calls))
        BY <1>4 DEF Orderly
  <1>6. Head(calls).op # "deactivate" => Plain(Tail(calls))
        BY <1>3, <1>4 DEF Orderly, Plain, PlainOps, Calls
  <1> QED  BY <1>4, <1>5, <1>6

(* The two call sequences such a host can start are orderly.               *)
LEMMA OrderlyMethods ==
    ASSUME NEW from \in Scenes \cup {None}, NEW to \in Scenes \cup {None}
    PROVE  /\ Orderly(ApplyDeferredTransition(from, to))
           /\ from = None => Orderly(CompleteTransition(from, to))
  <1>1. Orderly(ApplyDeferredTransition(from, to))
        BY DEF Orderly, ApplyDeferredTransition, Deactivate, Call, EntryOps
  <1>2. from = None => Orderly(CompleteTransition(from, to))
        BY DEF Orderly, CompleteTransition, Deactivate, Call, EntryOps
  <1> QED  BY <1>1, <1>2

-----------------------------------------------------------------------------
EntryAhead == \E k \in DOMAIN agenda : agenda[k].op \in EntryOps
NoneHeld   == \A s \in Scenes : external[s] = NoExternal

(* The part of SwitchInv that is about the calls and the externals.        *)
Attached ==
    /\ Orderly(agenda)
    /\ transition.state = "IDLE"
    /\ EntryAhead => NoneHeld
    /\ ExternalIsPersistent

LEMMA SwitchInvParts == SwitchInv <=> TypeOK /\ UniqueOwner /\ Attached
  <1>1. EntryComesFirst /\ NoAnimation <=> Orderly(agenda) /\ transition.state = "IDLE"
        BY DEF EntryComesFirst, NoAnimation, Orderly
  <1>2. DetachedBeforeEntry <=> (EntryAhead => NoneHeld)
        BY DEF DetachedBeforeEntry, EntryAhead, NoneHeld
  <1> QED  BY <1>1, <1>2 DEF SwitchInv, Attached

(* With no scene to come from, nothing is held.                            *)
LEMMA NoSceneHoldsNothing ==
    ASSUME TypeOK, ExternalIsPersistent, current = None
    PROVE  NoneHeld
  <1> SUFFICES ASSUME NEW s \in Scenes PROVE external[s] = NoExternal
        BY DEF NoneHeld
  <1>1. external[s] \in [Objects -> Nat]
        BY DEF TypeOK
  <1>2. \A o \in Objects : external[s][o] = 0
        BY <1>1, NoneAssumption DEF ExternalIsPersistent
  <1> QED  BY <1>1, <1>2 DEF NoExternal

(* After the flush nothing is held: the current scene was the only one.    *)
LEMMA FlushHoldsNothing ==
    ASSUME TypeOK, ExternalIsPersistent, FlushAndDetach(current)
    PROVE  NoneHeld'
  <1>1. CASE current = None
        BY <1>1, NoSceneHoldsNothing DEF FlushAndDetach, NoneHeld
  <1>2. CASE current # None
    <2> SUFFICES ASSUME NEW s \in Scenes PROVE external'[s] = NoExternal
          BY DEF NoneHeld, NoExternal
    <2>1. external' = [external EXCEPT ![current] = NoExternal]
          BY <1>2 DEF FlushAndDetach
    <2>2. external \in [Scenes -> [Objects -> Nat]]
          BY DEF TypeOK
    <2>3. CASE s = current
          BY <2>1, <2>2, <2>3
    <2>4. CASE s # current
      <3>1. external'[s] = external[s] /\ external[s] \in [Objects -> Nat]
            BY <2>1, <2>2, <2>4
      <3>2. \A o \in Objects : external[s][o] = 0
            BY <3>1, <2>4 DEF ExternalIsPersistent
      <3> QED  BY <3>1, <3>2 DEF NoExternal
    <2> QED  BY <2>3, <2>4
  <1> QED  BY <1>1, <1>2

(* Injecting into the scene that is current adds no other pointer.         *)
LEMMA InjectAttached ==
    ASSUME TypeOK, NEW s, NEW S \in SUBSET Objects, InjectAll(s, S)
    PROVE  \A t \in Scenes, o \in Objects :
              external'[t][o] > 0 => external[t][o] > 0 \/ (t = s /\ o \in S)
  <1>1. PICK kept \in SUBSET S :
            external' = [external EXCEPT ![s] =
                [o \in Objects |-> IF o \in kept THEN @[o] + 1 ELSE @[o]]]
        BY DEF InjectAll
  <1> SUFFICES ASSUME NEW t \in Scenes, NEW o \in Objects, external'[t][o] > 0
               PROVE  external[t][o] > 0 \/ (t = s /\ o \in S)
        OBVIOUS
  <1>2. external \in [Scenes -> [Objects -> Nat]]
        BY DEF TypeOK
  <1>3. CASE t = s
        BY <1>1, <1>2, <1>3
  <1>4. CASE t # s
        BY <1>1, <1>2, <1>4
  <1> QED  BY <1>3, <1>4

(* A call that returns and touches no pointer keeps the invariant.         *)
LEMMA ReturnAttached ==
    ASSUME TypeOK, Attached, agenda # <<>>, agenda' = Tail(agenda),
           UNCHANGED <<external, registry, current>>, transition'.state = "IDLE"
    PROVE  Attached'
  <1>1. agenda \in Seq(Calls)
        BY DEF TypeOK
  <1>2. Orderly(agenda')
        BY <1>1, OrderlyTail DEF Attached
  <1>3. EntryAhead' => EntryAhead
        BY <1>1, OrderlyTail DEF Attached, EntryAhead
  <1> QED  BY <1>2, <1>3 DEF Attached, NoneHeld, ExternalIsPersistent, Persistent, Orderly

(* The call that enters a scene is the last that finds nothing held.       *)
LEMMA EntryReturns ==
    ASSUME TypeOK, Attached, agenda # <<>>, Head(agenda).op \in EntryOps
    PROVE  /\ NoneHeld
           /\ Orderly(Tail(agenda))
           /\ \A k \in DOMAIN Tail(agenda) : Tail(agenda)[k].op \notin EntryOps
  <1>1. agenda \in Seq(Calls)
        BY DEF TypeOK
  <1>2. 1 \in DOMAIN agenda /\ Head(agenda) = agenda[1]
        BY <1>1, EmptySeq, LenProperties
  <1>3. NoneHeld
        BY <1>2 DEF Attached, EntryAhead
  <1>4. Orderly(Tail(agenda)) /\ Plain(Tail(agenda))
        BY <1>1, OrderlyTail DEF Attached, EntryOps
  <1> QED  BY <1>3, <1>4 DEF Plain, PlainOps

(* A host callback other than onDeactivate finds no entry ahead.           *)
LEMMA CallbackAttached ==
    ASSUME TypeOK, Attached, NEW point \in CallbackPoints, point # "deactivate",
           Callback(point)
    PROVE  ~EntryAhead
  <1>1. agenda \in Seq(Calls)
        BY DEF TypeOK
  <1>2. CASE agenda = <<>>
        BY <1>2 DEF EntryAhead
  <1>3. CASE agenda # <<>>
    <2>1. Head(agenda).op = point /\ point \notin EntryOps
          BY <1>3 DEF Callback, Running, CallbackPoints, EntryOps
    <2>2. Plain(Tail(agenda))
          BY <1>1, <1>3, <2>1, OrderlyTail DEF Attached
    <2>3. ASSUME NEW k \in DOMAIN agenda PROVE agenda[k].op \notin EntryOps
      <3>1. CASE k = 1
            BY <1>1, <1>3, <2>1, <3>1
      <3>2. CASE k # 1
        <4>1. k - 1 \in DOMAIN Tail(agenda) /\ Tail(agenda)[k - 1] = agenda[k]
              BY <1>1, <1>3, <2>3, <3>2, HeadTailProperties, LenProperties
        <4> QED  BY <2>2, <4>1 DEF Plain, PlainOps
      <3> QED  BY <3>1, <3>2
    <2> QED  BY <2>3 DEF EntryAhead
  <1> QED  BY <1>2, <1>3

LEMMA HostAttached ==
    ASSUME Switching, TypeOK, UniqueOwner, Attached, Host
    PROVE  Attached'
  <1>1. ASSUME UNCHANGED <<external, registry, current, transition, agenda>> PROVE Attached'
        BY <1>1 DEF Attached, EntryAhead, NoneHeld, ExternalIsPersistent, Persistent, Orderly
  <1>2. ASSUME NEW D, Destroy(D), UNCHANGED <<registry, current, transition, agenda>>
        PROVE  Attached'
    <2>1. \A s \in Scenes : external'[s] = NoExternal \/ external'[s] = external[s]
          BY <1>2 DEF Destroy
    <2>2. EntryAhead' => NoneHeld'
          BY <1>2, <2>1 DEF Attached, EntryAhead, NoneHeld, NoExternal
    <2>3. ExternalIsPersistent'
          BY <1>2, <2>1 DEF Attached, ExternalIsPersistent, Persistent, NoExternal
    <2> QED  BY <1>2, <2>2, <2>3 DEF Attached, Orderly
  <1>3. ASSUME NEW s \in Scenes, AddScene(s) \/ RemoveScene(s) PROVE Attached'
    <2>1. (\E D : Destroy(D)) /\ UNCHANGED <<registry, current, transition, agenda>>
          BY <1>3 DEF AddScene, RemoveScene, registryVars, managerVars
    <2> QED  BY <1>2, <2>1
  <1>4. ASSUME NEW s \in Scenes, NEW type \in TransitionTypes, ChangeScene(s, type)
        PROVE  Attached'
    <2>1. /\ current = None /\ type = Immediate
          /\ agenda' = CompleteTransition(current, s)
          /\ UNCHANGED <<external, registry, current>>
          BY <1>4 DEF ChangeScene, Switching, collectionVars, registryVars
    <2>2. transition'.state = "IDLE"
          BY <1>4, <2>1 DEF ChangeScene, Begun, Immediate, Fade, Slide
    <2>3. NoneHeld /\ Orderly(agenda')
          BY <2>1, NoSceneHoldsNothing, OrderlyMethods DEF Attached
    <2> QED  BY <2>1, <2>2, <2>3 DEF Attached, NoneHeld, ExternalIsPersistent,
                                     Persistent, Orderly
  <1>5. ASSUME NEW p \in Objects, PersistObject(p) PROVE Attached'
    <2>1. ~EntryAhead
      <3>1. PICK point \in PersistPoints : Callback(point)
            BY <1>5 DEF PersistObject
      <3>2. point \in CallbackPoints /\ point # "deactivate"
            BY <3>1, HostAssumption DEF Switching
      <3> QED  BY <3>1, <3>2, CallbackAttached
    <2>2. UNCHANGED <<current, transition, agenda>>
          BY <1>5 DEF PersistObject, managerVars
    <2>3. ExternalIsPersistent'
      <3>1. CASE UNCHANGED <<external, registry>>
            BY <2>2, <3>1 DEF Attached, ExternalIsPersistent, Persistent
      <3>2. CASE (\E i \in RegistrySlots : RegistryAdd(p, i)) /\ InjectAll(current, {p})
        <4>1. PICK i \in RegistrySlots : RegistryAdd(p, i)
              BY <3>2
        <4>2. \A j \in RegistrySlots : registry'[j] = IF j = i THEN p ELSE registry[j]
              BY <4>1 DEF RegistryAdd, TypeOK
        <4>3. registry[i] = None
              BY <4>1 DEF RegistryAdd
        <4>4. \A o \in Objects : o \in Persistent \/ o = p => (o \in Persistent)'
              BY <4>2, <4>3, NoneAssumption DEF Persistent
        <4>5. \A t \in Scenes, o \in Objects :
                  external'[t][o] > 0 => external[t][o] > 0 \/ (t = current /\ o = p)
              BY <3>2, InjectAttached
        <4> QED  BY <2>2, <4>4, <4>5 DEF Attached, ExternalIsPersistent
      <3> QED  BY <1>5, <3>1, <3>2 DEF PersistObject, collectionVars, registryVars
    <2> QED  BY <2>1, <2>2, <2>3 DEF Attached, EntryAhead, Orderly
  <1>6. /\ \A s \in Scenes : SwitchTo(s)
                => UNCHANGED <<external, registry, current, transition, agenda>>
        /\ \A o \in Objects, s \in Scenes : AddObject(o, s)
                => UNCHANGED <<external, registry, current, transition, agenda>>
        /\ \A o \in Objects : RemoveObject(o) \/ UnpersistObject(o)
                => UNCHANGED <<external, registry, current, transition, agenda>>
        BY DEF SwitchTo, AddObject, RemoveObject, UnpersistObject, collectionVars,
               registryVars, managerVars
  <1> QED  BY <1>1, <1>3, <1>4, <1>5, <1>6 DEF Host

LEMMA EngineAttached ==
    ASSUME TypeOK, Attached, Engine \/ Frame
    PROVE  Attached'
  <1>0. agenda \in Seq(Calls)
        BY DEF TypeOK
  <1>1. ~Running("transition") /\ ~Running("fadeIn")
    <2>1. agenda # <<>> => 1 \in DOMAIN agenda /\ Head(agenda) = agenda[1]
          BY <1>0, EmptySeq, LenProperties
    <2> QED  BY <2>1 DEF Running, Attached, Orderly
  <1>2. ASSUME Frame PROVE Attached'
    <2>1. agenda' = <<Call("update", None), Call("deferred", None)>>
      <3>1. <<Call("update", None), Call("deferred", None)>> \in Seq(Calls)
            BY DEF Call, Calls, Ops, CallbackPoints
      <3> QED  BY <1>2, <3>1, ConcatEmptySeq DEF Frame, Attached
    <2>2. Orderly(agenda') /\ ~EntryAhead'
          BY <2>1 DEF Orderly, EntryAhead, EntryOps, Call
    <2> QED  BY <1>2, <2>2 DEF Frame, Attached, ExternalIsPersistent, Persistent,
                               collectionVars, registryVars, managerVars, Orderly
  <1>3. ASSUME TakePending PROVE Attached'
    <2>1. agenda # <<>> /\ Head(agenda).op = "deferred" /\ UNCHANGED <<current, transition>>
          BY <1>3 DEF TakePending, Running
    <2>2. CASE /\ FlushAndDetach(current)
               /\ agenda' = ApplyDeferredTransition(current, pending) \o Tail(agenda)
      <3>1. NoneHeld'
            BY <2>2, FlushHoldsNothing DEF Attached
      <3>2. Orderly(agenda')
        <4>1. current \in Scenes \cup {None} /\ pending \in Scenes \cup {None}
              BY DEF TypeOK
        <4>2. /\ Orderly(ApplyDeferredTransition(current, pending))
              /\ ApplyDeferredTransition(current, pending) \in Seq(Calls)
              BY <4>1, OrderlyMethods, AgendaTypes
        <4>3. Plain(Tail(agenda)) /\ Tail(agenda) \in Seq(Calls)
              BY <1>0, <2>1, OrderlyTail, HeadTailProperties DEF Attached
        <4> QED  BY <2>2, <4>2, <4>3, OrderlyConcat
      <3> QED  BY <2>1, <3>1, <3>2 DEF Attached, NoneHeld, NoExternal,
                                       ExternalIsPersistent, Orderly
    <2>3. CASE agenda' = Tail(agenda) /\ UNCHANGED <<registryVars, external>>
          BY <2>1, <2>3, ReturnAttached DEF Attached, registryVars
    <2> QED  BY <1>3, <2>2, <2>3 DEF TakePending, Return
  <1>4. ASSUME UpdateScene \/ DeactivateScene \/ InitializeScene \/ ActivateScene
                  \/ SettleTransition
        PROVE  Attached'
    <2>1. /\ agenda # <<>> /\ agenda' = Tail(agenda)
          /\ UNCHANGED <<external, registry, current>>
          BY <1>4 DEF UpdateScene, DeactivateScene, InitializeScene, ActivateScene,
                      SettleTransition, Running, Return, collectionVars, registryVars,
                      managerVars
    <2>2. transition' = transition \/ SettleTransition
          BY <1>4 DEF UpdateScene, DeactivateScene, InitializeScene, ActivateScene,
                      managerVars
    <2>3. transition'.state = "IDLE"
          BY <2>2 DEF Attached, SettleTransition, TypeOK
    <2> QED  BY <2>1, <2>3, ReturnAttached
  <1>5. ASSUME NEW op \in {"enter", "enterFade"}, EnterScene(op) PROVE Attached'
    <2>1. /\ agenda # <<>> /\ agenda' = Tail(agenda) /\ Head(agenda).op \in EntryOps
          /\ UNCHANGED <<external, registry, transition>>
          BY <1>5 DEF EnterScene, Running, Return, EntryOps, collectionVars, registryVars
    <2>2. NoneHeld /\ Orderly(agenda') /\ ~EntryAhead'
          BY <2>1, EntryReturns DEF EntryAhead
    <2> QED  BY <2>1, <2>2 DEF Attached, NoneHeld, NoExternal, ExternalIsPersistent, Orderly
  <1>6. ASSUME NEW op \in {"enterSwitch", "reset"}, SwitchScene(op) PROVE Attached'
    <2>1. /\ agenda # <<>> /\ agenda' = Tail(agenda) /\ Head(agenda).op \in EntryOps
          /\ current' = Head(agenda).scene
          /\ InjectAll(Head(agenda).scene, Persistent)
          /\ UNCHANGED <<registry, transition>>
          BY <1>6 DEF SwitchScene, Running, Return, EntryOps, registryVars
    <2>2. NoneHeld /\ Orderly(agenda') /\ ~EntryAhead'
          BY <2>1, EntryReturns DEF EntryAhead
    <2>3. Persistent' = Persistent /\ Persistent \in SUBSET Objects
          BY <2>1 DEF Persistent
    <2>4. \A t \in Scenes, o \in Objects :
              external'[t][o] > 0 =>
                  external[t][o] > 0 \/ (t = Head(agenda).scene /\ o \in Persistent)
          BY <2>1, <2>3, InjectAttached
    <2>5. ExternalIsPersistent'
          BY <2>1, <2>2, <2>3, <2>4 DEF NoneHeld, NoExternal, ExternalIsPersistent
    <2> QED  BY <2>1, <2>2, <2>5 DEF Attached, Orderly
  <1> QED  BY <1>1, <1>2, <1>3, <1>4, <1>5, <1>6 DEF Engine, UpdateTransition, StartFadeIn

(* SwitchInv is inductive for such a host ...                              *)
LEMMA SwitchInvHolds == Switching => (Spec => []SwitchInv)
  <1>1. Init => Attached
    <2> SUFFICES ASSUME Init PROVE Attached
          OBVIOUS
    <2>1. Orderly(agenda) /\ ~EntryAhead
          BY DEF Init, Orderly, EntryAhead
    <2>2. ExternalIsPersistent
          BY DEF Init, ExternalIsPersistent, NoExternal
    <2> QED  BY <2>1, <2>2 DEF Init, Attached
  <1>2. ASSUME Switching, TypeOK, UniqueOwner, Attached, [Next]_vars PROVE Attached'
    <2>1. CASE UNCHANGED vars
          BY <1>2, <2>1 DEF Attached, EntryAhead, NoneHeld, ExternalIsPersistent,
             Persistent, Orderly, vars, collectionVars, registryVars, managerVars
    <2> QED  BY <1>2, <2>1, HostAttached, EngineAttached DEF Next
  <1>3. Switching /\ TypeOK /\ UniqueOwner /\ Attached /\ [Next]_vars => Attached'
        BY <1>2
  <1>4. Switching => []Switching
    <2>1. Switching => Switching'
          BY DEF Switching
    <2> QED  BY <2>1, PTL
  <1>5. TypeOK /\ UniqueOwner /\ Attached => SwitchInv
        BY SwitchInvParts
  <1> QED  BY <1>1, <1>3, <1>4, <1>5, TypeCorrect, ObjectsHaveOneOwner, PTL DEF Spec

(* ... and under it no collection, of any scene, ever holds a pointer to   *)
(* an object that has been destroyed: a held object is in the registry,    *)
(* and what is in the registry is alive.                                   *)
THEOREM SwitchingNeverDangles == Switching => (Spec => []NoDanglingExternal)
  <1>1. SwitchInv => NoDanglingExternal
        BY DEF SwitchInv, NoDanglingExternal, ExternalIsPersistent, UniqueOwner
  <1> QED  BY <1>1, SwitchInvHolds, PTL

-----------------------------------------------------------------------------
(* The table of scenes and the calls ahead, for a host that removes no     *)
(* scene, or that animates no transition: the scene a fade or a slide      *)
(* leads to could be removed under it.                                     *)
Steady == Removable = {} \/ ChangeTypes \subseteq {Immediate}

Ahead(calls) == {calls[k] : k \in DOMAIN calls}

(* A call returns: the others are still ahead.                             *)
LEMMA AheadTail ==
    ASSUME NEW calls \in Seq(Calls), calls # <<>>
    PROVE  /\ Ahead(calls) = {Head(calls)} \cup Ahead(Tail(calls))
           /\ Head(calls) \in Calls /\ Tail(calls) \in Seq(Calls)
  <1>1. /\ Tail(calls) \in Seq(Calls) /\ Head(calls) \in Calls
        /\ Len(Tail(calls)) = Len(calls) - 1 /\ Len(calls) \in Nat \ {0}
        /\ \A k \in 1 .. Len(Tail(calls)) : Tail(calls)[k] = calls[k + 1]
        /\ Head(calls) = calls[1]
        BY HeadTailProperties, EmptySeq
  <1>2. /\ DOMAIN calls = 1 .. Len(calls)
        /\ DOMAIN Tail(calls) = 1 .. Len(Tail(calls))
        BY <1>1, LenProperties
  <1>3. ASSUME NEW c \in Ahead(calls) PROVE c \in {Head(calls)} \cup Ahead(Tail(calls))
    <2>1. PICK k \in 1 .. Len(calls) : c = calls[k]
          BY <1>2 DEF Ahead
    <2>2. CASE k = 1
          BY <1>1, <2>1, <2>2
    <2>3. CASE k # 1
      <3>1. k - 1 \in 1 .. Len(Tail(calls)) /\ Tail(calls)[k - 1] = c
            BY <1>1, <2>1, <2>3
      <3> QED  BY <1>2, <3>1 DEF Ahead
    <2> QED  BY <2>2, <2>3
  <1>4. ASSUME NEW c \in {Head(calls)} \cup Ahead(Tail(calls)) PROVE c \in Ahead(calls)
    <2>1. 1 \in DOMAIN calls /\ \A k \in DOMAIN Tail(calls) :
              k + 1 \in DOMAIN calls /\ Tail(calls)[k] = calls[k + 1]
          BY <1>1, <1>2
    <2> QED  BY <1>1, <2>1 DEF Ahead
  <1> QED  BY <1>1, <1>3, <1>4

LEMMA AheadConcat ==
    ASSUME NEW c1 \in Seq(Calls), NEW c2 \in Seq(Calls)
    PROVE  Ahead(c1 \o c2) = Ahead(c1) \cup Ahead(c2)
  <1>1. /\ Len(c1) \in Nat /\ Len(c2) \in Nat
        /\ DOMAIN (c1 \o c2) = 1 .. Len(c1) + Len(c2)
        /\ DOMAIN c1 = 1 .. Len(c1) /\ DOMAIN c2 = 1 .. Len(c2)
        BY ConcatProperties, LenProperties
  <1>2. \A k \in 1 .. Len(c1) + Len(c2) :
            (c1 \o c2)[k] = IF k <= Len(c1) THEN c1[k] ELSE c2[k - Len(c1)]
        BY ConcatProperties
  <1>3. ASSUME NEW k \in DOMAIN (c1 \o c2) PROVE (c1 \o c2)[k] \in Ahead(c1) \cup Ahead(c2)
    <2>1. CASE k <= Len(c1)
          BY <1>1, <1>2, <2>1 DEF Ahead
    <2>2. CASE k > Len(c1)
      <3>1. k - Len(c1) \in DOMAIN c2 /\ (c1 \o c2)[k] = c2[k - Len(c1)]
            BY <1>1, <1>2, <2>2
      <3> QED  BY <3>1 DEF Ahead
    <2> QED  BY <1>1, <2>1, <2>2
  <1>4. ASSUME NEW k \in DOMAIN c1 PROVE c1[k] \in Ahead(c1 \o c2)
    <2>1. k \in DOMAIN (c1 \o c2) /\ (c1 \o c2)[k] = c1[k]
          BY <1>1, <1>2
    <2> QED  BY <2>1 DEF Ahead
  <1>5. ASSUME NEW k \in DOMAIN c2 PROVE c2[k] \in Ahead(c1 \o c2)
    <2>1. /\ k + Len(c1) \in DOMAIN (c1 \o c2)
          /\ (c1 \o c2)[k + Len(c1)] = c2[k]
          BY <1>1, <1>2
    <2> QED  BY <2>1 DEF Ahead
  <1>6. Ahead(c1 \o c2) \subseteq Ahead(c1) \cup Ahead(c2)
        BY <1>3 DEF Ahead
  <1>7. Ahead(c1) \cup Ahead(c2) \subseteq Ahead(c1 \o c2)
        BY <1>4, <1>5 DEF Ahead
  <1> QED  BY <1>6, <1>7

(* What the methods of the manager list.                                   *)
Leaving(s) == IF s = None THEN {} ELSE {Call("deactivate", s)}

LEMMA AheadMethods ==
    ASSUME NEW from \in Scenes \cup {None}, NEW to \in Scenes \cup {None}
    PROVE  /\ Ahead(CompleteTransition(from, to)) =
                Leaving(IF from = to THEN None ELSE from) \cup
                {Call("enter", to), Call("initialize", to), Call("activate", to),
                 Call("settle", to)}
           /\ Ahead(FadeHalfway(from, to)) =
                Leaving(from) \cup
                {Call("enterFade", to), Call("initialize", to), Call("activate", to),
                 Call("fadeIn", to)}
           /\ Ahead(ApplyDeferredTransition(from, to)) =
                Leaving(from) \cup
                {Call(IF from = to THEN "reset" ELSE "enterSwitch", to),
                 Call("initialize", to), Call("activate", to)}
           /\ Ahead(StartTransition(Slide, to)) =
                {Call("initialize", to), Call("activate", to)}
  <1> DEFINE complete == <<Call("enter", to), Call("initialize", to),
                           Call("activate", to), Call("settle", to)>>
             halfway  == <<Call("enterFade", to), Call("initialize", to),
                           Call("activate", to), Call("fadeIn", to)>>
             deferred == <<Call(IF from = to THEN "reset" ELSE "enterSwitch", to),
                           Call("initialize", to), Call("activate", to)>>
             left     == IF from = to THEN None ELSE from
  <1>1. Ahead(complete) = {Call("enter", to), Call("initialize", to),
                           Call("activate", to), Call("settle", to)}
        BY DEF Ahead
  <1>2. Ahead(halfway) = {Call("enterFade", to), Call("initialize", to),
                          Call("activate", to), Call("fadeIn", to)}
        BY DEF Ahead
  <1>3. Ahead(deferred) = {Call(IF from = to THEN "reset" ELSE "enterSwitch", to),
                           Call("initialize", to), Call("activate", to)}
        BY DEF Ahead
  <1>4. ASSUME NEW s \in Scenes \cup {None}
        PROVE  Ahead(Deactivate(s)) = Leaving(s) /\ Deactivate(s) \in Seq(Calls)
    <2>1. CASE s = None
          BY <2>1, EmptySeq DEF Ahead, Leaving, Deactivate
    <2>2. CASE s # None
      <3>1. \A c : Ahead(<<c>>) = {c}
            BY DEF Ahead
      <3> QED  BY <2>2, <3>1, AgendaTypes DEF Leaving, Deactivate
    <2> QED  BY <2>1, <2>2
  <1>5. \A op \in Ops : Call(op, to) \in Calls
        BY DEF Calls, Call
  <1>6. complete \in Seq(Calls) /\ halfway \in Seq(Calls) /\ deferred \in Seq(Calls)
        BY <1>5 DEF Ops, CallbackPoints
  <1>7. Ahead(StartTransition(Slide, to)) = {Call("initialize", to), Call("activate", to)}
    <2>1. \A a, b : Ahead(<<a, b>>) = {a, b}
          BY DEF Ahead
    <2> QED  BY <2>1 DEF StartTransition
  <1>8. left \in Scenes \cup {None}
        OBVIOUS
  <1>9. /\ CompleteTransition(from, to) = Deactivate(left) \o complete
        /\ FadeHalfway(from, to) = Deactivate(from) \o halfway
        /\ ApplyDeferredTransition(from, to) = Deactivate(from) \o deferred
        BY DEF CompleteTransition, FadeHalfway, ApplyDeferredTransition
  <1> HIDE DEF complete, halfway, deferred, left
  <1>10. /\ Ahead(CompleteTransition(from, to)) = Leaving(left) \cup Ahead(complete)
         /\ Ahead(FadeHalfway(from, to)) = Leaving(from) \cup Ahead(halfway)
         /\ Ahead(ApplyDeferredTransition(from, to)) = Leaving(from) \cup Ahead(deferred)
         BY <1>4, <1>6, <1>8, <1>9, AheadConcat
  <1> QED  BY <1>1, <1>2, <1>3, <1>7, <1>10 DEF left

(* A method that enters a scene enters the one it was called for, and      *)
(* lists none of the calls of a frame.                                     *)
FrameOps == {"transition", "update", "deferred"}

LEMMA MethodCalls ==
    ASSUME NEW from \in Scenes \cup {None}, NEW to \in Scenes \cup {None},
           NEW calls \in {CompleteTransition(from, to), FadeHalfway(from, to),
                          ApplyDeferredTransition(from, to), StartTransition(Slide, to)},
           NEW c \in Ahead(calls)
    PROVE  /\ c.op \in EntryOps => c.scene = to
           /\ c.op \notin FrameOps
           /\ calls \in {CompleteTransition(from, to), ApplyDeferredTransition(from, to),
                         StartTransition(Slide, to)} => c.op # "fadeIn"
  <1> DEFINE others == {CompleteTransition(from, to), ApplyDeferredTransition(from, to),
                        StartTransition(Slide, to)}
  <1>1. \A op, s : Call(op, s).op = op /\ Call(op, s).scene = s
        BY DEF Call
  <1>2. \A s : \A d \in Leaving(s) : d.op = "deactivate"
        BY <1>1 DEF Leaving
  <1>3. ASSUME calls = FadeHalfway(from, to)
        PROVE  (c.op \in EntryOps => c.scene = to) /\ c.op \notin FrameOps
    <2>1. c.op = "deactivate" \/
          c \in {Call("enterFade", to), Call("initialize", to), Call("activate", to),
                 Call("fadeIn", to)}
          BY <1>2, <1>3, AheadMethods
    <2> QED  BY <1>1, <1>3, <2>1 DEF EntryOps, FrameOps
  <1>4. ASSUME calls \in others
        PROVE  (c.op \in EntryOps => c.scene = to) /\ c.op \notin FrameOps /\ c.op # "fadeIn"
    <2>1. c.op = "deactivate" \/
          c \in {Call("enter", to), Call("reset", to), Call("enterSwitch", to),
                 Call("initialize", to), Call("activate", to), Call("settle", to)}
          BY <1>2, <1>4, AheadMethods
    <2> QED  BY <1>1, <1>4, <2>1 DEF EntryOps, FrameOps
  <1>5. calls = FadeHalfway(from, to) \/ calls \in others
        OBVIOUS
  <1> HIDE DEF others
  <1>6. (c.op \in EntryOps => c.scene = to) /\ c.op \notin FrameOps
        BY <1>3, <1>4, <1>5
  <1>7. calls \in others => c.op # "fadeIn"
        BY <1>4
  <1> QED  BY <1>6, <1>7 DEF others

(* What a running transition lists next.                                   *)
LEMMA TransitionCalls ==
    ASSUME TypeOK, NEW dt \in 1 .. MaxDt, UpdateTransition(dt)
    PROVE  \E calls \in Seq(Calls) :
              /\ agenda' = calls \o Tail(agenda)
              /\ \/ calls = CompleteTransition(current, next)
                 \/ calls = FadeHalfway(current, next) /\ transition.state = "FADING_OUT"
                 \/ calls = <<>>
  <1> DEFINE elapsed == transition.timer + dt
             halfway == /\ transition.type = Fade
                        /\ transition.state = "FADING_OUT"
                        /\ 2 * elapsed >= Duration
  <1>1. agenda' = (CASE elapsed >= Duration -> CompleteTransition(current, next)
                     [] elapsed < Duration /\ halfway -> FadeHalfway(current, next)
                     [] OTHER -> <<>>) \o Tail(agenda)
        BY DEF UpdateTransition
  <1>2. ~(elapsed >= Duration /\ elapsed < Duration)
        BY BoundsAssumption DEF TypeOK
  <1>3. halfway => transition.state = "FADING_OUT"
        OBVIOUS
  <1>4. /\ CompleteTransition(current, next) \in Seq(Calls)
        /\ FadeHalfway(current, next) \in Seq(Calls)
        /\ <<>> \in Seq(Calls)
        BY AgendaTypes, EmptySeq DEF TypeOK
  <1> HIDE DEF elapsed, halfway
  <1>5. CASE elapsed >= Duration
        BY <1>1, <1>2, <1>4, <1>5
  <1>6. CASE elapsed < Duration /\ halfway
        BY <1>1, <1>2, <1>3, <1>4, <1>6
  <1>7. CASE ~(elapsed >= Duration) /\ ~(elapsed < Duration /\ halfway)
        BY <1>1, <1>4, <1>7
  <1> QED  BY <1>5, <1>6, <1>7

(* Every scene is in the table once; the current one, the one about to be  *)
(* entered and the one a transition leads to are registered.               *)
EntriesRegistered ==
    \A c \in Ahead(agenda) : c.op \in EntryOps /\ c.scene # None => Registered(c.scene)

TableSound ==
    /\ \A a, b \in SceneSlots : slots[a] = slots[b] /\ slots[a] # None => a = b
    /\ current # None => Registered(current)
    /\ EntriesRegistered
    /\ Removable = {} => next = None \/ Registered(next)
    /\ ChangeTypes \subseteq {Immediate} =>
           /\ transition.state = "IDLE"
           /\ \A c \in Ahead(agenda) : c.op \notin {"transition", "fadeIn"}

(* The host may move the scenes of the table between two frames only.      *)
LEMMA AddKeepsTable ==
    ASSUME TypeOK, TableSound, NEW s \in Scenes, AddScene(s)
    PROVE  TableSound'
  <1> DEFINE n == sceneCount + 1
  <1>1. /\ n \in SceneSlots /\ sceneCount \in Nat
        /\ slots' = [slots EXCEPT ![n] = s] /\ sceneCount' = n
        /\ \A a \in SceneSlots : a # n => slots[a] # s
        /\ UNCHANGED <<managerVars, agenda>>
        BY BoundsAssumption DEF AddScene, TypeOK, SceneSlots
  <1>2. \A a \in SceneSlots : slots'[a] = IF a = n THEN s ELSE slots[a]
        BY <1>1 DEF TypeOK
  <1>3. \A t : Registered(t) => Registered(t)'
    <2> SUFFICES ASSUME NEW t, Registered(t) PROVE Registered(t)'
          OBVIOUS
    <2>1. PICK a \in 1 .. sceneCount : slots[a] = t
          BY DEF Registered
    <2>2. a \in 1 .. n /\ a \in SceneSlots /\ a # n
          BY <1>1, BoundsAssumption DEF SceneSlots
    <2> QED  BY <1>1, <1>2, <2>1, <2>2 DEF Registered
  <1>4. \A a, b \in SceneSlots : slots'[a] = slots'[b] /\ slots'[a] # None => a = b
        BY <1>1, <1>2 DEF TableSound
  <1> QED  BY <1>1, <1>3, <1>4 DEF TableSound, EntriesRegistered, managerVars

LEMMA RemoveKeepsTable ==
    ASSUME Steady, TypeOK, TableSound, NEW s \in Scenes, RemoveScene(s)
    PROVE  /\ TableSound'
           /\ \A t \in Scenes : Registered(t) /\ t # s => Registered(t)'
  <1>1. PICK i \in 1 .. sceneCount :
            /\ slots[i] = s
            /\ slots' = [k \in SceneSlots |->
                            IF k \in i .. (sceneCount - 1) THEN slots[k + 1]
                            ELSE IF k = sceneCount /\ i < sceneCount THEN None
                            ELSE slots[k]]
        BY DEF RemoveScene
  <1>2. /\ agenda = <<>> /\ s # current /\ Removable # {}
        /\ sceneCount' = sceneCount - 1
        /\ UNCHANGED <<managerVars, agenda>>
        BY DEF RemoveScene
  <1>3. sceneCount \in 1 .. MaxScenes /\ MaxScenes \in Nat
        BY <1>1, BoundsAssumption DEF TypeOK
  <1>4. \A a, b \in SceneSlots : slots'[a] = slots'[b] /\ slots'[a] # None => a = b
    <2> SUFFICES ASSUME NEW a \in SceneSlots, NEW b \in SceneSlots,
                        slots'[a] = slots'[b], slots'[a] # None
                 PROVE  a = b
          OBVIOUS
    <2> DEFINE from(k) == IF k \in i .. (sceneCount - 1) THEN k + 1 ELSE k
    <2>1. \A k \in SceneSlots : from(k) \in SceneSlots
          BY <1>3 DEF SceneSlots
    <2>2. \A k \in SceneSlots : slots'[k] # None =>
              slots'[k] = slots[from(k)] /\ ~(k = sceneCount /\ i < sceneCount)
          BY <1>1
    <2>3. from(a) = from(b)
          BY <2>1, <2>2 DEF TableSound
    <2> QED  BY <1>3, <2>2, <2>3 DEF SceneSlots
  <1>5. \A t \in Scenes : Registered(t) /\ t # s => Registered(t)'
    <2> SUFFICES ASSUME NEW t \in Scenes, Registered(t), t # s PROVE Registered(t)'
          OBVIOUS
    <2>1. PICK a \in 1 .. sceneCount : slots[a] = t
          BY DEF Registered
    <2>2. a # i
          BY <1>1, <2>1
    <2>3. CASE a < i
      <3>1. a \in 1 .. sceneCount' /\ a \in SceneSlots /\ slots'[a] = t
            BY <1>1, <1>2, <1>3, <2>1, <2>3 DEF SceneSlots
      <3> QED  BY <3>1 DEF Registered
    <2>4. CASE a > i
      <3>1. a - 1 \in 1 .. sceneCount' /\ a - 1 \in SceneSlots
            BY <1>1, <1>2, <1>3, <2>1, <2>4 DEF SceneSlots
      <3>2. a - 1 \in i .. (sceneCount - 1) /\ (a - 1) + 1 = a
            BY <1>3, <2>1, <2>4
      <3>3. slots'[a - 1] = t
            BY <1>1, <2>1, <3>1, <3>2
      <3> QED  BY <3>1, <3>3 DEF Registered
    <2> QED  BY <1>3, <2>2, <2>3, <2>4
  <1>6. Ahead(agenda) = {}
        BY <1>2 DEF Ahead
  <1>7. current # None => Registered(current)'
        BY <1>2, <1>5 DEF TableSound, TypeOK, managerVars
  <1> QED  BY <1>2, <1>4, <1>5, <1>6, <1>7 DEF TableSound, EntriesRegistered, managerVars, Steady

LEMMA TableNext ==
    ASSUME Steady, TypeOK, TableSound, [Next]_vars
    PROVE  TableSound'
  <1>0. /\ agenda \in Seq(Calls) /\ current \in Scenes \cup {None}
        /\ next \in Scenes \cup {None} /\ pending \in Scenes \cup {None}
        BY DEF TypeOK
  <1>1. ASSUME UNCHANGED tableVars PROVE \A t : Registered(t)' <=> Registered(t)
        BY <1>1 DEF Registered, tableVars
  <1>2. ASSUME UNCHANGED <<tableVars, current, next, transition>>,
               \A c \in Ahead(agenda') :
                   /\ c \in Ahead(agenda) \/ c.op \notin EntryOps \/ Registered(c.scene)
                   /\ c \in Ahead(agenda) \/ c.op \notin {"transition", "fadeIn"}
        PROVE  TableSound'
        BY <1>1, <1>2 DEF TableSound, EntriesRegistered, tableVars
  <1>3. ASSUME NEW s \in Scenes, AddScene(s) \/ RemoveScene(s) PROVE TableSound'
        BY <1>3, AddKeepsTable, RemoveKeepsTable
  <1>4. ASSUME NEW s \in Scenes, NEW type \in TransitionTypes, ChangeScene(s, type)
        PROVE  TableSound'
    <2>1. /\ UNCHANGED <<tableVars, current>> /\ next' = s /\ Registered(s)
          /\ type \in ChangeTypes \/ type = Immediate
          /\ transition'.state = CASE type = Immediate -> "IDLE"
                                   [] type = Fade      -> "FADING_OUT"
                                   [] type = Slide     -> "SLIDING"
          BY <1>4 DEF ChangeScene, Begun
    <2>2. \A c \in Ahead(agenda') :
              /\ c.op \in EntryOps => c.scene = s
              /\ c.op \notin {"transition", "fadeIn"}
      <3>1. CASE type = Immediate
        <4>1. agenda' = CompleteTransition(current, s)
              BY <1>4, <3>1 DEF ChangeScene
        <4> QED  BY <1>0, <4>1, MethodCalls DEF FrameOps
      <3>2. CASE type = Slide
        <4>1. agenda' = StartTransition(Slide, s)
              BY <1>4, <3>2 DEF ChangeScene, Immediate, Slide
        <4>2. \A c \in Ahead(agenda') : c \in {Call("initialize", s), Call("activate", s)}
              BY <1>0, <4>1, AheadMethods
        <4> QED  BY <4>2 DEF Call, EntryOps
      <3>3. CASE type = Fade
            BY <1>4, <3>3 DEF ChangeScene, StartTransition, Immediate, Slide, Fade, Ahead
      <3> QED  BY <3>1, <3>2, <3>3 DEF TransitionTypes
    <2>3. ChangeTypes \subseteq {Immediate} => transition'.state = "IDLE"
          BY <2>1 DEF Immediate, Fade, Slide
    <2> QED  BY <1>1, <2>1, <2>2, <2>3 DEF TableSound, EntriesRegistered, tableVars
  <1>5. ASSUME Frame PROVE TableSound'
    <2>1. \A c \in Ahead(agenda') : c.op \notin EntryOps /\ c.op # "fadeIn"
                /\ (c.op = "transition" => transition.state # "IDLE")
      <3>1. CASE transition.state = "IDLE"
        <4>1. agenda' = <<>> \o <<Call("update", None), Call("deferred", None)>>
              BY <1>5, <3>1 DEF Frame
        <4>2. <<Call("update", None), Call("deferred", None)>> \in Seq(Calls)
              BY DEF Call, Calls, Ops, CallbackPoints
        <4>3. agenda' = <<Call("update", None), Call("deferred", None)>>
              BY <4>1, <4>2, ConcatEmptySeq
        <4> QED  BY <4>3 DEF Ahead, Call, EntryOps
      <3>2. CASE transition.state # "IDLE"
            BY <1>5, <3>2 DEF Frame, Ahead, Call, EntryOps
      <3> QED  BY <3>1, <3>2
    <2> QED  BY <1>1, <1>5, <2>1
             DEF TableSound, EntriesRegistered, Frame, tableVars, managerVars
  <1>6. ASSUME NEW dt \in 1 .. MaxDt, UpdateTransition(dt) PROVE TableSound'
    <2>1. /\ agenda # <<>> /\ Head(agenda).op = "transition"
          /\ UNCHANGED <<tableVars, current, next>>
          BY <1>6 DEF UpdateTransition, Running
    <2>2. /\ Ahead(agenda) = {Head(agenda)} \cup Ahead(Tail(agenda))
          /\ Tail(agenda) \in Seq(Calls)
          BY <1>0, <2>1, AheadTail
    <2>3. Removable = {} /\ ~(ChangeTypes \subseteq {Immediate})
          BY <2>1, <2>2 DEF TableSound, Steady
    <2>4. PICK calls \in Seq(Calls) :
              /\ agenda' = calls \o Tail(agenda)
              /\ \/ calls = CompleteTransition(current, next)
                 \/ calls = FadeHalfway(current, next)
                 \/ calls = <<>>
          BY <1>6, TransitionCalls
    <2>5. Ahead(agenda') = Ahead(calls) \cup Ahead(Tail(agenda))
          BY <2>2, <2>4, AheadConcat
    <2>6. \A c \in Ahead(calls) : c.op \in EntryOps => c.scene = next
      <3>1. Ahead(<<>>) = {}
            BY DEF Ahead
      <3>2. CASE calls = <<>>
            BY <3>1, <3>2
      <3>3. CASE calls # <<>>
        <4>1. calls \in {CompleteTransition(current, next), FadeHalfway(current, next),
                         ApplyDeferredTransition(current, next), StartTransition(Slide, next)}
              BY <2>4, <3>3
        <4> QED  BY <1>0, <4>1, MethodCalls
      <3> QED  BY <3>2, <3>3
    <2>7. EntriesRegistered'
          BY <1>1, <2>1, <2>2, <2>3, <2>5, <2>6 DEF TableSound, EntriesRegistered
    <2> QED  BY <1>1, <2>1, <2>3, <2>7 DEF TableSound, tableVars
  <1>7. ASSUME TakePending PROVE TableSound'
    <2>1. /\ agenda # <<>> /\ UNCHANGED <<tableVars, current, next, transition>>
          BY <1>7 DEF TakePending, Running
    <2>2. /\ Ahead(agenda) = {Head(agenda)} \cup Ahead(Tail(agenda))
          /\ Tail(agenda) \in Seq(Calls)
          BY <1>0, <2>1, AheadTail
    <2>3. CASE /\ pending # None /\ Registered(pending)
               /\ agenda' = ApplyDeferredTransition(current, pending) \o Tail(agenda)
      <3>1. Ahead(agenda') = Ahead(ApplyDeferredTransition(current, pending))
                                \cup Ahead(Tail(agenda))
            BY <1>0, <2>2, <2>3, AgendaTypes, AheadConcat
      <3>2. \A c \in Ahead(ApplyDeferredTransition(current, pending)) :
                /\ c.op \in EntryOps => c.scene = pending
                /\ c.op \notin {"transition", "fadeIn"}
            BY <1>0, MethodCalls DEF FrameOps
      <3> QED  BY <1>2, <2>1, <2>2, <2>3, <3>1, <3>2
    <2>4. CASE agenda' = Tail(agenda)
          BY <1>2, <2>1, <2>2, <2>4
    <2> QED  BY <1>7, <2>3, <2>4 DEF TakePending, Return
  <1>8. ASSUME UpdateScene \/ DeactivateScene \/ InitializeScene \/ ActivateScene
        PROVE  TableSound'
    <2>1. agenda # <<>> /\ agenda' = Tail(agenda)
          /\ UNCHANGED <<tableVars, current, next, transition>>
          BY <1>8 DEF UpdateScene, DeactivateScene, InitializeScene, ActivateScene,
                      Running, Return, managerVars
    <2> QED  BY <1>0, <1>2, <2>1, AheadTail
  <1>9. ASSUME \/ \E op \in {"enter", "enterFade"} : EnterScene(op)
               \/ \E op \in {"enterSwitch", "reset"} : SwitchScene(op)
        PROVE  TableSound'
    <2>1. /\ agenda # <<>> /\ agenda' = Tail(agenda) /\ Head(agenda).op \in EntryOps
          /\ current' = Head(agenda).scene
          /\ UNCHANGED <<tableVars, next, transition>>
          BY <1>9 DEF EnterScene, SwitchScene, Running, Return, EntryOps
    <2>2. Ahead(agenda) = {Head(agenda)} \cup Ahead(agenda')
          BY <1>0, <2>1, AheadTail
    <2>3. current' # None => Registered(current')
          BY <2>1, <2>2 DEF TableSound, EntriesRegistered
    <2> QED  BY <1>1, <2>1, <2>2, <2>3 DEF TableSound, EntriesRegistered, tableVars
  <1>10. ASSUME SettleTransition \/ StartFadeIn PROVE TableSound'
    <2>1. /\ agenda # <<>> /\ agenda' = Tail(agenda)
          /\ UNCHANGED <<tableVars, current>> /\ next' \in {next, None}
          BY <1>10 DEF SettleTransition, StartFadeIn, Running, Return
    <2>2. Ahead(agenda') \subseteq Ahead(agenda)
          BY <1>0, <2>1, AheadTail
    <2>3. ChangeTypes \subseteq {Immediate} => transition'.state = "IDLE"
      <3>1. Ahead(agenda) = {Head(agenda)} \cup Ahead(Tail(agenda))
            BY <1>0, <2>1, AheadTail
      <3>2. CASE SettleTransition
            BY <3>2 DEF SettleTransition, TypeOK
      <3>3. CASE StartFadeIn
            BY <3>1, <3>3 DEF TableSound, StartFadeIn, Running
      <3> QED  BY <1>10, <3>2, <3>3
    <2> QED  BY <1>1, <2>1, <2>2, <2>3 DEF TableSound, EntriesRegistered, tableVars
  <1>11. CASE UNCHANGED vars
         BY <1>2, <1>11 DEF vars, managerVars
  <1>12. ASSUME UNCHANGED <<tableVars, current, next, transition, agenda>> PROVE TableSound'
         BY <1>2, <1>12
  <1>13. CASE Host
    <2>1. /\ \A s \in Scenes : SwitchTo(s)
                 => UNCHANGED <<tableVars, current, next, transition, agenda>>
          /\ \A o \in Objects, s \in Scenes : AddObject(o, s)
                 => UNCHANGED <<tableVars, current, next, transition, agenda>>
          /\ \A o \in Objects : RemoveObject(o) \/ PersistObject(o) \/ UnpersistObject(o)
                 => UNCHANGED <<tableVars, current, next, transition, agenda>>
          BY DEF SwitchTo, AddObject, RemoveObject, PersistObject, UnpersistObject, managerVars
    <2> QED  BY <1>3, <1>4, <1>12, <1>13, <2>1 DEF Host
  <1> QED  BY <1>5, <1>6, <1>7, <1>8, <1>9, <1>10, <1>11, <1>13 DEF Next, Engine

LEMMA TableHolds == Steady => (Spec => []TableSound)
  <1>1. Init => TableSound
    <2> SUFFICES ASSUME Init PROVE TableSound
          OBVIOUS
    <2>1. Ahead(agenda) = {}
          BY DEF Init, Ahead
    <2> QED  BY <2>1 DEF Init, TableSound, EntriesRegistered
  <1>2. Steady /\ TypeOK /\ TableSound /\ [Next]_vars => TableSound'
        BY TableNext
  <1>3. Steady => []Steady
    <2>1. Steady => Steady'
          BY DEF Steady
    <2> QED  BY <2>1, PTL
  <1> QED  BY <1>1, <1>2, <1>3, TypeCorrect, PTL DEF Spec

-----------------------------------------------------------------------------
(* What a transition says of itself while calls are ahead: its end has     *)
(* been reached once "settle" is, and the middle of a fade once "fadeIn"   *)
(* is, for whatever host.                                                  *)
Lists(op) == \E c \in Ahead(agenda) : c.op = op

TimeOps == {"transition", "settle", "fadeIn"}

BeginsFrame ==
    agenda = <<Call("transition", None), Call("update", None), Call("deferred", None)>>

TimeSound ==
    /\ transition.timer < Duration + MaxDt
    /\ transition.state # "IDLE" =>
           /\ next # None
           /\ transition.type = IF transition.state = "SLIDING" THEN Slide ELSE Fade
           /\ Lists("settle") \/ transition.timer < Duration
    /\ transition.state = "FADING_OUT" =>
           Lists("settle") \/ Lists("fadeIn") \/ 2 * transition.timer < Duration
    /\ transition.state = "FADING_IN" => 2 * transition.timer >= Duration
    /\ Lists("fadeIn") =>
           /\ transition.state \in {"FADING_OUT", "FADING_IN"}
           /\ 2 * transition.timer >= Duration
           /\ ~Lists("settle")
    /\ Lists("transition") => BeginsFrame /\ transition.state # "IDLE"

LEMMA ThreeCalls ==
    ASSUME NEW a \in Calls, NEW b \in Calls, NEW c \in Calls
    PROVE  <<a>> \o <<b, c>> = <<a, b, c>>
  <1>1. <<a>> \in Seq(Calls) /\ <<b, c>> \in Seq(Calls) /\ <<a, b, c>> \in Seq(Calls)
        OBVIOUS
  <1>2. /\ Len(<<a>> \o <<b, c>>) = 3 /\ <<a>> \o <<b, c>> \in Seq(Calls)
        /\ \A i \in 1 .. 3 : (<<a>> \o <<b, c>>)[i] = IF i <= 1 THEN <<a>>[i]
                                                      ELSE <<b, c>>[i - 1]
        BY <1>1, ConcatProperties
  <1>3. \A i \in 1 .. 3 : (<<a>> \o <<b, c>>)[i] = <<a, b, c>>[i]
        BY <1>2
  <1> QED  BY <1>1, <1>2, <1>3, SeqEqual

(* A step between the calls that keep the time: what it lists anew are     *)
(* other calls.                                                            *)
LEMMA TimeUndisturbed ==
    ASSUME TypeOK, TimeSound, agenda # <<>>, Head(agenda).op \notin TimeOps,
           UNCHANGED <<next, transition>>,
           Ahead(Tail(agenda)) \subseteq Ahead(agenda'),
           \A c \in Ahead(agenda') : c \in Ahead(Tail(agenda)) \/ c.op \notin TimeOps
    PROVE  TimeSound'
  <1>1. Ahead(agenda) = {Head(agenda)} \cup Ahead(Tail(agenda))
        BY AheadTail DEF TypeOK
  <1>2. \A op \in TimeOps : Lists(op)' <=> Lists(op)
        BY <1>1 DEF Lists
  <1>3. (Lists("settle")' <=> Lists("settle")) /\ (Lists("fadeIn")' <=> Lists("fadeIn"))
        BY <1>2 DEF TimeOps
  <1>4. ~Lists("transition")'
    <2>1. Lists("transition") => Head(agenda).op = "transition"
          BY DEF TimeSound, BeginsFrame, Call
    <2> QED  BY <1>2, <2>1 DEF TimeOps
  <1> QED  BY <1>3, <1>4 DEF TimeSound

(* A method that lists its calls begins; between two frames nothing else   *)
(* is ahead.                                                               *)
LEMMA ChangeKeepsTime ==
    ASSUME TypeOK, TimeSound, NEW s \in Scenes, NEW type \in TransitionTypes,
           ChangeScene(s, type)
    PROVE  TimeSound'
  <1>1. /\ next' = s /\ s # None /\ transition' = Begun(type)
        BY NoneAssumption DEF ChangeScene
  <1>2. current \in Scenes \cup {None}
        BY DEF TypeOK
  <1>3. CASE type = Immediate
    <2>1. transition'.state = "IDLE" /\ transition'.timer = 0
          BY <1>1, <1>3 DEF Begun, Immediate, Fade, Slide
    <2>2. agenda' = CompleteTransition(current, s)
          BY <1>3 DEF ChangeScene
    <2>3. ~Lists("fadeIn")' /\ ~Lists("transition")'
          BY <1>2, <2>2, MethodCalls DEF Lists, FrameOps
    <2> QED  BY <2>1, <2>3, BoundsAssumption DEF TimeSound
  <1>4. CASE type = Fade
    <2>1. transition' = [state |-> "FADING_OUT", type |-> Fade, timer |-> 0]
          BY <1>1, <1>4 DEF Begun, Immediate, Fade, Slide
    <2>2. Ahead(agenda') = {}
          BY <1>4 DEF ChangeScene, StartTransition, Immediate, Slide, Fade, Ahead
    <2>3. \A op : ~Lists(op)'
          BY <2>2 DEF Lists
    <2> QED  BY <1>1, <2>1, <2>3, BoundsAssumption DEF TimeSound
  <1>5. CASE type = Slide
    <2>1. transition' = [state |-> "SLIDING", type |-> Slide, timer |-> 0]
          BY <1>1, <1>5 DEF Begun, Immediate, Fade, Slide
    <2>2. agenda' = StartTransition(Slide, s)
          BY <1>5 DEF ChangeScene, Immediate, Slide
    <2>3. ~Lists("fadeIn")' /\ ~Lists("transition")'
          BY <1>2, <2>2, MethodCalls DEF Lists, FrameOps
    <2> QED  BY <1>1, <2>1, <2>3, BoundsAssumption DEF TimeSound
  <1> QED  BY <1>3, <1>4, <1>5 DEF TransitionTypes

(* The timer runs on, and the middle and the end are seen as it passes.    *)
LEMMA UpdateKeepsTime ==
    ASSUME TypeOK, TimeSound, NEW dt \in 1 .. MaxDt, UpdateTransition(dt)
    PROVE  TimeSound'
  <1> DEFINE elapsed == transition.timer + dt
  <1>1. /\ agenda \in Seq(Calls) /\ agenda # <<>> /\ Head(agenda).op = "transition"
        /\ transition'.state = transition.state /\ transition'.type = transition.type
        /\ transition'.timer = elapsed
        /\ next' = next /\ current \in Scenes \cup {None} /\ next \in Scenes \cup {None}
        BY DEF UpdateTransition, Running, TypeOK
  <1>2. Lists("transition")
        BY <1>1, AheadTail DEF Lists
  <1>3. /\ BeginsFrame /\ transition.state # "IDLE"
        BY <1>2 DEF TimeSound
  <1>4. /\ Tail(agenda) = <<Call("update", None), Call("deferred", None)>>
        /\ Ahead(agenda) = {Call("transition", None), Call("update", None),
                            Call("deferred", None)}
        BY <1>3 DEF BeginsFrame, Ahead
  <1>5. ~Lists("settle") /\ ~Lists("fadeIn")
        BY <1>4 DEF Lists, Call
  <1>6. /\ transition.timer \in Nat /\ transition.timer < Duration
        /\ elapsed \in Nat /\ elapsed < Duration + MaxDt
        /\ transition.timer <= elapsed
    <2>1. transition.timer \in Nat /\ transition.timer < Duration
          BY <1>3, <1>5 DEF TimeSound, TypeOK
    <2> QED  BY <2>1, BoundsAssumption
  <1>7. /\ Tail(agenda) \in Seq(Calls)
        /\ Ahead(Tail(agenda)) = {Call("update", None), Call("deferred", None)}
    <2>1. \A a, b : Ahead(<<a, b>>) = {a, b}
          BY DEF Ahead
    <2> QED  BY <1>1, <1>4, <2>1, AheadTail
  <1>8. ASSUME NEW calls \in Seq(Calls), agenda' = calls \o Tail(agenda)
        PROVE  \A op \in TimeOps : Lists(op)' <=> \E c \in Ahead(calls) : c.op = op
    <2>1. Ahead(agenda') = Ahead(calls) \cup Ahead(Tail(agenda))
          BY <1>7, <1>8, AheadConcat
    <2> QED  BY <1>7, <2>1 DEF Lists, TimeOps, Call
  <1>9. \A op, s : Call(op, s).op = op
        BY DEF Call
  <1> DEFINE halfway == /\ transition.type = Fade
                        /\ transition.state = "FADING_OUT"
                        /\ 2 * elapsed >= Duration
  <1>0. agenda' = (CASE elapsed >= Duration -> CompleteTransition(current, next)
                     [] elapsed < Duration /\ halfway -> FadeHalfway(current, next)
                     [] OTHER -> <<>>) \o Tail(agenda)
        BY DEF UpdateTransition
  <1>14. ~(elapsed >= Duration /\ elapsed < Duration)
        BY <1>6, BoundsAssumption
  <1>10. \A s : \A c \in Leaving(s) : c.op = "deactivate"
         BY <1>9 DEF Leaving
  <1>11. CASE elapsed >= Duration
    <2>1. agenda' = CompleteTransition(current, next) \o Tail(agenda)
      <3> HIDE DEF elapsed, halfway
      <3> QED  BY <1>0, <1>11, <1>14
    <2>2. CompleteTransition(current, next) \in Seq(Calls)
          BY <1>1, AgendaTypes
    <2>3. \A op \in TimeOps :
              Lists(op)' <=> \E c \in Ahead(CompleteTransition(current, next)) : c.op = op
          BY <1>8, <2>1, <2>2
    <2>4. Lists("settle")' /\ ~Lists("fadeIn")' /\ ~Lists("transition")'
      <3>1. Call("settle", next) \in Ahead(CompleteTransition(current, next))
            BY <1>1, AheadMethods
      <3>2. \A c \in Ahead(CompleteTransition(current, next)) : c.op \notin {"fadeIn", "transition"}
            BY <1>1, MethodCalls DEF FrameOps
      <3> QED  BY <1>9, <2>3, <3>1, <3>2 DEF TimeOps
    <2>5. transition.state = "FADING_IN" => 2 * elapsed >= Duration
          BY <1>6, <1>11, BoundsAssumption
    <2> HIDE DEF elapsed
    <2> QED  BY <1>1, <1>3, <1>6, <2>4, <2>5 DEF TimeSound
  <1>12. CASE elapsed < Duration /\ transition.state = "FADING_OUT" /\ 2 * elapsed >= Duration
    <2>1. transition.type = Fade
          BY <1>12 DEF TimeSound
    <2>2. agenda' = FadeHalfway(current, next) \o Tail(agenda)
      <3>1. halfway /\ ~(elapsed >= Duration)
            BY <1>12, <1>14, <2>1
      <3> HIDE DEF elapsed, halfway
      <3> QED  BY <1>0, <1>12, <3>1
    <2>3. FadeHalfway(current, next) \in Seq(Calls)
          BY <1>1, AgendaTypes
    <2>4. \A op \in TimeOps :
              Lists(op)' <=> \E c \in Ahead(FadeHalfway(current, next)) : c.op = op
          BY <1>8, <2>2, <2>3
    <2>5. Lists("fadeIn")' /\ ~Lists("settle")' /\ ~Lists("transition")'
      <3>1. Ahead(FadeHalfway(current, next)) = Leaving(current) \cup
                {Call("enterFade", next), Call("initialize", next),
                 Call("activate", next), Call("fadeIn", next)}
            BY <1>1, AheadMethods
      <3> QED  BY <1>9, <1>10, <2>4, <3>1 DEF TimeOps
    <2> HIDE DEF elapsed
    <2> QED  BY <1>1, <1>3, <1>6, <1>12, <2>5 DEF TimeSound
  <1>13. CASE elapsed < Duration /\ ~(transition.state = "FADING_OUT" /\ 2 * elapsed >= Duration)
    <2>1. agenda' = <<>> \o Tail(agenda)
      <3>1. ~halfway /\ ~(elapsed >= Duration)
            BY <1>13, <1>14
      <3> HIDE DEF elapsed, halfway
      <3> QED  BY <1>0, <3>1
    <2>2. Ahead(<<>>) = {} /\ <<>> \in Seq(Calls)
          BY EmptySeq DEF Ahead
    <2>3. \A op \in TimeOps : ~Lists(op)'
          BY <1>8, <2>1, <2>2
    <2>4. ~Lists("settle")' /\ ~Lists("fadeIn")' /\ ~Lists("transition")'
          BY <2>3 DEF TimeOps
    <2>5. /\ transition.state = "FADING_OUT" => 2 * elapsed < Duration
          /\ transition.state = "FADING_IN" => 2 * elapsed >= Duration
      <3>1. transition.state = "FADING_IN" => 2 * transition.timer >= Duration
            BY DEF TimeSound
      <3> QED  BY <1>6, <1>13, <3>1, BoundsAssumption
    <2> HIDE DEF elapsed
    <2> QED  BY <1>1, <1>3, <1>6, <1>13, <2>4, <2>5 DEF TimeSound
  <1> QED  BY <1>6, <1>11, <1>12, <1>13, BoundsAssumption

LEMMA TimeNext == TypeOK /\ TimeSound /\ [Next]_vars => TimeSound'
  <1> SUFFICES ASSUME TypeOK, TimeSound, [Next]_vars PROVE TimeSound'
      OBVIOUS
  <1>0. /\ agenda \in Seq(Calls) /\ current \in Scenes \cup {None}
        /\ pending \in Scenes \cup {None}
        BY DEF TypeOK
  <1>1. ASSUME UNCHANGED <<next, transition, agenda>> PROVE TimeSound'
        BY <1>1 DEF TimeSound, Lists, BeginsFrame
  <1>2. ASSUME agenda # <<>>, agenda' = Tail(agenda), Head(agenda).op \notin TimeOps,
               UNCHANGED <<next, transition>>
        PROVE  TimeSound'
        BY <1>2, TimeUndisturbed
  <1>3. ASSUME Frame PROVE TimeSound'
    <2>1. /\ agenda = <<>> /\ UNCHANGED <<next, transition>>
          BY <1>3 DEF Frame, managerVars
    <2>2. ~Lists("settle") /\ ~Lists("fadeIn")
          BY <2>1 DEF Lists, Ahead
    <2>3. CASE transition.state = "IDLE"
      <3>1. agenda' = <<>> \o <<Call("update", None), Call("deferred", None)>>
            BY <1>3, <2>3 DEF Frame
      <3>2. <<Call("update", None), Call("deferred", None)>> \in Seq(Calls)
            BY DEF Call, Calls, Ops, CallbackPoints
      <3>3. agenda' = <<Call("update", None), Call("deferred", None)>>
            BY <3>1, <3>2, ConcatEmptySeq
      <3>4. \A c \in Ahead(agenda') : c.op \in {"update", "deferred"}
            BY <3>3 DEF Ahead, Call
      <3>5. ~Lists("settle")' /\ ~Lists("fadeIn")' /\ ~Lists("transition")'
            BY <3>4 DEF Lists
      <3> QED  BY <2>1, <2>2, <3>5 DEF TimeSound
    <2>4. CASE transition.state # "IDLE"
      <3>1. BeginsFrame'
        <4>1. \A a, b, c \in Calls : <<a>> \o <<b, c>> = <<a, b, c>>
              BY ThreeCalls
        <4>2. agenda' = <<Call("transition", None)>> \o
                        <<Call("update", None), Call("deferred", None)>>
              BY <1>3, <2>4 DEF Frame
        <4>3. \A op \in FrameOps : Call(op, None) \in Calls
              BY DEF FrameOps, Calls, Call, Ops, CallbackPoints
        <4> QED  BY <4>1, <4>2, <4>3 DEF BeginsFrame, FrameOps
      <3>2. \A c \in Ahead(agenda') : c.op \in {"transition", "update", "deferred"}
            BY <3>1 DEF BeginsFrame, Ahead, Call
      <3>3. ~Lists("settle")' /\ ~Lists("fadeIn")'
            BY <3>2 DEF Lists
      <3> QED  BY <2>1, <2>2, <2>4, <3>1, <3>3 DEF TimeSound
    <2> QED  BY <2>3, <2>4
  <1>4. ASSUME NEW s \in Scenes, NEW type \in TransitionTypes, ChangeScene(s, type)
        PROVE  TimeSound'
        BY <1>4, ChangeKeepsTime
  <1>5. ASSUME NEW dt \in 1 .. MaxDt, UpdateTransition(dt) PROVE TimeSound'
        BY <1>5, UpdateKeepsTime
  <1>6. ASSUME UpdateScene \/ DeactivateScene \/ InitializeScene \/ ActivateScene
        PROVE  TimeSound'
    <2>1. /\ agenda # <<>> /\ agenda' = Tail(agenda) /\ UNCHANGED <<next, transition>>
          /\ Head(agenda).op \in {"update", "deactivate", "initialize", "activate"}
          BY <1>6 DEF UpdateScene, DeactivateScene, InitializeScene, ActivateScene,
                      Running, Return, managerVars
    <2> QED  BY <1>2, <2>1 DEF TimeOps
  <1>7. ASSUME \/ \E op \in {"enter", "enterFade"} : EnterScene(op)
               \/ \E op \in {"enterSwitch", "reset"} : SwitchScene(op)
        PROVE  TimeSound'
    <2>1. /\ agenda # <<>> /\ agenda' = Tail(agenda) /\ UNCHANGED <<next, transition>>
          /\ Head(agenda).op \in EntryOps
          BY <1>7 DEF EnterScene, SwitchScene, Running, Return, EntryOps
    <2> QED  BY <1>2, <2>1 DEF TimeOps, EntryOps
  <1>8. ASSUME TakePending PROVE TimeSound'
    <2>1. /\ agenda # <<>> /\ UNCHANGED <<next, transition>> /\ Head(agenda).op = "deferred"
          BY <1>8 DEF TakePending, Running
    <2>2. Tail(agenda) \in Seq(Calls)
          BY <1>0, <2>1, AheadTail
    <2>3. CASE agenda' = ApplyDeferredTransition(current, pending) \o Tail(agenda)
      <3>1. Ahead(agenda') = Ahead(ApplyDeferredTransition(current, pending))
                                \cup Ahead(Tail(agenda))
            BY <1>0, <2>2, <2>3, AgendaTypes, AheadConcat
      <3>2. \A c \in Ahead(ApplyDeferredTransition(current, pending)) : c.op \notin TimeOps
        <4>1. Ahead(ApplyDeferredTransition(current, pending)) = Leaving(current) \cup
                  {Call(IF current = pending THEN "reset" ELSE "enterSwitch", pending),
                   Call("initialize", pending), Call("activate", pending)}
              BY <1>0, AheadMethods
        <4> QED  BY <4>1 DEF Leaving, Call, TimeOps
      <3> QED  BY <2>1, <3>1, <3>2, TimeUndisturbed DEF TimeOps
    <2>4. CASE agenda' = Tail(agenda)
          BY <1>2, <2>1, <2>4 DEF TimeOps
    <2> QED  BY <1>8, <2>3, <2>4 DEF TakePending, Return
  <1>9. ASSUME SettleTransition PROVE TimeSound'
    <2>1. /\ agenda # <<>> /\ Head(agenda).op = "settle" /\ agenda' = Tail(agenda)
          /\ transition'.state = "IDLE" /\ transition'.timer = transition.timer
          BY <1>9 DEF SettleTransition, Running, Return, TypeOK
    <2>2. Ahead(agenda) = {Head(agenda)} \cup Ahead(agenda')
          BY <1>0, <2>1, AheadTail
    <2>3. Lists("settle")
          BY <2>1, <2>2 DEF Lists
    <2>4. ~Lists("fadeIn")' /\ ~Lists("transition")'
      <3>1. Lists("transition") => Head(agenda).op = "transition"
            BY DEF TimeSound, BeginsFrame, Call
      <3>2. ~Lists("fadeIn") /\ ~Lists("transition")
            BY <2>1, <2>3, <3>1 DEF TimeSound
      <3> QED  BY <2>2, <3>2 DEF Lists
    <2> QED  BY <2>1, <2>4 DEF TimeSound
  <1>10. ASSUME StartFadeIn PROVE TimeSound'
    <2>1. /\ agenda # <<>> /\ Head(agenda).op = "fadeIn" /\ agenda' = Tail(agenda)
          /\ transition'.state = "FADING_IN" /\ transition'.timer = transition.timer
          /\ transition'.type = transition.type /\ next' = next
          BY <1>10 DEF StartFadeIn, Running, Return, TypeOK
    <2>2. Ahead(agenda) = {Head(agenda)} \cup Ahead(agenda')
          BY <1>0, <2>1, AheadTail
    <2>3. Lists("fadeIn")
          BY <2>1, <2>2 DEF Lists
    <2>4. /\ ~Lists("settle") /\ transition.state \in {"FADING_OUT", "FADING_IN"}
          /\ 2 * transition.timer >= Duration
          BY <2>3 DEF TimeSound
    <2>5. ~Lists("settle")' /\ ~Lists("transition")'
      <3>1. Lists("transition") => Head(agenda).op = "transition"
            BY DEF TimeSound, BeginsFrame, Call
      <3>2. ~Lists("transition")
            BY <2>1, <3>1
      <3> QED  BY <2>2, <2>4, <3>2 DEF Lists
    <2> QED  BY <2>1, <2>4, <2>5 DEF TimeSound
  <1>11. CASE UNCHANGED vars
         BY <1>1, <1>11 DEF vars, managerVars
  <1>12. CASE Host
    <2>1. /\ \A s \in Scenes : AddScene(s) \/ RemoveScene(s) \/ SwitchTo(s)
                 => UNCHANGED <<next, transition, agenda>>
          /\ \A o \in Objects, s \in Scenes : AddObject(o, s)
                 => UNCHANGED <<next, transition, agenda>>
          /\ \A o \in Objects : RemoveObject(o) \/ PersistObject(o) \/ UnpersistObject(o)
                 => UNCHANGED <<next, transition, agenda>>
          BY DEF AddScene, RemoveScene, SwitchTo, AddObject, RemoveObject, PersistObject,
                 UnpersistObject, managerVars
    <2> QED  BY <1>1, <1>4, <1>12, <2>1 DEF Host
  <1> QED  BY <1>3, <1>5, <1>6, <1>7, <1>8, <1>9, <1>10, <1>11, <1>12 DEF Next, Engine

(* TransitionKeepsTime, of updateTransition and changeScene: the timer     *)
(* begins anew with a transition and what the transition says of itself    *)
(* follows it, whatever the host switches, adds or removes meanwhile and   *)
(* however long its frames are.                                            *)
THEOREM TransitionsKeepTime == Spec => []TransitionKeepsTime
  <1>1. Init => TimeSound
    <2> SUFFICES ASSUME Init PROVE TimeSound
          OBVIOUS
    <2>1. Ahead(agenda) = {}
          BY DEF Init, Ahead
    <2>2. \A op : ~Lists(op)
          BY <2>1 DEF Lists
    <2> QED  BY <2>2, BoundsAssumption DEF Init, TimeSound
  <1>2. TimeSound => TransitionKeepsTime
    <2> SUFFICES ASSUME TimeSound PROVE TransitionKeepsTime
          OBVIOUS
    <2>1. agenda = <<>> => \A op : ~Lists(op)
          BY DEF Lists, Ahead
    <2> QED  BY <2>1 DEF TimeSound, TransitionKeepsTime
  <1> QED  BY <1>1, <1>2, TimeNext, TypeCorrect, PTL DEF Spec

-----------------------------------------------------------------------------
(* Which scenes will be active once the calls ahead have been made, and    *)
(* which scene will be current.                                            *)

(* A method leaves a scene first, enters one right after, and what a frame *)
(* has still to do comes last.                                             *)
InSequence(calls) ==
    \A k, l \in DOMAIN calls :
        /\ calls[k].op \in EntryOps => k = 1 \/ (k = 2 /\ calls[1].op = "deactivate")
        /\ calls[k].op = "deactivate" => k = 1
        /\ calls[k].op \in FrameOps /\ k < l => calls[l].op \in {"update", "deferred"}

LEMMA SequenceTail ==
    ASSUME NEW calls \in Seq(Calls), calls # <<>>, InSequence(calls)
    PROVE  /\ InSequence(Tail(calls))
           /\ \A c \in Ahead(Tail(calls)) :
                /\ c.op # "deactivate"
                /\ Head(calls).op # "deactivate" => c.op \notin EntryOps
                /\ Head(calls).op \in FrameOps => c.op \in {"update", "deferred"}
  <1>1. /\ Tail(calls) \in Seq(Calls)
        /\ Len(Tail(calls)) = Len(calls) - 1 /\ Len(calls) \in Nat \ {0}
        /\ \A k \in 1 .. Len(Tail(calls)) : Tail(calls)[k] = calls[k + 1]
        /\ Head(calls) = calls[1]
        BY HeadTailProperties, EmptySeq
  <1>2. /\ DOMAIN calls = 1 .. Len(calls)
        /\ DOMAIN Tail(calls) = 1 .. Len(Tail(calls))
        BY <1>1, LenProperties
  <1>3. \A k \in DOMAIN Tail(calls) :
            k \in Nat \ {0} /\ k + 1 \in DOMAIN calls /\ Tail(calls)[k] = calls[k + 1]
        BY <1>1, <1>2
  <1>4. 1 \in DOMAIN calls
        BY <1>1, <1>2
  <1>5. ASSUME NEW k \in DOMAIN Tail(calls)
        PROVE  /\ Tail(calls)[k].op # "deactivate"
               /\ Head(calls).op # "deactivate" => Tail(calls)[k].op \notin EntryOps
               /\ Head(calls).op \in FrameOps => Tail(calls)[k].op \in {"update", "deferred"}
               /\ Tail(calls)[k].op \in EntryOps => k = 1
        BY <1>1, <1>3, <1>4 DEF InSequence
  <1>6. ASSUME NEW k \in DOMAIN Tail(calls), NEW l \in DOMAIN Tail(calls),
               Tail(calls)[k].op \in FrameOps, k < l
        PROVE  Tail(calls)[l].op \in {"update", "deferred"}
        BY <1>3, <1>6 DEF InSequence
  <1>7. InSequence(Tail(calls))
        BY <1>5, <1>6 DEF InSequence
  <1> QED  BY <1>5, <1>7 DEF Ahead

LEMMA SequenceConcat ==
    ASSUME NEW c1 \in Seq(Calls), NEW c2 \in Seq(Calls), InSequence(c1), InSequence(c2),
           \A c \in Ahead(c1) : c.op \notin FrameOps,
           \A c \in Ahead(c2) : c.op \in {"update", "deferred"}
    PROVE  InSequence(c1 \o c2)
  <1>1. /\ Len(c1) \in Nat /\ Len(c2) \in Nat
        /\ DOMAIN (c1 \o c2) = 1 .. Len(c1) + Len(c2)
        /\ DOMAIN c1 = 1 .. Len(c1) /\ DOMAIN c2 = 1 .. Len(c2)
        BY ConcatProperties, LenProperties
  <1>2. \A k \in 1 .. Len(c1) + Len(c2) :
            (c1 \o c2)[k] = IF k <= Len(c1) THEN c1[k] ELSE c2[k - Len(c1)]
        BY ConcatProperties
  <1>3. ASSUME NEW k \in DOMAIN (c1 \o c2)
        PROVE  \/ k \in DOMAIN c1 /\ (c1 \o c2)[k] = c1[k] /\ c1[k].op \notin FrameOps
                  /\ (c1 \o c2)[1] = c1[1] /\ 1 \in DOMAIN c1
               \/ k > Len(c1) /\ (c1 \o c2)[k].op \in {"update", "deferred"}
    <2>1. CASE k <= Len(c1)
      <3>1. k \in DOMAIN c1 /\ 1 \in DOMAIN c1 /\ 1 \in 1 .. Len(c1) + Len(c2)
            BY <1>1, <2>1
      <3> QED  BY <1>1, <1>2, <2>1, <3>1 DEF Ahead
    <2>2. CASE k > Len(c1)
      <3>1. k - Len(c1) \in DOMAIN c2 /\ (c1 \o c2)[k] = c2[k - Len(c1)]
            BY <1>1, <1>2, <2>2
      <3> QED  BY <2>2, <3>1 DEF Ahead
    <2> QED  BY <1>1, <2>1, <2>2
  <1> SUFFICES ASSUME NEW k \in DOMAIN (c1 \o c2), NEW l \in DOMAIN (c1 \o c2)
               PROVE  /\ (c1 \o c2)[k].op \in EntryOps =>
                            k = 1 \/ (k = 2 /\ (c1 \o c2)[1].op = "deactivate")
                      /\ (c1 \o c2)[k].op = "deactivate" => k = 1
                      /\ (c1 \o c2)[k].op \in FrameOps /\ k < l
                            => (c1 \o c2)[l].op \in {"update", "deferred"}
        BY DEF InSequence
  <1>4. CASE k \in DOMAIN c1 /\ (c1 \o c2)[k] = c1[k] /\ c1[k].op \notin FrameOps
             /\ (c1 \o c2)[1] = c1[1] /\ 1 \in DOMAIN c1
        BY <1>4 DEF InSequence
  <1>5. CASE k > Len(c1) /\ (c1 \o c2)[k].op \in {"update", "deferred"}
        BY <1>1, <1>3, <1>5 DEF EntryOps
  <1> QED  BY <1>3, <1>4, <1>5

LEMMA SequenceMethods ==
    ASSUME NEW from \in Scenes \cup {None}, NEW to \in Scenes \cup {None}
    PROVE  /\ InSequence(CompleteTransition(from, to))
           /\ InSequence(FadeHalfway(from, to))
           /\ InSequence(ApplyDeferredTransition(from, to))
           /\ InSequence(StartTransition(Slide, to))
  <1>1. InSequence(CompleteTransition(from, to))
        BY DEF InSequence, CompleteTransition, Deactivate, Call, EntryOps, FrameOps
  <1>2. InSequence(FadeHalfway(from, to))
        BY DEF InSequence, FadeHalfway, Deactivate, Call, EntryOps, FrameOps
  <1>3. InSequence(ApplyDeferredTransition(from, to))
        BY DEF InSequence, ApplyDeferredTransition, Deactivate, Call, EntryOps, FrameOps
  <1>4. InSequence(StartTransition(Slide, to))
        BY DEF InSequence, StartTransition, Call, EntryOps, FrameOps
  <1> QED  BY <1>1, <1>2, <1>3, <1>4

(* Once the calls ahead have been made, s will be the current scene ...    *)
Entering(s) ==
    \/ \E c \in Ahead(agenda) : c.op \in EntryOps /\ c.scene = s
    \/ s = current /\ \A c \in Ahead(agenda) : c.op \notin EntryOps

(* ... and s will be active.                                               *)
ActiveAfter(s) ==
    \/ Call("activate", s) \in Ahead(agenda)
    \/ active[s] /\ Call("deactivate", s) \notin Ahead(agenda)

(* A slide goes on: the next scene is active beside the current one.       *)
SlidesOn ==
    /\ transition.state = "SLIDING"
    /\ \A c \in Ahead(agenda) : c.op \notin {"settle", "fadeIn"}

ActiveInv ==
    /\ InSequence(agenda)
    /\ \A s \in Scenes :
         /\ Entering(s) => ActiveAfter(s)
         /\ ActiveAfter(s) => Entering(s) \/ (SlidesOn /\ s = next)

(* The calls that tell scenes apart; the others may come and go.           *)
SceneOps == EntryOps \cup {"activate", "deactivate", "settle", "fadeIn"}

LEMMA Undisturbed ==
    ASSUME ActiveInv, UNCHANGED <<active, current, next, transition>>, InSequence(agenda'),
           \A c \in Ahead(agenda') : c \in Ahead(agenda) \/ c.op \notin SceneOps,
           \A c \in Ahead(agenda) : c \in Ahead(agenda') \/ c.op \notin SceneOps
    PROVE  ActiveInv'
  <1>1. \A op, s : Call(op, s).op = op
        BY DEF Call
  <1>2. \A s : Entering(s)' <=> Entering(s)
        BY DEF Entering, SceneOps
  <1>3. \A s : ActiveAfter(s)' <=> ActiveAfter(s)
        BY <1>1 DEF ActiveAfter, SceneOps
  <1>4. SlidesOn' <=> SlidesOn
        BY DEF SlidesOn, SceneOps
  <1> QED  BY <1>2, <1>3, <1>4 DEF ActiveInv

(* A call returns.                                                         *)
LEMMA ReturnKeepsActive ==
    ASSUME TypeOK, ActiveInv, DeactivateScene \/ InitializeScene \/ ActivateScene
                \/ SettleTransition \/ StartFadeIn \/ UpdateScene
                \/ (\E op \in {"enter", "enterFade"} : EnterScene(op))
                \/ (\E op \in {"enterSwitch", "reset"} : SwitchScene(op))
    PROVE  ActiveInv'
  <1> DEFINE h == Head(agenda)
  <1>1. agenda # <<>> /\ agenda' = Tail(agenda)
        BY DEF DeactivateScene, InitializeScene, ActivateScene, SettleTransition, StartFadeIn,
               UpdateScene, EnterScene, SwitchScene, Running, Return
  <1>2. /\ Ahead(agenda) = {h} \cup Ahead(agenda') /\ h \in Calls
        /\ InSequence(agenda')
        /\ \A c \in Ahead(agenda') :
              c.op # "deactivate" /\ (h.op # "deactivate" => c.op \notin EntryOps)
        BY <1>1, AheadTail, SequenceTail DEF TypeOK, ActiveInv
  <1>3. h = Call(h.op, h.scene)
        BY <1>2 DEF Calls, Call
  <1>4. \A op, s : Call(op, s).op = op /\ Call(op, s).scene = s
        BY DEF Call
  <1> HIDE DEF h
  <1>5. ASSUME InitializeScene \/ UpdateScene PROVE ActiveInv'
    <2>1. h.op \notin SceneOps /\ UNCHANGED <<active, current, next, transition>>
          BY <1>5 DEF h, InitializeScene, UpdateScene, Running, SceneOps, EntryOps,
                      sceneVars, managerVars
    <2> QED  BY <1>2, <2>1, Undisturbed
  <1>6. ASSUME DeactivateScene PROVE ActiveInv'
    <2>1. /\ h.op = "deactivate" /\ UNCHANGED <<current, next, transition>>
          /\ \A s \in Scenes : active'[s] <=> active[s] /\ s # h.scene
      <3>1. /\ h.op = "deactivate" /\ UNCHANGED <<current, next, transition>>
            /\ active' = [active EXCEPT ![h.scene] = FALSE]
            BY <1>6 DEF h, DeactivateScene, Running, managerVars
      <3> QED  BY <3>1 DEF TypeOK
    <2>2. \A s \in Scenes : ActiveAfter(s)' <=> ActiveAfter(s)
          BY <1>2, <1>3, <1>4, <2>1 DEF ActiveAfter
    <2>3. \A s \in Scenes : Entering(s)' <=> Entering(s)
          BY <1>2, <2>1 DEF Entering, EntryOps
    <2>4. SlidesOn' <=> SlidesOn
          BY <1>2, <2>1 DEF SlidesOn
    <2> QED  BY <1>2, <2>1, <2>2, <2>3, <2>4 DEF ActiveInv
  <1>7. ASSUME ActivateScene PROVE ActiveInv'
    <2>1. /\ h.op = "activate" /\ UNCHANGED <<current, next, transition>>
          /\ \A s \in Scenes : active'[s] <=> active[s] \/ s = h.scene
      <3>1. /\ h.op = "activate" /\ UNCHANGED <<current, next, transition>>
            /\ active' = [active EXCEPT ![h.scene] = TRUE]
            BY <1>7 DEF h, ActivateScene, Running, managerVars
      <3> QED  BY <3>1 DEF TypeOK
    <2>2. \A s \in Scenes : ActiveAfter(s)' <=> ActiveAfter(s)
          BY <1>2, <1>3, <1>4, <2>1 DEF ActiveAfter
    <2>3. \A s \in Scenes : Entering(s)' <=> Entering(s)
          BY <1>2, <2>1 DEF Entering, EntryOps
    <2>4. SlidesOn' <=> SlidesOn
          BY <1>2, <2>1 DEF SlidesOn
    <2> QED  BY <1>2, <2>1, <2>2, <2>3, <2>4 DEF ActiveInv
  <1>8. ASSUME SettleTransition \/ StartFadeIn PROVE ActiveInv'
    <2>1. h.op \in {"settle", "fadeIn"} /\ UNCHANGED <<active, current>>
          BY <1>8 DEF h, SettleTransition, StartFadeIn, Running, sceneVars
    <2>2. ~SlidesOn
          BY <1>2, <2>1 DEF SlidesOn
    <2>3. \A s \in Scenes : ActiveAfter(s)' <=> ActiveAfter(s)
          BY <1>2, <1>4, <2>1 DEF ActiveAfter
    <2>4. \A s \in Scenes : Entering(s)' <=> Entering(s)
          BY <1>2, <2>1 DEF Entering, EntryOps
    <2> QED  BY <1>2, <2>2, <2>3, <2>4 DEF ActiveInv
  <1>9. ASSUME \/ \E op \in {"enter", "enterFade"} : EnterScene(op)
               \/ \E op \in {"enterSwitch", "reset"} : SwitchScene(op)
        PROVE  ActiveInv'
    <2>1. /\ h.op \in EntryOps /\ current' = h.scene
          /\ UNCHANGED <<active, next, transition>>
          BY <1>9 DEF h, EnterScene, SwitchScene, Running, EntryOps
    <2>2. \A s \in Scenes : Entering(s)' <=> Entering(s)
          BY <1>2, <2>1 DEF Entering, EntryOps
    <2>3. \A s \in Scenes : ActiveAfter(s)' <=> ActiveAfter(s)
          BY <1>2, <1>4, <2>1 DEF ActiveAfter, EntryOps
    <2>4. SlidesOn' <=> SlidesOn
          BY <1>2, <2>1 DEF SlidesOn, EntryOps
    <2> QED  BY <1>2, <2>1, <2>2, <2>3, <2>4 DEF ActiveInv
  <1> QED  BY <1>5, <1>6, <1>7, <1>8, <1>9

(* The three methods that enter a scene are told apart by their last call. *)
LEMMA MethodsDiffer ==
    ASSUME NEW from \in Scenes \cup {None}, NEW to \in Scenes \cup {None}
    PROVE  /\ CompleteTransition(from, to) # FadeHalfway(from, to)
           /\ ApplyDeferredTransition(from, to) # CompleteTransition(from, to)
           /\ ApplyDeferredTransition(from, to) # FadeHalfway(from, to)
  <1>1. /\ Call("settle", to) \in Ahead(CompleteTransition(from, to))
        /\ Call("fadeIn", to) \in Ahead(FadeHalfway(from, to))
        BY AheadMethods
  <1>2. Call("settle", to) \notin Ahead(FadeHalfway(from, to))
    <2>1. Ahead(FadeHalfway(from, to)) =
              Leaving(from) \cup {Call("enterFade", to), Call("initialize", to),
                                  Call("activate", to), Call("fadeIn", to)}
          BY AheadMethods
    <2> QED  BY <2>1 DEF Leaving, Call
  <1>3. /\ Call("settle", to) \notin Ahead(ApplyDeferredTransition(from, to))
        /\ Call("fadeIn", to) \notin Ahead(ApplyDeferredTransition(from, to))
    <2>1. Ahead(ApplyDeferredTransition(from, to)) =
              Leaving(from) \cup {Call(IF from = to THEN "reset" ELSE "enterSwitch", to),
                                  Call("initialize", to), Call("activate", to)}
          BY AheadMethods
    <2> QED  BY <2>1 DEF Leaving, Call
  <1> QED  BY <1>1, <1>2, <1>3

(* A method begins: it leaves the current scene and lists the entry of the *)
(* scene it leads to.                                                      *)
LEMMA MethodKeepsActive ==
    ASSUME TypeOK, ActiveInv, NEW to \in Scenes \cup {None}, NEW rest \in Seq(Calls),
           NEW calls \in {CompleteTransition(current, to), FadeHalfway(current, to),
                          ApplyDeferredTransition(current, to)},
           \A c \in Ahead(agenda) : c.op \in FrameOps,
           \A c \in Ahead(rest) : c.op \in {"update", "deferred"},
           InSequence(rest),
           agenda' = calls \o rest,
           UNCHANGED <<active, current>>, transition'.state = transition.state,
           transition.state = "SLIDING" => next' = next,
           calls = CompleteTransition(current, to) /\ transition.state = "SLIDING" => to = next,
           calls = FadeHalfway(current, to) => transition.state = "FADING_OUT"
    PROVE  ActiveInv'
  <1>1. current \in Scenes \cup {None} /\ calls \in Seq(Calls)
    <2>1. current \in Scenes \cup {None}
          BY DEF TypeOK
    <2> QED  BY <2>1, AgendaTypes
  <1>2. \A op, s : Call(op, s).op = op /\ Call(op, s).scene = s
        BY DEF Call
  <1>3. /\ InSequence(calls)
        /\ \A c \in Ahead(calls) : c.op \notin FrameOps
    <2>1. InSequence(calls)
          BY <1>1, SequenceMethods
    <2>2. calls \in {CompleteTransition(current, to), FadeHalfway(current, to),
                     ApplyDeferredTransition(current, to), StartTransition(Slide, to)}
          OBVIOUS
    <2>3. \A c \in Ahead(calls) : c.op \notin FrameOps
          BY <1>1, <2>2, MethodCalls
    <2> QED  BY <2>1, <2>3
  <1>4. InSequence(agenda') /\ Ahead(agenda') = Ahead(calls) \cup Ahead(rest)
        BY <1>1, <1>3, SequenceConcat, AheadConcat
  <1>5. \A s : /\ Entering(s) <=> s = current
               /\ ActiveAfter(s) <=> active[s]
        BY <1>2 DEF Entering, ActiveAfter, FrameOps, EntryOps
  <1>6. SlidesOn <=> transition.state = "SLIDING"
        BY DEF SlidesOn, FrameOps
  <1>7. /\ \E c \in Ahead(calls) : c.op \in EntryOps /\ c.scene = to
        /\ \A c \in Ahead(calls) : c.op \in EntryOps => c.scene = to
        /\ Call("activate", to) \in Ahead(calls)
        /\ \A s : Call("activate", s) \in Ahead(calls) => s = to
        /\ current = None \/ current = to \/ Call("deactivate", current) \in Ahead(calls)
        /\ calls = ApplyDeferredTransition(current, to) =>
               \A c \in Ahead(calls) : c.op \notin {"settle", "fadeIn"}
    <2>1. \A s : \A c \in Leaving(s) : c.op = "deactivate"
          BY <1>2 DEF Leaving
    <2>2. current # None => Call("deactivate", current) \in Leaving(current)
          BY DEF Leaving
    <2>3. CASE calls = CompleteTransition(current, to)
      <3>1. Ahead(calls) = Leaving(IF current = to THEN None ELSE current) \cup
                {Call("enter", to), Call("initialize", to), Call("activate", to),
                 Call("settle", to)}
            BY <1>1, <2>3, AheadMethods
      <3>2. calls # ApplyDeferredTransition(current, to)
            BY <1>1, <2>3, MethodsDiffer
      <3> QED  BY <1>2, <2>1, <2>2, <3>1, <3>2 DEF EntryOps
    <2>4. CASE calls = FadeHalfway(current, to)
      <3>1. Ahead(calls) = Leaving(current) \cup
                {Call("enterFade", to), Call("initialize", to), Call("activate", to),
                 Call("fadeIn", to)}
            BY <1>1, <2>4, AheadMethods
      <3>2. calls # ApplyDeferredTransition(current, to)
            BY <1>1, <2>4, MethodsDiffer
      <3> QED  BY <1>2, <2>1, <2>2, <3>1, <3>2 DEF EntryOps
    <2>5. CASE calls = ApplyDeferredTransition(current, to)
      <3>1. Ahead(calls) = Leaving(current) \cup
                {Call(IF current = to THEN "reset" ELSE "enterSwitch", to),
                 Call("initialize", to), Call("activate", to)}
            BY <1>1, <2>5, AheadMethods
      <3> QED  BY <1>2, <2>1, <2>2, <3>1 DEF EntryOps
    <2> QED  BY <2>3, <2>4, <2>5
  <1>8. \A s \in Scenes : Entering(s)' <=> s = to
        BY <1>4, <1>7 DEF Entering, EntryOps
  <1>9. \A s \in Scenes : s = to => ActiveAfter(s)'
        BY <1>4, <1>7 DEF ActiveAfter
  <1>10. ASSUME NEW s \in Scenes, ActiveAfter(s)', s # to
         PROVE  active[s] /\ s # current
    <2>1. Call("activate", s) \notin Ahead(agenda')
          BY <1>2, <1>4, <1>7, <1>10
    <2> QED  BY <1>4, <1>7, <1>10, <2>1, NoneAssumption DEF ActiveAfter
  <1>11. ASSUME NEW s \in Scenes, ActiveAfter(s)', s # to
         PROVE  SlidesOn' /\ s = next'
    <2>1. SlidesOn /\ s = next
          BY <1>5, <1>10, <1>11 DEF ActiveInv
    <2>2. calls = ApplyDeferredTransition(current, to)
          BY <1>6, <1>11, <2>1
    <2>3. \A c \in Ahead(agenda') : c.op \notin {"settle", "fadeIn"}
          BY <1>4, <1>7, <2>2
    <2> QED  BY <1>6, <2>1, <2>3 DEF SlidesOn
  <1> QED  BY <1>4, <1>8, <1>9, <1>11 DEF ActiveInv

(* A scene that is destroyed with its slot is not the current one.         *)
LEMMA DestroyedIsNotCurrent ==
    ASSUME TypeOK, TableSound, NEW s \in Scenes, AddScene(s) \/ RemoveScene(s)
    PROVE  \E D : Destroy(D) /\ current \notin D
  <1>1. CASE AddScene(s)
    <2>1. sceneCount + 1 \in SceneSlots /\ sceneCount \in Nat
          BY <1>1, BoundsAssumption DEF AddScene, TypeOK, SceneSlots
    <2>2. current # None => slots[sceneCount + 1] # current
      <3> SUFFICES ASSUME current # None, slots[sceneCount + 1] = current PROVE FALSE
            OBVIOUS
      <3>1. PICK a \in 1 .. sceneCount : slots[a] = current
            BY DEF TableSound, Registered
      <3>2. a \in SceneSlots /\ a # sceneCount + 1
            BY <2>1, <3>1, BoundsAssumption DEF SceneSlots
      <3>3. \A b, c \in SceneSlots : slots[b] = slots[c] /\ slots[b] # None => b = c
            BY DEF TableSound
      <3> QED  BY <2>1, <3>1, <3>2, <3>3
    <2>3. current \notin {slots[sceneCount + 1]} \ {None}
          BY <2>2
    <2> QED  BY <1>1, <2>3 DEF AddScene
  <1>2. CASE RemoveScene(s)
    <2>1. s # current /\ \E i : Destroy(IF i < sceneCount THEN {s} ELSE {})
          BY <1>2 DEF RemoveScene
    <2> QED  BY <2>1
  <1> QED  BY <1>1, <1>2

LEMMA TableKeepsActive ==
    ASSUME TypeOK, TableSound, ActiveInv, NEW s \in Scenes, AddScene(s) \/ RemoveScene(s)
    PROVE  ActiveInv'
  <1>1. /\ agenda = <<>> /\ agenda' = agenda
        /\ UNCHANGED <<current, next, transition>>
        BY DEF AddScene, RemoveScene, managerVars
  <1>2. \E D : Destroy(D) /\ current \notin D
        BY DestroyedIsNotCurrent
  <1>3. \A t \in Scenes : /\ active'[t] => active[t]
                          /\ t = current /\ active[t] => active'[t]
        BY <1>2 DEF Destroy
  <1>4. Ahead(agenda) = {}
        BY <1>1 DEF Ahead
  <1>5. \A t \in Scenes : (Entering(t) <=> t = current) /\ (ActiveAfter(t) <=> active[t])
        BY <1>4 DEF Entering, ActiveAfter
  <1>6. \A t \in Scenes : (Entering(t)' <=> t = current) /\ (ActiveAfter(t)' <=> active'[t])
        BY <1>1, <1>4 DEF Entering, ActiveAfter
  <1>7. SlidesOn' <=> SlidesOn
        BY <1>1 DEF SlidesOn
  <1> QED  BY <1>1, <1>3, <1>5, <1>6, <1>7 DEF ActiveInv

LEMMA ChangeKeepsActive ==
    ASSUME TypeOK, ActiveInv, NEW s \in Scenes, NEW type \in TransitionTypes,
           ChangeScene(s, type)
    PROVE  ActiveInv'
  <1>0. current \in Scenes \cup {None}
        BY DEF TypeOK
  <1>1. /\ agenda = <<>> /\ transition.state = "IDLE"
        /\ UNCHANGED <<active, current>> /\ next' = s
        BY DEF ChangeScene
  <1>2. Ahead(agenda) = {} /\ InSequence(<<>>) /\ <<>> \in Seq(Calls)
    <2>1. DOMAIN <<>> = {}
          OBVIOUS
    <2>2. Ahead(agenda) = {} /\ InSequence(<<>>)
          BY <1>1, <2>1 DEF Ahead, InSequence
    <2> QED  BY <2>2, EmptySeq
  <1>3. CASE type = Immediate
    <2>1. agenda' = CompleteTransition(current, s) /\ transition'.state = "IDLE"
          BY <1>3 DEF ChangeScene, Begun, Immediate, Fade, Slide
    <2>2. current \in Scenes \cup {None} /\ CompleteTransition(current, s) \in Seq(Calls)
          BY <1>0, AgendaTypes
    <2>3. agenda' = CompleteTransition(current, s) \o <<>>
          BY <2>1, <2>2, ConcatEmptySeq
    <2>4. CompleteTransition(current, s) # FadeHalfway(current, s)
          BY <1>0, MethodsDiffer
    <2> QED  BY <1>1, <1>2, <2>1, <2>3, <2>4, MethodKeepsActive
  <1>4. CASE type = Fade
    <2>1. agenda' = <<>> /\ transition'.state = "FADING_OUT"
          BY <1>4 DEF ChangeScene, Begun, StartTransition, Immediate, Fade, Slide
    <2>2. ~SlidesOn
          BY <1>1 DEF SlidesOn
    <2>3. \A t : (Entering(t)' <=> Entering(t)) /\ (ActiveAfter(t)' <=> ActiveAfter(t))
          BY <1>1, <2>1 DEF Entering, ActiveAfter
    <2> QED  BY <1>1, <2>1, <2>2, <2>3 DEF ActiveInv
  <1>5. CASE type = Slide
    <2>1. agenda' = StartTransition(Slide, s) /\ transition'.state = "SLIDING"
          BY <1>5 DEF ChangeScene, Begun, Immediate, Fade, Slide
    <2>2. /\ Ahead(agenda') = {Call("initialize", s), Call("activate", s)}
          /\ InSequence(agenda')
          BY <2>1, AheadMethods, SequenceMethods
    <2>3. \A op, t : Call(op, t).op = op /\ Call(op, t).scene = t
          BY DEF Call
    <2>4. \A t \in Scenes : (Entering(t) <=> t = current) /\ (ActiveAfter(t) <=> active[t])
          BY <1>2 DEF Entering, ActiveAfter
    <2>5. \A t \in Scenes : Entering(t)' <=> t = current
          BY <1>1, <2>2, <2>3 DEF Entering, EntryOps
    <2>6. \A t \in Scenes : ActiveAfter(t)' <=> t = s \/ active[t]
          BY <1>1, <2>2, <2>3 DEF ActiveAfter
    <2>7. ~SlidesOn /\ SlidesOn'
          BY <1>1, <2>1, <2>2, <2>3 DEF SlidesOn
    <2> QED  BY <1>1, <2>2, <2>4, <2>5, <2>6, <2>7 DEF ActiveInv
  <1> QED  BY <1>3, <1>4, <1>5 DEF TransitionTypes

LEMMA ActiveNext ==
    ASSUME TypeOK, TableSound, ActiveInv, [Next]_vars
    PROVE  ActiveInv'
  <1>0. /\ agenda \in Seq(Calls) /\ current \in Scenes \cup {None}
        /\ next \in Scenes \cup {None} /\ pending \in Scenes \cup {None}
        BY DEF TypeOK
  <1>1. ASSUME UNCHANGED <<active, current, next, transition, agenda>> PROVE ActiveInv'
        BY <1>1 DEF ActiveInv, Entering, ActiveAfter, SlidesOn
  <1>2. ASSUME Frame PROVE ActiveInv'
    <2>1. agenda = <<>> /\ UNCHANGED <<active, current, next, transition>>
          BY <1>2 DEF Frame, sceneVars, managerVars
    <2>2. Ahead(agenda) = {}
          BY <2>1 DEF Ahead
    <2>3. InSequence(agenda') /\ \A c \in Ahead(agenda') : c.op \in FrameOps
      <3>1. CASE transition.state = "IDLE"
        <4>1. agenda' = <<>> \o <<Call("update", None), Call("deferred", None)>>
              BY <1>2, <3>1 DEF Frame
        <4>2. <<Call("update", None), Call("deferred", None)>> \in Seq(Calls)
              BY DEF Call, Calls, Ops, CallbackPoints
        <4>3. agenda' = <<Call("update", None), Call("deferred", None)>>
              BY <4>1, <4>2, ConcatEmptySeq
        <4>4. DOMAIN agenda' = {1, 2} /\ agenda'[1].op = "update" /\ agenda'[2].op = "deferred"
              BY <4>3 DEF Call
        <4>5. InSequence(agenda')
              BY <4>4 DEF InSequence, EntryOps, FrameOps
        <4>6. \A k \in DOMAIN agenda' : agenda'[k].op \in FrameOps
              BY <4>4 DEF FrameOps
        <4> QED  BY <4>5, <4>6 DEF Ahead
      <3>2. CASE transition.state # "IDLE"
        <4>1. agenda' = <<Call("transition", None)>> \o
                        <<Call("update", None), Call("deferred", None)>>
              BY <1>2, <3>2 DEF Frame
        <4>2. /\ DOMAIN agenda' = {1, 2, 3} /\ agenda'[1].op = "transition"
              /\ agenda'[2].op = "update" /\ agenda'[3].op = "deferred"
              BY <4>1 DEF Call
        <4>3. InSequence(agenda')
              BY <4>2 DEF InSequence, EntryOps, FrameOps
        <4>4. \A k \in DOMAIN agenda' : agenda'[k].op \in FrameOps
              BY <4>2 DEF FrameOps
        <4> QED  BY <4>3, <4>4 DEF Ahead
      <3> QED  BY <3>1, <3>2
    <2>4. \A c \in Ahead(agenda') : c.op \notin SceneOps
          BY <2>3 DEF FrameOps, SceneOps, EntryOps
    <2> QED  BY <2>1, <2>2, <2>3, <2>4, Undisturbed
  <1>3. ASSUME Head(agenda).op \in FrameOps, agenda # <<>>
        PROVE  /\ Tail(agenda) \in Seq(Calls) /\ InSequence(Tail(agenda))
               /\ \A c \in Ahead(Tail(agenda)) : c.op \in {"update", "deferred"}
               /\ \A c \in Ahead(agenda) : c.op \in FrameOps
               /\ Ahead(agenda) = {Head(agenda)} \cup Ahead(Tail(agenda))
    <2>1. /\ Tail(agenda) \in Seq(Calls) /\ InSequence(Tail(agenda))
          /\ \A c \in Ahead(Tail(agenda)) : c.op \in {"update", "deferred"}
          /\ Ahead(agenda) = {Head(agenda)} \cup Ahead(Tail(agenda))
          BY <1>0, <1>3, AheadTail, SequenceTail DEF ActiveInv
    <2> QED  BY <1>3, <2>1 DEF FrameOps
  <1>4. ASSUME Head(agenda).op \in FrameOps, agenda # <<>>, agenda' = Tail(agenda),
               UNCHANGED <<active, current, next, transition>>
        PROVE  ActiveInv'
    <2>1. /\ InSequence(agenda') /\ Ahead(agenda') \subseteq Ahead(agenda)
          /\ \A c \in Ahead(agenda) : c.op \notin SceneOps
          BY <1>3, <1>4 DEF FrameOps, SceneOps, EntryOps
    <2> QED  BY <1>4, <2>1, Undisturbed
  <1>5. ASSUME NEW dt \in 1 .. MaxDt, UpdateTransition(dt) PROVE ActiveInv'
    <2>1. /\ agenda # <<>> /\ Head(agenda).op \in FrameOps
          /\ UNCHANGED <<active, current, next>>
          BY <1>5 DEF UpdateTransition, Running, FrameOps, sceneVars
    <2>2. transition'.state = transition.state
          BY <1>5 DEF UpdateTransition, TypeOK
    <2>3. PICK calls \in Seq(Calls) :
              /\ agenda' = calls \o Tail(agenda)
              /\ \/ calls = CompleteTransition(current, next)
                 \/ calls = FadeHalfway(current, next) /\ transition.state = "FADING_OUT"
                 \/ calls = <<>>
          BY <1>5, TransitionCalls
    <2>4. CASE calls = <<>>
      <3>1. agenda' = Tail(agenda)
            BY <1>3, <2>1, <2>3, <2>4, ConcatEmptySeq
      <3>2. /\ InSequence(agenda') /\ Ahead(agenda') \subseteq Ahead(agenda)
            /\ \A c \in Ahead(agenda) : c.op \notin SceneOps
            BY <1>3, <2>1, <3>1 DEF FrameOps, SceneOps, EntryOps
      <3>3. /\ \A t : Entering(t)' <=> Entering(t)
            /\ \A t : ActiveAfter(t)' <=> ActiveAfter(t)
            /\ SlidesOn' <=> SlidesOn
        <4>1. \A op, t : Call(op, t).op = op
              BY DEF Call
        <4>2. \A c \in Ahead(agenda') : c.op \notin SceneOps
              BY <3>2
        <4> QED  BY <2>1, <2>2, <3>2, <4>1, <4>2
                 DEF Entering, ActiveAfter, SlidesOn, SceneOps
      <3> QED  BY <2>1, <3>2, <3>3 DEF ActiveInv
    <2>5. CASE calls # <<>>
      <3>1. calls \in {CompleteTransition(current, next), FadeHalfway(current, next),
                       ApplyDeferredTransition(current, next)}
            BY <2>3, <2>5
      <3>2. CASE calls = CompleteTransition(current, next) /\ calls # FadeHalfway(current, next)
            BY <1>0, <1>3, <2>1, <2>2, <2>3, <3>1, <3>2, MethodKeepsActive
      <3>3. CASE transition.state = "FADING_OUT"
            BY <1>0, <1>3, <2>1, <2>2, <2>3, <3>1, <3>3, MethodKeepsActive
      <3>4. calls = FadeHalfway(current, next) => transition.state = "FADING_OUT"
        <4>1. FadeHalfway(current, next) # CompleteTransition(current, next)
              BY <1>0, MethodsDiffer
        <4> QED  BY <2>3, <2>5, <4>1
      <3> QED  BY <2>3, <2>5, <3>2, <3>3, <3>4
    <2> QED  BY <2>4, <2>5
  <1>6. ASSUME TakePending PROVE ActiveInv'
    <2>1. /\ agenda # <<>> /\ Head(agenda).op \in FrameOps
          /\ UNCHANGED <<active, current, next, transition>>
          BY <1>6 DEF TakePending, Running, FrameOps, sceneVars
    <2>2. CASE agenda' = ApplyDeferredTransition(current, pending) \o Tail(agenda)
      <3>1. /\ ApplyDeferredTransition(current, pending) # CompleteTransition(current, pending)
            /\ ApplyDeferredTransition(current, pending) # FadeHalfway(current, pending)
            BY <1>0, MethodsDiffer
      <3> QED  BY <1>0, <1>3, <2>1, <2>2, <3>1, MethodKeepsActive
    <2>3. CASE agenda' = Tail(agenda)
          BY <1>4, <2>1, <2>3
    <2> QED  BY <1>6, <2>2, <2>3 DEF TakePending, Return
  <1>7. CASE UNCHANGED vars
        BY <1>1, <1>7 DEF vars, sceneVars, managerVars
  <1>8. CASE Host
    <2>1. /\ \A s \in Scenes : SwitchTo(s)
                 => UNCHANGED <<active, current, next, transition, agenda>>
          /\ \A o \in Objects, s \in Scenes : AddObject(o, s)
                 => UNCHANGED <<active, current, next, transition, agenda>>
          /\ \A o \in Objects : RemoveObject(o) \/ PersistObject(o) \/ UnpersistObject(o)
                 => UNCHANGED <<active, current, next, transition, agenda>>
          BY DEF SwitchTo, AddObject, RemoveObject, PersistObject, UnpersistObject,
                 sceneVars, managerVars
    <2> QED  BY <1>1, <1>8, <2>1, TableKeepsActive, ChangeKeepsActive DEF Host
  <1> QED  BY <1>2, <1>5, <1>6, <1>7, <1>8, ReturnKeepsActive DEF Next, Engine

(* Between two frames one scene is active, the current one: whatever the   *)
(* callbacks ask for while scenes are left and entered, also in the middle *)
(* of a fade or of a slide that has both scenes active.                    *)
THEOREM OneSceneIsActive == Steady => (Spec => []OneActiveScene)
  <1>1. Init => ActiveInv
    <2> SUFFICES ASSUME Init PROVE ActiveInv
          OBVIOUS
    <2>1. Ahead(agenda) = {} /\ InSequence(agenda)
          BY DEF Init, Ahead, InSequence
    <2>2. \A s \in Scenes : ~Entering(s) /\ ~ActiveAfter(s)
          BY <2>1, NoneAssumption DEF Init, Entering, ActiveAfter
    <2> QED  BY <2>1, <2>2 DEF ActiveInv
  <1>2. TypeOK /\ TableSound /\ ActiveInv /\ [Next]_vars => ActiveInv'
        BY ActiveNext
  <1>3. ActiveInv => OneActiveScene
    <2> SUFFICES ASSUME ActiveInv, agenda = <<>>, transition.state = "IDLE", NEW s \in Scenes
                 PROVE  active[s] <=> s = current
          BY DEF OneActiveScene
    <2>1. Ahead(agenda) = {} /\ ~SlidesOn
          BY DEF Ahead, SlidesOn
    <2>2. (Entering(s) <=> s = current) /\ (ActiveAfter(s) <=> active[s])
          BY <2>1 DEF Entering, ActiveAfter
    <2> QED  BY <2>1, <2>2 DEF ActiveInv
  <1> QED  BY <1>1, <1>2, <1>3, TypeCorrect, TableHolds, PTL DEF Spec

-----------------------------------------------------------------------------
(* The persistent objects take part in the current scene, for the same     *)
(* host as above and a collection with room for the whole registry.        *)

HoldsEvery(s) ==
    /\ injected[s]
    /\ externalCount[s] = Cardinality(Persistent)
    /\ \A o \in Objects : external[s][o] = IF o \in Persistent THEN 1 ELSE 0

(* No scene but the current one counts an external, nor does that one      *)
(* while a scene is about to be entered; only the first scene is entered   *)
(* by changeScene, and nothing is persistent before it.                    *)
Joined ==
    /\ \A c \in Ahead(agenda) : c.op \in EntryOps =>
           c.scene # None /\ c.op # "enterFade" /\ (c.op = "enter" => current = None)
    /\ current = None => Persistent = {}
    /\ \A s \in Scenes : s # current \/ EntryAhead => externalCount[s] = 0
    /\ current # None /\ ~EntryAhead => HoldsEvery(current)

LEMMA PersistentBound ==
    ASSUME NEW reg \in [RegistrySlots -> Objects \cup {None}]
    PROVE  /\ IsFiniteSet({o \in Objects : \E i \in RegistrySlots : reg[i] = o})
           /\ Cardinality({o \in Objects : \E i \in RegistrySlots : reg[i] = o})
                  \in 0 .. MaxPersistent
  <1> DEFINE P == {o \in Objects : \E i \in RegistrySlots : reg[i] = o}
             f == [o \in P |-> CHOOSE i \in RegistrySlots : reg[i] = o]
  <1>1. \A o \in P : f[o] \in RegistrySlots /\ reg[f[o]] = o
        OBVIOUS
  <1>2. DOMAIN f = P
        OBVIOUS
  <1> HIDE DEF f, P
  <1>3. f \in [P -> RegistrySlots]
    <2>1. f = [o \in P |-> f[o]]
          BY <1>2 DEF f
    <2> QED  BY <1>1, <2>1
  <1>4. f \in Injection(P, RegistrySlots)
        BY <1>1, <1>2, <1>3 DEF Injection, IsInjective
  <1>5. IsFiniteSet(RegistrySlots) /\ Cardinality(RegistrySlots) = MaxPersistent
        BY BoundsAssumption, FS_Interval DEF RegistrySlots
  <1>6. IsFiniteSet(P) /\ Cardinality(P) <= MaxPersistent
        BY <1>4, <1>5, FS_Injection
  <1> QED  BY <1>6, FS_CardinalityType, BoundsAssumption DEF P

(* With room for all of them, injectExternal leaves none out.              *)
LEMMA InjectExact ==
    ASSUME TypeOK, NEW s \in Scenes, NEW S \in SUBSET Objects,
           externalCount[s] + Cardinality(S) <= MaxExternal, InjectAll(s, S)
    PROVE  /\ \A t \in Scenes : externalCount'[t] =
                IF t = s THEN externalCount[s] + Cardinality(S) ELSE externalCount[t]
           /\ \A t \in Scenes, o \in Objects : external'[t][o] =
                IF t = s /\ o \in S THEN external[s][o] + 1 ELSE external[t][o]
  <1>1. PICK kept \in SUBSET S :
            /\ kept = S \/ externalCount[s] + Cardinality(kept) = MaxExternal
            /\ external' = [external EXCEPT ![s] =
                    [o \in Objects |-> IF o \in kept THEN @[o] + 1 ELSE @[o]]]
            /\ externalCount' = [externalCount EXCEPT ![s] = @ + Cardinality(kept)]
        BY DEF InjectAll
  <1>2. IsFiniteSet(S)
        BY FiniteAssumption, FS_Subset
  <1>3. /\ Cardinality(kept) <= Cardinality(S)
        /\ Cardinality(S) = Cardinality(kept) => S = kept
        BY <1>2, FS_Subset
  <1>4. Cardinality(S) \in Nat /\ Cardinality(kept) \in Nat /\ externalCount[s] \in Nat
        /\ MaxExternal \in Nat
        BY <1>2, FS_Subset, FS_CardinalityType, BoundsAssumption DEF TypeOK
  <1>5. kept = S
        BY <1>1, <1>3, <1>4
  <1>6. /\ external' = [external EXCEPT ![s] =
                [o \in Objects |-> IF o \in S THEN external[s][o] + 1 ELSE external[s][o]]]
        /\ externalCount' = [externalCount EXCEPT ![s] = externalCount[s] + Cardinality(S)]
        BY <1>1, <1>5
  <1> QED  BY <1>6 DEF TypeOK

LEMMA HostJoined ==
    ASSUME Switching, MaxPersistent <= MaxExternal,
           TypeOK, TypeOK', UniqueOwner, Attached, TableSound, Joined, Host
    PROVE  Joined'
  <1>1. ASSUME UNCHANGED <<injected, external, externalCount, registry, current, agenda>>
        PROVE  Joined'
        BY <1>1 DEF Joined, EntryAhead, HoldsEvery, Persistent
  <1>2. ASSUME NEW s \in Scenes, AddScene(s) \/ RemoveScene(s) PROVE Joined'
    <2>1. UNCHANGED <<registry, current, agenda>> /\ agenda = <<>>
          BY <1>2 DEF AddScene, RemoveScene, registryVars, managerVars
    <2>2. PICK D : Destroy(D) /\ current \notin D
          BY <1>2, DestroyedIsNotCurrent
    <2>3. /\ \A t \in Scenes : externalCount'[t] = IF t \in D THEN 0 ELSE externalCount[t]
          /\ current \in Scenes => /\ injected'[current] = injected[current]
                                   /\ external'[current] = external[current]
      <3>1. \A t \in Scenes \ D : injected'[t] <=> injected[t]
            BY <2>2 DEF Destroy
      <3>2. injected' \in [Scenes -> BOOLEAN] /\ injected \in [Scenes -> BOOLEAN]
            BY DEF TypeOK
      <3>3. \A t \in Scenes : externalCount'[t] = IF t \in D THEN 0 ELSE externalCount[t]
            BY <2>2 DEF Destroy
      <3>4. \A t \in Scenes \ D : external'[t] = external[t]
            BY <2>2 DEF Destroy
      <3> QED  BY <2>2, <3>1, <3>2, <3>3, <3>4
    <2>4. current \in Scenes \cup {None}
          BY DEF TypeOK
    <2>5. ~EntryAhead /\ ~EntryAhead' /\ Ahead(agenda') = {}
          BY <2>1 DEF EntryAhead, Ahead
    <2>6. \A t \in Scenes : t # current' => externalCount'[t] = 0
          BY <2>1, <2>3 DEF Joined
    <2>7. current # None => HoldsEvery(current)'
      <3>1. Persistent' = Persistent
            BY <2>1 DEF Persistent
      <3> QED  BY <2>1, <2>2, <2>3, <2>4, <2>5, <3>1 DEF Joined, HoldsEvery
    <2>8. current = None => Persistent' = {}
          BY <2>1 DEF Joined, Persistent
    <2> QED  BY <2>1, <2>5, <2>6, <2>7, <2>8 DEF Joined
  <1>3. ASSUME NEW s \in Scenes, NEW type \in TransitionTypes, ChangeScene(s, type)
        PROVE  Joined'
    <2>1. /\ current = None /\ agenda' = CompleteTransition(None, s) /\ s # None
          /\ UNCHANGED <<externalCount, registry, current>>
          BY <1>3, NoneAssumption DEF ChangeScene, Switching, collectionVars, registryVars
    <2>2. \A c \in Ahead(agenda') : c.op \in EntryOps => c.scene = s /\ c.op = "enter"
      <3>1. Ahead(agenda') = {Call("enter", s), Call("initialize", s), Call("activate", s),
                              Call("settle", s)}
        <4>1. \A op : Leaving(IF None = s THEN None ELSE None) = {}
              BY DEF Leaving
        <4> QED  BY <2>1, <4>1, AheadMethods
      <3> QED  BY <3>1 DEF Call, EntryOps
    <2>3. \A t \in Scenes : externalCount'[t] = 0
          BY <2>1, NoneAssumption DEF Joined
    <2>4. Persistent' = {}
          BY <2>1 DEF Joined, Persistent
    <2> QED  BY <2>1, <2>2, <2>3, <2>4 DEF Joined
  <1>4. ASSUME NEW p \in Objects, PersistObject(p) PROVE Joined'
    <2>1. ~EntryAhead
      <3>1. PICK point \in PersistPoints : Callback(point)
            BY <1>4 DEF PersistObject
      <3>2. point \in CallbackPoints /\ point # "deactivate"
            BY <3>1, HostAssumption DEF Switching
      <3> QED  BY <3>1, <3>2, CallbackAttached
    <2>2. /\ current \in Scenes /\ HoldsEvery(current)
          /\ UNCHANGED <<injected, current, agenda>>
          BY <1>4, <2>1 DEF PersistObject, TypeOK, Joined, sceneVars, managerVars
    <2>3. CASE UNCHANGED <<external, externalCount, registry>>
          BY <1>1, <2>2, <2>3
    <2>4. CASE /\ p \notin Persistent
               /\ \E i \in RegistrySlots : RegistryAdd(p, i)
               /\ InjectAll(current, {p})
      <3>1. Persistent' = Persistent \cup {p}
        <4>1. PICK i \in RegistrySlots : RegistryAdd(p, i)
              BY <2>4
        <4>2. \A j \in RegistrySlots : registry'[j] = IF j = i THEN p ELSE registry[j]
              BY <4>1 DEF RegistryAdd, TypeOK
        <4>3. registry[i] = None
              BY <4>1 DEF RegistryAdd
        <4> QED  BY <4>2, <4>3, NoneAssumption DEF Persistent
      <3>2. /\ Cardinality(Persistent') = Cardinality(Persistent) + 1
            /\ Cardinality(Persistent) + 1 <= MaxExternal
            /\ Cardinality({p}) = 1 /\ Cardinality(Persistent) \in Nat
        <4>1. IsFiniteSet(Persistent) /\ Cardinality(Persistent) \in 0 .. MaxPersistent
              BY PersistentBound DEF Persistent, TypeOK
        <4>2. Cardinality(Persistent') \in 0 .. MaxPersistent
          <5>1. registry' \in [RegistrySlots -> Objects \cup {None}]
                BY DEF TypeOK
          <5> QED  BY <5>1, PersistentBound DEF Persistent
        <4>3. Cardinality(Persistent') = Cardinality(Persistent) + 1
              BY <2>4, <3>1, <4>1, FS_AddElement
        <4>4. Cardinality({p}) = 1
              BY FS_Singleton
        <4> QED  BY <4>1, <4>2, <4>3, <4>4, BoundsAssumption
      <3>3. /\ \A t \in Scenes : externalCount'[t] =
                   IF t = current THEN externalCount[current] + 1 ELSE externalCount[t]
            /\ \A o \in Objects : external'[current][o] =
                   IF o = p THEN external[current][o] + 1 ELSE external[current][o]
        <4>1. externalCount[current] + Cardinality({p}) <= MaxExternal
              BY <2>2, <3>2 DEF HoldsEvery
        <4> QED  BY <2>2, <2>4, <3>2, <4>1, InjectExact
      <3>4. HoldsEvery(current)'
            BY <2>2, <2>4, <3>1, <3>2, <3>3 DEF HoldsEvery
      <3> QED  BY <2>1, <2>2, <3>3, <3>4, NoneAssumption DEF Joined, EntryAhead
    <2> QED  BY <1>4, <2>3, <2>4 DEF PersistObject, collectionVars, registryVars
  <1>5. /\ \A s \in Scenes : SwitchTo(s)
                => UNCHANGED <<injected, external, externalCount, registry, current, agenda>>
        /\ \A o \in Objects, s \in Scenes : AddObject(o, s)
                => UNCHANGED <<injected, external, externalCount, registry, current, agenda>>
        /\ \A o \in Objects : RemoveObject(o) \/ UnpersistObject(o)
                => UNCHANGED <<injected, external, externalCount, registry, current, agenda>>
        BY DEF SwitchTo, AddObject, RemoveObject, UnpersistObject, sceneVars,
               collectionVars, registryVars, managerVars
  <1> QED  BY <1>1, <1>2, <1>3, <1>4, <1>5 DEF Host

LEMMA EngineJoined ==
    ASSUME MaxPersistent <= MaxExternal, TypeOK, Attached, Joined, Engine \/ Frame
    PROVE  Joined'
  <1>0. /\ agenda \in Seq(Calls) /\ current \in Scenes \cup {None}
        /\ pending \in Scenes \cup {None}
        BY DEF TypeOK
  <1>1. /\ EntryAhead <=> \E c \in Ahead(agenda) : c.op \in EntryOps
        /\ EntryAhead' <=> \E c \in Ahead(agenda') : c.op \in EntryOps
        BY DEF EntryAhead, Ahead
  <1>2. ASSUME UNCHANGED <<injected, external, externalCount, registry, current>>,
               \A c \in Ahead(agenda') : c \in Ahead(agenda) \/ c.op \notin EntryOps,
               \A c \in Ahead(agenda) : c \in Ahead(agenda') \/ c.op \notin EntryOps
        PROVE  Joined'
    <2>1. EntryAhead' <=> EntryAhead
          BY <1>1, <1>2
    <2>2. Persistent' = Persistent
          BY <1>2 DEF Persistent
    <2>3. current # None /\ ~EntryAhead => HoldsEvery(current)'
          BY <1>2, <2>2 DEF Joined, HoldsEvery
    <2> QED  BY <1>2, <2>1, <2>2, <2>3 DEF Joined
  <1>3. ~Running("transition") /\ ~Running("fadeIn")
    <2>1. agenda # <<>> => 1 \in DOMAIN agenda /\ Head(agenda) = agenda[1]
          BY <1>0, EmptySeq, LenProperties
    <2> QED  BY <2>1 DEF Running, Attached, Orderly
  <1>4. ASSUME agenda # <<>>, agenda' = Tail(agenda), Head(agenda).op \notin EntryOps,
               UNCHANGED <<injected, external, externalCount, registry, current>>
        PROVE  Joined'
        BY <1>0, <1>2, <1>4, AheadTail
  <1>5. ASSUME Frame PROVE Joined'
    <2>1. agenda = <<>> /\ UNCHANGED <<injected, external, externalCount, registry, current>>
          BY <1>5 DEF Frame, sceneVars, collectionVars, registryVars, managerVars
    <2>2. agenda' = <<Call("update", None), Call("deferred", None)>>
      <3>1. <<Call("update", None), Call("deferred", None)>> \in Seq(Calls)
            BY DEF Call, Calls, Ops, CallbackPoints
      <3> QED  BY <1>5, <3>1, ConcatEmptySeq DEF Frame, Attached
    <2>3. \A c \in Ahead(agenda') : c.op \notin EntryOps
          BY <2>2 DEF Ahead, Call, EntryOps
    <2>4. Ahead(agenda) = {}
          BY <2>1 DEF Ahead
    <2> QED  BY <1>2, <2>1, <2>3, <2>4
  <1>6. ASSUME UpdateScene \/ DeactivateScene \/ InitializeScene \/ ActivateScene
                  \/ SettleTransition
        PROVE  Joined'
    <2>1. /\ agenda # <<>> /\ agenda' = Tail(agenda) /\ Head(agenda).op \notin EntryOps
          BY <1>6 DEF UpdateScene, DeactivateScene, InitializeScene, ActivateScene,
                      SettleTransition, Running, Return, EntryOps
    <2>2. UNCHANGED <<injected, external, externalCount, registry, current>>
          BY <1>6 DEF UpdateScene, DeactivateScene, InitializeScene, ActivateScene,
                      SettleTransition, sceneVars, collectionVars, registryVars, managerVars
    <2> QED  BY <1>4, <2>1, <2>2
  <1>7. ASSUME TakePending PROVE Joined'
    <2>1. /\ agenda # <<>> /\ Head(agenda).op = "deferred"
          /\ UNCHANGED <<injected, current>>
          BY <1>7 DEF TakePending, Running, sceneVars
    <2>2. CASE agenda' = Tail(agenda) /\ UNCHANGED <<registryVars, external, externalCount>>
          BY <1>4, <2>1, <2>2 DEF EntryOps, registryVars
    <2>3. CASE /\ pending # None
               /\ FlushAndDetach(current)
               /\ agenda' = ApplyDeferredTransition(current, pending) \o Tail(agenda)
      <3>1. ~EntryAhead
        <4>1. Tail(agenda) \in Seq(Calls) /\ Plain(Tail(agenda))
              BY <1>0, <2>1, AheadTail, OrderlyTail DEF Attached, EntryOps
        <4>2. \A c \in Ahead(Tail(agenda)) : c.op \notin EntryOps
              BY <4>1 DEF Plain, PlainOps, Ahead
        <4> QED  BY <1>0, <1>1, <2>1, <4>2, AheadTail DEF EntryOps
      <3>2. Ahead(agenda') = Leaving(current) \cup
                {Call(IF current = pending THEN "reset" ELSE "enterSwitch", pending),
                 Call("initialize", pending), Call("activate", pending)}
                \cup Ahead(Tail(agenda))
        <4>1. /\ Tail(agenda) \in Seq(Calls)
              /\ ApplyDeferredTransition(current, pending) \in Seq(Calls)
              BY <1>0, <2>1, AheadTail, AgendaTypes
        <4>2. Ahead(agenda') = Ahead(ApplyDeferredTransition(current, pending))
                                  \cup Ahead(Tail(agenda))
              BY <2>3, <4>1, AheadConcat
        <4>3. Ahead(ApplyDeferredTransition(current, pending)) = Leaving(current) \cup
                {Call(IF current = pending THEN "reset" ELSE "enterSwitch", pending),
                 Call("initialize", pending), Call("activate", pending)}
              BY <1>0, AheadMethods
        <4> QED  BY <4>2, <4>3
      <3>3. \A c \in Ahead(Tail(agenda)) : c.op \notin EntryOps
            BY <1>0, <1>1, <2>1, <3>1, AheadTail
      <3>4. \A c \in Ahead(agenda') :
                c.op \in EntryOps => c.scene = pending /\ c.op \in {"reset", "enterSwitch"}
        <4>1. \A op, s : Call(op, s).op = op /\ Call(op, s).scene = s
              BY DEF Call
        <4>2. \A c \in Leaving(current) : c.op = "deactivate"
              BY <4>1 DEF Leaving
        <4> QED  BY <3>2, <3>3, <4>1, <4>2 DEF EntryOps
      <3>5. EntryAhead'
        <4>1. Call(IF current = pending THEN "reset" ELSE "enterSwitch", pending) \in Ahead(agenda')
              BY <3>2
        <4>2. Call(IF current = pending THEN "reset" ELSE "enterSwitch", pending).op \in EntryOps
              BY DEF Call, EntryOps
        <4> QED  BY <1>1, <4>1, <4>2
      <3>6. \A s \in Scenes : externalCount'[s] = 0
        <4>1. CASE current = None
          <5>1. UNCHANGED externalCount
                BY <2>3, <4>1 DEF FlushAndDetach
          <5> QED  BY <4>1, <5>1, NoneAssumption DEF Joined
        <4>2. CASE current # None
          <5>1. externalCount' = [externalCount EXCEPT ![current] = 0]
                BY <2>3, <4>2 DEF FlushAndDetach
          <5> QED  BY <1>0, <4>2, <5>1 DEF Joined, TypeOK
        <4> QED  BY <4>1, <4>2
      <3>7. current = None => Persistent' = {}
        <4>1. \A i \in RegistrySlots : registry'[i] \in {registry[i], None}
              BY <2>3 DEF FlushAndDetach
        <4> QED  BY <4>1, NoneAssumption DEF Joined, Persistent
      <3> QED  BY <2>1, <2>3, <3>4, <3>5, <3>6, <3>7 DEF Joined
    <2> QED  BY <1>7, <2>2, <2>3 DEF TakePending, Return
  <1>8. ASSUME agenda # <<>>, agenda' = Tail(agenda), Head(agenda).op \in EntryOps,
               current' = Head(agenda).scene, UNCHANGED registry
        PROVE  /\ EntryAhead /\ ~EntryAhead' /\ NoneHeld
               /\ current' \in Scenes
               /\ \A s \in Scenes : externalCount[s] = 0
               /\ Head(agenda).op # "enterFade"
               /\ Head(agenda).op = "enter" => Persistent = {}
               /\ (\A s \in Scenes : s # current' => externalCount'[s] = 0)
                     /\ HoldsEvery(current)' => Joined'
    <2>1. Head(agenda) \in Ahead(agenda) /\ Head(agenda) \in Calls
          BY <1>0, <1>8, AheadTail
    <2>2. /\ EntryAhead /\ current' \in Scenes
          /\ Head(agenda).op # "enterFade"
          /\ Head(agenda).op = "enter" => Persistent = {}
          BY <1>1, <1>8, <2>1 DEF Joined, Calls
    <2>3. NoneHeld /\ ~EntryAhead'
          BY <1>1, <1>8, EntryReturns DEF EntryAhead
    <2>4. \A s \in Scenes : externalCount[s] = 0
          BY <2>2 DEF Joined
    <2>5. ASSUME \A s \in Scenes : s # current' => externalCount'[s] = 0, HoldsEvery(current)'
          PROVE  Joined'
      <3>1. \A c \in Ahead(agenda') : c.op \notin EntryOps
            BY <1>1, <2>3
      <3>2. current' # None
            BY <2>2, NoneAssumption
      <3> QED  BY <2>3, <2>5, <3>1, <3>2 DEF Joined
    <2> QED  BY <2>2, <2>3, <2>4, <2>5
  <1>9. ASSUME NEW op \in {"enter", "enterFade"}, EnterScene(op) PROVE Joined'
    <2>1. /\ agenda # <<>> /\ agenda' = Tail(agenda) /\ Head(agenda).op = op
          /\ op \in EntryOps /\ current' = Head(agenda).scene
          /\ injected' = [injected EXCEPT ![Head(agenda).scene] = @ \/ op = "enter"]
          /\ UNCHANGED <<external, externalCount, registry>>
          BY <1>9 DEF EnterScene, Running, Return, EntryOps, collectionVars, registryVars
    <2>2. op = "enter" /\ Persistent' = {} /\ current' \in Scenes
      <3>1. op = "enter" /\ Persistent = {} /\ current' \in Scenes
            BY <1>8, <2>1
      <3> QED  BY <2>1, <3>1 DEF Persistent
    <2>3. injected'[current']
          BY <2>1, <2>2 DEF TypeOK
    <2>4. HoldsEvery(current)'
      <3>1. externalCount'[current'] = 0 /\ external'[current'] = NoExternal
            BY <1>8, <2>1 DEF NoneHeld
      <3>2. Cardinality(Persistent') = 0
            BY <2>2, FS_EmptySet
      <3> QED  BY <2>2, <2>3, <3>1, <3>2 DEF HoldsEvery, NoExternal
    <2> QED  BY <1>8, <2>1, <2>4
  <1>10. ASSUME NEW op \in {"enterSwitch", "reset"}, SwitchScene(op) PROVE Joined'
    <2>1. /\ agenda # <<>> /\ agenda' = Tail(agenda) /\ Head(agenda).op \in EntryOps
          /\ current' = Head(agenda).scene
          /\ injected' = [injected EXCEPT ![Head(agenda).scene] = TRUE]
          /\ InjectAll(Head(agenda).scene, Persistent)
          /\ UNCHANGED registry
          BY <1>10 DEF SwitchScene, Running, Return, EntryOps, registryVars
    <2>2. /\ current' \in Scenes /\ NoneHeld
          /\ \A s \in Scenes : externalCount[s] = 0
          BY <1>8, <2>1
    <2>3. Persistent' = Persistent /\ Persistent \in SUBSET Objects
          BY <2>1 DEF Persistent
    <2>4. Cardinality(Persistent) \in Nat /\ Cardinality(Persistent) <= MaxExternal
      <3>1. Cardinality(Persistent) \in 0 .. MaxPersistent
            BY PersistentBound DEF Persistent, TypeOK
      <3> QED  BY <3>1, BoundsAssumption
    <2>5. /\ \A t \in Scenes : externalCount'[t] =
                 IF t = current' THEN Cardinality(Persistent) ELSE 0
          /\ \A o \in Objects : external'[current'][o] = IF o \in Persistent THEN 1 ELSE 0
      <3>1. externalCount[current'] + Cardinality(Persistent) = Cardinality(Persistent)
            BY <2>2, <2>4
      <3>2. /\ \A t \in Scenes : externalCount'[t] =
                 IF t = current' THEN externalCount[current'] + Cardinality(Persistent)
                 ELSE externalCount[t]
            /\ \A t \in Scenes, o \in Objects : external'[t][o] =
                 IF t = current' /\ o \in Persistent THEN external[current'][o] + 1
                 ELSE external[t][o]
            BY <2>1, <2>2, <2>3, <2>4, <3>1, InjectExact
      <3>3. \A o \in Objects : external[current'][o] = 0
            BY <2>2 DEF NoneHeld, NoExternal
      <3> QED  BY <2>2, <3>1, <3>2, <3>3
    <2>6. injected'[current']
          BY <2>1, <2>2 DEF TypeOK
    <2>7. HoldsEvery(current)'
          BY <2>2, <2>3, <2>5, <2>6 DEF HoldsEvery
    <2> QED  BY <1>8, <2>1, <2>5, <2>7
  <1> QED  BY <1>3, <1>5, <1>6, <1>7, <1>9, <1>10 DEF Engine, UpdateTransition, StartFadeIn

(* The scene that is updated holds every persistent object once, whatever  *)
(* the callbacks persist, condemn and switch to.                           *)
THEOREM PersistentObjectsParticipate ==
    Switching /\ MaxPersistent <= MaxExternal => (Spec => []ParticipatesOnce)
  <1>1. Init => Joined
    <2> SUFFICES ASSUME Init PROVE Joined
          OBVIOUS
    <2>1. Ahead(agenda) = {} /\ Persistent = {}
          BY NoneAssumption DEF Init, Ahead, Persistent
    <2> QED  BY <2>1 DEF Init, Joined
  <1>2. ASSUME Switching, MaxPersistent <= MaxExternal, TypeOK, TypeOK', SwitchInv, TableSound,
               Joined, [Next]_vars
        PROVE  Joined'
    <2>1. UniqueOwner /\ Attached
          BY <1>2, SwitchInvParts
    <2>2. CASE UNCHANGED vars
      <3>1. UNCHANGED <<injected, external, externalCount, registry, current, agenda>>
            BY <2>2 DEF vars, sceneVars, collectionVars, registryVars, managerVars
      <3> QED  BY <1>2, <3>1 DEF Joined, EntryAhead, HoldsEvery, Persistent
    <2> QED  BY <1>2, <2>1, <2>2, HostJoined, EngineJoined DEF Next
  <1>3. Switching /\ MaxPersistent <= MaxExternal /\ TypeOK /\ TypeOK' /\ SwitchInv
            /\ TableSound /\ Joined /\ [Next]_vars => Joined'
        BY <1>2
  <1>4. Switching /\ MaxPersistent <= MaxExternal =>
            [](Switching /\ MaxPersistent <= MaxExternal)
    <2>1. Switching /\ MaxPersistent <= MaxExternal =>
              (Switching /\ MaxPersistent <= MaxExternal)'
          BY DEF Switching
    <2> QED  BY <2>1, PTL
  <1>5. SwitchInv /\ TableSound /\ Joined => ParticipatesOnce
    <2> SUFFICES ASSUME SwitchInv, TableSound, Joined, current # None,
                        Callback("idle") \/ Callback("update")
                 PROVE  /\ Registered(current) /\ injected[current]
                        /\ \A o \in Objects :
                               external[current][o] = IF o \in Persistent THEN 1 ELSE 0
          BY DEF ParticipatesOnce
    <2>1. ~EntryAhead
          BY SwitchInvParts, CallbackAttached DEF CallbackPoints
    <2> QED  BY <2>1 DEF TableSound, Joined, HoldsEvery
  <1>6. Switching => Steady
        BY DEF Switching, Steady
  <1> QED  BY <1>1, <1>3, <1>4, <1>5, <1>6, TypeCorrect, SwitchInvHolds, TableHolds, PTL
           DEF Spec

=============================================================================
