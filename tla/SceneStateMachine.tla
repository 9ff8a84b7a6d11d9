------------------------- MODULE SceneStateMachine -------------------------
(***************************************************************************)
(* The scene manager of enjin2: SceneStateMachine, the Scene lifecycle it  *)
(* drives, the PersistentObjectRegistry it owns and the ownership side of  *)
(* ObjectCollection (its loops are not modelled here).                     *)
(*                                                                         *)
(* The engine is single-threaded; what interleaves with it is the host:    *)
(* C++ overrides (onCreate, onActivate, onUpdate, onDeactivate) and Lua    *)
(* scripts that call back into the manager while one of its methods is     *)
(* half done.  A method is therefore the list of the calls it still has to *)
(* make (agenda); whenever the call at its head runs a host callback, the  *)
(* host operations may be taken before the call returns.                   *)
(*                                                                         *)
(* A scene is its id and an object is its address; an address is not       *)
(* reused, so a pointer to a dead object can be told from a live one.      *)
(***************************************************************************)
EXTENDS Naturals, FiniteSets, Sequences

CONSTANTS
    Scenes,         \* scene ids the host registers
    Objects,        \* addresses of objects
    None,           \* nullptr
    MaxScenes,      \* MAX_SCENES
    MaxObjects,     \* ObjectCollection::MAX_OBJECTS
    MaxExternal,    \* ObjectCollection::MAX_EXTERNAL
    MaxPersistent,  \* PersistentObjectRegistry::MAX_PERSISTENT
    Duration,       \* transitionDuration, in ticks of the frame clock
    MaxDt,          \* longest frame, in ticks (bounds the inputs of update)
    (* What this host does with the C++ API: *)
    ChangeTypes,    \* the TransitionTypes it passes to changeScene
    PersistPoints,  \* the callbacks from which it persists objects
    Removable       \* the scenes it may pass to removeScene

Immediate == "IMMEDIATE"
Fade      == "FADE_OUT_IN"
Slide     == "SLIDE"            \* the four SLIDE_* types share their control

TransitionTypes  == {Immediate, Fade, Slide}
TransitionStates == {"IDLE", "FADING_OUT", "FADING_IN", "SLIDING"}
CallbackPoints   == {"idle", "update", "initialize", "activate", "deactivate"}

ASSUME NoneAssumption == None \notin Scenes /\ None \notin Objects
ASSUME BoundsAssumption ==
    /\ MaxScenes \in Nat \ {0} /\ MaxObjects \in Nat
    /\ MaxExternal \in Nat /\ MaxPersistent \in Nat
    /\ Duration \in Nat \ {0} /\ MaxDt \in Nat \ {0}
ASSUME FiniteAssumption == IsFiniteSet(Objects)
ASSUME HostAssumption ==
    /\ ChangeTypes \subseteq TransitionTypes
    /\ PersistPoints \subseteq CallbackPoints
    /\ Removable \subseteq Scenes

VARIABLES
    slots,          \* scenes[]: which scene each slot of the table owns
    sceneCount,     \* sceneCount
    active,         \* Scene::active
    initialized,    \* Scene::initialized
    injected,       \* Scene::m_ssm is set
    owned,          \* the objects each scene's ObjectCollection owns
    external,       \* m_external of each scene: how often it holds an object
    externalCount,  \* m_externalCount of each scene
    object,         \* "unborn", "live" or "dead"
    registry,       \* PersistentObjectRegistry::objects
    pendingRemoval, \* PersistentObjectRegistry::pendingRemoval
    current,        \* currentScene
    next,           \* nextScene
    transition,     \* [state, type, timer]: the transition* members
    pending,        \* pendingSceneId, or None when hasPendingTransition is false
    agenda          \* the calls the running method has still to make

sceneVars      == <<active, initialized, injected>>
tableVars      == <<slots, sceneCount>>
collectionVars == <<owned, external, externalCount>>
registryVars   == <<registry, pendingRemoval>>
managerVars    == <<current, next, transition, pending>>
vars == <<tableVars, sceneVars, collectionVars, object, registryVars,
          managerVars, agenda>>

SceneSlots    == 1 .. MaxScenes
RegistrySlots == 1 .. MaxPersistent
Ops == CallbackPoints \cup {"transition", "deferred", "enter", "enterFade",
                            "fadeIn", "enterSwitch", "reset", "settle"}
Calls == [op : Ops, scene : Scenes \cup {None}]
Call(op, s) == [op |-> op, scene |-> s]

Registered(s) == \E i \in 1 .. sceneCount : slots[i] = s
Allocated(s)  == \E i \in SceneSlots : slots[i] = s
Persistent    == {o \in Objects : \E i \in RegistrySlots : registry[i] = o}
Condemned     == {o \in Objects :
                    \E i \in RegistrySlots : registry[i] = o /\ pendingRemoval[i]}

-----------------------------------------------------------------------------
(* Which host callback, if any, the call at the head of the agenda runs.   *)
(* Scene::deactivate, initialize and activate return before the callback   *)
(* when there is nothing to do, and Scene::update when it is not active.   *)

Running(op) == agenda # <<>> /\ Head(agenda).op = op

Callback(point) ==
    CASE point = "idle"       -> agenda = <<>>
      [] point = "update"     -> Running(point) /\ current # None /\ active[current]
      [] point = "initialize" -> Running(point) /\ ~initialized[Head(agenda).scene]
      [] point = "activate"   -> Running(point) /\ ~active[Head(agenda).scene]
      [] point = "deactivate" -> Running(point) /\ active[Head(agenda).scene]

HostRuns == \E point \in CallbackPoints : Callback(point)

-----------------------------------------------------------------------------
(* Helpers of ObjectCollection and PersistentObjectRegistry.               *)

NoExternal == [o \in Objects |-> 0]

(* (Slip: the capacity test is off by one.)                                *)
InjectOneShort(s, S) ==
    \E kept \in SUBSET S :
        /\ externalCount[s] + Cardinality(kept) < MaxExternal
        /\ kept = S \/ externalCount[s] + Cardinality(kept) = MaxExternal - 1
        /\ external' = [external EXCEPT ![s] =
                [o \in Objects |-> IF o \in kept THEN @[o] + 1 ELSE @[o]]]
        /\ externalCount' = [externalCount EXCEPT ![s] = @ + Cardinality(kept)]

(* injectExternal for every member of S; once m_external is full the rest  *)
(* are dropped without notice.  Which ones are left out depends on the     *)
(* slot order, which nothing else depends on.                              *)
InjectAll(s, S) ==
    \E kept \in SUBSET S :
        /\ externalCount[s] + Cardinality(kept) <= MaxExternal
        /\ kept = S \/ externalCount[s] + Cardinality(kept) = MaxExternal
        /\ external' = [external EXCEPT ![s] =
                [o \in Objects |-> IF o \in kept THEN @[o] + 1 ELSE @[o]]]
        /\ externalCount' = [externalCount EXCEPT ![s] = @ + Cardinality(kept)]

(* (Slip: the pointers of the scene that is left are not cleared.)         *)
FlushWithoutDetach(s) ==
    /\ registry' = [i \in RegistrySlots |->
                        IF pendingRemoval[i] THEN None ELSE registry[i]]
    /\ pendingRemoval' = [i \in RegistrySlots |-> FALSE]
    /\ object' = [o \in Objects |-> IF o \in Condemned THEN "dead" ELSE object[o]]
    /\ UNCHANGED <<external, externalCount>>

(* (Slip: the flush destroys the object but keeps its slot.)               *)
FlushKeepsSlot(s) ==
    /\ pendingRemoval' = [i \in RegistrySlots |-> FALSE]
    /\ object' = [o \in Objects |-> IF o \in Condemned THEN "dead" ELSE object[o]]
    /\ external' = [t \in Scenes |-> IF t = s THEN NoExternal ELSE external[t]]
    /\ externalCount' = [t \in Scenes |-> IF t = s THEN 0 ELSE externalCount[t]]
    /\ UNCHANGED registry

(* flushPendingRemovals() of the registry, then clearExternal() of scene s.*)
FlushAndDetach(s) ==
    /\ registry' = [i \in RegistrySlots |->
                        IF pendingRemoval[i] THEN None ELSE registry[i]]
    /\ pendingRemoval' = [i \in RegistrySlots |-> FALSE]
    /\ object' = [o \in Objects |-> IF o \in Condemned THEN "dead" ELSE object[o]]
    /\ IF s = None
       THEN UNCHANGED <<external, externalCount>>
       ELSE /\ external' = [external EXCEPT ![s] = NoExternal]
            /\ externalCount' = [externalCount EXCEPT ![s] = 0]

(* ~Scene of every scene in D: its collection destroys the objects it owns *)
(* and the fields are as a scene added later will find them.               *)
Destroy(D) ==
    LET lost == UNION {owned[s] : s \in D} IN
    /\ object' = [o \in Objects |-> IF o \in lost THEN "dead" ELSE object[o]]
    /\ owned' = [s \in Scenes |-> IF s \in D THEN {} ELSE owned[s]]
    /\ external' = [s \in Scenes |-> IF s \in D THEN NoExternal ELSE external[s]]
    /\ externalCount' = [s \in Scenes |-> IF s \in D THEN 0 ELSE externalCount[s]]
    /\ active' = [s \in Scenes |-> s \notin D /\ active[s]]
    /\ initialized' = [s \in Scenes |-> s \notin D /\ initialized[s]]
    /\ injected' = [s \in Scenes |-> s \notin D /\ injected[s]]

-----------------------------------------------------------------------------
(* Host operations: what C++ and Lua may call while one of their callbacks *)
(* runs, or between two frames.                                            *)

(* addScene(s).  The slot it takes may still hold a scene that removeScene *)
(* left there, also one of the same id: assigning the slot destroys it.    *)
(* (The code looks at the registered scenes only.  An id whose old scene   *)
(* lives on elsewhere, behind the slot that is taken or as the current or  *)
(* the next scene, would name two scenes: it is not added here.)           *)
AddScene(s) ==
    LET freed == slots[sceneCount + 1] IN
    /\ agenda = <<>>
    /\ sceneCount < MaxScenes
    /\ ~Registered(s)
    /\ \A i \in SceneSlots : slots[i] = s => i = sceneCount + 1
    /\ s \notin {current, next}
    /\ slots' = [slots EXCEPT ![sceneCount + 1] = s]
    /\ sceneCount' = sceneCount + 1
    /\ Destroy({freed} \ {None})
    /\ UNCHANGED <<registryVars, managerVars, agenda>>

(* removeScene(s): refuses the current scene only.  The scenes behind s    *)
(* move down one slot, which destroys s; removing the last one leaves its  *)
(* unique_ptr in the slot.                                                 *)
RemoveScene(s) ==
    /\ agenda = <<>>
    /\ s \in Removable
    /\ s # current
    /\ \E i \in 1 .. sceneCount :
        /\ slots[i] = s
        /\ slots' = [k \in SceneSlots |->
                        IF k \in i .. (sceneCount - 1) THEN slots[k + 1]
                        ELSE IF k = sceneCount /\ i < sceneCount THEN None
                        ELSE slots[k]]
        /\ Destroy(IF i < sceneCount THEN {s} ELSE {})
    /\ sceneCount' = sceneCount - 1
    /\ UNCHANGED <<registryVars, managerVars, agenda>>

(* ObjectCollection::addObject of scene s, or engine.scene.spawn.          *)
AddObject(o, s) ==
    /\ HostRuns
    /\ Registered(s)
    /\ object[o] = "unborn"
    /\ Cardinality(owned[s]) < MaxObjects
    /\ object' = [object EXCEPT ![o] = "live"]
    /\ owned' = [owned EXCEPT ![s] = @ \cup {o}]
    /\ UNCHANGED <<tableVars, sceneVars, external, externalCount, registryVars,
                   managerVars, agenda>>

(* ObjectCollection::removeObject of the scene that owns o.                *)
RemoveObject(o) ==
    /\ HostRuns
    /\ \E s \in Scenes :
        /\ Registered(s)
        /\ o \in owned[s]
        /\ owned' = [owned EXCEPT ![s] = @ \ {o}]
    /\ object' = [object EXCEPT ![o] = "dead"]
    /\ UNCHANGED <<tableVars, sceneVars, external, externalCount, registryVars,
                   managerVars, agenda>>

(* PersistentObjectRegistry::add: the first free slot.                     *)
RegistryAdd(o, i) ==
    /\ registry[i] = None
    /\ \A j \in RegistrySlots : registry[j] = None => i <= j
    /\ registry' = [registry EXCEPT ![i] = o]
    /\ pendingRemoval' = [pendingRemoval EXCEPT ![i] = FALSE]

(* persistObject(o): already persistent, extracted and registered, or      *)
(* extracted and lost because the registry is full.  (An object that the   *)
(* current scene does not own is refused: nothing changes.)                *)
PersistObject(o) ==
    /\ \E point \in PersistPoints : Callback(point)
    /\ current # None
    /\ \/ /\ o \in Persistent
          /\ UNCHANGED <<collectionVars, object, registryVars>>
       \/ /\ o \notin Persistent
          /\ o \in owned[current]
          /\ owned' = [owned EXCEPT ![current] = @ \ {o}]
          /\ \/ \E i \in RegistrySlots :
                    /\ RegistryAdd(o, i)
                    /\ InjectAll(current, {o})
                    /\ UNCHANGED object
             \/ /\ \A i \in RegistrySlots : registry[i] # None
                /\ object' = [object EXCEPT ![o] = "dead"]
                /\ UNCHANGED <<external, externalCount, registryVars>>
    /\ UNCHANGED <<tableVars, sceneVars, managerVars, agenda>>

(* (Slip: the object is destroyed at once.)                                *)
UnpersistNow(o) ==
    /\ HostRuns
    /\ \E i \in RegistrySlots :
        /\ registry[i] = o
        /\ registry' = [registry EXCEPT ![i] = None]
    /\ object' = [object EXCEPT ![o] = "dead"]
    /\ UNCHANGED <<tableVars, sceneVars, collectionVars, pendingRemoval,
                   managerVars, agenda>>

(* unpersistObject(o): markForRemoval.                                     *)
UnpersistObject(o) ==
    /\ HostRuns
    /\ \E i \in RegistrySlots :
        /\ registry[i] = o
        /\ pendingRemoval' = [pendingRemoval EXCEPT ![i] = TRUE]
    /\ UNCHANGED <<tableVars, sceneVars, collectionVars, object, registry,
                   managerVars, agenda>>

(* switchTo(s): the last request of a frame wins; unknown ids are ignored. *)
SwitchTo(s) ==
    /\ HostRuns
    /\ Registered(s)
    /\ pending' = s
    /\ UNCHANGED <<tableVars, sceneVars, collectionVars, object, registryVars,
                   current, next, transition, agenda>>

-----------------------------------------------------------------------------
(* The call sequences of the manager's own methods.                        *)

Deactivate(s) == IF s = None THEN <<>> ELSE <<Call("deactivate", s)>>

(* completeTransition(): the old scene is left alone if it is already the  *)
(* next one.                                                               *)
CompleteTransition(from, to) ==
    Deactivate(IF from = to THEN None ELSE from) \o
    <<Call("enter", to), Call("initialize", to), Call("activate", to),
      Call("settle", to)>>

(* The halfway point of a fade, in updateTransition().                     *)
FadeHalfway(from, to) ==
    Deactivate(from) \o
    <<Call("enterFade", to), Call("initialize", to), Call("activate", to),
      Call("fadeIn", to)>>

(* startTransition(): a slide brings the next scene up beside the current. *)
StartTransition(type, to) ==
    IF type = Slide
    THEN <<Call("initialize", to), Call("activate", to)>>
    ELSE <<>>

(* (Slip: the scene that is left stays active.)                            *)
SwitchWithoutLeaving(from, to) ==
    <<Call(IF from = to THEN "reset" ELSE "enterSwitch", to),
      Call("initialize", to), Call("activate", to)>>

(* applyDeferredTransition(): a self-transition resets the scene.          *)
ApplyDeferredTransition(from, to) ==
    Deactivate(from) \o
    <<Call(IF from = to THEN "reset" ELSE "enterSwitch", to),
      Call("initialize", to), Call("activate", to)>>

(* (Slip: the timer runs on from the transition before.)                   *)
BegunLate(type) ==
    [state |-> CASE type = Immediate -> "IDLE"
                 [] type = Fade      -> "FADING_OUT"
                 [] type = Slide     -> "SLIDING",
     type |-> type, timer |-> transition.timer]

(* The transition that changeScene sets up; an immediate one is over when  *)
(* changeScene returns.                                                    *)
Begun(type) ==
    [state |-> CASE type = Immediate -> "IDLE"
                 [] type = Fade      -> "FADING_OUT"
                 [] type = Slide     -> "SLIDING",
     type |-> type, timer |-> 0]

(* changeScene(s, type), called between two frames.                        *)
ChangeScene(s, type) ==
    /\ agenda = <<>>
    /\ type \in ChangeTypes \/ (current = None /\ type = Immediate)
    /\ Registered(s)
    /\ s # current
    /\ transition.state = "IDLE"
    /\ next' = s
    /\ transition' = Begun(type)
    /\ injected' = [injected EXCEPT ![s] = @ \/ type = Slide]
    /\ agenda' = IF type = Immediate THEN CompleteTransition(current, s)
                 ELSE StartTransition(type, s)
    /\ UNCHANGED <<tableVars, active, initialized, collectionVars, object,
                   registryVars, current, pending>>

(* update(dt) begins: a running transition, the current scene, then the    *)
(* deferred switch.                                                        *)
Frame ==
    /\ agenda = <<>>
    /\ agenda' = (IF transition.state = "IDLE" THEN <<>>
                  ELSE <<Call("transition", None)>>) \o
                 <<Call("update", None), Call("deferred", None)>>
    /\ UNCHANGED <<tableVars, sceneVars, collectionVars, object, registryVars,
                   managerVars>>

-----------------------------------------------------------------------------
(* The calls themselves.  A call on a scene that has been freed is         *)
(* undefined: the model has no step for it.                                *)

Return == agenda' = Tail(agenda)

(* (Slip: a fade that has reached its second half waits for the halfway    *)
(* point again and never completes.)                                       *)
StalledTransition(dt) ==
    LET elapsed == transition.timer + dt IN
    /\ Running("transition")
    /\ transition' = [transition EXCEPT
                        !.timer = IF 2 * elapsed >= Duration THEN Duration \div 2 ELSE elapsed]
    /\ agenda' = (IF 2 * elapsed >= Duration /\ transition.state = "FADING_OUT"
                  THEN FadeHalfway(current, next) ELSE <<>>) \o Tail(agenda)
    /\ UNCHANGED <<tableVars, sceneVars, collectionVars, object, registryVars,
                   current, next, pending>>

(* updateTransition(dt).  The last frame may take the timer past the       *)
(* duration: only the progress that the host is shown is clamped.          *)
UpdateTransition(dt) ==
    LET elapsed == transition.timer + dt
        halfway == /\ transition.type = Fade
                   /\ transition.state = "FADING_OUT"
                   /\ 2 * elapsed >= Duration
    IN
    /\ Running("transition")
    /\ transition' = [transition EXCEPT !.timer = elapsed]
    /\ agenda' = (CASE elapsed >= Duration -> CompleteTransition(current, next)
                    [] elapsed < Duration /\ halfway -> FadeHalfway(current, next)
                    [] OTHER -> <<>>) \o Tail(agenda)
    /\ UNCHANGED <<tableVars, sceneVars, collectionVars, object, registryVars,
                   current, next, pending>>

(* Scene::update of the current scene returns.                             *)
UpdateScene ==
    /\ Running("update")
    /\ current = None \/ Allocated(current)
    /\ Return
    /\ UNCHANGED <<tableVars, sceneVars, collectionVars, object, registryVars,
                   managerVars>>

(* The end of update(): the request is taken before it is applied, so that *)
(* one made while it is applied stays for the next frame.                  *)
TakePending ==
    /\ Running("deferred")
    /\ pending' = None
    /\ IF pending # None /\ Registered(pending)
       THEN /\ FlushAndDetach(current)
            /\ agenda' = ApplyDeferredTransition(current, pending) \o Tail(agenda)
       ELSE /\ Return
            /\ UNCHANGED <<registryVars, object, external, externalCount>>
    /\ UNCHANGED <<tableVars, sceneVars, owned, current, next, transition>>

(* Scene::deactivate, after onDeactivate.                                  *)
DeactivateScene ==
    /\ Running("deactivate")
    /\ Allocated(Head(agenda).scene)
    /\ active' = [active EXCEPT ![Head(agenda).scene] = FALSE]
    /\ Return
    /\ UNCHANGED <<tableVars, initialized, injected, collectionVars, object,
                   registryVars, managerVars>>

(* currentScene = next, with setStateMachine except at a fade's halfway.   *)
EnterScene(op) ==
    /\ Running(op)
    /\ op \in {"enter", "enterFade"}
    /\ current' = Head(agenda).scene
    /\ injected' = [injected EXCEPT ![Head(agenda).scene] = @ \/ op = "enter"]
    /\ Return
    /\ UNCHANGED <<tableVars, active, initialized, collectionVars, object,
                   registryVars, next, transition, pending>>

(* (Slip: the request is cleared again once it has been applied.)          *)
SwitchClearsPending(op) ==
    LET s == Head(agenda).scene IN
    /\ Running(op)
    /\ op \in {"enterSwitch", "reset"}
    /\ Allocated(s)
    /\ current' = s
    /\ injected' = [injected EXCEPT ![s] = TRUE]
    /\ initialized' = [initialized EXCEPT ![s] = @ /\ op = "enterSwitch"]
    /\ InjectAll(s, Persistent)
    /\ Return
    /\ pending' = None
    /\ UNCHANGED <<tableVars, active, owned, object, registryVars, next,
                   transition>>

(* The deferred switch enters its target, or resets the scene it is in:    *)
(* setStateMachine, then every persistent object is injected.              *)
SwitchScene(op) ==
    LET s == Head(agenda).scene IN
    /\ Running(op)
    /\ op \in {"enterSwitch", "reset"}
    /\ Allocated(s)
    /\ current' = s
    /\ injected' = [injected EXCEPT ![s] = TRUE]
    /\ initialized' = [initialized EXCEPT ![s] = @ /\ op = "enterSwitch"]
    /\ InjectAll(s, Persistent)
    /\ Return
    /\ UNCHANGED <<tableVars, active, owned, object, registryVars, next,
                   transition, pending>>

(* Scene::initialize, after onCreate.                                      *)
InitializeScene ==
    /\ Running("initialize")
    /\ Allocated(Head(agenda).scene)
    /\ initialized' = [initialized EXCEPT ![Head(agenda).scene] = TRUE]
    /\ Return
    /\ UNCHANGED <<tableVars, active, injected, collectionVars, object,
                   registryVars, managerVars>>

(* Scene::activate, after onActivate.                                      *)
ActivateScene ==
    /\ Running("activate")
    /\ Allocated(Head(agenda).scene)
    /\ active' = [active EXCEPT ![Head(agenda).scene] = TRUE]
    /\ Return
    /\ UNCHANGED <<tableVars, initialized, injected, collectionVars, object,
                   registryVars, managerVars>>

(* The end of completeTransition(), and of a fade's halfway point.         *)
SettleTransition ==
    /\ Running("settle")
    /\ transition' = [transition EXCEPT !.state = "IDLE"]
    /\ next' = None
    /\ Return
    /\ UNCHANGED <<tableVars, sceneVars, collectionVars, object, registryVars,
                   current, pending>>

StartFadeIn ==
    /\ Running("fadeIn")
    /\ transition' = [transition EXCEPT !.state = "FADING_IN"]
    /\ Return
    /\ UNCHANGED <<tableVars, sceneVars, collectionVars, object, registryVars,
                   current, next, pending>>

-----------------------------------------------------------------------------
Init ==
    /\ slots = [i \in SceneSlots |-> None]
    /\ sceneCount = 0
    /\ active = [s \in Scenes |-> FALSE]
    /\ initialized = [s \in Scenes |-> FALSE]
    /\ injected = [s \in Scenes |-> FALSE]
    /\ owned = [s \in Scenes |-> {}]
    /\ external = [s \in Scenes |-> NoExternal]
    /\ externalCount = [s \in Scenes |-> 0]
    /\ object = [o \in Objects |-> "unborn"]
    /\ registry = [i \in RegistrySlots |-> None]
    /\ pendingRemoval = [i \in RegistrySlots |-> FALSE]
    /\ current = None
    /\ next = None
    /\ transition = [state |-> "IDLE", type |-> Immediate, timer |-> 0]
    /\ pending = None
    /\ agenda = <<>>

Engine ==
    \/ \E dt \in 1 .. MaxDt : UpdateTransition(dt)
    \/ UpdateScene
    \/ TakePending
    \/ DeactivateScene
    \/ \E op \in {"enter", "enterFade"} : EnterScene(op)
    \/ \E op \in {"enterSwitch", "reset"} : SwitchScene(op)
    \/ InitializeScene
    \/ ActivateScene
    \/ SettleTransition
    \/ StartFadeIn

Host ==
    \/ \E s \in Scenes : AddScene(s) \/ RemoveScene(s) \/ SwitchTo(s)
    \/ \E s \in Scenes, type \in TransitionTypes : ChangeScene(s, type)
    \/ \E o \in Objects, s \in Scenes : AddObject(o, s)
    \/ \E o \in Objects : RemoveObject(o) \/ PersistObject(o) \/ UnpersistObject(o)

Next == Engine \/ Frame \/ Host

Spec == Init /\ [][Next]_vars

(* The host's loop calls update() every frame and the methods return; the  *)
(* host operations owe nothing.                                            *)
FairSpec == Spec /\ WF_vars(Engine) /\ WF_vars(Frame)

-----------------------------------------------------------------------------
(* The parts of SwitchInv: what makes the properties below inductive for a *)
(* host that switches scenes with switchTo only (changeScene just enters   *)
(* the first scene) and persists nothing from onDeactivate.                *)

EntryOps == {"enter", "enterFade", "enterSwitch", "reset"}

(* A method enters at most one scene, and first or right after leaving the *)
(* old one.                                                                *)
EntryComesFirst ==
    \A k \in DOMAIN agenda :
        agenda[k].op \in EntryOps => k = 1 \/ (k = 2 /\ agenda[1].op = "deactivate")

(* While a scene is about to be entered, no scene holds an external.       *)
DetachedBeforeEntry ==
    (\E k \in DOMAIN agenda : agenda[k].op \in EntryOps) =>
        \A s \in Scenes : external[s] = NoExternal

(* Only the current scene has externals, and they are persistent objects.  *)
ExternalIsPersistent ==
    \A s \in Scenes, o \in Objects :
        external[s][o] > 0 => s = current /\ o \in Persistent

(* No animated transition is running or about to.                          *)
NoAnimation ==
    /\ transition.state = "IDLE"
    /\ \A k \in DOMAIN agenda : agenda[k].op \notin {"transition", "fadeIn"}

-----------------------------------------------------------------------------
(* Every variable holds a value its C++ declaration allows.                *)
TypeOK ==
    /\ slots \in [SceneSlots -> Scenes \cup {None}]
    /\ sceneCount \in 0 .. MaxScenes
    /\ active \in [Scenes -> BOOLEAN]
    /\ initialized \in [Scenes -> BOOLEAN]
    /\ injected \in [Scenes -> BOOLEAN]
    /\ owned \in [Scenes -> SUBSET Objects]
    /\ external \in [Scenes -> [Objects -> Nat]]
    /\ externalCount \in [Scenes -> 0 .. MaxExternal]
    /\ object \in [Objects -> {"unborn", "live", "dead"}]
    /\ registry \in [RegistrySlots -> Objects \cup {None}]
    /\ pendingRemoval \in [RegistrySlots -> BOOLEAN]
    /\ current \in Scenes \cup {None}
    /\ next \in Scenes \cup {None}
    /\ transition \in [state : TransitionStates, type : TransitionTypes,
                       timer : Nat]
    /\ pending \in Scenes \cup {None}
    /\ agenda \in Seq(Calls)

(* An object is alive exactly while something owns it, and it never has    *)
(* two owners: the unique_ptr moves between a scene's collection and the   *)
(* registry (extractObject, add, flushPendingRemovals, ~Scene).            *)
UniqueOwner ==
    \A o \in Objects :
        /\ object[o] = "live" <=> o \in Persistent \/ \E s \in Scenes : o \in owned[s]
        /\ o \in Persistent => \A s \in Scenes : o \notin owned[s]
        /\ \A s, t \in Scenes : o \in owned[s] \cap owned[t] => s = t
        /\ \A i, j \in RegistrySlots : registry[i] = o /\ registry[j] = o => i = j

(* What every state satisfies when scenes are only switched with switchTo: *)
(* the inductive invariant behind NoDanglingExternal.                      *)
SwitchInv ==
    /\ TypeOK
    /\ UniqueOwner
    /\ EntryComesFirst
    /\ DetachedBeforeEntry
    /\ ExternalIsPersistent
    /\ NoAnimation

(* No scene keeps the raw pointer of an object the registry has destroyed: *)
(* update() and findByName() would read it.                                *)
NoDanglingExternal ==
    \A s \in Scenes, o \in Objects : external[s][o] > 0 => object[o] = "live"

(* The scene that is updated, and the one the host sees between frames, is *)
(* in the table, knows its manager and holds every persistent object once: *)
(* it is neither left out of the frame nor updated twice in it.            *)
ParticipatesOnce ==
    (current # None /\ (Callback("idle") \/ Callback("update"))) =>
        /\ Registered(current) /\ injected[current]
        /\ \A o \in Objects : external[current][o] = IF o \in Persistent THEN 1 ELSE 0

(* Between frames, and with no transition running, the current scene is    *)
(* active and no other scene is.                                           *)
OneActiveScene ==
    (agenda = <<>> /\ transition.state = "IDLE") =>
        \A s \in Scenes : active[s] <=> s = current

(* What the transition says of itself agrees with the time it has run:     *)
(* between frames it leads somewhere, has not reached its end, and a fade  *)
(* is in its first half exactly until half of the time has passed, however *)
(* long the frames are and whatever is switched in the middle of it.  The  *)
(* timer itself overshoots by less than a frame.                           *)
TransitionKeepsTime ==
    /\ transition.timer < Duration + MaxDt
    /\ agenda = <<>> /\ transition.state # "IDLE" =>
        /\ next # None
        /\ transition.timer < Duration
        /\ transition.type = IF transition.state = "SLIDING" THEN Slide ELSE Fade
        /\ transition.state = "FADING_OUT" => 2 * transition.timer < Duration
        /\ transition.state = "FADING_IN" => 2 * transition.timer >= Duration

(* A registered object dies only when a deferred switch is taken, and only *)
(* if the host condemned it.                                               *)
DiesOnlyCondemned ==
    [][\A o \in Persistent : object'[o] = "dead" =>
            o \in Condemned /\ Running("deferred")]_vars

(* A request leaves the queue only by being applied, also one that a       *)
(* callback makes while the previous one is being applied.                 *)
RequestIsApplied ==
    [][pending # None /\ pending' = None =>
            Running("deferred") /\
            (Registered(pending) =>
                \E k \in DOMAIN agenda' :
                    agenda'[k] \in {Call("reset", pending), Call("enterSwitch", pending)})]_vars

(* A fade or a slide that has started ends, whatever the host does.        *)
TransitionCompletes == transition.state # "IDLE" ~> transition.state = "IDLE"

=============================================================================
