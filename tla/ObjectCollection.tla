-------------------------- MODULE ObjectCollection --------------------------
(***************************************************************************)
(* ObjectCollection, with the objects and the components it drives: the    *)
(* loops of initialize, start, update and lateUpdate over the owned and    *)
(* the external objects (include/enjin2/core/object_collection.hpp), under *)
(* each the loop over an object's components (object.hpp, object.cpp),     *)
(* and persistObject of the scene manager, which moves an object from the  *)
(* one array to the other.                                                 *)
(*                                                                         *)
(* Every loop reads its array and its count again at each turn, and every  *)
(* component it calls may spawn, destroy, persist, activate, and add or    *)
(* remove components.  stack holds the calls in progress, innermost last:  *)
(* a loop with the index it looks at next, or a component that was added   *)
(* and is being brought up to its object's state.                          *)
(*                                                                         *)
(* Left to the game: it does not destroy an object, or remove a component, *)
(* whose own method is running (README, "Assumptions").                    *)
(***************************************************************************)
EXTENDS Integers, Sequences, SequencesExt, FiniteSets

CONSTANTS
    Objects,        \* the objects that are ever created
    MaxObjects,     \* MAX_OBJECTS
    MaxExternal,    \* MAX_EXTERNAL, and MAX_PERSISTENT of the registry
    MaxComponents,  \* MAX_COMPONENTS
    MaxMade,        \* bound: components ever added to an object
    MaxCalls,       \* bound: calls of the game
    None

ASSUME Bounds ==
    /\ {MaxObjects, MaxExternal, MaxComponents, MaxMade} \subseteq Nat \ {0}
    /\ MaxCalls \in Nat
    /\ None \notin Objects

Components == Objects \X (1 .. MaxMade)

ASSUME KindsApart == Objects \cap Components = {} /\ None \notin Components

VARIABLES
    owned,        \* objects[0 .. objectCount - 1]
    external,     \* m_external[0 .. m_externalCount - 1]
    initialized,
    object,       \* the members of each object
    slots,        \* the component array of each object, with its unused end
    enabled,      \* the enabled components
    stack,
    calls,
    awoken, started,  \* how often each component was awoken and started
    ran,          \* how often each object was updated in this frame
    due,          \* objects this frame's update has to reach
    passedOver,   \* objects and components a removal moved past a loop
    kept          \* objects persisted during this frame's update

members == <<owned, external, initialized, object, slots, enabled>>
seen    == <<awoken, started, ran, due, passedOver, kept>>
collectionVars    == <<members, stack, calls, seen>>

Unborn == [life |-> "unborn", count |-> 0, made |-> 0,
           active |-> TRUE, awoken |-> FALSE, started |-> FALSE]

-----------------------------------------------------------------------------
(* The calls in progress.                                                  *)
Loop(f, i)      == [fn |-> f, of |-> None, i |-> i, c |-> None]
Method(f, o)    == [fn |-> f, of |-> o, i |-> 0, c |-> None]
Added(c)        == [fn |-> "awakeAdded", of |-> c[1], i |-> c[2], c |-> None]

CollectionLoops == {"initialize", "startAll", "update", "updateExternals",
                    "lateUpdate", "lateUpdateExternals"}
Methods         == {"awake", "start", "updateOf", "lateUpdateOf"}

Top        == Last(stack)
Replace(f) == stack' = Append(Front(stack), f)
Return     == stack' = Front(stack)
Call(f, g) == stack' = Append(Append(Front(stack), f), g)
Quiet(f)   == stack # <<>> /\ Top.fn = f /\ Top.c = None
Running(o) == \E k \in DOMAIN stack : stack[k].of = o

(* A component is called, with the loop at it.                             *)
CallComponent(c, f) == Replace([f EXCEPT !.c = c])

-----------------------------------------------------------------------------
(* The loops of the collection.                                            *)
List(f) == IF f \in {"updateExternals", "lateUpdateExternals"}
           THEN external ELSE owned
MethodOf(f) == CASE f = "initialize" -> "awake"
                 [] f = "startAll"  -> "start"
                 [] f \in {"update", "updateExternals"} -> "updateOf"
                 [] OTHER -> "lateUpdateOf"

(* The scene is activated: start, and before it initialize.                *)
Activate ==
    /\ stack = <<>>
    /\ stack' = IF initialized THEN <<Loop("startAll", 1)>>
                ELSE <<Loop("startAll", 1), Loop("initialize", 1)>>
    /\ UNCHANGED <<members, calls, seen>>

(* A frame: update, then lateUpdate.                                       *)
BeginFrame ==
    /\ stack = <<>>
    /\ stack' = <<Loop("update", 1)>>
    /\ ran' = [o \in Objects |-> 0]
    /\ due' = {o \in ToSet(owned) \cup ToSet(external) : object[o].active}
    /\ passedOver' = passedOver \ Objects
    /\ kept' = {}
    /\ UNCHANGED <<members, calls, awoken, started>>

(* An object that is not active is left out by update and lateUpdate.      *)
Visit(f) ==
    /\ Quiet(f)
    /\ Top.i <= Len(List(f))
    /\ LET o == List(f)[Top.i] IN
       IF f \in {"initialize", "startAll"} \/ object[o].active
       THEN Call([Top EXCEPT !.i = @ + 1], Method(MethodOf(f), o))
       ELSE Replace([Top EXCEPT !.i = @ + 1])
    /\ UNCHANGED <<members, calls, seen>>

(* (Slip: the number of objects is read once, before the loop.)            *)
EndLoopEarly(f) ==
    /\ Quiet(f)
    /\ Top.i > Len(List(f)) \/ (f = "update" /\ Top.i > 2)
    /\ CASE f = "update"                -> Replace(Loop("updateExternals", 1))
         [] f = "updateExternals"      -> Replace(Loop("lateUpdate", 1))
         [] f = "lateUpdate"           -> Replace(Loop("lateUpdateExternals", 1))
         [] OTHER                       -> Return
    /\ initialized' = (initialized \/ f = "initialize")
    /\ UNCHANGED <<owned, external, object, slots, enabled, calls, seen>>

EndLoop(f) ==
    /\ Quiet(f)
    /\ Top.i > Len(List(f))
    /\ CASE f = "update"                -> Replace(Loop("updateExternals", 1))
         [] f = "updateExternals"      -> Replace(Loop("lateUpdate", 1))
         [] f = "lateUpdate"           -> Replace(Loop("lateUpdateExternals", 1))
         [] OTHER                       -> Return
    /\ initialized' = (initialized \/ f = "initialize")
    /\ UNCHANGED <<owned, external, object, slots, enabled, calls, seen>>

-----------------------------------------------------------------------------
(* The methods of an object.                                               *)
Enter == Replace([Top EXCEPT !.i = 1])

(* (Slip: an object is updated whether it was started or not.)             *)
BeginObjectUnstarted ==
    /\ Quiet("updateOf") /\ Top.i = 0
    /\ ran' = [ran EXCEPT ![Top.of] = IF @ < 3 THEN @ + 1 ELSE @]
    /\ Enter
    /\ UNCHANGED <<members, calls, awoken, started, due, passedOver, kept>>

(* update: an object that was not started is started first.                *)
BeginObjectUpdate ==
    /\ Quiet("updateOf") /\ Top.i = 0
    /\ ran' = [ran EXCEPT ![Top.of] = IF @ < 3 THEN @ + 1 ELSE @]
    /\ IF object[Top.of].started THEN Enter
       ELSE Call([Top EXCEPT !.i = 1], Method("start", Top.of))
    /\ UNCHANGED <<members, calls, awoken, started, due, passedOver, kept>>

(* awake and start run once; start awakes first; lateUpdate just begins.   *)
Begin(f) ==
    /\ f # "updateOf" /\ Quiet(f) /\ Top.i = 0
    /\ LET o == object[Top.of] IN
       CASE f = "awake" /\ o.awoken                -> Return
         [] f = "start" /\ o.started               -> Return
         [] f = "start" /\ ~o.started /\ ~o.awoken ->
                Call([Top EXCEPT !.i = 1], Method("awake", Top.of))
         [] OTHER                                  -> Enter
    /\ UNCHANGED <<members, calls, seen>>

Count(f, c) ==
    /\ awoken'  = IF f = "awake" THEN [awoken EXCEPT ![c] = @ + 1] ELSE awoken
    /\ started' = IF f = "start" THEN [started EXCEPT ![c] = @ + 1] ELSE started

(* The loop over the components.                                           *)
CallNext(f) ==
    /\ Quiet(f) /\ Top.i \in 1 .. object[Top.of].count
    /\ LET c == slots[Top.of][Top.i] IN
       IF c # None /\ (f \in {"awake", "start"} \/ c \in enabled)
       THEN CallComponent(c, Top) /\ Count(f, c)
       ELSE Replace([Top EXCEPT !.i = @ + 1]) /\ UNCHANGED <<awoken, started>>
    /\ UNCHANGED <<members, calls, ran, due, passedOver, kept>>

(* awoken and started are set when the loop is over.                       *)
EndMethod(f) ==
    /\ Quiet(f) /\ Top.i > object[Top.of].count
    /\ Top.i > 0
    /\ object' = [object EXCEPT ![Top.of].awoken = @ \/ f = "awake",
                                ![Top.of].started = @ \/ f = "start"]
    /\ Return
    /\ UNCHANGED <<owned, external, initialized, slots, enabled, calls, seen>>

(* A component that was added is awoken if its object is awake ...         *)
AwakeAdded ==
    /\ Quiet("awakeAdded")
    /\ IF object[Top.of].awoken
       THEN CallComponent(<<Top.of, Top.i>>, Top) /\ Count("awake", <<Top.of, Top.i>>)
       ELSE Replace([Top EXCEPT !.fn = "startAdded"]) /\ UNCHANGED <<awoken, started>>
    /\ UNCHANGED <<members, calls, ran, due, passedOver, kept>>

(* ... and then started if its object is started.                          *)
StartAdded ==
    /\ Quiet("startAdded")
    /\ IF object[Top.of].started
       THEN CallComponent(<<Top.of, Top.i>>, Top) /\ Count("start", <<Top.of, Top.i>>)
       ELSE Return /\ UNCHANGED <<awoken, started>>
    /\ UNCHANGED <<members, calls, ran, due, passedOver, kept>>

(* The component returns.                                                  *)
ComponentReturns ==
    /\ stack # <<>> /\ Top.c # None
    /\ CASE Top.fn = "awakeAdded" -> Replace([Top EXCEPT !.c = None, !.fn = "startAdded"])
         [] Top.fn = "startAdded" -> Return
         [] OTHER                  -> Replace([Top EXCEPT !.c = None, !.i = @ + 1])
    /\ UNCHANGED <<members, calls, seen>>

-----------------------------------------------------------------------------
(* What the game does, between the frames or from a component's method.    *)
GameCalls ==
    /\ calls < MaxCalls /\ calls' = calls + 1
    /\ stack # <<>> => Top.c # None
(* The loop of update has yet to look at place k.                          *)
Awaits(k) == \E j \in DOMAIN stack : stack[j].fn = "update" /\ stack[j].i <= k
Live(o)   == object[o].life = "live"

(* The object the loop of update was to look at next, when the one at k is *)
(* taken away from behind it.                                              *)
Shifted(k) == {owned[stack[j].i] : j \in {l \in DOMAIN stack :
                 stack[l].fn = "update" /\ k < stack[l].i /\ stack[l].i <= Len(owned)}}
Empty      == [j \in 1 .. MaxComponents |-> None]
Made(o, n) == {<<o, k>> : k \in 1 .. n}

(* The object is destroyed, with its components.                           *)
Destroyed(os) ==
    /\ object'  = [o \in Objects |-> IF o \in os THEN [Unborn EXCEPT !.life = "dead"] ELSE object[o]]
    /\ slots'   = [o \in Objects |-> IF o \in os THEN Empty ELSE slots[o]]
    /\ enabled' = {c \in enabled : c[1] \notin os}
    /\ due'     = due \ os
    /\ awoken'  = [c \in Components |-> IF c[1] \in os THEN 0 ELSE awoken[c]]
    /\ started' = [c \in Components |-> IF c[1] \in os THEN 0 ELSE started[c]]

(* (Slip: no test that there is room.)                                     *)
SpawnUnbounded(o, n) ==
    /\ GameCalls /\ object[o].life = "unborn"
    /\ owned' = Append(owned, o)
    /\ object' = [object EXCEPT ![o].life = "live", ![o].count = n, ![o].made = n]
    /\ slots' = [slots EXCEPT ![o] = [j \in DOMAIN @ |-> IF j <= n THEN <<o, j>> ELSE None]]
    /\ enabled' = enabled \cup Made(o, n)
    /\ stack' = IF initialized THEN stack \o <<Method("start", o), Method("awake", o)>> ELSE stack
    /\ due' = IF Awaits(Len(owned) + 1) THEN due \cup {o} ELSE due
    /\ UNCHANGED <<external, initialized, awoken, started, ran, passedOver, kept>>

(* addObject, of an object whose constructor adds n components; once the   *)
(* collection is initialized it is awoken and started at once.             *)
Spawn(o, n) ==
    /\ GameCalls /\ object[o].life = "unborn"
    /\ Len(owned) < MaxObjects
    /\ owned' = Append(owned, o)
    /\ object' = [object EXCEPT ![o].life = "live", ![o].count = n, ![o].made = n]
    /\ slots' = [slots EXCEPT ![o] = [j \in DOMAIN @ |-> IF j <= n THEN <<o, j>> ELSE None]]
    /\ enabled' = enabled \cup Made(o, n)
    /\ stack' = IF initialized THEN stack \o <<Method("start", o), Method("awake", o)>> ELSE stack
    /\ due' = IF Awaits(Len(owned) + 1) THEN due \cup {o} ELSE due
    /\ UNCHANGED <<external, initialized, awoken, started, ran, passedOver, kept>>

(* removeObject: the objects after it move down by one.                    *)
Destroy(k) ==
    /\ GameCalls /\ ~Running(owned[k])
    /\ owned' = RemoveAt(owned, k)
    /\ passedOver' = passedOver \cup Shifted(k)
    /\ Destroyed({owned[k]})
    /\ UNCHANGED <<external, initialized, stack, ran, kept>>

(* (Slip: the object stays among the owned ones.)                          *)
PersistCopies(k) ==
    /\ GameCalls /\ Len(external) < MaxExternal
    /\ owned[k] \notin ToSet(external)
    /\ external' = Append(external, owned[k])
    /\ UNCHANGED <<owned, initialized, object, slots, enabled, stack,
                   awoken, started, ran, due, passedOver, kept>>

(* persistObject: the object leaves the owned array and joins the external *)
(* one at once.                                                            *)
Persist(k) ==
    /\ GameCalls /\ Len(external) < MaxExternal
    /\ owned' = RemoveAt(owned, k)
    /\ external' = Append(external, owned[k])
    /\ kept' = kept \cup {owned[k]}
    /\ passedOver' = passedOver \cup Shifted(k)
    /\ UNCHANGED <<initialized, object, slots, enabled, stack, awoken, started, ran, due>>

(* With the registry full persistObject destroys what it has extracted.    *)
PersistFull(k) ==
    /\ Len(external) = MaxExternal
    /\ Destroy(k)

(* setActive.                                                              *)
SetActive(o) ==
    /\ GameCalls /\ Live(o)
    /\ object' = [object EXCEPT ![o].active = ~@]
    /\ due' = due \ {o}
    /\ UNCHANGED <<owned, external, initialized, slots, enabled, stack,
                   awoken, started, ran, passedOver, kept>>

(* setEnabled.                                                             *)
SetEnabled(c) ==
    /\ GameCalls /\ \E j \in 1 .. object[c[1]].count : slots[c[1]][j] = c
    /\ enabled' = IF c \in enabled THEN enabled \ {c} ELSE enabled \cup {c}
    /\ UNCHANGED <<owned, external, initialized, object, slots, stack, seen>>

(* addComponent: the new component takes the slot at the count, whatever   *)
(* is still there.                                                         *)
AddComponent(o) ==
    /\ GameCalls /\ Live(o)
    /\ object[o].count < MaxComponents /\ object[o].made < MaxMade
    /\ LET c == <<o, object[o].made + 1>> IN
       /\ object' = [object EXCEPT ![o].count = @ + 1, ![o].made = @ + 1]
       /\ slots' = [slots EXCEPT ![o][object[o].count + 1] = c]
       /\ enabled' = enabled \cup {c}
       /\ stack' = Append(stack, Added(c))
       /\ passedOver' = IF \E j \in DOMAIN stack :
                             /\ stack[j].fn \in {"awake", "start"} /\ stack[j].of = o
                             /\ stack[j].c # None /\ stack[j].i > object[o].count
                        THEN passedOver \cup {c} ELSE passedOver
    /\ UNCHANGED <<owned, external, initialized, awoken, started, ran, due, kept>>

(* removeComponent: the components after it move down by one; the last one *)
(* only falls out of the count.                                            *)
RemoveComponent(o, k) ==
    /\ GameCalls /\ k <= object[o].count
    /\ \A j \in DOMAIN stack : stack[j].c # slots[o][k]
    /\ LET n == object[o].count
           s == slots[o] IN
       /\ slots' = [slots EXCEPT ![o] = [j \in DOMAIN s |->
                        CASE k <= j /\ j < n -> s[j + 1]
                          [] k < n /\ j = n  -> None
                          [] OTHER           -> s[j]]]
       /\ object' = [object EXCEPT ![o].count = n - 1]
       /\ passedOver' = passedOver \cup {s[stack[j].i + 1] : j \in {l \in DOMAIN stack :
              /\ stack[l].fn \in {"awake", "start"} /\ stack[l].of = o
              /\ stack[l].c # None /\ k <= stack[l].i /\ stack[l].i < n}}
    /\ UNCHANGED <<owned, external, initialized, enabled, stack,
                   awoken, started, ran, due, kept>>

(* removeInactiveObjects and clear, between frames: what the first n of    *)
(* the owned objects leave.                                                *)
Compacted[n \in 0 .. Len(owned)] ==
    IF n = 0 THEN <<>>
    ELSE IF object[owned[n]].active THEN Append(Compacted[n - 1], owned[n]) ELSE Compacted[n - 1]

RemoveInactive ==
    /\ GameCalls /\ stack = <<>>
    /\ owned' = Compacted[Len(owned)]
    /\ Destroyed({o \in ToSet(owned) : ~object[o].active})
    /\ UNCHANGED <<external, initialized, stack, ran, passedOver, kept>>

Clear ==
    /\ GameCalls /\ stack = <<>>
    /\ owned' = <<>> /\ initialized' = FALSE
    /\ Destroyed(ToSet(owned))
    /\ UNCHANGED <<external, stack, ran, passedOver, kept>>

-----------------------------------------------------------------------------
CollectionInit ==
    /\ owned = <<>> /\ external = <<>> /\ initialized = FALSE
    /\ object = [o \in Objects |-> Unborn]
    /\ slots = [o \in Objects |-> Empty]
    /\ enabled = {} /\ stack = <<>> /\ calls = 0
    /\ awoken = [c \in Components |-> 0] /\ started = [c \in Components |-> 0]
    /\ ran = [o \in Objects |-> 0]
    /\ due = {} /\ passedOver = {} /\ kept = {}

Engine ==
    \/ \E f \in CollectionLoops : Visit(f) \/ EndLoop(f)
    \/ BeginObjectUpdate
    \/ \E f \in Methods : Begin(f) \/ CallNext(f) \/ EndMethod(f)
    \/ AwakeAdded \/ StartAdded
    \/ ComponentReturns

Game ==
    \/ \E o \in Objects, n \in 0 .. 1 : Spawn(o, n)
    \/ \E k \in DOMAIN owned : Destroy(k) \/ Persist(k) \/ PersistFull(k)
    \/ \E o \in Objects : SetActive(o) \/ AddComponent(o)
    \/ \E c \in Components : SetEnabled(c)
    \/ \E o \in Objects, k \in 1 .. MaxComponents : RemoveComponent(o, k)
    \/ RemoveInactive
    \/ Clear

CollectionNext == Activate \/ BeginFrame \/ Engine \/ Game
CollectionSpec == CollectionInit /\ [][CollectionNext]_collectionVars

-----------------------------------------------------------------------------
(* Types and limits: no more objects and components than there are slots,  *)
(* an object in at most one array and only once, and none that is dead.    *)
CollectionTypeOK ==
    /\ owned \in SeqOf(Objects, MaxObjects)
    /\ external \in SeqOf(Objects, MaxExternal)
    /\ initialized \in BOOLEAN
    /\ IsInjective(owned \o external)
    /\ ToSet(owned \o external) = {o \in Objects : Live(o)}
    /\ \A o \in Objects :
        /\ object[o].count \in 0 .. MaxComponents
        /\ \A j \in 1 .. object[o].count : slots[o][j] \in Made(o, object[o].made)

(* A component is awoken once, then started once, and only then updated    *)
(* (component.hpp:113-131), with components added and objects spawned from *)
(* every callback; the one exception is a component that a removal moved   *)
(* behind the loop that was to awake or to start it, or that was added to  *)
(* a place such a removal left behind it.                                  *)
CalledInOrder ==
    \A k \in DOMAIN stack : LET c == stack[k].c IN
        c # None /\ c \notin passedOver =>
            CASE stack[k].fn \in {"awake", "awakeAdded"} -> awoken[c] = 1 /\ started[c] = 0
              [] stack[k].fn \in {"start", "startAdded"} -> awoken[c] = 1 /\ started[c] = 1
              [] stack[k].fn = "updateOf"                -> awoken[c] = 1 /\ started[c] = 1
              [] OTHER                                    -> TRUE

(* The update of a frame reaches every object that was there and active    *)
(* throughout, and those spawned ahead of the loop, but for the one that   *)
(* came next when an object behind the loop was removed or persisted:      *)
(* nothing but such a removal makes an object miss a frame.                *)
NobodyMissed ==
    Quiet("lateUpdate") /\ Top.i = 1 =>
        \A o \in due \ passedOver : ran[o] > 0

(* An object is updated twice in a frame only if it was persisted during   *)
(* that frame, in the owned and then in the external array.                *)
OnceUnlessPersisted ==
    \A o \in Objects : ran[o] > 1 => ran[o] = 2 /\ o \in kept

=============================================================================
