------------------------------ MODULE UiWorld ------------------------------
(***************************************************************************)
(* The retained UI world (include/enjin2/ui/world.hpp): the entity manager *)
(* with its free list and generations (ui/system.hpp) and one packed       *)
(* storage for each component type, a sparse set (ui/component.hpp).       *)
(*                                                                         *)
(* Clients keep handles for as long as they like and use them when the     *)
(* entity may be gone and its slot taken again.  A handle is told from the *)
(* next one of its slot by eight bits.                                     *)
(***************************************************************************)
EXTENDS Integers, FiniteSets

CONSTANTS
    Capacity,         \* CAPACITY
    MaxGeneration,    \* 255: what the eight bits hold
    Types, Values,    \* of components
    Default,          \* the component a storage is made with
    MaxMade           \* bounds the entities of a behaviour

ASSUME Sizes ==
    /\ Capacity \in Nat \ {0} /\ MaxGeneration \in Nat \ {0} /\ MaxMade \in Nat
    /\ Default \in Values

Ids      == 0 .. Capacity - 1
Places   == 0 .. Capacity - 1
Entities == [id : Ids, generation : 0 .. MaxGeneration]
Names    == 1 .. MaxMade
kInvalid == -1

VARIABLES
    generations, freeList, freeCount, entityCount,
    storage,          \* the ComponentStorage of each type
    made,             \* how many entities were made; clients hold the handles
    handle,           \*   of all of them, handle[n] of the n-th
    age               \* how often the slot of each was given up since, at most
                      \*   MaxGeneration: 0 for an entity that lives

vars == <<generations, freeList, freeCount, entityCount, storage, made, handle, age>>

Entity(id, generation) == [id |-> id, generation |-> generation]

-----------------------------------------------------------------------------
(* ComponentStorage: its packed components with their owners, and the      *)
(* place of each id among them.                                            *)
EmptyStorage ==
    [count      |-> 0,
     entities   |-> [i \in Places |-> Entity(0, 0)],
     components |-> [i \in Places |-> Default],
     sparse     |-> [id \in Ids |-> kInvalid]]

Matches(s, e) ==
    LET i == s.sparse[e.id] IN i # kInvalid /\ i < s.count /\ s.entities[i] = e

AddComponent(s, e, v) ==
    IF Matches(s, e) THEN [s EXCEPT !.components[s.sparse[e.id]] = v]
    ELSE IF s.count >= Capacity THEN s
    ELSE [count      |-> s.count + 1,
          entities   |-> [s.entities EXCEPT ![s.count] = e],
          components |-> [s.components EXCEPT ![s.count] = v],
          sparse     |-> [s.sparse EXCEPT ![e.id] = s.count]]

(* (Slip: the moved entity is not repointed.)                              *)
RemoveWithoutRepoint(s, e) ==
    LET idx  == s.sparse[e.id]
        last == s.count - 1
    IN  IF ~Matches(s, e) THEN s
        ELSE [count      |-> last,
              entities   |-> [s.entities EXCEPT ![idx] = s.entities[last]],
              components |-> [s.components EXCEPT ![idx] = s.components[last]],
              sparse     |-> [s.sparse EXCEPT ![e.id] = kInvalid]]

(* The last one moves into the gap.                                        *)
RemoveComponent(s, e) ==
    LET idx  == s.sparse[e.id]
        last == s.count - 1
    IN  IF ~Matches(s, e) THEN s
        ELSE [count      |-> last,
              entities   |-> [s.entities EXCEPT ![idx] = s.entities[last]],
              components |-> [s.components EXCEPT ![idx] = s.components[last]],
              sparse     |-> [[s.sparse EXCEPT ![s.entities[last].id] = idx]
                                  EXCEPT ![e.id] = kInvalid]]

-----------------------------------------------------------------------------
(* EntityManager.                                                          *)
IsValid(e) == generations[e.id] = e.generation

(* (Slip: one bit pattern less.)                                          *)
BumpShort(g) ==
    LET next == (g + 1) % MaxGeneration IN IF next = 0 THEN 1 ELSE next

(* generations[index]++ on eight bits, past 0.                             *)
Bump(g) ==
    LET next == (g + 1) % (MaxGeneration + 1) IN IF next = 0 THEN 1 ELSE next

Init ==
    /\ generations = [id \in Ids |-> 1]
    /\ freeList = [i \in Places |-> i]
    /\ freeCount = Capacity
    /\ entityCount = 0
    /\ storage = [t \in Types |-> EmptyStorage]
    /\ made = 0
    /\ handle = [n \in Names |-> Entity(0, 0)]
    /\ age = [n \in Names |-> 0]

(* A full world gives the invalid handle.                                  *)
Create ==
    /\ made < MaxMade /\ freeCount > 0
    /\ LET index == freeList[freeCount - 1] IN
        handle' = [handle EXCEPT ![made + 1] = Entity(index, generations[index])]
    /\ freeCount' = freeCount - 1
    /\ entityCount' = entityCount + 1
    /\ made' = made + 1
    /\ UNCHANGED <<generations, freeList, storage, age>>

(* A client may use any handle, of a living entity or not, that has not    *)
(* outlived the counter: its slot was reused fewer than MaxGeneration      *)
(* times.                                                                  *)
Kept(n) == n <= made /\ age[n] < MaxGeneration

Older(id) == [n \in Names |-> IF n <= made /\ handle[n].id = id /\ age[n] < MaxGeneration
                              THEN age[n] + 1 ELSE age[n]]

(* (Slip: the components stay in their storages.)                          *)
DestroyKeepsComponents(n) ==
    LET e == handle[n] IN
    /\ Kept(n) /\ IsValid(e)
    /\ generations' = [generations EXCEPT ![e.id] = Bump(@)]
    /\ freeList' = [freeList EXCEPT ![freeCount] = e.id]
    /\ freeCount' = freeCount + 1
    /\ entityCount' = entityCount - 1
    /\ age' = Older(e.id)
    /\ UNCHANGED <<storage, made, handle>>

Destroy(n) ==
    LET e == handle[n] IN
    /\ Kept(n) /\ IsValid(e)
    /\ storage' = [t \in Types |-> RemoveComponent(storage[t], e)]
    /\ generations' = [generations EXCEPT ![e.id] = Bump(@)]
    /\ freeList' = [freeList EXCEPT ![freeCount] = e.id]
    /\ freeCount' = freeCount + 1
    /\ entityCount' = entityCount - 1
    /\ age' = Older(e.id)
    /\ UNCHANGED <<made, handle>>

Add(n, t, v) ==
    /\ Kept(n) /\ IsValid(handle[n])
    /\ storage' = [storage EXCEPT ![t] = AddComponent(@, handle[n], v)]
    /\ UNCHANGED <<generations, freeList, freeCount, entityCount, made, handle, age>>

(* remove asks the storage only, not whether the handle is valid.          *)
Remove(n, t) ==
    /\ Kept(n)
    /\ storage' = [storage EXCEPT ![t] = RemoveComponent(@, handle[n])]
    /\ UNCHANGED <<generations, freeList, freeCount, entityCount, made, handle, age>>

Next ==
    \/ Create
    \/ \E n \in Names : \/ Destroy(n)
                        \/ \E t \in Types : Remove(n, t)
                        \/ \E t \in Types, v \in Values : Add(n, t, v)

Spec == Init /\ [][Next]_vars

-----------------------------------------------------------------------------
Living == {n \in Names : n <= made /\ age[n] = 0}

Storages == [count : 0 .. Capacity, entities : [Places -> Entities],
             components : [Places -> Values], sparse : [Ids -> Places \cup {kInvalid}]]

TypeOK ==
    /\ generations \in [Ids -> 1 .. MaxGeneration]
    /\ freeList \in [Places -> Ids]
    /\ freeCount \in 0 .. Capacity
    /\ entityCount \in 0 .. Capacity
    /\ storage \in [Types -> Storages]
    /\ made \in 0 .. MaxMade
    /\ handle \in [Names -> Entities]
    /\ age \in [Names -> 0 .. MaxGeneration]

(* "Uses generation counters to detect stale references" (ui/component.hpp *)
(* :76-80): until its slot was reused MaxGeneration times, a handle is     *)
(* valid exactly while its own entity lives, and no storage answers for    *)
(* it after that.                                                          *)
StaleDetected ==
    \A n \in Names : Kept(n) =>
        /\ IsValid(handle[n]) <=> age[n] = 0
        /\ age[n] > 0 => \A t \in Types : ~Matches(storage[t], handle[n])

(* Every slot is free, once, or of one living entity; a storage holds at   *)
(* most one component of each, of living ones only, and finds every one it *)
(* holds: it is full only when every slot is taken (ui/system.hpp:116-146, *)
(* ui/component.hpp:134-142).                                              *)
SlotsAccounted ==
    /\ entityCount = Cardinality(Living) /\ entityCount + freeCount = Capacity
    /\ \A i, j \in 0 .. freeCount - 1 : freeList[i] = freeList[j] => i = j
    /\ \A n, k \in Living : handle[n].id = handle[k].id => n = k
    /\ \A id \in Ids : (\E i \in 0 .. freeCount - 1 : freeList[i] = id)
                       <=> ~ \E n \in Living : handle[n].id = id
    /\ \A t \in Types, i \in Places : i < storage[t].count =>
        /\ \E n \in Living : handle[n] = storage[t].entities[i]
        /\ storage[t].sparse[storage[t].entities[i].id] = i

(* The world implements the registry: the components found through the     *)
(* sparse sets are those that were attached last (ui/world.hpp).           *)
Held(t) == {n \in Living : Matches(storage[t], handle[n])}

Holds == [t \in Types |-> [n \in Held(t) |->
             storage[t].components[storage[t].sparse[handle[n].id]]]]

Registry == INSTANCE EntityRegistry WITH living <- Living, holds <- Holds

ImplementsRegistry == Registry!Spec

=============================================================================
