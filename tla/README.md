# enjin2: verification project

TLA+ models of the parts of enjin2 in which the order of calls decides what is
right: the scene manager with its persistent objects, the objects and
components under it, the coroutine, tween and spring pools of Lua, the event
bus, the object state machine, the timers, the key-value store, the retained
UI world, the asset arena with those who share it, and the layer compositor.
Every module is translated from the C++ source; TLC checks it on small
instances, and TLAPS proves theorems about it for every value of the constants.

Paths below are relative to the repository's root; `include/` stands for
`include/enjin2/`.

## Running it

    tlc -workers 2 -config scene_switch.cfg MCSceneStateMachine
    tlapm SceneStateMachine_proofs.tla

Each `.cfg` names one run of the table below; the module it belongs to is the
`MC` module of the same row. A run takes from a second to a minute.

## Where the hard part is

enjin2 is a single-threaded engine: a loop polls the input, calls `update`,
resumes coroutines, advances tweens, draws, composites and presents
(`src/platform/sdl/sdl_main.cpp:340-380`). There are no locks and no messages.
What makes it hard is re-entrance. Nearly every loop of the engine calls the
game in the middle of an iteration, a C++ override or a Lua function, and the
game may call back into the very structure the loop is walking: add to it,
remove from it, free the slot the loop is at, ask for a scene switch, load a
script. All pools are fixed arrays (slots and registry numbers are reused at
once), so a stale index, id or number does not point to nothing; it points to
somebody else.

A second kind of difficulty is in what is kept twice: a cursor that stands for
the bytes in use, sets of tiles that say where a picture is stale, sparse and
packed arrays, a file that stands for the entries in memory. Each copy is
brought up to date at its own point, and a sequence of legal calls may leave
one behind.

So the models of the re-entrant parts share one shape. A method that calls out is cut at each call;
a variable says where it is (`agenda`, `pc`, `stack`, `emits`, `at`), the locals it
keeps across the call are variables too (an index, a snapshot, a reference),
and while the call runs every operation the game has is enabled. Between two
calls the code runs alone, and is one action.

## Inventory

| Part | Source | State | Operations | What is hard |
|---|---|---|---|---|
| Scene manager | `include/core/scene_state_machine.hpp`, `scene.hpp` | table of scenes, current, next, transition, pending request, persistent registry | addScene, removeScene, changeScene, switchTo, update, persistObject, unpersistObject | callbacks of the scenes call it while a switch is half done; ownership moves between collection and registry; fades take two phases |
| Object collection | `include/core/object_collection.hpp` | owned array, external array | add, remove, extract, inject, clear, loops of initialize, start, update and lateUpdate | the arrays shift under the loops |
| Objects and components | `include/core/object.hpp`, `component.hpp` | component array, awoken, started, active | awake, start, update, lateUpdate, addComponent, removeComponent, setActive, setEnabled | components added and removed from a component's own callbacks |
| Coroutines | `src/scripting/bindings_async.cpp` | pool of slots with their waits | start, wait, wait_frames, cancel, cancelAll, tickCoroutines | the slot is cleared by index after lua_resume returns |
| Tweens and springs | `src/scripting/bindings_tween.cpp` | two pools of slots, one id counter | to, spring, cancel, cancelAll, await, tickTweens, tickSprings | completion resumes waiters, then calls `done`, then clears the slot; one counter for two pools |
| Event bus | `src/scripting/lua_event_bus.cpp` | channels, subscribers, Lua references | on, off, emit, clearHandlers | emits nest; handlers remove each other; registry numbers are reused |
| Object state machine | `src/components/state_machine.cpp` | states, current, pending | addState, setState, update, clearStates | requests made by the callbacks of a transition |
| Timers | `src/components/timer.cpp` | slots with id, interval, elapsed, reference | after, every, cancel, clearTimers, update | callbacks cancel and schedule into the array being walked |
| Scene script host | `src/components/lua_script.cpp` | script, error flag, proxy | load, reload, update, draw, destructor | references must be given back before the state closes; a reload that fails |
| Signals | `include/core/signal.hpp` | slots of callbacks | connect, disconnect, emit | disconnect while the callback runs; ids are slots |
| Lua proxies | `src/scripting/bindings_proxy.cpp`, `component_registry.cpp` | valid flags | wrap, find, __gc | an object dies while a script holds it |
| Key-value store | `src/scripting/bindings_store.cpp`, three back ends | entries, path or namespace, file or blob | save, load, exists, delete, clear, flush, path; setStorePath, setStoreNamespace | a save that does not fit or is cut short; a change of owner |
| Engine table | `src/scripting/bindings.cpp`, `bindings_engine.cpp` | active scene, claims | engine.scene, engine.state, engine.event, setActiveScene | what a scene change clears, and in which order |
| Retained UI world | `include/ui/world.hpp`, `component.hpp`, `system.hpp` | entities with generations, packed storage | create, destroy, add, remove, query | swap-remove during a walk; generations that come round |
| Asset arena and layered assets | `src/graphics/asset_arena.cpp`, `layered_asset.cpp`, `src/shape/shape_pack_group.cpp` | cursor; slots with reference counts; buffers of pets | allocate, mark, rollback, reclaimAll; load, retain, release, free; build | only a cursor says what is in use; freed assets are still looked at |
| Memory pools | `include/core/memory.hpp` | slots, generations | create, destroy, allocate | handles of a generation that came round |
| Layer compositor | `include/graphics/layer_compositor.hpp` | layers, dirty tiles, restore sources, pending and merged tiles | beginFrame, compositeDirty, endFrame, setVisible, setTint, setBackdrop, setRestoreCallback, clearRestore, invalidateLayer | a tile that nobody reports stays stale |
| Animation tracks | `include/animation` | keyframes, clock, direction | play, pause, update | ends of loops and ping-pong |
| Graphics, text, sprites, tilemaps, shapes, physics, import, post effects, input, instrumentation, platforms, Lua engine and API tables | the rest of `src/` and `include/` | buffers and tables | drawing, parsing, arithmetic | nothing interleaves; see "Not modelled" |

How they meet. The scene manager calls the scenes, a scene its collection, an
object its components. A scene script is a component; it owns the Lua state to
which the event bus, the state machine and the timers hold references, and the
timer and the state machine of the same object are components beside it, with
no order of destruction among them. A scene change made from Lua goes through
`LuaBindings::setActiveScene`, which clears coroutines, tweens and handlers. A
load of a script clears the object's timers and states and the handlers.

What makes each part correct:

- scene manager: one owner per living object; no pointer to a dead one; a
  persistent object takes part in every frame once; one active scene; a
  request is applied once, by whom it was made to; a transition ends;
- objects and components: awoken once, then started once, then updated, with
  anything added from any callback; nothing but a removal behind a loop makes
  an object miss a frame, nothing but persistence makes it run twice;
- coroutines, tweens, springs: the slot that is cleared is the slot that
  ended; a waiter waits for something that will come; ends happen alone; an id
  names one thing;
- bus, state machine, timers: each reference taken is given back once, while
  its state is open and while nobody else has its number; what was removed is
  not called; what is there is;
- state machine: a request waits, and the transition under way goes where it
  was going;
- store: an owner's entries reach nobody else, and nothing that was kept goes
  but by a call for it;
- UI world: a stale handle is seen to be stale; storages hold what was attached
  to the living, and are never full while a slot is free;
- arena: no byte has two owners, what is looked at stays, and assets that are
  freed in reverse order leave no hole;
- compositor: the screen shows the layers, and a scene at rest costs nothing.

## The modules

| Module | Models | Source |
|---|---|---|
| `SceneStateMachine` | the manager, the lifecycle of its scenes, the persistent registry, the ownership side of the collection | `scene_state_machine.hpp`, `scene.hpp`, `object_collection.hpp` |
| `ObjectCollection` | the loops of the collection and, under them, of an object's components, with what the components may do | `object_collection.hpp`, `object.hpp`, `object.cpp`, `component.hpp` |
| `LuaAsync` | coroutine, tween and spring pools and the frame that ticks them | `bindings_async.cpp`, `bindings_tween.cpp`, `sdl_main.cpp` |
| `LuaEventBus` | engine.event over Lua's registry | `lua_event_bus.cpp`, `bindings_engine.cpp` |
| `StateMachine` | C_StateMachine, with what its binding takes from the registry | `state_machine.cpp`, `bindings_proxy.cpp` |
| `DeferredTransition` | what a machine with deferred transitions promises (abstract) | |
| `Timer` | C_Timer | `timer.cpp`, `bindings_proxy.cpp` |
| `LuaStore` | engine.store over the desktop file and the blobs of web and device | `bindings_store.cpp` |
| `UiWorld` | entity manager, free list, generations, packed storages | `ui/world.hpp`, `ui/system.hpp`, `ui/component.hpp` |
| `EntityRegistry` | what the UI world promises (abstract) | |
| `LayeredAssets` | the arena, the store of layered assets with its sprites, the pets | `asset_arena.cpp`, `layered_asset.cpp`, `shape_pack_group.cpp` |
| `LayerCompositor` | the dirty-tile path of the compositor and its presenter | `layer_compositor.hpp` |
| `MC...` | the instance of each for TLC: symmetry and definitions for constants | |
| `..._proofs` | theorems about `SceneStateMachine`, `LuaAsync`, `StateMachine`, `UiWorld`, `LayeredAssets`, `LayerCompositor`; `LuaServices_proofs` is about `LuaEventBus` and `LuaStore`, `ObjectsAndTimers_proofs` about `ObjectCollection` and `Timer` | |

A definition whose comment begins with "Slip" is not part of a specification:
it is the definition after it with a plausible mistake (a dropped guard, a
missing reset, a swapped order), and is used to see that the properties notice.

### SceneStateMachine

A scene is its id; an object is its address, and addresses are not reused, so
that a pointer to a dead object can be told from one to a living object. The
manager's methods call hosts at `onCreate`, `onActivate`, `onUpdate` and
`onDeactivate`. `agenda` is the list of calls that the running method has still
to make; the head is taken by one action per kind of call:

| Call | Action | Code |
|---|---|---|
| `transition`, `fadeIn` | `UpdateTransition`, `StartFadeIn` | updateTransition 555-588 |
| `update` | `UpdateScene` | Scene::update |
| `deferred` | `TakePending` | update 317-326, with flushPendingRemovals |
| `deactivate` | `DeactivateScene` | Scene::deactivate |
| `enter`, `enterFade` | `EnterScene` | completeTransition, the halfway point of a fade |
| `enterSwitch`, `reset` | `SwitchScene` | applyDeferredTransition 515-552 |
| `initialize`, `activate` | `InitializeScene`, `ActivateScene` | Scene::initialize, activate |
| `settle` | `SettleTransition` | completeTransition 613-621 |

Of the host operations, `AddScene`, `RemoveScene` and `ChangeScene` are enabled
between frames only; `SwitchTo`, `AddObject`, `RemoveObject` and
`UnpersistObject` are enabled there and at every callback, and `PersistObject`
at the points that a constant names. The registry keeps its slots and its
pendingRemoval flags apart, as the code does; `external` counts how often
`m_external` holds an object, since it can hold one twice. A scene is named by
its id, so `AddScene` leaves one case out: addScene looks at the registered
slots (191-196), and an id whose old scene lives on in a slot behind them, or
as the current or the next scene, could be added again.

Three constants say what a host does: the types it passes to changeScene, the
callbacks from which it persists objects, and the scenes it may remove. They
separate the uses that are safe from those under "What disagrees" below. Scene
rendering and the manager's signals change none of its state and are left out;
so are the object loops (a scene's update is one callback), which
ObjectCollection has.

### ObjectCollection

`stack` is the stack of calls in progress, innermost last: a loop of the
collection with the index it looks at next, a method of an object with the
index of its component, or a component that was added and is being awoken and
started. A frame of the stack whose `c` is not None is inside that component's
callback, and the game's operations are enabled there and between frames. Each
loop reads its array and its count again at every turn, as the code does, so
that a removal behind it makes it pass over what moved down. `passedOver`,
`due`, `kept`, `ran`, `awoken` and `started` are history: what a removal moved
past a loop, what this frame has to reach, what was persisted in it, and how
often what was called. `AwakeAdded` and `StartAdded` are the two halves of
addComponent, which end in the call of the component or go on without it;
`Compacted` is the loop of removeInactiveObjects, as a recursive function.
CalledInOrder makes one exception, for `passedOver`: a component that a removal
moved to the place where the loop of awake or start stands, or that was added
to a place such a removal had left behind it; the loop does not come to it. (A
narrower set passes the run, where an object has three components, and fails
with four: it was the proof that asked for the exact one.) A removed last
component keeps its place beyond the count, as it does in the array. Here
`external` is the order in which externals are updated; the ownership of
persistent objects across scenes is SceneStateMachine's.

### LuaAsync

`pc` is where the frame is: in `update()`, in the loop of tickCoroutines or in
a coroutine it resumed, in the loop of tickTweens, in its loop over the waiters
of a completed tween or in a waiter, in a done callback. `i`, `j`,
`completedId` and `running` are the locals of those loops. Springs are advanced
just before the tweens. The actions of `Calls` are what a script may do at any
of these points; those of `Returns` end the stretch of script (a yield by wait,
wait_frames or await, the end of the coroutine, the return of a callback). Time
is counted in frames. `wait_frames` stores `n - 1`, and a stored 0 means no
frame wait, as in the code. Threads that ended may be started again, as Lua may
reuse the address of a collected thread. `orphaned` is history: the tween that is awaited was cancelled.

Errors of Lua code end a coroutine as its return does (the code treats both in
the same branch). A spring is on a field, which stands for a table and a key
of it; it may settle at any tick, since when it does is arithmetic, and a call
for a field that has a spring changes its goal and no slot.

### LuaEventBus

`emits` is the stack of the emits that have not returned, each with the
snapshot of subscribers it took (the code copies the references; the ids beside
them are history), its position in it, and whether a handler is running.
`registry` is Lua's, and records for which subscription a number was taken, or
that another of its users has it: timers, states, tweens and coroutines take and
free numbers between emits and inside handlers (`OtherTakes`, `OtherGives`), and
`luaL_ref` may return any free one. emit calls by number: it calls whatever
function it finds there, and skips what is no function, which may be free or a
table of somebody else (`CallNext`). A subscription that the bus refuses, its
channels or the channel's slots being full, took a reference before and gives it
back (`OnRefused`). A scene change disarms the bus, a load of a script clears and
arms it. A subscription made while the bus is disarmed fails after its
reference was taken and nobody gives it back: `OnDisarmed` leaks it. `Stored`
maps a name to what a channel keeps of it, which is a cut copy if the name has
MAX_NAME_LEN characters or more; the runs use the identity.

### StateMachine and DeferredTransition

`at` is the callback that runs, or the point between two callbacks of update.
`luaState` is `m_L`, the Lua thread that called addState last: the main thread
or that of a coroutine, which may end (`CoroutineEnds`; `alive` are those that
have not, `adder` is the last caller, as history). addState sets it before it
refuses a name, too. An active state may have the empty name, which findState
never finds. The binding takes up to three references for a state; they are taken and given
back together, and one number stands for them. `entered` is history.
`DeferredTransition` has three variables (state, request, target) and four
actions (ask, leave, enter, reset). The refinement mapping reads the target
from `m_pendingState` while update is between the exit callback and the entry,
and the request from the pair of `m_hasPending` and `m_pendingState`.

### Timer

`at` is the slot of update's loop and `calling` the locals it keeps across a
callback (id, reference, whether the timer repeats). `held` are the registry
numbers not given back, `done` the ids that may not fire again. `passed` and
`credit` are history: the time since a timer was scheduled or fired, and the
length of the frame in whose update it was scheduled into a slot ahead of the
loop. Times are whole numbers; the code adds floats.

### LuaStore

`host` is the build: the desktop writes its file anew at every change, the web
and the device write one blob for each namespace at a flush. `scope` is the
path or the namespace, `saved` what is kept for each, `touched` is history: the
keys a call changed since the last load. Two differences between writing and
reading are kept: `ReadBack` (six digits of a number), and `Unreadable` (inf
and nan, at which the loader stops). `Fits` is the blob's buffer. A text is the
sequence of its entries. A host may refuse a save (the file does not open, the
flash fails), and nothing is written; auto-save tells nobody. On the desktop a
save may also be cut short, by a full disk or the end of the program, and
leaves a beginning of the text, its last value perhaps cut (`Torn`); `cutting`
says when that may happen, and the program goes on after it or restarts.
`ReadBackAssumption` is what the code's `%g` gives: what was read back once
is read back as it is. The names of the module's initial states and steps begin
with "Store", so that one module of proofs can extend it and LuaEventBus. `load` and `exists` change nothing and are left out.

### UiWorld and EntityRegistry

The free list, the generations and, for each component type, the sparse array,
the packed entities and the packed components are as in the code. Clients keep
every handle they were ever given: `handle[n]` is that of the n-th entity, and
`age` is history, how often its slot was given up since. `EntityRegistry` names
entities by the order in which they were made and has no slots: a set of those
that live and, for each type, what was attached last. The refinement mapping
reads the living from `age` and their components through the sparse arrays.

### LayeredAssets

`used` is the arena's cursor; a block has the cursor it was taken at, the
aligned address and its end, all in units of bytes. A slot keeps its reference
count and whether its handle is live; a sprite keeps the handle it retained
and the view it looks at. A pet carves a buffer and a hit map and keeps both
until it outgrows them. `inOrder` is history: every asset went when its block
was the last, and no pet outgrew its buffer.

### LayerCompositor

A tile is one pixel, for nothing reaches across tiles. `dirty`, `restoreSet`,
`mergedDirty` and `pendingDirty` are the four sets of tiles of the code; the
host draws and sets between beginFrame and compositeDirty, and between frames.
`Present` is the presenter of the platform, as `presenter.hpp:21-23` describes
it: it copies the merged tiles to the screen. `quiet` is history: the frames
since the last change. `calls` bounds what the host does.

## The runs

All of them pass.

| Run | Module | Shows |
|---|---|---|
| `scene_switch` | MCSceneStateMachine | with switchTo, and persistence from every callback but onDeactivate: one owner per object, no dangling external, each persistent object in each frame once, only condemned objects die, requests survive until they are applied |
| `scene_transitions` | MCSceneStateMachine | fades, slides and immediate changes mixed with deferred switches from every callback: the half of a fade and the end come when the timer says so, one scene is active when it is over, and it is over in the end |
| `object_loops` | MCObjectCollection | components that spawn, destroy, persist, activate, add, remove and disable from every callback: awoken, started and updated in order, no object missed, none updated twice but for persistence |
| `async_pools` | MCLuaAsync | one slot per thread and per field, one tween or spring per id, the loop clears the slot it resumed, a waiter waits for a tween that will reach it and is woken by that one, ends happen alone |
| `async_progress` | MCLuaAsync | every coroutine runs again and every tween ends |
| `bus_emit` | MCLuaEventBus | references match subscriptions, refused ones too; an emit calls what it listed, in place of a handler that was removed only what took its number since, and passes over only what was removed |
| `fsm_machine` | MCStateMachine | references match states, the thread to give them back to is there, though coroutines add states and end; only entered states are called, the machine implements DeferredTransition, requests are taken |
| `timer_slots` | MCTimer | references match timers, what is cancelled or done never fires, no timer fires early (but see below), timers fire |
| `lua_store` | MCLuaStore | owners are kept apart; nothing kept is forgotten, through full stores, saves that do not fit or are refused, changes of owner, restarts and saves cut short |
| `ui_world` | MCUiWorld | stale handles are seen to be stale, slots and storages are accounted for, the world implements EntityRegistry |
| `layered_assets` | MCLayeredAssets | blocks lie apart, views stay, reverse order loses nothing |
| `compositor_frames` | MCLayerCompositor | after every present the screen shows the layers; a scene at rest composites nothing |

Deadlock is checked in every run: a game loop never stops.

### Bounds, and why they are enough

- `scene_switch`: three scenes (the one left, the one entered, and one that a
  callback asks for in between), three objects over two registry slots and two
  places per collection, so that both fill up and an object is left over. The
  animated transitions are left to the other run; Duration is not reached.
- `scene_transitions`: three scenes for the same reason, no objects, a duration
  of four ticks and frames of one or two: a fade has a first half, a frame that
  ends exactly at its middle and one that crosses it, and a last frame that
  takes the timer past the end (the code clamps the progress, 563-564, and not
  the timer, 560; nor does UpdateTransition).
- `object_loops`: four objects over three places and one external place: a
  removal behind, at and before a loop, a spawn ahead of it, a full collection
  and a full registry. Three components an object, so that one is moved by a
  removal and one is left beyond the count. Five calls of the game in a
  behaviour: enough to spawn two objects, add a component and remove and spawn
  in the same loop.
- `async_pools`: two slots of each pool with three threads, two fields and
  three ids: a slot is freed and given to another while a loop stands on it, on
  the slot before and on the slot after, and an id is handed out again after a
  reset. Waits and durations up to two frames, and zero.
- `async_progress`: one tween slot, one spring and two threads, enough for a
  waiter, a starter and a reused tween slot; liveness needs the smaller graph.
- `bus_emit`: three subscribers in a channel (before, at and after the
  position of an emit), two channels and two names, emits two deep so that an
  inner one changes the channel of an outer one; four ids over four registry
  numbers, so that a channel is full and refuses the fourth, and a number that
  a handler gave up is taken by another handler or another user.
- `fsm_machine`: two names and the empty one over two slots, so that a state is
  refused; three references over two, so that the reference that is given back
  differs from the one that is taken; the main thread and one coroutine at a
  time; states with no callback, one, or all three.
- `timer_slots`: two slots, one before and one after the loop's position; four
  ids over three references; delays 0 and 2 with frames of 1 and 2: due at
  once, on time, and late.
- `lua_store`: two owners, three keys over two entries, so that a store is
  full; texts of one unit, and of two for the table that was refused, in a
  buffer of three, so that a full store may fit or not; one value that is read
  back as another.
- `ui_world`: three slots, five entities and a generation that takes two
  values, so that it comes round while handles are kept; the last, the first
  and the only entry of a storage are removed.
- `layered_assets`: eighteen units, two alignments, three assets of two sizes,
  three sprites and two pets that outgrow their first buffers: padding of every
  length that occurs, an arena that fills, and builds that fail at each step.
- `compositor_frames`: two layers (what covers and what is covered), two tiles
  (one touched, one not), four calls of the host over any number of frames: a
  source is set, drawn over, hidden and shown again.

`MaxId`, `MaxTweenId`, `MaxDepth`, `MaxDt`, `MaxWait`, `MaxMade`, `MaxCalls`
bound counters and inputs that the code does not bound; the proofs hold for
every value of them.

### Assumptions

What the runs leave to the game, and where the code relies on it:

- no object is destroyed, and no component removed, from inside its own method
  (the code would go on in freed memory; ObjectCollection);
- the host sets and draws before compositeDirty or after endFrame, not between
  the two, as the header's frame says (LayerCompositor);
- a handle of the UI world is not used after its slot was reused as often as
  the generation counts (UiWorld, `Kept`);
- the platform's writes of a blob are whole or refused, namespaces have distinct hashes
  and owners distinct paths, and the blob without a namespace is loaded with
  path() only; the values of the run are read back (LuaStore, `Unreadable`
  names the others);
- the tables that tweens and springs write to have no metamethods that call
  engine.async or engine.tween (LuaAsync);
- names of events and keys of springs fit their arrays (`Stored` is the
  identity in the runs);
- what a constant named `Idioms`, `PersistPoints`, `ChangeTypes` or `Removable`
  leaves out, told under "What disagrees".

### Fairness

The main loop calls update and the ticks every frame
(`sdl_main.cpp:340-380`), and a call into Lua or into a host returns, or the
program hangs. `FairSpec` says just that: weak fairness of the engine's next
step inside a method, of the next frame, and of the return of a callback. No
operation of the game is owed: it may or may not call anything. In `Timer` a
frame is begun again and again with a length from `Dts`, which are positive
there: a clock that never advances fires nothing. That the compositor settles
is stated over its frames and needs no fairness.

## What is proved

TLAPS proves these for all scenes, objects, pools, names and bounds, from the
assumptions the modules name (bounds are natural numbers, nullptr is not a
scene or an object, and the like).

- **SceneStateMachine_proofs.** `TypeCorrect` and `ObjectsHaveOneOwner` need
  nothing of the host. UniqueOwner is inductive with TypeOK: each action moves
  ownership at most once, and the lemmas about `Destroy`, `FlushAndDetach` and
  the registry say what is left. `OnlyCondemnedDie` follows from it, action by
  action. `RequestsAreApplied` needs the types only: what a deferred switch
  still has to call holds the entry of the scene that was asked for.
  `TransitionsKeepTime` needs nothing of the host either: `TimeSound` says what
  holds while calls are ahead, that the time is up once "settle" is among them
  and half of it over once "fadeIn" is.
  `SwitchingNeverDangles` says that a host which switches with
  switchTo only and persists nothing from onDeactivate never leaves a pointer
  to a dead object. NoDanglingExternal says too little of the half-done
  methods to be inductive; `SwitchInv` adds that a method enters at most one
  scene, first or right after leaving the old one, that no scene holds an
  external while an entry is still to come, that externals are held by the
  current scene only and are persistent, and that no animation runs.
  `PersistentObjectsParticipate` adds `Joined` for the same hosts: once a scene
  was injected into, it holds every object of the registry, once, and the
  registry fits the collection (`MaxPersistent <= MaxExternal`, which the code
  has as equal constants: the theorem shows that it leans on it).
  `OneSceneIsActive` holds for every transition and every call from a callback,
  if scenes are not removed where transitions animate (`Steady`; removeScene
  does not look at the target). `TableSound` says which scenes are in the
  table and that what is still to be called concerns those; `ActiveInv` then
  says, for each place in a method, which scenes are active after what it has
  still to call: leaving comes before entering, a slide has both scenes, and a
  deferred switch in the middle of one leaves the right one behind.
- **LuaAsync_proofs.** `TypeCorrect` and `OneSlotHolds` hold whatever scripts
  do. `Typed` strengthens TypeOK with the ranges of the loop indices at each
  `pc`; `IdsGiven` says that the ids in both pools are not above the counter,
  so that the next one is new, and it survives a reset because the reset
  empties both pools. `RunningSlotHolds` and `CoroutinesEndAlone` assume that
  no coroutine cancels itself while it runs: the slot of the thread that runs
  is then neither freed nor given away by the calls made from it, because a
  start takes a free slot. `AwaitedTweensAreActive` and `OnlyAwaitedTweenWakes`
  are about waits. `CompletionSound` pins the tween that completes to its slot
  while its waiters and its callback run, if no script cancels it meanwhile;
  `WakesInTurn` says that the loop over the waiters never goes back. Then a
  wait is sound as long as its tween runs, or completes and has the coroutine
  still ahead; the idioms that are left out are those that break this, and the
  two theorems need different ones.
- **LuaServices_proofs**, of LuaEventBus. Its theorems hold for every script and
  whatever the other users of the registry do. `RefsAreMatched`: a reference is
  taken with its subscription and released with it, or at once if it is
  refused. `EmitsCallTheirSnapshot` and `EmitsSkipTheRemoved` rest on `Sound`:
  what is ahead in a snapshot is either subscribed, with its own number, or
  gone for good, and its number is then free or was taken after the emit began
  (ids are not reused, so `from`, the next id at that time, tells).
- **LuaServices_proofs**, of LuaStore. `StoresStayApart` needs the types only:
  every entry in memory and in a blob is its owner's, and what is loaded or
  saved keeps the tags of its entries. `NothingIsForgotten` assumes that every
  value can be read (`Unreadable = {}`; with inf or nan it is false) and rests
  on two facts: a text is read back as it is (`TextsRead`), and memory holds
  what the text of the scope says, except for keys that were touched
  and values that were cut (`SavedIsHeld`). So it is a load that makes a save
  safe, and a save that was cut is made good by the next that is not. The lemmas on `Put`,
  `Without`, `Text`, `Loaded` and `Torn` say what each keeps of an array.
- **StateMachine_proofs.** `TypeCorrect` and `RefsAreMatched` hold for every
  script; the invariant adds that a slot without a state is empty, and one
  lemma, on writing a slot, serves the ways addState ends.
  `RefsCanBeGivenBack` assumes that the coroutine which called addState last
  does not end before the states are cleared ("added_by_ended" is not among
  the idioms); all others may. It rests on `Remembers`: `m_L` is the thread of
  the last call, refused or not. `OnlyEnteredAreCalled` assumes that no state is added
  under the name the machine has already moved to. `MachineDefersTransitions`
  is the refinement: with no request from an exit callback, every step of the
  machine is a step of DeferredTransition or a stutter. It needs that nothing
  is pending while a state is left.
- **ObjectsAndTimers_proofs**, of Timer. `RefsAreMatched`: a reference is in one place, and the
  one-shot timer whose callback runs keeps its own until the callback returns.
  `TimersFireOnTime` rests on an equation the code never writes down: what a
  timer counts as elapsed is, up to its delay, the time that passed and the
  length of the frame in whose update it was scheduled ahead of the loop.
- **ObjectsAndTimers_proofs**, of ObjectCollection. `CollectionTypeCorrect`:
  `Placed` is TypeOK for the arrays, with two facts it leans on, that a slot
  beyond the count holds nothing or a component of the same object, and that
  nobody is dead and owned. `NobodyIsMissed` and `PersistedRunAgain` are about
  one frame, and need to know where its loops are: `Stacked` says that only a
  loop of the frame, or a method, is on the stack, and that update and its
  walk over the externals are at the bottom; `Counted` then says of each
  object how often it was updated so far, from the index of the loop, its
  place in the arrays, and the sets that record who was spawned, persisted or
  moved. One lemma per action: what each keeps of the arrays (`...Places`),
  of the stack, and of the counts (`...Counts`).
  `ComponentsAreCalledInOrder` is the longest proof here, because what keeps a
  component from being awoken twice is spread over all the calls in progress.
  `CallOrder` says it in three parts. `InOrder`: which call may wait below
  which. Whatever is not on top runs a component or has just called awake or
  start; of the methods of one object only the innermost runs one; nothing of
  an object's methods begins while a component is being added to it.
  `CallsSound`: what a call says of its object. A loop that has begun found
  its flag unset, and what it waits for is set or on its way (`InTurn`); the
  component it runs is still in a slot it has reached (`Sound`). `AllOnce`:
  a component was awoken once if a loop has reached its slot or the flag of
  its object is set, unless its own addition has still to do it, and otherwise
  never; and so for start. Each action then has a lemma
  (`...KeepsOrder`), and the hard ones are those that move slots under a
  waiting loop (`RemoveComponentKeepsOrder`, `AddComponentKeepsOrder`): that
  no component outside `passedOver` is missed or called twice is shown there.
  The theorem covers any number of objects, components and nested calls, where
  TLC sees four objects, three components each and five calls of the game.
- **UiWorld_proofs.** `StaleHandlesAreDetected` for every width of the
  generation: a slot's generation is that of any handle to it that was
  not outlived, moved on by the handle's age in a circle that skips 0. `SlotsAreAccounted`: the free
  list and the living share out the slots, and sparse and packed arrays point
  at each other. `WorldImplementsRegistry` uses both: Attach never finds its
  storage full, so each step is one of EntityRegistry's.
- **LayeredAssets_proofs.** `TypeCorrect`, `NoByteShared`, `ViewsStayValid` and
  `ReverseOrderLosesNothing` are one invariant: that a rollback goes no further
  than the last block needs that blocks lie apart, and that views hold needs
  that only unlooked-at slots are cleared.
- **LayerCompositor_proofs.** `ScreenIsCurrent`, for hosts without the idioms:
  where the output may differ from the layers, a tile is in one of the sets
  that the next compositeDirty reads, and the display differs from the output
  at merged tiles only. `QuietFramesAreEmpty` says in turn what can still be in
  those sets one frame and two frames after the last change.

Only model-checked: everything temporal beyond invariants and action
properties (`TransitionCompletes`, `EveryCoroutineRuns`, `EveryTweenEnds`,
`RequestsAreTaken`, `EveryTimerFires`), because the prover does no fairness.
Every invariant and action property that a run checks is also a theorem, under
the assumptions named above.

## What disagrees

The code does something other than a comment or the documentation says at the
places below. The models do what the code does; where a promise cannot be kept
then, a constant of the module keeps that use out of the runs, and putting it
back gives TLC the sequence of calls.

- A persistent object "continues to participate in update ... during the
  current scene and all subsequent scenes" (`scene_state_machine.hpp:404-408`).
  completeTransition (593) does not hand externals over: after changeScene the
  object is left behind. (`scene_switch` has no `ChangeTypes`.)
- persist returns "nil when pool is full" and the object "remains live"
  (`bindings_engine.cpp:720-721`). persistObject (419) extracts first and drops
  what the registry refuses: the object dies, as in `PersistFull`.
- await of a tween that has finished "resumes immediately"
  (`docs/src/tutorials/async-coroutines.md:53`). While its waiters and its
  callback run the slot is still active (`bindings_tween.cpp:335`): a coroutine
  that awaits it then is suspended and never resumed. ("await_completing".)
- New handlers "fire starting from the next emit()" (`lua_event_bus.cpp:72-75`).
  The snapshot holds registry numbers (80): a removal and a subscription during
  the emit may give a new handler an old number, and the emit calls it. So it
  calls the callback of a timer, a state or a tween that took the number
  (`bindings_proxy.cpp:257`, `323`, `bindings_tween.cpp:115`). The model does
  it, and CallsItsSnapshot says what may be called instead of what was listed.
- setState from exit or enter "queues for the NEXT frame"
  (`state_machine.cpp:142-144`). The target is read after the exit callback
  (121): the request takes over at once, and an empty one follows.
  ("set_in_exit".)
- "Update is called once per frame" (`object.hpp:80`). persistObject injects at
  once (`scene_state_machine.hpp:421`): an object that is persisted during
  update runs again as an external (OnceUnlessPersisted says that nothing else
  does this). And an object that a removal moved behind the loop misses the
  frame (NobodyMissed).
- "Free/reload loops should therefore free in load order ... to conserve the
  budget" (`layered_asset.hpp:35-39`). Only the last block gives its bytes
  back, so that it is the reverse order which conserves them: NothingLost is
  about that one. A pet that outgrows its buffer leaves a gap too.
- setLayerVisible of Lua writes `visible[]` (`bindings_layers_text.cpp:74`),
  although the header asks for setVisible: on a host of the dirty-tile path
  what the layer showed stays on the screen. ("raw_visible".) clearRestore
  between beginFrame and compositeDirty (216) forgets what beginFrame painted.
  ("clear_in_frame".)
- A save of the store is a truncation and a write on the desktop
  (`bindings_store.cpp:277`). A program that ends in between leaves a
  beginning of the text, which the next load accepts: later keys are gone, and
  a value that was cut may be read as another. A full disk does the same, and
  auto-save does not look at the result (658). (`Faults`; NothingForgotten
  allows it for that file.)
- Numbers are written with six digits and read back so (`ReadBack`); inf and
  nan are written and then refused, and the loader keeps what came before and
  drops that key and every later one (421; `Unreadable`).

Other uses that go wrong:

- An object that is persisted from onDeactivate, after the externals of its
  scene were cleared, is put in them again and left there (538); when it dies,
  the scene keeps a pointer. (`PersistPoints` with "deactivate".)
- The fade enters its scene without the injection the other paths make (578).
  (`ChangeTypes` with the fade.)
- An object that is marked for removal still counts as persistent: persisting
  it again answers true, and the next switch destroys it (415).
- A deferred switch that is taken while a fade runs leaves nextScene and the
  timer, and the fade goes on to enter its own target (505).
- removeScene tests the current scene only (214): nextScene may be freed.
  (`Removable` and `ChangeTypes` together, with a guard on `next`.)
- A coroutine that cancels itself, or is cancelled by a callback it runs: the
  slot it gave up may be taken before lua_resume returns, and is cleared then
  (`bindings_async.cpp:202`). (`Idioms` with "cancel_running".)
- A tween that is cancelled from its own completion, likewise
  (`bindings_tween.cpp:300`; "cancel_completing"); a coroutine that awaits a
  cancelled tween never runs again ("cancel_awaited" with the liveness run).
- engine.tween.cancelAll starts the ids again (`bindings_tween.cpp:206`) and
  leaves the coroutines that await the tweens it cancelled: the completion of a
  later tween that is given the same id wakes them. ("cancel_all_awaited".)
- wait_frames(1) and wait_frames(2) both resume on the next tick
  (`bindings_async.cpp:253`).
- A state that is added under the name the machine has already moved to gets
  update and exit calls without an enter (`state_machine.cpp:43`;
  "add_current").
- A state that is added from a coroutine leaves `m_L` at the coroutine's thread
  (`bindings_proxy.cpp:317`). When the coroutine ends, or a scene change
  cancels it, callbacks are called on it and references given back through it
  after it was collected, until another addState sets `m_L` again
  ("added_by_ended"). Timers keep their `m_L` in the same way (260).
- An event name of 64 characters or more is stored cut and looked up whole:
  every `on` takes another channel and no emit finds it
  (`lua_event_bus.cpp:8`; a `Stored` that is not the identity).
- `on` between a scene change and the next load returns 0 and leaks its
  reference; and the load of a scene script clears what the top level of that
  script subscribed, because it runs before the clearing
  (`lua_script.cpp:143-146`).
- A timer that a callback schedules into a slot ahead of the loop is advanced
  by the frame in progress, and so fires up to a frame early
  (`timer.cpp:120`): FiresOnTime allows just that, as `credit`. A repeating
  timer starts its next period from zero and drifts by the overshoot.
- Removing the last component of an object only lowers the count
  (`object.hpp:222`): it lives on until another takes its place or the object
  dies. lateUpdate does not start what update did not reach: an object may get
  it before it was started.
- A handle of a layered asset is the index of its slot (`layered_asset.cpp:184`)
  and valid again for the next asset loaded there; loading a skin pack drops
  the handles it held before.
- composite() leaves index 15 of layer 0 in the output where compositeDirty
  gives 0; the two agree on layers that do not draw it.
- SystemManager::sortSystems runs over `systemCount - 1` pairs of an unsigned
  count (`ui/system.hpp:293`): with no system left it leaves the array.
- A handle of the UI world is valid again after 255 reuses of its slot
  (`ui/system.hpp:137`), and destroying through it gives up a slot that is in
  use.
- A table with too many entries is refused by the store, but has replaced the
  old value by then; path() to a file that is not there keeps the entries of
  the path before; the blob without a namespace is overwritten at the first
  flush unless path() loaded it.
- A spring whose key does not fit its slot (TWEEN_KEY_MAX) animates the cut key
  and is never found again by the whole one (`bindings_tween.cpp:409`): each
  call takes another slot.
- Coroutines, tweens and springs survive a reload of a script; what the
  script's top level registered in the event bus does not (`lua_script.cpp`).

## Not modelled, and why

- **Planned** (see below): signals, the script host, proxies, the memory
  pools, the systems and queries of the UI world, engine.state.
- **The full path of the compositor**, clearAll and composite: it composites
  everything and keeps no record of what is stale.
- **Pixels and numbers**: canvas, primitives, text, blits, effects, palettes,
  shapes and their lattice, physics, colliders, camera, easing and springs are
  arithmetic over buffers or continuous values without interleavings; golden
  images and unit tests reach them, a model checker does not.
- **Files**: the parsers and writers of assets, the importers and the tools are
  sequential conversions of bytes.
- **Wrappers**: argument conversion of the Lua bindings, the Lua engine, the
  API tables, the platform loops (which the models take as their environment),
  instrumentation.
- **Third party**: LuaJIT, stb, nanobench. Of Lua the models use what the code
  relies on: luaL_ref returns a free number, luaL_unref frees it, a resumed
  thread yields or ends.

## Plan

Done: the modules and the proofs above.

Next modules, most important first:

1. `Signal`: slots, ids and the emit loop of `core/signal.hpp`, with connect and
   disconnect from a callback; three slots, emits two deep. Promise: an emit
   calls what was connected when it began and is still connected, and a
   disconnect takes away what its id was given for. The second is known to fail
   (ids are slots, `signal.hpp:60`), so it needs an idiom.
2. `ScriptHost`: the life of C_LuaScript (load, failed load, reload, error
   policy, destruction in either order) composing LuaEventBus, Timer and
   StateMachine over one registry: nothing is given back to a closed state,
   nothing of an old script is called after a load. Two loads, two references
   for each user.
3. `HandlePool` of `core/memory.hpp`, with the proof of UiWorld's generations;
   the queries of the UI world while a system changes what it walks;
   engine.state.

Next proofs: the theorems that assume idioms away, for weaker assumptions.
Abstract specifications worth stating: an object's lifetime (unborn, owned, persistent, condemned, dead),
implemented by SceneStateMachine and ObjectCollection; and DeferredTransition,
which the scene manager's switchTo promises as well.
