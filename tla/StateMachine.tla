---------------------------- MODULE StateMachine ----------------------------
(***************************************************************************)
(* C_StateMachine: the named states of an object, their Lua callbacks and  *)
(* the transition that setState asks for and update makes.                 *)
(*                                                                         *)
(* The script of the object runs between the updates of the machine and in *)
(* its callbacks, where it may add states and ask for transitions; a load  *)
(* of the script empties the machine.  fsm:addState may also be called     *)
(* from a coroutine, and m_L is then the thread of that coroutine, which   *)
(* is gone when the coroutine has ended or was cancelled.                  *)
(*                                                                         *)
(* The references of the callbacks of a state are taken and released       *)
(* together: one number stands for the three.                              *)
(***************************************************************************)
EXTENDS Naturals

CONSTANTS
    Names,          \* the names states may be given, shorter than MAX_STATE_NAME
    Empty,          \* the empty name
    TooLong,        \* any name of MAX_STATE_NAME characters or more
    NoName,         \* no name
    MaxStates,      \* MAX_STATES
    HookSets,       \* the sets of callbacks that scripts give to states
    Refs,           \* numbers luaL_ref may return
    Main,           \* the main thread of the Lua state
    Coroutines,     \* the threads of coroutines (bounds those alive at a time)
    NoThread,       \* a null lua_State
    Idioms          \* what this script does beside the plain uses

(* set_in_exit: an exit callback asks for a transition; add_current: a     *)
(* state is added when the machine has already moved to its name;          *)
(* added_by_ended: the coroutine that called addState last ends while the  *)
(* machine holds callbacks.                                                *)
AllIdioms == {"set_in_exit", "add_current", "added_by_ended"}

ASSUME NameAssumption ==
    /\ Empty \notin Names
    /\ TooLong \notin Names \cup {Empty}
    /\ NoName \notin Names \cup {Empty, TooLong}
ASSUME ThreadAssumption == Main \notin Coroutines /\ NoThread \notin Coroutines \cup {Main}
ASSUME MachineAssumption ==
    /\ MaxStates \in Nat \ {0}
    /\ HookSets \subseteq SUBSET {"enter", "exit", "update"}
    /\ Refs \subseteq Nat \ {0}
    /\ Idioms \subseteq AllIdioms

VARIABLES
    states,     \* m_states
    luaState,   \* m_L
    current,    \* m_currentState
    pending,    \* m_pendingState
    hasPending, \* m_hasPending
    at,         \* where update is; "outside" between two updates
    held,       \* the references taken from the registry and not given back
    alive,      \* the coroutines that have added states and not ended
    adder,      \* (history) the thread that called addState last, since the
                \* states were cleared
    entered     \* "never" since the script was loaded, or whether the state
                \* of the current name was there when it was "entered"

vars == <<states, luaState, current, pending, hasPending, at, held, alive, adder, entered>>
lua == <<luaState, alive, adder>>

Free == [name |-> NoName, hooks |-> {}, ref |-> 0]
Slots == 1 .. MaxStates
StateNames == Names \cup {Empty}

(* The slot of a name; findState finds it unless the name is empty.        *)
Named(name) == {s \in Slots : states[s].name = name}
Found(name) == Named(name) \ Named(Empty)
Has(name, hook) == \E s \in Found(name) : hook \in states[s].hooks

(* The points at which Lua runs.                                           *)
Calling == {"update", "exit", "enter"}
Script == at \in Calling \cup {"outside"}

-----------------------------------------------------------------------------

(* The reference of new callbacks; none is taken when there are none.      *)
NewRef(hooks) == IF hooks = {} THEN {0} ELSE Refs \ held

(* (Slip: the references of the callbacks replaced are not released.)      *)
ReplaceKeepsRefs(s, hooks) ==
    \E r \in NewRef(hooks) :
        /\ states' = [states EXCEPT ![s] = [@ EXCEPT !.hooks = hooks, !.ref = r]]
        /\ held' = (held \cup {r}) \ {0}

(* addState on a name that is taken: the old references are given back.    *)
Replace(s, hooks) ==
    \E r \in NewRef(hooks) :
        /\ states' = [states EXCEPT ![s] = [@ EXCEPT !.hooks = hooks, !.ref = r]]
        /\ held' = (held \cup {r}) \ {0, states[s].ref}

(* addState in the first free slot.                                        *)
Create(s, name, hooks) ==
    /\ states[s] = Free
    /\ \A t \in Slots : states[t] = Free => s <= t
    /\ name = current /\ name # Empty /\ entered = "missing" => "add_current" \in Idioms
    /\ \E r \in NewRef(hooks) :
        /\ states' = [states EXCEPT ![s] = [name |-> name, hooks |-> hooks, ref |-> r]]
        /\ held' = (held \cup {r}) \ {0}

(* addState refuses, for a name that is too long or with every slot taken  *)
(* by another: the references are taken and given back.                    *)
Refuse(name, hooks) ==
    /\ name = TooLong \/ \A s \in Slots : states[s] # Free /\ states[s].name # name
    /\ \E r \in NewRef(hooks) : held' = (held \cup {r}) \ {0, r}
    /\ UNCHANGED states

(* (Slip: the machine keeps the first thread it was given.)                *)
AddStateKeepsThread(name, hooks, thread) ==
    /\ Script
    /\ luaState' = IF luaState = NoThread THEN thread ELSE luaState
    /\ alive' = (alive \cup {thread}) \ {Main}
    /\ adder' = thread
    /\ \/ \E s \in Named(name) : Replace(s, hooks)
       \/ name # TooLong /\ Named(name) = {} /\ \E s \in Slots : Create(s, name, hooks)
       \/ Refuse(name, hooks)
    /\ UNCHANGED <<current, pending, hasPending, at, entered>>

(* fsm:addState, called in a thread: m_L is set before anything is refused.*)
AddState(name, hooks, thread) ==
    /\ Script
    /\ luaState' = thread
    /\ alive' = (alive \cup {thread}) \ {Main}
    /\ adder' = thread
    /\ \/ \E s \in Named(name) : Replace(s, hooks)
       \/ name # TooLong /\ Named(name) = {} /\ \E s \in Slots : Create(s, name, hooks)
       \/ Refuse(name, hooks)
    /\ UNCHANGED <<current, pending, hasPending, at, entered>>

(* A coroutine ends, or is cancelled, and nothing keeps its thread.        *)
CoroutineEnds(thread) ==
    /\ Script
    /\ thread \in alive
    /\ adder = thread /\ held # {} => "added_by_ended" \in Idioms
    /\ alive' = alive \ {thread}
    /\ UNCHANGED <<states, luaState, current, pending, hasPending, at, held, adder, entered>>

(* fsm:setState; a name that is too long is ignored.                       *)
SetState(name) ==
    /\ Script
    /\ at = "exit" => "set_in_exit" \in Idioms
    /\ pending' = name
    /\ hasPending' = TRUE
    /\ UNCHANGED <<states, lua, current, at, held, entered>>

-----------------------------------------------------------------------------
(* (Slip: without a current state, update has nothing to do.)              *)
UpdateInState ==
    /\ at = "outside" /\ luaState # NoThread
    /\ Found(current) # {}
    /\ at' = IF Has(current, "update") THEN "update" ELSE "updated"
    /\ UNCHANGED <<states, lua, current, pending, hasPending, held, entered>>

(* update, up to the update callback of the current state.                 *)
Update ==
    /\ at = "outside" /\ luaState # NoThread
    /\ at' = IF Has(current, "update") THEN "update" ELSE "updated"
    /\ UNCHANGED <<states, lua, current, pending, hasPending, held, entered>>

CallbackReturns ==
    /\ at \in Calling
    /\ at' = CASE at = "update" -> "updated" [] at = "exit" -> "exited" [] OTHER -> "outside"
    /\ UNCHANGED <<states, lua, current, pending, hasPending, held, entered>>

NothingPending ==
    /\ at = "updated" /\ ~hasPending
    /\ at' = "outside"
    /\ UNCHANGED <<states, lua, current, pending, hasPending, held, entered>>

(* (Slip: hasPending is left to be cleared after the transition.)          *)
LeaveKeepsPending ==
    /\ at = "updated" /\ hasPending
    /\ at' = IF Has(current, "exit") THEN "exit" ELSE "exited"
    /\ UNCHANGED <<states, lua, current, pending, hasPending, held, entered>>

(* applyPendingTransition, up to the exit callback.                        *)
LeaveState ==
    /\ at = "updated" /\ hasPending
    /\ hasPending' = FALSE
    /\ at' = IF Has(current, "exit") THEN "exit" ELSE "exited"
    /\ UNCHANGED <<states, lua, current, pending, held, entered>>

(* applyPendingTransition, from the exit callback to the enter callback.   *)
EnterState ==
    /\ at = "exited"
    /\ current' = pending
    /\ pending' = Empty
    /\ entered' = IF Found(pending) # {} THEN "entered" ELSE "missing"
    /\ at' = IF Has(pending, "enter") THEN "enter" ELSE "outside"
    /\ UNCHANGED <<states, lua, hasPending, held>>

(* (Slip: the current state outlives the states.)                          *)
ClearKeepsCurrent ==
    /\ at = "outside"
    /\ states' = IF luaState # NoThread THEN [s \in Slots |-> Free] ELSE states
    /\ held' = IF luaState # NoThread THEN held \ {states[s].ref : s \in Slots} ELSE held
    /\ pending' = Empty /\ hasPending' = FALSE
    /\ luaState' = NoThread /\ adder' = NoThread
    /\ entered' = "never"
    /\ UNCHANGED <<current, at, alive>>

(* clearStates, when the script is loaded or the object destroyed.         *)
ClearStates ==
    /\ at = "outside"
    /\ states' = IF luaState # NoThread THEN [s \in Slots |-> Free] ELSE states
    /\ held' = IF luaState # NoThread THEN held \ {states[s].ref : s \in Slots} ELSE held
    /\ current' = Empty /\ pending' = Empty /\ hasPending' = FALSE
    /\ luaState' = NoThread /\ adder' = NoThread
    /\ entered' = "never"
    /\ UNCHANGED <<at, alive>>

-----------------------------------------------------------------------------
Init ==
    /\ states = [s \in Slots |-> Free]
    /\ luaState = NoThread /\ adder = NoThread /\ alive = {}
    /\ current = Empty /\ pending = Empty /\ hasPending = FALSE
    /\ at = "outside"
    /\ held = {}
    /\ entered = "never"

Next ==
    \/ \E name \in StateNames \cup {TooLong}, hooks \in HookSets :
            \E thread \in Coroutines \cup {Main} : AddState(name, hooks, thread)
    \/ \E thread \in Coroutines : CoroutineEnds(thread)
    \/ \E name \in StateNames : SetState(name)
    \/ Update
    \/ CallbackReturns
    \/ NothingPending
    \/ LeaveState
    \/ EnterState
    \/ ClearStates

Spec == Init /\ [][Next]_vars

(* The game loop updates the object every frame, and callbacks return.     *)
Fairness == WF_vars(Update \/ CallbackReturns \/ NothingPending \/ LeaveState \/ EnterState)

FairSpec == Spec /\ Fairness

-----------------------------------------------------------------------------
Entry == [name : StateNames \cup {NoName}, hooks : SUBSET {"enter", "exit", "update"}, ref : Refs \cup {0}]

(* Every variable holds a value its C++ declaration allows.                *)
TypeOK ==
    /\ states \in [Slots -> Entry]
    /\ luaState \in Coroutines \cup {Main, NoThread}
    /\ current \in StateNames
    /\ pending \in StateNames
    /\ hasPending \in BOOLEAN
    /\ at \in Calling \cup {"outside", "updated", "exited"}
    /\ held \in SUBSET Refs
    /\ alive \in SUBSET Coroutines
    /\ adder \in Coroutines \cup {Main, NoThread}
    /\ entered \in {"never", "missing", "entered"}

(* A name has one slot, and a state added with callbacks holds a reference *)
(* of its own; nothing else is held, whatever is replaced, refused or      *)
(* cleared.                                                                *)
RefsMatch ==
    /\ held = {states[s].ref : s \in Slots} \ {0}
    /\ \A s \in Slots : states[s].hooks # {} => states[s].ref # 0
    /\ \A s, t \in Slots : s # t =>
        /\ states[s].name # NoName => states[s].name # states[t].name
        /\ states[s].ref # 0 => states[s].ref # states[t].ref

(* Whatever the machine holds it can give back, in the destructor too: it  *)
(* knows a Lua thread that still exists, though coroutines add states and  *)
(* end.                                                                    *)
HeldWhileLive == held # {} => luaState \in alive \cup {Main}

(* The update and the exit callback that run are those of a state that was *)
(* entered since the script was loaded.                                    *)
CallsEnteredState == at \in {"update", "exit"} => entered = "entered"

(* setState waits for the end of an update, and a request that a callback  *)
(* of a transition makes waits for the next update.                        *)
Deferred == INSTANCE DeferredTransition WITH
    States <- StateNames,
    None <- NoName,
    state <- current,
    request <- IF hasPending THEN pending ELSE NoName,
    target <- IF at \in {"exit", "exited"} THEN pending ELSE NoName
DefersTransitions == Deferred!Spec

(* A request is taken up, if updates go on and callbacks return, unless    *)
(* the script has no state to enter, or is loaded again.                   *)
RequestsAreTaken ==
    (hasPending /\ luaState # NoThread) ~> (~hasPending \/ luaState = NoThread)

=============================================================================
