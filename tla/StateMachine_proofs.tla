------------------------- MODULE StateMachine_proofs -------------------------
(***************************************************************************)
(* Proofs about C_StateMachine, for every number of slots and of names:    *)
(* type correctness, the bookkeeping of references, and, for a script that *)
(* asks for nothing from exit callbacks, that the machine implements       *)
(* DeferredTransition.                                                     *)
(***************************************************************************)
EXTENDS StateMachine, TLAPS

(* A slot without a name is empty, and without a Lua state all slots are.  *)
SlotsClean ==
    /\ \A s \in Slots : states[s].name = NoName => states[s] = Free
    /\ luaState = NoThread => \A s \in Slots : states[s] = Free

IInv == TypeOK /\ SlotsClean /\ RefsMatch

-----------------------------------------------------------------------------
(* Initially nothing is held.                                              *)
LEMMA InitIInv == Init => IInv
<1> SUFFICES ASSUME Init PROVE IInv
  OBVIOUS
<1> USE NameAssumption, ThreadAssumption, MachineAssumption DEF Init, Slots, Free, StateNames
<1>1. TypeOK
  BY DEF TypeOK, Entry
<1>2. SlotsClean
  BY DEF SlotsClean
<1>3. RefsMatch
  BY DEF RefsMatch
<1> QED
  BY <1>1, <1>2, <1>3 DEF IInv

(* The reference of new callbacks is held by nobody.                       *)
LEMMA NewRefIsFree ==
    ASSUME NEW hooks \in HookSets, NEW r \in NewRef(hooks), TypeOK
    PROVE  /\ r \in Refs \cup {0}
           /\ r # 0 => r \notin held
           /\ hooks # {} => r # 0
BY MachineAssumption DEF NewRef, TypeOK

(* A state of the name is written into slot s, the only one it may be in.  *)
Write(s, name, hooks, r, new) ==
    /\ \A t \in Slots \ {s} : states[t].name # name
    /\ new.name = name /\ new.hooks = hooks /\ new.ref = r
    /\ states' = [states EXCEPT ![s] = new]
    /\ held' = (held \cup {r}) \ {0, states[s].ref}

(* With a free reference, and the one that the slot held given back, that  *)
(* keeps what is held in step with the slots.                              *)
LEMMA WriteSlot ==
    ASSUME IInv,
           NEW s \in Slots, NEW name \in StateNames,
           NEW hooks \in HookSets, NEW r \in NewRef(hooks),
           NEW new \in Entry, Write(s, name, hooks, r, new)
    PROVE  /\ states' \in [Slots -> Entry]
           /\ held' \in SUBSET Refs
           /\ \A t \in Slots : states'[t].name = NoName => states'[t] = Free
           /\ RefsMatch'
<1> USE NameAssumption, ThreadAssumption, MachineAssumption DEF IInv, Write, StateNames
<1>1. /\ r \in Refs \cup {0}
      /\ r # 0 => r \notin held
      /\ hooks # {} => r # 0
  BY NewRefIsFree
<1>2. new \in Entry /\ new.name = name /\ new.hooks = hooks /\ new.ref = r
  OBVIOUS
<1>3. /\ states \in [Slots -> Entry]
      /\ held \subseteq Refs
      /\ \A t \in Slots : states[t].ref \in Refs \cup {0}
  BY DEF TypeOK, Entry
<1>4. /\ states' \in [Slots -> Entry]
      /\ states'[s] = new
      /\ \A t \in Slots \ {s} : states'[t] = states[t]
  BY <1>2, <1>3
<1>5. /\ \A t \in Slots : states[t].ref # 0 => states[t].ref \in held
      /\ \A h \in held : \E t \in Slots : states[t].ref = h
      /\ 0 \notin held
  BY <1>3 DEF RefsMatch
<1>6. held' \subseteq Refs
  BY <1>1, <1>3
<1>7. \A t \in Slots : states'[t].name = NoName => states'[t] = Free
  BY <1>2, <1>4 DEF SlotsClean
<1>8. held' = {states'[t].ref : t \in Slots} \ {0}
  <2>1. ASSUME NEW h \in held' PROVE h \in {states'[t].ref : t \in Slots} \ {0}
    <3>1. CASE h = r
      BY <3>1, <2>1, <1>2, <1>4
    <3>2. CASE h \in held /\ h # states[s].ref
      <4>1. PICK t \in Slots : states[t].ref = h
        BY <3>2, <1>5
      <4>2. t # s /\ states'[t].ref = h
        BY <4>1, <3>2, <1>4
      <4> QED
        BY <4>2, <2>1
    <3> QED
      BY <3>1, <3>2, <2>1
  <2>2. ASSUME NEW t \in Slots, states'[t].ref # 0 PROVE states'[t].ref \in held'
    <3>1. CASE t = s
      <4>1. states'[t].ref = r /\ r # 0
        BY <3>1, <2>2, <1>2, <1>4
      <4>2. r # states[s].ref
        BY <4>1, <1>1, <1>5
      <4> QED
        BY <4>1, <4>2
    <3>2. CASE t # s
      <4>1. states'[t].ref = states[t].ref /\ states[t].ref \in held
        BY <3>2, <2>2, <1>4, <1>5
      <4>2. states[t].ref # states[s].ref
        BY <3>2, <4>1, <2>2 DEF RefsMatch
      <4> QED
        BY <4>1, <4>2, <2>2
    <3> QED
      BY <3>1, <3>2
  <2> QED
    BY <2>1, <2>2
<1>9. \A t \in Slots : states'[t].hooks # {} => states'[t].ref # 0
  BY <1>1, <1>2, <1>4 DEF RefsMatch
<1>10. ASSUME NEW t \in Slots, NEW u \in Slots, t # u
       PROVE  /\ states'[t].name # NoName => states'[t].name # states'[u].name
              /\ states'[t].ref # 0 => states'[t].ref # states'[u].ref
  <2>1. CASE t # s /\ u # s
    BY <2>1, <1>10, <1>4 DEF RefsMatch
  <2>2. CASE t = s
    BY <2>2, <1>10, <1>1, <1>2, <1>4, <1>5
  <2>3. CASE u = s
    BY <2>3, <1>10, <1>1, <1>2, <1>4, <1>5
  <2> QED
    BY <2>1, <2>2, <2>3
<1> QED
  BY <1>4, <1>6, <1>7, <1>8, <1>9, <1>10 DEF RefsMatch

(* Every step of the machine keeps the invariant.                          *)
LEMMA NextIInv == IInv /\ [Next]_vars => IInv'
<1> SUFFICES ASSUME IInv, [Next]_vars PROVE IInv'
  OBVIOUS
<1> USE NameAssumption, ThreadAssumption, MachineAssumption DEF IInv, StateNames
<1>1. ASSUME NEW name \in StateNames \cup {TooLong}, NEW hooks \in HookSets,
             NEW thread \in Coroutines \cup {Main}, AddState(name, hooks, thread)
      PROVE  IInv'
  <2>1. /\ luaState' = thread /\ luaState' # NoThread /\ adder' = thread
        /\ alive' \in SUBSET Coroutines
        /\ UNCHANGED <<current, pending, hasPending, at, entered>>
    BY <1>1 DEF AddState, TypeOK
  <2>2. ASSUME NEW s \in Named(name), Replace(s, hooks) PROVE IInv'
    <3>1. s \in Slots /\ states[s].name = name /\ name \in StateNames
      BY DEF Named, TypeOK, Entry, StateNames
    <3>2. PICK r \in NewRef(hooks) :
            /\ states' = [states EXCEPT ![s] = [@ EXCEPT !.hooks = hooks, !.ref = r]]
            /\ held' = (held \cup {r}) \ {0, states[s].ref}
      BY <2>2 DEF Replace
    <3>3. PICK new \in Entry :
            /\ new.name = name /\ new.hooks = hooks /\ new.ref = r
            /\ states' = [states EXCEPT ![s] = new]
      <4>1. states[s] \in Entry
        BY <3>1 DEF TypeOK
      <4>2. r \in Refs \cup {0}
        BY NewRefIsFree
      <4> DEFINE f == [states[s] EXCEPT !.hooks = hooks, !.ref = r]
      <4>3. f \in Entry /\ f.name = name /\ f.hooks = hooks /\ f.ref = r
        BY <3>1, <4>1, <4>2 DEF Entry
      <4>4. states' = [states EXCEPT ![s] = f]
        BY <3>2
      <4> QED
        BY <4>3, <4>4
    <3>4. \A t \in Slots \ {s} : states[t].name # name
      BY <3>1 DEF RefsMatch
    <3>5. /\ states' \in [Slots -> Entry]
          /\ held' \in SUBSET Refs
          /\ \A t \in Slots : states'[t].name = NoName => states'[t] = Free
          /\ RefsMatch'
      <4>1. Write(s, name, hooks, r, new)
        BY <3>2, <3>3, <3>4 DEF Write
      <4> QED
        BY <3>1, <4>1, WriteSlot
    <3> QED
      BY <2>1, <3>5 DEF TypeOK, SlotsClean
  <2>3. ASSUME NEW s \in Slots, name # TooLong, Named(name) = {}, Create(s, name, hooks) PROVE IInv'
    <3>1. PICK r \in NewRef(hooks) :
            /\ states' = [states EXCEPT ![s] = [name |-> name, hooks |-> hooks, ref |-> r]]
            /\ held' = (held \cup {r}) \ {0}
      BY <2>3 DEF Create
    <3>2. states[s].ref = 0
      BY <2>3 DEF Create, Free
    <3>3. held' = (held \cup {r}) \ {0, states[s].ref}
      BY <3>1, <3>2
    <3>4. \A t \in Slots \ {s} : states[t].name # name
      BY <2>3 DEF Named
    <3> DEFINE new == [name |-> name, hooks |-> hooks, ref |-> r]
    <3>6. r \in Refs \cup {0}
      BY NewRefIsFree
    <3>8. name \in StateNames
      BY <2>3
    <3>7. new \in Entry /\ new.name = name /\ new.hooks = hooks /\ new.ref = r
      BY <3>6, <3>8 DEF Entry
    <3>5. /\ states' \in [Slots -> Entry]
          /\ held' \in SUBSET Refs
          /\ \A t \in Slots : states'[t].name = NoName => states'[t] = Free
          /\ RefsMatch'
      <4> HIDE DEF new
      <4>1. states' = [states EXCEPT ![s] = new]
        BY <3>1 DEF new
      <4>2. Write(s, name, hooks, r, new)
        BY <3>3, <3>4, <3>7, <4>1 DEF Write
      <4> QED
        BY <3>7, <3>8, <4>2, WriteSlot
    <3> QED
      BY <2>1, <3>5 DEF TypeOK, SlotsClean
  <2>4. ASSUME Refuse(name, hooks) PROVE IInv'
    <3>1. UNCHANGED <<states, held>>
      BY <2>4, NewRefIsFree DEF Refuse, RefsMatch
    <3> QED
      BY <2>1, <3>1 DEF TypeOK, SlotsClean, RefsMatch
  <2> QED
    BY <1>1, <2>2, <2>3, <2>4 DEF AddState
<1>2. ASSUME NEW name \in StateNames, SetState(name) PROVE IInv'
  BY <1>2 DEF SetState, lua, TypeOK, SlotsClean, RefsMatch
<1>3. ASSUME Update PROVE IInv'
  BY <1>3 DEF Update, lua, TypeOK, SlotsClean, RefsMatch, Calling
<1>4. ASSUME CallbackReturns PROVE IInv'
  BY <1>4 DEF CallbackReturns, lua, TypeOK, SlotsClean, RefsMatch, Calling
<1>5. ASSUME NothingPending PROVE IInv'
  BY <1>5 DEF NothingPending, lua, TypeOK, SlotsClean, RefsMatch
<1>6. ASSUME LeaveState PROVE IInv'
  <2>1. at' \in {"exit", "exited"} /\ hasPending' = FALSE
        /\ UNCHANGED <<states, luaState, alive, adder, current, pending, held, entered>>
    BY <1>6 DEF LeaveState, lua
  <2>2. TypeOK'
    BY <2>1 DEF TypeOK, Calling
  <2>3. SlotsClean' /\ RefsMatch'
    BY <2>1 DEF SlotsClean, RefsMatch
  <2> QED
    BY <2>2, <2>3
<1>7. ASSUME EnterState PROVE IInv'
  BY <1>7 DEF EnterState, lua, TypeOK, SlotsClean, RefsMatch, Calling
<1>8. ASSUME ClearStates PROVE IInv'
  <2>1. \A s \in Slots : states'[s] = Free
    BY <1>8 DEF ClearStates, SlotsClean
  <2>2. states' \in [Slots -> Entry]
    BY <1>8 DEF ClearStates, TypeOK, Entry, Free
  <2>3. held' = {}
    <3>1. CASE luaState # NoThread
      BY <1>8, <3>1 DEF ClearStates, RefsMatch
    <3>2. CASE luaState = NoThread
      BY <1>8, <3>2 DEF ClearStates, RefsMatch, SlotsClean, Free
    <3> QED
      BY <3>1, <3>2
  <2>4. RefsMatch'
    BY <2>1, <2>3 DEF RefsMatch, Free
  <2> QED
    BY <1>8, <2>1, <2>2, <2>3, <2>4 DEF ClearStates, TypeOK, SlotsClean
<1>10. ASSUME NEW thread \in Coroutines, CoroutineEnds(thread) PROVE IInv'
  BY <1>10 DEF CoroutineEnds, TypeOK, SlotsClean, RefsMatch
<1>9. CASE UNCHANGED vars
  BY <1>9 DEF vars, TypeOK, SlotsClean, RefsMatch
<1> QED
  BY <1>1, <1>2, <1>3, <1>4, <1>5, <1>6, <1>7, <1>8, <1>9, <1>10 DEF Next

(* Type correctness of the machine.                                        *)
THEOREM TypeCorrect == Spec => []TypeOK
BY InitIInv, NextIInv, PTL DEF Spec, IInv

(* The references that the machine holds are those of its states.          *)
THEOREM RefsAreMatched == Spec => []RefsMatch
BY InitIInv, NextIInv, PTL DEF Spec, IInv

(* The thread that m_L names is the one that called addState last, and it  *)
(* is there as long as something is held.                                  *)
Remembers ==
    /\ adder = luaState
    /\ held # {} => adder \in alive \cup {Main}

LEMMA InitRemembers == Init => Remembers
BY DEF Init, Remembers

LEMMA NextRemembers ==
    ASSUME "added_by_ended" \notin Idioms, IInv, Remembers, [Next]_vars
    PROVE  Remembers'
<1> USE ThreadAssumption DEF Remembers
<1>1. ASSUME NEW name \in StateNames \cup {TooLong}, NEW hooks \in HookSets,
             NEW thread \in Coroutines \cup {Main}, AddState(name, hooks, thread)
      PROVE  Remembers'
  BY <1>1 DEF AddState
<1>2. ASSUME NEW thread \in Coroutines, CoroutineEnds(thread) PROVE Remembers'
  BY <1>2 DEF CoroutineEnds
<1>3. ASSUME NEW name \in StateNames, SetState(name) PROVE Remembers'
  BY <1>3 DEF SetState, lua
<1>4. ASSUME Update \/ CallbackReturns \/ NothingPending \/ LeaveState \/ EnterState
      PROVE  Remembers'
  BY <1>4 DEF Update, CallbackReturns, NothingPending, LeaveState, EnterState, lua
<1>5. ASSUME ClearStates PROVE Remembers'
  <2>1. held' = {}
    <3>1. CASE luaState # NoThread
      BY <1>5, <3>1 DEF ClearStates, IInv, RefsMatch
    <3>2. CASE luaState = NoThread
      BY <1>5, <3>2 DEF ClearStates, IInv, RefsMatch, SlotsClean, Free
    <3> QED
      BY <3>1, <3>2
  <2> QED
    BY <1>5, <2>1 DEF ClearStates
<1>6. CASE UNCHANGED vars
  BY <1>6 DEF vars
<1> QED
  BY <1>1, <1>2, <1>3, <1>4, <1>5, <1>6 DEF Next

(* If the coroutine that added states last does not end before they are    *)
(* cleared, whatever is held can be given back through m_L.                *)
THEOREM RefsCanBeGivenBack ==
    ASSUME "added_by_ended" \notin Idioms
    PROVE  Spec => []HeldWhileLive
<1>1. Init => IInv /\ Remembers
  BY InitIInv, InitRemembers
<1>2. IInv /\ Remembers /\ [Next]_vars => (IInv /\ Remembers)'
  BY NextIInv, NextRemembers
<1>3. Remembers => HeldWhileLive
  BY DEF Remembers, HeldWhileLive
<1> QED
  BY <1>1, <1>2, <1>3, PTL DEF Spec

-----------------------------------------------------------------------------
(* A state that the machine is in was there when it was moved to.          *)
Entered ==
    /\ entered = "never" => current = Empty
    /\ Found(current) # {} => entered = "entered"
    /\ CallsEnteredState

(* A transition that has yet to enter has no request behind it.            *)
NoRequestWhileLeaving == at \in {"exit", "exited"} => ~hasPending

(* They hold initially, and every step of a script that avoids the idiom   *)
(* that breaks each keeps it.                                              *)
LEMMA InitHolds == Init => Entered /\ NoRequestWhileLeaving
BY NameAssumption DEF Init, Entered, CallsEnteredState, NoRequestWhileLeaving, Found, Named

LEMMA NextEntered ==
    ASSUME "add_current" \notin Idioms, IInv, Entered, [Next]_vars
    PROVE  Entered'
<1>1. ASSUME NEW name \in StateNames \cup {TooLong}, NEW hooks \in HookSets,
             NEW thread \in Coroutines \cup {Main}, AddState(name, hooks, thread)
      PROVE  Entered'
  <2>1. UNCHANGED <<current, pending, hasPending, at, entered>>
    BY <1>1 DEF AddState
  <2>2. Found(current)' # {} => entered = "entered"
    <3>1. CASE Found(current) # {}
      BY <3>1 DEF Entered
    <3>2. ASSUME Found(current) = {}, Found(current)' # {} PROVE entered = "entered"
      <4>1. PICK t \in Slots : current # Empty /\ states'[t].name = current
        BY <3>2, <2>1 DEF Found, Named
      <4>2. states[t].name # current
        BY <3>2, <4>1 DEF Found, Named
      <4>3. CASE \E s \in Named(name) : Replace(s, hooks)
        <5>1. PICK s \in Slots : states[s].name = name /\ Replace(s, hooks)
          BY <4>3 DEF Named
        <5>2. states'[t].name = states[t].name
          BY <5>1 DEF Replace, IInv, TypeOK, Entry
        <5> QED
          BY <5>2, <4>1, <4>2
      <4>4. CASE \E s \in Slots : Create(s, name, hooks)
        <5>1. PICK s \in Slots : Create(s, name, hooks)
          BY <4>4
        <5>2. CASE t = s
          <6>1. name = current
            BY <5>1, <5>2, <4>1 DEF Create, IInv, TypeOK
          <6>2. entered # "missing" /\ entered # "never"
            BY <5>1, <6>1, <4>1 DEF Create, Entered
          <6> QED
            BY <6>2 DEF IInv, TypeOK
        <5>3. CASE t # s
          BY <5>1, <5>3, <4>1, <4>2 DEF Create, IInv, TypeOK
        <5> QED
          BY <5>2, <5>3
      <4>5. CASE Refuse(name, hooks)
        BY <4>5, <4>1, <4>2 DEF Refuse
      <4> QED
        BY <1>1, <4>3, <4>4, <4>5 DEF AddState
    <3> QED
      BY <3>1, <3>2
  <2> QED
    BY <2>1, <2>2 DEF Entered, CallsEnteredState
<1>2. ASSUME NEW name \in StateNames, SetState(name)
      PROVE  Entered'
  BY <1>2 DEF SetState, lua, Script, Calling, Entered, CallsEnteredState, Found, Named
<1>3. ASSUME Update PROVE Entered'
  BY <1>3 DEF Update, lua, Entered, CallsEnteredState, Found, Named, Has
<1>4. ASSUME CallbackReturns PROVE Entered'
  BY <1>4 DEF CallbackReturns, lua, Calling, Entered, CallsEnteredState, Found, Named
<1>5. ASSUME NothingPending PROVE Entered'
  BY <1>5 DEF NothingPending, lua, Entered, CallsEnteredState, Found, Named
<1>6. ASSUME LeaveState PROVE Entered'
  BY <1>6 DEF LeaveState, lua, Entered, CallsEnteredState, Found, Named, Has
<1>7. ASSUME EnterState PROVE Entered'
  BY <1>7 DEF EnterState, lua, Entered, CallsEnteredState, Found, Named
<1>8. ASSUME ClearStates PROVE Entered'
  BY <1>8 DEF ClearStates, Entered, CallsEnteredState, Found, Named
<1>10. ASSUME NEW thread \in Coroutines, CoroutineEnds(thread) PROVE Entered'
  BY <1>10 DEF CoroutineEnds, Entered, CallsEnteredState, Found, Named
<1>9. CASE UNCHANGED vars
  BY <1>9 DEF vars, Entered, CallsEnteredState, Found, Named
<1> QED
  BY <1>1, <1>2, <1>3, <1>4, <1>5, <1>6, <1>7, <1>8, <1>9, <1>10 DEF Next

LEMMA NextWaits ==
    ASSUME "set_in_exit" \notin Idioms, NoRequestWhileLeaving, [Next]_vars
    PROVE  NoRequestWhileLeaving'
<1> USE DEF NoRequestWhileLeaving
<1>1. ASSUME NEW name \in StateNames \cup {TooLong}, NEW hooks \in HookSets,
             NEW thread \in Coroutines \cup {Main}, AddState(name, hooks, thread)
      PROVE  NoRequestWhileLeaving'
  BY <1>1 DEF AddState
<1>2. ASSUME NEW name \in StateNames, SetState(name) PROVE NoRequestWhileLeaving'
  BY <1>2 DEF SetState, lua, Script, Calling
<1>3. ASSUME Update PROVE NoRequestWhileLeaving'
  BY <1>3 DEF Update
<1>4. ASSUME CallbackReturns PROVE NoRequestWhileLeaving'
  BY <1>4 DEF CallbackReturns, lua, Calling
<1>5. ASSUME NothingPending \/ LeaveState \/ EnterState \/ ClearStates
      PROVE  NoRequestWhileLeaving'
  BY <1>5 DEF NothingPending, lua, LeaveState, EnterState, ClearStates
<1>6. ASSUME NEW thread \in Coroutines, CoroutineEnds(thread)
      PROVE  NoRequestWhileLeaving'
  BY <1>6 DEF CoroutineEnds
<1>7. CASE UNCHANGED vars
  BY <1>7 DEF vars
<1> QED
  BY <1>1, <1>2, <1>3, <1>4, <1>5, <1>6, <1>7 DEF Next

(* Only a state that was entered has its update and exit callbacks called. *)
THEOREM OnlyEnteredAreCalled ==
    ASSUME "add_current" \notin Idioms
    PROVE  Spec => []CallsEnteredState
<1>1. Init => IInv /\ Entered
  BY InitIInv, InitHolds
<1>2. IInv /\ Entered /\ [Next]_vars => (IInv /\ Entered)'
  BY NextIInv, NextEntered
<1>3. Entered => CallsEnteredState
  BY DEF Entered
<1> QED
  BY <1>1, <1>2, <1>3, PTL DEF Spec

(* The machine implements DeferredTransition.                              *)
THEOREM MachineDefersTransitions ==
    ASSUME "set_in_exit" \notin Idioms
    PROVE  Spec => DefersTransitions
<1> USE NameAssumption DEF StateNames
<1>1. Init => Deferred!Init
  BY DEF Init, Deferred!Init
<1>2. ASSUME IInv, NoRequestWhileLeaving, [Next]_vars
      PROVE  [Deferred!Next]_(Deferred!vars)
  <2> USE <1>2 DEF IInv, TypeOK, NoRequestWhileLeaving
  <2>1. ASSUME NEW name \in StateNames \cup {TooLong}, NEW hooks \in HookSets,
             NEW thread \in Coroutines \cup {Main}, AddState(name, hooks, thread)
        PROVE  UNCHANGED Deferred!vars
    BY <2>1 DEF AddState, Deferred!vars
  <2>2. ASSUME NEW name \in StateNames, SetState(name) PROVE Deferred!Ask
    BY <2>2 DEF SetState, lua, Deferred!Ask, Script, Calling
  <2>3. ASSUME Update PROVE UNCHANGED Deferred!vars
    BY <2>3 DEF Update, lua, Deferred!vars
  <2>4. ASSUME CallbackReturns PROVE UNCHANGED Deferred!vars
    BY <2>4 DEF CallbackReturns, lua, Calling, Deferred!vars
  <2>5. ASSUME NothingPending PROVE UNCHANGED Deferred!vars
    BY <2>5 DEF NothingPending, lua, Deferred!vars
  <2>6. ASSUME LeaveState PROVE Deferred!Leave
    BY <2>6 DEF LeaveState, lua, Deferred!Leave
  <2>7. ASSUME EnterState PROVE Deferred!Enter
    BY <2>7 DEF EnterState, lua, Deferred!Enter
  <2>8. ASSUME ClearStates PROVE Deferred!Reset
    BY <2>8 DEF ClearStates, Deferred!Reset
  <2>10. ASSUME NEW thread \in Coroutines, CoroutineEnds(thread) PROVE UNCHANGED Deferred!vars
    BY <2>10 DEF CoroutineEnds, Deferred!vars
  <2>9. CASE UNCHANGED vars
    BY <2>9 DEF vars, Deferred!vars
  <2> QED
    BY <2>1, <2>2, <2>3, <2>4, <2>5, <2>6, <2>7, <2>8, <2>9, <2>10 DEF Next, Deferred!Next
<1>3. Init => IInv /\ NoRequestWhileLeaving
  BY InitIInv, InitHolds
<1>4. IInv /\ NoRequestWhileLeaving /\ [Next]_vars => (IInv /\ NoRequestWhileLeaving)'
  BY NextIInv, NextWaits
<1> QED
  BY <1>1, <1>2, <1>3, <1>4, PTL DEF Spec, DefersTransitions, Deferred!Spec

=============================================================================
