--------------------------- MODULE LuaAsync_proofs ---------------------------
(* Proofs of the properties of LuaAsync, for every value of its constants. *)
EXTENDS LuaAsync, TLAPS

(* An active slot holds a thread.                                          *)
UsedSlot == {c \in CoroutineSlot : c.active => c.thread # None}

(* A thread runs exactly where a loop has resumed one, from a slot of the  *)
(* pool; the index of the loop over the tweens is a slot's in a completion.*)
Loops ==
    /\ running # None <=> pc \in {"resumed", "woken"}
    /\ pc = "resumed" => i \in CoSlots
    /\ pc = "woken" => j \in CoSlots
    /\ pc \in {"waiters", "woken", "callback"} => i \in TwSlots

LoopTypes == /\ pc \in Places
           /\ i \in Nat /\ j \in Nat
           /\ completedId \in 0 .. MaxTweenId
           /\ running \in Threads \cup {None}

TypedPools == /\ coroutine \in [CoSlots -> UsedSlot]
              /\ tween \in [TwSlots -> TweenSlot]
              /\ spring \in [SpSlots -> SpringSlot]
              /\ nextTweenId \in 0 .. MaxTweenId

Typed == TypedPools /\ LoopTypes /\ Loops

LEMMA TypedIsType == Typed => TypeOK
  BY DEF Typed, TypedPools, LoopTypes, TypeOK, UsedSlot

(* A free slot has the values clearSlot leaves, which are typed.           *)
LEMMA FreeTypes ==
    FreeCoroutine \in UsedSlot /\ FreeTween \in TweenSlot /\ FreeSpring \in SpringSlot
  BY PoolAssumption
  DEF FreeCoroutine, FreeTween, FreeSpring, UsedSlot, CoroutineSlot, TweenSlot, SpringSlot

(* No wait and no tween are values of their fields.                        *)
LEMMA Zero == 0 \in 0 .. MaxWait /\ 0 \in 0 .. MaxTweenId /\ FALSE \in BOOLEAN
  BY PoolAssumption

(* One less, of a number of frames.                                        *)
LEMMA LessType ==
    ASSUME NEW m \in Nat, NEW n \in 0 .. m
    PROVE  Less(n) \in 0 .. m
  BY DEF Less

(* What the calls and the loops write into a slot.                         *)
LEMMA SlotEdits ==
    ASSUME NEW c \in UsedSlot
    PROVE  /\ \A r \in 0 .. MaxWait : [c EXCEPT !.waitRemaining = r] \in UsedSlot
           /\ \A f, r \in 0 .. MaxWait :
                [c EXCEPT !.waitFrames = f, !.waitRemaining = r] \in UsedSlot
           /\ \A f, r \in 0 .. MaxWait :
                [c EXCEPT !.waitRemaining = r, !.waitFrames = f] \in UsedSlot
           /\ \A id \in 0 .. MaxTweenId : [c EXCEPT !.waitTweenId = id] \in UsedSlot
           /\ \A id \in 0 .. MaxTweenId, o \in BOOLEAN :
                [c EXCEPT !.waitTweenId = id, !.orphaned = o] \in UsedSlot
           /\ [c EXCEPT !.orphaned = TRUE] \in UsedSlot
           /\ \A t \in Threads, r \in 0 .. MaxWait :
                [c EXCEPT !.active = TRUE, !.thread = t, !.waitRemaining = r] \in UsedSlot
  BY ThreadAssumption DEF UsedSlot, CoroutineSlot

(* The fields of a slot.                                                   *)
LEMMA SlotFields ==
    ASSUME NEW c \in UsedSlot
    PROVE  /\ c.waitRemaining \in 0 .. MaxWait
           /\ c.waitFrames \in 0 .. MaxWait
           /\ c.thread \in Threads \cup {None}
           /\ c.active => c.thread # None
  BY DEF UsedSlot, CoroutineSlot

(* The coroutine that yields keeps its slot typed, whichever wait it asks. *)
LEMMA SuspendType ==
    ASSUME Typed, NEW new \in [CoSlots -> UsedSlot], Suspend(new)
    PROVE  Typed'
  <1> DEFINE yielded == [k \in CoSlots |->
            IF coroutine[k].active /\ coroutine[k].thread = running
            THEN new[k] ELSE coroutine[k]]
  <1>1. yielded \in [CoSlots -> UsedSlot]
        BY DEF Typed, TypedPools
  <1>2. coroutine' \in [CoSlots -> UsedSlot]
    <2>1. CASE pc = "resumed" /\ yielded[i].waitFrames = 0
      <3>1. i \in CoSlots
            BY <2>1 DEF Typed, Loops
      <3>2. Less(yielded[i].waitRemaining) \in 0 .. MaxWait
            BY <1>1, <3>1, LessType, SlotFields, PoolAssumption
      <3>3. coroutine' = [yielded EXCEPT ![i] =
                [yielded[i] EXCEPT !.waitRemaining = Less(@)]]
            BY <2>1 DEF Suspend
      <3> HIDE DEF yielded
      <3>4. [yielded[i] EXCEPT !.waitRemaining = Less(@)] \in UsedSlot
            BY <1>1, <3>1, <3>2, SlotEdits
      <3> QED  BY <1>1, <3>1, <3>3, <3>4
    <2>2. CASE ~(pc = "resumed" /\ yielded[i].waitFrames = 0)
          BY <1>1, <2>2 DEF Suspend
    <2> QED  BY <2>1, <2>2
  <1>3. LeaveThread
        BY DEF Suspend
  <1> HIDE DEF yielded
  <1>4. TypedPools'
        BY <1>2, <1>3 DEF Typed, TypedPools, LeaveThread
  <1>5. LoopTypes' /\ Loops'
        BY <1>3 DEF Typed, LoopTypes, Loops, LeaveThread, Places
  <1> QED  BY <1>4, <1>5 DEF Typed

(* A step that leaves the loops alone leaves them where they are.          *)
LEMMA StillLoops ==
    ASSUME Typed, UNCHANGED <<pc, i, j, completedId, running>>
    PROVE  LoopTypes' /\ Loops'
  BY DEF Typed, LoopTypes, Loops

(* The calls a script makes keep the pools typed and the loops in place.   *)
LEMMA CallsTyped ==
    ASSUME Typed, Calls
    PROVE  Typed'
  <1> USE DEF Typed, TypedPools
  <1>1. ASSUME NEW t \in Threads, Start(t) PROVE Typed'
    <2>1. PICK k \in CoSlots : coroutine' = [coroutine EXCEPT ![k] =
                [coroutine[k] EXCEPT !.active = TRUE, !.thread = t, !.waitRemaining = 0]]
          BY <1>1 DEF Start
    <2>2. coroutine' \in [CoSlots -> UsedSlot]
          BY <2>1, SlotEdits, Zero
    <2> QED  BY <1>1, <2>2, StillLoops DEF Start
  <1>2. ASSUME NEW K, ClearCoroutines(K) PROVE Typed'
    <2>1. coroutine' \in [CoSlots -> UsedSlot]
          BY <1>2, FreeTypes DEF ClearCoroutines
    <2> QED  BY <1>2, <2>1, StillLoops DEF ClearCoroutines
  <1>3. ASSUME NEW d \in 0 .. MaxDuration, NEW done \in BOOLEAN, TweenTo(d, done)
        PROVE  Typed'
    <2>1. PICK k \in TwSlots : tween' = [tween EXCEPT ![k] =
                [active |-> TRUE, id |-> nextTweenId + 1, elapsed |-> 0,
                 duration |-> d, done |-> done]]
          BY <1>3 DEF TweenTo
    <2>2. nextTweenId' \in 0 .. MaxTweenId /\ nextTweenId + 1 \in 0 .. MaxTweenId
          BY <1>3, PoolAssumption DEF TweenTo
    <2>3. tween' \in [TwSlots -> TweenSlot]
          BY <2>1, <2>2, PoolAssumption DEF TweenSlot
    <2> QED  BY <1>3, <2>2, <2>3, StillLoops DEF TweenTo
  <1>4. ASSUME NEW K, ClearTweens(K), nextTweenId' \in {nextTweenId, 0},
               spring' = spring \/ spring' = [k \in SpSlots |-> FreeSpring]
        PROVE  Typed'
    <2>1. tween' \in [TwSlots -> TweenSlot]
          BY <1>4, FreeTypes DEF ClearTweens
    <2>2. coroutine' \in [CoSlots -> UsedSlot]
          BY <1>4, SlotEdits DEF ClearTweens
    <2>3. nextTweenId' \in 0 .. MaxTweenId
          BY <1>4, PoolAssumption
    <2>4. spring' \in [SpSlots -> SpringSlot]
          BY <1>4, FreeTypes
    <2> QED  BY <1>4, <2>1, <2>2, <2>3, <2>4, StillLoops DEF ClearTweens
  <1>5. CASE SetActiveScene
    <2>1. /\ tween' \in [TwSlots -> TweenSlot] /\ coroutine' \in [CoSlots -> UsedSlot]
          /\ spring' \in [SpSlots -> SpringSlot]
          BY <1>5, FreeTypes DEF SetActiveScene
    <2> QED  BY <1>5, <2>1, StillLoops, PoolAssumption DEF SetActiveScene
  <1>6. ASSUME NEW field \in Fields, SpringTo(field) PROVE Typed'
    <2>1. PICK k \in SpSlots : spring' = [spring EXCEPT ![k] =
                [active |-> TRUE, id |-> nextTweenId + 1, field |-> field]]
          BY <1>6 DEF SpringTo
    <2>2. nextTweenId' \in 0 .. MaxTweenId /\ nextTweenId + 1 \in 0 .. MaxTweenId
          BY <1>6, PoolAssumption DEF SpringTo
    <2>3. spring' \in [SpSlots -> SpringSlot]
          BY <2>1, <2>2 DEF SpringSlot
    <2> QED  BY <1>6, <2>2, <2>3, StillLoops DEF SpringTo
  <1> QED  BY <1>1, <1>2, <1>3, <1>4, <1>5, <1>6
           DEF Calls, Cancel, CancelAll, TweenCancel, TweenCancelAll

(* So does what ends a stretch of script.                                  *)
LEMMA ReturnsTyped ==
    ASSUME Typed, Returns
    PROVE  Typed'
  <1>1. ASSUME NEW frames \in 0 .. MaxWait, Wait(frames) PROVE Typed'
    <2>1. [k \in CoSlots |-> [coroutine[k] EXCEPT !.waitFrames = 0,
                !.waitRemaining = frames]] \in [CoSlots -> UsedSlot]
          BY SlotEdits, Zero DEF Typed, TypedPools
    <2> QED  BY <1>1, <2>1, SuspendType DEF Wait
  <1>2. ASSUME NEW n \in 1 .. MaxWait, WaitFrames(n) PROVE Typed'
    <2>1. n - 1 \in 0 .. MaxWait /\ 0 \in 0 .. MaxWait
          BY PoolAssumption
    <2>2. [k \in CoSlots |-> [coroutine[k] EXCEPT !.waitRemaining = 0,
                !.waitFrames = n - 1]] \in [CoSlots -> UsedSlot]
          BY <2>1, SlotEdits DEF Typed, TypedPools
    <2> QED  BY <1>2, <2>2, SuspendType DEF WaitFrames
  <1>3. ASSUME NEW k \in TwSlots, Await(k) PROVE Typed'
    <2>1. tween[k].id \in 0 .. MaxTweenId
          BY DEF Typed, TypedPools, TweenSlot
    <2>2. [c \in CoSlots |-> [coroutine[c] EXCEPT !.waitTweenId = tween[k].id]]
                \in [CoSlots -> UsedSlot]
          BY <2>1, SlotEdits DEF Typed, TypedPools
    <2> QED  BY <1>3, <2>2, SuspendType DEF Await
  <1>4. CASE Finish
    <2>1. TypedPools'
          BY <1>4, FreeTypes DEF Finish, LeaveThread, Typed, TypedPools
    <2>2. LoopTypes' /\ Loops'
          BY <1>4 DEF Finish, LeaveThread, Typed, LoopTypes, Loops, Places
    <2> QED  BY <2>1, <2>2 DEF Typed
  <1>5. CASE CallbackReturns
    <2>1. TypedPools'
          BY <1>5, FreeTypes DEF CallbackReturns, Typed, TypedPools
    <2>2. LoopTypes' /\ Loops'
          BY <1>5, PoolAssumption DEF CallbackReturns, Typed, LoopTypes, Loops, Places
    <2> QED  BY <2>1, <2>2 DEF Typed
  <1>6. CASE UpdateReturns
        BY <1>6 DEF UpdateReturns, pools, Typed, TypedPools, LoopTypes, Loops, Places
  <1> QED  BY <1>1, <1>2, <1>3, <1>4, <1>5, <1>6 DEF Returns

(* And the loops themselves.                                               *)
LEMMA EngineTyped ==
    ASSUME Typed, Engine
    PROVE  Typed'
  <1>1. CASE TickCoroutine
    <2>1. i \in CoSlots /\ coroutine[i] \in UsedSlot
          BY <1>1 DEF TickCoroutine, Typed, TypedPools
    <2>2. /\ Less(coroutine[i].waitFrames) \in 0 .. MaxWait
          /\ Less(coroutine[i].waitRemaining) \in 0 .. MaxWait
          BY <2>1, LessType, SlotFields, PoolAssumption
    <2>3. \/ UNCHANGED coroutine
          \/ coroutine' = [coroutine EXCEPT ![i] = [coroutine[i] EXCEPT
                !.waitFrames = Less(@),
                !.waitRemaining = IF coroutine[i].waitFrames > 0 THEN @ ELSE Less(@)]]
          BY <1>1 DEF TickCoroutine
    <2>4. coroutine' \in [CoSlots -> UsedSlot]
      <3> DEFINE r == IF coroutine[i].waitFrames > 0
                      THEN coroutine[i].waitRemaining ELSE Less(coroutine[i].waitRemaining)
      <3>1. r \in 0 .. MaxWait
            BY <2>1, <2>2, SlotFields
      <3>2. [coroutine[i] EXCEPT !.waitFrames = Less(coroutine[i].waitFrames),
                                 !.waitRemaining = r] \in UsedSlot
            BY <2>1, <2>2, <3>1, SlotEdits
      <3> QED  BY <2>3, <3>2 DEF Typed, TypedPools
    <2>5. \/ /\ pc' = "coroutines" /\ running' = running /\ i' = i + 1
          \/ /\ pc' = "resumed" /\ running' = coroutine[i].thread /\ i' = i
             /\ coroutine[i].active
          BY <1>1 DEF TickCoroutine
    <2>6. coroutine[i].active => (running' \in Threads /\ running' # None) \/ running' = running
          BY <2>1, <2>5, SlotFields
    <2>7. pc = "coroutines" /\ UNCHANGED <<tween, spring, nextTweenId, j, completedId>>
          BY <1>1 DEF TickCoroutine
    <2>8. LoopTypes' /\ Loops'
          BY <2>1, <2>5, <2>6, <2>7, SlotFields DEF Typed, LoopTypes, Loops, Places
    <2> QED  BY <2>4, <2>7, <2>8 DEF Typed, TypedPools
  <1>2. CASE EndCoroutines
        BY <1>2, FreeTypes DEF EndCoroutines, TickSprings, Typed, TypedPools, LoopTypes, Loops, Places
  <1>3. CASE TickTween
    <2>1. i \in TwSlots /\ pc = "tweens" /\ UNCHANGED <<coroutine, spring, nextTweenId, running>>
          BY <1>3 DEF TickTween
    <2>2. tween[i] \in TweenSlot
          BY <2>1 DEF Typed, TypedPools
    <2>3. /\ \A e \in 0 .. MaxDuration : [tween[i] EXCEPT !.elapsed = e] \in TweenSlot
          /\ tween[i].elapsed \in 0 .. MaxDuration /\ tween[i].duration \in 0 .. MaxDuration
          /\ tween[i].id \in 0 .. MaxTweenId
          BY <2>2 DEF TweenSlot
    <2>4. \/ /\ tween' = tween /\ i' = i + 1 /\ UNCHANGED <<pc, j, completedId>>
          \/ /\ tween' = [tween EXCEPT ![i] = [tween[i] EXCEPT !.elapsed = tween[i].elapsed + 1]]
             /\ tween[i].elapsed + 1 < tween[i].duration
             /\ i' = i + 1 /\ UNCHANGED <<pc, j, completedId>>
          \/ /\ tween' = [tween EXCEPT ![i] = [tween[i] EXCEPT !.elapsed = tween[i].duration]]
             /\ completedId' = tween[i].id /\ pc' = "waiters" /\ j' = 1 /\ i' = i
          BY <1>3 DEF TickTween
    <2>5. tween' \in [TwSlots -> TweenSlot]
      <3>1. tween[i].elapsed + 1 < tween[i].duration => tween[i].elapsed + 1 \in 0 .. MaxDuration
            BY <2>3, PoolAssumption
      <3> QED  BY <2>1, <2>3, <2>4, <3>1 DEF Typed, TypedPools
    <2>6. LoopTypes' /\ Loops'
          BY <2>1, <2>3, <2>4 DEF Typed, LoopTypes, Loops, Places
    <2> QED  BY <2>1, <2>5, <2>6 DEF Typed, TypedPools
  <1>4. CASE EndTweens
        BY <1>4 DEF EndTweens, pools, Typed, TypedPools, LoopTypes, Loops, Places
  <1>5. CASE WakeWaiter
    <2>1. /\ j \in CoSlots /\ pc = "waiters"
          /\ UNCHANGED <<tween, spring, nextTweenId, i, completedId>>
          BY <1>5 DEF WakeWaiter
    <2>2. coroutine[j] \in UsedSlot
          BY <2>1 DEF Typed, TypedPools
    <2>3. \/ /\ coroutine' = [coroutine EXCEPT ![j] =
                    [coroutine[j] EXCEPT !.waitTweenId = 0, !.orphaned = FALSE]]
             /\ coroutine[j].active
             /\ running' = coroutine[j].thread /\ pc' = "woken" /\ j' = j
          \/ j' = j + 1 /\ UNCHANGED <<coroutine, pc, running>>
          BY <1>5 DEF WakeWaiter, Awaits
    <2>4. coroutine' \in [CoSlots -> UsedSlot]
      <3>1. [coroutine[j] EXCEPT !.waitTweenId = 0, !.orphaned = FALSE] \in UsedSlot
            BY <2>2, SlotEdits, Zero
      <3> QED  BY <2>3, <3>1 DEF Typed, TypedPools
    <2>5. LoopTypes' /\ Loops'
          BY <2>1, <2>2, <2>3, SlotFields DEF Typed, LoopTypes, Loops, Places
    <2> QED  BY <2>1, <2>4, <2>5 DEF Typed, TypedPools
  <1>6. CASE FireDone
    <2>1. /\ pc = "waiters" /\ j' = 1 /\ UNCHANGED <<coroutine, spring, nextTweenId, running>>
          /\ \/ pc' = "callback" /\ UNCHANGED <<tween, i, completedId>>
             \/ /\ tween' = [tween EXCEPT ![i] = FreeTween]
                /\ completedId' = 0 /\ pc' = "tweens" /\ i' = i + 1
          BY <1>6 DEF FireDone
    <2>2. TypedPools'
          BY <2>1, FreeTypes DEF Typed, TypedPools
    <2>3. LoopTypes' /\ Loops'
          BY <2>1, PoolAssumption DEF Typed, LoopTypes, Loops, Places
    <2> QED  BY <2>2, <2>3 DEF Typed
  <1> QED  BY <1>1, <1>2, <1>3, <1>4, <1>5, <1>6 DEF Engine

LEMMA TypedHolds == Spec => []Typed
  <1>1. Init => Typed
        BY FreeTypes, Zero DEF Init, Typed, TypedPools, LoopTypes, Loops, Places
  <1>2. Typed /\ [Next]_vars => Typed'
    <2> SUFFICES ASSUME Typed, [Next]_vars PROVE Typed'
          OBVIOUS
    <2>1. CASE UNCHANGED vars
          BY <2>1 DEF vars, pools, Typed, TypedPools, LoopTypes, Loops
    <2> QED  BY <2>1, CallsTyped, ReturnsTyped, EngineTyped DEF Next
  <1> QED  BY <1>1, <1>2, PTL DEF Spec

(* Whatever scripts do, every field of the three pools and of the loops      *)
(* stays in its range: waits, elapsed times and ids are never out of it.   *)
THEOREM TypeCorrect == Spec => []TypeOK
  BY TypedHolds, TypedIsType, PTL

(* No slot is taken, freed or given to another thread.                     *)
SameThreads ==
    \A k \in CoSlots : /\ coroutine'[k].active = coroutine[k].active
                       /\ coroutine'[k].thread = coroutine[k].thread

(* A suspension moves no thread.                                           *)
LEMMA SuspendMovesNone ==
    ASSUME Typed, NEW new \in [CoSlots -> UsedSlot], Suspend(new),
           \A k \in CoSlots : new[k].active = coroutine[k].active
                              /\ new[k].thread = coroutine[k].thread
    PROVE  SameThreads
  <1> DEFINE yielded == [k \in CoSlots |->
            IF coroutine[k].active /\ coroutine[k].thread = running
            THEN new[k] ELSE coroutine[k]]
  <1>1. /\ yielded \in [CoSlots -> UsedSlot]
        /\ \A k \in CoSlots : yielded[k].active = coroutine[k].active
                              /\ yielded[k].thread = coroutine[k].thread
        BY DEF Typed, TypedPools
  <1>2. \/ coroutine' = yielded
        \/ coroutine' = [yielded EXCEPT ![i] = [yielded[i] EXCEPT !.waitRemaining = Less(@)]]
        BY DEF Suspend
  <1> HIDE DEF yielded
  <1> SUFFICES ASSUME NEW k \in CoSlots
               PROVE  /\ coroutine'[k].active = yielded[k].active
                      /\ coroutine'[k].thread = yielded[k].thread
        BY <1>1 DEF SameThreads
  <1>3. yielded[k] \in UsedSlot
        BY <1>1
  <1>4. \/ coroutine'[k] = yielded[k]
        \/ coroutine'[k] = [yielded[k] EXCEPT !.waitRemaining = Less(@)]
        BY <1>1, <1>2
  <1> QED  BY <1>3, <1>4 DEF UsedSlot, CoroutineSlot

LEMMA ReturnsMoveThreads ==
    ASSUME Typed, Returns
    PROVE  SameThreads \/ Finish
  <1>1. ASSUME NEW frames \in 0 .. MaxWait, Wait(frames) PROVE SameThreads
    <2> DEFINE new == [k \in CoSlots |-> [coroutine[k] EXCEPT !.waitFrames = 0,
              !.waitRemaining = frames]]
    <2>1. new \in [CoSlots -> UsedSlot]
          BY SlotEdits, Zero DEF Typed, TypedPools
    <2>2. \A k \in CoSlots : new[k].active = coroutine[k].active
                             /\ new[k].thread = coroutine[k].thread
          BY DEF Typed, TypedPools, UsedSlot, CoroutineSlot
    <2> QED  BY <1>1, <2>1, <2>2, SuspendMovesNone DEF Wait
  <1>2. ASSUME NEW n \in 1 .. MaxWait, WaitFrames(n) PROVE SameThreads
    <2> DEFINE new == [k \in CoSlots |-> [coroutine[k] EXCEPT !.waitRemaining = 0,
              !.waitFrames = n - 1]]
    <2>1. n - 1 \in 0 .. MaxWait
          BY PoolAssumption
    <2>2. new \in [CoSlots -> UsedSlot]
          BY <2>1, SlotEdits, Zero DEF Typed, TypedPools
    <2>3. \A k \in CoSlots : new[k].active = coroutine[k].active
                             /\ new[k].thread = coroutine[k].thread
          BY DEF Typed, TypedPools, UsedSlot, CoroutineSlot
    <2> QED  BY <1>2, <2>2, <2>3, SuspendMovesNone DEF WaitFrames
  <1>3. ASSUME NEW k \in TwSlots, Await(k) PROVE SameThreads
    <2> DEFINE new == [c \in CoSlots |-> [coroutine[c] EXCEPT !.waitTweenId = tween[k].id]]
    <2>1. tween[k].id \in 0 .. MaxTweenId
          BY DEF Typed, TypedPools, TweenSlot
    <2>2. new \in [CoSlots -> UsedSlot]
          BY <2>1, SlotEdits DEF Typed, TypedPools
    <2>3. \A c \in CoSlots : new[c].active = coroutine[c].active
                             /\ new[c].thread = coroutine[c].thread
          BY DEF Typed, TypedPools, UsedSlot, CoroutineSlot
    <2> QED  BY <1>3, <2>2, <2>3, SuspendMovesNone DEF Await
  <1>4. CASE UNCHANGED coroutine
        BY <1>4 DEF SameThreads
  <1> QED  BY <1>1, <1>2, <1>3, <1>4 DEF Returns, CallbackReturns, UpdateReturns, pools

LEMMA EngineMovesNone ==
    ASSUME Typed, Engine
    PROVE  SameThreads
  <1>1. \/ UNCHANGED coroutine
        \/ coroutine' = [coroutine EXCEPT ![i] = [coroutine[i] EXCEPT
                !.waitFrames = Less(@),
                !.waitRemaining = IF coroutine[i].waitFrames > 0 THEN @ ELSE Less(@)]]
        \/ coroutine' = [coroutine EXCEPT ![j] =
                [coroutine[j] EXCEPT !.waitTweenId = 0, !.orphaned = FALSE]]
        BY DEF Engine, TickCoroutine, EndCoroutines, TickTween, EndTweens, WakeWaiter,
               FireDone, pools
  <1> SUFFICES ASSUME NEW k \in CoSlots
               PROVE  /\ coroutine'[k].active = coroutine[k].active
                      /\ coroutine'[k].thread = coroutine[k].thread
        BY DEF SameThreads
  <1>2. coroutine[k] \in UsedSlot
        BY DEF Typed, TypedPools
  <1>3. \/ coroutine'[k] = coroutine[k]
        \/ coroutine'[k] = [coroutine[k] EXCEPT
                !.waitFrames = Less(@),
                !.waitRemaining = IF coroutine[k].waitFrames > 0 THEN @ ELSE Less(@)]
        \/ coroutine'[k] = [coroutine[k] EXCEPT !.waitTweenId = 0, !.orphaned = FALSE]
        BY <1>1 DEF Typed, TypedPools
  <1> QED  BY <1>2, <1>3 DEF UsedSlot, CoroutineSlot

(* Start is the only call that gives a slot a thread, cancel and the clear-*)
(* ing of a scene change are the ones that free one.                       *)
LEMMA CallsMoveThreads ==
    ASSUME Typed, Calls
    PROVE  \/ SameThreads
           \/ \E t \in Threads : Start(t)
           \/ \E K : ClearCoroutines(K)
           \/ SetActiveScene
  <1>1. ASSUME NEW K, ClearTweens(K) PROVE SameThreads
    <2> SUFFICES ASSUME NEW c \in CoSlots
                 PROVE  /\ coroutine'[c].active = coroutine[c].active
                        /\ coroutine'[c].thread = coroutine[c].thread
          BY DEF SameThreads
    <2>1. coroutine[c] \in UsedSlot
          BY DEF Typed, TypedPools
    <2>2. coroutine'[c] \in {coroutine[c], [coroutine[c] EXCEPT !.orphaned = TRUE]}
          BY <1>1 DEF ClearTweens
    <2> QED  BY <2>1, <2>2 DEF UsedSlot, CoroutineSlot
  <1>2. CASE UNCHANGED coroutine
        BY <1>2 DEF SameThreads
  <1> QED  BY <1>1, <1>2 DEF Calls, Cancel, CancelAll, TweenTo, TweenCancel, TweenCancelAll,
               SpringTo

(* The slot a call to start takes, and that the others stay as they are.   *)
LEMMA StartTakesOne ==
    ASSUME Typed, NEW t \in Threads, Start(t)
    PROVE  /\ t # running /\ UNCHANGED <<pc, i, j, running>>
           /\ \A l \in CoSlots : coroutine[l].active => coroutine[l].thread # t
           /\ \E k \in CoSlots :
                /\ ~coroutine[k].active
                /\ coroutine'[k].thread = t
                /\ coroutine'[k].waitTweenId = coroutine[k].waitTweenId
                /\ coroutine'[k].orphaned = coroutine[k].orphaned
                /\ \A l \in CoSlots \ {k} : coroutine'[l] = coroutine[l]
  <1>1. PICK k \in CoSlots :
            /\ ~coroutine[k].active
            /\ coroutine' = [coroutine EXCEPT ![k] =
                    [coroutine[k] EXCEPT !.active = TRUE, !.thread = t, !.waitRemaining = 0]]
        BY DEF Start, LowestFree, Typed, TypedPools
  <1>2. /\ coroutine'[k].thread = t
        /\ coroutine'[k].waitTweenId = coroutine[k].waitTweenId
        /\ coroutine'[k].orphaned = coroutine[k].orphaned
        BY <1>1 DEF Typed, TypedPools, UsedSlot, CoroutineSlot
  <1>3. \A l \in CoSlots \ {k} : coroutine'[l] = coroutine[l]
        BY <1>1 DEF Typed, TypedPools
  <1> QED  BY <1>1, <1>2, <1>3 DEF Start, InPool

LEMMA ThreadsStayApart ==
    ASSUME Typed, OneThreadPerSlot, [Next]_vars
    PROVE  OneThreadPerSlot'
  <1> USE DEF OneThreadPerSlot
  <1>1. CASE SameThreads
        BY <1>1 DEF SameThreads
  <1>2. ASSUME NEW t \in Threads, Start(t) PROVE OneThreadPerSlot'
        BY <1>2, StartTakesOne
  <1>3. ASSUME NEW K, ClearCoroutines(K) PROVE OneThreadPerSlot'
        BY <1>3 DEF ClearCoroutines, FreeCoroutine
  <1>4. CASE SetActiveScene
        BY <1>4 DEF SetActiveScene, FreeCoroutine
  <1>5. CASE Finish
        BY <1>5 DEF Finish, FreeCoroutine, Typed, TypedPools
  <1>6. CASE UNCHANGED vars
        BY <1>6 DEF vars, pools
  <1> QED  BY <1>1, <1>2, <1>3, <1>4, <1>5, <1>6,
              CallsMoveThreads, ReturnsMoveThreads, EngineMovesNone DEF Next

(* Ids are handed out in order, and the counter is only reset with both    *)
(* pools empty.                                                            *)
IdsGiven ==
    /\ OneTweenPerId
    /\ OneSpringPerField
    /\ \A k \in TwSlots : tween[k].active => tween[k].id \in 1 .. nextTweenId
    /\ \A k \in SpSlots : spring[k].active => spring[k].id \in 1 .. nextTweenId

(* A pool after a step that hands out no id: what it held, minus some.     *)
TweensOnlyLeave ==
    \A k \in TwSlots : tween'[k].active => tween[k].active /\ tween'[k].id = tween[k].id

SpringsOnlyLeave ==
    \A k \in SpSlots : spring'[k].active =>
        /\ spring[k].active
        /\ spring'[k].id = spring[k].id /\ spring'[k].field = spring[k].field

LEMMA LeavingKeepsIds ==
    ASSUME IdsGiven, TweensOnlyLeave, SpringsOnlyLeave, UNCHANGED nextTweenId
    PROVE  IdsGiven'
  BY DEF IdsGiven, OneTweenPerId, OneSpringPerField, TweensOnlyLeave, SpringsOnlyLeave

LEMMA EmptyPoolsHaveNoIds ==
    ASSUME tween' = [k \in TwSlots |-> FreeTween], spring' = [k \in SpSlots |-> FreeSpring]
    PROVE  IdsGiven'
  BY DEF IdsGiven, OneTweenPerId, OneSpringPerField, FreeTween, FreeSpring

(* A call to tween.to or to tween.spring gives its slot the next id.       *)
LEMMA TweenToKeepsIds ==
    ASSUME Typed, IdsGiven, NEW d, NEW done, TweenTo(d, done)
    PROVE  IdsGiven'
  <1> USE DEF IdsGiven, OneTweenPerId, OneSpringPerField
  <1>1. PICK k \in TwSlots :
            tween' = [tween EXCEPT ![k] =
                [active |-> TRUE, id |-> nextTweenId + 1, elapsed |-> 0,
                 duration |-> d, done |-> done]]
        BY DEF TweenTo
  <1>2. nextTweenId' = nextTweenId + 1 /\ nextTweenId \in Nat /\ UNCHANGED spring
        BY PoolAssumption DEF TweenTo, Typed, TypedPools
  <1>3. tween'[k].id = nextTweenId + 1
        BY <1>1 DEF Typed, TypedPools
  <1>4. \A l \in TwSlots \ {k} : tween'[l] = tween[l]
        BY <1>1 DEF Typed, TypedPools
  <1>5. /\ \A l \in TwSlots : tween[l].active => tween[l].id \in 1 .. nextTweenId
        /\ \A l \in SpSlots : spring[l].active => spring[l].id \in 1 .. nextTweenId
        OBVIOUS
  <1> QED  BY <1>2, <1>3, <1>4, <1>5

LEMMA SpringToKeepsIds ==
    ASSUME Typed, IdsGiven, NEW field, SpringTo(field)
    PROVE  IdsGiven'
  <1> USE DEF IdsGiven, OneTweenPerId, OneSpringPerField
  <1>1. PICK k \in SpSlots :
            spring' = [spring EXCEPT ![k] =
                [active |-> TRUE, id |-> nextTweenId + 1, field |-> field]]
        BY DEF SpringTo
  <1>2. nextTweenId' = nextTweenId + 1 /\ nextTweenId \in Nat /\ UNCHANGED tween
        BY PoolAssumption DEF SpringTo, Typed, TypedPools
  <1>3. spring'[k].id = nextTweenId + 1 /\ spring'[k].field = field
        BY <1>1 DEF Typed, TypedPools
  <1>4. \A l \in SpSlots \ {k} : spring'[l] = spring[l]
        BY <1>1 DEF Typed, TypedPools
  <1>5. /\ \A l \in TwSlots : tween[l].active => tween[l].id \in 1 .. nextTweenId
        /\ \A l \in SpSlots : spring[l].active => spring[l].id \in 1 .. nextTweenId
        OBVIOUS
  <1>6. \A l \in SpSlots : spring[l].field # field
        BY DEF SpringTo
  <1>7. OneTweenPerId'
        BY <1>2, <1>3, <1>4, <1>5
  <1>8. OneSpringPerField'
    <2>1. \A l \in SpSlots : l # k /\ spring'[l].active =>
                spring'[l].id # spring'[k].id /\ spring'[l].field # spring'[k].field
      <3>1. \A l \in SpSlots : spring[l].active => spring[l].id # nextTweenId + 1
            BY <1>2, <1>5
      <3> QED  BY <1>3, <1>4, <1>6, <3>1
    <2>2. \A l, m \in SpSlots : l # k /\ m # k => spring'[l] = spring[l] /\ spring'[m] = spring[m]
          BY <1>4
    <2>3. ASSUME NEW l \in SpSlots, NEW m \in SpSlots,
                 spring'[l].active, spring'[m].active, l # m
          PROVE  spring'[l].id # spring'[m].id /\ spring'[l].field # spring'[m].field
      <3>1. CASE l = k
            BY <2>1, <2>3, <3>1
      <3>2. CASE m = k
            BY <2>1, <2>3, <3>2
      <3>3. CASE l # k /\ m # k
            BY <2>2, <2>3, <3>3
      <3> QED  BY <3>1, <3>2, <3>3
    <2> QED  BY <2>3
  <1> QED  BY <1>2, <1>3, <1>4, <1>5, <1>7, <1>8

LEMMA IdsStayGiven ==
    ASSUME Typed, IdsGiven, [Next]_vars
    PROVE  IdsGiven'
  <1> USE DEF TweensOnlyLeave, SpringsOnlyLeave
  <1>1. CASE UNCHANGED <<tween, spring, nextTweenId>>
        BY <1>1, LeavingKeepsIds
  <1>2. ASSUME NEW K, ClearTweens(K), UNCHANGED <<spring, nextTweenId>>
        PROVE  IdsGiven'
        BY <1>2, LeavingKeepsIds DEF ClearTweens, FreeTween
  <1>3. CASE TweenCancelAll \/ SetActiveScene
    <2>1. tween' = [k \in TwSlots |-> FreeTween]
          BY <1>3 DEF TweenCancelAll, ClearTweens, SetActiveScene
    <2> QED  BY <1>3, <2>1, EmptyPoolsHaveNoIds DEF TweenCancelAll, SetActiveScene
  <1>4. CASE CallbackReturns \/ FireDone
        BY <1>4, LeavingKeepsIds
        DEF CallbackReturns, FireDone, FreeTween, Typed, TypedPools
  <1>5. CASE TickTween
    <2>1. i \in TwSlots /\ UNCHANGED <<spring, nextTweenId>>
          BY <1>5 DEF TickTween
    <2>2. \/ UNCHANGED tween
          \/ tween' = [tween EXCEPT ![i] = [tween[i] EXCEPT !.elapsed = tween[i].elapsed + 1]]
          \/ tween' = [tween EXCEPT ![i] = [tween[i] EXCEPT !.elapsed = tween[i].duration]]
          BY <1>5 DEF TickTween
    <2>3. tween[i] \in TweenSlot
          BY <2>1 DEF Typed, TypedPools
    <2>4. tween'[i].active = tween[i].active /\ tween'[i].id = tween[i].id
          BY <2>1, <2>2, <2>3 DEF TweenSlot, Typed, TypedPools
    <2>5. \A k \in TwSlots \ {i} : tween'[k] = tween[k]
          BY <2>2 DEF Typed, TypedPools
    <2> QED  BY <2>1, <2>4, <2>5, LeavingKeepsIds
  <1>6. CASE EndCoroutines
        BY <1>6, LeavingKeepsIds DEF EndCoroutines, TickSprings, FreeSpring
  <1>7. ASSUME NEW new, Suspend(new) PROVE IdsGiven'
        BY <1>1, <1>7 DEF Suspend, LeaveThread
  <1>8. ASSUME NEW K, ClearCoroutines(K) PROVE IdsGiven'
        BY <1>1, <1>8 DEF ClearCoroutines
  <1> QED
    <2>1. CASE Calls
          BY <1>1, <1>2, <1>3, <1>8, <2>1, TweenToKeepsIds, SpringToKeepsIds
          DEF Calls, Start, Cancel, CancelAll, TweenCancel
    <2>2. CASE Returns
          BY <1>1, <1>4, <1>7, <2>2
          DEF Returns, Wait, WaitFrames, Await, Finish, LeaveThread, UpdateReturns, pools
    <2>3. CASE Engine
          BY <1>1, <1>4, <1>5, <1>6, <2>3
          DEF Engine, TickCoroutine, EndTweens, WakeWaiter, pools
    <2>4. CASE UNCHANGED vars
          BY <1>1, <2>4 DEF vars, pools
    <2> QED  BY <2>1, <2>2, <2>3, <2>4 DEF Next

(* Whatever scripts do, no thread has two slots, no field has two springs, *)
(* and no two of the running tweens and springs share an id: cancel and    *)
(* await never act on the wrong one.                                       *)
THEOREM OneSlotHolds == Spec => []OneSlotEach
  <1>1. Init => OneThreadPerSlot /\ IdsGiven
        BY DEF Init, FreeCoroutine, FreeTween, FreeSpring, OneThreadPerSlot, IdsGiven,
               OneTweenPerId, OneSpringPerField
  <1>2. Typed /\ OneThreadPerSlot /\ IdsGiven /\ [Next]_vars => (OneThreadPerSlot /\ IdsGiven)'
        BY ThreadsStayApart, IdsStayGiven
  <1>3. IdsGiven /\ OneThreadPerSlot => OneSlotEach
        BY DEF IdsGiven, OneSlotEach
  <1> QED  BY <1>1, <1>2, <1>3, TypedHolds, PTL DEF Spec

-----------------------------------------------------------------------------
(* Scripts that never cancel the coroutine they run in.                    *)
NoSelfCancel == "cancel_running" \notin Idioms

LEMMA RunningKeepsItsSlot ==
    ASSUME NoSelfCancel, Typed, Typed', OneThreadPerSlot, RunningHasItsSlot, [Next]_vars
    PROVE  RunningHasItsSlot'
  <1> USE DEF RunningHasItsSlot, ResumedSlot
  <1>1. CASE UNCHANGED vars
        BY <1>1 DEF vars, pools
  <1>2. ASSUME NEW t \in Threads, Start(t) PROVE RunningHasItsSlot'
    <2>1. PICK k \in CoSlots : /\ ~coroutine[k].active
                               /\ \A l \in CoSlots \ {k} : coroutine'[l] = coroutine[l]
          BY <1>2, StartTakesOne
    <2>2. ResumedSlot' = ResumedSlot /\ running' = running
          BY <1>2, StartTakesOne
    <2>3. running # None => ResumedSlot \in CoSlots
          BY DEF Typed, Loops
    <2> QED  BY <2>1, <2>2, <2>3
  <1>3. ASSUME NEW K, ClearCoroutines(K) PROVE RunningHasItsSlot'
    <2>1. running # None => ResumedSlot \in CoSlots \ K
          BY <1>3 DEF ClearCoroutines, NoSelfCancel, Typed, Loops
    <2> QED  BY <1>3, <2>1 DEF ClearCoroutines
  <1>4. CASE SetActiveScene \/ CallbackReturns \/ UpdateReturns
    <2>1. running = None /\ running' = running
          BY <1>4 DEF SetActiveScene, CallbackReturns, UpdateReturns, Typed, Loops
    <2> QED  BY <2>1
  <1>5. ASSUME running' = None PROVE RunningHasItsSlot'
        BY <1>5
  <1>6. CASE Engine
    <2>1. running = None
          BY <1>6 DEF Typed, Loops, Engine, TickCoroutine, EndCoroutines, TickTween,
                EndTweens, WakeWaiter, FireDone
    <2>2. CASE TickCoroutine /\ running' # None
      <3>1. /\ i \in CoSlots /\ i' = i /\ pc' = "resumed"
            /\ coroutine[i].active /\ running' = coroutine[i].thread
            BY <2>1, <2>2 DEF TickCoroutine
      <3> QED  BY <1>6, <3>1, EngineMovesNone DEF SameThreads
    <2>3. CASE WakeWaiter /\ running' # None
      <3>1. /\ j \in CoSlots /\ j' = j /\ pc' = "woken"
            /\ coroutine[j].active /\ running' = coroutine[j].thread
            BY <2>1, <2>3 DEF WakeWaiter, Awaits
      <3> QED  BY <1>6, <3>1, EngineMovesNone DEF SameThreads
    <2> QED  BY <1>5, <1>6, <2>1, <2>2, <2>3
             DEF Engine, EndCoroutines, TickTween, EndTweens, FireDone
  <1>7. ASSUME NEW K, ClearTweens(K) PROVE RunningHasItsSlot'
    <2>1. SameThreads
      <3> SUFFICES ASSUME NEW c \in CoSlots
                   PROVE  /\ coroutine'[c].active = coroutine[c].active
                          /\ coroutine'[c].thread = coroutine[c].thread
            BY DEF SameThreads
      <3>1. coroutine[c] \in UsedSlot
            BY DEF Typed, TypedPools
      <3>2. coroutine'[c] \in {coroutine[c], [coroutine[c] EXCEPT !.orphaned = TRUE]}
            BY <1>7 DEF ClearTweens
      <3> QED  BY <3>1, <3>2 DEF UsedSlot, CoroutineSlot
    <2>2. running # None => ResumedSlot \in CoSlots
          BY DEF Typed, Loops
    <2> QED  BY <1>7, <2>1, <2>2 DEF ClearTweens, SameThreads
  <1>8. ASSUME NEW d, NEW done, TweenTo(d, done) PROVE RunningHasItsSlot'
        BY <1>8 DEF TweenTo
  <1>9. ASSUME NEW field, SpringTo(field) PROVE RunningHasItsSlot'
        BY <1>9 DEF SpringTo
  <1> QED
    <2>1. CASE Calls
          BY <1>2, <1>3, <1>4, <1>7, <1>8, <1>9, <2>1
          DEF Calls, Cancel, CancelAll, TweenCancel, TweenCancelAll
    <2>2. CASE Returns
          BY <1>4, <1>5, <2>2 DEF Returns, Wait, WaitFrames, Await, Suspend, Finish, LeaveThread
    <2> QED  BY <1>1, <1>6, <2>1, <2>2 DEF Next

(* While scripts do not cancel the coroutine they run in, a loop that has  *)
(* resumed a coroutine finds it in the slot it resumed it from.            *)
THEOREM RunningSlotHolds == NoSelfCancel => (Spec => []RunningHasItsSlot)
  <1> SUFFICES ASSUME NoSelfCancel PROVE Spec => []RunningHasItsSlot
        OBVIOUS
  <1>1. Init => RunningHasItsSlot
        BY DEF Init, RunningHasItsSlot
  <1>2. Typed /\ Typed' /\ OneThreadPerSlot /\ RunningHasItsSlot /\ [Next]_vars
            => RunningHasItsSlot'
        BY RunningKeepsItsSlot
  <1>3. OneSlotEach => OneThreadPerSlot
        BY DEF OneSlotEach
  <1> QED  BY <1>1, <1>2, <1>3, TypedHolds, OneSlotHolds, PTL DEF Spec

(* Under the same discipline a coroutine leaves the pool when it ends, or  *)
(* when it is cancelled: one that ends never takes another with it.        *)
THEOREM CoroutinesEndAlone == NoSelfCancel => (Spec => EndsAlone)
  <1> SUFFICES ASSUME NoSelfCancel PROVE Spec => EndsAlone
        OBVIOUS
  <1>1. ASSUME Typed, RunningHasItsSlot, [Next]_vars, NEW t \in Threads,
               InPool(t), ~InPool(t)'
        PROVE  running = t \/ pc' = pc
    <2>1. ~SameThreads
          BY <1>1 DEF SameThreads, InPool
    <2>2. CASE UNCHANGED vars
          BY <2>2 DEF vars
    <2>3. CASE Calls
          BY <1>1, <2>1, <2>3, CallsMoveThreads DEF Start, ClearCoroutines, SetActiveScene
    <2>4. CASE Finish
      <3>1. ResumedSlot \in CoSlots /\ running # None
            BY <1>1, <2>4 DEF Finish, Typed, Loops, ResumedSlot
      <3>2. \A k \in CoSlots \ {ResumedSlot} : coroutine'[k] = coroutine[k]
            BY <1>1, <2>4 DEF Finish, Typed, TypedPools
      <3> QED  BY <1>1, <3>1, <3>2 DEF InPool, RunningHasItsSlot
    <2> QED  BY <1>1, <2>1, <2>2, <2>3, <2>4, ReturnsMoveThreads, EngineMovesNone DEF Next
  <1>2. Typed /\ RunningHasItsSlot /\ [Next]_vars =>
            [\A t \in Threads : InPool(t) /\ ~InPool(t)' => running = t \/ pc' = pc]_vars
        BY <1>1
  <1>3. Spec => []RunningHasItsSlot
        BY RunningSlotHolds
  <1> QED  BY <1>2, <1>3, TypedHolds, PTL DEF Spec, EndsAlone

-----------------------------------------------------------------------------
(* What coroutines await.                                                  *)

(* clearSlot leaves no wait and no mark behind.                            *)
FreeSlotsAwaitNothing ==
    \A k \in CoSlots : ~coroutine[k].active =>
        coroutine[k].waitTweenId = 0 /\ ~coroutine[k].orphaned

(* No coroutine comes to await a tween, or to be marked.                   *)
WaitsOnlyEnd ==
    \A k \in CoSlots :
        coroutine'[k].waitTweenId # 0 \/ coroutine'[k].orphaned =>
            /\ coroutine[k].active /\ coroutine'[k].active
            /\ coroutine'[k].thread = coroutine[k].thread
            /\ coroutine'[k].waitTweenId = coroutine[k].waitTweenId
            /\ coroutine'[k].orphaned = coroutine[k].orphaned

(* A slot keeps who it belongs to and what that one awaits.                *)
SameWait(c, d) ==
    /\ c.active = d.active /\ c.thread = d.thread
    /\ c.waitTweenId = d.waitTweenId /\ c.orphaned = d.orphaned

(* A suspension rewrites the slot of the running coroutine only.           *)
LEMMA SuspendWaits ==
    ASSUME Typed, NEW new \in [CoSlots -> UsedSlot], Suspend(new), NEW k \in CoSlots
    PROVE  IF coroutine[k].active /\ coroutine[k].thread = running
           THEN SameWait(coroutine'[k], new[k]) ELSE SameWait(coroutine'[k], coroutine[k])
  <1> DEFINE yielded == [l \in CoSlots |->
            IF coroutine[l].active /\ coroutine[l].thread = running
            THEN new[l] ELSE coroutine[l]]
  <1>1. /\ yielded \in [CoSlots -> UsedSlot]
        /\ yielded[k] = IF coroutine[k].active /\ coroutine[k].thread = running
                        THEN new[k] ELSE coroutine[k]
        BY DEF Typed, TypedPools
  <1>2. \/ coroutine' = yielded
        \/ coroutine' = [yielded EXCEPT ![i] = [yielded[i] EXCEPT !.waitRemaining = Less(@)]]
        BY DEF Suspend
  <1> HIDE DEF yielded
  <1>3. yielded[k] \in UsedSlot
        BY <1>1
  <1>4. \/ coroutine'[k] = yielded[k]
        \/ coroutine'[k] = [yielded[k] EXCEPT !.waitRemaining = Less(yielded[k].waitRemaining)]
        BY <1>1, <1>2
  <1>5. SameWait(coroutine'[k], yielded[k])
    <2>2. SameWait([yielded[k] EXCEPT !.waitRemaining = Less(yielded[k].waitRemaining)],
                   yielded[k])
          BY <1>3 DEF SameWait, UsedSlot, CoroutineSlot
    <2>3. SameWait(yielded[k], yielded[k])
          BY DEF SameWait
    <2> QED  BY <1>4, <2>2, <2>3
  <1> QED  BY <1>1, <1>5

LEMMA TimedWaits ==
    ASSUME Typed, \/ \E frames \in 0 .. MaxWait : Wait(frames)
                  \/ \E n \in 1 .. MaxWait : WaitFrames(n)
                  \/ TickCoroutine,
           NEW k \in CoSlots
    PROVE  SameWait(coroutine'[k], coroutine[k])
  <1>0. coroutine[k] \in UsedSlot
        BY DEF Typed, TypedPools
  <1>1. ASSUME NEW frames \in 0 .. MaxWait, Wait(frames)
        PROVE  SameWait(coroutine'[k], coroutine[k])
    <2> DEFINE new == [l \in CoSlots |-> [coroutine[l] EXCEPT !.waitFrames = 0,
              !.waitRemaining = frames]]
    <2>1. new \in [CoSlots -> UsedSlot]
          BY SlotEdits, Zero DEF Typed, TypedPools
    <2>2. SameWait([coroutine[k] EXCEPT !.waitFrames = 0, !.waitRemaining = frames],
                   coroutine[k])
          BY <1>0 DEF SameWait, UsedSlot, CoroutineSlot
    <2>3. Suspend(new)
          BY <1>1 DEF Wait
    <2>4. SameWait(new[k], coroutine[k])
          BY <2>2
    <2> HIDE DEF new
    <2>5. \/ SameWait(coroutine'[k], new[k])
          \/ SameWait(coroutine'[k], coroutine[k])
          BY <2>1, <2>3, SuspendWaits
    <2> QED  BY <2>4, <2>5 DEF SameWait
  <1>2. ASSUME NEW n \in 1 .. MaxWait, WaitFrames(n)
        PROVE  SameWait(coroutine'[k], coroutine[k])
    <2> DEFINE new == [l \in CoSlots |-> [coroutine[l] EXCEPT !.waitRemaining = 0,
              !.waitFrames = n - 1]]
    <2>0. n - 1 \in 0 .. MaxWait
          BY PoolAssumption
    <2>1. new \in [CoSlots -> UsedSlot]
          BY <2>0, SlotEdits, Zero DEF Typed, TypedPools
    <2>2. SameWait([coroutine[k] EXCEPT !.waitRemaining = 0, !.waitFrames = n - 1],
                   coroutine[k])
          BY <1>0 DEF SameWait, UsedSlot, CoroutineSlot
    <2>3. Suspend(new)
          BY <1>2 DEF WaitFrames
    <2>4. SameWait(new[k], coroutine[k])
          BY <2>2
    <2> HIDE DEF new
    <2>5. \/ SameWait(coroutine'[k], new[k])
          \/ SameWait(coroutine'[k], coroutine[k])
          BY <2>1, <2>3, SuspendWaits
    <2> QED  BY <2>4, <2>5 DEF SameWait
  <1>3. CASE TickCoroutine
    <2>1. \/ UNCHANGED coroutine
          \/ coroutine' = [coroutine EXCEPT ![i] = [coroutine[i] EXCEPT
                !.waitFrames = Less(@),
                !.waitRemaining = IF coroutine[i].waitFrames > 0 THEN @ ELSE Less(@)]]
          BY <1>3 DEF TickCoroutine
    <2> DEFINE r == IF coroutine[k].waitFrames > 0
                    THEN coroutine[k].waitRemaining ELSE Less(coroutine[k].waitRemaining)
               f == Less(coroutine[k].waitFrames)
    <2>2. \/ coroutine'[k] = coroutine[k]
          \/ coroutine'[k] = [coroutine[k] EXCEPT !.waitFrames = f, !.waitRemaining = r]
          BY <2>1 DEF Typed, TypedPools
    <2> HIDE DEF r, f
    <2>4. SameWait([coroutine[k] EXCEPT !.waitFrames = f, !.waitRemaining = r], coroutine[k])
          BY <1>0 DEF SameWait, UsedSlot, CoroutineSlot
    <2>5. SameWait(coroutine[k], coroutine[k])
          BY DEF SameWait
    <2> QED  BY <2>2, <2>4, <2>5
  <1> QED  BY <1>1, <1>2, <1>3

(* What await writes, and what cancel marks.                               *)
LEMMA AwaitWaits ==
    ASSUME Typed, NEW m \in TwSlots, Await(m), NEW k \in CoSlots
    PROVE  /\ coroutine'[k].active = coroutine[k].active
           /\ coroutine'[k].thread = coroutine[k].thread
           /\ coroutine'[k].orphaned = coroutine[k].orphaned
           /\ coroutine'[k].waitTweenId =
                IF coroutine[k].active /\ coroutine[k].thread = running
                THEN tween[m].id ELSE coroutine[k].waitTweenId
  <1> DEFINE new == [l \in CoSlots |-> [coroutine[l] EXCEPT !.waitTweenId = tween[m].id]]
  <1>0. coroutine[k] \in UsedSlot
        BY DEF Typed, TypedPools
  <1>1. tween[m].id \in 0 .. MaxTweenId
        BY DEF Typed, TypedPools, TweenSlot
  <1>2. new \in [CoSlots -> UsedSlot]
        BY <1>1, SlotEdits DEF Typed, TypedPools
  <1>3. Suspend(new) /\ new[k] = [coroutine[k] EXCEPT !.waitTweenId = tween[m].id]
        BY DEF Await
  <1> HIDE DEF new
  <1>4. /\ new[k].active = coroutine[k].active /\ new[k].thread = coroutine[k].thread
        /\ new[k].orphaned = coroutine[k].orphaned /\ new[k].waitTweenId = tween[m].id
        BY <1>0, <1>3 DEF UsedSlot, CoroutineSlot
  <1> QED  BY <1>2, <1>3, <1>4, SuspendWaits DEF SameWait

LEMMA CancelMarks ==
    ASSUME Typed, NEW K, ClearTweens(K), NEW k \in CoSlots
    PROVE  /\ coroutine'[k].active = coroutine[k].active
           /\ coroutine'[k].thread = coroutine[k].thread
           /\ coroutine'[k].waitTweenId = coroutine[k].waitTweenId
           /\ coroutine'[k].orphaned <=>
                coroutine[k].orphaned \/ \E l \in K : Awaits(k, tween[l].id)
  <1>1. coroutine[k] \in UsedSlot
        BY DEF Typed, TypedPools
  <1>2. coroutine'[k] = IF \E l \in K : Awaits(k, tween[l].id)
                        THEN [coroutine[k] EXCEPT !.orphaned = TRUE] ELSE coroutine[k]
        BY DEF ClearTweens
  <1>3. CASE \E l \in K : Awaits(k, tween[l].id)
        BY <1>1, <1>2, <1>3 DEF UsedSlot, CoroutineSlot
  <1>4. CASE ~\E l \in K : Awaits(k, tween[l].id)
    <2>1. coroutine'[k] = coroutine[k] /\ coroutine[k].orphaned \in BOOLEAN
          BY <1>1, <1>2, <1>4 DEF UsedSlot, CoroutineSlot
    <2> QED  BY <1>4, <2>1
  <1> QED  BY <1>3, <1>4

(* await and cancel are the only calls that touch a wait.                  *)
LEMMA CallsTouchWaits ==
    ASSUME Typed, FreeSlotsAwaitNothing, [Next]_vars
    PROVE  \/ WaitsOnlyEnd
           \/ \E m \in TwSlots : Await(m)
           \/ \E m \in TwSlots : TweenCancel(m)
           \/ TweenCancelAll
  <1>1. CASE \A k \in CoSlots : SameWait(coroutine'[k], coroutine[k])
        BY <1>1 DEF SameWait, WaitsOnlyEnd, FreeSlotsAwaitNothing
  <1>2. CASE UNCHANGED coroutine
        BY <1>2 DEF WaitsOnlyEnd, FreeSlotsAwaitNothing
  <1>3. ASSUME NEW t \in Threads, Start(t) PROVE WaitsOnlyEnd
    <2>1. PICK k \in CoSlots :
              /\ ~coroutine[k].active
              /\ coroutine'[k].waitTweenId = coroutine[k].waitTweenId
              /\ coroutine'[k].orphaned = coroutine[k].orphaned
              /\ \A l \in CoSlots \ {k} : coroutine'[l] = coroutine[l]
          BY <1>3, StartTakesOne
    <2>2. coroutine'[k].waitTweenId = 0 /\ ~coroutine'[k].orphaned
          BY <2>1 DEF FreeSlotsAwaitNothing
    <2> QED  BY <2>1, <2>2 DEF WaitsOnlyEnd, FreeSlotsAwaitNothing
  <1>4. ASSUME NEW K, ClearCoroutines(K) PROVE WaitsOnlyEnd
        BY <1>4 DEF WaitsOnlyEnd, FreeSlotsAwaitNothing, ClearCoroutines, FreeCoroutine
  <1>5. CASE SetActiveScene
        BY <1>5 DEF WaitsOnlyEnd, SetActiveScene, FreeCoroutine
  <1>6. CASE Finish
        BY <1>6 DEF WaitsOnlyEnd, FreeSlotsAwaitNothing, Finish, FreeCoroutine, Typed, TypedPools
  <1>7. CASE WakeWaiter
    <2>1. \/ UNCHANGED coroutine
          \/ coroutine' = [coroutine EXCEPT ![j] =
                [coroutine[j] EXCEPT !.waitTweenId = 0, !.orphaned = FALSE]]
          BY <1>7 DEF WakeWaiter
    <2>2. j \in CoSlots /\ coroutine[j] \in UsedSlot
          BY <1>7 DEF WakeWaiter, Typed, TypedPools
    <2>3. CASE ~UNCHANGED coroutine
      <3>1. /\ coroutine'[j] = [coroutine[j] EXCEPT !.waitTweenId = 0, !.orphaned = FALSE]
            /\ \A k \in CoSlots \ {j} : coroutine'[k] = coroutine[k]
            BY <2>1, <2>2, <2>3 DEF Typed, TypedPools
      <3>2. coroutine'[j].waitTweenId = 0 /\ ~coroutine'[j].orphaned
            BY <2>2, <3>1 DEF UsedSlot, CoroutineSlot
      <3> QED  BY <3>1, <3>2 DEF WaitsOnlyEnd, FreeSlotsAwaitNothing
    <2> QED  BY <1>2, <2>3
  <1> QED
    <2>1. CASE Calls
          BY <1>2, <1>3, <1>4, <1>5, <2>1
          DEF Calls, Cancel, CancelAll, TweenTo, SpringTo
    <2>2. CASE Returns
          BY <1>1, <1>2, <1>6, <2>2, TimedWaits
          DEF Returns, CallbackReturns, UpdateReturns, pools
    <2>3. CASE Engine
          BY <1>1, <1>2, <1>7, <2>3, TimedWaits
          DEF Engine, EndCoroutines, TickTween, EndTweens, FireDone, pools
    <2>4. CASE UNCHANGED vars
          BY <1>2, <2>4 DEF vars, pools
    <2> QED  BY <2>1, <2>2, <2>3, <2>4 DEF Next

LEMMA WaitsMove ==
    ASSUME Typed, FreeSlotsAwaitNothing, [Next]_vars
    PROVE  \/ WaitsOnlyEnd
           \/ \E m \in TwSlots : Await(m)
           \/ \E K : ClearTweens(K)
  BY CallsTouchWaits DEF TweenCancel, TweenCancelAll

LEMMA FreeSlotsStaySo ==
    ASSUME Typed, FreeSlotsAwaitNothing, [Next]_vars
    PROVE  FreeSlotsAwaitNothing'
  <1> SUFFICES ASSUME NEW k \in CoSlots, ~coroutine'[k].active
               PROVE  coroutine'[k].waitTweenId = 0 /\ ~coroutine'[k].orphaned
        BY DEF FreeSlotsAwaitNothing
  <1>1. CASE WaitsOnlyEnd
        BY <1>1 DEF WaitsOnlyEnd
  <1>2. ASSUME NEW m \in TwSlots, Await(m)
        PROVE  coroutine'[k].waitTweenId = 0 /\ ~coroutine'[k].orphaned
        BY <1>2, AwaitWaits DEF FreeSlotsAwaitNothing
  <1>3. ASSUME NEW K, ClearTweens(K)
        PROVE  coroutine'[k].waitTweenId = 0 /\ ~coroutine'[k].orphaned
        BY <1>3, CancelMarks DEF FreeSlotsAwaitNothing, Awaits
  <1> QED  BY <1>1, <1>2, <1>3, WaitsMove

-----------------------------------------------------------------------------
(* The loops, and the tween whose completion is being handled.             *)

Idle == {"update", "coroutines", "resumed", "tweens"}

(* How the loops move.                                                     *)
LEMMA LoopMoves ==
    ASSUME Typed, [Next]_vars
    PROVE  \/ UNCHANGED <<pc, i, j, completedId, running>>
           \/ /\ pc = "woken" /\ pc' = "waiters" /\ j' = j + 1 /\ running' = None
              /\ UNCHANGED <<tween, i, completedId>>
           \/ pc \in Idle /\ pc' \in Idle /\ UNCHANGED completedId
           \/ /\ pc = "tweens" /\ i \in TwSlots /\ tween[i].active
              /\ pc' = "waiters" /\ i' = i /\ j' = 1 /\ completedId' = tween[i].id
           \/ WakeWaiter
           \/ FireDone
           \/ CallbackReturns
  <1> DEFINE still == UNCHANGED <<pc, i, j, completedId, running>>
  <1>1. CASE Calls
    <2>1. still
          BY <1>1 DEF Calls, Start, Cancel, CancelAll, ClearCoroutines, TweenTo, TweenCancel,
               TweenCancelAll, ClearTweens, SpringTo, SetActiveScene
    <2> QED  BY <2>1
  <1>2. ASSUME LeaveThread
        PROVE  \/ /\ pc = "woken" /\ pc' = "waiters" /\ j' = j + 1 /\ running' = None
                  /\ UNCHANGED <<tween, i, completedId>>
               \/ pc \in Idle /\ pc' \in Idle /\ UNCHANGED completedId
        BY <1>2 DEF LeaveThread, Idle
  <1>3. CASE Returns
    <2>1. LeaveThread \/ CallbackReturns \/ UpdateReturns
          BY <1>3 DEF Returns, Wait, WaitFrames, Await, Suspend, Finish
    <2> QED  BY <1>2, <2>1 DEF UpdateReturns, Idle
  <1>4. CASE TickTween
    <2>1. \/ pc = "tweens" /\ UNCHANGED <<pc, completedId>>
          \/ /\ pc = "tweens" /\ i \in TwSlots /\ tween[i].active
             /\ pc' = "waiters" /\ i' = i /\ j' = 1 /\ completedId' = tween[i].id
          BY <1>4 DEF TickTween
    <2> QED  BY <2>1 DEF Idle
  <1>5. CASE TickCoroutine \/ EndCoroutines \/ EndTweens
        BY <1>5 DEF TickCoroutine, EndCoroutines, EndTweens, Idle
  <1>6. CASE UNCHANGED vars
        BY <1>6 DEF vars
  <1> QED  BY <1>1, <1>3, <1>4, <1>5, <1>6 DEF Next, Engine

(* A tween keeps its slot and its id while it is advanced.                 *)
SameTweens ==
    \A l \in TwSlots : tween'[l].active = tween[l].active /\ tween'[l].id = tween[l].id

LEMMA TickKeepsTweens ==
    ASSUME Typed, TickTween
    PROVE  SameTweens
  <1>1. i \in TwSlots
        BY DEF TickTween
  <1>2. \/ UNCHANGED tween
        \/ tween' = [tween EXCEPT ![i] = [tween[i] EXCEPT !.elapsed = tween[i].elapsed + 1]]
        \/ tween' = [tween EXCEPT ![i] = [tween[i] EXCEPT !.elapsed = tween[i].duration]]
        BY DEF TickTween
  <1>3. tween[i] \in TweenSlot
        BY <1>1 DEF Typed, TypedPools
  <1>4. tween'[i].active = tween[i].active /\ tween'[i].id = tween[i].id
        BY <1>1, <1>2, <1>3 DEF TweenSlot, Typed, TypedPools
  <1>5. \A k \in TwSlots \ {i} : tween'[k] = tween[k]
        BY <1>2 DEF Typed, TypedPools
  <1> QED  BY <1>4, <1>5 DEF SameTweens

(* What starts a tween, and what ends one.                                 *)
LEMMA TweensMove ==
    ASSUME Typed, [Next]_vars
    PROVE  \/ SameTweens
           \/ \E d \in 0 .. MaxDuration, done \in BOOLEAN : TweenTo(d, done)
           \/ \E K : ClearTweens(K)
           \/ SetActiveScene
           \/ CallbackReturns
           \/ FireDone
  <1>1. CASE UNCHANGED tween
        BY <1>1 DEF SameTweens
  <1>2. CASE Calls
        BY <1>1, <1>2 DEF Calls, Start, Cancel, CancelAll, ClearCoroutines, TweenCancel,
               TweenCancelAll, SpringTo
  <1>3. CASE Returns
    <2>1. UNCHANGED tween \/ CallbackReturns
          BY <1>3 DEF Returns, Wait, WaitFrames, Await, Suspend, Finish, LeaveThread,
               UpdateReturns, pools
    <2> QED  BY <1>1, <2>1
  <1>4. CASE Engine
    <2>1. UNCHANGED tween \/ TickTween \/ FireDone
          BY <1>4 DEF Engine, TickCoroutine, EndCoroutines, EndTweens, WakeWaiter, pools
    <2> QED  BY <1>1, <2>1, TickKeepsTweens
  <1>5. CASE UNCHANGED vars
        BY <1>1, <1>5 DEF vars, pools
  <1> QED  BY <1>2, <1>3, <1>4, <1>5 DEF Next

(* The slot a call to tween.to takes.                                      *)
LEMMA TweenToTakesOne ==
    ASSUME Typed, NEW d, NEW done, TweenTo(d, done)
    PROVE  /\ nextTweenId' = nextTweenId + 1
           /\ UNCHANGED <<coroutine, pc, i, j, completedId, running>>
           /\ \E k \in TwSlots :
                /\ ~tween[k].active
                /\ tween'[k].id = nextTweenId + 1
                /\ \A l \in TwSlots \ {k} : tween'[l] = tween[l]
  <1>1. PICK k \in TwSlots :
            /\ ~tween[k].active
            /\ tween' = [tween EXCEPT ![k] =
                [active |-> TRUE, id |-> nextTweenId + 1, elapsed |-> 0,
                 duration |-> d, done |-> done]]
        BY DEF TweenTo, LowestFree
  <1>2. tween'[k].id = nextTweenId + 1 /\ \A l \in TwSlots \ {k} : tween'[l] = tween[l]
        BY <1>1 DEF Typed, TypedPools
  <1>3. nextTweenId' = nextTweenId + 1 /\ UNCHANGED <<coroutine, pc, i, j, completedId, running>>
        BY DEF TweenTo
  <1> QED  BY <1>1, <1>2, <1>3

-----------------------------------------------------------------------------
(* Scripts that never cancel the tween whose completion woke them.         *)
NoCompletingCancel == "cancel_completing" \notin Idioms

(* While the waiters and the callback of a tween run, it is in its slot.   *)
CompletionSound ==
    /\ completedId # 0 <=> pc \in {"waiters", "woken", "callback"}
    /\ completedId # 0 => tween[i].active /\ tween[i].id = completedId

LEMMA CompletionStaysSound ==
    ASSUME NoCompletingCancel, Typed, IdsGiven, CompletionSound, [Next]_vars
    PROVE  CompletionSound'
  <1>0. completedId # 0 => i \in TwSlots
        BY DEF CompletionSound, Typed, Loops
  <1>1. CASE SameTweens
    <2>1. CASE UNCHANGED <<pc, i, j, completedId, running>>
          BY <1>0, <1>1, <2>1 DEF CompletionSound, SameTweens
    <2>2. CASE /\ pc = "woken" /\ pc' = "waiters"
               /\ UNCHANGED <<tween, i, completedId>>
          BY <2>2 DEF CompletionSound
    <2>3. CASE pc \in Idle /\ pc' \in Idle /\ UNCHANGED completedId
          BY <2>3 DEF CompletionSound, Idle
    <2>4. CASE /\ pc = "tweens" /\ i \in TwSlots /\ tween[i].active
               /\ pc' = "waiters" /\ i' = i /\ completedId' = tween[i].id
      <3>1. tween[i].id # 0
            BY <2>4 DEF IdsGiven
      <3> QED  BY <1>1, <2>4, <3>1 DEF CompletionSound, SameTweens
    <2>5. CASE WakeWaiter
      <3>1. pc = "waiters" /\ pc' \in {"waiters", "woken"} /\ UNCHANGED <<tween, i, completedId>>
            BY <2>5 DEF WakeWaiter
      <3> QED  BY <3>1 DEF CompletionSound
    <2>6. CASE FireDone
          BY <1>0, <1>1, <2>6 DEF FireDone, CompletionSound
    <2>7. CASE CallbackReturns
          BY <2>7 DEF CallbackReturns, CompletionSound
    <2> QED  BY <2>1, <2>2, <2>3, <2>4, <2>5, <2>6, <2>7, LoopMoves
  <1>2. ASSUME NEW d, NEW done, TweenTo(d, done)
        PROVE  CompletionSound'
    <2>1. PICK k \in TwSlots :
              ~tween[k].active /\ \A l \in TwSlots \ {k} : tween'[l] = tween[l]
          BY <1>2, TweenToTakesOne
    <2>2. UNCHANGED <<pc, i, completedId>>
          BY <1>2, TweenToTakesOne
    <2> QED  BY <1>0, <2>1, <2>2 DEF CompletionSound
  <1>3. ASSUME NEW K, ClearTweens(K) PROVE CompletionSound'
    <2>1. completedId # 0 => i \notin K
          BY <1>3 DEF ClearTweens, NoCompletingCancel
    <2>2. completedId # 0 => tween'[i] = tween[i]
          BY <1>0, <1>3, <2>1 DEF ClearTweens
    <2>3. UNCHANGED <<pc, i, completedId>>
          BY <1>3 DEF ClearTweens
    <2> QED  BY <2>2, <2>3 DEF CompletionSound
  <1>4. CASE SetActiveScene
        BY <1>4 DEF SetActiveScene, CompletionSound
  <1>5. CASE CallbackReturns
        BY <1>5 DEF CallbackReturns, CompletionSound
  <1>6. CASE FireDone
        BY <1>0, <1>6 DEF FireDone, CompletionSound
  <1> QED  BY <1>1, <1>2, <1>3, <1>4, <1>5, <1>6, TweensMove

LEMMA IdsHold == Spec => []IdsGiven
  <1>1. Init => IdsGiven
        BY DEF Init, FreeTween, FreeSpring, IdsGiven, OneTweenPerId, OneSpringPerField
  <1>2. Typed /\ IdsGiven /\ [Next]_vars => IdsGiven'
        BY IdsStayGiven
  <1> QED  BY <1>1, <1>2, TypedHolds, PTL DEF Spec

LEMMA FreeSlotsHold == Spec => []FreeSlotsAwaitNothing
  <1>1. Init => FreeSlotsAwaitNothing
        BY DEF Init, FreeSlotsAwaitNothing, FreeCoroutine
  <1>2. Typed /\ FreeSlotsAwaitNothing /\ [Next]_vars => FreeSlotsAwaitNothing'
        BY FreeSlotsStaySo
  <1> QED  BY <1>1, <1>2, TypedHolds, PTL DEF Spec

LEMMA CompletionHolds == NoCompletingCancel => (Spec => []CompletionSound)
  <1> SUFFICES ASSUME NoCompletingCancel PROVE Spec => []CompletionSound
        OBVIOUS
  <1>1. Init => CompletionSound
        BY DEF Init, CompletionSound
  <1>2. Typed /\ IdsGiven /\ CompletionSound /\ [Next]_vars => CompletionSound'
        BY CompletionStaysSound
  <1> QED  BY <1>1, <1>2, TypedHolds, IdsHold, PTL DEF Spec

(* The loop over the waiters has cleared the wait of the coroutine it runs.*)
WakesInTurn ==
    /\ pc \in {"waiters", "woken"} => j > 0
    /\ pc = "woken" => ~Awaits(j, completedId)

LEMMA WakesStayInTurn ==
    ASSUME Typed, FreeSlotsAwaitNothing, CompletionSound, WakesInTurn, [Next]_vars
    PROVE  WakesInTurn'
  <1>0. j \in Nat /\ (pc = "woken" => j \in CoSlots)
        BY DEF Typed, LoopTypes, Loops
  <1>1. CASE UNCHANGED <<pc, i, j, completedId, running>>
    <2>1. CASE WaitsOnlyEnd
          BY <1>0, <1>1, <2>1 DEF WakesInTurn, WaitsOnlyEnd, Awaits
    <2>2. ASSUME NEW m \in TwSlots, Await(m) PROVE WakesInTurn'
          BY <1>1, <2>2 DEF Await, Suspend, LeaveThread
    <2>3. ASSUME NEW K, ClearTweens(K) PROVE WakesInTurn'
          BY <1>0, <1>1, <2>3, CancelMarks DEF WakesInTurn, Awaits
    <2> QED  BY <2>1, <2>2, <2>3, WaitsMove
  <1>2. CASE pc = "woken" /\ pc' = "waiters" /\ j' = j + 1
        BY <1>0, <1>2 DEF WakesInTurn
  <1>3. CASE pc' \in Idle
        BY <1>3 DEF WakesInTurn, Idle
  <1>4. CASE pc' = "waiters" /\ j' = 1
        BY <1>4 DEF WakesInTurn
  <1>5. CASE WakeWaiter
    <2>1. pc = "waiters" /\ j \in CoSlots /\ UNCHANGED completedId
          BY <1>5 DEF WakeWaiter
    <2>2. CASE pc' = "woken"
      <3>1. j' = j /\ coroutine' = [coroutine EXCEPT ![j] =
                [coroutine[j] EXCEPT !.waitTweenId = 0, !.orphaned = FALSE]]
            BY <1>5, <2>1, <2>2 DEF WakeWaiter
      <3>2. coroutine[j] \in UsedSlot
            BY <2>1 DEF Typed, TypedPools
      <3>3. coroutine'[j].waitTweenId = 0
            BY <2>1, <3>1, <3>2 DEF Typed, TypedPools, UsedSlot, CoroutineSlot
      <3> QED  BY <1>0, <2>1, <2>2, <3>1, <3>3 DEF WakesInTurn, Awaits
    <2>3. CASE pc' # "woken"
          BY <1>0, <1>5, <2>1, <2>3 DEF WakeWaiter, WakesInTurn
    <2> QED  BY <2>2, <2>3
  <1>6. CASE FireDone \/ CallbackReturns
        BY <1>6 DEF FireDone, CallbackReturns, WakesInTurn
  <1> QED  BY <1>1, <1>2, <1>3, <1>4, <1>5, <1>6, LoopMoves

(* Scripts in which a coroutine that a tween woke does not await it again. *)
NoAwaitCompleting == "await_completing" \notin Idioms

(* The wait of a coroutine is sound: its tween runs, or is being completed *)
(* by a loop that has yet to reach the coroutine.                          *)
RunsOn(k, l) ==
    /\ tween[l].active /\ tween[l].id = coroutine[k].waitTweenId
    /\ tween[l].id = completedId => pc \in {"waiters", "woken"} /\ k >= j

(* A tween that stays in its slot is awaited on, whatever the loops do.    *)
LEMMA LoopsReachAll ==
    ASSUME Typed, IdsGiven, CompletionSound, WakesInTurn, [Next]_vars,
           NEW k \in CoSlots, coroutine[k].active, coroutine[k].waitTweenId # 0,
           NEW l \in TwSlots, RunsOn(k, l),
           tween'[l].active, tween'[l].id = tween[l].id,
           coroutine'[k].waitTweenId = coroutine[k].waitTweenId
    PROVE  RunsOn(k, l)'
  <1>0. k \in Nat /\ j \in Nat /\ k >= 1 /\ k <= CoroutinePool
        BY PoolAssumption DEF CoSlots, Typed, LoopTypes
  <1>1. tween[l].id # 0
        BY DEF RunsOn
  <1> DEFINE reached == tween[l].id = completedId' => pc' \in {"waiters", "woken"} /\ k >= j'
  <1>2. CASE UNCHANGED <<pc, i, j, completedId, running>>
    <2>1. reached
          BY <1>2 DEF RunsOn
    <2> QED  BY <2>1 DEF RunsOn
  <1>3. CASE pc = "woken" /\ pc' = "waiters" /\ j' = j + 1 /\ UNCHANGED completedId
    <2>1. tween[l].id = completedId => k >= j /\ k # j
          BY <1>1, <1>3 DEF RunsOn, WakesInTurn, Awaits
    <2>2. reached
          BY <1>0, <1>3, <2>1
    <2> QED  BY <2>2 DEF RunsOn
  <1>4. CASE pc \in Idle /\ pc' \in Idle /\ UNCHANGED completedId
    <2>1. completedId = 0
          BY <1>4 DEF CompletionSound, Idle
    <2>2. reached
          BY <1>1, <1>4, <2>1
    <2> QED  BY <2>2 DEF RunsOn
  <1>5. CASE pc' = "waiters" /\ j' = 1
    <2>1. reached
          BY <1>0, <1>5
    <2> QED  BY <2>1 DEF RunsOn
  <1>6. CASE WakeWaiter
    <2>1. \/ pc' = "woken" /\ j' = j
          \/ pc' = "waiters" /\ j' = j + 1 /\ ~Awaits(j, completedId)
          BY <1>6 DEF WakeWaiter
    <2>2. UNCHANGED completedId
          BY <1>6 DEF WakeWaiter
    <2>3. tween[l].id = completedId /\ ~Awaits(j, completedId) => k # j
          BY <1>1 DEF RunsOn, Awaits
    <2>4. tween[l].id = completedId => k >= j
          BY DEF RunsOn
    <2>5. reached
          BY <1>0, <2>1, <2>2, <2>3, <2>4
    <2> QED  BY <2>5 DEF RunsOn
  <1>7. CASE FireDone
    <2>1. pc = "waiters" /\ j \notin CoSlots /\ completedId' \in {0, completedId}
          BY <1>7 DEF FireDone
    <2>2. ~(k >= j)
          BY <1>0, <2>1, PoolAssumption DEF WakesInTurn, CoSlots
    <2>3. reached
          BY <1>1, <2>1, <2>2 DEF RunsOn
    <2> QED  BY <2>3 DEF RunsOn
  <1>8. CASE CallbackReturns
    <2>1. completedId' = 0
          BY <1>8 DEF CallbackReturns
    <2>2. reached
          BY <1>1, <2>1
    <2> QED  BY <2>2 DEF RunsOn
  <1> QED  BY <1>2, <1>3, <1>4, <1>5, <1>6, <1>7, <1>8, LoopMoves

(* So is a wait that goes on: only a cancel takes its tween away.          *)
LEMMA AwaitedStays ==
    ASSUME Typed, IdsGiven, CompletionSound, WakesInTurn, [Next]_vars,
           NEW k \in CoSlots, coroutine[k].active, coroutine[k].waitTweenId # 0,
           coroutine'[k].active,
           coroutine'[k].waitTweenId = coroutine[k].waitTweenId,
           NEW l \in TwSlots, RunsOn(k, l)
    PROVE  \/ RunsOn(k, l)'
           \/ \E K : ClearTweens(K) /\ l \in K
  <1>0. /\ tween[l].active
        /\ tween[l].id = completedId => pc \in {"waiters", "woken"} /\ k >= j
        BY DEF RunsOn
  <1>1. \/ tween'[l].active /\ tween'[l].id = tween[l].id
        \/ \E K : ClearTweens(K) /\ l \in K
    <2>1. CASE SameTweens
          BY <1>0, <2>1 DEF SameTweens
    <2>2. ASSUME NEW d, NEW done, TweenTo(d, done)
          PROVE  tween'[l].active /\ tween'[l].id = tween[l].id
      <3>1. PICK m \in TwSlots :
                ~tween[m].active /\ \A n \in TwSlots \ {m} : tween'[n] = tween[n]
            BY <2>2, TweenToTakesOne
      <3> QED  BY <1>0, <3>1
    <2>3. ASSUME NEW K, ClearTweens(K), l \notin K
          PROVE  tween'[l].active /\ tween'[l].id = tween[l].id
          BY <1>0, <2>3 DEF ClearTweens
    <2>4. ~SetActiveScene
          BY DEF SetActiveScene, FreeCoroutine
    <2>5. CASE CallbackReturns
      <3>1. pc = "callback" /\ l # i
            BY <1>0, <2>5 DEF CallbackReturns, CompletionSound
      <3> QED  BY <1>0, <2>5, <3>1 DEF CallbackReturns, Typed, TypedPools
    <2>6. CASE FireDone
      <3>1. pc = "waiters" /\ ~(k >= j)
            BY <2>6, PoolAssumption DEF FireDone, WakesInTurn, CoSlots, Typed, LoopTypes
      <3>2. l # i
            BY <1>0, <3>1 DEF CompletionSound
      <3> QED  BY <1>0, <2>6, <3>2 DEF FireDone, Typed, TypedPools
    <2> QED  BY <2>1, <2>2, <2>3, <2>4, <2>5, <2>6, TweensMove
  <1> QED  BY <1>1, LoopsReachAll

LEMMA AwaitedStayActive ==
    ASSUME NoAwaitCompleting, Typed, IdsGiven, FreeSlotsAwaitNothing, CompletionSound,
           WakesInTurn, AwaitedIsActive, [Next]_vars
    PROVE  AwaitedIsActive'
  <1> SUFFICES ASSUME NEW k \in CoSlots, coroutine'[k].active,
                      coroutine'[k].waitTweenId # 0, ~coroutine'[k].orphaned
               PROVE  \E l \in TwSlots : RunsOn(k, l)'
        BY DEF AwaitedIsActive, RunsOn
  <1>1. ASSUME coroutine[k].active, ~coroutine[k].orphaned,
               coroutine'[k].waitTweenId = coroutine[k].waitTweenId
        PROVE  \/ \E l \in TwSlots : RunsOn(k, l)'
               \/ \E l \in TwSlots : RunsOn(k, l) /\ \E K : ClearTweens(K) /\ l \in K
    <2>1. PICK l \in TwSlots : RunsOn(k, l)
          BY <1>1 DEF AwaitedIsActive, RunsOn
    <2>2. RunsOn(k, l)' \/ \E K : ClearTweens(K) /\ l \in K
          BY <1>1, <2>1, AwaitedStays
    <2> QED  BY <2>1, <2>2
  <1>2. ASSUME NEW K, ClearTweens(K), NEW l \in TwSlots, l \in K, RunsOn(k, l)
        PROVE  FALSE
    <2>1. ~\E m \in K : Awaits(k, tween[m].id)
          BY <1>2, CancelMarks
    <2>2. Awaits(k, tween[l].id)
      <3>1. coroutine[k].active /\ coroutine[k].waitTweenId # 0
            BY <1>2, CancelMarks
      <3> QED  BY <1>2, <3>1 DEF RunsOn, Awaits
    <2> QED  BY <1>2, <2>1, <2>2
  <1>3. CASE WaitsOnlyEnd
        BY <1>1, <1>2, <1>3 DEF WaitsOnlyEnd
  <1>4. ASSUME NEW m \in TwSlots, Await(m)
        PROVE  \E l \in TwSlots : RunsOn(k, l)'
    <2>1. /\ tween[m].active /\ tween[m].id # completedId
          /\ UNCHANGED <<tween, completedId>>
          BY <1>4 DEF Await, Suspend, LeaveThread, NoAwaitCompleting
    <2>2. CASE coroutine[k].active /\ coroutine[k].thread = running
      <3>1. coroutine'[k].waitTweenId = tween[m].id
            BY <1>4, <2>2, AwaitWaits
      <3>2. RunsOn(k, m)'
            BY <2>1, <3>1 DEF RunsOn
      <3> QED  BY <3>2
    <2>3. CASE ~(coroutine[k].active /\ coroutine[k].thread = running)
      <3>1. /\ coroutine[k].active /\ ~coroutine[k].orphaned
            /\ coroutine'[k].waitTweenId = coroutine[k].waitTweenId
            BY <1>4, <2>3, AwaitWaits
      <3> QED  BY <1>1, <1>2, <3>1
    <2> QED  BY <2>2, <2>3
  <1>5. ASSUME NEW K, ClearTweens(K)
        PROVE  \E l \in TwSlots : RunsOn(k, l)'
    <2>1. /\ coroutine[k].active /\ ~coroutine[k].orphaned
          /\ coroutine'[k].waitTweenId = coroutine[k].waitTweenId
          BY <1>5, CancelMarks
    <2> QED  BY <1>1, <1>2, <2>1
  <1> QED  BY <1>3, <1>4, <1>5, WaitsMove

(* While scripts neither cancel the tween whose completion woke them nor   *)
(* await it again, a coroutine only ever awaits a tween that is still      *)
(* running, or whose completion has yet to reach it.                       *)
THEOREM AwaitedTweensAreActive ==
    NoCompletingCancel /\ NoAwaitCompleting => (Spec => []AwaitedIsActive)
  <1> SUFFICES ASSUME NoCompletingCancel, NoAwaitCompleting PROVE Spec => []AwaitedIsActive
        OBVIOUS
  <1>1. Init => WakesInTurn /\ AwaitedIsActive
        BY DEF Init, FreeCoroutine, WakesInTurn, AwaitedIsActive
  <1>2. Typed /\ IdsGiven /\ FreeSlotsAwaitNothing /\ CompletionSound /\ WakesInTurn
            /\ AwaitedIsActive /\ [Next]_vars => (WakesInTurn /\ AwaitedIsActive)'
        BY WakesStayInTurn, AwaitedStayActive
  <1> QED  BY <1>1, <1>2, TypedHolds, IdsHold, FreeSlotsHold, CompletionHolds, PTL DEF Spec

-----------------------------------------------------------------------------
(* Scripts that call cancelAll only while no coroutine awaits a tween.     *)
NoAwaitedCancelAll == "cancel_all_awaited" \notin Idioms

(* The coroutine that runs awaits no tween.                                *)
RunningAwaitsNothing ==
    \A k \in CoSlots :
        coroutine[k].active /\ coroutine[k].thread = running => coroutine[k].waitTweenId = 0

(* A coroutine whose tween was cancelled awaits an id no tween has again.  *)
OrphansAwaitNone ==
    \A k \in CoSlots : coroutine[k].active /\ coroutine[k].orphaned =>
        /\ coroutine[k].waitTweenId \in 1 .. nextTweenId
        /\ \A l \in TwSlots : tween[l].active => tween[l].id # coroutine[k].waitTweenId

LEMMA RunningStaysFree ==
    ASSUME Typed, Typed', OneThreadPerSlot, OneThreadPerSlot', FreeSlotsAwaitNothing,
           RunningAwaitsNothing, [Next]_vars
    PROVE  RunningAwaitsNothing'
  <1> SUFFICES ASSUME NEW k \in CoSlots, coroutine'[k].active, coroutine'[k].thread = running'
               PROVE  coroutine'[k].waitTweenId = 0
        BY DEF RunningAwaitsNothing
  <1>0. running' # None
    <2>1. coroutine'[k] \in UsedSlot
          BY DEF Typed, TypedPools
    <2> QED  BY <2>1, SlotFields
  <1>1. CASE UNCHANGED running
    <2>1. CASE WaitsOnlyEnd
          BY <1>1, <2>1 DEF WaitsOnlyEnd, RunningAwaitsNothing
    <2>2. ASSUME NEW m \in TwSlots, Await(m) PROVE FALSE
          BY <1>0, <2>2 DEF Await, Suspend, LeaveThread
    <2>3. ASSUME NEW K, ClearTweens(K) PROVE coroutine'[k].waitTweenId = 0
          BY <1>1, <2>3, CancelMarks DEF RunningAwaitsNothing
    <2> QED  BY <2>1, <2>2, <2>3, WaitsMove
  <1>2. CASE TickCoroutine
    <2>1. CASE UNCHANGED running
          BY <1>1, <2>1
    <2>2. CASE ~UNCHANGED running
      <3>1. /\ i \in CoSlots /\ coroutine[i].active /\ coroutine[i].waitTweenId = 0
            /\ running' = coroutine[i].thread
            BY <1>2, <2>2 DEF TickCoroutine
      <3>2. SameWait(coroutine'[k], coroutine[k])
            BY <1>2, TimedWaits
      <3>3. k = i
            BY <3>1, <3>2 DEF SameWait, OneThreadPerSlot
      <3> QED  BY <3>1, <3>2, <3>3 DEF SameWait
    <2> QED  BY <2>1, <2>2
  <1>3. CASE WakeWaiter
    <2>1. CASE UNCHANGED running
          BY <1>1, <2>1
    <2>2. CASE ~UNCHANGED running
      <3>1. /\ j \in CoSlots /\ coroutine[j].active /\ running' = coroutine[j].thread
            /\ coroutine' = [coroutine EXCEPT ![j] =
                    [coroutine[j] EXCEPT !.waitTweenId = 0, !.orphaned = FALSE]]
            BY <1>3, <2>2 DEF WakeWaiter, Awaits
      <3>2. coroutine[j] \in UsedSlot
            BY <3>1 DEF Typed, TypedPools
      <3>3. coroutine'[j] = [coroutine[j] EXCEPT !.waitTweenId = 0, !.orphaned = FALSE]
            BY <3>1 DEF Typed, TypedPools
      <3>4. coroutine'[j].waitTweenId = 0
            BY <3>2, <3>3 DEF UsedSlot, CoroutineSlot
      <3>5. coroutine'[j].active /\ coroutine'[j].thread = coroutine[j].thread
            BY <1>3, <3>1, EngineMovesNone DEF Engine, SameThreads
      <3>6. k = j
            BY <3>1, <3>5 DEF OneThreadPerSlot
      <3> QED  BY <3>4, <3>6
    <2> QED  BY <2>1, <2>2
  <1> QED
    <2>1. CASE Calls
          BY <1>1, <2>1 DEF Calls, Start, Cancel, CancelAll, ClearCoroutines, TweenTo,
               TweenCancel, TweenCancelAll, ClearTweens, SpringTo, SetActiveScene
    <2>2. CASE Returns
      <3>1. running' = None \/ UNCHANGED running
            BY <2>2 DEF Returns, Wait, WaitFrames, Await, Suspend, Finish, LeaveThread,
                 CallbackReturns, UpdateReturns
      <3> QED  BY <1>0, <1>1, <3>1
    <2>3. CASE Engine
          BY <1>1, <1>2, <1>3, <2>3 DEF Engine, EndCoroutines, TickTween, EndTweens, FireDone
    <2>4. CASE UNCHANGED vars
          BY <1>1, <2>4 DEF vars
    <2> QED  BY <2>1, <2>2, <2>3, <2>4 DEF Next

(* The counter of ids only goes on, or is reset with every tween cleared.  *)
LEMMA IdsMove ==
    ASSUME Typed, [Next]_vars
    PROVE  \/ TweensOnlyLeave /\ UNCHANGED nextTweenId
           \/ TweensOnlyLeave /\ nextTweenId' = nextTweenId + 1 /\ UNCHANGED coroutine
           \/ \E d \in 0 .. MaxDuration, done \in BOOLEAN : TweenTo(d, done)
           \/ TweenCancelAll
           \/ SetActiveScene
  <1>0. ASSUME SameTweens PROVE TweensOnlyLeave
        BY <1>0 DEF SameTweens, TweensOnlyLeave
  <1>1. ASSUME UNCHANGED tween PROVE TweensOnlyLeave
        BY <1>1 DEF TweensOnlyLeave
  <1>2. ASSUME NEW K, ClearTweens(K) PROVE TweensOnlyLeave
        BY <1>2 DEF ClearTweens, TweensOnlyLeave, FreeTween
  <1>3. CASE Calls
    <2>1. ASSUME NEW field, SpringTo(field)
          PROVE  TweensOnlyLeave /\ nextTweenId' = nextTweenId + 1 /\ UNCHANGED coroutine
          BY <1>1, <2>1 DEF SpringTo
    <2> QED  BY <1>1, <1>2, <1>3, <2>1 DEF Calls, Start, Cancel, CancelAll, ClearCoroutines,
                  TweenCancel
  <1>4. CASE Returns \/ Engine
    <2>1. UNCHANGED nextTweenId
      <3>1. CASE Returns
            BY <3>1 DEF Returns, Wait, WaitFrames, Await, Suspend, Finish, LeaveThread,
                 CallbackReturns, UpdateReturns
      <3>2. CASE Engine
            BY <3>2 DEF Engine, TickCoroutine, EndCoroutines, TickTween, EndTweens,
                 WakeWaiter, FireDone
      <3> QED  BY <1>4, <3>1, <3>2
    <2>2. TweensOnlyLeave
      <3>1. CASE Returns
        <4>1. UNCHANGED tween \/ tween' = [tween EXCEPT ![i] = FreeTween]
              BY <3>1 DEF Returns, Wait, WaitFrames, Await, Suspend, Finish, LeaveThread,
                   CallbackReturns, UpdateReturns, pools
        <4> QED  BY <4>1 DEF TweensOnlyLeave, FreeTween, Typed, TypedPools
      <3>2. CASE Engine
        <4>1. \/ UNCHANGED tween
              \/ tween' = [tween EXCEPT ![i] = FreeTween]
              \/ TickTween
              BY <3>2 DEF Engine, TickCoroutine, EndCoroutines, EndTweens, WakeWaiter,
                   FireDone, pools
        <4>2. ASSUME tween' = [tween EXCEPT ![i] = FreeTween] PROVE TweensOnlyLeave
              BY <4>2 DEF TweensOnlyLeave, FreeTween, Typed, TypedPools
        <4> QED  BY <1>0, <1>1, <4>1, <4>2, TickKeepsTweens
      <3> QED  BY <1>4, <3>1, <3>2
    <2> QED  BY <2>1, <2>2
  <1>5. CASE UNCHANGED vars
        BY <1>1, <1>5 DEF vars, pools
  <1> QED  BY <1>3, <1>4, <1>5 DEF Next

LEMMA OrphansStayAlone ==
    ASSUME NoAwaitedCancelAll, Typed, IdsGiven, FreeSlotsAwaitNothing,
           RunningAwaitsNothing, OrphansAwaitNone, [Next]_vars
    PROVE  OrphansAwaitNone'
  <1> SUFFICES ASSUME NEW k \in CoSlots, coroutine'[k].active, coroutine'[k].orphaned
               PROVE  /\ coroutine'[k].waitTweenId \in 1 .. nextTweenId'
                      /\ \A l \in TwSlots :
                            tween'[l].active => tween'[l].id # coroutine'[k].waitTweenId
        BY DEF OrphansAwaitNone
  <1> DEFINE Alone == /\ coroutine'[k].waitTweenId \in 1 .. nextTweenId'
                      /\ \A l \in TwSlots :
                            tween'[l].active => tween'[l].id # coroutine'[k].waitTweenId
  <1>0. nextTweenId \in Nat
        BY PoolAssumption DEF Typed, TypedPools
  <1>1. ASSUME coroutine[k].active, coroutine[k].orphaned
        PROVE  /\ coroutine[k].waitTweenId \in 1 .. nextTweenId
               /\ \A l \in TwSlots : tween[l].active => tween[l].id # coroutine[k].waitTweenId
        BY <1>1 DEF OrphansAwaitNone
  <1>2. ~SetActiveScene
        BY DEF SetActiveScene, FreeCoroutine
  <1>3. CASE TweenCancelAll
    <2>1. coroutine[k].active => coroutine[k].waitTweenId = 0
          BY <1>3 DEF TweenCancelAll, NoAwaitedCancelAll
    <2>2. coroutine[k].active /\ coroutine[k].orphaned
          BY <1>3, <2>1, CancelMarks DEF TweenCancelAll, Awaits
    <2> QED  BY <1>1, <2>1, <2>2
  <1>4. ASSUME coroutine[k].active, coroutine[k].orphaned, ~TweenCancelAll,
               coroutine'[k].waitTweenId = coroutine[k].waitTweenId
        PROVE  Alone
    <2>1. /\ coroutine'[k].waitTweenId \in 1 .. nextTweenId
          /\ \A l \in TwSlots : tween[l].active => tween[l].id # coroutine'[k].waitTweenId
          BY <1>1, <1>4
    <2>2. CASE TweensOnlyLeave /\ nextTweenId' \in {nextTweenId, nextTweenId + 1}
      <3>1. coroutine'[k].waitTweenId \in 1 .. nextTweenId'
            BY <1>0, <2>1, <2>2
      <3> QED  BY <2>1, <2>2, <3>1 DEF TweensOnlyLeave
    <2>3. ASSUME NEW d, NEW done, TweenTo(d, done) PROVE Alone
      <3>1. PICK m \in TwSlots :
                /\ tween'[m].id = nextTweenId + 1
                /\ \A n \in TwSlots \ {m} : tween'[n] = tween[n]
            BY <2>3, TweenToTakesOne
      <3>2. nextTweenId' = nextTweenId + 1
            BY <2>3, TweenToTakesOne
      <3>3. coroutine'[k].waitTweenId \in 1 .. nextTweenId' /\ tween'[m].id # coroutine'[k].waitTweenId
            BY <1>0, <2>1, <3>1, <3>2
      <3> QED  BY <2>1, <3>1, <3>3
    <2> QED  BY <1>2, <1>4, <2>2, <2>3, IdsMove
  <1>5. CASE WaitsOnlyEnd
        BY <1>3, <1>4, <1>5 DEF WaitsOnlyEnd
  <1>6. ASSUME NEW m \in TwSlots, Await(m) PROVE Alone
    <2>1. coroutine[k].active /\ coroutine[k].orphaned
          BY <1>6, AwaitWaits
    <2>2. coroutine[k].thread # running
          BY <1>1, <2>1 DEF RunningAwaitsNothing
    <2>3. coroutine'[k].waitTweenId = coroutine[k].waitTweenId
          BY <1>6, <2>2, AwaitWaits
    <2> QED  BY <1>3, <1>4, <2>1, <2>3
  <1>7. ASSUME NEW m \in TwSlots, TweenCancel(m) PROVE Alone
    <2>1. coroutine[k].active /\ coroutine'[k].waitTweenId = coroutine[k].waitTweenId
          BY <1>7, CancelMarks DEF TweenCancel
    <2>2. CASE coroutine[k].orphaned
          BY <1>3, <1>4, <2>1, <2>2
    <2>3. CASE Awaits(k, tween[m].id)
      <3>1. /\ tween' = [l \in TwSlots |-> IF l \in {m} THEN FreeTween ELSE tween[l]]
            /\ tween[m].active /\ UNCHANGED nextTweenId
            BY <1>7 DEF TweenCancel, ClearTweens
      <3>2. coroutine'[k].waitTweenId = tween[m].id /\ tween[m].id \in 1 .. nextTweenId
            BY <2>1, <2>3, <3>1 DEF Awaits, IdsGiven
      <3>3. \A l \in TwSlots : tween'[l].active => l # m /\ tween[l].active /\ tween'[l].id = tween[l].id
            BY <3>1 DEF FreeTween
      <3>4. \A l \in TwSlots : l # m /\ tween[l].active => tween[l].id # tween[m].id
            BY <3>1 DEF IdsGiven, OneTweenPerId
      <3>5. \A l \in TwSlots : tween'[l].active => tween'[l].id # coroutine'[k].waitTweenId
            BY <3>2, <3>3, <3>4
      <3>6. coroutine'[k].waitTweenId \in 1 .. nextTweenId'
            BY <3>1, <3>2
      <3> QED  BY <3>5, <3>6
    <2>4. coroutine[k].orphaned \/ \E l \in {m} : Awaits(k, tween[l].id)
          BY <1>7, CancelMarks DEF TweenCancel
    <2> QED  BY <2>2, <2>3, <2>4
  <1> QED  BY <1>3, <1>5, <1>6, <1>7, CallsTouchWaits

LEMMA OrphansHold ==
    NoAwaitedCancelAll => (Spec => []OrphansAwaitNone)
  <1> SUFFICES ASSUME NoAwaitedCancelAll PROVE Spec => []OrphansAwaitNone
        OBVIOUS
  <1>1. Init => RunningAwaitsNothing /\ OrphansAwaitNone
        BY DEF Init, FreeCoroutine, RunningAwaitsNothing, OrphansAwaitNone
  <1>2. OneSlotEach => OneThreadPerSlot
        BY DEF OneSlotEach
  <1>3. Typed /\ Typed' /\ OneThreadPerSlot /\ OneThreadPerSlot' /\ IdsGiven
            /\ FreeSlotsAwaitNothing /\ RunningAwaitsNothing /\ OrphansAwaitNone
            /\ [Next]_vars => (RunningAwaitsNothing /\ OrphansAwaitNone)'
        BY RunningStaysFree, OrphansStayAlone
  <1> QED  BY <1>1, <1>2, <1>3, TypedHolds, OneSlotHolds, IdsHold, FreeSlotsHold, PTL DEF Spec

(* While scripts neither cancel the tween whose completion woke them nor   *)
(* call cancelAll past a waiting coroutine, the loop over the waiters wakes*)
(* only coroutines whose own tween has finished.                           *)
THEOREM OnlyAwaitedTweenWakes ==
    NoCompletingCancel /\ NoAwaitedCancelAll => (Spec => WokenByAwaited)
  <1> SUFFICES ASSUME NoCompletingCancel, NoAwaitedCancelAll PROVE Spec => WokenByAwaited
        OBVIOUS
  <1>1. ASSUME Typed, CompletionSound, OrphansAwaitNone, [Next]_vars,
               pc' = "woken", pc = "waiters"
        PROVE  ~coroutine[j].orphaned
    <2>1. WakeWaiter
          BY <1>1, LoopMoves DEF Idle, FireDone, CallbackReturns
    <2>2. j \in CoSlots /\ Awaits(j, completedId)
          BY <1>1, <2>1 DEF WakeWaiter
    <2>3. tween[i].active /\ tween[i].id = completedId /\ i \in TwSlots
          BY <1>1 DEF CompletionSound, Typed, Loops
    <2> QED  BY <1>1, <2>2, <2>3 DEF OrphansAwaitNone, Awaits
  <1>2. Typed /\ CompletionSound /\ OrphansAwaitNone /\ [Next]_vars =>
            [pc' = "woken" /\ pc = "waiters" => ~coroutine[j].orphaned]_vars
        BY <1>1
  <1>3. Spec => []OrphansAwaitNone
        BY OrphansHold
  <1>4. Spec => []CompletionSound
        BY CompletionHolds
  <1> QED  BY <1>2, <1>3, <1>4, TypedHolds, PTL DEF Spec, WokenByAwaited

=============================================================================
