------------------------------ MODULE LuaAsync ------------------------------
(***************************************************************************)
(* The schedulers behind engine.async and engine.tween: the fixed pool of  *)
(* coroutines that tickCoroutines resumes, the fixed pool of tweens that   *)
(* tickTweens advances and whose completion resumes the coroutines that    *)
(* await them and then calls a done callback, and the fixed pool of        *)
(* springs, which take their ids from the counter of the tweens.           *)
(*                                                                         *)
(* A frame is update(), tickCoroutines, tickTweens.  Everything runs on    *)
(* one thread, but the two loops hand control to Lua in the middle of an   *)
(* iteration, and the script may start, cancel, await and tween there:     *)
(* the loops then go on with the indices, the id and the slots they had.   *)
(*                                                                         *)
(* Time is counted in frames (dt = 1), so a wait is a number of frames;    *)
(* a wait that has run out is 0, never negative.  The id of a coroutine is *)
(* only used to cancel it: Cancel names the slot.  A field is a table and  *)
(* a key of it; when a spring on it settles is left to its arithmetic.     *)
(***************************************************************************)
EXTENDS Naturals, FiniteSets

CONSTANTS
    Threads,        \* Lua threads; one that is collected may come back
    None,           \* no thread
    CoroutinePool,  \* COROUTINE_POOL_SIZE
    TweenPool,      \* TWEEN_POOL_SIZE
    SpringPool,     \* SPRING_POOL_SIZE
    Fields,         \* what springs animate
    MaxWait,        \* longest wait, in frames (bounds the inputs)
    MaxDuration,    \* longest tween, in frames (bounds the inputs)
    MaxTweenId,     \* bounds m_nextTweenId
    Idioms          \* what this host's scripts do beside the plain uses

(* cancel_running: a coroutine, or a callback it runs, cancels it;         *)
(* cancel_completing: a waiter or a done callback cancels the tween whose  *)
(* completion is being handled; cancel_awaited: cancel stops a tween that  *)
(* a coroutine awaits; cancel_all_awaited: cancelAll is called while a     *)
(* coroutine awaits a tween; await_completing: a coroutine that is woken   *)
(* by a tween awaits it again.                                             *)
AllIdioms == {"cancel_running", "cancel_completing", "cancel_awaited",
              "cancel_all_awaited", "await_completing"}

ASSUME ThreadAssumption == None \notin Threads /\ None \notin Fields
ASSUME PoolAssumption ==
    /\ CoroutinePool \in Nat \ {0} /\ TweenPool \in Nat \ {0} /\ SpringPool \in Nat
    /\ MaxWait \in Nat \ {0} /\ MaxDuration \in Nat /\ MaxTweenId \in Nat
ASSUME IdiomAssumption == Idioms \subseteq AllIdioms

VARIABLES
    coroutine,      \* m_coroutinePool
    tween,          \* m_tweenPool
    spring,         \* m_springPool
    nextTweenId,    \* m_nextTweenId, the last id of a tween or a spring
    pc,             \* where the frame is
    i,              \* the index of tickCoroutines or tickTweens
    j,              \* the index of the loop over the waiters of a tween
    completedId,    \* completedId of tickTweens, 0 outside a completion
    running         \* the thread lua_resume is running

pools == <<coroutine, tween, spring>>
vars == <<pools, nextTweenId, pc, i, j, completedId, running>>

CoSlots == 1 .. CoroutinePool
TwSlots == 1 .. TweenPool
SpSlots == 1 .. SpringPool
TweenIds == 1 .. MaxTweenId
Places == {"update", "coroutines", "resumed", "tweens", "waiters", "woken", "callback"}

(* orphaned is history: the tween that is awaited has been cancelled.      *)
FreeCoroutine == [active |-> FALSE, thread |-> None, waitRemaining |-> 0,
                  waitFrames |-> 0, waitTweenId |-> 0, orphaned |-> FALSE]
FreeTween == [active |-> FALSE, id |-> 0, elapsed |-> 0, duration |-> 0, done |-> FALSE]
FreeSpring == [active |-> FALSE, id |-> 0, field |-> None]

LowestFree(pool, k) ==
    ~pool[k].active /\ \A l \in DOMAIN pool : ~pool[l].active => k <= l

InPool(t)  == \E k \in CoSlots : coroutine[k].active /\ coroutine[k].thread = t
Awaits(k, id) == coroutine[k].active /\ id # 0 /\ coroutine[k].waitTweenId = id
Awaited(id) == \E k \in CoSlots : Awaits(k, id)
Less(n) == IF n = 0 THEN 0 ELSE n - 1

-----------------------------------------------------------------------------
(* What a script may call, from update(), from a coroutine, or from a done *)
(* callback.  A call that finds its pool full, or an unknown id, changes   *)
(* nothing and is left out.                                                *)

Script == pc \in {"update", "resumed", "woken", "callback"}

(* (Slip: the last slot is taken when none is free.)                       *)
StartOverwrites(t) ==
    /\ Script
    /\ ~InPool(t) /\ t # running
    /\ \E k \in CoSlots :
        /\ \/ LowestFree(coroutine, k)
           \/ k = CoroutinePool /\ \A l \in CoSlots : coroutine[l].active
        /\ coroutine' = [coroutine EXCEPT
                            ![k].active = TRUE, ![k].thread = t, ![k].waitRemaining = 0]
    /\ UNCHANGED <<tween, spring, nextTweenId, pc, i, j, completedId, running>>

(* engine.async.start.                                                     *)
Start(t) ==
    /\ Script
    /\ ~InPool(t) /\ t # running
    /\ \E k \in CoSlots :
        /\ LowestFree(coroutine, k)
        /\ coroutine' = [coroutine EXCEPT
                            ![k].active = TRUE, ![k].thread = t, ![k].waitRemaining = 0]
    /\ UNCHANGED <<tween, spring, nextTweenId, pc, i, j, completedId, running>>

(* engine.async.cancel of every coroutine in K.                            *)
ClearCoroutines(K) ==
    /\ (\E k \in K : coroutine[k].active /\ coroutine[k].thread = running)
            => "cancel_running" \in Idioms
    /\ coroutine' = [k \in CoSlots |-> IF k \in K THEN FreeCoroutine ELSE coroutine[k]]
    /\ UNCHANGED <<tween, spring, nextTweenId, pc, i, j, completedId, running>>

Cancel(k) == Script /\ coroutine[k].active /\ ClearCoroutines({k})
CancelAll == Script /\ ClearCoroutines(CoSlots)

(* engine.tween.to, with or without a done callback.                       *)
TweenTo(duration, done) ==
    /\ Script
    /\ nextTweenId < MaxTweenId
    /\ \E k \in TwSlots :
        /\ LowestFree(tween, k)
        /\ tween' = [tween EXCEPT ![k] =
                [active |-> TRUE, id |-> nextTweenId + 1, elapsed |-> 0,
                 duration |-> duration, done |-> done]]
    /\ nextTweenId' = nextTweenId + 1
    /\ UNCHANGED <<coroutine, spring, pc, i, j, completedId, running>>

(* The tweens in K are stopped; what awaits them is left as it is.         *)
ClearTweens(K) ==
    /\ completedId # 0 /\ i \in K => "cancel_completing" \in Idioms
    /\ tween' = [k \in TwSlots |-> IF k \in K THEN FreeTween ELSE tween[k]]
    /\ coroutine' = [c \in CoSlots |->
            IF \E k \in K : Awaits(c, tween[k].id)
            THEN [coroutine[c] EXCEPT !.orphaned = TRUE] ELSE coroutine[c]]
    /\ UNCHANGED <<pc, i, j, completedId, running>>

(* engine.tween.cancel, engine.tween.cancelAll.                            *)
TweenCancel(k) ==
    /\ Script
    /\ tween[k].active
    /\ Awaited(tween[k].id) => "cancel_awaited" \in Idioms
    /\ ClearTweens({k})
    /\ UNCHANGED <<spring, nextTweenId>>

(* (Slip: the springs go on.)                                              *)
CancelAllKeepsSprings ==
    /\ Script
    /\ (\E c \in CoSlots : coroutine[c].active /\ coroutine[c].waitTweenId # 0)
            => "cancel_all_awaited" \in Idioms
    /\ ClearTweens(TwSlots)
    /\ nextTweenId' = 0
    /\ UNCHANGED spring

TweenCancelAll ==
    /\ Script
    /\ (\E c \in CoSlots : coroutine[c].active /\ coroutine[c].waitTweenId # 0)
            => "cancel_all_awaited" \in Idioms
    /\ ClearTweens(TwSlots)
    /\ spring' = [k \in SpSlots |-> FreeSpring]
    /\ nextTweenId' = 0

(* engine.tween.spring, of a field that no spring animates: else the one   *)
(* that does goes on to another goal, and no slot is taken.                *)
SpringTo(field) ==
    /\ Script
    /\ nextTweenId < MaxTweenId
    /\ \A k \in SpSlots : spring[k].field # field
    /\ \E k \in SpSlots :
        /\ LowestFree(spring, k)
        /\ spring' = [spring EXCEPT ![k] =
                [active |-> TRUE, id |-> nextTweenId + 1, field |-> field]]
    /\ nextTweenId' = nextTweenId + 1
    /\ UNCHANGED <<coroutine, tween, pc, i, j, completedId, running>>

-----------------------------------------------------------------------------
(* What ends a stretch of script.  Each is what the script calls last and  *)
(* what the loop that resumed it does when lua_resume returns.             *)

(* (Slip: the index of the tween is taken for that of the coroutine.)      *)
OuterSlot == i

(* The slot the loop resumed; the script may have freed and reused it.     *)
ResumedSlot == IF pc = "resumed" THEN i ELSE j

(* (Slip: the loop over the waiters stops at the first one.)               *)
LeaveAfterOne ==
    /\ running' = None
    /\ \/ pc = "resumed" /\ pc' = "coroutines" /\ i' = i + 1 /\ UNCHANGED j
       \/ pc = "woken" /\ pc' = "waiters" /\ j' = CoroutinePool + 1 /\ UNCHANGED i
    /\ UNCHANGED <<tween, spring, nextTweenId, completedId>>

LeaveThread ==
    /\ running' = None
    /\ \/ pc = "resumed" /\ pc' = "coroutines" /\ i' = i + 1 /\ UNCHANGED j
       \/ pc = "woken" /\ pc' = "waiters" /\ j' = j + 1 /\ UNCHANGED i
    /\ UNCHANGED <<tween, spring, nextTweenId, completedId>>

(* lua_yield, the calling coroutine's slot being rewritten as new; then    *)
(* tickCoroutines counts the current frame towards a timed wait.           *)
Suspend(new) ==
    LET yielded == [k \in CoSlots |->
            IF coroutine[k].active /\ coroutine[k].thread = running
            THEN new[k] ELSE coroutine[k]]
    IN
    /\ running # None
    /\ coroutine' = IF pc = "resumed" /\ yielded[i].waitFrames = 0
                    THEN [yielded EXCEPT ![i].waitRemaining = Less(@)]
                    ELSE yielded
    /\ LeaveThread

Wait(frames) ==
    Suspend([k \in CoSlots |->
        [coroutine[k] EXCEPT !.waitFrames = 0, !.waitRemaining = frames]])

WaitFrames(n) ==
    Suspend([k \in CoSlots |->
        [coroutine[k] EXCEPT !.waitRemaining = 0, !.waitFrames = n - 1]])

(* engine.tween.await of a tween that is in the pool: any other id returns *)
(* at once.                                                                *)
Await(k) ==
    /\ tween[k].active
    /\ tween[k].id = completedId => "await_completing" \in Idioms
    /\ Suspend([c \in CoSlots |-> [coroutine[c] EXCEPT !.waitTweenId = tween[k].id]])

(* The coroutine returns or raises: the loop clears the slot it resumed.   *)
Finish ==
    /\ running # None
    /\ coroutine' = [coroutine EXCEPT ![ResumedSlot] = FreeCoroutine]
    /\ LeaveThread

(* (Slip: a tween with a callback is left in its slot.)                    *)
CallbackKeepsSlot ==
    /\ pc = "callback"
    /\ pc' = "tweens"
    /\ i' = i + 1
    /\ completedId' = 0
    /\ UNCHANGED <<pools, nextTweenId, j, running>>

(* The done callback returns: the loop clears the slot it completed.       *)
CallbackReturns ==
    /\ pc = "callback"
    /\ tween' = [tween EXCEPT ![i] = FreeTween]
    /\ pc' = "tweens"
    /\ i' = i + 1
    /\ completedId' = 0
    /\ UNCHANGED <<coroutine, spring, nextTweenId, j, running>>

UpdateReturns ==
    /\ pc = "update"
    /\ pc' = "coroutines"
    /\ i' = 1
    /\ UNCHANGED <<pools, nextTweenId, j, completedId, running>>

(* (Slip: the coroutines survive the change of scene.)                     *)
SceneKeepsCoroutines ==
    /\ pc = "update"
    /\ coroutine' = [k \in CoSlots |->
            IF coroutine[k].waitTweenId # 0
            THEN [coroutine[k] EXCEPT !.orphaned = TRUE] ELSE coroutine[k]]
    /\ tween' = [k \in TwSlots |-> FreeTween]
    /\ spring' = [k \in SpSlots |-> FreeSpring]
    /\ nextTweenId' = 0
    /\ UNCHANGED <<pc, i, j, completedId, running>>

(* setActiveScene, or registerAll, between two frames: all is cleared.     *)
SetActiveScene ==
    /\ pc = "update"
    /\ coroutine' = [k \in CoSlots |-> FreeCoroutine]
    /\ tween' = [k \in TwSlots |-> FreeTween]
    /\ spring' = [k \in SpSlots |-> FreeSpring]
    /\ nextTweenId' = 0
    /\ UNCHANGED <<pc, i, j, completedId, running>>

-----------------------------------------------------------------------------
(* tickCoroutines, one slot at a time.                                     *)

TickCoroutine ==
    LET slot == coroutine[i] IN
    /\ pc = "coroutines" /\ i \in CoSlots
    /\ \/ /\ ~slot.active \/ slot.waitTweenId # 0
          /\ i' = i + 1
          /\ UNCHANGED <<coroutine, pc, running>>
       \/ /\ slot.active /\ slot.waitTweenId = 0
          /\ LET left == [slot EXCEPT
                    !.waitFrames = Less(@),
                    !.waitRemaining = IF slot.waitFrames > 0 THEN @ ELSE Less(@)]
                 waits == left.waitFrames > 0 \/
                          (slot.waitFrames = 0 /\ left.waitRemaining > 0)
             IN
             /\ coroutine' = [coroutine EXCEPT ![i] = left]
             /\ \/ waits /\ i' = i + 1 /\ UNCHANGED <<pc, running>>
                \/ ~waits /\ pc' = "resumed" /\ running' = slot.thread /\ UNCHANGED i
    /\ UNCHANGED <<tween, spring, nextTweenId, j, completedId>>

(* tickSprings: those that settle leave their slots.                       *)
TickSprings ==
    \E settled \in SUBSET SpSlots :
        spring' = [k \in SpSlots |-> IF k \in settled THEN FreeSpring ELSE spring[k]]

(* The springs are ticked before the tweens.                               *)
EndCoroutines ==
    /\ pc = "coroutines" /\ i \notin CoSlots
    /\ pc' = "tweens"
    /\ i' = 1
    /\ TickSprings
    /\ UNCHANGED <<coroutine, tween, nextTweenId, j, completedId, running>>

(* tickTweens, one slot at a time: skip it, advance it, or complete it.    *)
TickTween ==
    LET slot == tween[i]
        elapsed == slot.elapsed + 1
    IN
    /\ pc = "tweens" /\ i \in TwSlots
    /\ \/ /\ ~slot.active
          /\ i' = i + 1
          /\ UNCHANGED <<tween, pc, j, completedId>>
       \/ /\ slot.active /\ elapsed < slot.duration
          /\ tween' = [tween EXCEPT ![i].elapsed = elapsed]
          /\ i' = i + 1
          /\ UNCHANGED <<pc, j, completedId>>
       \/ /\ slot.active /\ elapsed >= slot.duration
          /\ tween' = [tween EXCEPT ![i].elapsed = slot.duration]
          /\ completedId' = slot.id
          /\ pc' = "waiters"
          /\ j' = 1
          /\ UNCHANGED i
    /\ UNCHANGED <<coroutine, spring, nextTweenId, running>>

EndTweens ==
    /\ pc = "tweens" /\ i \notin TwSlots
    /\ pc' = "update"
    /\ i' = 1
    /\ UNCHANGED <<pools, nextTweenId, j, completedId, running>>

(* (Slip: the coroutine that is woken still awaits the tween.)             *)
WakeKeepsWait ==
    /\ pc = "waiters" /\ j \in CoSlots
    /\ \/ /\ Awaits(j, completedId)
          /\ running' = coroutine[j].thread
          /\ pc' = "woken"
          /\ UNCHANGED j
       \/ /\ ~Awaits(j, completedId)
          /\ j' = j + 1
          /\ UNCHANGED <<pc, running>>
    /\ UNCHANGED <<coroutine, tween, spring, nextTweenId, i, completedId>>

(* The loop over the coroutines that await the completed tween.            *)
WakeWaiter ==
    /\ pc = "waiters" /\ j \in CoSlots
    /\ \/ /\ Awaits(j, completedId)
          /\ coroutine' = [coroutine EXCEPT ![j].waitTweenId = 0, ![j].orphaned = FALSE]
          /\ running' = coroutine[j].thread
          /\ pc' = "woken"
          /\ UNCHANGED j
       \/ /\ ~Awaits(j, completedId)
          /\ j' = j + 1
          /\ UNCHANGED <<coroutine, pc, running>>
    /\ UNCHANGED <<tween, spring, nextTweenId, i, completedId>>

(* After the waiters: the callback of the slot, or straight to the next.   *)
FireDone ==
    /\ pc = "waiters" /\ j \notin CoSlots
    /\ j' = 1
    /\ \/ /\ tween[i].done
          /\ pc' = "callback"
          /\ UNCHANGED <<tween, i, completedId>>
       \/ /\ ~tween[i].done
          /\ tween' = [tween EXCEPT ![i] = FreeTween]
          /\ completedId' = 0
          /\ pc' = "tweens"
          /\ i' = i + 1
    /\ UNCHANGED <<coroutine, spring, nextTweenId, running>>

-----------------------------------------------------------------------------
Init ==
    /\ coroutine = [k \in CoSlots |-> FreeCoroutine]
    /\ tween = [k \in TwSlots |-> FreeTween]
    /\ spring = [k \in SpSlots |-> FreeSpring]
    /\ nextTweenId = 0
    /\ pc = "update"
    /\ i = 1 /\ j = 1
    /\ completedId = 0
    /\ running = None

Calls ==
    \/ \E t \in Threads : Start(t)
    \/ \E k \in CoSlots : Cancel(k)
    \/ CancelAll
    \/ \E d \in 0 .. MaxDuration, done \in BOOLEAN : TweenTo(d, done)
    \/ \E k \in TwSlots : TweenCancel(k)
    \/ TweenCancelAll
    \/ \E field \in Fields : SpringTo(field)
    \/ SetActiveScene

Returns ==
    \/ \E frames \in 0 .. MaxWait : Wait(frames)
    \/ \E n \in 1 .. MaxWait : WaitFrames(n)
    \/ \E k \in TwSlots : Await(k)
    \/ Finish
    \/ CallbackReturns
    \/ UpdateReturns

Engine == TickCoroutine \/ EndCoroutines \/ TickTween \/ EndTweens \/ WakeWaiter \/ FireDone

Next == Calls \/ Returns \/ Engine

Spec == Init /\ [][Next]_vars

(* A frame goes on, and a stretch of script ends: one that never does      *)
(* hangs the program.  No call is owed.                                    *)
FairSpec == Spec /\ WF_vars(Engine) /\ WF_vars(Returns)

-----------------------------------------------------------------------------
CoroutineSlot ==
    [active : BOOLEAN, thread : Threads \cup {None}, waitRemaining : 0 .. MaxWait,
     waitFrames : 0 .. MaxWait, waitTweenId : 0 .. MaxTweenId, orphaned : BOOLEAN]

TweenSlot ==
    [active : BOOLEAN, id : 0 .. MaxTweenId, elapsed : 0 .. MaxDuration,
     duration : 0 .. MaxDuration, done : BOOLEAN]

SpringSlot == [active : BOOLEAN, id : 0 .. MaxTweenId, field : Fields \cup {None}]

(* Every variable holds a value its C++ declaration allows, and no wait or *)
(* tween has gone past its end.                                            *)
TypeOK ==
    /\ coroutine \in [CoSlots -> CoroutineSlot]
    /\ tween \in [TwSlots -> TweenSlot]
    /\ spring \in [SpSlots -> SpringSlot]
    /\ nextTweenId \in 0 .. MaxTweenId
    /\ pc \in Places
    /\ i \in Nat /\ j \in Nat
    /\ completedId \in 0 .. MaxTweenId
    /\ running \in Threads \cup {None}

OneThreadPerSlot ==
    \A k, l \in CoSlots :
        coroutine[k].active /\ coroutine[l].active /\ k # l
            => coroutine[k].thread # coroutine[l].thread

OneTweenPerId ==
    /\ \A k, l \in TwSlots :
        tween[k].active /\ tween[l].active /\ k # l => tween[k].id # tween[l].id
    /\ \A k \in SpSlots, l \in TwSlots :
        spring[k].active /\ tween[l].active => spring[k].id # tween[l].id

OneSpringPerField ==
    \A k, l \in SpSlots :
        spring[k].active /\ spring[l].active /\ k # l
            => spring[k].id # spring[l].id /\ spring[k].field # spring[l].field

(* "tween and spring IDs never collide" (scripting/bindings.hpp:595-597),  *)
(* for an id is handed out again only after everything of that id is gone: *)
(* cancel and await act on what the script meant.  A thread has one slot,  *)
(* and no field has two springs pulling at it.                             *)
OneSlotEach == OneThreadPerSlot /\ OneTweenPerId /\ OneSpringPerField

(* The coroutine the loop is running is in the slot the loop will clear.   *)
RunningHasItsSlot ==
    running # None => coroutine[ResumedSlot].active /\ coroutine[ResumedSlot].thread = running

(* A coroutine that awaits a tween awaits one that is still running, or    *)
(* whose completion has yet to reach it, unless the tween was cancelled.   *)
AwaitedIsActive ==
    \A k \in CoSlots :
        coroutine[k].active /\ coroutine[k].waitTweenId # 0 /\ ~coroutine[k].orphaned =>
        \E l \in TwSlots :
            /\ tween[l].active /\ tween[l].id = coroutine[k].waitTweenId
            /\ tween[l].id = completedId => pc \in {"waiters", "woken"} /\ k >= j

(* A coroutine leaves the pool when it ends or when it is cancelled, not   *)
(* when another one ends.                                                  *)
EndsAlone ==
    [][\A t \in Threads :
        InPool(t) /\ ~InPool(t)' => running = t \/ pc' = pc]_vars

(* await returns because the tween it named has finished: a coroutine whose*)
(* tween was cancelled is not woken by another one.                        *)
WokenByAwaited ==
    [][pc' = "woken" /\ pc = "waiters" => ~coroutine[j].orphaned]_vars

(* Every coroutine in the pool runs again, or is cancelled: a wait runs    *)
(* out, a tween that is awaited completes.                                 *)
EveryCoroutineRuns == \A t \in Threads : InPool(t) ~> running = t \/ ~InPool(t)

(* Every tween completes, or is cancelled.                                 *)
EveryTweenEnds ==
    \A k \in TwSlots, id \in TweenIds :
        (tween[k].active /\ tween[k].id = id) ~> ~(tween[k].active /\ tween[k].id = id)

=============================================================================
