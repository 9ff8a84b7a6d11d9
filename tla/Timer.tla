-------------------------------- MODULE Timer --------------------------------
(***************************************************************************)
(* C_Timer: the one-shot and repeating timers of an object, and the loop   *)
(* of update that advances them and fires their Lua callbacks.             *)
(*                                                                         *)
(* The script of the object runs between two updates and in the callbacks, *)
(* where it may schedule and cancel while the loop holds an index and the  *)
(* reference it is calling; a load of the script empties the component.    *)
(***************************************************************************)
EXTENDS Naturals, FiniteSets

CONSTANTS
    MaxTimers,      \* MAX_TIMERS
    Refs,           \* numbers luaL_ref may return
    Intervals,      \* delays a script asks for, in units of time
    Dts,            \* lengths a frame may have
    MaxId           \* bounds m_nextId

ASSUME TimerAssumption ==
    /\ MaxTimers \in Nat \ {0}
    /\ 0 \notin Refs
    /\ Intervals \subseteq Nat
    /\ Dts \subseteq Nat
    /\ MaxId \in Nat

VARIABLES
    timers,     \* m_timers, with the time that passed since the timer was
                \* scheduled or fired, as far as its delay, and the time of the
                \* frame in whose update it was scheduled ahead of the loop
    nextId,     \* m_nextId
    live,       \* m_L is not null
    at,         \* the slot update has come to, 0 between updates
    dt,         \* the length of the frame that update runs for
    calling,    \* the timer whose callback runs, NoCall if none does
    held,       \* the references taken from the registry and not given back
    done        \* the ids that may not fire any more

vars == <<timers, nextId, live, at, dt, calling, held, done>>

Slots == 1 .. MaxTimers
Free == [active |-> FALSE, id |-> 0, ref |-> 0, interval |-> 0, elapsed |-> 0,
         repeating |-> FALSE, passed |-> 0, credit |-> 0]
(* A slot that is given up: of what it still says only the time is not     *)
(* overwritten before it is read.                                          *)
GivenUp(elapsed) == [Free EXCEPT !.elapsed = elapsed]
NoCall == [id |-> 0, ref |-> 0, repeating |-> FALSE]

(* Lua runs between two updates and in a callback.                         *)
Script == at = 0 \/ calling # NoCall

-----------------------------------------------------------------------------
(* (Slip: the elapsed time of the slot is not reset.)                      *)
ScheduleKeepsElapsed(seconds, repeating) ==
    /\ Script
    /\ nextId <= MaxId
    /\ live' = TRUE
    /\ \E s \in Slots, r \in Refs \ held :
        /\ ~timers[s].active
        /\ \A t \in Slots : ~timers[t].active => s <= t
        /\ timers' = [timers EXCEPT ![s] =
                [active |-> TRUE, id |-> nextId, ref |-> r, interval |-> seconds,
                 elapsed |-> @.elapsed, repeating |-> repeating,
                 passed |-> 0, credit |-> IF s > at THEN dt ELSE 0]]
        /\ held' = held \cup {r}
    /\ nextId' = nextId + 1
    /\ UNCHANGED <<at, dt, calling, done>>

(* timer:after and timer:every, in the first free slot.                    *)
Schedule(seconds, repeating) ==
    /\ Script
    /\ nextId <= MaxId
    /\ live' = TRUE
    /\ \E s \in Slots, r \in Refs \ held :
        /\ ~timers[s].active
        /\ \A t \in Slots : ~timers[t].active => s <= t
        /\ timers' = [timers EXCEPT ![s] =
                [active |-> TRUE, id |-> nextId, ref |-> r, interval |-> seconds,
                 elapsed |-> 0, repeating |-> repeating,
                 passed |-> 0, credit |-> IF s > at THEN dt ELSE 0]]
        /\ held' = held \cup {r}
    /\ nextId' = nextId + 1
    /\ UNCHANGED <<at, dt, calling, done>>

(* With every slot taken they answer 0 and give the reference back.        *)
ScheduleFull ==
    /\ Script
    /\ \A s \in Slots : timers[s].active
    /\ live' = TRUE
    /\ UNCHANGED <<timers, nextId, at, dt, calling, held, done>>

(* timer:cancel.                                                           *)
Cancel(id) ==
    /\ Script
    /\ \E s \in Slots :
        /\ timers[s].active /\ timers[s].id = id
        /\ timers' = [timers EXCEPT ![s] = GivenUp(@.elapsed)]
        /\ held' = IF live THEN held \ {timers[s].ref} ELSE held
    /\ done' = done \cup {id}
    /\ UNCHANGED <<nextId, live, at, dt, calling>>

(* clearTimers, when the script is loaded or the object destroyed.         *)
ClearTimers ==
    /\ at = 0
    /\ timers' = IF live THEN [s \in Slots |-> GivenUp(0)] ELSE timers
    /\ live' = FALSE
    /\ held' = IF live THEN held \ {timers[s].ref : s \in Slots} ELSE held
    /\ done' = done \cup {timers[s].id : s \in {t \in Slots : timers[t].active}}
    /\ UNCHANGED <<nextId, at, dt, calling>>

-----------------------------------------------------------------------------
AtMost(time, delay) == IF time < delay THEN time ELSE delay

(* update is called for a frame: time passes for every timer.              *)
BeginUpdate(d) ==
    /\ at = 0 /\ live
    /\ at' = 1 /\ dt' = d
    /\ timers' = [s \in Slots |->
            IF timers[s].active
            THEN [timers[s] EXCEPT !.passed = AtMost(@ + d, timers[s].interval)]
            ELSE timers[s]]
    /\ UNCHANGED <<nextId, live, calling, held, done>>

Turn == at \in Slots /\ calling = NoCall
Due(s) == timers[s].elapsed + dt >= timers[s].interval
(* (Slip: the loop ends before the last slot.)                             *)
AdvanceShort(s) == /\ at' = IF s + 1 >= MaxTimers THEN 0 ELSE s + 1
                   /\ dt' = IF s + 1 >= MaxTimers THEN 0 ELSE dt
Advance(s) == /\ at' = IF s = MaxTimers THEN 0 ELSE s + 1
              /\ dt' = IF s = MaxTimers THEN 0 ELSE dt

(* The slot is free, or its timer is not due.                              *)
Pass ==
    /\ Turn
    /\ ~(timers[at].active /\ Due(at))
    /\ timers' = [timers EXCEPT ![at].elapsed = IF timers[at].active THEN @ + dt ELSE @]
    /\ Advance(at)
    /\ UNCHANGED <<nextId, live, calling, held, done>>

(* A timer fires: a one-shot timer leaves its slot before its callback     *)
(* runs, a repeating one starts again from zero.                           *)
Fire ==
    /\ Turn
    /\ timers[at].active /\ Due(at)
    /\ timers' = [timers EXCEPT ![at] =
            IF @.repeating THEN [@ EXCEPT !.elapsed = 0, !.passed = 0, !.credit = 0]
            ELSE GivenUp(@.elapsed + dt)]
    /\ calling' = [id |-> timers[at].id, ref |-> timers[at].ref,
                   repeating |-> timers[at].repeating]
    /\ done' = IF timers[at].repeating THEN done ELSE done \cup {timers[at].id}
    /\ UNCHANGED <<nextId, live, at, dt, held>>

(* (Slip: the reference is given back for every timer.)                    *)
ReturnReleases ==
    /\ calling # NoCall
    /\ calling' = NoCall
    /\ held' = IF live THEN held \ {calling.ref} ELSE held
    /\ Advance(at)
    /\ UNCHANGED <<timers, nextId, live, done>>

(* The callback returns, or raises: the reference of a one-shot timer is   *)
(* given back now.                                                         *)
CallbackReturns ==
    /\ calling # NoCall
    /\ calling' = NoCall
    /\ held' = IF ~calling.repeating /\ live THEN held \ {calling.ref} ELSE held
    /\ Advance(at)
    /\ UNCHANGED <<timers, nextId, live, done>>

-----------------------------------------------------------------------------
Init ==
    /\ timers = [s \in Slots |-> Free]
    /\ nextId = 1
    /\ live = FALSE
    /\ at = 0 /\ dt = 0
    /\ calling = NoCall
    /\ held = {}
    /\ done = {}

Next ==
    \/ \E seconds \in Intervals, repeating \in BOOLEAN : Schedule(seconds, repeating)
    \/ ScheduleFull
    \/ \E id \in 1 .. MaxId : Cancel(id)
    \/ ClearTimers
    \/ \E d \in Dts : BeginUpdate(d)
    \/ Pass
    \/ Fire
    \/ CallbackReturns

Spec == Init /\ [][Next]_vars

(* The game loop updates the object every frame, for a positive time in    *)
(* the long run, and callbacks return.                                     *)
Fairness ==
    /\ WF_vars(Pass \/ Fire \/ CallbackReturns)
    /\ WF_vars(\E d \in Dts : BeginUpdate(d))

FairSpec == Spec /\ Fairness

-----------------------------------------------------------------------------
Entry == [active : BOOLEAN, id : 0 .. MaxId, ref : Refs \cup {0}, interval : Nat,
          elapsed : Nat, repeating : BOOLEAN, passed : Nat, credit : Nat]

(* Every variable holds a value its C++ declaration allows.                *)
TypeOK ==
    /\ timers \in [Slots -> Entry]
    /\ nextId \in 1 .. MaxId + 1
    /\ live \in BOOLEAN
    /\ at \in 0 .. MaxTimers
    /\ dt \in Nat
    /\ calling \in [id : 0 .. MaxId, ref : Refs \cup {0}, repeating : BOOLEAN]
    /\ held \in SUBSET Refs
    /\ done \in SUBSET (1 .. MaxId)

(* The references held are those of the active timers, and that of a one-  *)
(* shot timer while its callback runs; no two timers share one, so that    *)
(* giving one back never takes it from somebody else.                      *)
RefsMatch ==
    /\ held = {timers[s].ref : s \in {t \in Slots : timers[t].active}}
                \cup (IF calling # NoCall /\ ~calling.repeating THEN {calling.ref} ELSE {})
    /\ \A s, t \in Slots : timers[s].active /\ timers[t].active /\ s # t =>
            timers[s].id # timers[t].id /\ timers[s].ref # timers[t].ref
    /\ \A s \in Slots : timers[s].active /\ calling # NoCall /\ ~calling.repeating =>
            timers[s].ref # calling.ref

(* A timer fires when its delay has passed, or would have but for the      *)
(* length of the frame in whose update it was scheduled, and never once it *)
(* was cancelled, was cleared or has fired as a one-shot.                  *)
FiresOnTime ==
    [][calling' # calling /\ calling' # NoCall =>
            /\ calling'.id \notin done
            /\ timers[at].passed + timers[at].credit >= timers[at].interval]_vars

(* A timer fires or is gone, in the end, if frames take time.              *)
Waiting(id) == \E s \in Slots : timers[s].active /\ timers[s].id = id
EveryTimerFires == \A id \in 1 .. MaxId : Waiting(id) ~> (calling.id = id \/ ~Waiting(id))

=============================================================================
