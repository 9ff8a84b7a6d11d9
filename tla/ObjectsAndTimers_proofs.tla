----------------------- MODULE ObjectsAndTimers_proofs -----------------------
(***************************************************************************)
(* What is proved of the objects of a scene: of the object collection and  *)
(* its loops (ObjectCollection), and of the timers of an object (Timer).   *)
(***************************************************************************)
EXTENDS ObjectCollection, Timer, SequenceTheorems, WellFoundedInduction, TLAPS

(* Ids are given once: those in use are older than the next one and none   *)
(* of them has been withdrawn.                                             *)
Numbered ==
    /\ \A s \in Slots : timers[s].active =>
            timers[s].id >= 1 /\ timers[s].id < nextId /\ timers[s].id \notin done
    /\ \A id \in done : id < nextId

(* Callbacks run inside an update, and timers exist with a Lua state.      *)
LoopState ==
    /\ at = 0 => dt = 0 /\ calling = NoCall
    /\ calling # NoCall => live
    /\ ~live => \A s \in Slots : ~timers[s].active

(* The time of the frame that the loop has still to add to slot s.         *)
Ahead(s) == s > at \/ (s = at /\ calling = NoCall)
ToCome(s) == IF Ahead(s) THEN dt ELSE 0

(* The time a slot has counted, with what is to come, is no more than what *)
(* has passed for its timer, unless the delay is over.                     *)
InTime ==
    \A s \in Slots : timers[s].active =>
        /\ timers[s].passed <= timers[s].interval
        /\ \/ timers[s].passed + timers[s].credit >= timers[s].interval
           \/ timers[s].elapsed + ToCome(s) <= timers[s].passed + timers[s].credit

(* RefsMatch, reference by reference.                                      *)
Owns(s, r) == timers[s].active /\ timers[s].ref = r
CallOwns(r) == calling # NoCall /\ ~calling.repeating /\ calling.ref = r

Matched ==
    /\ \A r : r \in held <=> CallOwns(r) \/ \E s \in Slots : Owns(s, r)
    /\ \A s, t \in Slots : timers[s].active /\ timers[t].active /\ s # t =>
            timers[s].id # timers[t].id /\ timers[s].ref # timers[t].ref
    /\ \A s \in Slots, r \in held : Owns(s, r) => ~CallOwns(r)

IInv == TypeOK /\ Numbered /\ LoopState /\ InTime /\ Matched

LEMMA MatchedMatches == Matched => RefsMatch
<1> SUFFICES ASSUME Matched PROVE RefsMatch
  OBVIOUS
<1>1. held = {timers[s].ref : s \in {t \in Slots : timers[t].active}}
                \cup (IF calling # NoCall /\ ~calling.repeating THEN {calling.ref} ELSE {})
  BY DEF Matched, CallOwns, Owns
<1>2. \A s \in Slots : timers[s].active /\ calling # NoCall /\ ~calling.repeating =>
            timers[s].ref # calling.ref
  BY DEF Matched, CallOwns, Owns
<1> QED
  BY <1>1, <1>2 DEF RefsMatch, Matched

-----------------------------------------------------------------------------
(* Initially no slot is taken.                                             *)
LEMMA InitIInv == Init => IInv
<1> SUFFICES ASSUME Init PROVE IInv
  OBVIOUS
<1> USE TimerAssumption DEF Init
<1>1. TypeOK
  <2>1. Free \in Entry
    BY DEF Free, Entry
  <2>2. NoCall \in [id : 0 .. MaxId, ref : Refs \cup {0}, repeating : BOOLEAN]
    BY DEF NoCall
  <2>3. /\ timers \in [Slots -> Entry]
        /\ nextId \in 1 .. MaxId + 1
        /\ at \in 0 .. MaxTimers
    BY <2>1
  <2> QED
    BY <2>2, <2>3 DEF TypeOK
<1>2. Numbered /\ LoopState /\ InTime
  BY DEF Numbered, LoopState, InTime, Free
<1>3. Matched
  BY DEF Matched, Owns, CallOwns, Free
<1> QED
  BY <1>1, <1>2, <1>3 DEF IInv


-----------------------------------------------------------------------------
(* A timer is scheduled in a free slot, for a reference that nobody holds. *)
LEMMA ScheduleStep ==
    ASSUME IInv, NEW seconds \in Intervals, NEW repeating \in BOOLEAN,
           Schedule(seconds, repeating)
    PROVE  IInv'
<1> USE TimerAssumption DEF IInv
<1>1. PICK s \in Slots, r \in Refs \ held :
        /\ ~timers[s].active
        /\ timers' = [timers EXCEPT ![s] =
                [active |-> TRUE, id |-> nextId, ref |-> r, interval |-> seconds,
                 elapsed |-> 0, repeating |-> repeating,
                 passed |-> 0, credit |-> IF s > at THEN dt ELSE 0]]
        /\ held' = held \cup {r}
  BY DEF Schedule
<1>2. /\ nextId <= MaxId /\ nextId' = nextId + 1 /\ live' = TRUE
      /\ UNCHANGED <<at, dt, calling, done>>
  BY DEF Schedule
<1> DEFINE new == timers'[s]
<1>3. /\ timers \in [Slots -> Entry] /\ nextId \in 1 .. MaxId + 1 /\ dt \in Nat
      /\ at \in 0 .. MaxTimers /\ held \subseteq Refs
  BY DEF TypeOK
<1>4. /\ new.active /\ new.id = nextId /\ new.ref = r /\ new.interval = seconds
      /\ new.elapsed = 0 /\ new.passed = 0
      /\ new.credit = IF s > at THEN dt ELSE 0
      /\ \A t \in Slots : t # s => timers'[t] = timers[t]
  BY <1>1, <1>3
<1>5. new \in Entry
  BY <1>1, <1>2, <1>3 DEF Entry
<1>6. TypeOK'
  <2>1. timers' \in [Slots -> Entry]
    BY <1>1, <1>3, <1>5
  <2>2. held' \subseteq Refs
    BY <1>1, <1>3
  <2>3. nextId' \in 1 .. MaxId + 1
    BY <1>2, <1>3
  <2> QED
    BY <2>1, <2>2, <2>3, <1>2 DEF TypeOK
<1>7. Numbered'
  <2>1. nextId \notin done
    BY <1>3 DEF Numbered
  <2>2. \A t \in Slots : timers[t].id \in Nat
    BY <1>3 DEF Entry
  <2>3. \A id \in done : id \in Nat
    BY DEF TypeOK
  <2> QED
    BY <1>2, <1>3, <1>4, <2>1, <2>2, <2>3 DEF Numbered
<1>8. LoopState'
  BY <1>2 DEF LoopState
<1>9. InTime'
  <2>1. \A t \in Slots : ToCome(t)' = ToCome(t)
    BY <1>2 DEF ToCome, Ahead
  <2>2. ToCome(s) <= IF s > at THEN dt ELSE 0
    <3>1. CASE s > at
      BY <3>1, <1>3 DEF ToCome, Ahead
    <3>2. CASE ~(s > at)
      <4>1. ~Ahead(s)
        <5>1. CASE s = at
          <6>1. calling # NoCall
            BY <5>1 DEF Schedule, Script, Slots
          <6> QED
            BY <3>2, <6>1 DEF Ahead
        <5> QED
          BY <3>2, <5>1 DEF Ahead
      <4> QED
        BY <3>2, <4>1 DEF ToCome
    <3> QED
      BY <3>1, <3>2
  <2>3. ToCome(s) \in Nat
    BY <1>3 DEF ToCome
  <2>4. \A t \in Slots : t # s => timers'[t] = timers[t] /\ ToCome(t)' = ToCome(t)
    BY <1>4, <2>1
  <2>5. ASSUME NEW t \in Slots, timers'[t].active
        PROVE  /\ timers'[t].passed <= timers'[t].interval
               /\ \/ timers'[t].passed + timers'[t].credit >= timers'[t].interval
                  \/ timers'[t].elapsed + ToCome(t)' <= timers'[t].passed + timers'[t].credit
    <3>1. CASE t = s
      BY <3>1, <1>3, <1>4, <2>1, <2>2, <2>3
    <3>2. CASE t # s
      BY <3>2, <2>4, <2>5 DEF InTime
    <3> QED
      BY <3>1, <3>2
  <2> QED
    BY <2>5 DEF InTime
<1>10. Matched'
  <2>1. /\ \A q : q \in held <=> CallOwns(q) \/ \E t \in Slots : Owns(t, q)
        /\ \A t, u \in Slots : timers[t].active /\ timers[u].active /\ t # u =>
                timers[t].id # timers[u].id /\ timers[t].ref # timers[u].ref
        /\ \A t \in Slots, q \in held : Owns(t, q) => ~CallOwns(q)
    BY DEF Matched
  <2>2. \A q : CallOwns(q)' <=> CallOwns(q)
    BY <1>2 DEF CallOwns
  <2>3. \A q, t : t \in Slots => (Owns(t, q)' <=> (IF t = s THEN q = r ELSE Owns(t, q)))
    BY <1>4 DEF Owns
  <2>4. \A q : q \in held' <=> CallOwns(q)' \/ \E t \in Slots : Owns(t, q)'
    BY <1>1, <2>1, <2>2, <2>3 DEF Owns
  <2>5. \A t \in Slots : timers[t].active => timers[t].id < nextId /\ timers[t].ref # r
    BY <1>1, <2>1 DEF Numbered, Owns
  <2>6. \A t \in Slots : timers[t].id \in Nat
    BY <1>3 DEF Entry
  <2>7. \A t, u \in Slots : timers'[t].active /\ timers'[u].active /\ t # u =>
                timers'[t].id # timers'[u].id /\ timers'[t].ref # timers'[u].ref
    BY <1>3, <1>4, <2>1, <2>5, <2>6
  <2>8. \A t \in Slots, q \in held' : Owns(t, q)' => ~CallOwns(q)'
    BY <1>1, <2>1, <2>2, <2>3
  <2> QED
    BY <2>4, <2>7, <2>8 DEF Matched
<1> QED
  BY <1>6, <1>7, <1>8, <1>9, <1>10

(* A slot that is given up is free.                                        *)
LEMMA GivenUpIsFree ==
    ASSUME NEW e \in Nat
    PROVE  GivenUp(e) \in Entry /\ ~GivenUp(e).active
<1>1. Free \in Entry /\ ~Free.active
  BY TimerAssumption DEF Free, Entry
<1>2. GivenUp(e) = [Free EXCEPT !.elapsed = e]
  BY DEF GivenUp
<1>3. [Free EXCEPT !.elapsed = e] \in Entry
  BY <1>1 DEF Entry
<1>4. [Free EXCEPT !.elapsed = e].active = Free.active
  BY DEF Free
<1> QED
  BY <1>1, <1>2, <1>3, <1>4

(* A timer that leaves its slot, with its reference given back or left to  *)
(* the callback that is about to run, leaves the rest matched.             *)
LEMMA CancelStep ==
    ASSUME IInv, NEW id \in 1 .. MaxId, Cancel(id)
    PROVE  IInv'
<1> USE TimerAssumption DEF IInv
<1>1. PICK s \in Slots :
        /\ timers[s].active /\ timers[s].id = id
        /\ timers' = [timers EXCEPT ![s] = GivenUp(@.elapsed)]
        /\ held' = IF live THEN held \ {timers[s].ref} ELSE held
  BY DEF Cancel
<1>2. done' = done \cup {id} /\ UNCHANGED <<nextId, live, at, dt, calling>>
  BY DEF Cancel
<1>3. /\ timers \in [Slots -> Entry] /\ nextId \in 1 .. MaxId + 1 /\ dt \in Nat
      /\ timers[s] \in Entry /\ live
  BY <1>1 DEF TypeOK, LoopState
<1>4. timers[s].elapsed \in Nat
  BY <1>3 DEF Entry
<1>5. /\ GivenUp(timers[s].elapsed) \in Entry
      /\ ~GivenUp(timers[s].elapsed).active
  BY <1>4, GivenUpIsFree
<1>6. /\ timers'[s] = GivenUp(timers[s].elapsed)
      /\ \A t \in Slots : t # s => timers'[t] = timers[t]
      /\ timers' \in [Slots -> Entry]
  BY <1>1, <1>3, <1>5
<1>7. TypeOK'
  BY <1>1, <1>2, <1>6 DEF TypeOK
<1>8. \A t \in Slots : timers'[t].active =>
        t # s /\ timers[t].active /\ timers'[t] = timers[t]
  BY <1>5, <1>6
<1>9. Numbered'
  <2>1. \A t \in Slots : timers[t].active /\ t # s => timers[t].id # id
    BY <1>1 DEF Matched
  <2>2. id < nextId
    BY <1>1 DEF Numbered
  <2> QED
    BY <1>2, <1>8, <2>1, <2>2 DEF Numbered
<1>10. LoopState'
  BY <1>2, <1>8 DEF LoopState
<1>11. InTime'
  <2>1. \A t \in Slots : ToCome(t)' = ToCome(t)
    BY <1>2 DEF ToCome, Ahead
  <2> QED
    BY <1>8, <2>1 DEF InTime
<1>12. Matched'
  <2>1. \A q : CallOwns(q)' <=> CallOwns(q)
    BY <1>2 DEF CallOwns
  <2>2. \A t \in Slots : \A q : Owns(t, q)' <=> t # s /\ Owns(t, q)
    BY <1>5, <1>6 DEF Owns
  <2>3. Owns(s, timers[s].ref) /\ held' = held \ {timers[s].ref}
    BY <1>1, <1>3 DEF Owns
  <2>4. \A q : q \in held' <=> CallOwns(q)' \/ \E t \in Slots : Owns(t, q)'
    BY <1>1, <2>1, <2>2, <2>3 DEF Matched, Owns
  <2>5. \A t, u \in Slots : timers'[t].active /\ timers'[u].active /\ t # u =>
            timers'[t].id # timers'[u].id /\ timers'[t].ref # timers'[u].ref
    BY <1>8 DEF Matched
  <2>6. \A t \in Slots, q \in held' : Owns(t, q)' => ~CallOwns(q)'
    BY <2>1, <2>2, <2>3 DEF Matched
  <2> QED
    BY <2>4, <2>5, <2>6 DEF Matched
<1> QED
  BY <1>7, <1>9, <1>10, <1>11, <1>12

(* A clear leaves nothing in the slots and nothing held.                   *)
LEMMA ClearStep == ASSUME IInv, ClearTimers PROVE IInv'
<1> USE TimerAssumption DEF IInv
<1>1. /\ at = 0 /\ live' = FALSE
      /\ UNCHANGED <<nextId, at, dt, calling>>
      /\ calling = NoCall /\ dt = 0
  BY DEF ClearTimers, LoopState
<1>2. /\ GivenUp(0) \in Entry
      /\ ~GivenUp(0).active
  BY GivenUpIsFree
<1>3. timers' \in [Slots -> Entry] /\ \A s \in Slots : ~timers'[s].active
  <2>1. CASE live
    <3>1. timers' = [s \in Slots |-> GivenUp(0)]
      BY <2>1 DEF ClearTimers
    <3> QED
      BY <3>1, <1>2
  <2>2. CASE ~live
    <3>1. timers' = timers
      BY <2>2 DEF ClearTimers
    <3> QED
      BY <2>2, <3>1 DEF LoopState, TypeOK
  <2> QED
    BY <2>1, <2>2
<1>4. \A q : ~CallOwns(q)
  BY <1>1 DEF CallOwns
<1>5. held' = {}
  <2>1. \A q \in held : \E s \in Slots : Owns(s, q)
    BY <1>4 DEF Matched
  <2>2. CASE live
    BY <2>1, <2>2 DEF ClearTimers, Owns
  <2>3. CASE ~live
    BY <2>1, <2>3 DEF ClearTimers, Owns, LoopState
  <2> QED
    BY <2>2, <2>3
<1>6. /\ done' \in SUBSET (1 .. MaxId)
      /\ \A id \in done' : id < nextId
  <2>1. \A id \in done' : id \in done \/ \E s \in Slots : timers[s].active /\ id = timers[s].id
    BY DEF ClearTimers
  <2>2. \A s \in Slots : timers[s].active => timers[s].id \in 1 .. MaxId /\ timers[s].id < nextId
    <3>1. \A s \in Slots : timers[s].id \in 0 .. MaxId
      BY DEF TypeOK, Entry
    <3> QED
      BY <3>1 DEF Numbered
  <2>3. /\ \A id \in done : id \in 1 .. MaxId /\ id < nextId
    BY DEF TypeOK, Numbered
  <2> QED
    BY <2>1, <2>2, <2>3
<1>7. TypeOK'
  BY <1>1, <1>3, <1>5, <1>6 DEF TypeOK
<1>8. Numbered' /\ LoopState' /\ InTime'
  BY <1>1, <1>3, <1>6 DEF Numbered, LoopState, InTime
<1>9. Matched'
  <2>1. \A q : ~CallOwns(q)'
    BY <1>1, <1>4 DEF CallOwns
  <2>2. \A s \in Slots : \A q : ~Owns(s, q)'
    BY <1>3 DEF Owns
  <2> QED
    BY <1>3, <1>5, <2>1, <2>2 DEF Matched
<1> QED
  BY <1>7, <1>8, <1>9

-----------------------------------------------------------------------------
(* A frame begins with the loop before the first slot: what is to come is  *)
(* the time that has passed.                                               *)
LEMMA BeginStep == ASSUME IInv, NEW d \in Dts, BeginUpdate(d) PROVE IInv'
<1> USE TimerAssumption DEF IInv
<1>1. /\ at = 0 /\ live /\ at' = 1 /\ dt' = d /\ d \in Nat /\ dt = 0
      /\ calling = NoCall
      /\ UNCHANGED <<nextId, live, calling, held, done>>
      /\ timers' = [s \in Slots |->
            IF timers[s].active
            THEN [timers[s] EXCEPT !.passed = AtMost(@ + d, timers[s].interval)]
            ELSE timers[s]]
  BY DEF BeginUpdate, LoopState
<1>2. /\ timers \in [Slots -> Entry]
      /\ \A s \in Slots : /\ timers[s] \in Entry
                          /\ timers[s].passed \in Nat /\ timers[s].interval \in Nat
                          /\ timers[s].elapsed \in Nat /\ timers[s].credit \in Nat
  BY DEF TypeOK, Entry
<1>3. ASSUME NEW s \in Slots
      PROVE  /\ timers'[s] \in Entry
             /\ timers'[s].active = timers[s].active /\ timers'[s].id = timers[s].id
             /\ timers'[s].ref = timers[s].ref /\ timers'[s].interval = timers[s].interval
             /\ timers'[s].elapsed = timers[s].elapsed /\ timers'[s].credit = timers[s].credit
             /\ timers[s].active =>
                    timers'[s].passed = AtMost(timers[s].passed + d, timers[s].interval)
  <2>1. AtMost(timers[s].passed + d, timers[s].interval) \in Nat
    BY <1>1, <1>2 DEF AtMost
  <2>2. timers[s] \in Entry
    BY <1>2
  <2> QED
    BY <1>1, <2>1, <2>2 DEF Entry
<1>4. TypeOK'
  <2>1. timers' \in [Slots -> Entry]
    BY <1>1, <1>3
  <2> QED
    BY <1>1, <2>1 DEF TypeOK
<1>5. Numbered' /\ LoopState'
  BY <1>1, <1>3 DEF Numbered, LoopState
<1>6. InTime'
  <2>1. \A s \in Slots : ToCome(s)' = d /\ ToCome(s) = 0
    BY <1>1 DEF ToCome, Ahead, Slots
  <2>2. ASSUME NEW s \in Slots, timers[s].active
        PROVE  /\ timers'[s].passed <= timers'[s].interval
               /\ \/ timers'[s].passed + timers'[s].credit >= timers'[s].interval
                  \/ timers'[s].elapsed + d <= timers'[s].passed + timers'[s].credit
    <3>1. /\ timers[s].passed <= timers[s].interval
          /\ \/ timers[s].passed + timers[s].credit >= timers[s].interval
             \/ timers[s].elapsed <= timers[s].passed + timers[s].credit
      BY <1>2, <2>1, <2>2 DEF InTime
    <3>2. timers'[s].passed = IF timers[s].passed + d < timers[s].interval
                              THEN timers[s].passed + d ELSE timers[s].interval
      BY <1>3, <2>2 DEF AtMost
    <3> QED
      BY <1>1, <1>2, <1>3, <3>1, <3>2
  <2> QED
    BY <1>3, <2>1, <2>2 DEF InTime
<1>7. Matched'
  <2>1. \A q : CallOwns(q)' <=> CallOwns(q)
    BY <1>1 DEF CallOwns
  <2>2. \A s \in Slots : \A q : Owns(s, q)' <=> Owns(s, q)
    BY <1>3 DEF Owns
  <2> QED
    BY <1>1, <1>3, <2>1, <2>2 DEF Matched
<1> QED
  BY <1>4, <1>5, <1>6, <1>7

(* The loop moves on: what was to come for the slot behind it has come.    *)
LEMMA AdvanceToCome ==
    ASSUME TypeOK, at \in Slots, Advance(at), calling' = NoCall
    PROVE  /\ at' \in 0 .. MaxTimers /\ dt' \in Nat
           /\ at' = 0 => dt' = 0
           /\ \A t \in Slots : t # at => ToCome(t)' = ToCome(t)
           /\ \A t \in Slots : t = at => ToCome(t)' = 0
<1> USE TimerAssumption DEF Slots
<1>1. dt \in Nat
  BY DEF TypeOK
<1>2. CASE at = MaxTimers
  <2>1. at' = 0 /\ dt' = 0
    BY <1>2 DEF Advance
  <2>2. \A t : ToCome(t)' = 0
    BY <2>1 DEF ToCome
  <2>3. \A t \in Slots : t # at => ToCome(t) = 0
    BY <1>2 DEF ToCome, Ahead
  <2> QED
    BY <2>1, <2>2, <2>3
<1>3. CASE at # MaxTimers
  <2>1. at' = at + 1 /\ dt' = dt
    BY <1>3 DEF Advance
  <2>2. \A t \in Slots : Ahead(t)' <=> t > at
    BY <2>1 DEF Ahead
  <2>3. \A t \in Slots : t # at => (Ahead(t)' <=> Ahead(t))
    BY <2>2 DEF Ahead
  <2>4. \A t \in Slots : t = at => ~Ahead(t)'
    BY <2>2
  <2> QED
    BY <1>1, <1>3, <2>1, <2>3, <2>4 DEF ToCome
<1> QED
  BY <1>2, <1>3

(* The slot the loop is at counts the frame, if it holds a timer.          *)
LEMMA PassStep == ASSUME IInv, Pass PROVE IInv'
<1> USE TimerAssumption DEF IInv
<1>1. /\ at \in Slots /\ calling = NoCall /\ calling' = NoCall
      /\ Advance(at)
      /\ UNCHANGED <<nextId, live, calling, held, done>>
      /\ timers' = [timers EXCEPT ![at].elapsed = IF timers[at].active THEN @ + dt ELSE @]
  BY DEF Pass, Turn
<1>2. /\ timers \in [Slots -> Entry] /\ dt \in Nat
      /\ timers[at] \in Entry
  BY <1>1 DEF TypeOK
<1>3. timers[at].elapsed \in Nat
  BY <1>2 DEF Entry
<1> DEFINE new == timers'[at]
<1>4. /\ new \in Entry
      /\ new.elapsed = IF timers[at].active THEN timers[at].elapsed + dt ELSE timers[at].elapsed
      /\ new.active = timers[at].active /\ new.id = timers[at].id /\ new.ref = timers[at].ref
      /\ new.interval = timers[at].interval /\ new.passed = timers[at].passed
      /\ new.credit = timers[at].credit
  BY <1>1, <1>2, <1>3 DEF Entry
<1>5. \A t \in Slots : t # at => timers'[t] = timers[t]
  BY <1>1, <1>2
<1>6. /\ at' \in 0 .. MaxTimers /\ dt' \in Nat
      /\ at' = 0 => dt' = 0
      /\ \A t \in Slots : t # at => ToCome(t)' = ToCome(t)
      /\ \A t \in Slots : t = at => ToCome(t)' = 0
  BY <1>1, AdvanceToCome
<1>7. \A t \in Slots : /\ timers'[t].active = timers[t].active /\ timers'[t].id = timers[t].id
                       /\ timers'[t].ref = timers[t].ref
  BY <1>4, <1>5
<1>8. TypeOK'
  <2>1. timers' \in [Slots -> Entry]
    BY <1>1, <1>2, <1>4
  <2> QED
    BY <1>1, <1>6, <2>1 DEF TypeOK
<1>9. Numbered' /\ LoopState'
  BY <1>1, <1>6, <1>7 DEF Numbered, LoopState
<1>10. InTime'
  <2>1. ToCome(at) = dt
    BY <1>1 DEF ToCome, Ahead
  <2>2. ASSUME NEW t \in Slots, timers'[t].active
        PROVE  /\ timers'[t].passed <= timers'[t].interval
               /\ \/ timers'[t].passed + timers'[t].credit >= timers'[t].interval
                  \/ timers'[t].elapsed + ToCome(t)' <= timers'[t].passed + timers'[t].credit
    <3>1. CASE t = at
      <4>1. /\ timers[at].active
            /\ timers[at].passed <= timers[at].interval
            /\ \/ timers[at].passed + timers[at].credit >= timers[at].interval
               \/ timers[at].elapsed + dt <= timers[at].passed + timers[at].credit
        BY <1>7, <2>1, <2>2, <3>1 DEF InTime
      <4>2. ToCome(t)' = 0
        BY <1>6, <3>1
      <4>3. timers[at].passed \in Nat /\ timers[at].credit \in Nat /\ timers[at].interval \in Nat
        BY <1>2 DEF Entry
      <4> QED
        BY <1>2, <1>3, <1>4, <3>1, <4>1, <4>2, <4>3
    <3>2. CASE t # at
      BY <1>5, <1>6, <2>2, <3>2 DEF InTime
    <3> QED
      BY <3>1, <3>2
  <2> QED
    BY <2>2 DEF InTime
<1>11. Matched'
  <2>1. \A q : CallOwns(q)' <=> CallOwns(q)
    BY <1>1 DEF CallOwns
  <2>2. \A t \in Slots : \A q : Owns(t, q)' <=> Owns(t, q)
    BY <1>7 DEF Owns
  <2> QED
    BY <1>1, <1>7, <2>1, <2>2 DEF Matched
<1> QED
  BY <1>8, <1>9, <1>10, <1>11

(* A one-shot timer hands its reference to the callback; a repeating one   *)
(* keeps it and starts from zero.                                          *)
LEMMA FireStep == ASSUME IInv, Fire PROVE IInv'
<1> USE TimerAssumption DEF IInv
<1>1. /\ at \in Slots /\ calling = NoCall /\ timers[at].active
      /\ timers' = [timers EXCEPT ![at] =
            IF @.repeating THEN [@ EXCEPT !.elapsed = 0, !.passed = 0, !.credit = 0]
            ELSE GivenUp(@.elapsed + dt)]
      /\ calling' = [id |-> timers[at].id, ref |-> timers[at].ref,
                     repeating |-> timers[at].repeating]
      /\ done' = IF timers[at].repeating THEN done ELSE done \cup {timers[at].id}
      /\ UNCHANGED <<nextId, live, at, dt, held>>
  BY DEF Fire, Turn
<1>2. /\ timers \in [Slots -> Entry] /\ dt \in Nat
      /\ timers[at] \in Entry
  BY <1>1 DEF TypeOK
<1>3. /\ timers[at].elapsed + dt \in Nat /\ timers[at].id \in 0 .. MaxId
      /\ timers[at].ref \in Refs \cup {0} /\ timers[at].repeating \in BOOLEAN
      /\ timers[at].interval \in Nat
  BY <1>2 DEF Entry
<1>4. timers[at].id >= 1 /\ timers[at].id < nextId /\ timers[at].id \notin done /\ live
  BY <1>1 DEF Numbered, LoopState
<1>5. calling' # NoCall /\ calling'.ref = timers[at].ref
      /\ calling'.repeating = timers[at].repeating
  BY <1>1, <1>3, <1>4 DEF NoCall
<1>6. \A t \in Slots : t # at => timers'[t] = timers[t]
  BY <1>1, <1>2
<1>7. /\ timers'[at] \in Entry
      /\ timers'[at].active = timers[at].repeating
      /\ timers[at].repeating =>
            /\ timers'[at].id = timers[at].id /\ timers'[at].ref = timers[at].ref
            /\ timers'[at].interval = timers[at].interval
            /\ timers'[at].elapsed = 0 /\ timers'[at].passed = 0 /\ timers'[at].credit = 0
  <2>1. CASE timers[at].repeating
    <3>1. timers'[at] = [timers[at] EXCEPT !.elapsed = 0, !.passed = 0, !.credit = 0]
      BY <1>1, <1>2, <2>1
    <3> QED
      BY <1>1, <1>2, <2>1, <3>1 DEF Entry
  <2>2. CASE ~timers[at].repeating
    <3>1. timers'[at] = GivenUp(timers[at].elapsed + dt)
      BY <1>1, <1>2, <2>2
    <3>2. GivenUp(timers[at].elapsed + dt) \in Entry /\ ~GivenUp(timers[at].elapsed + dt).active
      BY <1>3, GivenUpIsFree
    <3>3. timers'[at].active \in BOOLEAN
      BY <3>1, <3>2 DEF Entry
    <3> QED
      BY <1>3, <2>2, <3>1, <3>2, <3>3
  <2> QED
    BY <2>1, <2>2
<1>8. TypeOK'
  <2>1. timers' \in [Slots -> Entry]
    BY <1>1, <1>2, <1>7
  <2>2. calling' \in [id : 0 .. MaxId, ref : Refs \cup {0}, repeating : BOOLEAN]
    BY <1>1, <1>3
  <2>3. done' \in SUBSET (1 .. MaxId)
    BY <1>1, <1>3, <1>4 DEF TypeOK
  <2> QED
    BY <1>1, <2>1, <2>2, <2>3 DEF TypeOK
<1>9. \A t \in Slots : timers'[t].active =>
        /\ timers[t].active /\ timers'[t].id = timers[t].id /\ timers'[t].ref = timers[t].ref
        /\ t = at => timers[at].repeating
  BY <1>1, <1>6, <1>7
<1>10. Numbered'
  <2>1. \A t \in Slots : timers[t].active /\ t # at => timers[t].id # timers[at].id
    BY <1>1 DEF Matched
  <2>2. \A id \in done' : id < nextId
    BY <1>1, <1>4 DEF Numbered
  <2>3. \A t \in Slots : timers'[t].active =>
            timers[t].id >= 1 /\ timers[t].id < nextId /\ timers[t].id \notin done'
    BY <1>1, <1>9, <2>1 DEF Numbered
  <2> QED
    BY <1>1, <1>9, <2>2, <2>3 DEF Numbered
<1>11. LoopState'
  BY <1>1, <1>4 DEF LoopState, Slots
<1>12. InTime'
  <2>1. \A t \in Slots : t # at => ToCome(t)' = ToCome(t)
    BY <1>1 DEF ToCome, Ahead
  <2>2. \A t \in Slots : t = at => ToCome(t)' = 0
    BY <1>1, <1>5 DEF ToCome, Ahead, Slots
  <2>3. ASSUME NEW t \in Slots, timers'[t].active
        PROVE  /\ timers'[t].passed <= timers'[t].interval
               /\ \/ timers'[t].passed + timers'[t].credit >= timers'[t].interval
                  \/ timers'[t].elapsed + ToCome(t)' <= timers'[t].passed + timers'[t].credit
    <3>1. CASE t = at
      BY <1>3, <1>7, <1>9, <2>2, <2>3, <3>1
    <3>2. CASE t # at
      BY <1>6, <2>1, <2>3, <3>2 DEF InTime
    <3> QED
      BY <3>1, <3>2
  <2> QED
    BY <2>3 DEF InTime
<1>13. Matched'
  <2>1. \A q : ~CallOwns(q)
    BY <1>1 DEF CallOwns
  <2>2. \A q : CallOwns(q)' <=> ~timers[at].repeating /\ timers[at].ref = q
    BY <1>5 DEF CallOwns
  <2>3. \A t \in Slots : \A q : Owns(t, q)' <=> Owns(t, q) /\ (t = at => timers[at].repeating)
    BY <1>1, <1>6, <1>7 DEF Owns
  <2>4. Owns(at, timers[at].ref)
    BY <1>1 DEF Owns
  <2>5. \A q : q \in held' <=> CallOwns(q)' \/ \E t \in Slots : Owns(t, q)'
    BY <1>1, <2>1, <2>2, <2>3, <2>4 DEF Matched, Owns
  <2>6. \A t, u \in Slots : timers'[t].active /\ timers'[u].active /\ t # u =>
            timers'[t].id # timers'[u].id /\ timers'[t].ref # timers'[u].ref
    BY <1>9 DEF Matched
  <2>7. \A t \in Slots, q \in held' : Owns(t, q)' => ~CallOwns(q)'
    <3>1. \A t \in Slots : t # at /\ timers[t].active => timers[t].ref # timers[at].ref
      BY <1>1 DEF Matched
    <3> QED
      BY <2>2, <2>3, <3>1 DEF Owns
  <2> QED
    BY <2>5, <2>6, <2>7 DEF Matched
<1> QED
  BY <1>8, <1>10, <1>11, <1>12, <1>13

(* The callback returns: its one-shot timer is gone, and the reference with*)
(* it.                                                                     *)
LEMMA ReturnStep == ASSUME IInv, CallbackReturns PROVE IInv'
<1> USE TimerAssumption DEF IInv
<1>1. /\ calling # NoCall /\ calling' = NoCall /\ live
      /\ held' = IF ~calling.repeating THEN held \ {calling.ref} ELSE held
      /\ Advance(at)
      /\ UNCHANGED <<timers, nextId, live, done>>
  BY DEF CallbackReturns, LoopState
<1>2. at \in Slots
  BY <1>1 DEF LoopState, TypeOK, Slots
<1>3. /\ at' \in 0 .. MaxTimers /\ dt' \in Nat
      /\ at' = 0 => dt' = 0
      /\ \A t \in Slots : t # at => ToCome(t)' = ToCome(t)
      /\ \A t \in Slots : t = at => ToCome(t)' = 0
  BY <1>1, <1>2, AdvanceToCome
<1>4. TypeOK'
  <2>1. calling' \in [id : 0 .. MaxId, ref : Refs \cup {0}, repeating : BOOLEAN]
    BY <1>1 DEF NoCall
  <2>2. held' \subseteq Refs
    BY <1>1 DEF TypeOK
  <2> QED
    BY <1>1, <1>3, <2>1, <2>2 DEF TypeOK
<1>5. Numbered' /\ LoopState'
  BY <1>1, <1>3 DEF Numbered, LoopState
<1>6. InTime'
  <2>1. ToCome(at) = 0
    BY <1>1, <1>2 DEF ToCome, Ahead, Slots
  <2>2. \A t \in Slots : ToCome(t)' = ToCome(t)
    BY <1>3, <2>1
  <2> QED
    BY <1>1, <2>2 DEF InTime
<1>7. Matched'
  <2>1. \A q : ~CallOwns(q)'
    BY <1>1 DEF CallOwns
  <2>2. \A q : CallOwns(q) <=> ~calling.repeating /\ calling.ref = q
    BY <1>1 DEF CallOwns
  <2>3. \A t \in Slots : \A q : Owns(t, q)' <=> Owns(t, q)
    BY <1>1 DEF Owns
  <2>4. \A q : q \in held' <=> q \in held /\ ~CallOwns(q)
    BY <1>1, <2>2
  <2>5. \A q : q \in held' <=> CallOwns(q)' \/ \E t \in Slots : Owns(t, q)'
    BY <2>1, <2>3, <2>4 DEF Matched
  <2> QED
    BY <1>1, <2>1, <2>5 DEF Matched
<1> QED
  BY <1>4, <1>5, <1>6, <1>7

-----------------------------------------------------------------------------
LEMMA StepIInv == IInv /\ [Next]_vars => IInv'
<1> SUFFICES ASSUME IInv, [Next]_vars PROVE IInv'
  OBVIOUS
<1>1. ASSUME NEW seconds \in Intervals, NEW repeating \in BOOLEAN, Schedule(seconds, repeating)
      PROVE  IInv'
  BY <1>1, ScheduleStep
<1>2. CASE ScheduleFull
  <2>1. UNCHANGED <<timers, nextId, at, dt, calling, held, done>> /\ live' = TRUE
    BY <1>2 DEF ScheduleFull
  <2>2. TypeOK' /\ Numbered' /\ LoopState'
    BY <2>1 DEF IInv, TypeOK, Numbered, LoopState
  <2>3. InTime' /\ Matched'
    BY <2>1 DEF IInv, InTime, ToCome, Ahead, Matched, CallOwns, Owns
  <2> QED
    BY <2>2, <2>3 DEF IInv
<1>3. ASSUME NEW id \in 1 .. MaxId, Cancel(id) PROVE IInv'
  BY <1>3, CancelStep
<1>4. CASE ClearTimers
  BY <1>4, ClearStep
<1>5. ASSUME NEW d \in Dts, BeginUpdate(d) PROVE IInv'
  BY <1>5, BeginStep
<1>6. CASE Pass
  BY <1>6, PassStep
<1>7. CASE Fire
  BY <1>7, FireStep
<1>8. CASE CallbackReturns
  BY <1>8, ReturnStep
<1>9. CASE UNCHANGED vars
  <2>1. TypeOK' /\ Numbered' /\ LoopState'
    BY <1>9 DEF vars, IInv, TypeOK, Numbered, LoopState
  <2>2. InTime' /\ Matched'
    BY <1>9 DEF vars, IInv, InTime, ToCome, Ahead, Matched, CallOwns, Owns
  <2> QED
    BY <2>1, <2>2 DEF IInv
<1> QED
  BY <1>1, <1>2, <1>3, <1>4, <1>5, <1>6, <1>7, <1>8, <1>9 DEF Next

(* C_Timer keeps the invariant whatever the script of the object does.     *)
THEOREM Invariant == Spec => []IInv
<1>1. Init => IInv
  BY InitIInv
<1>2. IInv /\ [Next]_vars => IInv'
  BY StepIInv
<1> QED
  BY <1>1, <1>2, PTL DEF Spec

(* Every variable of a C_Timer holds a value its declaration allows.       *)
THEOREM TypeCorrect == Spec => []TypeOK
<1>1. IInv => TypeOK
  BY DEF IInv
<1> QED
  BY <1>1, Invariant, PTL

(* The references held are those of the timers and of the one-shot timer   *)
(* whose callback runs, and nobody gives back a reference of another.      *)
THEOREM RefsAreMatched == Spec => []RefsMatch
<1>1. IInv => RefsMatch
  BY MatchedMatches DEF IInv
<1> QED
  BY <1>1, Invariant, PTL

(* The timer update fires is one whose delay has passed, the frame it was  *)
(* scheduled in included, and that was not cancelled.                      *)
LEMMA FiresInTime ==
    ASSUME IInv, [Next]_vars, calling' # calling, calling' # NoCall
    PROVE  /\ calling'.id \notin done
           /\ timers[at].passed + timers[at].credit >= timers[at].interval
<1>1. Fire
  <2>1. ASSUME NEW seconds \in Intervals, NEW repeating \in BOOLEAN, Schedule(seconds, repeating)
        PROVE  FALSE
    BY <2>1 DEF Schedule
  <2>2. ASSUME NEW id \in 1 .. MaxId, Cancel(id) PROVE FALSE
    BY <2>2 DEF Cancel
  <2>3. ASSUME NEW d \in Dts, BeginUpdate(d) PROVE FALSE
    BY <2>3 DEF BeginUpdate
  <2>4. ~ScheduleFull /\ ~ClearTimers /\ ~Pass /\ ~CallbackReturns /\ ~UNCHANGED vars
    BY DEF ScheduleFull, ClearTimers, Pass, CallbackReturns, vars
  <2> QED
    BY <2>1, <2>2, <2>3, <2>4 DEF Next
<1>2. /\ at \in Slots /\ timers[at].active /\ calling = NoCall
      /\ timers[at].elapsed + dt >= timers[at].interval
      /\ calling'.id = timers[at].id
  BY <1>1 DEF Fire, Turn, Due
<1>3. calling'.id \notin done
  BY <1>2 DEF IInv, Numbered
<1>4. ToCome(at) = dt
  BY <1>2 DEF ToCome, Ahead
<1>5. /\ timers[at].passed \in Nat /\ timers[at].credit \in Nat
      /\ timers[at].interval \in Nat /\ timers[at].elapsed \in Nat /\ dt \in Nat
  BY <1>2 DEF IInv, TypeOK, Entry
<1>6. \/ timers[at].passed + timers[at].credit >= timers[at].interval
      \/ timers[at].elapsed + dt <= timers[at].passed + timers[at].credit
  BY <1>2, <1>4 DEF IInv, InTime
<1> QED
  BY <1>2, <1>3, <1>5, <1>6

(* No timer fires before its time or after it was withdrawn.               *)
THEOREM TimersFireOnTime == Spec => FiresOnTime
<1>1. IInv /\ [Next]_vars => [calling' # calling /\ calling' # NoCall =>
            /\ calling'.id \notin done
            /\ timers[at].passed + timers[at].credit >= timers[at].interval]_vars
  BY FiresInTime
<1> QED
  BY <1>1, Invariant, PTL DEF Spec, FiresOnTime

-----------------------------------------------------------------------------
(* The first of some places.                                               *)
LEMMA FirstPlace ==
    ASSUME NEW S \in SUBSET Nat, S # {}
    PROVE  \E i \in S : \A j \in S : i <= j
  <1>1. PICK i \in S : \A j \in S : ~(<<j, i>> \in OpToRel(<, Nat))
        BY NatLessThanWellFounded, WFMin
  <1>2. \A j \in S : ~(j < i)
        BY <1>1 DEF OpToRel
  <1> QED  BY <1>2

(* What goes from an array leaves its followers one place earlier.         *)
LEMMA RemovedAt ==
    ASSUME NEW S, NEW s \in Seq(S), NEW k \in DOMAIN s
    PROVE  /\ RemoveAt(s, k) \in Seq(S) /\ Len(RemoveAt(s, k)) = Len(s) - 1
           /\ DOMAIN RemoveAt(s, k) = 1 .. Len(s) - 1
           /\ \A i \in 1 .. Len(s) - 1 : RemoveAt(s, k)[i] = IF i < k THEN s[i] ELSE s[i + 1]
  <1> DEFINE a == SubSeq(s, 1, k - 1)
             b == SubSeq(s, k + 1, Len(s))
  <1>0. /\ Len(s) \in Nat /\ DOMAIN s = 1 .. Len(s) /\ \A i \in 1 .. Len(s) : s[i] \in S
        /\ k \in 1 .. Len(s)
        BY LenProperties, ElementOfSeq
  <1>1. /\ a \in Seq(S) /\ Len(a) = k - 1
        /\ \A i \in 1 .. k - 1 : a[i] = s[i]
    <2>1. k - 1 \in Int /\ 1 \in Int /\ \A i \in 1 .. k - 1 : s[i] \in S
          BY <1>0
    <2>2. /\ SubSeq(s, 1, k - 1) \in Seq(S)
          /\ Len(SubSeq(s, 1, k - 1)) = IF 1 <= k - 1 THEN k - 1 - 1 + 1 ELSE 0
          /\ \A i \in 1 .. k - 1 - 1 + 1 : SubSeq(s, 1, k - 1)[i] = s[1 + i - 1]
          BY <2>1, SubSeqProperties
    <2> QED  BY <1>0, <2>2
  <1>2. /\ b \in Seq(S) /\ Len(b) = Len(s) - k
        /\ \A i \in 1 .. Len(s) - k : b[i] = s[k + i]
    <2>1. /\ k + 1 \in Int /\ Len(s) \in Int
          /\ \A i \in k + 1 .. Len(s) : s[i] \in S
          BY <1>0
    <2>2. /\ SubSeq(s, k + 1, Len(s)) \in Seq(S)
          /\ Len(SubSeq(s, k + 1, Len(s))) =
                  IF k + 1 <= Len(s) THEN Len(s) - (k + 1) + 1 ELSE 0
          /\ \A i \in 1 .. Len(s) - (k + 1) + 1 :
                  SubSeq(s, k + 1, Len(s))[i] = s[k + 1 + i - 1]
          BY <2>1, SubSeqProperties
    <2>3. /\ Len(s) - (k + 1) + 1 = Len(s) - k
          /\ \A i \in 1 .. Len(s) - k : k + 1 + i - 1 = k + i
          BY <1>0
    <2>4. (IF k + 1 <= Len(s) THEN Len(s) - (k + 1) + 1 ELSE 0) = Len(s) - k
      <3>0. k \in Int /\ Len(s) \in Int /\ k <= Len(s)
            BY <1>0
      <3>1. ~(k + 1 <= Len(s)) => Len(s) - k = 0
            BY <3>0
      <3> QED  BY <2>3, <3>1
    <2> QED  BY <2>2, <2>3, <2>4
  <1>3. RemoveAt(s, k) = a \o b
        BY DEF RemoveAt
  <1> HIDE DEF a, b
  <1>4. /\ a \o b \in Seq(S)
        /\ Len(a \o b) = Len(a) + Len(b)
        /\ \A i \in 1 .. Len(a) + Len(b) :
                (a \o b)[i] = IF i <= Len(a) THEN a[i] ELSE b[i - Len(a)]
        BY <1>1, <1>2, ConcatProperties
  <1>5. Len(a) + Len(b) = Len(s) - 1
        BY <1>0, <1>1, <1>2
  <1>6. ASSUME NEW i \in 1 .. Len(s) - 1
        PROVE  (a \o b)[i] = IF i < k THEN s[i] ELSE s[i + 1]
    <2>1. CASE i < k
          BY <1>0, <1>1, <1>4, <1>5, <2>1
    <2>2. CASE ~(i < k)
      <3>1. i - Len(a) \in 1 .. Len(s) - k /\ k + (i - Len(a)) = i + 1
            BY <1>0, <1>1, <2>2
      <3>2. (a \o b)[i] = b[i - Len(a)]
            BY <1>0, <1>1, <1>4, <1>5, <2>2
      <3> QED  BY <1>2, <2>2, <3>1, <3>2
    <2> QED  BY <2>1, <2>2
  <1>7. DOMAIN (a \o b) = 1 .. Len(s) - 1
        BY <1>4, <1>5, LenProperties
  <1> QED  BY <1>3, <1>4, <1>5, <1>6, <1>7

-----------------------------------------------------------------------------
(* Types, and which object is where.                                       *)
ObjectRecord == [life : {"unborn", "live", "dead"}, count : 0 .. MaxComponents,
                 made : 0 .. MaxMade, active : BOOLEAN, awoken : BOOLEAN, started : BOOLEAN]

CollectionTyped ==
    /\ owned \in Seq(Objects) /\ Len(owned) <= MaxObjects
    /\ external \in Seq(Objects) /\ Len(external) <= MaxExternal
    /\ initialized \in BOOLEAN
    /\ object \in [Objects -> ObjectRecord]
    /\ slots \in [Objects -> [1 .. MaxComponents -> Components \cup {None}]]

OnePlaceEach ==
    /\ \A a, b \in DOMAIN owned : owned[a] = owned[b] => a = b
    /\ \A a, b \in DOMAIN external : external[a] = external[b] => a = b
    /\ \A a \in DOMAIN owned, b \in DOMAIN external : owned[a] # external[b]

LiveInPlace ==
    /\ \A a \in DOMAIN owned : Live(owned[a])
    /\ \A b \in DOMAIN external : Live(external[b])
    /\ \A o \in Objects : Live(o) => \/ \E a \in DOMAIN owned : owned[a] = o
                                     \/ \E b \in DOMAIN external : external[b] = o

ComponentsInPlace ==
    \A o \in Objects :
        /\ \A j \in 1 .. object[o].count : slots[o][j] \in Made(o, object[o].made)
        /\ \A i, j \in 1 .. object[o].count : slots[o][i] = slots[o][j] => i = j
        /\ ~Live(o) => object[o].made = 0 /\ object[o].count = 0

Placed == CollectionTyped /\ OnePlaceEach /\ LiveInPlace /\ ComponentsInPlace

LEMMA PlacedIsTypeOK == Placed => CollectionTypeOK
  <1> SUFFICES ASSUME Placed PROVE CollectionTypeOK
        OBVIOUS
  <1> USE Bounds DEF Placed, CollectionTyped
  <1> DEFINE m == Len(owned)
             n == Len(external)
             all == owned \o external
  <1>1. /\ m \in Nat /\ n \in Nat /\ DOMAIN owned = 1 .. m /\ DOMAIN external = 1 .. n
        /\ owned \in [1 .. m -> Objects] /\ external \in [1 .. n -> Objects]
        BY LenProperties
  <1>2. owned \in SeqOf(Objects, MaxObjects)
    <2>1. m \in 0 .. MaxObjects
          BY <1>1
    <2> QED  BY <1>1, <2>1 DEF SeqOf
  <1>3. external \in SeqOf(Objects, MaxExternal)
    <2>1. n \in 0 .. MaxExternal
          BY <1>1
    <2> QED  BY <1>1, <2>1 DEF SeqOf
  <1> HIDE DEF m, n
  <1>4. /\ all \in Seq(Objects) /\ Len(all) = m + n
        /\ \A i \in 1 .. m + n : all[i] = IF i <= m THEN owned[i] ELSE external[i - m]
        BY ConcatProperties DEF m, n
  <1>5. DOMAIN all = 1 .. m + n
        BY <1>4, LenProperties
  <1> HIDE DEF all
  <1>6. \A i \in 1 .. m + n : IF i <= m THEN i \in 1 .. m ELSE i - m \in 1 .. n
        BY <1>1
  <1>7. IsInjective(all)
    <2> SUFFICES ASSUME NEW i \in 1 .. m + n, NEW j \in 1 .. m + n, all[i] = all[j]
                 PROVE  i = j
          BY <1>5 DEF IsInjective
    <2>1. CASE i <= m /\ j <= m
          BY <1>1, <1>4, <1>6, <2>1 DEF OnePlaceEach
    <2>2. CASE ~(i <= m) /\ ~(j <= m)
      <3>1. i - m = j - m
            BY <1>1, <1>4, <1>6, <2>2 DEF OnePlaceEach
      <3> QED  BY <1>1, <3>1
    <2>3. CASE i <= m /\ ~(j <= m)
          BY <1>1, <1>4, <1>6, <2>3 DEF OnePlaceEach
    <2>4. CASE ~(i <= m) /\ j <= m
      <3>1. owned[j] # external[i - m]
            BY <1>1, <1>6, <2>4 DEF OnePlaceEach
      <3> QED  BY <1>4, <2>4, <3>1
    <2> QED  BY <2>1, <2>2, <2>3, <2>4
  <1>8. ToSet(all) = {o \in Objects : Live(o)}
    <2>1. ASSUME NEW i \in 1 .. m + n PROVE all[i] \in {o \in Objects : Live(o)}
      <3>1. CASE i <= m
            BY <1>1, <1>4, <1>6, <3>1 DEF LiveInPlace
      <3>2. CASE ~(i <= m)
            BY <1>1, <1>4, <1>6, <3>2 DEF LiveInPlace
      <3> QED  BY <3>1, <3>2
    <2>2. ASSUME NEW o \in Objects, Live(o) PROVE \E i \in 1 .. m + n : all[i] = o
      <3>1. ASSUME NEW a \in 1 .. m, owned[a] = o PROVE \E i \in 1 .. m + n : all[i] = o
        <4>1. a \in 1 .. m + n /\ a <= m
              BY <1>1
        <4> QED  BY <1>4, <3>1, <4>1
      <3>2. ASSUME NEW b \in 1 .. n, external[b] = o PROVE \E i \in 1 .. m + n : all[i] = o
        <4>1. m + b \in 1 .. m + n /\ ~(m + b <= m) /\ (m + b) - m = b
              BY <1>1
        <4>2. all[m + b] = o
              BY <1>4, <3>2, <4>1
        <4> QED  BY <4>1, <4>2
      <3> QED  BY <1>1, <2>2, <3>1, <3>2 DEF LiveInPlace
    <2> QED  BY <1>5, <2>1, <2>2 DEF ToSet
  <1>9. \A o \in Objects : object[o].count \in 0 .. MaxComponents
        BY DEF ObjectRecord
  <1> QED  BY <1>2, <1>3, <1>7, <1>8, <1>9 DEF all, CollectionTypeOK, ComponentsInPlace

-----------------------------------------------------------------------------
(* removeInactiveObjects leaves the objects that are active.               *)
Compaction(f, n) ==
    f = [m \in 0 .. n |->
            IF m = 0 THEN <<>>
            ELSE IF object[owned[m]].active THEN Append(f[m - 1], owned[m]) ELSE f[m - 1]]

LEMMA CompactionExists ==
    ASSUME NEW n \in Nat
    PROVE  \E f : Compaction(f, n)
  <1> DEFINE Missing == {m \in Nat : ~ \E f : Compaction(f, m)}
  <1>1. SUFFICES ASSUME Missing # {} PROVE FALSE
        OBVIOUS
  <1>2. PICK m \in Missing : \A j \in Missing : m <= j
        BY <1>1, FirstPlace
  <1>3. m # 0
    <2>1. Compaction([j \in 0 .. 0 |-> <<>>], 0)
          BY DEF Compaction
    <2> QED  BY <2>1
  <1>4. m \in Nat /\ m - 1 \in Nat /\ m - 1 < m /\ 0 .. m = (0 .. m - 1) \cup {m}
        BY <1>3
  <1>5. PICK f : Compaction(f, m - 1)
        BY <1>2, <1>4
  <1> DEFINE last == IF object[owned[m]].active THEN Append(f[m - 1], owned[m]) ELSE f[m - 1]
             g == [j \in 0 .. m |-> IF j = m THEN last ELSE f[j]]
  <1>6. Compaction(g, m)
    <2>1. \A j \in 0 .. m - 1 : g[j] = f[j]
          BY <1>4
    <2>2. g[m] = last
          BY <1>4
    <2>3. g = [j \in 0 .. m |-> g[j]]
          OBVIOUS
    <2> HIDE DEF g
    <2>4. ASSUME NEW j \in 0 .. m
          PROVE  g[j] = IF j = 0 THEN <<>>
                        ELSE IF object[owned[j]].active THEN Append(g[j - 1], owned[j])
                             ELSE g[j - 1]
      <3>1. CASE j = m
            BY <1>3, <1>4, <2>1, <2>2, <3>1
      <3>2. CASE j # m
        <4>1. j \in 0 .. m - 1
              BY <1>4, <3>2
        <4>2. j # 0 => j - 1 \in 0 .. m - 1
              BY <1>4, <4>1
        <4>3. f[j] = IF j = 0 THEN <<>>
                     ELSE IF object[owned[j]].active THEN Append(f[j - 1], owned[j])
                          ELSE f[j - 1]
              BY <1>5, <4>1 DEF Compaction
        <4> QED  BY <2>1, <4>1, <4>2, <4>3
      <3> QED  BY <3>1, <3>2
    <2> QED  BY <2>3, <2>4 DEF Compaction
  <1> QED  BY <1>2, <1>6

LEMMA CompactedKeeps ==
    ASSUME CollectionTyped, OnePlaceEach
    PROVE  LET t == Compacted[Len(owned)] IN
           /\ t \in Seq(Objects) /\ Len(t) <= Len(owned)
           /\ \A i, j \in DOMAIN t : t[i] = t[j] => i = j
           /\ \A i \in DOMAIN t : \E a \in DOMAIN owned : t[i] = owned[a] /\ object[owned[a]].active
           /\ \A a \in DOMAIN owned : object[owned[a]].active => \E i \in DOMAIN t : t[i] = owned[a]
  <1> DEFINE N == Len(owned)
             t(m) == Compacted[m]
             Good(m) ==
                /\ t(m) \in Seq(Objects) /\ Len(t(m)) <= m
                /\ \A i, j \in DOMAIN t(m) : t(m)[i] = t(m)[j] => i = j
                /\ \A i \in DOMAIN t(m) :
                        \E a \in 1 .. m : t(m)[i] = owned[a] /\ object[owned[a]].active
                /\ \A a \in 1 .. m : object[owned[a]].active => \E i \in DOMAIN t(m) : t(m)[i] = owned[a]
  <1>1. N \in Nat /\ DOMAIN owned = 1 .. N /\ \A a \in 1 .. N : owned[a] \in Objects
        BY LenProperties, ElementOfSeq DEF CollectionTyped
  <1>2. Compaction(Compacted, N)
    <2>1. \E f : Compaction(f, N)
          BY <1>1, CompactionExists
    <2> QED  BY <2>1 DEF Compacted, Compaction
  <1>3. \A m \in 0 .. N : Compacted[m] =
            IF m = 0 THEN <<>>
            ELSE IF object[owned[m]].active THEN Append(Compacted[m - 1], owned[m])
                 ELSE Compacted[m - 1]
    <2> DEFINE C == Compacted
    <2>1. C = [m \in 0 .. N |->
                IF m = 0 THEN <<>>
                ELSE IF object[owned[m]].active THEN Append(C[m - 1], owned[m]) ELSE C[m - 1]]
          BY <1>2 DEF Compaction
    <2> HIDE DEF C
    <2>2. \A m \in 0 .. N : C[m] =
                IF m = 0 THEN <<>>
                ELSE IF object[owned[m]].active THEN Append(C[m - 1], owned[m]) ELSE C[m - 1]
          BY <2>1
    <2> QED  BY <2>2 DEF C
  <1> HIDE DEF N, t
  <1>0. N \in 0 .. N
        BY <1>1
  <1>4. SUFFICES ASSUME ~Good(N) PROVE FALSE
        BY <1>1 DEF N, t
  <1>5. PICK m \in {k \in 0 .. N : ~Good(k)} : \A j \in {k \in 0 .. N : ~Good(k)} : m <= j
    <2>1. {k \in 0 .. N : ~Good(k)} \in SUBSET Nat
          BY <1>1
    <2> HIDE DEF Good
    <2>2. {k \in 0 .. N : ~Good(k)} # {}
          BY <1>0, <1>4
    <2> QED  BY <2>1, <2>2, FirstPlace
  <1>6. m \in 0 .. N /\ ~Good(m)
        BY <1>5
  <1>7. CASE m = 0
    <2>1. t(0) = <<>> /\ <<>> \in Seq(Objects) /\ Len(<<>>) = 0 /\ DOMAIN <<>> = {}
          BY <1>1, <1>3, EmptySeq DEF t
    <2>2. t(m) = <<>> /\ 1 .. m = {} /\ m = 0
          BY <1>7, <2>1
    <2> QED  BY <1>6, <2>1, <2>2
  <1>8. CASE m # 0
    <2> DEFINE s == t(m - 1)
               o == owned[m]
    <2>1. m - 1 \in 0 .. N /\ m - 1 < m /\ m \in Nat /\ m \in 1 .. N
          BY <1>1, <1>6, <1>8
    <2>2. Good(m - 1)
      <3> HIDE DEF Good
      <3> QED  BY <1>1, <1>5, <2>1
    <2>3. /\ s \in Seq(Objects) /\ Len(s) <= m - 1
          /\ \A i, j \in DOMAIN s : s[i] = s[j] => i = j
          /\ \A i \in DOMAIN s : \E a \in 1 .. m - 1 : s[i] = owned[a] /\ object[owned[a]].active
          /\ \A a \in 1 .. m - 1 : object[owned[a]].active => \E i \in DOMAIN s : s[i] = owned[a]
          BY <2>2
    <2>4. t(m) = IF object[o].active THEN Append(s, o) ELSE s
          BY <1>1, <1>3, <1>6, <1>8 DEF t
    <2>5. 1 .. m = (1 .. m - 1) \cup {m} /\ o \in Objects
          BY <1>1, <2>1
    <2>6. \A a \in 1 .. m - 1 : owned[a] # o
          BY <1>1, <2>1 DEF OnePlaceEach
    <2> HIDE DEF s, o
    <2>7. CASE ~object[o].active
          BY <1>6, <2>1, <2>3, <2>4, <2>5, <2>7 DEF o
    <2>8. CASE object[o].active
      <3> DEFINE u == Append(s, o)
                 n == Len(s)
      <3>1. /\ u \in Seq(Objects) /\ Len(u) = n + 1
            /\ \A i \in 1 .. n : u[i] = s[i]
            /\ u[n + 1] = o
            BY <2>3, <2>5, AppendProperties
      <3>2. n \in Nat /\ DOMAIN s = 1 .. n /\ DOMAIN u = 1 .. n + 1
            BY <2>3, <3>1, LenProperties
      <3>3. 1 .. n + 1 = (1 .. n) \cup {n + 1} /\ n + 1 \notin 1 .. n
            BY <3>2
      <3>4. t(m) = u
            BY <2>4, <2>8
      <3> HIDE DEF u, n
      <3>5. Len(u) <= m
            BY <2>1, <2>3, <3>1, <3>2 DEF n
      <3>6. \A i \in 1 .. n : u[i] # o
        <4> SUFFICES ASSUME NEW i \in 1 .. n PROVE u[i] # o
              OBVIOUS
        <4>1. \E a \in 1 .. m - 1 : s[i] = owned[a]
              BY <2>3, <3>2
        <4> QED  BY <2>6, <3>1, <4>1
      <3>7. \A i, j \in DOMAIN u : u[i] = u[j] => i = j
        <4> SUFFICES ASSUME NEW i \in DOMAIN u, NEW j \in DOMAIN u, u[i] = u[j] PROVE i = j
              OBVIOUS
        <4>1. CASE i \in 1 .. n /\ j \in 1 .. n
              BY <2>3, <3>1, <3>2, <4>1
        <4>2. CASE i = n + 1 \/ j = n + 1
              BY <3>1, <3>2, <3>3, <3>6, <4>2
        <4> QED  BY <3>2, <3>3, <4>1, <4>2
      <3>8. \A i \in DOMAIN u : \E a \in 1 .. m : u[i] = owned[a] /\ object[owned[a]].active
        <4>1. ASSUME NEW i \in 1 .. n
              PROVE  \E a \in 1 .. m : u[i] = owned[a] /\ object[owned[a]].active
          <5>1. PICK a \in 1 .. m - 1 : s[i] = owned[a] /\ object[owned[a]].active
                BY <2>3, <3>2
          <5>2. a \in 1 .. m /\ u[i] = owned[a]
                BY <2>5, <3>1, <5>1
          <5> QED  BY <5>1, <5>2
        <4>2. m \in 1 .. m /\ u[n + 1] = owned[m] /\ object[owned[m]].active
              BY <2>5, <2>8, <3>1 DEF o
        <4> QED  BY <3>2, <3>3, <4>1, <4>2
      <3>9. \A a \in 1 .. m : object[owned[a]].active => \E i \in DOMAIN u : u[i] = owned[a]
        <4>1. ASSUME NEW a \in 1 .. m - 1, object[owned[a]].active
              PROVE  \E i \in DOMAIN u : u[i] = owned[a]
          <5>1. PICK i \in DOMAIN s : s[i] = owned[a]
                BY <2>3, <4>1
          <5>2. i \in DOMAIN u /\ u[i] = owned[a]
                BY <3>1, <3>2, <3>3, <5>1
          <5> QED  BY <5>2
        <4>2. n + 1 \in DOMAIN u /\ u[n + 1] = owned[m]
              BY <3>1, <3>2, <3>3 DEF o
        <4> QED  BY <2>5, <4>1, <4>2
      <3> QED  BY <1>6, <3>1, <3>4, <3>5, <3>7, <3>8, <3>9
    <2> QED  BY <2>7, <2>8
  <1> QED  BY <1>7, <1>8

-----------------------------------------------------------------------------
(* What each call of the game does to the arrays.                          *)
LEMMA Positive ==
    /\ MaxObjects \in Nat \ {0} /\ MaxExternal \in Nat \ {0}
    /\ MaxComponents \in Nat \ {0} /\ MaxMade \in Nat \ {0}
    /\ None \notin Objects /\ None \notin Components
  BY Bounds, KindsApart

LEMMA ArraysTyped ==
    ASSUME Placed
    PROVE  /\ Len(owned) \in Nat /\ DOMAIN owned = 1 .. Len(owned)
           /\ Len(external) \in Nat /\ DOMAIN external = 1 .. Len(external)
           /\ \A a \in DOMAIN owned : owned[a] \in Objects
           /\ \A b \in DOMAIN external : external[b] \in Objects
           /\ \A o \in Objects : object[o] \in ObjectRecord
  BY LenProperties, ElementOfSeq DEF Placed, CollectionTyped

LEMMA SpawnPlaces ==
    ASSUME Placed, NEW o \in Objects, NEW n \in 0 .. 1, Spawn(o, n)
    PROVE  Placed'
  <1> USE Bounds DEF Placed, CollectionTyped
  <1>0. /\ object[o].life = "unborn" /\ ~Live(o) /\ Len(owned) < MaxObjects
        /\ owned' = Append(owned, o) /\ UNCHANGED <<external, initialized>>
        /\ object' = [object EXCEPT ![o].life = "live", ![o].count = n, ![o].made = n]
        /\ slots' = [slots EXCEPT ![o] = [j \in DOMAIN @ |-> IF j <= n THEN <<o, j>> ELSE None]]
        BY DEF Spawn, Live
  <1>1. /\ owned' \in Seq(Objects) /\ Len(owned') = Len(owned) + 1
        /\ DOMAIN owned' = DOMAIN owned \cup {Len(owned) + 1}
        /\ \A a \in DOMAIN owned : owned'[a] = owned[a]
        /\ owned'[Len(owned) + 1] = o
    <2>1. /\ Append(owned, o) \in Seq(Objects) /\ Len(Append(owned, o)) = Len(owned) + 1
          /\ \A a \in 1 .. Len(owned) : Append(owned, o)[a] = owned[a]
          /\ Append(owned, o)[Len(owned) + 1] = o
          BY AppendProperties
    <2>2. DOMAIN Append(owned, o) = 1 .. Len(owned) + 1
          BY <2>1, LenProperties
    <2>3. 1 .. Len(owned) + 1 = (1 .. Len(owned)) \cup {Len(owned) + 1}
          BY ArraysTyped
    <2> QED  BY <1>0, <2>1, <2>2, <2>3, ArraysTyped
  <1>2. n \in 0 .. MaxComponents /\ n \in 0 .. MaxMade
        OBVIOUS
  <1>3. /\ object' \in [Objects -> ObjectRecord]
        /\ object'[o].count = n /\ object'[o].made = n /\ object'[o].life = "live"
        /\ \A q \in Objects : q # o => object'[q] = object[q]
    <2>1. [object[o] EXCEPT !.life = "live", !.count = n, !.made = n] \in ObjectRecord
      <3>1. object[o] \in ObjectRecord
            OBVIOUS
      <3> QED  BY <1>2, <3>1 DEF ObjectRecord
    <2>2. object' = [object EXCEPT ![o] = [object[o] EXCEPT !.life = "live", !.count = n, !.made = n]]
          BY <1>0
    <2>3. object'[o] = [object[o] EXCEPT !.life = "live", !.count = n, !.made = n]
          BY <2>2
    <2>4. object[o] \in ObjectRecord
          OBVIOUS
    <2> QED  BY <2>1, <2>2, <2>3, <2>4 DEF ObjectRecord
  <1>4. /\ slots' \in [Objects -> [1 .. MaxComponents -> Components \cup {None}]]
        /\ \A j \in 1 .. n : slots'[o][j] = <<o, j>>
        /\ \A q \in Objects : q # o => slots'[q] = slots[q]
    <2> DEFINE row == [j \in 1 .. MaxComponents |-> IF j <= n THEN <<o, j>> ELSE None]
    <2>1. slots' = [slots EXCEPT ![o] = row]
          BY <1>0
    <2>2. \A j \in 1 .. MaxComponents : j <= n => <<o, j>> \in Components
          BY <1>2 DEF Components
    <2>3. row \in [1 .. MaxComponents -> Components \cup {None}]
          BY <2>2
    <2>4. \A j \in 1 .. n : row[j] = <<o, j>>
          BY <1>2
    <2> HIDE DEF row
    <2> QED  BY <2>1, <2>3, <2>4
  <1>5. CollectionTyped'
        BY <1>0, <1>1, <1>3, <1>4, ArraysTyped
  <1>6. \A q \in Objects : Live(q)' <=> (Live(q) \/ q = o)
        BY <1>3 DEF Live
  <1>7. /\ \A a \in DOMAIN owned : owned[a] # o
        /\ \A b \in DOMAIN external : external[b] # o
        BY <1>0 DEF LiveInPlace
  <1>8. Len(owned) + 1 \notin DOMAIN owned
        BY ArraysTyped
  <1>9. OnePlaceEach'
        BY <1>0, <1>1, <1>7, <1>8 DEF OnePlaceEach
  <1>10. LiveInPlace'
        BY <1>0, <1>1, <1>6, ArraysTyped DEF LiveInPlace
  <1>11. ComponentsInPlace'
    <2>1. \A j \in 1 .. n : slots'[o][j] \in Made(o, n)
          BY <1>4 DEF Made
    <2>2. \A i, j \in 1 .. n : slots'[o][i] = slots'[o][j] => i = j
          BY <1>4
    <2>3. \A q \in Objects : q # o => object'[q] = object[q] /\ slots'[q] = slots[q]
          BY <1>3, <1>4
    <2>4. Live(o)'
          BY <1>6
    <2> QED  BY <1>3, <1>6, <2>1, <2>2, <2>3, <2>4 DEF ComponentsInPlace
  <1> QED  BY <1>5, <1>9, <1>10, <1>11

(* What is destroyed keeps no component.                                   *)
LEMMA DestroyedPlaces ==
    ASSUME Placed, NEW os \in SUBSET Objects, Destroyed(os)
    PROVE  /\ object' \in [Objects -> ObjectRecord]
           /\ slots' \in [Objects -> [1 .. MaxComponents -> Components \cup {None}]]
           /\ \A o \in Objects : Live(o)' <=> (Live(o) /\ o \notin os)
           /\ ComponentsInPlace'
           /\ \A o \in Objects \ os : object'[o] = object[o] /\ slots'[o] = slots[o]
           /\ \A o \in os : object'[o] = [Unborn EXCEPT !.life = "dead"]
  <1> USE DEF Placed, CollectionTyped
  <1>1. /\ object' = [o \in Objects |-> IF o \in os THEN [Unborn EXCEPT !.life = "dead"] ELSE object[o]]
        /\ slots' = [o \in Objects |-> IF o \in os THEN Empty ELSE slots[o]]
        BY DEF Destroyed
  <1> DEFINE gone == [Unborn EXCEPT !.life = "dead"]
  <1>2. /\ gone \in ObjectRecord /\ gone.life = "dead" /\ gone.count = 0 /\ gone.made = 0
    <2>1. 0 \in 0 .. MaxComponents /\ 0 \in 0 .. MaxMade
          BY Positive
    <2>2. Unborn \in ObjectRecord /\ Unborn.count = 0 /\ Unborn.made = 0
          BY <2>1 DEF Unborn, ObjectRecord
    <2> QED  BY <2>2 DEF ObjectRecord
  <1> HIDE DEF gone
  <1>3. Empty \in [1 .. MaxComponents -> Components \cup {None}]
        BY DEF Empty
  <1>4. /\ \A o \in os : object'[o] = gone
        /\ \A o \in Objects \ os : object'[o] = object[o] /\ slots'[o] = slots[o]
        BY <1>1 DEF gone
  <1>5. object' \in [Objects -> ObjectRecord]
        BY <1>1, <1>2 DEF gone
  <1>6. slots' \in [Objects -> [1 .. MaxComponents -> Components \cup {None}]]
        BY <1>1, <1>3
  <1>7. \A o \in Objects : Live(o)' <=> (Live(o) /\ o \notin os)
        BY <1>2, <1>4 DEF Live
  <1>8. ComponentsInPlace'
    <2> SUFFICES ASSUME NEW o \in Objects
                 PROVE  /\ \A j \in 1 .. object'[o].count :
                                slots'[o][j] \in Made(o, object'[o].made)
                        /\ \A i, j \in 1 .. object'[o].count : slots'[o][i] = slots'[o][j] => i = j
                        /\ ~Live(o)' => object'[o].made = 0 /\ object'[o].count = 0
          BY DEF ComponentsInPlace, Made
    <2>1. CASE o \in os
          BY <1>2, <1>4, <2>1
    <2>2. CASE o \notin os
          BY <1>4, <1>7, <2>2 DEF ComponentsInPlace
    <2> QED  BY <2>1, <2>2
  <1> QED  BY <1>4, <1>5, <1>6, <1>7, <1>8 DEF gone

(* An object leaves the owned array; those after it move down.             *)
LEMMA OwnedLeaves ==
    ASSUME Placed, NEW k \in DOMAIN owned, owned' = RemoveAt(owned, k)
    PROVE  /\ owned' \in Seq(Objects) /\ Len(owned') = Len(owned) - 1
           /\ DOMAIN owned' = 1 .. Len(owned) - 1
           /\ \A i \in DOMAIN owned' : owned'[i] = IF i < k THEN owned[i] ELSE owned[i + 1]
           /\ \A i \in DOMAIN owned' : \E a \in DOMAIN owned : a # k /\ owned'[i] = owned[a]
           /\ \A a \in DOMAIN owned : a # k => \E i \in DOMAIN owned' : owned'[i] = owned[a]
           /\ \A i, j \in DOMAIN owned' : owned'[i] = owned'[j] => i = j
  <1>1. /\ owned' \in Seq(Objects) /\ Len(owned') = Len(owned) - 1
        /\ DOMAIN owned' = 1 .. Len(owned) - 1
        /\ \A i \in 1 .. Len(owned) - 1 : owned'[i] = IF i < k THEN owned[i] ELSE owned[i + 1]
    <2>1. owned \in Seq(Objects)
          BY DEF Placed, CollectionTyped
    <2> QED  BY <2>1, RemovedAt
  <1>2. Len(owned) \in Nat /\ DOMAIN owned = 1 .. Len(owned) /\ k \in 1 .. Len(owned)
        BY ArraysTyped
  <1>3. \A a, b \in DOMAIN owned : owned[a] = owned[b] => a = b
        BY DEF Placed, OnePlaceEach
  <1>4. ASSUME NEW i \in DOMAIN owned'
        PROVE  \E a \in DOMAIN owned : a # k /\ owned'[i] = owned[a]
                                      /\ a = IF i < k THEN i ELSE i + 1
    <2>1. CASE i < k
      <3>1. i \in DOMAIN owned /\ i # k /\ owned'[i] = owned[i]
            BY <1>1, <1>2, <2>1
      <3> QED  BY <2>1, <3>1
    <2>2. CASE ~(i < k)
      <3>1. i + 1 \in DOMAIN owned /\ i + 1 # k /\ owned'[i] = owned[i + 1]
            BY <1>1, <1>2, <2>2
      <3> QED  BY <2>2, <3>1
    <2> QED  BY <2>1, <2>2
  <1>5. ASSUME NEW a \in DOMAIN owned, a # k
        PROVE  \E i \in DOMAIN owned' : owned'[i] = owned[a]
    <2>1. CASE a < k
      <3>1. a \in DOMAIN owned' /\ owned'[a] = owned[a]
            BY <1>1, <1>2, <2>1
      <3> QED  BY <3>1
    <2>2. CASE ~(a < k)
      <3>1. a - 1 \in DOMAIN owned' /\ ~(a - 1 < k) /\ (a - 1) + 1 = a
            BY <1>1, <1>2, <1>5, <2>2
      <3>2. owned'[a - 1] = owned[a]
            BY <1>1, <3>1
      <3> QED  BY <3>1, <3>2
    <2> QED  BY <2>1, <2>2
  <1>6. ASSUME NEW i \in DOMAIN owned', NEW j \in DOMAIN owned', owned'[i] = owned'[j]
        PROVE  i = j
    <2>1. PICK a \in DOMAIN owned : owned'[i] = owned[a] /\ a = IF i < k THEN i ELSE i + 1
          BY <1>4
    <2>2. PICK b \in DOMAIN owned : owned'[j] = owned[b] /\ b = IF j < k THEN j ELSE j + 1
          BY <1>4
    <2>3. a = b
          BY <1>3, <1>6, <2>1, <2>2
    <2>4. i \in Int /\ j \in Int /\ k \in Int
          BY <1>1, <1>2
    <2> QED  BY <2>1, <2>2, <2>3, <2>4
  <1> QED  BY <1>1, <1>4, <1>5, <1>6

LEMMA DestroyPlaces ==
    ASSUME Placed, NEW k \in DOMAIN owned, Destroy(k)
    PROVE  Placed'
  <1>1. /\ owned' = RemoveAt(owned, k) /\ UNCHANGED <<external, initialized>>
        /\ Destroyed({owned[k]})
        BY DEF Destroy
  <1>2. Len(owned) \in Nat /\ DOMAIN owned = 1 .. Len(owned) /\ owned[k] \in Objects
        BY ArraysTyped
  <1>3. /\ owned' \in Seq(Objects) /\ Len(owned') = Len(owned) - 1
        /\ \A i \in DOMAIN owned' : \E a \in DOMAIN owned : a # k /\ owned'[i] = owned[a]
        /\ \A a \in DOMAIN owned : a # k => \E i \in DOMAIN owned' : owned'[i] = owned[a]
        /\ \A i, j \in DOMAIN owned' : owned'[i] = owned'[j] => i = j
        BY <1>1, OwnedLeaves
  <1>4. /\ object' \in [Objects -> ObjectRecord]
        /\ slots' \in [Objects -> [1 .. MaxComponents -> Components \cup {None}]]
        /\ \A o \in Objects : Live(o)' <=> (Live(o) /\ o # owned[k])
        /\ ComponentsInPlace'
    <2>1. {owned[k]} \in SUBSET Objects
          BY <1>2
    <2> QED  BY <1>1, <2>1, DestroyedPlaces
  <1>5. CollectionTyped'
    <2>1. Len(owned) - 1 <= MaxObjects
          BY <1>2, Positive DEF Placed, CollectionTyped
    <2> QED  BY <1>1, <1>3, <1>4, <2>1 DEF Placed, CollectionTyped
  <1>6. OnePlaceEach'
        BY <1>1, <1>3 DEF Placed, OnePlaceEach
  <1>7. \A o \in Objects : object'[o].life = "live" <=> (object[o].life = "live" /\ o # owned[k])
        BY <1>4 DEF Live
  <1>8. LiveInPlace'
    <2>1. ASSUME NEW i \in DOMAIN owned' PROVE object'[owned'[i]].life = "live"
      <3>1. PICK a \in DOMAIN owned : a # k /\ owned'[i] = owned[a]
            BY <1>3
      <3>2. owned[a] # owned[k] /\ object[owned[a]].life = "live" /\ owned[a] \in Objects
            BY <3>1, ArraysTyped DEF Placed, OnePlaceEach, LiveInPlace, Live
      <3> QED  BY <1>7, <3>1, <3>2
    <2>2. ASSUME NEW b \in DOMAIN external PROVE object'[external[b]].life = "live"
      <3>1. external[b] # owned[k] /\ object[external[b]].life = "live" /\ external[b] \in Objects
            BY ArraysTyped DEF Placed, OnePlaceEach, LiveInPlace, Live
      <3> QED  BY <1>7, <3>1
    <2>3. ASSUME NEW o \in Objects, object'[o].life = "live"
          PROVE  \/ \E i \in DOMAIN owned' : owned'[i] = o
                 \/ \E b \in DOMAIN external : external[b] = o
      <3>1. object[o].life = "live" /\ o # owned[k]
            BY <1>7, <2>3
      <3>2. \/ \E a \in DOMAIN owned : owned[a] = o /\ a # k
            \/ \E b \in DOMAIN external : external[b] = o
            BY <3>1 DEF Placed, LiveInPlace, Live
      <3> QED  BY <1>3, <3>2
    <2>4. external' = external
          BY <1>1
    <2> QED  BY <2>1, <2>2, <2>3, <2>4 DEF LiveInPlace, Live
  <1> QED  BY <1>4, <1>5, <1>6, <1>8 DEF Placed

(* persistObject moves an object from the one array to the other.          *)
LEMMA ExternalJoined ==
    ASSUME Placed, NEW o \in Objects, external' = Append(external, o)
    PROVE  /\ external' \in Seq(Objects) /\ Len(external') = Len(external) + 1
           /\ DOMAIN external' = DOMAIN external \cup {Len(external) + 1}
           /\ Len(external) + 1 \notin DOMAIN external
           /\ \A b \in DOMAIN external : external'[b] = external[b]
           /\ external'[Len(external) + 1] = o
  <1>1. external \in Seq(Objects)
        BY DEF Placed, CollectionTyped
  <1>2. /\ Append(external, o) \in Seq(Objects) /\ Len(Append(external, o)) = Len(external) + 1
        /\ \A b \in 1 .. Len(external) : Append(external, o)[b] = external[b]
        /\ Append(external, o)[Len(external) + 1] = o
        BY <1>1, AppendProperties
  <1>3. DOMAIN Append(external, o) = 1 .. Len(external) + 1
        BY <1>2, LenProperties
  <1>4. Len(external) \in Nat /\ DOMAIN external = 1 .. Len(external)
        BY ArraysTyped
  <1>5. /\ 1 .. Len(external) + 1 = (1 .. Len(external)) \cup {Len(external) + 1}
        /\ Len(external) + 1 \notin 1 .. Len(external)
        BY <1>4
  <1> QED  BY <1>2, <1>3, <1>4, <1>5

LEMMA PersistPlaces ==
    ASSUME Placed, NEW k \in DOMAIN owned, Persist(k)
    PROVE  Placed'
  <1>1. /\ owned' = RemoveAt(owned, k) /\ external' = Append(external, owned[k])
        /\ UNCHANGED <<initialized, object, slots>> /\ Len(external) < MaxExternal
        BY DEF Persist
  <1>2. Len(owned) \in Nat /\ Len(external) \in Nat /\ owned[k] \in Objects
        BY ArraysTyped
  <1>3. /\ owned' \in Seq(Objects) /\ Len(owned') = Len(owned) - 1
        /\ \A i \in DOMAIN owned' : \E a \in DOMAIN owned : a # k /\ owned'[i] = owned[a]
        /\ \A a \in DOMAIN owned : a # k => \E i \in DOMAIN owned' : owned'[i] = owned[a]
        /\ \A i, j \in DOMAIN owned' : owned'[i] = owned'[j] => i = j
        BY <1>1, OwnedLeaves
  <1> DEFINE n == Len(external) + 1
  <1>4. /\ external' \in Seq(Objects) /\ Len(external') = n
        /\ DOMAIN external' = DOMAIN external \cup {n} /\ n \notin DOMAIN external
        /\ \A b \in DOMAIN external : external'[b] = external[b]
        /\ external'[n] = owned[k]
        BY <1>1, <1>2, ExternalJoined
  <1>5. CollectionTyped'
    <2>1. Len(owned) - 1 <= MaxObjects /\ n <= MaxExternal
          BY <1>1, <1>2, Positive DEF Placed, CollectionTyped
    <2> HIDE DEF n
    <2> QED  BY <1>1, <1>3, <1>4, <2>1 DEF Placed, CollectionTyped
  <1> HIDE DEF n
  <1>6. \A a \in DOMAIN owned, b \in DOMAIN external : owned[a] # external[b]
        BY DEF Placed, OnePlaceEach
  <1>7. \A a \in DOMAIN owned : a # k => owned[a] # owned[k]
        BY DEF Placed, OnePlaceEach
  <1>8. OnePlaceEach'
    <2>1. ASSUME NEW a \in DOMAIN external', NEW b \in DOMAIN external', external'[a] = external'[b]
          PROVE  a = b
      <3>1. CASE a = n \/ b = n
            BY <1>4, <1>6, <2>1, <3>1
      <3>2. CASE a # n /\ b # n
            BY <1>4, <2>1, <3>2 DEF Placed, OnePlaceEach
      <3> QED  BY <3>1, <3>2
    <2>2. ASSUME NEW i \in DOMAIN owned', NEW b \in DOMAIN external' PROVE owned'[i] # external'[b]
      <3>1. PICK a \in DOMAIN owned : a # k /\ owned'[i] = owned[a]
            BY <1>3
      <3>2. CASE b = n
            BY <1>4, <1>7, <3>1, <3>2
      <3>3. CASE b # n
            BY <1>4, <1>6, <3>1, <3>3
      <3> QED  BY <3>2, <3>3
    <2> QED  BY <1>3, <2>1, <2>2 DEF OnePlaceEach
  <1>9. LiveInPlace'
    <2>1. \A i \in DOMAIN owned' : object[owned'[i]].life = "live"
          BY <1>3 DEF Placed, LiveInPlace, Live
    <2>2. \A b \in DOMAIN external' : object[external'[b]].life = "live"
          BY <1>4 DEF Placed, LiveInPlace, Live
    <2>3. ASSUME NEW o \in Objects, object[o].life = "live"
          PROVE  \/ \E i \in DOMAIN owned' : owned'[i] = o
                 \/ \E b \in DOMAIN external' : external'[b] = o
      <3>1. \/ \E a \in DOMAIN owned : owned[a] = o
            \/ \E b \in DOMAIN external : external[b] = o
            BY <2>3 DEF Placed, LiveInPlace, Live
      <3> QED  BY <1>3, <1>4, <3>1
    <2> QED  BY <1>1, <2>1, <2>2, <2>3 DEF LiveInPlace, Live
  <1>10. ComponentsInPlace'
        BY <1>1 DEF Placed, ComponentsInPlace, Live
  <1> QED  BY <1>5, <1>8, <1>9, <1>10 DEF Placed

(* Calls that change the flags of objects only.                            *)
LEMMA FlagsPlaces ==
    ASSUME Placed, UNCHANGED <<owned, external, slots>>, initialized' \in BOOLEAN,
           object' \in [Objects -> ObjectRecord],
           \A o \in Objects : /\ object'[o].life = object[o].life
                              /\ object'[o].count = object[o].count
                              /\ object'[o].made = object[o].made
    PROVE  Placed'
  <1>1. CollectionTyped'
        BY DEF Placed, CollectionTyped
  <1>2. OnePlaceEach'
        BY DEF Placed, OnePlaceEach
  <1>3. LiveInPlace'
        BY ArraysTyped DEF Placed, LiveInPlace, Live
  <1>4. ComponentsInPlace'
        BY DEF Placed, ComponentsInPlace, Live
  <1> QED  BY <1>1, <1>2, <1>3, <1>4 DEF Placed

LEMMA SetActivePlaces ==
    ASSUME Placed, NEW o \in Objects, SetActive(o)
    PROVE  Placed'
  <1>1. /\ object' = [object EXCEPT ![o].active = ~@]
        /\ UNCHANGED <<owned, external, initialized, slots>>
        BY DEF SetActive
  <1>2. object[o] \in ObjectRecord /\ initialized \in BOOLEAN /\ object \in [Objects -> ObjectRecord]
        BY DEF Placed, CollectionTyped
  <1>3. [object[o] EXCEPT !.active = ~@] \in ObjectRecord
        BY <1>2 DEF ObjectRecord
  <1>4. object' \in [Objects -> ObjectRecord]
        BY <1>1, <1>2, <1>3
  <1>5. \A q \in Objects : /\ object'[q].life = object[q].life
                           /\ object'[q].count = object[q].count
                           /\ object'[q].made = object[q].made
        BY <1>1, <1>2 DEF ObjectRecord
  <1> QED  BY <1>1, <1>2, <1>4, <1>5, FlagsPlaces

LEMMA EndMethodPlaces ==
    ASSUME Placed, NEW f \in Methods, EndMethod(f)
    PROVE  Placed'
  <1>1. /\ object' = [object EXCEPT ![Top.of].awoken = @ \/ f = "awake",
                                    ![Top.of].started = @ \/ f = "start"]
        /\ UNCHANGED <<owned, external, initialized, slots>>
        BY DEF EndMethod
  <1>2. initialized \in BOOLEAN /\ object \in [Objects -> ObjectRecord]
        BY DEF Placed, CollectionTyped
  <1> DEFINE o == Top.of
             ended == [object[o] EXCEPT !.awoken = @ \/ f = "awake", !.started = @ \/ f = "start"]
  <1>3. object' = [object EXCEPT ![o] = ended]
        BY <1>1, <1>2
  <1>4. o \in Objects => /\ ended \in ObjectRecord /\ ended.life = object[o].life
                         /\ ended.count = object[o].count /\ ended.made = object[o].made
    <2> SUFFICES ASSUME o \in Objects
                 PROVE  /\ ended \in ObjectRecord /\ ended.life = object[o].life
                        /\ ended.count = object[o].count /\ ended.made = object[o].made
          OBVIOUS
    <2>1. object[o] \in ObjectRecord
          BY <1>2
    <2> HIDE DEF o
    <2> QED  BY <2>1 DEF ObjectRecord
  <1> HIDE DEF ended, o
  <1>5. /\ object' \in [Objects -> ObjectRecord]
        /\ \A q \in Objects : object'[q] = IF q = o THEN ended ELSE object[q]
        BY <1>2, <1>3, <1>4
  <1>6. \A q \in Objects : /\ object'[q].life = object[q].life
                           /\ object'[q].count = object[q].count
                           /\ object'[q].made = object[q].made
        BY <1>4, <1>5
  <1> QED  BY <1>1, <1>2, <1>5, <1>6, FlagsPlaces

LEMMA EndLoopPlaces ==
    ASSUME Placed, NEW f \in CollectionLoops, EndLoop(f)
    PROVE  Placed'
  <1>1. UNCHANGED <<owned, external, object, slots>> /\ initialized' = (initialized \/ f = "initialize")
        BY DEF EndLoop
  <1>2. initialized' \in BOOLEAN /\ object' \in [Objects -> ObjectRecord]
        BY <1>1 DEF Placed, CollectionTyped
  <1> QED  BY <1>1, <1>2, FlagsPlaces

LEMMA StillPlaces ==
    ASSUME Placed, UNCHANGED <<owned, external, initialized, object, slots>>
    PROVE  Placed'
  <1>1. initialized' \in BOOLEAN /\ object' \in [Objects -> ObjectRecord]
        BY DEF Placed, CollectionTyped
  <1> QED  BY <1>1, FlagsPlaces

(* One object gets other components, none of them twice.                   *)
LEMMA ComponentsPlaces ==
    ASSUME Placed, NEW o \in Objects, NEW r \in ObjectRecord,
           NEW row \in [1 .. MaxComponents -> Components \cup {None}],
           UNCHANGED <<owned, external, initialized>>,
           object' = [object EXCEPT ![o] = r], slots' = [slots EXCEPT ![o] = row],
           Live(o), r.life = object[o].life,
           \A j \in 1 .. r.count : row[j] \in Made(o, r.made),
           \A i, j \in 1 .. r.count : row[i] = row[j] => i = j
    PROVE  Placed'
  <1>1. /\ object \in [Objects -> ObjectRecord]
        /\ slots \in [Objects -> [1 .. MaxComponents -> Components \cup {None}]]
        BY DEF Placed, CollectionTyped
  <1>2. /\ object' \in [Objects -> ObjectRecord] /\ object'[o] = r /\ slots'[o] = row
        /\ slots' \in [Objects -> [1 .. MaxComponents -> Components \cup {None}]]
        /\ \A q \in Objects : q # o => object'[q] = object[q] /\ slots'[q] = slots[q]
        BY <1>1
  <1>3. CollectionTyped'
        BY <1>2 DEF Placed, CollectionTyped
  <1>4. OnePlaceEach'
        BY DEF Placed, OnePlaceEach
  <1>5. \A q \in Objects : object'[q].life = object[q].life
        BY <1>2
  <1>6. LiveInPlace'
        BY <1>5, ArraysTyped DEF Placed, LiveInPlace, Live
  <1>7. ComponentsInPlace'
    <2> SUFFICES ASSUME NEW q \in Objects
                 PROVE  /\ \A j \in 1 .. object'[q].count :
                                slots'[q][j] \in Made(q, object'[q].made)
                        /\ \A i, j \in 1 .. object'[q].count : slots'[q][i] = slots'[q][j] => i = j
                        /\ object'[q].life # "live" => object'[q].made = 0 /\ object'[q].count = 0
          BY DEF ComponentsInPlace, Made, Live
    <2>1. CASE q = o
          BY <1>2, <2>1 DEF Live
    <2>2. CASE q # o
          BY <1>2, <2>2 DEF Placed, ComponentsInPlace, Live
    <2> QED  BY <2>1, <2>2
  <1> QED  BY <1>3, <1>4, <1>6, <1>7 DEF Placed

LEMMA AddComponentPlaces ==
    ASSUME Placed, NEW o \in Objects, AddComponent(o)
    PROVE  Placed'
  <1> DEFINE n == object[o].count
             m == object[o].made
             c == <<o, m + 1>>
             r == [object[o] EXCEPT !.count = n + 1, !.made = m + 1]
             row == [slots[o] EXCEPT ![n + 1] = c]
  <1>1. /\ Live(o) /\ n < MaxComponents /\ m < MaxMade
        /\ UNCHANGED <<owned, external, initialized>>
        /\ object' = [object EXCEPT ![o].count = @ + 1, ![o].made = @ + 1]
        /\ slots' = [slots EXCEPT ![o][object[o].count + 1] = c]
        BY DEF AddComponent
  <1>2. /\ object \in [Objects -> ObjectRecord] /\ object[o] \in ObjectRecord
        /\ slots \in [Objects -> [1 .. MaxComponents -> Components \cup {None}]]
        BY DEF Placed, CollectionTyped
  <1>3. n \in 0 .. MaxComponents /\ m \in 0 .. MaxMade
        BY <1>2 DEF ObjectRecord
  <1>4. n + 1 \in 0 .. MaxComponents /\ m + 1 \in 0 .. MaxMade /\ m + 1 \in 1 .. MaxMade
        /\ n + 1 \in 1 .. MaxComponents
        BY <1>1, <1>3, Positive
  <1>5. r \in ObjectRecord /\ r.life = object[o].life /\ r.count = n + 1 /\ r.made = m + 1
        BY <1>2, <1>4 DEF ObjectRecord
  <1>6. c \in Components
        BY <1>4 DEF Components
  <1>7. /\ row \in [1 .. MaxComponents -> Components \cup {None}] /\ row[n + 1] = c
        /\ \A j \in 1 .. MaxComponents : j # n + 1 => row[j] = slots[o][j]
        BY <1>2, <1>4, <1>6
  <1>8. object' = [object EXCEPT ![o] = r] /\ slots' = [slots EXCEPT ![o] = row]
        BY <1>1, <1>2
  <1>9. /\ \A j \in 1 .. n : slots[o][j] \in Made(o, m)
        /\ \A i, j \in 1 .. n : slots[o][i] = slots[o][j] => i = j
        BY DEF Placed, ComponentsInPlace
  <1>10. /\ 1 .. n + 1 = (1 .. n) \cup {n + 1} /\ \A j \in 1 .. n : j \in 1 .. MaxComponents /\ j # n + 1
         /\ \A j \in 1 .. m : j \in 1 .. m + 1 /\ j # m + 1
         /\ m + 1 \in 1 .. m + 1
        BY <1>3, Positive
  <1> HIDE DEF n, m, r, row
  <1>11. \A j \in 1 .. n : row[j] \in Made(o, m + 1) /\ row[j] # c /\ row[j] = slots[o][j]
    <2> TAKE j \in 1 .. n
    <2>1. PICK i \in 1 .. m : slots[o][j] = <<o, i>>
          BY <1>9 DEF Made
    <2>2. row[j] = slots[o][j]
          BY <1>7, <1>10
    <2>3. i \in 1 .. m + 1 /\ <<o, i>> # <<o, m + 1>>
          BY <1>10
    <2> QED  BY <2>1, <2>2, <2>3 DEF Made
  <1>12. c \in Made(o, m + 1)
        BY <1>10 DEF Made
  <1>13. \A j \in 1 .. r.count : row[j] \in Made(o, r.made)
        BY <1>5, <1>7, <1>10, <1>11, <1>12
  <1>14. \A i, j \in 1 .. r.count : row[i] = row[j] => i = j
    <2> HIDE DEF c
    <2> QED  BY <1>5, <1>7, <1>9, <1>10, <1>11
  <1> QED  BY <1>1, <1>5, <1>7, <1>8, <1>13, <1>14, ComponentsPlaces

LEMMA RemoveComponentPlaces ==
    ASSUME Placed, NEW o \in Objects, NEW k \in 1 .. MaxComponents, RemoveComponent(o, k)
    PROVE  Placed'
  <1> DEFINE n == object[o].count
             s == slots[o]
             r == [object[o] EXCEPT !.count = n - 1]
             row == [j \in DOMAIN s |-> CASE k <= j /\ j < n -> s[j + 1]
                                          [] k < n /\ j = n  -> None
                                          [] OTHER           -> s[j]]
  <1>1. /\ k <= n /\ UNCHANGED <<owned, external, initialized>>
        /\ object' = [object EXCEPT ![o].count = n - 1]
        /\ slots' = [slots EXCEPT ![o] = row]
        BY DEF RemoveComponent
  <1>2. /\ object \in [Objects -> ObjectRecord] /\ object[o] \in ObjectRecord
        /\ s \in [1 .. MaxComponents -> Components \cup {None}]
        BY DEF Placed, CollectionTyped
  <1>3. n \in 1 .. MaxComponents /\ n - 1 \in 0 .. MaxComponents /\ n \in Int /\ k \in Int
        /\ object[o].made \in 0 .. MaxMade /\ k >= 1
    <2>1. n \in 0 .. MaxComponents /\ object[o].made \in 0 .. MaxMade
          BY <1>2 DEF ObjectRecord
    <2> QED  BY <1>1, <2>1, Positive
  <1>4. r \in ObjectRecord /\ r.life = object[o].life /\ r.count = n - 1 /\ r.made = object[o].made
        BY <1>2, <1>3 DEF ObjectRecord
  <1>5. object' = [object EXCEPT ![o] = r]
        BY <1>1, <1>2
  <1>6. Live(o)
        BY <1>3 DEF Placed, ComponentsInPlace
  <1>7. /\ \A j \in 1 .. n : s[j] \in Made(o, object[o].made)
        /\ \A i, j \in 1 .. n : s[i] = s[j] => i = j
        BY DEF Placed, ComponentsInPlace
  <1> HIDE DEF n, s, r
  <1>8. \A j \in 1 .. MaxComponents : row[j] = CASE k <= j /\ j < n -> s[j + 1]
                                          [] k < n /\ j = n  -> None
                                          [] OTHER           -> s[j]
        BY <1>2
  <1>9. row \in [1 .. MaxComponents -> Components \cup {None}]
    <2>1. DOMAIN s = 1 .. MaxComponents
          BY <1>2
    <2>2. \A j \in 1 .. MaxComponents : row[j] \in Components \cup {None}
      <3> TAKE j \in 1 .. MaxComponents
      <3>1. CASE k <= j /\ j < n
        <4>1. j + 1 \in 1 .. MaxComponents
              BY <1>3, <3>1, Positive
        <4> QED  BY <1>2, <1>8, <3>1, <4>1
      <3>2. CASE ~(k <= j /\ j < n)
            BY <1>2, <1>8, <3>2
      <3> QED  BY <3>1, <3>2
    <2> QED  BY <2>1, <2>2
  <1>10. \A j \in 1 .. n - 1 : /\ j \in 1 .. n /\ j + 1 \in 1 .. n /\ j \in 1 .. MaxComponents
                               /\ j < n /\ j # n /\ j \in Int
        BY <1>3, Positive
  <1>11. \A j \in 1 .. n - 1 : row[j] = IF k <= j THEN s[j + 1] ELSE s[j]
        BY <1>8, <1>10
  <1> HIDE DEF row
  <1>12. \A j \in 1 .. r.count : row[j] \in Made(o, r.made)
        BY <1>4, <1>7, <1>10, <1>11
  <1>13. \A i, j \in 1 .. r.count : row[i] = row[j] => i = j
    <2> SUFFICES ASSUME NEW i \in 1 .. n - 1, NEW j \in 1 .. n - 1, row[i] = row[j] PROVE i = j
          BY <1>4
    <2>1. (IF k <= i THEN i + 1 ELSE i) = (IF k <= j THEN j + 1 ELSE j)
          BY <1>7, <1>10, <1>11
    <2> QED  BY <1>3, <1>10, <2>1
  <1> QED  BY <1>1, <1>4, <1>5, <1>6, <1>9, <1>12, <1>13, ComponentsPlaces DEF row

(* What is left of the owned objects is placed, when it is the objects     *)
(* that were not destroyed.                                                *)
LEMMA FewerOwned ==
    ASSUME Placed, NEW os \in SUBSET Objects, Destroyed(os), external' = external,
           initialized' \in BOOLEAN,
           NEW t \in Seq(Objects), owned' = t, Len(t) <= Len(owned),
           \A i, j \in DOMAIN t : t[i] = t[j] => i = j,
           \A i \in DOMAIN t : \E a \in DOMAIN owned : t[i] = owned[a] /\ owned[a] \notin os,
           \A a \in DOMAIN owned : owned[a] \notin os => \E i \in DOMAIN t : t[i] = owned[a],
           \A b \in DOMAIN external : external[b] \notin os
    PROVE  Placed'
  <1>1. /\ object' \in [Objects -> ObjectRecord]
        /\ slots' \in [Objects -> [1 .. MaxComponents -> Components \cup {None}]]
        /\ \A o \in Objects : Live(o)' <=> (Live(o) /\ o \notin os)
        /\ ComponentsInPlace'
        BY DestroyedPlaces
  <1>2. \A o \in Objects : object'[o].life = "live" <=> (object[o].life = "live" /\ o \notin os)
        BY <1>1 DEF Live
  <1>3. CollectionTyped'
    <2>1. Len(t) <= MaxObjects
      <3>1. Len(owned) <= MaxObjects /\ Len(owned) \in Nat /\ Len(t) \in Nat /\ MaxObjects \in Nat
            BY ArraysTyped, Positive, LenProperties DEF Placed, CollectionTyped
      <3> QED  BY <3>1
    <2> QED  BY <1>1, <2>1 DEF Placed, CollectionTyped
  <1>4. OnePlaceEach'
        BY DEF Placed, OnePlaceEach
  <1>5. LiveInPlace'
    <2>1. ASSUME NEW i \in DOMAIN t PROVE object'[t[i]].life = "live"
      <3>1. PICK a \in DOMAIN owned : t[i] = owned[a] /\ owned[a] \notin os
            OBVIOUS
      <3>2. owned[a] \in Objects /\ object[owned[a]].life = "live"
            BY <3>1, ArraysTyped DEF Placed, LiveInPlace, Live
      <3> QED  BY <1>2, <3>1, <3>2
    <2>2. ASSUME NEW b \in DOMAIN external PROVE object'[external[b]].life = "live"
      <3>1. external[b] \in Objects /\ object[external[b]].life = "live"
            BY ArraysTyped DEF Placed, LiveInPlace, Live
      <3> QED  BY <1>2, <3>1
    <2>3. ASSUME NEW o \in Objects, object'[o].life = "live"
          PROVE  \/ \E i \in DOMAIN t : t[i] = o
                 \/ \E b \in DOMAIN external : external[b] = o
      <3>1. object[o].life = "live" /\ o \notin os
            BY <1>2, <2>3
      <3>2. \/ \E a \in DOMAIN owned : owned[a] = o
            \/ \E b \in DOMAIN external : external[b] = o
            BY <3>1 DEF Placed, LiveInPlace, Live
      <3> QED  BY <3>1, <3>2
    <2> QED  BY <2>1, <2>2, <2>3 DEF LiveInPlace, Live
  <1> QED  BY <1>1, <1>3, <1>4, <1>5 DEF Placed

LEMMA RemoveInactivePlaces ==
    ASSUME Placed, RemoveInactive
    PROVE  Placed'
  <1> DEFINE t == Compacted[Len(owned)]
             os == {o \in ToSet(owned) : ~object[o].active}
  <1>1. owned' = t /\ UNCHANGED <<external, initialized>> /\ Destroyed(os)
        BY DEF RemoveInactive
  <1>2. /\ t \in Seq(Objects) /\ Len(t) <= Len(owned)
        /\ \A i, j \in DOMAIN t : t[i] = t[j] => i = j
        /\ \A i \in DOMAIN t : \E a \in DOMAIN owned : t[i] = owned[a] /\ object[owned[a]].active
        /\ \A a \in DOMAIN owned : object[owned[a]].active => \E i \in DOMAIN t : t[i] = owned[a]
        BY CompactedKeeps DEF Placed
  <1> HIDE DEF t
  <1>3. os \in SUBSET Objects
        BY ArraysTyped DEF ToSet
  <1>4. \A a \in DOMAIN owned : owned[a] \notin os <=> object[owned[a]].active
        BY DEF ToSet
  <1>5. \A b \in DOMAIN external : external[b] \notin os
        BY DEF ToSet, Placed, OnePlaceEach
  <1> HIDE DEF os
  <1>6. /\ \A i \in DOMAIN t : \E a \in DOMAIN owned : t[i] = owned[a] /\ owned[a] \notin os
        /\ \A a \in DOMAIN owned : owned[a] \notin os => \E i \in DOMAIN t : t[i] = owned[a]
        BY <1>2, <1>4
  <1>7. initialized' \in BOOLEAN
        BY <1>1 DEF Placed, CollectionTyped
  <1> QED  BY <1>1, <1>2, <1>3, <1>5, <1>6, <1>7, FewerOwned

LEMMA ClearPlaces ==
    ASSUME Placed, Clear
    PROVE  Placed'
  <1> DEFINE t == <<>>
             os == ToSet(owned)
  <1>1. owned' = t /\ initialized' = FALSE /\ external' = external /\ Destroyed(os)
        BY DEF Clear
  <1>2. t \in Seq(Objects) /\ Len(t) = 0 /\ DOMAIN t = {}
        BY EmptySeq
  <1> HIDE DEF t
  <1>3. os \in SUBSET Objects
        BY ArraysTyped DEF ToSet
  <1>4. \A a \in DOMAIN owned : owned[a] \in os
        BY DEF ToSet
  <1>5. \A b \in DOMAIN external : external[b] \notin os
        BY DEF ToSet, Placed, OnePlaceEach
  <1> HIDE DEF os
  <1>6. Len(t) <= Len(owned)
        BY <1>2, ArraysTyped
  <1>7. initialized' \in BOOLEAN
        BY <1>1
  <1>8. /\ \A i \in DOMAIN t : \E a \in DOMAIN owned : t[i] = owned[a] /\ owned[a] \notin os
        /\ \A a \in DOMAIN owned : owned[a] \notin os => \E i \in DOMAIN t : t[i] = owned[a]
        /\ \A i, j \in DOMAIN t : t[i] = t[j] => i = j
        BY <1>2, <1>4
  <1> QED  BY <1>1, <1>2, <1>3, <1>5, <1>6, <1>7, <1>8, FewerOwned

LEMMA InitPlaced == CollectionInit => Placed
  <1> SUFFICES ASSUME CollectionInit PROVE Placed
        OBVIOUS
  <1>1. /\ owned = <<>> /\ external = <<>> /\ initialized = FALSE
        /\ object = [o \in Objects |-> Unborn] /\ slots = [o \in Objects |-> Empty]
        BY DEF CollectionInit
  <1>2. <<>> \in Seq(Objects) /\ Len(<<>>) = 0 /\ DOMAIN <<>> = {}
        BY EmptySeq
  <1>3. Unborn \in ObjectRecord /\ Unborn.count = 0 /\ Unborn.made = 0 /\ Unborn.life # "live"
    <2>1. 0 \in 0 .. MaxComponents /\ 0 \in 0 .. MaxMade
          BY Positive
    <2> QED  BY <2>1 DEF Unborn, ObjectRecord
  <1>4. Empty \in [1 .. MaxComponents -> Components \cup {None}]
        BY DEF Empty
  <1>5. CollectionTyped
    <2>1. 0 <= MaxObjects /\ 0 <= MaxExternal
          BY Positive
    <2> QED  BY <1>1, <1>2, <1>3, <1>4, <2>1 DEF CollectionTyped
  <1>6. OnePlaceEach
        BY <1>1, <1>2 DEF OnePlaceEach
  <1>7. \A o \in Objects : object[o] = Unborn
        BY <1>1
  <1>8. LiveInPlace
        BY <1>1, <1>2, <1>3, <1>7 DEF LiveInPlace, Live
  <1>9. ComponentsInPlace
    <2>1. 1 .. 0 = {}
          OBVIOUS
    <2> QED  BY <1>3, <1>7, <2>1 DEF ComponentsInPlace
  <1> QED  BY <1>5, <1>6, <1>8, <1>9 DEF Placed

LEMMA NextPlaced ==
    ASSUME Placed, [CollectionNext]_collectionVars
    PROVE  Placed'
  <1> USE StillPlaces DEF members
  <1>1. CASE Activate
        BY <1>1 DEF Activate
  <1>2. CASE BeginFrame
        BY <1>2 DEF BeginFrame
  <1>3. ASSUME Engine PROVE Placed'
    <2>1. ASSUME NEW f \in CollectionLoops, Visit(f) PROVE Placed'
          BY <2>1 DEF Visit
    <2>2. ASSUME NEW f \in CollectionLoops, EndLoop(f) PROVE Placed'
          BY <2>2, EndLoopPlaces
    <2>3. CASE BeginObjectUpdate
          BY <2>3 DEF BeginObjectUpdate
    <2>4. ASSUME NEW f \in Methods, Begin(f) PROVE Placed'
          BY <2>4 DEF Begin
    <2>5. ASSUME NEW f \in Methods, CallNext(f) PROVE Placed'
          BY <2>5 DEF CallNext
    <2>6. ASSUME NEW f \in Methods, EndMethod(f) PROVE Placed'
          BY <2>6, EndMethodPlaces
    <2>7. CASE AwakeAdded
          BY <2>7 DEF AwakeAdded
    <2>8. CASE StartAdded
          BY <2>8 DEF StartAdded
    <2>9. CASE ComponentReturns
          BY <2>9 DEF ComponentReturns
    <2> QED  BY <1>3, <2>1, <2>2, <2>3, <2>4, <2>5, <2>6, <2>7, <2>8, <2>9 DEF Engine
  <1>4. ASSUME Game PROVE Placed'
    <2>1. ASSUME NEW o \in Objects, NEW n \in 0 .. 1, Spawn(o, n) PROVE Placed'
          BY <2>1, SpawnPlaces
    <2>2. ASSUME NEW k \in DOMAIN owned, Destroy(k) \/ PersistFull(k) PROVE Placed'
          BY <2>2, DestroyPlaces DEF PersistFull
    <2>3. ASSUME NEW k \in DOMAIN owned, Persist(k) PROVE Placed'
          BY <2>3, PersistPlaces
    <2>4. ASSUME NEW o \in Objects, SetActive(o) PROVE Placed'
          BY <2>4, SetActivePlaces
    <2>5. ASSUME NEW o \in Objects, AddComponent(o) PROVE Placed'
          BY <2>5, AddComponentPlaces
    <2>6. ASSUME NEW c \in Components, SetEnabled(c) PROVE Placed'
          BY <2>6 DEF SetEnabled
    <2>7. ASSUME NEW o \in Objects, NEW k \in 1 .. MaxComponents, RemoveComponent(o, k) PROVE Placed'
          BY <2>7, RemoveComponentPlaces
    <2>8. CASE RemoveInactive
          BY <2>8, RemoveInactivePlaces
    <2>9. CASE Clear
          BY <2>9, ClearPlaces
    <2> QED  BY <1>4, <2>1, <2>2, <2>3, <2>4, <2>5, <2>6, <2>7, <2>8, <2>9 DEF Game
  <1>5. CASE UNCHANGED collectionVars
        BY <1>5 DEF collectionVars
  <1> QED  BY <1>1, <1>2, <1>3, <1>4, <1>5 DEF CollectionNext

(* The arrays keep within their limits, an object is in at most one of     *)
(* them and only once, none that is dead is in either, and the components  *)
(* an object counts are its own.                                           *)
THEOREM CollectionTypeCorrect == CollectionSpec => []CollectionTypeOK
  <1>1. CollectionInit => Placed
        BY InitPlaced
  <1>2. Placed /\ [CollectionNext]_collectionVars => Placed'
        BY NextPlaced
  <1>3. Placed => CollectionTypeOK
        BY PlacedIsTypeOK
  <1> QED  BY <1>1, <1>2, <1>3, PTL DEF CollectionSpec

-----------------------------------------------------------------------------
(* The calls in progress.                                                  *)
AddedCalls == {"awakeAdded", "startAdded"}
FrameLoops == {"update", "updateExternals", "lateUpdate", "lateUpdateExternals"}
UpdateLoops == {"update", "updateExternals"}

Frame ==
    {f \in [fn : CollectionLoops \cup Methods \cup AddedCalls,
            of : Objects \cup {None}, i : Nat, c : Components \cup {None}] :
        /\ f.fn \in CollectionLoops => f.of = None /\ f.c = None /\ f.i >= 1
        /\ f.fn \notin CollectionLoops => f.of \in Objects
        /\ f.fn \in AddedCalls => <<f.of, f.i>> \in Components}

(* The loops of a frame are at the bottom of the stack, and the update of  *)
(* an object is called by one of them and by nothing else.                 *)
UpdatesAtBottom ==
    \A k \in DOMAIN stack :
        /\ stack[k].fn \in FrameLoops => k = 1
        /\ stack[k].fn = "updateOf" =>
                /\ k = 2 /\ stack[1].fn \in UpdateLoops
                /\ stack[k].i = 0 => Len(stack) = 2 /\ stack[k].c = None

Stacked == stack \in Seq(Frame) /\ UpdatesAtBottom

LEMMA StackShape ==
    ASSUME Stacked
    PROVE  /\ Len(stack) \in Nat /\ DOMAIN stack = 1 .. Len(stack)
           /\ \A k \in 1 .. Len(stack) : stack[k] \in Frame
           /\ stack # <<>> => Len(stack) >= 1 /\ Top = stack[Len(stack)] /\ Top \in Frame
           /\ stack = <<>> => Len(stack) = 0
  <1>1. stack \in Seq(Frame)
        BY DEF Stacked
  <1>2. /\ Len(stack) \in Nat /\ DOMAIN stack = 1 .. Len(stack)
        /\ \A k \in 1 .. Len(stack) : stack[k] \in Frame
        BY <1>1, LenProperties, ElementOfSeq
  <1>3. (stack = <<>> => Len(stack) = 0) /\ (stack # <<>> => Len(stack) >= 1)
        BY <1>1, EmptySeq
  <1>4. stack # <<>> => Len(stack) \in 1 .. Len(stack)
        BY <1>2, <1>3
  <1> QED  BY <1>2, <1>3, <1>4 DEF Top, Last

LEMMA FrontShape ==
    ASSUME NEW S, NEW s \in Seq(S), s # <<>>
    PROVE  /\ Front(s) \in Seq(S) /\ Len(Front(s)) = Len(s) - 1
           /\ DOMAIN Front(s) = 1 .. Len(s) - 1
           /\ \A k \in 1 .. Len(s) - 1 : Front(s)[k] = s[k]
  <1>1. Len(s) \in Nat \ {0} /\ \A i \in 1 .. Len(s) : s[i] \in S
        BY EmptySeq, ElementOfSeq
  <1>2. 1 \in Int /\ Len(s) - 1 \in Int /\ \A i \in 1 .. Len(s) - 1 : s[i] \in S
        BY <1>1
  <1>3. /\ Front(s) \in Seq(S)
        /\ Len(Front(s)) = IF 1 <= Len(s) - 1 THEN Len(s) - 1 - 1 + 1 ELSE 0
        /\ \A i \in 1 .. Len(s) - 1 - 1 + 1 : Front(s)[i] = s[1 + i - 1]
        BY <1>2, SubSeqProperties DEF Front
  <1>4. Len(Front(s)) = Len(s) - 1
    <2>1. \A n \in Nat \ {0} : (IF 1 <= n - 1 THEN n - 1 - 1 + 1 ELSE 0) = n - 1
          OBVIOUS
    <2>2. Len(s) \in Nat \ {0}
          BY <1>1
    <2> QED  BY <1>3, <2>1, <2>2
  <1>5. \A k \in 1 .. Len(s) - 1 : k \in 1 .. Len(s) - 1 - 1 + 1 /\ 1 + k - 1 = k
        BY <1>1
  <1>6. DOMAIN Front(s) = 1 .. Len(s) - 1
        BY <1>3, <1>4, LenProperties
  <1> QED  BY <1>3, <1>4, <1>5, <1>6

(* What each way to change the stack leaves.                               *)
LEMMA Pushed ==
    ASSUME NEW S, NEW s \in Seq(S), NEW f \in S
    PROVE  /\ Append(s, f) \in Seq(S) /\ Len(Append(s, f)) = Len(s) + 1
           /\ DOMAIN Append(s, f) = 1 .. Len(s) + 1
           /\ \A k \in 1 .. Len(s) : Append(s, f)[k] = s[k]
           /\ Append(s, f)[Len(s) + 1] = f
  <1>1. /\ Append(s, f) \in Seq(S) /\ Len(Append(s, f)) = Len(s) + 1
        /\ \A k \in 1 .. Len(s) : Append(s, f)[k] = s[k]
        /\ Append(s, f)[Len(s) + 1] = f
        BY AppendProperties
  <1> QED  BY <1>1, LenProperties

LEMMA Replaced ==
    ASSUME stack \in Seq(Frame), stack # <<>>, NEW f \in Frame, Replace(f)
    PROVE  /\ stack' \in Seq(Frame) /\ Len(stack') = Len(stack) /\ DOMAIN stack' = DOMAIN stack
           /\ \A k \in 1 .. Len(stack) - 1 : stack'[k] = stack[k]
           /\ stack'[Len(stack)] = f
  <1>1. /\ Front(stack) \in Seq(Frame) /\ Len(Front(stack)) = Len(stack) - 1
        /\ \A k \in 1 .. Len(stack) - 1 : Front(stack)[k] = stack[k]
        BY FrontShape
  <1>2. Len(stack) \in Nat /\ Len(stack) - 1 + 1 = Len(stack) /\ DOMAIN stack = 1 .. Len(stack)
        BY LenProperties
  <1>3. stack' = Append(Front(stack), f)
        BY DEF Replace
  <1>4. /\ stack' \in Seq(Frame) /\ Len(stack') = Len(Front(stack)) + 1
        /\ DOMAIN stack' = 1 .. Len(Front(stack)) + 1
        /\ \A k \in 1 .. Len(Front(stack)) : stack'[k] = Front(stack)[k]
        /\ stack'[Len(Front(stack)) + 1] = f
        BY <1>1, <1>3, Pushed
  <1> QED  BY <1>1, <1>2, <1>4

LEMMA Returned ==
    ASSUME stack \in Seq(Frame), stack # <<>>, Return
    PROVE  /\ stack' \in Seq(Frame) /\ Len(stack') = Len(stack) - 1
           /\ DOMAIN stack' = 1 .. Len(stack) - 1
           /\ \A k \in 1 .. Len(stack) - 1 : stack'[k] = stack[k]
  BY FrontShape DEF Return

LEMMA CalledFrom ==
    ASSUME stack \in Seq(Frame), stack # <<>>, NEW f \in Frame, NEW g \in Frame, Call(f, g)
    PROVE  /\ stack' \in Seq(Frame) /\ Len(stack') = Len(stack) + 1
           /\ DOMAIN stack' = 1 .. Len(stack) + 1
           /\ \A k \in 1 .. Len(stack) - 1 : stack'[k] = stack[k]
           /\ stack'[Len(stack)] = f /\ stack'[Len(stack) + 1] = g
  <1> DEFINE s == Append(Front(stack), f)
  <1>1. /\ Front(stack) \in Seq(Frame) /\ Len(Front(stack)) = Len(stack) - 1
        /\ \A k \in 1 .. Len(stack) - 1 : Front(stack)[k] = stack[k]
        BY FrontShape
  <1>2. Len(stack) \in Nat /\ Len(stack) - 1 + 1 = Len(stack) /\ Len(stack) >= 1
        BY LenProperties, EmptySeq
  <1>3. /\ s \in Seq(Frame) /\ Len(s) = Len(Front(stack)) + 1
        /\ \A k \in 1 .. Len(Front(stack)) : s[k] = Front(stack)[k]
        /\ s[Len(Front(stack)) + 1] = f
        BY <1>1, Pushed
  <1>4. stack' = Append(s, g)
        BY DEF Call
  <1> HIDE DEF s
  <1>5. /\ s \in Seq(Frame) /\ Len(s) = Len(stack)
        /\ \A k \in 1 .. Len(stack) - 1 : s[k] = stack[k]
        /\ s[Len(stack)] = f
        BY <1>1, <1>2, <1>3
  <1>6. /\ stack' \in Seq(Frame) /\ Len(stack') = Len(s) + 1
        /\ DOMAIN stack' = 1 .. Len(s) + 1
        /\ \A k \in 1 .. Len(s) : stack'[k] = s[k]
        /\ stack'[Len(s) + 1] = g
        BY <1>4, <1>5, Pushed
  <1>7. Len(stack) \in 1 .. Len(stack) /\ \A k \in 1 .. Len(stack) - 1 : k \in 1 .. Len(stack)
        BY <1>2
  <1> QED  BY <1>5, <1>6, <1>7

-----------------------------------------------------------------------------
(* The loop of a frame that is running, where it is, and the object whose  *)
(* update it has just called.                                              *)
Updating(f) == stack # <<>> /\ stack[1].fn = f
Place       == stack[1].i
Pending(o)  == Len(stack) = 2 /\ stack[2].fn = "updateOf" /\ stack[2].i = 0 /\ stack[2].of = o

(* A step during which no loop of update moves on.                         *)
Steady ==
    /\ \A f \in {"update", "updateExternals", "lateUpdate"} : Updating(f)' => Updating(f)
    /\ \A f \in UpdateLoops : Updating(f)' => Place' = Place
    /\ \A o \in Objects : ~Pending(o)'

LEMMA NotEmpty ==
    ASSUME NEW S, NEW s \in Seq(S)
    PROVE  s # <<>> <=> Len(s) >= 1
  BY EmptySeq

LEMMA PlaceIsNat ==
    ASSUME Stacked, stack # <<>>
    PROVE  Place \in Nat
  <1>1. Len(stack) \in Nat /\ Len(stack) >= 1
        BY StackShape
  <1>2. 1 \in 1 .. Len(stack)
        BY <1>1
  <1>3. stack[1] \in Frame
        BY <1>2, StackShape
  <1> QED  BY <1>3 DEF Place, Frame

LEMMA TopReplaced ==
    ASSUME Stacked, stack # <<>>, NEW f \in Frame, Replace(f), Top.fn \notin UpdateLoops,
           \/ f.fn = Top.fn
           \/ f.fn \in AddedCalls
           \/ f.fn = "lateUpdateExternals" /\ Top.fn = "lateUpdate",
           f.fn = "updateOf" => f.i # 0
    PROVE  Stacked' /\ Steady
  <1> DEFINE n == Len(stack)
  <1>1. /\ stack' \in Seq(Frame) /\ Len(stack') = n /\ DOMAIN stack' = DOMAIN stack
        /\ \A k \in 1 .. n - 1 : stack'[k] = stack[k]
        /\ stack'[n] = f
        BY Replaced DEF Stacked
  <1>0. n \in Nat /\ n >= 1
        BY StackShape
  <1>2. DOMAIN stack = 1 .. n /\ Top = stack[n]
        BY StackShape
  <1> HIDE DEF n
  <1>3. /\ \A k \in 1 .. n : k = n \/ (k \in 1 .. n - 1 /\ stack'[k] = stack[k])
        /\ n \in 1 .. n /\ 1 \in 1 .. n
    <2>1. \A k \in 1 .. n : k = n \/ k \in 1 .. n - 1
          BY <1>0
    <2> QED  BY <1>0, <1>1, <2>1
  <1>4. /\ \A k \in 1 .. n : stack[k].fn \in FrameLoops => k = 1
        /\ \A k \in 1 .. n : stack[k].fn = "updateOf" =>
                /\ k = 2 /\ stack[1].fn \in UpdateLoops
                /\ stack[k].i = 0 => n = 2 /\ stack[k].c = None
        BY <1>2 DEF Stacked, UpdatesAtBottom, n
  <1>5. f.fn \in FrameLoops => n = 1
        BY <1>2, <1>3, <1>4 DEF FrameLoops, AddedCalls
  <1>6. f.fn = "updateOf" => n = 2 /\ stack'[1].fn \in UpdateLoops
    <2>1. ASSUME f.fn = "updateOf" PROVE n = 2 /\ stack[1].fn \in UpdateLoops
      <3>1. f.fn = Top.fn
            BY <2>1 DEF AddedCalls
      <3> QED  BY <1>2, <1>3, <1>4, <2>1, <3>1
    <2>2. n = 2 => 1 \in 1 .. n - 1
          OBVIOUS
    <2> QED  BY <1>1, <2>1, <2>2
  <1>7. ASSUME NEW k \in 1 .. n - 1, stack[k].fn = "updateOf"
        PROVE  stack'[1].fn \in UpdateLoops
    <2>0. k \in 1 .. n
          BY <1>0
    <2>1. k = 2 /\ stack[1].fn \in UpdateLoops
          BY <1>4, <1>7, <2>0
    <2>2. 1 \in 1 .. n - 1
          BY <1>0, <2>1
    <2> QED  BY <1>1, <2>1, <2>2
  <1>8. UpdatesAtBottom'
    <2> SUFFICES ASSUME NEW k \in 1 .. n
                 PROVE  /\ stack'[k].fn \in FrameLoops => k = 1
                        /\ stack'[k].fn = "updateOf" =>
                             /\ k = 2 /\ stack'[1].fn \in UpdateLoops
                             /\ stack'[k].i = 0 => n = 2 /\ stack'[k].c = None
          BY <1>1, <1>2 DEF UpdatesAtBottom
    <2>1. CASE k = n
          BY <1>1, <1>5, <1>6, <2>1
    <2>2. CASE k # n
          BY <1>3, <1>4, <1>7, <2>2
    <2> QED  BY <2>1, <2>2
  <1>9. stack' # <<>>
        BY <1>0, <1>1, NotEmpty
  <1>10. n # 1 => stack'[1] = stack[1]
        BY <1>0, <1>3
  <1>11. ASSUME NEW g \in {"update", "updateExternals", "lateUpdate"}, stack'[1].fn = g
         PROVE  stack[1].fn = g /\ (g \in UpdateLoops => stack'[1].i = stack[1].i)
    <2>1. CASE n = 1
          BY <1>1, <1>2, <1>11, <2>1 DEF UpdateLoops, AddedCalls
    <2>2. CASE n # 1
          BY <1>10, <1>11, <2>2
    <2> QED  BY <2>1, <2>2
  <1>12. \A o \in Objects : ~Pending(o)'
    <2> SUFFICES ASSUME n = 2, stack'[2].fn = "updateOf", stack'[2].i = 0 PROVE FALSE
          BY <1>1 DEF Pending
    <2> QED  BY <1>1
  <1> QED  BY <1>1, <1>8, <1>9, <1>11, <1>12 DEF Stacked, Steady, Updating, Place, UpdateLoops

LEMMA TopReturned ==
    ASSUME Stacked, stack # <<>>, Return, Top.fn \notin UpdateLoops
    PROVE  Stacked' /\ Steady
  <1> DEFINE n == Len(stack)
  <1>1. /\ stack' \in Seq(Frame) /\ Len(stack') = n - 1 /\ DOMAIN stack' = 1 .. n - 1
        /\ \A k \in 1 .. n - 1 : stack'[k] = stack[k]
        BY Returned DEF Stacked
  <1>0. n \in Nat /\ n >= 1
        BY StackShape
  <1>2. DOMAIN stack = 1 .. n /\ Top = stack[n]
        BY StackShape
  <1>3. stack' # <<>> <=> n - 1 >= 1
        BY <1>1, NotEmpty
  <1> HIDE DEF n
  <1>4. /\ \A k \in 1 .. n : stack[k].fn \in FrameLoops => k = 1
        /\ \A k \in 1 .. n : stack[k].fn = "updateOf" =>
                /\ k = 2 /\ stack[1].fn \in UpdateLoops
                /\ stack[k].i = 0 => n = 2 /\ stack[k].c = None
        BY <1>2 DEF Stacked, UpdatesAtBottom, n
  <1>5. \A k \in 1 .. n - 1 : k \in 1 .. n /\ 1 \in 1 .. n - 1 /\ (k = 2 => n # 2)
        BY <1>0
  <1>6. UpdatesAtBottom'
        BY <1>1, <1>4, <1>5 DEF UpdatesAtBottom
  <1>7. stack' # <<>> => stack # <<>> /\ stack'[1] = stack[1]
        BY <1>0, <1>1, <1>3
  <1>8. \A o \in Objects : ~Pending(o)'
    <2> SUFFICES ASSUME n - 1 = 2, stack'[2].fn = "updateOf", stack'[2].i = 0 PROVE FALSE
          BY <1>1 DEF Pending
    <2>1. 2 \in 1 .. n - 1
          BY <1>0
    <2> QED  BY <1>1, <1>4, <1>5, <2>1
  <1> QED  BY <1>1, <1>6, <1>7, <1>8 DEF Stacked, Steady, Updating, Place

LEMMA TopCalls ==
    ASSUME Stacked, stack # <<>>, NEW f \in Frame, NEW g \in Frame, Call(f, g),
           Top.fn \notin UpdateLoops, f.fn = Top.fn, f.fn = "updateOf" => f.i # 0,
           g.fn \in {"awake", "start", "lateUpdateOf"}
    PROVE  Stacked' /\ Steady
  <1> DEFINE n == Len(stack)
  <1>1. /\ stack' \in Seq(Frame) /\ Len(stack') = n + 1 /\ DOMAIN stack' = 1 .. n + 1
        /\ \A k \in 1 .. n - 1 : stack'[k] = stack[k]
        /\ stack'[n] = f /\ stack'[n + 1] = g
        BY CalledFrom DEF Stacked
  <1>0. n \in Nat /\ n >= 1
        BY StackShape
  <1>2. DOMAIN stack = 1 .. n /\ Top = stack[n]
        BY StackShape
  <1>3. stack' # <<>>
    <2>1. Len(stack') >= 1
          BY <1>0, <1>1
    <2> QED  BY <1>1, <2>1, NotEmpty
  <1> HIDE DEF n
  <1>4. /\ \A k \in 1 .. n : stack[k].fn \in FrameLoops => k = 1
        /\ \A k \in 1 .. n : stack[k].fn = "updateOf" =>
                /\ k = 2 /\ stack[1].fn \in UpdateLoops
                /\ stack[k].i = 0 => n = 2 /\ stack[k].c = None
        BY <1>2 DEF Stacked, UpdatesAtBottom, n
  <1>5. /\ \A k \in 1 .. n + 1 : k = n + 1 \/ k \in 1 .. n
        /\ \A k \in 1 .. n : k \in 1 .. n - 1 \/ k = n
        /\ 1 \in 1 .. n /\ n \in 1 .. n
        BY <1>0
  <1>6. \A k \in 1 .. n : stack'[k].fn = stack[k].fn
        BY <1>1, <1>2, <1>5
  <1>7. \A k \in 1 .. n : stack[k].fn = "updateOf" => stack'[k].i # 0
    <2> SUFFICES ASSUME NEW k \in 1 .. n, stack[k].fn = "updateOf", stack'[k].i = 0 PROVE FALSE
          OBVIOUS
    <2>1. CASE k = n
          BY <1>1, <1>2, <2>1
    <2>2. CASE k # n
      <3>1. stack[k].i = 0 /\ k = 2
            BY <1>1, <1>4, <1>5, <2>2
      <3> QED  BY <1>4, <2>2, <3>1
    <2> QED  BY <2>1, <2>2
  <1>8. g.fn \notin FrameLoops /\ g.fn # "updateOf"
        BY DEF FrameLoops
  <1>9. UpdatesAtBottom'
    <2> SUFFICES ASSUME NEW k \in 1 .. n + 1
                 PROVE  /\ stack'[k].fn \in FrameLoops => k = 1
                        /\ stack'[k].fn = "updateOf" =>
                             /\ k = 2 /\ stack'[1].fn \in UpdateLoops
                             /\ stack'[k].i = 0 => n + 1 = 2 /\ stack'[k].c = None
          BY <1>1 DEF UpdatesAtBottom
    <2>1. CASE k = n + 1
          BY <1>1, <1>8, <2>1
    <2>2. CASE k \in 1 .. n
          BY <1>4, <1>5, <1>6, <1>7, <2>2
    <2> QED  BY <1>5, <2>1, <2>2
  <1>10. /\ stack'[1].fn = stack[1].fn
         /\ stack[1].fn \in UpdateLoops => stack'[1] = stack[1]
    <2>1. stack[1].fn \in UpdateLoops => n # 1
          BY <1>2
    <2> QED  BY <1>1, <1>5, <1>6, <2>1
  <1>11. \A o \in Objects : ~Pending(o)'
    <2> SUFFICES ASSUME n + 1 = 2, stack'[2].fn = "updateOf" PROVE FALSE
          BY <1>1 DEF Pending
    <2> QED  BY <1>1, <1>8
  <1> QED  BY <1>1, <1>3, <1>9, <1>10, <1>11 DEF Stacked, Steady, Updating, Place

(* The game's calls come from a method that is running, or from outside of *)
(* the loops; what they put on the stack goes on top.                      *)
LEMMA Extended ==
    ASSUME Stacked, GameCalls, stack' \in Seq(Frame), Len(stack') >= Len(stack),
           \A k \in 1 .. Len(stack) : stack'[k] = stack[k],
           \A k \in 1 .. Len(stack') : k > Len(stack) => stack'[k].fn \in {"awake", "start"} \cup AddedCalls
    PROVE  Stacked' /\ Steady
  <1> DEFINE n == Len(stack)
             m == Len(stack')
  <1>0. n \in Nat /\ m \in Nat /\ m >= n
        BY StackShape, LenProperties
  <1>1. /\ DOMAIN stack = 1 .. n /\ DOMAIN stack' = 1 .. m
        /\ \A k \in 1 .. n : stack'[k] = stack[k]
        /\ \A k \in 1 .. m : k > n => stack'[k].fn \in {"awake", "start"} \cup AddedCalls
        /\ (stack # <<>> <=> n >= 1) /\ (stack' # <<>> <=> m >= 1)
        BY StackShape, LenProperties, NotEmpty DEF Stacked
  <1>2. stack # <<>> => Top.c # None /\ Top = stack[n]
        BY StackShape DEF GameCalls
  <1>3. /\ \A k \in 1 .. n : stack[k].fn \in FrameLoops => k = 1
        /\ \A k \in 1 .. n : stack[k].fn = "updateOf" =>
                /\ k = 2 /\ stack[1].fn \in UpdateLoops
                /\ stack[k].i = 0 => n = 2 /\ stack[k].c = None
        BY <1>1 DEF Stacked, UpdatesAtBottom
  <1> HIDE DEF n, m
  <1>4. \A k \in 1 .. m : k \in 1 .. n \/ k > n
        BY <1>0
  <1>5. /\ \A k \in 1 .. n : 1 \in 1 .. n /\ k \in 1 .. m
        /\ 2 \in 1 .. n => n >= 1
        /\ n >= 1 => 1 \in 1 .. n
        BY <1>0
  <1>6. \A k \in 1 .. n : stack[k].fn = "updateOf" => stack[k].i # 0
    <2> SUFFICES ASSUME NEW k \in 1 .. n, stack[k].fn = "updateOf", stack[k].i = 0 PROVE FALSE
          OBVIOUS
    <2>1. n = 2 /\ k = 2 /\ stack[n].c = None
          BY <1>3
    <2> QED  BY <1>1, <1>2, <2>1
  <1>7. \A k \in 1 .. m : k > n => stack'[k].fn \notin FrameLoops /\ stack'[k].fn # "updateOf"
        BY <1>1 DEF AddedCalls, FrameLoops
  <1>8. UpdatesAtBottom'
    <2> SUFFICES ASSUME NEW k \in 1 .. m
                 PROVE  /\ stack'[k].fn \in FrameLoops => k = 1
                        /\ stack'[k].fn = "updateOf" =>
                             /\ k = 2 /\ stack'[1].fn \in UpdateLoops
                             /\ stack'[k].i = 0 => m = 2 /\ stack'[k].c = None
          BY <1>1 DEF UpdatesAtBottom, m
    <2> QED  BY <1>1, <1>3, <1>4, <1>5, <1>6, <1>7
  <1>9. stack' # <<>> => \/ stack # <<>> /\ stack'[1] = stack[1]
                         \/ stack'[1].fn \notin FrameLoops
    <2>1. CASE n >= 1
          BY <1>1, <1>5, <2>1
    <2>2. CASE ~(n >= 1)
      <3>1. m >= 1 => 1 \in 1 .. m /\ 1 > n
            BY <1>0, <2>2
      <3> QED  BY <1>1, <1>7, <3>1
    <2> QED  BY <2>1, <2>2
  <1>10. \A o \in Objects : ~Pending(o)'
    <2> SUFFICES ASSUME m = 2, stack'[2].fn = "updateOf", stack'[2].i = 0 PROVE FALSE
          BY DEF Pending, m
    <2>1. 2 \in 1 .. m
          BY <2>1
    <2> QED  BY <1>1, <1>4, <1>6, <1>7, <2>1
  <1> QED  BY <1>8, <1>9, <1>10 DEF Stacked, Steady, Updating, Place, FrameLoops, UpdateLoops

LEMMA FramesMade ==
    /\ \A f \in Methods, o \in Objects : Method(f, o) \in Frame
    /\ \A c \in Components : Added(c) \in Frame
    /\ \A f \in CollectionLoops, i \in Nat : i >= 1 => Loop(f, i) \in Frame
  <1>1. ASSUME NEW f \in Methods, NEW o \in Objects PROVE Method(f, o) \in Frame
    <2>1. f \notin AddedCalls /\ f \notin CollectionLoops
          BY DEF Methods, AddedCalls, CollectionLoops
    <2> QED  BY <2>1 DEF Method, Frame
  <1>2. ASSUME NEW c \in Components PROVE Added(c) \in Frame
    <2>1. PICK o \in Objects, k \in 1 .. MaxMade : c = <<o, k>>
          BY DEF Components
    <2>2. Added(c) = [fn |-> "awakeAdded", of |-> o, i |-> k, c |-> None]
          BY <2>1 DEF Added
    <2>3. "awakeAdded" \in AddedCalls /\ "awakeAdded" \notin CollectionLoops /\ k \in Nat
          BY DEF AddedCalls, CollectionLoops
    <2>4. <<o, k>> \in Components
          BY DEF Components
    <2>5. [fn |-> "awakeAdded", of |-> o, i |-> k, c |-> None] \in Frame
          BY <2>3, <2>4 DEF Frame
    <2> QED  BY <2>2, <2>5
  <1>3. ASSUME NEW f \in CollectionLoops, NEW i \in Nat, i >= 1 PROVE Loop(f, i) \in Frame
    <2>1. f \notin AddedCalls
          BY DEF AddedCalls, CollectionLoops
    <2> QED  BY <1>3, <2>1 DEF Loop, Frame
  <1> QED  BY <1>1, <1>2, <1>3

LEMMA GameSteady ==
    ASSUME Stacked, GameCalls, stack' = stack
    PROVE  Stacked' /\ Steady
  <1>1. stack \in Seq(Frame) /\ Len(stack) \in Nat
        BY StackShape DEF Stacked
  <1>2. \A k \in 1 .. Len(stack) : ~(k > Len(stack))
        BY <1>1
  <1>3. Len(stack) >= Len(stack)
        BY <1>1
  <1> QED  BY <1>1, <1>2, <1>3, Extended

LEMMA AddedSteady ==
    ASSUME Stacked, GameCalls, NEW c \in Components, stack' = Append(stack, Added(c))
    PROVE  Stacked' /\ Steady
  <1>1. stack \in Seq(Frame) /\ Len(stack) \in Nat /\ Added(c) \in Frame
        BY StackShape, FramesMade DEF Stacked
  <1>2. /\ stack' \in Seq(Frame) /\ Len(stack') = Len(stack) + 1
        /\ \A k \in 1 .. Len(stack) : stack'[k] = stack[k]
        /\ stack'[Len(stack) + 1] = Added(c)
        BY <1>1, Pushed
  <1>3. \A k \in 1 .. Len(stack') : k > Len(stack) => k = Len(stack) + 1
        BY <1>1, <1>2
  <1>4. Len(stack') >= Len(stack)
        BY <1>1, <1>2
  <1>5. Added(c).fn \in AddedCalls
        BY DEF Added, AddedCalls
  <1>6. \A k \in 1 .. Len(stack') : k > Len(stack) => stack'[k].fn \in {"awake", "start"} \cup AddedCalls
        BY <1>2, <1>3, <1>5
  <1> QED  BY <1>2, <1>4, <1>6, Extended

LEMMA SpawnSteady ==
    ASSUME Stacked, GameCalls, NEW o \in Objects,
           stack' = stack \o <<Method("start", o), Method("awake", o)>>
    PROVE  /\ Stacked' /\ Steady /\ stack' \in Seq(Frame) /\ Len(stack') = Len(stack) + 2
           /\ \A k \in 1 .. Len(stack) : stack'[k] = stack[k]
           /\ stack'[Len(stack) + 1] = Method("start", o)
           /\ stack'[Len(stack) + 2] = Method("awake", o)
  <1> DEFINE g == Method("start", o)
             h == Method("awake", o)
             t == <<g, h>>
             n == Len(stack)
  <1>1. g \in Frame /\ h \in Frame /\ g.fn = "start" /\ h.fn = "awake"
        BY FramesMade DEF Methods, Method
  <1>2. stack \in Seq(Frame) /\ n \in Nat
        BY StackShape DEF Stacked
  <1> HIDE DEF g, h
  <1>3. t \in Seq(Frame) /\ Len(t) = 2 /\ t[1] = g /\ t[2] = h
        BY <1>1
  <1>4. stack' = stack \o t
        BY DEF g, h
  <1> HIDE DEF t
  <1>5. /\ stack' \in Seq(Frame) /\ Len(stack') = n + 2
        /\ \A i \in 1 .. n + 2 : stack'[i] = IF i <= n THEN stack[i] ELSE t[i - n]
        BY <1>2, <1>3, <1>4, ConcatProperties
  <1> HIDE DEF n
  <1>6. /\ \A k \in 1 .. n : k \in 1 .. n + 2 /\ k <= n
        /\ \A k \in 1 .. n + 2 : k > n => k = n + 1 \/ k = n + 2
        /\ n + 1 \in 1 .. n + 2 /\ ~(n + 1 <= n) /\ n + 1 - n = 1
        /\ n + 2 \in 1 .. n + 2 /\ ~(n + 2 <= n) /\ n + 2 - n = 2
        /\ n + 2 >= n
        BY <1>2
  <1>7. /\ \A k \in 1 .. n : stack'[k] = stack[k]
        /\ stack'[n + 1] = g /\ stack'[n + 2] = h
    <2>1. \A k \in 1 .. n : stack'[k] = stack[k]
          BY <1>5, <1>6
    <2>2. stack'[n + 1] = t[1]
      <3> DEFINE j == n + 1
      <3>1. n \in Nat
            BY <1>2
      <3>2. j \in 1 .. n + 2 /\ ~(j <= n) /\ j - n = 1
            BY <3>1
      <3> HIDE DEF j
      <3>3. stack'[j] = t[1]
            BY <1>5, <3>2
      <3> QED  BY <3>3 DEF j
    <2>3. stack'[n + 2] = t[2]
      <3> DEFINE j == n + 2
      <3>1. n \in Nat
            BY <1>2
      <3>2. j \in 1 .. n + 2 /\ ~(j <= n) /\ j - n = 2
            BY <3>1
      <3> HIDE DEF j
      <3>3. stack'[j] = t[2]
            BY <1>5, <3>2
      <3> QED  BY <3>3 DEF j
    <2> QED  BY <1>3, <2>1, <2>2, <2>3
  <1>8. \A k \in 1 .. n + 2 : k > n => stack'[k].fn \in {"awake", "start"} \cup AddedCalls
        BY <1>1, <1>6, <1>7
  <1>9. Stacked' /\ Steady
        BY <1>5, <1>6, <1>7, <1>8, Extended DEF n
  <1> QED  BY <1>5, <1>7, <1>9 DEF n, g, h

(* A step of a method, or of a component that was added, moves no loop.    *)
LEMMA EngineSteady ==
    ASSUME Stacked, object \in [Objects -> ObjectRecord],
           slots \in [Objects -> [1 .. MaxComponents -> Components \cup {None}]],
           \/ \E f \in Methods : Begin(f) \/ CallNext(f) \/ EndMethod(f)
           \/ AwakeAdded \/ StartAdded \/ ComponentReturns
    PROVE  Stacked' /\ Steady
  <1> DEFINE t == Top
  <1>1. stack # <<>> /\ t \in Frame /\ t = Top
        BY StackShape DEF Begin, CallNext, EndMethod, AwakeAdded, StartAdded, ComponentReturns, Quiet
  <1> HIDE DEF t
  <1>2. t.fn \notin UpdateLoops /\ Return => Stacked' /\ Steady
        BY <1>1, TopReturned
  <1>3. ASSUME NEW f \in Methods, Begin(f) PROVE Stacked' /\ Steady
    <2>1. t.fn = f /\ f # "updateOf" /\ f \notin CollectionLoops /\ f \notin AddedCalls /\ f \notin UpdateLoops
          BY <1>1, <1>3 DEF Begin, Quiet, Methods, CollectionLoops, AddedCalls, UpdateLoops
    <2> DEFINE e == [t EXCEPT !.i = 1]
               g == Method("awake", t.of)
    <2>2. e \in Frame /\ e.fn = f
          BY <1>1, <2>1 DEF Frame
    <2>3. g \in Frame /\ g.fn = "awake"
      <3>1. t.of \in Objects
            BY <1>1, <2>1 DEF Frame
      <3> QED  BY <3>1, FramesMade DEF Methods, Method
    <2>4. Return \/ Replace(e) \/ Call(e, g)
          BY <1>1, <1>3 DEF Begin, Enter
    <2> HIDE DEF e, g
    <2>5. CASE Return
          BY <1>2, <2>1, <2>5
    <2>6. CASE Replace(e)
          BY <1>1, <2>1, <2>2, <2>6, TopReplaced
    <2>7. CASE Call(e, g)
          BY <1>1, <2>1, <2>2, <2>3, <2>7, TopCalls
    <2> QED  BY <2>4, <2>5, <2>6, <2>7
  <1>4. ASSUME NEW f \in Methods, CallNext(f) PROVE Stacked' /\ Steady
    <2>1. /\ t.fn = f /\ f \notin CollectionLoops /\ f \notin AddedCalls /\ f \notin UpdateLoops
          /\ t.i \in 1 .. object[t.of].count
          BY <1>1, <1>4 DEF CallNext, Quiet, Methods, CollectionLoops, AddedCalls, UpdateLoops
    <2>2. t.of \in Objects
          BY <1>1, <2>1 DEF Frame
    <2>3. object[t.of].count \in 0 .. MaxComponents
          BY <2>2 DEF ObjectRecord
    <2>4. t.i \in 1 .. MaxComponents /\ t.i \in Nat /\ t.i # 0
          BY <2>1, <2>3, Positive
    <2> DEFINE c == slots[t.of][t.i]
               e == [t EXCEPT !.i = t.i + 1]
               d == [t EXCEPT !.c = c]
    <2>5. c \in Components \cup {None}
          BY <2>2, <2>4
    <2>6. Replace(e) \/ Replace(d)
      <3>1. [t EXCEPT !.i = @ + 1] = e
            BY <1>1 DEF Frame
      <3> QED  BY <1>1, <1>4, <3>1 DEF CallNext, CallComponent
    <2> HIDE DEF c
    <2>7. e \in Frame /\ e.fn = f /\ e.i # 0
      <3>1. t.i + 1 \in Nat /\ t.i + 1 # 0
            BY <2>4
      <3> QED  BY <1>1, <2>1, <3>1 DEF Frame
    <2>8. d \in Frame /\ d.fn = f /\ d.i # 0
          BY <1>1, <2>1, <2>4, <2>5 DEF Frame
    <2> HIDE DEF e, d
    <2> QED  BY <1>1, <2>1, <2>6, <2>7, <2>8, TopReplaced
  <1>5. ASSUME NEW f \in Methods, EndMethod(f) PROVE Stacked' /\ Steady
    <2>1. t.fn = f /\ f \notin UpdateLoops /\ Return
          BY <1>1, <1>5 DEF EndMethod, Quiet, Methods, UpdateLoops
    <2> QED  BY <1>2, <2>1
  <1>6. CASE AwakeAdded
    <2>1. t.fn = "awakeAdded" /\ t.c = None
          BY <1>1, <1>6 DEF AwakeAdded, Quiet
    <2>2. t.fn \notin UpdateLoops /\ t.fn \in AddedCalls /\ t.fn \notin CollectionLoops
          BY <2>1 DEF UpdateLoops, AddedCalls, CollectionLoops
    <2>3. <<t.of, t.i>> \in Components
          BY <1>1, <2>2 DEF Frame
    <2> DEFINE e == [t EXCEPT !.fn = "startAdded"]
               d == [t EXCEPT !.c = <<t.of, t.i>>]
    <2>4. Replace(e) \/ Replace(d)
          BY <1>1, <1>6 DEF AwakeAdded, CallComponent
    <2>5. e \in Frame /\ e.fn \in AddedCalls /\ e.fn # "updateOf"
      <3>1. "startAdded" \in AddedCalls /\ "startAdded" \notin CollectionLoops
            BY DEF AddedCalls, CollectionLoops
      <3> QED  BY <1>1, <2>2, <2>3, <3>1 DEF Frame
    <2>6. d \in Frame /\ d.fn = t.fn /\ d.fn # "updateOf"
          BY <1>1, <2>1, <2>2, <2>3 DEF Frame
    <2> HIDE DEF e, d
    <2> QED  BY <1>1, <2>2, <2>4, <2>5, <2>6, TopReplaced
  <1>7. CASE StartAdded
    <2>1. t.fn = "startAdded" /\ t.c = None
          BY <1>1, <1>7 DEF StartAdded, Quiet
    <2>2. t.fn \notin UpdateLoops /\ t.fn \in AddedCalls /\ t.fn \notin CollectionLoops
          BY <2>1 DEF UpdateLoops, AddedCalls, CollectionLoops
    <2>3. <<t.of, t.i>> \in Components
          BY <1>1, <2>2 DEF Frame
    <2> DEFINE d == [t EXCEPT !.c = <<t.of, t.i>>]
    <2>4. Return \/ Replace(d)
          BY <1>1, <1>7 DEF StartAdded, CallComponent
    <2>5. d \in Frame /\ d.fn = t.fn /\ d.fn # "updateOf"
          BY <1>1, <2>1, <2>2, <2>3 DEF Frame
    <2> HIDE DEF d
    <2>6. CASE Return
          BY <1>2, <2>2, <2>6
    <2>7. CASE Replace(d)
          BY <1>1, <2>2, <2>5, <2>7, TopReplaced
    <2> QED  BY <2>4, <2>6, <2>7
  <1>8. CASE ComponentReturns
    <2>1. t.c # None
          BY <1>1, <1>8 DEF ComponentReturns
    <2>2. t.fn \notin CollectionLoops /\ t.fn \notin UpdateLoops
          BY <1>1, <2>1 DEF Frame, UpdateLoops, CollectionLoops
    <2> DEFINE e == [t EXCEPT !.c = None, !.i = t.i + 1]
               d == [t EXCEPT !.c = None, !.fn = "startAdded"]
    <2>3. \/ Return
          \/ t.fn = "awakeAdded" /\ Replace(d)
          \/ t.fn \notin AddedCalls /\ Replace(e)
      <3>1. [t EXCEPT !.c = None, !.i = @ + 1] = e
            BY <1>1 DEF Frame
      <3> QED  BY <1>1, <1>8, <3>1 DEF ComponentReturns, AddedCalls
    <2>4. t.fn = "awakeAdded" => d \in Frame /\ d.fn \in AddedCalls /\ d.fn # "updateOf"
      <3>1. "startAdded" \in AddedCalls /\ "startAdded" \notin CollectionLoops
            BY DEF AddedCalls, CollectionLoops
      <3>2. t.fn = "awakeAdded" => <<t.of, t.i>> \in Components
            BY <1>1 DEF Frame, AddedCalls
      <3> QED  BY <1>1, <2>2, <3>1, <3>2 DEF Frame
    <2>5. t.fn \notin AddedCalls => e \in Frame /\ e.fn = t.fn /\ e.i # 0
      <3>1. t.i + 1 \in Nat /\ t.i + 1 # 0
            BY <1>1 DEF Frame
      <3> QED  BY <1>1, <2>2, <3>1 DEF Frame
    <2> HIDE DEF e, d
    <2>6. CASE Return
          BY <1>2, <2>2, <2>6
    <2>7. CASE t.fn = "awakeAdded" /\ Replace(d)
          BY <1>1, <2>2, <2>4, <2>7, TopReplaced
    <2>8. CASE t.fn \notin AddedCalls /\ Replace(e)
          BY <1>1, <2>2, <2>5, <2>8, TopReplaced
    <2> QED  BY <2>3, <2>6, <2>7, <2>8
  <1> QED  BY <1>3, <1>4, <1>5, <1>6, <1>7, <1>8

(* The other loops of the collection, and the end of lateUpdate's, move    *)
(* no loop of update either.                                               *)
LEMMA OtherLoopsSteady ==
    ASSUME Placed, Stacked, NEW f \in CollectionLoops \ UpdateLoops, Visit(f) \/ EndLoop(f)
    PROVE  Stacked' /\ Steady
  <1> DEFINE t == Top
  <1>1. stack # <<>> /\ t \in Frame /\ t = Top /\ t.fn = f /\ t.c = None /\ t.fn \notin UpdateLoops
        BY StackShape DEF Visit, EndLoop, Quiet
  <1>2. f # "updateOf" /\ f \in CollectionLoops /\ f \notin AddedCalls
        BY DEF CollectionLoops, AddedCalls
  <1> HIDE DEF t
  <1>3. t.i \in Nat /\ t.i >= 1
        BY <1>1 DEF Frame
  <1>4. ASSUME Visit(f) PROVE Stacked' /\ Steady
    <2> DEFINE o == List(f)[t.i]
               e == [t EXCEPT !.i = t.i + 1]
               g == Method(MethodOf(f), o)
    <2>1. t.i <= Len(List(f)) /\ (Replace(e) \/ Call(e, g))
      <3>1. [t EXCEPT !.i = @ + 1] = e
            BY <1>1 DEF Frame
      <3> QED  BY <1>1, <1>4, <3>1 DEF Visit
    <2>2. o \in Objects
      <3>1. List(f) \in {owned, external}
            BY DEF List
      <3>2. owned[t.i] \in Objects \/ List(f) # owned
            BY <1>3, <2>1, ArraysTyped
      <3>3. external[t.i] \in Objects \/ List(f) # external
            BY <1>3, <2>1, ArraysTyped
      <3> QED  BY <3>1, <3>2, <3>3
    <2>3. MethodOf(f) \in {"awake", "start", "lateUpdateOf"}
          BY DEF MethodOf, UpdateLoops
    <2>4. g \in Frame /\ g.fn \in {"awake", "start", "lateUpdateOf"}
      <3> HIDE DEF o
      <3>1. MethodOf(f) \in Methods
            BY <2>3 DEF Methods
      <3>2. g.fn = MethodOf(f)
            BY DEF Method
      <3> QED  BY <2>2, <2>3, <3>1, <3>2, FramesMade
    <2>5. e \in Frame /\ e.fn = f
      <3>1. t.i + 1 \in Nat /\ t.i + 1 >= 1
            BY <1>3
      <3> QED  BY <1>1, <1>2, <3>1 DEF Frame
    <2> HIDE DEF e, g
    <2>6. CASE Replace(e)
          BY <1>1, <1>2, <2>5, <2>6, TopReplaced
    <2>7. CASE Call(e, g)
          BY <1>1, <1>2, <2>4, <2>5, <2>7, TopCalls
    <2> QED  BY <2>1, <2>6, <2>7
  <1>5. ASSUME EndLoop(f) PROVE Stacked' /\ Steady
    <2> DEFINE g == Loop("lateUpdateExternals", 1)
    <2>1. Return \/ (f = "lateUpdate" /\ Replace(g))
          BY <1>5 DEF EndLoop, UpdateLoops
    <2>2. g \in Frame /\ g.fn = "lateUpdateExternals"
          BY FramesMade DEF CollectionLoops, Loop
    <2> HIDE DEF g
    <2>3. CASE Return
          BY <1>1, <2>3, TopReturned
    <2>4. CASE f = "lateUpdate" /\ Replace(g)
          BY <1>1, <2>2, <2>4, TopReplaced
    <2> QED  BY <2>1, <2>3, <2>4
  <1> QED  BY <1>4, <1>5

(* The loops of update are alone on the stack when they move on.           *)
LEMMA UpdateAlone ==
    ASSUME Stacked, NEW f \in FrameLoops, Quiet(f)
    PROVE  Len(stack) = 1 /\ Updating(f) /\ Top = stack[1] /\ Place \in Nat /\ Place >= 1
  <1> DEFINE n == Len(stack)
  <1>1. stack # <<>> /\ n \in Nat /\ n >= 1 /\ DOMAIN stack = 1 .. n /\ Top = stack[n] /\ Top.fn = f
        /\ Top \in Frame
        BY StackShape DEF Quiet
  <1>2. n \in 1 .. n
        BY <1>1
  <1>3. n = 1
        BY <1>1, <1>2 DEF Stacked, UpdatesAtBottom
  <1>4. f \in CollectionLoops
        BY DEF FrameLoops, CollectionLoops
  <1> QED  BY <1>1, <1>3, <1>4 DEF Updating, Place, Frame

LEMMA UpdateVisits ==
    ASSUME Placed, Stacked, NEW f \in UpdateLoops, Visit(f)
    PROVE  LET o == List(f)[Place] IN
           /\ Stacked' /\ Len(stack) = 1 /\ Updating(f) /\ Updating(f)'
           /\ Place \in Nat /\ Place >= 1 /\ Place <= Len(List(f)) /\ Place' = Place + 1
           /\ o \in Objects
           /\ \A q \in Objects : Pending(q)' => q = o
           /\ \A q \in Objects : object[o].active /\ q = o => Pending(q)'
  <1> DEFINE t == Top
             o == List(f)[Place]
             e == [t EXCEPT !.i = t.i + 1]
             g == Method("updateOf", o)
  <1>1. /\ f \in FrameLoops /\ f # "updateOf" /\ f \in CollectionLoops /\ f \notin AddedCalls
        /\ f \notin {"initialize", "startAll"} /\ MethodOf(f) = "updateOf"
        BY DEF UpdateLoops, FrameLoops, CollectionLoops, AddedCalls, MethodOf
  <1>2. /\ Len(stack) = 1 /\ Updating(f) /\ t = stack[1] /\ Place \in Nat /\ Place >= 1
        /\ stack # <<>> /\ t \in Frame /\ stack \in Seq(Frame)
        BY <1>1, UpdateAlone, StackShape DEF Visit, Updating, Stacked
  <1>3. /\ t.fn = f /\ t.i <= Len(List(f)) /\ Place = t.i
        /\ IF object[o].active THEN Call(e, g) ELSE Replace(e)
    <2>1. [t EXCEPT !.i = @ + 1] = e
          BY <1>2 DEF Frame
    <2>2. t.fn = f /\ t.i <= Len(List(f))
          BY DEF Visit, Quiet
    <2>3. Place = t.i
          BY <1>2 DEF Place
    <2>4. List(f)[Place] = List(f)[Top.i]
          BY <2>3
    <2>5. IF object[o].active THEN Call([t EXCEPT !.i = @ + 1], g) ELSE Replace([t EXCEPT !.i = @ + 1])
          BY <1>1, <2>4 DEF Visit
    <2> HIDE DEF t
    <2> QED  BY <2>1, <2>2, <2>3, <2>5
  <1> HIDE DEF t
  <1>4. o \in Objects
    <2>1. List(f) \in {owned, external}
          BY DEF List
    <2>2. owned[Place] \in Objects \/ List(f) # owned
          BY <1>2, <1>3, ArraysTyped
    <2>3. external[Place] \in Objects \/ List(f) # external
          BY <1>2, <1>3, ArraysTyped
    <2> QED  BY <2>1, <2>2, <2>3
  <1>5. e \in Frame /\ e.fn = f /\ e.i = Place + 1
    <2>1. t.i + 1 \in Nat /\ t.i + 1 >= 1
          BY <1>2, <1>3
    <2> QED  BY <1>1, <1>2, <1>3, <2>1 DEF Frame
  <1> HIDE DEF o, e
  <1>6. g \in Frame /\ g.fn = "updateOf" /\ g.i = 0 /\ g.c = None /\ g.of = o
        BY <1>4, FramesMade DEF Methods, Method
  <1> HIDE DEF g
  <1>7. ASSUME object[o].active
        PROVE  /\ Stacked' /\ Updating(f)' /\ Place' = Place + 1
               /\ \A q \in Objects : Pending(q)' => q = o
               /\ \A q \in Objects : q = o => Pending(q)'
    <2>1. Call(e, g)
          BY <1>3, <1>7
    <2>2. /\ stack' \in Seq(Frame) /\ Len(stack') = Len(stack) + 1
          /\ DOMAIN stack' = 1 .. Len(stack) + 1
          /\ stack'[Len(stack)] = e /\ stack'[Len(stack) + 1] = g
          BY <1>2, <1>5, <1>6, <2>1, CalledFrom
    <2>3. /\ Len(stack') = 2 /\ DOMAIN stack' = 1 .. 2 /\ stack'[1] = e /\ stack'[2] = g
      <3>1. Len(stack) + 1 = 2
            BY <1>2
      <3> QED  BY <1>2, <2>2, <3>1
    <2>4. UpdatesAtBottom'
      <3>1. \A k \in 1 .. 2 : k = 1 \/ k = 2
            OBVIOUS
      <3>2. g.fn \notin FrameLoops
            BY <1>6 DEF FrameLoops
      <3> QED  BY <1>1, <1>5, <1>6, <2>3, <3>1, <3>2 DEF UpdatesAtBottom
    <2>5. stack' # <<>>
          BY <2>2, <2>3, NotEmpty
    <2>6. Stacked' /\ Updating(f)' /\ Place' = Place + 1
          BY <1>5, <2>2, <2>3, <2>4, <2>5 DEF Stacked, Updating, Place
    <2>7. ASSUME NEW q \in Objects, Pending(q)' PROVE q = o
      <3>1. stack'[2].of = q
            BY <2>7 DEF Pending
      <3> QED  BY <1>6, <2>3, <3>1
    <2>8. ASSUME NEW q \in Objects, q = o PROVE Pending(q)'
          BY <1>6, <2>3, <2>8 DEF Pending
    <2> QED  BY <2>6, <2>7, <2>8
  <1>8. ASSUME ~object[o].active
        PROVE  /\ Stacked' /\ Updating(f)' /\ Place' = Place + 1
               /\ \A q \in Objects : ~Pending(q)'
    <2>1. Replace(e)
          BY <1>3, <1>8
    <2>2. /\ stack' \in Seq(Frame) /\ Len(stack') = Len(stack) /\ DOMAIN stack' = DOMAIN stack
          /\ stack'[Len(stack)] = e
          BY <1>2, <1>5, <2>1, Replaced
    <2>3. Len(stack') = 1 /\ DOMAIN stack' = 1 .. 1 /\ stack'[1] = e
      <3>1. DOMAIN stack = 1 .. Len(stack)
            BY StackShape
      <3> QED  BY <1>2, <2>2, <3>1
    <2>4. UpdatesAtBottom'
      <3>1. \A k \in 1 .. 1 : k = 1
            OBVIOUS
      <3> QED  BY <1>1, <1>5, <2>3, <3>1 DEF UpdatesAtBottom
    <2>5. stack' # <<>>
          BY <2>2, <2>3, NotEmpty
    <2> QED  BY <1>5, <2>2, <2>3, <2>4, <2>5 DEF Stacked, Updating, Place, Pending
  <1>9. /\ Stacked' /\ Updating(f)' /\ Place' = Place + 1
        /\ \A q \in Objects : Pending(q)' => q = o
        /\ \A q \in Objects : object[o].active /\ q = o => Pending(q)'
    <2>1. CASE object[o].active
          BY <1>7, <2>1
    <2>2. CASE ~object[o].active
          BY <1>8, <2>2
    <2> QED  BY <2>1, <2>2
  <1> QED  BY <1>2, <1>3, <1>4, <1>9 DEF o

LEMMA UpdateEnds ==
    ASSUME Stacked, NEW f \in UpdateLoops, EndLoop(f)
    PROVE  /\ Stacked' /\ Len(stack) = 1 /\ Updating(f) /\ Place > Len(List(f))
           /\ f = "update" => Updating("updateExternals")' /\ Place' = 1
           /\ f = "updateExternals" => Updating("lateUpdate")'
           /\ \A q \in Objects : ~Pending(q)'
  <1> DEFINE g == Loop(IF f = "update" THEN "updateExternals" ELSE "lateUpdate", 1)
  <1>1. f \in FrameLoops
        BY DEF UpdateLoops, FrameLoops
  <1>2. /\ Len(stack) = 1 /\ Updating(f) /\ Top = stack[1]
        /\ stack # <<>> /\ stack \in Seq(Frame) /\ DOMAIN stack = 1 .. Len(stack)
        BY <1>1, UpdateAlone, StackShape DEF EndLoop, Updating, Stacked
  <1>3. Place > Len(List(f)) /\ Replace(g)
        BY <1>2 DEF EndLoop, Place, UpdateLoops
  <1>4. g \in Frame /\ g.i = 1 /\ g.fn = (IF f = "update" THEN "updateExternals" ELSE "lateUpdate")
        BY FramesMade DEF Loop, CollectionLoops
  <1> HIDE DEF g
  <1>5. /\ stack' \in Seq(Frame) /\ Len(stack') = 1 /\ DOMAIN stack' = 1 .. 1 /\ stack'[1] = g
        BY <1>2, <1>3, <1>4, Replaced
  <1>6. UpdatesAtBottom'
    <2>1. \A k \in 1 .. 1 : k = 1
          OBVIOUS
    <2> QED  BY <1>4, <1>5, <2>1 DEF UpdatesAtBottom
  <1>7. stack' # <<>>
        BY <1>5, NotEmpty
  <1> QED  BY <1>2, <1>3, <1>4, <1>5, <1>6, <1>7 DEF Stacked, Updating, Place, Pending, UpdateLoops

(* An object's update begins right after the loop has called it.           *)
LEMMA UpdateBegins ==
    ASSUME Stacked, BeginObjectUpdate
    PROVE  Stacked' /\ Steady /\ Top.of \in Objects /\ Pending(Top.of)
  <1> DEFINE t == Top
             n == Len(stack)
             e == [t EXCEPT !.i = 1]
             g == Method("start", t.of)
  <1>1. stack # <<>> /\ t \in Frame /\ t = Top /\ t.fn = "updateOf" /\ t.i = 0
        BY StackShape DEF BeginObjectUpdate, Quiet
  <1>2. n \in Nat /\ n >= 1
        BY <1>1, StackShape
  <1>3. t = stack[n] /\ DOMAIN stack = 1 .. n /\ n \in 1 .. n
        BY <1>1, <1>2, StackShape
  <1>4. n = 2
        BY <1>1, <1>3 DEF Stacked, UpdatesAtBottom
  <1>5. Replace(e) \/ Call(e, g)
        BY <1>1 DEF BeginObjectUpdate, Enter
  <1>6. Pending(Top.of)
        BY <1>1, <1>3, <1>4 DEF Pending
  <1> HIDE DEF t, n
  <1>7. "updateOf" \notin CollectionLoops /\ "updateOf" \notin AddedCalls /\ "updateOf" \notin UpdateLoops
        BY DEF CollectionLoops, AddedCalls, UpdateLoops
  <1>8. t.of \in Objects
        BY <1>1, <1>7 DEF Frame
  <1>9. e \in Frame /\ e.fn = t.fn /\ e.i # 0
        BY <1>1, <1>7 DEF Frame
  <1>10. g \in Frame /\ g.fn = "start"
        BY <1>8, FramesMade DEF Methods, Method
  <1> HIDE DEF e, g
  <1>11. CASE Replace(e)
        BY <1>1, <1>6, <1>7, <1>8, <1>9, <1>11, TopReplaced
  <1>12. CASE Call(e, g)
        BY <1>1, <1>6, <1>7, <1>8, <1>9, <1>10, <1>12, TopCalls
  <1> QED  BY <1>5, <1>11, <1>12

-----------------------------------------------------------------------------
(* What the loops of update have done to each object in this frame, and    *)
(* what they will do.                                                      *)
Again(o) == ran[o] = 0 \/ (ran[o] = 1 /\ o \in kept)

InOwned ==
    Updating("update") =>
        /\ \A o \in Objects : ran[o] <= 1
        /\ \A a \in DOMAIN owned : a >= Place => ran[owned[a]] = 0
        /\ \A b \in DOMAIN external : external[b] \notin kept => ran[external[b]] = 0
        /\ \A o \in Objects : Pending(o) =>
                ran[o] = 0 /\ \E a \in DOMAIN owned : a < Place /\ owned[a] = o

InExternal ==
    Updating("updateExternals") =>
        /\ \A a \in DOMAIN owned : ran[owned[a]] <= 1
        /\ \A b \in DOMAIN external : b >= Place => Again(external[b])
        /\ \A o \in Objects : Pending(o) =>
                Again(o) /\ \E b \in DOMAIN external : b < Place /\ external[b] = o

OwnedReached ==
    Updating("update") => \A o \in due \ passedOver :
        \/ ran[o] > 0 \/ Pending(o)
        \/ \E a \in DOMAIN owned : a >= Place /\ owned[a] = o
        \/ \E b \in DOMAIN external : external[b] = o

ExternalReached ==
    Updating("updateExternals") => \A o \in due \ passedOver :
        \/ ran[o] > 0 \/ Pending(o)
        \/ \E b \in DOMAIN external : b >= Place /\ external[b] = o

AllReached == Updating("lateUpdate") => \A o \in due \ passedOver : ran[o] > 0

UnbornNotRun ==
    (\E f \in UpdateLoops : Updating(f)) =>
        \A o \in Objects : object[o].life = "unborn" => ran[o] = 0

Flags ==
    /\ ran \in [Objects -> Nat] /\ due \subseteq Objects
    /\ \A o \in due : object[o].active
    /\ \A o \in Objects : object[o].life = "unborn" => object[o].active

Counted ==
    /\ Flags /\ UnbornNotRun /\ OnceUnlessPersisted
    /\ InOwned /\ InExternal /\ OwnedReached /\ ExternalReached /\ AllReached

LEMMA CountedIsEnough == Stacked /\ Counted => NobodyMissed /\ OnceUnlessPersisted
  <1> SUFFICES ASSUME Stacked, Counted, Quiet("lateUpdate"), Top.i = 1
               PROVE  \A o \in due \ passedOver : ran[o] > 0
        BY DEF Counted, NobodyMissed
  <1>1. Updating("lateUpdate")
        BY UpdateAlone DEF FrameLoops
  <1> QED  BY <1>1 DEF Counted, AllReached

LEMMA NothingPending ==
    ASSUME Stacked, stack # <<>> => (Top.fn # "updateOf" \/ Top.i # 0 \/ Top.c # None)
    PROVE  \A o \in Objects : ~Pending(o)
  <1> SUFFICES ASSUME Len(stack) = 2, stack[2].fn = "updateOf", stack[2].i = 0 PROVE FALSE
        BY DEF Pending
  <1>1. stack # <<>> /\ DOMAIN stack = 1 .. 2 /\ Top = stack[2]
        BY StackShape, NotEmpty DEF Stacked
  <1>2. 2 \in 1 .. 2
        OBVIOUS
  <1> QED  BY <1>1, <1>2 DEF Stacked, UpdatesAtBottom

(* A step that leaves the loops and the arrays alone.                      *)
LEMMA CountsKept ==
    ASSUME Counted, Steady, \A o \in Objects : ~Pending(o), Flags',
           UNCHANGED <<owned, external, ran, kept>>,
           due' \subseteq due, passedOver \subseteq passedOver',
           \A o \in Objects : object'[o].life = "unborn" => object[o].life = "unborn"
    PROVE  Counted'
  <1>1. /\ \A f \in UpdateLoops : Updating(f)' => Updating(f) /\ Place' = Place
        /\ Updating("lateUpdate")' => Updating("lateUpdate")
        /\ \A o \in Objects : ~Pending(o)'
        BY DEF Steady, UpdateLoops
  <1>2. /\ Updating("update")' => Updating("update") /\ Place' = Place
        /\ Updating("updateExternals")' => Updating("updateExternals") /\ Place' = Place
        BY <1>1 DEF UpdateLoops
  <1>3. due' \ passedOver' \subseteq due \ passedOver
        OBVIOUS
  <1>4. due \subseteq Objects
        BY DEF Counted, Flags
  <1>5. OnceUnlessPersisted'
        BY DEF Counted, OnceUnlessPersisted
  <1>6. UnbornNotRun'
        BY <1>1 DEF Counted, UnbornNotRun
  <1>7. InOwned'
        BY <1>1, <1>2 DEF Counted, InOwned
  <1>8. InExternal'
        BY <1>1, <1>2 DEF Counted, InExternal, Again
  <1>9. OwnedReached'
        BY <1>1, <1>2, <1>3, <1>4 DEF Counted, OwnedReached
  <1>10. ExternalReached'
        BY <1>1, <1>2, <1>3, <1>4 DEF Counted, ExternalReached
  <1>11. AllReached'
        BY <1>1, <1>3 DEF Counted, AllReached
  <1> QED  BY <1>5, <1>6, <1>7, <1>8, <1>9, <1>10, <1>11 DEF Counted

LEMMA VisitCounts ==
    ASSUME Placed, Stacked, Counted, NEW f \in UpdateLoops, Visit(f)
    PROVE  Counted'
  <1> DEFINE o == List(f)[Place]
  <1>1. /\ Len(stack) = 1 /\ Updating(f) /\ Updating(f)'
        /\ Place \in Nat /\ Place >= 1 /\ Place <= Len(List(f)) /\ Place' = Place + 1
        /\ o \in Objects
        /\ \A q \in Objects : Pending(q)' => q = o
        /\ \A q \in Objects : object[o].active /\ q = o => Pending(q)'
        BY UpdateVisits
  <1>2. UNCHANGED <<owned, external, object, ran, kept, due, passedOver>>
        BY DEF Visit, members, seen
  <1>3. \A q \in Objects : ~Pending(q)
        BY <1>1 DEF Pending
  <1>4. \A g : Updating(g) => g = f
        BY <1>1 DEF Updating
  <1>5. \A g : Updating(g)' => g = f
        BY <1>1 DEF Updating
  <1>6. Flags'
        BY <1>2 DEF Counted, Flags
  <1>7. OnceUnlessPersisted'
        BY <1>2 DEF Counted, OnceUnlessPersisted
  <1>8. UnbornNotRun'
        BY <1>1, <1>2 DEF Counted, UnbornNotRun
  <1>9. AllReached'
        BY <1>5 DEF AllReached, UpdateLoops
  <1>10. \A a \in Nat : a >= Place + 1 => a >= Place /\ a # Place
        BY <1>1
  <1>11. \A a \in Nat : a >= Place => a = Place \/ a >= Place + 1
        BY <1>1
  <1>12. Place < Place + 1
        BY <1>1
  <1>13. /\ Len(owned) \in Nat /\ DOMAIN owned = 1 .. Len(owned)
         /\ Len(external) \in Nat /\ DOMAIN external = 1 .. Len(external)
        BY ArraysTyped
  <1>14. \A q \in due : q \in Objects /\ object[q].active
        BY DEF Counted, Flags
  <1>15. CASE f = "update"
    <2>1. o = owned[Place] /\ Place \in DOMAIN owned
          BY <1>1, <1>13, <1>15 DEF List
    <2> HIDE DEF o
    <2>2. /\ Updating("update") /\ ~Updating("updateExternals")' /\ Updating("update")'
          BY <1>1, <1>5, <1>15
    <2>3. InOwned'
      <3>1. ASSUME NEW a \in DOMAIN owned, a >= Place + 1 PROVE ran[owned[a]] = 0
            BY <1>10, <1>13, <2>2, <3>1 DEF Counted, InOwned
      <3>2. ran[o] = 0
        <4>1. Place >= Place
              BY <1>1
        <4> QED  BY <2>1, <2>2, <4>1 DEF Counted, InOwned
      <3>3. /\ \A q \in Objects : ran[q] <= 1
            /\ \A b \in DOMAIN external : external[b] \notin kept => ran[external[b]] = 0
            BY <2>2 DEF Counted, InOwned
      <3>4. ASSUME NEW q \in Objects, Pending(q)'
            PROVE  ran[q] = 0 /\ \E a \in DOMAIN owned : a < Place + 1 /\ owned[a] = q
            BY <1>1, <1>12, <2>1, <3>2, <3>4
      <3> QED  BY <1>1, <1>2, <3>1, <3>3, <3>4 DEF InOwned
    <2>4. InExternal' /\ ExternalReached'
          BY <2>2 DEF InExternal, ExternalReached
    <2>5. OwnedReached'
      <3> SUFFICES ASSUME NEW q \in due \ passedOver, ~(ran[q] > 0), ~Pending(q)',
                          ~ \E b \in DOMAIN external : external[b] = q
                   PROVE  \E a \in DOMAIN owned : a >= Place + 1 /\ owned[a] = q
            BY <1>1, <1>2 DEF OwnedReached
      <3>1. q \in Objects /\ q # o
            BY <1>1, <1>14
      <3>2. PICK a \in DOMAIN owned : a >= Place /\ owned[a] = q
            BY <1>3, <2>2, <3>1 DEF Counted, OwnedReached
      <3>3. a # Place
            BY <2>1, <3>1, <3>2
      <3> QED  BY <1>11, <1>13, <3>2, <3>3
    <2> QED  BY <1>6, <1>7, <1>8, <1>9, <2>3, <2>4, <2>5 DEF Counted
  <1>16. CASE f = "updateExternals"
    <2>1. o = external[Place] /\ Place \in DOMAIN external
          BY <1>1, <1>13, <1>16 DEF List
    <2> HIDE DEF o
    <2>2. /\ Updating("updateExternals") /\ ~Updating("update")' /\ Updating("updateExternals")'
          BY <1>1, <1>5, <1>16
    <2>3. InExternal'
      <3>1. ASSUME NEW b \in DOMAIN external, b >= Place + 1 PROVE Again(external[b])
            BY <1>10, <1>13, <2>2, <3>1 DEF Counted, InExternal
      <3>2. Again(o)
        <4>1. Place >= Place
              BY <1>1
        <4> QED  BY <2>1, <2>2, <4>1 DEF Counted, InExternal
      <3>3. \A a \in DOMAIN owned : ran[owned[a]] <= 1
            BY <2>2 DEF Counted, InExternal
      <3>4. ASSUME NEW q \in Objects, Pending(q)'
            PROVE  Again(q) /\ \E b \in DOMAIN external : b < Place + 1 /\ external[b] = q
            BY <1>1, <1>12, <2>1, <3>2, <3>4
      <3>5. \A q \in Objects : Again(q) => ran[q] = 0 \/ (ran[q] = 1 /\ q \in kept)
            BY DEF Again
      <3>6. \A b \in DOMAIN external : external[b] \in Objects
            BY ArraysTyped
      <3> QED  BY <1>1, <1>2, <3>1, <3>3, <3>4, <3>5, <3>6 DEF InExternal, Again
    <2>4. InOwned' /\ OwnedReached'
          BY <2>2 DEF InOwned, OwnedReached
    <2>5. ExternalReached'
      <3> SUFFICES ASSUME NEW q \in due \ passedOver, ~(ran[q] > 0), ~Pending(q)'
                   PROVE  \E b \in DOMAIN external : b >= Place + 1 /\ external[b] = q
            BY <1>1, <1>2 DEF ExternalReached
      <3>1. q \in Objects /\ q # o
            BY <1>1, <1>14
      <3>2. PICK b \in DOMAIN external : b >= Place /\ external[b] = q
            BY <1>3, <2>2, <3>1 DEF Counted, ExternalReached
      <3>3. b # Place
            BY <2>1, <3>1, <3>2
      <3> QED  BY <1>11, <1>13, <3>2, <3>3
    <2> QED  BY <1>6, <1>7, <1>8, <1>9, <2>3, <2>4, <2>5 DEF Counted
  <1> QED  BY <1>15, <1>16 DEF UpdateLoops

LEMMA EndCounts ==
    ASSUME Placed, Stacked, Counted, NEW f \in UpdateLoops, EndLoop(f)
    PROVE  Counted'
  <1>1. /\ Len(stack) = 1 /\ Updating(f) /\ Place > Len(List(f))
        /\ f = "update" => Updating("updateExternals")' /\ Place' = 1
        /\ f = "updateExternals" => Updating("lateUpdate")'
        /\ \A q \in Objects : ~Pending(q)'
        BY UpdateEnds
  <1>2. UNCHANGED <<owned, external, object, ran, kept, due, passedOver>>
        BY DEF EndLoop, seen
  <1>3. \A q \in Objects : ~Pending(q)
        BY <1>1 DEF Pending
  <1>4. Flags'
        BY <1>2 DEF Counted, Flags
  <1>5. OnceUnlessPersisted'
        BY <1>2 DEF Counted, OnceUnlessPersisted
  <1>6. UnbornNotRun'
        BY <1>1, <1>2 DEF Counted, UnbornNotRun
  <1>7. /\ Len(owned) \in Nat /\ DOMAIN owned = 1 .. Len(owned)
        /\ Len(external) \in Nat /\ DOMAIN external = 1 .. Len(external)
        /\ \A a \in DOMAIN owned : owned[a] \in Objects
        BY ArraysTyped
  <1>8. Place \in Nat
        BY UpdateAlone DEF EndLoop, UpdateLoops, FrameLoops
  <1>9. due \subseteq Objects /\ \A q \in Objects : ran[q] \in Nat
        BY DEF Counted, Flags
  <1>10. CASE f = "update"
    <2>1. Updating("update") /\ Updating("updateExternals")' /\ Place' = 1
          BY <1>1, <1>10
    <2>2. ~Updating("update")' /\ ~Updating("lateUpdate")'
          BY <2>1 DEF Updating
    <2>3. \A a \in DOMAIN owned : ~(a >= Place)
          BY <1>1, <1>7, <1>8, <1>10 DEF List
    <2>4. InExternal'
      <3>1. /\ \A a \in DOMAIN owned : ran[owned[a]] <= 1
            /\ \A q \in Objects : ran[q] <= 1
            /\ \A b \in DOMAIN external : external[b] \notin kept => ran[external[b]] = 0
            BY <1>7, <2>1 DEF Counted, InOwned
      <3>2. ASSUME NEW b \in DOMAIN external
            PROVE  ran[external[b]] = 0 \/ (ran[external[b]] = 1 /\ external[b] \in kept)
        <4>1. ran[external[b]] <= 1 /\ ran[external[b]] \in Nat
              BY <1>9, <3>1, ArraysTyped
        <4> QED  BY <3>1, <4>1
      <3> QED  BY <1>1, <1>2, <3>1, <3>2 DEF InExternal, Again
    <2>5. ExternalReached'
      <3> SUFFICES ASSUME NEW q \in due \ passedOver, ~(ran[q] > 0)
                   PROVE  \E b \in DOMAIN external : b >= 1 /\ external[b] = q
            BY <1>2, <2>1 DEF ExternalReached
      <3>1. \E b \in DOMAIN external : external[b] = q
            BY <1>3, <1>9, <2>1, <2>3 DEF Counted, OwnedReached
      <3> QED  BY <1>7, <3>1
    <2> QED  BY <1>4, <1>5, <1>6, <2>2, <2>4, <2>5 DEF Counted, InOwned, OwnedReached, AllReached
  <1>11. CASE f = "updateExternals"
    <2>1. Updating("updateExternals") /\ Updating("lateUpdate")'
          BY <1>1, <1>11
    <2>2. ~Updating("update")' /\ ~Updating("updateExternals")'
          BY <2>1 DEF Updating
    <2>3. \A b \in DOMAIN external : ~(b >= Place)
          BY <1>1, <1>7, <1>8, <1>11 DEF List
    <2>4. AllReached'
          BY <1>2, <1>3, <1>9, <2>1, <2>3 DEF Counted, ExternalReached, AllReached
    <2> QED  BY <1>4, <1>5, <1>6, <2>2, <2>4
             DEF Counted, InOwned, OwnedReached, InExternal, ExternalReached
  <1> QED  BY <1>10, <1>11 DEF UpdateLoops

LEMMA BeginCounts ==
    ASSUME Placed, Stacked, Counted, BeginObjectUpdate
    PROVE  Counted'
  <1> DEFINE o == Top.of
  <1>1. Steady /\ o \in Objects /\ Pending(o)
        BY UpdateBegins
  <1>2. /\ ran' = [ran EXCEPT ![o] = IF @ < 3 THEN @ + 1 ELSE @]
        /\ UNCHANGED <<owned, external, object, kept, due, passedOver>>
        BY DEF BeginObjectUpdate, members
  <1> HIDE DEF o
  <1>3. \A q \in Objects : Pending(q) => q = o
        BY <1>1 DEF Pending
  <1>4. Updating("update") \/ Updating("updateExternals")
    <2>1. 2 \in DOMAIN stack /\ stack # <<>>
          BY <1>1, StackShape, NotEmpty DEF Pending, Stacked
    <2> QED  BY <1>1, <2>1 DEF Pending, Stacked, UpdatesAtBottom, UpdateLoops, Updating
  <1>5. /\ Updating("update")' => Updating("update") /\ Place' = Place
        /\ Updating("updateExternals")' => Updating("updateExternals") /\ Place' = Place
        /\ Updating("lateUpdate")' => Updating("lateUpdate")
        /\ \A q \in Objects : ~Pending(q)'
        BY <1>1 DEF Steady, UpdateLoops
  <1>6. ran \in [Objects -> Nat] /\ due \subseteq Objects
        BY DEF Counted, Flags
  <1>7. /\ ran' \in [Objects -> Nat] /\ ran'[o] = IF ran[o] < 3 THEN ran[o] + 1 ELSE ran[o]
        /\ \A q \in Objects : q # o => ran'[q] = ran[q]
        BY <1>1, <1>2, <1>6
  <1>8. ran[o] \in Nat
        BY <1>1, <1>6
  <1>9. ran'[o] > 0 /\ (ran[o] = 0 => ran'[o] = 1) /\ (ran[o] = 1 => ran'[o] = 2)
        BY <1>7, <1>8
  <1>10. Flags'
        BY <1>2, <1>7 DEF Counted, Flags
  <1>11. \A q \in Objects : ran[q] > 0 => ran'[q] > 0
        BY <1>7, <1>9
  <1>12. OwnedReached'
    <2> SUFFICES ASSUME Updating("update"), NEW q \in due \ passedOver
                 PROVE  \/ ran'[q] > 0
                        \/ \E a \in DOMAIN owned : a >= Place /\ owned[a] = q
                        \/ \E b \in DOMAIN external : external[b] = q
          BY <1>2, <1>5 DEF OwnedReached
    <2> QED  BY <1>3, <1>6, <1>9, <1>11 DEF Counted, OwnedReached
  <1>13. ExternalReached'
    <2> SUFFICES ASSUME Updating("updateExternals"), NEW q \in due \ passedOver
                 PROVE  \/ ran'[q] > 0
                        \/ \E b \in DOMAIN external : b >= Place /\ external[b] = q
          BY <1>2, <1>5 DEF ExternalReached
    <2> QED  BY <1>3, <1>6, <1>9, <1>11 DEF Counted, ExternalReached
  <1>14. AllReached'
        BY <1>2, <1>5, <1>6, <1>11 DEF Counted, AllReached
  <1>15. /\ \A a \in DOMAIN owned : owned[a] \in Objects
         /\ \A b \in DOMAIN external : external[b] \in Objects
         /\ DOMAIN owned = 1 .. Len(owned) /\ Len(owned) \in Nat
         /\ DOMAIN external = 1 .. Len(external) /\ Len(external) \in Nat
        BY ArraysTyped
  <1>16. Place \in Nat
    <2>1. 1 \in 1 .. Len(stack)
          BY <1>1 DEF Pending
    <2> QED  BY <2>1, StackShape DEF Place, Frame
  <1>17. CASE Updating("update")
    <2>1. ran[o] = 0
          BY <1>1, <1>17 DEF Counted, InOwned
    <2>2. PICK p \in DOMAIN owned : p < Place /\ owned[p] = o
          BY <1>1, <1>17 DEF Counted, InOwned
    <2>3. ~Updating("updateExternals")
          BY <1>17 DEF Updating
    <2>4. OnceUnlessPersisted'
          BY <1>2, <1>7, <1>9, <2>1 DEF Counted, OnceUnlessPersisted
    <2>5. UnbornNotRun'
      <3>1. object[o].life = "live"
            BY <2>2 DEF Placed, LiveInPlace, Live
      <3> QED  BY <1>2, <1>7, <1>17, <3>1 DEF Counted, UnbornNotRun, UpdateLoops
    <2>6. InOwned'
      <3>1. \A q \in Objects : ran'[q] <= 1
            BY <1>7, <1>9, <1>17, <2>1 DEF Counted, InOwned
      <3>2. ASSUME NEW a \in DOMAIN owned, a >= Place PROVE ran'[owned[a]] = 0
        <4>1. a # p
              BY <1>15, <1>16, <2>2, <3>2
        <4>2. owned[a] # o
              BY <2>2, <4>1 DEF Placed, OnePlaceEach
        <4> QED  BY <1>7, <1>15, <1>17, <3>2, <4>2 DEF Counted, InOwned
      <3>3. ASSUME NEW b \in DOMAIN external, external[b] \notin kept PROVE ran'[external[b]] = 0
        <4>1. external[b] # o
              BY <2>2 DEF Placed, OnePlaceEach
        <4> QED  BY <1>7, <1>15, <1>17, <3>3, <4>1 DEF Counted, InOwned
      <3> QED  BY <1>2, <1>5, <3>1, <3>2, <3>3 DEF InOwned
    <2>7. InExternal'
          BY <1>5, <2>3 DEF InExternal
    <2> QED  BY <1>10, <1>12, <1>13, <1>14, <2>4, <2>5, <2>6, <2>7 DEF Counted
  <1>18. CASE Updating("updateExternals")
    <2>1. Again(o)
          BY <1>1, <1>18 DEF Counted, InExternal
    <2>2. PICK p \in DOMAIN external : p < Place /\ external[p] = o
          BY <1>1, <1>18 DEF Counted, InExternal
    <2>3. ~Updating("update")
          BY <1>18 DEF Updating
    <2>4. OnceUnlessPersisted'
          BY <1>2, <1>7, <1>9, <2>1 DEF Counted, OnceUnlessPersisted, Again
    <2>5. UnbornNotRun'
      <3>1. object[o].life = "live"
            BY <2>2 DEF Placed, LiveInPlace, Live
      <3> QED  BY <1>2, <1>7, <1>18, <3>1 DEF Counted, UnbornNotRun, UpdateLoops
    <2>6. InExternal'
      <3>1. ASSUME NEW a \in DOMAIN owned PROVE ran'[owned[a]] <= 1
        <4>1. owned[a] # o
              BY <2>2 DEF Placed, OnePlaceEach
        <4> QED  BY <1>7, <1>15, <1>18, <4>1 DEF Counted, InExternal
      <3>2. ASSUME NEW b \in DOMAIN external, b >= Place
            PROVE  ran'[external[b]] = 0 \/ (ran'[external[b]] = 1 /\ external[b] \in kept)
        <4>1. b # p
              BY <1>15, <1>16, <2>2, <3>2
        <4>2. external[b] # o
              BY <2>2, <4>1 DEF Placed, OnePlaceEach
        <4> QED  BY <1>7, <1>15, <1>18, <3>2, <4>2 DEF Counted, InExternal, Again
      <3> QED  BY <1>2, <1>5, <3>1, <3>2 DEF InExternal, Again
    <2>7. InOwned'
          BY <1>5, <2>3 DEF InOwned
    <2> QED  BY <1>10, <1>12, <1>13, <1>14, <2>4, <2>5, <2>6, <2>7 DEF Counted
  <1> QED  BY <1>4, <1>17, <1>18

LEMMA ActivateCounts ==
    ASSUME Placed, Stacked, Counted, Activate
    PROVE  Stacked' /\ Counted'
  <1>1. /\ stack = <<>> /\ UNCHANGED <<members, seen>>
        /\ stack' = <<Loop("startAll", 1)>> \/ stack' = <<Loop("startAll", 1), Loop("initialize", 1)>>
        BY DEF Activate
  <1> DEFINE g == Loop("startAll", 1)
             h == Loop("initialize", 1)
  <1>2. g \in Frame /\ g.fn = "startAll" /\ h \in Frame /\ h.fn = "initialize"
        BY FramesMade DEF CollectionLoops, Loop
  <1>3. stack' = <<g>> \/ stack' = <<g, h>>
        BY <1>1
  <1> HIDE DEF g, h
  <1>4. /\ stack' \in Seq(Frame) /\ stack' # <<>>
        /\ \A k \in DOMAIN stack' : stack'[k].fn \in {"startAll", "initialize"}
        /\ 1 \in DOMAIN stack' /\ (Len(stack') = 2 => 2 \in DOMAIN stack')
    <2>1. CASE stack' = <<g>>
          BY <1>2, <2>1
    <2>2. CASE stack' = <<g, h>>
          BY <1>2, <2>2
    <2> QED  BY <1>3, <2>1, <2>2
  <1>5. Stacked'
        BY <1>4 DEF Stacked, UpdatesAtBottom, FrameLoops
  <1>6. Steady
        BY <1>4 DEF Steady, Updating, Place, Pending, UpdateLoops
  <1>7. \A q \in Objects : ~Pending(q)
        BY <1>1, NothingPending
  <1>8. Flags'
        BY <1>1 DEF members, seen, Counted, Flags
  <1>9. /\ UNCHANGED <<owned, external, ran, kept>> /\ due' \subseteq due /\ passedOver \subseteq passedOver'
        /\ \A q \in Objects : object'[q].life = "unborn" => object[q].life = "unborn"
        BY <1>1 DEF members, seen
  <1> QED  BY <1>5, <1>6, <1>7, <1>8, <1>9, CountsKept

LEMMA BeginFrameCounts ==
    ASSUME Placed, Stacked, Counted, BeginFrame
    PROVE  Stacked' /\ Counted'
  <1> DEFINE g == Loop("update", 1)
  <1>1. /\ stack' = <<g>> /\ UNCHANGED <<owned, external, object>>
        /\ ran' = [o \in Objects |-> 0]
        /\ due' = {o \in ToSet(owned) \cup ToSet(external) : object[o].active}
        BY DEF BeginFrame, members
  <1>2. g \in Frame /\ g.fn = "update" /\ g.i = 1
        BY FramesMade DEF CollectionLoops, Loop
  <1> HIDE DEF g
  <1>3. stack' \in Seq(Frame) /\ Len(stack') = 1 /\ DOMAIN stack' = 1 .. 1 /\ stack'[1] = g
        BY <1>1, <1>2
  <1>4. Stacked'
    <2>1. \A k \in 1 .. 1 : k = 1
          OBVIOUS
    <2> QED  BY <1>2, <1>3, <2>1 DEF Stacked, UpdatesAtBottom
  <1>5. Place' = 1 /\ \A f : Updating(f)' => f = "update"
        BY <1>2, <1>3 DEF Place, Updating
  <1>6. \A o \in Objects : ~Pending(o)'
        BY <1>3 DEF Pending
  <1>7. \A o \in Objects : ran'[o] = 0
        BY <1>1
  <1>8. /\ \A a \in DOMAIN owned : owned[a] \in Objects
        /\ \A b \in DOMAIN external : external[b] \in Objects
        /\ DOMAIN owned = 1 .. Len(owned) /\ Len(owned) \in Nat
        BY ArraysTyped
  <1>9. due' \subseteq Objects /\ \A o \in due' : object[o].active
        BY <1>1, <1>8 DEF ToSet
  <1>10. Flags'
        BY <1>1, <1>9 DEF Counted, Flags
  <1>11. UnbornNotRun' /\ OnceUnlessPersisted'
        BY <1>7 DEF UnbornNotRun, OnceUnlessPersisted
  <1>12. InOwned'
        BY <1>1, <1>6, <1>7, <1>8 DEF InOwned
  <1>13. InExternal' /\ ExternalReached' /\ AllReached'
        BY <1>5 DEF InExternal, ExternalReached, AllReached
  <1>14. OwnedReached'
    <2> SUFFICES ASSUME NEW o \in due'
                 PROVE  \/ \E a \in DOMAIN owned : a >= 1 /\ owned[a] = o
                        \/ \E b \in DOMAIN external : external[b] = o
          BY <1>1, <1>5 DEF OwnedReached
    <2>1. \A a \in DOMAIN owned : a >= 1
          BY <1>8
    <2> QED  BY <1>1, <2>1 DEF ToSet
  <1> QED  BY <1>4, <1>10, <1>11, <1>12, <1>13, <1>14 DEF Counted

(* The other steps of the engine.                                          *)
LEMMA EngineCounts ==
    ASSUME Placed, Stacked, Counted,
           \/ \E f \in Methods : Begin(f) \/ CallNext(f) \/ EndMethod(f)
           \/ AwakeAdded \/ StartAdded \/ ComponentReturns
           \/ \E f \in CollectionLoops \ UpdateLoops : Visit(f) \/ EndLoop(f)
    PROVE  Stacked' /\ Counted'
  <1>1. Stacked' /\ Steady
    <2>1. /\ object \in [Objects -> ObjectRecord]
          /\ slots \in [Objects -> [1 .. MaxComponents -> Components \cup {None}]]
          BY DEF Placed, CollectionTyped
    <2> QED  BY <2>1, EngineSteady, OtherLoopsSteady
  <1>2. \A o \in Objects : ~Pending(o)
    <2>1. ASSUME NEW f \in CollectionLoops, Quiet(f) PROVE Top.fn # "updateOf"
          BY <2>1 DEF Quiet, CollectionLoops
    <2>2. Top.fn # "updateOf" \/ Top.i # 0 \/ Top.c # None
      <3>1. ASSUME NEW f \in CollectionLoops, Visit(f) \/ EndLoop(f)
            PROVE  Top.fn # "updateOf"
            BY <2>1, <3>1 DEF Visit, EndLoop
      <3>2. ASSUME NEW f \in Methods, Begin(f) PROVE Top.fn # "updateOf"
            BY <3>2 DEF Begin, Quiet
      <3>3. ASSUME NEW f \in Methods, CallNext(f) \/ EndMethod(f) PROVE Top.i # 0
            BY <3>3 DEF CallNext, EndMethod
      <3>4. ASSUME AwakeAdded \/ StartAdded PROVE Top.fn # "updateOf"
            BY <3>4 DEF AwakeAdded, StartAdded, Quiet
      <3>5. ASSUME ComponentReturns PROVE Top.c # None
            BY <3>5 DEF ComponentReturns
      <3> QED  BY <3>1, <3>2, <3>3, <3>4, <3>5
    <2> QED  BY <2>2, NothingPending
  <1>3. UNCHANGED <<owned, external, ran, kept, due, passedOver>>
        BY DEF Begin, CallNext, EndMethod, AwakeAdded, StartAdded, ComponentReturns,
               Visit, EndLoop, members, seen
  <1>4. \A o \in Objects : object'[o].life = object[o].life /\ object'[o].active = object[o].active
    <2>1. ASSUME NEW f \in Methods, EndMethod(f)
          PROVE  \A o \in Objects : object'[o].life = object[o].life /\ object'[o].active = object[o].active
      <3>1. object' = [object EXCEPT ![Top.of].awoken = @ \/ f = "awake",
                                     ![Top.of].started = @ \/ f = "start"]
            BY <2>1 DEF EndMethod
      <3>2. object \in [Objects -> ObjectRecord]
            BY DEF Placed, CollectionTyped
      <3> QED  BY <3>1, <3>2 DEF ObjectRecord
    <2>2. (~ \E f \in Methods : EndMethod(f)) => object' = object
          BY DEF Begin, CallNext, AwakeAdded, StartAdded, ComponentReturns, Visit, EndLoop, members
    <2> QED  BY <2>1, <2>2
  <1>5. Flags'
        BY <1>3, <1>4 DEF Counted, Flags
  <1> QED  BY <1>1, <1>2, <1>3, <1>4, <1>5, CountsKept

LEMMA SpawnCounts ==
    ASSUME Placed, Stacked, Counted, NEW o \in Objects, NEW n \in 0 .. 1, Spawn(o, n)
    PROVE  Stacked' /\ Counted'
  <1> DEFINE m == Len(owned) + 1
  <1>1. /\ GameCalls /\ object[o].life = "unborn" /\ owned' = Append(owned, o)
        /\ object' = [object EXCEPT ![o].life = "live", ![o].count = n, ![o].made = n]
        /\ stack' = stack \/ stack' = stack \o <<Method("start", o), Method("awake", o)>>
        /\ due' = IF Awaits(m) THEN due \cup {o} ELSE due
        /\ UNCHANGED <<external, ran, passedOver, kept>>
        BY DEF Spawn
  <1>2. Stacked' /\ Steady
        BY <1>1, GameSteady, SpawnSteady
  <1>3. \A q \in Objects : ~Pending(q)
        BY <1>1, NothingPending DEF GameCalls
  <1>4. /\ Updating("update")' => Updating("update") /\ Place' = Place
        /\ Updating("updateExternals")' => Updating("updateExternals") /\ Place' = Place
        /\ Updating("lateUpdate")' => Updating("lateUpdate")
        /\ \A q \in Objects : ~Pending(q)'
        BY <1>2 DEF Steady, UpdateLoops
  <1>5. owned \in Seq(Objects) /\ object \in [Objects -> ObjectRecord]
        BY DEF Placed, CollectionTyped
  <1>6. /\ Len(owned) \in Nat /\ DOMAIN owned = 1 .. Len(owned)
        /\ \A b \in DOMAIN external : external[b] \in Objects
        /\ \A a \in DOMAIN owned : owned[a] \in Objects
        BY ArraysTyped
  <1>7. /\ \A a \in DOMAIN owned : owned'[a] = owned[a] /\ owned[a] # o
        /\ owned'[m] = o /\ DOMAIN owned' = (DOMAIN owned) \cup {m}
    <2>1. /\ DOMAIN owned' = 1 .. Len(owned) + 1
          /\ \A a \in 1 .. Len(owned) : owned'[a] = owned[a]
          /\ owned'[m] = o
          BY <1>1, <1>5, Pushed
    <2>2. 1 .. Len(owned) + 1 = (1 .. Len(owned)) \cup {m}
          BY <1>6
    <2>3. \A a \in DOMAIN owned : owned[a] # o
          BY <1>1 DEF Placed, LiveInPlace, Live
    <2> QED  BY <1>6, <2>1, <2>2, <2>3
  <1> HIDE DEF m
  <1>8. /\ object'[o].life = "live" /\ object'[o].active = object[o].active
        /\ \A q \in Objects : q # o => object'[q] = object[q]
        BY <1>1, <1>5 DEF ObjectRecord
  <1>9. Awaits(m) => Updating("update") /\ m >= Place
    <2> SUFFICES ASSUME NEW j \in DOMAIN stack, stack[j].fn = "update", stack[j].i <= m
                 PROVE  Updating("update") /\ m >= Place
          BY DEF Awaits
    <2>1. j = 1
          BY DEF Stacked, UpdatesAtBottom, FrameLoops
    <2>2. stack # <<>>
          BY StackShape
    <2>3. m \in Nat /\ Place \in Nat
          BY <1>6, <2>2, PlaceIsNat DEF m
    <2> QED  BY <2>1, <2>2, <2>3 DEF Updating, Place
  <1>10. ran[o] = 0 \/ ~(\E f \in UpdateLoops : Updating(f))
        BY <1>1 DEF Counted, UnbornNotRun
  <1>11. due \subseteq Objects /\ ran \in [Objects -> Nat]
        BY DEF Counted, Flags
  <1>12. Flags'
    <2>1. due' \subseteq Objects /\ \A q \in due' : object'[q].active
          BY <1>1, <1>8, <1>11 DEF Counted, Flags
    <2>2. \A q \in Objects : object'[q].life = "unborn" => object'[q].active
          BY <1>8 DEF Counted, Flags
    <2> QED  BY <1>1, <1>11, <2>1, <2>2 DEF Flags
  <1>13. OnceUnlessPersisted'
        BY <1>1 DEF Counted, OnceUnlessPersisted
  <1>14. UnbornNotRun'
        BY <1>1, <1>4, <1>8 DEF Counted, UnbornNotRun, UpdateLoops
  <1>15. InOwned'
    <2> SUFFICES ASSUME Updating("update")'
                 PROVE  /\ \A q \in Objects : ran[q] <= 1
                        /\ \A a \in DOMAIN owned' : a >= Place => ran[owned'[a]] = 0
                        /\ \A b \in DOMAIN external : external[b] \notin kept => ran[external[b]] = 0
          BY <1>1, <1>4 DEF InOwned
    <2>1. Updating("update") /\ ran[o] = 0
          BY <1>4, <1>10 DEF UpdateLoops
    <2> QED  BY <1>7, <2>1 DEF Counted, InOwned
  <1>16. InExternal'
    <2> SUFFICES ASSUME Updating("updateExternals")'
                 PROVE  /\ \A a \in DOMAIN owned' : ran[owned'[a]] <= 1
                        /\ \A b \in DOMAIN external : b >= Place => Again(external[b])
          BY <1>1, <1>4 DEF InExternal, Again
    <2>1. Updating("updateExternals") /\ ran[o] = 0 /\ 0 <= 1
          BY <1>4, <1>10 DEF UpdateLoops
    <2> QED  BY <1>7, <2>1 DEF Counted, InExternal
  <1>17. OwnedReached'
    <2> SUFFICES ASSUME Updating("update"), NEW q \in due' \ passedOver
                 PROVE  \/ ran[q] > 0
                        \/ \E a \in DOMAIN owned' : a >= Place /\ owned'[a] = q
                        \/ \E b \in DOMAIN external : external[b] = q
          BY <1>1, <1>4 DEF OwnedReached
    <2>1. CASE q \in due
      <3>1. \/ ran[q] > 0
            \/ \E a \in DOMAIN owned : a >= Place /\ owned[a] = q
            \/ \E b \in DOMAIN external : external[b] = q
            BY <1>3, <1>11, <2>1 DEF Counted, OwnedReached
      <3> QED  BY <1>7, <3>1
    <2>2. CASE q \notin due
          BY <1>1, <1>7, <1>9, <2>2
    <2> QED  BY <2>1, <2>2
  <1>18. Updating("updateExternals") \/ Updating("lateUpdate") => due' = due
    <2>1. ~(Updating("update") /\ (Updating("updateExternals") \/ Updating("lateUpdate")))
          BY DEF Updating
    <2> QED  BY <1>1, <1>9, <2>1
  <1>19. ExternalReached'
        BY <1>1, <1>3, <1>4, <1>11, <1>18 DEF Counted, ExternalReached
  <1>20. AllReached'
        BY <1>1, <1>4, <1>18 DEF Counted, AllReached
  <1> QED  BY <1>2, <1>12, <1>13, <1>14, <1>15, <1>16, <1>17, <1>19, <1>20 DEF Counted

(* The object that comes down to the place behind the loop is passed over. *)
LEMMA ShiftedOwned ==
    ASSUME Placed, Stacked, NEW k \in DOMAIN owned, owned' = RemoveAt(owned, k),
           Updating("update"), NEW a \in DOMAIN owned, a >= Place, a # k,
           owned[a] \notin Shifted(k)
    PROVE  \E i \in DOMAIN owned' : i >= Place /\ owned'[i] = owned[a]
  <1>1. /\ DOMAIN owned' = 1 .. Len(owned) - 1
        /\ \A i \in DOMAIN owned' : owned'[i] = IF i < k THEN owned[i] ELSE owned[i + 1]
        BY OwnedLeaves
  <1>2. Len(owned) \in Nat /\ a \in 1 .. Len(owned) /\ k \in 1 .. Len(owned)
        BY ArraysTyped
  <1>3. 1 \in DOMAIN stack /\ Place \in Nat
    <2>1. 1 \in 1 .. Len(stack) /\ DOMAIN stack = 1 .. Len(stack)
          BY StackShape DEF Updating
    <2>2. stack[1] \in Frame
          BY <2>1, StackShape
    <2> QED  BY <2>1, <2>2 DEF Frame, Place
  <1>4. CASE a < k
    <2>1. a \in 1 .. Len(owned) - 1
          BY <1>2, <1>4
    <2> QED  BY <1>1, <1>4, <2>1
  <1>5. CASE a > k
    <2>1. a # Place
      <3> SUFFICES ASSUME a = Place PROVE owned[a] \in Shifted(k)
            OBVIOUS
      <3>1. stack[1].fn = "update" /\ stack[1].i = a
            BY DEF Updating, Place
      <3>2. k < stack[1].i /\ stack[1].i <= Len(owned)
            BY <1>2, <1>5, <3>1
      <3> QED  BY <1>3, <3>1, <3>2 DEF Shifted
    <2>2. a - 1 \in 1 .. Len(owned) - 1 /\ ~(a - 1 < k) /\ (a - 1) + 1 = a
          BY <1>2, <1>5
    <2>3. a - 1 >= Place
          BY <1>2, <1>3, <2>1
    <2>4. owned'[a - 1] = owned[a]
          BY <1>1, <2>2
    <2> QED  BY <1>1, <2>2, <2>3, <2>4
  <1> QED  BY <1>2, <1>4, <1>5

LEMMA DestroyCounts ==
    ASSUME Placed, Stacked, Counted, NEW k \in DOMAIN owned, Destroy(k)
    PROVE  Stacked' /\ Counted'
  <1>1. /\ GameCalls /\ owned' = RemoveAt(owned, k) /\ passedOver' = passedOver \cup Shifted(k)
        /\ Destroyed({owned[k]}) /\ due' = due \ {owned[k]}
        /\ UNCHANGED <<external, stack, ran, kept>>
        BY DEF Destroy, Destroyed
  <1>2. Stacked' /\ Steady
        BY <1>1, GameSteady
  <1>3. \A q \in Objects : ~Pending(q)
        BY <1>1, NothingPending DEF GameCalls
  <1>4. \A q \in Objects : ~Pending(q)'
        BY <1>2 DEF Steady
  <1>5. /\ \A f : Updating(f)' <=> Updating(f)
        /\ Place' = Place
        BY <1>1 DEF Updating, Place
  <1>6. \A i \in DOMAIN owned' : i \in Nat /\ \E a \in DOMAIN owned : owned'[i] = owned[a] /\ a >= i
    <2>1. /\ DOMAIN owned' = 1 .. Len(owned) - 1
          /\ \A i \in DOMAIN owned' : owned'[i] = IF i < k THEN owned[i] ELSE owned[i + 1]
          BY <1>1, OwnedLeaves
    <2>2. Len(owned) \in Nat /\ DOMAIN owned = 1 .. Len(owned)
          BY ArraysTyped
    <2>3. \A i \in DOMAIN owned' : /\ i \in Nat /\ i \in DOMAIN owned /\ i + 1 \in DOMAIN owned
                                   /\ i >= i /\ i + 1 >= i
          BY <2>1, <2>2
    <2> QED  BY <2>1, <2>3
  <1>7. \A q \in Objects : /\ object'[q].life = "unborn" => object[q].life = "unborn" /\ object'[q] = object[q]
                           /\ q # owned[k] => object'[q] = object[q]
    <2>1. object' = [o \in Objects |-> IF o \in {owned[k]} THEN [Unborn EXCEPT !.life = "dead"] ELSE object[o]]
          BY <1>1 DEF Destroyed
    <2>2. [Unborn EXCEPT !.life = "dead"].life = "dead"
          BY DEF Unborn
    <2> QED  BY <2>1, <2>2
  <1>8. due \subseteq Objects /\ ran \in [Objects -> Nat]
        BY DEF Counted, Flags
  <1>9. Flags'
    <2>1. due' \subseteq Objects /\ \A q \in due' : object'[q].active
          BY <1>1, <1>7, <1>8 DEF Counted, Flags
    <2>2. \A q \in Objects : object'[q].life = "unborn" => object'[q].active
          BY <1>7 DEF Counted, Flags
    <2> QED  BY <1>1, <1>8, <2>1, <2>2 DEF Flags
  <1>10. OnceUnlessPersisted'
        BY <1>1 DEF Counted, OnceUnlessPersisted
  <1>11. UnbornNotRun'
        BY <1>1, <1>5, <1>7 DEF Counted, UnbornNotRun
  <1>12. InOwned'
    <2> SUFFICES ASSUME Updating("update")
                 PROVE  /\ \A q \in Objects : ran[q] <= 1
                        /\ \A a \in DOMAIN owned' : a >= Place => ran[owned'[a]] = 0
                        /\ \A b \in DOMAIN external : external[b] \notin kept => ran[external[b]] = 0
          BY <1>1, <1>4, <1>5 DEF InOwned
    <2>1. ASSUME NEW i \in DOMAIN owned', i >= Place PROVE ran[owned'[i]] = 0
      <3>1. PICK a \in DOMAIN owned : owned'[i] = owned[a] /\ a >= i
            BY <1>6
      <3>2. Place \in Nat
            BY PlaceIsNat DEF Updating
      <3>3. a >= Place
            BY <1>6, <2>1, <3>1, <3>2, ArraysTyped
      <3> QED  BY <3>1, <3>3 DEF Counted, InOwned
    <2> QED  BY <2>1 DEF Counted, InOwned
  <1>13. InExternal'
    <2> SUFFICES ASSUME Updating("updateExternals")
                 PROVE  /\ \A a \in DOMAIN owned' : ran[owned'[a]] <= 1
                        /\ \A b \in DOMAIN external : b >= Place => Again(external[b])
          BY <1>1, <1>4, <1>5 DEF InExternal, Again
    <2> QED  BY <1>6 DEF Counted, InExternal
  <1>14. OwnedReached'
    <2> SUFFICES ASSUME Updating("update"), NEW q \in due' \ passedOver'
                 PROVE  \/ ran[q] > 0
                        \/ \E i \in DOMAIN owned' : i >= Place /\ owned'[i] = q
                        \/ \E b \in DOMAIN external : external[b] = q
          BY <1>1, <1>5 DEF OwnedReached
    <2>1. q \in due \ passedOver /\ q \in Objects /\ q # owned[k] /\ q \notin Shifted(k)
          BY <1>1, <1>8
    <2>2. \/ ran[q] > 0
          \/ \E a \in DOMAIN owned : a >= Place /\ owned[a] = q
          \/ \E b \in DOMAIN external : external[b] = q
          BY <1>3, <2>1 DEF Counted, OwnedReached
    <2>3. ASSUME NEW a \in DOMAIN owned, a >= Place, owned[a] = q
          PROVE  \E i \in DOMAIN owned' : i >= Place /\ owned'[i] = q
      <3>1. a # k /\ owned[a] \notin Shifted(k)
            BY <2>1, <2>3
      <3>2. \E i \in DOMAIN owned' : i >= Place /\ owned'[i] = owned[a]
            BY <1>1, <2>3, <3>1, ShiftedOwned
      <3> QED  BY <2>3, <3>2
    <2> QED  BY <2>2, <2>3
  <1>15. ExternalReached'
        BY <1>1, <1>3, <1>5, <1>8 DEF Counted, ExternalReached
  <1>16. AllReached'
        BY <1>1, <1>5 DEF Counted, AllReached
  <1> QED  BY <1>2, <1>9, <1>10, <1>11, <1>12, <1>13, <1>14, <1>15, <1>16 DEF Counted

LEMMA PersistCounts ==
    ASSUME Placed, Stacked, Counted, NEW k \in DOMAIN owned, Persist(k)
    PROVE  Stacked' /\ Counted'
  <1> DEFINE n == Len(external) + 1
             o == owned[k]
  <1>1. /\ GameCalls /\ owned' = RemoveAt(owned, k) /\ external' = Append(external, o)
        /\ passedOver' = passedOver \cup Shifted(k) /\ kept' = kept \cup {o}
        /\ UNCHANGED <<object, stack, ran, due>>
        BY DEF Persist
  <1>2. Stacked' /\ Steady
        BY <1>1, GameSteady
  <1>3. \A q \in Objects : ~Pending(q)
        BY <1>1, NothingPending DEF GameCalls
  <1>4. \A q \in Objects : ~Pending(q)'
        BY <1>2 DEF Steady
  <1>5. /\ \A f : Updating(f)' <=> Updating(f)
        /\ Place' = Place
        BY <1>1 DEF Updating, Place
  <1>6. o \in Objects /\ Len(external) \in Nat /\ DOMAIN external = 1 .. Len(external)
        BY ArraysTyped
  <1>7. \A i \in DOMAIN owned' : i \in Nat /\ \E a \in DOMAIN owned : owned'[i] = owned[a] /\ a >= i
    <2>1. /\ DOMAIN owned' = 1 .. Len(owned) - 1
          /\ \A i \in DOMAIN owned' : owned'[i] = IF i < k THEN owned[i] ELSE owned[i + 1]
          BY <1>1, OwnedLeaves
    <2>2. Len(owned) \in Nat /\ DOMAIN owned = 1 .. Len(owned)
          BY ArraysTyped
    <2>3. \A i \in DOMAIN owned' : /\ i \in Nat /\ i \in DOMAIN owned /\ i + 1 \in DOMAIN owned
                                   /\ i >= i /\ i + 1 >= i
          BY <2>1, <2>2
    <2> QED  BY <2>1, <2>3
  <1>8. /\ DOMAIN external' = DOMAIN external \cup {n} /\ n \notin DOMAIN external
        /\ \A b \in DOMAIN external : external'[b] = external[b]
        /\ external'[n] = o
        BY <1>1, <1>6, ExternalJoined
  <1> HIDE DEF n, o
  <1>9. due \subseteq Objects /\ ran \in [Objects -> Nat] /\ o \in kept'
        BY <1>1 DEF Counted, Flags
  <1>10. Flags'
        BY <1>1 DEF Counted, Flags
  <1>11. OnceUnlessPersisted'
        BY <1>1 DEF Counted, OnceUnlessPersisted
  <1>12. UnbornNotRun'
        BY <1>1, <1>5 DEF Counted, UnbornNotRun
  <1>13. InOwned'
    <2> SUFFICES ASSUME Updating("update")
                 PROVE  /\ \A q \in Objects : ran[q] <= 1
                        /\ \A a \in DOMAIN owned' : a >= Place => ran[owned'[a]] = 0
                        /\ \A b \in DOMAIN external' : external'[b] \notin kept' => ran[external'[b]] = 0
          BY <1>1, <1>4, <1>5 DEF InOwned
    <2>1. ASSUME NEW i \in DOMAIN owned', i >= Place PROVE ran[owned'[i]] = 0
      <3>1. PICK a \in DOMAIN owned : owned'[i] = owned[a] /\ a >= i
            BY <1>7
      <3>2. Place \in Nat
            BY PlaceIsNat DEF Updating
      <3>3. a >= Place
            BY <1>7, <2>1, <3>1, <3>2, ArraysTyped
      <3> QED  BY <3>1, <3>3 DEF Counted, InOwned
    <2>2. ASSUME NEW b \in DOMAIN external', external'[b] \notin kept' PROVE ran[external'[b]] = 0
      <3>1. b # n /\ b \in DOMAIN external /\ external[b] \notin kept
            BY <1>1, <1>8, <1>9, <2>2
      <3> QED  BY <1>8, <3>1 DEF Counted, InOwned
    <2> QED  BY <2>1, <2>2 DEF Counted, InOwned
  <1>14. InExternal'
    <2> SUFFICES ASSUME Updating("updateExternals")
                 PROVE  /\ \A a \in DOMAIN owned' : ran[owned'[a]] <= 1
                        /\ \A b \in DOMAIN external' : b >= Place =>
                              ran[external'[b]] = 0 \/ (ran[external'[b]] = 1 /\ external'[b] \in kept')
          BY <1>1, <1>4, <1>5 DEF InExternal, Again
    <2>1. ran[o] \in Nat /\ ran[o] <= 1
          BY <1>6, <1>9 DEF Counted, InExternal, o
    <2>2. ran[o] = 0 \/ ran[o] = 1
          BY <2>1
    <2>3. ASSUME NEW b \in DOMAIN external', b >= Place
          PROVE  ran[external'[b]] = 0 \/ (ran[external'[b]] = 1 /\ external'[b] \in kept')
      <3>1. CASE b = n
            BY <1>8, <1>9, <2>2, <3>1
      <3>2. CASE b # n
            BY <1>1, <1>8, <2>3, <3>2 DEF Counted, InExternal, Again
      <3> QED  BY <3>1, <3>2
    <2> QED  BY <1>7, <2>3 DEF Counted, InExternal
  <1>15. OwnedReached'
    <2> SUFFICES ASSUME Updating("update"), NEW q \in due \ passedOver'
                 PROVE  \/ ran[q] > 0
                        \/ \E i \in DOMAIN owned' : i >= Place /\ owned'[i] = q
                        \/ \E b \in DOMAIN external' : external'[b] = q
          BY <1>1, <1>5 DEF OwnedReached
    <2>1. q \in due \ passedOver /\ q \in Objects /\ q \notin Shifted(k)
          BY <1>1, <1>9
    <2>2. \/ ran[q] > 0
          \/ \E a \in DOMAIN owned : a >= Place /\ owned[a] = q
          \/ \E b \in DOMAIN external : external[b] = q
          BY <1>3, <2>1 DEF Counted, OwnedReached
    <2>3. ASSUME NEW a \in DOMAIN owned, a >= Place, owned[a] = q
          PROVE  \/ \E i \in DOMAIN owned' : i >= Place /\ owned'[i] = q
                 \/ \E b \in DOMAIN external' : external'[b] = q
      <3>1. CASE a = k
            BY <1>8, <2>3, <3>1 DEF o
      <3>2. CASE a # k
        <4>1. owned[a] \notin Shifted(k)
              BY <2>1, <2>3
        <4>2. \E i \in DOMAIN owned' : i >= Place /\ owned'[i] = owned[a]
              BY <1>1, <2>3, <3>2, <4>1, ShiftedOwned
        <4> QED  BY <2>3, <4>2
      <3> QED  BY <3>1, <3>2
    <2> QED  BY <1>8, <2>2, <2>3
  <1>16. ExternalReached'
    <2> SUFFICES ASSUME Updating("updateExternals"), NEW q \in due \ passedOver'
                 PROVE  \/ ran[q] > 0
                        \/ \E b \in DOMAIN external' : b >= Place /\ external'[b] = q
          BY <1>1, <1>5 DEF ExternalReached
    <2>1. q \in due \ passedOver /\ q \in Objects
          BY <1>1, <1>9
    <2>2. \/ ran[q] > 0
          \/ \E b \in DOMAIN external : b >= Place /\ external[b] = q
          BY <1>3, <2>1 DEF Counted, ExternalReached
    <2> QED  BY <1>8, <2>2
  <1>17. AllReached'
        BY <1>1, <1>5 DEF Counted, AllReached
  <1> QED  BY <1>2, <1>10, <1>11, <1>12, <1>13, <1>14, <1>15, <1>16, <1>17 DEF Counted

LEMMA ComponentsCount ==
    ASSUME Placed, Stacked, Counted, NEW o \in Objects,
           \/ SetActive(o) \/ AddComponent(o)
           \/ \E c \in Components : SetEnabled(c)
           \/ \E k \in 1 .. MaxComponents : RemoveComponent(o, k)
    PROVE  Stacked' /\ Counted'
  <1> DEFINE Rest == /\ GameCalls /\ UNCHANGED <<owned, external, ran, kept>>
                     /\ due' \subseteq due /\ passedOver \subseteq passedOver'
  <1>1. Rest
    <2>1. ASSUME SetActive(o) PROVE Rest
          BY <2>1 DEF SetActive
    <2>2. ASSUME AddComponent(o) PROVE Rest
          BY <2>2 DEF AddComponent
    <2>3. ASSUME NEW c \in Components, SetEnabled(c) PROVE Rest
          BY <2>3 DEF SetEnabled, seen
    <2>4. ASSUME NEW k \in 1 .. MaxComponents, RemoveComponent(o, k)
          PROVE  Rest
          BY <2>4 DEF RemoveComponent
    <2> QED  BY <2>1, <2>2, <2>3, <2>4
  <1>2. object \in [Objects -> ObjectRecord] /\ object[o] \in ObjectRecord
        BY DEF Placed, CollectionTyped
  <1>3. /\ \A q \in Objects : object'[q].life = object[q].life
        /\ \A q \in Objects : object'[q].active = object[q].active \/ (q = o /\ SetActive(o))
    <2>1. CASE SetActive(o)
      <3>1. object' = [object EXCEPT ![o].active = ~@]
            BY <2>1 DEF SetActive
      <3> QED  BY <1>2, <2>1, <3>1 DEF ObjectRecord
    <2>2. CASE AddComponent(o)
      <3>1. object' = [object EXCEPT ![o].count = @ + 1, ![o].made = @ + 1]
            BY <2>2 DEF AddComponent
      <3> QED  BY <1>2, <3>1 DEF ObjectRecord
    <2>3. ASSUME NEW c \in Components, SetEnabled(c) PROVE object' = object
          BY <2>3 DEF SetEnabled
    <2>4. ASSUME NEW k \in 1 .. MaxComponents, RemoveComponent(o, k)
          PROVE  /\ \A q \in Objects : object'[q].life = object[q].life
                 /\ \A q \in Objects : object'[q].active = object[q].active
      <3>1. object' = [object EXCEPT ![o].count = object[o].count - 1]
            BY <2>4 DEF RemoveComponent
      <3> QED  BY <1>2, <3>1 DEF ObjectRecord
    <2> QED  BY <2>1, <2>2, <2>3, <2>4
  <1>4. SetActive(o) => due' = due \ {o} /\ object[o].life = "live"
        BY DEF SetActive, Live
  <1>5. Flags'
    <2>1. due \subseteq Objects /\ \A q \in due : object[q].active
          BY DEF Counted, Flags
    <2>2. \A q \in due' : object'[q].active
          BY <1>1, <1>3, <1>4, <2>1
    <2>3. \A q \in Objects : object[q].life = "unborn" => object[q].active
          BY DEF Counted, Flags
    <2>4. ASSUME NEW q \in Objects, object'[q].life = "unborn" PROVE object'[q].active
      <3>1. object[q].life = "unborn"
            BY <1>3, <2>4
      <3>2. ~(q = o /\ SetActive(o))
            BY <1>4, <3>1
      <3> QED  BY <1>3, <2>3, <3>1, <3>2
    <2> QED  BY <1>1, <2>1, <2>2, <2>4 DEF Counted, Flags
  <1>6. Stacked' /\ Steady
    <2>1. CASE AddComponent(o)
      <3> DEFINE c == <<o, object[o].made + 1>>
      <3>1. object[o].made < MaxMade /\ stack' = Append(stack, Added(c))
            BY <2>1 DEF AddComponent
      <3>2. object[o].made + 1 \in 1 .. MaxMade
            BY <1>2, <3>1, Positive DEF ObjectRecord
      <3>3. c \in Components
            BY <3>2 DEF Components
      <3> HIDE DEF c
      <3> QED  BY <1>1, <3>1, <3>3, AddedSteady
    <2>2. CASE ~AddComponent(o)
      <3>1. stack' = stack
            BY <2>2 DEF SetActive, SetEnabled, RemoveComponent
      <3> QED  BY <1>1, <3>1, GameSteady
    <2> QED  BY <2>1, <2>2
  <1>7. \A q \in Objects : ~Pending(q)
        BY <1>1, NothingPending DEF GameCalls
  <1> QED  BY <1>1, <1>3, <1>5, <1>6, <1>7, CountsKept

(* Between two frames no loop has anything to reach.                       *)
LEMMA BetweenFramesCounts ==
    ASSUME Placed, Stacked, Counted, RemoveInactive \/ Clear
    PROVE  Stacked' /\ Counted'
  <1>1. stack = <<>> /\ UNCHANGED <<stack, ran, kept>> /\ GameCalls
        BY DEF RemoveInactive, Clear
  <1>2. \A f : ~Updating(f)'
        BY <1>1 DEF Updating
  <1>3. Stacked'
        BY <1>1, GameSteady
  <1>4. Flags'
    <2>1. PICK os : Destroyed(os)
          BY DEF RemoveInactive, Clear
    <2>2. /\ object' = [o \in Objects |-> IF o \in os THEN [Unborn EXCEPT !.life = "dead"] ELSE object[o]]
          /\ due' = due \ os
          BY <2>1 DEF Destroyed
    <2>3. [Unborn EXCEPT !.life = "dead"].life = "dead"
          BY DEF Unborn
    <2>4. /\ \A q \in Objects : object'[q].life = "unborn" => object'[q] = object[q]
          /\ \A q \in Objects : q \notin os => object'[q] = object[q]
          BY <2>2, <2>3
    <2> QED  BY <1>1, <2>2, <2>4 DEF Counted, Flags
  <1>5. OnceUnlessPersisted'
        BY <1>1 DEF Counted, OnceUnlessPersisted
  <1> QED  BY <1>2, <1>3, <1>4, <1>5
           DEF Counted, UnbornNotRun, InOwned, InExternal, OwnedReached, ExternalReached, AllReached

LEMMA InitCounted == CollectionInit => Stacked /\ Counted
  <1> SUFFICES ASSUME CollectionInit PROVE Stacked /\ Counted
        OBVIOUS
  <1>1. /\ stack = <<>> /\ object = [o \in Objects |-> Unborn]
        /\ ran = [o \in Objects |-> 0] /\ due = {} /\ kept = {}
        BY DEF CollectionInit
  <1>2. Stacked
    <2>1. <<>> \in Seq(Frame) /\ DOMAIN <<>> = {}
          BY EmptySeq
    <2> QED  BY <1>1, <2>1 DEF Stacked, UpdatesAtBottom
  <1>3. \A f : ~Updating(f)
        BY <1>1 DEF Updating
  <1>4. Flags
        BY <1>1 DEF Flags, Unborn
  <1>5. OnceUnlessPersisted
        BY <1>1 DEF OnceUnlessPersisted
  <1> QED  BY <1>2, <1>3, <1>4, <1>5
           DEF Counted, UnbornNotRun, InOwned, InExternal, OwnedReached, ExternalReached, AllReached

LEMMA NextCounted ==
    ASSUME Placed, Stacked, Counted, [CollectionNext]_collectionVars
    PROVE  Stacked' /\ Counted'
  <1>1. CASE Activate
        BY <1>1, ActivateCounts
  <1>2. CASE BeginFrame
        BY <1>2, BeginFrameCounts
  <1>3. ASSUME Engine PROVE Stacked' /\ Counted'
    <2>1. ASSUME NEW f \in UpdateLoops, Visit(f) PROVE Stacked' /\ Counted'
          BY <2>1, UpdateVisits, VisitCounts
    <2>2. ASSUME NEW f \in UpdateLoops, EndLoop(f) PROVE Stacked' /\ Counted'
          BY <2>2, UpdateEnds, EndCounts
    <2>3. CASE BeginObjectUpdate
          BY <2>3, UpdateBegins, BeginCounts
    <2>4. ASSUME NEW f \in CollectionLoops \ UpdateLoops, Visit(f) \/ EndLoop(f)
          PROVE  Stacked' /\ Counted'
          BY <2>4, EngineCounts
    <2>5. ASSUME \/ \E f \in Methods : Begin(f) \/ CallNext(f) \/ EndMethod(f)
                 \/ AwakeAdded \/ StartAdded \/ ComponentReturns
          PROVE  Stacked' /\ Counted'
          BY <2>5, EngineCounts
    <2> QED  BY <1>3, <2>1, <2>2, <2>3, <2>4, <2>5 DEF Engine
  <1>4. ASSUME Game PROVE Stacked' /\ Counted'
    <2>1. ASSUME NEW o \in Objects, NEW n \in 0 .. 1, Spawn(o, n) PROVE Stacked' /\ Counted'
          BY <2>1, SpawnCounts
    <2>2. ASSUME NEW k \in DOMAIN owned, Destroy(k) \/ PersistFull(k) PROVE Stacked' /\ Counted'
          BY <2>2, DestroyCounts DEF PersistFull
    <2>3. ASSUME NEW k \in DOMAIN owned, Persist(k) PROVE Stacked' /\ Counted'
          BY <2>3, PersistCounts
    <2>4. ASSUME NEW o \in Objects, SetActive(o) \/ AddComponent(o) PROVE Stacked' /\ Counted'
          BY <2>4, ComponentsCount
    <2>5. ASSUME NEW c \in Components, SetEnabled(c) PROVE Stacked' /\ Counted'
      <3>1. PICK o \in Objects : TRUE
            BY DEF Components
      <3> QED  BY <2>5, <3>1, ComponentsCount
    <2>6. ASSUME NEW o \in Objects, NEW k \in 1 .. MaxComponents, RemoveComponent(o, k)
          PROVE  Stacked' /\ Counted'
          BY <2>6, ComponentsCount
    <2>7. CASE RemoveInactive \/ Clear
          BY <2>7, BetweenFramesCounts
    <2> QED  BY <1>4, <2>1, <2>2, <2>3, <2>4, <2>5, <2>6, <2>7 DEF Game
  <1>5. ASSUME UNCHANGED collectionVars PROVE Stacked' /\ Counted'
    <2>1. UNCHANGED <<owned, external, object, stack, ran, due, passedOver, kept>>
          BY <1>5 DEF collectionVars, members, seen
    <2>2. Stacked'
          BY <2>1 DEF Stacked, UpdatesAtBottom
    <2>3. Flags' /\ UnbornNotRun' /\ OnceUnlessPersisted'
          BY <2>1 DEF Counted, Flags, UnbornNotRun, OnceUnlessPersisted, Updating
    <2>4. InOwned' /\ InExternal'
          BY <2>1 DEF Counted, InOwned, InExternal, Updating, Place, Pending, Again
    <2>5. OwnedReached' /\ ExternalReached' /\ AllReached'
          BY <2>1 DEF Counted, OwnedReached, ExternalReached, AllReached, Updating, Place, Pending
    <2> QED  BY <2>2, <2>3, <2>4, <2>5 DEF Counted
  <1> QED  BY <1>1, <1>2, <1>3, <1>4, <1>5 DEF CollectionNext

LEMMA SpecCounted == CollectionSpec => [](Placed /\ Stacked /\ Counted)
  <1>1. CollectionInit => Placed /\ Stacked /\ Counted
        BY InitPlaced, InitCounted
  <1>2. Placed /\ Stacked /\ Counted /\ [CollectionNext]_collectionVars => Placed' /\ Stacked' /\ Counted'
        BY NextPlaced, NextCounted
  <1> QED  BY <1>1, <1>2, PTL DEF CollectionSpec

(* However objects are spawned, destroyed, persisted, and switched on and  *)
(* off while the loops walk, an object misses the update of a frame only   *)
(* when a removal behind the loop moved it to a place already passed.      *)
THEOREM NobodyIsMissed == CollectionSpec => []NobodyMissed
  <1>1. Stacked /\ Counted => NobodyMissed
        BY CountedIsEnough
  <1> QED  BY <1>1, SpecCounted, PTL

(* An object runs once in a frame, and a second time only as an external   *)
(* object after it was persisted from the owned ones during the frame.     *)
THEOREM PersistedRunAgain == CollectionSpec => []OnceUnlessPersisted
  <1>1. Counted => OnceUnlessPersisted
        BY DEF Counted
  <1> QED  BY <1>1, SpecCounted, PTL

-----------------------------------------------------------------------------
(* Which call may be below which: loops are at the bottom; a call that is  *)
(* not on top runs a component, except that start calls awake, and update  *)
(* start; of the methods of one object only the innermost runs one, and    *)
(* none is called while a component is being added to it; and no component *)
(* is being added twice.                                                   *)
InCall == {stack[k] : k \in DOMAIN stack}
Below  == {stack[k] : k \in 1 .. Len(stack) - 1}

IsMethod(a) == a.fn \in Methods
IsAdded(a)  == a.fn \in AddedCalls
Busy(a)     == a.c # None
Adds(a)     == <<a.of, a.i>>

MayWait(a)  == \/ Busy(a) \/ a.fn \in CollectionLoops
               \/ a.fn = "start" /\ a.i <= 1
               \/ a.fn = "updateOf"
Nests(a, b) == /\ ~Busy(a)
               /\ \/ a.fn = "start" /\ a.i <= 1 /\ b.fn = "awake"
                  \/ a.fn = "updateOf" /\ b.fn \in {"awake", "start"}
Fits(a, b) ==
    /\ MayWait(a)
    /\ b.fn \in CollectionLoops => a.fn \in CollectionLoops
    /\ IsMethod(b) /\ a.of = b.of => Nests(a, b)
    /\ IsAdded(a) /\ IsAdded(b) => Adds(a) # Adds(b)

InOrder == \A k, l \in DOMAIN stack : k < l => Fits(stack[k], stack[l])

-----------------------------------------------------------------------------
(* What a call in progress says of its object, and its object of it.       *)
Sound(a) ==
    /\ a.fn \notin CollectionLoops => Live(a.of)
    /\ IsAdded(a) => a.i <= object[a.of].made
    /\ IsMethod(a) /\ Busy(a) =>
            \E p \in 1 .. object[a.of].count : p <= a.i /\ slots[a.of][p] = a.c
    /\ IsAdded(a) /\ Busy(a) => a.c = Adds(a)

Awaking(o)  == \E b \in InCall : b.fn = "awake" /\ b.of = o
Starting(o) == \E b \in InCall : b.fn = "start" /\ b.of = o

(* A loop that has begun is there for a flag that is not set yet.          *)
InTurn(a) ==
    a.i >= 1 =>
        /\ a.fn = "awake" => ~object[a.of].awoken
        /\ a.fn = "start" => ~object[a.of].started /\ (object[a.of].awoken \/ Awaking(a.of))
        /\ a.fn = "updateOf" => object[a.of].started \/ Starting(a.of)

FlagsInOrder ==
    \A o \in Objects : /\ object[o].started => object[o].awoken
                       /\ object[o].life = "unborn" => ~object[o].awoken

NotAdding == \A a, b \in InCall : IsAdded(a) /\ IsMethod(b) => b.c # Adds(a)

CallsSound == (\A a \in InCall : Sound(a) /\ InTurn(a)) /\ FlagsInOrder /\ NotAdding

-----------------------------------------------------------------------------
(* How often each component was awoken and started: once when the loop has *)
(* reached it, and when the flag is set, unless it is being added.         *)
Reaches(a, f, o, p) == a.fn = f /\ a.of = o /\ (p < a.i \/ (p = a.i /\ Busy(a)))
WillAwake(a, c)     == a.fn = "awakeAdded" /\ ~Busy(a) /\ Adds(a) = c
WillStart(a, c)     == IsAdded(a) /\ (a.fn = "awakeAdded" \/ ~Busy(a)) /\ Adds(a) = c

Reached(f, o, p) == \E a \in InCall : Reaches(a, f, o, p)
ToAwake(c)       == \E a \in InCall : WillAwake(a, c)
ToStart(c)       == \E a \in InCall : WillStart(a, c)
Once(b)          == IF b THEN 1 ELSE 0

OnceEach ==
    \A o \in Objects : \A p \in 1 .. object[o].count : slots[o][p] \notin passedOver =>
        /\ awoken[slots[o][p]] =
                Once(Reached("awake", o, p) \/ (object[o].awoken /\ ~ToAwake(slots[o][p])))
        /\ started[slots[o][p]] =
                Once(Reached("start", o, p) \/ (object[o].started /\ ~ToStart(slots[o][p])))

AddedOnce(a) ==
    /\ a.fn = "awakeAdded" => /\ awoken[Adds(a)] = Once(Busy(a)) /\ started[Adds(a)] = 0
                              /\ Busy(a) => object[a.of].awoken
    /\ a.fn = "startAdded" => /\ awoken[Adds(a)] = Once(object[a.of].awoken)
                              /\ started[Adds(a)] = Once(Busy(a))
                              /\ Busy(a) => object[a.of].started

NoneUnmade ==
    \A o \in Objects : \A j \in 1 .. MaxMade :
        j > object[o].made => awoken[<<o, j>>] = 0 /\ started[<<o, j>>] = 0

AllOnce ==
    /\ awoken \in [Components -> Nat] /\ started \in [Components -> Nat]
    /\ NoneUnmade /\ OnceEach /\ \A a \in InCall : AddedOnce(a)

LEMMA TopIsLast ==
    ASSUME Stacked, stack # <<>>
    PROVE  /\ InCall = Below \cup {Top} /\ InCall \subseteq Frame /\ Below \subseteq Frame /\ Top \in Frame
           /\ InOrder => \A a \in Below : Fits(a, Top)
  <1> DEFINE n == Len(stack)
  <1>1. /\ n \in Nat /\ n >= 1 /\ DOMAIN stack = 1 .. n /\ Top = stack[n]
        /\ \A k \in 1 .. n : stack[k] \in Frame
        BY StackShape
  <1> HIDE DEF n
  <1>2. /\ \A k \in 1 .. n : k = n \/ k \in 1 .. n - 1
        /\ \A k \in 1 .. n - 1 : k \in 1 .. n /\ k < n
        /\ n \in 1 .. n
        BY <1>1
  <1>3. InCall = {stack[k] : k \in 1 .. n} /\ Below = {stack[k] : k \in 1 .. n - 1}
        BY <1>1 DEF InCall, Below, n
  <1>4. InCall = Below \cup {Top} /\ InCall \subseteq Frame /\ Below \subseteq Frame /\ Top \in Frame
        BY <1>1, <1>2, <1>3
  <1>5. ASSUME InOrder, NEW a \in Below PROVE Fits(a, Top)
    <2>1. PICK k \in 1 .. n - 1 : a = stack[k]
          BY <1>3
    <2> QED  BY <1>1, <1>2, <1>5, <2>1 DEF InOrder
  <1> QED  BY <1>4, <1>5

(* The order of the calls after each way to change the stack.              *)
LEMMA ReplacedCalls ==
    ASSUME Stacked, stack # <<>>, InOrder, NEW f \in Frame, Replace(f),
           \A a \in Below : Fits(a, Top) => Fits(a, f)
    PROVE  InCall' = Below \cup {f} /\ InOrder'
  <1> DEFINE n == Len(stack)
  <1>1. /\ n \in Nat /\ n >= 1 /\ DOMAIN stack = 1 .. n
        /\ \A a \in Below : Fits(a, Top)
        /\ Below = {stack[k] : k \in 1 .. n - 1}
        BY StackShape, TopIsLast DEF Below
  <1>2. /\ DOMAIN stack' = 1 .. n
        /\ \A k \in 1 .. n - 1 : stack'[k] = stack[k]
        /\ stack'[n] = f
        BY <1>1, Replaced DEF Stacked
  <1> HIDE DEF n
  <1>3. /\ \A k \in 1 .. n : k = n \/ k \in 1 .. n - 1
        /\ \A k \in 1 .. n - 1 : k \in 1 .. n
        /\ n \in 1 .. n
        /\ \A k, l \in 1 .. n : k < l => k \in 1 .. n - 1
        BY <1>1
  <1>4. InCall' = Below \cup {f}
        BY <1>1, <1>2, <1>3 DEF InCall
  <1>5. InOrder'
    <2> SUFFICES ASSUME NEW k \in 1 .. n, NEW l \in 1 .. n, k < l
                 PROVE  Fits(stack'[k], stack'[l])
          BY <1>2 DEF InOrder
    <2>1. k \in 1 .. n - 1 /\ stack'[k] = stack[k] /\ stack[k] \in Below
          BY <1>1, <1>2, <1>3
    <2>2. CASE l = n
          BY <1>1, <1>2, <2>1, <2>2
    <2>3. CASE l \in 1 .. n - 1
          BY <1>1, <1>2, <1>3, <2>1, <2>3 DEF InOrder
    <2> QED  BY <1>3, <2>2, <2>3
  <1> QED  BY <1>4, <1>5

LEMMA ReturnedCalls ==
    ASSUME Stacked, stack # <<>>, InOrder, Return
    PROVE  InCall' = Below /\ InOrder'
  <1> DEFINE n == Len(stack)
  <1>1. n \in Nat /\ DOMAIN stack = 1 .. n /\ Below = {stack[k] : k \in 1 .. n - 1}
        BY StackShape DEF Below
  <1>2. DOMAIN stack' = 1 .. n - 1 /\ \A k \in 1 .. n - 1 : stack'[k] = stack[k]
        BY Returned DEF Stacked
  <1> HIDE DEF n
  <1>3. \A k \in 1 .. n - 1 : k \in 1 .. n
        BY <1>1
  <1>4. InCall' = Below
        BY <1>1, <1>2 DEF InCall
  <1> QED  BY <1>1, <1>2, <1>3, <1>4 DEF InOrder

LEMMA CalledCalls ==
    ASSUME Stacked, stack # <<>>, InOrder, NEW f \in Frame, NEW g \in Frame, Call(f, g),
           \A a \in Below : Fits(a, Top) => Fits(a, f) /\ Fits(a, g), Fits(f, g)
    PROVE  InCall' = Below \cup {f, g} /\ InOrder'
  <1> DEFINE n == Len(stack)
  <1>1. /\ n \in Nat /\ n >= 1 /\ DOMAIN stack = 1 .. n
        /\ \A a \in Below : Fits(a, f) /\ Fits(a, g)
        /\ Below = {stack[k] : k \in 1 .. n - 1}
        BY StackShape, TopIsLast DEF Below
  <1>2. /\ DOMAIN stack' = 1 .. n + 1
        /\ \A k \in 1 .. n - 1 : stack'[k] = stack[k]
        /\ stack'[n] = f /\ stack'[n + 1] = g
        BY <1>1, CalledFrom DEF Stacked
  <1> HIDE DEF n
  <1>3. /\ \A k \in 1 .. n + 1 : k = n + 1 \/ k = n \/ k \in 1 .. n - 1
        /\ \A k \in 1 .. n - 1 : k \in 1 .. n + 1 /\ k \in 1 .. n
        /\ n \in 1 .. n + 1 /\ n + 1 \in 1 .. n + 1
        /\ \A k, l \in 1 .. n + 1 : k < l => \/ k \in 1 .. n - 1
                                             \/ k = n /\ l = n + 1
        BY <1>1
  <1>4. InCall' = Below \cup {f, g}
    <2>1. InCall' = {stack'[k] : k \in 1 .. n + 1}
          BY <1>2 DEF InCall
    <2> QED  BY <1>1, <1>2, <1>3, <2>1
  <1>5. InOrder'
    <2> SUFFICES ASSUME NEW k \in 1 .. n + 1, NEW l \in 1 .. n + 1, k < l
                 PROVE  Fits(stack'[k], stack'[l])
          BY <1>2 DEF InOrder
    <2>1. CASE k = n /\ l = n + 1
          BY <1>2, <2>1
    <2>2. CASE k \in 1 .. n - 1
      <3>1. stack'[k] = stack[k] /\ stack[k] \in Below
            BY <1>1, <1>2, <2>2
      <3>2. CASE l \in {n, n + 1}
            BY <1>1, <1>2, <3>1, <3>2
      <3>3. CASE l \in 1 .. n - 1
            BY <1>1, <1>2, <1>3, <2>2, <3>1, <3>3 DEF InOrder
      <3> QED  BY <1>3, <3>2, <3>3
    <2> QED  BY <1>3, <2>1, <2>2
  <1> QED  BY <1>4, <1>5

LEMMA PushedCalls ==
    ASSUME Stacked, InOrder, NEW g \in Frame, stack' = Append(stack, g), \A a \in InCall : Fits(a, g)
    PROVE  InCall' = InCall \cup {g} /\ InOrder'
  <1> DEFINE n == Len(stack)
  <1>1. n \in Nat /\ DOMAIN stack = 1 .. n /\ InCall = {stack[k] : k \in 1 .. n}
        BY StackShape DEF InCall
  <1>2. /\ DOMAIN stack' = 1 .. n + 1
        /\ \A k \in 1 .. n : stack'[k] = stack[k]
        /\ stack'[n + 1] = g
        BY Pushed DEF Stacked
  <1> HIDE DEF n
  <1>3. /\ \A k \in 1 .. n + 1 : k = n + 1 \/ k \in 1 .. n
        /\ \A k \in 1 .. n : k \in 1 .. n + 1
        /\ n + 1 \in 1 .. n + 1
        /\ \A k, l \in 1 .. n + 1 : k < l => k \in 1 .. n
        BY <1>1
  <1>4. InCall' = InCall \cup {g}
    <2>1. InCall' = {stack'[k] : k \in 1 .. n + 1}
          BY <1>2 DEF InCall
    <2> QED  BY <1>1, <1>2, <1>3, <2>1
  <1>5. InOrder'
    <2> SUFFICES ASSUME NEW k \in 1 .. n + 1, NEW l \in 1 .. n + 1, k < l
                 PROVE  Fits(stack'[k], stack'[l])
          BY <1>2 DEF InOrder
    <2>1. k \in 1 .. n /\ stack'[k] = stack[k] /\ stack[k] \in InCall
          BY <1>1, <1>2, <1>3
    <2>2. CASE l = n + 1
          BY <1>1, <1>2, <2>1, <2>2
    <2>3. CASE l \in 1 .. n
          BY <1>1, <1>2, <1>3, <2>1, <2>3 DEF InOrder
    <2> QED  BY <1>3, <2>2, <2>3
  <1> QED  BY <1>4, <1>5

LEMMA SpawnCalls ==
    ASSUME Stacked, InOrder, GameCalls, NEW o \in Objects,
           stack' = stack \o <<Method("start", o), Method("awake", o)>>,
           \A a \in InCall : a.of # o /\ MayWait(a)
    PROVE  InCall' = InCall \cup {Method("start", o), Method("awake", o)} /\ InOrder'
  <1> DEFINE n == Len(stack)
             f == Method("start", o)
             g == Method("awake", o)
  <1>1. n \in Nat /\ DOMAIN stack = 1 .. n /\ InCall = {stack[k] : k \in 1 .. n}
        BY StackShape DEF InCall
  <1>2. /\ stack' \in Seq(Frame) /\ Len(stack') = n + 2
        /\ \A k \in 1 .. n : stack'[k] = stack[k]
        /\ stack'[n + 1] = f /\ stack'[n + 2] = g
        BY SpawnSteady
  <1>3. DOMAIN stack' = 1 .. n + 2
        BY <1>2, LenProperties
  <1>4. Fits(f, g) /\ \A a \in InCall : Fits(a, f) /\ Fits(a, g)
        BY DEF Fits, MayWait, Nests, Busy, IsMethod, IsAdded, Method, CollectionLoops, AddedCalls, Methods
  <1> HIDE DEF n, f, g
  <1>5. /\ \A k \in 1 .. n + 2 : k = n + 2 \/ k = n + 1 \/ k \in 1 .. n
        /\ \A k \in 1 .. n : k \in 1 .. n + 2
        /\ n + 1 \in 1 .. n + 2 /\ n + 2 \in 1 .. n + 2
        /\ \A k, l \in 1 .. n + 2 : k < l => \/ k \in 1 .. n
                                             \/ k = n + 1 /\ l = n + 2
        BY <1>1
  <1>6. InCall' = InCall \cup {f, g}
    <2>1. InCall' = {stack'[k] : k \in 1 .. n + 2}
          BY <1>3 DEF InCall
    <2>2. \A k \in 1 .. n : stack[k] \in InCall'
          BY <1>2, <1>5, <2>1
    <2>3. f \in InCall' /\ g \in InCall'
          BY <1>2, <1>5, <2>1
    <2>4. \A a \in InCall' : a \in InCall \/ a = f \/ a = g
          BY <1>1, <1>2, <1>5, <2>1
    <2> QED  BY <1>1, <2>2, <2>3, <2>4
  <1>7. InOrder'
    <2> SUFFICES ASSUME NEW k \in 1 .. n + 2, NEW l \in 1 .. n + 2, k < l
                 PROVE  Fits(stack'[k], stack'[l])
          BY <1>3 DEF InOrder
    <2>1. CASE k = n + 1 /\ l = n + 2
          BY <1>2, <1>4, <2>1
    <2>2. CASE k \in 1 .. n
      <3>1. stack'[k] = stack[k] /\ stack[k] \in InCall
            BY <1>1, <1>2, <2>2
      <3>2. CASE l \in {n + 1, n + 2}
            BY <1>2, <1>4, <3>1, <3>2
      <3>3. CASE l \in 1 .. n
            BY <1>1, <1>2, <2>2, <3>1, <3>3 DEF InOrder
      <3> QED  BY <1>5, <3>2, <3>3
    <2> QED  BY <1>5, <2>1, <2>2
  <1> QED  BY <1>6, <1>7 DEF f, g

(* The components that an object counts are its own, each in one slot.     *)
LEMMA OwnComponents ==
    ASSUME Placed, NEW o \in Objects, NEW p \in 1 .. object[o].count
    PROVE  /\ slots[o][p] \in Components /\ slots[o][p] # None /\ slots[o][p][1] = o
           /\ slots[o][p] \in Made(o, object[o].made) /\ slots[o][p] \notin Objects
           /\ p \in Nat /\ p >= 1 /\ p \in 1 .. MaxComponents
           /\ \A q \in Objects : \A r \in 1 .. object[q].count :
                    slots[q][r] = slots[o][p] => q = o /\ r = p
  <1>1. \A q \in Objects : /\ object[q].made \in 0 .. MaxMade /\ object[q].count \in 0 .. MaxComponents
        BY DEF Placed, CollectionTyped, ObjectRecord
  <1>2. \A q \in Objects : \A r \in 1 .. object[q].count :
            /\ slots[q][r] \in Made(q, object[q].made)
            /\ \A i \in 1 .. object[q].count : slots[q][r] = slots[q][i] => r = i
        BY DEF Placed, ComponentsInPlace
  <1>3. \A q \in Objects : \A r \in 1 .. object[q].count :
            /\ slots[q][r] \in Components /\ slots[q][r][1] = q
    <2> TAKE q \in Objects
    <2> TAKE r \in 1 .. object[q].count
    <2>1. PICK j \in 1 .. object[q].made : slots[q][r] = <<q, j>>
          BY <1>2 DEF Made
    <2>2. j \in 1 .. MaxMade
          BY <1>1, Positive
    <2> QED  BY <2>1, <2>2 DEF Components
  <1>4. p \in Nat /\ p >= 1 /\ p \in 1 .. MaxComponents
    <2>1. object[o].count \in 0 .. MaxComponents
          BY <1>1
    <2> QED  BY <2>1, Positive
  <1>5. slots[o][p] # None /\ slots[o][p] \notin Objects
        BY <1>3, KindsApart
  <1>6. ASSUME NEW q \in Objects, NEW r \in 1 .. object[q].count, slots[q][r] = slots[o][p]
        PROVE  q = o /\ r = p
    <2>1. q = o
          BY <1>3, <1>6
    <2> QED  BY <1>2, <1>6, <2>1
  <1> QED  BY <1>2, <1>3, <1>4, <1>5, <1>6

(* A step that leaves the objects alone.                                   *)
LEMMA SoundKept ==
    ASSUME CallsSound, UNCHANGED <<object, slots>>,
           \A t \in InCall : t.fn = "awake" => object[t.of].awoken \/ Awaking(t.of)',
           \A t \in InCall : t.fn = "start" => object[t.of].started \/ Starting(t.of)',
           \A a \in InCall' : a \in InCall \/ (Sound(a) /\ InTurn(a)'),
           NotAdding'
    PROVE  CallsSound'
  <1>1. \A a \in InCall : Sound(a) /\ InTurn(a)
        BY DEF CallsSound
  <1>2. \A a \in InCall : Sound(a)' /\ InTurn(a)'
    <2> TAKE a \in InCall
    <2>1. Sound(a) /\ InTurn(a)
          BY <1>1
    <2>2. Sound(a)'
          BY <2>1 DEF Sound, Live
    <2>3. Awaking(a.of) => object[a.of].awoken \/ Awaking(a.of)'
          BY DEF Awaking
    <2>4. Starting(a.of) => object[a.of].started \/ Starting(a.of)'
          BY DEF Starting
    <2> QED  BY <2>1, <2>2, <2>3, <2>4 DEF InTurn
  <1>3. \A a \in InCall' : Sound(a) => Sound(a)'
        BY DEF Sound, Live
  <1>4. \A a \in InCall' : Sound(a)' /\ InTurn(a)'
        BY <1>2, <1>3
  <1>5. FlagsInOrder'
        BY DEF CallsSound, FlagsInOrder
  <1> QED  BY <1>4, <1>5 DEF CallsSound

LEMMA OnceKept ==
    ASSUME Placed, AllOnce, UNCHANGED <<object, slots, awoken, started>>,
           \A c \in Components : c \in passedOver => c \in passedOver',
           \A f \in {"awake", "start"}, o \in Objects, p \in Nat : p >= 1 =>
                (Reached(f, o, p)' <=> Reached(f, o, p)),
           \A c \in Components : object[c[1]].awoken => (ToAwake(c)' <=> ToAwake(c)),
           \A c \in Components : object[c[1]].started => (ToStart(c)' <=> ToStart(c)),
           \A a \in InCall' : a \in InCall \/ AddedOnce(a)
    PROVE  AllOnce'
  <1>1. OnceEach'
    <2> SUFFICES ASSUME NEW o \in Objects, NEW p \in 1 .. object[o].count, slots[o][p] \notin passedOver'
                 PROVE  /\ awoken[slots[o][p]] = Once(Reached("awake", o, p)' \/ (object[o].awoken /\ ~ToAwake(slots[o][p])'))
                        /\ started[slots[o][p]] = Once(Reached("start", o, p)' \/ (object[o].started /\ ~ToStart(slots[o][p])'))
          BY DEF OnceEach, Once
    <2> DEFINE c == slots[o][p]
    <2>1. c \in Components /\ c[1] = o /\ p \in Nat /\ p >= 1
          BY OwnComponents
    <2>2. c \notin passedOver
          BY <2>1
    <2>3. /\ awoken[c] = Once(Reached("awake", o, p) \/ (object[o].awoken /\ ~ToAwake(c)))
          /\ started[c] = Once(Reached("start", o, p) \/ (object[o].started /\ ~ToStart(c)))
          BY <2>2 DEF AllOnce, OnceEach
    <2> QED  BY <2>1, <2>3 DEF Once
  <1>2. \A a \in InCall' : AddedOnce(a)'
    <2>1. \A a \in InCall' : AddedOnce(a)
          BY DEF AllOnce
    <2> QED  BY <2>1 DEF AddedOnce
  <1>3. NoneUnmade'
        BY DEF AllOnce, NoneUnmade
  <1>4. awoken' \in [Components -> Nat] /\ started' \in [Components -> Nat]
        BY DEF AllOnce
  <1> QED  BY <1>1, <1>2, <1>3, <1>4 DEF AllOnce

LEMMA KindsOfCalls ==
    /\ \A a \in Frame : IsAdded(a) => Adds(a) \in Components /\ Adds(a) # None /\ Adds(a)[1] = a.of
    /\ \A a \in Frame : \/ a.fn \in CollectionLoops /\ ~IsMethod(a) /\ ~IsAdded(a)
                        \/ a.fn \notin CollectionLoops /\ IsMethod(a) /\ ~IsAdded(a) /\ a.of \in Objects
                        \/ a.fn \notin CollectionLoops /\ ~IsMethod(a) /\ IsAdded(a) /\ a.of \in Objects
  <1>1. ASSUME NEW a \in Frame, IsAdded(a)
        PROVE  Adds(a) \in Components /\ Adds(a) # None /\ Adds(a)[1] = a.of
    <2>1. Adds(a) \in Components
          BY <1>1 DEF Frame, IsAdded, Adds
    <2>2. None \notin Components
          BY KindsApart
    <2> QED  BY <2>1, <2>2 DEF Adds
  <1>2. ASSUME NEW a \in Frame
        PROVE  \/ a.fn \in CollectionLoops /\ ~IsMethod(a) /\ ~IsAdded(a)
               \/ a.fn \notin CollectionLoops /\ IsMethod(a) /\ ~IsAdded(a) /\ a.of \in Objects
               \/ a.fn \notin CollectionLoops /\ ~IsMethod(a) /\ IsAdded(a) /\ a.of \in Objects
        BY <1>2 DEF Frame, IsAdded, IsMethod, CollectionLoops, Methods, AddedCalls
  <1> QED  BY <1>1, <1>2

LEMMA NotAddingKept ==
    ASSUME NotAdding, NEW B, NEW T, NEW N, InCall = B \cup T, InCall' = B \cup N, InCall' \subseteq Frame,
           \A a \in N : IsAdded(a) => \E t \in T : IsAdded(t) /\ Adds(t) = Adds(a),
           \A b \in N : IsMethod(b) => b.c = None \/ \E t \in T : IsMethod(t) /\ t.c = b.c
    PROVE  NotAdding'
  <1> SUFFICES ASSUME NEW a \in InCall', NEW b \in InCall', IsAdded(a), IsMethod(b) PROVE b.c # Adds(a)
        BY DEF NotAdding, IsAdded, IsMethod, Adds
  <1>1. \E x \in InCall : IsAdded(x) /\ Adds(x) = Adds(a)
        OBVIOUS
  <1>2. CASE b.c = None
        BY <1>2, KindsOfCalls
  <1>3. CASE b.c # None
    <2>1. \E y \in InCall : IsMethod(y) /\ y.c = b.c
          BY <1>3
    <2> QED  BY <1>1, <2>1 DEF NotAdding
  <1> QED  BY <1>2, <1>3

(* A loop of the collection, and a method that has not begun.              *)
Idle(a) == \/ a.fn \in CollectionLoops
           \/ a.fn \in Methods /\ a.i = 0 /\ a.c = None

LEMMA IdleCalls ==
    ASSUME NEW a \in Frame, Idle(a)
    PROVE  /\ ~IsAdded(a) /\ (IsMethod(a) => a.c = None)
           /\ InTurn(a)' /\ AddedOnce(a)
           /\ \A f \in {"awake", "start"}, o \in Objects, p \in Nat : p >= 1 => ~Reaches(a, f, o, p)
           /\ \A c \in Components : ~WillAwake(a, c) /\ ~WillStart(a, c)
           /\ (a.fn \in Methods => Live(a.of)) => Sound(a)
  <1>1. \/ a.fn \in CollectionLoops /\ a.fn \notin Methods /\ a.fn \notin AddedCalls
        \/ a.fn \in Methods /\ a.i = 0 /\ a.c = None /\ a.fn \notin CollectionLoops /\ a.fn \notin AddedCalls
        BY DEF Idle, CollectionLoops, Methods, AddedCalls
  <1>2. a.fn # "awakeAdded" /\ a.fn # "startAdded"
        BY <1>1 DEF AddedCalls
  <1>3. a.fn \in CollectionLoops => a.fn \notin {"awake", "start", "updateOf"}
        BY DEF CollectionLoops
  <1>4. ~IsAdded(a) /\ (IsMethod(a) => a.c = None)
        BY <1>1 DEF IsAdded, IsMethod
  <1>5. InTurn(a)'
        BY <1>1, <1>3 DEF InTurn
  <1>6. AddedOnce(a)
        BY <1>2 DEF AddedOnce
  <1>7. \A f \in {"awake", "start"}, o \in Objects, p \in Nat : p >= 1 => ~Reaches(a, f, o, p)
        BY <1>1, <1>3 DEF Reaches
  <1>8. \A c \in Components : ~WillAwake(a, c) /\ ~WillStart(a, c)
        BY <1>2, <1>4 DEF WillAwake, WillStart
  <1>9. (a.fn \in Methods => Live(a.of)) => Sound(a)
        BY <1>1 DEF Sound, IsAdded, IsMethod, Busy
  <1> QED  BY <1>4, <1>5, <1>6, <1>7, <1>8, <1>9

CallOrder == InOrder /\ CallsSound /\ AllOnce

(* Idle calls come and go without a trace.                                 *)
LEMMA IdleMoves ==
    ASSUME Placed, CallOrder, InOrder', UNCHANGED <<object, slots, awoken, started>>,
           \A c \in Components : c \in passedOver => c \in passedOver',
           NEW B, NEW T, NEW N, InCall = B \cup T, InCall' = B \cup N, InCall \subseteq Frame, N \subseteq Frame,
           \A t \in T : t.fn \in CollectionLoops,
           \A a \in N : Idle(a) /\ (a.fn \in Methods => Live(a.of))
    PROVE  CallOrder'
  <1>0. InCall' \subseteq Frame /\ \A t \in T : t \in Frame /\ Idle(t)
        BY DEF Idle
  <1>1. NotAdding'
    <2>1. \A a \in N : ~IsAdded(a) /\ (IsMethod(a) => a.c = None)
          BY IdleCalls
    <2>2. NotAdding
          BY DEF CallOrder, CallsSound
    <2>3. /\ \A a \in N : IsAdded(a) => \E t \in T : IsAdded(t) /\ Adds(t) = Adds(a)
          /\ \A b \in N : IsMethod(b) => b.c = None \/ \E t \in T : IsMethod(t) /\ t.c = b.c
          BY <2>1
    <2>4. InCall' \subseteq Frame /\ InCall = B \cup T /\ InCall' = B \cup N
          BY <1>0
    <2> QED  BY <2>2, <2>3, <2>4, NotAddingKept
  <1>2. \A t \in T : t.fn # "awake" /\ t.fn # "start"
        BY DEF CollectionLoops
  <1>3. \A a \in N : Sound(a) /\ InTurn(a)' /\ AddedOnce(a)
        BY IdleCalls
  <1>4. CallsSound'
    <2>1. \A t \in InCall : t.fn = "awake" => Awaking(t.of)'
          BY <1>2 DEF Awaking
    <2>2. \A t \in InCall : t.fn = "start" => Starting(t.of)'
          BY <1>2 DEF Starting
    <2>3. \A a \in InCall' : a \in InCall \/ (Sound(a) /\ InTurn(a)')
          BY <1>3
    <2> QED  BY <1>1, <2>1, <2>2, <2>3, SoundKept DEF CallOrder
  <1>5. \A a \in T \cup N : /\ \A f \in {"awake", "start"}, o \in Objects, p \in Nat : p >= 1 => ~Reaches(a, f, o, p)
                            /\ \A c \in Components : ~WillAwake(a, c) /\ ~WillStart(a, c)
        BY <1>0, IdleCalls
  <1>6. AllOnce'
    <2>1. \A f \in {"awake", "start"}, o \in Objects, p \in Nat : p >= 1 =>
                (Reached(f, o, p)' <=> Reached(f, o, p))
          BY <1>5 DEF Reached
    <2>2. \A c \in Components : (ToAwake(c)' <=> ToAwake(c)) /\ (ToStart(c)' <=> ToStart(c))
          BY <1>5 DEF ToAwake, ToStart
    <2>3. \A a \in InCall' : a \in InCall \/ AddedOnce(a)
          BY <1>3
    <2> QED  BY <2>1, <2>2, <2>3, OnceKept DEF CallOrder
  <1> QED  BY <1>4, <1>6 DEF CallOrder

LEMMA LoopsFit ==
    ASSUME NEW t \in Frame, t.fn \in CollectionLoops, NEW e \in Frame, e.fn \in CollectionLoops
    PROVE  /\ \A a \in Frame : Fits(a, t) => Fits(a, e)
           /\ \A g \in Frame : g.fn \in Methods =>
                    Fits(e, g) /\ \A a \in Frame : Fits(a, t) => Fits(a, g)
  <1>1. \A a \in Frame : Fits(a, t) => MayWait(a) /\ a.fn \in CollectionLoops
        BY DEF Fits
  <1>2. MayWait(e) /\ ~IsMethod(e) /\ ~IsAdded(e)
        BY KindsOfCalls DEF MayWait
  <1>3. \A a \in Frame : Fits(a, t) => Fits(a, e)
        BY <1>1, <1>2 DEF Fits
  <1>4. ASSUME NEW g \in Frame, g.fn \in Methods, NEW a \in Frame, MayWait(a), a.fn \in CollectionLoops
        PROVE  Fits(a, g)
    <2>1. g.fn \notin CollectionLoops /\ IsMethod(g) /\ ~IsAdded(g) /\ g.of \in Objects
          BY <1>4, KindsOfCalls DEF IsMethod
    <2>2. a.of = None
          BY <1>4 DEF Frame
    <2>3. a.of # g.of
          BY <2>1, <2>2, Positive
    <2> QED  BY <1>4, <2>1, <2>3 DEF Fits
  <1> QED  BY <1>1, <1>2, <1>3, <1>4

LEMMA VisitKeepsOrder ==
    ASSUME Placed, Stacked, CallOrder, NEW f \in CollectionLoops, Visit(f)
    PROVE  CallOrder'
  <1> DEFINE t == Top
             o == List(f)[t.i]
             e == [t EXCEPT !.i = t.i + 1]
             g == Method(MethodOf(f), o)
  <1>1. stack # <<>> /\ t \in Frame /\ t = Top /\ t.fn = f /\ t.c = None
        BY StackShape DEF Visit, Quiet
  <1>2. UNCHANGED <<object, slots, awoken, started, passedOver>>
        BY DEF Visit, members, seen
  <1>3. t.i \in Nat /\ t.i >= 1
        BY <1>1 DEF Frame
  <1>4. t.i <= Len(List(f)) /\ (Replace(e) \/ Call(e, g))
    <2>1. [t EXCEPT !.i = @ + 1] = e
          BY <1>1 DEF Frame
    <2> QED  BY <1>1, <2>1 DEF Visit
  <1>5. o \in Objects /\ Live(o)
    <2>1. List(f) \in {owned, external}
          BY DEF List
    <2>2. List(f) = owned => o \in Objects /\ Live(o)
          BY <1>3, <1>4, ArraysTyped DEF Placed, LiveInPlace
    <2>3. List(f) = external => o \in Objects /\ Live(o)
          BY <1>3, <1>4, ArraysTyped DEF Placed, LiveInPlace
    <2> QED  BY <2>1, <2>2, <2>3
  <1>6. MethodOf(f) \in Methods
        BY DEF MethodOf, Methods
  <1>7. e \in Frame /\ e.fn = f
    <2>1. t.i + 1 \in Nat /\ t.i + 1 >= 1
          BY <1>3
    <2>2. f \notin AddedCalls
          BY DEF CollectionLoops, AddedCalls
    <2> QED  BY <1>1, <2>1, <2>2 DEF Frame
  <1> HIDE DEF o
  <1>8. g \in Frame /\ g.fn \in Methods /\ g.i = 0 /\ g.c = None /\ g.of = o
        BY <1>5, <1>6, FramesMade DEF Method
  <1> HIDE DEF t, e, g
  <1>9. InCall = Below \cup {t} /\ InCall \subseteq Frame /\ Below \subseteq Frame
        BY <1>1, TopIsLast
  <1>10. /\ \A a \in Below : Fits(a, Top) => Fits(a, e) /\ Fits(a, g)
         /\ Fits(e, g)
        BY <1>1, <1>7, <1>8, <1>9, LoopsFit
  <1>11. Idle(e) /\ Idle(g) /\ (e.fn \notin Methods) /\ Live(g.of)
    <2>1. f \notin Methods
          BY DEF CollectionLoops, Methods
    <2> QED  BY <1>5, <1>7, <1>8, <2>1 DEF Idle
  <1>12. InOrder
        BY DEF CallOrder
  <1>13. \A c \in Components : c \in passedOver => c \in passedOver'
        BY <1>2
  <1>14. CASE Replace(e)
    <2>1. InCall' = Below \cup {e} /\ InOrder'
          BY <1>1, <1>7, <1>10, <1>12, <1>14, ReplacedCalls
    <2> DEFINE T == {t}
               N == {e}
    <2>2. \A a \in N : Idle(a) /\ (a.fn \in Methods => Live(a.of))
          BY <1>11
    <2>3. \A a \in T : a.fn \in CollectionLoops
          BY <1>1
    <2>4. N \subseteq Frame /\ InCall = Below \cup T /\ InCall' = Below \cup N
          BY <1>7, <1>9, <2>1
    <2> HIDE DEF T, N
    <2> QED  BY <1>2, <1>9, <1>13, <2>1, <2>2, <2>3, <2>4, IdleMoves
  <1>15. CASE Call(e, g)
    <2>1. InCall' = Below \cup {e, g} /\ InOrder'
          BY <1>1, <1>7, <1>8, <1>10, <1>12, <1>15, CalledCalls
    <2> DEFINE T == {t}
               N == {e, g}
    <2>2. \A a \in N : Idle(a) /\ (a.fn \in Methods => Live(a.of))
          BY <1>11
    <2>3. \A a \in T : a.fn \in CollectionLoops
          BY <1>1
    <2>4. N \subseteq Frame /\ InCall = Below \cup T /\ InCall' = Below \cup N
          BY <1>7, <1>8, <1>9, <2>1
    <2> HIDE DEF T, N
    <2> QED  BY <1>2, <1>9, <1>13, <2>1, <2>2, <2>3, <2>4, IdleMoves
  <1> QED  BY <1>4, <1>14, <1>15

LEMMA EndLoopKeepsOrder ==
    ASSUME Placed, Stacked, CallOrder, NEW f \in CollectionLoops, EndLoop(f)
    PROVE  CallOrder'
  <1> DEFINE t == Top
  <1>1. stack # <<>> /\ t \in Frame /\ t = Top /\ t.fn = f
        BY StackShape DEF EndLoop, Quiet
  <1>2. UNCHANGED <<object, slots, awoken, started, passedOver>>
        BY DEF EndLoop, members, seen
  <1>3. Return \/ \E g \in Frame : g.fn \in CollectionLoops /\ Replace(g)
    <2> DEFINE a == Loop("updateExternals", 1)
               b == Loop("lateUpdate", 1)
               c == Loop("lateUpdateExternals", 1)
    <2>1. /\ a \in Frame /\ a.fn \in CollectionLoops
          /\ b \in Frame /\ b.fn \in CollectionLoops
          /\ c \in Frame /\ c.fn \in CollectionLoops
          BY FramesMade DEF CollectionLoops, Loop
    <2>2. Return \/ Replace(a) \/ Replace(b) \/ Replace(c)
          BY DEF EndLoop
    <2> HIDE DEF a, b, c
    <2> QED  BY <2>1, <2>2
  <1> HIDE DEF t
  <1>4. InCall = Below \cup {t} /\ InCall \subseteq Frame /\ Below \subseteq Frame
        BY <1>1, TopIsLast
  <1> DEFINE T == {t}
  <1>5. /\ InOrder /\ InCall = Below \cup T /\ \A a \in T : a.fn \in CollectionLoops
        /\ \A c \in Components : c \in passedOver => c \in passedOver'
        BY <1>1, <1>2, <1>4 DEF CallOrder
  <1> HIDE DEF T
  <1>6. CASE Return
    <2> DEFINE N == {}
    <2>1. InCall' = Below \cup N /\ InOrder'
          BY <1>1, <1>5, <1>6, ReturnedCalls
    <2>2. N \subseteq Frame /\ \A a \in N : Idle(a) /\ (a.fn \in Methods => Live(a.of))
          OBVIOUS
    <2> HIDE DEF N
    <2> QED  BY <1>2, <1>4, <1>5, <2>1, <2>2, IdleMoves
  <1>7. ASSUME NEW g \in Frame, g.fn \in CollectionLoops, Replace(g) PROVE CallOrder'
    <2>1. \A a \in Below : Fits(a, Top) => Fits(a, g)
          BY <1>1, <1>4, <1>7, LoopsFit
    <2> DEFINE N == {g}
    <2>2. InCall' = Below \cup N /\ InOrder'
          BY <1>1, <1>5, <1>7, <2>1, ReplacedCalls
    <2>3. g.fn \notin Methods
          BY <1>7 DEF CollectionLoops, Methods
    <2>4. \A a \in N : Idle(a) /\ (a.fn \in Methods => Live(a.of))
          BY <1>7, <2>3 DEF Idle
    <2>5. N \subseteq Frame
          OBVIOUS
    <2> HIDE DEF N
    <2> QED  BY <1>2, <1>4, <1>5, <2>2, <2>4, <2>5, IdleMoves
  <1> QED  BY <1>3, <1>6, <1>7

(* The loops that begin on an empty stack.                                 *)
LEMMA LoopsBegin ==
    ASSUME Placed, Stacked, CallOrder, stack = <<>>, stack' \in Seq(Frame),
           UNCHANGED <<object, slots, awoken, started>>,
           \A c \in Components : c \in passedOver => c \in passedOver',
           \A k \in DOMAIN stack' : stack'[k].fn \in CollectionLoops
    PROVE  CallOrder'
  <1>1. InCall = {} /\ InCall \subseteq Frame
    <2>1. DOMAIN stack = {}
          BY StackShape
    <2> QED  BY <2>1 DEF InCall
  <1>2. DOMAIN stack' = 1 .. Len(stack') /\ \A k \in DOMAIN stack' : stack'[k] \in Frame
        BY LenProperties, ElementOfSeq
  <1>3. InCall' \subseteq Frame /\ \A a \in InCall' : a.fn \in CollectionLoops /\ a.fn \notin Methods
    <2>1. \A a \in InCall' : a \in Frame /\ a.fn \in CollectionLoops
          BY <1>2 DEF InCall
    <2> QED  BY <2>1 DEF CollectionLoops, Methods
  <1>4. \A a \in Frame, b \in Frame : a.fn \in CollectionLoops /\ b.fn \in CollectionLoops => Fits(a, b)
        BY KindsOfCalls DEF Fits, MayWait
  <1>5. InOrder'
        BY <1>2, <1>4 DEF InOrder
  <1>6. \A a \in InCall' : Idle(a) /\ (a.fn \in Methods => Live(a.of))
        BY <1>3 DEF Idle
  <1>7. InCall = {} \cup {} /\ InCall' = {} \cup InCall'
        BY <1>1
  <1> DEFINE N == InCall'
  <1>8. /\ InCall' = {} \cup N /\ N \subseteq Frame
        /\ \A a \in N : Idle(a) /\ (a.fn \in Methods => Live(a.of))
        BY <1>3, <1>6
  <1>9. \A a \in {} : a.fn \in CollectionLoops
        OBVIOUS
  <1> HIDE DEF N
  <1> QED  BY <1>1, <1>5, <1>7, <1>8, <1>9, IdleMoves

LEMMA ActivateKeepsOrder ==
    ASSUME Placed, Stacked, CallOrder, Activate \/ BeginFrame
    PROVE  CallOrder'
  <1> DEFINE a == Loop("startAll", 1)
             b == Loop("initialize", 1)
             c == Loop("update", 1)
  <1>1. /\ a \in Frame /\ a.fn \in CollectionLoops
        /\ b \in Frame /\ b.fn \in CollectionLoops
        /\ c \in Frame /\ c.fn \in CollectionLoops
        BY FramesMade DEF CollectionLoops, Loop
  <1>2. /\ stack = <<>> /\ UNCHANGED <<object, slots, awoken, started>>
        /\ stack' = <<a>> \/ stack' = <<a, b>> \/ stack' = <<c>>
        BY DEF Activate, BeginFrame, members, seen
  <1>3. \A d \in Components : d \in passedOver => d \in passedOver'
    <2>1. passedOver' = passedOver \/ passedOver' = passedOver \ Objects
          BY DEF Activate, BeginFrame, seen
    <2> QED  BY <2>1, KindsApart
  <1> HIDE DEF a, b, c
  <1>4. stack' \in Seq(Frame) /\ \A k \in DOMAIN stack' : stack'[k].fn \in CollectionLoops
    <2>1. \A d \in Frame : /\ <<d>> \in Seq(Frame) /\ DOMAIN <<d>> = {1}
                           /\ <<d>>[1] = d
          OBVIOUS
    <2>2. /\ <<a, b>> \in Seq(Frame) /\ DOMAIN <<a, b>> = {1, 2}
          /\ <<a, b>>[1] = a /\ <<a, b>>[2] = b
          BY <1>1
    <2>3. CASE stack' = <<a>>
          BY <1>1, <2>1, <2>3
    <2>4. CASE stack' = <<c>>
          BY <1>1, <2>1, <2>4
    <2>5. CASE stack' = <<a, b>>
          BY <1>1, <2>2, <2>5
    <2> QED  BY <1>2, <2>3, <2>4, <2>5
  <1> QED  BY <1>2, <1>3, <1>4, LoopsBegin

(* A call that moves on.                                                   *)
LEMMA MovesOn ==
    ASSUME Stacked, InOrder, CallsSound, UNCHANGED <<object, slots>>,
           stack # <<>>, NEW t, t = Top, NEW e \in Frame, Replace(e), e.of = t.of,
           \/ IsMethod(t) /\ e.fn = t.fn
           \/ IsAdded(t) /\ IsAdded(e) /\ e.i = t.i,
           Sound(e), IsMethod(e) => \A a \in Below : IsAdded(a) => e.c # Adds(a),
           e.i >= 1 => \/ t.i >= 1
                       \/ /\ e.fn = "awake" => ~object[e.of].awoken
                          /\ e.fn = "start" => ~object[e.of].started /\ object[e.of].awoken
                          /\ e.fn = "updateOf" => object[e.of].started
    PROVE  InOrder' /\ CallsSound' /\ InCall = Below \cup {t} /\ InCall' = Below \cup {e}
  <1>1. /\ InCall = Below \cup {t} /\ InCall \subseteq Frame /\ Below \subseteq Frame /\ t \in Frame
        /\ \A a \in Below : Fits(a, t)
        BY TopIsLast
  <1>2. /\ IsMethod(e) <=> IsMethod(t)
        /\ IsAdded(e) <=> IsAdded(t)
        /\ e.fn \notin CollectionLoops
        /\ IsMethod(e) => e.fn = t.fn
        /\ IsAdded(e) => Adds(e) = Adds(t)
    <2>1. IsMethod(t) /\ e.fn = t.fn => IsMethod(e)
          BY DEF IsMethod
    <2>2. IsAdded(t) /\ IsAdded(e) /\ e.i = t.i => Adds(e) = Adds(t)
          BY DEF Adds
    <2> QED  BY <1>1, <2>1, <2>2, KindsOfCalls
  <1>3. \A a \in Below : Fits(a, t) => Fits(a, e)
    <2> SUFFICES ASSUME NEW a \in Below, Fits(a, t) PROVE Fits(a, e)
          OBVIOUS
    <2>1. IsMethod(e) => (Nests(a, t) => Nests(a, e))
          BY <1>2 DEF Nests
    <2> QED  BY <1>2, <2>1 DEF Fits
  <1>4. InCall' = Below \cup {e} /\ InOrder'
        BY <1>3, ReplacedCalls
  <1>5. /\ \A a \in InCall : Sound(a) /\ InTurn(a)
        /\ NotAdding
        BY DEF CallsSound
  <1>6. NotAdding'
    <2> SUFFICES ASSUME NEW a \in Below \cup {e}, NEW b \in Below \cup {e}, IsAdded(a), IsMethod(b)
                 PROVE  b.c # Adds(a)
          BY <1>4 DEF NotAdding, IsAdded, IsMethod, Adds
    <2>1. CASE a = e
      <3>1. b # e /\ IsAdded(t) /\ Adds(a) = Adds(t)
            BY <1>2, <2>1, KindsOfCalls
      <3> QED  BY <1>1, <1>5, <3>1 DEF NotAdding
    <2>2. CASE a # e /\ b = e
          BY <2>2
    <2>3. CASE a # e /\ b # e
          BY <1>1, <1>5, <2>3 DEF NotAdding
    <2> QED  BY <2>1, <2>2, <2>3
  <1>7. /\ \A o \in Objects : Awaking(o) => Awaking(o)'
        /\ \A o \in Objects : Starting(o) => Starting(o)'
    <2>1. \A b \in InCall : b.fn \in {"awake", "start"} => \E d \in InCall' : d.fn = b.fn /\ d.of = b.of
      <3>1. t.fn \in {"awake", "start"} => IsMethod(t)
            BY DEF IsMethod, Methods
      <3> QED  BY <1>1, <1>2, <1>4, <3>1
    <2> QED  BY <2>1 DEF Awaking, Starting
  <1>8. InTurn(e)'
    <2> SUFFICES ASSUME e.i >= 1
                 PROVE  /\ e.fn = "awake" => ~object[e.of].awoken
                        /\ e.fn = "start" => ~object[e.of].started /\ (object[e.of].awoken \/ Awaking(e.of)')
                        /\ e.fn = "updateOf" => object[e.of].started \/ Starting(e.of)'
          BY DEF InTurn
    <2>1. CASE ~(t.i >= 1)
          BY <2>1
    <2>2. CASE t.i >= 1 /\ IsMethod(e)
      <3>1. e.fn = t.fn /\ t.of \in Objects /\ InTurn(t)
            BY <1>1, <1>2, <1>5, <2>2, KindsOfCalls
      <3> QED  BY <1>7, <2>2, <3>1 DEF InTurn
    <2>3. CASE ~IsMethod(e)
          BY <2>3 DEF IsMethod, Methods
    <2> QED  BY <2>1, <2>2, <2>3
  <1>9. \A x \in InCall : x.of \in Objects \/ x.fn \notin {"awake", "start"}
    <2>1. \A x \in InCall : x.fn \in {"awake", "start"} => IsMethod(x)
          BY DEF IsMethod, Methods
    <2> QED  BY <1>1, <2>1, KindsOfCalls
  <1>10. /\ \A x \in InCall : x.fn = "awake" => Awaking(x.of)'
         /\ \A x \in InCall : x.fn = "start" => Starting(x.of)'
    <2>1. /\ \A x \in InCall : x.fn = "awake" => Awaking(x.of)
          /\ \A x \in InCall : x.fn = "start" => Starting(x.of)
          BY DEF Awaking, Starting
    <2> QED  BY <1>7, <1>9, <2>1
  <1>11. \A a \in InCall' : a \in InCall \/ (Sound(a) /\ InTurn(a)')
        BY <1>1, <1>4, <1>8
  <1>12. CallsSound'
        BY <1>6, <1>10, <1>11, SoundKept
  <1> QED  BY <1>1, <1>4, <1>12

(* A call that returns.                                                    *)
LEMMA MovesOut ==
    ASSUME Stacked, InOrder, CallsSound, UNCHANGED <<object, slots>>,
           stack # <<>>, NEW t, t = Top, Return,
           t.fn = "awake" => object[t.of].awoken,
           t.fn = "start" => object[t.of].started
    PROVE  InOrder' /\ CallsSound' /\ InCall = Below \cup {t} /\ InCall' = Below
  <1>1. InCall = Below \cup {t}
        BY TopIsLast
  <1>2. InCall' = Below /\ InOrder'
        BY ReturnedCalls
  <1>3. NotAdding'
        BY <1>1, <1>2 DEF CallsSound, NotAdding, IsAdded, IsMethod, Adds
  <1>4. /\ \A x \in InCall : x.fn = "awake" => object[x.of].awoken \/ Awaking(x.of)'
        /\ \A x \in InCall : x.fn = "start" => object[x.of].started \/ Starting(x.of)'
        BY <1>1, <1>2 DEF Awaking, Starting
  <1>5. \A a \in InCall' : a \in InCall
        BY <1>1, <1>2
  <1>6. CallsSound'
        BY <1>3, <1>4, <1>5, SoundKept
  <1> QED  BY <1>1, <1>2, <1>6

(* start calls awake, and update start.                                    *)
LEMMA MovesIn ==
    ASSUME Stacked, InOrder, CallsSound, UNCHANGED <<object, slots>>,
           stack # <<>>, NEW t, t = Top, t.c = None, NEW m,
           NEW e \in Frame, e = [t EXCEPT !.i = 1], NEW g \in Frame, g = Method(m, t.of), Call(e, g),
           \/ t.fn = "start" /\ m = "awake" /\ ~object[t.of].started
           \/ t.fn = "updateOf" /\ m = "start"
    PROVE  InOrder' /\ CallsSound' /\ InCall = Below \cup {t} /\ InCall' = Below \cup {e, g}
  <1>1. /\ InCall = Below \cup {t} /\ InCall \subseteq Frame /\ Below \subseteq Frame /\ t \in Frame
        /\ \A a \in Below : Fits(a, t)
        BY TopIsLast
  <1>2. /\ e.fn = t.fn /\ e.of = t.of /\ e.i = 1 /\ e.c = None
        /\ g.fn = m /\ g.of = t.of /\ g.i = 0 /\ g.c = None
        BY <1>1 DEF Frame, Method
  <1>3. /\ IsMethod(e) /\ IsMethod(g) /\ IsMethod(t)
        /\ ~IsAdded(e) /\ ~IsAdded(g) /\ e.fn \notin CollectionLoops /\ g.fn \notin CollectionLoops
        /\ t.of \in Objects
    <2>1. IsMethod(e) /\ IsMethod(g) /\ IsMethod(t)
          BY <1>2 DEF IsMethod, Methods
    <2> QED  BY <1>1, <2>1, KindsOfCalls
  <1>4. ASSUME NEW a \in Below PROVE Fits(a, e) /\ Fits(a, g)
    <2>1. Fits(a, t)
          BY <1>1
    <2>2. a.of = t.of => Nests(a, t)
          BY <1>3, <2>1 DEF Fits
    <2>3. a.of = t.of => Nests(a, e) /\ Nests(a, g)
          BY <1>2, <2>2 DEF Nests
    <2> QED  BY <1>2, <1>3, <2>1, <2>3 DEF Fits
  <1>5. Fits(e, g)
        BY <1>2, <1>3 DEF Fits, MayWait, Nests, Busy
  <1>6. InCall' = Below \cup {e, g} /\ InOrder'
        BY <1>4, <1>5, CalledCalls
  <1> DEFINE T == {t}
             N == {e, g}
  <1>7. InCall = Below \cup T /\ InCall' = Below \cup N /\ InCall' \subseteq Frame
        BY <1>1, <1>6
  <1>8. NotAdding'
    <2>1. /\ \A a \in N : IsAdded(a) => \E x \in T : IsAdded(x) /\ Adds(x) = Adds(a)
          /\ \A b \in N : IsMethod(b) => b.c = None \/ \E x \in T : IsMethod(x) /\ x.c = b.c
          BY <1>2, <1>3
    <2>2. NotAdding
          BY DEF CallsSound
    <2> HIDE DEF T, N
    <2> QED  BY <1>7, <2>1, <2>2, NotAddingKept
  <1>9. Sound(t)
        BY <1>1 DEF CallsSound
  <1>10. Live(t.of)
        BY <1>3, <1>9, <1>1, KindsOfCalls DEF Sound
  <1>11. Sound(e) /\ Sound(g)
        BY <1>2, <1>3, <1>10 DEF Sound, Busy
  <1>12. InTurn(g)'
        BY <1>2 DEF InTurn
  <1>13. InTurn(e)'
    <2>1. CASE t.fn = "start" /\ m = "awake" /\ ~object[t.of].started
      <3>1. Awaking(e.of)'
            BY <1>2, <1>6, <2>1 DEF Awaking
      <3> QED  BY <1>2, <2>1, <3>1 DEF InTurn
    <2>2. CASE t.fn = "updateOf" /\ m = "start"
      <3>1. Starting(e.of)'
            BY <1>2, <1>6, <2>2 DEF Starting
      <3> QED  BY <1>2, <2>2, <3>1 DEF InTurn
    <2> QED  BY <2>1, <2>2
  <1>14. /\ \A x \in InCall : x.fn = "awake" => Awaking(x.of)'
         /\ \A x \in InCall : x.fn = "start" => Starting(x.of)'
    <2>1. \A x \in InCall : \E y \in InCall' : y.fn = x.fn /\ y.of = x.of
          BY <1>1, <1>2, <1>6
    <2> QED  BY <2>1 DEF Awaking, Starting
  <1>15. \A a \in InCall' : a \in InCall \/ (Sound(a) /\ InTurn(a)')
        BY <1>1, <1>6, <1>11, <1>12, <1>13
  <1>16. CallsSound'
        BY <1>8, <1>14, <1>15, SoundKept
  <1> QED  BY <1>1, <1>6, <1>16

(* Calls that awake and start nothing come and go without a trace.         *)
NoTrace(a) == ~IsAdded(a) /\ (a.fn \in {"awake", "start"} => a.i <= 1 /\ a.c = None)

LEMMA Traceless ==
    ASSUME Placed, AllOnce, UNCHANGED <<object, slots, awoken, started, passedOver>>,
           InCall \subseteq Frame, InCall' \subseteq Frame,
           \A a \in InCall : a \in InCall' \/ NoTrace(a),
           \A a \in InCall' : a \in InCall \/ NoTrace(a)
    PROVE  AllOnce'
  <1>1. ASSUME NEW a \in Frame, NoTrace(a)
        PROVE  /\ AddedOnce(a) /\ \A c \in Components : ~WillAwake(a, c) /\ ~WillStart(a, c)
               /\ \A f \in {"awake", "start"}, o \in Objects, p \in Nat : p >= 1 => ~Reaches(a, f, o, p)
    <2>1. a.fn # "awakeAdded" /\ a.fn # "startAdded" /\ ~IsAdded(a) /\ a.i \in Nat
          BY <1>1 DEF NoTrace, IsAdded, AddedCalls, Frame
    <2>2. AddedOnce(a) /\ \A c \in Components : ~WillAwake(a, c) /\ ~WillStart(a, c)
          BY <2>1 DEF AddedOnce, WillAwake, WillStart
    <2>3. ASSUME NEW f \in {"awake", "start"}, NEW o \in Objects, NEW p \in Nat, p >= 1, Reaches(a, f, o, p)
          PROVE  FALSE
      <3>1. a.fn \in {"awake", "start"} /\ (p < a.i \/ Busy(a))
            BY <2>3 DEF Reaches
      <3>2. a.i <= 1 /\ ~Busy(a)
            BY <1>1, <3>1 DEF NoTrace, Busy
      <3> QED  BY <2>1, <2>3, <3>1, <3>2
    <2> QED  BY <2>2, <2>3
  <1>2. \A f \in {"awake", "start"}, o \in Objects, p \in Nat : p >= 1 => (Reached(f, o, p)' <=> Reached(f, o, p))
        BY <1>1 DEF Reached
  <1>3. \A c \in Components : (ToAwake(c)' <=> ToAwake(c)) /\ (ToStart(c)' <=> ToStart(c))
        BY <1>1 DEF ToAwake, ToStart
  <1>4. \A a \in InCall' : a \in InCall \/ AddedOnce(a)
        BY <1>1
  <1> QED  BY <1>2, <1>3, <1>4, OnceKept

LEMMA BeginKeepsOrder ==
    ASSUME Placed, Stacked, CallOrder, NEW f \in Methods, Begin(f)
    PROVE  CallOrder'
  <1> DEFINE t == Top
             e == [t EXCEPT !.i = 1]
             g == Method("awake", t.of)
  <1>1. stack # <<>> /\ t \in Frame /\ t = Top /\ t.fn = f /\ t.c = None /\ t.i = 0 /\ f # "updateOf"
        BY StackShape DEF Begin, Quiet
  <1>2. UNCHANGED <<object, slots, awoken, started, passedOver>>
        BY DEF Begin, members, seen
  <1>3. /\ IsMethod(t) /\ ~IsAdded(t) /\ t.of \in Objects /\ f \notin CollectionLoops /\ f \notin AddedCalls
    <2>1. IsMethod(t)
          BY <1>1 DEF IsMethod
    <2> QED  BY <1>1, <2>1, KindsOfCalls DEF IsAdded
  <1>4. e \in Frame /\ e.fn = f /\ e.of = t.of /\ e.i = 1 /\ e.c = None
        BY <1>1, <1>3 DEF Frame
  <1>5. g \in Frame /\ g.fn = "awake" /\ g.of = t.of /\ g.i = 0 /\ g.c = None
        BY <1>3, FramesMade DEF Methods, Method
  <1>6. \/ f = "awake" /\ object[t.of].awoken /\ Return
        \/ f = "start" /\ object[t.of].started /\ Return
        \/ f = "start" /\ ~object[t.of].started /\ Call(e, g)
        \/ /\ f = "awake" => ~object[t.of].awoken
           /\ f = "start" => ~object[t.of].started /\ object[t.of].awoken
           /\ Replace(e)
    <2>1. CASE f = "awake" /\ object[t.of].awoken
          BY <1>1, <2>1 DEF Begin
    <2>2. CASE f = "start" /\ object[t.of].started
          BY <1>1, <2>2 DEF Begin
    <2>3. CASE f = "start" /\ ~object[t.of].started /\ ~object[t.of].awoken
          BY <1>1, <2>3 DEF Begin
    <2>4. CASE /\ ~(f = "awake" /\ object[t.of].awoken)
               /\ ~(f = "start" /\ object[t.of].started)
               /\ ~(f = "start" /\ ~object[t.of].started /\ ~object[t.of].awoken)
          BY <1>1, <2>4 DEF Begin, Enter
    <2> QED  BY <2>1, <2>2, <2>3, <2>4
  <1>7. NoTrace(t) /\ NoTrace(e) /\ NoTrace(g)
    <2>1. IsMethod(e) /\ IsMethod(g)
          BY <1>3, <1>4, <1>5, <1>1 DEF IsMethod, Methods
    <2>2. ~IsAdded(e) /\ ~IsAdded(g)
          BY <2>1, <1>4, <1>5, KindsOfCalls
    <2> QED  BY <1>1, <1>3, <1>4, <1>5, <2>2 DEF NoTrace
  <1> HIDE DEF t
  <1>8. /\ InOrder /\ CallsSound /\ AllOnce /\ InCall = Below \cup {t} /\ InCall \subseteq Frame
        /\ Sound(t)
    <2>1. InOrder /\ CallsSound /\ AllOnce /\ InCall = Below \cup {t} /\ InCall \subseteq Frame
          BY <1>1, TopIsLast DEF CallOrder
    <2> QED  BY <2>1 DEF CallsSound
  <1>9. CASE Return /\ (f = "awake" => object[t.of].awoken) /\ (f = "start" => object[t.of].started)
    <2>1. InOrder' /\ CallsSound' /\ InCall' = Below
          BY <1>1, <1>2, <1>8, <1>9, MovesOut
    <2>2. AllOnce'
          BY <1>2, <1>7, <1>8, <2>1, Traceless
    <2> QED  BY <2>1, <2>2 DEF CallOrder
  <1>10. CASE f = "start" /\ ~object[t.of].started /\ Call(e, g)
    <2>0. e = [t EXCEPT !.i = 1] /\ g = Method("awake", t.of)
          OBVIOUS
    <2> HIDE DEF e, g
    <2>1. InOrder' /\ CallsSound' /\ InCall' = Below \cup {e, g}
          BY <1>1, <1>2, <1>4, <1>5, <1>8, <1>10, <2>0, MovesIn
    <2>2. InCall' \subseteq Frame
          BY <1>4, <1>5, <1>8, <2>1
    <2>3. AllOnce'
          BY <1>2, <1>7, <1>8, <2>1, <2>2, Traceless
    <2> QED  BY <2>1, <2>3 DEF CallOrder
  <1> HIDE DEF e, g
  <1>11. CASE /\ f = "awake" => ~object[t.of].awoken
              /\ f = "start" => ~object[t.of].started /\ object[t.of].awoken
              /\ Replace(e)
    <2>1. Sound(e)
          BY <1>3, <1>4, <1>8, KindsOfCalls DEF Sound, Busy, IsMethod, IsAdded
    <2>2. IsMethod(e) => \A a \in Below : IsAdded(a) => e.c # Adds(a)
          BY <1>4, <1>8, KindsOfCalls
    <2>3. InOrder' /\ CallsSound' /\ InCall' = Below \cup {e}
          BY <1>1, <1>2, <1>3, <1>4, <1>8, <1>11, <2>1, <2>2, MovesOn
    <2>4. InCall' \subseteq Frame
          BY <1>4, <1>8, <2>3
    <2>5. AllOnce'
          BY <1>2, <1>7, <1>8, <2>3, <2>4, Traceless
    <2> QED  BY <2>3, <2>5 DEF CallOrder
  <1> QED  BY <1>6, <1>9, <1>10, <1>11

LEMMA BeginUpdateKeepsOrder ==
    ASSUME Placed, Stacked, CallOrder, BeginObjectUpdate
    PROVE  CallOrder'
  <1> DEFINE t == Top
             e == [t EXCEPT !.i = 1]
             g == Method("start", t.of)
  <1>1. stack # <<>> /\ t \in Frame /\ t = Top /\ t.fn = "updateOf" /\ t.c = None /\ t.i = 0
        BY StackShape DEF BeginObjectUpdate, Quiet
  <1>2. UNCHANGED <<object, slots, awoken, started, passedOver>>
        BY DEF BeginObjectUpdate, members
  <1>3. IsMethod(t) /\ ~IsAdded(t) /\ t.of \in Objects
    <2>1. IsMethod(t)
          BY <1>1 DEF IsMethod, Methods
    <2> QED  BY <1>1, <2>1, KindsOfCalls
  <1>4. e \in Frame /\ e.fn = "updateOf" /\ e.of = t.of /\ e.i = 1 /\ e.c = None
    <2>1. "updateOf" \notin CollectionLoops /\ "updateOf" \notin AddedCalls
          BY DEF CollectionLoops, AddedCalls
    <2> QED  BY <1>1, <1>3, <2>1 DEF Frame
  <1>5. g \in Frame /\ g.fn = "start" /\ g.of = t.of /\ g.i = 0 /\ g.c = None
        BY <1>3, FramesMade DEF Methods, Method
  <1>6. \/ object[t.of].started /\ Replace(e)
        \/ Call(e, g)
        BY <1>1 DEF BeginObjectUpdate, Enter
  <1>7. NoTrace(t) /\ NoTrace(e) /\ NoTrace(g)
    <2>1. IsMethod(e) /\ IsMethod(g)
          BY <1>4, <1>5 DEF IsMethod, Methods
    <2>2. ~IsAdded(e) /\ ~IsAdded(g)
          BY <2>1, <1>4, <1>5, KindsOfCalls
    <2> QED  BY <1>1, <1>3, <1>4, <1>5, <2>2 DEF NoTrace
  <1> HIDE DEF t
  <1>8. /\ InOrder /\ CallsSound /\ AllOnce /\ InCall = Below \cup {t} /\ InCall \subseteq Frame
        /\ Sound(t)
    <2>1. InOrder /\ CallsSound /\ AllOnce /\ InCall = Below \cup {t} /\ InCall \subseteq Frame
          BY <1>1, TopIsLast DEF CallOrder
    <2> QED  BY <2>1 DEF CallsSound
  <1>9. CASE Call(e, g)
    <2>0. e = [t EXCEPT !.i = 1] /\ g = Method("start", t.of)
          OBVIOUS
    <2> HIDE DEF e, g
    <2>1. InOrder' /\ CallsSound' /\ InCall' = Below \cup {e, g}
          BY <1>1, <1>2, <1>4, <1>5, <1>8, <1>9, <2>0, MovesIn
    <2>2. InCall' \subseteq Frame
          BY <1>4, <1>5, <1>8, <2>1
    <2>3. AllOnce'
          BY <1>2, <1>7, <1>8, <2>1, <2>2, Traceless
    <2> QED  BY <2>1, <2>3 DEF CallOrder
  <1> HIDE DEF e, g
  <1>10. CASE object[t.of].started /\ Replace(e)
    <2>1. Sound(e)
      <3>1. Live(t.of)
            BY <1>1, <1>3, <1>8, KindsOfCalls DEF Sound
      <3>2. ~IsAdded(e) /\ e.c = None /\ e.of = t.of
            BY <1>4, <1>7 DEF NoTrace
      <3> QED  BY <3>1, <3>2 DEF Sound, Busy
    <2>2. IsMethod(e) => \A a \in Below : IsAdded(a) => e.c # Adds(a)
          BY <1>4, <1>8, KindsOfCalls
    <2>3. InOrder' /\ CallsSound' /\ InCall' = Below \cup {e}
          BY <1>1, <1>2, <1>3, <1>4, <1>8, <1>10, <2>1, <2>2, MovesOn
    <2>4. InCall' \subseteq Frame
          BY <1>4, <1>8, <2>3
    <2>5. AllOnce'
          BY <1>2, <1>7, <1>8, <2>3, <2>4, Traceless
    <2> QED  BY <2>3, <2>5 DEF CallOrder
  <1> QED  BY <1>6, <1>9, <1>10

(* The loop of awake or of start comes to a component: it is the only one  *)
(* that does, and the component was not called before.                     *)
LEMMA AloneOfItsKind ==
    ASSUME Stacked, InOrder, stack # <<>>, NEW t, t = Top, IsMethod(t)
    PROVE  /\ \A a \in Below : a.of = t.of => ~IsAdded(a) /\ a.c = None
           /\ t.fn \in {"awake", "start"} => \A a \in Below : a.of = t.of => a.fn # t.fn
  <1>1. \A a \in Below : Fits(a, t) /\ a \in Frame
        BY TopIsLast
  <1>2. \A a \in Below : a.of = t.of => Nests(a, t)
        BY <1>1 DEF Fits
  <1>3. \A a \in Below : a.of = t.of => IsMethod(a) /\ ~Busy(a) /\ (t.fn \in {"awake", "start"} => a.fn # t.fn)
        BY <1>2 DEF Nests, IsMethod, Methods
  <1>4. \A a \in Below : IsMethod(a) => ~IsAdded(a)
        BY <1>1, KindsOfCalls
  <1> QED  BY <1>3, <1>4 DEF Busy

LEMMA ComponentCalled ==
    ASSUME Placed, Stacked, CallOrder, stack # <<>>, NEW t, t = Top, t.fn \in {"awake", "start"}, t.c = None,
           NEW o, o = t.of, NEW i, i = t.i, i \in 1 .. object[o].count, NEW c, c = slots[o][i],
           NEW d, d = [t EXCEPT !.c = c], InCall' = Below \cup {d},
           UNCHANGED <<object, slots, passedOver>>, Count(t.fn, c)
    PROVE  AllOnce'
  <1>1. /\ InCall = Below \cup {t} /\ InCall \subseteq Frame /\ t \in Frame /\ Below \subseteq Frame
        /\ InOrder /\ CallsSound /\ AllOnce
        BY TopIsLast DEF CallOrder
  <1>2. IsMethod(t) /\ ~IsAdded(t) /\ o \in Objects
    <2>1. IsMethod(t)
          BY DEF IsMethod, Methods
    <2> QED  BY <1>1, <2>1, KindsOfCalls
  <1>3. /\ c \in Components /\ c # None /\ c[1] = o /\ c \in Made(o, object[o].made) /\ i \in Nat /\ i >= 1
        /\ \A q \in Objects : \A r \in 1 .. object[q].count : slots[q][r] = c => q = o /\ r = i
        BY <1>2, OwnComponents
  <1>4. /\ \A a \in Below : a.of = o => ~IsAdded(a)
        /\ \A a \in Below : a.of = o => a.fn # t.fn
        BY <1>1, <1>2, AloneOfItsKind
  <1>5. /\ d.fn = t.fn /\ d.of = o /\ d.i = i /\ d.c = c
        BY <1>1 DEF Frame
  <1>6. ~IsAdded(d)
        BY <1>2, <1>5 DEF IsAdded
  <1>7. ~Reached(t.fn, o, i)
    <2>1. ~Reaches(t, t.fn, o, i)
          BY <1>3 DEF Reaches, Busy
    <2>2. \A a \in Below : ~Reaches(a, t.fn, o, i)
          BY <1>4 DEF Reaches
    <2> QED  BY <1>1, <2>1, <2>2 DEF Reached
  <1>8. /\ t.fn = "awake" => ~object[o].awoken
        /\ t.fn = "start" => ~object[o].started
        BY <1>1, <1>3 DEF CallsSound, InTurn
  <1>9. \A f \in {"awake", "start"}, q \in Objects, p \in Nat :
            Reached(f, q, p)' <=> Reached(f, q, p) \/ (f = t.fn /\ q = o /\ p = i)
    <2>1. \A f \in {"awake", "start"}, q \in Objects, p \in Nat :
            Reaches(d, f, q, p) <=> Reaches(t, f, q, p) \/ (f = t.fn /\ q = o /\ p = i)
          BY <1>3, <1>5 DEF Reaches, Busy
    <2> QED  BY <1>1, <2>1 DEF Reached
  <1>10. \A x \in Components : (ToAwake(x)' <=> ToAwake(x)) /\ (ToStart(x)' <=> ToStart(x))
    <2>1. t.fn # "awakeAdded" /\ d.fn # "awakeAdded"
          BY <1>5
    <2>2. \A x \in Components : ~WillAwake(t, x) /\ ~WillAwake(d, x) /\ ~WillStart(t, x) /\ ~WillStart(d, x)
          BY <1>2, <1>6, <2>1 DEF WillAwake, WillStart
    <2> QED  BY <1>1, <2>2 DEF ToAwake, ToStart
  <1>11. /\ awoken \in [Components -> Nat] /\ started \in [Components -> Nat]
         /\ NoneUnmade /\ OnceEach /\ \A a \in InCall : AddedOnce(a)
        BY <1>1 DEF AllOnce
  <1>12. /\ awoken' = IF t.fn = "awake" THEN [awoken EXCEPT ![c] = @ + 1] ELSE awoken
         /\ started' = IF t.fn = "start" THEN [started EXCEPT ![c] = @ + 1] ELSE started
        BY DEF Count
  <1>13. /\ awoken' \in [Components -> Nat] /\ started' \in [Components -> Nat]
         /\ \A x \in Components : x # c => awoken'[x] = awoken[x] /\ started'[x] = started[x]
         /\ awoken'[c] = IF t.fn = "awake" THEN awoken[c] + 1 ELSE awoken[c]
         /\ started'[c] = IF t.fn = "start" THEN started[c] + 1 ELSE started[c]
    <2>1. awoken[c] + 1 \in Nat /\ started[c] + 1 \in Nat
          BY <1>3, <1>11
    <2> QED  BY <1>3, <1>11, <1>12, <2>1
  <1>14. NoneUnmade'
    <2> SUFFICES ASSUME NEW q \in Objects, NEW j \in 1 .. MaxMade, j > object[q].made
                 PROVE  awoken'[<<q, j>>] = 0 /\ started'[<<q, j>>] = 0
          BY DEF NoneUnmade
    <2>1. awoken[<<q, j>>] = 0 /\ started[<<q, j>>] = 0
          BY <1>11 DEF NoneUnmade
    <2>2. PICK j0 \in 1 .. object[o].made : c = <<o, j0>>
          BY <1>3 DEF Made
    <2>3. j0 <= object[o].made /\ j \in Int /\ j0 \in Int /\ object[o].made \in Int /\ object[q].made \in Int
      <3>1. object[o].made \in 0 .. MaxMade /\ object[q].made \in 0 .. MaxMade
            BY <1>2, ArraysTyped DEF ObjectRecord
      <3> QED  BY <3>1, Positive
    <2>4. <<q, j>> # c
      <3>1. q = o => j # j0
            BY <2>3
      <3> QED  BY <2>2, <3>1
    <2>5. <<q, j>> \in Components
          BY DEF Components
    <2> QED  BY <1>13, <2>1, <2>4, <2>5
  <1>15. \A a \in InCall' : AddedOnce(a)'
    <2>1. AddedOnce(d)'
          BY <1>6 DEF AddedOnce, IsAdded, AddedCalls
    <2>2. ASSUME NEW a \in Below PROVE AddedOnce(a)'
      <3>1. AddedOnce(a)
            BY <1>1, <1>11
      <3>2. IsAdded(a) => Adds(a) \in Components /\ Adds(a) # c
            BY <1>1, <1>3, <1>4, KindsOfCalls
      <3>3. IsAdded(a) => awoken'[Adds(a)] = awoken[Adds(a)] /\ started'[Adds(a)] = started[Adds(a)]
            BY <1>13, <3>2
      <3>4. a.fn \in {"awakeAdded", "startAdded"} => IsAdded(a)
            BY DEF IsAdded, AddedCalls
      <3> QED  BY <3>1, <3>3, <3>4 DEF AddedOnce
    <2> QED  BY <2>1, <2>2
  <1>16. OnceEach'
    <2> SUFFICES ASSUME NEW q \in Objects, NEW p \in 1 .. object[q].count, slots[q][p] \notin passedOver
                 PROVE  /\ awoken'[slots[q][p]] = Once(Reached("awake", q, p)' \/ (object[q].awoken /\ ~ToAwake(slots[q][p])'))
                        /\ started'[slots[q][p]] = Once(Reached("start", q, p)' \/ (object[q].started /\ ~ToStart(slots[q][p])'))
          BY DEF OnceEach, Once
    <2> DEFINE x == slots[q][p]
    <2>1. x \in Components /\ p \in Nat
          BY OwnComponents
    <2>2. /\ awoken[x] = Once(Reached("awake", q, p) \/ (object[q].awoken /\ ~ToAwake(x)))
          /\ started[x] = Once(Reached("start", q, p) \/ (object[q].started /\ ~ToStart(x)))
          BY <1>11 DEF OnceEach
    <2>3. x = c <=> q = o /\ p = i
          BY <1>3
    <2> HIDE DEF x
    <2>4. CASE x # c
      <3>1. /\ Reached("awake", q, p)' <=> Reached("awake", q, p)
            /\ Reached("start", q, p)' <=> Reached("start", q, p)
            BY <1>9, <2>1, <2>3, <2>4
      <3>2. awoken'[x] = awoken[x] /\ started'[x] = started[x]
            BY <1>13, <2>1, <2>4
      <3> QED  BY <1>10, <2>1, <2>2, <3>1, <3>2 DEF x, Once
    <2>5. CASE x = c /\ t.fn = "awake"
      <3>1. /\ Reached("awake", q, p)' /\ ~Reached("awake", q, p)
            /\ Reached("start", q, p)' <=> Reached("start", q, p)
            BY <1>7, <1>9, <2>1, <2>3, <2>5
      <3>2. awoken[x] = 0
            BY <1>8, <2>2, <2>3, <2>5, <3>1 DEF Once
      <3>3. awoken'[x] = 1 /\ started'[x] = started[x]
            BY <1>13, <2>5, <3>2
      <3> QED  BY <1>10, <2>1, <2>2, <3>1, <3>3 DEF x, Once
    <2>6. CASE x = c /\ t.fn = "start"
      <3>1. /\ Reached("start", q, p)' /\ ~Reached("start", q, p)
            /\ Reached("awake", q, p)' <=> Reached("awake", q, p)
            BY <1>7, <1>9, <2>1, <2>3, <2>6
      <3>2. started[x] = 0
            BY <1>8, <2>2, <2>3, <2>6, <3>1 DEF Once
      <3>3. started'[x] = 1 /\ awoken'[x] = awoken[x]
            BY <1>13, <2>6, <3>2
      <3> QED  BY <1>10, <2>1, <2>2, <3>1, <3>3 DEF x, Once
    <2> QED  BY <2>4, <2>5, <2>6
  <1> QED  BY <1>13, <1>14, <1>15, <1>16 DEF AllOnce

LEMMA CallNextKeepsOrder ==
    ASSUME Placed, Stacked, CallOrder, NEW f \in Methods, CallNext(f)
    PROVE  CallOrder'
  <1> DEFINE t == Top
             o == t.of
             i == t.i
             c == slots[o][i]
             d == [t EXCEPT !.c = c]
             e == [t EXCEPT !.i = t.i + 1]
  <1>1. stack # <<>> /\ t \in Frame /\ t = Top /\ t.fn = f /\ t.c = None /\ i \in 1 .. object[o].count
        BY StackShape DEF CallNext, Quiet
  <1>2. UNCHANGED <<object, slots, passedOver>>
        BY DEF CallNext, members
  <1>3. IsMethod(t) /\ ~IsAdded(t) /\ o \in Objects /\ f \notin CollectionLoops /\ f \notin AddedCalls
    <2>1. IsMethod(t)
          BY <1>1 DEF IsMethod
    <2> QED  BY <1>1, <2>1, KindsOfCalls DEF IsAdded
  <1>4. \/ Replace(d) /\ Count(f, c)
        \/ f \notin {"awake", "start"} /\ Replace(e) /\ UNCHANGED <<awoken, started>>
    <2>1. [t EXCEPT !.i = @ + 1] = e
          BY <1>1 DEF Frame
    <2>2. c # None
          BY <1>1, <1>3, OwnComponents
    <2>3. CASE f \in {"awake", "start"} \/ c \in enabled
          BY <1>1, <2>2, <2>3 DEF CallNext, CallComponent
    <2>4. CASE ~(f \in {"awake", "start"} \/ c \in enabled)
          BY <1>1, <2>1, <2>4 DEF CallNext
    <2> QED  BY <2>3, <2>4
  <1>5. o = t.of /\ i = t.i /\ c = slots[o][i] /\ d = [t EXCEPT !.c = c] /\ e = [t EXCEPT !.i = t.i + 1]
        OBVIOUS
  <1> HIDE DEF t, o, i, c, d, e
  <1>6. /\ c \in Components /\ c[1] = o /\ i \in Nat /\ i >= 1
        BY <1>1, <1>3, <1>5, OwnComponents
  <1>7. d \in Frame /\ d.fn = f /\ d.of = o /\ d.i = i /\ d.c = c
        BY <1>1, <1>3, <1>5, <1>6 DEF Frame
  <1>8. e \in Frame /\ e.fn = f /\ e.of = o /\ e.i = i + 1 /\ e.c = None
    <2>1. i + 1 \in Nat
          BY <1>6
    <2> QED  BY <1>1, <1>3, <1>5, <2>1 DEF Frame
  <1>9. /\ InOrder /\ CallsSound /\ AllOnce /\ InCall = Below \cup {t} /\ InCall \subseteq Frame
        /\ Sound(t)
    <2>1. InOrder /\ CallsSound /\ AllOnce /\ InCall = Below \cup {t} /\ InCall \subseteq Frame
          BY <1>1, TopIsLast DEF CallOrder
    <2> QED  BY <2>1 DEF CallsSound
  <1>10. Live(o)
        BY <1>1, <1>3, <1>5, <1>9 DEF Sound
  <1>11. ~IsAdded(d) /\ ~IsAdded(e) /\ IsMethod(d) /\ IsMethod(e)
        BY <1>3, <1>7, <1>8 DEF IsAdded, IsMethod
  <1>12. CASE Replace(d) /\ Count(f, c)
    <2>1. Sound(d)
      <3>1. \E p \in 1 .. object[d.of].count : p <= d.i /\ slots[d.of][p] = d.c
        <4>1. i <= i
              BY <1>6
        <4> QED  BY <1>1, <1>5, <1>7, <4>1
      <3> QED  BY <1>7, <1>10, <1>11, <3>1 DEF Sound
    <2>2. IsMethod(d) => \A a \in Below : IsAdded(a) => d.c # Adds(a)
      <3> SUFFICES ASSUME NEW a \in Below, IsAdded(a), c = Adds(a) PROVE FALSE
            BY <1>7
      <3>1. a.of = o
            BY <1>6, <1>9, KindsOfCalls
      <3> QED  BY <1>1, <1>3, <1>5, <1>9, <3>1, AloneOfItsKind
    <2>3. InOrder' /\ CallsSound' /\ InCall' = Below \cup {d}
          BY <1>1, <1>2, <1>3, <1>5, <1>6, <1>7, <1>9, <1>12, <2>1, <2>2, MovesOn
    <2>4. CASE f \in {"awake", "start"}
      <3>1. AllOnce'
            BY <1>1, <1>2, <1>5, <1>12, <2>3, <2>4, ComponentCalled
      <3> QED  BY <2>3, <3>1 DEF CallOrder
    <2>5. CASE f \notin {"awake", "start"}
      <3>1. UNCHANGED <<awoken, started>>
            BY <1>12, <2>5 DEF Count
      <3>2. NoTrace(t) /\ NoTrace(d)
            BY <1>1, <1>3, <1>7, <1>11, <2>5 DEF NoTrace
      <3>3. InCall' \subseteq Frame
            BY <1>7, <1>9, <2>3
      <3>4. AllOnce'
            BY <1>2, <1>9, <2>3, <3>1, <3>2, <3>3, Traceless
      <3> QED  BY <2>3, <3>4 DEF CallOrder
    <2> QED  BY <2>4, <2>5
  <1>13. CASE f \notin {"awake", "start"} /\ Replace(e) /\ UNCHANGED <<awoken, started>>
    <2>1. Sound(e)
          BY <1>8, <1>10, <1>11 DEF Sound, Busy
    <2>2. IsMethod(e) => \A a \in Below : IsAdded(a) => e.c # Adds(a)
          BY <1>8, <1>9, KindsOfCalls
    <2>3. InOrder' /\ CallsSound' /\ InCall' = Below \cup {e}
          BY <1>1, <1>2, <1>3, <1>5, <1>6, <1>8, <1>9, <1>13, <2>1, <2>2, MovesOn
    <2>4. NoTrace(t) /\ NoTrace(e)
          BY <1>1, <1>3, <1>8, <1>11, <1>13 DEF NoTrace
    <2>5. InCall' \subseteq Frame
          BY <1>8, <1>9, <2>3
    <2>6. AllOnce'
          BY <1>2, <1>9, <1>13, <2>3, <2>4, <2>5, Traceless
    <2> QED  BY <2>3, <2>6 DEF CallOrder
  <1> QED  BY <1>4, <1>12, <1>13

(* A component returns: to the loop, which moves on, ...                   *)
LEMMA MethodReturns ==
    ASSUME Placed, Stacked, CallOrder, stack # <<>>, NEW t, t = Top, t.c # None, IsMethod(t),
           Replace([t EXCEPT !.c = None, !.i = @ + 1]),
           UNCHANGED <<object, slots, awoken, started, passedOver>>
    PROVE  CallOrder'
  <1> DEFINE e == [t EXCEPT !.c = None, !.i = @ + 1]
  <1>1. /\ InOrder /\ CallsSound /\ AllOnce /\ InCall = Below \cup {t} /\ InCall \subseteq Frame
        /\ t \in Frame /\ Sound(t)
    <2>1. InOrder /\ CallsSound /\ AllOnce /\ InCall = Below \cup {t} /\ InCall \subseteq Frame /\ t \in Frame
          BY TopIsLast DEF CallOrder
    <2> QED  BY <2>1 DEF CallsSound
  <1>2. ~IsAdded(t) /\ t.of \in Objects /\ t.fn \notin CollectionLoops
        BY <1>1, KindsOfCalls
  <1>3. t.i \in Nat /\ t.i >= 1
    <2>1. PICK p \in 1 .. object[t.of].count : p <= t.i
          BY <1>1 DEF Sound, Busy
    <2>2. t.i \in Nat
          BY <1>1 DEF Frame
    <2> QED  BY <2>1, <2>2
  <1>4. e \in Frame /\ e.fn = t.fn /\ e.of = t.of /\ e.i = t.i + 1 /\ e.c = None
    <2>1. t.i + 1 \in Nat /\ t.fn \notin AddedCalls
          BY <1>2, <1>3 DEF IsAdded
    <2> QED  BY <1>1, <1>2, <2>1 DEF Frame
  <1>5. Replace(e)
        OBVIOUS
  <1> HIDE DEF e
  <1>6. IsMethod(e) /\ ~IsAdded(e)
        BY <1>2, <1>4 DEF IsMethod, IsAdded
  <1>7. Sound(e)
        BY <1>1, <1>2, <1>4, <1>6 DEF Sound, Busy
  <1>8. IsMethod(e) => \A a \in Below : IsAdded(a) => e.c # Adds(a)
        BY <1>1, <1>4, KindsOfCalls
  <1>9. InOrder' /\ CallsSound' /\ InCall' = Below \cup {e}
        BY <1>1, <1>3, <1>4, <1>5, <1>7, <1>8, MovesOn
  <1>10. \A f \in {"awake", "start"}, o \in Objects, p \in Nat : p >= 1 => (Reached(f, o, p)' <=> Reached(f, o, p))
    <2>1. \A f \in {"awake", "start"}, o \in Objects, p \in Nat : Reaches(e, f, o, p) <=> Reaches(t, f, o, p)
      <3>1. \A p \in Nat : (p < t.i + 1) <=> (p < t.i \/ p = t.i)
            BY <1>3
      <3> QED  BY <1>4, <3>1 DEF Reaches, Busy
    <2> QED  BY <1>1, <1>9, <2>1 DEF Reached
  <1>11. \A c \in Components : (ToAwake(c)' <=> ToAwake(c)) /\ (ToStart(c)' <=> ToStart(c))
    <2>1. t.fn # "awakeAdded" /\ e.fn # "awakeAdded"
          BY <1>2, <1>4 DEF IsAdded, AddedCalls
    <2>2. \A c \in Components : ~WillAwake(t, c) /\ ~WillAwake(e, c) /\ ~WillStart(t, c) /\ ~WillStart(e, c)
          BY <1>2, <1>6, <2>1 DEF WillAwake, WillStart
    <2> QED  BY <1>1, <1>9, <2>2 DEF ToAwake, ToStart
  <1>12. \A a \in InCall' : a \in InCall \/ AddedOnce(a)
    <2>1. AddedOnce(e)
          BY <1>6 DEF AddedOnce, IsAdded, AddedCalls
    <2> QED  BY <1>1, <1>9, <2>1
  <1>13. AllOnce'
        BY <1>1, <1>10, <1>11, <1>12, OnceKept
  <1> QED  BY <1>9, <1>13 DEF CallOrder

(* ... or to its own addition, of which there is no other.                 *)
AwakesOnce(t, c, N) ==
    \/ /\ awoken'[c] = awoken[c]
       /\ object[t.of].awoken => (WillAwake(t, c) <=> \E a \in N : WillAwake(a, c))
    \/ /\ awoken'[c] = 1 /\ object[t.of].awoken
       /\ \A a \in N : ~WillAwake(a, c)

StartsOnce(t, c, N) ==
    \/ /\ started'[c] = started[c]
       /\ object[t.of].started => (WillStart(t, c) <=> \E a \in N : WillStart(a, c))
    \/ /\ started'[c] = 1 /\ object[t.of].started
       /\ \A a \in N : ~WillStart(a, c)

LEMMA AdditionGoesOn ==
    ASSUME Placed, Stacked, CallOrder, stack # <<>>, NEW t, t = Top, IsAdded(t),
           NEW c, c = Adds(t), NEW N, N \subseteq Frame, InCall' = Below \cup N,
           UNCHANGED <<object, slots, passedOver>>,
           awoken' \in [Components -> Nat], started' \in [Components -> Nat],
           \A x \in Components : x # c => awoken'[x] = awoken[x] /\ started'[x] = started[x],
           \A a \in N : IsAdded(a) /\ AddedOnce(a)',
           \A a \in N : Adds(a) = c, AwakesOnce(t, c, N), StartsOnce(t, c, N)
    PROVE  AllOnce'
  <1>1. /\ InCall = Below \cup {t} /\ InCall \subseteq Frame /\ t \in Frame
        /\ InOrder /\ CallsSound /\ AllOnce
        /\ \A a \in Below : Fits(a, t)
        BY TopIsLast DEF CallOrder
  <1>2. /\ ~IsMethod(t) /\ t.of \in Objects /\ c \in Components /\ c[1] = t.of /\ c = <<t.of, t.i>>
        /\ Sound(t)
        BY <1>1, KindsOfCalls DEF CallsSound, Adds
  <1>3. \A a \in Below : IsAdded(a) => Adds(a) # c
        BY <1>1 DEF Fits
  <1>4. \A a \in N : a.fn \notin {"awake", "start"}
        BY DEF IsAdded, AddedCalls
  <1>5. t.fn \notin {"awake", "start"}
        BY DEF IsAdded, AddedCalls
  <1>6. \A f \in {"awake", "start"}, o \in Objects, p \in Nat : Reached(f, o, p)' <=> Reached(f, o, p)
    <2>1. \A a \in N \cup {t} : \A f \in {"awake", "start"}, o \in Objects, p \in Nat : ~Reaches(a, f, o, p)
          BY <1>4, <1>5 DEF Reaches
    <2> QED  BY <1>1, <2>1 DEF Reached
  <1>7. \A x \in Components : x # c => (ToAwake(x)' <=> ToAwake(x)) /\ (ToStart(x)' <=> ToStart(x))
    <2>1. \A a \in N \cup {t} : Adds(a) = c
          OBVIOUS
    <2>2. \A a \in N \cup {t} : \A x \in Components : x # c => ~WillAwake(a, x) /\ ~WillStart(a, x)
          BY <2>1 DEF WillAwake, WillStart
    <2> QED  BY <1>1, <2>2 DEF ToAwake, ToStart
  <1>8. /\ ToAwake(c) <=> WillAwake(t, c)
        /\ ToAwake(c)' <=> \E a \in N : WillAwake(a, c)
        /\ ToStart(c) <=> WillStart(t, c)
        /\ ToStart(c)' <=> \E a \in N : WillStart(a, c)
    <2>1. \A a \in Below : ~WillAwake(a, c) /\ ~WillStart(a, c)
          BY <1>3 DEF WillAwake, WillStart, IsAdded, AddedCalls
    <2> QED  BY <1>1, <2>1 DEF ToAwake, ToStart
  <1>9. /\ NoneUnmade /\ OnceEach /\ \A a \in InCall : AddedOnce(a)
        BY <1>1 DEF AllOnce
  <1>10. NoneUnmade'
    <2> SUFFICES ASSUME NEW q \in Objects, NEW j \in 1 .. MaxMade, j > object[q].made
                 PROVE  awoken'[<<q, j>>] = 0 /\ started'[<<q, j>>] = 0
          BY DEF NoneUnmade
    <2>1. awoken[<<q, j>>] = 0 /\ started[<<q, j>>] = 0
          BY <1>9 DEF NoneUnmade
    <2>2. t.i <= object[t.of].made /\ t.i \in Nat
          BY <1>1, <1>2 DEF Sound, Frame
    <2>3. object[t.of].made \in Int /\ object[q].made \in Int
      <3>1. object[t.of].made \in 0 .. MaxMade /\ object[q].made \in 0 .. MaxMade
            BY <1>2, ArraysTyped DEF ObjectRecord
      <3> QED  BY <3>1, Positive
    <2>4. q = t.of => j # t.i
          BY <2>2, <2>3
    <2>5. <<q, j>> \in Components
          BY DEF Components
    <2>6. <<q, j>> # c
      <3>1. CASE q = t.of
        <4>1. j # t.i
              BY <2>4, <3>1
        <4> QED  BY <1>2, <4>1
      <3>2. CASE q # t.of
        <4>1. <<q, j>>[1] = q
              OBVIOUS
        <4> QED  BY <1>2, <3>2, <4>1
      <3> QED  BY <3>1, <3>2
    <2>7. awoken'[<<q, j>>] = awoken[<<q, j>>] /\ started'[<<q, j>>] = started[<<q, j>>]
          BY <2>5, <2>6
    <2> QED  BY <2>1, <2>7
  <1>11. \A a \in InCall' : AddedOnce(a)'
    <2> SUFFICES ASSUME NEW a \in Below PROVE AddedOnce(a)'
          OBVIOUS
    <2>1. AddedOnce(a)
          BY <1>1, <1>9
    <2>2. IsAdded(a) => Adds(a) \in Components /\ Adds(a) # c
          BY <1>1, <1>3, KindsOfCalls
    <2>3. IsAdded(a) => awoken'[Adds(a)] = awoken[Adds(a)] /\ started'[Adds(a)] = started[Adds(a)]
          BY <2>2
    <2>4. a.fn \in {"awakeAdded", "startAdded"} => IsAdded(a)
          BY DEF IsAdded, AddedCalls
    <2> QED  BY <2>1, <2>3, <2>4 DEF AddedOnce
  <1>12. OnceEach'
    <2> SUFFICES ASSUME NEW q \in Objects, NEW p \in 1 .. object[q].count,
                        NEW x \in Components, x = slots[q][p], x \notin passedOver
                 PROVE  /\ awoken'[x] = Once(Reached("awake", q, p)' \/ (object[q].awoken /\ ~ToAwake(x)'))
                        /\ started'[x] = Once(Reached("start", q, p)' \/ (object[q].started /\ ~ToStart(x)'))
      <3>1. \A q \in Objects : \A p \in 1 .. object[q].count : slots[q][p] \in Components
            BY OwnComponents
      <3> QED  BY <3>1 DEF OnceEach, Once
    <2>1. p \in Nat /\ x[1] = q
          BY OwnComponents
    <2>2. /\ awoken[x] = Once(Reached("awake", q, p) \/ (object[q].awoken /\ ~ToAwake(x)))
          /\ started[x] = Once(Reached("start", q, p) \/ (object[q].started /\ ~ToStart(x)))
          BY <1>9 DEF OnceEach
    <2>3. /\ Reached("awake", q, p)' <=> Reached("awake", q, p)
          /\ Reached("start", q, p)' <=> Reached("start", q, p)
          BY <1>6, <2>1
    <2>5. CASE x # c
      <3>1. awoken'[x] = awoken[x] /\ started'[x] = started[x]
            BY <2>5
      <3> QED  BY <1>7, <2>2, <2>3, <2>5, <3>1 DEF Once
    <2>6. CASE x = c
      <3>1. q = t.of
            BY <1>2, <2>1, <2>6
      <3>2. awoken'[x] = Once(Reached("awake", q, p)' \/ (object[q].awoken /\ ~ToAwake(x)'))
        <4>1. CASE /\ awoken'[c] = awoken[c]
                   /\ object[t.of].awoken => (WillAwake(t, c) <=> \E a \in N : WillAwake(a, c))
              BY <1>8, <2>2, <2>3, <2>6, <3>1, <4>1 DEF Once
        <4>2. CASE /\ awoken'[c] = 1 /\ object[t.of].awoken
                   /\ \A a \in N : ~WillAwake(a, c)
              BY <1>8, <2>6, <3>1, <4>2 DEF Once
        <4> QED  BY <4>1, <4>2 DEF AwakesOnce
      <3>3. started'[x] = Once(Reached("start", q, p)' \/ (object[q].started /\ ~ToStart(x)'))
        <4>1. CASE /\ started'[c] = started[c]
                   /\ object[t.of].started => (WillStart(t, c) <=> \E a \in N : WillStart(a, c))
              BY <1>8, <2>2, <2>3, <2>6, <3>1, <4>1 DEF Once
        <4>2. CASE /\ started'[c] = 1 /\ object[t.of].started
                   /\ \A a \in N : ~WillStart(a, c)
              BY <1>8, <2>6, <3>1, <4>2 DEF Once
        <4> QED  BY <4>1, <4>2 DEF StartsOnce
      <3> QED  BY <3>2, <3>3
    <2> QED  BY <2>5, <2>6
  <1> QED  BY <1>10, <1>11, <1>12 DEF AllOnce

LEMMA AdditionMoves ==
    ASSUME Placed, Stacked, CallOrder, stack # <<>>, NEW t, t = Top, IsAdded(t),
           NEW e \in Frame, IsAdded(e), e.of = t.of, e.i = t.i, Busy(e) => e.c = Adds(t),
           Replace(e), UNCHANGED <<object, slots>>
    PROVE  InOrder' /\ CallsSound' /\ InCall' = Below \cup {e} /\ Adds(e) = Adds(t)
  <1>1. /\ InOrder /\ CallsSound /\ InCall = Below \cup {t} /\ InCall \subseteq Frame /\ t \in Frame
        BY TopIsLast DEF CallOrder
  <1>2. Sound(t)
        BY <1>1 DEF CallsSound
  <1>3. /\ t.fn \notin CollectionLoops /\ e.fn \notin CollectionLoops /\ ~IsMethod(e)
        BY <1>1, KindsOfCalls
  <1>4. Adds(e) = Adds(t)
        BY DEF Adds
  <1>5. Sound(e)
        BY <1>2, <1>3, <1>4 DEF Sound
  <1>6. /\ e.i >= 1 => \/ t.i >= 1
                       \/ /\ e.fn = "awake" => ~object[e.of].awoken
                          /\ e.fn = "start" => ~object[e.of].started /\ object[e.of].awoken
                          /\ e.fn = "updateOf" => object[e.of].started
        OBVIOUS
  <1> QED  BY <1>1, <1>3, <1>4, <1>5, <1>6, MovesOn

(* A component that was added is awoken, and started, if it is its turn.   *)
LEMMA AwakeAddedKeepsOrder ==
    ASSUME Placed, Stacked, CallOrder, AwakeAdded
    PROVE  CallOrder'
  <1> SUFFICES ASSUME NEW t, t = Top, NEW c, c = <<t.of, t.i>>,
                      NEW d, d = [t EXCEPT !.c = c], NEW e, e = [t EXCEPT !.fn = "startAdded"]
               PROVE  CallOrder'
        OBVIOUS
  <1>1. stack # <<>> /\ t \in Frame /\ t = Top /\ t.fn = "awakeAdded" /\ t.c = None
        BY StackShape DEF AwakeAdded, Quiet
  <1>2. UNCHANGED <<object, slots, passedOver>>
        BY DEF AwakeAdded, members
  <1>3. \/ object[t.of].awoken /\ Replace(d) /\ Count("awake", c)
        \/ ~object[t.of].awoken /\ Replace(e) /\ UNCHANGED <<awoken, started>>
        BY DEF AwakeAdded, CallComponent
  <1>4. c = Adds(t)
        BY DEF Adds
  <1>5. IsAdded(t) /\ ~Busy(t)
        BY <1>1 DEF IsAdded, AddedCalls, Busy
  <1>6. t.of \in Objects /\ c \in Components /\ c # None
        BY <1>1, <1>4, <1>5, KindsOfCalls
  <1>7. /\ d \in Frame /\ d.fn = "awakeAdded" /\ d.of = t.of /\ d.i = t.i /\ d.c = c
        /\ e \in Frame /\ e.fn = "startAdded" /\ e.of = t.of /\ e.i = t.i /\ e.c = None
        BY <1>1, <1>4, <1>6 DEF Frame, AddedCalls, CollectionLoops
  <1>8. /\ IsAdded(d) /\ Busy(d) /\ IsAdded(e) /\ ~Busy(e)
        BY <1>6, <1>7 DEF IsAdded, AddedCalls, Busy
  <1>9. AllOnce /\ t \in InCall
        BY <1>1, TopIsLast DEF CallOrder
  <1>10. /\ awoken \in [Components -> Nat] /\ started \in [Components -> Nat]
         /\ awoken[c] = 0 /\ started[c] = 0
        BY <1>1, <1>4, <1>5, <1>9 DEF AllOnce, AddedOnce, Once
  <1>11. ASSUME object[t.of].awoken, Replace(d), Count("awake", c)
         PROVE  CallOrder'
    <2>0. (Busy(d) => d.c = Adds(t)) /\ Replace(d) /\ UNCHANGED <<object, slots>>
          BY <1>2, <1>4, <1>7, <1>11
    <2>1. InOrder' /\ CallsSound' /\ InCall' = Below \cup {d} /\ Adds(d) = c
          BY <1>1, <1>4, <1>5, <1>7, <1>8, <2>0, AdditionMoves
    <2>2. awoken' = [awoken EXCEPT ![c] = @ + 1] /\ started' = started
          BY <1>11 DEF Count
    <2>3. /\ awoken' \in [Components -> Nat] /\ started' \in [Components -> Nat]
          /\ \A x \in Components : x # c => awoken'[x] = awoken[x] /\ started'[x] = started[x]
          /\ awoken'[c] = 1 /\ started'[c] = 0 /\ started'[c] = started[c]
          BY <1>6, <1>10, <2>2
    <2>4. AddedOnce(d)'
      <3>1. d.fn # "startAdded" /\ object'[d.of].awoken
            BY <1>2, <1>7, <1>11
      <3> QED  BY <1>8, <2>1, <2>3, <3>1 DEF AddedOnce, Once
    <2>5. /\ ~WillAwake(d, c) /\ WillStart(t, c) /\ WillStart(d, c)
          BY <1>1, <1>4, <1>5, <1>7, <1>8, <2>1 DEF WillAwake, WillStart
    <2> DEFINE N == {d}
    <2>6. /\ N \subseteq Frame /\ InCall' = Below \cup N
          /\ \A a \in N : IsAdded(a) /\ AddedOnce(a)'
          /\ \A a \in N : Adds(a) = c /\ ~WillAwake(a, c)
          /\ WillStart(t, c) <=> \E a \in N : WillStart(a, c)
          BY <1>7, <1>8, <2>1, <2>4, <2>5
    <2> HIDE DEF N
    <2>7. /\ awoken'[c] = 1 /\ object[t.of].awoken
          /\ \A a \in N : Adds(a) = c /\ ~WillAwake(a, c)
          BY <1>11, <2>3, <2>6
    <2>8. /\ started'[c] = started[c]
          /\ object[t.of].started => (WillStart(t, c) <=> \E a \in N : WillStart(a, c))
          BY <2>3, <2>6
    <2>9. AwakesOnce(t, c, N) /\ StartsOnce(t, c, N)
          BY <2>7, <2>8 DEF AwakesOnce, StartsOnce
    <2>10. AllOnce'
          BY <1>1, <1>2, <1>4, <1>5, <2>3, <2>6, <2>9, AdditionGoesOn
    <2> QED  BY <2>1, <2>10 DEF CallOrder
  <1>12. ASSUME ~object[t.of].awoken, Replace(e), UNCHANGED <<awoken, started>>
         PROVE  CallOrder'
    <2>1. InOrder' /\ CallsSound' /\ InCall' = Below \cup {e} /\ Adds(e) = c
          BY <1>1, <1>2, <1>4, <1>5, <1>7, <1>8, <1>12, AdditionMoves
    <2>2. /\ awoken' \in [Components -> Nat] /\ started' \in [Components -> Nat]
          /\ \A x \in Components : x # c => awoken'[x] = awoken[x] /\ started'[x] = started[x]
          /\ awoken'[c] = 0 /\ started'[c] = 0 /\ started'[c] = started[c] /\ awoken'[c] = awoken[c]
          BY <1>10, <1>12
    <2>3. AddedOnce(e)'
      <3>1. e.fn # "awakeAdded" /\ ~object'[e.of].awoken
            BY <1>2, <1>7, <1>12
      <3> QED  BY <1>8, <2>1, <2>2, <3>1 DEF AddedOnce, Once
    <2>4. /\ WillStart(t, c) /\ WillStart(e, c)
          BY <1>1, <1>4, <1>5, <1>7, <1>8, <2>1 DEF WillStart
    <2> DEFINE N == {e}
    <2>5. /\ N \subseteq Frame /\ InCall' = Below \cup N
          /\ \A a \in N : IsAdded(a) /\ AddedOnce(a)'
          /\ \A a \in N : Adds(a) = c
          /\ WillStart(t, c) <=> \E a \in N : WillStart(a, c)
          BY <1>7, <1>8, <2>1, <2>3, <2>4
    <2> HIDE DEF N
    <2>6. AwakesOnce(t, c, N) /\ StartsOnce(t, c, N)
          BY <1>12, <2>2, <2>5 DEF AwakesOnce, StartsOnce
    <2>7. AllOnce'
          BY <1>1, <1>2, <1>4, <1>5, <2>2, <2>5, <2>6, AdditionGoesOn
    <2> QED  BY <2>1, <2>7 DEF CallOrder
  <1> QED  BY <1>3, <1>11, <1>12

(* An addition that is over.                                               *)
LEMMA AdditionEnds ==
    ASSUME Placed, Stacked, CallOrder, stack # <<>>, NEW t, t = Top, t.fn = "startAdded",
           Busy(t) \/ ~object[t.of].started,
           Return, UNCHANGED <<object, slots, passedOver, awoken, started>>
    PROVE  CallOrder'
  <1>1. IsAdded(t) /\ t.fn # "awakeAdded" /\ t.fn # "awake" /\ t.fn # "start"
        BY DEF IsAdded, AddedCalls
  <1>2. InOrder /\ CallsSound /\ AllOnce
        BY DEF CallOrder
  <1>3. InOrder' /\ CallsSound' /\ InCall' = Below
        BY <1>1, <1>2, MovesOut
  <1> DEFINE c == Adds(t)
             N == {}
  <1>4. /\ awoken' \in [Components -> Nat] /\ started' \in [Components -> Nat]
        /\ \A x \in Components : x # c => awoken'[x] = awoken[x] /\ started'[x] = started[x]
        /\ awoken'[c] = awoken[c] /\ started'[c] = started[c]
        BY <1>2 DEF AllOnce
  <1>5. ~WillAwake(t, c) /\ (object[t.of].started => ~WillStart(t, c))
        BY <1>1 DEF WillAwake, WillStart
  <1>6. /\ N \subseteq Frame /\ InCall' = Below \cup N
        /\ \A a \in N : IsAdded(a) /\ AddedOnce(a)'
        /\ \A a \in N : Adds(a) = c
        /\ ~\E a \in N : WillAwake(a, c)
        /\ ~\E a \in N : WillStart(a, c)
        BY <1>3
  <1>7. c = Adds(t)
        OBVIOUS
  <1> HIDE DEF N, c
  <1>8. /\ object[t.of].awoken => (WillAwake(t, c) <=> \E a \in N : WillAwake(a, c))
        /\ object[t.of].started => (WillStart(t, c) <=> \E a \in N : WillStart(a, c))
        BY <1>5, <1>6
  <1>9. AwakesOnce(t, c, N) /\ StartsOnce(t, c, N)
        BY <1>4, <1>8 DEF AwakesOnce, StartsOnce
  <1>10. AllOnce'
        BY <1>1, <1>4, <1>6, <1>7, <1>9, AdditionGoesOn
  <1> QED  BY <1>3, <1>10 DEF CallOrder

LEMMA StartAddedKeepsOrder ==
    ASSUME Placed, Stacked, CallOrder, StartAdded
    PROVE  CallOrder'
  <1> SUFFICES ASSUME NEW t, t = Top, NEW c, c = <<t.of, t.i>>, NEW d, d = [t EXCEPT !.c = c]
               PROVE  CallOrder'
        OBVIOUS
  <1>1. stack # <<>> /\ t \in Frame /\ t = Top /\ t.fn = "startAdded" /\ t.c = None
        BY StackShape DEF StartAdded, Quiet
  <1>2. UNCHANGED <<object, slots, passedOver>>
        BY DEF StartAdded, members
  <1>3. \/ object[t.of].started /\ Replace(d) /\ Count("start", c)
        \/ ~object[t.of].started /\ Return /\ UNCHANGED <<awoken, started>>
        BY DEF StartAdded, CallComponent
  <1>4. c = Adds(t)
        BY DEF Adds
  <1>5. IsAdded(t) /\ ~Busy(t)
        BY <1>1 DEF IsAdded, AddedCalls, Busy
  <1>6. t.of \in Objects /\ c \in Components /\ c # None
        BY <1>1, <1>4, <1>5, KindsOfCalls
  <1>7. /\ d \in Frame /\ d.fn = "startAdded" /\ d.of = t.of /\ d.i = t.i /\ d.c = c
        BY <1>1, <1>4, <1>6 DEF Frame, AddedCalls, CollectionLoops
  <1>8. IsAdded(d) /\ Busy(d)
        BY <1>6, <1>7 DEF IsAdded, AddedCalls, Busy
  <1>9. AllOnce /\ t \in InCall
        BY <1>1, TopIsLast DEF CallOrder
  <1>10. /\ awoken \in [Components -> Nat] /\ started \in [Components -> Nat]
         /\ awoken[c] = Once(object[t.of].awoken) /\ started[c] = 0
        BY <1>1, <1>4, <1>5, <1>9 DEF AllOnce, AddedOnce, Once
  <1>11. ASSUME object[t.of].started, Replace(d), Count("start", c)
         PROVE  CallOrder'
    <2>1. (Busy(d) => d.c = Adds(t)) /\ UNCHANGED <<object, slots>>
          BY <1>2, <1>4, <1>7
    <2>2. InOrder' /\ CallsSound' /\ InCall' = Below \cup {d} /\ Adds(d) = c
          BY <1>1, <1>4, <1>5, <1>7, <1>8, <1>11, <2>1, AdditionMoves
    <2>3. started' = [started EXCEPT ![c] = @ + 1] /\ awoken' = awoken
          BY <1>11 DEF Count
    <2>4. /\ awoken' \in [Components -> Nat] /\ started' \in [Components -> Nat]
          /\ \A x \in Components : x # c => awoken'[x] = awoken[x] /\ started'[x] = started[x]
          /\ started'[c] = 1 /\ awoken'[c] = awoken[c]
          BY <1>6, <1>10, <2>3
    <2>5. AddedOnce(d)'
      <3>1. d.fn # "awakeAdded" /\ object'[d.of] = object[t.of]
            BY <1>2, <1>7
      <3> QED  BY <1>8, <1>10, <1>11, <2>2, <2>4, <3>1 DEF AddedOnce, Once
    <2>6. /\ ~WillAwake(d, c) /\ ~WillAwake(t, c) /\ ~WillStart(d, c)
          BY <1>1, <1>7, <1>8 DEF WillAwake, WillStart
    <2> DEFINE N == {d}
    <2>7. /\ N \subseteq Frame /\ InCall' = Below \cup N
          /\ \A a \in N : IsAdded(a) /\ AddedOnce(a)'
          /\ \A a \in N : Adds(a) = c
          /\ \A a \in N : ~WillAwake(a, c)
          /\ \A a \in N : ~WillStart(a, c)
          BY <1>7, <1>8, <2>2, <2>5, <2>6
    <2> HIDE DEF N
    <2>8. AwakesOnce(t, c, N)
          BY <2>4, <2>6, <2>7 DEF AwakesOnce
    <2>9. StartsOnce(t, c, N)
          BY <1>11, <2>4, <2>7 DEF StartsOnce
    <2>10. AllOnce'
          BY <1>1, <1>2, <1>4, <1>5, <2>4, <2>7, <2>8, <2>9, AdditionGoesOn
    <2> QED  BY <2>2, <2>10 DEF CallOrder
  <1>12. ASSUME ~object[t.of].started, Return, UNCHANGED <<awoken, started>>
         PROVE  CallOrder'
        BY <1>1, <1>2, <1>12, AdditionEnds
  <1> QED  BY <1>3, <1>11, <1>12

LEMMA ReturnKeepsOrder ==
    ASSUME Placed, Stacked, CallOrder, ComponentReturns
    PROVE  CallOrder'
  <1> SUFFICES ASSUME NEW t, t = Top, NEW c, c = <<t.of, t.i>>,
                      NEW e, e = [t EXCEPT !.c = None, !.fn = "startAdded"]
               PROVE  CallOrder'
        OBVIOUS
  <1>1. stack # <<>> /\ t \in Frame /\ t.c # None /\ Busy(t)
        BY StackShape DEF ComponentReturns, Busy
  <1>2. UNCHANGED <<object, slots, awoken, started, passedOver>>
        BY DEF ComponentReturns, members, seen
  <1>3. /\ t.fn = "awakeAdded" => Replace(e)
        /\ t.fn = "startAdded" => Return
        /\ t.fn \notin AddedCalls => Replace([t EXCEPT !.c = None, !.i = @ + 1])
        BY DEF ComponentReturns, AddedCalls
  <1>4. IsMethod(t) \/ t.fn = "awakeAdded" \/ t.fn = "startAdded"
        BY <1>1 DEF Frame, IsMethod, AddedCalls
  <1>5. CASE IsMethod(t)
    <2>1. t.fn \notin AddedCalls
          BY <1>1, <1>5, KindsOfCalls DEF IsAdded
    <2> QED  BY <1>1, <1>2, <1>3, <1>5, <2>1, MethodReturns
  <1>6. CASE t.fn = "startAdded"
        BY <1>1, <1>2, <1>3, <1>6, AdditionEnds
  <1>7. CASE t.fn = "awakeAdded"
    <2>1. IsAdded(t) /\ c = Adds(t)
          BY <1>7 DEF IsAdded, AddedCalls, Adds
    <2>2. t.of \in Objects /\ c \in Components
          BY <1>1, <2>1, KindsOfCalls
    <2>3. e \in Frame /\ e.fn = "startAdded" /\ e.of = t.of /\ e.i = t.i /\ e.c = None
          BY <1>1, <1>7, <2>2 DEF Frame, AddedCalls, CollectionLoops
    <2>4. IsAdded(e) /\ ~Busy(e)
          BY <2>3 DEF IsAdded, AddedCalls, Busy
    <2>5. AllOnce /\ t \in InCall
          BY <1>1, TopIsLast DEF CallOrder
    <2>6. /\ awoken \in [Components -> Nat] /\ started \in [Components -> Nat]
          /\ awoken[c] = 1 /\ started[c] = 0 /\ object[t.of].awoken
          BY <1>1, <1>7, <2>1, <2>5 DEF AllOnce, AddedOnce, Once
    <2>7. InOrder' /\ CallsSound' /\ InCall' = Below \cup {e} /\ Adds(e) = c
      <3>1. Replace(e) /\ UNCHANGED <<object, slots>>
            BY <1>2, <1>3, <1>7
      <3> QED  BY <1>1, <2>1, <2>3, <2>4, <3>1, AdditionMoves
    <2>8. /\ awoken' \in [Components -> Nat] /\ started' \in [Components -> Nat]
          /\ \A x \in Components : x # c => awoken'[x] = awoken[x] /\ started'[x] = started[x]
          /\ awoken'[c] = 1 /\ started'[c] = 0 /\ started'[c] = started[c] /\ awoken'[c] = awoken[c]
          BY <1>2, <2>6
    <2>9. AddedOnce(e)'
      <3>1. e.fn # "awakeAdded" /\ object'[e.of].awoken
            BY <1>2, <2>3, <2>6
      <3> QED  BY <2>4, <2>7, <2>8, <3>1 DEF AddedOnce, Once
    <2>10. /\ ~WillAwake(t, c) /\ ~WillAwake(e, c) /\ WillStart(t, c) /\ WillStart(e, c)
          BY <1>1, <1>7, <2>1, <2>3, <2>4, <2>7 DEF WillAwake, WillStart
    <2> DEFINE N == {e}
    <2>11. /\ N \subseteq Frame /\ InCall' = Below \cup N
           /\ \A a \in N : IsAdded(a) /\ AddedOnce(a)'
           /\ \A a \in N : Adds(a) = c
           /\ \A a \in N : ~WillAwake(a, c)
           /\ \E a \in N : WillStart(a, c)
          BY <2>3, <2>4, <2>7, <2>9, <2>10
    <2> HIDE DEF N
    <2>12. AwakesOnce(t, c, N) /\ StartsOnce(t, c, N)
          BY <2>8, <2>10, <2>11 DEF AwakesOnce, StartsOnce
    <2>13. AllOnce'
      <3>1. UNCHANGED <<object, slots, passedOver>>
            BY <1>2
      <3> QED  BY <1>1, <2>1, <2>8, <2>11, <2>12, <3>1, AdditionGoesOn
    <2> QED  BY <2>7, <2>13 DEF CallOrder
  <1> QED  BY <1>4, <1>5, <1>6, <1>7

(* awake and start are over: the flag says from now on what the loop did.  *)
LEMMA FlagSet ==
    ASSUME Placed, Stacked, CallOrder, stack # <<>>, NEW t, t = Top, t.fn \in {"awake", "start"}, t.c = None,
           NEW o, o = t.of, t.i > object[o].count, t.i > 0, Return,
           UNCHANGED <<slots, awoken, started, passedOver>>,
           \A q \in Objects : q # o => object'[q] = object[q],
           \A q \in Objects : /\ object'[q].count = object[q].count /\ object'[q].made = object[q].made
                              /\ object'[q].life = object[q].life,
           object'[o].awoken <=> object[o].awoken \/ t.fn = "awake",
           object'[o].started <=> object[o].started \/ t.fn = "start"
    PROVE  CallOrder'
  <1>1. /\ InCall = Below \cup {t} /\ InCall \subseteq Frame /\ t \in Frame /\ Below \subseteq Frame
        /\ InOrder /\ CallsSound /\ AllOnce
        /\ \A a \in Below : Fits(a, t)
        BY TopIsLast DEF CallOrder
  <1>2. IsMethod(t) /\ ~IsAdded(t) /\ o \in Objects /\ t.fn \notin CollectionLoops
    <2>1. IsMethod(t)
          BY DEF IsMethod, Methods
    <2> QED  BY <1>1, <2>1, KindsOfCalls
  <1>3. InCall' = Below /\ InOrder'
        BY <1>1, ReturnedCalls
  <1>4. /\ Sound(t) /\ InTurn(t) /\ FlagsInOrder /\ NotAdding
        /\ \A a \in Below : Sound(a) /\ InTurn(a)
        BY <1>1 DEF CallsSound
  <1>5. t.i \in Nat /\ t.i >= 1 /\ Live(o)
    <2>1. t.i \in Nat
          BY <1>1 DEF Frame
    <2> QED  BY <1>2, <1>4, <2>1 DEF Sound
  <1>6. \A a \in Below : a.of = o => /\ ~IsAdded(a) /\ a.c = None /\ Nests(a, t)
                                     /\ a.fn = "updateOf" \/ (a.fn = "start" /\ t.fn = "awake")
    <2>1. \A a \in Below : a.of = o => Nests(a, t)
          BY <1>1, <1>2 DEF Fits
    <2>2. \A a \in Below : Nests(a, t) => a.fn = "updateOf" \/ (a.fn = "start" /\ t.fn = "awake")
          BY DEF Nests
    <2> QED  BY <1>1, <1>2, <2>1, <2>2, AloneOfItsKind
  <1>7. object'[o].awoken /\ (t.fn = "awake" => ~object[o].awoken /\ ~object[o].started)
    <2>1. CASE t.fn = "awake"
      <3>1. ~object[o].awoken
            BY <1>4, <1>5, <2>1 DEF InTurn
      <3> QED  BY <1>2, <1>4, <2>1, <3>1 DEF FlagsInOrder
    <2>2. CASE t.fn = "start"
      <3>1. object[o].awoken \/ Awaking(o)
            BY <1>4, <1>5, <2>2 DEF InTurn
      <3>2. ~Awaking(o)
            BY <1>1, <1>6, <2>2 DEF Awaking
      <3> QED  BY <2>2, <3>1, <3>2
    <2> QED  BY <2>1, <2>2
  <1>8. /\ \A q \in Objects : q # o => (Awaking(q)' <=> Awaking(q)) /\ (Starting(q)' <=> Starting(q))
        /\ t.fn = "awake" => (Starting(o)' <=> Starting(o))
        BY <1>1, <1>3 DEF Awaking, Starting
  <1>9. \A a \in Below : Sound(a)' /\ InTurn(a)'
    <2> SUFFICES ASSUME NEW a \in Below PROVE Sound(a)' /\ InTurn(a)'
          OBVIOUS
    <2>1. a \in Frame /\ Sound(a) /\ InTurn(a) /\ (a.fn \notin CollectionLoops => a.of \in Objects)
          BY <1>1, <1>4, KindsOfCalls
    <2>2. Sound(a)'
      <3>1. a.fn \in CollectionLoops => ~IsAdded(a) /\ ~IsMethod(a)
            BY <2>1, KindsOfCalls
      <3> QED  BY <2>1, <3>1 DEF Sound, Live
    <2>3. a.fn \in {"awake", "start", "updateOf"} => a.of \in Objects
          BY <2>1 DEF CollectionLoops
    <2>4. CASE a.of # o
      <3>1. a.fn \in {"awake", "start", "updateOf"} =>
                 /\ object'[a.of] = object[a.of]
                 /\ Awaking(a.of)' <=> Awaking(a.of)
                 /\ Starting(a.of)' <=> Starting(a.of)
            BY <1>8, <2>3, <2>4
      <3> QED  BY <2>1, <2>2, <3>1 DEF InTurn
    <2>5. CASE a.of = o
      <3>1. a.fn = "updateOf" \/ (a.fn = "start" /\ t.fn = "awake")
            BY <1>6, <2>5
      <3>2. CASE a.fn = "updateOf"
        <4>1. a.i >= 1 => object[o].started \/ Starting(o)
              BY <2>1, <2>5, <3>2 DEF InTurn
        <4>2. a.i >= 1 => object'[o].started \/ Starting(o)'
              BY <1>8, <4>1
        <4> QED  BY <2>2, <2>5, <3>2, <4>2 DEF InTurn
      <3>3. CASE a.fn = "start" /\ t.fn = "awake"
        <4>1. ~object'[o].started /\ object'[o].awoken
              BY <1>7, <3>3
        <4> QED  BY <2>2, <2>5, <3>3, <4>1 DEF InTurn
      <3> QED  BY <3>1, <3>2, <3>3
    <2> QED  BY <2>4, <2>5
  <1>10. FlagsInOrder'
    <2> SUFFICES ASSUME NEW q \in Objects
                 PROVE  /\ object'[q].started => object'[q].awoken
                        /\ object'[q].life = "unborn" => ~object'[q].awoken
          BY DEF FlagsInOrder
    <2>1. CASE q = o
          BY <1>5, <1>7, <2>1 DEF Live
    <2>2. CASE q # o
          BY <1>4, <2>2 DEF FlagsInOrder
    <2> QED  BY <2>1, <2>2
  <1>11. NotAdding'
        BY <1>1, <1>3, <1>4 DEF NotAdding, IsAdded, IsMethod, Adds
  <1>12. CallsSound'
        BY <1>3, <1>9, <1>10, <1>11 DEF CallsSound
  <1>13. /\ awoken \in [Components -> Nat] /\ started \in [Components -> Nat]
         /\ NoneUnmade /\ OnceEach /\ \A a \in InCall : AddedOnce(a)
        BY <1>1 DEF AllOnce
  <1>14. NoneUnmade'
        BY <1>13 DEF NoneUnmade
  <1>15. \A a \in InCall' : AddedOnce(a)'
    <2> SUFFICES ASSUME NEW a \in Below PROVE AddedOnce(a)'
          BY <1>3
    <2>1. a.fn \in {"awakeAdded", "startAdded"} => IsAdded(a)
          BY DEF IsAdded, AddedCalls
    <2>2. AddedOnce(a) /\ (IsAdded(a) => object'[a.of] = object[a.of])
          BY <1>1, <1>6, <1>13, KindsOfCalls
    <2> QED  BY <2>1, <2>2 DEF AddedOnce
  <1>16. OnceEach'
    <2> SUFFICES ASSUME NEW q \in Objects, NEW p \in 1 .. object[q].count,
                        NEW x \in Components, x = slots[q][p], x \notin passedOver
                 PROVE  /\ awoken[x] = Once(Reached("awake", q, p)' \/ (object'[q].awoken /\ ~ToAwake(x)'))
                        /\ started[x] = Once(Reached("start", q, p)' \/ (object'[q].started /\ ~ToStart(x)'))
      <3>1. \A q \in Objects : \A p \in 1 .. object[q].count : slots[q][p] \in Components
            BY OwnComponents
      <3> QED  BY <3>1 DEF OnceEach, Once
    <2>1. p \in Nat /\ x[1] = q
          BY OwnComponents
    <2>2. /\ awoken[x] = Once(Reached("awake", q, p) \/ (object[q].awoken /\ ~ToAwake(x)))
          /\ started[x] = Once(Reached("start", q, p) \/ (object[q].started /\ ~ToStart(x)))
          BY <1>13 DEF OnceEach
    <2>3. (ToAwake(x)' <=> ToAwake(x)) /\ (ToStart(x)' <=> ToStart(x))
      <3>1. ~WillAwake(t, x) /\ ~WillStart(t, x)
            BY <1>2 DEF WillAwake, WillStart, IsAdded, AddedCalls
      <3> QED  BY <1>1, <1>3, <3>1 DEF ToAwake, ToStart
    <2>4. \A f \in {"awake", "start"} : q # o \/ f # t.fn => (Reached(f, q, p)' <=> Reached(f, q, p))
          BY <1>1, <1>3 DEF Reached, Reaches
    <2>5. CASE q # o
      <3>1. object'[q] = object[q]
            BY <2>5
      <3> QED  BY <2>2, <2>3, <2>4, <2>5, <3>1
    <2>6. CASE q = o
      <3>1. Reached(t.fn, o, p)
        <4>1. p < t.i
          <5>1. object[o].count \in Int
            <6>1. object[o].count \in 0 .. MaxComponents
                  BY <1>2, ArraysTyped DEF ObjectRecord
            <6> QED  BY <6>1, Positive
          <5> QED  BY <1>5, <2>1, <2>6, <5>1
        <4> QED  BY <1>1, <4>1 DEF Reached, Reaches
      <3>2. ~ToAwake(x) /\ ~ToStart(x)
        <4>1. \A a \in InCall : IsAdded(a) => Adds(a) # x
          <5>1. \A a \in Below : IsAdded(a) => a.of # o
                BY <1>6
          <5> QED  BY <1>1, <1>2, <2>1, <2>6, <5>1, KindsOfCalls
        <4>2. \A a \in InCall : a.fn = "awakeAdded" => IsAdded(a)
              BY DEF IsAdded, AddedCalls
        <4> QED  BY <4>1, <4>2 DEF ToAwake, ToStart, WillAwake, WillStart
      <3>3. CASE t.fn = "awake"
        <4>1. awoken[x] = 1 /\ object'[q].awoken
              BY <1>7, <2>2, <2>6, <3>1, <3>3 DEF Once
        <4>2. object'[q].started <=> object[q].started
              BY <2>6, <3>3
        <4>3. Reached("start", q, p)' <=> Reached("start", q, p)
              BY <2>4, <3>3
        <4> QED  BY <2>2, <2>3, <3>2, <4>1, <4>2, <4>3 DEF Once
      <3>4. CASE t.fn = "start"
        <4>1. started[x] = 1 /\ object'[q].started
              BY <2>2, <2>6, <3>1, <3>4 DEF Once
        <4>2. object'[q].awoken <=> object[q].awoken
              BY <2>6, <3>4
        <4>3. Reached("awake", q, p)' <=> Reached("awake", q, p)
              BY <2>4, <3>4
        <4> QED  BY <2>2, <2>3, <3>2, <4>1, <4>2, <4>3 DEF Once
      <3> QED  BY <3>3, <3>4
    <2> QED  BY <2>5, <2>6
  <1>17. AllOnce'
        BY <1>13, <1>14, <1>15, <1>16 DEF AllOnce
  <1> QED  BY <1>3, <1>12, <1>17 DEF CallOrder

LEMMA EndMethodKeepsOrder ==
    ASSUME Placed, Stacked, CallOrder, NEW f \in Methods, EndMethod(f)
    PROVE  CallOrder'
  <1> SUFFICES ASSUME NEW t, t = Top, NEW o, o = t.of PROVE CallOrder'
        OBVIOUS
  <1>1. stack # <<>> /\ t \in Frame /\ t.fn = f /\ t.c = None /\ t.i > object[o].count /\ t.i > 0
        BY StackShape DEF EndMethod, Quiet
  <1>2. /\ object' = [object EXCEPT ![o].awoken = @ \/ f = "awake", ![o].started = @ \/ f = "start"]
        /\ Return /\ UNCHANGED <<slots, awoken, started, passedOver>>
        BY DEF EndMethod, seen
  <1>3. IsMethod(t) /\ ~IsAdded(t) /\ o \in Objects
    <2>1. IsMethod(t)
          BY <1>1 DEF IsMethod
    <2> QED  BY <1>1, <2>1, KindsOfCalls
  <1>4. object \in [Objects -> ObjectRecord]
        BY DEF Placed, CollectionTyped
  <1>5. /\ \A q \in Objects : q # o => object'[q] = object[q]
        /\ \A q \in Objects : /\ object'[q].count = object[q].count /\ object'[q].made = object[q].made
                              /\ object'[q].life = object[q].life
        /\ object'[o].awoken <=> object[o].awoken \/ f = "awake"
        /\ object'[o].started <=> object[o].started \/ f = "start"
    <2>1. PICK u : u = (object[o].awoken \/ f = "awake")
          OBVIOUS
    <2>2. PICK v : v = (object[o].started \/ f = "start")
          OBVIOUS
    <2>3. object' = [object EXCEPT ![o].awoken = u, ![o].started = v]
          BY <1>2, <1>3, <1>4, <2>1, <2>2
    <2>4. /\ \A q \in Objects : q # o => object'[q] = object[q]
          /\ object'[o] = [object[o] EXCEPT !.awoken = u, !.started = v]
          BY <1>3, <1>4, <2>3
    <2>5. /\ object'[o].count = object[o].count /\ object'[o].made = object[o].made
          /\ object'[o].life = object[o].life /\ object'[o].awoken = u /\ object'[o].started = v
          BY <1>3, <1>4, <2>4 DEF ObjectRecord
    <2> QED  BY <2>1, <2>2, <2>4, <2>5
  <1>6. CASE f \in {"awake", "start"}
        BY <1>1, <1>2, <1>5, <1>6, FlagSet
  <1>7. CASE f \notin {"awake", "start"}
    <2>1. object' = object
          BY <1>2, <1>3, <1>4, <1>7 DEF ObjectRecord
    <2>2. InOrder /\ CallsSound /\ AllOnce
          BY DEF CallOrder
    <2>3. InOrder' /\ CallsSound' /\ InCall = Below \cup {t} /\ InCall' = Below
          BY <1>1, <1>2, <1>7, <2>1, <2>2, MovesOut
    <2>4. NoTrace(t)
          BY <1>1, <1>3, <1>7 DEF NoTrace
    <2>5. AllOnce'
          BY <1>1, <1>2, <2>1, <2>2, <2>3, <2>4, TopIsLast, Traceless
    <2> QED  BY <2>3, <2>5 DEF CallOrder
  <1> QED  BY <1>6, <1>7

(* Steps that leave the calls in progress as they are: what matters is     *)
(* what becomes of the objects that have one.                              *)
LEMMA CallsStand ==
    ASSUME Stacked, CallOrder, UNCHANGED stack,
           NEW os, \A a \in InCall : a.of \notin os,
           \A q \in Objects : q \notin os =>
                /\ slots'[q] = slots[q]
                /\ object'[q].count = object[q].count /\ object'[q].made = object[q].made
                /\ object'[q].life = object[q].life
                /\ object'[q].awoken = object[q].awoken /\ object'[q].started = object[q].started,
           \A q \in Objects : q \in os => ~object'[q].awoken /\ ~object'[q].started
    PROVE  InOrder' /\ CallsSound' /\ InCall' = InCall
  <1>1. InCall' = InCall /\ InOrder'
        BY DEF CallOrder, InCall, InOrder
  <1>2. /\ \A a \in InCall : Sound(a) /\ InTurn(a)
        /\ NotAdding /\ FlagsInOrder /\ InCall \subseteq Frame
        BY StackShape DEF CallOrder, CallsSound, InCall
  <1>3. ASSUME NEW a \in InCall PROVE Sound(a)' /\ InTurn(a)'
    <2>1. /\ a \in Frame /\ Sound(a) /\ InTurn(a) /\ (a.fn \notin CollectionLoops => a.of \in Objects)
          /\ a.fn \in CollectionLoops => ~IsAdded(a) /\ ~IsMethod(a)
          BY <1>2, KindsOfCalls
    <2>2. a.fn \notin CollectionLoops =>
                /\ slots'[a.of] = slots[a.of]
                /\ object'[a.of].count = object[a.of].count /\ object'[a.of].made = object[a.of].made
                /\ object'[a.of].life = object[a.of].life
                /\ object'[a.of].awoken = object[a.of].awoken /\ object'[a.of].started = object[a.of].started
          BY <2>1
    <2>3. Sound(a)'
          BY <2>1, <2>2 DEF Sound, Live
    <2>4. a.fn \in {"awake", "start", "updateOf"} => a.fn \notin CollectionLoops
          BY DEF CollectionLoops
    <2>5. (Awaking(a.of)' <=> Awaking(a.of)) /\ (Starting(a.of)' <=> Starting(a.of))
          BY <1>1 DEF Awaking, Starting
    <2> QED  BY <2>1, <2>2, <2>3, <2>4, <2>5 DEF InTurn
  <1>4. FlagsInOrder'
    <2> SUFFICES ASSUME NEW q \in Objects
                 PROVE  /\ object'[q].started => object'[q].awoken
                        /\ object'[q].life = "unborn" => ~object'[q].awoken
          BY DEF FlagsInOrder
    <2>1. CASE q \in os
          BY <2>1
    <2>2. CASE q \notin os
          BY <1>2, <2>2 DEF FlagsInOrder
    <2> QED  BY <2>1, <2>2
  <1>5. NotAdding'
        BY <1>1, <1>2 DEF NotAdding, IsAdded, IsMethod, Adds
  <1> QED  BY <1>1, <1>3, <1>4, <1>5 DEF CallsSound

LEMMA OrderStands ==
    ASSUME Placed, Stacked, CallOrder, UNCHANGED <<stack, slots, awoken, started>>,
           \A c \in Components : c \in passedOver => c \in passedOver',
           \A q \in Objects :
                /\ object'[q].count = object[q].count /\ object'[q].made = object[q].made
                /\ object'[q].life = object[q].life
                /\ object'[q].awoken = object[q].awoken /\ object'[q].started = object[q].started
    PROVE  CallOrder'
  <1>1. InOrder' /\ CallsSound' /\ InCall' = InCall
    <2> DEFINE os == {}
    <2>1. \A q : q \notin os
          OBVIOUS
    <2> HIDE DEF os
    <2> QED  BY <2>1, CallsStand
  <1>2. /\ awoken \in [Components -> Nat] /\ started \in [Components -> Nat]
        /\ NoneUnmade /\ OnceEach /\ \A a \in InCall : AddedOnce(a)
        BY DEF CallOrder, AllOnce
  <1>3. NoneUnmade'
        BY <1>2 DEF NoneUnmade
  <1>4. \A a \in InCall' : AddedOnce(a)'
    <2> SUFFICES ASSUME NEW a \in InCall PROVE AddedOnce(a)'
          BY <1>1
    <2>1. a.fn \in {"awakeAdded", "startAdded"} => IsAdded(a)
          BY DEF IsAdded, AddedCalls
    <2>2. a \in Frame
          BY StackShape DEF InCall
    <2>3. AddedOnce(a) /\ (IsAdded(a) => a.of \in Objects)
          BY <1>2, <2>2, KindsOfCalls
    <2> QED  BY <2>1, <2>3 DEF AddedOnce
  <1>5. OnceEach'
    <2> SUFFICES ASSUME NEW q \in Objects, NEW p \in 1 .. object[q].count,
                        NEW x \in Components, x = slots[q][p], x \notin passedOver
                 PROVE  /\ awoken[x] = Once(Reached("awake", q, p)' \/ (object'[q].awoken /\ ~ToAwake(x)'))
                        /\ started[x] = Once(Reached("start", q, p)' \/ (object'[q].started /\ ~ToStart(x)'))
      <3>1. \A q \in Objects : \A p \in 1 .. object[q].count : slots[q][p] \in Components
            BY OwnComponents
      <3> QED  BY <3>1 DEF OnceEach, Once
    <2>1. /\ awoken[x] = Once(Reached("awake", q, p) \/ (object[q].awoken /\ ~ToAwake(x)))
          /\ started[x] = Once(Reached("start", q, p) \/ (object[q].started /\ ~ToStart(x)))
          BY <1>2 DEF OnceEach
    <2>2. /\ Reached("awake", q, p)' <=> Reached("awake", q, p)
          /\ Reached("start", q, p)' <=> Reached("start", q, p)
          /\ ToAwake(x)' <=> ToAwake(x)
          /\ ToStart(x)' <=> ToStart(x)
          BY <1>1 DEF Reached, ToAwake, ToStart
    <2> QED  BY <2>1, <2>2
  <1> QED  BY <1>1, <1>2, <1>3, <1>4, <1>5 DEF CallOrder, AllOnce

LEMMA DestroyedKeepsOrder ==
    ASSUME Placed, Stacked, CallOrder, UNCHANGED stack,
           NEW os, Destroyed(os), \A a \in InCall : a.of \notin os,
           \A c \in Components : c \in passedOver => c \in passedOver'
    PROVE  CallOrder'
  <1>1. /\ \A q \in Objects : q \in os => object'[q] = [Unborn EXCEPT !.life = "dead"]
        /\ \A q \in Objects : q \notin os => object'[q] = object[q] /\ slots'[q] = slots[q]
        /\ awoken' = [c \in Components |-> IF c[1] \in os THEN 0 ELSE awoken[c]]
        /\ started' = [c \in Components |-> IF c[1] \in os THEN 0 ELSE started[c]]
        BY DEF Destroyed
  <1>2. \A q \in Objects : q \in os => /\ ~object'[q].awoken /\ ~object'[q].started
                                       /\ object'[q].count = 0 /\ object'[q].made = 0
        BY <1>1 DEF Unborn
  <1>3. InOrder' /\ CallsSound' /\ InCall' = InCall
        BY <1>1, <1>2, CallsStand
  <1>4. /\ awoken \in [Components -> Nat] /\ started \in [Components -> Nat]
        /\ NoneUnmade /\ OnceEach /\ \A a \in InCall : AddedOnce(a)
        BY DEF CallOrder, AllOnce
  <1>5. /\ awoken' \in [Components -> Nat] /\ started' \in [Components -> Nat]
        /\ \A x \in Components : x[1] \notin os => awoken'[x] = awoken[x] /\ started'[x] = started[x]
        /\ \A x \in Components : x[1] \in os => awoken'[x] = 0 /\ started'[x] = 0
        BY <1>1, <1>4
  <1>6. NoneUnmade'
    <2> SUFFICES ASSUME NEW q \in Objects, NEW j \in 1 .. MaxMade, j > object'[q].made
                 PROVE  awoken'[<<q, j>>] = 0 /\ started'[<<q, j>>] = 0
          BY DEF NoneUnmade
    <2>1. <<q, j>> \in Components /\ <<q, j>>[1] = q
          BY DEF Components
    <2>2. CASE q \in os
          BY <1>5, <2>1, <2>2
    <2>3. CASE q \notin os
      <3>1. awoken[<<q, j>>] = 0 /\ started[<<q, j>>] = 0
            BY <1>1, <1>4, <2>3 DEF NoneUnmade
      <3> QED  BY <1>5, <2>1, <2>3, <3>1
    <2> QED  BY <2>2, <2>3
  <1>7. \A a \in InCall' : AddedOnce(a)'
    <2> SUFFICES ASSUME NEW a \in InCall PROVE AddedOnce(a)'
          BY <1>3
    <2>1. a.fn \in {"awakeAdded", "startAdded"} => IsAdded(a)
          BY DEF IsAdded, AddedCalls
    <2>2. a \in Frame
          BY StackShape DEF InCall
    <2>3. /\ AddedOnce(a)
          /\ IsAdded(a) => a.of \in Objects /\ Adds(a) \in Components /\ Adds(a)[1] = a.of
          BY <1>4, <2>2, KindsOfCalls
    <2>4. IsAdded(a) => /\ object'[a.of] = object[a.of]
                        /\ awoken'[Adds(a)] = awoken[Adds(a)] /\ started'[Adds(a)] = started[Adds(a)]
          BY <1>1, <1>5, <2>3
    <2> QED  BY <2>1, <2>3, <2>4 DEF AddedOnce
  <1>8. OnceEach'
    <2> SUFFICES ASSUME NEW q \in Objects, NEW p \in 1 .. object'[q].count,
                        NEW x, x = slots'[q][p], x \notin passedOver'
                 PROVE  /\ awoken'[x] = Once(Reached("awake", q, p)' \/ (object'[q].awoken /\ ~ToAwake(x)'))
                        /\ started'[x] = Once(Reached("start", q, p)' \/ (object'[q].started /\ ~ToStart(x)'))
          BY DEF OnceEach, Once
    <2>1. q \notin os
          BY <1>2
    <2>2. object'[q] = object[q] /\ slots'[q] = slots[q]
          BY <1>1, <2>1
    <2>3. x \in Components /\ x[1] = q
          BY <2>2, OwnComponents
    <2>4. /\ awoken[x] = Once(Reached("awake", q, p) \/ (object[q].awoken /\ ~ToAwake(x)))
          /\ started[x] = Once(Reached("start", q, p) \/ (object[q].started /\ ~ToStart(x)))
          BY <1>4, <2>2, <2>3 DEF OnceEach
    <2>5. /\ Reached("awake", q, p)' <=> Reached("awake", q, p)
          /\ Reached("start", q, p)' <=> Reached("start", q, p)
          /\ ToAwake(x)' <=> ToAwake(x)
          /\ ToStart(x)' <=> ToStart(x)
          BY <1>3 DEF Reached, ToAwake, ToStart
    <2>6. awoken'[x] = awoken[x] /\ started'[x] = started[x]
          BY <1>5, <2>1, <2>3
    <2> QED  BY <2>2, <2>4, <2>5, <2>6
  <1> QED  BY <1>3, <1>5, <1>6, <1>7, <1>8 DEF CallOrder, AllOnce

LEMMA BetweenFramesKeepsOrder ==
    ASSUME Placed, Stacked, CallOrder, RemoveInactive \/ Clear
    PROVE  CallOrder'
  <1>1. stack = <<>> /\ UNCHANGED <<stack, passedOver>>
        BY DEF RemoveInactive, Clear
  <1>2. \A a \in InCall : FALSE
    <2>1. DOMAIN stack = 1 .. 0
          BY <1>1, StackShape
    <2> QED  BY <2>1 DEF InCall
  <1>3. PICK os : Destroyed(os)
        BY DEF RemoveInactive, Clear
  <1> QED  BY <1>1, <1>2, <1>3, DestroyedKeepsOrder

LEMMA DestroyKeepsOrder ==
    ASSUME Placed, Stacked, CallOrder, NEW k \in DOMAIN owned, Destroy(k)
    PROVE  CallOrder'
  <1> DEFINE os == {owned[k]}
  <1>1. Destroyed(os) /\ UNCHANGED stack
        BY DEF Destroy
  <1>2. \A a \in InCall : a.of \notin os
        BY DEF Destroy, Running, InCall
  <1>3. \A c \in Components : c \in passedOver => c \in passedOver'
        BY DEF Destroy
  <1> HIDE DEF os
  <1> QED  BY <1>1, <1>2, <1>3, DestroyedKeepsOrder

LEMMA QuietGameKeepsOrder ==
    ASSUME Placed, Stacked, CallOrder,
           \/ \E k \in DOMAIN owned : Persist(k)
           \/ \E o \in Objects : SetActive(o)
           \/ \E c \in Components : SetEnabled(c)
    PROVE  CallOrder'
  <1>1. UNCHANGED <<stack, slots, awoken, started>>
        BY DEF Persist, SetActive, SetEnabled, seen
  <1>2. \A c \in Components : c \in passedOver => c \in passedOver'
        BY DEF Persist, SetActive, SetEnabled, seen
  <1>3. \A q \in Objects :
                /\ object'[q].count = object[q].count /\ object'[q].made = object[q].made
                /\ object'[q].life = object[q].life
                /\ object'[q].awoken = object[q].awoken /\ object'[q].started = object[q].started
    <2>1. CASE object' = object
          BY <2>1
    <2>2. ASSUME NEW o \in Objects, SetActive(o)
          PROVE  \A q \in Objects :
                    /\ object'[q].count = object[q].count /\ object'[q].made = object[q].made
                    /\ object'[q].life = object[q].life
                    /\ object'[q].awoken = object[q].awoken /\ object'[q].started = object[q].started
      <3>1. PICK u : u = ~object[o].active
            OBVIOUS
      <3>2. object \in [Objects -> ObjectRecord] /\ object' = [object EXCEPT ![o].active = u]
            BY <2>2, <3>1 DEF SetActive, Placed, CollectionTyped
      <3> QED  BY <3>2 DEF ObjectRecord
    <2>3. object' = object \/ \E o \in Objects : SetActive(o)
          BY DEF Persist, SetEnabled
    <2> QED  BY <2>1, <2>2, <2>3
  <1> QED  BY <1>1, <1>2, <1>3, OrderStands

(* What a removal leaves: the components move down, and who was to be      *)
(* looked at next, and is missed, is the one that was passed over.         *)
LEMMA RemovedShape ==
    ASSUME Placed, NEW o \in Objects, NEW k \in 1 .. MaxComponents, RemoveComponent(o, k),
           NEW n, n = object[o].count, NEW s, s = slots[o]
    PROVE  /\ n \in Nat /\ n >= 1 /\ k \in 1 .. n /\ n <= MaxComponents
           /\ object'[o].count = n - 1
           /\ \A j \in 1 .. n - 1 : slots'[o][j] = IF k <= j THEN s[j + 1] ELSE s[j]
           /\ \A q \in Objects : q # o => slots'[q] = slots[q] /\ object'[q].count = object[q].count
           /\ \A q \in Objects : /\ object'[q].made = object[q].made /\ object'[q].life = object[q].life
                                 /\ object'[q].awoken = object[q].awoken /\ object'[q].started = object[q].started
           /\ \A a \in InCall : a.c # s[k]
           /\ \A c \in passedOver : c \in passedOver'
           /\ \A a \in InCall : a.fn \in {"awake", "start"} /\ a.of = o /\ Busy(a) /\ k <= a.i /\ a.i < n
                    => s[a.i + 1] \in passedOver'
  <1>1. n \in Nat /\ n >= 1 /\ k \in 1 .. n /\ n <= MaxComponents
    <2>1. n \in 0 .. MaxComponents /\ k <= n
          BY ArraysTyped DEF ObjectRecord, RemoveComponent
    <2> QED  BY <2>1, Positive
  <1>2. /\ object \in [Objects -> ObjectRecord] /\ slots \in [Objects -> [1 .. MaxComponents -> Components \cup {None}]]
        /\ DOMAIN s = 1 .. MaxComponents
        BY DEF Placed, CollectionTyped
  <1>3. /\ object' = [object EXCEPT ![o].count = n - 1]
        /\ slots' = [slots EXCEPT ![o] = [j \in DOMAIN s |-> CASE k <= j /\ j < n -> s[j + 1]
                                                              [] k < n /\ j = n  -> None
                                                              [] OTHER           -> s[j]]]
        BY DEF RemoveComponent
  <1>4. /\ object'[o].count = n - 1
        /\ \A q \in Objects : q # o => object'[q].count = object[q].count
        /\ \A q \in Objects : /\ object'[q].made = object[q].made /\ object'[q].life = object[q].life
                              /\ object'[q].awoken = object[q].awoken /\ object'[q].started = object[q].started
        BY <1>2, <1>3 DEF ObjectRecord
  <1>5. \A q \in Objects : q # o => slots'[q] = slots[q]
        BY <1>2, <1>3
  <1>6. \A j \in 1 .. n - 1 : slots'[o][j] = IF k <= j THEN s[j + 1] ELSE s[j]
    <2> TAKE j \in 1 .. n - 1
    <2>1. j \in DOMAIN s /\ j < n /\ j # n
          BY <1>1, <1>2, Positive
    <2>2. slots'[o] = [i \in DOMAIN s |-> CASE k <= i /\ i < n -> s[i + 1]
                                            [] k < n /\ i = n  -> None
                                            [] OTHER           -> s[i]]
          BY <1>2, <1>3
    <2>3. slots'[o][j] = CASE k <= j /\ j < n -> s[j + 1]
                           [] k < n /\ j = n  -> None
                           [] OTHER           -> s[j]
          BY <2>1, <2>2
    <2> QED  BY <2>1, <2>3
  <1>7. \A a \in InCall : a.c # s[k]
        BY DEF RemoveComponent, InCall
  <1>8. passedOver' = passedOver \cup {s[stack[j].i + 1] : j \in {l \in DOMAIN stack :
              /\ stack[l].fn \in {"awake", "start"} /\ stack[l].of = o
              /\ stack[l].c # None /\ k <= stack[l].i /\ stack[l].i < n}}
        BY DEF RemoveComponent
  <1>9. ASSUME NEW a \in InCall, a.fn \in {"awake", "start"}, a.of = o, Busy(a), k <= a.i, a.i < n
        PROVE  s[a.i + 1] \in passedOver'
    <2>1. PICK l \in DOMAIN stack : a = stack[l]
          BY DEF InCall
    <2> QED  BY <1>8, <1>9, <2>1 DEF Busy
  <1> QED  BY <1>1, <1>4, <1>5, <1>6, <1>7, <1>8, <1>9

LEMMA RemoveComponentKeepsOrder ==
    ASSUME Placed, Stacked, CallOrder, NEW o \in Objects, NEW k \in 1 .. MaxComponents, RemoveComponent(o, k)
    PROVE  CallOrder'
  <1> SUFFICES ASSUME NEW n, n = object[o].count, NEW s, s = slots[o] PROVE CallOrder'
        OBVIOUS
  <1>1. /\ n \in Nat /\ n >= 1 /\ k \in 1 .. n /\ n <= MaxComponents
        /\ object'[o].count = n - 1
        /\ \A j \in 1 .. n - 1 : slots'[o][j] = IF k <= j THEN s[j + 1] ELSE s[j]
        /\ \A q \in Objects : q # o => slots'[q] = slots[q] /\ object'[q].count = object[q].count
        /\ \A q \in Objects : /\ object'[q].made = object[q].made /\ object'[q].life = object[q].life
                              /\ object'[q].awoken = object[q].awoken /\ object'[q].started = object[q].started
        /\ \A a \in InCall : a.c # s[k]
        /\ \A c \in passedOver : c \in passedOver'
        /\ \A a \in InCall : a.fn \in {"awake", "start"} /\ a.of = o /\ Busy(a) /\ k <= a.i /\ a.i < n
                    => s[a.i + 1] \in passedOver'
        BY RemovedShape
  <1>2. UNCHANGED <<stack, awoken, started>> /\ (stack # <<>> => Busy(Top))
        BY DEF RemoveComponent, GameCalls, Busy
  <1>3. InCall' = InCall /\ InOrder'
        BY <1>2 DEF CallOrder, InCall, InOrder
  <1>4. /\ \A a \in InCall : Sound(a) /\ InTurn(a)
        /\ NotAdding /\ FlagsInOrder /\ InCall \subseteq Frame /\ AllOnce
        BY StackShape DEF CallOrder, CallsSound, InCall
  <1>5. ASSUME NEW a \in InCall PROVE Sound(a)' /\ InTurn(a)'
    <2>1. /\ a \in Frame /\ Sound(a) /\ InTurn(a) /\ (a.fn \notin CollectionLoops => a.of \in Objects)
          /\ a.fn \in CollectionLoops => ~IsAdded(a) /\ ~IsMethod(a)
          BY <1>4, KindsOfCalls
    <2>2. IsMethod(a) /\ Busy(a) => \E p \in 1 .. object'[a.of].count : p <= a.i /\ slots'[a.of][p] = a.c
      <3> SUFFICES ASSUME IsMethod(a), Busy(a)
                   PROVE  \E p \in 1 .. object'[a.of].count : p <= a.i /\ slots'[a.of][p] = a.c
            OBVIOUS
      <3>1. PICK p \in 1 .. object[a.of].count : p <= a.i /\ slots[a.of][p] = a.c
            BY <2>1 DEF Sound
      <3>2. CASE a.of # o
            BY <1>1, <2>1, <3>1, <3>2
      <3>3. CASE a.of = o
        <4>1. p \in 1 .. n /\ p # k /\ a.i \in Nat /\ k \in 1 .. n /\ s[p] = a.c
              BY <1>1, <2>1, <3>1, <3>3 DEF Frame
        <4>2. CASE p < k
          <5>1. p \in 1 .. n - 1 /\ ~(k <= p)
                BY <1>1, <4>1, <4>2
          <5> QED  BY <1>1, <3>1, <3>3, <4>1, <5>1
        <4>3. CASE p > k
          <5>1. p - 1 \in 1 .. n - 1 /\ k <= p - 1 /\ (p - 1) + 1 = p /\ p - 1 <= a.i
                BY <1>1, <3>1, <4>1, <4>3
          <5>2. slots'[o][p - 1] = a.c
                BY <1>1, <4>1, <5>1
          <5> QED  BY <1>1, <3>3, <5>1, <5>2
        <4> QED  BY <4>1, <4>2, <4>3
      <3> QED  BY <3>2, <3>3
    <2>3. Sound(a)'
          BY <1>1, <2>1, <2>2 DEF Sound, Live
    <2>4. a.fn \in {"awake", "start", "updateOf"} => a.fn \notin CollectionLoops
          BY DEF CollectionLoops
    <2>5. (Awaking(a.of)' <=> Awaking(a.of)) /\ (Starting(a.of)' <=> Starting(a.of))
          BY <1>3 DEF Awaking, Starting
    <2>6. InTurn(a)'
          BY <1>1, <2>1, <2>4, <2>5 DEF InTurn
    <2> QED  BY <2>3, <2>6
  <1>6. CallsSound'
    <2>1. FlagsInOrder'
          BY <1>1, <1>4 DEF FlagsInOrder
    <2>2. NotAdding'
          BY <1>3, <1>4 DEF NotAdding, IsAdded, IsMethod, Adds
    <2> QED  BY <1>3, <1>5, <2>1, <2>2 DEF CallsSound
  <1>7. /\ awoken \in [Components -> Nat] /\ started \in [Components -> Nat]
        /\ NoneUnmade /\ OnceEach /\ \A a \in InCall : AddedOnce(a)
        BY <1>4 DEF AllOnce
  <1>8. NoneUnmade'
        BY <1>1, <1>2, <1>7 DEF NoneUnmade
  <1>9. \A a \in InCall' : AddedOnce(a)'
    <2> SUFFICES ASSUME NEW a \in InCall PROVE AddedOnce(a)'
          BY <1>3
    <2>1. a.fn \in {"awakeAdded", "startAdded"} => IsAdded(a)
          BY DEF IsAdded, AddedCalls
    <2>2. AddedOnce(a) /\ (IsAdded(a) => a.of \in Objects)
          BY <1>4, <1>7, KindsOfCalls
    <2> QED  BY <1>1, <1>2, <2>1, <2>2 DEF AddedOnce
  <1>10. ASSUME NEW a \in InCall, a.fn \in {"awake", "start"}, ~Busy(a) PROVE a.i \in Nat /\ a.i <= 1
    <2>1. stack # <<>>
      <3>1. stack = <<>> => DOMAIN stack = 1 .. 0
            BY StackShape
      <3> QED  BY <3>1 DEF InCall
    <2>2. a \in Below /\ a \in Frame
          BY <1>2, <1>10, <2>1, TopIsLast
    <2>3. MayWait(a)
          BY <2>1, <2>2, TopIsLast DEF CallOrder, Fits
    <2>4. a.fn \notin CollectionLoops /\ a.fn # "updateOf"
          BY <1>10 DEF CollectionLoops
    <2> QED  BY <1>10, <2>2, <2>3, <2>4 DEF MayWait, Frame
  <1>11. ASSUME NEW f \in {"awake", "start"}, NEW p \in 1 .. n - 1, k <= p, s[p + 1] \notin passedOver'
         PROVE  Reached(f, o, p) <=> Reached(f, o, p + 1)
    <2> SUFFICES ASSUME NEW a \in InCall, a.fn = f, a.of = o
                 PROVE  Reaches(a, f, o, p) <=> Reaches(a, f, o, p + 1)
          BY DEF Reached, Reaches
    <2>1. a.i \in Nat /\ p \in Nat /\ p >= 1 /\ p < n
      <3>1. a.i \in Nat
            BY <1>4 DEF Frame
      <3>2. p \in Nat /\ p >= 1 /\ p < n
            BY <1>1
      <3> QED  BY <3>1, <3>2
    <2>2. CASE Busy(a)
      <3>1. ~(p = a.i)
            BY <1>1, <1>11, <2>1, <2>2
      <3>2. (p < a.i \/ p = a.i) <=> (p + 1 < a.i \/ p + 1 = a.i)
            BY <2>1, <3>1
      <3> QED  BY <2>2, <3>2 DEF Reaches
    <2>3. CASE ~Busy(a)
      <3>1. a.i <= 1
            BY <1>10, <2>3
      <3>2. ~(p < a.i) /\ ~(p + 1 < a.i)
            BY <2>1, <3>1
      <3> QED  BY <2>3, <3>2 DEF Reaches
    <2> QED  BY <2>2, <2>3
  <1>12. OnceEach'
    <2> SUFFICES ASSUME NEW q \in Objects, NEW p \in 1 .. object'[q].count,
                        NEW x, x = slots'[q][p], x \notin passedOver'
                 PROVE  /\ awoken[x] = Once(Reached("awake", q, p)' \/ (object'[q].awoken /\ ~ToAwake(x)'))
                        /\ started[x] = Once(Reached("start", q, p)' \/ (object'[q].started /\ ~ToStart(x)'))
          BY <1>2 DEF OnceEach, Once
    <2>1. \E r \in 1 .. object[q].count :
             /\ x = slots[q][r]
             /\ \A f \in {"awake", "start"} : Reached(f, q, p) <=> Reached(f, q, r)
      <3>1. CASE q # o
            BY <1>1, <3>1
      <3>2. CASE q = o /\ k <= p
        <4>1. p \in 1 .. n - 1 /\ p + 1 \in 1 .. n
              BY <1>1, <3>2
        <4>2. x = s[p + 1]
              BY <1>1, <3>2, <4>1
        <4> QED  BY <1>11, <3>2, <4>1, <4>2
      <3>3. CASE q = o /\ ~(k <= p)
        <4>1. p \in 1 .. n - 1 /\ p \in 1 .. n
              BY <1>1, <3>3
        <4>2. x = s[p]
              BY <1>1, <3>3, <4>1
        <4> QED  BY <3>3, <4>1, <4>2
      <3> QED  BY <3>1, <3>2, <3>3
    <2>2. PICK r \in 1 .. object[q].count :
             /\ x = slots[q][r]
             /\ \A f \in {"awake", "start"} : Reached(f, q, p) <=> Reached(f, q, r)
          BY <2>1
    <2>3. /\ awoken[x] = Once(Reached("awake", q, r) \/ (object[q].awoken /\ ~ToAwake(x)))
          /\ started[x] = Once(Reached("start", q, r) \/ (object[q].started /\ ~ToStart(x)))
      <3>1. x \notin passedOver
            BY <1>1
      <3> QED  BY <1>7, <2>2, <3>1 DEF OnceEach
    <2>4. /\ Reached("awake", q, p)' <=> Reached("awake", q, p)
          /\ Reached("start", q, p)' <=> Reached("start", q, p)
          /\ ToAwake(x)' <=> ToAwake(x)
          /\ ToStart(x)' <=> ToStart(x)
          BY <1>3 DEF Reached, ToAwake, ToStart
    <2> QED  BY <1>1, <2>2, <2>3, <2>4
  <1>13. awoken' \in [Components -> Nat] /\ started' \in [Components -> Nat]
        BY <1>2, <1>7
  <1> QED  BY <1>3, <1>6, <1>8, <1>9, <1>12, <1>13 DEF CallOrder, AllOnce

(* A new object has no call yet, and its components were never called.     *)
LEMMA SpawnedShape ==
    ASSUME Placed, Stacked, CallOrder, NEW o \in Objects, NEW n \in 0 .. 1, Spawn(o, n)
    PROVE  /\ InOrder' /\ InCall \subseteq InCall' /\ \A a \in InCall : a.of # o
           /\ \A a \in InCall' : a \in InCall \/ (a \in Frame /\ IsMethod(a) /\ a.of = o /\ a.i = 0 /\ a.c = None)
           /\ \A q \in Objects : q # o => object'[q] = object[q] /\ slots'[q] = slots[q]
           /\ object'[o].life = "live" /\ object'[o].made = n /\ object'[o].count = n
           /\ ~object'[o].awoken /\ ~object'[o].started
           /\ object[o].made = 0
           /\ \A j \in 1 .. n : slots'[o][j] = <<o, j>>
           /\ UNCHANGED <<awoken, started, passedOver>>
  <1>1. /\ GameCalls /\ object[o].life = "unborn"
        /\ object' = [object EXCEPT ![o].life = "live", ![o].count = n, ![o].made = n]
        /\ slots' = [slots EXCEPT ![o] = [j \in DOMAIN @ |-> IF j <= n THEN <<o, j>> ELSE None]]
        /\ stack' = IF initialized THEN stack \o <<Method("start", o), Method("awake", o)>> ELSE stack
        /\ UNCHANGED <<awoken, started, passedOver>>
        BY DEF Spawn
  <1>2. /\ object \in [Objects -> ObjectRecord] /\ object[o] \in ObjectRecord
        /\ slots \in [Objects -> [1 .. MaxComponents -> Components \cup {None}]]
        /\ object[o].made = 0
        BY <1>1 DEF Placed, CollectionTyped, ComponentsInPlace, Live
  <1>3. /\ \A a \in InCall : Sound(a)
        /\ FlagsInOrder /\ InCall \subseteq Frame /\ InOrder
        BY StackShape DEF CallOrder, CallsSound, InCall
  <1>4. ASSUME NEW a \in InCall PROVE a.of # o /\ MayWait(a)
    <2>1. a.of # o
      <3>1. CASE a.fn \in CollectionLoops
        <4>1. a.of = None
              BY <1>3, <3>1 DEF Frame
        <4> QED  BY <4>1, Positive
      <3>2. CASE a.fn \notin CollectionLoops
        <4>1. Live(a.of)
              BY <1>3, <3>2 DEF Sound
        <4> QED  BY <1>1, <4>1 DEF Live
      <3> QED  BY <3>1, <3>2
    <2>2. stack # <<>>
      <3>1. stack = <<>> => DOMAIN stack = 1 .. 0
            BY StackShape
      <3> QED  BY <3>1 DEF InCall
    <2>3. Busy(Top)
          BY <1>1, <2>2 DEF GameCalls, Busy
    <2>4. a = Top \/ Fits(a, Top)
          BY <1>3, <2>2, TopIsLast
    <2>5. MayWait(a)
          BY <2>3, <2>4 DEF MayWait, Fits
    <2> QED  BY <2>1, <2>5
  <1>5. /\ InOrder' /\ InCall \subseteq InCall'
        /\ \A a \in InCall' : a \in InCall \/ (a \in Frame /\ IsMethod(a) /\ a.of = o /\ a.i = 0 /\ a.c = None)
    <2>1. CASE initialized
      <3>1. InCall' = InCall \cup {Method("start", o), Method("awake", o)} /\ InOrder'
            BY <1>1, <1>3, <1>4, <2>1, SpawnCalls
      <3>2. \A m \in {"start", "awake"} :
                /\ IsMethod(Method(m, o)) /\ Method(m, o).of = o
                /\ Method(m, o).i = 0 /\ Method(m, o).c = None /\ Method(m, o) \in Frame
            BY FramesMade DEF Method, IsMethod, Methods
      <3> QED  BY <3>1, <3>2
    <2>2. CASE ~initialized
          BY <1>1, <1>3, <2>2 DEF InCall, InOrder
    <2> QED  BY <2>1, <2>2
  <1>6. /\ \A q \in Objects : q # o => object'[q] = object[q] /\ slots'[q] = slots[q]
        /\ object'[o] = [object[o] EXCEPT !.life = "live", !.count = n, !.made = n]
        BY <1>1, <1>2
  <1>7. /\ object'[o].life = "live" /\ object'[o].made = n /\ object'[o].count = n
        /\ object'[o].awoken = object[o].awoken /\ object'[o].started = object[o].started
        BY <1>2, <1>6 DEF ObjectRecord
  <1>8. ~object'[o].awoken /\ ~object'[o].started
        BY <1>1, <1>3, <1>7 DEF FlagsInOrder
  <1>9. \A j \in 1 .. n : slots'[o][j] = <<o, j>>
    <2>1. slots'[o] = [j \in DOMAIN slots[o] |-> IF j <= n THEN <<o, j>> ELSE None]
          BY <1>1, <1>2
    <2>2. \A j \in 1 .. n : j \in 1 .. MaxComponents /\ j <= n
          BY Positive
    <2> QED  BY <1>2, <2>1, <2>2
  <1> QED  BY <1>1, <1>2, <1>4, <1>5, <1>6, <1>7, <1>8, <1>9

LEMMA SpawnKeepsOrder ==
    ASSUME Placed, Stacked, CallOrder, NEW o \in Objects, NEW n \in 0 .. 1, Spawn(o, n)
    PROVE  CallOrder'
  <1>1. /\ InOrder' /\ InCall \subseteq InCall' /\ \A a \in InCall : a.of # o
        /\ \A a \in InCall' : a \in InCall \/ (a \in Frame /\ IsMethod(a) /\ a.of = o /\ a.i = 0 /\ a.c = None)
        /\ \A q \in Objects : q # o => object'[q] = object[q] /\ slots'[q] = slots[q]
        /\ object'[o].life = "live" /\ object'[o].made = n /\ object'[o].count = n
        /\ ~object'[o].awoken /\ ~object'[o].started
        /\ object[o].made = 0
        /\ \A j \in 1 .. n : slots'[o][j] = <<o, j>>
        /\ UNCHANGED <<awoken, started, passedOver>>
        BY SpawnedShape
  <1>2. /\ \A a \in InCall : Sound(a) /\ InTurn(a)
        /\ NotAdding /\ FlagsInOrder /\ InCall \subseteq Frame /\ AllOnce
        BY StackShape DEF CallOrder, CallsSound, InCall
  <1>3. /\ awoken \in [Components -> Nat] /\ started \in [Components -> Nat]
        /\ NoneUnmade /\ OnceEach /\ \A a \in InCall : AddedOnce(a)
        BY <1>2 DEF AllOnce
  <1>4. \A a \in InCall' : a \notin InCall =>
            /\ ~IsAdded(a) /\ a.fn \notin CollectionLoops /\ a.fn # "awakeAdded" /\ a.fn # "startAdded"
    <2> TAKE a \in InCall'
    <2>1. a \notin InCall => ~IsAdded(a) /\ a.fn \notin CollectionLoops
          BY <1>1, KindsOfCalls
    <2> QED  BY <2>1 DEF IsAdded, AddedCalls
  <1>5. \A q : q # o => (Awaking(q)' <=> Awaking(q)) /\ (Starting(q)' <=> Starting(q))
        BY <1>1 DEF Awaking, Starting
  <1>6. \A a \in InCall' : Sound(a)' /\ InTurn(a)'
    <2> SUFFICES ASSUME NEW a \in InCall' PROVE Sound(a)' /\ InTurn(a)'
          OBVIOUS
    <2>1. CASE a \notin InCall
      <3>1. Sound(a)'
            BY <1>1, <1>4, <2>1 DEF Sound, Live, Busy
      <3>2. InTurn(a)'
            BY <1>1, <2>1 DEF InTurn
      <3> QED  BY <3>1, <3>2
    <2>2. CASE a \in InCall
      <3>1. /\ a \in Frame /\ Sound(a) /\ InTurn(a) /\ (a.fn \notin CollectionLoops => a.of \in Objects)
            /\ a.fn \in CollectionLoops => ~IsAdded(a) /\ ~IsMethod(a)
            /\ a.of # o
            BY <1>1, <1>2, <2>2, KindsOfCalls
      <3>2. a.fn \notin CollectionLoops => object'[a.of] = object[a.of] /\ slots'[a.of] = slots[a.of]
            BY <1>1, <3>1
      <3>3. Sound(a)'
            BY <3>1, <3>2 DEF Sound, Live
      <3>4. a.fn \in {"awake", "start", "updateOf"} => a.fn \notin CollectionLoops
            BY DEF CollectionLoops
      <3>5. InTurn(a)'
            BY <1>5, <3>1, <3>2, <3>4 DEF InTurn
      <3> QED  BY <3>3, <3>5
    <2> QED  BY <2>1, <2>2
  <1>7. FlagsInOrder'
    <2> SUFFICES ASSUME NEW q \in Objects
                 PROVE  /\ object'[q].started => object'[q].awoken
                        /\ object'[q].life = "unborn" => ~object'[q].awoken
          BY DEF FlagsInOrder
    <2>1. CASE q = o
          BY <1>1, <2>1
    <2>2. CASE q # o
          BY <1>1, <1>2, <2>2 DEF FlagsInOrder
    <2> QED  BY <2>1, <2>2
  <1>8. NotAdding'
    <2> SUFFICES ASSUME NEW a \in InCall', NEW b \in InCall', IsAdded(a), IsMethod(b) PROVE b.c # Adds(a)
          BY DEF NotAdding, IsAdded, IsMethod, Adds
    <2>1. a \in InCall
          BY <1>4
    <2>2. Adds(a) # None
          BY <1>2, <2>1, KindsOfCalls
    <2>3. CASE b \in InCall
          BY <1>2, <2>1, <2>3 DEF NotAdding
    <2>4. CASE b \notin InCall
          BY <1>1, <2>2, <2>4
    <2> QED  BY <2>3, <2>4
  <1>9. CallsSound'
        BY <1>6, <1>7, <1>8 DEF CallsSound
  <1>10. NoneUnmade'
    <2> SUFFICES ASSUME NEW q \in Objects, NEW j \in 1 .. MaxMade, j > object'[q].made
                 PROVE  awoken'[<<q, j>>] = 0 /\ started'[<<q, j>>] = 0
          BY DEF NoneUnmade
    <2>1. j > object[q].made
      <3>1. CASE q = o
            BY <1>1, <3>1, Positive
      <3>2. CASE q # o
            BY <1>1, <3>2
      <3> QED  BY <3>1, <3>2
    <2> QED  BY <1>1, <1>3, <2>1 DEF NoneUnmade
  <1>11. \A a \in InCall' : AddedOnce(a)'
    <2> SUFFICES ASSUME NEW a \in InCall' PROVE AddedOnce(a)'
          OBVIOUS
    <2>1. CASE a \notin InCall
          BY <1>4, <2>1 DEF AddedOnce
    <2>2. CASE a \in InCall
      <3>1. a.fn \in {"awakeAdded", "startAdded"} => IsAdded(a)
            BY DEF IsAdded, AddedCalls
      <3>2. AddedOnce(a) /\ (IsAdded(a) => object'[a.of] = object[a.of])
            BY <1>1, <1>2, <1>3, <2>2, KindsOfCalls
      <3> QED  BY <1>1, <3>1, <3>2 DEF AddedOnce
    <2> QED  BY <2>1, <2>2
  <1>12. OnceEach'
    <2> SUFFICES ASSUME NEW q \in Objects, NEW p \in 1 .. object'[q].count,
                        NEW x, x = slots'[q][p], x \notin passedOver
                 PROVE  /\ awoken[x] = Once(Reached("awake", q, p)' \/ (object'[q].awoken /\ ~ToAwake(x)'))
                        /\ started[x] = Once(Reached("start", q, p)' \/ (object'[q].started /\ ~ToStart(x)'))
          BY <1>1 DEF OnceEach, Once
    <2>1. CASE q = o
      <3>1. p \in 1 .. n /\ p \in 1 .. MaxMade /\ p > object[o].made /\ p \in Nat /\ ~(p <= 0)
            BY <1>1, <2>1, Positive
      <3>2. x = <<o, p>> /\ awoken[x] = 0 /\ started[x] = 0
        <4>1. x = <<o, p>>
              BY <1>1, <2>1, <3>1
        <4>2. awoken[<<o, p>>] = 0 /\ started[<<o, p>>] = 0
              BY <1>3, <3>1 DEF NoneUnmade
        <4> QED  BY <4>1, <4>2
      <3>3. \A f : ~Reached(f, q, p)'
        <4>1. ASSUME NEW f, NEW a \in InCall', a.fn = f, a.of = q, p < a.i \/ (p = a.i /\ Busy(a)) PROVE FALSE
          <5>1. a.i = 0 /\ a.c = None
                BY <1>1, <2>1, <4>1
          <5> QED  BY <3>1, <4>1, <5>1
        <4> QED  BY <4>1 DEF Reached, Reaches, Busy
      <3> QED  BY <1>1, <2>1, <3>2, <3>3 DEF Once
    <2>2. CASE q # o
      <3>1. object'[q] = object[q] /\ slots'[q] = slots[q]
            BY <1>1, <2>2
      <3>2. /\ awoken[x] = Once(Reached("awake", q, p) \/ (object[q].awoken /\ ~ToAwake(x)))
            /\ started[x] = Once(Reached("start", q, p) \/ (object[q].started /\ ~ToStart(x)))
            BY <1>3, <3>1 DEF OnceEach
      <3>3. /\ Reached("awake", q, p)' <=> Reached("awake", q, p)
            /\ Reached("start", q, p)' <=> Reached("start", q, p)
            BY <1>1, <2>2 DEF Reached, Reaches
      <3>4. (ToAwake(x)' <=> ToAwake(x)) /\ (ToStart(x)' <=> ToStart(x))
            BY <1>1, <1>4 DEF ToAwake, ToStart, WillAwake, WillStart
      <3> QED  BY <3>1, <3>2, <3>3, <3>4
    <2> QED  BY <2>1, <2>2
  <1>13. AllOnce'
        BY <1>1, <1>3, <1>10, <1>11, <1>12 DEF AllOnce
  <1> QED  BY <1>1, <1>9, <1>13 DEF CallOrder

(* The game is called by a component: whatever is in progress waits.       *)
LEMMA AllWait ==
    ASSUME Stacked, InOrder, GameCalls, NEW a \in InCall
    PROVE  MayWait(a) /\ (a.fn \in {"awake", "start"} => Busy(a) \/ a.i <= 1)
  <1>1. stack # <<>>
    <2>1. stack = <<>> => DOMAIN stack = 1 .. 0
          BY StackShape
    <2> QED  BY <2>1 DEF InCall
  <1>2. Busy(Top)
        BY <1>1 DEF GameCalls, Busy
  <1>3. a = Top \/ Fits(a, Top)
        BY <1>1, TopIsLast
  <1>4. MayWait(a)
        BY <1>2, <1>3 DEF MayWait, Fits
  <1>5. a.fn \in {"awake", "start"} => a.fn \notin CollectionLoops /\ a.fn # "updateOf"
        BY DEF CollectionLoops
  <1> QED  BY <1>4, <1>5 DEF MayWait

LEMMA AddedShape ==
    ASSUME Placed, NEW o \in Objects, AddComponent(o),
           NEW n, n = object[o].count, NEW m, m = object[o].made, NEW c, c = <<o, m + 1>>
    PROVE  /\ n \in Nat /\ m \in Nat /\ n + 1 \in 1 .. MaxComponents /\ m + 1 \in 1 .. MaxMade /\ c \in Components
           /\ Live(o)
           /\ object'[o].count = n + 1 /\ object'[o].made = m + 1
           /\ \A q \in Objects : q # o => object'[q] = object[q] /\ slots'[q] = slots[q]
           /\ \A q \in Objects : /\ object'[q].life = object[q].life
                                 /\ object'[q].awoken = object[q].awoken /\ object'[q].started = object[q].started
           /\ \A j \in 1 .. n : slots'[o][j] = slots[o][j] /\ slots[o][j] # c
           /\ slots'[o][n + 1] = c
           /\ \A x \in passedOver : x \in passedOver'
           /\ \A a \in InCall : a.fn \in {"awake", "start"} /\ a.of = o /\ Busy(a) /\ a.i > n => c \in passedOver'
  <1>1. /\ Live(o) /\ n < MaxComponents /\ m < MaxMade
        /\ object' = [object EXCEPT ![o].count = @ + 1, ![o].made = @ + 1]
        /\ slots' = [slots EXCEPT ![o][n + 1] = c]
        /\ passedOver' = IF \E j \in DOMAIN stack :
                             /\ stack[j].fn \in {"awake", "start"} /\ stack[j].of = o
                             /\ stack[j].c # None /\ stack[j].i > n
                         THEN passedOver \cup {c} ELSE passedOver
        BY DEF AddComponent
  <1>2. /\ object \in [Objects -> ObjectRecord] /\ object[o] \in ObjectRecord
        /\ slots \in [Objects -> [1 .. MaxComponents -> Components \cup {None}]]
        BY DEF Placed, CollectionTyped
  <1>3. n \in 0 .. MaxComponents /\ m \in 0 .. MaxMade
        BY <1>2 DEF ObjectRecord
  <1>4. /\ n \in Nat /\ m \in Nat /\ n + 1 \in 1 .. MaxComponents /\ m + 1 \in 1 .. MaxMade
        /\ \A j \in 1 .. n : j \in 1 .. MaxComponents /\ j # n + 1
        BY <1>1, <1>3, Positive
  <1>5. c \in Components
        BY <1>4 DEF Components
  <1>6. object' = [object EXCEPT ![o] = [object[o] EXCEPT !.count = n + 1, !.made = m + 1]]
        BY <1>1, <1>2
  <1>7. object'[o] = [object[o] EXCEPT !.count = n + 1, !.made = m + 1]
        BY <1>2, <1>6
  <1>8. /\ object'[o].count = n + 1 /\ object'[o].made = m + 1 /\ object'[o].life = object[o].life
        /\ object'[o].awoken = object[o].awoken /\ object'[o].started = object[o].started
        BY <1>2, <1>7 DEF ObjectRecord
  <1>9. \A q \in Objects : q # o => object'[q] = object[q] /\ slots'[q] = slots[q]
        BY <1>1, <1>2, <1>6
  <1>10. /\ slots'[o][n + 1] = c
         /\ \A j \in 1 .. n : slots'[o][j] = slots[o][j]
    <2>1. slots'[o] = [slots[o] EXCEPT ![n + 1] = c]
          BY <1>1, <1>2
    <2>2. DOMAIN slots[o] = 1 .. MaxComponents
          BY <1>2
    <2> QED  BY <1>4, <2>1, <2>2
  <1>11. \A j \in 1 .. n : slots[o][j] # c
    <2> TAKE j \in 1 .. n
    <2>1. slots[o][j] \in Made(o, m)
          BY OwnComponents
    <2>2. PICK i \in 1 .. m : slots[o][j] = <<o, i>>
          BY <2>1 DEF Made
    <2>3. i # m + 1
          BY <1>4
    <2> QED  BY <2>2, <2>3
  <1>12. \A x \in passedOver : x \in passedOver'
        BY <1>1
  <1>13. ASSUME NEW a \in InCall, a.fn \in {"awake", "start"}, a.of = o, Busy(a), a.i > n
         PROVE  c \in passedOver'
    <2>1. PICK l \in DOMAIN stack : a = stack[l]
          BY DEF InCall
    <2> QED  BY <1>1, <1>13, <2>1 DEF Busy
  <1> QED  BY <1>1, <1>4, <1>5, <1>8, <1>9, <1>10, <1>11, <1>12, <1>13

(* The call that brings a new component up to its object's state.          *)
LEMMA AddedCall ==
    ASSUME Placed, Stacked, CallOrder, NEW o \in Objects, AddComponent(o),
           NEW m, m = object[o].made, NEW c, c = <<o, m + 1>>, NEW g, g = Added(c)
    PROVE  /\ InCall' = InCall \cup {g} /\ InOrder' /\ g \in Frame /\ IsAdded(g) /\ ~IsMethod(g) /\ ~Busy(g)
           /\ g.fn = "awakeAdded" /\ g.of = o /\ g.i = m + 1 /\ g.c = None /\ Adds(g) = c
           /\ \A a \in InCall : IsAdded(a) => Adds(a) # c
           /\ \A a \in InCall : IsMethod(a) => a.c # c
  <1>1. /\ m \in Nat /\ c \in Components /\ m + 1 \in 1 .. MaxMade
        BY AddedShape
  <1>2. /\ g.fn = "awakeAdded" /\ g.of = o /\ g.i = m + 1 /\ g.c = None
        BY DEF Added
  <1>3. IsAdded(g) /\ Adds(g) = c /\ ~Busy(g)
        BY <1>2 DEF IsAdded, AddedCalls, Adds, Busy
  <1>4. g \in Frame
    <2>1. m + 1 \in Nat
          BY <1>1
    <2>2. <<g.of, g.i>> \in Components
          BY <1>1, <1>2
    <2>3. g = [fn |-> "awakeAdded", of |-> o, i |-> m + 1, c |-> None]
          BY DEF Added
    <2> QED  BY <1>2, <2>1, <2>2, <2>3 DEF Frame, CollectionLoops, AddedCalls
  <1>5. ~IsMethod(g) /\ g.fn \notin CollectionLoops
        BY <1>3, <1>4, KindsOfCalls
  <1>6. /\ InOrder /\ InCall \subseteq Frame /\ \A a \in InCall : Sound(a)
        BY StackShape DEF CallOrder, CallsSound, InCall
  <1>7. \A a \in InCall : IsAdded(a) => Adds(a) # c
    <2> SUFFICES ASSUME NEW a \in InCall, IsAdded(a), Adds(a) = c PROVE FALSE
          OBVIOUS
    <2>1. a.of = o /\ a.i = m + 1
          BY DEF Adds
    <2>2. a.i <= m
          BY <1>6, <2>1 DEF Sound
    <2> QED  BY <1>1, <2>1, <2>2
  <1>8. \A a \in InCall : IsMethod(a) => a.c # c
    <2> SUFFICES ASSUME NEW a \in InCall, IsMethod(a), a.c = c PROVE FALSE
          OBVIOUS
    <2>1. Busy(a) /\ a.of \in Objects
          BY <1>1, <1>6, Positive, KindsOfCalls DEF Busy
    <2>2. PICK p \in 1 .. object[a.of].count : slots[a.of][p] = c
          BY <1>6, <2>1 DEF Sound
    <2>3. c[1] = a.of
          BY <2>1, <2>2, OwnComponents
    <2>4. a.of = o
          BY <2>3
    <2> QED  BY <2>2, <2>4, AddedShape
  <1>9. \A a \in InCall : Fits(a, g)
    <2> TAKE a \in InCall
    <2>1. GameCalls
          BY DEF AddComponent
    <2>2. MayWait(a)
          BY <1>6, <2>1, AllWait
    <2> QED  BY <1>3, <1>5, <1>7, <2>2 DEF Fits
  <1>10. stack' = Append(stack, g)
        BY DEF AddComponent
  <1>11. InCall' = InCall \cup {g} /\ InOrder'
        BY <1>4, <1>6, <1>9, <1>10, PushedCalls
  <1> QED  BY <1>2, <1>3, <1>4, <1>5, <1>7, <1>8, <1>11

LEMMA AddComponentKeepsOrder ==
    ASSUME Placed, Stacked, CallOrder, NEW o \in Objects, AddComponent(o)
    PROVE  CallOrder'
  <1> SUFFICES ASSUME NEW n, n = object[o].count, NEW m, m = object[o].made,
                      NEW c, c = <<o, m + 1>>, NEW g, g = Added(c)
               PROVE  CallOrder'
        OBVIOUS
  <1>1. /\ n \in Nat /\ m \in Nat /\ n + 1 \in 1 .. MaxComponents /\ m + 1 \in 1 .. MaxMade /\ c \in Components
        /\ Live(o)
        /\ object'[o].count = n + 1 /\ object'[o].made = m + 1
        /\ \A q \in Objects : q # o => object'[q] = object[q] /\ slots'[q] = slots[q]
        /\ \A q \in Objects : /\ object'[q].life = object[q].life
                              /\ object'[q].awoken = object[q].awoken /\ object'[q].started = object[q].started
        /\ \A j \in 1 .. n : slots'[o][j] = slots[o][j] /\ slots[o][j] # c
        /\ slots'[o][n + 1] = c
        /\ \A x \in passedOver : x \in passedOver'
        /\ \A a \in InCall : a.fn \in {"awake", "start"} /\ a.of = o /\ Busy(a) /\ a.i > n => c \in passedOver'
        BY AddedShape
  <1>2. /\ InCall' = InCall \cup {g} /\ InOrder' /\ g \in Frame /\ IsAdded(g) /\ ~IsMethod(g) /\ ~Busy(g)
        /\ g.fn = "awakeAdded" /\ g.of = o /\ g.i = m + 1 /\ g.c = None /\ Adds(g) = c
        /\ \A a \in InCall : IsAdded(a) => Adds(a) # c
        /\ \A a \in InCall : IsMethod(a) => a.c # c
        BY AddedCall
  <1>3. UNCHANGED <<awoken, started>> /\ GameCalls
        BY DEF AddComponent
  <1>4. /\ \A a \in InCall : Sound(a) /\ InTurn(a)
        /\ NotAdding /\ FlagsInOrder /\ InCall \subseteq Frame /\ AllOnce /\ InOrder
        BY StackShape DEF CallOrder, CallsSound, InCall
  <1>5. /\ awoken \in [Components -> Nat] /\ started \in [Components -> Nat]
        /\ NoneUnmade /\ OnceEach /\ \A a \in InCall : AddedOnce(a)
        BY <1>4 DEF AllOnce
  <1>6. awoken[c] = 0 /\ started[c] = 0
    <2>1. m + 1 > object[o].made
          BY <1>1
    <2> QED  BY <1>1, <1>5, <2>1 DEF NoneUnmade
  <1>7. \A q : (Awaking(q)' <=> Awaking(q)) /\ (Starting(q)' <=> Starting(q))
        BY <1>2 DEF Awaking, Starting
  <1>8. ASSUME NEW a \in InCall PROVE Sound(a)' /\ InTurn(a)'
    <2>1. /\ a \in Frame /\ Sound(a) /\ InTurn(a) /\ (a.fn \notin CollectionLoops => a.of \in Objects)
          /\ a.fn \in CollectionLoops => ~IsAdded(a) /\ ~IsMethod(a)
          BY <1>4, KindsOfCalls
    <2>2. IsAdded(a) => a.i <= object'[a.of].made
      <3> SUFFICES ASSUME IsAdded(a) PROVE a.i <= object'[a.of].made
            OBVIOUS
      <3>1. a.of \in Objects /\ a.i \in Nat /\ a.i <= object[a.of].made
            BY <2>1 DEF Sound, Frame
      <3>2. CASE a.of = o
            BY <1>1, <3>1, <3>2
      <3>3. CASE a.of # o
            BY <1>1, <3>1, <3>3
      <3> QED  BY <3>2, <3>3
    <2>3. IsMethod(a) /\ Busy(a) => \E p \in 1 .. object'[a.of].count : p <= a.i /\ slots'[a.of][p] = a.c
      <3> SUFFICES ASSUME IsMethod(a), Busy(a)
                   PROVE  \E p \in 1 .. object'[a.of].count : p <= a.i /\ slots'[a.of][p] = a.c
            OBVIOUS
      <3>1. PICK p \in 1 .. object[a.of].count : p <= a.i /\ slots[a.of][p] = a.c
            BY <2>1 DEF Sound
      <3>2. CASE a.of # o
            BY <1>1, <2>1, <3>1, <3>2
      <3>3. CASE a.of = o
        <4>1. p \in 1 .. n /\ p \in 1 .. n + 1
              BY <1>1, <3>1, <3>3
        <4> QED  BY <1>1, <3>1, <3>3, <4>1
      <3> QED  BY <3>2, <3>3
    <2>4. Sound(a)'
          BY <1>1, <2>1, <2>2, <2>3 DEF Sound, Live
    <2>5. a.fn \in {"awake", "start", "updateOf"} => a.fn \notin CollectionLoops
          BY DEF CollectionLoops
    <2>6. InTurn(a)'
          BY <1>1, <1>7, <2>1, <2>5 DEF InTurn
    <2> QED  BY <2>4, <2>6
  <1>9. Sound(g)' /\ InTurn(g)'
    <2>1. Live(o)'
          BY <1>1 DEF Live
    <2>2. m + 1 <= m + 1
          BY <1>1
    <2>3. Sound(g)'
          BY <1>1, <1>2, <2>1, <2>2 DEF Sound
    <2>4. InTurn(g)'
          BY <1>2 DEF InTurn
    <2> QED  BY <2>3, <2>4
  <1>10. FlagsInOrder'
        BY <1>1, <1>4 DEF FlagsInOrder
  <1>11. NotAdding'
    <2> SUFFICES ASSUME NEW a \in InCall', NEW b \in InCall', IsAdded(a), IsMethod(b) PROVE b.c # Adds(a)
          BY DEF NotAdding, IsAdded, IsMethod, Adds
    <2>1. b \in InCall
          BY <1>2
    <2>2. CASE a = g
          BY <1>2, <2>1, <2>2
    <2>3. CASE a # g
          BY <1>2, <1>4, <2>1, <2>3 DEF NotAdding
    <2> QED  BY <2>2, <2>3
  <1>12. CallsSound'
        BY <1>2, <1>8, <1>9, <1>10, <1>11 DEF CallsSound
  <1>13. NoneUnmade'
    <2> SUFFICES ASSUME NEW q \in Objects, NEW j \in 1 .. MaxMade, j > object'[q].made
                 PROVE  awoken'[<<q, j>>] = 0 /\ started'[<<q, j>>] = 0
          BY DEF NoneUnmade
    <2>1. j > object[q].made
      <3>1. CASE q = o
            BY <1>1, <3>1
      <3>2. CASE q # o
            BY <1>1, <3>2
      <3> QED  BY <3>1, <3>2
    <2> QED  BY <1>3, <1>5, <2>1 DEF NoneUnmade
  <1>14. \A a \in InCall' : AddedOnce(a)'
    <2> SUFFICES ASSUME NEW a \in InCall' PROVE AddedOnce(a)'
          OBVIOUS
    <2>1. CASE a = g
      <3>1. g.fn # "startAdded"
            BY <1>2
      <3> QED  BY <1>2, <1>3, <1>6, <2>1, <3>1 DEF AddedOnce, Once
    <2>2. CASE a \in InCall
      <3>1. a.fn \in {"awakeAdded", "startAdded"} => IsAdded(a)
            BY DEF IsAdded, AddedCalls
      <3>2. AddedOnce(a) /\ (IsAdded(a) => a.of \in Objects)
            BY <1>4, <1>5, <2>2, KindsOfCalls
      <3> QED  BY <1>1, <1>3, <3>1, <3>2 DEF AddedOnce
    <2> QED  BY <1>2, <2>1, <2>2
  <1>15. \A f \in {"awake", "start"} : \A q, p : Reached(f, q, p)' <=> Reached(f, q, p)
    <2>1. \A f \in {"awake", "start"} : \A q, p : ~Reaches(g, f, q, p)
          BY <1>2 DEF Reaches
    <2> QED  BY <1>2, <2>1 DEF Reached
  <1>16. /\ \A x : x # c => (ToAwake(x)' <=> ToAwake(x)) /\ (ToStart(x)' <=> ToStart(x))
         /\ ToAwake(c)' /\ ToStart(c)'
    <2>1. \A x : x # c => ~WillAwake(g, x) /\ ~WillStart(g, x)
          BY <1>2 DEF WillAwake, WillStart
    <2>2. WillAwake(g, c) /\ WillStart(g, c)
          BY <1>2 DEF WillAwake, WillStart
    <2> QED  BY <1>2, <2>1, <2>2 DEF ToAwake, ToStart
  <1>17. c \notin passedOver' => ~Reached("awake", o, n + 1) /\ ~Reached("start", o, n + 1)
    <2> SUFFICES ASSUME c \notin passedOver', NEW a \in InCall, a.fn \in {"awake", "start"}, a.of = o,
                        n + 1 < a.i \/ (n + 1 = a.i /\ Busy(a))
                 PROVE  FALSE
          BY DEF Reached, Reaches
    <2>1. a.i \in Nat
          BY <1>4 DEF Frame
    <2>2. Busy(a) \/ a.i <= 1
          BY <1>3, <1>4, AllWait
    <2>3. a.i > n /\ (~Busy(a) => a.i > 1)
          BY <1>1, <2>1
    <2>4. ~Busy(a)
          BY <1>1, <2>3
    <2> QED  BY <2>1, <2>2, <2>3, <2>4
  <1>18. OnceEach'
    <2> SUFFICES ASSUME NEW q \in Objects, NEW p \in 1 .. object'[q].count,
                        NEW x, x = slots'[q][p], x \notin passedOver'
                 PROVE  /\ awoken[x] = Once(Reached("awake", q, p)' \/ (object'[q].awoken /\ ~ToAwake(x)'))
                        /\ started[x] = Once(Reached("start", q, p)' \/ (object'[q].started /\ ~ToStart(x)'))
          BY <1>3 DEF OnceEach, Once
    <2>1. ASSUME p \in 1 .. object[q].count, x = slots[q][p], x # c
          PROVE  /\ awoken[x] = Once(Reached("awake", q, p)' \/ (object'[q].awoken /\ ~ToAwake(x)'))
                 /\ started[x] = Once(Reached("start", q, p)' \/ (object'[q].started /\ ~ToStart(x)'))
      <3>1. x \notin passedOver
            BY <1>1
      <3>2. /\ awoken[x] = Once(Reached("awake", q, p) \/ (object[q].awoken /\ ~ToAwake(x)))
            /\ started[x] = Once(Reached("start", q, p) \/ (object[q].started /\ ~ToStart(x)))
            BY <1>5, <2>1, <3>1 DEF OnceEach
      <3>3. /\ Reached("awake", q, p)' <=> Reached("awake", q, p)
            /\ Reached("start", q, p)' <=> Reached("start", q, p)
            BY <1>15
      <3> QED  BY <1>1, <1>16, <2>1, <3>2, <3>3
    <2>2. CASE q # o
      <3>1. p \in 1 .. object[q].count /\ x = slots[q][p]
            BY <1>1, <2>2
      <3>2. x[1] = q
            BY <3>1, OwnComponents
      <3>3. x # c
            BY <2>2, <3>2
      <3> QED  BY <2>1, <3>1, <3>3
    <2>3. CASE q = o
      <3>1. p \in 1 .. n \/ p = n + 1
            BY <1>1, <2>3
      <3>2. CASE p \in 1 .. n
            BY <1>1, <2>1, <2>3, <3>2
      <3>3. CASE p = n + 1
        <4>1. x = c
              BY <1>1, <2>3, <3>3
        <4>2. ~Reached("awake", q, p)' /\ ~Reached("start", q, p)'
              BY <1>15, <1>17, <2>3, <3>3, <4>1
        <4> QED  BY <1>6, <1>16, <4>1, <4>2 DEF Once
      <3> QED  BY <3>1, <3>2, <3>3
    <2> QED  BY <2>2, <2>3
  <1>19. AllOnce'
        BY <1>3, <1>5, <1>13, <1>14, <1>18 DEF AllOnce
  <1> QED  BY <1>2, <1>12, <1>19 DEF CallOrder

(* Of the methods of one object, only the innermost runs a component.      *)
LEMMA OneMethodRuns ==
    ASSUME Stacked, InOrder, NEW a \in InCall, NEW b \in InCall, IsMethod(a), IsMethod(b), a.of = b.of, a # b
    PROVE  \/ Nests(a, b) /\ ~Busy(a)
           \/ Nests(b, a) /\ ~Busy(b)
  <1>1. PICK k \in DOMAIN stack : a = stack[k]
        BY DEF InCall
  <1>2. PICK l \in DOMAIN stack : b = stack[l]
        BY DEF InCall
  <1>3. k < l \/ l < k
    <2>1. k # l
          BY <1>1, <1>2
    <2>2. k \in Int /\ l \in Int
          BY StackShape
    <2> QED  BY <2>1, <2>2
  <1>4. Fits(a, b) \/ Fits(b, a)
        BY <1>1, <1>2, <1>3 DEF InOrder
  <1> QED  BY <1>4 DEF Fits, Nests

LEMMA CallOrderIsEnough ==
    ASSUME Placed, Stacked, CallOrder
    PROVE  CalledInOrder
  <1>1. /\ \A a \in InCall : Sound(a) /\ InTurn(a)
        /\ NotAdding /\ FlagsInOrder /\ InCall \subseteq Frame /\ AllOnce /\ InOrder
        BY StackShape DEF CallOrder, CallsSound, InCall
  <1>2. OnceEach /\ \A a \in InCall : AddedOnce(a)
        BY <1>1 DEF AllOnce
  <1> SUFFICES ASSUME NEW a \in InCall, NEW c, c = a.c, Busy(a), c \notin passedOver
               PROVE  /\ a.fn \in {"awake", "awakeAdded"} => awoken[c] = 1 /\ started[c] = 0
                      /\ a.fn \in {"start", "startAdded"} => awoken[c] = 1 /\ started[c] = 1
                      /\ a.fn = "updateOf" => awoken[c] = 1 /\ started[c] = 1
        BY DEF CalledInOrder, InCall, Busy
  <1> SUFFICES ASSUME NEW o, o = a.of
               PROVE  /\ a.fn \in {"awake", "awakeAdded"} => awoken[c] = 1 /\ started[c] = 0
                      /\ a.fn \in {"start", "startAdded"} => awoken[c] = 1 /\ started[c] = 1
                      /\ a.fn = "updateOf" => awoken[c] = 1 /\ started[c] = 1
        OBVIOUS
  <1>3. a \in Frame /\ Sound(a) /\ InTurn(a) /\ AddedOnce(a) /\ (IsMethod(a) \/ IsAdded(a) => o \in Objects)
        BY <1>1, <1>2, KindsOfCalls
  <1>4. CASE IsAdded(a)
    <2>1. c = Adds(a) /\ o \in Objects
          BY <1>3, <1>4 DEF Sound
    <2>2. a.fn \in {"awakeAdded", "startAdded"}
          BY <1>4 DEF IsAdded, AddedCalls
    <2>3. object[o].started => object[o].awoken
          BY <1>1, <2>1 DEF FlagsInOrder
    <2> QED  BY <1>3, <2>1, <2>2, <2>3 DEF AddedOnce, Once
  <1>5. CASE IsMethod(a)
    <2>1. o \in Objects
          BY <1>3, <1>5
    <2>2. PICK p \in 1 .. object[o].count : p <= a.i /\ slots[o][p] = c
          BY <1>3, <1>5 DEF Sound
    <2>3. p \in Nat /\ p >= 1 /\ a.i \in Nat /\ a.i >= 1 /\ (p < a.i \/ p = a.i)
      <3>1. p \in Nat /\ p >= 1
            BY <2>1, OwnComponents
      <3>2. a.i \in Nat
            BY <1>3 DEF Frame
      <3> QED  BY <2>2, <3>1, <3>2
    <2>4. /\ awoken[c] = Once(Reached("awake", o, p) \/ (object[o].awoken /\ ~ToAwake(c)))
          /\ started[c] = Once(Reached("start", o, p) \/ (object[o].started /\ ~ToStart(c)))
          BY <1>2, <2>1, <2>2 DEF OnceEach
    <2>5. ~ToAwake(c) /\ ~ToStart(c)
      <3>1. \A b \in InCall : IsAdded(b) => Adds(b) # c
            BY <1>1, <1>5 DEF NotAdding
      <3>2. \A b \in InCall : b.fn = "awakeAdded" => IsAdded(b)
            BY DEF IsAdded, AddedCalls
      <3> QED  BY <3>1, <3>2 DEF ToAwake, ToStart, WillAwake, WillStart
    <2>6. object[o].started => object[o].awoken
          BY <1>1, <2>1 DEF FlagsInOrder
    <2>7. \A b \in InCall : IsMethod(b) /\ b.of = o /\ b # a => Nests(b, a) /\ ~Busy(b)
          BY <1>1, <1>5, OneMethodRuns
    <2>8. \A b \in InCall : b.fn \in {"awake", "start"} => IsMethod(b)
          BY DEF IsMethod, Methods
    <2>9. CASE a.fn = "awake"
      <3>1. Reached("awake", o, p)
            BY <2>3, <2>9 DEF Reached, Reaches
      <3>2. ~object[o].awoken /\ ~object[o].started
            BY <1>3, <2>3, <2>6, <2>9 DEF InTurn
      <3>3. ~Reached("start", o, p)
        <4> SUFFICES ASSUME NEW b \in InCall, Reaches(b, "start", o, p) PROVE FALSE
              BY DEF Reached
        <4>1. b.fn = "start" /\ b.of = o /\ b # a
              BY <2>9 DEF Reaches
        <4>2. Nests(b, a) /\ ~Busy(b)
              BY <2>7, <2>8, <4>1
        <4>3. b.i <= 1 /\ p < b.i
              BY <4>1, <4>2 DEF Nests, Reaches
        <4>4. b.i \in Nat
              BY <1>1 DEF Frame
        <4> QED  BY <2>3, <4>3, <4>4
      <3> QED  BY <2>4, <2>9, <3>1, <3>2, <3>3 DEF Once
    <2>10. CASE a.fn = "start"
      <3>1. Reached("start", o, p)
            BY <2>3, <2>10 DEF Reached, Reaches
      <3>2. ~Awaking(o)
        <4> SUFFICES ASSUME NEW b \in InCall, b.fn = "awake", b.of = o PROVE FALSE
              BY DEF Awaking
        <4>1. Nests(b, a)
              BY <2>7, <2>8, <2>10
        <4> QED  BY <4>1 DEF Nests
      <3>3. object[o].awoken
            BY <1>3, <2>3, <2>10, <3>2 DEF InTurn
      <3> QED  BY <2>4, <2>5, <2>10, <3>1, <3>3 DEF Once
    <2>11. CASE a.fn = "updateOf"
      <3>1. ~Starting(o)
        <4> SUFFICES ASSUME NEW b \in InCall, b.fn = "start", b.of = o PROVE FALSE
              BY DEF Starting
        <4>1. Nests(b, a)
              BY <2>7, <2>8, <2>11
        <4> QED  BY <2>11, <4>1 DEF Nests
      <3>2. object[o].started
            BY <1>3, <2>3, <2>11, <3>1 DEF InTurn
      <3> QED  BY <2>4, <2>5, <2>6, <2>11, <3>2 DEF Once
    <2>12. a.fn \in {"awake", "start", "updateOf", "lateUpdateOf"}
          BY <1>5 DEF IsMethod, Methods
    <2> QED  BY <2>9, <2>10, <2>11, <2>12
  <1>6. CASE ~IsMethod(a) /\ ~IsAdded(a)
    <2>1. a.fn \notin {"awake", "awakeAdded", "start", "startAdded", "updateOf"}
          BY <1>6 DEF IsMethod, IsAdded, Methods, AddedCalls
    <2> QED  BY <2>1
  <1> QED  BY <1>4, <1>5, <1>6

LEMMA InitCallOrder == CollectionInit => CallOrder
  <1> SUFFICES ASSUME CollectionInit PROVE CallOrder
        OBVIOUS
  <1>1. /\ stack = <<>> /\ object = [o \in Objects |-> Unborn]
        /\ awoken = [c \in Components |-> 0] /\ started = [c \in Components |-> 0]
        BY DEF CollectionInit
  <1>2. DOMAIN stack = {} /\ InCall = {}
    <2>1. DOMAIN <<>> = {}
          BY EmptySeq
    <2> QED  BY <1>1, <2>1 DEF InCall
  <1>3. InOrder /\ CallsSound
        BY <1>1, <1>2 DEF InOrder, CallsSound, FlagsInOrder, NotAdding, Unborn
  <1>4. NoneUnmade
        BY <1>1 DEF NoneUnmade, Components
  <1>5. \A o \in Objects : object[o].count = 0
        BY <1>1 DEF Unborn
  <1>6. OnceEach
        BY <1>5 DEF OnceEach
  <1> QED  BY <1>1, <1>2, <1>3, <1>4, <1>6 DEF CallOrder, AllOnce

LEMMA NextCallOrder ==
    ASSUME Placed, Stacked, CallOrder, [CollectionNext]_collectionVars
    PROVE  CallOrder'
  <1>1. CASE Activate \/ BeginFrame
        BY <1>1, ActivateKeepsOrder
  <1>2. ASSUME Engine PROVE CallOrder'
    <2>1. ASSUME NEW f \in CollectionLoops, Visit(f) \/ EndLoop(f) PROVE CallOrder'
          BY <2>1, VisitKeepsOrder, EndLoopKeepsOrder
    <2>2. CASE BeginObjectUpdate
          BY <2>2, BeginUpdateKeepsOrder
    <2>3. ASSUME NEW f \in Methods, Begin(f) \/ CallNext(f) \/ EndMethod(f) PROVE CallOrder'
          BY <2>3, BeginKeepsOrder, CallNextKeepsOrder, EndMethodKeepsOrder
    <2>4. CASE AwakeAdded \/ StartAdded \/ ComponentReturns
          BY <2>4, AwakeAddedKeepsOrder, StartAddedKeepsOrder, ReturnKeepsOrder
    <2> QED  BY <1>2, <2>1, <2>2, <2>3, <2>4 DEF Engine
  <1>3. ASSUME Game PROVE CallOrder'
    <2>1. ASSUME NEW o \in Objects, NEW n \in 0 .. 1, Spawn(o, n) PROVE CallOrder'
          BY <2>1, SpawnKeepsOrder
    <2>2. ASSUME NEW k \in DOMAIN owned, Destroy(k) \/ PersistFull(k) PROVE CallOrder'
          BY <2>2, DestroyKeepsOrder DEF PersistFull
    <2>3. ASSUME \/ \E k \in DOMAIN owned : Persist(k)
                 \/ \E o \in Objects : SetActive(o)
                 \/ \E c \in Components : SetEnabled(c)
          PROVE  CallOrder'
          BY <2>3, QuietGameKeepsOrder
    <2>4. ASSUME NEW o \in Objects, AddComponent(o) PROVE CallOrder'
          BY <2>4, AddComponentKeepsOrder
    <2>5. ASSUME NEW o \in Objects, NEW k \in 1 .. MaxComponents, RemoveComponent(o, k) PROVE CallOrder'
          BY <2>5, RemoveComponentKeepsOrder
    <2>6. CASE RemoveInactive \/ Clear
          BY <2>6, BetweenFramesKeepsOrder
    <2> QED  BY <1>3, <2>1, <2>2, <2>3, <2>4, <2>5, <2>6 DEF Game
  <1>4. ASSUME UNCHANGED collectionVars PROVE CallOrder'
    <2>1. UNCHANGED <<stack, object, slots, awoken, started, passedOver>>
          BY <1>4 DEF collectionVars, members, seen
    <2> QED  BY <2>1, OrderStands
  <1> QED  BY <1>1, <1>2, <1>3, <1>4 DEF CollectionNext

(* Every component is awoken once, then started once, and only then        *)
(* updated, whatever the game spawns, destroys, adds or removes from the   *)
(* callbacks of awake, start and update; but for one that a removal, or an *)
(* addition after it, put behind the loop that was to call it.             *)
THEOREM ComponentsAreCalledInOrder == CollectionSpec => []CalledInOrder
  <1>1. CollectionInit => CallOrder
        BY InitCallOrder
  <1>2. Placed /\ Stacked /\ CallOrder /\ [CollectionNext]_collectionVars => CallOrder'
        BY NextCallOrder
  <1>3. Placed /\ Stacked /\ CallOrder => CalledInOrder
        BY CallOrderIsEnough
  <1> QED  BY <1>1, <1>2, <1>3, SpecCounted, PTL DEF CollectionSpec

=============================================================================
