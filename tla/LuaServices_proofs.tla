------------------------- MODULE LuaServices_proofs -------------------------
(***************************************************************************)
(* Proofs about the two services that scripts share.  About engine.event,  *)
(* for every number of channels, subscribers and references, and whatever  *)
(* the other users of the registry do: type correctness, the bookkeeping   *)
(* of references, and what an emit calls.  About engine.store, for         *)
(* every number of owners, keys and slots: that owners stay apart and that *)
(* nothing which is kept goes unasked.                                     *)
(***************************************************************************)
EXTENDS LuaEventBus, LuaStore, SequenceTheorems, WellFoundedInduction, TLAPS

(* Ids are given once, and a subscription holds a reference.               *)
Sub(c, s) == channels[c].subs[s]

IdsGivenOnce ==
    /\ \A c \in ChannelSlots, s \in SubSlots :
            Sub(c, s).id # 0 => Sub(c, s).id < nextId /\ Sub(c, s).ref \in Refs
    /\ \A c, d \in ChannelSlots, s, t \in SubSlots :
            Sub(c, s).id # 0 /\ Sub(c, s).id = Sub(d, t).id => c = d /\ s = t

(* Handlers and emits exist with a Lua state.                              *)
NeedsLua ==
    ~armed => /\ emits = <<>>
              /\ \A c \in ChannelSlots, s \in SubSlots : Sub(c, s).id = 0

(* RefsMatch, as a relation of references and slots.                       *)
OwnedRef(r) == \E c \in ChannelSlots, s \in SubSlots : Sub(c, s) = [id |-> registry[r], ref |-> r]
OwnRefs ==
    /\ \A r \in Refs : registry[r] \notin {0, Leaked, Other} => OwnedRef(r)
    /\ \A c \in ChannelSlots, s \in SubSlots :
            Sub(c, s).id # 0 => registry[Sub(c, s).ref] = Sub(c, s).id

BusInv ==
    /\ channels \in [ChannelSlots -> [name : Names \cup {None}, subs : [SubSlots -> Subscriber]]]
    /\ nextId \in 1 .. MaxId + 1
    /\ armed \in BOOLEAN
    /\ registry \in [Refs -> 0 .. Other]
    /\ IdsGivenOnce /\ NeedsLua /\ OwnRefs

LEMMA OwnRefsMatch == BusInv => RefsMatch
<1> SUFFICES ASSUME BusInv PROVE RefsMatch
  OBVIOUS
<1>1. ASSUME NEW r \in Refs, registry[r] \notin {0, Leaked, Other}
      PROVE  \E c \in ChannelSlots, s \in SubSlots :
                channels[c].subs[s] = [id |-> registry[r], ref |-> r]
  BY <1>1 DEF BusInv, OwnRefs, OwnedRef, Sub
<1>2. ASSUME NEW r \in Refs, NEW c \in ChannelSlots, NEW s \in SubSlots,
             channels[c].subs[s].id # 0, channels[c].subs[s].ref = r
      PROVE  registry[r] = channels[c].subs[s].id
  BY <1>2 DEF BusInv, OwnRefs, Sub
<1> QED
  BY <1>1, <1>2 DEF RefsMatch

-----------------------------------------------------------------------------
LEMMA InitBus == Init => BusInv
<1> SUFFICES ASSUME Init PROVE BusInv
  OBVIOUS
<1> USE BusAssumption DEF Init
<1>1. Free \in Subscriber
  BY DEF Free, Subscriber
<1>2. NoChannel \in [name : Names \cup {None}, subs : [SubSlots -> Subscriber]]
  BY <1>1 DEF NoChannel, SubSlots
<1>3. \A c \in ChannelSlots, s \in SubSlots : Sub(c, s) = Free
  BY DEF Sub, NoChannel, SubSlots
<1>4. IdsGivenOnce /\ NeedsLua /\ OwnRefs
  BY <1>3 DEF IdsGivenOnce, NeedsLua, OwnRefs, Free
<1>5. /\ nextId \in 1 .. MaxId + 1
      /\ channels \in [ChannelSlots -> [name : Names \cup {None}, subs : [SubSlots -> Subscriber]]]
      /\ registry \in [Refs -> 0 .. Other]
  BY <1>2 DEF Other
<1> QED
  BY <1>4, <1>5 DEF BusInv

(* A subscription takes a slot that is free and a reference that is free.  *)
LEMMA OnStep ==
    ASSUME BusInv, NEW name \in Names, On(name)
    PROVE  /\ BusInv'
           /\ \E c \in ChannelSlots, s \in SubSlots, r \in Refs :
                /\ Sub(c, s).id = 0 /\ registry[r] = 0
                /\ \A d \in ChannelSlots, t \in SubSlots :
                        Sub(d, t)' = IF d = c /\ t = s THEN [id |-> nextId, ref |-> r]
                                     ELSE Sub(d, t)
                /\ \A q \in Refs : registry'[q] = IF q = r THEN nextId ELSE registry[q]
                /\ nextId \in 1 .. MaxId /\ nextId' = nextId + 1
<1> USE BusAssumption DEF BusInv
<1>1. PICK c \in FoundOrCreated(name), r \in FreeRefs :
        \E s \in LowestFree(channels[c].subs) :
            /\ channels' = [channels EXCEPT ![c].name = IF @ = None THEN Stored[name] ELSE @,
                                ![c].subs[s] = [id |-> nextId, ref |-> r]]
            /\ registry' = [registry EXCEPT ![r] = nextId]
  BY DEF On, Taken
<1>2. PICK s \in LowestFree(channels[c].subs) :
        /\ channels' = [channels EXCEPT ![c].name = IF @ = None THEN Stored[name] ELSE @,
                                ![c].subs[s] = [id |-> nextId, ref |-> r]]
        /\ registry' = [registry EXCEPT ![r] = nextId]
  BY <1>1
<1>3. /\ c \in ChannelSlots /\ s \in SubSlots /\ r \in Refs /\ registry[r] = 0
      /\ Sub(c, s).id = 0
  BY DEF FoundOrCreated, Channel, LowestFree, Sub, FreeRefs
<1>4. /\ armed /\ nextId <= MaxId /\ nextId' = nextId + 1
      /\ UNCHANGED <<armed, emits>>
  BY DEF On
<1> DEFINE new == [id |-> nextId, ref |-> r]
<1>5. new \in Subscriber /\ nextId' \in 1 .. MaxId + 1
  BY <1>3, <1>4 DEF Subscriber
<1>6. /\ channels' \in [ChannelSlots -> [name : Names \cup {None}, subs : [SubSlots -> Subscriber]]]
      /\ \A d \in ChannelSlots, t \in SubSlots :
            Sub(d, t)' = IF d = c /\ t = s THEN new ELSE Sub(d, t)
  <2> DEFINE chan == [channels[c] EXCEPT !.name = IF @ = None THEN Stored[name] ELSE @,
                                         !.subs = [@ EXCEPT ![s] = new]]
  <2>1. channels' = [channels EXCEPT ![c] = chan]
    BY <1>2, <1>3
  <2>2. channels[c] \in [name : Names \cup {None}, subs : [SubSlots -> Subscriber]]
    BY <1>3
  <2>3. Stored[name] \in Names
    OBVIOUS
  <2>4. /\ chan \in [name : Names \cup {None}, subs : [SubSlots -> Subscriber]]
        /\ chan.subs = [channels[c].subs EXCEPT ![s] = new]
    <3> DEFINE was == channels[c]
               name2 == IF was.name = None THEN Stored[name] ELSE was.name
               subs2 == [was.subs EXCEPT ![s] = new]
    <3>1. was = [name |-> was.name, subs |-> was.subs] /\ was.name \in Names \cup {None}
          /\ was.subs \in [SubSlots -> Subscriber]
      BY <2>2
    <3>2. subs2 \in [SubSlots -> Subscriber] /\ name2 \in Names \cup {None}
      BY <1>3, <1>5, <2>3, <3>1
    <3>3. chan = [was EXCEPT !.name = name2, !.subs = subs2]
      OBVIOUS
    <3> HIDE DEF was, name2, subs2, chan
    <3>4. chan = [name |-> name2, subs |-> subs2]
      BY <3>1, <3>3
    <3> QED
      BY <3>2, <3>4 DEF subs2, was
  <2>5. channels'[c] = chan /\ \A d \in ChannelSlots : d # c => channels'[d] = channels[d]
    BY <1>3, <2>1
  <2>6. \A t \in SubSlots : chan.subs[t] = IF t = s THEN new ELSE channels[c].subs[t]
    BY <1>3, <2>2, <2>4
  <2> HIDE DEF chan, new
  <2>7. \A d \in ChannelSlots, t \in SubSlots :
            Sub(d, t)' = IF d = c /\ t = s THEN new ELSE Sub(d, t)
    BY <2>5, <2>6 DEF Sub
  <2> QED
    BY <1>3, <2>1, <2>4, <2>7
<1>7. /\ registry' \in [Refs -> 0 .. Other]
      /\ registry'[r] = nextId
      /\ \A q \in Refs : q # r => registry'[q] = registry[q]
  BY <1>2, <1>3, <1>4 DEF Other
<1>8. IdsGivenOnce'
  <2>1. \A d \in ChannelSlots, t \in SubSlots : Sub(d, t).id \in Nat
    BY DEF Sub, Subscriber
  <2>2. ASSUME NEW d \in ChannelSlots, NEW t \in SubSlots, Sub(d, t)'.id # 0
        PROVE  Sub(d, t)'.id < nextId' /\ Sub(d, t)'.ref \in Refs
    BY <1>3, <1>4, <1>6, <2>1, <2>2 DEF IdsGivenOnce
  <2>3. ASSUME NEW d \in ChannelSlots, NEW e \in ChannelSlots, NEW t \in SubSlots, NEW u \in SubSlots,
               Sub(d, t)'.id # 0, Sub(d, t)'.id = Sub(e, u)'.id
        PROVE  d = e /\ t = u
    <3>1. ASSUME NEW f \in ChannelSlots, NEW v \in SubSlots
          PROVE  Sub(f, v).id # nextId
      <4>1. nextId \in Nat /\ nextId # 0
        OBVIOUS
      <4>2. Sub(f, v).id = 0 \/ Sub(f, v).id < nextId
        BY DEF IdsGivenOnce
      <4>3. Sub(f, v).id \in Nat
        BY <2>1
      <4> QED
        BY <4>1, <4>2, <4>3
    <3>2. \A f \in ChannelSlots, v \in SubSlots :
            Sub(f, v)'.id = IF f = c /\ v = s THEN nextId ELSE Sub(f, v).id
      BY <1>6
    <3>3. CASE d = c /\ t = s
      BY <2>3, <3>1, <3>2, <3>3
    <3>4. CASE e = c /\ u = s
      BY <2>3, <3>1, <3>2, <3>4
    <3>5. CASE ~(d = c /\ t = s) /\ ~(e = c /\ u = s)
      BY <2>3, <3>2, <3>5 DEF IdsGivenOnce
    <3> QED
      BY <3>3, <3>4, <3>5
  <2> QED
    BY <2>2, <2>3 DEF IdsGivenOnce
<1>9. NeedsLua'
  BY <1>4 DEF NeedsLua
<1>10. OwnRefs'
  <2>1. ASSUME NEW q \in Refs, registry'[q] \notin {0, Leaked, Other} PROVE OwnedRef(q)'
    <3>1. CASE q = r
      BY <1>3, <1>6, <1>7, <3>1 DEF OwnedRef
    <3>2. CASE q # r
      <4>1. registry[q] \notin {0, Leaked, Other} /\ registry'[q] = registry[q]
        BY <1>7, <2>1, <3>2
      <4>2. PICK d \in ChannelSlots, t \in SubSlots : Sub(d, t) = [id |-> registry[q], ref |-> q]
        BY <4>1 DEF OwnRefs, OwnedRef
      <4>3. ~(d = c /\ t = s)
        BY <1>3, <4>1, <4>2
      <4> QED
        BY <1>6, <4>1, <4>2, <4>3 DEF OwnedRef
    <3> QED
      BY <3>1, <3>2
  <2>2. ASSUME NEW d \in ChannelSlots, NEW t \in SubSlots, Sub(d, t)'.id # 0
        PROVE  registry'[Sub(d, t)'.ref] = Sub(d, t)'.id
    <3>1. CASE d = c /\ t = s
      BY <1>6, <1>7, <3>1
    <3>2. CASE ~(d = c /\ t = s)
      <4>1. Sub(d, t)' = Sub(d, t) /\ Sub(d, t).id # 0
        BY <1>6, <2>2, <3>2
      <4>2. registry[Sub(d, t).ref] = Sub(d, t).id /\ Sub(d, t).ref \in Refs
        BY <4>1 DEF OwnRefs, IdsGivenOnce
      <4> QED
        BY <1>3, <1>7, <4>1, <4>2
    <3> QED
      BY <3>1, <3>2
  <2> QED
    BY <2>1, <2>2 DEF OwnRefs, Leaked, Other
<1>11. BusInv'
  BY <1>4, <1>5, <1>6, <1>7, <1>8, <1>9, <1>10
<1>12. /\ \A q \in Refs : registry'[q] = IF q = r THEN nextId ELSE registry[q]
       /\ nextId \in 1 .. MaxId
  BY <1>3, <1>4, <1>7
<1> HIDE DEF BusInv
<1> QED
  BY <1>3, <1>4, <1>6, <1>11, <1>12

(* A subscription that goes gives back the reference it alone held.        *)
OffAt(c, s) ==
    /\ armed
    /\ channels' = [channels EXCEPT ![c].subs[s] = Free]
    /\ registry' = [registry EXCEPT ![Sub(c, s).ref] = 0]
    /\ UNCHANGED <<nextId, armed, emits>>

LEMMA OffStep ==
    ASSUME BusInv, NEW id \in 1 .. MaxId, NEW c \in ChannelSlots, NEW s \in SubSlots,
           Sub(c, s).id = id, OffAt(c, s)
    PROVE  /\ BusInv'
           /\ \A d \in ChannelSlots, t \in SubSlots :
                Sub(d, t)' = IF d = c /\ t = s THEN Free ELSE Sub(d, t)
           /\ registry'[Sub(c, s).ref] = 0
           /\ \A q \in Refs : q # Sub(c, s).ref => registry'[q] = registry[q]
<1> USE BusAssumption DEF BusInv, OffAt
<1>1. Free \in Subscriber /\ Free.id = 0
  BY DEF Free, Subscriber
<1>2. id # 0 /\ Sub(c, s).ref \in Refs
  BY DEF IdsGivenOnce
<1>3. /\ channels' \in [ChannelSlots -> [name : Names \cup {None}, subs : [SubSlots -> Subscriber]]]
      /\ \A d \in ChannelSlots, t \in SubSlots :
            Sub(d, t)' = IF d = c /\ t = s THEN Free ELSE Sub(d, t)
  <2> DEFINE chan == [channels[c] EXCEPT !.subs = [@ EXCEPT ![s] = Free]]
  <2>1. channels' = [channels EXCEPT ![c] = chan]
    OBVIOUS
  <2>2. channels[c] \in [name : Names \cup {None}, subs : [SubSlots -> Subscriber]]
    OBVIOUS
  <2>3. /\ chan \in [name : Names \cup {None}, subs : [SubSlots -> Subscriber]]
        /\ chan.subs = [channels[c].subs EXCEPT ![s] = Free]
    BY <1>1, <2>2
  <2>4. channels'[c] = chan /\ \A d \in ChannelSlots : d # c => channels'[d] = channels[d]
    BY <2>1
  <2>5. \A t \in SubSlots : chan.subs[t] = IF t = s THEN Free ELSE channels[c].subs[t]
    BY <2>2, <2>3
  <2>6. \A d \in ChannelSlots, t \in SubSlots :
            Sub(d, t)' = IF d = c /\ t = s THEN Free ELSE Sub(d, t)
    BY <2>4, <2>5 DEF Sub
  <2> QED
    BY <2>1, <2>3, <2>6
<1>4. /\ registry' \in [Refs -> 0 .. Other]
      /\ registry'[Sub(c, s).ref] = 0
      /\ \A q \in Refs : q # Sub(c, s).ref => registry'[q] = registry[q]
  BY <1>2 DEF Other
<1>5. \A d \in ChannelSlots, t \in SubSlots : Sub(d, t)'.id # 0 =>
        ~(d = c /\ t = s) /\ Sub(d, t)' = Sub(d, t)
  BY <1>1, <1>3
<1>6. IdsGivenOnce'
  <2>1. ASSUME NEW d \in ChannelSlots, NEW t \in SubSlots, Sub(d, t)'.id # 0
        PROVE  Sub(d, t)'.id < nextId' /\ Sub(d, t)'.ref \in Refs
    BY <1>5, <2>1 DEF IdsGivenOnce
  <2>2. ASSUME NEW d \in ChannelSlots, NEW e \in ChannelSlots, NEW t \in SubSlots, NEW u \in SubSlots,
               Sub(d, t)'.id # 0, Sub(d, t)'.id = Sub(e, u)'.id
        PROVE  d = e /\ t = u
    BY <1>5, <2>2 DEF IdsGivenOnce
  <2> QED
    BY <2>1, <2>2 DEF IdsGivenOnce
<1>7. NeedsLua'
  BY DEF NeedsLua
<1>8. OwnRefs'
  <2>1. ASSUME NEW q \in Refs, registry'[q] \notin {0, Leaked, Other} PROVE OwnedRef(q)'
    <3>1. q # Sub(c, s).ref /\ registry'[q] = registry[q]
      BY <1>4, <2>1
    <3>2. PICK d \in ChannelSlots, t \in SubSlots : Sub(d, t) = [id |-> registry[q], ref |-> q]
      BY <2>1, <3>1 DEF OwnRefs, OwnedRef
    <3>3. ~(d = c /\ t = s)
      BY <3>1, <3>2
    <3> QED
      BY <1>3, <3>1, <3>2, <3>3 DEF OwnedRef
  <2>2. ASSUME NEW d \in ChannelSlots, NEW t \in SubSlots, Sub(d, t)'.id # 0
        PROVE  registry'[Sub(d, t)'.ref] = Sub(d, t)'.id
    <3>1. ~(d = c /\ t = s) /\ Sub(d, t)' = Sub(d, t) /\ Sub(d, t).id # 0
      BY <1>5, <2>2
    <3>2. Sub(d, t).id # Sub(c, s).id
      BY <3>1 DEF IdsGivenOnce
    <3>3. registry[Sub(d, t).ref] = Sub(d, t).id /\ registry[Sub(c, s).ref] = Sub(c, s).id
          /\ Sub(d, t).ref \in Refs
      BY <1>2, <3>1 DEF OwnRefs, IdsGivenOnce
    <3> QED
      BY <1>4, <3>1, <3>2, <3>3
  <2> QED
    BY <2>1, <2>2 DEF OwnRefs, Leaked, Other
<1> QED
  BY <1>3, <1>4, <1>6, <1>7, <1>8

LEMMA OffIsOff ==
    ASSUME BusInv, NEW id \in 1 .. MaxId, Off(id)
    PROVE  \E c \in ChannelSlots, s \in SubSlots : Sub(c, s).id = id /\ OffAt(c, s)
<1>1. PICK c \in ChannelSlots, s \in SubSlots :
        /\ channels[c].subs[s].id = id
        /\ channels' = [channels EXCEPT ![c].subs[s] = Free]
        /\ registry' = IF armed THEN [registry EXCEPT ![channels[c].subs[s].ref] = 0]
                       ELSE registry
  BY DEF Off
<1>2. Sub(c, s).id = id /\ Sub(c, s) = channels[c].subs[s]
  BY <1>1 DEF Sub
<1>3. armed
  BY <1>2, BusAssumption DEF BusInv, NeedsLua
<1>4. UNCHANGED <<nextId, armed, emits>>
  BY DEF Off
<1> QED
  BY <1>1, <1>2, <1>3, <1>4 DEF OffAt

(* Without a Lua state nothing is subscribed: what on takes stays apart.   *)
LEMMA OnDisarmedStep == ASSUME BusInv, OnDisarmed PROVE BusInv'
<1> USE BusAssumption DEF BusInv
<1>1. PICK r \in Refs : registry[r] = 0 /\ registry' = [registry EXCEPT ![r] = Leaked]
  BY DEF OnDisarmed, FreeRefs, Taken
<1>2. ~armed /\ UNCHANGED <<channels, nextId, armed, emits>>
  BY DEF OnDisarmed
<1>3. \A c \in ChannelSlots, s \in SubSlots : Sub(c, s)' = Sub(c, s) /\ Sub(c, s).id = 0
  BY <1>2 DEF Sub, NeedsLua
<1>4. registry' \in [Refs -> 0 .. Other]
  BY <1>1 DEF Leaked, Other
<1>5. IdsGivenOnce' /\ NeedsLua'
  BY <1>2, <1>3 DEF IdsGivenOnce, NeedsLua
<1>6. OwnRefs'
  <2>1. ASSUME NEW q \in Refs, registry'[q] \notin {0, Leaked, Other} PROVE OwnedRef(q)'
    <3>1. registry'[q] = registry[q]
      BY <1>1, <2>1
    <3> QED
      BY <1>3, <2>1, <3>1 DEF OwnRefs, OwnedRef
  <2> QED
    BY <1>3, <2>1 DEF OwnRefs, Leaked, Other
<1> QED
  BY <1>2, <1>4, <1>5, <1>6

(* What is refused is given back, and the other users of the registry      *)
(* take what is free and give back what is theirs.                         *)
RefsOfOthers ==
    /\ UNCHANGED <<channels, nextId, armed, emits>>
    /\ registry' \in [Refs -> 0 .. Other]
    /\ \A r \in Refs : registry'[r] = registry[r] \/ {registry[r], registry'[r]} \subseteq {0, Other}

LEMMA OthersStep ==
    ASSUME BusInv,
           \/ \E name \in Names : OnRefused(name)
           \/ OtherTakes
           \/ \E r \in Refs : OtherGives(r)
    PROVE  RefsOfOthers
<1> USE BusAssumption DEF BusInv
<1>1. ASSUME NEW name \in Names, OnRefused(name) PROVE RefsOfOthers
  <2>1. PICK r \in Refs : registry[r] = 0 /\ registry' = [[registry EXCEPT ![r] = nextId] EXCEPT ![r] = 0]
    BY <1>1 DEF OnRefused, FreeRefs, Taken
  <2>2. registry' = registry
    BY <2>1
  <2> QED
    BY <1>1, <2>2 DEF OnRefused, RefsOfOthers
<1>2. CASE OtherTakes
  <2>1. PICK r \in Refs : registry[r] = 0 /\ registry' = [registry EXCEPT ![r] = Other]
    BY <1>2 DEF OtherTakes, FreeRefs, Taken
  <2>2. \A q \in Refs : registry'[q] = IF q = r THEN Other ELSE registry[q]
    BY <2>1
  <2>3. registry' \in [Refs -> 0 .. Other]
    BY <2>1 DEF Other
  <2> QED
    BY <1>2, <2>1, <2>2, <2>3 DEF OtherTakes, RefsOfOthers
<1>3. ASSUME NEW r \in Refs, OtherGives(r) PROVE RefsOfOthers
  <2>1. registry[r] = Other /\ registry' = [registry EXCEPT ![r] = 0]
    BY <1>3 DEF OtherGives
  <2>2. \A q \in Refs : registry'[q] = IF q = r THEN 0 ELSE registry[q]
    BY <2>1
  <2>3. registry' \in [Refs -> 0 .. Other]
    BY <2>1 DEF Other
  <2> QED
    BY <1>3, <2>1, <2>2, <2>3 DEF OtherGives, RefsOfOthers
<1> QED
  BY <1>1, <1>2, <1>3

(* No subscription holds a number of theirs.                               *)
LEMMA OthersKeepBus == ASSUME BusInv, RefsOfOthers PROVE BusInv'
<1> USE BusAssumption DEF BusInv, RefsOfOthers
<1>1. \A c, s : Sub(c, s)' = Sub(c, s)
  BY DEF Sub
<1>2. IdsGivenOnce' /\ NeedsLua'
  BY <1>1 DEF IdsGivenOnce, NeedsLua
<1>3. OwnRefs'
  <2>1. ASSUME NEW q \in Refs, registry'[q] \notin {0, Leaked, Other} PROVE OwnedRef(q)'
    <3>1. registry'[q] = registry[q]
      BY <2>1
    <3> QED
      BY <1>1, <2>1, <3>1 DEF OwnRefs, OwnedRef
  <2>2. ASSUME NEW c \in ChannelSlots, NEW s \in SubSlots, Sub(c, s)'.id # 0
        PROVE  registry'[Sub(c, s)'.ref] = Sub(c, s)'.id
    <3>1. Sub(c, s)' = Sub(c, s) /\ Sub(c, s).id # 0
      BY <1>1, <2>2
    <3>2. /\ Sub(c, s).ref \in Refs /\ registry[Sub(c, s).ref] = Sub(c, s).id
          /\ Sub(c, s).id \in 1 .. MaxId
      BY <3>1 DEF IdsGivenOnce, OwnRefs
    <3> QED
      BY <3>1, <3>2 DEF Other
  <2> QED
    BY <2>1, <2>2 DEF OwnRefs, Leaked, Other
<1> QED
  BY <1>2, <1>3

(* A clear gives back what the subscriptions hold and leaves none.         *)
LEMMA ClearStep ==
    ASSUME BusInv, emits = <<>>, ClearHandlers, UNCHANGED <<nextId, emits>>, armed' \in BOOLEAN
    PROVE  BusInv'
<1> USE BusAssumption DEF BusInv
<1>1. Free \in Subscriber /\ Free.id = 0
  BY DEF Free, Subscriber
<1>2. NoChannel \in [name : Names \cup {None}, subs : [SubSlots -> Subscriber]]
  BY <1>1 DEF NoChannel, SubSlots
<1>3. /\ channels' \in [ChannelSlots -> [name : Names \cup {None}, subs : [SubSlots -> Subscriber]]]
      /\ \A c \in ChannelSlots, s \in SubSlots : Sub(c, s)'.id = 0
  <2>1. CASE armed
    <3>1. channels' = [c \in ChannelSlots |-> NoChannel]
      BY <2>1 DEF ClearHandlers
    <3>2. \A c \in ChannelSlots, s \in SubSlots : Sub(c, s)' = Free
      BY <3>1 DEF Sub, NoChannel, SubSlots
    <3> QED
      BY <1>1, <1>2, <3>1, <3>2
  <2>2. CASE ~armed
    <3>1. channels' = channels
      BY <2>2 DEF ClearHandlers
    <3> QED
      BY <2>2, <3>1 DEF NeedsLua, Sub
  <2> QED
    BY <2>1, <2>2
<1>4. \A r \in Refs : registry'[r] = IF armed /\ \E c \in ChannelSlots, s \in SubSlots :
                                Sub(c, s).id # 0 /\ Sub(c, s).ref = r
                            THEN 0 ELSE registry[r]
  BY DEF ClearHandlers, Sub
<1>5. registry' \in [Refs -> 0 .. Other]
  BY <1>4 DEF ClearHandlers, Other
<1>6. \A r \in Refs : registry'[r] \in {0, Leaked, Other}
  <2>1. ASSUME NEW r \in Refs, registry[r] \notin {0, Leaked, Other} PROVE registry'[r] = 0
    <3>1. PICK c \in ChannelSlots, s \in SubSlots : Sub(c, s) = [id |-> registry[r], ref |-> r]
      BY <2>1 DEF OwnRefs, OwnedRef
    <3>2. Sub(c, s).id # 0 /\ Sub(c, s).ref = r
      BY <2>1, <3>1
    <3>3. armed
      BY <3>2 DEF NeedsLua
    <3> QED
      BY <1>4, <3>2, <3>3
  <2> QED
    BY <1>4, <2>1
<1>7. IdsGivenOnce'
  BY <1>3 DEF IdsGivenOnce
<1>8. NeedsLua'
  BY <1>3 DEF NeedsLua
<1>9. OwnRefs'
  BY <1>3, <1>6 DEF OwnRefs, Leaked, Other
<1> QED
  BY <1>3, <1>5, <1>7, <1>8, <1>9

(* Emits and their handlers change neither the channels nor the registry.  *)
LEMMA BusStep == BusInv /\ [Next]_vars => BusInv'
<1> SUFFICES ASSUME BusInv, [Next]_vars PROVE BusInv'
  OBVIOUS
<1>1. ASSUME NEW name \in Names, On(name) PROVE BusInv'
  BY <1>1, OnStep
<1>2. CASE OnDisarmed
  BY <1>2, OnDisarmedStep
<1>3. ASSUME NEW id \in 1 .. MaxId, Off(id) PROVE BusInv'
  BY <1>3, OffIsOff, OffStep
<1>4. CASE SetActiveScene \/ LoadScript
  <2>1. emits = <<>> /\ ClearHandlers /\ UNCHANGED <<nextId, emits>> /\ armed' \in BOOLEAN
    BY <1>4 DEF SetActiveScene, LoadScript
  <2> QED
    BY <2>1, ClearStep
<1>5. ASSUME UNCHANGED <<channels, nextId, armed, registry>>, emits' # <<>> => armed
      PROVE  BusInv'
  <2>1. \A c, s : Sub(c, s)' = Sub(c, s)
    BY <1>5 DEF Sub
  <2>2. IdsGivenOnce' /\ OwnRefs'
    BY <1>5, <2>1 DEF BusInv, IdsGivenOnce, OwnRefs, OwnedRef
  <2>3. NeedsLua'
    BY <1>5, <2>1 DEF BusInv, NeedsLua
  <2> QED
    BY <1>5, <2>2, <2>3 DEF BusInv
<1>6. ASSUME NEW name \in Names, Emit(name) PROVE BusInv'
  BY <1>5, <1>6 DEF Emit
<1>7. CASE CallNext \/ HandlerReturns \/ EmitReturns
  <2>1. emits # <<>> /\ UNCHANGED <<channels, nextId, armed, registry>>
    BY <1>7 DEF CallNext, Turn, HandlerReturns, EmitReturns
  <2>2. armed
    BY <2>1 DEF BusInv, NeedsLua
  <2> QED
    BY <1>5, <2>1, <2>2
<1>8. CASE UNCHANGED vars
  <2>1. UNCHANGED <<channels, nextId, armed, registry, emits>>
    BY <1>8 DEF vars
  <2>2. emits' # <<>> => armed
    BY <2>1 DEF BusInv, NeedsLua
  <2> QED
    BY <1>5, <2>1, <2>2
<1>9. ASSUME \/ \E name \in Names : OnRefused(name)
             \/ OtherTakes
             \/ \E r \in Refs : OtherGives(r)
      PROVE  BusInv'
  BY <1>9, OthersStep, OthersKeepBus
<1> QED
  BY <1>1, <1>2, <1>3, <1>4, <1>6, <1>7, <1>8, <1>9 DEF Next

(* The reference of a subscription is its own, whatever scripts and the    *)
(* other users of the registry do.                                         *)
THEOREM RefsAreMatched == Spec => []RefsMatch
<1>1. Init => BusInv
  BY InitBus
<1>2. BusInv /\ [Next]_vars => BusInv'
  BY BusStep
<1>3. BusInv => RefsMatch
  BY OwnRefsMatch
<1> QED
  BY <1>1, <1>2, <1>3, PTL DEF Spec

-----------------------------------------------------------------------------
(* The emits under way, and what they list.                                *)
EmitsTyped ==
    /\ emits \in Seq(Snapshot)
    /\ \A e \in 1 .. Len(emits) :
            Len(emits[e].snapshot) <= MaxSubs /\ emits[e].at <= Len(emits[e].snapshot)

LEMMA SetTopIs ==
    ASSUME EmitsTyped, emits # <<>>, NEW a \in Nat, a <= Len(Top.snapshot), NEW b \in BOOLEAN,
           SetTop(a, b)
    PROVE  /\ EmitsTyped' /\ Len(emits') = Len(emits)
           /\ Len(emits) \in Nat \ {0} /\ Top = emits[Len(emits)]
           /\ Last(emits') = emits'[Len(emits)]
           /\ emits'[Len(emits)].snapshot = Top.snapshot
           /\ emits'[Len(emits)].at = a /\ emits'[Len(emits)].calling = b
           /\ emits'[Len(emits)].from = Top.from
           /\ \A e \in 1 .. Len(emits) : e # Len(emits) => emits'[e] = emits[e]
<1>1. Len(emits) \in Nat \ {0} /\ emits \in Seq(Snapshot)
  BY EmptySeq DEF EmitsTyped
<1>2. Top = emits[Len(emits)] /\ Top \in Snapshot
  BY <1>1, ElementOfSeq DEF Top, Last
<1> DEFINE top == [Top EXCEPT !.at = a, !.calling = b]
<1>3. emits' = [emits EXCEPT ![Len(emits)] = top]
  BY <1>1, <1>2 DEF SetTop
<1>4. top \in Snapshot /\ top.snapshot = Top.snapshot /\ top.at = a /\ top.calling = b
      /\ top.from = Top.from
  BY <1>2 DEF Snapshot
<1> HIDE DEF top
<1>5. /\ emits' \in Seq(Snapshot) /\ Len(emits') = Len(emits)
      /\ \A e \in 1 .. Len(emits) : emits'[e] = IF e = Len(emits) THEN top ELSE emits[e]
  BY <1>1, <1>3, <1>4, ExceptSeq
<1>6. Last(emits') = emits'[Len(emits)]
  BY <1>5 DEF Last
<1>7. EmitsTyped'
  <2>1. Len(Top.snapshot) <= MaxSubs
    BY <1>1, <1>2 DEF EmitsTyped
  <2>2. ASSUME NEW e \in 1 .. Len(emits)
        PROVE  Len(emits'[e].snapshot) <= MaxSubs /\ emits'[e].at <= Len(emits'[e].snapshot)
    BY <1>4, <1>5, <2>1 DEF EmitsTyped
  <2> QED
    BY <1>5, <2>2 DEF EmitsTyped
<1> QED
  BY <1>1, <1>2, <1>4, <1>5, <1>6, <1>7

LEMMA EmitIs ==
    ASSUME BusInv, EmitsTyped, NEW name \in Names, Emit(name)
    PROVE  /\ EmitsTyped' /\ Len(emits') = Len(emits) + 1 /\ Len(emits) \in Nat
           /\ \A e \in 1 .. Len(emits) : emits'[e] = emits[e]
           /\ emits'[Len(emits) + 1].from = nextId
           /\ LET snapshot == emits'[Len(emits) + 1].snapshot IN
              \A k \in 1 .. Len(snapshot) : snapshot[k].id # 0 /\
                \E c \in ChannelSlots, s \in SubSlots : Sub(c, s) = snapshot[k]
<1> USE BusAssumption
<1>1. PICK c \in Channel(name), n \in 0 .. MaxSubs : \E slot \in [1 .. n -> SubSlots] :
        /\ \A s \in SubSlots : channels[c].subs[s].id # 0 <=> \E k \in 1 .. n : slot[k] = s
        /\ emits' = Append(emits, [snapshot |-> [k \in 1 .. n |-> channels[c].subs[slot[k]]],
                                  at |-> 0, calling |-> FALSE, from |-> nextId])
  BY DEF Emit
<1>2. PICK slot \in [1 .. n -> SubSlots] :
        /\ \A s \in SubSlots : channels[c].subs[s].id # 0 <=> \E k \in 1 .. n : slot[k] = s
        /\ emits' = Append(emits, [snapshot |-> [k \in 1 .. n |-> channels[c].subs[slot[k]]],
                                  at |-> 0, calling |-> FALSE, from |-> nextId])
  BY <1>1
<1>3. c \in ChannelSlots
  BY DEF Channel
<1> DEFINE snapshot == [k \in 1 .. n |-> channels[c].subs[slot[k]]]
           new == [snapshot |-> snapshot, at |-> 0, calling |-> FALSE, from |-> nextId]
<1>4. \A k \in 1 .. n : /\ snapshot[k] \in Subscriber /\ snapshot[k].id # 0
                        /\ slot[k] \in SubSlots /\ Sub(c, slot[k]) = snapshot[k]
  <2>1. ASSUME NEW k \in 1 .. n
        PROVE  /\ channels[c].subs[slot[k]] \in Subscriber /\ channels[c].subs[slot[k]].id # 0
               /\ slot[k] \in SubSlots
    <3>1. slot[k] \in SubSlots
      BY <1>2
    <3>2. channels[c].subs \in [SubSlots -> Subscriber]
      BY <1>3 DEF BusInv
    <3> QED
      BY <1>2, <3>1, <3>2
  <2> QED
    BY <2>1 DEF Sub
<1>5. snapshot \in Seq(Subscriber) /\ Len(snapshot) = n
  <2>1. snapshot \in [1 .. n -> Subscriber]
    BY <1>4
  <2> QED
    BY <2>1
<1>6. new \in Snapshot /\ new.snapshot = snapshot /\ new.at = 0 /\ new.from = nextId
  BY <1>5 DEF Snapshot, BusInv
<1>7. emits' = Append(emits, new)
  BY <1>2
<1> HIDE DEF new
<1>8. /\ emits' \in Seq(Snapshot) /\ Len(emits') = Len(emits) + 1 /\ Len(emits) \in Nat
      /\ \A e \in 1 .. Len(emits) : emits'[e] = emits[e]
      /\ emits'[Len(emits) + 1] = new
  BY <1>6, <1>7, AppendProperties DEF EmitsTyped
<1>9. EmitsTyped'
  <2>1. ASSUME NEW e \in 1 .. Len(emits')
        PROVE  Len(emits'[e].snapshot) <= MaxSubs /\ emits'[e].at <= Len(emits'[e].snapshot)
    <3>1. CASE e = Len(emits) + 1
      BY <1>5, <1>6, <1>8, <3>1
    <3>2. CASE e # Len(emits) + 1
      <4>1. e \in 1 .. Len(emits) /\ emits'[e] = emits[e]
        BY <1>8, <3>2
      <4> QED
        BY <4>1 DEF EmitsTyped
    <3> QED
      BY <3>1, <3>2
  <2> QED
    BY <1>8, <2>1 DEF EmitsTyped
<1>10. \A k \in 1 .. Len(snapshot) : snapshot[k].id # 0 /\
            \E d \in ChannelSlots, s \in SubSlots : Sub(d, s) = snapshot[k]
  BY <1>3, <1>4, <1>5
<1> QED
  BY <1>6, <1>8, <1>9, <1>10

LEMMA EmitReturnsIs ==
    ASSUME EmitsTyped, EmitReturns
    PROVE  /\ EmitsTyped' /\ Len(emits') = Len(emits) - 1
           /\ \A e \in 1 .. Len(emits') : emits'[e] = emits[e] /\ e \in 1 .. Len(emits)
<1>1. emits # <<>> /\ emits' = SubSeq(emits, 1, Len(emits) - 1)
  BY DEF EmitReturns, Front
<1>2. Len(emits) \in Nat \ {0} /\ emits \in Seq(Snapshot)
  BY <1>1, EmptySeq DEF EmitsTyped
<1>3. /\ emits' \in Seq(Snapshot) /\ Len(emits') = Len(emits) - 1
      /\ \A e \in 1 .. Len(emits) - 1 : emits'[e] = emits[e]
  <2>1. \A e \in 1 .. Len(emits) - 1 : emits[e] \in Snapshot
    BY <1>2, ElementOfSeq
  <2>2. Len(emits) - 1 \in Int /\ 1 \in Int
    BY <1>2
  <2> DEFINE n == Len(emits) - 1
  <2>3. /\ SubSeq(emits, 1, n) \in Seq(Snapshot)
        /\ Len(SubSeq(emits, 1, n)) = IF 1 <= n THEN n - 1 + 1 ELSE 0
        /\ \A e \in 1 .. n - 1 + 1 : SubSeq(emits, 1, n)[e] = emits[1 + e - 1]
    BY <2>1, <2>2, SubSeqProperties
  <2>4. n \in Nat /\ n - 1 + 1 = n /\ \A e \in 1 .. n : 1 + e - 1 = e
    BY <1>2
  <2> QED
    BY <1>1, <1>2, <2>3, <2>4
<1>4. EmitsTyped'
  BY <1>2, <1>3 DEF EmitsTyped
<1> QED
  BY <1>2, <1>3, <1>4

(* Only these steps and none but they change the emits.                    *)
LEMMA EmitsChange ==
    ASSUME BusInv, EmitsTyped, [Next]_vars
    PROVE  \/ UNCHANGED emits
           \/ \E name \in Names : Emit(name)
           \/ CallNext \/ HandlerReturns \/ EmitReturns
<1>1. ASSUME NEW name \in Names, On(name) PROVE UNCHANGED emits
  BY <1>1 DEF On
<1>2. ASSUME NEW id \in 1 .. MaxId, Off(id) PROVE UNCHANGED emits
  BY <1>2 DEF Off
<1>3. OnDisarmed \/ OtherTakes \/ SetActiveScene \/ LoadScript \/ UNCHANGED vars
            => UNCHANGED emits
  BY DEF OnDisarmed, OtherTakes, SetActiveScene, LoadScript, vars
<1>4. /\ \A name \in Names : OnRefused(name) => UNCHANGED emits
      /\ \A r \in Refs : OtherGives(r) => UNCHANGED emits
  BY DEF OnRefused, OtherGives
<1> QED
  BY <1>1, <1>2, <1>3, <1>4 DEF Next

(* What the innermost emit looks at next, and what its step leaves.        *)
LEMMA TopIs ==
    ASSUME EmitsTyped, emits # <<>>
    PROVE  /\ Len(emits) \in Nat \ {0} /\ Top = emits[Len(emits)] /\ Top \in Snapshot
           /\ Top.at \in Nat /\ Top.calling \in BOOLEAN /\ Len(Top.snapshot) \in Nat
           /\ Top.at <= Len(Top.snapshot)
<1>1. Len(emits) \in Nat \ {0} /\ emits \in Seq(Snapshot)
  BY EmptySeq DEF EmitsTyped
<1>2. Top = emits[Len(emits)] /\ Top \in Snapshot
  BY <1>1, ElementOfSeq DEF Top, Last
<1>3. Top.at \in Nat /\ Top.calling \in BOOLEAN /\ Top.snapshot \in Seq(Subscriber)
  BY <1>2 DEF Snapshot
<1>4. Len(Top.snapshot) \in Nat
  BY <1>3, LenProperties
<1> QED
  BY <1>1, <1>2, <1>3, <1>4 DEF EmitsTyped

LEMMA CallNextIs ==
    ASSUME EmitsTyped, CallNext
    PROVE  /\ emits # <<>> /\ ~Top.calling /\ Top.at + 1 \in 1 .. Len(Top.snapshot)
           /\ \/ registry[Top.snapshot[Top.at + 1].ref] # 0 /\ SetTop(Top.at + 1, TRUE)
              \/ /\ registry[Top.snapshot[Top.at + 1].ref] \in {0, Other}
                 /\ SetTop(Top.at + 1, FALSE)
           /\ UNCHANGED <<channels, nextId, armed, registry>>
<1>1. emits # <<>> /\ ~Top.calling /\ Top.at < Len(Top.snapshot)
  BY DEF CallNext, Turn
<1>2. Top.at + 1 \in 1 .. Len(Top.snapshot)
  BY <1>1, TopIs
<1> QED
  BY <1>1, <1>2 DEF CallNext

LEMMA StepEmitsTyped == BusInv /\ EmitsTyped /\ [Next]_vars => EmitsTyped'
<1> SUFFICES ASSUME BusInv, EmitsTyped, [Next]_vars PROVE EmitsTyped'
  OBVIOUS
<1>1. CASE UNCHANGED emits
  BY <1>1 DEF EmitsTyped
<1>2. ASSUME NEW name \in Names, Emit(name) PROVE EmitsTyped'
  BY <1>2, EmitIs
<1>3. CASE CallNext
  <2>1. /\ emits # <<>> /\ Top.at + 1 \in 1 .. Len(Top.snapshot)
        /\ SetTop(Top.at + 1, TRUE) \/ SetTop(Top.at + 1, FALSE)
    BY <1>3, CallNextIs
  <2>2. Top.at + 1 \in Nat /\ Top.at + 1 <= Len(Top.snapshot)
    BY <2>1, TopIs
  <2> QED
    BY <2>1, <2>2, SetTopIs
<1>4. CASE HandlerReturns
  <2>1. emits # <<>> /\ SetTop(Top.at, FALSE)
    BY <1>4 DEF HandlerReturns
  <2> QED
    BY <2>1, TopIs, SetTopIs
<1>5. CASE EmitReturns
  BY <1>5, EmitReturnsIs
<1> QED
  BY <1>1, <1>2, <1>3, <1>4, <1>5, EmitsChange

(* Every variable of the bus holds a value its declaration allows, and an  *)
(* emit reads its snapshot within its bounds.                              *)
THEOREM TypeCorrect == Spec => []TypeOK
<1>1. Init => BusInv /\ EmitsTyped
  <2>1. Init => EmitsTyped
    BY EmptySeq DEF Init, EmitsTyped
  <2> QED
    BY <2>1, InitBus
<1>2. BusInv /\ EmitsTyped /\ [Next]_vars => BusInv' /\ EmitsTyped'
  BY BusStep, StepEmitsTyped
<1>3. BusInv /\ EmitsTyped => TypeOK
  <2> SUFFICES ASSUME BusInv, EmitsTyped PROVE TypeOK
    OBVIOUS
  <2>1. emits \in Seq(Snapshot) /\ DOMAIN emits = 1 .. Len(emits)
    BY LenProperties DEF EmitsTyped
  <2> QED
    BY <2>1 DEF BusInv, EmitsTyped, TypeOK
<1> QED
  BY <1>1, <1>2, <1>3, PTL DEF Spec

-----------------------------------------------------------------------------
(* What an emit has yet to call, with the first id that was not given when *)
(* it began: subscribed as it was listed, or gone, and its number free or  *)
(* taken since.                                                            *)
Present(sub) == \E c \in ChannelSlots, s \in SubSlots : Sub(c, s) = sub
Since(from) == {Other} \cup (from .. MaxId)
Gone(sub, from) == ~Subscribed(sub.id) /\ registry[sub.ref] \in {0} \cup Since(from)
Sound(sub, from) ==
    /\ from \in Nat /\ from <= nextId
    /\ sub.id \in 1 .. MaxId /\ sub.id < from /\ sub.ref \in Refs
    /\ Present(sub) \/ Gone(sub, from)

AheadOf(sub, from) ==
    \E e \in 1 .. Len(emits) :
        /\ emits[e].from = from
        /\ \E k \in 1 .. Len(emits[e].snapshot) :
                k > emits[e].at /\ emits[e].snapshot[k] = sub
AheadSound == \A sub, from : AheadOf(sub, from) => Sound(sub, from)

EmitInv == BusInv /\ EmitsTyped /\ AheadSound

(* A listed subscription that is still there keeps its reference.          *)
LEMMA SoundRef ==
    ASSUME BusInv, NEW sub, NEW from, Sound(sub, from)
    PROVE  \/ registry[sub.ref] = sub.id /\ sub.id \in 1 .. MaxId
           \/ Gone(sub, from)
<1>1. CASE Present(sub)
  <2>1. PICK c \in ChannelSlots, s \in SubSlots : Sub(c, s) = sub
    BY <1>1 DEF Present
  <2>2. registry[sub.ref] = sub.id
    BY <2>1 DEF BusInv, OwnRefs, Sound
  <2> QED
    BY <2>2 DEF Sound
<1>2. CASE ~Present(sub)
  BY <1>2 DEF Sound
<1> QED
  BY <1>1, <1>2

(* An emit comes to look at no more than it listed when it began.          *)
LEMMA AheadBefore ==
    ASSUME BusInv, EmitsTyped, [Next]_vars, NEW sub, NEW from, AheadOf(sub, from)'
    PROVE  \/ AheadOf(sub, from)
           \/ /\ sub.id # 0 /\ Present(sub) /\ from = nextId
              /\ \E name \in Names : Emit(name)
<1>1. PICK e \in 1 .. Len(emits') :
        /\ emits'[e].from = from
        /\ \E k \in 1 .. Len(emits'[e].snapshot) :
                k > emits'[e].at /\ emits'[e].snapshot[k] = sub
  BY DEF AheadOf
<1>2. PICK k \in 1 .. Len(emits'[e].snapshot) :
        k > emits'[e].at /\ emits'[e].snapshot[k] = sub
  BY <1>1
<1>3. ASSUME e \in 1 .. Len(emits), emits'[e].snapshot = emits[e].snapshot,
             emits'[e].from = emits[e].from, k > emits[e].at
      PROVE  AheadOf(sub, from)
  BY <1>1, <1>2, <1>3 DEF AheadOf
<1>4. CASE UNCHANGED emits
  BY <1>1, <1>2, <1>3, <1>4
<1>5. ASSUME NEW name \in Names, Emit(name)
      PROVE  AheadOf(sub, from) \/ (sub.id # 0 /\ Present(sub) /\ from = nextId)
  <2>1. CASE e = Len(emits) + 1
    BY <1>1, <1>2, <1>5, <2>1, EmitIs DEF Present
  <2>2. CASE e # Len(emits) + 1
    <3>1. e \in 1 .. Len(emits) /\ emits'[e] = emits[e]
      BY <1>5, <2>2, EmitIs
    <3> QED
      BY <1>2, <1>3, <3>1
  <2> QED
    BY <2>1, <2>2
<1>6. ASSUME emits # <<>>, NEW a \in Nat, a <= Len(Top.snapshot), a >= Top.at,
             NEW b \in BOOLEAN, SetTop(a, b)
      PROVE  AheadOf(sub, from)
  <2>1. /\ Len(emits') = Len(emits) /\ Top = emits[Len(emits)]
        /\ emits'[Len(emits)].snapshot = Top.snapshot /\ emits'[Len(emits)].at = a
        /\ emits'[Len(emits)].from = Top.from
        /\ \A f \in 1 .. Len(emits) : f # Len(emits) => emits'[f] = emits[f]
    BY <1>6, SetTopIs
  <2>2. CASE e = Len(emits)
    <3>1. k > emits[e].at
      BY <1>2, <1>6, <2>1, <2>2, TopIs
    <3> QED
      BY <1>3, <2>1, <2>2, <3>1
  <2>3. CASE e # Len(emits)
    BY <1>2, <1>3, <2>1, <2>3
  <2> QED
    BY <2>2, <2>3
<1>7. CASE CallNext
  <2>1. /\ emits # <<>> /\ Top.at + 1 \in 1 .. Len(Top.snapshot)
        /\ SetTop(Top.at + 1, TRUE) \/ SetTop(Top.at + 1, FALSE)
    BY <1>7, CallNextIs
  <2>2. Top.at + 1 \in Nat /\ Top.at + 1 <= Len(Top.snapshot) /\ Top.at + 1 >= Top.at
    BY <2>1, TopIs
  <2> QED
    BY <1>6, <2>1, <2>2
<1>8. CASE HandlerReturns
  <2>1. emits # <<>> /\ SetTop(Top.at, FALSE)
    BY <1>8 DEF HandlerReturns
  <2>2. Top.at \in Nat /\ Top.at <= Len(Top.snapshot) /\ Top.at >= Top.at
    BY <2>1, TopIs
  <2> QED
    BY <1>6, <2>1, <2>2
<1>9. CASE EmitReturns
  BY <1>1, <1>2, <1>3, <1>9, EmitReturnsIs
<1> QED
  BY <1>4, <1>5, <1>7, <1>8, <1>9, EmitsChange

(* A new subscription has an id that is in no list, and takes a number     *)
(* that was free.                                                          *)
LEMMA SoundWithOn ==
    ASSUME BusInv, NEW name \in Names, On(name), NEW sub, NEW from, Sound(sub, from)
    PROVE  Sound(sub, from)'
<1>1. PICK c \in ChannelSlots, s \in SubSlots, r \in Refs :
        /\ Sub(c, s).id = 0 /\ registry[r] = 0
        /\ \A d \in ChannelSlots, t \in SubSlots :
                Sub(d, t)' = IF d = c /\ t = s THEN [id |-> nextId, ref |-> r] ELSE Sub(d, t)
        /\ \A q \in Refs : registry'[q] = IF q = r THEN nextId ELSE registry[q]
        /\ nextId \in 1 .. MaxId /\ nextId' = nextId + 1
  BY OnStep
<1>2. /\ from \in Nat /\ from <= nextId /\ sub.id \in 1 .. MaxId /\ sub.id < from
      /\ sub.ref \in Refs
  BY DEF Sound
<1>3. from <= nextId' /\ nextId \in Since(from)
  BY <1>1, <1>2 DEF Since
<1>4. CASE Present(sub)
  <2>1. PICK d \in ChannelSlots, t \in SubSlots : Sub(d, t) = sub
    BY <1>4 DEF Present
  <2>2. Sub(d, t)' = sub
    BY <1>1, <1>2, <2>1
  <2> QED
    BY <1>2, <1>3, <2>2 DEF Sound, Present
<1>5. CASE Gone(sub, from)
  <2>1. \A d \in ChannelSlots, t \in SubSlots : Sub(d, t).id # sub.id
    BY <1>5 DEF Gone, Subscribed, Sub
  <2>2. nextId # sub.id
    BY <1>1, <1>2
  <2>3. \A d \in ChannelSlots, t \in SubSlots : Sub(d, t)'.id # sub.id
    BY <1>1, <2>1, <2>2
  <2>4. ~Subscribed(sub.id)'
    BY <2>3 DEF Subscribed, Sub
  <2>5. registry'[sub.ref] \in {0} \cup Since(from)
    BY <1>1, <1>2, <1>3, <1>5 DEF Gone
  <2> QED
    BY <1>2, <1>3, <2>4, <2>5 DEF Sound, Gone, Since
<1> QED
  BY <1>4, <1>5 DEF Sound

LEMMA SoundWithOff ==
    ASSUME BusInv, NEW id \in 1 .. MaxId, Off(id), NEW sub, NEW from, Sound(sub, from)
    PROVE  Sound(sub, from)'
<1>1. PICK c \in ChannelSlots, s \in SubSlots :
        /\ Sub(c, s).id = id
        /\ \A d \in ChannelSlots, t \in SubSlots :
                Sub(d, t)' = IF d = c /\ t = s THEN Free ELSE Sub(d, t)
        /\ registry'[Sub(c, s).ref] = 0
        /\ \A q \in Refs : q # Sub(c, s).ref => registry'[q] = registry[q]
  <2>1. PICK c \in ChannelSlots, s \in SubSlots : Sub(c, s).id = id /\ OffAt(c, s)
    BY OffIsOff
  <2>2. /\ \A d \in ChannelSlots, t \in SubSlots :
                Sub(d, t)' = IF d = c /\ t = s THEN Free ELSE Sub(d, t)
        /\ registry'[Sub(c, s).ref] = 0
        /\ \A q \in Refs : q # Sub(c, s).ref => registry'[q] = registry[q]
    BY <2>1, OffStep
  <2> QED
    BY <2>1, <2>2
<1>2. /\ from \in Nat /\ from <= nextId' /\ sub.id \in 1 .. MaxId /\ sub.id < from
      /\ sub.ref \in Refs /\ Free.id = 0 /\ sub.id # 0
  BY DEF Sound, Free, Off
<1>3. ASSUME registry[sub.ref] \in {0} \cup Since(from) \/ sub.ref = Sub(c, s).ref
      PROVE  (registry[sub.ref] \in {0} \cup Since(from))'
  BY <1>1, <1>2, <1>3 DEF Since
<1>4. ASSUME \A d \in ChannelSlots, t \in SubSlots : Sub(d, t).id = sub.id => d = c /\ t = s
      PROVE  ~Subscribed(sub.id)'
  BY <1>1, <1>2, <1>4 DEF Subscribed, Sub
<1>5. CASE Present(sub)
  <2>1. PICK d \in ChannelSlots, t \in SubSlots : Sub(d, t) = sub
    BY <1>5 DEF Present
  <2>2. CASE d = c /\ t = s
    <3>1. \A e \in ChannelSlots, u \in SubSlots : Sub(e, u).id = sub.id => e = c /\ u = s
      BY <1>2, <2>1, <2>2 DEF BusInv, IdsGivenOnce
    <3> QED
      BY <1>2, <1>3, <1>4, <2>1, <2>2, <3>1 DEF Sound, Gone
  <2>3. CASE ~(d = c /\ t = s)
    BY <1>1, <1>2, <2>1, <2>3 DEF Sound, Present
  <2> QED
    BY <2>2, <2>3
<1>6. CASE Gone(sub, from)
  <2>1. registry[sub.ref] \in {0} \cup Since(from) /\ ~Subscribed(sub.id)
    BY <1>6 DEF Gone
  <2>2. \A e \in ChannelSlots, u \in SubSlots : Sub(e, u).id # sub.id
    BY <2>1 DEF Subscribed, Sub
  <2> QED
    BY <1>2, <1>3, <1>4, <2>1, <2>2 DEF Sound, Gone
<1> QED
  BY <1>5, <1>6 DEF Sound

(* Other users of the registry take only what is free.                     *)
LEMMA SoundWithOthers ==
    ASSUME BusInv, RefsOfOthers, NEW sub, NEW from, Sound(sub, from)
    PROVE  Sound(sub, from)'
<1>1. \A c, s : Sub(c, s)' = Sub(c, s)
  BY DEF RefsOfOthers, Sub
<1>2. (Present(sub)' <=> Present(sub)) /\ (Subscribed(sub.id)' <=> Subscribed(sub.id))
  BY <1>1 DEF Present, Subscribed, RefsOfOthers
<1>3. registry[sub.ref] \in {0} \cup Since(from) => (registry[sub.ref] \in {0} \cup Since(from))'
  BY DEF RefsOfOthers, Since, Sound
<1> QED
  BY <1>2, <1>3 DEF Sound, Gone, RefsOfOthers

LEMMA SoundStays ==
    ASSUME BusInv, EmitsTyped, [Next]_vars, NEW sub, NEW from, Sound(sub, from),
           AheadOf(sub, from) \/ \E name \in Names : Emit(name)
    PROVE  Sound(sub, from)'
<1>1. ASSUME UNCHANGED <<channels, registry, nextId>> PROVE Sound(sub, from)'
  <2>1. \A c, s : Sub(c, s)' = Sub(c, s)
    BY <1>1 DEF Sub
  <2> QED
    BY <1>1, <2>1 DEF Sound, Gone, Since, Present, Subscribed
<1>2. CASE \E name \in Names : Emit(name)
  BY <1>1, <1>2 DEF Emit
<1>3. CASE AheadOf(sub, from)
  <2>1. emits # <<>>
    BY <1>3, EmptySeq DEF AheadOf
  <2>2. armed
    BY <2>1 DEF BusInv, NeedsLua
  <2>3. ASSUME NEW name \in Names, On(name) PROVE Sound(sub, from)'
    BY <2>3, SoundWithOn
  <2>4. ASSUME NEW id \in 1 .. MaxId, Off(id) PROVE Sound(sub, from)'
    BY <2>4, SoundWithOff
  <2>5. ~OnDisarmed /\ ~SetActiveScene /\ ~LoadScript
    BY <2>1, <2>2 DEF OnDisarmed, SetActiveScene, LoadScript
  <2>6. CallNext \/ HandlerReturns \/ EmitReturns \/ UNCHANGED vars
            => UNCHANGED <<channels, registry, nextId>>
    BY DEF CallNext, HandlerReturns, EmitReturns, vars
  <2>7. ASSUME \/ \E name \in Names : OnRefused(name)
               \/ OtherTakes
               \/ \E r \in Refs : OtherGives(r)
        PROVE  Sound(sub, from)'
    BY <2>7, OthersStep, SoundWithOthers
  <2> QED
    BY <1>1, <1>2, <2>3, <2>4, <2>5, <2>6, <2>7 DEF Next
<1> QED
  BY <1>2, <1>3

LEMMA EmitStep == EmitInv /\ [Next]_vars => EmitInv'
<1> SUFFICES ASSUME EmitInv, [Next]_vars PROVE EmitInv'
  OBVIOUS
<1> USE DEF EmitInv
<1>1. ASSUME NEW sub, NEW from, AheadOf(sub, from)' PROVE Sound(sub, from)'
  <2>1. \/ AheadOf(sub, from)
        \/ /\ sub.id # 0 /\ Present(sub) /\ from = nextId
           /\ \E name \in Names : Emit(name)
    BY <1>1, AheadBefore
  <2>2. Sound(sub, from)
    <3>1. CASE AheadOf(sub, from)
      BY <3>1 DEF AheadSound
    <3>2. CASE sub.id # 0 /\ Present(sub) /\ from = nextId
      <4>1. PICK c \in ChannelSlots, s \in SubSlots : Sub(c, s) = sub
        BY <3>2 DEF Present
      <4>2. sub \in Subscriber /\ sub.id < nextId /\ sub.ref \in Refs /\ nextId \in Nat
        <5>1. Sub(c, s) \in Subscriber
          BY DEF BusInv, Sub
        <5> QED
          BY <3>2, <4>1, <5>1 DEF BusInv, IdsGivenOnce
      <4> QED
        BY <3>2, <4>2 DEF Sound, Subscriber
    <3> QED
      BY <2>1, <3>1, <3>2
  <2>3. AheadOf(sub, from) \/ \E name \in Names : Emit(name)
    BY <2>1
  <2> QED
    BY <2>2, <2>3, SoundStays
<1>2. AheadSound'
  BY <1>1 DEF AheadSound
<1> QED
  BY <1>2, BusStep, StepEmitsTyped

(* What the innermost emit turns to next is one of those ahead of it.      *)
LEMMA NextIsSound ==
    ASSUME EmitInv, CallNext
    PROVE  Sound(Top.snapshot[Top.at + 1], Top.from)
<1>1. emits # <<>> /\ Top.at + 1 \in 1 .. Len(Top.snapshot)
  BY CallNextIs DEF EmitInv
<1>2. /\ Len(emits) \in 1 .. Len(emits) /\ Top = emits[Len(emits)] /\ Top.at \in Nat
  BY <1>1, TopIs DEF EmitInv
<1>3. Top.at + 1 > emits[Len(emits)].at
  BY <1>2
<1>4. AheadOf(Top.snapshot[Top.at + 1], Top.from)
  BY <1>1, <1>2, <1>3 DEF AheadOf
<1> QED
  BY <1>4 DEF EmitInv, AheadSound

LEMMA CallNextLeaves ==
    ASSUME EmitInv, CallNext
    PROVE  LET sub == Top.snapshot[Top.at + 1] IN
           /\ Len(emits') = Len(emits) /\ ~Top.calling /\ Last(emits').at = Top.at + 1
           /\ Last(emits').calling =>
                \/ registry[sub.ref] = sub.id
                \/ ~Subscribed(sub.id) /\ registry[sub.ref] \in Since(Top.from)
           /\ ~Last(emits').calling => ~Subscribed(sub.id)
<1> DEFINE sub == Top.snapshot[Top.at + 1]
<1>1. /\ emits # <<>> /\ ~Top.calling /\ Top.at + 1 \in 1 .. Len(Top.snapshot)
      /\ \/ registry[sub.ref] # 0 /\ SetTop(Top.at + 1, TRUE)
         \/ registry[sub.ref] \in {0, Other} /\ SetTop(Top.at + 1, FALSE)
  BY CallNextIs DEF EmitInv
<1>2. Top.at + 1 \in Nat /\ Top.at + 1 <= Len(Top.snapshot)
  BY <1>1, TopIs DEF EmitInv
<1>3. \/ registry[sub.ref] = sub.id /\ sub.id \in 1 .. MaxId
      \/ Gone(sub, Top.from)
  BY NextIsSound, SoundRef DEF EmitInv
<1> HIDE DEF sub
<1>4. CASE registry[sub.ref] # 0 /\ SetTop(Top.at + 1, TRUE)
  <2>1. /\ Len(emits') = Len(emits)
        /\ Last(emits').at = Top.at + 1 /\ Last(emits').calling = TRUE
    BY <1>1, <1>2, <1>4, SetTopIs DEF EmitInv
  <2>2. \/ registry[sub.ref] = sub.id
        \/ ~Subscribed(sub.id) /\ registry[sub.ref] \in Since(Top.from)
    BY <1>3, <1>4 DEF Gone
  <2> QED
    BY <1>1, <2>1, <2>2 DEF sub
<1>5. CASE registry[sub.ref] \in {0, Other} /\ SetTop(Top.at + 1, FALSE)
  <2>1. /\ Len(emits') = Len(emits)
        /\ Last(emits').at = Top.at + 1 /\ Last(emits').calling = FALSE
    BY <1>1, <1>2, <1>5, SetTopIs DEF EmitInv
  <2>2. ~(sub.id \in {0, Other} /\ sub.id \in 1 .. MaxId)
    BY BusAssumption DEF Other
  <2>3. ~Subscribed(sub.id)
    BY <1>3, <1>5, <2>2 DEF Gone
  <2> QED
    BY <1>1, <2>1, <2>3 DEF sub
<1> QED
  BY <1>1, <1>4, <1>5

(* The two action properties follow from what is ahead being sound.        *)
Calls ==
    emits' # <<>> /\ Len(emits') = Len(emits) /\ ~Top.calling /\ Last(emits').calling =>
        LET sub  == Top.snapshot[Last(emits').at]
            held == registry[sub.ref]
        IN  \/ held = sub.id
            \/ ~Subscribed(sub.id) /\ held \in {Other} \cup (Top.from .. MaxId)
Skips ==
    /\ emits # <<>> /\ Len(emits') < Len(emits) => Top.at = Len(Top.snapshot)
    /\ emits # <<>> /\ Len(emits') = Len(emits) /\ ~Top.calling =>
        /\ Last(emits').at = Top.at + 1
        /\ ~Last(emits').calling => ~Subscribed(Top.snapshot[Top.at + 1].id)

LEMMA StepCallsAndSkips == EmitInv /\ [Next]_vars => [Calls]_vars /\ [Skips]_vars
<1> SUFFICES ASSUME EmitInv, [Next]_vars, ~UNCHANGED vars PROVE Calls /\ Skips
  OBVIOUS
<1>1. CASE CallNext
  <2>1. emits # <<>> /\ Len(emits') = Len(emits) /\ Len(emits) \in Nat
    BY <1>1, CallNextLeaves, CallNextIs, TopIs DEF EmitInv
  <2>2. emits' # <<>>
    BY <2>1
  <2>3. Calls
    BY <1>1, <2>1, CallNextLeaves DEF Calls, Since
  <2>4. Skips
    BY <1>1, <2>1, CallNextLeaves DEF Skips
  <2> QED
    BY <2>3, <2>4
<1>2. CASE HandlerReturns
  <2>1. emits # <<>> /\ Top.calling /\ SetTop(Top.at, FALSE)
    BY <1>2 DEF HandlerReturns
  <2>2. Len(emits') = Len(emits) /\ Len(emits) \in Nat
    BY <2>1, TopIs, SetTopIs DEF EmitInv
  <2> QED
    BY <2>1, <2>2 DEF Calls, Skips
<1>3. CASE EmitReturns
  <2>1. Top.at = Len(Top.snapshot) /\ Len(emits') # Len(emits)
    <3>1. emits # <<>> /\ Top.at = Len(Top.snapshot)
      BY <1>3 DEF EmitReturns
    <3>2. Len(emits') = Len(emits) - 1 /\ Len(emits) \in Nat
      BY <1>3, <3>1, EmitReturnsIs, TopIs DEF EmitInv
    <3> QED
      BY <3>1, <3>2
  <2> QED
    BY <2>1 DEF Calls, Skips
<1>4. ASSUME NEW name \in Names, Emit(name) PROVE Calls /\ Skips
  <2>1. Len(emits') = Len(emits) + 1 /\ Len(emits) \in Nat
    BY <1>4, EmitIs DEF EmitInv
  <2> QED
    BY <2>1 DEF Calls, Skips
<1>5. ASSUME UNCHANGED emits, emits # <<>> => Top.calling PROVE Calls /\ Skips
  <2>1. emits # <<>> => Len(emits) \in Nat
    BY TopIs DEF EmitInv
  <2> QED
    BY <1>5, <2>1 DEF Calls, Skips
<1>6. ASSUME NEW name \in Names, On(name) PROVE Calls /\ Skips
  BY <1>5, <1>6 DEF On, Script, Top
<1>7. ASSUME NEW id \in 1 .. MaxId, Off(id) PROVE Calls /\ Skips
  BY <1>5, <1>7 DEF Off, Script, Top
<1>8. CASE OnDisarmed \/ SetActiveScene \/ LoadScript
  BY <1>5, <1>8 DEF OnDisarmed, SetActiveScene, LoadScript, Script, Top
<1>9. ASSUME \/ \E name \in Names : OnRefused(name)
             \/ OtherTakes
             \/ \E r \in Refs : OtherGives(r)
      PROVE  Calls /\ Skips
  BY <1>5, <1>9 DEF OnRefused, OtherTakes, OtherGives, Script, Top
<1> QED
  BY <1>1, <1>2, <1>3, <1>4, <1>6, <1>7, <1>8, <1>9 DEF Next

LEMMA EmitInvHolds == Spec => []EmitInv
<1>1. Init => EmitInv
  <2> SUFFICES ASSUME Init PROVE EmitInv
    OBVIOUS
  <2>1. emits = <<>>
    BY DEF Init
  <2>2. EmitsTyped /\ AheadSound
    BY <2>1, EmptySeq DEF EmitsTyped, AheadSound, AheadOf
  <2> QED
    BY <2>2, InitBus DEF EmitInv
<1>2. EmitInv /\ [Next]_vars => EmitInv'
  BY EmitStep
<1> QED
  BY <1>1, <1>2, PTL DEF Spec

(* CallsItsSnapshot, of the loop of emit: whatever handlers subscribe and  *)
(* remove, and whoever else takes the numbers that become free, an emit    *)
(* calls the handlers it listed when it began; in the place of one that is *)
(* gone it calls, if anything, what took its number since ...              *)
THEOREM EmitsCallTheirSnapshot == Spec => CallsItsSnapshot
<1>1. EmitInv /\ [Next]_vars => [Calls]_vars
  BY StepCallsAndSkips
<1>2. Spec => []EmitInv
  BY EmitInvHolds
<1>3. Spec => [][Calls]_vars
  BY <1>1, <1>2, PTL DEF Spec
<1> QED
  BY <1>3 DEF CallsItsSnapshot, Calls

(* ... one after the other, and passes over those alone that were removed. *)
THEOREM EmitsSkipTheRemoved == Spec => SkipsOnlyRemoved
<1>1. EmitInv /\ [Next]_vars => [Skips]_vars
  BY StepCallsAndSkips
<1>2. Spec => []EmitInv
  BY EmitInvHolds
<1>3. Spec => [][Skips]_vars
  BY <1>1, <1>2, PTL DEF Spec
<1> QED
  BY <1>3 DEF SkipsOnlyRemoved, Skips

-----------------------------------------------------------------------------
(* engine.store.                                                           *)

(* What a slot holds: a value, what it is read back as, or what an error   *)
(* or a crash left of one.                                                 *)
StoredValues == LET written == Values \cup {Partial, Garbled}
                IN  written \cup {ReadBack(v) : v \in written}
StoreEntry == [key : Keys, value : StoredValues, by : Scopes]

StoreTyped ==
    /\ host \in Hosts
    /\ entries \in Seq(StoreEntry)
    /\ scope \in Scopes
    /\ saved \in [Scopes -> [text : Seq(StoreEntry), there : BOOLEAN]]

LEMMA ReadBackStored ==
    ASSUME NEW v \in StoredValues
    PROVE  ReadBack(v) \in StoredValues /\ ReadBack(ReadBack(v)) = ReadBack(v)
  BY ReadBackAssumption DEF StoredValues

(* The first of some places.                                               *)
LEMMA FirstPlace ==
    ASSUME NEW S \in SUBSET Nat, S # {}
    PROVE  \E i \in S : \A j \in S : i <= j
  <1>1. PICK i \in S : \A j \in S : ~(<<j, i>> \in OpToRel(<, Nat))
        BY NatLessThanWellFounded, WFMin
  <1>2. \A j \in S : ~(j < i)
        BY <1>1 DEF OpToRel
  <1> QED  BY <1>2

(* What the operations on the array leave in it.                           *)
LEMMA PutKeeps ==
    ASSUME StoreTyped, NEW s \in Seq(StoreEntry), NEW k \in Keys, NEW v \in StoredValues
    PROVE  /\ Put(s, k, v) \in Seq(StoreEntry)
           /\ \A i \in DOMAIN Put(s, k, v) :
                \/ /\ Put(s, k, v)[i].key = k
                   /\ Put(s, k, v)[i].by = IF host = "blob" THEN scope ELSE NoScope
                \/ i \in DOMAIN s /\ Put(s, k, v)[i] = s[i]
           /\ \A i \in DOMAIN s : s[i].key # k =>
                i \in DOMAIN Put(s, k, v) /\ Put(s, k, v)[i] = s[i]
  <1> DEFINE entry == [key |-> k, value |-> v, by |-> IF host = "blob" THEN scope ELSE NoScope]
  <1>1. /\ entry \in StoreEntry /\ entry.key = k
        /\ entry.by = IF host = "blob" THEN scope ELSE NoScope
        BY DEF StoreTyped, StoreEntry, Scopes
  <1>2. Len(s) \in Nat /\ DOMAIN s = 1 .. Len(s) /\ \A i \in 1 .. Len(s) : s[i] \in StoreEntry
        BY LenProperties, ElementOfSeq
  <1>3. Put(s, k, v) = IF k \in KeysOf(s)
                       THEN [i \in DOMAIN s |-> IF s[i].key = k THEN entry ELSE s[i]]
                       ELSE Append(s, entry)
        BY DEF Put
  <1> HIDE DEF entry
  <1>4. CASE k \in KeysOf(s)
    <2> DEFINE p == [i \in 1 .. Len(s) |-> IF s[i].key = k THEN entry ELSE s[i]]
    <2>1. Put(s, k, v) = p
          BY <1>2, <1>3, <1>4
    <2>2. p \in [1 .. Len(s) -> StoreEntry]
          BY <1>1, <1>2
    <2>3. p \in Seq(StoreEntry)
          BY <1>2, <2>2, SeqDef
    <2>4. \A i \in 1 .. Len(s) : p[i] = IF s[i].key = k THEN entry ELSE s[i]
          OBVIOUS
    <2>5. DOMAIN p = 1 .. Len(s)
          OBVIOUS
    <2> HIDE DEF p
    <2> QED  BY <1>1, <1>2, <2>1, <2>3, <2>4, <2>5
  <1>5. CASE k \notin KeysOf(s)
    <2>1. Put(s, k, v) = Append(s, entry)
          BY <1>3, <1>5
    <2>2. /\ Append(s, entry) \in Seq(StoreEntry)
          /\ Len(Append(s, entry)) = Len(s) + 1
          /\ \A i \in 1 .. Len(s) : Append(s, entry)[i] = s[i]
          /\ Append(s, entry)[Len(s) + 1] = entry
          BY <1>1, AppendProperties
    <2>3. DOMAIN Append(s, entry) = 1 .. Len(s) + 1
          BY <2>2, LenProperties
    <2> QED  BY <1>1, <1>2, <2>1, <2>2, <2>3
  <1> QED  BY <1>4, <1>5

LEMMA WithoutKeeps ==
    ASSUME NEW s \in Seq(StoreEntry), NEW k
    PROVE  /\ Without(s, k) \in Seq(StoreEntry)
           /\ \A i \in DOMAIN Without(s, k) : \E j \in DOMAIN s : Without(s, k)[i] = s[j]
           /\ \A j \in DOMAIN s : s[j].key # k =>
                \E i \in DOMAIN Without(s, k) : Without(s, k)[i] = s[j]
  <1>1. Len(s) \in Nat /\ DOMAIN s = 1 .. Len(s) /\ \A i \in 1 .. Len(s) : s[i] \in StoreEntry
        BY LenProperties, ElementOfSeq
  <1>2. CASE k \in KeysOf(s)
    <2> DEFINE n == CHOOSE i \in DOMAIN s : s[i].key = k
               a == SubSeq(s, 1, n - 1)
               b == SubSeq(s, n + 1, Len(s))
    <2>1. n \in 1 .. Len(s) /\ s[n].key = k
          BY <1>1, <1>2 DEF KeysOf
    <2>2. Without(s, k) = a \o b
          BY <1>2 DEF Without, RemoveAt
    <2> HIDE DEF n
    <2>3. /\ a \in Seq(StoreEntry) /\ Len(a) = n - 1
          /\ \A i \in 1 .. n - 1 : a[i] = s[i]
      <3>1. n - 1 \in Int /\ 1 \in Int /\ \A i \in 1 .. n - 1 : s[i] \in StoreEntry
            BY <1>1, <2>1
      <3>2. /\ SubSeq(s, 1, n - 1) \in Seq(StoreEntry)
            /\ Len(SubSeq(s, 1, n - 1)) = IF 1 <= n - 1 THEN n - 1 - 1 + 1 ELSE 0
            /\ \A i \in 1 .. n - 1 - 1 + 1 : SubSeq(s, 1, n - 1)[i] = s[1 + i - 1]
            BY <3>1, SubSeqProperties
      <3> QED  BY <2>1, <3>2
    <2>4. /\ b \in Seq(StoreEntry) /\ Len(b) = Len(s) - n
          /\ \A i \in 1 .. Len(s) - n : b[i] = s[n + i]
      <3>1. /\ n + 1 \in Int /\ Len(s) \in Int
            /\ \A i \in n + 1 .. Len(s) : s[i] \in StoreEntry
            BY <1>1, <2>1
      <3>2. /\ SubSeq(s, n + 1, Len(s)) \in Seq(StoreEntry)
            /\ Len(SubSeq(s, n + 1, Len(s))) =
                    IF n + 1 <= Len(s) THEN Len(s) - (n + 1) + 1 ELSE 0
            /\ \A i \in 1 .. Len(s) - (n + 1) + 1 :
                    SubSeq(s, n + 1, Len(s))[i] = s[n + 1 + i - 1]
            BY <3>1, SubSeqProperties
      <3>3. /\ Len(s) - (n + 1) + 1 = Len(s) - n
            /\ \A i \in 1 .. Len(s) - n : n + 1 + i - 1 = n + i
            BY <1>1, <2>1
      <3>4. (IF n + 1 <= Len(s) THEN Len(s) - (n + 1) + 1 ELSE 0) = Len(s) - n
        <4>0. n \in Int /\ Len(s) \in Int /\ n <= Len(s)
              BY <1>1, <2>1
        <4>1. ~(n + 1 <= Len(s)) => Len(s) - n = 0
              BY <4>0
        <4> QED  BY <3>3, <4>1
      <3> QED  BY <3>2, <3>3, <3>4
    <2> HIDE DEF a, b
    <2>5. /\ a \o b \in Seq(StoreEntry) /\ Len(a \o b) = Len(s) - 1
          /\ \A i \in 1 .. Len(s) - 1 : (a \o b)[i] = IF i <= n - 1 THEN s[i] ELSE s[i + 1]
      <3>1. /\ a \o b \in Seq(StoreEntry)
            /\ Len(a \o b) = Len(a) + Len(b)
            /\ \A i \in 1 .. Len(a) + Len(b) :
                    (a \o b)[i] = IF i <= Len(a) THEN a[i] ELSE b[i - Len(a)]
            BY <2>3, <2>4, ConcatProperties
      <3>2. Len(a) + Len(b) = Len(s) - 1
            BY <1>1, <2>1, <2>3, <2>4
      <3>3. ASSUME NEW i \in 1 .. Len(s) - 1
            PROVE  (a \o b)[i] = IF i <= n - 1 THEN s[i] ELSE s[i + 1]
        <4>1. CASE i <= n - 1
              BY <1>1, <2>1, <2>3, <3>1, <3>2, <4>1
        <4>2. CASE ~(i <= n - 1)
          <5>1. i - Len(a) \in 1 .. Len(s) - n /\ n + (i - Len(a)) = i + 1
                BY <1>1, <2>1, <2>3, <4>2
          <5>2. (a \o b)[i] = b[i - Len(a)]
                BY <2>1, <2>3, <3>1, <3>2, <4>2
          <5> QED  BY <2>4, <4>2, <5>1, <5>2
        <4> QED  BY <4>1, <4>2
      <3> QED  BY <3>1, <3>2, <3>3
    <2>6. DOMAIN (a \o b) = 1 .. Len(s) - 1
          BY <2>5, LenProperties
    <2>7. ASSUME NEW i \in 1 .. Len(s) - 1 PROVE \E j \in DOMAIN s : (a \o b)[i] = s[j]
      <3>1. i \in DOMAIN s /\ i + 1 \in DOMAIN s
            BY <1>1
      <3> QED  BY <2>5, <3>1
    <2>8. ASSUME NEW j \in DOMAIN s, s[j].key # k
          PROVE  \E i \in 1 .. Len(s) - 1 : (a \o b)[i] = s[j]
      <3>1. CASE j < n
        <4>1. j \in 1 .. Len(s) - 1 /\ (a \o b)[j] = s[j]
              BY <1>1, <2>1, <2>5, <3>1
        <4> QED  BY <4>1
      <3>2. CASE j > n
        <4>1. j - 1 \in 1 .. Len(s) - 1 /\ ~(j - 1 <= n - 1) /\ (j - 1) + 1 = j
              BY <1>1, <2>1, <3>2
        <4>2. (a \o b)[j - 1] = s[j]
              BY <2>5, <4>1
        <4> QED  BY <4>1, <4>2
      <3>3. j # n
            BY <2>1, <2>8
      <3>4. j < n \/ j > n
            BY <1>1, <2>1, <3>3
      <3> QED  BY <3>1, <3>2, <3>4
    <2> QED  BY <2>2, <2>5, <2>6, <2>7, <2>8
  <1>3. CASE k \notin KeysOf(s)
        BY <1>3 DEF Without
  <1> QED  BY <1>2, <1>3

LEMMA TextKeeps ==
    ASSUME NEW s \in Seq(StoreEntry)
    PROVE  /\ Text(s) \in Seq(StoreEntry)
           /\ DOMAIN Text(s) = DOMAIN s
           /\ \A i \in DOMAIN s : /\ Text(s)[i].key = s[i].key
                                  /\ Text(s)[i].by = s[i].by
                                  /\ Text(s)[i].value = ReadBack(s[i].value)
  <1>1. Len(s) \in Nat /\ DOMAIN s = 1 .. Len(s) /\ \A i \in 1 .. Len(s) : s[i] \in StoreEntry
        BY LenProperties, ElementOfSeq
  <1>2. \A i \in 1 .. Len(s) : ReadBack(s[i].value) \in StoredValues
        BY <1>1, ReadBackStored DEF StoreEntry
  <1>3. Text(s) = [i \in 1 .. Len(s) |-> [s[i] EXCEPT !.value = ReadBack(s[i].value)]]
        BY <1>1 DEF Text
  <1>4. ASSUME NEW i \in 1 .. Len(s)
        PROVE  /\ [s[i] EXCEPT !.value = ReadBack(s[i].value)] \in StoreEntry
               /\ [s[i] EXCEPT !.value = ReadBack(s[i].value)].key = s[i].key
               /\ [s[i] EXCEPT !.value = ReadBack(s[i].value)].by = s[i].by
               /\ [s[i] EXCEPT !.value = ReadBack(s[i].value)].value = ReadBack(s[i].value)
        BY <1>1, <1>2 DEF StoreEntry
  <1>5. Text(s) \in [1 .. Len(s) -> StoreEntry]
        BY <1>3, <1>4
  <1>6. Text(s) \in Seq(StoreEntry)
        BY <1>1, <1>5, SeqDef
  <1> QED  BY <1>1, <1>3, <1>4, <1>5, <1>6

(* The loader reads a text from its first entry on.                        *)
LEMMA LoadedKeeps ==
    ASSUME NEW t \in Seq(StoreEntry)
    PROVE  /\ Loaded(t) \in Seq(StoreEntry)
           /\ \A i \in DOMAIN Loaded(t) : i \in DOMAIN t /\ Loaded(t)[i] = t[i]
           /\ Unreadable = {} => Loaded(t) = t
  <1> DEFINE bad == {i \in DOMAIN t : t[i].value \in Unreadable}
             n == CHOOSE i \in bad : \A j \in bad : i <= j
  <1>0. Len(t) \in Nat /\ DOMAIN t = 1 .. Len(t) /\ \A i \in 1 .. Len(t) : t[i] \in StoreEntry
        BY LenProperties, ElementOfSeq
  <1>1. Loaded(t) = IF bad = {} THEN t ELSE SubSeq(t, 1, n - 1)
        BY DEF Loaded
  <1>2. Unreadable = {} => bad = {}
        OBVIOUS
  <1>3. bad \in SUBSET Nat /\ bad \subseteq 1 .. Len(t)
        BY <1>0
  <1>4. CASE bad # {}
    <2>0. \E i \in bad : \A j \in bad : i <= j
          BY <1>3, <1>4, FirstPlace
    <2>1. n \in bad
          BY <2>0
    <2> HIDE DEF n, bad
    <2>2. n \in 1 .. Len(t)
          BY <1>3, <2>1
    <2>3. n - 1 \in Int /\ 1 \in Int /\ \A i \in 1 .. n - 1 : t[i] \in StoreEntry
          BY <1>0, <2>2
    <2>4. /\ SubSeq(t, 1, n - 1) \in Seq(StoreEntry)
          /\ Len(SubSeq(t, 1, n - 1)) = IF 1 <= n - 1 THEN n - 1 - 1 + 1 ELSE 0
          /\ \A i \in 1 .. n - 1 - 1 + 1 : SubSeq(t, 1, n - 1)[i] = t[1 + i - 1]
          BY <2>3, SubSeqProperties
    <2>5. DOMAIN SubSeq(t, 1, n - 1) = 1 .. n - 1
          BY <2>2, <2>4, LenProperties
    <2>6. \A i \in 1 .. n - 1 : i \in DOMAIN t /\ SubSeq(t, 1, n - 1)[i] = t[i]
          BY <1>0, <2>2, <2>4
    <2> QED  BY <1>1, <1>2, <1>4, <2>4, <2>5, <2>6
  <1>5. CASE bad = {}
        BY <1>1, <1>5
  <1> QED  BY <1>4, <1>5

-----------------------------------------------------------------------------
(* Every entry is that of one owner.                                       *)
By(s, o) == \A i \in DOMAIN s : s[i].by = o

(* What a save that is cut short leaves is a text.                         *)
LEMMA TornTyped ==
    ASSUME NEW s \in Seq(StoreEntry), NEW t \in Torn(s)
    PROVE  t \in Seq(StoreEntry)
  <1>1. Len(s) \in Nat /\ DOMAIN s = 1 .. Len(s) /\ \A i \in 1 .. Len(s) : s[i] \in StoreEntry
        BY LenProperties, ElementOfSeq
  <1>2. ASSUME NEW n \in 0 .. Len(s) PROVE SubSeq(s, 1, n) \in Seq(StoreEntry)
    <2>1. n \in Int /\ 1 \in Int /\ \A i \in 1 .. n : s[i] \in StoreEntry
          BY <1>1
    <2> QED  BY <2>1, SubSeqProperties
  <1>3. ASSUME NEW n \in DOMAIN s
        PROVE  Append(SubSeq(s, 1, n - 1), [s[n] EXCEPT !.value = Garbled]) \in Seq(StoreEntry)
    <2>1. n - 1 \in 0 .. Len(s)
          BY <1>1
    <2>2. SubSeq(s, 1, n - 1) \in Seq(StoreEntry)
          BY <1>2, <2>1
    <2>3. [s[n] EXCEPT !.value = Garbled] \in StoreEntry
      <3>1. s[n] \in StoreEntry /\ Garbled \in StoredValues
            BY <1>1 DEF StoredValues
      <3> QED  BY <3>1 DEF StoreEntry
    <2> QED  BY <2>2, <2>3, AppendProperties
  <1>4. \/ \E n \in 0 .. Len(s) : t = SubSeq(s, 1, n)
        \/ \E n \in DOMAIN s : t = Append(SubSeq(s, 1, n - 1), [s[n] EXCEPT !.value = Garbled])
        BY DEF Torn
  <1> QED  BY <1>2, <1>3, <1>4

(* What a save changes: nothing, or the text of the scope.                 *)
LEMMA WriteKeeps ==
    ASSUME StoreTyped, NEW s \in Seq(StoreEntry), Write(s) \/ AutoSave(s)
    PROVE  /\ saved' \in [Scopes -> [text : Seq(StoreEntry), there : BOOLEAN]]
           /\ \A o \in Scopes \ {scope} : saved'[o] = saved[o]
           /\ \/ saved' = saved
              \/ saved'[scope].text = Text(s) /\ saved'[scope].there
              \/ /\ host = "desktop" /\ cutting
                 /\ saved'[scope].text \in Torn(Text(s)) /\ saved'[scope].there
  <1>1. \/ saved' = saved
        \/ \E t \in Seq(StoreEntry) :
             /\ t = Text(s) \/ (host = "desktop" /\ cutting /\ t \in Torn(Text(s)))
             /\ saved' = [saved EXCEPT ![scope] = [text |-> t, there |-> TRUE]]
        BY TextKeeps, TornTyped DEF Write, AutoSave, KeepText
  <1>2. ASSUME NEW t \in Seq(StoreEntry),
               t = Text(s) \/ (host = "desktop" /\ cutting /\ t \in Torn(Text(s))),
               saved' = [saved EXCEPT ![scope] = [text |-> t, there |-> TRUE]]
        PROVE  /\ saved' \in [Scopes -> [text : Seq(StoreEntry), there : BOOLEAN]]
               /\ \A o \in Scopes \ {scope} : saved'[o] = saved[o]
               /\ saved'[scope].text = t /\ saved'[scope].there
    <2>1. [text |-> t, there |-> TRUE] \in [text : Seq(StoreEntry), there : BOOLEAN]
          OBVIOUS
    <2>2. /\ saved' \in [Scopes -> [text : Seq(StoreEntry), there : BOOLEAN]]
          /\ \A o \in Scopes \ {scope} : saved'[o] = saved[o]
          BY <1>2, <2>1 DEF StoreTyped
    <2>3. saved'[scope] = [text |-> t, there |-> TRUE]
          BY <1>2 DEF StoreTyped
    <2> QED  BY <2>2, <2>3
  <1>3. CASE saved' = saved
        BY <1>3 DEF StoreTyped
  <1> QED  BY <1>1, <1>2, <1>3

(* What a load brings in: the text of the scope, or what is given.         *)
LEMMA LoadKeeps ==
    ASSUME StoreTyped, NEW o \in Scopes, NEW before \in Seq(StoreEntry), NEW tags,
           Load(o, before, tags)
    PROVE  /\ entries' \in Seq(StoreEntry)
           /\ By(saved[o].text, o) /\ By(before, o) => By(entries', o)
  <1>1. saved[o].text \in Seq(StoreEntry)
        BY DEF StoreTyped
  <1>2. entries' = Loaded(saved[o].text) \/ entries' = before
        BY DEF Load
  <1> QED  BY <1>1, <1>2, LoadedKeeps DEF By

(* The store is saved as its owner holds it, and loaded for whom it is.    *)
LEMMA StoreStaysApart ==
    ASSUME StoreTyped, OwnersApart, [StoreNext]_storeVars
    PROVE  StoreTyped' /\ OwnersApart'
  <1> DEFINE Apart == /\ By(entries, scope)
                      /\ \A o \in Scopes : By(saved[o].text, o)
  <1>0. OwnersApart <=> (host = "blob" => Apart)
        BY DEF OwnersApart, By
  <1>00. OwnersApart' <=> (host' = "blob" => Apart')
        BY DEF OwnersApart, By
  <1>1. ASSUME NEW s \in Seq(StoreEntry), host = "blob" => By(s, scope), entries' = s,
               UNCHANGED <<host, scope>>, Write(s) \/ AutoSave(s) \/ UNCHANGED saved
        PROVE  StoreTyped' /\ OwnersApart'
    <2>1. /\ saved' \in [Scopes -> [text : Seq(StoreEntry), there : BOOLEAN]]
          /\ \A o \in Scopes \ {scope} : saved'[o] = saved[o]
          /\ host = "blob" => saved' = saved \/ saved'[scope].text = Text(s)
          BY <1>1, WriteKeeps DEF StoreTyped
    <2>2. StoreTyped'
          BY <1>1, <2>1 DEF StoreTyped
    <2>3. ASSUME host = "blob" PROVE Apart'
      <3>1. By(Text(s), scope)
            BY <1>1, <2>3, TextKeeps DEF By
      <3>2. \A o \in Scopes : By(saved'[o].text, o)
            BY <1>0, <2>1, <2>3, <3>1
      <3> QED  BY <1>1, <2>3, <3>2
    <2> QED  BY <1>00, <1>1, <2>2, <2>3
  <1>2. ASSUME NEW o \in Scopes, NEW before \in Seq(StoreEntry), NEW tags,
               host = "blob" => By(before, o),
               Load(o, before, tags), scope' = o, UNCHANGED <<host, saved>>
        PROVE  StoreTyped' /\ OwnersApart'
    <2>1. entries' \in Seq(StoreEntry) /\ (host = "blob" => By(entries', o))
          BY <1>0, <1>2, LoadKeeps
    <2>2. StoreTyped'
          BY <1>2, <2>1 DEF StoreTyped
    <2> QED  BY <1>0, <1>00, <1>2, <2>1, <2>2
  <1>3. ASSUME entries' = <<>>, scope' \in Scopes, UNCHANGED <<host, saved>>
        PROVE  StoreTyped' /\ OwnersApart'
    <2>1. StoreTyped'
          BY <1>3, EmptySeq DEF StoreTyped
    <2>2. By(entries', scope')
          BY <1>3 DEF By
    <2> QED  BY <1>0, <1>00, <1>3, <2>1, <2>2
  <1>4. entries \in Seq(StoreEntry) /\ scope \in Scopes /\ NoScope \in Scopes
        BY DEF StoreTyped, Scopes
  <1>5. ASSUME NEW k \in Keys, NEW v \in StoredValues
        PROVE  /\ Put(entries, k, v) \in Seq(StoreEntry)
               /\ host = "blob" => By(Put(entries, k, v), scope)
        BY <1>0, <1>4, PutKeeps DEF By
  <1>6. ASSUME NEW k \in Keys, NEW v \in Values, Save(k, v)
        PROVE  StoreTyped' /\ OwnersApart'
    <2>1. v \in StoredValues
          BY DEF StoredValues
    <2> QED  BY <1>1, <1>5, <1>6, <2>1 DEF Save
  <1>7. ASSUME NEW k \in Keys, SaveLargeTable(k)
        PROVE  StoreTyped' /\ OwnersApart'
    <2>1. Partial \in StoredValues
          BY DEF StoredValues
    <2> QED  BY <1>1, <1>5, <1>7, <2>1 DEF SaveLargeTable
  <1>8. ASSUME NEW k \in Keys, Delete(k)
        PROVE  StoreTyped' /\ OwnersApart'
    <2>1. /\ Without(entries, k) \in Seq(StoreEntry)
          /\ host = "blob" => By(Without(entries, k), scope)
          BY <1>0, <1>4, WithoutKeeps DEF By
    <2> QED  BY <1>1, <1>8, <2>1 DEF Delete
  <1>9. CASE Clear
    <2>1. <<>> \in Seq(StoreEntry) /\ By(<<>>, scope)
          BY EmptySeq DEF By
    <2> QED  BY <1>1, <1>9, <2>1 DEF Clear
  <1>10. CASE Flush
        BY <1>0, <1>1, <1>4, <1>10 DEF Flush
  <1>11. CASE DropPath
    <2>1. host' # "blob"
          BY <1>11 DEF DropPath
    <2> QED  BY <1>00, <1>4, <1>11, <2>1 DEF DropPath, StoreTyped
  <1>12. CASE Restart
        BY <1>3, <1>4, <1>12 DEF Restart
  <1>13. CASE Trouble
    <2>1. StoreTyped'
          BY <1>13 DEF Trouble, StoreTyped
    <2> QED  BY <1>0, <1>00, <1>13, <2>1 DEF Trouble
  <1>14. ASSUME NEW ns \in Scopes, SetNamespace(ns)
         PROVE  StoreTyped' /\ OwnersApart'
    <2>1. CASE host = "blob" /\ ns # NoScope
      <3>1. <<>> \in Seq(StoreEntry) /\ By(<<>>, ns)
            BY EmptySeq DEF By
      <3> QED  BY <1>2, <1>14, <2>1, <3>1 DEF SetNamespace
    <2>2. CASE ~(host = "blob" /\ ns # NoScope)
          BY <1>3, <1>4, <1>14, <2>2 DEF SetNamespace
    <2> QED  BY <2>1, <2>2
  <1>15. ASSUME NEW p \in Scopes, Path(p)
         PROVE  StoreTyped' /\ OwnersApart'
    <2>1. CASE host = "desktop"
          BY <1>2, <1>4, <1>15, <2>1 DEF Path
    <2>2. CASE host # "desktop"
          BY <1>0, <1>2, <1>4, <1>15, <2>2 DEF Path, StoreTyped
    <2> QED  BY <2>1, <2>2
  <1>16. CASE UNCHANGED storeVars
    <2>1. StoreTyped'
          BY <1>16 DEF storeVars, StoreTyped
    <2> QED  BY <1>0, <1>00, <1>16, <2>1 DEF storeVars
  <1> QED  BY <1>6, <1>7, <1>8, <1>9, <1>10, <1>11, <1>12, <1>13, <1>14, <1>15, <1>16
           DEF StoreNext

LEMMA StoreTypedHolds == StoreSpec => [](StoreTyped /\ OwnersApart)
  <1>1. StoreInit => StoreTyped /\ OwnersApart
    <2> SUFFICES ASSUME StoreInit PROVE StoreTyped /\ OwnersApart
          OBVIOUS
    <2>1. <<>> \in Seq(StoreEntry) /\ NoScope \in Scopes
          BY EmptySeq DEF Scopes
    <2>2. StoreTyped
          BY <2>1 DEF StoreInit, StoreTyped, NoSave
    <2>3. OwnersApart
          BY DEF StoreInit, OwnersApart, NoSave
    <2> QED  BY <2>2, <2>3
  <1>2. StoreTyped /\ OwnersApart /\ [StoreNext]_storeVars => (StoreTyped /\ OwnersApart)'
        BY StoreStaysApart
  <1> QED  BY <1>1, <1>2, PTL DEF StoreSpec

(* On a blob host the store of an owner never holds what another saved,    *)
(* in memory or in its blob, whatever is saved, refused, cut or loaded.    *)
THEOREM StoresStayApart == StoreSpec => []OwnersApart
  BY StoreTypedHolds, PTL

-----------------------------------------------------------------------------
(* What a text says is read back as it is; the store in memory holds what  *)
(* the text of its scope says, except for the keys that were touched and   *)
(* for values that were cut.                                               *)
Reads(t) == \A i \in DOMAIN t : ReadBack(t[i].value) = t[i].value
HeldIn(s, e) == \E n \in DOMAIN s : s[n].key = e.key /\ ReadBack(s[n].value) = e.value
Holds(s, t, K) ==
    \A i \in DOMAIN t : t[i].key \in K \/ t[i].value = Garbled \/ HeldIn(s, t[i])

TextsRead ==
    \A o \in Scopes : (~saved[o].there => saved[o].text = <<>>) /\ Reads(saved[o].text)
SavedIsHeld == scope \in Owners => Holds(entries, saved[scope].text, touched)

Forgets(o, k) == ~(Kept(o, k) \subseteq Kept(o, k)')

(* A store saves what it holds.                                            *)
LEMMA TextOfHeld ==
    ASSUME NEW s \in Seq(StoreEntry)
    PROVE  /\ Reads(Text(s))
           /\ \A K : Holds(s, Text(s), K)
           /\ \A e : HeldIn(s, e) =>
                \E i \in DOMAIN Text(s) : Text(s)[i].key = e.key /\ Text(s)[i].value = e.value
  <1>1. \A i \in DOMAIN s : s[i].value \in StoredValues
    <2>1. \A i \in DOMAIN s : s[i] \in StoreEntry
          BY LenProperties, ElementOfSeq
    <2> QED  BY <2>1 DEF StoreEntry
  <1>2. Reads(Text(s))
        BY <1>1, TextKeeps, ReadBackStored DEF Reads
  <1>3. \A i \in DOMAIN Text(s) : HeldIn(s, Text(s)[i])
        BY TextKeeps DEF HeldIn
  <1>4. ASSUME NEW e, HeldIn(s, e)
        PROVE  \E i \in DOMAIN Text(s) : Text(s)[i].key = e.key /\ Text(s)[i].value = e.value
    <2>1. PICK n \in DOMAIN s : s[n].key = e.key /\ ReadBack(s[n].value) = e.value
          BY <1>4 DEF HeldIn
    <2>2. n \in DOMAIN Text(s) /\ Text(s)[n].key = e.key /\ Text(s)[n].value = e.value
          BY <2>1, TextKeeps
    <2> QED  BY <2>2
  <1> QED  BY <1>2, <1>3, <1>4 DEF Holds

(* What is left of a text is read back, and says nothing else but that a   *)
(* value was cut.                                                          *)
LEMMA TornKeeps ==
    ASSUME NEW s \in Seq(StoreEntry), NEW t \in Torn(s)
    PROVE  \A i \in DOMAIN t : t[i].value = Garbled \/ \E j \in DOMAIN s : t[i] = s[j]
  <1>1. Len(s) \in Nat /\ DOMAIN s = 1 .. Len(s) /\ \A i \in 1 .. Len(s) : s[i] \in StoreEntry
        BY LenProperties, ElementOfSeq
  <1>2. ASSUME NEW n \in 0 .. Len(s)
        PROVE  /\ SubSeq(s, 1, n) \in Seq(StoreEntry) /\ Len(SubSeq(s, 1, n)) = n
               /\ DOMAIN SubSeq(s, 1, n) = 1 .. n
               /\ \A i \in 1 .. n : i \in DOMAIN s /\ SubSeq(s, 1, n)[i] = s[i]
    <2>1. n \in Int /\ 1 \in Int /\ \A i \in 1 .. n : s[i] \in StoreEntry
          BY <1>1
    <2>2. /\ SubSeq(s, 1, n) \in Seq(StoreEntry)
          /\ Len(SubSeq(s, 1, n)) = IF 1 <= n THEN n - 1 + 1 ELSE 0
          /\ \A i \in 1 .. n - 1 + 1 : SubSeq(s, 1, n)[i] = s[1 + i - 1]
          BY <2>1, SubSeqProperties
    <2>3. Len(SubSeq(s, 1, n)) = n /\ DOMAIN SubSeq(s, 1, n) = 1 .. n
          BY <2>2, LenProperties
    <2>4. \A i \in 1 .. n : i \in DOMAIN s /\ SubSeq(s, 1, n)[i] = s[i]
          BY <1>1, <2>1, <2>2
    <2> QED  BY <2>2, <2>3, <2>4
  <1>3. ASSUME NEW n \in DOMAIN s,
               t = Append(SubSeq(s, 1, n - 1), [s[n] EXCEPT !.value = Garbled])
        PROVE  \A i \in DOMAIN t : t[i].value = Garbled \/ \E j \in DOMAIN s : t[i] = s[j]
    <2> DEFINE a == SubSeq(s, 1, n - 1)
               e == [s[n] EXCEPT !.value = Garbled]
    <2>1. n - 1 \in 0 .. Len(s)
          BY <1>1
    <2>2. /\ a \in Seq(StoreEntry) /\ Len(a) = n - 1 /\ DOMAIN a = 1 .. n - 1
          /\ \A i \in 1 .. n - 1 : i \in DOMAIN s /\ a[i] = s[i]
          BY <1>2, <2>1
    <2>3. e \in StoreEntry /\ e.value = Garbled
      <3>1. s[n] \in StoreEntry /\ Garbled \in StoredValues
            BY <1>1 DEF StoredValues
      <3> QED  BY <3>1 DEF StoreEntry
    <2>9. t = Append(a, e)
          BY <1>3
    <2> HIDE DEF a, e
    <2>4. /\ t \in Seq(StoreEntry) /\ Len(t) = n - 1 + 1
          /\ \A i \in 1 .. n - 1 : t[i] = a[i]
          /\ t[n - 1 + 1] = e
          BY <2>2, <2>3, <2>9, AppendProperties
    <2>5. DOMAIN t = 1 .. n /\ t[n] = e
          BY <1>1, <2>4, LenProperties
    <2>6. \A i \in 1 .. n : i \in 1 .. n - 1 \/ i = n
          BY <1>1
    <2> QED  BY <2>2, <2>3, <2>4, <2>5, <2>6
  <1>4. ASSUME NEW n \in 0 .. Len(s), t = SubSeq(s, 1, n)
        PROVE  \A i \in DOMAIN t : t[i].value = Garbled \/ \E j \in DOMAIN s : t[i] = s[j]
        BY <1>2, <1>4
  <1>5. \/ \E n \in 0 .. Len(s) : t = SubSeq(s, 1, n)
        \/ \E n \in DOMAIN s : t = Append(SubSeq(s, 1, n - 1), [s[n] EXCEPT !.value = Garbled])
        BY DEF Torn
  <1> QED  BY <1>3, <1>4, <1>5

(* A text that changes nothing forgets nothing.                            *)
LEMMA SavedKeeps ==
    ASSUME NEW o, saved'[o] = saved[o]
    PROVE  \A k \in Keys : ~Forgets(o, k)
  BY DEF Forgets, Kept

(* The store changes, except for the keys of K, and may be saved.          *)
LEMMA ChangeRemembers ==
    ASSUME StoreTyped, TextsRead, NEW s \in Seq(StoreEntry), NEW K,
           scope \in Owners => Holds(s, saved[scope].text, K),
           entries' = s, touched' = K, UNCHANGED scope,
           Write(s) \/ AutoSave(s) \/ UNCHANGED saved
    PROVE  /\ TextsRead' /\ SavedIsHeld'
           /\ \A o \in Owners, k \in Keys : Forgets(o, k) => o = scope /\ (cutting \/ k \in K)
  <1>1. /\ \A o \in Scopes \ {scope} : saved'[o] = saved[o]
        /\ \/ saved' = saved
           \/ saved'[scope].text = Text(s) /\ saved'[scope].there
           \/ cutting /\ saved'[scope].text \in Torn(Text(s)) /\ saved'[scope].there
    <2>1. CASE Write(s) \/ AutoSave(s)
          BY <2>1, WriteKeeps
    <2>2. CASE UNCHANGED saved
          BY <2>2
    <2> QED  BY <2>1, <2>2
  <1>2. CASE saved' = saved
    <2>1. TextsRead' /\ SavedIsHeld'
          BY <1>2 DEF TextsRead, SavedIsHeld
    <2> QED  BY <1>2, <2>1, SavedKeeps
  <1>3. CASE saved'[scope].text = Text(s) /\ saved'[scope].there
    <2>1. TextsRead'
      <3>1. ASSUME NEW o \in Scopes
            PROVE  (~saved'[o].there => saved'[o].text = <<>>) /\ Reads(saved'[o].text)
        <4>1. CASE o = scope
              BY <1>3, <4>1, TextOfHeld
        <4>2. CASE o # scope
              BY <1>1, <4>2 DEF TextsRead
        <4> QED  BY <4>1, <4>2
      <3> QED  BY <3>1 DEF TextsRead
    <2>2. SavedIsHeld'
          BY <1>3, TextOfHeld DEF SavedIsHeld
    <2>3. ASSUME NEW o \in Owners, NEW k \in Keys, Forgets(o, k)
          PROVE  o = scope /\ k \in K
      <3>1. o = scope
            BY <1>1, <2>3, SavedKeeps DEF Scopes
      <3>2. PICK i \in DOMAIN saved[o].text :
                /\ saved[o].text[i].key = k
                /\ saved[o].text[i].value # Garbled
                /\ saved[o].text[i].value \notin Kept(o, k)'
            BY <2>3 DEF Forgets, Kept
      <3>3. ASSUME HeldIn(s, saved[o].text[i]) PROVE FALSE
        <4>1. PICK j \in DOMAIN Text(s) : /\ Text(s)[j].key = k
                                          /\ Text(s)[j].value = saved[o].text[i].value
              BY <3>2, <3>3, TextOfHeld
        <4>2. saved'[o].text = Text(s)
              BY <1>3, <3>1
        <4>3. Text(s)[j].value \in Kept(o, k)'
              BY <3>2, <4>1, <4>2 DEF Kept
        <4> QED  BY <3>2, <4>1, <4>3
      <3>4. saved[o].text[i].key \in K
            BY <3>1, <3>2, <3>3 DEF Holds
      <3> QED  BY <3>1, <3>2, <3>4
    <2> QED  BY <2>1, <2>2, <2>3
  <1>4. CASE cutting /\ saved'[scope].text \in Torn(Text(s)) /\ saved'[scope].there
    <2> DEFINE t == saved'[scope].text
    <2>0. Text(s) \in Seq(StoreEntry) /\ Reads(Text(s))
          BY TextKeeps, TextOfHeld
    <2>1. \A j \in DOMAIN Text(s) : HeldIn(s, Text(s)[j])
          BY TextKeeps DEF HeldIn
    <2>2. \A i \in DOMAIN t : t[i].value = Garbled \/ \E j \in DOMAIN Text(s) : t[i] = Text(s)[j]
          BY <1>4, <2>0, TornKeeps
    <2>3. Reads(t) /\ Holds(s, t, K)
          BY <2>0, <2>1, <2>2, ReadBackAssumption DEF Reads, Holds
    <2>4. TextsRead'
          BY <1>1, <1>4, <2>3 DEF TextsRead
    <2>5. SavedIsHeld'
          BY <2>3 DEF SavedIsHeld
    <2>6. \A o \in Owners, k \in Keys : Forgets(o, k) => o = scope
          BY <1>1, SavedKeeps DEF Scopes
    <2> QED  BY <1>4, <2>4, <2>5, <2>6
  <1> QED  BY <1>1, <1>2, <1>3, <1>4

(* What is loaded is all that the text says.                               *)
LEMMA LoadRemembers ==
    ASSUME StoreTyped, TextsRead, Unreadable = {},
           NEW o \in Scopes, NEW before \in Seq(StoreEntry), NEW tags,
           Load(o, before, tags), scope' = o, UNCHANGED saved
    PROVE  TextsRead' /\ SavedIsHeld'
  <1>1. TextsRead'
        BY DEF TextsRead
  <1>2. CASE saved[o].there
    <2>1. saved[o].text \in Seq(StoreEntry)
          BY DEF StoreTyped
    <2>2. entries' = saved[o].text
          BY <1>2, <2>1, LoadedKeeps DEF Load
    <2>3. Reads(saved[o].text)
          BY DEF TextsRead
    <2> QED  BY <1>1, <2>2, <2>3 DEF SavedIsHeld, Holds, HeldIn, Reads
  <1>3. CASE ~saved[o].there
    <2>1. saved'[o].text = <<>>
          BY <1>3 DEF TextsRead
    <2> QED  BY <1>1, <2>1 DEF SavedIsHeld, Holds
  <1> QED  BY <1>2, <1>3

Remembers ==
    \A s \in Owners : saved'[s] # saved[s] =>
        \A k \in Keys : ~(Kept(s, k) \subseteq Kept(s, k)')
            => s = scope /\ (cutting \/ k \in touched \cup touched')

(* Every step keeps the texts and the memory in agreement, and forgets     *)
(* only what it may.                                                       *)
LEMMA StoreRemembers ==
    ASSUME StoreTyped, TextsRead, SavedIsHeld, Unreadable = {}, [StoreNext]_storeVars
    PROVE  TextsRead' /\ SavedIsHeld' /\ Remembers
  <1> DEFINE Goal == TextsRead' /\ SavedIsHeld' /\ Remembers
  <1>0. /\ entries \in Seq(StoreEntry) /\ <<>> \in Seq(StoreEntry)
        /\ scope \in Scopes /\ NoScope \in Scopes /\ NoScope \notin Owners
        BY EmptySeq, StoreConstants DEF StoreTyped, Scopes
  <1>1. ASSUME NEW s \in Seq(StoreEntry), NEW K,
               scope \in Owners => Holds(s, saved[scope].text, K),
               entries' = s, touched' = K, UNCHANGED scope,
               Write(s) \/ AutoSave(s) \/ UNCHANGED saved
        PROVE  Goal
    <2>1. /\ TextsRead' /\ SavedIsHeld'
          /\ \A o \in Owners, k \in Keys : Forgets(o, k) => o = scope /\ (cutting \/ k \in K)
          BY <1>1, ChangeRemembers
    <2>2. Remembers
          BY <1>1, <2>1 DEF Remembers, Forgets
    <2> QED  BY <2>1, <2>2
  <1>2. ASSUME UNCHANGED saved PROVE Remembers
        BY <1>2 DEF Remembers, Kept
  <1>3. ASSUME NEW o \in Scopes, NEW before \in Seq(StoreEntry), NEW tags,
               Load(o, before, tags), scope' = o, UNCHANGED saved
        PROVE  Goal
        BY <1>2, <1>3, LoadRemembers
  <1>4. ASSUME scope' = NoScope, UNCHANGED saved
        PROVE  Goal
    <2>1. TextsRead'
          BY <1>4 DEF TextsRead
    <2>2. SavedIsHeld'
          BY <1>0, <1>4 DEF SavedIsHeld
    <2> QED  BY <1>2, <1>4, <2>1, <2>2
  <1>5. ASSUME NEW s \in Seq(StoreEntry), NEW k \in Keys,
               \A j \in DOMAIN entries : entries[j].key # k =>
                    \E i \in DOMAIN s : s[i] = entries[j]
        PROVE  scope \in Owners => Holds(s, saved[scope].text, touched \cup {k})
    <2> SUFFICES ASSUME scope \in Owners, NEW i \in DOMAIN saved[scope].text,
                        saved[scope].text[i].key \notin touched \cup {k},
                        saved[scope].text[i].value # Garbled
                 PROVE  HeldIn(s, saved[scope].text[i])
          BY DEF Holds
    <2>1. PICK n \in DOMAIN entries :
                /\ entries[n].key = saved[scope].text[i].key
                /\ ReadBack(entries[n].value) = saved[scope].text[i].value
          BY DEF SavedIsHeld, Holds, HeldIn
    <2>2. \E m \in DOMAIN s : s[m] = entries[n]
          BY <1>5, <2>1
    <2> QED  BY <2>1, <2>2 DEF HeldIn
  <1>6. ASSUME NEW k \in Keys, NEW v \in StoredValues
        PROVE  /\ Put(entries, k, v) \in Seq(StoreEntry)
               /\ scope \in Owners => Holds(Put(entries, k, v), saved[scope].text, touched \cup {k})
    <2>1. Put(entries, k, v) \in Seq(StoreEntry)
          BY <1>0, PutKeeps
    <2>2. \A j \in DOMAIN entries : entries[j].key # k =>
                \E i \in DOMAIN Put(entries, k, v) : Put(entries, k, v)[i] = entries[j]
          BY <1>0, PutKeeps
    <2> QED  BY <1>5, <2>1, <2>2
  <1>7. ASSUME NEW k \in Keys, NEW v \in Values, Save(k, v) PROVE Goal
    <2>1. v \in StoredValues
          BY DEF StoredValues
    <2>2. /\ Put(entries, k, v) \in Seq(StoreEntry)
          /\ scope \in Owners => Holds(Put(entries, k, v), saved[scope].text, touched \cup {k})
          BY <1>6, <2>1
    <2>3. /\ entries' = Put(entries, k, v) /\ touched' = touched \cup {k} /\ UNCHANGED scope
          /\ AutoSave(Put(entries, k, v))
          BY <1>7 DEF Save
    <2> QED  BY <1>1, <2>2, <2>3
  <1>8. ASSUME NEW k \in Keys, SaveLargeTable(k) PROVE Goal
    <2>1. Partial \in StoredValues
          BY DEF StoredValues
    <2>2. /\ Put(entries, k, Partial) \in Seq(StoreEntry)
          /\ scope \in Owners =>
                Holds(Put(entries, k, Partial), saved[scope].text, touched \cup {k})
          BY <1>6, <2>1
    <2>3. /\ entries' = Put(entries, k, Partial) /\ touched' = touched \cup {k}
          /\ UNCHANGED scope /\ UNCHANGED saved
          BY <1>8 DEF SaveLargeTable
    <2> QED  BY <1>1, <2>2, <2>3
  <1>9. ASSUME NEW k \in Keys, Delete(k) PROVE Goal
    <2>1. /\ Without(entries, k) \in Seq(StoreEntry)
          /\ \A j \in DOMAIN entries : entries[j].key # k =>
                \E i \in DOMAIN Without(entries, k) : Without(entries, k)[i] = entries[j]
          BY <1>0, WithoutKeeps
    <2>2. scope \in Owners => Holds(Without(entries, k), saved[scope].text, touched \cup {k})
          BY <1>5, <2>1
    <2>3. /\ entries' = Without(entries, k) /\ touched' = touched \cup {k} /\ UNCHANGED scope
          /\ AutoSave(Without(entries, k))
          BY <1>9 DEF Delete
    <2> QED  BY <1>1, <2>1, <2>2, <2>3
  <1>10. ASSUME Clear PROVE Goal
    <2>1. scope \in Owners => Holds(<<>>, saved[scope].text, Keys)
      <3> SUFFICES ASSUME NEW i \in DOMAIN saved[scope].text
                   PROVE  saved[scope].text[i].key \in Keys
            BY DEF Holds
      <3>1. saved[scope].text \in Seq(StoreEntry)
            BY <1>0 DEF StoreTyped
      <3>2. saved[scope].text[i] \in StoreEntry
            BY <3>1, LenProperties, ElementOfSeq
      <3> QED  BY <3>2 DEF StoreEntry
    <2>2. entries' = <<>> /\ touched' = Keys /\ UNCHANGED scope /\ AutoSave(<<>>)
          BY <1>10 DEF Clear
    <2> QED  BY <1>0, <1>1, <2>1, <2>2
  <1>11. ASSUME Flush PROVE Goal
    <2>1. entries' = entries /\ touched' = touched /\ UNCHANGED scope /\ Write(entries)
          BY <1>11 DEF Flush
    <2>2. scope \in Owners => Holds(entries, saved[scope].text, touched)
          BY DEF SavedIsHeld
    <2> QED  BY <1>0, <1>1, <2>1, <2>2
  <1>12. ASSUME DropPath PROVE Goal
        BY <1>4, <1>12 DEF DropPath
  <1>13. ASSUME Restart PROVE Goal
        BY <1>4, <1>13 DEF Restart
  <1>14. ASSUME Trouble PROVE Goal
    <2>1. TextsRead' /\ SavedIsHeld' /\ UNCHANGED saved
          BY <1>14 DEF Trouble, TextsRead, SavedIsHeld
    <2> QED  BY <1>2, <2>1
  <1>15. ASSUME NEW ns \in Scopes, SetNamespace(ns) PROVE Goal
    <2>1. CASE host = "blob" /\ ns # NoScope
          BY <1>0, <1>3, <1>15, <2>1 DEF SetNamespace
    <2>2. CASE ~(host = "blob" /\ ns # NoScope)
          BY <1>4, <1>15, <2>2 DEF SetNamespace
    <2> QED  BY <2>1, <2>2
  <1>16. ASSUME NEW p \in Scopes, Path(p) PROVE Goal
    <2>1. CASE host = "desktop"
          BY <1>0, <1>3, <1>16, <2>1 DEF Path
    <2>2. CASE host # "desktop"
          BY <1>0, <1>3, <1>16, <2>2 DEF Path
    <2> QED  BY <2>1, <2>2
  <1>17. ASSUME UNCHANGED storeVars PROVE Goal
    <2>1. TextsRead' /\ SavedIsHeld' /\ UNCHANGED saved
          BY <1>17 DEF storeVars, TextsRead, SavedIsHeld
    <2> QED  BY <1>2, <2>1
  <1> QED  BY <1>7, <1>8, <1>9, <1>10, <1>11, <1>12, <1>13, <1>14, <1>15, <1>16, <1>17
           DEF StoreNext

(* If every value that is saved can be read, a value that is kept goes     *)
(* only by a call of its owner for its key after what was kept had been    *)
(* loaded: through restarts, changes of owner, full stores and failed      *)
(* saves, for any number of owners and keys and blobs of any size; only a  *)
(* desktop save that is cut short may lose more, from its own file.        *)
THEOREM NothingIsForgotten == Unreadable = {} => (StoreSpec => NothingForgotten)
  <1> SUFFICES ASSUME Unreadable = {} PROVE StoreSpec => NothingForgotten
        OBVIOUS
  <1>1. StoreInit => TextsRead /\ SavedIsHeld
        BY StoreConstants DEF StoreInit, TextsRead, SavedIsHeld, Reads, NoSave, Scopes
  <1>2. StoreTyped /\ TextsRead /\ SavedIsHeld /\ [StoreNext]_storeVars
            => (TextsRead /\ SavedIsHeld)'
        BY StoreRemembers
  <1>3. StoreTyped /\ TextsRead /\ SavedIsHeld /\ [StoreNext]_storeVars => [Remembers]_storeVars
        BY StoreRemembers
  <1>4. StoreSpec => [][Remembers]_storeVars
        BY <1>1, <1>2, <1>3, StoreTypedHolds, PTL DEF StoreSpec
  <1> QED  BY <1>4 DEF NothingForgotten, Remembers

=============================================================================
