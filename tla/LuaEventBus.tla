---------------------------- MODULE LuaEventBus ----------------------------
(***************************************************************************)
(* engine.event: the channels of named events, their subscribers, and the  *)
(* registry references that keep the handlers of scripts alive.            *)
(*                                                                         *)
(* emit takes a snapshot of the references of a channel and then calls     *)
(* them one by one.  A handler may subscribe, unsubscribe and emit, also   *)
(* the event being emitted, so emits nest; the snapshot of an outer emit   *)
(* holds numbers of registry slots that an inner call may have freed and   *)
(* given to somebody else.                                                 *)
(*                                                                         *)
(* The registry is Lua's, and the bus is one of its users: timers, states, *)
(* tweens and coroutines take numbers of it and give them back, also while *)
(* an emit runs.  luaL_ref may return any number that is free.  What a     *)
(* slot holds is named by the id of the subscription it was made for.      *)
(***************************************************************************)
EXTENDS Naturals, Sequences, SequencesExt

CONSTANTS
    Names,          \* event names
    Stored,         \* a name as a channel keeps it, cut to MAX_NAME_LEN
    None,           \* no name
    Refs,           \* numbers luaL_ref may return (bounds the registry)
    MaxChannels,    \* MAX_CHANNELS
    MaxSubs,        \* MAX_SUBS_PER_CH
    MaxId,          \* bounds m_nextId
    MaxDepth        \* bounds the nesting of emits

ASSUME NameAssumption == None \notin Names
ASSUME BusAssumption ==
    /\ Stored \in [Names -> Names]
    /\ MaxChannels \in Nat \ {0} /\ MaxSubs \in Nat \ {0}
    /\ MaxId \in Nat /\ MaxDepth \in Nat

VARIABLES
    channels,   \* m_channels
    nextId,     \* m_nextId
    armed,      \* m_L is not null
    registry,   \* for whom each registry slot was taken, 0 if it is free
    emits       \* the calls of emit that have not returned, innermost last

vars == <<channels, nextId, armed, registry, emits>>

(* What a registry slot holds that nobody will release, and what it holds  *)
(* for another user.                                                       *)
Leaked == MaxId + 1
Other  == MaxId + 2

Free == [id |-> 0, ref |-> 0]
NoChannel == [name |-> None, subs |-> [s \in 1 .. MaxSubs |-> Free]]
ChannelSlots == 1 .. MaxChannels
SubSlots == 1 .. MaxSubs

Subscribed(id) ==
    \E c \in ChannelSlots, s \in SubSlots : channels[c].subs[s].id = id

(* findChannel: what a channel keeps is compared with the whole name.      *)
Channel(name) == {c \in ChannelSlots : channels[c].name = name}

(* findOrCreateChannel: the channel of the name, or the first inactive one.*)
FoundOrCreated(name) ==
    IF Channel(name) # {} THEN Channel(name)
    ELSE {c \in Channel(None) : \A d \in Channel(None) : c <= d}

LowestFree(subs) ==
    {s \in SubSlots : subs[s].id = 0 /\ \A t \in SubSlots : subs[t].id = 0 => s <= t}

(* A script runs between emits, and in the handler of the innermost one.   *)
Script == emits # <<>> => Last(emits).calling

(* luaL_ref and luaL_unref: a number that is free is taken, or given back. *)
FreeRefs == {r \in Refs : registry[r] = 0}
Taken(r, for) == [registry EXCEPT ![r] = for]

-----------------------------------------------------------------------------
(* engine.event.on: the binding takes a reference, the bus a slot.         *)
On(name) ==
    /\ Script /\ armed
    /\ nextId <= MaxId
    /\ \E c \in FoundOrCreated(name), r \in FreeRefs :
        \E s \in LowestFree(channels[c].subs) :
            /\ channels' = [channels EXCEPT ![c].name = IF @ = None THEN Stored[name] ELSE @,
                                ![c].subs[s] = [id |-> nextId, ref |-> r]]
            /\ registry' = Taken(r, nextId)
    /\ nextId' = nextId + 1
    /\ UNCHANGED <<armed, emits>>

(* (Slip: the reference that the binding took is not given back.)          *)
RefusedKeepsRef(name) ==
    /\ Script /\ armed
    /\ \A c \in FoundOrCreated(name) : LowestFree(channels[c].subs) = {}
    /\ \E r \in FreeRefs : registry' = Taken(r, nextId)
    /\ UNCHANGED <<channels, nextId, armed, emits>>

(* The same with the channels, or the subscribers of the channel, full: it *)
(* answers 0, and the reference that the binding took is given back.       *)
OnRefused(name) ==
    /\ Script /\ armed
    /\ \A c \in FoundOrCreated(name) : LowestFree(channels[c].subs) = {}
    /\ \E r \in FreeRefs : registry' = [Taken(r, nextId) EXCEPT ![r] = 0]
    /\ UNCHANGED <<channels, nextId, armed, emits>>

(* The same without a Lua state: it answers 0 and keeps the reference that *)
(* the binding has just taken.                                             *)
OnDisarmed ==
    /\ Script /\ ~armed
    /\ \E r \in FreeRefs : registry' = Taken(r, Leaked)
    /\ UNCHANGED <<channels, nextId, armed, emits>>

(* Another user takes a number, for a callback, a table or a thread.       *)
OtherTakes ==
    /\ Script
    /\ \E r \in FreeRefs : registry' = Taken(r, Other)
    /\ UNCHANGED <<channels, nextId, armed, emits>>

(* ... and gives one back.                                                 *)
OtherGives(r) ==
    /\ Script
    /\ registry[r] = Other
    /\ registry' = [registry EXCEPT ![r] = 0]
    /\ UNCHANGED <<channels, nextId, armed, emits>>

(* (Slip: the reference is released, but the slot stays in use.)           *)
OffKeepsSlot(id) ==
    /\ Script /\ armed
    /\ \E c \in ChannelSlots, s \in SubSlots :
        /\ channels[c].name # None /\ channels[c].subs[s].id = id
        /\ registry' = [registry EXCEPT ![channels[c].subs[s].ref] = 0]
    /\ UNCHANGED <<channels, nextId, armed, emits>>

(* engine.event.off: an id that is not in use is ignored.                  *)
Off(id) ==
    /\ Script
    /\ \E c \in ChannelSlots, s \in SubSlots :
        /\ channels[c].name # None /\ channels[c].subs[s].id = id
        /\ channels' = [channels EXCEPT ![c].subs[s] = Free]
        /\ registry' = IF armed THEN [registry EXCEPT ![channels[c].subs[s].ref] = 0]
                       ELSE registry
    /\ UNCHANGED <<nextId, armed, emits>>

(* engine.event.emit, up to its first call: the snapshot lists the         *)
(* subscribers of the channel in the order of their slots.  (Of these the  *)
(* code keeps the references; the ids, and from, the first id that was not *)
(* given yet, are history.)                                                *)
Emit(name) ==
    /\ Script /\ armed
    /\ Len(emits) < MaxDepth
    /\ \E c \in Channel(name), n \in 0 .. MaxSubs : \E slot \in [1 .. n -> SubSlots] :
        /\ \A k, l \in 1 .. n : k < l => slot[k] < slot[l]
        /\ \A s \in SubSlots : channels[c].subs[s].id # 0 <=> \E k \in 1 .. n : slot[k] = s
        /\ emits' = Append(emits, [snapshot |-> [k \in 1 .. n |-> channels[c].subs[slot[k]]],
                                  at |-> 0, calling |-> FALSE, from |-> nextId])
    /\ UNCHANGED <<channels, nextId, armed, registry>>

(* The loop over the snapshot.                                             *)
Top == Last(emits)
SetTop(at, calling) ==
    emits' = [emits EXCEPT ![Len(emits)].at = at, ![Len(emits)].calling = calling]

Turn == emits # <<>> /\ ~Top.calling /\ Top.at < Len(Top.snapshot)

(* (Slip: the loop ends at the first reference that is not a function.)    *)
StopAtRemoved ==
    /\ Turn
    /\ LET next == Top.at + 1 IN
        \/ registry[Top.snapshot[next].ref] # 0 /\ SetTop(next, TRUE)
        \/ registry[Top.snapshot[next].ref] = 0 /\ SetTop(Len(Top.snapshot), FALSE)
    /\ UNCHANGED <<channels, nextId, armed, registry>>

(* A reference that is not a function any more is skipped: it is free, or  *)
(* another user has a table or a thread there.  A function is called, and  *)
(* nothing tells whose it is.                                              *)
CallNext ==
    /\ Turn
    /\ LET next == Top.at + 1 IN
        \/ registry[Top.snapshot[next].ref] # 0 /\ SetTop(next, TRUE)
        \/ registry[Top.snapshot[next].ref] \in {0, Other} /\ SetTop(next, FALSE)
    /\ UNCHANGED <<channels, nextId, armed, registry>>

(* The handler returns, or raises: the error is printed.                   *)
HandlerReturns ==
    /\ emits # <<>> /\ Top.calling
    /\ SetTop(Top.at, FALSE)
    /\ UNCHANGED <<channels, nextId, armed, registry>>

EmitReturns ==
    /\ emits # <<>> /\ ~Top.calling /\ Top.at = Len(Top.snapshot)
    /\ emits' = Front(emits)
    /\ UNCHANGED <<channels, nextId, armed, registry>>

(* clearHandlers.                                                          *)
ClearHandlers ==
    /\ channels' = IF armed THEN [c \in ChannelSlots |-> NoChannel] ELSE channels
    /\ registry' = [r \in Refs |->
            IF armed /\ \E c \in ChannelSlots, s \in SubSlots :
                            channels[c].subs[s].id # 0 /\ channels[c].subs[s].ref = r
            THEN 0 ELSE registry[r]]

(* setActiveScene, between frames.                                         *)
SetActiveScene ==
    /\ emits = <<>>
    /\ ClearHandlers
    /\ armed' = FALSE
    /\ UNCHANGED <<nextId, emits>>

(* A script is loaded, or reloaded: clearHandlers, then setLuaState.       *)
LoadScript ==
    /\ emits = <<>>
    /\ ClearHandlers
    /\ armed' = TRUE
    /\ UNCHANGED <<nextId, emits>>

-----------------------------------------------------------------------------
Init ==
    /\ channels = [c \in ChannelSlots |-> NoChannel]
    /\ nextId = 1
    /\ armed = FALSE
    /\ registry = [r \in Refs |-> 0]
    /\ emits = <<>>

Next ==
    \/ \E name \in Names : On(name) \/ OnRefused(name) \/ Emit(name)
    \/ OnDisarmed
    \/ OtherTakes
    \/ \E r \in Refs : OtherGives(r)
    \/ \E id \in 1 .. MaxId : Off(id)
    \/ CallNext
    \/ HandlerReturns
    \/ EmitReturns
    \/ SetActiveScene
    \/ LoadScript

Spec == Init /\ [][Next]_vars

-----------------------------------------------------------------------------
Subscriber == [id : 0 .. MaxId, ref : Refs \cup {0}]
Snapshot == [snapshot : Seq(Subscriber), at : Nat, calling : BOOLEAN, from : Nat]

(* Every variable holds a value its C++ declaration allows; a snapshot is  *)
(* no longer than the array it is copied to, and read within it.           *)
TypeOK ==
    /\ channels \in [ChannelSlots -> [name : Names \cup {None}, subs : [SubSlots -> Subscriber]]]
    /\ nextId \in 1 .. MaxId + 1
    /\ armed \in BOOLEAN
    /\ registry \in [Refs -> 0 .. Other]
    /\ emits \in Seq(Snapshot)
    /\ \A e \in DOMAIN emits :
        Len(emits[e].snapshot) <= MaxSubs /\ emits[e].at <= Len(emits[e].snapshot)

(* The reference of a subscription is its own: it is taken as long as the  *)
(* subscription lasts, nobody else releases it, and it is released with it *)
(* or at once if there is no room for it (but for those that on took while *)
(* the bus had no Lua state).                                              *)
RefsMatch ==
    \A r \in Refs :
        /\ registry[r] \notin {0, Leaked, Other} => \E c \in ChannelSlots, s \in SubSlots :
                                channels[c].subs[s] = [id |-> registry[r], ref |-> r]
        /\ \A c \in ChannelSlots, s \in SubSlots :
                channels[c].subs[s].id # 0 /\ channels[c].subs[s].ref = r
                    => registry[r] = channels[c].subs[s].id

(* An emit calls the handlers it found when it began, each as it was       *)
(* listed.  A number whose handler is gone may have been taken again, and  *)
(* what holds it now is called in its place: but only what took it after   *)
(* the emit began, never a handler that was there before and was not       *)
(* listed, or has its turn elsewhere.                                      *)
CallsItsSnapshot ==
    [][emits' # <<>> /\ Len(emits') = Len(emits) /\ ~Top.calling /\ Last(emits').calling =>
            LET sub  == Top.snapshot[Last(emits').at]
                held == registry[sub.ref]
            IN  \/ held = sub.id
                \/ ~Subscribed(sub.id) /\ held \in {Other} \cup (Top.from .. MaxId)]_vars

(* An emit calls its handlers in turn, and passes over one only if it was  *)
(* removed.                                                                *)
SkipsOnlyRemoved ==
    [][/\ emits # <<>> /\ Len(emits') < Len(emits) => Top.at = Len(Top.snapshot)
       /\ emits # <<>> /\ Len(emits') = Len(emits) /\ ~Top.calling =>
            /\ Last(emits').at = Top.at + 1
            /\ ~Last(emits').calling => ~Subscribed(Top.snapshot[Top.at + 1].id)]_vars

=============================================================================
