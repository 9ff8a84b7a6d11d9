---------------------------- MODULE LayeredAssets ----------------------------
(***************************************************************************)
(* The asset arena of an applet and those who share it: the store of       *)
(* layered assets with the sprites that retain its views                   *)
(* (src/graphics/asset_arena.cpp, layered_asset.cpp), and the pets built   *)
(* from shape packs, which carve their buffers from it and keep them       *)
(* (src/shape/shape_pack_group.cpp).                                       *)
(*                                                                         *)
(* The arena only has a cursor; who owns which bytes is nowhere written    *)
(* down.  A block is lost, or given to two owners, when a rollback goes    *)
(* too far or not far enough.                                              *)
(***************************************************************************)
EXTENDS Integers, FiniteSets

CONSTANTS
    MaxAssets,     \* MAX_ASSETS
    Capacity,      \* bytes of the arena
    AssetAlign,    \* ALIGNMENT, of the store's blocks
    GroupAlign,    \* the 8 of the groups' blocks
    AssetSizes, LookSizes, HitBytes,   \* bytes of the blocks
    Sprites, Groups

ASSUME Sizes ==
    /\ MaxAssets \in Nat /\ Capacity \in Nat
    /\ {AssetAlign, GroupAlign, HitBytes} \subseteq Nat \ {0}
    /\ IsFiniteSet(Sprites)
    /\ AssetSizes \subseteq Nat \ {0} /\ LookSizes \subseteq Nat \ {0}

Handles == 0 .. MaxAssets - 1

VARIABLES
    used,       \* the cursor of the arena
    slots,      \* the registry of the store
    sprite,     \* the handle each sprite has retained, or INVALID_HANDLE
    view,       \* where the block of each sprite's view is
    group,      \* the blocks each pet keeps
    inOrder     \* every asset so far was the last block of those in use when it went

vars == <<used, slots, sprite, view, group, inOrder>>

INVALID_HANDLE == -1
Nothing == [start |-> 0, at |-> 0, end |-> 0]
Free    == [used |-> FALSE, live |-> FALSE, refs |-> 0, block |-> Nothing]
NoGroup == [buffer |-> Nothing, hits |-> Nothing]

-----------------------------------------------------------------------------
(* The arena.                                                              *)
AlignUp(n, alignment) == n + ((alignment - (n % alignment)) % alignment)

CanAllocate(from, size, alignment) ==
    /\ AlignUp(from, alignment) <= Capacity
    /\ size <= Capacity - AlignUp(from, alignment)

(* The block an allocation takes: from the cursor, past the padding.       *)
Block(from, size, alignment) ==
    [start |-> from, at |-> AlignUp(from, alignment),
     end |-> AlignUp(from, alignment) + size]

Rollback(mark, cursor) == IF mark <= cursor THEN mark ELSE cursor

-----------------------------------------------------------------------------
(* The blocks in use, each with its padding.                               *)
Blocks == {slots[h].block : h \in Handles}
          \cup UNION {{group[g].buffer, group[g].hits} : g \in Groups}

FirstFree(h) == ~slots[h].used /\ \A k \in 0 .. h - 1 : slots[k].used

(* load and loadFromMemory.                                                *)
Load(size) ==
    /\ CanAllocate(used, size, AssetAlign)
    /\ \E h \in Handles :
        /\ FirstFree(h)
        /\ slots' = [slots EXCEPT ![h] = [used |-> TRUE, live |-> TRUE, refs |-> 0,
                                          block |-> Block(used, size, AssetAlign)]]
    /\ used' = Block(used, size, AssetAlign).end
    /\ UNCHANGED <<sprite, view, group, inOrder>>

(* (Slip: the padding before the block is not given back.)                 *)
ClearSlotKeepsPadding(h) ==
    /\ slots' = [slots EXCEPT ![h] = Free]
    /\ used' = IF slots[h].block.end = used THEN Rollback(slots[h].block.at, used) ELSE used
    /\ inOrder' = (inOrder /\ \A b \in Blocks : b.end <= slots[h].block.end)
    /\ UNCHANGED group

(* (Slip: the cursor goes back whatever lies above.)                       *)
ClearSlotAlways(h) ==
    /\ slots' = [slots EXCEPT ![h] = Free]
    /\ used' = Rollback(slots[h].block.start, used)
    /\ inOrder' = (inOrder /\ \A b \in Blocks : b.end <= slots[h].block.end)
    /\ UNCHANGED group

(* clearSlot: the bytes come back if the block is the last one.            *)
ClearSlot(h) ==
    /\ slots' = [slots EXCEPT ![h] = Free]
    /\ used' = IF slots[h].block.end = used THEN Rollback(slots[h].block.start, used) ELSE used
    /\ inOrder' = (inOrder /\ \A b \in Blocks : b.end <= slots[h].block.end)
    /\ UNCHANGED group

(* retain, and bind.                                                       *)
Retain(s, h) ==
    /\ sprite[s] = INVALID_HANDLE /\ slots[h].used /\ slots[h].live
    /\ slots' = [slots EXCEPT ![h].refs = @ + 1]
    /\ sprite' = [sprite EXCEPT ![s] = h]
    /\ view' = [view EXCEPT ![s] = slots[h].block]
    /\ UNCHANGED <<used, group, inOrder>>

(* release, and unbind.                                                    *)
Release(s) ==
    LET h == sprite[s] IN
    /\ h # INVALID_HANDLE /\ slots[h].used
    /\ sprite' = [sprite EXCEPT ![s] = INVALID_HANDLE]
    /\ view' = [view EXCEPT ![s] = Nothing]
    /\ IF slots[h].refs <= 1 /\ ~slots[h].live THEN ClearSlot(h)
       ELSE /\ slots' = [slots EXCEPT ![h].refs = IF @ > 0 THEN @ - 1 ELSE @]
            /\ UNCHANGED <<used, group, inOrder>>

(* (Slip: free gives the bytes back at once.)                              *)
FreeAtOnce(h) ==
    /\ slots[h].used /\ slots[h].live
    /\ ClearSlot(h)
    /\ UNCHANGED <<sprite, view>>

(* free: the public handle goes, the bytes when nobody retains them.       *)
FreeHandle(h) ==
    /\ slots[h].used /\ slots[h].live
    /\ IF slots[h].refs = 0 THEN ClearSlot(h)
       ELSE /\ slots' = [slots EXCEPT ![h].live = FALSE]
            /\ UNCHANGED <<used, group, inOrder>>
    /\ UNCHANGED <<sprite, view>>

-----------------------------------------------------------------------------
(* build: a buffer for the Look if the pet's own is too small, the hit     *)
(* masks if it has none; all or nothing.                                   *)
Bytes(b) == b.end - b.at

Build(g, size, good) ==
    LET carve  == size > Bytes(group[g].buffer)
        buffer == IF carve THEN Block(used, size, GroupAlign) ELSE group[g].buffer
        cursor == IF carve THEN buffer.end ELSE used
        mask   == group[g].hits = Nothing
        hits   == IF mask THEN Block(cursor, HitBytes, GroupAlign) ELSE group[g].hits
        fits   == /\ carve => CanAllocate(used, size, GroupAlign)
                  /\ mask  => CanAllocate(cursor, HitBytes, GroupAlign)
        reached == IF mask /\ fits THEN hits.end ELSE cursor
    IN  IF fits /\ good
        THEN /\ used' = reached
             /\ group' = [group EXCEPT ![g].buffer = buffer, ![g].hits = hits]
             /\ inOrder' = (inOrder /\ (carve => group[g].buffer = Nothing))
             /\ UNCHANGED <<slots, sprite, view>>
        ELSE /\ used' = Rollback(used, reached)
             /\ UNCHANGED <<slots, sprite, view, group, inOrder>>

(* The applet ends: the pets forget their memory, the sprites are gone,    *)
(* reclaimAll.                                                             *)
Teardown ==
    /\ used' = 0
    /\ slots' = [h \in Handles |-> Free]
    /\ sprite' = [s \in Sprites |-> INVALID_HANDLE]
    /\ view' = [s \in Sprites |-> Nothing]
    /\ group' = [g \in Groups |-> NoGroup]
    /\ inOrder' = TRUE

Init ==
    /\ used = 0
    /\ slots = [h \in Handles |-> Free]
    /\ sprite = [s \in Sprites |-> INVALID_HANDLE]
    /\ view = [s \in Sprites |-> Nothing]
    /\ group = [g \in Groups |-> NoGroup]
    /\ inOrder = TRUE

Next ==
    \/ \E size \in AssetSizes : Load(size)
    \/ \E s \in Sprites, h \in Handles : Retain(s, h)
    \/ \E s \in Sprites : Release(s)
    \/ \E h \in Handles : FreeHandle(h)
    \/ \E g \in Groups, size \in LookSizes, good \in BOOLEAN : Build(g, size, good)
    \/ Teardown

Spec == Init /\ [][Next]_vars

-----------------------------------------------------------------------------
Owners == ({"asset"} \X Handles) \cup ({"buffer", "hits"} \X Groups)
BlockOf(o) == CASE o[1] = "asset"  -> slots[o[2]].block
                [] o[1] = "buffer" -> group[o[2]].buffer
                [] OTHER           -> group[o[2]].hits

IsBlock(b) == /\ b \in [start : Nat, at : Nat, end : Nat]
              /\ b = Nothing \/ (b.start <= b.at /\ b.at < b.end)

TypeOK ==
    /\ used \in 0 .. Capacity
    /\ slots \in [Handles -> [used : BOOLEAN, live : BOOLEAN, refs : Nat,
                             block : [start : Nat, at : Nat, end : Nat]]]
    /\ sprite \in [Sprites -> Handles \cup {INVALID_HANDLE}]
    /\ view \in [Sprites -> [start : Nat, at : Nat, end : Nat]]
    /\ group \in [Groups -> [buffer : [start : Nat, at : Nat, end : Nat],
                             hits : [start : Nat, at : Nat, end : Nat]]]
    /\ inOrder \in BOOLEAN
    /\ \A h \in Handles : slots[h].used <=> slots[h].block # Nothing
    /\ \A o \in Owners : IsBlock(BlockOf(o))

(* No byte has two owners, and none is handed out again while it has one:  *)
(* the blocks of the assets and of the pets lie apart, below the cursor,   *)
(* after any loads, frees, builds and failed builds (asset_arena.cpp:66).  *)
BlocksApart ==
    /\ \A o \in Owners : BlockOf(o).end <= used
    /\ \A o, p \in Owners :
        o # p => \/ BlockOf(o) = Nothing
                 \/ BlockOf(p) = Nothing
                 \/ BlockOf(o).end <= BlockOf(p).start
                 \/ BlockOf(p).end <= BlockOf(o).start

(* "free(handle) invalidates the public handle but never the bytes: a      *)
(* retained instance keeps a valid view until it releases"                 *)
(* (layered_asset.hpp:29-33): the slot counts the sprites that hold it,    *)
(* and its block is the one they look at.                                  *)
ViewsHold ==
    /\ \A s \in Sprites : sprite[s] # INVALID_HANDLE =>
        slots[sprite[s]].used /\ view[s] = slots[sprite[s]].block
    /\ \A h \in Handles : slots[h].refs = Cardinality({s \in Sprites : sprite[s] = h})

(* As long as assets go in the reverse of the order in which the arena     *)
(* gave out its blocks, and no pet outgrows its buffer, no byte is lost:   *)
(* below the cursor every byte has an owner (layered_asset.hpp:35-39).     *)
NothingLost ==
    inOrder =>
        /\ used = 0 \/ \E o \in Owners : BlockOf(o).end = used
        /\ \A o \in Owners : BlockOf(o).start > 0 =>
               \E p \in Owners : BlockOf(p).end = BlockOf(o).start

=============================================================================
