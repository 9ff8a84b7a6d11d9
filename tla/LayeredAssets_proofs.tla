------------------------ MODULE LayeredAssets_proofs ------------------------
(* Proofs of the properties of LayeredAssets, for every capacity, every    *)
(* alignment and every set of sizes, sprites and pets.                     *)
EXTENDS LayeredAssets, FiniteSetTheorems, TLAPS

BlockRecords == [start : Nat, at : Nat, end : Nat]

(* An allocation starts at or after the cursor.                            *)
LEMMA AlignUpBounds ==
    ASSUME NEW n \in Nat, NEW a \in Nat \ {0}
    PROVE  AlignUp(n, a) \in Nat /\ n <= AlignUp(n, a)
  <1>1. n % a \in 0 .. a - 1
        OBVIOUS
  <1>2. (a - (n % a)) \in 1 .. a
        BY <1>1
  <1>3. (a - (n % a)) % a \in 0 .. a - 1
        BY <1>2
  <1> QED  BY <1>3 DEF AlignUp

LEMMA BlockShape ==
    ASSUME NEW from \in Nat, NEW size \in Nat \ {0}, NEW a \in Nat \ {0}
    PROVE  LET b == Block(from, size, a) IN
           /\ b \in BlockRecords
           /\ b.start = from /\ b.start <= b.at /\ b.at < b.end
           /\ CanAllocate(from, size, a) => b.end <= Capacity
  <1>1. AlignUp(from, a) \in Nat /\ from <= AlignUp(from, a)
        BY AlignUpBounds
  <1> QED  BY <1>1, Sizes DEF Block, CanAllocate, BlockRecords

(* The owners of blocks, one by one.                                       *)
LEMMA OwnerCases ==
    ASSUME NEW o \in Owners
    PROVE  \/ \E h \in Handles : o = <<"asset", h>> /\ BlockOf(o) = slots[h].block
                                                    /\ BlockOf(o)' = slots'[h].block
           \/ \E g \in Groups : o = <<"buffer", g>> /\ BlockOf(o) = group[g].buffer
                                                    /\ BlockOf(o)' = group'[g].buffer
           \/ \E g \in Groups : o = <<"hits", g>> /\ BlockOf(o) = group[g].hits
                                                  /\ BlockOf(o)' = group'[g].hits
  <1>1. CASE o \in {"asset"} \X Handles
        BY <1>1 DEF BlockOf
  <1>2. CASE o \in {"buffer", "hits"} \X Groups
        BY <1>2 DEF BlockOf
  <1> QED  BY <1>1, <1>2 DEF Owners

LEMMA OwnerBlocks ==
    /\ \A h \in Handles : /\ <<"asset", h>> \in Owners
                          /\ BlockOf(<<"asset", h>>) = slots[h].block
    /\ \A g \in Groups : /\ <<"buffer", g>> \in Owners /\ <<"hits", g>> \in Owners
                         /\ BlockOf(<<"buffer", g>>) = group[g].buffer
                         /\ BlockOf(<<"hits", g>>) = group[g].hits
  BY DEF Owners, BlockOf

LEMMA BlockTypes ==
    ASSUME TypeOK, NEW o \in Owners
    PROVE  /\ BlockOf(o) \in BlockRecords
           /\ BlockOf(o) # Nothing => BlockOf(o).start < BlockOf(o).end
           /\ BlockOf(o).start <= BlockOf(o).end
  BY DEF TypeOK, IsBlock, BlockRecords, Nothing

-----------------------------------------------------------------------------
(* How a step may change the blocks: the owners in New get theirs beyond   *)
(* the cursor, the others keep theirs or lose them.                        *)
LEMMA ApartKept ==
    ASSUME TypeOK, TypeOK', BlocksApart, NEW New \in SUBSET Owners,
           \A o \in Owners \ New : BlockOf(o)' = BlockOf(o) \/ BlockOf(o)' = Nothing,
           \A o \in New : used <= BlockOf(o)'.start,
           \A o, p \in New : o # p => \/ BlockOf(o)'.end <= BlockOf(p)'.start
                                      \/ BlockOf(p)'.end <= BlockOf(o)'.start,
           \A o \in Owners : BlockOf(o)'.end <= used'
    PROVE  BlocksApart'
  <1>1. \A o \in Owners : /\ BlockOf(o) \in BlockRecords
                          /\ BlockOf(o)' \in BlockRecords
                          /\ BlockOf(o).end <= used
        BY DEF TypeOK, IsBlock, BlockRecords, BlocksApart
  <1>2. used \in Nat /\ used' \in Nat
        BY Sizes DEF TypeOK
  <1>3. Owners' = Owners
        BY DEF Owners, Handles
  <1>4. ASSUME NEW o \in Owners, NEW p \in Owners, o # p,
               BlockOf(o)' # Nothing, BlockOf(p)' # Nothing
        PROVE  BlockOf(o)'.end <= BlockOf(p)'.start \/ BlockOf(p)'.end <= BlockOf(o)'.start
    <2>1. CASE o \in New /\ p \in New
          BY <1>4, <2>1
    <2>2. CASE o \in New /\ p \notin New
      <3>1. BlockOf(p)' = BlockOf(p)
            BY <1>4, <2>2
      <3> QED  BY <3>1, <2>2, <1>1, <1>2 DEF BlockRecords
    <2>3. CASE o \notin New /\ p \in New
      <3>1. BlockOf(o)' = BlockOf(o)
            BY <1>4, <2>3
      <3> QED  BY <3>1, <2>3, <1>1, <1>2 DEF BlockRecords
    <2>4. CASE o \notin New /\ p \notin New
      <3>1. BlockOf(o)' = BlockOf(o) /\ BlockOf(p)' = BlockOf(p)
            BY <1>4, <2>4
      <3> QED  BY <3>1, <1>4 DEF BlocksApart
    <2> QED  BY <2>1, <2>2, <2>3, <2>4
  <1>5. \A o, p \in Owners :
            o # p => \/ BlockOf(o)' = Nothing \/ BlockOf(p)' = Nothing
                     \/ BlockOf(o)'.end <= BlockOf(p)'.start
                     \/ BlockOf(p)'.end <= BlockOf(o)'.start
        BY <1>4
  <1> QED  BY <1>3, <1>5 DEF BlocksApart

(* With the blocks of all owners the same, so is what is said of them.     *)
LEMMA SameBlocks ==
    ASSUME UNCHANGED <<used, group>>, \A h \in Handles : slots'[h].block = slots[h].block
    PROVE  /\ BlocksApart => BlocksApart'
           /\ NothingLost /\ (inOrder' => inOrder) => NothingLost'
  <1>1. \A o \in Owners : BlockOf(o)' = BlockOf(o)
        BY OwnerCases
  <1>2. Owners' = Owners
        BY DEF Owners, Handles
  <1> QED  BY <1>1, <1>2 DEF BlocksApart, NothingLost

-----------------------------------------------------------------------------
IInv == TypeOK /\ BlocksApart /\ ViewsHold /\ NothingLost

LEMMA InitInv == Init => IInv
  <1> SUFFICES ASSUME Init PROVE IInv
      OBVIOUS
  <1>1. \A o \in Owners : BlockOf(o) = Nothing
        BY OwnerCases DEF Init, Free, NoGroup
  <1>2. TypeOK
        BY <1>1, Sizes DEF Init, TypeOK, Free, Nothing, NoGroup, IsBlock, INVALID_HANDLE
  <1>3. BlocksApart
        BY <1>1 DEF BlocksApart, Init, Nothing
  <1>4. ViewsHold
    <2>1. {s \in Sprites : sprite[s] = INVALID_HANDLE} = Sprites
          BY DEF Init
    <2>2. \A h \in Handles : {s \in Sprites : sprite[s] = h} = {}
          BY DEF Init, Handles, INVALID_HANDLE
    <2> QED  BY <2>2, FS_EmptySet DEF ViewsHold, Init, Free
  <1>5. NothingLost
        BY <1>1 DEF NothingLost, Init, Nothing
  <1> QED  BY <1>2, <1>3, <1>4, <1>5 DEF IInv

(* A free slot gets the block at the cursor.                               *)
LEMMA LoadInv ==
    ASSUME IInv, NEW size \in AssetSizes, Load(size)
    PROVE  IInv'
  <1> USE DEF IInv
  <1> DEFINE b == Block(used, size, AssetAlign)
  <1>1. PICK h \in Handles :
            /\ FirstFree(h)
            /\ slots' = [slots EXCEPT ![h] = [used |-> TRUE, live |-> TRUE, refs |-> 0, block |-> b]]
        BY DEF Load
  <1>2. /\ used' = b.end /\ CanAllocate(used, size, AssetAlign)
        /\ UNCHANGED <<sprite, view, group, inOrder>>
        BY DEF Load
  <1>3. used \in Nat /\ size \in Nat \ {0} /\ AssetAlign \in Nat \ {0}
        BY Sizes DEF TypeOK
  <1>4. /\ b \in BlockRecords /\ b.start = used /\ b.start <= b.at /\ b.at < b.end
        /\ b.end <= Capacity
        BY <1>2, <1>3, BlockShape
  <1>5. slots[h].block = Nothing /\ ~slots[h].used
        BY <1>1 DEF FirstFree, TypeOK
  <1> HIDE DEF b
  <1>6. b # Nothing /\ b.end \in Nat
        BY <1>4 DEF Nothing, BlockRecords
  <1> DEFINE x == <<"asset", h>>
  <1>7. x \in Owners /\ BlockOf(x) = Nothing /\ BlockOf(x)' = b
    <2>1. x \in Owners /\ BlockOf(x) = slots[h].block /\ BlockOf(x)' = slots'[h].block
          BY DEF Owners, BlockOf
    <2> QED  BY <2>1, <1>1, <1>5 DEF TypeOK
  <1>8. \A o \in Owners \ {x} : BlockOf(o)' = BlockOf(o)
        BY OwnerCases, <1>1, <1>2 DEF TypeOK
  <1>9. TypeOK'
    <2>1. \A o \in Owners : IsBlock(BlockOf(o))'
          BY <1>4, <1>7, <1>8 DEF TypeOK, IsBlock, BlockRecords
    <2>2. Owners' = Owners
          BY DEF Owners, Handles
    <2>3. /\ used' \in 0 .. Capacity
          /\ (\A i \in Handles : slots[i].used <=> slots[i].block # Nothing)'
          BY <1>1, <1>2, <1>4, <1>6, Sizes DEF TypeOK, BlockRecords
    <2>4. slots' \in [Handles -> [used : BOOLEAN, live : BOOLEAN, refs : Nat, block : BlockRecords]]
          BY <1>1, <1>4 DEF TypeOK, BlockRecords
    <2> QED  BY <1>2, <2>1, <2>2, <2>3, <2>4 DEF TypeOK, BlockRecords
  <1>10. \A o \in Owners : BlockOf(o)'.end <= used'
    <2>1. \A o \in Owners : BlockOf(o).end <= used /\ BlockOf(o).end \in Nat
          BY BlockTypes DEF BlocksApart, BlockRecords
    <2> QED  BY <2>1, <1>2, <1>3, <1>4, <1>6, <1>7, <1>8 DEF BlockRecords
  <1>11. BlocksApart'
    <2>1. \A o \in {x} : used <= BlockOf(o)'.start
          BY <1>3, <1>4, <1>7
    <2>2. {x} \in SUBSET Owners
          BY <1>7
    <2>3. \A o \in Owners \ {x} : BlockOf(o)' = BlockOf(o) \/ BlockOf(o)' = Nothing
          BY <1>8
    <2>4. \A o, p \in {x} : o # p => \/ BlockOf(o)'.end <= BlockOf(p)'.start
                                    \/ BlockOf(p)'.end <= BlockOf(o)'.start
          OBVIOUS
    <2>5. TypeOK /\ BlocksApart
          OBVIOUS
    <2> HIDE DEF x, IInv
    <2> QED  BY <2>1, <2>2, <2>3, <2>4, <2>5, <1>9, <1>10, ApartKept
  <1>12. ViewsHold'
    <2>1. \A s \in Sprites : sprite[s] # h
      <3>1. \A s \in Sprites : sprite[s] = h => slots[h].used
            BY DEF ViewsHold, INVALID_HANDLE, Handles
      <3> QED  BY <3>1, <1>5
    <2>2. {s \in Sprites : sprite[s] = h} = {}
          BY <2>1
    <2>3. \A i \in Handles : slots'[i].refs = Cardinality({s \in Sprites : sprite'[s] = i})
          BY <1>1, <1>2, <2>2, FS_EmptySet DEF ViewsHold, TypeOK
    <2>4. \A s \in Sprites : sprite'[s] # INVALID_HANDLE =>
              slots'[sprite'[s]].used /\ view'[s] = slots'[sprite'[s]].block
          BY <1>1, <1>2, <2>1 DEF ViewsHold, TypeOK
    <2> QED  BY <2>3, <2>4 DEF ViewsHold
  <1>13. NothingLost'
    <2> SUFFICES ASSUME inOrder
                 PROVE  /\ used' = 0 \/ \E o \in Owners : BlockOf(o)'.end = used'
                        /\ \A o \in Owners : BlockOf(o)'.start > 0 =>
                              \E p \in Owners : BlockOf(p)'.end = BlockOf(o)'.start
      <3>1. Owners' = Owners
            BY DEF Owners, Handles
      <3> QED  BY <3>1, <1>2 DEF NothingLost
    <2>1. \A p \in Owners : BlockOf(p).end > 0 => BlockOf(p)' = BlockOf(p)
          BY <1>7, <1>8 DEF Nothing
    <2>2. ASSUME NEW o \in Owners, BlockOf(o)'.start > 0
          PROVE  \E p \in Owners : BlockOf(p)'.end = BlockOf(o)'.start
      <3>1. CASE o = x
        <4>1. \E p \in Owners : BlockOf(p).end = used
              BY <3>1, <2>2, <1>4, <1>7 DEF NothingLost
        <4> QED  BY <4>1, <2>1, <3>1, <2>2, <1>4, <1>7
      <3>2. CASE o # x
        <4>1. PICK p \in Owners : BlockOf(p).end = BlockOf(o).start
              BY <3>2, <2>2, <1>8 DEF NothingLost
        <4> QED  BY <4>1, <2>1, <3>2, <2>2, <1>8
      <3> QED  BY <3>1, <3>2
    <2> QED  BY <2>2, <1>2, <1>7
  <1> QED  BY <1>9, <1>11, <1>12, <1>13

(* A block is given up.                                                    *)
LEMMA ClearSlotBlocks ==
    ASSUME TypeOK, BlocksApart, NothingLost, NEW h \in Handles, slots[h].used, ClearSlot(h),
           sprite' \in [Sprites -> Handles \cup {INVALID_HANDLE}],
           view' \in [Sprites -> BlockRecords]
    PROVE  TypeOK' /\ BlocksApart' /\ NothingLost'
  <1> DEFINE b == slots[h].block
             x == <<"asset", h>>
  <1>1. /\ slots' = [slots EXCEPT ![h] = Free]
        /\ used' = IF b.end = used THEN Rollback(b.start, used) ELSE used
        /\ inOrder' = (inOrder /\ \A c \in Blocks : c.end <= b.end)
        /\ UNCHANGED group
        BY DEF ClearSlot
  <1>2. x \in Owners /\ BlockOf(x) = b /\ BlockOf(x)' = Nothing
    <2>1. x \in Owners /\ BlockOf(x) = slots[h].block /\ BlockOf(x)' = slots'[h].block
          BY DEF Owners, BlockOf
    <2> QED  BY <2>1, <1>1 DEF TypeOK, Free
  <1>3. \A o \in Owners \ {x} : BlockOf(o)' = BlockOf(o)
        BY OwnerCases, <1>1 DEF TypeOK
  <1>4. Owners' = Owners
        BY DEF Owners, Handles
  <1>5. b \in BlockRecords /\ b # Nothing /\ b.start < b.end /\ b.end <= used
    <2>1. b # Nothing
          BY DEF TypeOK
    <2> QED  BY <1>2, <2>1, BlockTypes DEF BlocksApart
  <1>6. used \in Nat
        BY Sizes DEF TypeOK
  <1> HIDE DEF b
  <1>7. used' = IF b.end = used THEN b.start ELSE used
        BY <1>1, <1>5, <1>6 DEF Rollback, BlockRecords
  <1>8. \A o \in Owners : /\ BlockOf(o) \in BlockRecords
                          /\ BlockOf(o).end <= used
                          /\ BlockOf(o) # Nothing => BlockOf(o).start < BlockOf(o).end
        BY BlockTypes DEF BlocksApart
  <1>9. TypeOK'
    <2>1. \A o \in Owners : IsBlock(BlockOf(o))'
      <3>1. IsBlock(Nothing)
            BY DEF IsBlock, Nothing
      <3>2. \A o \in Owners : BlockOf(o)' = BlockOf(o) \/ BlockOf(o)' = Nothing
            BY <1>2, <1>3
      <3>3. \A o \in Owners : IsBlock(BlockOf(o))
            BY DEF TypeOK
      <3> QED  BY <3>1, <3>2, <3>3 DEF IsBlock
    <2>2. (\A i \in Handles : slots[i].used <=> slots[i].block # Nothing)'
          BY <1>1 DEF TypeOK, Free
    <2>4. used' \in 0 .. Capacity
          BY <1>5, <1>7, Sizes DEF TypeOK, BlockRecords
    <2>5. inOrder' \in BOOLEAN
          BY <1>1 DEF TypeOK
    <2>3. slots' \in [Handles -> [used : BOOLEAN, live : BOOLEAN, refs : Nat, block : BlockRecords]]
          BY <1>1 DEF TypeOK, BlockRecords, Free, Nothing
    <2> QED  BY <1>1, <1>4, <2>1, <2>2, <2>3, <2>4, <2>5 DEF TypeOK, BlockRecords
  <1>10. \A o \in Owners : BlockOf(o)'.end <= used'
    <2> SUFFICES ASSUME NEW o \in Owners PROVE BlockOf(o)'.end <= used'
        OBVIOUS
    <2>1. CASE o = x
          BY <2>1, <1>2, <1>5, <1>6, <1>7 DEF Nothing, BlockRecords
    <2>2. CASE o # x /\ BlockOf(o) = Nothing
          BY <2>2, <1>3, <1>5, <1>6, <1>7 DEF Nothing, BlockRecords
    <2>3. CASE o # x /\ BlockOf(o) # Nothing
      <3>1. BlockOf(o).end <= b.start \/ b.end <= BlockOf(o).start
            BY <2>3, <1>2, <1>5 DEF BlocksApart
      <3> QED  BY <3>1, <2>3, <1>3, <1>5, <1>6, <1>7, <1>8 DEF BlockRecords
    <2> QED  BY <2>1, <2>2, <2>3
  <1>11. BlocksApart'
    <2>1. \A o \in Owners \ {} : BlockOf(o)' = BlockOf(o) \/ BlockOf(o)' = Nothing
          BY <1>2, <1>3
    <2>2. \A o \in {} : used <= BlockOf(o)'.start
          OBVIOUS
    <2>3. \A o, p \in {} : o # p => \/ BlockOf(o)'.end <= BlockOf(p)'.start
                                    \/ BlockOf(p)'.end <= BlockOf(o)'.start
          OBVIOUS
    <2>4. {} \in SUBSET Owners
          OBVIOUS
    <2> QED  BY <2>1, <2>2, <2>3, <2>4, <1>9, <1>10, ApartKept
  <1>12. NothingLost'
    <2> SUFFICES ASSUME inOrder, \A c \in Blocks : c.end <= b.end
                 PROVE  /\ used' = 0 \/ \E o \in Owners : BlockOf(o)'.end = used'
                        /\ \A o \in Owners : BlockOf(o)'.start > 0 =>
                              \E p \in Owners : BlockOf(p)'.end = BlockOf(o)'.start
          BY <1>1, <1>4 DEF NothingLost
    <2>1. \A o \in Owners : BlockOf(o) \in Blocks
          BY OwnerCases DEF Blocks
    <2>2. b.end = used
      <3>1. used > 0
            BY <1>5, <1>6 DEF BlockRecords
      <3>2. PICK o \in Owners : BlockOf(o).end = used
            BY <3>1, <1>6 DEF NothingLost
      <3> QED  BY <3>2, <2>1, <1>5, <1>6, <1>8 DEF BlockRecords
    <2>3. used' = b.start
          BY <2>2, <1>7
    <2>4. b.start > 0 => \E p \in Owners : BlockOf(p)'.end = b.start
      <3>1. SUFFICES ASSUME b.start > 0 PROVE \E p \in Owners : BlockOf(p)'.end = b.start
            OBVIOUS
      <3>2. PICK p \in Owners : BlockOf(p).end = b.start
            BY <3>1, <1>2 DEF NothingLost
      <3>3. p # x
            BY <3>2, <1>2, <1>5 DEF BlockRecords
      <3> QED  BY <3>2, <3>3, <1>3
    <2>5. ASSUME NEW o \in Owners, BlockOf(o)'.start > 0
          PROVE  \E p \in Owners : BlockOf(p)'.end = BlockOf(o)'.start
      <3>1. o # x
            BY <2>5, <1>2 DEF Nothing
      <3>2. PICK p \in Owners : BlockOf(p).end = BlockOf(o).start
            BY <3>1, <2>5, <1>3 DEF NothingLost
      <3>3. BlockOf(o) # Nothing
            BY <3>1, <2>5, <1>3 DEF Nothing
      <3>4. p # x
            BY <3>2, <3>3, <2>2, <1>2, <1>6, <1>8 DEF BlockRecords
      <3> QED  BY <3>1, <3>2, <3>4, <1>3
    <2>6. used' = 0 \/ \E o \in Owners : BlockOf(o)'.end = used'
          BY <2>3, <2>4, <1>5 DEF BlockRecords
    <2> QED  BY <2>5, <2>6
  <1> QED  BY <1>9, <1>11, <1>12

(* What is counted of the sprites that hold a handle.                      *)
Holding(h) == {s \in Sprites : sprite[s] = h}

LEMMA HoldingFinite ==
    \A h : IsFiniteSet(Holding(h)) /\ Cardinality(Holding(h)) \in Nat
  BY Sizes, FS_Subset, FS_CardinalityType DEF Holding

(* A sprite takes hold of a handle.                                        *)
LEMMA RetainInv ==
    ASSUME IInv, NEW s \in Sprites, NEW h \in Handles, Retain(s, h)
    PROVE  IInv'
  <1> USE DEF IInv
  <1>1. /\ sprite[s] = INVALID_HANDLE /\ slots[h].used
        /\ slots' = [slots EXCEPT ![h].refs = @ + 1]
        /\ sprite' = [sprite EXCEPT ![s] = h]
        /\ view' = [view EXCEPT ![s] = slots[h].block]
        /\ UNCHANGED <<used, group, inOrder>>
        BY DEF Retain
  <1>2. \A i \in Handles : slots'[i].block = slots[i].block /\ slots'[i].used = slots[i].used
        BY <1>1 DEF TypeOK
  <1>3. BlocksApart' /\ NothingLost'
        BY <1>1, <1>2, SameBlocks
  <1>4. TypeOK'
    <2>1. (\A i \in Handles : slots[i].used <=> slots[i].block # Nothing)'
          BY <1>2 DEF TypeOK, Nothing
    <2>2. slots' \in [Handles -> [used : BOOLEAN, live : BOOLEAN, refs : Nat, block : BlockRecords]]
      <3>1. slots[h] \in [used : BOOLEAN, live : BOOLEAN, refs : Nat, block : BlockRecords]
            BY DEF TypeOK, BlockRecords
      <3>2. slots[h].refs + 1 \in Nat
            BY <3>1
      <3> QED  BY <1>1, <3>1, <3>2 DEF TypeOK, BlockRecords
    <2>3. (\A o \in Owners : IsBlock(BlockOf(o)))'
      <3>1. \A o \in Owners : BlockOf(o)' = BlockOf(o)
            BY <1>1, <1>2, OwnerCases
      <3> QED  BY <3>1 DEF TypeOK, IsBlock, Owners, Handles
    <2> QED  BY <1>1, <2>1, <2>2, <2>3 DEF TypeOK, BlockRecords
  <1>5. ViewsHold'
    <2>1. h # INVALID_HANDLE /\ \A i \in Handles : i # INVALID_HANDLE
          BY DEF Handles, INVALID_HANDLE
    <2>2. \A t \in Sprites : sprite'[t] # INVALID_HANDLE =>
              slots'[sprite'[t]].used /\ view'[t] = slots'[sprite'[t]].block
          BY <1>1, <1>2, <2>1 DEF ViewsHold, TypeOK
    <2>3. Holding(h)' = Holding(h) \cup {s} /\ s \notin Holding(h)
          BY <1>1, <2>1 DEF Holding, TypeOK
    <2>4. \A i \in Handles \ {h} : Holding(i)' = Holding(i)
          BY <1>1, <2>1 DEF Holding, TypeOK
    <2>5. Cardinality(Holding(h)') = Cardinality(Holding(h)) + 1
          BY <2>3, HoldingFinite, FS_AddElement
    <2>6. \A i \in Handles : slots[i].refs = Cardinality(Holding(i))
          BY DEF ViewsHold, Holding
    <2>7. \A i \in Handles : slots'[i].refs = Cardinality(Holding(i)')
          BY <1>1, <2>4, <2>5, <2>6 DEF TypeOK
    <2> QED  BY <2>2, <2>7 DEF ViewsHold, Holding
  <1> QED  BY <1>3, <1>4, <1>5

(* A sprite lets go: the slot goes with the last, if its handle was freed. *)
LEMMA ReleaseInv ==
    ASSUME IInv, NEW s \in Sprites, Release(s)
    PROVE  IInv'
  <1> USE DEF IInv
  <1>0. PICK h \in Handles : h = sprite[s]
        BY DEF Release, TypeOK
  <1>1. /\ h \in Handles /\ h # INVALID_HANDLE /\ slots[h].used
        /\ sprite' = [sprite EXCEPT ![s] = INVALID_HANDLE]
        /\ view' = [view EXCEPT ![s] = Nothing]
        BY <1>0 DEF Release
  <1>2. \A i \in Handles : slots[i].refs = Cardinality(Holding(i)) /\ slots[i].refs \in Nat
        BY DEF ViewsHold, Holding, TypeOK
  <1>3. s \in Holding(h) /\ Holding(h)' = Holding(h) \ {s}
    <2>1. sprite'[s] # h /\ \A t \in Sprites \ {s} : sprite'[t] = sprite[t]
      <3>1. sprite'[s] = INVALID_HANDLE
            BY <1>1 DEF TypeOK
      <3> QED  BY <1>1, <3>1 DEF TypeOK
    <2> QED  BY <1>0, <2>1 DEF Holding
  <1>4. \A i \in Handles \ {h} : Holding(i)' = Holding(i)
    <2>1. \A i \in Handles : i # INVALID_HANDLE
          BY DEF Handles, INVALID_HANDLE
    <2>2. sprite'[s] = INVALID_HANDLE /\ \A t \in Sprites \ {s} : sprite'[t] = sprite[t]
          BY <1>1 DEF TypeOK
    <2> QED  BY <1>0, <2>1, <2>2 DEF Holding
  <1>5. /\ Cardinality(Holding(h)') = Cardinality(Holding(h)) - 1
        /\ Cardinality(Holding(h)) >= 1
    <2>1. Cardinality(Holding(h) \ {s}) = Cardinality(Holding(h)) - 1
          BY <1>3, HoldingFinite, FS_RemoveElement
    <2>2. Cardinality(Holding(h) \ {s}) \in Nat
          BY HoldingFinite, FS_Subset, FS_CardinalityType
    <2> QED  BY <1>3, <2>1, <2>2, HoldingFinite
  <1>6. \A t \in Sprites \ {s} : sprite'[t] = sprite[t] /\ view'[t] = view[t]
        BY <1>1 DEF TypeOK
  <1>7. /\ sprite' \in [Sprites -> Handles \cup {INVALID_HANDLE}]
        /\ view' \in [Sprites -> BlockRecords]
        /\ sprite'[s] = INVALID_HANDLE
        BY <1>1 DEF TypeOK, BlockRecords, Nothing
  <1>8. CASE slots[h].refs <= 1 /\ ~slots[h].live
    <2>1. ClearSlot(h)
          BY <1>0, <1>8 DEF Release
    <2>2. TypeOK' /\ BlocksApart' /\ NothingLost'
          BY <1>1, <1>7, <2>1, ClearSlotBlocks
    <2>3. slots' = [slots EXCEPT ![h] = Free]
          BY <2>1 DEF ClearSlot
    <2>4. Holding(h)' = {}
      <3>1. Cardinality(Holding(h)') = 0
            BY <1>1, <1>2, <1>5, <1>8
      <3>2. IsFiniteSet(Holding(h)')
            BY <1>3, HoldingFinite, FS_Subset
      <3> QED  BY <3>1, <3>2, FS_EmptySet
    <2>5. \A i \in Handles : slots'[i].refs = Cardinality(Holding(i)')
      <3>1. \A i \in Handles \ {h} : slots'[i].refs = slots[i].refs
            BY <2>3 DEF TypeOK
      <3>2. slots'[h].refs = 0
            BY <1>1, <2>3 DEF TypeOK, Free
      <3>3. Cardinality(Holding(h)') = 0
            BY <2>4, FS_EmptySet
      <3> QED  BY <1>2, <1>4, <3>1, <3>2, <3>3
    <2>6. \A t \in Sprites : sprite'[t] # INVALID_HANDLE =>
              slots'[sprite'[t]].used /\ view'[t] = slots'[sprite'[t]].block
      <3>1. \A t \in Sprites : sprite'[t] # h
        <4>1. \A t \in Sprites : t \notin Holding(h)'
              BY <2>4
        <4> QED  BY <4>1 DEF Holding
      <3> QED  BY <3>1, <1>6, <1>7, <2>3 DEF ViewsHold, TypeOK
    <2>7. ViewsHold'
          BY <2>5, <2>6 DEF ViewsHold, Holding
    <2> QED  BY <2>2, <2>7
  <1>9. CASE ~(slots[h].refs <= 1 /\ ~slots[h].live)
    <2>1. /\ slots' = [slots EXCEPT ![h].refs = IF @ > 0 THEN @ - 1 ELSE @]
          /\ UNCHANGED <<used, group, inOrder>>
          BY <1>0, <1>9 DEF Release
    <2>2. \A i \in Handles : slots'[i].block = slots[i].block /\ slots'[i].used = slots[i].used
          BY <1>1, <2>1 DEF TypeOK
    <2>3. BlocksApart' /\ NothingLost'
          BY <2>1, <2>2, SameBlocks
    <2>4. slots'[h].refs = slots[h].refs - 1
          BY <1>1, <1>2, <1>5, <2>1 DEF TypeOK
    <2>5. TypeOK'
      <3>1. (\A i \in Handles : slots[i].used <=> slots[i].block # Nothing)'
            BY <2>2 DEF TypeOK, Nothing
      <3>2. slots' \in [Handles -> [used : BOOLEAN, live : BOOLEAN, refs : Nat, block : BlockRecords]]
        <4>1. slots[h] \in [used : BOOLEAN, live : BOOLEAN, refs : Nat, block : BlockRecords]
              BY <1>1 DEF TypeOK, BlockRecords
        <4>2. slots[h].refs \in Nat /\ (IF slots[h].refs > 0 THEN slots[h].refs - 1 ELSE slots[h].refs) \in Nat
              BY <4>1
        <4> QED  BY <1>1, <2>1, <4>1, <4>2 DEF TypeOK, BlockRecords
      <3>3. (\A o \in Owners : IsBlock(BlockOf(o)))'
        <4>1. \A o \in Owners : BlockOf(o)' = BlockOf(o)
              BY <2>1, <2>2, OwnerCases
        <4> QED  BY <4>1 DEF TypeOK, IsBlock, Owners, Handles
      <3> QED  BY <1>7, <2>1, <3>1, <3>2, <3>3 DEF TypeOK, BlockRecords
    <2>6. \A i \in Handles : slots'[i].refs = Cardinality(Holding(i)')
      <3>1. \A i \in Handles \ {h} : slots'[i].refs = slots[i].refs
            BY <2>1 DEF TypeOK
      <3>2. slots'[h].refs = Cardinality(Holding(h)')
            BY <1>1, <1>2, <1>5, <2>4
      <3> QED  BY <1>2, <1>4, <3>1, <3>2
    <2>7. \A t \in Sprites : sprite'[t] # INVALID_HANDLE =>
              slots'[sprite'[t]].used /\ view'[t] = slots'[sprite'[t]].block
          BY <1>6, <1>7, <2>2 DEF ViewsHold, TypeOK
    <2>8. ViewsHold'
          BY <2>6, <2>7 DEF ViewsHold, Holding
    <2> QED  BY <2>3, <2>5, <2>8
  <1> QED  BY <1>8, <1>9

(* The public handle goes: the slot with it, if no sprite holds it.        *)
LEMMA FreeInv ==
    ASSUME IInv, NEW h \in Handles, FreeHandle(h)
    PROVE  IInv'
  <1> USE DEF IInv
  <1>1. slots[h].used /\ UNCHANGED <<sprite, view>>
        BY DEF FreeHandle
  <1>2. \A i \in Handles : slots[i].refs = Cardinality(Holding(i)) /\ Holding(i)' = Holding(i)
        BY <1>1 DEF ViewsHold, Holding
  <1>3. CASE slots[h].refs = 0
    <2>1. ClearSlot(h)
          BY <1>3 DEF FreeHandle
    <2>2. /\ sprite' \in [Sprites -> Handles \cup {INVALID_HANDLE}]
          /\ view' \in [Sprites -> BlockRecords]
          BY <1>1 DEF TypeOK, BlockRecords
    <2>3. TypeOK' /\ BlocksApart' /\ NothingLost'
          BY <1>1, <2>1, <2>2, ClearSlotBlocks
    <2>4. slots' = [slots EXCEPT ![h] = Free]
          BY <2>1 DEF ClearSlot
    <2>5. Holding(h) = {}
          BY <1>2, <1>3, HoldingFinite, FS_EmptySet
    <2>6. \A i \in Handles : slots'[i].refs = Cardinality(Holding(i)')
          BY <1>2, <1>3, <2>4 DEF TypeOK, Free
    <2>7. \A t \in Sprites : sprite'[t] # INVALID_HANDLE =>
              slots'[sprite'[t]].used /\ view'[t] = slots'[sprite'[t]].block
      <3>1. \A t \in Sprites : sprite[t] # h
            BY <2>5 DEF Holding
      <3> QED  BY <3>1, <1>1, <2>4 DEF ViewsHold, TypeOK
    <2>8. ViewsHold'
          BY <2>6, <2>7 DEF ViewsHold, Holding
    <2> QED  BY <2>3, <2>8
  <1>4. CASE slots[h].refs # 0
    <2>1. slots' = [slots EXCEPT ![h].live = FALSE] /\ UNCHANGED <<used, group, inOrder>>
          BY <1>4 DEF FreeHandle
    <2>2. \A i \in Handles : /\ slots'[i].block = slots[i].block
                             /\ slots'[i].used = slots[i].used /\ slots'[i].refs = slots[i].refs
          BY <2>1 DEF TypeOK
    <2>3. BlocksApart' /\ NothingLost'
          BY <2>1, <2>2, SameBlocks
    <2>4. TypeOK'
      <3>1. (\A i \in Handles : slots[i].used <=> slots[i].block # Nothing)'
            BY <2>2 DEF TypeOK, Nothing
      <3>2. slots' \in [Handles -> [used : BOOLEAN, live : BOOLEAN, refs : Nat, block : BlockRecords]]
            BY <2>1 DEF TypeOK, BlockRecords
      <3>3. (\A o \in Owners : IsBlock(BlockOf(o)))'
        <4>1. \A o \in Owners : BlockOf(o)' = BlockOf(o)
              BY <2>1, <2>2, OwnerCases
        <4> QED  BY <4>1 DEF TypeOK, IsBlock, Owners, Handles
      <3> QED  BY <1>1, <2>1, <3>1, <3>2, <3>3 DEF TypeOK, BlockRecords
    <2>5. ViewsHold'
      <3>1. \A i \in Handles : slots'[i].refs = Cardinality(Holding(i)')
            BY <1>2, <2>2
      <3>2. \A t \in Sprites : sprite'[t] # INVALID_HANDLE =>
                slots'[sprite'[t]].used /\ view'[t] = slots'[sprite'[t]].block
            BY <1>1, <2>2 DEF ViewsHold, TypeOK
      <3> QED  BY <3>1, <3>2 DEF ViewsHold, Holding
    <2> QED  BY <2>3, <2>4, <2>5
  <1> QED  BY <1>3, <1>4

(* A pet gets a buffer, its masks, both or nothing at all.                 *)
LEMMA BuildInv ==
    ASSUME IInv, NEW g \in Groups, NEW size \in LookSizes, NEW good \in BOOLEAN,
           Build(g, size, good)
    PROVE  IInv'
  <1> USE DEF IInv
  <1> DEFINE carve  == size > Bytes(group[g].buffer)
             buffer == IF carve THEN Block(used, size, GroupAlign) ELSE group[g].buffer
             cursor == IF carve THEN buffer.end ELSE used
             mask   == group[g].hits = Nothing
             hits   == IF mask THEN Block(cursor, HitBytes, GroupAlign) ELSE group[g].hits
             fits   == /\ carve => CanAllocate(used, size, GroupAlign)
                       /\ mask  => CanAllocate(cursor, HitBytes, GroupAlign)
             reached == IF mask /\ fits THEN hits.end ELSE cursor
  <1>1. IF fits /\ good
        THEN /\ used' = reached
             /\ group' = [group EXCEPT ![g].buffer = buffer, ![g].hits = hits]
             /\ inOrder' = (inOrder /\ (carve => group[g].buffer = Nothing))
             /\ UNCHANGED <<slots, sprite, view>>
        ELSE /\ used' = Rollback(used, reached)
             /\ UNCHANGED <<slots, sprite, view, group, inOrder>>
        BY DEF Build
  <1>2. /\ used \in Nat /\ size \in Nat \ {0} /\ GroupAlign \in Nat \ {0} /\ HitBytes \in Nat \ {0}
        /\ Capacity \in Nat /\ used <= Capacity
        BY Sizes DEF TypeOK
  <1>3. group[g].buffer \in BlockRecords /\ group[g].hits \in BlockRecords
        BY DEF TypeOK, BlockRecords
  <1>4. buffer \in BlockRecords /\ cursor \in Nat /\ used <= cursor
    <2>1. CASE carve
      <3>1. /\ buffer \in BlockRecords /\ buffer.start = used
            /\ buffer.start <= buffer.at /\ buffer.at < buffer.end /\ cursor = buffer.end
            BY <2>1, <1>2, BlockShape
      <3> HIDE DEF buffer, cursor
      <3> QED  BY <3>1, <1>2 DEF BlockRecords
    <2>2. CASE ~carve
          BY <2>2, <1>2, <1>3
    <2> QED  BY <2>1, <2>2
  <1>5. carve => /\ buffer.start = used /\ buffer.start <= buffer.at /\ buffer.at < buffer.end
                 /\ cursor = buffer.end
                 /\ fits => cursor <= Capacity
        BY <1>2, BlockShape
  <1>6. ~carve => buffer = group[g].buffer /\ cursor = used
        OBVIOUS
  <1> HIDE DEF buffer, cursor
  <1>7. mask => /\ hits \in BlockRecords
                /\ hits.start = cursor /\ hits.start <= hits.at /\ hits.at < hits.end
                /\ fits => hits.end <= Capacity
        BY <1>2, <1>4, BlockShape
  <1>8. ~mask => hits = group[g].hits
        OBVIOUS
  <1> HIDE DEF hits
  <1>9. reached \in Nat /\ used <= reached /\ cursor <= reached /\ (fits => reached <= Capacity)
        BY <1>2, <1>4, <1>5, <1>6, <1>7 DEF BlockRecords
  <1>10. (mask /\ fits => reached = hits.end) /\ (~mask => reached = cursor)
        OBVIOUS
  <1> HIDE DEF reached, fits, carve, mask
  <1>11. CASE ~(fits /\ good)
    <2>1. used' = used
          BY <1>1, <1>2, <1>9, <1>11 DEF Rollback
    <2>2. UNCHANGED <<slots, sprite, view, group, inOrder>>
          BY <1>1, <1>11
    <2>3. \A h \in Handles : slots'[h].block = slots[h].block
          BY <2>2
    <2>4. BlocksApart' /\ NothingLost'
          BY <2>1, <2>2, <2>3, SameBlocks
    <2>5. \A o \in Owners : BlockOf(o)' = BlockOf(o)
          BY <2>2, OwnerCases
    <2>6. Owners' = Owners
          BY DEF Owners, Handles
    <2>7. TypeOK'
          BY <2>1, <2>2, <2>5, <2>6 DEF TypeOK, IsBlock
    <2>8. ViewsHold'
          BY <2>2 DEF ViewsHold
    <2> QED  BY <2>4, <2>7, <2>8
  <1>12. CASE fits /\ good
    <2>1. /\ used' = reached
          /\ group' = [group EXCEPT ![g].buffer = buffer, ![g].hits = hits]
          /\ inOrder' = (inOrder /\ (carve => group[g].buffer = Nothing))
          /\ UNCHANGED <<slots, sprite, view>>
          BY <1>1, <1>12
    <2> DEFINE x == <<"buffer", g>>
               y == <<"hits", g>>
    <2>2. group'[g].buffer = buffer /\ group'[g].hits = hits
          BY <2>1 DEF TypeOK
    <2>3. \A k \in Groups \ {g} : group'[k] = group[k]
          BY <2>1 DEF TypeOK
    <2>4. /\ x \in Owners /\ BlockOf(x) = group[g].buffer /\ BlockOf(x)' = buffer
          /\ y \in Owners /\ BlockOf(y) = group[g].hits /\ BlockOf(y)' = hits
      <3>1. /\ x \in Owners /\ BlockOf(x) = group[g].buffer /\ BlockOf(x)' = group'[g].buffer
            /\ y \in Owners /\ BlockOf(y) = group[g].hits /\ BlockOf(y)' = group'[g].hits
            BY DEF Owners, BlockOf
      <3> QED  BY <3>1, <2>2
    <2>5. \A o \in Owners \ {x, y} : BlockOf(o)' = BlockOf(o)
          BY <2>1, <2>3, OwnerCases
    <2>6. Owners' = Owners
          BY DEF Owners, Handles
    <2>7. x # y
          OBVIOUS
    <2> HIDE DEF x, y
    <2>8. \A o \in Owners : /\ BlockOf(o) \in BlockRecords
                            /\ BlockOf(o).end <= used /\ BlockOf(o).start <= BlockOf(o).end
          BY BlockTypes DEF BlocksApart
    <2>9. hits \in BlockRecords
          BY <1>3, <1>7, <1>8
    <2>10. TypeOK'
      <3>1. \A o \in Owners : IsBlock(BlockOf(o))'
        <4>1. IsBlock(buffer)
          <5>1. IsBlock(group[g].buffer)
                BY <2>4 DEF TypeOK
          <5> QED  BY <5>1, <1>4, <1>5, <1>6 DEF IsBlock, BlockRecords
        <4>2. IsBlock(hits)
          <5>1. IsBlock(group[g].hits)
                BY <2>4 DEF TypeOK
          <5> QED  BY <5>1, <2>9, <1>7, <1>8 DEF IsBlock, BlockRecords
        <4> QED  BY <4>1, <4>2, <2>4, <2>5 DEF TypeOK, IsBlock
      <3>2. group' \in [Groups -> [buffer : BlockRecords, hits : BlockRecords]]
            BY <2>1, <2>9, <1>4 DEF TypeOK, BlockRecords
      <3>3. used' \in 0 .. Capacity /\ inOrder' \in BOOLEAN
            BY <2>1, <1>2, <1>9, <1>12 DEF TypeOK
      <3> QED  BY <2>1, <2>6, <3>1, <3>2, <3>3 DEF TypeOK, BlockRecords
    <2>11. \A o \in Owners : BlockOf(o)'.end <= used'
      <3>1. buffer.end <= reached
            BY <1>2, <1>4, <1>5, <1>6, <1>9, <2>4, <2>8 DEF BlockRecords
      <3>2. hits.end <= reached
            BY <1>2, <1>7, <1>8, <1>9, <1>10, <1>12, <2>4, <2>8, <2>9 DEF BlockRecords
      <3>3. \A o \in Owners : BlockOf(o).end <= reached
            BY <1>2, <1>9, <2>8 DEF BlockRecords
      <3> QED  BY <2>1, <2>4, <2>5, <3>1, <3>2, <3>3
    <2>12. BlocksApart'
      <3> DEFINE New == (IF carve THEN {x} ELSE {}) \cup (IF mask THEN {y} ELSE {})
      <3>1. New \in SUBSET Owners
            BY <2>4
      <3>2. \A o \in Owners \ New : BlockOf(o)' = BlockOf(o) \/ BlockOf(o)' = Nothing
            BY <2>4, <2>5, <1>6, <1>8
      <3>3. \A o \in New : used <= BlockOf(o)'.start
            BY <2>4, <1>2, <1>4, <1>5, <1>7 DEF BlockRecords
      <3>4. \A o, p \in New : o # p => \/ BlockOf(o)'.end <= BlockOf(p)'.start
                                      \/ BlockOf(p)'.end <= BlockOf(o)'.start
            BY <2>4, <1>4, <1>5, <1>7 DEF BlockRecords
      <3>5. TypeOK /\ BlocksApart
            OBVIOUS
      <3> HIDE DEF New, IInv
      <3> QED  BY <3>1, <3>2, <3>3, <3>4, <3>5, <2>10, <2>11, ApartKept
    <2>13. ViewsHold'
          BY <2>1 DEF ViewsHold
    <2>14. NothingLost'
      <3> SUFFICES ASSUME inOrder, carve => group[g].buffer = Nothing
                   PROVE  /\ used' = 0 \/ \E o \in Owners : BlockOf(o)'.end = used'
                          /\ \A o \in Owners : BlockOf(o)'.start > 0 =>
                                \E p \in Owners : BlockOf(p)'.end = BlockOf(o)'.start
            BY <2>1, <2>6 DEF NothingLost
      <3>1. \A p \in Owners : BlockOf(p).end > 0 => BlockOf(p)' = BlockOf(p)
            BY <2>4, <2>5, <1>6, <1>8 DEF Nothing, mask
      <3>2. used > 0 => \E p \in Owners : BlockOf(p)'.end = used
            BY <3>1, <1>2 DEF NothingLost
      <3>3. cursor > 0 => \E p \in Owners : BlockOf(p)'.end = cursor
            BY <3>2, <2>4, <1>5, <1>6
      <3>4. reached > 0 => \E p \in Owners : BlockOf(p)'.end = reached
            BY <3>3, <2>4, <1>10, <1>12
      <3>5. ASSUME NEW o \in Owners, BlockOf(o)'.start > 0,
                   BlockOf(o)' = BlockOf(o)
            PROVE  \E p \in Owners : BlockOf(p)'.end = BlockOf(o)'.start
        <4>1. PICK p \in Owners : BlockOf(p).end = BlockOf(o).start
              BY <3>5 DEF NothingLost
        <4> QED  BY <4>1, <3>1, <3>5
      <3>6. buffer.start > 0 => \E p \in Owners : BlockOf(p)'.end = buffer.start
        <4>1. CASE carve
              BY <4>1, <3>2, <1>5
        <4>2. CASE ~carve
              BY <4>2, <3>5, <2>4, <1>6
        <4> QED  BY <4>1, <4>2
      <3>7. hits.start > 0 => \E p \in Owners : BlockOf(p)'.end = hits.start
        <4>1. CASE mask
              BY <4>1, <3>3, <1>7
        <4>2. CASE ~mask
              BY <4>2, <3>5, <2>4, <1>8
        <4> QED  BY <4>1, <4>2
      <3>8. used' = 0 \/ \E p \in Owners : BlockOf(p)'.end = used'
            BY <3>4, <2>1, <1>9
      <3>9. \A o \in Owners : BlockOf(o)'.start > 0 =>
                \E p \in Owners : BlockOf(p)'.end = BlockOf(o)'.start
            BY <3>5, <3>6, <3>7, <2>4, <2>5
      <3> QED  BY <3>8, <3>9
    <2> QED  BY <2>10, <2>12, <2>13, <2>14
  <1> QED  BY <1>11, <1>12

-----------------------------------------------------------------------------
(* The end of an applet leaves what Init describes.                        *)
LEMMA NextInv == IInv /\ [Next]_vars => IInv'
  <1> SUFFICES ASSUME IInv, [Next]_vars PROVE IInv'
      OBVIOUS
  <1>1. CASE Teardown
    <2>1. \A h \in Handles : slots'[h] = Free
          BY <1>1 DEF Teardown
    <2>2. /\ \A o \in Owners : BlockOf(o)' = Nothing
          /\ Owners' = Owners
      <3>1. Owners' = Owners
            BY DEF Owners, Handles
      <3> QED  BY <1>1, <3>1, OwnerCases DEF Teardown, Free, NoGroup
    <2>3. TypeOK'
          BY <1>1, <2>2, Sizes DEF Teardown, TypeOK, Free, Nothing, NoGroup, IsBlock, INVALID_HANDLE
    <2>4. BlocksApart'
          BY <1>1, <2>2 DEF BlocksApart, Teardown, Nothing
    <2>5. \A h \in Handles : {s \in Sprites : sprite'[s] = h} = {}
          BY <1>1 DEF Teardown, Handles, INVALID_HANDLE
    <2>6. ViewsHold'
          BY <1>1, <2>5, FS_EmptySet DEF ViewsHold, Teardown, Free
    <2>7. NothingLost'
          BY <1>1, <2>2 DEF NothingLost, Teardown, Nothing
    <2> QED  BY <2>3, <2>4, <2>6, <2>7 DEF IInv
  <1>2. CASE UNCHANGED vars
    <2>1. UNCHANGED <<used, slots, sprite, view, group, inOrder>>
          BY <1>2 DEF vars
    <2>2. \A o : BlockOf(o)' = BlockOf(o)
          BY <2>1 DEF BlockOf
    <2> QED  BY <2>1, <2>2 DEF IInv, TypeOK, BlocksApart, ViewsHold, NothingLost,
                               Owners, Handles, IsBlock
  <1>3. CASE \E size \in AssetSizes : Load(size)
        BY <1>3, LoadInv
  <1>4. CASE \E s \in Sprites, h \in Handles : Retain(s, h)
        BY <1>4, RetainInv
  <1>5. CASE \E s \in Sprites : Release(s)
        BY <1>5, ReleaseInv
  <1>6. CASE \E h \in Handles : FreeHandle(h)
        BY <1>6, FreeInv
  <1>7. CASE \E g \in Groups, size \in LookSizes, good \in BOOLEAN : Build(g, size, good)
        BY <1>7, BuildInv
  <1> QED  BY <1>1, <1>2, <1>3, <1>4, <1>5, <1>6, <1>7 DEF Next

(* The four properties hold together: each step needs all of them.         *)
THEOREM Invariant == Spec => []IInv
  BY InitInv, NextInv, PTL DEF Spec

(* The cursor stays in the arena, a slot has a block exactly while it is   *)
(* used, and every block has bytes (asset_arena.cpp, layered_asset.cpp).   *)
THEOREM TypeCorrect == Spec => []TypeOK
  <1>1. IInv => TypeOK
        BY DEF IInv
  <1> QED  BY <1>1, Invariant, PTL

(* No byte of the arena has two owners (asset_arena.cpp:66,                *)
(* shape_pack_group.cpp:80).                                               *)
THEOREM NoByteShared == Spec => []BlocksApart
  <1>1. IInv => BlocksApart
        BY DEF IInv
  <1> QED  BY <1>1, Invariant, PTL

(* A sprite that holds a handle looks at the block of a live slot, and the *)
(* count of a slot is that of its sprites (layered_asset.hpp:29-33).       *)
THEOREM ViewsStayValid == Spec => []ViewsHold
  <1>1. IInv => ViewsHold
        BY DEF IInv
  <1> QED  BY <1>1, Invariant, PTL

(* Freeing in reverse order gives every byte back, whatever else was tried *)
(* in between (layered_asset.hpp:35-39).                                   *)
THEOREM ReverseOrderLosesNothing == Spec => []NothingLost
  <1>1. IInv => NothingLost
        BY DEF IInv
  <1> QED  BY <1>1, Invariant, PTL

=============================================================================
