--------------------------- MODULE UiWorld_proofs ---------------------------
(* Proofs of the properties of UiWorld, for every capacity, every width of *)
(* the generations and any number of types, values and entities.           *)
EXTENDS UiWorld, FiniteSetTheorems, TLAPS

(* What a storage keeps to: it finds every component it holds.             *)
Packed(s) == \A i \in Places : i < s.count => s.sparse[s.entities[i].id] = i

Found(s, e) == s.components[s.sparse[e.id]]

LEMMA PackedMatch ==
    ASSUME NEW s \in Storages, Packed(s), NEW i \in Places, i < s.count
    PROVE  s.entities[i] \in Entities /\ Matches(s, s.entities[i])
  <1>1. s.entities[i] \in Entities
        BY DEF Storages
  <1>2. s.sparse[s.entities[i].id] = i
        BY DEF Packed
  <1>3. i # kInvalid
        BY DEF Places, kInvalid
  <1> QED  BY <1>1, <1>2, <1>3 DEF Matches

LEMMA MatchPlace ==
    ASSUME NEW s \in Storages, NEW e \in Entities, Matches(s, e)
    PROVE  /\ s.sparse[e.id] \in Places /\ s.sparse[e.id] < s.count
           /\ s.entities[s.sparse[e.id]] = e
           /\ Found(s, e) \in Values
           /\ s.count - 1 \in Places
  <1>1. e.id \in Ids /\ s.sparse[e.id] \in Places \cup {kInvalid}
        BY DEF Entities, Storages
  <1>2. s.sparse[e.id] \in Places /\ s.sparse[e.id] < s.count /\ s.entities[s.sparse[e.id]] = e
        BY <1>1 DEF Matches
  <1>3. Found(s, e) \in Values
        BY <1>2 DEF Found, Storages
  <1>4. s.count \in 0 .. Capacity
        BY DEF Storages
  <1>5. s.count - 1 \in Places
        BY <1>2, <1>4, Sizes DEF Places
  <1> QED  BY <1>2, <1>3, <1>5

(* Removing a component leaves every other where it is found.              *)
LEMMA RemoveKeeps ==
    ASSUME NEW s \in Storages, Packed(s), NEW e \in Entities
    PROVE  LET r == RemoveComponent(s, e) IN
           /\ r \in Storages /\ Packed(r)
           /\ \A f \in Entities : Matches(r, f) <=> Matches(s, f) /\ f # e
           /\ \A f \in Entities : Matches(r, f) => Found(r, f) = Found(s, f)
  <1>1. CASE ~Matches(s, e)
        BY <1>1 DEF RemoveComponent
  <1>2. CASE Matches(s, e)
    <2> DEFINE r == RemoveComponent(s, e)
    <2>1. PICK idx \in Places : idx = s.sparse[e.id] /\ idx < s.count /\ s.entities[idx] = e
          BY <1>2, MatchPlace
    <2>2. PICK last \in Places : last = s.count - 1 /\ idx <= last /\ last < s.count
                                  /\ \A j \in Places : j < last => j < s.count /\ j # last
          BY <1>2, <2>1, MatchPlace DEF Places, Storages
    <2>3. s.entities[last] \in Entities /\ s.sparse[s.entities[last].id] = last
          BY <2>2 DEF Storages, Packed
    <2>4. /\ r.count = last
          /\ r.entities = [s.entities EXCEPT ![idx] = s.entities[last]]
          /\ r.components = [s.components EXCEPT ![idx] = s.components[last]]
          /\ r.sparse = [[s.sparse EXCEPT ![s.entities[last].id] = idx] EXCEPT ![e.id] = kInvalid]
          BY <1>2, <2>1, <2>2 DEF RemoveComponent
    <2>5. r \in Storages
      <3>1. last \in 0 .. Capacity
            BY <2>2, Sizes DEF Places
      <3> QED  BY <1>2, <2>1, <2>2, <2>3, <3>1 DEF RemoveComponent, Storages, Entities
    <2>6. \A j \in Places : j < last => r.entities[j] # e /\ r.sparse[r.entities[j].id] = j
      <3>1. SUFFICES ASSUME NEW j \in Places, j < last
                     PROVE  r.entities[j] # e /\ r.sparse[r.entities[j].id] = j
            OBVIOUS
      <3>2. s.entities[j] \in Entities /\ s.sparse[s.entities[j].id] = j
        <4>1. j < s.count /\ s.entities[j] \in Entities
              BY <3>1, <2>2 DEF Storages
        <4> QED  BY <4>1 DEF Packed
      <3>3. e.id \in Ids /\ s.sparse \in [Ids -> Places \cup {kInvalid}]
            /\ s.entities[last].id \in Ids /\ s.entities[j].id \in Ids
            BY <2>3, <3>2 DEF Entities, Storages
      <3>4. CASE j = idx
        <4>1. s.entities[last].id # e.id
              BY <3>1, <3>4, <2>1, <2>2, <2>3
        <4> QED  BY <3>3, <3>4, <4>1, <2>1, <2>4 DEF Storages
      <3>5. CASE j # idx
        <4>1. s.entities[j].id # e.id
              BY <3>2, <3>5, <2>1
        <4>2. s.entities[j].id # s.entities[last].id
              BY <3>1, <3>2, <2>2, <2>3
        <4>3. r.entities[j] = s.entities[j]
              BY <3>5, <2>4 DEF Storages
        <4> QED  BY <3>2, <3>3, <4>1, <4>2, <4>3, <2>4
      <3> QED  BY <3>4, <3>5
    <2>7. Packed(r)
          BY <2>4, <2>6 DEF Packed
    <2>8. ASSUME NEW f \in Entities
          PROVE  /\ Matches(r, f) <=> Matches(s, f) /\ f # e
                 /\ Matches(r, f) => Found(r, f) = Found(s, f)
      <3>1. f.id \in Ids /\ e.id \in Ids /\ s.entities[last].id \in Ids
            /\ s.sparse \in [Ids -> Places \cup {kInvalid}]
            BY <2>3 DEF Entities, Storages
      <3>2. CASE f.id = e.id
        <4>1. ~Matches(r, f)
              BY <3>1, <3>2, <2>4 DEF Matches
        <4>2. ~(Matches(s, f) /\ f # e)
              BY <3>2, <2>1 DEF Matches
        <4> QED  BY <4>1, <4>2
      <3>3. CASE f.id # e.id /\ f.id = s.entities[last].id
        <4>1. last # idx
              BY <3>3, <2>1
        <4>2. r.sparse[f.id] = idx /\ s.sparse[f.id] = last /\ idx # kInvalid /\ last # kInvalid
              /\ idx < last /\ last < s.count
              BY <3>1, <3>3, <4>1, <2>2, <2>3, <2>4 DEF Places, kInvalid, Storages
        <4>3. r.entities[idx] = s.entities[last] /\ r.components[idx] = s.components[last]
              BY <2>1, <2>4 DEF Storages
        <4>4. Matches(r, f) <=> Matches(s, f)
              BY <4>2, <4>3, <2>4 DEF Matches
        <4>5. Found(r, f) = Found(s, f)
              BY <4>2, <4>3 DEF Found
        <4> QED  BY <4>4, <4>5, <3>3
      <3>4. CASE f.id # e.id /\ f.id # s.entities[last].id
        <4>1. r.sparse[f.id] = s.sparse[f.id]
              BY <3>1, <3>4, <2>4
        <4>2. CASE s.sparse[f.id] \in Places /\ s.sparse[f.id] < last /\ s.sparse[f.id] # idx
          <5>1. r.entities[s.sparse[f.id]] = s.entities[s.sparse[f.id]]
                /\ r.components[s.sparse[f.id]] = s.components[s.sparse[f.id]]
                BY <4>2, <2>4 DEF Storages
          <5>2. s.sparse[f.id] < s.count
                BY <4>2, <2>2 DEF Places, Storages
          <5> QED  BY <3>4, <4>1, <4>2, <5>1, <5>2, <2>4 DEF Matches, Found
        <4>3. CASE ~(s.sparse[f.id] \in Places /\ s.sparse[f.id] < last /\ s.sparse[f.id] # idx)
          <5>1. ~Matches(s, f)
            <6>1. SUFFICES ASSUME Matches(s, f) PROVE FALSE
                  OBVIOUS
            <6>2. s.sparse[f.id] \in Places /\ s.sparse[f.id] < s.count
                  /\ s.entities[s.sparse[f.id]] = f
                  BY <6>1, MatchPlace
            <6>3. s.sparse[f.id] = last \/ s.sparse[f.id] = idx
                  BY <4>3, <6>2, <2>2 DEF Places, Storages
            <6> QED  BY <6>2, <6>3, <3>4, <2>1
          <5>2. ~Matches(r, f)
            <6>1. SUFFICES ASSUME Matches(r, f) PROVE FALSE
                  OBVIOUS
            <6>2. r.sparse[f.id] \in Places /\ r.sparse[f.id] < r.count
                  /\ r.entities[r.sparse[f.id]] = f
                  BY <6>1, <2>5, MatchPlace
            <6>3. s.sparse[f.id] = idx
                  BY <4>1, <4>3, <6>2, <2>4
            <6>4. r.entities[idx] = s.entities[last]
                  BY <2>4 DEF Storages
            <6> QED  BY <6>2, <6>3, <6>4, <3>4, <4>1
          <5> QED  BY <5>1, <5>2
        <4> QED  BY <4>2, <4>3
      <3> QED  BY <3>2, <3>3, <3>4
    <2> QED  BY <2>5, <2>7, <2>8
  <1> QED  BY <1>1, <1>2

(* What a storage can take for an entity is found afterwards, and nothing  *)
(* else has changed.                                                       *)
LEMMA AddKeeps ==
    ASSUME NEW s \in Storages, Packed(s), NEW e \in Entities, NEW v \in Values,
           Matches(s, e) \/ s.count < Capacity,
           \A i \in Places : i < s.count /\ s.entities[i].id = e.id => s.entities[i] = e
    PROVE  LET r == AddComponent(s, e, v) IN
           /\ r \in Storages /\ Packed(r)
           /\ \A f \in Entities : Matches(r, f) <=> Matches(s, f) \/ f = e
           /\ Found(r, e) = v
           /\ \A f \in Entities : Matches(s, f) /\ f # e => Found(r, f) = Found(s, f)
  <1> DEFINE r == AddComponent(s, e, v)
  <1>1. CASE Matches(s, e)
    <2>1. PICK idx \in Places : idx = s.sparse[e.id] /\ idx < s.count /\ s.entities[idx] = e
          BY <1>1, MatchPlace
    <2>2. /\ r.count = s.count /\ r.entities = s.entities /\ r.sparse = s.sparse
          /\ r.components = [s.components EXCEPT ![idx] = v]
          BY <1>1, <2>1 DEF AddComponent, Storages
    <2>3. r \in Storages
          BY <1>1, <2>1 DEF AddComponent, Storages
    <2>4. Packed(r)
          BY <2>2 DEF Packed
    <2>5. \A f \in Entities : Matches(r, f) <=> Matches(s, f)
          BY <2>2 DEF Matches
    <2>6. Found(r, e) = v
          BY <2>1, <2>2 DEF Found, Storages
    <2>7. ASSUME NEW f \in Entities, Matches(s, f), f # e PROVE Found(r, f) = Found(s, f)
      <3>1. s.sparse[f.id] \in Places /\ s.sparse[f.id] # idx
            BY <2>7, <2>1, MatchPlace
      <3> QED  BY <3>1, <2>2 DEF Found, Storages
    <2> QED  BY <1>1, <2>3, <2>4, <2>5, <2>6, <2>7
  <1>2. CASE ~Matches(s, e)
    <2>1. PICK n \in Places : n = s.count
          BY <1>2, Sizes DEF Places, Storages
    <2>2. /\ r.count = n + 1 /\ r.entities = [s.entities EXCEPT ![n] = e]
          /\ r.components = [s.components EXCEPT ![n] = v]
          /\ r.sparse = [s.sparse EXCEPT ![e.id] = n]
      <3>1. ~(s.count >= Capacity)
            BY <1>2, Sizes DEF Storages
      <3> QED  BY <1>2, <2>1, <3>1 DEF AddComponent
    <2>3. r \in Storages
      <3>1. n + 1 \in 0 .. Capacity
            BY <2>1, Sizes DEF Places
      <3> QED  BY <1>2, <2>1, <3>1 DEF AddComponent, Storages, Entities
    <2>4. e.id \in Ids /\ n # kInvalid
          BY DEF Entities, Places, kInvalid
    <2>5. \A i \in Places : i < n => r.entities[i] = s.entities[i] /\ s.entities[i].id # e.id
      <3>1. SUFFICES ASSUME NEW i \in Places, i < n
                     PROVE  r.entities[i] = s.entities[i] /\ s.entities[i].id # e.id
            OBVIOUS
      <3>2. r.entities[i] = s.entities[i]
            BY <3>1, <2>2 DEF Storages, Places
      <3>3. s.entities[i].id = e.id => Matches(s, e)
            BY <3>1, <2>1, PackedMatch
      <3> QED  BY <1>2, <3>2, <3>3
    <2>6. Packed(r)
      <3>1. SUFFICES ASSUME NEW i \in Places, i < n + 1
                     PROVE  r.sparse[r.entities[i].id] = i
            BY <2>2 DEF Packed
      <3>2. CASE i = n
            BY <3>2, <2>2, <2>4 DEF Storages
      <3>3. CASE i < n
        <4>1. s.sparse[s.entities[i].id] = i /\ s.entities[i].id \in Ids
              BY <3>3, <2>1 DEF Packed, Storages, Entities
        <4> QED  BY <3>3, <4>1, <2>2, <2>5 DEF Storages
      <3> QED  BY <3>1, <3>2, <3>3 DEF Places
    <2>7. Matches(r, e) /\ Found(r, e) = v
      <3>1. n < n + 1
            BY DEF Places
      <3>2. r.sparse[e.id] = n /\ r.entities[n] = e /\ r.components[n] = v
            BY <2>2, <2>4 DEF Storages
      <3> QED  BY <2>2, <2>4, <3>1, <3>2 DEF Matches, Found
    <2>8. ASSUME NEW f \in Entities, f # e
          PROVE  /\ Matches(r, f) <=> Matches(s, f)
                 /\ Matches(s, f) => Found(r, f) = Found(s, f)
      <3>1. CASE f.id = e.id
        <4>1. ~Matches(r, f)
          <5>1. r.sparse[f.id] = n /\ r.entities[n] = e
                BY <3>1, <2>2, <2>4 DEF Storages
          <5> QED  BY <5>1, <2>8 DEF Matches
        <4>2. ~Matches(s, f)
              BY <3>1, <2>8, MatchPlace
        <4> QED  BY <4>1, <4>2
      <3>2. CASE f.id # e.id
        <4>1. r.sparse[f.id] = s.sparse[f.id] /\ f.id \in Ids
              BY <3>2, <2>2, <2>4 DEF Entities, Storages
        <4>2. s.sparse[f.id] \in Places \cup {kInvalid}
              BY <4>1 DEF Storages
        <4>3. CASE s.sparse[f.id] \in Places /\ s.sparse[f.id] < n
          <5>1. r.entities[s.sparse[f.id]] = s.entities[s.sparse[f.id]]
                /\ r.components[s.sparse[f.id]] = s.components[s.sparse[f.id]]
                BY <4>3, <2>2 DEF Storages, Places
          <5>2. s.sparse[f.id] < n + 1
                BY <4>3 DEF Places
          <5> QED  BY <4>1, <4>3, <5>1, <5>2, <2>1, <2>2 DEF Matches, Found
        <4>4. CASE s.sparse[f.id] = n
          <5>1. r.entities[n] = e
                BY <2>2 DEF Storages
          <5>2. ~(n < s.count)
                BY <2>1 DEF Places
          <5> QED  BY <4>1, <4>4, <5>1, <5>2, <2>8 DEF Matches
        <4>5. CASE s.sparse[f.id] = kInvalid
              BY <4>1, <4>5 DEF Matches
        <4>6. CASE s.sparse[f.id] \in Places /\ s.sparse[f.id] > n
          <5>1. ~(s.sparse[f.id] < n + 1) /\ ~(s.sparse[f.id] < n)
                BY <4>6 DEF Places
          <5> QED  BY <4>1, <5>1, <2>1, <2>2 DEF Matches
        <4> QED  BY <4>2, <4>3, <4>4, <4>5, <4>6 DEF Places
      <3> QED  BY <3>1, <3>2
    <2> QED  BY <1>2, <2>3, <2>6, <2>7, <2>8
  <1> QED  BY <1>1, <1>2

-----------------------------------------------------------------------------
(* The inductive invariant.  A slot's generation is the one of any handle  *)
(* that was not outlived, moved on once for each time the slot was given   *)
(* up since; the slots are shared out between the free list and the living *)
(* entities; and what the storages hold belongs to living entities.        *)
Wrapped(g, a) == IF g + a <= MaxGeneration THEN g + a ELSE g + a - MaxGeneration

Ages ==
    /\ \A n \in Names : n > made => age[n] = 0
    /\ \A n \in Names : n <= made => handle[n].generation \in 1 .. MaxGeneration
    /\ \A n \in Names : Kept(n) =>
           generations[handle[n].id] = Wrapped(handle[n].generation, age[n])

Counts == entityCount = Cardinality(Living) /\ entityCount + freeCount = Capacity

Free(id) == \E i \in Places : i < freeCount /\ freeList[i] = id

Slots ==
    /\ \A i, j \in Places : i < freeCount /\ j < freeCount /\ freeList[i] = freeList[j] => i = j
    /\ \A n, k \in Living : handle[n].id = handle[k].id => n = k
    /\ \A id \in Ids : Free(id) <=> ~ \E n \in Living : handle[n].id = id

Owners ==
    \A t \in Types :
        /\ Packed(storage[t])
        /\ \A f \in Entities : Matches(storage[t], f) => \E n \in Living : handle[n] = f

Inv == TypeOK /\ Ages /\ Counts /\ Slots /\ Owners

LEMMA BumpMovesOn ==
    ASSUME NEW g \in 1 .. MaxGeneration
    PROVE  Bump(g) = IF g < MaxGeneration THEN g + 1 ELSE 1
  <1>1. CASE g < MaxGeneration
    <2>1. (g + 1) % (MaxGeneration + 1) = g + 1
          BY <1>1, Sizes
    <2> QED  BY <1>1, <2>1 DEF Bump
  <1>2. CASE g = MaxGeneration
    <2>1. (g + 1) % (MaxGeneration + 1) = 0
          BY <1>2, Sizes
    <2> QED  BY <1>2, <2>1 DEF Bump
  <1> QED  BY <1>1, <1>2, Sizes

LEMMA BumpWrapped ==
    ASSUME NEW g \in 1 .. MaxGeneration, NEW a \in 0 .. MaxGeneration, a + 1 < MaxGeneration
    PROVE  Bump(Wrapped(g, a)) = Wrapped(g, a + 1) /\ Wrapped(g, a) \in 1 .. MaxGeneration
  <1>1. Wrapped(g, a) \in 1 .. MaxGeneration
        BY Sizes DEF Wrapped
  <1> QED  BY <1>1, BumpMovesOn, Sizes DEF Wrapped

(* A handle that was not outlived is valid while its entity lives.         *)
LEMMA ValidLives ==
    ASSUME TypeOK, Ages, NEW n \in Names, Kept(n)
    PROVE  IsValid(handle[n]) <=> age[n] = 0
  <1>1. handle[n].generation \in 1 .. MaxGeneration /\ age[n] \in 0 .. MaxGeneration
        /\ age[n] < MaxGeneration
        BY DEF TypeOK, Ages, Kept
  <1>2. generations[handle[n].id] = Wrapped(handle[n].generation, age[n])
        BY DEF Ages
  <1> QED  BY <1>1, <1>2, Sizes DEF IsValid, Wrapped

LEMMA LivingFacts ==
    ASSUME TypeOK, NEW n \in Living
    PROVE  n \in Names /\ n <= made /\ age[n] = 0 /\ Kept(n) /\ handle[n] \in Entities
           /\ handle[n].id \in Ids
  BY Sizes DEF TypeOK, Living, Kept, Entities

LEMMA LivingFinite == IsFiniteSet(Living)
  <1>1. IsFiniteSet(Names)
        BY FS_Interval, Sizes DEF Names
  <1> QED  BY <1>1, FS_Subset DEF Living

LEMMA InvInit == Init => Inv
  <1> SUFFICES ASSUME Init PROVE Inv
      OBVIOUS
  <1> USE DEF Init
  <1>1. Entity(0, 0) \in Entities
        BY Sizes DEF Entity, Entities, Ids
  <1>2. EmptyStorage \in Storages
        BY <1>1, Sizes DEF EmptyStorage, Storages
  <1>3. TypeOK
        BY <1>1, <1>2, Sizes DEF TypeOK, Places, Ids
  <1>4. Living = {}
        BY DEF Living, Names
  <1>5. Ages
        BY Sizes DEF Ages, Names, Kept
  <1>6. Counts
        BY <1>4, FS_EmptySet, Sizes DEF Counts
  <1>7. Slots
        BY <1>4, Sizes DEF Slots, Free, Places, Ids
  <1>8. \A f \in Entities : ~Matches(EmptyStorage, f)
        BY DEF Matches, EmptyStorage, Entities
  <1>9. Packed(EmptyStorage)
        BY Sizes DEF Packed, EmptyStorage, Places
  <1>10. Owners
        BY <1>8, <1>9 DEF Owners
  <1> QED  BY <1>3, <1>5, <1>6, <1>7, <1>10 DEF Inv

LEMMA InvCreate == Inv /\ Create => Inv'
  <1> SUFFICES ASSUME Inv, Create PROVE Inv'
      OBVIOUS
  <1> USE DEF Inv
  <1>1. PICK new \in Names : new = made + 1 /\ ~(new <= made)
        BY Sizes DEF Create, TypeOK, Names
  <1>2. PICK top \in Places : top = freeCount - 1 /\ top < freeCount
        BY Sizes DEF Create, TypeOK, Places
  <1>3. PICK index \in Ids : index = freeList[top]
        BY <1>2 DEF TypeOK
  <1>4. /\ handle' = [handle EXCEPT ![new] = Entity(index, generations[index])]
        /\ freeCount' = top /\ entityCount' = entityCount + 1 /\ made' = new
        /\ generations' = generations /\ freeList' = freeList /\ storage' = storage
        /\ age' = age
        BY <1>1, <1>2, <1>3 DEF Create
  <1>5. /\ Entity(index, generations[index]) \in Entities
        /\ Entity(index, generations[index]).id = index
        /\ Entity(index, generations[index]).generation = generations[index]
        /\ generations[index] \in 1 .. MaxGeneration
        BY Sizes DEF Entity, Entities, TypeOK
  <1>6. \A n \in Names : n # new => handle'[n] = handle[n]
        BY <1>4 DEF TypeOK
  <1>7. handle'[new] = Entity(index, generations[index])
        BY <1>4 DEF TypeOK
  <1>8. age[new] = 0
        BY <1>1 DEF Ages, TypeOK, Names
  <1>9. Living' = Living \cup {new} /\ new \notin Living
    <2>1. \A n \in Names : n <= new <=> n <= made \/ n = new
          BY <1>1 DEF TypeOK, Names
    <2> QED  BY <1>1, <1>4, <1>8, <2>1 DEF Living
  <1>10. Free(index)
        BY <1>2, <1>3 DEF Free
  <1>11. TypeOK'
    <2>1. freeCount' \in 0 .. Capacity /\ entityCount' \in 0 .. Capacity /\ made' \in 0 .. MaxMade
          BY <1>1, <1>2, <1>4 DEF TypeOK, Counts, Names, Places
    <2>2. handle' \in [Names -> Entities]
          BY <1>4, <1>5 DEF TypeOK
    <2> QED  BY <1>4, <2>1, <2>2 DEF TypeOK
  <1>12. Ages'
    <2>1. ASSUME NEW n \in Names, n > made' PROVE age'[n] = 0
          BY <1>1, <1>4, <2>1 DEF Ages, TypeOK, Names
    <2>2. ASSUME NEW n \in Names, n <= made'
          PROVE  /\ handle'[n].generation \in 1 .. MaxGeneration
                 /\ age'[n] < MaxGeneration =>
                        generations'[handle'[n].id] = Wrapped(handle'[n].generation, age'[n])
      <3>1. CASE n = new
        <4>1. Wrapped(generations[index], 0) = generations[index]
              BY <1>5, Sizes DEF Wrapped
        <4> QED  BY <3>1, <4>1, <1>4, <1>5, <1>7, <1>8
      <3>2. CASE n # new
        <4>1. n <= made
              BY <2>2, <3>2, <1>1, <1>4 DEF TypeOK, Names
        <4> QED  BY <3>2, <4>1, <1>4, <1>6 DEF Ages, Kept
      <3> QED  BY <3>1, <3>2
    <2> QED  BY <2>1, <2>2 DEF Ages, Kept
  <1>13. Counts'
    <2>1. Cardinality(Living') = Cardinality(Living) + 1
          BY <1>9, LivingFinite, FS_AddElement
    <2> QED  BY <2>1, <1>2, <1>4 DEF Counts, TypeOK
  <1>14. Slots'
    <2>1. \A i \in Places : i < top => i < freeCount /\ i # top
          BY <1>2 DEF Places, TypeOK
    <2>2. \A i \in Places : i < freeCount => i < top \/ i = top
          BY <1>2 DEF Places, TypeOK
    <2>3. \A id \in Ids : (\E i \in Places : i < top /\ freeList[i] = id) <=> Free(id) /\ id # index
          BY <2>1, <2>2, <1>2, <1>3 DEF Free, Slots
    <2>4. \A n \in Living : n # new /\ handle[n].id # index
          BY <1>9, <1>10 DEF Slots
    <2>5. \A id \in Ids : (\E n \in Living' : handle'[n].id = id)
                          <=> (\E n \in Living : handle[n].id = id) \/ id = index
          BY <1>5, <1>6, <1>7, <1>9, <2>4, LivingFacts
    <2>6. \A n, k \in Living' : handle'[n].id = handle'[k].id => n = k
          BY <1>5, <1>6, <1>7, <1>9, <2>4, LivingFacts DEF Slots
    <2>7. \A i, j \in Places : i < top /\ j < top /\ freeList[i] = freeList[j] => i = j
          BY <2>1 DEF Slots
    <2>8. \A id \in Ids : Free(id)' <=> ~ \E n \in Living' : handle'[n].id = id
          BY <2>3, <2>5, <1>4, <1>10 DEF Free, Slots
    <2> QED  BY <2>6, <2>7, <2>8, <1>4 DEF Slots
  <1>15. Owners'
    <2>1. \A n \in Living : n \in Living' /\ handle'[n] = handle[n]
          BY <1>6, <1>9, LivingFacts
    <2> QED  BY <2>1, <1>4 DEF Owners
  <1> QED  BY <1>11, <1>12, <1>13, <1>14, <1>15

(* Only a living entity is destroyed, and only that one stops living.      *)
LEMMA DestroyEffect ==
    ASSUME Inv, NEW n \in Names, Destroy(n)
    PROVE  /\ n \in Living /\ Living' = Living \ {n}
           /\ \A k \in Names :
                  age'[k] = IF k <= made /\ handle[k].id = handle[n].id /\ age[k] < MaxGeneration
                            THEN age[k] + 1 ELSE age[k]
           /\ made' = made /\ handle' = handle
           /\ \A t \in Types : storage'[t] = RemoveComponent(storage[t], handle[n])
  <1> USE DEF Inv
  <1>1. n \in Living
        BY ValidLives DEF Destroy, Kept, Living
  <1>2. \A k \in Names :
            age'[k] = IF k <= made /\ handle[k].id = handle[n].id /\ age[k] < MaxGeneration
                      THEN age[k] + 1 ELSE age[k]
        BY DEF Destroy, Older
  <1>3. Living' = Living \ {n}
    <2>1. ASSUME NEW k \in Names PROVE k <= made /\ age'[k] = 0 <=> k \in Living \ {n}
      <3>1. CASE k \in Living
        <4>1. handle[k].id = handle[n].id <=> k = n
              BY <3>1, <1>1 DEF Slots
        <4>2. age[k] = 0 /\ k <= made /\ age[k] < MaxGeneration
              BY <3>1, LivingFacts, Sizes
        <4> QED  BY <3>1, <4>1, <4>2, <1>2
      <3>2. CASE k \notin Living
        <4>1. ~(k <= made) \/ age[k] > 0
              BY <3>2 DEF Living, TypeOK
        <4> QED  BY <3>2, <4>1, <1>2 DEF TypeOK
      <3> QED  BY <3>1, <3>2
    <2>2. made' = made
          BY DEF Destroy
    <2> QED  BY <2>1, <2>2 DEF Living
  <1> QED  BY <1>1, <1>2, <1>3 DEF Destroy

LEMMA InvDestroy == ASSUME Inv, NEW n \in Names, Destroy(n) PROVE Inv'
  <1> USE DEF Inv
  <1>1. n \in Living
        BY DestroyEffect
  <1>2. PICK e \in Entities : e = handle[n] /\ e.id \in Ids
        BY <1>1, LivingFacts
  <1>3. /\ storage' = [t \in Types |-> RemoveComponent(storage[t], e)]
        /\ generations' = [generations EXCEPT ![e.id] = Bump(generations[e.id])]
        /\ freeList' = [freeList EXCEPT ![freeCount] = e.id]
        /\ freeCount' = freeCount + 1 /\ entityCount' = entityCount - 1
        /\ age' = Older(e.id) /\ made' = made /\ handle' = handle
        BY <1>2 DEF Destroy
  <1>4. Cardinality(Living \ {n}) = Cardinality(Living) - 1 /\ Cardinality(Living \ {n}) \in Nat
        BY <1>1, LivingFinite, FS_RemoveElement, FS_CardinalityType
  <1>5. PICK fc \in Places : fc = freeCount
    <2>1. freeCount < Capacity
          BY <1>4, Sizes DEF Counts, TypeOK
    <2> QED  BY <2>1, Sizes DEF TypeOK, Places
  <1>6. \A k \in Names : age'[k] = IF k <= made /\ handle[k].id = e.id /\ age[k] < MaxGeneration
                                   THEN age[k] + 1 ELSE age[k]
        BY <1>2, DestroyEffect
  <1>7. Living' = Living \ {n}
        BY DestroyEffect
  <1>8. \A t \in Types :
            /\ storage'[t] \in Storages /\ Packed(storage'[t])
            /\ \A f \in Entities : Matches(storage'[t], f) => f # e /\ \E k \in Living : handle[k] = f
    <2> SUFFICES ASSUME NEW t \in Types
                 PROVE  /\ storage'[t] \in Storages /\ Packed(storage'[t])
                        /\ \A f \in Entities : Matches(storage'[t], f) =>
                               f # e /\ \E k \in Living : handle[k] = f
          OBVIOUS
    <2>1. storage[t] \in Storages /\ storage'[t] = RemoveComponent(storage[t], e)
          BY <1>3 DEF TypeOK
    <2>2. Packed(storage[t]) /\ \A f \in Entities : Matches(storage[t], f) =>
                                     \E k \in Living : handle[k] = f
          BY DEF Owners
    <2>3. /\ storage'[t] \in Storages /\ Packed(storage'[t])
          /\ \A f \in Entities : Matches(storage'[t], f) <=> Matches(storage[t], f) /\ f # e
          BY <2>1, <2>2, RemoveKeeps
    <2> QED  BY <2>2, <2>3
  <1>9. generations[e.id] \in 1 .. MaxGeneration
        BY <1>2 DEF TypeOK
  <1>10. TypeOK'
    <2>1. Bump(generations[e.id]) \in 1 .. MaxGeneration
          BY <1>9, BumpMovesOn, Sizes
    <2>2. generations' \in [Ids -> 1 .. MaxGeneration]
          BY <2>1, <1>3 DEF TypeOK
    <2>3. freeList' \in [Places -> Ids]
          BY <1>2, <1>3 DEF TypeOK
    <2>4. freeCount' \in 0 .. Capacity /\ entityCount' \in 0 .. Capacity
          BY <1>3, <1>4, <1>5, Sizes DEF Counts, TypeOK, Places
    <2>5. storage' \in [Types -> Storages]
          BY <1>3, <1>8
    <2>6. age' \in [Names -> 0 .. MaxGeneration]
      <3>1. \A k \in Names : age'[k] \in 0 .. MaxGeneration
            BY <1>6, Sizes DEF TypeOK
      <3> QED  BY <1>3, <3>1 DEF Older
    <2> QED  BY <1>3, <2>2, <2>3, <2>4, <2>5, <2>6 DEF TypeOK
  <1>11. Ages'
    <2>1. \A k \in Names : k > made' => age'[k] = 0
          BY <1>3, <1>6 DEF Ages, TypeOK, Names
    <2>2. ASSUME NEW k \in Names, k <= made', age'[k] < MaxGeneration
          PROVE  generations'[handle'[k].id] = Wrapped(handle'[k].generation, age'[k])
      <3>0. handle[k] \in Entities /\ handle[k].id \in Ids
            BY DEF TypeOK, Entities
      <3>1. CASE handle[k].id = e.id
        <4>1. age[k] \in 0 .. MaxGeneration /\ age'[k] = age[k] + 1 /\ age[k] < MaxGeneration
              BY <3>1, <2>2, <1>3, <1>6 DEF TypeOK
        <4>2. generations[e.id] = Wrapped(handle[k].generation, age[k])
              /\ handle[k].generation \in 1 .. MaxGeneration
              BY <3>1, <4>1, <2>2, <1>3 DEF Ages, Kept
        <4>3. Bump(generations[e.id]) = Wrapped(handle[k].generation, age[k] + 1)
              BY <4>1, <4>2, <2>2, BumpWrapped
        <4>4. generations'[e.id] = Bump(generations[e.id])
              BY <1>2, <1>3 DEF TypeOK
        <4> QED  BY <3>1, <4>1, <4>3, <4>4, <1>3
      <3>2. CASE handle[k].id # e.id
        <4>1. age'[k] = age[k] /\ generations'[handle[k].id] = generations[handle[k].id]
              BY <3>0, <3>2, <1>3, <1>6 DEF TypeOK
        <4> QED  BY <4>1, <2>2, <1>3 DEF Ages, Kept
      <3> QED  BY <3>1, <3>2
    <2> QED  BY <2>1, <2>2, <1>3 DEF Ages, Kept
  <1>12. Counts'
        BY <1>3, <1>4, <1>7 DEF Counts, TypeOK
  <1>13. Slots'
    <2>1. \A i \in Places : (i < fc <=> i < freeCount) /\ (i < fc + 1 <=> i < fc \/ i = fc)
          BY <1>5 DEF Places
    <2>2. freeList'[fc] = e.id /\ \A i \in Places : i # fc => freeList'[i] = freeList[i]
          BY <1>3, <1>5 DEF TypeOK
    <2>3. ~Free(e.id)
          BY <1>1, <1>2 DEF Slots
    <2>4. ~(fc < fc)
          BY DEF Places
    <2>5. \A i \in Places : i < fc => freeList'[i] = freeList[i] /\ freeList[i] # e.id
          BY <2>1, <2>2, <2>3, <2>4 DEF Free
    <2>6. \A id \in Ids : (\E i \in Places : i < fc + 1 /\ freeList'[i] = id) <=> Free(id) \/ id = e.id
          BY <2>1, <2>2, <2>5 DEF Free
    <2>7. \A i, j \in Places : i < fc + 1 /\ j < fc + 1 /\ freeList'[i] = freeList'[j] => i = j
          BY <2>1, <2>2, <2>5 DEF Slots
    <2>8. \A id \in Ids : (\E k \in Living \ {n} : handle[k].id = id)
                          <=> (\E k \in Living : handle[k].id = id) /\ id # e.id
          BY <1>1, <1>2 DEF Slots
    <2>9. freeCount' = fc + 1
          BY <1>3, <1>5
    <2>10. \A id \in Ids : Free(id)' <=> ~ \E k \in Living' : handle'[k].id = id
          BY <2>6, <2>8, <2>9, <1>3, <1>7 DEF Free, Slots
    <2> QED  BY <2>7, <2>9, <2>10, <1>3, <1>7 DEF Slots
  <1>14. Owners'
    <2>1. ASSUME NEW t \in Types, NEW f \in Entities, Matches(storage'[t], f)
          PROVE  \E k \in Living \ {n} : handle[k] = f
      <3>1. PICK k \in Living : handle[k] = f /\ f # e
            BY <2>1, <1>8
      <3> QED  BY <3>1, <1>2
    <2> QED  BY <2>1, <1>3, <1>7, <1>8 DEF Owners
  <1> QED  BY <1>10, <1>11, <1>12, <1>13, <1>14

LEMMA InvRemove ==
    ASSUME Inv, NEW n \in Names, NEW u \in Types, Remove(n, u) PROVE Inv'
  <1> USE DEF Inv
  <1>1. handle[n] \in Entities
        BY DEF TypeOK
  <1>2. /\ generations' = generations /\ freeList' = freeList /\ freeCount' = freeCount
        /\ entityCount' = entityCount /\ made' = made /\ handle' = handle /\ age' = age
        /\ storage' = [storage EXCEPT ![u] = RemoveComponent(storage[u], handle[n])]
        BY DEF Remove
  <1>3. \A t \in Types :
            /\ storage'[t] \in Storages /\ Packed(storage'[t])
            /\ \A f \in Entities : Matches(storage'[t], f) => \E k \in Living : handle[k] = f
    <2> SUFFICES ASSUME NEW t \in Types
                 PROVE  /\ storage'[t] \in Storages /\ Packed(storage'[t])
                        /\ \A f \in Entities : Matches(storage'[t], f) =>
                               \E k \in Living : handle[k] = f
          OBVIOUS
    <2>1. storage[t] \in Storages
          BY DEF TypeOK
    <2>2. Packed(storage[t]) /\ \A f \in Entities : Matches(storage[t], f) =>
                                     \E k \in Living : handle[k] = f
          BY DEF Owners
    <2>3. storage'[t] = IF t = u THEN RemoveComponent(storage[t], handle[n]) ELSE storage[t]
          BY <1>2 DEF TypeOK
    <2>4. LET r == RemoveComponent(storage[t], handle[n]) IN
          r \in Storages /\ Packed(r)
          /\ \A f \in Entities : Matches(r, f) => Matches(storage[t], f)
          BY <1>1, <2>1, <2>2, RemoveKeeps
    <2> QED  BY <2>1, <2>2, <2>3, <2>4
  <1>4. storage' \in [Types -> Storages]
        BY <1>2, <1>3 DEF TypeOK
  <1>5. TypeOK'
        BY <1>2, <1>4 DEF TypeOK
  <1>6. Living' = Living
        BY <1>2 DEF Living
  <1>7. Ages'
        BY <1>2 DEF Ages, Kept
  <1>8. Counts'
        BY <1>2, <1>6 DEF Counts
  <1>9. Slots'
        BY <1>2, <1>6 DEF Slots, Free
  <1>10. Owners'
        BY <1>2, <1>3, <1>6 DEF Owners
  <1> QED  BY <1>5, <1>7, <1>8, <1>9, <1>10

(* Two entries of one id are of one entity: what an attachment needs.      *)
LEMMA OneOfEachId ==
    ASSUME Inv, NEW n \in Living, NEW t \in Types, NEW i \in Places,
           i < storage[t].count, storage[t].entities[i].id = handle[n].id
    PROVE  storage[t].entities[i] = handle[n]
  <1>1. storage[t] \in Storages /\ Packed(storage[t])
        BY DEF Inv, TypeOK, Owners
  <1>2. storage[t].entities[i] \in Entities /\ Matches(storage[t], storage[t].entities[i])
        BY <1>1, PackedMatch
  <1>3. PICK k \in Living : handle[k] = storage[t].entities[i]
        BY <1>2 DEF Inv, Owners
  <1> QED  BY <1>3 DEF Inv, Slots

LEMMA InvAdd ==
    ASSUME Inv, NEW n \in Names, NEW u \in Types, NEW v \in Values, Add(n, u, v) PROVE Inv'
  <1> USE DEF Inv
  <1>1. n \in Living /\ handle[n] \in Entities
        BY ValidLives DEF Add, Kept, Living, TypeOK
  <1>2. /\ generations' = generations /\ freeList' = freeList /\ freeCount' = freeCount
        /\ entityCount' = entityCount /\ made' = made /\ handle' = handle /\ age' = age
        /\ storage' = [storage EXCEPT ![u] = AddComponent(storage[u], handle[n], v)]
        BY DEF Add
  <1>3. \A t \in Types :
            /\ storage'[t] \in Storages /\ Packed(storage'[t])
            /\ \A f \in Entities : Matches(storage'[t], f) => \E k \in Living : handle[k] = f
    <2> SUFFICES ASSUME NEW t \in Types
                 PROVE  /\ storage'[t] \in Storages /\ Packed(storage'[t])
                        /\ \A f \in Entities : Matches(storage'[t], f) =>
                               \E k \in Living : handle[k] = f
          OBVIOUS
    <2>1. storage[t] \in Storages /\ storage[t].count \in 0 .. Capacity
          BY DEF TypeOK, Storages
    <2>2. Packed(storage[t]) /\ \A f \in Entities : Matches(storage[t], f) =>
                                     \E k \in Living : handle[k] = f
          BY DEF Owners
    <2>3. CASE t = u /\ (Matches(storage[t], handle[n]) \/ storage[t].count < Capacity)
      <3>1. storage'[t] = AddComponent(storage[t], handle[n], v)
            BY <2>3, <1>2 DEF TypeOK
      <3>2. \A i \in Places : i < storage[t].count /\ storage[t].entities[i].id = handle[n].id
                => storage[t].entities[i] = handle[n]
            BY <1>1, OneOfEachId
      <3>3. /\ storage'[t] \in Storages /\ Packed(storage'[t])
            /\ \A f \in Entities : Matches(storage'[t], f) <=> Matches(storage[t], f) \/ f = handle[n]
            BY <1>1, <2>1, <2>2, <2>3, <3>1, <3>2, AddKeeps
      <3> QED  BY <1>1, <2>2, <3>3
    <2>4. CASE ~(t = u /\ (Matches(storage[t], handle[n]) \/ storage[t].count < Capacity))
      <3>1. t = u => ~Matches(storage[t], handle[n]) /\ storage[t].count >= Capacity
            BY <2>1, <2>4, Sizes
      <3>2. t = u => AddComponent(storage[t], handle[n], v) = storage[t]
            BY <3>1 DEF AddComponent
      <3>3. storage'[t] = storage[t]
            BY <3>2, <1>2 DEF TypeOK
      <3> QED  BY <2>1, <2>2, <3>3
    <2> QED  BY <2>3, <2>4
  <1>4. storage' \in [Types -> Storages]
        BY <1>2, <1>3 DEF TypeOK
  <1>5. TypeOK'
        BY <1>2, <1>4 DEF TypeOK
  <1>6. Living' = Living
        BY <1>2 DEF Living
  <1>7. Ages'
        BY <1>2 DEF Ages, Kept
  <1>8. Counts'
        BY <1>2, <1>6 DEF Counts
  <1>9. Slots'
        BY <1>2, <1>6 DEF Slots, Free
  <1>10. Owners'
        BY <1>2, <1>3, <1>6 DEF Owners
  <1> QED  BY <1>5, <1>7, <1>8, <1>9, <1>10

LEMMA InvNext == Inv /\ [Next]_vars => Inv'
  <1> SUFFICES ASSUME Inv, [Next]_vars PROVE Inv'
      OBVIOUS
  <1>1. CASE Create
        BY <1>1, InvCreate
  <1>2. CASE \E n \in Names : Destroy(n)
        BY <1>2, InvDestroy
  <1>3. CASE \E n \in Names, t \in Types : Remove(n, t)
        BY <1>3, InvRemove
  <1>4. CASE \E n \in Names, t \in Types, v \in Values : Add(n, t, v)
        BY <1>4, InvAdd
  <1>5. CASE UNCHANGED vars
    <2>1. Living' = Living
          BY <1>5 DEF vars, Living
    <2> QED  BY <1>5, <2>1 DEF vars, Inv, TypeOK, Ages, Kept, Counts, Slots, Free, Owners
  <1> QED  BY <1>1, <1>2, <1>3, <1>4, <1>5 DEF Next

THEOREM Invariant == Spec => []Inv
  BY InvInit, InvNext, PTL DEF Spec

(* A handle is valid exactly while its entity lives, and no storage        *)
(* answers for it after that, until its slot was given up as often as the  *)
(* generation has values (ui/component.hpp:76-80).                         *)
THEOREM StaleHandlesAreDetected == Spec => []StaleDetected
  <1>1. Inv => StaleDetected
    <2> SUFFICES ASSUME Inv, NEW n \in Names, Kept(n)
                 PROVE  /\ IsValid(handle[n]) <=> age[n] = 0
                        /\ age[n] > 0 => \A t \in Types : ~Matches(storage[t], handle[n])
        BY DEF StaleDetected
    <2>1. IsValid(handle[n]) <=> age[n] = 0
          BY ValidLives DEF Inv
    <2>2. ASSUME age[n] > 0, NEW t \in Types, Matches(storage[t], handle[n]) PROVE FALSE
      <3>1. PICK k \in Living : handle[k] = handle[n]
            BY <2>2 DEF Inv, Owners, TypeOK
      <3>2. IsValid(handle[k])
            BY ValidLives, LivingFacts DEF Inv
      <3> QED  BY <2>1, <2>2, <3>1, <3>2
    <2> QED  BY <2>1, <2>2
  <1> QED  BY <1>1, Invariant, PTL

(* Every slot is free, once, or of one living entity, and the storages     *)
(* find what they hold, of living entities only (ui/system.hpp:116-146,    *)
(* ui/component.hpp:130-143).                                              *)
THEOREM SlotsAreAccounted == Spec => []SlotsAccounted
  <1>1. Inv => SlotsAccounted
    <2> SUFFICES ASSUME Inv PROVE SlotsAccounted
        OBVIOUS
    <2>1. \A i : i \in 0 .. freeCount - 1 <=> i \in Places /\ i < freeCount
          BY Sizes DEF Inv, TypeOK, Places
    <2>2. \A id \in Ids : (\E i \in 0 .. freeCount - 1 : freeList[i] = id) <=> Free(id)
          BY <2>1 DEF Free
    <2>3. ASSUME NEW t \in Types, NEW i \in Places, i < storage[t].count
          PROVE  /\ \E n \in Living : handle[n] = storage[t].entities[i]
                 /\ storage[t].sparse[storage[t].entities[i].id] = i
      <3>1. storage[t] \in Storages /\ Packed(storage[t])
            BY DEF Inv, TypeOK, Owners
      <3>2. storage[t].entities[i] \in Entities /\ Matches(storage[t], storage[t].entities[i])
            BY <2>3, <3>1, PackedMatch
      <3> QED  BY <2>3, <3>1, <3>2 DEF Inv, Owners, Packed
    <2> QED  BY <2>1, <2>2, <2>3 DEF SlotsAccounted, Inv, Counts, Slots
  <1> QED  BY <1>1, Invariant, PTL

(* Type correctness of the world.                                          *)
THEOREM TypeCorrect == Spec => []TypeOK
  BY Invariant, PTL DEF Inv

-----------------------------------------------------------------------------
(* The refinement.                                                         *)

(* A storage has room for every living entity it has nothing of: those it  *)
(* holds have an entity each, and there are no more of them than slots.    *)
LEMMA RoomForTheLiving ==
    ASSUME Inv, NEW n \in Living, NEW t \in Types, ~Matches(storage[t], handle[n])
    PROVE  storage[t].count < Capacity
  <1> USE DEF Inv
  <1>1. storage[t] \in Storages /\ storage[t].count \in 0 .. Capacity /\ Packed(storage[t])
        BY DEF TypeOK, Storages, Owners
  <1>2. SUFFICES ASSUME storage[t].count = Capacity PROVE FALSE
        BY <1>1, Sizes
  <1>3. \A i \in Places : i < storage[t].count
        BY <1>2, Sizes DEF Places
  <1>4. \A i \in Places : \E k \in Living \ {n} : handle[k] = storage[t].entities[i]
    <2>1. ASSUME NEW i \in Places
          PROVE  \E k \in Living \ {n} : handle[k] = storage[t].entities[i]
      <3>1. storage[t].entities[i] \in Entities /\ Matches(storage[t], storage[t].entities[i])
            BY <1>1, <1>3, PackedMatch
      <3> QED  BY <3>1 DEF Owners
    <2> QED  BY <2>1
  <1> DEFINE f == [i \in Places |-> CHOOSE k \in Living \ {n} : handle[k] = storage[t].entities[i]]
  <1>5. \A i \in Places : f[i] \in Living \ {n} /\ handle[f[i]] = storage[t].entities[i]
        BY <1>4
  <1>6. \A i \in Places : storage[t].sparse[storage[t].entities[i].id] = i
        BY <1>1, <1>3 DEF Packed
  <1>7. \A i, j \in Places : f[i] = f[j] => i = j
        BY <1>5, <1>6
  <1>8. f \in Injection(Places, Living \ {n})
        BY <1>5, <1>7 DEF Injection, IsInjective
  <1>9. IsFiniteSet(Living \ {n}) /\ Cardinality(Living \ {n}) = Cardinality(Living) - 1
        BY LivingFinite, FS_RemoveElement
  <1>10. Cardinality(Places) <= Cardinality(Living \ {n})
        BY <1>8, <1>9, FS_Injection
  <1>11. Cardinality(Places) = Capacity
        BY FS_Interval, Sizes DEF Places
  <1> QED  BY <1>9, <1>10, <1>11, Sizes DEF Counts, TypeOK

LEMMA HoldsFacts ==
    /\ DOMAIN Holds = Types
    /\ \A t \in Types : Holds[t] = [k \in Held(t) |-> Found(storage[t], handle[k])]
    /\ \A t \in Types : Holds'[t] = [k \in Held(t)' |-> Found(storage'[t], handle'[k])]
  BY DEF Holds, Found

LEMMA RegistryInit == Init => Registry!Init
  <1> SUFFICES ASSUME Init PROVE Registry!Init
      OBVIOUS
  <1>1. made = 0 /\ Living = {}
        BY DEF Init, Living, Names
  <1>2. \A t \in Types : Held(t) = {}
        BY <1>1 DEF Held
  <1>3. Holds = [t \in Types |-> [n \in {} |-> n]]
    <2>1. \A t \in Types : Holds[t] = [n \in {} |-> n]
          BY <1>2, HoldsFacts
    <2> QED  BY <2>1 DEF Holds
  <1> QED  BY <1>1, <1>3 DEF Registry!Init

LEMMA RegistryCreate == Inv /\ Create => Registry!Create
  <1> SUFFICES ASSUME Inv, Create PROVE Registry!Create
      OBVIOUS
  <1> USE DEF Inv
  <1>0. Inv'
        BY InvCreate
  <1>1. made' = made + 1 /\ made + 1 \in Names /\ age' = age /\ storage' = storage
        BY Sizes DEF Create, TypeOK, Names
  <1>2. \A n \in Names : n # made + 1 => handle'[n] = handle[n]
        BY DEF Create, TypeOK
  <1>3. Living' = Living \cup {made + 1} /\ made + 1 \notin Living
    <2>1. age[made + 1] = 0
          BY <1>1 DEF Ages, TypeOK, Names
    <2>2. \A n \in Names : n <= made + 1 <=> n <= made \/ n = made + 1
          BY DEF TypeOK, Names
    <2>3. ~(made + 1 <= made)
          BY DEF TypeOK
    <2> QED  BY <1>1, <2>1, <2>2, <2>3 DEF Living
  <1>4. \A n \in Living : handle'[n] = handle[n]
        BY <1>2, <1>3, LivingFacts
  <1>5. ASSUME NEW t \in Types PROVE Holds'[t] = Holds[t]
    <2>1. ~Matches(storage[t], handle'[made + 1])
      <3>1. SUFFICES ASSUME Matches(storage[t], handle'[made + 1]) PROVE FALSE
            OBVIOUS
      <3>2. handle'[made + 1] \in Entities
            BY <1>0, <1>1 DEF TypeOK
      <3>3. PICK k \in Living : handle[k] = handle'[made + 1]
            BY <3>1, <3>2 DEF Owners
      <3>4. k \in Living' /\ made + 1 \in Living' /\ handle'[k] = handle'[made + 1]
            BY <3>3, <1>3, <1>4
      <3> QED  BY <3>4, <1>0, <1>3 DEF Slots
    <2>2. Held(t)' = Held(t)
          BY <2>1, <1>1, <1>3, <1>4 DEF Held
    <2>3. \A n \in Held(t) : Found(storage'[t], handle'[n]) = Found(storage[t], handle[n])
          BY <1>1, <1>4 DEF Held
    <2>4. Holds'[t] = [k \in Held(t) |-> Found(storage'[t], handle'[k])]
          BY <2>2, HoldsFacts
    <2> QED  BY <2>3, <2>4, HoldsFacts
  <1>6. Holds' = Holds
        BY <1>5 DEF Holds
  <1> QED  BY <1>1, <1>3, <1>6 DEF Registry!Create

LEMMA RegistryDestroy ==
    ASSUME Inv, NEW n \in Names, Destroy(n) PROVE n \in Living /\ Registry!Destroy(n)
  <1> USE DEF Inv
  <1>1. /\ n \in Living /\ Living' = Living \ {n}
        /\ made' = made /\ handle' = handle
        /\ \A t \in Types : storage'[t] = RemoveComponent(storage[t], handle[n])
        BY DestroyEffect
  <1>2. ASSUME NEW t \in Types
        PROVE  Holds'[t] = [k \in DOMAIN Holds[t] \ {n} |-> Holds[t][k]]
    <2>1. storage[t] \in Storages /\ Packed(storage[t]) /\ handle[n] \in Entities
          BY DEF TypeOK, Owners
    <2>2. /\ \A f \in Entities : Matches(storage'[t], f) <=> Matches(storage[t], f) /\ f # handle[n]
          /\ \A f \in Entities : Matches(storage'[t], f) => Found(storage'[t], f) = Found(storage[t], f)
          BY <1>1, <2>1, RemoveKeeps
    <2>3. \A k \in Living : handle[k] \in Entities /\ (k # n => handle[k] # handle[n])
          BY <1>1, LivingFacts DEF Slots
    <2>4. Held(t)' = Held(t) \ {n}
          BY <1>1, <2>2, <2>3 DEF Held
    <2>5. \A k \in Held(t) \ {n} : Found(storage'[t], handle'[k]) = Found(storage[t], handle[k])
          BY <1>1, <2>2, <2>3 DEF Held
    <2>6. Holds'[t] = [k \in Held(t) \ {n} |-> Found(storage'[t], handle'[k])]
          BY <2>4, HoldsFacts
    <2> QED  BY <2>5, <2>6, HoldsFacts
  <1>3. Holds' = [t \in Types |-> [k \in DOMAIN Holds[t] \ {n} |-> Holds[t][k]]]
        BY <1>2 DEF Holds
  <1> QED  BY <1>1, <1>3 DEF Registry!Destroy

LEMMA RegistryRemove ==
    ASSUME Inv, NEW n \in Names, NEW u \in Types, Remove(n, u)
    PROVE  (n \in Living /\ Registry!Detach(n, u)) \/ UNCHANGED Registry!vars
  <1> USE DEF Inv
  <1>0. handle[n] \in Entities
        BY DEF TypeOK
  <1>1. /\ made' = made /\ handle' = handle /\ age' = age
        /\ storage' = [storage EXCEPT ![u] = RemoveComponent(storage[u], handle[n])]
        BY DEF Remove
  <1>2. Living' = Living
        BY <1>1 DEF Living
  <1>3. storage[u] \in Storages /\ Packed(storage[u])
        BY DEF TypeOK, Owners
  <1>4. storage'[u] = RemoveComponent(storage[u], handle[n])
        /\ \A t \in Types : t # u => storage'[t] = storage[t]
        BY <1>1 DEF TypeOK
  <1>5. \A t \in Types : t # u => Holds'[t] = Holds[t]
    <2>1. ASSUME NEW t \in Types, t # u PROVE Holds'[t] = Holds[t]
      <3>1. storage'[t] = storage[t]
            BY <2>1, <1>4
      <3>2. Held(t)' = Held(t)
            BY <3>1, <1>1, <1>2 DEF Held
      <3>3. Holds'[t] = [k \in Held(t) |-> Found(storage'[t], handle'[k])]
            BY <3>2, HoldsFacts
      <3> QED  BY <3>1, <3>3, <1>1, HoldsFacts
    <2> QED  BY <2>1
  <1>6. CASE n \in Living
    <2>1. /\ \A f \in Entities : Matches(storage'[u], f) <=> Matches(storage[u], f) /\ f # handle[n]
          /\ \A f \in Entities : Matches(storage'[u], f) => Found(storage'[u], f) = Found(storage[u], f)
          BY <1>0, <1>3, <1>4, RemoveKeeps
    <2>2. \A k \in Living : handle[k] \in Entities /\ (k # n => handle[k] # handle[n])
          BY <1>6, LivingFacts DEF Slots
    <2>3. Held(u)' = Held(u) \ {n}
          BY <1>1, <1>2, <2>1, <2>2 DEF Held
    <2>4. \A k \in Held(u) \ {n} : Found(storage'[u], handle'[k]) = Found(storage[u], handle[k])
          BY <1>1, <2>1, <2>2 DEF Held
    <2>5. Holds'[u] = [k \in Held(u) \ {n} |-> Found(storage'[u], handle'[k])]
          BY <2>3, HoldsFacts
    <2>6. Holds'[u] = [k \in DOMAIN Holds[u] \ {n} |-> Holds[u][k]]
          BY <2>4, <2>5, HoldsFacts
    <2>7. Holds' = [Holds EXCEPT ![u] = [k \in DOMAIN Holds[u] \ {n} |-> Holds[u][k]]]
          BY <2>6, <1>5 DEF Holds
    <2> QED  BY <2>7, <1>1, <1>2, <1>6 DEF Registry!Detach
  <1>7. CASE n \notin Living
    <2>1. ~Matches(storage[u], handle[n])
      <3>1. SUFFICES ASSUME Matches(storage[u], handle[n]) PROVE FALSE
            OBVIOUS
      <3>2. PICK k \in Living : handle[k] = handle[n]
            BY <3>1, <1>0 DEF Owners
      <3>3. IsValid(handle[k])
            BY ValidLives, LivingFacts
      <3>4. age[n] = 0
            BY <3>2, <3>3, ValidLives DEF Remove
      <3> QED  BY <3>4, <1>7 DEF Living, Remove, Kept
    <2>2. storage' = storage
          BY <2>1, <1>1 DEF RemoveComponent, TypeOK
    <2>3. Holds' = Holds
      <3>1. \A t \in Types : Held(t)' = Held(t)
            BY <2>2, <1>1, <1>2 DEF Held
      <3> QED  BY <3>1, <2>2, <1>1 DEF Holds
    <2> QED  BY <2>3, <1>1, <1>2 DEF Registry!vars
  <1> QED  BY <1>6, <1>7

LEMMA RegistryAdd ==
    ASSUME Inv, NEW n \in Names, NEW u \in Types, NEW v \in Values, Add(n, u, v)
    PROVE  n \in Living /\ Registry!Attach(n, u, v)
  <1> USE DEF Inv
  <1>0. n \in Living /\ handle[n] \in Entities
        BY ValidLives DEF Add, Kept, Living, TypeOK
  <1>1. /\ made' = made /\ handle' = handle /\ age' = age
        /\ storage' = [storage EXCEPT ![u] = AddComponent(storage[u], handle[n], v)]
        BY DEF Add
  <1>2. Living' = Living
        BY <1>1 DEF Living
  <1>3. storage[u] \in Storages /\ Packed(storage[u])
        BY DEF TypeOK, Owners
  <1>4. storage'[u] = AddComponent(storage[u], handle[n], v)
        /\ \A t \in Types : t # u => storage'[t] = storage[t]
        BY <1>1 DEF TypeOK
  <1>5. \A t \in Types : t # u => Holds'[t] = Holds[t]
    <2>1. ASSUME NEW t \in Types, t # u PROVE Holds'[t] = Holds[t]
      <3>1. storage'[t] = storage[t]
            BY <2>1, <1>4
      <3>2. Held(t)' = Held(t)
            BY <3>1, <1>1, <1>2 DEF Held
      <3>3. Holds'[t] = [k \in Held(t) |-> Found(storage'[t], handle'[k])]
            BY <3>2, HoldsFacts
      <3> QED  BY <3>1, <3>3, <1>1, HoldsFacts
    <2> QED  BY <2>1
  <1>6. /\ \A f \in Entities : Matches(storage'[u], f) <=> Matches(storage[u], f) \/ f = handle[n]
        /\ Found(storage'[u], handle[n]) = v
        /\ \A f \in Entities : Matches(storage[u], f) /\ f # handle[n] =>
               Found(storage'[u], f) = Found(storage[u], f)
    <2>1. Matches(storage[u], handle[n]) \/ storage[u].count < Capacity
          BY <1>0, RoomForTheLiving
    <2>2. \A i \in Places : i < storage[u].count /\ storage[u].entities[i].id = handle[n].id
              => storage[u].entities[i] = handle[n]
          BY <1>0, OneOfEachId
    <2> QED  BY <1>0, <1>3, <1>4, <2>1, <2>2, AddKeeps
  <1>7. \A k \in Living : handle[k] \in Entities /\ (k # n => handle[k] # handle[n])
        BY <1>0, LivingFacts DEF Slots
  <1>8. Held(u)' = Held(u) \cup {n}
        BY <1>0, <1>1, <1>2, <1>6, <1>7 DEF Held
  <1>9. \A k \in Held(u) \cup {n} :
            Found(storage'[u], handle'[k]) = IF k = n THEN v ELSE Found(storage[u], handle[k])
        BY <1>0, <1>1, <1>6, <1>7 DEF Held
  <1>10. Holds'[u] = [k \in Held(u) \cup {n} |-> Found(storage'[u], handle'[k])]
        BY <1>8, HoldsFacts
  <1>11. DOMAIN Holds[u] = Held(u) /\ \A k \in Held(u) : Holds[u][k] = Found(storage[u], handle[k])
        BY HoldsFacts
  <1>12. Holds'[u] = [k \in DOMAIN Holds[u] \cup {n} |-> IF k = n THEN v ELSE Holds[u][k]]
        BY <1>9, <1>10, <1>11
  <1>13. Holds' = [Holds EXCEPT ![u] =
                       [k \in DOMAIN Holds[u] \cup {n} |-> IF k = n THEN v ELSE Holds[u][k]]]
        BY <1>12, <1>5 DEF Holds
  <1> QED  BY <1>0, <1>1, <1>2, <1>13 DEF Registry!Attach

(* The components found through the sparse sets are those attached last    *)
(* to the entities that live (ui/world.hpp:62-137).                        *)
THEOREM WorldImplementsRegistry == Spec => ImplementsRegistry
  <1>1. ASSUME Inv, [Next]_vars PROVE [Registry!Next]_(Registry!vars)
    <2>1. CASE Create
          BY <1>1, <2>1, RegistryCreate DEF Registry!Next
    <2>2. CASE \E n \in Names : Destroy(n)
          BY <1>1, <2>2, RegistryDestroy DEF Registry!Next
    <2>3. CASE \E n \in Names, t \in Types : Remove(n, t)
          BY <1>1, <2>3, RegistryRemove DEF Registry!Next
    <2>4. CASE \E n \in Names, t \in Types, v \in Values : Add(n, t, v)
          BY <1>1, <2>4, RegistryAdd DEF Registry!Next
    <2>5. CASE UNCHANGED vars
      <3>1. Living' = Living /\ Holds' = Holds
            BY <2>5 DEF vars, Living, Holds, Held
      <3> QED  BY <3>1, <2>5 DEF vars, Registry!vars
    <2> QED  BY <1>1, <2>1, <2>2, <2>3, <2>4, <2>5 DEF Next
  <1> QED  BY <1>1, RegistryInit, Invariant, PTL DEF Spec, ImplementsRegistry, Registry!Spec

=============================================================================
