----------------------- MODULE LayerCompositor_proofs -----------------------
(* Proofs of the properties of LayerCompositor, for any number of layers,  *)
(* tiles, indices, tints and calls of the host.                            *)
EXTENDS LayerCompositor, TLAPS

LEMMA CompositeType ==
    ASSUME TypeOK, NEW t \in Tiles
    PROVE  Composite(t) \in Pixels
  <1>1. CASE \E l \in Layers : IsTop(l, t)
    <2>1. PICK top \in Layers : Composite(t) = tint[top][layer[top][t]]
          BY <1>1 DEF Composite
    <2>2. layer[top][t] \in Pixels /\ tint[top] \in [Pixels -> Pixels]
          BY Palette DEF TypeOK
    <2> QED  BY <2>1, <2>2
  <1>2. CASE ~ \E l \in Layers : IsTop(l, t)
        BY <1>2, Palette DEF Composite
  <1> QED  BY <1>1, <1>2

LEMMA TypeInit == Init => TypeOK
  BY Palette DEF Init, TypeOK, None, RestoreSources, QuietEnough

LEMMA TypeNext == TypeOK /\ [Next]_vars => TypeOK'
  <1> SUFFICES ASSUME TypeOK, [Next]_vars PROVE TypeOK'
      OBVIOUS
  <1> USE DEF canvas, settings, sets, shown
  <1>0. HostRuns => calls' \in 0 .. MaxCalls /\ quiet' \in 0 .. QuietEnough /\ phase' = phase
        BY Palette DEF HostRuns, TypeOK, QuietEnough
  <1>1. CASE \E l \in Layers, t \in Tiles, p \in Pixels : Draw(l, t, p)
        BY <1>0, <1>1 DEF Draw, TypeOK
  <1>2. CASE \E l \in Layers, c \in Pixels : SetBackdrop(l, c)
    <2>1. PICK l \in Layers, c \in Pixels : SetBackdrop(l, c)
          BY <1>2
    <2>2. Backdrop(c) \in RestoreSources
          BY DEF Backdrop, RestoreSources
    <2> QED  BY <1>0, <2>1, <2>2 DEF SetBackdrop, Filled, TypeOK
  <1>3. CASE \E l \in Layers : SetRestoreCallback(l)
    <2>1. Callback \in RestoreSources
          BY Palette DEF Callback, RestoreSources
    <2> QED  BY <1>0, <1>3, <2>1 DEF SetRestoreCallback, TypeOK
  <1>4. CASE \E l \in Layers : ClearRestore(l)
    <2>1. None \in RestoreSources
          BY Palette DEF None, RestoreSources
    <2> QED  BY <1>0, <1>4, <2>1 DEF ClearRestore, TypeOK
  <1>5. CASE \E l \in Layers : InvalidateLayer(l)
        BY <1>0, <1>5 DEF InvalidateLayer, TypeOK
  <1>6. CASE \E l \in Layers, remap \in Remaps : SetTint(l, remap)
        BY <1>0, <1>6 DEF SetTint, TypeOK
  <1>7. CASE \E l \in Layers, v, raw \in BOOLEAN : SetVisible(l, v, raw)
        BY <1>0, <1>7 DEF SetVisible, TypeOK
  <1>8. CASE BeginFrame
    <2>1. PICK painted \in [Layers -> [Tiles -> Pixels]] :
              layer' = [l \in Layers |-> [t \in Tiles |-> Restored(l, t, painted[l][t])]]
          BY <1>8 DEF BeginFrame
    <2>2. \A l \in Layers, t \in Tiles : Restored(l, t, painted[l][t]) \in Pixels
          BY DEF TypeOK, Restored, RestoreSources
    <2>3. layer' \in [Layers -> [Tiles -> Pixels]]
          BY <2>1, <2>2
    <2> QED  BY <1>8, <2>3 DEF BeginFrame, TypeOK
  <1>9. CASE CompositeDirty
    <2>1. mergedDirty' \subseteq Tiles
          BY <1>9 DEF CompositeDirty, Contributed, TypeOK
    <2>2. output' \in [Tiles -> Pixels]
          BY <1>9, CompositeType DEF CompositeDirty, TypeOK
    <2> QED  BY <1>9, <2>1, <2>2 DEF CompositeDirty, TypeOK
  <1>10. CASE Present
        BY <1>10 DEF Present, TypeOK
  <1>11. CASE EndFrame
        BY <1>11 DEF EndFrame, TypeOK, QuietEnough
  <1>12. CASE UNCHANGED vars
        BY <1>12 DEF vars, TypeOK
  <1> QED  BY <1>1, <1>2, <1>3, <1>4, <1>5, <1>6, <1>7, <1>8, <1>9, <1>10, <1>11, <1>12 DEF Next

THEOREM TypeCorrect == Spec => []TypeOK
  BY TypeInit, TypeNext, PTL DEF Spec

-----------------------------------------------------------------------------
(* Settling: which sets are empty after one, and after two, quiet frames.  *)
Composited == phase \in {"composited", "presented"}

Settling ==
    /\ Composited => pendingDirty = {}
    /\ quiet >= 1 => pendingDirty = {} /\ \A l \in Layers : dirty[l] = {}
    /\ quiet = QuietEnough => \A l \in Layers : restoreSet[l] = {}
    /\ quiet = QuietEnough /\ Composited => mergedDirty = {}

LEMMA SettlingNext == TypeOK /\ Settling /\ [Next]_vars => Settling'
  <1> SUFFICES ASSUME TypeOK, Settling, [Next]_vars PROVE Settling'
      OBVIOUS
  <1> USE DEF canvas, settings, sets, shown
  <1>0. quiet \in 0 .. 2
        BY DEF TypeOK, QuietEnough
  <1>1. CASE HostRuns
    <2>1. quiet' = 0 /\ ~Composited'
          BY <1>1 DEF HostRuns, Composited
    <2> QED  BY <2>1 DEF Settling, QuietEnough
  <1>2. CASE BeginFrame
        BY <1>0, <1>2 DEF BeginFrame, Settling, Composited, QuietEnough
  <1>3. CASE CompositeDirty
    <2>1. quiet = QuietEnough => mergedDirty' = {}
          BY <1>0, <1>3 DEF CompositeDirty, Contributed, Settling, QuietEnough
    <2> QED  BY <1>0, <1>3, <2>1 DEF CompositeDirty, Settling, Composited, QuietEnough
  <1>4. CASE Present
        BY <1>0, <1>4 DEF Present, Settling, Composited, QuietEnough
  <1>5. CASE EndFrame
        BY <1>0, <1>5 DEF EndFrame, Settling, Composited, QuietEnough
  <1>6. CASE UNCHANGED vars
        BY <1>6 DEF vars, Settling, Composited
  <1>7. Next => HostRuns \/ BeginFrame \/ CompositeDirty \/ Present \/ EndFrame
        BY DEF Next, Draw, SetBackdrop, SetRestoreCallback, ClearRestore, InvalidateLayer,
               SetTint, SetVisible
  <1> QED  BY <1>1, <1>2, <1>3, <1>4, <1>5, <1>6, <1>7

(* Two frames after the last change no tile is composited, whatever the    *)
(* restore sources are (layer_compositor.hpp:238-244).                     *)
THEOREM QuietFramesAreEmpty == Spec => []SettlesToZero
  <1>1. Init => Settling
        BY DEF Init, Settling, Composited, QuietEnough
  <1>2. Settling => SettlesToZero
        BY DEF Settling, Composited, SettlesToZero
  <1> QED  BY <1>1, <1>2, SettlingNext, TypeCorrect, PTL DEF Spec

-----------------------------------------------------------------------------
(* Staleness: until a frame is composited every tile whose output is not   *)
(* what the layers show is in one of the sets that will be merged.         *)
Merging(t) ==
    \/ t \in pendingDirty
    \/ \E l \in Layers : visible[l] /\ t \in dirty[l]
    \/ \E l \in Layers : /\ visible[l] /\ Restores(l) /\ t \in restoreSet[l]
                         /\ phase = "drawing"

StaleIsMerged ==
    \A t \in Tiles : output[t] = Composite(t) \/ (~Composited /\ Merging(t))

DisplayFollows ==
    \A t \in Tiles : display[t] = output[t] \/ (phase = "composited" /\ t \in mergedDirty)

(* What is composited of a tile depends on the visible layers only.        *)
LEMMA SameComposite ==
    ASSUME NEW t \in Tiles, \A l \in Layers : visible'[l] = visible[l],
           \A l \in Layers : visible[l] => tint'[l] = tint[l] /\ layer'[l][t] = layer[l][t]
    PROVE  Composite(t)' = Composite(t)
  <1>1. Covering(t)' = Covering(t)
        BY DEF Covering, Layers
  <1>2. \A l : IsTop(l, t)' <=> IsTop(l, t)
        BY <1>1 DEF IsTop
  <1>3. CASE \E l \in Layers : IsTop(l, t)
    <2> DEFINE top == CHOOSE l \in Layers : IsTop(l, t)
    <2>1. top \in Layers /\ IsTop(top, t)
          BY <1>3
    <2>2. top' = top
          BY <1>2 DEF Layers
    <2>3. visible[top]
          BY <2>1 DEF IsTop, Covering
    <2>4. Composite(t) = tint[top][layer[top][t]]
          BY <1>3 DEF Composite
    <2>5. Composite(t)' = tint'[top'][layer'[top'][t]]
          BY <1>2, <1>3 DEF Composite, Layers
    <2> QED  BY <2>1, <2>2, <2>3, <2>4, <2>5
  <1>4. CASE ~ \E l \in Layers : IsTop(l, t)
        BY <1>2, <1>4 DEF Composite, Layers
  <1> QED  BY <1>3, <1>4

(* A call of the host that marks the tiles it changes on visible layers.   *)
LEMMA MarkedIsMerged ==
    ASSUME TypeOK, StaleIsMerged, ~Composited, phase' = phase, output' = output,
           visible' = visible, restoreSet' = restoreSet, pendingDirty' = pendingDirty,
           \A l \in Layers : dirty[l] \subseteq dirty'[l],
           phase = "drawing" => \A l \in Layers : Restores(l) => Restores(l)',
           \A l \in Layers, t \in Tiles :
               t \in dirty'[l] \/ (tint'[l] = tint[l] /\ layer'[l][t] = layer[l][t])
    PROVE  StaleIsMerged'
  <1> SUFFICES ASSUME NEW t \in Tiles, ~Merging(t)'
               PROVE  output'[t] = Composite(t)'
      BY DEF StaleIsMerged, Composited
  <1>1. \A l \in Layers : visible[l] => t \notin dirty'[l]
        BY DEF Merging, Layers
  <1>2. Composite(t)' = Composite(t)
        BY <1>1, SameComposite
  <1>3. ~Merging(t)
        BY DEF Merging, Layers
  <1> QED  BY <1>2, <1>3 DEF StaleIsMerged

LEMMA StaleNext ==
    ASSUME Idioms = {}, TypeOK, StaleIsMerged, [Next]_vars
    PROVE  StaleIsMerged'
  <1> USE DEF canvas, settings, sets, shown
  <1>0. HostRuns => ~Composited /\ phase' = phase
        BY DEF HostRuns, Composited
  <1>1. ASSUME NEW l \in Layers, NEW t \in Tiles, NEW p \in Pixels, Draw(l, t, p)
        PROVE  StaleIsMerged'
    <2>1. \A k \in Layers, u \in Tiles : k # l \/ u # t => layer'[k][u] = layer[k][u]
          BY <1>1 DEF Draw, TypeOK
    <2>2. dirty' = [dirty EXCEPT ![l] = @ \cup {t}]
          BY <1>1 DEF Draw
    <2>3. /\ \A k \in Layers : dirty[k] \subseteq dirty'[k]
          /\ t \in dirty'[l]
          BY <2>2 DEF TypeOK
    <2> QED  BY <1>0, <1>1, <2>1, <2>3, MarkedIsMerged DEF Draw, Restores
  <1>2. ASSUME NEW l \in Layers, NEW c \in Pixels, SetBackdrop(l, c)
        PROVE  StaleIsMerged'
    <2>1. \A k \in Layers : IF k = l THEN dirty'[k] = Tiles
                            ELSE dirty'[k] = dirty[k] /\ layer'[k] = layer[k]
          BY <1>2 DEF SetBackdrop, Filled, TypeOK
    <2>2. \A k \in Layers : Restores(k) => Restores(k)'
          BY <1>2 DEF SetBackdrop, Backdrop, Restores, TypeOK
    <2>3. \A k \in Layers : dirty[k] \subseteq Tiles
          BY DEF TypeOK
    <2> QED  BY <1>0, <1>2, <2>1, <2>2, <2>3, MarkedIsMerged DEF SetBackdrop
  <1>3. ASSUME NEW l \in Layers, SetRestoreCallback(l)
        PROVE  StaleIsMerged'
    <2>1. \A k \in Layers : Restores(k) => Restores(k)'
          BY <1>3 DEF SetRestoreCallback, Callback, Restores, TypeOK
    <2> QED  BY <1>0, <1>3, <2>1, MarkedIsMerged DEF SetRestoreCallback
  <1>4. ASSUME NEW l \in Layers, ClearRestore(l)
        PROVE  StaleIsMerged'
        BY <1>0, <1>4, MarkedIsMerged DEF ClearRestore
  <1>5. ASSUME NEW l \in Layers, InvalidateLayer(l)
        PROVE  StaleIsMerged'
    <2>1. \A k \in Layers : dirty[k] \subseteq dirty'[k]
          BY <1>5 DEF InvalidateLayer, TypeOK
    <2> QED  BY <1>0, <1>5, <2>1, MarkedIsMerged DEF InvalidateLayer, Restores
  <1>6. ASSUME NEW l \in Layers, NEW remap \in Remaps, SetTint(l, remap)
        PROVE  StaleIsMerged'
    <2>1. \A k \in Layers : IF k = l THEN dirty'[k] = Tiles
                            ELSE dirty'[k] = dirty[k] /\ tint'[k] = tint[k]
          BY <1>6 DEF SetTint, TypeOK
    <2>2. \A k \in Layers : dirty[k] \subseteq Tiles
          BY DEF TypeOK
    <2> QED  BY <1>0, <1>6, <2>1, <2>2, MarkedIsMerged DEF SetTint, Restores
  <1>7. ASSUME NEW l \in Layers, NEW v \in BOOLEAN, NEW raw \in BOOLEAN, SetVisible(l, v, raw)
        PROVE  StaleIsMerged'
    <2>1. pendingDirty' = Tiles
          BY <1>7 DEF SetVisible
    <2> QED  BY <1>0, <1>7, <2>1 DEF SetVisible, StaleIsMerged, Merging, Composited
  <1>8. CASE BeginFrame
    <2> SUFFICES ASSUME NEW t \in Tiles, ~Merging(t)' PROVE output'[t] = Composite(t)'
        BY <1>8 DEF BeginFrame, StaleIsMerged, Composited
    <2>1. phase = "between" /\ phase' = "drawing"
          BY <1>8 DEF BeginFrame
    <2>2. UNCHANGED <<dirty, visible, tint, restore, restoreSet, pendingDirty, output>>
          BY <1>8 DEF BeginFrame
    <2>3. \A l \in Layers : visible[l] => ~(Restores(l) /\ t \in restoreSet[l])
          BY <2>1, <2>2 DEF Merging, Restores, Layers
    <2>4. \A l \in Layers : visible[l] => layer'[l][t] = layer[l][t]
      <3>1. PICK painted \in [Layers -> [Tiles -> Pixels]] :
                layer' = [l \in Layers |-> [u \in Tiles |-> Restored(l, u, painted[l][u])]]
            BY <1>8 DEF BeginFrame
      <3>2. \A l \in Layers : layer'[l][t] = Restored(l, t, painted[l][t])
            BY <3>1
      <3>3. \A l \in Layers : visible[l] => Restored(l, t, painted[l][t]) = layer[l][t]
            BY <2>3 DEF Restored, Restores
      <3> QED  BY <3>2, <3>3
    <2>5. Composite(t)' = Composite(t)
          BY <2>2, <2>4, SameComposite
    <2>6. ~Merging(t)
          BY <2>1, <2>2 DEF Merging, Layers
    <2> QED  BY <2>2, <2>5, <2>6 DEF StaleIsMerged
  <1>9. CASE CompositeDirty
    <2> SUFFICES ASSUME NEW t \in Tiles PROVE output'[t] = Composite(t)'
        BY DEF StaleIsMerged
    <2>1. Composite(t)' = Composite(t)
          BY <1>9, SameComposite DEF CompositeDirty
    <2>2. Merging(t) => t \in mergedDirty'
          BY <1>9 DEF CompositeDirty, Contributed, Merging
    <2>3. output'[t] = IF t \in mergedDirty' THEN Composite(t) ELSE output[t]
          BY <1>9 DEF CompositeDirty
    <2> QED  BY <2>1, <2>2, <2>3 DEF StaleIsMerged
  <1>10. CASE Present \/ EndFrame
    <2>1. \A t \in Tiles : Composite(t)' = Composite(t)
          BY <1>10, SameComposite DEF Present, EndFrame
    <2>2. Composited /\ output' = output
          BY <1>10 DEF Present, EndFrame, Composited
    <2> QED  BY <2>1, <2>2 DEF StaleIsMerged
  <1>11. CASE UNCHANGED vars
    <2>1. UNCHANGED vars => UNCHANGED <<layer, dirty, visible, tint, restore, restoreSet,
                                        pendingDirty, output, phase>>
          BY DEF vars
    <2>2. \A t \in Tiles : Composite(t)' = Composite(t)
          BY <1>11, <2>1, SameComposite
    <2>3. \A t \in Tiles : Merging(t)' <=> Merging(t)
          BY <1>11, <2>1 DEF Merging, Restores, Layers
    <2> QED  BY <1>11, <2>1, <2>2, <2>3 DEF StaleIsMerged, Composited
  <1> QED  BY <1>1, <1>2, <1>3, <1>4, <1>5, <1>6, <1>7, <1>8, <1>9, <1>10, <1>11 DEF Next

LEMMA DisplayNext == DisplayFollows /\ [Next]_vars => DisplayFollows'
  <1> SUFFICES ASSUME DisplayFollows, [Next]_vars PROVE DisplayFollows'
      OBVIOUS
  <1> USE DEF canvas, settings, sets, shown
  <1>1. CASE HostRuns /\ UNCHANGED <<mergedDirty, output, display>>
        BY <1>1 DEF HostRuns, DisplayFollows
  <1>2. CASE BeginFrame \/ EndFrame
        BY <1>2 DEF BeginFrame, EndFrame, DisplayFollows
  <1>3. CASE CompositeDirty
        BY <1>3 DEF CompositeDirty, DisplayFollows
  <1>4. CASE Present
        BY <1>4 DEF Present, DisplayFollows
  <1>5. CASE UNCHANGED vars
        BY <1>5 DEF vars, DisplayFollows
  <1>6. Next => \/ HostRuns /\ UNCHANGED <<mergedDirty, output, display>>
                \/ BeginFrame \/ EndFrame \/ CompositeDirty \/ Present
        BY DEF Next, Draw, SetBackdrop, SetRestoreCallback, ClearRestore, InvalidateLayer,
               SetTint, SetVisible
  <1> QED  BY <1>1, <1>2, <1>3, <1>4, <1>5, <1>6

(* For a host that sets visibility through setVisible and clears restore   *)
(* sources between frames, the screen shows the layers after every         *)
(* present (layer_compositor.hpp:251-290).                                 *)
THEOREM ScreenIsCurrent ==
    ASSUME Idioms = {}
    PROVE  Spec => []DisplayCurrent
  <1>1. Init => StaleIsMerged /\ DisplayFollows
    <2> SUFFICES ASSUME Init PROVE \A t \in Tiles : output[t] = Composite(t) /\ display[t] = output[t]
        BY DEF StaleIsMerged, DisplayFollows
    <2> SUFFICES ASSUME NEW t \in Tiles PROVE Composite(t) = Black
        BY DEF Init
    <2>1. CASE \E l \in Layers : IsTop(l, t)
      <3>1. PICK top \in Layers : IsTop(top, t) /\ Composite(t) = tint[top][layer[top][t]]
            BY <2>1 DEF Composite
      <3>2. layer[top][t] = Black
            BY <3>1 DEF IsTop, Covering, Init
      <3> QED  BY <3>1, <3>2, Palette DEF Init
    <2>2. CASE ~ \E l \in Layers : IsTop(l, t)
          BY <2>2 DEF Composite
    <2> QED  BY <2>1, <2>2
  <1>2. StaleIsMerged /\ DisplayFollows => DisplayCurrent
        BY DEF StaleIsMerged, DisplayFollows, DisplayCurrent, Composited
  <1>3. TypeOK /\ StaleIsMerged /\ [Next]_vars => StaleIsMerged'
        BY StaleNext
  <1> QED  BY <1>1, <1>2, <1>3, DisplayNext, TypeCorrect, PTL DEF Spec

=============================================================================
