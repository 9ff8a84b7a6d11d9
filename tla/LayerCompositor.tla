--------------------------- MODULE LayerCompositor ---------------------------
(***************************************************************************)
(* The dirty-tile path of the layer compositor                             *)
(* (include/enjin2/graphics/layer_compositor.hpp) with the presenter it    *)
(* hands its frames to: beginFrame, draws, compositeDirty, present,        *)
(* endFrame, in this order.                                                *)
(*                                                                         *)
(* The output and the display are caches of what the layers show, tile by  *)
(* tile.  Four sets of tiles say where they are stale, each filled and     *)
(* emptied at its own point of the frame, and a layer can be restored,     *)
(* hidden, tinted or given another restore source at any time before the   *)
(* frame is composited.                                                    *)
(*                                                                         *)
(* A tile is one pixel: nothing below reaches across tiles.                *)
(***************************************************************************)
EXTENDS Integers, FiniteSets

CONSTANTS
    LayerCount,    \* ENJIN_LAYER_COUNT
    Tiles,
    Pixels,        \* the palette indices
    Black, Transparent,
    Remaps,        \* the tints a host sets, by source index
    Identity,
    Idioms,        \* what hosts and scripts do that the header advises against:
                   \*   "raw_visible"     write visible[] (as setLayerVisible of Lua does)
                   \*   "clear_in_frame"  clearRestore after beginFrame
    MaxCalls       \* bounds the calls of the host in a behaviour

ASSUME Palette ==
    /\ LayerCount \in Nat \ {0} /\ MaxCalls \in Nat
    /\ {Black, Transparent} \subseteq Pixels /\ Black # Transparent
    /\ Remaps \subseteq [Pixels -> Pixels]
    /\ Identity = [p \in Pixels |-> p] /\ Identity \in Remaps

Layers == 0 .. LayerCount - 1

None        == [kind |-> "None", color |-> Black]
Backdrop(c) == [kind |-> "Backdrop", color |-> c]
Callback    == [kind |-> "Callback", color |-> Black]
RestoreSources == [kind : {"None", "Backdrop", "Callback"}, color : Pixels]

VARIABLES
    layer,          \* what each layer holds
    dirty,          \* the tiles each layer's canvas has marked
    visible, tint, restore,
    restoreSet,     \* the tiles each layer's host drew last frame
    mergedDirty,    \* the tiles of the frame that is presented
    pendingDirty,   \* tiles to composite whatever the layers say
    output,
    display,        \* what the presenter has put on the screen
    phase,          \* where the host is in its frame
    quiet,          \* frames that ended since something was last changed
    calls           \* of the host, still to come

canvas   == <<layer, dirty>>
settings == <<visible, tint, restore>>
sets     == <<restoreSet, mergedDirty, pendingDirty>>
shown    == <<output, display>>
vars     == <<layer, dirty, visible, tint, restore, restoreSet, mergedDirty,
              pendingDirty, output, display, phase, quiet, calls>>

QuietEnough == 2

-----------------------------------------------------------------------------
(* resetDirtyState, in the constructor.                                    *)
Init ==
    /\ layer = [l \in Layers |-> [t \in Tiles |-> IF l = 0 THEN Black ELSE Transparent]]
    /\ dirty = [l \in Layers |-> {}]
    /\ visible = [l \in Layers |-> TRUE]
    /\ tint = [l \in Layers |-> Identity]
    /\ restore = [l \in Layers |-> None]
    /\ restoreSet = [l \in Layers |-> {}]
    /\ mergedDirty = {}
    /\ pendingDirty = {}
    /\ output = [t \in Tiles |-> Black]
    /\ display = [t \in Tiles |-> Black]
    /\ phase = "between"
    /\ quiet = 0
    /\ calls = MaxCalls

(* A host draws and sets between two frames or between beginFrame and      *)
(* compositeDirty.                                                         *)
HostRuns ==
    /\ phase \in {"between", "drawing"} /\ phase' = phase
    /\ calls > 0 /\ calls' = calls - 1
    /\ quiet' = 0

(* Any primitive on a layer: it writes pixels and marks their tiles.       *)
Draw(l, t, p) ==
    /\ HostRuns
    /\ layer' = [layer EXCEPT ![l][t] = p]
    /\ dirty' = [dirty EXCEPT ![l] = @ \cup {t}]
    /\ UNCHANGED <<settings, sets, shown>>

(* Canvas4::clear.                                                         *)
Filled(l, c) ==
    /\ layer' = [layer EXCEPT ![l] = [t \in Tiles |-> c]]
    /\ dirty' = [dirty EXCEPT ![l] = Tiles]

SetBackdrop(l, c) ==
    /\ HostRuns
    /\ restore' = [restore EXCEPT ![l] = Backdrop(c)]
    /\ Filled(l, c)
    /\ UNCHANGED <<visible, tint, sets, shown>>

SetRestoreCallback(l) ==
    /\ HostRuns
    /\ restore' = [restore EXCEPT ![l] = Callback]
    /\ UNCHANGED <<canvas, visible, tint, sets, shown>>

ClearRestore(l) ==
    /\ HostRuns
    /\ phase = "between" \/ "clear_in_frame" \in Idioms
    /\ restore' = [restore EXCEPT ![l] = None]
    /\ UNCHANGED <<canvas, visible, tint, sets, shown>>

SetTint(l, remap) ==
    /\ HostRuns
    /\ tint' = [tint EXCEPT ![l] = remap]
    /\ dirty' = [dirty EXCEPT ![l] = Tiles]
    /\ UNCHANGED <<layer, visible, restore, sets, shown>>

InvalidateLayer(l) ==
    /\ HostRuns
    /\ dirty' = [dirty EXCEPT ![l] = Tiles]
    /\ UNCHANGED <<layer, settings, sets, shown>>

(* (Slip: only what the layer has drawn since is composited again.)        *)
SetVisibleMarksDirty(l, v, raw) ==
    /\ HostRuns
    /\ IF raw THEN "raw_visible" \in Idioms ELSE visible[l] # v
    /\ visible' = [visible EXCEPT ![l] = v]
    /\ pendingDirty' = pendingDirty \cup dirty[l] \cup restoreSet[l]
    /\ UNCHANGED <<canvas, tint, restore, restoreSet, mergedDirty, shown>>

(* A visibility is set through setVisible, or raw, as setLayerVisible of   *)
(* the Lua bindings does.                                                  *)
SetVisible(l, v, raw) ==
    /\ HostRuns
    /\ IF raw THEN "raw_visible" \in Idioms ELSE visible[l] # v
    /\ visible' = [visible EXCEPT ![l] = v]
    /\ pendingDirty' = IF raw THEN pendingDirty ELSE Tiles
    /\ UNCHANGED <<canvas, tint, restore, restoreSet, mergedDirty, shown>>

-----------------------------------------------------------------------------
(* What restorePaint makes of a tile; painted is what the callback draws.  *)
Restored(l, t, painted) ==
    IF t \notin restoreSet[l] \/ restore[l].kind = "None" THEN layer[l][t]
    ELSE IF restore[l].kind = "Backdrop" THEN restore[l].color
    ELSE painted

Restores(l) == restore[l].kind # "None"

(* (Slip: the marks the callback left are kept.)                           *)
BeginFrameKeepsMarks ==
    /\ phase = "between"
    /\ \E painted \in [Layers -> [Tiles -> Pixels]] :
        layer' = [l \in Layers |-> [t \in Tiles |-> Restored(l, t, painted[l][t])]]
    /\ dirty' = [l \in Layers |->
                    IF restore[l].kind = "Callback" THEN dirty[l] \cup restoreSet[l] ELSE dirty[l]]
    /\ phase' = "drawing"
    /\ UNCHANGED <<settings, sets, shown, quiet, calls>>

BeginFrame ==
    /\ phase = "between"
    /\ \E painted \in [Layers -> [Tiles -> Pixels]] :
        layer' = [l \in Layers |-> [t \in Tiles |-> Restored(l, t, painted[l][t])]]
    /\ phase' = "drawing"
    /\ UNCHANGED <<dirty, settings, sets, shown, quiet, calls>>

(* recompositeTile, over painting in order: the topmost visible layer      *)
(* whose pixel is not transparent, through its tint.                       *)
Covering(t) == {l \in Layers : visible[l] /\ layer[l][t] # Transparent}

IsTop(l, t) == l \in Covering(t) /\ \A k \in Covering(t) : k <= l

Composite(t) ==
    IF \E l \in Layers : IsTop(l, t)
    THEN LET top == CHOOSE l \in Layers : IsTop(l, t) IN tint[top][layer[top][t]]
    ELSE Black

(* What the layers say has changed.                                        *)
Contributed(l) == IF visible[l] THEN dirty[l] \cup (IF Restores(l) THEN restoreSet[l] ELSE {})
                  ELSE {}

CompositeDirty ==
    /\ phase = "drawing"
    /\ mergedDirty' = pendingDirty \cup UNION {Contributed(l) : l \in Layers}
    /\ pendingDirty' = {}
    /\ output' = [t \in Tiles |-> IF t \in mergedDirty' THEN Composite(t) ELSE output[t]]
    /\ phase' = "composited"
    /\ UNCHANGED <<canvas, settings, restoreSet, display, quiet, calls>>

(* present, and the adapter: "an all-zero bitmap means nothing changed".   *)
Present ==
    /\ phase = "composited"
    /\ display' = [t \in Tiles |-> IF t \in mergedDirty THEN output[t] ELSE display[t]]
    /\ phase' = "presented"
    /\ UNCHANGED <<canvas, settings, sets, output, quiet, calls>>

EndFrame ==
    /\ phase = "presented"
    /\ restoreSet' = dirty
    /\ dirty' = [l \in Layers |-> {}]
    /\ phase' = "between"
    /\ quiet' = IF quiet < QuietEnough THEN quiet + 1 ELSE quiet
    /\ UNCHANGED <<layer, settings, mergedDirty, pendingDirty, shown, calls>>

Next ==
    \/ \E l \in Layers, t \in Tiles, p \in Pixels : Draw(l, t, p)
    \/ \E l \in Layers, c \in Pixels : SetBackdrop(l, c)
    \/ \E l \in Layers : SetRestoreCallback(l) \/ ClearRestore(l) \/ InvalidateLayer(l)
    \/ \E l \in Layers, remap \in Remaps : SetTint(l, remap)
    \/ \E l \in Layers, v, raw \in BOOLEAN : SetVisible(l, v, raw)
    \/ BeginFrame \/ CompositeDirty \/ Present \/ EndFrame

Spec == Init /\ [][Next]_vars

-----------------------------------------------------------------------------
TypeOK ==
    /\ layer \in [Layers -> [Tiles -> Pixels]]
    /\ dirty \in [Layers -> SUBSET Tiles]
    /\ visible \in [Layers -> BOOLEAN]
    /\ tint \in [Layers -> Remaps]
    /\ restore \in [Layers -> RestoreSources]
    /\ restoreSet \in [Layers -> SUBSET Tiles]
    /\ mergedDirty \subseteq Tiles
    /\ pendingDirty \subseteq Tiles
    /\ output \in [Tiles -> Pixels]
    /\ display \in [Tiles -> Pixels]
    /\ phase \in {"between", "drawing", "composited", "presented"}
    /\ quiet \in 0 .. QuietEnough
    /\ calls \in 0 .. MaxCalls

(* Once a frame is presented the screen shows what the visible layers are, *)
(* tile for tile, whatever was drawn, hidden, tinted or restored on the    *)
(* way (layer_compositor.hpp:251-290, presenter.hpp:21-23).                *)
DisplayCurrent ==
    phase = "presented" => \A t \in Tiles : display[t] = Composite(t)

(* "a backdrop layer that stops changing settles to zero recomposited      *)
(* tiles", and so does a static one and one that a callback restores       *)
(* (layer_compositor.hpp:238-244): two frames after the last change.       *)
SettlesToZero ==
    phase \in {"composited", "presented"} /\ quiet = QuietEnough => mergedDirty = {}

=============================================================================
