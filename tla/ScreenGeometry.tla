--------------------------- MODULE ScreenGeometry ---------------------------
(***************************************************************************)
(* Where a component is: on the screen and in its window                   *)
(* (sec_comp_info_helper.cpp), under other windows                         *)
(* (window_info_helper.cpp).                                               *)
(*                                                                         *)
(* Lengths are whole numbers, so the tolerance of 0.001 of the comparisons *)
(* makes no difference; scales are percentages.  A round screen            *)
(* (IsOutOfWatchScreen) is left out.                                       *)
(***************************************************************************)
EXTENDS Integers, Sequences, SequencesExt

CONSTANT UintSize    \* 2^32 in the code: window edges are summed as uint32

ASSUME UintAssumption == UintSize \in Nat \ {0}

INVALID_WINDOW_LAYER == -1
UI_EXTENSION_MASK == 1073741824
FULL_SCREEN_SCALE == 100
FOLD_VIRTUAL_DISPLAY_ID == 999

Larger(a, b) == IF a > b THEN a ELSE b
Scaled(n, percent) == (n * percent) \div 100
Square(n) == n * n

IsInRect(r, x, y) ==
    /\ x >= r.x - 1 /\ r.x + r.width >= x - 1
    /\ y >= r.y - 1 /\ r.y + r.height >= y - 1
-----------------------------------------------------------------------------
(* Other windows.                                                          *)

\* In the order they are looked at.
Corners == <<"rightBottom", "leftBottom", "rightTop", "leftTop">>
IsRight(corner) == corner \in {"rightBottom", "rightTop"}
IsBottom(corner) == corner \in {"rightBottom", "leftBottom"}

\* The centre of the rounding of a corner.
CentreX(r, corner) ==
    IF IsRight(corner) THEN r.x + r.width - r.radius[corner] ELSE r.x + r.radius[corner]
CentreY(r, corner) ==
    IF IsBottom(corner) THEN r.y + r.height - r.radius[corner] ELSE r.y + r.radius[corner]

\* The corner of the window that reaches farthest into that corner.
NearX(w, corner) == IF IsRight(corner) THEN w.x ELSE (w.x + w.width) % UintSize
NearY(w, corner) == IF IsBottom(corner) THEN w.y ELSE (w.y + w.height) % UintSize

WithinCorner(w, r, corner) ==
    /\ IF IsRight(corner) THEN NearX(w, corner) >= CentreX(r, corner)
                          ELSE CentreX(r, corner) >= NearX(w, corner)
    /\ IF IsBottom(corner) THEN NearY(w, corner) >= CentreY(r, corner)
                           ELSE CentreY(r, corner) >= NearY(w, corner)

FirstWithin(w, r) == SelectInSeq(Corners, LAMBDA corner : WithinCorner(w, r, corner))

BeyondRounding(w, r, corner) ==
    LET margin == r.radius[corner] - 1
    IN  \/ margin < 0
        \/ Square(CentreX(r, corner) - NearX(w, corner))
             + Square(CentreY(r, corner) - NearY(w, corner)) > Square(margin)

\* Faulty variant: the corners count as square.
IsRectOverWindRect(w, r) ==
    /\ r.x + r.width > w.x /\ r.x < w.x + w.width
    /\ r.y + r.height > w.y /\ r.y < w.y + w.height

IsRectInWindRect(w, r) ==
    /\ r.x + r.width > w.x /\ r.x < w.x + w.width
    /\ r.y + r.height > w.y /\ r.y < w.y + w.height
    /\ \/ FirstWithin(w, r) = 0
       \/ ~BeyondRounding(w, r, Corners[FirstWithin(w, r)])

\* A floating window as large as it is shown.
ShownRect(w) ==
    IF w.floatingScale = 0 THEN w.rect
    ELSE [w.rect EXCEPT !.width = Scaled(@, w.floatingScale), !.height = Scaled(@, w.floatingScale)]

IsUIExtension(compWinId) == (compWinId \div UI_EXTENSION_MASK) % 2 = 1

\* The windows that go on the list of layers, by their place among windows.
LayerList(compWinId, r, windows) ==
    {i \in DOMAIN windows :
       windows[i].id # compWinId /\ IsRectInWindRect(ShownRect(windows[i]), r)}

\* The layer of the component when windows have been looked at.
CompLayer(compWinId, windows) ==
    LET own == SelectLastInSeq(windows, LAMBDA w : w.id = compWinId)
    IN  IF own = 0 THEN INVALID_WINDOW_LAYER ELSE windows[own].zOrder

\* At these windows the loop stops: they cover a component whose layer is
\* known by then.
Stops(compWinId, r, windows) ==
    {i \in LayerList(compWinId, r, windows) :
       LET layer == CompLayer(compWinId, SubSeq(windows, 1, i - 1))
       IN  layer # INVALID_WINDOW_LAYER /\ windows[i].zOrder >= layer}

LookedAt(compWinId, r, windows) ==
    LET stops == Stops(compWinId, r, windows)
    IN  IF stops = {} THEN windows ELSE SubSeq(windows, 1, Min(stops))

\* Faulty variant: only windows listed after that of the component count.
CheckLaterWindows(compWinId, r, windows) ==
    \/ IsUIExtension(compWinId)
    \/ CompLayer(compWinId, windows) # INVALID_WINDOW_LAYER /\ Stops(compWinId, r, windows) = {}

\* TRUE: no window covers the component.  Without an answer of the window
\* manager the list is empty.
CheckOtherWindowCoverComp(compWinId, r, windows) ==
    LET looked == LookedAt(compWinId, r, windows)
        layer == CompLayer(compWinId, looked)
    IN  \/ IsUIExtension(compWinId)
        \/ /\ layer # INVALID_WINDOW_LAYER
           /\ \A i \in LayerList(compWinId, r, looked) : looked[i].zOrder < layer
-----------------------------------------------------------------------------
(* The scale of the window.                                                *)

\* What GetWindowScale answers when the window is not found.
DefaultScale ==
    [floatingScale |-> FULL_SCREEN_SCALE, scaleX |-> 0, scaleY |-> 0, isCompatScaleMode |-> FALSE,
     rect |-> [x |-> 0, y |-> 0, width |-> 0, height |-> 0]]

\* A component with its place moved and scaled with its window.
AdjustSecCompRect(d, s) ==
    [desc |-> d,
     rect |-> [d.rect EXCEPT !.x = s.rect.x + Scaled(@ - d.windowRect.x, s.scaleX),
                             !.y = s.rect.y + Scaled(@ - d.windowRect.y, s.scaleY),
                             !.width = Scaled(@, s.scaleX),
                             !.height = Scaled(@, s.scaleY)],
     windowRect |-> s.rect,
     scale |-> Larger(s.scaleX, s.scaleY),
     isCompatScaleMode |-> s.isCompatScaleMode]

NeedsAdjusting(d, s) ==
    \/ \E percent \in {s.floatingScale, s.scaleX, s.scaleY} : percent \notin {FULL_SCREEN_SCALE, 0}
    \/ s.isCompatScaleMode
    \/ d.isSmartEdgeState

Placed(d, s) ==
    IF NeedsAdjusting(d, s) THEN AdjustSecCompRect(d, s)
    ELSE [desc |-> d, rect |-> d.rect, windowRect |-> d.windowRect,
          scale |-> FULL_SCREEN_SCALE, isCompatScaleMode |-> FALSE]
-----------------------------------------------------------------------------
(* The screen.                                                             *)

\* Faulty variant: only the left and the upper edge count.
IsLeftOfScreen(r, width, height) ==
    10 * r.x < -Larger(r.width, 10) \/ 10 * r.y < -Larger(r.height, 10)

\* A tenth of the component, or one unit, may be outside.
IsOutOfScreen(r, width, height) ==
    LET tenthX == Larger(r.width, 10)
        tenthY == Larger(r.height, 10)
    IN  \/ 10 * r.x < -tenthX \/ 10 * r.y < -tenthY
        \/ 10 * (r.x + r.width) > 10 * width + tenthX
        \/ 10 * (r.y + r.height) > 10 * height + tenthY

IsOutOfWindow(r, windowRect, scale) ==
    LET margin == 100 + scale
    IN  \/ 100 * windowRect.x > 100 * r.x + margin
        \/ 100 * windowRect.y > 100 * r.y + margin
        \/ 100 * (r.x + r.width) > 100 * (windowRect.x + windowRect.width) + margin
        \/ 100 * (r.y + r.height) > 100 * (windowRect.y + windowRect.height) + margin
=============================================================================
