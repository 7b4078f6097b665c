----------------------------- MODULE ClickCheck -----------------------------
(***************************************************************************)
(* What the service checks before a click grants anything                  *)
(* (ReportSecurityComponentClickEvent, SecCompEntity), for one component:  *)
(* its description, its place on the screen, the windows over it and the   *)
(* time and place of the touch.                                            *)
(*                                                                         *)
(* A report is checked under componentInfoLock_, so it is one step; time   *)
(* passes and windows move before it.  The list of malicious processes,    *)
(* the table of components, the grant and the paste component of a caller  *)
(* that may read the pasteboard anyway are in SecCompManager.              *)
(***************************************************************************)
EXTENDS ComponentInfo, ScreenGeometry

CONSTANTS
    Description,       \* what applications say of components
    Report,            \* reports of clicks: a description and an event
    Layout,            \* windows of the screen, and the scale of the window
    Screen,            \* per display id: its size
    CreaseOffset,      \* height of the screen above the fold, 0 without one
    MaxTouchInterval,  \* 5 s in microseconds in the code
    WordSize,          \* 2^64 in the code
    MaxTime            \* bound: the clock stops there

ASSUME TimeAssumption ==
    /\ MaxTouchInterval \in Nat
    /\ WordSize \in Nat
    /\ MaxTime \in Nat
    /\ MaxTime < WordSize /\ MaxTouchInterval < WordSize

SecCompRect ==
    [x : Int, y : Int, width : Int, height : Int,
     radius : [{"leftTop", "rightTop", "leftBottom", "rightBottom"} -> Int]]

ASSUME DescriptionAssumption ==
    \A d \in Description \cup {c.desc : c \in Report} :
       /\ d.type \in Int /\ d.rect \in SecCompRect
       /\ d.windowRect.x \in Int /\ d.windowRect.y \in Int
       /\ d.absent \subseteq Tags

ASSUME ReportAssumption ==
    \A c \in Report :
       /\ c.event.timestamp \in Nat /\ c.event.x \in Int /\ c.event.y \in Int
       /\ \A n \in {c.desc.text, c.desc.icon, c.desc.fontSize, c.desc.iconSize} : n \in Int
       /\ \A color \in {c.desc.fontColor, c.desc.iconColor, c.desc.bgColor} : color.alpha \in Nat

ASSUME ScreenAssumption ==
    /\ CreaseOffset \in Nat
    /\ \A id \in DOMAIN Screen :
          \A n \in {Screen[id].width, Screen[id].height, Screen[id].physicalHeight} : n \in Int
    /\ \A l \in Layout :
          \A n \in {l.scale.scaleX, l.scale.scaleY, l.scale.rect.x, l.scale.rect.y} : n \in Int

\* Every window is listed once.  Its edges are numbers of an int32, so their
\* sum as uint32 wraps around only for an edge left of or above the screen.
ASSUME WindowAssumption ==
    \A l \in Layout :
       /\ l.windows \in Seq([id : Int, zOrder : Nat, floatingScale : Nat,
                             rect : [x : Int, y : Int, width : Nat, height : Nat]])
       /\ \A i, j \in DOMAIN l.windows :
             /\ l.windows[i].id = l.windows[j].id => i = j
             /\ LET w == ShownRect(l.windows[i])
                IN  w.x + w.width < UintSize /\ w.y + w.height < UintSize

VARIABLES
    now,               \* CLOCK_MONOTONIC, since the start of the device
    layout,            \* the windows as they are
    sc,                \* the component of the service, or None
    superFoldOffsetY,  \* superFoldOffsetY_ of SecCompManager
    accepted           \* the report just accepted, or None

vars == <<now, layout, sc, superFoldOffsetY, accepted>>

None == [known |-> FALSE]
MAX_EXTRA_SIZE == 4096

Init ==
    /\ now = 0
    /\ layout \in Layout
    /\ sc = None
    /\ superFoldOffsetY = 0
    /\ accepted = None

Tick ==
    /\ now < MaxTime
    /\ now' = now + 1
    /\ accepted' = None
    /\ UNCHANGED <<layout, sc, superFoldOffsetY>>

LayoutChanges ==
    /\ layout' \in Layout \ {layout}
    /\ accepted' = None
    /\ UNCHANGED <<now, sc, superFoldOffsetY>>
-----------------------------------------------------------------------------
(* Descriptions.                                                           *)

\* The types that have a button, which the service makes for a description.
Button == UNKNOWN_SC_TYPE + 1..MAX_SC_TYPE - 1

\* The new component; it is stored with its problem, not refused for it.
ParseComponent(d, systemApp) ==
    LET placed == Placed(d, layout.scale)
    IN  [type |-> d.type, problem |-> CheckSecCompBase(d, systemApp),
         desc |-> placed.desc, rect |-> placed.rect, windowRect |-> placed.windowRect,
         scale |-> placed.scale, isCompatScaleMode |-> placed.isCompatScaleMode]

RegisterSecurityComponent(type, d, custom, systemApp) ==
    /\ sc = None
    /\ FromJson(type, d, FALSE, systemApp)
    /\ sc' = [known |-> TRUE, info |-> ParseComponent(d, systemApp), systemApp |-> systemApp,
              isCustomAuthorized |-> custom, bypassSecurityCheck |-> FALSE]
    /\ accepted' = None
    /\ UNCHANGED <<now, layout, superFoldOffsetY>>

UpdateSecurityComponent(d) ==
    /\ sc # None
    /\ FromJson(sc.info.type, d, FALSE, sc.systemApp)
    /\ sc' = [sc EXCEPT !.info = ParseComponent(d, sc.systemApp)]
    /\ accepted' = None
    /\ UNCHANGED <<now, layout, superFoldOffsetY>>
-----------------------------------------------------------------------------
(* The report: first the description that comes with it.  A stage of the   *)
(* checks ends in "pass", "bypass" or "refuse".                            *)

\* Only a save component of an application with the custom permission, and
\* only for a failure that has a message.
AllowToBypassSecurityCheck(message) ==
    message /\ sc.isCustomAuthorized /\ sc.info.type = SAVE_COMPONENT

Stage(ok, message) ==
    IF ok THEN "pass" ELSE IF AllowToBypassSecurityCheck(message) THEN "bypass" ELSE "refuse"

\* A message of ArkUI is let pass for bundles the vendor's library names.
ArkuiStage(c) ==
    IF Stage(~c.arkuiMessage, TRUE) = "refuse" /\ c.bypassPermitted THEN "pass"
    ELSE Stage(~c.arkuiMessage, TRUE)

CheckComponentInfoValid(c, info) ==
    IF ~FromJson(sc.info.type, c.desc, TRUE, sc.systemApp) THEN "refuse"
    ELSE Stage(info.problem = "none", HasMessage(info.problem))

GetFoldOffsetY(crossAxisState) ==
    IF crossAxisState = STATE_INVALID \/ superFoldOffsetY # 0 THEN superFoldOffsetY
    ELSE CreaseOffset

\* The place the screen bounds apply to.
RectOnScreen(info, offset) ==
    IF info.desc.displayId = FOLD_VIRTUAL_DISPLAY_ID /\ info.desc.crossAxisState = STATE_NO_CROSS
       /\ info.isCompatScaleMode
    THEN [info.rect EXCEPT !.y = @ - offset]
    ELSE info.rect

ScreenHeight(info) ==
    LET screen == Screen[info.desc.displayId]
    IN  IF info.desc.crossAxisState = STATE_CROSS THEN screen.physicalHeight ELSE screen.height

CheckRectValid(info, offset) ==
    IF info.desc.displayId \notin DOMAIN Screen THEN "no screen"
    ELSE IF info.rect.width <= 0 \/ info.rect.height <= 0 THEN "no size"
    ELSE IF IsOutOfScreen(RectOnScreen(info, offset), Screen[info.desc.displayId].width,
                          ScreenHeight(info)) THEN "out of screen"
    ELSE IF IsOutOfWindow(info.rect, info.windowRect, info.scale) THEN "out of window"
    ELSE "none"

\* The first two failures leave the message of the stage before in place.
CheckRectInfo(info) ==
    LET problem == CheckRectValid(info, GetFoldOffsetY(info.desc.crossAxisState))
        message == IF problem \in {"no screen", "no size"} THEN HasMessage(info.problem) ELSE TRUE
    IN  Stage(problem = "none", message)

\* The stages up to the first that refuses.
InfoStages(c, info) ==
    LET arkui == ArkuiStage(c)
        valid == CheckComponentInfoValid(c, info)
    IN  IF arkui = "refuse" THEN <<"refuse">>
        ELSE IF valid = "refuse" THEN <<arkui, "refuse">>
        ELSE <<arkui, valid, CheckRectInfo(info)>>

\* Faulty variant: a style that is let pass is not remembered.
RectBypassed(stages) ==
    sc.bypassSecurityCheck \/ (Len(stages) = 3 /\ stages[3] = "bypass")

\* bypassSecurityCheck_ afterwards; it is never taken back.
Bypassed(stages) ==
    sc.bypassSecurityCheck \/ \E i \in DOMAIN stages : stages[i] = "bypass"
-----------------------------------------------------------------------------
(* Then the click itself.                                                  *)

\* uint64 subtraction.
Minus(a, b) == IF a >= b THEN a - b ELSE a - b + WordSize

\* Faulty variant: an age in place of two bounds.
AgeValid(timestamp) == timestamp <= now /\ now - timestamp <= MaxTouchInterval + 1

\* Neither older than the interval nor in the future.
TimestampValid(timestamp) ==
    timestamp >= Minus(now, MaxTouchInterval) /\ timestamp <= now

IsInPCVirtualScreen(info) ==
    info.desc.displayId = FOLD_VIRTUAL_DISPLAY_ID /\ info.desc.crossAxisState = STATE_NO_CROSS

Moved(c, info) == c.event.type = "point" /\ IsInPCVirtualScreen(info)

\* The component where the touch is looked for.
ClickedRect(c, info, offset) ==
    IF Moved(c, info) /\ ~info.isCompatScaleMode THEN [info.rect EXCEPT !.y = @ + offset]
    ELSE info.rect

\* Faulty variant: the touch stays where it was.
TouchUnmoved(c, info, offset) == c.event.y

TouchY(c, info, offset) == IF Moved(c, info) THEN c.event.y + offset ELSE c.event.y

CheckPointEvent(c, info, offset) ==
    LET r == ClickedRect(c, info, offset)
        y == TouchY(c, info, offset)
    IN  /\ TimestampValid(c.event.timestamp)
        /\ \/ IsInRect(r, c.event.x, y)
           \/ info.desc.crossAxisState = STATE_CROSS /\ IsInRect(r, c.event.x, y + offset)

CheckKeyEvent(c) == TimestampValid(c.event.timestamp) /\ c.event.keyCode \in {2050, 2054, 2119}

CheckClickInfo(c, info, offset) ==
    /\ \/ info.type = SAVE_COMPONENT
       \/ CheckOtherWindowCoverComp(info.desc.windowId, ClickedRect(c, info, offset), layout.windows)
    /\ \/ c.event.type = "point" /\ CheckPointEvent(c, info, offset)
       \/ c.event.type = "accessibility"
       \/ c.event.type = "key" /\ CheckKeyEvent(c)

\* SecCompClickEventParcel: an event of a type both sides know, with extra
\* data the service is willing to read.
Marshalling(e) == e.type \in {"point", "key", "accessibility"}
Unmarshalling(e) == e.type \in {"point", "key", "accessibility"} /\ e.extraSize <= MAX_EXTRA_SIZE

\* The report is refused for its description, by the checks or by the
\* vendor's library.
RefuseInfo(c, stages) ==
    /\ sc' = [sc EXCEPT !.bypassSecurityCheck = Bypassed(stages)]
    /\ superFoldOffsetY' = IF Len(stages) = 3 THEN GetFoldOffsetY(c.desc.crossAxisState)
                           ELSE superFoldOffsetY
    /\ accepted' = None
    /\ UNCHANGED <<now, layout>>

\* Faulty variant: what is stored is kept if the description has not changed.
CheckStoredInfo(c, info, stages, extraValid) ==
    LET offset == GetFoldOffsetY(c.desc.crossAxisState)
        kept == IF sc.info.desc = c.desc THEN sc.info ELSE info
    IN  /\ "refuse" \notin {stages[i] : i \in DOMAIN stages}
        /\ superFoldOffsetY' = offset
        /\ sc' = [sc EXCEPT !.info = [kept EXCEPT !.rect = ClickedRect(c, kept, offset)],
                            !.bypassSecurityCheck = Bypassed(stages)]
        /\ accepted' = IF extraValid /\ CheckClickInfo(c, kept, offset) THEN c ELSE None
        /\ UNCHANGED <<now, layout>>

\* The description is stored, then the click is checked; refused or not, the
\* stored place has been moved.
CheckClick(c, info, stages, extraValid) ==
    LET offset == GetFoldOffsetY(c.desc.crossAxisState)
    IN  /\ "refuse" \notin {stages[i] : i \in DOMAIN stages}
        /\ superFoldOffsetY' = offset
        /\ sc' = [sc EXCEPT !.info = [info EXCEPT !.rect = ClickedRect(c, info, offset)],
                            !.bypassSecurityCheck = Bypassed(stages)]
        /\ accepted' = IF extraValid /\ CheckClickInfo(c, info, offset) THEN c ELSE None
        /\ UNCHANGED <<now, layout>>
-----------------------------------------------------------------------------
(* The type a description names need not be the one that was registered or *)
(* stored before: nothing compares them, and the last one is stored.  An   *)
(* application is a system application or not as long as it runs.          *)

Next ==
    \/ Tick
    \/ LayoutChanges
    \/ \E d \in Description :
          \/ \E type \in Button, custom, systemApp \in BOOLEAN :
                RegisterSecurityComponent(type, d, custom, systemApp)
          \/ UpdateSecurityComponent(d)
    \/ \E c \in Report :
          /\ sc # None
          /\ Marshalling(c.event) /\ Unmarshalling(c.event)
          /\ LET info == ParseComponent(c.desc, sc.systemApp)
                 stages == InfoStages(c, info)
             IN  \/ RefuseInfo(c, stages)
                 \/ \E extraValid \in BOOLEAN : CheckClick(c, info, stages, extraValid)

Spec == Init /\ [][Next]_vars
-----------------------------------------------------------------------------
(* Properties.                                                             *)

TypeOK ==
    /\ now \in 0..MaxTime
    /\ layout \in Layout
    /\ superFoldOffsetY \in {0, CreaseOffset}
    /\ accepted \in Report \cup {None}
    /\ sc # None =>
          /\ sc.info.type \in Button
          /\ sc.info.desc.crossAxisState \in STATE_INVALID..STATE_NO_CROSS
          /\ sc.info.desc.tipPosition \in 0..1
          /\ sc.info.desc.absent = {}
          /\ sc.info.rect \in SecCompRect

\* A touch or key that grants was made at most MaxTouchInterval ago and not
\* in the future, also when the clock is smaller than the interval and the
\* subtraction wraps.
ClickFresh ==
    accepted # None /\ accepted.event.type \in {"point", "key"} =>
       accepted.event.timestamp \in now - MaxTouchInterval .. now

\* How far a point is out of the centre of the rounding of a corner.
OutX(r, corner, x) == IF IsRight(corner) THEN x - CentreX(r, corner) ELSE CentreX(r, corner) - x
OutY(r, corner, y) == IF IsBottom(corner) THEN y - CentreY(r, corner) ELSE CentreY(r, corner) - y

\* The points of a component that are seen, its rounded corners drawn in by
\* one unit.
Seen(r, x, y) ==
    \A corner \in DOMAIN r.radius :
       LET dx == OutX(r, corner, x)
           dy == OutY(r, corner, y)
       IN  dx > 0 /\ dy > 0 =>
              r.radius[corner] > 0 /\ Square(dx) + Square(dy) <= Square(r.radius[corner] - 1)

Smaller(a, b) == IF a < b THEN a ELSE b

\* The window w hides a point of the component at r.
Hides(w, r) ==
    LET left == Larger(w.x, r.x)
        right == Smaller(w.x + w.width, r.x + r.width)
        top == Larger(w.y, r.y)
        bottom == Smaller(w.y + w.height, r.y + r.height)
    IN  left < right /\ top < bottom /\ \E x \in left..right, y \in top..bottom : Seen(r, x, y)

\* A window on the layer of that of the component or above hides it.
Covered(windowId, r) ==
    \E i, j \in DOMAIN layout.windows :
       LET own == layout.windows[i]
           other == layout.windows[j]
       IN  /\ own.id = windowId /\ other.id # windowId
           /\ other.zOrder >= own.zOrder
           /\ Hides(ShownRect(other), r)

\* A location or paste component that another window hides, wherever it
\* stands in the list of windows, is not clicked.
ClickUncovered ==
    accepted # None /\ sc.info.type # SAVE_COMPONENT /\ ~IsUIExtension(sc.info.desc.windowId) =>
       ~Covered(sc.info.desc.windowId, sc.info.rect)

\* A window that only touches the free space at a rounded corner does not
\* stop a click, as long as it ends on the screen.
NoFalseCover ==
    /\ sc # None
    /\ sc.info.rect.width > 0 /\ sc.info.rect.height > 0
    /\ ~CheckOtherWindowCoverComp(sc.info.desc.windowId, sc.info.rect, layout.windows)
    =>
       \/ Covered(sc.info.desc.windowId, sc.info.rect)
       \/ \A i \in DOMAIN layout.windows : layout.windows[i].id # sc.info.desc.windowId
       \/ \E i \in DOMAIN layout.windows :
             LET w == ShownRect(layout.windows[i]) IN w.x + w.width < 0 \/ w.y + w.height < 0

\* The touch of an accepted click was on the component as the application
\* reported it; a screen that is folded or shown in compatible scale allows
\* for the height of the fold.
TouchOnComponent ==
    accepted # None /\ accepted.event.type = "point" =>
       LET reported == Placed(accepted.desc, layout.scale)
           mayMove == \/ accepted.desc.crossAxisState = STATE_CROSS
                      \/ IsInPCVirtualScreen(sc.info) /\ sc.info.isCompatScaleMode
           moves == IF mayMove THEN {0, superFoldOffsetY} ELSE {0}
       IN  \E move \in moves : IsInRect(reported.rect, accepted.event.x, accepted.event.y + move)

\* However many clicks there were, the stored place is at most one height of
\* the fold away from where the description puts it in some layout.
RectNotDrifting ==
    sc # None =>
       \E l \in Layout :
          sc.info.rect.y - Placed(sc.info.desc, l.scale).rect.y \in {0, superFoldOffsetY}

AllowToShowToast ==
    /\ sc.isCustomAuthorized
    /\ sc.info.type = SAVE_COMPONENT
    /\ sc.info.desc.isCustomizable \/ sc.bypassSecurityCheck

\* A click accepted although the style or the place of the component is not in
\* order is that of an application with the custom permission, and the bypass is
\* remembered, so a save granted for it is shown to the user in a toast.  (The
\* bypass goes by the type stored before the report.  A save component whose
\* report names another type is granted as that type, for which there is no toast.)
BypassShowsToast ==
    accepted # None
    /\ \/ sc.info.problem # "none"
       \/ CheckRectValid(ParseComponent(accepted.desc, sc.systemApp), superFoldOffsetY) # "none"
       \/ accepted.arkuiMessage /\ ~accepted.bypassPermitted
    =>
       /\ sc.isCustomAuthorized /\ sc.bypassSecurityCheck
       /\ sc.info.type = SAVE_COMPONENT => AllowToShowToast

\* How much of a side of the component lies on the screen.
Part(from, length, size) == Smaller(from + length, size) - Larger(from, 0)

MostlyShown(from, length, size) ==
    10 * Part(from, length, size) >= 10 * length - 2 * Larger(length, 10)

\* Without a bypass a component that is clicked is on the screen but for a
\* tenth of its size at each edge.
ClickedIsOnScreen ==
    accepted # None /\ ~sc.bypassSecurityCheck =>
       LET r == RectOnScreen(Placed(accepted.desc, layout.scale), superFoldOffsetY)
           screen == Screen[accepted.desc.displayId]
       IN  /\ MostlyShown(r.x, r.width, screen.width)
           /\ MostlyShown(r.y, r.height, Larger(screen.height, screen.physicalHeight))

\* Without a bypass a component that is clicked shows a text or an icon that
\* stands out from the background.
ClickedIsReadable ==
    accepted # None /\ ~sc.bypassSecurityCheck =>
       LET d == accepted.desc
           standsOut(color) ==
              color.alpha >= MAX_TRANSPARENT /\ (d.bgColor.alpha > 0 => color # d.bgColor)
       IN  \/ d.text > NO_TEXT /\ d.fontSize > 0 /\ standsOut(d.fontColor)
           \/ d.icon > NO_TEXT /\ d.iconSize >= MIN_ICON_SIZE /\ standsOut(d.iconColor)
=============================================================================
