---------------------------- MODULE MCClickCheck ----------------------------
(* Instances of ClickCheck for TLC.                                        *)
EXTENDS ClickCheck

Color(alpha, rgb) == [alpha |-> alpha, rgb |-> rgb]
Box(x, y, width, height) == [x |-> x, y |-> y, width |-> width, height |-> height]
Radius(n) ==
    [c \in {"leftTop", "rightTop", "leftBottom", "rightBottom"} |-> n]
Round(x, y, width, height, radius) ==
    [x |-> x, y |-> y, width |-> width, height |-> height, radius |-> radius]

\* A component with four different corners in a window 40 by 40.
UnevenRadius ==
    [leftTop |-> 0, rightTop |-> 3, leftBottom |-> 1, rightBottom |-> 5]

Plain ==
    [absent |-> {}, type |-> LOCATION_COMPONENT, text |-> 0, icon |-> 0, bg |-> 0,
     crossAxisState |-> STATE_INVALID, tipPosition |-> 0, fontSize |-> 10, iconSize |-> 12,
     padding |-> 0, textIconSpace |-> 0, fontColor |-> Color(255, 1), iconColor |-> Color(153, 1),
     bgColor |-> Color(255, 2), parentEffect |-> FALSE, isArkuiComponent |-> FALSE,
     isSmartEdgeState |-> FALSE, isCustomizable |-> FALSE, displayId |-> 0, windowId |-> 1,
     rect |-> Round(10, 10, 20, 10, UnevenRadius), windowRect |-> Box(0, 0, 40, 40)]
Save == [Plain EXCEPT !.type = SAVE_COMPONENT]
\* At the left edge of the screen, hardly outside.
AtEdge == [Plain EXCEPT !.rect = Round(-2, 10, 20, 10, Radius(4)), !.windowRect = Box(-10, 0, 40, 40)]
Virtual ==
    [Plain EXCEPT !.displayId = FOLD_VIRTUAL_DISPLAY_ID, !.crossAxisState = STATE_NO_CROSS]
Cross == [Plain EXCEPT !.crossAxisState = STATE_CROSS]

\* Descriptions with one thing that is not in order, or hardly in order.
Odd(d) ==
    {[d EXCEPT !.absent = {"displayId"}],
     [d EXCEPT !.crossAxisState = 3],
     [d EXCEPT !.tipPosition = 2],
     [d EXCEPT !.bg = 3],
     [d EXCEPT !.text = UNKNOWN_TEXT],
     [d EXCEPT !.text = NO_TEXT, !.icon = NO_TEXT],
     [d EXCEPT !.text = NO_TEXT, !.iconColor = d.bgColor],
     [d EXCEPT !.icon = NO_TEXT, !.fontColor = Color(152, 1)],
     [d EXCEPT !.fontSize = 0],
     [d EXCEPT !.icon = PICTURE_ICON],
     [d EXCEPT !.icon = 0, !.iconSize = 11],
     [d EXCEPT !.bg = NO_BG_TYPE],
     [d EXCEPT !.bgColor = Color(12, 0)],
     [d EXCEPT !.bgColor = Color(25, 2)],
     [d EXCEPT !.bgColor = Color(0, 2), !.isArkuiComponent = TRUE],
     [d EXCEPT !.parentEffect = TRUE],
     [d EXCEPT !.padding = -1],
     [d EXCEPT !.displayId = 7],
     [d EXCEPT !.isSmartEdgeState = TRUE],
     [d EXCEPT !.isCustomizable = TRUE],
     [d EXCEPT !.rect = Round(-3, 10, 20, 10, Radius(0))],
     [d EXCEPT !.rect = Round(14, 10, 40, 10, Radius(0)), !.windowRect = Box(0, 0, 60, 40)],
     [d EXCEPT !.rect = Round(10, 28, 20, 12, Radius(0)), !.windowRect = Box(0, 0, 40, 38)],
     [d EXCEPT !.rect = Round(10, 10, 0, 10, Radius(0))],
     [d EXCEPT !.rect = Round(10, 10, 0, 10, Radius(0)), !.parentEffect = TRUE]}

Descriptions ==
    {Plain, Save, AtEdge, Virtual, Cross, [Plain EXCEPT !.type = PASTE_COMPONENT, !.windowId = UI_EXTENSION_MASK]}
AllDescriptions ==
    Descriptions \cup {[Plain EXCEPT !.crossAxisState = 3], [Save EXCEPT !.absent = {"type"}]}

\* Touches in and beside the component, keys, accessibility events.
Touch(x, y, timestamp) ==
    [type |-> "point", x |-> x, y |-> y, timestamp |-> timestamp, keyCode |-> 0, extraSize |-> 0]
Key(keyCode, timestamp) ==
    [type |-> "key", x |-> 0, y |-> 0, timestamp |-> timestamp, keyCode |-> keyCode, extraSize |-> 0]
Inside == Touch(15, 15, 1)
Events ==
    {Touch(15, 15, 0), Touch(15, 15, 3), Touch(31, 15, 1), Touch(32, 15, 1), Key(2050, 0), Key(2051, 1)}
    \cup {[Inside EXCEPT !.type = "accessibility"],
          [Inside EXCEPT !.type = "unknown"],
          [Inside EXCEPT !.extraSize = MAX_EXTRA_SIZE],
          [Inside EXCEPT !.extraSize = MAX_EXTRA_SIZE + 1]}

ReportOf(d, e, arkuiMessage, bypassPermitted) ==
    [desc |-> d, event |-> e, arkuiMessage |-> arkuiMessage, bypassPermitted |-> bypassPermitted]
Reports ==
    {ReportOf(Plain, e, FALSE, FALSE) : e \in Events}
    \cup {ReportOf(d, Touch(15, y, 1), FALSE, FALSE) : d \in Descriptions, y \in {-15, 9, 21, 41}}
    \cup {ReportOf(d, Inside, FALSE, FALSE) : d \in Odd(Save)}
    \cup {ReportOf(d, Inside, TRUE, permitted) :
             d \in {Plain, [Save EXCEPT !.parentEffect = TRUE]}, permitted \in BOOLEAN}

Unscaled ==
    [floatingScale |-> 100, scaleX |-> 100, scaleY |-> 100, isCompatScaleMode |-> FALSE,
     rect |-> Box(0, 0, 40, 40)]
Window(id, zOrder, rect) == [id |-> id, zOrder |-> zOrder, rect |-> rect, floatingScale |-> 100]
Own == Window(1, 5, Box(0, 0, 40, 40))
Alone == [windows |-> <<Own>>, scale |-> Unscaled]

\* Windows in the free space at the corners of Plain, and windows one unit
\* nearer to its middle.
Free == << <<27, 17>>, <<2, 19>>, <<28, 4>> >>
Near == {<<25, 16>>, <<3, 19>>, <<28, 5>>, <<3, 3>>}
Over(corner) == [windows |-> <<Window(2, 5, Box(corner[1], corner[2], 8, 8)), Own>>, scale |-> Unscaled]
Layouts ==
    {[windows |-> <<Own>>, scale |-> Unscaled],
     [windows |-> <<>>, scale |-> DefaultScale],
     [windows |-> <<Own>>, scale |-> [Unscaled EXCEPT !.scaleX = 50, !.scaleY = 50, !.rect = Box(0, 0, 20, 20)]],
     [windows |-> <<Own>>, scale |-> [Unscaled EXCEPT !.isCompatScaleMode = TRUE]],
     [windows |-> <<Own, Window(2, 6, Box(12, 12, 2, 2))>>, scale |-> Unscaled],
     [windows |-> <<Window(2, 4, Box(0, 0, 40, 40)), Own, Window(3, 6, Box(0, 50, 40, 4))>>, scale |-> Unscaled],
     [windows |-> <<[Window(2, 6, Box(0, 0, 20, 20)) EXCEPT !.floatingScale = 50], Own>>, scale |-> Unscaled],
     [windows |-> <<Window(2, 6, Box(-10, 16, 9, 8)), Own>>, scale |-> Unscaled],
     [windows |-> <<Own>> \o [i \in 1..3 |-> Window(1 + i, 6, Box(Free[i][1], Free[i][2], 8, 8))], scale |-> Unscaled]}
    \cup {Over(corner) : corner \in Near}

Screens ==
    [id \in {0, FOLD_VIRTUAL_DISPLAY_ID} |-> [width |-> 40, height |-> 40, physicalHeight |-> 70]]
=============================================================================
