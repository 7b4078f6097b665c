--------------------------- MODULE ComponentInfo ---------------------------
(***************************************************************************)
(* What an application says of a component, and which of it the service    *)
(* takes: parsing (sec_comp_base.cpp and the three buttons) and the checks *)
(* of style (sec_comp_info_helper.cpp).                                    *)
(*                                                                         *)
(* A description is a record.  Its field absent names the tags that are    *)
(* missing in the JSON or hold a value of another JSON type.  Sizes are    *)
(* whole numbers, padding is the smallest of the four, a color is its      *)
(* alpha and the rest.                                                     *)
(***************************************************************************)
EXTENDS Integers, SequencesExt

UNKNOWN_SC_TYPE == 0
LOCATION_COMPONENT == 1
PASTE_COMPONENT == 2
SAVE_COMPONENT == 3
MAX_SC_TYPE == 4

STATE_INVALID == 0
STATE_CROSS == 1
STATE_NO_CROSS == 2

UNKNOWN_TEXT == -2
NO_TEXT == -1
NO_BG_TYPE == -1
PICTURE_ICON == 2
MIN_ICON_SIZE == 12
MAX_TRANSPARENT == 153
DEFAULT_TRANSPARENCY_THRESHOLD == 26
RELEASE_ATTRIBUTE_LIST == {[alpha |-> 12, rgb |-> 0]}

\* Per component type: the numbers of its labels and of its icons.
MAX_LABEL_TYPE == <<11, 1, 13>>
MAX_ICON_TYPE == <<2, 2, 3>>
-----------------------------------------------------------------------------
(* Parsing.  It builds a new component, so a description that fails at any *)
(* tag leaves nothing behind.                                              *)

Tags ==
    {"type", "nodeId", "isWearable", "isArkuiComponent", "isSmartEdgeState", "windowId",
     "parentEffect", "clips", "parentTag", "rect", "windowRect",
     "fontSize", "iconSize", "textIconPadding", "padding", "borderRadius",
     "fontColor", "iconColor", "bgColor", "borderWidth", "text", "icon", "bg",
     "displayId", "crossAxisState", "isCustomizable", "tipPosition",
     "hasNonCompatibleChange", "blurRadius", "overlay"}

Parsed(d, tags) == d.absent \cap tags = {}

ParseType(d) ==
    Parsed(d, {"type"}) /\ d.type > UNKNOWN_SC_TYPE /\ d.type < MAX_SC_TYPE

ParseParent(d) == Parsed(d, {"parentEffect", "clips", "parentTag"})

ParseRects(d) == Parsed(d, {"rect", "windowRect"})

ParseSize(d) == Parsed(d, {"fontSize", "iconSize", "textIconPadding", "padding", "borderRadius"})

ParseColors(d) == Parsed(d, {"fontColor", "iconColor", "bgColor", "borderWidth"})

\* A picture icon is for system applications; it is looked at when clicked.
IsTextIconTypeValid(button, d, clicked, systemApp) ==
    /\ d.text > UNKNOWN_TEXT /\ d.text < MAX_LABEL_TYPE[button]
    /\ d.icon > UNKNOWN_TEXT /\ d.icon < MAX_ICON_TYPE[button]
    /\ button = SAVE_COMPONENT /\ clicked /\ d.icon = PICTURE_ICON => systemApp

ParseStyle(button, d, clicked, systemApp) ==
    /\ Parsed(d, {"text", "icon", "bg"})
    /\ IsTextIconTypeValid(button, d, clicked, systemApp)
    /\ d.bg \in {NO_BG_TYPE, 0, 1, 2, 8}

\* Faulty variant: the state of the fold axis is taken as it comes.
ParseDisplayTags(d) == Parsed(d, {"displayId", "crossAxisState"})

ParseDisplayInfo(d) ==
    /\ Parsed(d, {"displayId", "crossAxisState"})
    /\ d.crossAxisState \in STATE_INVALID..STATE_NO_CROSS

ParseCustomInfo(d) == Parsed(d, {"isCustomizable", "tipPosition"}) /\ d.tipPosition \in 0..1

ParseNonCompatibleChange(d) == Parsed(d, {"hasNonCompatibleChange", "blurRadius", "overlay"})

\* The class of the button is that of the component, the type kept is that
\* of the description.
FromJson(button, d, clicked, systemApp) ==
    /\ ParseType(d)
    /\ Parsed(d, {"nodeId", "isWearable", "isArkuiComponent", "isSmartEdgeState", "windowId"})
    /\ ParseParent(d)
    /\ ParseRects(d)
    /\ ParseSize(d)
    /\ ParseColors(d)
    /\ ParseStyle(button, d, clicked, systemApp)
    /\ ParseDisplayInfo(d)
    /\ ParseCustomInfo(d)
    /\ ParseNonCompatibleChange(d)
-----------------------------------------------------------------------------
(* Style.                                                                  *)

IsColorTransparent(color) == color.alpha < MAX_TRANSPARENT
IsColorFullTransparent(color) == color.alpha = 0

\* Faulty variant: an icon of the color of the background passes.
FontColorSimilar(d) ==
    /\ ~IsColorFullTransparent(d.bgColor)
    /\ d.text # NO_TEXT /\ d.fontColor = d.bgColor

ColorSimilar(d) ==
    /\ ~IsColorFullTransparent(d.bgColor)
    /\ \/ d.icon # NO_TEXT /\ d.iconColor = d.bgColor
       \/ d.text # NO_TEXT /\ d.fontColor = d.bgColor

BackgroundTooTransparent(d, systemApp) ==
    /\ ~systemApp /\ ~d.isArkuiComponent
    /\ d.bgColor \notin RELEASE_ATTRIBUTE_LIST
    /\ d.bgColor.alpha < DEFAULT_TRANSPARENCY_THRESHOLD

\* What is wrong with the style, in the order it is looked at.
Problems(d, systemApp) ==
    << <<d.parentEffect, "parent effect">>,
       <<d.padding < 0, "padding">>,
       <<d.textIconSpace < 0, "space">>,
       <<d.text # NO_TEXT /\ IsColorTransparent(d.fontColor), "font color">>,
       <<d.icon # NO_TEXT /\ IsColorTransparent(d.iconColor), "icon color">>,
       <<d.text < 0 /\ d.icon < 0, "no text or icon">>,
       <<d.text >= 0 /\ d.fontSize <= 0, "font size">>,
       <<d.icon >= 0 /\ d.iconSize < MIN_ICON_SIZE, "icon size">>,
       <<d.bg = NO_BG_TYPE, "no background">>,
       <<BackgroundTooTransparent(d, systemApp), "background color">>,
       <<ColorSimilar(d), "similar colors">> >>

\* The first problem, or "none".
CheckSecCompBase(d, systemApp) ==
    LET problems == Problems(d, systemApp)
        first == SelectInSeq(problems, LAMBDA p : p[1])
    IN  IF first = 0 THEN "none" ELSE problems[first][2]

\* Two problems are refused without a message.
HasMessage(problem) == problem \notin {"none", "no text or icon", "no background"}
=============================================================================
