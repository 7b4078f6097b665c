-------------------------- MODULE ClickCheck_proofs --------------------------
(* Theorems about ClickCheck, for all reports, layouts, screens and clocks. *)
EXTENDS ClickCheck, SequenceTheorems, WellFoundedInduction, TLAPS

FreshInv == now \in Nat /\ ClickFresh

\* What wraps is larger than what does not: TimestampValid keeps to the
\* interval for a clock of any value.
LEMMA ValidIsRecent ==
    ASSUME now \in Nat, NEW t \in Nat, TimestampValid(t)
    PROVE  t \in now - MaxTouchInterval .. now
<1>1. MaxTouchInterval \in Nat /\ WordSize \in Nat
    BY TimeAssumption
<1>2. Minus(now, MaxTouchInterval) >= now - MaxTouchInterval
    BY <1>1 DEF Minus
<1>3. Minus(now, MaxTouchInterval) \in Int
    BY <1>1 DEF Minus
<1> QED
    BY <1>1, <1>2, <1>3 DEF TimestampValid

\* A click that is accepted has passed the check of its time
\* (CheckPointEvent, CheckKeyEvent).
LEMMA AcceptedIsValid ==
    ASSUME NEW c \in Report, NEW info, NEW offset, CheckClickInfo(c, info, offset),
           c.event.type \in {"point", "key"}
    PROVE  TimestampValid(c.event.timestamp)
BY DEF CheckClickInfo, CheckPointEvent, CheckKeyEvent

\* A checked click is accepted as a fresh one or leaves none accepted.
LEMMA CheckClickKeepsFresh ==
    ASSUME FreshInv, NEW c \in Report, NEW info, NEW stages, NEW extraValid \in BOOLEAN,
           CheckClick(c, info, stages, extraValid)
    PROVE  FreshInv'
<1>1. now' = now /\ now \in Nat
    BY DEF CheckClick, FreshInv
<1>2. CASE accepted' = None
    BY <1>1, <1>2 DEF FreshInv, ClickFresh
<1>3. CASE accepted' # None
    <2>1. accepted' = c /\ CheckClickInfo(c, info, GetFoldOffsetY(c.desc.crossAxisState))
        BY <1>3 DEF CheckClick
    <2>2. c.event.timestamp \in Nat
        BY ReportAssumption
    <2>3. c.event.type \in {"point", "key"} => TimestampValid(c.event.timestamp)
        BY <2>1, AcceptedIsValid
    <2>4. c.event.type \in {"point", "key"} =>
             c.event.timestamp \in now - MaxTouchInterval .. now
        BY <1>1, <2>2, <2>3, ValidIsRecent
    <2> QED
        BY <1>1, <2>1, <2>4 DEF FreshInv, ClickFresh
<1> QED
    BY <1>2, <1>3

\* Every touch or key that is accepted is at most MaxTouchInterval old and not
\* in the future, for every clock, interval and word size.
THEOREM AcceptedIsFresh == Spec => []ClickFresh
<1>1. Init => FreshInv
    BY DEF Init, FreshInv, ClickFresh
<1>2. FreshInv /\ [Next]_vars => FreshInv'
    <2> SUFFICES ASSUME FreshInv, [Next]_vars
                 PROVE  FreshInv'
        OBVIOUS
    <2>1. CASE Tick
        BY <2>1 DEF Tick, FreshInv, ClickFresh
    <2>2. CASE LayoutChanges
        BY <2>2 DEF LayoutChanges, FreshInv, ClickFresh
    <2>3. ASSUME NEW d \in Description, NEW type, NEW custom, NEW systemApp,
                 RegisterSecurityComponent(type, d, custom, systemApp)
          PROVE  FreshInv'
        BY <2>3 DEF RegisterSecurityComponent, FreshInv, ClickFresh
    <2>4. ASSUME NEW d \in Description, UpdateSecurityComponent(d)
          PROVE  FreshInv'
        BY <2>4 DEF UpdateSecurityComponent, FreshInv, ClickFresh
    <2>5. ASSUME NEW c \in Report, NEW stages, RefuseInfo(c, stages)
          PROVE  FreshInv'
        BY <2>5 DEF RefuseInfo, FreshInv, ClickFresh
    <2>6. CASE UNCHANGED vars
        BY <2>6 DEF vars, FreshInv, ClickFresh
    <2> QED
        BY <2>1, <2>2, <2>3, <2>4, <2>5, <2>6, CheckClickKeepsFresh DEF Next
<1>3. FreshInv => ClickFresh
    BY DEF FreshInv
<1> QED
    BY <1>1, <1>2, <1>3, PTL DEF Spec
-----------------------------------------------------------------------------
(* What holds whenever a click is accepted follows from the one step that  *)
(* accepts it; the invariant is only what makes the step readable.         *)

StateInv ==
    /\ superFoldOffsetY \in Int
    /\ layout \in Layout
    /\ sc # None => {"info", "systemApp", "isCustomAuthorized", "bypassSecurityCheck"} \subseteq DOMAIN sc

Offset(c) == GetFoldOffsetY(c.desc.crossAxisState)
ReportedInfo(c) == ParseComponent(c.desc, sc.systemApp)

\* The step that accepts c, as far as the theorems below need it.
Accepts(c) ==
    /\ accepted' = c
    /\ layout' = layout
    /\ superFoldOffsetY' = Offset(c)
    /\ sc'.info = [ReportedInfo(c) EXCEPT !.rect = ClickedRect(c, ReportedInfo(c), Offset(c))]
    /\ sc'.isCustomAuthorized = sc.isCustomAuthorized
    /\ sc'.systemApp = sc.systemApp
    /\ sc'.bypassSecurityCheck = Bypassed(InfoStages(c, ReportedInfo(c)))
    /\ "refuse" \notin {InfoStages(c, ReportedInfo(c))[i] : i \in DOMAIN InfoStages(c, ReportedInfo(c))}
    /\ CheckClickInfo(c, ReportedInfo(c), Offset(c))

LEMMA OffsetIsInt ==
    ASSUME StateInv, NEW state
    PROVE  GetFoldOffsetY(state) \in Int
BY ScreenAssumption DEF GetFoldOffsetY, StateInv

LEMMA StateInvHolds == Spec => []StateInv
<1>1. Init => StateInv
    BY DEF Init, StateInv
<1>2. StateInv /\ [Next]_vars => StateInv'
    <2> SUFFICES ASSUME StateInv, [Next]_vars
                 PROVE  StateInv'
        OBVIOUS
    <2>1. CASE Tick
        BY <2>1 DEF Tick, StateInv
    <2>2. CASE LayoutChanges
        BY <2>2 DEF LayoutChanges, StateInv
    <2>3. ASSUME NEW d \in Description, NEW type, NEW custom, NEW systemApp,
                 RegisterSecurityComponent(type, d, custom, systemApp)
          PROVE  StateInv'
        BY <2>3 DEF RegisterSecurityComponent, StateInv
    <2>4. ASSUME NEW d \in Description, UpdateSecurityComponent(d)
          PROVE  StateInv'
        BY <2>4 DEF UpdateSecurityComponent, StateInv
    <2>5. ASSUME NEW c \in Report, sc # None, NEW stages, RefuseInfo(c, stages)
          PROVE  StateInv'
        BY <2>5, OffsetIsInt DEF RefuseInfo, StateInv
    <2>6. ASSUME NEW c \in Report, sc # None, NEW info, NEW stages, NEW extraValid,
                 CheckClick(c, info, stages, extraValid)
          PROVE  StateInv'
        BY <2>6, OffsetIsInt DEF CheckClick, StateInv
    <2>7. CASE UNCHANGED vars
        BY <2>7 DEF vars, StateInv
    <2> QED
        BY <2>1, <2>2, <2>3, <2>4, <2>5, <2>6, <2>7 DEF Next
<1> QED
    BY <1>1, <1>2, PTL DEF Spec

\* A step leaves no click accepted, or changes nothing, or accepts one.
LEMMA StepAccepts ==
    ASSUME StateInv, [Next]_vars
    PROVE  accepted' = None \/ UNCHANGED vars \/ \E c \in Report : Accepts(c)
<1>1. CASE Tick \/ LayoutChanges
    BY <1>1 DEF Tick, LayoutChanges
<1>2. ASSUME NEW d \in Description, NEW type, NEW custom, NEW systemApp,
             RegisterSecurityComponent(type, d, custom, systemApp)
      PROVE  accepted' = None
    BY <1>2 DEF RegisterSecurityComponent
<1>3. ASSUME NEW d \in Description, UpdateSecurityComponent(d)
      PROVE  accepted' = None
    BY <1>3 DEF UpdateSecurityComponent
<1>4. ASSUME NEW c \in Report, NEW stages, RefuseInfo(c, stages)
      PROVE  accepted' = None
    BY <1>4 DEF RefuseInfo
<1>5. ASSUME NEW c \in Report, sc # None, NEW extraValid,
             CheckClick(c, ReportedInfo(c), InfoStages(c, ReportedInfo(c)), extraValid),
             accepted' # None
      PROVE  Accepts(c)
    <2> DEFINE stages == InfoStages(c, ReportedInfo(c))
               moved == [ReportedInfo(c) EXCEPT !.rect = ClickedRect(c, ReportedInfo(c), Offset(c))]
    <2>1. accepted' = c /\ CheckClickInfo(c, ReportedInfo(c), Offset(c))
        BY <1>5 DEF CheckClick, Offset
    <2>2. sc' = [sc EXCEPT !.info = moved, !.bypassSecurityCheck = Bypassed(stages)]
        BY <1>5 DEF CheckClick, Offset
    <2>3. /\ sc'.info = moved
          /\ sc'.isCustomAuthorized = sc.isCustomAuthorized
          /\ sc'.systemApp = sc.systemApp
          /\ sc'.bypassSecurityCheck = Bypassed(stages)
        <3> HIDE DEF moved, stages
        <3> QED
            BY <1>5, <2>2 DEF StateInv
    <2>4. layout' = layout /\ superFoldOffsetY' = Offset(c)
        BY <1>5 DEF CheckClick, Offset
    <2>5. "refuse" \notin {stages[i] : i \in DOMAIN stages}
        BY <1>5 DEF CheckClick
    <2> QED
        BY <1>5, <2>1, <2>3, <2>4, <2>5 DEF Accepts
<1> QED
    BY <1>1, <1>2, <1>3, <1>4, <1>5 DEF Next, ReportedInfo

\* What is stored of the report of an accepted click.
LEMMA AcceptedInfo ==
    ASSUME NEW c \in Report, Accepts(c)
    PROVE  /\ sc'.info.type = c.desc.type
           /\ sc'.info.desc = c.desc
           /\ sc'.info.problem = CheckSecCompBase(c.desc, sc.systemApp)
           /\ sc'.info.isCompatScaleMode = Placed(c.desc, layout.scale).isCompatScaleMode
           /\ Placed(c.desc, layout.scale).desc = c.desc
<1>1. Placed(c.desc, layout.scale).desc = c.desc
    BY DEF Placed, AdjustSecCompRect
<1> DEFINE r == ClickedRect(c, ReportedInfo(c), Offset(c))
           problem == CheckSecCompBase(c.desc, sc.systemApp)
           placed == Placed(c.desc, layout.scale)
<1>2. sc'.info = [ReportedInfo(c) EXCEPT !.rect = r]
    BY DEF Accepts
<1>3. ReportedInfo(c) =
         [type |-> c.desc.type, problem |-> problem,
          desc |-> placed.desc, rect |-> placed.rect, windowRect |-> placed.windowRect,
          scale |-> placed.scale, isCompatScaleMode |-> placed.isCompatScaleMode]
    BY DEF ReportedInfo, ParseComponent
<1> HIDE DEF r, problem, placed
<1>5. /\ sc'.info.type = c.desc.type
      /\ sc'.info.desc = placed.desc
      /\ sc'.info.problem = problem
      /\ sc'.info.isCompatScaleMode = placed.isCompatScaleMode
    BY <1>2, <1>3
<1> QED
    BY <1>1, <1>5 DEF placed, problem

\* The three stages of an accepted click are passed or bypassed.
LEMMA AcceptedStages ==
    ASSUME NEW c \in Report, Accepts(c)
    PROVE  /\ InfoStages(c, ReportedInfo(c)) =
                 <<ArkuiStage(c), CheckComponentInfoValid(c, ReportedInfo(c)), CheckRectInfo(ReportedInfo(c))>>
           /\ ArkuiStage(c) # "refuse"
           /\ CheckComponentInfoValid(c, ReportedInfo(c)) # "refuse"
           /\ CheckRectInfo(ReportedInfo(c)) # "refuse"
<1> DEFINE arkui == ArkuiStage(c)
           valid == CheckComponentInfoValid(c, ReportedInfo(c))
           rect == CheckRectInfo(ReportedInfo(c))
           stages == InfoStages(c, ReportedInfo(c))
<1>1. stages = IF arkui = "refuse" THEN <<"refuse">>
               ELSE IF valid = "refuse" THEN <<arkui, "refuse">>
               ELSE <<arkui, valid, rect>>
    BY DEF InfoStages
<1>2. \A i \in DOMAIN stages : stages[i] # "refuse"
    BY DEF Accepts
<1> HIDE DEF arkui, valid, rect, stages
<1>3. arkui # "refuse" /\ valid # "refuse"
    BY <1>1, <1>2
<1>4. stages = <<arkui, valid, rect>>
    BY <1>1, <1>3
<1>5. rect # "refuse"
    BY <1>2, <1>4
<1> QED
    BY <1>3, <1>4, <1>5 DEF arkui, valid, rect, stages
-----------------------------------------------------------------------------
\* A stage that is let pass with a failure was allowed to.
LEMMA BypassAllowed ==
    ASSUME NEW message, Stage(FALSE, message) # "refuse"
    PROVE  /\ Stage(FALSE, message) = "bypass"
           /\ sc.isCustomAuthorized
BY DEF Stage, AllowToBypassSecurityCheck

LEMMA BypassRemembered ==
    ASSUME NEW c \in Report, Accepts(c),
           \/ ArkuiStage(c) = "bypass"
           \/ CheckComponentInfoValid(c, ReportedInfo(c)) = "bypass"
           \/ CheckRectInfo(ReportedInfo(c)) = "bypass"
    PROVE  sc'.bypassSecurityCheck
<1> DEFINE arkui == ArkuiStage(c)
           valid == CheckComponentInfoValid(c, ReportedInfo(c))
           rect == CheckRectInfo(ReportedInfo(c))
           stages == InfoStages(c, ReportedInfo(c))
<1>1. stages = <<arkui, valid, rect>>
    BY AcceptedStages
<1>2. arkui = "bypass" \/ valid = "bypass" \/ rect = "bypass"
    OBVIOUS
<1>3. sc'.bypassSecurityCheck = Bypassed(stages)
    BY DEF Accepts
<1> HIDE DEF arkui, valid, rect, stages
<1>4. \E i \in DOMAIN stages : stages[i] = "bypass"
    BY <1>1, <1>2
<1> QED
    BY <1>3, <1>4 DEF Bypassed

\* A click that is accepted although its style, its place or ArkUI speaks
\* against it has the custom permission and is remembered as a bypass, so that
\* a save granted for it comes with a toast, whatever type was registered,
\* reported, updated or refused before.
THEOREM BypassIsShown == Spec => []BypassShowsToast
<1>1. Init => BypassShowsToast
    BY DEF Init, BypassShowsToast
<1>2. StateInv /\ BypassShowsToast /\ [Next]_vars => BypassShowsToast'
    <2> SUFFICES ASSUME StateInv, BypassShowsToast, [Next]_vars
                 PROVE  BypassShowsToast'
        OBVIOUS
    <2>1. CASE accepted' = None
        BY <2>1 DEF BypassShowsToast
    <2>2. CASE UNCHANGED vars
        BY <2>2 DEF vars, BypassShowsToast, AllowToShowToast, ParseComponent, CheckRectValid
    <2>3. ASSUME NEW c \in Report, Accepts(c)
          PROVE  BypassShowsToast'
        <3>1. CASE /\ ReportedInfo(c).problem = "none"
                   /\ CheckRectValid(ReportedInfo(c), Offset(c)) = "none"
                   /\ ~(c.arkuiMessage /\ ~c.bypassPermitted)
            <4>1. sc'.info.problem = "none"
                BY <2>3, <3>1, AcceptedInfo DEF ReportedInfo, ParseComponent
            <4>2. CheckRectValid(ParseComponent(accepted.desc, sc.systemApp), superFoldOffsetY)' = "none"
                BY <2>3, <3>1 DEF Accepts, ReportedInfo, ParseComponent, CheckRectValid, RectOnScreen, ScreenHeight
            <4>3. accepted' = c
                BY <2>3 DEF Accepts
            <4> QED
                BY <3>1, <4>1, <4>2, <4>3 DEF BypassShowsToast
        <3>2. CASE ReportedInfo(c).problem # "none"
            <4>1. CheckComponentInfoValid(c, ReportedInfo(c)) = Stage(FALSE, HasMessage(ReportedInfo(c).problem))
                BY <2>3, <3>2, AcceptedStages DEF CheckComponentInfoValid
            <4> QED
                BY <2>3, <4>1, AcceptedStages, AcceptedInfo, BypassAllowed, BypassRemembered
                DEF BypassShowsToast, AllowToShowToast, Accepts
        <3>3. CASE CheckRectValid(ReportedInfo(c), Offset(c)) # "none"
            <4>1. \E message : CheckRectInfo(ReportedInfo(c)) = Stage(FALSE, message)
                <5>1. ReportedInfo(c).desc = c.desc
                    BY <2>3, AcceptedInfo DEF ReportedInfo, ParseComponent
                <5> QED
                    BY <3>3, <5>1 DEF CheckRectInfo, Offset
            <4> QED
                BY <2>3, <4>1, AcceptedStages, AcceptedInfo, BypassAllowed, BypassRemembered
                DEF BypassShowsToast, AllowToShowToast, Accepts
        <3>4. CASE c.arkuiMessage /\ ~c.bypassPermitted
            <4>1. ArkuiStage(c) = Stage(FALSE, TRUE)
                BY <3>4 DEF ArkuiStage
            <4> QED
                BY <2>3, <4>1, AcceptedStages, AcceptedInfo, BypassAllowed, BypassRemembered
                DEF BypassShowsToast, AllowToShowToast, Accepts
        <3> QED
            BY <3>1, <3>2, <3>3, <3>4
    <2> QED
        BY <2>1, <2>2, <2>3, StepAccepts
<1> QED
    BY <1>1, <1>2, StateInvHolds, PTL DEF Spec
-----------------------------------------------------------------------------
LEMMA PlacedIsPlace ==
    ASSUME StateInv, NEW d \in Description \cup {c.desc : c \in Report}
    PROVE  Placed(d, layout.scale).rect \in SecCompRect
<1> DEFINE s == layout.scale
           r == d.rect
           wx == d.windowRect.x
           wy == d.windowRect.y
<1>1. r \in SecCompRect /\ wx \in Int /\ wy \in Int
    BY DescriptionAssumption
<1>2. s.scaleX \in Int /\ s.scaleY \in Int /\ s.rect.x \in Int /\ s.rect.y \in Int
    BY ScreenAssumption DEF StateInv
<1>3. \A n, percent \in Int : Scaled(n, percent) \in Int
    BY DEF Scaled
<1>4. AdjustSecCompRect(d, s).rect \in SecCompRect
    <2>1. AdjustSecCompRect(d, s).rect =
            [r EXCEPT !.x = s.rect.x + Scaled(r.x - wx, s.scaleX),
                      !.y = s.rect.y + Scaled(r.y - wy, s.scaleY),
                      !.width = Scaled(r.width, s.scaleX),
                      !.height = Scaled(r.height, s.scaleY)]
        BY <1>1 DEF AdjustSecCompRect, SecCompRect
    <2>2. /\ s.rect.x + Scaled(r.x - wx, s.scaleX) \in Int
          /\ s.rect.y + Scaled(r.y - wy, s.scaleY) \in Int
          /\ Scaled(r.width, s.scaleX) \in Int /\ Scaled(r.height, s.scaleY) \in Int
        <3> HIDE DEF r, s, wx, wy
        <3>1. r.x \in Int /\ r.y \in Int /\ r.width \in Int /\ r.height \in Int
            BY <1>1 DEF SecCompRect
        <3>2. r.x - wx \in Int /\ r.y - wy \in Int
            BY <1>1, <3>1
        <3>3. /\ Scaled(r.x - wx, s.scaleX) \in Int /\ Scaled(r.y - wy, s.scaleY) \in Int
              /\ Scaled(r.width, s.scaleX) \in Int /\ Scaled(r.height, s.scaleY) \in Int
            BY <1>2, <1>3, <3>1, <3>2
        <3> QED
            BY <1>2, <3>3
    <2> HIDE DEF r, s, wx, wy
    <2> QED
        BY <1>1, <2>1, <2>2 DEF SecCompRect
<1> QED
    BY <1>1, <1>4 DEF Placed

\* What CheckPointEvent accepts is on the reported place, moved by the fold
\* where the screen is folded or shown in compatible scale.
LEMMA PointIsOnPlace ==
    ASSUME StateInv, NEW c \in Report, Accepts(c), c.event.type = "point"
    PROVE  \E move \in IF \/ c.desc.crossAxisState = STATE_CROSS
                          \/ /\ IsInPCVirtualScreen(ReportedInfo(c))
                             /\ ReportedInfo(c).isCompatScaleMode
                       THEN {0, Offset(c)} ELSE {0} :
              IsInRect(Placed(c.desc, layout.scale).rect, c.event.x, c.event.y + move)
<1> DEFINE info == ReportedInfo(c)
           r == Placed(c.desc, layout.scale).rect
           offset == Offset(c)
           x == c.event.x
           y == c.event.y
<1>1. offset \in Int /\ x \in Int /\ y \in Int /\ r \in SecCompRect
    BY OffsetIsInt, ReportAssumption, PlacedIsPlace DEF Offset
<1>2. info.rect = r /\ info.desc = c.desc
    BY AcceptedInfo DEF ReportedInfo, ParseComponent
<1>3. CheckPointEvent(c, info, offset)
    BY DEF Accepts, CheckClickInfo
<1>4. CASE ~Moved(c, info)
    <2>1. ClickedRect(c, info, offset) = r /\ TouchY(c, info, offset) = y /\ y + 0 = y
        BY <1>1, <1>2, <1>4 DEF ClickedRect, TouchY
    <2>2. IsInRect(r, x, y + 0) \/ (c.desc.crossAxisState = STATE_CROSS /\ IsInRect(r, x, y + offset))
        BY <1>2, <1>3, <2>1 DEF CheckPointEvent
    <2> HIDE DEF info, r, offset, x, y
    <2>3. CASE IsInRect(r, x, y + 0)
        BY <2>3 DEF info, r, offset, x, y
    <2>4. CASE c.desc.crossAxisState = STATE_CROSS /\ IsInRect(r, x, y + offset)
        BY <2>4 DEF info, r, offset, x, y
    <2> QED
        BY <2>2, <2>3, <2>4
<1>5. CASE Moved(c, info)
    <2>1. TouchY(c, info, offset) = y + offset /\ c.desc.crossAxisState # STATE_CROSS
        BY <1>2, <1>5 DEF Moved, TouchY, IsInPCVirtualScreen, STATE_CROSS, STATE_NO_CROSS
    <2>2. IsInRect(ClickedRect(c, info, offset), x, y + offset)
        BY <1>2, <1>3, <2>1 DEF CheckPointEvent
    <2>3. CASE info.isCompatScaleMode
        <3>1. IsInRect(r, x, y + offset)
            BY <1>2, <2>2, <2>3 DEF ClickedRect
        <3> QED
            BY <1>5, <2>3, <3>1 DEF Moved
    <2>4. CASE ~info.isCompatScaleMode
        <3>1. ClickedRect(c, info, offset) = [r EXCEPT !.y = @ + offset]
            BY <1>2, <1>5, <2>4 DEF ClickedRect
        <3> HIDE DEF info, r, offset, x, y
        <3>2. IsInRect(r, x, y + 0)
            BY <1>1, <2>2, <3>1 DEF IsInRect, SecCompRect
        <3> QED
            BY <3>2 DEF info, r, offset, x, y
    <2> QED
        BY <2>3, <2>4
<1> QED
    BY <1>4, <1>5

\* The touch of an accepted click was on the place the application reported,
\* for every layout, scale and fold, whatever earlier clicks left in the
\* stored place.
THEOREM TouchedWhereReported == Spec => []TouchOnComponent
<1>1. Init => TouchOnComponent
    BY DEF Init, TouchOnComponent
<1>2. StateInv /\ TouchOnComponent /\ [Next]_vars => TouchOnComponent'
    <2> SUFFICES ASSUME StateInv, TouchOnComponent, [Next]_vars
                 PROVE  TouchOnComponent'
        OBVIOUS
    <2>1. CASE accepted' = None
        BY <2>1 DEF TouchOnComponent
    <2>2. CASE UNCHANGED vars
        BY <2>2 DEF vars, TouchOnComponent, IsInPCVirtualScreen
    <2>3. ASSUME NEW c \in Report, Accepts(c)
          PROVE  TouchOnComponent'
        <3>1. accepted' = c /\ superFoldOffsetY' = Offset(c) /\ layout' = layout
            BY <2>3 DEF Accepts
        <3>2. /\ sc'.info.desc = ReportedInfo(c).desc
              /\ sc'.info.isCompatScaleMode = ReportedInfo(c).isCompatScaleMode
            BY <2>3, AcceptedInfo DEF ReportedInfo, ParseComponent
        <3>3. IsInPCVirtualScreen(sc.info)' = IsInPCVirtualScreen(ReportedInfo(c))
            BY <3>2 DEF IsInPCVirtualScreen
        <3> SUFFICES ASSUME accepted' # None, c.event.type = "point"
                     PROVE  TouchOnComponent'
            BY <3>1 DEF TouchOnComponent
        <3> DEFINE placed == Placed(c.desc, layout.scale)
                   mayMove == \/ c.desc.crossAxisState = STATE_CROSS
                              \/ /\ IsInPCVirtualScreen(ReportedInfo(c))
                                 /\ ReportedInfo(c).isCompatScaleMode
        <3>4. \E move \in IF mayMove THEN {0, Offset(c)} ELSE {0} :
                  IsInRect(placed.rect, c.event.x, c.event.y + move)
            BY <2>3, PointIsOnPlace
        <3>5. Placed(accepted.desc, layout.scale)' = placed
            BY <3>1 DEF Placed, AdjustSecCompRect, NeedsAdjusting
        <3>6. TouchOnComponent' = \E move \in IF mayMove THEN {0, Offset(c)} ELSE {0} :
                  IsInRect(placed.rect, c.event.x, c.event.y + move)
            <4> HIDE DEF placed
            <4> QED
                BY <3>1, <3>2, <3>3, <3>5, Zenon DEF TouchOnComponent
        <3> QED
            BY <3>4, <3>6
    <2> QED
        BY <2>1, <2>2, <2>3, StepAccepts
<1> QED
    BY <1>1, <1>2, StateInvHolds, PTL DEF Spec
-----------------------------------------------------------------------------
\* Without a bypass nothing is wrong with style or place.
LEMMA NoBypassNoProblem ==
    ASSUME NEW c \in Report, Accepts(c), ~sc'.bypassSecurityCheck
    PROVE  /\ CheckSecCompBase(c.desc, sc.systemApp) = "none"
           /\ CheckRectValid(ReportedInfo(c), Offset(c)) = "none"
<1>1. CheckComponentInfoValid(c, ReportedInfo(c)) \notin {"bypass", "refuse"}
    BY AcceptedStages, BypassRemembered
<1>2. CheckRectInfo(ReportedInfo(c)) \notin {"bypass", "refuse"}
    BY AcceptedStages, BypassRemembered
<1>3. \A ok, message : Stage(ok, message) \notin {"bypass", "refuse"} => ok
    BY DEF Stage
<1>4. ReportedInfo(c).problem = "none"
    BY <1>1, <1>3 DEF CheckComponentInfoValid
<1>5. CheckRectValid(ReportedInfo(c), Offset(c)) = "none"
    <2>1. ReportedInfo(c).desc = c.desc
        BY AcceptedInfo DEF ReportedInfo, ParseComponent
    <2> QED
        BY <1>2, <1>3, <2>1 DEF CheckRectInfo, Offset
<1>6. ReportedInfo(c).problem = CheckSecCompBase(c.desc, sc.systemApp)
    BY DEF ReportedInfo, ParseComponent
<1> QED
    BY <1>4, <1>5, <1>6

\* The tolerances of IsOutOfScreen leave this much of each side.
LEMMA NotOutIsMostlyShown ==
    ASSUME NEW r \in SecCompRect, NEW width \in Int, NEW height \in Int, NEW bound \in Int,
           height <= bound, r.width > 0, r.height > 0, ~IsOutOfScreen(r, width, height)
    PROVE  MostlyShown(r.x, r.width, width) /\ MostlyShown(r.y, r.height, bound)
<1>1. r.x \in Int /\ r.y \in Int /\ r.width \in Int /\ r.height \in Int
    BY DEF SecCompRect
<1>2. /\ 10 * r.x >= -Larger(r.width, 10) /\ 10 * r.y >= -Larger(r.height, 10)
      /\ 10 * (r.x + r.width) <= 10 * width + Larger(r.width, 10)
      /\ 10 * (r.y + r.height) <= 10 * height + Larger(r.height, 10)
    BY <1>1 DEF IsOutOfScreen, Larger
<1>3. \A from, length, size \in Int :
          /\ 10 * from >= -Larger(length, 10)
          /\ 10 * (from + length) <= 10 * size + Larger(length, 10)
          => MostlyShown(from, length, size)
    BY DEF MostlyShown, Part, Smaller, Larger
<1>4. 10 * (r.y + r.height) <= 10 * bound + Larger(r.height, 10)
    BY <1>1, <1>2 DEF Larger
<1> QED
    BY <1>1, <1>2, <1>3, <1>4

\* A component that is clicked without a bypass is on the screen but for a
\* tenth at each edge, for every place, screen, scale and fold.
THEOREM ClickedOnScreen == Spec => []ClickedIsOnScreen
<1>1. Init => ClickedIsOnScreen
    BY DEF Init, ClickedIsOnScreen
<1>2. StateInv /\ ClickedIsOnScreen /\ [Next]_vars => ClickedIsOnScreen'
    <2> SUFFICES ASSUME StateInv, ClickedIsOnScreen, [Next]_vars
                 PROVE  ClickedIsOnScreen'
        OBVIOUS
    <2>1. CASE accepted' = None
        BY <2>1 DEF ClickedIsOnScreen
    <2>2. CASE UNCHANGED vars
        BY <2>2 DEF vars, ClickedIsOnScreen, RectOnScreen, Placed, AdjustSecCompRect, NeedsAdjusting
    <2>3. ASSUME NEW c \in Report, Accepts(c), ~sc'.bypassSecurityCheck
          PROVE  ClickedIsOnScreen'
        <3> DEFINE placed == Placed(c.desc, layout.scale)
                   r == RectOnScreen(placed, Offset(c))
                   screen == Screen[c.desc.displayId]
        <3>1. accepted' = c /\ superFoldOffsetY' = Offset(c) /\ layout' = layout
            BY <2>3 DEF Accepts
        <3>2. CheckRectValid(ReportedInfo(c), Offset(c)) = "none"
            BY <2>3, NoBypassNoProblem
        <3>3. /\ ReportedInfo(c).desc = c.desc /\ placed.desc = c.desc
              /\ ReportedInfo(c).rect = placed.rect
              /\ ReportedInfo(c).isCompatScaleMode = placed.isCompatScaleMode
            BY <2>3, AcceptedInfo DEF ReportedInfo, ParseComponent
        <3>4. RectOnScreen(ReportedInfo(c), Offset(c)) = r
            BY <3>3 DEF RectOnScreen
        <3>5. /\ c.desc.displayId \in DOMAIN Screen
              /\ placed.rect.width > 0 /\ placed.rect.height > 0
              /\ ~IsOutOfScreen(r, screen.width, ScreenHeight(ReportedInfo(c)))
            <4>1. placed.rect \in SecCompRect
                BY PlacedIsPlace
            <4>2. placed.rect.width \in Int /\ placed.rect.height \in Int
                BY <4>1 DEF SecCompRect
            <4> HIDE DEF placed, r
            <4> QED
                BY <3>2, <3>3, <3>4, <4>2 DEF CheckRectValid
        <3>6. r \in SecCompRect /\ r.width > 0 /\ r.height > 0
            <4>1. placed.rect \in SecCompRect /\ Offset(c) \in Int
                BY PlacedIsPlace, OffsetIsInt DEF Offset
            <4> HIDE DEF placed
            <4> QED
                BY <3>5, <4>1 DEF RectOnScreen, SecCompRect
        <3>7. /\ screen.width \in Int
              /\ ScreenHeight(ReportedInfo(c)) \in Int
              /\ Larger(screen.height, screen.physicalHeight) \in Int
              /\ ScreenHeight(ReportedInfo(c)) <= Larger(screen.height, screen.physicalHeight)
            BY <3>3, <3>5, ScreenAssumption DEF ScreenHeight, Larger
        <3>8. /\ MostlyShown(r.x, r.width, screen.width)
              /\ MostlyShown(r.y, r.height, Larger(screen.height, screen.physicalHeight))
            <4> HIDE DEF r, screen
            <4> QED
                BY <3>5, <3>6, <3>7, NotOutIsMostlyShown
        <3>9. RectOnScreen(Placed(accepted.desc, layout.scale), superFoldOffsetY)' = r
            BY <3>1 DEF RectOnScreen, Placed, AdjustSecCompRect, NeedsAdjusting
        <3> HIDE DEF r, placed
        <3> QED
            BY <3>1, <3>8, <3>9 DEF ClickedIsOnScreen
    <2>4. ASSUME sc'.bypassSecurityCheck
          PROVE  ClickedIsOnScreen'
        BY <2>4 DEF ClickedIsOnScreen
    <2> QED
        BY <2>1, <2>2, <2>3, <2>4, StepAccepts
<1> QED
    BY <1>1, <1>2, StateInvHolds, PTL DEF Spec
-----------------------------------------------------------------------------
\* A style with which no problem is found has none of the eleven.
LEMMA NoProblemFound ==
    ASSUME NEW d, NEW systemApp, CheckSecCompBase(d, systemApp) = "none"
    PROVE  \A i \in 1..11 : ~Problems(d, systemApp)[i][1]
<1> DEFINE problems == Problems(d, systemApp)
           found == {i \in 1..Len(problems) : problems[i][1]}
<1>1. Len(problems) = 11 /\ \A i \in 1..11 : problems[i][2] # "none"
    BY DEF Problems
<1>2. CheckSecCompBase(d, systemApp) =
         LET first == IF found # {} THEN Min(found) ELSE 0
         IN  IF first = 0 THEN "none" ELSE problems[first][2]
    BY DEF CheckSecCompBase, SelectInSeq
<1> HIDE DEF problems
<1>3. ASSUME found # {}
      PROVE  Min(found) \in 1..11
    <2>1. PICK i \in found : i \in 1..11
        BY <1>1, <1>3
    <2>2. \E n \in found : \A m \in found : n <= m
        BY <1>1, <2>1
    <2> QED
        BY <1>1, <2>2 DEF Min
<1>4. found = {}
    BY <1>1, <1>2, <1>3
<1> QED
    BY <1>1, <1>4 DEF problems

\* A component that is clicked without a bypass shows a text or an icon that
\* stands out, for every description that can be parsed.
THEOREM ClickedReadable == Spec => []ClickedIsReadable
<1>1. Init => ClickedIsReadable
    BY DEF Init, ClickedIsReadable
<1>2. StateInv /\ ClickedIsReadable /\ [Next]_vars => ClickedIsReadable'
    <2> SUFFICES ASSUME StateInv, ClickedIsReadable, [Next]_vars
                 PROVE  ClickedIsReadable'
        OBVIOUS
    <2>1. CASE accepted' = None
        BY <2>1 DEF ClickedIsReadable
    <2>2. CASE UNCHANGED vars
        BY <2>2 DEF vars, ClickedIsReadable
    <2>3. ASSUME NEW c \in Report, Accepts(c), ~sc'.bypassSecurityCheck
          PROVE  ClickedIsReadable'
        <3> DEFINE d == c.desc
                   problems == Problems(d, sc.systemApp)
        <3>1. \A i \in 1..11 : ~problems[i][1]
            BY <2>3, NoBypassNoProblem, NoProblemFound
        <3>2. /\ d.text \in Int /\ d.icon \in Int /\ d.fontSize \in Int /\ d.iconSize \in Int
              /\ d.fontColor.alpha \in Nat /\ d.iconColor.alpha \in Nat /\ d.bgColor.alpha \in Nat
            BY ReportAssumption
        <3>3. /\ ~(d.text # NO_TEXT /\ IsColorTransparent(d.fontColor))
              /\ ~(d.icon # NO_TEXT /\ IsColorTransparent(d.iconColor))
              /\ ~(d.text < 0 /\ d.icon < 0)
              /\ ~(d.text >= 0 /\ d.fontSize <= 0)
              /\ ~(d.icon >= 0 /\ d.iconSize < MIN_ICON_SIZE)
              /\ ~ColorSimilar(d)
            <4>1. ~problems[4][1] /\ ~problems[5][1] /\ ~problems[6][1]
                  /\ ~problems[7][1] /\ ~problems[8][1] /\ ~problems[11][1]
                BY <3>1
            <4> QED
                BY <4>1 DEF Problems
        <3>4. accepted' = c
            BY <2>3 DEF Accepts
        <3> QED
            BY <3>2, <3>3, <3>4
            DEF ClickedIsReadable, IsColorTransparent, IsColorFullTransparent, ColorSimilar,
                NO_TEXT, MIN_ICON_SIZE, MAX_TRANSPARENT
    <2>4. ASSUME sc'.bypassSecurityCheck
          PROVE  ClickedIsReadable'
        BY <2>4 DEF ClickedIsReadable
    <2> QED
        BY <2>1, <2>2, <2>3, <2>4, StepAccepts
<1> QED
    BY <1>1, <1>2, StateInvHolds, PTL DEF Spec
-----------------------------------------------------------------------------
LEMMA NotMoved ==
    ASSUME StateInv, NEW d \in Description, NEW systemApp,
           sc'.info = ParseComponent(d, systemApp)
    PROVE  RectNotDrifting'
<1>1. /\ sc'.info.rect = Placed(d, layout.scale).rect
      /\ sc'.info.desc = Placed(d, layout.scale).desc
    BY DEF ParseComponent
<1>2. Placed(d, layout.scale).desc = d
    BY DEF Placed, AdjustSecCompRect
<1>3. Placed(d, layout.scale).rect.y \in Int
    <2>1. Placed(d, layout.scale).rect \in SecCompRect
        BY PlacedIsPlace
    <2> QED
        BY <2>1 DEF SecCompRect
<1>4. layout \in Layout /\ sc'.info.rect.y - Placed(sc'.info.desc, layout.scale).rect.y = 0
    BY <1>1, <1>2, <1>3 DEF StateInv
<1> QED
    BY <1>4 DEF RectNotDrifting, Placed, AdjustSecCompRect, NeedsAdjusting

\* A step may move the fold from 0 and leave the component; the fold once set
\* stays.
LEMMA FoldMayBeSet ==
    ASSUME RectNotDrifting, sc # None, sc'.info = sc.info, NEW state,
           superFoldOffsetY' \in {superFoldOffsetY, GetFoldOffsetY(state)}
    PROVE  RectNotDrifting'
<1>1. superFoldOffsetY' = superFoldOffsetY \/ superFoldOffsetY = 0
    BY DEF GetFoldOffsetY
<1>2. PICK l \in Layout :
          sc.info.rect.y - Placed(sc.info.desc, l.scale).rect.y \in {0, superFoldOffsetY}
    BY DEF RectNotDrifting
<1>3. sc'.info.rect.y - Placed(sc'.info.desc, l.scale).rect.y \in {0, superFoldOffsetY'}
    BY <1>1, <1>2 DEF Placed, AdjustSecCompRect, NeedsAdjusting
<1> QED
    BY <1>3 DEF RectNotDrifting, Placed, AdjustSecCompRect, NeedsAdjusting

\* A checked click stores the reported place, moved once.
LEMMA MovedOnce ==
    ASSUME StateInv, NEW c \in Report, sc # None, NEW stages, NEW extraValid,
           CheckClick(c, ReportedInfo(c), stages, extraValid)
    PROVE  RectNotDrifting'
<1> DEFINE placed == Placed(c.desc, layout.scale)
           rect == ClickedRect(c, ReportedInfo(c), Offset(c))
<1>1. /\ sc' = [sc EXCEPT !.info = [ReportedInfo(c) EXCEPT !.rect = rect],
                          !.bypassSecurityCheck = Bypassed(stages)]
      /\ superFoldOffsetY' = Offset(c)
    BY DEF CheckClick, Offset
<1>2. sc'.info = [ReportedInfo(c) EXCEPT !.rect = rect]
    <2> HIDE DEF rect
    <2> QED
        BY <1>1 DEF StateInv
<1>3. placed.desc = c.desc
    BY DEF Placed, AdjustSecCompRect
<1>4. ReportedInfo(c) =
         [type |-> c.desc.type, problem |-> CheckSecCompBase(c.desc, sc.systemApp),
          desc |-> placed.desc, rect |-> placed.rect, windowRect |-> placed.windowRect,
          scale |-> placed.scale, isCompatScaleMode |-> placed.isCompatScaleMode]
    BY DEF ReportedInfo, ParseComponent
<1>5. sc'.info.rect = rect /\ sc'.info.desc = c.desc
    <2> HIDE DEF rect, placed
    <2> QED
        BY <1>2, <1>3, <1>4
<1>6. placed.rect \in SecCompRect /\ Offset(c) \in Int
    BY PlacedIsPlace, OffsetIsInt DEF Offset
<1>7. rect.y - placed.rect.y \in {0, Offset(c)}
    <2>1. ReportedInfo(c).rect = placed.rect
        BY <1>4
    <2> HIDE DEF placed
    <2>2. placed.rect.y \in Int
        BY <1>6 DEF SecCompRect
    <2>3. rect = placed.rect \/ rect = [placed.rect EXCEPT !.y = @ + Offset(c)]
        BY <2>1 DEF ClickedRect
    <2> HIDE DEF rect
    <2>4. rect.y = placed.rect.y \/ rect.y = placed.rect.y + Offset(c)
        BY <1>6, <2>3 DEF SecCompRect
    <2> QED
        BY <1>6, <2>2, <2>4
<1>8. layout \in Layout
      /\ sc'.info.rect.y - Placed(sc'.info.desc, layout.scale).rect.y \in {0, superFoldOffsetY'}
    BY <1>1, <1>5, <1>7 DEF StateInv, Placed, AdjustSecCompRect, NeedsAdjusting
<1> QED
    BY <1>8 DEF RectNotDrifting, Placed, AdjustSecCompRect, NeedsAdjusting

\* The place that is stored never drifts: clicks that are accepted or refused
\* move it once, whatever their number and however the windows change.
THEOREM NoDrift == Spec => []RectNotDrifting
<1>1. Init => RectNotDrifting
    BY DEF Init, RectNotDrifting
<1>2. StateInv /\ RectNotDrifting /\ [Next]_vars => RectNotDrifting'
    <2> SUFFICES ASSUME StateInv, RectNotDrifting, [Next]_vars
                 PROVE  RectNotDrifting'
        OBVIOUS
    <2>1. CASE Tick \/ LayoutChanges \/ UNCHANGED vars
        <3>1. sc' = sc /\ superFoldOffsetY' = superFoldOffsetY
            BY <2>1 DEF Tick, LayoutChanges, vars
        <3> QED
            BY <3>1, FoldMayBeSet DEF RectNotDrifting
    <2>2. ASSUME NEW d \in Description, NEW type, NEW custom, NEW systemApp,
                 RegisterSecurityComponent(type, d, custom, systemApp)
          PROVE  RectNotDrifting'
        <3>1. sc'.info = ParseComponent(d, systemApp)
            BY <2>2 DEF RegisterSecurityComponent
        <3> QED
            BY <3>1, NotMoved
    <2>3. ASSUME NEW d \in Description, UpdateSecurityComponent(d)
          PROVE  RectNotDrifting'
        <3>1. sc'.info = ParseComponent(d, sc.systemApp)
            BY <2>3 DEF UpdateSecurityComponent, StateInv
        <3> QED
            BY <3>1, NotMoved
    <2>4. ASSUME NEW c \in Report, sc # None, NEW stages, RefuseInfo(c, stages)
          PROVE  RectNotDrifting'
        <3>1. sc'.info = sc.info
            BY <2>4 DEF RefuseInfo, StateInv
        <3>2. superFoldOffsetY' \in {superFoldOffsetY, GetFoldOffsetY(c.desc.crossAxisState)}
            BY <2>4 DEF RefuseInfo
        <3> QED
            BY <2>4, <3>1, <3>2, FoldMayBeSet
    <2> QED
        BY <2>1, <2>2, <2>3, <2>4, MovedOnce DEF Next, ReportedInfo
<1> QED
    BY <1>1, <1>2, StateInvHolds, PTL DEF Spec
-----------------------------------------------------------------------------
(* The geometry of other windows and rounded corners.                      *)

Box4 == [x : Int, y : Int, width : Nat, height : Nat]
WindowType == [id : Int, zOrder : Nat, floatingScale : Nat, rect : Box4]
CornerNames == {"leftTop", "rightTop", "leftBottom", "rightBottom"}

\* The edges of a window are summed without wrapping around at the top.
EndsInRange(w) == w.x + w.width < UintSize /\ w.y + w.height < UintSize

LEMMA SquareGrows ==
    ASSUME NEW a \in Int, NEW b \in Int, 0 <= a, a <= b
    PROVE  Square(a) <= Square(b)
<1>1. a * a <= a * b
    BY SMT
<1>2. a * b <= b * b
    BY SMT
<1> QED
    BY <1>1, <1>2 DEF Square

LEMMA SquareOfDifference ==
    ASSUME NEW a \in Int, NEW b \in Int
    PROVE  Square(a - b) = Square(b - a) /\ Square(a - b) \in Nat
BY DEF Square

LEMMA WrapsUpwards ==
    ASSUME NEW n \in Int, n < UintSize
    PROVE  n % UintSize \in Nat /\ n % UintSize >= n /\ (n >= 0 => n % UintSize = n)
BY UintAssumption

LEMMA ShownIsBox ==
    ASSUME NEW w \in WindowType
    PROVE  ShownRect(w) \in Box4
<1>1. w.rect.width \in Nat /\ w.rect.height \in Nat /\ w.floatingScale \in Nat /\ w.rect \in Box4
    BY DEF WindowType, Box4
<1>2. \A n, percent \in Nat : Scaled(n, percent) \in Nat
    <2> SUFFICES ASSUME NEW n \in Nat, NEW percent \in Nat PROVE Scaled(n, percent) \in Nat
        OBVIOUS
    <2>1. n * percent \in Nat
        OBVIOUS
    <2> QED
        BY <2>1 DEF Scaled
<1>3. Scaled(w.rect.width, w.floatingScale) \in Nat /\ Scaled(w.rect.height, w.floatingScale) \in Nat
    BY <1>1, <1>2
<1> QED
    BY <1>1, <1>3 DEF ShownRect, Box4

LEMMA CornerTypes ==
    ASSUME NEW r \in SecCompRect, NEW w \in Box4, EndsInRange(w), NEW corner \in CornerNames
    PROVE  /\ r.x \in Int /\ r.y \in Int /\ r.width \in Int /\ r.height \in Int
           /\ r.radius[corner] \in Int
           /\ w.x \in Int /\ w.y \in Int /\ w.width \in Nat /\ w.height \in Nat
           /\ CentreX(r, corner) \in Int /\ CentreY(r, corner) \in Int
           /\ NearX(w, corner) \in Int /\ NearY(w, corner) \in Int
<1>1. /\ r.x \in Int /\ r.y \in Int /\ r.width \in Int /\ r.height \in Int
      /\ r.radius[corner] \in Int
    BY DEF SecCompRect, CornerNames
<1>2. w.x \in Int /\ w.y \in Int /\ w.width \in Nat /\ w.height \in Nat
    BY DEF Box4
<1>3. CentreX(r, corner) \in Int /\ CentreY(r, corner) \in Int
    BY <1>1 DEF CentreX, CentreY
<1>4. (w.x + w.width) % UintSize \in Int /\ (w.y + w.height) % UintSize \in Int
    BY <1>2, WrapsUpwards DEF EndsInRange
<1>5. NearX(w, corner) \in Int /\ NearY(w, corner) \in Int
    BY <1>2, <1>4 DEF NearX, NearY
<1> QED
    BY <1>1, <1>2, <1>3, <1>5

Overlap(w, r) ==
    /\ r.x + r.width > w.x /\ r.x < w.x + w.width
    /\ r.y + r.height > w.y /\ r.y < w.y + w.height

\* In a corner the window reaches no farther than its near point, which is
\* between the centre of the rounding and the edge of the component.
LEMMA NearIsNearest ==
    ASSUME NEW r \in SecCompRect, NEW w \in Box4, EndsInRange(w), Overlap(w, r),
           NEW corner \in CornerNames, WithinCorner(w, r, corner)
    PROVE  /\ OutX(r, corner, NearX(w, corner)) \in 0 .. r.radius[corner] - 1
           /\ OutY(r, corner, NearY(w, corner)) \in 0 .. r.radius[corner] - 1
           /\ \A x \in w.x .. w.x + w.width :
                 OutX(r, corner, x) \in Int /\ OutX(r, corner, x) >= OutX(r, corner, NearX(w, corner))
           /\ \A y \in w.y .. w.y + w.height :
                 OutY(r, corner, y) \in Int /\ OutY(r, corner, y) >= OutY(r, corner, NearY(w, corner))
<1>1. /\ (w.x + w.width) % UintSize >= w.x + w.width
      /\ (w.y + w.height) % UintSize >= w.y + w.height
    BY CornerTypes, WrapsUpwards DEF EndsInRange
<1>2. /\ r.x \in Int /\ r.y \in Int /\ r.width \in Int /\ r.height \in Int
      /\ r.radius[corner] \in Int
      /\ w.x \in Int /\ w.y \in Int /\ w.width \in Nat /\ w.height \in Nat
      /\ (w.x + w.width) % UintSize \in Int /\ (w.y + w.height) % UintSize \in Int
    BY CornerTypes, WrapsUpwards DEF EndsInRange
<1> DEFINE right == (w.x + w.width) % UintSize
           bottom == (w.y + w.height) % UintSize
           rad == r.radius[corner]
<1> HIDE DEF right, bottom, rad
<1>3. /\ OutX(r, corner, NearX(w, corner)) \in 0 .. rad - 1
      /\ \A x \in w.x .. w.x + w.width :
            OutX(r, corner, x) \in Int /\ OutX(r, corner, x) >= OutX(r, corner, NearX(w, corner))
    <2>1. CASE IsRight(corner)
        BY <1>1, <1>2, <2>1 DEF OutX, NearX, CentreX, WithinCorner, Overlap, right, rad
    <2>2. CASE ~IsRight(corner)
        BY <1>1, <1>2, <2>2 DEF OutX, NearX, CentreX, WithinCorner, Overlap, right, rad
    <2> QED
        BY <2>1, <2>2
<1>4. /\ OutY(r, corner, NearY(w, corner)) \in 0 .. rad - 1
      /\ \A y \in w.y .. w.y + w.height :
            OutY(r, corner, y) \in Int /\ OutY(r, corner, y) >= OutY(r, corner, NearY(w, corner))
    <2>1. CASE IsBottom(corner)
        BY <1>1, <1>2, <2>1 DEF OutY, NearY, CentreY, WithinCorner, Overlap, bottom, rad
    <2>2. CASE ~IsBottom(corner)
        BY <1>1, <1>2, <2>2 DEF OutY, NearY, CentreY, WithinCorner, Overlap, bottom, rad
    <2> QED
        BY <2>1, <2>2
<1> QED
    BY <1>3, <1>4 DEF rad

LEMMA BeyondIsFar ==
    ASSUME NEW r \in SecCompRect, NEW w \in Box4, EndsInRange(w), NEW corner \in CornerNames
    PROVE  BeyondRounding(w, r, corner) <=>
              \/ r.radius[corner] - 1 < 0
              \/ Square(OutX(r, corner, NearX(w, corner))) + Square(OutY(r, corner, NearY(w, corner)))
                    > Square(r.radius[corner] - 1)
<1>1. /\ CentreX(r, corner) \in Int /\ CentreY(r, corner) \in Int
      /\ NearX(w, corner) \in Int /\ NearY(w, corner) \in Int
    BY CornerTypes
<1>2. /\ Square(CentreX(r, corner) - NearX(w, corner)) = Square(OutX(r, corner, NearX(w, corner)))
      /\ Square(CentreY(r, corner) - NearY(w, corner)) = Square(OutY(r, corner, NearY(w, corner)))
    BY <1>1, SquareOfDifference DEF OutX, OutY
<1> QED
    BY <1>2 DEF BeyondRounding

\* What covers the component covers no free space only.
LEMMA CornerHidesNothing ==
    ASSUME NEW r \in SecCompRect, NEW w \in Box4, EndsInRange(w), Overlap(w, r),
           NEW corner \in CornerNames, WithinCorner(w, r, corner), BeyondRounding(w, r, corner),
           NEW x \in w.x .. w.x + w.width, NEW y \in w.y .. w.y + w.height
    PROVE  ~Seen(r, x, y)
<1> DEFINE nx == OutX(r, corner, NearX(w, corner))
           ny == OutY(r, corner, NearY(w, corner))
           dx == OutX(r, corner, x)
           dy == OutY(r, corner, y)
           margin == r.radius[corner] - 1
<1>1. /\ nx \in 0..margin /\ ny \in 0..margin
      /\ dx \in Int /\ dx >= nx /\ dy \in Int /\ dy >= ny
    BY NearIsNearest
<1>2. r.radius[corner] \in Int /\ margin \in Int
    BY CornerTypes
<1>3. margin < 0 \/ Square(nx) + Square(ny) > Square(margin)
    BY BeyondIsFar
<1>4. corner \in DOMAIN r.radius
    BY DEF SecCompRect, CornerNames
<1>5. dx > 0 /\ dy > 0 /\ ~(Square(dx) + Square(dy) <= Square(margin))
    <2> HIDE DEF nx, ny, dx, dy, margin
    <2>1. margin \in Nat /\ nx \in Nat /\ ny \in Nat /\ nx <= margin /\ ny <= margin
        BY <1>1, <1>2
    <2>2. /\ Square(nx) <= Square(dx) /\ Square(ny) <= Square(dy)
          /\ Square(nx) <= Square(margin) /\ Square(ny) <= Square(margin)
        BY <1>1, <2>1, SquareGrows
    <2>3. \A n \in {nx, ny, dx, dy, margin} : Square(n) \in Int
        BY <1>1, <2>1 DEF Square
    <2>4. Square(nx) + Square(ny) > Square(margin)
        BY <1>3, <2>1
    <2>5. nx # 0 /\ ny # 0
        BY <2>2, <2>3, <2>4 DEF Square
    <2> QED
        BY <1>1, <2>1, <2>2, <2>3, <2>4, <2>5
<1> HIDE DEF nx, ny
<1> QED
    BY <1>4, <1>5, Zenon DEF Seen

LEMMA WithinSome ==
    ASSUME NEW w, NEW r
    PROVE  \/ FirstWithin(w, r) = 0 /\ \A corner \in CornerNames : ~WithinCorner(w, r, corner)
           \/ /\ FirstWithin(w, r) \in 1..4 /\ Corners[FirstWithin(w, r)] \in CornerNames
              /\ WithinCorner(w, r, Corners[FirstWithin(w, r)])
<1> DEFINE found == {i \in 1..Len(Corners) : WithinCorner(w, r, Corners[i])}
<1>1. /\ Len(Corners) = 4 /\ \A corner \in CornerNames : \E i \in 1..4 : Corners[i] = corner
      /\ \A i \in 1..4 : Corners[i] \in CornerNames
    BY DEF Corners, CornerNames
<1>2. found # {} => \E n \in found : \A m \in found : n <= m
    BY <1>1
<1>3. found # {} => Min(found) \in found
    BY <1>2 DEF Min
<1>4. FirstWithin(w, r) = IF found # {} THEN Min(found) ELSE 0
    BY DEF FirstWithin, SelectInSeq
<1>5. found = {} => \A corner \in CornerNames : ~WithinCorner(w, r, corner)
    BY <1>1
<1>6. found # {} => Min(found) \in 1..4 /\ WithinCorner(w, r, Corners[Min(found)])
    BY <1>1, <1>3
<1> HIDE DEF found
<1> QED
    BY <1>1, <1>4, <1>5, <1>6

\* A window that hides a point of a component counts as over it.
LEMMA HidingCounts ==
    ASSUME NEW r \in SecCompRect, NEW w \in Box4, EndsInRange(w), Hides(w, r)
    PROVE  IsRectInWindRect(w, r)
<1>1. /\ r.x \in Int /\ r.y \in Int /\ r.width \in Int /\ r.height \in Int
      /\ w.x \in Int /\ w.y \in Int /\ w.width \in Nat /\ w.height \in Nat
    BY DEF SecCompRect, Box4
<1>2. Overlap(w, r)
    BY <1>1 DEF Hides, Overlap, Larger, Smaller
<1>3. PICK x \in Larger(w.x, r.x) .. Smaller(w.x + w.width, r.x + r.width),
           y \in Larger(w.y, r.y) .. Smaller(w.y + w.height, r.y + r.height) : Seen(r, x, y)
    BY DEF Hides
<1>4. x \in w.x .. w.x + w.width /\ y \in w.y .. w.y + w.height
    BY <1>1 DEF Larger, Smaller
<1>5. \A corner \in CornerNames : ~(WithinCorner(w, r, corner) /\ BeyondRounding(w, r, corner))
    BY <1>2, <1>3, <1>4, CornerHidesNothing
<1>6. FirstWithin(w, r) = 0 \/ ~BeyondRounding(w, r, Corners[FirstWithin(w, r)])
    BY <1>5, WithinSome
<1> QED
    BY <1>2, <1>6 DEF IsRectInWindRect, Overlap
-----------------------------------------------------------------------------
(* The converse.                                                           *)

\* A rounding takes at most half of each side.
RadiiFit(r) ==
    \A corner \in DOMAIN r.radius : 2 * r.radius[corner] <= r.width /\ 2 * r.radius[corner] <= r.height

Clamp(n, low, high) == IF n < low THEN low ELSE IF n > high THEN high ELSE n

LEMMA ClampIsWithin ==
    ASSUME NEW n \in Int, NEW low \in Int, NEW high \in Int, low < high
    PROVE  Clamp(n, low, high) \in low..high
BY DEF Clamp

\* Where the point of the overlap that is next to the middle of the component
\* lies in the free space of a corner, it is the near point of the window.
LEMMA MiddleIsNear ==
    ASSUME NEW r \in SecCompRect, NEW w \in Box4, EndsInRange(w), Overlap(w, r), RadiiFit(r),
           r.width > 0, r.height > 0, w.x + w.width >= 0, w.y + w.height >= 0,
           NEW corner \in CornerNames,
           NEW x, x = Clamp(r.x + r.width \div 2, Larger(w.x, r.x), Smaller(w.x + w.width, r.x + r.width)),
           NEW y, y = Clamp(r.y + r.height \div 2, Larger(w.y, r.y), Smaller(w.y + w.height, r.y + r.height)),
           OutX(r, corner, x) > 0, OutY(r, corner, y) > 0
    PROVE  /\ x = NearX(w, corner) /\ y = NearY(w, corner)
           /\ WithinCorner(w, r, corner)
<1>1. /\ r.x \in Int /\ r.y \in Int /\ r.width \in Int /\ r.height \in Int
      /\ r.radius[corner] \in Int
      /\ w.x \in Int /\ w.y \in Int /\ w.width \in Nat /\ w.height \in Nat
      /\ (w.x + w.width) % UintSize = w.x + w.width
      /\ (w.y + w.height) % UintSize = w.y + w.height
    BY CornerTypes, WrapsUpwards DEF EndsInRange
<1>2. 2 * r.radius[corner] <= r.width /\ 2 * r.radius[corner] <= r.height
    BY DEF RadiiFit, SecCompRect, CornerNames
<1> DEFINE rad == r.radius[corner]
           halfX == r.width \div 2
           halfY == r.height \div 2
<1>3. /\ halfX \in Int /\ 2 * halfX <= r.width /\ r.width <= 2 * halfX + 1
      /\ halfY \in Int /\ 2 * halfY <= r.height /\ r.height <= 2 * halfY + 1
    BY <1>1
<1> HIDE DEF rad, halfX, halfY
<1>4. /\ x = NearX(w, corner)
      /\ IF IsRight(corner) THEN NearX(w, corner) >= CentreX(r, corner)
                            ELSE CentreX(r, corner) >= NearX(w, corner)
    <2>1. CASE IsRight(corner)
        BY <1>1, <1>2, <1>3, <2>1 DEF OutX, NearX, CentreX, Overlap, Clamp, Larger, Smaller, rad, halfX
    <2>2. CASE ~IsRight(corner)
        BY <1>1, <1>2, <1>3, <2>2 DEF OutX, NearX, CentreX, Overlap, Clamp, Larger, Smaller, rad, halfX
    <2> QED
        BY <2>1, <2>2
<1>5. /\ y = NearY(w, corner)
      /\ IF IsBottom(corner) THEN NearY(w, corner) >= CentreY(r, corner)
                             ELSE CentreY(r, corner) >= NearY(w, corner)
    <2>1. CASE IsBottom(corner)
        BY <1>1, <1>2, <1>3, <2>1 DEF OutY, NearY, CentreY, Overlap, Clamp, Larger, Smaller, rad, halfY
    <2>2. CASE ~IsBottom(corner)
        BY <1>1, <1>2, <1>3, <2>2 DEF OutY, NearY, CentreY, Overlap, Clamp, Larger, Smaller, rad, halfY
    <2> QED
        BY <2>1, <2>2
<1> QED
    BY <1>4, <1>5 DEF WithinCorner

\* The window can be near one corner only.
LEMMA OneCornerNear ==
    ASSUME NEW r \in SecCompRect, NEW w \in Box4, EndsInRange(w), RadiiFit(r),
           w.x + w.width >= 0, w.y + w.height >= 0,
           NEW corner \in CornerNames, NEW other \in CornerNames,
           WithinCorner(w, r, corner), WithinCorner(w, r, other),
           OutX(r, corner, NearX(w, corner)) > 0, OutY(r, corner, NearY(w, corner)) > 0
    PROVE  other = corner
<1>1. /\ r.x \in Int /\ r.y \in Int /\ r.width \in Int /\ r.height \in Int
      /\ r.radius[corner] \in Int /\ r.radius[other] \in Int
      /\ w.x \in Int /\ w.y \in Int /\ w.width \in Nat /\ w.height \in Nat
      /\ (w.x + w.width) % UintSize = w.x + w.width
      /\ (w.y + w.height) % UintSize = w.y + w.height
    BY CornerTypes, WrapsUpwards DEF EndsInRange
<1>2. /\ 2 * r.radius[corner] <= r.width /\ 2 * r.radius[corner] <= r.height
      /\ 2 * r.radius[other] <= r.width /\ 2 * r.radius[other] <= r.height
    BY DEF RadiiFit, SecCompRect, CornerNames
<1> DEFINE rad == r.radius[corner]
           radOther == r.radius[other]
<1> HIDE DEF rad, radOther
<1>3. IsRight(other) <=> IsRight(corner)
    <2>1. CASE IsRight(corner) /\ ~IsRight(other)
        BY <1>1, <1>2, <2>1 DEF OutX, NearX, CentreX, WithinCorner, rad, radOther
    <2>2. CASE ~IsRight(corner) /\ IsRight(other)
        BY <1>1, <1>2, <2>2 DEF OutX, NearX, CentreX, WithinCorner, rad, radOther
    <2> QED
        BY <2>1, <2>2
<1>4. IsBottom(other) <=> IsBottom(corner)
    <2>1. CASE IsBottom(corner) /\ ~IsBottom(other)
        BY <1>1, <1>2, <2>1 DEF OutY, NearY, CentreY, WithinCorner, rad, radOther
    <2>2. CASE ~IsBottom(corner) /\ IsBottom(other)
        BY <1>1, <1>2, <2>2 DEF OutY, NearY, CentreY, WithinCorner, rad, radOther
    <2> QED
        BY <2>1, <2>2
<1> QED
    BY <1>3, <1>4 DEF IsRight, IsBottom, CornerNames

\* A window of some size that counts as over a component hides a point of it,
\* where the roundings fit and the edges of the window do not wrap around.
LEMMA CountedHides ==
    ASSUME NEW r \in SecCompRect, NEW w \in Box4, EndsInRange(w), RadiiFit(r),
           r.width > 0, r.height > 0, w.width > 0, w.height > 0,
           w.x + w.width >= 0, w.y + w.height >= 0,
           IsRectInWindRect(w, r)
    PROVE  Hides(w, r)
<1>1. /\ r.x \in Int /\ r.y \in Int /\ r.width \in Int /\ r.height \in Int
      /\ w.x \in Int /\ w.y \in Int /\ w.width \in Nat /\ w.height \in Nat
    BY DEF SecCompRect, Box4
<1>2. Overlap(w, r)
    BY DEF IsRectInWindRect, Overlap
<1> DEFINE left == Larger(w.x, r.x)
           right == Smaller(w.x + w.width, r.x + r.width)
           top == Larger(w.y, r.y)
           bottom == Smaller(w.y + w.height, r.y + r.height)
           x == Clamp(r.x + r.width \div 2, left, right)
           y == Clamp(r.y + r.height \div 2, top, bottom)
<1>3. left < right /\ top < bottom
    BY <1>1, <1>2 DEF Overlap, Larger, Smaller
<1>4. x \in left..right /\ y \in top..bottom
    <2>1. r.x + r.width \div 2 \in Int /\ r.y + r.height \div 2 \in Int
        BY <1>1
    <2>2. left \in Int /\ right \in Int /\ top \in Int /\ bottom \in Int
        BY <1>1 DEF Larger, Smaller
    <2> HIDE DEF left, right, top, bottom
    <2> QED
        BY <1>3, <2>1, <2>2, ClampIsWithin
<1>5. ASSUME NEW corner \in CornerNames, OutX(r, corner, x) > 0, OutY(r, corner, y) > 0
      PROVE  /\ r.radius[corner] > 0
             /\ Square(OutX(r, corner, x)) + Square(OutY(r, corner, y)) <= Square(r.radius[corner] - 1)
    <2>1. x = NearX(w, corner) /\ y = NearY(w, corner) /\ WithinCorner(w, r, corner)
        BY <1>2, <1>5, MiddleIsNear
    <2>2. Corners[FirstWithin(w, r)] = corner /\ FirstWithin(w, r) # 0
        <3>1. \A other \in CornerNames : WithinCorner(w, r, other) => other = corner
            <4> HIDE DEF x, y
            <4> QED
                BY <1>5, <2>1, OneCornerNear
        <3> QED
            BY <2>1, <3>1, WithinSome
    <2>3. ~BeyondRounding(w, r, corner)
        BY <2>2 DEF IsRectInWindRect
    <2>4. /\ r.radius[corner] \in Int /\ CentreX(r, corner) \in Int /\ CentreY(r, corner) \in Int
          /\ x \in Int /\ y \in Int
        BY <1>4, <2>1, CornerTypes
    <2>5. Square(OutX(r, corner, x)) \in Int /\ Square(OutY(r, corner, y)) \in Int
          /\ Square(r.radius[corner] - 1) \in Int
        <3>1. OutX(r, corner, x) \in Int /\ OutY(r, corner, y) \in Int
            BY <2>4 DEF OutX, OutY
        <3> HIDE DEF x, y
        <3> QED
            BY <2>4, <3>1 DEF Square
    <2> HIDE DEF x, y
    <2> QED
        BY <2>1, <2>3, <2>4, <2>5, BeyondIsFar
<1>6. DOMAIN r.radius = CornerNames
    BY DEF SecCompRect, CornerNames
<1>7. Seen(r, x, y)
    <2> HIDE DEF x, y
    <2> QED
        BY <1>5, <1>6 DEF Seen
<1> HIDE DEF x, y
<1>8. \E p \in left..right, q \in top..bottom : Seen(r, p, q)
    BY <1>4, <1>7
<1> QED
    BY <1>3, <1>8, Zenon DEF Hides
-----------------------------------------------------------------------------
(* The list of windows.                                                    *)

\* What WindowAssumption says of the windows of a layout.
ListedOnce(windows) ==
    /\ windows \in Seq(WindowType)
    /\ \A i, j \in DOMAIN windows :
          /\ windows[i].id = windows[j].id => i = j
          /\ EndsInRange(ShownRect(windows[i]))

LEMMA PrefixOf ==
    ASSUME NEW windows, ListedOnce(windows), NEW n \in 0..Len(windows)
    PROVE  /\ Len(windows) \in Nat /\ DOMAIN windows = 1..Len(windows)
           /\ Len(SubSeq(windows, 1, n)) = n /\ DOMAIN SubSeq(windows, 1, n) = 1..n
           /\ \A i \in 1..n : SubSeq(windows, 1, n)[i] = windows[i]
<1>1. windows \in Seq(WindowType) /\ Len(windows) \in Nat /\ DOMAIN windows = 1..Len(windows)
    BY LenProperties DEF ListedOnce
<1>2. \A i \in 1..n : windows[i] \in WindowType
    BY <1>1, ElementOfSeq
<1>3. /\ SubSeq(windows, 1, n) \in Seq(WindowType)
      /\ Len(SubSeq(windows, 1, n)) = n
      /\ \A i \in 1..n : SubSeq(windows, 1, n)[i] = windows[i]
    BY <1>2, SubSeqProperties
<1> QED
    BY <1>1, <1>3, LenProperties

\* The layer of the component is that of its window, once that is looked at.
LEMMA LayerOfOwn ==
    ASSUME NEW windows, ListedOnce(windows), NEW own \in DOMAIN windows,
           NEW n \in 0..Len(windows)
    PROVE  CompLayer(windows[own].id, SubSeq(windows, 1, n)) =
              IF own <= n THEN windows[own].zOrder ELSE INVALID_WINDOW_LAYER
<1> DEFINE some == SubSeq(windows, 1, n)
           found == {i \in 1..Len(some) : some[i].id = windows[own].id}
<1>1. /\ Len(windows) \in Nat /\ own \in 1..Len(windows)
      /\ Len(some) = n /\ \A i \in 1..n : some[i] = windows[i]
    BY PrefixOf
<1>2. found = IF own <= n THEN {own} ELSE {}
    BY <1>1, PrefixOf DEF ListedOnce
<1>3. Max({own}) = own
    BY <1>1 DEF Max
<1>4. CompLayer(windows[own].id, some) =
         LET last == IF found # {} THEN Max(found) ELSE 0
         IN  IF last = 0 THEN INVALID_WINDOW_LAYER ELSE some[last].zOrder
    BY DEF CompLayer, SelectLastInSeq
<1>5. CompLayer(windows[own].id, some) =
          IF own <= n THEN windows[own].zOrder ELSE INVALID_WINDOW_LAYER
    <2> HIDE DEF some, found
    <2>1. CASE own <= n
        BY <1>1, <1>2, <1>3, <1>4, <2>1
    <2>2. CASE ~(own <= n)
        BY <1>2, <1>4, <2>2
    <2> QED
        BY <2>1, <2>2
<1> QED
    BY <1>5

LEMMA WholeList ==
    ASSUME NEW windows, ListedOnce(windows)
    PROVE  SubSeq(windows, 1, Len(windows)) = windows
<1>1. /\ windows \in Seq(WindowType) /\ Len(windows) \in Nat
      /\ DOMAIN windows = 1..Len(windows)
    BY LenProperties DEF ListedOnce
<1>2. /\ SubSeq(windows, 1, Len(windows)) \in Seq(WindowType)
      /\ Len(SubSeq(windows, 1, Len(windows))) = Len(windows)
      /\ \A i \in 1..Len(windows) : SubSeq(windows, 1, Len(windows))[i] = windows[i]
    <2>1. \A i \in 1..Len(windows) : windows[i] \in WindowType
        BY <1>1, ElementOfSeq
    <2> QED
        BY <1>1, <2>1, SubSeqProperties
<1> QED
    BY <1>1, <1>2, SeqEqual

LEMMA LayerWhenAllSeen ==
    ASSUME NEW windows, ListedOnce(windows), NEW own \in DOMAIN windows
    PROVE  CompLayer(windows[own].id, windows) = windows[own].zOrder
<1>1. Len(windows) \in Nat /\ own \in 1..Len(windows)
    BY LenProperties DEF ListedOnce
<1>2. Len(windows) \in 0..Len(windows) /\ own <= Len(windows)
    BY <1>1
<1>3. CompLayer(windows[own].id, SubSeq(windows, 1, Len(windows))) = windows[own].zOrder
    BY <1>2, LayerOfOwn
<1> QED
    BY <1>3, WholeList

LEMMA NoLayerWithoutOwn ==
    ASSUME NEW id, NEW windows, ListedOnce(windows), NEW n \in 0..Len(windows),
           CompLayer(id, SubSeq(windows, 1, n)) # INVALID_WINDOW_LAYER
    PROVE  \E own \in DOMAIN windows : windows[own].id = id
<1> DEFINE some == SubSeq(windows, 1, n)
           found == {i \in 1..Len(some) : some[i].id = id}
<1>1. Len(some) = n /\ DOMAIN windows = 1..Len(windows) /\ \A i \in 1..n : some[i] = windows[i]
    BY PrefixOf
<1>2. CompLayer(id, some) =
         LET last == IF found # {} THEN Max(found) ELSE 0
         IN  IF last = 0 THEN INVALID_WINDOW_LAYER ELSE some[last].zOrder
    BY DEF CompLayer, SelectLastInSeq
<1> HIDE DEF some, found
<1>3. found # {}
    BY <1>2 DEF some
<1> QED
    BY <1>1, <1>3 DEF found

LEMMA MinIsIn ==
    ASSUME NEW I \in SUBSET Nat, I # {}
    PROVE  Min(I) \in I
<1> DEFINE less == {ss \in Nat \X Nat : ss[1] < ss[2]}
<1>1. OpToRel(<, Nat) = less
  BY Zenon DEF OpToRel
<1>2. IsWellFoundedOn(less, Nat)
  BY <1>1, NatLessThanWellFounded, Zenon
<1>3. \E n \in I : \A m \in I : ~(<<m, n>> \in less)
  BY <1>2, WFMin
<1>4. \E n \in I : \A m \in I : n <= m
  <2>1. PICK n \in I : \A m \in I : ~(<<m, n>> \in less)
    BY <1>3
  <2>2. ASSUME NEW m \in I
        PROVE  n <= m
    <3>1. m \in Nat /\ n \in Nat
      OBVIOUS
    <3>2. m < n => <<m, n>> \in less
      BY <3>1
    <3> HIDE DEF less
    <3> QED
      BY <2>1, <3>1, <3>2
  <2> QED
    BY <2>2
<1> QED
  BY <1>4 DEF Min

\* Where the loop stops there is a window to refuse the click for.
LEMMA StopMeansCover ==
    ASSUME NEW id, NEW r, NEW windows, ListedOnce(windows),
           ~IsUIExtension(id), CheckOtherWindowCoverComp(id, r, windows)
    PROVE  LookedAt(id, r, windows) = windows
<1> SUFFICES ASSUME Stops(id, r, windows) # {}
             PROVE  FALSE
    BY DEF LookedAt
<1> DEFINE stops == Stops(id, r, windows)
           stop == Min(stops)
           looked == SubSeq(windows, 1, stop)
<1>1. Len(windows) \in Nat /\ DOMAIN windows = 1..Len(windows)
    BY LenProperties DEF ListedOnce
<1>2. stops \subseteq 1..Len(windows)
    BY <1>1 DEF Stops, LayerList
<1>3. stop \in stops
    BY <1>1, <1>2, MinIsIn
<1>4. /\ stop \in 1..Len(windows)
      /\ windows[stop].id # id /\ IsRectInWindRect(ShownRect(windows[stop]), r)
      /\ CompLayer(id, SubSeq(windows, 1, stop - 1)) # INVALID_WINDOW_LAYER
      /\ windows[stop].zOrder >= CompLayer(id, SubSeq(windows, 1, stop - 1))
    BY <1>1, <1>3 DEF Stops, LayerList
<1>5. looked = LookedAt(id, r, windows)
    BY DEF LookedAt
<1> HIDE DEF stop, stops
<1>6. stop - 1 \in 0..Len(windows) /\ stop \in 0..Len(windows)
    BY <1>1, <1>4
<1>7. PICK own \in DOMAIN windows : windows[own].id = id
    BY <1>4, <1>6, NoLayerWithoutOwn
<1>8. own \in 1..Len(windows) /\ windows[own].zOrder \in Nat /\ windows[stop].zOrder \in Nat
    <2>1. windows[own] \in WindowType /\ windows[stop] \in WindowType
        BY <1>1, <1>4, <1>7, ElementOfSeq DEF ListedOnce
    <2> QED
        BY <1>1, <1>7, <2>1 DEF WindowType
<1>9. own <= stop - 1
    BY <1>4, <1>6, <1>7, LayerOfOwn
<1>10. /\ CompLayer(id, SubSeq(windows, 1, stop - 1)) = windows[own].zOrder
       /\ CompLayer(id, looked) = windows[own].zOrder
    BY <1>1, <1>4, <1>6, <1>7, <1>8, <1>9, LayerOfOwn
<1>11. stop \in LayerList(id, r, looked) /\ looked[stop] = windows[stop]
    BY <1>4, <1>6, PrefixOf DEF LayerList
<1>12. looked[stop].zOrder < CompLayer(id, looked)
    BY <1>5, <1>11 DEF CheckOtherWindowCoverComp
<1> QED
    BY <1>4, <1>8, <1>10, <1>11, <1>12

\* A component that passes the check of other windows is covered by none of them.
LEMMA CheckedIsUncovered ==
    ASSUME NEW id, NEW r \in SecCompRect, ListedOnce(layout.windows),
           ~IsUIExtension(id), CheckOtherWindowCoverComp(id, r, layout.windows)
    PROVE  ~Covered(id, r)
<1> DEFINE windows == layout.windows
<1> SUFFICES ASSUME NEW own \in DOMAIN windows, NEW other \in DOMAIN windows,
                    windows[own].id = id, windows[other].id # id,
                    windows[other].zOrder >= windows[own].zOrder,
                    Hides(ShownRect(windows[other]), r)
             PROVE  FALSE
    BY DEF Covered
<1>1. Len(windows) \in 0..Len(windows) /\ DOMAIN windows = 1..Len(windows)
    BY LenProperties DEF ListedOnce
<1>2. windows[own] \in WindowType /\ windows[other] \in WindowType
    BY <1>1, ElementOfSeq DEF ListedOnce
<1>3. CompLayer(id, windows) = windows[own].zOrder
    BY LayerWhenAllSeen
<1>4. IsRectInWindRect(ShownRect(windows[other]), r)
    BY <1>2, ShownIsBox, HidingCounts DEF ListedOnce
<1>5. other \in LayerList(id, r, windows)
    BY <1>4 DEF LayerList
<1>6. windows[other].zOrder < CompLayer(id, windows)
    BY <1>5, StopMeansCover DEF CheckOtherWindowCoverComp
<1>7. windows[own].zOrder \in Nat /\ windows[other].zOrder \in Nat
    BY <1>2 DEF WindowType
<1> QED
    BY <1>3, <1>6, <1>7

\* Roundings fit and windows have an area: then no window counts too many.
PlainGeometry(windows, r) ==
    /\ RadiiFit(r)
    /\ \A i \in DOMAIN windows :
          ShownRect(windows[i]).width > 0 /\ ShownRect(windows[i]).height > 0

EndsOnScreen(w) == w.x + w.width >= 0 /\ w.y + w.height >= 0

\* A component that fails the check is covered, or its window is not listed.
LEMMA RefusedIsCovered ==
    ASSUME NEW id, NEW r \in SecCompRect, ListedOnce(layout.windows),
           PlainGeometry(layout.windows, r), r.width > 0, r.height > 0,
           \A i \in DOMAIN layout.windows : EndsOnScreen(ShownRect(layout.windows[i])),
           ~CheckOtherWindowCoverComp(id, r, layout.windows),
           NEW own \in DOMAIN layout.windows, layout.windows[own].id = id
    PROVE  Covered(id, r)
<1> DEFINE windows == layout.windows
<1>1. Len(windows) \in Nat /\ Len(windows) \in 0..Len(windows) /\ DOMAIN windows = 1..Len(windows)
    BY LenProperties DEF ListedOnce
<1>2. \A i \in DOMAIN windows : windows[i] \in WindowType
    BY <1>1, ElementOfSeq DEF ListedOnce
<1>3. windows[own].zOrder \in Nat /\ windows[own].zOrder # INVALID_WINDOW_LAYER
    BY <1>2 DEF WindowType, INVALID_WINDOW_LAYER
<1>4. ASSUME NEW i \in LayerList(id, r, windows), ~(windows[i].zOrder < windows[own].zOrder)
      PROVE  Covered(id, r)
    <2>1. i \in DOMAIN windows /\ windows[i].id # id /\ IsRectInWindRect(ShownRect(windows[i]), r)
        BY <1>4 DEF LayerList
    <2>2. Hides(ShownRect(windows[i]), r)
        BY <1>2, <2>1, ShownIsBox, CountedHides DEF ListedOnce, PlainGeometry, EndsOnScreen
    <2>3. windows[i].zOrder >= windows[own].zOrder
        BY <1>2, <1>3, <1>4, <2>1 DEF WindowType
    <2> QED
        BY <2>1, <2>2, <2>3 DEF Covered
<1>5. CASE Stops(id, r, windows) = {}
    <2>1. LookedAt(id, r, windows) = windows
        BY <1>5 DEF LookedAt
    <2>2. CompLayer(id, windows) = windows[own].zOrder
        BY LayerWhenAllSeen
    <2>3. PICK i \in LayerList(id, r, windows) : ~(windows[i].zOrder < windows[own].zOrder)
        BY <1>3, <2>1, <2>2 DEF CheckOtherWindowCoverComp
    <2> QED
        BY <1>4, <2>3
<1>6. CASE Stops(id, r, windows) # {}
    <2>1. PICK i \in LayerList(id, r, windows) :
              /\ CompLayer(id, SubSeq(windows, 1, i - 1)) # INVALID_WINDOW_LAYER
              /\ windows[i].zOrder >= CompLayer(id, SubSeq(windows, 1, i - 1))
        BY <1>6 DEF Stops
    <2>2. i \in 1..Len(windows) /\ i - 1 \in 0..Len(windows)
        BY <1>1, <2>1 DEF LayerList
    <2>3. CompLayer(id, SubSeq(windows, 1, i - 1)) = windows[own].zOrder
        BY <2>1, <2>2, LayerOfOwn
    <2>4. ~(windows[i].zOrder < windows[own].zOrder)
        BY <1>1, <1>2, <1>3, <2>1, <2>2, <2>3 DEF WindowType
    <2> QED
        BY <1>4, <2>4
<1> QED
    BY <1>5, <1>6
-----------------------------------------------------------------------------
LEMMA LayoutsListOnce ==
    ASSUME StateInv
    PROVE  ListedOnce(layout.windows)
BY WindowAssumption DEF StateInv, ListedOnce, WindowType, Box4, EndsInRange

LEMMA ClickedRectIsPlace ==
    ASSUME StateInv, NEW c \in Report
    PROVE  ClickedRect(c, ReportedInfo(c), Offset(c)) \in SecCompRect
<1>1. ReportedInfo(c).rect \in SecCompRect
    BY PlacedIsPlace DEF ReportedInfo, ParseComponent
<1>2. Offset(c) \in Int
    BY OffsetIsInt DEF Offset
<1>3. \A r \in SecCompRect, n \in Int : [r EXCEPT !.y = @ + n] \in SecCompRect
    BY DEF SecCompRect
<1> QED
    BY <1>1, <1>2, <1>3 DEF ClickedRect

\* A location or paste component that another window hides, in whatever order
\* the windows are listed, is not clicked, for every shape of windows and
\* roundings.
THEOREM ClickedUncovered == Spec => []ClickUncovered
<1>1. Init => ClickUncovered
    BY DEF Init, ClickUncovered
<1>2. StateInv /\ ClickUncovered /\ [Next]_vars => ClickUncovered'
    <2> SUFFICES ASSUME StateInv, ClickUncovered, [Next]_vars
                 PROVE  ClickUncovered'
        OBVIOUS
    <2>1. CASE accepted' = None
        BY <2>1 DEF ClickUncovered
    <2>2. CASE UNCHANGED vars
        BY <2>2 DEF vars, ClickUncovered, Covered
    <2>3. ASSUME NEW c \in Report, Accepts(c)
          PROVE  ClickUncovered'
        <3> DEFINE r == ClickedRect(c, ReportedInfo(c), Offset(c))
                   id == c.desc.windowId
        <3>1. layout' = layout
            BY <2>3 DEF Accepts
        <3>2. sc'.info.type = c.desc.type /\ sc'.info.desc.windowId = id /\ ReportedInfo(c).desc = c.desc
              /\ ReportedInfo(c).type = c.desc.type
            BY <2>3, AcceptedInfo DEF Accepts, ReportedInfo, ParseComponent
        <3>3. sc'.info.rect = r
            BY <2>3 DEF Accepts, ReportedInfo, ParseComponent
        <3>4. c.desc.type = SAVE_COMPONENT \/ CheckOtherWindowCoverComp(id, r, layout.windows)
            BY <2>3, <3>2 DEF Accepts, CheckClickInfo
        <3>5. r \in SecCompRect
            BY ClickedRectIsPlace
        <3>6. c.desc.type # SAVE_COMPONENT /\ ~IsUIExtension(id) => ~Covered(id, r)
            <4> HIDE DEF r, id
            <4> QED
                BY <3>4, <3>5, LayoutsListOnce, CheckedIsUncovered
        <3>7. Covered(sc.info.desc.windowId, sc.info.rect)' = Covered(id, r)
            <4> HIDE DEF r, id
            <4> QED
                BY <3>1, <3>2, <3>3 DEF Covered
        <3> HIDE DEF r, id
        <3> QED
            BY <3>2, <3>6, <3>7 DEF ClickUncovered
    <2> QED
        BY <2>1, <2>2, <2>3, StepAccepts
<1> QED
    BY <1>1, <1>2, StateInvHolds, PTL DEF Spec
-----------------------------------------------------------------------------
(* What is stored was parsed.                                              *)

InfoOK(info) ==
    /\ info.type \in Button
    /\ info.desc.crossAxisState \in STATE_INVALID..STATE_NO_CROSS
    /\ info.desc.tipPosition \in 0..1
    /\ info.desc.absent = {}
    /\ info.rect \in SecCompRect

\* A component made of a description that can be parsed.
LEMMA ParsedIsTyped ==
    ASSUME StateInv, NEW d \in Description \cup {c.desc : c \in Report},
           NEW button, NEW clicked, NEW systemApp, FromJson(button, d, clicked, systemApp)
    PROVE  InfoOK(ParseComponent(d, systemApp))
<1>1. d.type \in Button
    BY DescriptionAssumption DEF FromJson, ParseType, UNKNOWN_SC_TYPE, MAX_SC_TYPE, Button
<1>2. d.crossAxisState \in STATE_INVALID..STATE_NO_CROSS /\ d.tipPosition \in 0..1
    BY DEF FromJson, ParseDisplayInfo, ParseCustomInfo
<1>3. d.absent = {}
    <2>1. d.absent \subseteq Tags
        BY DescriptionAssumption
    <2>2. ASSUME NEW tag \in Tags PROVE tag \notin d.absent
        BY <2>2 DEF Tags, FromJson, Parsed, ParseType, ParseParent, ParseRects, ParseSize, ParseColors,
               ParseStyle, ParseDisplayInfo, ParseCustomInfo, ParseNonCompatibleChange
    <2> QED
        BY <2>1, <2>2
<1>4. Placed(d, layout.scale).desc = d
    BY DEF Placed, AdjustSecCompRect
<1>5. Placed(d, layout.scale).rect \in SecCompRect
    BY PlacedIsPlace
<1> DEFINE info == ParseComponent(d, systemApp)
<1>6. info.type = d.type /\ info.desc = d /\ info.rect \in SecCompRect
    BY <1>4, <1>5 DEF ParseComponent
<1> HIDE DEF info
<1>7. InfoOK(info)
    BY <1>1, <1>2, <1>3, <1>6 DEF InfoOK
<1> QED
    BY <1>7 DEF info

\* A report that no stage refuses was parsed.
LEMMA UnrefusedIsParsed ==
    ASSUME NEW c, NEW info,
           "refuse" \notin {InfoStages(c, info)[i] : i \in DOMAIN InfoStages(c, info)}
    PROVE  FromJson(sc.info.type, c.desc, TRUE, sc.systemApp)
<1> DEFINE arkui == ArkuiStage(c)
           valid == CheckComponentInfoValid(c, info)
           rect == CheckRectInfo(info)
           stages == InfoStages(c, info)
<1>1. stages = IF arkui = "refuse" THEN <<"refuse">>
               ELSE IF valid = "refuse" THEN <<arkui, "refuse">>
               ELSE <<arkui, valid, rect>>
    BY DEF InfoStages
<1>2. \A i \in DOMAIN stages : stages[i] # "refuse"
    OBVIOUS
<1>3. valid # "refuse"
    <2> HIDE DEF arkui, valid, rect, stages
    <2> QED
        BY <1>1, <1>2
<1> QED
    BY <1>3 DEF CheckComponentInfoValid

\* Every component the service keeps was parsed from a complete description,
\* whatever was refused before, and its place stays a place of whole numbers.
THEOREM Typing == Spec => []TypeOK
<1>1. Init => TypeOK
    BY TimeAssumption DEF Init, TypeOK
<1>2. StateInv /\ TypeOK /\ [Next]_vars => TypeOK'
    <2> SUFFICES ASSUME StateInv, TypeOK, [Next]_vars
                 PROVE  TypeOK'
        OBVIOUS
    <2>1. CASE Tick
        BY <2>1, TimeAssumption DEF Tick, TypeOK
    <2>2. CASE LayoutChanges
        BY <2>2 DEF LayoutChanges, TypeOK
    <2>3. ASSUME NEW d \in Description, NEW type, NEW custom, NEW systemApp,
                 RegisterSecurityComponent(type, d, custom, systemApp)
          PROVE  TypeOK'
        <3>1. InfoOK(ParseComponent(d, systemApp))
            BY <2>3, ParsedIsTyped DEF RegisterSecurityComponent
        <3> QED
            BY <2>3, <3>1 DEF RegisterSecurityComponent, TypeOK, InfoOK
    <2>4. ASSUME NEW d \in Description, UpdateSecurityComponent(d)
          PROVE  TypeOK'
        <3>1. InfoOK(ParseComponent(d, sc.systemApp))
            BY <2>4, ParsedIsTyped DEF UpdateSecurityComponent
        <3> QED
            BY <2>4, <3>1 DEF UpdateSecurityComponent, TypeOK, InfoOK, StateInv
    <2>5. ASSUME NEW c \in Report, sc # None, NEW stages, RefuseInfo(c, stages)
          PROVE  TypeOK'
        <3>1. sc'.info = sc.info
            BY <2>5 DEF RefuseInfo, StateInv
        <3>2. superFoldOffsetY' \in {0, CreaseOffset}
            BY <2>5 DEF RefuseInfo, TypeOK, GetFoldOffsetY
        <3> QED
            BY <2>5, <3>1, <3>2 DEF RefuseInfo, TypeOK
    <2>6. ASSUME NEW c \in Report, sc # None, NEW extraValid,
                 CheckClick(c, ReportedInfo(c), InfoStages(c, ReportedInfo(c)), extraValid)
          PROVE  TypeOK'
        <3> DEFINE r == ClickedRect(c, ReportedInfo(c), Offset(c))
                   moved == [ReportedInfo(c) EXCEPT !.rect = r]
        <3>1. sc'.info = moved
            <4>1. sc' = [sc EXCEPT !.info = moved,
                                   !.bypassSecurityCheck = Bypassed(InfoStages(c, ReportedInfo(c)))]
                BY <2>6 DEF CheckClick, Offset
            <4> HIDE DEF moved
            <4> QED
                BY <2>6, <4>1 DEF StateInv
        <3>2. FromJson(sc.info.type, c.desc, TRUE, sc.systemApp)
            BY <2>6, UnrefusedIsParsed DEF CheckClick
        <3>3. InfoOK(ReportedInfo(c))
            BY <3>2, ParsedIsTyped DEF ReportedInfo
        <3>4. sc'.info.type = ReportedInfo(c).type /\ sc'.info.desc = ReportedInfo(c).desc
              /\ sc'.info.rect = r
            <4> HIDE DEF r
            <4> QED
                BY <3>1 DEF ReportedInfo, ParseComponent
        <3>5. r \in SecCompRect
            BY ClickedRectIsPlace
        <3>6. superFoldOffsetY' \in {0, CreaseOffset}
            BY <2>6 DEF CheckClick, TypeOK, GetFoldOffsetY
        <3>7. now' = now /\ layout' = layout /\ accepted' \in Report \cup {None}
            BY <2>6 DEF CheckClick
        <3> HIDE DEF r, moved
        <3> QED
            BY <3>3, <3>4, <3>5, <3>6, <3>7 DEF TypeOK, InfoOK
    <2>7. CASE UNCHANGED vars
        BY <2>7 DEF vars, TypeOK
    <2> QED
        BY <2>1, <2>2, <2>3, <2>4, <2>5, <2>6, <2>7 DEF Next, ReportedInfo
<1> QED
    BY <1>1, <1>2, StateInvHolds, PTL DEF Spec

\* A component whose roundings take at most half of its sides is refused for
\* windows only that hide a point of it, if every window has an area.
THEOREM FreeSpaceIsFree ==
    Spec => [](PlainGeometry(layout.windows, sc.info.rect) => NoFalseCover)
<1>1. StateInv /\ TypeOK => (PlainGeometry(layout.windows, sc.info.rect) => NoFalseCover)
    <2> SUFFICES ASSUME StateInv, TypeOK, PlainGeometry(layout.windows, sc.info.rect), sc # None,
                        sc.info.rect.width > 0, sc.info.rect.height > 0,
                        ~CheckOtherWindowCoverComp(sc.info.desc.windowId, sc.info.rect, layout.windows),
                        NEW own \in DOMAIN layout.windows,
                        layout.windows[own].id = sc.info.desc.windowId,
                        ~\E i \in DOMAIN layout.windows :
                            LET w == ShownRect(layout.windows[i]) IN w.x + w.width < 0 \/ w.y + w.height < 0
                 PROVE  Covered(sc.info.desc.windowId, sc.info.rect)
        BY Zenon DEF NoFalseCover
    <2>1. sc.info.rect \in SecCompRect
        BY DEF TypeOK
    <2>2. ListedOnce(layout.windows)
        BY LayoutsListOnce
    <2>3. ASSUME NEW i \in DOMAIN layout.windows
          PROVE  EndsOnScreen(ShownRect(layout.windows[i]))
        <3>1. layout.windows[i] \in WindowType
            BY <2>2, ElementOfSeq, LenProperties DEF ListedOnce
        <3>2. ShownRect(layout.windows[i]) \in Box4
            BY <3>1, ShownIsBox
        <3> QED
            BY <3>2 DEF EndsOnScreen, Box4
    <2> QED
        BY <2>1, <2>2, <2>3, RefusedIsCovered
<1> QED
    BY <1>1, StateInvHolds, Typing, PTL
=============================================================================
